------------------------------- MODULE Archive -------------------------------
(***************************************************************************)
(* From the names in an uploaded archive to the paths that visitors ask     *)
(* for (extractZip, isHidden, normalizeFilePath and GetFile in              *)
(* internal/service/content.go, ServeFile in internal/handler/serving.go).  *)
(* A name is the sequence of its segments, as split at "/": "/a" is         *)
(* <<"", "a">>, "a/" is <<"a", "">> and the empty name is <<"">>.           *)
(***************************************************************************)
EXTENDS Naturals, SequencesExt

CONSTANTS
  Segments,    \* the segments names are made of
  Blank,       \* the empty one
  Dotted,      \* those that begin with ".", "." and ".." among them
  DoubleDots,  \* those that contain "..", ".." among them
  MacSegments, \* those that begin with "__MACOSX"
  MaxSegments, \* bound on the segments of a name
  MaxEntries   \* bound on the entries of an archive

Names == UNION {[1 .. n -> Segments] : n \in 1 .. MaxSegments}
Archives == UNION {[1 .. n -> Names] : n \in 1 .. MaxEntries}

ASSUME ArchiveAssumption ==
  /\ Dotted \cup DoubleDots \cup MacSegments \subseteq Segments
  /\ Blank \notin Dotted \cup DoubleDots \cup MacSegments
  /\ MacSegments \cap (Dotted \cup DoubleDots) = {}
  /\ {".", ".."} \subseteq Dotted /\ ".." \in DoubleDots /\ "." \notin DoubleDots
  /\ MaxSegments \in Nat /\ MaxEntries \in Nat

VARIABLES
  archive,  \* the names in the uploaded archive, in order
  next,     \* the entry extractZip comes to next
  stored    \* stored[i]: the path entry i is stored at, <<>> when it is skipped

vars == <<archive, next, stored>>

Init == /\ archive \in Archives
        /\ next = 1
        /\ stored = [i \in DOMAIN archive |-> <<>>]

-----------------------------------------------------------------------------
(* Names and paths.                                                        *)

IsDir(name) == Len(name) > 1 /\ Last(name) = Blank
Rooted(name) == Len(name) > 1 /\ name[1] = Blank

\* One segment of filepath.Clean, over the path cleaned so far.
CleanSegment(rooted, path, seg) ==
  CASE seg \in {Blank, "."} -> path
    [] seg = ".." /\ path # <<>> /\ Last(path) # ".." -> Front(path)
    [] seg = ".." /\ (path = <<>> \/ Last(path) = "..") ->
         IF rooted THEN path ELSE Append(path, "..")
    [] OTHER -> Append(path, seg)

\* filepath.Clean of a name that is not rooted; nothing left is ".".
Clean(name) ==
  LET path == FoldLeft(LAMBDA p, s : CleanSegment(Rooted(name), p, s), <<>>, name)
  IN IF path = <<>> THEN <<".">> ELSE path

IsHidden(name) == \E i \in DOMAIN name : name[i] \in Dotted

\* normalizeFilePath: <<>> for a rooted path and one that leads out.  (One that
\* begins with a backslash is dropped like a rooted one; no segment here does.)
Normalized(name) ==
  IF Rooted(name) \/ Clean(name)[1] \in Dotted \cap DoubleDots THEN <<>>
  ELSE Clean(name)

\* Mutant of PathOf: the name is cleaned before it is looked at.
PathOfCleaned(name) ==
  IF IsDir(name) \/ name[1] \in MacSegments THEN <<>>
  ELSE IF IsHidden(Normalized(name)) THEN <<>> ELSE Normalized(name)

\* Mutant of PathOf: a Macintosh segment anywhere in the name skips the entry.
PathOfNoMac(name) ==
  IF IsDir(name) \/ IsHidden(name) \/ \E i \in DOMAIN name : name[i] \in MacSegments
  THEN <<>> ELSE Normalized(name)

\* Mutant of PathOf: the path is stored as it is named.
PathOfVerbatim(name) ==
  IF IsDir(name) \/ name[1] \in MacSegments \/ IsHidden(name) \/ Normalized(name) = <<>>
  THEN <<>> ELSE name

\* Where the file of an entry is stored; <<>> when it is skipped.
PathOf(name) ==
  IF IsDir(name) \/ name[1] \in MacSegments \/ IsHidden(name) THEN <<>>
  ELSE Normalized(name)

\* extractZip, one entry.
Extract == /\ next <= Len(archive)
           /\ stored' = [stored EXCEPT ![next] = PathOf(archive[next])]
           /\ next' = next + 1
           /\ UNCHANGED archive

\* The entries that answer a request for path: a path with ".." in it is refused.
Found(path) == IF \E i \in DOMAIN path : path[i] \in DoubleDots THEN {}
               ELSE {i \in DOMAIN stored : stored[i] = path}

Extracted == next > Len(archive)
Done == Extracted /\ UNCHANGED vars

Next == Extract \/ Done

Spec == Init /\ [][Next]_vars

-----------------------------------------------------------------------------
(* Properties.                                                             *)

\* A stored path has no empty segment.
TypeOK == /\ archive \in Archives
          /\ next \in 1 .. Len(archive) + 1
          /\ stored \in [DOMAIN archive -> Seq(Segments \ {Blank})]

\* "__MACOSX and hidden files are automatically filtered", also when the name
\* winds its way past a hidden directory, and nothing is stored outside of the
\* entry: the checks come before and after the name is cleaned.
HiddenFiltered ==
  \A i \in DOMAIN stored : stored[i] # <<>> =>
    /\ archive[i][1] \notin MacSegments /\ ~IsHidden(archive[i])
    /\ ~Rooted(archive[i]) /\ ~Rooted(stored[i])

\* A name without its empty segments.
Squeezed(name) == FoldLeft(LAMBDA p, s : IF s = Blank THEN p ELSE Append(p, s), <<>>, name)

\* A name with nothing in it that has an entry skipped, or a request refused.
Plain(name) == /\ \A k \in DOMAIN name : name[k] \notin Dotted \cup DoubleDots
               /\ name[1] \notin MacSegments
               /\ ~IsDir(name) /\ ~Rooted(name) /\ name # <<Blank>>

\* A file of the archive can be asked for by the name it has there, but for
\* empty segments: what the hidden, the rooted and the Macintosh entries are
\* refused for does not take other files along.  A name with ".." inside a
\* segment is stored and refused to every visitor.
NothingLost ==
  \A i \in DOMAIN archive :
    Plain(archive[i]) /\ i < next => i \in Found(Squeezed(archive[i]))

\* Two entries end up at one path, where a visitor gets either, only if their
\* names differ in nothing but empty segments.
OnePathOneName ==
  \A i, j \in DOMAIN stored :
    stored[i] # <<>> /\ stored[i] = stored[j]
      => Squeezed(archive[i]) = Squeezed(archive[j])

=============================================================================
