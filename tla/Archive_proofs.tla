---------------------------- MODULE Archive_proofs ----------------------------
(***************************************************************************)
(* Where the entries of an archive go, for any segments, names of any      *)
(* length and archives of any size.                                        *)
(*                                                                         *)
(* Clean and Squeezed are folds over a name, so what they compute takes an *)
(* induction on its length.  AllOfNat stands in for the rule of induction: *)
(* it speaks of a set of numbers, and follows from the least element that  *)
(* every set of numbers has.                                               *)
(***************************************************************************)
EXTENDS Archive, WellFoundedInduction, TLAPS

-----------------------------------------------------------------------------
(* Least elements, in place of an induction rule.                          *)

LEMMA Least ==
  ASSUME NEW T, T \subseteq Nat, T # {}
  PROVE  \E m \in T : \A k \in T : m <= k
<1>1. PICK m \in T : \A k \in T : ~(<<k, m>> \in OpToRel(<, Nat))
  BY NatLessThanWellFounded, WFMin, Zenon
<1>2. \A k \in T : ~(k < m)
  BY <1>1 DEF OpToRel
<1>3. QED BY <1>2

\* A set of numbers with 0 and, with every number, the next one is all of Nat.
LEMMA AllOfNat ==
  ASSUME NEW S, 0 \in S, \A k \in Nat : k \in S => k + 1 \in S
  PROVE  Nat \subseteq S
<1>1. SUFFICES ASSUME Nat \ S # {} PROVE FALSE
  OBVIOUS
<1>2. PICK m \in Nat \ S : \A k \in Nat \ S : m <= k
  BY <1>1, Least
<1>3. m # 0
  BY <1>2
<1>4. m - 1 \in Nat /\ m - 1 \in S
  BY <1>2, <1>3
<1>5. (m - 1) + 1 \in S
  BY <1>4
<1>6. QED BY <1>2, <1>5

-----------------------------------------------------------------------------
(* What the fold in Clean computes, prefix by prefix.                      *)

LEMMA LargestIsMax ==
  ASSUME NEW n \in Nat, NEW s \in SUBSET (1 .. n + 1), n + 1 \in s
  PROVE  Max(s) = n + 1
<1>1. \E x \in s : \A y \in s : x >= y
  OBVIOUS
<1>2. Max(s) \in s /\ \A y \in s : Max(s) >= y
  BY <1>1, Zenon DEF Max
<1>3. \A m \in s : (\A y \in s : m >= y) => m = n + 1
  OBVIOUS
<1>4. QED BY <1>2, <1>3, Zenon

LEMMA FirstOnes ==
  ASSUME NEW n \in Nat, NEW k \in 0 .. n - 1
  PROVE  /\ 1 .. k + 1 \in SUBSET (1 .. n) /\ 1 .. k + 1 # {}
         /\ (1 .. k + 1) \ {k + 1} = 1 .. k
<1>1. 1 .. k + 1 \in SUBSET (1 .. n)
  OBVIOUS
<1>2. 1 .. k + 1 # {}
  <2>1. 1 \in 1 .. k + 1
    OBVIOUS
  <2>2. QED BY <2>1, Zenon
<1>3. (1 .. k + 1) \ {k + 1} = 1 .. k
  <2>1. \A i : i \in (1 .. k + 1) \ {k + 1} <=> i \in 1 .. k
    OBVIOUS
  <2>2. QED BY <2>1
<1>4. QED BY <1>1, <1>2, <1>3

\* What one more segment does to the path so far: in Clean, and in Squeezed.
Taken(how, name, path, seg) ==
  IF how = "clean" THEN CleanSegment(Rooted(name), path, seg)
  ELSE IF seg = Blank THEN path ELSE Append(path, seg)

Folded(how, name, iter, n) ==
  iter = [s \in SUBSET (1 .. n) |->
            IF s = {} THEN <<>>
            ELSE LET x == Max(s) IN Taken(how, name, iter[s \ {x}], name[x])]

LEMMA FoldExtends ==
  ASSUME NEW how, NEW name, NEW n \in Nat, NEW iter, Folded(how, name, iter, n)
  PROVE  \E longer : Folded(how, name, longer, n + 1)
<1> DEFINE longer ==
      [s \in SUBSET (1 .. n + 1) |->
         IF n + 1 \notin s THEN iter[s]
         ELSE Taken(how, name, iter[s \ {n + 1}], name[n + 1])]
<1> DEFINE same ==
      [s \in SUBSET (1 .. n + 1) |->
         IF s = {} THEN <<>>
         ELSE Taken(how, name, longer[s \ {Max(s)}], name[Max(s)])]
<1>1. ASSUME NEW s \in SUBSET (1 .. n + 1)
      PROVE  longer[s] = IF s = {} THEN <<>>
                         ELSE Taken(how, name, longer[s \ {Max(s)}], name[Max(s)])
  <2>1. CASE n + 1 \in s
    <3>1. Max(s) = n + 1
      BY <2>1, LargestIsMax
    <3>2. s \ {n + 1} \in SUBSET (1 .. n + 1) /\ longer[s \ {n + 1}] = iter[s \ {n + 1}]
      OBVIOUS
    <3>3. longer[s] = Taken(how, name, iter[s \ {n + 1}], name[n + 1])
      BY <2>1
    <3>4. QED BY <2>1, <3>1, <3>2, <3>3, Zenon
  <2>2. CASE n + 1 \notin s
    <3>1. s \in SUBSET (1 .. n) /\ longer[s] = iter[s]
      BY <2>2
    <3>2. iter[s] = IF s = {} THEN <<>>
                    ELSE Taken(how, name, iter[s \ {Max(s)}], name[Max(s)])
      BY <3>1, Zenon DEF Folded
    <3>3. s \ {Max(s)} \in SUBSET (1 .. n + 1) /\ n + 1 \notin s \ {Max(s)}
      BY <2>2, Zenon
    <3>4. longer[s \ {Max(s)}] = iter[s \ {Max(s)}]
      BY <3>3
    <3>5. QED BY <3>1, <3>2, <3>4, Zenon
  <2>3. QED BY <2>1, <2>2
<1>2. longer = same
  <2>1. \A s \in SUBSET (1 .. n + 1) : longer[s] = same[s]
    BY <1>1, Zenon
  <2>2. longer = [s \in SUBSET (1 .. n + 1) |-> longer[s]]
    OBVIOUS
  <2>3. same = [s \in SUBSET (1 .. n + 1) |-> same[s]]
    OBVIOUS
  <2> HIDE DEF longer, same
  <2>4. QED BY <2>1, <2>2, <2>3
<1>3. Folded(how, name, longer, n + 1)
  BY <1>2, Zenon DEF Folded
<1>4. QED BY <1>3

LEMMA FoldExists ==
  ASSUME NEW how, NEW name, NEW n \in Nat
  PROVE  \E iter : Folded(how, name, iter, n)
<1> DEFINE S == {k \in Nat : \E iter : Folded(how, name, iter, k)}
<1>1. 0 \in S
  <2>1. Folded(how, name, [s \in SUBSET (1 .. 0) |-> <<>>], 0)
    BY DEF Folded
  <2>2. QED BY <2>1
<1>2. \A k \in Nat : k \in S => k + 1 \in S
  BY FoldExtends
<1> HIDE DEF S
<1>3. Nat \subseteq S
  BY <1>1, <1>2, AllOfNat
<1>4. QED BY <1>3 DEF S

\* The values on the way: Upto("clean", name, k) is what Clean makes of the first
\* k segments, Upto("squeeze", name, k) what Squeezed makes of them.
Upto(how, name, k) ==
  (CHOOSE iter : Folded(how, name, iter, Len(name)))[1 .. k]

LEMMA UptoSteps ==
  ASSUME NEW how, NEW name, Len(name) \in Nat
  PROVE  /\ Upto(how, name, 0) = <<>>
         /\ \A k \in 0 .. Len(name) - 1 :
              Upto(how, name, k + 1)
                = Taken(how, name, Upto(how, name, k), name[k + 1])
<1> DEFINE n == Len(name)
           chosen == CHOOSE iter : Folded(how, name, iter, n)
<1>1. Folded(how, name, chosen, n)
  BY FoldExists, Zenon
<1>2. \A k : Upto(how, name, k) = chosen[1 .. k]
  BY Zenon DEF Upto
<1>3. \A s \in SUBSET (1 .. n) :
        chosen[s] = IF s = {} THEN <<>>
                    ELSE Taken(how, name, chosen[s \ {Max(s)}], name[Max(s)])
  BY <1>1, Zenon DEF Folded
<1> HIDE DEF chosen
<1>4. Upto(how, name, 0) = <<>>
  <2>1. 1 .. 0 = {} /\ {} \in SUBSET (1 .. n)
    OBVIOUS
  <2>2. QED BY <2>1, <1>2, <1>3, Zenon
<1>5. ASSUME NEW k \in 0 .. n - 1
      PROVE  Upto(how, name, k + 1) = Taken(how, name, Upto(how, name, k), name[k + 1])
  <2>1. /\ 1 .. k + 1 \in SUBSET (1 .. n) /\ 1 .. k + 1 # {}
        /\ (1 .. k + 1) \ {k + 1} = 1 .. k
    BY FirstOnes, Zenon
  <2>2. Max(1 .. k + 1) = k + 1
    BY LargestIsMax
  <2>3. QED BY <2>1, <2>2, <1>2, <1>3, Zenon
<1>6. QED BY <1>4, <1>5

LEMMA SqueezedIsUpto ==
  ASSUME NEW name, DOMAIN name = 1 .. Len(name)
  PROVE  Squeezed(name) = Upto("squeeze", name, Len(name))
  BY Zenon DEF Squeezed, FoldLeft, MapThenFoldSet, Upto, Folded, Taken

LEMMA CleanIsUpto ==
  ASSUME NEW name, DOMAIN name = 1 .. Len(name)
  PROVE  Clean(name) = IF Upto("clean", name, Len(name)) = <<>> THEN <<".">>
                       ELSE Upto("clean", name, Len(name))
<1>1. FoldLeft(LAMBDA p, s : CleanSegment(Rooted(name), p, s), <<>>, name)
        = Upto("clean", name, Len(name))
  BY Zenon DEF FoldLeft, MapThenFoldSet, Upto, Folded, Taken
<1>2. QED BY <1>1, Zenon DEF Clean

-----------------------------------------------------------------------------
(* What the cleaned and the squeezed path are made of.                     *)

LEMMA NameShape ==
  ASSUME NEW name \in Names
  PROVE  /\ name \in Seq(Segments) /\ Len(name) \in Nat \ {0}
         /\ DOMAIN name = 1 .. Len(name)
<1>1. PICK n \in 1 .. MaxSegments : name \in [1 .. n -> Segments]
  BY Zenon DEF Names
<1>2. n \in Nat \ {0}
  BY ArchiveAssumption
<1>3. QED BY <1>1, <1>2

LEMMA DotsApart ==
  "." # ".." /\ Blank # "." /\ Blank # ".."
  BY ArchiveAssumption

LEMMA CleanSegmentType ==
  ASSUME NEW rooted, NEW path \in Seq(Segments \ {Blank}), NEW seg \in Segments
  PROVE  CleanSegment(rooted, path, seg) \in Seq(Segments \ {Blank})
<1>1. CASE seg \in {Blank, "."}
  <2>1. CleanSegment(rooted, path, seg) = path
    BY <1>1, DotsApart, Zenon DEF CleanSegment
  <2>2. QED BY <2>1
<1>2. CASE seg = ".." /\ path # <<>> /\ Last(path) # ".."
  <2>1. CleanSegment(rooted, path, seg) = Front(path)
    BY <1>2, DotsApart, Zenon DEF CleanSegment
  <2>2. QED BY <1>2, <2>1 DEF Front
<1>3. CASE seg = ".." /\ (path = <<>> \/ Last(path) = "..")
  <2>1. CleanSegment(rooted, path, seg) \in {path, Append(path, "..")}
    BY <1>3, DotsApart, Zenon DEF CleanSegment
  <2>2. ".." \in Segments \ {Blank}
    BY <1>3, DotsApart
  <2>3. QED BY <2>1, <2>2
<1>4. CASE seg \notin {Blank, ".", ".."}
  <2>1. CleanSegment(rooted, path, seg) = Append(path, seg)
    BY <1>4, Zenon DEF CleanSegment
  <2>2. seg \in Segments \ {Blank}
    BY <1>4
  <2>3. QED BY <2>1, <2>2
<1>5. QED BY <1>1, <1>2, <1>3, <1>4

\* The cleaned path has no empty segment.
LEMMA CleanType ==
  ASSUME NEW name \in Names
  PROVE  /\ Upto("clean", name, Len(name)) \in Seq(Segments \ {Blank})
         /\ Clean(name) \in Seq(Segments \ {Blank}) /\ Clean(name) # <<>>
<1> DEFINE n == Len(name)
           S == {k \in Nat : k <= n => Upto("clean", name, k) \in Seq(Segments \ {Blank})}
<1>1. n \in Nat /\ \A k \in 1 .. n : name[k] \in Segments
  BY NameShape
<1> HIDE DEF n
<1>2. 0 \in S
  <2>1. Upto("clean", name, 0) = <<>>
    BY <1>1, UptoSteps, Zenon DEF n
  <2>2. <<>> \in Seq(Segments \ {Blank}) /\ 0 \in Nat
    OBVIOUS
  <2>3. QED BY <2>1, <2>2, Zenon
<1>3. ASSUME NEW k \in Nat, k \in S PROVE k + 1 \in S
  <2>1. SUFFICES ASSUME k + 1 <= n PROVE Upto("clean", name, k + 1) \in Seq(Segments \ {Blank})
    OBVIOUS
  <2>2. k \in 0 .. n - 1 /\ k + 1 \in 1 .. n /\ k <= n
    BY <2>1, <1>1
  <2>3. Upto("clean", name, k + 1) = CleanSegment(Rooted(name), Upto("clean", name, k), name[k + 1])
    BY <2>2, <1>1, UptoSteps, Zenon DEF Taken, n
  <2>4. QED BY <2>2, <2>3, <1>1, <1>3, CleanSegmentType
<1> HIDE DEF S
<1>4. n \in S
  BY <1>1, <1>2, <1>3, AllOfNat
<1>5. Upto("clean", name, n) \in Seq(Segments \ {Blank})
  BY <1>1, <1>4 DEF S
<1>6. <<".">> \in Seq(Segments \ {Blank}) /\ <<".">> # <<>>
  BY ArchiveAssumption
<1>7. Clean(name) = IF Upto("clean", name, n) = <<>> THEN <<".">> ELSE Upto("clean", name, n)
  BY CleanIsUpto, NameShape, Zenon DEF n
<1>8. QED BY <1>5, <1>6, <1>7 DEF n

\* The squeezed name is made of the segments of the name that are not empty.
LEMMA SqueezedType ==
  ASSUME NEW name \in Names
  PROVE  Squeezed(name) \in Seq({name[k] : k \in DOMAIN name} \ {Blank})
<1> DEFINE n == Len(name)
           Used == {name[k] : k \in DOMAIN name} \ {Blank}
           S == {k \in Nat : k <= n => Upto("squeeze", name, k) \in Seq(Used)}
<1>1. n \in Nat /\ \A k \in 1 .. n : name[k] # Blank => name[k] \in Used
  BY NameShape
<1> HIDE DEF n, Used
<1>2. 0 \in S
  <2>1. Upto("squeeze", name, 0) = <<>>
    BY <1>1, UptoSteps, Zenon DEF n
  <2>2. <<>> \in Seq(Used) /\ 0 \in Nat
    OBVIOUS
  <2>3. QED BY <2>1, <2>2, Zenon
<1>3. ASSUME NEW k \in Nat, k \in S PROVE k + 1 \in S
  <2>1. SUFFICES ASSUME k + 1 <= n PROVE Upto("squeeze", name, k + 1) \in Seq(Used)
    OBVIOUS
  <2>2. k \in 0 .. n - 1 /\ k + 1 \in 1 .. n /\ k <= n
    BY <2>1, <1>1
  <2>3. Upto("squeeze", name, k + 1)
          = IF name[k + 1] = Blank THEN Upto("squeeze", name, k)
            ELSE Append(Upto("squeeze", name, k), name[k + 1])
    BY <2>2, <1>1, UptoSteps, Zenon DEF Taken, n
  <2>4. Upto("squeeze", name, k) \in Seq(Used)
    BY <2>2, <1>3
  <2>5. name[k + 1] # Blank => name[k + 1] \in Used
    BY <2>2, <1>1
  <2>6. \A path \in Seq(Used), seg \in Used : Append(path, seg) \in Seq(Used)
    OBVIOUS
  <2>7. QED BY <2>3, <2>4, <2>5, <2>6, Zenon
<1> HIDE DEF S
<1>4. n \in S
  BY <1>1, <1>2, <1>3, AllOfNat
<1>5. QED BY <1>1, <1>4, NameShape, SqueezedIsUpto DEF S, n, Used

\* Of a name that is not hidden, cleaning takes the empty segments and no more.
LEMMA CleanSqueezes ==
  ASSUME NEW name \in Names, ~IsHidden(name)
  PROVE  Upto("clean", name, Len(name)) = Squeezed(name)
<1> DEFINE n == Len(name)
           S == {k \in Nat : k <= n => Upto("clean", name, k) = Upto("squeeze", name, k)}
<1>1. n \in Nat /\ \A k \in 1 .. n : name[k] \notin {".", ".."}
  BY NameShape, ArchiveAssumption DEF IsHidden
<1> HIDE DEF n
<1>2. 0 \in S
  BY UptoSteps, <1>1 DEF n
<1>3. ASSUME NEW k \in Nat, k \in S PROVE k + 1 \in S
  <2>1. SUFFICES ASSUME k + 1 <= n PROVE Upto("clean", name, k + 1) = Upto("squeeze", name, k + 1)
    OBVIOUS
  <2>2. k \in 0 .. n - 1 /\ k + 1 \in 1 .. n /\ k <= n
    BY <2>1, <1>1
  <2>3. /\ Upto("clean", name, k + 1)
             = CleanSegment(Rooted(name), Upto("clean", name, k), name[k + 1])
        /\ Upto("squeeze", name, k + 1)
             = IF name[k + 1] = Blank THEN Upto("squeeze", name, k)
               ELSE Append(Upto("squeeze", name, k), name[k + 1])
    BY <2>2, <1>1, UptoSteps, Zenon DEF Taken, n
  <2>4. QED BY <2>2, <2>3, <1>1, <1>3 DEF CleanSegment
<1> HIDE DEF S
<1>4. n \in S
  BY <1>1, <1>2, <1>3, AllOfNat
<1>5. Squeezed(name) = Upto("squeeze", name, n)
  BY NameShape, SqueezedIsUpto DEF n
<1>6. QED BY <1>1, <1>4, <1>5 DEF S, n

\* A name that ends in a segment squeezes to a path.
LEMMA LastKept ==
  ASSUME NEW name \in Names, name[Len(name)] # Blank
  PROVE  Squeezed(name) # <<>>
<1>1. Len(name) \in Nat \ {0} /\ Squeezed(name) = Upto("squeeze", name, Len(name))
  BY NameShape, SqueezedIsUpto
<1>2. Len(name) - 1 \in 0 .. Len(name) - 1 /\ (Len(name) - 1) + 1 = Len(name)
  BY <1>1
<1>3. Upto("squeeze", name, Len(name))
        = Append(Upto("squeeze", name, Len(name) - 1), name[Len(name)])
  <2>1. Upto("squeeze", name, (Len(name) - 1) + 1)
          = Taken("squeeze", name, Upto("squeeze", name, Len(name) - 1),
                  name[(Len(name) - 1) + 1])
    BY <1>1, <1>2, UptoSteps, Zenon
  <2>2. \A path, seg : seg # Blank => Taken("squeeze", name, path, seg) = Append(path, seg)
    BY DEF Taken
  <2>3. QED BY <1>2, <2>1, <2>2
<1>4. QED BY <1>1, <1>3

-----------------------------------------------------------------------------
(* Where an entry goes.                                                    *)

LEMMA NormalizedIs ==
  ASSUME NEW name \in Names
  PROVE  /\ Normalized(name) \in Seq(Segments \ {Blank})
         /\ Normalized(name) # <<>> => Normalized(name) = Clean(name) /\ ~Rooted(name)
<1>1. <<>> \in Seq(Segments \ {Blank})
  OBVIOUS
<1>2. QED BY <1>1, CleanType, Zenon DEF Normalized

LEMMA PathOfIs ==
  ASSUME NEW name \in Names
  PROVE  /\ PathOf(name) \in Seq(Segments \ {Blank})
         /\ PathOf(name) # <<>> => /\ name[1] \notin MacSegments /\ ~IsHidden(name)
                                   /\ ~Rooted(name) /\ PathOf(name) = Clean(name)
<1>1. <<>> \in Seq(Segments \ {Blank})
  OBVIOUS
<1>2. QED BY <1>1, NormalizedIs, Zenon DEF PathOf

\* Two names that are stored at one path squeeze to one name.
LEMMA OnePath ==
  ASSUME NEW a \in Names, NEW b \in Names, PathOf(a) # <<>>, PathOf(a) = PathOf(b)
  PROVE  Squeezed(a) = Squeezed(b)
<1>1. ASSUME NEW name \in Names, ~IsHidden(name)
      PROVE  /\ Clean(name) = IF Squeezed(name) = <<>> THEN <<".">> ELSE Squeezed(name)
             /\ Squeezed(name) # <<".">>
  <2>1. Clean(name) = IF Squeezed(name) = <<>> THEN <<".">> ELSE Squeezed(name)
    BY <1>1, CleanSqueezes, CleanIsUpto, NameShape, Zenon
  <2> DEFINE Used == {name[k] : k \in DOMAIN name} \ {Blank}
  <2>2. "." \notin Used
    BY <1>1, ArchiveAssumption DEF IsHidden
  <2>3. Squeezed(name) \in Seq(Used)
    BY SqueezedType
  <2> HIDE DEF Used
  <2>4. Squeezed(name) # <<".">>
    <3>1. SUFFICES ASSUME Squeezed(name) = <<".">> PROVE FALSE
      OBVIOUS
    <3>2. \A s \in Seq(Used) : s = <<".">> => s[1] \in Used /\ s[1] = "."
      OBVIOUS
    <3>3. QED BY <2>2, <2>3, <3>1, <3>2, Zenon
  <2>5. QED BY <2>1, <2>4
<1>2. /\ ~IsHidden(a) /\ PathOf(a) = Clean(a)
      /\ ~IsHidden(b) /\ PathOf(b) = Clean(b)
  BY PathOfIs
<1>3. QED BY <1>1, <1>2, Zenon

\* A plain name is stored where it squeezes to, and may be asked for.
LEMMA PlainKept ==
  ASSUME NEW name \in Names, Plain(name)
  PROVE  /\ PathOf(name) = Squeezed(name)
         /\ \A k \in DOMAIN Squeezed(name) : Squeezed(name)[k] \notin DoubleDots
<1> DEFINE Used == {name[k] : k \in DOMAIN name} \ {Blank}
<1>1. ~IsHidden(name)
  BY DEF Plain, IsHidden
<1>2. name[Len(name)] # Blank
  <2>1. name \in Seq(Segments) /\ Len(name) \in Nat \ {0}
    BY NameShape
  <2>2. CASE Len(name) = 1
    <3>1. name = <<name[1]>>
      BY <2>1, <2>2
    <3>2. QED BY <2>2, <3>1 DEF Plain
  <2>3. CASE Len(name) > 1
    BY <2>1, <2>3 DEF Plain, IsDir, Last
  <2>4. Len(name) = 1 \/ Len(name) > 1
    <3>1. \A m \in Nat \ {0} : m = 1 \/ m > 1
      OBVIOUS
    <3>2. QED BY <2>1, <3>1, Zenon
  <2>5. QED BY <2>2, <2>3, <2>4, Zenon
<1>3. Clean(name) = Squeezed(name)
  BY <1>1, <1>2, LastKept, CleanSqueezes, CleanIsUpto, NameShape, Zenon
<1>4. \A k \in DOMAIN Squeezed(name) : Squeezed(name)[k] \notin DoubleDots
  <2>1. \A seg \in Used : seg \notin DoubleDots
    BY DEF Plain
  <2>2. Squeezed(name) \in Seq(Used)
    BY SqueezedType
  <2> HIDE DEF Used
  <2>3. \A s \in Seq(Used) : \A k \in DOMAIN s : s[k] \in Used
    OBVIOUS
  <2>4. QED BY <2>1, <2>2, <2>3, Zenon
<1>5. 1 \in DOMAIN Squeezed(name)
  <2>1. \A s \in Seq(Used) : s # <<>> => 1 \in DOMAIN s
    OBVIOUS
  <2>2. Squeezed(name) \in Seq(Used) /\ Squeezed(name) # <<>>
    BY <1>2, SqueezedType, LastKept
  <2>3. QED BY <2>1, <2>2, Zenon
<1>6. Normalized(name) = Clean(name)
  BY <1>3, <1>4, <1>5, Zenon DEF Normalized, Plain
<1>7. PathOf(name) = Normalized(name)
  BY <1>1, Zenon DEF PathOf, Plain
<1>8. QED BY <1>3, <1>4, <1>6, <1>7, Zenon

-----------------------------------------------------------------------------
(* The invariant: what is stored is what the entries so far give.          *)

Placed ==
  /\ archive \in Archives
  /\ next \in 1 .. Len(archive) + 1
  /\ stored = [i \in DOMAIN archive |-> IF i < next THEN PathOf(archive[i]) ELSE <<>>]

LEMMA ArchiveShape ==
  ASSUME archive \in Archives
  PROVE  /\ Len(archive) \in Nat /\ DOMAIN archive = 1 .. Len(archive)
         /\ \A i \in DOMAIN archive : archive[i] \in Names
<1>1. PICK n \in 1 .. MaxEntries : archive \in [1 .. n -> Names]
  BY Zenon DEF Archives
<1>2. n \in Nat
  BY ArchiveAssumption
<1>3. QED BY <1>1, <1>2

LEMMA PlacedInit == Init => Placed
<1>1. SUFFICES ASSUME Init PROVE Placed
  OBVIOUS
<1>2. 1 \in 1 .. Len(archive) + 1 /\ \A i \in DOMAIN archive : ~(i < 1)
  BY <1>1, ArchiveShape DEF Init
<1>3. QED BY <1>1, <1>2 DEF Init, Placed

LEMMA PlacedKept == Placed /\ [Next]_vars => Placed'
<1>1. SUFFICES ASSUME Placed, [Next]_vars PROVE Placed'
  OBVIOUS
<1>2. CASE Extract
  <2>1. Len(archive) \in Nat /\ DOMAIN archive = 1 .. Len(archive)
    BY <1>1, ArchiveShape DEF Placed
  <2>2. archive' = archive /\ next' = next + 1 /\ next <= Len(archive) /\ next \in Nat
    BY <1>1, <1>2, <2>1 DEF Extract, Placed
  <2>3. next' \in 1 .. Len(archive) + 1
    BY <1>1, <2>1, <2>2 DEF Placed
  <2>4. stored' = [i \in DOMAIN archive |-> IF i < next + 1 THEN PathOf(archive[i]) ELSE <<>>]
    <3>1. stored' = [stored EXCEPT ![next] = PathOf(archive[next])]
      BY <1>2 DEF Extract
    <3>2. \A i \in 1 .. Len(archive) : (i < next + 1) <=> (i < next \/ i = next)
      BY <2>1, <2>2
    <3>3. QED BY <1>1, <2>1, <3>1, <3>2 DEF Placed
  <2>5. QED BY <1>1, <2>2, <2>3, <2>4 DEF Placed
<1>3. CASE UNCHANGED vars
  BY <1>1, <1>3 DEF Placed, vars
<1>4. QED BY <1>1, <1>2, <1>3 DEF Next, Done

LEMMA PlacedAlways == Spec => []Placed
  BY PlacedInit, PlacedKept, PTL DEF Spec

LEMMA StoredPath ==
  ASSUME Placed, NEW i \in DOMAIN archive
  PROVE  /\ DOMAIN stored = DOMAIN archive /\ archive[i] \in Names
         /\ stored[i] = IF i < next THEN PathOf(archive[i]) ELSE <<>>
  BY ArchiveShape DEF Placed

-----------------------------------------------------------------------------
(* The theorems.                                                           *)

\* A stored path has no empty segment, whatever the names in the archive.
THEOREM TypeCorrect == Spec => []TypeOK
<1>1. Placed => TypeOK
  <2>1. SUFFICES ASSUME Placed PROVE TypeOK
    OBVIOUS
  <2>2. \A i \in DOMAIN archive : stored[i] \in Seq(Segments \ {Blank})
    <3>1. <<>> \in Seq(Segments \ {Blank})
      OBVIOUS
    <3>2. QED BY <2>1, <3>1, StoredPath, PathOfIs, Zenon
  <2>3. QED BY <2>1, <2>2 DEF TypeOK, Placed
<1>2. QED BY <1>1, PlacedAlways, PTL

\* No hidden, no Macintosh and no rooted entry is stored, however its name
\* winds, and no path that is stored is rooted.
THEOREM FilterHolds == Spec => []HiddenFiltered
<1>1. Placed => HiddenFiltered
  <2>1. SUFFICES ASSUME Placed, NEW i \in DOMAIN stored, stored[i] # <<>>
        PROVE  /\ archive[i][1] \notin MacSegments /\ ~IsHidden(archive[i])
               /\ ~Rooted(archive[i]) /\ ~Rooted(stored[i])
    BY DEF HiddenFiltered
  <2>2. i \in DOMAIN archive
    BY <2>1 DEF Placed
  <2>3. archive[i] \in Names /\ stored[i] = PathOf(archive[i])
    BY <2>1, <2>2, StoredPath, Zenon
  <2>4. stored[i] \in Seq(Segments \ {Blank})
    BY <2>3, PathOfIs, Zenon
  <2>5. ~Rooted(stored[i])
    BY <2>4 DEF Rooted
  <2>6. QED BY <2>1, <2>3, <2>5, PathOfIs, Zenon
<1>2. QED BY <1>1, PlacedAlways, PTL

\* A plain file of any archive is found under its own name.
THEOREM PlainFilesFound == Spec => []NothingLost
<1>1. Placed => NothingLost
  <2>1. SUFFICES ASSUME Placed, NEW i \in DOMAIN archive, Plain(archive[i]), i < next
        PROVE  i \in Found(Squeezed(archive[i]))
    BY Zenon DEF NothingLost, Plain
  <2>2. archive[i] \in Names /\ stored[i] = PathOf(archive[i]) /\ i \in DOMAIN stored
    BY <2>1, StoredPath, Zenon
  <2>3. QED BY <2>1, <2>2, PlainKept, Zenon DEF Found
<1>2. QED BY <1>1, PlacedAlways, PTL

\* Two entries of any archive share a path only if their names differ in
\* nothing but empty segments.
THEOREM PathsTellNames == Spec => []OnePathOneName
<1>1. Placed => OnePathOneName
  <2>1. SUFFICES ASSUME Placed, NEW i \in DOMAIN stored, NEW j \in DOMAIN stored,
                        stored[i] # <<>>, stored[i] = stored[j]
        PROVE  Squeezed(archive[i]) = Squeezed(archive[j])
    BY DEF OnePathOneName
  <2>2. i \in DOMAIN archive /\ j \in DOMAIN archive
    BY <2>1 DEF Placed
  <2>3. /\ archive[i] \in Names /\ stored[i] = PathOf(archive[i])
        /\ archive[j] \in Names /\ stored[j] = PathOf(archive[j])
    BY <2>1, <2>2, StoredPath, Zenon
  <2>4. QED BY <2>1, <2>3, OnePath, Zenon
<1>2. QED BY <1>1, PlacedAlways, PTL

=============================================================================
