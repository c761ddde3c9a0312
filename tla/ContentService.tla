--------------------------- MODULE ContentService ---------------------------
(***************************************************************************)
(* The content service of easy-host (internal/service/content.go) over its *)
(* two tables (internal/store/store.go).  A request is one call of Create, *)
(* Update or Delete; it runs as a sequence of SQL statements, each atomic, *)
(* and nothing but the database is shared between requests.  The service   *)
(* holds no transaction across statements and takes no lock, so any other  *)
(* request may run between two of them.                                    *)
(*                                                                         *)
(* Every request runs once, so its name identifies what it brings into     *)
(* being: the content row it inserts, the data key it draws, the metadata  *)
(* it writes, the files it uploads.                                        *)
(***************************************************************************)
EXTENDS Naturals, Sequences

CONSTANTS
  Requests,    \* the calls of the service
  Slugs,       \* the slugs the calls name
  ValidSlugs,  \* those that match slugPattern
  Owners,      \* the users the calls are made for
  Passphrases,
  Paths,       \* the paths files are stored at, after normalisation
  Fields,      \* the editable metadata columns
  Plans,       \* Plans[r]: the parameters r may be called with
  Overlap,     \* may two requests for one slug be in flight together?
  MaxFaults,   \* bound on failed statements, lost replies and crashes
  None         \* NULL, the empty string or a missing row

\* A wrapped data key: the key, named by the request that drew it, and the
\* one passphrase that unwraps it.
Envelope == [dek : Requests, pass : Passphrases]

\* A row of the content table, without its id.
Row == [slug : Slugs, owner : Owners, meta : [Fields -> Requests],
        env : Envelope \cup {None}]

\* A row of the content_file table.  <<by, n>> is its id: the n-th file of the
\* upload of request by.  The payload is the file that request uploaded, under
\* the keys in seals, the outermost first; <<>> is cleartext.
File == [by : Requests, n : Nat, cid : Requests, path : Paths,
         seals : Seq(Requests)]

\* What a caller sees of an entry: its metadata, the passphrase it is read with,
\* and its files.
Entries == [meta : [Fields -> Requests], pass : Passphrases \cup {None},
            pages : SUBSET (Requests \X Nat)]

\* An upload: the files of the archive in order (a single page is one file),
\* and whether the archive can be read to its end.
Upload == [paths : Seq(Paths), ok : BOOLEAN]

\* CreateParams and UpdateParams.  sets: the metadata pointers that are not nil.
\* Every handler refuses a create that comes without a file.
Params == {p \in [op : {"create", "update", "delete"}, slug : Slugs,
                  owner : Owners, pass : Passphrases \cup {None},
                  newpass : Passphrases \cup {None}, remove : BOOLEAN,
                  sets : SUBSET Fields, upload : Upload \cup {None}] :
             p.op = "create" => p.upload # None}

\* Where a request is: the statement it executes next.
Statements == {"check", "insert", "put", "undo",
               "load", "list", "apply", "save", "drop", "remove"}
PCs == {"idle", "done"} \cup Statements
Results == {"pending", "ok", "rejected", "failed", "crashed"}

\* A request: its parameters, the id and the copy of the row it works on (c in
\* the code), the envelope and the payloads it is about to put in place, and the
\* number of the next file it inserts.
Request == [pc : PCs, par : Params \cup {None}, cid : Requests \cup {None},
            row : Row \cup {None}, env : Envelope \cup {None},
            rewritten : SUBSET File, next : Nat, result : Results]

ASSUME NoneAssumption ==
  /\ None \notin Requests /\ None \notin Passphrases /\ None \notin Row
  /\ None \notin Envelope /\ None \notin Upload /\ None \notin Params
  /\ None \notin Entries
ASSUME PlansAssumption == Plans \in [Requests -> SUBSET Params]
ASSUME BoundAssumption == /\ MaxFaults \in Nat
                          /\ Overlap \in BOOLEAN
                          /\ ValidSlugs \subseteq Slugs

VARIABLES
  content,  \* content[c]: the row request c inserted, None when there is none
  files,    \* the content_file table
  req,      \* the requests
  faults    \* faults so far

vars == <<content, files, req, faults>>

Idle == [pc |-> "idle", par |-> None, cid |-> None, row |-> None, env |-> None,
         rewritten |-> {}, next |-> 1, result |-> "pending"]

Init == /\ content = [c \in Requests |-> None]
        /\ files = {}
        /\ req = [r \in Requests |-> Idle]
        /\ faults = 0

-----------------------------------------------------------------------------
(* Reading the tables.                                                     *)

FilesOf(c) == {f \in files : f.cid = c}
RowsAt(slug) == {c \in Requests : content[c] # None /\ content[c].slug = slug}
InFlight(r) == req[r].pc \in Statements

\* A statement at pc of request r ends with "ok", with "err" (it had no
\* effect), or with "lost" (it took effect but the caller gets an error).
Statement(r, pc, out) ==
  /\ req[r].pc = pc
  /\ out = "ok" \/ faults < MaxFaults
  /\ faults' = IF out = "ok" THEN faults ELSE faults + 1

Reads == {"ok", "err"}
Writes == {"ok", "err", "lost"}

\* What becomes of a request record q: it moves to a statement, or it ends.
At(q, pc) == [q EXCEPT !.pc = pc]
Ended(q, res) == [q EXCEPT !.pc = "done", !.result = res]

\* The call r is made with parameters p.  Without Overlap, calls for one slug are
\* made one after the other.  A create whose slug is malformed ends before any
\* statement.
Make(r, p) ==
  LET q == [req[r] EXCEPT !.par = p] IN
  /\ req[r].pc = "idle"
  /\ Overlap \/ \A s \in Requests : InFlight(s) => req[s].par.slug # p.slug
  /\ req' = [req EXCEPT ![r] =
               IF p.op # "create" THEN At(q, "load")
               ELSE IF p.slug \in ValidSlugs THEN At(q, "check")
               ELSE Ended(q, "rejected")]
  /\ UNCHANGED <<content, files, faults>>

Call(r) == \E p \in Plans[r] : Make(r, p)

-----------------------------------------------------------------------------
(* storeFiles, shared by Create and Update.                                *)

\* Mutant of StoreError: a create that cannot store its files keeps its row.
StoreErrorKeepsRow(q) == Ended(q, "failed")

\* storeFiles fails: a create undoes its row, an update just returns.
StoreError(q) == IF q.par.op = "create" THEN At(q, "undo")
                                        ELSE Ended(q, "failed")

\* The first n - 1 files are in.  An archive that cannot be read to its end
\* fails after the files before that point have been stored.
StoreFrom(q, n) ==
  IF n <= Len(q.par.upload.paths) THEN [q EXCEPT !.pc = "put", !.next = n]
  ELSE IF q.par.upload.ok THEN Ended(q, "ok")
  ELSE StoreError(q)

\* Sealing with the key of an envelope, when there is one.
Seal(env, seals) == IF env = None THEN seals ELSE <<env.dek>> \o seals

\* Mutant of NewFile: the files of an update are stored as they came.
NewFileClear(r, q) ==
  [by |-> r, n |-> q.next, cid |-> q.cid, path |-> q.par.upload.paths[q.next],
   seals |-> IF q.par.op = "create" THEN Seal(q.row.env, <<>>) ELSE <<>>]

NewFile(r, q) ==
  [by |-> r, n |-> q.next, cid |-> q.cid, path |-> q.par.upload.paths[q.next],
   seals |-> Seal(q.row.env, <<>>)]

\* INSERT INTO content_file: the foreign key makes it fail when the row is gone.
PutFile(r) ==
  \E out \in Writes :
    LET gone == content[req[r].cid] = None IN
    /\ Statement(r, "put", out)
    /\ files' = IF gone \/ out = "err" THEN files
                ELSE files \cup {NewFile(r, req[r])}
    /\ req' = [req EXCEPT ![r] = IF gone \/ out # "ok" THEN StoreError(req[r])
                                 ELSE StoreFrom(req[r], req[r].next + 1)]
    /\ UNCHANGED content

-----------------------------------------------------------------------------
(* Create.                                                                 *)

\* The entry a create inserts: all metadata from the call, and an envelope
\* with a fresh key when a passphrase is given.
NewRow(r, p) ==
  [slug |-> p.slug, owner |-> p.owner, meta |-> [f \in Fields |-> r],
   env |-> IF p.pass = None THEN None ELSE [dek |-> r, pass |-> p.pass]]

\* SELECT EXISTS on the slug.
CheckSlug(r) ==
  \E out \in Reads :
    /\ Statement(r, "check", out)
    /\ req' = [req EXCEPT ![r] =
                 IF out = "err" THEN Ended(req[r], "failed")
                 ELSE IF RowsAt(req[r].par.slug) # {} THEN Ended(req[r], "rejected")
                 ELSE [req[r] EXCEPT !.pc = "insert", !.row = NewRow(r, req[r].par)]]
    /\ UNCHANGED <<content, files>>

\* Mutant of InsertContent: no UNIQUE key on slug, only the earlier SELECT.
InsertContentUnkeyed(r) ==
  /\ Statement(r, "insert", "ok")
  /\ content' = [content EXCEPT ![r] = req[r].row]
  /\ req' = [req EXCEPT ![r] = StoreFrom([req[r] EXCEPT !.cid = r], 1)]
  /\ UNCHANGED files

\* INSERT INTO content: the UNIQUE key on slug makes it fail when another
\* request got there first.  An error returns at once, without clean-up.
InsertContent(r) ==
  \E out \in Writes :
    LET taken == RowsAt(req[r].row.slug) # {} IN
    /\ Statement(r, "insert", out)
    /\ content' = IF taken \/ out = "err" THEN content
                  ELSE [content EXCEPT ![r] = req[r].row]
    /\ req' = [req EXCEPT ![r] = IF taken \/ out # "ok" THEN Ended(req[r], "failed")
                                 ELSE StoreFrom([req[r] EXCEPT !.cid = r], 1)]
    /\ UNCHANGED files

\* DELETE FROM content, with the cascade to its files.
DeleteRow(c) == /\ content' = [content EXCEPT ![c] = None]
                /\ files' = files \ FilesOf(c)

\* DeleteContent when the files could not be stored; its error is ignored.
UndoCreate(r) ==
  \E out \in Writes :
    /\ Statement(r, "undo", out)
    /\ IF out = "err" THEN UNCHANGED <<content, files>> ELSE DeleteRow(req[r].cid)
    /\ req' = [req EXCEPT ![r] = Ended(req[r], "failed")]

-----------------------------------------------------------------------------
(* Update.                                                                 *)

\* Mutant of Refused: rotating does not check the current passphrase.
RefusedUnlessRemoving(p, e) ==
  IF e = None THEN p.remove \/ p.newpass # None
  ELSE (p.remove \/ p.upload # None) /\ p.pass # e.pass

\* Mutant of NextEnv: rotating wraps the existing key anew.
NextEnvRewrap(r, p, e) ==
  IF e = None
  THEN IF p.pass = None THEN None ELSE [dek |-> r, pass |-> p.pass]
  ELSE IF p.remove THEN None
  ELSE IF p.newpass # None THEN [dek |-> e.dek, pass |-> p.newpass]
  ELSE e

\* Mutant of NextEnv: an empty passphrase makes an envelope like any other.
NextEnvEmptyPass(r, p, e) ==
  IF e = None THEN [dek |-> r, pass |-> p.pass]
  ELSE IF p.remove THEN None
  ELSE IF p.newpass # None THEN [dek |-> r, pass |-> p.newpass]
  ELSE e

\* applyEncryptionChange, for parameters p on an entry under envelope e:
\* which calls it refuses, and the envelope it puts in place.
Refused(p, e) ==
  IF e = None THEN p.remove \/ p.newpass # None
  ELSE /\ p.remove \/ p.newpass # None \/ p.upload # None
       /\ p.pass # e.pass

NextEnv(r, p, e) ==
  IF e = None
  THEN IF p.pass = None THEN None ELSE [dek |-> r, pass |-> p.pass]
  ELSE IF p.remove THEN None
  ELSE IF p.newpass # None THEN [dek |-> r, pass |-> p.newpass]
  ELSE e

\* Mutant of Merged: nil pointers overwrite the column too.
MergedBlindly(r, p, row) == [row EXCEPT !.meta = [f \in Fields |-> r]]

\* The loaded row under the pointers of the call that are not nil.
Merged(r, p, row) ==
  [row EXCEPT !.meta = [f \in Fields |-> IF f \in p.sets THEN r ELSE row.meta[f]]]

\* Mutant of UpdateLoaded: a key change never rewrites the stored payloads.
UpdateLoadedEnvelopeOnly(r, q, c) ==
  LET row == content[c]
      new == NextEnv(r, q.par, row.env)
  IN IF Refused(q.par, row.env) THEN Ended(q, "rejected")
     ELSE [q EXCEPT !.pc = IF new = row.env THEN "save" ELSE "apply", !.cid = c,
                    !.row = Merged(r, q.par, row), !.env = new]

\* An update of row c, loaded by request r, up to its first write.  Payloads
\* are rewritten only when no upload is about to replace them.
UpdateLoaded(r, q, c) ==
  LET row == content[c]
      new == NextEnv(r, q.par, row.env)
      to  == IF new = row.env THEN "save"
             ELSE IF q.par.upload = None THEN "list" ELSE "apply"
  IN IF Refused(q.par, row.env) THEN Ended(q, "rejected")
     ELSE [q EXCEPT !.pc = to, !.cid = c, !.row = Merged(r, q.par, row),
                    !.env = new]

\* Mutant of LoadContent: contentBySlug in place of ownedContent.
LoadContentOfAnyone(r) ==
  LET p == req[r].par IN
  /\ Statement(r, "load", "ok")
  /\ IF RowsAt(p.slug) = {}
     THEN req' = [req EXCEPT ![r] = Ended(req[r], "rejected")]
     ELSE \E c \in RowsAt(p.slug) :
            req' = [req EXCEPT ![r] =
                      IF p.op = "update" THEN UpdateLoaded(r, req[r], c)
                      ELSE [req[r] EXCEPT !.pc = "remove", !.cid = c,
                                     !.row = content[c]]]
  /\ UNCHANGED <<content, files>>

\* ownedContent: SELECT by slug; an entry of another owner is not found.
LoadContent(r) ==
  \E out \in Reads :
    LET p == req[r].par
        own == {c \in RowsAt(p.slug) : content[c].owner = p.owner}
    IN /\ Statement(r, "load", out)
       /\ \/ /\ out = "err" \/ own = {}
             /\ req' = [req EXCEPT ![r] =
                          Ended(req[r], IF out = "err" THEN "failed" ELSE "rejected")]
          \/ /\ out = "ok"
             /\ \E c \in own :
                  req' = [req EXCEPT ![r] =
                            IF p.op = "update" THEN UpdateLoaded(r, req[r], c)
                            ELSE [req[r] EXCEPT !.pc = "remove", !.cid = c,
                                           !.row = content[c]]]
       /\ UNCHANGED <<content, files>>

\* Can the payload of f be opened with the key of the loaded envelope?
Opens(env, f) == env = None \/ (f.seals # <<>> /\ Head(f.seals) = env.dek)

\* Mutant of Rewrite: the payload is sealed again without being opened.
RewriteUnopened(old, new, f) == [f EXCEPT !.seals = Seal(new, f.seals)]

Rewrite(old, new, f) ==
  [f EXCEPT !.seals = Seal(new, IF old = None THEN f.seals ELSE Tail(f.seals))]

\* ListContentFiles: read every payload, open it with the old key and seal it
\* with the new one.
ListFiles(r) ==
  \E out \in Reads :
    LET q == req[r] IN
    /\ Statement(r, "list", out)
    /\ req' = [req EXCEPT ![r] =
                 IF out = "ok" /\ \A f \in FilesOf(q.cid) : Opens(q.row.env, f)
                 THEN [q EXCEPT !.pc = "apply",
                                !.rewritten = {Rewrite(q.row.env, q.env, f) :
                                                 f \in FilesOf(q.cid)}]
                 ELSE Ended(q, "failed")]
    /\ UNCHANGED <<content, files>>

SameFile(f, g) == f.by = g.by /\ f.n = g.n

\* Mutant of ApplyEncryption: c.Encryption keeps the envelope it was loaded with.
ApplyEncryptionStaleEnv(r) ==
  LET q == req[r]
      kept == {f \in files : \A g \in q.rewritten : ~SameFile(f, g)}
      stored == {g \in q.rewritten : \E f \in files : SameFile(f, g)}
  IN /\ Statement(r, "apply", "ok")
     /\ content' = IF content[q.cid] = None THEN content
                   ELSE [content EXCEPT ![q.cid].env = q.env]
     /\ files' = kept \cup stored
     /\ req' = [req EXCEPT ![r] = [q EXCEPT !.pc = "save", !.rewritten = {}]]

\* ApplyEncryption: one transaction stores the envelope and the rewritten
\* payloads, each by its id; what is gone by then is left alone.
ApplyEncryption(r) ==
  \E out \in Writes :
    LET q == req[r]
        kept == {f \in files : \A g \in q.rewritten : ~SameFile(f, g)}
        stored == {g \in q.rewritten : \E f \in files : SameFile(f, g)}
    IN /\ Statement(r, "apply", out)
       /\ content' = IF out = "err" \/ content[q.cid] = None THEN content
                     ELSE [content EXCEPT ![q.cid].env = q.env]
       /\ files' = IF out = "err" THEN files ELSE kept \cup stored
       /\ req' = [req EXCEPT ![r] =
                    IF out = "ok" THEN [q EXCEPT !.pc = "save", !.row.env = q.env,
                                                 !.rewritten = {}]
                    ELSE Ended(q, "failed")]

\* Mutant of SaveContent: an upload is added to the files that are there.
SaveContentKeepsFiles(r) ==
  LET q == req[r] IN
  /\ Statement(r, "save", "ok")
  /\ content' = IF content[q.cid] = None THEN content
                ELSE [content EXCEPT ![q.cid].meta = q.row.meta]
  /\ req' = [req EXCEPT ![r] = IF q.par.upload = None THEN Ended(q, "ok")
                               ELSE StoreFrom(q, 1)]
  /\ UNCHANGED files

\* UpdateContent: UPDATE of every metadata column from the loaded copy.
SaveContent(r) ==
  \E out \in Writes :
    LET q == req[r] IN
    /\ Statement(r, "save", out)
    /\ content' = IF out = "err" \/ content[q.cid] = None THEN content
                  ELSE [content EXCEPT ![q.cid].meta = q.row.meta]
    /\ req' = [req EXCEPT ![r] = IF out # "ok" THEN Ended(q, "failed")
                                 ELSE IF q.par.upload = None THEN Ended(q, "ok")
                                 ELSE At(q, "drop")]
    /\ UNCHANGED files

\* DeleteContentFiles, before the files of the upload are stored.
DropFiles(r) ==
  \E out \in Writes :
    /\ Statement(r, "drop", out)
    /\ files' = IF out = "err" THEN files ELSE files \ FilesOf(req[r].cid)
    /\ req' = [req EXCEPT ![r] = IF out = "ok" THEN StoreFrom(req[r], 1)
                                 ELSE Ended(req[r], "failed")]
    /\ UNCHANGED content

-----------------------------------------------------------------------------
(* Delete, and the end of the process.                                     *)

DeleteContent(r) ==
  \E out \in Writes :
    /\ Statement(r, "remove", out)
    /\ IF out = "err" THEN UNCHANGED <<content, files>> ELSE DeleteRow(req[r].cid)
    /\ req' = [req EXCEPT ![r] = Ended(req[r], IF out = "ok" THEN "ok" ELSE "failed")]

\* The process dies: the requests in flight execute no further statement, and
\* nothing on disk tells the next process about them.
Crash ==
  /\ faults < MaxFaults
  /\ \E r \in Requests : InFlight(r)
  /\ req' = [r \in Requests |-> IF InFlight(r) THEN Ended(req[r], "crashed")
                                ELSE req[r]]
  /\ faults' = faults + 1
  /\ UNCHANGED <<content, files>>

AllDone == /\ \A r \in Requests : req[r].pc = "done"
           /\ UNCHANGED vars

Step(r) == \/ Call(r)
           \/ CheckSlug(r) \/ InsertContent(r) \/ PutFile(r) \/ UndoCreate(r)
           \/ LoadContent(r) \/ ListFiles(r) \/ ApplyEncryption(r)
           \/ SaveContent(r) \/ DropFiles(r) \/ DeleteContent(r)

Next == (\E r \in Requests : Step(r)) \/ Crash \/ AllDone

Spec == Init /\ [][Next]_vars

-----------------------------------------------------------------------------
(* Properties.                                                             *)

\* Every variable keeps its type; a row is stored only by a create.
TypeOK == /\ content \in [Requests -> Row \cup {None}]
          /\ files \subseteq File
          /\ req \in [Requests -> Request]
          /\ faults \in 0 .. MaxFaults

\* However creates, updates and deletes interleave, a slug names at most one
\* entry (SlugExists is only a first look; the UNIQUE key decides).
UniqueSlug == \A c \in Requests : content[c] # None =>
                RowsAt(content[c].slug) = {c}

\* Every stored file hangs off an existing entry and was uploaded by a call of
\* that entry's owner, also when the entry is deleted and its slug taken by
\* another user while an upload is under way.
OwnerIsolation == \A f \in files :
                    /\ content[f.cid] # None
                    /\ req[f.by].par # None
                    /\ req[f.by].par.owner = content[f.cid].owner

\* An entry or its files change only by a step of a request of its owner.
OnlyOwnerWrites ==
  [][\A c \in Requests :
       content[c] # None /\ (content'[c] # content[c] \/ FilesOf(c)' # FilesOf(c))
       => \E r \in Requests : /\ req'[r] # req[r]
                              /\ req[r].par.owner = content[c].owner]_vars

\* A create that reports an error leaves nothing behind when no statement failed
\* at the database: every error of its own making comes before the INSERT or
\* is followed by the DELETE.
UndoneCreate ==
  \A r \in Requests :
    /\ req[r].par # None /\ req[r].par.op = "create"
    /\ req[r].pc = "done" /\ req[r].result # "ok" /\ faults = 0
    => content[r] = None /\ FilesOf(r) = {}

\* No request that removes the encryption has got hold of entry c.
NeverOpened(c) ==
  \A r \in Requests : req[r].par # None /\ req[r].cid = c => ~req[r].par.remove

\* "Its files are then encrypted at rest": an entry created with a passphrase has
\* no cleartext file before somebody removes its encryption, however uploads,
\* rotations and failures interleave and whatever key the files end up under.
SealedAtRest ==
  \A c \in Requests :
    content[c] # None /\ req[c].par.pass # None /\ NeverOpened(c)
    => \A f \in FilesOf(c) : f.seals # <<>>

\* The files of entry c are all sealed once, under the key in its envelope, or
\* all cleartext when it has none.
InStep(c) == LET env == content[c].env IN
             \A f \in FilesOf(c) : f.seals = Seal(env, <<>>)

\* "ApplyEncryption, which keeps the envelope and the file payloads in step."
EnvelopeInStep == \A c \in Requests : content[c] # None => InStep(c)

\* The same of every entry no request is working on: what a failed statement or
\* a crash leaves behind.
SettledInStep ==
  \A c \in Requests :
    /\ content[c] # None
    /\ \A r \in Requests : InFlight(r) => req[r].cid # c
    => InStep(c)

\* With one request at a time and no failure so far, envelope and payloads are in
\* step whenever no request is at work on the entry, whatever requests were
\* refused half-way: it takes a fault to leave an entry torn.
TornOnlyByFault == faults = 0 => SettledInStep

\* Request r changes the envelope of entry c and uploads new files too.
Rekeys(r, c) ==
  LET q == req[r] IN
  /\ q.par # None /\ q.par.op = "update" /\ q.par.upload # None /\ q.cid = c
  /\ q.par.remove \/ (q.env # None /\ q.env.dek = r)

\* With one request at a time, also after failed statements, lost replies and
\* crashes, an entry can be out of step only when a request that changes its
\* envelope and replaces its files has run on it.
TornOnlyByReplacement ==
  \A c \in Requests :
    content[c] # None /\ ~InStep(c) => \E r \in Requests : Rekeys(r, c)

\* With one request at a time, an upload that is answered with success leaves
\* the entry in step, whatever state earlier failures had left it in.
ReplacementRestores ==
  [][\A r, c \in Requests :
       /\ req[r].pc # "done" /\ req'[r].pc = "done" /\ req'[r].result = "ok"
       /\ req'[r].par.op # "delete" /\ req'[r].par.upload # None
       /\ req'[r].cid = c
       => InStep(c)']_vars

\* "supply html or zip_base64 to replace the files": the files of an entry come
\* from one upload.
SingleUpload == \A f, g \in files : f.cid = g.cid => f.by = g.by

\* "Nil metadata pointers are left unchanged": a stored metadata field changes
\* only by a request that supplies it.
NilLeavesUnchanged ==
  [][\A c \in Requests, f \in Fields :
       /\ content[c] # None /\ content'[c] # None
       /\ content'[c].meta[f] # content[c].meta[f]
       => \E r \in Requests : req'[r] # req[r] /\ f \in req[r].par.sets]_vars

\* With one request at a time, the envelope of an encrypted entry is replaced or
\* removed only by a request that presents the passphrase it is under.
PassphraseGuards ==
  [][\A c \in Requests :
       /\ content[c] # None /\ content[c].env # None
       /\ content'[c] # None /\ content'[c].env # content[c].env
       => \E r \in Requests : /\ req'[r] # req[r]
                              /\ req[r].par.pass = content[c].env.pass]_vars

-----------------------------------------------------------------------------
(* What callers that take turns can rely on: each call is one step of a     *)
(* catalogue of whole entries.  An update takes effect for its caller when  *)
(* it is loaded, a create when its row is in; the statements that follow    *)
(* carry it out.                                                            *)

CarriesOut(r) == req[r].pc \in {"list", "apply", "save", "drop", "put"}
WorksOn(r, c) == CarriesOut(r) /\ req[r].cid = c

\* Request r has failed, or is about to answer that it has, after it had begun to
\* work on entry c.
Failing(r) == \/ req[r].pc = "undo"
              \/ req[r].pc = "done" /\ req[r].result \in {"failed", "crashed"}
Hurts(r, c) == /\ Failing(r) /\ req[r].row # None
               /\ c = IF req[r].par.op = "create" THEN r ELSE req[r].cid
Hurt(c) == \E r \in Requests : Hurts(r, c)

\* The files of entry c that its envelope opens.
Pages(c) == {<<f.by, f.n>> :
                  f \in {g \in FilesOf(c) : g.seals = Seal(content[c].env, <<>>)}}

Entry(meta, env, pages) ==
  [meta |-> meta, pass |-> IF env = None THEN None ELSE env.pass, pages |-> pages]

\* Entry c as it stands, and what it will be when request r is through with it.
Standing(c) == Entry(content[c].meta, content[c].env, Pages(c))

Target(r, c) ==
  LET q == req[r] IN
  Entry(q.row.meta, IF q.par.op = "create" THEN q.row.env ELSE q.env,
        IF q.par.upload = None THEN Pages(c)
        ELSE {r} \X (1 .. Len(q.par.upload.paths)))

Shelved(c) ==
  IF content[c] = None \/ Hurt(c) THEN None
  ELSE IF \E r \in Requests : WorksOn(r, c)
  THEN Target(CHOOSE r \in Requests : WorksOn(r, c), c)
  ELSE Standing(c)

AnswerOf(r) == IF Failing(r) THEN "failed"
               ELSE IF req[r].pc = "done"
               THEN IF req[r].result = "ok" THEN "ok" ELSE "refused"
               ELSE IF CarriesOut(r) THEN "working" ELSE "none"

Wanted  == [r \in Requests |-> req[r].par]
Answers == [r \in Requests |-> AnswerOf(r)]
Shelf   == [c \in Requests |-> Shelved(c)]
Lost    == {c \in Requests : Hurt(c)}

Contents == INSTANCE Catalogue WITH
  asked <- Wanted, answer <- Answers, shelf <- Shelf, lost <- Lost

\* With one request at a time: a call that is answered with success has done all
\* of what it was asked, once and in one step, one that is refused had a reason
\* and did nothing, and one that fails harms at most the entry it worked on,
\* which belongs to its caller.
ImplementsCatalogue == Contents!Spec

=============================================================================
