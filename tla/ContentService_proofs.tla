----------------------- MODULE ContentService_proofs -----------------------
(***************************************************************************)
(* Theorems about ContentService for any set of requests, calls, users,    *)
(* slugs, paths and passphrases, with or without overlap, and any number   *)
(* of faults: types, and who may touch what.  A slug names one entry,      *)
(* files hang off entries of their uploader, and an entry changes only by  *)
(* a request of its owner.  No cleartext file is in an entry under a       *)
(* passphrase, nothing stays of a create that failed without a fault of    *)
(* the database, and each file, key and field comes from a request that    *)
(* supplied it.                                                            *)
(*                                                                         *)
(* The service checks the owner once, when it loads an entry, and then     *)
(* works on the id it loaded.  The invariant says why that is enough: the  *)
(* id names the request that inserted the row, whose owner never changes,  *)
(* even after the row is gone and its slug belongs to somebody else.       *)
(***************************************************************************)
EXTENDS ContentService, TLAPS

-----------------------------------------------------------------------------
(* Types.                                                                  *)

\* What a request holds at each point of its program.
HasRow == {"put", "undo", "list", "apply", "save", "drop", "remove"}
Uploads == {"check", "insert", "put", "undo", "drop"}

Shape(q) ==
  /\ q.pc \in Statements => q.par \in Params /\ q.row \in Row \cup {None}
  /\ q.pc = "insert" => q.row \in Row
  /\ q.pc \in HasRow => q.cid \in Requests /\ q.row \in Row
  /\ q.pc \in {"idle", "check", "insert", "load"} => q.cid = None
  /\ q.pc \in Uploads => q.par.upload \in Upload
  /\ q.pc \in {"check", "insert", "undo"} => q.par.op = "create"
  /\ q.pc \in {"list", "apply", "save", "drop"} => q.par.op = "update"
  /\ q.pc = "put" => /\ q.par.op = "create" \/ q.par.op = "update"
                     /\ q.next \in 1 .. Len(q.par.upload.paths)

TypeInv == /\ TypeOK
           /\ \A r \in Requests : Shape(req[r])

-----------------------------------------------------------------------------
(* Typing of the operators the actions are built from.                     *)

\* Sealing payload keys under an envelope gives payload keys.
LEMMA SealType ==
  ASSUME NEW env \in Envelope \cup {None}, NEW s \in Seq(Requests)
  PROVE  Seal(env, s) \in Seq(Requests)
  BY NoneAssumption DEF Seal, Envelope

\* Opening a payload and sealing it again keeps it a file.
LEMMA RewriteType ==
  ASSUME NEW old \in Envelope \cup {None}, NEW new \in Envelope \cup {None},
         NEW f \in File, Opens(old, f)
  PROVE  Rewrite(old, new, f) \in File
<1>1. Tail(f.seals) \in Seq(Requests) \/ old = None
  BY DEF Opens, File
<1>2. (IF old = None THEN f.seals ELSE Tail(f.seals)) \in Seq(Requests)
  BY <1>1 DEF File
<1>3. QED BY <1>2, SealType DEF Rewrite, File

\* A request that ends stays well formed.
LEMMA EndedType ==
  ASSUME NEW q \in Request, NEW res \in Results
  PROVE  Ended(q, res) \in Request /\ Shape(Ended(q, res))
  BY DEF Ended, Request, PCs, Statements, Shape, HasRow, Uploads

\* A request whose upload cannot be stored stays well formed.
LEMMA StoreErrorType ==
  ASSUME NEW q \in Request,
         q.cid \in Requests, q.row \in Row, q.par \in Params,
         q.par.upload \in Upload
  PROVE  StoreError(q) \in Request /\ Shape(StoreError(q))
<1>1. CASE q.par.op = "create"
  BY <1>1 DEF StoreError, At, Request, PCs, Statements, Shape, HasRow, Uploads
<1>2. CASE q.par.op # "create"
  BY <1>2, EndedType DEF StoreError, Results
<1>3. QED BY <1>1, <1>2

\* Whatever storing files leads to, the request stays well formed.
LEMMA StoreFromType ==
  ASSUME NEW q \in Request, NEW n \in Nat \ {0},
         q.cid \in Requests, q.row \in Row, q.par \in Params,
         q.par.upload \in Upload,
         q.par.op = "create" \/ q.par.op = "update"
  PROVE  StoreFrom(q, n) \in Request /\ Shape(StoreFrom(q, n))
<1>1. CASE n <= Len(q.par.upload.paths)
  <2>1. n \in 1 .. Len(q.par.upload.paths)
    BY <1>1 DEF Upload
  <2> DEFINE s == [q EXCEPT !.pc = "put", !.next = n]
  <2>2. s \in Request /\ s.pc = "put" /\ s.next = n /\ s.par = q.par
        /\ s.cid = q.cid /\ s.row = q.row
    BY DEF Request, PCs, Statements
  <2>3. Shape(s)
    BY <2>1, <2>2 DEF Shape, HasRow, Uploads, Statements
  <2>4. QED BY <1>1, <2>2, <2>3 DEF StoreFrom
<1>2. CASE ~(n <= Len(q.par.upload.paths)) /\ q.par.upload.ok
  <2>1. StoreFrom(q, n) = Ended(q, "ok")
    BY <1>2 DEF StoreFrom
  <2>2. QED BY <2>1, EndedType DEF Results
<1>3. CASE ~(n <= Len(q.par.upload.paths)) /\ ~q.par.upload.ok
  <2>1. StoreFrom(q, n) = StoreError(q)
    BY <1>3 DEF StoreFrom
  <2>2. QED BY <2>1, StoreErrorType
<1>4. QED BY <1>1, <1>2, <1>3

\* A loaded update stays well formed.
LEMMA UpdateLoadedType ==
  ASSUME NEW r \in Requests, NEW q \in Request, NEW c \in Requests,
         q.par \in Params, q.par.op = "update", content[c] \in Row
  PROVE  UpdateLoaded(r, q, c) \in Request /\ Shape(UpdateLoaded(r, q, c))
<1> DEFINE row == content[c]
           new == NextEnv(r, q.par, row.env)
<1>1. CASE Refused(q.par, row.env)
  BY <1>1, EndedType DEF UpdateLoaded, Results
<1>2. CASE ~Refused(q.par, row.env)
  <2>1. new \in Envelope \cup {None}
    BY DEF NextEnv, Envelope, Row, Params
  <2>2. Merged(r, q.par, row) \in Row
    BY DEF Merged, Row, Params
  <2> DEFINE to == IF new = row.env THEN "save"
                   ELSE IF q.par.upload = None THEN "list" ELSE "apply"
             u == [q EXCEPT !.pc = to, !.cid = c, !.row = Merged(r, q.par, row),
                            !.env = new]
  <2>3. to \in {"save", "list", "apply"}
    OBVIOUS
  <2> HIDE DEF to, new, row
  <2>4. u \in Request /\ u.pc = to /\ u.cid = c /\ u.par = q.par
        /\ u.row \in Row
    BY <2>1, <2>2, <2>3 DEF Request, PCs, Statements
  <2>5. Shape(u)
    BY <2>3, <2>4 DEF Shape, HasRow, Uploads, Statements
  <2>6. UpdateLoaded(r, q, c) = u
    BY <1>2 DEF UpdateLoaded, to, new, row
  <2>7. QED BY <2>4, <2>5, <2>6
<1>3. QED BY <1>1, <1>2

-----------------------------------------------------------------------------
(* Type correctness.                                                       *)

\* A step that gives one request a well-formed record keeps them well formed.
LEMMA ReqStep ==
  ASSUME TypeInv, NEW r \in Requests, NEW new,
         new \in Request, Shape(new), req' = [req EXCEPT ![r] = new]
  PROVE  req' \in [Requests -> Request] /\ \A s \in Requests : Shape(req'[s])
  BY DEF TypeInv, TypeOK

\* A statement keeps the count of faults within its bound.
LEMMA StatementType ==
  ASSUME TypeInv, NEW r \in Requests, NEW pc, NEW out, Statement(r, pc, out)
  PROVE  faults' \in 0 .. MaxFaults
  BY BoundAssumption DEF TypeInv, TypeOK, Statement

\* Deleting a row keeps the tables well typed.
LEMMA DeleteRowType ==
  ASSUME TypeInv, NEW c \in Requests, DeleteRow(c)
  PROVE  content' \in [Requests -> Row \cup {None}] /\ files' \subseteq File
  BY DEF TypeInv, TypeOK, DeleteRow

\* Making a call, whichever of its parameters, keeps the types: the request moves
\* to a statement with its parameters, or it ends.
LEMMA CallType ==
  ASSUME TypeInv, NEW r \in Requests, Call(r)
  PROVE  TypeInv'
<1>1. PICK p \in Plans[r] :
        LET q == [req[r] EXCEPT !.par = p] IN
        req' = [req EXCEPT ![r] = IF p.op # "create" THEN At(q, "load")
                                  ELSE IF p.slug \in ValidSlugs THEN At(q, "check")
                                  ELSE Ended(q, "rejected")]
  BY DEF Call, Make
<1> DEFINE q == [req[r] EXCEPT !.par = p]
<1>2. p \in Params
  BY PlansAssumption
<1>3. req[r] \in Request /\ Shape(req[r]) /\ req[r].pc = "idle"
  BY DEF TypeInv, TypeOK, Call, Make
<1>4. q \in Request /\ q.par = p /\ q.cid = None
  BY <1>2, <1>3 DEF Request, Shape
<1>5. CASE p.op # "create"
  <2>1. At(q, "load") \in Request /\ Shape(At(q, "load"))
    BY <1>2, <1>4 DEF At, Request, PCs, Statements, Shape, HasRow, Uploads
  <2>2. req' = [req EXCEPT ![r] = At(q, "load")]
    BY <1>1, <1>5
  <2>3. QED BY <2>1, <2>2, ReqStep DEF Call, Make, TypeInv, TypeOK
<1>6. CASE p.op = "create" /\ p.slug \in ValidSlugs
  <2>1. p.upload \in Upload
    BY <1>2, <1>6 DEF Params
  <2>2. At(q, "check") \in Request /\ Shape(At(q, "check"))
    BY <1>2, <1>4, <1>6, <2>1
    DEF At, Request, PCs, Statements, Shape, HasRow, Uploads
  <2>3. req' = [req EXCEPT ![r] = At(q, "check")]
    BY <1>1, <1>6
  <2>4. QED BY <2>2, <2>3, ReqStep DEF Call, Make, TypeInv, TypeOK
<1>7. CASE p.op = "create" /\ p.slug \notin ValidSlugs
  <2>1. Ended(q, "rejected") \in Request /\ Shape(Ended(q, "rejected"))
    BY <1>4, EndedType DEF Results
  <2>2. req' = [req EXCEPT ![r] = Ended(q, "rejected")]
    BY <1>1, <1>7
  <2>3. QED BY <2>1, <2>2, ReqStep DEF Call, Make, TypeInv, TypeOK
<1>8. QED BY <1>5, <1>6, <1>7

\* What TypeInv says of a request about to execute a statement.
LEMMA AtStatement ==
  ASSUME TypeInv, NEW r \in Requests, req[r].pc \in Statements
  PROVE  /\ req[r] \in Request /\ Shape(req[r]) /\ req[r].par \in Params
         /\ req[r].pc \in HasRow => req[r].cid \in Requests /\ req[r].row \in Row
         /\ req[r].pc \in Uploads => req[r].par.upload \in Upload
  BY DEF TypeInv, TypeOK, Shape

\* Files are stored by creates and updates only.
LEMMA PutIsNoDelete ==
  ASSUME TypeInv, NEW r \in Requests, req[r].pc = "put"
  PROVE  req[r].par.op = "create" \/ req[r].par.op = "update"
  BY DEF TypeInv, TypeOK, Shape, Statements

\* The SELECT EXISTS leaves the request with a well-typed row to insert.
LEMMA CheckSlugType ==
  ASSUME TypeInv, NEW r \in Requests, CheckSlug(r)
  PROVE  TypeInv'
<1>1. PICK out \in Reads :
        /\ Statement(r, "check", out)
        /\ req' = [req EXCEPT ![r] =
                     IF out = "err" THEN Ended(req[r], "failed")
                     ELSE IF RowsAt(req[r].par.slug) # {}
                     THEN Ended(req[r], "rejected")
                     ELSE [req[r] EXCEPT !.pc = "insert",
                                         !.row = NewRow(r, req[r].par)]]
  BY DEF CheckSlug
<1>2. req[r].pc = "check" /\ req[r].pc \in Statements /\ req[r].pc \in Uploads
  BY <1>1 DEF Statement, Statements, Uploads
<1>3. /\ req[r] \in Request /\ Shape(req[r]) /\ req[r].par \in Params
      /\ req[r].par.upload \in Upload /\ req[r].cid = None
      /\ req[r].par.op = "create"
  BY <1>2, AtStatement DEF Shape
<1> DEFINE q == [req[r] EXCEPT !.pc = "insert", !.row = NewRow(r, req[r].par)]
<1>4. NewRow(r, req[r].par) \in Row
  BY <1>3 DEF NewRow, Row, Params, Envelope
<1>5. q \in Request /\ Shape(q)
  BY <1>3, <1>4 DEF Request, PCs, Statements, Shape, HasRow, Uploads
<1>6. \A res \in Results : Ended(req[r], res) \in Request
                           /\ Shape(Ended(req[r], res))
  BY <1>3, EndedType
<1>7. \E new \in Request : Shape(new) /\ req' = [req EXCEPT ![r] = new]
  BY <1>1, <1>5, <1>6 DEF Results
<1>8. faults' \in 0 .. MaxFaults
  BY <1>1, StatementType
<1>9. QED BY <1>7, <1>8, ReqStep DEF CheckSlug, TypeInv, TypeOK

\* The INSERT of the entry stores a row, and the request goes on to the first file
\* its upload has.
LEMMA InsertContentType ==
  ASSUME TypeInv, NEW r \in Requests, InsertContent(r)
  PROVE  TypeInv'
<1> DEFINE taken == RowsAt(req[r].row.slug) # {}
           q == [req[r] EXCEPT !.cid = r]
<1>1. PICK out \in Writes :
        /\ Statement(r, "insert", out)
        /\ content' = IF taken \/ out = "err" THEN content
                      ELSE [content EXCEPT ![r] = req[r].row]
        /\ req' = [req EXCEPT ![r] = IF taken \/ out # "ok"
                                     THEN Ended(req[r], "failed")
                                     ELSE StoreFrom(q, 1)]
  BY DEF InsertContent
<1>2. req[r].pc = "insert" /\ req[r].pc \in Statements /\ req[r].pc \in Uploads
  BY <1>1 DEF Statement, Statements, Uploads
<1>3. /\ req[r] \in Request /\ req[r].par \in Params /\ req[r].row \in Row
      /\ req[r].par.upload \in Upload /\ req[r].par.op = "create"
  BY <1>2, AtStatement DEF Shape
<1>4. q \in Request /\ q.cid = r /\ q.row = req[r].row /\ q.par = req[r].par
  BY <1>3 DEF Request
<1> HIDE DEF q
<1>5. StoreFrom(q, 1) \in Request /\ Shape(StoreFrom(q, 1))
  BY <1>3, <1>4, StoreFromType
<1>6. Ended(req[r], "failed") \in Request /\ Shape(Ended(req[r], "failed"))
  BY <1>3, EndedType DEF Results
<1>7. \E new \in Request : Shape(new) /\ req' = [req EXCEPT ![r] = new]
  BY <1>1, <1>5, <1>6
<1>8. faults' \in 0 .. MaxFaults
  BY <1>1, StatementType
<1>9. content' \in [Requests -> Row \cup {None}]
  BY <1>1, <1>3 DEF TypeInv, TypeOK
<1>10. QED BY <1>7, <1>8, <1>9, ReqStep DEF InsertContent, TypeInv, TypeOK

\* The INSERT of a file stores one with an index the upload has, sealed with keys
\* of requests.
LEMMA PutFileType ==
  ASSUME TypeInv, NEW r \in Requests, PutFile(r)
  PROVE  TypeInv'
<1> DEFINE gone == content[req[r].cid] = None
           q == req[r]
<1>1. PICK out \in Writes :
        /\ Statement(r, "put", out)
        /\ files' = IF gone \/ out = "err" THEN files
                    ELSE files \cup {NewFile(r, q)}
        /\ req' = [req EXCEPT ![r] = IF gone \/ out # "ok" THEN StoreError(q)
                                     ELSE StoreFrom(q, q.next + 1)]
  BY DEF PutFile
<1>2. q.pc = "put" /\ q.pc \in Statements /\ q.pc \in HasRow /\ q.pc \in Uploads
  BY <1>1 DEF Statement, Statements, HasRow, Uploads
<1>3. /\ q \in Request /\ q.par \in Params /\ q.row \in Row
      /\ q.cid \in Requests /\ q.par.upload \in Upload
      /\ q.next \in 1 .. Len(q.par.upload.paths)
  BY <1>2, AtStatement DEF Shape
<1>4. q.par.op = "create" \/ q.par.op = "update"
  BY <1>2, PutIsNoDelete
<1> HIDE DEF q
<1>5. StoreFrom(q, q.next + 1) \in Request /\ Shape(StoreFrom(q, q.next + 1))
  <2>1. q.next + 1 \in Nat \ {0}
    BY <1>3 DEF Upload
  <2>2. QED BY <1>3, <1>4, <2>1, StoreFromType
<1>6. StoreError(q) \in Request /\ Shape(StoreError(q))
  BY <1>3, StoreErrorType
<1>7. NewFile(r, q) \in File
  <2>1. Seal(q.row.env, <<>>) \in Seq(Requests)
    <3>1. q.row.env \in Envelope \cup {None} /\ <<>> \in Seq(Requests)
      BY <1>3 DEF Row
    <3>2. QED BY <3>1, SealType
  <2>2. q.par.upload.paths[q.next] \in Paths
    BY <1>3 DEF Upload
  <2>3. q.next \in Nat
    BY <1>3 DEF Request
  <2>4. QED BY <1>3, <2>1, <2>2, <2>3 DEF NewFile, File
<1>8. \E new \in Request : Shape(new) /\ req' = [req EXCEPT ![r] = new]
  BY <1>1, <1>5, <1>6
<1>9. faults' \in 0 .. MaxFaults
  BY <1>1, StatementType
<1>10. QED BY <1>1, <1>7, <1>8, <1>9, ReqStep DEF PutFile, TypeInv, TypeOK

\* The clean-up of a create keeps the types.
LEMMA UndoCreateType ==
  ASSUME TypeInv, NEW r \in Requests, UndoCreate(r)
  PROVE  TypeInv'
<1>1. PICK out \in Writes :
        /\ Statement(r, "undo", out)
        /\ IF out = "err" THEN UNCHANGED <<content, files>>
           ELSE DeleteRow(req[r].cid)
        /\ req' = [req EXCEPT ![r] = Ended(req[r], "failed")]
  BY DEF UndoCreate
<1>2. req[r].pc \in Statements /\ req[r].pc \in HasRow
  BY <1>1 DEF Statement, Statements, HasRow
<1>3. req[r] \in Request /\ req[r].cid \in Requests
  BY <1>2, AtStatement
<1>4. content' \in [Requests -> Row \cup {None}] /\ files' \subseteq File
  BY <1>1, <1>3, DeleteRowType DEF TypeInv, TypeOK
<1>5. Ended(req[r], "failed") \in Request /\ Shape(Ended(req[r], "failed"))
  BY <1>3, EndedType DEF Results
<1>6. faults' \in 0 .. MaxFaults
  BY <1>1, StatementType
<1>7. QED BY <1>1, <1>4, <1>5, <1>6, ReqStep DEF TypeInv, TypeOK

\* The DELETE of an entry keeps the types.
LEMMA DeleteContentType ==
  ASSUME TypeInv, NEW r \in Requests, DeleteContent(r)
  PROVE  TypeInv'
<1>1. PICK out \in Writes :
        /\ Statement(r, "remove", out)
        /\ IF out = "err" THEN UNCHANGED <<content, files>>
           ELSE DeleteRow(req[r].cid)
        /\ req' = [req EXCEPT ![r] =
                     Ended(req[r], IF out = "ok" THEN "ok" ELSE "failed")]
  BY DEF DeleteContent
<1>2. req[r].pc \in Statements /\ req[r].pc \in HasRow
  BY <1>1 DEF Statement, Statements, HasRow
<1>3. req[r] \in Request /\ req[r].cid \in Requests
  BY <1>2, AtStatement
<1>4. content' \in [Requests -> Row \cup {None}] /\ files' \subseteq File
  BY <1>1, <1>3, DeleteRowType DEF TypeInv, TypeOK
<1>5. \E new \in Request : Shape(new) /\ req' = [req EXCEPT ![r] = new]
  BY <1>1, <1>3, EndedType DEF Results
<1>6. faults' \in 0 .. MaxFaults
  BY <1>1, StatementType
<1>7. QED BY <1>4, <1>5, <1>6, ReqStep DEF TypeInv, TypeOK

\* The SELECT of an entry gives the request a copy that is a row, and the envelope
\* an update goes to is an envelope or NULL.
LEMMA LoadContentType ==
  ASSUME TypeInv, NEW r \in Requests, LoadContent(r)
  PROVE  TypeInv'
<1> DEFINE p == req[r].par
           own == {c \in RowsAt(p.slug) : content[c].owner = p.owner}
           q(c) == [req[r] EXCEPT !.pc = "remove", !.cid = c, !.row = content[c]]
<1>1. PICK out \in Reads :
        /\ Statement(r, "load", out)
        /\ \/ req' = [req EXCEPT ![r] =
                        Ended(req[r], IF out = "err" THEN "failed" ELSE "rejected")]
           \/ \E c \in own :
                req' = [req EXCEPT ![r] = IF p.op = "update"
                                          THEN UpdateLoaded(r, req[r], c)
                                          ELSE q(c)]
  BY DEF LoadContent
<1>2. req[r].pc = "load" /\ req[r].pc \in Statements
  BY <1>1 DEF Statement, Statements
<1>3. req[r] \in Request /\ p \in Params
  BY <1>2, AtStatement
<1>4. \A c \in own : c \in Requests /\ content[c] \in Row
  BY DEF RowsAt, TypeInv, TypeOK
<1>5. \A c \in own : p.op = "update" =>
        UpdateLoaded(r, req[r], c) \in Request /\ Shape(UpdateLoaded(r, req[r], c))
  BY <1>3, <1>4, UpdateLoadedType
<1>6. \A c \in own : q(c) \in Request /\ Shape(q(c))
  BY <1>3, <1>4 DEF Request, PCs, Statements, Shape, HasRow, Uploads
<1>7. \A res \in Results : Ended(req[r], res) \in Request
                           /\ Shape(Ended(req[r], res))
  BY <1>3, EndedType
<1> HIDE DEF q
<1>8. \E new \in Request : Shape(new) /\ req' = [req EXCEPT ![r] = new]
  BY <1>1, <1>5, <1>6, <1>7 DEF Results
<1>9. faults' \in 0 .. MaxFaults
  BY <1>1, StatementType
<1>10. QED BY <1>8, <1>9, ReqStep DEF LoadContent, TypeInv, TypeOK

\* Whatever payloads are read, those written back are files.
LEMMA ListFilesType ==
  ASSUME TypeInv, NEW r \in Requests, ListFiles(r)
  PROVE  TypeInv'
<1> DEFINE q == req[r]
           opened == \A f \in FilesOf(q.cid) : Opens(q.row.env, f)
           new == {Rewrite(q.row.env, q.env, f) : f \in FilesOf(q.cid)}
           listed == [q EXCEPT !.pc = "apply", !.rewritten = new]
<1>1. PICK out \in Reads :
        /\ Statement(r, "list", out)
        /\ req' = [req EXCEPT ![r] = IF out = "ok" /\ opened THEN listed
                                     ELSE Ended(q, "failed")]
  BY DEF ListFiles
<1>2. q.pc = "list" /\ q.pc \in Statements /\ q.pc \in HasRow
  BY <1>1 DEF Statement, Statements, HasRow
<1>3. /\ q \in Request /\ q.par \in Params /\ q.row \in Row
      /\ q.cid \in Requests /\ q.par.op = "update"
  BY <1>2, AtStatement DEF Shape
<1>4. ASSUME opened PROVE new \subseteq File
  <2>1. q.row.env \in Envelope \cup {None} /\ q.env \in Envelope \cup {None}
    BY <1>3 DEF Request, Row
  <2>2. FilesOf(q.cid) \subseteq File
    BY DEF FilesOf, TypeInv, TypeOK
  <2>3. QED BY <1>4, <2>1, <2>2, RewriteType
<1> HIDE DEF new
<1>5. ASSUME opened PROVE listed \in Request /\ Shape(listed)
  BY <1>3, <1>4, <1>5 DEF Request, PCs, Statements, Shape, HasRow, Uploads
<1>6. Ended(q, "failed") \in Request /\ Shape(Ended(q, "failed"))
  BY <1>3, EndedType DEF Results
<1> HIDE DEF listed, q
<1>7. \E n \in Request : Shape(n) /\ req' = [req EXCEPT ![r] = n]
  BY <1>1, <1>5, <1>6
<1>8. faults' \in 0 .. MaxFaults
  BY <1>1, StatementType
<1>9. QED BY <1>7, <1>8, ReqStep DEF ListFiles, TypeInv, TypeOK

\* The transaction over envelope and payloads keeps both well typed, also when the
\* entry or some of the files are gone.
LEMMA ApplyEncryptionType ==
  ASSUME TypeInv, NEW r \in Requests, ApplyEncryption(r)
  PROVE  TypeInv'
<1> DEFINE q == req[r]
           kept == {f \in files : \A g \in q.rewritten : ~SameFile(f, g)}
           stored == {g \in q.rewritten : \E f \in files : SameFile(f, g)}
           saved == [q EXCEPT !.pc = "save", !.row.env = q.env, !.rewritten = {}]
<1>1. PICK out \in Writes :
        /\ Statement(r, "apply", out)
        /\ content' = IF out = "err" \/ content[q.cid] = None THEN content
                      ELSE [content EXCEPT ![q.cid].env = q.env]
        /\ files' = IF out = "err" THEN files ELSE kept \cup stored
        /\ req' = [req EXCEPT ![r] = IF out = "ok" THEN saved
                                     ELSE Ended(q, "failed")]
  BY DEF ApplyEncryption
<1>2. q.pc = "apply" /\ q.pc \in Statements /\ q.pc \in HasRow
  BY <1>1 DEF Statement, Statements, HasRow
<1>3. /\ q \in Request /\ q.par \in Params /\ q.row \in Row
      /\ q.cid \in Requests /\ q.par.op = "update"
  BY <1>2, AtStatement DEF Shape
<1>4. q.env \in Envelope \cup {None}
  BY <1>3 DEF Request
<1>5. [q.row EXCEPT !.env = q.env] \in Row
  BY <1>3, <1>4 DEF Row
<1>6. saved \in Request /\ saved.pc = "save" /\ saved.cid = q.cid
      /\ saved.par = q.par /\ saved.row \in Row
  BY <1>3, <1>5 DEF Request, PCs, Statements
<1> HIDE DEF saved
<1>7. Shape(saved)
  BY <1>3, <1>6 DEF Shape, HasRow, Uploads
<1>8. Ended(q, "failed") \in Request /\ Shape(Ended(q, "failed"))
  BY <1>3, EndedType DEF Results
<1>9. content' \in [Requests -> Row \cup {None}]
  <2>1. CASE content' = content
    BY <2>1 DEF TypeInv, TypeOK
  <2>2. CASE content' # content
    <3>1. /\ content[q.cid] \in Row
          /\ content' = [content EXCEPT ![q.cid] =
                           [content[q.cid] EXCEPT !.env = q.env]]
      BY <1>1, <1>3, <2>2 DEF TypeInv, TypeOK
    <3>2. [content[q.cid] EXCEPT !.env = q.env] \in Row
      BY <1>4, <3>1 DEF Row
    <3>3. QED BY <3>1, <3>2 DEF TypeInv, TypeOK
  <2>3. QED BY <2>1, <2>2
<1>10. files' \subseteq File
  BY <1>1, <1>3 DEF TypeInv, TypeOK, Request
<1> HIDE DEF q
<1>11. \E n \in Request : Shape(n) /\ req' = [req EXCEPT ![r] = n]
  BY <1>1, <1>6, <1>7, <1>8
<1>12. faults' \in 0 .. MaxFaults
  BY <1>1, StatementType
<1>13. QED BY <1>9, <1>10, <1>11, <1>12, ReqStep DEF TypeInv, TypeOK

\* The UPDATE of the metadata keeps the row a row.
LEMMA SaveContentType ==
  ASSUME TypeInv, NEW r \in Requests, SaveContent(r)
  PROVE  TypeInv'
<1> DEFINE q == req[r]
<1>1. PICK out \in Writes :
        /\ Statement(r, "save", out)
        /\ content' = IF out = "err" \/ content[q.cid] = None THEN content
                      ELSE [content EXCEPT ![q.cid].meta = q.row.meta]
        /\ req' = [req EXCEPT ![r] = IF out # "ok" THEN Ended(q, "failed")
                                     ELSE IF q.par.upload = None
                                     THEN Ended(q, "ok")
                                     ELSE At(q, "drop")]
  BY DEF SaveContent
<1>2. q.pc = "save" /\ q.pc \in Statements /\ q.pc \in HasRow
  BY <1>1 DEF Statement, Statements, HasRow
<1>3. /\ q \in Request /\ q.par \in Params /\ q.row \in Row
      /\ q.cid \in Requests /\ q.par.op = "update"
  BY <1>2, AtStatement DEF Shape
<1>4. q.par.upload # None => At(q, "drop") \in Request /\ Shape(At(q, "drop"))
  <2>1. At(q, "drop") \in Request /\ At(q, "drop").pc = "drop"
        /\ At(q, "drop").par = q.par /\ At(q, "drop").cid = q.cid
        /\ At(q, "drop").row = q.row
    BY <1>3 DEF At, Request, PCs, Statements
  <2>2. q.par.upload # None => q.par.upload \in Upload
    BY <1>3 DEF Params
  <2>3. QED BY <1>3, <2>1, <2>2 DEF Shape, HasRow, Uploads
<1>5. \A res \in Results : Ended(q, res) \in Request /\ Shape(Ended(q, res))
  BY <1>3, EndedType
<1>6. content' \in [Requests -> Row \cup {None}]
  <2>1. CASE content' = content
    BY <2>1 DEF TypeInv, TypeOK
  <2>2. CASE content' # content
    <3>1. /\ content[q.cid] \in Row
          /\ content' = [content EXCEPT ![q.cid] =
                           [content[q.cid] EXCEPT !.meta = q.row.meta]]
      BY <1>1, <1>3, <2>2 DEF TypeInv, TypeOK
    <3>2. [content[q.cid] EXCEPT !.meta = q.row.meta] \in Row
      BY <1>3, <3>1 DEF Row
    <3>3. QED BY <3>1, <3>2 DEF TypeInv, TypeOK
  <2>3. QED BY <2>1, <2>2
<1> HIDE DEF q
<1>7. \E n \in Request : Shape(n) /\ req' = [req EXCEPT ![r] = n]
  BY <1>1, <1>4, <1>5 DEF Results
<1>8. faults' \in 0 .. MaxFaults
  BY <1>1, StatementType
<1>9. QED BY <1>6, <1>7, <1>8, ReqStep DEF SaveContent, TypeInv, TypeOK

\* The DELETE of the files keeps the types.
LEMMA DropFilesType ==
  ASSUME TypeInv, NEW r \in Requests, DropFiles(r)
  PROVE  TypeInv'
<1> DEFINE q == req[r]
<1>1. PICK out \in Writes :
        /\ Statement(r, "drop", out)
        /\ files' = IF out = "err" THEN files ELSE files \ FilesOf(q.cid)
        /\ req' = [req EXCEPT ![r] = IF out = "ok" THEN StoreFrom(q, 1)
                                     ELSE Ended(q, "failed")]
  BY DEF DropFiles
<1>2. q.pc = "drop" /\ q.pc \in Statements /\ q.pc \in HasRow /\ q.pc \in Uploads
  BY <1>1 DEF Statement, Statements, HasRow, Uploads
<1>3. /\ q \in Request /\ q.par \in Params /\ q.row \in Row
      /\ q.cid \in Requests /\ q.par.upload \in Upload /\ q.par.op = "update"
  BY <1>2, AtStatement DEF Shape
<1> HIDE DEF q
<1>4. StoreFrom(q, 1) \in Request /\ Shape(StoreFrom(q, 1))
  BY <1>3, StoreFromType
<1>5. Ended(q, "failed") \in Request /\ Shape(Ended(q, "failed"))
  BY <1>3, EndedType DEF Results
<1>6. files' \subseteq File
  BY <1>1 DEF TypeInv, TypeOK
<1>7. \E n \in Request : Shape(n) /\ req' = [req EXCEPT ![r] = n]
  BY <1>1, <1>4, <1>5
<1>8. faults' \in 0 .. MaxFaults
  BY <1>1, StatementType
<1>9. QED BY <1>6, <1>7, <1>8, ReqStep DEF DropFiles, TypeInv, TypeOK

\* A crash keeps the types.
LEMMA CrashType ==
  ASSUME TypeInv, Crash
  PROVE  TypeInv'
<1>1. \A r \in Requests : req[r] \in Request /\ Shape(req[r])
                          /\ Ended(req[r], "crashed") \in Request
                          /\ Shape(Ended(req[r], "crashed"))
  BY EndedType DEF TypeInv, TypeOK, Results
<1>2. req' \in [Requests -> Request] /\ \A r \in Requests : Shape(req'[r])
  BY <1>1 DEF Crash
<1>3. faults' \in 0 .. MaxFaults
  BY BoundAssumption DEF Crash, TypeInv, TypeOK
<1>4. QED BY <1>2, <1>3 DEF Crash, TypeInv, TypeOK

\* Every step of a request keeps the types.
LEMMA StepType ==
  ASSUME TypeInv, NEW r \in Requests, Step(r)
  PROVE  TypeInv'
  BY CallType, CheckSlugType, InsertContentType, PutFileType, UndoCreateType,
     LoadContentType, ListFilesType, ApplyEncryptionType, SaveContentType,
     DropFilesType, DeleteContentType DEF Step

\* The tables and the requests keep their types, whatever is called, however the
\* calls overlap and wherever statements fail or the process dies.
THEOREM TypeCorrect == Spec => []TypeOK
<1>1. Init => TypeInv
  BY BoundAssumption
  DEF Init, Idle, TypeInv, TypeOK, Request, PCs, Results, Shape, Statements,
      HasRow, Uploads
<1>2. TypeInv /\ [Next]_vars => TypeInv'
  <2>1. ASSUME TypeInv, Next PROVE TypeInv'
    BY <2>1, StepType, CrashType
    DEF Next, AllDone, vars, TypeInv, TypeOK
  <2>2. ASSUME TypeInv, UNCHANGED vars PROVE TypeInv'
    BY <2>2 DEF vars, TypeInv, TypeOK
  <2>3. QED BY <2>1, <2>2
<1>3. TypeInv => TypeOK
  BY DEF TypeInv
<1>4. QED BY <1>1, <1>2, <1>3, PTL DEF Spec

-----------------------------------------------------------------------------
(* Ownership.                                                              *)

\* What a request is before it has inserted its row.
Early == {"idle", "check", "insert"}

\* The parameters of a request are given once.
ParOnce == \A r \in Requests : req[r].pc = "idle" => req[r].par = None

\* The entry a request works on was created for the same owner.
SameOwner == \A r \in Requests : req[r].cid # None =>
               /\ req[r].par # None
               /\ req[req[r].cid].par # None
               /\ req[req[r].cid].par.owner = req[r].par.owner

\* A row about to be inserted carries the owner of its request.
OwnRow == \A r \in Requests : req[r].pc = "insert" =>
            req[r].row.owner = req[r].par.owner

\* The payloads a request puts back were uploaded to the entry it works on.
OwnRewrites == \A r \in Requests : \A g \in req[r].rewritten :
                 g.cid = req[r].cid /\ req[g.by].cid = g.cid

\* A row carries the owner of the request that inserted it.
RowOwner == \A c \in Requests : content[c] # None =>
              /\ req[c].par # None /\ content[c].owner = req[c].par.owner
              /\ req[c].pc \notin Early

\* A file hangs off an entry that exists, the one its uploader works on.
FileOwner == \A f \in files : content[f.cid] # None /\ req[f.by].cid = f.cid

\* The UNIQUE key.
SlugKey == \A c, d \in Requests :
             /\ content[c] # None /\ content[d] # None
             /\ content[c].slug = content[d].slug
             => c = d

Ownership == /\ ParOnce /\ SameOwner /\ OwnRow /\ OwnRewrites
             /\ RowOwner /\ FileOwner /\ SlugKey

-----------------------------------------------------------------------------
(* What every step of a request keeps to.                                  *)

LawfulRequest(r) ==
  /\ \A s \in Requests \ {r} : req'[s] = req[s]
  /\ req'[r] # req[r] /\ req'[r].pc # "idle"
  /\ req[r].par # None => req'[r].par = req[r].par
  /\ req[r].cid # None => req'[r].cid = req[r].cid
  /\ req'[r].cid # None => req'[r].par # None
  /\ \/ req'[r].cid \in {None, req[r].cid, r}
     \/ /\ content[req'[r].cid] # None
        /\ content[req'[r].cid].owner = req'[r].par.owner
  /\ req'[r].pc = "insert" => req'[r].row.owner = req'[r].par.owner
  /\ req'[r].pc \in Early => req[r].pc \in Early
  /\ \A g \in req'[r].rewritten : g.cid = req'[r].cid /\ req[g.by].cid = g.cid

\* Rows are deleted or changed only at the entry r works on, where the owner and
\* the slug stay; r inserts at most its own row, at a free slug.
LawfulRows(r) ==
  \A c \in Requests :
    \/ content'[c] = content[c]
    \/ /\ c = req[r].cid
       /\ content'[c] # None => /\ content[c] # None
                                /\ content'[c].owner = content[c].owner
                                /\ content'[c].slug = content[c].slug
    \/ /\ c = r /\ content[c] = None
       /\ req'[r].par # None /\ content'[c].owner = req'[r].par.owner
       /\ RowsAt(content'[c].slug) = {}
       /\ req'[r].pc \notin Early

LawfulFiles(r) ==
  /\ \A f \in files' : /\ content'[f.cid] # None
                       /\ req[f.by].cid = f.cid \/ (f.by = r /\ f.cid = req'[r].cid)
  /\ \A f \in files \cup files' : \/ f \in files /\ f \in files'
                                  \/ f.cid = req[r].cid

Lawful(r) == LawfulRequest(r) /\ LawfulRows(r) /\ LawfulFiles(r)

\* A lawful step keeps the invariant.
LEMMA LawfulKeeps ==
  ASSUME TypeInv, TypeInv', Ownership, NEW r \in Requests, Lawful(r)
  PROVE  Ownership'
<1>1. /\ req \in [Requests -> Request] /\ req' \in [Requests -> Request]
      /\ files \subseteq File /\ files' \subseteq File
      /\ None \notin Requests
  BY NoneAssumption DEF TypeInv, TypeOK
<1>2. \A s \in Requests : /\ req[s].par # None => req'[s].par = req[s].par
                          /\ req[s].cid # None => req'[s].cid = req[s].cid
  BY DEF Lawful, LawfulRequest
<1>3. \A s \in Requests : /\ req[s].cid \in Requests \cup {None}
                          /\ req'[s].cid \in Requests \cup {None}
                          /\ req'[s].rewritten \subseteq File
  BY <1>1 DEF Request
<1>4. ParOnce'
  BY DEF Lawful, LawfulRequest, Ownership, ParOnce
<1>5. SameOwner'
  <2> SUFFICES ASSUME NEW s \in Requests, req'[s].cid # None
               PROVE  /\ req'[s].par # None
                      /\ req'[req'[s].cid].par # None
                      /\ req'[req'[s].cid].par.owner = req'[s].par.owner
    BY DEF SameOwner
  <2>1. CASE req[s].cid # None
    BY <1>2, <1>3, <2>1 DEF Ownership, SameOwner
  <2>2. CASE req[s].cid = None /\ req'[s].cid = s
    <3>1. s = r
      BY <1>1, <2>2 DEF Lawful, LawfulRequest
    <3>2. QED BY <2>2, <3>1 DEF Lawful, LawfulRequest
  <2>3. CASE req[s].cid = None /\ req'[s].cid # s
    <3>1. s = r
      BY <2>3 DEF Lawful, LawfulRequest
    <3>2. /\ content[req'[r].cid] # None /\ req'[r].par # None
          /\ content[req'[r].cid].owner = req'[r].par.owner
      BY <2>3, <3>1 DEF Lawful, LawfulRequest
    <3>3. req'[r].cid \in Requests
      BY <1>3, <3>1
    <3>4. /\ req[req'[r].cid].par # None
          /\ content[req'[r].cid].owner = req[req'[r].cid].par.owner
      BY <3>2, <3>3 DEF Ownership, RowOwner
    <3>5. QED BY <1>2, <3>1, <3>2, <3>3, <3>4
  <2>4. QED BY <2>1, <2>2, <2>3
<1>6. OwnRow'
  BY DEF Lawful, LawfulRequest, Ownership, OwnRow
<1>7. OwnRewrites'
  <2> SUFFICES ASSUME NEW s \in Requests, NEW g \in req'[s].rewritten
               PROVE  g.cid = req'[s].cid /\ req'[g.by].cid = g.cid
    BY DEF OwnRewrites
  <2>1. g \in File /\ g.by \in Requests /\ g.cid \in Requests
    BY <1>3 DEF File
  <2>2. g.cid = req'[s].cid /\ req[g.by].cid = g.cid
    <3>1. CASE s = r
      BY <3>1 DEF Lawful, LawfulRequest
    <3>2. CASE s # r
      BY <3>2 DEF Lawful, LawfulRequest, Ownership, OwnRewrites
    <3>3. QED BY <3>1, <3>2
  <2>3. QED BY <1>1, <1>2, <2>1, <2>2
<1>8. RowOwner'
  <2> SUFFICES ASSUME NEW c \in Requests, content'[c] # None
               PROVE  /\ req'[c].par # None
                      /\ content'[c].owner = req'[c].par.owner
                      /\ req'[c].pc \notin Early
    BY DEF RowOwner
  <2>1. \/ content[c] # None /\ content'[c].owner = content[c].owner
        \/ /\ c = r /\ req'[r].par # None
           /\ content'[c].owner = req'[r].par.owner /\ req'[r].pc \notin Early
    BY DEF Lawful, LawfulRows
  <2>2. CASE content[c] # None /\ content'[c].owner = content[c].owner
    <3>1. /\ req[c].par # None /\ content[c].owner = req[c].par.owner
          /\ req[c].pc \notin Early
      BY <2>2 DEF Ownership, RowOwner
    <3>2. req'[c].pc \notin Early
      BY <3>1 DEF Lawful, LawfulRequest
    <3>3. QED BY <1>2, <2>2, <3>1, <3>2
  <2>3. QED BY <2>1, <2>2
<1>9. FileOwner'
  <2> SUFFICES ASSUME NEW f \in files'
               PROVE  content'[f.cid] # None /\ req'[f.by].cid = f.cid
    BY DEF FileOwner
  <2>1. f.by \in Requests /\ f.cid \in Requests
    BY <1>1 DEF File
  <2>2. /\ content'[f.cid] # None
        /\ req[f.by].cid = f.cid \/ (f.by = r /\ f.cid = req'[r].cid)
    BY DEF Lawful, LawfulFiles
  <2>3. QED BY <1>1, <1>2, <2>1, <2>2
<1>10. SlugKey'
  <2> SUFFICES ASSUME NEW c \in Requests, NEW d \in Requests,
                      content'[c] # None, content'[d] # None,
                      content'[c].slug = content'[d].slug
               PROVE  c = d
    BY DEF SlugKey
  <2> DEFINE Old(e) == content[e] # None /\ content'[e].slug = content[e].slug
             New(e) == e = r /\ RowsAt(content'[e].slug) = {}
  <2>1. (Old(c) \/ New(c)) /\ (Old(d) \/ New(d))
    BY DEF Lawful, LawfulRows
  <2>2. CASE Old(c) /\ Old(d)
    BY <2>2 DEF Ownership, SlugKey
  <2>3. CASE Old(c) /\ New(d)
    BY <2>3 DEF RowsAt
  <2>4. CASE New(c) /\ Old(d)
    BY <2>4 DEF RowsAt
  <2>5. QED BY <2>1, <2>2, <2>3, <2>4
<1>11. QED BY <1>4, <1>5, <1>6, <1>7, <1>8, <1>9, <1>10 DEF Ownership

-----------------------------------------------------------------------------
(* Every action is lawful.                                                 *)

\* A request goes on with the parameters, the id and the payloads it has, past
\* the point where it inserts its row.
Moved(q, new) == /\ new.par = q.par /\ new.cid = q.cid
                 /\ new.rewritten = q.rewritten
                 /\ new.pc \notin Early /\ new # q

\* Ending moves a request.
LEMMA EndedMoves ==
  ASSUME NEW q \in Request, NEW res, q.pc # "done"
  PROVE  Moved(q, Ended(q, res))
  BY DEF Moved, Ended, Request, Early

\* So does failing to store files.
LEMMA StoreErrorMoves ==
  ASSUME NEW q \in Request, q.pc # "done", q.pc # "undo"
  PROVE  Moved(q, StoreError(q))
<1>1. Moved(q, At(q, "undo"))
  BY DEF Moved, At, Request, Early
<1>2. QED BY <1>1, EndedMoves DEF StoreError

\* So does storing the next file, or coming to the end of the upload.
LEMMA StoreFromMoves ==
  ASSUME NEW q \in Request, NEW n \in Nat, q.pc # "done", q.pc # "undo",
         q.pc = "put" => n # q.next
  PROVE  Moved(q, StoreFrom(q, n))
<1>1. Moved(q, [q EXCEPT !.pc = "put", !.next = n])
  BY DEF Moved, Request, Early
<1>2. QED BY <1>1, EndedMoves, StoreErrorMoves DEF StoreFrom

\* A request that moves keeps to the law, whatever it does to the tables.
LEMMA MovedIsLawful ==
  ASSUME TypeInv, TypeInv', Ownership, NEW r \in Requests,
         req' = [req EXCEPT ![r] = req'[r]], Moved(req[r], req'[r]),
         req[r].pc \in Statements
  PROVE  LawfulRequest(r)
<1>1. req[r] \in Request /\ req[r].par \in Params /\ req[r].par # None
  BY AtStatement, NoneAssumption
<1>2. \A s \in Requests \ {r} : req'[s] = req[s]
  BY DEF TypeInv, TypeOK
<1>3. \A g \in req'[r].rewritten : g.cid = req'[r].cid /\ req[g.by].cid = g.cid
  BY DEF Moved, Ownership, OwnRewrites
<1>4. req'[r].pc # "idle" /\ req'[r].pc # "insert"
  BY DEF Moved, Early
<1>5. QED BY <1>1, <1>2, <1>3, <1>4 DEF LawfulRequest, Moved

\* A step that leaves the tables alone keeps to the law about them.
LEMMA ReadIsLawful ==
  ASSUME Ownership, NEW r, UNCHANGED <<content, files>>
  PROVE  LawfulRows(r) /\ LawfulFiles(r)
  BY DEF LawfulRows, LawfulFiles, Ownership, FileOwner

\* Deleting the entry a request works on, or nothing, is lawful.
LEMMA DeleteIsLawful ==
  ASSUME TypeInv, Ownership, NEW r \in Requests, req[r].cid \in Requests,
         UNCHANGED <<content, files>> \/ DeleteRow(req[r].cid)
  PROVE  LawfulRows(r) /\ LawfulFiles(r)
<1>1. CASE UNCHANGED <<content, files>>
  BY <1>1, ReadIsLawful
<1>2. CASE DeleteRow(req[r].cid)
  <2>1. \A c \in Requests : content'[c] = IF c = req[r].cid THEN None ELSE content[c]
    BY <1>2 DEF DeleteRow, TypeInv, TypeOK
  <2>2. LawfulRows(r)
    BY <2>1 DEF LawfulRows
  <2>3. files' = files \ FilesOf(req[r].cid) /\ \A f \in files : f.cid \in Requests
    BY <1>2 DEF DeleteRow, TypeInv, TypeOK, File
  <2>4. LawfulFiles(r)
    BY <2>1, <2>3 DEF LawfulFiles, FilesOf, Ownership, FileOwner
  <2>5. QED BY <2>2, <2>4
<1>3. QED BY <1>1, <1>2

\* A call gives a request its parameters, which it did not have before.
LEMMA CallLawful ==
  ASSUME TypeInv, TypeInv', Ownership, NEW r \in Requests, Call(r)
  PROVE  Lawful(r)
<1>1. PICK p \in Plans[r] :
        LET q == [req[r] EXCEPT !.par = p] IN
        req' = [req EXCEPT ![r] = IF p.op # "create" THEN At(q, "load")
                                  ELSE IF p.slug \in ValidSlugs THEN At(q, "check")
                                  ELSE Ended(q, "rejected")]
  BY DEF Call, Make
<1>2. p \in Params /\ p # None
  BY PlansAssumption, NoneAssumption
<1>3. /\ req[r] \in Request /\ req[r].pc = "idle" /\ req[r].par = None
      /\ req[r].cid = None
  BY DEF TypeInv, TypeOK, Call, Make, Ownership, ParOnce, Shape
<1>4. /\ req'[r].par = p /\ req'[r].cid = None
      /\ req'[r].rewritten = req[r].rewritten
      /\ req'[r].pc \in {"load", "check", "done"}
  <2> DEFINE q == [req[r] EXCEPT !.par = p]
  <2>1. /\ q \in [pc : PCs, par : Params, cid : Requests \cup {None},
                  row : Row \cup {None}, env : Envelope \cup {None},
                  rewritten : SUBSET File, next : Nat, result : Results]
        /\ q.par = p /\ q.cid = None /\ q.rewritten = req[r].rewritten
    BY <1>2, <1>3 DEF Request
  <2>2. req'[r] \in {At(q, "load"), At(q, "check"), Ended(q, "rejected")}
    BY <1>1 DEF TypeInv, TypeOK
  <2> HIDE DEF q
  <2>3. QED BY <2>1, <2>2 DEF At, Ended
<1>5. \A s \in Requests \ {r} : req'[s] = req[s]
  BY <1>1 DEF TypeInv, TypeOK
<1>6. \A g \in req'[r].rewritten : g.cid = req'[r].cid /\ req[g.by].cid = g.cid
  BY <1>3, <1>4 DEF Ownership, OwnRewrites
<1>7. LawfulRequest(r)
  BY <1>2, <1>3, <1>4, <1>5, <1>6 DEF LawfulRequest, Early
<1>8. QED BY <1>7, ReadIsLawful DEF Call, Make, Lawful

\* The check of the slug prepares a row for the owner of the call.
LEMMA CheckSlugLawful ==
  ASSUME TypeInv, TypeInv', Ownership, NEW r \in Requests, CheckSlug(r)
  PROVE  Lawful(r)
<1>1. /\ req[r].pc = "check" /\ UNCHANGED <<content, files>>
      /\ \/ \E res \in Results : req' = [req EXCEPT ![r] = Ended(req[r], res)]
         \/ req' = [req EXCEPT ![r] = [req[r] EXCEPT !.pc = "insert",
                                         !.row = NewRow(r, req[r].par)]]
  BY DEF CheckSlug, Statement, Results
<1>2. /\ req[r] \in Request /\ req[r].par \in Params /\ req[r].par # None
      /\ req[r].pc \in Statements /\ req[r].cid = None
  BY <1>1, AtStatement, NoneAssumption DEF Statements, Shape
<1>3. CASE \E res \in Results : req' = [req EXCEPT ![r] = Ended(req[r], res)]
  <2>1. PICK res \in Results : req' = [req EXCEPT ![r] = Ended(req[r], res)]
    BY <1>3
  <2>2. req'[r] = Ended(req[r], res) /\ req' = [req EXCEPT ![r] = req'[r]]
    BY <2>1 DEF TypeInv, TypeOK
  <2>3. Moved(req[r], req'[r])
    BY <1>1, <1>2, <2>2, EndedMoves
  <2>4. QED BY <1>1, <1>2, <2>2, <2>3, MovedIsLawful, ReadIsLawful DEF Lawful
<1>4. CASE req' = [req EXCEPT ![r] = [req[r] EXCEPT !.pc = "insert",
                                         !.row = NewRow(r, req[r].par)]]
  <2>1. req'[r] = [req[r] EXCEPT !.pc = "insert", !.row = NewRow(r, req[r].par)]
    BY <1>4 DEF TypeInv, TypeOK
  <2>2. /\ req'[r].par = req[r].par /\ req'[r].cid = None
        /\ req'[r].rewritten = req[r].rewritten /\ req'[r].pc = "insert"
        /\ req'[r].row.owner = req[r].par.owner
    BY <1>2, <2>1 DEF Request, NewRow
  <2>3. \A s \in Requests \ {r} : req'[s] = req[s]
    BY <1>4 DEF TypeInv, TypeOK
  <2>4. \A g \in req'[r].rewritten : g.cid = req'[r].cid /\ req[g.by].cid = g.cid
    BY <1>2, <2>2 DEF Ownership, OwnRewrites
  <2>5. LawfulRequest(r)
    BY <1>1, <1>2, <2>2, <2>3, <2>4 DEF LawfulRequest, Early
  <2>6. QED BY <1>1, <2>5, ReadIsLawful DEF Lawful
<1>5. QED BY <1>1, <1>3, <1>4

\* A row is inserted at a slug the UNIQUE key finds free, also when the reply to
\* the INSERT is lost; from then on the request works on it.
LEMMA InsertContentLawful ==
  ASSUME TypeInv, TypeInv', Ownership, NEW r \in Requests, InsertContent(r)
  PROVE  Lawful(r)
<1> DEFINE taken == RowsAt(req[r].row.slug) # {}
           q == [req[r] EXCEPT !.cid = r]
<1>1. PICK out \in Writes :
        /\ Statement(r, "insert", out)
        /\ content' = IF taken \/ out = "err" THEN content
                      ELSE [content EXCEPT ![r] = req[r].row]
        /\ req' = [req EXCEPT ![r] = IF taken \/ out # "ok"
                                     THEN Ended(req[r], "failed")
                                     ELSE StoreFrom(q, 1)]
  BY DEF InsertContent
<1>2. req[r].pc = "insert" /\ req[r].pc \in Statements
  BY <1>1 DEF Statement, Statements
<1>3. /\ req[r] \in Request /\ req[r].par \in Params /\ req[r].par # None
      /\ req[r].cid = None /\ req[r].row.owner = req[r].par.owner
  BY <1>2, AtStatement, NoneAssumption DEF Shape, Ownership, OwnRow
<1>4. content[r] = None
  BY <1>2 DEF Ownership, RowOwner, Early
<1>5. /\ q \in Request /\ q.cid = r /\ q.par = req[r].par /\ q.pc = "insert"
      /\ q.rewritten = req[r].rewritten
  BY <1>2, <1>3 DEF Request
<1>6. \A s \in Requests \ {r} : req'[s] = req[s]
  BY <1>1 DEF TypeInv, TypeOK
<1> HIDE DEF q
<1>7. /\ req'[r].par = req[r].par /\ req'[r].pc \notin Early
      /\ req'[r].rewritten = req[r].rewritten /\ req'[r].cid \in {None, r}
  <2>1. req'[r] \in {Ended(req[r], "failed"), StoreFrom(q, 1)}
    BY <1>1 DEF TypeInv, TypeOK
  <2>2. Moved(req[r], Ended(req[r], "failed"))
    BY <1>2, <1>3, EndedMoves
  <2>3. Moved(q, StoreFrom(q, 1))
    BY <1>5, StoreFromMoves
  <2>4. QED BY <1>3, <1>5, <2>1, <2>2, <2>3 DEF Moved
<1>8. \A g \in req'[r].rewritten : g.cid = req'[r].cid /\ req[g.by].cid = g.cid
  <2>1. \A g \in req[r].rewritten : g \in File /\ g.cid = None
    BY <1>3 DEF Ownership, OwnRewrites, Request
  <2>2. QED BY <1>7, <2>1, NoneAssumption DEF File
<1>9. LawfulRequest(r)
  BY <1>2, <1>3, <1>6, <1>7, <1>8 DEF LawfulRequest, Early
<1>10. LawfulRows(r)
  <2> SUFFICES ASSUME NEW c \in Requests, content'[c] # content[c]
               PROVE  /\ c = r /\ content[c] = None /\ req'[r].par # None
                      /\ content'[c].owner = req'[r].par.owner
                      /\ RowsAt(content'[c].slug) = {}
                      /\ req'[r].pc \notin Early
    BY DEF LawfulRows
  <2>1. c = r /\ ~taken /\ content'[r] = req[r].row
    BY <1>1 DEF TypeInv, TypeOK
  <2>2. QED BY <1>3, <1>4, <1>7, <2>1
<1>11. LawfulFiles(r)
  <2>1. files' = files /\ \A f \in files : f.cid \in Requests
    BY DEF InsertContent, TypeInv, TypeOK, File
  <2>2. \A c \in Requests : content[c] # None => content'[c] = content[c]
    BY <1>1, <1>4 DEF TypeInv, TypeOK
  <2>3. QED BY <2>1, <2>2 DEF LawfulFiles, Ownership, FileOwner
<1>12. QED BY <1>9, <1>10, <1>11 DEF Lawful

\* A file is stored only while its entry exists, under the uploading request.
LEMMA PutFileLawful ==
  ASSUME TypeInv, TypeInv', Ownership, NEW r \in Requests, PutFile(r)
  PROVE  Lawful(r)
<1> DEFINE q == req[r]
           gone == content[q.cid] = None
<1>1. PICK out \in Writes :
        /\ Statement(r, "put", out)
        /\ files' = IF gone \/ out = "err" THEN files
                    ELSE files \cup {NewFile(r, q)}
        /\ req' = [req EXCEPT ![r] = IF gone \/ out # "ok" THEN StoreError(q)
                                     ELSE StoreFrom(q, q.next + 1)]
        /\ content' = content
  BY DEF PutFile
<1>2. /\ q.pc = "put" /\ q.pc \in Statements
      /\ q \in Request /\ q.cid \in Requests /\ q.next \in Nat
  <2>1. q.pc = "put" /\ q.pc \in Statements /\ q.pc \in HasRow
    BY <1>1 DEF Statement, Statements, HasRow
  <2>2. q \in Request /\ q.cid \in Requests
    BY <2>1, AtStatement
  <2>3. QED BY <2>1, <2>2 DEF Request
<1>3. req' = [req EXCEPT ![r] = req'[r]] /\ Moved(q, req'[r])
  <2>1. Moved(q, StoreError(q)) /\ Moved(q, StoreFrom(q, q.next + 1))
    BY <1>2, StoreErrorMoves, StoreFromMoves
  <2>2. req' = [req EXCEPT ![r] = req'[r]]
        /\ req'[r] \in {StoreError(q), StoreFrom(q, q.next + 1)}
    BY <1>1 DEF TypeInv, TypeOK
  <2>3. QED BY <2>1, <2>2
<1>4. LawfulRequest(r)
  BY <1>2, <1>3, MovedIsLawful
<1>5. NewFile(r, q).by = r /\ NewFile(r, q).cid = q.cid
  BY DEF NewFile
<1>6. LawfulFiles(r)
  BY <1>1, <1>3, <1>5 DEF LawfulFiles, Moved, Ownership, FileOwner
<1>7. LawfulRows(r)
  BY <1>1 DEF LawfulRows
<1>8. QED BY <1>4, <1>6, <1>7 DEF Lawful

\* The clean-up deletes the row the create has just inserted.
LEMMA UndoCreateLawful ==
  ASSUME TypeInv, TypeInv', Ownership, NEW r \in Requests, UndoCreate(r)
  PROVE  Lawful(r)
<1>1. /\ req[r].pc = "undo" /\ req[r].pc \in Statements /\ req[r].pc \in HasRow
      /\ UNCHANGED <<content, files>> \/ DeleteRow(req[r].cid)
      /\ req' = [req EXCEPT ![r] = Ended(req[r], "failed")]
  BY DEF UndoCreate, Statement, Statements, HasRow
<1>2. req[r] \in Request /\ req[r].cid \in Requests
  BY <1>1, AtStatement
<1>3. req' = [req EXCEPT ![r] = req'[r]] /\ Moved(req[r], req'[r])
  BY <1>1, <1>2, EndedMoves DEF TypeInv, TypeOK
<1>4. QED BY <1>1, <1>2, <1>3, MovedIsLawful, DeleteIsLawful DEF Lawful

\* A delete removes the row of the entry it has loaded as its owner's.
LEMMA DeleteContentLawful ==
  ASSUME TypeInv, TypeInv', Ownership, NEW r \in Requests, DeleteContent(r)
  PROVE  Lawful(r)
<1>1. /\ req[r].pc = "remove" /\ req[r].pc \in Statements /\ req[r].pc \in HasRow
      /\ UNCHANGED <<content, files>> \/ DeleteRow(req[r].cid)
      /\ \E res \in Results : req' = [req EXCEPT ![r] = Ended(req[r], res)]
  BY DEF DeleteContent, Statement, Statements, HasRow, Results
<1>2. req[r] \in Request /\ req[r].cid \in Requests
  BY <1>1, AtStatement
<1>3. req' = [req EXCEPT ![r] = req'[r]] /\ Moved(req[r], req'[r])
  BY <1>1, <1>2, EndedMoves DEF TypeInv, TypeOK
<1>4. QED BY <1>1, <1>2, <1>3, MovedIsLawful, DeleteIsLawful DEF Lawful

\* An update or a delete works on an entry that has its owner when it is loaded.
LEMMA LoadContentLawful ==
  ASSUME TypeInv, TypeInv', Ownership, NEW r \in Requests, LoadContent(r)
  PROVE  Lawful(r)
<1> DEFINE p == req[r].par
           own == {c \in RowsAt(p.slug) : content[c].owner = p.owner}
           q(c) == [req[r] EXCEPT !.pc = "remove", !.cid = c, !.row = content[c]]
<1>1. /\ req[r].pc = "load" /\ UNCHANGED <<content, files>>
      /\ \/ \E res \in Results : req' = [req EXCEPT ![r] = Ended(req[r], res)]
         \/ \E c \in own :
              req' = [req EXCEPT ![r] = IF p.op = "update"
                                        THEN UpdateLoaded(r, req[r], c)
                                        ELSE q(c)]
  BY DEF LoadContent, Statement, Results
<1>2. /\ req[r] \in Request /\ p \in Params /\ p # None /\ req[r].cid = None
      /\ req[r].pc \in Statements
  BY <1>1, AtStatement, NoneAssumption DEF Statements, Shape
<1>3. ASSUME NEW res \in Results, req' = [req EXCEPT ![r] = Ended(req[r], res)]
      PROVE  Lawful(r)
  <2>1. req' = [req EXCEPT ![r] = req'[r]] /\ Moved(req[r], req'[r])
    BY <1>1, <1>2, <1>3, EndedMoves DEF TypeInv, TypeOK
  <2>2. QED BY <1>1, <1>2, <2>1, MovedIsLawful, ReadIsLawful DEF Lawful
<1>4. ASSUME NEW c \in own,
             req' = [req EXCEPT ![r] = IF p.op = "update"
                                       THEN UpdateLoaded(r, req[r], c)
                                       ELSE q(c)]
      PROVE  Lawful(r)
  <2>1. c \in Requests /\ content[c] # None /\ content[c].owner = p.owner
    BY DEF RowsAt
  <2>2. \A s \in Requests \ {r} : req'[s] = req[s]
    BY <1>4 DEF TypeInv, TypeOK
  <2>3. req'[r] \in {UpdateLoaded(r, req[r], c), q(c)}
    BY <1>4 DEF TypeInv, TypeOK
  <2>4. /\ q(c).par = p /\ q(c).cid = c /\ q(c).pc \notin Early \cup {"load"}
        /\ q(c).rewritten = req[r].rewritten
    BY <1>2 DEF Request, Early
  <2>5. LET u == UpdateLoaded(r, req[r], c) IN
        /\ u.par = p /\ u.cid \in {None, c} /\ u.pc \notin Early \cup {"load"}
        /\ u.rewritten = req[r].rewritten
    <3>1. CASE Refused(p, content[c].env)
      <4>1. UpdateLoaded(r, req[r], c) = Ended(req[r], "rejected")
        BY <3>1 DEF UpdateLoaded
      <4>2. Moved(req[r], Ended(req[r], "rejected"))
        BY <1>1, <1>2, EndedMoves
      <4>3. Ended(req[r], "rejected").pc = "done"
        BY <1>2 DEF Ended, Request
      <4>4. QED BY <1>2, <4>1, <4>2, <4>3 DEF Moved
    <3>2. CASE ~Refused(p, content[c].env)
      <4> DEFINE new == NextEnv(r, p, content[c].env)
                 to == IF new = content[c].env THEN "save"
                       ELSE IF p.upload = None THEN "list" ELSE "apply"
                 row == Merged(r, p, content[c])
      <4>1. to \notin Early \cup {"load"}
        BY DEF Early
      <4>2. UpdateLoaded(r, req[r], c)
              = [req[r] EXCEPT !.pc = to, !.cid = c, !.row = row, !.env = new]
        BY <3>2 DEF UpdateLoaded
      <4> HIDE DEF to, row, new
      <4>3. QED BY <1>2, <4>1, <4>2 DEF Request
    <3>3. QED BY <3>1, <3>2
  <2> HIDE DEF q
  <2>6. /\ req'[r].par = p /\ req'[r].cid \in {None, c}
        /\ req'[r].pc \notin Early \cup {"load"}
        /\ req'[r].rewritten = req[r].rewritten
    BY <2>3, <2>4, <2>5
  <2>7. \A g \in req'[r].rewritten : g.cid = req'[r].cid /\ req[g.by].cid = g.cid
    <3>1. \A g \in req[r].rewritten : g \in File /\ g.cid = None
      BY <1>2 DEF Ownership, OwnRewrites, Request
    <3>2. QED BY <2>6, <3>1, NoneAssumption DEF File
  <2>8. LawfulRequest(r)
    BY <1>1, <1>2, <2>1, <2>2, <2>6, <2>7 DEF LawfulRequest, Early
  <2>9. QED BY <1>1, <2>8, ReadIsLawful DEF Lawful
<1>5. QED BY <1>1, <1>3, <1>4

\* What a key change rewrites are the files of the entry it works on, each still
\* with its uploader.
LEMMA ListFilesLawful ==
  ASSUME TypeInv, TypeInv', Ownership, NEW r \in Requests, ListFiles(r)
  PROVE  Lawful(r)
<1> DEFINE q == req[r]
           rew == {Rewrite(q.row.env, q.env, f) : f \in FilesOf(q.cid)}
           listed == [q EXCEPT !.pc = "apply", !.rewritten = rew]
<1>1. /\ q.pc = "list" /\ UNCHANGED <<content, files>>
      /\ \/ req' = [req EXCEPT ![r] = listed]
         \/ req' = [req EXCEPT ![r] = Ended(q, "failed")]
  BY DEF ListFiles, Statement
<1>2. /\ q \in Request /\ q.pc \in Statements /\ q.par # None
  BY <1>1, AtStatement, NoneAssumption DEF Statements
<1>3. CASE req' = [req EXCEPT ![r] = Ended(q, "failed")]
  <2>1. req' = [req EXCEPT ![r] = req'[r]] /\ Moved(q, req'[r])
    BY <1>1, <1>2, <1>3, EndedMoves DEF TypeInv, TypeOK
  <2>2. QED BY <1>1, <1>2, <2>1, MovedIsLawful, ReadIsLawful DEF Lawful
<1>4. CASE req' = [req EXCEPT ![r] = listed]
  <2>1. \A g \in rew : g.cid = q.cid /\ req[g.by].cid = g.cid
    <3>1. \A f \in FilesOf(q.cid) :
            /\ f.cid = q.cid /\ req[f.by].cid = f.cid
            /\ Rewrite(q.row.env, q.env, f).cid = f.cid
            /\ Rewrite(q.row.env, q.env, f).by = f.by
      BY DEF FilesOf, Rewrite, Ownership, FileOwner, TypeInv, TypeOK, File
    <3>2. QED BY <3>1
  <2>2. req'[r] = listed /\ \A s \in Requests \ {r} : req'[s] = req[s]
    BY <1>4 DEF TypeInv, TypeOK
  <2> HIDE DEF rew
  <2>3. /\ listed.par = q.par /\ listed.cid = q.cid /\ listed.pc = "apply"
        /\ listed.rewritten = rew
    BY <1>2 DEF Request
  <2> HIDE DEF listed
  <2>4. LawfulRequest(r)
    BY <1>1, <1>2, <2>1, <2>2, <2>3 DEF LawfulRequest, Early
  <2>5. QED BY <1>1, <2>4, ReadIsLawful DEF Lawful
<1>5. QED BY <1>1, <1>3, <1>4

\* The transaction touches the row and the files of one entry, and brings no file
\* back that is gone.
LEMMA ApplyEncryptionLawful ==
  ASSUME TypeInv, TypeInv', Ownership, NEW r \in Requests, ApplyEncryption(r)
  PROVE  Lawful(r)
<1> DEFINE q == req[r]
           kept == {f \in files : \A g \in q.rewritten : ~SameFile(f, g)}
           stored == {g \in q.rewritten : \E f \in files : SameFile(f, g)}
           saved == [q EXCEPT !.pc = "save", !.row.env = q.env, !.rewritten = {}]
<1>1. PICK out \in Writes :
        /\ Statement(r, "apply", out)
        /\ content' = IF out = "err" \/ content[q.cid] = None THEN content
                      ELSE [content EXCEPT ![q.cid].env = q.env]
        /\ files' = IF out = "err" THEN files ELSE kept \cup stored
        /\ req' = [req EXCEPT ![r] = IF out = "ok" THEN saved
                                     ELSE Ended(q, "failed")]
  BY DEF ApplyEncryption
<1>2. q.pc = "apply" /\ q.pc \in Statements /\ q.pc \in HasRow
  BY <1>1 DEF Statement, Statements, HasRow
<1>3. q \in Request /\ q.par # None /\ q.cid \in Requests
  BY <1>2, AtStatement, NoneAssumption
<1>4. \A f \in files : f \in File /\ f.cid \in Requests /\ content[f.cid] # None
                       /\ req[f.by].cid = f.cid
  BY DEF TypeInv, TypeOK, File, Ownership, FileOwner
<1>5. \A g \in q.rewritten : g.cid = q.cid /\ req[g.by].cid = g.cid
  BY DEF Ownership, OwnRewrites
<1>6. LawfulRequest(r)
  <2>1. /\ saved.par = q.par /\ saved.cid = q.cid /\ saved.pc = "save"
        /\ saved.rewritten = {}
    BY <1>3 DEF Request
  <2>2. Moved(q, Ended(q, "failed"))
    BY <1>2, <1>3, EndedMoves
  <2> HIDE DEF saved, q
  <2>3. /\ req'[r] = saved \/ req'[r] = Ended(q, "failed")
        /\ req' = [req EXCEPT ![r] = req'[r]]
        /\ \A s \in Requests \ {r} : req'[s] = req[s]
    BY <1>1 DEF TypeInv, TypeOK
  <2>4. CASE req'[r] = Ended(q, "failed")
    BY <1>2, <2>2, <2>3, <2>4, MovedIsLawful DEF q
  <2>5. CASE req'[r] = saved
    BY <1>2, <1>3, <2>1, <2>3, <2>5 DEF LawfulRequest, Early, q
  <2>6. QED BY <2>3, <2>4, <2>5
<1>7. \A c \in Requests :
        \/ content'[c] = content[c]
        \/ /\ c = q.cid /\ content[c] # None /\ content'[c] # None
           /\ content'[c].owner = content[c].owner
           /\ content'[c].slug = content[c].slug
  <2>1. CASE content' = content
    BY <2>1
  <2>2. CASE content' # content
    <3>1. /\ content[q.cid] \in Row
          /\ content' = [content EXCEPT ![q.cid] =
                           [content[q.cid] EXCEPT !.env = q.env]]
      BY <1>1, <1>3, <2>2 DEF TypeInv, TypeOK
    <3>2. /\ [content[q.cid] EXCEPT !.env = q.env].owner = content[q.cid].owner
          /\ [content[q.cid] EXCEPT !.env = q.env].slug = content[q.cid].slug
      BY <3>1 DEF Row
    <3>3. \A c \in Requests : content'[c] = IF c = q.cid
                                THEN [content[q.cid] EXCEPT !.env = q.env]
                                ELSE content[c]
      BY <3>1 DEF TypeInv, TypeOK
    <3>4. content'[q.cid] \in Row \cup {None}
      BY <1>3 DEF TypeInv, TypeOK
    <3>5. [content[q.cid] EXCEPT !.env = q.env] \in Row
      BY <1>3, <3>1 DEF Row, Request
    <3>6. QED BY <3>1, <3>2, <3>3, <3>5, NoneAssumption
  <2>3. QED BY <2>1, <2>2
<1>8. LawfulRows(r)
  BY <1>7 DEF LawfulRows
<1>9. \A g \in q.rewritten, f \in files : SameFile(f, g) => f.cid = q.cid
  BY <1>4, <1>5 DEF SameFile
<1>10. LawfulFiles(r)
  <2>1. \A f \in files' : f \in files
                          \/ (f \in q.rewritten /\ content[q.cid] # None)
    BY <1>1, <1>4, <1>9
  <2>2. \A f \in files' : content'[f.cid] # None /\ req[f.by].cid = f.cid
    BY <1>3, <1>4, <1>5, <1>7, <2>1
  <2>3. \A f \in files \cup files' : \/ f \in files /\ f \in files'
                                     \/ f.cid = q.cid
    BY <1>1, <1>5, <1>9
  <2>4. QED BY <2>2, <2>3 DEF LawfulFiles
<1>11. QED BY <1>6, <1>8, <1>10 DEF Lawful

\* Saving the metadata keeps owner and slug.
LEMMA SaveContentLawful ==
  ASSUME TypeInv, TypeInv', Ownership, NEW r \in Requests, SaveContent(r)
  PROVE  Lawful(r)
<1> DEFINE q == req[r]
<1>1. PICK out \in Writes :
        /\ Statement(r, "save", out)
        /\ content' = IF out = "err" \/ content[q.cid] = None THEN content
                      ELSE [content EXCEPT ![q.cid].meta = q.row.meta]
        /\ req' = [req EXCEPT ![r] = IF out # "ok" THEN Ended(q, "failed")
                                     ELSE IF q.par.upload = None
                                     THEN Ended(q, "ok")
                                     ELSE At(q, "drop")]
        /\ files' = files
  BY DEF SaveContent
<1>2. q.pc = "save" /\ q.pc \in Statements /\ q.pc \in HasRow
  BY <1>1 DEF Statement, Statements, HasRow
<1>3. q \in Request /\ q.cid \in Requests /\ q.row \in Row
  BY <1>2, AtStatement
<1>4. req' = [req EXCEPT ![r] = req'[r]] /\ Moved(q, req'[r])
  <2>1. Moved(q, Ended(q, "failed")) /\ Moved(q, Ended(q, "ok"))
    BY <1>2, <1>3, EndedMoves
  <2>2. Moved(q, At(q, "drop"))
    BY <1>2, <1>3 DEF Moved, At, Request, Early
  <2>3. QED BY <1>1, <2>1, <2>2 DEF TypeInv, TypeOK
<1>5. LawfulRequest(r)
  BY <1>2, <1>4, MovedIsLawful
<1>6. \A c \in Requests :
        \/ content'[c] = content[c]
        \/ /\ c = q.cid /\ content[c] # None /\ content'[c] # None
           /\ content'[c].owner = content[c].owner
           /\ content'[c].slug = content[c].slug
  <2>1. CASE content' = content
    BY <2>1
  <2>2. CASE content' # content
    <3>1. /\ content[q.cid] \in Row
          /\ content' = [content EXCEPT ![q.cid] =
                           [content[q.cid] EXCEPT !.meta = q.row.meta]]
      BY <1>1, <1>3, <2>2 DEF TypeInv, TypeOK
    <3>2. /\ [content[q.cid] EXCEPT !.meta = q.row.meta] \in Row
          /\ [content[q.cid] EXCEPT !.meta = q.row.meta].owner
               = content[q.cid].owner
          /\ [content[q.cid] EXCEPT !.meta = q.row.meta].slug
               = content[q.cid].slug
      BY <1>3, <3>1 DEF Row
    <3>3. \A c \in Requests : content'[c] = IF c = q.cid
                                THEN [content[q.cid] EXCEPT !.meta = q.row.meta]
                                ELSE content[c]
      BY <3>1 DEF TypeInv, TypeOK
    <3>4. QED BY <3>1, <3>2, <3>3, NoneAssumption
  <2>3. QED BY <2>1, <2>2
<1>7. LawfulRows(r)
  BY <1>6 DEF LawfulRows
<1>8. LawfulFiles(r)
  <2>1. \A f \in files : f.cid \in Requests /\ content[f.cid] # None
                         /\ req[f.by].cid = f.cid
    BY DEF TypeInv, TypeOK, File, Ownership, FileOwner
  <2>2. QED BY <1>1, <1>6, <2>1 DEF LawfulFiles
<1>9. QED BY <1>5, <1>7, <1>8 DEF Lawful

\* Dropping the files drops those of the entry the request works on.
LEMMA DropFilesLawful ==
  ASSUME TypeInv, TypeInv', Ownership, NEW r \in Requests, DropFiles(r)
  PROVE  Lawful(r)
<1> DEFINE q == req[r]
<1>1. PICK out \in Writes :
        /\ Statement(r, "drop", out)
        /\ files' = IF out = "err" THEN files ELSE files \ FilesOf(q.cid)
        /\ req' = [req EXCEPT ![r] = IF out = "ok" THEN StoreFrom(q, 1)
                                     ELSE Ended(q, "failed")]
        /\ content' = content
  BY DEF DropFiles
<1>2. q.pc = "drop" /\ q.pc \in Statements
  BY <1>1 DEF Statement, Statements
<1>3. q \in Request
  BY <1>2, AtStatement
<1>4. req' = [req EXCEPT ![r] = req'[r]] /\ Moved(q, req'[r])
  <2>1. Moved(q, Ended(q, "failed")) /\ Moved(q, StoreFrom(q, 1))
    BY <1>2, <1>3, EndedMoves, StoreFromMoves
  <2>2. QED BY <1>1, <2>1 DEF TypeInv, TypeOK
<1>5. LawfulRequest(r)
  BY <1>2, <1>4, MovedIsLawful
<1>6. LawfulRows(r) /\ LawfulFiles(r)
  BY <1>1 DEF LawfulRows, LawfulFiles, FilesOf, Ownership, FileOwner
<1>7. QED BY <1>5, <1>6 DEF Lawful

\* Every step of a request is lawful.
LEMMA StepLawful ==
  ASSUME TypeInv, TypeInv', Ownership, NEW r \in Requests, Step(r)
  PROVE  Lawful(r)
  BY CallLawful, CheckSlugLawful, InsertContentLawful, PutFileLawful,
     UndoCreateLawful, LoadContentLawful, ListFilesLawful,
     ApplyEncryptionLawful, SaveContentLawful, DropFilesLawful,
     DeleteContentLawful DEF Step

\* A crash changes neither the tables nor what a request works on.
LEMMA CrashOwnership ==
  ASSUME TypeInv, Ownership, Crash
  PROVE  Ownership'
<1>1. UNCHANGED <<content, files>>
  BY DEF Crash
<1>2. \A s \in Requests : req'[s] = IF InFlight(s) THEN Ended(req[s], "crashed")
                                    ELSE req[s]
  BY DEF Crash
<1>3. \A s \in Requests :
        LET e == Ended(req[s], "crashed") IN
        /\ e.par = req[s].par /\ e.cid = req[s].cid /\ e.row = req[s].row
        /\ e.rewritten = req[s].rewritten /\ e.pc = "done"
  BY DEF TypeInv, TypeOK, Ended, Request
<1>4. \A s \in Requests :
        /\ req'[s].par = req[s].par /\ req'[s].cid = req[s].cid
        /\ req'[s].rewritten = req[s].rewritten /\ req'[s].row = req[s].row
        /\ req'[s].pc = req[s].pc \/ req'[s].pc = "done"
  BY <1>2, <1>3
<1>5. /\ \A s \in Requests : req[s].cid \in Requests \cup {None}
                             /\ req[s].rewritten \subseteq File
      /\ files \subseteq File
  BY DEF TypeInv, TypeOK, Request
<1>6. ParOnce' /\ SameOwner' /\ OwnRow'
  BY <1>4, <1>5 DEF Ownership, ParOnce, SameOwner, OwnRow
<1>7. OwnRewrites' /\ FileOwner'
  BY <1>1, <1>4, <1>5 DEF Ownership, OwnRewrites, FileOwner, File
<1>8. RowOwner' /\ SlugKey'
  BY <1>1, <1>4 DEF Ownership, RowOwner, SlugKey, Early
<1>9. QED BY <1>6, <1>7, <1>8 DEF Ownership

-----------------------------------------------------------------------------
(* The theorems.                                                           *)

Inv == TypeInv /\ Ownership

\* The invariant holds of every behaviour of the service.
LEMMA Invariant == Spec => []Inv
<1>1. Init => Inv
  <2>1. Init => TypeInv
    BY BoundAssumption
    DEF Init, Idle, TypeInv, TypeOK, Request, PCs, Results, Shape, Statements,
        HasRow, Uploads
  <2>2. Init => Ownership
    BY DEF Init, Idle, Ownership, ParOnce, SameOwner, OwnRow, OwnRewrites,
           RowOwner, FileOwner, SlugKey
  <2>3. QED BY <2>1, <2>2 DEF Inv
<1>2. Inv /\ [Next]_vars => Inv'
  <2>1. ASSUME Inv, NEW r \in Requests, Step(r) PROVE Inv'
    BY <2>1, StepType, StepLawful, LawfulKeeps DEF Inv
  <2>2. ASSUME Inv, Crash PROVE Inv'
    BY <2>2, CrashType, CrashOwnership DEF Inv
  <2>3. ASSUME Inv, UNCHANGED vars PROVE Inv'
    BY <2>3 DEF vars, Inv, TypeInv, TypeOK, Ownership, ParOnce, SameOwner,
                OwnRow, OwnRewrites, RowOwner, FileOwner, SlugKey
  <2>4. QED BY <2>1, <2>2, <2>3 DEF Next, AllDone
<1>3. QED BY <1>1, <1>2, PTL DEF Spec

\* However creates, updates and deletes overlap and fail, a slug names at most
\* one entry.
THEOREM SlugsAreUnique == Spec => []UniqueSlug
<1>1. Inv => UniqueSlug
  BY DEF Inv, Ownership, SlugKey, UniqueSlug, RowsAt
<1>2. QED BY <1>1, Invariant, PTL

\* Every stored file belongs to an entry of the user who uploaded it, also when
\* the entry is deleted under the upload and its slug taken by somebody else.
THEOREM FilesStayWithOwner == Spec => []OwnerIsolation
<1>1. Inv => OwnerIsolation
  <2> SUFFICES ASSUME Inv, NEW f \in files
               PROVE  /\ content[f.cid] # None
                      /\ req[f.by].par # None
                      /\ req[f.by].par.owner = content[f.cid].owner
    BY DEF OwnerIsolation
  <2>1. f.by \in Requests /\ f.cid \in Requests /\ f.cid # None
    BY NoneAssumption DEF Inv, TypeInv, TypeOK, File
  <2>2. content[f.cid] # None /\ req[f.by].cid = f.cid
    BY DEF Inv, Ownership, FileOwner
  <2>3. /\ req[f.by].par # None
        /\ req[f.cid].par.owner = req[f.by].par.owner
    BY <2>1, <2>2 DEF Inv, Ownership, SameOwner
  <2>4. content[f.cid].owner = req[f.cid].par.owner
    BY <2>1, <2>2 DEF Inv, Ownership, RowOwner
  <2>5. QED BY <2>2, <2>3, <2>4
<1>2. QED BY <1>1, Invariant, PTL

\* An entry and its files change only by a step of a request of its owner: the
\* one check of the owner, at the load, holds to the last statement.
THEOREM OwnersWrite == Spec => OnlyOwnerWrites
<1> DEFINE Touched(c) ==
      content[c] # None /\ (content'[c] # content[c] \/ FilesOf(c)' # FilesOf(c))
    Owned(c) ==
      \E r \in Requests : /\ req'[r] # req[r]
                          /\ req[r].par.owner = content[c].owner
<1>1. ASSUME Inv, Inv', NEW r \in Requests, Step(r),
             NEW c \in Requests, Touched(c)
      PROVE  Owned(c)
  <2>1. Lawful(r)
    BY <1>1, StepLawful DEF Inv
  <2>2. c = req[r].cid
    <3>1. CASE content'[c] # content[c]
      BY <1>1, <2>1, <3>1 DEF Lawful, LawfulRows
    <3>2. CASE FilesOf(c)' # FilesOf(c)
      <4>1. PICK f : ~(f \in FilesOf(c)' <=> f \in FilesOf(c))
        BY <3>2
      <4>2. /\ f \in files \cup files' /\ f.cid = c
            /\ ~(f \in files /\ f \in files')
        BY <4>1 DEF FilesOf
      <4>3. QED BY <2>1, <4>2 DEF Lawful, LawfulFiles
    <3>3. QED BY <1>1, <3>1, <3>2
  <2>3. req[r].par.owner = req[c].par.owner
    BY <1>1, <2>2, NoneAssumption DEF Inv, Ownership, SameOwner
  <2>4. req[c].par.owner = content[c].owner
    BY <1>1 DEF Inv, Ownership, RowOwner
  <2>5. req'[r] # req[r]
    BY <2>1 DEF Lawful, LawfulRequest
  <2>6. QED BY <2>3, <2>4, <2>5
<1>2. ASSUME Inv, Inv', [Next]_vars, NEW c \in Requests, Touched(c)
      PROVE  Owned(c)
  <2>1. CASE \E r \in Requests : Step(r)
    BY <1>1, <1>2, <2>1
  <2>2. CASE Crash \/ UNCHANGED vars
    BY <1>2, <2>2 DEF Crash, vars, FilesOf
  <2>3. QED BY <1>2, <2>1, <2>2 DEF Next, AllDone
<1>3. Inv /\ Inv' /\ [Next]_vars => [\A c \in Requests : Touched(c) => Owned(c)]_vars
  BY <1>2
<1>4. Spec => [][\A c \in Requests : Touched(c) => Owned(c)]_vars
  BY <1>3, Invariant, PTL DEF Spec
<1>5. QED BY <1>4 DEF OnlyOwnerWrites

-----------------------------------------------------------------------------
(* What uploads, key changes and failed creates leave in the tables.  An    *)
(* upload seals its files with the envelope it loaded, which may be out of  *)
(* date by then: the invariant says that it is some envelope even so.       *)

\* Entry c was created with a passphrase, and nobody has begun to remove it.
Guarded(c) == req[c].par # None /\ req[c].par.pass # None /\ NeverOpened(c)

\* Request q has no cleartext to store in the entry it works on.
Sealing(q) ==
  /\ q.pc \in {"list", "apply", "save", "drop", "put"} => q.row.env # None
  /\ q.pc \in {"list", "apply"} => q.env # None
  /\ \A g \in q.rewritten : g.seals # <<>>

SealedEntry(c) ==
  /\ content[c] # None => content[c].env # None
  /\ \A f \in files : f.cid = c => f.seals # <<>>
  /\ req[c].pc = "insert" => req[c].row.env # None
  /\ \A r \in Requests : req[r].cid = c => Sealing(req[r])

Sealed == \A c \in Requests : Guarded(c) => SealedEntry(c)

\* What a step of request r has to keep of SealedEntry(c).
Kept(r, c) ==
  /\ content'[c] # None => content'[c].env # None
  /\ \A f \in files' : f.cid = c => f.seals # <<>>
  /\ r = c /\ req'[r].pc = "insert" => req'[r].row.env # None
  /\ req'[r].cid = c => Sealing(req'[r])

-----------------------------------------------------------------------------
(* Sealing, by the operators the actions are built from.                   *)

LEMMA EndedSealing ==
  ASSUME NEW q \in Request, NEW res, \A g \in q.rewritten : g.seals # <<>>
  PROVE  Sealing(Ended(q, res)) /\ Ended(q, res).pc # "insert"
  BY DEF Sealing, Ended, Request

LEMMA StoreErrorSealing ==
  ASSUME NEW q \in Request, \A g \in q.rewritten : g.seals # <<>>
  PROVE  Sealing(StoreError(q)) /\ StoreError(q).pc # "insert"
<1>1. Sealing(At(q, "undo")) /\ At(q, "undo").pc # "insert"
  BY DEF Sealing, At, Request
<1>2. QED BY <1>1, EndedSealing DEF StoreError

\* Storing goes on under the envelope that was loaded.
LEMMA StoreFromSealing ==
  ASSUME NEW q \in Request, NEW n, q.row.env # None,
         \A g \in q.rewritten : g.seals # <<>>
  PROVE  Sealing(StoreFrom(q, n)) /\ StoreFrom(q, n).pc # "insert"
<1> DEFINE s == [q EXCEPT !.pc = "put", !.next = n]
<1>1. s.row = q.row /\ s.rewritten = q.rewritten /\ s.pc = "put"
  BY DEF Request
<1>2. Sealing(s) /\ s.pc # "insert"
  BY <1>1 DEF Sealing
<1>3. QED BY <1>2, EndedSealing, StoreErrorSealing DEF StoreFrom

\* What is sealed under an envelope is not cleartext.
LEMMA SealedIsNoCleartext ==
  ASSUME NEW env \in Envelope, NEW s \in Seq(Requests)
  PROVE  Seal(env, s) # <<>>
<1>1. Seal(env, s) = <<env.dek>> \o s /\ env.dek \in Requests
  BY NoneAssumption DEF Seal, Envelope
<1>2. <<env.dek>> \in Seq(Requests) /\ Len(<<env.dek>>) = 1
  BY <1>1
<1>3. Len(<<env.dek>> \o s) = 1 + Len(s)
  BY <1>2
<1>4. QED BY <1>1, <1>3

-----------------------------------------------------------------------------
(* Entries under a passphrase.                                             *)

\* Whoever is about to do something to a guarded entry finds it sealed: a call
\* is not yet at work on any entry, and nobody else on its own.
LEMMA SealedBefore ==
  ASSUME Inv, Sealed, NEW r \in Requests, Lawful(r),
         NEW c \in Requests, Guarded(c)'
  PROVE  SealedEntry(c)
<1>1. CASE req[c].par # None
  <2>1. /\ req'[c].par = req[c].par
        /\ \A s \in Requests : req[s].par # None /\ req[s].cid = c
             => req'[s].par = req[s].par /\ req'[s].cid = c
    BY <1>1, NoneAssumption DEF Lawful, LawfulRequest
  <2>2. NeverOpened(c)
    BY <2>1 DEF Guarded, NeverOpened
  <2>3. Guarded(c)
    BY <1>1, <2>1, <2>2 DEF Guarded
  <2>4. QED BY <2>3 DEF Sealed
<1>2. CASE req[c].par = None
  <2>1. content[c] = None
    BY <1>2 DEF Inv, Ownership, RowOwner
  <2>2. \A f \in files : f.cid # c
    BY <2>1 DEF Inv, Ownership, FileOwner
  <2>3. \A s \in Requests : req[s].cid # c
    BY <1>2, NoneAssumption DEF Inv, Ownership, SameOwner
  <2>4. req[c].pc # "insert"
    BY <1>2, NoneAssumption DEF Inv, TypeInv, Shape, Statements
  <2>5. QED BY <2>1, <2>2, <2>3, <2>4 DEF SealedEntry
<1>3. QED BY <1>1, <1>2

\* A step that keeps every guarded entry keeps the invariant.
LEMMA KeptSuffices ==
  ASSUME Inv, Inv', Sealed, NEW r \in Requests, Lawful(r),
         \A c \in Requests : Guarded(c)' /\ SealedEntry(c) => Kept(r, c)
  PROVE  Sealed'
<1> SUFFICES ASSUME NEW c \in Requests, Guarded(c)'
             PROVE  SealedEntry(c)'
  BY DEF Sealed
<1>1. SealedEntry(c) /\ Kept(r, c)
  BY SealedBefore
<1>2. \A s \in Requests \ {r} : req'[s] = req[s]
  BY DEF Lawful, LawfulRequest
<1>3. /\ req'[c].pc = "insert" => req'[c].row.env # None
      /\ \A s \in Requests : req'[s].cid = c => Sealing(req'[s])
  BY <1>1, <1>2 DEF SealedEntry, Kept
<1>4. QED
  BY <1>1, <1>3 DEF SealedEntry, Kept, Sealing

\* A request that works on no entry has no payloads to put back.
LEMMA NothingRewritten ==
  ASSUME Inv, NEW r \in Requests, req[r].cid = None
  PROVE  req[r].rewritten = {}
<1>1. \A g \in req[r].rewritten : g.cid \in Requests
  BY DEF Inv, TypeInv, TypeOK, Request, File
<1>2. QED BY <1>1, NoneAssumption DEF Inv, Ownership, OwnRewrites

\* A step that leaves the tables alone has to look after its request only.
LEMMA ReadKeeps ==
  ASSUME NEW r, NEW c, SealedEntry(c), UNCHANGED <<content, files>>,
         r = c /\ req'[r].pc = "insert" => req'[r].row.env # None,
         req'[r].cid = c => Sealing(req'[r])
  PROVE  Kept(r, c)
  BY DEF Kept, SealedEntry

\* Deleting an entry, or nothing, leaves no cleartext.
LEMMA DeleteKeeps ==
  ASSUME TypeOK, NEW r, NEW c \in Requests, NEW d \in Requests, SealedEntry(c),
         UNCHANGED <<content, files>> \/ DeleteRow(d),
         req'[r].pc # "insert", req'[r].cid = c => Sealing(req'[r])
  PROVE  Kept(r, c)
<1>1. content'[c] \in {content[c], None} /\ files' \subseteq files
  BY DEF DeleteRow, TypeOK
<1>2. QED BY <1>1 DEF Kept, SealedEntry

\* A request that ends keeps to what it had.
LEMMA EndKeeps ==
  ASSUME Inv, NEW r \in Requests, NEW c \in Requests, SealedEntry(c),
         req[r].pc # "idle", NEW res, req'[r] = Ended(req[r], res)
  PROVE  /\ req'[r].pc # "insert"
         /\ req'[r].cid = c => Sealing(req'[r])
<1>1. req[r] \in Request /\ Ended(req[r], res).cid = req[r].cid
      /\ Ended(req[r], res).pc = "done"
  BY DEF Inv, TypeInv, TypeOK, Ended, Request
<1>2. req[r].cid = c => \A g \in req[r].rewritten : g.seals # <<>>
  BY DEF SealedEntry, Sealing
<1>3. QED BY <1>1, <1>2, EndedSealing

-----------------------------------------------------------------------------
(* Every action keeps a guarded entry sealed.                              *)

LEMMA CallKeeps ==
  ASSUME Inv, NEW r \in Requests, NEW c \in Requests, SealedEntry(c), Call(r)
  PROVE  Kept(r, c)
<1>1. PICK p \in Plans[r] : Make(r, p)
  BY DEF Call
<1> DEFINE q == [req[r] EXCEPT !.par = p]
<1>2. req[r] \in Request /\ req[r].cid = None
  BY <1>1 DEF Make, Inv, TypeInv, TypeOK, Shape
<1>3. q.cid = None
  BY <1>2 DEF Request
<1>4. req'[r] \in {At(q, "load"), At(q, "check"), Ended(q, "rejected")}
  BY <1>1 DEF Make, Inv, TypeInv, TypeOK
<1>5. req'[r].cid = None /\ req'[r].pc # "insert"
  BY <1>2, <1>4 DEF At, Ended, Request
<1>6. UNCHANGED <<content, files>>
  BY <1>1 DEF Make
<1>7. QED BY <1>5, <1>6, ReadKeeps, NoneAssumption

\* A create with a passphrase prepares a row with an envelope.
LEMMA CheckSlugKeeps ==
  ASSUME Inv, NEW r \in Requests, NEW c \in Requests, SealedEntry(c), Guarded(c)',
         CheckSlug(r)
  PROVE  Kept(r, c)
<1>1. /\ req[r].pc = "check" /\ UNCHANGED <<content, files>>
      /\ \/ \E res \in Results : req' = [req EXCEPT ![r] = Ended(req[r], res)]
         \/ req' = [req EXCEPT ![r] = [req[r] EXCEPT !.pc = "insert",
                                         !.row = NewRow(r, req[r].par)]]
  BY DEF CheckSlug, Statement, Results
<1>2. req[r] \in Request /\ req[r].cid = None /\ req[r].par \in Params
  BY <1>1 DEF Inv, TypeInv, TypeOK, Shape, Statements
<1>3. CASE \E res \in Results : req' = [req EXCEPT ![r] = Ended(req[r], res)]
  <2>1. PICK res \in Results : req'[r] = Ended(req[r], res)
    BY <1>3 DEF Inv, TypeInv, TypeOK
  <2>2. QED BY <1>1, <2>1, EndKeeps, ReadKeeps
<1>4. CASE req' = [req EXCEPT ![r] = [req[r] EXCEPT !.pc = "insert",
                                         !.row = NewRow(r, req[r].par)]]
  <2>1. req'[r] = [req[r] EXCEPT !.pc = "insert", !.row = NewRow(r, req[r].par)]
    BY <1>4 DEF Inv, TypeInv, TypeOK
  <2>2. /\ req'[r].cid = None /\ req'[r].row = NewRow(r, req[r].par)
        /\ req'[r].par = req[r].par
    BY <1>2, <2>1 DEF Request
  <2>3. r = c => req'[r].row.env = [dek |-> r, pass |-> req[r].par.pass]
                 /\ req[r].par.pass \in Passphrases
    BY <1>2, <2>2 DEF NewRow, Guarded, Params
  <2>4. r = c => req'[r].row.env \in Envelope
    BY <2>3 DEF Envelope
  <2>5. QED BY <1>1, <2>2, <2>4, ReadKeeps, NoneAssumption
<1>5. QED BY <1>1, <1>3, <1>4

\* The row of a guarded entry is inserted with its envelope.
LEMMA InsertContentKeeps ==
  ASSUME Inv, NEW r \in Requests, NEW c \in Requests, SealedEntry(c),
         InsertContent(r)
  PROVE  Kept(r, c)
<1> DEFINE q == [req[r] EXCEPT !.cid = r]
<1>1. /\ req[r].pc = "insert" /\ files' = files
      /\ content' = content \/ content' = [content EXCEPT ![r] = req[r].row]
      /\ \/ req' = [req EXCEPT ![r] = Ended(req[r], "failed")]
         \/ req' = [req EXCEPT ![r] = StoreFrom(q, 1)]
  BY DEF InsertContent, Statement
<1>2. req[r] \in Request /\ req[r].cid = None /\ req[r].row \in Row
  BY <1>1 DEF Inv, TypeInv, TypeOK, Shape, Statements
<1>3. c = r => req[r].row.env # None
  BY <1>1 DEF SealedEntry
<1>4. content'[c] # None => content'[c].env # None
  BY <1>1, <1>3 DEF SealedEntry, Inv, TypeInv, TypeOK
<1>5. req[r].rewritten = {}
  BY <1>2, NothingRewritten
<1>6. req'[r].pc # "insert" /\ (req'[r].cid = c => Sealing(req'[r]))
  <2>1. CASE req' = [req EXCEPT ![r] = Ended(req[r], "failed")]
    <3>1. req'[r] = Ended(req[r], "failed")
      BY <2>1 DEF Inv, TypeInv, TypeOK
    <3>2. QED BY <1>1, <3>1, EndKeeps
  <2>2. CASE req' = [req EXCEPT ![r] = StoreFrom(q, 1)]
    <3>1. req'[r] = StoreFrom(q, 1)
      BY <2>2 DEF Inv, TypeInv, TypeOK
    <3>2. /\ q \in Request /\ q.row = req[r].row /\ q.rewritten = {} /\ q.cid = r
          /\ q.pc = "insert"
      BY <1>1, <1>2, <1>5 DEF Request
    <3> HIDE DEF q
    <3>3. req'[r].cid = r /\ req'[r].pc # "insert"
      <4>1. Moved(q, StoreFrom(q, 1))
        BY <3>2, StoreFromMoves
      <4>2. QED BY <3>1, <3>2, <4>1 DEF Moved, Early
    <3>4. CASE c = r
      BY <1>3, <3>1, <3>2, <3>3, <3>4, StoreFromSealing
    <3>5. CASE c # r
      BY <3>3, <3>5
    <3>6. QED BY <3>4, <3>5
  <2>3. QED BY <1>1, <2>1, <2>2
<1>7. QED BY <1>1, <1>4, <1>6 DEF Kept, SealedEntry

\* A file is stored under the envelope its request has loaded.
LEMMA PutFileKeeps ==
  ASSUME Inv, NEW r \in Requests, NEW c \in Requests, SealedEntry(c), PutFile(r)
  PROVE  Kept(r, c)
<1> DEFINE q == req[r]
<1>1. /\ q.pc = "put" /\ content' = content
      /\ files' = files \/ files' = files \cup {NewFile(r, q)}
      /\ \/ req' = [req EXCEPT ![r] = StoreError(q)]
         \/ req' = [req EXCEPT ![r] = StoreFrom(q, q.next + 1)]
  BY DEF PutFile, Statement
<1>2. q \in Request /\ q.row \in Row /\ q.next \in Nat
  BY <1>1 DEF Inv, TypeInv, TypeOK, Shape, HasRow, Request
<1>3. req'[r] \in {StoreError(q), StoreFrom(q, q.next + 1)}
  BY <1>1 DEF Inv, TypeInv, TypeOK
<1>4. req'[r].cid = q.cid /\ req'[r].pc # "insert"
  <2>1. Moved(q, StoreError(q)) /\ Moved(q, StoreFrom(q, q.next + 1))
    BY <1>1, <1>2, StoreErrorMoves, StoreFromMoves
  <2>2. QED BY <1>3, <2>1 DEF Moved, Early
<1>5. NewFile(r, q).cid = q.cid /\ NewFile(r, q).seals = Seal(q.row.env, <<>>)
  BY DEF NewFile
<1>6. CASE q.cid = c
  <2>1. q.row.env # None /\ \A g \in q.rewritten : g.seals # <<>>
    BY <1>1, <1>6 DEF SealedEntry, Sealing
  <2>2. Sealing(req'[r])
    BY <1>2, <1>3, <2>1, StoreErrorSealing, StoreFromSealing
  <2>3. Seal(q.row.env, <<>>) # <<>>
    <3>1. q.row.env \in Envelope
      BY <1>2, <2>1 DEF Row
    <3>2. <<>> \in Seq(Requests)
      OBVIOUS
    <3>3. QED BY <3>1, <3>2, SealedIsNoCleartext
  <2>4. \A f \in files' : f.cid = c => f.seals # <<>>
    BY <1>1, <1>5, <2>3 DEF SealedEntry
  <2>5. QED BY <1>1, <1>4, <2>2, <2>4 DEF Kept, SealedEntry
<1>7. CASE q.cid # c
  BY <1>1, <1>4, <1>5, <1>7 DEF Kept, SealedEntry
<1>8. QED BY <1>6, <1>7

LEMMA UndoCreateKeeps ==
  ASSUME Inv, NEW r \in Requests, NEW c \in Requests, SealedEntry(c), UndoCreate(r)
  PROVE  Kept(r, c)
<1>1. /\ req[r].pc = "undo" /\ req[r].cid \in Requests
      /\ UNCHANGED <<content, files>> \/ DeleteRow(req[r].cid)
      /\ req'[r] = Ended(req[r], "failed")
  BY DEF UndoCreate, Statement, Inv, TypeInv, TypeOK, Shape, HasRow
<1>2. QED BY <1>1, EndKeeps, DeleteKeeps DEF Inv, TypeInv

LEMMA DeleteContentKeeps ==
  ASSUME Inv, NEW r \in Requests, NEW c \in Requests, SealedEntry(c),
         DeleteContent(r)
  PROVE  Kept(r, c)
<1>1. /\ req[r].pc = "remove" /\ req[r].cid \in Requests
      /\ UNCHANGED <<content, files>> \/ DeleteRow(req[r].cid)
      /\ \E res \in Results : req'[r] = Ended(req[r], res)
  BY DEF DeleteContent, Statement, Inv, TypeInv, TypeOK, Shape, HasRow, Results
<1>2. QED BY <1>1, EndKeeps, DeleteKeeps DEF Inv, TypeInv

\* An update that does not remove the encryption loads an envelope, and keeps it
\* or draws another.
LEMMA UpdateLoadedSealing ==
  ASSUME Inv, NEW r \in Requests, NEW c \in Requests, content[c] # None,
         content[c].env # None, req[r].pc = "load",
         UpdateLoaded(r, req[r], c).cid = c => ~req[r].par.remove
  PROVE  /\ UpdateLoaded(r, req[r], c).cid \in {None, c}
         /\ UpdateLoaded(r, req[r], c).pc # "insert"
         /\ UpdateLoaded(r, req[r], c).cid = c => Sealing(UpdateLoaded(r, req[r], c))
<1> DEFINE q == req[r]
           row == content[c]
           new == NextEnv(r, q.par, row.env)
<1>1. /\ q \in Request /\ q.cid = None /\ q.par \in Params /\ row \in Row
      /\ row.env \in Envelope
  BY DEF Inv, TypeInv, TypeOK, Shape, Statements, Row
<1>2. q.rewritten = {}
  BY <1>1, NothingRewritten
<1>3. CASE Refused(q.par, row.env)
  <2>1. UpdateLoaded(r, q, c) = Ended(q, "rejected")
    BY <1>3 DEF UpdateLoaded
  <2>2. Ended(q, "rejected").cid = None
    BY <1>1 DEF Ended, Request
  <2>3. QED BY <1>1, <1>2, <2>1, <2>2, EndedSealing, NoneAssumption
<1>4. CASE ~Refused(q.par, row.env)
  <2> DEFINE to == IF new = row.env THEN "save"
                   ELSE IF q.par.upload = None THEN "list" ELSE "apply"
             merged == Merged(r, q.par, row)
             u == [q EXCEPT !.pc = to, !.cid = c, !.row = merged, !.env = new]
  <2>1. UpdateLoaded(r, q, c) = u
    BY <1>4 DEF UpdateLoaded
  <2>2. merged.env = row.env
    BY <1>1 DEF Merged, Row
  <2>3. to \in {"save", "list", "apply"}
    OBVIOUS
  <2>4. ~q.par.remove => new # None
    <3>1. [dek |-> r, pass |-> q.par.newpass] \in Envelope \/ q.par.newpass = None
      BY <1>1 DEF Envelope, Params
    <3>2. QED BY <1>1, <3>1, NoneAssumption DEF NextEnv
  <2> HIDE DEF to, merged, new
  <2>5. /\ u.pc = to /\ u.cid = c /\ u.row = merged /\ u.env = new
        /\ u.rewritten = {}
    BY <1>1, <1>2 DEF Request
  <2> HIDE DEF u
  <2>6. ~q.par.remove
    BY <2>1, <2>5
  <2>7. QED BY <1>1, <2>1, <2>2, <2>3, <2>4, <2>5, <2>6, NoneAssumption DEF Sealing
<1>5. QED BY <1>3, <1>4

LEMMA LoadContentKeeps ==
  ASSUME Inv, NEW r \in Requests, Lawful(r), NEW c \in Requests, SealedEntry(c),
         Guarded(c)', LoadContent(r)
  PROVE  Kept(r, c)
<1>1. /\ req[r].pc = "load" /\ UNCHANGED <<content, files>>
      /\ \/ \E res \in Results : req'[r] = Ended(req[r], res)
         \/ \E d \in RowsAt(req[r].par.slug) :
              \/ req'[r] = UpdateLoaded(r, req[r], d)
              \/ req'[r] = [req[r] EXCEPT !.pc = "remove", !.cid = d,
                                          !.row = content[d]]
  BY DEF LoadContent, Statement, Results, Inv, TypeInv, TypeOK
<1>2. /\ req[r] \in Request /\ req[r].cid = None /\ req[r].par # None
  BY <1>1, NoneAssumption DEF Inv, TypeInv, TypeOK, Shape, Statements
<1>3. ASSUME NEW res \in Results, req'[r] = Ended(req[r], res) PROVE Kept(r, c)
  BY <1>1, <1>3, EndKeeps, ReadKeeps
<1>4. ASSUME NEW d \in RowsAt(req[r].par.slug), req'[r] = UpdateLoaded(r, req[r], d)
      PROVE  Kept(r, c)
  <2>1. d \in Requests /\ content[d] # None
    BY DEF RowsAt
  <2>2. CASE d = c
    <3>1. content[c].env # None
      BY <2>1, <2>2 DEF SealedEntry
    <3>2. req'[r].cid = c => ~req[r].par.remove
      BY <1>2 DEF Guarded, NeverOpened, Lawful, LawfulRequest
    <3>3. req'[r] = UpdateLoaded(r, req[r], c)
      BY <1>4, <2>2
    <3>4. UpdateLoaded(r, req[r], c).cid = c => ~req[r].par.remove
      BY <3>2, <3>3
    <3>5. /\ UpdateLoaded(r, req[r], c).pc # "insert"
          /\ UpdateLoaded(r, req[r], c).cid = c => Sealing(UpdateLoaded(r, req[r], c))
      BY <1>1, <2>1, <2>2, <3>1, <3>4, UpdateLoadedSealing
    <3>6. req'[r].pc # "insert" /\ (req'[r].cid = c => Sealing(req'[r]))
      BY <3>3, <3>5
    <3>7. QED BY <1>1, <3>6, ReadKeeps
  <2>3. CASE d # c
    <3>1. /\ UpdateLoaded(r, req[r], d).cid \in {None, d}
          /\ UpdateLoaded(r, req[r], d).pc # "insert"
      <4> DEFINE new == NextEnv(r, req[r].par, content[d].env)
                 to == IF new = content[d].env THEN "save"
                       ELSE IF req[r].par.upload = None THEN "list" ELSE "apply"
                 merged == Merged(r, req[r].par, content[d])
      <4>1. \/ UpdateLoaded(r, req[r], d) = Ended(req[r], "rejected")
            \/ UpdateLoaded(r, req[r], d)
                 = [req[r] EXCEPT !.pc = to, !.cid = d, !.row = merged, !.env = new]
        BY DEF UpdateLoaded
      <4>2. to # "insert"
        OBVIOUS
      <4> HIDE DEF new, to, merged
      <4>3. Ended(req[r], "rejected").cid = None /\ Ended(req[r], "rejected").pc = "done"
        BY <1>2 DEF Ended, Request
      <4>4. QED BY <1>2, <4>1, <4>2, <4>3 DEF Request
    <3>2. QED BY <1>1, <1>4, <2>3, <3>1, ReadKeeps, NoneAssumption
  <2>4. QED BY <2>2, <2>3
<1>5. ASSUME NEW d \in RowsAt(req[r].par.slug),
             req'[r] = [req[r] EXCEPT !.pc = "remove", !.cid = d, !.row = content[d]]
      PROVE  Kept(r, c)
  <2>1. req'[r].pc = "remove" /\ req'[r].rewritten = {}
    BY <1>2, <1>5, NothingRewritten DEF Request
  <2>2. Sealing(req'[r])
    BY <2>1 DEF Sealing
  <2>3. QED BY <1>1, <2>1, <2>2, ReadKeeps
<1>6. QED BY <1>1, <1>3, <1>4, <1>5

\* A key change puts its files back under the new envelope.
LEMMA ListFilesKeeps ==
  ASSUME Inv, NEW r \in Requests, NEW c \in Requests, SealedEntry(c), ListFiles(r)
  PROVE  Kept(r, c)
<1> DEFINE q == req[r]
           rew == {Rewrite(q.row.env, q.env, f) : f \in FilesOf(q.cid)}
           listed == [q EXCEPT !.pc = "apply", !.rewritten = rew]
<1>1. /\ q.pc = "list" /\ UNCHANGED <<content, files>>
      /\ \/ /\ req'[r] = listed
            /\ \A f \in FilesOf(q.cid) : Opens(q.row.env, f)
         \/ req'[r] = Ended(q, "failed")
  BY DEF ListFiles, Statement, Inv, TypeInv, TypeOK
<1>2. q \in Request /\ q.row \in Row
  BY <1>1 DEF Inv, TypeInv, TypeOK, Shape, HasRow
<1>3. CASE req'[r] = Ended(q, "failed")
  BY <1>1, <1>3, EndKeeps, ReadKeeps
<1>4. CASE req'[r] = listed /\ \A f \in FilesOf(q.cid) : Opens(q.row.env, f)
  <2>1. /\ listed.pc = "apply" /\ listed.cid = q.cid /\ listed.row = q.row
        /\ listed.env = q.env /\ listed.rewritten = rew
    BY <1>2 DEF Request
  <2>2. q.cid = c => q.row.env # None /\ q.env # None
    BY <1>1 DEF SealedEntry, Sealing
  <2>3. ASSUME NEW f \in FilesOf(q.cid), q.cid = c
        PROVE  Rewrite(q.row.env, q.env, f).seals # <<>>
    <3>1. /\ f \in File /\ f.seals \in Seq(Requests) /\ f.seals # <<>>
          /\ q.row.env # None /\ q.env \in Envelope
      BY <1>1, <1>2, <1>4, <2>2, <2>3
      DEF FilesOf, Inv, TypeInv, TypeOK, File, SealedEntry, Request
    <3>2. Tail(f.seals) \in Seq(Requests)
      BY <3>1
    <3>3. Rewrite(q.row.env, q.env, f).seals = Seal(q.env, Tail(f.seals))
      BY <3>1 DEF Rewrite, File
    <3>4. QED BY <3>1, <3>2, <3>3, SealedIsNoCleartext
  <2>4. q.cid = c => \A g \in rew : g.seals # <<>>
    BY <2>3
  <2> HIDE DEF rew, listed
  <2>5. req'[r].pc # "insert" /\ (req'[r].cid = c => Sealing(req'[r]))
    BY <1>4, <2>1, <2>2, <2>4 DEF Sealing
  <2>6. QED BY <1>1, <2>5, ReadKeeps
<1>5. QED BY <1>1, <1>3, <1>4

\* The transaction stores the envelope and the payloads sealed for it.
LEMMA ApplyEncryptionKeeps ==
  ASSUME Inv, NEW r \in Requests, NEW c \in Requests, SealedEntry(c),
         ApplyEncryption(r)
  PROVE  Kept(r, c)
<1> DEFINE q == req[r]
           saved == [q EXCEPT !.pc = "save", !.row.env = q.env, !.rewritten = {}]
<1>1. /\ q.pc = "apply"
      /\ content' = content \/ content' = [content EXCEPT ![q.cid].env = q.env]
      /\ files' \subseteq files \cup q.rewritten
      /\ req'[r] = saved \/ req'[r] = Ended(q, "failed")
      /\ content' # content => content[q.cid] # None
  BY DEF ApplyEncryption, Statement, Inv, TypeInv, TypeOK
<1>2. q \in Request /\ q.row \in Row /\ q.cid \in Requests
  BY <1>1 DEF Inv, TypeInv, TypeOK, Shape, HasRow
<1>3. q.cid = c => q.env # None /\ \A g \in q.rewritten : g.seals # <<>>
  BY <1>1 DEF SealedEntry, Sealing
<1>4. \A g \in q.rewritten : g.cid = q.cid
  BY DEF Inv, Ownership, OwnRewrites
<1>5. content'[c] # None => content'[c].env # None
  <2>1. CASE content' = content
    BY <2>1 DEF SealedEntry
  <2>2. CASE content' # content
    <3>1. content[q.cid] \in Row
      BY <1>1, <1>2, <2>2 DEF Inv, TypeInv, TypeOK
    <3>2. [content[q.cid] EXCEPT !.env = q.env].env = q.env
      BY <3>1 DEF Row
    <3>3. content'[c] = IF c = q.cid THEN [content[q.cid] EXCEPT !.env = q.env]
                                     ELSE content[c]
      BY <1>1, <2>2 DEF Inv, TypeInv, TypeOK
    <3>4. QED BY <1>3, <3>2, <3>3 DEF SealedEntry
  <2>3. QED BY <2>1, <2>2
<1>6. \A f \in files' : f.cid = c => f.seals # <<>>
  BY <1>1, <1>3, <1>4 DEF SealedEntry
<1>7. req'[r].pc # "insert" /\ (req'[r].cid = c => Sealing(req'[r]))
  <2>1. /\ saved.pc = "save" /\ saved.cid = q.cid /\ saved.row.env = q.env
        /\ saved.rewritten = {}
    BY <1>2 DEF Request, Row
  <2>2. q.cid = c => Sealing(saved)
    BY <1>3, <2>1 DEF Sealing
  <2>3. CASE req'[r] = saved
    BY <2>1, <2>2, <2>3
  <2>4. CASE req'[r] = Ended(q, "failed")
    BY <1>1, <2>4, EndKeeps
  <2>5. QED BY <1>1, <2>3, <2>4
<1>8. QED BY <1>5, <1>6, <1>7 DEF Kept

LEMMA SaveContentKeeps ==
  ASSUME Inv, NEW r \in Requests, NEW c \in Requests, SealedEntry(c), SaveContent(r)
  PROVE  Kept(r, c)
<1> DEFINE q == req[r]
<1>1. /\ q.pc = "save" /\ files' = files
      /\ content' = content \/ content' = [content EXCEPT ![q.cid].meta = q.row.meta]
      /\ content' # content => content[q.cid] # None
      /\ \/ \E res \in Results : req'[r] = Ended(q, res)
         \/ req'[r] = At(q, "drop")
  BY DEF SaveContent, Statement, Inv, TypeInv, TypeOK, Results
<1>2. q \in Request /\ q.cid \in Requests
  BY <1>1 DEF Inv, TypeInv, TypeOK, Shape, HasRow
<1>3. content'[c] # None => content'[c].env # None
  <2>1. CASE content' = content
    BY <2>1 DEF SealedEntry
  <2>2. CASE content' # content
    <3>1. content[q.cid] \in Row /\ content[q.cid] # None
      BY <1>1, <1>2, <2>2 DEF Inv, TypeInv, TypeOK
    <3>2. [content[q.cid] EXCEPT !.meta = q.row.meta].env = content[q.cid].env
      BY <3>1 DEF Row
    <3>3. content'[c] = IF c = q.cid THEN [content[q.cid] EXCEPT !.meta = q.row.meta]
                                     ELSE content[c]
      BY <1>1, <2>2 DEF Inv, TypeInv, TypeOK
    <3>4. QED BY <3>1, <3>2, <3>3 DEF SealedEntry
  <2>3. QED BY <2>1, <2>2
<1>4. req'[r].pc # "insert" /\ (req'[r].cid = c => Sealing(req'[r]))
  <2>1. ASSUME NEW res \in Results, req'[r] = Ended(q, res)
        PROVE  req'[r].pc # "insert" /\ (req'[r].cid = c => Sealing(req'[r]))
    BY <1>1, <2>1, EndKeeps
  <2>2. CASE req'[r] = At(q, "drop")
    <3>1. /\ At(q, "drop").pc = "drop" /\ At(q, "drop").cid = q.cid
          /\ At(q, "drop").row = q.row /\ At(q, "drop").rewritten = q.rewritten
      BY <1>2 DEF At, Request
    <3>2. QED BY <1>1, <2>2, <3>1 DEF SealedEntry, Sealing
  <2>3. QED BY <1>1, <2>1, <2>2
<1>5. QED BY <1>1, <1>3, <1>4 DEF Kept, SealedEntry

LEMMA DropFilesKeeps ==
  ASSUME Inv, NEW r \in Requests, NEW c \in Requests, SealedEntry(c), DropFiles(r)
  PROVE  Kept(r, c)
<1> DEFINE q == req[r]
<1>1. /\ q.pc = "drop" /\ content' = content /\ files' \subseteq files
      /\ req'[r] = StoreFrom(q, 1) \/ req'[r] = Ended(q, "failed")
  BY DEF DropFiles, Statement, Inv, TypeInv, TypeOK
<1>2. q \in Request
  BY DEF Inv, TypeInv, TypeOK
<1>3. req'[r].pc # "insert" /\ (req'[r].cid = c => Sealing(req'[r]))
  <2>1. CASE req'[r] = Ended(q, "failed")
    BY <1>1, <2>1, EndKeeps
  <2>2. CASE req'[r] = StoreFrom(q, 1)
    <3>1. req'[r].cid = q.cid /\ req'[r].pc # "insert"
      <4>1. Moved(q, StoreFrom(q, 1))
        BY <1>1, <1>2, StoreFromMoves
      <4>2. QED BY <2>2, <4>1 DEF Moved, Early
    <3>2. q.cid = c => q.row.env # None /\ \A g \in q.rewritten : g.seals # <<>>
      BY <1>1 DEF SealedEntry, Sealing
    <3>3. q.cid = c => Sealing(StoreFrom(q, 1))
      BY <1>2, <3>2, StoreFromSealing
    <3>4. QED BY <2>2, <3>1, <3>3
  <2>3. QED BY <1>1, <2>1, <2>2
<1>4. QED BY <1>1, <1>3 DEF Kept, SealedEntry

LEMMA StepKeeps ==
  ASSUME Inv, NEW r \in Requests, Lawful(r), NEW c \in Requests, SealedEntry(c),
         Guarded(c)', Step(r)
  PROVE  Kept(r, c)
  BY CallKeeps, CheckSlugKeeps, InsertContentKeeps, PutFileKeeps, UndoCreateKeeps,
     LoadContentKeeps, ListFilesKeeps, ApplyEncryptionKeeps, SaveContentKeeps,
     DropFilesKeeps, DeleteContentKeeps DEF Step

\* A request that a crash ends has nothing more to store.
LEMMA CrashSealed ==
  ASSUME Inv, Sealed, Crash
  PROVE  Sealed'
<1>1. UNCHANGED <<content, files>>
  BY DEF Crash
<1>2. \A s \in Requests : req'[s] \in {req[s], Ended(req[s], "crashed")}
  BY DEF Crash
<1>3. \A s \in Requests :
        LET e == Ended(req[s], "crashed") IN
        /\ e.par = req[s].par /\ e.cid = req[s].cid /\ e.pc = "done"
        /\ e.rewritten = req[s].rewritten
  BY DEF Inv, TypeInv, TypeOK, Ended, Request
<1>4. \A s \in Requests :
        /\ req'[s].par = req[s].par /\ req'[s].cid = req[s].cid
        /\ req'[s].pc = "insert" => req'[s] = req[s]
        /\ Sealing(req[s]) => Sealing(req'[s])
  BY <1>2, <1>3 DEF Sealing
<1>5. ASSUME NEW c \in Requests, Guarded(c)' PROVE SealedEntry(c)'
  <2>1. Guarded(c)
    BY <1>4, <1>5 DEF Guarded, NeverOpened
  <2>2. SealedEntry(c)
    BY <2>1 DEF Sealed
  <2>3. \A s \in Requests : req'[s].cid = c => Sealing(req'[s])
    BY <1>4, <2>2 DEF SealedEntry
  <2>4. QED BY <1>1, <1>4, <2>2, <2>3 DEF SealedEntry, Sealing
<1>6. QED BY <1>5 DEF Sealed

\* An entry created with a passphrase never has a cleartext file before somebody
\* removes its encryption, whatever uploads and rotations overlap and fail.
THEOREM FilesStaySealed == Spec => []SealedAtRest
<1>1. Init => Sealed
  BY DEF Init, Idle, Sealed, Guarded
<1>2. Inv /\ Inv' /\ Sealed /\ [Next]_vars => Sealed'
  <2>1. ASSUME Inv, Inv', Sealed, NEW r \in Requests, Step(r) PROVE Sealed'
    <3>1. Lawful(r)
      BY <2>1, StepLawful DEF Inv
    <3>2. \A c \in Requests : Guarded(c)' /\ SealedEntry(c) => Kept(r, c)
      BY <2>1, <3>1, StepKeeps
    <3>3. QED BY <2>1, <3>1, <3>2, KeptSuffices
  <2>2. ASSUME Inv, Sealed, Crash PROVE Sealed'
    BY <2>2, CrashSealed
  <2>3. ASSUME Sealed, UNCHANGED vars PROVE Sealed'
    BY <2>3 DEF vars, Sealed, Guarded, NeverOpened, SealedEntry, Sealing
  <2>4. QED BY <2>1, <2>2, <2>3 DEF Next, AllDone
<1>3. Inv /\ Sealed => SealedAtRest
  BY DEF Inv, Ownership, RowOwner, Sealed, Guarded, SealedEntry, SealedAtRest, FilesOf
<1>4. QED BY <1>1, <1>2, <1>3, Invariant, PTL DEF Spec

-----------------------------------------------------------------------------
(* Creates that fail.                                                      *)

\* A create goes from the check of its slug to the INSERT and the files of its
\* own row; when it has failed without a fault of the database, the row is gone.
Creating(r) ==
  req[r].par # None /\ req[r].par.op = "create" =>
    /\ req[r].pc \in {"check", "insert", "put", "undo", "done"}
    /\ req[r].pc \in {"put", "undo"} => req[r].cid = r
    /\ req[r].pc = "done" /\ req[r].result # "ok" /\ faults = 0 => content[r] = None

Created == \A r \in Requests : Creating(r)

\* What others do brings no row of r's back.
LEMMA OthersKeepCreating ==
  ASSUME Inv, NEW s \in Requests, Lawful(s), faults' = 0 => faults = 0,
         NEW r \in Requests, r # s, Creating(r)
  PROVE  Creating(r)'
<1>1. req'[r] = req[r]
  BY DEF Lawful, LawfulRequest
<1>2. content[r] = None => content'[r] = None
  BY DEF Lawful, LawfulRows
<1>3. QED BY <1>1, <1>2 DEF Creating

\* Where a create is after it has failed to store its files, or has stored some.
LEMMA StoreErrorCreating ==
  ASSUME NEW q \in Request, q.par.op = "create"
  PROVE  StoreError(q).pc = "undo" /\ StoreError(q).cid = q.cid
  BY DEF StoreError, At, Request

LEMMA StoreFromCreating ==
  ASSUME NEW q \in Request, q.par.op = "create", NEW n
  PROVE  LET s == StoreFrom(q, n) IN
         /\ s.cid = q.cid /\ s.pc \in {"put", "undo", "done"}
         /\ s.pc = "done" => s.result = "ok"
<1> DEFINE put == [q EXCEPT !.pc = "put", !.next = n]
<1>1. put.cid = q.cid /\ put.pc = "put"
  BY DEF Request
<1>2. /\ Ended(q, "ok").cid = q.cid /\ Ended(q, "ok").pc = "done"
      /\ Ended(q, "ok").result = "ok"
  BY DEF Ended, Request
<1>3. StoreFrom(q, n) \in {put, Ended(q, "ok"), StoreError(q)}
  BY DEF StoreFrom
<1> HIDE DEF put
<1>4. QED BY <1>1, <1>2, <1>3, StoreErrorCreating

\* A call that creates has no row yet.
LEMMA CallCreates ==
  ASSUME Inv, NEW r \in Requests, Call(r)
  PROVE  Creating(r)'
<1>1. PICK p \in Plans[r] : Make(r, p)
  BY DEF Call
<1> DEFINE q == [req[r] EXCEPT !.par = p]
<1>2. req[r] \in Request /\ req[r].pc = "idle"
  BY <1>1 DEF Make, Inv, TypeInv, TypeOK
<1>3. req'[r] = IF p.op # "create" THEN At(q, "load")
                ELSE IF p.slug \in ValidSlugs THEN At(q, "check")
                ELSE Ended(q, "rejected")
  BY <1>1 DEF Make, Inv, TypeInv, TypeOK
<1>4. /\ At(q, "load").par = p /\ At(q, "check").pc = "check"
      /\ Ended(q, "rejected").pc = "done"
  BY <1>2 DEF At, Ended, Request
<1>5. content[r] = None /\ content' = content
  BY <1>1, <1>2 DEF Inv, Ownership, RowOwner, Early, Make
<1> HIDE DEF q
<1>6. QED BY <1>3, <1>4, <1>5 DEF Creating

\* So has one that checks its slug, or whose INSERT fails.
LEMMA CheckSlugCreates ==
  ASSUME Inv, NEW r \in Requests, CheckSlug(r)
  PROVE  Creating(r)'
<1>1. /\ req[r].pc = "check" /\ content' = content
      /\ \/ \E res \in Results : req'[r] = Ended(req[r], res)
         \/ req'[r] = [req[r] EXCEPT !.pc = "insert", !.row = NewRow(r, req[r].par)]
  BY DEF CheckSlug, Statement, Inv, TypeInv, TypeOK, Results
<1>2. req[r] \in Request /\ content[r] = None
  BY <1>1 DEF Inv, TypeInv, TypeOK, Ownership, RowOwner, Early
<1>3. req'[r].pc \in {"done", "insert"}
  BY <1>1, <1>2 DEF Ended, Request
<1>4. QED BY <1>1, <1>2, <1>3 DEF Creating

LEMMA InsertContentCreates ==
  ASSUME Inv, NEW r \in Requests, InsertContent(r)
  PROVE  Creating(r)'
<1> DEFINE q == [req[r] EXCEPT !.cid = r]
<1>1. /\ req[r].pc = "insert"
      /\ \/ req'[r] = Ended(req[r], "failed") /\ (faults' # 0 \/ content' = content)
         \/ req'[r] = StoreFrom(q, 1)
  BY DEF InsertContent, Statement, Inv, TypeInv, TypeOK
<1>2. /\ req[r] \in Request /\ req[r].par.op = "create" /\ content[r] = None
  BY <1>1 DEF Inv, TypeInv, TypeOK, Ownership, RowOwner, Early, Shape
<1>3. q \in Request /\ q.par.op = "create" /\ q.cid = r
  BY <1>2 DEF Request
<1> HIDE DEF q
<1>4. Ended(req[r], "failed").pc = "done"
  BY <1>2 DEF Ended, Request
<1>5. CASE req'[r] = Ended(req[r], "failed") /\ (faults' # 0 \/ content' = content)
  BY <1>2, <1>4, <1>5 DEF Creating
<1>6. CASE req'[r] = StoreFrom(q, 1)
  BY <1>3, <1>6, StoreFromCreating DEF Creating
<1>7. QED BY <1>1, <1>5, <1>6

\* A create that cannot store its files goes on to delete its row, or has a fault
\* of the database to report.
LEMMA PutFileCreates ==
  ASSUME Inv, NEW r \in Requests, Creating(r), PutFile(r)
  PROVE  Creating(r)'
<1> DEFINE q == req[r]
<1>1. /\ q.pc = "put"
      /\ req'[r] = StoreError(q) \/ req'[r] = StoreFrom(q, q.next + 1)
  BY DEF PutFile, Statement, Inv, TypeInv, TypeOK
<1>2. q \in Request /\ q.par \in Params
  BY <1>1 DEF Inv, TypeInv, TypeOK, Shape, Statements
<1>3. req'[r].par = q.par
  BY <1>1, <1>2, StoreErrorMoves, StoreFromMoves DEF Moved, Request
<1>4. CASE q.par.op = "create"
  <2>1. q.cid = r
    BY <1>1, <1>2, <1>4, NoneAssumption DEF Creating
  <2>2. QED BY <1>1, <1>2, <1>4, <2>1, StoreErrorCreating, StoreFromCreating DEF Creating
<1>5. CASE q.par.op # "create"
  BY <1>3, <1>5 DEF Creating
<1>6. QED BY <1>4, <1>5

LEMMA UndoCreateCreates ==
  ASSUME Inv, NEW r \in Requests, Creating(r), UndoCreate(r)
  PROVE  Creating(r)'
<1>1. /\ req[r].pc = "undo" /\ req'[r] = Ended(req[r], "failed")
      /\ faults' # 0 \/ DeleteRow(req[r].cid)
  BY BoundAssumption DEF UndoCreate, Statement, Inv, TypeInv, TypeOK
<1>2. /\ req[r] \in Request /\ req[r].par # None /\ req[r].par.op = "create"
  BY <1>1, NoneAssumption DEF Inv, TypeInv, TypeOK, Shape, Statements
<1>3. req[r].cid = r
  BY <1>1, <1>2 DEF Creating
<1>4. Ended(req[r], "failed").pc = "done"
  BY <1>2 DEF Ended, Request
<1>5. faults' # 0 \/ content'[r] = None
  BY <1>1, <1>3 DEF DeleteRow, Inv, TypeInv, TypeOK
<1>6. QED BY <1>1, <1>4, <1>5 DEF Creating

\* The other statements are not those of a create.
LEMMA OtherOperations ==
  ASSUME Inv, NEW r \in Requests, Creating(r), Lawful(r),
         req[r].pc \in {"load", "list", "apply", "save", "drop", "remove"}
  PROVE  Creating(r)'
<1>1. req[r].par # None
  BY NoneAssumption DEF Inv, TypeInv, TypeOK, Shape, Statements
<1>2. req[r].par.op # "create" /\ req'[r].par = req[r].par
  BY <1>1 DEF Creating, Lawful, LawfulRequest
<1>3. QED BY <1>2 DEF Creating

LEMMA StepCreates ==
  ASSUME Inv, NEW r \in Requests, Creating(r), Lawful(r), Step(r)
  PROVE  Creating(r)'
<1>1. CASE LoadContent(r) \/ ListFiles(r) \/ ApplyEncryption(r)
           \/ SaveContent(r) \/ DropFiles(r) \/ DeleteContent(r)
  <2>1. req[r].pc \in {"load", "list", "apply", "save", "drop", "remove"}
    BY <1>1 DEF LoadContent, ListFiles, ApplyEncryption, SaveContent, DropFiles,
                DeleteContent, Statement
  <2>2. QED BY <2>1, OtherOperations
<1>2. QED
  BY <1>1, CallCreates, CheckSlugCreates, InsertContentCreates, PutFileCreates,
     UndoCreateCreates DEF Step

\* A fault is never forgotten.
LEMMA FaultsStay ==
  ASSUME Inv, Next
  PROVE  faults' = 0 => faults = 0
<1>1. faults \in Nat
  BY BoundAssumption DEF Inv, TypeInv, TypeOK
<1>2. ASSUME NEW r \in Requests, Step(r) PROVE faults' \in {faults, faults + 1}
  BY <1>2 DEF Step, Call, Make, CheckSlug, InsertContent, PutFile, UndoCreate,
              LoadContent, ListFiles, ApplyEncryption, SaveContent, DropFiles,
              DeleteContent, Statement
<1>3. faults' \in {faults, faults + 1}
  BY <1>2 DEF Next, Crash, AllDone, vars
<1>4. QED BY <1>1, <1>3

\* Creates are where they should be in every state.
LEMMA AlwaysCreated == Spec => []Created
<1>1. Init => Created
  BY DEF Init, Idle, Created, Creating
<1>2. Inv /\ Inv' /\ Created /\ [Next]_vars => Created'
  <2>1. ASSUME Inv, Inv', Created, NEW s \in Requests, Step(s) PROVE Created'
    <3>1. Lawful(s) /\ (faults' = 0 => faults = 0)
      BY <2>1, StepLawful, FaultsStay DEF Inv, Next
    <3>2. QED BY <2>1, <3>1, StepCreates, OthersKeepCreating DEF Created
  <2>2. ASSUME Inv, Created, Crash PROVE Created'
    <3>1. faults' # 0 /\ content' = content
      BY <2>2, BoundAssumption DEF Crash, Inv, TypeInv, TypeOK
    <3>2. \A r \in Requests : \/ req'[r] = req[r]
                              \/ /\ req'[r].pc = "done"
                                 /\ req'[r].par = req[r].par
      BY <2>2 DEF Crash, Ended, Inv, TypeInv, TypeOK, Request
    <3>3. QED BY <2>2, <3>1, <3>2 DEF Created, Creating
  <2>3. ASSUME Created, UNCHANGED vars PROVE Created'
    BY <2>3 DEF vars, Created, Creating
  <2>4. QED BY <2>1, <2>2, <2>3 DEF Next, AllDone
<1>3. QED BY <1>1, <1>2, Invariant, PTL DEF Spec

\* A create that reports an error leaves neither its row nor a file behind when
\* no statement failed at the database, whatever else went on at its slug.
THEOREM FailedCreatesAreUndone == Spec => []UndoneCreate
<1>1. Inv /\ Created => UndoneCreate
  BY DEF Inv, Ownership, FileOwner, Created, Creating, UndoneCreate, FilesOf
<1>2. QED BY <1>1, Invariant, AlwaysCreated, PTL

-----------------------------------------------------------------------------
(* Where everything in the tables comes from.                              *)

\* Storing, and ending, keep what a request has read and is about to write.
LEMMA Carried ==
  ASSUME NEW q \in Request, NEW new,
         \/ \E res : new = Ended(q, res)
         \/ \E pc : new = At(q, pc)
         \/ new = StoreError(q)
         \/ \E n : new = StoreFrom(q, n)
  PROVE  /\ new.par = q.par /\ new.cid = q.cid /\ new.row = q.row /\ new.env = q.env
         /\ new.rewritten = q.rewritten
<1> DEFINE Same(x) == /\ x.par = q.par /\ x.cid = q.cid /\ x.row = q.row
                      /\ x.env = q.env /\ x.rewritten = q.rewritten
<1>1. \A res : Same(Ended(q, res))
  BY DEF Ended, Request
<1>2. \A pc : Same(At(q, pc))
  BY DEF At, Request
<1>3. \A n : Same([q EXCEPT !.pc = "put", !.next = n])
  BY DEF Request
<1> HIDE DEF Same
<1>4. Same(StoreError(q))
  BY <1>1, <1>2 DEF StoreError
<1>5. \A n : Same(StoreFrom(q, n))
  BY <1>1, <1>3, <1>4 DEF StoreFrom
<1>6. Same(new)
  BY <1>1, <1>2, <1>4, <1>5
<1>7. QED BY <1>6 DEF Same

\* The key of envelope e was drawn for a passphrase that its request was given.
Drew(e) == LET q == req[e.dek] IN
  /\ q.par # None
  /\ IF q.par.op = "create" THEN e.pass = q.par.pass
     ELSE q.cid # None /\ e = q.env /\ e.pass \in {q.par.pass, q.par.newpass}

\* Request r supplies field x.
Gives(r, x) == /\ req[r].par # None
               /\ req[r].par.op = "create" \/ x \in req[r].par.sets

Made(row) == /\ row.env # None => Drew(row.env)
             /\ \A x \in Fields : Gives(row.meta[x], x)

\* Every file, key and field there is was supplied.
Authored ==
  /\ \A r \in Requests : /\ req[r].row # None => Made(req[r].row)
                         /\ req[r].env # None => Drew(req[r].env)
  /\ \A c \in Requests : content[c] # None => Made(content[c])
  /\ \A f \in files : req[f.by].par # None /\ req[f.by].par.upload # None

\* A request that works on an entry keeps the envelope it is about to store.
KeepsEnv(r) == req[r].cid # None => req'[r].env = req[r].env

\* What is to be shown of a step of r.
Faithful(r) ==
  /\ KeepsEnv(r)
  /\ req'[r].env # None => Drew(req[r].env)'
  /\ req'[r].row # None => Made(req[r].row)'
  /\ \A c \in Requests : \/ content'[c] \in {None, content[c]}
                          \/ Made(content[c])'
  /\ \A f \in files' : f \in files \/ f.by = r \/ \E g \in files : g.by = f.by
  /\ (\E f \in files' \ files : f.by = r) => /\ req[r].par # None
                                            /\ req[r].par.upload # None

\* What was drawn, supplied and made stays so.
LEMMA MadeStays ==
  ASSUME Inv, NEW r \in Requests, Lawful(r), KeepsEnv(r)
  PROVE  /\ \A e \in Envelope : Drew(e) => Drew(e)'
         /\ \A s \in Requests, x \in Fields : Gives(s, x) => Gives(s, x)'
         /\ \A row \in Row : Made(row) => Made(row)'
<1>1. \A s \in Requests : req[s].par # None => req'[s].par = req[s].par
  BY DEF Lawful, LawfulRequest
<1>2. \A s \in Requests : req[s].cid # None =>
        req'[s].cid = req[s].cid /\ req'[s].env = req[s].env
  BY DEF Lawful, LawfulRequest, KeepsEnv
<1>3. ASSUME NEW e \in Envelope, Drew(e) PROVE Drew(e)'
  <2>1. e.dek \in Requests
    BY DEF Envelope
  <2>2. QED BY <1>1, <1>2, <1>3, <2>1 DEF Drew
<1>4. ASSUME NEW s \in Requests, NEW x \in Fields, Gives(s, x) PROVE Gives(s, x)'
  BY <1>1, <1>4 DEF Gives
<1>5. ASSUME NEW row \in Row, Made(row) PROVE Made(row)'
  <2>1. /\ row.env # None => row.env \in Envelope
        /\ \A x \in Fields : row.meta[x] \in Requests
    BY DEF Row
  <2>2. QED BY <1>3, <1>4, <1>5, <2>1 DEF Made
<1>6. QED BY <1>3, <1>4, <1>5

LEMMA FaithfulKeeps ==
  ASSUME Inv, Inv', Authored, NEW r \in Requests, Lawful(r), Faithful(r)
  PROVE  Authored'
<1>1. KeepsEnv(r) /\ \A s \in Requests \ {r} : req'[s] = req[s]
  BY DEF Faithful, Lawful, LawfulRequest
<1>2. ASSUME NEW s \in Requests
      PROVE  /\ req'[s].row # None => Made(req[s].row)'
             /\ req'[s].env # None => Drew(req[s].env)'
  <2>1. CASE s = r
    BY <2>1 DEF Faithful
  <2>2. CASE s # r
    <3>1. PICK row, e : row = req[s].row /\ e = req[s].env
      OBVIOUS
    <3>2. req'[s].row = row /\ req'[s].env = e
      BY <1>1, <2>2, <3>1
    <3>3. row \in Row \cup {None} /\ e \in Envelope \cup {None}
      BY <3>1 DEF Inv, TypeInv, TypeOK, Request
    <3>4. (row # None => Made(row)') /\ (e # None => Drew(e)')
      BY <1>1, <3>1, <3>3, MadeStays DEF Authored
    <3>5. QED BY <3>2, <3>4 DEF Made, Drew
  <2>3. QED BY <2>1, <2>2
<1>3. ASSUME NEW c \in Requests, content'[c] # None PROVE Made(content[c])'
  <2>1. CASE content'[c] = content[c]
    <3>1. PICK row : row = content[c]
      OBVIOUS
    <3>2. row \in Row /\ Made(row)
      BY <1>3, <2>1, <3>1 DEF Inv, TypeInv, TypeOK, Authored
    <3>3. Made(row)'
      BY <1>1, <3>2, MadeStays
    <3>4. QED BY <2>1, <3>1, <3>3 DEF Made
  <2>2. QED BY <1>3, <2>1 DEF Faithful
<1>4. ASSUME NEW f \in files' PROVE req'[f.by].par # None /\ req'[f.by].par.upload # None
  <2>1. \A s \in Requests : req[s].par # None => req'[s].par = req[s].par
    BY DEF Lawful, LawfulRequest
  <2>2. f.by \in Requests /\ \A g \in files : g.by \in Requests
    BY DEF Inv, TypeInv, TypeOK, File
  <2>3. CASE \E g \in files : g.by = f.by
    BY <2>1, <2>2, <2>3 DEF Authored
  <2>4. CASE f \notin files /\ f.by = r
    <3>1. req[r].par # None /\ req[r].par.upload # None
      BY <2>4 DEF Faithful
    <3>2. QED BY <2>1, <2>4, <3>1
  <2>5. QED BY <2>3, <2>4 DEF Faithful
<1>5. QED BY <1>2, <1>3, <1>4 DEF Authored

\* A step that neither loads nor writes a row or an envelope.
LEMMA WritesNothing ==
  ASSUME Inv, Authored, NEW r \in Requests, Lawful(r),
         req'[r].row = req[r].row, req'[r].env = req[r].env,
         \A c \in Requests : content'[c] \in {None, content[c]},
         \A f \in files' \ files : /\ f.by = r
                                   /\ req[r].par # None /\ req[r].par.upload # None
  PROVE  Faithful(r)
<1>1. KeepsEnv(r)
  BY DEF KeepsEnv
<1>2. PICK row, e : row = req[r].row /\ e = req[r].env
  OBVIOUS
<1>3. row \in Row \cup {None} /\ e \in Envelope \cup {None}
  BY <1>2 DEF Inv, TypeInv, TypeOK, Request
<1>4. (row # None => Made(row)') /\ (e # None => Drew(e)')
  BY <1>1, <1>2, <1>3, MadeStays DEF Authored
<1>5. /\ req'[r].row # None => Made(req[r].row)'
      /\ req'[r].env # None => Drew(req[r].env)'
  BY <1>2, <1>4 DEF Made, Drew
<1>6. QED BY <1>1, <1>5 DEF Faithful

\* A call, a statement of a create, and a DELETE.
LEMMA CreateFaithful ==
  ASSUME Inv, Inv', Authored, NEW r \in Requests, Lawful(r),
         \/ Call(r) \/ PutFile(r) \/ UndoCreate(r) \/ DeleteContent(r) \/ DropFiles(r)
  PROVE  Faithful(r)
<1>1. req[r] \in Request
  BY DEF Inv, TypeInv, TypeOK
<1>2. CASE Call(r)
  <2>1. PICK p \in Plans[r] : Make(r, p)
    BY <1>2 DEF Call
  <2>2. /\ UNCHANGED <<content, files>>
        /\ \/ req'[r] = At([req[r] EXCEPT !.par = p], "load")
           \/ req'[r] = At([req[r] EXCEPT !.par = p], "check")
           \/ req'[r] = Ended([req[r] EXCEPT !.par = p], "rejected")
    BY <2>1 DEF Make, Inv, TypeInv, TypeOK
  <2>3. req'[r].row = req[r].row /\ req'[r].env = req[r].env
    BY <1>1, <2>2 DEF At, Ended, Request
  <2>4. QED BY <2>2, <2>3, WritesNothing
<1>3. CASE PutFile(r)
  <2>1. PICK g : g = NewFile(r, req[r])
    OBVIOUS
  <2>2. /\ req[r].pc = "put" /\ content' = content
        /\ files' = files \/ files' = files \cup {g}
        /\ req'[r] = StoreError(req[r]) \/ req'[r] = StoreFrom(req[r], req[r].next + 1)
    BY <1>3, <2>1 DEF PutFile, Statement, Inv, TypeInv, TypeOK
  <2>3. req[r].par # None /\ req[r].par.upload # None
    BY <2>2, NoneAssumption
    DEF Inv, TypeInv, TypeOK, Shape, Statements, Uploads
  <2>4. req'[r].row = req[r].row /\ req'[r].env = req[r].env
    BY <1>1, <2>2, Carried
  <2>5. g.by = r
    BY <2>1 DEF NewFile
  <2>6. QED BY <2>2, <2>3, <2>4, <2>5, WritesNothing
<1>4. CASE UndoCreate(r) \/ DeleteContent(r)
  <2>1. /\ files' \subseteq files
        /\ \A c \in Requests : content'[c] \in {None, content[c]}
    BY <1>4 DEF UndoCreate, DeleteContent, DeleteRow, Inv, TypeInv, TypeOK
  <2>2. \E res : req'[r] = Ended(req[r], res)
    BY <1>4 DEF UndoCreate, DeleteContent, Inv, TypeInv, TypeOK
  <2>3. req'[r].row = req[r].row /\ req'[r].env = req[r].env
    BY <1>1, <2>2, Carried
  <2>4. QED BY <2>1, <2>3, WritesNothing
<1>5. CASE DropFiles(r)
  <2>1. files' \subseteq files /\ content' = content
    BY <1>5 DEF DropFiles
  <2>2. req'[r] = StoreFrom(req[r], 1) \/ req'[r] = Ended(req[r], "failed")
    BY <1>5 DEF DropFiles, Inv, TypeInv, TypeOK
  <2>3. req'[r].row = req[r].row /\ req'[r].env = req[r].env
    BY <1>1, <2>2, Carried
  <2>4. QED BY <2>1, <2>3, WritesNothing
<1>6. QED BY <1>2, <1>3, <1>4, <1>5

\* A create makes its row of what it was given.
LEMMA InsertFaithful ==
  ASSUME Inv, Inv', Authored, NEW r \in Requests, Lawful(r),
         CheckSlug(r) \/ InsertContent(r)
  PROVE  Faithful(r)
<1>0. PICK q : q = req[r]
  OBVIOUS
<1>1. q \in Request /\ q.par \in Params /\ q.par # None /\ q.par.op = "create"
  BY <1>0, NoneAssumption
  DEF CheckSlug, InsertContent, Statement, Inv, TypeInv, TypeOK, Shape, Statements
<1>2. CASE CheckSlug(r)
  <2> DEFINE u == [q EXCEPT !.pc = "insert", !.row = NewRow(r, q.par)]
  <2>1. /\ UNCHANGED <<content, files>>
        /\ \/ \E res : req'[r] = Ended(q, res)
           \/ req'[r] = u
    BY <1>0, <1>2 DEF CheckSlug, Inv, TypeInv, TypeOK
  <2>2. ASSUME NEW res, req'[r] = Ended(q, res) PROVE Faithful(r)
    <3>1. req'[r].row = req[r].row /\ req'[r].env = req[r].env
      BY <1>0, <1>1, <2>2, Carried
    <3>2. QED BY <2>1, <3>1, WritesNothing
  <2>3. CASE req'[r] = u
    <3>1. /\ u.row = NewRow(r, q.par) /\ u.env = q.env /\ u.par = q.par
      BY <1>1 DEF Request
    <3> HIDE DEF u
    <3>2. /\ req'[r].row = NewRow(r, q.par) /\ req'[r].env = req[r].env
          /\ req'[r].par = q.par
      BY <1>0, <2>3, <3>1
    <3>3. KeepsEnv(r)
      BY <3>2 DEF KeepsEnv
    <3>4. req'[r].env # None => Drew(req[r].env)'
      <4>1. PICK e : e = req[r].env
        OBVIOUS
      <4>2. e \in Envelope \cup {None} /\ (e # None => Drew(e))
        BY <4>1 DEF Authored, Inv, TypeInv, TypeOK, Request
      <4>3. e # None => Drew(e)'
        BY <3>3, <4>2, MadeStays
      <4>4. QED BY <3>2, <4>1, <4>3 DEF Drew
    <3>5. PICK row : row = NewRow(r, q.par)
      OBVIOUS
    <3>6. Made(row)'
      <4>1. \A x \in Fields : row.meta[x] = r
        BY <3>5 DEF NewRow
      <4>2. row.env = IF q.par.pass = None THEN None
                      ELSE [dek |-> r, pass |-> q.par.pass]
        BY <3>5 DEF NewRow
      <4>3. row.env # None => row.env.dek = r /\ row.env.pass = q.par.pass
        BY <4>2
      <4>4. (row.env # None => Drew(row.env))'
        BY <1>1, <3>2, <4>3 DEF Drew
      <4>5. \A x \in Fields : Gives(row.meta[x], x)'
        BY <1>1, <3>2, <4>1 DEF Gives
      <4>6. QED BY <4>4, <4>5 DEF Made
    <3>7. Made(req[r].row)'
      BY <3>2, <3>5, <3>6 DEF Made
    <3>8. QED BY <2>1, <3>3, <3>4, <3>7 DEF Faithful
  <2>4. QED BY <2>1, <2>2, <2>3
<1>3. CASE InsertContent(r)
  <2>1. /\ q.pc = "insert" /\ files' = files
        /\ content' = content \/ content' = [content EXCEPT ![r] = q.row]
        /\ \/ req'[r] = Ended(q, "failed")
           \/ req'[r] = StoreFrom([q EXCEPT !.cid = r], 1)
    BY <1>0, <1>3 DEF InsertContent, Statement, Inv, TypeInv, TypeOK
  <2>2. req'[r].row = q.row /\ req'[r].env = q.env
    <3>1. /\ [q EXCEPT !.cid = r] \in Request
          /\ [q EXCEPT !.cid = r].row = q.row /\ [q EXCEPT !.cid = r].env = q.env
      BY <1>1 DEF Request
    <3>2. PICK w : w = [q EXCEPT !.cid = r]
      OBVIOUS
    <3>3. w \in Request /\ w.row = q.row /\ w.env = q.env
      BY <3>1, <3>2
    <3>4. CASE req'[r] = StoreFrom(w, 1)
      BY <3>3, <3>4, Carried
    <3>5. CASE req'[r] = Ended(q, "failed")
      BY <1>1, <3>5, Carried
    <3>6. QED BY <2>1, <3>2, <3>4, <3>5
  <2>3. KeepsEnv(r) /\ q.row \in Row /\ Made(q.row)
    <3>1. q.row \in Row
      BY <1>0, <2>1 DEF Inv, TypeInv, Shape
    <3>2. QED BY <1>0, <2>2, <3>1, NoneAssumption DEF KeepsEnv, Authored
  <2>4. Made(q.row)' /\ (q.env # None => Drew(q.env)')
    BY <1>0, <1>1, <2>3, MadeStays DEF Authored, Request
  <2>5. Made(req[r].row)' /\ (req'[r].env # None => Drew(req[r].env)')
    BY <2>2, <2>4 DEF Made, Drew
  <2>6. ASSUME NEW c \in Requests, content'[c] # content[c] PROVE Made(content[c])'
    <3>1. content'[c] = q.row
      BY <2>1, <2>6 DEF Inv, TypeInv, TypeOK
    <3>2. QED BY <2>4, <3>1 DEF Made
  <2>7. QED BY <2>1, <2>3, <2>5, <2>6 DEF Faithful
<1>4. QED BY <1>2, <1>3

\* An update takes over the row it has loaded, but for the fields and the key it
\* supplies.
LEMMA LoadFaithful ==
  ASSUME Inv, Inv', Authored, NEW r \in Requests, Lawful(r), LoadContent(r)
  PROVE  Faithful(r)
<1>0. PICK q : q = req[r]
  OBVIOUS
<1>1. /\ q \in Request /\ q.par \in Params /\ q.par # None /\ q.cid = None
      /\ UNCHANGED <<content, files>>
  BY <1>0, NoneAssumption
  DEF LoadContent, Statement, Inv, TypeInv, TypeOK, Shape, Statements
<1>2. \/ \E res : req'[r] = Ended(q, res)
      \/ \E c \in RowsAt(q.par.slug) :
           req'[r] = IF q.par.op = "update" THEN UpdateLoaded(r, q, c)
                     ELSE [q EXCEPT !.pc = "remove", !.cid = c, !.row = content[c]]
  BY <1>0 DEF LoadContent, Inv, TypeInv, TypeOK
<1>3. KeepsEnv(r)
  BY <1>0, <1>1 DEF KeepsEnv
<1>4. ASSUME NEW res, req'[r] = Ended(q, res) PROVE Faithful(r)
  <2>1. req'[r].row = req[r].row /\ req'[r].env = req[r].env
    BY <1>0, <1>1, <1>4, Carried
  <2>2. QED BY <1>1, <2>1, WritesNothing
<1>5. ASSUME NEW c \in RowsAt(q.par.slug), NEW row, row = content[c]
      PROVE  /\ c \in Requests /\ c # None
             /\ row \in Row /\ Made(row)' /\ (q.env # None => Drew(q.env)')
  <2>1. c \in Requests /\ row \in Row /\ Made(row)
    BY <1>5, NoneAssumption DEF RowsAt, Inv, TypeInv, TypeOK, Authored
  <2>2. c # None /\ Made(row)'
    BY <1>3, <2>1, NoneAssumption, MadeStays
  <2>3. q.env # None => Drew(q.env)'
    BY <1>0, <1>1, <1>3, MadeStays DEF Authored, Request
  <2>4. QED BY <2>1, <2>2, <2>3
<1>6. ASSUME NEW c \in RowsAt(q.par.slug),
             req'[r] = [q EXCEPT !.pc = "remove", !.cid = c, !.row = content[c]]
      PROVE  Faithful(r)
  <2>1. req'[r].row = content[c] /\ req'[r].env = q.env
    BY <1>1, <1>6 DEF Request
  <2>2. PICK row : row = content[c]
    OBVIOUS
  <2>3. Made(row)' /\ (q.env # None => Drew(q.env)')
    BY <1>5, <1>6, <2>2
  <2>4. Made(req[r].row)' /\ (req'[r].env # None => Drew(req[r].env)')
    BY <2>1, <2>2, <2>3 DEF Made, Drew
  <2>5. QED BY <1>1, <1>3, <2>4 DEF Faithful
<1>7. ASSUME NEW c \in RowsAt(q.par.slug), q.par.op = "update",
             ~Refused(q.par, content[c].env), req'[r] = UpdateLoaded(r, q, c)
      PROVE  Faithful(r)
  <2>1. PICK row : row = content[c]
    OBVIOUS
  <2>2. /\ c \in Requests /\ c # None /\ row \in Row /\ Made(row)'
    BY <1>5, <1>7, <2>1
  <2> DEFINE new == NextEnv(r, q.par, row.env)
             merged == Merged(r, q.par, row)
  <2>3. /\ req'[r].row = merged /\ req'[r].env = new
        /\ req'[r].cid = c /\ req'[r].par = q.par
    <3>1. ~Refused(q.par, row.env)
      BY <1>7, <2>1
    <3>2. PICK pc : req'[r] = [q EXCEPT !.pc = pc, !.cid = c, !.row = merged,
                                        !.env = new]
      BY <1>7, <2>1, <3>1 DEF UpdateLoaded
    <3> HIDE DEF new, merged
    <3>3. QED BY <1>1, <3>2 DEF Request
  <2>4. new # None => Drew(new)'
    <3>1. row.env # None => Drew(row.env)'
      BY <2>2 DEF Made
    <3>2. ASSUME NEW p \in {q.par.pass, q.par.newpass}, new = [dek |-> r, pass |-> p]
          PROVE  Drew(new)'
      <4>1. new.dek = r /\ new.pass = p
        BY <3>2
      <4> HIDE DEF new
      <4>2. QED BY <1>1, <1>7, <2>2, <2>3, <4>1 DEF Drew
    <3>3. \/ new = None \/ new = row.env
          \/ \E p \in {q.par.pass, q.par.newpass} : new = [dek |-> r, pass |-> p]
      BY DEF NextEnv
    <3> HIDE DEF new
    <3>4. CASE new = row.env /\ new # None
      BY <3>1, <3>4
    <3>5. QED BY <3>2, <3>3, <3>4
  <2>5. Made(merged)'
    <3>1. merged.env = row.env
      BY <2>2 DEF Merged, Row
    <3>2. \A x \in Fields :
            merged.meta[x] = IF x \in q.par.sets THEN r ELSE row.meta[x]
      BY <2>2 DEF Merged, Row
    <3>3. \A x \in Fields : x \in q.par.sets => Gives(r, x)'
      BY <1>1, <2>3 DEF Gives
    <3> HIDE DEF merged
    <3>4. \A x \in Fields : Gives(merged.meta[x], x)'
      <4>1. \A x \in Fields : Gives(row.meta[x], x)'
        BY <2>2 DEF Made
      <4>2. QED BY <3>2, <3>3, <4>1 DEF Gives
    <3>5. QED BY <2>2, <3>1, <3>4 DEF Made
  <2> HIDE DEF new, merged
  <2>6. Made(req[r].row)' /\ (req'[r].env # None => Drew(req[r].env)')
    BY <2>3, <2>4, <2>5 DEF Made, Drew
  <2>7. QED BY <1>1, <1>3, <2>6 DEF Faithful
<1>8. ASSUME NEW c \in RowsAt(q.par.slug), Refused(q.par, content[c].env),
             req'[r] = UpdateLoaded(r, q, c)
      PROVE  Faithful(r)
  BY <1>4, <1>8 DEF UpdateLoaded
<1>9. QED BY <1>2, <1>4, <1>6, <1>7, <1>8

\* The other statements of an update store what it holds.
LEMMA UpdateFaithful ==
  ASSUME Inv, Inv', Authored, NEW r \in Requests, Lawful(r),
         ListFiles(r) \/ ApplyEncryption(r) \/ SaveContent(r)
  PROVE  Faithful(r)
<1>0. PICK q, c : q = req[r] /\ c = req[r].cid
  OBVIOUS
<1>1. q \in Request /\ q.row \in Row /\ q.row # None /\ c \in Requests
  BY <1>0, NoneAssumption
  DEF ListFiles, ApplyEncryption, SaveContent, Statement, Inv, TypeInv, TypeOK, Shape,
      HasRow
<1>2. CASE ListFiles(r)
  <2>1. /\ UNCHANGED <<content, files>>
        /\ \/ req'[r] = Ended(q, "failed")
           \/ \E rew : req'[r] = [q EXCEPT !.pc = "apply", !.rewritten = rew]
    BY <1>0, <1>2 DEF ListFiles, Inv, TypeInv, TypeOK
  <2>2. req'[r].row = req[r].row /\ req'[r].env = req[r].env
    BY <1>0, <1>1, <2>1 DEF Ended, Request
  <2>3. QED BY <2>1, <2>2, WritesNothing
<1>3. CASE ApplyEncryption(r) \/ SaveContent(r)
  <2>1. req'[r].env = q.env
    <3>1. CASE ApplyEncryption(r)
      <4>1. \/ req'[r] = [q EXCEPT !.pc = "save", !.row.env = q.env, !.rewritten = {}]
            \/ req'[r] = Ended(q, "failed")
        BY <1>0, <3>1 DEF ApplyEncryption, Inv, TypeInv, TypeOK
      <4>2. QED BY <1>1, <4>1 DEF Ended, Request
    <3>2. CASE SaveContent(r)
      <4>1. \/ \E res : req'[r] = Ended(q, res)
            \/ req'[r] = At(q, "drop")
        BY <1>0, <3>2 DEF SaveContent, Inv, TypeInv, TypeOK
      <4>2. QED BY <1>1, <4>1, Carried
    <3>3. QED BY <1>3, <3>1, <3>2
  <2>2. KeepsEnv(r)
    BY <1>0, <2>1 DEF KeepsEnv
  <2>3. /\ Made(q.row)' /\ (q.env # None => Drew(q.env)')
        /\ \A d \in Requests : content[d] # None => content[d] \in Row
    BY <1>0, <1>1, <2>2, MadeStays DEF Authored, Request, Inv, TypeInv, TypeOK
  <2>4. req'[r].env # None => Drew(req[r].env)'
    BY <2>1, <2>3 DEF Drew
  <2>5. PICK w : w = content[c]
    OBVIOUS
  <2>6. w # None => w \in Row /\ Made(w)'
    BY <1>1, <2>2, <2>3, <2>5, MadeStays DEF Authored
  <2>7. CASE ApplyEncryption(r)
    <3>1. ASSUME NEW u \in Row, Made(u)' PROVE Made([u EXCEPT !.env = q.env])'
      <4>1. PICK v : v = [u EXCEPT !.env = q.env]
        OBVIOUS
      <4>2. v.env = q.env /\ v.meta = u.meta
        BY <4>1 DEF Row
      <4>3. Made(v)'
        BY <2>3, <3>1, <4>2 DEF Made
      <4>4. QED BY <4>1, <4>3
    <3>2. Made(req[r].row)'
      <4>1. \/ req'[r] = [q EXCEPT !.pc = "save", !.row.env = q.env, !.rewritten = {}]
            \/ req'[r] = Ended(q, "failed")
        BY <1>0, <2>7 DEF ApplyEncryption, Inv, TypeInv, TypeOK
      <4>2. req'[r].row \in {q.row, [q.row EXCEPT !.env = q.env]}
        BY <1>1, <4>1 DEF Ended, Request
      <4>3. PICK v : v = [q.row EXCEPT !.env = q.env]
        OBVIOUS
      <4>4. Made(v)' /\ Made(q.row)'
        BY <1>1, <2>3, <3>1, <4>3
      <4>5. QED BY <4>2, <4>3, <4>4 DEF Made
    <3>3. ASSUME NEW d \in Requests, content'[d] # content[d], content'[d] # None
          PROVE  Made(content[d])'
      <4>1. d = c /\ w # None /\ content'[c] = [w EXCEPT !.env = q.env]
        BY <1>0, <1>1, <2>5, <2>7, <3>3 DEF ApplyEncryption, Inv, TypeInv, TypeOK
      <4>2. PICK v : v = [w EXCEPT !.env = q.env]
        OBVIOUS
      <4>3. Made(v)'
        BY <2>6, <3>1, <4>1, <4>2
      <4>4. QED BY <4>1, <4>2, <4>3 DEF Made
    <3>4. ASSUME NEW f \in files' PROVE f \in files \/ \E g \in files : g.by = f.by
      BY <2>7, <3>4 DEF ApplyEncryption, SameFile
    <3>5. \A f \in files' : f \in files \/ \E g \in files : g.by = f.by
      BY <3>4
    <3>6. (\E f \in files' \ files : f.by = r) => /\ req[r].par # None
                                                 /\ req[r].par.upload # None
      BY <3>5 DEF Authored
    <3>7. QED BY <2>2, <2>4, <3>2, <3>3, <3>5, <3>6 DEF Faithful
  <2>8. CASE SaveContent(r)
    <3>1. files' = files /\ req'[r].row = q.row
      <4>1. \/ \E res : req'[r] = Ended(q, res)
            \/ req'[r] = At(q, "drop")
        BY <1>0, <2>8 DEF SaveContent, Inv, TypeInv, TypeOK
      <4>2. QED BY <1>1, <2>8, <4>1, Carried DEF SaveContent
    <3>2. Made(req[r].row)'
      BY <2>3, <3>1 DEF Made
    <3>3. ASSUME NEW d \in Requests, content'[d] # content[d], content'[d] # None
          PROVE  Made(content[d])'
      <4>1. d = c /\ w # None /\ content'[c] = [w EXCEPT !.meta = q.row.meta]
        BY <1>0, <1>1, <2>5, <2>8, <3>3 DEF SaveContent, Inv, TypeInv, TypeOK
      <4>2. PICK v : v = [w EXCEPT !.meta = q.row.meta]
        OBVIOUS
      <4>3. v.env = w.env /\ v.meta = q.row.meta
        BY <2>6, <4>1, <4>2 DEF Row
      <4>4. Made(v)'
        BY <2>3, <2>6, <4>1, <4>3 DEF Made
      <4>5. QED BY <4>1, <4>2, <4>4 DEF Made
    <3>4. QED BY <2>2, <2>4, <3>1, <3>2, <3>3 DEF Faithful
  <2>9. QED BY <1>3, <2>7, <2>8
<1>4. QED BY <1>2, <1>3

LEMMA StepFaithful ==
  ASSUME Inv, Inv', Authored, NEW r \in Requests, Step(r)
  PROVE  Lawful(r) /\ Faithful(r)
<1>1. Lawful(r)
  BY StepLawful DEF Inv
<1>2. QED BY <1>1, CreateFaithful, InsertFaithful, LoadFaithful, UpdateFaithful DEF Step

\* A crash takes nothing from a request but its place.
LEMMA CrashCarries ==
  ASSUME Inv, Crash
  PROVE  \A s \in Requests :
           /\ req'[s].par = req[s].par /\ req'[s].cid = req[s].cid
           /\ req'[s].env = req[s].env /\ req'[s].row = req[s].row
  BY DEF Crash, Ended, Inv, TypeInv, TypeOK, Request

\* No step forgets for which passphrase a key was drawn.
LEMMA DrewStays ==
  ASSUME Inv, Inv', Authored, [Next]_vars
  PROVE  \A e \in Envelope : Drew(e) => Drew(e)'
<1>1. ASSUME NEW r \in Requests, Step(r) PROVE \A e \in Envelope : Drew(e) => Drew(e)'
  BY <1>1, StepFaithful, MadeStays DEF Faithful
<1>2. CASE Crash
  BY <1>2, CrashCarries DEF Drew, Envelope
<1>3. CASE UNCHANGED vars
  BY <1>3 DEF vars, Drew
<1>4. QED BY <1>1, <1>2, <1>3 DEF Next, AllDone

\* Every file, key and field in the tables was supplied by the request whose name
\* it bears.
LEMMA AlwaysAuthored == Spec => []Authored
<1>1. Init => Authored
  BY DEF Init, Idle, Authored
<1>2. Inv /\ Inv' /\ Authored /\ [Next]_vars => Authored'
  <2>1. ASSUME Inv, Inv', Authored, NEW r \in Requests, Step(r) PROVE Authored'
    <3>1. Lawful(r) /\ Faithful(r)
      BY <2>1, StepFaithful
    <3>2. QED BY <2>1, <3>1, FaithfulKeeps
  <2>2. ASSUME Inv, Authored, Crash PROVE Authored'
    <3>1. UNCHANGED <<content, files>>
      BY <2>2 DEF Crash
    <3>2. \A s \in Requests : /\ req'[s].par = req[s].par /\ req'[s].cid = req[s].cid
                              /\ req'[s].env = req[s].env /\ req'[s].row = req[s].row
      BY <2>2, CrashCarries
    <3>3. /\ \A e \in Envelope : Drew(e) => Drew(e)'
          /\ \A row \in Row : Made(row) => Made(row)'
      BY <3>2 DEF Drew, Made, Gives, Envelope, Row
    <3>4. ASSUME NEW s \in Requests
          PROVE  /\ req'[s].row # None => Made(req[s].row)'
                 /\ req'[s].env # None => Drew(req[s].env)'
      <4>1. PICK row, e : row = req[s].row /\ e = req[s].env
        OBVIOUS
      <4>2. row \in Row \cup {None} /\ e \in Envelope \cup {None}
        BY <2>2, <4>1 DEF Inv, TypeInv, TypeOK, Request
      <4>3. (row # None => Made(row)') /\ (e # None => Drew(e)')
        BY <2>2, <3>3, <4>1, <4>2 DEF Authored
      <4>4. QED BY <3>2, <4>1, <4>3 DEF Made, Drew
    <3>5. \A c \in Requests : content'[c] # None => Made(content[c])'
      BY <2>2, <3>1, <3>3 DEF Authored, Inv, TypeInv, TypeOK
    <3>6. QED BY <2>2, <3>1, <3>2, <3>4, <3>5 DEF Authored, Inv, TypeInv, TypeOK, File
  <2>3. ASSUME Authored, UNCHANGED vars PROVE Authored'
    BY <2>3 DEF vars, Authored, Made, Drew, Gives
  <2>4. QED BY <2>1, <2>2, <2>3 DEF Next, AllDone
<1>3. QED BY <1>1, <1>2, Invariant, PTL DEF Spec

=============================================================================
