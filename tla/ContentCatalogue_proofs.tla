---------------------- MODULE ContentCatalogue_proofs -----------------------
(***************************************************************************)
(* When calls for one slug do not overlap, the service implements          *)
(* Catalogue, for any set of requests, slugs and passphrases and any       *)
(* number of failed statements and crashes.                                *)
(*                                                                         *)
(* A create takes effect at its INSERT, an update when it is loaded, a     *)
(* delete at its DELETE.  From then on the shelf shows what the statements *)
(* that follow will make of the entry, so that those statements must not   *)
(* be seen: the invariant (Ready) says how far each has brought the rows   *)
(* and the files towards that.  With the last one the tables show it too,  *)
(* and the call is answered.  A call that fails half-way leaves its entry, *)
(* and no other, in doubt.                                                 *)
(***************************************************************************)
EXTENDS ContentSerial_proofs, SequenceTheorems

-----------------------------------------------------------------------------
(* What a request has done so far.                                         *)

\* An entry that a request works on has been inserted.
Begun == \A s \in Requests : req[s].cid # None => req[req[s].cid].pc \notin Early

\* The files of entry c, each by its uploader and its number.
Numbered(c) == {<<f.by, f.n>> : f \in FilesOf(c)}

\* How far request r is with the entry it works on.
Ready(r) ==
  LET q == req[r] IN
  /\ q.pc = "insert" => q.row = NewRow(r, q.par)
  /\ q.pc = "apply" /\ q.par.upload = None =>
       /\ q.rewritten = {Rewrite(q.row.env, q.env, f) : f \in FilesOf(q.cid)}
       /\ \A f \in FilesOf(q.cid) : Opens(q.row.env, f)
  /\ q.pc \in {"save", "drop", "put"} /\ q.par.op = "update" => q.row.env = q.env
  /\ q.pc \in {"drop", "put"} => content[q.cid].meta = q.row.meta
  /\ q.pc = "put" => Numbered(q.cid) = {<<r, n>> : n \in 1 .. (q.next - 1)}

\* A request takes hold only of its own entry or of one in the table.
LEMMA BegunStays ==
  ASSUME Inv, Inv', Begun, NEW r \in Requests, Lawful(r)
  PROVE  Begun'
<1>1. \A s \in Requests : req[s].pc \notin Early => req'[s].pc \notin Early
  BY DEF Lawful, LawfulRequest
<1>2. ASSUME NEW s \in Requests, req'[s].cid # None
      PROVE  req'[req'[s].cid].pc \notin Early
  <2>1. req'[s].cid \in Requests
    BY <1>2 DEF Inv, TypeInv, TypeOK, Request
  <2>2. CASE req'[s].cid = req[s].cid
    BY <1>1, <1>2, <2>1, <2>2 DEF Begun
  <2>3. CASE s = r /\ req'[r].cid = r
    BY <1>2, <2>3 DEF Inv, TypeInv, Shape, Early
  <2>4. CASE s = r /\ content[req'[r].cid] # None
    BY <1>1, <2>1, <2>4 DEF Inv, Ownership, RowOwner
  <2>5. QED BY <1>2, <2>2, <2>3, <2>4 DEF Lawful, LawfulRequest
<1>3. QED BY <1>2 DEF Begun

\* Nobody else touches the entry that s is at work on.
LEMMA OthersReady ==
  ASSUME Inv, Serial, NEW r \in Requests, Lawful(r), Orderly(r),
         NEW s \in Requests, s # r, Ready(s)
  PROVE  Ready(s)'
<1>1. req'[s] = req[s]
  BY DEF Lawful, LawfulRequest
<1>2. CASE req[s].pc \in {"apply", "save", "drop", "put"}
  <2>1. PICK c : c = req[s].cid
    OBVIOUS
  <2>2. c \in Requests /\ InFlight(s)
    BY <1>2, <2>1 DEF Inv, TypeInv, TypeOK, Shape, HasRow, InFlight, Statements
  <2>3. content'[c] = content[c] /\ FilesOf(c)' = FilesOf(c)
    BY <2>1, <2>2, OthersElsewhere
  <2>4. Numbered(c)' = Numbered(c)
    BY <2>3 DEF Numbered
  <2>5. /\ req[s].pc = "apply" /\ req[s].par.upload = None =>
             /\ req[s].rewritten = {Rewrite(req[s].row.env, req[s].env, f) : f \in FilesOf(c)}
             /\ \A f \in FilesOf(c) : Opens(req[s].row.env, f)
        /\ req[s].pc \in {"save", "drop", "put"} /\ req[s].par.op = "update"
             => req[s].row.env = req[s].env
        /\ req[s].pc \in {"drop", "put"} => content[c].meta = req[s].row.meta
        /\ req[s].pc = "put" => Numbered(c) = {<<s, n>> : n \in 1 .. (req[s].next - 1)}
    BY <2>1 DEF Ready
  <2>6. QED BY <1>1, <1>2, <2>1, <2>3, <2>4, <2>5 DEF Ready
<1>3. CASE req[s].pc \notin {"apply", "save", "drop", "put"}
  BY <1>1, <1>3 DEF Ready
<1>4. QED BY <1>2, <1>3

\* Where storing files leads: to the next one, to the end of the upload, or to the
\* end of the call.
LEMMA StoreFromCases ==
  ASSUME NEW q \in Request, NEW n
  PROVE  LET s == StoreFrom(q, n) IN
         \/ s.pc = "put" /\ s.next = n
         \/ s.pc = "done" /\ s.result = "ok" /\ ~(n <= Len(q.par.upload.paths))
         \/ s = StoreError(q)
<1>1. [q EXCEPT !.pc = "put", !.next = n].pc = "put"
      /\ [q EXCEPT !.pc = "put", !.next = n].next = n
  BY DEF Request
<1>2. Ended(q, "ok").pc = "done" /\ Ended(q, "ok").result = "ok"
  BY DEF Ended, Request
<1>3. QED BY <1>1, <1>2 DEF StoreFrom

\* Nothing is asked of a request that is not at one of these statements.
LEMMA ElsewhereReady ==
  ASSUME NEW r \in Requests,
         req'[r].pc \notin {"insert", "apply", "save", "drop", "put"}
  PROVE  Ready(r)'
  BY DEF Ready

\* Statements before and after the work proper.
LEMMA CreateReady ==
  ASSUME Inv, NEW r \in Requests, Call(r) \/ CheckSlug(r) \/ UndoCreate(r)
                                   \/ DeleteContent(r)
  PROVE  Ready(r)'
<1>1. req[r] \in Request
  BY DEF Inv, TypeInv, TypeOK
<1>2. \A res : Ended(req[r], res).pc = "done"
  BY <1>1 DEF Ended, Request
<1>3. CASE Call(r)
  <2>1. PICK p \in Plans[r] : Make(r, p)
    BY <1>3 DEF Call
  <2>2. PICK q : q = [req[r] EXCEPT !.par = p]
    OBVIOUS
  <2>3. q \in Request
    BY <1>1, <2>1, <2>2, PlansAssumption DEF Request
  <2>4. \/ req'[r] = At(q, "load") \/ req'[r] = At(q, "check")
        \/ req'[r] = Ended(q, "rejected")
    BY <2>1, <2>2 DEF Make, Inv, TypeInv, TypeOK
  <2>5. /\ At(q, "load").pc = "load" /\ At(q, "check").pc = "check"
        /\ Ended(q, "rejected").pc = "done"
    BY <2>3 DEF At, Ended, Request
  <2>6. QED BY <2>4, <2>5, ElsewhereReady
<1>4. CASE CheckSlug(r)
  <2>1. \/ \E res : req'[r] = Ended(req[r], res)
        \/ req'[r] = [req[r] EXCEPT !.pc = "insert", !.row = NewRow(r, req[r].par)]
    BY <1>4 DEF CheckSlug, Inv, TypeInv, TypeOK
  <2>2. ASSUME req'[r] = [req[r] EXCEPT !.pc = "insert", !.row = NewRow(r, req[r].par)]
        PROVE  Ready(r)'
    <3>1. req'[r].pc = "insert" /\ req'[r].row = NewRow(r, req'[r].par)
      BY <1>1, <2>2 DEF Request
    <3>2. QED BY <3>1 DEF Ready
  <2>3. QED BY <1>2, <2>1, <2>2, ElsewhereReady
<1>5. CASE UndoCreate(r) \/ DeleteContent(r)
  <2>1. \E res : req'[r] = Ended(req[r], res)
    BY <1>5 DEF UndoCreate, DeleteContent, Inv, TypeInv, TypeOK
  <2>2. QED BY <1>2, <2>1, ElsewhereReady
<1>6. QED BY <1>3, <1>4, <1>5

\* After the INSERT no file is in yet.
LEMMA InsertReady ==
  ASSUME Inv, NEW r \in Requests, InsertContent(r)
  PROVE  Ready(r)'
<1>1. PICK q : q = [req[r] EXCEPT !.cid = r]
  OBVIOUS
<1>2. /\ req[r].pc = "insert" /\ files' = files
      /\ \/ req'[r] = Ended(req[r], "failed")
         \/ content' = [content EXCEPT ![r] = req[r].row] /\ req'[r] = StoreFrom(q, 1)
  BY <1>1 DEF InsertContent, Statement, Inv, TypeInv, TypeOK
<1>3. /\ req[r] \in Request /\ content[r] = None /\ req[r].par.op = "create"
  BY <1>2 DEF Inv, TypeInv, TypeOK, Shape, Ownership, RowOwner, Early
<1>4. q \in Request /\ q.cid = r /\ q.row = req[r].row /\ q.par = req[r].par
  BY <1>1, <1>3 DEF Request
<1>5. CASE req'[r] = Ended(req[r], "failed")
  BY <1>3, <1>5, ElsewhereReady DEF Ended, Request
<1>6. CASE content' = [content EXCEPT ![r] = req[r].row] /\ req'[r] = StoreFrom(q, 1)
  <2>1. /\ req'[r].cid = r /\ req'[r].row = req[r].row /\ req'[r].par = req[r].par
    BY <1>4, <1>6, Carried
  <2>2. CASE req'[r].pc = "put" /\ req'[r].next = 1
    <3>1. content'[r] = req[r].row
      BY <1>6 DEF Inv, TypeInv, TypeOK
    <3>2. FilesOf(r)' = {}
      BY <1>2, <1>3 DEF FilesOf, Inv, Ownership, FileOwner
    <3>3. Numbered(r)' = {} /\ {<<r, n>> : n \in 1 .. (1 - 1)} = {}
      BY <3>2 DEF Numbered
    <3>4. QED BY <1>3, <2>1, <2>2, <3>1, <3>3 DEF Ready
  <2>3. CASE req'[r].pc # "put"
    <3>1. req'[r].pc \in {"undo", "done"}
      BY <1>4, <1>6, <2>3, StoreFromEnds
    <3>2. QED BY <3>1, ElsewhereReady
  <2>4. QED BY <1>4, <1>6, <2>2, <2>3, StoreFromCases, StoreErrorEnds
<1>7. QED BY <1>2, <1>5, <1>6

\* Files come one by one, in the order of the upload.
LEMMA PutReady ==
  ASSUME Inv, Serial, NEW r \in Requests, Ready(r), PutFile(r)
  PROVE  Ready(r)'
<1>0. PICK q, c : q = req[r] /\ c = req[r].cid
  OBVIOUS
<1>1. /\ q.pc = "put" /\ content' = content
      /\ \/ req'[r] = StoreError(q)
         \/ req'[r] = StoreFrom(q, q.next + 1) /\ files' = files \cup {NewFile(r, q)}
  BY <1>0 DEF PutFile, Statement, Inv, TypeInv, TypeOK
<1>2. /\ q \in Request /\ c \in Requests /\ q.next \in Nat \ {0}
  BY <1>0, <1>1
  DEF Inv, TypeInv, TypeOK, Shape, HasRow, Request
<1>3. /\ content[c].meta = q.row.meta /\ (q.par.op = "update" => q.row.env = q.env)
      /\ Numbered(c) = {<<r, n>> : n \in 1 .. (q.next - 1)}
  BY <1>0, <1>1 DEF Ready
<1>4. CASE req'[r] = StoreError(q)
  BY <1>2, <1>4, StoreErrorEnds, ElsewhereReady
<1>5. CASE req'[r] = StoreFrom(q, q.next + 1) /\ files' = files \cup {NewFile(r, q)}
  <2>1. /\ req'[r].par = q.par /\ req'[r].cid = c /\ req'[r].row = q.row
        /\ req'[r].env = q.env
    BY <1>0, <1>2, <1>5, Carried
  <2>2. CASE req'[r].pc = "put" /\ req'[r].next = q.next + 1
    <3>1. NewFile(r, q).by = r /\ NewFile(r, q).n = q.next /\ NewFile(r, q).cid = c
      BY <1>0 DEF NewFile
    <3>2. FilesOf(c)' = FilesOf(c) \cup {NewFile(r, q)}
      BY <1>5, <3>1 DEF FilesOf
    <3>3. Numbered(c)' = Numbered(c) \cup {<<r, q.next>>}
      BY <3>1, <3>2 DEF Numbered
    <3>4. 1 .. ((q.next + 1) - 1) = (1 .. (q.next - 1)) \cup {q.next}
      BY <1>2
    <3>5. Numbered(c)' = {<<r, n>> : n \in 1 .. ((q.next + 1) - 1)}
      BY <1>3, <3>3, <3>4
    <3>6. QED BY <1>1, <1>3, <2>1, <2>2, <3>5 DEF Ready
  <2>3. CASE req'[r].pc # "put"
    <3>1. req'[r].pc \in {"undo", "done"}
      BY <1>2, <1>5, <2>3, StoreFromEnds
    <3>2. QED BY <3>1, ElsewhereReady
  <2>4. QED BY <1>2, <1>5, <2>2, <2>3, StoreFromCases, StoreErrorEnds
<1>6. QED BY <1>1, <1>4, <1>5

\* An update that keeps the envelope has it in its copy of the row already.
LEMMA LoadReady ==
  ASSUME Inv, NEW r \in Requests, LoadContent(r)
  PROVE  Ready(r)'
<1>1. PICK q : q = req[r]
  OBVIOUS
<1>2. q \in Request
  BY <1>1 DEF Inv, TypeInv, TypeOK
<1>3. \/ \E res : req'[r] = Ended(q, res)
      \/ \E c \in RowsAt(q.par.slug) :
           req'[r] = IF q.par.op = "update" THEN UpdateLoaded(r, q, c)
                     ELSE [q EXCEPT !.pc = "remove", !.cid = c, !.row = content[c]]
  BY <1>1 DEF LoadContent, Inv, TypeInv, TypeOK
<1>4. ASSUME NEW res, req'[r] = Ended(q, res) PROVE Ready(r)'
  BY <1>2, <1>4, ElsewhereReady DEF Ended, Request
<1>5. ASSUME NEW c, req'[r] = [q EXCEPT !.pc = "remove", !.cid = c, !.row = content[c]]
      PROVE  Ready(r)'
  <2>1. req'[r].pc = "remove"
    BY <1>2, <1>5 DEF Request
  <2>2. QED BY <2>1, ElsewhereReady
<1>6. ASSUME NEW c \in RowsAt(q.par.slug), req'[r] = UpdateLoaded(r, q, c)
      PROVE  Ready(r)'
  <2>1. CASE Refused(q.par, content[c].env)
    BY <1>4, <1>6, <2>1 DEF UpdateLoaded
  <2>2. CASE ~Refused(q.par, content[c].env)
    <3>1. PICK row, merged, new :
            /\ row = content[c] /\ merged = Merged(r, q.par, row)
            /\ new = NextEnv(r, q.par, row.env)
      OBVIOUS
    <3>2. PICK to : to = IF new = row.env THEN "save"
                         ELSE IF q.par.upload = None THEN "list" ELSE "apply"
      OBVIOUS
    <3>3. req'[r] = [q EXCEPT !.pc = to, !.cid = c, !.row = merged, !.env = new]
      BY <1>6, <2>2, <3>1, <3>2 DEF UpdateLoaded
    <3>4. row \in Row
      BY <3>1 DEF RowsAt, Inv, TypeInv, TypeOK
    <3>5. merged.env = row.env
      BY <3>1, <3>4 DEF Merged, Row
    <3>6. /\ req'[r].pc = to /\ req'[r].row = merged /\ req'[r].env = new
          /\ req'[r].par = q.par
      BY <1>2, <3>3 DEF Request
    <3>7. QED BY <3>2, <3>5, <3>6 DEF Ready
  <2>3. QED BY <2>1, <2>2
<1>7. QED BY <1>3, <1>4, <1>5, <1>6

\* What is listed is rewritten, all of it.
LEMMA ListReady ==
  ASSUME Inv, NEW r \in Requests, ListFiles(r)
  PROVE  Ready(r)'
<1>0. PICK q, c : q = req[r] /\ c = req[r].cid
  OBVIOUS
<1>1. PICK rew : rew = {Rewrite(q.row.env, q.env, f) : f \in FilesOf(c)}
  OBVIOUS
<1>2. /\ UNCHANGED <<content, files>>
      /\ \/ req'[r] = Ended(q, "failed")
         \/ /\ req'[r] = [q EXCEPT !.pc = "apply", !.rewritten = rew]
            /\ \A f \in FilesOf(c) : Opens(q.row.env, f)
  BY <1>0, <1>1 DEF ListFiles, Inv, TypeInv, TypeOK
<1>3. q \in Request
  BY <1>0 DEF Inv, TypeInv, TypeOK
<1>4. CASE req'[r] = Ended(q, "failed")
  BY <1>3, <1>4, ElsewhereReady DEF Ended, Request
<1>5. CASE req'[r] # Ended(q, "failed")
  <2>1. /\ req'[r].pc = "apply" /\ req'[r].rewritten = rew /\ req'[r].cid = c
        /\ req'[r].row = q.row /\ req'[r].env = q.env /\ req'[r].par = q.par
    BY <1>0, <1>2, <1>3, <1>5 DEF Request
  <2>2. FilesOf(c)' = FilesOf(c)
    BY <1>2 DEF FilesOf
  <2>3. QED BY <1>1, <1>2, <1>5, <2>1, <2>2 DEF Ready
<1>6. QED BY <1>4, <1>5

\* With the transaction the copy of the row has the new envelope too.
LEMMA ApplyReady ==
  ASSUME Inv, NEW r \in Requests, ApplyEncryption(r)
  PROVE  Ready(r)'
<1>0. PICK q : q = req[r]
  OBVIOUS
<1>1. /\ q.pc = "apply"
      /\ \/ req'[r] = Ended(q, "failed")
         \/ req'[r] = [q EXCEPT !.pc = "save", !.row.env = q.env, !.rewritten = {}]
  BY <1>0 DEF ApplyEncryption, Statement, Inv, TypeInv, TypeOK
<1>2. q \in Request /\ q.row \in Row
  BY <1>0, <1>1 DEF Inv, TypeInv, TypeOK, Shape, HasRow
<1>3. CASE req'[r] = Ended(q, "failed")
  BY <1>2, <1>3, ElsewhereReady DEF Ended, Request
<1>4. CASE req'[r] # Ended(q, "failed")
  <2>1. PICK w : w = [q.row EXCEPT !.env = q.env]
    OBVIOUS
  <2>2. w.env = q.env
    BY <1>2, <2>1 DEF Row
  <2>3. req'[r].pc = "save" /\ req'[r].row = w /\ req'[r].env = q.env
    BY <1>1, <1>2, <1>4, <2>1 DEF Request
  <2>4. QED BY <2>2, <2>3 DEF Ready
<1>5. QED BY <1>3, <1>4

\* UPDATE writes every metadata column from the copy.
LEMMA SaveReady ==
  ASSUME Inv, Serial, NEW r \in Requests, Ready(r), SaveContent(r)
  PROVE  Ready(r)'
<1>0. PICK q, c : q = req[r] /\ c = req[r].cid
  OBVIOUS
<1>1. /\ q.pc = "save"
      /\ \/ \E res : req'[r] = Ended(q, res)
         \/ /\ req'[r] = At(q, "drop")
            /\ content' = IF content[c] = None THEN content
                          ELSE [content EXCEPT ![c].meta = q.row.meta]
  BY <1>0 DEF SaveContent, Statement, Inv, TypeInv, TypeOK
<1>2. q \in Request /\ c \in Requests /\ InFlight(r)
  BY <1>0, <1>1 DEF Inv, TypeInv, TypeOK, Shape, HasRow, InFlight, Statements
<1>3. content[c] # None
  BY <1>0, <1>1, <1>2, NoneAssumption DEF Serial, Abreast
<1>4. ASSUME NEW res, req'[r] = Ended(q, res) PROVE Ready(r)'
  BY <1>2, <1>4, ElsewhereReady DEF Ended, Request
<1>5. CASE /\ req'[r] = At(q, "drop")
           /\ content' = [content EXCEPT ![c].meta = q.row.meta]
  <2>1. At(q, "drop").pc = "drop"
    BY <1>2 DEF At, Request
  <2>2. /\ req'[r].par = q.par /\ req'[r].cid = c /\ req'[r].row = q.row
        /\ req'[r].env = q.env /\ req'[r].pc = "drop"
    BY <1>0, <1>2, <1>5, <2>1, Carried
  <2>3. content'[c].meta = q.row.meta
    BY <1>2, <1>3, <1>5 DEF Inv, TypeInv, TypeOK, Row
  <2>4. q.par.op = "update" => q.row.env = q.env
    BY <1>0, <1>1 DEF Ready
  <2>5. QED BY <2>2, <2>3, <2>4 DEF Ready
<1>6. QED BY <1>1, <1>3, <1>4, <1>5

\* Before the first file of an upload there is none.
LEMMA DropReady ==
  ASSUME Inv, NEW r \in Requests, Ready(r), DropFiles(r)
  PROVE  Ready(r)'
<1>0. PICK q, c : q = req[r] /\ c = req[r].cid
  OBVIOUS
<1>1. /\ q.pc = "drop" /\ content' = content
      /\ \/ req'[r] = Ended(q, "failed")
         \/ files' = files \ FilesOf(c) /\ req'[r] = StoreFrom(q, 1)
  BY <1>0 DEF DropFiles, Statement, Inv, TypeInv, TypeOK
<1>2. q \in Request
  BY <1>0 DEF Inv, TypeInv, TypeOK
<1>3. content[c].meta = q.row.meta /\ (q.par.op = "update" => q.row.env = q.env)
  BY <1>0, <1>1 DEF Ready
<1>4. CASE req'[r] = Ended(q, "failed")
  BY <1>2, <1>4, ElsewhereReady DEF Ended, Request
<1>5. CASE files' = files \ FilesOf(c) /\ req'[r] = StoreFrom(q, 1)
  <2>1. /\ req'[r].par = q.par /\ req'[r].cid = c /\ req'[r].row = q.row
        /\ req'[r].env = q.env
    BY <1>0, <1>2, <1>5, Carried
  <2>2. CASE req'[r].pc = "put" /\ req'[r].next = 1
    <3>1. FilesOf(c)' = {}
      BY <1>5 DEF FilesOf
    <3>2. Numbered(c)' = {} /\ {<<r, n>> : n \in 1 .. (1 - 1)} = {}
      BY <3>1 DEF Numbered
    <3>3. QED BY <1>1, <1>3, <2>1, <2>2, <3>2 DEF Ready
  <2>3. CASE req'[r].pc # "put"
    <3>1. req'[r].pc \in {"undo", "done"}
      BY <1>2, <1>5, <2>3, StoreFromEnds
    <3>2. QED BY <3>1, ElsewhereReady
  <2>4. QED BY <1>2, <1>5, <2>2, <2>3, StoreFromCases, StoreErrorEnds
<1>6. QED BY <1>1, <1>4, <1>5

\* Every action keeps its request ready.
LEMMA StepReady ==
  ASSUME Inv, Serial, NEW r \in Requests, Ready(r), Step(r)
  PROVE  Ready(r)'
  BY CreateReady, InsertReady, PutReady, LoadReady, ListReady, ApplyReady, SaveReady,
     DropReady DEF Step

\* Without overlap every request is where its program says.
Underway == Begun /\ \A r \in Requests : Ready(r)

LEMMA AlwaysUnderway ==
  ASSUME Overlap = FALSE
  PROVE  Spec => []Underway
<1>1. Init => Underway
  BY DEF Init, Idle, Underway, Begun, Ready
<1>2. Inv /\ Inv' /\ Created /\ Serial /\ Underway /\ [Next]_vars => Underway'
  <2>1. ASSUME Inv, Inv', Created, Serial, Underway, NEW r \in Requests, Step(r)
        PROVE  Underway'
    <3>1. Lawful(r)
      BY <2>1, StepLawful DEF Inv
    <3>2. Orderly(r)
      BY <2>1, <3>1, StepOwn DEF Own
    <3>3. \A s \in Requests : Ready(s)'
      BY <2>1, <3>1, <3>2, OthersReady, StepReady DEF Underway
    <3>4. QED BY <2>1, <3>1, <3>3, BegunStays DEF Underway
  <2>2. ASSUME Inv, Underway, Crash PROVE Underway'
    <3>1. \A s \in Requests : req[s] \in Request
      BY <2>2 DEF Inv, TypeInv, TypeOK
    <3>2. \A s \in Requests : \/ req'[s] = req[s] /\ ~InFlight(s)
                              \/ req'[s].pc = "done" /\ req'[s].cid = req[s].cid
      BY <2>2, <3>1 DEF Crash, Ended, Request
    <3>3. Begun'
      BY <2>2, <3>1, <3>2 DEF Underway, Begun, Early, Request
    <3>4. \A s \in Requests : Ready(s)'
      BY <3>2 DEF Ready, InFlight, Statements
    <3>5. QED BY <3>3, <3>4 DEF Underway
  <2>3. ASSUME Underway, UNCHANGED vars PROVE Underway'
    BY <2>3 DEF vars, Underway, Begun, Ready, Numbered, FilesOf
  <2>4. QED BY <2>1, <2>2, <2>3 DEF Next, AllDone
<1>3. QED BY <1>1, <1>2, Invariant, AlwaysCreated, AlwaysSerial, PTL DEF Spec

-----------------------------------------------------------------------------
(* The catalogue that the tables and the requests stand for.               *)

\* The entry of a request that works on one is in the table, by Serial, and
\* the request is the only one that works on it.
LEMMA OneWorker ==
  ASSUME Inv, Serial, NEW r \in Requests, NEW s \in Requests, NEW c \in Requests,
         InFlight(r), InFlight(s), req[r].cid = c, req[s].cid = c
  PROVE  r = s
  BY NoneAssumption DEF Serial, SameSlug, Alone

\* A request that carries out its work holds an entry and a copy of its row.
LEMMA WorkerFlies ==
  ASSUME Inv, NEW r \in Requests, CarriesOut(r)
  PROVE  /\ InFlight(r) /\ req[r].cid \in Requests /\ req[r] \in Request
         /\ req[r].row \in Row /\ req[r].par \in Params
  BY DEF CarriesOut, InFlight, Statements, Inv, TypeInv, TypeOK, Shape, HasRow

\* Entries are not NULL.
LEMMA EntryIsThere ==
  ASSUME NEW meta \in [Fields -> Requests], NEW env \in Envelope \cup {None},
         NEW pages \in SUBSET (Requests \X Nat)
  PROVE  Entry(meta, env, pages) # None
<1>1. (IF env = None THEN None ELSE env.pass) \in Passphrases \cup {None}
  BY DEF Envelope
<1>2. Entry(meta, env, pages) \in Entries
  BY <1>1 DEF Entry, Entries
<1>3. QED BY <1>2, NoneAssumption

\* Files in the table have an uploader and a number.
LEMMA PagesType ==
  ASSUME Inv, NEW c \in Requests
  PROVE  Pages(c) \in SUBSET (Requests \X Nat)
  BY DEF Pages, FilesOf, File, Inv, TypeInv, TypeOK

\* What a request is about to make of an entry is one.
LEMMA TargetIsThere ==
  ASSUME Inv, NEW r \in Requests, NEW c \in Requests, CarriesOut(r)
  PROVE  Target(r, c) # None
<1>1. PICK q : q = req[r]
  OBVIOUS
<1>2. /\ q \in Request /\ q.row \in Row /\ q.par \in Params
  BY <1>1, WorkerFlies
<1>3. q.row.meta \in [Fields -> Requests] /\ q.row.env \in Envelope \cup {None}
      /\ q.env \in Envelope \cup {None}
  BY <1>2 DEF Row, Request
<1>4. q.par.upload # None =>
        {r} \X (1 .. Len(q.par.upload.paths)) \in SUBSET (Requests \X Nat)
  <2>1. q.par.upload # None => q.par.upload \in Upload
    BY <1>2 DEF Params
  <2>2. q.par.upload # None => Len(q.par.upload.paths) \in Nat
    BY <2>1 DEF Upload
  <2>3. QED BY <2>2
<1>5. PICK pages : pages = IF q.par.upload = None THEN Pages(c)
                           ELSE {r} \X (1 .. Len(q.par.upload.paths))
  OBVIOUS
<1>6. pages \in SUBSET (Requests \X Nat)
  BY <1>4, <1>5, PagesType
<1>7. PICK env : env = IF q.par.op = "create" THEN q.row.env ELSE q.env
  OBVIOUS
<1>8. env \in Envelope \cup {None}
  BY <1>3, <1>7
<1>9. Entry(q.row.meta, env, pages) # None
  BY <1>3, <1>6, <1>8, EntryIsThere
<1>10. QED BY <1>1, <1>5, <1>7, <1>9 DEF Target

\* What is on the shelf.
LEMMA ShelvedWork ==
  ASSUME Inv, Serial, NEW r \in Requests, NEW c \in Requests, WorksOn(r, c)
  PROVE  /\ content[c] # None
         /\ Shelved(c) = IF Hurt(c) THEN None ELSE Target(r, c)
<1>1. InFlight(r) /\ req[r].cid = c
  BY WorkerFlies DEF WorksOn
<1>2. content[c] # None
  BY <1>1, NoneAssumption DEF Serial, Abreast
<1>3. \A s \in Requests : WorksOn(s, c) => s = r
  BY <1>1, WorkerFlies, OneWorker DEF WorksOn
<1>4. (CHOOSE s \in Requests : WorksOn(s, c)) = r
  BY <1>3
<1>5. QED BY <1>2, <1>4 DEF Shelved

\* An entry is on the shelf when its row is in the table and nobody failed on it.
LEMMA ShelvedOrNot ==
  ASSUME Inv, Serial, NEW c \in Requests
  PROVE  Shelved(c) # None <=> content[c] # None /\ ~Hurt(c)
<1>1. ASSUME NEW r \in Requests, WorksOn(r, c)
      PROVE  Shelved(c) # None <=> content[c] # None /\ ~Hurt(c)
  BY <1>1, ShelvedWork, TargetIsThere DEF WorksOn
<1>2. ASSUME \A r \in Requests : ~WorksOn(r, c), content[c] # None, ~Hurt(c)
      PROVE  Shelved(c) # None
  <2>1. content[c] \in Row
    BY <1>2 DEF Inv, TypeInv, TypeOK
  <2>2. Standing(c) # None
    BY <2>1, PagesType, EntryIsThere DEF Standing, Row
  <2>3. QED BY <1>2, <2>2 DEF Shelved
<1>3. content[c] = None \/ Hurt(c) => Shelved(c) = None
  BY DEF Shelved
<1>4. QED BY <1>1, <1>2, <1>3

\* The catalogue's words for the entries at a slug.
LEMMA NamedAt ==
  ASSUME Inv, Serial, NEW slug
  PROVE  /\ Contents!Named(slug) = {c \in RowsAt(slug) : ~Hurt(c)}
         /\ Contents!Unsure(slug) = {c \in Requests : Hurt(c) /\ req[c].par.slug = slug}
<1>1. \A c \in Requests : content[c] # None => content[c].slug = req[c].par.slug
  BY DEF Serial, SameSlug
<1>2. \A c \in Requests : /\ Shelf[c] = Shelved(c) /\ Wanted[c] = req[c].par
  BY DEF Shelf, Wanted
<1>3. \A c \in Requests : Shelved(c) # None <=> content[c] # None /\ ~Hurt(c)
  BY ShelvedOrNot
<1>4. QED BY <1>1, <1>2, <1>3 DEF Contents!Named, Contents!Unsure, RowsAt, Lost

\* The catalogue and the tables agree on who owns an entry.
LEMMA MineAre ==
  ASSUME Inv, Serial, NEW r \in Requests
  PROVE  Contents!Mine(r) = {c \in RowsAt(req[r].par.slug) :
                               ~Hurt(c) /\ content[c].owner = req[r].par.owner}
<1>1. \A c \in Requests : Wanted[c] = req[c].par
  BY DEF Wanted
<1>2. \A c \in RowsAt(req[r].par.slug) : c \in Requests /\ content[c].owner = req[c].par.owner
  BY DEF RowsAt, Inv, Ownership, RowOwner
<1>3. QED BY <1>1, <1>2, NamedAt DEF Contents!Mine

-----------------------------------------------------------------------------
(* What a step shows of itself.                                            *)

\* A step leaves entry c as the catalogue has it.
Same(c) == (Hurt(c)' <=> Hurt(c)) /\ Shelved(c)' = Shelved(c)

\* Everybody else's answer, and every entry that r has not begun to work on.
LEMMA OthersAnswers ==
  ASSUME NEW r \in Requests, Lawful(r), NEW s \in Requests, s # r
  PROVE  AnswerOf(s)' = AnswerOf(s)
  BY DEF Lawful, LawfulRequest, AnswerOf, Failing, CarriesOut

\* An entry that r neither works on nor fails on stays as it was.
LEMMA SameElsewhere ==
  ASSUME NEW r \in Requests, Lawful(r), NEW c \in Requests,
         content'[c] = content[c], FilesOf(c)' = FilesOf(c),
         ~WorksOn(r, c), ~WorksOn(r, c)', Hurts(r, c)' <=> Hurts(r, c)
  PROVE  Same(c)
<1>1. \A s \in Requests \ {r} : req'[s] = req[s]
  BY DEF Lawful, LawfulRequest
<1>2. \A s \in Requests : Hurts(s, c)' <=> Hurts(s, c)
  BY <1>1 DEF Hurts, Failing
<1>3. Hurt(c)' <=> Hurt(c)
  BY <1>2 DEF Hurt
<1>4. \A s \in Requests : WorksOn(s, c)' <=> WorksOn(s, c)
  BY <1>1 DEF WorksOn, CarriesOut
<1>5. Pages(c)' = Pages(c)
  BY DEF Pages
<1>6. Standing(c)' = Standing(c)
  BY <1>5 DEF Standing, Entry
<1>7. ASSUME NEW s \in Requests, WorksOn(s, c)
      PROVE  Target(s, c)' = Target(s, c)
  <2>1. req'[s] = req[s]
    BY <1>1, <1>7
  <2>2. QED BY <1>5, <2>1 DEF Target, Entry
<1>8. CASE \E s \in Requests : WorksOn(s, c)
  <2>1. PICK w : w = CHOOSE s \in Requests : WorksOn(s, c)
    OBVIOUS
  <2>2. w \in Requests /\ WorksOn(w, c)
    BY <1>8, <2>1
  <2>3. w = (CHOOSE s \in Requests : WorksOn(s, c)')
    BY <1>4, <2>1
  <2>4. Target(w, c)' = Target(w, c)
    BY <1>7, <2>2
  <2>5. Shelved(c) = IF content[c] = None \/ Hurt(c) THEN None ELSE Target(w, c)
    BY <1>8, <2>1 DEF Shelved
  <2>6. Shelved(c)' = IF content'[c] = None \/ Hurt(c)' THEN None ELSE Target(w, c)'
    BY <1>4, <1>8, <2>3 DEF Shelved
  <2>7. QED BY <1>3, <2>4, <2>5, <2>6 DEF Same
<1>9. CASE ~ \E s \in Requests : WorksOn(s, c)
  <2>1. Shelved(c) = IF content[c] = None \/ Hurt(c) THEN None ELSE Standing(c)
    BY <1>9 DEF Shelved
  <2>2. Shelved(c)' = IF content'[c] = None \/ Hurt(c)' THEN None ELSE Standing(c)'
    BY <1>4, <1>9 DEF Shelved
  <2>3. QED BY <1>3, <1>6, <2>1, <2>2 DEF Same
<1>10. QED BY <1>8, <1>9

\* The catalogue as a whole does not move.
LEMMA Unmoved ==
  ASSUME \A s \in Requests : req'[s].par = req[s].par /\ AnswerOf(s)' = AnswerOf(s),
         \A c \in Requests : Same(c)
  PROVE  UNCHANGED <<Wanted, Answers, Shelf, Lost>>
<1>1. Wanted' = Wanted /\ Answers' = Answers
  BY DEF Wanted, Answers
<1>2. Shelf' = Shelf /\ Lost' = Lost
  BY DEF Same, Shelf, Lost
<1>3. QED BY <1>1, <1>2

\* A call in flight that has not failed is open.
LEMMA InFlightOpen ==
  ASSUME Inv, NEW r \in Requests, InFlight(r), req[r].pc # "undo"
  PROVE  /\ r \in Contents!Open /\ req[r].par # None /\ ~Failing(r)
         /\ AnswerOf(r) = IF CarriesOut(r) THEN "working" ELSE "none"
<1>1. req[r].par # None
  BY NoneAssumption DEF InFlight, Inv, TypeInv, Shape
<1>2. ~Failing(r) /\ req[r].pc # "done"
  BY DEF Failing, InFlight, Statements
<1>3. AnswerOf(r) = IF CarriesOut(r) THEN "working" ELSE "none"
  BY <1>2 DEF AnswerOf
<1>4. Wanted[r] = req[r].par /\ Answers[r] = AnswerOf(r)
  BY DEF Wanted, Answers
<1>5. QED BY <1>1, <1>2, <1>3, <1>4 DEF Contents!Open

\* The entry that a call works on is its caller's, unless an earlier failure has
\* put it in doubt.
LEMMA WorksOnMine ==
  ASSUME Inv, Serial, NEW r \in Requests, InFlight(r), NEW c \in Requests,
         req[r].cid = c, ~Hurt(c)
  PROVE  c \in Contents!Mine(r)
<1>1. content[c] # None
  BY NoneAssumption DEF Serial, Abreast
<1>2. content[c].slug = req[c].par.slug /\ req[c].par.slug = req[r].par.slug
  BY <1>1, NoneAssumption DEF Serial, SameSlug
<1>3. content[c].owner = req[c].par.owner /\ req[c].par.owner = req[r].par.owner
  BY <1>1, NoneAssumption DEF Inv, Ownership, RowOwner, SameOwner
<1>4. QED BY <1>1, <1>2, <1>3, MineAre DEF RowsAt

\* A statement that fails: the entry r was at work on is in doubt from now on, and
\* no other is.
LEMMA Fails ==
  ASSUME Inv, Serial, Created, NEW r \in Requests, Lawful(r),
         InFlight(r), req[r].pc # "undo", Failing(r)',
         req'[r].row = req[r].row,
         req[r].par.op = "create" \/ req'[r].cid = req[r].cid,
         \A c \in Requests : ~Hurts(r, c)' =>
           content'[c] = content[c] /\ FilesOf(c)' = FilesOf(c)
  PROVE  Contents!Fail({r}) /\ r \in Contents!Open
<1>1. /\ r \in Contents!Open /\ req[r].par # None /\ ~Failing(r)
  BY InFlightOpen
<1>2. \A s \in Requests : req'[s].par = req[s].par
  BY <1>1 DEF Lawful, LawfulRequest
<1>3. \A s \in Requests : AnswerOf(s)' = IF s = r THEN "failed" ELSE AnswerOf(s)
  BY OthersAnswers DEF AnswerOf
<1>4. ASSUME NEW c \in Requests, ~Hurts(r, c)' PROVE Same(c)
  <2>1. ~Hurts(r, c)
    BY <1>1 DEF Hurts
  <2>2. ~WorksOn(r, c)'
    BY DEF WorksOn, CarriesOut, Failing
  <2>3. ~WorksOn(r, c)
    <3>1. SUFFICES ASSUME WorksOn(r, c) PROVE Hurts(r, c)'
      BY <1>4
    <3>2. req[r].cid = c /\ req[r].row # None
      BY <3>1, WorkerFlies, NoneAssumption DEF WorksOn
    <3>3. req[r].par.op = "create" => c = r
      BY <1>1, <3>1, <3>2 DEF WorksOn, CarriesOut, Created, Creating
    <3>4. QED BY <1>2, <3>2, <3>3 DEF Hurts
  <2>4. QED BY <1>4, <2>1, <2>2, <2>3, SameElsewhere
<1>5. \A c \in Requests : Hurt(c)' <=> Hurt(c) \/ Hurts(r, c)'
  <2>1. \A s \in Requests \ {r} : req'[s] = req[s]
    BY DEF Lawful, LawfulRequest
  <2>2. \A s \in Requests \ {r}, c \in Requests : Hurts(s, c)' <=> Hurts(s, c)
    BY <2>1 DEF Hurts, Failing
  <2>3. \A c \in Requests : ~Hurts(r, c)
    BY <1>1 DEF Hurts
  <2>4. QED BY <2>2, <2>3 DEF Hurt
<1>6. PICK gone : gone = {c \in Requests : Hurts(r, c)' /\ ~Hurt(c)}
  OBVIOUS
<1>7. ASSUME NEW c \in gone PROVE c \in Contents!Risks(r)
  <2>1. c \in Requests /\ Hurts(r, c)' /\ ~Hurt(c)
    BY <1>6
  <2>2. Wanted[r].op = req[r].par.op
    BY DEF Wanted
  <2>3. CASE req[r].par.op = "create"
    BY <1>2, <2>1, <2>2, <2>3 DEF Hurts, Contents!Risks
  <2>4. CASE req[r].par.op # "create"
    <3>1. c = req[r].cid
      BY <1>2, <2>1, <2>4 DEF Hurts
    <3>2. QED BY <2>1, <2>2, <2>4, <3>1, WorksOnMine DEF Contents!Risks
  <2>5. QED BY <2>3, <2>4
<1>8. \A c \in Requests : Shelved(c)' = IF c \in gone THEN None ELSE Shelved(c)
  <2>1. \A c \in Requests : Hurts(r, c)' => Shelved(c)' = None
    BY <1>5 DEF Shelved
  <2>2. \A c \in Requests : Hurt(c) => Shelved(c) = None
    BY DEF Shelved
  <2>3. QED BY <1>4, <1>6, <2>1, <2>2 DEF Same
<1>9. /\ Wanted' = Wanted
      /\ Answers' = [s \in Requests |-> IF s \in {r} THEN "failed" ELSE Answers[s]]
      /\ Shelf' = [c \in Requests |-> IF c \in gone THEN None ELSE Shelf[c]]
      /\ Lost' = Lost \cup gone
  BY <1>2, <1>3, <1>5, <1>6, <1>8 DEF Wanted, Answers, Shelf, Lost
<1>10. gone \in SUBSET UNION {Contents!Risks(s) : s \in {r}}
  BY <1>7
<1>11. QED BY <1>1, <1>9, <1>10 DEF Contents!Fail

\* A statement that carries on with what the call has set out to do.
LEMMA CarriesOn ==
  ASSUME Inv, Serial, NEW r \in Requests, Lawful(r), NEW c \in Requests,
         WorksOn(r, c), WorksOn(r, c)', Target(r, c)' = Target(r, c),
         content'[c] # None, \A d \in Requests : d # c => content'[d] = content[d]
  PROVE  UNCHANGED <<Wanted, Answers, Shelf, Lost>>
<1>1. /\ InFlight(r) /\ req[r].pc # "undo" /\ req[r].cid = c /\ req'[r].cid = c
      /\ req'[r].pc # "undo" /\ req'[r].pc # "done"
  BY WorkerFlies DEF WorksOn, CarriesOut
<1>2. req[r].par # None /\ ~Failing(r) /\ AnswerOf(r) = "working"
  BY <1>1, InFlightOpen DEF WorksOn
<1>3. ~Failing(r)' /\ AnswerOf(r)' = "working"
  BY <1>1 DEF Failing, AnswerOf, WorksOn
<1>4. \A s \in Requests : req'[s].par = req[s].par /\ AnswerOf(s)' = AnswerOf(s)
  BY <1>2, <1>3, OthersAnswers DEF Lawful, LawfulRequest
<1>5. \A d \in Requests : ~Hurts(r, d) /\ ~Hurts(r, d)'
  BY <1>2, <1>3 DEF Hurts
<1>6. ASSUME NEW d \in Requests, d # c PROVE Same(d)
  <2>1. ~WorksOn(r, d) /\ ~WorksOn(r, d)'
    BY <1>1, <1>6 DEF WorksOn
  <2>2. FilesOf(d)' = FilesOf(d)
    BY <1>1, <1>6, OtherFiles
  <2>3. QED BY <1>5, <1>6, <2>1, <2>2, SameElsewhere
<1>7. \A s \in Requests \ {r} : req'[s] = req[s]
  BY DEF Lawful, LawfulRequest
<1>8. Same(c)
  <2>1. \A s \in Requests : Hurts(s, c)' <=> Hurts(s, c)
    BY <1>5, <1>7 DEF Hurts, Failing
  <2>2. Hurt(c)' <=> Hurt(c)
    BY <2>1 DEF Hurt
  <2>3. \A s \in Requests : WorksOn(s, c) => s = r
    BY <1>1, WorkerFlies, OneWorker DEF WorksOn
  <2>4. \A s \in Requests : WorksOn(s, c)' <=> s = r
    BY <1>7, <2>3 DEF WorksOn, CarriesOut
  <2>5. (CHOOSE s \in Requests : WorksOn(s, c)') = r
    BY <2>4
  <2>6. Shelved(c)' = IF Hurt(c)' THEN None ELSE Target(r, c)'
    BY <2>4, <2>5 DEF Shelved
  <2>7. Shelved(c) = IF Hurt(c) THEN None ELSE Target(r, c)
    BY ShelvedWork
  <2>8. QED BY <2>2, <2>6, <2>7 DEF Same
<1>9. QED BY <1>4, <1>6, <1>8, Unmoved

\* The last statement of a call leaves the entry as the call set out to make it.
LEMMA Replies ==
  ASSUME Inv, Serial, NEW r \in Requests, Lawful(r), NEW c \in Requests,
         WorksOn(r, c), req'[r].pc = "done", req'[r].result = "ok",
         Standing(c)' = Target(r, c),
         content'[c] # None, \A d \in Requests : d # c => content'[d] = content[d]
  PROVE  Contents!Reply(r)
<1>1. /\ InFlight(r) /\ req[r].pc # "undo" /\ req[r].cid = c
  BY WorkerFlies DEF WorksOn, CarriesOut
<1>2. req[r].par # None /\ ~Failing(r) /\ AnswerOf(r) = "working"
  BY <1>1, InFlightOpen DEF WorksOn
<1>3. ~Failing(r)' /\ AnswerOf(r)' = "ok" /\ ~CarriesOut(r)'
  BY DEF Failing, AnswerOf, CarriesOut
<1>4. \A s \in Requests : /\ req'[s].par = req[s].par
                          /\ AnswerOf(s)' = IF s = r THEN "ok" ELSE AnswerOf(s)
  BY <1>2, <1>3, OthersAnswers DEF Lawful, LawfulRequest
<1>5. \A d \in Requests : ~Hurts(r, d) /\ ~Hurts(r, d)'
  BY <1>2, <1>3 DEF Hurts
<1>6. ASSUME NEW d \in Requests, d # c PROVE Same(d)
  <2>1. ~WorksOn(r, d) /\ ~WorksOn(r, d)'
    BY <1>1, <1>3, <1>6 DEF WorksOn
  <2>2. FilesOf(d)' = FilesOf(d)
    BY <1>1, <1>6, OtherFiles
  <2>3. QED BY <1>5, <1>6, <2>1, <2>2, SameElsewhere
<1>7. \A s \in Requests \ {r} : req'[s] = req[s]
  BY DEF Lawful, LawfulRequest
<1>8. Same(c)
  <2>1. \A s \in Requests : Hurts(s, c)' <=> Hurts(s, c)
    BY <1>5, <1>7 DEF Hurts, Failing
  <2>2. Hurt(c)' <=> Hurt(c)
    BY <2>1 DEF Hurt
  <2>3. \A s \in Requests : WorksOn(s, c) => s = r
    BY <1>1, WorkerFlies, OneWorker DEF WorksOn
  <2>4. \A s \in Requests : ~WorksOn(s, c)'
    BY <1>3, <1>7, <2>3 DEF WorksOn, CarriesOut
  <2>5. Shelved(c)' = IF Hurt(c)' THEN None ELSE Standing(c)'
    BY <2>4 DEF Shelved
  <2>6. Shelved(c) = IF Hurt(c) THEN None ELSE Target(r, c)
    BY ShelvedWork
  <2>7. QED BY <2>2, <2>5, <2>6 DEF Same
<1>9. Wanted' = Wanted /\ Answers' = [Answers EXCEPT ![r] = "ok"] /\ Answers[r] = "working"
  BY <1>2, <1>4 DEF Wanted, Answers
<1>10. Shelf' = Shelf /\ Lost' = Lost
  BY <1>6, <1>8 DEF Same, Shelf, Lost
<1>11. QED BY <1>9, <1>10 DEF Contents!Reply

-----------------------------------------------------------------------------
(* Every action is a step of the catalogue.                                *)

Catalogued == Contents!Next \/ UNCHANGED <<Wanted, Answers, Shelf, Lost>>

\* The failure of one call is a step of the catalogue.
LEMMA FailsCatalogued ==
  ASSUME NEW r \in Requests, Contents!Fail({r}), r \in Contents!Open
  PROVE  Catalogued
<1>1. {r} \in SUBSET Contents!Open
  OBVIOUS
<1>2. Contents!Next
  BY <1>1 DEF Contents!Next
<1>3. QED BY <1>2 DEF Catalogued

\* A statement that only reads, and after which its call has begun nothing: all
\* entries stay as they are.
LEMMA OnlyAnswers ==
  ASSUME Inv, NEW r \in Requests, Lawful(r), UNCHANGED <<content, files>>,
         ~CarriesOut(r), ~CarriesOut(r)', ~Failing(r), ~Failing(r)'
  PROVE  Shelf' = Shelf /\ Lost' = Lost
<1>1. ASSUME NEW c \in Requests PROVE Same(c)
  <2>1. FilesOf(c)' = FilesOf(c)
    BY DEF FilesOf
  <2>2. ~WorksOn(r, c) /\ ~WorksOn(r, c)' /\ ~Hurts(r, c) /\ ~Hurts(r, c)'
    BY DEF WorksOn, Hurts
  <2>3. QED BY <2>1, <2>2, SameElsewhere
<1>2. QED BY <1>1 DEF Same, Shelf, Lost

\* A call is asked; one for a malformed slug is refused at once.
LEMMA CallCatalogued ==
  ASSUME Inv, Inv', NEW r \in Requests, Lawful(r), Call(r)
  PROVE  Catalogued
<1>1. PICK p \in Plans[r] : Make(r, p)
  BY DEF Call
<1>2. PICK q : q = [req[r] EXCEPT !.par = p]
  OBVIOUS
<1>3. p \in Params /\ req[r] \in Request /\ q \in Request /\ req[r].pc = "idle"
  <2>1. p \in Params
    BY PlansAssumption
  <2>2. req[r] \in Request /\ req[r].pc = "idle"
    BY <1>1 DEF Make, Inv, TypeInv, TypeOK
  <2>3. QED BY <1>2, <2>1, <2>2 DEF Request
<1>4. q.par = p
  BY <1>2, <1>3 DEF Request
<1>5. req'[r] = IF p.op # "create" THEN At(q, "load")
                ELSE IF p.slug \in ValidSlugs THEN At(q, "check")
                ELSE Ended(q, "rejected")
  BY <1>1, <1>2 DEF Make, Inv, TypeInv, TypeOK
<1>6. /\ At(q, "load").pc = "load" /\ At(q, "check").pc = "check"
      /\ Ended(q, "rejected").pc = "done" /\ Ended(q, "rejected").result = "rejected"
  BY <1>3 DEF At, Ended, Request
<1>7. req'[r].par = p
  BY <1>3, <1>4, <1>5, Carried
<1>8. \A s \in Requests \ {r} : req'[s] = req[s]
  BY DEF Lawful, LawfulRequest
<1>9. req[r].par = None
  BY <1>3 DEF Inv, Ownership, ParOnce
<1>10. /\ ~CarriesOut(r) /\ ~CarriesOut(r)' /\ ~Failing(r) /\ ~Failing(r)'
  BY <1>3, <1>5, <1>6 DEF CarriesOut, Failing
<1>11. UNCHANGED <<content, files>>
  BY <1>1 DEF Make
<1>12. Shelf' = Shelf /\ Lost' = Lost
  BY <1>10, <1>11, OnlyAnswers
<1>13. /\ AnswerOf(r) = "none"
       /\ AnswerOf(r)' = IF p.op = "create" /\ p.slug \notin ValidSlugs
                         THEN "refused" ELSE "none"
  BY <1>3, <1>5, <1>6, <1>10 DEF AnswerOf
<1>14. Wanted[r] = None /\ Wanted'[r] = p /\ Wanted' = [Wanted EXCEPT ![r] = Wanted'[r]]
  BY <1>7, <1>8, <1>9 DEF Wanted
<1>15. Answers' = IF p.op = "create" /\ p.slug \notin ValidSlugs
                  THEN [Answers EXCEPT ![r] = "refused"] ELSE Answers
  BY <1>13, OthersAnswers DEF Answers
<1>16. Contents!Ask(r)
  BY <1>12, <1>14, <1>15 DEF Contents!Ask
<1>17. QED BY <1>16 DEF Contents!Next, Catalogued

\* A call that is refused.
LEMMA Refuses ==
  ASSUME Inv, Serial, NEW r \in Requests, Lawful(r), UNCHANGED <<content, files>>,
         InFlight(r), req[r].pc # "undo", ~CarriesOut(r),
         req'[r].pc = "done", req'[r].result = "rejected",
         \/ /\ req[r].par.op = "create"
            /\ Contents!Named(req[r].par.slug) \cup Contents!Unsure(req[r].par.slug) # {}
         \/ /\ req[r].par.op = "update"
            /\ \A c \in Contents!Mine(r) : Contents!Forbidden(Wanted[r], Shelf[c].pass)
         \/ req[r].par.op = "delete" /\ Contents!Mine(r) = {}
  PROVE  Catalogued
<1>1. req[r].par # None /\ ~Failing(r) /\ AnswerOf(r) = "none"
  BY InFlightOpen
<1>2. ~Failing(r)' /\ ~CarriesOut(r)' /\ AnswerOf(r)' = "refused"
  BY DEF Failing, CarriesOut, AnswerOf
<1>3. Shelf' = Shelf /\ Lost' = Lost
  BY <1>1, <1>2, OnlyAnswers
<1>4. \A s \in Requests : req'[s].par = req[s].par
  BY <1>1 DEF Lawful, LawfulRequest
<1>5. Wanted' = Wanted /\ Answers' = [Answers EXCEPT ![r] = "refused"]
  BY <1>2, <1>4, OthersAnswers DEF Wanted, Answers
<1>6. Wanted[r] = req[r].par /\ Answers[r] = "none"
  BY <1>1 DEF Wanted, Answers
<1>7. Contents!Refuse(r)
  BY <1>1, <1>3, <1>5, <1>6 DEF Contents!Refuse, Contents!Asks
<1>8. QED BY <1>7 DEF Contents!Next, Catalogued

\* A statement that only leads to the next one before the call takes effect.
LEMMA Waits ==
  ASSUME Inv, NEW r \in Requests, Lawful(r), UNCHANGED <<content, files>>,
         InFlight(r), req[r].pc # "undo", ~CarriesOut(r),
         req'[r].pc \in {"insert", "remove"}
  PROVE  Catalogued
<1>1. req[r].par # None /\ ~Failing(r) /\ AnswerOf(r) = "none"
  BY InFlightOpen
<1>2. ~Failing(r)' /\ ~CarriesOut(r)' /\ AnswerOf(r)' = "none"
  BY DEF Failing, CarriesOut, AnswerOf
<1>3. Shelf' = Shelf /\ Lost' = Lost
  BY <1>1, <1>2, OnlyAnswers
<1>4. \A s \in Requests : req'[s].par = req[s].par /\ AnswerOf(s)' = AnswerOf(s)
  BY <1>1, <1>2, OthersAnswers DEF Lawful, LawfulRequest
<1>5. Wanted' = Wanted /\ Answers' = Answers
  BY <1>4 DEF Wanted, Answers
<1>6. QED BY <1>3, <1>5 DEF Catalogued

\* A slug is taken by an entry on the shelf or by one in doubt.
LEMMA CheckSlugCatalogued ==
  ASSUME Inv, Serial, Created, NEW r \in Requests, Lawful(r), CheckSlug(r)
  PROVE  Catalogued
<1>1. /\ req[r].pc = "check" /\ UNCHANGED <<content, files>>
      /\ \/ req'[r] = Ended(req[r], "failed")
         \/ /\ req'[r] = Ended(req[r], "rejected")
            /\ RowsAt(req[r].par.slug) # {}
         \/ req'[r] = [req[r] EXCEPT !.pc = "insert", !.row = NewRow(r, req[r].par)]
  BY DEF CheckSlug, Statement, Inv, TypeInv, TypeOK
<1>2. /\ req[r] \in Request /\ InFlight(r) /\ ~CarriesOut(r) /\ req[r].par.op = "create"
  BY <1>1
  DEF Inv, TypeInv, TypeOK, Shape, Statements, InFlight, CarriesOut
<1>3. CASE req'[r] = Ended(req[r], "failed")
  <2>1. req'[r].pc = "done" /\ req'[r].result = "failed" /\ req'[r].row = req[r].row
    BY <1>2, <1>3 DEF Ended, Request
  <2>2. Failing(r)'
    BY <2>1 DEF Failing
  <2>3. \A c \in Requests : content'[c] = content[c] /\ FilesOf(c)' = FilesOf(c)
    BY <1>1 DEF FilesOf
  <2>4. QED BY <1>1, <1>2, <2>1, <2>2, <2>3, Fails, FailsCatalogued
<1>4. CASE req'[r] = Ended(req[r], "rejected") /\ RowsAt(req[r].par.slug) # {}
  <2>1. req'[r].pc = "done" /\ req'[r].result = "rejected"
    BY <1>2, <1>4 DEF Ended, Request
  <2>2. PICK c \in RowsAt(req[r].par.slug) : TRUE
    BY <1>4
  <2>3. c \in Requests /\ req[c].par.slug = req[r].par.slug
    BY DEF RowsAt, Serial, SameSlug
  <2>4. c \in Contents!Named(req[r].par.slug) \cup Contents!Unsure(req[r].par.slug)
    BY <2>3, NamedAt
  <2>5. QED BY <1>1, <1>2, <2>1, <2>4, Refuses
<1>5. CASE req'[r] = [req[r] EXCEPT !.pc = "insert", !.row = NewRow(r, req[r].par)]
  <2>1. req'[r].pc = "insert"
    BY <1>2, <1>5 DEF Request
  <2>2. QED BY <1>1, <1>2, <2>1, Waits
<1>6. QED BY <1>1, <1>3, <1>4, <1>5

\* The INSERT publishes the entry, whatever of its files is still to come.
LEMMA InsertCatalogued ==
  ASSUME Inv, Serial, Underway, Created, NEW r \in Requests, Lawful(r), InsertContent(r)
  PROVE  Catalogued
<1>1. PICK q : q = [req[r] EXCEPT !.cid = r]
  OBVIOUS
<1>2. /\ req[r].pc = "insert" /\ files' = files
      /\ \/ req'[r] = Ended(req[r], "failed")
         \/ /\ content' = [content EXCEPT ![r] = req[r].row]
            /\ RowsAt(req[r].row.slug) = {} /\ req'[r] = StoreFrom(q, 1)
      /\ content' = content \/ content' = [content EXCEPT ![r] = req[r].row]
  BY <1>1 DEF InsertContent, Statement, Inv, TypeInv, TypeOK
<1>3. /\ req[r] \in Request /\ content[r] = None /\ req[r].par.op = "create"
      /\ req[r].par \in Params /\ req[r].par.upload \in Upload /\ req[r].row \in Row
      /\ InFlight(r) /\ ~CarriesOut(r)
  BY <1>2 DEF Inv, TypeInv, TypeOK, Shape, Uploads, Ownership, RowOwner, Early,
              InFlight, Statements, CarriesOut
<1>4. q \in Request /\ q.cid = r /\ q.row = req[r].row /\ q.par = req[r].par
  BY <1>1, <1>3 DEF Request
<1>5. req[r].row = NewRow(r, req[r].par)
  BY <1>2 DEF Underway, Ready
<1>6. \A d \in Requests : d # r => content'[d] = content[d] /\ FilesOf(d)' = FilesOf(d)
  BY <1>2 DEF FilesOf, Inv, TypeInv, TypeOK
<1>7. req[r].par # None /\ ~Failing(r) /\ AnswerOf(r) = "none"
  BY <1>2, <1>3, InFlightOpen
<1>8. req[r].row # None
  BY <1>3, NoneAssumption
<1>9. ASSUME Failing(r)', req'[r].row = req[r].row, req'[r].par = req[r].par
      PROVE  Catalogued
  <2>1. \A d \in Requests : ~Hurts(r, d)' => d # r
    BY <1>3, <1>8, <1>9 DEF Hurts
  <2>2. QED BY <1>2, <1>3, <1>6, <1>9, <2>1, Fails, FailsCatalogued
<1>10. CASE req'[r] = Ended(req[r], "failed")
  <2>1. req'[r].pc = "done" /\ req'[r].result = "failed"
    BY <1>3, <1>10 DEF Ended, Request
  <2>2. req'[r].row = req[r].row /\ req'[r].par = req[r].par
    BY <1>3, <1>10, Carried
  <2>3. QED BY <1>9, <2>1, <2>2 DEF Failing
<1>11. CASE /\ content' = [content EXCEPT ![r] = req[r].row]
            /\ RowsAt(req[r].row.slug) = {} /\ req'[r] = StoreFrom(q, 1)
  <2>1. /\ req'[r].par = req[r].par /\ req'[r].row = req[r].row /\ req'[r].cid = r
    BY <1>4, <1>11, Carried
  <2>2. CASE Failing(r)'
    BY <1>9, <2>1, <2>2
  <2>3. CASE ~Failing(r)'
    <3>1. \/ req'[r].pc = "put"
          \/ /\ req'[r].pc = "done" /\ req'[r].result = "ok"
             /\ ~(1 <= Len(req[r].par.upload.paths))
      <4>1. StoreError(q) # req'[r]
        BY <1>4, <2>3, StoreErrorEnds DEF Failing
      <4>2. QED BY <1>4, <1>11, <4>1, StoreFromCases
    <3>2. PICK pages : pages = {r} \X (1 .. Len(req[r].par.upload.paths))
      OBVIOUS
    <3>3. content'[r] = req[r].row
      BY <1>11 DEF Inv, TypeInv, TypeOK
    <3>4. \A s \in Requests \ {r} : req'[s] = req[s] /\ req[s].cid # r
      BY <1>2, NoneAssumption
      DEF Lawful, LawfulRequest, Underway, Begun, Early
    <3>5. ~Hurt(r) /\ ~Hurt(r)'
      <4>1. \A s \in Requests \ {r} : ~Hurts(s, r) /\ ~Hurts(s, r)'
        BY <3>4 DEF Hurts
      <4>2. QED BY <1>7, <2>3, <4>1 DEF Hurt, Hurts
    <3>6. Shelved(r)' = Entry(req[r].row.meta, req[r].row.env, pages)
      <4>1. \A s \in Requests \ {r} : ~WorksOn(s, r)'
        BY <3>4 DEF WorksOn
      <4>2. CASE req'[r].pc = "put"
        <5>1. \A s \in Requests : WorksOn(s, r)' <=> s = r
          BY <2>1, <4>1, <4>2 DEF WorksOn, CarriesOut
        <5>2. (CHOOSE s \in Requests : WorksOn(s, r)') = r
          BY <5>1
        <5>3. Shelved(r)' = Target(r, r)'
          BY <1>8, <3>3, <3>5, <5>1, <5>2 DEF Shelved
        <5>4. req[r].par.upload # None
          BY <1>3, NoneAssumption
        <5>5. QED BY <1>3, <2>1, <3>2, <5>3, <5>4 DEF Target
      <4>3. CASE req'[r].pc = "done" /\ ~(1 <= Len(req[r].par.upload.paths))
        <5>1. \A s \in Requests : ~WorksOn(s, r)'
          BY <4>1, <4>3 DEF WorksOn, CarriesOut
        <5>2. Shelved(r)' = Standing(r)'
          BY <1>8, <3>3, <3>5, <5>1 DEF Shelved
        <5>3. FilesOf(r)' = {}
          BY <1>2, <1>3 DEF FilesOf, Inv, Ownership, FileOwner
        <5>4. Pages(r)' = {}
          BY <5>3 DEF Pages
        <5>5. Len(req[r].par.upload.paths) = 0
          BY <1>3, <4>3 DEF Upload
        <5>6. pages = {}
          BY <3>2, <5>5
        <5>7. QED BY <3>3, <5>2, <5>4, <5>6 DEF Standing
      <4>4. QED BY <3>1, <4>2, <4>3
    <3>7. Shelved(r)' = Contents!Published(r)
      <4>1. PICK p : p = req[r].par
        OBVIOUS
      <4>2. Wanted[r] = p
        BY <4>1 DEF Wanted
      <4>3. /\ req[r].row.meta = [f \in Fields |-> r]
            /\ req[r].row.env = IF p.pass = None THEN None
                                ELSE [dek |-> r, pass |-> p.pass]
        BY <1>5, <4>1 DEF NewRow
      <4>4. p.pass # None => [dek |-> r, pass |-> p.pass] # None
        BY <1>3, <4>1, NoneAssumption DEF Params, Envelope
      <4>5. (IF req[r].row.env = None THEN None ELSE req[r].row.env.pass) = p.pass
        BY <4>3, <4>4
      <4>6. QED BY <3>2, <3>6, <4>1, <4>2, <4>3, <4>5
            DEF Contents!Published, Contents!Uploaded, Entry
    <3>8. ASSUME NEW d \in Requests, d # r PROVE Same(d)
      <4>1. ~WorksOn(r, d) /\ ~WorksOn(r, d)' /\ ~Hurts(r, d) /\ ~Hurts(r, d)'
        BY <1>3, <1>7, <2>1, <2>3, <3>8 DEF WorksOn, Hurts
      <4>2. QED BY <1>6, <3>8, <4>1, SameElsewhere
    <3>9. Shelf' = [Shelf EXCEPT ![r] = Contents!Published(r)] /\ Lost' = Lost
      BY <3>5, <3>7, <3>8 DEF Same, Shelf, Lost
    <3>10. AnswerOf(r)' \in {"working", "ok"}
      BY <2>3, <3>1 DEF AnswerOf, CarriesOut
    <3>11. \A s \in Requests : req'[s].par = req[s].par
      BY <2>1, <3>4
    <3>12. /\ Wanted' = Wanted /\ Answers' = [Answers EXCEPT ![r] = AnswerOf(r)']
           /\ Wanted[r] = req[r].par /\ Answers[r] = "none"
      BY <1>7, <3>11, OthersAnswers DEF Wanted, Answers
    <3>13. Contents!Named(Wanted[r].slug) = {}
      <4>1. req[r].row.slug = req[r].par.slug
        BY <1>2 DEF Serial, SameSlug
      <4>2. QED BY <1>11, <3>12, <4>1, NamedAt
    <3>14. Contents!Publish(r)
      BY <1>3, <1>7, <3>9, <3>10, <3>12, <3>13
      DEF Contents!Publish, Contents!Asks, Contents!Takes
    <3>15. QED BY <3>14 DEF Contents!Next, Catalogued
  <2>4. QED BY <2>2, <2>3
<1>12. QED BY <1>2, <1>10, <1>11

\* A failing statement of a call that carries out its work.
LEMMA WorkFails ==
  ASSUME Inv, Serial, Created, NEW r \in Requests, Lawful(r), NEW c \in Requests,
         WorksOn(r, c), Failing(r)', req'[r].row = req[r].row,
         \A d \in Requests : d # c => content'[d] = content[d]
  PROVE  Catalogued
<1>1. /\ InFlight(r) /\ req[r].pc # "undo" /\ req[r].cid = c /\ req[r].row # None
      /\ c # None
  BY WorkerFlies, NoneAssumption DEF WorksOn, CarriesOut
<1>2. req[r].par # None
  BY <1>1, InFlightOpen
<1>3. req'[r].cid = c /\ req'[r].par = req[r].par
  BY <1>1, <1>2 DEF Lawful, LawfulRequest
<1>4. req[r].par.op = "create" => c = r
  BY <1>1, <1>2 DEF WorksOn, CarriesOut, Created, Creating
<1>5. Hurts(r, c)'
  BY <1>1, <1>3, <1>4 DEF Hurts
<1>6. \A d \in Requests : ~Hurts(r, d)' => content'[d] = content[d] /\ FilesOf(d)' = FilesOf(d)
  BY <1>1, <1>5, OtherFiles
<1>7. QED BY <1>1, <1>3, <1>6, Fails, FailsCatalogued

\* Both ways of ending without success are failures.
LEMMA StoreErrorFails ==
  ASSUME NEW r \in Requests, req'[r] = StoreError(req[r]), req[r] \in Request
  PROVE  Failing(r)' /\ req'[r].row = req[r].row
  BY StoreErrorEnds, Carried DEF Failing

LEMMA EndedFails ==
  ASSUME NEW r \in Requests, req'[r] = Ended(req[r], "failed"), req[r] \in Request
  PROVE  Failing(r)' /\ req'[r].row = req[r].row
  BY DEF Failing, Ended, Request

\* Files come one by one; with the last the entry is what was to become of it.
LEMMA PutCatalogued ==
  ASSUME Inv, Serial, Underway, Created, NEW r \in Requests, Lawful(r), PutFile(r)
  PROVE  Catalogued
<1>0. PICK q, c : q = req[r] /\ c = req[r].cid
  OBVIOUS
<1>1. /\ q.pc = "put" /\ content' = content
      /\ \/ req'[r] = StoreError(q)
         \/ req'[r] = StoreFrom(q, q.next + 1) /\ files' = files \cup {NewFile(r, q)}
  BY <1>0 DEF PutFile, Statement, Inv, TypeInv, TypeOK
<1>2. /\ q \in Request /\ c \in Requests /\ q.par \in Params /\ q.par.upload \in Upload
      /\ q.next \in 1 .. Len(q.par.upload.paths)
      /\ q.par.op = "create" \/ q.par.op = "update"
      /\ InFlight(r) /\ WorksOn(r, c)
  BY <1>0, <1>1
  DEF Inv, TypeInv, TypeOK, Shape, HasRow, Uploads, InFlight, Statements, WorksOn, CarriesOut
<1>3. /\ content[c] # None /\ content[c].env = q.row.env
      /\ \A f \in FilesOf(c) : f.seals = Seal(q.row.env, <<>>)
  BY <1>0, <1>1, <1>2, NoneAssumption DEF Serial, Abreast
<1>4. /\ content[c].meta = q.row.meta /\ (q.par.op = "update" => q.row.env = q.env)
      /\ Numbered(c) = {<<r, n>> : n \in 1 .. (q.next - 1)}
  BY <1>0, <1>1 DEF Underway, Ready
<1>5. q.par.upload # None
  BY <1>2, NoneAssumption
<1>6. CASE req'[r] = StoreError(q)
  BY <1>0, <1>1, <1>2, <1>6, StoreErrorFails, WorkFails
<1>7. CASE req'[r] = StoreFrom(q, q.next + 1) /\ files' = files \cup {NewFile(r, q)}
  <2>1. /\ req'[r].par = q.par /\ req'[r].cid = c /\ req'[r].row = q.row
        /\ req'[r].env = q.env
    BY <1>0, <1>2, <1>7, Carried
  <2>2. CASE req'[r].pc = "put"
    <3>1. WorksOn(r, c)'
      BY <2>1, <2>2 DEF WorksOn, CarriesOut
    <3>2. Target(r, c)' = Target(r, c)
      BY <1>0, <1>5, <2>1 DEF Target
    <3>3. QED BY <1>1, <1>2, <1>3, <3>1, <3>2, CarriesOn DEF Catalogued
  <2>3. CASE /\ req'[r].pc = "done" /\ req'[r].result = "ok"
             /\ ~(q.next + 1 <= Len(q.par.upload.paths))
    <3>1. /\ NewFile(r, q).by = r /\ NewFile(r, q).n = q.next /\ NewFile(r, q).cid = c
          /\ NewFile(r, q).seals = Seal(q.row.env, <<>>)
      BY <1>0 DEF NewFile
    <3>2. FilesOf(c)' = FilesOf(c) \cup {NewFile(r, q)}
      BY <1>7, <3>1 DEF FilesOf
    <3>3. \A f \in FilesOf(c)' : f.seals = Seal(content'[c].env, <<>>)
      BY <1>1, <1>3, <3>1, <3>2
    <3>4. Pages(c)' = Numbered(c)'
      BY <3>3 DEF Pages, Numbered
    <3>5. Numbered(c)' = Numbered(c) \cup {<<r, q.next>>}
      BY <3>1, <3>2 DEF Numbered
    <3>6. q.next = Len(q.par.upload.paths)
      BY <1>2, <2>3 DEF Upload
    <3>7. (1 .. (q.next - 1)) \cup {q.next} = 1 .. q.next
      BY <1>2
    <3>8. Pages(c)' = {r} \X (1 .. Len(q.par.upload.paths))
      BY <1>4, <3>4, <3>5, <3>6, <3>7
    <3>9. Target(r, c) = Entry(q.row.meta, q.row.env, {r} \X (1 .. Len(q.par.upload.paths)))
      BY <1>0, <1>2, <1>4, <1>5 DEF Target
    <3>10. Standing(c)' = Entry(q.row.meta, q.row.env, Pages(c)')
      BY <1>1, <1>3, <1>4 DEF Standing, Entry
    <3>11. Standing(c)' = Target(r, c)
      BY <3>8, <3>9, <3>10
    <3>12. Contents!Reply(r)
      BY <1>1, <1>2, <1>3, <2>3, <3>11, Replies
    <3>13. QED BY <3>12 DEF Contents!Next, Catalogued
  <2>4. CASE req'[r] = StoreError(q)
    BY <1>6, <2>4
  <2>5. QED BY <1>2, <1>7, <2>2, <2>3, <2>4, StoreFromCases
<1>8. QED BY <1>1, <1>6, <1>7

\* An entry in doubt stays in doubt when its row is deleted after all.
LEMMA UndoCatalogued ==
  ASSUME Inv, Serial, Created, NEW r \in Requests, Lawful(r), UndoCreate(r)
  PROVE  Catalogued
<1>1. /\ req[r].pc = "undo" /\ req'[r] = Ended(req[r], "failed")
      /\ UNCHANGED <<content, files>> \/ DeleteRow(req[r].cid)
  BY DEF UndoCreate, Statement, Inv, TypeInv, TypeOK
<1>2. /\ req[r] \in Request /\ req[r].row \in Row /\ req[r].par.op = "create"
      /\ req[r].par # None
  BY <1>1, NoneAssumption DEF Inv, TypeInv, TypeOK, Shape, HasRow, Statements
<1>3. req[r].cid = r
  BY <1>1, <1>2 DEF Created, Creating
<1>4. /\ Failing(r) /\ Failing(r)' /\ ~CarriesOut(r) /\ ~CarriesOut(r)'
      /\ req'[r].row = req[r].row /\ req'[r].par = req[r].par /\ req'[r].cid = r
  BY <1>1, <1>2, <1>3 DEF Failing, CarriesOut, Ended, Request
<1>5. \A c \in Requests : (Hurts(r, c) <=> c = r) /\ (Hurts(r, c)' <=> c = r)
  BY <1>2, <1>4, NoneAssumption DEF Hurts
<1>6. ASSUME NEW c \in Requests, c # r PROVE Same(c)
  <2>1. content'[c] = content[c]
    BY <1>1, <1>3, <1>6 DEF DeleteRow, Inv, TypeInv, TypeOK
  <2>2. FilesOf(c)' = FilesOf(c)
    BY <1>3, <1>6, OtherFiles
  <2>3. ~WorksOn(r, c) /\ ~WorksOn(r, c)'
    BY <1>4 DEF WorksOn
  <2>4. QED BY <1>5, <2>1, <2>2, <2>3, SameElsewhere
<1>7. Same(r)
  <2>1. Hurt(r) /\ Hurt(r)'
    BY <1>5 DEF Hurt
  <2>2. QED BY <2>1 DEF Same, Shelved
<1>8. \A s \in Requests : req'[s].par = req[s].par /\ AnswerOf(s)' = AnswerOf(s)
  BY <1>2, <1>4, OthersAnswers DEF Lawful, LawfulRequest, AnswerOf
<1>9. QED BY <1>6, <1>7, <1>8, Unmoved DEF Catalogued

\* Reading and opening the payloads shows nowhere.
LEMMA ListCatalogued ==
  ASSUME Inv, Serial, Created, NEW r \in Requests, Lawful(r), ListFiles(r)
  PROVE  Catalogued
<1>0. PICK q, c : q = req[r] /\ c = req[r].cid
  OBVIOUS
<1>1. /\ q.pc = "list" /\ UNCHANGED <<content, files>>
      /\ \/ req'[r] = Ended(q, "failed")
         \/ \E rew : req'[r] = [q EXCEPT !.pc = "apply", !.rewritten = rew]
  BY <1>0 DEF ListFiles, Statement, Inv, TypeInv, TypeOK
<1>2. q \in Request /\ c \in Requests /\ WorksOn(r, c)
  BY <1>0, <1>1 DEF Inv, TypeInv, TypeOK, Shape, HasRow, WorksOn, CarriesOut
<1>3. CASE req'[r] = Ended(q, "failed")
  BY <1>0, <1>1, <1>2, <1>3, EndedFails, WorkFails
<1>4. CASE req'[r] # Ended(q, "failed")
  <2>1. /\ req'[r].pc = "apply" /\ req'[r].cid = c /\ req'[r].row = q.row
        /\ req'[r].env = q.env /\ req'[r].par = q.par
    BY <1>0, <1>1, <1>2, <1>4 DEF Request
  <2>2. WorksOn(r, c)'
    BY <2>1 DEF WorksOn, CarriesOut
  <2>3. Pages(c)' = Pages(c)
    BY <1>1 DEF Pages, FilesOf
  <2>4. Target(r, c)' = Target(r, c)
    BY <1>0, <2>1, <2>3 DEF Target, Entry
  <2>5. content[c] # None
    BY <1>2, ShelvedWork
  <2>6. QED BY <1>1, <1>2, <2>2, <2>4, <2>5, CarriesOn DEF Catalogued
<1>5. QED BY <1>3, <1>4

\* Saving the metadata is the last statement of an update without an upload.
LEMMA SaveCatalogued ==
  ASSUME Inv, Serial, Underway, Created, NEW r \in Requests, Lawful(r), SaveContent(r)
  PROVE  Catalogued
<1>0. PICK q, c : q = req[r] /\ c = req[r].cid
  OBVIOUS
<1>1. /\ q.pc = "save" /\ files' = files
      /\ content' = content \/ content' = [content EXCEPT ![c].meta = q.row.meta]
      /\ \/ req'[r] = Ended(q, "failed")
         \/ /\ q.par.upload = None /\ req'[r] = Ended(q, "ok")
            /\ content[c] # None => content' = [content EXCEPT ![c].meta = q.row.meta]
         \/ q.par.upload # None /\ req'[r] = At(q, "drop")
  BY <1>0 DEF SaveContent, Statement, Inv, TypeInv, TypeOK
<1>2. /\ q \in Request /\ c \in Requests /\ WorksOn(r, c) /\ q.par.op = "update"
      /\ q.row \in Row
  BY <1>0, <1>1 DEF Inv, TypeInv, TypeOK, Shape, HasRow, WorksOn, CarriesOut
<1>3. content[c] # None /\ content[c].env = q.row.env /\ q.row.env = q.env
  BY <1>0, <1>1, <1>2, NoneAssumption, WorkerFlies
  DEF Serial, Abreast, WorksOn, Underway, Ready
<1>4. content[c] \in Row
  BY <1>2, <1>3 DEF Inv, TypeInv, TypeOK
<1>5. \A d \in Requests : d # c => content'[d] = content[d]
  BY <1>1 DEF Inv, TypeInv, TypeOK
<1>6. content'[c].env = q.env /\ content'[c] # None
      /\ (content' = [content EXCEPT ![c].meta = q.row.meta]
            => content'[c].meta = q.row.meta)
  <2>1. CASE content' = content
    BY <1>2, <1>3, <1>4, <2>1 DEF Row, Inv, TypeInv, TypeOK
  <2>2. CASE content' = [content EXCEPT ![c].meta = q.row.meta]
    <3>1. content'[c] = [content[c] EXCEPT !.meta = q.row.meta]
      BY <1>2, <2>2 DEF Inv, TypeInv, TypeOK
    <3>2. q.row.meta \in [Fields -> Requests]
      BY <1>2 DEF Row
    <3>3. content'[c] \in Row
      BY <1>4, <3>1, <3>2 DEF Row
    <3>4. content'[c].env = content[c].env /\ content'[c].meta = q.row.meta
      BY <1>4, <3>1 DEF Row
    <3>5. QED BY <1>3, <3>3, <3>4, NoneAssumption
  <2>3. QED BY <1>1, <2>1, <2>2
<1>7. CASE req'[r] = Ended(q, "failed")
  BY <1>0, <1>2, <1>5, <1>7, EndedFails, WorkFails
<1>8. CASE /\ q.par.upload = None /\ req'[r] = Ended(q, "ok")
           /\ content' = [content EXCEPT ![c].meta = q.row.meta]
  <2>1. req'[r].pc = "done" /\ req'[r].result = "ok"
    BY <1>2, <1>8 DEF Ended, Request
  <2>2. Pages(c)' = Pages(c)
    BY <1>1, <1>3, <1>6 DEF Pages, FilesOf
  <2>3. Standing(c)' = Entry(q.row.meta, q.env, Pages(c))
    BY <1>6, <1>8, <2>2 DEF Standing, Entry
  <2>4. Standing(c)' = Target(r, c)
    BY <1>0, <1>2, <1>8, <2>3 DEF Target
  <2>5. Contents!Reply(r)
    BY <1>2, <1>5, <1>6, <2>1, <2>4, Replies
  <2>6. QED BY <2>5 DEF Contents!Next, Catalogued
<1>9. CASE q.par.upload # None /\ req'[r] = At(q, "drop")
  <2>1. req'[r].pc = "drop"
    BY <1>2, <1>9 DEF At, Request
  <2>2. /\ req'[r].cid = c /\ req'[r].row = q.row /\ req'[r].env = q.env
        /\ req'[r].par = q.par
    BY <1>0, <1>2, <1>9, Carried
  <2>3. WorksOn(r, c)'
    BY <2>1, <2>2 DEF WorksOn, CarriesOut
  <2>4. Target(r, c)' = Target(r, c)
    BY <1>0, <1>9, <2>2 DEF Target
  <2>5. QED BY <1>2, <1>5, <1>6, <2>3, <2>4, CarriesOn DEF Catalogued
<1>10. QED BY <1>1, <1>3, <1>7, <1>8, <1>9

\* Dropping the old files shows nowhere, unless the upload is empty.
LEMMA DropCatalogued ==
  ASSUME Inv, Serial, Underway, Created, NEW r \in Requests, Lawful(r), DropFiles(r)
  PROVE  Catalogued
<1>0. PICK q, c : q = req[r] /\ c = req[r].cid
  OBVIOUS
<1>1. /\ q.pc = "drop" /\ content' = content
      /\ \/ req'[r] = Ended(q, "failed")
         \/ files' = files \ FilesOf(c) /\ req'[r] = StoreFrom(q, 1)
  BY <1>0 DEF DropFiles, Statement, Inv, TypeInv, TypeOK
<1>2. /\ q \in Request /\ c \in Requests /\ WorksOn(r, c) /\ q.par.op = "update"
      /\ q.par.upload \in Upload
  BY <1>0, <1>1 DEF Inv, TypeInv, TypeOK, Shape, HasRow, Uploads, WorksOn, CarriesOut
<1>3. /\ content[c] # None /\ content[c].env = q.row.env /\ q.row.env = q.env
      /\ content[c].meta = q.row.meta
  BY <1>0, <1>1, <1>2, NoneAssumption, WorkerFlies
  DEF Serial, Abreast, WorksOn, Underway, Ready
<1>4. q.par.upload # None
  BY <1>2, NoneAssumption
<1>5. CASE req'[r] = Ended(q, "failed")
  BY <1>0, <1>1, <1>2, <1>5, EndedFails, WorkFails
<1>6. CASE files' = files \ FilesOf(c) /\ req'[r] = StoreFrom(q, 1)
  <2>1. /\ req'[r].par = q.par /\ req'[r].cid = c /\ req'[r].row = q.row
        /\ req'[r].env = q.env
    BY <1>0, <1>2, <1>6, Carried
  <2>2. CASE req'[r].pc = "put"
    <3>1. WorksOn(r, c)'
      BY <2>1, <2>2 DEF WorksOn, CarriesOut
    <3>2. Target(r, c)' = Target(r, c)
      BY <1>0, <1>4, <2>1 DEF Target
    <3>3. QED BY <1>1, <1>2, <1>3, <3>1, <3>2, CarriesOn DEF Catalogued
  <2>3. CASE /\ req'[r].pc = "done" /\ req'[r].result = "ok"
             /\ ~(1 <= Len(q.par.upload.paths))
    <3>1. FilesOf(c)' = {}
      BY <1>6 DEF FilesOf
    <3>2. Pages(c)' = {}
      BY <3>1 DEF Pages
    <3>3. Len(q.par.upload.paths) = 0
      BY <1>2, <2>3 DEF Upload
    <3>4. {r} \X (1 .. Len(q.par.upload.paths)) = {}
      BY <3>3
    <3>5. Standing(c)' = Target(r, c)
      BY <1>0, <1>1, <1>2, <1>3, <1>4, <3>2, <3>4 DEF Standing, Target, Entry
    <3>6. Contents!Reply(r)
      BY <1>1, <1>2, <1>3, <2>3, <3>5, Replies
    <3>7. QED BY <3>6 DEF Contents!Next, Catalogued
  <2>4. CASE req'[r] = StoreError(q)
    BY <1>0, <1>1, <1>2, <2>4, StoreErrorFails, WorkFails
  <2>5. QED BY <1>2, <1>6, <2>2, <2>3, <2>4, StoreFromCases
<1>7. QED BY <1>1, <1>5, <1>6

\* The one entry at the slug of a call that is being loaded.
LEMMA LoadSees ==
  ASSUME Inv, Serial, NEW r \in Requests, req[r].pc = "load",
         NEW c \in RowsAt(req[r].par.slug)
  PROVE  /\ c \in Requests /\ content[c] \in Row /\ content[c] # None
         /\ RowsAt(req[r].par.slug) = {c} /\ req[c].par.slug = req[r].par.slug
         /\ \A s \in Requests : ~WorksOn(s, c)
         /\ ~Hurt(c) => Shelf[c] = Standing(c)
<1>1. /\ c \in Requests /\ content[c] \in Row /\ content[c] # None
      /\ content[c].slug = req[r].par.slug
  BY DEF RowsAt, Inv, TypeInv, TypeOK
<1>2. RowsAt(req[r].par.slug) = {c}
  BY <1>1 DEF RowsAt, Inv, Ownership, SlugKey
<1>3. req[c].par.slug = req[r].par.slug
  BY <1>1 DEF Serial, SameSlug
<1>4. ASSUME NEW s \in Requests, WorksOn(s, c) PROVE FALSE
  <2>1. InFlight(s) /\ req[s].cid = c /\ req[s].pc # "load"
    BY <1>4, WorkerFlies DEF WorksOn, CarriesOut
  <2>2. req[s].par.slug = req[r].par.slug
    BY <1>1, <1>3, <2>1, NoneAssumption DEF Serial, SameSlug
  <2>3. InFlight(r)
    BY DEF InFlight, Statements
  <2>4. s = r
    BY <2>1, <2>2, <2>3 DEF Serial, Alone
  <2>5. QED BY <2>1, <2>4
<1>5. ~Hurt(c) => Shelf[c] = Standing(c)
  BY <1>1, <1>4 DEF Shelf, Shelved
<1>6. QED BY <1>1, <1>2, <1>3, <1>4, <1>5

\* The rules of applyEncryptionChange, told by passphrases alone.
PassOf(env) == IF env = None THEN None ELSE env.pass

LEMMA RulesOfEnvelopes ==
  ASSUME NEW r \in Requests, NEW p \in Params, NEW env \in Envelope \cup {None}
  PROVE  /\ Refused(p, env) <=> Contents!Forbidden(p, PassOf(env))
         /\ PassOf(NextEnv(r, p, env)) = Contents!NextPass(p, PassOf(env))
<1>1. \A w \in Passphrases : [dek |-> r, pass |-> w] # None
  BY NoneAssumption DEF Envelope
<1>2. /\ p.pass # None => p.pass \in Passphrases
      /\ p.newpass # None => p.newpass \in Passphrases
  BY DEF Params
<1>3. CASE env = None
  BY <1>1, <1>2, <1>3 DEF Refused, NextEnv, PassOf, Contents!Forbidden, Contents!NextPass
<1>4. CASE env # None
  <2>1. PassOf(env) = env.pass /\ env.pass # None
    BY <1>4, NoneAssumption DEF PassOf, Envelope
  <2>2. Refused(p, env) <=> Contents!Forbidden(p, PassOf(env))
    BY <1>4, <2>1 DEF Refused, Contents!Forbidden
  <2>3. PassOf(NextEnv(r, p, env)) = Contents!NextPass(p, PassOf(env))
    BY <1>1, <1>2, <1>4, <2>1 DEF PassOf, NextEnv, Contents!NextPass
  <2>4. QED BY <2>2, <2>3
<1>5. QED BY <1>3, <1>4

\* An update that is not refused takes effect when it is loaded: the shelf shows
\* what the statements to come will make of the entry.
LEMMA EditCatalogued ==
  ASSUME Inv, Serial, NEW r \in Requests, Lawful(r), UNCHANGED <<content, files>>,
         req[r].pc = "load", req[r].par.op = "update",
         NEW c \in RowsAt(req[r].par.slug), content[c].owner = req[r].par.owner,
         ~Refused(req[r].par, content[c].env), req'[r] = UpdateLoaded(r, req[r], c)
  PROVE  Catalogued
<1>1. PICK q, row, merged, new :
        /\ q = req[r] /\ row = content[c] /\ merged = Merged(r, q.par, row)
        /\ new = NextEnv(r, q.par, row.env)
  OBVIOUS
<1>2. PICK to : to = IF new = row.env THEN "save"
                     ELSE IF q.par.upload = None THEN "list" ELSE "apply"
  OBVIOUS
<1>3. req'[r] = [q EXCEPT !.pc = to, !.cid = c, !.row = merged, !.env = new]
  BY <1>1, <1>2 DEF UpdateLoaded
<1>4. /\ q \in Request /\ q.par \in Params /\ q.par # None
      /\ InFlight(r) /\ ~CarriesOut(r)
  BY <1>1, NoneAssumption
  DEF Inv, TypeInv, TypeOK, Shape, Statements, InFlight, CarriesOut
<1>5. /\ c \in Requests /\ row \in Row /\ row # None
      /\ RowsAt(q.par.slug) = {c} /\ req[c].par.slug = q.par.slug
      /\ \A s \in Requests : ~WorksOn(s, c)
      /\ ~Hurt(c) => Shelf[c] = Standing(c)
  BY <1>1, LoadSees
<1>6. /\ req'[r].pc = to /\ req'[r].cid = c /\ req'[r].row = merged
      /\ req'[r].env = new /\ req'[r].par = q.par
  BY <1>3, <1>4 DEF Request
<1>7. /\ ~Failing(r) /\ AnswerOf(r) = "none"
  BY <1>1, <1>4, InFlightOpen
<1>8. /\ ~Failing(r)' /\ AnswerOf(r)' = "working" /\ WorksOn(r, c)'
  BY <1>2, <1>6 DEF Failing, AnswerOf, CarriesOut, WorksOn
<1>9. \A s \in Requests : req'[s].par = req[s].par
  BY <1>1, <1>6 DEF Lawful, LawfulRequest
<1>10. /\ Wanted' = Wanted /\ Answers' = [Answers EXCEPT ![r] = "working"]
       /\ Wanted[r] = q.par /\ Answers[r] = "none"
  BY <1>1, <1>7, <1>8, <1>9, OthersAnswers DEF Wanted, Answers
<1>11. ASSUME NEW d \in Requests, d # c PROVE Same(d)
  <2>1. FilesOf(d)' = FilesOf(d)
    BY DEF FilesOf
  <2>2. ~WorksOn(r, d) /\ ~WorksOn(r, d)' /\ ~Hurts(r, d) /\ ~Hurts(r, d)'
    BY <1>4, <1>6, <1>7, <1>8, <1>11 DEF WorksOn, Hurts
  <2>3. QED BY <2>1, <2>2, SameElsewhere
<1>12. Hurt(c)' <=> Hurt(c)
  <2>1. \A s \in Requests \ {r} : req'[s] = req[s]
    BY DEF Lawful, LawfulRequest
  <2>2. \A s \in Requests : Hurts(s, c)' <=> Hurts(s, c)
    BY <1>7, <1>8, <2>1 DEF Hurts, Failing
  <2>3. QED BY <2>2 DEF Hurt
<1>13. CASE Hurt(c)
  <2>1. Same(c)
    BY <1>12, <1>13 DEF Same, Shelved
  <2>2. Shelf' = Shelf /\ Lost' = Lost
    BY <1>11, <2>1 DEF Same, Shelf, Lost
  <2>3. Contents!Named(q.par.slug) = {} /\ c \in Contents!Unsure(q.par.slug)
    BY <1>5, <1>13, NamedAt
  <2>4. Contents!Salvage(r)
    BY <1>1, <1>4, <1>10, <2>2, <2>3
    DEF Contents!Salvage, Contents!Asks, Contents!Takes
  <2>5. QED BY <2>4 DEF Contents!Next, Catalogued
<1>14. CASE ~Hurt(c)
  <2>1. /\ row.env \in Envelope \cup {None} /\ row.meta \in [Fields -> Requests]
        /\ Standing(c) = [meta |-> row.meta, pass |-> PassOf(row.env),
                          pages |-> Pages(c)]
    BY <1>1, <1>5 DEF Row, Standing, Entry, PassOf
  <2>2. c \in Contents!Mine(r)
    BY <1>1, <1>5, <1>14, MineAre
  <2>3. /\ Shelf[c] = Standing(c) /\ Shelf[c].pass = PassOf(row.env)
        /\ Shelf[c].meta = row.meta /\ Shelf[c].pages = Pages(c)
    BY <1>5, <1>14, <2>1
  <2>4. ~Contents!Forbidden(Wanted[r], Shelf[c].pass)
    BY <1>1, <1>4, <1>10, <2>1, <2>3, RulesOfEnvelopes
  <2>5. Shelved(c)' = Target(r, c)'
    <3>1. \A s \in Requests \ {r} : req'[s] = req[s]
      BY DEF Lawful, LawfulRequest
    <3>2. \A s \in Requests : WorksOn(s, c)' <=> s = r
      BY <1>5, <1>8, <3>1 DEF WorksOn, CarriesOut
    <3>3. (CHOOSE s \in Requests : WorksOn(s, c)') = r
      BY <3>2
    <3>4. content'[c] # None /\ ~Hurt(c)'
      BY <1>1, <1>5, <1>12, <1>14
    <3>5. QED BY <3>2, <3>3, <3>4 DEF Shelved
  <2>6. Target(r, c)' = [meta |-> merged.meta, pass |-> PassOf(new),
                         pages |-> IF q.par.upload = None THEN Pages(c)
                                   ELSE {r} \X (1 .. Len(q.par.upload.paths))]
    <3>1. Pages(c)' = Pages(c)
      BY DEF Pages, FilesOf
    <3>2. QED BY <1>1, <1>6, <3>1 DEF Target, Entry, PassOf
  <2>7. merged.meta = [f \in Fields |-> IF f \in q.par.sets THEN r ELSE row.meta[f]]
    BY <1>1, <1>5 DEF Merged, Row
  <2>8. PassOf(new) = Contents!NextPass(q.par, PassOf(row.env))
    BY <1>1, <1>4, <2>1, RulesOfEnvelopes
  <2>9. Shelved(c)' = Contents!Edited(r, Shelf[c])
    BY <1>10, <2>3, <2>5, <2>6, <2>7, <2>8 DEF Contents!Edited, Contents!Uploaded
  <2>10. Shelf' = [Shelf EXCEPT ![c] = Contents!Edited(r, Shelf[c])] /\ Lost' = Lost
    BY <1>5, <1>11, <1>12, <2>9 DEF Same, Shelf, Lost
  <2>11. Contents!Edit(r)
    BY <1>1, <1>4, <1>10, <2>2, <2>4, <2>10
    DEF Contents!Edit, Contents!Asks, Contents!Takes
  <2>12. QED BY <2>11 DEF Contents!Next, Catalogued
<1>15. QED BY <1>13, <1>14

\* A load refuses, or takes effect, or leads to the DELETE.
LEMMA LoadCatalogued ==
  ASSUME Inv, Serial, Created, NEW r \in Requests, Lawful(r), LoadContent(r)
  PROVE  Catalogued
<1>1. PICK q, own : /\ q = req[r]
                    /\ own = {c \in RowsAt(q.par.slug) : content[c].owner = q.par.owner}
  OBVIOUS
<1>2. /\ q.pc = "load" /\ UNCHANGED <<content, files>>
      /\ \/ req'[r] = Ended(q, "failed")
         \/ req'[r] = Ended(q, "rejected") /\ own = {}
         \/ \E c \in own : req'[r] =
              IF q.par.op = "update" THEN UpdateLoaded(r, q, c)
              ELSE [q EXCEPT !.pc = "remove", !.cid = c, !.row = content[c]]
  BY <1>1 DEF LoadContent, Statement, Inv, TypeInv, TypeOK
<1>3. /\ q \in Request /\ q.par \in Params /\ q.par # None /\ q.cid = None
      /\ InFlight(r) /\ ~CarriesOut(r)
  BY <1>1, <1>2, NoneAssumption
  DEF Inv, TypeInv, TypeOK, Shape, Statements, InFlight, CarriesOut
<1>4. q.par.op \in {"update", "delete"}
  BY <1>1, <1>2, <1>3 DEF Created, Creating, Params
<1>5. /\ Ended(q, "rejected").pc = "done" /\ Ended(q, "rejected").result = "rejected"
  BY <1>3 DEF Ended, Request
<1>6. /\ Wanted[r] = q.par
      /\ Contents!Mine(r) = {c \in own : ~Hurt(c)}
  BY <1>1, MineAre DEF Wanted
<1>7. CASE req'[r] = Ended(q, "failed")
  <2>1. Failing(r)' /\ req'[r].row = req[r].row
    BY <1>1, <1>3, <1>7, EndedFails
  <2>2. req'[r].cid = req[r].cid
    BY <1>1, <1>3, <1>7, Carried
  <2>3. \A c \in Requests : content'[c] = content[c] /\ FilesOf(c)' = FilesOf(c)
    BY <1>2 DEF FilesOf
  <2>4. QED BY <1>1, <1>2, <1>3, <2>1, <2>2, <2>3, Fails, FailsCatalogued
<1>8. CASE req'[r] = Ended(q, "rejected") /\ own = {}
  <2>1. Contents!Mine(r) = {}
    BY <1>6, <1>8
  <2>2. QED BY <1>1, <1>2, <1>3, <1>4, <1>5, <1>8, <2>1, Refuses
<1>9. ASSUME NEW c \in own, q.par.op = "delete",
             req'[r] = [q EXCEPT !.pc = "remove", !.cid = c, !.row = content[c]]
      PROVE  Catalogued
  <2>1. req'[r].pc = "remove"
    BY <1>3, <1>9 DEF Request
  <2>2. QED BY <1>1, <1>2, <1>3, <2>1, Waits
<1>10. ASSUME NEW c \in own, q.par.op = "update", req'[r] = UpdateLoaded(r, q, c)
       PROVE  Catalogued
  <2>1. c \in RowsAt(q.par.slug) /\ content[c].owner = q.par.owner
    BY <1>1
  <2>2. CASE ~Refused(q.par, content[c].env)
    BY <1>1, <1>2, <1>10, <2>1, <2>2, EditCatalogued
  <2>3. CASE Refused(q.par, content[c].env)
    <3>1. req'[r] = Ended(q, "rejected")
      BY <1>10, <2>3 DEF UpdateLoaded
    <3>2. /\ content[c] \in Row /\ RowsAt(q.par.slug) = {c}
          /\ ~Hurt(c) => Shelf[c] = Standing(c)
      BY <1>1, <1>2, <2>1, LoadSees
    <3>3. ASSUME NEW d \in Contents!Mine(r)
          PROVE  Contents!Forbidden(Wanted[r], Shelf[d].pass)
      <4>1. d = c /\ ~Hurt(c)
        BY <1>1, <1>6, <3>2
      <4>2. Shelf[d].pass = PassOf(content[c].env)
        BY <3>2, <4>1 DEF Standing, Entry, PassOf
      <4>3. content[c].env \in Envelope \cup {None}
        BY <3>2 DEF Row
      <4>4. QED BY <1>3, <1>6, <2>3, <4>2, <4>3, RulesOfEnvelopes
    <3>4. QED BY <1>1, <1>2, <1>3, <1>5, <1>10, <3>1, <3>3, Refuses
  <2>4. QED BY <2>2, <2>3
<1>11. QED BY <1>2, <1>4, <1>7, <1>8, <1>9, <1>10

\* A sequence with nothing behind its head.
LEMMA OneElement ==
  ASSUME NEW S, NEW s \in Seq(S), s # <<>>, Tail(s) = <<>>
  PROVE  s = <<Head(s)>>
<1>1. Len(Tail(s)) = Len(s) - 1 /\ Len(s) \in Nat
  OBVIOUS
<1>2. Len(s) = 1
  <2>1. Len(<<>>) = 0
    OBVIOUS
  <2>2. Len(Tail(s)) = 0
    BY <2>1
  <2>3. QED BY <1>1, <2>2
<1>3. s \in [1 .. 1 -> S]
  BY <1>2, LenProperties
<1>4. s = <<s[1]>>
  BY <1>3
<1>5. Head(s) = s[1]
  OBVIOUS
<1>6. QED BY <1>4, <1>5

\* A payload comes under the new envelope exactly when it was under the old one.
LEMMA RewriteReads ==
  ASSUME NEW old \in Envelope \cup {None}, NEW new \in Envelope \cup {None},
         NEW f \in File, Opens(old, f)
  PROVE  LET g == Rewrite(old, new, f) IN
         /\ g.by = f.by /\ g.n = f.n /\ g.cid = f.cid
         /\ g.seals = Seal(new, <<>>) <=> f.seals = Seal(old, <<>>)
<1>1. PICK t : t = IF old = None THEN f.seals ELSE Tail(f.seals)
  OBVIOUS
<1>2. /\ f.seals \in Seq(Requests)
      /\ old # None => /\ old.dek \in Requests
                       /\ f.seals # <<>> /\ Head(f.seals) = old.dek
      /\ new # None => new.dek \in Requests
  BY DEF File, Opens, Envelope
<1>3. t \in Seq(Requests)
  BY <1>1, <1>2
<1>4. Seal(new, t) = Seal(new, <<>>) <=> t = <<>>
  <2>1. CASE new = None
    BY <2>1 DEF Seal
  <2>2. CASE new # None
    <3>1. Len(<<new.dek>> \o t) = 1 + Len(t) /\ Len(<<new.dek>> \o <<>>) = 1
      BY <1>2, <1>3, <2>2
    <3>2. Seal(new, t) = <<new.dek>> \o t /\ Seal(new, <<>>) = <<new.dek>> \o <<>>
      BY <2>2 DEF Seal
    <3>3. Len(t) = 0 => t = <<>>
      BY <1>3
    <3>4. Len(t) \in Nat
      BY <1>3
    <3>5. QED BY <3>1, <3>2, <3>3, <3>4
  <2>3. QED BY <2>1, <2>2
<1>5. t = <<>> <=> f.seals = Seal(old, <<>>)
  <2>1. CASE old = None
    BY <1>1, <2>1 DEF Seal
  <2>2. CASE old # None
    <3>1. t = Tail(f.seals)
      BY <1>1, <2>2
    <3>2. Seal(old, <<>>) = <<old.dek>>
      BY <1>2, <2>2 DEF Seal
    <3>3. ASSUME Tail(f.seals) = <<>> PROVE f.seals = <<Head(f.seals)>>
      BY <1>2, <2>2, <3>3, OneElement
    <3>4. Tail(<<old.dek>>) = <<>>
      BY <1>2, <2>2
    <3>5. QED BY <1>2, <2>2, <3>1, <3>2, <3>3, <3>4
  <2>3. QED BY <2>1, <2>2
<1>6. LET g == Rewrite(old, new, f) IN
      g.by = f.by /\ g.n = f.n /\ g.cid = f.cid /\ g.seals = Seal(new, t)
  BY <1>1 DEF Rewrite, File
<1>7. QED BY <1>4, <1>5, <1>6

\* The transaction leaves readable what was readable.
LEMMA ApplyReads ==
  ASSUME Inv, NEW c \in Requests, NEW old \in Envelope \cup {None},
         NEW new \in Envelope \cup {None}, NEW rew,
         content[c].env = old, content'[c].env = new,
         rew = {Rewrite(old, new, f) : f \in FilesOf(c)},
         \A f \in FilesOf(c) : Opens(old, f),
         files' = {f \in files : \A g \in rew : ~SameFile(f, g)}
                    \cup {g \in rew : \E f \in files : SameFile(f, g)}
  PROVE  Pages(c)' = Pages(c)
<1>1. FilesOf(c) \subseteq File /\ FilesOf(c) \subseteq files
      /\ \A f \in FilesOf(c) : f.cid = c
  BY DEF FilesOf, Inv, TypeInv, TypeOK
<1>2. \A f \in FilesOf(c) :
        LET g == Rewrite(old, new, f) IN
        /\ g.by = f.by /\ g.n = f.n /\ g.cid = f.cid
        /\ g.seals = Seal(new, <<>>) <=> f.seals = Seal(old, <<>>)
  BY <1>1, RewriteReads
<1>3. FilesOf(c)' = rew
  <2>1. ASSUME NEW g \in rew PROVE g \in files' /\ g.cid = c
    <3>1. PICK f \in FilesOf(c) : g = Rewrite(old, new, f)
      OBVIOUS
    <3>2. SameFile(f, g)
      BY <1>2, <3>1 DEF SameFile
    <3>3. QED BY <1>1, <1>2, <3>1, <3>2
  <2>2. ASSUME NEW g \in files', g.cid = c PROVE g \in rew
    <3>1. SUFFICES ASSUME g \in FilesOf(c), \A h \in rew : ~SameFile(g, h)
                   PROVE  FALSE
      BY <2>2 DEF FilesOf
    <3>2. SameFile(g, Rewrite(old, new, g))
      BY <1>2, <3>1 DEF SameFile
    <3>3. QED BY <3>1, <3>2
  <2>3. QED BY <2>1, <2>2 DEF FilesOf
<1>4. Pages(c)' = {<<g.by, g.n>> : g \in {h \in rew : h.seals = Seal(new, <<>>)}}
  BY <1>3 DEF Pages
<1>5. Pages(c) =
        {<<f.by, f.n>> : f \in {h \in FilesOf(c) : h.seals = Seal(old, <<>>)}}
  BY DEF Pages
<1>6. ASSUME NEW x \in Pages(c) PROVE x \in Pages(c)'
  <2>1. PICK f \in FilesOf(c) : f.seals = Seal(old, <<>>) /\ x = <<f.by, f.n>>
    BY <1>5
  <2>2. QED BY <1>2, <1>4, <2>1
<1>7. ASSUME NEW x \in Pages(c)' PROVE x \in Pages(c)
  <2>1. PICK g \in rew : g.seals = Seal(new, <<>>) /\ x = <<g.by, g.n>>
    BY <1>4
  <2>2. PICK f \in FilesOf(c) : g = Rewrite(old, new, f)
    BY <2>1
  <2>3. QED BY <1>2, <1>5, <2>1, <2>2
<1>8. QED BY <1>6, <1>7

\* The transaction is not seen: what could be read can be read afterwards.
LEMMA ApplyCatalogued ==
  ASSUME Inv, Serial, Underway, Created, NEW r \in Requests, Lawful(r), ApplyEncryption(r)
  PROVE  Catalogued
<1>0. PICK q, c : q = req[r] /\ c = req[r].cid
  OBVIOUS
<1>1. /\ q.pc = "apply"
      /\ content' = content \/ content' = IF content[c] = None THEN content
                                          ELSE [content EXCEPT ![c].env = q.env]
      /\ \/ req'[r] = Ended(q, "failed")
         \/ /\ req'[r] = [q EXCEPT !.pc = "save", !.row.env = q.env, !.rewritten = {}]
            /\ content' = IF content[c] = None THEN content
                          ELSE [content EXCEPT ![c].env = q.env]
            /\ files' = {f \in files : \A g \in q.rewritten : ~SameFile(f, g)}
                          \cup {g \in q.rewritten : \E f \in files : SameFile(f, g)}
  BY <1>0 DEF ApplyEncryption, Statement, Inv, TypeInv, TypeOK
<1>2. /\ q \in Request /\ c \in Requests /\ WorksOn(r, c) /\ q.par.op = "update"
      /\ q.row \in Row
  BY <1>0, <1>1 DEF Inv, TypeInv, TypeOK, Shape, HasRow, WorksOn, CarriesOut
<1>3. content[c] # None /\ content[c].env = q.row.env
  BY <1>0, <1>2, NoneAssumption, WorkerFlies DEF Serial, Abreast, WorksOn
<1>4. content[c] \in Row
  BY <1>2, <1>3 DEF Inv, TypeInv, TypeOK
<1>5. \A d \in Requests : d # c => content'[d] = content[d]
  BY <1>1 DEF Inv, TypeInv, TypeOK
<1>6. CASE req'[r] = Ended(q, "failed")
  BY <1>0, <1>2, <1>5, <1>6, EndedFails, WorkFails
<1>7. CASE /\ req'[r] = [q EXCEPT !.pc = "save", !.row.env = q.env, !.rewritten = {}]
           /\ content' = [content EXCEPT ![c].env = q.env]
           /\ files' = {f \in files : \A g \in q.rewritten : ~SameFile(f, g)}
                         \cup {g \in q.rewritten : \E f \in files : SameFile(f, g)}
  <2>1. PICK w : w = [q.row EXCEPT !.env = q.env]
    OBVIOUS
  <2>2. w.meta = q.row.meta
    BY <1>2, <2>1 DEF Row
  <2>3. /\ req'[r].pc = "save" /\ req'[r].row = w /\ req'[r].env = q.env
        /\ req'[r].cid = c /\ req'[r].par = q.par
    BY <1>0, <1>2, <1>7, <2>1 DEF Request
  <2>4. /\ content'[c].env = q.env /\ content'[c] # None
    <3>1. content'[c] = [content[c] EXCEPT !.env = q.env]
      BY <1>2, <1>7 DEF Inv, TypeInv, TypeOK
    <3>2. content'[c] \in Row /\ content'[c].env = q.env
      BY <1>2, <1>4, <3>1 DEF Row, Request
    <3>3. QED BY <3>2, NoneAssumption
  <2>5. WorksOn(r, c)'
    BY <2>3 DEF WorksOn, CarriesOut
  <2>6. q.par.upload = None => Pages(c)' = Pages(c)
    <3>1. q.row.env \in Envelope \cup {None} /\ q.env \in Envelope \cup {None}
      BY <1>2 DEF Row, Request
    <3>2. q.par.upload = None =>
            /\ q.rewritten = {Rewrite(q.row.env, q.env, f) : f \in FilesOf(c)}
            /\ \A f \in FilesOf(c) : Opens(q.row.env, f)
      BY <1>0, <1>1 DEF Underway, Ready
    <3>3. QED BY <1>2, <1>3, <1>7, <2>4, <3>1, <3>2, ApplyReads
  <2>7. Target(r, c)' = Target(r, c)
    BY <1>0, <1>2, <2>2, <2>3, <2>6 DEF Target, Entry
  <2>8. QED BY <1>2, <1>5, <2>4, <2>5, <2>7, CarriesOn DEF Catalogued
<1>8. QED BY <1>1, <1>3, <1>6, <1>7

\* The DELETE withdraws the entry; one in doubt is gone for good.
LEMMA DeleteCatalogued ==
  ASSUME Inv, Serial, Created, NEW r \in Requests, Lawful(r), DeleteContent(r)
  PROVE  Catalogued
<1>0. PICK q, c : q = req[r] /\ c = req[r].cid
  OBVIOUS
<1>1. /\ q.pc = "remove"
      /\ UNCHANGED <<content, files>> \/ DeleteRow(c)
      /\ \/ req'[r] = Ended(q, "failed")
         \/ req'[r] = Ended(q, "ok") /\ DeleteRow(c)
  BY <1>0 DEF DeleteContent, Statement, Inv, TypeInv, TypeOK
<1>2. /\ q \in Request /\ c \in Requests /\ q.row \in Row /\ q.row # None
      /\ InFlight(r) /\ ~CarriesOut(r) /\ q.par # None
  BY <1>0, <1>1, NoneAssumption
  DEF Inv, TypeInv, TypeOK, Shape, HasRow, Statements, InFlight, CarriesOut
<1>3. content[c] # None /\ q.par.op = "delete"
  BY <1>0, <1>1, <1>2, NoneAssumption DEF Serial, Abreast
<1>4. \A d \in Requests : d # c => content'[d] = content[d]
  BY <1>1 DEF DeleteRow, Inv, TypeInv, TypeOK
<1>5. \A d \in Requests : d # c => FilesOf(d)' = FilesOf(d)
  BY <1>0, OtherFiles
<1>6. /\ ~Failing(r) /\ AnswerOf(r) = "none"
  BY <1>0, <1>1, <1>2, InFlightOpen
<1>7. /\ req'[r].cid = c /\ req'[r].row = q.row /\ req'[r].par = q.par
  BY <1>0, <1>1, <1>2, Carried
<1>8. CASE req'[r] = Ended(q, "failed")
  <2>1. Failing(r)'
    BY <1>0, <1>2, <1>8, EndedFails
  <2>2. \A d \in Requests : ~Hurts(r, d)' => d # c
    BY <1>2, <1>3, <1>7, <2>1 DEF Hurts
  <2>3. QED BY <1>0, <1>1, <1>2, <1>4, <1>5, <1>7, <2>1, <2>2, Fails, FailsCatalogued
<1>9. CASE req'[r] = Ended(q, "ok") /\ DeleteRow(c)
  <2>1. req'[r].pc = "done" /\ req'[r].result = "ok"
    BY <1>2, <1>9 DEF Ended, Request
  <2>2. ~Failing(r)' /\ ~CarriesOut(r)' /\ AnswerOf(r)' = "ok"
    BY <2>1 DEF Failing, CarriesOut, AnswerOf
  <2>3. \A s \in Requests : req'[s].par = req[s].par
    BY <1>0, <1>7 DEF Lawful, LawfulRequest
  <2>4. /\ Wanted' = Wanted /\ Answers' = [Answers EXCEPT ![r] = "ok"]
        /\ Wanted[r] = q.par /\ Answers[r] = "none"
    BY <1>0, <1>6, <2>2, <2>3, OthersAnswers DEF Wanted, Answers
  <2>5. \A d \in Requests : /\ ~Hurts(r, d) /\ ~Hurts(r, d)'
                            /\ ~WorksOn(r, d) /\ ~WorksOn(r, d)'
    BY <1>2, <1>6, <2>2 DEF Hurts, WorksOn
  <2>6. \A d \in Requests : d # c => Same(d)
    BY <1>4, <1>5, <2>5, SameElsewhere
  <2>7. Hurt(c)' <=> Hurt(c)
    <3>1. \A s \in Requests \ {r} : req'[s] = req[s]
      BY DEF Lawful, LawfulRequest
    <3>2. ~Hurts(r, c) /\ ~Hurts(r, c)'
      BY <1>2, <2>5
    <3>3. \A s \in Requests \ {r} : Hurts(s, c)' <=> Hurts(s, c)
      BY <3>1 DEF Hurts, Failing
    <3>4. QED BY <3>2, <3>3 DEF Hurt
  <2>8. Shelved(c)' = None
    <3>1. content'[c] = None
      BY <1>2, <1>9 DEF DeleteRow, Inv, TypeInv, TypeOK
    <3>2. QED BY <3>1 DEF Shelved
  <2>9. Lost' = Lost /\ Shelf' = [Shelf EXCEPT ![c] = None]
    BY <1>2, <2>6, <2>7, <2>8 DEF Same, Shelf, Lost
  <2>10. CASE ~Hurt(c)
    <3>1. c \in Contents!Mine(r)
      BY <1>0, <1>2, <2>10, WorksOnMine
    <3>2. Contents!Withdraw(r)
      BY <1>2, <1>3, <2>4, <2>9, <3>1
      DEF Contents!Withdraw, Contents!Asks, Contents!Takes
    <3>3. QED BY <3>2 DEF Contents!Next, Catalogued
  <2>11. CASE Hurt(c)
    <3>1. Shelf' = Shelf
      BY <1>2, <2>9, <2>11 DEF Shelf, Shelved
    <3>2. content[c].slug = q.par.slug /\ req[c].par.slug = q.par.slug
      BY <1>0, <1>2, <1>3, NoneAssumption DEF Serial, SameSlug
    <3>3. RowsAt(q.par.slug) = {c}
      BY <1>2, <1>3, <3>2 DEF RowsAt, Inv, Ownership, SlugKey
    <3>4. Contents!Named(q.par.slug) = {} /\ c \in Contents!Unsure(q.par.slug)
      BY <1>2, <2>11, <3>2, <3>3, NamedAt
    <3>5. Contents!Salvage(r)
      BY <1>2, <1>3, <2>4, <2>9, <3>1, <3>4
      DEF Contents!Salvage, Contents!Asks, Contents!Takes
    <3>6. QED BY <3>5 DEF Contents!Next, Catalogued
  <2>12. QED BY <2>10, <2>11
<1>10. QED BY <1>1, <1>8, <1>9

\* Every action of a request is a step of the catalogue.
LEMMA StepCatalogued ==
  ASSUME Inv, Inv', Serial, Underway, Created, NEW r \in Requests, Lawful(r), Step(r)
  PROVE  Catalogued
  BY CallCatalogued, CheckSlugCatalogued, InsertCatalogued, PutCatalogued,
     UndoCatalogued, LoadCatalogued, ListCatalogued, ApplyCatalogued, SaveCatalogued,
     DropCatalogued, DeleteCatalogued DEF Step

\* A crash is the failure of all calls in flight at once.
LEMMA CrashCatalogued ==
  ASSUME Inv, Serial, Created, Crash
  PROVE  Catalogued
<1>1. PICK some : some = {s \in Requests : InFlight(s) /\ req[s].pc # "undo"}
  OBVIOUS
<1>2. /\ UNCHANGED <<content, files>>
      /\ \A s \in Requests : req[s] \in Request
      /\ \A s \in Requests : req'[s] = IF InFlight(s) THEN Ended(req[s], "crashed")
                                       ELSE req[s]
  BY DEF Crash, Inv, TypeInv, TypeOK
<1>3. ASSUME NEW s \in Requests
      PROVE  /\ req'[s].par = req[s].par /\ req'[s].cid = req[s].cid
             /\ req'[s].row = req[s].row
             /\ InFlight(s) => req'[s].pc = "done" /\ req'[s].result = "crashed"
             /\ ~InFlight(s) => req'[s] = req[s]
  BY <1>2, Carried DEF Ended, Request
<1>4. ASSUME NEW s \in Requests
      PROVE  /\ Failing(s)' <=> Failing(s) \/ s \in some
             /\ ~CarriesOut(s)'
             /\ AnswerOf(s)' = IF s \in some THEN "failed" ELSE AnswerOf(s)
  <2>1. CASE InFlight(s)
    <3>1. Failing(s)' /\ ~CarriesOut(s)' /\ AnswerOf(s)' = "failed"
      BY <1>3, <2>1 DEF Failing, CarriesOut, AnswerOf
    <3>2. s \in some \/ Failing(s)
      BY <1>1, <2>1 DEF Failing
    <3>3. QED BY <3>1, <3>2 DEF AnswerOf
  <2>2. CASE ~InFlight(s)
    <3>1. req'[s] = req[s] /\ s \notin some
      BY <1>1, <1>3, <2>2
    <3>2. Failing(s)' = Failing(s) /\ CarriesOut(s)' = CarriesOut(s)
          /\ AnswerOf(s)' = AnswerOf(s)
      BY <3>1 DEF Failing, CarriesOut, AnswerOf
    <3>3. ~CarriesOut(s)
      BY <2>2, WorkerFlies
    <3>4. QED BY <3>1, <3>2, <3>3
  <2>3. QED BY <2>1, <2>2
<1>5. some \in SUBSET Contents!Open
  BY <1>1, InFlightOpen
<1>6. ASSUME NEW s \in Requests, NEW c \in Requests, WorksOn(s, c)
      PROVE  s \in some /\ Hurts(s, c)'
  <2>1. InFlight(s) /\ req[s].pc # "undo" /\ req[s].cid = c /\ req[s].row # None
    BY <1>6, WorkerFlies, NoneAssumption DEF WorksOn, CarriesOut
  <2>2. req[s].par.op = "create" => c = s
    <3>1. req[s].par # None
      BY <2>1, InFlightOpen
    <3>2. QED BY <1>6, <2>1, <3>1 DEF WorksOn, CarriesOut, Created, Creating
  <2>3. s \in some
    BY <1>1, <2>1
  <2>4. QED BY <1>3, <1>4, <2>1, <2>2, <2>3 DEF Hurts
<1>7. PICK gone : gone = {c \in Requests : Hurt(c)' /\ ~Hurt(c)}
  OBVIOUS
<1>8. \A s, c \in Requests : Hurts(s, c) => Hurts(s, c)'
  BY <1>3, <1>4 DEF Hurts
<1>9. \A c \in Requests : Hurt(c) => Hurt(c)'
  BY <1>8 DEF Hurt
<1>10. ASSUME NEW c \in gone PROVE \E s \in some : c \in Contents!Risks(s)
  <2>1. c \in Requests /\ ~Hurt(c)
    BY <1>7
  <2>2. PICK s \in Requests : Hurts(s, c)'
    BY <1>7 DEF Hurt
  <2>3. s \in some
    <3>1. ~Hurts(s, c)
      BY <2>1 DEF Hurt
    <3>2. QED BY <1>3, <1>4, <2>2, <3>1 DEF Hurts
  <2>4. Wanted[s].op = req[s].par.op
    BY DEF Wanted
  <2>5. c = IF req[s].par.op = "create" THEN s ELSE req[s].cid
    BY <1>3, <2>2 DEF Hurts
  <2>6. req[s].cid = c => c \in Contents!Mine(s)
    BY <1>1, <2>1, <2>3, WorksOnMine
  <2>7. QED BY <2>3, <2>4, <2>5, <2>6 DEF Contents!Risks
<1>11. ASSUME NEW c \in Requests
       PROVE  Shelved(c)' = IF c \in gone THEN None ELSE Shelved(c)
  <2>1. CASE Hurt(c)'
    BY <1>7, <2>1 DEF Shelved
  <2>2. CASE ~Hurt(c)'
    <3>1. ~Hurt(c) /\ c \notin gone
      BY <1>7, <1>9, <2>2
    <3>2. \A s \in Requests : ~WorksOn(s, c)
      BY <1>6, <2>2 DEF Hurt
    <3>3. \A s \in Requests : ~WorksOn(s, c)'
      BY <1>4 DEF WorksOn
    <3>4. Shelved(c) = IF content[c] = None THEN None ELSE Standing(c)
      BY <3>1, <3>2 DEF Shelved
    <3>5. Shelved(c)' = IF content'[c] = None THEN None ELSE Standing(c)'
      BY <2>2, <3>3 DEF Shelved
    <3>6. Standing(c)' = Standing(c)
      BY <1>2 DEF Standing, Entry, Pages, FilesOf
    <3>7. QED BY <1>2, <3>1, <3>4, <3>5, <3>6
  <2>3. QED BY <2>1, <2>2
<1>12. /\ Wanted' = Wanted
       /\ Answers' = [s \in Requests |-> IF s \in some THEN "failed" ELSE Answers[s]]
       /\ Shelf' = [c \in Requests |-> IF c \in gone THEN None ELSE Shelf[c]]
  BY <1>3, <1>4, <1>11 DEF Wanted, Answers, Shelf
<1>13. Lost' = Lost \cup gone
  BY <1>7, <1>9 DEF Lost
<1>14. gone \in SUBSET UNION {Contents!Risks(s) : s \in some}
  BY <1>10
<1>15. Contents!Fail(some)
  BY <1>12, <1>13, <1>14 DEF Contents!Fail
<1>16. Contents!Next
  BY <1>5, <1>15 DEF Contents!Next
<1>17. QED BY <1>16 DEF Catalogued

\* The catalogue is told from the tables and the requests alone.
LEMMA StillCatalogued ==
  ASSUME UNCHANGED vars
  PROVE  UNCHANGED <<Wanted, Answers, Shelf, Lost>>
<1>1. content' = content /\ files' = files /\ req' = req
  BY DEF vars
<1>2. \A s \in Requests : req'[s].par = req[s].par /\ AnswerOf(s)' = AnswerOf(s)
  BY <1>1 DEF AnswerOf, Failing, CarriesOut
<1>3. ASSUME NEW c \in Requests PROVE Same(c)
  <2>1. Hurt(c)' <=> Hurt(c)
    BY <1>1 DEF Hurt, Hurts, Failing
  <2>2. \A s \in Requests : WorksOn(s, c)' <=> WorksOn(s, c)
    BY <1>1 DEF WorksOn, CarriesOut
  <2>3. Pages(c)' = Pages(c)
    BY <1>1 DEF Pages, FilesOf
  <2>4. Standing(c)' = Standing(c) /\ \A s : Target(s, c)' = Target(s, c)
    BY <1>1, <2>3 DEF Standing, Target, Entry
  <2>5. PICK w : w = CHOOSE s \in Requests : WorksOn(s, c)
    OBVIOUS
  <2>6. w = (CHOOSE s \in Requests : WorksOn(s, c)')
    BY <2>2, <2>5
  <2>7. Shelved(c) = IF content[c] = None \/ Hurt(c) THEN None
                     ELSE IF \E s \in Requests : WorksOn(s, c) THEN Target(w, c)
                     ELSE Standing(c)
    BY <2>5 DEF Shelved
  <2>8. Shelved(c)' = IF content'[c] = None \/ Hurt(c)' THEN None
                      ELSE IF \E s \in Requests : WorksOn(s, c)' THEN Target(w, c)'
                      ELSE Standing(c)'
    BY <2>6 DEF Shelved
  <2>9. QED BY <1>1, <2>1, <2>2, <2>4, <2>7, <2>8 DEF Same
<1>4. QED BY <1>2, <1>3, Unmoved

\* Before any call both are empty.
LEMMA EmptyCatalogue == Init => Contents!Init
<1> SUFFICES ASSUME Init PROVE Contents!Init
  OBVIOUS
<1>1. \A r \in Requests : /\ content[r] = None
                          /\ req[r].pc = "idle" /\ req[r].par = None
  BY DEF Init, Idle
<1>2. \A r \in Requests : ~Failing(r) /\ AnswerOf(r) = "none"
  BY <1>1 DEF Failing, AnswerOf, CarriesOut
<1>3. \A c \in Requests : ~Hurt(c)
  BY <1>2 DEF Hurt, Hurts
<1>4. \A c \in Requests : Shelved(c) = None
  BY <1>1 DEF Shelved
<1>5. QED BY <1>1, <1>2, <1>3, <1>4 DEF Contents!Init, Wanted, Answers, Shelf, Lost

\* When calls for one slug do not overlap, the service implements Catalogue: each
\* call of ContentService.Create, Update or Delete is one step on whole entries, at
\* its INSERT, its load or its DELETE, however the statements of calls for other
\* slugs come between; a crash or a failed statement harms the entry in hand only.
THEOREM ServiceIsCatalogue ==
  ASSUME Overlap = FALSE
  PROVE  Spec => ImplementsCatalogue
<1>1. Inv /\ Inv' /\ Created /\ Serial /\ Underway /\ [Next]_vars
      => [Contents!Next]_<<Wanted, Answers, Shelf, Lost>>
  <2>1. ASSUME Inv, Inv', Created, Serial, Underway, NEW r \in Requests, Step(r)
        PROVE  Catalogued
    <3>1. Lawful(r)
      BY <2>1, StepLawful DEF Inv
    <3>2. QED BY <2>1, <3>1, StepCatalogued
  <2>2. ASSUME Inv, Serial, Created, Crash PROVE Catalogued
    BY <2>2, CrashCatalogued
  <2>3. ASSUME UNCHANGED vars PROVE Catalogued
    BY <2>3, StillCatalogued DEF Catalogued
  <2>4. QED BY <2>1, <2>2, <2>3 DEF Next, AllDone, Catalogued
<1>2. QED
  BY <1>1, EmptyCatalogue, Invariant, AlwaysCreated, AlwaysSerial, AlwaysUnderway, PTL
  DEF Spec, ImplementsCatalogue, Contents!Spec

=============================================================================
