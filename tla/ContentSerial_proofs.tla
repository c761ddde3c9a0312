------------------------ MODULE ContentSerial_proofs ------------------------
(***************************************************************************)
(* What calls leave in the tables when calls for one slug do not overlap,  *)
(* for any set of requests, slugs and passphrases and any number of        *)
(* faults: files of one upload, in step with their envelope unless a call  *)
(* replaced both, and envelopes that only the passphrase they are under    *)
(* can change.                                                             *)
(*                                                                         *)
(* A request works on copies of what it has read.  The invariant says that *)
(* the copies are still true, because nobody else is at work on the entry, *)
(* and what the last call has left there.                                  *)
(***************************************************************************)
EXTENDS ContentService_proofs

\* No call that changes the envelope of entry c along with its files has run on it.
Clean(c) == \A r \in Requests : ~Rekeys(r, c)

\* An entry keeps the slug of the call that created it, and of those that work on it.
SameSlug ==
  /\ \A r \in Requests : req[r].pc = "insert" => req[r].row.slug = req[r].par.slug
  /\ \A c \in Requests : content[c] # None => content[c].slug = req[c].par.slug
  /\ \A r \in Requests : req[r].cid # None => req[req[r].cid].par.slug = req[r].par.slug

\* Calls for one slug do not overlap.
Alone == \A r, s \in Requests :
           InFlight(r) /\ InFlight(s) /\ req[r].par.slug = req[s].par.slug => r = s

\* The payloads to put back are those of the entry, and fit the new envelope.
Rewritten(q) ==
  /\ \A f \in FilesOf(q.cid) : \E g \in q.rewritten : SameFile(f, g)
  /\ Clean(q.cid) => \A g \in q.rewritten : g.seals = Seal(q.env, <<>>)

\* What request r has read of the entry it works on is still so.
Abreast(r) ==
  LET q == req[r] IN
  InFlight(r) /\ q.cid # None =>
    /\ content[q.cid] # None /\ content[q.cid].env = q.row.env
    /\ q.pc \in {"list", "apply"} /\ q.row.env # None => q.par.pass = q.row.env.pass
    /\ q.pc = "list" => q.par.upload = None
    /\ q.pc = "apply" => Rekeys(r, q.cid) \/ Rewritten(q)
    /\ q.pc = "put" =>
         \A f \in FilesOf(q.cid) : f.by = r /\ f.seals = Seal(q.row.env, <<>>)
    /\ q.pc = "remove" => q.par.op = "delete"

\* The files of entry c come from one upload and are in step unless rekeyed.
Whole(c) == content[c] # None =>
              /\ Clean(c) => InStep(c)
              /\ \A f, g \in FilesOf(c) : f.by = g.by

Serial == /\ SameSlug /\ Alone
          /\ \A r \in Requests : Abreast(r)
          /\ \A c \in Requests : Whole(c)

\* What a step of r does to its record and to rows, beyond being lawful.
Orderly(r) ==
  /\ req[r].pc # "idle" => InFlight(r)
  /\ req[r].pc = "idle" =>
       /\ UNCHANGED <<content, files>>
       /\ \A s \in Requests : InFlight(s) => req[s].par.slug # req'[r].par.slug
  /\ req[r].cid # None => req'[r].env = req[r].env
  /\ req'[r].pc = "insert" => req'[r].row.slug = req'[r].par.slug
  /\ content[r] = None /\ content'[r] # None => content'[r].slug = req'[r].par.slug
  /\ req'[r].cid # None =>
       \/ req'[r].cid \in {req[r].cid, r}
       \/ /\ content[req'[r].cid] # None
          /\ content[req'[r].cid].slug = req'[r].par.slug

\* An answer with success to a call that uploaded leaves its entry in step.
Restores(r) ==
  /\ req'[r].pc = "done" /\ req'[r].result = "ok"
  /\ req'[r].par.op # "delete" /\ req'[r].par.upload # None
  => \A c \in Requests : c = req'[r].cid => InStep(c)'

\* Envelopes are changed with the passphrase they are under.
Guards(r) ==
  \A c \in Requests :
    content[c] # None /\ content[c].env # None
    /\ content'[c] # None /\ content'[c].env # content[c].env
    => req[r].par.pass = content[c].env.pass

\* What is to be shown of each action.
Own(r) == /\ Orderly(r) /\ Restores(r) /\ Guards(r) /\ Abreast(r)'
          /\ \A c \in Requests : c = req[r].cid => Whole(c)'
          /\ content[r] = None /\ content'[r] # None => Whole(r)'

\* A rekeyed entry stays one.
LEMMA RekeysStay ==
  ASSUME Inv, NEW r \in Requests, Lawful(r), Orderly(r), NEW c \in Requests
  PROVE  /\ \A s \in Requests : Rekeys(s, c) => Rekeys(s, c)'
         /\ \A s \in Requests \ {r} : Rekeys(s, c)' => Rekeys(s, c)
         /\ Clean(c)' => Clean(c)
<1>1. ASSUME NEW s \in Requests, s # r PROVE Rekeys(s, c)' = Rekeys(s, c)
  BY <1>1 DEF Lawful, LawfulRequest, Rekeys
<1>2. Rekeys(r, c) => Rekeys(r, c)'
  <2>1. SUFFICES ASSUME Rekeys(r, c) PROVE Rekeys(r, c)'
    OBVIOUS
  <2>2. req[r].par # None /\ req[r].cid = c /\ c # None
    BY <2>1, NoneAssumption DEF Rekeys
  <2>3. req'[r].par = req[r].par /\ req'[r].cid = c /\ req'[r].env = req[r].env
    BY <2>2 DEF Lawful, LawfulRequest, Orderly
  <2>4. QED BY <2>1, <2>3 DEF Rekeys
<1>3. \A s \in Requests : Rekeys(s, c) => Rekeys(s, c)'
  BY <1>1, <1>2
<1>4. QED BY <1>1, <1>3 DEF Clean

\* An entry that a step does not touch stays as it was.
LEMMA UntouchedWhole ==
  ASSUME Inv, NEW r \in Requests, Lawful(r), Orderly(r),
         NEW c \in Requests, Whole(c), content'[c] = content[c],
         FilesOf(c)' = FilesOf(c)
  PROVE  Whole(c)'
<1>1. Clean(c)' => Clean(c)
  BY RekeysStay
<1>2. InStep(c) => InStep(c)'
  BY DEF InStep
<1>3. QED BY <1>1, <1>2 DEF Whole

\* Only the entry that r works on loses or gains files.
LEMMA OtherFiles ==
  ASSUME Inv, NEW r \in Requests, Lawful(r), NEW c \in Requests, c # req[r].cid
  PROVE  FilesOf(c)' = FilesOf(c)
  BY DEF Lawful, LawfulFiles, FilesOf

\* Nobody else works on the entry that s works on.
LEMMA OthersElsewhere ==
  ASSUME Inv, Serial, NEW r \in Requests, Lawful(r), Orderly(r),
         NEW s \in Requests, s # r, InFlight(s), NEW c \in Requests, c = req[s].cid
  PROVE  content'[c] = content[c] /\ FilesOf(c)' = FilesOf(c)
<1>1. CASE req[r].pc = "idle"
  BY <1>1 DEF Orderly, FilesOf
<1>2. CASE req[r].pc # "idle"
  <2>1. req[r].cid # c
    <3>1. req[c].par.slug = req[s].par.slug
      BY NoneAssumption DEF Serial, SameSlug
    <3>2. req[r].cid = c => req[c].par.slug = req[r].par.slug
      BY NoneAssumption DEF Serial, SameSlug
    <3>3. InFlight(r)
      BY <1>2 DEF Orderly
    <3>4. QED BY <3>1, <3>2, <3>3 DEF Serial, Alone
  <2>2. content[c] # None
    BY NoneAssumption DEF Serial, Abreast
  <2>3. content'[c] = content[c]
    BY <2>1, <2>2 DEF Lawful, LawfulRows
  <2>4. QED BY <2>1, <2>3, OtherFiles
<1>3. QED BY <1>1, <1>2

\* The others are where they were: nobody else works on their entry.
LEMMA OthersAbreast ==
  ASSUME Inv, Serial, NEW r \in Requests, Lawful(r), Orderly(r),
         NEW s \in Requests, s # r
  PROVE  Abreast(s)'
<1>1. req'[s] = req[s]
  BY DEF Lawful, LawfulRequest
<1> SUFFICES ASSUME InFlight(s), req[s].cid # None
             PROVE  Abreast(s)'
  BY <1>1 DEF Abreast, InFlight
<1>0. PICK c : c = req[s].cid
  OBVIOUS
<1>2. /\ c \in Requests /\ Abreast(s) /\ content[c] # None
  BY <1>0 DEF Serial, Abreast, Inv, TypeInv, TypeOK, Request
<1>3. content'[c] = content[c] /\ FilesOf(c)' = FilesOf(c)
  BY <1>0, <1>2, OthersElsewhere
<1>4. (Clean(c)' => Clean(c)) /\ (Rekeys(s, c) => Rekeys(s, c)')
  BY <1>2, RekeysStay
<1>5. Rewritten(req[s]) => Rewritten(req[s])'
  BY <1>1, <1>3, <1>4, <1>0 DEF Rewritten
<1>6. /\ content[c] # None /\ content[c].env = req[s].row.env
      /\ req[s].pc \in {"list", "apply"} /\ req[s].row.env # None
           => req[s].par.pass = req[s].row.env.pass
      /\ req[s].pc = "list" => req[s].par.upload = None
      /\ req[s].pc = "apply" => Rekeys(s, c) \/ Rewritten(req[s])
      /\ req[s].pc = "put" =>
           \A f \in FilesOf(c) : f.by = s /\ f.seals = Seal(req[s].row.env, <<>>)
      /\ req[s].pc = "remove" => req[s].par.op = "delete"
  BY <1>2, <1>0 DEF Abreast
<1>7. /\ content'[c] # None /\ content'[c].env = req[s].row.env
      /\ req[s].pc = "apply" => Rekeys(s, c)' \/ Rewritten(req[s])'
      /\ req[s].pc = "put" =>
           \A f \in FilesOf(c)' : f.by = s /\ f.seals = Seal(req[s].row.env, <<>>)
  BY <1>3, <1>4, <1>5, <1>6
<1>8. QED BY <1>1, <1>6, <1>7, <1>0 DEF Abreast

\* Slugs and the order of calls are kept by every such step.
LEMMA SlugsKept ==
  ASSUME Inv, Inv', Serial, NEW r \in Requests, Lawful(r), Orderly(r)
  PROVE  SameSlug' /\ Alone'
<1>1. \A s \in Requests \ {r} : req'[s] = req[s]
  BY DEF Lawful, LawfulRequest
<1>2. \A s \in Requests : req[s].par # None => req'[s].par = req[s].par
  BY <1>1 DEF Lawful, LawfulRequest
<1>3. ASSUME NEW s \in Requests, req'[s].pc = "insert"
      PROVE  req'[s].row.slug = req'[s].par.slug
  BY <1>1, <1>3 DEF Serial, SameSlug, Orderly
<1>4. ASSUME NEW c \in Requests, content'[c] # None
      PROVE  content'[c].slug = req'[c].par.slug
  <2>1. CASE content[c] # None
    <3>1. content'[c].slug = content[c].slug
      BY <1>4, <2>1 DEF Lawful, LawfulRows
    <3>2. req[c].par # None /\ content[c].slug = req[c].par.slug
      BY <2>1 DEF Inv, Ownership, RowOwner, Serial, SameSlug
    <3>3. QED BY <1>2, <3>1, <3>2
  <2>2. CASE content[c] = None
    BY <1>4, <2>2 DEF Lawful, LawfulRows, Orderly
  <2>3. QED BY <2>1, <2>2
<1>5. ASSUME NEW s \in Requests, req'[s].cid # None
      PROVE  req'[req'[s].cid].par.slug = req'[s].par.slug
  <2>1. CASE req[s].cid # None
    <3>1. /\ req[s].cid \in Requests /\ req[s].par # None
          /\ req[req[s].cid].par # None
          /\ req[req[s].cid].par.slug = req[s].par.slug
      BY <2>1 DEF Inv, TypeInv, TypeOK, Request, Ownership, SameOwner, Serial, SameSlug
    <3>2. req'[s].cid = req[s].cid
      BY <1>1, <2>1 DEF Lawful, LawfulRequest
    <3>3. QED BY <1>2, <3>1, <3>2
  <2>2. CASE req[s].cid = None
    <3>1. s = r /\ req'[s].cid \in Requests
      BY <1>1, <1>5, <2>2 DEF Inv, TypeInv, TypeOK, Request
    <3>2. CASE req'[r].cid = r
      BY <3>1, <3>2
    <3>3. CASE req'[r].cid # r
      <4>1. /\ content[req'[r].cid] # None
            /\ content[req'[r].cid].slug = req'[r].par.slug
        BY <1>5, <2>2, <3>1, <3>3 DEF Orderly
      <4>2. /\ req[req'[r].cid].par # None
            /\ req[req'[r].cid].par.slug = content[req'[r].cid].slug
        BY <3>1, <4>1 DEF Inv, Ownership, RowOwner, Serial, SameSlug
      <4>3. QED BY <1>2, <3>1, <4>1, <4>2
    <3>4. QED BY <3>1, <3>2, <3>3
  <2>3. QED BY <2>1, <2>2
<1>6. ASSUME NEW s \in Requests, s # r, InFlight(s)', InFlight(r)'
      PROVE  req'[s].par.slug # req'[r].par.slug
  <2>1. InFlight(s) /\ req'[s].par = req[s].par
    BY <1>1, <1>6 DEF InFlight
  <2>2. CASE req[r].pc = "idle"
    BY <2>1, <2>2 DEF Orderly
  <2>3. CASE req[r].pc # "idle"
    <3>1. InFlight(r)
      BY <2>3 DEF Orderly
    <3>2. req[r].par # None
      BY <3>1, NoneAssumption DEF InFlight, Inv, TypeInv, Shape
    <3>3. QED BY <1>2, <1>6, <2>1, <3>1, <3>2 DEF Serial, Alone
  <2>4. QED BY <2>2, <2>3
<1>7. Alone'
  <2>1. ASSUME NEW s \in Requests, NEW t \in Requests, s # r, t # r,
               InFlight(s)', InFlight(t)', req'[s].par.slug = req'[t].par.slug
        PROVE  s = t
    BY <1>1, <2>1 DEF Serial, Alone, InFlight
  <2>2. QED BY <1>6, <2>1 DEF Alone
<1>8. QED BY <1>3, <1>4, <1>5, <1>7 DEF SameSlug

\* A step that does its own part keeps the whole.
LEMMA OwnSuffices ==
  ASSUME Inv, Inv', Serial, NEW r \in Requests, Lawful(r), Own(r)
  PROVE  Serial'
<1>1. Orderly(r) /\ Abreast(r)'
  BY DEF Own
<1>2. SameSlug' /\ Alone'
  BY <1>1, SlugsKept
<1>3. \A s \in Requests : Abreast(s)'
  BY <1>1, OthersAbreast
<1>4. ASSUME NEW c \in Requests PROVE Whole(c)'
  <2>1. CASE c = req[r].cid
    BY <2>1, NoneAssumption DEF Own
  <2>2. CASE c # req[r].cid /\ content'[c] = content[c]
    BY <1>1, <2>2, OtherFiles, UntouchedWhole DEF Serial
  <2>3. CASE c # req[r].cid /\ content'[c] # content[c]
    <3>1. c = r /\ content[c] = None
      BY <2>3 DEF Lawful, LawfulRows
    <3>2. QED BY <2>3, <3>1 DEF Own
  <2>4. QED BY <2>1, <2>2, <2>3
<1>5. QED BY <1>2, <1>3, <1>4 DEF Serial

-----------------------------------------------------------------------------
(* Every action does its own part.                                         *)

\* Where storing leads.
LEMMA StoreErrorEnds ==
  ASSUME NEW q \in Request
  PROVE  LET s == StoreError(q) IN
         s.pc \in {"undo", "done"} /\ (s.pc = "done" => s.result = "failed")
<1>1. /\ At(q, "undo").pc = "undo"
      /\ Ended(q, "failed").pc = "done" /\ Ended(q, "failed").result = "failed"
  BY DEF At, Ended, Request
<1>2. QED BY <1>1 DEF StoreError

LEMMA StoreFromEnds ==
  ASSUME NEW q \in Request, NEW n
  PROVE  StoreFrom(q, n).pc \in {"put", "undo", "done"}
<1>1. [q EXCEPT !.pc = "put", !.next = n].pc = "put" /\ Ended(q, "ok").pc = "done"
  BY DEF Ended, Request
<1>2. QED BY <1>1, StoreErrorEnds DEF StoreFrom

\* A statement of a request whose record moves is in order.
LEMMA MovedOrderly ==
  ASSUME NEW r \in Requests, InFlight(r), Moved(req[r], req'[r]),
         req'[r].env = req[r].env, content[r] = None => content'[r] = None
  PROVE  Orderly(r)
<1>1. req[r].pc # "idle" /\ req'[r].pc # "insert" /\ req'[r].cid = req[r].cid
  BY DEF InFlight, Statements, Moved, Early
<1>2. QED BY <1>1 DEF Orderly

\* A step that only reads has to look after its own record.
LEMMA ReadOwn ==
  ASSUME Inv, Serial, NEW r \in Requests, Lawful(r), Orderly(r), Abreast(r)',
         UNCHANGED <<content, files>>,
         ~(req'[r].pc = "done" /\ req'[r].result = "ok")
  PROVE  Own(r)
<1>1. \A c \in Requests : Whole(c)'
  BY UntouchedWhole DEF Serial, FilesOf
<1>2. QED BY <1>1 DEF Own, Restores, Guards

\* A request that ends without success, where it has changed nothing.
LEMMA EndOwn ==
  ASSUME Inv, Serial, NEW r \in Requests, Lawful(r), InFlight(r),
         UNCHANGED <<content, files>>,
         NEW res, res # "ok", req'[r] = Ended(req[r], res)
  PROVE  Own(r)
<1>1. req[r] \in Request /\ req[r].pc # "done"
  BY DEF Inv, TypeInv, TypeOK, InFlight, Statements
<1>2. Moved(req[r], req'[r]) /\ req'[r].env = req[r].env
  BY <1>1, EndedMoves, Carried
<1>3. Orderly(r)
  BY <1>2, MovedOrderly
<1>4. req'[r].pc = "done" /\ req'[r].result = res
  BY <1>1 DEF Ended, Request
<1>5. Abreast(r)'
  BY <1>4 DEF Abreast, InFlight, Statements
<1>6. QED BY <1>3, <1>4, <1>5, ReadOwn

\* Without Overlap a call waits until its slug is free.
LEMMA CallOwn ==
  ASSUME Overlap = FALSE, Inv, Serial, NEW r \in Requests, Lawful(r), Call(r)
  PROVE  Own(r)
<1>1. PICK p \in Plans[r] : Make(r, p)
  BY DEF Call
<1> DEFINE q == [req[r] EXCEPT !.par = p]
<1>2. /\ req[r] \in Request /\ req[r].cid = None /\ req[r].pc = "idle"
      /\ content[r] = None
  BY <1>1 DEF Make, Inv, TypeInv, TypeOK, Shape, Ownership, RowOwner, Early
<1>3. req'[r] = IF p.op # "create" THEN At(q, "load")
                ELSE IF p.slug \in ValidSlugs THEN At(q, "check")
                ELSE Ended(q, "rejected")
  BY <1>1 DEF Make, Inv, TypeInv, TypeOK
<1>4. /\ req'[r].cid = None /\ req'[r].par = p
      /\ req'[r].pc \in {"load", "check", "done"}
      /\ req'[r].pc = "done" => req'[r].result = "rejected"
  <2>1. /\ q.cid = None /\ q.par = p
        /\ q \in [pc : PCs, par : {p}, cid : Requests \cup {None},
                  row : Row \cup {None}, env : Envelope \cup {None},
                  rewritten : SUBSET File, next : Nat, result : Results]
    BY <1>2 DEF Request
  <2> HIDE DEF q
  <2>2. /\ At(q, "load").cid = None /\ At(q, "load").par = p /\ At(q, "load").pc = "load"
        /\ At(q, "check").cid = None /\ At(q, "check").par = p
        /\ At(q, "check").pc = "check"
        /\ Ended(q, "rejected").cid = None /\ Ended(q, "rejected").par = p
        /\ Ended(q, "rejected").pc = "done" /\ Ended(q, "rejected").result = "rejected"
    BY <2>1 DEF At, Ended
  <2>3. QED BY <1>3, <2>2
<1>5. UNCHANGED <<content, files>>
      /\ \A s \in Requests : InFlight(s) => req[s].par.slug # p.slug
  BY <1>1 DEF Make
<1>6. Orderly(r)
  BY <1>2, <1>4, <1>5 DEF Orderly
<1>7. Abreast(r)'
  BY <1>4 DEF Abreast
<1>8. QED BY <1>4, <1>5, <1>6, <1>7, ReadOwn

LEMMA CheckSlugOwn ==
  ASSUME Inv, Serial, NEW r \in Requests, Lawful(r), CheckSlug(r)
  PROVE  Own(r)
<1>1. /\ req[r].pc = "check" /\ UNCHANGED <<content, files>>
      /\ \/ \E res \in {"failed", "rejected"} : req'[r] = Ended(req[r], res)
         \/ req'[r] = [req[r] EXCEPT !.pc = "insert", !.row = NewRow(r, req[r].par)]
  BY DEF CheckSlug, Statement, Inv, TypeInv, TypeOK
<1>2. /\ req[r] \in Request /\ req[r].cid = None /\ InFlight(r)
  BY <1>1 DEF Inv, TypeInv, TypeOK, Shape, Statements, InFlight
<1>3. ASSUME NEW res \in {"failed", "rejected"}, req'[r] = Ended(req[r], res)
      PROVE  Own(r)
  BY <1>1, <1>2, <1>3, EndOwn
<1>4. CASE req'[r] = [req[r] EXCEPT !.pc = "insert", !.row = NewRow(r, req[r].par)]
  <2>1. /\ req'[r].cid = None /\ req'[r].pc = "insert" /\ req'[r].par = req[r].par
        /\ req'[r].row.slug = req[r].par.slug
    BY <1>2, <1>4 DEF Request, NewRow
  <2>2. Orderly(r)
    BY <1>1, <1>2, <2>1 DEF Orderly
  <2>3. Abreast(r)'
    BY <2>1 DEF Abreast
  <2>4. QED BY <1>1, <2>1, <2>2, <2>3, ReadOwn
<1>5. QED BY <1>1, <1>3, <1>4

\* An entry begins without files.
LEMMA InsertContentOwn ==
  ASSUME Inv, Serial, NEW r \in Requests, Lawful(r), InsertContent(r)
  PROVE  Own(r)
<1> DEFINE q == [req[r] EXCEPT !.cid = r]
<1>1. /\ req[r].pc = "insert" /\ files' = files
      /\ \/ content' = content /\ req'[r] = Ended(req[r], "failed")
         \/ /\ content' = [content EXCEPT ![r] = req[r].row]
            /\ req'[r] \in {Ended(req[r], "failed"), StoreFrom(q, 1)}
  BY DEF InsertContent, Statement, Inv, TypeInv, TypeOK
<1>2. /\ req[r] \in Request /\ req[r].cid = None /\ InFlight(r) /\ content[r] = None
      /\ req[r].par # None
  BY <1>1, NoneAssumption
  DEF Inv, TypeInv, TypeOK, Shape, Statements, InFlight, Ownership, RowOwner, Early
<1>3. CASE content' = content /\ req'[r] = Ended(req[r], "failed")
  BY <1>1, <1>2, <1>3, EndOwn
<1>4. CASE /\ content' = [content EXCEPT ![r] = req[r].row]
           /\ req'[r] \in {Ended(req[r], "failed"), StoreFrom(q, 1)}
  <2>1. /\ q \in Request /\ q.cid = r /\ q.row = req[r].row /\ q.par = req[r].par
    BY <1>2 DEF Request
  <2> HIDE DEF q
  <2>2. /\ req'[r].par = req[r].par /\ req'[r].row = req[r].row
        /\ req'[r].cid \in {None, r}
        /\ req'[r].pc \in {"put", "undo", "done"}
    <3>1. CASE req'[r] = Ended(req[r], "failed")
      <4>1. Ended(req[r], "failed").pc = "done"
        BY <1>2 DEF Ended, Request
      <4>2. QED BY <1>2, <3>1, <4>1, Carried
    <3>2. CASE req'[r] = StoreFrom(q, 1)
      BY <2>1, <3>2, Carried, StoreFromEnds
    <3>3. QED BY <1>4, <3>1, <3>2
  <2>3. content'[r] = req[r].row /\ \A c \in Requests : c # r => content'[c] = content[c]
    BY <1>4 DEF Inv, TypeInv, TypeOK
  <2>4. FilesOf(r)' = {}
    BY <1>1, <1>2 DEF FilesOf, Inv, Ownership, FileOwner
  <2>5. Orderly(r)
    BY <1>1, <1>2, <2>2, <2>3 DEF Orderly, Serial, SameSlug
  <2>6. Whole(r)' /\ InStep(r)'
    BY <2>4 DEF Whole, InStep
  <2>7. Abreast(r)'
    <3>1. PICK n : n = req'[r]
      OBVIOUS
    <3>2. CASE n.cid = None
      BY <3>1, <3>2 DEF Abreast
    <3>3. CASE n.cid = r
      <4>1. content'[r] # None
        BY <1>1, <1>2, <2>3, NoneAssumption DEF Inv, TypeInv, Shape
      <4>2. QED BY <2>2, <2>3, <2>4, <3>1, <3>3, <4>1 DEF Abreast
    <3>4. QED BY <2>2, <3>1, <3>2, <3>3
  <2>8. Guards(r)
    BY <1>2, <2>3 DEF Guards
  <2>9. Restores(r)
    BY <2>2, <2>6, NoneAssumption DEF Restores
  <2>10. \A c \in Requests : c # req[r].cid
    BY <1>2, NoneAssumption
  <2>11. QED BY <2>5, <2>6, <2>7, <2>8, <2>9, <2>10 DEF Own
<1>5. QED BY <1>1, <1>3, <1>4

\* Files are added under the envelope in the table, by one request.
LEMMA PutFileOwn ==
  ASSUME Inv, Serial, NEW r \in Requests, Lawful(r), PutFile(r)
  PROVE  Own(r)
<1>0. PICK q, c : q = req[r] /\ c = req[r].cid
  OBVIOUS
<1>1. /\ q.pc = "put" /\ content' = content
      /\ files' = files \/ files' = files \cup {NewFile(r, q)}
      /\ req'[r] \in {StoreError(q), StoreFrom(q, q.next + 1)}
  BY <1>0 DEF PutFile, Statement, Inv, TypeInv, TypeOK
<1>2. /\ q \in Request /\ c \in Requests /\ q.next \in Nat /\ InFlight(r)
  BY <1>0, <1>1
  DEF Inv, TypeInv, TypeOK, Shape, HasRow, Request, InFlight, Statements
<1>3. /\ content[c] # None /\ content[c].env = q.row.env
      /\ \A f \in FilesOf(c) : f.by = r /\ f.seals = Seal(q.row.env, <<>>)
  BY <1>0, <1>1, <1>2, NoneAssumption DEF Serial, Abreast
<1>4. /\ NewFile(r, q).by = r /\ NewFile(r, q).seals = Seal(q.row.env, <<>>)
  BY DEF NewFile
<1>5. \A f \in FilesOf(c)' : f.by = r /\ f.seals = Seal(q.row.env, <<>>)
  BY <1>1, <1>3, <1>4 DEF FilesOf
<1>6. Moved(q, req'[r]) /\ req'[r].env = q.env /\ req'[r].row = q.row
      /\ req'[r].cid = c /\ req'[r].pc \in {"put", "undo", "done"}
  BY <1>0, <1>1, <1>2, Carried, StoreErrorMoves, StoreFromMoves, StoreErrorEnds,
     StoreFromEnds
<1>7. Orderly(r)
  BY <1>0, <1>1, <1>2, <1>6, MovedOrderly
<1>8. Whole(c)' /\ InStep(c)'
  BY <1>1, <1>3, <1>5 DEF Whole, InStep
<1>9. Abreast(r)'
  BY <1>1, <1>3, <1>5, <1>6 DEF Abreast
<1>10. Guards(r) /\ Restores(r)
  BY <1>1, <1>6, <1>8 DEF Guards, Restores
<1>11. QED BY <1>0, <1>1, <1>7, <1>8, <1>9, <1>10 DEF Own

\* The end of an entry, or a failed attempt.
LEMMA DeleteOwn ==
  ASSUME Inv, Serial, NEW r \in Requests, Lawful(r),
         req[r].pc \in {"undo", "remove"},
         UNCHANGED <<content, files>> \/ DeleteRow(req[r].cid),
         NEW res, req'[r] = Ended(req[r], res),
         res = "ok" => req[r].pc = "remove"
  PROVE  Own(r)
<1>0. PICK q, c : q = req[r] /\ c = req[r].cid
  OBVIOUS
<1>1. q \in Request /\ c \in Requests /\ InFlight(r)
  BY <1>0 DEF Inv, TypeInv, TypeOK, Shape, HasRow, InFlight, Statements
<1>2. content[c] # None /\ (q.pc = "remove" => q.par.op = "delete")
  BY <1>0, <1>1, NoneAssumption DEF Serial, Abreast
<1>3. /\ req'[r].par = q.par /\ req'[r].cid = c /\ req'[r].env = q.env
      /\ req'[r].pc = "done" /\ req'[r].result = res /\ Moved(q, req'[r])
  <2>1. Ended(q, res).pc = "done" /\ Ended(q, res).result = res
    BY <1>1 DEF Ended, Request
  <2>2. QED BY <1>0, <1>1, <2>1, Carried, EndedMoves
<1>4. \A d \in Requests : content'[d] \in {content[d], None}
  BY DEF DeleteRow, Inv, TypeInv, TypeOK
<1>5. Orderly(r)
  BY <1>0, <1>1, <1>3, <1>4, MovedOrderly
<1>6. Whole(c)'
  <2>1. CASE UNCHANGED <<content, files>>
    BY <1>1, <1>5, <2>1, UntouchedWhole DEF Serial, FilesOf
  <2>2. CASE DeleteRow(req[r].cid)
    <3>1. content'[c] = None
      BY <1>0, <1>1, <2>2 DEF DeleteRow, Inv, TypeInv, TypeOK
    <3>2. QED BY <3>1 DEF Whole
  <2>3. QED BY <2>1, <2>2
<1>7. Abreast(r)' /\ Restores(r)
  BY <1>0, <1>2, <1>3 DEF Abreast, InFlight, Statements, Restores
<1>8. Guards(r)
  BY <1>4 DEF Guards
<1>9. QED BY <1>0, <1>4, <1>5, <1>6, <1>7, <1>8 DEF Own

LEMMA UndoCreateOwn ==
  ASSUME Inv, Serial, NEW r \in Requests, Lawful(r), UndoCreate(r)
  PROVE  Own(r)
<1>1. /\ req[r].pc = "undo" /\ req'[r] = Ended(req[r], "failed")
      /\ UNCHANGED <<content, files>> \/ DeleteRow(req[r].cid)
  BY DEF UndoCreate, Statement, Inv, TypeInv, TypeOK
<1>2. QED BY <1>1, DeleteOwn

LEMMA DeleteContentOwn ==
  ASSUME Inv, Serial, NEW r \in Requests, Lawful(r), DeleteContent(r)
  PROVE  Own(r)
<1>1. /\ req[r].pc = "remove" /\ \E res : req'[r] = Ended(req[r], res)
      /\ UNCHANGED <<content, files>> \/ DeleteRow(req[r].cid)
  BY DEF DeleteContent, Statement, Inv, TypeInv, TypeOK
<1>2. QED BY <1>1, DeleteOwn

\* What is loaded is the entry at the slug of the call, and the envelope it is
\* under was opened before it is replaced.
LEMMA UpdateLoadedOwn ==
  ASSUME Inv, Serial, NEW r \in Requests, Lawful(r), req[r].pc = "load",
         UNCHANGED <<content, files>>, req[r].par.op = "update",
         NEW c \in RowsAt(req[r].par.slug), req'[r] = UpdateLoaded(r, req[r], c)
  PROVE  Own(r)
<1> DEFINE q == req[r]
           row == content[c]
           new == NextEnv(r, q.par, row.env)
<1>1. /\ q \in Request /\ q.cid = None /\ q.par \in Params /\ InFlight(r)
      /\ c \in Requests /\ content[c] # None /\ content[c].slug = q.par.slug
      /\ row \in Row
  BY DEF Inv, TypeInv, TypeOK, Shape, Statements, InFlight, RowsAt
<1>2. CASE Refused(q.par, row.env)
  <2>1. UpdateLoaded(r, q, c) = Ended(q, "rejected")
    BY <1>2 DEF UpdateLoaded
  <2>2. QED BY <1>1, <2>1, EndOwn
<1>3. CASE ~Refused(q.par, row.env)
  <2> DEFINE to == IF new = row.env THEN "save"
                   ELSE IF q.par.upload = None THEN "list" ELSE "apply"
             merged == Merged(r, q.par, row)
             u == [q EXCEPT !.pc = to, !.cid = c, !.row = merged, !.env = new]
  <2>1. UpdateLoaded(r, q, c) = u
    BY <1>3 DEF UpdateLoaded
  <2>2. merged.env = row.env
    BY <1>1 DEF Merged, Row
  <2>3. /\ to \in {"save", "list", "apply"}
        /\ to \in {"list", "apply"} => new # row.env
        /\ to = "list" => q.par.upload = None
        /\ to = "apply" => q.par.upload # None
    OBVIOUS
  <2>4. new # row.env => q.par.remove \/ (new # None /\ new.dek = r)
    <3>1. \A p \in Passphrases : [dek |-> r, pass |-> p] # None
      BY NoneAssumption DEF Envelope
    <3>2. q.par.pass # None => [dek |-> r, pass |-> q.par.pass] # None
      BY <1>1, <3>1 DEF Params
    <3>3. q.par.newpass # None => [dek |-> r, pass |-> q.par.newpass] # None
      BY <1>1, <3>1 DEF Params
    <3>4. QED BY <3>2, <3>3 DEF NextEnv
  <2>5. new # row.env /\ row.env # None => q.par.pass = row.env.pass
    BY <1>3 DEF NextEnv, Refused
  <2> HIDE DEF to, merged, new
  <2>6. /\ u.pc = to /\ u.cid = c /\ u.row = merged /\ u.env = new /\ u.par = q.par
    BY <1>1 DEF Request
  <2>7. req'[r] = u
    BY <2>1
  <2> HIDE DEF u
  <2>8. /\ req'[r].pc = to /\ req'[r].cid = c /\ req'[r].row = merged
        /\ req'[r].env = new /\ req'[r].par = q.par
    BY <2>6, <2>7
  <2>9. Orderly(r)
    BY <1>1, <2>3, <2>8 DEF Orderly, InFlight, Statements
  <2>10. to = "apply" => Rekeys(r, c)'
    BY <1>1, <2>3, <2>4, <2>8, NoneAssumption DEF Rekeys
  <2>11. Abreast(r)'
    <3>1. content'[c] # None /\ content'[c].env = row.env
      BY <1>1
    <3>2. PICK n : n = req'[r]
      OBVIOUS
    <3>3. /\ n.pc = to /\ n.cid = c /\ n.row.env = row.env /\ n.par = q.par
      BY <2>2, <2>8, <3>2
    <3>4. Rekeys(r, n.cid)' = Rekeys(r, c)'
      BY <3>3
    <3>5. to \in {"list", "apply"} /\ n.row.env # None => n.par.pass = n.row.env.pass
      BY <2>3, <2>5, <3>3
    <3>6. QED BY <2>3, <2>10, <3>1, <3>2, <3>3, <3>5 DEF Abreast
  <2>12. req'[r].pc # "done"
    BY <2>3, <2>8
  <2>13. QED BY <2>9, <2>11, <2>12, ReadOwn
<1>4. QED BY <1>2, <1>3

LEMMA LoadContentOwn ==
  ASSUME Inv, Serial, Created, NEW r \in Requests, Lawful(r), LoadContent(r)
  PROVE  Own(r)
<1>1. /\ req[r].pc = "load" /\ UNCHANGED <<content, files>>
      /\ \/ \E res \in {"failed", "rejected"} : req'[r] = Ended(req[r], res)
         \/ \E c \in RowsAt(req[r].par.slug) :
              req'[r] = IF req[r].par.op = "update" THEN UpdateLoaded(r, req[r], c)
                        ELSE [req[r] EXCEPT !.pc = "remove", !.cid = c,
                                            !.row = content[c]]
  BY DEF LoadContent, Statement, Inv, TypeInv, TypeOK
<1>2. /\ req[r] \in Request /\ req[r].cid = None /\ req[r].par \in Params
      /\ req[r].par # None /\ InFlight(r)
  BY <1>1, NoneAssumption DEF Inv, TypeInv, TypeOK, Shape, Statements, InFlight
<1>3. req[r].par.op \in {"update", "delete"}
  BY <1>1, <1>2 DEF Created, Creating, Params
<1>4. ASSUME NEW res \in {"failed", "rejected"}, req'[r] = Ended(req[r], res)
      PROVE  Own(r)
  BY <1>1, <1>2, <1>4, EndOwn
<1>5. ASSUME NEW c \in RowsAt(req[r].par.slug), req[r].par.op = "delete",
             req'[r] = [req[r] EXCEPT !.pc = "remove", !.cid = c, !.row = content[c]]
      PROVE  Own(r)
  <2>1. c \in Requests /\ content[c] # None /\ content[c].slug = req[r].par.slug
    BY DEF RowsAt
  <2>2. /\ req'[r].pc = "remove" /\ req'[r].cid = c /\ req'[r].row = content[c]
        /\ req'[r].par = req[r].par
    BY <1>2, <1>5 DEF Request
  <2>3. Orderly(r)
    BY <1>1, <1>2, <2>1, <2>2 DEF Orderly
  <2>4. Abreast(r)'
    BY <1>1, <1>5, <2>1, <2>2 DEF Abreast
  <2>5. QED BY <1>1, <2>2, <2>3, <2>4, ReadOwn
<1>6. QED BY <1>1, <1>3, <1>4, <1>5, UpdateLoadedOwn

\* A payload that is in step with the old envelope is rewritten to be in step with
\* the new one.
LEMMA RewriteFits ==
  ASSUME Inv, NEW r \in Requests, NEW q, q = req[r], q.pc = "list",
         NEW c, content[c].env = q.row.env, NEW f \in FilesOf(c)
  PROVE  /\ SameFile(f, Rewrite(q.row.env, q.env, f))
         /\ InStep(c) => Rewrite(q.row.env, q.env, f).seals = Seal(q.env, <<>>)
<1>1. f \in File
  BY DEF FilesOf, Inv, TypeInv, TypeOK
<1>2. LET g == Rewrite(q.row.env, q.env, f) IN
      /\ g.by = f.by /\ g.n = f.n
      /\ g.seals = Seal(q.env, IF q.row.env = None THEN f.seals ELSE Tail(f.seals))
  BY <1>1 DEF Rewrite, File
<1>3. InStep(c) => f.seals = Seal(q.row.env, <<>>)
  BY DEF InStep
<1>4. CASE q.row.env = None
  BY <1>2, <1>3, <1>4 DEF SameFile, Seal
<1>5. CASE q.row.env # None
  <2>1. q.row.env.dek \in Requests
    <3>1. q.row \in Row
      BY DEF Inv, TypeInv, Shape, HasRow
    <3>2. QED BY <1>5, <3>1 DEF Row, Envelope
  <2>2. Seal(q.row.env, <<>>) = <<q.row.env.dek>>
    BY <1>5, <2>1 DEF Seal
  <2>3. Tail(<<q.row.env.dek>>) = <<>>
    BY <2>1
  <2>4. QED BY <1>2, <1>3, <1>5, <2>2, <2>3 DEF SameFile
<1>6. QED BY <1>4, <1>5

\* The payloads an update has listed are to be put back in step.
LEMMA ListFilesOwn ==
  ASSUME Inv, Serial, NEW r \in Requests, Lawful(r), ListFiles(r)
  PROVE  Own(r)
<1>0. PICK q, c : q = req[r] /\ c = req[r].cid
  OBVIOUS
<1> DEFINE rew == {Rewrite(q.row.env, q.env, f) : f \in FilesOf(c)}
           listed == [q EXCEPT !.pc = "apply", !.rewritten = rew]
<1>1. /\ q.pc = "list" /\ UNCHANGED <<content, files>>
      /\ req'[r] = listed \/ req'[r] = Ended(q, "failed")
  BY <1>0 DEF ListFiles, Statement, Inv, TypeInv, TypeOK
<1>2. q \in Request /\ c \in Requests /\ InFlight(r)
  BY <1>0, <1>1 DEF Inv, TypeInv, TypeOK, Shape, HasRow, InFlight, Statements
<1>3. /\ content[c] # None /\ content[c].env = q.row.env
      /\ q.row.env # None => q.par.pass = q.row.env.pass
  BY <1>0, <1>1, <1>2, NoneAssumption DEF Serial, Abreast
<1>4. CASE req'[r] = Ended(q, "failed")
  BY <1>0, <1>1, <1>2, <1>4, EndOwn
<1>5. CASE req'[r] = listed
  <2>1. /\ req'[r].pc = "apply" /\ req'[r].rewritten = rew /\ req'[r].cid = c
        /\ req'[r].row = q.row /\ req'[r].env = q.env /\ req'[r].par = q.par
    BY <1>0, <1>2, <1>5 DEF Request
  <2>2. Orderly(r)
    BY <1>0, <1>1, <1>2, <1>3, <2>1 DEF Orderly
  <2>3. ASSUME NEW f \in FilesOf(c)
        PROVE  /\ SameFile(f, Rewrite(q.row.env, q.env, f))
               /\ InStep(c) => Rewrite(q.row.env, q.env, f).seals = Seal(q.env, <<>>)
    BY <1>0, <1>1, <1>3, RewriteFits
  <2>4. Clean(c)' => InStep(c)
    BY <1>2, <1>3, <2>2, RekeysStay DEF Serial, Whole
  <2>5. PICK n : n = req'[r]
    OBVIOUS
  <2>6. Rewritten(n)'
    <3>1. n.cid = c /\ n.rewritten = rew /\ n.env = q.env
      BY <2>1, <2>5
    <3>2. FilesOf(c)' = FilesOf(c)
      BY <1>1 DEF FilesOf
    <3>3. \A f \in FilesOf(c)' : \E g \in n.rewritten : SameFile(f, g)
      BY <2>3, <3>1, <3>2
    <3>4. Clean(c)' => \A g \in n.rewritten : g.seals = Seal(n.env, <<>>)
      BY <2>3, <2>4, <3>1
    <3>5. QED BY <3>1, <3>3, <3>4 DEF Rewritten
  <2> HIDE DEF rew, listed
  <2>7. Abreast(r)'
    <3>1. /\ n.pc = "apply" /\ n.cid = c /\ n.row = q.row /\ n.par = q.par
          /\ content'[c] # None /\ content'[c].env = n.row.env
      BY <1>1, <1>3, <2>1, <2>5
    <3>2. n.row.env # None => n.par.pass = n.row.env.pass
      BY <1>3, <3>1
    <3>3. Rewritten(req[r])'
      BY <2>5, <2>6 DEF Rewritten
    <3>4. QED BY <2>5, <3>1, <3>2, <3>3 DEF Abreast
  <2>8. QED BY <1>1, <2>1, <2>2, <2>7, ReadOwn
<1>6. QED BY <1>1, <1>4, <1>5

\* The transaction keeps the entry in step, or was in a call that also uploads.
LEMMA ApplyEncryptionOwn ==
  ASSUME Inv, Serial, NEW r \in Requests, Lawful(r), ApplyEncryption(r)
  PROVE  Own(r)
<1>0. PICK q, c : q = req[r] /\ c = req[r].cid
  OBVIOUS
<1> DEFINE kept == {f \in files : \A g \in q.rewritten : ~SameFile(f, g)}
           stored == {g \in q.rewritten : \E f \in files : SameFile(f, g)}
           saved == [q EXCEPT !.pc = "save", !.row.env = q.env, !.rewritten = {}]
<1>1. /\ q.pc = "apply"
      /\ \/ UNCHANGED <<content, files>> /\ req'[r] = Ended(q, "failed")
         \/ /\ content' = IF content[c] = None THEN content
                          ELSE [content EXCEPT ![c].env = q.env]
            /\ files' = kept \cup stored
            /\ req'[r] \in {saved, Ended(q, "failed")}
  BY <1>0 DEF ApplyEncryption, Statement, Inv, TypeInv, TypeOK
<1>2. q \in Request /\ c \in Requests /\ InFlight(r) /\ q.row \in Row
  BY <1>0, <1>1 DEF Inv, TypeInv, TypeOK, Shape, HasRow, InFlight, Statements
<1>3. /\ content[c] # None /\ content[c].env = q.row.env
      /\ q.row.env # None => q.par.pass = q.row.env.pass
      /\ Rekeys(r, c) \/ Rewritten(q)
  BY <1>0, <1>1, <1>2, NoneAssumption DEF Serial, Abreast
<1>4. CASE UNCHANGED <<content, files>> /\ req'[r] = Ended(q, "failed")
  BY <1>0, <1>2, <1>4, EndOwn
<1>5. CASE /\ content' = [content EXCEPT ![c].env = q.env]
           /\ files' = kept \cup stored
           /\ req'[r] \in {saved, Ended(q, "failed")}
  <2>1. /\ saved.pc = "save" /\ saved.cid = c /\ saved.row.env = q.env
        /\ saved.par = q.par /\ saved.env = q.env
    BY <1>0, <1>2 DEF Request, Row
  <2>2. /\ Ended(q, "failed").pc = "done" /\ Ended(q, "failed").cid = c
        /\ Ended(q, "failed").par = q.par /\ Ended(q, "failed").env = q.env
        /\ Ended(q, "failed").result = "failed"
    BY <1>0, <1>2 DEF Ended, Request
  <2> HIDE DEF saved
  <2>3. /\ req'[r].pc \in {"save", "done"} /\ req'[r].cid = c /\ req'[r].env = q.env
        /\ req'[r].par = q.par
        /\ req'[r].pc = "save" => req'[r].row.env = q.env
        /\ req'[r].pc = "done" => req'[r].result = "failed"
    BY <1>5, <2>1, <2>2
  <2>4. /\ content'[c] # None /\ content'[c].env = q.env
        /\ \A d \in Requests : d # c => content'[d] = content[d]
    <3>1. content[c] \in Row
      BY <1>2, <1>3 DEF Inv, TypeInv, TypeOK
    <3>2. content'[c] = [content[c] EXCEPT !.env = q.env]
      BY <1>2, <1>5 DEF Inv, TypeInv, TypeOK
    <3>3. content'[c].env = q.env /\ content'[c] # None
      <4>1. content'[c] \in Row
        BY <1>2, <3>1, <3>2 DEF Row, Request
      <4>2. QED BY <3>1, <3>2, <4>1, NoneAssumption DEF Row
    <3>4. QED BY <1>5, <3>3 DEF Inv, TypeInv, TypeOK
  <2>12. content[r] = None => content'[r] = None
    <3>1. content[r] = None => r # c
      BY <1>3
    <3>2. QED BY <2>4, <3>1
  <2>5. Orderly(r)
    <3>1. req[r].pc # "idle" /\ req'[r].pc # "insert"
      BY <1>0, <1>1, <2>3
    <3>2. req'[r].cid = req[r].cid /\ req'[r].env = req[r].env
      BY <1>0, <2>3
    <3>3. QED BY <1>2, <2>12, <3>1, <3>2 DEF Orderly
  <2>6. ASSUME NEW g \in FilesOf(c)'
        PROVE  \E f \in FilesOf(c) : f.by = g.by
    <3>1. CASE g \in kept
      BY <2>6, <3>1 DEF FilesOf
    <3>2. CASE g \in stored
      <4>1. PICK f \in files : SameFile(f, g)
        BY <3>2
      <4>2. g.cid = c /\ req[g.by].cid = g.cid
        BY <1>0, <3>2 DEF Inv, Ownership, OwnRewrites
      <4>3. req[f.by].cid = f.cid
        BY DEF Inv, Ownership, FileOwner
      <4>4. f.by = g.by /\ f.cid = c
        BY <4>1, <4>2, <4>3 DEF SameFile
      <4>5. QED BY <4>4 DEF FilesOf
    <3>3. QED BY <1>5, <2>6, <3>1, <3>2 DEF FilesOf
  <2>7. Clean(c)' => InStep(c)'
    <3>1. SUFFICES ASSUME Clean(c)', NEW g \in FilesOf(c)'
                   PROVE  g.seals = Seal(q.env, <<>>)
      BY <2>4 DEF InStep
    <3>2. Clean(c) /\ Rewritten(q)
      BY <1>2, <1>3, <2>5, <3>1, RekeysStay DEF Clean
    <3>3. g \notin kept
      BY <1>0, <3>1, <3>2 DEF Rewritten, FilesOf
    <3>4. g \in q.rewritten
      BY <1>5, <3>1, <3>3 DEF FilesOf
    <3>5. QED BY <1>0, <3>2, <3>4 DEF Rewritten
  <2>8. Whole(c)'
    <3>1. \A f, g \in FilesOf(c) : f.by = g.by
      BY <1>2, <1>3 DEF Serial, Whole
    <3>2. \A f, g \in FilesOf(c)' : f.by = g.by
      BY <2>6, <3>1
    <3>3. QED BY <2>7, <3>2 DEF Whole
  <2>9. Abreast(r)'
    BY <2>3, <2>4 DEF Abreast, InFlight, Statements
  <2>10. Guards(r)
    BY <1>0, <1>3, <2>4 DEF Guards
  <2>11. Restores(r)
    BY <2>3 DEF Restores
  <2>13. QED BY <1>0, <2>5, <2>8, <2>9, <2>10, <2>11, <2>12 DEF Own
<1>6. QED BY <1>1, <1>3, <1>4, <1>5

\* Metadata has nothing to do with it.
LEMMA SaveContentOwn ==
  ASSUME Inv, Serial, NEW r \in Requests, Lawful(r), SaveContent(r)
  PROVE  Own(r)
<1>0. PICK q, c : q = req[r] /\ c = req[r].cid
  OBVIOUS
<1>1. /\ q.pc = "save" /\ files' = files
      /\ content' = content \/ content' = [content EXCEPT ![c].meta = q.row.meta]
      /\ content[c] = None => content' = content
      /\ \/ req'[r] = Ended(q, "failed")
         \/ q.par.upload = None /\ req'[r] = Ended(q, "ok")
         \/ req'[r] = At(q, "drop")
  BY <1>0 DEF SaveContent, Statement, Inv, TypeInv, TypeOK
<1>2. q \in Request /\ c \in Requests /\ InFlight(r)
  BY <1>0, <1>1 DEF Inv, TypeInv, TypeOK, Shape, HasRow, InFlight, Statements
<1>3. content[c] # None /\ content[c].env = q.row.env
  BY <1>0, <1>1, <1>2, NoneAssumption DEF Serial, Abreast
<1>4. /\ content'[c] # None /\ content'[c].env = content[c].env
      /\ \A d \in Requests : d # c => content'[d] = content[d]
  <2>1. content[c] \in Row
    BY <1>2, <1>3 DEF Inv, TypeInv, TypeOK
  <2>2. content' = [content EXCEPT ![c].meta = q.row.meta]
          => content'[c] = [content[c] EXCEPT !.meta = q.row.meta]
    BY <1>2 DEF Inv, TypeInv, TypeOK
  <2>3. [content[c] EXCEPT !.meta = q.row.meta].env = content[c].env
    BY <2>1 DEF Row
  <2>4. content'[c] # None
    <3>1. q.row \in Row
      BY <1>0, <1>1 DEF Inv, TypeInv, Shape, HasRow
    <3>2. PICK m : m = q.row.meta
      OBVIOUS
    <3>3. m \in [Fields -> Requests]
      BY <3>1, <3>2 DEF Row
    <3>4. [content[c] EXCEPT !.meta = m] \in Row
      BY <2>1, <3>3 DEF Row
    <3>5. Row \cap {None} = {}
      BY NoneAssumption DEF Row
    <3>6. QED BY <1>1, <1>3, <2>2, <3>2, <3>4, <3>5
  <2>5. QED BY <1>1, <2>2, <2>3, <2>4 DEF Inv, TypeInv, TypeOK
<1>5. /\ req'[r].par = q.par /\ req'[r].cid = c /\ req'[r].row = q.row
      /\ req'[r].env = q.env
  BY <1>0, <1>1, <1>2, Carried
<1>6. /\ req'[r].pc \in {"done", "drop"}
      /\ req'[r].pc = "done" => req'[r].result = "failed" \/ q.par.upload = None
  <2>1. /\ Ended(q, "failed").pc = "done" /\ Ended(q, "failed").result = "failed"
        /\ Ended(q, "ok").pc = "done" /\ At(q, "drop").pc = "drop"
    BY <1>2 DEF Ended, At, Request
  <2>2. QED BY <1>1, <2>1
<1>11. content[r] = None => content'[r] = None
  <2>1. content[r] = None => r # c
    BY <1>3
  <2>2. QED BY <1>4, <2>1
<1>7. Orderly(r)
  <2>1. req[r].pc # "idle" /\ req'[r].pc # "insert"
    BY <1>0, <1>1, <1>6
  <2>2. req'[r].cid = req[r].cid /\ req'[r].env = req[r].env
    BY <1>0, <1>5
  <2>3. QED BY <1>2, <1>11, <2>1, <2>2 DEF Orderly
<1>8. Whole(c)'
  <2>1. FilesOf(c)' = FilesOf(c)
    BY <1>1 DEF FilesOf
  <2>2. Clean(c)' => InStep(c)
    BY <1>2, <1>3, <1>7, RekeysStay DEF Serial, Whole
  <2>3. InStep(c) => InStep(c)'
    BY <1>4, <2>1 DEF InStep
  <2>4. QED BY <1>2, <1>3, <2>1, <2>2, <2>3 DEF Serial, Whole
<1>9. Abreast(r)' /\ Restores(r)
  BY <1>3, <1>4, <1>5, <1>6 DEF Abreast, Restores
<1>10. Guards(r)
  BY <1>4 DEF Guards
<1>12. QED BY <1>0, <1>7, <1>8, <1>9, <1>10, <1>11 DEF Own

\* An upload begins without files.
LEMMA DropFilesOwn ==
  ASSUME Inv, Serial, NEW r \in Requests, Lawful(r), DropFiles(r)
  PROVE  Own(r)
<1>0. PICK q, c : q = req[r] /\ c = req[r].cid
  OBVIOUS
<1>1. /\ q.pc = "drop" /\ content' = content
      /\ \/ /\ files' = files \/ files' = files \ FilesOf(c)
            /\ req'[r] = Ended(q, "failed")
         \/ files' = files \ FilesOf(c) /\ req'[r] = StoreFrom(q, 1)
  BY <1>0 DEF DropFiles, Statement, Inv, TypeInv, TypeOK
<1>2. q \in Request /\ c \in Requests /\ InFlight(r)
  BY <1>0, <1>1 DEF Inv, TypeInv, TypeOK, Shape, HasRow, InFlight, Statements
<1>3. content[c] # None /\ content[c].env = q.row.env
  BY <1>0, <1>1, <1>2, NoneAssumption DEF Serial, Abreast
<1>4. /\ Moved(q, req'[r]) /\ req'[r].cid = c /\ req'[r].row = q.row
      /\ req'[r].env = q.env
      /\ req'[r].pc \in {"put", "undo", "done"}
  <2>1. Ended(q, "failed").pc = "done"
    BY <1>2 DEF Ended, Request
  <2>2. QED
    BY <1>0, <1>1, <1>2, <2>1, Carried, EndedMoves, StoreFromMoves, StoreFromEnds
<1>5. Orderly(r)
  BY <1>0, <1>1, <1>2, <1>4, MovedOrderly
<1>6. /\ FilesOf(c)' \subseteq FilesOf(c)
      /\ FilesOf(c)' = {} \/ req'[r] = Ended(q, "failed")
  BY <1>1 DEF FilesOf
<1>7. Whole(c)'
  <2>1. Clean(c)' => InStep(c)
    BY <1>2, <1>3, <1>5, RekeysStay DEF Serial, Whole
  <2>2. InStep(c) => InStep(c)'
    BY <1>1, <1>6 DEF InStep
  <2>3. QED BY <1>2, <1>3, <1>6, <2>1, <2>2 DEF Serial, Whole
<1>8. /\ Ended(q, "failed").pc = "done" /\ Ended(q, "failed").result = "failed"
  BY <1>2 DEF Ended, Request
<1>9. Abreast(r)'
  BY <1>1, <1>3, <1>4, <1>6, <1>8 DEF Abreast
<1>10. Guards(r)
  BY <1>1 DEF Guards
<1>11. Restores(r)
  BY <1>1, <1>4, <1>6, <1>8 DEF Restores, InStep
<1>12. QED BY <1>0, <1>1, <1>5, <1>7, <1>9, <1>10, <1>11 DEF Own

\* Every step does its part.
LEMMA StepOwn ==
  ASSUME Overlap = FALSE, Inv, Serial, Created, NEW r \in Requests, Lawful(r), Step(r)
  PROVE  Own(r)
  BY CallOwn, CheckSlugOwn, InsertContentOwn, PutFileOwn, UndoCreateOwn,
     LoadContentOwn, ListFilesOwn, ApplyEncryptionOwn, SaveContentOwn, DropFilesOwn,
     DeleteContentOwn DEF Step

\* A crash leaves entries as they are, and nothing at work on them.
LEMMA CrashSerial ==
  ASSUME Inv, Serial, Crash
  PROVE  Serial'
<1>1. UNCHANGED <<content, files>>
  BY DEF Crash
<1>2. ASSUME NEW s \in Requests
      PROVE  /\ req'[s].par = req[s].par /\ req'[s].cid = req[s].cid
             /\ req'[s].env = req[s].env /\ ~InFlight(s)'
             /\ req'[s].pc # "insert"
  <2>1. req'[s] = IF InFlight(s) THEN Ended(req[s], "crashed") ELSE req[s]
    BY DEF Crash
  <2>2. req[s] \in Request
    BY DEF Inv, TypeInv, TypeOK
  <2>3. /\ Ended(req[s], "crashed").par = req[s].par
        /\ Ended(req[s], "crashed").cid = req[s].cid
        /\ Ended(req[s], "crashed").env = req[s].env
        /\ Ended(req[s], "crashed").pc = "done"
    BY <2>2 DEF Ended, Request
  <2>4. QED BY <2>1, <2>3 DEF InFlight, Statements
<1>3. SameSlug'
  <2>1. ASSUME NEW s \in Requests, req[s].cid # None
        PROVE  req'[req'[s].cid].par.slug = req'[s].par.slug
    <3>1. req[s].cid \in Requests
      BY <2>1 DEF Inv, TypeInv, TypeOK, Request
    <3>2. QED BY <1>2, <2>1, <3>1 DEF Serial, SameSlug
  <2>2. QED BY <1>1, <1>2, <2>1 DEF Serial, SameSlug
<1>4. Alone' /\ \A s \in Requests : Abreast(s)'
  BY <1>2 DEF Alone, Abreast
<1>5. ASSUME NEW c \in Requests PROVE Whole(c)'
  <2>1. Clean(c)' = Clean(c)
    BY <1>2 DEF Clean, Rekeys
  <2>2. QED BY <1>1, <2>1 DEF Serial, Whole, InStep, FilesOf
<1>6. QED BY <1>3, <1>4, <1>5 DEF Serial

\* Without overlap the tables agree with what the calls have read.
LEMMA AlwaysSerial ==
  ASSUME Overlap = FALSE
  PROVE  Spec => []Serial
<1>1. Init => Serial
  <2> SUFFICES ASSUME Init PROVE Serial
    OBVIOUS
  <2>1. \A r \in Requests : /\ req[r].pc = "idle" /\ req[r].cid = None
                            /\ content[r] = None
    BY DEF Init, Idle
  <2>2. \A r \in Requests : ~InFlight(r)
    BY <2>1 DEF InFlight, Statements
  <2>3. QED BY <2>1, <2>2 DEF Serial, SameSlug, Alone, Abreast, Whole
<1>2. Inv /\ Inv' /\ Created /\ Serial /\ [Next]_vars => Serial'
  <2>1. ASSUME Inv, Inv', Created, Serial, NEW r \in Requests, Step(r)
        PROVE  Serial'
    <3>1. Lawful(r)
      BY <2>1, StepLawful DEF Inv
    <3>2. QED BY <2>1, <3>1, StepOwn, OwnSuffices
  <2>2. ASSUME Inv, Serial, Crash PROVE Serial'
    BY <2>2, CrashSerial
  <2>3. ASSUME Serial, UNCHANGED vars PROVE Serial'
    BY <2>3 DEF vars, Serial, SameSlug, Alone, Abreast, Whole, Clean, Rekeys, InStep,
                FilesOf, InFlight, Rewritten
  <2>4. QED BY <2>1, <2>2, <2>3 DEF Next, AllDone
<1>3. QED BY <1>1, <1>2, Invariant, AlwaysCreated, PTL DEF Spec

\* When calls for one slug do not overlap, the files of an entry come from one
\* upload, whatever fails in between: every path that stores files first drops
\* those that are there (UpdateContent, replaceFiles).
THEOREM UploadsStayWhole ==
  ASSUME Overlap = FALSE
  PROVE  Spec => []SingleUpload
<1>1. Inv /\ Serial => SingleUpload
  <2> SUFFICES ASSUME Inv, Serial, NEW f \in files, NEW g \in files, f.cid = g.cid
               PROVE  f.by = g.by
    BY DEF SingleUpload
  <2>1. f.cid \in Requests /\ content[f.cid] # None
    BY DEF Inv, TypeInv, TypeOK, File, Ownership, FileOwner
  <2>2. f \in FilesOf(f.cid) /\ g \in FilesOf(f.cid)
    BY DEF FilesOf
  <2>3. QED BY <2>1, <2>2 DEF Serial, Whole
<1>2. QED BY <1>1, Invariant, AlwaysSerial, PTL

\* When calls for one slug do not overlap, the envelope and the payloads of an
\* entry get out of step only through an update that changes the envelope and
\* uploads files too; failed statements, lost replies and crashes in any other
\* call leave them in step (ApplyEncryption's transaction).
THEOREM TornOnlyIfRekeyed ==
  ASSUME Overlap = FALSE
  PROVE  Spec => []TornOnlyByReplacement
<1>1. Serial => TornOnlyByReplacement
  BY DEF Serial, Whole, Clean, TornOnlyByReplacement
<1>2. QED BY <1>1, AlwaysSerial, PTL

\* When calls for one slug do not overlap, the envelope of a protected entry is
\* changed only by a request that gave the passphrase it is under at that very
\* moment, although the passphrase is checked statements earlier.
THEOREM PassphrasesGuard ==
  ASSUME Overlap = FALSE
  PROVE  Spec => PassphraseGuards
<1> DEFINE Given == \A c \in Requests :
             /\ content[c] # None /\ content[c].env # None
             /\ content'[c] # None /\ content'[c].env # content[c].env
             => \E r \in Requests : /\ req'[r] # req[r]
                                    /\ req[r].par.pass = content[c].env.pass
<1>1. Inv /\ Inv' /\ Created /\ Serial /\ [Next]_vars => Given
  <2>1. ASSUME Inv, Inv', Created, Serial, NEW r \in Requests, Step(r) PROVE Given
    <3>1. Lawful(r)
      BY <2>1, StepLawful DEF Inv
    <3>2. Guards(r) /\ req'[r] # req[r]
      BY <2>1, <3>1, StepOwn DEF Own, Lawful, LawfulRequest
    <3>3. QED BY <3>2 DEF Guards
  <2>2. ASSUME UNCHANGED content PROVE Given
    BY <2>2
  <2>3. QED BY <2>1, <2>2 DEF Next, Crash, AllDone, vars
<1> HIDE DEF Given
<1>2. Spec => [][Given]_vars
  BY <1>1, Invariant, AlwaysCreated, AlwaysSerial, PTL DEF Spec
<1>3. QED BY <1>2 DEF Given, PassphraseGuards

\* When calls for one slug do not overlap, an upload that is answered with success
\* leaves the entry in step, whatever state earlier failures had left it in.
THEOREM ReplacementsRestore ==
  ASSUME Overlap = FALSE
  PROVE  Spec => ReplacementRestores
<1> DEFINE Restored ==
             \A r, c \in Requests :
               /\ req[r].pc # "done" /\ req'[r].pc = "done" /\ req'[r].result = "ok"
               /\ req'[r].par.op # "delete" /\ req'[r].par.upload # None
               /\ req'[r].cid = c
               => InStep(c)'
<1>1. Inv /\ Inv' /\ Created /\ Serial /\ [Next]_vars => Restored
  <2>1. ASSUME Inv, Inv', Created, Serial, NEW r \in Requests, Step(r) PROVE Restored
    <3>1. Lawful(r)
      BY <2>1, StepLawful DEF Inv
    <3>2. Restores(r)
      BY <2>1, <3>1, StepOwn DEF Own
    <3>3. \A s \in Requests : s # r => req'[s] = req[s]
      BY <3>1 DEF Lawful, LawfulRequest
    <3>4. QED BY <3>2, <3>3 DEF Restores
  <2>2. ASSUME Inv, Crash PROVE Restored
    <3>1. \A s \in Requests : \/ req'[s] = req[s]
                              \/ req'[s].result = "crashed"
      BY <2>2 DEF Crash, Ended, Inv, TypeInv, TypeOK, Request
    <3>2. QED BY <3>1
  <2>3. ASSUME UNCHANGED req PROVE Restored
    BY <2>3
  <2>4. QED BY <2>1, <2>2, <2>3 DEF Next, AllDone, vars
<1> HIDE DEF Restored
<1>2. Spec => [][Restored]_vars
  BY <1>1, Invariant, AlwaysCreated, AlwaysSerial, PTL DEF Spec
<1>3. QED BY <1>2 DEF Restored, ReplacementRestores

-----------------------------------------------------------------------------
(* Fields that a call does not supply.                                     *)

\* The fields that request r will write back although it was not given them are
\* as they are in the table.
Unedited(r) ==
  LET q == req[r] IN
  q.pc \in {"list", "apply", "save"} =>
    \A x \in Fields : x \in q.par.sets \/ content[q.cid].meta[x] = q.row.meta[x]

\* A step of r changes no field of an entry but those an update was given.
Frugal(r) ==
  \A c \in Requests, x \in Fields :
    /\ content[c] # None /\ content'[c] # None
    /\ content'[c].meta[x] # content[c].meta[x]
    => /\ req[r].par # None /\ req[r].par.op = "update"
       /\ x \in req[r].par.sets

LEMMA OthersUnedited ==
  ASSUME Inv, Serial, NEW r \in Requests, Lawful(r), Orderly(r),
         NEW s \in Requests, s # r, Unedited(s)
  PROVE  Unedited(s)'
<1>1. req'[s] = req[s]
  BY DEF Lawful, LawfulRequest
<1> SUFFICES ASSUME req[s].pc \in {"list", "apply", "save"}
             PROVE  Unedited(s)'
  BY <1>1 DEF Unedited
<1>2. PICK c : c = req[s].cid
  OBVIOUS
<1>3. c \in Requests /\ InFlight(s)
  BY <1>2 DEF Inv, TypeInv, TypeOK, Shape, HasRow, InFlight, Statements
<1>4. content'[c] = content[c]
  BY <1>2, <1>3, OthersElsewhere
<1>5. \A x \in Fields : x \in req[s].par.sets \/ content[c].meta[x] = req[s].row.meta[x]
  BY <1>2 DEF Unedited
<1>6. QED BY <1>1, <1>2, <1>4, <1>5 DEF Unedited

\* Steps that leave the fields of every row alone and do not lead up to the UPDATE.
LEMMA OtherwiseFrugal ==
  ASSUME Inv, NEW r \in Requests,
         Call(r) \/ CheckSlug(r) \/ InsertContent(r) \/ PutFile(r) \/ UndoCreate(r)
         \/ DropFiles(r) \/ DeleteContent(r)
  PROVE  Frugal(r) /\ Unedited(r)'
<1>1. req[r] \in Request
  BY DEF Inv, TypeInv, TypeOK
<1>2. ASSUME NEW q \in Request
      PROVE  /\ \A res : Ended(q, res).pc = "done"
             /\ StoreError(q).pc \in {"undo", "done"}
             /\ \A n : StoreFrom(q, n).pc \in {"put", "undo", "done"}
  <2>1. \A res : Ended(q, res).pc = "done"
    BY DEF Ended, Request
  <2>2. At(q, "undo").pc = "undo"
    BY DEF At, Request
  <2>3. StoreError(q).pc \in {"undo", "done"}
    BY <2>1, <2>2 DEF StoreError
  <2>4. \A n : [q EXCEPT !.pc = "put", !.next = n].pc = "put"
    BY DEF Request
  <2>5. QED BY <2>1, <2>3, <2>4 DEF StoreFrom
<1>3. req'[r].pc \notin {"list", "apply", "save"}
  <2>1. CASE Call(r)
    <3>1. PICK p \in Plans[r] : Make(r, p)
      BY <2>1 DEF Call
    <3>2. PICK q : q = [req[r] EXCEPT !.par = p]
      OBVIOUS
    <3>3. q \in Request
      BY <1>1, <3>1, <3>2, PlansAssumption DEF Request
    <3>4. \/ req'[r] = At(q, "load") \/ req'[r] = At(q, "check")
          \/ req'[r] = Ended(q, "rejected")
      BY <3>1, <3>2 DEF Make, Inv, TypeInv, TypeOK
    <3>5. At(q, "load").pc = "load" /\ At(q, "check").pc = "check"
      BY <3>3 DEF At, Request
    <3>6. QED BY <1>2, <3>3, <3>4, <3>5
  <2>2. CASE CheckSlug(r)
    <3>1. \/ \E res : req'[r] = Ended(req[r], res)
          \/ \E row : req'[r] = [req[r] EXCEPT !.pc = "insert", !.row = row]
      BY <2>2 DEF CheckSlug, Inv, TypeInv, TypeOK
    <3>2. \A row : [req[r] EXCEPT !.pc = "insert", !.row = row].pc = "insert"
      BY <1>1 DEF Request
    <3>3. QED BY <1>1, <1>2, <3>1, <3>2
  <2>3. CASE InsertContent(r)
    <3>1. PICK q : q = [req[r] EXCEPT !.cid = r]
      OBVIOUS
    <3>2. q \in Request
      BY <1>1, <3>1 DEF Request
    <3>3. req'[r] = Ended(req[r], "failed") \/ req'[r] = StoreFrom(q, 1)
      BY <2>3, <3>1 DEF InsertContent, Inv, TypeInv, TypeOK
    <3>4. QED BY <1>1, <1>2, <3>2, <3>3
  <2>4. CASE PutFile(r) \/ UndoCreate(r) \/ DropFiles(r) \/ DeleteContent(r)
    <3>1. \/ \E res : req'[r] = Ended(req[r], res)
          \/ req'[r] = StoreError(req[r])
          \/ \E n : req'[r] = StoreFrom(req[r], n)
      BY <2>4 DEF PutFile, UndoCreate, DropFiles, DeleteContent, Inv, TypeInv, TypeOK
    <3>2. QED BY <1>1, <1>2, <3>1
  <2>5. QED BY <2>1, <2>2, <2>3, <2>4
<1>4. ASSUME NEW c \in Requests, content[c] # None, content'[c] # None
      PROVE  content'[c] = content[c]
  <2>1. CASE InsertContent(r)
    <3>1. content[r] = None
      BY <2>1 DEF InsertContent, Statement, Inv, Ownership, RowOwner, Early
    <3>2. QED BY <1>4, <2>1, <3>1 DEF InsertContent, Inv, TypeInv, TypeOK
  <2>2. CASE Call(r) \/ CheckSlug(r) \/ PutFile(r) \/ DropFiles(r)
    BY <2>2 DEF Call, Make, CheckSlug, PutFile, DropFiles
  <2>3. CASE UndoCreate(r) \/ DeleteContent(r)
    BY <1>4, <2>3 DEF UndoCreate, DeleteContent, DeleteRow, Inv, TypeInv, TypeOK
  <2>4. QED BY <2>1, <2>2, <2>3
<1>5. QED BY <1>3, <1>4 DEF Frugal, Unedited

\* An update merges the fields it was given into the row it has just read.
LEMMA LoadFrugal ==
  ASSUME Inv, NEW r \in Requests, LoadContent(r)
  PROVE  Frugal(r) /\ Unedited(r)'
<1>0. PICK q : q = req[r]
  OBVIOUS
<1>1. q \in Request /\ UNCHANGED content
  BY <1>0 DEF LoadContent, Inv, TypeInv, TypeOK
<1>2. \/ \E res : req'[r] = Ended(q, res)
      \/ \E c \in RowsAt(q.par.slug) :
           req'[r] = IF q.par.op = "update" THEN UpdateLoaded(r, q, c)
                     ELSE [q EXCEPT !.pc = "remove", !.cid = c, !.row = content[c]]
  BY <1>0 DEF LoadContent, Inv, TypeInv, TypeOK
<1>3. Frugal(r)
  BY <1>1 DEF Frugal
<1>4. ASSUME NEW res, req'[r] = Ended(q, res) PROVE Unedited(r)'
  BY <1>1, <1>4 DEF Ended, Request, Unedited
<1>5. ASSUME NEW c, req'[r] = [q EXCEPT !.pc = "remove", !.cid = c, !.row = content[c]]
      PROVE  Unedited(r)'
  <2>1. req'[r].pc = "remove"
    BY <1>1, <1>5 DEF Request
  <2>2. QED BY <2>1 DEF Unedited
<1>6. ASSUME NEW c \in RowsAt(q.par.slug), req'[r] = UpdateLoaded(r, q, c),
             ~Refused(q.par, content[c].env)
      PROVE  Unedited(r)'
  <2>1. PICK row, u : row = content[c] /\ u = Merged(r, q.par, content[c])
    OBVIOUS
  <2>2. row \in Row
    BY <2>1 DEF RowsAt, Inv, TypeInv, TypeOK
  <2>3. PICK pc, e : req'[r] = [q EXCEPT !.pc = pc, !.cid = c, !.row = u, !.env = e]
    BY <1>6, <2>1 DEF UpdateLoaded
  <2>4. req'[r].cid = c /\ req'[r].row = u /\ req'[r].par = q.par
    BY <1>1, <2>3 DEF Request
  <2>5. \A x \in Fields : x \in q.par.sets \/ u.meta[x] = row.meta[x]
    BY <2>1, <2>2 DEF Merged, Row
  <2>6. content'[c] = row
    BY <1>1, <2>1
  <2>7. QED BY <2>4, <2>5, <2>6 DEF Unedited
<1>7. ASSUME NEW c \in RowsAt(q.par.slug), req'[r] = UpdateLoaded(r, q, c),
             Refused(q.par, content[c].env)
      PROVE  Unedited(r)'
  BY <1>4, <1>7 DEF UpdateLoaded
<1>8. QED BY <1>2, <1>3, <1>4, <1>5, <1>6, <1>7

\* A key change leaves fields alone, and the UPDATE stores what was merged.
LEMMA UpdateFrugal ==
  ASSUME Inv, Serial, NEW r \in Requests, Unedited(r),
         ListFiles(r) \/ ApplyEncryption(r) \/ SaveContent(r)
  PROVE  Frugal(r) /\ Unedited(r)'
<1>0. PICK q, c : q = req[r] /\ c = req[r].cid
  OBVIOUS
<1>1. /\ q \in Request /\ q.row \in Row /\ c \in Requests /\ q.cid = c
      /\ InFlight(r) /\ q.pc \in {"list", "apply", "save"}
      /\ q.par # None /\ q.par.op = "update"
  BY <1>0, NoneAssumption
  DEF ListFiles, ApplyEncryption, SaveContent, Statement, Inv, TypeInv, TypeOK, Shape,
      HasRow, InFlight, Statements
<1>2. PICK row : row = content[c]
  OBVIOUS
<1>3. row \in Row /\ row # None
  BY <1>0, <1>1, <1>2, NoneAssumption DEF Serial, Abreast, Inv, TypeInv, TypeOK
<1>4. \A x \in Fields : x \in q.par.sets \/ row.meta[x] = q.row.meta[x]
  BY <1>0, <1>1, <1>2 DEF Unedited
<1>5. CASE ListFiles(r)
  <2>1. /\ UNCHANGED content
        /\ \/ req'[r] = Ended(q, "failed")
           \/ \E rew : req'[r] = [q EXCEPT !.pc = "apply", !.rewritten = rew]
    BY <1>0, <1>5 DEF ListFiles, Inv, TypeInv, TypeOK
  <2>2. req'[r].cid = c /\ req'[r].row = q.row /\ req'[r].par = q.par
    BY <1>1, <2>1 DEF Ended, Request
  <2>3. QED BY <1>2, <1>4, <2>1, <2>2 DEF Frugal, Unedited
<1>6. CASE ApplyEncryption(r)
  <2>1. /\ content' = content \/ content' = [content EXCEPT ![c].env = q.env]
        /\ \/ req'[r] = Ended(q, "failed")
           \/ req'[r] = [q EXCEPT !.pc = "save", !.row.env = q.env, !.rewritten = {}]
    BY <1>0, <1>6 DEF ApplyEncryption, Inv, TypeInv, TypeOK
  <2>2. req'[r].cid = c /\ req'[r].row.meta = q.row.meta /\ req'[r].par = q.par
    <3>1. PICK w : w = [q.row EXCEPT !.env = q.env]
      OBVIOUS
    <3>2. w.meta = q.row.meta
      BY <1>1, <3>1 DEF Row
    <3>3. CASE req'[r] = Ended(q, "failed")
      BY <1>1, <3>3, Carried
    <3>4. CASE req'[r] # Ended(q, "failed")
      <4>1. req'[r].cid = q.cid /\ req'[r].row = w /\ req'[r].par = q.par
        BY <1>1, <2>1, <3>1, <3>4 DEF Request
      <4>2. QED BY <1>1, <3>2, <4>1
    <3>5. QED BY <3>3, <3>4
  <2>3. /\ content'[c].meta = row.meta
        /\ \A d \in Requests : d # c => content'[d] = content[d]
    BY <1>1, <1>2, <1>3, <2>1 DEF Row, Inv, TypeInv, TypeOK
  <2>4. Frugal(r)
    BY <1>2, <2>3 DEF Frugal
  <2>5. QED BY <1>4, <2>2, <2>3, <2>4 DEF Unedited
<1>7. CASE SaveContent(r)
  <2>1. /\ content' = content \/ content' = [content EXCEPT ![c].meta = q.row.meta]
        /\ (\E res : req'[r] = Ended(q, res)) \/ req'[r] = At(q, "drop")
    BY <1>0, <1>7 DEF SaveContent, Inv, TypeInv, TypeOK
  <2>2. req'[r].pc \in {"done", "drop"}
    BY <1>1, <2>1 DEF Ended, At, Request
  <2>3. /\ content'[c].meta \in {row.meta, q.row.meta}
        /\ \A d \in Requests : d # c => content'[d] = content[d]
    BY <1>1, <1>2, <1>3, <2>1 DEF Row, Inv, TypeInv, TypeOK
  <2>4. Frugal(r)
    BY <1>0, <1>1, <1>2, <1>4, <2>3 DEF Frugal
  <2>5. QED BY <2>2, <2>4 DEF Unedited
<1>8. QED BY <1>5, <1>6, <1>7

LEMMA StepFrugal ==
  ASSUME Inv, Serial, NEW r \in Requests, Unedited(r), Step(r)
  PROVE  Frugal(r) /\ Unedited(r)'
  BY OtherwiseFrugal, LoadFrugal, UpdateFrugal DEF Step

\* Without overlap every request still has the fields it was not given.
LEMMA AlwaysUnedited ==
  ASSUME Overlap = FALSE
  PROVE  Spec => [](\A s \in Requests : Unedited(s))
<1> DEFINE AllUnedited == \A s \in Requests : Unedited(s)
<1>1. Init => AllUnedited
  BY DEF Init, Idle, Unedited
<1>2. Inv /\ Created /\ Serial /\ AllUnedited /\ [Next]_vars /\ Inv' => AllUnedited'
  <2>1. ASSUME Inv, Inv', Created, Serial, AllUnedited, NEW r \in Requests, Step(r)
        PROVE  AllUnedited'
    <3>1. Lawful(r)
      BY <2>1, StepLawful DEF Inv
    <3>2. Orderly(r)
      BY <2>1, <3>1, StepOwn DEF Own
    <3>3. ASSUME NEW s \in Requests PROVE Unedited(s)'
      BY <2>1, <3>1, <3>2, OthersUnedited, StepFrugal
    <3>4. QED BY <3>3
  <2>2. ASSUME Inv, AllUnedited, Crash PROVE AllUnedited'
    <3>1. UNCHANGED content
      BY <2>2 DEF Crash
    <3>2. \A s \in Requests : req'[s] = req[s] \/ req'[s].pc = "done"
      BY <2>2 DEF Crash, Ended, Inv, TypeInv, TypeOK, Request
    <3>3. QED BY <2>2, <3>1, <3>2 DEF Unedited
  <2>3. ASSUME AllUnedited, UNCHANGED vars PROVE AllUnedited'
    BY <2>3 DEF vars, Unedited
  <2>4. QED BY <2>1, <2>2, <2>3 DEF Next, AllDone
<1> HIDE DEF AllUnedited
<1>3. Spec => []AllUnedited
  BY <1>1, <1>2, Invariant, AlwaysCreated, AlwaysSerial, PTL DEF Spec
<1>4. QED BY <1>3 DEF AllUnedited

\* Hence fields of an entry change only by updates that supply them.
Supplied == \A c \in Requests, f \in Fields :
  /\ content[c] # None /\ content'[c] # None
  /\ content'[c].meta[f] # content[c].meta[f]
  => \E r \in Requests : /\ req'[r] # req[r] /\ f \in req[r].par.sets
                         /\ req[r].par # None /\ req[r].par.op = "update"

LEMMA AlwaysSupplied ==
  ASSUME Overlap = FALSE
  PROVE  Spec => [][Supplied]_vars
<1> DEFINE AllUnedited == \A s \in Requests : Unedited(s)
<1>1. Inv /\ Inv' /\ Serial /\ AllUnedited /\ [Next]_vars => Supplied
  <2>1. ASSUME Inv, Inv', Serial, AllUnedited, NEW r \in Requests, Step(r)
        PROVE  Supplied
    <3>1. req'[r] # req[r]
      BY <2>1, StepLawful DEF Inv, Lawful, LawfulRequest
    <3>2. Frugal(r)
      BY <2>1, StepFrugal
    <3>3. QED BY <3>1, <3>2 DEF Frugal, Supplied
  <2>2. ASSUME UNCHANGED content PROVE Supplied
    BY <2>2 DEF Supplied
  <2>3. QED BY <2>1, <2>2 DEF Next, Crash, AllDone, vars
<1>2. Spec => []AllUnedited
  BY AlwaysUnedited
<1> HIDE DEF AllUnedited
<1>3. QED BY <1>1, <1>2, Invariant, AlwaysSerial, PTL DEF Spec

\* When calls for one slug do not overlap, a field changes only by a request that
\* supplies it: the UPDATE writes every column from a copy of the row, but the copy
\* is still true (Merged, UpdateContent).  With overlap it is not.
THEOREM NilIsKept ==
  ASSUME Overlap = FALSE
  PROVE  Spec => NilLeavesUnchanged
<1> DEFINE GivenOnly == \A c \in Requests, f \in Fields :
             /\ content[c] # None /\ content'[c] # None
             /\ content'[c].meta[f] # content[c].meta[f]
             => \E r \in Requests : req'[r] # req[r] /\ f \in req[r].par.sets
<1>1. Supplied => GivenOnly
  BY DEF Supplied
<1> HIDE DEF GivenOnly
<1>2. Spec => [][GivenOnly]_vars
  BY <1>1, AlwaysSupplied, PTL
<1>3. QED BY <1>2 DEF GivenOnly, NilLeavesUnchanged

-----------------------------------------------------------------------------
(* Without a fault: what is torn is about to be replaced.                  *)

\* Request r has yet to drop the files of entry c and store its own.
Replacing(r, c) ==
  /\ req[r].cid = c /\ req[r].pc \in {"save", "drop"} /\ req[r].par.upload # None

\* The payloads that r is about to put back fit the envelope.
Fits(r) == req[r].pc = "apply" /\ req[r].par.upload = None
             => \A g \in req[r].rewritten : g.seals = Seal(req[r].env, <<>>)

Rests(c) == content[c] # None => InStep(c) \/ \E r \in Requests : Replacing(r, c)

Settled == faults = 0 => /\ \A c \in Requests : Rests(c)
                         /\ \A r \in Requests : Fits(r)

\* What a step of r has to show.
Leaves(r) ==
  /\ \A c \in Requests : c = req[r].cid /\ content'[c] # None
                           => InStep(c)' \/ Replacing(r, c)'
  /\ Fits(r)'

LEMMA LeavesSuffices ==
  ASSUME Inv, Serial, NEW r \in Requests, Lawful(r), Leaves(r), Settled, faults = 0
  PROVE  Settled'
<1>1. \A s \in Requests \ {r} : req'[s] = req[s]
  BY DEF Lawful, LawfulRequest
<1>2. \A s \in Requests : Fits(s)'
  BY <1>1 DEF Settled, Fits, Leaves
<1>3. ASSUME NEW c \in Requests, content'[c] # None PROVE Rests(c)'
  <2>1. CASE c = req[r].cid
    BY <1>3, <2>1 DEF Leaves, Rests
  <2>2. CASE c # req[r].cid /\ content'[c] = content[c]
    <3>1. FilesOf(c)' = FilesOf(c)
      BY <2>2, OtherFiles
    <3>2. InStep(c) => InStep(c)'
      BY <2>2, <3>1 DEF InStep
    <3>3. \A s \in Requests : Replacing(s, c) => Replacing(s, c)'
      BY <1>1, <2>2 DEF Replacing
    <3>4. QED BY <1>3, <2>2, <3>2, <3>3 DEF Settled, Rests
  <2>3. CASE c # req[r].cid /\ content'[c] # content[c]
    <3>1. content[c] = None
      BY <2>3 DEF Lawful, LawfulRows
    <3>2. FilesOf(c)' = {}
      <4>1. FilesOf(c) = {}
        BY <3>1 DEF FilesOf, Inv, Ownership, FileOwner
      <4>2. QED BY <2>3, <4>1, OtherFiles
    <3>3. QED BY <3>2 DEF Rests, InStep
  <2>4. QED BY <2>1, <2>2, <2>3
<1>4. QED BY <1>2, <1>3 DEF Settled, Rests

\* An entry that its only request does not replace is in step.
LEMMA AtHand ==
  ASSUME Inv, Serial, Settled, faults = 0,
         NEW r \in Requests, InFlight(r), NEW c \in Requests, c = req[r].cid,
         req[r].pc \notin {"save", "drop"} \/ req[r].par.upload = None
  PROVE  content[c] # None /\ InStep(c)
<1>1. content[c] # None
  BY NoneAssumption DEF Serial, Abreast
<1>2. ASSUME NEW s \in Requests, Replacing(s, c) PROVE FALSE
  <2>1. InFlight(s) /\ req[s].cid = c
    BY <1>2 DEF Replacing, InFlight, Statements
  <2>2. req[s].par.slug = req[r].par.slug
    BY <2>1, NoneAssumption DEF Serial, SameSlug
  <2>3. s = r
    BY <2>1, <2>2 DEF Serial, Alone
  <2>4. QED BY <1>2, <2>3 DEF Replacing
<1>3. QED BY <1>1, <1>2 DEF Settled, Rests

\* A request that has no entry at hand has only its own record to look after.
LEMMA CallLeaves ==
  ASSUME Inv, NEW r \in Requests, Call(r)
  PROVE  Leaves(r)
<1>1. PICK p \in Plans[r] : Make(r, p)
  BY DEF Call
<1> DEFINE q == [req[r] EXCEPT !.par = p]
<1>2. req[r] \in Request /\ req[r].cid = None
  BY <1>1 DEF Make, Inv, TypeInv, TypeOK, Shape, Ownership, Early
<1>3. req'[r] \in {At(q, "load"), At(q, "check"), Ended(q, "rejected")}
  BY <1>1 DEF Make, Inv, TypeInv, TypeOK
<1>4. req'[r].pc # "apply"
  BY <1>2, <1>3 DEF At, Ended, Request
<1>5. QED BY <1>2, <1>4, NoneAssumption DEF Leaves, Fits

LEMMA CheckSlugLeaves ==
  ASSUME Inv, NEW r \in Requests, CheckSlug(r)
  PROVE  Leaves(r)
<1>1. /\ req[r].pc = "check"
      /\ \/ \E res \in {"failed", "rejected"} : req'[r] = Ended(req[r], res)
         \/ req'[r] = [req[r] EXCEPT !.pc = "insert", !.row = NewRow(r, req[r].par)]
  BY DEF CheckSlug, Statement, Inv, TypeInv, TypeOK
<1>2. req[r] \in Request /\ req[r].cid = None
  BY <1>1 DEF Inv, TypeInv, TypeOK, Shape
<1>3. req'[r].pc # "apply"
  BY <1>1, <1>2 DEF Ended, Request
<1>4. QED BY <1>2, <1>3, NoneAssumption DEF Leaves, Fits

LEMMA InsertContentLeaves ==
  ASSUME Inv, NEW r \in Requests, InsertContent(r)
  PROVE  Leaves(r)
<1> DEFINE q == [req[r] EXCEPT !.cid = r]
<1>1. /\ req[r].pc = "insert"
      /\ req'[r] \in {Ended(req[r], "failed"), StoreFrom(q, 1)}
  BY DEF InsertContent, Statement, Inv, TypeInv, TypeOK
<1>2. req[r] \in Request /\ req[r].cid = None
  BY <1>1 DEF Inv, TypeInv, TypeOK, Shape
<1>3. req'[r].pc # "apply"
  <2>1. Ended(req[r], "failed").pc = "done"
    BY <1>2 DEF Ended, Request
  <2>2. q \in Request
    BY <1>2 DEF Request
  <2> HIDE DEF q
  <2>3. QED BY <1>1, <2>1, <2>2, StoreFromEnds
<1>4. QED BY <1>2, <1>3, NoneAssumption DEF Leaves, Fits

LEMMA LoadContentLeaves ==
  ASSUME Inv, NEW r \in Requests, LoadContent(r)
  PROVE  Leaves(r)
<1>1. /\ req[r].pc = "load"
      /\ \/ \E res \in {"failed", "rejected"} : req'[r] = Ended(req[r], res)
         \/ \E c \in Requests :
              req'[r] = IF req[r].par.op = "update" THEN UpdateLoaded(r, req[r], c)
                        ELSE [req[r] EXCEPT !.pc = "remove", !.cid = c,
                                            !.row = content[c]]
  BY DEF LoadContent, Statement, Inv, TypeInv, TypeOK, RowsAt
<1>2. req[r] \in Request /\ req[r].cid = None
  BY <1>1 DEF Inv, TypeInv, TypeOK, Shape
<1>3. ASSUME NEW c \in Requests, NEW q, q = UpdateLoaded(r, req[r], c)
      PROVE  q.pc = "apply" => q.par.upload # None
  <2> DEFINE row == content[c]
             new == NextEnv(r, req[r].par, row.env)
             to == IF new = row.env THEN "save"
                   ELSE IF req[r].par.upload = None THEN "list" ELSE "apply"
             merged == Merged(r, req[r].par, row)
             u == [req[r] EXCEPT !.pc = to, !.cid = c, !.row = merged, !.env = new]
  <2>1. q \in {Ended(req[r], "rejected"), u}
    BY <1>3 DEF UpdateLoaded
  <2>2. to = "apply" => req[r].par.upload # None
    OBVIOUS
  <2> HIDE DEF to, new, merged
  <2>3. u.pc = to /\ u.par = req[r].par /\ Ended(req[r], "rejected").pc = "done"
    BY <1>2 DEF Ended, Request
  <2> HIDE DEF u
  <2>4. QED BY <2>1, <2>2, <2>3
<1>4. Fits(r)'
  <2>1. ASSUME NEW res \in {"failed", "rejected"}, req'[r] = Ended(req[r], res)
        PROVE  req'[r].pc = "done"
    BY <1>2, <2>1 DEF Ended, Request
  <2>2. ASSUME NEW c \in Requests,
               req'[r] = [req[r] EXCEPT !.pc = "remove", !.cid = c, !.row = content[c]]
        PROVE  req'[r].pc = "remove"
    BY <1>2, <2>2 DEF Request
  <2>3. QED BY <1>1, <1>3, <2>1, <2>2 DEF Fits
<1>5. QED BY <1>2, <1>4, NoneAssumption DEF Leaves

\* What is listed is in step, so it is rewritten to fit.
LEMMA ListFilesLeaves ==
  ASSUME Inv, Serial, Settled, faults = 0, NEW r \in Requests, ListFiles(r)
  PROVE  Leaves(r)
<1>0. PICK q, c : q = req[r] /\ c = req[r].cid
  OBVIOUS
<1> DEFINE rew == {Rewrite(q.row.env, q.env, f) : f \in FilesOf(c)}
           listed == [q EXCEPT !.pc = "apply", !.rewritten = rew]
<1>1. /\ q.pc = "list" /\ UNCHANGED <<content, files>>
      /\ req'[r] = listed \/ req'[r] = Ended(q, "failed")
  BY <1>0 DEF ListFiles, Statement, Inv, TypeInv, TypeOK
<1>2. q \in Request /\ c \in Requests /\ InFlight(r)
  BY <1>0, <1>1 DEF Inv, TypeInv, TypeOK, Shape, HasRow, InFlight, Statements
<1>3. content[c] # None /\ InStep(c) /\ content[c].env = q.row.env
  BY <1>0, <1>1, <1>2, AtHand, NoneAssumption DEF Serial, Abreast
<1>4. InStep(c)'
  BY <1>1, <1>3 DEF InStep, FilesOf
<1>5. ASSUME NEW f \in FilesOf(c)
      PROVE  Rewrite(q.row.env, q.env, f).seals = Seal(q.env, <<>>)
  BY <1>0, <1>1, <1>3, RewriteFits
<1>6. Fits(r)'
  <2>1. listed.rewritten = rew /\ listed.env = q.env /\ Ended(q, "failed").pc = "done"
    BY <1>2 DEF Ended, Request
  <2>2. \A g \in rew : g.seals = Seal(q.env, <<>>)
    BY <1>5
  <2> HIDE DEF listed, rew
  <2>3. QED BY <1>1, <2>1, <2>2 DEF Fits
<1>7. QED BY <1>0, <1>4, <1>6 DEF Leaves

\* The transaction leaves the entry in step, unless the upload is still to come.
LEMMA ApplyEncryptionLeaves ==
  ASSUME Inv, Serial, Settled, faults = 0, faults' = 0,
         NEW r \in Requests, ApplyEncryption(r)
  PROVE  Leaves(r)
<1>0. PICK q, c : q = req[r] /\ c = req[r].cid
  OBVIOUS
<1> DEFINE kept == {f \in files : \A g \in q.rewritten : ~SameFile(f, g)}
           stored == {g \in q.rewritten : \E f \in files : SameFile(f, g)}
           saved == [q EXCEPT !.pc = "save", !.row.env = q.env, !.rewritten = {}]
<1>1. /\ q.pc = "apply"
      /\ content' = IF content[c] = None THEN content
                    ELSE [content EXCEPT ![c].env = q.env]
      /\ files' = kept \cup stored
      /\ req'[r] = saved
  BY <1>0 DEF ApplyEncryption, Statement, Inv, TypeInv, TypeOK
<1>2. q \in Request /\ c \in Requests /\ InFlight(r) /\ q.row \in Row
  BY <1>0, <1>1 DEF Inv, TypeInv, TypeOK, Shape, HasRow, InFlight, Statements
<1>3. content[c] # None /\ (Rekeys(r, c) \/ Rewritten(q)) /\ Fits(r)
  BY <1>0, <1>1, <1>2, NoneAssumption DEF Serial, Abreast, Settled
<1>4. saved.pc = "save" /\ saved.cid = c /\ saved.par = q.par
  BY <1>0, <1>2 DEF Request
<1> HIDE DEF saved
<1>5. CASE q.par.upload # None
  <2>1. Replacing(r, c)'
    BY <1>1, <1>4, <1>5 DEF Replacing
  <2>2. QED BY <1>0, <1>1, <1>4, <2>1 DEF Leaves, Fits
<1>6. CASE q.par.upload = None
  <2>1. Rewritten(q) /\ \A g \in q.rewritten : g.seals = Seal(q.env, <<>>)
    BY <1>0, <1>1, <1>3, <1>6 DEF Rekeys, Fits
  <2>2. ASSUME NEW g \in FilesOf(c)' PROVE g.seals = Seal(q.env, <<>>)
    <3>1. g \notin kept
      BY <1>0, <2>1, <2>2 DEF Rewritten, FilesOf
    <3>2. g \in q.rewritten
      BY <1>1, <2>2, <3>1 DEF FilesOf
    <3>3. QED BY <2>1, <3>2
  <2>3. content'[c].env = q.env
    <3>1. content[c] \in Row
      BY <1>2, <1>3 DEF Inv, TypeInv, TypeOK
    <3>2. content'[c] = [content[c] EXCEPT !.env = q.env]
      BY <1>1, <1>2, <1>3 DEF Inv, TypeInv, TypeOK
    <3>3. QED BY <3>1, <3>2 DEF Row
  <2>4. InStep(c)'
    BY <2>2, <2>3 DEF InStep
  <2>5. QED BY <1>0, <1>1, <1>4, <2>4 DEF Leaves, Fits
<1>7. QED BY <1>5, <1>6

LEMMA SaveContentLeaves ==
  ASSUME Inv, Serial, Settled, faults = 0, faults' = 0,
         NEW r \in Requests, SaveContent(r)
  PROVE  Leaves(r)
<1>0. PICK q, c : q = req[r] /\ c = req[r].cid
  OBVIOUS
<1>1. /\ q.pc = "save" /\ files' = files
      /\ content' = IF content[c] = None THEN content
                    ELSE [content EXCEPT ![c].meta = q.row.meta]
      /\ req'[r] = IF q.par.upload = None THEN Ended(q, "ok") ELSE At(q, "drop")
  BY <1>0 DEF SaveContent, Statement, Inv, TypeInv, TypeOK
<1>2. q \in Request /\ c \in Requests /\ InFlight(r)
  BY <1>0, <1>1 DEF Inv, TypeInv, TypeOK, Shape, HasRow, InFlight, Statements
<1>3. /\ Ended(q, "ok").pc = "done"
      /\ At(q, "drop").pc = "drop" /\ At(q, "drop").cid = c /\ At(q, "drop").par = q.par
  BY <1>0, <1>2 DEF Ended, At, Request
<1>4. CASE q.par.upload # None
  BY <1>0, <1>1, <1>3, <1>4 DEF Leaves, Fits, Replacing
<1>5. CASE q.par.upload = None
  <2>1. content[c] # None /\ InStep(c)
    BY <1>0, <1>2, <1>5, AtHand
  <2>2. content'[c].env = content[c].env
    <3>1. content[c] \in Row
      BY <1>2, <2>1 DEF Inv, TypeInv, TypeOK
    <3>2. content'[c] = [content[c] EXCEPT !.meta = q.row.meta]
      BY <1>1, <1>2, <2>1 DEF Inv, TypeInv, TypeOK
    <3>3. QED BY <3>1, <3>2 DEF Row
  <2>3. InStep(c)'
    BY <1>1, <2>1, <2>2 DEF InStep, FilesOf
  <2>4. QED BY <1>0, <1>1, <1>3, <1>5, <2>3 DEF Leaves, Fits
<1>6. QED BY <1>4, <1>5

LEMMA DropFilesLeaves ==
  ASSUME Inv, Serial, faults = 0, faults' = 0, NEW r \in Requests, DropFiles(r)
  PROVE  Leaves(r)
<1>0. PICK q, c : q = req[r] /\ c = req[r].cid
  OBVIOUS
<1>1. q.pc = "drop" /\ files' = files \ FilesOf(c) /\ req'[r] = StoreFrom(q, 1)
  BY <1>0 DEF DropFiles, Statement, Inv, TypeInv, TypeOK
<1>2. q \in Request
  BY <1>0 DEF Inv, TypeInv, TypeOK
<1>3. FilesOf(c)' = {}
  BY <1>1 DEF FilesOf
<1>4. InStep(c)' /\ req'[r].pc # "apply"
  BY <1>1, <1>2, <1>3, StoreFromEnds DEF InStep
<1>5. QED BY <1>0, <1>4 DEF Leaves, Fits

\* Files are stored under the envelope in the table.
LEMMA PutFileLeaves ==
  ASSUME Inv, Serial, NEW r \in Requests, PutFile(r)
  PROVE  Leaves(r)
<1>0. PICK q, c : q = req[r] /\ c = req[r].cid
  OBVIOUS
<1>1. /\ q.pc = "put" /\ content' = content
      /\ files' = files \/ files' = files \cup {NewFile(r, q)}
      /\ req'[r] \in {StoreError(q), StoreFrom(q, q.next + 1)}
  BY <1>0 DEF PutFile, Statement, Inv, TypeInv, TypeOK
<1>2. q \in Request /\ c \in Requests /\ InFlight(r)
  BY <1>0, <1>1 DEF Inv, TypeInv, TypeOK, Shape, HasRow, InFlight, Statements
<1>3. /\ content[c].env = q.row.env
      /\ \A f \in FilesOf(c) : f.seals = Seal(q.row.env, <<>>)
  BY <1>0, <1>1, <1>2, NoneAssumption DEF Serial, Abreast
<1>4. NewFile(r, q).seals = Seal(q.row.env, <<>>)
  BY DEF NewFile
<1>5. InStep(c)'
  BY <1>1, <1>3, <1>4 DEF InStep, FilesOf
<1>6. req'[r].pc # "apply"
  BY <1>1, <1>2, StoreErrorEnds, StoreFromEnds
<1>7. QED BY <1>0, <1>5, <1>6 DEF Leaves, Fits

LEMMA DeleteLeaves ==
  ASSUME Inv, faults = 0, faults' = 0,
         NEW r \in Requests, UndoCreate(r) \/ DeleteContent(r)
  PROVE  Leaves(r)
<1>1. /\ req[r].pc \in {"undo", "remove"} /\ DeleteRow(req[r].cid)
      /\ \E res : req'[r] = Ended(req[r], res)
  BY DEF UndoCreate, DeleteContent, Statement, Inv, TypeInv, TypeOK
<1>2. req'[r].pc = "done"
  BY <1>1 DEF Inv, TypeInv, TypeOK, Ended, Request
<1>3. \A c \in Requests : c = req[r].cid => content'[c] = None
  BY <1>1 DEF DeleteRow, Inv, TypeInv, TypeOK
<1>4. QED BY <1>2, <1>3 DEF Leaves, Fits

LEMMA StepLeaves ==
  ASSUME Inv, Serial, Settled, faults = 0, faults' = 0, NEW r \in Requests, Step(r)
  PROVE  Leaves(r)
  BY CallLeaves, CheckSlugLeaves, InsertContentLeaves, PutFileLeaves, LoadContentLeaves,
     ListFilesLeaves, ApplyEncryptionLeaves, SaveContentLeaves, DropFilesLeaves,
     DeleteLeaves DEF Step

LEMMA AlwaysSettled ==
  ASSUME Overlap = FALSE
  PROVE  Spec => []Settled
<1>1. Init => Settled
  BY DEF Init, Idle, Settled, Rests, Fits
<1>2. Inv /\ Inv' /\ Serial /\ Settled /\ [Next]_vars => Settled'
  <2>1. ASSUME Inv, Inv', Serial, Settled, NEW r \in Requests, Step(r) PROVE Settled'
    <3>1. faults' = 0 => faults = 0
      BY <2>1, FaultsStay DEF Next
    <3>2. Lawful(r)
      BY <2>1, StepLawful DEF Inv
    <3>3. QED BY <2>1, <3>1, <3>2, StepLeaves, LeavesSuffices DEF Settled
  <2>2. ASSUME Inv, Crash PROVE Settled'
    BY <2>2 DEF Crash, Settled, Inv, TypeInv, TypeOK
  <2>3. ASSUME Settled, UNCHANGED vars PROVE Settled'
    BY <2>3 DEF vars, Settled, Rests, Fits, Replacing, InStep, FilesOf
  <2>4. QED BY <2>1, <2>2, <2>3 DEF Next, AllDone
<1>3. QED BY <1>1, <1>2, Invariant, AlwaysSerial, PTL DEF Spec

\* When calls for one slug do not overlap and nothing has failed at the database,
\* envelope and payloads of an entry are in step whenever no call is at work on
\* it: also after a call that changes the envelope and replaces the files, whose
\* own errors come before the envelope is stored or after the files are in step
\* with it.
THEOREM OnlyFaultsTear ==
  ASSUME Overlap = FALSE
  PROVE  Spec => []TornOnlyByFault
<1>1. Inv /\ Settled => TornOnlyByFault
  <2> SUFFICES ASSUME Settled, faults = 0, NEW c \in Requests, content[c] # None,
                      \A r \in Requests : InFlight(r) => req[r].cid # c
               PROVE  InStep(c)
    BY DEF TornOnlyByFault, SettledInStep
  <2>1. \A r \in Requests : ~Replacing(r, c)
    BY DEF Replacing, InFlight, Statements
  <2>2. QED BY <2>1 DEF Settled, Rests
<1>2. QED BY <1>1, Invariant, AlwaysSettled, PTL

=============================================================================
