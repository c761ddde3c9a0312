------------------------ MODULE ContentClients_proofs ------------------------
(***************************************************************************)
(* Proofs about the two sides that use the content service.  FrontEnds:    *)
(* whatever forms and tools are sent, the service sees the calls of        *)
(* ContentService, so what is proved of its calls holds of them.           *)
(* ContentSite: what visitors of a site get, for any number of visitors,   *)
(* entries and calls that do not overlap: cleartext, and of an encrypted   *)
(* entry only to those who unlocked it with the passphrase it is under.    *)
(*                                                                         *)
(* A cookie carries a key of some moment in the past.  It is still one     *)
(* that a request drew for a passphrase it was given; there is one         *)
(* envelope to a key, so whoever opens a payload that is in step with its  *)
(* entry holds the envelope of the entry.                                  *)
(***************************************************************************)
EXTENDS FrontEnds, ContentSite, ContentCatalogue_proofs

-----------------------------------------------------------------------------
(* Front ends.                                                             *)

LEMMA SubmitCallsOrStutters ==
  ASSUME NEW r \in Requests, NEW f \in Forms[r], Submit(r, f)
  PROVE  Call(r) \/ UNCHANGED vars
<1>1. CASE Translated(f) = None
  BY <1>1 DEF Submit
<1>2. CASE Translated(f) # None
  <2>1. Translated(f) \in Plans[r]
    BY <1>2, PlansCoverForms
  <2>2. Make(r, Translated(f))
    BY <1>2 DEF Submit
  <2>3. QED BY <2>1, <2>2 DEF Call
<1>3. QED BY <1>1, <1>2

LEMMA FrontStep ==
  ASSUME [FrontNext]_frontVars PROVE [Next]_vars
<1>1. CASE \E r \in Requests, f \in UNION {Forms[s] : s \in Requests} :
             f \in Forms[r] /\ Submit(r, f)
  BY <1>1, SubmitCallsOrStutters DEF Next, Step
<1>2. CASE \E r \in Requests : Serves(r)
  BY <1>2 DEF Next, Step, Serves
<1>3. CASE Crash
  BY <1>3 DEF Next
<1>4. CASE AllAnswered
  BY <1>4 DEF AllAnswered
<1>5. CASE UNCHANGED frontVars
  BY <1>5 DEF frontVars, vars
<1>6. QED BY <1>1, <1>2, <1>3, <1>4, <1>5 DEF FrontNext

(***************************************************************************)
(* The front ends implement the service: every step of theirs is a step of *)
(* ContentService or leaves its variables alone.                           *)
(***************************************************************************)
THEOREM FrontEndsImplementService == FrontSpec => Spec
<1>1. FrontInit => Init
  BY DEF FrontInit
<1>2. [FrontNext]_frontVars => [Next]_vars
  BY FrontStep
<1>3. QED BY <1>1, <1>2, PTL DEF FrontSpec, Spec

(***************************************************************************)
(* Under forms of every kind from any number of clients, overlapping or    *)
(* not, the files of an entry come from its owner's clients and only they  *)
(* change it.                                                              *)
(***************************************************************************)
THEOREM FrontEndsIsolateOwners == FrontSpec => ([]OwnerIsolation) /\ OnlyOwnerWrites
BY FrontEndsImplementService, FilesStayWithOwner, OwnersWrite, PTL

(***************************************************************************)
(* Under forms for one slug that do not overlap, entries are in step with  *)
(* their envelope unless an update replaced both at once, and without a    *)
(* fault even then once it is over; their files come from one upload, only *)
(* the right passphrase changes an envelope, and an upload that succeeds   *)
(* repairs what was torn.                                                  *)
(***************************************************************************)
THEOREM FrontEndsKeepInStep ==
  ASSUME Overlap = FALSE
  PROVE  FrontSpec => /\ []SingleUpload /\ []TornOnlyByReplacement
                      /\ []TornOnlyByFault
                      /\ PassphraseGuards /\ ReplacementRestores
BY FrontEndsImplementService, UploadsStayWhole, TornOnlyIfRekeyed, OnlyFaultsTear,
   PassphrasesGuard, ReplacementsRestore, PTL

-----------------------------------------------------------------------------
(* What a form gives and what it does not.                                 *)

\* A request has the parameters its form translates to.
Forwarded ==
  /\ form \in [Requests -> Form \cup {None}]
  /\ \A r \in Requests : req[r].par # None =>
       form[r] # None /\ req[r].par = Translated(form[r])

\* A form that cannot be read makes no create, and gives no file, no passphrase
\* and no field; only the web's edit form still passes all fields.
LEMMA UnreadableGivesNothing ==
  ASSUME NEW f \in Form, ~f.readable, Translated(f) # None
  PROVE  /\ Translated(f).op # "create" /\ Translated(f).upload = None
         /\ Translated(f).pass = None /\ Translated(f).newpass = None
         /\ Translated(f).sets = {} \/ (f.via = "web" /\ f.op = "update")
<1>1. /\ f.via \in {"api", "web", "mcp"} /\ f.op \in {"create", "update", "delete"}
  BY DEF Form
<1>2. CASE f.op = "delete"
  BY <1>2 DEF Translated, DeleteParams
<1>3. f.op # "create"
  BY <1>1 DEF Translated, ApiCreate, WebCreate, McpCreate
<1>4. CASE f.op = "update"
  <2>1. /\ Read(f).given = {} /\ Read(f).pass = None /\ Read(f).newpass = None
        /\ Read(f).uploads = {}
    BY DEF Read, Form
  <2>2. Replacement(Read(f)) = None
    BY <2>1 DEF Replacement, FileOf
  <2>3. CASE f.via = "api"
    BY <1>4, <2>1, <2>2, <2>3 DEF Translated, ApiUpdate, UpdateParams
  <2>4. CASE f.via = "web"
    BY <1>4, <2>1, <2>2, <2>4 DEF Translated, WebUpdate, UpdateParams
  <2>5. f.via # "mcp"
    BY <1>4 DEF Translated, McpUpdate
  <2>6. QED BY <1>1, <2>3, <2>4, <2>5
<1>5. QED BY <1>1, <1>2, <1>3, <1>4

\* An update passes on the fields that the form gives, that of the web all.
LEMMA UpdateSupplies ==
  ASSUME NEW f \in Form, Translated(f) # None, Translated(f).op = "update"
  PROVE  f.via = "web" \/ Translated(f).sets \subseteq f.given
<1>1. /\ f.via \in {"api", "web", "mcp"} /\ f.op \in {"create", "update", "delete"}
  BY DEF Form
<1>2. f.op = "update"
  BY <1>1 DEF Translated, DeleteParams, CreateParams, ApiCreate, WebCreate, McpCreate
<1>3. Read(f).given \subseteq f.given
  BY DEF Read, Form
<1>4. CASE f.via = "api"
  BY <1>2, <1>3, <1>4 DEF Translated, ApiUpdate, UpdateParams
<1>5. CASE f.via = "mcp"
  BY <1>2, <1>5 DEF Translated, McpUpdate, UpdateParams
<1>6. QED BY <1>1, <1>4, <1>5

\* A form is sent once, and its request keeps the parameters.
LEMMA AlwaysForwarded == FrontSpec => []Forwarded
<1>1. FrontInit => Forwarded
  BY DEF FrontInit, Init, Idle, Forwarded
<1>2. Inv /\ Inv' /\ Forwarded /\ [FrontNext]_frontVars => Forwarded'
  <2>1. ASSUME Inv, Inv', Forwarded, NEW r \in Requests, NEW f \in Forms[r], Submit(r, f)
        PROVE  Forwarded'
    <3>1. f \in Form /\ f # None
      BY FormsAssumption
    <3>2. /\ form' \in [Requests -> Form \cup {None}] /\ form'[r] = f
          /\ \A s \in Requests : s # r => form'[s] = form[s] /\ req'[s] = req[s]
      BY <2>1, <3>1 DEF Submit, Make, vars, Inv, TypeInv, TypeOK, Forwarded
    <3>3. req'[r].par # None => req'[r].par = Translated(f)
      <4>1. CASE Translated(f) = None
        BY <2>1, <4>1 DEF Submit, vars, Inv, Ownership, ParOnce
      <4>2. CASE Translated(f) # None
        <5>1. PICK p : p = Translated(f)
          OBVIOUS
        <5>2. Make(r, p)
          BY <2>1, <4>2, <5>1 DEF Submit
        <5>3. PICK q : q = [req[r] EXCEPT !.par = p]
          OBVIOUS
        <5>4. q.par = p /\ q \in Request
          <6>1. p \in Params
            BY <4>2, <5>1, PlansCoverForms, PlansAssumption
          <6>2. QED BY <2>1, <5>3, <6>1 DEF Inv, TypeInv, TypeOK, Request
        <5>5. (\E res : req'[r] = Ended(q, res)) \/ (\E pc : req'[r] = At(q, pc))
          BY <2>1, <5>2, <5>3 DEF Make, Inv, TypeInv, TypeOK
        <5>6. QED BY <2>1, <5>1, <5>4, <5>5, Carried
      <4>3. QED BY <4>1, <4>2
    <3>4. QED BY <2>1, <3>1, <3>2, <3>3 DEF Forwarded
  <2>2. ASSUME Inv, Inv', Forwarded, NEW r \in Requests, Serves(r), UNCHANGED form
        PROVE  Forwarded'
    <3>1. Lawful(r) /\ req[r].par # None
      BY <2>2, StepLawful, AtStatement, NoneAssumption
      DEF Inv, Step, Serves, CheckSlug, InsertContent, PutFile, UndoCreate, LoadContent,
          ListFiles, ApplyEncryption, SaveContent, DropFiles, DeleteContent, Statement,
          Statements
    <3>2. \A s \in Requests : req'[s].par = req[s].par
      BY <3>1 DEF Lawful, LawfulRequest
    <3>3. QED BY <2>2, <3>2 DEF Forwarded
  <2>3. ASSUME Inv, Forwarded, Crash, UNCHANGED form PROVE Forwarded'
    <3>1. \A s \in Requests : req'[s].par = req[s].par
      BY <2>3 DEF Crash, Ended, Inv, TypeInv, TypeOK, Request
    <3>2. QED BY <2>3, <3>1 DEF Forwarded
  <2>4. ASSUME Forwarded, UNCHANGED <<req, form>> PROVE Forwarded'
    BY <2>4 DEF Forwarded
  <2>5. QED BY <2>1, <2>2, <2>3, <2>4 DEF FrontNext, AllAnswered, frontVars, vars
<1>3. QED BY <1>1, <1>2, FrontEndsImplementService, Invariant, PTL DEF FrontSpec

\* What could not be read is not stored: each file, key and field bears the name
\* of a request that supplied it (Authored), and such a form supplies nothing but
\* the blanks of the web's edit form (APIHandler.UpdateContent, EditSubmit).
THEOREM UnreadableIsContained == FrontSpec => []UnreadableContained
<1>1. Inv /\ Authored /\ Forwarded => UnreadableContained
  <2> SUFFICES ASSUME Inv, Authored, Forwarded PROVE UnreadableContained
    OBVIOUS
  <2>1. ASSUME NEW r \in Requests, form[r] # None, ~form[r].readable, req[r].par # None
        PROVE  /\ req[r].par.op # "create" /\ req[r].par.upload = None
               /\ req[r].par.pass = None /\ req[r].par.newpass = None
               /\ \/ req[r].par.sets = {}
                  \/ form[r].via = "web" /\ form[r].op = "update"
    <3>1. PICK f : f = form[r]
      OBVIOUS
    <3>2. f \in Form /\ req[r].par = Translated(f)
      BY <2>1, <3>1 DEF Forwarded
    <3>3. QED BY <2>1, <3>1, <3>2, UnreadableGivesNothing
  <2>2. ASSUME NEW f \in files, form[f.by] # None, ~form[f.by].readable PROVE FALSE
    <3>1. f.by \in Requests
      BY DEF Inv, TypeInv, TypeOK, File
    <3>2. req[f.by].par # None /\ req[f.by].par.upload # None
      BY DEF Authored
    <3>3. QED BY <2>1, <2>2, <3>1, <3>2
  <2>3. ASSUME NEW c \in Requests, content[c] # None
        PROVE  /\ content[c].env # None =>
                    LET r == content[c].env.dek IN ~(form[r] # None /\ ~form[r].readable)
               /\ \A x \in Fields : LET r == content[c].meta[x] IN
                    form[r] # None /\ ~form[r].readable =>
                      form[r].via = "web" /\ form[r].op = "update"
    <3>1. content[c] \in Row /\ Made(content[c])
      BY <2>3 DEF Authored, Inv, TypeInv, TypeOK
    <3>2. ASSUME content[c].env # None,
                 NEW r, r = content[c].env.dek, form[r] # None, ~form[r].readable
          PROVE  FALSE
      <4>1. /\ r \in Requests /\ content[c].env.pass \in Passphrases
            /\ Drew(content[c].env)
        BY <3>1, <3>2 DEF Row, Envelope, Made
      <4>2. /\ req[r].par # None
            /\ content[c].env.pass \in {req[r].par.pass, req[r].par.newpass}
        BY <3>2, <4>1 DEF Drew
      <4>3. QED BY <2>1, <3>2, <4>1, <4>2, NoneAssumption
    <3>3. ASSUME NEW x \in Fields, NEW r, r = content[c].meta[x],
                 form[r] # None, ~form[r].readable
          PROVE  form[r].via = "web" /\ form[r].op = "update"
      <4>1. r \in Requests /\ Gives(r, x)
        BY <3>1, <3>3 DEF Row, Made
      <4>2. QED BY <2>1, <3>3, <4>1 DEF Gives
    <3>4. QED BY <3>2, <3>3
  <2>4. QED BY <2>2, <2>3 DEF UnreadableContained
<1>2. QED BY <1>1, Invariant, AlwaysAuthored, AlwaysForwarded,
             FrontEndsImplementService, PTL

\* Under forms for one slug that do not overlap, a field changes only for a client
\* that supplied it, whichever front ends others use in between.
THEOREM OnlySuppliedChanges ==
  ASSUME Overlap = FALSE
  PROVE  FrontSpec => OnlySupplied
<1> DEFINE GivenOnly ==
             \A c \in Requests, x \in Fields :
               /\ content[c] # None /\ content'[c] # None
               /\ content'[c].meta[x] # content[c].meta[x]
               => \E r \in Requests : req'[r] # req[r] /\ Supplies(r, x)
<1>1. Inv /\ Forwarded /\ [Supplied]_vars => GivenOnly
  <2>1. ASSUME Inv, Forwarded, NEW r \in Requests, NEW x \in Fields,
               req[r].par # None, req[r].par.op = "update", x \in req[r].par.sets
        PROVE  Supplies(r, x)
    <3>1. PICK f : f = form[r]
      OBVIOUS
    <3>2. f \in Form /\ f # None /\ req[r].par = Translated(f)
      BY <2>1, <3>1 DEF Forwarded
    <3>3. QED BY <2>1, <3>1, <3>2, UpdateSupplies DEF Supplies
  <2>2. ASSUME Inv, Forwarded, Supplied PROVE GivenOnly
    BY <2>1, <2>2 DEF Supplied
  <2>3. ASSUME UNCHANGED vars PROVE GivenOnly
    BY <2>3 DEF vars
  <2>4. QED BY <2>2, <2>3
<1> HIDE DEF GivenOnly
<1>2. FrontSpec => [][GivenOnly]_frontVars
  BY <1>1, AlwaysSupplied, Invariant, AlwaysForwarded, FrontEndsImplementService, PTL
<1>3. QED BY <1>2 DEF GivenOnly, OnlySupplied

\* Under forms for one slug that do not overlap, what clients get done through all
\* front ends together is a catalogue of whole entries: an answer with success means
\* all of the form, one that refuses means nothing of it.
THEOREM FrontEndsAreACatalogue ==
  ASSUME Overlap = FALSE
  PROVE  FrontSpec => ImplementsCatalogue
  BY ServiceIsCatalogue, FrontEndsImplementService, PTL

-----------------------------------------------------------------------------
(* Visitors.                                                               *)

\* What is known of visitors: the envelopes they hold were drawn.
Progress == {None} \cup [step : {"recheck"}, slug : ValidSlugs]
          \cup [step : {"derive"}, slug : ValidSlugs, env : Envelope,
                pass : Passphrases]
Held == /\ cookie \in [Visitors -> [ValidSlugs -> Envelope \cup {None}]]
        /\ visit \in [Visitors -> Progress]
        /\ answer = [v \in Visitors |-> answer[v]]
        /\ visits = [v \in Visitors |-> visits[v]]
        /\ \A v \in Visitors, s \in ValidSlugs :
             cookie[v][s] # None => Drew(cookie[v][s])
        /\ \A v \in Visitors : visit[v] # None /\ visit[v].step = "derive" =>
             visit[v].env \in Envelope /\ Drew(visit[v].env)

\* There is one envelope to a key.
LEMMA OneKey ==
  ASSUME NEW d \in Envelope, NEW e \in Envelope, Drew(d), Drew(e), d.dek = e.dek
  PROVE  d = e
<1>1. /\ d = [dek |-> d.dek, pass |-> d.pass] /\ e = [dek |-> e.dek, pass |-> e.pass]
  BY DEF Envelope
<1>2. d.pass = e.pass \/ d = e
  BY DEF Drew
<1>3. QED BY <1>1, <1>2

\* Visits are no steps of the service.
LEMMA SiteStep ==
  ASSUME [SiteNext]_allVars PROVE [Next]_vars
<1>1. CASE UNCHANGED allVars
  BY <1>1 DEF allVars, vars
<1>2. CASE \E v \in Visitors : Visit(v)
  BY <1>2 DEF Visit, AskFile, AskUnlock, Expire, Recheck, Unlock, LookupFails
<1>3. QED BY <1>1, <1>2 DEF SiteNext, SiteCrash, Next

(***************************************************************************)
(* Visitors leave the tables and the requests alone, so all that is proved *)
(* of the service holds under visits (the public handlers only read).      *)
(***************************************************************************)
THEOREM SiteImplementsService == SiteSpec => Spec
<1>1. SiteInit => Init
  BY DEF SiteInit
<1>2. [SiteNext]_allVars => [Next]_vars
  BY SiteStep
<1>3. QED BY <1>1, <1>2, PTL DEF SiteSpec, Spec

\* What a visit does, beyond reading: v may get a key that was drawn, and remember
\* an envelope that it has read.
Gains(v) ==
  /\ UNCHANGED vars
  /\ answer' = answer \/ \E a : answer' = [answer EXCEPT ![v] = a]
  /\ visits' = visits \/ visits' = [visits EXCEPT ![v] = @ + 1]
  /\ \/ visit' = visit
     \/ \E x \in Progress : /\ visit' = [visit EXCEPT ![v] = x]
                            /\ x # None /\ x.step = "derive" =>
                                 x.env \in Envelope /\ Drew(x.env)
  /\ \/ cookie' = cookie
     \/ \E s \in ValidSlugs, e \in Envelope \cup {None} :
          /\ cookie' = [cookie EXCEPT ![v][s] = e]
          /\ e # None => Drew(e)

\* Every visit gains no more than that.
LEMMA VisitGains ==
  ASSUME Inv, Authored, Held, NEW v \in Visitors, Visit(v)
  PROVE  Gains(v)
<1>1. ASSUME NEW s \in ValidSlugs, NEW p \in Asked, AskFile(v, s, p) PROVE Gains(v)
  <2>1. /\ UNCHANGED vars /\ visits' = [visits EXCEPT ![v] = @ + 1]
        /\ \E a : answer' = [answer EXCEPT ![v] = a]
    BY <1>1 DEF AskFile, Begin, Serve, Answer
  <2>2. \/ visit' = visit
        \/ visit' = [visit EXCEPT ![v] = [step |-> "recheck", slug |-> s]]
    BY <1>1 DEF AskFile, Keep
  <2>3. [step |-> "recheck", slug |-> s] \in Progress
    BY DEF Progress
  <2>4. cookie' = cookie \/ cookie' = [cookie EXCEPT ![v][s] = None]
    BY <1>1 DEF AskFile, Serve, SetCookie
  <2>5. QED BY <2>1, <2>2, <2>3, <2>4 DEF Gains
<1>2. ASSUME NEW s \in ValidSlugs, NEW pass \in Passphrases \cup {None},
             AskUnlock(v, s, pass)
      PROVE  Gains(v)
  <2>1. /\ UNCHANGED vars /\ visits' = [visits EXCEPT ![v] = @ + 1]
        /\ cookie' = cookie /\ \E a : answer' = [answer EXCEPT ![v] = a]
    BY <1>2 DEF AskUnlock, Begin, Answer
  <2>2. \/ visit' = visit
        \/ \E c \in RowsAt(s) :
             /\ content[c].env # None /\ pass # None
             /\ visit' = [visit EXCEPT ![v] = [step |-> "derive", slug |-> s,
                                               env |-> content[c].env, pass |-> pass]]
    BY <1>2 DEF AskUnlock, Keep
  <2>3. CASE visit' = visit
    BY <2>1, <2>3 DEF Gains
  <2>4. ASSUME NEW c \in RowsAt(s), content[c].env # None, pass # None,
               visit' = [visit EXCEPT ![v] = [step |-> "derive", slug |-> s,
                                              env |-> content[c].env, pass |-> pass]]
        PROVE  Gains(v)
    <3>1. content[c].env \in Envelope /\ Drew(content[c].env)
      <4>1. c \in Requests /\ content[c] \in Row /\ Made(content[c])
        BY DEF RowsAt, Inv, TypeInv, TypeOK, Authored
      <4>2. QED BY <2>4, <4>1 DEF Row, Made
    <3>2. PICK x : x = [step |-> "derive", slug |-> s, env |-> content[c].env,
                        pass |-> pass]
      OBVIOUS
    <3>3. x \in Progress /\ x.env = content[c].env
      BY <2>4, <3>1, <3>2 DEF Progress
    <3>4. QED BY <2>1, <2>4, <3>1, <3>2, <3>3 DEF Gains
  <2>5. QED BY <2>2, <2>3, <2>4
<1>3. ASSUME NEW s \in ValidSlugs, Expire(v, s) PROVE Gains(v)
  BY <1>3 DEF Expire, SetCookie, Gains
<1>4. CASE Recheck(v) \/ LookupFails(v)
  <2>1. None \in Progress
    BY DEF Progress
  <2>2. QED BY <1>4, <2>1 DEF Recheck, LookupFails, Begin, Keep, Answer, Gains
<1>5. CASE Unlock(v)
  <2>1. /\ visit[v] # None /\ visit[v].step = "derive" /\ visit[v] \in Progress
        /\ visit[v].env \in Envelope /\ Drew(visit[v].env)
    BY <1>5 DEF Unlock, Held
  <2>2. visit[v].slug \in ValidSlugs /\ None \in Progress
    BY <2>1 DEF Progress
  <2>3. /\ UNCHANGED vars /\ visits' = visits
        /\ visit' = [visit EXCEPT ![v] = None]
        /\ \E a : answer' = [answer EXCEPT ![v] = a]
        /\ \/ cookie' = cookie
           \/ cookie' = [cookie EXCEPT ![v][visit[v].slug] = visit[v].env]
    BY <1>5 DEF Unlock, Keep, Answer, SetCookie
  <2>4. QED BY <2>1, <2>2, <2>3 DEF Gains
<1>6. QED BY <1>1, <1>2, <1>3, <1>4, <1>5 DEF Visit

\* What visitors hold is still one of the keys that were drawn.
LEMMA GainsHeld ==
  ASSUME Held, NEW v \in Visitors, Gains(v)
  PROVE  Held'
<1>1. \A e : Drew(e) => Drew(e)'
  BY DEF Gains, vars, Drew
<1>2. /\ answer' = [u \in Visitors |-> answer'[u]]
      /\ visits' = [u \in Visitors |-> visits'[u]]
  BY DEF Held, Gains
<1>3. /\ visit' \in [Visitors -> Progress]
      /\ \A u \in Visitors : visit'[u] # None /\ visit'[u].step = "derive" =>
           visit'[u].env \in Envelope /\ Drew(visit[u].env)'
  <2>1. CASE visit' = visit
    BY <1>1, <2>1 DEF Held, Drew
  <2>2. ASSUME NEW x \in Progress, visit' = [visit EXCEPT ![v] = x],
               x # None /\ x.step = "derive" => x.env \in Envelope /\ Drew(x.env)
        PROVE  /\ visit' \in [Visitors -> Progress]
               /\ \A u \in Visitors : visit'[u] # None /\ visit'[u].step = "derive" =>
                    visit'[u].env \in Envelope /\ Drew(visit[u].env)'
    <3>1. visit' \in [Visitors -> Progress] /\ visit'[v] = x
          /\ \A u \in Visitors \ {v} : visit'[u] = visit[u]
      BY <2>2 DEF Held
    <3>2. ASSUME NEW u \in Visitors, visit'[u] # None, visit'[u].step = "derive"
          PROVE  visit'[u].env \in Envelope /\ Drew(visit[u].env)'
      <4>1. PICK y : y = visit'[u]
        OBVIOUS
      <4>2. y.env \in Envelope /\ Drew(y.env)
        BY <2>2, <3>1, <3>2, <4>1 DEF Held
      <4>3. QED BY <1>1, <4>1, <4>2 DEF Drew
    <3>3. QED BY <3>1, <3>2
  <2>3. QED BY <2>1, <2>2 DEF Gains
<1>4. /\ cookie' \in [Visitors -> [ValidSlugs -> Envelope \cup {None}]]
      /\ \A u \in Visitors, s \in ValidSlugs :
           cookie'[u][s] # None => Drew(cookie[u][s])'
  <2>1. CASE cookie' = cookie
    BY <1>1, <2>1 DEF Held, Drew
  <2>2. ASSUME NEW t \in ValidSlugs, NEW e \in Envelope \cup {None},
               cookie' = [cookie EXCEPT ![v][t] = e], e # None => Drew(e)
        PROVE  /\ cookie' \in [Visitors -> [ValidSlugs -> Envelope \cup {None}]]
               /\ \A u \in Visitors, s \in ValidSlugs :
                    cookie'[u][s] # None => Drew(cookie[u][s])'
    <3>1. /\ cookie' \in [Visitors -> [ValidSlugs -> Envelope \cup {None}]]
          /\ \A u \in Visitors, s \in ValidSlugs :
               cookie'[u][s] = IF u = v /\ s = t THEN e ELSE cookie[u][s]
      BY <2>2 DEF Held
    <3>2. ASSUME NEW u \in Visitors, NEW s \in ValidSlugs, cookie'[u][s] # None
          PROVE  Drew(cookie[u][s])'
      <4>1. PICK d : d = cookie'[u][s]
        OBVIOUS
      <4>2. Drew(d)
        BY <2>2, <3>1, <3>2, <4>1 DEF Held
      <4>3. QED BY <1>1, <4>1, <4>2 DEF Drew
    <3>3. QED BY <3>1, <3>2
  <2>3. QED BY <2>1, <2>2 DEF Gains
<1>5. QED BY <1>2, <1>3, <1>4 DEF Held

\* Calls draw keys but do not take back what was drawn, nor does a crash.
LEMMA AlwaysHeld == SiteSpec => []Held
<1>1. SiteInit => Held
  BY DEF SiteInit, Held, Progress
<1>2. Inv /\ Inv' /\ Authored /\ Held /\ [SiteNext]_allVars => Held'
  <2> SUFFICES ASSUME Inv, Inv', Authored, Held, [SiteNext]_allVars PROVE Held'
    OBVIOUS
  <2>1. \A e \in Envelope : Drew(e) => Drew(e)'
    BY SiteStep, DrewStays
  <2>2. CASE UNCHANGED siteVars
    <3>1. UNCHANGED <<cookie, visit, answer, visits>>
      BY <2>2 DEF siteVars
    <3>2. ASSUME NEW v \in Visitors, NEW s \in ValidSlugs, cookie[v][s] # None
          PROVE  Drew(cookie[v][s])'
      <4>1. PICK d : d = cookie[v][s]
        OBVIOUS
      <4>2. Drew(d)'
        BY <2>1, <3>2, <4>1 DEF Held
      <4>3. QED BY <3>1, <4>1, <4>2 DEF Drew
    <3>3. ASSUME NEW v \in Visitors, visit[v] # None, visit[v].step = "derive"
          PROVE  Drew(visit[v].env)'
      <4>1. PICK d : d = visit[v].env
        OBVIOUS
      <4>2. Drew(d)'
        BY <2>1, <3>3, <4>1 DEF Held
      <4>3. QED BY <3>1, <4>1, <4>2 DEF Drew
    <3>4. QED BY <3>1, <3>2, <3>3 DEF Held
  <2>3. CASE \E v \in Visitors : Visit(v)
    BY <2>3, VisitGains, GainsHeld
  <2>4. CASE SiteCrash
    <3>1. UNCHANGED <<cookie, answer, visits>> /\ visit' = [v \in Visitors |-> None]
      BY <2>4 DEF SiteCrash
    <3>2. ASSUME NEW v \in Visitors, NEW s \in ValidSlugs, cookie[v][s] # None
          PROVE  Drew(cookie[v][s])'
      <4>1. PICK d : d = cookie[v][s]
        OBVIOUS
      <4>2. Drew(d)'
        BY <2>1, <3>2, <4>1 DEF Held
      <4>3. QED BY <3>1, <4>1, <4>2 DEF Drew
    <3>3. visit' \in [Visitors -> Progress]
      BY <3>1 DEF Progress
    <3>4. QED BY <3>1, <3>2, <3>3 DEF Held
  <2>5. QED BY <2>2, <2>3, <2>4 DEF SiteNext, allVars, siteVars
<1>3. QED BY <1>1, <1>2, SiteImplementsService, Invariant, AlwaysAuthored, PTL DEF SiteSpec

-----------------------------------------------------------------------------
(* What is served.                                                         *)

\* A file is served as it is, or opened with the key in the cookie.
ServedFrom(v, f, s) ==
  /\ answer'[v].cid = f.cid
  /\ \/ /\ content[f.cid].env = None
        /\ answer'[v].key = None /\ answer'[v].rest = f.seals
     \/ /\ content[f.cid].env # None /\ cookie[v][s] # None
        /\ f.seals # <<>> /\ Head(f.seals) = cookie[v][s].dek
        /\ answer'[v].key = cookie[v][s] /\ answer'[v].rest = Tail(f.seals)

LEMMA OnlyAskingServes ==
  ASSUME Held, NEW v \in Visitors, [SiteNext]_allVars,
         visits'[v] # visits[v], answer'[v].kind = "served"
  PROVE  \E s \in ValidSlugs, f \in files : ServedFrom(v, f, s)
<1>1. PICK u \in Visitors : Visit(u)
  <2>1. visits' # visits
    OBVIOUS
  <2>2. QED BY <2>1 DEF SiteNext, SiteCrash, allVars, siteVars
<1>2. u = v
  <2>1. visits' = visits \/ visits' = [visits EXCEPT ![u] = @ + 1]
    BY <1>1 DEF Visit, AskFile, AskUnlock, Expire, Recheck, Unlock, LookupFails, Begin
  <2>2. QED BY <2>1 DEF Held
<1>3. ASSUME NEW a, answer' = [answer EXCEPT ![v] = a] PROVE answer'[v] = a
  BY <1>3 DEF Held
<1>4. \A kind : Reply(kind).kind = kind
  BY DEF Reply
<1>5. PICK s \in ValidSlugs, p \in Asked : AskFile(v, s, p)
  <2>1. ~LookupFails(v)
    BY <1>3, <1>4 DEF LookupFails, Answer
  <2>2. \A s \in ValidSlugs, pass \in Passphrases \cup {None} : ~AskUnlock(v, s, pass)
    BY <1>3, <1>4 DEF AskUnlock, Answer
  <2>3. ~Recheck(v) /\ ~Unlock(v) /\ \A s \in ValidSlugs : ~Expire(v, s)
    BY DEF Recheck, Unlock, Expire
  <2>4. QED BY <1>1, <1>2, <2>1, <2>2, <2>3 DEF Visit
<1>6. PICK f \in Matching(s, p) : Serve(v, s, p, f)
  BY <1>3, <1>4, <1>5 DEF AskFile, Answer
<1>7. f \in files
  BY DEF Matching
<1>8. CASE content[f.cid].env = None
  <2>1. Answer(v, [kind |-> "served", cid |-> f.cid, key |-> None, rest |-> f.seals])
    BY <1>6, <1>8 DEF Serve
  <2>2. answer'[v] = [kind |-> "served", cid |-> f.cid, key |-> None, rest |-> f.seals]
    BY <1>3, <2>1 DEF Answer
  <2>3. ServedFrom(v, f, s)
    BY <1>8, <2>2 DEF ServedFrom
  <2>4. QED BY <1>7, <2>3
<1>9. CASE content[f.cid].env # None
  <2>1. cookie[v][s] # None /\ Opened(cookie[v][s], p, f)
    BY <1>3, <1>4, <1>6, <1>9 DEF Serve, Answer
  <2>2. Answer(v, [kind |-> "served", cid |-> f.cid, key |-> cookie[v][s],
                   rest |-> Tail(f.seals)])
    BY <1>6, <1>9, <2>1 DEF Serve
  <2>3. answer'[v] = [kind |-> "served", cid |-> f.cid, key |-> cookie[v][s],
                      rest |-> Tail(f.seals)]
    BY <1>3, <2>2 DEF Answer
  <2>4. ServedFrom(v, f, s)
    BY <1>9, <2>1, <2>3 DEF ServedFrom, Opened
  <2>5. QED BY <1>7, <2>4
<1>10. QED BY <1>8, <1>9

\* The files of a steady entry bear one seal, that of its envelope, or none.
LEMMA SteadySeals ==
  ASSUME Inv, Serial, NEW f \in files, Steady(f.cid)
  PROVE  /\ f.cid \in Requests /\ content[f.cid] # None
         /\ content[f.cid].env = None => f.seals = <<>>
         /\ content[f.cid].env # None =>
              /\ content[f.cid].env \in Envelope
              /\ f.seals = <<content[f.cid].env.dek>>
<1>1. f.cid \in Requests /\ content[f.cid] # None /\ content[f.cid] \in Row
  BY DEF Inv, TypeInv, TypeOK, File, Ownership, FileOwner
<1>2. InStep(f.cid)
  BY <1>1 DEF Serial, Whole, Clean, Steady
<1>3. f.seals = Seal(content[f.cid].env, <<>>)
  BY <1>2 DEF InStep, FilesOf
<1>4. content[f.cid].env # None => content[f.cid].env \in Envelope
  BY <1>1 DEF Row
<1>5. content[f.cid].env # None => f.seals = <<content[f.cid].env.dek>>
  BY <1>3, <1>4 DEF Seal, Envelope
<1>6. QED BY <1>1, <1>3, <1>4, <1>5 DEF Seal

\* When calls for one slug do not overlap, what visitors of a steady entry are
\* served is cleartext, also in the middle of a call that rewrites its files
\* (GetContentFile and DecryptFile read the file and the envelope at one time).
THEOREM VisitorsCanRead ==
  ASSUME Overlap = FALSE
  PROVE  SiteSpec => ServedReadable
<1> DEFINE Readable == \A v \in Visitors :
             /\ visits'[v] # visits[v] /\ answer'[v].kind = "served"
             /\ Steady(answer'[v].cid)
             => answer'[v].rest = <<>>
<1>1. Inv /\ Serial /\ Held /\ [SiteNext]_allVars => Readable
  <2> SUFFICES ASSUME Inv, Serial, Held, [SiteNext]_allVars, NEW v \in Visitors,
                      visits'[v] # visits[v], answer'[v].kind = "served",
                      Steady(answer'[v].cid)
               PROVE  answer'[v].rest = <<>>
    OBVIOUS
  <2>1. PICK s \in ValidSlugs, f \in files : ServedFrom(v, f, s)
    BY OnlyAskingServes
  <2>2. Steady(f.cid)
    BY <2>1 DEF ServedFrom, Steady
  <2>3. PICK e : e = content[f.cid].env
    OBVIOUS
  <2>4. /\ e = None => f.seals = <<>>
        /\ e # None => e \in Envelope /\ f.seals = <<e.dek>>
    BY <2>2, <2>3, SteadySeals
  <2>5. e # None => Tail(f.seals) = <<>>
    <3>1. e \in Envelope => e.dek \in Requests
      BY DEF Envelope
    <3>2. \A d \in Requests : Tail(<<d>>) = <<>>
      OBVIOUS
    <3>3. QED BY <2>4, <3>1, <3>2
  <2>6. QED BY <2>1, <2>3, <2>4, <2>5 DEF ServedFrom
<1> HIDE DEF Readable
<1>2. SiteSpec => [][Readable]_allVars
  BY <1>1, SiteImplementsService, Invariant, AlwaysSerial, AlwaysHeld, PTL DEF SiteSpec
<1>3. QED BY <1>2 DEF Readable, ServedReadable

\* When calls for one slug do not overlap, a file of a steady encrypted entry is
\* served only to a visitor who unlocked it with the passphrase it is under at
\* that moment, however old the cookie is and whatever became of the key since.
THEOREM RotationLocksOut ==
  ASSUME Overlap = FALSE
  PROVE  SiteSpec => RotationRelocks
<1> DEFINE Current == \A v \in Visitors :
             /\ visits'[v] # visits[v] /\ answer'[v].kind = "served"
             /\ answer'[v].key # None /\ Steady(answer'[v].cid)
             => content[answer'[v].cid].env = answer'[v].key
<1>1. Inv /\ Serial /\ Authored /\ Held /\ [SiteNext]_allVars => Current
  <2> SUFFICES ASSUME Inv, Serial, Authored, Held, [SiteNext]_allVars, NEW v \in Visitors,
                      visits'[v] # visits[v], answer'[v].kind = "served",
                      answer'[v].key # None, Steady(answer'[v].cid)
               PROVE  content[answer'[v].cid].env = answer'[v].key
    OBVIOUS
  <2>1. PICK s \in ValidSlugs, f \in files : ServedFrom(v, f, s)
    BY OnlyAskingServes
  <2>2. Steady(f.cid)
    BY <2>1 DEF ServedFrom, Steady
  <2>3. PICK e, d : e = content[f.cid].env /\ d = cookie[v][s]
    OBVIOUS
  <2>4. e # None /\ d # None /\ Head(f.seals) = d.dek /\ answer'[v].key = d
    BY <2>1, <2>3 DEF ServedFrom
  <2>5. e \in Envelope /\ f.seals = <<e.dek>>
    BY <2>2, <2>3, <2>4, SteadySeals
  <2>6. e.dek = d.dek
    BY <2>4, <2>5 DEF Envelope
  <2>7. d \in Envelope /\ Drew(d)
    BY <2>3, <2>4 DEF Held
  <2>8. Drew(e)
    BY <2>2, <2>3, <2>4, SteadySeals DEF Authored, Made
  <2>9. d = e
    BY <2>5, <2>6, <2>7, <2>8, OneKey
  <2>10. QED BY <2>1, <2>3, <2>4, <2>9 DEF ServedFrom
<1> HIDE DEF Current
<1>2. SiteSpec => [][Current]_allVars
  BY <1>1, SiteImplementsService, Invariant, AlwaysSerial, AlwaysAuthored, AlwaysHeld,
     PTL DEF SiteSpec
<1>3. QED BY <1>2 DEF Current, RotationRelocks

-----------------------------------------------------------------------------
(* The paths that files are stored at.                                     *)

\* A path that some call may upload a file to.
Uploadable(p) == \E r \in Requests : \E q \in Plans[r] :
                   /\ q.upload # None
                   /\ \E n \in 1 .. Len(q.upload.paths) : p = q.upload.paths[n]

\* Files, and the payloads that are about to be put back, are at such paths.
Placed ==
  /\ \A r \in Requests : req[r].par # None => req[r].par \in Plans[r]
  /\ \A f \in files : Uploadable(f.path)
  /\ \A r \in Requests : \A g \in req[r].rewritten : Uploadable(g.path)

\* What a statement may do to what Placed is about: it stores and carries what it
\* found or what is at such a path.
Places(r) ==
  /\ req'[r].par # None => req'[r].par \in Plans[r]
  /\ \A f \in files' : Uploadable(f.path)
  /\ \A g \in req'[r].rewritten : Uploadable(g.path)

\* A statement that stores no file, and keeps what its request holds.
LEMMA PlacesNone ==
  ASSUME Inv, Placed, NEW r \in Requests, files' \subseteq files,
         \/ \E res : req'[r] = Ended(req[r], res)
         \/ \E pc : req'[r] = At(req[r], pc)
         \/ req'[r] = StoreError(req[r])
         \/ \E n : req'[r] = StoreFrom(req[r], n)
  PROVE  Places(r)
<1>1. req[r] \in Request
  BY DEF Inv, TypeInv, TypeOK
<1>2. req'[r].par = req[r].par /\ req'[r].rewritten = req[r].rewritten
  BY <1>1, Carried
<1>3. QED BY <1>2 DEF Placed, Places

\* Every statement of a call keeps to uploadable paths: a file comes from the
\* upload of its call, and a rewritten payload keeps the path of its file.
LEMMA StepPlaces ==
  ASSUME Inv, Placed, NEW r \in Requests, Step(r)
  PROVE  Places(r)
<1> DEFINE q == req[r]
<1>1. /\ q \in Request /\ req \in [Requests -> Request]
      /\ q.par # None => q.par \in Plans[r]
      /\ \A g \in q.rewritten : Uploadable(g.path)
      /\ \A f \in files : Uploadable(f.path)
  BY DEF Inv, TypeInv, TypeOK, Placed
<1>2. CASE Call(r)
  <2>1. PICK p \in Plans[r] : Make(r, p)
    BY <1>2 DEF Call
  <2>2. PICK new : new = [q EXCEPT !.par = p]
    OBVIOUS
  <2>3. new \in Request /\ new.par = p /\ new.rewritten = q.rewritten
    BY <1>1, <2>1, <2>2, PlansAssumption DEF Request
  <2>4. /\ files' = files
        /\ \/ \E res : req'[r] = Ended(new, res)
           \/ \E pc : req'[r] = At(new, pc)
    BY <1>1, <2>1, <2>2 DEF Make
  <2>5. req'[r].par = p /\ req'[r].rewritten = q.rewritten
    BY <2>3, <2>4, Carried
  <2>6. QED BY <1>1, <2>4, <2>5 DEF Places
<1>3. CASE CheckSlug(r)
  <2>1. /\ files' = files
        /\ \/ \E res : req'[r] = Ended(q, res)
           \/ \E row : req'[r] = [q EXCEPT !.pc = "insert", !.row = row]
    BY <1>1, <1>3 DEF CheckSlug
  <2>2. CASE \E row : req'[r] = [q EXCEPT !.pc = "insert", !.row = row]
    <3>1. req'[r].par = q.par /\ req'[r].rewritten = q.rewritten
      BY <1>1, <2>2 DEF Request
    <3>2. QED BY <1>1, <2>1, <3>1 DEF Places
  <2>3. QED BY <2>1, <2>2, PlacesNone
<1>4. CASE InsertContent(r)
  <2>1. PICK new : new = [q EXCEPT !.cid = r]
    OBVIOUS
  <2>2. new \in Request /\ new.par = q.par /\ new.rewritten = q.rewritten
    BY <1>1, <2>1 DEF Request
  <2>3. /\ files' = files
        /\ req'[r] = Ended(q, "failed") \/ req'[r] = StoreFrom(new, 1)
    BY <1>1, <1>4, <2>1 DEF InsertContent
  <2>4. CASE req'[r] = StoreFrom(new, 1)
    <3>1. req'[r].par = q.par /\ req'[r].rewritten = q.rewritten
      BY <2>2, <2>4, Carried
    <3>2. QED BY <1>1, <2>3, <3>1 DEF Places
  <2>5. QED BY <2>3, <2>4, PlacesNone
<1>5. CASE PutFile(r)
  <2>1. PICK g : g = NewFile(r, q)
    OBVIOUS
  <2>2. /\ files' \subseteq files \cup {g} /\ q.pc = "put"
        /\ req'[r] = StoreError(q) \/ \E n : req'[r] = StoreFrom(q, n)
    BY <1>1, <1>5, <2>1 DEF PutFile, Statement
  <2>3. /\ q.par # None /\ q.par.upload # None
        /\ q.next \in 1 .. Len(q.par.upload.paths)
    BY <2>2, NoneAssumption DEF Inv, TypeInv, TypeOK, Shape, Statements, Uploads
  <2>4. g.path = q.par.upload.paths[q.next]
    BY <2>1 DEF NewFile
  <2>5. Uploadable(g.path)
    BY <1>1, <2>3, <2>4 DEF Uploadable
  <2>6. req'[r].par = q.par /\ req'[r].rewritten = q.rewritten
    BY <1>1, <2>2, Carried
  <2>7. QED BY <1>1, <2>2, <2>5, <2>6 DEF Places
<1>6. CASE UndoCreate(r) \/ DeleteContent(r)
  <2>1. files' \subseteq files /\ \E res : req'[r] = Ended(q, res)
    BY <1>1, <1>6 DEF UndoCreate, DeleteContent, DeleteRow
  <2>2. QED BY <2>1, PlacesNone
<1>7. CASE LoadContent(r)
  <2>1. /\ files' = files
        /\ \/ \E res : req'[r] = Ended(q, res)
           \/ \E c \in Requests :
                \/ req'[r] = UpdateLoaded(r, q, c)
                \/ req'[r] = [q EXCEPT !.pc = "remove", !.cid = c, !.row = content[c]]
    BY <1>1, <1>7 DEF LoadContent, RowsAt
  <2>2. ASSUME NEW c \in Requests, req'[r] = UpdateLoaded(r, q, c)
        PROVE  req'[r].par = q.par /\ req'[r].rewritten = q.rewritten
    BY <1>1, <2>2 DEF UpdateLoaded, Ended, Request
  <2>3. ASSUME NEW c \in Requests,
               req'[r] = [q EXCEPT !.pc = "remove", !.cid = c, !.row = content[c]]
        PROVE  req'[r].par = q.par /\ req'[r].rewritten = q.rewritten
    BY <1>1, <2>3 DEF Request
  <2>4. CASE req'[r].par = q.par /\ req'[r].rewritten = q.rewritten
    BY <1>1, <2>1, <2>4 DEF Places
  <2>5. QED BY <2>1, <2>2, <2>3, <2>4, PlacesNone
<1>8. CASE ListFiles(r)
  <2>1. PICK rew : rew = {Rewrite(q.row.env, q.env, f) : f \in FilesOf(q.cid)}
    OBVIOUS
  <2>2. /\ files' = files
        /\ \/ req'[r] = [q EXCEPT !.pc = "apply", !.rewritten = rew]
           \/ req'[r] = Ended(q, "failed")
    BY <1>1, <1>8, <2>1 DEF ListFiles
  <2>3. \A g \in rew : Uploadable(g.path)
    <3>1. \A f \in files : Rewrite(q.row.env, q.env, f).path = f.path
      BY DEF Rewrite, Inv, TypeInv, TypeOK, File
    <3>2. QED BY <1>1, <2>1, <3>1 DEF FilesOf
  <2>4. CASE req'[r] = [q EXCEPT !.pc = "apply", !.rewritten = rew]
    <3>1. req'[r].par = q.par /\ req'[r].rewritten = rew
      BY <1>1, <2>4 DEF Request
    <3>2. QED BY <1>1, <2>2, <2>3, <3>1 DEF Places
  <2>5. QED BY <2>2, <2>4, PlacesNone
<1>9. CASE ApplyEncryption(r)
  <2>1. /\ files' \subseteq files \cup q.rewritten
        /\ \/ req'[r] = [q EXCEPT !.pc = "save", !.row.env = q.env, !.rewritten = {}]
           \/ req'[r] = Ended(q, "failed")
    BY <1>1, <1>9 DEF ApplyEncryption
  <2>2. /\ req'[r].par = q.par
        /\ req'[r].rewritten = {} \/ req'[r].rewritten = q.rewritten
    BY <1>1, <2>1 DEF Request, Ended
  <2>3. QED BY <1>1, <2>1, <2>2 DEF Places
<1>10. CASE SaveContent(r) \/ DropFiles(r)
  <2>1. /\ files' \subseteq files
        /\ \/ \E res : req'[r] = Ended(q, res)
           \/ \E pc : req'[r] = At(q, pc)
           \/ \E n : req'[r] = StoreFrom(q, n)
    BY <1>1, <1>10 DEF SaveContent, DropFiles
  <2>2. QED BY <2>1, PlacesNone
<1>11. QED BY <1>2, <1>3, <1>4, <1>5, <1>6, <1>7, <1>8, <1>9, <1>10 DEF Step

\* Files are stored at uploadable paths only.
LEMMA AlwaysPlaced == Spec => []Placed
<1>1. Init => Placed
  BY DEF Init, Idle, Placed
<1>2. Inv /\ Inv' /\ Placed /\ [Next]_vars => Placed'
  <2>1. ASSUME Inv, Inv', Placed, NEW r \in Requests, Step(r) PROVE Placed'
    <3>1. \A s \in Requests \ {r} : req'[s] = req[s]
      BY <2>1, StepLawful DEF Inv, Lawful, LawfulRequest
    <3>2. Places(r)
      BY <2>1, StepPlaces
    <3>3. QED BY <2>1, <3>1, <3>2 DEF Placed, Places, Uploadable
  <2>2. ASSUME Inv, Placed, Crash PROVE Placed'
    <3>1. files' = files /\ \A s \in Requests : req'[s] = Ended(req[s], "crashed")
                                                 \/ req'[s] = req[s]
      BY <2>2 DEF Crash
    <3>2. \A s \in Requests : /\ req'[s].par = req[s].par
                              /\ req'[s].rewritten = req[s].rewritten
      BY <2>2, <3>1 DEF Ended, Inv, TypeInv, TypeOK, Request
    <3>3. QED BY <2>2, <3>1, <3>2 DEF Placed, Uploadable
  <2>3. ASSUME Placed, UNCHANGED vars PROVE Placed'
    BY <2>3 DEF vars, Placed, Uploadable
  <2>4. QED BY <2>1, <2>2, <2>3 DEF Next, AllDone
<1>3. QED BY <1>1, <1>2, Invariant, PTL DEF Spec

\* When calls for one slug do not overlap and the collation tells the paths that
\* visitors ask for from all others that files are uploaded to, a visitor who holds
\* the key of a steady entry is served without another prompt, and keeps the key.
THEOREM UnlockLasts ==
  ASSUME Overlap = FALSE,
         \A p \in Asked, q \in Paths : Uploadable(q) /\ Canon[q] = Canon[p] => q = p
  PROVE  SiteSpec => UnlockedStays
<1> DEFINE Lasts == \A v \in Visitors, s \in ValidSlugs, p \in Asked :
             /\ AskFile(v, s, p) /\ Matching(s, p) # {} /\ cookie[v][s] # None
             /\ \A c \in RowsAt(s) : content[c].env = cookie[v][s] /\ Steady(c)
             => answer'[v].kind = "served" /\ cookie' = cookie
<1>1. Inv /\ Serial /\ Held /\ Placed => Lasts
  <2> SUFFICES ASSUME Inv, Serial, Held, Placed, NEW v \in Visitors, NEW s \in ValidSlugs,
                      NEW p \in Asked, AskFile(v, s, p), Matching(s, p) # {},
                      cookie[v][s] # None,
                      \A c \in RowsAt(s) : content[c].env = cookie[v][s] /\ Steady(c)
               PROVE  answer'[v].kind = "served" /\ cookie' = cookie
    OBVIOUS
  <2>1. PICK f \in Matching(s, p) : Serve(v, s, p, f)
    BY DEF AskFile
  <2>2. /\ f \in files /\ f.path \in Paths /\ content[f.cid].slug = s
        /\ Canon[f.path] = Canon[p] /\ Uploadable(f.path)
    BY DEF Matching, Inv, TypeInv, TypeOK, File, Placed
  <2>3. f.cid \in RowsAt(s)
    BY <2>2 DEF RowsAt, Inv, TypeInv, TypeOK, File, Ownership, FileOwner
  <2>4. PICK e : e = cookie[v][s]
    OBVIOUS
  <2>5. /\ e # None /\ content[f.cid].env = e /\ Steady(f.cid)
    BY <2>3, <2>4
  <2>6. e \in Envelope /\ f.seals = <<e.dek>>
    BY <2>2, <2>5, SteadySeals
  <2>7. Opened(e, p, f)
    BY <2>2, <2>6 DEF Opened, Envelope
  <2>8. /\ Answer(v, [kind |-> "served", cid |-> f.cid, key |-> e, rest |-> Tail(f.seals)])
        /\ cookie' = cookie
    BY <2>1, <2>4, <2>5, <2>7 DEF Serve
  <2>9. answer'[v] = [kind |-> "served", cid |-> f.cid, key |-> e, rest |-> Tail(f.seals)]
    BY <2>8 DEF Answer, Held
  <2>10. QED BY <2>8, <2>9
<1> HIDE DEF Lasts
<1>2. SiteSpec => [][Lasts]_allVars
  BY <1>1, SiteImplementsService, Invariant, AlwaysSerial, AlwaysHeld, AlwaysPlaced,
     PTL DEF SiteSpec
<1>3. QED BY <1>2 DEF Lasts, UnlockedStays


=============================================================================
