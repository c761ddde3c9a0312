-------------------------- MODULE Sessions_proofs --------------------------
(***************************************************************************)
(* For any number of browsers, users and requests, with or without overlap *)
(* and whatever is lost: the variables of Sessions keep their types, and a *)
(* session of a user goes back to a login of that user at that browser.    *)
(* At browsers that wait for each response: users come and go by logins    *)
(* and logouts only, a stash stays until a login resumes it, which one     *)
(* login does, and messages are shown once, errors at least once; in both  *)
(* cases unless a newer one takes their place.                             *)
(***************************************************************************)
EXTENDS Sessions, TLAPS

\* The OIDC login s was begun at browser b.
Begun(s, b) == s \in Drawn /\ req[s].at = b

\* User u logged in at browser b.
Origin(b, u) == \E r \in Requests : LoggedIn(r, b, u)

\* What session c says at browser b is true.
Honest(c, b) == /\ c.user # None => Origin(b, c.user)
                /\ c.state # None => Begun(c.state, b)

\* What the response of r is about to set is true, or will be when it arrives.
Promised(r) ==
  /\ req[r].cookie.user # None =>
       \/ Origin(req[r].at, req[r].cookie.user)
       \/ /\ req[r].kind \in Logins /\ req[r].who = req[r].cookie.user
          /\ req[r].kind = "callback" => Begun(req[r].state, req[r].at)
  /\ req[r].cookie.state # None =>
       \/ Begun(req[r].cookie.state, req[r].at)
       \/ req[r].cookie.state = r /\ req[r].kind = "oidc"

\* The sessions at browsers and in requests are honest, those in responses will be.
Inv == /\ TypeOK
       /\ \A b \in Browsers : Honest(jar[b], b)
       /\ \A r \in Requests : req[r].pc = "sent" => Honest(req[r].cookie, req[r].at)
       /\ \A r \in Requests : req[r].pc = "answered" /\ req[r].saves => Promised(r)
       /\ \A r \in Requests : req[r].pc \in {"idle", "sent"} => ~req[r].saves

-----------------------------------------------------------------------------

\* The empty session is typed and honest.
LEMMA NoSessionType == NoSession \in Session
BY DEF NoSession, Session

\* Initially no session says anything.
LEMMA InitInv == Init => Inv
<1> SUFFICES ASSUME Init PROVE Inv
  OBVIOUS
<1>1. TypeOK
  <2>1. \A r \in Requests : req[r] \in Request
    BY NoSessionType DEF Init, Request
  <2>2. faults \in 0 .. MaxFaults
    BY SessionsAssumption DEF Init
  <2>3. QED BY <2>1, <2>2, NoSessionType DEF Init, TypeOK
<1>2. \A b \in Browsers : Honest(jar[b], b)
  BY DEF Init, Honest, NoSession
<1>3. QED BY <1>1, <1>2 DEF Init, Inv

\* What a step of r does: it moves r on, never back from "arrived", and keeps what
\* it was asked.
Moves(r) == /\ req[r].pc # "arrived"
            /\ \A s \in Requests \ {r} : req'[s] = req[s]
            /\ req[r].pc # "idle" =>
                 /\ req'[r].at = req[r].at /\ req'[r].kind = req[r].kind
                 /\ req'[r].who = req[r].who /\ req'[r].state = req[r].state

\* Logins and OIDC logins that arrived stay arrived.
LEMMA OriginsStay ==
  ASSUME NEW r \in Requests, Moves(r), req[r].pc # "arrived", NEW b, NEW u
  PROVE  /\ Origin(b, u) => Origin(b, u)'
         /\ \A s : Begun(s, b) => Begun(s, b)'
<1>1. \A s : Begun(s, b) => Begun(s, b)'
  BY DEF Moves, Begun, Drawn
<1>2. ASSUME NEW q \in Requests, LoggedIn(q, b, u)
      PROVE  LoggedIn(q, b, u)'
  <2>1. q # r /\ req'[q] = req[q]
    BY <1>2 DEF LoggedIn, Moves
  <2>2. req[q].kind = "callback" => Begun(req[q].state, b)
    BY <1>2 DEF LoggedIn, Begun
  <2>3. req[q].kind = "callback" => Begun(req[q].state, b)'
    BY <2>1, <2>2, <1>1
  <2>4. req'[q].kind = "callback" =>
          req'[q].state \in Drawn' /\ req'[req'[q].state].at = b
    BY <2>1, <2>2, <1>1 DEF Begun
  <2>5. QED BY <1>2, <2>1, <2>4 DEF LoggedIn
<1>3. QED BY <1>1, <1>2 DEF Origin

\* An honest session stays so.
LEMMA HonestStays ==
  ASSUME NEW r \in Requests, Moves(r), NEW c, NEW b, Honest(c, b)
  PROVE  Honest(c, b)'
<1>1. req[r].pc # "arrived"
  BY DEF Moves
<1>2. /\ c.user # None => Origin(b, c.user)'
      /\ c.state # None => Begun(c.state, b)'
  BY <1>1, OriginsStay DEF Honest
<1>3. QED BY <1>2 DEF Honest

-----------------------------------------------------------------------------
(* The handlers.                                                           *)

\* What a handler does: it answers, and a session it saves says what the one it
\* read said, except for a login and a state of its own.
Answers(r) ==
  /\ req[r].pc = "sent" /\ req'[r].pc = "answered"
  /\ req' \in [Requests -> Request]
  /\ Moves(r) /\ UNCHANGED <<jar, faults>>
  /\ req'[r].saves =>
       /\ req'[r].cookie.user # None =>
            \/ req'[r].cookie.user = req[r].cookie.user
            \/ /\ req[r].kind \in Logins /\ req[r].who = req'[r].cookie.user
               /\ req[r].kind = "callback" => StateFits(req[r])
       /\ req'[r].cookie.state # None =>
            \/ req'[r].cookie.state = req[r].cookie.state
            \/ req'[r].cookie.state = r /\ req[r].kind = "oidc"

\* Such a step preserves the invariant.
LEMMA AnswerKeeps ==
  ASSUME Inv, NEW r \in Requests, Answers(r)
  PROVE  Inv'
<1>1. /\ req[r] \in Request /\ req[r].at \in Browsers
      /\ Honest(req[r].cookie, req[r].at)
  BY DEF Answers, Inv, TypeOK, Request
<1>2. req'[r].at = req[r].at /\ req'[r].kind = req[r].kind
      /\ req'[r].who = req[r].who /\ req'[r].state = req[r].state
  BY DEF Answers, Moves
<1>3. TypeOK'
  BY <1>1, <1>2, SessionsAssumption DEF Answers, Moves, Inv, TypeOK
<1>4. \A b \in Browsers : Honest(jar[b], b)'
  <2>1. ASSUME NEW b \in Browsers PROVE Honest(jar[b], b)'
    <3>1. Honest(jar[b], b)
      BY DEF Inv
    <3>2. \A c : Honest(c, b) => Honest(c, b)'
      BY HonestStays DEF Answers
    <3>3. QED BY <3>1, <3>2 DEF Answers, Honest
  <2>2. QED BY <2>1
<1>5. ASSUME NEW s \in Requests, req'[s].pc \in {"idle", "sent"}
      PROVE  /\ req'[s].pc = "sent" => Honest(req[s].cookie, req[s].at)'
             /\ ~req'[s].saves
  <2>1. s # r /\ req'[s] = req[s]
    BY <1>5 DEF Answers, Moves
  <2>2. (req[s].pc = "sent" => Honest(req[s].cookie, req[s].at)) /\ ~req[s].saves
    BY <1>5, <2>1 DEF Inv
  <2>3. \A c, b : Honest(c, b) => Honest(c, b)'
    BY HonestStays DEF Answers
  <2>4. QED BY <2>1, <2>2, <2>3 DEF Honest
<1>6. \A b, u : Origin(b, u) => Origin(b, u)'
  BY OriginsStay DEF Answers, Moves
<1>7. \A b, s : Begun(s, b) => Begun(s, b)'
  BY OriginsStay DEF Answers, Moves
<1>8. ASSUME NEW s \in Requests, req'[s].pc = "answered", req'[s].saves
      PROVE  Promised(s)'
  <2>1. CASE s = r
    <3>1. PICK c, b, st : c = req[r].cookie /\ b = req[r].at /\ st = req[r].state
      OBVIOUS
    <3>2. /\ c.user # None => Origin(b, c.user)'
          /\ c.state # None => Begun(c.state, b)'
      BY <1>1, <1>6, <1>7, <3>1 DEF Honest
    <3>3. StateFits(req[r]) => Begun(st, b)'
      BY <3>1, <3>2 DEF StateFits
    <3>4. PICK n : n = req'[r].cookie
      OBVIOUS
    <3>5. n.user # None =>
            \/ Origin(b, n.user)'
            \/ /\ req[r].kind \in Logins /\ req[r].who = n.user
               /\ req[r].kind = "callback" => Begun(st, b)'
      <4>1. SUFFICES ASSUME n.user # None, n.user # c.user
                     PROVE  /\ req[r].kind \in Logins /\ req[r].who = n.user
                            /\ req[r].kind = "callback" => Begun(st, b)'
        BY <3>2
      <4>2. QED BY <1>8, <2>1, <3>1, <3>3, <3>4, <4>1 DEF Answers
    <3>6. n.state # None =>
            Begun(n.state, b)' \/ (n.state = r /\ req[r].kind = "oidc")
      <4>1. SUFFICES ASSUME n.state # None, n.state # c.state
                     PROVE  n.state = r /\ req[r].kind = "oidc"
        BY <3>2
      <4>2. QED BY <1>8, <2>1, <3>1, <3>4, <4>1 DEF Answers
    <3>7. QED BY <1>2, <2>1, <3>1, <3>4, <3>5, <3>6 DEF Promised
  <2>2. CASE s # r
    <3>1. req'[s] = req[s]
      BY <2>2 DEF Answers, Moves
    <3>2. Promised(s)
      BY <1>8, <3>1 DEF Inv
    <3>3. QED BY <1>6, <1>7, <3>1, <3>2 DEF Promised
  <2>3. QED BY <2>1, <2>2
<1>9. QED BY <1>3, <1>4, <1>5, <1>8 DEF Inv

\* The three ways to answer: nothing saved, a session saved, a login.
LEMMA SilentAnswers ==
  ASSUME Inv, NEW r \in Requests, req[r].pc = "sent", Silent(r)
  PROVE  Answers(r)
<1>1. req[r] \in Request /\ ~req[r].saves
  BY DEF Inv, TypeOK
<1>2. req'[r] = [req[r] EXCEPT !.pc = "answered"]
  BY DEF Silent, Inv, TypeOK
<1>3. \A s \in Requests \ {r} : req'[s] = req[s]
  BY DEF Silent, Inv, TypeOK
<1>4. req'[r] \in Request /\ req'[r].pc = "answered" /\ ~req'[r].saves
      /\ req'[r].at = req[r].at /\ req'[r].kind = req[r].kind
      /\ req'[r].who = req[r].who /\ req'[r].state = req[r].state
  BY <1>1, <1>2 DEF Request
<1>5. req' \in [Requests -> Request]
  BY <1>3, <1>4 DEF Silent, Inv, TypeOK
<1>6. QED BY <1>3, <1>4, <1>5 DEF Answers, Moves, Silent

\* A saved session of the right type is what the response sets.
LEMMA SaveAnswers ==
  ASSUME Inv, NEW r \in Requests, req[r].pc = "sent",
         NEW c \in Session, NEW shown \in SUBSET Requests,
         NEW resumed \in Requests \cup {None},
         UNCHANGED <<jar, faults>>,
         req' = [req EXCEPT ![r].pc = "answered", ![r].cookie = c, ![r].saves = TRUE,
                            ![r].shows = shown, ![r].resumes = resumed],
         c.user # None =>
           \/ c.user = req[r].cookie.user
           \/ /\ req[r].kind \in Logins /\ req[r].who = c.user
              /\ req[r].kind = "callback" => StateFits(req[r]),
         c.state # None =>
           c.state = req[r].cookie.state \/ (c.state = r /\ req[r].kind = "oidc")
  PROVE  Answers(r)
<1>1. req[r] \in Request
  BY DEF Inv, TypeOK
<1>2. req'[r] = [req[r] EXCEPT !.pc = "answered", !.cookie = c, !.saves = TRUE,
                               !.shows = shown, !.resumes = resumed]
  BY DEF Inv, TypeOK
<1>3. \A s \in Requests \ {r} : req'[s] = req[s]
  BY DEF Inv, TypeOK
<1>4. req'[r] \in Request /\ req'[r].pc = "answered" /\ req'[r].cookie = c
      /\ req'[r].at = req[r].at /\ req'[r].kind = req[r].kind
      /\ req'[r].who = req[r].who /\ req'[r].state = req[r].state
  <2> DEFINE q == req[r]
             n == [q EXCEPT !.pc = "answered", !.cookie = c, !.saves = TRUE,
                            !.shows = shown, !.resumes = resumed]
  <2>1. q \in Request
    BY <1>1
  <2> HIDE DEF q
  <2>2. n \in Request
    BY <2>1 DEF Request
  <2>3. /\ n.pc = "answered" /\ n.cookie = c /\ n.at = q.at /\ n.kind = q.kind
        /\ n.who = q.who /\ n.state = q.state
    BY <2>1 DEF Request
  <2>4. req'[r] = n
    BY <1>2 DEF q
  <2> HIDE DEF n
  <2>5. QED BY <2>2, <2>3, <2>4 DEF q
<1>5. req' \in [Requests -> Request]
  BY <1>3, <1>4 DEF Inv, TypeOK
<1>6. QED BY <1>3, <1>4, <1>5 DEF Answers, Moves

\* A login saves a session of its user.
LEMMA LogInAnswers ==
  ASSUME Inv, NEW r \in Requests, req[r].pc = "sent", req[r].kind \in Logins,
         NEW c \in Session, LogIn(r, c),
         c.state # None => c.state = req[r].cookie.state,
         req[r].kind = "callback" => StateFits(req[r])
  PROVE  Answers(r)
<1> DEFINE n == [c EXCEPT !.user = req[r].who, !.redirect = None]
<1>1. req[r].who \in Users \cup {None}
  BY DEF Inv, TypeOK, Request
<1>2. n \in Session /\ n.user = req[r].who /\ n.state = c.state
  BY <1>1 DEF Session
<1>3. c.redirect \in Requests \cup {None}
  BY DEF Session
<1>4. req[r] \in Request
  BY DEF Inv, TypeOK
<1>5. req[r].shows \in SUBSET Requests
  BY <1>4 DEF Request
<1>6. /\ UNCHANGED <<jar, faults>>
      /\ req' = [req EXCEPT ![r].pc = "answered", ![r].saves = TRUE, ![r].cookie = n,
                            ![r].resumes = c.redirect]
  BY DEF LogIn
<1> HIDE DEF n
<1>7. req' = [req EXCEPT ![r].pc = "answered", ![r].cookie = n, ![r].saves = TRUE,
                         ![r].shows = req[r].shows, ![r].resumes = c.redirect]
  <2>1. [req[r] EXCEPT !.pc = "answered", !.saves = TRUE, !.cookie = n,
                       !.resumes = c.redirect]
          = [req[r] EXCEPT !.pc = "answered", !.cookie = n, !.saves = TRUE,
                           !.shows = req[r].shows, !.resumes = c.redirect]
    BY <1>4 DEF Request
  <2>2. QED BY <1>6, <2>1 DEF Inv, TypeOK
<1>8. /\ n.user # None =>
           \/ n.user = req[r].cookie.user
           \/ /\ req[r].kind \in Logins /\ req[r].who = n.user
              /\ req[r].kind = "callback" => StateFits(req[r])
      /\ n.state # None =>
           n.state = req[r].cookie.state \/ (n.state = r /\ req[r].kind = "oidc")
  BY <1>2
<1> DEFINE shown == req[r].shows
           resumed == c.redirect
<1> HIDE DEF shown, resumed
<1>9. /\ n \in Session /\ shown \in SUBSET Requests /\ resumed \in Requests \cup {None}
      /\ req' = [req EXCEPT ![r].pc = "answered", ![r].cookie = n, ![r].saves = TRUE,
                            ![r].shows = shown, ![r].resumes = resumed]
  BY <1>2, <1>3, <1>5, <1>7 DEF shown, resumed
<1>10. QED BY <1>6, <1>8, <1>9, SaveAnswers

\* Other handlers keep the user or drop it.
LEMMA OtherAnswers ==
  ASSUME Inv, NEW r \in Requests, req[r].pc = "sent",
         NEW c \in Session, Save(r, c),
         c.user # None => c.user = req[r].cookie.user,
         c.state # None =>
           c.state = req[r].cookie.state \/ (c.state = r /\ req[r].kind = "oidc")
  PROVE  Answers(r)
<1>1. req[r] \in Request
  BY DEF Inv, TypeOK
<1>2. req[r].shows \in SUBSET Requests /\ req[r].resumes \in Requests \cup {None}
  BY <1>1 DEF Request
<1>3. req' = [req EXCEPT ![r].pc = "answered", ![r].cookie = c, ![r].saves = TRUE,
                         ![r].shows = req[r].shows, ![r].resumes = req[r].resumes]
  <2>1. [req[r] EXCEPT !.pc = "answered", !.cookie = c, !.saves = TRUE]
          = [req[r] EXCEPT !.pc = "answered", !.cookie = c, !.saves = TRUE,
                           !.shows = req[r].shows, !.resumes = req[r].resumes]
    BY <1>1 DEF Request
  <2>2. QED BY <2>1 DEF Save, Inv, TypeOK
<1>4. UNCHANGED <<jar, faults>>
  BY DEF Save
<1>5. QED BY <1>2, <1>3, <1>4, SaveAnswers

\* Every handler answers in one of these ways.
LEMMA HandleAnswers ==
  ASSUME Inv, NEW r \in Requests, Handle(r)
  PROVE  Answers(r)
<1> DEFINE c == req[r].cookie
<1>1. c \in Session /\ r # None
  BY SessionsAssumption DEF Inv, TypeOK, Request
<1>2. CASE LoginSubmit(r)
  BY <1>1, <1>2, SilentAnswers, LogInAnswers DEF LoginSubmit, Handles, Logins
<1>3. CASE OidcLogin(r)
  <2>1. [c EXCEPT !.state = r] \in Session
    BY <1>1 DEF Session
  <2>2. [c EXCEPT !.state = r].user = c.user /\ [c EXCEPT !.state = r].state = r
    BY <1>1 DEF Session
  <2> DEFINE n == [c EXCEPT !.state = r]
  <2>3. req[r].pc = "sent" /\ req[r].kind = "oidc" /\ (Silent(r) \/ Save(r, n))
    BY <1>3 DEF OidcLogin, Handles, Grow
  <2>4. n \in Session /\ n.user = c.user /\ n.state = r
    BY <2>1, <2>2
  <2> HIDE DEF n
  <2>5. CASE Silent(r)
    BY <2>3, <2>5, SilentAnswers
  <2>6. CASE Save(r, n)
    BY <2>3, <2>4, <2>6, OtherAnswers
  <2>7. QED BY <2>3, <2>5, <2>6
<1>4. CASE Callback(r)
  <2>1. [c EXCEPT !.state = None] \in Session /\ [c EXCEPT !.state = None].state = None
    BY <1>1 DEF Session
  <2>2. QED BY <1>4, <2>1, SilentAnswers, LogInAnswers DEF Callback, Handles, Logins
<1>5. CASE Authorize(r)
  <2> DEFINE n == [c EXCEPT !.redirect = r]
  <2>1. n \in Session /\ n.user = c.user /\ n.state = c.state
    BY <1>1 DEF Session
  <2>2. req[r].pc = "sent" /\ (Silent(r) \/ Save(r, n))
    BY <1>5 DEF Authorize, Handles, Grow
  <2> HIDE DEF n
  <2>3. CASE Silent(r)
    BY <2>2, <2>3, SilentAnswers
  <2>4. CASE Save(r, n)
    BY <2>1, <2>2, <2>4, OtherAnswers
  <2>5. QED BY <2>2, <2>3, <2>4
<1>6. CASE TurnedAway(r)
  BY <1>6, SilentAnswers DEF TurnedAway
<1>7. CASE Logout(r)
  <2> DEFINE n == [c EXCEPT !.user = None]
  <2>1. n \in Session /\ n.user = None /\ n.state = c.state
    BY <1>1 DEF Session
  <2>2. req[r].pc = "sent" /\ Save(r, n)
    BY <1>7 DEF Logout, Admitted, Handles
  <2> HIDE DEF n
  <2>3. QED BY <2>1, <2>2, OtherAnswers
<1>8. CASE Submit(r)
  <2>1. PICK key \in {"success", "error"} : Silent(r) \/ Save(r, Flashed(c, key, r))
    BY <1>8 DEF Submit, Grow
  <2>2. /\ Flashed(c, key, r) \in Session
        /\ Flashed(c, key, r).user = c.user /\ Flashed(c, key, r).state = c.state
    BY <1>1 DEF Flashed, Session
  <2>3. req[r].pc = "sent"
    BY <1>8 DEF Submit, Admitted, Handles
  <2> DEFINE n == Flashed(c, key, r)
  <2> HIDE DEF n
  <2>4. n \in Session /\ n.user = c.user /\ n.state = c.state
    BY <2>2 DEF n
  <2>5. CASE Silent(r)
    BY <2>3, <2>5, SilentAnswers
  <2>6. CASE Save(r, n)
    BY <2>3, <2>4, <2>6, OtherAnswers
  <2>7. QED BY <2>1, <2>5, <2>6 DEF n
<1>9. CASE Page(r)
  <2>1. PICK k \in Pages :
          \/ Silent(r)
          \/ /\ req' = [req EXCEPT ![r].pc = "answered", ![r].saves = TRUE,
                                   ![r].cookie = Unflashed(c),
                                   ![r].shows = Rendered(k, c)]
             /\ UNCHANGED <<jar, faults>>
    BY <1>9 DEF Page
  <2>2. req[r].pc = "sent"
    BY <1>9 DEF Page, Admitted, Handles
  <2>3. /\ Unflashed(c) \in Session
        /\ Unflashed(c).user = c.user /\ Unflashed(c).state = c.state
    BY <1>1 DEF Unflashed, Session
  <2>4. Rendered(k, c) \in SUBSET Requests
    BY <1>1 DEF Rendered, Session
  <2>5. req[r] \in Request
    BY DEF Inv, TypeOK
  <2>6. req[r].resumes \in Requests \cup {None}
    BY <2>5 DEF Request
  <2> DEFINE n == Unflashed(c)
             shown == Rendered(k, c)
  <2> HIDE DEF n, shown
  <2>7. [req[r] EXCEPT !.pc = "answered", !.saves = TRUE, !.cookie = n, !.shows = shown]
          = [req[r] EXCEPT !.pc = "answered", !.cookie = n, !.saves = TRUE,
                           !.shows = shown, !.resumes = req[r].resumes]
    BY <2>5 DEF Request
  <2>8. CASE /\ req' = [req EXCEPT ![r].pc = "answered", ![r].saves = TRUE,
                                   ![r].cookie = n, ![r].shows = shown]
             /\ UNCHANGED <<jar, faults>>
    <3>1. req' = [req EXCEPT ![r].pc = "answered", ![r].cookie = n,
                             ![r].saves = TRUE, ![r].shows = shown,
                             ![r].resumes = req[r].resumes]
      BY <2>7, <2>8 DEF Inv, TypeOK
    <3>2. /\ n \in Session /\ n.user = c.user /\ n.state = c.state
          /\ shown \in SUBSET Requests
      BY <2>3, <2>4 DEF n, shown
    <3>3. QED BY <2>2, <2>6, <2>8, <3>1, <3>2, SaveAnswers
  <2>9. QED BY <2>1, <2>2, <2>8, SilentAnswers DEF n, shown
<1>10. QED
  BY <1>2, <1>3, <1>4, <1>5, <1>6, <1>7, <1>8, <1>9 DEF Handle

-----------------------------------------------------------------------------
(* The browser and the network.                                            *)

\* A request carries the session of its browser.
LEMMA SendKeeps ==
  ASSUME Inv, NEW r \in Requests, Send(r)
  PROVE  Inv'
<1>1. PICK b \in Browsers, k \in Kinds, who \in Users \cup {None},
           st \in Drawn \cup {None} :
        /\ req[r].pc = "idle"
        /\ Free(b)
        /\ k \notin Logins => who = None
        /\ k # "callback" => st = None
        /\ req' = [req EXCEPT ![r] = [@ EXCEPT !.pc = "sent", !.at = b, !.kind = k,
                                      !.who = who, !.state = st, !.cookie = jar[b]]]
        /\ UNCHANGED <<jar, faults>>
  BY Zenon DEF Send
<1>2. /\ req[r] \in Request /\ jar[b] \in Session
      /\ st \in Requests \cup {None}
  BY DEF Inv, TypeOK, Drawn
<1>3. PICK c : c = jar[b]
  OBVIOUS
<1> DEFINE n == [req[r] EXCEPT !.pc = "sent", !.at = b, !.kind = k, !.who = who,
                               !.state = st, !.cookie = c]
<1>4. n \in Request /\ n.pc = "sent" /\ n.at = b /\ n.cookie = c /\ n.saves = req[r].saves
  BY <1>2, <1>3 DEF Request
<1>5. req'[r] = n /\ \A s \in Requests \ {r} : req'[s] = req[s]
  BY <1>1, <1>3 DEF Inv, TypeOK
<1> HIDE DEF n
<1>6. Moves(r)
  BY <1>1, <1>5 DEF Moves
<1>7. TypeOK'
  <2>1. req' \in [Requests -> Request]
    BY <1>1, <1>4, <1>5 DEF Inv, TypeOK
  <2>2. QED BY <1>1, <1>4, <1>5, <2>1, SessionsAssumption DEF Inv, TypeOK
<1>8. \A d, a : Honest(d, a) => Honest(d, a)'
  BY <1>6, HonestStays
<1>9. \A a \in Browsers : Honest(jar[a], a)'
  BY <1>1, <1>8 DEF Inv, Honest
<1>10. ASSUME NEW s \in Requests, req'[s].pc \in {"idle", "sent"}
       PROVE  /\ req'[s].pc = "sent" => Honest(req[s].cookie, req[s].at)'
              /\ ~req'[s].saves
  <2>1. CASE s = r
    <3>1. Honest(c, b)'
      BY <1>3, <1>8 DEF Inv
    <3>2. ~req[r].saves
      BY <1>1 DEF Inv
    <3>3. QED BY <1>4, <1>5, <2>1, <3>1, <3>2 DEF Honest
  <2>2. CASE s # r
    BY <1>5, <1>8, <1>10, <2>2 DEF Inv, Honest
  <2>3. QED BY <2>1, <2>2
<1>11. ASSUME NEW s \in Requests, req'[s].pc = "answered", req'[s].saves
       PROVE  Promised(s)'
  <2>1. s # r /\ req'[s] = req[s]
    BY <1>4, <1>5, <1>11
  <2>2. Promised(s)
    BY <1>11, <2>1 DEF Inv
  <2>3. \A a, x : (Origin(a, x) => Origin(a, x)') /\ (Begun(x, a) => Begun(x, a)')
    BY <1>6, OriginsStay DEF Moves
  <2>4. QED BY <2>1, <2>2, <2>3 DEF Promised
<1>12. QED BY <1>7, <1>9, <1>10, <1>11 DEF Inv

\* Requests that are over, and what arrived before, stay.
LEMMA OverKeeps ==
  ASSUME Inv, NEW r \in Requests, NEW pc \in {"arrived", "lost"}, UnderWay(r),
         req' = [req EXCEPT ![r].pc = pc], TypeOK',
         \A b \in Browsers : Honest(jar[b], b)'
  PROVE  Inv'
<1>1. req[r] \in Request /\ req[r].pc \in {"sent", "answered"}
  BY DEF Inv, TypeOK, UnderWay
<1>2. /\ req'[r] = [req[r] EXCEPT !.pc = pc]
      /\ \A s \in Requests \ {r} : req'[s] = req[s]
  BY DEF Inv, TypeOK
<1>3. req'[r].pc = pc /\ Moves(r)
  BY <1>1, <1>2 DEF Moves, Request
<1>4. \A d, a : Honest(d, a) => Honest(d, a)'
  BY <1>3, HonestStays
<1>5. ASSUME NEW s \in Requests, req'[s].pc \in {"idle", "sent"}
      PROVE  /\ req'[s].pc = "sent" => Honest(req[s].cookie, req[s].at)'
             /\ ~req'[s].saves
  <2>1. s # r
    BY <1>3, <1>5
  <2>2. QED BY <1>2, <1>4, <1>5, <2>1 DEF Inv, Honest
<1>6. ASSUME NEW s \in Requests, req'[s].pc = "answered", req'[s].saves
      PROVE  Promised(s)'
  <2>1. s # r /\ req'[s] = req[s]
    BY <1>2, <1>3, <1>6
  <2>2. Promised(s)
    BY <1>6, <2>1 DEF Inv
  <2>3. \A a, x : (Origin(a, x) => Origin(a, x)') /\ (Begun(x, a) => Begun(x, a)')
    BY <1>3, OriginsStay DEF Moves
  <2>4. QED BY <2>1, <2>2, <2>3 DEF Promised
<1>7. QED BY <1>5, <1>6 DEF Inv

\* A response keeps its promise when it arrives: what it was to prove is now past.
LEMMA ArriveKeeps ==
  ASSUME Inv, NEW r \in Requests, Arrive(r)
  PROVE  Inv'
<1>1. /\ req[r].pc = "answered" /\ req' = [req EXCEPT ![r].pc = "arrived"]
      /\ jar' = IF req[r].saves THEN [jar EXCEPT ![req[r].at] = req[r].cookie] ELSE jar
      /\ faults' = faults
  BY DEF Arrive
<1>2. req[r] \in Request /\ req[r].at \in Browsers /\ req[r].cookie \in Session
  BY <1>1 DEF Inv, TypeOK, Request
<1>3. /\ req'[r] = [req[r] EXCEPT !.pc = "arrived"]
      /\ \A s \in Requests \ {r} : req'[s] = req[s]
  BY <1>1 DEF Inv, TypeOK
<1>4. /\ req'[r] \in Request /\ req'[r].pc = "arrived" /\ req'[r].at = req[r].at
      /\ req'[r].kind = req[r].kind /\ req'[r].who = req[r].who
      /\ req'[r].state = req[r].state /\ req'[r].saves = req[r].saves
  BY <1>2, <1>3 DEF Request
<1>5. Moves(r)
  BY <1>1, <1>3, <1>4 DEF Moves
<1>6. TypeOK'
  <2>1. req' \in [Requests -> Request]
    BY <1>1, <1>3, <1>4 DEF Inv, TypeOK
  <2>2. jar' \in [Browsers -> Session]
    BY <1>1, <1>2 DEF Inv, TypeOK
  <2>3. \A s \in Requests : req'[s].pc # "idle" => req'[s].at # None
    BY <1>1, <1>3, <1>4 DEF Inv, TypeOK
  <2>4. QED BY <1>1, <2>1, <2>2, <2>3 DEF Inv, TypeOK
<1>7. \A d, a : Honest(d, a) => Honest(d, a)'
  BY <1>5, HonestStays
<1>8. \A a, x : (Origin(a, x) => Origin(a, x)') /\ (Begun(x, a) => Begun(x, a)')
  BY <1>5, OriginsStay DEF Moves
<1>9. PICK c, b, st : c = req[r].cookie /\ b = req[r].at /\ st = req[r].state
  OBVIOUS
<1>10. req[r].saves => Honest(c, b)'
  <2>1. SUFFICES ASSUME req[r].saves PROVE Honest(c, b)'
    OBVIOUS
  <2>2. Promised(r)
    BY <1>1, <2>1 DEF Inv
  <2>3. c.user # None => Origin(b, c.user)'
    <3>1. SUFFICES ASSUME req[r].kind \in Logins, req[r].who = c.user,
                          req[r].kind = "callback" => Begun(st, b)
                   PROVE  Origin(b, c.user)'
      BY <1>8, <1>9, <2>2 DEF Promised
    <3>2. req[r].kind = "callback" => Begun(st, b)'
      BY <3>1, <1>8
    <3>3. LoggedIn(r, b, c.user)'
      BY <1>4, <1>9, <2>1, <3>1, <3>2 DEF LoggedIn, Begun
    <3>4. QED BY <3>3 DEF Origin
  <2>4. c.state # None => Begun(c.state, b)'
    <3>1. SUFFICES ASSUME c.state = r, req[r].kind = "oidc"
                   PROVE  Begun(c.state, b)'
      BY <1>8, <1>9, <2>2 DEF Promised
    <3>2. QED BY <1>4, <1>9, <3>1 DEF Begun, Drawn
  <2>5. QED BY <2>3, <2>4 DEF Honest
<1>11. \A a \in Browsers : Honest(jar[a], a)'
  <2>1. ASSUME NEW a \in Browsers PROVE Honest(jar[a], a)'
    <3>1. Honest(jar[a], a)
      BY DEF Inv
    <3>2. PICK d : d = jar[a]
      OBVIOUS
    <3>3. Honest(d, a)'
      BY <1>7, <3>1, <3>2
    <3>4. \/ jar'[a] = d
          \/ req[r].saves /\ a = b /\ jar'[a] = c
      BY <1>1, <1>2, <1>9, <3>2 DEF Inv, TypeOK
    <3>5. QED BY <1>10, <3>3, <3>4 DEF Honest
  <2>2. QED BY <2>1
<1>12. QED BY <1>1, <1>6, <1>11, OverKeeps DEF UnderWay

\* A lost response changes nothing anywhere else.
LEMMA LoseKeeps ==
  ASSUME Inv, NEW r \in Requests, Lose(r)
  PROVE  Inv'
<1>1. UnderWay(r) /\ req' = [req EXCEPT ![r].pc = "lost"] /\ jar' = jar
  BY DEF Lose
<1>2. /\ req[r] \in Request /\ req[r].pc \in {"sent", "answered"}
      /\ req'[r] = [req[r] EXCEPT !.pc = "lost"]
      /\ \A s \in Requests \ {r} : req'[s] = req[s]
  BY <1>1 DEF Inv, TypeOK, UnderWay
<1>3. req'[r] \in Request /\ req'[r].at = req[r].at /\ Moves(r)
  BY <1>2 DEF Request, Moves
<1>4. TypeOK'
  <2>1. req' \in [Requests -> Request]
    BY <1>1, <1>2, <1>3 DEF Inv, TypeOK
  <2>2. \A s \in Requests : req'[s].pc # "idle" => req'[s].at # None
    BY <1>2, <1>3 DEF Inv, TypeOK
  <2>3. faults' \in 0 .. MaxFaults
    <3>1. faults \in 0 .. MaxFaults
      BY DEF Inv, TypeOK
    <3>2. faults < MaxFaults /\ faults' = faults + 1
      BY DEF Lose
    <3>3. QED BY <3>1, <3>2, SessionsAssumption
  <2>4. QED BY <1>1, <2>1, <2>2, <2>3 DEF Inv, TypeOK
<1>5. \A d, a : Honest(d, a) => Honest(d, a)'
  BY <1>3, HonestStays
<1>6. \A a \in Browsers : Honest(jar[a], a)'
  BY <1>1, <1>5 DEF Inv, Honest
<1>7. QED BY <1>1, <1>4, <1>6, OverKeeps

\* A browser without a cookie has the empty session.
LEMMA ForgetKeeps ==
  ASSUME Inv, NEW b \in Browsers, Forget(b)
  PROVE  Inv'
<1>1. jar' = [jar EXCEPT ![b] = NoSession] /\ req' = req
  BY DEF Forget
<1>2. TypeOK'
  <2>1. faults' \in 0 .. MaxFaults
    <3>1. faults \in 0 .. MaxFaults
      BY DEF Inv, TypeOK
    <3>2. faults < MaxFaults /\ faults' = faults + 1
      BY DEF Forget
    <3>3. QED BY <3>1, <3>2, SessionsAssumption
  <2>2. QED BY <1>1, <2>1, NoSessionType DEF Inv, TypeOK
<1>3. \A a, x : (Origin(a, x)' = Origin(a, x)) /\ (Begun(x, a)' = Begun(x, a))
  BY <1>1 DEF Origin, Begun, LoggedIn, Drawn
<1>4. \A a \in Browsers : Honest(jar[a], a)'
  <2>1. ASSUME NEW a \in Browsers PROVE Honest(jar[a], a)'
    <3>1. Honest(jar[a], a)
      BY DEF Inv
    <3>2. jar'[a] = jar[a] \/ jar'[a] = NoSession
      BY <1>1 DEF Inv, TypeOK
    <3>3. NoSession.user = None /\ NoSession.state = None
      BY DEF NoSession
    <3>4. QED BY <1>3, <3>1, <3>2, <3>3 DEF Honest
  <2>2. QED BY <2>1
<1>5. QED BY <1>1, <1>2, <1>3, <1>4 DEF Inv, Honest, Promised

\* The invariant is inductive.
LEMMA StepInv == Inv /\ [Next]_vars => Inv'
<1> SUFFICES ASSUME Inv, [Next]_vars PROVE Inv'
  OBVIOUS
<1>1. ASSUME NEW r \in Requests, Send(r) \/ Handle(r) \/ Arrive(r) \/ Lose(r)
      PROVE  Inv'
  BY <1>1, SendKeeps, HandleAnswers, AnswerKeeps, ArriveKeeps, LoseKeeps
<1>2. ASSUME NEW b \in Browsers, Forget(b)
      PROVE  Inv'
  BY <1>2, ForgetKeeps
<1>3. CASE UNCHANGED vars
  BY <1>3 DEF vars, Inv, TypeOK, Honest, Promised, Origin, Begun, LoggedIn, Drawn
<1>4. QED BY <1>1, <1>2, <1>3 DEF Next

\* Every reachable state satisfies the invariant.
LEMMA Invariant == Spec => []Inv
BY InitInv, StepInv, PTL DEF Spec

\* Every variable keeps its type.
THEOREM TypeCorrect == Spec => []TypeOK
<1>1. Inv => TypeOK
  BY DEF Inv
<1>2. QED BY <1>1, Invariant, PTL

\* A session of a user goes back to a login of that user at this browser, and a
\* login through the provider to one that was begun there.
THEOREM SessionsAreEarned == Spec => []SessionsFromLogins
<1>1. Inv => SessionsFromLogins
  BY DEF Inv, Honest, Origin, SessionsFromLogins
<1>2. QED BY <1>1, Invariant, PTL

-----------------------------------------------------------------------------
(* Browsers that wait for each response.  Such a browser has one request   *)
(* under way, which carries the session of the browser; what its response  *)
(* brings can be told from the cookie it replaces.                         *)

\* What response q of request r does to session c.
Follows(q, r, c) ==
  /\ q.saves =>
       /\ q.cookie.user # c.user =>
            \/ q.kind \in Logins /\ q.cookie.user = q.who
            \/ q.kind = "logout" /\ q.cookie.user = None
       /\ \/ q.cookie.redirect = c.redirect
          \/ q.cookie.redirect = r /\ q.kind = "authorize"
          \/ q.cookie.redirect = None /\ q.resumes = c.redirect /\ q.kind \in Logins
       /\ q.cookie.success \in {c.success, None, r}
       /\ \/ q.cookie.error \in {c.error, r}
          \/ q.cookie.error = None /\ c.error \in q.shows
  /\ q.resumes # None =>
       q.saves /\ q.resumes = c.redirect /\ q.cookie.redirect = None
  /\ q.shows # {} =>
       /\ q.saves /\ q.shows \subseteq {c.success, c.error} \ {None}
       /\ q.cookie.success = None /\ q.cookie.error = None

\* A request that has not been handled has not resumed or shown anything.
Blank(q) == q.pc \in {"idle", "sent"} => q.resumes = None /\ q.shows = {}

\* A response that shows and resumes nothing.
LEMMA SaveFollows ==
  ASSUME Inv, NEW r \in Requests, req[r].pc = "sent", Blank(req[r]),
         NEW n \in Session, Save(r, n),
         n.user # req[r].cookie.user => req[r].kind = "logout" /\ n.user = None,
         n.redirect # req[r].cookie.redirect => req[r].kind = "authorize" /\ n.redirect = r,
         n.success \in {req[r].cookie.success, r},
         n.error \in {req[r].cookie.error, r}
  PROVE  Follows(req'[r], r, req[r].cookie)
<1>1. req[r] \in Request
  BY DEF Inv, TypeOK
<1>2. req'[r] = [req[r] EXCEPT !.pc = "answered", !.cookie = n, !.saves = TRUE]
  BY DEF Save, Inv, TypeOK
<1>3. /\ req'[r].kind = req[r].kind /\ req'[r].cookie = n
      /\ req'[r].resumes = None /\ req'[r].shows = {}
  BY <1>1, <1>2 DEF Request, Blank
<1>4. QED BY <1>3 DEF Follows

LEMMA SilentFollows ==
  ASSUME Inv, NEW r \in Requests, req[r].pc = "sent", Blank(req[r]), Silent(r)
  PROVE  Follows(req'[r], r, req[r].cookie)
<1>1. req[r] \in Request /\ ~req[r].saves
  BY DEF Inv, TypeOK
<1>2. req'[r] = [req[r] EXCEPT !.pc = "answered"]
  BY DEF Silent, Inv, TypeOK
<1>3. ~req'[r].saves /\ req'[r].resumes = None /\ req'[r].shows = {}
  BY <1>1, <1>2 DEF Request, Blank
<1>4. QED BY <1>3 DEF Follows

\* A login resumes what was stashed, which is then gone.
LEMMA LogInFollows ==
  ASSUME Inv, NEW r \in Requests, req[r].pc = "sent", Blank(req[r]),
         req[r].kind \in Logins, NEW c \in Session, LogIn(r, c),
         c.redirect = req[r].cookie.redirect, c.success = req[r].cookie.success,
         c.error = req[r].cookie.error
  PROVE  Follows(req'[r], r, req[r].cookie)
<1> DEFINE n == [c EXCEPT !.user = req[r].who, !.redirect = None]
<1>1. req[r] \in Request
  BY DEF Inv, TypeOK
<1>2. /\ n.user = req[r].who /\ n.redirect = None
      /\ n.success = c.success /\ n.error = c.error
  BY DEF Session
<1>3. req'[r] = [req[r] EXCEPT !.pc = "answered", !.saves = TRUE, !.cookie = n,
                               !.resumes = c.redirect]
  BY DEF LogIn, Inv, TypeOK
<1> HIDE DEF n
<1>4. /\ req'[r].kind = req[r].kind /\ req'[r].who = req[r].who /\ req'[r].cookie = n
      /\ req'[r].saves /\ req'[r].resumes = c.redirect /\ req'[r].shows = {}
  BY <1>1, <1>3 DEF Request, Blank
<1>5. QED BY <1>2, <1>4 DEF Follows

\* Every handler answers so.
LEMMA HandleFollows ==
  ASSUME Inv, NEW r \in Requests, Handle(r), Blank(req[r])
  PROVE  Follows(req'[r], r, req[r].cookie)
<1> DEFINE c == req[r].cookie
<1>1. c \in Session /\ req[r] \in Request
  BY DEF Inv, TypeOK, Request
<1>2. req[r].pc = "sent"
  BY HandleAnswers DEF Answers
<1>3. ASSUME Silent(r)
      PROVE  Follows(req'[r], r, c)
  BY <1>2, <1>3, SilentFollows
<1>4. CASE LoginSubmit(r)
  BY <1>1, <1>2, <1>3, <1>4, LogInFollows DEF LoginSubmit, Handles, Logins
<1>5. CASE OidcLogin(r)
  <2> DEFINE n == [c EXCEPT !.state = r]
  <2>1. /\ n \in Session /\ n.user = c.user /\ n.redirect = c.redirect
        /\ n.success = c.success /\ n.error = c.error
    BY <1>1 DEF Session
  <2>2. Silent(r) \/ Save(r, n)
    BY <1>5 DEF OidcLogin, Grow
  <2> HIDE DEF n
  <2>3. QED BY <1>2, <1>3, <2>1, <2>2, SaveFollows
<1>6. CASE Callback(r)
  <2> DEFINE n == [c EXCEPT !.state = None]
  <2>1. /\ n \in Session /\ n.redirect = c.redirect
        /\ n.success = c.success /\ n.error = c.error
    BY <1>1 DEF Session
  <2>2. Silent(r) \/ LogIn(r, n)
    BY <1>6 DEF Callback
  <2>3. req[r].kind \in Logins
    BY <1>6 DEF Callback, Handles, Logins
  <2> HIDE DEF n
  <2>4. QED BY <1>2, <1>3, <2>1, <2>2, <2>3, LogInFollows
<1>7. CASE Authorize(r)
  <2> DEFINE n == [c EXCEPT !.redirect = r]
  <2>1. /\ n \in Session /\ n.user = c.user /\ n.redirect = r
        /\ n.success = c.success /\ n.error = c.error
    BY <1>1 DEF Session
  <2>2. (Silent(r) \/ Save(r, n)) /\ req[r].kind = "authorize"
    BY <1>7 DEF Authorize, Handles, Grow
  <2> HIDE DEF n
  <2>3. QED BY <1>2, <1>3, <2>1, <2>2, SaveFollows
<1>8. CASE TurnedAway(r)
  BY <1>3, <1>8 DEF TurnedAway
<1>9. CASE Logout(r)
  <2> DEFINE n == [c EXCEPT !.user = None]
  <2>1. /\ n \in Session /\ n.user = None /\ n.redirect = c.redirect
        /\ n.success = c.success /\ n.error = c.error
    BY <1>1 DEF Session
  <2>2. Save(r, n) /\ req[r].kind = "logout"
    BY <1>9 DEF Logout, Admitted, Handles
  <2> HIDE DEF n
  <2>3. QED BY <1>2, <2>1, <2>2, SaveFollows
<1>10. CASE Submit(r)
  <2>1. PICK key \in {"success", "error"} : Silent(r) \/ Save(r, Flashed(c, key, r))
    BY <1>10 DEF Submit, Grow
  <2> DEFINE n == Flashed(c, key, r)
  <2>2. /\ n \in Session /\ n.user = c.user /\ n.redirect = c.redirect
        /\ n.success \in {c.success, r} /\ n.error \in {c.error, r}
    BY <1>1 DEF Flashed, Session
  <2> HIDE DEF n
  <2>3. Silent(r) \/ Save(r, n)
    BY <2>1 DEF n
  <2>4. QED BY <1>2, <1>3, <2>2, <2>3, SaveFollows
<1>11. CASE Page(r)
  <2>1. PICK k \in Pages :
          \/ Silent(r)
          \/ req' = [req EXCEPT ![r].pc = "answered", ![r].saves = TRUE,
                                ![r].cookie = Unflashed(c),
                                ![r].shows = Rendered(k, c)]
    BY <1>11 DEF Page
  <2> DEFINE n == Unflashed(c)
             shown == Rendered(k, c)
  <2>2. /\ n.user = c.user /\ n.redirect = c.redirect
        /\ n.success = None /\ n.error = None
    BY <1>1 DEF Unflashed, Session
  <2>3. shown \subseteq {c.success, c.error} \ {None} /\ c.error \in shown \cup {None}
    BY DEF Rendered
  <2> HIDE DEF n, shown
  <2>4. CASE req' = [req EXCEPT ![r].pc = "answered", ![r].saves = TRUE,
                                ![r].cookie = n, ![r].shows = shown]
    <3>1. req'[r] = [req[r] EXCEPT !.pc = "answered", !.saves = TRUE, !.cookie = n,
                                   !.shows = shown]
      BY <2>4 DEF Inv, TypeOK
    <3>2. /\ req'[r].saves /\ req'[r].cookie = n /\ req'[r].shows = shown
          /\ req'[r].resumes = None
      BY <1>1, <1>2, <3>1 DEF Request, Blank
    <3>3. QED BY <2>2, <2>3, <3>2 DEF Follows
  <2>5. QED BY <1>3, <2>1, <2>4 DEF n, shown
<1>12. QED
  BY <1>4, <1>5, <1>6, <1>7, <1>8, <1>9, <1>10, <1>11 DEF Handle
-----------------------------------------------------------------------------
(* What holds at a browser that waits, between any two steps.              *)

\* At browser b one request at a time is under way.
Waits(b) == \A r, s \in Requests :
              /\ req[r].at = b /\ UnderWay(r)
              /\ req[s].at = b /\ UnderWay(s)
              => r = s

\* The stash and the messages in browser b's cookie are from responses it got.
Past(b) == \A m \in {jar[b].redirect, jar[b].success, jar[b].error} \ {None} :
             m \in Requests /\ req[m].pc = "arrived" /\ req[m].at = b

\* The cookie is still the one that request r carried.
Current(r) == req[r].at \in Patient =>
  /\ req[r].pc = "sent" => req[r].cookie = jar[req[r].at]
  /\ req[r].pc = "answered" => Follows(req[r], r, jar[req[r].at])

\* What response r resumed or showed was of this browser, and has left its cookie.
Settled(r) == Awaited(r) =>
  /\ req[r].resumes # None =>
       /\ req[req[r].resumes].pc = "arrived" /\ req[req[r].resumes].at = req[r].at
       /\ jar[req[r].at].redirect # req[r].resumes
  /\ \A m \in req[r].shows :
       /\ req[m].pc = "arrived"
       /\ m \notin {jar[req[r].at].success, jar[req[r].at].error}

Patience == /\ \A b \in Patient : Waits(b) /\ Past(b)
            /\ \A r \in Requests : Blank(req[r]) /\ Current(r) /\ Settled(r)
            /\ ResumedOnce

LEMMA InitPatience == Init => Patience
<1> SUFFICES ASSUME Init PROVE Patience
  OBVIOUS
<1>1. \A r \in Requests : req[r].pc = "idle" /\ req[r].resumes = None /\ req[r].shows = {}
  BY DEF Init
<1>2. \A b \in Browsers : jar[b] = NoSession
  BY DEF Init
<1>3. \A b \in Patient : Waits(b) /\ Past(b)
  BY <1>1, <1>2 DEF Waits, Past, UnderWay, NoSession, Patient
<1>4. QED
  BY <1>1, <1>3 DEF Patience, Blank, Current, Settled, Awaited, ResumedOnce

\* A step of r that brings nothing to its browser leaves all others as they were.
LEMMA OthersWait ==
  ASSUME Inv, Patience, NEW r \in Requests, Moves(r), jar' = jar, req'[r].pc # "arrived",
         Blank(req[r])', Current(r)', \A b \in Patient : Waits(b)'
  PROVE  Patience'
<1>1. \A s \in Requests : req[s].pc = "arrived" => req'[s] = req[s]
  BY DEF Moves
<1>2. \A s \in Requests : Awaited(s)' => Awaited(s) /\ req'[s] = req[s]
  BY DEF Moves, Awaited
<1>3. \A b \in Patient : Past(b)'
  BY <1>1 DEF Patience, Past
<1>4. ASSUME NEW s \in Requests PROVE (Blank(req[s]) /\ Current(s))'
  BY <1>4 DEF Patience, Moves, Blank, Current
<1>5. ASSUME NEW s \in Requests PROVE Settled(s)'
  <2>1. SUFFICES ASSUME Awaited(s)' PROVE Settled(s)'
    BY DEF Settled
  <2>2. req'[s] = req[s] /\ Awaited(s) /\ Settled(s) /\ req[s] \in Request
    BY <1>2, <2>1 DEF Patience, Inv, TypeOK
  <2>3. req[s].shows \subseteq Requests /\ req[s].resumes \in Requests \cup {None}
    BY <2>2 DEF Request
  <2>4. QED BY <1>1, <2>2, <2>3 DEF Settled
<1>6. ResumedOnce'
  BY <1>2 DEF Patience, ResumedOnce
<1>7. QED BY <1>3, <1>4, <1>5, <1>6 DEF Patience

\* A browser that waits sends when nothing is under way.
LEMMA SendWaits ==
  ASSUME Inv, Patience, NEW r \in Requests, Send(r)
  PROVE  Patience'
<1>1. PICK b \in Browsers, k \in Kinds, who \in Users \cup {None},
           st \in Drawn \cup {None} :
        /\ req[r].pc = "idle"
        /\ Free(b)
        /\ req' = [req EXCEPT ![r] = [@ EXCEPT !.pc = "sent", !.at = b, !.kind = k,
                                      !.who = who, !.state = st, !.cookie = jar[b]]]
        /\ jar' = jar
  BY Zenon DEF Send
<1>2. req[r] \in Request
  BY DEF Inv, TypeOK
<1>3. /\ req'[r] = [req[r] EXCEPT !.pc = "sent", !.at = b, !.kind = k, !.who = who,
                                  !.state = st, !.cookie = jar[b]]
      /\ \A s \in Requests \ {r} : req'[s] = req[s]
  BY <1>1 DEF Inv, TypeOK
<1>4. /\ req'[r].pc = "sent" /\ req'[r].at = b /\ req'[r].cookie = jar[b]
      /\ req'[r].resumes = req[r].resumes /\ req'[r].shows = req[r].shows
  BY <1>2, <1>3 DEF Request
<1>5. Moves(r)
  BY <1>1, <1>3 DEF Moves
<1>6. Blank(req[r])' /\ Current(r)'
  BY <1>1, <1>4 DEF Patience, Blank, Current
<1>7. ASSUME NEW a \in Patient PROVE Waits(a)'
  <2>1. Waits(a)
    BY DEF Patience
  <2>2. a = b => \A s \in Requests : req[s].at = a => ~UnderWay(s)
    BY <1>1 DEF Free, Patient
  <2>3. ASSUME NEW s \in Requests, s # r, req'[s].at = a, UnderWay(s)'
        PROVE  req[s].at = a /\ UnderWay(s) /\ a # b
    BY <1>3, <2>2, <2>3 DEF UnderWay
  <2>4. QED BY <1>4, <2>1, <2>3 DEF Waits
<1>8. QED BY <1>1, <1>4, <1>5, <1>6, <1>7, OthersWait

\* The handler works on what is still the cookie.
LEMMA HandleWaits ==
  ASSUME Inv, Patience, NEW r \in Requests, Handle(r)
  PROVE  Patience'
<1>1. Answers(r) /\ Follows(req'[r], r, req[r].cookie)
  BY HandleAnswers, HandleFollows DEF Patience
<1>2. Moves(r) /\ jar' = jar /\ req[r].pc = "sent" /\ req'[r].pc = "answered"
      /\ req'[r].at = req[r].at
  BY <1>1 DEF Answers, Moves
<1>3. Blank(req[r])' /\ Current(r)'
  BY <1>1, <1>2 DEF Patience, Blank, Current
<1>4. \A b \in Patient : Waits(b)'
  BY <1>2 DEF Patience, Waits, UnderWay, Moves
<1>5. QED BY <1>2, <1>3, <1>4, OthersWait

LEMMA LoseWaits ==
  ASSUME Inv, Patience, NEW r \in Requests, Lose(r)
  PROVE  Patience'
<1>1. req'[r] = [req[r] EXCEPT !.pc = "lost"] /\ jar' = jar
      /\ \A s \in Requests \ {r} : req'[s] = req[s]
  BY DEF Lose, Inv, TypeOK
<1>2. req[r] \in Request /\ UnderWay(r)
  BY DEF Lose, Inv, TypeOK
<1>3. /\ req'[r].pc = "lost" /\ req'[r].at = req[r].at /\ req'[r].kind = req[r].kind
      /\ req'[r].who = req[r].who /\ req'[r].state = req[r].state
  BY <1>1, <1>2 DEF Request
<1>4. Moves(r) /\ Blank(req[r])' /\ Current(r)'
  BY <1>1, <1>2, <1>3 DEF Moves, UnderWay, Blank, Current
<1>5. ASSUME NEW b \in Patient PROVE Waits(b)'
  <2>1. ASSUME NEW s \in Requests, req'[s].at = b, UnderWay(s)'
        PROVE  req[s].at = b /\ UnderWay(s)
    BY <1>1, <1>2, <1>3, <2>1 DEF UnderWay
  <2>2. QED BY <2>1 DEF Patience, Waits
<1>6. QED BY <1>1, <1>3, <1>4, <1>5, OthersWait

\* A response that arrives at a browser that waits brings at most what it was
\* answered with: no message or stash that the browser has done with comes back.
LEMMA ArriveWaits ==
  ASSUME Inv, Patience, NEW r \in Requests, Arrive(r)
  PROVE  Patience'
<1> DEFINE b == req[r].at
           c == jar[b]
           q == req[r]
<1>1. /\ q \in Request /\ b \in Browsers /\ q.pc = "answered" /\ r # None
      /\ c \in Session
  BY SessionsAssumption DEF Arrive, Inv, TypeOK, Request
<1>2. req'[r] = [req[r] EXCEPT !.pc = "arrived"]
      /\ \A s \in Requests \ {r} : req'[s] = req[s]
  BY DEF Arrive, Inv, TypeOK
<1>3. /\ req'[r].pc = "arrived" /\ req'[r].at = b
      /\ req'[r].resumes = q.resumes /\ req'[r].shows = q.shows
  BY <1>1, <1>2 DEF Request
<1>4. \A a \in Patient : a # b => jar'[a] = jar[a]
  BY DEF Arrive, Inv, TypeOK, Patient
<1>5. jar'[b] = IF q.saves THEN q.cookie ELSE c
  BY <1>1 DEF Arrive, Inv, TypeOK
<1>6. \A s \in Requests : req[s].pc = "arrived" => req'[s] = req[s] /\ s # r
  BY <1>1, <1>2
<1>7. ASSUME NEW a \in Patient PROVE Waits(a)'
  <2>1. ASSUME NEW s \in Requests, req'[s].at = a, UnderWay(s)'
        PROVE  req[s].at = a /\ UnderWay(s)
    BY <1>2, <1>3, <2>1 DEF UnderWay
  <2>2. QED BY <2>1 DEF Patience, Waits
<1>8. ASSUME b \in Patient PROVE Follows(q, r, c) /\ Past(b)
  BY <1>1, <1>8 DEF Patience, Current
<1>9. ASSUME b \in Patient
      PROVE  /\ jar'[b].redirect \in {c.redirect, None, r}
             /\ jar'[b].success \in {c.success, None, r}
             /\ jar'[b].error \in {c.error, None, r}
             /\ q.resumes # None => q.resumes = c.redirect /\ jar'[b].redirect = None
             /\ q.shows # {} => /\ q.shows \subseteq {c.success, c.error} \ {None}
                                /\ jar'[b].success = None /\ jar'[b].error = None
  BY <1>5, <1>8, <1>9 DEF Follows
<1> HIDE DEF b, c, q
<1>10. ASSUME NEW a \in Patient PROVE Past(a)'
  <2>1. Past(a)
    BY DEF Patience
  <2>2. CASE a # b
    BY <1>4, <1>6, <2>1, <2>2 DEF Past
  <2>3. CASE a = b
    <3>1. ASSUME NEW m \in {jar'[b].redirect, jar'[b].success, jar'[b].error} \ {None}
          PROVE  m \in Requests /\ req'[m].pc = "arrived" /\ req'[m].at = b
      <4>1. m = r \/ m \in {c.redirect, c.success, c.error} \ {None}
        BY <1>9, <2>3, <3>1
      <4>2. QED BY <1>3, <1>6, <2>1, <2>3, <4>1 DEF Past, c
    <3>2. QED BY <2>3, <3>1 DEF Past
  <2>4. QED BY <2>2, <2>3
<1>11. ASSUME NEW s \in Requests PROVE Blank(req[s])'
  BY <1>2, <1>3 DEF Patience, Blank
<1>12. ASSUME NEW s \in Requests PROVE Current(s)'
  <2>1. CASE s = r
    BY <1>3, <2>1 DEF Current
  <2>2. CASE s # r /\ req[s].at = b /\ b \in Patient
    <3>1. ~UnderWay(s)
      BY <1>1, <2>2 DEF Patience, Waits, UnderWay, b, q
    <3>2. QED BY <1>2, <2>2, <3>1 DEF Current, UnderWay
  <2>3. CASE s # r /\ ~(req[s].at = b /\ b \in Patient)
    BY <1>2, <1>4, <2>3 DEF Patience, Current
  <2>4. QED BY <2>1, <2>2, <2>3
<1>13. ASSUME NEW s \in Requests, s # r, Awaited(s)'
       PROVE  /\ Awaited(s) /\ Settled(s) /\ req'[s] = req[s]
              /\ req[s].shows \subseteq Requests
              /\ req[s].resumes \in Requests \cup {None}
  <2>1. req'[s] = req[s] /\ req[s] \in Request
    BY <1>2, <1>13 DEF Inv, TypeOK
  <2>2. QED BY <1>13, <2>1 DEF Patience, Awaited, Request
<1>14. ASSUME NEW s \in Requests, Awaited(s)' PROVE Settled(s)'
  <2>1. CASE s = r
    <3>1. b \in Patient /\ Past(b)
      BY <1>3, <1>8, <1>14, <2>1 DEF Awaited
    <3>2. q.resumes # None =>
            /\ req'[q.resumes].pc = "arrived" /\ req'[q.resumes].at = b
            /\ jar'[b].redirect # q.resumes
      BY <1>6, <1>9, <3>1 DEF Past, c
    <3>3. ASSUME NEW m \in q.shows
          PROVE  req'[m].pc = "arrived" /\ m \notin {jar'[b].success, jar'[b].error}
      BY <1>6, <1>9, <3>1, <3>3 DEF Past, c
    <3>4. QED BY <1>3, <2>1, <3>2, <3>3 DEF Settled
  <2>2. CASE s # r
    <3>1. /\ Awaited(s) /\ Settled(s) /\ req'[s] = req[s]
          /\ req[s].shows \subseteq Requests
          /\ req[s].resumes \in Requests \cup {None}
      BY <1>13, <1>14, <2>2
    <3>2. req[s].at \in Patient
      BY <3>1 DEF Awaited
    <3>3. CASE req[s].at # b
      BY <1>4, <1>6, <3>1, <3>2, <3>3 DEF Settled
    <3>4. CASE req[s].at = b
      <4>1. req[s].resumes # None =>
              /\ req'[req[s].resumes] = req[req[s].resumes]
              /\ req[req[s].resumes].pc = "arrived" /\ req[req[s].resumes].at = b
              /\ jar'[b].redirect # req[s].resumes
        BY <1>6, <1>9, <3>1, <3>2, <3>4 DEF Settled, c
      <4>2. ASSUME NEW m \in req[s].shows
            PROVE  /\ req'[m].pc = "arrived"
                   /\ m \notin {jar'[b].success, jar'[b].error}
        <5>1. m \in Requests /\ req[m].pc = "arrived" /\ m \notin {c.success, c.error}
          BY <3>1, <3>4, <4>2 DEF Settled, c
        <5>2. m # r /\ m # None /\ req'[m] = req[m]
          BY <1>6, <5>1, SessionsAssumption
        <5>3. QED BY <1>9, <3>2, <3>4, <5>1, <5>2
      <4>3. QED BY <3>1, <3>4, <4>1, <4>2 DEF Settled
    <3>5. QED BY <3>3, <3>4
  <2>3. QED BY <2>1, <2>2
<1>15. ResumedOnce'
  <2>1. ASSUME NEW a \in Requests, NEW s \in Requests, s # r,
               Awaited(r)', Awaited(s)', req'[r].resumes = a, req'[s].resumes = a
        PROVE  FALSE
    <3>1. a # None
      BY SessionsAssumption
    <3>2. b \in Patient /\ Past(b)
      BY <1>3, <1>8, <2>1 DEF Awaited
    <3>3. a = c.redirect /\ req[a].at = b
      BY <1>3, <1>9, <2>1, <3>1, <3>2 DEF Past, c
    <3>4. req[s].resumes = a /\ Awaited(s) /\ Settled(s)
      BY <1>13, <2>1
    <3>5. req[s].at = b /\ jar[req[s].at].redirect # a
      BY <3>1, <3>3, <3>4 DEF Settled
    <3>6. QED BY <3>3, <3>5 DEF c
  <2>2. ASSUME NEW a \in Requests, NEW s \in Requests, NEW t \in Requests, s # r, t # r,
               Awaited(s)', Awaited(t)', req'[s].resumes = a, req'[t].resumes = a
        PROVE  s = t
    BY <1>13, <2>2 DEF Patience, ResumedOnce
  <2>3. QED BY <2>1, <2>2 DEF ResumedOnce
<1>16. QED
  <2>1. \A s \in Requests : Settled(s)'
    BY <1>14 DEF Settled
  <2>2. QED BY <1>7, <1>10, <1>11, <1>12, <1>15, <2>1 DEF Patience

\* A cookie that is gone brings nothing back either.
LEMMA ForgetWaits ==
  ASSUME Inv, Patience, NEW b \in Browsers, Forget(b)
  PROVE  Patience'
<1>1. req' = req /\ jar'[b] = NoSession /\ Free(b)
      /\ \A a \in Browsers : a # b => jar'[a] = jar[a]
  BY DEF Forget, Inv, TypeOK
<1>2. NoSession.redirect = None /\ NoSession.success = None /\ NoSession.error = None
  BY DEF NoSession
<1>3. b \in Patient => \A r \in Requests : req[r].at = b => ~UnderWay(r)
  BY <1>1 DEF Free, Patient
<1>4. \A a \in Patient : a # b => jar'[a] = jar[a]
  BY <1>1 DEF Patient
<1>5. ASSUME NEW a \in Patient PROVE Waits(a)' /\ Past(a)'
  <2>1. Waits(a) /\ Past(a)
    BY DEF Patience
  <2>2. Waits(a)'
    BY <1>1, <2>1 DEF Waits, UnderWay
  <2>3. Past(a)'
    BY <1>1, <1>2, <1>4, <2>1 DEF Past
  <2>4. QED BY <2>2, <2>3
<1>6. ASSUME NEW r \in Requests PROVE Current(r)'
  <2>1. Current(r)
    BY DEF Patience
  <2>2. CASE req[r].at = b
    BY <1>1, <1>3, <2>2 DEF Current, UnderWay
  <2>3. CASE req[r].at # b
    BY <1>1, <1>4, <2>1, <2>3 DEF Current
  <2>4. QED BY <2>2, <2>3
<1>7. ASSUME NEW r \in Requests, Awaited(r)' PROVE Settled(r)'
  <2>1. Settled(r) /\ Awaited(r) /\ req[r] \in Request
    BY <1>1, <1>7 DEF Patience, Awaited, Inv, TypeOK
  <2>2. req[r].shows \subseteq Requests /\ req[r].at \in Patient
    BY <2>1 DEF Request, Awaited
  <2>3. CASE req[r].at # b
    BY <1>1, <1>4, <2>1, <2>2, <2>3 DEF Settled
  <2>4. CASE req[r].at = b
    BY <1>1, <1>2, <2>1, <2>2, <2>4, SessionsAssumption DEF Settled
  <2>5. QED BY <2>3, <2>4
<1>8. ResumedOnce' /\ \A r \in Requests : Blank(req[r])'
  BY <1>1 DEF Patience, ResumedOnce, Awaited, Blank
<1>9. \A r \in Requests : Settled(r)'
  BY <1>7 DEF Settled
<1>10. QED BY <1>5, <1>6, <1>8, <1>9 DEF Patience

LEMMA StepWaits == Inv /\ Patience /\ [Next]_vars => Patience'
<1> SUFFICES ASSUME Inv, Patience, [Next]_vars PROVE Patience'
  OBVIOUS
<1>1. ASSUME NEW r \in Requests, Send(r) \/ Handle(r) \/ Arrive(r) \/ Lose(r)
      PROVE  Patience'
  BY <1>1, SendWaits, HandleWaits, ArriveWaits, LoseWaits
<1>2. ASSUME NEW b \in Browsers, Forget(b)
      PROVE  Patience'
  BY <1>2, ForgetWaits
<1>3. CASE UNCHANGED vars
  BY <1>3 DEF vars, Patience, Waits, Past, UnderWay, Blank, Current, Settled, Awaited,
              ResumedOnce
<1>4. QED BY <1>1, <1>2, <1>3 DEF Next

LEMMA AlwaysWaits == Spec => [](Inv /\ Patience)
BY InitInv, StepInv, InitPatience, StepWaits, PTL DEF Spec

\* A stashed authorize request is resumed by one login at most, at a browser that
\* waits for each response.
THEOREM LoginsResumeOnce == Spec => []ResumedOnce
<1>1. Patience => ResumedOnce
  BY DEF Patience
<1>2. QED BY <1>1, AlwaysWaits, PTL

\* A message that a page has shown is not in the cookie again.
THEOREM MessagesShowOnce == Spec => []ShownOnce
<1>1. Patience => ShownOnce
  BY DEF Patience, Settled, ShownOnce
<1>2. QED BY <1>1, AlwaysWaits, PTL

\* The cookie of a browser that waits changes by a response or is lost.
LEMMA JarChanges ==
  ASSUME Inv, Patience, [Next]_vars, NEW b \in Patient, jar'[b] # jar[b]
  PROVE  \/ Forgets(b)
         \/ \E r \in Requests :
              /\ Arrives(r) /\ req[r].at = b
              /\ req[r].saves /\ jar'[b] = req[r].cookie
              /\ Follows(req[r], r, jar[b])
<1>1. ASSUME NEW r \in Requests, Arrive(r)
      PROVE  /\ Arrives(r) /\ req[r].at = b
             /\ req[r].saves /\ jar'[b] = req[r].cookie
             /\ Follows(req[r], r, jar[b])
  <2>1. req[r] \in Request /\ req[r].pc = "answered"
    BY <1>1 DEF Arrive, Inv, TypeOK
  <2>2. req'[r] = [req[r] EXCEPT !.pc = "arrived"]
    BY <1>1 DEF Arrive, Inv, TypeOK
  <2>3. req'[r].pc = "arrived"
    BY <2>1, <2>2 DEF Request
  <2>4. req[r].at = b /\ req[r].saves /\ jar'[b] = req[r].cookie
    BY <1>1 DEF Arrive, Inv, TypeOK, Patient
  <2>5. QED BY <2>1, <2>3, <2>4 DEF Arrives, Patience, Current
<1>2. ASSUME NEW r \in Requests, Send(r) \/ Handle(r) \/ Lose(r)
      PROVE  jar' = jar
  BY <1>2, HandleAnswers DEF Send, Lose, Answers
<1>3. ASSUME NEW a \in Browsers, Forget(a)
      PROVE  Forgets(b)
  BY <1>3 DEF Forget, Forgets, Inv, TypeOK, Patient
<1>4. CASE UNCHANGED vars
  BY <1>4 DEF vars
<1>5. QED BY <1>1, <1>2, <1>3, <1>4 DEF Next

\* The user in the cookie of a browser that waits comes with a login and goes with
\* a logout.
THEOREM UsersLogIn == Spec => UserByLoginOnly
<1> DEFINE Step == \A b \in Patient : jar'[b].user # jar[b].user =>
                     \/ Forgets(b)
                     \/ \E r \in Requests :
                          /\ Arrives(r) /\ req[r].at = b
                          /\ \/ req[r].kind \in Logins /\ jar'[b].user = req[r].who
                             \/ req[r].kind = "logout" /\ jar'[b].user = None
<1>1. Inv /\ Patience /\ [Next]_vars => Step
  BY JarChanges DEF Follows
<1> HIDE DEF Step
<1>2. Spec => [][Step]_vars
  BY <1>1, AlwaysWaits, PTL DEF Spec
<1>3. QED BY <1>2 DEF Step, UserByLoginOnly

\* An error stays in the cookie of a browser that waits until it was shown or a
\* newer one takes its place.
THEOREM ErrorsAreShown == Spec => ErrorsReachOwner
<1> DEFINE Step == \A b \in Patient : jar[b].error # None /\ jar'[b].error # jar[b].error =>
                     \/ Forgets(b)
                     \/ \E r \in Requests :
                          /\ Arrives(r) /\ req[r].at = b
                          /\ jar[b].error \in req[r].shows \/ jar'[b].error = r
<1>1. Inv /\ Patience /\ [Next]_vars => Step
  BY JarChanges DEF Follows
<1> HIDE DEF Step
<1>2. Spec => [][Step]_vars
  BY <1>1, AlwaysWaits, PTL DEF Spec
<1>3. QED BY <1>2 DEF Step, ErrorsReachOwner

\* A stashed authorize request waits in the cookie of a browser that waits for each
\* response: it is resumed by a login or a later one takes its place.
THEOREM StashesAreResumed == Spec => StashReachesLogin
<1> DEFINE Step == \A b \in Patient :
                     jar[b].redirect # None /\ jar'[b].redirect # jar[b].redirect =>
                     \/ Forgets(b)
                     \/ \E r \in Requests :
                          /\ Arrives(r) /\ req[r].at = b
                          /\ \/ req[r].kind \in Logins /\ req[r].resumes = jar[b].redirect
                             \/ req[r].kind = "authorize" /\ jar'[b].redirect = r
<1>1. Inv /\ Patience /\ [Next]_vars => Step
  BY JarChanges DEF Follows
<1> HIDE DEF Step
<1>2. Spec => [][Step]_vars
  BY <1>1, AlwaysWaits, PTL DEF Spec
<1>3. QED BY <1>2 DEF Step, StashReachesLogin

=============================================================================
