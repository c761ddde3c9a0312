------------------------------ MODULE Sessions ------------------------------
(***************************************************************************)
(* The web session: one signed cookie "session" at each browser with the   *)
(* user, the pending messages, the state of an OIDC login and the MCP      *)
(* authorize request to resume after a login (internal/handler/web.go,     *)
(* oidc.go, mcpoauth.go, internal/middleware/middleware.go).  A handler    *)
(* works on the cookie its request carried; when it saves the session, its *)
(* response replaces the whole cookie, whenever it arrives.                *)
(***************************************************************************)
EXTENDS Naturals, FiniteSets

CONSTANTS
  Browsers,
  Users,     \* who can log in, with the form or at the identity provider
  Requests,
  Overlapping, \* the browsers that send a request while they wait for a response
  MaxFaults, \* bound on lost responses and lost cookies
  None

\* A state, a stashed authorize request and a message are named by the request
\* that drew, made or caused it.
Session == [user : Users \cup {None}, state : Requests \cup {None},
            redirect : Requests \cup {None},
            success : Requests \cup {None}, error : Requests \cup {None}]

NoSession == [user |-> None, state |-> None, redirect |-> None,
              success |-> None, error |-> None]

Logins == {"login", "callback"}
Pages == {"dashboard", "form"}
Kinds == Logins \cup Pages \cup {"oidc", "authorize", "logout", "submit"}

\* cookie is what the request carries, then what the response sets if it saves;
\* who is whom the credentials or the provider's answer are for, None if nobody;
\* state is the parameter of a callback.
Request == [pc : {"idle", "sent", "answered", "arrived", "lost"},
            at : Browsers \cup {None}, kind : Kinds \cup {None},
            who : Users \cup {None}, state : Requests \cup {None},
            cookie : Session, saves : BOOLEAN,
            shows : SUBSET Requests, resumes : Requests \cup {None}]

ASSUME SessionsAssumption ==
  /\ None \notin Browsers \cup Users \cup Requests \cup Kinds
  /\ Overlapping \subseteq Browsers /\ MaxFaults \in Nat

VARIABLES
  jar,   \* jar[b]: the session in the cookie of browser b
  req,
  faults

vars == <<jar, req, faults>>

Init == /\ jar = [b \in Browsers |-> NoSession]
        /\ req = [r \in Requests |->
                    [pc |-> "idle", at |-> None, kind |-> None, who |-> None,
                     state |-> None, cookie |-> NoSession, saves |-> FALSE,
                     shows |-> {}, resumes |-> None]]
        /\ faults = 0

UnderWay(r) == req[r].pc \in {"sent", "answered"}

\* The states that the provider was told, and can send back.
Drawn == {r \in Requests : req[r].kind = "oidc" /\ req[r].pc = "arrived"}

\* The other browsers do one thing at a time.
Patient == Browsers \ Overlapping
Free(b) == b \in Overlapping \/ \A s \in Requests : req[s].at = b => ~UnderWay(s)

\* A browser sends a request with its cookie; a callback may be opened in any
\* browser.
Send(r) ==
  \E b \in Browsers, k \in Kinds, who \in Users \cup {None}, st \in Drawn \cup {None} :
    /\ req[r].pc = "idle"
    /\ Free(b)
    /\ k \notin Logins => who = None
    /\ k # "callback" => st = None
    /\ req' = [req EXCEPT ![r] = [@ EXCEPT !.pc = "sent", !.at = b, !.kind = k,
                                  !.who = who, !.state = st, !.cookie = jar[b]]]
    /\ UNCHANGED <<jar, faults>>

-----------------------------------------------------------------------------
(* The handlers.                                                           *)

Handles(r, k) == req[r].pc = "sent" /\ req[r].kind = k

\* A response that leaves the cookie alone, and one that saves session c.
Silent(r) == /\ req' = [req EXCEPT ![r].pc = "answered"]
             /\ UNCHANGED <<jar, faults>>
Save(r, c) == /\ req' = [req EXCEPT ![r].pc = "answered", ![r].cookie = c,
                                    ![r].saves = TRUE]
              /\ UNCHANGED <<jar, faults>>

\* A save that adds to a session with a stashed URL may make the cookie too long;
\* the error is ignored and the response goes out without a cookie.
Grow(r, c) == Save(r, c) \/ (c.redirect # None /\ Silent(r))

\* Mutant of LogIn: the stashed request stays in the session.
LogInKeepsRedirect(r, c) ==
  /\ req' = [req EXCEPT ![r].pc = "answered", ![r].saves = TRUE,
                        ![r].cookie = [c EXCEPT !.user = req[r].who],
                        ![r].resumes = c.redirect]
  /\ UNCHANGED <<jar, faults>>

\* The end of both logins: the user, and PopPostLoginRedirect.
LogIn(r, c) ==
  /\ req' = [req EXCEPT ![r].pc = "answered", ![r].saves = TRUE,
                        ![r].cookie = [c EXCEPT !.user = req[r].who, !.redirect = None],
                        ![r].resumes = c.redirect]
  /\ UNCHANGED <<jar, faults>>

LoginSubmit(r) ==
  /\ Handles(r, "login")
  /\ IF req[r].who = None THEN Silent(r) ELSE LogIn(r, req[r].cookie)

\* Mutant of OidcLogin: the state goes to a fresh session.
OidcLoginAfresh(r) == /\ Handles(r, "oidc")
                      /\ Grow(r, [NoSession EXCEPT !.state = r])

\* OIDCHandler.Login: a fresh state.
OidcLogin(r) == /\ Handles(r, "oidc")
                /\ Grow(r, [req[r].cookie EXCEPT !.state = r])

\* Mutant of StateFits: the saved state is only required to be there.
StateAny(q) == q.cookie.state # None

StateFits(q) == q.cookie.state # None /\ q.cookie.state = q.state

\* Callback: whatever fails, the session is not saved and keeps its state.
Callback(r) ==
  /\ Handles(r, "callback")
  /\ IF StateFits(req[r]) /\ req[r].who # None
     THEN LogIn(r, [req[r].cookie EXCEPT !.state = None])
     ELSE Silent(r)

\* The authorize endpoint: with a user a code is issued, and of a request that is
\* refused nothing is kept; without a user the request is stashed.
Authorize(r) ==
  /\ Handles(r, "authorize")
  /\ \/ Silent(r)
     \/ /\ req[r].cookie.user = None
        /\ Grow(r, [req[r].cookie EXCEPT !.redirect = r])

\* SessionAuth turns requests without a user away.
TurnedAway(r) == /\ req[r].pc = "sent"
                 /\ req[r].kind \in Pages \cup {"logout", "submit"}
                 /\ req[r].cookie.user = None
                 /\ Silent(r)
Admitted(r, k) == Handles(r, k) /\ req[r].cookie.user # None

\* Logout removes the user, and nothing else.
Logout(r) == /\ Admitted(r, "logout")
             /\ Save(r, [req[r].cookie EXCEPT !.user = None])

\* setFlash
Flashed(c, key, r) == IF key = "success" THEN [c EXCEPT !.success = r]
                      ELSE [c EXCEPT !.error = r]

\* UploadSubmit, EditSubmit, DeleteSubmit: a message tells the outcome.
Submit(r) == /\ Admitted(r, "submit")
             /\ \E key \in {"success", "error"} :
                  Grow(r, Flashed(req[r].cookie, key, r))

\* Mutant of Rendered: forms drop the message of a failure.
RenderedOnDashboard(k, c) == IF k = "dashboard" THEN {c.success, c.error} \ {None} ELSE {}

\* The messages a page shows: the forms have no place for a success.
Rendered(k, c) == (IF k = "dashboard" THEN {c.success, c.error} ELSE {c.error}) \ {None}

\* Mutant of Unflashed: the messages are overwritten, not deleted.
UnflashedEmpty(c) == [c EXCEPT !.success = "", !.error = ""]

\* Mutant of Unflashed: the messages stay.
UnflashedNone(c) == c

Unflashed(c) == [c EXCEPT !.success = None, !.error = None]

\* Dashboard, UploadPage, EditPage: getFlash takes every message out of the
\* session and saves it; an entry or a list that cannot be read comes first.
Page(r) ==
  \E k \in Pages :
    /\ Admitted(r, k)
    /\ \/ Silent(r)
       \/ /\ req' = [req EXCEPT ![r].pc = "answered", ![r].saves = TRUE,
                                ![r].cookie = Unflashed(req[r].cookie),
                                ![r].shows = Rendered(k, req[r].cookie)]
          /\ UNCHANGED <<jar, faults>>

-----------------------------------------------------------------------------

\* The response arrives and replaces the cookie.
Arrive(r) ==
  /\ req[r].pc = "answered"
  /\ req' = [req EXCEPT ![r].pc = "arrived"]
  /\ jar' = IF req[r].saves THEN [jar EXCEPT ![req[r].at] = req[r].cookie] ELSE jar
  /\ UNCHANGED faults

\* The response is lost, or the request before it was handled.
Lose(r) == /\ UnderWay(r) /\ faults < MaxFaults
           /\ faults' = faults + 1
           /\ req' = [req EXCEPT ![r].pc = "lost"]
           /\ UNCHANGED jar

\* The cookie is gone: it expired, or the server no longer accepts its signature.
Forget(b) == /\ Free(b) /\ jar[b] # NoSession /\ faults < MaxFaults
             /\ faults' = faults + 1
             /\ jar' = [jar EXCEPT ![b] = NoSession]
             /\ UNCHANGED req

Handle(r) == LoginSubmit(r) \/ OidcLogin(r) \/ Callback(r) \/ Authorize(r)
             \/ TurnedAway(r) \/ Logout(r) \/ Submit(r) \/ Page(r)

Next == \/ \E r \in Requests : Send(r) \/ Handle(r) \/ Arrive(r) \/ Lose(r)
        \/ \E b \in Browsers : Forget(b)

Spec == Init /\ [][Next]_vars

-----------------------------------------------------------------------------
(* Properties.                                                             *)

\* Every variable keeps its type; a request under way knows its browser.
TypeOK == /\ jar \in [Browsers -> Session]
          /\ req \in [Requests -> Request]
          /\ \A r \in Requests : req[r].pc # "idle" => req[r].at # None
          /\ faults \in 0 .. MaxFaults

\* Request r logged user u in at browser b: its response arrived, and a callback
\* answered an OIDC login begun at the same browser.
LoggedIn(r, b, u) ==
  /\ req[r].at = b /\ req[r].kind \in Logins /\ req[r].who = u
  /\ req[r].saves /\ req[r].pc = "arrived"
  /\ req[r].kind = "callback" => req[r].state \in Drawn /\ req[req[r].state].at = b

\* A session of a user goes back to a login of that user at this browser, however
\* responses overtake each other.
SessionsFromLogins ==
  \A b \in Browsers : jar[b].user # None =>
    \E r \in Requests : LoggedIn(r, b, jar[b].user)

Arrives(r) == req[r].pc = "answered" /\ req'[r].pc = "arrived"
Forgets(b) == jar'[b] = NoSession /\ UNCHANGED req

\* When a browser waits for each response, its user changes by a login and ends by
\* a logout, and by no other request: none of the handlers that save the session
\* for other reasons brings a user back or loses one.
UserByLoginOnly ==
  [][\A b \in Patient : jar'[b].user # jar[b].user =>
       \/ Forgets(b)
       \/ \E r \in Requests :
            /\ Arrives(r) /\ req[r].at = b
            /\ \/ req[r].kind \in Logins /\ jar'[b].user = req[r].who
               \/ req[r].kind = "logout" /\ jar'[b].user = None]_vars

\* Request r was answered, and the answer reached a browser that waited for it.
Awaited(r) == req[r].pc = "arrived" /\ req[r].at \in Patient

\* "returns and clears": an authorize request is resumed by one login.
ResumedOnce ==
  \A a, r, s \in Requests :
    /\ Awaited(r) /\ req[r].resumes = a
    /\ Awaited(s) /\ req[s].resumes = a
    => r = s

\* A message is shown once: a page that shows it has also taken it out of the
\* cookie, and no later response brings it back.
ShownOnce ==
  \A r \in Requests : Awaited(r) =>
    {jar[req[r].at].success, jar[req[r].at].error} \cap req[r].shows = {}

\* That something failed is not forgotten before the owner has seen it: an error
\* leaves the cookie when a page shows it or a newer one takes its place.
ErrorsReachOwner ==
  [][\A b \in Patient : jar[b].error # None /\ jar'[b].error # jar[b].error =>
       \/ Forgets(b)
       \/ \E r \in Requests :
            /\ Arrives(r) /\ req[r].at = b
            /\ jar[b].error \in req[r].shows \/ jar'[b].error = r]_vars

\* "bounced through /login and resumed automatically", as far as one session key
\* goes: a stashed authorize request leaves the cookie when a login resumes it or a
\* later authorize request takes its place, and by no other request in between.
StashReachesLogin ==
  [][\A b \in Patient : jar[b].redirect # None /\ jar'[b].redirect # jar[b].redirect =>
       \/ Forgets(b)
       \/ \E r \in Requests :
            /\ Arrives(r) /\ req[r].at = b
            /\ \/ req[r].kind \in Logins /\ req[r].resumes = jar[b].redirect
               \/ req[r].kind = "authorize" /\ jar'[b].redirect = r]_vars

=============================================================================
