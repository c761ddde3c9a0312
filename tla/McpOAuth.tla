------------------------------ MODULE McpOAuth ------------------------------
(***************************************************************************)
(* The OAuth 2.1 authorization server of the MCP endpoint: registration of *)
(* clients, authorization codes bound to a PKCE challenge, and the token   *)
(* endpoint, which trades a code or a refresh token for an access token    *)
(* and a fresh refresh token (internal/service/mcpoauth.go over            *)
(* internal/store/oauth.go).  Token requests run concurrently; they meet   *)
(* at the row of the credential they present, which SELECT ... FOR UPDATE   *)
(* locks until the transaction ends.                                       *)
(***************************************************************************)
EXTENDS Naturals, FiniteSets

CONSTANTS
  Clients,    \* client ids that registrations draw
  Users, Uris,
  Verifiers,  \* PKCE verifiers; a challenge stands for the one verifier it fits
  Grants,     \* calls of the authorize endpoint, and the codes they draw
  Exchanges,  \* calls of the token endpoint, and the refresh tokens they draw
  MaxFaults,  \* bound on failed statements, lost replies and crashes
  None

\* What a code and a refresh token can be presented as: a credential is named
\* by the call that drew it.
Credentials == Grants \cup Exchanges

\* A row of oauth_clients: a confidential client has a secret.
Client == [uris : SUBSET Uris, confidential : BOOLEAN]

\* What an authorization code is bound to.
Binding == [client : Clients, user : Users, uri : Uris, challenge : Verifiers]

\* A row of oauth_refresh_tokens.  root is the authorization it descends from:
\* history, not a column.
Token == [client : Clients, user : Users, root : Grants]

\* A token request: the client it authenticates as, whether with its secret, and
\* the credential it presents, with redirect_uri and verifier for a code.
Params == [client : Clients, secret : BOOLEAN, of : Credentials,
           uri : Uris, verifier : Verifiers \cup {None}]

InFlightPCs == {"client", "select", "commit", "issue", "reply"}
Results == {"pending", "ok", "rejected", "failed", "unanswered", "crashed"}

Exchange == [pc : {"idle", "done"} \cup InFlightPCs, par : Params \cup {None},
             user : Users \cup {None}, root : Grants \cup {None},
             result : Results]

ASSUME OAuthAssumption ==
  /\ Grants \cap Exchanges = {}
  /\ None \notin Users \cup Grants \cup Exchanges \cup Verifiers
  /\ None \notin Client /\ None \notin Binding
  /\ None \notin Token /\ None \notin Params
  /\ MaxFaults \in Nat

VARIABLES
  clients,  \* clients[c]: the row of client c, or None
  auth,     \* auth[g]: what authorization g was granted for, None before it
  codes,    \* the codes in oauth_auth_codes
  tokens,   \* tokens[x]: the refresh token exchange x drew, None when absent
  lock,     \* lock[k]: the exchange whose transaction locks the row of k, or None
  expired,  \* the credentials whose expires_at has passed
  told,     \* the credentials whose holder was told them
  exch,     \* the token requests
  faults

vars == <<clients, auth, codes, tokens, lock, expired, told, exch, faults>>

Init == /\ clients = [c \in Clients |-> None]
        /\ auth = [g \in Grants |-> None]
        /\ codes = {}
        /\ tokens = [x \in Exchanges |-> None]
        /\ lock = [k \in Credentials |-> None]
        /\ expired = {}
        /\ told = {}
        /\ exch = [x \in Exchanges |->
                     [pc |-> "idle", par |-> None, user |-> None, root |-> None,
                      result |-> "pending"]]
        /\ faults = 0

\* A statement ends with "ok", with "err" (no effect) or "lost" (effect, error).
Outcome(out) == /\ out = "ok" \/ faults < MaxFaults
                /\ faults' = IF out = "ok" THEN faults ELSE faults + 1
Reads == {"ok", "err"}
Writes == {"ok", "err", "lost"}

Finish(x, res) == exch' = [exch EXCEPT ![x].pc = "done", ![x].result = res]
Goto(x, pc) == exch' = [exch EXCEPT ![x].pc = pc]

Live(k) == IF k \in Grants THEN k \in codes ELSE tokens[k] # None

-----------------------------------------------------------------------------

\* RegisterClient: at least one redirect URI, and a secret unless the client
\* asks for the method "none".
RegisterClient(c) ==
  /\ clients[c] = None
  /\ \E uris \in SUBSET Uris \ {{}}, conf \in BOOLEAN :
       clients' = [clients EXCEPT ![c] = [uris |-> uris, confidential |-> conf]]
  /\ UNCHANGED <<auth, codes, tokens, lock, expired, told, exch, faults>>

\* Authorize for a logged-in user: the client exists and allows the redirect
\* URI, and a code is stored.  The browser brings it to the client unless the
\* INSERT reported an error.
Authorize(g) ==
  \E b \in Binding, out \in Writes :
    /\ auth[g] = None
    /\ clients[b.client] # None /\ b.uri \in clients[b.client].uris
    /\ Outcome(out)
    /\ IF out = "err" THEN UNCHANGED <<auth, codes>>
       ELSE auth' = [auth EXCEPT ![g] = b] /\ codes' = codes \cup {g}
    /\ told' = IF out = "ok" THEN told \cup {g} ELSE told
    /\ UNCHANGED <<clients, tokens, lock, expired, exch>>

\* A token request is made, with a credential that somebody was told.
Call(x) ==
  /\ exch[x].pc = "idle"
  /\ \E p \in Params :
       /\ p.of \in told
       /\ exch' = [exch EXCEPT ![x].pc = "client", ![x].par = p]
  /\ UNCHANGED <<clients, auth, codes, tokens, lock, expired, told, faults>>

\* authenticateClient, and the check that no parameter is empty.
AuthenticateClient(x) ==
  \E out \in Reads :
    LET p == exch[x].par
        c == clients[p.client]
    IN /\ exch[x].pc = "client"
       /\ Outcome(out)
       /\ IF out = "err" THEN Finish(x, "failed")
          ELSE IF \/ c = None
                  \/ c.confidential /\ ~p.secret
                  \/ p.of \in Grants /\ p.verifier = None
               THEN Finish(x, "rejected")
               ELSE Goto(x, "select")
       /\ UNCHANGED <<clients, auth, codes, tokens, lock, expired, told>>

\* Mutant of SelectForUpdate: a plain SELECT, which neither waits nor locks.
SelectUnlocked(x) ==
  /\ exch[x].pc = "select"
  /\ IF Live(exch[x].par.of) THEN Goto(x, "commit") ELSE Finish(x, "rejected")
  /\ UNCHANGED <<clients, auth, codes, tokens, lock, expired, told, faults>>

\* SELECT ... FOR UPDATE of the credential: waits for the lock of another
\* transaction, and may time out waiting.
SelectForUpdate(x) ==
  \E out \in Reads :
    LET k == exch[x].par.of IN
    /\ exch[x].pc = "select"
    /\ Outcome(out)
    /\ \/ /\ out = "err"
          /\ Finish(x, "failed") /\ UNCHANGED lock
       \/ /\ out = "ok" /\ lock[k] = None /\ Live(k)
          /\ lock' = [lock EXCEPT ![k] = x]
          /\ Goto(x, "commit")
       \/ /\ out = "ok" /\ lock[k] = None /\ ~Live(k)
          /\ Finish(x, "rejected") /\ UNCHANGED lock
    /\ UNCHANGED <<clients, auth, codes, tokens, expired, told>>

\* Mutant of Accepted: the client is not compared with the code's.
AcceptedFromAny(p) ==
  IF p.of \in Grants
  THEN p.uri = auth[p.of].uri /\ p.verifier = auth[p.of].challenge
  ELSE TRUE

\* The checks on a credential that was taken: it was issued to this client, and
\* for a code the redirect URI and the PKCE verifier fit.
Accepted(p) ==
  IF p.of \in Grants
  THEN /\ auth[p.of].client = p.client
       /\ auth[p.of].uri = p.uri
       /\ auth[p.of].challenge = p.verifier
  ELSE tokens[p.of].client = p.client

\* Mutant of UserOf: the username column is not read back.
UserOfNobody(k) == None

UserOf(k) == IF k \in Grants THEN auth[k].user ELSE tokens[k].user
RootOf(k) == IF k \in Grants THEN k ELSE tokens[k].root

Remove(k) == /\ codes' = codes \ {k}
             /\ tokens' = [x \in Exchanges |-> IF x = k THEN None ELSE tokens[x]]

\* Mutant of Commit: the transaction is not rolled back when it fails.
CommitKeepsLock(x) ==
  \E out \in Reads :
    LET p == exch[x].par IN
    /\ exch[x].pc = "commit"
    /\ Outcome(out)
    /\ IF out = "err"
       THEN UNCHANGED <<codes, tokens, lock>> /\ Finish(x, "failed")
       ELSE /\ Remove(p.of) /\ lock' = [lock EXCEPT ![p.of] = None]
            /\ IF p.of \in expired \/ ~Accepted(p) THEN Finish(x, "rejected")
               ELSE exch' = [exch EXCEPT ![x].pc = "issue",
                                         ![x].user = UserOf(p.of),
                                         ![x].root = RootOf(p.of)]
    /\ UNCHANGED <<clients, auth, expired, told>>

\* DELETE and COMMIT, or the rollback; then the checks, on a credential that is
\* already gone.
Commit(x) ==
  \E out \in Writes :
    LET p == exch[x].par IN
    /\ exch[x].pc = "commit"
    /\ Outcome(out)
    /\ lock' = [lock EXCEPT ![p.of] = None]
    /\ IF out = "err" THEN UNCHANGED <<codes, tokens>> ELSE Remove(p.of)
    /\ IF out # "ok" THEN Finish(x, "failed")
       ELSE IF p.of \in expired \/ ~Accepted(p) THEN Finish(x, "rejected")
       ELSE exch' = [exch EXCEPT ![x].pc = "issue", ![x].user = UserOf(p.of),
                                 ![x].root = RootOf(p.of)]
    /\ UNCHANGED <<clients, auth, expired, told>>

NewToken(x) == [client |-> exch[x].par.client, user |-> exch[x].user,
                root |-> exch[x].root]

\* Mutant of IssueTokens: the error of the INSERT is dropped.
IssueTokensUnchecked(x) ==
  \E out \in Writes :
    /\ exch[x].pc = "issue"
    /\ Outcome(out)
    /\ tokens' = IF out = "err" THEN tokens
                 ELSE [tokens EXCEPT ![x] = NewToken(x)]
    /\ Goto(x, "reply")
    /\ UNCHANGED <<clients, auth, codes, lock, expired, told>>

\* issueTokens: INSERT of the next refresh token.
IssueTokens(x) ==
  \E out \in Writes :
    /\ exch[x].pc = "issue"
    /\ Outcome(out)
    /\ tokens' = IF out = "err" THEN tokens
                 ELSE [tokens EXCEPT ![x] = NewToken(x)]
    /\ IF out = "ok" THEN Goto(x, "reply") ELSE Finish(x, "failed")
    /\ UNCHANGED <<clients, auth, codes, lock, expired, told>>

\* Mutant of Reply: the response has no refresh token.
ReplyAccessOnly(x) ==
  \E out \in Reads :
    /\ exch[x].pc = "reply"
    /\ Outcome(out)
    /\ Finish(x, IF out = "ok" THEN "ok" ELSE "unanswered")
    /\ UNCHANGED <<clients, auth, codes, tokens, lock, expired, told>>

\* The response reaches the client, or is lost on the way.
Reply(x) ==
  \E out \in Reads :
    /\ exch[x].pc = "reply"
    /\ Outcome(out)
    /\ told' = IF out = "ok" THEN told \cup {x} ELSE told
    /\ Finish(x, IF out = "ok" THEN "ok" ELSE "unanswered")
    /\ UNCHANGED <<clients, auth, codes, tokens, lock, expired>>

\* Five minutes pass over a code, thirty days over a refresh token.
Expire(k) == /\ Live(k) /\ k \notin expired
             /\ expired' = expired \cup {k}
             /\ UNCHANGED <<clients, auth, codes, tokens, lock, told, exch, faults>>

\* The process dies; the database rolls back the transactions it had open.
Crash == /\ faults < MaxFaults
         /\ \E x \in Exchanges : exch[x].pc \in InFlightPCs
         /\ faults' = faults + 1
         /\ exch' = [x \in Exchanges |->
                       IF exch[x].pc \in InFlightPCs
                       THEN [exch[x] EXCEPT !.pc = "done", !.result = "crashed"]
                       ELSE exch[x]]
         /\ lock' = [k \in Credentials |-> None]
         /\ UNCHANGED <<clients, auth, codes, tokens, expired, told>>

\* The steps the server takes for a request it has accepted.
Work(x) == AuthenticateClient(x) \/ SelectForUpdate(x) \/ Commit(x)
           \/ IssueTokens(x) \/ Reply(x)

Next == \/ \E c \in Clients : RegisterClient(c)
        \/ \E g \in Grants : Authorize(g)
        \/ \E x \in Exchanges : Call(x) \/ Work(x)
        \/ \E k \in Credentials : Expire(k)
        \/ Crash

Spec == Init /\ [][Next]_vars

\* Every request has a goroutine that the runtime schedules.
FairSpec == Spec /\ \A x \in Exchanges : WF_vars(Work(x))

-----------------------------------------------------------------------------
(* Properties.                                                             *)

\* Every variable keeps its type: a request that goes on to issue tokens knows the
\* user and the authorization it issues them for.
TypeOK == /\ clients \in [Clients -> Client \cup {None}]
          /\ auth \in [Grants -> Binding \cup {None}]
          /\ codes \subseteq Grants
          /\ tokens \in [Exchanges -> Token \cup {None}]
          /\ lock \in [Credentials -> Exchanges \cup {None}]
          /\ expired \subseteq Credentials /\ told \subseteq Credentials
          /\ exch \in [Exchanges -> Exchange]
          /\ faults \in 0 .. MaxFaults

\* The credentials of authorization g in the database, and the exchanges that
\* have taken one and not stored its successor yet.
LiveOf(g) == (codes \cap {g})
             \cup {x \in Exchanges : tokens[x] # None /\ tokens[x].root = g}
HeldOf(g) == {x \in Exchanges : exch[x].pc = "issue" /\ exch[x].root = g}

\* "so it can only be redeemed once", "rotates the refresh token": of each
\* authorization there is at most one credential, whether in the database or in
\* the hands of an exchange, however often each of them is presented.
OneLiveCredential ==
  \A g \in Grants : \A j, k \in LiveOf(g) \cup HeldOf(g) : j = k

\* A refresh token belongs to the client and the user that the authorization it
\* descends from was for, over any number of refreshes.
BoundToAuthorization ==
  \A x \in Exchanges : tokens[x] # None =>
    /\ auth[tokens[x].root] # None
    /\ tokens[x].client = auth[tokens[x].root].client
    /\ tokens[x].user = auth[tokens[x].root].user

\* A refresh token a client was told is in the database until it is presented: when
\* it is gone, an exchange that presented it has taken it or is over.
ToldIsRedeemable ==
  \A x \in Exchanges : x \in told /\ tokens[x] = None =>
    \E y \in Exchanges : /\ exch[y].par # None /\ exch[y].par.of = x
                         /\ exch[y].pc \in {"issue", "reply", "done"}

\* The exchanges that presented a credential of authorization g.
Presented(g) == {x \in Exchanges :
  exch[x].par # None /\ \/ exch[x].par.of = g
                        \/ exch[x].par.of \in Exchanges /\ exch[exch[x].par.of].root = g}

\* Exchange x presented what had expired, or was not issued for what it asked.
Spoiled(x) ==
  LET p == exch[x].par IN
  \/ p.of \in expired
  \/ p.of \in Grants /\ ~Accepted(p)
  \/ p.of \in Exchanges /\ exch[p.of].par.client # p.client

\* As long as no statement fails and no response is lost, an authorization is of
\* use to its client, however often and in whatever order its credentials are
\* presented: the client was told one that is in the database, or waits for the
\* answer to a trade; unless somebody wasted one of them.
AccessKept ==
  \A g \in Grants : auth[g] # None /\ faults = 0 =>
    \/ \E k \in LiveOf(g) : k \in told
    \/ \E x \in Presented(g) : exch[x].pc \in {"issue", "reply"} \/ Spoiled(x)

\* Every token request is answered: nobody waits for a row lock for ever.
Answered == \A x \in Exchanges :
              exch[x].pc = "client" ~> exch[x].pc = "done"

\* The server implements the one-credential chain.
Chain == INSTANCE GrantChain WITH
           born <- {g \in Grants : auth[g] # None},
           live <- [g \in Grants |-> LiveOf(g)],
           held <- [g \in Grants |-> HeldOf(g)]
ImplementsChain == Chain!Spec

=============================================================================
