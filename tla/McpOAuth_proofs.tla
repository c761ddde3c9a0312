-------------------------- MODULE McpOAuth_proofs --------------------------
(***************************************************************************)
(* Theorems about McpOAuth, for every set of clients, users, authorizations *)
(* and token requests and every bound on faults: its variables keep their  *)
(* types, no authorization ever has two live credentials, tokens stay with *)
(* the client and user of their authorization, a token that was handed out *)
(* is in the database until it is presented, clients keep their access,    *)
(* and the server implements GrantChain.                                   *)
(***************************************************************************)
EXTENDS McpOAuth, TLAPS

\* A request that was made has its parameters, and presents something that
\* somebody was told.
Known(x) == /\ exch[x].pc # "idle" => exch[x].par # None
            /\ exch[x].par # None => exch[x].par.of \in told

\* Between the SELECT and the end of its transaction a request holds the lock of a
\* row that exists.
Holding(x) == exch[x].pc = "commit" =>
                lock[exch[x].par.of] = x /\ Live(exch[x].par.of)

\* The token of a request exists only after its INSERT, and is in the database,
\* told to nobody, while the response is under way.
Drawn(x) == /\ tokens[x] # None => exch[x].pc \in {"reply", "done"}
            /\ exch[x].pc = "reply" => tokens[x] # None /\ x \notin told
            /\ x \in told => exch[x].pc = "done"

\* What a request is about to issue is for the client and user of its
\* authorization.
Issuing(x) == exch[x].pc = "issue" =>
                /\ exch[x].root \in Grants /\ auth[exch[x].root] # None
                /\ exch[x].user = auth[exch[x].root].user
                /\ exch[x].par.client = auth[exch[x].root].client

CodesGranted == \A g \in codes : auth[g] # None

Inv == /\ TypeOK
       /\ \A x \in Exchanges : Known(x)
       /\ \A x \in Exchanges : Holding(x)
       /\ \A x \in Exchanges : Drawn(x)
       /\ \A x \in Exchanges : Issuing(x)
       /\ CodesGranted
       /\ BoundToAuthorization
       /\ OneLiveCredential
       /\ ToldIsRedeemable

-----------------------------------------------------------------------------

\* Initially nothing was issued, told or asked for.
LEMMA InitInv == Init => Inv
<1> SUFFICES ASSUME Init PROVE Inv
  OBVIOUS
<1> USE DEF Init
<1>1. TypeOK
  <2>1. [pc |-> "idle", par |-> None, user |-> None, root |-> None,
         result |-> "pending"] \in Exchange
    BY DEF Exchange, Results
  <2>2. faults \in 0 .. MaxFaults
    BY OAuthAssumption
  <2>3. QED BY <2>1, <2>2 DEF TypeOK
<1>2. \A x \in Exchanges : Known(x) /\ Holding(x) /\ Drawn(x) /\ Issuing(x)
  BY DEF Known, Holding, Drawn, Issuing
<1>3. CodesGranted /\ BoundToAuthorization /\ ToldIsRedeemable
  BY DEF CodesGranted, BoundToAuthorization, ToldIsRedeemable
<1>4. OneLiveCredential
  BY DEF OneLiveCredential, LiveOf, HeldOf
<1>5. QED BY <1>1, <1>2, <1>3, <1>4 DEF Inv

\* A statement leaves the count of faults within its bound.
LEMMA FaultsBounded ==
  ASSUME NEW out, faults \in 0 .. MaxFaults, Outcome(out)
  PROVE  faults' \in 0 .. MaxFaults
BY OAuthAssumption DEF Outcome

\* What an authorization has stays single when it gains nothing.
LEMMA StillOne ==
  ASSUME OneLiveCredential,
         \A g \in Grants : LiveOf(g)' \cup HeldOf(g)' \subseteq LiveOf(g) \cup HeldOf(g)
  PROVE  OneLiveCredential'
BY DEF OneLiveCredential

\* A step that moves one request, or finishes several, and leaves authorizations,
\* codes, tokens and what was told alone.
Quiet == /\ UNCHANGED <<auth, codes, tokens, told>>
         /\ \A x \in Exchanges :
              /\ \/ exch'[x].pc = exch[x].pc
                 \/ exch[x].pc \in {"client", "select"} /\ exch'[x].pc \in {"select", "commit"}
                 \/ exch[x].pc # "idle" /\ exch'[x].pc = "done"
              /\ exch'[x].par = exch[x].par
              /\ exch'[x].root = exch[x].root
              /\ exch'[x].user = exch[x].user

\* Such a step needs no more than a look at types and locks.
LEMMA QuietKeeps ==
  ASSUME Inv, Quiet, TypeOK', \A x \in Exchanges : Holding(x)'
  PROVE  Inv'
<1>1. \A x \in Exchanges : Known(x)'
  BY DEF Inv, Quiet, Known
<1>2. \A x \in Exchanges : Drawn(x)'
  BY DEF Inv, Quiet, Drawn
<1>3. \A x \in Exchanges : Issuing(x)'
  BY DEF Inv, Quiet, Issuing
<1>4. CodesGranted' /\ BoundToAuthorization'
  BY DEF Inv, Quiet, CodesGranted, BoundToAuthorization
<1>5. OneLiveCredential'
  BY StillOne DEF Inv, Quiet, LiveOf, HeldOf
<1>6. ToldIsRedeemable'
  BY DEF Inv, Quiet, ToldIsRedeemable
<1>7. QED BY <1>1, <1>2, <1>3, <1>4, <1>5, <1>6 DEF Inv

\* Registration touches neither requests nor credentials.
LEMMA RegisterKeeps ==
  ASSUME Inv, NEW c \in Clients, RegisterClient(c)
  PROVE  Inv'
<1>1. clients' \in [Clients -> Client \cup {None}]
  BY DEF RegisterClient, Inv, TypeOK, Client
<1>2. TypeOK'
  BY <1>1 DEF RegisterClient, Inv, TypeOK
<1>3. \A x \in Exchanges : Holding(x)'
  BY DEF RegisterClient, Inv, Holding, Live
<1>4. Quiet
  BY DEF RegisterClient, Quiet
<1>5. QED BY <1>2, <1>3, <1>4, QuietKeeps

\* Neither does the passing of time.
LEMMA ExpireKeeps ==
  ASSUME Inv, NEW k \in Credentials, Expire(k)
  PROVE  Inv'
<1>1. TypeOK'
  BY DEF Expire, Inv, TypeOK
<1>2. \A x \in Exchanges : Holding(x)'
  BY DEF Expire, Inv, Holding, Live
<1>3. Quiet
  BY DEF Expire, Quiet
<1>4. QED BY <1>1, <1>2, <1>3, QuietKeeps

\* A crash finishes what is under way, and no transaction survives it.
LEMMA CrashKeeps ==
  ASSUME Inv, Crash
  PROVE  Inv'
<1>1. \A x \in Exchanges :
        \/ exch'[x] = exch[x] /\ exch[x].pc \notin InFlightPCs
        \/ /\ exch[x].pc \in InFlightPCs
           /\ exch'[x] = [exch[x] EXCEPT !.pc = "done", !.result = "crashed"]
  BY DEF Crash
<1>2. TypeOK'
  <2>1. ASSUME NEW x \in Exchanges PROVE exch'[x] \in Exchange
    <3>1. exch[x] \in Exchange
      BY DEF Inv, TypeOK
    <3>2. CASE exch'[x] = exch[x]
      BY <3>1, <3>2
    <3>3. CASE exch'[x] = [exch[x] EXCEPT !.pc = "done", !.result = "crashed"]
      BY <3>1, <3>3 DEF Exchange, Results
    <3>4. QED BY <1>1, <3>2, <3>3
  <2>2. exch' \in [Exchanges -> Exchange]
    BY <2>1 DEF Crash
  <2>3. faults' \in 0 .. MaxFaults
    <3>1. faults \in 0 .. MaxFaults
      BY DEF Inv, TypeOK
    <3>2. faults < MaxFaults /\ faults' = faults + 1
      BY DEF Crash
    <3>3. QED BY <3>1, <3>2, OAuthAssumption
  <2>4. lock' \in [Credentials -> Exchanges \cup {None}]
    BY DEF Crash
  <2>5. QED BY <2>2, <2>3, <2>4 DEF Crash, Inv, TypeOK
<1>3. \A x \in Exchanges : exch[x] \in Exchange
  BY DEF Inv, TypeOK
<1>4. \A x \in Exchanges : Holding(x)'
  BY <1>1, <1>3 DEF Holding, InFlightPCs, Exchange
<1>5. Quiet
  BY <1>1, <1>3 DEF Crash, Quiet, InFlightPCs, Exchange
<1>6. QED BY <1>2, <1>4, <1>5, QuietKeeps

\* A request that only moves on: types, when its successor state is typed.
LEMMA MovesTyped ==
  ASSUME TypeOK, NEW x \in Exchanges,
         NEW pc \in InFlightPCs \cup {"done"}, NEW res \in Results,
         exch' = [exch EXCEPT ![x].pc = pc, ![x].result = res]
  PROVE  /\ exch' \in [Exchanges -> Exchange]
         /\ \A y \in Exchanges \ {x} : exch'[y] = exch[y]
         /\ exch'[x].pc = pc /\ exch'[x].par = exch[x].par
         /\ exch'[x].root = exch[x].root /\ exch'[x].user = exch[x].user
<1>1. exch[x] \in Exchange
  BY DEF TypeOK
<1>2. exch'[x] = [exch[x] EXCEPT !.pc = pc, !.result = res]
  BY DEF TypeOK
<1>3. exch'[x] \in Exchange
  BY <1>1, <1>2 DEF Exchange
<1>4. \A y \in Exchanges \ {x} : exch'[y] = exch[y]
  BY DEF TypeOK
<1>5. exch' \in [Exchanges -> Exchange]
  BY <1>3, <1>4 DEF TypeOK
<1>6. QED BY <1>1, <1>2, <1>4, <1>5 DEF Exchange

\* Finish is such a move.
LEMMA FinishMoves ==
  ASSUME TypeOK, NEW x \in Exchanges, NEW res \in Results, Finish(x, res)
  PROVE  /\ exch' \in [Exchanges -> Exchange]
         /\ \A y \in Exchanges \ {x} : exch'[y] = exch[y]
         /\ exch'[x].pc = "done" /\ exch'[x].par = exch[x].par
         /\ exch'[x].root = exch[x].root /\ exch'[x].user = exch[x].user
BY MovesTyped DEF Finish

\* The same for a request that goes on.
LEMMA GotoMoves ==
  ASSUME TypeOK, NEW x \in Exchanges, NEW pc \in InFlightPCs, Goto(x, pc)
  PROVE  /\ exch' \in [Exchanges -> Exchange]
         /\ \A y \in Exchanges \ {x} : exch'[y] = exch[y]
         /\ exch'[x].pc = pc /\ exch'[x].par = exch[x].par
         /\ exch'[x].root = exch[x].root /\ exch'[x].user = exch[x].user
<1>1. exch[x] \in Exchange
  BY DEF TypeOK
<1>2. exch[x].result \in Results
  BY <1>1 DEF Exchange
<1>3. exch' = [exch EXCEPT ![x].pc = pc, ![x].result = exch[x].result]
  <2>1. exch' = [exch EXCEPT ![x].pc = pc]
    BY DEF Goto
  <2>2. [exch[x] EXCEPT !.pc = pc]
          = [exch[x] EXCEPT !.pc = pc, !.result = exch[x].result]
    BY <1>1 DEF Exchange
  <2>3. QED BY <2>1, <2>2 DEF TypeOK
<1>4. QED BY <1>2, <1>3, MovesTyped

-----------------------------------------------------------------------------
(* One lemma per step of a token request.                                  *)

\* A call gives a fresh request its parameters.
LEMMA CallKeeps ==
  ASSUME Inv, NEW x \in Exchanges, Call(x)
  PROVE  Inv'
<1>1. PICK p \in Params :
        /\ p.of \in told
        /\ exch' = [exch EXCEPT ![x].pc = "client", ![x].par = p]
  BY DEF Call
<1>2. exch[x] \in Exchange /\ exch[x].pc = "idle" /\ p # None
  BY OAuthAssumption DEF Inv, TypeOK, Call
<1>3. exch'[x] = [exch[x] EXCEPT !.pc = "client", !.par = p]
  BY <1>1 DEF Inv, TypeOK
<1>4. /\ exch'[x] \in Exchange
      /\ exch'[x].pc = "client" /\ exch'[x].par = p
  BY <1>2, <1>3 DEF Exchange, InFlightPCs
<1>5. \A y \in Exchanges \ {x} : exch'[y] = exch[y]
  BY <1>1 DEF Inv, TypeOK
<1>6. UNCHANGED <<clients, auth, codes, tokens, lock, expired, told, faults>>
  BY DEF Call
<1>7. TypeOK'
  <2>1. exch' \in [Exchanges -> Exchange]
    BY <1>1, <1>4, <1>5 DEF Inv, TypeOK
  <2>2. QED BY <2>1, <1>6 DEF Inv, TypeOK
<1>8. \A y \in Exchanges : Known(y)'
  <2>1. Known(x)'
    BY <1>1, <1>2, <1>4, <1>6 DEF Known
  <2>2. ASSUME NEW y \in Exchanges \ {x} PROVE Known(y)'
    BY <1>5, <1>6 DEF Inv, Known
  <2>3. QED BY <2>1, <2>2
<1>9. \A y \in Exchanges : Holding(y)'
  BY <1>4, <1>5, <1>6 DEF Inv, Holding, Live
<1>10. \A y \in Exchanges : Drawn(y)' /\ Issuing(y)'
  BY <1>2, <1>4, <1>5, <1>6 DEF Inv, Drawn, Issuing
<1>11. CodesGranted' /\ BoundToAuthorization'
  BY <1>6 DEF Inv, CodesGranted, BoundToAuthorization
<1>12. OneLiveCredential'
  BY <1>4, <1>5, <1>6, StillOne DEF Inv, LiveOf, HeldOf
<1>13. ToldIsRedeemable'
  <2>1. ASSUME NEW y \in Exchanges, y \in told, tokens[y] = None
        PROVE  \E z \in Exchanges : /\ exch'[z].par # None /\ exch'[z].par.of = y
                                    /\ exch'[z].pc \in {"issue", "reply", "done"}
    <3>1. PICK z \in Exchanges : /\ exch[z].par # None /\ exch[z].par.of = y
                                 /\ exch[z].pc \in {"issue", "reply", "done"}
      BY <2>1 DEF Inv, ToldIsRedeemable
    <3>2. z # x
      BY <3>1, <1>2
    <3>3. QED BY <3>1, <3>2, <1>5
  <2>2. QED BY <2>1, <1>6 DEF ToldIsRedeemable
<1>14. QED BY <1>7, <1>8, <1>9, <1>10, <1>11, <1>12, <1>13 DEF Inv

\* Authentication ends a request or moves it to its SELECT.
LEMMA AuthenticateKeeps ==
  ASSUME Inv, NEW x \in Exchanges, AuthenticateClient(x)
  PROVE  Inv'
<1>1. /\ exch[x].pc = "client"
      /\ \/ Finish(x, "failed") \/ Finish(x, "rejected") \/ Goto(x, "select")
      /\ UNCHANGED <<clients, auth, codes, tokens, lock, expired, told>>
  BY DEF AuthenticateClient
<1>2. /\ exch' \in [Exchanges -> Exchange]
      /\ \A y \in Exchanges \ {x} : exch'[y] = exch[y]
      /\ exch'[x].pc \in {"select", "done"} /\ exch'[x].par = exch[x].par
      /\ exch'[x].root = exch[x].root /\ exch'[x].user = exch[x].user
  BY <1>1, FinishMoves, GotoMoves DEF Inv, InFlightPCs, Results
<1>3. faults' \in 0 .. MaxFaults
  BY FaultsBounded DEF AuthenticateClient, Inv, TypeOK
<1>4. TypeOK'
  BY <1>1, <1>2, <1>3 DEF Inv, TypeOK
<1>5. \A y \in Exchanges : Holding(y)'
  BY <1>1, <1>2 DEF Inv, Holding, Live
<1>6. Quiet
  BY <1>1, <1>2 DEF Quiet
<1>7. QED BY <1>4, <1>5, <1>6, QuietKeeps

\* The SELECT takes the lock of a row that nobody else has locked.
LEMMA SelectKeeps ==
  ASSUME Inv, NEW x \in Exchanges, SelectForUpdate(x)
  PROVE  Inv'
<1> DEFINE k == exch[x].par.of
<1>1. /\ exch[x].pc = "select"
      /\ UNCHANGED <<clients, auth, codes, tokens, expired, told>>
      /\ \/ /\ Finish(x, "failed") \/ Finish(x, "rejected")
            /\ UNCHANGED lock
         \/ /\ lock[k] = None /\ Live(k)
            /\ lock' = [lock EXCEPT ![k] = x]
            /\ Goto(x, "commit")
  BY DEF SelectForUpdate
<1>2. /\ exch' \in [Exchanges -> Exchange]
      /\ \A y \in Exchanges \ {x} : exch'[y] = exch[y]
      /\ exch'[x].pc \in {"commit", "done"} /\ exch'[x].par = exch[x].par
      /\ exch'[x].root = exch[x].root /\ exch'[x].user = exch[x].user
      /\ \/ exch'[x].pc = "done" /\ lock' = lock
         \/ lock[k] = None /\ Live(k) /\ lock' = [lock EXCEPT ![k] = x]
  BY <1>1, FinishMoves, GotoMoves DEF Inv, InFlightPCs, Results
<1>3. k \in Credentials
  BY <1>1 DEF Inv, Known, TypeOK
<1>4. TypeOK'
  <2>1. lock' \in [Credentials -> Exchanges \cup {None}]
    BY <1>2, <1>3 DEF Inv, TypeOK
  <2>2. faults' \in 0 .. MaxFaults
    BY FaultsBounded DEF SelectForUpdate, Inv, TypeOK
  <2>3. QED BY <1>1, <1>2, <2>1, <2>2 DEF Inv, TypeOK
<1>5. ASSUME NEW y \in Exchanges PROVE Holding(y)'
  <2>1. CASE y = x
    <3>1. exch'[x].pc = "commit" => lock'[k] = x /\ Live(k)
      BY <1>2, <1>3 DEF Inv, TypeOK
    <3>2. QED BY <2>1, <3>1, <1>1, <1>2 DEF Holding, Live
  <2>2. CASE y # x
    <3>1. SUFFICES ASSUME exch'[y].pc = "commit"
                   PROVE  lock'[exch[y].par.of] = y /\ Live(exch[y].par.of)
      BY <1>1, <1>2, <2>2 DEF Holding, Live
    <3>2. lock[exch[y].par.of] = y /\ Live(exch[y].par.of)
      BY <1>2, <2>2, <3>1 DEF Inv, Holding
    <3>3. y # None
      BY OAuthAssumption
    <3>4. exch[y].par.of \in Credentials
      BY <1>2, <2>2, <3>1 DEF Inv, Known, TypeOK
    <3>5. QED BY <1>2, <1>3, <3>2, <3>3, <3>4 DEF Inv, TypeOK
  <2>3. QED BY <2>1, <2>2
<1>6. Quiet
  BY <1>1, <1>2 DEF Quiet
<1>7. QED BY <1>4, <1>5, <1>6, QuietKeeps

\* The INSERT stores a successor for what the request took.
LEMMA IssueKeeps ==
  ASSUME Inv, NEW x \in Exchanges, IssueTokens(x)
  PROVE  Inv'
<1>1. /\ exch[x].pc = "issue"
      /\ UNCHANGED <<clients, auth, codes, lock, expired, told>>
      /\ \/ /\ tokens' = tokens
            /\ Finish(x, "failed")
         \/ /\ tokens' = [tokens EXCEPT ![x] = NewToken(x)]
            /\ Finish(x, "failed") \/ Goto(x, "reply")
  BY DEF IssueTokens, Writes
<1>2. /\ exch' \in [Exchanges -> Exchange]
      /\ \A y \in Exchanges \ {x} : exch'[y] = exch[y]
      /\ exch'[x].pc \in {"reply", "done"} /\ exch'[x].par = exch[x].par
      /\ exch'[x].root = exch[x].root /\ exch'[x].user = exch[x].user
  BY <1>1, FinishMoves, GotoMoves DEF Inv, InFlightPCs, Results
<1>3. \/ tokens' = tokens /\ exch'[x].pc = "done"
      \/ tokens' = [tokens EXCEPT ![x] = NewToken(x)]
  BY <1>1, FinishMoves DEF Inv, Results
<1>4. /\ exch[x].root \in Grants /\ auth[exch[x].root] # None
      /\ exch[x].user = auth[exch[x].root].user
      /\ exch[x].par.client = auth[exch[x].root].client
  BY <1>1 DEF Inv, Issuing
<1>5. /\ NewToken(x) \in Token /\ NewToken(x) # None
      /\ NewToken(x).root = exch[x].root
      /\ NewToken(x).user = exch[x].user
      /\ NewToken(x).client = exch[x].par.client
  <2>1. auth[exch[x].root] \in Binding
    BY <1>4 DEF Inv, TypeOK
  <2>2. NewToken(x) \in Token
    BY <2>1, <1>4 DEF NewToken, Token, Binding
  <2>3. QED BY <2>2, OAuthAssumption DEF NewToken
<1>6. /\ tokens' \in [Exchanges -> Token \cup {None}]
      /\ \A y \in Exchanges \ {x} : tokens'[y] = tokens[y]
      /\ \/ tokens'[x] = tokens[x] /\ exch'[x].pc = "done"
         \/ tokens'[x] = NewToken(x)
      /\ tokens[x] = None /\ x \notin told
  <2>1. tokens[x] = None /\ x \notin told
    BY <1>1 DEF Inv, Drawn
  <2>2. QED BY <2>1, <1>3, <1>5 DEF Inv, TypeOK
<1>7. TypeOK'
  <2>1. faults' \in 0 .. MaxFaults
    BY FaultsBounded DEF IssueTokens, Inv, TypeOK
  <2>2. QED BY <1>1, <1>2, <1>6, <2>1 DEF Inv, TypeOK
<1>8. \A y \in Exchanges : Known(y)'
  BY <1>1, <1>2 DEF Inv, Known
<1>9. \A y \in Exchanges : Holding(y)'
  <2>1. SUFFICES ASSUME NEW y \in Exchanges, exch'[y].pc = "commit"
                 PROVE  Holding(y)'
    BY DEF Holding
  <2>2. y # x /\ exch[y].pc = "commit" /\ exch'[y] = exch[y]
    BY <2>1, <1>2
  <2>3. lock[exch[y].par.of] = y /\ Live(exch[y].par.of)
    BY <2>2 DEF Inv, Holding
  <2>4. exch[y].par.of \in Credentials
    BY <2>2 DEF Inv, Known, TypeOK
  <2>5. Live(exch[y].par.of)'
    BY <2>2, <2>3, <2>4, <1>1, <1>6 DEF Live, Credentials
  <2>6. QED BY <2>2, <2>3, <2>5, <1>1 DEF Holding
<1>10. \A y \in Exchanges : Drawn(y)'
  <2>1. Drawn(x)'
    BY <1>1, <1>2, <1>5, <1>6 DEF Drawn
  <2>2. ASSUME NEW y \in Exchanges \ {x} PROVE Drawn(y)'
    BY <1>1, <1>2, <1>6 DEF Inv, Drawn
  <2>3. QED BY <2>1, <2>2
<1>11. \A y \in Exchanges : Issuing(y)'
  BY <1>1, <1>2 DEF Inv, Issuing
<1>12. CodesGranted'
  BY <1>1 DEF Inv, CodesGranted
<1>13. BoundToAuthorization'
  BY <1>1, <1>4, <1>5, <1>6 DEF Inv, BoundToAuthorization
<1>14. OneLiveCredential'
  <2>1. ASSUME NEW g \in Grants
        PROVE  LiveOf(g)' \cup HeldOf(g)' \subseteq LiveOf(g) \cup HeldOf(g)
    <3>1. x \in LiveOf(g)' => x \in codes \cap {g} \/ x \in HeldOf(g)
      BY <1>1, <1>5, <1>6 DEF LiveOf, HeldOf
    <3>2. \A y \in LiveOf(g)' : y # x => y \in LiveOf(g)
      BY <1>1, <1>6 DEF LiveOf
    <3>3. HeldOf(g)' \subseteq HeldOf(g)
      BY <1>2 DEF HeldOf
    <3>4. QED BY <3>1, <3>2, <3>3 DEF LiveOf
  <2>2. QED BY <2>1, StillOne DEF Inv
<1>15. ToldIsRedeemable'
  <2>1. ASSUME NEW y \in Exchanges, y \in told, tokens'[y] = None
        PROVE  \E z \in Exchanges : /\ exch'[z].par # None /\ exch'[z].par.of = y
                                    /\ exch'[z].pc \in {"issue", "reply", "done"}
    <3>1. y # x /\ tokens[y] = None
      BY <2>1, <1>6
    <3>2. PICK z \in Exchanges : /\ exch[z].par # None /\ exch[z].par.of = y
                                 /\ exch[z].pc \in {"issue", "reply", "done"}
      BY <2>1, <3>1 DEF Inv, ToldIsRedeemable
    <3>3. QED BY <3>2, <1>2
  <2>2. QED BY <2>1, <1>1 DEF ToldIsRedeemable
<1>16. QED
  BY <1>7, <1>8, <1>9, <1>10, <1>11, <1>12, <1>13, <1>14, <1>15 DEF Inv

\* The response tells the client a token that is in the database.
LEMMA ReplyKeeps ==
  ASSUME Inv, NEW x \in Exchanges, Reply(x)
  PROVE  Inv'
<1>1. /\ exch[x].pc = "reply"
      /\ told \subseteq told' /\ told' \subseteq told \cup {x}
      /\ Finish(x, "ok") \/ Finish(x, "unanswered")
      /\ UNCHANGED <<clients, auth, codes, tokens, lock, expired>>
  BY DEF Reply
<1>2. /\ exch' \in [Exchanges -> Exchange]
      /\ \A y \in Exchanges \ {x} : exch'[y] = exch[y]
      /\ exch'[x].pc = "done" /\ exch'[x].par = exch[x].par
      /\ exch'[x].root = exch[x].root /\ exch'[x].user = exch[x].user
  BY <1>1, FinishMoves DEF Inv, Results
<1>3. TypeOK'
  <2>1. faults' \in 0 .. MaxFaults
    BY FaultsBounded DEF Reply, Inv, TypeOK
  <2>2. told' \subseteq Credentials
    BY <1>1 DEF Inv, TypeOK, Credentials
  <2>3. QED BY <1>1, <1>2, <2>1, <2>2 DEF Inv, TypeOK
<1>4. tokens[x] # None
  BY <1>1 DEF Inv, Drawn
<1>5. \A y \in Exchanges : Known(y)'
  BY <1>1, <1>2 DEF Inv, Known
<1>6. \A y \in Exchanges : Holding(y)'
  BY <1>1, <1>2 DEF Inv, Holding, Live
<1>7. \A y \in Exchanges : Drawn(y)' /\ Issuing(y)'
  BY <1>1, <1>2 DEF Inv, Drawn, Issuing
<1>8. CodesGranted' /\ BoundToAuthorization'
  BY <1>1 DEF Inv, CodesGranted, BoundToAuthorization
<1>9. OneLiveCredential'
  BY <1>1, <1>2, StillOne DEF Inv, LiveOf, HeldOf
<1>10. ToldIsRedeemable'
  BY <1>1, <1>2, <1>4 DEF Inv, ToldIsRedeemable
<1>11. QED BY <1>3, <1>5, <1>6, <1>7, <1>8, <1>9, <1>10 DEF Inv

\* The end of the transaction: a request that holds the credential of an
\* authorization leaves it, takes it or destroys it.
LEMMA CommitMoves ==
  ASSUME Inv, NEW x \in Exchanges, Commit(x)
  PROVE  LET k == exch[x].par.of IN
         /\ exch[x].pc = "commit" /\ exch[x].par # None
         /\ k \in Credentials /\ k \in told /\ lock[k] = x /\ Live(k)
         /\ UNCHANGED <<clients, auth, expired, told>>
         /\ lock' = [lock EXCEPT ![k] = None]
         /\ RootOf(k) \in Grants /\ auth[RootOf(k)] # None
         /\ UserOf(k) = auth[RootOf(k)].user
         /\ Accepted(exch[x].par) => exch[x].par.client = auth[RootOf(k)].client
         /\ k \in LiveOf(RootOf(k))
         /\ exch' \in [Exchanges -> Exchange]
         /\ \A y \in Exchanges \ {x} : exch'[y] = exch[y]
         /\ exch'[x].par = exch[x].par
         /\ \/ exch'[x].pc = "done" /\ (UNCHANGED <<codes, tokens>> \/ Remove(k))
            \/ /\ exch'[x].pc = "issue" /\ Accepted(exch[x].par)
               /\ exch'[x].root = RootOf(k) /\ exch'[x].user = UserOf(k)
               /\ Remove(k)
<1> DEFINE k == exch[x].par.of
    Takes == /\ Accepted(exch[x].par)
             /\ exch' = [exch EXCEPT ![x].pc = "issue", ![x].user = UserOf(k),
                                     ![x].root = RootOf(k)]
<1>1. /\ exch[x].pc = "commit"
      /\ UNCHANGED <<clients, auth, expired, told>>
      /\ lock' = [lock EXCEPT ![k] = None]
      /\ \/ UNCHANGED <<codes, tokens>> /\ Finish(x, "failed")
         \/ Remove(k) /\ (Finish(x, "failed") \/ Finish(x, "rejected") \/ Takes)
  BY DEF Commit, Writes
<1>2. /\ exch[x] \in Exchange /\ exch[x].par # None
      /\ k \in Credentials /\ k \in told /\ lock[k] = x /\ Live(k)
  BY <1>1 DEF Inv, Known, TypeOK, Holding
\* What was taken belonged to the authorization the successor is issued for.
<1>3. /\ RootOf(k) \in Grants /\ auth[RootOf(k)] # None
      /\ UserOf(k) = auth[RootOf(k)].user
      /\ Accepted(exch[x].par) => exch[x].par.client = auth[RootOf(k)].client
      /\ k \in LiveOf(RootOf(k))
  <2>1. CASE k \in Grants
    BY <1>2, <2>1 DEF Inv, CodesGranted, RootOf, UserOf, Accepted, LiveOf, Live
  <2>2. CASE k \notin Grants
    <3>1. k \in Exchanges /\ tokens[k] # None
      BY <1>2, <2>2 DEF Live, Credentials
    <3>2. tokens[k] \in Token
      BY <3>1 DEF Inv, TypeOK
    <3>3. tokens[k].root \in Grants
      BY <3>2 DEF Token
    <3>4. QED
      BY <2>2, <3>1, <3>3 DEF Inv, BoundToAuthorization, RootOf, UserOf, Accepted, LiveOf
  <2>3. QED BY <2>1, <2>2
<1>4. UserOf(k) \in Users
  <2>1. auth[RootOf(k)] \in Binding
    BY <1>3 DEF Inv, TypeOK
  <2>2. QED BY <2>1, <1>3 DEF Binding
<1>5. Takes =>
        /\ exch' \in [Exchanges -> Exchange]
        /\ \A y \in Exchanges \ {x} : exch'[y] = exch[y]
        /\ exch'[x].pc = "issue" /\ exch'[x].par = exch[x].par
        /\ exch'[x].root = RootOf(k) /\ exch'[x].user = UserOf(k)
  <2>1. SUFFICES ASSUME Takes
                 PROVE  /\ exch' \in [Exchanges -> Exchange]
                        /\ \A y \in Exchanges \ {x} : exch'[y] = exch[y]
                        /\ exch'[x].pc = "issue" /\ exch'[x].par = exch[x].par
                        /\ exch'[x].root = RootOf(k) /\ exch'[x].user = UserOf(k)
    OBVIOUS
  <2>2. exch'[x] = [exch[x] EXCEPT !.pc = "issue", !.user = UserOf(k),
                                   !.root = RootOf(k)]
    BY <2>1 DEF Inv, TypeOK
  <2>3. /\ exch'[x] \in Exchange
        /\ exch'[x].pc = "issue" /\ exch'[x].par = exch[x].par
        /\ exch'[x].root = RootOf(k) /\ exch'[x].user = UserOf(k)
    BY <1>2, <1>3, <1>4, <2>2 DEF Exchange, InFlightPCs
  <2>4. \A y \in Exchanges \ {x} : exch'[y] = exch[y]
    BY <2>1 DEF Inv, TypeOK
  <2>5. exch' \in [Exchanges -> Exchange]
    BY <2>1, <2>3, <2>4 DEF Inv, TypeOK
  <2>6. QED BY <2>3, <2>4, <2>5
<1>6. /\ exch' \in [Exchanges -> Exchange]
      /\ \A y \in Exchanges \ {x} : exch'[y] = exch[y]
      /\ exch'[x].par = exch[x].par
      /\ \/ exch'[x].pc = "done" /\ (UNCHANGED <<codes, tokens>> \/ Remove(k))
         \/ /\ exch'[x].pc = "issue" /\ Accepted(exch[x].par)
            /\ exch'[x].root = RootOf(k) /\ exch'[x].user = UserOf(k)
            /\ Remove(k)
  <2>1. CASE Takes
    BY <1>1, <1>5, <2>1, FinishMoves DEF Inv, Results
  <2>2. CASE Finish(x, "failed") \/ Finish(x, "rejected")
    BY <1>1, <2>2, FinishMoves DEF Inv, Results
  <2>3. QED BY <1>1, <2>1, <2>2
<1>7. QED BY <1>1, <1>2, <1>3, <1>6

\* The credential is gone before it is checked, and nobody else had it.
LEMMA CommitKeeps ==
  ASSUME Inv, NEW x \in Exchanges, Commit(x)
  PROVE  Inv'
<1> DEFINE k == exch[x].par.of
<1>1. /\ exch[x].pc = "commit"
      /\ UNCHANGED <<clients, auth, expired, told>>
      /\ lock' = [lock EXCEPT ![k] = None]
  BY CommitMoves
<1>2. /\ exch[x] \in Exchange /\ exch[x].par # None
      /\ k \in Credentials /\ k \in told /\ lock[k] = x /\ Live(k)
  BY CommitMoves DEF Inv, TypeOK
<1>3. /\ RootOf(k) \in Grants /\ auth[RootOf(k)] # None
      /\ UserOf(k) = auth[RootOf(k)].user
      /\ Accepted(exch[x].par) => exch[x].par.client = auth[RootOf(k)].client
      /\ k \in LiveOf(RootOf(k))
  BY CommitMoves
<1>6. /\ exch' \in [Exchanges -> Exchange]
      /\ \A y \in Exchanges \ {x} : exch'[y] = exch[y]
      /\ exch'[x].par = exch[x].par
      /\ \/ exch'[x].pc = "done" /\ (UNCHANGED <<codes, tokens>> \/ Remove(k))
         \/ /\ exch'[x].pc = "issue" /\ Accepted(exch[x].par)
            /\ exch'[x].root = RootOf(k) /\ exch'[x].user = UserOf(k)
            /\ Remove(k)
  BY CommitMoves
\* Only the credential the request holds is touched.
<1>7. /\ codes' \subseteq codes /\ tokens' \in [Exchanges -> Token \cup {None}]
      /\ \A g \in codes : g # k => g \in codes'
      /\ \A y \in Exchanges : y # k => tokens'[y] = tokens[y]
      /\ \A y \in Exchanges : tokens'[y] # None => tokens'[y] = tokens[y]
  BY <1>6 DEF Remove, Inv, TypeOK
<1>8. TypeOK'
  <2>1. faults' \in 0 .. MaxFaults
    BY FaultsBounded DEF Commit, Inv, TypeOK
  <2>2. lock' \in [Credentials -> Exchanges \cup {None}]
    BY <1>1, <1>2 DEF Inv, TypeOK
  <2>3. QED BY <1>1, <1>6, <1>7, <2>1, <2>2 DEF Inv, TypeOK
<1>9. \A y \in Exchanges : Known(y)'
  BY <1>1, <1>2, <1>6 DEF Inv, Known
<1>10. \A y \in Exchanges : Holding(y)'
  <2>1. SUFFICES ASSUME NEW y \in Exchanges, exch'[y].pc = "commit"
                 PROVE  Holding(y)'
    BY DEF Holding
  <2>2. y # x /\ exch[y].pc = "commit" /\ exch'[y] = exch[y]
    BY <2>1, <1>6
  <2>3. lock[exch[y].par.of] = y /\ Live(exch[y].par.of)
    BY <2>2 DEF Inv, Holding
  <2>4. exch[y].par.of \in Credentials /\ exch[y].par.of # k
    BY <2>2, <2>3, <1>2 DEF Inv, Known, TypeOK
  <2>5. Live(exch[y].par.of)'
    BY <2>2, <2>3, <2>4, <1>7 DEF Live, Credentials
  <2>6. lock'[exch[y].par.of] = y
    BY <1>1, <1>2, <2>3, <2>4 DEF Inv, TypeOK
  <2>7. QED BY <2>2, <2>5, <2>6 DEF Holding
<1>11. \A y \in Exchanges : Drawn(y)'
  <2>1. Drawn(x)'
    BY <1>1, <1>6, <1>7 DEF Inv, Drawn
  <2>2. ASSUME NEW y \in Exchanges \ {x} PROVE Drawn(y)'
    <3>1. exch[y].pc = "reply" => y # k
      BY <1>2 DEF Inv, Drawn
    <3>2. QED BY <1>1, <1>6, <1>7, <3>1 DEF Inv, Drawn
  <2>3. QED BY <2>1, <2>2
<1>12. \A y \in Exchanges : Issuing(y)'
  BY <1>1, <1>3, <1>6 DEF Inv, Issuing
<1>13. CodesGranted' /\ BoundToAuthorization'
  BY <1>1, <1>7 DEF Inv, CodesGranted, BoundToAuthorization
<1>14. OneLiveCredential'
  <2>1. ASSUME NEW g \in Grants
        PROVE  LiveOf(g)' \subseteq LiveOf(g)
    BY <1>7 DEF LiveOf
  <2>2. PICK h \in Grants : h = RootOf(k)
    BY <1>3
  <2>3. \A g \in Grants : g # h => HeldOf(g)' \subseteq HeldOf(g)
    BY <1>6, <2>2 DEF HeldOf
  <2>4. HeldOf(h)' \subseteq HeldOf(h) \cup {x}
    BY <1>6 DEF HeldOf
  <2>5. CASE exch'[x].pc = "done"
    <3>1. \A g \in Grants : HeldOf(g)' \subseteq HeldOf(g)
      BY <1>6, <2>5 DEF HeldOf
    <3>2. QED BY <2>1, <3>1, StillOne DEF Inv
  <2>6. CASE Remove(k)
    <3>1. LiveOf(h) \cup HeldOf(h) = {k}
      BY <1>3, <2>2 DEF Inv, OneLiveCredential
    <3>2. k \notin LiveOf(h)'
      BY <2>6 DEF Remove, LiveOf
    <3>3. HeldOf(h) = {}
      <4>1. k \in Exchanges => tokens[k] # None
        BY <1>2, OAuthAssumption DEF Live
      <4>2. k \notin HeldOf(h)
        BY <4>1 DEF Inv, Drawn, HeldOf
      <4>3. QED BY <3>1, <4>2
    <3>4. (LiveOf(h) \cup HeldOf(h))' \subseteq {x}
      BY <2>1, <2>4, <3>1, <3>2, <3>3
    <3>5. ASSUME NEW g \in Grants, NEW i \in (LiveOf(g) \cup HeldOf(g))',
                 NEW j \in (LiveOf(g) \cup HeldOf(g))'
          PROVE  i = j
      <4>1. CASE g = h
        BY <3>4, <3>5, <4>1
      <4>2. CASE g # h
        BY <2>1, <2>3, <3>5, <4>2 DEF Inv, OneLiveCredential
      <4>3. QED BY <4>1, <4>2
    <3>6. QED BY <3>5 DEF OneLiveCredential
  <2>7. QED BY <1>6, <2>5, <2>6
<1>15. ToldIsRedeemable'
  <2>1. ASSUME NEW y \in Exchanges, y \in told, tokens'[y] = None
        PROVE  \E z \in Exchanges : /\ exch'[z].par # None /\ exch'[z].par.of = y
                                    /\ exch'[z].pc \in {"issue", "reply", "done"}
    <3>1. CASE y = k
      BY <3>1, <1>2, <1>6
    <3>2. CASE y # k
      <4>1. PICK z \in Exchanges : /\ exch[z].par # None /\ exch[z].par.of = y
                                   /\ exch[z].pc \in {"issue", "reply", "done"}
        BY <2>1, <3>2, <1>7 DEF Inv, ToldIsRedeemable
      <4>2. QED BY <4>1, <1>1, <1>6
    <3>3. QED BY <3>1, <3>2
  <2>2. QED BY <2>1, <1>1 DEF ToldIsRedeemable
<1>16. QED
  BY <1>8, <1>9, <1>10, <1>11, <1>12, <1>13, <1>14, <1>15 DEF Inv

\* Authorize adds the first credential of an authorization nothing descends from.
LEMMA AuthorizeKeeps ==
  ASSUME Inv, NEW g \in Grants, Authorize(g)
  PROVE  Inv'
<1>1. PICK b \in Binding :
        /\ auth[g] = None
        /\ \/ UNCHANGED <<auth, codes>>
           \/ auth' = [auth EXCEPT ![g] = b] /\ codes' = codes \cup {g}
        /\ told \subseteq told' /\ told' \subseteq told \cup {g}
        /\ UNCHANGED <<clients, tokens, lock, expired, exch>>
  BY DEF Authorize
<1>2. /\ auth' \in [Grants -> Binding \cup {None}]
      /\ \A h \in Grants : auth[h] # None => auth'[h] = auth[h] /\ h # g
      /\ b # None
  BY <1>1, OAuthAssumption DEF Inv, TypeOK
<1>3. /\ codes \subseteq codes' /\ codes' \subseteq codes \cup {g}
      /\ g \in codes' => g \in codes \/ auth'[g] # None
  BY <1>1, <1>2 DEF Inv, TypeOK
<1>4. g \notin Exchanges
  BY OAuthAssumption
<1>5. TypeOK'
  <2>1. faults' \in 0 .. MaxFaults
    BY FaultsBounded DEF Authorize, Inv, TypeOK
  <2>2. told' \subseteq Credentials
    BY <1>1 DEF Inv, TypeOK, Credentials
  <2>3. codes' \subseteq Grants
    BY <1>3 DEF Inv, TypeOK
  <2>4. QED BY <1>1, <1>2, <2>1, <2>2, <2>3 DEF Inv, TypeOK
<1>6. \A y \in Exchanges : Known(y)'
  BY <1>1 DEF Inv, Known
<1>7. \A y \in Exchanges : Holding(y)'
  BY <1>1, <1>3 DEF Inv, Holding, Live
<1>8. \A y \in Exchanges : Drawn(y)'
  BY <1>1, <1>4 DEF Inv, Drawn
<1>9. \A y \in Exchanges : Issuing(y)'
  BY <1>1, <1>2 DEF Inv, Issuing
<1>10. CodesGranted'
  <2>1. \A h \in codes : h \in Grants /\ auth'[h] # None
    BY <1>2 DEF Inv, TypeOK, CodesGranted
  <2>2. QED BY <1>3, <2>1 DEF CodesGranted
<1>11. BoundToAuthorization'
  <2>1. ASSUME NEW y \in Exchanges, tokens[y] # None
        PROVE  tokens[y].root \in Grants
    <3>1. tokens[y] \in Token
      BY <2>1 DEF Inv, TypeOK
    <3>2. QED BY <3>1 DEF Token
  <2>2. QED BY <1>1, <1>2, <2>1 DEF Inv, BoundToAuthorization
<1>12. OneLiveCredential'
  <2>1. HeldOf(g) = {} /\ \A x \in Exchanges : tokens[x] # None => tokens[x].root # g
    BY <1>1 DEF Inv, BoundToAuthorization, Issuing, HeldOf
  <2>2. LiveOf(g)' \cup HeldOf(g)' \subseteq {g}
    BY <1>1, <2>1 DEF LiveOf, HeldOf
  <2>3. \A h \in Grants : h # g =>
          LiveOf(h)' \cup HeldOf(h)' \subseteq LiveOf(h) \cup HeldOf(h)
    BY <1>1, <1>3 DEF LiveOf, HeldOf
  <2>4. ASSUME NEW h \in Grants, NEW i \in (LiveOf(h) \cup HeldOf(h))',
               NEW j \in (LiveOf(h) \cup HeldOf(h))'
        PROVE  i = j
    <3>1. CASE h = g
      BY <2>2, <2>4, <3>1
    <3>2. CASE h # g
      BY <2>3, <2>4, <3>2 DEF Inv, OneLiveCredential
    <3>3. QED BY <3>1, <3>2
  <2>5. QED BY <2>4 DEF OneLiveCredential
<1>13. ToldIsRedeemable'
  BY <1>1, <1>4 DEF Inv, ToldIsRedeemable
<1>14. QED
  BY <1>5, <1>6, <1>7, <1>8, <1>9, <1>10, <1>11, <1>12, <1>13 DEF Inv

-----------------------------------------------------------------------------

\* The invariant is inductive.
LEMMA StepInv == Inv /\ [Next]_vars => Inv'
<1> SUFFICES ASSUME Inv, [Next]_vars PROVE Inv'
  OBVIOUS
<1>1. CASE \E c \in Clients : RegisterClient(c)
  BY <1>1, RegisterKeeps
<1>2. CASE \E g \in Grants : Authorize(g)
  BY <1>2, AuthorizeKeeps
<1>3. CASE \E x \in Exchanges : Call(x)
  BY <1>3, CallKeeps
<1>4. CASE \E x \in Exchanges : Work(x)
  BY <1>4, AuthenticateKeeps, SelectKeeps, CommitKeeps, IssueKeeps, ReplyKeeps DEF Work
<1>5. CASE \E k \in Credentials : Expire(k)
  BY <1>5, ExpireKeeps
<1>6. CASE Crash
  BY <1>6, CrashKeeps
<1>7. CASE UNCHANGED vars
  <2>1. UNCHANGED <<clients, auth, codes, tokens, lock, expired, told, exch, faults>>
    BY <1>7 DEF vars
  <2>2. TypeOK'
    BY <2>1 DEF Inv, TypeOK
  <2>3. \A x \in Exchanges : Holding(x)'
    BY <2>1 DEF Inv, Holding, Live
  <2>4. QED BY <2>1, <2>2, <2>3, QuietKeeps DEF Quiet
<1>8. QED BY <1>1, <1>2, <1>3, <1>4, <1>5, <1>6, <1>7 DEF Next

\* Every reachable state satisfies the invariant.
LEMMA Invariant == Spec => []Inv
BY InitInv, StepInv, PTL DEF Spec

\* Every variable keeps its type; in particular a request that goes on to issue
\* tokens knows the user it issues them for.
THEOREM TypeCorrect == Spec => []TypeOK
<1>1. Inv => TypeOK
  BY DEF Inv
<1>2. QED BY <1>1, Invariant, PTL

\* However often a code or a refresh token is presented, by however many requests
\* at a time, an authorization has at most one live credential.
THEOREM RedeemedOnce == Spec => []OneLiveCredential
<1>1. Inv => OneLiveCredential
  BY DEF Inv
<1>2. QED BY <1>1, Invariant, PTL

\* Over any number of refreshes a token is for the client and the user of the
\* authorization it descends from.
THEOREM TokensStayBound == Spec => []BoundToAuthorization
<1>1. Inv => BoundToAuthorization
  BY DEF Inv
<1>2. QED BY <1>1, Invariant, PTL

\* A token that was handed out is in the database until it is presented, whatever
\* statements fail and wherever the process dies.
THEOREM ToldTokensExist == Spec => []ToldIsRedeemable
<1>1. Inv => ToldIsRedeemable
  BY DEF Inv
<1>2. QED BY <1>1, Invariant, PTL

-----------------------------------------------------------------------------
(* Access is kept.  A credential that is taken was presented by the request *)
(* that takes it, so that request answers for the access of its            *)
(* authorization until its own token is told.                              *)

\* The token of a request descends from what the request presented.
Lineage(x) ==
  /\ tokens[x] # None => /\ tokens[x].root = exch[x].root
                         /\ tokens[x].client = exch[x].par.client
  /\ exch[x].pc \in {"issue", "reply"} =>
       /\ exch[x].par.of \in Grants => exch[x].root = exch[x].par.of
       /\ exch[x].par.of \notin Grants => exch[x].root = exch[exch[x].par.of].root

ToldGranted == \A g \in told : g \in Grants => auth[g] # None

\* Parameters are given once.
Fresh(x) == exch[x].pc = "idle" => exch[x].par = None

History == (\A x \in Exchanges : Lineage(x) /\ Fresh(x)) /\ ToldGranted

\* Authorization g is of use to its client, or was wasted.
Access(g) == \/ \E k \in LiveOf(g) : k \in told
             \/ \E x \in Presented(g) : exch[x].pc \in {"issue", "reply"} \/ Spoiled(x)

\* What no step takes back.
Onward == /\ told \subseteq told' /\ expired \subseteq expired'
          /\ \A g \in Grants : auth[g] # None => auth'[g] = auth[g]
          /\ \A x \in Exchanges : exch[x].par # None => exch'[x].par = exch[x].par
          /\ \A x \in Exchanges : x \in told => exch'[x].root = exch[x].root

\* Whoever has presented a credential of g has done so for good.
LEMMA PresentedOnce ==
  ASSUME Inv, Onward, NEW g \in Grants, NEW x \in Presented(g)
  PROVE  x \in Exchanges /\ x \in Presented(g)'
<1>1. x \in Exchanges /\ exch[x].par # None /\ exch'[x].par = exch[x].par
  BY DEF Presented, Onward
<1>2. exch[x].par.of \in told
  BY <1>1 DEF Inv, Known
<1>3. QED BY <1>1, <1>2 DEF Presented, Onward

\* What was wasted stays so.
LEMMA SpoiledForGood ==
  ASSUME Inv, History, Onward, NEW g \in Grants, NEW x \in Presented(g), Spoiled(x)
  PROVE  Spoiled(x)'
<1> DEFINE p == exch[x].par
<1>1. x \in Exchanges /\ p # None /\ exch'[x].par = p /\ p.of \in told
  BY DEF Presented, Onward, Inv, Known
<1>2. CASE p.of \in expired
  BY <1>1, <1>2 DEF Spoiled, Onward
<1>3. CASE p.of \in Grants /\ ~Accepted(p)
  <2>1. auth'[p.of] = auth[p.of]
    BY <1>1, <1>3 DEF History, ToldGranted, Onward
  <2>2. QED BY <1>1, <1>3, <2>1 DEF Spoiled, Accepted
<1>4. CASE p.of \in Exchanges /\ exch[p.of].par.client # p.client
  <2>1. exch[p.of].par # None
    BY <1>1, <1>4 DEF Inv, Known, Drawn
  <2>2. exch'[p.of].par = exch[p.of].par
    BY <1>4, <2>1 DEF Onward
  <2>3. QED BY <1>1, <1>4, <2>2 DEF Spoiled
<1>5. QED BY <1>2, <1>3, <1>4 DEF Spoiled

\* Access stays where no credential is taken and no request answers.
LEMMA AccessStays ==
  ASSUME Inv, History, Onward, NEW g \in Grants, Access(g), LiveOf(g) \subseteq LiveOf(g)',
         \A x \in Exchanges : exch[x].pc \in {"issue", "reply"}
                                => exch'[x].pc \in {"issue", "reply"}
  PROVE  Access(g)'
<1>1. CASE \E k \in LiveOf(g) : k \in told
  BY <1>1 DEF Access, Onward
<1>2. ASSUME NEW x \in Presented(g), exch[x].pc \in {"issue", "reply"} \/ Spoiled(x)
      PROVE  Access(g)'
  <2>1. x \in Exchanges /\ x \in Presented(g)'
    BY PresentedOnce
  <2>2. exch'[x].pc \in {"issue", "reply"} \/ Spoiled(x)'
    BY <1>2, <2>1, SpoiledForGood
  <2>3. QED BY <2>1, <2>2 DEF Access
<1>3. QED BY <1>1, <1>2 DEF Access

\* A step that leaves credentials alone and lets no request begin to issue.
Resting ==
  /\ UNCHANGED <<auth, codes, tokens, told>> /\ expired \subseteq expired'
  /\ \A x \in Exchanges :
       /\ exch[x].par # None => exch'[x].par = exch[x].par
       /\ exch'[x].root = exch[x].root
       /\ exch'[x].pc \in {"issue", "reply"} => exch'[x].pc = exch[x].pc
       /\ exch'[x].pc = "idle" => exch'[x] = exch[x]

\* It is onward, and no token changes its lineage.
LEMMA RestingHistory ==
  ASSUME Inv, History, Resting
  PROVE  Onward /\ History'
<1>1. Onward
  BY DEF Resting, Onward
<1>2. ASSUME NEW x \in Exchanges PROVE Lineage(x)'
  <2>1. Lineage(x) /\ tokens' = tokens /\ exch'[x].root = exch[x].root
    BY DEF History, Resting
  <2>2. tokens[x] # None => exch'[x].par = exch[x].par
    BY DEF Inv, Drawn, Known, Resting
  <2>3. CASE exch'[x].pc \in {"issue", "reply"}
    <3>1. exch[x].pc = exch'[x].pc /\ exch[x].par # None /\ exch'[x].par = exch[x].par
      BY <2>3 DEF Resting, Inv, Known
    <3>2. exch[x].par.of \in Credentials
      BY <3>1 DEF Inv, TypeOK, Known
    <3>3. exch[x].par.of \notin Grants
            => exch'[exch[x].par.of].root = exch[exch[x].par.of].root
      BY <3>2 DEF Resting, Credentials
    <3>4. QED BY <2>1, <2>2, <2>3, <3>1, <3>3 DEF Lineage
  <2>4. CASE exch'[x].pc \notin {"issue", "reply"}
    BY <2>1, <2>2, <2>4 DEF Lineage
  <2>5. QED BY <2>3, <2>4
<1>3. ToldGranted'
  BY DEF Resting, History, ToldGranted
<1>4. \A x \in Exchanges : Fresh(x)'
  BY DEF Resting, History, Fresh
<1>5. QED BY <1>1, <1>2, <1>3, <1>4 DEF History

LEMMA RestingAccess ==
  ASSUME Inv, History, AccessKept, Resting, faults' = 0 => faults = 0,
         \A x \in Exchanges : exch[x].pc \in {"issue", "reply"} => exch'[x].pc = exch[x].pc
  PROVE  AccessKept'
<1>1. Onward
  BY RestingHistory
<1>2. ASSUME NEW g \in Grants, auth'[g] # None, faults' = 0 PROVE Access(g)'
  <2>1. Access(g)
    BY <1>2 DEF AccessKept, Access, Resting
  <2>2. LiveOf(g) \subseteq LiveOf(g)'
    BY DEF Resting, LiveOf
  <2>3. QED BY <1>1, <2>1, <2>2, AccessStays
<1>3. QED BY <1>2 DEF AccessKept, Access

\* A statement that leaves the count of faults at zero went well.
LEMMA NoFault ==
  ASSUME faults \in 0 .. MaxFaults, NEW out, Outcome(out), faults' = 0
  PROVE  out = "ok" /\ faults = 0
BY OAuthAssumption DEF Outcome

\* The code of a new authorization is told once it is stored.
LEMMA AuthorizeHistory ==
  ASSUME Inv, History, AccessKept, NEW h \in Grants, Authorize(h)
  PROVE  History' /\ AccessKept'
<1>1. PICK b \in Binding, out \in Writes :
        /\ auth[h] = None /\ Outcome(out)
        /\ IF out = "err" THEN UNCHANGED <<auth, codes>>
           ELSE auth' = [auth EXCEPT ![h] = b] /\ codes' = codes \cup {h}
        /\ told' = IF out = "ok" THEN told \cup {h} ELSE told
        /\ UNCHANGED <<clients, tokens, lock, expired, exch>>
  BY DEF Authorize
<1>2. \A g \in Grants : g # h => auth'[g] = auth[g]
  BY <1>1 DEF Inv, TypeOK
<1>3. Onward
  BY <1>1, <1>2 DEF Onward
<1>4. out = "ok" => auth'[h] # None
  BY <1>1, OAuthAssumption DEF Inv, TypeOK
<1>5. History'
  <2>1. \A x \in Exchanges : Lineage(x)' /\ Fresh(x)'
    BY <1>1 DEF History, Lineage, Fresh
  <2>2. ToldGranted'
    BY <1>1, <1>2, <1>4 DEF History, ToldGranted
  <2>3. QED BY <2>1, <2>2 DEF History
<1>6. ASSUME NEW g \in Grants, auth'[g] # None, faults' = 0 PROVE Access(g)'
  <2>1. out = "ok" /\ faults = 0
    BY <1>1, <1>6, NoFault DEF Inv, TypeOK
  <2>2. codes' = codes \cup {h} /\ told' = told \cup {h}
    BY <1>1, <2>1
  <2>3. CASE g = h
    <3>1. h \in LiveOf(h)' /\ h \in told'
      BY <2>2 DEF LiveOf
    <3>2. QED BY <2>3, <3>1 DEF Access
  <2>4. CASE g # h
    <3>1. Access(g)
      BY <1>2, <1>6, <2>1, <2>4 DEF AccessKept, Access
    <3>2. LiveOf(g) \subseteq LiveOf(g)'
      BY <1>1, <2>2 DEF LiveOf
    <3>3. QED BY <1>1, <1>3, <3>1, <3>2, AccessStays
  <2>5. QED BY <2>3, <2>4
<1>7. QED BY <1>5, <1>6 DEF AccessKept, Access

\* Neither a call nor the statements before the transaction ends move anything.
LEMMA EarlyHistory ==
  ASSUME Inv, History, AccessKept, NEW x \in Exchanges,
         Call(x) \/ AuthenticateClient(x) \/ SelectForUpdate(x)
  PROVE  History' /\ AccessKept'
<1>1. /\ exch[x].pc \in {"idle", "client", "select"}
      /\ UNCHANGED <<auth, codes, tokens, told, expired>>
  BY DEF Call, AuthenticateClient, SelectForUpdate
<1>2. faults' = 0 => faults = 0
  <2>1. CASE Call(x)
    BY <2>1 DEF Call
  <2>2. CASE AuthenticateClient(x) \/ SelectForUpdate(x)
    BY <2>2, NoFault DEF AuthenticateClient, SelectForUpdate, Inv, TypeOK
  <2>3. QED BY <2>1, <2>2
<1>3. /\ \A y \in Exchanges \ {x} : exch'[y] = exch[y]
      /\ exch[x].par # None => exch'[x].par = exch[x].par
      /\ exch'[x].root = exch[x].root
      /\ exch'[x].pc \notin {"issue", "reply", "idle"}
  <2>1. CASE Call(x)
    <3>1. PICK p \in Params : exch' = [exch EXCEPT ![x].pc = "client", ![x].par = p]
      BY <2>1 DEF Call
    <3>2. exch[x] \in Exchange /\ exch[x].pc = "idle"
      BY <2>1 DEF Call, Inv, TypeOK
    <3>3. exch'[x].root = exch[x].root /\ exch'[x].pc = "client"
      BY <3>1, <3>2 DEF Inv, TypeOK, Exchange
    <3>4. \A y \in Exchanges \ {x} : exch'[y] = exch[y]
      BY <3>1 DEF Inv, TypeOK
    <3>5. exch[x].par = None
      BY <3>2 DEF History, Fresh
    <3>6. QED BY <3>3, <3>4, <3>5
  <2>2. CASE AuthenticateClient(x) \/ SelectForUpdate(x)
    <3>1. \/ Finish(x, "failed") \/ Finish(x, "rejected")
          \/ Goto(x, "select") \/ Goto(x, "commit")
      BY <2>2 DEF AuthenticateClient, SelectForUpdate
    <3>2. QED BY <3>1, FinishMoves, GotoMoves DEF Inv, InFlightPCs, Results
  <2>3. QED BY <2>1, <2>2
<1>4. Resting
  BY <1>1, <1>3 DEF Resting
<1>5. \A y \in Exchanges : exch[y].pc \in {"issue", "reply"} => exch'[y].pc = exch[y].pc
  BY <1>1, <1>3
<1>6. QED BY <1>2, <1>4, <1>5, RestingHistory, RestingAccess

\* Whoever takes a credential has presented it, and answers for it from then on.
LEMMA CommitHistory ==
  ASSUME Inv, History, AccessKept, NEW x \in Exchanges, Commit(x)
  PROVE  History' /\ AccessKept'
<1> DEFINE p == exch[x].par
           k == p.of
<1>1. /\ exch[x].pc = "commit" /\ p # None
      /\ k \in Credentials /\ k \in told /\ Live(k)
      /\ UNCHANGED <<clients, auth, expired, told>>
      /\ \A y \in Exchanges \ {x} : exch'[y] = exch[y]
      /\ exch'[x].par = p
      /\ \/ exch'[x].pc = "done" /\ (UNCHANGED <<codes, tokens>> \/ Remove(k))
         \/ exch'[x].pc = "issue" /\ exch'[x].root = RootOf(k) /\ Remove(k)
  BY CommitMoves
<1>2. x \notin told /\ tokens[x] = None /\ x # k
  BY <1>1 DEF Inv, Drawn
<1>3. Onward
  BY <1>1, <1>2 DEF Onward
<1>4. \A y \in Exchanges : tokens'[y] # None => tokens[y] # None /\ tokens'[y] = tokens[y]
  BY <1>1 DEF Remove
<1>5. k \notin Grants => /\ k \in Exchanges /\ tokens[k] # None
                         /\ tokens[k].root = exch[k].root
                         /\ tokens[k].client = exch[k].par.client
  BY <1>1 DEF Live, Credentials, History, Lineage
<1>6. ASSUME NEW y \in Exchanges PROVE Lineage(y)'
  <2>1. CASE y = x
    <3>1. exch'[x].pc \in {"done", "issue"} /\ tokens'[x] = None
      BY <1>1, <1>2, <1>4
    <3>2. CASE exch'[x].pc = "issue"
      BY <1>1, <1>2, <1>5, <2>1, <3>1, <3>2 DEF Lineage, RootOf
    <3>3. CASE exch'[x].pc = "done"
      BY <2>1, <3>1, <3>3 DEF Lineage
    <3>4. QED BY <3>1, <3>2, <3>3
  <2>2. CASE y # x
    <3>1. exch'[y] = exch[y] /\ Lineage(y)
      BY <1>1, <2>2 DEF History
    <3>2. CASE exch[y].pc \in {"issue", "reply"}
      <4>1. /\ exch[y].par # None /\ exch[y].par.of \in told
            /\ exch[y].par.of \in Credentials
        BY <3>2 DEF Inv, Known, TypeOK
      <4>2. exch[y].par.of # x
        BY <1>2, <4>1
      <4>3. exch[y].par.of \notin Grants
              => exch'[exch[y].par.of].root = exch[exch[y].par.of].root
        BY <1>1, <4>1, <4>2 DEF Credentials
      <4>4. QED BY <1>4, <3>1, <3>2, <4>3 DEF Lineage
    <3>3. CASE exch[y].pc \notin {"issue", "reply"}
      BY <1>4, <3>1, <3>3 DEF Lineage
    <3>4. QED BY <3>2, <3>3
  <2>3. QED BY <2>1, <2>2
<1>7. \A y \in Exchanges : Fresh(y)'
  BY <1>1 DEF History, Fresh
<1>8. ToldGranted'
  BY <1>1 DEF History, ToldGranted
<1>9. ASSUME NEW g \in Grants, auth'[g] # None, faults' = 0 PROVE Access(g)'
  <2>1. PICK out \in Writes :
          /\ Outcome(out)
          /\ out = "ok" => \/ k \in expired \/ ~Accepted(p)
                           \/ exch' = [exch EXCEPT ![x].pc = "issue",
                                         ![x].user = UserOf(k), ![x].root = RootOf(k)]
    BY DEF Commit
  <2>2. out = "ok" /\ faults = 0
    BY <1>9, <2>1, NoFault DEF Inv, TypeOK
  <2>3. exch'[x].pc = "issue" \/ Spoiled(x)
    <3>1. CASE k \in expired
      BY <3>1 DEF Spoiled
    <3>2. CASE ~Accepted(p)
      BY <1>1, <1>5, <3>2 DEF Spoiled, Accepted
    <3>3. CASE exch' = [exch EXCEPT ![x].pc = "issue",
                              ![x].user = UserOf(k), ![x].root = RootOf(k)]
      <4>1. exch[x] \in Exchange
        BY DEF Inv, TypeOK
      <4>2. exch'[x] = [exch[x] EXCEPT !.pc = "issue", !.user = UserOf(k),
                                       !.root = RootOf(k)]
        BY <3>3 DEF Inv, TypeOK
      <4>3. QED BY <4>1, <4>2 DEF Exchange
    <3>4. QED BY <2>1, <2>2, <3>1, <3>2, <3>3
  <2>4. Access(g)
    BY <1>1, <1>9, <2>2 DEF AccessKept, Access
  <2>5. CASE k \in LiveOf(g)
    <3>1. x \in Presented(g)
      BY <1>1, <1>5, <2>5, OAuthAssumption DEF LiveOf, Presented
    <3>2. x \in Presented(g)'
      BY <1>3, <3>1, PresentedOnce
    <3>3. exch'[x].pc = "issue" \/ Spoiled(x)'
      BY <1>3, <2>3, <3>1, SpoiledForGood
    <3>4. QED BY <3>2, <3>3 DEF Access
  <2>6. CASE k \notin LiveOf(g)
    <3>1. CASE \E j \in LiveOf(g) : j \in told
      <4>1. PICK j \in LiveOf(g) : j \in told
        BY <3>1
      <4>2. j # k
        BY <2>6, <4>1
      <4>3. j \in LiveOf(g)'
        BY <1>1, <4>1, <4>2 DEF LiveOf, Remove
      <4>4. QED BY <1>1, <4>1, <4>3 DEF Access
    <3>2. ASSUME NEW y \in Presented(g),
                 exch[y].pc \in {"issue", "reply"} \/ Spoiled(y)
          PROVE  Access(g)'
      <4>1. y \in Exchanges /\ y \in Presented(g)'
        BY <1>3, PresentedOnce
      <4>2. exch[y].pc \in {"issue", "reply"} => exch'[y].pc = exch[y].pc
        BY <1>1, <4>1
      <4>3. Spoiled(y) => Spoiled(y)'
        BY <1>3, SpoiledForGood
      <4>4. QED BY <3>2, <4>1, <4>2, <4>3 DEF Access
    <3>3. QED BY <2>4, <3>1, <3>2 DEF Access
  <2>7. QED BY <2>5, <2>6
<1>10. QED BY <1>6, <1>7, <1>8, <1>9 DEF History, AccessKept, Access

\* The successor is of the authorization that its request answers for.
LEMMA IssueHistory ==
  ASSUME Inv, History, AccessKept, NEW x \in Exchanges, IssueTokens(x)
  PROVE  History' /\ AccessKept'
<1>1. PICK out \in Writes :
        /\ exch[x].pc = "issue" /\ Outcome(out)
        /\ tokens' = IF out = "err" THEN tokens
                     ELSE [tokens EXCEPT ![x] = NewToken(x)]
        /\ IF out = "ok" THEN Goto(x, "reply") ELSE Finish(x, "failed")
        /\ UNCHANGED <<clients, auth, codes, lock, expired, told>>
  BY DEF IssueTokens
<1>2. /\ \A y \in Exchanges \ {x} : exch'[y] = exch[y]
      /\ exch'[x].par = exch[x].par /\ exch'[x].root = exch[x].root
      /\ exch'[x].pc = IF out = "ok" THEN "reply" ELSE "done"
  BY <1>1, FinishMoves, GotoMoves DEF Inv, InFlightPCs, Results
<1>3. \A y \in Exchanges : exch'[y].par = exch[y].par /\ exch'[y].root = exch[y].root
  BY <1>2
<1>4. Onward
  BY <1>1, <1>3 DEF Onward
<1>5. /\ tokens[x] = None
      /\ \A y \in Exchanges \ {x} : tokens'[y] = tokens[y]
      /\ tokens'[x] # None => tokens'[x] = NewToken(x)
  BY <1>1 DEF Inv, Drawn, TypeOK
<1>6. NewToken(x).root = exch[x].root /\ NewToken(x).client = exch[x].par.client
  BY DEF NewToken
<1>7. ASSUME NEW y \in Exchanges PROVE Lineage(y)'
  <2>1. tokens'[y] # None => /\ tokens'[y].root = exch[y].root
                             /\ tokens'[y].client = exch[y].par.client
    BY <1>5, <1>6 DEF History, Lineage
  <2>2. exch'[y].pc \in {"issue", "reply"} => exch[y].pc \in {"issue", "reply"}
    BY <1>1, <1>2
  <2>3. ASSUME exch'[y].pc \in {"issue", "reply"}
        PROVE  /\ exch[y].par.of \in Grants => exch[y].root = exch[y].par.of
               /\ exch[y].par.of \notin Grants => exch[y].root = exch[exch[y].par.of].root
               /\ exch[y].par.of \in Credentials
    BY <2>2, <2>3 DEF History, Lineage, Inv, Known, TypeOK
  <2>4. QED BY <1>3, <2>1, <2>3 DEF Lineage, Credentials
<1>8. \A y \in Exchanges : Fresh(y)'
  BY <1>1, <1>2 DEF History, Fresh
<1>9. ToldGranted'
  BY <1>1 DEF History, ToldGranted
<1>10. ASSUME NEW g \in Grants, auth'[g] # None, faults' = 0 PROVE Access(g)'
  <2>1. out = "ok" /\ faults = 0
    BY <1>1, <1>10, NoFault DEF Inv, TypeOK
  <2>2. Access(g)
    BY <1>1, <1>10, <2>1 DEF AccessKept, Access
  <2>3. LiveOf(g) \subseteq LiveOf(g)'
    BY <1>1, <1>5 DEF LiveOf
  <2>4. \A y \in Exchanges : exch[y].pc \in {"issue", "reply"}
                               => exch'[y].pc \in {"issue", "reply"}
    BY <1>2, <2>1
  <2>5. QED BY <1>4, <2>2, <2>3, <2>4, AccessStays
<1>11. QED BY <1>7, <1>8, <1>9, <1>10 DEF History, AccessKept, Access

\* The client is told a token of the authorization, and it is in the database.
LEMMA ReplyHistory ==
  ASSUME Inv, History, AccessKept, NEW x \in Exchanges, Reply(x)
  PROVE  History' /\ AccessKept'
<1>1. PICK out \in Reads :
        /\ exch[x].pc = "reply" /\ Outcome(out)
        /\ told' = IF out = "ok" THEN told \cup {x} ELSE told
        /\ Finish(x, "ok") \/ Finish(x, "unanswered")
        /\ UNCHANGED <<clients, auth, codes, tokens, lock, expired>>
  BY DEF Reply
<1>2. /\ \A y \in Exchanges \ {x} : exch'[y] = exch[y]
      /\ exch'[x].par = exch[x].par /\ exch'[x].root = exch[x].root
      /\ exch'[x].pc = "done"
  BY <1>1, FinishMoves DEF Inv, Results
<1>3. \A y \in Exchanges : exch'[y].par = exch[y].par /\ exch'[y].root = exch[y].root
  BY <1>2
<1>4. Onward
  BY <1>1, <1>3 DEF Onward
<1>5. ASSUME NEW y \in Exchanges PROVE Lineage(y)'
  <2>1. exch'[y].pc \in {"issue", "reply"} => exch[y].pc \in {"issue", "reply"}
    BY <1>2
  <2>2. exch'[y].pc \in {"issue", "reply"} => exch[y].par.of \in Credentials
    BY <2>1 DEF Inv, Known, TypeOK
  <2>3. QED BY <1>1, <1>3, <2>1, <2>2 DEF History, Lineage, Credentials
<1>6. \A y \in Exchanges : Fresh(y)'
  BY <1>2 DEF History, Fresh
<1>7. ToldGranted'
  BY <1>1, OAuthAssumption DEF History, ToldGranted
<1>8. ASSUME NEW g \in Grants, auth'[g] # None, faults' = 0 PROVE Access(g)'
  <2>1. out = "ok" /\ faults = 0
    BY <1>1, <1>8, NoFault DEF Inv, TypeOK
  <2>2. Access(g)
    BY <1>1, <1>8, <2>1 DEF AccessKept, Access
  <2>3. CASE \E k \in LiveOf(g) : k \in told
    BY <1>1, <2>3 DEF Access, LiveOf
  <2>4. ASSUME NEW y \in Presented(g), exch[y].pc \in {"issue", "reply"} \/ Spoiled(y)
        PROVE  Access(g)'
    <3>1. y \in Exchanges /\ y \in Presented(g)'
      BY <1>4, PresentedOnce
    <3>2. CASE y = x
      <4>1. exch[x].root = g
        BY <1>1, <2>4, <3>2, OAuthAssumption DEF Presented, History, Lineage
      <4>2. tokens[x] # None /\ tokens[x].root = g
        BY <1>1, <4>1 DEF Inv, Drawn, History, Lineage
      <4>3. x \in LiveOf(g)' /\ x \in told'
        BY <1>1, <2>1, <4>2 DEF LiveOf
      <4>4. QED BY <4>3 DEF Access
    <3>3. CASE y # x /\ exch[y].pc \in {"issue", "reply"}
      BY <1>2, <3>1, <3>3 DEF Access
    <3>4. CASE Spoiled(y)
      BY <1>4, <3>1, <3>4, SpoiledForGood DEF Access
    <3>5. QED BY <2>4, <3>2, <3>3, <3>4
  <2>5. QED BY <2>2, <2>3, <2>4 DEF Access
<1>9. QED BY <1>5, <1>6, <1>7, <1>8 DEF History, AccessKept, Access

LEMMA StepHistory ==
  ASSUME Inv, History, AccessKept, [Next]_vars
  PROVE  History' /\ AccessKept'
<1>1. CASE \E c \in Clients : RegisterClient(c)
  <2>1. UNCHANGED <<auth, codes, tokens, told, expired, exch, faults>>
    BY <1>1 DEF RegisterClient
  <2>2. QED BY <2>1, RestingHistory, RestingAccess DEF Resting
<1>2. CASE \E g \in Grants : Authorize(g)
  BY <1>2, AuthorizeHistory
<1>3. CASE \E x \in Exchanges : Call(x) \/ Work(x)
  BY <1>3, EarlyHistory, CommitHistory, IssueHistory, ReplyHistory DEF Work
<1>4. CASE \E k \in Credentials : Expire(k)
  <2>1. UNCHANGED <<auth, codes, tokens, told, exch, faults>> /\ expired \subseteq expired'
    BY <1>4 DEF Expire
  <2>2. QED BY <2>1, RestingHistory, RestingAccess DEF Resting
<1>5. CASE Crash
  <2>1. \A x \in Exchanges :
          \/ exch'[x] = exch[x]
          \/ /\ exch'[x].par = exch[x].par /\ exch'[x].root = exch[x].root
             /\ exch'[x].pc = "done"
    <3>1. TAKE x \in Exchanges
    <3>2. exch[x] \in Exchange
      BY DEF Inv, TypeOK
    <3>3. exch'[x] = IF exch[x].pc \in InFlightPCs
                       THEN [exch[x] EXCEPT !.pc = "done", !.result = "crashed"]
                       ELSE exch[x]
      BY <1>5 DEF Crash
    <3>4. QED BY <3>2, <3>3 DEF Exchange
  <2>2. Resting
    BY <1>5, <2>1 DEF Crash, Resting
  <2>3. faults' # 0
    <3>1. faults \in 0..MaxFaults
      BY DEF Inv, TypeOK
    <3>2. faults' = faults + 1
      BY <1>5 DEF Crash
    <3>3. QED BY <3>1, <3>2, OAuthAssumption
  <2>4. QED BY <2>2, <2>3, RestingHistory DEF AccessKept
<1>6. CASE UNCHANGED vars
  <2>1. UNCHANGED <<auth, codes, tokens, told, expired, exch, faults>>
    BY <1>6 DEF vars
  <2>2. QED BY <2>1, RestingHistory, RestingAccess DEF Resting
<1>7. QED BY <1>1, <1>2, <1>3, <1>4, <1>5, <1>6 DEF Next

\* While no statement fails and no response is lost, the client of an
\* authorization has a credential that works or a request on its way to one,
\* unless somebody presented one that had expired or was not theirs.
THEOREM AccessIsKept == Spec => []AccessKept
<1>1. Init => History /\ AccessKept
  BY DEF Init, History, Lineage, Fresh, ToldGranted, AccessKept
<1>2. Inv /\ History /\ AccessKept /\ [Next]_vars => History' /\ AccessKept'
  BY StepHistory
<1>3. QED BY <1>1, <1>2, Invariant, PTL DEF Spec

-----------------------------------------------------------------------------
(* The chain: each step of the server is a step of the chain of one        *)
(* authorization, the loss of everything held, or none.                    *)

\* The abstract state.
Born == {g \in Grants : auth[g] # None}
LiveSets == [g \in Grants |-> LiveOf(g)]
HeldSets == [g \in Grants |-> HeldOf(g)]

\* When only the sets of authorization g change, the abstract state changes at g.
LEMMA LiveAt ==
  ASSUME NEW g \in Grants, NEW S, LiveOf(g)' = S,
         \A h \in Grants \ {g} : LiveOf(h)' = LiveOf(h)
  PROVE  LiveSets' = [LiveSets EXCEPT ![g] = S]
BY DEF LiveSets

LEMMA HeldAt ==
  ASSUME NEW g \in Grants, NEW S, HeldOf(g)' = S,
         \A h \in Grants \ {g} : HeldOf(h)' = HeldOf(h)
  PROVE  HeldSets' = [HeldSets EXCEPT ![g] = S]
BY DEF HeldSets

\* A step that leaves authorizations and credentials alone, and lets no request
\* into or out of the state in which it owes a token, is none of the chain.
LEMMA ChainRests ==
  ASSUME UNCHANGED <<auth, codes, tokens>>,
         \A x \in Exchanges : /\ exch'[x].pc = "issue" <=> exch[x].pc = "issue"
                              /\ exch[x].pc = "issue" => exch'[x].root = exch[x].root
  PROVE  UNCHANGED <<Born, LiveSets, HeldSets>>
<1>1. \A g \in Grants : LiveOf(g)' = LiveOf(g) /\ HeldOf(g)' = HeldOf(g)
  BY DEF LiveOf, HeldOf
<1>2. QED BY <1>1 DEF Born, LiveSets, HeldSets

\* A request that is made, is authenticated, reads its row or is answered does not
\* move the chain.
LEMMA PreludeRests ==
  ASSUME Inv, NEW x \in Exchanges,
         Call(x) \/ AuthenticateClient(x) \/ SelectForUpdate(x) \/ Reply(x)
  PROVE  UNCHANGED <<Born, LiveSets, HeldSets>>
<1>1. /\ UNCHANGED <<auth, codes, tokens>>
      /\ exch[x].pc # "issue"
      /\ exch'[x].pc # "issue"
      /\ \A y \in Exchanges \ {x} : exch'[y] = exch[y]
  <2>1. /\ UNCHANGED <<auth, codes, tokens>> /\ exch[x].pc # "issue"
        /\ \/ \E p \in Params :
                exch' = [exch EXCEPT ![x].pc = "client", ![x].par = p]
           \/ \E res \in Results : Finish(x, res)
           \/ \E pc \in {"select", "commit"} : Goto(x, pc)
    BY DEF Call, AuthenticateClient, SelectForUpdate, Reply, Results
  <2>2. QED BY <2>1 DEF Finish, Goto, Inv, TypeOK, Exchange
<1>2. QED BY <1>1, ChainRests

\* Neither do registration and the passing of time.
LEMMA OutsideRests ==
  ASSUME \/ \E c \in Clients : RegisterClient(c)
         \/ \E k \in Credentials : Expire(k)
         \/ UNCHANGED vars
  PROVE  UNCHANGED <<Born, LiveSets, HeldSets>>
<1>1. UNCHANGED <<auth, codes, tokens, exch>>
  BY DEF RegisterClient, Expire, vars
<1>2. QED BY <1>1, ChainRests

\* A crash takes what every request holds.
LEMMA CrashLosesHeld ==
  ASSUME Inv, Crash
  PROVE  Chain!LoseHeld
<1>1. UNCHANGED <<auth, codes, tokens>> /\ \A x \in Exchanges : exch'[x].pc # "issue"
  <2>1. ASSUME NEW x \in Exchanges PROVE exch'[x].pc # "issue"
    <3>1. CASE exch[x].pc \in InFlightPCs
      BY <3>1 DEF Crash, Inv, TypeOK, Exchange
    <3>2. CASE exch[x].pc \notin InFlightPCs
      BY <3>2 DEF Crash, InFlightPCs
    <3>3. QED BY <3>1, <3>2
  <2>2. QED BY <2>1 DEF Crash
<1>2. \A g \in Grants : LiveOf(g)' = LiveOf(g) /\ HeldOf(g)' = {}
  BY <1>1 DEF LiveOf, HeldOf
<1>3. Born' = Born /\ LiveSets' = LiveSets /\ HeldSets' = [g \in Grants |-> {}]
  BY <1>1, <1>2 DEF Born, LiveSets, HeldSets
<1>4. QED BY <1>3 DEF Chain!LoseHeld, Born, LiveSets, HeldSets

\* The authorize endpoint begins a chain, or stores nothing.
LEMMA AuthorizeIssues ==
  ASSUME Inv, NEW g \in Grants, Authorize(g)
  PROVE  Chain!Issue(g) \/ UNCHANGED <<Born, LiveSets, HeldSets>>
<1>1. PICK b \in Binding :
        /\ auth[g] = None
        /\ \/ UNCHANGED <<auth, codes>>
           \/ auth' = [auth EXCEPT ![g] = b] /\ codes' = codes \cup {g}
        /\ UNCHANGED <<tokens, exch>>
  BY DEF Authorize
<1>2. CASE UNCHANGED <<auth, codes>>
  BY <1>1, <1>2, ChainRests
<1>3. CASE auth' = [auth EXCEPT ![g] = b] /\ codes' = codes \cup {g}
  <2>1. b # None /\ auth'[g] = b /\ \A h \in Grants \ {g} : auth'[h] = auth[h]
    BY <1>3, OAuthAssumption DEF Inv, TypeOK
  <2>2. Born' = Born \cup {g} /\ g \notin Born
    BY <1>1, <2>1 DEF Born
  <2>3. \A x \in Exchanges : tokens[x] # None => tokens[x].root # g
    BY <1>1 DEF Inv, BoundToAuthorization
  <2>4. LiveOf(g)' = {g}
    BY <1>1, <1>3, <2>3 DEF LiveOf
  <2>5. \A h \in Grants \ {g} : LiveOf(h)' = LiveOf(h)
    BY <1>1, <1>3 DEF LiveOf
  <2>6. LiveSets' = [LiveSets EXCEPT ![g] = {g}]
    BY <2>4, <2>5, LiveAt
  <2>7. HeldSets' = HeldSets
    BY <1>1 DEF HeldSets, HeldOf
  <2>8. QED BY <2>2, <2>6, <2>7 DEF Chain!Issue, Born, LiveSets, HeldSets
<1>4. QED BY <1>1, <1>2, <1>3

\* The end of a transaction takes the credential of the chain, loses it, or rolls
\* back.
LEMMA CommitTakes ==
  ASSUME Inv, NEW x \in Exchanges, Commit(x)
  PROVE  \/ \E g \in Grants : Chain!Take(g) \/ Chain!Lose(g)
         \/ UNCHANGED <<Born, LiveSets, HeldSets>>
<1>0. PICK k \in Credentials, g \in Grants : k = exch[x].par.of /\ g = RootOf(k)
  BY CommitMoves
<1>1. /\ exch[x].pc = "commit" /\ auth' = auth
      /\ Live(k) /\ k \in LiveOf(g)
      /\ \A y \in Exchanges \ {x} : exch'[y] = exch[y]
      /\ \/ exch'[x].pc = "done" /\ (UNCHANGED <<codes, tokens>> \/ Remove(k))
         \/ exch'[x].pc = "issue" /\ exch'[x].root = g /\ Remove(k)
  BY <1>0, CommitMoves
<1>2. Born' = Born
  BY <1>1 DEF Born
<1>3. CASE exch'[x].pc = "done" /\ UNCHANGED <<codes, tokens>>
  BY <1>1, <1>3, ChainRests
<1>4. CASE Remove(k)
  <2>1. LiveOf(g) = {k} /\ HeldOf(g) \subseteq {k}
    BY <1>1 DEF Inv, OneLiveCredential
  <2>2. HeldOf(g) = {}
    <3>1. k \notin HeldOf(g)
      BY <1>1, OAuthAssumption DEF Live, Inv, Drawn, HeldOf
    <3>2. QED BY <2>1, <3>1
  <2>3. LiveOf(g)' = {}
    BY <1>4, <2>1 DEF Remove, LiveOf
  <2>4. ASSUME NEW h \in Grants \ {g} PROVE LiveOf(h)' = LiveOf(h)
    <3>1. k \notin LiveOf(h)
      <4>1. CASE k \in Grants
        BY <1>0, <4>1, OAuthAssumption DEF RootOf, LiveOf
      <4>2. CASE k \notin Grants
        BY <1>0, <4>2 DEF RootOf, LiveOf
      <4>3. QED BY <4>1, <4>2
    <3>2. QED BY <1>4, <3>1 DEF Remove, LiveOf
  <2>5. LiveSets' = [LiveSets EXCEPT ![g] = {}]
    BY <1>1, <2>3, <2>4, LiveAt
  <2>6. CASE exch'[x].pc = "done"
    <3>1. HeldSets' = HeldSets
      BY <1>1, <2>6 DEF HeldSets, HeldOf
    <3>2. Chain!Lose(g)
      BY <1>2, <2>5, <3>1 DEF Chain!Lose, Born, LiveSets, HeldSets
    <3>3. QED BY <1>1, <3>2
  <2>7. CASE exch'[x].pc = "issue" /\ exch'[x].root = g
    <3>1. HeldOf(g)' = {x}
      BY <1>1, <2>2, <2>7 DEF HeldOf
    <3>2. \A h \in Grants \ {g} : HeldOf(h)' = HeldOf(h)
      BY <1>1, <2>7 DEF HeldOf
    <3>3. HeldSets' = [HeldSets EXCEPT ![g] = {x}]
      BY <1>1, <3>1, <3>2, HeldAt
    <3>4. LiveSets[g] = {k} /\ HeldSets[g] = {} /\ k \in {g} \cup Exchanges
      BY <1>1, <2>1, <2>2 DEF LiveSets, HeldSets, LiveOf
    <3>5. Chain!Take(g)
      BY <1>2, <2>5, <3>3, <3>4 DEF Chain!Take, Born, LiveSets, HeldSets
    <3>6. QED BY <1>1, <3>5
  <2>8. QED BY <1>1, <2>6, <2>7
<1>5. QED BY <1>1, <1>3, <1>4

\* The INSERT renews the chain, or loses what the request held.
LEMMA IssueRenews ==
  ASSUME Inv, NEW x \in Exchanges, IssueTokens(x)
  PROVE  \E g \in Grants : Chain!Renew(g) \/ Chain!Lose(g)
<1>0. PICK g \in Grants : g = exch[x].root
  BY DEF IssueTokens, Inv, Issuing
<1>1. /\ exch[x].pc = "issue" /\ UNCHANGED <<auth, codes>>
      /\ g = exch[x].root
      /\ \A y \in Exchanges \ {x} : exch'[y] = exch[y]
      /\ exch'[x].pc # "issue"
      /\ tokens' = tokens \/ tokens' = [tokens EXCEPT ![x] = NewToken(x)]
  <2>1. /\ exch[x].pc = "issue" /\ UNCHANGED <<auth, codes>>
        /\ tokens' = tokens \/ tokens' = [tokens EXCEPT ![x] = NewToken(x)]
        /\ Finish(x, "failed") \/ Goto(x, "reply")
    BY DEF IssueTokens
  <2>2. QED BY <1>0, <2>1, FinishMoves, GotoMoves DEF Inv, InFlightPCs, Results
<1>2. x \in HeldOf(g) /\ tokens[x] = None
  BY <1>1 DEF HeldOf, Inv, Drawn
<1>3. HeldOf(g) = {x} /\ LiveOf(g) = {}
  <2>1. HeldOf(g) = {x} /\ LiveOf(g) \subseteq {x}
    BY <1>1, <1>2 DEF Inv, OneLiveCredential
  <2>2. x \notin LiveOf(g)
    BY <1>2, OAuthAssumption DEF LiveOf
  <2>3. QED BY <2>1, <2>2
<1>4. Born' = Born
  BY <1>1 DEF Born
<1>5. HeldSets' = [HeldSets EXCEPT ![g] = {}]
  <2>1. HeldOf(g)' = {}
    BY <1>1, <1>3 DEF HeldOf
  <2>2. \A h \in Grants \ {g} : HeldOf(h)' = HeldOf(h)
    BY <1>1 DEF HeldOf
  <2>3. QED BY <1>1, <2>1, <2>2, HeldAt
<1>6. CASE tokens' = tokens
  <2>1. LiveSets' = LiveSets
    BY <1>1, <1>6 DEF LiveSets, LiveOf
  <2>2. Chain!Lose(g)
    BY <1>4, <1>5, <2>1 DEF Chain!Lose, Born, LiveSets, HeldSets
  <2>3. QED BY <1>1, <2>2
<1>7. CASE tokens' = [tokens EXCEPT ![x] = NewToken(x)]
  <2>1. tokens'[x].root = g /\ tokens'[x] # None
    <3>1. exch[x] \in Exchange /\ exch[x].par # None /\ auth[g] \in Binding
      BY <1>1 DEF Inv, TypeOK, Known, Issuing
    <3>2. exch[x].user \in Users
      BY <1>1, <3>1 DEF Inv, Issuing, Binding
    <3>3. NewToken(x) \in Token
      <4>1. exch[x].par \in Params
        BY <3>1 DEF Exchange
      <4>2. exch[x].par.client \in Clients
        BY <4>1 DEF Params
      <4>3. QED BY <1>0, <3>2, <4>2 DEF NewToken, Token
    <3>4. tokens'[x] = NewToken(x)
      BY <1>7 DEF Inv, TypeOK
    <3>5. NewToken(x).root = g /\ NewToken(x) # None
      BY <1>0, <3>3, OAuthAssumption DEF NewToken
    <3>6. QED BY <3>4, <3>5
  <2>2. \A y \in Exchanges \ {x} : tokens'[y] = tokens[y]
    BY <1>7 DEF Inv, TypeOK
  <2>3. LiveOf(g)' = {x}
    BY <1>1, <1>3, <2>1, <2>2 DEF LiveOf
  <2>4. \A h \in Grants \ {g} : LiveOf(h)' = LiveOf(h)
    BY <1>1, <1>2, <2>1, <2>2 DEF LiveOf
  <2>5. LiveSets' = [LiveSets EXCEPT ![g] = {x}]
    BY <1>1, <2>3, <2>4, LiveAt
  <2>6. LiveSets[g] = {} /\ HeldSets[g] = {x}
    BY <1>1, <1>3 DEF LiveSets, HeldSets
  <2>7. Chain!Renew(g)
    BY <1>4, <1>5, <2>5, <2>6 DEF Chain!Renew, Born, LiveSets, HeldSets
  <2>8. QED BY <1>1, <2>7
<1>8. QED BY <1>1, <1>6, <1>7

-----------------------------------------------------------------------------

\* Before the first request no chain has begun.
LEMMA InitChain == Init => Chain!Init
BY DEF Init, Chain!Init, LiveOf, HeldOf

\* Every step is a step of the chain or none.
LEMMA StepChain ==
  ASSUME Inv, [Next]_vars
  PROVE  Chain!Next \/ UNCHANGED <<Born, LiveSets, HeldSets>>
<1>1. CASE \/ \E c \in Clients : RegisterClient(c)
           \/ \E k \in Credentials : Expire(k)
           \/ UNCHANGED vars
  BY <1>1, OutsideRests
<1>2. CASE \E g \in Grants : Authorize(g)
  BY <1>2, AuthorizeIssues DEF Chain!Next
<1>3. CASE \E x \in Exchanges : Call(x) \/ Work(x)
  BY <1>3, PreludeRests, CommitTakes, IssueRenews DEF Work, Chain!Next
<1>4. CASE Crash
  BY <1>4, CrashLosesHeld DEF Chain!Next
<1>5. QED BY <1>1, <1>2, <1>3, <1>4 DEF Next

\* The authorization server implements the chain of one credential: whatever is
\* presented, in whatever order and however often, and whatever fails on the way.
THEOREM ServerIsChain == Spec => ImplementsChain
<1>1. Inv /\ [Next]_vars =>
        [Chain!Next]_<<{g \in Grants : auth[g] # None},
                       [g \in Grants |-> LiveOf(g)], [g \in Grants |-> HeldOf(g)]>>
  BY StepChain DEF Born, LiveSets, HeldSets
<1>2. QED BY InitChain, <1>1, Invariant, PTL DEF Spec, ImplementsChain, Chain!Spec

=============================================================================
