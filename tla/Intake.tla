-------------------------------- MODULE Intake --------------------------------
(***************************************************************************)
(* The way of a request into the server (cmd/server/main.go): the rate     *)
(* limiter in front of every route but the excluded ones, then the         *)
(* handler, which competes for connections and key derivations.            *)
(***************************************************************************)
EXTENDS RateLimiter, Capacity

vars == <<visitors, tokens, idle, at, using, stale, spent, extra,
          kind, stage, left, held, free, queue, inside>>

\* What the REST API, /s/ and /unlock/ offer is limited.  The web pages, /mcp,
\* /oauth/ and /actuator are among the excluded routes: /upload, /edit/, /delete/,
\* /dashboard and the tools call the service without a limit.
Limited == {"serve", "unlock", "create", "edit", "delete", "list", "encrypt", "rotate",
            "replace"}
Spared  == {"create", "edit", "delete", "list", "encrypt", "rotate", "replace", "token",
            "health"}

Init == LimiterInit /\ CapacityInit

\* The handler runs once the limiter has let the request through, at once on
\* the routes without it.
Arrive(r) == /\ at[r] = "idle" /\ stage[r] = "out"
             /\ \/ kind[r] \in Limited /\ Enter(r) /\ UNCHANGED capacityVars
                \/ kind[r] \in Spared /\ Start(r) /\ UNCHANGED limiterVars
Limits(r) == \/ Lookup(r) /\ UNCHANGED capacityVars
             \/ Insert(r) /\ UNCHANGED capacityVars
             \/ Touch(r) /\ UNCHANGED capacityVars
             \/ /\ Allow(r)
                /\ IF at'[r] = "passed" THEN Start(r) ELSE UNCHANGED capacityVars

\* What the handler does by itself, but for a derivation.
Works(r) == /\ Take(r) \/ Give(r) \/ Join(r)
            /\ UNCHANGED limiterVars
Derives(r) == Leave(r) /\ UNCHANGED limiterVars

\* The runtime ends the process under every call.
Fatal == LimiterFatal /\ CapacityCrash

Next == \/ \E r \in Requests : \/ Arrive(r) \/ Limits(r) \/ Works(r) \/ Derives(r)
                               \/ /\ Return(r) \/ Disconnect(r)
                                  /\ UNCHANGED limiterVars
        \/ (Clean \/ Tick) /\ UNCHANGED capacityVars
        \/ Fatal

Spec == Init /\ [][Next]_vars

\* Goroutines that can run do run.  That derivations end is not assumed.
Fairness == \A r \in Requests : WF_vars(Limits(r) \/ Works(r))

FairSpec == Spec /\ Fairness

-----------------------------------------------------------------------------
(* Properties.                                                             *)

TypeOK == LimiterTypeOK /\ CapacityTypeOK

Answered(r) == at[r] \in {"refused", "crashed"} \/ stage[r] \in {"over", "crashed"}

\* Files, token requests and health probes are answered even if no derivation
\* ever ends: those who queue for one hold no connection.
PlainAnswered ==
  \A r \in Requests : kind[r] \in Plain /\ (at[r] = "lookup" \/ stage[r] = "in")
                        ~> Answered(r)

\* If derivations end, every request is answered: the pool, the queue and the
\* limiter never wait for each other.
EveryRequestAnswered ==
  (\A r \in Requests : WF_vars(Derives(r)))
    => \A r \in Requests : (at[r] = "lookup" \/ stage[r] = "in") ~> Answered(r)

=============================================================================
