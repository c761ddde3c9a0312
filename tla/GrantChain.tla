----------------------------- MODULE GrantChain -----------------------------
(***************************************************************************)
(* What the authorization server promises of one authorization, whatever   *)
(* clients do with its code and refresh tokens: there is one credential at  *)
(* a time.  It is born once, it is traded by one exchange at a time for     *)
(* its successor, and once lost it never comes back.                        *)
(***************************************************************************)

CONSTANTS
  Grants,    \* authorizations, each the name of its code
  Exchanges  \* trades, each the name of the refresh token it yields

VARIABLES
  born,  \* the authorizations a code was stored for
  live,  \* live[g]: the credentials of g in the database
  held   \* held[g]: the exchanges that took a credential of g and owe a new one

Init == /\ born = {}
        /\ live = [g \in Grants |-> {}]
        /\ held = [g \in Grants |-> {}]

Issue(g) == /\ g \notin born
            /\ born' = born \cup {g}
            /\ live' = [live EXCEPT ![g] = {g}]
            /\ UNCHANGED held

\* One exchange takes the one credential.
Take(g) == /\ \E k \in {g} \cup Exchanges : live[g] = {k}
           /\ held[g] = {}
           /\ live' = [live EXCEPT ![g] = {}]
           /\ \E x \in Exchanges : held' = [held EXCEPT ![g] = {x}]
           /\ UNCHANGED born

\* The exchange that took it stores the successor.
Renew(g) == /\ live[g] = {}
            /\ \E x \in Exchanges : /\ held[g] = {x}
                                    /\ live' = [live EXCEPT ![g] = {x}]
            /\ held' = [held EXCEPT ![g] = {}]
            /\ UNCHANGED born

\* The credential is gone, at once or in the hands of the exchange.
Lose(g) == /\ \/ live' = [live EXCEPT ![g] = {}] /\ UNCHANGED held
              \/ held' = [held EXCEPT ![g] = {}] /\ UNCHANGED live
           /\ UNCHANGED born

\* The process dies: every exchange loses what it holds.
LoseHeld == /\ held' = [g \in Grants |-> {}]
            /\ UNCHANGED <<born, live>>

Next == (\E g \in Grants : Issue(g) \/ Take(g) \/ Renew(g) \/ Lose(g)) \/ LoseHeld

Spec == Init /\ [][Next]_<<born, live, held>>

=============================================================================
