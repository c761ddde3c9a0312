------------------------------- MODULE MCIntake -------------------------------
(***************************************************************************)
(* Instances of Intake for TLC: requests from one IP, behind a proxy.  For *)
(* the handlers a rotation and a call of another kind beside one that      *)
(* derives no key; for the limiter three visitors.                         *)
(***************************************************************************)
EXTENDS Intake, TLC

CONSTANTS r1, r2, r3, here, proxy, port

MCRequests == {r1, r2, r3}
MCIps == {here, proxy}
MCPorts == {port}
Connections == [r \in MCRequests |-> <<proxy, port>>]
Proxied == [r \in MCRequests |-> here]

Three(a, b, c) == r1 :> a @@ r2 :> b @@ r3 :> c
Mixed == {Three("rotate", "unlock", "token"), Three("rotate", "create", "health"),
          Three("serve", "serve", "serve")}
Visits == {Three("serve", "serve", "serve")}

=============================================================================
