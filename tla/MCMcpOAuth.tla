----------------------------- MODULE MCMcpOAuth -----------------------------
(***************************************************************************)
(* Instances of McpOAuth for TLC.                                          *)
(***************************************************************************)
EXTENDS McpOAuth

CONSTANTS c1, c2, alice, bob, u, k1, g1, x1, x2

TwoClients == {c1, c2}
TwoUsers == {alice, bob}
OneUri == {u}
OneVerifier == {k1}
OneGrant == {g1}
TwoExchanges == {x1, x2}

=============================================================================
