----------------------------- MODULE MCSessions -----------------------------
(***************************************************************************)
(* Instances of Sessions for TLC.                                          *)
(***************************************************************************)
EXTENDS Sessions, TLC

CONSTANTS b1, b2, alice, r1, r2, r3

OneBrowser == {b1}
TwoBrowsers == {b1, b2}
OneUser == {alice}
ThreeRequests == {r1, r2, r3}

\* Requests are interchangeable.
RequestSymmetry == Permutations(ThreeRequests)

=============================================================================
