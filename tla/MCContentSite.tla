--------------------------- MODULE MCContentSite ---------------------------
(***************************************************************************)
(* Instances of ContentSite for TLC: a visitor of one site whose owner      *)
(* encrypts, rotates, opens and replaces it, one request after the other.  *)
(***************************************************************************)
EXTENDS ContentSite, TLC

CONSTANTS r1, r2, r3, s1, o1, p1, p2, a, b, upperA, title, v1

MCRequests == {r1, r2, r3}
MCSlugs == {s1}
MCOwners == {o1}
MCPassphrases == {p1, p2}
MCPaths == {a, b, upperA}
MCFields == {title}
MCVisitors == {v1}
\* a and upperA are one path to the collation.
MCCanon == a :> a @@ b :> b @@ upperA :> a
Exact == {a, b}
OtherCase == {upperA}

Page == [paths |-> <<a>>, ok |-> TRUE]
Create(pass) ==
  [op |-> "create", slug |-> s1, owner |-> o1, pass |-> pass, newpass |-> None,
   remove |-> FALSE, sets |-> MCFields, upload |-> Page]
Update(pass, newpass, remove, u) ==
  [op |-> "update", slug |-> s1, owner |-> o1, pass |-> pass,
   newpass |-> newpass, remove |-> remove, sets |-> {}, upload |-> u]
Delete == [op |-> "delete", slug |-> s1, owner |-> o1, pass |-> None,
           newpass |-> None, remove |-> FALSE, sets |-> {}, upload |-> None]

\* The third replaces the files of an encrypted entry; on a public one it also
\* encrypts it.
Changes == {Update(p1, p2, FALSE, None), Update(p1, None, FALSE, None),
            Update(p1, None, FALSE, Page), Update(p1, None, TRUE, None)}
SitePlans == r1 :> {Create(None), Create(p1)}
             @@ r2 :> (Changes \cup {Delete})
             @@ r3 :> (Changes \cup {Update(p2, p1, FALSE, None), Create(p2)})
SpellingPlans == [r \in MCRequests |-> {Create(p1)}]

=============================================================================
