-------------------------- MODULE MCContentService --------------------------
(***************************************************************************)
(* Instances of ContentService for TLC: the calls the requests of each run *)
(* may make.                                                               *)
(***************************************************************************)
EXTENDS ContentService, TLC

CONSTANTS r1, r2, r3, s1, o1, o2, p1, p2, a, b, title, creator

MCRequests == {r1, r2, r3}
MCSlugs == {s1}
MCOwners == {o1, o2}
MCPassphrases == {p1, p2}
MCPaths == {a, b}
MCFields == {title, creator}

\* Uploads: one page, a two-file archive, an archive that breaks off
\* after its first file.
Page    == [paths |-> <<a>>, ok |-> TRUE]
Site    == [paths |-> <<a, b>>, ok |-> TRUE]
Broken  == [paths |-> <<a>>, ok |-> FALSE]

Create(s, o, pass, u) ==
  [op |-> "create", slug |-> s, owner |-> o, pass |-> pass, newpass |-> None,
   remove |-> FALSE, sets |-> Fields, upload |-> u]
Update(o, pass, newpass, remove, sets, u) ==
  [op |-> "update", slug |-> s1, owner |-> o, pass |-> pass,
   newpass |-> newpass, remove |-> remove, sets |-> sets, upload |-> u]
Delete(o) ==
  [op |-> "delete", slug |-> s1, owner |-> o, pass |-> None, newpass |-> None,
   remove |-> FALSE, sets |-> {}, upload |-> None]

\* Every update the encryption rules tell apart, on an entry under p1 or public.
Rotate(u)  == Update(o1, p1, p2, FALSE, {}, u)
Encrypt(u) == Update(o1, p1, None, FALSE, {}, u)
Decrypt(u) == Update(o1, p1, None, TRUE, {}, u)
Edit(f)    == Update(o1, None, None, FALSE, {f}, None)

\* Calls that overlap: creates of one slug by two users, and changes of every
\* kind by either.
Creates == {Create(s1, o1, None, Page), Create(s1, o1, p1, Site)}
Changes == {Rotate(None), Encrypt(Site), Decrypt(None), Edit(title), Delete(o1),
            Update(o2, None, None, FALSE, {}, Page), Delete(o2)}
Rivals  == {Create(s1, o2, None, Broken), Create(s1, o2, p2, Page),
            Update(o1, None, None, FALSE, {creator}, Broken)}
OverlapPlans == r1 :> Creates @@ r2 :> Changes
                @@ r3 :> (Rivals \cup Changes)

\* A public entry that is encrypted while its files are replaced.
TornPlans == r1 :> {Create(s1, o1, None, Page)} @@ r2 :> {Encrypt(Site)}
             @@ r3 :> {Edit(title), Decrypt(None)}

\* An encrypted entry on which a rotation and an upload overlap.
RacePlans == r1 :> {Create(s1, o1, p1, Page)} @@ r2 :> {Rotate(None)}
             @@ r3 :> {Encrypt(Site)}

\* Two edits of different fields overlap.
EditPlans == r1 :> {Create(s1, o1, None, Page)} @@ r2 :> {Edit(title)}
             @@ r3 :> {Edit(creator), Create(s1, o2, None, Page)}

=============================================================================
