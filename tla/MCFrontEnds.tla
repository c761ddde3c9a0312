----------------------------- MODULE MCFrontEnds -----------------------------
(***************************************************************************)
(* An instance of FrontEnds for TLC: forms of every front end, sent one     *)
(* after the other.                                                        *)
(***************************************************************************)
EXTENDS FrontEnds, TLC

CONSTANTS r1, r2, r3, r4, s1, bad, o1, o2, p1, p2, a, b, title, creator

MCRequests == {r1, r2, r3, r4}
MCSlugs == {s1, bad}
MCValidSlugs == {s1}
MCOwners == {o1, o2}
MCPassphrases == {p1, p2}
MCPaths == {a, b}
MCFields == {title, creator}

\* Uploads: one page, a two-file archive, an archive that breaks off after its
\* first file, an archive with nothing to store.
Page   == [paths |-> <<a>>, ok |-> TRUE]
Site   == [paths |-> <<a, b>>, ok |-> TRUE]
Broken == [paths |-> <<a>>, ok |-> FALSE]
Empty  == [paths |-> <<>>, ok |-> TRUE]

\* A form of owner o1 with nothing filled in.
Blank(via, op) ==
  [via |-> via, op |-> op, slug |-> s1, owner |-> o1, readable |-> TRUE, given |-> {},
   pass |-> None, confirm |-> None, newpass |-> None, newconfirm |-> None,
   remove |-> FALSE, uploads |-> {}, empty |-> FALSE]
Create(via, p, u) == [Blank(via, "create") EXCEPT !.pass = p, !.confirm = p, !.uploads = u]
Rotate(via, u)    == [Blank(via, "update") EXCEPT !.pass = p1, !.newpass = p2,
                                                  !.newconfirm = p2, !.uploads = u]
Encrypt(via, u)   == [Blank(via, "update") EXCEPT !.pass = p1, !.uploads = u]
Decrypt(via, u)   == [Blank(via, "update") EXCEPT !.pass = p1, !.remove = TRUE, !.uploads = u]
Edit(via, x)      == [Blank(via, "update") EXCEPT !.given = {x}]

Firsts  == {Create("api", None, {Site}), Create("web", p1, {Site}),
            [Create("web", p1, {Page}) EXCEPT !.empty = TRUE],
            [Create("mcp", None, {Page}) EXCEPT !.slug = bad],
            [Create("web", p1, {Site}) EXCEPT !.confirm = p2],
            [Rotate("web", {}) EXCEPT !.newconfirm = p1],
            Encrypt("mcp", {Page, Site}), [Blank("mcp", "update") EXCEPT !.slug = None],
            [Create("api", p1, {Page}) EXCEPT !.readable = FALSE]}
Changes == {Edit("api", title), Blank("mcp", "delete"),
            [Create("api", p2, {Broken}) EXCEPT !.owner = o2],
            [Blank("mcp", "update") EXCEPT !.pass = p2, !.newpass = p1, !.given = {title}],
            [Rotate("api", {Site}) EXCEPT !.empty = TRUE], Rotate("web", {Broken}),
            Encrypt("mcp", {}), Encrypt("api", {Page}),
            Decrypt("mcp", {}), Decrypt("web", {Page}),
            [Encrypt("web", {Page}) EXCEPT !.readable = FALSE],
            [Encrypt("api", {Page}) EXCEPT !.readable = FALSE]}
Lasts   == {Rotate("mcp", {}), [Decrypt("web", {}) EXCEPT !.newpass = p2, !.newconfirm = p2],
            Encrypt("api", {Empty})}
MCForms == [r \in MCRequests |-> CASE r = r1 -> Firsts [] r = r4 -> Lasts
                                   [] OTHER -> Changes]

\* The calls these forms may make.
MCPlans == [r \in MCRequests |-> {Translated(f) : f \in MCForms[r]} \ {None}]

=============================================================================
