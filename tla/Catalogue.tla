----------------------------- MODULE Catalogue ------------------------------
(***************************************************************************)
(* What the content service promises callers that take turns at a slug:     *)
(* each call is one step.  It publishes, edits or withdraws a whole entry,  *)
(* or is refused for a reason and changes nothing; what it did stays done.  *)
(* Only a call that fails may leave its entry half-way: nothing is promised *)
(* about that one any more, and all others are as they were.                *)
(***************************************************************************)
EXTENDS Naturals, Sequences

CONSTANTS
  Requests,    \* the calls
  Plans,       \* Plans[r]: what r may ask for
  ValidSlugs,  \* the slugs an entry may be published under
  Fields,      \* the metadata of an entry
  None

VARIABLES
  asked,   \* asked[r]: what r asked for
  answer,  \* answer[r]: what became of it
  shelf,   \* shelf[c]: the entry that call c published
  lost     \* entries of calls that failed

\* An entry: the calls its metadata come from, the passphrase it is read with,
\* and its files, each by the call that uploaded it and its number.
Uploaded(r) == {r} \X (1 .. Len(asked[r].upload.paths))

Published(r) == [meta |-> [f \in Fields |-> r], pass |-> asked[r].pass,
                 pages |-> Uploaded(r)]

\* The passphrase of an entry after an edit.
NextPass(p, pass) == IF pass = None THEN p.pass
                     ELSE IF p.remove THEN None
                     ELSE IF p.newpass # None THEN p.newpass ELSE pass

\* An edit is forbidden when it changes the passphrase or the files of an entry
\* without the passphrase it is under, or that of an entry without one.
Forbidden(p, pass) ==
  IF pass = None THEN p.remove \/ p.newpass # None
  ELSE p.pass # pass /\ (p.remove \/ p.newpass # None \/ p.upload # None)

Edited(r, entry) ==
  LET p == asked[r] IN
  [meta |-> [f \in Fields |-> IF f \in p.sets THEN r ELSE entry.meta[f]],
   pass |-> NextPass(p, entry.pass),
   pages |-> IF p.upload = None THEN entry.pages ELSE Uploaded(r)]

\* The entries at a slug, those the caller of r owns, and those that may be there.
Named(slug) == {c \in Requests : shelf[c] # None /\ asked[c].slug = slug}
Unsure(slug) == {c \in lost : asked[c].slug = slug}
Mine(r) == {c \in Named(asked[r].slug) : asked[c].owner = asked[r].owner}

Init == /\ asked = [r \in Requests |-> None]
        /\ answer = [r \in Requests |-> "none"]
        /\ shelf = [c \in Requests |-> None]
        /\ lost = {}

Ask(r) ==
  /\ asked[r] = None /\ asked'[r] \in Plans[r]
  /\ asked' = [asked EXCEPT ![r] = asked'[r]]
  /\ answer' = IF asked'[r].op = "create" /\ asked'[r].slug \notin ValidSlugs
               THEN [answer EXCEPT ![r] = "refused"] ELSE answer
  /\ UNCHANGED <<shelf, lost>>

Asks(r, op) == /\ asked[r] # None /\ asked[r].op = op
               /\ answer[r] = "none"

\* The call takes effect, now or a while before it is answered.
Takes(r) == /\ \E a \in {"working", "ok"} : answer' = [answer EXCEPT ![r] = a]
            /\ UNCHANGED <<asked, lost>>

Publish(r) == /\ Asks(r, "create") /\ Named(asked[r].slug) = {}
              /\ shelf' = [shelf EXCEPT ![r] = Published(r)]
              /\ Takes(r)

Edit(r) == /\ Asks(r, "update")
           /\ \E c \in Mine(r) :
                /\ ~Forbidden(asked[r], shelf[c].pass)
                /\ shelf' = [shelf EXCEPT ![c] = Edited(r, shelf[c])]
           /\ Takes(r)

Withdraw(r) == /\ Asks(r, "delete")
               /\ \E c \in Mine(r) : shelf' = [shelf EXCEPT ![c] = None]
               /\ Takes(r)

\* The call works on what a failed one left behind.
Salvage(r) == /\ Asks(r, "update") \/ Asks(r, "delete")
              /\ Named(asked[r].slug) = {} /\ Unsure(asked[r].slug) # {}
              /\ Takes(r) /\ UNCHANGED shelf

Refuse(r) ==
  /\ \/ Asks(r, "create") /\ Named(asked[r].slug) \cup Unsure(asked[r].slug) # {}
     \/ Asks(r, "update") /\ \A c \in Mine(r) : Forbidden(asked[r], shelf[c].pass)
     \/ Asks(r, "delete") /\ Mine(r) = {}
  /\ answer' = [answer EXCEPT ![r] = "refused"]
  /\ UNCHANGED <<asked, shelf, lost>>

Reply(r) == /\ answer[r] = "working"
            /\ answer' = [answer EXCEPT ![r] = "ok"]
            /\ UNCHANGED <<asked, shelf, lost>>

\* What r may leave half-way: the entry it was publishing, or its caller's.
Risks(r) == IF asked[r].op = "create" THEN {r} ELSE Mine(r)

Open == {r \in Requests : asked[r] # None /\ answer[r] \in {"none", "working"}}

\* Calls that are not answered yet fail, several at once in a crash.
Fail(some) ==
  /\ answer' = [r \in Requests |-> IF r \in some THEN "failed" ELSE answer[r]]
  /\ \E gone \in SUBSET UNION {Risks(r) : r \in some} :
       /\ shelf' = [c \in Requests |-> IF c \in gone THEN None ELSE shelf[c]]
       /\ lost' = lost \cup gone
  /\ UNCHANGED asked

Next == \/ \E r \in Requests : \/ Ask(r) \/ Publish(r) \/ Edit(r) \/ Withdraw(r)
                               \/ Salvage(r) \/ Refuse(r) \/ Reply(r)
        \/ \E some \in SUBSET Open : Fail(some)

Spec == Init /\ [][Next]_<<asked, answer, shelf, lost>>

=============================================================================
