------------------------------- MODULE Capacity -------------------------------
(***************************************************************************)
(* What requests compete for: the connections of the database pool         *)
(* (cmd/server/main.go) and the key derivations that may run at once       *)
(* (internal/crypto/crypto.go).  A call is a program of four operations: it *)
(* takes a connection for a statement, a result set or a transaction, gives *)
(* it back, joins the queue for a derivation, and leaves it.  The programs *)
(* are the calls of the content service and of the token endpoint.         *)
(***************************************************************************)
EXTENDS Integers, Sequences, FiniteSets, Arrivals

CONSTANTS
  Mixes,  \* the calls that requests make beside each other
  Conns,  \* SetMaxOpenConns, less one that the migration driver never gives back
  Slots   \* kdfConcurrency

Kinds == {"serve", "unlock", "create", "edit", "delete", "list", "encrypt", "rotate",
          "replace", "token", "health"}

ASSUME CapacityAssumption ==
  /\ Mixes \subseteq [Requests -> Kinds]
  /\ Conns \in Nat \ {0} /\ Slots \in Nat \ {0}

\* One statement outside a transaction, one result set that is read to its end
\* and closed, or one transaction: a connection for as long as it lasts.
Statement == <<"take", "give">>
Derivation == <<"join", "leave">>

\* GetContentFile; when there is no such file, GetContentBySlug as well.
ServeCall == Statement \o Statement

\* GetContentBySlug, then Unwrap.
UnlockCall == Statement \o Derivation

\* SlugExists, NewEnvelope, CreateContent, CreateContentFile, ListFilePaths.
CreateCall == Statement \o Derivation \o Statement \o Statement \o Statement

\* Mutant of RotateCall: the new key is derived inside the transaction.
RotateCallHolding ==
  Statement \o Derivation \o Statement \o <<"take", "join", "leave", "give">>
    \o Statement \o Statement

\* ownedContent, UpdateContent, ListFilePaths: no encryption, no upload.
EditCall == Statement \o Statement \o Statement

\* ownedContent, DeleteContent.
DeleteCall == Statement \o Statement

\* The two SELECTs of ListContentByOwner, and ListFilePaths of an entry.
ListCall == Statement \o Statement \o Statement

\* ownedContent, NewEnvelope, ListContentFiles, ApplyEncryption, UpdateContent,
\* ListFilePaths.  To remove the encryption is the same, with Unwrap.
EncryptCall == Statement \o Derivation \o Statement \o Statement \o Statement
                 \o Statement

\* ownedContent, Unwrap, NewEnvelope, ApplyEncryption, UpdateContent,
\* DeleteContentFiles, CreateContentFile, ListFilePaths: a rotation with an upload.
ReplaceCall == Statement \o Derivation \o Derivation \o Statement \o Statement
                 \o Statement \o Statement \o Statement

\* ownedContent, Unwrap, NewEnvelope, ListContentFiles, ApplyEncryption,
\* UpdateContent, ListFilePaths.
RotateCall == Statement \o Derivation \o Derivation \o Statement \o Statement
                \o Statement \o Statement

\* GetOAuthClient, ConsumeRefreshToken, CreateRefreshToken.
TokenCall == Statement \o Statement \o Statement

\* Ping.
HealthCall == Statement

Calls == [k \in Kinds |->
            CASE k = "serve" -> ServeCall [] k = "unlock" -> UnlockCall
              [] k = "create" -> CreateCall [] k = "edit" -> EditCall
              [] k = "delete" -> DeleteCall [] k = "list" -> ListCall
              [] k = "encrypt" -> EncryptCall [] k = "rotate" -> RotateCall
              [] k = "replace" -> ReplaceCall [] k = "token" -> TokenCall
              [] k = "health" -> HealthCall]

\* The calls that never derive a key.
Plain == {"serve", "edit", "delete", "list", "token", "health"}

VARIABLES
  kind,   \* kind[r]: the call request r makes
  stage,  \* "out", then "in" until the call is "over" or the process "crashed"
  left,   \* left[r]: what is left of the program of r
  held,   \* held[r]: the connections r holds
  free,   \* connections that can still be taken
  queue,  \* who waits for a derivation, first come first served
  inside  \* who derives

capacityVars == <<kind, stage, left, held, free, queue, inside>>

CapacityInit == /\ kind \in Mixes
                /\ stage = [r \in Requests |-> "out"]
                /\ left = [r \in Requests |-> <<>>]
                /\ held = [r \in Requests |-> 0]
                /\ free = Conns
                /\ queue = <<>> /\ inside = {}

-----------------------------------------------------------------------------

\* The call begins.
Start(r) ==
  /\ stage[r] = "out"
  /\ left' = [left EXCEPT ![r] = Calls[kind[r]]]
  /\ stage' = [stage EXCEPT ![r] = "in"]
  /\ UNCHANGED <<kind, held, free, queue, inside>>

\* The next operation of r; the call is over after the last one.
Does(r, op) ==
  /\ stage[r] = "in" /\ left[r] # <<>> /\ Head(left[r]) = op
  /\ left' = [left EXCEPT ![r] = Tail(@)]
  /\ stage' = [stage EXCEPT ![r] = IF Len(left[r]) = 1 THEN "over" ELSE "in"]
  /\ UNCHANGED kind

\* The pool gives a connection to any of those who wait for one.
Take(r) == /\ Does(r, "take")
           /\ free > 0 /\ free' = free - 1
           /\ held' = [held EXCEPT ![r] = @ + 1]
           /\ UNCHANGED <<queue, inside>>

Give(r) == /\ Does(r, "give")
           /\ free' = free + 1
           /\ held' = [held EXCEPT ![r] = @ - 1]
           /\ UNCHANGED <<queue, inside>>

\* deriveKEK: the send on kdfSem, which blocks while the channel is full.
Join(r) ==
  /\ Does(r, "join")
  /\ IF Cardinality(inside) < Slots
     THEN inside' = inside \cup {r} /\ UNCHANGED queue
     ELSE queue' = Append(queue, r) /\ UNCHANGED inside
  /\ UNCHANGED <<held, free>>

\* Mutant of Leave: the slot is not given back.
LeaveKeepsSlot(r) ==
  /\ r \in inside /\ Does(r, "leave")
  /\ UNCHANGED <<held, free, queue, inside>>

\* The derivation is done; the receive from kdfSem lets the next sender in.
Leave(r) ==
  /\ r \in inside /\ Does(r, "leave")
  /\ IF queue = <<>>
     THEN inside' = inside \ {r} /\ UNCHANGED queue
     ELSE inside' = (inside \ {r}) \cup {Head(queue)} /\ queue' = Tail(queue)
  /\ UNCHANGED <<held, free>>

\* An early return, between two operations.
Return(r) == /\ stage[r] = "in" /\ left[r] # Calls[kind[r]]
             /\ held[r] = 0 /\ Head(left[r]) # "leave"
             /\ stage' = [stage EXCEPT ![r] = "over"]
             /\ left' = [left EXCEPT ![r] = <<>>]
             /\ UNCHANGED <<kind, held, free, queue, inside>>

\* Mutant of Disconnect: a connection is given back whether or not one is held.
DisconnectGives(r) ==
  /\ stage[r] = "in" /\ kind[r] = "token"
  /\ stage' = [stage EXCEPT ![r] = "over"]
  /\ left' = [left EXCEPT ![r] = <<>>]
  /\ free' = free + 1
  /\ held' = [held EXCEPT ![r] = 0]
  /\ UNCHANGED <<kind, queue, inside>>

\* The client goes away.  The statements of the token endpoint run under the
\* request's context: they end, and so does the call.  The content service and
\* deriveKEK take no context and go on.
Disconnect(r) ==
  /\ stage[r] = "in" /\ kind[r] = "token"
  /\ stage' = [stage EXCEPT ![r] = "over"]
  /\ left' = [left EXCEPT ![r] = <<>>]
  /\ free' = free + held[r]
  /\ held' = [held EXCEPT ![r] = 0]
  /\ UNCHANGED <<kind, queue, inside>>

\* The process ends.
CapacityCrash ==
  /\ stage' = [r \in Requests |-> IF stage[r] = "in" THEN "crashed" ELSE stage[r]]
  /\ left' = [r \in Requests |-> <<>>]
  /\ held' = [r \in Requests |-> 0]
  /\ free' = Conns
  /\ queue' = <<>> /\ inside' = {}
  /\ UNCHANGED kind

-----------------------------------------------------------------------------
(* Properties.                                                             *)

CapacityTypeOK ==
  /\ kind \in [Requests -> Kinds]
  /\ stage \in [Requests -> {"out", "in", "over", "crashed"}]
  /\ left \in [Requests -> Seq({"take", "give", "join", "leave"})]
  /\ held \in [Requests -> Nat]
  /\ free \in 0 .. Conns
  /\ queue \in Seq(Requests)
  /\ inside \subseteq Requests /\ Cardinality(inside) <= Slots

\* Whoever holds a connection needs nothing else: neither a second connection
\* nor a derivation.  It is what keeps the pool and the queue from waiting for
\* each other ("Derivations queue instead", with no connection in hand).
HoldsNothingElse ==
  \A r \in Requests :
    stage[r] = "in" /\ held[r] > 0 => /\ held[r] = 1 /\ Head(left[r]) = "give"
                                      /\ \A i \in 1 .. Len(queue) : queue[i] # r

\* Nobody waits in vain.  When no connection is free, somebody has one and gives
\* it back next; who waits for a derivation is in the queue, every slot is taken,
\* and those who have them leave next.
NobodyWaitsInVain ==
  \A r \in Requests :
    stage[r] = "in" =>
      /\ Head(left[r]) = "take" /\ free = 0
           => \E s \in Requests : /\ stage[s] = "in" /\ held[s] = 1
                                 /\ Head(left[s]) = "give"
      /\ Head(left[r]) = "leave" /\ r \notin inside
           => /\ \E i \in 1 .. Len(queue) : queue[i] = r
              /\ Cardinality(inside) = Slots
              /\ \A s \in inside : stage[s] = "in" /\ Head(left[s]) = "leave"

=============================================================================
