---------------------------- MODULE Intake_proofs ----------------------------
(***************************************************************************)
(* Proofs about Intake: races at the limiter's map cost a burst each, who  *)
(* holds a connection waits for nothing else, and connections and slots    *)
(* are given back once, for any number of requests, addresses, connections *)
(* and slots.                                                              *)
(*                                                                         *)
(* The limiter and the resources behind it share no variable, so each has  *)
(* its own inductive invariant, and a step of Next is a step of each.      *)
(***************************************************************************)
EXTENDS Intake, FiniteSetTheorems, TLAPS

-----------------------------------------------------------------------------
(* The limiter.                                                            *)

\* b has been put into the map, now or earlier.
Inserted(b) == at[b] \notin {"idle", "lookup", "insert"}

\* A bucket in the map or in the hands of a request is of that address.
OwnBuckets ==
  /\ \A i \in Addresses : visitors[i] # None => /\ clientIP(visitors[i]) = i
                                                /\ Inserted(visitors[i])
  /\ \A r \in Requests : at[r] \in {"touch", "allow"} =>
        /\ using[r] \in Requests
        /\ clientIP(using[r]) = clientIP(r) /\ Inserted(using[r])

\* A bucket in the map has been refilled for as long as nobody has asked for it: one
\* that the clean-up may take is full.
Refilled ==
  \A i \in Addresses : visitors[i] # None =>
    tokens[visitors[i]] = Burst \/ idle[visitors[i]] <= tokens[visitors[i]]

\* A request that is about to take a token has just been seen.
JustSeen == \A r \in Requests : at[r] = "allow" => idle[using[r]] = 0

\* The clean-up goroutine deletes what it has found.
StaleIsThere == stale # None => visitors[stale] # None

\* The tokens missing from the bucket in the map.
Missing(i) == IF visitors[i] = None THEN 0 ELSE Burst - tokens[visitors[i]]

\* What is spent is missing from the bucket, or comes from a race.
Accounts(i) == spent[i] <= extra[i] + Missing(i)

LimiterInv ==
  /\ LimiterTypeOK
  /\ OwnBuckets /\ Refilled /\ JustSeen /\ StaleIsThere
  /\ \A i \in Addresses : Accounts(i)

LEMMA AddressesOfRequests == \A r \in Requests : clientIP(r) \in Addresses
  BY LimiterAssumption DEF clientIP, Addresses

LEMMA NoneIsNobody == None \notin Requests /\ None \notin Addresses
  BY LimiterAssumption, ArrivalsAssumption DEF Addresses

LEMMA LimiterInvImplies == LimiterInv => RacesCostABurst
  BY LimiterAssumption, NoneIsNobody
  DEF LimiterInv, LimiterTypeOK, Accounts, Missing, RacesCostABurst

LEMMA LimiterInvInit == LimiterInit => LimiterInv
  BY LimiterAssumption, NoneIsNobody
  DEF LimiterInit, LimiterInv, LimiterTypeOK, OwnBuckets, Refilled, JustSeen, StaleIsThere,
      Accounts, Missing, Inside

\* A step that leaves the map and the buckets alone, and lets nobody out of the
\* middleware who is in it.
LEMMA EnterKeeps ==
  ASSUME LimiterInv, NEW r \in Requests, Enter(r) PROVE LimiterInv'
<1> USE LimiterAssumption, NoneIsNobody DEF LimiterInv, Enter, Moves
<1>1. LimiterTypeOK'
  BY DEF LimiterTypeOK, Inside
<1>2. OwnBuckets' /\ JustSeen'
  BY DEF LimiterTypeOK, OwnBuckets, Inserted, JustSeen
<1> QED  BY <1>1, <1>2 DEF Refilled, StaleIsThere, Accounts, Missing

LEMMA LookupKeeps ==
  ASSUME LimiterInv, NEW r \in Requests, Lookup(r) PROVE LimiterInv'
<1> USE LimiterAssumption, NoneIsNobody DEF LimiterInv, Lookup, Moves
<1>1. LimiterTypeOK'
  BY AddressesOfRequests DEF LimiterTypeOK, Inside
<1>2. OwnBuckets'
  <2>1. \A b \in Requests : Inserted(b) => Inserted(b)'
    BY DEF LimiterTypeOK, Inserted
  <2>2. clientIP(r) \in Addresses /\ UNCHANGED visitors
    BY AddressesOfRequests
  <2>3. at'[r] = "touch" => visitors[clientIP(r)] # None /\ using'[r] = visitors[clientIP(r)]
    BY DEF LimiterTypeOK
  <2>4. visitors[clientIP(r)] \in Requests \cup {None}
    BY <2>2 DEF LimiterTypeOK
  <2>5. at'[r] # "allow" /\ \A s \in Requests \ {r} : at'[s] = at[s] /\ using'[s] = using[s]
    BY DEF LimiterTypeOK
  <2>6. \A i \in Addresses : visitors'[i] # None =>
          \E b \in Requests : visitors'[i] = b /\ clientIP(b) = i /\ Inserted(b)'
    BY <2>1, <2>2 DEF LimiterTypeOK, OwnBuckets
  <2>7. at'[r] = "touch" =>
          \E b \in Requests : using'[r] = b /\ clientIP(b) = clientIP(r) /\ Inserted(b)'
    BY <2>2, <2>3, <2>6
  <2>8. \A s \in Requests \ {r} : at'[s] \in {"touch", "allow"} =>
          \E b \in Requests : using'[s] = b /\ clientIP(b) = clientIP(s) /\ Inserted(b)'
    BY <2>1, <2>5 DEF OwnBuckets
  <2> QED  BY <2>5, <2>6, <2>7, <2>8 DEF OwnBuckets
<1>3. JustSeen'
  BY DEF LimiterTypeOK, JustSeen
<1> QED  BY <1>1, <1>2, <1>3 DEF Refilled, StaleIsThere, Accounts, Missing

LEMMA InsertKeeps ==
  ASSUME LimiterInv, NEW r \in Requests, Insert(r) PROVE LimiterInv'
<1> DEFINE i == clientIP(r)
<1> USE LimiterAssumption, NoneIsNobody DEF LimiterInv, Insert, Moves, Adds
<1>0. i \in Addresses
  BY AddressesOfRequests
<1>1. LimiterTypeOK'
  BY <1>0 DEF LimiterTypeOK, Inside
<1>2. /\ ~Inserted(r) /\ Inserted(r)'
      /\ \A s \in Requests \ {r} : Inserted(s)' = Inserted(s)
  BY DEF LimiterTypeOK, Inserted
<1>3. /\ visitors'[i] = r /\ tokens'[r] = Burst /\ idle'[r] = 0 /\ using'[r] = r
      /\ \A s \in Requests \ {r} : /\ tokens'[s] = tokens[s] /\ idle'[s] = idle[s]
                                   /\ using'[s] = using[s] /\ at'[s] = at[s]
      /\ \A j \in Addresses \ {i} : visitors'[j] = visitors[j] /\ extra'[j] = extra[j]
      /\ at'[r] = "allow" /\ spent' = spent
      /\ extra'[i] = IF visitors[i] = None THEN extra[i] ELSE extra[i] + Burst
  BY <1>0 DEF LimiterTypeOK
<1>4. \A j \in Addresses : visitors[j] # r
  BY <1>2 DEF OwnBuckets, LimiterTypeOK
<1>5. OwnBuckets'
  BY <1>0, <1>2, <1>3 DEF LimiterTypeOK, OwnBuckets
<1>6. Refilled'
  BY <1>0, <1>3, <1>4 DEF LimiterTypeOK, Refilled
<1>7. JustSeen' /\ StaleIsThere'
  BY <1>0, <1>2, <1>3 DEF LimiterTypeOK, OwnBuckets, JustSeen, StaleIsThere
<1>8. \A j \in Addresses : Accounts(j)'
  BY <1>0, <1>3, <1>4 DEF LimiterTypeOK, Accounts, Missing
<1> QED  BY <1>1, <1>5, <1>6, <1>7, <1>8

LEMMA TouchKeeps ==
  ASSUME LimiterInv, NEW r \in Requests, Touch(r) PROVE LimiterInv'
<1> USE LimiterAssumption, NoneIsNobody DEF LimiterInv, Touch, Moves
<1>1. using[r] \in Requests
  BY DEF OwnBuckets
<1>2. LimiterTypeOK'
  BY <1>1 DEF LimiterTypeOK, Inside
<1>3. OwnBuckets'
  BY DEF LimiterTypeOK, OwnBuckets, Inserted
<1>4. Refilled' /\ JustSeen' /\ StaleIsThere'
  BY <1>1 DEF LimiterTypeOK, Refilled, JustSeen, StaleIsThere
<1> QED  BY <1>2, <1>3, <1>4 DEF Accounts, Missing

LEMMA AllowKeeps ==
  ASSUME LimiterInv, NEW r \in Requests, Allow(r) PROVE LimiterInv'
<1> DEFINE b == using[r]
           i == clientIP(r)
<1> USE LimiterAssumption, NoneIsNobody DEF LimiterInv, Moves
<1>1. i \in Addresses /\ b \in Requests /\ clientIP(b) = i /\ Inserted(b) /\ idle[b] = 0
  BY AddressesOfRequests DEF Allow, OwnBuckets, JustSeen
<1>2. \A j \in Addresses : visitors[j] = b => j = i
  BY <1>1 DEF OwnBuckets
<1>3. /\ UNCHANGED <<visitors, idle, stale>>
      /\ at'[r] \in {"passed", "refused"}
      /\ \A s \in Requests \ {r} : at'[s] = at[s] /\ using'[s] = using[s]
  BY DEF Allow, LimiterTypeOK, Inside
<1>4. OwnBuckets' /\ JustSeen' /\ StaleIsThere'
  <2>1. \A s \in Requests : Inserted(s) => Inserted(s)'
    BY <1>3 DEF Inserted
  <2>2. \A s \in Requests : at'[s] \in {"touch", "allow"} => s # r
    BY <1>3
  <2>3. OwnBuckets'
    BY <1>3, <2>1, <2>2 DEF OwnBuckets, LimiterTypeOK
  <2> QED  BY <1>3, <2>2, <2>3 DEF JustSeen, StaleIsThere
<1>5. CASE UNCHANGED <<tokens, spent, extra>>
  <2>1. LimiterTypeOK'
    BY <1>5 DEF Allow, LimiterTypeOK, Inside
  <2> QED  BY <1>3, <1>4, <1>5, <2>1 DEF Refilled, Accounts, Missing
<1>6. CASE /\ tokens[b] > 0
           /\ tokens' = [tokens EXCEPT ![b] = @ - 1]
           /\ spent' = [spent EXCEPT ![i] = @ + 1]
           /\ Adds(i, IF visitors[i] = b THEN 0 ELSE 1)
  <2>1. LimiterTypeOK'
    BY <1>1, <1>3, <1>6 DEF Allow, Adds, LimiterTypeOK
  <2>2. Refilled'
    BY <1>1, <1>3, <1>6 DEF LimiterTypeOK, Refilled
  <2>3. \A j \in Addresses : Accounts(j)'
    BY <1>1, <1>2, <1>3, <1>6 DEF Adds, LimiterTypeOK, Accounts, Missing
  <2> QED  BY <1>4, <2>1, <2>2, <2>3
<1> QED  BY <1>5, <1>6 DEF Allow

LEMMA CleanKeeps ==
  ASSUME LimiterInv, Clean PROVE LimiterInv'
<1> USE LimiterAssumption, NoneIsNobody DEF LimiterInv
<1>1. ASSUME NEW i \in Addresses, Inspect(i) PROVE LimiterInv'
  BY <1>1 DEF Inspect, LimiterTypeOK, OwnBuckets, Inserted, Refilled, JustSeen, StaleIsThere,
              Accounts, Missing
<1>2. CASE Delete
  <2>1. /\ stale \in Addresses /\ visitors[stale] \in Requests
        /\ UNCHANGED <<tokens, idle, at, using, spent>> /\ stale' = None
        /\ visitors' = [visitors EXCEPT ![stale] = None]
        /\ extra' = [extra EXCEPT ![stale] =
                       @ + IF idle[visitors[stale]] > Hour THEN 0 ELSE Burst]
    BY <1>2 DEF Delete, Adds, LimiterTypeOK, StaleIsThere
  <2>2. LimiterTypeOK'
    BY <2>1 DEF LimiterTypeOK
  <2>3. OwnBuckets' /\ Refilled' /\ JustSeen' /\ StaleIsThere'
    BY <2>1 DEF LimiterTypeOK, OwnBuckets, Inserted, Refilled, JustSeen, StaleIsThere
  <2>4. idle[visitors[stale]] > Hour => tokens[visitors[stale]] = Burst
    BY <2>1 DEF LimiterTypeOK, Refilled
  <2>5. \A j \in Addresses : Accounts(j)'
    BY <2>1, <2>4 DEF LimiterTypeOK, Accounts, Missing
  <2> QED  BY <2>2, <2>3, <2>5
<1> QED  BY <1>1, <1>2 DEF Clean

LEMMA FatalKeeps ==
  ASSUME LimiterInv, LimiterFatal PROVE LimiterInv'
  BY LimiterAssumption, NoneIsNobody
  DEF LimiterInv, LimiterTypeOK, OwnBuckets, Inserted, Refilled, JustSeen, StaleIsThere,
      Accounts, Missing, LimiterFatal, Inside

LEMMA TickKeeps ==
  ASSUME LimiterInv, Tick PROVE LimiterInv'
<1> USE LimiterAssumption, NoneIsNobody DEF LimiterInv, Tick
<1>1. LimiterTypeOK'
  BY DEF LimiterTypeOK
<1>2. OwnBuckets' /\ JustSeen' /\ StaleIsThere'
  BY DEF OwnBuckets, Inserted, JustSeen, StaleIsThere
<1>3. Refilled'
  BY DEF LimiterTypeOK, OwnBuckets, Refilled, Mapped
<1>4. \A i \in Addresses : Accounts(i)'
  BY DEF LimiterTypeOK, Accounts, Missing
<1> QED  BY <1>1, <1>2, <1>3, <1>4

-----------------------------------------------------------------------------
(* The resources.                                                          *)

Ops == {"take", "give", "join", "leave"}

\* Operations come in pairs: what is taken is given back next, who joins leaves next.
Paired(s) ==
  \A i \in 1 .. Len(s) :
    /\ s[i] = "take" => i < Len(s) /\ s[i + 1] = "give"
    /\ s[i] = "join" => i < Len(s) /\ s[i + 1] = "leave"
    /\ i > 1 => /\ s[i] = "give" => s[i - 1] = "take"
                /\ s[i] = "leave" => s[i - 1] = "join"

\* A program of whole statements and derivations.
Whole(s) == s \in Seq(Ops) /\ Len(s) > 0 /\ Paired(s) /\ s[1] \notin {"give", "leave"}

NoDerivation(s) == \A i \in 1 .. Len(s) : s[i] \notin {"join", "leave"}

LEMMA WholeParts == /\ Whole(Statement) /\ NoDerivation(Statement)
                    /\ Whole(Derivation)
  BY DEF Whole, Paired, Ops, Statement, Derivation, NoDerivation

LEMMA WholeJoin ==
  ASSUME NEW s, NEW t, Whole(s), Whole(t) PROVE Whole(s \o t)
<1> DEFINE st == s \o t
<1>1. /\ s \in Seq(Ops) /\ t \in Seq(Ops) /\ st \in Seq(Ops)
      /\ Len(st) = Len(s) + Len(t) /\ Len(s) > 0 /\ Len(t) > 0
      /\ Len(s) \in Nat /\ Len(t) \in Nat
  BY DEF Whole
<1>2. /\ \A i \in 1 .. Len(s) : st[i] = s[i]
      /\ \A i \in 1 .. Len(t) : st[Len(s) + i] = t[i]
  BY <1>1
<1>3. Paired(st)
  <2> SUFFICES ASSUME NEW i \in 1 .. Len(st)
               PROVE /\ st[i] = "take" => i < Len(st) /\ st[i + 1] = "give"
                     /\ st[i] = "join" => i < Len(st) /\ st[i + 1] = "leave"
                     /\ i > 1 => /\ st[i] = "give" => st[i - 1] = "take"
                                 /\ st[i] = "leave" => st[i - 1] = "join"
    BY DEF Paired
  <2>1. CASE i <= Len(s)
    <3>1. i \in 1 .. Len(s) /\ st[i] = s[i] /\ (i > 1 => st[i - 1] = s[i - 1])
      BY <1>1, <1>2, <2>1
    <3>2. i < Len(s) => st[i + 1] = s[i + 1]
      BY <1>1, <1>2, <2>1
    <3> HIDE DEF st
    <3> QED  BY <1>1, <3>1, <3>2 DEF Whole, Paired
  <2>2. CASE i > Len(s)
    <3> DEFINE j == i - Len(s)
    <3>1. j \in 1 .. Len(t) /\ i = Len(s) + j
      BY <1>1, <2>2
    <3>2. st[i] = t[j] /\ (j < Len(t) => st[i + 1] = t[j + 1])
      BY <1>1, <1>2, <3>1
    <3>3. j > 1 => st[i - 1] = t[j - 1]
      BY <1>1, <1>2, <3>1
    <3> HIDE DEF st, j
    <3> QED  BY <1>1, <3>1, <3>2, <3>3 DEF Whole, Paired
  <2> QED  BY <1>1, <2>1, <2>2
<1>4. st[1] = s[1]
  BY <1>1, <1>2
<1> QED  BY <1>1, <1>3, <1>4 DEF Whole

LEMMA NoDerivationJoin ==
  ASSUME NEW s \in Seq(Ops), NEW t \in Seq(Ops), NoDerivation(s), NoDerivation(t)
  PROVE  NoDerivation(s \o t)
  BY DEF NoDerivation

\* Every call is whole, and the token endpoint derives no key.
LEMMA CallsAreWhole ==
  ASSUME NEW k \in Kinds PROVE Whole(Calls[k]) /\ (k = "token" => NoDerivation(Calls[k]))
<1> USE WholeParts, WholeJoin
<1>1. Whole(HealthCall) /\ Whole(ServeCall) /\ Whole(DeleteCall) /\ Whole(UnlockCall)
  BY DEF HealthCall, ServeCall, DeleteCall, UnlockCall
<1>2. Whole(EditCall) /\ Whole(ListCall)
  BY <1>1 DEF ServeCall, EditCall, ListCall
<1>3. Whole((Statement \o Derivation) \o Statement)
  BY <1>1 DEF UnlockCall
<1>4. Whole(((Statement \o Derivation) \o Statement) \o Statement)
  BY <1>3
<1>5. Whole(CreateCall)
  BY <1>4 DEF CreateCall
<1>6. Whole(EncryptCall)
  BY <1>5 DEF CreateCall, EncryptCall
<1>7. Whole((Statement \o Derivation) \o Derivation)
  BY <1>1 DEF UnlockCall
<1>8. Whole(((Statement \o Derivation) \o Derivation) \o Statement)
  BY <1>7
<1>9. Whole((((Statement \o Derivation) \o Derivation) \o Statement) \o Statement)
  BY <1>8
<1>10. Whole(((((Statement \o Derivation) \o Derivation) \o Statement) \o Statement)
               \o Statement)
  BY <1>9
<1>11. Whole(RotateCall)
  BY <1>10 DEF RotateCall
<1>12. Whole(ReplaceCall)
  BY <1>11 DEF RotateCall, ReplaceCall
<1>13. Whole(TokenCall) /\ NoDerivation(TokenCall)
  BY <1>1, NoDerivationJoin DEF ServeCall, TokenCall, Whole
<1> QED  BY <1>1, <1>2, <1>5, <1>6, <1>11, <1>12, <1>13 DEF Kinds, Calls

CapacityTyped ==
  /\ kind \in [Requests -> Kinds]
  /\ stage \in [Requests -> {"out", "in", "over", "crashed"}]
  /\ left \in [Requests -> Seq(Ops)]
  /\ held \in [Requests -> Nat]
  /\ queue \in Seq(Requests) /\ inside \subseteq Requests

\* A request between two operations holds a connection only if it gives it back next.
BetweenOperations(r) ==
  IF stage[r] = "in"
  THEN /\ Len(left[r]) > 0 /\ Paired(left[r])
       /\ held[r] = IF Head(left[r]) = "give" THEN 1 ELSE 0
       /\ kind[r] = "token" => NoDerivation(left[r])
  ELSE held[r] = 0

\* r is at a derivation.
Deriving(r) == stage[r] = "in" /\ Len(left[r]) > 0 /\ left[r][1] = "leave"

\* Who waits for a derivation or is at one is about to leave it, and waits once.
AtTheGate ==
  /\ \A r \in inside : Deriving(r)
  /\ \A i \in 1 .. Len(queue) : Deriving(queue[i]) /\ queue[i] \notin inside
  /\ \A i, j \in 1 .. Len(queue) : queue[i] = queue[j] => i = j

CapacityInv == /\ CapacityTyped
               /\ \A r \in Requests : BetweenOperations(r)
               /\ AtTheGate

LEMMA CapacityInvImplies == CapacityInv => HoldsNothingElse
<1> SUFFICES ASSUME CapacityInv, NEW r \in Requests, stage[r] = "in", held[r] > 0
             PROVE  /\ held[r] = 1 /\ Head(left[r]) = "give"
                    /\ \A i \in 1 .. Len(queue) : queue[i] # r
  BY DEF HoldsNothingElse
<1>1. held[r] = 1 /\ Head(left[r]) = "give"
  BY DEF CapacityInv, BetweenOperations, CapacityTyped
<1>2. left[r][1] = "give"
  BY <1>1 DEF CapacityInv, CapacityTyped, BetweenOperations
<1> QED  BY <1>1, <1>2 DEF CapacityInv, AtTheGate, Deriving

LEMMA CapacityInvInit == CapacityInit => CapacityInv
<1> SUFFICES ASSUME CapacityInit PROVE CapacityInv
  OBVIOUS
<1>1. CapacityTyped /\ AtTheGate
  BY CapacityAssumption DEF CapacityInit, CapacityTyped, AtTheGate
<1>2. \A r \in Requests : BetweenOperations(r)
  BY DEF CapacityInit, BetweenOperations
<1> QED  BY <1>1, <1>2 DEF CapacityInv

\* What is left of a paired program is paired, and how its head follows the one before.
LEMMA PairedTail ==
  ASSUME NEW s \in Seq(Ops), Len(s) > 0, Paired(s), NEW t, t = Tail(s)
  PROVE  /\ t \in Seq(Ops) /\ Len(t) = Len(s) - 1 /\ Paired(t)
         /\ NoDerivation(s) => NoDerivation(t)
         /\ Head(s) = s[1]
         /\ s[1] = "take" => Len(t) > 0 /\ t[1] = "give"
         /\ s[1] = "join" => Len(t) > 0 /\ t[1] = "leave"
         /\ Len(t) > 0 => /\ t[1] = "give" => s[1] = "take"
                          /\ t[1] = "leave" => s[1] = "join"
         /\ Len(t) > 0 => Head(t) = t[1]
<1>1. t \in Seq(Ops) /\ Len(t) = Len(s) - 1 /\ \A i \in 1 .. Len(t) : t[i] = s[i + 1]
  OBVIOUS
<1>2. Paired(t)
  <2> SUFFICES ASSUME NEW i \in 1 .. Len(t)
               PROVE /\ t[i] = "take" => i < Len(t) /\ t[i + 1] = "give"
                     /\ t[i] = "join" => i < Len(t) /\ t[i + 1] = "leave"
                     /\ i > 1 => /\ t[i] = "give" => t[i - 1] = "take"
                                 /\ t[i] = "leave" => t[i - 1] = "join"
    BY DEF Paired
  <2>1. /\ i + 1 \in 1 .. Len(s) /\ t[i] = s[i + 1]
        /\ i < Len(t) => t[i + 1] = s[(i + 1) + 1]
        /\ i > 1 => t[i - 1] = s[i]
    BY <1>1
  <2> QED  BY <1>1, <2>1 DEF Paired
<1>3. 1 \in 1 .. Len(s) /\ Head(s) = s[1]
  OBVIOUS
<1>4. Len(t) > 0 => 2 \in 1 .. Len(s) /\ t[1] = s[2] /\ Head(t) = t[1]
  BY <1>1
<1>5. Len(s) \in Nat /\ Len(t) \in Nat
  OBVIOUS
<1>6. NoDerivation(s) => NoDerivation(t)
  BY <1>1 DEF NoDerivation
<1>7. s[1] \in {"take", "join"} => Len(s) > 1
  BY <1>3 DEF Paired
<1> QED  BY <1>1, <1>2, <1>3, <1>4, <1>5, <1>6, <1>7 DEF Paired

\* What the next operation of r does to r, and that it leaves the others alone.
LEMMA AfterOperation ==
  ASSUME CapacityInv, NEW r \in Requests, NEW op, Does(r, op)
  PROVE  /\ stage[r] = "in" /\ left[r][1] = op /\ Head(left[r]) = op
         /\ held[r] = IF op = "give" THEN 1 ELSE 0
         /\ kind' = kind
         /\ stage' \in [Requests -> {"out", "in", "over", "crashed"}]
         /\ left' \in [Requests -> Seq(Ops)]
         /\ stage'[r] = "in" <=> Len(left'[r]) > 0
         /\ Paired(left'[r]) /\ (kind[r] = "token" => NoDerivation(left'[r]))
         /\ op = "take" => Len(left'[r]) > 0 /\ left'[r][1] = "give"
         /\ op = "join" => Len(left'[r]) > 0 /\ left'[r][1] = "leave"
         /\ Len(left'[r]) > 0 => /\ left'[r][1] = "give" => op = "take"
                                 /\ left'[r][1] = "leave" => op = "join"
                                 /\ Head(left'[r]) = left'[r][1]
         /\ \A s \in Requests \ {r} : stage'[s] = stage[s] /\ left'[s] = left[s]
<1>1. /\ stage[r] = "in" /\ Head(left[r]) = op /\ kind' = kind
      /\ left[r] \in Seq(Ops) /\ Len(left[r]) > 0 /\ Paired(left[r])
      /\ kind[r] = "token" => NoDerivation(left[r])
      /\ held[r] = IF Head(left[r]) = "give" THEN 1 ELSE 0
  BY DEF Does, CapacityInv, CapacityTyped, BetweenOperations
<1>2. left'[r] = Tail(left[r])
  BY DEF Does, CapacityInv, CapacityTyped
<1>3. /\ left'[r] \in Seq(Ops) /\ Len(left'[r]) = Len(left[r]) - 1
      /\ stage'[r] = IF Len(left[r]) = 1 THEN "over" ELSE "in"
  BY <1>1, <1>2, PairedTail DEF Does, CapacityInv, CapacityTyped
<1>4. /\ stage' \in [Requests -> {"out", "in", "over", "crashed"}]
      /\ left' \in [Requests -> Seq(Ops)]
      /\ \A s \in Requests \ {r} : stage'[s] = stage[s] /\ left'[s] = left[s]
  BY <1>2, <1>3 DEF Does, CapacityInv, CapacityTyped
<1>5. stage'[r] = "in" <=> Len(left'[r]) > 0
  <2>1. PICK n \in Nat : n = Len(left[r])
    BY <1>1
  <2>2. PICK m \in Nat : m = Len(left'[r])
    BY <1>3
  <2>3. n > 0 /\ m = n - 1 /\ stage'[r] = IF n = 1 THEN "over" ELSE "in"
    BY <1>1, <1>3, <2>1, <2>2
  <2>4. stage'[r] = "in" <=> m > 0
    BY <2>3
  <2> QED  BY <2>2, <2>4
<1>6. /\ Paired(left'[r]) /\ (kind[r] = "token" => NoDerivation(left'[r]))
      /\ Head(left[r]) = left[r][1]
      /\ left[r][1] = "take" => Len(left'[r]) > 0 /\ left'[r][1] = "give"
      /\ left[r][1] = "join" => Len(left'[r]) > 0 /\ left'[r][1] = "leave"
      /\ Len(left'[r]) > 0 => /\ left'[r][1] = "give" => left[r][1] = "take"
                              /\ left'[r][1] = "leave" => left[r][1] = "join"
                              /\ Head(left'[r]) = left'[r][1]
  BY <1>1, <1>2, PairedTail
<1> QED  BY <1>1, <1>4, <1>5, <1>6

\* A request in the queue or at a derivation can only leave it.
LEMMA NotAtTheGate ==
  ASSUME CapacityInv, NEW r \in Requests, ~Deriving(r)
  PROVE  r \notin inside /\ \A i \in 1 .. Len(queue) : queue[i] # r
  BY DEF CapacityInv, AtTheGate

LEMMA ConnectionKeeps ==
  ASSUME CapacityInv, NEW r \in Requests, Take(r) \/ Give(r) PROVE CapacityInv'
<1>1. PICK op \in {"take", "give"} :
        /\ Does(r, op) /\ UNCHANGED <<queue, inside>>
        /\ held' = [held EXCEPT ![r] = IF op = "take" THEN @ + 1 ELSE @ - 1]
  BY DEF Take, Give
<1>2. held[r] = (IF op = "give" THEN 1 ELSE 0) /\ held'[r] = (IF op = "take" THEN 1 ELSE 0)
  BY <1>1, AfterOperation DEF CapacityInv, CapacityTyped
<1>3. CapacityTyped'
  BY <1>1, <1>2, AfterOperation DEF CapacityInv, CapacityTyped
<1>4. BetweenOperations(r)'
  <2>1. CASE stage'[r] = "in"
    <3>1. Len(left'[r]) > 0 /\ Head(left'[r]) = left'[r][1]
      BY <1>1, <2>1, AfterOperation
    <3>2. left'[r][1] = "give" <=> op = "take"
      BY <1>1, <3>1, AfterOperation
    <3>3. Paired(left'[r]) /\ kind'[r] = kind[r] /\ (kind[r] = "token" => NoDerivation(left'[r]))
      BY <1>1, AfterOperation
    <3> QED  BY <1>2, <2>1, <3>1, <3>2, <3>3 DEF BetweenOperations
  <2>2. CASE stage'[r] # "in"
    BY <1>1, <1>2, <2>2, AfterOperation DEF BetweenOperations
  <2> QED  BY <2>1, <2>2
<1>5. ASSUME NEW s \in Requests \ {r} PROVE BetweenOperations(s)'
  BY <1>1, <1>5, AfterOperation DEF CapacityInv, CapacityTyped, BetweenOperations
<1>6. ~Deriving(r)
  BY <1>1, AfterOperation DEF Deriving
<1>7. \A s \in Requests \ {r} : Deriving(s)' = Deriving(s)
  BY <1>1, AfterOperation DEF Deriving
<1>8. queue \in Seq(Requests) /\ inside \subseteq Requests
  BY DEF CapacityInv, CapacityTyped
<1>9. AtTheGate'
  <2>1. r \notin inside /\ \A i \in 1 .. Len(queue) : queue[i] \in Requests \ {r}
    BY <1>6, <1>8, NotAtTheGate
  <2> QED  BY <1>1, <1>7, <1>8, <2>1 DEF CapacityInv, AtTheGate
<1> QED  BY <1>3, <1>4, <1>5, <1>9 DEF CapacityInv

\* Joining and leaving: r itself, and the others between their operations.
LEMMA GateKeepsPrograms ==
  ASSUME CapacityInv, NEW r \in Requests, NEW op \in {"join", "leave"}, Does(r, op),
         UNCHANGED <<held, free>>, queue' \in Seq(Requests), inside' \subseteq Requests
  PROVE  CapacityTyped' /\ \A s \in Requests : BetweenOperations(s)'
<1>1. CapacityTyped'
  BY AfterOperation DEF CapacityInv, CapacityTyped
<1>2. BetweenOperations(r)'
  <2>1. held[r] = 0 /\ held'[r] = 0
    BY AfterOperation
  <2>2. CASE stage'[r] = "in"
    <3>1. Len(left'[r]) > 0 /\ Head(left'[r]) = left'[r][1] /\ left'[r][1] # "give"
      BY <2>2, AfterOperation
    <3>2. Paired(left'[r]) /\ kind'[r] = kind[r] /\ (kind[r] = "token" => NoDerivation(left'[r]))
      BY AfterOperation
    <3> QED  BY <2>1, <2>2, <3>1, <3>2 DEF BetweenOperations
  <2>3. CASE stage'[r] # "in"
    BY <2>1, <2>3 DEF BetweenOperations
  <2> QED  BY <2>2, <2>3
<1>3. ASSUME NEW s \in Requests \ {r} PROVE BetweenOperations(s)'
  BY <1>3, AfterOperation DEF CapacityInv, CapacityTyped, BetweenOperations
<1> QED  BY <1>1, <1>2, <1>3

LEMMA JoinKeeps ==
  ASSUME CapacityInv, NEW r \in Requests, Join(r) PROVE CapacityInv'
<1>1. Does(r, "join") /\ UNCHANGED <<held, free>>
  BY DEF Join
<1>2. ~Deriving(r) /\ Deriving(r)'
  BY <1>1, AfterOperation DEF Deriving
<1>3. \A s \in Requests \ {r} : Deriving(s)' = Deriving(s)
  BY <1>1, AfterOperation DEF Deriving
<1>4. queue \in Seq(Requests) /\ inside \subseteq Requests
  BY DEF CapacityInv, CapacityTyped
<1>5. CASE inside' = inside \cup {r} /\ queue' = queue
  <2>1. AtTheGate'
    BY <1>2, <1>3, <1>4, <1>5, NotAtTheGate DEF CapacityInv, AtTheGate
  <2> QED  BY <1>1, <1>4, <1>5, <2>1, GateKeepsPrograms DEF CapacityInv
<1>6. CASE inside' = inside /\ queue' = Append(queue, r)
  <2>1. /\ queue' \in Seq(Requests) /\ Len(queue') = Len(queue) + 1 /\ Len(queue) \in Nat
        /\ \A i \in 1 .. Len(queue) : queue'[i] = queue[i] /\ queue[i] \in Requests
        /\ queue'[Len(queue) + 1] = r
    BY <1>4, <1>6
  <2>2. AtTheGate'
    BY <1>2, <1>3, <1>4, <1>6, <2>1, NotAtTheGate DEF CapacityInv, AtTheGate
  <2> QED  BY <1>1, <1>4, <1>6, <2>1, <2>2, GateKeepsPrograms DEF CapacityInv
<1> QED  BY <1>5, <1>6 DEF Join

LEMMA LeaveKeeps ==
  ASSUME CapacityInv, NEW r \in Requests, Leave(r) PROVE CapacityInv'
<1>1. Does(r, "leave") /\ UNCHANGED <<held, free>> /\ r \in inside
  BY DEF Leave
<1>2. \A s \in Requests \ {r} : Deriving(s)' = Deriving(s)
  BY <1>1, AfterOperation DEF Deriving
<1>3. queue \in Seq(Requests) /\ inside \subseteq Requests /\ AtTheGate
  BY DEF CapacityInv, CapacityTyped
<1>4. CASE inside' = inside \ {r} /\ queue' = queue
  <2>1. AtTheGate'
    BY <1>1, <1>2, <1>3, <1>4 DEF AtTheGate
  <2> QED  BY <1>1, <1>3, <1>4, <2>1, GateKeepsPrograms DEF CapacityInv
<1>5. CASE /\ queue # <<>>
           /\ inside' = (inside \ {r}) \cup {Head(queue)} /\ queue' = Tail(queue)
  <2>1. /\ Len(queue) \in Nat /\ Len(queue) > 0
        /\ queue' \in Seq(Requests) /\ Len(queue') = Len(queue) - 1
        /\ Head(queue) = queue[1] /\ queue[1] \in Requests
        /\ \A i \in 1 .. Len(queue) : queue[i] \in Requests
        /\ \A i \in 1 .. Len(queue') : queue'[i] = queue[i + 1]
    BY <1>3, <1>5
  <2>2. \A i \in 1 .. Len(queue) : Deriving(queue[i]) /\ queue[i] \notin inside
    BY <1>3 DEF AtTheGate
  <2>3. \A i, j \in 1 .. Len(queue) : queue[i] = queue[j] => i = j
    BY <1>3 DEF AtTheGate
  <2>4. \A i \in 1 .. Len(queue') : /\ i + 1 \in 1 .. Len(queue)
                                    /\ queue[i + 1] # queue[1]
    BY <2>1, <2>3
  <2>5. \A s \in inside' : Deriving(s)'
    BY <1>1, <1>2, <1>3, <1>5, <2>1, <2>2 DEF AtTheGate
  <2>6. \A i \in 1 .. Len(queue') : Deriving(queue[i])' /\ queue'[i] \notin inside'
    BY <1>1, <1>2, <1>5, <2>1, <2>2, <2>4
  <2>7. \A i, j \in 1 .. Len(queue') : queue'[i] = queue'[j] => i = j
    BY <2>1, <2>3, <2>4
  <2>8. AtTheGate'
    BY <2>5, <2>6, <2>7 DEF AtTheGate
  <2> QED  BY <1>1, <1>3, <1>5, <2>1, <2>8, GateKeepsPrograms DEF CapacityInv
<1> QED  BY <1>4, <1>5 DEF Leave

LEMMA EndKeeps ==
  ASSUME CapacityInv, NEW r \in Requests, Start(r) \/ Return(r) \/ Disconnect(r)
  PROVE  CapacityInv'
<1>1. UNCHANGED <<kind, queue, inside>>
  BY DEF Start, Return, Disconnect
<1>2. kind[r] \in Kinds /\ Whole(Calls[kind[r]])
  BY CallsAreWhole DEF CapacityInv, CapacityTyped
<1>3. /\ stage' \in [Requests -> {"out", "in", "over", "crashed"}]
      /\ held' \in [Requests -> Nat]
      /\ left' \in [Requests -> Seq(Ops)]
  <2>1. Calls[kind[r]] \in Seq(Ops) /\ <<>> \in Seq(Ops)
    BY <1>2 DEF Whole
  <2>2. CASE Start(r)
    BY <2>1, <2>2 DEF Start, CapacityInv, CapacityTyped
  <2>3. CASE Return(r)
    BY <2>1, <2>3 DEF Return, CapacityInv, CapacityTyped
  <2>4. CASE Disconnect(r)
    BY <2>1, <2>4 DEF Disconnect, CapacityInv, CapacityTyped
  <2> QED  BY <2>2, <2>3, <2>4
<1>4. \A s \in Requests \ {r} :
        stage'[s] = stage[s] /\ left'[s] = left[s] /\ held'[s] = held[s]
  BY DEF Start, Return, Disconnect, CapacityInv, CapacityTyped
<1>5. BetweenOperations(r)'
  <2>1. CASE Start(r)
    <3>1. stage'[r] = "in" /\ left'[r] = Calls[kind[r]] /\ held'[r] = 0 /\ kind'[r] = kind[r]
      BY <2>1 DEF Start, CapacityInv, CapacityTyped, BetweenOperations
    <3>2. Head(left'[r]) # "give"
      BY <1>2, <3>1 DEF Whole
    <3> QED  BY <1>2, <3>1, <3>2, CallsAreWhole DEF BetweenOperations, Whole
  <2>2. CASE Return(r)
    BY <2>2 DEF Return, CapacityInv, CapacityTyped, BetweenOperations
  <2>3. CASE Disconnect(r)
    BY <2>3 DEF Disconnect, CapacityInv, CapacityTyped, BetweenOperations
  <2> QED  BY <2>1, <2>2, <2>3
<1>6. ASSUME NEW s \in Requests \ {r} PROVE BetweenOperations(s)'
  BY <1>1, <1>4, <1>6 DEF CapacityInv, BetweenOperations
<1>7. ~Deriving(r)
  <2>1. CASE Start(r)
    BY <2>1 DEF Start, Deriving
  <2>2. CASE Return(r)
    BY <2>2 DEF Return, Deriving, CapacityInv, CapacityTyped
  <2>3. CASE Disconnect(r)
    BY <2>3 DEF Disconnect, Deriving, CapacityInv, CapacityTyped, BetweenOperations, NoDerivation
  <2> QED  BY <2>1, <2>2, <2>3
<1>8. AtTheGate'
  <2>1. queue \in Seq(Requests) /\ inside \subseteq Requests
    BY DEF CapacityInv, CapacityTyped
  <2>2. r \notin inside /\ \A i \in 1 .. Len(queue) : queue[i] \in Requests \ {r}
    BY <1>7, <2>1, NotAtTheGate
  <2>3. \A s \in Requests \ {r} : Deriving(s)' = Deriving(s)
    BY <1>4 DEF Deriving
  <2> QED  BY <1>1, <2>1, <2>2, <2>3 DEF CapacityInv, AtTheGate
<1>9. CapacityTyped'
  BY <1>1, <1>3 DEF CapacityInv, CapacityTyped
<1> QED  BY <1>5, <1>6, <1>8, <1>9 DEF CapacityInv

LEMMA CrashKeeps == CapacityInv /\ CapacityCrash => CapacityInv'
<1> SUFFICES ASSUME CapacityInv, CapacityCrash PROVE CapacityInv'
  OBVIOUS
<1>1. CapacityTyped' /\ AtTheGate'
  BY DEF CapacityInv, CapacityTyped, AtTheGate, CapacityCrash
<1>2. \A r \in Requests : BetweenOperations(r)'
  BY DEF CapacityInv, CapacityTyped, CapacityCrash, BetweenOperations
<1> QED  BY <1>1, <1>2 DEF CapacityInv

-----------------------------------------------------------------------------
(* Connections and slots are as many as there are.  A request that holds a  *)
(* connection holds one, so those in use are as many as their holders.      *)

Holders == {r \in Requests : held[r] > 0}

PoolCounted == /\ free \in Nat
               /\ IsFiniteSet(Holders) /\ Cardinality(Holders) + free = Conns
GateCounted == IsFiniteSet(inside) /\ Cardinality(inside) <= Slots
Counted == PoolCounted /\ GateCounted

LEMMA CountedInit == CapacityInit => Counted
<1> SUFFICES ASSUME CapacityInit PROVE Counted
  OBVIOUS
<1>1. Holders = {} /\ inside = {} /\ free = Conns
  BY DEF CapacityInit, Holders
<1>2. QED BY <1>1, FS_EmptySet, CapacityAssumption DEF Counted, PoolCounted, GateCounted

LEMMA ConnectionCounts ==
  ASSUME CapacityInv, Counted, NEW r \in Requests, Take(r) \/ Give(r)
  PROVE  Counted'
<1>1. held \in [Requests -> Nat] /\ UNCHANGED inside
  BY DEF Take, Give, CapacityInv, CapacityTyped
<1>2. CASE Take(r)
  <2>1. held[r] = 0 /\ free > 0
    BY <1>2, AfterOperation DEF Take
  <2>2. r \notin Holders /\ Holders' = Holders \cup {r} /\ free' = free - 1
    BY <1>1, <1>2, <2>1 DEF Take, Holders
  <2>3. IsFiniteSet(Holders') /\ Cardinality(Holders') = Cardinality(Holders) + 1
    BY <2>2, FS_AddElement DEF Counted, PoolCounted
  <2>4. Cardinality(Holders) \in Nat
    BY FS_CardinalityType DEF Counted, PoolCounted
  <2>5. QED BY <1>1, <2>1, <2>2, <2>3, <2>4, CapacityAssumption
            DEF Counted, PoolCounted, GateCounted
<1>3. CASE Give(r)
  <2>1. held[r] = 1
    BY <1>3, AfterOperation DEF Give
  <2>2. r \in Holders /\ Holders' = Holders \ {r} /\ free' = free + 1
    BY <1>1, <1>3, <2>1 DEF Give, Holders
  <2>3. IsFiniteSet(Holders') /\ Cardinality(Holders') = Cardinality(Holders) - 1
    BY <2>2, FS_RemoveElement DEF Counted, PoolCounted
  <2>4. Cardinality(Holders) \in Nat
    BY FS_CardinalityType DEF Counted, PoolCounted
  <2>5. QED BY <1>1, <2>2, <2>3, <2>4, CapacityAssumption
            DEF Counted, PoolCounted, GateCounted
<1>4. QED BY <1>2, <1>3

LEMMA OneMore ==
  ASSUME NEW S, NEW x, IsFiniteSet(S)
  PROVE  /\ IsFiniteSet(S \cup {x}) /\ Cardinality(S) \in Nat
         /\ \/ Cardinality(S \cup {x}) = Cardinality(S)
            \/ Cardinality(S \cup {x}) = Cardinality(S) + 1
  BY FS_AddElement, FS_CardinalityType

LEMMA GateCounts ==
  ASSUME CapacityInv, Counted, NEW r \in Requests, Join(r) \/ Leave(r)
  PROVE  Counted'
<1>1. PoolCounted'
  BY DEF Join, Leave, Counted, PoolCounted, Holders
<1>2. IsFiniteSet(inside) /\ Cardinality(inside) \in Nat /\ Cardinality(inside) <= Slots
  BY FS_CardinalityType DEF Counted, GateCounted
<1>3. ASSUME inside' = inside PROVE GateCounted'
  BY <1>2, <1>3 DEF GateCounted
<1>4. ASSUME inside' = inside \cup {r}, Cardinality(inside) < Slots PROVE GateCounted'
  <2>1. /\ IsFiniteSet(inside \cup {r})
        /\ \/ Cardinality(inside \cup {r}) = Cardinality(inside)
           \/ Cardinality(inside \cup {r}) = Cardinality(inside) + 1
    BY <1>2, OneMore
  <2>2. Cardinality(inside \cup {r}) <= Slots
    BY <1>2, <1>4, <2>1, CapacityAssumption
  <2>3. QED BY <1>4, <2>1, <2>2 DEF GateCounted
<1>5. ASSUME NEW s, r \in inside,
             inside' = (inside \ {r}) \cup {s} \/ inside' = inside \ {r}
      PROVE  GateCounted'
  <2>1. /\ IsFiniteSet(inside \ {r})
        /\ Cardinality(inside \ {r}) = Cardinality(inside) - 1
    BY <1>2, <1>5, FS_RemoveElement
  <2>2. /\ IsFiniteSet((inside \ {r}) \cup {s})
        /\ \/ Cardinality((inside \ {r}) \cup {s}) = Cardinality(inside \ {r})
           \/ Cardinality((inside \ {r}) \cup {s}) = Cardinality(inside \ {r}) + 1
    BY OneMore, <2>1
  <2>3. /\ Cardinality((inside \ {r}) \cup {s}) <= Slots
        /\ Cardinality(inside \ {r}) <= Slots
    BY <1>2, <2>1, <2>2, CapacityAssumption
  <2>4. QED BY <1>5, <2>1, <2>2, <2>3 DEF GateCounted
<1>6. CASE Join(r)
  <2>1. GateCounted'
    BY <1>3, <1>4, <1>6 DEF Join
  <2>2. QED BY <1>1, <2>1 DEF Counted
<1>7. CASE Leave(r)
  <2>1. GateCounted'
    BY <1>5, <1>7 DEF Leave
  <2>2. QED BY <1>1, <2>1 DEF Counted
<1>8. QED BY <1>6, <1>7

LEMMA EndCounts ==
  ASSUME CapacityInv, Counted, NEW r \in Requests, Start(r) \/ Return(r) \/ Disconnect(r)
  PROVE  Counted'
<1>1. CASE Start(r) \/ Return(r)
  BY <1>1 DEF Start, Return, Counted, PoolCounted, GateCounted, Holders
<1>2. CASE Disconnect(r)
  <2>1. /\ held \in [Requests -> Nat] /\ held[r] \in {0, 1}
        /\ UNCHANGED inside /\ free' = free + held[r]
        /\ Holders' = Holders \ {r} /\ (r \in Holders <=> held[r] = 1)
    BY <1>2 DEF Disconnect, CapacityInv, CapacityTyped, BetweenOperations, Holders
  <2>2. /\ IsFiniteSet(Holders') /\ Cardinality(Holders) \in Nat
        /\ Cardinality(Holders') = Cardinality(Holders) - held[r]
    BY <2>1, FS_RemoveElement, FS_CardinalityType DEF Counted, PoolCounted, GateCounted
  <2>3. QED BY <2>1, <2>2, CapacityAssumption DEF Counted, PoolCounted, GateCounted
<1>3. QED BY <1>1, <1>2

LEMMA CrashCounts == CapacityCrash => Counted'
<1> SUFFICES ASSUME CapacityCrash PROVE Counted'
  OBVIOUS
<1>1. Holders' = {} /\ inside' = {} /\ free' = Conns
  BY DEF CapacityCrash, Holders
<1>2. QED BY <1>1, FS_EmptySet, CapacityAssumption DEF Counted, PoolCounted, GateCounted

-----------------------------------------------------------------------------
(* Waiting.  Who is at a derivation has a slot or a place in the queue, and *)
(* there is no queue while a slot is free.                                 *)

Queued(r) == \E i \in 1 .. Len(queue) : queue[i] = r

Served == /\ \A r \in Requests : Deriving(r) => r \in inside \/ Queued(r)
          /\ queue # <<>> => Cardinality(inside) = Slots

LEMMA ServedInit == CapacityInit => Served
  BY DEF CapacityInit, Served, Deriving

\* A step that moves nobody to or from a derivation.
LEMMA QuietServes ==
  ASSUME Served, UNCHANGED <<queue, inside>>,
         \A s \in Requests : Deriving(s)' => Deriving(s)
  PROVE  Served'
  BY DEF Served, Queued

LEMMA OthersServe ==
  ASSUME CapacityInv, Served, NEW r \in Requests,
         \/ Take(r) \/ Give(r) \/ Start(r) \/ Return(r) \/ Disconnect(r)
  PROVE  Served'
<1>1. UNCHANGED <<queue, inside>>
  BY DEF Take, Give, Start, Return, Disconnect
<1>2. \A s \in Requests \ {r} : Deriving(s)' = Deriving(s)
  <2>1. CASE Take(r) \/ Give(r)
    BY <2>1, AfterOperation DEF Take, Give, Deriving
  <2>2. CASE Start(r) \/ Return(r) \/ Disconnect(r)
    BY <2>2 DEF Start, Return, Disconnect, Deriving, CapacityInv, CapacityTyped
  <2>3. QED BY <2>1, <2>2
<1>3. ~Deriving(r)'
  <2>1. CASE Take(r) \/ Give(r)
    BY <2>1, AfterOperation DEF Take, Give, Deriving
  <2>2. CASE Start(r)
    <3>1. Whole(Calls[kind[r]]) /\ left'[r] = Calls[kind[r]]
      BY <2>2, CallsAreWhole DEF Start, CapacityInv, CapacityTyped
    <3>2. QED BY <3>1 DEF Whole, Deriving
  <2>3. CASE Return(r) \/ Disconnect(r)
    BY <2>3 DEF Return, Disconnect, Deriving, CapacityInv, CapacityTyped
  <2>4. QED BY <2>1, <2>2, <2>3
<1>4. QED BY <1>1, <1>2, <1>3, QuietServes

LEMMA JoinServes ==
  ASSUME CapacityInv, Counted, Served, NEW r \in Requests, Join(r)
  PROVE  Served'
<1>1. Does(r, "join") /\ queue \in Seq(Requests)
  BY DEF Join, CapacityInv, CapacityTyped
<1>2. \A s \in Requests \ {r} : Deriving(s)' = Deriving(s)
  BY <1>1, AfterOperation DEF Deriving
<1>3. CASE Cardinality(inside) < Slots
  <2>1. inside' = inside \cup {r} /\ queue' = queue
    BY <1>3 DEF Join
  <2>2. queue = <<>>
    BY <1>3, CapacityAssumption DEF Served
  <2>3. QED BY <1>2, <2>1, <2>2 DEF Served, Queued
<1>4. CASE ~(Cardinality(inside) < Slots)
  <2>1. inside' = inside /\ queue' = Append(queue, r)
    BY <1>4 DEF Join
  <2>2. /\ \A i \in 1 .. Len(queue) : i \in 1 .. Len(queue') /\ queue'[i] = queue[i]
        /\ Len(queue') \in 1 .. Len(queue') /\ queue'[Len(queue')] = r
    BY <1>1, <2>1
  <2>3. \A s \in Requests : Queued(s) \/ s = r => Queued(s)'
    BY <2>2 DEF Queued
  <2>4. Cardinality(inside) = Slots
    BY <1>4, FS_CardinalityType, CapacityAssumption DEF Counted, GateCounted
  <2>5. QED BY <1>2, <2>1, <2>3, <2>4 DEF Served
<1>5. QED BY <1>3, <1>4

LEMMA LeaveServes ==
  ASSUME CapacityInv, Counted, Served, NEW r \in Requests, Leave(r)
  PROVE  Served'
<1>1. Does(r, "leave") /\ queue \in Seq(Requests) /\ r \in inside
  BY DEF Leave, CapacityInv, CapacityTyped
<1>2. ~Deriving(r)' /\ \A s \in Requests \ {r} : Deriving(s)' = Deriving(s)
  BY <1>1, AfterOperation DEF Deriving
<1>3. CASE queue = <<>>
  <2>1. inside' = inside \ {r} /\ queue' = <<>>
    BY <1>3 DEF Leave
  <2>2. \A s \in Requests : ~Queued(s)
    BY <1>3 DEF Queued
  <2>3. QED BY <1>2, <2>1, <2>2 DEF Served
<1>4. CASE queue # <<>>
  <2> DEFINE first == queue[1]
  <2>1. /\ inside' = (inside \ {r}) \cup {first} /\ queue' = Tail(queue)
        /\ 1 \in 1 .. Len(queue)
    BY <1>1, <1>4 DEF Leave
  <2>2. first \notin inside
    BY <2>1 DEF CapacityInv, AtTheGate
  <2>3. ASSUME NEW s \in Requests, Queued(s), s # first PROVE Queued(s)'
    <3>1. PICK i \in 1 .. Len(queue) : queue[i] = s
      BY <2>3 DEF Queued
    <3>2. i - 1 \in 1 .. Len(queue') /\ queue'[i - 1] = s
      BY <1>1, <1>4, <2>1, <2>3, <3>1
    <3>3. QED BY <3>2 DEF Queued
  <2>4. /\ IsFiniteSet(inside \ {r})
        /\ Cardinality(inside \ {r}) = Cardinality(inside) - 1
    BY <1>1, FS_RemoveElement DEF Counted, GateCounted
  <2>5. Cardinality(inside') = Cardinality(inside \ {r}) + 1
    BY <2>1, <2>2, <2>4, FS_AddElement
  <2>6. Cardinality(inside') = Slots
    BY <1>4, <2>4, <2>5, CapacityAssumption DEF Served
  <2>7. QED BY <1>2, <2>1, <2>3, <2>6 DEF Served
<1>5. QED BY <1>3, <1>4

LEMMA CrashServes == CapacityCrash => Served'
  BY DEF CapacityCrash, Served, Deriving

\* Nobody waits in vain: without a free connection there are holders, who give back
\* next, and without a place at the gate all slots are taken.
LEMMA ServedImplies == CapacityInv /\ Counted /\ Served => NobodyWaitsInVain
<1> SUFFICES ASSUME CapacityInv, Counted, Served, NEW r \in Requests, stage[r] = "in"
             PROVE  /\ Head(left[r]) = "take" /\ free = 0
                         => \E s \in Requests : /\ stage[s] = "in" /\ held[s] = 1
                                               /\ Head(left[s]) = "give"
                    /\ Head(left[r]) = "leave" /\ r \notin inside
                         => /\ \E i \in 1 .. Len(queue) : queue[i] = r
                            /\ Cardinality(inside) = Slots
                            /\ \A s \in inside : stage[s] = "in" /\ Head(left[s]) = "leave"
  BY DEF NobodyWaitsInVain
<1>1. \A s \in Requests : stage[s] = "in" =>
        left[s] \in Seq(Ops) /\ Len(left[s]) > 0 /\ Head(left[s]) = left[s][1]
  BY DEF CapacityInv, CapacityTyped, BetweenOperations
<1>2. ASSUME free = 0
      PROVE  \E s \in Requests : stage[s] = "in" /\ held[s] = 1 /\ Head(left[s]) = "give"
  <2>1. Cardinality(Holders) = Conns /\ IsFiniteSet(Holders)
    BY <1>2, FS_CardinalityType, CapacityAssumption DEF Counted, PoolCounted
  <2>2. Holders # {}
    BY <2>1, FS_EmptySet, CapacityAssumption
  <2>3. PICK s \in Requests : held[s] > 0
    BY <2>2 DEF Holders
  <2>4. BetweenOperations(s) /\ held[s] # 0
    BY <2>3 DEF CapacityInv, CapacityTyped
  <2>5. stage[s] = "in" /\ held[s] = 1 /\ Head(left[s]) = "give"
    BY <2>4 DEF BetweenOperations
  <2>6. QED BY <2>5
<1>3. ASSUME Head(left[r]) = "leave", r \notin inside
      PROVE  /\ \E i \in 1 .. Len(queue) : queue[i] = r
             /\ Cardinality(inside) = Slots
  <2>1. Queued(r)
    BY <1>1, <1>3 DEF Served, Deriving
  <2>2. queue # <<>>
    BY <2>1 DEF Queued
  <2>3. QED BY <2>1, <2>2 DEF Served, Queued
<1>4. \A s \in inside : stage[s] = "in" /\ Head(left[s]) = "leave"
  BY <1>1 DEF CapacityInv, CapacityTyped, AtTheGate, Deriving
<1>5. QED BY <1>2, <1>3, <1>4

-----------------------------------------------------------------------------
(* Both, in Intake.                                                        *)

\* A step of Intake is a step of the limiter, or leaves it alone.
LEMMA LimiterInvKept == LimiterInv /\ [Next]_vars => LimiterInv'
<1> SUFFICES ASSUME LimiterInv, [Next]_vars PROVE LimiterInv'
  OBVIOUS
<1>1. ASSUME NEW r \in Requests,
             Enter(r) \/ Lookup(r) \/ Insert(r) \/ Touch(r) \/ Allow(r)
      PROVE  LimiterInv'
  BY <1>1, EnterKeeps, LookupKeeps, InsertKeeps, TouchKeeps, AllowKeeps
<1>2. ASSUME UNCHANGED limiterVars PROVE LimiterInv'
  BY <1>2 DEF limiterVars, LimiterInv, LimiterTypeOK, OwnBuckets, Inserted, Refilled,
              JustSeen, StaleIsThere, Accounts, Missing
<1>3. ASSUME NEW r \in Requests, Arrive(r) \/ Limits(r) PROVE LimiterInv'
  BY <1>1, <1>2, <1>3 DEF Arrive, Limits
<1>4. ASSUME NEW r \in Requests,
             Works(r) \/ Derives(r) \/ ((Return(r) \/ Disconnect(r)) /\ UNCHANGED limiterVars)
      PROVE  LimiterInv'
  BY <1>2, <1>4 DEF Works, Derives
<1>5. CASE Clean \/ Tick
  BY <1>5, CleanKeeps, TickKeeps
<1>6. CASE Fatal
  BY <1>6, FatalKeeps DEF Fatal
<1>7. CASE UNCHANGED vars
  BY <1>2, <1>7 DEF vars, limiterVars
<1> QED  BY <1>3, <1>4, <1>5, <1>6, <1>7 DEF Next

\* The same for the resources.
LEMMA CapacityInvKept == CapacityInv /\ [Next]_vars => CapacityInv'
<1> SUFFICES ASSUME CapacityInv, [Next]_vars PROVE CapacityInv'
  OBVIOUS
<1>1. ASSUME UNCHANGED capacityVars PROVE CapacityInv'
  BY <1>1 DEF capacityVars, CapacityInv, CapacityTyped, BetweenOperations, AtTheGate, Deriving
<1>2. ASSUME NEW r \in Requests, Arrive(r) \/ Limits(r) PROVE CapacityInv'
  BY <1>1, <1>2, EndKeeps DEF Arrive, Limits
<1>3. ASSUME NEW r \in Requests, Works(r) \/ Derives(r) PROVE CapacityInv'
  BY <1>3, ConnectionKeeps, JoinKeeps, LeaveKeeps DEF Works, Derives
<1>4. ASSUME NEW r \in Requests, Return(r) \/ Disconnect(r) PROVE CapacityInv'
  BY <1>4, EndKeeps
<1>5. CASE UNCHANGED capacityVars
  BY <1>1, <1>5
<1>6. CASE Fatal
  BY <1>6, CrashKeeps DEF Fatal
<1>7. CASE UNCHANGED vars
  BY <1>1, <1>7 DEF vars, capacityVars
<1> QED  BY <1>2, <1>3, <1>4, <1>5, <1>6, <1>7 DEF Next

\* And for the numbers.
LEMMA CountedKept == CapacityInv /\ Counted /\ [Next]_vars => Counted'
<1> SUFFICES ASSUME CapacityInv, Counted, [Next]_vars PROVE Counted'
  OBVIOUS
<1>1. ASSUME UNCHANGED capacityVars PROVE Counted'
  BY <1>1 DEF capacityVars, Counted, PoolCounted, GateCounted, Holders
<1>2. ASSUME NEW r \in Requests, Arrive(r) \/ Limits(r) PROVE Counted'
  BY <1>1, <1>2, EndCounts DEF Arrive, Limits
<1>3. ASSUME NEW r \in Requests, Works(r) \/ Derives(r) PROVE Counted'
  BY <1>3, ConnectionCounts, GateCounts DEF Works, Derives
<1>4. ASSUME NEW r \in Requests, Return(r) \/ Disconnect(r) PROVE Counted'
  BY <1>4, EndCounts
<1>5. CASE Fatal
  BY <1>5, CrashCounts DEF Fatal
<1>6. CASE UNCHANGED vars
  BY <1>1, <1>6 DEF vars, capacityVars
<1>7. QED BY <1>1, <1>2, <1>3, <1>4, <1>5, <1>6 DEF Next

\* And for those who wait.
LEMMA ServedKept == CapacityInv /\ Counted /\ Served /\ [Next]_vars => Served'
<1> SUFFICES ASSUME CapacityInv, Counted, Served, [Next]_vars PROVE Served'
  OBVIOUS
<1>1. ASSUME UNCHANGED capacityVars PROVE Served'
  BY <1>1, QuietServes DEF capacityVars, Deriving
<1>2. ASSUME NEW r \in Requests, Arrive(r) \/ Limits(r) PROVE Served'
  BY <1>1, <1>2, OthersServe DEF Arrive, Limits
<1>3. ASSUME NEW r \in Requests, Works(r) \/ Derives(r) PROVE Served'
  BY <1>3, OthersServe, JoinServes, LeaveServes DEF Works, Derives
<1>4. ASSUME NEW r \in Requests, Return(r) \/ Disconnect(r) PROVE Served'
  BY <1>4, OthersServe
<1>5. CASE (Clean \/ Tick) /\ UNCHANGED capacityVars
  BY <1>1, <1>5
<1>6. CASE Fatal
  BY <1>6, CrashServes DEF Fatal
<1>7. CASE UNCHANGED vars
  BY <1>1, <1>7 DEF vars, capacityVars
<1>8. QED BY <1>2, <1>3, <1>4, <1>5, <1>6, <1>7 DEF Next

\* Every variable keeps its type: in particular, no more connections are out than
\* the pool has and none is given back twice, also when clients disconnect and the
\* process ends, and no more derivations run than the gate has slots.
THEOREM TypeCorrect == Spec => []TypeOK
<1>1. Init => LimiterInv /\ CapacityInv /\ Counted
  BY LimiterInvInit, CapacityInvInit, CountedInit DEF Init
<1>2. LimiterInv /\ CapacityInv /\ Counted => TypeOK
  <2> SUFFICES ASSUME LimiterInv, CapacityInv, Counted PROVE TypeOK
    OBVIOUS
  <2>1. free \in 0 .. Conns
    BY FS_CardinalityType, CapacityAssumption DEF Counted, PoolCounted
  <2>2. QED BY <2>1 DEF LimiterInv, CapacityInv, CapacityTyped, Counted, GateCounted, TypeOK,
                        CapacityTypeOK, Ops
<1> QED  BY <1>1, <1>2, LimiterInvKept, CapacityInvKept, CountedKept, PTL DEF Spec

\* Beyond its rate an address gets its burst, and no more than a burst for each race
\* of two goroutines at its entry of the limiter's map and a token for each request
\* that such a race left with a bucket no longer in the map.
THEOREM BurstIsLimited == Spec => []RacesCostABurst
<1>1. Init => LimiterInv
  BY LimiterInvInit DEF Init
<1> QED  BY <1>1, LimiterInvKept, LimiterInvImplies, PTL DEF Spec

\* Whoever holds a database connection waits for nothing: neither for a second
\* connection nor for a key derivation.
THEOREM ConnectionsAreBrief == Spec => []HoldsNothingElse
<1>1. Init => CapacityInv
  BY CapacityInvInit DEF Init
<1> QED  BY <1>1, CapacityInvKept, CapacityInvImplies, PTL DEF Spec

\* Who waits for a connection waits for somebody who gives one back next, and who
\* waits for a derivation for those who are at theirs, as many as there are slots:
\* no set of requests can wait for each other.
THEOREM WaitingEnds == Spec => []NobodyWaitsInVain
<1>1. Init => CapacityInv /\ Counted /\ Served
  BY CapacityInvInit, CountedInit, ServedInit DEF Init
<1> QED  BY <1>1, CapacityInvKept, CountedKept, ServedKept, ServedImplies, PTL DEF Spec

=============================================================================
