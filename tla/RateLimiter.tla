----------------------------- MODULE RateLimiter -----------------------------
(***************************************************************************)
(* The rate limiter (internal/middleware/middleware.go): a map from client *)
(* addresses to token buckets that every request goroutine and the clean-up *)
(* goroutine read and write without a lock.  The bucket itself is          *)
(* golang.org/x/time/rate, which has a lock of its own.                    *)
(*                                                                         *)
(* A bucket is named by the request that made it.  Time runs in ticks, of  *)
(* one token each: 10 a second.                                            *)
(***************************************************************************)
EXTENDS Integers, Arrivals

LOCAL INSTANCE Functions

CONSTANTS
  Ips, Ports,
  RemoteAddr,     \* RemoteAddr[r]: where the connection of request r comes from
  XForwardedFor,  \* XForwardedFor[r]: the first IP of that header, None without one
  Burst,          \* tokens of a full bucket
  Hour            \* ticks after which an entry is stale

ASSUME LimiterAssumption ==
  /\ None \notin Ips /\ None \notin Ips \X Ports
  /\ RemoteAddr \in [Requests -> Ips \X Ports]
  /\ XForwardedFor \in [Requests -> Ips \cup {None}]
  /\ Burst \in Nat \ {0} /\ Hour \in Nat /\ Hour >= Burst

\* The keys of the map: what clientIP returns is an IP when a proxy names it, and
\* the IP with the port of the connection otherwise.
Addresses == Ips \cup (Ips \X Ports)

clientIP(r) == IF XForwardedFor[r] # None THEN XForwardedFor[r] ELSE RemoteAddr[r]

VARIABLES
  visitors,  \* the map: the bucket of each address, or None
  tokens,    \* tokens[b]: what is left in bucket b
  idle,      \* idle[b]: ticks since lastSeen, up to Hour + 1, for those in the map
  at,        \* at[r]: the next step of request r in the middleware
  using,     \* using[r]: the bucket r has got from getVisitor
  stale,     \* the entry that the clean-up goroutine is about to delete
  spent,     \* history.  spent[i]: requests let through for address i, less one
             \* for each tick since, not below 0
  extra      \* history.  extra[i]: the tokens that races may have added for i

limiterVars == <<visitors, tokens, idle, at, using, stale, spent, extra>>

Inside == {"lookup", "insert", "touch", "allow"}

LimiterInit ==
  /\ visitors = [i \in Addresses |-> None]
  /\ tokens = [r \in Requests |-> Burst]
  /\ idle = [r \in Requests |-> 0]
  /\ at = [r \in Requests |-> "idle"]
  /\ using = [r \in Requests |-> None]
  /\ stale = None
  /\ spent = [i \in Addresses |-> 0]
  /\ extra = [i \in Addresses |-> 0]

-----------------------------------------------------------------------------
(* A request.                                                              *)

Moves(r, from, to) == at[r] = from /\ at' = [at EXCEPT ![r] = to]

\* A race about address i adds n tokens to those it should have.
Adds(i, n) == extra' = [extra EXCEPT ![i] = @ + n]

Enter(r) ==
  /\ Moves(r, "idle", "lookup")
  /\ UNCHANGED <<visitors, tokens, idle, using, stale, spent, extra>>

\* The read of the map in getVisitor.
Lookup(r) ==
  LET b == visitors[clientIP(r)] IN
  /\ Moves(r, "lookup", IF b = None THEN "insert" ELSE "touch")
  /\ using' = [using EXCEPT ![r] = b]
  /\ UNCHANGED <<visitors, tokens, idle, stale, spent, extra>>

\* No entry when it was looked for: a full bucket is put into the map, in the place
\* of one that somebody else has put there since.
Insert(r) ==
  LET i == clientIP(r) IN
  /\ Moves(r, "insert", "allow")
  /\ visitors' = [visitors EXCEPT ![i] = r]
  /\ using' = [using EXCEPT ![r] = r]
  /\ tokens' = [tokens EXCEPT ![r] = Burst]
  /\ idle' = [idle EXCEPT ![r] = 0]
  /\ Adds(i, IF visitors[i] = None THEN 0 ELSE Burst)
  /\ UNCHANGED <<stale, spent>>

\* Mutant of Touch: lastSeen is set on a copy of the entry.
TouchForgets(r) ==
  /\ Moves(r, "touch", "allow")
  /\ UNCHANGED <<visitors, tokens, idle, using, stale, spent, extra>>

\* An entry: lastSeen is set on it, whether or not it is still in the map.
Touch(r) ==
  /\ Moves(r, "touch", "allow")
  /\ idle' = [idle EXCEPT ![using[r]] = 0]
  /\ UNCHANGED <<visitors, tokens, using, stale, spent, extra>>

\* Allow takes a token, or the request is answered 429.  The bucket may have left
\* the map since it was looked up.
Allow(r) ==
  LET b == using[r]
      i == clientIP(r)
  IN /\ at[r] = "allow"
     /\ \/ /\ tokens[b] > 0
           /\ Moves(r, "allow", "passed")
           /\ tokens' = [tokens EXCEPT ![b] = @ - 1]
           /\ spent' = [spent EXCEPT ![i] = @ + 1]
           /\ Adds(i, IF visitors[i] = b THEN 0 ELSE 1)
        \/ /\ tokens[b] = 0
           /\ Moves(r, "allow", "refused")
           /\ UNCHANGED <<tokens, spent, extra>>
     /\ using' = [using EXCEPT ![r] = None]
     /\ UNCHANGED <<visitors, idle, stale>>

-----------------------------------------------------------------------------
(* cleanup, time, and the end of the process.                              *)

\* The goroutine ranges over the map every minute; here, at any time.  An entry
\* has not been seen for more than an hour.
Inspect(i) ==
  /\ stale = None
  /\ visitors[i] # None /\ idle[visitors[i]] > Hour
  /\ stale' = i
  /\ UNCHANGED <<visitors, tokens, idle, at, using, spent, extra>>

\* It is deleted, whatever it is by now: its visitor may have returned.
Delete ==
  /\ stale # None
  /\ visitors' = [visitors EXCEPT ![stale] = None]
  /\ Adds(stale, IF idle[visitors[stale]] > Hour THEN 0 ELSE Burst)
  /\ stale' = None
  /\ UNCHANGED <<tokens, idle, at, using, spent>>

\* Two goroutines are at the map at the same time and one of them writes: a
\* request that inserts while the clean-up reads, or the clean-up that deletes
\* beside a request.
Collision == \/ \E r \in Requests : at[r] = "insert"
             \/ stale # None /\ \E r \in Requests : at[r] = "lookup"

\* The runtime may notice ("fatal error: concurrent map writes") and end the
\* process; the next one starts with an empty map.
LimiterFatal ==
  /\ Collision
  /\ visitors' = [i \in Addresses |-> None]
  /\ at' = [r \in Requests |-> IF at[r] \in Inside THEN "crashed" ELSE at[r]]
  /\ stale' = None
  /\ spent' = [i \in Addresses |-> 0]
  /\ extra' = [i \in Addresses |-> 0]
  /\ UNCHANGED <<tokens, idle, using>>

Mapped(b) == visitors[clientIP(b)] = b

\* A tenth of a second passes.  No request stands that long between getVisitor
\* and Allow.
Tick ==
  /\ \A r \in Requests : at[r] # "allow"
  /\ tokens' = [b \in Requests |-> IF tokens[b] < Burst THEN tokens[b] + 1 ELSE Burst]
  /\ idle' = [b \in Requests |-> IF Mapped(b) /\ idle[b] <= Hour THEN idle[b] + 1
                                                              ELSE idle[b]]
  /\ spent' = [i \in Addresses |-> IF spent[i] > 0 THEN spent[i] - 1 ELSE 0]
  /\ UNCHANGED <<visitors, at, using, stale, extra>>

Clean == (\E i \in Addresses : Inspect(i)) \/ Delete

-----------------------------------------------------------------------------
(* Properties.                                                             *)

LimiterTypeOK ==
  /\ visitors \in [Addresses -> Requests \cup {None}]
  /\ tokens \in [Requests -> 0 .. Burst]
  /\ idle \in [Requests -> 0 .. Hour + 1]
  /\ at \in [Requests -> Inside \cup {"idle", "passed", "refused", "crashed"}]
  /\ using \in [Requests -> Requests \cup {None}]
  /\ stale \in Addresses \cup {None}
  /\ spent \in [Addresses -> Nat] /\ extra \in [Addresses -> Nat]

\* "RateLimiter provides per-IP rate limiting", "10 requests/second per IP": what an
\* IP uses beyond its rate is at most a burst.  Each address of the IP has been
\* forgiven its own rate, so the sum is at most what the IP has really used.  It is
\* not so: two first requests that race get a bucket each.
BurstPerIp ==
  \A i \in Ips : FoldFunctionOnSet(+, 0, spent, {i} \cup ({i} \X Ports)) <= Burst

\* What an address uses beyond its rate is at most a burst, and another for each
\* race that replaces or deletes a bucket somebody uses, and a token for each
\* request that is still served from a bucket no longer in the map.  An entry that
\* nobody has asked for in an hour is deleted at no such cost.
RacesCostABurst == \A i \in Addresses : spent[i] <= Burst + extra[i]

=============================================================================
