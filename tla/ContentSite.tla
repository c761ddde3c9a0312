---------------------------- MODULE ContentSite ----------------------------
(***************************************************************************)
(* The public side of a hosted site: visitors read files and unlock        *)
(* encrypted entries (internal/handler/serving.go, Unlock and GetFile of   *)
(* the content service, internal/crypto/unlock.go), while the requests of  *)
(* ContentService change the tables underneath them.  A visit is a sequence *)
(* of single SELECTs; what it read may be stale when it answers.           *)
(***************************************************************************)
EXTENDS ContentService

CONSTANTS
  Visitors,
  Asked,      \* the paths visitors ask for
  Canon,      \* Canon[p]: p under the collation of the file_path column, which
              \* ignores case; equal values compare equal in SQL
  MaxVisits   \* bound on the visits of one visitor

ASSUME SiteAssumption == /\ Asked \subseteq Paths
                         /\ Canon \in [Paths -> Paths]
                         /\ MaxVisits \in Nat

VARIABLES
  cookie,  \* cookie[v][s]: the unlock cookie of visitor v for slug s.  It carries
           \* the data key; the passphrase it was obtained with is history.
  visit,   \* visit[v]: the visit of v in progress, or None
  answer,  \* answer[v]: the answer to the last visit of v
  visits   \* visits[v]: how many visits v has made

siteVars == <<cookie, visit, answer, visits>>
allVars == <<content, files, req, faults, cookie, visit, answer, visits>>

\* An answer.  A served file comes with the row it belongs to, the key it was
\* opened with and the seals that are still on the payload.
Reply(kind) == [kind |-> kind, cid |-> None, key |-> None, rest |-> <<>>]
Kinds == {"none", "served", "prompt", "relocked", "notfound",
          "unlocked", "wrong", "redirect", "error"}

SiteInit == /\ Init
            /\ cookie = [v \in Visitors |-> [s \in ValidSlugs |-> None]]
            /\ visit = [v \in Visitors |-> None]
            /\ answer = [v \in Visitors |-> Reply("none")]
            /\ visits = [v \in Visitors |-> 0]

-----------------------------------------------------------------------------

\* A visit of v begins; it may answer at once.
Begin(v) == /\ visit[v] = None
            /\ visits[v] < MaxVisits
            /\ visits' = [visits EXCEPT ![v] = @ + 1]

Answer(v, a) == answer' = [answer EXCEPT ![v] = a]
Keep(v, x) == visit' = [visit EXCEPT ![v] = x]
SetCookie(v, s, e) == cookie' = [cookie EXCEPT ![v][s] = e]

\* GetContentFile: the files that match slug and path in SQL; one of them comes
\* back, along with whether its entry has an envelope.
Matching(s, p) == {f \in files : /\ content[f.cid].slug = s
                                 /\ Canon[f.path] = Canon[p]}

\* DecryptFile: the key must be the one the payload was sealed with, and the path
\* the one it was sealed for.
Opened(e, p, f) == f.path = p /\ f.seals # <<>> /\ Head(f.seals) = e.dek

\* serveFile when the SELECT has found f.
Serve(v, s, p, f) ==
  LET e == cookie[v][s] IN
  CASE content[f.cid].env = None ->
         /\ Answer(v, [kind |-> "served", cid |-> f.cid, key |-> None,
                       rest |-> f.seals])
         /\ UNCHANGED cookie
    [] content[f.cid].env # None /\ e = None ->
         Answer(v, Reply("prompt")) /\ UNCHANGED cookie
    [] content[f.cid].env # None /\ e # None /\ Opened(e, p, f) ->
         /\ Answer(v, [kind |-> "served", cid |-> f.cid, key |-> e,
                       rest |-> Tail(f.seals)])
         /\ UNCHANGED cookie
    [] content[f.cid].env # None /\ e # None /\ ~Opened(e, p, f) ->
         Answer(v, Reply("relocked")) /\ SetCookie(v, s, None)

\* ServeIndex and ServeFile.  A path that is not there is "not found" to a
\* visitor with a key; without one the entry has to be looked up again.
AskFile(v, s, p) ==
  /\ Begin(v)
  /\ \/ /\ \E f \in Matching(s, p) : Serve(v, s, p, f)
        /\ UNCHANGED visit
     \/ /\ Matching(s, p) = {} /\ cookie[v][s] # None
        /\ Answer(v, Reply("notfound"))
        /\ UNCHANGED <<visit, cookie>>
     \/ /\ Matching(s, p) = {} /\ cookie[v][s] = None
        /\ Keep(v, [step |-> "recheck", slug |-> s])
        /\ Answer(v, Reply("none")) /\ UNCHANGED cookie
  /\ UNCHANGED vars

\* notFoundOrLocked: a second SELECT, of the row.
Recheck(v) ==
  /\ visit[v] # None /\ visit[v].step = "recheck"
  /\ Answer(v, Reply(IF \E c \in RowsAt(visit[v].slug) : content[c].env # None
                     THEN "prompt" ELSE "notfound"))
  /\ Keep(v, None)
  /\ UNCHANGED <<cookie, visits>> /\ UNCHANGED vars

\* POST /unlock: the row is read, then the key derivation runs on the envelope
\* that was read.
AskUnlock(v, s, pass) ==
  /\ Begin(v)
  /\ \/ /\ RowsAt(s) = {}
        /\ Answer(v, Reply("notfound")) /\ UNCHANGED visit
     \/ \E c \in RowsAt(s) :
          \/ /\ content[c].env = None
             /\ Answer(v, Reply("redirect")) /\ UNCHANGED visit
          \/ /\ content[c].env # None /\ pass = None
             /\ Answer(v, Reply("prompt")) /\ UNCHANGED visit
          \/ /\ content[c].env # None /\ pass # None
             /\ Keep(v, [step |-> "derive", slug |-> s, env |-> content[c].env,
                         pass |-> pass])
             /\ Answer(v, Reply("none"))
  /\ UNCHANGED cookie /\ UNCHANGED vars

\* Unwrap has ended: the right passphrase sets the cookie, another one does not.
Unlock(v) ==
  /\ visit[v] # None /\ visit[v].step = "derive"
  /\ IF visit[v].pass = visit[v].env.pass
     THEN Answer(v, Reply("unlocked")) /\ SetCookie(v, visit[v].slug, visit[v].env)
     ELSE Answer(v, Reply("wrong")) /\ UNCHANGED cookie
  /\ Keep(v, None)
  /\ UNCHANGED visits /\ UNCHANGED vars

\* UNLOCK_TTL passes: the token in the cookie no longer opens.
Expire(v, s) == /\ cookie[v][s] # None
                /\ SetCookie(v, s, None)
                /\ UNCHANGED <<visit, answer, visits>> /\ UNCHANGED vars

\* A SELECT fails: 500, the cookie stays.  MaxVisits bounds these faults.
LookupFails(v) ==
  /\ \/ Begin(v) /\ UNCHANGED visit
     \/ /\ visit[v] # None /\ visit[v].step = "recheck"
        /\ Keep(v, None) /\ UNCHANGED visits
  /\ Answer(v, Reply("error"))
  /\ UNCHANGED cookie /\ UNCHANGED vars

\* The process dies under the visits in progress; cookies stay with the browsers.
SiteCrash == /\ Crash
             /\ visit' = [v \in Visitors |-> None]
             /\ UNCHANGED <<cookie, answer, visits>>

Visit(v) ==
  \/ \E s \in ValidSlugs, p \in Asked : AskFile(v, s, p)
  \/ \E s \in ValidSlugs, pass \in Passphrases \cup {None} : AskUnlock(v, s, pass)
  \/ \E s \in ValidSlugs : Expire(v, s)
  \/ Recheck(v) \/ Unlock(v) \/ LookupFails(v)

SiteNext == \/ \E r \in Requests : Step(r) /\ UNCHANGED siteVars
            \/ \E v \in Visitors : Visit(v)
            \/ SiteCrash
            \/ AllDone /\ UNCHANGED siteVars

SiteSpec == SiteInit /\ [][SiteNext]_allVars

-----------------------------------------------------------------------------
(* Properties.                                                             *)

\* No update has changed the envelope of entry c and replaced its files at once:
\* while one does, visitors meet the new envelope over the old files.
Steady(c) == \A r \in Requests : ~Rekeys(r, c)

\* Visitors of a steady entry get cleartext: no seal is left on what is served.
ServedReadable ==
  [][\A v \in Visitors :
       /\ visits'[v] # visits[v] /\ answer'[v].kind = "served"
       /\ Steady(answer'[v].cid)
       => answer'[v].rest = <<>>]_allVars

\* "Rotating re-encrypts with a fresh key, so already-unlocked visitors lose
\* access immediately": a file of an encrypted entry is served only to a visitor
\* who unlocked it with the passphrase the entry is under at that moment.
RotationRelocks ==
  [][\A v \in Visitors :
       /\ visits'[v] # visits[v] /\ answer'[v].kind = "served"
       /\ answer'[v].key # None /\ Steady(answer'[v].cid)
       => content[answer'[v].cid].env = answer'[v].key]_allVars

\* "[A cookie] that carries the data key for UNLOCK_TTL, so sub-resources load
\* without re-prompting": while the cookie holds the key of a steady entry,
\* asking for a file that matches serves it and keeps the cookie.
UnlockedStays ==
  [][\A v \in Visitors, s \in ValidSlugs, p \in Asked :
       /\ AskFile(v, s, p) /\ Matching(s, p) # {} /\ cookie[v][s] # None
       /\ \A c \in RowsAt(s) : content[c].env = cookie[v][s] /\ Steady(c)
       => answer'[v].kind = "served" /\ cookie' = cookie]_allVars

=============================================================================
