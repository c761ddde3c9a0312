# A verification of easy-host

easy-host is a Go server that hosts uploaded pages and archives under `/s/{slug}`, optionally
encrypted under a passphrase, managed through a REST API, web pages and an MCP endpoint with its own
OAuth server, over one MySQL database. This directory models its stateful parts in TLA+, checks the
models with TLC on small instances, and proves theorems about them with TLAPS. Paths below are
relative to `src/backend-go/`.

## 1. The system

| Component | Code | State | Operations | Hard part |
|---|---|---|---|---|
| Content service | `internal/service/content.go`, `internal/store/store.go` | tables `content`, `content_file` | Create, Update, Delete, List, Get | every SQL statement is its own transaction except `ApplyEncryption`; no locks; partial failure, crash |
| Encryption at rest | `internal/crypto/crypto.go`, `content.go:291-432` | envelope columns of `content`, sealed payloads | encrypt, decrypt, rotate, seal an upload | envelope and payloads live in two tables and must agree |
| Public serving | `internal/handler/serving.go`, `crypto/unlock.go`, `content.go:229-289` | unlock cookie at each visitor | serve a file, unlock | reads in single SELECTs while the entry changes; a cookie holds a key of the past |
| OAuth server | `internal/service/mcpoauth.go`, `internal/store/oauth.go`, `internal/handler/mcpoauth.go` | tables of clients, codes, refresh tokens | register, authorize, redeem, refresh | concurrent redemption, lost replies, credential consumed before it is checked |
| Front ends: REST API, web forms, MCP tools | `internal/handler/api.go`, `internal/handler/web.go`, `internal/mcp/server.go` | none | turn what a client sent into a call of the content service, or refuse it | three meanings of an empty field; an edit form that cannot be read is processed all the same |
| Web pages, form login, OIDC | `internal/handler/web.go`, `oidc.go` | one session cookie (username, flash, OIDC state, post-login redirect) | login, logout, callback, dashboard, forms | last-writer-wins cookie |
| Rate limiter | `internal/middleware/middleware.go:90-159` | a map per process, shared without a lock; the buckets in it | allow, clean up | data race; what an address is |
| Connection pool, key-derivation gate | `cmd/server/main.go`, `crypto.go:108-130` | 25 connections, one of which the migration driver keeps (`main.go:40`, `189-205`); a channel that lets 4 derivations run | take and give back, queue and derive | who waits for what while holding what |
| Archives and file paths | `content.go:480-538`, `serving.go:196-206` | none | hide, normalise, compare | order of the checks on names |
| Start-up, migrations, configuration, health, static files, deployment | `cmd/server`, `internal/config`, ... | none of their own | | |

Requests run in goroutines of one process (or several behind a load balancer). A request passes the
rate limiter, then its handler competes with the others for connections and derivations; beyond that
requests interact through the tables and, for visitors and users, through the cookie a browser carries
from one visit to the next. What makes each component correct:

* content: a slug names one entry; nobody but its owner changes an entry or its files; a create that
  fails leaves nothing; metadata, envelope and files change only as some call asked; the payloads are
  sealed with the key in the envelope;
* serving: a visitor gets cleartext, and of an encrypted entry only with a key obtained with the
  passphrase it is under now; an unlocked visitor is not asked again;
* OAuth: each authorization has at most one live credential; tokens stay with the client and the user
  they were issued for; every request is answered;
* front ends: a stored field changes only for a client that supplied it; a form that cannot be read
  stores nothing but, at worst, blanks;
* intake: an address gets its burst and its rate, and no more than another burst for each race that
  replaces or deletes its bucket (the map has no lock; the address is an IP only behind a proxy that
  sets `X-Forwarded-For`, else an IP with a port; see `rate_limit` in section 4); nobody who holds a
  connection waits for anything, so every request is answered;
* archives: hidden entries stay out, every other file can be asked for by its name, two names do not
  become one path;
* web session: a user in a cookie logged in at that browser; an error is shown, once; an authorize
  request waits in the cookie for a login, which resumes it, once.

`PROJECT.json` lists the hazards line by line, with the properties that would catch each.

## 2. Modules

| Module | Role |
|---|---|
| `ContentService` | the content service over its two tables, one action per SQL statement |
| `Catalogue` | what the content service promises callers that take turns: a call is one step on a whole entry |
| `ContentService_proofs` | types, ownership and uniqueness of slugs; files stay sealed under a passphrase; failed creates are undone; who supplied what is stored |
| `ContentSerial_proofs` | calls that do not overlap: whole uploads, envelopes in step (torn only by a fault) and guarded, no lost edit |
| `ContentCatalogue_proofs` | such calls implement `Catalogue` |
| `ContentSite` | visitors on top of `ContentService` (extends it; both run together) |
| `FrontEnds` | REST API, web forms and MCP tools on top of `ContentService` |
| `ContentClients_proofs` | forms are calls of the service and visits stutters of it, and seen through the forms it is a catalogue; unreadable forms are contained; fields change as a client asked; visitors get what is readable, under the present passphrase, without prompting again |
| `McpOAuth` | the OAuth server, token requests as concurrent processes |
| `McpOAuth_proofs` | types, one live credential per authorization, binding, delivery of tokens, access, and that the server implements `GrantChain` |
| `GrantChain` | what the OAuth server promises of one authorization |
| `Sessions` | the web session cookie: both logins, logout, messages, the stashed authorize request |
| `Sessions_proofs` | types, that sessions go back to logins, and what patient browsers can rely on |
| `RateLimiter` | the map of token buckets, its requests and its clean-up |
| `Capacity` | the connection pool and the key-derivation gate, calls as programs over both |
| `Arrivals` | the requests those two have in common |
| `Intake` | a request's way through the limiter into its handler: both together |
| `Intake_proofs` | types, a burst and what races add to it, connections are brief, whoever waits waits for somebody who is about to give way |
| `Archive` | from the names in an archive to the paths visitors ask for |
| `Archive_proofs` | types, what is hidden stays out, what is plain is found, one path is one name |
| `MC*` | the instances TLC checks |

### ContentService

A request is one call; `req[r]` holds its parameters, the statement it executes next (`pc`) and its
local variables, named as in the code: `cid` is `c.ID`, `row` the loaded `*model.Content`, `env` the
envelope about to be stored, `rewritten` the map of that name, `next` the position in the archive.
`content[c]` is the row that request `c` inserted (ids are never reused, so the inserting request names
the id) and `files` is the `content_file` table.

| Action | Code |
|---|---|
| `Call` | a handler calls the service with one of its `Plans` (`Make`); slug pattern (`content.go:114`) |
| `CheckSlug`, `InsertContent`, `PutFile`, `UndoCreate` | `SlugExists`, `CreateContent`, `CreateContentFile`, `DeleteContent` in `Create` |
| `LoadContent` | `ownedContent`, then everything `Update` decides before its first write (`Refused`, `NextEnv`, `Merged`) |
| `ListFiles` | `ListContentFiles` and the decryption and encryption of each payload |
| `ApplyEncryption` | the transaction of that name |
| `SaveContent`, `DropFiles`, `PutFile` | `UpdateContent`, `DeleteContentFiles`, `storeFiles` in `Update` |
| `DeleteContent` | `DELETE`, with the cascade of the foreign key |
| `Crash` | the process dies; nothing in flight continues |

Every statement may fail without effect (`err`) or, for a write, take effect and still report an error
(`lost`: the connection breaks after the commit). A data key is named by the request that drew it and a
payload is the list of keys it is sealed under, outermost first; a cipher opens exactly what it sealed.
Metadata values are named by the request that wrote them. `Overlap = FALSE` restricts the model to
calls on one slug that do not overlap, which is how a single owner uses the service; the restriction is
on the callers, the code is the same.

### Catalogue

A call takes up to six statements and more for its files, each with its own transaction. `Catalogue` is
what a caller is told: `shelf` holds whole entries (the calls the metadata come from, the passphrase to
read it with, the files), and a call is one step, `Publish`, `Edit` or `Withdraw`, or a refusal for one
of the stated reasons (`Refuse`: a slug that is taken, an entry of somebody else, a passphrase that is
wrong or missing). `ContentService!ImplementsCatalogue` maps the tables to it. A create takes effect at its
`INSERT`, a delete at its `DELETE`, an update when it is loaded: from there to its answer the entry on the
shelf is `Target`, what the call will have made of it, and before and after it is `Standing`, what the
tables say, where only files that the envelope opens count as pages. That the statements carry out what
was decided at the load is thus what the last of them is checked for, when the one takes the place of the
other.

A call that fails half-way leaves its entry in `lost`, and nothing is said of that entry any more: the code
repairs nothing. (`TornOnlyByReplacement`, `ReplacementRestores` and `UndoneCreate` say of it what there is to
say.) `Fail` lets a call lose only what it was publishing or what its caller owns at its slug, so everything
else survives every failed statement and every crash. Calls may find such a remnant in their way
(`Refuse`) or work on it (`Salvage`). A lost reply to the `DELETE` of an entry counts as such a failure.

### ContentSite

A visit is `AskFile` (one SELECT, then the decision of `serveFile`), followed by `Recheck` when
`notFoundOrLocked` has to look the entry up; or `AskUnlock` (the SELECT) and `Unlock` (after the key
derivation, on the envelope read before). `cookie[v][s]` is the data key the visitor carries, together
with the passphrase it was obtained with, which is history. `Canon` is the collation of
`file_path`: it says which paths the database compares equal.

### FrontEnds

`form[r]` is what the client of request `r` sent; `Translated` is the call a handler or tool makes of
it, or `None` when it refuses. `Submit` is that step and `Make` of `ContentService` in one; from there
on the statements are those of the service. `Read(f)` is a form whose multipart body cannot be parsed,
as seen by a handler that ignores the error (`EditSubmit`, `APIHandler.UpdateContent`): every field is
empty. An empty field is "leave it" to the REST API, "make it empty" to the web forms; a tool knows
omitted from empty. A file of no bytes (`empty`) is none to an update (`Replacement`), while a create
stores it: an empty page, or an archive that does not open. `PlansCoverForms` ties the constant `Plans` of the service to the forms.

### McpOAuth and GrantChain

`exch[x]` is a call of the token endpoint: authenticate, `SELECT ... FOR UPDATE`, `DELETE` and commit
with the checks that follow, `INSERT` of the successor, reply. `lock[k]` is the row lock of credential
`k`. The model lets clients present any credential anybody was told, any number of times, and lets
every credential expire at any time. `GrantChain` is the promise in five actions: issued once, taken,
renewed, lost; `McpOAuth!ImplementsChain` maps `live` to the set of credentials of an authorization
in the tables and `held` to the set of exchanges between commit and `INSERT`.

### Sessions

`jar[b]` is the session in browser `b`'s cookie. A request takes a copy with it (`Send`), a handler
works on the copy and may save it (`LoginSubmit`, `OidcLogin`, `Callback`, `Authorize`, `Logout`,
`Submit` for the three forms, `Page` for the three pages with messages, `TurnedAway` for
`SessionAuth`), and the response replaces the whole cookie when it arrives (`Arrive`). The browsers in
`Overlapping` have several requests under way; the others are patient and wait for each response, which
is again a restriction of the caller only. `Forget` is a
cookie that expires or no longer verifies, `Grow` a save that fails because the stashed URL
makes the cookie too long. States, stashes and messages are named by the request they
come from. `McpOAuth!Authorize` covers the rest of the authorize endpoint, for a user it is given.

### RateLimiter, Capacity, Intake

`RateLimiter` splits `getVisitor` where the code touches the map: `Lookup`, then `Insert` (a new
bucket, named by the request that made it) or `Touch`, then `Allow`; the clean-up goroutine is
`Inspect` and `Delete`. There is no lock, so all of them interleave; where two goroutines are at the
map at once and one of them writes (`Collision`), the Go runtime may end the process (`LimiterFatal`,
`Fatal`), which is one of the outcomes. Time is a `Tick` of a tenth of a second, one token of
every bucket. `clientIP` is the key of the map: an IP when a proxy names it, the IP and port of the
connection otherwise. `spent` and `extra` are history: what an address was let through beyond its
rate, and the tokens that races may have added for it: a burst when an `Insert` replaces a bucket or a
`Delete` takes one that has been used since it was inspected, a token when a request is served from a
bucket that has left the map. `Tick` assumes that no request stands a tenth of a second
between `getVisitor` and `Allow`, two consecutive calls without I/O.

`Capacity` describes a call by its program: `take` and `give` for each statement, result set or
transaction, `join` and `leave` for each derivation, in the order of the code: `ServeCall`, `UnlockCall`,
`CreateCall`, `EditCall`, `DeleteCall`, `ListCall`, `EncryptCall` (and its reverse), `RotateCall`,
`ReplaceCall` (a rotation with an upload), `TokenCall`, `HealthCall`. `Return` leaves a call early, between
two operations. `Disconnect` is for token
requests only: their statements run under the request's context, while the content service and
`deriveKEK` take none and go on for a client that has left. `Intake` puts both together:
a limited route calls `Start` in the step that passes `Allow`, the others at once (`middleware.go:135`).
What the REST API and the web pages both offer is in `Limited` and in `Spared`, and comes by either.

### Archive

A name is the sequence of its segments. `Extract` is one entry of `extractZip`: directories,
`__MACOSX` and hidden names are skipped on the name as it is in the archive, then `Normalized` is
`filepath.Clean` (a fold of `CleanSegment`) and the refusal of rooted and escaping paths. `Found` is
`ServeFile`'s refusal of `..` and the lookup by path.

## 3. Runs

| Run | Question | Bounds | Distinct states |
|---|---|---|---|
| `content_overlap` | Do overlapping calls of two users on one slug keep slugs unique, entries and files with their owner, failed creates undone, and no cleartext file under a stored passphrase? | 3 requests out of creates, every kind of update, deletes; 1 fault | 83 468 |
| `front_ends` | Forms of all front ends, one after the other, some unreadable or contradictory: are envelope and payloads in step, is every change one that a client asked for, is an entry torn only after a fault, does a fresh upload repair what a failure left? Does each call look like one step of `Catalogue`? | 4 requests, 1 fault; a create and a rotation also with a file of no bytes | 771 929 |
| `site_visits` | Is what visitors get readable, and obtained with the present passphrase, between any two statements of an update? | 3 requests, 1 visitor with 3 visits, 1 fault | 317 826 |
| `oauth` | Is there one credential at a time, bound to its authorization, in the database until presented; is every request answered; does the server implement `GrantChain`? | 2 clients, 2 users, 1 authorization, 2 token requests, 1 verifier, 2 faults, fair scheduling | 256 805 |
| `sessions` | Does a session always go back to a login at its browser, in every order of responses? Where responses are awaited, do messages and stash change only as they should? | 2 browsers, one of them patient; 3 requests, 1 fault | 139 601 |
| `intake` | Does an address get a burst, and another for each race, does nobody wait in vain, and is everyone answered, beside the clean-up, time, a disconnecting client and a runtime that ends the process? | 3 requests (a rotation; a create or an unlock; a token request or a probe; or three visitors), 1 address, `Burst`, `Hour`, `Conns`, `Slots` = 1, fair scheduling | 236 613 |
| `archive` | Hidden entries out, all others reachable, no two names on one path? | 7 segments, 3 per name, 2 entries | 478 401 |
| `content_race`, `content_torn`, `content_lost_edit`, `site_spelling`, `rate_limit` | Does the code do what a comment or document says? It does not: see section 4. | as small as the counterexample needs | |

Why the bounds are enough to be interesting. On one slug three overlapping requests are a creator, a
changer and a rival that may take the slug over; that is the shortest history with a stale id, a
UNIQUE conflict, or a delete under an upload. Four forms in a row are create, fail, change, repair.
Slugs are independent (every statement names one slug or one id), so one valid slug is enough; two
files distinguish a partial upload from a whole one; two passphrases distinguish rotation from a wrong
guess. Two token requests are a redemption and a refresh, or a replay beside either.
Three session requests are a login, a form and a page, or a stash, a login and what resumes it; two
browsers are what a callback opened in the wrong one needs. In `intake` one connection and one slot
make every pair of requests meet, one token makes the second request depend on the bucket of the first,
and a stale entry is one tick away. Three segments are a directory to enter, one to leave and a file;
two entries are what a clash needs. A fault is a failed statement, a lost reply or a crash, each
of them anywhere; a visitor's lookup may also fail, at each of its visits.

Deadlock checking is off in the `oauth` and `sessions` configurations, because
these systems stop when every authorization and request of the instance has been made;
`ContentService`, `FrontEnds` and `Archive` have an explicit last step (`AllDone`, `AllAnswered`, `Done`), and in `Intake`
time goes on.

Fairness. `McpOAuth!FairSpec` assumes weak fairness of the server's own steps of each
request (`Work(x)`), which is what the Go scheduler and a database that answers give; clients owe
nothing, and `err` outcomes are bounded by `MaxFaults`. `Intake!FairSpec` assumes the same of what a
request does in the limiter and with the pool (`Limits(r) \/ Works(r)`: a wait for a connection is not
a fairness assumption, as `Take` is disabled meanwhile). That derivations end is not part of it: `PlainAnswered`
does without, `EveryRequestAnswered` has it as its premise. Neither assumes anything of clients.

## 4. Where the code and what it says of itself differ

| Run | What is said | What happens |
|---|---|---|
| `content_race` | `store.go:42-44`: `ApplyEncryption` "keeps the envelope and the file payloads in step" | a rotation reads the payloads before its transaction; an upload that overlaps ends up under another key than the envelope's |
| `content_torn` | `store.go:54-57`: a single transaction, since "a partial change would either orphan ciphertexts (envelope lost) or leave plaintext claiming to be encrypted" | with a key change and an upload in one call the envelope is committed alone; a failure before the files are replaced leaves just that. `TornOnlyByReplacement` shows it is the only serial way, `ReplacementRestores` that a new upload repairs it |
| `content_lost_edit` | `content.go:57-58`: "Nil metadata pointers are left unchanged" | every column is written back from the loaded copy |
| `site_spelling` | `README.md:87-89`: the cookie lasts "so sub-resources load without re-prompting" | a path in another case is found by the database, does not decrypt, and the cookie is cleared |
| `rate_limit` | `middleware.go:90`: "RateLimiter provides per-IP rate limiting."; `templates/developers.html:269`: "10 requests/second per IP" | two first requests of an IP both find no entry, each makes a bucket, and the IP is let through beyond its burst. Without `X-Forwarded-For` no race is needed: two connections of an IP are two addresses |

The first three need two calls on one entry at a time, or a fault. The passing runs say what holds
instead: `SealedAtRest` with overlap, and without it the properties of `front_ends`; `OnlySupplied`
bounds what an edit may change whoever sends it, and `SingleUpload` is what two overlapping uploads to
one entry would break. What holds of the limiter is `RacesCostABurst`: the excess is a burst for each race
at an entry, and nothing else adds to it. The run has its clients behind a proxy, the case the limiter is
made for.

The stash of an authorize request differs from what is said of it, too: `README.md:114-115` says that an
unauthenticated client "is bounced through `/login` and resumed automatically", but the session has one
key for it (`mcpoauth.go:107`), so of two clients that wait for a login the first is never resumed. What holds
is `StashReachesLogin`, checked in `sessions` and proved: nothing but a login that resumes it, a later
authorize request or the end of the cookie takes a stash away.

One more disagreement changes no state and has no run: the description of `new_passphrase`
(`internal/mcp/server.go:110`) says "The files themselves are not rewritten", while `rotatePassphrase`
(`content.go:388-424`) rewrites them all under a new key, as its own comment says and as the model does.

## 5. Proofs

Everything here holds for every set of requests, users, slugs, paths, passphrases, clients, addresses,
authorizations, visitors and token requests, every plan of calls and every bound on faults, connections
and derivations. It holds with or without overlap, except where the table says "serial": these theorems
assume `Overlap = FALSE`; `content_race` and `content_lost_edit` show what overlap breaks. The assumptions are those of the modules, which the runs evaluate:
`None` is none of the other values (`NoneAssumption`, `OAuthAssumption`, `ArrivalsAssumption`), plans and
forms are sets of parameters and agree (`PlansAssumption`, `FormsAssumption`, `PlansCoverForms`), codes and
refresh tokens are different things (`OAuthAssumption`), a bucket refills within the hour
and addresses are IPs, or IPs with ports (`LimiterAssumption`), requests make the calls of `Kinds`
(`CapacityAssumption`), sizes and bounds are numbers (`BoundAssumption`, `SessionsAssumption`,
`CapacityAssumption`), dots make a segment hidden and the blank segment has none (`ArchiveAssumption`).

| Theorem | Statement | Argument |
|---|---|---|
| `ContentService_proofs!TypeCorrect` | `Spec => []TypeOK` | `TypeInv` adds `Shape`: which local variables of a request are set at which statement. Without it `InsertContent` could insert `None` and `PutFile` index past the archive |
| `ContentService_proofs!SlugsAreUnique` | `Spec => []UniqueSlug` | the check and the `INSERT` race, the UNIQUE key decides; an update never changes a slug |
| `ContentService_proofs!FilesStayWithOwner` | `Spec => []OwnerIsolation` | see below |
| `ContentService_proofs!OwnersWrite` | `Spec => OnlyOwnerWrites` | see below |
| `ContentService_proofs!FilesStaySealed` | `Spec => []SealedAtRest` | see below |
| `ContentService_proofs!FailedCreatesAreUndone` | `Spec => []UndoneCreate` | see below |
| `ContentSerial_proofs!UploadsStayWhole` | serial: `Spec => []SingleUpload` | see below |
| `ContentSerial_proofs!TornOnlyIfRekeyed` | serial: `Spec => []TornOnlyByReplacement` | see below |
| `ContentSerial_proofs!OnlyFaultsTear` | serial: `Spec => []TornOnlyByFault` | see below |
| `ContentSerial_proofs!ReplacementsRestore` | serial: `Spec => ReplacementRestores` | the last `PutFile` of an upload leaves its own files only, under the envelope it works with |
| `ContentSerial_proofs!PassphrasesGuard` | serial: `Spec => PassphraseGuards` | the envelope that was checked at the load is still the one in the table |
| `ContentSerial_proofs!NilIsKept` | serial: `Spec => NilLeavesUnchanged` | the copy that is written back is still true (`Unedited`); `content_lost_edit` shows it is not with overlap |
| `ContentCatalogue_proofs!ServiceIsCatalogue` | serial: `Spec => ImplementsCatalogue` | see below |
| `ContentClients_proofs!SiteImplementsService` | `SiteSpec => Spec` | a visit is a stutter of the service |
| `ContentClients_proofs!VisitorsCanRead` | serial: `SiteSpec => ServedReadable` | see below |
| `ContentClients_proofs!RotationLocksOut` | serial: `SiteSpec => RotationRelocks` | see below |
| `ContentClients_proofs!UnlockLasts` | serial, and `Canon` tells the paths asked for from all others that files are uploaded to: `SiteSpec => UnlockedStays` | see below; `site_spelling` shows what happens without the second assumption |
| `McpOAuth_proofs!TypeCorrect` | `Spec => []TypeOK` | conjunct of `Inv` |
| `McpOAuth_proofs!RedeemedOnce` | `Spec => []OneLiveCredential` | see below |
| `McpOAuth_proofs!TokensStayBound` | `Spec => []BoundToAuthorization` | the checks of `Commit` on one credential carry over to its successor |
| `McpOAuth_proofs!ToldTokensExist` | `Spec => []ToldIsRedeemable` | a token is told after its `INSERT` was acknowledged, and only a request that presents it deletes it; when it is gone, such a request has taken it or is over |
| `McpOAuth_proofs!AccessIsKept` | `Spec => []AccessKept` | see below |
| `McpOAuth_proofs!ServerIsChain` | `Spec => ImplementsChain` | see below |
| `ContentClients_proofs!FrontEndsImplementService` | `FrontSpec => Spec` | a form is one call of its plan, or a stutter |
| `ContentClients_proofs!FrontEndsIsolateOwners` | `FrontSpec => []OwnerIsolation /\ OnlyOwnerWrites` | the previous theorem and the two on ownership |
| `ContentClients_proofs!FrontEndsKeepInStep` | serial: `FrontSpec => []SingleUpload /\ []TornOnlyByReplacement /\ []TornOnlyByFault /\ PassphraseGuards /\ ReplacementRestores` | likewise, from the theorems on serial calls |
| `ContentClients_proofs!FrontEndsAreACatalogue` | serial: `FrontSpec => ImplementsCatalogue` | likewise, from `ServiceIsCatalogue` |
| `ContentClients_proofs!UnreadableIsContained` | `FrontSpec => []UnreadableContained` | see below |
| `ContentClients_proofs!OnlySuppliedChanges` | serial: `FrontSpec => OnlySupplied` | see below |
| `Intake_proofs!TypeCorrect` | `Spec => []TypeOK` | see below, under counting |
| `Intake_proofs!WaitingEnds` | `Spec => []NobodyWaitsInVain` | see below, under waiting |
| `Intake_proofs!BurstIsLimited` | `Spec => []RacesCostABurst` | see below, under the limiter |
| `Intake_proofs!ConnectionsAreBrief` | `Spec => []HoldsNothingElse` | see below |
| `Archive_proofs!TypeCorrect`, `!FilterHolds` | `Spec => []TypeOK`, `Spec => []HiddenFiltered` | see below |
| `Archive_proofs!PlainFilesFound`, `!PathsTellNames` | `Spec => []NothingLost`, `Spec => []OnePathOneName` | see below |
| `Sessions_proofs!TypeCorrect` | `Spec => []TypeOK` | conjunct of `Inv` |
| `Sessions_proofs!SessionsAreEarned` | `Spec => []SessionsFromLogins` | see below |
| `Sessions_proofs!LoginsResumeOnce`, `!MessagesShowOnce` | `Spec => []ResumedOnce`, `Spec => []ShownOnce` | see below |
| `Sessions_proofs!StashesAreResumed`, `!ErrorsAreShown` | `Spec => StashReachesLogin`, `Spec => ErrorsReachOwner` | see below |
| `Sessions_proofs!UsersLogIn` | `Spec => UserByLoginOnly`: at a patient browser the user changes by login and logout only | see below; no run checks it |

**Ownership.** `OwnerIsolation` is not inductive: the service checks the owner once, at the load, and then
works on the id, while the entry may be deleted and its slug taken by another user. The invariant
`Ownership` says why that is safe. An id names the request that inserted the row (`RowOwner`), whose
owner never changes (`ParOnce`); a request that knows an id has the same owner as that request
(`SameOwner`), and keeps it even when the row is gone; files hang off existing rows, the one their
uploader works on (`FileOwner`: the foreign key and its cascade). Each statement is first shown to be
`Lawful`: it moves one request, touches at most the row and files of that request's `cid`, and inserts
only what `Ownership` allows; `LawfulKeeps` then proves once that lawful steps preserve the invariant,
and `OwnersWrite` reads the property off the same summary.

**Files stay sealed.** An upload seals with the envelope it loaded, and by then a rotation may have stored
another: the key cannot be in the invariant. `Sealed` says instead that every request at work on a
guarded entry (created with a passphrase, nobody has begun to remove it) is `Sealing`: the row it loaded
has some envelope, so has what it is about to store, and no payload it has rewritten is cleartext. A row
of such an entry is never without an envelope, so a later load cannot find one missing. Each action is
shown to keep this for the entry of its request (`Kept`), and `SealedBefore` covers requests that become
known, of whose id nobody else can have heard.

**Failed creates.** `Creating` follows a create: until the `INSERT` its id has no row; from then on it is the
only one that stores its files, and once it has failed it is at the `DELETE` or a fault is counted. Others
may delete its row, but none brings it back (`OthersKeepCreating`, from `Lawful` above).

**Calls that do not overlap.** `Serial` says that at most one call is at work on a slug (`Alone`), that what
this call has read of its entry is still so and the payloads it is about to put back fit (`Abreast`), and
that every entry is whole: its files come from one upload, and are in step unless some call changed
envelope and files at once (`Whole`, `Clean`). `Alone` is the guard of `Call`; that a call at work knows the
only entry at its slug comes from `SameSlug` and the ownership invariant. Each action is shown to do its
`Own` part: it leaves its own copies true and its entry whole, changes an envelope only with the passphrase
it is under (`Guards`), and leaves the entry in step when it ends an upload (`Restores`). Everything else
is out of its reach by `Lawful`. A crash anywhere leaves entries as they are, which is whole at every
statement.

**Without a fault.** `TornOnlyByReplacement` names the one kind of call that can tear an entry, and `TornOnlyByFault`
says that even this one takes a fault to leave it torn, although it can also fail by itself, on a broken
archive. `Settled` is the invariant: an entry is in step, or a request at `save` or `drop` is about to
remove its files (`Replacing`, `Rests`), and what a rotation is about to put back fits the envelope it
stores with it (`Fits`). The errors of the service's own making come before the envelope is stored, or
when the files have gone already; `StepLeaves` goes through the statements.

**The catalogue.** The invariant is `Ready`, of each call between its statements (`Underway`): what is about to
be inserted is the row its parameters call for; what `apply` is about to put back are the files in the
table, each of which the old envelope opens; from `save` on the table has the envelope the call is working
with, from `drop` on its metadata too, and at `put` the files are the first `next - 1` of its upload. The
files need not be said to bear the right seal, as `Serial` has that. Calls for other slugs touch other ids
(`OthersReady`, from `Lawful` and `Alone`), and that an id at work has been inserted is `Begun`. Then every
statement is one step of the catalogue or none: a load is `Edit`, `Refuse` or `Salvage`, an `INSERT` is
`Publish`, a statement in the middle none, the last one `Reply`, where `Ready` makes `Standing` equal to
`Target`; one that fails (`WorkFails`), and a crash of all calls at once (`CrashCatalogued`), is `Fail`.
`Unmoved` collects when the entries of the other calls stay on the shelf as they are.

**Where things come from.** Values in the tables bear the name of the request that supplied them, and
`Authored` says that it did: the request whose name a data key bears drew it for a passphrase it was given
(`Drew`), the one whose name a field bears sets that field or created the entry (`Gives`), files come from
requests with an upload; the same goes for the copies that requests carry (`Made`).

**Visitors.** Visits only read, so `Serial` and `Authored` hold at any number of visitors
(`SiteImplementsService`). `Held` adds that every key in a cookie, or derived by a visit that has not
answered yet, was drawn (`Drew`), and there is one envelope to a key (`OneKey`). A file of a steady entry
bears exactly the seal of the envelope in the table (`SteadySeals`), so a cookie whose key opens it holds
that very envelope, with its passphrase, whenever it was obtained; and what is served is cleartext. A
visitor with this key is turned away only by a file that does not open, and that can only be one stored
under another path, as the path is associated data of the cipher: hence the assumption on `Canon`, which
speaks only of paths that some call uploads a file to; that no statement stores a file anywhere else is
the invariant `Placed` (of `ContentClients_proofs`), for which a rewritten payload must keep its path.

**Front ends.** A call has the parameters its form translates to (`Forwarded`). A form that could not be
read creates nothing and gives no file, no passphrase and no field, but for the blanks of the edit form
(`UnreadableGivesNothing`); by `Authored` what is not given is not stored. Likewise `OnlySupplied` is
`NilIsKept`, read through the translation.

**One live credential.** `OneLiveCredential` is not inductive either: in a state where two requests are
between `SELECT` and commit on one credential, both would go on to issue. `Inv` adds that such a request
holds the row's lock and the row is there (`Holding`), that a request's own token appears only after its
`INSERT` (`Drawn`), that what is about to be issued belongs to its authorization (`Issuing`), and that
stored codes were granted (`CodesGranted`). `QuietKeeps` handles the steps that touch no credential; the
heart is `CommitKeeps`, where the one credential of an authorization is replaced by the request that
took it, and `IssueKeeps`, where that request is replaced by its token. The same invariant was checked
with TLC on small instances before it was proved.

**Access.** That a client keeps what it was granted is about the past: who took a credential was told it
and presented it, and answers for the access (`Access`) until its own token is told in turn. `Lineage` ties
that token, and the request before it is stored, to the authorization of what was presented; `Onward`
collects what no step takes back (what was told, expired, presented), so a wasted credential stays wasted
(`SpoiledForGood`). The commit either takes the credential and goes on to issue, or spoils it; the only
other ways out of `issue` and `reply` are faults (`NoFault`).

**The chain.** `McpOAuth` maps to `GrantChain` by sets: `live` is the credentials of an authorization in
the tables, `held` the exchanges between commit and `INSERT`. `OneLiveCredential` (proved before) makes them
at most singletons, so the commit that deletes one credential empties `live` (`CommitTakes`) and the
`INSERT` that follows empties `held` again (`IssueRenews`); a crash loses what was held
(`CrashLosesHeld`), and everything else leaves both alone.

**The limiter.** `LimiterInv` relates `spent` to the bucket in the map. `Missing(i)` is what that bucket lacks of
a full one, nothing for an address without an entry, and `Accounts` says `spent[i] <= extra[i] + Missing(i)`: the
property follows, as a bucket lacks at most a burst. The rest of the invariant carries the steps that
touch the map. Only requests of an address make its buckets (`OwnBuckets`), so a token is missing from the
right one; a bucket fills up before its entry grows stale (`Refilled`: this is where `Hour >= Burst` comes in),
so an entry deleted after its hour takes nothing along, and one that was used since it was inspected costs
the burst that `Delete` adds; who has just read the entry of an address has made it young again
(`JustSeen`), also when it has left the map; the entry that the clean-up is about to delete is there
(`StaleIsThere`).

**Connections.** Every call is put together from statements and derivations (`Paired`, `Whole`: closed under `\o`), so what
is left of it is whole again, or whole after one `give` or one `leave` (`BetweenOperations`); who
queues or derives is before a `leave` (`AtTheGate`), hence not before a `give`. The proof uses of the
programs only how they are put together: a new call needs no new proof.

**Counting.** A request that holds a connection holds exactly one (from the previous invariant), so the
connections in use are as many as their holders: `PoolCounted` says that `Holders` is finite and, with `free`,
makes up `Conns`. `GateCounted` does the same of the slots. Each step adds or removes at most one member.

**Waiting.** `NobodyWaitsInVain` needs that whoever is at a derivation has a slot or a place in the queue, and
that there is no queue while a slot is free (`Served`); the second is what `Leave` must restore when it
hands its slot on. With `Counted`, a pool without a free connection has a holder, who gives it back next,
and by `AtTheGate` those who have the slots leave next. That they all get to do so is liveness, for TLC.

**Archives.** `Clean` and `Squeezed` fold a name of any length. The fold is a recursive function on finite
sets, whose values on the sets `1 .. k` are those of the prefixes of the name (`Upto`, `UptoSteps`); that
it has values at all (`FoldExists`) and what holds of every prefix is shown by induction, stated with a
set of numbers instead of a predicate (`AllOfNat`, from the least element of a set of numbers). On names
that are not hidden the clean-up only drops empty segments (`CleanSqueezes`), so a path tells the name up to
those (`OnePath`), and a plain name keeps what made it plain (`PlainKept`). `Placed` then says that every
entry passed so far is stored at its `PathOf`.

**Sessions.** What a cookie says must also hold of every copy under way, since any of them may become
the cookie. `Inv` calls a session `Honest` at a browser when its user logged in there and its state was
drawn there; copies that requests carry are honest, and copies in responses are honest or will be on
arrival, because the response is itself the login (`Promised`). `Answers` is what all handlers have in
common: they keep the user and state they read, except a login, which needs credentials or a state that
fits, and the start of an OIDC login, which draws one.

**Patient browsers.** A browser that waits has at most one request under way, whose session is still the
cookie (`Waits`, `Current`), so its response can be told from the cookie it will replace (`Follows`): another
user only by a login or a logout, a message removed only if shown, a stash removed only if resumed or
replaced by the request's own. A
response that arrives makes this so of the cookie. What was resumed or shown has left the cookie and
does not come back, because requests name stashes and messages and each handles its own once (`Settled`,
`Past`).

## 6. Only model-checked

* Liveness (`Answered`, `PlainAnswered`, `EveryRequestAnswered`): the prover does not reason about
  fairness and ENABLED. Every other property that a passing run checks is proved: all invariants, all
  action properties and both refinements.
* The properties of the runs that end in a violation, which are false as the runs configure them:
  `EnvelopeInStep`, `SettledInStep`, `UnlockedStays` with a collation that folds case, `BurstPerIp`, and
  `NilLeavesUnchanged` with overlap.

## 7. Not modelled, and why

* Cryptography beyond which key opens what; the parameters of Argon2id; the wording of pages.
* `List`, `Get` and the file list in responses: they change nothing. For the same reason the page
  number of the dashboard, the status codes of the REST API, and `safeNext`, which only shapes a redirect.
* Access tokens and HTTP Basic authentication: stateless checks of a signature or a password. CORS,
  security headers and the request log keep no state either.
* Archive names that begin with a backslash (refused like rooted ones), the decompression of
  entries, and directories by the mode bits of an entry (`content.go:472`): `IsDir` looks at the slash; in the model as in the code a name that begins with `./` counts as hidden.
* Pages that only read the session (`LoginPage`, `DevelopersPage`), templates that fail to render: a page has
  saved the session by then (`web.go:356-361`), so the messages it took out are lost with it.
* How a request path is decoded (chi routes by `RawPath` when there is one) and, in `Archive!Found`, the
  collation of `file_path`, which `ContentSite!Matching` has.
* Reading the configuration, wiring and shutting down the server, and the migrations, which
  golang-migrate runs.
* Two instances of the server with different code, and changes of the database by hand.
* The MCP and OIDC protocol libraries, MySQL beyond row locks, the UNIQUE key, the
  foreign key with its cascade and atomic single statements.

## 8. Plan

How much of `Catalogue` is left with overlap: creates and deletes take effect in one statement and should
still be steps of it, two updates of one entry are not (`content_lost_edit`). A theorem would have to
say which calls may overlap.
