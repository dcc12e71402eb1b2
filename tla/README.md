# NinerLog API: formal verification

NinerLog is a pilot's logbook: a Go HTTP API (gin) over PostgreSQL, with background
workers in the API process. This directory holds TLA+ models of it, the TLC
configurations that check them on small instances, and TLAPS proofs of the main
invariants for instances of every size. The models put the weight where tests reach
least: requests, replicas, workers, mails and failures that interleave, and
arithmetic at the edge of a day or a window.

Contents: [inventory](#1-inventory), [how the project is built](#2-how-the-project-is-built),
[modules](#3-modules), [runs](#4-runs),
[where code and documents disagree](#5-where-code-and-documents-disagree),
[proofs](#6-proofs), [what is not modelled](#7-what-is-not-modelled).

To check one model: `tlc -config MCSessions.cfg MCSessions`; one set of proofs:
`tlapm SessionsProofs.tla`.

## 1. Inventory

Layers: `internal/api/handlers` (HTTP) call `internal/service` (rules), which call
`internal/repository/postgres` (SQL). Almost every operation is a few statements
outside a transaction under READ COMMITTED, and several replicas may serve one
database. Two requests therefore interleave at every statement, each can be cut off
between two statements (the request's context ends after 15 s, a statement fails,
the process dies), and whoever reads a row and writes *all* of it back undoes what
happened in between. That is the recurring theme of the models.

| Component | State it keeps | Operations | What is hard | What makes it correct | Module |
|---|---|---|---|---|---|
| Sessions (`service/auth.go`, `session.go`) | `refresh_tokens`: revoked, rotated_at, session_id, expires_at | login with eviction, refresh with rotation and reuse grace, logout, revocations, purge | two clients rotating one token; rotation racing a revocation; lost replies | only revocations end sessions; ended sessions stay ended; issued tokens work | `Sessions` |
| Account row (`auth.go`, `twofactor.go`) and tokens by mail | `users`: hash, lockout counter, 2FA secret, recovery codes, address; reset and verification tokens | login, changes of password, address, profile and second factor, reset, verification, disabling | whole-row updates against targeted statements; lockout counted on a stale read | the lock comes in time, codes are used once, an active secret is proven | `Account` |
| Administration (`admin_role.go`, `postgres/admin.go`) | `users.is_admin`, the bootstrap address | grant, revoke, disable, delete | admins acting on each other at once | a last administrator stays | `AdminRoles` |
| OIDC, WebAuthn | login states, handoff codes, linked identities, ceremonies, sign counters | begin, callback, exchange, finish, evict, reap | replay, mixed-up browsers, late answers, claims that change | single use, bound to who began, right account | `OIDCLogin`, `WebAuthn` |
| Unverified-account reaper | `users.email_verified`, reminder stamps | list a batch, mint, mail, stamp, delete | the owner's return racing the sweeps of replicas | only abandoned accounts go, and they do go | `UnverifiedAccounts` |
| Email delivery (`pkg` mailer, `email_delivery.go`) | `email_events`, suppressions, a gauge | send, record, suppress, lift | each step fails on its own; spellings | suppressions are earned and honoured | `EmailDelivery` |
| Idempotency keys | `idempotency_keys`: state, hash, response, created_at as fencing token | claim, take over, replay, refuse, settle, reap | late settlement after a takeover; crash between execution and record | one execution at a time, none after a recorded completion | `Idempotency` |
| Cloud backup engine | `backup_destinations`, `backup_runs`, lock maps in memory | scheduler tick, dispatch, run, edit, test, delete | copies read before locks; whole-row writes; two kinds of locks; restart | one run per destination; no leaked lock; honest status; a skip means the payload was stored | `CloudBackup` |
| Backup providers, network guard | the remote folder | connect, upload, list, delete | broken transfers; addresses that change | a stored backup is whole, the newest stay, only allowed servers are reached | `BackupProviders` |
| Flight signatures | `flight_signatures`, `flights.signature_id` | sign on the device, request by link, resend, complete, revoke, void, expire | signature and lock are two statements; whole-row writes | a lock stands for a completed signature of the current fields | `FlightSignatures` |
| Flights and the strict logbook (`service/flight.go`, `logbook*.go`, migration 000079) | `flights`, `flight_revisions`, mode, certifications | create, update, delete, recalculate, switch modes, certify | classification before the transaction | every replaced state is kept and explained | `FlightLog`, `FlightHistory` |
| Calculated columns, function of the pilot | columns of a flight | create, update, recalculate | overrides, midnight, crew loaded or not | minutes count once, calculation is stable | `FlightCalc` |
| Live flight sessions | `flight_sessions` | tap, complete, discard | two phones, repeated taps, death half way | one plausible flight per session | `FlightSessions` |
| Aircraft, contacts, licences, ratings, credentials; delta sync | their rows, tombstones, `updated_at` | create, update, rename, delete, pull changes | late commits, renames across flights | no change is missed, names stay unique, signed flights stay | `Records` |
| Custom rules and reports, document files | rows with quotas, share tokens, positions | create, change, share, adopt, order, upload | counted before inserted; whole-row writes | limits, ended sharing, order | `Collections` |
| Export and restore | the whole of an account | gather, plan, restore in three modes | torn files, taken ids, repeated restores | history only grows, voided stays voided | `Restore` |
| Spreadsheet import | upload sessions in memory | upload, recognise, preview, confirm | overlapping confirmations | nothing twice, nothing unaccounted for, preview honest | `ImportRows`, `Import` |
| Currency (`service/currency`) | none (computed) | evaluate ratings, passengers, reviews, custom rules; search the lapse day | window arithmetic, the search's jumps | the dates shown are the dates that come | `Currency` |
| Statistics, analytics, maps, lists | none (read) | statements that make one page | writes between the statements | the breakdowns agree | `Reports` |
| Flight search (`internal/flightsearch`) | none | parse, convert, evaluate | a parser without a scanner, three-valued SQL | a query means what it says | `FlightSearch` |
| Notifications | `notification_log`, preferences | daily check per user, release of failed sends | replicas and triggers at once; doubtful mails; midnight | one mail per notice; every due notice goes out | `Notifications` |
| Update checker, airport data | cached releases and comparisons; an immutable snapshot | refresh, compare, reload, look up | failures of one source, bounded cache | no false alarm, nothing usable lost | `UpdateCheck`, `AirportData` |

Interactions: administration and password changes revoke sessions; the idempotency
middleware surrounds every writing request and depends on the request budget of
`middleware/timeout.go`; signatures lock flights and are erased with them; restores
carry revisions of the strict logbook; notifications read currency, credentials and
preferences; backups build the same payload as exports and are read by restore; the
tickers of notifications, backups and the reapers run in every replica.

`PROJECT.json` lists every component with its status, and under "hazards" the places
where a step of another actor, a failure or a boundary can do harm and a property
watches it. Where the code gives way, the behaviour is in section 5.

## 2. How the project is built

Each component is a module of its own, and a component is modelled with the statements
of its code as steps. Five have a run and a proof module of their own (`Sessions`,
`Idempotency`, `CloudBackup`, `FlightSignatures`, `Notifications`); the reaper has a run of its
own and is proved in `NotificationsProofs`. The others are checked in three composites:

* `MCIdentity` extends `AdminRoles` and instantiates `Account`, `OIDCLogin`, `WebAuthn` and `EmailDelivery`;
* `MCLogbook` extends `FlightLog` and instantiates `Records`, `Collections`, `Restore` and `FlightSessions`;
* `MCEvaluation` extends `Currency` and instantiates `FlightCalc`, `Reports`, `Import` (with `ImportRows`),
  `UpdateCheck`, `AirportData`, `BackupProviders` and `FlightSearch`.

In a composite the variable `part`, chosen at the start, says which component a behaviour
exercises; the others keep still. The components of one composite do not share rows in the
code, so their product would only multiply interleavings of steps that commute. A
property of a composite names, with `part = ...`, the component modules' properties it
stands for. The module that the composite *extends* is the one whose properties are
checked under their own names. What a proof assumes of the constants of a composite is
an `ASSUME` of the composite (or of the module it extends), so that TLC evaluates it on the instance.

Where one component needs a fact of another it takes it in reduced form: `Notifications`
has an expiry date and a lapse day for what `Currency` computes, `FlightSignatures` has
edits of the flight for what `FlightLog` does, `FlightLog` has signing as an action that
sets the lock.

**Abstract specification.** `FlightHistory` says what the strict logbook promises: while
strict mode is on, every change of what the logbook shows appends the replaced state to
the flight's history, and nothing is ever removed from it. `FlightLog!HistoryKept` states
that `FlightLog`, with its requests, copies, triggers and certifications, implements it
under the mapping from a row to its recorded columns and from the revision rows to
their snapshots. TLC checks it in `logbook`; `LogbookProofs` proves it (`LogbookKeepsHistory`).

**Left to do.** Every safety property of the runs is proved except those of `MCEvaluation`
(section 6 says why). What would extend the project: an abstract specification in which
every account operation is atomic, refined as far as section 5 allows; a composition of
`Currency` with `Notifications`; the parts of section 7.

## 3. Modules

Most state machines take one user, one key or one flight, because every statement of
the code concerned is scoped by that id. A process is a request, a goroutine or a
replica; `pc` names its next statement; a step is one SQL statement, one call to the
outside or one access to shared memory. Copies a process took of a row are variables
of their own. History variables record what the tables no longer show; no guard reads
them. Definitions keep the names of the functions they model; `PROJECT.json` maps each
one to its lines. A definition preceded by `Mutant:` is a plausible mistake in the
definition after it; it is used only to show that the properties notice it.

### Sessions
`rowState`, `rowSession`, `rotatedAt`, `expiresAt`, `lastUsed` are the columns of
`refresh_tokens` (`lastUsed` per session), `disabled` is `users.disabled`. A login is
`LoginChecked`, `EvictOldestSessions` (or `EvictFails`, which the code only logs) and
`CreateSession`. A refresh is `RefreshRefused`, or reads (`RefreshLive`,
`RefreshGrace`, `RefreshReplay`), then `CheckLive`/`CheckEnded` and `InsertInLive` (one
transaction holding `FOR SHARE` on the user row), then `MarkRotated`. `Logout`,
`RevokeSession`, `RevokeSessionsExcept`, `RevokeAllForUser` wait for that lock;
`DeleteForUser` (disabling a user, resetting a second factor) does not. `Fail` ends a request anywhere.

### Idempotency
One row `rec`. `Send` reads the clock (`stamp`, the later `created_at`), `Claim` is the
upsert that inserts, takes over an expired or stale row or affects no row
(`ClaimConflict`, followed by `Get`, which gives the `Verdict`). `Respond` is the end of the
handler; `Finish` or `Abandon` settle, fenced by `created_at`; `SettleFails`, `Crash`
and `ClaimReplyLost` are the failures; `DeleteExpired` is the reaper. `Budget` is the
life of a request's context.

### CloudBackup
`row` is `backup_destinations`, `okRuns` the hashes of `backup_runs`, `remote` what the
provider stores; `cur`, `inflight`, `userBusy` are the lock maps in memory. `Dispatch`
is the scheduler, `RunBackupNow` the request; both continue with `InitLocks`,
`ReadDestination`, `TryAcquire`, `CreateRun`, `Build`, `Upload`, `Prune`, `UpdateRun`,
`RecordRun`, each with its failure. `EditBegin` with `UpdateDestination` or
`TestDestination` are the read and the whole-row write of an edit. `Restart` loses the
memory and the processes.

### FlightSignatures
`flight` is the row with its lock, `sig` the rows of `flight_signatures`, `links` the
tokens generated so far. Signing on the device is `SignLive`, `CreateLive`, `SetSignatureLock`;
a request by link `CreateRequest`, `GetPending`, `CountEmails`, `CreatePending`,
`SendMail`, `MarkEmailSent` (`CountFails` says whether the count may fail, which is no breach of the
quota); its completion `LookupPending`, `HashFields`,
`CompleteFromToken`, `SetSignatureLock`; `Void` continues with `WriteVoided` and
`ClearSignatureLock`. `ReadFlight` with `UpdateFlight` or `DeleteFlight` are what the
lock is meant to stop. `stale` records that some write went by an outdated copy, `died`
that a request ended between signature and lock.

### Notifications
`claims` and `skips` are the keys of `notification_log`. A check is `StartCheck`, one
`Evaluate` per stream, then `ClaimSkipped` for the farther thresholds, `Look` or
`LookRefused` (the `NOT EXISTS` of a lapse claim, which under READ COMMITTED can be
older than its insert), `Claim` or `ClaimHeld`, `Send` or `SendFails` (where the server
may have accepted the mail all the same), `ReleaseNotification` or `ReleaseFails`;
`Die` ends it anywhere. `NoticeOf` decides which notice is due; what the currency
engine computes is reduced to `fact`: the expiry date and the last day on which the
requirement is met. `GetPreferences` and `UpsertPreferences` are the read and the
whole-row write of a preference change.

### Account
`row` is the users row, `cp[p]` the copy request `p` will write back, `pc` its next
statement. A wrong password continues with `IncrementFailedLogins` and the comparison of
the *read* counter; password, profile, address and second-factor changes read, check and
end in `UpdateUser`, which writes every column except the ones targeted statements own.
Recovery codes are removed by a statement of their own, after which the counter is cleared if
it was not zero when the request read the row (step `consumereset`). Links are mailed, consumed and expired.
`stale` records a whole-row write by an outdated copy, `handed` the recovery codes drawn so
far (a new one is none of them), `died` the requests that ended when they were about to lock.

### AdminRoles
`guardedWrite` is one transaction that locks the rows of all admins and of the target
(`admin.go:353-400`); a request first checks its caller on a copy. Self-deletion and the
whole-row update are outside the guard; `unguarded` records when they matter.

### OIDCLogin, WebAuthn, EmailDelivery, UnverifiedAccounts
A flow is a state row, a cookie in one browser, a code from the provider, a callback in
statements (look up the identity, look up the address, create or link) and a handoff
code that is exchanged in three (consume the code, read the account, store the session). Claims and accounts change at any time; `moved` are the people whose
address changed during a login, at the provider or by another person's login in an account it
concerns. A ceremony is stored, older ones are evicted by
another statement, and finishing it is consuming, checking and storing the counter. A
send is the lookup of suppressions, the stages of SMTP with their classification, the
event, the suppression and the gauge. A sweep lists, mints, mails, stamps and deletes, while
the owner comes back, changes the address or writes a whole row from a copy (`UpdateUser`);
times are kept as the two comparisons the code makes (age due, stamp past).

### FlightLog, FlightHistory
`flight` and `revs` are the tables, `req` the requests. An update reads the flight
(`ReadForUpdate`), is read again and classified (`UpdateFlightWith`, `ClassifyEdit`), and
commits (`update`) with the triggers' revision as part of the transaction. A request carries
what its classification was based on, so that a revision can say whether it was overtaken. The capture
trigger reads the mode at the statement and without a lock; as one step with the commit this is the order
edit, then switch. Creation,
deletion, bulk deletion, recalculation, renames of contacts, certification, the mode
switch and signatures are actions beside it. `Patches` are functions on some columns.
Registrations that a recalculation makes canonical in the fleet are updates of aircraft in `Records`.

### Records, Collections
A row of any kind is a key (registration or name), the other columns as one value, and a
link. A request reads and patches a copy, begins a transaction (whose time is
`updated_at`) and commits; a rename also writes the flights and the live session that carry
the old name. The client has a `mirror`, a `mark` per collection and its
position in the deletion feed, which is ordered by `deleted_at` and id (`Earlier`; `Rank` is
the order of the ids); `late` records a commit behind a mark. A pull and a rename with the flights
it writes are one step each: the transaction's commit makes them so for others, apart from pages by offset
(section 5). `Collections` has
the three quotas, share tokens with `stale` whole-row writes, and reports. The position of a new report is
computed by the insert (`reportInsert`) and stored later (`reportStore`), so two creations may get one;
the order is kept as the pairs `ordered`: which one was put, or seen by the insert, before which.
`overlapped` are the accounts with two creations of one kind at once, `given` the ids given out.

### Restore, FlightSessions
`Gather` reads in several statements (`torn` marks a file read while a flight was being
deleted); `Plan`, `assignFlightIDs` and the transaction follow `restore.go`: an id of the file is
kept when nobody else has it, and the history in the file is appended where it goes beyond
the account's. The trigger `flight_revision_finalize` is deferred: it runs at the commit, compares each
flight with what it was before the transaction, and so writes a void record only for a flight that does not
come back under its id. `lost` are signed flights dropped by a replacement that began before they were signed. A tap reads
the open session, changes its copy and writes it all; going on block creates the flight
first, with the date and the times of day of its instants, which a phone may give up to `MaxSkew` ahead.
`disturbed` are the sessions with overlapping taps or a death half way.

### Currency
Pure operators over flights and a pilot's licences, translated rule by rule (EASA by
licence, FAA, German ultralight, others; passengers; instrument; reviews; custom rules),
with thresholds as in the code and a calendar of a few days. The only actions log a
flight or let a day pass. `told` is what the service answers today and `promise` what it
answered when the flights last changed; `PromisesKept` compares the two, and `LapseIsFirstDay` compares the
jumping search of `lapse.go` with a search day by day
by the evaluation itself; for a custom rule, whose search and whose evaluation differ (section 5), with both.

### FlightCalc, Reports, FlightSearch
`FlightCalc` derives every calculated column for a row with or without its crew, and with the name, the
fleet and the crew read or not: a read that fails is ignored by the code, and `seen` says what the last
write knew; days have `Day` ticks and night is a constant set of instants. `Reports` evaluates each statement of
a page (statistics, analytics with its trends, records, weekdays and the farthest flight, the
older reports and the map, the paged list, custom reports) when it runs, the scope of a licence with the
errors the handler ignores, so the parts of a page
may see different flights; the properties compare them when nothing changed in between, and
`CustomReportsAccount` compares a report with a direct definition. `FlightSearch` parses lexemes as `parse.go` does; the pilot types
pieces of the documented grammar (`tree` is what the parser makes of them), from which the reference meaning is computed
independently of parser and compiler, from what each type of field is said to mean, and both are
evaluated on three flights in three-valued logic.

### ImportRows, Import
`ImportRows` is what a file says: which of its rows is the header, the format it is taken for, its default
mapping, and the flight a row describes under a mapping, completed by `FlightCalc` (an instance
with a day of 1440 minutes). Go visits the mapped columns in no fixed order, so a row has a *set* of
readings. `Import` is the life of an upload in memory: sessions per user and in all with their
eviction, previews that overwrite the mapping, confirmations that classify and write row by row,
the crew's contacts resolved inside each row's transaction, and the record of the import. A
confirmation reads the mapping without the lock under which a preview writes it. `shared`
records that two confirmations overlapped; `MaxMoves` bounds requests, sweeps and failing calls.

### UpdateCheck, AirportData, BackupProviders
The checker's refresh, its on-demand comparisons and its bounded map are steps of one process
each; the branch of each component grows up to `MaxHead`, and `gauge` is the metric the refresh sets at its end. A reload fetches, parses,
merges, indexes and swaps; lookups are operators on the live snapshot. A provider
run connects for the upload, for the list and for every deletion, resolving the name and checking the
server anew each time, in a folder the user shares.

## 4. Runs

| Run | Bounds | States | Shows |
|---|---|---|---|
| `sessions` | 3 tokens, 2 sessions, 2 requests, cap 1, grace 1, expiry 3, clock to 3 | | `OnlyRevocationEnds`, `EndedStaysEnded`, `IssuedTokenWorks`, `RevokedMeansOver`. Three tokens are a rotation with a competing one; the grace ends before the expiry, so all verdicts occur |
| `sessions_purge_race` | the same | | violated: `EndedNeverRenewed` (section 5) |
| `idempotency` | 3 requests, 2 payloads, lease 2, TTL 3, budget 1, clock to 4 | | `OneAtATime`, `NoRerun`, `ReplayFaithful`, `RetryVerdict`. Lease and TTL both pass within the clock, so takeover, reaping and reuse of a key all happen |
| `backup` | 1 destination, the scheduled run and 1 request, 2 payloads, retention 1, failure limit 2, 3 edits, 1 failing statement or restart | | `OneRunPerDestination`, `LocksHaveOwners`, `StatusHonest`, `BackedUp` |
| `backup_due` | 2 destinations, scheduled runs only, failure limit 3, 2 days, 1 failing statement or restart | | `DueIsServed` (liveness) |
| `signatures` | 2 signatures, 2 requests, 2 values of the fields, quota 1, 1 link each | | `OnePending`, `LockSoundUnlessStale`, `LiveHistory` |
| `signatures_links` | 1 signature, 2 requests, 2 links, quota 2, a count that may fail | | `NewestLink` |
| `notifications` | 1 stream of each kind, 2 checkers, thresholds 1 and 2, 3 days, 1 edit, 1 failure (a release that fails after a failed send is not counted again) | | `MailedOnce`, `ClaimsAreMails`, `NearestOnly`, `EveryNoticeSent` (liveness) |
| `identity` | `Account`: 2 requests at a time, 3 in all, 2 passwords, 2 secrets, 1 recovery code, 2 addresses, 1 reset link, lock after 2. `AdminRoles`: 2 users, 2 requests. `OIDCLogin`: 2 browsers, 2 flows, 1 person, 2 accounts, 2 addresses. `WebAuthn`: 1 passkey, 3 ceremonies, 1 open. `EmailDelivery`: 2 sends, 2 spellings of one address and a malformed one, 1 lifting | 1.39 M | `AccountSafe`, `LastAdminKept`, `LoginsSafe`, `MailAccountedFor` |
| `reaper` | 2 accounts, 2 replicas, batches of 1 | 18 k | `OnlyAbandonedDeleted`, `AbandonedAreDeleted` (liveness). With a batch of one the older account stands before the younger |
| `logbook` | `FlightLog`: 2 requests, 2 flights, 3 starting logbooks. `Records`: 6 starting points, 3 aircraft and 2 of every other kind, clock to 3, retention 1, pages of 1. `Collections`: 3 requests, limits 1, 2, 1. `Restore`: 2 users, 5 ids, 4 requests. `FlightSessions`: 2 phones, 4 taps, 2 sessions, clocks 1 ahead, days of 2 minutes, at most 2 minutes in flight | 0.33 M | `FlightsExplained`, `CollectionsRight`, `LiveFlightsRight`, `HistoryKept` (refinement), `WritesKeep`, `RestoreKeeps` (action properties) |
| `evaluation` | `Currency`: a year of 3 days, 6 days, 2 flights of 5 kinds, 3 pilots. `FlightCalc`: a day of 6 ticks, 3 writes. `Reports`: logbooks of one, three and all of the catalogue's flights, months of 2 days, 1 write. `Import`: 3 files (one with an unreadable date), 2 rows, 2 confirmations, 4 moves. `UpdateCheck`: branches bounded per component, 1 cached comparison. `AirportData`: 5 and 3 rows. `BackupProviders`: 3 kinds, 3 addresses, 2 runs, retention 1. `FlightSearch`: up to 4 pieces, and saved queries of two conditions | 0.26 M | `CurrencyRight`, `CalcRight`, `ReportsRight`, `ImportRight`, `OutsideRight`, `LoggingNeverWorsens`, `NothingNeededDropped` |

What the properties of the composites stand for is said where they are defined; each
conjunct is a named property of a component module, with its own comment. Type
invariants: `TypeOK` of `Sessions`, `Idempotency`, `CloudBackup`, `FlightSignatures` and `Notifications`
is proved (`TypeCorrect`); those of the other state machines are part of `AccountSafe` and
`FlightsExplained`, which are proved, and of `CurrencyRight`.

Two processes suffice for most races because a conflict is between a reader that
writes later and one writer in between. `Account` allows a third
request after two that overlapped. Where an invariant is also proved (section 6) the bounds only matter
for finding mistakes early. In `Currency` a window of three days holds an event on its first and
last day and one beside it; in `FlightCalc` six ticks give day, night and a flight over midnight. Symmetry is
used for sets of interchangeable model values where only safety is checked.

**Exceptions in the properties.** Several properties leave out what the code is known to
allow, with a history variable that says exactly when: `stale` (a whole-row write by an
outdated copy), `late` (a commit behind a client's mark), `disturbed` (overlapping taps),
`torn` (a file or a record cut in two), `moved` (an address that changed during a login),
`lost` (a flight signed during a replacement), `overlapped` (creations counted before each other's insert),
`shared` (overlapping confirmations), `unguarded`, `died`. Section 5 says what happens then.

**Deadlock** is checked for `Sessions` and `FlightSignatures`. It is not an error in the
others: their clocks, edits and failures are bounded, and in the end nothing is left to do.

**Fairness.** `CloudBackup.FairSpec` assumes weak fairness of `Dispatch` for each
destination and of every process's next step: the scheduler's ticker
(`scheduler.go`) comes again and again and lists every due destination, and a
goroutine that runs is scheduled. This takes for granted that a provider's call returns; over SFTP there is no
deadline after the dial (`sftp.go:152-184`), and a server that stops answering there keeps its destination from
being served. `Notifications.FairSpec` assumes weak fairness of
`StartCheck` and of the steps of a check that was started: the ticker of
`StartBackgroundChecker` (`notification.go:104-142`). No fairness is assumed of
requests, of failures or of successes of a provider: a run may fail every time, in which
case the destination goes into error and is not due any more. `DueIsServed` is checked without
manual runs and `EveryNoticeSent` leaves aside notices whose claim was lost to
a failing release or a dying process, for which no later check sends the mail.
`UnverifiedAccounts.Spec` assumes weak fairness of the tickers and of a sweep's steps,
and that time passes; strong fairness that a link is minted, that the mail server decides
(accepts or refuses for good) and that the stamp is written for an account that is tried again and
again, and that a sweep reaches its deletion: the code retries all of these at the next tick, and a
server or a database that fails every single time cannot be helped by it.

**Mutants.** For every property of a passing run `PROJECT.json` names a mutated
definition (a dropped guard, a missing reset, a write without its fence, a
swapped order) under which TLC finds that property violated with the same bounds.

## 5. Where code and documents disagree

Checked as a run (quotations under "findings" in `PROJECT.json`):

* `sessions_purge_race`: `DeleteForUser` takes no lock on the user row, so a refresh that
  passed its liveness check revives a session that disabling the user has just ended;
  `docs/SESSION_CONTRACT.md:70` says every revoking statement is serialised against it.

The modules also state promises of comments and documents that the code does not keep
and that have no run of their own. TLC violates each within the bounds of the run
named here; add the definition to that configuration to see the trace.

| Definition | Promise | What happens | Run |
|---|---|---|---|
| `Idempotency!OneAtATime` with lease 1, budget 2 | `service/idempotency.go:22-26` | the lease (60 s) is shorter than the budget of the data routes (5 min), so a retry runs beside the request it retries | `idempotency` with these constants |
| `Sessions!SessionCap` | `docs/SESSION_CONTRACT.md:39`, at most `MAX_SESSIONS_PER_USER` live sessions | evicting and inserting are separate: two logins evict first and insert afterwards | `sessions` |
| `CloudBackup!ConcurrentRejected` | `runner.go:62-64`, a second concurrent call is refused | `ensureRunLocks` is not synchronised; two first calls each make a map | `backup` |
| `CloudBackup!PruneErrorShown` | `runner.go:174-175`, a failed prune lands in `last_error` | `recordSuccess` clears the message before it is written | `backup` |
| `CloudBackup!SettingsKept` | `destinations.go:313-314` | a run writes back the settings it read at its start | `backup` |
| `CloudBackup!OnlySuppliedFields` | `api-spec/openapi.yaml:6112` | an edit writes back the result columns it read | `backup` |
| `CloudBackup!SkippedMeansStored` | `docs/FEATURES.md:590-591`, `runner.go:149` | the hash is read before the lock and may predate a run that pruned the payload | `backup` |
| `BackupProviders!OnlyBackupsDeleted` | `provider.go`, List returns backups NinerLog wrote | List returns every plain file of the folder, and retention deletes the user's own | `evaluation`, part `providers` |
| `BackupProviders!NewestBackupsKept` | `runner.go:185`, prune deletes the oldest backups so that at most `RetentionCount` remain | the user's files and the leftovers of broken transfers are counted as well, so a backup goes although fewer newer backups are there (never the one the run has just stored, unless the user's own files are newer) | `evaluation`, part `providers` |
| `AirportData!KnownAirportsKept` | `airports.go:132-133`, a source that fails is not fatal, the other one is used on its own | the snapshot is replaced by the other source's airports as long as they are half as many; those only the failed source had are gone until it is back | `evaluation`, part `airports` |
| `FlightSignatures!LockIffSigned` | migration 000043, non-null iff locked by a completed signature | a live signature and a link completed later, then voiding one, leave a signed flight unlocked | `signatures` |
| `FlightSignatures!AppendOnly` | migration 000042, append-only history | a late revocation overwrites a completed signature | `signatures` |
| `FlightSignatures!LockedAgainstEdits` | migration 000043, locked against edits | `UpdateFlightWith` checks the lock on an earlier read | `signatures` |
| `FlightSignatures!VoidUnlocks` | migration 000043, cleared when voided | a request that dies between the two writes leaves the lock, and a second void is refused | `signatures` |
| `FlightSignatures!ResendRotates` | `api-spec/openapi.yaml:3348` | a late `MarkEmailSent` restores the replaced token | `signatures_links` |
| `FlightSignatures!QuotaKept` | `flight_signature.go:142` | mails under way are not counted (and a count that fails lets every mail through, `flight_signature.go:149-151`) | `signatures_links`, quota 1, `CountFails` FALSE |
| `Notifications!OnlyLapsesHoldBack` | `notification.go`, the same lapse is notified once, a new one again | a notice keyed by an expiry date in the future holds back the notices of lapses before it | `notifications` |
| `Account!CodesOnce` | `docs/AUTHENTICATION.md`, recovery codes are single-use | a whole-row write restores a code removed meanwhile | `identity` |
| `Account!VerifiedIsProven` | `handlers/user.go:70`, a new address must be verified again | a link mailed to the old address, or a copy with the old flag, verifies the new one | `identity` |
| `Account!DisabledStays` | only an administrator enables an account | a whole-row write restores `disabled = false` | `identity` |
| `Account!OldSessionsOut` | `auth.go:841`, a new password forces a new login everywhere | a login that checked the old password inserts its session after the revocation | `identity` |
| `OIDCLogin!HandoffIsLinked` without `moved` | a login ends in the account linked to the person | two callbacks of one person whose address changed in between provision two accounts; the loser's handoff names the account that is not linked | `identity` |
| `WebAuthn!SignCountGrows` | a stored sign count never goes back | two logins store their counters in the other order | `identity` |
| `EmailDelivery!InvalidSuppressed` | `docs/AUTHENTICATION.md:225`, an `invalid_address` suppresses the address | `RecordAttempt` suppresses hard bounces only (`email_delivery.go:77-78`); `SuppressionEarned` follows the code | `identity` |
| `UnverifiedAccounts!ConfirmedForGood` | `docs/AUTHENTICATION.md:157-158`, confirming removes the account from the reaper's scope permanently | a copy of the row from before the confirmation is written back whole, or the address is changed in a session whose login could not be stamped | `reaper` |
| `FlightSearch!NotEqualIsNegation` | `fields.go:18-20`, `!=` is the negation of `=` | `crew!=x` and `approach!=x` hold when *some* member or approach differs, so a flight with x and another is found and one without any crew is not | `evaluation`, part `search` |
| `FlightCalc!FunctionMatchesCrew` | `flightrules/roles.go:157-160`, `flight_util.go:46` | an update that does not carry the crew derives the times as if the pilot had been alone | `evaluation`, part `calc` |

Behaviours met while modelling, which the properties take as they are:

* Search: `||` is never read as OR, because the second operand's text is tried first
  (`parse.go:99` is not reached); a connective in the place of an operand is searched as
  text; a flight without a value in a column is found neither by a
  condition on it nor by its NOT.
* Currency: the lapse of a custom rule. `custom.go:73-74`, `docs/FEATURES.md:553-555` and
  `docs/DATA_MODEL.md:370` call it the first day on which the rule was no longer met. The search leaves out
  the window's first day (`!d.After(start)`, `custom.go:247`), the evaluation counts it (`date >= $2`,
  `custom_currency_data.go:186`): the date told, which also keys the notice, is at least a day early and
  on it the rule is still met. `LapseIsFirstDay` states exactly that. Also, the search for the last current day gives up after 64 rounds; the expiry of
  an FAA instrument rating's recency ignores the rating's own expiry; passenger currency of one class
  under two licences shows the first.
* Calculations: a failed read of the user's name, the fleet or the crew is ignored, and the times are derived and
  stored without it (`flight_util.go:33-50`, `aircraftfacts.go:63-66`); a "Self" given in the request is kept beside
  another commander; an update without the crew also sets the PIC name to "Self" again; removing
  the crew leaves a derived dual-given time; a recalculation writes copies listed at its start and does not
  touch the PIC name.
* Sync: a rename of a contact leaves `flights.updated_at` alone, so a delta never reports the
  new crew names; `updated_at` and `deleted_at` are the times transactions begin, so a late commit
  is missed by a client whose mark has passed it; `/aircraft` pages by offset.
* Collections: the limits of 200 rules and 100 reports (`docs/API.md:560`, `612`, `docs/DATA_MODEL.md:338`) are
  exceeded by up to one per further creation served at the same time, since rows are counted in one statement and
  inserted in another (`WithinLimits` states the plain limit for everybody else);
  ending the sharing of a rule can be undone by an overlapping update; two new reports may get one position.
* Live sessions: overlapping taps make two flights of one session, and a stale write can reopen a completed one.
* Strict logbook: an edit classified before the mode or a signature changed is written by its
  old classification; a change made while the mode was off is not in the history.
* Restore: a flight counts as attached to by any row of `flight_signatures`, locked or not; a backup gathered while a flight is deleted can bring the flight back.
* Import: `docs/PERSONAS.md:406-409` (no duplicate flight, no partial import) and `docs/FEATURES.md:394-396` promise
  more than the code keeps. Overlapping confirmations import everything twice; so does an import whose listing of the
  logbook failed; a row without a total, or with one that differs from the time stored by more than six minutes, is
  never recognised as a duplicate; rows are committed one by one, so a failure leaves the rows before it; equal block times become 24 hours; block times at exactly
  midnight are dropped as placeholders; a preview that asks not to skip duplicates calls rows valid
  that a confirmation without `includeDuplicates` skips; training device sessions are added again by
  a second import; a row whose times carry the dates of two days gets the date of whichever column
  is visited first; a confirmation that overlaps a preview may read one mapping in part and
  another in part.
* Reports: a failed read of the ratings or the fleet lists all flights instead of the licence's
  (`handlers/flight.go:67-71` speaks of unknown and foreign licences only), and may do so on one page and not on the
  next; a flight whose approach count is below the approaches listed for it makes the breakdown exceed the totals it
  should add up to (`reports_analytics.go:534-535`); a page's statements are not one transaction, and its window uses the database's
  date while the range shown uses the server's; initial hours are not excluded by an end date although
  `service/flight.go:349-355` says so; airport counts of two spellings of one code overwrite each
  other; list totals include simulator and passenger entries, statistics do not.
* Mail: a 5xx to the message is recorded as rejected and suppresses nobody, as `docs/AUTHENTICATION.md:223` says and
  `pkg/email/delivery.go:16-18`, which calls it a hard bounce, does not; a 5xx to the command DATA itself is a server
  error; a connection lost after DATA is recorded as rejected; the gauge of suppressions can
  stay stale when two refreshes overlap.
* Updates and airports: a cached comparison is never refreshed; a reload may halve the
  snapshot each time.
* Backups: WebDAV leaves partial files behind; the guard against clear text looks at the configured address, and where a
  server redirects a request is not modelled.
* Notifications: a flight review whose status could not be computed is notified as "review required".

## 6. Proofs

TLAPS proves the following for every value of the constants allowed by the module's
`ASSUME`. In each module an inductive invariant `IInv` strengthens the property;
there is one lemma per action (or per kind of step), `Init => IInv` and
`IInv /\ [Next]_vars => IInv'` are combined by temporal logic.

* `SessionsProofs`: `TypeCorrect`, `RotationNeverEnds`, `RevocationIsFinal`,
  `IssuedTokensWork`, `RevokedIsHonest`. The invariant adds that a request about to
  supersede its token has minted a replacement in the same session, unknown to all
  others (`ReplacementsReady`), that a row without life that was not rotated belongs to
  an ended session (`EndedIsRecorded`), and that between liveness check and insert the
  session is not ended, unless by the unlocked purge (`CheckedStillLive`): this is where
  the `FOR SHARE` lock is needed.
* `IdempotencyProofs`: `TypeCorrect`, `Exclusion`, `RecordedOnce`, `ReplaysAreFaithful`,
  `RetriesAnswered`, under `CoversRequest` (lease and TTL exceed the request budget), which
  is what `docs/API.md` demands of the configuration and what the long routes break.
  The argument: a claimant holds the row as long as its context lives (`ClaimHeld`), a
  row that carries a claimant's stamp is the claimant's (`FenceUnique`), so a late
  settlement is harmless, and a recorded completion stays in the row until its TTL is over (`StoredKept`).
* `CloudBackupProofs`: `TypeCorrect`, `RunsExclude`, `NoLockLeaks`, `StatusIsHonest`,
  `SkipsAreBackedUp`. Rows are overwritten by copies, so what is claimed of rows is
  claimed of all copies too (`AllHonest`, `AllBacked`); `LocksKept` says which process
  will release which lock, in which map.
* `FlightSignaturesProofs`: `TypeCorrect`, `SinglePending`, `LockIsSound`, `LinksAreNewest`,
  `LiveHistoryKept`. `Copies` says what the copy of a request at each statement says,
  `Agreement` how much of it still agrees with the row, `Lifecycle` which states a row can
  be in; steps are classified into those that keep rows, write by a copy, insert or erase.
* `NotificationsProofs`: `TypeCorrect`, `OneMail`, `ClaimsStandForMails`,
  `WarningsApproach`. `Holders` says that who is about to send owns its row alone and its
  mail is not out, unless in doubt; `FartherSkipped` and `WarnedSkipped` that the farther
  thresholds of a warning are in its list, on record or were released, which is what
  makes a check from before midnight lose its claim.
  The reaper is proved here too: `StampsAreHonest`, `NobodyElseDeleted`, for any number of
  accounts and replicas. Its invariant (`ReaperInv`) adds that a sweep about to stamp has mailed
  (`StampsAfterMail`), and the deletion's own condition does the rest.
* `IdentityProofs`, about `MCIdentity`: `AccountIsSafe`, `LastAdminStays`, `LoginsAreSafe`,
  `MailIsAccountedFor`. One invariant per part:
  - `AccInv`. Statements are grouped by what they do to row and copies. The lock comes in time
    by counting: failures that will be counted without a lock, plus the counter, exceed the limit
    by at most one per request about to lock and per request that died there (`LockInv`). Codes:
    a code that can still be accepted, in the row or on its way there in a copy, was never accepted,
    and no two copies add the same one (`CodesLive`), until a write is stale. Secrets: what a *copy*
    would activate is proven too (`SecretInv`), since the copy is what is written.
  - `RolesInv`. `LastAdminKept` with the types is inductive; the lemma about `GuardedWrite` is where
    the lock on the admins' rows counts: the row it looks at is the row it writes.
  - `OInv`. `Linking` relates what a callback found to what another callback of the person links
    meanwhile: unless an address moved, both are the account of the person's address. `KeepsAddress`
    says that the write which synchronises an account does not take the address from under the other
    callback. `FlowInv` says that a flow is in one place: state row, callback, handoff code, exchange or session.
  - `KeyInv`. A user's open ceremonies are at most the limit plus the evictions still to come
    (`Bounded`); the step that evicts is a pigeonhole argument over the rows it keeps.
  - `MailInv`. Until a statement fails or one refresh of the gauge overtakes another, one send at a time sets the gauge, to
    a count that is true unless another send is going to count (`OneSetter`, `SetterRight`); an address
    whose hard bounce is recorded stays listed until somebody lifts it (`Recorded`).
* `RecordsProofs`, about `MCLogbook`: `LiveFlights`, `CollectionsAreRight`.
  - `LiveInv`: a session nothing disturbed has one tap at work, and its flight exists from the
    moment that tap wrote it, first in the tap's copy and then in the row (`SessionRight`).
  - `CollInv`: quotas count the rows there are *and* those on their way (`RuleQuota`,
    `ReportQuota`), which bounds the overshoot by one per overlapping request; an account whose creations
    never overlapped has at most one on its way and keeps the plain limit (`PlainInv`); files are
    counted under the lock (`LockHeld`) and never exceed. A share token names one rule in the table and
    in all copies, and a revoked one is found in stale rules only.
  - `RowsInv`: the argument for delta sync. A row the client lacks is ahead of its mark; a deletion it
    missed stands on a page of the feed it has not read (`GonePlace(id) >= PagesRead`), or the client
    will be told that its watermark expired (`Lapsed`). Later deletions come after what was read because
    pages are ordered by time (`SeenRead`), so paging by offset skips nothing within one pass. Names stay unique
    because the unique index is consulted in the committing statement.
* `LogbookProofs`, which extends the above: `LogbookKeepsHistory`, `CorrectionsAreExplained`,
  `WritesAreKept`, `RestoresKeep`, `FlightsAreExplained`.
  - `IInv` types rows, revisions and what each request carries; each action is shown to be a step of
    `FlightHistory` or a stutter, with `Transaction` as the common lemma that a commit with its
    triggers appends exactly the replaced state.
  - `LogInv` adds that a request about to write passed the override rule and carries the class of
    what it read, *on the day it read it* (`Told`): a correction without a reason can therefore only come from
    a classification that was overtaken. While strict mode is never switched off, each
    revision differs from the next and the last from the row (`Differs`).
  - `BackInv`, for restored backups: what a file has of a flight's history is the beginning of what
    the account has of it (`FileOK`), so appending the rest only adds; ids from `nextId` on have neither
    flight nor history, so a flight that gets a new id gets exactly the file's history; one owner per
    history; contacts cover the links of crews; while no file is torn, no live flight
    has a voiding in its history.
  - The theorems about `LogbookSpec` put these together with `RowsInv` and `CollInv`, part by part.

**Assumptions.** Sets that a quota, a page or a count ranges over are finite; the values that stand for
"none" are no members; limits are natural numbers. `IdempotencyAssumption` and `CoversRequest` are about the
configuration. `RecordsAssumption` says that ids are UUIDs (no two tables share one, and any two are ordered) and that
a behaviour starts from a database its constraints allow (unique registrations and names, ratings with
their licence, no foreign link); `RestoreAssumption` that ids were given out in order and that files from
elsewhere carry no history; `FlightLogAssumption` that a patched row is a row. `Max >= 2` in
`MCIdentity` holds because the lock limit is the constant 5.

**Induction.** A fact about the smallest or the last element (the first differing revision, the first tombstone
of a page) is proved from the well-foundedness of the natural numbers as the existence of a least
counterexample, not by an induction scheme.

**What the proofs changed in the models.** Several definitions were tightened when a step could not be
proved and TLC, given the intermediate claim, showed a behaviour that the code does not have or
that the property had not named: recovery codes are drawn fresh (`handed`); an address that another person's login changes
counts as `moved`; reports' order is a set of pairs, since positions of deleted reports leave gaps; the
feed's order needs an injective `Rank`; a replacement that began before a signature is named (`lost`).

Only model-checked: liveness (`DueIsServed`, `EveryNoticeSent`, `AbandonedAreDeleted`; the
prover has no fairness); everything in `MCEvaluation` (`CurrencyRight`, `CalcRight`,
`ReportsRight`, `ImportRight`, `OutsideRight`, `LoggingNeverWorsens`, `NothingNeededDropped`), whose modules compute
with folds and recursion over data, so that a proof would need induction over data; and the violations of section 5.

## 7. What is not modelled

`PROJECT.json` lists every component with its status. Left out on purpose:

* generated code (`internal/api/generated`) and wiring;
* layout: PDF, CSV and HTML documents, email texts, the rendering of a revision's differences, the
  strict logbook's printed export;
* tables: the columns of third-party logbooks (`importtemplate/sources.go`), registration
  prefixes (their result is the constant `Canonical`), the fields of the search language
  (`MCFieldOf` has one of each type);
* libraries: cryptography, OIDC discovery and token verification, the WebAuthn library, the
  rate limiter's counting, SMTP and the providers' wire formats (calls that succeed,
  fail, or fail after having worked);
* floating point: solar positions (night is a constant set of instants), distances;
* operations that are one statement without a condition on other state: announcements,
  the log of administrative actions, dashboards, metrics;
* the import of vCards, the downloadable airport pack, the facts of the fleet added to a response.

Within the modelled parts: the check hour of notifications (a check may start at any
time), the content of payloads (its hash), device names of sessions, images of
signatures, messages and units of currency.
