# A formal model of finish-line-api

finish-line-api takes registrations for running races. It is a Go server over
PostgreSQL: runners register and get a race number (*dorsal*), a CMS (Sanity)
owns the races and posts its changes to a webhook, and admins read reports in a
panel they log in to. This directory holds TLA+ modules that model the server,
TLC configurations that check them on small instances, and theorems about them
that TLAPS proves for every instance. Paths below are relative to `src/`.

## The system

Nothing in the server runs in a database transaction that spans statements.
Each HTTP request is a goroutine, each SQL statement commits alone, and what
keeps concurrent requests apart is the unique indexes and foreign keys of the
tables. So the unit of every module is *one statement and the Go code up to the
next one*; between two statements any other request may run, the request's
context may be cancelled, the statement or its reply may be lost, or the
process may end.

| part | state | operations | interacts with |
|---|---|---|---|
| registration and dorsals, `internal/participant` | tables `participants`, `registrations` | `Register`, `Confirm` (the payment seam, not called yet), the shared loop `confirm`, the compensating delete | reads `races`; its foreign key restricts the deletion of races; sends an e-mail |
| races, `internal/race` | table `races` | webhook `Sync` (upsert and reload), `Remove`; `List` | called by the CMS, which repeats what is not acknowledged |
| sessions, `internal/auth` | table `refresh_tokens`; a cookie in each browser | `Login`, `Refresh` (rotation, reuse detection), `Logout`, `RevokeAllSessions` | called by `internal/user` |
| accounts, `internal/user`, `cmd/seed-admin` | table `users` | `Register`, `EnsureAdmin`, `ChangePassword` | ends sessions through auth; a starting server seeds an admin |
| access tokens, `internal/auth/adapters/jwt`, `.../middleware` | none: a signed statement that the client keeps | `Issue`, `Parse`, `RequireAuth` | issued by login and refresh; guards the admin's routes |
| reports, `internal/report` | none of its own | timeline, ages, participants by page, counts | reads the tables of registration, clock |
| rate limiter, `internal/common/ratelimit` | a map of limiters by address, behind a mutex, never evicted | `limiterFor`, the middleware | in front of the login |
| server process, `cmd/api`, `internal/common` | the schema it migrates, a listener, the signal | startup, migrations, seeding, serving, shutdown | hosts all of the above; several may share a database |
| e-mail senders, hashing, OpenAPI | none | | |

What is hard in it, and what makes each part correct:

* **Registration.** Two requests read the same "next" dorsal; the last place is
  wanted by several; the capacity was read at the start of the call and the CMS
  may have changed it; the race may be deleted in between; confirmation fails
  after the row was inserted, and the row has to go; a reply is lost. Correct
  when dorsals are distinct and without gaps, nobody is admitted over the
  capacity, what a runner was told stands, every refusal has the reason it
  claims, no row loses its race, and every call ends.
* **Personal data.** The row of a person is overwritten by every registration
  for the same e-mail, before it is known whether the registration will stand,
  and then read back. Correct when no answer shows data older than the caller's,
  or mixes two submissions, and no registration changes hands.
* **Races.** Deliveries fail, overlap, repeat. Correct when registrations keep
  their race under the same id, the id in an answer is a real one, and the
  table ends up as the CMS has it.
* **Sessions.** A token is looked up and consumed in two statements while
  others revoke it. Correct when a successor continues its session, a
  revocation covers the whole past of a session and nothing else, and an ended
  session never comes back.
* **Access tokens.** Nothing can revoke them and they carry whole seconds.
  Correct when access ends one lifetime after its session, not before the
  client was told, and never passes to somebody else.
* **Accounts.** Servers that start seed the same admin, possibly together and
  while its owner changes the password. Correct when an account is made once
  and only a change replaces its password.
* **Reports.** Dates at the ends of months and years, and pages read one by one
  while people register; widgets of one panel are separate statements. Correct
  when filters select exactly what they say, the chart adds up, a pager sees
  everybody, and the figures of two widgets reconcile.
* **Rate limiter.** First requests of an address come together. Correct when an
  address gets what it is promised, no more, and no less because of others, and
  the mutex always comes free.
* **Server.** Instances migrate one database at the same time, fail half way,
  are told to stop at any moment, and have requests in flight when they are.
  Correct when none serves before it is ready, each stops when asked, an exit
  that reports success has cut nobody off, and all come up in the end.

`PROJECT.json` lists every hazard with its line and the properties that would
catch it.

## Modules

| module | models | checked by | proved in |
|---|---|---|---|
| `Registration` | Register, Confirm, the confirm loop, the tables' constraints, the webhook as it is seen from the races table, faults | `MCRegistration`, `MCProcess` | `RegistrationProofs`, `ProcessProofs` |
| `DorsalLedger` | abstract: each race has a roll of the admitted, in order | | |
| `RegistrationLedger` | the refinement mapping from `Registration` to `DorsalLedger` | `MCRegistration` | `RegistrationRefinement` |
| `Sessions` | accounts and their seeding, login, refresh, logout, password change, cookies, expiry, faults | `MCSessions` | `SessionsProofs` |
| `SessionLifecycle` | abstract: sessions open once, end, never return | | |
| `SessionsRefinement` | the refinement mapping | `MCSessions` | `SessionsProofs` |
| `AccessTokens` | extends `Sessions`: the tokens login and refresh sign, the clock, the middleware | `MCAccessTokens` | `AccessTokensProofs` |
| `Profiles` | Register again, with the content of `participants` and without dorsals | `MCProfiles` | `ProfilesProofs` |
| `RaceSync` | the CMS's deliveries and the two statements of the upsert | via `RaceSyncTable` | `RaceSyncProofs` |
| `RaceTable` | abstract: what the two sides of the races table rely on | | |
| `RaceSyncTable`, `RegistrationRaces` | the two refinement mappings to it | themselves, `MCRegistration` | `RaceSyncProofs`, `RegistrationRefinement` |
| `ReportDates` | pure: `AgeAt`, `Resolve`, `TimelineRange`, `FillTimeline` and the calendar they use | via the next two | `ReportsProofs` |
| `AgeReport` | the age filter while days pass and data are corrected | `MCAgeReport`, `MCReports` | `ReportsProofs` |
| `Timeline` | the registrations chart while registrations come and go | `MCReports` | `ReportsProofs` |
| `ReportPaging` | count and page statements while people register and change names | `MCReports` | `ReportsProofs` |
| `PageWindow` | pure: from any page number in the URL to the rows of the page | `MCReports` | `ReportsProofs` |
| `Dashboard` | the counts, `ByRace` and the list of people, one statement each | `MCReports` | `ReportsProofs` |
| `RateLimit` | the mutex, the map and the token buckets | `MCProcess` | `ProcessProofs` |
| `Server` | a process from configuration to exit, its migrations, its signal | `MCProcess` | `ProcessProofs` |

Two MC modules check several models at once. `MCReports` holds the five reports,
which share no state because they only read; `MCProcess` holds a server's life
and the two things a request in it may have to wait for, the limiter's mutex and
the loop of registration. In both, the variable `part` says which model a
behaviour shows; the others rest, so the parts are checked side by side and
never multiply each other's states.

### Registration

One process per call: `Requests` are calls of POST /registrations,
`ConfirmCalls` calls of `Service.Confirm`. `pc` is the statement a call is
about to send: `findRace`, `upsert`, `reload`, `create`, then the loop `load`,
`next`, `save`, then `notify`, or `undo` when the confirmation failed. `races`,
`participants` and `regs` are the tables; since every request inserts at most
one registration, under an id it draws itself, the table is a function on
`Requests`. `raceId`, `capacity`, `loaded`, `cand`, `lost` are the Go locals
that live across statements. A unique index is a predicate on the table
(`DuplicateParticipant`, `DorsalTaken`) that makes a statement fail with the
error the repository maps it to; the foreign key is `RaceExists` on insert and
the guard of `RemoveRace`. `peak` and `hit` are history: the highest capacity a
race has had, and the calls a fault has struck.

Faults are switched on by naming them in `Faults`: `transient` (a statement
returns an error and did nothing), `cancel` (the request's context is gone and
every later statement fails, the compensating delete included), `lostReply` (a
statement took effect, the caller sees an error), `crash`.

A person, a form's other fields, an e-mail's text and HTTP status codes are
data no property tells apart: an e-mail address stands for a person and `valid`
for the outcome of `NewParticipant` and `RegistrationParams.Validate`.

### Sessions

A process is an HTTP call; the token that call *c* inserts is named *c*, and
so is the family that login *c* opens. `jar` is the cookie of each browser, set
or cleared when the response arrives (`Respond`), so responses arrive in any
order. A refresh or logout carries the cookie the browser held when it was
sent. `Expire` may strike any token at any time.

`password` is the users table: the hash of each e-mail, `NoUser` where there is
no account. A run starts with any of them there. `create` is POST /users and
`ensure` the seeding, by a server that starts (`EnsureAdmin`) or by
`cmd/seed-admin`: the same insert, for which a taken e-mail is an error or a
success. `WeakPassword` stands for any input `ValidatePassword` refuses.
`Kinds` names the requests that arrive in a run.

### AccessTokens

The server keeps no copy of a token, so `AccessTokens` adds variables beside
those of `Sessions` and makes each step of it one of its own: a step that issues
a pair also signs `[subject, until]`, rounded down to whole seconds as the JWT
is, and tells the client the unrounded `expires_at`. `Tick` is the clock,
`Second` its ticks in a second. `RequireAuth` is the middleware: it looks at
the token and the clock and at no table. `endedAt` is history. The signature is
a library's: a token that parses is one that was issued.

### Profiles

`Registration` tells people apart by e-mail and leaves their data out;
`Profiles` has the data and leaves the dorsals out (the loop is one step that
succeeds or finds the race full). A profile says for each column which call's
submission the value comes from. `Refreshed` is the column list of the upsert,
`person` the `*domain.Participant` that a call carries through and answers from.
`written` is history: the submissions in the order they were stored.

### RaceSync and RaceTable

Events are numbered in the order in which editors caused them and the number
stands for the event's data. A handler sends `upsert` then `reload`, or
`delete`. A slug may come `padded` with white space: `Sync` trims it
(`race/domain/race.go:26`), `Remove` uses it as it came, so such a deletion is
acknowledged and removes nothing (`Matches`). The CMS (external) sends the
events of one slug in order and repeats one until it is answered; as faults, it
may send an event ahead of earlier ones (`Receive` with `Before`), stop waiting
for an answer while the delivery goes on (`TimeOut`) or repeat an answered event
(`Duplicate`), and `late` keeps which events came again or after a later one. It
gives up a deletion the foreign key refuses, which is then `refused`.

`EndsInStep` says what is left of agreement with the CMS under all of that: in
the end the row shows the newest event that is followed, or an older one that
was itself late; only refused and padded deletions are not followed. An event
that was acknowledged, stood in order and was not stored violates it.
In `Registration` the same table changes by `SyncRace` and `RemoveRace`, each a
single step. What ties the two is `RaceTable`: races begin under a fresh id, end
only when nothing refers to them, and registrations come and go only where there
is a race. Both modules are shown to implement it (`RaceSyncTable`,
`RegistrationRaces`): the webhook under every fault of its deliveries, and
registration under its own faults.

### Reports

A date is a civil day: the code truncates to UTC days before any arithmetic.
`time.AddDate` is modelled by what it does, running over into the next month.
`AgeReport` and `Timeline` each separate taking the clock from the query.
`ReportPaging` orders people by surname and then by id, as the ORDER BY does;
first names behave as surnames and are left out. Its panel asks for the next
page; `PageWindow` has every other number a URL may hold, with ints
up to `MaxInt`, `Atoi` clamping at the ends and the offset wrapping.

`Dashboard` has a write side of three actions (what `Registration` does to a
row's existence and status) and one action per widget. The compensating delete
goes by id whatever the status, so `Undo` takes back a pending row, or a
confirmed one that Register did not hear was confirmed (`unheard`): the reply to
its update was lost, or the seam confirmed. Each answer is dated by the numbers
of confirmations and of such withdrawals there had been, so that two can be
compared: a later figure is larger by at most the confirmations between, and
smaller by at most the withdrawals. The last answer is kept, and
`PanelsReconcile` is about each answer and the one before. As requests change
nothing, any two answers follow each other in some behaviour. Rows from before
the column `talla_polera` hold `Null`, and the database may return groups in
any order. `Timeline` has the same delete, of any row at any time.

### RateLimit

`pc` follows `limiterFor` and the middleware: `lock`, `lookup`, `store`,
`unlock`, `allow`. A limiter is named by the request that made it, so two for
one address would be seen. The bucket (external, `golang.org/x/time/rate`) is
credit in clock ticks, `TokenTicks` to a token, refilled when it is asked.

### Server

`stage` is where `run()` is; `item` the migration it is at. `Items` lists what
the modules' `AutoMigrate` calls create, in the order of `RunMigrations`, and
`Needs` what PostgreSQL requires to be there. gorm asks whether a table exists
and then creates it, so `Check` and `Create` are two steps and another instance
may create it in between, which makes the second fail. `listener` is the
goroutine with `errCh`, `signalled` the cancelled context, which migrations do
not look at. `Drained` and `GraceOver` are the two returns of `Shutdown`.
`Restart` is docker-compose (external).

## Runs

All safety runs are exhaustive over their bounds. `CHECK_DEADLOCK FALSE` stands
wherever calls are finite in number: once all are answered the model stops, as
it should. `reports`, `age_leap_day` and `profiles_upsert` keep the check: these
models never stop, or say themselves when they may.

| run | bounds | states | shows |
|---|---|---|---|
| `registration_faults` | 3 requests, 3 people, 1 race, capacity at most 2, 2 attempts, failing statements, crashes | 334 thousand | answers are justified, told dorsals stand, no gaps, the dorsal ledger (where confirmed rows never change) is implemented |
| `registration_any` | 2 requests, 1 call of the seam, 2 race ids, lost replies, cancellation | 4.0 million | distinct dorsals, capacity; `RaceTable` is implemented, so no registration loses its race |
| `registration_leftover` | 1 request, cancellation | | violated, see Findings |
| `sessions_core` | 4 calls (login, refresh, logout, change) of one user and device, failing statements | 3.3 million | forks of a session, cookies, reach of a revocation |
| `sessions_life` | 3 calls of every kind, 1 user, 2 passwords, crashes and lost responses | 1.4 million | no revocation without a reason, accounts are made once, the lifecycle is implemented |
| `sessions_change` | 2 calls, 2 passwords | | violated, see Findings |
| `access_ttl` | 3 calls, 2 users, 1 request to a guarded route, lifetime one second of 2 ticks | 3.3 million | access ends with the session, not early, and stays with its owner |
| `profiles_upsert` | 3 requests, 2 addresses, 2 races, one row from before a column | 139 thousand | what is shown, whose registration it is |
| `race_webhook` | 1 slug, 3 events, 2 handlers, 2 faults of any kind | 857 thousand | answered ids are real; the table ends in step with the CMS, late events and deletions without effect named; `RaceTable` is implemented, so no registration loses its race |
| `reports` | one report at a time, bounds below | 1.6 million | the age filter is exact but on 29 February; one point per day and the right sum; nobody missed by a pager but by changes of name; a page shows what its number names, as long as page times size is an int; each figure of the panel reconciles with the one before |
| `age_leap_day` | the ages of `reports` alone | | violated, see Findings |
| `process_life` | one part at a time, bounds below | 260 thousand | ready before serving, clean exits, stopping, coming up; the limit, no refusal for others' sake, every request decided; every registration ends |

The parts of `reports`: for the ages, one person and clocks over February of a
leap year, a common year and 2100, and over New Year; for the chart, two
registrations and windows of up to 4 days over the ends of February and of a
year; for the pager, 4 people, 2 surnames, 2 changes of name and page sizes 1
to 3; for page numbers, 6-bit ints, numbers from -40 to 40 and lists of up to 9
rows; for the panel, 2 races, 2 people, 2 rows and 1 confirmation that Register
does not hear of. The parts of
`process_life`: for the server, 2 instances, 1 fault and 1 request; for the
limiter, 3 requests, 2 addresses, burst 2, a token in 2 ticks and time to 3; for
registration, 2 calls, 2 people, 1 race, cancellation and crashes.

Why the bounds are enough to be interesting: with capacity 2 and three runners
the last place is contested and somebody is refused; with two attempts a runner
can lose a dorsal, try again and lose again, which is the whole of the loop
(`maxConfirmAttempts` is 5 in the code); with two race ids a race can be
deleted and come back under another id. The kinds of fault are shared out
between the runs: failing statements and crashes in `registration_faults`, lost
replies and cancellation in `registration_any`, cancellation and crashes
together in `process_life`. Four calls are a login and three refreshes or a
logout among them, enough for two refreshes of one token and a third that
reuses it. Three calls are two seedings and a change, or two logins and a
logout that must leave the other session alone; that users do not touch each
other's sessions is a theorem (`RevokedCorrect`), for any number of them. Three
events are a publication, a change and a deletion, or a deletion and a
publication after it. Handlers beyond two only add overlaps of the same kind.
In `reports` two ages next to each other and birth dates at both sides of each
edge decide every comparison; the proof removes the bound. Two faults of a
webhook are an event overtaken or repeated and a failure on top of it. With one
lifetime of two ticks and a second of two ticks, a token is issued at a full
and at a half second. Two rows of `Dashboard` differ in every column a widget
groups by, and any two widgets may answer one after the other. Three requests
of one address are one more than a burst, with two limiters possible for it if
the mutex did not hold. Six bits hold every page of nine rows and still wrap.
Two instances meet at every migration.

Symmetry is used in runs without liveness, over identifiers no constant tells
apart. The temporal formulas checked under symmetry are safety formulas.

**Fairness.** Registration in `process_life`: weak fairness of every call that
has started, since the Go scheduler runs every goroutine and a statement is
answered or its context ends; nothing forces a client to call, the CMS to send,
or an e-mail to leave. `race_webhook`: weak fairness of a handler's statements,
strong fairness of the delivery of an event that is due, because the CMS
repeats what is not acknowledged, and strong fairness of giving up a deletion
that stays refused, because it does not repeat one for ever; faults are finite
(`MaxFaults`), which is the assumption that an outage ends. The limiter in
`process_life`: weak fairness of each goroutine's next step; it waits for the
mutex only while another holds it, and Go's mutex hands over to waiters. The
server in it: for each instance, weak fairness of what `run()` and the listener
do by themselves and of the restart (a statement is answered, a timer fires,
the process manager restarts); none of the handlers, the clients or the signal,
and faults are finite.

## Proofs

The proofs assume the named ASSUMEs of the modules and nothing else; TLC
evaluates those on every run. A further hypothesis (no callers of the seam, no
lost replies) is in the ASSUME of the theorem that needs it. Each theorem below
follows from an inductive invariant that is named with it.

### Registration

`RegistrationProofs`, for any number of calls, people, races and attempts:

* `TypeCorrect`. The inductive invariant `TypeInv` adds `LocalsOK`, what the
  locals hold at each label: a save writes `cand`, so it must be known to lie
  within the capacity the call read; and the loop counter is below the bound
  wherever the loop can still lose.
* `DorsalsDistinct`. Every change of the table is one of four writes
  (`RegsStep`): an insert without a dorsal, a delete, a save guarded by the
  unique index, or nothing. All faults and the seam are included.
* `CapacityHolds`, with all faults and the seam. A call decides on a snapshot,
  so `SnapshotInv` ties snapshots to history: a capacity that was read is at most
  the peak of its race, a confirmed dorsal is at most that peak, and a target
  that is still there belongs to the race whose capacity was read. Distinct
  dorsals within `1..peak` are an injection, so there are at most `peak` of them
  (`CountByDorsal`).
* `AllOrNothing`, with all faults and the seam. `OwnRowInv`: only the call itself
  removes its row, so a call that no fault struck still has it inside the loop,
  and its compensating delete leaves nothing.
* `ToldIsKept`, when nothing calls the seam, under every fault. `RowInv` says
  who owns a row: before `create` a request has none, and from `notify` on its
  row is confirmed under `cand`; only the owner deletes or saves.
* `RejectionsExplained`, when nothing calls the seam, under every fault.
  `ReasonsInv` says why a row may be gone again: a call is at `undo` only because
  the race was full or a fault struck it.
* `NoGaps` and `ConfirmedRowsKept`, with the further assumption that no reply
  is lost. `QuietInv` adds `UndoPending` (what is about to be deleted holds no
  dorsal) and `CandFollows` (the number before the one about to be saved is
  held). The assumption is needed: a save whose reply is lost is undone, and
  then its number falls free.
* `FullJustified`, under the same assumptions. `LostOK` is the strengthening: a
  call that has lost *n* attempts has seen dorsal *n* held, for each attempt
  proposes a number above every held one. With `NoGaps`, a held dorsal *n* means
  *n* confirmed runners.

`RegistrationRefinement`:

* `RacesImplemented`: every step of registration and of the webhook as it is
  seen here is a step of `RaceTable` or a stutter, under every fault and with
  the seam. Together with `RaceTableImplemented` below, both sides of the races
  table keep the one contract.
* `LedgerImplemented`, without the seam and lost replies: every step is a step of
  `DorsalLedger` or a stutter. The mapping reads a race's roll off the dorsals of
  its rows, so `RollIs` (the roll is a sequence with the person of dorsal *d* at
  *d*) rests on `NoGaps` and `DorsalsDistinct`, and `OnePerPerson` on the unique
  index. A save appends to the roll, all else leaves every roll alone
  (`RollSame`), and only `Notify` announces.

### Sessions and access tokens

`SessionsProofs`, for any number of calls, browsers, users and passwords, any
kinds of request and every fault:

* `TypeCorrect`. `LocalsOK` again says what the locals hold at each label; so a
  row that is inserted has a user and a family, and a stored password is one
  that `ValidatePassword` accepted.
* `SuccessorCorrect`. `RefreshOK` is the strengthening: from the lookup to the
  insert, the token presented is stored, with the user and family the call
  remembers, and once marked it is rotated. It survives the steps of others
  because of two lemmas about every step: `RowsStandStep` (rows keep their
  session and are never unmarked; the only row inserted is that of a call at
  `issue`) and `CallsStandStep` (a call that returned keeps what it returned).
* `RevokedCorrect`, from the same two lemmas: only three actions revoke, and
  each of them is the reason for what it revokes. `RevocationCorrect` is the
  converse: what was there when such a call arrived is revoked when it returns,
  since the one statement that revokes comes after, and nothing unmarks a row.
* `PasswordsStand`. `AccountsInv`: an account that was answered for is there, and
  between the update and the revocation a change that no other change of the
  account overlaps still finds the password it wrote.
* `ForksNeedOverlap`. A refresh turns one open end of a session into another.
  `EndsInv` says that two open ends have a conflict behind them, and that a call
  about to mark a token that was marked meanwhile was not preceded by the call
  that did. `FamilyInv` says that a family's first row is the login that named
  it, so a new family has one end.
* `CookiesStayFresh`. `CookieInv`: a cookie is a token whose response arrived, a
  token is presented only by the device that holds it, and the answer to a
  refresh takes the presented token out of the jar; so a rotated token that is
  still in the jar has a refresh of the same device that is not done.
* `LifecycleImplemented`: every step is a step of `SessionLifecycle` or a stutter,
  from `FamilyInv` and `StateShape`.

`AccessTokensProofs` extends them. `SessionsBeneath` shows that a behaviour of
`AccessTokens` is one of `Sessions`, so every invariant above is at hand.

* `AccessTypesCorrect` and `TokensCorrect`. `SignedOK`: what was signed carries
  its owner, ends at the second the client was told, rounded down, and its
  family was opened by a login of that owner. `VisitsOK`: a visit was decided by
  what its token says, and tokens stay.
* `EndsCorrect`. A call that ends a session sees what was stored when it
  arrived; `AfterInv` says that, unless a refresh overlaps it, nobody signs for the
  session afterwards: a later call finds every token revoked
  (`RevocationCoversThePast`). What was signed before runs out a lifetime after
  the call returned (`EndsOK`). `PastInv` orders the calls.

### Races and profiles

`ProfilesProofs`, for any number of calls, addresses and races and every fault:
`NoOlderPersonShown`, `LastSubmissionKept`, `PersonKept`, `ErrorsHaveFaults` and
`TypeCorrect`, all from one invariant. `CallOK` says what a call knows at each
statement (from the upsert on its submission is stored and its row is there;
from the reload on it holds one whole submission, its own or a later one, under
the row's id) and `RowOK` that a row holds the last submission. Each action
establishes `CallOK` of the call that moves; for all others `OthersKept` carries
it over, since rows only grow (`RowsGrow`: ids stay, what was written stays
written).

`RaceSyncProofs`, for any number of slugs, handlers and events, however
deliveries fail, repeat and overlap:

* `TypeCorrect`, with `JobOK`: a handler at a statement serves an event that was
  published, and upserts only what the domain accepted.
* `ReferencesCorrect` and `AnsweredCorrect`. `TableStep` reduces every action to
  what it writes: a race under a fresh id, new data under the same id, the end
  of a race nothing refers to, a registration for a race that is there, the
  answer of a row's id, or nothing. `IdsOK` is the strengthening: the id of a
  row is one the table has given to its slug.
* `RaceTableImplemented`, the simulation: from `TableStep`, every step of the
  webhook is a step of `RaceTable` or a stutter.

### Reports

`ReportsProofs`, about `ReportsSpec`, the specification TLC runs; the age
theorems are about `AgeReport` alone, and `ReportsShowAges` carries them over.
`ReportsTypes` gives the types of all five.

* Ages, for any people, birth dates, ages and days: `ResolveIsExact` (on every
  day but 29 February the computed bounds select exactly the ages asked for),
  from it the action property `AgeFilterIsExact` and the invariant
  `ShownAgesAreInRange`. The invariant says that the report shown was computed
  from one day and one filter, and that nobody is born after the clock.
* `PagerSeesAll`, for any people, surnames, page sizes and number of renames.
  `Rank` is the number of people before somebody in the order of the list, and
  `Missed` who was there at the start, was not shown and lies before the offset.
  `PagingInv` says that no more are missed than surnames changed: a newcomer moves
  others to later places only (`RankAfterInsert`), a rename hides one person at
  most (`RenameHidesOne`), a SELECT shows exactly the ranks from the offset to the
  end of the page (`RankInOrder`), so the next offset misses nobody new.
* `PagesAreTheirPlaces`, for any largest int: as long as `page * size` is an int,
  nothing the offset is computed from wraps (`NotWrapped`, `OffsetOfPage`).
* `PanelReadsAsOne`, for any races, runners, sources and rows. A `Sight` is a set
  of keys, how many of them the panel was told are confirmed, and when. `PanelInv`
  says that every sight was right then and that any two of the same keys differ by
  no more than the confirmations and the withdrawals between them; a count of
  people that is not yet selected is a sight already. A write moves the confirmed
  rows by no more than the two counters, whatever row it takes back
  (`WriteKeeps`); a request adds sights that are right now, and so reconciles with
  all there are (`AnswerKeeps`). That a total
  over the groups of a GROUP BY counts each row once (`SourcesAddUp`,
  `ShirtsAddUp`, `HistoriesAddUp`) needs induction over the groups.
* `ChartsAddUp`, for any clock, registrations and days asked, leap years
  included. `DayNumber` orders dates as the calendar does and separates them
  (`NumbersSeparate`), a day forward or back is a number more or less, hence
  walking *n* days moves by *n* (`DaysAfterNumber`, `DaysBeforeNumber`);
  `ChartInv` keeps the window as wide as the days asked. So the points are the days
  of the window, each counts what is due on it (`GroupIsDue`), and they add up
  (`SumOfPoints`).

Induction over numbers and over finite sets is stated with the set of those
that have the property (`NatSetInduction`, `SubsetInduction`) and follows from
the well-foundedness of the two orders; a recursive function is shown to exist
by giving it (`SumExists`, `DatesForward`).

### Server and limiter

`ProcessProofs`, for any number of instances, requests and addresses, any burst
and rate. The theorems are about `ProcessSpec`, the specification TLC runs;
`LimiterBeneath` and `RegistrationBeneath` say that each part behaves as its own
module says.

* `RateLimited` and `RefusalsEarned`. `LimitersOK` is mutual exclusion put to
  use: under the mutex an address gets one limiter and keeps it, and no two
  addresses share one. `FlowOf` is the book-keeping of a bucket: what its address
  has spent since any moment, plus the credit, is at most what the limit allows up
  to the last decision, and for one moment at least that, the last at which the
  bucket was full. An admission moves a token from credit to spent, a capped
  refill restarts the stretch, and a refusal reads the second half: with less
  than a token left, the address itself has spent the rest.
* `ReadyToServe`. `Ready(i)` says what the stage of an instance implies: past
  migration *n*, the first *n* items exist; past the seed, the admin does. Others
  cannot take it back, for no step removes anything (`Apart`, `OthersApart`), and
  a create that another instance was faster with ends this one.
* `ExitsCleanly`. `OnlyDrained` shows that one action alone reports success; at
  `drain` an instance was signalled, and nothing is in flight.
* `ProcessTypesCorrect`, the types of all three parts.

### What is only model-checked

Some of the proved properties are not run: the `TypeOK` of `Sessions`, `RaceSync`
and `Profiles`, `ConfirmedIsForever`, `ReferencesHold`, `LastSubmissionWins` and
`NoErrorWithoutFault`. TLC agreed with each before it was proved, and the proof
covers every instance.

Only model-checked: liveness (`EveryCallEnds`, `EndsInStep`,
`EveryRequestDecided`, `StopsWhenAsked`, `ComesUp`). It stays with TLC: the
prover handles neither ENABLED nor fairness. Every invariant and every action
property that a passing run checks, and every refinement, is a theorem.
`CapacityHolds` is about the highest
capacity; that a race is never over its present one is no promise of the code,
which reads the capacity once.

## Findings

1. `registration_leftover`. `internal/participant/service/service.go:118-120`
   says a failed confirmation must not leave a pending registration behind. The
   compensating delete uses the request's context; when the client has gone,
   confirmation fails because of it and so does the delete. The runner's next
   try is answered "already registered".
2. `sessions_change`. `internal/user/service/service.go:100-101` says a changed
   password ends every session. A login that had verified the old password
   inserts its token after the revocation.
3. `age_leap_day`. `internal/report/domain/filter.go:93-95`: on 29 February,
   `AddDate(-n)` into a common year gives 1 March, and those born on that day
   are placed a year too old by the filter, while the age beside them is right.

Observed while modelling, without a run of their own:

* `internal/auth/adapters/rest/handler.go:74-75` says a failed refresh means the
  cookie is worthless, and clears it on every error. When the error is one of
  the database, the token in the cookie is still active, and the user has to log
  in again for nothing.
* Two overlapping refreshes of one token both get a pair. `TwoActiveNeedOverlap`
  states how far this goes: only an overlap can fork a session.
* Through the seam a registration can be confirmed twice, with two e-mails, when
  both callers load it before either saves, and Register's compensating delete
  can remove a row that the seam has just confirmed. `SaveConfirmation` of a row
  that is gone reports success. The seam has no caller today.
* With lost replies a runner can be told "full" because of a confirmation that
  is then undone, and a dorsal can fall free. That is why these properties are
  checked without lost replies.
* A webhook event that is repeated, or arrives, after a later one restores the
  older snapshot, or a deleted race: nothing in the event or the row orders them.
  `EndsInStep` allows this for an event that itself came late or again, and for
  no other.
* A deletion whose slug has white space around it is answered `removed` and
  removes nothing, while the same slug is trimmed when the race is synced
  (`internal/race/domain/race.go:26` and
  `internal/race/adapters/rest/handler.go:87`).
* A figure of the panel can be smaller than an earlier one: when the reply to a
  confirmation is lost, Register deletes the row that is confirmed by then.
* A person who changes surname while an admin pages can be missed, or hide
  somebody else, as with any OFFSET; one change hides one person at most
  (`PagerShowsAll`).
* A page number near 2^63 wraps the offset to a negative one, which gorm leaves
  out: the answer names that page and lists the first. `strconv.Atoi`'s error is
  ignored, so a number too long for an int is taken for the largest one.
* A registration that is refused, because the race is full or the person is
  registered already, has stored or overwritten the person's data all the same.
  The comment at `internal/participant/service/service.go:89-90`, that a rejected
  request must not leave a row behind, holds for forms that fail validation.
* An access token carries whole seconds and ends up to a second before the
  `expires_at` the client was told.
* The limiter keeps an entry per address for the life of the process, and each
  process has a limiter of its own.
* When the signal and the listener's error are both there, `select` may take the
  signal: the process exits with success and the error is not reported.
* A signal during startup is noticed only by the seeding, which fails because of
  it: the process was stopped as asked and exits with an error. Two development
  servers that start together may fail over each other's tables, and come up
  because they are started again.

## Not modelled

E-mail senders (sending may fail and is not repeated, which `Registration` has),
routing and the mapping of errors to status codes (the models keep the error),
password hashing (a password stands for its hash), the SQL migrations that are
run by hand in production (the constraints they create are in the models), and
the OpenAPI document. A race whose slug is edited arrives as an event for a slug
the table does not have; the code cannot relate the two rows, and `RaceSync`
treats them as two races. Ages are unbounded integers, where the program has
Go's int and PostgreSQL's range of dates. `Server` takes a table and its indexes
as one item of a migration, where gorm sends a statement for each. An address is
what gin's `ClientIP` returns: the router trusts every proxy, as gin does by
default, so a client may name it in a header, and what the limiter promises is
per that name. Past the last page whose product with the size is an int
nothing is claimed of the page's rows. `PROJECT.json` has the reason for each part.

## Plan

Done: registration with its ledger, sessions with accounts and access tokens,
the webhook, the races table that ties it to registration, personal data, all
reports, the rate limiter and the server's life. All safety of registration,
sessions, access tokens, profiles, the webhook, the reports, the limiter and the
server is proved, the four refinements included.

Left, in order of importance:

1. What is left of `NoGaps` and `FullJustified` when replies are lost: a dorsal
   can fall free only through a confirmation that took effect and was undone.
2. Shorter proofs where two lemmas say nearly the same: `DaysAfterNumber` and
   `DaysBeforeNumber`, `SourcesAddUp` and `ShirtsAddUp`.
