# TLA+ specifications of the developer-assessment platform

These modules describe the parts of the platform that are decided by order and
timing rather than by data: who may run a program, which session still works,
which camera counts as connected, what an exam call may do after a pause or the
end of the time, which draft survives, what two administrators may do to each
other's work. TLC checks them on small instances, and TLAPS proves nearly all
safety properties for every instance. `PROJECT.json` lists runs, mutants, the map from
definitions to source lines, findings, hazards and theorems.

Paths below are relative to `src/`; `services/` and `modules/` are those of
`apps/api/src/`.

## 1. The system

The platform is one NestJS process (`apps/api`), a PostgreSQL database behind
Prisma, and a React client (`apps/web`). The process is one JavaScript thread:
code between two `await`s is atomic, everything else interleaves. Most database
access is a chain of single statements without a transaction.

| Component | State | Operations | Correct when |
|---|---|---|---|
| Code runner (`services/code-runner.service.ts`) | active runs and keys, queue with timers, rate windows (in memory) | `judge`, queue timer, completion and dispatch | limits hold, no slot leaks, every call is answered, a refused call never runs, a candidate's calls keep their order |
| Judgement (same file, `services/platform-store.execution-scoring.ts`) | the loop over test cases | judge, grade | it ends in time; a result for every case counted; full marks mean success |
| Session registry (`services/auth-session-registry.ts`) | token map with creation and last-use time and a timer each (in memory) | `get`, `set`, `delete`, `revokeUser`, `expire` | lifetimes hold; what is deleted stays deleted |
| Authentication (`services/auth.service.ts`, `admin-auth.guard.ts`) | the registry; user rows | `login`, `me`, `requireActiveSession`, `changePassword`, `refreshSession`, `logout` | a session shows its account as it is; a deleted account gets nowhere |
| Accounts and organizations (`modules/admin-users.controller.ts` and its services) | users, organizations, requests, invitations (rows) | setup, register, request, review, invite, accept, edit, delete | reviews are final; one initial administrator, never none; invitations are accepted once |
| Proctor gateway (`modules/proctor.gateway.ts`) | admin sockets per token (in memory), socket data, rooms | join, leave, relay, revocation listener | sockets end with their session |
| Live video (the gateway, `apps/web/src/CandidateProctorStream.ts`, `LiveProctorDashboard.tsx`) | one peer connection at the camera, one at each dashboard | offer, answer, request, connect and disconnect | somebody sees the camera |
| Proctor devices (`services/platform-store.proctor.ts`) | one row per camera, event rows | upsert (heartbeat), sweep | vanished cameras are noticed; readers see fresh rows; misses are recorded |
| Exam session and workspace (`services/platform-store.candidate-workspace.ts`, `.execution.ts`, `.state.ts`, `.service.ts`) | session, action, draft, execution, submission rows; candidate status | workspace, draft, run, submit, ready, proctor action | no work outside the time, the window or after a lock; one deadline |
| Exam page (`apps/web/src/CandidateExamWorkspace.tsx`) | editor, debounced save, query data, countdown, lock | typing, selecting, polling, saving, automatic submission | drafts are of their document and are not lost; page and server agree about time and lock |
| Identity verification (`services/identity-verification.service.ts`, `platform-store.identity-*.ts`, its page) | consent columns, verification rows; provider sessions | open a session, verify | consents on record; the newest row decides, and rightly |
| Environment check (`services/environment-check-evidence.ts`, its page) | check rows; HMAC evidence tokens | fetch evidence, run, save | only fresh evidence counts |
| Exams and mail (`services/platform-store.exam-admin.ts`, `-exam-content.ts`, `-candidate-admin.ts`, `-invite-email.ts`) | exam, question, candidate and log rows | create, edit, delete, add, invite | deleted exams stay deleted; mails are accounted for |
| Memory store and fallback (`services/platform-store.database.ts`, `.state.ts`) | lists of every row type; a sticky flag | every store operation without a database | no lost updates; both stores answer alike |
| Risk and reports (`services/platform-store.report.ts`, `.helpers.ts`, `ai-evaluation.service.ts`) | event and report rows | report, generate | levels do not fall; answered reports are stored |
| Password derivation (`services/password-hash.ts`) | active count, queue with timers | acquire, release, time out | as the runner |
| Rate limiters (`services/login-rate-limiter.ts`) | up to 20000 buckets | `consume`, eviction | limits per client and subject |
| Browser session (`apps/web/src/App.tsx`, `sessionTokenStore.ts`, the forms) | token in `sessionStorage`, session shown | log in, check, change, join, log out | no session is forgotten; what is shown is the token's |
| Readiness and configuration (`services/operations-readiness.service.ts`) | environment variables | checks | READY means it works |
| Other web pages, schema, shared types | - | reading, rendering | - |

How they interact. Controllers call the guard (`requireActiveSession`), then
`PlatformStore`. Every call about an exam first sweeps for stale cameras, so a
candidate's submission also maintains the rows the proctor sees. `run` and
`submit` await the code runner between the entry checks and the write. The
registry notifies the gateway synchronously when it deletes a token. The
gateway's disconnect handler and the browser both post device rows. Proctor
actions reach a candidate only through rows that the next call reads, and the
page learns of them from a query it repeats every five seconds. The entry
conditions read the newest verification and the newest environment check. The
invitations of `admin-users` end or refresh sessions after their transaction.

What is hard: state read before an `await` and used after it (sessions, joins,
entry checks, reviews, the lists of the memory store); two statements that should
be one (device and event, submission and status, consent and verification);
timers that race the event they guard (queue, expiry, countdown, debounce);
answers that arrive after what they answer has been replaced (drafts, `me`,
offers); work that is only done when somebody else calls (sweeps, dispatch).
`PROJECT.json` lists each such place under `hazards` with the property that
watches it.

## 2. Modules

| Module | Models | Theorems |
|---|---|---|
| `Absence` | `None`, the value of what is not there | |
| `CodeRunner` | admission control of the code runner | `CodeRunnerProofs` |
| `JudgeService` | what the runner promises its callers; abstract | |
| `Judgement` | one judgement: cases, budget, verdict | `CodeRunnerProofs` |
| `AuthSessions` | registry, authentication handlers, administrative changes | `AuthSessionsProofs` |
| `ProctorGateway` | administrators' sockets, extends `AuthSessions` | `AuthSessionsProofs` |
| `LiveVideo` | the picture of one camera and its dashboards | `AuthSessionsProofs` |
| `ProctorDevices` | camera rows, posts, sweeps | `ExamSessionProofs` |
| `ExamSession` | one candidate's exam, extends `ProctorDevices` | `ExamSessionProofs` |
| `ExamPage` | editor, drafts and lock of the exam page | `CandidatePagesProofs` |
| `IdentityVerification` | consent, provider session, verification rows | `CandidatePagesProofs` |
| `EnvironmentCheck` | the check page and its evidence tokens | `CandidatePagesProofs` |
| `RateLimiter` | the request limiter's buckets | `LoginsProofs` |
| `PasswordKdf` | the pool of password derivations | `LoginsProofs` |
| `Logins` | a login from limiter to answer, extends both | `LoginsProofs` |
| `OrgMembership` | accounts, organizations, requests, reviews, deletions | `OrgMembershipProofs` |
| `InvitationDesk` | what invitations promise; abstract | `OrgMembershipProofs` |
| `ExamContent` | exams, their contents, invitation mails | `PlatformProofs` |
| `PlatformStore` | snapshot and assignment, the fallback to memory | `StoreProofs` |
| `TwoStores` | the same operations in the database and in memory | `StoreProofs` |
| `Reporting` | risk score and level, generation of reports | `PlatformProofs` |
| `BrowserSession` | token and session of one tab | `PlatformProofs` |
| `Readiness` | the readiness checks against what the services do | `PlatformProofs` |
| `MC*` | the instances TLC checks | |

Some definitions are preceded by a comment beginning "Wrong:". They are
deliberately faulty variants, used to make sure that each property notices the
mistake; no specification uses them.

Two things recur. An operation that awaits the database is a record in a variable
(`call`, `task`, `job`, `request`), its fields are what it has read, and every
await is a place where other steps may come between. And history variables keep
what the code does not (`barred`, `final`, `recorded`, `trouble`, `abandoned`,
`undisturbed`, `startedLocked`); no guard of an operation reads them.

### CodeRunner

`phase`, `answer` and `timers` record where a call stands, how its promise
settled and whether its queue timer is armed. `activeRuns`,
`activeAdmissionKeys` and `requestWindows` are the fields of the class. The
queue is pushed at its end and spliced anywhere, so with calls numbered by
arrival it is the set of queued calls. `thread` says that a completion is inside
the loop of `dispatchQueuedRuns`; nothing else happens then. The actions are the
branches of `withAdmission` (`JudgeOverRate`, `JudgeAtOnce`, `JudgeQueueFull`,
`JudgeQueued`), the timer callback, the `finally` block (`Complete`), the loop
(`DispatchNext`, `DispatchReturn`) and the end of a rate window. A judgement's
result and an exception are both "result": the caller is answered. In production
`judge` throws before it gets here; the module is the runner that is enabled.

### Judgement

What `judgeAdmitted` does once a call is admitted: answers that are not code or
cannot be run get their verdict at once; otherwise one process a case until the
cases counted are done or the deadline has passed, the rest is skipped. `elapsed`
is time since the deadline was set; a process takes up to the smaller of its
timeout and what is left, and `Overhead` for writing and clearing up. Grading and
the rounding of points are operators.

### AuthSessions

A handler under way is a record `call[c]`: `loc` names the `await` it stands at,
`row` is the database's answer once there is one. The database evaluates a
query or commits an update at some moment of the `await` (`Query`, `Commit`);
the code after it is another action (`MeReply`, `RehashReply`, ...). So every
interleaving of two handlers at their awaits is a behaviour. An account is its
existence, a version that each change of password, role, organization or e-mail
increases, and the state of its password. Every handler of the controllers that
only reads is the operation "check": guard, work, end. Times are counted in
ticks up to the lifetimes. The session that a password change opens has the
organization of the query before it, and everything else of its update; so of a
change between the two it may show the older version (`Shown`). `revoked` and
`trueAge` are history variables.

### ProctorGateway and LiveVideo

A join is a "check" call of `AuthSessions` bound to a socket: while the call is
at "granted" the handler awaits `getLiveProctorState`. `JoinDone` is everything
after that. Whatever step deletes tokens from the registry, the gateway's
listener runs in the same turn (`Disconnected`, `Forget`).

`LiveVideo` follows the picture. The camera's page keeps one connection in
`peerRef`, and every offer replaces it; an offer is relayed to the exam's
dashboards, each of which answers; the page takes the first answer that comes
while its connection has none, whichever offer it was for. Offers and device
events reach a dashboard in order, requests and answers pass through an `await`
of the gateway and may overtake. The page's socket may break and come back.

### ProctorDevices

A post is under way from the moment the handler takes its time stamp until it
commits, so posts commit in any order. A sweep is: `staleBefore` (`SweepBegin`),
the query, then for each stale device an update and an event insert, in any
order across devices and with any post or sweep in between. A statement may
fail (`SweepFails`) and the process may restart. Only the update's `where: { id }`
is what the code asks, so it may overwrite a newer heartbeat.

### ExamSession

A call walks through "sweep" (first snapshot and sweep), "ensure" (second
snapshot, entry conditions), "action" (session row read), "expired", "evaluate"
(code runner or text comparison), "write" and "status". `time` is the
`remainingSeconds` it saw. `barred` is a history variable: why the call should
not get through, taken when it began; a resume lifts "locked", a new window
lifts "closed". The unique key (`candidateId`, `examId`) of the session row makes
`ensureExamSession` one atomic step. The page is modelled here as far as its
automatic submission depends on it. The exam modelled requires the mobile camera;
the workspace query and the rows it shows are one step.

### ExamPage

The page with its editor. A document is a question and a language; texts are
numbered as they are typed, so an older draft has a smaller number. `timer` is the
debounced save, `out` the requests under way, `poll` and `data` the query's answer
and what is rendered. The effects that run after a render are the functions the
actions are made of; selecting a question renders twice, because the effect on
the selection sets the text that the next render's effect saves. `fromData` says
that the editor's text was set by the query, `trouble` that a save failed or
overtook another.

### IdentityVerification, EnvironmentCheck

Two sets of rows that the entry conditions read. In the first, the phone page may
be open twice (`form`), a mutation walks through consent, provider session,
capture and verification, and a release may change the policy version and drop
the requests in flight. In the second, an evidence token is the time it was
issued; the page runs its items, submits, and moves on when the request it waits
for is answered; a reload keeps the requests of its predecessor under way.

### RateLimiter, PasswordKdf, Logins

`RateLimiter` is the Map of buckets as a sequence in insertion order, and `Consume`
is one call of `consume`; `window` is what the counts would be without eviction
(history). `PasswordKdf` is the pool as a record and its operations as functions
on it, because a caller whose derivation ends may release its slot and ask for the
next one in the same turn (`Compared` on `Released`).

`Logins` follows an attempt `call[a]` through "read" (findUnique), "decide" (the
code after it, with its clock), "verify" and "hash" (derivations) to "commit". The
serializable transaction is a snapshot `row` with a flag `stale` that every commit
of another writer sets: PostgreSQL lets the first writer through, the others fail
with P2034 and start over (`Repeat`). The statements of a transaction are one step
at its commit, since nobody sees them before. A transaction that writes nothing is
not made to fail, which allows every outcome the database does except a needless
failure, and `Abort` has those. Password changes take no transaction and overwrite
the row as it is.

### OrgMembership, InvitationDesk

Accounts, the organizations they belong to, and four kinds of request. A task
reads and decides in one step (`Setup`, ...), writes in another (`CommitSetup`,
...), and ends or refreshes sessions in a third, as the controllers do. Serializable
transactions are those of setup and deletion. A setup fails when another one
committed, a deletion when its target or an invitation it deletes was written.
Two deletions of which one read an account that the other deletes may both commit,
since that is the order they would have had one after the other; a chain of three,
or two that read each other's targets, may not (`overtaken`, `Collides`). Conditional updates (`updateMany` with a `where` on the status, and
on the missing organization) look again at the commit; the plain ones do not.
`InvitationDesk` is the abstract promise about invitations, and
`InvitationsKeepTheirPromise` the refinement: an invitation is accepted at most
once, by an account that has no organization then.

### ExamContent

Exams, one table of `items` for what belongs to them, and mails. An operation
reads the exam, checks the organization of its caller, and writes in a second
step. A mail is asked of the provider, which may take it without its answer ever
arriving, and logged after.

### PlatformStore, TwoStores

`PlatformStore` is what all store operations have in common: the lists an
operation is given, the awaits between, and the assignment of whole lists. A list
is the set of calls whose change it shows, so a lost update is a set that shrinks.
`loc` is where an operation stands: "outside", waiting for the runner, the mail or
the identity provider; "statement", waiting for the database; or "turn", at an await
that comes back in the same turn of the event loop. While anything is at "turn" no
request begins and nobody answers (`Idle`); but the operations that one request began
together, the saves of a report generation (`Promise.all` in
`ai.controller.ts:20`), all hold the list of its beginning and assign it one after
the other (`BeginOperation` with several calls, `EndTurn`). The flag
`databaseUnavailable` is set by the first failure outside production and never
cleared.

`TwoStores` runs the operations one after the other in both stores and compares.
It is the module that has the contents: drafts, submissions, checks, sessions,
devices, and the orders in which readers see them. A table is a sequence in the order
of creation, a list is one in the order its branch keeps, and both begin with the rows
of `createPlatformSeedData` (`SeedData`), for a candidate who is invited or one who has
passed the entry page. What the code filters out of a table or a list, in its order, is
`Among`; where it finds one row by a key, the model does (`Exam`, `Candidate`).

### Reporting, BrowserSession, Readiness

`Reporting` counts the newest events of a candidate into a score and a level, and
generates reports with one task a candidate (`Promise.all`): evaluate, then save.
The built-in evaluation computes the integrity score from the risk and does not
fail; an external one (`AI_API_BASE_URL`, the variable `external`) fails or answers
any score in the range (`Scores`). A save fails or adds a row. The rows are those of
a process that keeps its database. `BrowserSession` has the token a tab keeps, the session
its page shows, and the requests whose answers change either, in any order, with
answers lost and pages left. `Readiness` evaluates the checks on a configuration
and, next to each, what the service does with the same variables. `Configs` has the
configurations that differ from a complete one in the settings of one check.

## 3. What is checked

Deadlock is not checked anywhere: calls, queries and faults are bounded, so
every instance may stop. `None` is a model value.

Components that share no state share a run. The MC module extends them all and
has one more variable, `focus`: a behaviour is one of the component that `focus`
names, and the others stay where they began. So the states of such a run are the
sum of the components' states and not their product, and every property is about
the behaviours of its own component. Components that do share state are one
module (`ExamSession` extends `ProctorDevices`, `ProctorGateway` extends
`AuthSessions`, `Logins` extends limiter and pool), and all their interleavings
are checked.

| Run | Instance | Shows |
|---|---|---|
| `services` | runner: 3 candidates, 4 calls, 2 slots, queue of 2, 3 calls a minute. Judgement: up to 8 cases of 7 counted, budget 4, processes of 2, overhead 1. Devices: 1 camera, 2 posts, 2 sweeps, timeout and call time of 1 tick, 1 fault. Fair | limits, slots, order, every call answered, implements `JudgeService`; verdicts complete and in time; freshness after a sweep, events, vanished cameras |
| `sessions` | 1 user, 2 tokens, 2 calls of any kind, 1 account change, lifetimes of 1 tick | a revoked token returns only through a handler under way |
| `sessions_life` | 1 user, 1 token, 2 calls, lifetimes of 3 and 2 ticks, fair | lifetimes, deleted accounts, idle sessions end |
| `gateway` | 2 sockets, 2 tokens, 2 joins or logins. Camera: 2 dashboards, 3 offers, 1 broken connection | sockets end with their session except in a late join; exactly one dashboard sees the camera |
| `exam` | 1 call at a time, pauses and resumes, timeout and call time of 1 tick, 1 fault. Page: 2 languages, 2 saves, 3 events. Identity: 2 pages, 2 policy versions, 2 verifications, clock to 1. Check: 2 items, 2 saves, tokens of 2 ticks, clock to 4 | barred calls stop, status after submission, one deadline, live camera; drafts and lock; consent and verification; fresh evidence |
| `logins` | 4 attempts, 2 clients, limits of 1 per client and 2 per account, 3 buckets, 1 slot and 2 waiters, lock at 2 failures, 1 repetition, 1 tick; symmetric | slots, count and lock, limits |
| `platform` | accounts: 3 with 2 organizations, 1 request, 2 tasks at once, 3 operations. Exams: 1, with 2 texts, 2 items, 4 jobs. Stores: 2 calls, 1 failure, each deployment. Reports: 2 candidates, window 3, limits 2 and 3, 5 events, 1 generation. Browser: 2 requests at once, 2 tokens, 1 lost answer. Rows: 4 operations, 2 documents, 2 rows of the long tables, 2 ticks. Settings: those of each check in turn, the others complete | final decisions, setup, invitations; deleted exams, mails; lost updates; levels and reports; sessions of the tab; both stores alike; READY |
| `sessions_stale` (violation) | 2 tokens, 1 call | finding 1 |
| `sessions_revived` (violation) | 2 calls | finding 2 |
| `gateway_late_join` (violation) | 1 socket | finding 3 |
| `exam_auto_submit` (violation) | the page and its call | finding 4 |
| `last_administrator` (violation) | as `platform` | finding 5 |

Why the bounds are enough.

*Runner.* Four calls fill both slots and the queue (one candidate can do that
alone: one runs, two wait, one is refused) and exceed the rate of three; a third
candidate is needed for a call that may run while another must wait for its own
key. The queue never needs more entries to show an order: its rule looks at one
candidate's calls and at the first that may run.

*Judgement.* Eight cases are one more than are counted, and a budget of four is
used up after two of them, so skipped, failed and uncounted cases meet.

*Sessions.* A race takes two handlers; a third would only repeat what one of
them does. One account change separates the old row from the new one; the theorems hold
for any number, also for the change between the two queries of a password change,
which takes a second. Two tokens
are needed where one handler must spare or hit the other session; lifetimes of
three and two ticks leave room to use a session, idle, and reach the absolute
limit.

*Devices and picture.* Two overlapping sweeps and two overlapping posts give
every order of query, update, insert and commit on one row; rows do not influence
each other, so one camera suffices. Two dashboards compete for the one connection,
and the third offer is the one that comes while answers to an older one are still
under way.

*Logins.* Four attempts are a derivation under way, a full queue and one turned
away, or two failures that lock and two that raced them; each limit can be hit,
the map can overflow by one and evict a bucket that counts, and the tick ends both
the window and the lock. The account begins with a hash of the old format or with a
password past its lifetime, so that the first success writes in either case; the row
with nothing left to write comes after it.

*Exam calls.* What a call does depends on rows that other parties write, all of
which change at any step. Calls that overlap meet in the session row and in the
sweeps; the theorems of `ExamSessionProofs` cover any number
of them, so the run has one call and spends its states on time and faults. Two first
calls that both create the session row meet only in the theorem (`DeadlineIsKept`). `run`
differs from `submit` only in what it writes, a dashboard request is a sweep that
nothing follows, and TERMINATE_EXAM blocks as PAUSE_EXAM does. One fault at any
place is enough because a call never resumes after one.

*Exam page.* Two documents are one selected and one left; two saves are two that
overlap; three events are, for instance, two texts and a pause between them. The
theorems of `CandidatePagesProofs` hold for any number of each.

*Identity and check.* Two pages overlap, the second version separates a consent
from the policy it is about; two rows are an older and a newest one. Tokens live
two ticks of a clock that goes to four, so a token expires and is replaced.

*Accounts.* A review races a review, a deletion, an edit or an acceptance with two
tasks; the third operation comes after both. Three accounts are an administrator,
one to act on, and one more, so that two administrators can exist. *Exams:* two
jobs race, the fourth sees what they left. *Stores:* a lost update takes two calls,
and all 20 operations on lists are tried for both, one call of a generation's two
saves being enough to undo the other. *Reports:* the window of three
overflows twice, and a highest score of two makes a score in the middle and both ends,
with and without an external service. *Browser:* two requests give every order of two answers, tokens and
losses. *Rows:* four operations reach the end of each sequence that the branches
treat differently, such as a pause before the first workspace. *Settings* are
finite.

Every clock is a bounded age or a bounded time: `MaxBeat`, `Duration`, the two
lifetimes. An age stops at the first value past every limit that is compared with
it, so nothing is cut off. The bounds that do cut off behaviours all begin with
`Max` (`MaxRequests`, `MaxVersion`, `MaxFaults`, `MaxTime`, `MaxEvents`, `MaxVersions`,
`MaxMoment`, `MaxVerifications`, `MaxCheckClock`, `MaxOffers`, `MaxBreaks`,
`MaxOperations`, `MaxJobs`, `MaxFailures`, `MaxProctorEvents`, `MaxTokens`,
`MaxLosses`, `MaxSteps`, `MaxClock`). `Window`, `Warning`, `Danger` and `Take` are smaller
than the code's numbers, in the same order.

### Fairness

* Runner: a judgement ends (each process has a timeout and the whole judgement a
  deadline of 30 seconds, which `JudgementEnds` proves) and the dispatch loop, which
  has no `await`, goes on. Queue timers are *not* assumed to fire: a queued call is
  answered because running ones end.
* Sessions: time passes and the registry's timers fire. Requests need not come.
* Devices: statements are answered, time passes, and sweeps keep beginning,
  because an open dashboard or candidate page asks again every three to five
  seconds (`LiveProctorDashboard.tsx:31`, `CandidateExamWorkspace.tsx:16`,
  `CandidateFlow.tsx:39`). With every page closed nobody notices, and nobody
  looks. No device is assumed to post.

All other runs check safety only and assume nothing.

## 4. What is proved

The theorems hold for every number of candidates, calls, accounts, sockets,
dashboards, cameras, posts, documents, pages and requests and for every value of the
limits. Each rests on the assumptions that its component's module names, which say no
more than the code's constants do:

* `RunnerLimits`, `KdfLimits` (naturals, and there is a slot); `LimiterConstants` (the
  same, a window lasts, and no client is a subject: the keys have different prefixes);
  `LoginConstants` (there is a limit of failures and a lock lasts).
* `JudgementAssumption` (no more than 199 cases are counted), `DeviceConstants` (a call
  ends within the heartbeat timeout), `SessionConstants` (idling is no longer than the
  lifetime), `ReportingAssumption` (an event adds a point, and the window of 50 events
  holds at least the points of DANGER, which are 30).
* `ExamConstants`, `PageAssumption`, `BrowserAssumption`, `CheckAssumption`,
  `IdentityAssumption`, `LiveVideoAssumption`, `MembershipConstants`,
  `ContentConstants`: types of the constants; there are finitely many accounts and
  jobs, since one counts them.
* `RowsAssumption`: an exam lasts a number of minutes, and `None`, which stands for the
  session that was not started, is no time.
* `NoneIsNoRow`, `NoneIsNoRecord` and their like: `None` is no record.

Where an argument needs that an invariant is inductive, TLC checked that invariant on
the instance of section 3 before it was proved.

### Runner and judgement (`CodeRunnerProofs`)

The inductive invariant says that `activeRuns` is the number
of executing calls and the admission keys are exactly theirs, that timers are
armed exactly for queued calls, and that an answered call is neither queued nor
executing. Type correctness and these equalities have to be proved together: the
guard of `JudgeAtOnce` asks the counters, and only the equalities turn that into a
statement about programs. `WorkConserving` needs the position of the thread as
well, because slots may idle between `Complete` and the end of the dispatch loop.
`RunnerImplementsService` maps each step to a step of `JudgeService` or to a
stutter, from the same invariant.

For a judgement the invariant is the sum: passed, failed and remaining cases
are all the cases, and a process that starts within the budget ends within it and
one overhead. That full marks mean full success is arithmetic about rounding
(`RoundingIsHonest`), true up to 199 cases and not beyond.

### Sessions, sockets and the picture (`AuthSessionsProofs`)

`IInv` says that a handler which holds a session took its token from the registry
(`HandsHoldIssued`), and that an issued token is live or was deleted
(`NothingIsLost`). Every step does one of a few things to the registry: nothing, touch
or delete tokens, set a token that a handler holds, or issue a fresh one; each of them
keeps `AbsoluteLifetime`, because a set keeps the creation time of a token that is there.
`RevocationIsFinal` is the same case distinction: with no handler that holds a token
nobody sets it. `DeletedIsRefused` adds that an account without handlers gets only
such as ask the database first (`Shut`), and the database has no row.

`GatewayInv` adds that every socket in the room is tracked under its token, also
under one that was gone when it joined. A step of the gateway is a step of the
sessions, so `IInv` is kept; a revocation finds all sockets of its token.

`VideoInv` describes an undisturbed exchange as two stages. In the first (`Drafted`)
the one offer is not yet sent and no dashboard holds anything; in the second (`Sent`)
every dashboard waits for that offer or has taken it, and every answer under way is of
a dashboard that shows it; either the camera took such an answer, or all of them are
still coming. When nothing is under way only the first alternative is left, if there
is a dashboard at all.

### Exam and cameras (`ExamSessionProofs`)

*Cameras.* `SweptIsFresh` and `MissesAreRecorded` are inductive with
the types (`DevicesInv`). The point of the first is that a post commits within the
call time, so that a post which overlaps a sweep cannot bring back a heartbeat
older than the sweep tolerates; here the assumption that a call is shorter than
the timeout is needed. The second needs that a sweep ends only when it owes no
event.

*Calls.* `BarredCallsStop` is not inductive: that a call at "write" is
not barred depends on what it read at "action" and at "ensure". `IInv` adds, for
each reason to bar a call, how far such a call can get: a locked one to "action"
while the lock stands (`HeldByLock`), one outside the window to "sweep"
(`HeldByWindow`), one out of time to "expired" with the time it saw already up
(`HeldByTime`), and that the time a call saw agrees with the session row
(`Timed`). `DeadlineIsKept` follows from the same invariant: only a call that saw
the time up completes the session, and age never decreases.

*Together.* Each step of the exam is for the cameras a
step of `ProctorDevices`, one more fault, or nothing (`DevicesStep`), so
`DevicesInv` holds in the exam as well; together with "a call sweeps exactly while
it stands before its second snapshot" (`SweepsAgree`) it gives the type invariant
and `AdmittedWithLiveCamera`. `CallMoves` says where one step can take a call;
that a call reaches "status" only with its submission written gives
`ProgressMeansSubmission`.

### The candidate's pages (`CandidatePagesProofs`)

*Exam page.* One invariant stands under four others. `PageInv` says that every
text in the drafts, in requests and in the query's answer was typed for its
document, and that an armed save is of what the editor shows, except between the
two renders of a selection; there it pairs the old text with the new document, and
what saves the day is that no timer fires between two renders. `NewerInv` adds that
a text which was typed is newer than any draft until it is sent beside another save
of its document; so a draft goes back only by one of the two ways that
`DraftsGoBackOnlyFromOldData` lists. `LockInv` relates the page's lock to the data it
came from. `PendingInv` says what becomes of a text that the server does not have.

*Environment check.* `CheckInv` gives the requests under way what `ChecksAreFresh`
says of rows: results travel only when all of them passed (`ReadyToSubmit`), and a
request that was let in is written before its token is too old by one write.

*Identity.* `IdentityInv` says what a request keeps from one call to the next: a
consent that it carries is on record, and a page at the provider has a session opened
under a consent. `VerifiedUntilContradicted` needs that a page's button was pressed
over a row that was not verified (`ShowsRows`): the rows that come later are those
the page had not been told of.

### Logins, pool and limiter (`LoginsProofs`)

`GuessesBounded` is not inductive: a failure may be counted on a row
read long ago. `ReadsHold` adds that a login whose snapshot is not stale has read the
row as it is now, which every commit keeps because a commit that writes makes all
other snapshots stale (`CommitKeeps`), and every other step because it only moves one
attempt (`StepsMove`, `MovesKeep`). So a counted failure adds to the current count and
locks at the limit.

`Serves(pool, W)` says that the pool serves exactly the attempts `W`: some derive, as
many as the counter says, the others queue, each once, and only behind a full pool.
Acquiring adds an attempt to `W` or refuses it, a timeout takes out one that queues
and a release one that derives, in both cases with the head of the queue moving up.
An attempt whose derivation ends may ask for the next in the same turn; so the two
operations are lemmas about values, not about steps, and `Compared` is one after the
other.

`LimiterInv` relates what the map says of a key to the window of the key that the
history keeps (`InStep`): the counts agree until the bucket is evicted, and a key
without a bucket has no open window. The map stays one without double keys, and is no
longer than its maximum and one. What the loop over the map leaves is a recursive
function; that it exists and only leaves out buckets is proved by induction on the
number of buckets seen (`LoopLeaves`).

### Accounts (`OrgMembershipProofs`)

`Held` says what an operation relies on from its read to its write (`Suits`), and that
nobody is about to change a decision that is final. Every step is one of a few kinds
(`StepsDo`), and the arguments go by kind. The refinement of `InvitationDesk` follows:
an acceptance that writes found the conditions of the desk's `Accept` in its conditional
updates, a deletion takes invitations and the account away in one step, and everything
else that moves an account leaves the invitations alone.

`SetUpOnceAndKept` needs an argument about sets of transactions that can commit
together (`Kept`). The first attempt at it failed, for a reason: three deletions in
a chain, each having read an account that the next one deletes, emptied the table in the
model, which PostgreSQL does not allow. The rule for serializable transactions in `Collides` is the
result. With it: a deletion that may still commit finds its target, and its actor
unless it was overtaken; and somebody is there whom no overtaken deletion is about
(`SomebodyStays`). Of two deletions of administrators that nobody raced, the first has
read the second's target, or the second has read every administrator that is left of
those the first has read (`AdministratorStays`).

### The two stores (`StoreProofs`)

*Overlapping calls.* `LossesHaveACause` lists when a reader may stop to see an answered
change: an operation that waited outside assigns an older list, in one of five lists; a
save of the same generation does, in the reports; the database is given up; or a
statement sent before that comes back after it. `StoresInv` says that lists, those
assigned and those passed on, show answered changes only; who may wait where
(`Waiting`); and that an operation which stands at "turn", if it waited for nobody, was
given all the lists show but what its siblings have assigned (`Turns`, `Together`). A list
forgets a change only by an assignment from an older list (`AssignmentLoses`), and
`LossesAreExplained` follows the operation that made it, one case for each way to
answer (`StepLoses`).

*The same operations in both.* `StoresAgree` compares what readers see, and is not
inductive: a pick of the newest blocking action, the number of a new exam or the
candidates under a deleted exam depend on rows that no reader shows. The invariant
`TwoInv` says more, until an exam was locked before it had a session: the last answers
are the same, and the stores are `Alike`. That is a relation column by column:

* the exams are numbered in order of creation, so that number 0 is one row
  (`FirstExam`), and the list has them in reverse;
* the logs, drafts, checks and what else is read newest first (`Turned`) are the
  reverse of each other;
* questions, test cases, the device and the session (`Same`) are equal; whether the
  session was completed is a column that no list has and no branch reads;
* candidates are equal while the exam is there. `MarkCandidateReady` writes the row of
  the database before it looks for the exam and the list only after it, so under a
  deleted exam they may differ, and nothing reads them any more: a deleted exam stays
  deleted (`PutExams`).

The lemmas below this are about sequences: a row appended is the head of the reverse
(`ReverseAppend`), the same rows are in both (`RangeOfReverse`), and picking rows
commutes with reversing (`AmongReverse`, by `AmongLast` and `AmongFirst`: what a last or
a first row adds to the picked ones). From them come one lemma for each way to change a
column (`PutTurned` ... `SetExamBoth`), then one for each operation. Operations in an
open session first sweep, then let the candidate in or refuse: `OpenBoth` shows that
both stores do the same, and stay alike unless a pause refuses a candidate whose session
the statements have just made; that is the case `startedLocked` records.

### Exams, mails, reports, the tab and readiness (`PlatformProofs`)

*Mails.* The numbers under way are cardinalities over jobs. `CountMoves` says what one
job that moves from one place to another does to each; the equation of
`InvitesAreAccountedFor` is then kept by arithmetic. `DeletionStands` needs that rows
are never taken away.

*Reports.* A candidate of a generation is being evaluated, failed, or has exactly one
report that is being stored or in the rows (`Accounted`, `One`), with a score that the
evaluation may come to (`Scores`); an answer with reports came when only the last was
left.
`LevelsDoNotFall` is about sums: `TotalSums` gives the score as the end of a function
of partial sums, by induction; so a window of fifty events has at least fifty points
(`TotalOfPoints`), and one more event adds its own (`TotalGrows`).

*The tab.* A session the server keeps is the tab's, abandoned, or held
by one request (`Placed`); each request holds at most the session it asked for. That
a page which shows nothing has a check under way whose answer it will hear
(`Awaited`) gives `SettledPage`.

*Readiness.* The configurations of the specification vary the settings of one check at
a time. The invariant `ReadinessInv` only says that each setting is of its kind
(`Settings`), so `SettingsSuffice` is about every combination; a lemma per check follows
from what it asks (`ReadyStores`, `ReadyMail`, ...). That a kind does not contain
"refused" matters: it is what `EnvironmentCheckSecret` answers without a secret.

### Induction, and what is only model-checked

The library's induction theorems take an operator as parameter, which the installed
provers cannot instantiate. The lemma `Induction` states the principle for a *set* of
numbers (a set that holds 0 and the successor of each member is all of `Nat`) and is
proved from the least member of its complement; the loops of the limiter, of the
risk score and of the rows that `Among` picks need no more. A property of a sequence
becomes one of the numbers at which all sequences of that length have it.

Every safety invariant and action property of a passing run is a theorem. Only
model-checked are the liveness properties `EveryCallSettles`, `VanishedIsNoticed` and
`IdleSessionsEnd`: liveness under fairness and `ENABLED` are outside what the installed
provers do.

## 5. Where code and documents disagree

1. `sessions_stale`. `README.md:302` promises that a change of role, organization
   or e-mail revokes the account's sessions. `acceptOrganizationInvitation`
   refreshes the session that made the call and leaves the others as they were,
   with the old role and organization until they expire.
2. `sessions_revived`. `README.md:303`-`304` promise lifetimes of eight hours and
   thirty minutes and revocation at expiry. `me()` and `requireActiveSession()`
   store the session they read before an `await` (`auth.service.ts:181`, `:209`),
   so a logout or expiry during the `await` is undone, and the restored token
   starts a new absolute lifetime. `QuiescentRevocationIsFinal` says this is the
   only way back: a token revoked while no handler is under way stays revoked.
3. `gateway_late_join`. `README.md:304` promises that sockets are closed when the
   session ends. `handleJoinAdmin` checks the session, awaits the live state and
   joins the room without checking again. `OrphansOnlyFromLateJoins` says that no
   other path leaves such a socket.
4. `exam_auto_submit`. `CandidateExamWorkspace.tsx:130` announces that the answer
   is being submitted because the time is up; the server refuses at the same zero.
5. `last_administrator`. `README.md:121` says that the last administrator account
   cannot be deleted. The deletion counts administrators in a serializable
   transaction, but `updateManagedUser` changes a role with a plain update: with two
   administrators, one deletes the other while his own role is edited away, and
   nobody is left. `SetUpOnceAndKept` says that two deletions alone cannot do this.

The properties that hold often do so with an exception, because the code has a gap
there. These have no run of their own:

* *Sessions.* A login creates its session after its transaction
  (`auth.service.ts:355`), so an edit that commits and revokes in between leaves a
  session of the old row; `DeletedAccountsAreRefused` shows that at least a deleted
  account gets nowhere with it. The age of a password is judged on a row read
  earlier, so its mark may land after a change (`auth.service.ts:178`).
* *The tab* (`abandoned` in `BrowserSession`). A `me` that fails for any reason removes
  the token while the session lives; a late one shows the console again after a
  logout, and a late failing one removes a newer login's token.
* *Devices.* A miss whose event insert fails, or whose process stops, between
  `platform-store.proctor.ts:144` and `:152` never gets its event;
  `MissesAreRecorded` therefore speaks of behaviours without faults. Each connect of
  the camera's page starts a heartbeat interval of which only the last is cleared
  (`CandidateProctorStream.ts:121`), so a page without a stream may go on posting.
* *Live video.* Only one of several dashboards gets the picture, a stale answer breaks
  it until the next request five seconds later, and a first offer may be made before
  the gateway has finished the join.
* *Exam page.* Text typed less than 600 ms before a poll or a change of question is
  discarded, and the text of an old answer may be saved over a newer draft
  (`fromData`). A memo or a warning after a pause unlocks the page while the server
  goes on refusing (`latest = "remarks"` in `LockAgreesWithServer`).
* *Reviews.* Overlapping reviews may decide a request twice, until the last is over;
  two overlapping approvals of a signup make two organizations. `DecisionsBecomeFinal`
  begins after that and watches neither.
* *Administrators.* Two who demote each other leave none. `SetUpOnceAndKept` counts
  accounts, and finding 5 is about a demotion that meets a deletion; no property watches
  the demotions alone.
* *Password changes.* The new session has the organization of a query before the
  derivation; an edit in between is missing from it.
* *Stores.* A first entry that a pause refuses starts the session's time in the
  database and leaves no session in memory (`startedLocked`). In memory mode, the
  parallel saves of a report generation keep one of the reports; that is a cause of its
  own in `LossesHaveACause`.
* *Reports.* The score, unlike the level, may fall; a generation that is rejected goes
  on writing.
* *Readiness.* A check says READY without looking at `RESEND_API_BASE_URL`; for a
  provider address that contains an account, which the request then refuses; for TURN
  servers of the API, which the page does not read; and for the database in demo mode
  or after it was given up. The code runner's check is never READY, so the whole is
  not either.
* *Pages without a module.* Saving an untouched exam form shifts its times by the UTC
  offset (`ExamEdit.tsx:8`), and edits typed into one row of the account list survive
  a save or cancel of it.

## 6. What is left out, and why

* Production refuses to judge at all; `CodeRunner` is the runner that is enabled.
* Demonstration sign-in, which keeps no account. All modules but `PlatformStore`,
  `TwoStores` and `Readiness` model database mode.
* The content of problems, answers, messages and reports: no property tells them
  apart. `Reporting` has of an evaluation only the integrity score, and of what becomes
  of reports without a database only `PlatformStore` speaks.
* One exam and one candidate in `ExamSession`; candidates share only the sweep,
  which `ProctorDevices` models for any set of devices and calls.
* In `Logins`: other accounts, the sessions that a login opens (`AuthSessions` has
  them), a password that comes to its lifetime during the run, and accounts being
  created.
* ICE candidates, which follow the rooms of the offers, and the media itself.
* Docker and Python processes, the provider's and the mail service's answers beyond
  success, failure and silence, CORS and start-up, styles and wording, and the pages
  that only show what they fetched: I/O without protocol state.
* The unique keys of the schema (`ExamSession` and `ProctorDevice` by candidate and
  exam, and role, the e-mail of an account, the pair of a draft) are what makes the
  upserts single steps; the database is otherwise assumed to execute single
  statements atomically.

## 7. Plan

Done: runner, sessions, gateway, devices, exam and logins, which decide what
candidates and proctors can do; then accounts and requests, content and mail, the
two stores, the judgement, the entry conditions, the page, the picture, reports, the
tab and readiness.

The safety properties that the runs check are proved for every instance (section 4).

Next, in the model: the exam page and the server composed, so that a save of `ExamPage` is
a call of `ExamSession` with its awaits; and the gateway's posts joined to
`ProctorDevices`, so that the order of a disconnect and the post of the next socket is
seen in the rows.
