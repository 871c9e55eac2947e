# Forge: a TLA+ verification project

Forge is a Go scaffold for regulated back ends: an API server (`cmd/server`), a worker
(`cmd/worker`), a relational database that holds all state of record, a cache (Redis or
memory) for locks and counters, a message bus (RocketMQ) and an object store. Several servers
and several workers run side by side and share the database; nothing else coordinates them.
What is hard in this system is therefore always the same question: *what do several processes
do to one row between the statements of one of them, and what is left when one of them fails
in the middle?* The modules here answer it for the parts that carry the platform's own logic.

All paths below are relative to `src/`.

## Inventory

| Component | State | Operations | Hard behaviour | What makes it correct |
|---|---|---|---|---|
| Reliable messages (`internal/platform/reliablemsg`, `cmd/worker`) | rows of `reliable_messages` | `EnqueueTx`, `PublishBatch` = recover, query, claim, publish, mark or retry | several workers, leases, late writers, crash after claim | nothing marked published that the bus did not take; nothing given up early; every row settles |
| Message consumer (`messageworker`, `messaging`) | `consumed_messages`, deliveries at the broker | receive, `Seen`, handler, `Mark`, commit, `Ack`, `Retry` | redelivery, lost ack, unknown commit, reused identity | effects at most once; nothing acknowledged unapplied; every delivery settles |
| Approvals (`domain/approval`, `app/approval`, `repository/approval.go`) | requests, tasks, executions | create, decide, transfer, withdraw, expire, claim execution | decisions racing withdrawal and expiry; replays | quorum of real people without the maker; final outcomes; executed once, as reviewed |
| Configuration changes (`configchange`) | `config_change_history` | create, approve, publish, request rollback, roll back, reject | unlocked read, unconditional update | segregation of duties; the documented life cycle |
| Governed exports (`security/datapolicy`, worker job) | `download_artifacts` rows, objects | publish, open (one-time), revoke, expire, cleanup | row and object share no transaction; overlapping jobs | bytes given out once; outcome kept; objects deleted |
| Scheduler and lock (`scheduler`, `lock`, `cache`) | one cache key per job | `SetNX`, run, `CompareAndDelete` | lease runs out, lost answers, dead owner | one execution at a time; the job keeps running |
| Idempotency keys (`idempotency`) | `idempotency_records` | `Begin`, `Complete`, `Forget`, `PurgeExpired` | multi-statement `Begin`, expiry | one live execution per key; only the same request is replayed |
| Release control (`releasecontrol`) | release record | create, approve, start, finish, roll back | read, decide, conditional write | quorum for release and for rollback; no stale write |
| Job control (`jobcontrol`) | job run record | apply actions, retry delay | concurrent control actions | life cycle, bounded attempts |
| Accounts (`app/identity/service.go`, `repository/identity.go`) | one row of `users`, its sessions, second factor, recovery codes, password history | login, federated login, enrolment, password change and reset, disable, unlock | what a request read before it got the row lock | lockout, session limit, old sessions ended, faithful history |
| Users, groups, roles, temporary grants (same files, `temporary_grants.go`) | `user_roles`, groups with members and roles, grants | create, assign, fill, enable, grant, revoke, disable | unlocked checks over several tables, one locked write | an administrator is left; only administrators make administrators; separation of duties |
| Departments, positions, assignments, data scopes (same files) | tree, positions, assignments, scopes of roles | create, update, assign, replace scope | overlapping moves, rows inserted past the locks | the tree stays a tree; list and check agree |
| Access reviews, emergency access | reviews with items; grants | create, decide; create, revoke, expire | overlapping decisions; clock, session and approval read at different times | decided once, completed exactly; bounded, never revived |
| Audit (`app/audit`, `auditarchive`) | hash chain per scope, heads, anchors, WORM objects | write, verify, archive, purge | concurrent writers and purges, archive failures | the chain verifies; nothing is purged unarchived; outcomes recorded |
| Transactional publisher (`messaging/transaction.go`) | half messages | publish, check back | crash between half message and local commit | visible only if committed |
| Quarantine and storage contracts (`storage`) | records, two object areas, contract file | submit, scan, promote, cleanup | read, work on objects, compare-and-swap | only cleared bytes are promoted; the record is true |
| Data policies (`security/datapolicy`, `masking`) | policies per field, deletion evidence | upsert, export, record deletion | policies change while an export runs | exports follow the policies they read |
| Job control (`jobcontrol`) | job run record and its trail | apply actions, retry delay | record made, result lost | bounded attempts, explained states |
| Request gateway (`authn`, `csrf`, `authz`, `httpserver/filters.go`) | sessions, tokens, roles, permissions | the way of a request to its handler | rows change between the reads | let in only by rows that existed |
| Administrative handlers (`adapters/kratosapi`) | approvals, effects, audit events | every writing handler | overlap, rollback, unknown commit | one effect per approval, audited |
| Federated login (`identitysource`, `federated_login.go`) | states in the cache, links | begin, callback, directory login, link | racing callbacks, lost answers | one login per state, founded on a link |
| Generated API (`api/gen`) | none | routes, binding, client | many paths and bodies written one by one | unambiguous, complete, client and server agree |
| Configuration, start (`config`, `remoteconfig`, `bootstrap`, `discovery`) | settings table, seed rows, registration | load, validate, seed, finalise, serve, close | replicas starting at once, failures at every stage | seeds complete, policy readable, edits kept |
| Resilience, rate limits (`resilience`, `ratelimit`) | in-memory and shared counters | execute, admit | concurrent callers at the threshold | opens for its own failures, bounds concurrency |

The parts without a protocol of their own (HTTP transport, TLS, cryptographic functions, clients of
external services, notifications, the web console, deployment files) are listed with their reasons
in `PROJECT.json`, together with every hazard at its line.

How the parts interact: every API handler that changes state runs in one database transaction
with its audit record (`audited` over `WithinTx`; a nested `WithTx` joins it), so what a handler
does in the database is atomic, and only what happens outside the database (objects, cache, bus)
or in two transactions is not. Approvals gate configuration changes, exports and most
administrative handlers through `AuthorizeExecution`. Business transactions enqueue reliable
messages; workers publish them; the consumer of another worker applies them. The scheduler runs the
export cleanup and the purge of the audit log. A request reaches its handler through the gateway,
whose tables (`Operations`) are also those of the generated routes and the start-up's seeds.

## Modules

| Module | Models | Extends |
|---|---|---|
| `Outbox` | abstract contract of the reliable-message table | |
| `ReliableMsg` | the table and its workers, one step per SQL statement; shown to implement `Outbox` | |
| `MessageWorker` | the consumer group and, as external actions, the broker | |
| `Approval` | requests, tasks and executions; every operation is one transaction under the row lock | |
| `ConfigChange` | `Apply`, the unlocked read and the update of one transition as two steps | |
| `GovernedConfig` | composition: the API handler that puts configuration changes behind `Approval` | `Approval` |
| `DataExport` | tickets, objects, handlers and the cleanup job | |
| `Scheduler` | `RunDistributed`, the lock and the cache key | |
| `Idempotency` | `Begin` statement by statement, `Complete`, `Forget`, `PurgeExpired` | |
| `ReleaseControl` | the `Controller`; its store is external | |
| `RoleAssignment` | who holds which role: every request that changes it, as an unlocked check and a write | |
| `Account` | login, lockout, second factor, sessions and passwords of one account | |
| `Audit` | audited requests, the hash chain, verification and the purge with its archive, statement by statement | |
| `Storage` | provider profiles, capability contracts, which governed writes they allow | |
| `Quarantine` | `Submit`, `Scan`, `Promote`, `Cleanup` with crashes and expiry | `Storage` |
| `Directory` | departments, positions, assignments and data scopes under overlapping transactions | |
| `AccessReview` | snapshot and decisions of a review | |
| `EmergencyAccess` | break-glass grants | |
| `JobControl` | `Apply`, `ApplyWithAudit`, the doubling delay | |
| `TransactionalPublisher` | half message, local transaction, check-back | |
| `Operations` | the tables of operations, rules, permissions and exemptions | |
| `AdminHandlers` | every writing handler: approval, effect, audit event | `Operations` |
| `Routes` | routes, binding of path, query and body, the generated client | `Operations` |
| `Gateway` | filters, authentication, CSRF, authorisation while rows change | `Operations` |
| `Settings` | configuration layers, `Validate`, the security policy with its integer widths | |
| `Startup` | replicas that seed, finalise, register, serve and close | `Settings` |
| `FederatedLogin` | states, callbacks, directory logins, links | |
| `DataPolicy` | policies, exports, masking, deletion evidence | |
| `Resilience` | breaker, bulkhead, rate limiter | |
| `ApprovalProofs`, `DataExportProofs`, `AccountProofs`, `RoleAssignmentProofs`, `AuditProofs` | proofs about the module each is named after | that module |
| `WorkerProofs` | proofs about what the worker process runs | `ReliableMsg`, `MessageWorker`, `Scheduler` |
| `RecordProofs` | proofs about records that calls read, decide on and write back | `ConfigChange`, `ReleaseControl`, `Idempotency`, `Quarantine` |
| `PlatformProofs` | proofs about the modules from `Directory` to `Resilience` in this table | those modules |

`MC*` modules give TLC the symmetry sets and the small functions a `.cfg` cannot write; the other
runs use their module as it is.
Operators named after a definition with a suffix, under a comment that starts with "Mutant:", are
plausible wrong versions of it; each property is violated by at least one of them.

Conventions. Database columns are functions from keys to values; `pc` (or `dpc`, `ppc`, `flPc`,
...) is the next statement of a process; time is a countdown (`wait`, `ttl`, `lease`) where durations matter
and a Boolean (`due`) where only "before or after the deadline" does. A failed statement, a lost
answer and a crash are actions of their own, counted by `faults` and bounded by `MaxFaults` where
the state space demands it. A history variable (marked in its comment) records what happened for
the properties and is never read by a guard. The variables of the modules that `PlatformProofs`
extends together carry a prefix (`gw`, `st`, `fl`, `dp`, `rs`, `hd`), so that one module can speak of all;
for the same reason `MessageWorker` and `Scheduler`, and `ReleaseControl`, `Idempotency` and
`Quarantine`, name their specification and type invariant after the part they model (`ConsumerSpec`,
`JobTypeOK`, `RcSpec`, `IdemSpec`, `QSpec`).
In `Account` the sessions are a set of rows, ordered by their `created_at`, which is the value of `clock`
when `CreateSession` was called: the clocks of the servers are taken to agree on that order.

## Runs

| Run | Instance | Shows |
|---|---|---|
| `ReliableMsg` | 2 workers, 2 messages, 2 attempts, 1 fault | with workers inside their lease: exclusive claims, nothing marked published that was not accepted, nothing given up early, final outcomes, refinement of `Outbox`, every message settles |
| `MessageWorker` | 2 runners; an event, its repetition, a conflicting and a malformed copy | exactly-once effects, no unapplied acknowledgement, every delivery settles |
| `Approval` | 4 users (one disabled), 2 requests, 2 tasks, 2 payloads | quorum, finality, single and faithful execution, no hanging request |
| `ConfigChange_race` (violation) | 1 change, 3 users, 2 calls | the stored state takes steps the life cycle forbids |
| `GovernedConfig` (violation) | 2 users, 2 requests | no transition can be authorised through the API |
| `DataExport` | 2 tickets, one of which can never be deleted, 2 callers, the job, 2 faults | one download, kept outcome, no reopening; whatever no crash has abandoned is deleted and completed |
| `Scheduler` | 3 instances, executions of any length, 2 faults | executions overlap only past a lease; only owners release; the job keeps running |
| `RoleAssignment` | 2 users, 1 group, 1 temporary grant, 2 separated roles, 2 overlapping requests | the last administrator, who makes administrators, separation of duties |
| `Account` | 4 requests, 3 passwords, 1 recovery code, 2 failures lock, 2 sessions, history of 1 | session limit, old sessions ended, faithful history |
| `Account_lock` (violation) | 3 requests, 2 failures lock | a late failure takes the lock away |
| `Audit` | 1 scope, 2 requests (each may leave two events), 2 purging workers with an archive and 1 without, clocks a tick apart and finer than the column, 1 fault | nothing lost, an undisturbed chain verifies exactly when its times are whole microseconds, damage detected and never made evidence, outcomes recorded |
| `Audit_precision` (violation) | the same without the third worker | an undamaged chain does not verify |

Every other module has no run: its behaviour is proved for every value of its constants, which says
more than an instance would. Their theorems state assumptions on the constants as hypotheses
(`...Assumption`), which small instances satisfy.

The modules of identity assume READ COMMITTED, the default of PostgreSQL: a statement that
follows a row lock sees what others committed before the lock was obtained. With the MySQL driver
and InnoDB's default REPEATABLE READ only locking reads do, and `SessionsBounded`, whose count is
not a locking read, is not claimed there. `Account_lock` does not depend on it. `Directory` has both
kinds of locking reads (`Phantoms`).

Bounds. Two processes are enough for every race over one row, because each guard relates a
process to the row and not to a third process; three are used where a third can profit from what
two have left behind (a lock, a stale copy). Two messages make the order of a batch matter. Two
attempts distinguish a first from a last retry. One or two faults
let a second failure hit the recovery from the first. In `RoleAssignment` two users let one lose a
role while the other acts, and the third of the separated roles is treated like the second; in
`Account` a history of one row and a limit of two sessions are exceeded within four requests.
`Lease = 3` leaves room for a tick while a worker is at work, one while it is late and one after it.
In `Audit` chains are per scope and do not meet, so one scope is enough; four events give two
overlapping batches, and `MaxTime = 3` with a retention of 1 lets some of them expire and others not;
two fractions of a microsecond (none and some) mix rows that the column can hold with rows that it cannot.
`DataExport` has two tickets and pages of two (`BatchLimit`), so the cut of `LIMIT` does not happen in
the run; its theorems hold for every limit.

The run `ReliableMsg` keeps workers inside their leases (`AllowOverrun = FALSE`), because exclusive
claims, finality and the refinement hold only then. The theorems `TypeCorrect`, `AtLeastOnce` and
`FullBudget` hold for workers that overrun as well.

No liveness is claimed of `Audit`: the worker as wired cannot purge (see below), so nothing in the code
guarantees that an expired event is archived in the end.

The system may stop (deadlock checking is off) where everything that can be asked for has been
done: approvals decided and expired, all copies settled, all calls returned.

### Fairness

- `ReliableMsg`: every worker takes its next step (its ticker fires each second and the calls it
  makes are bounded) and time passes. Whether a publish succeeds is left open.
- `MessageWorker`: `Run` keeps receiving, `process` returns, the broker shows a hidden copy again
  after its invisible duration. Handlers, commits and acks may fail every time.
- `DataExport`: a call or job that has begun goes on, the job is started each minute, deadlines
  pass. Nobody has to publish, download or revoke. A deletion fails finitely often, except of the
  tickets in `Broken`.
- `Scheduler`: every ticker fires, every execution returns, time passes.
- `GovernedConfig`: a request is filed for each identity, reviewers approve, and a transition the
  API would authorise is called: the most favourable course.

## What the checks found

1. *Lost updates of configuration changes* (`ConfigChange_race`): `Update` has no condition on the
   state that was read. Two transitions that overlap both commit and the later one overwrites the
   earlier. Segregation of duties survives (proved), the life cycle does not.
2. *Approvals that have to name themselves* (`GovernedConfig`): the handler's payload contains the
   approval id, the digest it must equal was computed before that id existed.
3. *A lock that a late failure removes* (`Account_lock`): `RecordLoginFailure` stores
   `locked_until` on every failure, NULL unless it is the one that reaches the limit. An attempt
   that had read the account before the lock and is recorded after it unlocks the account.
4. *A hash finer than its column* (`Audit_precision`): the hash of an event covers nanoseconds of
   its time, the column keeps microseconds; a chain that nobody touched does not verify when a clock
   gives finer times.

Where a property holds only with an exception, the exception is in its text, and it is real:
conflicting duties, or a `system_admin` role given back by somebody who could not give it, come
about through a request that another one overtook (`StaleStep`); a session of the old password is
opened by a login that overlaps the change (`excused`); the history loses a password when two
changes by the user overlap (`overtaken` of `Account`); a crash between the commit of a revocation or an
expiry and the deletion leaves an object that no job lists (`abandoned`); a start that is cut
between `CreateUser` and `GrantRole` leaves an administrator without the role (`AdminGetsRole`).

Consequences that were read off the code while modelling it, each visible in its module:

- Exports: the local object store reports a missing object as an error, so a cleanup that is retried
  after its deletion succeeded cannot complete there (`DataExport` models the S3 store).
- Scheduler: nothing ends an execution when its lease does; `AtMostOne` speaks of executions
  within their lease only.
- Quarantine: two `Promote` calls may both write the target before one loses the swap; a late `Scan`
  or `Promote` turns a settled record into `Expired`; a crash leaves `Scanning` until expiry, or
  `Clean` with the object gone; a `Create` that took effect and reported an error leaves a record without
  an object; objects of rejected, failed and expired records are not deleted.
- Directory: a `DISABLED` department cannot be created while an active root exists
  (`service.go:1174`); a `CUSTOM` scope hides the descendants that `DEPARTMENT_TREE` would show
  (`identity.go:975`); with PostgreSQL a child inserted during the wait escapes the lock; positions
  and future assignments are not looked at by every disabling.
- Access reviews: the snapshot inserts items while its cursor is open on the same transaction, which
  only some drivers allow (`CursorsOverlap`); a decision to revoke revokes nothing by itself; a review
  without items stays open. `RequireRecentMFA` looks at the session as the gateway read it, which need
  not be true when the decision is written; it restricts who may call and the model lets every caller
  in (the gate itself is in `Gateway`).
- Emergency access: no authorisation consults a grant; the record is evidence only.
- Transactional publisher: a local transaction that commits and reports an error has its event
  dropped (`ErrorIsFinal`).
- Handlers and API: the approval service writes no audit event for a failed operation; the generated
  Go client does not send `approval_id` of `UpdateSecurityPolicy`, the one exception in
  `ClientIsUnderstood`.
- Settings and start: outside production a validated configuration can give a policy that does not
  resolve and is stored; production accepts sessions of less than a second; `finalizeBootstrapDefaults`
  reads and then writes, and may overwrite an administrator's first change of the policy; a restart
  grants removed seed permissions again; the endpoints of a replica that died stay registered until
  its heartbeats are missed; a worker without messaging runs neither purge.
- Audit: two purges that overlap on one batch move the anchor of the chain back, and clocks that
  disagree may expire an event before its predecessor; after either the chain no longer verifies and
  no later purge succeeds (`overtaken`, `ClocksInOrder`). The worker builds its `Writer` without an
  archive (`cmd/worker/main.go:107`), so that `PurgeExpired` always refuses there (`audit.go:197`; it
  fails closed): in the model a worker outside `Archiving`, which never starts a purge. With an
  archive, a scope that holds one row with a finer time never passes the verification before the purge.
- Gateway: the row of a credential and the policy of its organisation are read in separate queries.
  A policy that is relaxed in between lets a request through although its password was due at every
  moment (an administrator who resets the password in the meantime included).
  `OnlyWithCurrentPassword` states what remains: the row that was read demanded no change and its
  password was within the limit of a policy in force then or later; when the policy did not change on
  the way, the password was not due.
- Role assignment: `UserByID` drops the error of its query for roles (`repository/identity.go:150`), so a
  check may see a user without roles (`RolesRead`). The properties hold nevertheless,
  because `NoNewConflict` speaks of permanent roles; a temporary grant may then conflict. A dropped error for the actor (`:311`) only refuses more.
- Resilience: a half-open breaker lets every caller through, and a late success closes an open one.
- Data policies: values of exactly seven (mobile) or eight (identity card, bank card) characters are
  shown whole (`ShownWhole`).

## Proofs

`tlapm` checks every proof; the constants are arbitrary within named assumptions: ASSUMEd where a run
evaluates them, hypotheses of the theorems elsewhere. Every safety invariant and every action property
that a passing run checks is also a theorem. Each proof has the same shape: an inductive invariant that contains
the property, one lemma for each action or group of actions, and a last step that puts them together.

### `WorkerProofs`: publisher, consumer, scheduler

`ReliableMsg`. `IInv == TypeOK /\ MemoryInv /\ AcceptedInv /\ BudgetInv /\ LeaseInv`.

- `MemoryInv` ties what a worker holds in memory to its program counter: a worker at a claimed
  step has an item.
- `AcceptedInv` strengthens `PublishedWasAccepted` by the workers about to mark a row.
- `BudgetInv` is what makes `DeadAfterBudget` inductive: every copy of `attempts`, in a row, in a
  batch or in hand, is at most the number of publishes that really failed. A stale copy can only
  be too small, so a message may be tried too often but is never given up too early.
- `LeaseInv`, under `~AllowOverrun`, relates the lease a worker thinks it has to the row's
  `wait`: a claim that is held cannot be recovered. Exclusive claims, final outcomes and the
  refinement rest on it.

From it follow `TypeCorrect`, `AtLeastOnce`, `FullBudget`, `MutualExclusion`, `NoReopening` and
`Refinement` (the table implements `Outbox`).

`MessageWorker`. `ConsumerInv` adds to the types what a runner in a transaction may rely on. `KeyInv`
is the reason why effects happen once: a runner between `Mark` and its commit holds the primary key of its
event, alone, and the event is not yet consumed. `OnceInv` ties the number of effects to the row of
`consumed_messages`, and `AppliedInv` says of a runner about to acknowledge that the row carries the
hash of its own delivery. `EffectsOnce` and `AckAfterCommit` follow, for every number of runners and
copies and whatever the broker repeats.

`Scheduler`. `JobInv` says that what an instance has left of its lease is what the key has left
(`LeaseIsKey`) and that no two instances work under one token (`TokensDiffer`), for which `NewTokenExists`
shows by counting that a token nobody uses always exists. `OneExecution` and `LockIsOwners` follow.

### `ApprovalProofs`

The code counts tasks, the promise is about people. `ApprovalInv` therefore says that no two tasks of a
request belong to one user and none to its maker (`PeopleInv`; `Create` establishes it and `Transfer`
keeps it), so that as many approvals are as many approvers; and that the status agrees with the tasks
(`TallyInv`). `Decide` counts all tasks again, so that the step is a lemma about `ResolveStatus`
(`ResolveIsTally`) and not about single decisions. Results: `QuorumOfPeople`, `ExecutionMatches`, `NeverHangs`,
`OutcomesAreFinal`.

### `DataExportProofs`

`ExportInv` has four ideas. A call between the claim and the commit of a download holds the lock of a
row that is still `Ready`, and it is the only one (`LockInv`): hence `DownloadedOnce`. One call alone
creates the row of a ticket (`CreateInv`). The queue of the cleanup holds exactly the `CleanupPending`
rows, each once (`QueueInv`), which rests on lemmas about `Append` and `RemoveAt`. And the two timestamps
say at any time why a ticket was closed (`OutcomeInv`), which is what `CompleteCleanup` reads: hence
`ReasonSurvivesCleanup` and `NoTicketReopens`.

### `AccountProofs`

`AccountInv == TypeOK /\ RowsInv /\ SessionsBounded /\ OldPasswordsLoggedOut /\ HistoryFaithful`.
The limit is enforced on a listing, so the proof has to know that creation times order the sessions
(`RowsInv`), those of federated logins that have not committed included. Then, of the sessions that
stay, the oldest has all others as newer ones, and these are fewer than the limit (`LimitHolds`). Only a
password login evicts under the row lock, and a federated login adds no password session; the rest of the
operations only end sessions (`QuietStep`). Results: `LimitOnSessions`, `ChangeLogsOut`, `HistoryIsTrue`.

### `RoleAssignmentProofs`

`IInv == TypeOK /\ AdminKept /\ GroupInv /\ PendingInv`. `PendingInv` is
the heart of it: a decision that no commit has overtaken is still right for the tables
(`SoundDecision`). It is needed because the write looks at nothing again, and it survives because
every commit makes all other pending decisions stale, while the operations that do not (disabling
a user, creating a group, time) leave permanent roles alone; for a new group that needs `GroupInv`.
`AdminKept` is inductive by itself: `LeavesAdmin` leaves a second member of a finite set. The
results are `LastAdministrator`, `GrantCeiling` and `SeparationOfDuties`.

### `AuditProofs`

Four invariants. `RecordInv` is about events: an id is written once, whatever the
table, a purge or damage from outside holds goes back to a written event, and a batch is in the store
before its rows are deleted; `NothingIsLost` and `OutcomeIsRecorded` follow. `ChainInv` is about the
chain when nothing was damaged, no purge was overtaken and clocks did not run backwards, whatever
their precision: what is retained is exactly what follows the anchor, each row hashes to what was
written if its time was a whole microsecond, and what a purge is about to delete is a closed beginning
of it; hence `ChainAlwaysVerifies`, which says that a chain verifies if and only if no retained row has
a finer time.
`DamageInv` is about damage and needs none of these conditions: a changed row keeps the hash of the
content that was written, a removed one leaves a number that no other event has, and neither comes back. Since rows
that verify have no gaps (`NoGaps`), `DamageIsDetected` follows. `EvidenceInv` follows a changed row:
it is still in the table, or the original has a receipt, and what a purge has already verified is
genuine. The purge reads its batch before it verifies, so this has to be known of the rows in between;
`ArchiveIsGenuine` follows.

### `RecordProofs`: changes, releases, keys, quarantine

`ConfigChange`. An update writes whatever its call decided earlier over whatever the row has
become. The invariant therefore says of each pending decision that it is sound by itself
(`SoundDecision`): it names an approver other than the creator, and the creator never changes. It
yields `TypeCorrect`, `SegregationOfDuties` and `Operators` for any number of overlapping calls.

`ReleaseControl`. As with configuration changes a call may write a record it has read long
ago. `CallInv` says of the record a call is about to write that its approvers are among those
who approved (or this call's actor) and that there are enough if its state says so; and, once the
call has read an admitted state, that it keeps the approvers. `AdmissionQuorum`, `RollbackQuorum`
and `OutcomeFinal` follow.

`Idempotency`. The invariant describes, for each call, what the record it has read tells it:
a call that is about to delete an expired record names that record and no later one, because
records are told apart by what the DELETE compares. `ReservationsKept`, `SingleExecution` and
`FaithfulReplay` follow, each under `IdempotencyAssumption`.

`Quarantine`. `QInv` says what a call in flight may rely on: one that promotes was told of clean
evidence, one that writes `Promoted` has stored a version and deleted the object, only the call that
took the record out of `Quarantined` scans. `GovernedNeedsEvidence` and `UncertifiedStoreGetsNothing`
tie it to the capability contracts.

### `PlatformProofs`

One part per module, each with an inductive invariant of its own:

| Part | Invariant and why it is needed | Theorems |
|---|---|---|
| `Directory` | `DirInv`: rows a transaction has locked are its own, so what it checked still holds when it writes; with phantoms two transactions may hold disjoint rows, and a walk from the new parent that ends inside the locked rows is what excludes a common cycle | `DirectoryStaysATree`, `ListAndCheckAgree` |
| `AccessReview` | `RevInv`: the lock holder has seen the latest items | `ReviewsCompleteExactly`, `ReviewDecisionsAreFinal` |
| `EmergencyAccess` | `EmInv`: times in a request are in the past of the clock, approvals are spent by one | `EmergencyIsBounded`, `EndedGrantsStayEnded` |
| `JobControl` | `JobInv`: attempts used determine the states that can follow | `JobsAreBoundedAndExplained`, `JobNeverRunsAgain`, `DelayStaysInBounds` |
| `TransactionalPublisher` | `TpInv`: program counter, local transaction and half message | `VisibleEventsAreCommitted`, `CommittedEventsAreKept` |
| `Operations`, `Routes` | constant-level: the finite tables are compared by case analysis | `PoliciesAreComplete`, `TablesAgree`, `OperationsAreRouted`, `RoutesDoNotMeet`, `ClientAndServerAgree`, `PathDecides` |
| `AdminHandlers` | `HdInv`: a claimed approval belongs to one open transaction | `ApprovalsAreSpentOnce`, `ApprovalsAreNotExchangeable` |
| `Gateway` | `GwInv`: every value a request carries was true in some world it has seen (`gwSeen`), those of its row before the policy that is applied to them | `RequestsAreAuthorised`, `RequestsAreSteppedUp` |
| `Settings` | constant-level, with the wrap of 64-bit durations | `EnvironmentWins`, `ProductionPolicyIsValid` |
| `Startup` | `StInv`: seeds below a replica's place exist, resources match its place, stored numbers come from valid policies | `StartsDoNotCollide`, `StoredPolicyAlwaysResolves`, `EditsAreKept` |
| `FederatedLogin` | `FlInv`: one callback at most is past the consumption of a state | `FederatedLoginsAreFounded` |
| `DataPolicy` | `DpInv`: stored policies are valid, and a catalog is current or marked stale | `ExportsFollowPolicies`, `DeletionEvidenceIsSound` |
| `Resilience` | `RsInv`: each opening has its own failures, slots are those of running calls, counters are per window | `ProtectionsHold` |

### Only model-checked

The liveness properties, because fairness and ENABLED are outside the prover's reach: `EventuallySettled`,
`EveryCopySettles`, `ObjectsDeletedUnlessCrash`, `CleanupCompletes` and `JobKeepsRunning`. The four expected violations are counterexamples that TLC finds.

## Plan

Done: the messaging core, approvals, configuration changes and their gate, exports, scheduler,
idempotency, release control, accounts and role assignment; the directory, reviews, emergency access,
audit, quarantine, job control, transactional publisher, gateway, handlers, routes, configuration,
start-up, federated login, data policies and resilience; the proofs above, which cover every safety
property of the runs.

Next, in this order:

1. Composition of the outbox with the consumer (`ReliableMsg` into `MessageWorker`): from the
   business transaction to one effect, and its proof from the two invariants of `WorkerProofs`.
2. Abstract specifications, like `Outbox`, for the lock of the scheduler and for the download ticket,
   with the refinements proved from `JobInv` and `ExportInv`.
3. Permissions of roles and menus, which are seeds in `Startup` and intents in `AdminHandlers` only.

## Not modelled

Contents of messages, payloads and configuration values are model values; formatting, logging and
validation of text are not modelled. Tenancy is one organization in most modules: every statement
carries `organization_id`, and no operation relates two (`DataPolicy`, `FederatedLogin` and
`Audit` have several, as parameters). Database errors that roll a transaction back are
steps that change nothing; isolation is that of single statements and row locks, as the code uses
them. `RoleAssignment` leaves out the role `user`, which takes part in no rule, and permissions
of roles. `Account` has the policy values as constants and does not tell secrets of
the second factor apart. The broker, the release store, the identity providers, the malware scanner
and the callers of the idempotency store and of job control are external and modelled from how the
code uses them.

Cryptographic functions, key rings, licences and feature flags are pure functions whose properties are
those of the primitives; notifications, syslog, mail, search, streaming, TLS, metrics and health are
I/O; message types of the generated code are data; the settlement example uses the platform packages;
the web console and the deployment files are neither state nor protocol of the server.
