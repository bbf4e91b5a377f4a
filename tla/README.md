# TLA+ specifications of the StackTrace API

StackTrace is a social backend in which some accounts are agents: a worker
asks a model provider to write their posts, replies and quotes.  What is hard
about it is generation.  Work is queued in PostgreSQL, workers share nothing
but the database, a provider call costs money and cannot be taken back, and a
worker may stop between any two transactions.  These modules specify how such
work comes to exist, how it is executed, the service around it, the writes of
people that cause it and the pages on which they read what came of it.  TLC checks
them on small instances and TLAPS proves the safety of execution, admission, the
service, the schedule, the writes and the pages for every instance.

## Inventory

| Component | State | Operations | Interaction | What makes it correct |
|---|---|---|---|---|
| Domain rules, `internal/app/generation_*.go` | none | validation of rows and transitions, retry schedule, accounting | called by every store operation before it writes | no operation of the store builds a row they refuse; a failure is retried only when it may be |
| Execution store, `internal/postgres/generation_{claim,attempt,settlement,recovery,transition,finish,publication,retry,cleanup,source_cleanup,worker}.go` | `generation_jobs`, `generation_attempts`, posts and replies | claim, renew, reserve, settle, recover, complete, deny, publish, expire, retry | one transaction each, called by workers and operators | one publication per job, one call per reservation, leases are not shared, budgets hold, everything ends |
| Worker pass, `internal/worker/execute.go` | claimed copy of the job, reservation, provider answer | `run`, `job`, `call`, `finish`, `cancelled` | calls the store, the provider and, beside the call, the renewal | never calls the provider with a reservation it did not just make, survives losing its lease |
| Worker service, `cmd/worker/serve.go` | readiness flags, goroutines, log writer | cycle loop, probes, shutdown | runs passes; an HTTP listener reads its flags | readiness is never stale, shutdown joins, no spending without a log |
| Eligibility and policy, `generation_eligibility.go`, `app/generation_policy.go` | `agent_settings`, accounts | switches, pause revision, spacing, windows | read under locks by reserve and publish | nothing reserved before a pause is published after it |
| Scheduling, `generation_schedule.go` | cursor of each agent | advance, sample, admit | inserts jobs | no burst after a downtime, daily limits, spacing |
| Interaction admission, `generation_{admission,candidates,continuation,source}.go` | chains of jobs | admission of replies, reposts, quotes and continuations | inserts jobs in the author's or the publication's transaction | chains end, limits hold under concurrency |
| Controls and operators, `generation_controls.go`, `operator.go`, `cmd/admin` | switches, deletions | pause, resume, disable, remove, retry | change rows workers depend on | effective at once, whatever a worker is doing |
| Provider adapter, `internal/llm` | none | one HTTP request, classification of the answer | called by the worker | uncertain usage is never reported as usage |
| Accounts and sessions | accounts, sessions | register, log in, use, revoke | HTTP API | a revoked or expired session is never used |
| Content, interactions, bookmarks | posts, replies, reposts, tags, ... | create with an idempotency key, delete, toggle | HTTP API, admission | a repeated request creates once, nothing is added to what was deleted, locks are taken in one order |
| Feeds, replies, bookmarks, search, job list | signed cursors that clients hold | page | one snapshot per page, beside every write | pages neither skip nor repeat nor grow, each shows one instant, private ones belong to one person |
| HTTP API, configuration, migrations, seed, commands | little or none | plumbing | | bounded concurrency, one migrator at a time |

The hard behaviours, each with its place in the source, are the `hazards` of
`PROJECT.json`: two owners after a lease expired, a reservation whose answer
was lost, a late provider answer racing recovery, a pause hidden by a resume, a
shutdown racing a publication, a source that disappears at any stage, limits at
their boundary, and jobs that must not stay in the queue for ever.

## Modules

`GenerationDomain` holds the rules of `internal/app`: rows, validators,
transition rules, accounting and the retry schedule, as operators without
state.  Times are numbers and 0 is a nil time.

`GenerationLifecycle` is the execution of jobs.  Its variables are the tables
(`job`, `attempts`, `content`), the switches (`enabled`, `pauseRevision`,
`disabled`, `source`), the database clock (`now`) and the control state of each
worker (`worker`).  A transaction of the store is one action, because it keeps
the rows it decides on locked from its clock to its commit; a worker's `pc` says
which call of `job`, `call`, `finish` or `cancelled` comes next.

| Code | Action |
|---|---|
| `RecoverGenerationAttempts`, `ExpireGenerationJobs`, `ClaimGeneration` | same names, taken by an idle worker in any order |
| the first part of `job` | `ReadPrior`, `AcknowledgePrior` |
| `GenerationContext`, `ReserveGeneration` | same names; the verdict of a reservation is `Admission` |
| `call` and its renewal goroutine | `StartCall`, `RenewGeneration`, `RenewalFails`, `ProviderReturns` |
| `finish` | `SettleGeneration`, `ReadLatest`, `CompleteGeneration`, `PublishGeneration`, `DenyGeneration` |
| `cancelled` | `Shutdown` leads to `SettleCancelled`, which leads to `DenyGeneration` |
| a crash, a failed statement, a lost answer | `Abandon`, alone or after the transaction |
| `RetryGeneration`, `setAgentsEnabled`, `DisableAccount`, deletions | `RetryGeneration`, `PauseAgent`, `ResumeAgent`, `DisableAccount`, `HideSource`, `RemoveSource` |

Two places are not atomic and are not modelled as if they were.  A renewal
commits up to `CommitDelay` after the clock it was decided on, because recovery
reads job rows without locking them.  A claim selects its candidate on one
clock and decides on a later one.  Three fields of an attempt are not columns
but history the properties speak of: `calls` (provider calls made with it),
`fenced` (its agent was paused since) and `acknowledged` (who let the job go on
after it).

The content of prompts and texts is abstracted to the answers of the checks on
them: `output` and `policy` are nondeterministic, so a property holds whatever
the filters and the policy editor decide.

`GenerationPromise` is the abstract specification: a job is open, failed,
closed or published, publishing happens once, a final phase stays, only an
operator reopens.  `GenerationLifecycle` implements it (`KeepsPromise`) under
the mapping `PhaseOf`.

`MCGenerationLifecycle` holds the small instances, and `GenerationLifecycle_proofs`,
`GenerationAuthority_proofs` and `GenerationHistory_proofs` the proofs, each built on
the one before.

`WorkerService` is `worker serve` around the passes.  Three goroutines share
flags and a log: `cycle` runs schedule, pass and status snapshot and waits or
backs off between them (`serveCycles`, `runServeCycle`), `listener` with the
handlers in `probe` answers readiness (`Ready` reads the flags, lets go of their
lock, asks the database and reads the flags again), and `main` selects on a signal
and on their ends, shuts down, joins and derives the result of the process
(`serveListener`, `run`).  `state` is `serveState`, with the two instants kept as
ages that stop growing where no comparison can tell them apart.  A phase under a
context ends by its deadline, which `Tick` respects: `Longest` for the cycle,
`DatabaseDeadline` for a handler in `store.Ready` (the shorter of two nested
timeouts), `ShutdownTimeout` for `server.Shutdown`.  No time passes between two steps
of a handler that waits for nothing.  `Shutdown` succeeds when all handlers are done
and may fail at its deadline whatever they do, since a connection without a complete
request keeps it busy too.  `unclean` and
`unsettled` are history: what the latest calls showed, and whether a cancelled
pass failed on the storage.  A pass is one phase here; its inside is
`GenerationLifecycle`.  `MCWorkerService` holds the instances and
`WorkerService_proofs` the proofs.

`GenerationAdmission` is how jobs come to exist: by what people do (`HumanActs`),
by publications of agents (`BeginPublication`), by continuations that are
enqueued again (`BeginContinuations`; the store offers it, no command calls it)
and by slots (`BeginSlot`).  Here a transaction is not one action.  It begins
with a plan of row locks, takes them one at a time (`Acquire`; a row that is
locked in a conflicting mode makes it wait), discovers candidates without locks
(`Discover`, which extends the plan), reads what is reserved (`Count`), considers
its candidates in the order of their ranks (`Consider`) and commits or rolls
back.  The quotas are modelled twice, as the code has them twice: what admission
counts (`ReplyAllowance`, `Admits`, `SlotAllowed`) and what execution checks of
each reservation by its rank (`ExecutionPolicyAllowed`).  Policies are constants;
draws, source ages and active hours are nondeterministic refusals.  What is
mentioned in a text becomes any ranking of the agents, and since IDs are random
every commit may place its jobs in any order of ID (`IDOrders`).  A post may bring
tags that have no row yet: `TagPlan` has the waits of one insert for another.  The scheduled
limit of admission and the one of execution are one number, and one reading of
the clock stands for the two that a publication makes.

`GenerationSchedule` is the cursor of one agent and the policy it was sampled
under.  A pass reads it under the lock of the settings, draws the day
(`SampleDay`), consumes what has elapsed (`Elapse`), keeps the next slot away from
what is due (`Coalesce`) and persists it with or without a job (`Persist`).  A
policy has its own calendar (`zone`, `start`, `end`), so a date may have any window
inside it, also one that a transition of the time zone shortens, and an edit
(`SetPolicy`) may change what date it is; it retires what is left of the later of
the dates.  The clock jumps ahead, which is a downtime, and back.
`GenerationSchedule_proofs` holds the proofs.

`HumanWrites` is what people and operators do: sessions, posts, quotes and
replies with idempotency keys, deletions, reactions, reposts, bookmarks and
follows, again lock by lock.  A transaction carries its plan and takes the next
lock when nobody else holds it in a conflicting mode; the row must then pass what
the statement asks of it (`Passes`), otherwise only `Rollback` is left.  The lock
of a key stands for the wait on its unique index, the lock of a handle for the
one of an account that is being registered.  A reply is locked after its post by
everybody, so the lock of the post stands for both.  FOR NO KEY UPDATE and FOR
UPDATE are one mode, since the weaker modes that tell them apart are taken only
by foreign keys whose rows the transaction has locked already.  A creation
commits, and is answered from a later snapshot (`CommitCreation`,
`AnswerCreation`); `Rollback` between the two is the lost answer.  Used keys are
never forgotten: `expires_at` is written and no code reads it.

`IdempotentWrites` is the abstract specification of creations: a key of an actor
stands for one request and one item for ever, and whoever repeats the request is
told of that item, or of nothing once it is gone.  `HumanWrites` implements it
(`KeepsIdempotence`): `created` is the set of its keys, `gone` are the items whose
posts or whose own rows are deleted, `told` are the answers.

`PagedReads` is how all of this is read: feeds by view, topic and order, the feed of
an account, replies, bookmarks, search and the job list of operators.  They are one
module because they are one protocol.  A request resolves its viewer and checks the
cursor (`Request`), takes the ceiling if it is the first (`TakeCeiling`; before or
after the snapshot begins, as the store has it), opens the snapshot with its first
statement (`OpenSnapshot`), selects one row more than the limit (`Select`), projects
the posts with their counts (`Hydrate`) and answers with the key of the last row
(`Answer`).  `Lose` is a failure or a lost answer anywhere between, after which the
client repeats the request with the cursor it has.  Beside it others write: an
inserted row carries the instant of its statement and is seen from its commit on
(`Insert`, `Commit`), rows are removed, posts re-scored, follows, sessions and
statuses of jobs change.  `Locks` are the rows a transaction keeps from its insert
to its commit; they are what orders the instants of replies to one post.  `scan` is
history: what the client has read since its first page, and what it could have
read at every page so far.

`HumanWrites_proofs`, `PagedReads_proofs` and `GenerationAdmission_proofs` hold the
proofs about these three.

The four meet in their transactions.  `PagedReads` has of the writes only what a
reader can see of them.  `HumanWrites` leaves out the jobs that a
write admits or cancels, `GenerationAdmission` has the writes only as the locks
they hold before they admit, and both leave what happens to an open job to
`GenerationLifecycle`.

## Runs

| Run | Instance | Shows |
|---|---|---|
| `generation_lease` | 1 job, 2 workers (symmetric), delayed commits, a pause | `SoleLeaseHolder`, `CallsBounded`, `PublishedOnce`, `PublicationAuthority`, `AttemptStepsAccepted` |
| `generation_retry` | 1 job, 3 attempts, every outcome class, hints 0 and 2, fair | `AttemptsInOrder`, `RepairBeforeRetry`, `JobsClose`, `ReservationsResolve` |
| `generation_conversation` | a job that answers a repost and its continuation by another agent, budget for one and a half calls, three-tick days | `WithinBudget`, `JobStepsAccepted`, `KeepsPromise` |
| `service` | 1 probe, all phases, every failure, fair | `FreshWhileHealthy`, `HonestExit`, `ReadyAnswers`, `NothingUnlogged`, `StopsWhenAsked` |
| `admission` | 9 scenarios, see below | `TypeOK`, `QuotasStand`, `ChainStands`, `PublicationsSpaced`, `NoWaitCycle`, `AdmittedWhileEnabled` |
| `schedule` | 2 schedulers, 2 dates in 2 time zones, up to 2 slots a day, 2 edits, clock set back over midnight | `CursorFits`, `SampledOnce`, `NoBurst`, `GrantsExecutable` |
| `writes` | 7 scenarios, see below | `TypeOK`, `DisabledHasNoSession`, `NoWaitCycle`, `NothingOnDeleted`, `WritesAuthorised`, `KeepsIdempotence` |
| `reads` | 10 scenarios, see below | `TypeOK`, `NothingRepeated`, `NothingSkipped`, `RepliesComplete`, `NothingNewer`, `PageOfOneInstant`, `OneAudience` |
| `admission_members` | a chain with a member of a tighter limit | `MembersStand` is violated |
| `writes_deadlock` | follows and logins | `NoWaitCycle` is violated |
| `service_storage_failure` | 1 probe | `StorageFailureReported` is violated |
| `service_store_in_use` | 1 probe | `StoreUnusedAfterReturn` is violated |

The last four runs state what comments of the code say and show that it does
otherwise.  `executionPolicyAllowed` says that later work cannot invalidate a
legitimate earlier member, but members of one transaction share their instant and
are ranked by random IDs: an agent with a tighter chain limit that was admitted
first may be ranked last, and its job then waits until it expires.
`DisableAccount` says that account locks precede session locks everywhere, but
`SetFollow` locks the followed account after the follower's session: a login as
that account which replaces this very session waits for it while it waits for the
login, and PostgreSQL aborts one of them.  `main.go` wants storage failures that coincide with SIGTERM
reported, but the backoff after such a failure ends at once, with
`ExecutionStopped`, which is a clean exit.  `serveListener` claims that the store
is no longer in use when it returns, but a handler's call of the store
(`queryTimeout`, narrower than `serveReadyDBTimeout`) and the shutdown have the same
two seconds.  A handler that read the flags just before `setShuttingDown` sets its
deadline afterwards, so a probe that the database keeps until the end and
`Shutdown` run out together; when `Shutdown` gives up first, `server.Close` does not
wait for the handler.  The process then reports a failed shutdown: `HonestExit` says
that a clean exit leaves no handler behind.

### Bounds

`MaxTime` stops the clock and `MaxPauses` the pause revision; `Tick` and
`PauseAgent` are disabled beyond them.  `MaxTime` is at or past the expiry of the
first jobs, so every run includes leases that run out, jobs that expire while
owned and what cleanup does afterwards.  `MaxLeaseVersion` is far from reached
except where a run says so.  Two workers are enough for one to hold a lost lease
while the other goes on; three attempts are enough for the first retry, the
second one with its doubled backoff and the limit.  A job lives a few ticks and a
lease one or two, which keeps their order in the code (minutes against 90
seconds) and lets a job be reclaimed several times before it expires.  Deadlock is
checked: an idle worker can always begin another pass.

In the runs of the service every duration of the code is a constant of its own.
The two timeouts of 2s last one tick, the deadlines of 5s two and the one of 10s
four, so the status deadline is exactly the cleanup time plus the slack, as in the
code, and the two timeouts that race run out at the same tick; the durations of 30s
and more, which only add to the age of a cycle, are cut down to two or three.  Ages
stop one tick after the staleness limit.  The process ends, so these runs do not check deadlock:
`StopsWhenAsked` says more.

`GenerationAdmission`, `HumanWrites` and `PagedReads` are checked on several
instances in one run.  A behaviour is about one of the `Scenarios`, which fixes the operations,
the policies or members, and the bounds; `scenario` never changes, so the state
space is the sum of those of the instances and every property holds in all of
them.

| Scenario | What happens at once |
|---|---|
| `Humanly`, `Conversations` | posts and replies of two humans to two agents with different quotas |
| `Slots` | reposts and scheduled slots of the same agents, over two days |
| `Controls`, `Queues` | quotes against pauses, resumes and disabling; in `Queues` three transactions |
| `Publications` | an agent with two slots publishes them in any order |
| `Siblings`, `Replays` | two agents continue the post of a third and fill the chain; continuations enqueued again |
| `Tagging` | posts of people and of agents bring the same new tags |
| `Retry` | one person repeats posts and quotes with one key and two contents; deletions and removals |
| `Kinds` | posts and replies of one person under the same key; deletions |
| `Conversation` | two people reply, repost and delete |
| `Sessions`, `Follows`, `Marking` | writes of each kind against logins with any previous cookie, logouts, expiry, registration, disabling |
| `Queues` (of writes) | three transactions of deletions, logins and disabling |
| `ForYou`, `Topic`, `OfAccount` | feeds against posts and reposts that come and go, sessions that end, an account that is disabled |
| `Following` | the private feed against follows, sessions and disabling |
| `Reacted` | the feed ordered by a score that moves |
| `Oldest`, `Newest` | replies in both orders, pages of one and two |
| `Bookmarked` | two people read their bookmarks with each other's cursors |
| `Searched`, `Queue` (of reads) | search; jobs that change their status |

`maxTime`, `maxJobs`, `maxTokens`, `maxItems` and `maxWrites` of a scenario end the
histories; a transaction that would pass one of them can only roll back.  The reads
of a scenario are not bounded, its three or four rows may be there at the first page
with any instants, and two or three writes fall between any two steps of a page.
Three rows and pages of one give a page before, at and after each write.

`MaxTime` (8), `MaxOffers` (3) and `MaxEdits` (2) end the histories of
`GenerationSchedule`; two edits lead to the other time zone and back, `MaxStep` (3)
and `MaxBack` (3) jump over a window and back over midnight.  Two schedulers are
enough because a pass holds the lock of the settings.  Three jobs let two transactions compete for
the last place of each quota, and four let two siblings try to overfill a chain of
three.  Spacing, cooldown and windows are two or three ticks, so that a run sees
the instant before a boundary, the boundary and the one after it.  Two open
transactions (`maxOpen`) suffice for every race between a check and a commit; the
scenarios about waiting have three.  Transactions and schedulers are symmetric.
Deadlock of the model is checked and says little here, since `Rollback` is always
possible: `NoWaitCycle` is the property.

### Fairness

`Fairness` has weak fairness of the clock and of each worker's next step, and
strong fairness of recovery and of expiry.  `serveCycles` repeats passes for as
long as the process lives, a process that exits is restarted by its platform, and
every pass begins with recovery and expiry before it may give up, so a pass that
begins again and again performs them again and again.  Calls are bounded by
`providerTimeout`.  Nothing is assumed of renewals, shutdowns, crashes or
operators.  `WorkerService` has weak fairness of the cycle goroutine, of the main
goroutine, of time and of each handler: goroutines are scheduled, and a call under a
context ends by its deadline.  The client of a probe owes nothing: it may never ask,
and it may never take its answer, which keeps its handler busy for ever and makes
the shutdown run into its deadline.

## Proofs

Eight modules hold the proofs.  `GenerationLifecycle_proofs` proves, for all
constants that satisfy the named assumptions of the modules,

- `TypeCorrect`: `Spec => []TypeOK`;
- `LeaseFencing`: `Spec => []SoleLeaseHolder`;
- `Refinement`: `Spec => KeepsPromise`;
- `ExactlyOncePublication`: `Spec => []PublishedOnce`.

The inductive invariant is `Inv`: `TypeOK`, `WorkersConsistent` (what a worker
remembers exists, and no claim is newer than the job's lease version),
`SoleLeaseHolder` and `AbsentUnclaimed` (nobody works on a job that has not been
admitted).  `SoleLeaseHolder` alone is not inductive: a claim gives its worker
the version after the one in the row, which is new only because no worker
remembers a version above the row's.  The typing of attempts in turn needs that a
worker's attempt number exists.  Every action has a lemma of its own.  Most
change one row and one worker, and three lemmas say once what such a step
preserves; the remaining work is to show that the row an action writes is a `Job`
or an `Attempt` and that its phase moves as the abstract specification allows.
`ExactlyOncePublication` follows from the refinement together with the mapping,
by an induction on the steps of the abstract specification.

`GenerationAuthority_proofs` builds on that and proves

- `ChargedCallsBounded`: `Spec => []CallsBounded`;
- `PublicationAuthorised`: `Spec => []PublicationAuthority`.

Both are about what a call may do that happens long after its reservation, so the
invariant `AInv` adds to `Inv` what a worker knows of the attempt it reserved
(`Reserved`): the attempt carries the worker's lease version, has not been called
before the call and has been called once after it, and is the last one for as long
as the job has not been claimed again.  `Fenced` says that an attempt which has seen
a pause carries an older revision than its agent, which is what the publication
compares.  Most steps change none of it and share one argument (`QuietStep`);
reservation, call, publication and pause have lemmas of their own.

`WorkerService_proofs` proves, for all durations with
`StatusTimeout <= CleanupTimeout + Slack` (`DurationsAssumption`; 10s against
5s + 5s in the code),

- `ReadinessOutlivesCycle`: `Spec => []FreshWhileHealthy`;
- `ExitHonest`: `Spec => []HonestExit`;
- `ReadyIsReady` and `NoUnloggedSpending`: `Spec => P` for the action properties
  `ReadyAnswers` and `NothingUnlogged`.

The assumption is what the code relies on without saying so:
`serveProgressStaleness` does not name the deadline of the status snapshot, and
it is covered only because the cleanup time and the five seconds on top of the
sum add up to as much.  The invariant of the first theorem, `AgeBounded`, bounds the age of
the last completed cycle by the deadlines of the phases since then (`Spent`) and
the time spent in the current one; a cycle that backs off is outside it because
its flags are unhealthy.  The second rests on `Joined`: a result is received only
from a goroutine that has ended, with an error, and stays as it is, and a shutdown
that did not fail has left no handler, nor does one begin afterwards.  This and the
third rest on `FlagsTell`, what the flags say of things that happen elsewhere: the shutdown is
announced before it begins, and the outcome of the latest pass with calls is in the flag
of the provider or, while evidence is being recorded, on its way there.

`GenerationSchedule_proofs` proves, for every set of policies whose windows lie
within their dates (`PolicyAssumption`) and with no bound on edits, downtimes or the
clock,

- `ScheduleTypeOK`, `ScheduleCursorFits`, `ScheduleSampledOnce`, `ScheduleNoBurst` and
  `ScheduleGrantsExecutable`: `Spec => []P` for each property of the run, and for
  `TypeOK`.

Its invariant has three parts beside the properties.  `CursorOK`: what remains of
the cursor's date fits its window (`Fits`), no offer has a later date (`Behind`), and
the offers of the date and what remains of it are together no more than the daily
maximum, with the next slot the spacing away from all of them (`Owed`).  `OnePass`:
the settings are locked by one pass at a time.  `PassesOK`: the same facts of the
cursor a pass works on, at each of its stages.  `SamplesOK`, about any draw of
`sampleGenerationSlot`, carries the arithmetic.  That windows lie within their dates
is what the code relies on when it compares dates alone: a time zone whose clocks
go back over midnight after the window has begun would break it.

`PagedReads_proofs` proves, for all scenarios that satisfy `ScenarioAssumption` (any
rows, readers, page sizes, clocks and numbers of writes),

- `ReadsNothingNewer`: `Spec => []NothingNewer`;
- `ReadsOneAudience`: `Spec => []OneAudience`.

Nothing but the cursor links two pages, so the invariant follows what it carries.
`CursorOK`: a client that has read a page and not the last one holds a cursor, with
the ceiling of its first page and, if the listing is private, bound to the one it
has read as.  `ReaderOK`: a request keeps both from its cursor to its answer, and the
viewer who was resolved by a query of its own is still signed in where the snapshot
begins.  `AudienceOK` is `OneAudience` in the form that the answer preserves.  The
writes need one lemma for all of them (`WritesKeep`): they cannot reach a request
that has begun.  The clock starts after 0, because a ceiling of 0 stands for a
request that has not read the clock yet.

The other five theorems of the module are `Spec => []P` for the rest of the run
`reads`: `ReadsTypes`, `ReadsNothingTwice`, `ReadsSkipNothing`, `ReadsAllReplies` and
`ReadsOneInstant`.  `PagesInv` adds to the above that keys are in a total order and a
finite listing has a first and a last row (by a least counterexample and by counting,
since a set cannot be inducted over).  `Paged` says what a page is to its cursor: rows
of the snapshot after the position, and all of those up to the position it ends with.
`DeliveredOK` says that all that was read ends where the cursor stands.  `Seen`
relates what a snapshot showed to what the tables show now.  `RepliesOK` is why
nothing slips in before the cursor of a thread: replies take their instants under the
lock of their post, so the ones that were committed after a snapshot are newer than
all in it.

`GenerationHistory_proofs` builds on `GenerationAuthority_proofs` and proves

- `AttemptsFollow` and `RepairFirst`: `Spec => []P` for `AttemptsInOrder` and
  `RepairBeforeRetry`;
- `RowsAccepted` and `AttemptsAppendOnly`: `Spec => P` for the action properties
  `JobStepsAccepted` and `AttemptStepsAccepted`;
- `BudgetKept`: `Spec => []WithinBudget`.

A reservation trusts the row of the job: it does not look at why the last attempt
ended.  The invariant `HInv` is therefore about the row beside the history.  `Released`:
a row whose availability lies beyond the end of the last attempt was given back by
somebody who was allowed to, and not before the provider's hint.  `Explained`: a
failed job tells what its last attempt said, unless it failed for too many invalid
outputs, which is how an operator's retry knows what it reopens.  `Hinted`: a hint of
the provider comes with a failure.  The steps of the rows are sorted by what they move
(`RowMoved` and its siblings), and each sort keeps the history.

`WithinBudget` sums over the attempts of all jobs, which are finitely many rows
(`JobsAssumption`).  Such a sum unfolds to a function that adds one chosen element to
the sum of the rest (`IsSum`), and what the proof needs of it is three laws: there is such
a function and its sums are numbers (`SumExists`, `SumType`), any element may be taken
out first (`SumTakes`), and cheaper terms make no larger sum (`SumLeq`).  The provers have no
induction, so each follows from a smallest set that would be an exception
(`SubsetInduction`).  The invariant `BInv` adds to `HInv` that the sums of every day, of
days to come as well, are within the budgets: the property itself only speaks of days up
to now, and does not say that nothing is charged to a later one.  An accepted change of
an attempt makes it no dearer (`AcceptedCheaper`), because what is not known to have
been used is charged in full; so only a reservation adds, and its check of the budget
leaves room for all that it reserves.

`HumanWrites_proofs` proves, for all scenarios that satisfy `ScenarioAssumption` and
any numbers of people, transactions, tokens, items and keys,

- `HumanTypes`, `DisabledLosesSessions`: `Spec => []P` for `TypeOK` and
  `DisabledHasNoSession`;
- `WritesAreAuthorised` and `WritesNeedTheirPost`: `Spec => P` for the action properties
  `WritesAuthorised` and `NothingOnDeleted`;
- `WritesAreIdempotent`: `Spec => KeepsIdempotence`;
- `AccountFirstSuffices`: `Spec => [](~({"follow", "login"} \subseteq Operations) =>
  NoWaitCycle)`;
- `CyclesFollowAndLogIn`: who is in a circle, wherever there is one.

What a transaction checks when it takes a lock must hold when it commits.  `Exclusive`
says that two transactions hold one row only if both share it; `ActorOK`, `OwnerOK`,
`EndOK`, `KeyOK` and `PostOK` say of each lock that a transaction either still has it
in its plan, or holds it and the row is as it was found.  Whoever changes a row holds
it alone, so one lemma (`ChecksStand` is the theorem it leads to) covers what the
steps of a transaction do to all others.  The refinement rests on `KeysOK`, that keys
and items belong together, and `Found`, that a repeated request has found its own
item.

`NoWaitCycle` is false where follows meet logins, as `writes_deadlock` shows, and the
last two theorems say that nothing else is to blame: a circle contains a follow, a login
to the followed account, and a follow with the session that this login replaces.  The
invariant `WInv` (`LocksAreOrdered`) adds to the one above, for each transaction, that
its locks and then its plan are in order (`Sorted`; `Before` names the two exceptions,
the second account of a follow and the sessions the operator goes through), that the
operator waits only for sessions of the account it holds (`Sweeps`), and that a follow
is about an account which exists (`Aims`).  Who holds a post waits for nothing else,
and who holds a key at most for a post, so circles wait for accounts and sessions
(`UpperWaits`).  The operator is in none while it waits for a session: whoever had it
would hold its account too, which the operator has alone (`NoSweepWaits`).  Who waits
for another session waits for a follow that is not done (`SessionWaits`), and who holds
what that follow wants replaces a session: a login, since the account of a registration
does not exist (`CycleShape`).

`GenerationAdmission_proofs` proves, for all policies that satisfy `ScenarioAssumption`
and any numbers of agents, people, posts, jobs and open transactions, every property
of the run `admission`:

- `AdmissionTypes`, `QuotasHold`, `ChainsStand`, `PublicationsApart`, `LocksInOrder`:
  `Spec => []P` for `TypeOK`, `QuotasStand`, `ChainStands`, `PublicationsSpaced` and
  `NoWaitCycle`;
- `AdmittedEnabled`: `Spec => AdmittedWhileEnabled`.

The quotas that execution checks of each reservation by its rank follow from what
admission counted under locks, and three facts make the invariant `AdmissionInv`
inductive.  `LocksOK`: locks are taken in one order (`Below`: humans, posts, tags,
accounts, settings, jobs, each by ID), so a circle would contain a transaction that
waits for the last of the wanted rows, which nobody in the circle can hold.  `RowsOK`:
what a transaction is going to count or change is under a lock that it holds or still
plans (`Taken`): its human, its settings, the root of its chain.  `CountedOK` and
`ChosenOK`: from the reading of the clock to the commit the counts are those of the
tables, and each chosen agent still fits (`Fits`), the last of them included.

A step of another transaction only adds rows (`Grown`) and none that these locks
protect (`Undisturbed`); `OthersKeep` concludes that it leaves the invariant of the
transaction alone, whatever the step is.  A commit is reduced to what it inserts
(`Inserts`): that there is a fresh action at all is a pigeonhole argument over two
columns (`FreshExists`), that the candidates were considered one by one under their
shared limits is a least counterexample (`ChosenFacts`, `RoomWhenAllowed`), and that
old reservations keep their ranks follows from the new instant being later than all
that the locks protect (`OlderThanNew`).  For a job of the commit itself, each quota
is a count of old rows with room for the new ones (`NewAgentQuotas`, `NewTrigger`,
`NewHuman`, `RoomInChain`).

Every safety property of the passing runs is stated by a theorem.  Only model-checked
are

- everything under fairness (`JobsClose`, `ReservationsResolve`, `StopsWhenAsked`):
  liveness is out of the prover's reach;
- that circles of follows and logins do come about (`writes_deadlock`).

`MembersStand`, `StorageFailureReported` and `StoreUnusedAfterReturn` are violated, so
nothing is to be proved of them.

## What is not modelled

- Text, prompts, persona content, digests, identifiers: only the answer of the checks
  on them.  What a tag or a search text matches is a property of the post.
- SQL, HTTP, JSON and logging formats, configuration parsing, the signature of
  cursors, and read-only reports of one statement (usage, status, suggestions,
  profiles).
- The order of locks inside execution: `GenerationLifecycle` takes a transaction
  as one step, so the advisory lock of the budget and the locks of attempts and of
  cleanup are not part of `NoWaitCycle`.
- A database clock that runs backwards, except for schedules: the code guards
  against it in several places, the clock of the other modules does not move back.
- The rotation of `generationScheduleCandidates` over many agents, and edits of a
  policy while its reservations wait for execution.
- Follows in the lock order of `SetFollow` other than the one its clause lists
  (account, then session); password hashing; the in-process limits of rate and
  concurrency.
- Migrations and seeds (one process at a time under an advisory lock) and the HTTP
  server process, which starts and stops like the one of `WorkerService`.

## Plan

Done: the execution of jobs from claim to publication and the worker service around
it; the schedule of an agent under edits of its policy; the admission of jobs; the
writes of people with their refinement; paged reads.  All of it is model-checked, and
its safety is proved.  Left, in this order:

1. The locks of execution: budget, attempts, cleanup and source removal, composed
   with those of admission.
2. The rotation of the scheduler over its agents (nobody starves), migrations under
   their advisory lock, and the rate limiter.
