------------------------ MODULE GenerationLifecycle ------------------------
(***************************************************************************)
(* Execution of generation jobs: workers claim a job under a lease, take a *)
(* durable reservation, call the model provider once, settle what they     *)
(* observed and then publish, retry or close the job.  Workers share       *)
(* nothing but PostgreSQL; a worker may die, lose its lease or lose the    *)
(* answer of a committed transaction between any two of its steps, while   *)
(* operators pause agents, disable accounts, remove sources and reopen     *)
(* failed jobs.                                                            *)
(*                                                                         *)
(* A transaction is one action: it holds the rows it decides on locked     *)
(* from the clock it samples to its commit.  The exception is              *)
(* RenewGeneration, whose commit may come later than its clock, because    *)
(* RecoverGenerationAttempts reads job rows without locking them.          *)
(*                                                                         *)
(* A transaction whose answer is lost is the transaction followed by       *)
(* Abandon; one that fails is Abandon alone.                               *)
(***************************************************************************)
EXTENDS GenerationDomain, FiniteSetsExt

CONSTANTS
    Jobs, Workers, Agents, Sources,
    NoJob, NoSource,
    AgentOf,        \* the agent a job writes for
    TriggerKind,    \* what triggered a job
    SourceOf,       \* the post, reply or repost a job answers, or NoSource
    ParentOf,       \* the job a continuation continues, or NoJob
    Lifetime,       \* time from admission to the immutable expiry of a job
    LeaseDuration,  \* generationLeaseDuration
    Outcomes,       \* what the provider may answer
    RetryHints,     \* delays a provider may ask for, 0 for none
    DayLength,      \* one budget day
    DailyTokenBudget,       \* generationDailyTokenBudget
    AgentTokenBudget,       \* policy.DailyTokenBudget of an agent
    CleanupBatch,   \* generationCleanupBatch, generationSourceCleanupBatch
    CommitDelay,    \* longest time from a renewal's clock to its commit
    MaxTime,        \* bound of the clock
    MaxPauses       \* bound of pause_revision

VARIABLES
    now,            \* clock_timestamp() of the database
    job,            \* generation_jobs
    attempts,       \* generation_attempts of each job, by attempt_number
    content,        \* number of posts and replies published for each job
    enabled,        \* agent_settings.enabled
    pauseRevision,  \* agent_settings.pause_revision
    disabled,       \* agents whose account is disabled
    source,         \* what became of each source
    worker          \* the control state of each worker process

vars == <<now, job, attempts, content, enabled, pauseRevision, disabled,
          source, worker>>
settings == <<enabled, pauseRevision, disabled, source>>

Outcome == [result : {"publish", "skip"} \cup GenerationFailure, tokens : Nat]

ASSUME SetsAssumption ==
    /\ NoJob \notin Jobs /\ NoSource \notin Sources
    /\ AgentOf \in [Jobs -> Agents]
    /\ TriggerKind \in [Jobs -> TriggerKinds]
    /\ SourceOf \in [Jobs -> Sources \cup {NoSource}]
    /\ ParentOf \in [Jobs -> Jobs \cup {NoJob}]

\* A table has finitely many rows.
ASSUME JobsAssumption == IsFiniteSet(Jobs)

ASSUME TimeAssumption ==
    /\ Lifetime \in Nat \ {0} /\ LeaseDuration \in Nat \ {0}
    /\ CommitDelay \in Nat /\ MaxTime \in Nat /\ MaxPauses \in Nat
    /\ RetryHints \subseteq Nat /\ DayLength \in Nat \ {0}

ASSUME ProviderAssumption ==
    /\ Outcomes \subseteq Outcome
    /\ CleanupBatch \in Nat \ {0}
    /\ DailyTokenBudget \in Nat /\ AgentTokenBudget \in [Agents -> Nat]

-----------------------------------------------------------------------------
(* Workers.  The control states follow run, job, call, finish and          *)
(* cancelled of internal/worker.                                           *)

PC == {"idle", "prior", "ackprior", "context", "reserve",
       "ready", "calling", "settle", "latest", "complete", "publish", "deny",
       "cancelled"}

\* Control states of r.finish: a cancelled context diverts to r.cancelled.
FinishPC == {"settle", "latest", "complete", "publish"}

NoOutcome == [result |-> "none", tokens |-> 0, notBefore |-> 0]

Observation == [result : {"none", "publish", "skip"} \cup GenerationFailure,
                tokens : Nat, notBefore : Nat]

WorkerState ==
    [pc          : PC,
     job         : Jobs \cup {NoJob},
     version     : Nat,      \* lease version of the claimed copy of the job
     availableAt : Nat,      \* availability in that copy
     attempt     : Nat,      \* reservation made for this claim, 0 for none
     durable     : Nat,      \* number of the latest attempt it has read
     outcome     : Observation,
     accepted    : BOOLEAN,  \* SettleGeneration accepted the outcome
     denial      : {""} \cup DOMAIN DenialStatus,
     acknowledge : BOOLEAN]  \* argument of r.cancelled

IdleWorker ==
    [pc |-> "idle", job |-> NoJob, version |-> 0, availableAt |-> 0,
     attempt |-> 0, durable |-> 0, outcome |-> NoOutcome, accepted |-> FALSE,
     denial |-> "", acknowledge |-> FALSE]

-----------------------------------------------------------------------------
SourceStates == {"visible", "hidden", "deleted", "unlinked"}

TypeOK ==
    /\ now \in Nat
    /\ job \in [Jobs -> Job]
    /\ attempts \in [Jobs -> Seq(Attempt)]
    /\ content \in [Jobs -> Nat]
    /\ enabled \in [Agents -> BOOLEAN]
    /\ pauseRevision \in [Agents -> Nat]
    /\ disabled \in SUBSET Agents
    /\ source \in [Sources -> SourceStates]
    /\ worker \in [Workers -> WorkerState]

-----------------------------------------------------------------------------
(* State formulae.                                                         *)

\* A scheduled job has no source; any other needs it visible.
SourceValid(j) == SourceOf[j] # NoSource => source[SourceOf[j]] = "visible"

\* The repost that triggered the job is gone: its foreign key is NULL.
Unlinked(j) ==
    /\ TriggerKind[j] = "repost"
    /\ SourceOf[j] # NoSource
    /\ source[SourceOf[j]] = "unlinked"

AgentAllowed(j) == enabled[AgentOf[j]] /\ AgentOf[j] \notin disabled

LastAttempt(j) == attempts[j][Len(attempts[j])]

Day(t) == t \div DayLength

AttemptsOf(J) == UNION {{j} \X DOMAIN attempts[j] : j \in J}

\* What the attempts that jobs J started on a day cost together.
TotalOn(cost(_), day, J) ==
    LET charge(p) == cost(attempts[p[1]][p[2]])
        ofDay == {p \in AttemptsOf(J) :
                     Day(attempts[p[1]][p[2]].startedAt) = day}
    IN  MapThenSumSet(charge, ofDay)

SpentOn(day, J) == TotalOn(AccountedTokens, day, J)

JobsOf(a) == {j \in Jobs : AgentOf[j] = a}

BudgetAllows(a) ==
    /\ SpentOn(Day(now), Jobs) + ReservedTokens <= DailyTokenBudget
    /\ SpentOn(Day(now), JobsOf(a)) + ReservedTokens <= AgentTokenBudget[a]

\* The next attempt of an observation: availability moved past its finish.
Acknowledged(availableAt, a) == a.finishedAt # 0 /\ availableAt > a.finishedAt

-----------------------------------------------------------------------------
(* Job rows written by the store.                                          *)

NewJob ==
    [status |-> "pending", createdAt |-> now, availableAt |-> now,
     expiresAt |-> now + Lifetime, leaseVersion |-> 0, leaseExpiresAt |-> 0,
     publishedAttempt |-> 0, reasonCode |-> ""]

AbsentJob ==
    [status |-> "absent", createdAt |-> 0, availableAt |-> 0, expiresAt |-> 0,
     leaseVersion |-> 0, leaseExpiresAt |-> 0, publishedAttempt |-> 0,
     reasonCode |-> ""]

closeJob(b, status, reason) ==
    [b EXCEPT !.status = status, !.reasonCode = reason, !.leaseExpiresAt = 0]

finishExecutionJob(b, status, reason, available) ==
    [closeJob(b, status, reason) EXCEPT
        !.availableAt = IF status = "retry_wait" THEN available ELSE @]

skipExpiredGenerationJob(b) == closeJob(b, "skipped", "stale_trigger")

cancelRemovedJob(b) == closeJob(b, "cancelled", "source_removed")

SetJob(j, b) == job' = [job EXCEPT ![j] = b]

-----------------------------------------------------------------------------
(* Worker steps.                                                           *)

Goto(w, pc) == worker' = [worker EXCEPT ![w].pc = pc]

\* r.job returned: the next probe, a later pass or a new process goes on.
Leave(w) == worker' = [worker EXCEPT ![w] = IdleWorker]

Deny(w, denial) ==
    worker' = [worker EXCEPT ![w].pc = "deny", ![w].denial = denial]

Interrupt(w, acknowledge) ==
    worker' = [worker EXCEPT ![w].pc = "cancelled",
                             ![w].acknowledge = acknowledge]

(* r.finish returned.  If the context was cancelled meanwhile, r.job       *)
(* settles a cancellation over whatever has been committed.                *)
LeaveFinish(w) == Leave(w) \/ Interrupt(w, TRUE)

\* A failure after which the worker may not call the provider again.
DurableStop(a) ==
    /\ a.status \in {"failed", "unknown"}
    /\ a.errorCode \in {"provider_credentials", "provider_configuration",
                        "unsupported_accounting"}

\* Clock readings a transaction that commits now may have been decided on.
Recent == {t \in 1 .. now : t + CommitDelay >= now}

-----------------------------------------------------------------------------
(* A pass recovers attempts, expires jobs, then probes for claims.  Passes *)
(* follow each other and may be given up after any step, so an idle worker *)
(* takes these steps in any order.                                         *)

\* Mutant: only the reservations of running jobs are looked at.
Recoverable_RunningOnly(j, n) ==
    /\ attempts[j][n].status = "reserved" /\ job[j].status = "running"
    /\ job[j].leaseExpiresAt <= now

Recoverable(j, n) ==
    LET a == attempts[j][n] IN
    /\ a.status = "reserved"
    /\ \/ job[j].status # "running"
       \/ job[j].leaseVersion # a.leaseVersion
       \/ job[j].leaseExpiresAt <= now
       \/ job[j].expiresAt <= now

LeaseLost(a) ==
    [a EXCEPT !.status = "unknown", !.errorCode = "lease_lost",
              !.finishedAt = now]

(* A batch of the rows that match; rows that others hold locked are        *)
(* skipped, the ones left over wait for a later pass.                      *)
IsBatch(B, S) ==
    /\ B \subseteq S /\ Cardinality(B) <= CleanupBatch
    /\ S # {} => B # {}

RecoverGenerationAttempts(w) ==
    /\ worker[w].pc = "idle"
    /\ LET due == {p \in AttemptsOf(Jobs) : Recoverable(p[1], p[2])} IN
       \E B \in SUBSET due :
          /\ IsBatch(B, due)
          /\ attempts' = [j \in Jobs |-> [n \in DOMAIN attempts[j] |->
                             IF <<j, n>> \in B THEN LeaseLost(attempts[j][n])
                                               ELSE attempts[j][n]]]
    /\ UNCHANGED <<now, job, content, settings, worker>>

\* Mutant: running jobs are left to their owners.
ExpiredJobs_Queued ==
    {j \in Jobs : /\ job[j].status \in {"pending", "retry_wait"}
                  /\ job[j].expiresAt <= now}

ExpiredJobs ==
    {j \in Jobs : job[j].status \in ActiveStatus /\ job[j].expiresAt <= now}

ExpireGenerationJobs(w) ==
    /\ worker[w].pc = "idle"
    /\ \E B \in SUBSET ExpiredJobs :
          /\ IsBatch(B, ExpiredJobs)
          /\ job' = [j \in Jobs |-> IF j \in B
                                    THEN skipExpiredGenerationJob(job[j])
                                    ELSE job[j]]
    /\ UNCHANGED <<now, attempts, content, settings, worker>>

Claimable(j, t) ==
    /\ job[j].expiresAt > t /\ job[j].availableAt <= t
    /\ \/ job[j].status \in {"pending", "retry_wait"}
       \/ job[j].status = "running" /\ job[j].leaseExpiresAt <= t

\* Mutant: a reclaim keeps the version of the lease that ran out.
Claimed_SameVersion(b) ==
    [b EXCEPT !.status = "running",
              !.leaseVersion = IF b.status = "running" THEN @ ELSE @ + 1,
              !.leaseExpiresAt = now + LeaseDuration, !.reasonCode = ""]

\* The claim: the next lease version fences every earlier owner off.
Claimed(b) ==
    [b EXCEPT !.status = "running", !.leaseVersion = @ + 1,
              !.leaseExpiresAt = now + LeaseDuration, !.reasonCode = ""]

(* One probe.  The candidate is selected at clock t and decided on at the  *)
(* current clock; it may be cleaned up instead of claimed.                 *)
ClaimGeneration(w) ==
    /\ worker[w].pc = "idle"
    /\ \E j \in Jobs, t \in Recent :
          /\ Claimable(j, t)
          /\ IF now >= job[j].expiresAt
             THEN SetJob(j, skipExpiredGenerationJob(job[j])) /\ Leave(w)
             ELSE IF Unlinked(j)
             THEN SetJob(j, cancelRemovedJob(job[j])) /\ Leave(w)
             ELSE /\ job[j].leaseVersion < MaxLeaseVersion
                  /\ SetJob(j, Claimed(job[j]))
                  /\ worker' = [worker EXCEPT ![w] = [IdleWorker EXCEPT
                         !.pc = "prior", !.job = j,
                         !.version = Claimed(job[j]).leaseVersion,
                         !.availableAt = job[j].availableAt]]
    /\ UNCHANGED <<now, attempts, content, settings>>

-----------------------------------------------------------------------------
(* A claimed job: what the latest attempt says comes first.                *)

\* Mutant: an open reservation found by a new owner is called again.
ReadPrior_CallsAgain(w) ==
    LET j == worker[w].job IN
    /\ worker[w].pc = "prior"
    /\ IF attempts[j] = <<>> THEN Goto(w, "context")
       ELSE IF LastAttempt(j).status = "reserved"
       THEN worker' = [worker EXCEPT ![w].pc = "ready",
                                     ![w].attempt = Len(attempts[j])]
       ELSE Leave(w)
    /\ UNCHANGED <<now, job, attempts, content, settings>>

ReadPrior(w) ==
    LET j == worker[w].job
        a == LastAttempt(j)
        resumed == /\ a.leaseVersion < worker[w].version
                   /\ Acknowledged(worker[w].availableAt, a)
    IN
    /\ worker[w].pc = "prior"
    /\ IF attempts[j] = <<>> THEN Goto(w, "context")
       ELSE IF a.status = "reserved" THEN Leave(w)
       ELSE IF ~resumed
       THEN worker' = [worker EXCEPT ![w].pc = "ackprior",
                                     ![w].durable = Len(attempts[j])]
       ELSE IF a.errorCode = "unsupported_accounting" THEN Leave(w)
       ELSE Goto(w, "context")
    /\ UNCHANGED <<now, job, attempts, content, settings>>

FailureStatus(failure) ==
    IF failure = "execution_cancelled" THEN "cancelled"
    ELSE IF failure \in {"unsafe_output", "repeated_output"} THEN "skipped"
    ELSE "failed"

(* CompleteGeneration(j, v, n, jitter): the status it returns, "" for a    *)
(* conflict, and the job row it leaves.                                    *)
Completion(j, v, n, jitter) ==
    LET b == job[j]
        h == attempts[j]
        a == LastAttempt(j)
        failure == IF a.errorCode = "lease_lost" THEN "provider_timeout"
                                                 ELSE a.errorCode
        next == RetryInstant(now, Len(h), a.notBefore, jitter)
        Keep(s) == [status |-> s, row |-> b]
        Close(s, r) == [status |-> s, row |-> finishExecutionJob(b, s, r, next)]
    IN
    IF \/ h = <<>> \/ Len(h) > MaxGenerationAttempts
       \/ b.leaseVersion # v \/ n # Len(h)
       \/ a.leaseVersion > v \/ a.status = "reserved"
    THEN Keep("")
    ELSE IF b.status # "running"
    THEN Keep(IF b.status = "pending" THEN "" ELSE b.status)
    ELSE IF now >= b.expiresAt
    THEN [status |-> "skipped", row |-> skipExpiredGenerationJob(b)]
    ELSE IF Unlinked(j)
    THEN [status |-> "cancelled", row |-> cancelRemovedJob(b)]
    ELSE IF ~ValidateLease(b, v, now) \/ now < a.finishedAt THEN Keep("")
    ELSE IF a.leaseVersion < v /\ Acknowledged(b.availableAt, a)
    THEN Keep("running")
    ELSE IF a.status = "succeeded"
    THEN IF a.decision = "skip" THEN Close("skipped", "skip_reason")
         ELSE IF a.leaseVersion = v THEN Keep("running")
         ELSE Close("failed", "outcome_unavailable")
    ELSE IF RetryGranted(failure, Len(h), InvalidOutputs(h)) /\ next < b.expiresAt
    THEN Close("retry_wait", a.errorCode)
    ELSE Close(FailureStatus(failure), a.errorCode)

(* Commit of a completion.  A retry it grants acknowledges the attempt.    *)
Complete(j, res) ==
    /\ SetJob(j, res.row)
    /\ attempts' = IF res.row.status = "retry_wait" /\ job[j].status = "running"
                   THEN [attempts EXCEPT
                            ![j][Len(attempts[j])].acknowledged = "worker"]
                   ELSE attempts

AcknowledgePrior(w) ==
    LET j == worker[w].job IN
    /\ worker[w].pc = "ackprior"
    /\ \E jitter \in 0 .. MaxRetryJitter :
          LET res == Completion(j, worker[w].version, worker[w].durable, jitter)
          IN  /\ Complete(j, res)
              /\ IF DurableStop(attempts[j][worker[w].durable]) THEN Leave(w)
                 ELSE IF res.status = "running"
                 THEN Deny(w, "outcome_unavailable")
                 ELSE Leave(w)
    /\ UNCHANGED <<now, content, settings>>

\* Builds the prompt from one snapshot; it may not fit its limits.
GenerationContext(w) ==
    LET j == worker[w].job IN
    /\ worker[w].pc = "context"
    /\ IF ~ValidateLease(job[j], worker[w].version, now) THEN Leave(w)
       ELSE IF ~SourceValid(j) THEN Deny(w, "source_removed")
       ELSE Goto(w, "reserve") \/ Deny(w, "context_rejected")
    /\ UNCHANGED <<now, job, attempts, content, settings>>

-----------------------------------------------------------------------------
(* ReserveGeneration: admission of one provider call.  `policy` is the     *)
(* answer of executionPolicyAllowed, which depends on other jobs and on    *)
(* limits operators may edit at any time.                                  *)

Admission(j, v, policy) ==
    LET b == job[j]
        h == attempts[j]
    IN
    IF b.status # "running" \/ b.leaseVersion # v THEN "conflict"
    ELSE IF now >= b.expiresAt THEN "stale_trigger"
    ELSE IF ~ValidateLease(b, v, now) THEN "conflict"
    ELSE IF ~SourceValid(j) THEN "source_removed"
    ELSE IF ~AgentAllowed(j) THEN "policy_disabled"
    ELSE IF ~policy THEN "policy_denied"
    ELSE IF \E n \in DOMAIN h : h[n].leaseVersion = v THEN "already_admitted"
    ELSE IF InvalidOutputs(h) > MaxGenerationInvalidRegenerations
    THEN "invalid_output"
    ELSE IF Len(h) >= MaxGenerationAttempts THEN "attempt_limit"
    ELSE IF h # <<>> /\ ~Acknowledged(b.availableAt, LastAttempt(j))
    THEN "recovery_required"
    ELSE IF ~BudgetAllows(AgentOf[j]) THEN "budget_exhausted"
    ELSE "admitted"

Reservation(j, v) ==
    [leaseVersion |-> v, pauseRevision |-> pauseRevision[AgentOf[j]],
     startedAt |-> now, status |-> "reserved", decision |-> "",
     errorCode |-> "", notBefore |-> 0, tokens |-> 0, finishedAt |-> 0,
     calls |-> 0, fenced |-> FALSE, acknowledged |-> ""]

ReserveGeneration(w) ==
    LET j == worker[w].job
        v == worker[w].version
    IN
    /\ worker[w].pc = "reserve"
    /\ \E policy \in BOOLEAN :
          LET verdict == Admission(j, v, policy) IN
          IF verdict = "admitted"
          THEN /\ attempts' = [attempts EXCEPT ![j] = Append(@, Reservation(j, v))]
               /\ worker' = [worker EXCEPT ![w].pc = "ready",
                                 ![w].attempt = Len(attempts[j]) + 1]
               /\ UNCHANGED job
          ELSE /\ SetJob(j, IF verdict = "stale_trigger"
                            THEN skipExpiredGenerationJob(job[j])
                            ELSE IF verdict \in DOMAIN AdmissionStatus
                            THEN finishExecutionJob(job[j],
                                    AdmissionStatus[verdict], verdict, now)
                            ELSE job[j])
               /\ Leave(w)
               /\ UNCHANGED attempts
    /\ UNCHANGED <<now, content, settings>>

-----------------------------------------------------------------------------
(* The provider call, with lease renewal running beside it.                *)

StartCall(w) ==
    LET j == worker[w].job IN
    /\ worker[w].pc = "ready"
    /\ attempts' = [attempts EXCEPT ![j][worker[w].attempt].calls = @ + 1]
    /\ Goto(w, "calling")
    /\ UNCHANGED <<now, job, content, settings>>

RenewGeneration(w) ==
    LET j == worker[w].job IN
    /\ worker[w].pc = "calling"
    /\ \E t \in Recent :
          /\ ValidateLease(job[j], worker[w].version, t)
          /\ ~Unlinked(j)
          /\ t + LeaseDuration > job[j].leaseExpiresAt
          /\ SetJob(j, [job[j] EXCEPT !.leaseExpiresAt = t + LeaseDuration])
    /\ UNCHANGED <<now, attempts, content, settings, worker>>

\* The renewal is refused, or fails: the call is cancelled.
RenewalFails(w) ==
    /\ worker[w].pc = "calling"
    /\ Interrupt(w, FALSE)
    /\ UNCHANGED <<now, job, attempts, content, settings>>

ProviderReturns(w) ==
    /\ worker[w].pc = "calling"
    /\ \E o \in Outcomes, hint \in RetryHints :
          worker' = [worker EXCEPT ![w].pc = "settle", ![w].outcome =
             [result |-> o.result, tokens |-> o.tokens,
              notBefore |-> IF hint = 0 \/ o.result \notin GenerationFailure
                            THEN 0 ELSE now + hint]]
    /\ UNCHANGED <<now, job, attempts, content, settings>>

-----------------------------------------------------------------------------
(* SettleGeneration: the observation becomes durable, whatever became of   *)
(* the lease, unless recovery has already given the attempt up.            *)

\* Usage above the limits of a request is not usage but a failure.
ClassifiedOutcome(o) ==
    IF o.result \in {"provider_timeout", "execution_cancelled",
                     "unsupported_accounting"}
    THEN [o EXCEPT !.tokens = 0]
    ELSE IF o.tokens > ReservedTokens
    THEN [o EXCEPT !.result = "unsupported_accounting", !.tokens = 0]
    ELSE o

Settled(a, outcome) ==
    LET o == ClassifiedOutcome(outcome) IN
    [a EXCEPT
        !.status = IF o.result \in {"publish", "skip"} THEN "succeeded"
                   ELSE IF o.result \in {"provider_timeout",
                                         "execution_cancelled"}
                   THEN "unknown" ELSE "failed",
        !.decision = IF o.result \in {"publish", "skip"} THEN o.result ELSE "",
        !.errorCode = IF o.result \in {"publish", "skip"} THEN ""
                      ELSE o.result,
        !.notBefore = o.notBefore,
        !.tokens = o.tokens,
        !.finishedAt = now]

SameSettlement(a, b) ==
    /\ a.status = b.status /\ a.errorCode = b.errorCode
    /\ a.decision = b.decision /\ a.notBefore = b.notBefore
    /\ a.tokens = b.tokens

\* Mutant: a late outcome replaces what recovery has recorded.
Settlement_LateWins(j, n, outcome) ==
    [attempts EXCEPT ![j][n] = Settled(@, outcome)]

\* The attempts SettleGeneration leaves.
Settlement(j, n, outcome) ==
    IF attempts[j][n].status = "reserved"
    THEN [attempts EXCEPT ![j][n] = Settled(@, outcome)]
    ELSE attempts

SettleGeneration(w) ==
    LET j == worker[w].job
        n == worker[w].attempt
        o == worker[w].outcome
        a == attempts[j][n]
    IN
    /\ worker[w].pc = "settle"
    /\ attempts' = Settlement(j, n, o)
    /\ worker' = [worker EXCEPT ![w].pc = "latest", ![w].accepted =
                     a.status = "reserved" \/ SameSettlement(a, Settled(a, o))]
    /\ UNCHANGED <<now, job, content, settings>>

(* r.cancelled: settle an uncertain call at full cost and, unless the      *)
(* lease is what failed, close the job.                                    *)
SettleCancelled(w) ==
    LET o == [NoOutcome EXCEPT !.result = "execution_cancelled"] IN
    /\ worker[w].pc = "cancelled"
    /\ attempts' = Settlement(worker[w].job, worker[w].attempt, o)
    /\ IF worker[w].acknowledge THEN Deny(w, "execution_cancelled")
                                ELSE Leave(w)
    /\ UNCHANGED <<now, job, content, settings>>

\* LatestGenerationAttempt after the settlement.
ReadLatest(w) ==
    /\ worker[w].pc = "latest"
    /\ worker' = [worker EXCEPT ![w].pc = "complete",
                     ![w].durable = Len(attempts[worker[w].job])]
    /\ UNCHANGED <<now, job, attempts, content, settings>>

CompleteGeneration(w) ==
    LET j == worker[w].job
        n == worker[w].durable
        a == attempts[j][n]
    IN
    /\ worker[w].pc = "complete"
    /\ \E jitter \in 0 .. MaxRetryJitter :
          LET res == Completion(j, worker[w].version, n, jitter) IN
          /\ Complete(j, res)
          /\ IF DurableStop(a) \/ res.status # "running" THEN LeaveFinish(w)
             ELSE IF /\ worker[w].accepted /\ n = worker[w].attempt
                     /\ a.leaseVersion = worker[w].version
                     /\ a.status = "succeeded" /\ a.decision = "publish"
             THEN Goto(w, "publish")
             ELSE Deny(w, "outcome_unavailable")
    /\ UNCHANGED <<now, content, settings>>

-----------------------------------------------------------------------------
(* PublishGeneration.  `output` is the answer of the checks on the text    *)
(* itself (validity, repetition), `policy` that of executionPolicyAllowed. *)
(* Everything is rolled back unless the verdict is "published".            *)

\* The attempt is the observation of this lease.
Publishable(a, b) ==
    /\ a.leaseVersion = b.leaseVersion /\ a.status = "succeeded"
    /\ a.startedAt >= b.availableAt /\ a.finishedAt <= now

\* Mutant: an agent that is enabled now is taken to have never been paused.
PublicationVerdict_NoPauseFence(j, v, n, output, policy) ==
    LET b == job[j]
        a == attempts[j][n]
    IN
    IF b.status = "succeeded" THEN "replay"
    ELSE IF ~SourceValid(j) THEN "deleted"
    ELSE IF ~AgentAllowed(j) \/ ~policy THEN "forbidden"
    ELSE IF ~ValidateLease(b, v, now) THEN "conflict"
    ELSE IF a.decision # "publish" \/ ~output \/ ~Publishable(a, b) THEN "output"
    ELSE "published"

PublicationVerdict(j, v, n, output, policy) ==
    LET b == job[j]
        a == attempts[j][n]
    IN
    IF b.status = "succeeded"
    THEN IF b.leaseVersion = v /\ b.publishedAttempt = n THEN "replay"
                                                         ELSE "conflict"
    ELSE IF b.status # "running" \/ b.leaseVersion # v THEN "conflict"
    ELSE IF ~SourceValid(j) THEN "deleted"
    ELSE IF ~AgentAllowed(j) THEN "forbidden"
    ELSE IF a.decision # "publish" THEN "output"
    ELSE IF a.pauseRevision # pauseRevision[AgentOf[j]] THEN "forbidden"
    ELSE IF ~ValidateLease(b, v, now) THEN "conflict"
    ELSE IF ~output \/ ~Publishable(a, b) THEN "output"
    ELSE IF ~policy THEN "forbidden"
    ELSE "published"

PublicationDenial ==
    [deleted   |-> "source_removed",
     forbidden |-> "policy_denied",
     conflict  |-> "publication_denied",
     output    |-> "publication_denied"]

Published(b, n) ==
    [b EXCEPT !.status = "succeeded", !.publishedAttempt = n,
              !.leaseExpiresAt = 0]

\* Continuations the publication of j may admit, in the same transaction.
Continuations(j) == {k \in Jobs : ParentOf[k] = j /\ job[k].status = "absent"}

\* Mutant: continuations are enqueued before the verdict, not with the item.
PublishGeneration_ContinuesFirst(w) ==
    LET j == worker[w].job
        n == worker[w].durable
    IN
    /\ worker[w].pc = "publish"
    /\ \E output, policy \in BOOLEAN, children \in SUBSET Continuations(j) :
          LET verdict == PublicationVerdict(j, worker[w].version, n, output, policy)
              here == verdict = "published"
          IN  /\ job' = [k \in Jobs |-> IF k = j /\ here THEN Published(job[j], n)
                                        ELSE IF k \in children THEN NewJob ELSE job[k]]
              /\ content' = IF here THEN [content EXCEPT ![j] = @ + 1] ELSE content
              /\ IF here \/ verdict = "replay" THEN LeaveFinish(w)
                 ELSE Deny(w, PublicationDenial[verdict])
    /\ UNCHANGED <<now, attempts, settings>>

PublishGeneration(w) ==
    LET j == worker[w].job
        n == worker[w].durable
    IN
    /\ worker[w].pc = "publish"
    /\ \E output, policy \in BOOLEAN :
          LET verdict == PublicationVerdict(j, worker[w].version, n, output, policy)
          IN  IF verdict = "published"
              THEN \E children \in SUBSET Continuations(j) :
                     /\ job' = [k \in Jobs |->
                           IF k = j THEN Published(job[j], n)
                           ELSE IF k \in children THEN NewJob ELSE job[k]]
                     /\ content' = [content EXCEPT ![j] = @ + 1]
                     /\ LeaveFinish(w)
              ELSE /\ UNCHANGED <<job, content>>
                   /\ IF verdict = "replay" THEN LeaveFinish(w)
                      ELSE Deny(w, PublicationDenial[verdict])
    /\ UNCHANGED <<now, attempts, settings>>

\* Mutant: a denial closes whatever the lease version names.
DenialRow_AnyStatus(j, v, denial) ==
    IF job[j].leaseVersion # v THEN job[j]
    ELSE finishExecutionJob(job[j], DenialStatus[denial], denial, now)

\* DenyGeneration: close the job under the current lease.
DenialRow(j, v, denial) ==
    LET b == job[j] IN
    IF b.leaseVersion # v \/ b.status # "running" THEN b
    ELSE IF now >= b.expiresAt THEN skipExpiredGenerationJob(b)
    ELSE IF Unlinked(j) THEN cancelRemovedJob(b)
    ELSE IF ~ValidateLease(b, v, now) THEN b
    ELSE finishExecutionJob(b, DenialStatus[denial], denial, now)

DenyGeneration(w) ==
    LET j == worker[w].job
        denial == worker[w].denial
    IN
    /\ worker[w].pc = "deny"
    /\ SetJob(j, DenialRow(j, worker[w].version, denial))
    /\ IF denial = "execution_cancelled" \/ worker[w].attempt = 0
       THEN Leave(w) ELSE LeaveFinish(w)
    /\ UNCHANGED <<now, attempts, content, settings>>

\* The worker is told to stop while it holds a reservation.
Shutdown(w) ==
    /\ \/ worker[w].pc \in {"ready", "calling"} \cup FinishPC
       \/ /\ worker[w].pc = "deny" /\ worker[w].attempt # 0
          /\ worker[w].denial # "execution_cancelled"
    /\ Interrupt(w, TRUE)
    /\ UNCHANGED <<now, job, attempts, content, settings>>

\* The process dies, or a statement fails and the pass is given up.
Abandon(w) ==
    /\ worker[w].pc # "idle"
    /\ Leave(w)
    /\ UNCHANGED <<now, job, attempts, content, settings>>

-----------------------------------------------------------------------------
(* Operators and authors.                                                  *)

\* RetryGeneration: the histories that may be reopened.
Reopenable(j) ==
    LET h == attempts[j]
        a == LastAttempt(j)
    IN
    /\ job[j].status = "failed" /\ job[j].leaseVersion > 0
    /\ Len(h) < MaxGenerationAttempts
    /\ \A n \in DOMAIN h : /\ h[n].status # "reserved"
                           /\ h[n].errorCode # "unsupported_accounting"
    /\ InvalidOutputs(h) <= MaxGenerationInvalidRegenerations
    /\ IF h # <<>> /\ a.status = "succeeded"
       THEN job[j].reasonCode = "outcome_unavailable" /\ a.decision # "skip"
       ELSE job[j].reasonCode \in GenerationFailure \
               {"unsafe_output", "repeated_output", "execution_cancelled"}

\* Fresh time, or the provider's hint, and always after the last finish.
RetryAvailability(j) ==
    LET a == LastAttempt(j)
        floor == IF a.notBefore > now THEN a.notBefore ELSE now
    IN  IF attempts[j] = <<>> THEN now
        ELSE IF floor > a.finishedAt THEN floor ELSE a.finishedAt + 1

RetryGeneration(j) ==
    /\ SourceValid(j) /\ AgentAllowed(j)
    /\ Reopenable(j)
    /\ now < job[j].expiresAt
    /\ RetryAvailability(j) < job[j].expiresAt
    /\ SetJob(j, [job[j] EXCEPT !.status = "retry_wait",
                     !.reasonCode = "operator_retry",
                     !.availableAt = RetryAvailability(j)])
    /\ attempts' = IF attempts[j] = <<>> THEN attempts
                   ELSE [attempts EXCEPT
                            ![j][Len(attempts[j])].acknowledged = "operator"]
    /\ UNCHANGED <<now, content, settings, worker>>

\* setAgentsEnabled(false): pausing twice moves the revision twice.
PauseAgent(a) ==
    /\ pauseRevision[a] < MaxPauses
    /\ enabled' = [enabled EXCEPT ![a] = FALSE]
    /\ pauseRevision' = [pauseRevision EXCEPT ![a] = @ + 1]
    /\ attempts' = [j \in Jobs |-> [n \in DOMAIN attempts[j] |->
                       IF AgentOf[j] = a /\ job[j].status # "succeeded"
                       THEN [attempts[j][n] EXCEPT !.fenced = TRUE]
                       ELSE attempts[j][n]]]
    /\ UNCHANGED <<now, job, content, disabled, source, worker>>

\* setAgentsEnabled(true): a disabled account cannot be resumed.
ResumeAgent(a) ==
    /\ a \notin disabled
    /\ enabled' = [enabled EXCEPT ![a] = TRUE]
    /\ UNCHANGED <<now, job, attempts, content, pauseRevision, disabled,
                   source, worker>>

DisableAccount(a) ==
    /\ disabled' = disabled \cup {a}
    /\ UNCHANGED <<now, job, attempts, content, enabled, pauseRevision,
                   source, worker>>

\* The author of the source is disabled: nothing is cleaned up.
HideSource(s) ==
    /\ source[s] = "visible"
    /\ source' = [source EXCEPT ![s] = "hidden"]
    /\ UNCHANGED <<now, job, attempts, content, enabled, pauseRevision,
                   disabled, worker>>

\* Mutant: jobs are cancelled whether or not they have expired.
RemovalRow_NeverStale(b) == cancelRemovedJob(b)

\* The row cancelRemovedGenerationSourceJobs writes.
RemovalRow(b) ==
    IF now < b.expiresAt THEN cancelRemovedJob(b)
                         ELSE skipExpiredGenerationJob(b)

RemovableJobs(s) ==
    {j \in Jobs : SourceOf[j] = s /\ job[j].status \in ActiveStatus}

(* The post or reply is deleted, or the repost undone.  A batch of the     *)
(* active jobs is closed with it; jobs that are locked or left over keep   *)
(* their status and must be stopped by later checks.                       *)
RemoveSource(s) ==
    LET reposts == \A j \in Jobs : SourceOf[j] = s => TriggerKind[j] = "repost"
    IN
    /\ source[s] \in {"visible", "hidden"}
    /\ \E gone \in IF reposts THEN {"deleted", "unlinked"} ELSE {"deleted"} :
          source' = [source EXCEPT ![s] = gone]
    /\ \E B \in SUBSET RemovableJobs(s) :
          /\ Cardinality(B) <= CleanupBatch
          /\ job' = [j \in Jobs |-> IF j \in B THEN RemovalRow(job[j])
                                               ELSE job[j]]
    /\ UNCHANGED <<now, attempts, content, enabled, pauseRevision, disabled,
                   worker>>

Tick ==
    /\ now < MaxTime
    /\ now' = now + 1
    /\ UNCHANGED <<job, attempts, content, settings, worker>>

-----------------------------------------------------------------------------
(* Jobs without a parent have been admitted at time 1.                     *)
Init ==
    /\ now = 1
    /\ job = [j \in Jobs |-> IF ParentOf[j] = NoJob THEN NewJob ELSE AbsentJob]
    /\ attempts = [j \in Jobs |-> <<>>]
    /\ content = [j \in Jobs |-> 0]
    /\ enabled = [a \in Agents |-> TRUE]
    /\ pauseRevision = [a \in Agents |-> 0]
    /\ disabled = {}
    /\ source = [s \in Sources |-> "visible"]
    /\ worker = [w \in Workers |-> IdleWorker]

\* What a worker does unless it is interrupted or has to renew.
Proceed(w) ==
    \/ RecoverGenerationAttempts(w) \/ ExpireGenerationJobs(w)
    \/ ClaimGeneration(w)
    \/ ReadPrior(w) \/ AcknowledgePrior(w)
    \/ GenerationContext(w) \/ ReserveGeneration(w)
    \/ StartCall(w) \/ ProviderReturns(w)
    \/ SettleGeneration(w) \/ ReadLatest(w) \/ CompleteGeneration(w)
    \/ PublishGeneration(w) \/ DenyGeneration(w) \/ SettleCancelled(w)

Disturb(w) == RenewGeneration(w) \/ RenewalFails(w) \/ Shutdown(w) \/ Abandon(w)

Control ==
    \/ \E a \in Agents : PauseAgent(a) \/ ResumeAgent(a) \/ DisableAccount(a)
    \/ \E s \in Sources : HideSource(s) \/ RemoveSource(s)
    \/ \E j \in Jobs : RetryGeneration(j)

Next ==
    \/ \E w \in Workers : Proceed(w) \/ Disturb(w)
    \/ Control
    \/ Tick

Spec == Init /\ [][Next]_vars

-----------------------------------------------------------------------------
(* Safety.                                                                 *)

(* What a worker relies on between its steps: the job and the attempts it  *)
(* names exist, and no claim it made is newer than the job's lease.        *)
WorkerConsistent(w) ==
    LET k == worker[w] IN
    /\ k.pc = "idle" => k.job = NoJob
    /\ k.pc # "idle" => /\ k.job \in Jobs
                        /\ k.version <= job[k.job].leaseVersion
    /\ k.pc \in {"ready", "calling", "cancelled"} \cup FinishPC => k.attempt # 0
    /\ k.attempt # 0 => /\ k.pc # "idle"
                        /\ k.attempt \in DOMAIN attempts[k.job]
    /\ k.pc \in {"ackprior", "complete", "publish"} =>
          k.durable \in DOMAIN attempts[k.job]
    /\ k.pc = "settle" => k.outcome.result # "none"
    /\ k.pc = "deny" => k.denial # ""

WorkersConsistent == \A w \in Workers : WorkerConsistent(w)

(* A job publishes at most one item, and has published one exactly when it *)
(* has succeeded: PublishGeneration inserts content and closes the job in  *)
(* one transaction, whoever else still believes to own the job.            *)
PublishedOnce ==
    \A j \in Jobs :
        content[j] = IF job[j].status = "succeeded" THEN 1 ELSE 0

(* The attempt a succeeded job names is its last one, was made under the   *)
(* lease that published it, was called once and has not seen its agent     *)
(* paused between reservation and publication, even if the agent was       *)
(* resumed at once.                                                        *)
PublicationAuthority ==
    \A j \in Jobs : job[j].status = "succeeded" =>
        LET n == job[j].publishedAttempt IN
        /\ n = Len(attempts[j]) /\ n > 0
        /\ attempts[j][n].leaseVersion = job[j].leaseVersion
        /\ attempts[j][n].status = "succeeded"
        /\ attempts[j][n].decision = "publish"
        /\ attempts[j][n].calls = 1
        /\ ~attempts[j][n].fenced

(* Two workers never hold the same lease of a job: after an expiry the     *)
(* next claim gets a version of its own, however long the old owner keeps  *)
(* going.                                                                  *)
SoleLeaseHolder ==
    \A v, w \in Workers :
        /\ v # w /\ worker[v].job # NoJob
        /\ worker[v].job = worker[w].job
        => worker[v].version # worker[w].version

(* A committed reservation grants one provider call, and a job no more     *)
(* than MaxGenerationAttempts of them, across crashes, lost answers,       *)
(* reclaimed leases and operator retries.                                  *)
CallsBounded ==
    \A j \in Jobs :
        /\ Len(attempts[j]) <= MaxGenerationAttempts
        /\ \A n \in DOMAIN attempts[j] : attempts[j][n].calls <= 1

(* Attempts are made one after the other: an attempt follows another only  *)
(* under a later lease, once the other is settled and a fenced transition  *)
(* has acknowledged it, and not before the provider asked for.             *)
AttemptsInOrder ==
    \A j \in Jobs : \A m, n \in DOMAIN attempts[j] : m < n =>
        LET a == attempts[j][m]
            b == attempts[j][n]
        IN  /\ a.status # "reserved" /\ a.acknowledged # ""
            /\ a.leaseVersion < b.leaseVersion
            /\ a.finishedAt < b.startedAt /\ a.notBefore <= b.startedAt

(* What is never followed by another attempt: unsupported accounting,      *)
(* unsafe or repeated output, a cancelled execution or a decision to skip; *)
(* and after a credential or configuration failure only an operator's      *)
(* retry lets the job go on.                                               *)
RepairBeforeRetry ==
    \A j \in Jobs : \A n \in DOMAIN attempts[j] : n < Len(attempts[j]) =>
        LET a == attempts[j][n] IN
        /\ a.errorCode \notin {"unsupported_accounting", "unsafe_output",
                               "repeated_output", "execution_cancelled"}
        /\ a.decision # "skip"
        /\ a.errorCode \in {"provider_credentials", "provider_configuration"}
              => a.acknowledged = "operator"

(* The most a provider may have charged for an attempt: its whole          *)
(* reservation unless it has answered with a usage that can be believed.   *)
MostCharged(a) ==
    IF /\ a.status \in {"succeeded", "failed"} /\ a.tokens > 0
       /\ a.errorCode # "unsupported_accounting"
    THEN a.tokens ELSE ReservedTokens

(* Whatever the provider charged for calls that timed out, were cancelled  *)
(* or were lost with their worker, the calls of a day stay within the      *)
(* daily budget and those of an agent within its own, although             *)
(* settlements, recoveries and admissions of different jobs interleave.    *)
WithinBudget ==
    \A t \in 1 .. now :
        /\ TotalOn(MostCharged, Day(t), Jobs) <= DailyTokenBudget
        /\ \A a \in Agents :
              TotalOn(MostCharged, Day(t), JobsOf(a)) <= AgentTokenBudget[a]

-----------------------------------------------------------------------------
(* Steps.                                                                  *)

(* Every change of a job row is one that the domain rules accept, for the  *)
(* clock the transaction was decided on: no store operation builds a row   *)
(* that its own validation would refuse.                                   *)
JobStepAccepted(j) ==
    \E t \in Recent :
        \/ ValidateGenerationJobTransition(job[j], job'[j], t, Unlinked(j),
              IF job'[j].status = "succeeded"
              THEN attempts[j][job'[j].publishedAttempt] ELSE NoOutcome)
        \/ /\ SourceOf[j] # NoSource /\ ~SourceValid(j)'
           /\ ValidateGenerationSourceInvalidation(job[j], job'[j], t)

JobStepsAccepted ==
    [][\A j \in Jobs : job'[j] # job[j] /\ job[j].status # "absent"
          => JobStepAccepted(j)]_vars

(* Attempts are append-only: a settled attempt keeps its outcome and its   *)
(* cost whatever arrives later, and a step adds at most one reservation.   *)
Columns(a) ==
    <<a.leaseVersion, a.pauseRevision, a.startedAt, a.status, a.decision,
      a.errorCode, a.notBefore, a.tokens, a.finishedAt>>

AttemptStepsAccepted ==
    [][\A j \in Jobs :
          /\ Len(attempts'[j]) \in {Len(attempts[j]), Len(attempts[j]) + 1}
          /\ \A n \in DOMAIN attempts[j] :
                \/ Columns(attempts'[j][n]) = Columns(attempts[j][n])
                \/ ValidateGenerationAttemptTransition(attempts[j][n],
                                                       attempts'[j][n])]_vars

-----------------------------------------------------------------------------
(* Refinement.                                                             *)

PhaseOf(b) ==
    CASE b.status = "absent"                   -> "absent"
      [] b.status \in ActiveStatus             -> "open"
      [] b.status = "failed"                   -> "failed"
      [] b.status \in {"skipped", "cancelled"} -> "closed"
      [] b.status = "succeeded"                -> "published"

Promise == INSTANCE GenerationPromise WITH
              phase <- [j \in Jobs |-> PhaseOf(job[j])],
              published <- content

(* Leases, crashes, retries, cleanups and operators change a job only as   *)
(* the abstract specification allows: one publication per job, which also  *)
(* admits its continuations; nothing after a final status; a failed job    *)
(* goes on only by an operator's retry.                                    *)
KeepsPromise == Promise!Spec

-----------------------------------------------------------------------------
(* Liveness.  Processes restart and passes are repeated, calls end by      *)
(* their deadline and time goes on; a pass may be given up anywhere, but   *)
(* not at the same step for ever.                                          *)

Fairness ==
    /\ WF_vars(Tick)
    /\ \A w \in Workers : /\ WF_vars(Proceed(w))
                          /\ SF_vars(RecoverGenerationAttempts(w))
                          /\ SF_vars(ExpireGenerationJobs(w))

FairSpec == Spec /\ Fairness

\* Every job leaves the queue in the end.
JobsClose == \A j \in Jobs : job[j].status \in ActiveStatus
                                ~> job[j].status \notin ActiveStatus

\* Every reservation is settled or given up in the end.
ReservationsResolve ==
    \A j \in Jobs :
        (\E n \in DOMAIN attempts[j] : attempts[j][n].status = "reserved")
            ~> (\A n \in DOMAIN attempts[j] : attempts[j][n].status # "reserved")
=============================================================================
