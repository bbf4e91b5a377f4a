--------------------- MODULE GenerationLifecycle_proofs ---------------------
(***************************************************************************)
(* Proofs about GenerationLifecycle, for any number of jobs, workers,      *)
(* attempts and clock readings.                                            *)
(***************************************************************************)
EXTENDS GenerationLifecycle, SequenceTheorems, TLAPS

\* A job that was not admitted yet was never claimed.
AbsentUnclaimed ==
    \A j \in Jobs : job[j].status = "absent" => job[j].leaseVersion = 0

\* The inductive invariant.
Inv == TypeOK /\ WorkersConsistent /\ SoleLeaseHolder /\ AbsentUnclaimed

-----------------------------------------------------------------------------
(* How one row of generation_jobs may change, and what follows for all.    *)

RowStep(b, c) ==
    /\ c \in Job
    /\ b.leaseVersion <= c.leaseVersion
    /\ c.status = "absent" => c = b
    /\ \/ PhaseOf(c) = PhaseOf(b)
       \/ PhaseOf(b) = "open" /\ PhaseOf(c) \in {"closed", "failed"}
       \/ PhaseOf(b) = "failed" /\ PhaseOf(c) = "open"

LeasesGrow ==
    \A j \in Jobs : /\ job[j].leaseVersion <= job'[j].leaseVersion
                    /\ job'[j].status = "absent" => job'[j] = job[j]

PromiseStep == Promise!Next \/ UNCHANGED Promise!promised

JobStep == job' \in [Jobs -> Job] /\ LeasesGrow /\ PromiseStep

\* How attempts and the control state of one worker may change.
AttemptStep ==
    /\ attempts' \in [Jobs -> Seq(Attempt)]
    /\ \A j \in Jobs : DOMAIN attempts[j] \subseteq DOMAIN attempts'[j]

OwnStep(w) ==
    /\ worker' \in [Workers -> WorkerState]
    /\ \A v \in Workers \ {w} : worker'[v] = worker[v]
    /\ WorkerConsistent(w)'
    /\ \/ worker'[w].job = NoJob
       \/ /\ worker'[w].job = worker[w].job
          /\ worker'[w].version = worker[w].version

-----------------------------------------------------------------------------
(* Rows.                                                                   *)

LEMMA DenialDomain ==
    DOMAIN DenialStatus = {"context_rejected", "publication_denied",
        "policy_denied", "source_removed", "execution_cancelled",
        "outcome_unavailable"}
  BY DEF DenialStatus

LEMMA AdmissionDomain ==
    DOMAIN AdmissionStatus = {"source_removed", "policy_disabled",
        "policy_denied", "budget_exhausted", "invalid_output",
        "attempt_limit"}
  BY DEF AdmissionStatus

LEMMA DenialType ==
    ASSUME NEW r \in DOMAIN DenialStatus
    PROVE  /\ DenialStatus[r] \in {"skipped", "cancelled", "failed"}
           /\ r \in ReasonCodes
  <1>1. DenialStatus[r] \in {"skipped", "cancelled", "failed"}
    BY DenialDomain DEF DenialStatus
  <1>2. r \in ReasonCodes
    BY DEF ReasonCodes
  <1> QED BY <1>1, <1>2

LEMMA AdmissionType ==
    ASSUME NEW r \in DOMAIN AdmissionStatus
    PROVE  /\ AdmissionStatus[r] \in {"skipped", "cancelled", "failed"}
           /\ r \in ReasonCodes
  <1>1. AdmissionStatus[r] \in {"skipped", "cancelled", "failed"}
    BY AdmissionDomain DEF AdmissionStatus
  <1>2. r \in ReasonCodes
    BY DEF ReasonCodes
  <1> QED BY <1>1, <1>2

\* Phases of the statuses a row passes through.
LEMMA PhaseFacts ==
    ASSUME NEW b
    PROVE  /\ b.status \in ActiveStatus => PhaseOf(b) = "open"
           /\ b.status \in {"skipped", "cancelled"} => PhaseOf(b) = "closed"
           /\ b.status = "failed" => PhaseOf(b) = "failed"
           /\ b.status = "succeeded" => PhaseOf(b) = "published"
           /\ b.status = "absent" => PhaseOf(b) = "absent"
  BY DEF PhaseOf, ActiveStatus

\* Closing an active job or giving it back is a step of its row.
LEMMA FinishRow ==
    ASSUME NEW b \in Job, b.status \in ActiveStatus,
           NEW s \in {"skipped", "cancelled", "failed", "retry_wait"},
           NEW r \in ReasonCodes, NEW available,
           s = "retry_wait" => available \in Nat
    PROVE  /\ RowStep(b, closeJob(b, s, r))
           /\ RowStep(b, finishExecutionJob(b, s, r, available))
  <1> DEFINE c == closeJob(b, s, r)
             d == finishExecutionJob(b, s, r, available)
  <1>1. s \in JobStatus
    BY DEF JobStatus, ActiveStatus, FinalStatus
  <1>2. c \in Job /\ c.leaseVersion = b.leaseVersion /\ c.status = s
    BY <1>1 DEF closeJob, Job
  <1>3. d \in Job /\ d.leaseVersion = b.leaseVersion /\ d.status = s
    BY <1>1, <1>2 DEF finishExecutionJob, Job
  <1>4. PhaseOf(b) = "open"
    BY PhaseFacts
  <1>5. PhaseOf(c) \in {"open", "closed", "failed"}
    BY <1>2 DEF PhaseOf, ActiveStatus
  <1>6. PhaseOf(d) \in {"open", "closed", "failed"}
    BY <1>3 DEF PhaseOf, ActiveStatus
  <1>7. b.leaseVersion <= b.leaseVersion
    BY DEF Job
  <1> QED BY <1>2, <1>3, <1>4, <1>5, <1>6, <1>7 DEF RowStep

LEMMA KeepRow ==
    ASSUME NEW b \in Job
    PROVE  RowStep(b, b)
  BY DEF RowStep, Job

LEMMA CleanupRow ==
    ASSUME NEW b \in Job, b.status \in ActiveStatus
    PROVE  /\ RowStep(b, skipExpiredGenerationJob(b))
           /\ RowStep(b, cancelRemovedJob(b))
  <1>1. "stale_trigger" \in ReasonCodes /\ "source_removed" \in ReasonCodes
    BY DenialDomain DEF ReasonCodes
  <1> QED
    BY <1>1, FinishRow DEF skipExpiredGenerationJob, cancelRemovedJob

\* A step of one row is a step of the table and of the promise.
LEMMA SetJobStep ==
    ASSUME TypeOK, NEW j \in Jobs, NEW c, RowStep(job[j], c),
           SetJob(j, c), content' = content
    PROVE  JobStep
  <1> DEFINE phase == [i \in Jobs |-> PhaseOf(job[i])]
             b == job[j]
  <1>1. job' \in [Jobs -> Job]
    BY DEF TypeOK, RowStep, SetJob
  <1>2. \A i \in Jobs : job'[i] = IF i = j THEN c ELSE job[i]
    BY DEF TypeOK, SetJob
  <1>3. LeasesGrow
    <2> SUFFICES ASSUME NEW i \in Jobs
                 PROVE  /\ job[i].leaseVersion <= job'[i].leaseVersion
                        /\ job'[i].status = "absent" => job'[i] = job[i]
      BY DEF LeasesGrow
    <2>1. job[i] \in Job /\ job[i].leaseVersion <= job[i].leaseVersion
      BY DEF TypeOK, Job
    <2> QED BY <1>2, <2>1 DEF RowStep
  <1>4. phase' = [phase EXCEPT ![j] = PhaseOf(c)]
    BY <1>2
  <1>5. phase[j] = PhaseOf(b)
    OBVIOUS
  <1>6. CASE PhaseOf(c) = PhaseOf(b)
    <2>1. phase' = phase
      BY <1>4, <1>5, <1>6
    <2> QED BY <1>1, <1>3, <2>1 DEF JobStep, PromiseStep, Promise!promised
  <1>7. CASE PhaseOf(b) = "open" /\ PhaseOf(c) = "closed"
    <2>1. phase' = [i \in Jobs |-> IF i \in {j} THEN "closed" ELSE phase[i]]
      BY <1>4, <1>7
    <2>2. \A i \in {j} : phase[i] = "open"
      BY <1>5, <1>7
    <2>3. Promise!Close({j})
      BY <2>1, <2>2 DEF Promise!Close
    <2>4. Promise!Next
      BY <2>3 DEF Promise!Next
    <2> QED BY <1>1, <1>3, <2>4 DEF JobStep, PromiseStep
  <1>8. CASE PhaseOf(b) = "open" /\ PhaseOf(c) = "failed"
    <2>1. Promise!Fail(j)
      BY <1>4, <1>5, <1>8 DEF Promise!Fail
    <2> QED BY <1>1, <1>3, <2>1 DEF JobStep, PromiseStep, Promise!Next
  <1>9. CASE PhaseOf(b) = "failed" /\ PhaseOf(c) = "open"
    <2>1. Promise!Reopen(j)
      BY <1>4, <1>5, <1>9 DEF Promise!Reopen
    <2> QED BY <1>1, <1>3, <2>1 DEF JobStep, PromiseStep, Promise!Next
  <1> QED BY <1>6, <1>7, <1>8, <1>9 DEF RowStep

\* Skipping or cancelling a batch of active jobs.
LEMMA CloseBatch ==
    ASSUME TypeOK, NEW B \in SUBSET Jobs, NEW rows,
           job' = [j \in Jobs |-> IF j \in B THEN rows[j] ELSE job[j]],
           \A j \in B : /\ PhaseOf(job[j]) = "open"
                        /\ rows[j] \in Job
                        /\ rows[j].leaseVersion = job[j].leaseVersion
                        /\ PhaseOf(rows[j]) = "closed",
           content' = content
    PROVE  JobStep
  <1> DEFINE phase == [i \in Jobs |-> PhaseOf(job[i])]
  <1>1. job' \in [Jobs -> Job]
    BY DEF TypeOK
  <1>2. LeasesGrow
    <2>1. \A j \in B : rows[j].status # "absent"
      BY PhaseFacts
    <2> QED BY <2>1 DEF TypeOK, LeasesGrow, Job
  <1>3. phase' = [i \in Jobs |-> IF i \in B THEN "closed" ELSE phase[i]]
    OBVIOUS
  <1>4. \A i \in B : phase[i] = "open"
    OBVIOUS
  <1>5. Promise!Close(B)
    BY <1>3, <1>4 DEF Promise!Close
  <1>6. Promise!Next
    BY <1>5 DEF Promise!Next
  <1> QED BY <1>1, <1>2, <1>6 DEF JobStep, PromiseStep

LEMMA SameJobs ==
    ASSUME TypeOK, job' = job, content' = content
    PROVE  JobStep
  <1>1. LeasesGrow
    BY DEF TypeOK, LeasesGrow, Job
  <1>2. [i \in Jobs |-> PhaseOf(job[i])]' = [i \in Jobs |-> PhaseOf(job[i])]
    OBVIOUS
  <1> QED BY <1>1, <1>2 DEF TypeOK, JobStep, PromiseStep, Promise!promised
-----------------------------------------------------------------------------
(* Attempts.                                                               *)

LEMMA SameLength ==
    ASSUME NEW S, NEW s \in Seq(S), NEW f \in [DOMAIN s -> S]
    PROVE  f \in Seq(S) /\ DOMAIN f = DOMAIN s
  BY SeqDef

LEMMA AttemptAt ==
    ASSUME TypeOK, NEW j \in Jobs, NEW n \in DOMAIN attempts[j]
    PROVE  attempts[j][n] \in Attempt
  BY DEF TypeOK

LEMMA LastIsAttempt ==
    ASSUME TypeOK, NEW j \in Jobs, attempts[j] # <<>>
    PROVE  /\ Len(attempts[j]) \in DOMAIN attempts[j]
           /\ LastAttempt(j) \in Attempt
           /\ LastAttempt(j) = attempts[j][Len(attempts[j])]
  BY DEF TypeOK, LastAttempt

\* Replacing one attempt.
LEMMA SetAttempt ==
    ASSUME TypeOK, NEW j \in Jobs, NEW n \in DOMAIN attempts[j],
           NEW a \in Attempt, attempts' = [attempts EXCEPT ![j][n] = a]
    PROVE  AttemptStep
  <1> DEFINE s == [attempts[j] EXCEPT ![n] = a]
  <1>1. s \in [DOMAIN attempts[j] -> Attempt]
    BY DEF TypeOK
  <1>2. s \in Seq(Attempt) /\ DOMAIN s = DOMAIN attempts[j]
    BY <1>1, SameLength DEF TypeOK
  <1>3. attempts' = [attempts EXCEPT ![j] = s]
    BY DEF TypeOK
  <1> QED BY <1>2, <1>3 DEF TypeOK, AttemptStep

\* Replacing any number of attempts in place.
LEMMA MapAttempts ==
    ASSUME TypeOK, NEW A,
           \A j \in Jobs : A[j] \in [DOMAIN attempts[j] -> Attempt],
           attempts' = [j \in Jobs |-> A[j]]
    PROVE  AttemptStep
  <1> SUFFICES ASSUME NEW j \in Jobs
               PROVE  /\ A[j] \in Seq(Attempt)
                      /\ DOMAIN A[j] = DOMAIN attempts[j]
    BY DEF AttemptStep
  <1> QED BY SameLength DEF TypeOK

LEMMA SameAttempts ==
    ASSUME TypeOK, attempts' = attempts
    PROVE  AttemptStep
  BY DEF TypeOK, AttemptStep

-----------------------------------------------------------------------------
(* Workers.                                                                *)

LEMMA IdleType == IdleWorker \in WorkerState
  BY DEF IdleWorker, WorkerState, PC, NoOutcome, Observation

LEMMA IdleFields ==
    /\ IdleWorker.pc = "idle" /\ IdleWorker.job = NoJob
    /\ IdleWorker.attempt = 0
  BY DEF IdleWorker

LEMMA LeqTransitive ==
    ASSUME NEW x \in Nat, NEW y \in Nat, NEW z \in Nat, x <= y, y <= z
    PROVE  x <= z
  OBVIOUS

LEMMA LeaveStep ==
    ASSUME TypeOK, NEW w \in Workers, Leave(w)
    PROVE  OwnStep(w)
  <1>1. /\ worker' \in [Workers -> WorkerState]
        /\ worker'[w] = IdleWorker
        /\ \A v \in Workers \ {w} : worker'[v] = worker[v]
    BY IdleType DEF TypeOK, Leave
  <1>2. WorkerConsistent(w)'
    BY <1>1, IdleFields DEF WorkerConsistent, FinishPC
  <1>3. worker'[w].job = NoJob
    BY <1>1, IdleFields
  <1> QED BY <1>1, <1>2, <1>3 DEF OwnStep

\* Any other change of control keeps the job, its version and the attempt.
LEMMA MoveStep ==
    ASSUME Inv, NEW w \in Workers, NEW k \in WorkerState,
           worker[w].pc # "idle", k.pc # "idle",
           JobStep, AttemptStep,
           worker' = [worker EXCEPT ![w] = k],
           k.job = worker[w].job, k.version = worker[w].version,
           k.pc \in {"ready", "calling", "cancelled"} \cup FinishPC =>
              k.attempt # 0,
           k.attempt # 0 => k.attempt \in DOMAIN attempts'[k.job],
           k.pc \in {"ackprior", "complete", "publish"} =>
              k.durable \in DOMAIN attempts'[k.job],
           k.pc = "settle" => k.outcome.result # "none",
           k.pc = "deny" => k.denial # ""
    PROVE  OwnStep(w)
  <1>1. /\ worker' \in [Workers -> WorkerState]
        /\ worker'[w] = k
        /\ \A v \in Workers \ {w} : worker'[v] = worker[v]
    BY DEF Inv, TypeOK
  <1>2. k.job \in Jobs /\ k.version <= job[k.job].leaseVersion
    BY DEF Inv, WorkersConsistent, WorkerConsistent
  <1>3. k.version \in Nat /\ job[k.job] \in Job /\ job'[k.job] \in Job
    BY <1>2 DEF WorkerState, Inv, TypeOK, JobStep
  <1>4. /\ job[k.job].leaseVersion \in Nat /\ job'[k.job].leaseVersion \in Nat
        /\ job[k.job].leaseVersion <= job'[k.job].leaseVersion
    BY <1>2, <1>3 DEF Job, JobStep, LeasesGrow
  <1>5. k.version <= job'[k.job].leaseVersion
    BY <1>2, <1>3, <1>4, LeqTransitive
  <1>6. WorkerConsistent(w)'
    BY <1>1, <1>2, <1>5 DEF WorkerConsistent
  <1> QED BY <1>1, <1>6 DEF OwnStep

\* What a working worker names exists, before and after any step.
LEMMA Named ==
    ASSUME Inv, NEW w \in Workers, worker[w].pc # "idle", AttemptStep
    PROVE  /\ worker[w] \in WorkerState
           /\ worker[w].job \in Jobs
           /\ worker[w].pc \in {"ready", "calling", "cancelled"} \cup FinishPC =>
                 worker[w].attempt # 0
           /\ worker[w].attempt # 0 =>
                 /\ worker[w].attempt \in DOMAIN attempts[worker[w].job]
                 /\ worker[w].attempt \in DOMAIN attempts'[worker[w].job]
           /\ worker[w].pc \in {"ackprior", "complete", "publish"} =>
                 /\ worker[w].durable \in DOMAIN attempts[worker[w].job]
                 /\ worker[w].durable \in DOMAIN attempts'[worker[w].job]
  BY DEF Inv, TypeOK, WorkersConsistent, WorkerConsistent, AttemptStep

LEMMA GotoStep ==
    ASSUME Inv, NEW w \in Workers, worker[w].pc # "idle",
           NEW pc \in PC \ {"idle", "settle", "deny"},
           JobStep, AttemptStep, Goto(w, pc),
           pc \in {"ready", "calling", "cancelled"} \cup FinishPC =>
              worker[w].pc \in {"ready", "calling", "cancelled"} \cup FinishPC,
           pc \in {"ackprior", "complete", "publish"} =>
              worker[w].pc \in {"ackprior", "complete", "publish"}
    PROVE  OwnStep(w)
  <1> DEFINE k == [worker[w] EXCEPT !.pc = pc]
  <1>1. worker[w] \in WorkerState
    BY Named
  <1>2. /\ k \in WorkerState /\ k.pc = pc
        /\ k.job = worker[w].job /\ k.version = worker[w].version
        /\ k.attempt = worker[w].attempt /\ k.durable = worker[w].durable
    BY <1>1 DEF WorkerState
  <1>3. worker' = [worker EXCEPT ![w] = k]
    BY DEF Goto
  <1>4. /\ k.pc # "idle" /\ k.pc # "settle" /\ k.pc # "deny"
        /\ k.pc \in {"ready", "calling", "cancelled"} \cup FinishPC =>
              k.attempt # 0
        /\ k.attempt # 0 => k.attempt \in DOMAIN attempts'[k.job]
        /\ k.pc \in {"ackprior", "complete", "publish"} =>
              k.durable \in DOMAIN attempts'[k.job]
    BY <1>2, Named
  <1> HIDE DEF k
  <1> QED BY <1>2, <1>3, <1>4, MoveStep

LEMMA DenyStep ==
    ASSUME Inv, NEW w \in Workers, worker[w].pc # "idle",
           NEW d \in DOMAIN DenialStatus,
           JobStep, AttemptStep, Deny(w, d)
    PROVE  OwnStep(w)
  <1> DEFINE k == [worker[w] EXCEPT !.pc = "deny", !.denial = d]
  <1>1. worker[w] \in WorkerState
    BY Named
  <1>2. /\ k \in WorkerState /\ k.pc = "deny" /\ k.denial = d
        /\ k.job = worker[w].job /\ k.version = worker[w].version
        /\ k.attempt = worker[w].attempt
    BY <1>1 DEF WorkerState, PC
  <1>3. worker' = [worker EXCEPT ![w] = k]
    BY DEF Deny
  <1>4. d # "" /\ (k.attempt # 0 => k.attempt \in DOMAIN attempts'[k.job])
    BY <1>2, Named, DenialDomain
  <1> HIDE DEF k
  <1> QED BY <1>2, <1>3, <1>4, MoveStep DEF FinishPC

LEMMA InterruptStep ==
    ASSUME Inv, NEW w \in Workers, NEW acknowledge \in BOOLEAN,
           worker[w].pc # "idle", worker[w].attempt # 0,
           JobStep, AttemptStep, Interrupt(w, acknowledge)
    PROVE  OwnStep(w)
  <1> DEFINE k == [worker[w] EXCEPT !.pc = "cancelled",
                                    !.acknowledge = acknowledge]
  <1>1. worker[w] \in WorkerState
    BY Named
  <1>2. /\ k \in WorkerState /\ k.pc = "cancelled"
        /\ k.job = worker[w].job /\ k.version = worker[w].version
        /\ k.attempt = worker[w].attempt
    BY <1>1 DEF WorkerState, PC
  <1>3. worker' = [worker EXCEPT ![w] = k]
    BY DEF Interrupt
  <1>4. k.attempt # 0 /\ k.attempt \in DOMAIN attempts'[k.job]
    BY <1>2, Named
  <1> HIDE DEF k
  <1> QED BY <1>2, <1>3, <1>4, MoveStep

-----------------------------------------------------------------------------
(* Putting a step together.                                                *)

\* A worker that does not move stays consistent with what others change.
LEMMA UntouchedWorker ==
    ASSUME Inv, JobStep, AttemptStep,
           NEW v \in Workers, worker'[v] = worker[v]
    PROVE  WorkerConsistent(v)'
  <1> DEFINE k == worker[v]
  <1>1. WorkerConsistent(v)
    BY DEF Inv, WorkersConsistent
  <1>2. CASE k.pc = "idle"
    BY <1>1, <1>2 DEF WorkerConsistent, FinishPC
  <1>3. CASE k.pc # "idle"
    <2>1. k \in WorkerState /\ k.job \in Jobs /\ job[k.job] \in Job
          /\ job'[k.job] \in Job
      BY <1>1, <1>3 DEF WorkerConsistent, Inv, TypeOK, JobStep
    <2>2. k.version \in Nat /\ job[k.job].leaseVersion \in Nat
          /\ job'[k.job].leaseVersion \in Nat
      BY <2>1 DEF WorkerState, Job
    <2>3. k.version <= job[k.job].leaseVersion
          /\ job[k.job].leaseVersion <= job'[k.job].leaseVersion
      BY <1>1, <1>3, <2>1 DEF WorkerConsistent, JobStep, LeasesGrow
    <2>4. k.version <= job'[k.job].leaseVersion
      BY <2>2, <2>3, LeqTransitive
    <2> QED BY <1>1, <1>3, <2>1, <2>4 DEF WorkerConsistent, AttemptStep
  <1> QED BY <1>2, <1>3

LEMMA WorkerActs ==
    ASSUME Inv, NEW w \in Workers, JobStep, AttemptStep, OwnStep(w),
           now' = now, content' \in [Jobs -> Nat],
           UNCHANGED settings
    PROVE  Inv' /\ PromiseStep
  <1>1. TypeOK'
    BY DEF Inv, TypeOK, JobStep, AttemptStep, OwnStep, settings
  <1>2. WorkersConsistent'
    <2> SUFFICES ASSUME NEW v \in Workers, v # w
                 PROVE  WorkerConsistent(v)'
      BY DEF WorkersConsistent, OwnStep
    <2> QED BY UntouchedWorker DEF OwnStep
  <1>3. SoleLeaseHolder'
    BY SetsAssumption DEF Inv, SoleLeaseHolder, OwnStep
  <1>4. AbsentUnclaimed'
    BY DEF Inv, AbsentUnclaimed, JobStep, LeasesGrow
  <1> QED BY <1>1, <1>2, <1>3, <1>4 DEF Inv, JobStep

LEMMA OthersAct ==
    ASSUME Inv, JobStep, AttemptStep, worker' = worker,
           now' \in Nat, content' = content,
           enabled' \in [Agents -> BOOLEAN],
           pauseRevision' \in [Agents -> Nat],
           disabled' \in SUBSET Agents,
           source' \in [Sources -> SourceStates]
    PROVE  Inv' /\ PromiseStep
  <1>1. TypeOK'
    BY DEF Inv, TypeOK, JobStep, AttemptStep
  <1>2. WorkersConsistent'
    BY UntouchedWorker DEF WorkersConsistent
  <1>3. SoleLeaseHolder'
    BY DEF Inv, SoleLeaseHolder
  <1>4. AbsentUnclaimed'
    BY DEF Inv, AbsentUnclaimed, JobStep, LeasesGrow
  <1> QED BY <1>1, <1>2, <1>3, <1>4 DEF Inv, JobStep

-----------------------------------------------------------------------------
(* One lemma per action.                                                   *)

LEMMA InvFacts ==
    ASSUME Inv
    PROVE  /\ TypeOK /\ WorkersConsistent /\ SoleLeaseHolder
           /\ AbsentUnclaimed
           /\ now \in Nat
           /\ \A j \in Jobs : job[j] \in Job
  BY DEF Inv, TypeOK

LEMMA RecoverGenerationAttemptsStep ==
    ASSUME Inv, NEW w \in Workers, RecoverGenerationAttempts(w)
    PROVE  Inv' /\ PromiseStep
  <1> USE InvFacts
  <1>1. PICK B : attempts' = [j \in Jobs |-> [n \in DOMAIN attempts[j] |->
                             IF <<j, n>> \in B THEN LeaseLost(attempts[j][n])
                                               ELSE attempts[j][n]]]
    BY DEF RecoverGenerationAttempts
  <1> DEFINE A == [j \in Jobs |-> [n \in DOMAIN attempts[j] |->
                             IF <<j, n>> \in B THEN LeaseLost(attempts[j][n])
                                               ELSE attempts[j][n]]]
  <1>2. ASSUME NEW a \in Attempt PROVE LeaseLost(a) \in Attempt
    BY <1>2 DEF LeaseLost, Attempt, AttemptStatus
  <1>3. ASSUME NEW j \in Jobs PROVE A[j] \in [DOMAIN attempts[j] -> Attempt]
    BY <1>2, AttemptAt
  <1>4. AttemptStep
    <2> HIDE DEF A
    <2>1. attempts' = [j \in Jobs |-> A[j]]
      BY <1>1 DEF A
    <2> QED BY <1>3, <2>1, MapAttempts
  <1>5. JobStep
    BY SameJobs DEF RecoverGenerationAttempts
  <1> QED BY <1>4, <1>5, OthersAct
          DEF RecoverGenerationAttempts, settings, Inv, TypeOK

LEMMA ExpireGenerationJobsStep ==
    ASSUME Inv, NEW w \in Workers, ExpireGenerationJobs(w)
    PROVE  Inv' /\ PromiseStep
  <1> USE InvFacts
  <1>1. PICK B \in SUBSET ExpiredJobs :
           job' = [j \in Jobs |-> IF j \in B
                                  THEN skipExpiredGenerationJob(job[j])
                                  ELSE job[j]]
    BY DEF ExpireGenerationJobs
  <1> DEFINE rows == [j \in Jobs |-> skipExpiredGenerationJob(job[j])]
  <1>2. ASSUME NEW j \in B
        PROVE  /\ j \in Jobs
               /\ PhaseOf(job[j]) = "open"
               /\ rows[j] \in Job
               /\ rows[j].leaseVersion = job[j].leaseVersion
               /\ PhaseOf(rows[j]) = "closed"
    <2>1. j \in Jobs /\ job[j].status \in ActiveStatus
      BY DEF ExpiredJobs
    <2>2. PhaseOf(job[j]) = "open"
      BY <2>1, PhaseFacts
    <2>3. rows[j] \in Job
      BY <2>1, CleanupRow DEF RowStep
    <2>4. /\ rows[j].leaseVersion = job[j].leaseVersion
          /\ rows[j].status = "skipped"
      BY <2>1 DEF skipExpiredGenerationJob, closeJob, Job
    <2>5. PhaseOf(rows[j]) = "closed"
      BY <2>4, PhaseFacts
    <2> QED BY <2>1, <2>2, <2>3, <2>4, <2>5
  <1>3. B \in SUBSET Jobs
    BY DEF ExpiredJobs
  <1>4. job' = [j \in Jobs |-> IF j \in B THEN rows[j] ELSE job[j]]
    BY <1>1
  <1>5. JobStep
    <2> HIDE DEF rows
    <2>1. \A j \in B : /\ PhaseOf(job[j]) = "open"
                       /\ rows[j] \in Job
                       /\ rows[j].leaseVersion = job[j].leaseVersion
                       /\ PhaseOf(rows[j]) = "closed"
      BY <1>2
    <2>2. TypeOK /\ content' = content
      BY DEF ExpireGenerationJobs, Inv
    <2> QED BY ONLY <1>3, <1>4, <2>1, <2>2, CloseBatch
  <1>6. AttemptStep
    BY SameAttempts DEF ExpireGenerationJobs
  <1> QED BY <1>5, <1>6, OthersAct
          DEF ExpireGenerationJobs, settings, Inv, TypeOK

LEMMA ClaimedRow ==
    ASSUME Inv, NEW j \in Jobs, job[j].status \in ActiveStatus
    PROVE  /\ RowStep(job[j], Claimed(job[j]))
           /\ Claimed(job[j]).leaseVersion = job[j].leaseVersion + 1
           /\ job[j].leaseVersion \in Nat
  <1> DEFINE b == job[j]
             c == Claimed(job[j])
  <1> USE InvFacts
  <1>1. b \in Job /\ b.leaseVersion \in Nat
    BY DEF Job
  <1>2. now + LeaseDuration \in Nat /\ b.leaseVersion + 1 \in Nat
    BY <1>1, TimeAssumption
  <1>3. "running" \in JobStatus /\ "" \in ReasonCodes
    BY DEF JobStatus, ActiveStatus, ReasonCodes
  <1>4. /\ c \in Job /\ c.leaseVersion = b.leaseVersion + 1
        /\ c.status = "running"
    BY <1>1, <1>2, <1>3 DEF Claimed, Job
  <1>5. PhaseOf(b) = "open" /\ PhaseOf(c) = "open"
    BY <1>4, PhaseFacts DEF ActiveStatus
  <1>6. b.leaseVersion <= b.leaseVersion + 1
    BY <1>1
  <1> QED BY <1>1, <1>4, <1>5, <1>6 DEF RowStep

LEMMA ClaimGenerationStep ==
    ASSUME Inv, NEW w \in Workers, ClaimGeneration(w)
    PROVE  Inv' /\ PromiseStep
  <1> USE InvFacts
  <1>1. PICK j \in Jobs, t \in Recent :
          /\ Claimable(j, t)
          /\ IF now >= job[j].expiresAt
             THEN SetJob(j, skipExpiredGenerationJob(job[j])) /\ Leave(w)
             ELSE IF Unlinked(j)
             THEN SetJob(j, cancelRemovedJob(job[j])) /\ Leave(w)
             ELSE /\ job[j].leaseVersion < MaxLeaseVersion
                  /\ SetJob(j, Claimed(job[j]))
                  /\ worker' = [worker EXCEPT ![w] = [IdleWorker EXCEPT
                         !.pc = "prior", !.job = j,
                         !.version = Claimed(job[j]).leaseVersion,
                         !.availableAt = job[j].availableAt]]
    BY DEF ClaimGeneration
  <1>2. /\ attempts' = attempts /\ content' = content /\ now' = now
        /\ UNCHANGED settings /\ content' \in [Jobs -> Nat]
    BY DEF ClaimGeneration, TypeOK
  <1>3. AttemptStep
    BY <1>2, SameAttempts
  <1>4. job[j] \in Job /\ job[j].status \in ActiveStatus
    BY <1>1 DEF Claimable, ActiveStatus
  <1>5. CASE SetJob(j, skipExpiredGenerationJob(job[j])) /\ Leave(w)
    <2>1. JobStep
      BY <1>2, <1>4, <1>5, CleanupRow, SetJobStep
    <2> QED BY <1>2, <1>3, <1>5, <2>1, LeaveStep, WorkerActs
  <1>6. CASE SetJob(j, cancelRemovedJob(job[j])) /\ Leave(w)
    <2>1. JobStep
      BY <1>2, <1>4, <1>6, CleanupRow, SetJobStep
    <2> QED BY <1>2, <1>3, <1>6, <2>1, LeaveStep, WorkerActs
  <1>7. CASE /\ SetJob(j, Claimed(job[j]))
             /\ worker' = [worker EXCEPT ![w] = [IdleWorker EXCEPT
                         !.pc = "prior", !.job = j,
                         !.version = Claimed(job[j]).leaseVersion,
                         !.availableAt = job[j].availableAt]]
    <2> DEFINE c == Claimed(job[j])
               k == [IdleWorker EXCEPT !.pc = "prior", !.job = j,
                         !.version = c.leaseVersion,
                         !.availableAt = job[j].availableAt]
    <2>1. JobStep
      BY <1>2, <1>4, <1>7, ClaimedRow, SetJobStep
    <2>2. /\ c.leaseVersion = job[j].leaseVersion + 1
          /\ job[j].leaseVersion \in Nat /\ job'[j] = c
      BY <1>4, <1>7, ClaimedRow DEF SetJob, TypeOK
    <2>3. /\ k \in WorkerState /\ k.pc = "prior" /\ k.job = j
          /\ k.version = c.leaseVersion /\ k.attempt = 0
      <3>1. "prior" \in PC /\ j \in Jobs \cup {NoJob} /\ c.leaseVersion \in Nat
            /\ job[j].availableAt \in Nat
        BY <2>2, <1>4 DEF PC, Job
      <3> HIDE DEF c
      <3> QED BY <3>1, IdleType, IdleFields DEF WorkerState
    <2>4. /\ worker' \in [Workers -> WorkerState] /\ worker'[w] = k
          /\ \A v \in Workers \ {w} : worker'[v] = worker[v]
      BY <1>7, <2>3 DEF TypeOK
    <2> HIDE DEF k, c
    <2>5. TypeOK'
      BY <1>2, <1>3, <2>1, <2>4
         DEF TypeOK, JobStep, AttemptStep, settings
    <2>6. c.leaseVersion <= job'[j].leaseVersion
      BY <2>2
    <2>7. WorkerConsistent(w)'
      BY <2>3, <2>4, <2>6 DEF WorkerConsistent, FinishPC
    <2>8. WorkersConsistent'
      BY <1>3, <2>1, <2>4, <2>7, UntouchedWorker DEF WorkersConsistent
    <2>9. ASSUME NEW v \in Workers, v # w, worker[v].job = j
          PROVE  worker[v].version # k.version
      <3>1. worker[v].version <= job[j].leaseVersion
        BY <2>9, SetsAssumption DEF WorkersConsistent, WorkerConsistent
      <3>2. worker[v].version \in Nat
        BY DEF TypeOK, WorkerState
      <3> QED BY <2>2, <2>3, <3>1, <3>2
    <2>10. SoleLeaseHolder'
      BY <2>3, <2>4, <2>9 DEF SoleLeaseHolder
    <2>11. AbsentUnclaimed'
      BY <2>1 DEF AbsentUnclaimed, JobStep, LeasesGrow
    <2> QED BY <2>1, <2>5, <2>8, <2>10, <2>11 DEF Inv, JobStep
  <1> QED BY <1>1, <1>5, <1>6, <1>7

\* Actions that leave the tables alone and end the worker's claim, or not.
LEMMA ReadPriorStep ==
    ASSUME Inv, NEW w \in Workers, ReadPrior(w)
    PROVE  Inv' /\ PromiseStep
  <1> USE InvFacts
  <1> DEFINE j == worker[w].job
  <1>1. /\ worker[w].pc = "prior" /\ job' = job /\ attempts' = attempts
        /\ content' = content /\ now' = now /\ UNCHANGED settings
        /\ content' \in [Jobs -> Nat]
    BY DEF ReadPrior, TypeOK
  <1>2. JobStep /\ AttemptStep
    BY <1>1, SameJobs, SameAttempts
  <1>3. worker[w] \in WorkerState /\ j \in Jobs
    BY <1>1, <1>2, Named
  <1>4. CASE Leave(w)
    BY <1>1, <1>2, <1>4, LeaveStep, WorkerActs
  <1>5. CASE Goto(w, "context")
    <2>1. OwnStep(w)
      BY <1>1, <1>2, <1>5, GotoStep DEF PC, FinishPC
    <2> QED BY <1>1, <1>2, <2>1, WorkerActs
  <1>6. CASE /\ attempts[j] # <<>>
             /\ worker' = [worker EXCEPT ![w].pc = "ackprior",
                                         ![w].durable = Len(attempts[j])]
    <2> DEFINE k == [worker[w] EXCEPT !.pc = "ackprior",
                                      !.durable = Len(attempts[j])]
    <2>1. Len(attempts[j]) \in DOMAIN attempts[j] /\ Len(attempts[j]) \in Nat
      BY <1>3, <1>6, LastIsAttempt DEF TypeOK
    <2>2. /\ k \in WorkerState /\ k.pc = "ackprior" /\ k.job = j
          /\ k.version = worker[w].version /\ k.durable = Len(attempts[j])
          /\ k.attempt = worker[w].attempt
      BY <1>3, <2>1 DEF WorkerState, PC
    <2>3. worker' = [worker EXCEPT ![w] = k]
      BY <1>6
    <2> HIDE DEF k
    <2>4. OwnStep(w)
      BY <1>1, <1>2, <2>1, <2>2, <2>3, Named, MoveStep DEF FinishPC
    <2> QED BY <1>1, <1>2, <2>4, WorkerActs
  <1> QED BY <1>4, <1>5, <1>6 DEF ReadPrior

LEMMA GenerationContextStep ==
    ASSUME Inv, NEW w \in Workers, GenerationContext(w)
    PROVE  Inv' /\ PromiseStep
  <1> USE InvFacts
  <1>1. /\ worker[w].pc = "context" /\ job' = job /\ attempts' = attempts
        /\ content' = content /\ now' = now /\ UNCHANGED settings
        /\ content' \in [Jobs -> Nat]
    BY DEF GenerationContext, TypeOK
  <1>2. JobStep /\ AttemptStep
    BY <1>1, SameJobs, SameAttempts
  <1>3. CASE Leave(w)
    BY <1>1, <1>2, <1>3, LeaveStep, WorkerActs
  <1>4. CASE Goto(w, "reserve")
    <2>1. OwnStep(w)
      BY <1>1, <1>2, <1>4, GotoStep DEF PC, FinishPC
    <2> QED BY <1>1, <1>2, <2>1, WorkerActs
  <1>5. CASE \/ Deny(w, "source_removed") \/ Deny(w, "context_rejected")
    <2>1. OwnStep(w)
      BY <1>1, <1>2, <1>5, DenyStep, DenialDomain
    <2> QED BY <1>1, <1>2, <2>1, WorkerActs
  <1> QED BY <1>3, <1>4, <1>5 DEF GenerationContext

\* RenewalFails, Shutdown and Abandon only divert the worker.
LEMMA DivertStep ==
    ASSUME Inv, NEW w \in Workers,
           RenewalFails(w) \/ Shutdown(w) \/ Abandon(w)
    PROVE  Inv' /\ PromiseStep
  <1> USE InvFacts
  <1>1. /\ worker[w].pc # "idle" /\ job' = job /\ attempts' = attempts
        /\ content' = content /\ now' = now /\ UNCHANGED settings
        /\ content' \in [Jobs -> Nat]
    BY DEF RenewalFails, Shutdown, Abandon, TypeOK, FinishPC
  <1>2. JobStep /\ AttemptStep
    BY <1>1, SameJobs, SameAttempts
  <1>3. CASE Abandon(w)
    BY <1>1, <1>2, <1>3, LeaveStep, WorkerActs DEF Abandon
  <1>4. CASE RenewalFails(w)
    <2>1. OwnStep(w)
      BY <1>1, <1>2, <1>4, Named, InterruptStep DEF RenewalFails
    <2> QED BY <1>1, <1>2, <2>1, WorkerActs
  <1>5. CASE Shutdown(w)
    <2>1. OwnStep(w)
      BY <1>1, <1>2, <1>5, Named, InterruptStep DEF Shutdown
    <2> QED BY <1>1, <1>2, <2>1, WorkerActs
  <1> QED BY <1>3, <1>4, <1>5

\* CompleteGeneration keeps, closes or postpones the row, and postpones it
\* only on the strength of an attempt.
LEMMA CompletionRow ==
    ASSUME Inv, NEW j \in Jobs, NEW v, NEW n, NEW jitter \in 0 .. MaxRetryJitter
    PROVE  /\ RowStep(job[j], Completion(j, v, n, jitter).row)
           /\ /\ Completion(j, v, n, jitter).row.status = "retry_wait"
              /\ job[j].status = "running"
              => attempts[j] # <<>>
  <1> USE InvFacts
  <1> DEFINE b == job[j]
             h == attempts[j]
             a == LastAttempt(j)
             next == RetryInstant(now, Len(h), a.notBefore, jitter)
             row == Completion(j, v, n, jitter).row
             failure == IF a.errorCode = "lease_lost" THEN "provider_timeout"
                                                      ELSE a.errorCode
  <1>1. b \in Job
    OBVIOUS
  <1>2. CASE \/ h = <<>> \/ Len(h) > MaxGenerationAttempts
             \/ b.leaseVersion # v \/ n # Len(h)
             \/ a.leaseVersion > v \/ a.status = "reserved"
    <2>1. row = b
      BY <1>2 DEF Completion
    <2> QED BY <1>1, <1>2, <2>1, KeepRow DEF Completion
  <1>3. CASE ~(\/ h = <<>> \/ Len(h) > MaxGenerationAttempts
               \/ b.leaseVersion # v \/ n # Len(h)
               \/ a.leaseVersion > v \/ a.status = "reserved")
    <2>1. CASE b.status # "running"
      <3>1. row = b
        BY <1>3, <2>1 DEF Completion
      <3> QED BY <1>1, <1>3, <3>1, KeepRow
    <2>2. CASE b.status = "running"
      <3>1. b.status \in ActiveStatus
        BY <2>2 DEF ActiveStatus
      <3>2. a \in Attempt /\ Len(h) \in 1 .. MaxGenerationAttempts
        BY <1>3, LastIsAttempt, AttemptLimitAssumption DEF TypeOK
      <3>3. next \in Nat
        <4>1. a.notBefore \in Nat
          BY <3>2 DEF Attempt
        <4>2. RetryBackoff[Len(h)] \in Nat
          BY <3>2, BackoffAssumption
        <4>3. jitter \in Nat
          BY BackoffAssumption
        <4> HIDE DEF a
        <4> QED BY <4>1, <4>2, <4>3 DEF RetryInstant
      <3>4. a.errorCode \in ReasonCodes
        BY <3>2 DEF Attempt, ReasonCodes
      <3>5. FailureStatus(failure) \in {"cancelled", "skipped", "failed"}
        BY DEF FailureStatus
      <3>6. {"skip_reason", "outcome_unavailable"} \subseteq ReasonCodes
        BY DenialDomain DEF ReasonCodes
      <3>7. \/ row = b
            \/ row = skipExpiredGenerationJob(b)
            \/ row = cancelRemovedJob(b)
            \/ row = finishExecutionJob(b, "skipped", "skip_reason", next)
            \/ row = finishExecutionJob(b, "failed", "outcome_unavailable", next)
            \/ row = finishExecutionJob(b, "retry_wait", a.errorCode, next)
            \/ row = finishExecutionJob(b, FailureStatus(failure), a.errorCode,
                                        next)
        BY <1>3, <2>2 DEF Completion
      <3> HIDE DEF row, next, a, failure, b
      <3>8. RowStep(b, row)
        BY <1>1, <3>1, <3>3, <3>4, <3>5, <3>6, <3>7,
           KeepRow, CleanupRow, FinishRow
      <3> QED BY <3>8, <1>3 DEF row, b
    <2> QED BY <2>1, <2>2
  <1> QED BY <1>2, <1>3

\* The commit of a completion.
LEMMA CompleteStep ==
    ASSUME Inv, NEW j \in Jobs, NEW v, NEW n,
           NEW jitter \in 0 .. MaxRetryJitter,
           Complete(j, Completion(j, v, n, jitter)), content' = content
    PROVE  JobStep /\ AttemptStep
  <1> USE InvFacts
  <1> DEFINE row == Completion(j, v, n, jitter).row
             m == Len(attempts[j])
             a == [attempts[j][m] EXCEPT !.acknowledged = "worker"]
  <1>1. JobStep
    BY CompletionRow, SetJobStep DEF Complete
  <1>2. CASE row.status = "retry_wait" /\ job[j].status = "running"
    <2>1. attempts[j] # <<>>
      BY <1>2, CompletionRow
    <2>2. m \in DOMAIN attempts[j] /\ attempts[j][m] \in Attempt
      BY <2>1, LastIsAttempt
    <2>3. a \in Attempt
      BY <2>2 DEF Attempt
    <2>4. attempts' = [attempts EXCEPT ![j][m] = a]
      BY <1>2 DEF Complete
    <2> HIDE DEF a, m
    <2> QED BY <1>1, <2>2, <2>3, <2>4, SetAttempt
  <1>3. CASE ~(row.status = "retry_wait" /\ job[j].status = "running")
    <2>1. attempts' = attempts
      BY <1>3 DEF Complete
    <2> QED BY <1>1, <2>1, SameAttempts
  <1> QED BY <1>2, <1>3

LEMMA AcknowledgePriorStep ==
    ASSUME Inv, NEW w \in Workers, AcknowledgePrior(w)
    PROVE  Inv' /\ PromiseStep
  <1> USE InvFacts
  <1> DEFINE j == worker[w].job
  <1>1. /\ worker[w].pc = "ackprior" /\ worker[w].pc # "idle"
        /\ content' = content /\ now' = now /\ UNCHANGED settings
        /\ content' \in [Jobs -> Nat]
    BY DEF AcknowledgePrior, TypeOK
  <1>2. j \in Jobs
    BY <1>1 DEF WorkersConsistent, WorkerConsistent
  <1>3. PICK jitter \in 0 .. MaxRetryJitter :
           /\ Complete(j, Completion(j, worker[w].version, worker[w].durable,
                                     jitter))
           /\ Leave(w) \/ Deny(w, "outcome_unavailable")
    BY DEF AcknowledgePrior
  <1>4. JobStep /\ AttemptStep
    BY <1>1, <1>2, <1>3, CompleteStep
  <1>5. OwnStep(w)
    BY <1>1, <1>3, <1>4, LeaveStep, DenyStep, DenialDomain
  <1> QED BY <1>1, <1>4, <1>5, WorkerActs

LEMMA LeaveFinishStep ==
    ASSUME Inv, NEW w \in Workers, worker[w].pc # "idle",
           worker[w].attempt # 0, JobStep, AttemptStep, LeaveFinish(w)
    PROVE  OwnStep(w)
  BY InvFacts, LeaveStep, InterruptStep DEF LeaveFinish

LEMMA CompleteGenerationStep ==
    ASSUME Inv, NEW w \in Workers, CompleteGeneration(w)
    PROVE  Inv' /\ PromiseStep
  <1> USE InvFacts
  <1> DEFINE j == worker[w].job
  <1>1. /\ worker[w].pc = "complete" /\ worker[w].pc # "idle"
        /\ content' = content /\ now' = now /\ UNCHANGED settings
        /\ content' \in [Jobs -> Nat]
    BY DEF CompleteGeneration, TypeOK
  <1>2. j \in Jobs /\ worker[w].attempt # 0
    BY <1>1 DEF WorkersConsistent, WorkerConsistent, FinishPC
  <1>3. PICK jitter \in 0 .. MaxRetryJitter :
           /\ Complete(j, Completion(j, worker[w].version, worker[w].durable,
                                     jitter))
           /\ \/ LeaveFinish(w) \/ Goto(w, "publish")
              \/ Deny(w, "outcome_unavailable")
    BY DEF CompleteGeneration
  <1>4. JobStep /\ AttemptStep
    BY <1>1, <1>2, <1>3, CompleteStep
  <1>5. CASE Goto(w, "publish")
    <2>1. OwnStep(w)
      BY <1>1, <1>4, <1>5, GotoStep DEF PC, FinishPC
    <2> QED BY <1>1, <1>4, <2>1, WorkerActs
  <1>6. CASE LeaveFinish(w) \/ Deny(w, "outcome_unavailable")
    <2>1. OwnStep(w)
      BY <1>1, <1>2, <1>4, <1>6, LeaveFinishStep, DenyStep, DenialDomain
    <2> QED BY <1>1, <1>4, <2>1, WorkerActs
  <1> QED BY <1>3, <1>5, <1>6

\* A reservation is an attempt, and appending it keeps the others in place.
LEMMA ReservationStep ==
    ASSUME Inv, NEW j \in Jobs, NEW v \in Nat,
           attempts' = [attempts EXCEPT ![j] = Append(@, Reservation(j, v))]
    PROVE  /\ AttemptStep
           /\ Len(attempts[j]) + 1 \in DOMAIN attempts'[j]
           /\ Len(attempts[j]) + 1 \in Nat
  <1> USE InvFacts
  <1> DEFINE r == Reservation(j, v)
  <1>1. r \in Attempt
    <2>1. pauseRevision[AgentOf[j]] \in Nat
      BY SetsAssumption DEF TypeOK
    <2> QED BY <2>1 DEF Reservation, Attempt, AttemptStatus
  <1> HIDE DEF r
  <1>2. attempts[j] \in Seq(Attempt)
    BY DEF TypeOK
  <1>3. /\ Append(attempts[j], r) \in Seq(Attempt)
        /\ DOMAIN Append(attempts[j], r) = 1 .. Len(attempts[j]) + 1
        /\ DOMAIN attempts[j] = 1 .. Len(attempts[j])
        /\ Len(attempts[j]) \in Nat
    BY <1>1, <1>2
  <1>4. attempts' = [attempts EXCEPT ![j] = Append(attempts[j], r)]
    BY DEF r
  <1>5. attempts' \in [Jobs -> Seq(Attempt)] /\ attempts'[j] = Append(attempts[j], r)
    BY <1>3, <1>4 DEF TypeOK
  <1>6. DOMAIN attempts[j] \subseteq DOMAIN attempts'[j]
    BY <1>3, <1>5
  <1>7. \A i \in Jobs \ {j} : attempts'[i] = attempts[i]
    BY <1>4 DEF TypeOK
  <1> QED BY <1>3, <1>5, <1>6, <1>7 DEF AttemptStep

LEMMA ReserveGenerationStep ==
    ASSUME Inv, NEW w \in Workers, ReserveGeneration(w)
    PROVE  Inv' /\ PromiseStep
  <1> USE InvFacts
  <1> DEFINE j == worker[w].job
             v == worker[w].version
             n == Len(attempts[j]) + 1
  <1>1. /\ worker[w].pc = "reserve" /\ worker[w].pc # "idle"
        /\ content' = content /\ now' = now /\ UNCHANGED settings
        /\ content' \in [Jobs -> Nat]
    BY DEF ReserveGeneration, TypeOK
  <1>2. /\ j \in Jobs /\ worker[w] \in WorkerState /\ v \in Nat
        /\ job[j] \in Job
    BY <1>1 DEF WorkersConsistent, WorkerConsistent, TypeOK, WorkerState
  <1>3. PICK policy \in BOOLEAN :
          LET verdict == Admission(j, v, policy) IN
          IF verdict = "admitted"
          THEN /\ attempts' = [attempts EXCEPT ![j] = Append(@, Reservation(j, v))]
               /\ worker' = [worker EXCEPT ![w].pc = "ready", ![w].attempt = n]
               /\ UNCHANGED job
          ELSE /\ SetJob(j, IF verdict = "stale_trigger"
                            THEN skipExpiredGenerationJob(job[j])
                            ELSE IF verdict \in DOMAIN AdmissionStatus
                            THEN finishExecutionJob(job[j],
                                    AdmissionStatus[verdict], verdict, now)
                            ELSE job[j])
               /\ Leave(w)
               /\ UNCHANGED attempts
    BY DEF ReserveGeneration
  <1> DEFINE verdict == Admission(j, v, policy)
  <1>4. CASE verdict = "admitted"
    <2> DEFINE k == [worker[w] EXCEPT !.pc = "ready", !.attempt = n]
    <2>1. AttemptStep /\ n \in DOMAIN attempts'[j] /\ n \in Nat
      BY <1>2, <1>3, <1>4, ReservationStep
    <2>2. JobStep
      BY <1>1, <1>3, <1>4, SameJobs
    <2>3. n # 0
      BY <1>2 DEF TypeOK
    <2> HIDE DEF n
    <2>4. /\ k \in WorkerState /\ k.pc = "ready" /\ k.job = j
          /\ k.version = v /\ k.attempt = n
      BY <1>2, <2>1 DEF WorkerState, PC
    <2>5. worker' = [worker EXCEPT ![w] = k]
      BY <1>3, <1>4
    <2> HIDE DEF k
    <2>6. OwnStep(w)
      BY <1>1, <2>1, <2>2, <2>3, <2>4, <2>5, MoveStep
    <2> QED BY <1>1, <2>1, <2>2, <2>6, WorkerActs
  <1>5. CASE verdict # "admitted"
    <2>1. AttemptStep
      BY <1>3, <1>5, SameAttempts
    <2>2. CASE verdict = "stale_trigger"
      <3>1. job[j].status \in ActiveStatus
        BY <2>2 DEF Admission, ActiveStatus
      <3>2. JobStep
        BY <1>1, <1>2, <1>3, <2>2, <3>1, CleanupRow, SetJobStep
      <3> QED BY <1>1, <1>3, <1>5, <2>1, <3>2, LeaveStep, WorkerActs
    <2>3. CASE verdict # "stale_trigger" /\ verdict \in DOMAIN AdmissionStatus
      <3>1. job[j].status \in ActiveStatus
        BY <2>3, AdmissionDomain DEF Admission, ActiveStatus
      <3>2. RowStep(job[j], finishExecutionJob(job[j],
                                AdmissionStatus[verdict], verdict, now))
        <4> HIDE DEF verdict
        <4> QED BY <1>2, <2>3, <3>1, AdmissionType, FinishRow
      <3>3. JobStep
        BY <1>1, <1>2, <1>3, <1>5, <2>3, <3>2, SetJobStep
      <3> QED BY <1>1, <1>3, <1>5, <2>1, <3>3, LeaveStep, WorkerActs
    <2>4. CASE verdict # "stale_trigger" /\ verdict \notin DOMAIN AdmissionStatus
      <3>1. JobStep
        BY <1>1, <1>2, <1>3, <1>5, <2>4, KeepRow, SetJobStep
      <3> QED BY <1>1, <1>3, <1>5, <2>1, <3>1, LeaveStep, WorkerActs
    <2> QED BY <2>2, <2>3, <2>4
  <1> QED BY <1>4, <1>5

LEMMA StartCallStep ==
    ASSUME Inv, NEW w \in Workers, StartCall(w)
    PROVE  Inv' /\ PromiseStep
  <1> USE InvFacts
  <1> DEFINE j == worker[w].job
             n == worker[w].attempt
             a == [attempts[j][n] EXCEPT !.calls = @ + 1]
  <1>1. /\ worker[w].pc = "ready" /\ worker[w].pc # "idle"
        /\ content' = content /\ now' = now /\ UNCHANGED settings
        /\ content' \in [Jobs -> Nat] /\ job' = job
        /\ attempts' = [attempts EXCEPT ![j][n].calls = @ + 1]
        /\ Goto(w, "calling")
    BY DEF StartCall, TypeOK
  <1>2. j \in Jobs /\ n \in DOMAIN attempts[j]
    BY <1>1 DEF WorkersConsistent, WorkerConsistent
  <1>3. attempts[j][n] \in Attempt
    BY <1>2, AttemptAt
  <1>4. a \in Attempt
    <2>1. attempts[j][n].calls \in Nat
      BY <1>3 DEF Attempt
    <2>2. attempts[j][n].calls + 1 \in Nat
      BY <2>1
    <2> QED BY <1>3, <2>2 DEF Attempt
  <1>5. attempts' = [attempts EXCEPT ![j][n] = a]
    BY <1>1
  <1> HIDE DEF a
  <1>6. AttemptStep
    BY <1>2, <1>4, <1>5, SetAttempt
  <1>7. JobStep
    BY <1>1, SameJobs
  <1>8. OwnStep(w)
    BY <1>1, <1>6, <1>7, GotoStep DEF PC, FinishPC
  <1> QED BY <1>1, <1>6, <1>7, <1>8, WorkerActs

LEMMA RenewGenerationStep ==
    ASSUME Inv, NEW w \in Workers, RenewGeneration(w)
    PROVE  Inv' /\ PromiseStep
  <1> USE InvFacts
  <1> DEFINE j == worker[w].job
  <1>1. /\ worker[w].pc = "calling" /\ attempts' = attempts
        /\ content' = content /\ now' = now /\ UNCHANGED settings
        /\ worker' = worker
    BY DEF RenewGeneration
  <1>2. j \in Jobs /\ job[j] \in Job
    BY <1>1 DEF WorkersConsistent, WorkerConsistent
  <1>3. PICK t \in Recent :
          /\ ValidateLease(job[j], worker[w].version, t)
          /\ SetJob(j, [job[j] EXCEPT !.leaseExpiresAt = t + LeaseDuration])
    BY DEF RenewGeneration
  <1> DEFINE c == [job[j] EXCEPT !.leaseExpiresAt = t + LeaseDuration]
  <1>4. t + LeaseDuration \in Nat
    BY TimeAssumption DEF Recent
  <1>5. /\ c \in Job /\ c.leaseVersion = job[j].leaseVersion
        /\ c.status = job[j].status /\ job[j].leaseVersion <= job[j].leaseVersion
    BY <1>2, <1>4 DEF Job
  <1>6. RowStep(job[j], c)
    BY <1>3, <1>5 DEF RowStep, PhaseOf, ValidateLease
  <1> HIDE DEF c
  <1>7. JobStep
    BY <1>1, <1>2, <1>3, <1>6, SetJobStep DEF c
  <1>8. AttemptStep
    BY <1>1, SameAttempts
  <1> QED BY <1>1, <1>7, <1>8, OthersAct DEF settings, TypeOK

LEMMA ProviderReturnsStep ==
    ASSUME Inv, NEW w \in Workers, ProviderReturns(w)
    PROVE  Inv' /\ PromiseStep
  <1> USE InvFacts
  <1>1. /\ worker[w].pc = "calling" /\ job' = job /\ attempts' = attempts
        /\ content' = content /\ now' = now /\ UNCHANGED settings
        /\ content' \in [Jobs -> Nat] /\ worker[w].pc # "idle"
    BY DEF ProviderReturns, TypeOK
  <1>2. JobStep /\ AttemptStep
    BY <1>1, SameJobs, SameAttempts
  <1>3. PICK o \in Outcomes, hint \in RetryHints :
          worker' = [worker EXCEPT ![w].pc = "settle", ![w].outcome =
             [result |-> o.result, tokens |-> o.tokens,
              notBefore |-> IF hint = 0 \/ o.result \notin GenerationFailure
                            THEN 0 ELSE now + hint]]
    BY DEF ProviderReturns
  <1> DEFINE seen == [result |-> o.result, tokens |-> o.tokens,
                notBefore |-> IF hint = 0 \/ o.result \notin GenerationFailure
                              THEN 0 ELSE now + hint]
             k == [worker[w] EXCEPT !.pc = "settle", !.outcome = seen]
  <1>4. /\ o.result \in {"publish", "skip"} \cup GenerationFailure
        /\ o.tokens \in Nat /\ hint \in Nat
    BY ProviderAssumption, TimeAssumption DEF Outcome
  <1>5. seen \in Observation /\ seen.result # "none"
    <2>1. (IF hint = 0 \/ o.result \notin GenerationFailure
           THEN 0 ELSE now + hint) \in Nat
      BY <1>4
    <2> QED BY <1>4, <2>1 DEF Observation, GenerationFailure
  <1> HIDE DEF seen
  <1>6. worker[w] \in WorkerState
    BY DEF TypeOK
  <1>7. /\ k \in WorkerState /\ k.pc = "settle" /\ k.outcome = seen
        /\ k.job = worker[w].job /\ k.version = worker[w].version
        /\ k.attempt = worker[w].attempt
    BY <1>5, <1>6 DEF WorkerState, PC
  <1>8. worker' = [worker EXCEPT ![w] = k]
    BY <1>3 DEF seen
  <1> HIDE DEF k
  <1>9. k.attempt # 0 /\ k.attempt \in DOMAIN attempts'[k.job]
    BY <1>1, <1>2, <1>7, Named
  <1>10. OwnStep(w)
    BY <1>1, <1>2, <1>5, <1>7, <1>8, <1>9, MoveStep
  <1> QED BY <1>1, <1>2, <1>10, WorkerActs

\* Settling turns an attempt and any observation into an attempt.
LEMMA SettledType ==
    ASSUME NEW a \in Attempt, NEW o \in Observation, o.result # "none",
           now \in Nat
    PROVE  Settled(a, o) \in Attempt
  <1> DEFINE c == ClassifiedOutcome(o)
  <1>1. /\ c.result \in {"publish", "skip"} \cup GenerationFailure
        /\ c.tokens \in Nat /\ c.notBefore \in Nat
    BY DEF ClassifiedOutcome, Observation, GenerationFailure
  <1> HIDE DEF c
  <1> DEFINE st == IF c.result \in {"publish", "skip"} THEN "succeeded"
                   ELSE IF c.result \in {"provider_timeout",
                                         "execution_cancelled"}
                   THEN "unknown" ELSE "failed"
             de == IF c.result \in {"publish", "skip"} THEN c.result ELSE ""
             er == IF c.result \in {"publish", "skip"} THEN "" ELSE c.result
  <1>2. /\ st \in AttemptStatus /\ de \in {"", "publish", "skip"}
        /\ er \in {"", "lease_lost"} \cup GenerationFailure
    BY <1>1 DEF AttemptStatus
  <1>3. Settled(a, o) = [a EXCEPT !.status = st, !.decision = de,
            !.errorCode = er, !.notBefore = c.notBefore, !.tokens = c.tokens,
            !.finishedAt = now]
    BY DEF Settled, c
  <1> HIDE DEF st, de, er
  <1> QED BY <1>1, <1>2, <1>3 DEF Attempt

LEMMA SettlementStep ==
    ASSUME Inv, NEW j \in Jobs, NEW n \in DOMAIN attempts[j],
           NEW o \in Observation, o.result # "none",
           attempts' = Settlement(j, n, o)
    PROVE  AttemptStep
  <1> USE InvFacts
  <1>1. Settled(attempts[j][n], o) \in Attempt
    BY AttemptAt, SettledType
  <1>2. CASE attempts[j][n].status = "reserved"
    <2>1. attempts' = [attempts EXCEPT ![j][n] = Settled(attempts[j][n], o)]
      BY <1>2 DEF Settlement
    <2> QED BY <1>1, <2>1, SetAttempt
  <1>3. CASE attempts[j][n].status # "reserved"
    <2>1. attempts' = attempts
      BY <1>3 DEF Settlement
    <2> QED BY <2>1, SameAttempts
  <1> QED BY <1>2, <1>3

LEMMA SettleGenerationStep ==
    ASSUME Inv, NEW w \in Workers, SettleGeneration(w)
    PROVE  Inv' /\ PromiseStep
  <1> USE InvFacts
  <1> DEFINE j == worker[w].job
             n == worker[w].attempt
             o == worker[w].outcome
  <1>1. /\ worker[w].pc = "settle" /\ job' = job
        /\ attempts' = Settlement(j, n, o)
        /\ content' = content /\ now' = now /\ UNCHANGED settings
        /\ content' \in [Jobs -> Nat] /\ worker[w].pc # "idle"
    BY DEF SettleGeneration, TypeOK
  <1>2. /\ worker[w] \in WorkerState /\ o \in Observation /\ o.result # "none"
        /\ j \in Jobs /\ n \in DOMAIN attempts[j] /\ n # 0
    BY <1>1 DEF TypeOK, WorkerState, WorkersConsistent, WorkerConsistent,
                FinishPC
  <1>3. AttemptStep
    BY <1>1, <1>2, SettlementStep
  <1>4. JobStep
    BY <1>1, SameJobs
  <1>5. PICK accepted \in BOOLEAN :
           worker' = [worker EXCEPT ![w].pc = "latest", ![w].accepted = accepted]
    <2> DEFINE x == \/ attempts[j][n].status = "reserved"
                    \/ SameSettlement(attempts[j][n], Settled(attempts[j][n], o))
    <2>1. x \in BOOLEAN
      BY DEF SameSettlement
    <2>2. worker' = [worker EXCEPT ![w].pc = "latest", ![w].accepted = x]
      BY DEF SettleGeneration
    <2> HIDE DEF x
    <2> QED BY <2>1, <2>2
  <1> DEFINE k == [worker[w] EXCEPT !.pc = "latest", !.accepted = accepted]
  <1>6. /\ k \in WorkerState /\ k.pc = "latest"
        /\ k.job = j /\ k.version = worker[w].version /\ k.attempt = n
    BY <1>2 DEF WorkerState, PC
  <1>7. worker' = [worker EXCEPT ![w] = k]
    BY <1>5
  <1> HIDE DEF k
  <1>8. OwnStep(w)
    BY <1>1, <1>2, <1>3, <1>4, <1>6, <1>7, Named, MoveStep
  <1> QED BY <1>1, <1>3, <1>4, <1>8, WorkerActs

LEMMA SettleCancelledStep ==
    ASSUME Inv, NEW w \in Workers, SettleCancelled(w)
    PROVE  Inv' /\ PromiseStep
  <1> USE InvFacts
  <1> DEFINE j == worker[w].job
             n == worker[w].attempt
             o == [NoOutcome EXCEPT !.result = "execution_cancelled"]
  <1>1. /\ worker[w].pc = "cancelled" /\ job' = job
        /\ attempts' = Settlement(j, n, o)
        /\ content' = content /\ now' = now /\ UNCHANGED settings
        /\ content' \in [Jobs -> Nat] /\ worker[w].pc # "idle"
        /\ Leave(w) \/ Deny(w, "execution_cancelled")
    BY DEF SettleCancelled, TypeOK
  <1>2. o \in Observation /\ o.result # "none"
    BY DEF Observation, NoOutcome, GenerationFailure
  <1>3. j \in Jobs /\ n \in DOMAIN attempts[j]
    BY <1>1 DEF WorkersConsistent, WorkerConsistent
  <1> HIDE DEF o
  <1>4. AttemptStep
    BY <1>1, <1>2, <1>3, SettlementStep
  <1>5. JobStep
    BY <1>1, SameJobs
  <1>6. OwnStep(w)
    BY <1>1, <1>4, <1>5, LeaveStep, DenyStep, DenialDomain
  <1> QED BY <1>1, <1>4, <1>5, <1>6, WorkerActs

LEMMA ReadLatestStep ==
    ASSUME Inv, NEW w \in Workers, ReadLatest(w)
    PROVE  Inv' /\ PromiseStep
  <1> USE InvFacts
  <1> DEFINE j == worker[w].job
             n == Len(attempts[j])
             k == [worker[w] EXCEPT !.pc = "complete", !.durable = n]
  <1>1. /\ worker[w].pc = "latest" /\ job' = job /\ attempts' = attempts
        /\ content' = content /\ now' = now /\ UNCHANGED settings
        /\ content' \in [Jobs -> Nat] /\ worker[w].pc # "idle"
        /\ worker' = [worker EXCEPT ![w].pc = "complete", ![w].durable = n]
    BY DEF ReadLatest, TypeOK
  <1>2. JobStep /\ AttemptStep
    BY <1>1, SameJobs, SameAttempts
  <1>3. /\ worker[w] \in WorkerState /\ j \in Jobs
        /\ worker[w].attempt # 0 /\ worker[w].attempt \in DOMAIN attempts'[j]
        /\ worker[w].attempt \in DOMAIN attempts[j]
    BY <1>1, <1>2, Named DEF FinishPC
  <1>4. n \in DOMAIN attempts[j] /\ n \in Nat
    BY <1>3, LastIsAttempt DEF TypeOK
  <1> HIDE DEF n
  <1>5. /\ k \in WorkerState /\ k.pc = "complete" /\ k.job = j
        /\ k.version = worker[w].version /\ k.attempt = worker[w].attempt
        /\ k.durable = n
    BY <1>3, <1>4 DEF WorkerState, PC
  <1>6. worker' = [worker EXCEPT ![w] = k]
    BY <1>1
  <1> HIDE DEF k
  <1>7. OwnStep(w)
    BY <1>1, <1>2, <1>3, <1>4, <1>5, <1>6, MoveStep
  <1> QED BY <1>1, <1>2, <1>7, WorkerActs

\* The transaction that publishes is a publication of the promise.
LEMMA PublishedStep ==
    ASSUME Inv, NEW j \in Jobs, job[j].status = "running", NEW n \in Nat,
           NEW children \in SUBSET Continuations(j),
           job' = [k \in Jobs |-> IF k = j THEN Published(job[j], n)
                                  ELSE IF k \in children THEN NewJob
                                  ELSE job[k]],
           content' = [content EXCEPT ![j] = @ + 1]
    PROVE  JobStep /\ content' \in [Jobs -> Nat]
  <1> USE InvFacts
  <1> DEFINE c == Published(job[j], n)
             phase == [i \in Jobs |-> PhaseOf(job[i])]
  <1>1. /\ c \in Job /\ c.leaseVersion = job[j].leaseVersion
        /\ c.status = "succeeded"
    BY DEF Published, Job, JobStatus, FinalStatus
  <1>2. /\ NewJob \in Job /\ NewJob.status = "pending"
        /\ NewJob.leaseVersion = 0
    <2>1. now + Lifetime \in Nat
      BY TimeAssumption
    <2>2. "pending" \in JobStatus /\ "" \in ReasonCodes
      BY DEF JobStatus, ActiveStatus, ReasonCodes
    <2> QED BY <2>1, <2>2 DEF NewJob, Job
  <1> HIDE DEF c
  <1>3. job' = [k \in Jobs |-> IF k = j THEN c
                               ELSE IF k \in children THEN NewJob ELSE job[k]]
    BY DEF c
  <1>4. job' \in [Jobs -> Job]
    BY <1>1, <1>2, <1>3 DEF TypeOK
  <1>5. \A k \in children : /\ k \in Jobs /\ ParentOf[k] = j
                            /\ job[k].status = "absent" /\ k # j
    BY DEF Continuations
  <1>6. LeasesGrow
    <2> SUFFICES ASSUME NEW i \in Jobs
                 PROVE  /\ job[i].leaseVersion <= job'[i].leaseVersion
                        /\ job'[i].status = "absent" => job'[i] = job[i]
      BY DEF LeasesGrow
    <2>1. job[i].leaseVersion \in Nat
      BY DEF Job
    <2>2. CASE i = j
      BY <1>1, <1>3, <2>1, <2>2
    <2>3. CASE i # j /\ i \notin children
      BY <1>3, <2>1, <2>3
    <2>4. CASE i \in children
      <3>1. job[i].leaseVersion = 0
        BY <1>5, <2>4 DEF AbsentUnclaimed
      <3> QED BY <1>2, <1>3, <1>5, <2>4, <3>1
    <2> QED BY <2>2, <2>3, <2>4
  <1>7. PhaseOf(c) = "published" /\ PhaseOf(NewJob) = "open"
        /\ PhaseOf(job[j]) = "open"
    BY <1>1, <1>2, PhaseFacts DEF ActiveStatus
  <1>8. \A k \in children : phase[k] = "absent"
    BY <1>5, PhaseFacts
  <1>9. phase' = [k \in Jobs |-> IF k = j THEN "published"
                                 ELSE IF k \in children THEN "open"
                                 ELSE phase[k]]
    BY <1>3, <1>7
  <1>10. phase[j] = "open"
    BY <1>7
  <1>11. children \in SUBSET {k \in Jobs : ParentOf[k] = j /\ phase[k] = "absent"}
    BY <1>5, <1>8
  <1> HIDE DEF phase
  <1>12. Promise!Publish(j)
    BY <1>9, <1>10, <1>11 DEF Promise!Publish, phase
  <1>13. Promise!Next
    BY <1>12 DEF Promise!Next
  <1>14. content' \in [Jobs -> Nat]
    BY DEF TypeOK
  <1> QED BY <1>4, <1>6, <1>13, <1>14 DEF JobStep, PromiseStep

LEMMA PublishGenerationStep ==
    ASSUME Inv, NEW w \in Workers, PublishGeneration(w)
    PROVE  Inv' /\ PromiseStep
  <1> USE InvFacts
  <1> DEFINE j == worker[w].job
             n == worker[w].durable
  <1>1. /\ worker[w].pc = "publish" /\ attempts' = attempts
        /\ now' = now /\ UNCHANGED settings /\ worker[w].pc # "idle"
    BY DEF PublishGeneration
  <1>2. AttemptStep
    BY <1>1, SameAttempts
  <1>3. j \in Jobs /\ worker[w].attempt # 0 /\ n \in Nat
    BY <1>1, <1>2, Named DEF FinishPC, WorkerState
  <1>4. PICK output \in BOOLEAN, policy \in BOOLEAN :
          LET verdict == PublicationVerdict(j, worker[w].version, n, output, policy)
          IN  IF verdict = "published"
              THEN \E children \in SUBSET Continuations(j) :
                     /\ job' = [k \in Jobs |->
                           IF k = j THEN Published(job[j], n)
                           ELSE IF k \in children THEN NewJob ELSE job[k]]
                     /\ content' = [content EXCEPT ![j] = @ + 1]
                     /\ LeaveFinish(w)
              ELSE /\ UNCHANGED <<job, content>>
                   /\ IF verdict = "replay" THEN LeaveFinish(w)
                      ELSE Deny(w, PublicationDenial[verdict])
    BY DEF PublishGeneration
  <1> DEFINE verdict == PublicationVerdict(j, worker[w].version, n, output, policy)
  <1>5. verdict \in {"published", "replay", "conflict", "deleted", "forbidden",
                     "output"}
    BY DEF PublicationVerdict
  <1>6. CASE verdict = "published"
    <2>1. job[j].status = "running"
      BY <1>6 DEF PublicationVerdict
    <2>2. PICK children \in SUBSET Continuations(j) :
                     /\ job' = [k \in Jobs |->
                           IF k = j THEN Published(job[j], n)
                           ELSE IF k \in children THEN NewJob ELSE job[k]]
                     /\ content' = [content EXCEPT ![j] = @ + 1]
                     /\ LeaveFinish(w)
      BY <1>4, <1>6
    <2>3. JobStep /\ content' \in [Jobs -> Nat]
      BY <1>3, <2>1, <2>2, PublishedStep
    <2>4. OwnStep(w)
      BY <1>1, <1>2, <1>3, <2>2, <2>3, LeaveFinishStep
    <2> QED BY <1>1, <1>2, <2>3, <2>4, WorkerActs
  <1>7. CASE verdict # "published"
    <2>1. job' = job /\ content' = content /\ content' \in [Jobs -> Nat]
      BY <1>4, <1>7 DEF TypeOK
    <2>2. JobStep
      BY <2>1, SameJobs
    <2>3. CASE verdict = "replay"
      <3>1. OwnStep(w)
        BY <1>1, <1>2, <1>3, <1>4, <2>2, <2>3, LeaveFinishStep
      <3> QED BY <1>1, <1>2, <2>1, <2>2, <3>1, WorkerActs
    <2>4. CASE verdict # "replay"
      <3> HIDE DEF verdict
      <3>1. PublicationDenial[verdict] \in DOMAIN DenialStatus
        BY <1>5, <1>7, <2>4, DenialDomain DEF PublicationDenial
      <3>2. Deny(w, PublicationDenial[verdict])
        BY <1>4, <1>7, <2>4 DEF verdict
      <3>3. OwnStep(w)
        BY <1>1, <1>2, <2>2, <3>1, <3>2, DenyStep
      <3> QED BY <1>1, <1>2, <2>1, <2>2, <3>3, WorkerActs
    <2> QED BY <2>3, <2>4
  <1> QED BY <1>6, <1>7

LEMMA DenyGenerationStep ==
    ASSUME Inv, NEW w \in Workers, DenyGeneration(w)
    PROVE  Inv' /\ PromiseStep
  <1> USE InvFacts
  <1> DEFINE j == worker[w].job
             v == worker[w].version
             denial == worker[w].denial
             b == job[j]
             row == DenialRow(j, v, denial)
  <1>1. /\ worker[w].pc = "deny" /\ attempts' = attempts /\ content' = content
        /\ now' = now /\ UNCHANGED settings /\ worker[w].pc # "idle"
        /\ content' \in [Jobs -> Nat] /\ SetJob(j, row)
        /\ Leave(w) \/ (worker[w].attempt # 0 /\ LeaveFinish(w))
    BY DEF DenyGeneration, TypeOK
  <1>2. AttemptStep
    BY <1>1, SameAttempts
  <1>3. j \in Jobs /\ denial \in DOMAIN DenialStatus /\ b \in Job
    BY <1>1 DEF WorkersConsistent, WorkerConsistent, TypeOK, WorkerState
  <1>4. RowStep(b, row)
    <2>1. CASE b.status # "running"
      BY <1>3, <2>1, KeepRow DEF DenialRow
    <2>2. CASE b.status = "running"
      <3>1. b.status \in ActiveStatus
        BY <2>2 DEF ActiveStatus
      <3>2. \/ row = b \/ row = skipExpiredGenerationJob(b)
            \/ row = cancelRemovedJob(b)
            \/ row = finishExecutionJob(b, DenialStatus[denial], denial, now)
        BY DEF DenialRow
      <3> HIDE DEF row, b, denial
      <3> QED BY <1>3, <3>1, <3>2, KeepRow, CleanupRow, DenialType, FinishRow
    <2> QED BY <2>1, <2>2
  <1> HIDE DEF row
  <1>5. JobStep
    BY <1>1, <1>3, <1>4, SetJobStep
  <1>6. OwnStep(w)
    BY <1>1, <1>2, <1>5, LeaveStep, LeaveFinishStep
  <1> QED BY <1>1, <1>2, <1>5, <1>6, WorkerActs

LEMMA ReopenedRow ==
    ASSUME NEW b \in Job, NEW t \in Nat, NEW c,
           c = [b EXCEPT !.status = "retry_wait",
                         !.reasonCode = "operator_retry", !.availableAt = t]
    PROVE  /\ c \in Job /\ c.leaseVersion = b.leaseVersion
           /\ c.status = "retry_wait"
           /\ b.leaseVersion <= b.leaseVersion
  <1>1. "retry_wait" \in JobStatus /\ "operator_retry" \in ReasonCodes
    BY DEF JobStatus, ActiveStatus, ReasonCodes
  <1>2. c \in Job
    BY <1>1 DEF Job
  <1>3. c.leaseVersion = b.leaseVersion /\ c.status = "retry_wait"
    BY DEF Job
  <1>4. b.leaseVersion <= b.leaseVersion
    BY DEF Job
  <1> QED BY <1>2, <1>3, <1>4

LEMMA RetryGenerationStep ==
    ASSUME Inv, NEW j \in Jobs, RetryGeneration(j)
    PROVE  Inv' /\ PromiseStep
  <1> USE InvFacts
  <1> DEFINE c == [job[j] EXCEPT !.status = "retry_wait",
                     !.reasonCode = "operator_retry",
                     !.availableAt = RetryAvailability(j)]
             n == Len(attempts[j])
             a == [attempts[j][n] EXCEPT !.acknowledged = "operator"]
  <1>1. /\ content' = content /\ now' = now /\ UNCHANGED settings
        /\ worker' = worker /\ SetJob(j, c) /\ job[j].status = "failed"
    BY DEF RetryGeneration, Reopenable
  <1>2. RetryAvailability(j) \in Nat
    <2>1. CASE attempts[j] = <<>>
      BY <2>1 DEF RetryAvailability
    <2>2. CASE attempts[j] # <<>>
      <3>1. /\ LastAttempt(j).notBefore \in Nat
            /\ LastAttempt(j).finishedAt \in Nat
        BY <2>2, LastIsAttempt DEF Attempt
      <3> QED BY <2>2, <3>1 DEF RetryAvailability
    <2> QED BY <2>1, <2>2
  <1>4. /\ c \in Job /\ c.leaseVersion = job[j].leaseVersion
        /\ c.status = "retry_wait"
        /\ job[j].leaseVersion <= job[j].leaseVersion
    <2>1. c = [job[j] EXCEPT !.status = "retry_wait",
                     !.reasonCode = "operator_retry",
                     !.availableAt = RetryAvailability(j)]
      OBVIOUS
    <2> HIDE DEF c
    <2> QED BY <1>2, <2>1, ReopenedRow
  <1>5. RowStep(job[j], c)
    BY <1>1, <1>4, PhaseFacts DEF RowStep, ActiveStatus
  <1> HIDE DEF c
  <1>6. JobStep
    BY <1>1, <1>5, SetJobStep
  <1>7. AttemptStep
    <2>1. CASE attempts[j] = <<>>
      BY <2>1, SameAttempts DEF RetryGeneration
    <2>2. CASE attempts[j] # <<>>
      <3>1. n \in DOMAIN attempts[j] /\ attempts[j][n] \in Attempt
        BY <2>2, LastIsAttempt
      <3>2. a \in Attempt
        BY <3>1 DEF Attempt
      <3>3. attempts' = [attempts EXCEPT ![j][n] = a]
        BY <2>2 DEF RetryGeneration
      <3> HIDE DEF a, n
      <3> QED BY <3>1, <3>2, <3>3, SetAttempt
    <2> QED BY <2>1, <2>2
  <1> QED BY <1>1, <1>6, <1>7, OthersAct DEF settings, TypeOK

LEMMA PauseAgentStep ==
    ASSUME Inv, NEW g \in Agents, PauseAgent(g)
    PROVE  Inv' /\ PromiseStep
  <1> USE InvFacts
  <1> DEFINE A == [j \in Jobs |-> [n \in DOMAIN attempts[j] |->
                       IF AgentOf[j] = g /\ job[j].status # "succeeded"
                       THEN [attempts[j][n] EXCEPT !.fenced = TRUE]
                       ELSE attempts[j][n]]]
  <1>1. ASSUME NEW a \in Attempt PROVE [a EXCEPT !.fenced = TRUE] \in Attempt
    BY <1>1 DEF Attempt
  <1>2. ASSUME NEW j \in Jobs PROVE A[j] \in [DOMAIN attempts[j] -> Attempt]
    BY <1>1, AttemptAt
  <1>3. AttemptStep
    <2> HIDE DEF A
    <2>1. attempts' = [j \in Jobs |-> A[j]]
      BY DEF PauseAgent, A
    <2> QED BY <1>2, <2>1, MapAttempts
  <1>4. JobStep
    BY SameJobs DEF PauseAgent
  <1>5. enabled' \in [Agents -> BOOLEAN] /\ pauseRevision' \in [Agents -> Nat]
    BY DEF PauseAgent, TypeOK
  <1> QED BY <1>3, <1>4, <1>5, OthersAct DEF PauseAgent, TypeOK

\* ResumeAgent, DisableAccount, HideSource and Tick leave jobs alone.
LEMMA SettingStep ==
    ASSUME Inv,
           \/ \E g \in Agents : ResumeAgent(g) \/ DisableAccount(g)
           \/ \E s \in Sources : HideSource(s)
           \/ Tick
    PROVE  Inv' /\ PromiseStep
  <1> USE InvFacts
  <1>1. /\ job' = job /\ attempts' = attempts /\ content' = content
        /\ worker' = worker /\ pauseRevision' = pauseRevision
    BY DEF ResumeAgent, DisableAccount, HideSource, Tick, settings
  <1>2. JobStep /\ AttemptStep
    BY <1>1, SameJobs, SameAttempts
  <1>3. now' \in Nat
    BY DEF ResumeAgent, DisableAccount, HideSource, Tick, TypeOK
  <1>4. enabled' \in [Agents -> BOOLEAN]
    BY DEF ResumeAgent, DisableAccount, HideSource, Tick, settings, TypeOK
  <1>5. disabled' \in SUBSET Agents
    BY DEF ResumeAgent, DisableAccount, HideSource, Tick, settings, TypeOK
  <1>6. source' \in [Sources -> SourceStates]
    BY DEF ResumeAgent, DisableAccount, HideSource, Tick, settings, TypeOK,
           SourceStates
  <1> QED BY <1>1, <1>2, <1>3, <1>4, <1>5, <1>6, OthersAct DEF TypeOK

LEMMA RemoveSourceStep ==
    ASSUME Inv, NEW s \in Sources, RemoveSource(s)
    PROVE  Inv' /\ PromiseStep
  <1> USE InvFacts
  <1>1. PICK B \in SUBSET RemovableJobs(s) :
           job' = [j \in Jobs |-> IF j \in B THEN RemovalRow(job[j])
                                             ELSE job[j]]
    BY DEF RemoveSource
  <1> DEFINE rows == [j \in Jobs |-> RemovalRow(job[j])]
  <1>2. ASSUME NEW j \in B
        PROVE  /\ j \in Jobs
               /\ PhaseOf(job[j]) = "open"
               /\ rows[j] \in Job
               /\ rows[j].leaseVersion = job[j].leaseVersion
               /\ PhaseOf(rows[j]) = "closed"
    <2>1. j \in Jobs /\ job[j].status \in ActiveStatus
      BY DEF RemovableJobs
    <2>2. PhaseOf(job[j]) = "open"
      BY <2>1, PhaseFacts
    <2>3. rows[j] \in Job
      BY <2>1, CleanupRow DEF RowStep, RemovalRow
    <2>4. /\ rows[j].leaseVersion = job[j].leaseVersion
          /\ rows[j].status \in {"skipped", "cancelled"}
      BY <2>1 DEF RemovalRow, skipExpiredGenerationJob, cancelRemovedJob,
                  closeJob, Job
    <2>5. PhaseOf(rows[j]) = "closed"
      BY <2>4, PhaseFacts
    <2> QED BY <2>1, <2>2, <2>3, <2>4, <2>5
  <1>3. B \in SUBSET Jobs
    BY DEF RemovableJobs
  <1>4. job' = [j \in Jobs |-> IF j \in B THEN rows[j] ELSE job[j]]
    BY <1>1
  <1>5. JobStep
    <2> HIDE DEF rows
    <2>1. \A j \in B : /\ PhaseOf(job[j]) = "open"
                       /\ rows[j] \in Job
                       /\ rows[j].leaseVersion = job[j].leaseVersion
                       /\ PhaseOf(rows[j]) = "closed"
      BY <1>2
    <2>2. TypeOK /\ content' = content
      BY DEF RemoveSource, Inv
    <2> QED BY ONLY <1>3, <1>4, <2>1, <2>2, CloseBatch
  <1>6. AttemptStep
    BY SameAttempts DEF RemoveSource
  <1>7. source' \in [Sources -> SourceStates]
    BY DEF RemoveSource, TypeOK, SourceStates
  <1> QED BY <1>5, <1>6, <1>7, OthersAct DEF RemoveSource, TypeOK

-----------------------------------------------------------------------------
(* Theorems.                                                               *)

LEMMA InitInv == Init => Inv /\ Promise!Init
  <1> SUFFICES ASSUME Init PROVE Inv /\ Promise!Init
    OBVIOUS
  <1>1. /\ NewJob \in Job /\ NewJob.status = "pending"
        /\ NewJob.leaseVersion = 0
    <2>1. now \in Nat /\ now + Lifetime \in Nat
      BY TimeAssumption DEF Init
    <2>2. "pending" \in JobStatus /\ "" \in ReasonCodes
      BY DEF JobStatus, ActiveStatus, ReasonCodes
    <2> QED BY <2>1, <2>2 DEF NewJob, Job
  <1>2. /\ AbsentJob \in Job /\ AbsentJob.status = "absent"
        /\ AbsentJob.leaseVersion = 0
    BY DEF AbsentJob, Job, JobStatus, ReasonCodes
  <1>3. TypeOK
    <2>1. job \in [Jobs -> Job]
      BY <1>1, <1>2 DEF Init
    <2>2. attempts \in [Jobs -> Seq(Attempt)]
      BY DEF Init
    <2>3. worker \in [Workers -> WorkerState]
      BY IdleType DEF Init
    <2>4. /\ now \in Nat /\ content \in [Jobs -> Nat]
          /\ pauseRevision \in [Agents -> Nat] /\ disabled \in SUBSET Agents
      BY DEF Init
    <2>5. enabled \in [Agents -> BOOLEAN]
      BY DEF Init
    <2>6. source \in [Sources -> SourceStates]
      BY DEF Init, SourceStates
    <2> QED BY <2>1, <2>2, <2>3, <2>4, <2>5, <2>6 DEF TypeOK
  <1>4. WorkersConsistent /\ SoleLeaseHolder
    BY IdleFields DEF Init, WorkersConsistent, WorkerConsistent,
                      SoleLeaseHolder, FinishPC
  <1>5. AbsentUnclaimed
    BY <1>1, <1>2 DEF Init, AbsentUnclaimed
  <1>6. Promise!Init
    <2>1. PhaseOf(NewJob) = "open" /\ PhaseOf(AbsentJob) = "absent"
      BY <1>1, <1>2, PhaseFacts DEF ActiveStatus
    <2>2. \A j \in Jobs : PhaseOf(job[j]) = IF ParentOf[j] = NoJob
                                            THEN "open" ELSE "absent"
      BY <2>1 DEF Init
    <2> QED BY <2>2 DEF Promise!Init, Init
  <1> QED BY <1>3, <1>4, <1>5, <1>6 DEF Inv

LEMMA NextInv == Inv /\ [Next]_vars => Inv' /\ PromiseStep
  <1> SUFFICES ASSUME Inv, [Next]_vars PROVE Inv' /\ PromiseStep
    OBVIOUS
  <1>1. ASSUME NEW w \in Workers, Proceed(w) PROVE Inv' /\ PromiseStep
    BY <1>1, RecoverGenerationAttemptsStep, ExpireGenerationJobsStep,
       ClaimGenerationStep, ReadPriorStep, AcknowledgePriorStep,
       GenerationContextStep, ReserveGenerationStep, StartCallStep,
       ProviderReturnsStep, SettleGenerationStep, ReadLatestStep,
       CompleteGenerationStep, PublishGenerationStep, DenyGenerationStep,
       SettleCancelledStep
       DEF Proceed
  <1>2. ASSUME NEW w \in Workers, Disturb(w) PROVE Inv' /\ PromiseStep
    BY <1>2, RenewGenerationStep, DivertStep DEF Disturb
  <1>3. CASE Control
    BY <1>3, PauseAgentStep, SettingStep, RemoveSourceStep,
       RetryGenerationStep
       DEF Control
  <1>4. CASE Tick
    BY <1>4, SettingStep
  <1>5. CASE UNCHANGED vars
    <2>1. /\ job' = job /\ attempts' = attempts /\ content' = content
          /\ worker' = worker /\ now' = now /\ enabled' = enabled
          /\ pauseRevision' = pauseRevision /\ disabled' = disabled
          /\ source' = source
      BY <1>5 DEF vars
    <2>2. JobStep /\ AttemptStep
      BY <2>1, InvFacts, SameJobs, SameAttempts
    <2> QED BY <2>1, <2>2, OthersAct DEF Inv, TypeOK
  <1> QED BY <1>1, <1>2, <1>3, <1>4, <1>5 DEF Next

(* Every behaviour of workers, operators and the clock keeps the tables    *)
(* well typed and the claims of the workers sound.                         *)
THEOREM Invariance == Spec => []Inv
  <1>1. Init => Inv
    BY InitInv
  <1>2. Inv /\ [Next]_vars => Inv'
    BY NextInv
  <1> QED BY <1>1, <1>2, PTL DEF Spec

(* Rows, counters and control states keep their types.                     *)
THEOREM TypeCorrect == Spec => []TypeOK
  <1>1. Inv => TypeOK
    BY DEF Inv
  <1> QED BY <1>1, Invariance, PTL

(* No two workers ever hold the same lease of a job, for any number of     *)
(* workers, jobs and expired leases: a claim takes a version that is newer *)
(* than any version still in use.                                          *)
THEOREM LeaseFencing == Spec => []SoleLeaseHolder
  <1>1. Inv => SoleLeaseHolder
    BY DEF Inv
  <1> QED BY <1>1, Invariance, PTL

(* The lifecycle implements GenerationPromise: every step of a worker, an  *)
(* operator or the clock is one publication, closing, failure or reopening *)
(* of jobs, or none.                                                       *)
THEOREM Refinement == Spec => KeepsPromise
  <1>1. Init => Promise!Init
    BY InitInv
  <1>2. Inv /\ [Next]_vars => [Promise!Next]_(Promise!promised)
    BY NextInv DEF PromiseStep
  <1> QED BY <1>1, <1>2, Invariance, PTL DEF Spec, KeepsPromise, Promise!Spec

\* A step of the promise keeps one item per published job.
LEMMA PromiseStepPublishesOnce ==
    ASSUME TypeOK, TypeOK', PublishedOnce, PromiseStep
    PROVE  PublishedOnce'
  <1> DEFINE ph(j) == PhaseOf(job[j])
             once(j) == content[j] = IF ph(j) = "published" THEN 1 ELSE 0
  <1>1. ASSUME NEW b \in Job
        PROVE  PhaseOf(b) = "published" <=> b.status = "succeeded"
    BY <1>1 DEF PhaseOf, Job, JobStatus, ActiveStatus, FinalStatus
  <1>2. \A j \in Jobs : /\ (ph(j) = "published") <=> (job[j].status = "succeeded")
                        /\ (ph(j)' = "published") <=> (job'[j].status = "succeeded")
    BY <1>1 DEF TypeOK
  <1>3. \A j \in Jobs : once(j)
    BY <1>2 DEF PublishedOnce
  <1> SUFFICES ASSUME NEW j \in Jobs PROVE once(j)'
    BY <1>2 DEF PublishedOnce
  <1>4. CASE UNCHANGED Promise!promised
    <2>1. ph(j)' = ph(j) /\ content' = content
      BY <1>4 DEF Promise!promised
    <2> QED BY <1>3, <2>1
  <1>5. ASSUME NEW i \in Jobs, Promise!Publish(i) PROVE once(j)'
    <2>1. PICK children \in SUBSET {k \in Jobs : ParentOf[k] = i
                                            /\ ph(k) = "absent"} :
             ph(j)' = IF j = i THEN "published"
                      ELSE IF j \in children THEN "open" ELSE ph(j)
      BY <1>5 DEF Promise!Publish
    <2>2. ph(i) = "open" /\ content' = [content EXCEPT ![i] = @ + 1]
      BY <1>5 DEF Promise!Publish
    <2>3. content[i] = 0
      BY <1>3, <2>2
    <2>4. content'[j] = IF j = i THEN content[i] + 1 ELSE content[j]
      BY <2>2 DEF TypeOK
    <2>5. CASE j = i
      BY <2>1, <2>3, <2>4, <2>5
    <2>6. CASE j # i /\ j \in children
      BY <1>3, <2>1, <2>4, <2>6
    <2>7. CASE j # i /\ j \notin children
      BY <1>3, <2>1, <2>4, <2>7
    <2> QED BY <2>5, <2>6, <2>7
  <1>6. ASSUME NEW i \in Jobs, Promise!Fail(i) \/ Promise!Reopen(i)
        PROVE  once(j)'
    <2>1. /\ content' = content /\ ph(i) \in {"open", "failed"}
          /\ ph(j)' = IF j = i THEN ph(j)' ELSE ph(j)
          /\ ph(i)' \in {"open", "failed"}
      BY <1>6 DEF Promise!Fail, Promise!Reopen
    <2> QED BY <1>3, <2>1
  <1>7. ASSUME NEW J \in SUBSET Jobs, Promise!Close(J) PROVE once(j)'
    <2>1. /\ content' = content
          /\ ph(j)' = IF j \in J THEN "closed" ELSE ph(j)
          /\ j \in J => ph(j) = "open"
      BY <1>7 DEF Promise!Close
    <2> QED BY <1>3, <2>1
  <1> QED BY <1>4, <1>5, <1>6, <1>7 DEF PromiseStep, Promise!Next

(* However many workers believe to own a job, however often it is          *)
(* reclaimed, retried, denied or cleaned up, it publishes at most one item *)
(* and ends as succeeded exactly if it did.                                *)
THEOREM ExactlyOncePublication == Spec => []PublishedOnce
  <1>1. Init => PublishedOnce
    <2>1. NewJob.status # "succeeded" /\ AbsentJob.status # "succeeded"
      BY DEF NewJob, AbsentJob
    <2> QED BY <2>1 DEF Init, PublishedOnce
  <1>2. Inv /\ Inv' /\ PublishedOnce /\ [Next]_vars => PublishedOnce'
    BY NextInv, PromiseStepPublishesOnce DEF Inv
  <1> QED BY <1>1, <1>2, Invariance, PTL DEF Spec
=============================================================================
