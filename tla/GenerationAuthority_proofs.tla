--------------------- MODULE GenerationAuthority_proofs ---------------------
(***************************************************************************)
(* Two more invariants of GenerationLifecycle, for any number of jobs,     *)
(* workers and pauses: CallsBounded, what may be charged for a job, and    *)
(* PublicationAuthority, what a publication rests on.                      *)
(*                                                                         *)
(* AInv adds what a worker knows of the attempt it has reserved while      *)
(* others reclaim its job (Reserved) and what a pause leaves behind        *)
(* (Fenced).  Most steps are Quiet: they touch neither.                    *)
(***************************************************************************)
EXTENDS GenerationLifecycle_proofs

\* Control states after the provider call has begun.
CalledPC == {"calling"} \cup FinishPC

\* The attempt of a worker is the one its lease made, is the last one for as
\* long as the lease is, and was called when the worker says so.
Reserved(k) ==
    /\ k.attempt # 0 =>
          /\ attempts[k.job][k.attempt].leaseVersion = k.version
          /\ k.pc = "ready" => attempts[k.job][k.attempt].calls = 0
          /\ k.pc \in CalledPC => attempts[k.job][k.attempt].calls = 1
          /\ job[k.job].leaseVersion = k.version => k.attempt = Len(attempts[k.job])
    /\ k.pc = "publish" => k.durable = k.attempt

\* An attempt that has seen a pause carries an older revision than its agent.
Fenced(j, a) ==
    /\ a.pauseRevision <= pauseRevision[AgentOf[j]]
    /\ a.fenced => a.pauseRevision < pauseRevision[AgentOf[j]]

\* What PublicationAuthority says of one succeeded job.
Authority(j) ==
    LET n == job[j].publishedAttempt IN
    /\ n = Len(attempts[j]) /\ n > 0
    /\ attempts[j][n].leaseVersion = job[j].leaseVersion
    /\ attempts[j][n].status = "succeeded"
    /\ attempts[j][n].decision = "publish"
    /\ attempts[j][n].calls = 1
    /\ ~attempts[j][n].fenced

AInv ==
    /\ Inv
    /\ \A w \in Workers : Reserved(worker[w])
    /\ \A j \in Jobs : \A n \in DOMAIN attempts[j] : Fenced(j, attempts[j][n])
    /\ CallsBounded
    /\ PublicationAuthority

-----------------------------------------------------------------------------
(* Quiet steps.                                                            *)

AttemptKept(a, b) ==
    /\ b.leaseVersion = a.leaseVersion /\ b.pauseRevision = a.pauseRevision
    /\ b.calls = a.calls /\ b.fenced = a.fenced
    /\ a.status # "reserved" => b.status = a.status /\ b.decision = a.decision

QuietAttempts ==
    \A j \in Jobs :
        /\ Len(attempts'[j]) = Len(attempts[j])
        /\ DOMAIN attempts'[j] = DOMAIN attempts[j]
        /\ \A n \in DOMAIN attempts[j] : AttemptKept(attempts[j][n], attempts'[j][n])

QuietRow(b, c) ==
    /\ b.leaseVersion <= c.leaseVersion
    /\ "succeeded" \in {b.status, c.status} => c = b

QuietJobs == \A j \in Jobs : QuietRow(job[j], job'[j])

QuietWorker(k, l) ==
    \/ l = k
    \/ l.attempt = 0 /\ l.pc # "publish"
    \/ /\ l.job = k.job /\ l.version = k.version /\ l.attempt = k.attempt
       /\ l.pc # "ready"
       /\ l.pc \in CalledPC => k.pc \in CalledPC
       /\ l.pc = "publish" => l.durable = l.attempt

QuietWorkers == \A w \in Workers : QuietWorker(worker[w], worker'[w])

LEMMA AInvFacts ==
    ASSUME AInv
    PROVE  Inv /\ TypeOK /\ WorkersConsistent /\ SoleLeaseHolder /\ now \in Nat
           /\ AbsentUnclaimed
           /\ \A j \in Jobs : job[j] \in Job
  BY DEF AInv, Inv, TypeOK

LEMMA ReservedKept ==
    ASSUME AInv, Inv', QuietAttempts, QuietWorkers,
           \A j \in Jobs : job[j].leaseVersion <= job'[j].leaseVersion
    PROVE  \A w \in Workers : Reserved(worker[w])'
  <1>1. /\ TypeOK /\ WorkersConsistent /\ TypeOK' /\ WorkersConsistent'
    BY DEF AInv, Inv
  <1> SUFFICES ASSUME NEW w \in Workers PROVE Reserved(worker[w])'
    OBVIOUS
  <1> DEFINE k == worker[w]
  <1>2. Reserved(k) /\ WorkerConsistent(w) /\ k \in WorkerState
    BY <1>1 DEF AInv, WorkersConsistent, TypeOK
  <1>3. \/ k' = k
        \/ k'.attempt = 0 /\ k'.pc # "publish"
        \/ /\ k'.job = k.job /\ k'.version = k.version /\ k'.attempt = k.attempt
           /\ k'.pc # "ready"
           /\ k'.pc \in CalledPC => k.pc \in CalledPC
           /\ k'.pc = "publish" => k'.durable = k'.attempt
    BY DEF QuietWorkers, QuietWorker
  <1>4. CASE k'.attempt = 0 /\ k'.pc # "publish"
    BY <1>4 DEF Reserved
  <1>5. CASE k.attempt = 0 /\ k' = k
    BY <1>2, <1>5 DEF Reserved
  <1>6. CASE k.attempt # 0 /\ k'.job = k.job /\ k'.version = k.version /\ k'.attempt = k.attempt
    <2>1. /\ k.job \in Jobs /\ k.attempt \in DOMAIN attempts[k.job]
          /\ k.version <= job[k.job].leaseVersion
      BY <1>2, <1>6 DEF WorkerConsistent
    <2>2. AttemptKept(attempts[k.job][k.attempt], attempts'[k.job][k.attempt])
      BY <2>1 DEF QuietAttempts
    <2>3. /\ job[k.job].leaseVersion \in Nat /\ job'[k.job].leaseVersion \in Nat
          /\ k.version \in Nat
      BY <1>1, <1>2, <2>1 DEF TypeOK, Job, WorkerState
    <2>4. job'[k.job].leaseVersion = k.version => job[k.job].leaseVersion = k.version
      BY <2>1, <2>3
    <2>5. Len(attempts'[k.job]) = Len(attempts[k.job])
      BY <2>1 DEF QuietAttempts
    <2> QED
      BY <1>2, <1>3, <1>6, <2>2, <2>4, <2>5 DEF Reserved, AttemptKept
  <1>7. CASE k.attempt = 0 /\ k'.attempt = 0 /\ k'.pc = "publish"
    <2>1. k'.pc \in FinishPC
      BY <1>7 DEF FinishPC
    <2> QED
      BY <1>1, <1>7, <2>1 DEF WorkersConsistent, WorkerConsistent
  <1> QED
    BY <1>3, <1>4, <1>5, <1>6, <1>7

LEMMA AttemptsKept ==
    ASSUME AInv, QuietAttempts, pauseRevision' = pauseRevision
    PROVE  /\ (\A j \in Jobs : \A n \in DOMAIN attempts[j] : Fenced(j, attempts[j][n]))'
           /\ CallsBounded'
  BY DEF AInv, Fenced, QuietAttempts, AttemptKept, CallsBounded

LEMMA AuthorityKept ==
    ASSUME AInv, QuietAttempts, NEW j \in Jobs,
           job[j].status = "succeeded", job'[j] = job[j]
    PROVE  Authority(j)'
  <1> DEFINE n == job[j].publishedAttempt
  <1>1. Authority(j)
    BY DEF AInv, PublicationAuthority, Authority
  <1>2. n \in DOMAIN attempts[j]
    BY <1>1, AInvFacts DEF TypeOK, Authority
  <1>3. AttemptKept(attempts[j][n], attempts'[j][n]) /\ Len(attempts'[j]) = Len(attempts[j])
    BY <1>2 DEF QuietAttempts
  <1> QED
    BY <1>1, <1>3 DEF AttemptKept, Authority

LEMMA QuietStep ==
    ASSUME AInv, Inv', QuietAttempts, QuietJobs, QuietWorkers,
           pauseRevision' = pauseRevision
    PROVE  AInv'
  <1>1. \A w \in Workers : Reserved(worker[w])'
    BY ReservedKept DEF QuietJobs, QuietRow
  <1>2. \A j \in Jobs : job'[j].status = "succeeded" => Authority(j)'
    BY AuthorityKept DEF QuietJobs, QuietRow
  <1>3. PublicationAuthority'
    BY <1>2 DEF PublicationAuthority, Authority
  <1> QED
    BY <1>1, <1>3, AttemptsKept DEF AInv

-----------------------------------------------------------------------------
(* What makes a step quiet.                                                *)

LEMMA RowQuiet ==
    ASSUME NEW b \in Job, NEW c, RowStep(b, c), b.status = "succeeded" => c = b
    PROVE  QuietRow(b, c)
  <1>1. c \in Job /\ b.leaseVersion <= c.leaseVersion
    BY DEF RowStep
  <1>2. ASSUME c.status = "succeeded" PROVE b.status = "succeeded"
    <2>1. PhaseOf(c) = "published"
      BY <1>2, PhaseFacts
    <2>2. PhaseOf(b) = "published"
      BY <2>1 DEF RowStep
    <2> QED
      BY <2>2 DEF PhaseOf, Job, JobStatus, ActiveStatus, FinalStatus
  <1> QED
    BY <1>1, <1>2 DEF QuietRow

LEMMA SameJobsQuiet ==
    ASSUME TypeOK, job' = job
    PROVE  QuietJobs
  BY DEF TypeOK, QuietJobs, QuietRow, Job

LEMMA SetJobQuiet ==
    ASSUME TypeOK, NEW j \in Jobs, NEW c, RowStep(job[j], c),
           job[j].status = "succeeded" => c = job[j],
           SetJob(j, c)
    PROVE  QuietJobs
  <1>1. \A i \in Jobs : job[i] \in Job /\ job'[i] = IF i = j THEN c ELSE job[i]
    BY DEF TypeOK, SetJob
  <1>2. \A i \in Jobs : RowStep(job[i], job[i])
    BY <1>1, KeepRow
  <1> QED
    BY <1>1, <1>2, RowQuiet DEF QuietJobs

LEMMA SameAttemptsQuiet ==
    ASSUME attempts' = attempts
    PROVE  QuietAttempts
  BY DEF QuietAttempts, AttemptKept

LEMMA MapQuiet ==
    ASSUME TypeOK, NEW A,
           attempts' = [j \in Jobs |-> A[j]],
           \A j \in Jobs : /\ A[j] \in [DOMAIN attempts[j] -> Attempt]
                           /\ \A n \in DOMAIN attempts[j] : AttemptKept(attempts[j][n], A[j][n])
    PROVE  QuietAttempts
  <1> SUFFICES ASSUME NEW j \in Jobs
               PROVE  /\ Len(attempts'[j]) = Len(attempts[j])
                      /\ DOMAIN attempts'[j] = DOMAIN attempts[j]
                      /\ \A n \in DOMAIN attempts[j] : AttemptKept(attempts[j][n], attempts'[j][n])
    BY DEF QuietAttempts
  <1>1. attempts'[j] = A[j] /\ attempts[j] \in Seq(Attempt)
    BY DEF TypeOK
  <1>2. A[j] \in Seq(Attempt) /\ DOMAIN A[j] = DOMAIN attempts[j]
    BY <1>1, SameLength
  <1>3. Len(A[j]) = Len(attempts[j])
    BY <1>1, <1>2
  <1> QED
    BY <1>1, <1>2, <1>3

LEMMA SetAttemptQuiet ==
    ASSUME TypeOK, NEW i \in Jobs, NEW m \in DOMAIN attempts[i], NEW a \in Attempt,
           attempts' = [attempts EXCEPT ![i][m] = a],
           AttemptKept(attempts[i][m], a)
    PROVE  QuietAttempts
  <1> DEFINE s == [attempts[i] EXCEPT ![m] = a]
  <1>1. attempts[i] \in Seq(Attempt) /\ s \in [DOMAIN attempts[i] -> Attempt]
    BY DEF TypeOK
  <1>2. s \in Seq(Attempt) /\ DOMAIN s = DOMAIN attempts[i]
    BY <1>1, SameLength
  <1>3. attempts' = [attempts EXCEPT ![i] = s]
    BY DEF TypeOK
  <1>4. Len(s) = Len(attempts[i])
    BY <1>1, <1>2
  <1>5. \A n \in DOMAIN attempts[i] : AttemptKept(attempts[i][n], s[n])
    BY <1>1 DEF AttemptKept
  <1> HIDE DEF s
  <1>6. \A j \in Jobs : attempts'[j] = IF j = i THEN s ELSE attempts[j]
    BY <1>3 DEF TypeOK
  <1>7. \A x : AttemptKept(x, x)
    BY DEF AttemptKept
  <1> QED
    BY <1>2, <1>4, <1>5, <1>6, <1>7 DEF QuietAttempts

LEMMA LeaveQuiet ==
    ASSUME TypeOK, NEW w \in Workers, Leave(w)
    PROVE  QuietWorkers
  BY DEF TypeOK, Leave, IdleWorker, QuietWorkers, QuietWorker

LEMMA MoveQuiet ==
    ASSUME TypeOK, NEW w \in Workers, NEW l, worker' = [worker EXCEPT ![w] = l],
           QuietWorker(worker[w], l)
    PROVE  QuietWorkers
  BY DEF TypeOK, QuietWorkers, QuietWorker

LEMMA GotoQuiet ==
    ASSUME TypeOK, NEW w \in Workers, NEW pc, Goto(w, pc), pc \notin {"ready", "publish"},
           pc \in CalledPC => worker[w].pc \in CalledPC
    PROVE  QuietWorkers
  <1> DEFINE l == [worker[w] EXCEPT !.pc = pc]
  <1>1. worker[w] \in WorkerState /\ worker' = [worker EXCEPT ![w] = l]
    BY DEF TypeOK, Goto
  <1>2. /\ l.pc = pc /\ l.job = worker[w].job /\ l.version = worker[w].version
        /\ l.attempt = worker[w].attempt
    BY <1>1 DEF WorkerState
  <1> HIDE DEF l
  <1>3. QuietWorker(worker[w], l)
    BY <1>2 DEF QuietWorker
  <1> QED
    BY <1>1, <1>3, MoveQuiet

LEMMA DenyQuiet ==
    ASSUME TypeOK, NEW w \in Workers, NEW d, Deny(w, d)
    PROVE  QuietWorkers
  <1> DEFINE l == [worker[w] EXCEPT !.pc = "deny", !.denial = d]
  <1>1. worker[w] \in WorkerState /\ worker' = [worker EXCEPT ![w] = l]
    BY DEF TypeOK, Deny
  <1>2. /\ l.pc = "deny" /\ l.job = worker[w].job /\ l.version = worker[w].version
        /\ l.attempt = worker[w].attempt
    BY <1>1 DEF WorkerState
  <1> HIDE DEF l
  <1>3. QuietWorker(worker[w], l)
    BY <1>2 DEF QuietWorker, CalledPC, FinishPC
  <1> QED
    BY <1>1, <1>3, MoveQuiet

LEMMA InterruptQuiet ==
    ASSUME TypeOK, NEW w \in Workers, NEW acknowledge, Interrupt(w, acknowledge)
    PROVE  QuietWorkers
  <1> DEFINE l == [worker[w] EXCEPT !.pc = "cancelled", !.acknowledge = acknowledge]
  <1>1. worker[w] \in WorkerState /\ worker' = [worker EXCEPT ![w] = l]
    BY DEF TypeOK, Interrupt
  <1>2. /\ l.pc = "cancelled" /\ l.job = worker[w].job /\ l.version = worker[w].version
        /\ l.attempt = worker[w].attempt
    BY <1>1 DEF WorkerState
  <1> HIDE DEF l
  <1>3. QuietWorker(worker[w], l)
    BY <1>2 DEF QuietWorker, CalledPC, FinishPC
  <1> QED
    BY <1>1, <1>3, MoveQuiet

LEMMA SameWorkersQuiet ==
    ASSUME worker' = worker
    PROVE  QuietWorkers
  BY DEF QuietWorkers, QuietWorker

Quiet ==
    QuietAttempts /\ QuietJobs /\ QuietWorkers /\ pauseRevision' = pauseRevision

-----------------------------------------------------------------------------
(* The steps of workers that are quiet.                                    *)

LEMMA CloseQuiet ==
    ASSUME NEW b \in Job, NEW s \in {"skipped", "cancelled", "failed", "retry_wait"}, NEW r,
           b.status \in ActiveStatus
    PROVE  QuietRow(b, closeJob(b, s, r))
  <1>1. closeJob(b, s, r).status = s /\ closeJob(b, s, r).leaseVersion = b.leaseVersion
    BY DEF closeJob, Job
  <1>2. b.leaseVersion <= b.leaseVersion
    BY DEF Job
  <1> QED
    BY <1>1, <1>2 DEF QuietRow, ActiveStatus

LEMMA RecoverGenerationAttemptsQuiet ==
    ASSUME AInv, NEW w \in Workers, RecoverGenerationAttempts(w)
    PROVE  Quiet
  <1> USE AInvFacts
  <1>1. PICK B \in SUBSET {p \in AttemptsOf(Jobs) : Recoverable(p[1], p[2])} :
          attempts' = [j \in Jobs |-> [n \in DOMAIN attempts[j] |->
                         IF <<j, n>> \in B THEN LeaseLost(attempts[j][n]) ELSE attempts[j][n]]]
    BY DEF RecoverGenerationAttempts
  <1> DEFINE A == [j \in Jobs |-> [n \in DOMAIN attempts[j] |->
                     IF <<j, n>> \in B THEN LeaseLost(attempts[j][n]) ELSE attempts[j][n]]]
  <1>2. ASSUME NEW a \in Attempt
        PROVE  /\ LeaseLost(a) \in Attempt
               /\ a.status = "reserved" => AttemptKept(a, LeaseLost(a))
    BY <1>2 DEF LeaseLost, Attempt, AttemptStatus, AttemptKept
  <1>3. ASSUME NEW j \in Jobs, NEW n \in DOMAIN attempts[j]
        PROVE  /\ A[j][n] \in Attempt
               /\ AttemptKept(attempts[j][n], A[j][n])
    <2>1. attempts[j][n] \in Attempt
      BY AttemptAt
    <2>2. CASE <<j, n>> \in B
      <3>1. attempts[j][n].status = "reserved"
        BY <2>2 DEF Recoverable
      <3>2. A[j][n] = LeaseLost(attempts[j][n])
        BY <2>2
      <3> HIDE DEF A
      <3> QED
        BY <1>2, <2>1, <3>1, <3>2
    <2>3. CASE <<j, n>> \notin B
      BY <2>1, <2>3 DEF AttemptKept
    <2> QED
      BY <2>2, <2>3
  <1>4. \A j \in Jobs : A[j] \in [DOMAIN attempts[j] -> Attempt]
    BY <1>3
  <1>5. attempts' = [j \in Jobs |-> A[j]]
    BY <1>1
  <1> HIDE DEF A
  <1>6. QuietAttempts
    BY <1>3, <1>4, <1>5, MapQuiet
  <1>7. job' = job /\ worker' = worker /\ pauseRevision' = pauseRevision
    BY DEF RecoverGenerationAttempts, settings
  <1> QED
    BY <1>6, <1>7, SameJobsQuiet, SameWorkersQuiet DEF Quiet

\* A batch of active jobs is skipped or cancelled.
LEMMA CloseBatchQuiet ==
    ASSUME TypeOK, NEW B \in SUBSET Jobs, NEW rows,
           job' = [j \in Jobs |-> IF j \in B THEN rows[j] ELSE job[j]],
           \A j \in B : QuietRow(job[j], rows[j])
    PROVE  QuietJobs
  <1>1. \A j \in Jobs : job[j].leaseVersion \in Nat
    BY DEF TypeOK, Job
  <1>2. \A j \in Jobs : QuietRow(job[j], job[j])
    BY <1>1 DEF QuietRow
  <1> QED
    BY <1>2 DEF QuietJobs

LEMMA ExpireGenerationJobsQuiet ==
    ASSUME AInv, NEW w \in Workers, ExpireGenerationJobs(w)
    PROVE  Quiet
  <1> USE AInvFacts
  <1> DEFINE rows == [j \in Jobs |-> skipExpiredGenerationJob(job[j])]
  <1>1. PICK B \in SUBSET ExpiredJobs :
          job' = [j \in Jobs |-> IF j \in B THEN skipExpiredGenerationJob(job[j]) ELSE job[j]]
    BY DEF ExpireGenerationJobs
  <1>2. job' = [j \in Jobs |-> IF j \in B THEN rows[j] ELSE job[j]]
    BY <1>1
  <1>3. \A j \in B : j \in Jobs /\ QuietRow(job[j], rows[j])
    BY CloseQuiet DEF ExpiredJobs, skipExpiredGenerationJob
  <1> HIDE DEF rows
  <1>4. QuietJobs
    BY <1>2, <1>3, CloseBatchQuiet
  <1>5. attempts' = attempts /\ worker' = worker /\ pauseRevision' = pauseRevision
    BY DEF ExpireGenerationJobs, settings
  <1> QED
    BY <1>4, <1>5, SameAttemptsQuiet, SameWorkersQuiet DEF Quiet

LEMMA ClaimGenerationQuiet ==
    ASSUME AInv, NEW w \in Workers, ClaimGeneration(w)
    PROVE  Quiet
  <1> USE AInvFacts
  <1>1. PICK j \in Jobs, t \in Recent :
          /\ Claimable(j, t)
          /\ IF now >= job[j].expiresAt
             THEN SetJob(j, skipExpiredGenerationJob(job[j])) /\ Leave(w)
             ELSE IF Unlinked(j)
             THEN SetJob(j, cancelRemovedJob(job[j])) /\ Leave(w)
             ELSE /\ job[j].leaseVersion < MaxLeaseVersion
                  /\ SetJob(j, Claimed(job[j]))
                  /\ worker' = [worker EXCEPT ![w] = [IdleWorker EXCEPT
                         !.pc = "prior", !.job = j,
                         !.version = Claimed(job[j]).leaseVersion,
                         !.availableAt = job[j].availableAt]]
    BY DEF ClaimGeneration
  <1>2. attempts' = attempts /\ pauseRevision' = pauseRevision
    BY DEF ClaimGeneration, settings
  <1>3. job[j].status \in ActiveStatus /\ job[j].status # "succeeded" /\ job[j] \in Job
    BY <1>1 DEF Claimable, ActiveStatus
  <1>4. QuietJobs
    <2>1. PICK c : SetJob(j, c) /\ RowStep(job[j], c)
      BY <1>1, <1>3, CleanupRow, ClaimedRow
    <2> QED
      BY <1>3, <2>1, SetJobQuiet
  <1>5. QuietWorkers
    <2>1. CASE Leave(w)
      BY <2>1, LeaveQuiet
    <2>2. CASE worker' = [worker EXCEPT ![w] = [IdleWorker EXCEPT
                         !.pc = "prior", !.job = j,
                         !.version = Claimed(job[j]).leaseVersion,
                         !.availableAt = job[j].availableAt]]
      <3> DEFINE l == [IdleWorker EXCEPT !.pc = "prior", !.job = j,
                         !.version = Claimed(job[j]).leaseVersion,
                         !.availableAt = job[j].availableAt]
      <3>1. l.attempt = 0 /\ l.pc = "prior"
        BY DEF IdleWorker
      <3>2. worker' = [worker EXCEPT ![w] = l]
        BY <2>2
      <3> HIDE DEF l
      <3> QED
        BY <3>1, <3>2, MoveQuiet DEF QuietWorker
    <2> QED
      BY <1>1, <2>1, <2>2
  <1> QED
    BY <1>2, <1>4, <1>5, SameAttemptsQuiet DEF Quiet

LEMMA ReadPriorQuiet ==
    ASSUME AInv, NEW w \in Workers, ReadPrior(w)
    PROVE  Quiet
  <1> USE AInvFacts
  <1>1. job' = job /\ attempts' = attempts /\ pauseRevision' = pauseRevision
    BY DEF ReadPrior, settings
  <1> DEFINE l == [worker[w] EXCEPT !.pc = "ackprior", !.durable = Len(attempts[worker[w].job])]
  <1>2. Goto(w, "context") \/ Leave(w) \/ worker' = [worker EXCEPT ![w] = l]
    BY DEF ReadPrior
  <1>3. QuietWorker(worker[w], l)
    <2>1. worker[w] \in WorkerState
      BY DEF TypeOK
    <2>2. /\ l.pc = "ackprior" /\ l.job = worker[w].job /\ l.version = worker[w].version
          /\ l.attempt = worker[w].attempt
      BY <2>1 DEF WorkerState
    <2> HIDE DEF l
    <2> QED
      BY <2>2 DEF QuietWorker, CalledPC, FinishPC
  <1> HIDE DEF l
  <1>4. QuietWorkers
    BY <1>2, <1>3, GotoQuiet, LeaveQuiet, MoveQuiet DEF CalledPC, FinishPC
  <1> QED
    BY <1>1, <1>4, SameAttemptsQuiet, SameJobsQuiet DEF Quiet

LEMMA GenerationContextQuiet ==
    ASSUME AInv, NEW w \in Workers, GenerationContext(w)
    PROVE  Quiet
  <1> USE AInvFacts
  <1>1. job' = job /\ attempts' = attempts /\ pauseRevision' = pauseRevision
    BY DEF GenerationContext, settings
  <1>2. \/ Leave(w) \/ Goto(w, "reserve")
        \/ Deny(w, "source_removed") \/ Deny(w, "context_rejected")
    BY DEF GenerationContext
  <1>3. QuietWorkers
    BY <1>2, GotoQuiet, LeaveQuiet, DenyQuiet DEF CalledPC, FinishPC
  <1> QED
    BY <1>1, <1>3, SameAttemptsQuiet, SameJobsQuiet DEF Quiet

LEMMA DisturbQuiet ==
    ASSUME AInv, NEW w \in Workers, RenewalFails(w) \/ Shutdown(w) \/ Abandon(w)
    PROVE  Quiet
  <1> USE AInvFacts
  <1>1. job' = job /\ attempts' = attempts /\ pauseRevision' = pauseRevision
    BY DEF RenewalFails, Shutdown, Abandon, settings
  <1>2. Interrupt(w, FALSE) \/ Interrupt(w, TRUE) \/ Leave(w)
    BY DEF RenewalFails, Shutdown, Abandon
  <1>3. QuietWorkers
    BY <1>2, InterruptQuiet, LeaveQuiet
  <1> QED
    BY <1>1, <1>3, SameAttemptsQuiet, SameJobsQuiet DEF Quiet

LEMMA RenewGenerationQuiet ==
    ASSUME AInv, NEW w \in Workers, RenewGeneration(w)
    PROVE  Quiet
  <1> USE AInvFacts
  <1> DEFINE j == worker[w].job
  <1>1. attempts' = attempts /\ worker' = worker /\ pauseRevision' = pauseRevision
    BY DEF RenewGeneration, settings
  <1>2. worker[w].pc = "calling" /\ j \in Jobs
    BY DEF RenewGeneration, WorkersConsistent, WorkerConsistent
  <1>3. PICK t \in Recent :
          /\ ValidateLease(job[j], worker[w].version, t)
          /\ SetJob(j, [job[j] EXCEPT !.leaseExpiresAt = t + LeaseDuration])
    BY DEF RenewGeneration
  <1>4. job[j].status = "running" /\ job[j] \in Job
    BY <1>2, <1>3 DEF ValidateLease
  <1> DEFINE c == [job[j] EXCEPT !.leaseExpiresAt = t + LeaseDuration]
  <1>5. c.status = job[j].status /\ c.leaseVersion = job[j].leaseVersion
    BY <1>4 DEF Job
  <1>6. job[j].leaseVersion <= job[j].leaseVersion
    BY <1>4 DEF Job
  <1>7. QuietRow(job[j], c)
    BY <1>4, <1>5, <1>6 DEF QuietRow
  <1> DEFINE rows == [i \in {j} |-> c]
  <1>8. \A i \in {j} : QuietRow(job[i], rows[i])
    BY <1>7
  <1>9. job' = [i \in Jobs |-> IF i \in {j} THEN rows[i] ELSE job[i]]
    BY <1>2, <1>3 DEF SetJob, TypeOK
  <1> HIDE DEF c, rows
  <1>10. QuietJobs
    <2>1. {j} \in SUBSET Jobs
      BY <1>2
    <2> HIDE DEF j
    <2> QED
      BY ONLY <2>1, <1>8, <1>9, TypeOK, CloseBatchQuiet
  <1> QED
    BY <1>1, <1>10, SameAttemptsQuiet, SameWorkersQuiet DEF Quiet

LEMMA CompleteQuiet ==
    ASSUME AInv, NEW j \in Jobs, NEW v, NEW n, NEW jitter \in 0 .. MaxRetryJitter,
           Complete(j, Completion(j, v, n, jitter))
    PROVE  QuietJobs /\ QuietAttempts
  <1> USE AInvFacts
  <1> DEFINE row == Completion(j, v, n, jitter).row
             m == Len(attempts[j])
             a == [attempts[j][m] EXCEPT !.acknowledged = "worker"]
  <1>1. job[j].status = "succeeded" => row = job[j]
    BY DEF Completion
  <1>2. SetJob(j, row) /\ RowStep(job[j], row)
    BY CompletionRow DEF Complete
  <1>3. QuietJobs
    <2> HIDE DEF row
    <2> QED
      BY <1>1, <1>2, SetJobQuiet
  <1>4. CASE row.status = "retry_wait" /\ job[j].status = "running"
    <2>1. attempts[j] # <<>>
      BY <1>4, CompletionRow
    <2>2. m \in DOMAIN attempts[j] /\ attempts[j][m] \in Attempt
      BY <2>1, LastIsAttempt
    <2>3. a \in Attempt /\ AttemptKept(attempts[j][m], a)
      BY <2>2 DEF Attempt, AttemptKept
    <2>4. attempts' = [attempts EXCEPT ![j][m] = a]
      BY <1>4 DEF Complete
    <2> HIDE DEF a, m
    <2> QED
      BY <1>3, <2>2, <2>3, <2>4, SetAttemptQuiet
  <1>5. CASE ~(row.status = "retry_wait" /\ job[j].status = "running")
    <2>1. attempts' = attempts
      BY <1>5 DEF Complete
    <2> QED
      BY <1>3, <2>1, SameAttemptsQuiet
  <1> QED
    BY <1>4, <1>5

LEMMA LeaveFinishQuiet ==
    ASSUME TypeOK, NEW w \in Workers, LeaveFinish(w)
    PROVE  QuietWorkers
  BY LeaveQuiet, InterruptQuiet DEF LeaveFinish

LEMMA AcknowledgePriorQuiet ==
    ASSUME AInv, NEW w \in Workers, AcknowledgePrior(w)
    PROVE  Quiet
  <1> USE AInvFacts
  <1> DEFINE j == worker[w].job
  <1>1. worker[w].pc = "ackprior" /\ pauseRevision' = pauseRevision
    BY DEF AcknowledgePrior, settings
  <1>2. j \in Jobs
    BY <1>1 DEF WorkersConsistent, WorkerConsistent
  <1>3. PICK jitter \in 0 .. MaxRetryJitter :
           /\ Complete(j, Completion(j, worker[w].version, worker[w].durable, jitter))
           /\ Leave(w) \/ Deny(w, "outcome_unavailable")
    BY DEF AcknowledgePrior
  <1>4. QuietWorkers
    BY <1>3, LeaveQuiet, DenyQuiet
  <1> QED
    BY <1>1, <1>2, <1>3, <1>4, CompleteQuiet DEF Quiet

LEMMA CompleteGenerationQuiet ==
    ASSUME AInv, NEW w \in Workers, CompleteGeneration(w)
    PROVE  Quiet
  <1> USE AInvFacts
  <1> DEFINE j == worker[w].job
             l == [worker[w] EXCEPT !.pc = "publish"]
  <1>1. worker[w].pc = "complete" /\ pauseRevision' = pauseRevision
    BY DEF CompleteGeneration, settings
  <1>2. j \in Jobs
    BY <1>1 DEF WorkersConsistent, WorkerConsistent
  <1>3. PICK jitter \in 0 .. MaxRetryJitter :
           /\ Complete(j, Completion(j, worker[w].version, worker[w].durable, jitter))
           /\ \/ LeaveFinish(w)
              \/ worker[w].durable = worker[w].attempt /\ Goto(w, "publish")
              \/ Deny(w, "outcome_unavailable")
    BY DEF CompleteGeneration
  <1>4. ASSUME worker[w].durable = worker[w].attempt, Goto(w, "publish")
        PROVE  QuietWorkers
    <2>1. worker[w] \in WorkerState /\ worker' = [worker EXCEPT ![w] = l]
      BY <1>4 DEF TypeOK, Goto
    <2>2. /\ l.pc = "publish" /\ l.job = j /\ l.version = worker[w].version
          /\ l.attempt = worker[w].attempt /\ l.durable = worker[w].durable
      BY <2>1 DEF WorkerState
    <2> HIDE DEF l
    <2>3. QuietWorker(worker[w], l)
      BY <1>1, <1>4, <2>2 DEF QuietWorker, CalledPC, FinishPC
    <2> QED
      BY <2>1, <2>3, MoveQuiet
  <1>5. QuietWorkers
    BY <1>3, <1>4, LeaveFinishQuiet, DenyQuiet
  <1> QED
    BY <1>1, <1>2, <1>3, <1>5, CompleteQuiet DEF Quiet

LEMMA ProviderReturnsQuiet ==
    ASSUME AInv, NEW w \in Workers, ProviderReturns(w)
    PROVE  Quiet
  <1> USE AInvFacts
  <1>1. /\ worker[w].pc = "calling" /\ job' = job /\ attempts' = attempts
        /\ pauseRevision' = pauseRevision
    BY DEF ProviderReturns, settings
  <1>2. PICK o : worker' = [worker EXCEPT ![w].pc = "settle", ![w].outcome = o]
    BY DEF ProviderReturns
  <1> DEFINE l == [worker[w] EXCEPT !.pc = "settle", !.outcome = o]
  <1>3. worker[w] \in WorkerState /\ worker' = [worker EXCEPT ![w] = l]
    BY <1>2 DEF TypeOK
  <1>4. /\ l.pc = "settle" /\ l.job = worker[w].job /\ l.version = worker[w].version
        /\ l.attempt = worker[w].attempt
    BY <1>3 DEF WorkerState
  <1> HIDE DEF l
  <1>5. QuietWorker(worker[w], l)
    BY <1>1, <1>4 DEF QuietWorker, CalledPC, FinishPC
  <1> QED
    BY <1>1, <1>3, <1>5, MoveQuiet, SameAttemptsQuiet, SameJobsQuiet DEF Quiet

LEMMA SettledKept ==
    ASSUME NEW a \in Attempt, a.status = "reserved", NEW o
    PROVE  AttemptKept(a, Settled(a, o))
  <1>1. PICK s, d, e, b, t : Settled(a, o) =
            [a EXCEPT !.status = s, !.decision = d, !.errorCode = e,
                      !.notBefore = b, !.tokens = t, !.finishedAt = now]
    BY Zenon DEF Settled
  <1> DEFINE x == [a EXCEPT !.status = s, !.decision = d, !.errorCode = e,
                            !.notBefore = b, !.tokens = t, !.finishedAt = now]
  <1>2. /\ x.leaseVersion = a.leaseVersion /\ x.pauseRevision = a.pauseRevision
        /\ x.calls = a.calls /\ x.fenced = a.fenced
    BY ONLY a \in Attempt DEF Attempt
  <1> HIDE DEF x
  <1> QED
    BY <1>1, <1>2 DEF AttemptKept, x

LEMMA SettlementQuiet ==
    ASSUME AInv, NEW j \in Jobs, NEW n \in DOMAIN attempts[j],
           NEW o \in Observation, o.result # "none",
           attempts' = Settlement(j, n, o)
    PROVE  QuietAttempts
  <1> USE AInvFacts
  <1>1. /\ attempts[j][n] \in Attempt
        /\ Settled(attempts[j][n], o) \in Attempt
    BY AttemptAt, SettledType
  <1>2. CASE attempts[j][n].status = "reserved"
    <2>1. attempts' = [attempts EXCEPT ![j][n] = Settled(attempts[j][n], o)]
      BY <1>2 DEF Settlement
    <2>2. AttemptKept(attempts[j][n], Settled(attempts[j][n], o))
      BY <1>1, <1>2, SettledKept
    <2> QED
      BY <1>1, <2>1, <2>2, SetAttemptQuiet
  <1>3. CASE attempts[j][n].status # "reserved"
    BY <1>3, SameAttemptsQuiet DEF Settlement
  <1> QED
    BY <1>2, <1>3

LEMMA SettleGenerationQuiet ==
    ASSUME AInv, NEW w \in Workers, SettleGeneration(w)
    PROVE  Quiet
  <1> USE AInvFacts
  <1> DEFINE j == worker[w].job
             n == worker[w].attempt
             o == worker[w].outcome
  <1>1. /\ worker[w].pc = "settle" /\ job' = job /\ attempts' = Settlement(j, n, o)
        /\ pauseRevision' = pauseRevision
    BY DEF SettleGeneration, settings
  <1>2. /\ worker[w] \in WorkerState /\ o \in Observation /\ o.result # "none"
        /\ j \in Jobs /\ n \in DOMAIN attempts[j]
    BY <1>1 DEF TypeOK, WorkerState, WorkersConsistent, WorkerConsistent, FinishPC
  <1>3. QuietAttempts
    BY <1>1, <1>2, SettlementQuiet
  <1>4. PICK accepted : worker' = [worker EXCEPT ![w].pc = "latest", ![w].accepted = accepted]
    BY DEF SettleGeneration
  <1> DEFINE l == [worker[w] EXCEPT !.pc = "latest", !.accepted = accepted]
  <1>5. /\ l.pc = "latest" /\ l.job = worker[w].job /\ l.version = worker[w].version
        /\ l.attempt = worker[w].attempt /\ worker' = [worker EXCEPT ![w] = l]
    BY <1>2, <1>4 DEF WorkerState
  <1> HIDE DEF l
  <1>6. QuietWorker(worker[w], l)
    BY <1>1, <1>5 DEF QuietWorker, CalledPC, FinishPC
  <1> QED
    BY <1>1, <1>3, <1>5, <1>6, MoveQuiet, SameJobsQuiet DEF Quiet

LEMMA SettleCancelledQuiet ==
    ASSUME AInv, NEW w \in Workers, SettleCancelled(w)
    PROVE  Quiet
  <1> USE AInvFacts
  <1> DEFINE j == worker[w].job
             n == worker[w].attempt
             o == [NoOutcome EXCEPT !.result = "execution_cancelled"]
  <1>1. /\ worker[w].pc = "cancelled" /\ job' = job /\ attempts' = Settlement(j, n, o)
        /\ pauseRevision' = pauseRevision
        /\ Leave(w) \/ Deny(w, "execution_cancelled")
    BY DEF SettleCancelled, settings
  <1>2. o \in Observation /\ o.result # "none"
    BY DEF Observation, NoOutcome, GenerationFailure
  <1>3. j \in Jobs /\ n \in DOMAIN attempts[j]
    BY <1>1 DEF WorkersConsistent, WorkerConsistent
  <1> HIDE DEF o
  <1>4. QuietAttempts
    BY <1>1, <1>2, <1>3, SettlementQuiet
  <1> QED
    BY <1>1, <1>4, LeaveQuiet, DenyQuiet, SameJobsQuiet DEF Quiet

LEMMA ReadLatestQuiet ==
    ASSUME AInv, NEW w \in Workers, ReadLatest(w)
    PROVE  Quiet
  <1> USE AInvFacts
  <1> DEFINE l == [worker[w] EXCEPT !.pc = "complete", !.durable = Len(attempts[worker[w].job])]
  <1>1. /\ worker[w].pc = "latest" /\ job' = job /\ attempts' = attempts
        /\ pauseRevision' = pauseRevision /\ worker' = [worker EXCEPT ![w] = l]
    BY DEF ReadLatest, settings, TypeOK
  <1>2. worker[w] \in WorkerState
    BY DEF TypeOK
  <1>3. /\ l.pc = "complete" /\ l.job = worker[w].job /\ l.version = worker[w].version
        /\ l.attempt = worker[w].attempt
    BY <1>2 DEF WorkerState
  <1> HIDE DEF l
  <1>4. QuietWorker(worker[w], l)
    BY <1>1, <1>3 DEF QuietWorker, CalledPC, FinishPC
  <1> QED
    BY <1>1, <1>4, MoveQuiet, SameAttemptsQuiet, SameJobsQuiet DEF Quiet

LEMMA DenyGenerationQuiet ==
    ASSUME AInv, NEW w \in Workers, DenyGeneration(w)
    PROVE  Quiet
  <1> USE AInvFacts
  <1> DEFINE j == worker[w].job
             b == job[j]
             denial == worker[w].denial
             row == DenialRow(j, worker[w].version, denial)
  <1>1. /\ worker[w].pc = "deny" /\ attempts' = attempts
        /\ pauseRevision' = pauseRevision /\ SetJob(j, row)
        /\ Leave(w) \/ LeaveFinish(w)
    BY DEF DenyGeneration, settings
  <1>2. j \in Jobs /\ denial \in DOMAIN DenialStatus /\ b \in Job
    BY <1>1 DEF WorkersConsistent, WorkerConsistent, TypeOK, WorkerState
  <1>3. RowStep(b, row) /\ (b.status = "succeeded" => row = b)
    <2>1. CASE b.status # "running"
      BY <1>2, <2>1, KeepRow DEF DenialRow
    <2>2. CASE b.status = "running"
      <3>1. b.status \in ActiveStatus
        BY <2>2 DEF ActiveStatus
      <3>2. \/ row = b \/ row = skipExpiredGenerationJob(b)
            \/ row = cancelRemovedJob(b)
            \/ row = finishExecutionJob(b, DenialStatus[denial], denial, now)
        BY DEF DenialRow
      <3> HIDE DEF row, b, denial
      <3> QED
        BY <1>2, <2>2, <3>1, <3>2, KeepRow, CleanupRow, DenialType, FinishRow
    <2> QED
      BY <2>1, <2>2
  <1> HIDE DEF row
  <1>4. QuietJobs
    BY <1>1, <1>2, <1>3, SetJobQuiet
  <1>5. QuietWorkers
    BY <1>1, LeaveQuiet, LeaveFinishQuiet
  <1> QED
    BY <1>1, <1>4, <1>5, SameAttemptsQuiet DEF Quiet

LEMMA DeniedReservationQuiet ==
    ASSUME AInv, NEW w \in Workers, ReserveGeneration(w), attempts' = attempts
    PROVE  Quiet
  <1> USE AInvFacts
  <1> DEFINE j == worker[w].job
             v == worker[w].version
  <1>1. worker[w].pc = "reserve" /\ pauseRevision' = pauseRevision
    BY DEF ReserveGeneration, settings
  <1>2. j \in Jobs /\ job[j] \in Job
    BY <1>1 DEF WorkersConsistent, WorkerConsistent
  <1>3. PICK policy \in BOOLEAN :
          LET verdict == Admission(j, v, policy) IN
          IF verdict = "admitted"
          THEN attempts' = [attempts EXCEPT ![j] = Append(@, Reservation(j, v))]
          ELSE /\ SetJob(j, IF verdict = "stale_trigger"
                            THEN skipExpiredGenerationJob(job[j])
                            ELSE IF verdict \in DOMAIN AdmissionStatus
                            THEN finishExecutionJob(job[j],
                                    AdmissionStatus[verdict], verdict, now)
                            ELSE job[j])
               /\ Leave(w)
    BY DEF ReserveGeneration
  <1> DEFINE verdict == Admission(j, v, policy)
  <1>4. attempts' # [attempts EXCEPT ![j] = Append(@, Reservation(j, v))]
    <2>1. attempts[j] \in Seq(Attempt)
      BY <1>2 DEF TypeOK
    <2>2. Len(Append(attempts[j], Reservation(j, v))) # Len(attempts[j])
      BY <2>1
    <2> QED
      BY <1>2, <2>2 DEF TypeOK
  <1>5. verdict # "admitted"
    BY <1>3, <1>4
  <1> DEFINE row == IF verdict = "stale_trigger"
                    THEN skipExpiredGenerationJob(job[j])
                    ELSE IF verdict \in DOMAIN AdmissionStatus
                    THEN finishExecutionJob(job[j], AdmissionStatus[verdict], verdict, now)
                    ELSE job[j]
  <1>6. SetJob(j, row) /\ Leave(w)
    BY <1>3, <1>5
  <1>7. RowStep(job[j], row) /\ (job[j].status = "succeeded" => row = job[j])
    <2>1. CASE verdict = "stale_trigger"
      <3>1. job[j].status = "running"
        BY <2>1 DEF Admission
      <3> QED
        BY <1>2, <2>1, <3>1, CleanupRow DEF ActiveStatus
    <2>2. CASE verdict # "stale_trigger" /\ verdict \in DOMAIN AdmissionStatus
      <3>1. job[j].status = "running"
        BY <2>2, AdmissionDomain DEF Admission
      <3>2. job[j].status \in ActiveStatus
        BY <3>1 DEF ActiveStatus
      <3>3. row = finishExecutionJob(job[j], AdmissionStatus[verdict], verdict, now)
        BY <2>2
      <3> HIDE DEF verdict, row
      <3> QED
        BY <1>2, <2>2, <3>1, <3>2, <3>3, AdmissionType, FinishRow
    <2>3. CASE verdict # "stale_trigger" /\ verdict \notin DOMAIN AdmissionStatus
      BY <1>2, <2>3, KeepRow
    <2> QED
      BY <2>1, <2>2, <2>3
  <1> HIDE DEF row
  <1> QED
    BY <1>1, <1>2, <1>6, <1>7, SetJobQuiet, LeaveQuiet, SameAttemptsQuiet DEF Quiet

LEMMA RetryGenerationQuiet ==
    ASSUME AInv, NEW j \in Jobs, RetryGeneration(j)
    PROVE  Quiet
  <1> USE AInvFacts
  <1> DEFINE c == [job[j] EXCEPT !.status = "retry_wait",
                     !.reasonCode = "operator_retry",
                     !.availableAt = RetryAvailability(j)]
             n == Len(attempts[j])
             a == [attempts[j][n] EXCEPT !.acknowledged = "operator"]
  <1>1. /\ worker' = worker /\ SetJob(j, c) /\ job[j].status = "failed"
        /\ pauseRevision' = pauseRevision
    BY DEF RetryGeneration, Reopenable, settings
  <1>2. c.status = "retry_wait" /\ c.leaseVersion = job[j].leaseVersion
    BY DEF Job
  <1>3. job[j].leaseVersion <= job[j].leaseVersion
    BY DEF Job
  <1> DEFINE rows == [i \in {j} |-> c]
  <1>4. \A i \in {j} : QuietRow(job[i], rows[i])
    BY <1>1, <1>2, <1>3 DEF QuietRow
  <1>5. job' = [i \in Jobs |-> IF i \in {j} THEN rows[i] ELSE job[i]]
    BY <1>1 DEF SetJob, TypeOK
  <1> HIDE DEF c, rows
  <1>6. QuietJobs
    <2>1. {j} \in SUBSET Jobs
      OBVIOUS
    <2> QED
      BY ONLY <2>1, <1>4, <1>5, TypeOK, CloseBatchQuiet
  <1>7. QuietAttempts
    <2>1. CASE attempts[j] = <<>>
      BY <2>1, SameAttemptsQuiet DEF RetryGeneration
    <2>2. CASE attempts[j] # <<>>
      <3>1. n \in DOMAIN attempts[j] /\ attempts[j][n] \in Attempt
        BY <2>2, LastIsAttempt
      <3>2. a \in Attempt /\ AttemptKept(attempts[j][n], a)
        BY <3>1 DEF Attempt, AttemptKept
      <3>3. attempts' = [attempts EXCEPT ![j][n] = a]
        BY <2>2 DEF RetryGeneration
      <3> HIDE DEF a, n
      <3> QED
        BY <3>1, <3>2, <3>3, SetAttemptQuiet
    <2> QED
      BY <2>1, <2>2
  <1> QED
    BY <1>1, <1>6, <1>7, SameWorkersQuiet DEF Quiet

LEMMA RemoveSourceQuiet ==
    ASSUME AInv, NEW s \in Sources, RemoveSource(s)
    PROVE  Quiet
  <1> USE AInvFacts
  <1> DEFINE rows == [j \in Jobs |-> RemovalRow(job[j])]
  <1>1. PICK B \in SUBSET RemovableJobs(s) :
           job' = [j \in Jobs |-> IF j \in B THEN RemovalRow(job[j]) ELSE job[j]]
    BY DEF RemoveSource
  <1>2. job' = [j \in Jobs |-> IF j \in B THEN rows[j] ELSE job[j]]
    BY <1>1
  <1>3. \A j \in B : j \in Jobs /\ QuietRow(job[j], rows[j])
    BY CloseQuiet DEF RemovableJobs, RemovalRow, skipExpiredGenerationJob, cancelRemovedJob
  <1> HIDE DEF rows
  <1>4. QuietJobs
    BY <1>2, <1>3, CloseBatchQuiet
  <1>5. attempts' = attempts /\ worker' = worker /\ pauseRevision' = pauseRevision
    BY DEF RemoveSource
  <1> QED
    BY <1>4, <1>5, SameAttemptsQuiet, SameWorkersQuiet DEF Quiet

\* ResumeAgent, DisableAccount, HideSource and Tick leave jobs alone.
LEMMA SettingQuiet ==
    ASSUME AInv,
           \/ \E g \in Agents : ResumeAgent(g) \/ DisableAccount(g)
           \/ \E s \in Sources : HideSource(s)
           \/ Tick
           \/ UNCHANGED vars
    PROVE  Quiet
  <1> USE AInvFacts
  <1>1. /\ job' = job /\ attempts' = attempts /\ worker' = worker
        /\ pauseRevision' = pauseRevision
    BY DEF ResumeAgent, DisableAccount, HideSource, Tick, settings, vars
  <1> QED
    BY <1>1, SameJobsQuiet, SameAttemptsQuiet, SameWorkersQuiet DEF Quiet

-----------------------------------------------------------------------------
(* The steps that are not: a publication, a reservation, a call, a pause.  *)

\* What the checks of PublishGeneration and the worker's lease establish.
LEMMA PublicationFounded ==
    ASSUME AInv, NEW w \in Workers, worker[w].pc = "publish",
           NEW output, NEW policy,
           PublicationVerdict(worker[w].job, worker[w].version,
               worker[w].durable, output, policy) = "published"
    PROVE  LET j == worker[w].job
               n == worker[w].durable
           IN  /\ j \in Jobs /\ job[j] \in Job /\ job[j].status = "running"
               /\ n \in Nat /\ n = Len(attempts[j]) /\ n > 0
               /\ attempts[j][n].leaseVersion = job[j].leaseVersion
               /\ attempts[j][n].status = "succeeded"
               /\ attempts[j][n].decision = "publish"
               /\ attempts[j][n].calls = 1 /\ ~attempts[j][n].fenced
  <1> USE AInvFacts
  <1> DEFINE k == worker[w]
             j == k.job
             n == k.durable
             a == attempts[j][n]
  <1>1. Reserved(k) /\ WorkerConsistent(w) /\ k \in WorkerState
    BY DEF AInv, WorkersConsistent, TypeOK
  <1>2. /\ j \in Jobs /\ n = k.attempt /\ n # 0 /\ n \in DOMAIN attempts[j]
        /\ n \in Nat
    BY <1>1 DEF WorkerConsistent, Reserved, FinishPC, WorkerState
  <1>3. a \in Attempt /\ Fenced(j, a)
    BY <1>2, AttemptAt DEF AInv
  <1>4. /\ job[j].status = "running" /\ job[j].leaseVersion = k.version
        /\ a.decision = "publish" /\ a.pauseRevision = pauseRevision[AgentOf[j]]
        /\ a.status = "succeeded"
    BY DEF PublicationVerdict, Publishable
  <1>5. /\ a.leaseVersion = k.version /\ a.calls = 1 /\ n = Len(attempts[j])
    BY <1>1, <1>2, <1>4 DEF Reserved, CalledPC, FinishPC
  <1>6. ~a.fenced
    <2>1. a.pauseRevision \in Nat
      BY <1>3 DEF Attempt
    <2>2. ~(a.pauseRevision < pauseRevision[AgentOf[j]])
      BY <1>4, <2>1
    <2> QED
      BY <1>3, <2>2 DEF Fenced
  <1> QED
    BY <1>2, <1>4, <1>5, <1>6

LEMMA PublishGenerationAuthority ==
    ASSUME AInv, Inv', NEW w \in Workers, PublishGeneration(w)
    PROVE  AInv'
  <1> USE AInvFacts
  <1> DEFINE j == worker[w].job
             n == worker[w].durable
             v == worker[w].version
  <1>1. /\ worker[w].pc = "publish" /\ attempts' = attempts
        /\ pauseRevision' = pauseRevision
    BY DEF PublishGeneration, settings
  <1>2. PICK output \in BOOLEAN, policy \in BOOLEAN :
          LET verdict == PublicationVerdict(j, v, n, output, policy)
          IN  IF verdict = "published"
              THEN \E children \in SUBSET Continuations(j) :
                     /\ job' = [k \in Jobs |->
                           IF k = j THEN Published(job[j], n)
                           ELSE IF k \in children THEN NewJob ELSE job[k]]
                     /\ LeaveFinish(w)
              ELSE /\ job' = job
                   /\ LeaveFinish(w) \/ \E d : Deny(w, d)
    BY DEF PublishGeneration
  <1> DEFINE verdict == PublicationVerdict(j, v, n, output, policy)
  <1>3. CASE verdict # "published"
    <2>1. job' = job /\ (LeaveFinish(w) \/ \E d : Deny(w, d))
      BY <1>2, <1>3
    <2>2. QuietWorkers
      BY <2>1, LeaveFinishQuiet, DenyQuiet
    <2> QED
      BY <1>1, <2>1, <2>2, SameJobsQuiet, SameAttemptsQuiet, QuietStep
  <1>4. CASE verdict = "published"
    <2>1. PICK children \in SUBSET Continuations(j) :
                     /\ job' = [k \in Jobs |->
                           IF k = j THEN Published(job[j], n)
                           ELSE IF k \in children THEN NewJob ELSE job[k]]
                     /\ LeaveFinish(w)
      BY <1>2, <1>4
    <2>2. /\ j \in Jobs /\ job[j] \in Job /\ job[j].status = "running"
          /\ n \in Nat /\ n = Len(attempts[j]) /\ n > 0
          /\ attempts[j][n].leaseVersion = job[j].leaseVersion
          /\ attempts[j][n].status = "succeeded"
          /\ attempts[j][n].decision = "publish"
          /\ attempts[j][n].calls = 1 /\ ~attempts[j][n].fenced
      BY <1>1, <1>4, PublicationFounded
    <2> DEFINE c == Published(job[j], n)
    <2>3. /\ c.leaseVersion = job[j].leaseVersion /\ c.publishedAttempt = n
      BY <2>2 DEF Published, Job
    <2>4. NewJob.leaseVersion = 0 /\ NewJob.status = "pending"
      BY DEF NewJob
    <2> HIDE DEF c
    <2>5. job'[j] = c
      BY <2>1, <2>2 DEF c
    <2>6. \A i \in Jobs \ {j} :
             \/ job'[i] = job[i]
             \/ job'[i] = NewJob /\ job[i].leaseVersion = 0
      BY <2>1 DEF Continuations, AbsentUnclaimed
    <2>7. ASSUME NEW i \in Jobs PROVE job[i].leaseVersion <= job'[i].leaseVersion
      <3>1. job[i].leaseVersion \in Nat
        BY DEF Job
      <3> QED
        BY <2>3, <2>4, <2>5, <2>6, <3>1
    <2>8. QuietWorkers /\ QuietAttempts
      BY <1>1, <2>1, LeaveFinishQuiet, SameAttemptsQuiet
    <2>9. \A u \in Workers : Reserved(worker[u])'
      BY <2>7, <2>8, ReservedKept
    <2>10. ASSUME NEW i \in Jobs, job'[i].status = "succeeded" PROVE Authority(i)'
      <3>1. CASE i = j
        BY <1>1, <2>2, <2>3, <2>5, <3>1 DEF Authority
      <3>2. CASE i # j
        <4>1. job'[i] = job[i]
          BY <2>4, <2>6, <2>10, <3>2
        <4> QED
          BY <2>8, <2>10, <4>1, AuthorityKept
      <3> QED
        BY <3>1, <3>2
    <2>11. PublicationAuthority'
      BY <2>10 DEF PublicationAuthority, Authority
    <2> QED
      BY <1>1, <2>8, <2>9, <2>11, AttemptsKept DEF AInv
  <1> QED
    BY <1>3, <1>4

\* Only the holder of the current lease has reserved anything under it.
LEMMA LeaseOfAnother ==
    ASSUME AInv, NEW u \in Workers, NEW w \in Workers, u # w,
           worker[u].job = worker[w].job, worker[w].pc # "idle"
    PROVE  worker[u].version # worker[w].version
  <1>1. worker[w].job \in Jobs
    BY AInvFacts DEF WorkersConsistent, WorkerConsistent
  <1>2. worker[w].job # NoJob
    BY <1>1, SetsAssumption
  <1> QED
    BY <1>2, AInvFacts DEF SoleLeaseHolder

LEMMA ReserveGenerationAuthority ==
    ASSUME AInv, Inv', NEW w \in Workers, ReserveGeneration(w)
    PROVE  AInv'
  <1> USE AInvFacts
  <1> DEFINE j == worker[w].job
             v == worker[w].version
             h == attempts[j]
             n == Len(h) + 1
             r == Reservation(j, v)
  <1>1. worker[w].pc = "reserve" /\ pauseRevision' = pauseRevision
    BY DEF ReserveGeneration, settings
  <1>2. CASE attempts' = attempts
    BY <1>2, DeniedReservationQuiet, QuietStep DEF Quiet
  <1>3. CASE attempts' # attempts
    <2>1. PICK policy \in BOOLEAN :
            /\ Admission(j, v, policy) = "admitted"
            /\ attempts' = [attempts EXCEPT ![j] = Append(h, r)]
            /\ worker' = [worker EXCEPT ![w].pc = "ready", ![w].attempt = n]
            /\ job' = job
      BY <1>3 DEF ReserveGeneration
    <2>2. /\ j \in Jobs /\ worker[w] \in WorkerState /\ v \in Nat
          /\ h \in Seq(Attempt)
      BY <1>1 DEF WorkersConsistent, WorkerConsistent, TypeOK, WorkerState
    <2>3. /\ job[j].status = "running" /\ job[j].leaseVersion = v
          /\ ~(Len(h) >= MaxGenerationAttempts)
      BY <2>1 DEF Admission
    <2>4. /\ r.leaseVersion = v /\ r.calls = 0 /\ r.fenced = FALSE
          /\ r.pauseRevision = pauseRevision[AgentOf[j]]
          /\ pauseRevision[AgentOf[j]] \in Nat
      BY <2>2, SetsAssumption DEF Reservation, TypeOK
    <2>5. \A i \in Jobs \ {j} : attempts'[i] = attempts[i]
      BY <2>1 DEF TypeOK
    <2> HIDE DEF r
    <2>6. /\ attempts'[j] = Append(h, r) /\ Len(attempts'[j]) = n
          /\ DOMAIN attempts'[j] = 1 .. n /\ attempts'[j][n] = r
          /\ DOMAIN h = 1 .. Len(h) /\ Len(h) \in Nat
      BY <2>1, <2>2 DEF TypeOK
    <2>7. \A m \in DOMAIN h : m \in DOMAIN attempts'[j] /\ attempts'[j][m] = h[m] /\ m # n
      BY <2>2, <2>6
    <2> HIDE DEF n
    <2>8. ASSUME NEW u \in Workers PROVE Reserved(worker[u])'
      <3>1. CASE u = w
        <4> DEFINE k == [worker[w] EXCEPT !.pc = "ready", !.attempt = n]
        <4>1. k.pc = "ready" /\ k.attempt = n /\ k.job = j /\ k.version = v
          BY <2>2 DEF WorkerState
        <4>2. worker'[w] = k
          BY <2>1 DEF TypeOK
        <4> HIDE DEF k
        <4> QED
          BY <2>4, <2>6, <3>1, <4>1, <4>2 DEF Reserved, CalledPC, FinishPC
      <3>2. CASE u # w
        <4>1. worker'[u] = worker[u] /\ Reserved(worker[u]) /\ WorkerConsistent(u)
          BY <2>1, <3>2 DEF TypeOK, AInv, WorkersConsistent
        <4>2. CASE worker[u].attempt = 0
          BY <4>1, <4>2 DEF Reserved
        <4>3. CASE worker[u].attempt # 0
          <5>1. /\ worker[u].job \in Jobs
                /\ worker[u].attempt \in DOMAIN attempts[worker[u].job]
            BY <4>1, <4>3 DEF WorkerConsistent
          <5>2. CASE worker[u].job # j
            BY <2>1, <2>5, <4>1, <5>1, <5>2 DEF Reserved
          <5>3. CASE worker[u].job = j
            <6>1. worker[u].version # v
              BY <1>1, <3>2, <5>3, LeaseOfAnother
            <6>2. attempts'[j][worker[u].attempt] = attempts[j][worker[u].attempt]
              BY <2>7, <5>1, <5>3
            <6>3. job'[j].leaseVersion # worker[u].version
              BY <2>1, <2>3, <6>1
            <6> HIDE DEF j, v
            <6> QED
              BY ONLY <4>1, <5>3, <6>2, <6>3 DEF Reserved
          <5> QED
            BY <5>2, <5>3
        <4> QED
          BY <4>2, <4>3
      <3> QED
        BY <3>1, <3>2
    <2>9. ASSUME NEW i \in Jobs, NEW m \in DOMAIN attempts'[i]
          PROVE  Fenced(i, attempts[i][m])' /\ attempts'[i][m].calls <= 1
      <3>1. CASE i = j /\ m = n
        <4>1. attempts'[i][m] = r
          BY <2>6, <3>1
        <4>2. /\ r.pauseRevision <= pauseRevision[AgentOf[i]]
              /\ ~r.fenced /\ r.calls <= 1
          BY <2>4, <3>1
        <4> QED
          BY <1>1, <4>1, <4>2 DEF Fenced
      <3>2. CASE ~(i = j /\ m = n)
        <4>1. m \in DOMAIN attempts[i] /\ attempts'[i][m] = attempts[i][m]
          <5>1. CASE i # j
            BY <2>5, <2>9, <5>1
          <5>2. CASE i = j
            <6>1. m \in 1 .. n /\ m # n
              BY <2>6, <2>9, <3>2, <5>2
            <6>2. m \in 1 .. Len(h)
              BY <2>6, <6>1 DEF n
            <6> QED
              BY <2>6, <2>7, <5>2, <6>2
          <5> QED
            BY <5>1, <5>2
        <4> QED
          BY <1>1, <4>1 DEF AInv, Fenced, CallsBounded
      <3> QED
        BY <3>1, <3>2
    <2>10. ASSUME NEW i \in Jobs PROVE Len(attempts'[i]) <= MaxGenerationAttempts
      <3>1. CASE i = j
        BY <2>3, <2>6, <3>1, AttemptLimitAssumption DEF n
      <3>2. CASE i # j
        BY <2>5, <3>2 DEF AInv, CallsBounded
      <3> QED
        BY <3>1, <3>2
    <2>11. ASSUME NEW i \in Jobs, job'[i].status = "succeeded" PROVE Authority(i)'
      <3>1. i # j /\ job'[i] = job[i]
        BY <2>1, <2>3, <2>11
      <3> QED
        BY <2>5, <2>11, <3>1 DEF AInv, PublicationAuthority, Authority
    <2>12. PublicationAuthority' /\ CallsBounded'
      BY <2>9, <2>10, <2>11 DEF PublicationAuthority, Authority, CallsBounded
    <2> QED
      BY <2>8, <2>9, <2>12 DEF AInv
  <1> QED
    BY <1>2, <1>3

LEMMA StartCallAuthority ==
    ASSUME AInv, Inv', NEW w \in Workers, StartCall(w)
    PROVE  AInv'
  <1> USE AInvFacts
  <1> DEFINE j == worker[w].job
             n == worker[w].attempt
             a == attempts[j][n]
  <1>1. /\ worker[w].pc = "ready" /\ pauseRevision' = pauseRevision /\ job' = job
        /\ attempts' = [attempts EXCEPT ![j][n].calls = @ + 1]
        /\ Goto(w, "calling")
    BY DEF StartCall, settings
  <1>2. /\ Reserved(worker[w]) /\ j \in Jobs /\ n \in DOMAIN attempts[j] /\ n # 0
        /\ worker[w] \in WorkerState
    BY <1>1 DEF AInv, WorkersConsistent, WorkerConsistent, TypeOK
  <1>3. a \in Attempt /\ a.leaseVersion = worker[w].version /\ a.calls = 0
    BY <1>1, <1>2, AttemptAt DEF Reserved
  <1>4. PICK b \in Attempt :
           /\ attempts' = [attempts EXCEPT ![j][n] = b]
           /\ b.leaseVersion = a.leaseVersion /\ b.pauseRevision = a.pauseRevision
           /\ b.fenced = a.fenced /\ b.calls = 1
    <2>1. ASSUME NEW x \in Attempt
          PROVE  LET y == [x EXCEPT !.calls = 1]
                 IN  /\ y \in Attempt /\ y.calls = 1 /\ y.fenced = x.fenced
                     /\ y.leaseVersion = x.leaseVersion
                     /\ y.pauseRevision = x.pauseRevision
      BY <2>1 DEF Attempt
    <2>2. attempts' = [attempts EXCEPT ![j][n] = [a EXCEPT !.calls = 1]]
      BY <1>1, <1>3
    <2> HIDE DEF a
    <2> QED
      BY <1>3, <2>1, <2>2
  <1>6. \A i \in Jobs :
           /\ Len(attempts'[i]) = Len(attempts[i])
           /\ DOMAIN attempts'[i] = DOMAIN attempts[i]
           /\ \A m \in DOMAIN attempts[i] :
                 attempts'[i][m] = IF i = j /\ m = n THEN b ELSE attempts[i][m]
    <2> DEFINE s == [attempts[j] EXCEPT ![n] = b]
    <2>2. attempts[j] \in Seq(Attempt) /\ s \in [DOMAIN attempts[j] -> Attempt]
      BY <1>2, <1>4 DEF TypeOK
    <2>3. s \in Seq(Attempt) /\ DOMAIN s = DOMAIN attempts[j]
      BY <2>2, SameLength
    <2>4. Len(s) = Len(attempts[j])
      BY <2>2, <2>3
    <2>5. \A m \in DOMAIN attempts[j] : s[m] = IF m = n THEN b ELSE attempts[j][m]
      OBVIOUS
    <2>6. attempts' = [attempts EXCEPT ![j] = s]
      BY <1>4 DEF TypeOK
    <2> HIDE DEF s
    <2> QED
      BY <1>2, <2>3, <2>4, <2>5, <2>6 DEF TypeOK
  <1>7. ASSUME NEW u \in Workers PROVE Reserved(worker[u])'
    <2>1. CASE u = w
      <3> DEFINE k == [worker[w] EXCEPT !.pc = "calling"]
      <3>1. /\ k.pc = "calling" /\ k.attempt = n /\ k.job = j
            /\ k.version = worker[w].version
        BY <1>2 DEF WorkerState
      <3>2. worker'[w] = k
        BY <1>1 DEF TypeOK, Goto
      <3> HIDE DEF k
      <3>3. attempts'[j][n] = b /\ Len(attempts'[j]) = Len(attempts[j])
        BY <1>2, <1>6
      <3>4. b.leaseVersion = worker[w].version /\ b.calls = 1
        BY <1>3, <1>4
      <3>5. job'[j].leaseVersion = worker[w].version => n = Len(attempts'[j])
        BY <1>1, <1>2, <3>3 DEF Reserved
      <3>6. worker'[u] = k /\ n # 0
        BY <1>2, <2>1, <3>2
      <3> HIDE DEF a, j, n
      <3> QED
        BY ONLY <3>1, <3>3, <3>4, <3>5, <3>6 DEF Reserved
    <2>2. CASE u # w
      <3>1. worker'[u] = worker[u] /\ Reserved(worker[u]) /\ WorkerConsistent(u)
        BY <1>1, <2>2 DEF TypeOK, AInv, WorkersConsistent, Goto
      <3>2. CASE worker[u].attempt = 0
        BY <3>1, <3>2 DEF Reserved
      <3>3. CASE worker[u].attempt # 0
        <4>1. /\ worker[u].job \in Jobs
              /\ worker[u].attempt \in DOMAIN attempts[worker[u].job]
          BY <3>1, <3>3 DEF WorkerConsistent
        <4>2. ~(worker[u].job = j /\ worker[u].attempt = n)
          BY <1>1, <1>3, <2>2, <3>1, <3>3, LeaseOfAnother DEF Reserved
        <4>3. /\ attempts'[worker[u].job][worker[u].attempt]
                     = attempts[worker[u].job][worker[u].attempt]
              /\ Len(attempts'[worker[u].job]) = Len(attempts[worker[u].job])
          BY <1>6, <4>1, <4>2
        <4> QED
          BY ONLY <1>1, <3>1, <4>3 DEF Reserved
      <3> QED
        BY <3>2, <3>3
    <2> QED
      BY <2>1, <2>2
  <1>8. ASSUME NEW i \in Jobs, NEW m \in DOMAIN attempts'[i]
        PROVE  Fenced(i, attempts[i][m])' /\ attempts'[i][m].calls <= 1
    <2>1. m \in DOMAIN attempts[i] /\ Fenced(i, attempts[i][m])
      BY <1>6, <1>8 DEF AInv
    <2>2. CASE i = j /\ m = n
      <3>1. attempts'[i][m] = b
        BY <1>6, <2>1, <2>2
      <3>2. Fenced(i, a)
        BY <2>1, <2>2
      <3>3. Fenced(i, b)
        BY ONLY <1>4, <3>2 DEF Fenced
      <3>4. Fenced(i, b)'
        BY ONLY <1>1, <3>3 DEF Fenced
      <3> QED
        BY <1>4, <3>1, <3>4
    <2>3. CASE ~(i = j /\ m = n)
      <3>1. attempts'[i][m] = attempts[i][m]
        BY <1>6, <2>1, <2>3
      <3> QED
        BY <1>1, <2>1, <3>1 DEF AInv, Fenced, CallsBounded
    <2> QED
      BY <2>2, <2>3
  <1>9. \A i \in Jobs : Len(attempts'[i]) <= MaxGenerationAttempts
    BY <1>6 DEF AInv, CallsBounded
  <1>10. ASSUME NEW i \in Jobs, job'[i].status = "succeeded" PROVE Authority(i)'
    <2>1. Authority(i) /\ job'[i] = job[i]
      BY <1>1, <1>10 DEF AInv, PublicationAuthority, Authority
    <2>2. /\ job[i].publishedAttempt \in DOMAIN attempts[i]
          /\ ~(i = j /\ job[i].publishedAttempt = n)
      BY <1>3, <2>1 DEF TypeOK, Authority
    <2>3. /\ attempts'[i][job[i].publishedAttempt] = attempts[i][job[i].publishedAttempt]
          /\ Len(attempts'[i]) = Len(attempts[i])
      BY <1>6, <2>2
    <2> QED
      BY ONLY <2>1, <2>3 DEF Authority
  <1>11. PublicationAuthority' /\ CallsBounded'
    BY <1>8, <1>9, <1>10 DEF PublicationAuthority, Authority, CallsBounded
  <1> QED
    BY <1>7, <1>8, <1>11 DEF AInv

LEMMA PauseAgentAuthority ==
    ASSUME AInv, Inv', NEW g \in Agents, PauseAgent(g)
    PROVE  AInv'
  <1> USE AInvFacts
  <1> DEFINE A == [j \in Jobs |-> [n \in DOMAIN attempts[j] |->
                     IF AgentOf[j] = g /\ job[j].status # "succeeded"
                     THEN [attempts[j][n] EXCEPT !.fenced = TRUE]
                     ELSE attempts[j][n]]]
  <1>1. /\ job' = job /\ worker' = worker /\ attempts' = A
        /\ pauseRevision' = [pauseRevision EXCEPT ![g] = @ + 1]
    BY DEF PauseAgent
  <1>2. ASSUME NEW a \in Attempt
        PROVE  LET b == [a EXCEPT !.fenced = TRUE]
               IN  /\ b \in Attempt
                   /\ b.leaseVersion = a.leaseVersion /\ b.calls = a.calls
                   /\ b.pauseRevision = a.pauseRevision
    BY <1>2 DEF Attempt
  <1>3. ASSUME NEW j \in Jobs, NEW n \in DOMAIN attempts[j]
        PROVE  /\ A[j][n] \in Attempt
               /\ A[j][n].leaseVersion = attempts[j][n].leaseVersion
               /\ A[j][n].calls = attempts[j][n].calls
               /\ A[j][n].pauseRevision = attempts[j][n].pauseRevision
               /\ \/ AgentOf[j] = g /\ job[j].status # "succeeded"
                  \/ A[j][n] = attempts[j][n]
    <2>1. attempts[j][n] \in Attempt
      BY AttemptAt
    <2>2. A[j][n] = IF AgentOf[j] = g /\ job[j].status # "succeeded"
                    THEN [attempts[j][n] EXCEPT !.fenced = TRUE]
                    ELSE attempts[j][n]
      OBVIOUS
    <2> HIDE DEF A
    <2> QED
      BY <1>2, <2>1, <2>2
  <1>4. ASSUME NEW j \in Jobs
        PROVE  DOMAIN A[j] = DOMAIN attempts[j] /\ Len(A[j]) = Len(attempts[j])
    <2>1. attempts[j] \in Seq(Attempt) /\ A[j] \in [DOMAIN attempts[j] -> Attempt]
      BY <1>3 DEF TypeOK
    <2>2. A[j] \in Seq(Attempt) /\ DOMAIN A[j] = DOMAIN attempts[j]
      BY <2>1, SameLength
    <2> QED
      BY <2>1, <2>2
  <1> HIDE DEF A
  <1>5. ASSUME NEW u \in Workers PROVE Reserved(worker[u])'
    <2>1. Reserved(worker[u]) /\ WorkerConsistent(u)
      BY DEF AInv, WorkersConsistent
    <2>2. CASE worker[u].attempt = 0
      BY <1>1, <2>1, <2>2 DEF Reserved
    <2>3. CASE worker[u].attempt # 0
      <3>1. /\ worker[u].job \in Jobs
            /\ worker[u].attempt \in DOMAIN attempts[worker[u].job]
        BY <2>1, <2>3 DEF WorkerConsistent
      <3> QED
        BY <1>1, <1>3, <1>4, <2>1, <3>1 DEF Reserved
    <2> QED
      BY <2>2, <2>3
  <1>6. ASSUME NEW j \in Jobs, NEW n \in DOMAIN attempts'[j]
        PROVE  Fenced(j, attempts[j][n])' /\ attempts'[j][n].calls <= 1
    <2>1. n \in DOMAIN attempts[j]
      BY <1>1, <1>4
    <2>2. /\ Fenced(j, attempts[j][n]) /\ attempts[j][n] \in Attempt
          /\ attempts[j][n].calls <= 1
      BY <2>1, AttemptAt DEF AInv, CallsBounded
    <2>3. /\ AgentOf[j] \in Agents /\ pauseRevision[AgentOf[j]] \in Nat
          /\ attempts[j][n].pauseRevision \in Nat
      BY <2>2, SetsAssumption DEF TypeOK, Attempt
    <2>4. pauseRevision'[AgentOf[j]] =
             IF AgentOf[j] = g THEN pauseRevision[AgentOf[j]] + 1 ELSE pauseRevision[AgentOf[j]]
      BY <1>1, <2>3 DEF TypeOK
    <2>5. attempts'[j][n].calls <= 1
      BY <1>1, <1>3, <2>1, <2>2
    <2>6. CASE AgentOf[j] = g
      <3>1. attempts'[j][n].pauseRevision < pauseRevision'[AgentOf[j]]
        BY <1>1, <1>3, <2>1, <2>2, <2>3, <2>4, <2>6 DEF Fenced
      <3> QED
        BY <1>1, <1>3, <2>1, <2>2, <2>3, <2>4, <2>5, <3>1 DEF Fenced
    <2>7. CASE AgentOf[j] # g
      <3>1. attempts'[j][n] = attempts[j][n]
        BY <1>1, <1>3, <2>1, <2>7
      <3> QED
        BY <2>2, <2>4, <2>5, <2>7, <3>1 DEF Fenced
    <2> QED
      BY <2>6, <2>7
  <1>7. \A j \in Jobs : Len(attempts'[j]) <= MaxGenerationAttempts
    BY <1>1, <1>4 DEF AInv, CallsBounded
  <1>8. ASSUME NEW j \in Jobs, job'[j].status = "succeeded" PROVE Authority(j)'
    <2>1. Authority(j) /\ job'[j] = job[j]
      BY <1>1, <1>8 DEF AInv, PublicationAuthority, Authority
    <2>2. job[j].publishedAttempt \in DOMAIN attempts[j]
      BY <2>1 DEF TypeOK, Authority
    <2>3. /\ attempts'[j][job[j].publishedAttempt] = attempts[j][job[j].publishedAttempt]
          /\ Len(attempts'[j]) = Len(attempts[j])
      BY <1>1, <1>3, <1>4, <1>8, <2>1, <2>2
    <2> QED
      BY ONLY <2>1, <2>3 DEF Authority
  <1>9. PublicationAuthority' /\ CallsBounded'
    BY <1>6, <1>7, <1>8 DEF PublicationAuthority, Authority, CallsBounded
  <1> QED
    BY <1>5, <1>6, <1>9 DEF AInv

-----------------------------------------------------------------------------
(* Theorems.                                                               *)

LEMMA InitAInv == Init => AInv
  <1> SUFFICES ASSUME Init PROVE AInv
    OBVIOUS
  <1>1. Inv
    BY InitInv
  <1>2. \A w \in Workers : Reserved(worker[w])
    BY IdleFields DEF Init, Reserved
  <1>3. \A j \in Jobs : DOMAIN attempts[j] = {} /\ Len(attempts[j]) = 0
    BY DEF Init
  <1>4. CallsBounded
    BY <1>3, AttemptLimitAssumption DEF CallsBounded
  <1>5. PublicationAuthority
    BY DEF Init, PublicationAuthority, NewJob, AbsentJob
  <1> QED
    BY <1>1, <1>2, <1>3, <1>4, <1>5 DEF AInv

LEMMA NextAInv == AInv /\ [Next]_vars => AInv'
  <1> SUFFICES ASSUME AInv, [Next]_vars PROVE AInv'
    OBVIOUS
  <1>1. Inv'
    BY NextInv DEF AInv
  <1>2. Quiet => AInv'
    BY <1>1, QuietStep DEF Quiet
  <1>3. ASSUME NEW w \in Workers, Proceed(w) PROVE AInv'
    BY <1>1, <1>2, <1>3, RecoverGenerationAttemptsQuiet, ExpireGenerationJobsQuiet,
       ClaimGenerationQuiet, ReadPriorQuiet, AcknowledgePriorQuiet,
       GenerationContextQuiet, ReserveGenerationAuthority, StartCallAuthority,
       ProviderReturnsQuiet, SettleGenerationQuiet, ReadLatestQuiet,
       CompleteGenerationQuiet, PublishGenerationAuthority, DenyGenerationQuiet,
       SettleCancelledQuiet
       DEF Proceed
  <1>4. ASSUME NEW w \in Workers, Disturb(w) PROVE AInv'
    BY <1>2, <1>4, RenewGenerationQuiet, DisturbQuiet DEF Disturb
  <1>5. CASE Control
    BY <1>1, <1>2, <1>5, PauseAgentAuthority, SettingQuiet, RemoveSourceQuiet,
       RetryGenerationQuiet
       DEF Control
  <1>6. CASE Tick \/ UNCHANGED vars
    BY <1>2, <1>6, SettingQuiet
  <1> QED
    BY <1>3, <1>4, <1>5, <1>6 DEF Next

\* What a worker knows of its attempt stays true while others take its job.
THEOREM Authorship == Spec => []AInv
  BY InitAInv, NextAInv, PTL DEF Spec

(* A job has at most MaxGenerationAttempts reservations and each is called *)
(* at most once, however many workers reclaim the job, die, lose answers   *)
(* or are told to stop, and however often operators reopen it: the holder  *)
(* of a lease reserves once and only it may start that call.               *)
THEOREM ChargedCallsBounded == Spec => []CallsBounded
  <1>1. AInv => CallsBounded
    BY DEF AInv
  <1> QED
    BY <1>1, Authorship, PTL

(* What is published is the observation of the one call of the last        *)
(* attempt, made under the lease that publishes, and no pause of the agent *)
(* lies between its reservation and its publication.                       *)
THEOREM PublicationAuthorised == Spec => []PublicationAuthority
  <1>1. AInv => PublicationAuthority
    BY DEF AInv
  <1> QED
    BY <1>1, Authorship, PTL
=============================================================================
