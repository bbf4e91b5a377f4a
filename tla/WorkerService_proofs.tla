------------------------ MODULE WorkerService_proofs ------------------------
(* Proofs about WorkerService.                                             *)
EXTENDS WorkerService, TLAPS

(* The longest time from the completion of a cycle to the beginning of a   *)
(* phase of the next one.                                                  *)
Spent(pc) ==
    CASE pc = "status"               -> 0
      [] pc \in {"finished", "wait"} -> StatusTimeout
      [] pc \in {"top", "schedule"}  -> StatusTimeout + CycleInterval
      [] OTHER -> StatusTimeout + CycleInterval + ScheduleTimeout

\* The flags say that the last cycle went well.
Well == state.completed /\ state.storageHealthy

(* The age of the last completed cycle is bounded by the phases since      *)
(* then; a worker that backs off is not healthy.                           *)
AgeBounded ==
    /\ cycle.pc # "ended" => cycle.elapsed <= Longest(cycle.pc)
    /\ cycle.pc = "backoff" => ~Well
    /\ cycle.pc \in Healthy /\ Well
          => state.age <= Spent(cycle.pc) + cycle.elapsed

Inv == TypeOK /\ AgeBounded

\* The deadline of each phase.
LEMMA LongestFacts ==
    /\ Longest("schedule") = ScheduleTimeout
    /\ Longest("execute") = ExecutionTimeout + CleanupTimeout
    /\ Longest("status") = StatusTimeout
    /\ Longest("wait") = CycleInterval
    /\ Longest("backoff") = FailureBackoff
    /\ \A pc \in {"top", "begin", "evidence", "finished", "error", "ended"} :
          Longest(pc) = 0
  BY DurationsAssumption DEF Longest

\* Every phase has a deadline.
LEMMA LongestNat == ASSUME NEW pc \in CyclePC PROVE Longest(pc) \in Nat
  BY DurationsAssumption DEF Longest, CyclePC

\* The time spent before each phase of a healthy cycle.
LEMMA SpentFacts ==
    /\ Spent("status") = 0
    /\ Spent("finished") = StatusTimeout /\ Spent("wait") = StatusTimeout
    /\ Spent("top") = StatusTimeout + CycleInterval
    /\ Spent("schedule") = StatusTimeout + CycleInterval
    /\ Spent("begin") = StatusTimeout + CycleInterval + ScheduleTimeout
    /\ Spent("execute") = StatusTimeout + CycleInterval + ScheduleTimeout
    /\ \A pc \in Healthy : Spent(pc) \in Nat
  BY DurationsAssumption DEF Spent, Healthy

\* The durations, and the staleness they sum to, are numbers.
LEMMA DurationsNat ==
    /\ CycleInterval \in Nat /\ CycleInterval > 0
    /\ FailureBackoff \in Nat /\ CleanupTimeout \in Nat
    /\ ScheduleTimeout \in Nat /\ ExecutionTimeout \in Nat
    /\ StatusTimeout \in Nat /\ StatusLogInterval \in Nat /\ Slack \in Nat
    /\ Staleness \in Nat
    /\ StatusTimeout + CycleInterval + ScheduleTimeout + ExecutionTimeout
          <= Staleness
  BY DurationsAssumption DEF Staleness

-----------------------------------------------------------------------------
(* What the small steps of the goroutines preserve.                        *)

\* A goroutine that enters a phase, with or without an error to report.
LEMMA EnterType ==
    ASSUME TypeOK, NEW pc \in CyclePC, NEW error \in {""} \cup ExecutionError
    PROVE  /\ [cycle EXCEPT !.pc = pc, !.elapsed = 0] \in CycleState
           /\ [cycle EXCEPT !.pc = pc, !.elapsed = 0, !.error = error]
                 \in CycleState
           /\ [cycle EXCEPT !.pc = "ended", !.error = error] \in CycleState
  BY DEF TypeOK, CycleState, CyclePC

\* The ages are numbers.
LEMMA AgeType ==
    ASSUME TypeOK
    PROVE  /\ state.age \in Int /\ state.logAge \in 0 .. StatusLogInterval
           /\ state.age \in 0 .. Staleness + 1
  <1>1. state.age \in 0 .. Staleness + 1 /\ state.logAge \in 0 .. StatusLogInterval
    BY DEF TypeOK, ServeState
  <1> QED BY <1>1, DurationsNat

\* A flag of serveState that is set or cleared.
LEMMA StateType ==
    ASSUME TypeOK
    PROVE  /\ [state EXCEPT !.storageHealthy = FALSE] \in ServeState
           /\ [state EXCEPT !.shuttingDown = TRUE] \in ServeState
  BY DEF TypeOK, ServeState

\* A line of the log.
LEMMA LogType == ASSUME TypeOK, Log PROVE logFailed' \in BOOLEAN
  BY Zenon DEF TypeOK, Log

\* The goroutine gives up because its log has failed.
LEMMA ReporterStep ==
    ASSUME TypeOK, ReporterFails
    PROVE  /\ cycle' \in CycleState /\ state' \in ServeState
           /\ logFailed' \in BOOLEAN /\ cycle'.pc = "ended"
  <1>1. "execution_storage" \in ExecutionError /\ "ended" \in CyclePC
    BY DEF ExecutionError, CyclePC
  <1>2. cycle' \in CycleState
    BY <1>1, EnterType DEF ReporterFails, End
  <1>3. state' \in ServeState
    BY StateType DEF ReporterFails, StorageUnhealthy
  <1>4. cycle'.pc = "ended"
    BY DEF ReporterFails, End, TypeOK, CycleState
  <1> QED BY <1>2, <1>3, <1>4 DEF ReporterFails

\* A goroutine that has ended has no age to bound.
LEMMA EndedAge == ASSUME cycle'.pc = "ended" PROVE AgeBounded'
  BY DEF AgeBounded, Healthy

\* A phase of a healthy cycle follows another one.
LEMMA NextPhaseAge ==
    ASSUME Inv, UNCHANGED state, NEW pc \in Healthy,
           cycle.pc \in Healthy \/ ~Well,
           cycle.pc \in Healthy => Spent(cycle.pc) + Longest(cycle.pc) <= Spent(pc),
           cycle' = [cycle EXCEPT !.pc = pc, !.elapsed = 0]
    PROVE  AgeBounded'
  <1>1. cycle'.pc = pc /\ cycle'.elapsed = 0 /\ pc # "backoff" /\ pc \in CyclePC
    BY DEF Inv, TypeOK, CycleState, CyclePC, Healthy
  <1>2. 0 <= Longest(pc) /\ Longest(cycle.pc) \in Nat
    <2>1. cycle.pc \in CyclePC
      BY DEF Inv, TypeOK, CycleState
    <2>2. Longest(pc) \in Nat /\ Longest(cycle.pc) \in Nat
      BY <1>1, <2>1, LongestNat
    <2> QED BY <2>2
  <1>3. Well' <=> Well
    BY DEF Well
  <1>4. CASE ~Well
    BY <1>1, <1>2, <1>3, <1>4 DEF AgeBounded
  <1>5. CASE Well
    <2>1. cycle.pc \in Healthy /\ cycle.pc # "ended"
      BY <1>5 DEF Healthy
    <2>2. state.age \in Int /\ cycle.elapsed \in Nat
      BY AgeType DEF Inv, TypeOK, CycleState
    <2>3. Spent(pc) \in Nat /\ Spent(cycle.pc) \in Nat
      BY <2>1, SpentFacts
    <2>4. /\ state.age <= Spent(cycle.pc) + cycle.elapsed
          /\ cycle.elapsed <= Longest(cycle.pc)
      BY <1>5, <2>1 DEF Inv, AgeBounded
    <2>5. state.age <= Spent(pc) + 0
      BY <1>2, <2>1, <2>2, <2>3, <2>4
    <2>6. state'.age = state.age
      OBVIOUS
    <2> QED BY <1>1, <1>2, <1>3, <2>5, <2>6 DEF AgeBounded
  <1> QED BY <1>4, <1>5

\* Phases in which nothing is claimed of the age.
LEMMA OtherPhaseAge ==
    ASSUME cycle'.pc \in {"error", "evidence"}, cycle'.elapsed = 0
    PROVE  AgeBounded'
  BY LongestFacts DEF AgeBounded, Healthy

(* A step of the cycle goroutine leaves the other goroutines alone, so its *)
(* own variables and the age are all there is to show.                     *)
LEMMA CycleStep ==
    ASSUME TypeOK, UNCHANGED world,
           cycle' \in CycleState, state' \in ServeState,
           logFailed' \in BOOLEAN, unclean' \in BOOLEAN, unsettled' \in BOOLEAN,
           AgeBounded'
    PROVE  Inv'
  BY DEF Inv, TypeOK, world

\* The same for a step that keeps what is known of past passes.
LEMMA PlainStep ==
    ASSUME TypeOK, UNCHANGED <<world, unclean, unsettled>>,
           cycle' \in CycleState, state' \in ServeState,
           logFailed' \in BOOLEAN, AgeBounded'
    PROVE  Inv'
  <1>1. unclean' \in BOOLEAN /\ unsettled' \in BOOLEAN /\ UNCHANGED world
    BY Zenon DEF TypeOK
  <1> QED BY <1>1, CycleStep

-----------------------------------------------------------------------------
(* Steps of the cycle goroutine.                                           *)

\* A cycle begins, or the goroutine ends.
LEMMA LoopTopInv == ASSUME Inv, LoopTop PROVE Inv'
  <1> USE DurationsNat, LongestFacts, SpentFacts DEF Inv
  <1>1. CASE Cancelled
    <2>1. cycle' = [cycle EXCEPT !.pc = "ended", !.error = "execution_stopped"]
      BY <1>1 DEF LoopTop, End
    <2>2. cycle' \in CycleState
      BY <2>1, EnterType DEF ExecutionError, CyclePC
    <2>4. cycle'.pc = "ended"
      BY <2>1 DEF TypeOK, CycleState
    <2>3. UNCHANGED <<state, logFailed, world, unclean, unsettled>>
      BY <1>1 DEF LoopTop
    <2> QED BY <2>2, <2>3, <2>4, EndedAge, PlainStep DEF TypeOK
  <1>2. CASE ~Cancelled /\ logFailed
    BY <1>2, ReporterStep, EndedAge, PlainStep DEF LoopTop
  <1>3. CASE ~Cancelled /\ ~logFailed
    <2>1. /\ cycle' = [cycle EXCEPT !.pc = "schedule", !.elapsed = 0]
          /\ UNCHANGED <<state, logFailed, world, unclean, unsettled>>
      BY <1>3 DEF LoopTop, Enter
    <2>2. cycle' \in CycleState
      BY <2>1, EnterType DEF CyclePC
    <2>3. AgeBounded'
      BY <2>1, NextPhaseAge DEF LoopTop, Healthy
    <2> QED BY <2>1, <2>2, <2>3, PlainStep DEF TypeOK
  <1> QED BY <1>1, <1>2, <1>3

\* The scheduling part ends.
LEMMA ScheduleEndsInv == ASSUME Inv, ScheduleEnds PROVE Inv'
  <1> USE DurationsNat, LongestFacts, SpentFacts DEF Inv
  <1>1. UNCHANGED <<state, world, unclean, unsettled>> /\ cycle.pc = "schedule"
    BY DEF ScheduleEnds
  <1>2. CASE /\ cycle' = [cycle EXCEPT !.pc = "error", !.elapsed = 0,
                                       !.error = "execution_storage"]
             /\ UNCHANGED logFailed
    <2>1. cycle' \in CycleState
      BY <1>2, EnterType DEF CyclePC, ExecutionError
    <2>2. AgeBounded'
      BY <1>2, OtherPhaseAge DEF TypeOK, CycleState
    <2> QED BY <1>1, <1>2, <2>1, <2>2, PlainStep DEF TypeOK
  <1>3. CASE Log /\ cycle' = [cycle EXCEPT !.pc = "begin", !.elapsed = 0]
    <2>1. cycle' \in CycleState
      BY <1>3, EnterType DEF CyclePC
    <2>2. AgeBounded'
      BY <1>1, <1>3, NextPhaseAge DEF Healthy
    <2> QED BY <1>1, <1>3, <2>1, <2>2, LogType, PlainStep DEF TypeOK
  <1> QED BY <1>2, <1>3 DEF ScheduleEnds, Enter

\* The pass begins.
LEMMA BeginExecutionInv == ASSUME Inv, BeginExecution PROVE Inv'
  <1> USE DurationsNat, LongestFacts, SpentFacts DEF Inv
  <1>1. CASE logFailed
    BY <1>1, ReporterStep, EndedAge, PlainStep DEF BeginExecution
  <1>2. CASE ~logFailed
    <2>1. /\ cycle' = [cycle EXCEPT !.pc = "execute", !.elapsed = 0]
          /\ UNCHANGED <<state, logFailed, world, unclean, unsettled>>
      BY <1>2 DEF BeginExecution, Enter
    <2>2. cycle' \in CycleState
      BY <2>1, EnterType DEF CyclePC
    <2>3. AgeBounded'
      BY <2>1, NextPhaseAge DEF BeginExecution, Healthy
    <2> QED BY <2>1, <2>2, <2>3, PlainStep DEF TypeOK
  <1> QED BY <1>1, <1>2

\* The pass ends; nothing is claimed of the age until its result is recorded.
LEMMA ExecutionEndsInv == ASSUME Inv, ExecutionEnds PROVE Inv'
  <1> USE DurationsNat, LongestFacts, SpentFacts DEF Inv
  <1>1. PICK calls \in {"none", "clean", "failed"},
             error \in {""} \cup ExecutionError :
           /\ cycle' = [cycle EXCEPT !.pc = "evidence", !.elapsed = 0,
                                     !.calls = calls, !.error = error]
           /\ unclean' = IF calls = "none" THEN unclean ELSE calls = "failed"
           /\ unsettled' = (Cancelled /\ error = "execution_storage")
    BY DEF ExecutionEnds
  <1>2. cycle' \in CycleState
    BY <1>1 DEF TypeOK, CycleState, CyclePC
  <1>3. unclean' \in BOOLEAN /\ unsettled' \in BOOLEAN
    BY Zenon, <1>1 DEF TypeOK
  <1>4. AgeBounded'
    BY <1>1, OtherPhaseAge DEF TypeOK, CycleState
  <1>5. UNCHANGED <<state, logFailed, world>>
    BY DEF ExecutionEnds
  <1> QED BY <1>2, <1>3, <1>4, <1>5, CycleStep DEF TypeOK

\* A completed cycle resets the age.
LEMMA RecordEvidenceInv == ASSUME Inv, RecordEvidence PROVE Inv'
  <1> USE DurationsNat, LongestFacts, SpentFacts DEF Inv
  <1>1. Degraded \in BOOLEAN
    <2>1. state.providerDegraded \in BOOLEAN
      BY DEF TypeOK, ServeState
    <2> QED BY Zenon, <2>1 DEF Degraded
  <1>2. Log /\ UNCHANGED <<world, unclean, unsettled>>
    BY DEF RecordEvidence
  <1>3. CASE cycle.error # ""
    <2>1. /\ state' = [state EXCEPT !.providerDegraded = Degraded]
          /\ cycle' = [cycle EXCEPT !.pc = "error", !.elapsed = 0]
      BY <1>3 DEF RecordEvidence, Enter
    <2>2. cycle' \in CycleState
      BY <2>1, EnterType DEF CyclePC
    <2>3. state' \in ServeState
      BY <1>1, <2>1 DEF TypeOK, ServeState
    <2>4. AgeBounded'
      BY <2>1, OtherPhaseAge DEF TypeOK, CycleState
    <2> QED BY <1>2, <2>2, <2>3, <2>4, LogType, PlainStep
  <1>4. CASE cycle.error = ""
    <2> DEFINE slot == state.logAge >= StatusLogInterval
               log == IF slot THEN 0 ELSE state.logAge
               pc == IF slot THEN "status" ELSE "finished"
    <2>1. /\ state' = [state EXCEPT !.providerDegraded = Degraded,
                          !.storageHealthy = TRUE, !.completed = TRUE,
                          !.age = 0, !.logAge = log]
          /\ cycle' = [cycle EXCEPT !.pc = pc, !.elapsed = 0]
      BY <1>4 DEF RecordEvidence, Enter
    <2>a. log \in 0 .. StatusLogInterval /\ pc \in {"status", "finished"}
      BY AgeType
    <2> HIDE DEF log, pc
    <2>2. cycle' \in CycleState
      BY <2>1, <2>a, EnterType DEF CyclePC
    <2>3. state' \in ServeState
      <3>1. 0 \in 0 .. Staleness + 1
        OBVIOUS
      <3> QED BY <1>1, <2>1, <2>a, <3>1 DEF TypeOK, ServeState
    <2>4. AgeBounded'
      <3>1. cycle'.pc = pc /\ cycle'.elapsed = 0 /\ state'.age = 0
        BY <2>1 DEF TypeOK, CycleState, ServeState
      <3> QED BY <2>a, <3>1 DEF AgeBounded
    <2> QED BY <1>2, <2>2, <2>3, <2>4, LogType, PlainStep
  <1> QED BY <1>3, <1>4

\* The status snapshot ends.
LEMMA StatusEndsInv == ASSUME Inv, StatusEnds PROVE Inv'
  <1> USE DurationsNat, LongestFacts, SpentFacts DEF Inv
  <1>1. Log /\ UNCHANGED <<world, unclean, unsettled>> /\ cycle.pc = "status"
    BY DEF StatusEnds
  <1>2. CASE /\ cycle' = [cycle EXCEPT !.pc = "finished", !.elapsed = 0]
             /\ UNCHANGED state
    <2>1. cycle' \in CycleState
      BY <1>2, EnterType DEF CyclePC
    <2>2. AgeBounded'
      BY <1>1, <1>2, NextPhaseAge DEF Healthy
    <2> QED BY <1>1, <1>2, <2>1, <2>2, LogType, PlainStep DEF TypeOK
  <1>3. CASE /\ StorageUnhealthy
             /\ cycle' = [cycle EXCEPT !.pc = "error", !.elapsed = 0,
                                       !.error = "execution_storage"]
    <2>1. cycle' \in CycleState
      BY <1>3, EnterType DEF CyclePC, ExecutionError
    <2>2. state' \in ServeState
      BY <1>3, StateType DEF StorageUnhealthy
    <2>3. AgeBounded'
      BY <1>3, OtherPhaseAge DEF TypeOK, CycleState
    <2> QED BY <1>1, <2>1, <2>2, <2>3, LogType, PlainStep
  <1> QED BY <1>2, <1>3 DEF StatusEnds, Enter

\* The wait for the next cycle begins.
LEMMA CycleFinishesInv == ASSUME Inv, CycleFinishes PROVE Inv'
  <1> USE DurationsNat, LongestFacts, SpentFacts DEF Inv
  <1>1. CASE logFailed
    BY <1>1, ReporterStep, EndedAge, PlainStep DEF CycleFinishes
  <1>2. CASE ~logFailed
    <2>1. /\ cycle' = [cycle EXCEPT !.pc = "wait", !.elapsed = 0]
          /\ UNCHANGED <<state, logFailed, world, unclean, unsettled>>
      BY <1>2 DEF CycleFinishes, Enter
    <2>2. cycle' \in CycleState
      BY <2>1, EnterType DEF CyclePC
    <2>3. AgeBounded'
      BY <2>1, NextPhaseAge DEF CycleFinishes, Healthy
    <2> QED BY <2>1, <2>2, <2>3, PlainStep DEF TypeOK
  <1> QED BY <1>1, <1>2

\* A failed cycle leaves the flags unhealthy.
LEMMA CycleFailsInv == ASSUME Inv, CycleFails PROVE Inv'
  <1> USE DurationsNat, LongestFacts, SpentFacts DEF Inv
  <1>1. UNCHANGED <<world, unclean, unsettled>>
    BY DEF CycleFails
  <1>2. CASE ReporterFails
    BY <1>1, <1>2, ReporterStep, EndedAge, PlainStep
  <1>3. CASE cycle.error \in FatalError /\ Log /\ End(cycle.error) /\ UNCHANGED state
    <2>1. cycle' \in CycleState
      BY <1>3, EnterType DEF End, ExecutionError, CyclePC
    <2>2. cycle'.pc = "ended"
      BY <1>3 DEF End, TypeOK, CycleState
    <2> QED BY <1>1, <1>3, <2>1, <2>2, LogType, EndedAge, PlainStep DEF TypeOK
  <1>4. CASE StorageUnhealthy /\ Enter("backoff") /\ UNCHANGED logFailed
    <2>1. cycle' \in CycleState
      BY <1>4, EnterType DEF Enter, CyclePC
    <2>2. state' \in ServeState
      BY <1>4, StateType DEF StorageUnhealthy
    <2>3. AgeBounded'
      <3>1. cycle'.pc = "backoff" /\ cycle'.elapsed = 0
        BY <1>4 DEF Enter, TypeOK, CycleState
      <3>2. ~Well'
        BY <1>4 DEF StorageUnhealthy, Well, TypeOK, ServeState
      <3> QED BY <3>1, <3>2 DEF AgeBounded, Healthy
    <2> QED BY <1>1, <1>4, <2>1, <2>2, <2>3, PlainStep DEF TypeOK
  <1> QED BY <1>2, <1>3, <1>4 DEF CycleFails

\* The next cycle begins.
LEMMA WaitEndsInv == ASSUME Inv, WaitEnds PROVE Inv'
  <1> USE DurationsNat, LongestFacts, SpentFacts DEF Inv
  <1>1. UNCHANGED <<state, logFailed, world, unclean, unsettled>>
    BY DEF WaitEnds
  <1>2. CASE End("execution_stopped")
    <2>1. cycle' \in CycleState
      BY <1>2, EnterType DEF End, ExecutionError, CyclePC
    <2>2. cycle'.pc = "ended"
      BY <1>2 DEF End, TypeOK, CycleState
    <2> QED BY <1>1, <2>1, <2>2, EndedAge, PlainStep DEF TypeOK
  <1>3. CASE Enter("top")
    <2>1. cycle' \in CycleState
      BY <1>3, EnterType DEF Enter, CyclePC
    <2>2. CASE cycle.pc = "wait"
      <3>1. AgeBounded'
        BY <1>1, <1>3, <2>2, NextPhaseAge DEF Enter, Healthy
      <3> QED BY <1>1, <2>1, <3>1, PlainStep DEF TypeOK
    <2>3. CASE cycle.pc = "backoff"
      <3>1. AgeBounded'
        BY <1>1, <1>3, <2>3, NextPhaseAge DEF Enter, AgeBounded, Healthy
      <3> QED BY <1>1, <2>1, <3>1, PlainStep DEF TypeOK
    <2> QED BY <2>2, <2>3 DEF WaitEnds
  <1> QED BY <1>2, <1>3 DEF WaitEnds

\* Every step of the cycle goroutine keeps the invariant.
LEMMA CycleInv == ASSUME Inv, Cycle PROVE Inv'
  BY LoopTopInv, ScheduleEndsInv, BeginExecutionInv, ExecutionEndsInv,
     RecordEvidenceInv, StatusEndsInv, CycleFinishesInv, CycleFailsInv,
     WaitEndsInv DEF Cycle

-----------------------------------------------------------------------------
(* Steps of the others, and time.                                          *)

\* Neither the age nor the phase of the cycle changes.
LEMMA OtherStep ==
    ASSUME Inv, cycle' = cycle, state' \in ServeState,
           state'.age = state.age, Well' <=> Well,
           main' \in MainState,
           logFailed' \in BOOLEAN, signalled' \in BOOLEAN, stopCycles' \in BOOLEAN,
           listener' \in {"serving", "failed", "closed"},
           probe' \in [Probes -> ProbeState],
           UNCHANGED <<unclean, unsettled>>
    PROVE  Inv'
  <1>1. AgeBounded'
    BY DEF Inv, AgeBounded
  <1>2. TypeOK'
    BY DEF Inv, TypeOK
  <1> QED BY <1>1, <1>2 DEF Inv

\* Shutting down touches no other flag.
LEMMA ShuttingDown ==
    ASSUME TypeOK, state' = [state EXCEPT !.shuttingDown = TRUE]
    PROVE  state' \in ServeState /\ state'.age = state.age /\ (Well' <=> Well)
  BY StateType DEF TypeOK, ServeState, Well

\* A handler enters its next phase.
LEMMA ProbeType ==
    ASSUME TypeOK, NEW p \in Probes, NEW from, NEW to \in ProbePC,
           ProbeStep(p, from, to)
    PROVE  probe' \in [Probes -> ProbeState]
  <1>1. [pc |-> to, elapsed |-> 0] \in ProbeState
    BY DEF ProbeState
  <1> QED BY <1>1 DEF ProbeStep, TypeOK

\* A probe only reads the flags.
LEMMA ProbingInv == ASSUME Inv, Probing PROVE Inv'
  <1>1. PICK p \in Probes, from \in ProbePC, to \in ProbePC : ProbeStep(p, from, to)
    BY DEF Probing, Handling, ReadyRequest, EnterDatabase, DatabaseFails,
           DatabaseAnswers, AnswerReady, RequestDone, ProbePC
  <1>2. probe' \in [Probes -> ProbeState]
    BY <1>1, ProbeType DEF Inv
  <1>3. UNCHANGED <<cycle, state, logFailed, signalled, stopCycles, listener,
                    main, unclean, unsettled>>
    BY <1>1 DEF ProbeStep
  <1>4. Well' <=> Well
    BY <1>3 DEF Well
  <1> QED BY <1>2, <1>3, <1>4, OtherStep DEF Inv, TypeOK

\* The main goroutine leaves the shutdown.
LEMMA MainType ==
    ASSUME TypeOK
    PROVE  /\ [main EXCEPT !.pc = "join", !.elapsed = 0] \in MainState
           /\ [main EXCEPT !.pc = "join", !.elapsed = 0, !.shutdownFailed = TRUE]
                 \in MainState
  <1>1. "join" \in MainPC /\ 0 \in Nat /\ TRUE \in BOOLEAN
    BY DEF MainPC
  <1>2. ASSUME NEW pc \in MainPC, NEW n \in Nat, NEW b \in BOOLEAN
        PROVE  /\ [main EXCEPT !.pc = pc, !.elapsed = n] \in MainState
               /\ [main EXCEPT !.pc = pc, !.elapsed = n, !.shutdownFailed = b]
                     \in MainState
    BY DEF TypeOK, MainState
  <1> QED BY <1>1, <1>2

\* The main goroutine only turns the service unready.
LEMMA MainInv == ASSUME Inv, Main PROVE Inv'
  <1> USE DEF Inv
  <1>1. CASE MainSelect
    <2>1. UNCHANGED <<cycle, signalled, stopCycles, listener, probe, unclean,
                      unsettled>>
      BY <1>1 DEF MainSelect
    <2>2. main' \in MainState
      BY <1>1 DEF MainSelect, TypeOK, MainState, MainPC
    <2>3. CASE UNCHANGED <<state, logFailed>>
      <3>1. Well' <=> Well
        BY <2>3 DEF Well
      <3> QED BY <2>1, <2>2, <2>3, <3>1, OtherStep DEF TypeOK
    <2>4. CASE state' = [state EXCEPT !.shuttingDown = TRUE] /\ Log
      BY <2>1, <2>2, <2>4, ShuttingDown, LogType, OtherStep DEF TypeOK
    <2> QED BY <1>1, <2>3, <2>4 DEF MainSelect
  <1>2. CASE MainStops
    <2>1. main' \in MainState
      BY <1>2 DEF MainStops, TypeOK, MainState, MainPC
    <2>2. /\ UNCHANGED <<cycle, logFailed, signalled, listener, probe, unclean,
                         unsettled>>
          /\ state' = [state EXCEPT !.shuttingDown = TRUE] /\ stopCycles' = TRUE
      BY <1>2 DEF MainStops
    <2> QED BY <2>1, <2>2, ShuttingDown, OtherStep DEF TypeOK
  <1>3. CASE MainCloses
    <2>1. main' \in MainState
      BY <1>3 DEF MainCloses, TypeOK, MainState, MainPC
    <2>2. listener' \in {"serving", "failed", "closed"}
      BY <1>3 DEF MainCloses, TypeOK
    <2>3. UNCHANGED <<cycle, state, logFailed, signalled, stopCycles, probe,
                      unclean, unsettled>>
      BY <1>3 DEF MainCloses
    <2>4. Well' <=> Well
      BY <2>3 DEF Well
    <2> QED BY <2>1, <2>2, <2>3, <2>4, OtherStep DEF TypeOK
  <1>4. CASE MainShutsDown
    <2>1. main' \in MainState
      <3>1. \/ main' = [main EXCEPT !.pc = "join", !.elapsed = 0]
            \/ main' = [main EXCEPT !.pc = "join", !.elapsed = 0,
                                    !.shutdownFailed = TRUE]
        BY <1>4 DEF MainShutsDown
      <3> QED BY <3>1, MainType
    <2>2. logFailed' \in BOOLEAN
      <3>1. UNCHANGED logFailed \/ Log
        BY <1>4 DEF MainShutsDown
      <3> QED BY <3>1, LogType DEF TypeOK
    <2>3. UNCHANGED <<cycle, state, signalled, stopCycles, listener, probe,
                      unclean, unsettled>>
      BY <1>4 DEF MainShutsDown
    <2>4. Well' <=> Well
      BY <2>3 DEF Well
    <2> QED BY <2>1, <2>2, <2>3, <2>4, OtherStep DEF TypeOK
  <1>5. CASE AwaitListener \/ AwaitCycles \/ MainReturns
    <2>1. UNCHANGED <<cycle, state, logFailed, signalled, stopCycles, listener,
                      probe, unclean, unsettled>>
      BY <1>5 DEF AwaitListener, AwaitCycles, MainReturns
    <2>2. main' \in MainState
      <3>1. CASE AwaitListener \/ AwaitCycles
        BY <3>1 DEF AwaitListener, AwaitCycles, TypeOK, MainState
      <3>2. CASE MainReturns
        <4>1. Result \in {"", "ok"} \cup ExecutionError
          BY DEF Result, ExecutionError, FatalError, TypeOK, CycleState
        <4> QED BY <3>2, <4>1 DEF MainReturns, TypeOK, MainState, MainPC
      <3> QED BY <1>5, <3>1, <3>2
    <2>3. Well' <=> Well
      BY <2>1 DEF Well
    <2> QED BY <2>1, <2>2, <2>3, OtherStep DEF TypeOK
  <1> QED BY <1>1, <1>2, <1>3, <1>4, <1>5 DEF Main

\* A signal or a failing listener touches neither flags nor cycle.
LEMMA EventInv == ASSUME Inv, Signal \/ ListenerFails PROVE Inv'
  <1>1. UNCHANGED <<cycle, state, logFailed, stopCycles, probe, main, unclean,
                    unsettled>>
    BY DEF Signal, ListenerFails
  <1>2. /\ signalled' \in BOOLEAN
        /\ listener' \in {"serving", "failed", "closed"}
    BY DEF Signal, ListenerFails, Inv, TypeOK
  <1>3. Well' <=> Well
    BY <1>1 DEF Well
  <1> QED BY <1>1, <1>2, <1>3, OtherStep DEF Inv, TypeOK

\* Time passes for the handlers and for the shutdown, if it has begun.
LEMMA TickTypes ==
    ASSUME TypeOK, Tick
    PROVE  probe' \in [Probes -> ProbeState] /\ main' \in MainState
  <1>1. ASSUME NEW p \in Probes
        PROVE  /\ probe[p] \in ProbeState
               /\ [probe[p] EXCEPT !.elapsed = probe[p].elapsed + 1] \in ProbeState
    <2>1. probe[p] \in ProbeState
      BY <1>1 DEF TypeOK
    <2>2. probe[p].elapsed + 1 \in Nat
      BY <2>1 DEF ProbeState
    <2> QED BY <2>1, <2>2 DEF ProbeState
  <1>2. probe' \in [Probes -> ProbeState]
    BY <1>1 DEF Tick
  <1>3. main.elapsed + 1 \in Nat
    <2>1. main.elapsed \in Nat
      BY DEF TypeOK, MainState
    <2> QED BY <2>1
  <1>4. main' = main \/ main' = [main EXCEPT !.elapsed = main.elapsed + 1]
    BY DEF Tick
  <1>5. main' \in MainState
    BY <1>3, <1>4 DEF TypeOK, MainState
  <1> QED BY <1>2, <1>5

\* A tick changes no phase of the main goroutine and of a handler.
LEMMA TickPhases ==
    ASSUME TypeOK, Tick
    PROVE  /\ \A p \in Probes : probe'[p].pc = probe[p].pc
           /\ main'.pc = main.pc /\ main'.cycleJoined = main.cycleJoined
           /\ main'.listenerJoined = main.listenerJoined
           /\ main'.listenerError = main.listenerError
           /\ main'.shutdownFailed = main.shutdownFailed
           /\ main'.result = main.result
  <1>1. ASSUME NEW p \in Probes PROVE probe'[p].pc = probe[p].pc
    <2>1. probe[p] \in ProbeState
      BY <1>1 DEF TypeOK
    <2>2. probe'[p] = probe[p]
             \/ probe'[p] = [probe[p] EXCEPT !.elapsed = probe[p].elapsed + 1]
      BY <1>1 DEF Tick
    <2> QED BY <2>1, <2>2 DEF ProbeState
  <1>2. main' = main \/ main' = [main EXCEPT !.elapsed = main.elapsed + 1]
    BY DEF Tick
  <1> QED BY <1>1, <1>2 DEF TypeOK, MainState

\* A tick sends no signal, ends no listener and writes no line.
LEMMA TimeStep ==
    ASSUME TypeOK, Tick, cycle' \in CycleState, state' \in ServeState, AgeBounded'
    PROVE  Inv'
  <1>1. probe' \in [Probes -> ProbeState] /\ main' \in MainState
    BY TickTypes
  <1>2. UNCHANGED <<logFailed, signalled, stopCycles, listener, unclean, unsettled>>
    BY DEF Tick
  <1>3. TypeOK'
    BY <1>1, <1>2 DEF TypeOK
  <1> QED BY <1>3 DEF Inv

\* Time adds as much to the age as to the phase.
LEMMA TickInv == ASSUME Inv, Tick PROVE Inv'
  <1> USE DEF Inv
  <1> DEFINE age == AtMost(state.age + 1, Staleness + 1)
             logAge == AtMost(state.logAge + 1, StatusLogInterval)
  <1>1. state' = [state EXCEPT !.age = age, !.logAge = logAge]
    BY DEF Tick
  <1>2. /\ age \in 0 .. Staleness + 1 /\ logAge \in 0 .. StatusLogInterval
        /\ age <= state.age + 1
    <2>1. /\ state.age \in 0 .. Staleness + 1
          /\ state.logAge \in 0 .. StatusLogInterval
      BY AgeType
    <2> QED BY <2>1, DurationsNat DEF AtMost
  <1> HIDE DEF age, logAge
  <1>3. state' \in ServeState /\ state'.age = age /\ (Well' <=> Well)
    <2>1. state' \in ServeState
      BY <1>1, <1>2 DEF TypeOK, ServeState
    <2>2. state'.age = age
      BY <1>1 DEF TypeOK, ServeState
    <2>3. Well' <=> Well
      BY <1>1 DEF TypeOK, ServeState, Well
    <2> QED BY <2>1, <2>2, <2>3
  <1>4. CASE cycle.pc = "ended"
    <2>1. cycle' \in CycleState /\ cycle'.pc = "ended"
      BY <1>4 DEF Tick, TypeOK, CycleState
    <2> QED BY <1>3, <2>1, EndedAge, TimeStep
  <1>5. CASE cycle.pc # "ended"
    <2>1. /\ cycle' \in CycleState /\ cycle'.pc = cycle.pc
          /\ cycle'.elapsed = cycle.elapsed + 1
          /\ cycle.elapsed < Longest(cycle.pc)
      <3>1. cycle' = [cycle EXCEPT !.elapsed = cycle.elapsed + 1]
        BY <1>5 DEF Tick
      <3>a. cycle.elapsed \in Nat
        BY DEF TypeOK, CycleState
      <3>2. cycle.elapsed + 1 \in Nat
        BY <3>a
      <3>3. cycle' \in CycleState
        BY <3>1, <3>2 DEF TypeOK, CycleState
      <3>4. cycle'.pc = cycle.pc /\ cycle'.elapsed = cycle.elapsed + 1
        BY <3>1 DEF TypeOK, CycleState
      <3>5. cycle.elapsed < Longest(cycle.pc)
        BY <1>5 DEF Tick
      <3> QED BY <3>3, <3>4, <3>5
    <2>2. /\ cycle.pc \in CyclePC /\ cycle.elapsed \in Nat
          /\ state.age \in Int /\ age \in Int
      <3>1. cycle.pc \in CyclePC /\ cycle.elapsed \in Nat
        BY DEF TypeOK, CycleState
      <3>2. state.age \in Int
        BY AgeType
      <3>3. age \in Int
        BY <1>2, DurationsNat
      <3> QED BY <3>1, <3>2, <3>3
    <2>3. Longest(cycle.pc) \in Nat
      BY <2>2, LongestNat
    <2>4. cycle'.elapsed <= Longest(cycle'.pc)
      BY <2>1, <2>2, <2>3
    <2>5. ASSUME cycle.pc \in Healthy, Well
          PROVE  state'.age <= Spent(cycle'.pc) + cycle'.elapsed
      <3>1. Spent(cycle.pc) \in Nat
        BY <2>5, SpentFacts
      <3>2. state.age <= Spent(cycle.pc) + cycle.elapsed
        BY <2>5 DEF AgeBounded
      <3> QED BY <1>2, <1>3, <2>1, <2>2, <3>1, <3>2
    <2>6. AgeBounded'
      BY <1>3, <1>5, <2>1, <2>4, <2>5 DEF AgeBounded
    <2> QED BY <1>3, <2>1, <2>6, TimeStep
  <1> QED BY <1>4, <1>5

\* The service starts unready, at the top of its first cycle.
LEMMA InitInv == Init => Inv
  <1> SUFFICES ASSUME Init PROVE Inv
    OBVIOUS
  <1>1. cycle \in CycleState
    BY DEF Init, CycleState, CyclePC
  <1>2. state \in ServeState
    <2>1. Staleness + 1 \in 0 .. Staleness + 1
      BY DurationsNat
    <2>2. StatusLogInterval \in 0 .. StatusLogInterval
      BY DurationsNat
    <2> QED BY <2>1, <2>2 DEF Init, ServeState
  <1>3. main \in MainState /\ probe \in [Probes -> ProbeState]
    BY DEF Init, MainState, MainPC, ProbeState, ProbePC
  <1>4. AgeBounded
    <2>1. cycle.pc = "top" /\ cycle.elapsed = 0 /\ ~Well
      BY DEF Init, Well
    <2> QED BY <2>1, LongestFacts DEF AgeBounded
  <1> QED BY <1>1, <1>2, <1>3, <1>4 DEF Init, Inv, TypeOK

-----------------------------------------------------------------------------
(* Theorems.                                                               *)

(* Inv is an invariant of the service: its goroutines keep their types,    *)
(* and the age of the last completed cycle stays within the deadlines of   *)
(* the phases since then.                                                  *)
THEOREM Invariance == Spec => []Inv
  <1>1. Inv /\ [Next]_vars => Inv'
    <2> SUFFICES ASSUME Inv, [Next]_vars PROVE Inv'
      OBVIOUS
    <2>1. CASE UNCHANGED vars
      <3>1. Well' <=> Well
        BY <2>1 DEF vars, Well
      <3> QED BY <2>1, <3>1, OtherStep DEF vars, Inv, TypeOK
    <2> QED BY <2>1, CycleInv, ProbingInv, MainInv, EventInv, TickInv DEF Next
  <1> QED BY InitInv, <1>1, PTL DEF Spec

(* serveProgressStaleness is long enough: as long as every part of a cycle *)
(* keeps its deadline, readiness never expires between two cycles of a     *)
(* healthy worker.                                                         *)
THEOREM ReadinessOutlivesCycle == Spec => []FreshWhileHealthy
  <1>1. Inv => FreshWhileHealthy
    <2> SUFFICES ASSUME Inv, Well, cycle.pc \in Healthy,
                        cycle.pc = "execute" => cycle.elapsed <= ExecutionTimeout
                 PROVE  state.age <= Staleness
      BY DEF FreshWhileHealthy, Well
    <2>1. TypeOK /\ AgeBounded /\ cycle.pc # "ended"
      BY DEF Inv, Healthy
    <2>2. state.age <= Spent(cycle.pc) + cycle.elapsed
      BY <2>1 DEF AgeBounded
    <2>3. cycle.elapsed <= Longest(cycle.pc)
      BY <2>1 DEF AgeBounded
    <2>4. state.age \in Int
      BY <2>1, AgeType
    <2>5. cycle.elapsed \in Nat
      BY <2>1 DEF TypeOK, CycleState
    <2> QED BY <2>2, <2>3, <2>4, <2>5, DurationsNat, LongestFacts, SpentFacts DEF Healthy
  <1> QED BY <1>1, Invariance, PTL

-----------------------------------------------------------------------------
(* What the flags tell.                                                    *)

(* The flags lag behind by what has not been recorded yet: the main        *)
(* goroutine sets its own before it does anything else, and the outcome of *)
(* a pass is on its way to them while its evidence is being recorded.      *)
FlagsTell ==
    /\ main.pc \notin {"select", "stopping"} => state.shuttingDown
    /\ unclean => IF cycle.pc = "evidence" THEN Degraded ELSE state.providerDegraded

\* Only the main goroutine is about shuttingDown.
LEMMA FlagsCycle == ASSUME TypeOK, FlagsTell, Cycle PROVE FlagsTell'
  <1>1. UNCHANGED main
    BY DEF Cycle, LoopTop, ScheduleEnds, BeginExecution, ExecutionEnds,
           RecordEvidence, StatusEnds, CycleFinishes, CycleFails, WaitEnds, world
  <1>2. CASE ExecutionEnds
    <2>1. PICK calls \in {"none", "clean", "failed"}, error \in {""} \cup ExecutionError :
             /\ cycle' = [cycle EXCEPT !.pc = "evidence", !.elapsed = 0,
                                       !.calls = calls, !.error = error]
             /\ unclean' = IF calls = "none" THEN unclean ELSE calls = "failed"
      BY <1>2 DEF ExecutionEnds
    <2>2. cycle.pc = "execute" /\ state' = state
      BY <1>2 DEF ExecutionEnds
    <2>3. cycle'.pc = "evidence" /\ cycle'.calls = calls
      BY <2>1 DEF TypeOK, CycleState
    <2>4. unclean' => Degraded'
      <3>1. CASE calls = "none"
        BY <2>1, <2>2, <2>3, <3>1 DEF FlagsTell, Degraded
      <3>2. CASE calls # "none"
        BY <2>1, <2>3, <3>2 DEF Degraded
      <3> QED BY <3>1, <3>2
    <2> QED BY <1>1, <2>2, <2>3, <2>4 DEF FlagsTell
  <1>3. CASE RecordEvidence
    <2>1. /\ unclean' = unclean /\ cycle.pc = "evidence"
          /\ state'.providerDegraded = Degraded
          /\ state'.shuttingDown = state.shuttingDown
          /\ cycle'.pc # "evidence"
      BY <1>3 DEF RecordEvidence, Enter, TypeOK, CycleState, ServeState
    <2> QED BY <1>1, <2>1 DEF FlagsTell
  <1>4. CASE LoopTop \/ ScheduleEnds \/ BeginExecution \/ StatusEnds \/ CycleFinishes
              \/ CycleFails \/ WaitEnds
    <2>1. /\ unclean' = unclean /\ cycle.pc # "evidence"
          /\ state' = state \/ state' = [state EXCEPT !.storageHealthy = FALSE]
      BY <1>4 DEF LoopTop, ScheduleEnds, BeginExecution, StatusEnds, CycleFinishes, CycleFails,
                  WaitEnds, ReporterFails, StorageUnhealthy
    <2>2. cycle'.pc # "evidence"
      BY <1>4 DEF LoopTop, ScheduleEnds, BeginExecution, StatusEnds, CycleFinishes, CycleFails,
                  WaitEnds, ReporterFails, Enter, End, TypeOK, CycleState
    <2>3. state'.providerDegraded = state.providerDegraded /\ state'.shuttingDown = state.shuttingDown
      BY <2>1 DEF TypeOK, ServeState
    <2> QED BY <1>1, <2>1, <2>2, <2>3 DEF FlagsTell
  <1> QED BY <1>2, <1>3, <1>4 DEF Cycle

\* The flag of the shutdown is set before the listener is shut down.
LEMMA FlagsMain == ASSUME TypeOK, FlagsTell, Main PROVE FlagsTell'
  <1>1. UNCHANGED <<cycle, unclean>>
    BY DEF Main, MainSelect, MainStops, MainCloses, MainShutsDown, AwaitListener, AwaitCycles,
           MainReturns
  <1>2. state' = state \/ state' = [state EXCEPT !.shuttingDown = TRUE]
    BY DEF Main, MainSelect, MainStops, MainCloses, MainShutsDown, AwaitListener, AwaitCycles,
           MainReturns
  <1>3. /\ state'.providerDegraded = state.providerDegraded
        /\ state.shuttingDown => state'.shuttingDown
    BY <1>2 DEF TypeOK, ServeState
  <1>4. main'.pc \notin {"select", "stopping"} => state'.shuttingDown
    <2>1. CASE MainSelect
      BY <2>1 DEF MainSelect, TypeOK, MainState
    <2>2. CASE MainStops
      BY <2>2 DEF MainStops, TypeOK, ServeState
    <2>3. CASE MainCloses \/ MainShutsDown \/ AwaitListener \/ AwaitCycles \/ MainReturns
      BY <1>3, <2>3 DEF MainCloses, MainShutsDown, AwaitListener, AwaitCycles, MainReturns, FlagsTell
    <2> QED BY <2>1, <2>2, <2>3 DEF Main
  <1> QED BY <1>1, <1>3, <1>4 DEF FlagsTell, Degraded

\* Probes, signals and time change no flag.
LEMMA FlagsOthers ==
    ASSUME TypeOK, FlagsTell, Probing \/ Signal \/ ListenerFails \/ Tick
    PROVE  FlagsTell'
  <1>1. main'.pc = main.pc /\ unclean' = unclean
    <2>1. CASE Tick
      BY <2>1, TickPhases DEF Tick
    <2>2. CASE Probing \/ Signal \/ ListenerFails
      BY <2>2 DEF Probing, Handling, ReadyRequest, EnterDatabase, DatabaseFails, DatabaseAnswers,
                  AnswerReady, RequestDone, ProbeStep, Signal, ListenerFails
    <2> QED BY <2>1, <2>2
  <1>2. /\ state'.providerDegraded = state.providerDegraded
        /\ state'.shuttingDown = state.shuttingDown
        /\ cycle'.pc = cycle.pc /\ cycle'.calls = cycle.calls
    <2>1. CASE Tick
      BY <2>1 DEF Tick, TypeOK, ServeState, CycleState
    <2>2. CASE Probing \/ Signal \/ ListenerFails
      BY <2>2 DEF Probing, Handling, ReadyRequest, EnterDatabase, DatabaseFails, DatabaseAnswers,
                  AnswerReady, RequestDone, ProbeStep, Signal, ListenerFails
    <2> QED BY <2>1, <2>2
  <1> QED BY <1>1, <1>2 DEF FlagsTell, Degraded

LEMMA FlagsInvariance == Spec => []FlagsTell
  <1>1. Init => FlagsTell
    <2> SUFFICES ASSUME Init PROVE FlagsTell
      OBVIOUS
    <2>1. main.pc = "select"
      BY DEF Init
    <2>2. ~unclean
      BY Zenon DEF Init
    <2> QED BY <2>1, <2>2 DEF FlagsTell
  <1>2. Inv /\ FlagsTell /\ [Next]_vars => FlagsTell'
    <2> SUFFICES ASSUME Inv, FlagsTell, [Next]_vars PROVE FlagsTell'
      OBVIOUS
    <2>1. TypeOK
      BY DEF Inv
    <2>2. CASE UNCHANGED vars
      BY <2>2 DEF vars, FlagsTell, Degraded
    <2> QED BY <2>1, <2>2, FlagsCycle, FlagsMain, FlagsOthers DEF Next
  <1> QED BY <1>1, <1>2, Invariance, PTL DEF Spec

-----------------------------------------------------------------------------
(* The exit of the process.                                                *)

(* A result is received only from a goroutine that has ended, an ended     *)
(* goroutine stays as it is, and a shutdown in time has waited for the     *)
(* handlers.                                                               *)
Joined ==
    /\ main.cycleJoined => cycle.pc = "ended"
    /\ cycle.pc = "ended" => cycle.error # ""
    /\ main.listenerJoined => listener # "serving"
    /\ main.listenerJoined /\ listener = "failed" => main.listenerError
    /\ main.pc = "returned" => main.cycleJoined /\ main.listenerJoined
    /\ main.pc \in {"join", "returned"} /\ ~main.shutdownFailed
          => \A p \in Probes : probe[p].pc = "idle"
    /\ main.pc = "returned" /\ main.result = "ok" => ~main.shutdownFailed
    /\ HonestExit

\* A goroutine ends with a result and is not started again.
LEMMA JoinedCycle == ASSUME TypeOK, Joined, Cycle PROVE Joined'
  <1>1. UNCHANGED world /\ cycle.pc # "ended"
    BY DEF Cycle, LoopTop, ScheduleEnds, BeginExecution, ExecutionEnds,
           RecordEvidence, StatusEnds, CycleFinishes, CycleFails, WaitEnds
  <1>2. cycle'.pc = "ended" => cycle'.error # ""
    BY DEF Cycle, LoopTop, ScheduleEnds, BeginExecution, ExecutionEnds,
           RecordEvidence, StatusEnds, CycleFinishes, CycleFails, WaitEnds,
           End, Enter, ReporterFails, TypeOK, CycleState, FatalError
  <1> QED BY <1>1, <1>2 DEF Joined, HonestExit, world

\* The main goroutine joins what has ended and derives its result from it.
LEMMA JoinedMain == ASSUME TypeOK, Joined, Main PROVE Joined'
  <1>1. CASE MainSelect
    <2>1. UNCHANGED <<cycle, listener, signalled>> /\ main.pc = "select"
      BY <1>1 DEF MainSelect
    <2>2. CASE main' = [main EXCEPT !.pc = "stopping"]
      <3>1. /\ main'.pc = "stopping" /\ main'.cycleJoined = main.cycleJoined
            /\ main'.listenerJoined = main.listenerJoined
            /\ main'.listenerError = main.listenerError
        BY <2>2 DEF TypeOK, MainState
      <3> QED BY <2>1, <3>1 DEF Joined, HonestExit
    <2>3. CASE /\ cycle.pc = "ended"
               /\ main' = [main EXCEPT !.pc = "stopping", !.cycleJoined = TRUE]
      <3>1. /\ main'.pc = "stopping"
            /\ main'.listenerJoined = main.listenerJoined
            /\ main'.listenerError = main.listenerError
        BY <2>3 DEF TypeOK, MainState
      <3> QED BY <2>1, <2>3, <3>1 DEF Joined, HonestExit
    <2>4. CASE /\ listener = "failed"
               /\ main' = [main EXCEPT !.pc = "stopping", !.listenerJoined = TRUE,
                                       !.listenerError = TRUE]
      <3>1. /\ main'.pc = "stopping" /\ main'.cycleJoined = main.cycleJoined
            /\ main'.listenerError
        BY <2>4 DEF TypeOK, MainState
      <3> QED BY <2>1, <2>4, <3>1 DEF Joined, HonestExit
    <2> QED BY <1>1, <2>2, <2>3, <2>4 DEF MainSelect
  <1>2. CASE MainStops
    BY <1>2 DEF MainStops, Joined, HonestExit, TypeOK, MainState
  <1>3. CASE MainCloses
    BY <1>3 DEF MainCloses, Joined, HonestExit, TypeOK, MainState
  <1>4. CASE MainShutsDown
    <2>1. /\ UNCHANGED <<cycle, listener, signalled, probe>>
          /\ main.pc = "shutdown"
          /\ \/ /\ \A p \in Probes : probe[p].pc = "idle"
                /\ main' = [main EXCEPT !.pc = "join", !.elapsed = 0]
             \/ main' = [main EXCEPT !.pc = "join", !.elapsed = 0,
                                     !.shutdownFailed = TRUE]
      BY <1>4 DEF MainShutsDown
    <2>2. /\ main'.pc = "join" /\ main'.cycleJoined = main.cycleJoined
          /\ main'.listenerJoined = main.listenerJoined
          /\ main'.listenerError = main.listenerError
          /\ \/ \A p \in Probes : probe[p].pc = "idle"
             \/ main'.shutdownFailed
      BY <2>1 DEF TypeOK, MainState
    <2> QED BY <2>1, <2>2 DEF Joined, HonestExit
  <1>5. CASE AwaitListener
    <2>1. /\ main' = [main EXCEPT !.listenerJoined = TRUE,
                                  !.listenerError = listener = "failed"]
          /\ UNCHANGED <<cycle, listener, signalled, probe>>
          /\ main.pc = "join" /\ listener # "serving"
      BY <1>5 DEF AwaitListener
    <2>2. /\ main'.pc = "join" /\ main'.cycleJoined = main.cycleJoined
          /\ main'.listenerError = (listener = "failed")
          /\ main'.shutdownFailed = main.shutdownFailed
      BY <2>1 DEF TypeOK, MainState
    <2> QED BY <2>1, <2>2 DEF Joined, HonestExit
  <1>6. CASE AwaitCycles
    BY <1>6 DEF AwaitCycles, Joined, HonestExit, TypeOK, MainState
  <1>7. CASE MainReturns
    <2>1. /\ main' = [main EXCEPT !.pc = "returned", !.result = Result]
          /\ UNCHANGED <<cycle, listener, signalled, probe>>
          /\ main.pc = "join" /\ main.listenerJoined /\ main.cycleJoined
      BY <1>7 DEF MainReturns
    <2>2. /\ main'.pc = "returned" /\ main'.cycleJoined = main.cycleJoined
          /\ main'.listenerJoined = main.listenerJoined
          /\ main'.listenerError = main.listenerError
          /\ main'.shutdownFailed = main.shutdownFailed
          /\ main'.result = Result
      BY <2>1 DEF TypeOK, MainState
    <2>3. /\ cycle.pc = "ended" /\ cycle.error # "" /\ listener # "serving"
          /\ listener = "failed" => main.listenerError
          /\ ~main.shutdownFailed => \A p \in Probes : probe[p].pc = "idle"
      BY <2>1 DEF Joined
    <2>4. cycle.error # "ok" /\ listener \in {"serving", "failed", "closed"}
      BY DEF TypeOK, CycleState, ExecutionError, FatalError
    <2>5. /\ Result # ""
          /\ Result = "ok" => /\ signalled /\ ~main.listenerError
                             /\ ~main.shutdownFailed
                             /\ cycle.error = "execution_stopped"
      BY <2>3, <2>4 DEF Result
    <2>6. HonestExit'
      BY <2>1, <2>2, <2>3, <2>4, <2>5 DEF HonestExit, FatalError
    <2> QED BY <2>1, <2>2, <2>3, <2>5, <2>6 DEF Joined
  <1> QED BY <1>1, <1>2, <1>3, <1>4, <1>5, <1>6, <1>7 DEF Main

\* Nobody else ends or restarts a goroutine.
LEMMA JoinedOthers ==
    ASSUME TypeOK, FlagsTell, Joined, Probing \/ Signal \/ ListenerFails \/ Tick
    PROVE  Joined'
  <1>1. CASE Probing
    <2>1. PICK p \in Probes : ReadyRequest(p) \/ Handling(p) \/ RequestDone(p)
      BY <1>1 DEF Probing
    <2>2. UNCHANGED <<cycle, main, listener, signalled>>
      BY <2>1 DEF Handling, ReadyRequest, EnterDatabase, DatabaseFails, DatabaseAnswers,
                  AnswerReady, RequestDone, ProbeStep
    <2>3. probe[p].pc # "idle" \/ ~state.shuttingDown
      BY <2>1 DEF Handling, ReadyRequest, EnterDatabase, DatabaseFails, DatabaseAnswers,
                  AnswerReady, RequestDone, ProbeStep, readyLocked
    <2>4. main.pc \in {"join", "returned"} /\ ~main.shutdownFailed => FALSE
      BY <2>3 DEF Joined, FlagsTell
    <2> QED BY <2>2, <2>4 DEF Joined, HonestExit
  <1>2. CASE Signal
    BY <1>2 DEF Signal, Joined, HonestExit
  <1>3. CASE ListenerFails
    BY <1>3 DEF ListenerFails, Joined, HonestExit
  <1>4. CASE Tick
    <2>1. UNCHANGED <<listener, signalled>>
      BY <1>4 DEF Tick
    <2>2. cycle'.pc = cycle.pc /\ cycle'.error = cycle.error
      BY <1>4 DEF Tick, TypeOK, CycleState
    <2> QED BY <1>4, <2>1, <2>2, TickPhases DEF Joined, HonestExit
  <1> QED BY <1>1, <1>2, <1>3, <1>4

(* The process ends after its goroutines, and with success only if it was  *)
(* told to stop, nothing beyond repair had happened and every handler was  *)
(* waited for.                                                             *)
THEOREM ExitHonest == Spec => []HonestExit
  <1>1. Init => Joined
    <2> SUFFICES ASSUME Init PROVE Joined
      OBVIOUS
    <2>1. /\ main.pc = "select" /\ ~main.cycleJoined /\ ~main.listenerJoined
          /\ cycle.pc = "top"
      BY DEF Init
    <2> QED BY <2>1 DEF Joined, HonestExit
  <1>2. Inv /\ FlagsTell /\ Joined /\ [Next]_vars => Joined'
    <2> SUFFICES ASSUME Inv, FlagsTell, Joined, [Next]_vars PROVE Joined'
      OBVIOUS
    <2>1. TypeOK
      BY DEF Inv
    <2>2. CASE UNCHANGED vars
      BY <2>2 DEF vars, Joined, HonestExit
    <2> QED BY <2>1, <2>2, JoinedCycle, JoinedMain, JoinedOthers DEF Next
  <1>3. Joined => HonestExit
    BY DEF Joined
  <1> QED BY <1>1, <1>2, <1>3, Invariance, FlagsInvariance, PTL DEF Spec

-----------------------------------------------------------------------------
(* Answers of the readiness probe.                                         *)

\* A probe becomes ready where the flags are read again.
LEMMA ReadyStep ==
    Inv /\ FlagsTell /\ [Next]_vars =>
        [\A p \in Probes : probe[p].pc # "ready" /\ probe'[p].pc = "ready" =>
            /\ main.pc \in {"select", "stopping"}
            /\ cycle.pc # "backoff"
            /\ unclean => cycle.pc = "evidence"]_vars
  <1> SUFFICES ASSUME Inv, FlagsTell, Next, NEW p \in Probes,
                      probe[p].pc # "ready", probe'[p].pc = "ready"
               PROVE  /\ main.pc \in {"select", "stopping"}
                      /\ cycle.pc # "backoff"
                      /\ unclean => cycle.pc = "evidence"
    BY DEF vars
  <1>1. readyLocked
    <2>1. ~Tick
      BY TickPhases DEF Inv
    <2>2. Probing
      <3>1. probe' # probe
        OBVIOUS
      <3> QED BY <2>1, <3>1 DEF Next, Cycle, LoopTop, ScheduleEnds, BeginExecution,
            ExecutionEnds, RecordEvidence, StatusEnds, CycleFinishes, CycleFails, WaitEnds,
            Main, MainSelect, MainStops, MainCloses, MainShutsDown, AwaitListener,
            AwaitCycles, MainReturns, Signal, ListenerFails, world
    <2>3. PICK q \in Probes : ReadyRequest(q) \/ Handling(q) \/ RequestDone(q)
      BY <2>2 DEF Probing
    <2>4. PICK to : /\ probe' = [probe EXCEPT ![q] = [pc |-> to, elapsed |-> 0]]
                    /\ to = "ready" => readyLocked
      BY <2>3 DEF Handling, ReadyRequest, EnterDatabase, DatabaseFails, DatabaseAnswers,
                  AnswerReady, RequestDone, ProbeStep
    <2>5. q = p /\ to = "ready"
      BY <2>4 DEF Inv, TypeOK
    <2> QED BY <2>4, <2>5
  <1> QED BY <1>1 DEF readyLocked, FlagsTell, Inv, AgeBounded, Well

(* A probe is told of readiness only while the service is up: not after    *)
(* its shutdown has begun, not while it backs off, and not after a pass    *)
(* with failed calls (serveState is read again after the database).        *)
THEOREM ReadyIsReady == Spec => ReadyAnswers
  BY ReadyStep, Invariance, FlagsInvariance, PTL DEF Spec, ReadyAnswers

LEMMA UnloggedStep ==
    Inv /\ [Next]_vars =>
        [logFailed /\ cycle'.pc # cycle.pc => cycle'.pc \notin {"schedule", "execute"}]_vars
  <1> SUFFICES ASSUME Inv, Next, logFailed, cycle'.pc # cycle.pc
               PROVE  cycle'.pc \notin {"schedule", "execute"}
    BY DEF vars
  <1>1. TypeOK
    BY DEF Inv
  <1>2. CASE Cycle
    BY <1>1, <1>2 DEF Cycle, LoopTop, ScheduleEnds, BeginExecution, ExecutionEnds, RecordEvidence,
             StatusEnds, CycleFinishes, CycleFails, WaitEnds, ReporterFails, Enter, End, TypeOK, CycleState
  <1>3. CASE Tick
    BY <1>1, <1>3 DEF Tick, TypeOK, CycleState
  <1>4. CASE Probing \/ Main \/ Signal \/ ListenerFails
    BY <1>4 DEF Probing, Handling, ReadyRequest, EnterDatabase, DatabaseFails, DatabaseAnswers,
           AnswerReady, RequestDone, ProbeStep, Main, MainSelect, MainStops, MainCloses,
           MainShutsDown, AwaitListener, AwaitCycles, MainReturns, Signal, ListenerFails
  <1> QED BY <1>2, <1>3, <1>4 DEF Next

(* No scheduling and no pass begins after a log line could not be written  *)
(* (reporterFailure is asked before both).                                 *)
THEOREM NoUnloggedSpending == Spec => NothingUnlogged
  BY UnloggedStep, Invariance, PTL DEF Spec, NothingUnlogged
=============================================================================
