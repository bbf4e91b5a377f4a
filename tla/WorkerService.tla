--------------------------- MODULE WorkerService ---------------------------
(***************************************************************************)
(* `worker serve`: one goroutine repeats cycles (schedule, execute,        *)
(* report), an HTTP listener answers readiness probes from flags that the  *)
(* cycles set, and the main goroutine waits for a signal or for either of  *)
(* them to end, shuts both down, joins them and reports a result.          *)
(*                                                                         *)
(* Time is kept as ages: how long the current phase has lasted, how long   *)
(* ago a cycle was completed and the status was logged.  An age stops at   *)
(* the first value that every comparison of the code treats alike.  A      *)
(* phase that runs under a context ends by its deadline, and code that     *)
(* waits for nothing takes no time.                                        *)
(***************************************************************************)
EXTENDS Integers

CONSTANTS
    Probes,             \* readiness requests that may be in flight
    CycleInterval,      \* serveCycleInterval
    FailureBackoff,     \* serveFailureBackoff
    CleanupTimeout,     \* serveCleanupTimeout, cleanupTimeout of a pass
    ScheduleTimeout,    \* deadline of the scheduling part of a cycle
    ExecutionTimeout,   \* worker.ExecutionTimeout
    StatusTimeout,      \* deadline of the status snapshot
    StatusLogInterval,  \* serveStatusLogInterval
    Slack,              \* what serveProgressStaleness adds to the sum
    ReadyTimeout,       \* serveReadyDBTimeout
    QueryTimeout,       \* queryTimeout of the store
    ShutdownTimeout     \* serveHTTPShutdownTimeout

ASSUME DurationsAssumption ==
    /\ {CycleInterval, FailureBackoff, CleanupTimeout, ScheduleTimeout,
        ExecutionTimeout, StatusTimeout, StatusLogInterval, Slack,
        ReadyTimeout, QueryTimeout, ShutdownTimeout}
          \subseteq Nat \ {0}
    /\ StatusTimeout <= CleanupTimeout + Slack

VARIABLES
    cycle,      \* the cycle goroutine
    state,      \* serveState
    logFailed,  \* lockedWriter.err # nil
    signalled,  \* ctx of the process is done
    stopCycles, \* cycleCtx was cancelled by the main goroutine
    listener,   \* the goroutine that runs server.Serve
    probe,      \* the handlers of readiness requests
    main,       \* the main goroutine
    unclean,    \* whether the latest pass that called the provider had failures
    unsettled   \* whether a pass that was told to stop failed on the storage

vars == <<cycle, state, logFailed, signalled, stopCycles, listener, probe,
          main, unclean, unsettled>>
world == <<signalled, stopCycles, listener, probe, main>>

\* Mutant: the time a cycle needs to clean up is left out.
Staleness_NoCleanup == ExecutionTimeout + ScheduleTimeout + CycleInterval + Slack

\* serveProgressStaleness
Staleness ==
    ExecutionTimeout + ScheduleTimeout + CycleInterval + CleanupTimeout + Slack

\* What ends a pass; the last three are beyond repair by repetition.
FatalError ==
    {"provider_credentials", "provider_configuration", "unsupported_accounting"}
ExecutionError == {"execution_storage", "execution_stopped"} \cup FatalError

CyclePC == {"top", "schedule", "begin", "execute", "evidence", "status",
            "finished", "error", "wait", "backoff", "ended"}

ProbePC == {"idle", "passed", "database", "recheck", "ready"}

MainPC == {"select", "stopping", "closing", "shutdown", "join", "returned"}

Longest(pc) ==
    CASE pc = "schedule" -> ScheduleTimeout
      [] pc = "execute"  -> ExecutionTimeout + CleanupTimeout
      [] pc = "status"   -> StatusTimeout
      [] pc = "wait"     -> CycleInterval
      [] pc = "backoff"  -> FailureBackoff
      [] OTHER           -> 0

\* store.Ready narrows the context of the handler by its own timeout.
DatabaseDeadline == IF QueryTimeout < ReadyTimeout THEN QueryTimeout ELSE ReadyTimeout

CycleState == [pc : CyclePC, elapsed : Nat,
               calls : {"none", "clean", "failed"},
               error : {""} \cup ExecutionError]

ServeState == [shuttingDown : BOOLEAN, storageHealthy : BOOLEAN,
               providerDegraded : BOOLEAN, completed : BOOLEAN,
               age : 0 .. Staleness + 1, logAge : 0 .. StatusLogInterval]

ProbeState == [pc : ProbePC, elapsed : Nat]

MainState == [pc : MainPC, elapsed : Nat,
              cycleJoined : BOOLEAN, listenerJoined : BOOLEAN,
              listenerError : BOOLEAN, shutdownFailed : BOOLEAN,
              result : {"", "ok"} \cup ExecutionError]

TypeOK ==
    /\ cycle \in CycleState /\ state \in ServeState /\ main \in MainState
    /\ logFailed \in BOOLEAN /\ signalled \in BOOLEAN /\ stopCycles \in BOOLEAN
    /\ unclean \in BOOLEAN /\ unsettled \in BOOLEAN
    /\ listener \in {"serving", "failed", "closed"}
    /\ probe \in [Probes -> ProbeState]

\* cycleCtx.Err() # nil
Cancelled == signalled \/ stopCycles

-----------------------------------------------------------------------------
(* The cycle goroutine: serveCycles and runServeCycle.                     *)

Enter(pc) == cycle' = [cycle EXCEPT !.pc = pc, !.elapsed = 0]

\* The goroutine sends its result and ends.
End(error) == cycle' = [cycle EXCEPT !.pc = "ended", !.error = error]

\* A line is written; from the first failure on, every write has failed.
Log == logFailed' \in {logFailed, TRUE}

StorageUnhealthy == state' = [state EXCEPT !.storageHealthy = FALSE]

\* reporterFailure
ReporterFails ==
    /\ StorageUnhealthy
    /\ logFailed' = TRUE
    /\ End("execution_storage")

LoopTop ==
    /\ cycle.pc = "top"
    /\ IF Cancelled
       THEN End("execution_stopped") /\ UNCHANGED <<state, logFailed>>
       ELSE IF logFailed THEN ReporterFails
       ELSE Enter("schedule") /\ UNCHANGED <<state, logFailed>>
    /\ UNCHANGED <<world, unclean, unsettled>>

\* The scheduling pass ends, with an error if its context is done.
ScheduleEnds ==
    /\ cycle.pc = "schedule"
    /\ \/ /\ cycle' = [cycle EXCEPT !.pc = "error", !.elapsed = 0,
                                    !.error = "execution_storage"]
          /\ UNCHANGED logFailed
       \/ ~Cancelled /\ Log /\ Enter("begin")
    /\ UNCHANGED <<state, world, unclean, unsettled>>

\* Mutant: the pass begins whether or not its log could be written.
BeginExecution_Unlogged ==
    /\ cycle.pc = "begin"
    /\ Enter("execute")
    /\ UNCHANGED <<state, logFailed, world, unclean, unsettled>>

\* No provider call unless the pass can be recorded.
BeginExecution ==
    /\ cycle.pc = "begin"
    /\ IF logFailed THEN ReporterFails
       ELSE Enter("execute") /\ UNCHANGED <<state, logFailed>>
    /\ UNCHANGED <<world, unclean, unsettled>>

(* The pass ends: what its calls showed, and its error.  It succeeds only  *)
(* within its deadline; one that is stopped has settled its call, and one  *)
(* that could not reports the storage.                                     *)
ExecutionEnds ==
    /\ cycle.pc = "execute"
    /\ \E calls \in {"none", "clean", "failed"}, error \in {""} \cup ExecutionError :
          /\ error = "" => ~Cancelled /\ cycle.elapsed <= ExecutionTimeout
          /\ error = "execution_stopped" =>
                Cancelled \/ cycle.elapsed >= ExecutionTimeout
          /\ cycle' = [cycle EXCEPT !.pc = "evidence", !.elapsed = 0,
                                    !.calls = calls, !.error = error]
          /\ unclean' = IF calls = "none" THEN unclean ELSE calls = "failed"
          /\ unsettled' = (Cancelled /\ error = "execution_storage")
    /\ UNCHANGED <<state, logFailed, world>>

\* recordProviderEvidenceLocked
Degraded ==
    IF cycle.calls = "none" THEN state.providerDegraded
                            ELSE cycle.calls = "failed"

(* recordProviderEvidence, the log line of the pass, and for a pass        *)
(* without error recordCompletedCycle and the slot of the status log.      *)
RecordEvidence ==
    LET slot == state.logAge >= StatusLogInterval IN
    /\ cycle.pc = "evidence"
    /\ IF cycle.error # ""
       THEN /\ state' = [state EXCEPT !.providerDegraded = Degraded]
            /\ Enter("error")
       ELSE /\ state' = [state EXCEPT !.providerDegraded = Degraded,
                            !.storageHealthy = TRUE, !.completed = TRUE,
                            !.age = 0, !.logAge = IF slot THEN 0 ELSE @]
            /\ Enter(IF slot THEN "status" ELSE "finished")
    /\ Log
    /\ UNCHANGED <<world, unclean, unsettled>>

\* logGenerationStatus
StatusEnds ==
    /\ cycle.pc = "status"
    /\ \/ Enter("finished") /\ UNCHANGED state
       \/ /\ StorageUnhealthy
          /\ cycle' = [cycle EXCEPT !.pc = "error", !.elapsed = 0,
                                    !.error = "execution_storage"]
    /\ Log
    /\ UNCHANGED <<world, unclean, unsettled>>

\* A cycle failed: stop for good, or log it, turn unready and back off.
CycleFails ==
    /\ cycle.pc = "error"
    /\ \/ logFailed /\ ReporterFails
       \/ /\ ~logFailed /\ cycle.error \in FatalError
          /\ Log /\ End(cycle.error) /\ UNCHANGED state
       \/ /\ ~logFailed /\ cycle.error \notin FatalError
          /\ \/ ReporterFails
             \/ StorageUnhealthy /\ Enter("backoff") /\ UNCHANGED logFailed
    /\ UNCHANGED <<world, unclean, unsettled>>

CycleFinishes ==
    /\ cycle.pc = "finished"
    /\ IF logFailed THEN ReporterFails
       ELSE Enter("wait") /\ UNCHANGED <<state, logFailed>>
    /\ UNCHANGED <<world, unclean, unsettled>>

\* The wait between cycles is over, or the context is done.
WaitEnds ==
    /\ cycle.pc \in {"wait", "backoff"}
    /\ \/ Cancelled /\ End("execution_stopped")
       \/ cycle.elapsed = Longest(cycle.pc) /\ Enter("top")
    /\ UNCHANGED <<state, logFailed, world, unclean, unsettled>>

Cycle ==
    \/ LoopTop \/ ScheduleEnds \/ BeginExecution \/ ExecutionEnds
    \/ RecordEvidence \/ StatusEnds \/ CycleFinishes \/ CycleFails \/ WaitEnds

-----------------------------------------------------------------------------
(* Readiness.                                                              *)

readyLocked ==
    /\ ~state.shuttingDown /\ state.storageHealthy /\ ~state.providerDegraded
    /\ state.completed /\ state.age <= Staleness

ProbeStep(p, from, to) ==
    /\ probe[p].pc = from
    /\ probe' = [probe EXCEPT ![p] = [pc |-> to, elapsed |-> 0]]
    /\ UNCHANGED <<cycle, state, logFailed, signalled, stopCycles, listener,
                   main, unclean, unsettled>>

(* A request arrives, perhaps over a connection that has outlived the      *)
(* listener; it goes on to the database if the flags allow it.             *)
ReadyRequest(p) ==
    /\ readyLocked
    /\ ProbeStep(p, "idle", "passed")

(* store.Ready sets its deadline, with no lock held since the flags were   *)
(* read: the shutdown may have begun in between.                           *)
EnterDatabase(p) == ProbeStep(p, "passed", "database")

\* store.Ready fails, by its deadline at the latest: not ready.
DatabaseFails(p) ==
    /\ probe[p].elapsed <= DatabaseDeadline
    /\ ProbeStep(p, "database", "idle")

\* store.Ready succeeds by its deadline.
DatabaseAnswers(p) ==
    /\ probe[p].elapsed <= DatabaseDeadline
    /\ ProbeStep(p, "database", "recheck")

\* Mutant: the flags are not read again.
AnswerReady_NoRecheck(p) == ProbeStep(p, "recheck", "ready")

\* The flags are read again before the answer.
AnswerReady(p) == ProbeStep(p, "recheck", IF readyLocked THEN "ready" ELSE "idle")

\* What a handler does by itself; sending the answer is up to the client too.
Handling(p) ==
    EnterDatabase(p) \/ DatabaseFails(p) \/ DatabaseAnswers(p) \/ AnswerReady(p)

\* The answer has been sent.
RequestDone(p) == ProbeStep(p, "ready", "idle")

-----------------------------------------------------------------------------
(* The main goroutine: serveListener, and run of the command.              *)

Signal ==
    /\ ~signalled /\ main.pc # "returned"
    /\ signalled' = TRUE
    /\ UNCHANGED <<cycle, state, logFailed, stopCycles, listener, probe, main,
                   unclean, unsettled>>

ListenerFails ==
    /\ listener = "serving"
    /\ listener' = "failed"
    /\ UNCHANGED <<cycle, state, logFailed, signalled, stopCycles, probe, main,
                   unclean, unsettled>>

\* Mutant: the end of the cycle goroutine goes unnoticed.
MainSelect_CyclesUnwatched ==
    /\ main.pc = "select"
    /\ signalled
    /\ main' = [main EXCEPT !.pc = "stopping"]
    /\ UNCHANGED <<cycle, state, logFailed, signalled, stopCycles, listener,
                   probe, unclean, unsettled>>

\* select: a result that is received here is not received again.
MainSelect ==
    /\ main.pc = "select"
    /\ \/ /\ signalled
          /\ main' = [main EXCEPT !.pc = "stopping"]
          /\ UNCHANGED <<state, logFailed>>
       \/ /\ cycle.pc = "ended"
          /\ main' = [main EXCEPT !.pc = "stopping", !.cycleJoined = TRUE]
          /\ state' = [state EXCEPT !.shuttingDown = TRUE] /\ Log
       \/ /\ listener = "failed"
          /\ main' = [main EXCEPT !.pc = "stopping", !.listenerJoined = TRUE,
                                  !.listenerError = TRUE]
          /\ state' = [state EXCEPT !.shuttingDown = TRUE] /\ Log
    /\ UNCHANGED <<cycle, signalled, stopCycles, listener, probe, unclean,
                   unsettled>>

MainStops ==
    /\ main.pc = "stopping"
    /\ state' = [state EXCEPT !.shuttingDown = TRUE]
    /\ stopCycles' = TRUE
    /\ main' = [main EXCEPT !.pc = "closing"]
    /\ UNCHANGED <<cycle, logFailed, signalled, listener, probe, unclean,
                   unsettled>>

\* The deadline of the shutdown is set, and Shutdown closes the listener.
MainCloses ==
    /\ main.pc = "closing"
    /\ listener' = IF listener = "serving" THEN "closed" ELSE listener
    /\ main' = [main EXCEPT !.pc = "shutdown", !.elapsed = 0]
    /\ UNCHANGED <<cycle, state, logFailed, signalled, stopCycles, probe,
                   unclean, unsettled>>

(* Shutdown waits for the handlers, or until its deadline: then the        *)
(* connections are closed, but a handler that is still running is not      *)
(* waited for.  The deadline can also be missed with no handler running:   *)
(* a connection that has sent no request yet counts as busy.               *)
MainShutsDown ==
    /\ main.pc = "shutdown"
    /\ \/ /\ \A p \in Probes : probe[p].pc = "idle"
          /\ main' = [main EXCEPT !.pc = "join", !.elapsed = 0]
          /\ UNCHANGED logFailed
       \/ /\ main.elapsed = ShutdownTimeout
          /\ main' = [main EXCEPT !.pc = "join", !.elapsed = 0, !.shutdownFailed = TRUE]
          /\ Log
    /\ UNCHANGED <<cycle, state, signalled, stopCycles, listener, probe,
                   unclean, unsettled>>

AwaitListener ==
    /\ main.pc = "join" /\ ~main.listenerJoined
    /\ listener # "serving"
    /\ main' = [main EXCEPT !.listenerJoined = TRUE,
                            !.listenerError = listener = "failed"]
    /\ UNCHANGED <<cycle, state, logFailed, signalled, stopCycles, listener,
                   probe, unclean, unsettled>>

AwaitCycles ==
    /\ main.pc = "join" /\ main.listenerJoined /\ ~main.cycleJoined
    /\ cycle.pc = "ended"
    /\ main' = [main EXCEPT !.cycleJoined = TRUE]
    /\ UNCHANGED <<cycle, state, logFailed, signalled, stopCycles, listener,
                   probe, unclean, unsettled>>

\* Mutant: after a signal every end is a clean one.
Result_SignalIsClean ==
    IF signalled THEN "ok" ELSE cycle.error

\* The result of serveListener, and of the process after a signal.
Result ==
    IF main.listenerError \/ main.shutdownFailed THEN "provider_configuration"
    ELSE IF signalled /\ cycle.error = "execution_stopped" THEN "ok"
    ELSE cycle.error

MainReturns ==
    /\ main.pc = "join" /\ main.listenerJoined /\ main.cycleJoined
    /\ main' = [main EXCEPT !.pc = "returned", !.result = Result]
    /\ UNCHANGED <<cycle, state, logFailed, signalled, stopCycles, listener,
                   probe, unclean, unsettled>>

Main ==
    \/ MainSelect \/ MainStops \/ MainCloses \/ MainShutsDown
    \/ AwaitListener \/ AwaitCycles \/ MainReturns

-----------------------------------------------------------------------------
AtMost(n, bound) == IF n > bound THEN bound ELSE n

(* Time passes, but not beyond the deadline of the phase a cycle is in, of *)
(* a handler's call of the store or of the shutdown, and not between two   *)
(* steps of a handler that waits for nothing.                              *)
Tick ==
    /\ main.pc # "returned"
    /\ main.pc = "shutdown" => main.elapsed < ShutdownTimeout
    /\ cycle.pc # "ended" => cycle.elapsed < Longest(cycle.pc)
    /\ \A p \in Probes :
          /\ probe[p].pc \notin {"passed", "recheck"}
          /\ probe[p].pc = "database" => probe[p].elapsed < DatabaseDeadline
    /\ cycle' = IF cycle.pc = "ended" THEN cycle
                ELSE [cycle EXCEPT !.elapsed = @ + 1]
    /\ probe' = [p \in Probes |->
                    IF probe[p].pc = "database" THEN [probe[p] EXCEPT !.elapsed = @ + 1]
                                                ELSE probe[p]]
    /\ main' = IF main.pc = "shutdown" THEN [main EXCEPT !.elapsed = @ + 1] ELSE main
    /\ state' = [state EXCEPT !.age = AtMost(@ + 1, Staleness + 1),
                              !.logAge = AtMost(@ + 1, StatusLogInterval)]
    /\ UNCHANGED <<logFailed, signalled, stopCycles, listener, unclean, unsettled>>

Init ==
    /\ cycle = [pc |-> "top", elapsed |-> 0, calls |-> "none", error |-> ""]
    /\ state = [shuttingDown |-> FALSE, storageHealthy |-> FALSE,
                providerDegraded |-> FALSE, completed |-> FALSE,
                age |-> Staleness + 1, logAge |-> StatusLogInterval]
    /\ logFailed = FALSE /\ signalled = FALSE /\ stopCycles = FALSE
    /\ unclean = FALSE /\ unsettled = FALSE
    /\ listener = "serving"
    /\ probe = [p \in Probes |-> [pc |-> "idle", elapsed |-> 0]]
    /\ main = [pc |-> "select", elapsed |-> 0, cycleJoined |-> FALSE,
               listenerJoined |-> FALSE, listenerError |-> FALSE,
               shutdownFailed |-> FALSE, result |-> ""]

Probing ==
    \E p \in Probes : ReadyRequest(p) \/ Handling(p) \/ RequestDone(p)

Next == Cycle \/ Probing \/ Main \/ Signal \/ ListenerFails \/ Tick

Spec == Init /\ [][Next]_vars

-----------------------------------------------------------------------------
\* Phases of a cycle that has met no error so far.
Healthy == {"status", "finished", "wait", "top", "schedule", "begin", "execute"}

(* Readiness never expires under a worker that is doing its job: however   *)
(* long each part of a cycle takes within its deadline, the next cycle is  *)
(* completed before the previous one counts as stale.                      *)
FreshWhileHealthy ==
    /\ state.completed /\ state.storageHealthy
    /\ cycle.pc \in Healthy
    /\ cycle.pc = "execute" => cycle.elapsed <= ExecutionTimeout
    => state.age <= Staleness

(* A probe is answered with ready only while the service is up: not after  *)
(* the shutdown has begun, not while the worker backs off, and not after a *)
(* pass with failed calls until a pass whose calls all succeeded, however  *)
(* long the database kept the probe waiting.                               *)
ReadyAnswers ==
    [][\A p \in Probes : probe[p].pc # "ready" /\ probe'[p].pc = "ready" =>
          /\ main.pc \in {"select", "stopping"}
          /\ cycle.pc # "backoff"
          /\ unclean => cycle.pc = "evidence"]_vars

(* Once a log line could not be written no part of a cycle begins any      *)
(* more, so nothing is spent that is not on record.                        *)
NothingUnlogged ==
    [][logFailed /\ cycle'.pc # cycle.pc
          => cycle'.pc \notin {"schedule", "execute"}]_vars

(* The process ends only after its goroutines have, and ends well only     *)
(* when it was told to stop, neither the listener nor a provider error     *)
(* ended it, and no handler is left behind.                                *)
HonestExit ==
    main.pc = "returned" =>
        /\ cycle.pc = "ended" /\ listener # "serving"
        /\ main.result # ""
        /\ main.result = "ok" => /\ signalled /\ listener = "closed"
                                 /\ cycle.error \notin FatalError
                                 /\ \A p \in Probes : probe[p].pc = "idle"

(* What main.go says of a clean exit: "Do not hide storage/configuration   *)
(* failures that coincide with SIGTERM".  A pass that was told to stop and *)
(* failed on the storage would make the result of the process a failure.   *)
StorageFailureReported == main.result = "ok" => ~unsettled

(* What serveListener says of its return: the HTTP server has been joined, *)
(* "so the caller may close the store".  No handler would be using it.     *)
(* But store.Ready and Shutdown are given the same two seconds, and a      *)
(* handler that passed the flags before they were set may enter the store  *)
(* when Shutdown has begun: both deadlines come at once, and whether the   *)
(* call or Shutdown gives up first is a race.                              *)
StoreUnusedAfterReturn ==
    main.pc = "returned" => \A p \in Probes : probe[p].pc # "database"

-----------------------------------------------------------------------------
(* Goroutines are scheduled, calls end by their deadlines and time passes. *)
(* A client owes nothing: it may never ask, and never take its answer.     *)
Fairness ==
    /\ WF_vars(Cycle) /\ WF_vars(Main) /\ WF_vars(Tick)
    /\ \A p \in Probes : WF_vars(Handling(p))

FairSpec == Spec /\ Fairness

(* A signal, a cycle goroutine that gave up or a listener that failed ends *)
(* the process, whatever requests are in flight.                           *)
StopsWhenAsked ==
    (signalled \/ cycle.pc = "ended" \/ listener = "failed")
        ~> main.pc = "returned"
=============================================================================
