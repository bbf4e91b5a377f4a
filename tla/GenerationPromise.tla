------------------------- MODULE GenerationPromise -------------------------
(***************************************************************************)
(* What generation promises about a job, whoever works on it: an open job  *)
(* publishes one item, is closed for good, or fails until an operator      *)
(* reopens it; nothing happens to a job that was published or closed.      *)
(* Continuations come into being in the step that publishes their parent.  *)
(***************************************************************************)
EXTENDS Naturals

CONSTANTS Jobs, NoJob, ParentOf

VARIABLES
    phase,      \* where each job stands
    published   \* items published for each job

Phases == {"absent", "open", "failed", "closed", "published"}

promised == <<phase, published>>

Init ==
    /\ phase = [j \in Jobs |-> IF ParentOf[j] = NoJob THEN "open" ELSE "absent"]
    /\ published = [j \in Jobs |-> 0]

\* The item and the continuations it admits appear together.
Publish(j) ==
    /\ phase[j] = "open"
    /\ \E children \in SUBSET {k \in Jobs : ParentOf[k] = j
                                            /\ phase[k] = "absent"} :
          phase' = [k \in Jobs |-> IF k = j THEN "published"
                                   ELSE IF k \in children THEN "open"
                                   ELSE phase[k]]
    /\ published' = [published EXCEPT ![j] = @ + 1]

\* Skipped or cancelled, several at a time when a batch is cleaned up.
Close(J) ==
    /\ \A j \in J : phase[j] = "open"
    /\ phase' = [j \in Jobs |-> IF j \in J THEN "closed" ELSE phase[j]]
    /\ UNCHANGED published

Fail(j) ==
    /\ phase[j] = "open"
    /\ phase' = [phase EXCEPT ![j] = "failed"]
    /\ UNCHANGED published

\* Only an operator takes a failed job up again.
Reopen(j) ==
    /\ phase[j] = "failed"
    /\ phase' = [phase EXCEPT ![j] = "open"]
    /\ UNCHANGED published

Next ==
    \/ \E j \in Jobs : Publish(j) \/ Fail(j) \/ Reopen(j)
    \/ \E J \in SUBSET Jobs : Close(J)

Spec == Init /\ [][Next]_promised
=============================================================================
