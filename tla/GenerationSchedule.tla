------------------------ MODULE GenerationSchedule ------------------------
(***************************************************************************)
(* The schedule of one agent: the cursor that AdvanceGenerationSchedule    *)
(* moves (internal/app/generation_schedule.go), the transaction that keeps *)
(* it (scheduleGenerationAgent in internal/postgres) and the policy that   *)
(* operators edit meanwhile (generation_controls.go).  Passes of several   *)
(* schedulers, edits, pauses, publications and a clock that may also be    *)
(* set back act on it in any order; a pass may be long overdue.            *)
(*                                                                         *)
(* A tick is the microsecond of GenerationInstant.  Time 0 is nil, date 0  *)
(* is a schedule that was never sampled.                                   *)
(***************************************************************************)
EXTENDS Integers, Sequences, FiniteSets

CONSTANTS
    Schedulers,  \* processes that run passes
    Days,        \* number of local dates
    MaxTime,     \* bound of the clock
    Policies,    \* the policies an operator may set
    MaxStep,     \* ticks the clock may jump ahead, a downtime
    MaxBack,     \* ticks it may be set back
    MaxEdits,    \* bound of the edits
    MaxOffers    \* bound of the history

Dates == 1..Days
Times == 1..MaxTime

\* zone is the date of an instant in the time zone of the policy, start and end
\* are the active window of each date, shortened where a transition of the zone
\* shortens it.
Policy ==
    [zone : [Times -> Dates], start : [Dates -> Times], end : [Dates -> Times],
     minPerDay : Nat, maxPerDay : Nat, dailyCap : Nat, spacing : Nat \ {0}, sourceMaxAge : Nat \ {0}]

ASSUME CalendarAssumption == Days \in Nat \ {0} /\ MaxTime \in Nat \ {0}

\* GenerationPolicy.Validate and generationWindow.  The active window of a date
\* lies within that date.  (It does in every zone whose clocks never go back over
\* midnight after the window has begun.)
ASSUME PolicyAssumption ==
    /\ Policies \subseteq Policy
    /\ \A P \in Policies :
           /\ P.minPerDay <= P.maxPerDay /\ P.maxPerDay <= P.dailyCap
           /\ \A d \in Dates, t \in Times : P.start[d] <= t /\ t < P.end[d] => P.zone[t] = d

ASSUME BoundAssumption == {MaxStep, MaxBack, MaxEdits, MaxOffers} \subseteq Nat

VARIABLES
    cursor,         \* schedule_date, remaining_slots and next_post_at
    policy,         \* agent_settings.policy
    edits,          \* how often that was changed
    enabled,        \* agent_settings.enabled
    lastPublished,  \* agent_settings.last_published_at
    now,            \* the clock of the database
    pass,           \* what each scheduler is doing
    offers          \* history: every slot a pass committed as due, and
                    \* whether a job was inserted for it

vars == <<cursor, policy, edits, enabled, lastPublished, now, pass, offers>>
settings == <<cursor, policy, edits, enabled, lastPublished>>

LocalDate == policy.zone
Start == policy.start
End == policy.end
Spacing == policy.spacing

Cursor == [date : 0..Days, remaining : Nat, next : Nat]
Offer == [slot : Times, at : Times, date : Dates, policy : Policies, granted : BOOLEAN]
NoPass == [pc |-> "idle", now |-> 0, s |-> [date |-> 0, remaining |-> 0, next |-> 0], due |-> 0]
Pass == [pc : {"idle", "sampling", "elapsing", "advanced"}, now : Nat, s : Cursor, due : Nat]

Later(a, b) == IF a > b THEN a ELSE b
Lesser(a, b) == IF a <= b THEN a ELSE b

\* How many slots fit between two instants, the second excluded.
Capacity(lower, end) == (end - lower - 1) \div Spacing + 1

\* Mutant: no room is left for the slots after the next one.
Samples_NoRoom(s, lower, end) ==
    IF lower >= end \/ s.remaining = 0
    THEN {[s EXCEPT !.remaining = 0, !.next = 0]}
    ELSE {[s EXCEPT !.remaining = Lesser(s.remaining, Capacity(lower, end)), !.next = at] :
          at \in lower..(end - 1)}

\* sampleGenerationSlot: the draws it can make.  Nothing fits at or past the
\* end, and otherwise the slots that remain all do.
Samples(s, lower, end) ==
    LET remaining == Lesser(s.remaining, Capacity(lower, end))
        latest == end - (remaining - 1) * Spacing
    IN IF lower >= end \/ s.remaining = 0
       THEN {[s EXCEPT !.remaining = 0, !.next = 0]}
       ELSE {[s EXCEPT !.remaining = remaining, !.next = at] : at \in lower..(latest - 1)}

\* No publication is younger than the spacing.
Lower(date) ==
    IF lastPublished = 0 THEN Start[date] ELSE Later(Start[date], lastPublished + Spacing)

\* The settings row is locked by a pass from its first read to its commit.
Unlocked == \A p \in Schedulers : pass[p].pc = "idle"

----------------------------------------------------------------------------
(* One pass over the agent. *)

\* AgentSettings.Validate.
Valid(c) ==
    /\ c.remaining <= policy.maxPerDay
    /\ c.remaining > 0 => c.date # 0
    /\ c.next # 0 => c.date # 0 /\ c.remaining # 0 /\ LocalDate[c.next] = c.date

\* Settings that do not validate are passed over.  A disabled agent and, after
\* the clock was set back, a schedule of a later date are left alone.  A cursor
\* that lost its next slot is an error.
BeginPass(p) ==
    /\ Unlocked
    /\ enabled
    /\ Valid(cursor)
    /\ cursor.date <= LocalDate[now]
    /\ cursor.date = LocalDate[now] /\ cursor.remaining > 0 => cursor.next # 0
    /\ pass' = [pass EXCEPT ![p] =
                   [pc |-> IF cursor.date = LocalDate[now] THEN "elapsing" ELSE "sampling",
                    now |-> now, s |-> cursor, due |-> 0]]
    /\ UNCHANGED <<settings, now, offers>>

\* The first pass of a date draws how many slots it has, then the first one.
SampleDay(p) ==
    /\ pass[p].pc = "sampling"
    /\ \E count \in policy.minPerDay..policy.maxPerDay :
         LET date == LocalDate[pass[p].now]
             s == [date |-> date, remaining |-> count, next |-> 0]
         IN \E sample \in Samples(s, Later(Lower(date), pass[p].now), End[date]) :
                pass' = [pass EXCEPT ![p].pc = "elapsing", ![p].s = sample]
    /\ UNCHANGED <<settings, now, offers>>

\* Mutant: the active window is not checked again.
Usable_AnyHour(at, clock) == at >= Lower(LocalDate[clock]) /\ clock < at + policy.sourceMaxAge

\* Whether an elapsed slot may still be used by this pass.
Usable(at, clock) ==
    LET date == LocalDate[clock]
    IN /\ at >= Lower(date)
       /\ clock >= Start[date] /\ clock < End[date]
       /\ clock < at + policy.sourceMaxAge

\* An elapsed slot is consumed; the last usable one is due.
Elapse(p) ==
    LET s == pass[p].s
        at == s.next
    IN /\ pass[p].pc = "elapsing"
       /\ at # 0 /\ at <= pass[p].now
       /\ \E sample \in Samples([s EXCEPT !.remaining = @ - 1], at + Spacing, End[s.date]) :
              pass' = [pass EXCEPT ![p].s = sample,
                                   ![p].due = IF Usable(at, pass[p].now) THEN at ELSE @]
       /\ UNCHANGED <<settings, now, offers>>

\* Mutant: the next slot follows the last slot, not the pass.
AfterDue_Burst(p) == {pass[p].s}

\* After a due slot the next one is at least the spacing away from this pass.
AfterDue(p) ==
    LET s == pass[p].s
        near == pass[p].due # 0 /\ s.next # 0 /\ s.next < pass[p].now + Spacing
    IN IF near THEN Samples(s, pass[p].now + Spacing, End[s.date]) ELSE {s}

Coalesce(p) ==
    /\ pass[p].pc = "elapsing"
    /\ pass[p].s.next = 0 \/ pass[p].s.next > pass[p].now
    /\ \E s \in AfterDue(p) : pass' = [pass EXCEPT ![p].pc = "advanced", ![p].s = s]
    /\ UNCHANGED <<settings, now, offers>>

Offers == 1..Len(offers)
Granted == {i \in Offers : offers[i].granted}

\* Reservations of the local day, spacing to every reservation, and the key of
\* the slot.
GrantAllowed(slot, clock) ==
    /\ Cardinality({i \in Granted : LocalDate[offers[i].at] = LocalDate[clock]}) < policy.dailyCap
    /\ \A i \in Granted : offers[i].at <= clock - Spacing
    /\ \A i \in Granted : offers[i].slot # slot

\* The cursor is written with the job, if there is one, and committed.
Persist(p, granted) ==
    /\ pass[p].pc = "advanced"
    /\ granted => pass[p].due # 0 /\ GrantAllowed(pass[p].due, pass[p].now)
    /\ Len(offers) < MaxOffers
    /\ cursor' = pass[p].s
    /\ offers' = IF pass[p].due = 0 THEN offers
                 ELSE Append(offers, [slot |-> pass[p].due, at |-> pass[p].now, date |-> pass[p].s.date,
                                      policy |-> policy, granted |-> granted])
    /\ pass' = [pass EXCEPT ![p] = NoPass]
    /\ UNCHANGED <<policy, edits, enabled, lastPublished, now>>

\* A failed statement, a deadline or a crash before the commit.
Rollback(p) ==
    /\ pass[p].pc # "idle"
    /\ pass' = [pass EXCEPT ![p] = NoPass]
    /\ UNCHANGED <<settings, now, offers>>

----------------------------------------------------------------------------
(* What else happens to the settings. *)

\* Mutant: the day is retired where the new policy is.
RetiredDate_NewZone(P) == P.zone[now]

\* The latest date that was sampled or has begun under either policy.
RetiredDate(P) == Later(cursor.date, Later(LocalDate[now], P.zone[now]))

\* SetAgentPolicy, ChangeGenerationPolicy: an edit of the schedule retires what
\* is left of the day.
SetPolicy(P) ==
    /\ Unlocked
    /\ edits < MaxEdits /\ edits' = edits + 1
    /\ Valid(cursor)
    /\ P # policy
    /\ policy' = P
    /\ cursor' = [date |-> RetiredDate(P), remaining |-> 0, next |-> 0]
    /\ UNCHANGED <<enabled, lastPublished, now, pass, offers>>

\* setAgentsEnabled keeps the schedule of the day.
SetEnabled(b) ==
    /\ Unlocked
    /\ enabled' = b
    /\ UNCHANGED <<cursor, policy, edits, lastPublished, now, pass, offers>>

\* A post or a reply of the agent is published, spaced from the one before.
Publish ==
    /\ Unlocked
    /\ enabled
    /\ lastPublished > 0 => now >= lastPublished + Spacing
    /\ lastPublished' = now
    /\ UNCHANGED <<cursor, policy, edits, enabled, now, pass, offers>>

\* Time passes, or the clock is set back.
Clock(t) ==
    /\ t >= now - MaxBack /\ t <= now + MaxStep
    /\ now' = t
    /\ UNCHANGED <<settings, pass, offers>>

Init ==
    /\ cursor = NoPass.s
    /\ policy \in Policies
    /\ edits = 0
    /\ enabled = TRUE
    /\ lastPublished = 0
    /\ now = 1
    /\ pass = [p \in Schedulers |-> NoPass]
    /\ offers = <<>>

Next ==
    \/ \E p \in Schedulers :
           \/ BeginPass(p)
           \/ SampleDay(p)
           \/ Elapse(p)
           \/ Coalesce(p)
           \/ \E granted \in BOOLEAN : Persist(p, granted)
           \/ Rollback(p)
    \/ \E P \in Policies : SetPolicy(P)
    \/ \E b \in BOOLEAN : SetEnabled(b)
    \/ Publish
    \/ \E t \in Times : Clock(t)

Spec == Init /\ [][Next]_vars

----------------------------------------------------------------------------
(* What is checked. *)

\* Types.
TypeOK ==
    /\ cursor \in Cursor
    /\ policy \in Policies
    /\ edits \in 0..MaxEdits
    /\ enabled \in BOOLEAN
    /\ lastPublished \in Nat
    /\ now \in Times
    /\ pass \in [Schedulers -> Pass]
    /\ offers \in Seq(Offer)

\* The settings validate and the slots that remain fit into the window of their
\* date, whatever the operator sets; the next of them is known whenever there is
\* one.  So no pass ever counts the agent as invalid ("sampled schedule is missing
\* its next slot").
CursorFits ==
    /\ Valid(cursor)
    /\ cursor.remaining > 0 <=> cursor.next # 0
    /\ cursor.next # 0 => /\ cursor.next >= Start[cursor.date]
                          /\ cursor.next + (cursor.remaining - 1) * Spacing < End[cursor.date]

\* A date never offers more slots than the one policy allows that sampled it,
\* also when passes fail, the agent is paused, the clock is set back, or policies
\* and their time zones are switched back and forth: "never resamples a count on
\* the same local date".
SampledOnce ==
    \A i \in Offers :
        /\ \A j \in Offers : offers[j].date = offers[i].date => offers[j].policy = offers[i].policy
        /\ Cardinality({j \in Offers : offers[j].date = offers[i].date}) <= offers[i].policy.maxPerDay

\* A downtime is not caught up with: passes that find a slot due on one date
\* are at least the spacing apart, whether or not jobs were admitted.
NoBurst ==
    \A i, j \in Offers :
        i < j /\ offers[i].date = offers[j].date
            => offers[j].at >= offers[i].at + offers[i].policy.spacing

\* A job that is admitted passes at that moment what spending and publication
\* will ask of its slot (ScheduledGenerationExecutionAllowed): it is of the
\* same date, inside the window, and neither early nor too old.
GrantsExecutable ==
    \A i \in Granted :
        LET slot == offers[i].slot
            at == offers[i].at
            P == offers[i].policy
            d == P.zone[slot]
        IN /\ slot <= at /\ at < slot + P.sourceMaxAge
           /\ P.zone[at] = d
           /\ slot >= P.start[d] /\ slot < P.end[d]
           /\ at >= P.start[d] /\ at < P.end[d]
=============================================================================
