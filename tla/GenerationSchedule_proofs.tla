-------------------- MODULE GenerationSchedule_proofs --------------------
(***************************************************************************)
(* The invariants of the schedule hold for every calendar, every set of    *)
(* policies and every bound.                                               *)
(*                                                                         *)
(* None of them is inductive.  Inv adds what a schedule owes to the slots  *)
(* it has already offered (Owed, Behind), says it of the schedule a pass   *)
(* works on as well as of the cursor (Elapsing, Advanced), and that one    *)
(* pass at most is under way (OnePass).                                    *)
(***************************************************************************)
EXTENDS GenerationSchedule, FiniteSetTheorems, TLAPS

\* What CursorFits says of the cursor.
Fits(s) ==
    /\ s.remaining <= policy.maxPerDay
    /\ s.remaining > 0 <=> s.next # 0
    /\ s.next # 0 => /\ s.date # 0
                     /\ s.next >= Start[s.date]
                     /\ s.next + (s.remaining - 1) * Spacing < End[s.date]

OffersOf(d) == {i \in Offers : offers[i].date = d}

\* No slot was offered of a later date.
Behind(d) == \A i \in Offers : offers[i].date <= d

\* A slot at an instant may still be offered: it is spaced from those of its
\* date, which the same policy sampled, and there is room for count more.
Owed(d, at, count) ==
    /\ \A i \in OffersOf(d) : offers[i].policy = policy /\ at >= offers[i].at + policy.spacing
    /\ Cardinality(OffersOf(d)) + count <= policy.maxPerDay

CursorOK ==
    /\ Fits(cursor)
    /\ Behind(cursor.date)
    /\ cursor.next # 0 => Owed(cursor.date, cursor.next, cursor.remaining)

OnePass == \A p, q \in Schedulers : pass[p].pc # "idle" /\ pass[q].pc # "idle" => p = q

Sampling(P) == P.now \in Times /\ P.due = 0 /\ cursor.date < LocalDate[P.now]

Elapsing(P) ==
    /\ P.now \in Times
    /\ P.s.date = LocalDate[P.now]
    /\ Fits(P.s)
    /\ Behind(P.s.date)
    /\ P.s.next # 0 => Owed(P.s.date, P.s.next, P.s.remaining)
    /\ P.due # 0 => /\ P.due <= P.now
                    /\ Usable(P.due, P.now)
                    /\ Owed(P.s.date, P.due, P.s.remaining + 1)

Advanced(P) == P.due # 0 /\ P.s.next # 0 => P.s.next >= P.now + Spacing

PassesOK ==
    \A p \in Schedulers :
        /\ pass[p].pc = "sampling" => Sampling(pass[p])
        /\ pass[p].pc \in {"elapsing", "advanced"} => Elapsing(pass[p])
        /\ pass[p].pc = "advanced" => Advanced(pass[p])

Inv == TypeOK /\ CursorOK /\ OnePass /\ PassesOK /\ SampledOnce /\ NoBurst /\ GrantsExecutable

----------------------------------------------------------------------------
(* Slots and windows. *)

LEMMA PolicyType ==
  ASSUME TypeOK
  PROVE  /\ LocalDate \in [Times -> Dates] /\ Start \in [Dates -> Times] /\ End \in [Dates -> Times]
         /\ policy.maxPerDay \in Nat /\ policy.minPerDay \in Nat /\ policy.dailyCap \in Nat
         /\ Spacing \in Nat /\ Spacing > 0
         /\ policy.sourceMaxAge \in Nat
  BY PolicyAssumption DEF TypeOK, Policy, LocalDate, Start, End, Spacing

LEMMA OfferType ==
  ASSUME TypeOK
  PROVE  /\ Len(offers) \in Nat
         /\ \A i \in Offers :
                /\ offers[i] \in Offer
                /\ offers[i].slot \in Int /\ offers[i].at \in Int /\ offers[i].date \in Dates
                /\ offers[i].date \in Int
                /\ offers[i].policy \in Policies
                /\ offers[i].policy.spacing \in Int /\ offers[i].policy.maxPerDay \in Nat
  <1>1. Len(offers) \in Nat /\ \A i \in Offers : offers[i] \in Offer
    BY DEF TypeOK, Offers
  <1>2. SUFFICES ASSUME NEW o \in Offer
                 PROVE  /\ o.slot \in Int /\ o.at \in Int /\ o.date \in Dates /\ o.date \in Int
                        /\ o.policy \in Policies
                        /\ o.policy.spacing \in Int /\ o.policy.maxPerDay \in Nat
    BY <1>1
  <1> QED
    BY PolicyAssumption DEF Offer, Times, Dates, Policy

\* An instant inside the window of a date is of that date.
LEMMA WindowDate ==
  ASSUME NEW P \in Policies, NEW d \in Dates, NEW t \in Int, P.start[d] <= t, t < P.end[d]
  PROVE  t \in Times /\ P.zone[t] = d
  <1>1. P.start[d] \in Times /\ P.end[d] \in Times
    BY PolicyAssumption DEF Policy
  <1>2. t \in Times
    BY <1>1, CalendarAssumption DEF Times
  <1> QED
    BY <1>2, PolicyAssumption

\* What sampleGenerationSlot draws: a slot from the lower bound on after which
\* the slots that remain still fit.
LEMMA SamplesOK ==
  ASSUME TypeOK, NEW s \in Cursor, NEW lower \in Nat, lower > 0, NEW end \in Times,
         NEW r \in Samples(s, lower, end)
  PROVE  /\ r \in Cursor
         /\ r.date = s.date
         /\ r.remaining <= s.remaining
         /\ r.remaining > 0 <=> r.next # 0
         /\ r.next # 0 => r.next >= lower /\ r.next + (r.remaining - 1) * Spacing < end
  <1>1. Spacing \in Nat /\ Spacing > 0
    BY PolicyType
  <1>2. end \in Nat /\ end > 0
    BY CalendarAssumption DEF Times
  <1>3. CASE lower >= end \/ s.remaining = 0
    <2>1. r = [s EXCEPT !.remaining = 0, !.next = 0]
      BY <1>3 DEF Samples
    <2>2. r \in Cursor /\ r.date = s.date /\ r.remaining = 0 /\ r.next = 0
      <3>1. s \in Cursor /\ 0 \in Nat
        OBVIOUS
      <3> QED
        BY ONLY <2>1, <3>1 DEF Cursor
    <2> QED
      BY <2>2 DEF Cursor
  <1>4. CASE lower < end /\ s.remaining # 0
    <2> DEFINE n == Lesser(s.remaining, Capacity(lower, end))
    <2>1. Capacity(lower, end) \in Nat /\ Capacity(lower, end) > 0
      <3>1. end - lower - 1 \in Nat
        BY <1>2, <1>4
      <3>2. (end - lower - 1) \div Spacing \in Nat
        BY <3>1, <1>1
      <3> QED
        BY <3>2 DEF Capacity
    <2>2. n \in Nat /\ n > 0 /\ n <= s.remaining
      BY <2>1, <1>4 DEF Lesser, Cursor
    <2>3. (n - 1) * Spacing \in Nat
      BY <2>2, <1>1
    <2>4. PICK at \in lower .. ((end - (n - 1) * Spacing) - 1) : r = [s EXCEPT !.remaining = n, !.next = at]
      <3>1. ~(lower >= end \/ s.remaining = 0)
        BY <1>2, <1>4
      <3>2. r \in {[s EXCEPT !.remaining = n, !.next = at] : at \in lower .. ((end - (n - 1) * Spacing) - 1)}
        BY <3>1 DEF Samples
      <3> QED
        BY <3>2
    <2> HIDE DEF n
    <2>5. at \in Nat
      BY <2>3, <1>2
    <2>6. r \in Cursor /\ r.date = s.date /\ r.remaining = n /\ r.next = at
      <3>1. s \in Cursor
        OBVIOUS
      <3> QED
        BY ONLY <2>2, <2>4, <2>5, <3>1 DEF Cursor
    <2>7. at + (n - 1) * Spacing < end /\ at >= lower
      BY <2>3, <1>2
    <2> QED
      BY <2>2, <2>5, <2>6, <2>7
  <1> QED
    BY <1>2, <1>3, <1>4 DEF Cursor

\* A schedule that fits passes AgentSettings.Validate.
LEMMA FitsValid ==
  ASSUME TypeOK, NEW s \in Cursor, Fits(s)
  PROVE  /\ Valid(s)
         /\ s.next # 0 => s.next \in Times /\ LocalDate[s.next] = s.date
         /\ s.remaining > 0 => s.date \in Dates
  <1>1. /\ Start \in [Dates -> Times] /\ End \in [Dates -> Times]
        /\ Spacing \in Nat /\ policy \in Policies
    BY PolicyType DEF TypeOK
  <1>2. s.date \in 0 .. Days /\ s.remaining \in Nat /\ s.next \in Nat
    BY DEF Cursor
  <1>3. CASE s.next = 0
    BY <1>2, <1>3 DEF Fits, Valid
  <1>4. CASE s.next # 0
    <2>1. s.date \in Dates /\ s.remaining > 0
      BY <1>2, <1>4 DEF Fits, Dates
    <2>2. (s.remaining - 1) * Spacing \in Nat
      BY <1>1, <1>2, <2>1
    <2>3. Start[s.date] \in Int /\ End[s.date] \in Int
      BY <1>1, <2>1 DEF Times
    <2>4. Start[s.date] <= s.next /\ s.next < End[s.date]
      BY <1>2, <1>4, <2>2, <2>3 DEF Fits
    <2>5. s.next \in Times /\ LocalDate[s.next] = s.date
      BY <1>1, <1>2, <2>1, <2>4, WindowDate DEF Start, End, LocalDate
    <2> QED
      BY <1>2, <2>1, <2>5 DEF Fits, Valid
  <1> QED
    BY <1>3, <1>4

----------------------------------------------------------------------------
(* Steps that leave most of the state alone. *)

LEMMA OffersKept ==
  ASSUME Inv, UNCHANGED <<cursor, policy, offers>>
  PROVE  CursorOK' /\ SampledOnce' /\ NoBurst' /\ GrantsExecutable'
  <1>1. CursorOK'
    BY DEF Inv, CursorOK, Fits, Behind, Owed, OffersOf, Offers, Start, End, Spacing
  <1>2. SampledOnce'
    BY DEF Inv, SampledOnce, Offers
  <1>3. NoBurst'
    BY DEF Inv, NoBurst, Offers
  <1>4. GrantsExecutable'
    BY DEF Inv, GrantsExecutable, Granted, Offers
  <1> QED
    BY <1>1, <1>2, <1>3, <1>4

\* What is said of one pass depends on no other.
LEMMA SamePass ==
  ASSUME UNCHANGED <<cursor, policy, lastPublished, offers>>, NEW P
  PROVE  /\ Sampling(P)' <=> Sampling(P)
         /\ Elapsing(P)' <=> Elapsing(P)
         /\ Advanced(P)' <=> Advanced(P)
  BY DEF Sampling, Elapsing, Advanced, Fits, Behind, Owed, OffersOf, Offers, Usable, Lower, Later,
         Start, End, Spacing, LocalDate

\* One pass moves on and nothing else changes.
LEMMA PassMoves ==
  ASSUME Inv, NEW p \in Schedulers, NEW P \in Pass,
         pass' = [pass EXCEPT ![p] = P],
         \/ Unlocked
         \/ pass[p].pc # "idle"
         \/ P.pc = "idle",
         P.pc = "sampling" => Sampling(P),
         P.pc \in {"elapsing", "advanced"} => Elapsing(P),
         P.pc = "advanced" => Advanced(P),
         UNCHANGED <<settings, now, offers>>
  PROVE  Inv'
  <1>1. UNCHANGED <<cursor, policy, edits, enabled, lastPublished, now, offers>>
    BY DEF settings
  <1>2. TypeOK'
    BY <1>1 DEF Inv, TypeOK
  <1>3. pass \in [Schedulers -> Pass]
    BY DEF Inv, TypeOK
  <1>4. pass'[p] = P /\ \A q \in Schedulers \ {p} : pass'[q] = pass[q]
    BY <1>3
  <1>5. OnePass'
    BY <1>4 DEF Inv, OnePass, Unlocked
  <1>6. PassesOK'
    <2> SUFFICES ASSUME NEW q \in Schedulers
                 PROVE  /\ pass'[q].pc = "sampling" => Sampling(pass'[q])
                        /\ pass'[q].pc \in {"elapsing", "advanced"} => Elapsing(pass'[q])
                        /\ pass'[q].pc = "advanced" => Advanced(pass'[q])
      BY <1>1, SamePass DEF PassesOK
    <2> QED
      BY <1>4 DEF Inv, PassesOK
  <1> QED
    BY <1>1, <1>2, <1>5, <1>6, OffersKept DEF Inv

----------------------------------------------------------------------------
(* The steps of a pass. *)

LEMMA BeginPassStep ==
  ASSUME Inv, NEW p \in Schedulers, BeginPass(p)
  PROVE  Inv'
  <1> DEFINE P == [pc |-> IF cursor.date = LocalDate[now] THEN "elapsing" ELSE "sampling",
                   now |-> now, s |-> cursor, due |-> 0]
  <1>1. pass' = [pass EXCEPT ![p] = P] /\ Unlocked /\ UNCHANGED <<settings, now, offers>>
    BY DEF BeginPass
  <1>2. /\ cursor \in Cursor /\ now \in Times /\ now \in Nat
        /\ LocalDate \in [Times -> Dates] /\ cursor.date \in Int
    BY PolicyType DEF Inv, TypeOK, Times, Cursor
  <1>3. P \in Pass
    BY <1>2 DEF Pass
  <1>4. ASSUME P.pc = "sampling" PROVE Sampling(P)
    <2>1. cursor.date <= LocalDate[now] /\ cursor.date # LocalDate[now]
      BY <1>4 DEF BeginPass
    <2>2. LocalDate[now] \in Int
      BY <1>2 DEF Dates
    <2> QED
      BY <1>2, <2>1, <2>2 DEF Sampling
  <1>5. ASSUME P.pc = "elapsing" PROVE Elapsing(P)
    <2>1. cursor.date = LocalDate[now]
      BY <1>5
    <2>2. CursorOK
      BY DEF Inv
    <2> QED
      BY <1>2, <2>1, <2>2 DEF Elapsing, CursorOK
  <1>6. P.pc # "advanced"
    OBVIOUS
  <1> HIDE DEF P
  <1> QED
    BY <1>1, <1>3, <1>4, <1>5, <1>6, PassMoves

LEMMA SampleDayStep ==
  ASSUME Inv, NEW p \in Schedulers, SampleDay(p)
  PROVE  Inv'
  <1> DEFINE date == LocalDate[pass[p].now]
             lower == Later(Lower(date), pass[p].now)
  <1>1. PICK count \in policy.minPerDay..policy.maxPerDay :
          \E sample \in Samples([date |-> date, remaining |-> count, next |-> 0], lower, End[date]) :
              pass' = [pass EXCEPT ![p].pc = "elapsing", ![p].s = sample]
    BY DEF SampleDay
  <1> DEFINE s == [date |-> date, remaining |-> count, next |-> 0]
  <1>2. PICK sample \in Samples(s, lower, End[date]) :
          pass' = [pass EXCEPT ![p].pc = "elapsing", ![p].s = sample]
    BY <1>1
  <1>3. /\ TypeOK /\ CursorOK /\ Sampling(pass[p]) /\ pass[p] \in Pass
        /\ pass \in [Schedulers -> Pass] /\ pass[p].pc = "sampling"
    BY DEF Inv, TypeOK, PassesOK, SampleDay
  <1>4. /\ pass[p].now \in Times /\ date \in Dates /\ pass[p].due = 0 /\ cursor.date < date
        /\ End[date] \in Times /\ Start[date] \in Times /\ Spacing \in Nat /\ lastPublished \in Nat
        /\ policy.minPerDay \in Nat /\ policy.maxPerDay \in Nat
    BY <1>3, PolicyType DEF Sampling, TypeOK
  <1>5. lower \in Nat /\ lower > 0
    BY <1>4 DEF Lower, Later, Times
  <1>6. s \in Cursor
    BY <1>4 DEF Cursor, Dates
  <1> HIDE DEF s, lower
  <1>7. /\ sample \in Cursor
        /\ sample.date = s.date
        /\ sample.remaining <= s.remaining
        /\ sample.remaining > 0 <=> sample.next # 0
        /\ sample.next # 0 =>
               sample.next >= lower /\ sample.next + (sample.remaining - 1) * Spacing < End[date]
    BY <1>2, <1>3, <1>4, <1>5, <1>6, SamplesOK
  <1>8. s.date = date /\ s.remaining = count /\ count \in Nat /\ count <= policy.maxPerDay
    BY <1>4 DEF s
  <1>9. lower >= Start[date] /\ lower \in Int
    BY <1>4 DEF lower, Lower, Later, Times
  <1> HIDE DEF date
  <1>10. sample.remaining \in Nat /\ sample.next \in Nat /\ Start[date] \in Int /\ cursor.date \in Int /\ date \in Int
    BY <1>3, <1>4, <1>7 DEF Cursor, Times, Dates, TypeOK
  <1>11. Fits(sample)
    BY <1>4, <1>7, <1>8, <1>9, <1>10 DEF Fits, Dates
  <1>12. \A i \in Offers : offers[i].date \in Int /\ offers[i].date <= cursor.date
    BY <1>3, OfferType DEF CursorOK, Behind
  <1>13. Behind(date) /\ OffersOf(date) = {}
    BY <1>4, <1>10, <1>12 DEF Behind, OffersOf
  <1>14. Owed(date, sample.next, sample.remaining)
    BY <1>7, <1>8, <1>10, <1>13, <1>4, FS_EmptySet DEF Owed
  <1> DEFINE P == [pass[p] EXCEPT !.pc = "elapsing", !.s = sample]
  <1>15. pass' = [pass EXCEPT ![p] = P]
    BY <1>2, <1>3
  <1>16. P \in Pass /\ P.pc = "elapsing" /\ P.s = sample /\ P.now = pass[p].now /\ P.due = 0
    BY ONLY <1>3, <1>4, <1>7 DEF Pass
  <1> HIDE DEF P
  <1>17. Elapsing(P)
    BY <1>4, <1>7, <1>8, <1>11, <1>13, <1>14, <1>16 DEF Elapsing, date
  <1>18. UNCHANGED <<settings, now, offers>>
    BY DEF SampleDay
  <1> QED
    BY <1>3, <1>15, <1>16, <1>17, <1>18, PassMoves

\* Another slot is spaced from all that came before.
LEMMA OwedLater ==
  ASSUME TypeOK, NEW d, NEW at \in Int, NEW later \in Int, at <= later,
         NEW count \in Int, NEW fewer \in Int, fewer <= count,
         Owed(d, at, count)
  PROVE  Owed(d, later, fewer)
  <1>1. Cardinality(OffersOf(d)) \in Nat
    <2>1. OffersOf(d) \subseteq 1 .. Len(offers) /\ Len(offers) \in Nat
      BY OfferType DEF OffersOf, Offers
    <2>2. IsFiniteSet(1 .. Len(offers))
      BY <2>1, FS_Interval
    <2> QED
      BY <2>1, <2>2, FS_Subset, FS_CardinalityType
  <1>2. \A i \in OffersOf(d) : offers[i].at \in Int /\ offers[i].policy.spacing \in Int
    BY OfferType DEF OffersOf
  <1>3. policy.spacing \in Int /\ policy.maxPerDay \in Int
    BY PolicyType DEF Spacing
  <1> QED
    BY <1>1, <1>2, <1>3 DEF Owed

LEMMA ElapseStep ==
  ASSUME Inv, NEW p \in Schedulers, Elapse(p)
  PROVE  Inv'
  <1> DEFINE s == pass[p].s
             at == s.next
             r == [s EXCEPT !.remaining = @ - 1]
  <1>1. PICK sample \in Samples(r, at + Spacing, End[s.date]) :
          pass' = [pass EXCEPT ![p].s = sample,
                               ![p].due = IF Usable(at, pass[p].now) THEN at ELSE @]
    BY DEF Elapse
  <1>2. /\ TypeOK /\ Elapsing(pass[p]) /\ pass[p] \in Pass
        /\ pass \in [Schedulers -> Pass] /\ pass[p].pc = "elapsing"
        /\ at # 0 /\ at <= pass[p].now
    BY DEF Inv, TypeOK, PassesOK, Elapse
  <1>3. /\ s \in Cursor /\ pass[p].due \in Nat /\ pass[p].now \in Nat
    BY <1>2 DEF Pass
  <1>4. /\ s.remaining \in Nat /\ s.next \in Nat /\ s.remaining > 0 /\ s.date \in Dates
        /\ at \in Times /\ LocalDate[at] = s.date
    BY <1>2, <1>3, FitsValid DEF Cursor, Fits, Elapsing
  <1>5. /\ Spacing \in Nat /\ Spacing > 0 /\ End[s.date] \in Times /\ Start[s.date] \in Int
        /\ policy.maxPerDay \in Nat
    BY <1>2, <1>4, PolicyType DEF Times
  <1>6. r \in Cursor /\ r.remaining = s.remaining - 1 /\ r.date = s.date
    BY ONLY <1>3, <1>4 DEF Cursor
  <1> HIDE DEF r
  <1>7. /\ sample \in Cursor
        /\ sample.date = s.date
        /\ sample.remaining <= s.remaining - 1
        /\ sample.remaining > 0 <=> sample.next # 0
        /\ sample.next # 0 =>
               /\ sample.next >= at + Spacing
               /\ sample.next + (sample.remaining - 1) * Spacing < End[s.date]
    <2>1. at + Spacing \in Nat /\ at + Spacing > 0
      BY <1>4, <1>5
    <2>2. /\ sample \in Cursor
          /\ sample.date = r.date
          /\ sample.remaining <= r.remaining
          /\ sample.remaining > 0 <=> sample.next # 0
          /\ sample.next # 0 =>
                 /\ sample.next >= at + Spacing
                 /\ sample.next + (sample.remaining - 1) * Spacing < End[s.date]
      BY <1>1, <1>2, <1>5, <1>6, <2>1, SamplesOK
    <2> QED
      BY <1>6, <2>2
  <1>8. sample.remaining \in Nat /\ sample.next \in Nat
    BY <1>7 DEF Cursor
  <1>9. s.remaining <= policy.maxPerDay /\ at >= Start[s.date] /\ s.date # 0
    BY <1>2 DEF Elapsing, Fits
  <1>10. Fits(sample)
    BY <1>4, <1>5, <1>7, <1>8, <1>9 DEF Fits
  <1>11. Owed(s.date, at, s.remaining)
    BY <1>2 DEF Elapsing
  <1> DEFINE due == IF Usable(at, pass[p].now) THEN at ELSE pass[p].due
             P == [pass[p] EXCEPT !.s = sample, !.due = due]
  <1>12. pass' = [pass EXCEPT ![p] = P]
    BY <1>1, <1>2
  <1>13. due \in Nat
    BY <1>3, <1>4
  <1> HIDE DEF due
  <1>14. P \in Pass /\ P.pc = "elapsing" /\ P.s = sample /\ P.now = pass[p].now /\ P.due = due
    BY ONLY <1>2, <1>7, <1>13 DEF Pass
  <1> HIDE DEF P
  <1>15. sample.next # 0 => Owed(s.date, sample.next, sample.remaining)
    BY <1>2, <1>4, <1>5, <1>7, <1>8, <1>11, OwedLater
  <1>16. ASSUME due # 0
         PROVE  /\ due <= pass[p].now
                /\ Usable(due, pass[p].now)
                /\ Owed(s.date, due, sample.remaining + 1)
    <2>1. CASE Usable(at, pass[p].now)
      <3>1. due = at
        BY <2>1 DEF due
      <3>2. Owed(s.date, at, sample.remaining + 1)
        BY <1>2, <1>4, <1>7, <1>8, <1>11, OwedLater
      <3> QED
        BY <1>2, <2>1, <3>1, <3>2
    <2>2. CASE ~Usable(at, pass[p].now)
      <3>1. due = pass[p].due
        BY <2>2 DEF due
      <3>2. /\ due <= pass[p].now /\ Usable(due, pass[p].now)
            /\ Owed(s.date, due, s.remaining + 1)
        BY <1>2, <1>16, <3>1 DEF Elapsing
      <3>3. Owed(s.date, due, sample.remaining + 1)
        BY <1>2, <1>4, <1>7, <1>8, <1>13, <3>2, OwedLater
      <3> QED
        BY <3>2, <3>3
    <2> QED
      BY <2>1, <2>2
  <1>17. pass[p].now \in Times /\ s.date = LocalDate[pass[p].now] /\ Behind(s.date)
    BY <1>2 DEF Elapsing
  <1> HIDE DEF s
  <1>18. Elapsing(P)
    BY <1>7, <1>10, <1>14, <1>15, <1>16, <1>17 DEF Elapsing
  <1>19. UNCHANGED <<settings, now, offers>>
    BY DEF Elapse
  <1> QED
    BY <1>2, <1>12, <1>14, <1>18, <1>19, PassMoves

LEMMA CoalesceStep ==
  ASSUME Inv, NEW p \in Schedulers, Coalesce(p)
  PROVE  Inv'
  <1> DEFINE s == pass[p].s
             clock == pass[p].now
  <1>1. PICK r \in AfterDue(p) : pass' = [pass EXCEPT ![p].pc = "advanced", ![p].s = r]
    BY DEF Coalesce
  <1>2. /\ TypeOK /\ Elapsing(pass[p]) /\ pass[p] \in Pass
        /\ pass \in [Schedulers -> Pass] /\ pass[p].pc = "elapsing"
        /\ s.next = 0 \/ s.next > clock
    BY DEF Inv, TypeOK, PassesOK, Coalesce
  <1>3. s \in Cursor /\ pass[p].due \in Nat /\ clock \in Times
    BY <1>2 DEF Pass, Elapsing
  <1>4. s.remaining \in Nat /\ s.next \in Nat /\ clock \in Nat /\ clock > 0
    BY <1>3 DEF Cursor, Times
  <1>5. Spacing \in Nat /\ Spacing > 0
    BY <1>2, PolicyType
  <1>6. /\ Fits(s) /\ (s.next # 0 => Owed(s.date, s.next, s.remaining)) /\ Behind(s.date)
        /\ s.date = LocalDate[clock]
    BY <1>2 DEF Elapsing
  <1>7. /\ r \in Cursor /\ r.date = s.date /\ Fits(r) /\ r.remaining <= s.remaining
        /\ r.next # 0 => Owed(s.date, r.next, r.remaining)
        /\ pass[p].due # 0 /\ r.next # 0 => r.next >= clock + Spacing
    <2>1. CASE pass[p].due # 0 /\ s.next # 0 /\ s.next < clock + Spacing
      <3>1. r \in Samples(s, clock + Spacing, End[s.date])
        BY <1>1, <2>1 DEF AfterDue
      <3>2. clock + Spacing \in Nat /\ clock + Spacing > 0
        BY <1>4, <1>5
      <3>3. s.date \in Dates /\ s.remaining > 0
        BY <1>2, <1>3, <1>4, <1>6, <2>1, FitsValid DEF Fits
      <3>4. End[s.date] \in Times /\ Start[s.date] \in Int /\ policy.maxPerDay \in Int
        <4>1. /\ Start \in [Dates -> Times] /\ End \in [Dates -> Times]
              /\ policy.maxPerDay \in Nat
          BY <1>2, PolicyType
        <4> QED
          BY ONLY <3>3, <4>1 DEF Times
      <3>5. /\ r \in Cursor
            /\ r.date = s.date
            /\ r.remaining <= s.remaining
            /\ r.remaining > 0 <=> r.next # 0
            /\ r.next # 0 => /\ r.next >= clock + Spacing
                             /\ r.next + (r.remaining - 1) * Spacing < End[s.date]
        BY <1>2, <1>3, <3>1, <3>2, <3>4, SamplesOK
      <3>6. r.remaining \in Nat /\ r.next \in Nat
        BY <3>5 DEF Cursor
      <3>7. s.remaining <= policy.maxPerDay /\ s.next >= Start[s.date] /\ s.date # 0
        BY <1>6, <2>1 DEF Fits
      <3> HIDE DEF s, clock
      <3>8. r.next # 0 => r.next >= s.next
        BY <1>4, <1>5, <2>1, <3>5, <3>6
      <3>9. Fits(r)
        BY <1>4, <3>4, <3>5, <3>6, <3>7, <3>8 DEF Fits
      <3>10. r.next # 0 => Owed(s.date, r.next, r.remaining)
        BY <1>2, <1>4, <1>6, <2>1, <3>5, <3>6, <3>8, OwedLater
      <3> QED
        BY <3>5, <3>9, <3>10
    <2>2. CASE ~(pass[p].due # 0 /\ s.next # 0 /\ s.next < clock + Spacing)
      <3>1. r = s
        BY <1>1, <2>2 DEF AfterDue
      <3> QED
        BY <1>3, <1>4, <1>5, <1>6, <2>2, <3>1
    <2> QED
      BY <2>1, <2>2
  <1> DEFINE P == [pass[p] EXCEPT !.pc = "advanced", !.s = r]
  <1>8. pass' = [pass EXCEPT ![p] = P]
    BY <1>1, <1>2
  <1>9. P \in Pass /\ P.pc = "advanced" /\ P.s = r /\ P.now = clock /\ P.due = pass[p].due
    BY ONLY <1>2, <1>7 DEF Pass
  <1> HIDE DEF P
  <1>10. Advanced(P)
    BY <1>7, <1>9 DEF Advanced
  <1>11. ASSUME P.due # 0
         PROVE  P.due <= clock /\ Usable(P.due, clock) /\ Owed(s.date, P.due, r.remaining + 1)
    <2>1. P.due <= clock /\ Usable(P.due, clock) /\ Owed(s.date, P.due, s.remaining + 1)
      BY <1>2, <1>9, <1>11 DEF Elapsing
    <2>2. r.remaining \in Nat /\ P.due \in Nat
      BY <1>3, <1>7, <1>9 DEF Cursor
    <2>3. Owed(s.date, P.due, r.remaining + 1)
      BY <1>2, <1>4, <1>7, <2>1, <2>2, OwedLater
    <2> QED
      BY <2>1, <2>3
  <1> HIDE DEF s, clock
  <1>12. Elapsing(P)
    BY <1>3, <1>6, <1>7, <1>9, <1>11 DEF Elapsing
  <1>13. UNCHANGED <<settings, now, offers>>
    BY DEF Coalesce
  <1> QED
    BY <1>2, <1>8, <1>9, <1>10, <1>12, <1>13, PassMoves

LEMMA RollbackStep ==
  ASSUME Inv, NEW p \in Schedulers, Rollback(p)
  PROVE  Inv'
  <1>1. NoPass \in Pass /\ NoPass.pc = "idle"
    BY CalendarAssumption DEF NoPass, Pass, Cursor
  <1>2. pass' = [pass EXCEPT ![p] = NoPass] /\ UNCHANGED <<settings, now, offers>>
    BY DEF Rollback
  <1> QED
    BY <1>1, <1>2, PassMoves

----------------------------------------------------------------------------
(* The commit of a pass. *)

LEMMA AllIdle ==
  ASSUME \A q \in Schedulers : pass'[q].pc = "idle"
  PROVE  OnePass' /\ PassesOK'
  BY DEF OnePass, PassesOK

LEMMA OneMore ==
  ASSUME TypeOK, NEW o \in Offer, offers' = Append(offers, o)
  PROVE  /\ offers' \in Seq(Offer)
         /\ Len(offers) + 1 \notin Offers
         /\ Offers' = Offers \cup {Len(offers) + 1}
         /\ \A i \in Offers : offers'[i] = offers[i]
         /\ offers'[Len(offers) + 1] = o
         /\ \A d : d # o.date => OffersOf(d)' = OffersOf(d)
         /\ OffersOf(o.date)' = OffersOf(o.date) \cup {Len(offers) + 1}
         /\ Cardinality(OffersOf(o.date)) \in Nat
         /\ Cardinality(OffersOf(o.date)') = Cardinality(OffersOf(o.date)) + 1
  <1> DEFINE n == Len(offers)
  <1>1. n \in Nat /\ offers \in Seq(Offer)
    BY DEF TypeOK
  <1>2. offers' \in Seq(Offer) /\ Len(offers') = n + 1 /\ offers'[n + 1] = o
    BY <1>1
  <1>3. \A i \in 1 .. n : offers'[i] = offers[i]
    BY <1>1
  <1>4. n + 1 \notin Offers /\ Offers' = Offers \cup {n + 1}
    BY <1>1, <1>2 DEF Offers
  <1>5. \A i \in Offers : offers'[i] = offers[i]
    BY <1>3 DEF Offers
  <1> HIDE DEF n
  <1>6. \A d : OffersOf(d)' = {i \in Offers \cup {n + 1} : offers'[i].date = d}
    BY <1>4 DEF OffersOf
  <1>7. \A d : d # o.date => OffersOf(d)' = OffersOf(d)
    BY <1>2, <1>5, <1>6 DEF OffersOf
  <1>8. OffersOf(o.date)' = OffersOf(o.date) \cup {n + 1}
    BY <1>2, <1>5, <1>6 DEF OffersOf
  <1>9. IsFiniteSet(OffersOf(o.date)) /\ n + 1 \notin OffersOf(o.date)
    <2>1. OffersOf(o.date) \subseteq 1 .. n /\ n + 1 \notin OffersOf(o.date)
      BY <1>1, <1>4 DEF OffersOf, Offers, n
    <2>2. IsFiniteSet(1 .. n)
      BY <1>1, FS_Interval DEF n
    <2> QED
      BY <2>1, <2>2, FS_Subset
  <1>10. /\ Cardinality(OffersOf(o.date)) \in Nat
         /\ Cardinality(OffersOf(o.date)') = Cardinality(OffersOf(o.date)) + 1
    BY <1>8, <1>9, FS_CardinalityType, FS_AddElement
  <1> QED
    BY <1>2, <1>4, <1>5, <1>7, <1>8, <1>10 DEF n

LEMMA PersistStep ==
  ASSUME Inv, NEW p \in Schedulers, NEW granted \in BOOLEAN, Persist(p, granted)
  PROVE  Inv'
  <1>0. PICK s, due, clock, n : s = pass[p].s /\ due = pass[p].due /\ clock = pass[p].now /\ n = Len(offers)
    OBVIOUS
  <1> DEFINE o == [slot |-> due, at |-> clock, date |-> s.date, policy |-> policy, granted |-> granted]
  <1>1. /\ TypeOK /\ CursorOK /\ SampledOnce /\ NoBurst /\ GrantsExecutable /\ OnePass
        /\ Elapsing(pass[p]) /\ Advanced(pass[p]) /\ pass[p].pc = "advanced"
        /\ pass[p] \in Pass /\ pass \in [Schedulers -> Pass]
    BY DEF Inv, TypeOK, PassesOK, Persist
  <1>2. /\ pass' = [pass EXCEPT ![p] = NoPass]
        /\ cursor' = s
        /\ UNCHANGED <<policy, edits, enabled, lastPublished, now>>
        /\ offers' = IF due = 0 THEN offers ELSE Append(offers, o)
        /\ granted => due # 0
    BY <1>0 DEF Persist
  <1>3. s \in Cursor /\ due \in Nat /\ clock \in Times /\ s.date = LocalDate[clock]
    BY <1>0, <1>1 DEF Pass, Elapsing
  <1>4. /\ Fits(s) /\ Behind(s.date) /\ (s.next # 0 => Owed(s.date, s.next, s.remaining))
        /\ due # 0 => due <= clock /\ Usable(due, clock) /\ Owed(s.date, due, s.remaining + 1)
        /\ due # 0 /\ s.next # 0 => s.next >= clock + Spacing
    BY <1>0, <1>1 DEF Elapsing, Advanced
  <1>5. /\ s.date \in Dates /\ Start[s.date] \in Int /\ End[s.date] \in Int
        /\ Spacing \in Nat /\ policy \in Policies /\ lastPublished \in Nat
        /\ policy.maxPerDay \in Nat /\ policy.sourceMaxAge \in Nat
        /\ clock \in Int /\ s.remaining \in Nat /\ s.next \in Nat
    <2>1. /\ Start \in [Dates -> Times] /\ End \in [Dates -> Times] /\ LocalDate \in [Times -> Dates]
          /\ Spacing \in Nat /\ policy.maxPerDay \in Nat /\ policy.sourceMaxAge \in Nat
          /\ policy \in Policies /\ lastPublished \in Nat
      BY <1>1, PolicyType DEF TypeOK
    <2>2. s.remaining \in Nat /\ s.next \in Nat
      BY <1>3 DEF Cursor
    <2> QED
      BY ONLY <1>3, <2>1, <2>2 DEF Times
  <1>6. \A q \in Schedulers : pass'[q].pc = "idle"
    BY <1>1, <1>2 DEF OnePass, NoPass
  <1>7. pass' \in [Schedulers -> Pass]
    <2>1. NoPass \in Pass
      BY CalendarAssumption DEF NoPass, Pass, Cursor
    <2> QED
      BY <1>1, <1>2, <2>1
  <1>8. Fits(s)'
    BY <1>2, <1>4 DEF Fits, Start, End, Spacing
  <1>9. CASE due = 0
    <2>1. UNCHANGED offers
      BY <1>2, <1>9
    <2>2. TypeOK'
      BY <1>1, <1>2, <1>3, <1>7, <2>1 DEF TypeOK
    <2>3. CursorOK'
      BY <1>2, <1>4, <1>8, <2>1 DEF CursorOK, Behind, Owed, OffersOf, Offers, Fits, Start, End, Spacing
    <2>4. SampledOnce' /\ NoBurst' /\ GrantsExecutable'
      <3>1. SampledOnce'
        BY <1>1, <2>1 DEF SampledOnce, Offers
      <3>2. NoBurst'
        BY <1>1, <2>1 DEF NoBurst, Offers
      <3>3. GrantsExecutable'
        BY <1>1, <2>1 DEF GrantsExecutable, Granted, Offers
      <3> QED
        BY <3>1, <3>2, <3>3
    <2> QED
      BY <1>6, <2>2, <2>3, <2>4, AllIdle DEF Inv
  <1>10. CASE due # 0
    <2>1. offers' = Append(offers, o)
      BY <1>2, <1>10
    <2>2. due \in Times
      BY <1>3, <1>4, <1>10, CalendarAssumption DEF Times
    <2>3. o \in Offer
      BY <1>3, <1>5, <2>2 DEF Offer
    <2>4. /\ o.slot = due /\ o.at = clock /\ o.date = s.date /\ o.policy = policy
          /\ o.granted = granted
      OBVIOUS
    <2> HIDE DEF o
    <2>5. /\ offers' \in Seq(Offer)
          /\ n + 1 \notin Offers
          /\ Offers' = Offers \cup {n + 1}
          /\ \A i \in Offers : offers'[i] = offers[i]
          /\ offers'[n + 1] = o
          /\ \A d : d # s.date => OffersOf(d)' = OffersOf(d)
          /\ OffersOf(s.date)' = OffersOf(s.date) \cup {n + 1}
          /\ Cardinality(OffersOf(s.date)) \in Nat
          /\ Cardinality(OffersOf(s.date)') = Cardinality(OffersOf(s.date)) + 1
      BY <1>1, <2>1, <2>3, <2>4, OneMore, <1>0
    <2>6. Owed(s.date, due, s.remaining + 1)
      BY <1>4, <1>10
    <2>7. TypeOK'
      BY <1>1, <1>2, <1>3, <1>7, <2>5 DEF TypeOK
    <2>8. CursorOK'
      <3>1. Behind(s.date)'
        BY <1>4, <1>5, <2>4, <2>5 DEF Behind, Dates
      <3>2. s.next # 0 => Owed(s.date, s.next, s.remaining)'
        <4> SUFFICES ASSUME s.next # 0 PROVE Owed(s.date, s.next, s.remaining)'
          OBVIOUS
        <4>1. \A i \in OffersOf(s.date) : offers[i].policy = policy /\ s.next >= offers[i].at + policy.spacing
          BY <1>4 DEF Owed
        <4>2. s.next >= clock + policy.spacing
          BY <1>4, <1>10 DEF Spacing
        <4>3. \A i \in OffersOf(s.date)' : offers'[i].policy = policy /\ s.next >= offers'[i].at + policy.spacing
          BY <2>4, <2>5, <4>1, <4>2 DEF OffersOf
        <4>4. Cardinality(OffersOf(s.date)') + s.remaining <= policy.maxPerDay
          BY <1>5, <2>5, <2>6 DEF Owed
        <4> QED
          BY <1>2, <4>3, <4>4 DEF Owed
      <3> QED
        BY <1>2, <1>8, <3>1, <3>2 DEF CursorOK
    <2>9. SampledOnce'
      <3>1. \A i \in Offers : /\ OffersOf(offers[i].date) = {j \in Offers : offers[j].date = offers[i].date}
                             /\ \A j \in OffersOf(offers[i].date) : offers[j].policy = offers[i].policy
                             /\ Cardinality(OffersOf(offers[i].date)) <= offers[i].policy.maxPerDay
        BY <1>1 DEF SampledOnce, OffersOf
      <3>2. /\ \A j \in OffersOf(s.date) : offers[j].policy = policy
            /\ Cardinality(OffersOf(s.date)') <= policy.maxPerDay
        BY <1>5, <2>5, <2>6 DEF Owed
      <3>3. \A j \in OffersOf(s.date)' : offers'[j].policy = policy
        BY <2>4, <2>5, <3>2 DEF OffersOf
      <3>4. \A d : OffersOf(d)' = {j \in Offers' : offers'[j].date = d}
        BY DEF OffersOf
      <3>5. ASSUME NEW i \in Offers', NEW d, d = offers'[i].date
            PROVE  /\ \A j \in OffersOf(d)' : offers'[j].policy = offers'[i].policy
                   /\ Cardinality(OffersOf(d)') <= offers'[i].policy.maxPerDay
        <4>1. CASE d = s.date
          <5>1. offers'[i].policy = policy
            BY <3>3, <3>4, <3>5, <4>1
          <5> QED
            BY <3>2, <3>3, <4>1, <5>1
        <4>2. CASE d # s.date
          <5>1. i \in Offers /\ offers'[i] = offers[i] /\ OffersOf(d)' = OffersOf(d)
            BY <2>4, <2>5, <3>5, <4>2
          <5>2. \A j \in OffersOf(d) : offers'[j] = offers[j]
            BY <2>5 DEF OffersOf
          <5> QED
            BY <3>1, <3>5, <5>1, <5>2
        <4> QED
          BY <4>1, <4>2
      <3>6. SUFFICES ASSUME NEW i \in Offers'
                     PROVE  /\ \A j \in Offers' : offers'[j].date = offers'[i].date
                                                     => offers'[j].policy = offers'[i].policy
                            /\ Cardinality({j \in Offers' : offers'[j].date = offers'[i].date})
                                 <= offers'[i].policy.maxPerDay
        BY DEF SampledOnce
      <3>7. PICK d : d = offers'[i].date
        OBVIOUS
      <3>8. OffersOf(d)' = {j \in Offers' : offers'[j].date = offers'[i].date}
        BY <3>4, <3>7
      <3>9. /\ \A j \in OffersOf(d)' : offers'[j].policy = offers'[i].policy
            /\ Cardinality(OffersOf(d)') <= offers'[i].policy.maxPerDay
        BY <3>5, <3>7
      <3> QED
        BY <3>8, <3>9
    <2>10. NoBurst'
      <3>1. SUFFICES ASSUME NEW i \in Offers', NEW j \in Offers', i < j, offers'[i].date = offers'[j].date
                     PROVE  offers'[j].at >= offers'[i].at + offers'[i].policy.spacing
        BY DEF NoBurst
      <3>2. n \in Nat /\ Offers = 1 .. n
        BY <1>0, <1>1, OfferType DEF Offers
      <3>3. i \in Offers /\ offers'[i] = offers[i]
        BY <2>5, <3>1, <3>2
      <3>4. CASE j \in Offers
        BY <1>1, <2>5, <3>1, <3>3, <3>4 DEF NoBurst
      <3>5. CASE j = n + 1
        <4>1. i \in OffersOf(s.date)
          BY <2>4, <2>5, <3>1, <3>3, <3>5 DEF OffersOf
        <4>2. offers[i].policy = policy /\ due >= offers[i].at + policy.spacing
          BY <2>6, <4>1 DEF Owed
        <4>3. offers[i].at + policy.spacing \in Int
          BY <1>1, <1>5, <3>3, OfferType DEF Spacing
        <4> QED
          BY <1>3, <1>4, <1>5, <1>10, <2>4, <2>5, <3>3, <3>5, <4>2, <4>3
      <3> QED
        BY <2>5, <3>4, <3>5
    <2>11. GrantsExecutable'
      <3>1. SUFFICES ASSUME NEW i \in Offers', offers'[i].granted
                     PROVE  LET P == offers'[i].policy
                                d == P.zone[offers'[i].slot]
                            IN /\ offers'[i].slot <= offers'[i].at /\ offers'[i].at < offers'[i].slot + P.sourceMaxAge
                               /\ P.zone[offers'[i].at] = d
                               /\ offers'[i].slot >= P.start[d] /\ offers'[i].slot < P.end[d]
                               /\ offers'[i].at >= P.start[d] /\ offers'[i].at < P.end[d]
        BY DEF GrantsExecutable, Granted
      <3>2. CASE i \in Offers
        <4>1. offers'[i] = offers[i] /\ i \in Granted
          BY <2>5, <3>1, <3>2 DEF Granted
        <4> QED
          BY <1>1, <4>1 DEF GrantsExecutable
      <3>3. CASE i = n + 1
        <4>1. /\ due <= clock /\ clock < due + policy.sourceMaxAge
              /\ due >= Lower(s.date) /\ clock >= Start[s.date] /\ clock < End[s.date]
          BY <1>3, <1>4, <1>10 DEF Usable
        <4>2. Lower(s.date) \in Int /\ Lower(s.date) >= Start[s.date]
          BY <1>5 DEF Lower, Later
        <4>3. due \in Int /\ due >= Start[s.date] /\ due < End[s.date]
          BY <1>3, <1>5, <4>1, <4>2
        <4>4. LocalDate[due] = s.date
          BY <1>5, <4>3, WindowDate DEF LocalDate, Start, End
        <4> QED
          BY <1>3, <2>4, <2>5, <3>3, <4>1, <4>3, <4>4 DEF LocalDate, Start, End
      <3> QED
        BY <2>5, <3>2, <3>3
    <2> QED
      BY <1>6, <2>7, <2>8, <2>9, <2>10, <2>11, AllIdle DEF Inv
  <1> QED
    BY <1>9, <1>10

----------------------------------------------------------------------------
(* What else happens. *)

LEMMA SetPolicyStep ==
  ASSUME Inv, NEW P \in Policies, SetPolicy(P)
  PROVE  Inv'
  <1>1. /\ TypeOK /\ CursorOK /\ Unlocked /\ policy' = P
        /\ edits < MaxEdits /\ edits' = edits + 1
        /\ UNCHANGED <<enabled, lastPublished, now, pass, offers>>
        /\ cursor' = [date |-> RetiredDate(P), remaining |-> 0, next |-> 0]
    BY DEF Inv, SetPolicy
  <1>2. /\ RetiredDate(P) \in 0 .. Days /\ cursor.date \in 0 .. Days
        /\ RetiredDate(P) >= cursor.date
    <2>1. /\ LocalDate[now] \in Dates /\ P.zone[now] \in Dates /\ cursor.date \in 0 .. Days
      BY <1>1, PolicyType, PolicyAssumption DEF TypeOK, Policy, Cursor
    <2> QED
      BY <2>1, CalendarAssumption DEF RetiredDate, Later, Dates
  <1>3. P.maxPerDay \in Nat /\ edits \in 0 .. MaxEdits /\ MaxEdits \in Nat
    BY <1>1, PolicyAssumption, BoundAssumption DEF Policy, TypeOK
  <1>4. cursor'.date = RetiredDate(P) /\ cursor'.remaining = 0 /\ cursor'.next = 0 /\ cursor' \in Cursor
    BY <1>1, <1>2 DEF Cursor
  <1>5. TypeOK'
    BY <1>1, <1>3, <1>4 DEF TypeOK
  <1>6. CursorOK'
    <2>1. Fits(cursor)'
      BY <1>1, <1>3, <1>4 DEF Fits
    <2>2. Behind(cursor.date)'
      BY <1>1, <1>2, <1>4, OfferType DEF CursorOK, Behind, Offers
    <2> QED
      BY <1>4, <2>1, <2>2 DEF CursorOK
  <1>7. SampledOnce' /\ NoBurst' /\ GrantsExecutable'
    <2>1. SampledOnce'
      BY <1>1 DEF Inv, SampledOnce, Offers
    <2>2. NoBurst'
      BY <1>1 DEF Inv, NoBurst, Offers
    <2>3. GrantsExecutable'
      BY <1>1 DEF Inv, GrantsExecutable, Granted, Offers
    <2> QED
      BY <2>1, <2>2, <2>3
  <1> QED
    BY <1>1, <1>5, <1>6, <1>7, AllIdle DEF Inv, Unlocked

LEMMA SetEnabledStep ==
  ASSUME Inv, NEW b \in BOOLEAN, SetEnabled(b)
  PROVE  Inv'
  <1>1. TypeOK'
    BY DEF Inv, TypeOK, SetEnabled
  <1>2. CursorOK' /\ SampledOnce' /\ NoBurst' /\ GrantsExecutable'
    BY OffersKept DEF SetEnabled
  <1> QED
    BY <1>1, <1>2, AllIdle DEF Inv, SetEnabled, Unlocked

LEMMA PublishStep ==
  ASSUME Inv, Publish
  PROVE  Inv'
  <1>1. TypeOK'
    BY DEF Inv, TypeOK, Publish, Times
  <1>2. CursorOK' /\ SampledOnce' /\ NoBurst' /\ GrantsExecutable'
    BY OffersKept DEF Publish
  <1> QED
    BY <1>1, <1>2, AllIdle DEF Inv, Publish, Unlocked

LEMMA ClockStep ==
  ASSUME Inv, NEW t \in Times, Clock(t)
  PROVE  Inv'
  <1>1. UNCHANGED <<cursor, policy, edits, enabled, lastPublished, pass, offers>> /\ now' = t
    BY DEF Clock, settings
  <1>2. TypeOK'
    BY <1>1 DEF Inv, TypeOK
  <1>3. PassesOK'
    BY <1>1, SamePass DEF Inv, PassesOK
  <1>4. OnePass'
    BY <1>1 DEF Inv, OnePass
  <1> QED
    BY <1>1, <1>2, <1>3, <1>4, OffersKept DEF Inv

----------------------------------------------------------------------------
(* The theorem. *)

LEMMA InitInv == Init => Inv
  <1> SUFFICES ASSUME Init PROVE Inv
    OBVIOUS
  <1>1. TypeOK
    BY CalendarAssumption, BoundAssumption DEF Init, TypeOK, NoPass, Pass, Cursor, Times
  <1>2. Offers = {}
    BY DEF Init, Offers
  <1>3. CursorOK
    <2>1. policy.maxPerDay \in Nat
      BY <1>1, PolicyType
    <2>2. cursor.remaining = 0 /\ cursor.next = 0
      BY DEF Init, NoPass
    <2> QED
      BY <1>2, <2>1, <2>2 DEF CursorOK, Fits, Behind
  <1>4. OnePass /\ PassesOK
    BY DEF Init, OnePass, PassesOK, NoPass
  <1>5. SampledOnce /\ NoBurst /\ GrantsExecutable
    BY <1>2 DEF SampledOnce, NoBurst, GrantsExecutable, Granted
  <1> QED
    BY <1>1, <1>3, <1>4, <1>5 DEF Inv

LEMMA NextInv == Inv /\ [Next]_vars => Inv'
  <1> SUFFICES ASSUME Inv, [Next]_vars PROVE Inv'
    OBVIOUS
  <1>1. ASSUME NEW p \in Schedulers, BeginPass(p) PROVE Inv'
    BY <1>1, BeginPassStep
  <1>2. ASSUME NEW p \in Schedulers, SampleDay(p) PROVE Inv'
    BY <1>2, SampleDayStep
  <1>3. ASSUME NEW p \in Schedulers, Elapse(p) PROVE Inv'
    BY <1>3, ElapseStep
  <1>4. ASSUME NEW p \in Schedulers, Coalesce(p) PROVE Inv'
    BY <1>4, CoalesceStep
  <1>5. ASSUME NEW p \in Schedulers, NEW granted \in BOOLEAN, Persist(p, granted) PROVE Inv'
    BY <1>5, PersistStep
  <1>6. ASSUME NEW p \in Schedulers, Rollback(p) PROVE Inv'
    BY <1>6, RollbackStep
  <1>7. ASSUME NEW P \in Policies, SetPolicy(P) PROVE Inv'
    BY <1>7, SetPolicyStep
  <1>8. ASSUME NEW b \in BOOLEAN, SetEnabled(b) PROVE Inv'
    BY <1>8, SetEnabledStep
  <1>9. ASSUME Publish PROVE Inv'
    BY <1>9, PublishStep
  <1>10. ASSUME NEW t \in Times, Clock(t) PROVE Inv'
    BY <1>10, ClockStep
  <1>11. ASSUME UNCHANGED vars PROVE Inv'
    <2>1. UNCHANGED <<cursor, policy, edits, enabled, lastPublished, now, pass, offers>>
      BY <1>11 DEF vars
    <2>2. TypeOK'
      BY <2>1 DEF Inv, TypeOK
    <2>3. PassesOK' /\ OnePass'
      BY <2>1, SamePass DEF Inv, PassesOK, OnePass
    <2> QED
      BY <2>1, <2>2, <2>3, OffersKept DEF Inv
  <1> QED
    BY <1>1, <1>2, <1>3, <1>4, <1>5, <1>6, <1>7, <1>8, <1>9, <1>10, <1>11 DEF Next

LEMMA InvCursorFits == Inv => CursorFits
  <1> SUFFICES ASSUME Inv PROVE CursorFits
    OBVIOUS
  <1>1. TypeOK /\ cursor \in Cursor /\ Fits(cursor)
    BY DEF Inv, TypeOK, CursorOK
  <1>2. Valid(cursor)
    BY <1>1, FitsValid
  <1> QED
    BY <1>1, <1>2 DEF Fits, CursorFits

\* Types, for every calendar, every set of policies and every bound.
THEOREM ScheduleTypeOK == Spec => []TypeOK
  <1>1. Inv => TypeOK
    BY DEF Inv
  <1> QED
    BY InitInv, NextInv, <1>1, PTL DEF Spec

\* No edit of the policy, failed pass, pause or clock leaves settings that do not
\* validate, or a day whose slots do not fit (AdvanceGenerationSchedule,
\* SetAgentPolicy).
THEOREM ScheduleCursorFits == Spec => []CursorFits
  BY InitInv, NextInv, InvCursorFits, PTL DEF Spec

\* A date is sampled by one policy and offers no more slots than that allows
\* (AdvanceGenerationSchedule, SetAgentPolicy).
THEOREM ScheduleSampledOnce == Spec => []SampledOnce
  <1>1. Inv => SampledOnce
    BY DEF Inv
  <1> QED
    BY InitInv, NextInv, <1>1, PTL DEF Spec

\* Slots of one date are due at least the spacing apart, however late the passes
\* are (AdvanceGenerationSchedule).
THEOREM ScheduleNoBurst == Spec => []NoBurst
  <1>1. Inv => NoBurst
    BY DEF Inv
  <1> QED
    BY InitInv, NextInv, <1>1, PTL DEF Spec

\* What a pass grants may be executed at that moment
\* (scheduleGenerationAgent, ScheduledGenerationExecutionAllowed).
THEOREM ScheduleGrantsExecutable == Spec => []GrantsExecutable
  <1>1. Inv => GrantsExecutable
    BY DEF Inv
  <1> QED
    BY InitInv, NextInv, <1>1, PTL DEF Spec
=============================================================================
