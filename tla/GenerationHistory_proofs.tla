---------------------- MODULE GenerationHistory_proofs ----------------------
(***************************************************************************)
(* The histories of jobs in GenerationLifecycle, for any number of jobs,   *)
(* workers, attempts and clock readings: attempts follow each other in     *)
(* order and only where they may, rows and attempts change only as the     *)
(* domain rules accept, and what the attempts of a day may cost stays      *)
(* within the budgets.                                                     *)
(*                                                                         *)
(* What the invariant says of one job is a predicate of its row, its       *)
(* attempts and the clock, and what a step does to the job is one of the   *)
(* effects below; each effect is shown once to keep the predicate.         *)
(***************************************************************************)
EXTENDS GenerationAuthority_proofs, FiniteSetTheorems

\* After these no other attempt follows, or only when an operator says so.
Vetoed == {"unsupported_accounting", "unsafe_output", "repeated_output", "execution_cancelled"}
ForOperators == {"provider_credentials", "provider_configuration"}

MayFollow(a) ==
    /\ a.status # "reserved" /\ a.acknowledged # ""
    /\ a.errorCode \notin Vetoed /\ a.decision # "skip"
    /\ a.errorCode \in ForOperators => a.acknowledged = "operator"

Before(a, b) ==
    /\ a.leaseVersion < b.leaseVersion
    /\ a.finishedAt < b.startedAt /\ a.notBefore <= b.startedAt

AttemptsValid(b, h, t) ==
    \A n \in DOMAIN h : /\ ValidAttempt(h[n]) /\ h[n].leaseVersion <= b.leaseVersion
                        /\ h[n].startedAt <= t /\ h[n].finishedAt <= t

Ordered(h) ==
    /\ \A m, n \in DOMAIN h : m < n => Before(h[m], h[n])
    /\ \A n \in DOMAIN h : n < Len(h) => MayFollow(h[n])

\* A row whose availability lies beyond the last finish has been given back by
\* somebody who was allowed to.
Released(b, a) ==
    /\ a.status = "reserved" => b.availableAt <= a.startedAt
    /\ Acknowledged(b.availableAt, a) => MayFollow(a) /\ a.notBefore <= b.availableAt

\* A failure that an operator may reopen tells what the last attempt said.
Explained(b, h) ==
    /\ b.status = "failed" /\ b.reasonCode \in GenerationFailure
    /\ h[Len(h)].status # "succeeded"
    => \/ b.reasonCode = h[Len(h)].errorCode
       \/ InvalidOutputs(h) > MaxGenerationInvalidRegenerations

HistoryOK(b, h, t) ==
    /\ AttemptsValid(b, h, t)
    /\ Ordered(h)
    /\ h # <<>> => Released(b, h[Len(h)]) /\ Explained(b, h)

RowOK(b, t) == b.status # "absent" => ValidJob(b) /\ b.createdAt <= t

\* A provider's hint comes with a failure.
Hinted(w) == worker[w].outcome.notBefore # 0 => worker[w].outcome.result \in GenerationFailure

HInv ==
    /\ AInv
    /\ now > 0
    /\ \A j \in Jobs : HistoryOK(job[j], attempts[j], now)
    /\ \A j \in Jobs : RowOK(job[j], now)
    /\ \A w \in Workers : Hinted(w)

-----------------------------------------------------------------------------
(* What a step may do to the row b and the attempts h of a job at time t.  *)

\* The row alone changes, and not when the job is available.
RowMoved(b, h, c, g) ==
    /\ g = h /\ b.leaseVersion <= c.leaseVersion /\ c.availableAt = b.availableAt
    /\ c.status = "failed" =>
           \/ c.status = b.status /\ c.reasonCode = b.reasonCode
           \/ c.reasonCode \notin GenerationFailure
           \/ h # <<>> => Explained(c, h)

\* An attempt is reserved.
Appended(b, h, c, g, t) ==
    /\ c = b /\ b.status = "running" /\ b.leaseVersion > 0 /\ b.availableAt <= t
    /\ \A n \in DOMAIN h : h[n].leaseVersion # b.leaseVersion
    /\ h # <<>> => Acknowledged(b.availableAt, h[Len(h)])
    /\ \E r \in Attempt :
           /\ g = Append(h, r)
           /\ r.status = "reserved" /\ r.leaseVersion = b.leaseVersion /\ r.startedAt = t
           /\ r.finishedAt = 0 /\ r.errorCode = "" /\ r.decision = "" /\ r.notBefore = 0
           /\ r.tokens = 0

\* A reservation is settled or given up, or nothing of an attempt changes but
\* what is remembered of its call and of pauses.
Finished(a, x, t) ==
    /\ a.status = "reserved" /\ x.status # "reserved" /\ ValidAttempt(x) /\ x.finishedAt = t
    /\ x.leaseVersion = a.leaseVersion /\ x.pauseRevision = a.pauseRevision
    /\ x.startedAt = a.startedAt

SameRecord(a, x) == Columns(x) = Columns(a) /\ x.acknowledged = a.acknowledged

Touched(b, h, c, g, t) ==
    /\ c = b /\ Len(g) = Len(h)
    /\ \A n \in DOMAIN h : SameRecord(h[n], g[n]) \/ Finished(h[n], g[n], t)

\* The job is given back for another attempt after its last one.
GivenBack(b, h, c, g) ==
    /\ h # <<>> /\ Len(g) = Len(h)
    /\ c.status = "retry_wait" /\ c.leaseVersion = b.leaseVersion
    /\ \A n \in DOMAIN h : n # Len(h) => g[n] = h[n]
    /\ Columns(g[Len(h)]) = Columns(h[Len(h)])
    /\ MayFollow(g[Len(h)])
    /\ c.availableAt > h[Len(h)].finishedAt /\ c.availableAt >= h[Len(h)].notBefore

Effect(b, h, c, g, t) ==
    \/ h = <<>> /\ g = <<>>
    \/ RowMoved(b, h, c, g)
    \/ Appended(b, h, c, g, t)
    \/ Touched(b, h, c, g, t)
    \/ GivenBack(b, h, c, g)

\* What AttemptStepsAccepted says of one job.
AttemptsAccepted(h, g) ==
    /\ Len(g) \in {Len(h), Len(h) + 1}
    /\ \A n \in DOMAIN h : \/ Columns(g[n]) = Columns(h[n])
                           \/ ValidateGenerationAttemptTransition(h[n], g[n])

-----------------------------------------------------------------------------
(* Effects keep histories in order.                                        *)

LEMMA JobFields ==
    ASSUME NEW b \in Job
    PROVE  /\ b.createdAt \in Nat /\ b.availableAt \in Nat /\ b.expiresAt \in Nat
           /\ b.leaseVersion \in Nat /\ b.leaseExpiresAt \in Nat
           /\ b.publishedAttempt \in Nat /\ b.status \in JobStatus
  BY DEF Job

LEMMA AttemptFields ==
    ASSUME NEW a \in Attempt
    PROVE  /\ a.leaseVersion \in Nat /\ a.startedAt \in Nat /\ a.finishedAt \in Nat
           /\ a.notBefore \in Nat /\ a.tokens \in Nat /\ a.calls \in Nat
           /\ a.status \in AttemptStatus /\ a.decision \in {"", "publish", "skip"}
  BY DEF Attempt

\* A history by its elements.
LEMMA Elements ==
    ASSUME NEW h \in Seq(Attempt)
    PROVE  /\ Len(h) \in Nat /\ DOMAIN h = 1 .. Len(h)
           /\ \A n \in DOMAIN h : h[n] \in Attempt /\ n \in Nat
           /\ h # <<>> => Len(h) \in DOMAIN h /\ Len(h) > 0
           /\ h = <<>> => Len(h) = 0
  OBVIOUS

LEMMA Appending ==
    ASSUME NEW h \in Seq(Attempt), NEW r \in Attempt
    PROVE  /\ Append(h, r) \in Seq(Attempt) /\ Len(Append(h, r)) = Len(h) + 1
           /\ DOMAIN Append(h, r) = 1 .. (Len(h) + 1)
           /\ Append(h, r)[Len(h) + 1] = r /\ Append(h, r) # <<>>
           /\ \A n \in DOMAIN h : Append(h, r)[n] = h[n]
  OBVIOUS

LEMMA ColumnsEqual ==
    ASSUME NEW a, NEW x, Columns(x) = Columns(a)
    PROVE  /\ x.leaseVersion = a.leaseVersion /\ x.pauseRevision = a.pauseRevision
           /\ x.startedAt = a.startedAt /\ x.status = a.status /\ x.decision = a.decision
           /\ x.errorCode = a.errorCode /\ x.notBefore = a.notBefore /\ x.tokens = a.tokens
           /\ x.finishedAt = a.finishedAt
           /\ ValidAttempt(a) => ValidAttempt(x)
  BY DEF Columns, ValidAttempt

LEMMA InvalidOutputsGrow ==
    ASSUME NEW h \in Seq(Attempt), NEW g \in Seq(Attempt), Len(g) = Len(h),
           \A n \in DOMAIN h : h[n].errorCode = "invalid_output" => g[n].errorCode = "invalid_output"
    PROVE  InvalidOutputs(h) \in Nat /\ InvalidOutputs(g) \in Nat /\ InvalidOutputs(h) <= InvalidOutputs(g)
  <1> DEFINE H == {n \in DOMAIN h : h[n].errorCode = "invalid_output"}
             G == {n \in DOMAIN g : g[n].errorCode = "invalid_output"}
  <1>1. DOMAIN h = 1 .. Len(h) /\ DOMAIN g = 1 .. Len(h) /\ Len(h) \in Nat
    OBVIOUS
  <1>2. IsFiniteSet(1 .. Len(h))
    BY <1>1, FS_Interval
  <1>3. H \subseteq G /\ G \subseteq 1 .. Len(h)
    BY <1>1
  <1> HIDE DEF H, G
  <1>4. IsFiniteSet(G) /\ IsFiniteSet(H) /\ Cardinality(H) <= Cardinality(G)
    BY <1>2, <1>3, FS_Subset
  <1>5. Cardinality(H) \in Nat /\ Cardinality(G) \in Nat
    BY <1>4, FS_CardinalityType
  <1> QED
    BY <1>4, <1>5 DEF InvalidOutputs, H, G

LEMMA RowMovedOK ==
    ASSUME NEW b \in Job, NEW c \in Job, NEW h \in Seq(Attempt), NEW g, NEW t \in Nat,
           HistoryOK(b, h, t), RowMoved(b, h, c, g)
    PROVE  HistoryOK(c, g, t)
  <1>1. AttemptsValid(c, h, t)
    <2> SUFFICES ASSUME NEW n \in DOMAIN h
                 PROVE  /\ ValidAttempt(h[n]) /\ h[n].leaseVersion <= c.leaseVersion
                        /\ h[n].startedAt <= t /\ h[n].finishedAt <= t
      BY DEF AttemptsValid
    <2>1. /\ ValidAttempt(h[n]) /\ h[n].leaseVersion <= b.leaseVersion
          /\ h[n].startedAt <= t /\ h[n].finishedAt <= t
      BY DEF HistoryOK, AttemptsValid
    <2>2. h[n].leaseVersion \in Nat
      BY Elements, AttemptFields
    <2>3. b.leaseVersion \in Nat /\ c.leaseVersion \in Nat /\ b.leaseVersion <= c.leaseVersion
      BY JobFields DEF RowMoved
    <2> QED
      BY <2>1, <2>2, <2>3
  <1>2. h # <<>> => Released(c, h[Len(h)])
    BY DEF RowMoved, HistoryOK, Released
  <1>3. h # <<>> => Explained(c, h)
    BY DEF RowMoved, HistoryOK, Explained
  <1> QED
    BY <1>1, <1>2, <1>3 DEF HistoryOK, RowMoved

LEMMA AppendedOK ==
    ASSUME NEW b \in Job, NEW c, NEW h \in Seq(Attempt), NEW g, NEW t \in Nat, t > 0,
           HistoryOK(b, h, t), Appended(b, h, c, g, t)
    PROVE  HistoryOK(c, g, t)
  <1>1. PICK r \in Attempt :
           /\ g = Append(h, r)
           /\ r.status = "reserved" /\ r.leaseVersion = b.leaseVersion /\ r.startedAt = t
           /\ r.finishedAt = 0 /\ r.errorCode = "" /\ r.decision = "" /\ r.notBefore = 0
           /\ r.tokens = 0
    BY DEF Appended
  <1> DEFINE l == Len(h)
  <1>2. /\ l \in Nat /\ DOMAIN h = 1 .. l
        /\ \A n \in DOMAIN h : h[n] \in Attempt
        /\ h # <<>> => l \in DOMAIN h
    BY Elements
  <1>a. /\ Len(g) = l + 1 /\ DOMAIN g = 1 .. (l + 1) /\ g[l + 1] = r /\ g # <<>>
        /\ \A n \in DOMAIN h : g[n] = h[n]
    BY <1>1, Appending
  <1>b. /\ AttemptsValid(b, h, t) /\ Ordered(h)
        /\ h # <<>> => Released(b, h[l]) /\ Acknowledged(b.availableAt, h[l])
        /\ \A n \in DOMAIN h : h[n].leaseVersion # b.leaseVersion
    BY DEF HistoryOK, Appended
  <1>c. \A m, n \in DOMAIN h : m < n => Before(h[m], h[n])
    BY <1>b DEF Ordered
  <1>d. \A n \in DOMAIN h : n < l => MayFollow(h[n])
    BY <1>b DEF Ordered
  <1>3. /\ c = b /\ b.status = "running" /\ b.leaseVersion > 0 /\ b.availableAt <= t
        /\ b.availableAt \in Nat /\ b.leaseVersion \in Nat
    BY JobFields DEF Appended
  <1> HIDE DEF l
  <1>e. /\ r.status = "reserved" /\ r.leaseVersion = b.leaseVersion /\ r.startedAt = t
        /\ r.finishedAt = 0 /\ r.errorCode = "" /\ r.decision = "" /\ r.notBefore = 0
        /\ r.tokens = 0
    BY <1>1
  <1>g. b.availableAt \in Nat /\ b.leaseVersion \in Nat /\ b.leaseVersion > 0 /\ b.availableAt <= t
    BY <1>3
  <1>h. /\ r.leaseVersion = b.leaseVersion /\ r.startedAt = t /\ r.finishedAt = 0
        /\ r.notBefore = 0
    BY <1>e
  <1>f. /\ r.leaseVersion \in Nat /\ r.startedAt \in Nat /\ r.finishedAt \in Nat
        /\ r.notBefore \in Nat /\ r.tokens \in Nat
    BY AttemptFields
  <1>4. ValidAttempt(r)
    <2>1. 0 <= ReservedTokens /\ r.leaseVersion > 0 /\ r.startedAt > 0
      BY <1>g, <1>h, <1>f, CounterAssumption
    <2> HIDE DEF l
    <2> QED
      BY <2>1, <1>e DEF ValidAttempt
  <1>5. AttemptsValid(c, g, t)
    <2> SUFFICES ASSUME NEW n \in DOMAIN g
                 PROVE  /\ ValidAttempt(g[n]) /\ g[n].leaseVersion <= b.leaseVersion
                        /\ g[n].startedAt <= t /\ g[n].finishedAt <= t
      BY <1>3 DEF AttemptsValid
    <2>1. CASE n \in DOMAIN h
      BY <1>a, <1>b, <2>1 DEF AttemptsValid
    <2>2. CASE n = l + 1
      <3>1. r.leaseVersion <= b.leaseVersion /\ r.startedAt <= t /\ r.finishedAt <= t
        BY <1>g, <1>h, <1>f
      <3> QED
        BY <1>a, <1>4, <2>2, <3>1
    <2> QED
      BY <1>2, <1>a, <2>1, <2>2
  <1>6. h # <<>> => /\ MayFollow(h[l]) /\ h[l].notBefore <= b.availableAt
                    /\ h[l].finishedAt < b.availableAt
    <2> SUFFICES ASSUME h # <<>>
                 PROVE  /\ MayFollow(h[l]) /\ h[l].notBefore <= b.availableAt
                        /\ h[l].finishedAt < b.availableAt
      OBVIOUS
    <2>0. l \in DOMAIN h /\ h[l] \in Attempt
      BY <1>2
    <2>1. h[l].finishedAt \in Nat
      BY <2>0, AttemptFields
    <2> QED
      BY <1>3, <1>b, <2>1 DEF Released, Acknowledged
  <1>7. \A m \in DOMAIN h : Before(h[m], r)
    <2> SUFFICES ASSUME NEW m \in DOMAIN h PROVE Before(h[m], r)
      OBVIOUS
    <2>0. /\ h[m].leaseVersion \in Nat /\ h[m].finishedAt \in Nat /\ h[m].notBefore \in Nat
          /\ h[l].startedAt \in Nat /\ h[l].finishedAt \in Nat /\ h[l].notBefore \in Nat
          /\ h # <<>> /\ l \in DOMAIN h /\ m <= l /\ m \in Nat
      <3>1. h # <<>> /\ l \in DOMAIN h /\ m <= l /\ m \in Nat
        BY <1>2
      <3>2. h[m] \in Attempt /\ h[l] \in Attempt
        BY <1>2, <3>1
      <3> QED
        BY <3>1, <3>2, AttemptFields
    <2>1. h[m].leaseVersion < r.leaseVersion
      <3>1. h[m].leaseVersion <= b.leaseVersion /\ h[m].leaseVersion # b.leaseVersion
        BY <1>b DEF AttemptsValid
      <3> QED
        BY <1>g, <1>h, <1>f, <2>0, <3>1
    <2>2. CASE m = l
      <3>1. h[m].finishedAt < t /\ h[m].notBefore <= t
        BY <1>3, <1>6, <2>0, <2>2
      <3> QED
        BY <1>1, <2>1, <3>1 DEF Before
    <2>3. CASE m # l
      <3>1. m < l
        BY <1>2, <2>0, <2>3
      <3>2. h[m].finishedAt < h[l].startedAt /\ h[m].notBefore <= h[l].startedAt
        BY <1>c, <2>0, <3>1 DEF Before
      <3>3. h[l].startedAt <= t
        BY <1>b, <2>0 DEF AttemptsValid
      <3>4. h[m].finishedAt < t /\ h[m].notBefore <= t
        BY <2>0, <3>2, <3>3
      <3> QED
        BY <1>1, <2>1, <3>4 DEF Before
    <2> QED
      BY <2>2, <2>3
  <1>8. Ordered(g)
    <2>1. ASSUME NEW m \in DOMAIN g, NEW n \in DOMAIN g, m < n PROVE Before(g[m], g[n])
      <3>1. m \in DOMAIN h
        BY <1>2, <1>a, <2>1
      <3>2. CASE n = l + 1
        BY <1>a, <1>7, <3>1, <3>2
      <3>3. CASE n # l + 1
        <4>1. n \in DOMAIN h
          BY <1>2, <1>a, <3>3
        <4> QED
          BY <1>a, <1>c, <2>1, <3>1, <4>1
      <3> QED
        BY <3>2, <3>3
    <2>2. ASSUME NEW n \in DOMAIN g, n < Len(g) PROVE MayFollow(g[n])
      <3>1. n \in DOMAIN h /\ g[n] = h[n] /\ h # <<>>
        BY <1>2, <1>a, <2>2
      <3>2. CASE n = l
        BY <1>6, <3>1, <3>2
      <3>3. CASE n # l
        <4>1. n < l
          BY <1>2, <3>1, <3>3
        <4> QED
          BY <1>d, <3>1, <4>1
      <3> QED
        BY <3>2, <3>3
    <2> QED
      BY <2>1, <2>2 DEF Ordered
  <1>9. Released(c, r) /\ Explained(c, g)
    BY <1>1, <1>3 DEF Released, Explained, Acknowledged
  <1> QED
    BY <1>5, <1>8, <1>9, <1>a DEF HistoryOK

\* A finished or untouched attempt keeps its place and its validity.
LEMMA TouchedAttempt ==
    ASSUME NEW a \in Attempt, NEW x \in Attempt, NEW t \in Nat, ValidAttempt(a), a.finishedAt <= t,
           SameRecord(a, x) \/ Finished(a, x, t)
    PROVE  /\ ValidAttempt(x) /\ x.leaseVersion = a.leaseVersion
           /\ x.startedAt = a.startedAt /\ x.finishedAt <= t
           /\ a.errorCode = "invalid_output" => x.errorCode = "invalid_output"
  <1>1. CASE SameRecord(a, x)
    BY <1>1, ColumnsEqual DEF SameRecord
  <1>2. CASE Finished(a, x, t)
    <2>1. t <= t
      OBVIOUS
    <2> QED
      BY <1>2, <2>1 DEF Finished, ValidAttempt
  <1> QED
    BY <1>1, <1>2

LEMMA TouchedOK ==
    ASSUME NEW b \in Job, NEW c, NEW h \in Seq(Attempt), NEW g \in Seq(Attempt), NEW t \in Nat,
           HistoryOK(b, h, t), Touched(b, h, c, g, t)
    PROVE  HistoryOK(c, g, t)
  <1> DEFINE l == Len(h)
  <1>1. /\ l \in Nat /\ DOMAIN h = 1 .. l /\ DOMAIN g = DOMAIN h /\ Len(g) = l
        /\ \A n \in DOMAIN h : h[n] \in Attempt /\ g[n] \in Attempt /\ n \in Nat
        /\ (g # <<>>) = (h # <<>>)
        /\ h # <<>> => l \in DOMAIN h
    <2>1. Len(g) = Len(h)
      BY DEF Touched
    <2> QED
      BY <2>1, Elements
  <1>2. /\ AttemptsValid(b, h, t) /\ Ordered(h) /\ c = b
        /\ h # <<>> => Released(b, h[l]) /\ Explained(b, h)
        /\ \A n \in DOMAIN h : SameRecord(h[n], g[n]) \/ Finished(h[n], g[n], t)
    BY DEF HistoryOK, Touched
  <1> HIDE DEF l
  <1>3. \A n \in DOMAIN h : /\ ValidAttempt(g[n]) /\ g[n].leaseVersion = h[n].leaseVersion
                            /\ g[n].startedAt = h[n].startedAt /\ g[n].finishedAt <= t
                            /\ h[n].errorCode = "invalid_output" => g[n].errorCode = "invalid_output"
    <2> SUFFICES ASSUME NEW n \in DOMAIN h
                 PROVE  /\ ValidAttempt(g[n]) /\ g[n].leaseVersion = h[n].leaseVersion
                        /\ g[n].startedAt = h[n].startedAt /\ g[n].finishedAt <= t
                        /\ h[n].errorCode = "invalid_output" => g[n].errorCode = "invalid_output"
      OBVIOUS
    <2>1. h[n] \in Attempt /\ g[n] \in Attempt
      BY <1>1
    <2>2. ValidAttempt(h[n]) /\ h[n].finishedAt <= t
      BY <1>2 DEF AttemptsValid
    <2>3. SameRecord(h[n], g[n]) \/ Finished(h[n], g[n], t)
      BY <1>2
    <2> QED
      BY <2>1, <2>2, <2>3, TouchedAttempt
  <1>4. AttemptsValid(c, g, t)
    BY <1>1, <1>2, <1>3 DEF AttemptsValid
  <1>5. \A n \in DOMAIN h : n < l => SameRecord(h[n], g[n]) /\ MayFollow(h[n])
    <2> SUFFICES ASSUME NEW n \in DOMAIN h, n < l PROVE SameRecord(h[n], g[n]) /\ MayFollow(h[n])
      OBVIOUS
    <2>1. MayFollow(h[n])
      BY <1>2 DEF Ordered, l
    <2> QED
      BY <1>2, <2>1 DEF MayFollow, Finished
  <1>6. Ordered(g)
    <2>1. ASSUME NEW m \in DOMAIN g, NEW n \in DOMAIN g, m < n PROVE Before(g[m], g[n])
      <3>1. m \in DOMAIN h /\ n \in DOMAIN h /\ m < l
        BY <1>1, <2>1
      <3>2. Before(h[m], h[n])
        BY <1>2, <2>1, <3>1 DEF Ordered
      <3>3. g[m].finishedAt = h[m].finishedAt /\ g[m].notBefore = h[m].notBefore
        BY <1>5, <3>1, ColumnsEqual DEF SameRecord
      <3>4. /\ g[m].leaseVersion = h[m].leaseVersion
            /\ g[n].leaseVersion = h[n].leaseVersion /\ g[n].startedAt = h[n].startedAt
        BY <1>3, <3>1
      <3> QED
        BY <3>2, <3>3, <3>4 DEF Before
    <2>2. ASSUME NEW n \in DOMAIN g, n < Len(g) PROVE MayFollow(g[n])
      <3>1. SameRecord(h[n], g[n]) /\ MayFollow(h[n])
        BY <1>1, <1>5, <2>2
      <3>2. /\ g[n].status = h[n].status /\ g[n].errorCode = h[n].errorCode
            /\ g[n].decision = h[n].decision /\ g[n].acknowledged = h[n].acknowledged
        BY <3>1, ColumnsEqual DEF SameRecord
      <3> QED
        BY <3>1, <3>2 DEF MayFollow
    <2> QED
      BY <2>1, <2>2 DEF Ordered
  <1>7. ASSUME g # <<>> PROVE Released(c, g[l]) /\ Explained(c, g)
    <2>1. /\ l \in DOMAIN h /\ h # <<>> /\ Released(b, h[l]) /\ Explained(b, h)
          /\ h[l] \in Attempt /\ g[l] \in Attempt
          /\ ValidAttempt(h[l]) /\ h[l].startedAt <= t
      BY <1>1, <1>2, <1>7 DEF AttemptsValid
    <2>2. /\ InvalidOutputs(h) \in Nat /\ InvalidOutputs(g) \in Nat
          /\ InvalidOutputs(h) <= InvalidOutputs(g)
      BY <1>1, <1>3, InvalidOutputsGrow DEF l
    <2>3. InvalidOutputs(h) > MaxGenerationInvalidRegenerations
             => InvalidOutputs(g) > MaxGenerationInvalidRegenerations
      BY <2>2, AttemptLimitAssumption
    <2>4. CASE SameRecord(h[l], g[l])
      <3>1. /\ g[l].status = h[l].status /\ g[l].errorCode = h[l].errorCode
            /\ g[l].decision = h[l].decision /\ g[l].acknowledged = h[l].acknowledged
            /\ g[l].finishedAt = h[l].finishedAt /\ g[l].notBefore = h[l].notBefore
            /\ g[l].startedAt = h[l].startedAt
        BY <2>4, ColumnsEqual DEF SameRecord
      <3>2. Released(b, g[l])
        BY <2>1, <3>1 DEF Released, Acknowledged, MayFollow
      <3>3. Explained(b, g)
        BY <1>1, <2>1, <2>3, <3>1 DEF Explained, l
      <3> QED
        BY <1>2, <3>2, <3>3
    <2>5. CASE Finished(h[l], g[l], t)
      <3>1. /\ h[l].status = "reserved" /\ g[l].status # "reserved" /\ g[l].finishedAt = t
        BY <2>5 DEF Finished
      <3>2. b.availableAt <= h[l].startedAt
        BY <2>1, <3>1 DEF Released
      <3>3. b.availableAt \in Nat /\ h[l].startedAt \in Nat
        BY <2>1, JobFields, AttemptFields
      <3>4. ~ (b.availableAt > t)
        BY <2>1, <3>2, <3>3
      <3>5. Released(b, g[l])
        BY <3>1, <3>4 DEF Released, Acknowledged
      <3>6. h[l].errorCode = "" /\ "" \notin GenerationFailure
        BY <2>1, <3>1 DEF ValidAttempt, GenerationFailure
      <3>7. Explained(b, g)
        BY <2>1, <2>3, <3>1, <3>6 DEF Explained, l
      <3> QED
        BY <1>2, <3>5, <3>7
    <2> QED
      BY <1>2, <2>1, <2>4, <2>5
  <1> QED
    BY <1>1, <1>4, <1>6, <1>7 DEF HistoryOK

LEMMA GivenBackOK ==
    ASSUME NEW b \in Job, NEW c, NEW h \in Seq(Attempt), NEW g \in Seq(Attempt), NEW t \in Nat,
           HistoryOK(b, h, t), GivenBack(b, h, c, g)
    PROVE  HistoryOK(c, g, t)
  <1> DEFINE l == Len(h)
  <1>1. /\ l \in Nat /\ DOMAIN h = 1 .. l /\ DOMAIN g = DOMAIN h /\ Len(g) = l
        /\ \A n \in DOMAIN h : h[n] \in Attempt /\ n \in Nat
        /\ l \in DOMAIN h
    <2>1. Len(g) = Len(h) /\ h # <<>>
      BY DEF GivenBack
    <2> QED
      BY <2>1, Elements
  <1>2. /\ AttemptsValid(b, h, t) /\ Ordered(h)
        /\ c.status = "retry_wait" /\ c.leaseVersion = b.leaseVersion
        /\ \A n \in DOMAIN h : n # l => g[n] = h[n]
        /\ Columns(g[l]) = Columns(h[l]) /\ MayFollow(g[l])
        /\ c.availableAt >= h[l].notBefore
    BY DEF HistoryOK, GivenBack
  <1> HIDE DEF l
  <1>3. /\ g[l].leaseVersion = h[l].leaseVersion /\ g[l].startedAt = h[l].startedAt
        /\ g[l].finishedAt = h[l].finishedAt /\ g[l].notBefore = h[l].notBefore
        /\ ValidAttempt(h[l]) => ValidAttempt(g[l])
    BY <1>2, ColumnsEqual
  <1>4. AttemptsValid(c, g, t)
    BY <1>1, <1>2, <1>3 DEF AttemptsValid
  <1>5. Ordered(g)
    <2>1. ASSUME NEW m \in DOMAIN g, NEW n \in DOMAIN g, m < n PROVE Before(g[m], g[n])
      <3>1. m \in DOMAIN h /\ n \in DOMAIN h /\ m # l
        BY <1>1, <2>1
      <3>2. Before(h[m], h[n]) /\ g[m] = h[m]
        BY <1>2, <2>1, <3>1 DEF Ordered
      <3> QED
        BY <1>2, <1>3, <3>1, <3>2 DEF Before
    <2>2. ASSUME NEW n \in DOMAIN g, n < Len(g) PROVE MayFollow(g[n])
      <3>1. n \in DOMAIN h /\ n # l /\ n < l
        BY <1>1, <2>2
      <3>2. MayFollow(h[n])
        BY <1>2, <3>1 DEF Ordered, l
      <3> QED
        BY <1>2, <3>1, <3>2
    <2> QED
      BY <2>1, <2>2 DEF Ordered
  <1>6. Released(c, g[l]) /\ Explained(c, g)
    <2>1. h[l].notBefore <= c.availableAt
      <3>1. h[l].notBefore \in Nat
        BY <1>1, AttemptFields
      <3> QED
        BY <1>2, <3>1
    <2> QED
      BY <1>2, <1>3, <2>1 DEF Released, Explained, MayFollow
  <1> QED
    BY <1>1, <1>4, <1>5, <1>6 DEF HistoryOK

LEMMA EmptyOK ==
    ASSUME NEW c, NEW t
    PROVE  HistoryOK(c, <<>>, t)
  BY DEF HistoryOK, AttemptsValid, Ordered

LEMMA TickOK ==
    ASSUME NEW b \in Job, NEW h \in Seq(Attempt), NEW t \in Nat, HistoryOK(b, h, t)
    PROVE  HistoryOK(b, h, t + 1)
  <1>1. AttemptsValid(b, h, t + 1)
    <2> SUFFICES ASSUME NEW n \in DOMAIN h
                 PROVE  /\ ValidAttempt(h[n]) /\ h[n].leaseVersion <= b.leaseVersion
                        /\ h[n].startedAt <= t + 1 /\ h[n].finishedAt <= t + 1
      BY DEF AttemptsValid
    <2>1. h[n].startedAt \in Nat /\ h[n].finishedAt \in Nat
      BY Elements, AttemptFields
    <2> QED
      BY <2>1 DEF HistoryOK, AttemptsValid
  <1> QED
    BY <1>1 DEF HistoryOK

\* Whatever a step does to a job, its history stays in order.
LEMMA EffectOK ==
    ASSUME NEW b \in Job, NEW c \in Job, NEW h \in Seq(Attempt), NEW g \in Seq(Attempt),
           NEW t \in Nat, t > 0, HistoryOK(b, h, t), Effect(b, h, c, g, t)
    PROVE  HistoryOK(c, g, t)
  BY EmptyOK, RowMovedOK, AppendedOK, TouchedOK, GivenBackOK DEF Effect

\* Whatever a step does to a job, its attempts are append-only.
LEMMA EffectAccepted ==
    ASSUME NEW b \in Job, NEW c, NEW h \in Seq(Attempt), NEW g \in Seq(Attempt),
           NEW t \in Nat, HistoryOK(b, h, t), Effect(b, h, c, g, t)
    PROVE  AttemptsAccepted(h, g)
  <1>1. CASE g = h
    BY <1>1, Elements DEF AttemptsAccepted
  <1>2. CASE Appended(b, h, c, g, t)
    <2>1. PICK r \in Attempt : g = Append(h, r)
      BY <1>2 DEF Appended
    <2> QED
      BY <2>1, Appending DEF AttemptsAccepted
  <1>3. CASE Touched(b, h, c, g, t)
    <2>1. \A n \in DOMAIN h : ValidAttempt(h[n])
      BY DEF HistoryOK, AttemptsValid
    <2> QED
      BY <1>3, <2>1 DEF Touched, SameRecord, Finished, AttemptsAccepted,
                        ValidateGenerationAttemptTransition
  <1>4. CASE GivenBack(b, h, c, g)
    BY <1>4 DEF GivenBack, AttemptsAccepted
  <1> QED
    BY <1>1, <1>2, <1>3, <1>4 DEF Effect, RowMoved

-----------------------------------------------------------------------------
(* Rows the store writes are accepted by the domain rules.                 *)


\* The row c is b closed with a status and a reason.
IsClosed(b, c, s, r) ==
    /\ c.status = s /\ c.reasonCode = r /\ c.leaseExpiresAt = 0
    /\ c.createdAt = b.createdAt /\ c.availableAt = b.availableAt
    /\ c.expiresAt = b.expiresAt /\ c.leaseVersion = b.leaseVersion
    /\ c.publishedAttempt = b.publishedAttempt

LEMMA ClosedFields ==
    ASSUME NEW b \in Job, NEW s, NEW r
    PROVE  IsClosed(b, closeJob(b, s, r), s, r)
  BY DEF closeJob, Job, IsClosed

LEMMA ClosedValid ==
    ASSUME NEW b \in Job, NEW c, NEW s \in {"skipped", "cancelled", "failed"}, NEW r, r # "",
           ValidJob(b), b.status \in ActiveStatus, IsClosed(b, c, s, r)
    PROVE  ValidJob(c)
  <1>1. c.createdAt <= c.availableAt /\ c.availableAt < c.expiresAt
    BY DEF IsClosed, ValidJob
  <1>2. c.status = s /\ c.reasonCode = r
    BY DEF IsClosed
  <1>3. c.leaseExpiresAt = 0
    BY DEF IsClosed
  <1>4. c.publishedAttempt = 0
    <2>1. b.publishedAttempt = 0
      BY DEF ValidJob, ActiveStatus
    <2> QED
      BY <2>1 DEF IsClosed
  <1> QED
    BY <1>1, <1>2, <1>3, <1>4 DEF ValidJob

LEMMA LeaseFacts ==
    ASSUME NEW b \in Job, NEW v, NEW t \in Nat, ValidJob(b), ValidateLease(b, v, t)
    PROVE  /\ b.status = "running" /\ t < b.leaseExpiresAt /\ t < b.expiresAt
           /\ ~ (t >= b.leaseExpiresAt) /\ ~ (t >= b.expiresAt)
           /\ t >= b.createdAt /\ t >= b.availableAt /\ b.leaseVersion = v /\ v > 0
  <1>1. b.createdAt \in Nat /\ b.availableAt \in Nat /\ b.expiresAt \in Nat /\ b.leaseExpiresAt \in Nat
    BY JobFields
  <1>2. /\ b.status = "running" /\ v > 0 /\ b.leaseVersion = v
    BY DEF ValidateLease
  <1>3. /\ t < b.leaseExpiresAt /\ t < b.expiresAt /\ t >= b.availableAt
        /\ b.createdAt <= b.availableAt
    BY DEF ValidateLease, ValidJob
  <1>4. ~ (t >= b.leaseExpiresAt) /\ ~ (t >= b.expiresAt) /\ t >= b.createdAt
    BY <1>1, <1>3
  <1> QED
    BY <1>2, <1>3, <1>4

\* The owner of a lease may close its job.
LEMMA CloseAccepted ==
    ASSUME NEW b \in Job, NEW c, NEW s \in {"skipped", "cancelled", "failed"}, NEW r, r # "",
           NEW t \in Nat, NEW v, NEW u, NEW a,
           ValidJob(b), ValidateLease(b, v, t), u => s = "cancelled", IsClosed(b, c, s, r)
    PROVE  ValidateGenerationJobTransition(b, c, t, u, a)
  <1>1. /\ b.status = "running" /\ t < b.leaseExpiresAt /\ ~ (t >= b.expiresAt) /\ t >= b.createdAt
    BY LeaseFacts
  <1>2. ValidJob(c)
    BY <1>1, ClosedValid DEF ActiveStatus
  <1>3. /\ c.status = s /\ c.createdAt = b.createdAt /\ c.availableAt = b.availableAt
        /\ c.expiresAt = b.expiresAt /\ c.leaseVersion = b.leaseVersion
    BY DEF IsClosed
  <1>4. ~ IsClaim(b, c, t)
    BY <1>3 DEF IsClaim
  <1>5. OwnedStepAllowed(b, c, t, u)
    BY <1>1, <1>3 DEF OwnedStepAllowed
  <1> QED
    BY <1>1, <1>2, <1>3, <1>4, <1>5 DEF ValidateGenerationJobTransition, FinalStatus

\* Anybody may skip an active job that has expired.
LEMMA SkipAccepted ==
    ASSUME NEW b \in Job, NEW c, NEW t \in Nat, NEW u, NEW a,
           ValidJob(b), b.status \in ActiveStatus, b.createdAt <= t, t >= b.expiresAt,
           IsClosed(b, c, "skipped", "stale_trigger")
    PROVE  ValidateGenerationJobTransition(b, c, t, u, a)
  <1>1. /\ c.createdAt = b.createdAt /\ c.availableAt = b.availableAt
        /\ c.expiresAt = b.expiresAt /\ c.leaseVersion = b.leaseVersion
        /\ c.status = "skipped"
    BY DEF IsClosed
  <1>2. ValidJob(c)
    BY ClosedValid
  <1>3. StaleSkip(b, c, t)
    BY DEF StaleSkip, IsClosed
  <1>4. ~ IsClaim(b, c, t)
    BY <1>1 DEF IsClaim
  <1>5. OwnedStepAllowed(b, c, t, u)
    BY <1>1, <1>3 DEF OwnedStepAllowed, ActiveStatus
  <1>6. t >= b.createdAt
    BY JobFields
  <1>7. b.status \notin FinalStatus
    BY DEF ActiveStatus, FinalStatus
  <1> QED
    BY <1>1, <1>2, <1>3, <1>4, <1>5, <1>6, <1>7 DEF ValidateGenerationJobTransition

\* Anybody may cancel an active job whose repost is gone.
LEMMA CancelAccepted ==
    ASSUME NEW b \in Job, NEW c, NEW t \in Nat, NEW u, u, NEW a,
           ValidJob(b), b.status \in ActiveStatus, b.createdAt <= t, t < b.expiresAt,
           IsClosed(b, c, "cancelled", "source_removed")
    PROVE  ValidateGenerationJobTransition(b, c, t, u, a)
  <1>1. /\ c.createdAt = b.createdAt /\ c.availableAt = b.availableAt
        /\ c.expiresAt = b.expiresAt /\ c.leaseVersion = b.leaseVersion
        /\ c.status = "cancelled" /\ c.reasonCode = "source_removed"
    BY DEF IsClosed
  <1>2. ValidJob(c)
    BY ClosedValid
  <1>3. t >= b.createdAt /\ ~ (t >= b.expiresAt)
    BY JobFields
  <1>4. ~ IsClaim(b, c, t)
    BY <1>1 DEF IsClaim
  <1>5. OwnedStepAllowed(b, c, t, u)
    BY <1>1 DEF OwnedStepAllowed, ActiveStatus
  <1>7. b.status \notin FinalStatus
    BY DEF ActiveStatus, FinalStatus
  <1> QED
    BY <1>1, <1>2, <1>3, <1>4, <1>5, <1>7 DEF ValidateGenerationJobTransition

\* Arithmetic of clock readings, out of the way of rows.
LEMMA Readings ==
    ASSUME NEW x \in Nat, NEW y \in Nat
    PROVE  /\ x <= y => y >= x /\ ~ (x > y)
           /\ x < y => y >= x /\ x <= y /\ y > x /\ ~ (x >= y)
           /\ x >= y => y <= x
           /\ ~ (x >= y) => x < y
  OBVIOUS

\* The row c is b given back for another attempt that may start at time x.
IsReturned(b, c, r, x) ==
    /\ c.status = "retry_wait" /\ c.reasonCode = r /\ c.leaseExpiresAt = 0
    /\ c.createdAt = b.createdAt /\ c.availableAt = x
    /\ c.expiresAt = b.expiresAt /\ c.leaseVersion = b.leaseVersion
    /\ c.publishedAttempt = b.publishedAttempt

LEMMA FinishedFields ==
    ASSUME NEW b \in Job, NEW s, NEW r, NEW x
    PROVE  /\ s # "retry_wait" => IsClosed(b, finishExecutionJob(b, s, r, x), s, r)
           /\ IsReturned(b, finishExecutionJob(b, "retry_wait", r, x), r, x)
  BY DEF finishExecutionJob, closeJob, Job, IsClosed, IsReturned

LEMMA ReturnedValid ==
    ASSUME NEW b \in Job, NEW c, NEW r, r # "", NEW x \in Nat, NEW t \in Nat,
           ValidJob(b), b.status \in {"running", "failed"}, b.leaseVersion > 0,
           t >= b.createdAt, x >= t, x < b.expiresAt, IsReturned(b, c, r, x)
    PROVE  ValidJob(c)
  <1>1. c.createdAt <= c.availableAt /\ c.availableAt < c.expiresAt
    <2>1. b.createdAt \in Nat
      BY JobFields
    <2>2. b.createdAt <= t /\ t <= x
      BY <2>1, Readings
    <2>3. b.createdAt <= x
      BY <2>1, <2>2, LeqTransitive
    <2> QED
      BY <2>3 DEF IsReturned
  <1>2. c.status = "retry_wait" /\ c.reasonCode = r
    BY DEF IsReturned
  <1>3. c.leaseExpiresAt = 0
    BY DEF IsReturned
  <1>4. c.publishedAttempt = 0
    <2>1. b.publishedAttempt = 0
      BY DEF ValidJob
    <2> QED
      BY <2>1 DEF IsReturned
  <1>5. c.leaseVersion > 0
    BY DEF IsReturned
  <1> QED
    BY <1>1, <1>2, <1>3, <1>4, <1>5 DEF ValidJob

\* The owner of a lease may give its job back.
LEMMA ReturnAccepted ==
    ASSUME NEW b \in Job, NEW c, NEW r, r # "", NEW x \in Nat, NEW t \in Nat, NEW v, NEW u, ~u, NEW a,
           ValidJob(b), ValidateLease(b, v, t), x > t, x < b.expiresAt, IsReturned(b, c, r, x)
    PROVE  ValidateGenerationJobTransition(b, c, t, u, a)
  <1>1. /\ b.status = "running" /\ t < b.leaseExpiresAt /\ ~ (t >= b.expiresAt) /\ t >= b.createdAt
        /\ t < b.expiresAt /\ b.leaseVersion > 0
    BY LeaseFacts
  <1>2. x >= t
    BY Readings
  <1>3. ValidJob(c)
    BY <1>1, <1>2, ReturnedValid
  <1>4. /\ c.status = "retry_wait" /\ c.createdAt = b.createdAt /\ c.availableAt >= t
        /\ c.expiresAt = b.expiresAt /\ c.leaseVersion = b.leaseVersion
    BY <1>2 DEF IsReturned
  <1>5. ~ IsClaim(b, c, t)
    BY <1>4 DEF IsClaim
  <1>6. OwnedStepAllowed(b, c, t, u)
    BY <1>1, <1>4 DEF OwnedStepAllowed
  <1> QED
    BY <1>1, <1>3, <1>4, <1>5, <1>6 DEF ValidateGenerationJobTransition, FinalStatus

\* An operator may give a failed job back.
LEMMA ReopenAccepted ==
    ASSUME NEW b \in Job, NEW c, NEW r, r # "", NEW x \in Nat, NEW t \in Nat, NEW u, ~u, NEW a,
           ValidJob(b), b.status = "failed", b.leaseVersion > 0, b.createdAt <= t,
           t < b.expiresAt, x >= t, x < b.expiresAt, IsReturned(b, c, r, x)
    PROVE  ValidateGenerationJobTransition(b, c, t, u, a)
  <1>1. t >= b.createdAt /\ ~ (t >= b.expiresAt)
    <2>1. b.createdAt \in Nat /\ b.expiresAt \in Nat
      BY JobFields
    <2> QED
      BY <2>1, Readings
  <1>3. ValidJob(c)
    BY <1>1, ReturnedValid
  <1>4. /\ c.status = "retry_wait" /\ c.createdAt = b.createdAt /\ c.availableAt >= t
        /\ c.expiresAt = b.expiresAt /\ c.leaseVersion = b.leaseVersion
    BY DEF IsReturned
  <1>5. ~ IsClaim(b, c, t)
    BY <1>4 DEF IsClaim
  <1>6. OwnedStepAllowed(b, c, t, u)
    BY <1>1, <1>4 DEF OwnedStepAllowed
  <1> QED
    BY <1>1, <1>3, <1>4, <1>5, <1>6 DEF ValidateGenerationJobTransition, FinalStatus

\* The row c is b with a lease of its own.
IsLeased(b, c, v, x) ==
    /\ c.status = "running" /\ c.reasonCode = "" /\ c.leaseVersion = v /\ c.leaseExpiresAt = x
    /\ c.createdAt = b.createdAt /\ c.availableAt = b.availableAt
    /\ c.expiresAt = b.expiresAt /\ c.publishedAttempt = b.publishedAttempt

LEMMA LeasedValid ==
    ASSUME NEW b \in Job, NEW c, NEW v \in Nat, v > 0, NEW x \in Nat,
           ValidJob(b), b.status \in ActiveStatus, x > b.availableAt, IsLeased(b, c, v, x)
    PROVE  ValidJob(c)
  <1>1. c.createdAt <= c.availableAt /\ c.availableAt < c.expiresAt
    BY DEF IsLeased, ValidJob
  <1>2. c.status = "running" /\ c.reasonCode = ""
    BY DEF IsLeased
  <1>3. c.leaseExpiresAt > c.availableAt
    BY DEF IsLeased
  <1>4. c.publishedAttempt = 0
    <2>1. b.publishedAttempt = 0
      BY DEF ValidJob, ActiveStatus
    <2> QED
      BY <2>1 DEF IsLeased
  <1>5. c.leaseVersion > 0
    BY DEF IsLeased
  <1> QED
    BY <1>1, <1>2, <1>3, <1>4, <1>5 DEF ValidJob

\* A queued job, or one whose lease ran out, may be claimed.
LEMMA ClaimAccepted ==
    ASSUME NEW b \in Job, NEW c, NEW t \in Nat, NEW x \in Nat, NEW u, ~u, NEW a,
           ValidJob(b), b.createdAt <= t, b.availableAt <= t, t < b.expiresAt, x > t,
           b.leaseVersion < MaxLeaseVersion,
           \/ b.status \in {"pending", "retry_wait"}
           \/ b.status = "running" /\ b.leaseExpiresAt <= t,
           IsLeased(b, c, b.leaseVersion + 1, x)
    PROVE  ValidateGenerationJobTransition(b, c, t, u, a)
  <1>1. /\ b.createdAt \in Nat /\ b.availableAt \in Nat /\ b.expiresAt \in Nat
        /\ b.leaseVersion \in Nat /\ b.leaseExpiresAt \in Nat
    BY JobFields
  <1>2. /\ t >= b.createdAt /\ t >= b.availableAt /\ ~ (t >= b.expiresAt) /\ x > b.availableAt
        /\ b.leaseVersion + 1 \in Nat /\ b.leaseVersion + 1 > 0
    BY <1>1
  <1>3. b.status \in ActiveStatus /\ b.status \notin FinalStatus
    BY DEF ActiveStatus, FinalStatus
  <1>4. ValidJob(c)
    BY <1>2, <1>3, LeasedValid
  <1>5. /\ c.status = "running" /\ c.createdAt = b.createdAt /\ c.availableAt = b.availableAt
        /\ c.expiresAt = b.expiresAt
    BY DEF IsLeased
  <1>6. c.leaseVersion = b.leaseVersion + 1 /\ c.leaseExpiresAt > t
    BY DEF IsLeased
  <1>7. IsClaim(b, c, t)
    <2>1. b.status = "running" /\ b.leaseExpiresAt <= t => t >= b.leaseExpiresAt
      BY <1>1
    <2> QED
      BY <1>5, <2>1 DEF IsClaim
  <1>8. ClaimAllowed(b, c, t)
    BY <1>2, <1>6 DEF ClaimAllowed
  <1> QED
    BY <1>2, <1>3, <1>4, <1>5, <1>7, <1>8 DEF ValidateGenerationJobTransition

\* The owner of a lease may renew it.
LEMMA RenewAccepted ==
    ASSUME NEW b \in Job, NEW c, NEW v, NEW t \in Nat, NEW x \in Nat, NEW u, ~u, NEW a,
           ValidJob(b), ValidateLease(b, v, t), x > b.leaseExpiresAt,
           IsLeased(b, c, b.leaseVersion, x)
    PROVE  ValidateGenerationJobTransition(b, c, t, u, a)
  <1>1. /\ b.status = "running" /\ t < b.leaseExpiresAt /\ ~ (t >= b.leaseExpiresAt)
        /\ ~ (t >= b.expiresAt) /\ t >= b.createdAt /\ t >= b.availableAt
        /\ t < b.expiresAt /\ b.leaseVersion > 0
    BY LeaseFacts
  <1>2. x > b.availableAt /\ b.leaseVersion \in Nat
    BY <1>1, JobFields
  <1>4. ValidJob(c)
    BY <1>1, <1>2, LeasedValid DEF ActiveStatus
  <1>5. /\ c.status = "running" /\ c.createdAt = b.createdAt /\ c.availableAt = b.availableAt
        /\ c.expiresAt = b.expiresAt
    BY DEF IsLeased
  <1>6. c.leaseVersion = b.leaseVersion /\ c.leaseExpiresAt > b.leaseExpiresAt
    BY DEF IsLeased
  <1>7. ~ IsClaim(b, c, t)
    BY <1>1, <1>5 DEF IsClaim
  <1>8. OwnedStepAllowed(b, c, t, u)
    BY <1>1, <1>5, <1>6 DEF OwnedStepAllowed
  <1> QED
    BY <1>1, <1>4, <1>5, <1>7, <1>8 DEF ValidateGenerationJobTransition, FinalStatus

\* The owner of a lease may publish what it has observed under it.
LEMMA PublishAccepted ==
    ASSUME NEW b \in Job, NEW c, NEW n \in Nat \ {0}, NEW v, NEW t \in Nat, NEW u, ~u, NEW a \in Attempt,
           ValidJob(b), ValidateLease(b, v, t), c = Published(b, n),
           ValidAttempt(a), a.leaseVersion = b.leaseVersion, a.status = "succeeded",
           a.startedAt >= b.availableAt, a.finishedAt <= t
    PROVE  c.status = "succeeded" /\ ValidateGenerationJobTransition(b, c, t, u, a)
  <1>1. /\ b.status = "running" /\ t < b.leaseExpiresAt /\ ~ (t >= b.expiresAt)
        /\ t >= b.createdAt /\ b.leaseVersion > 0 /\ b.leaseVersion = v
    BY LeaseFacts
  <1>2. c.status = "succeeded" /\ c.reasonCode = b.reasonCode
    BY DEF Published, Job
  <1>3. /\ c.createdAt = b.createdAt /\ c.availableAt = b.availableAt
        /\ c.expiresAt = b.expiresAt /\ c.leaseVersion = b.leaseVersion
        /\ c.leaseExpiresAt = 0 /\ c.publishedAttempt = n
    BY DEF Published, Job
  <1>4. ValidJob(c)
    <2>1. c.reasonCode = ""
      BY <1>1, <1>2 DEF ValidJob
    <2>2. c.createdAt <= c.availableAt /\ c.availableAt < c.expiresAt
      BY <1>3 DEF ValidJob
    <2>3. c.leaseVersion > 0 /\ c.publishedAttempt # 0 /\ c.leaseExpiresAt = 0
      BY <1>1, <1>3
    <2> QED
      BY <1>2, <2>1, <2>2, <2>3 DEF ValidJob
  <1>5. ~ IsClaim(b, c, t)
    BY <1>2 DEF IsClaim
  <1>6. OwnedStepAllowed(b, c, t, u)
    BY <1>1, <1>2, <1>3 DEF OwnedStepAllowed
  <1>7. ValidateLease(b, b.leaseVersion, t) /\ a.leaseVersion = c.leaseVersion
    BY <1>1, <1>3
  <1>8. /\ c.createdAt = b.createdAt /\ c.availableAt = b.availableAt
        /\ c.expiresAt = b.expiresAt
    BY <1>3
  <1> QED
    BY <1>1, <1>2, <1>4, <1>5, <1>6, <1>7, <1>8 DEF ValidateGenerationJobTransition, FinalStatus

\* The cleanup that follows a removal.
LEMMA RemovalAccepted ==
    ASSUME NEW b \in Job, NEW c, now \in Nat, ValidJob(b), b.status \in ActiveStatus,
           b.createdAt <= now, c = RemovalRow(b)
    PROVE  ValidateGenerationSourceInvalidation(b, c, now)
  <1> DEFINE s == IF now < b.expiresAt THEN "cancelled" ELSE "skipped"
             r == IF now < b.expiresAt THEN "source_removed" ELSE "stale_trigger"
  <1>1. c = closeJob(b, s, r)
    BY DEF RemovalRow, cancelRemovedJob, skipExpiredGenerationJob
  <1>2. s \in {"skipped", "cancelled", "failed"} /\ r # ""
    OBVIOUS
  <1>3. now < b.expiresAt => s = "cancelled" /\ r = "source_removed"
    OBVIOUS
  <1>4. ~ (now < b.expiresAt) => s = "skipped" /\ r = "stale_trigger"
    OBVIOUS
  <1> HIDE DEF s, r
  <1>5. IsClosed(b, c, s, r)
    BY <1>1, ClosedFields
  <1>6. ValidJob(c)
    BY <1>2, <1>5, ClosedValid
  <1>7. now >= b.createdAt
    BY JobFields
  <1>8. /\ c.createdAt = b.createdAt /\ c.expiresAt = b.expiresAt
        /\ c.leaseVersion = b.leaseVersion /\ c.leaseExpiresAt = 0
        /\ c.availableAt = b.availableAt
    BY <1>5 DEF IsClosed
  <1>9. c.status = s /\ c.reasonCode = r
    BY <1>5 DEF IsClosed
  <1> QED
    BY <1>3, <1>4, <1>6, <1>7, <1>8, <1>9 DEF ValidateGenerationSourceInvalidation

-----------------------------------------------------------------------------
(* Steps.                                                                  *)

\* What a step does to a job keeps its history and is accepted.
Traced(j) ==
    /\ Effect(job[j], attempts[j], job'[j], attempts'[j], now)
    /\ job'[j] # job[j] => IF job[j].status = "absent" THEN job'[j] = NewJob
                                                       ELSE JobStepAccepted(j)

\* The row of j may become c, its attempts staying as they are.
Moves(j, c) ==
    \/ c = job[j]
    \/ /\ job[j].status # "absent"
       /\ RowMoved(job[j], attempts[j], c, attempts[j])
       /\ \E t \in Recent : \A a :
             ValidateGenerationJobTransition(job[j], c, t, Unlinked(j), a)

LEMMA HFacts ==
    ASSUME HInv
    PROVE  /\ AInv /\ Inv /\ TypeOK /\ WorkersConsistent /\ now \in Nat /\ now > 0
           /\ \A j \in Jobs : /\ job[j] \in Job /\ attempts[j] \in Seq(Attempt)
                              /\ HistoryOK(job[j], attempts[j], now)
                              /\ job[j].status # "absent" =>
                                    ValidJob(job[j]) /\ job[j].createdAt <= now
  BY AInvFacts DEF HInv, TypeOK, RowOK

LEMMA RecentFacts ==
    ASSUME HInv
    PROVE  /\ now \in Recent
           /\ \A t \in Recent : t \in Nat /\ t <= now /\ t > 0
  BY HFacts, TimeAssumption DEF Recent

LEMMA ActiveFacts ==
    ASSUME HInv, NEW j \in Jobs, job[j].status \in ActiveStatus \cup {"failed"}
    PROVE  /\ job[j].status # "absent" /\ ValidJob(job[j]) /\ job[j].createdAt <= now
           /\ job[j] \in Job
  BY HFacts DEF ActiveStatus

LEMMA KeepMoved ==
    ASSUME NEW b \in Job, NEW h
    PROVE  RowMoved(b, h, b, h)
  BY JobFields DEF RowMoved

LEMMA SameTraced ==
    ASSUME HInv, NEW j \in Jobs, attempts'[j] = attempts[j], job'[j] = job[j]
    PROVE  Traced(j)
  BY HFacts, KeepMoved DEF Traced, Effect

LEMMA MovesTraced ==
    ASSUME HInv, NEW j \in Jobs, attempts'[j] = attempts[j], Moves(j, job'[j])
    PROVE  Traced(j)
  <1>1. CASE job'[j] = job[j]
    BY <1>1, SameTraced
  <1>2. CASE job'[j] # job[j]
    <2>1. /\ job[j].status # "absent"
          /\ RowMoved(job[j], attempts[j], job'[j], attempts[j])
      BY <1>2 DEF Moves
    <2>2. PICK t \in Recent : \A a :
             ValidateGenerationJobTransition(job[j], job'[j], t, Unlinked(j), a)
      BY <1>2 DEF Moves
    <2>3. JobStepAccepted(j)
      BY <2>2 DEF JobStepAccepted
    <2> QED
      BY <2>1, <2>3 DEF Traced, Effect
  <1> QED
    BY <1>1, <1>2

LEMMA ClosedMoved ==
    ASSUME NEW b \in Job, NEW h, NEW c, NEW s, NEW r, IsClosed(b, c, s, r),
           s = "failed" => r \notin GenerationFailure \/ (h # <<>> => Explained(c, h))
    PROVE  RowMoved(b, h, c, h)
  <1>1. b.leaseVersion <= b.leaseVersion
    BY JobFields
  <1> QED
    BY <1>1 DEF RowMoved, IsClosed

LEMMA SkipMoves ==
    ASSUME HInv, NEW j \in Jobs, job[j].status \in ActiveStatus, job[j].expiresAt <= now
    PROVE  Moves(j, skipExpiredGenerationJob(job[j]))
  <1> DEFINE c == skipExpiredGenerationJob(job[j])
  <1>1. IsClosed(job[j], c, "skipped", "stale_trigger")
    BY HFacts, ClosedFields DEF skipExpiredGenerationJob
  <1> HIDE DEF c
  <1>2. RowMoved(job[j], attempts[j], c, attempts[j])
    BY <1>1, HFacts, ClosedMoved
  <1>3. now >= job[j].expiresAt
    BY HFacts, JobFields, Readings
  <1>4. ASSUME NEW a
        PROVE  ValidateGenerationJobTransition(job[j], c, now, Unlinked(j), a)
    BY <1>1, <1>3, HFacts, ActiveFacts, SkipAccepted
  <1> QED
    BY <1>2, <1>4, RecentFacts, ActiveFacts DEF Moves, c

LEMMA CancelMoves ==
    ASSUME HInv, NEW j \in Jobs, job[j].status \in ActiveStatus, now < job[j].expiresAt,
           Unlinked(j)
    PROVE  Moves(j, cancelRemovedJob(job[j]))
  <1> DEFINE c == cancelRemovedJob(job[j])
  <1>1. IsClosed(job[j], c, "cancelled", "source_removed")
    BY HFacts, ClosedFields DEF cancelRemovedJob
  <1> HIDE DEF c
  <1>2. RowMoved(job[j], attempts[j], c, attempts[j])
    BY <1>1, HFacts, ClosedMoved
  <1>4. ASSUME NEW a
        PROVE  ValidateGenerationJobTransition(job[j], c, now, Unlinked(j), a)
    BY <1>1, HFacts, ActiveFacts, CancelAccepted
  <1> QED
    BY <1>2, <1>4, RecentFacts, ActiveFacts DEF Moves, c

LEMMA CloseMoves ==
    ASSUME HInv, NEW j \in Jobs, NEW v, ValidateLease(job[j], v, now),
           NEW s \in {"skipped", "cancelled", "failed"}, NEW r, r # "", NEW x,
           Unlinked(j) => s = "cancelled",
           s = "failed" =>
              \/ r \notin GenerationFailure
              \/ attempts[j] # <<>> =>
                    Explained(finishExecutionJob(job[j], s, r, x), attempts[j])
    PROVE  Moves(j, finishExecutionJob(job[j], s, r, x))
  <1> DEFINE c == finishExecutionJob(job[j], s, r, x)
  <1>0. s # "retry_wait"
    OBVIOUS
  <1>1. IsClosed(job[j], c, s, r)
    BY <1>0, HFacts, FinishedFields
  <1>2. s = "failed" => r \notin GenerationFailure \/ (attempts[j] # <<>> => Explained(c, attempts[j]))
    OBVIOUS
  <1> HIDE DEF c
  <1>3. RowMoved(job[j], attempts[j], c, attempts[j])
    BY <1>1, <1>2, HFacts, ClosedMoved
  <1>5. job[j].status = "running"
    BY DEF ValidateLease
  <1>6. /\ job[j].status # "absent" /\ ValidJob(job[j]) /\ job[j].createdAt <= now
        /\ job[j] \in Job
    BY <1>5, ActiveFacts DEF ActiveStatus
  <1>4. ASSUME NEW a
        PROVE  ValidateGenerationJobTransition(job[j], c, now, Unlinked(j), a)
    BY <1>1, <1>6, HFacts, CloseAccepted
  <1> QED
    BY <1>3, <1>4, <1>6, RecentFacts DEF Moves, c

LEMMA SetRowTraced ==
    ASSUME HInv, NEW j \in Jobs, NEW c, SetJob(j, c), Moves(j, c), attempts' = attempts
    PROVE  \A i \in Jobs : Traced(i)
  <1> SUFFICES ASSUME NEW i \in Jobs PROVE Traced(i)
    OBVIOUS
  <1>1. job'[i] = IF i = j THEN c ELSE job[i]
    BY HFacts DEF TypeOK, SetJob
  <1> QED
    BY <1>1, SameTraced, MovesTraced

LEMMA NothingTraced ==
    ASSUME HInv, job' = job, attempts' = attempts
    PROVE  \A i \in Jobs : Traced(i)
  BY SameTraced

LEMMA ExpireGenerationJobsTraced ==
    ASSUME HInv, NEW w \in Workers, ExpireGenerationJobs(w)
    PROVE  \A j \in Jobs : Traced(j)
  <1> SUFFICES ASSUME NEW j \in Jobs PROVE Traced(j)
    OBVIOUS
  <1>1. PICK B \in SUBSET ExpiredJobs :
           job' = [i \in Jobs |-> IF i \in B THEN skipExpiredGenerationJob(job[i]) ELSE job[i]]
    BY DEF ExpireGenerationJobs
  <1>2. attempts' = attempts
    BY DEF ExpireGenerationJobs
  <1>3. CASE j \in B
    <2>1. job[j].status \in ActiveStatus /\ job[j].expiresAt <= now
      BY <1>3 DEF ExpiredJobs
    <2> QED
      BY <1>1, <1>2, <1>3, <2>1, SkipMoves, MovesTraced
  <1> QED
    BY <1>1, <1>2, <1>3, SameTraced

LEMMA ClaimGenerationTraced ==
    ASSUME HInv, NEW w \in Workers, ClaimGeneration(w)
    PROVE  \A i \in Jobs : Traced(i)
  <1>1. PICK j \in Jobs, t \in Recent :
          /\ Claimable(j, t)
          /\ \/ now >= job[j].expiresAt /\ SetJob(j, skipExpiredGenerationJob(job[j]))
             \/ ~ (now >= job[j].expiresAt) /\ Unlinked(j) /\ SetJob(j, cancelRemovedJob(job[j]))
             \/ /\ ~ (now >= job[j].expiresAt) /\ ~Unlinked(j)
                /\ job[j].leaseVersion < MaxLeaseVersion /\ SetJob(j, Claimed(job[j]))
    BY DEF ClaimGeneration
  <1>2. attempts' = attempts
    BY DEF ClaimGeneration
  <1>3. job[j].status \in ActiveStatus
    BY <1>1 DEF Claimable, ActiveStatus
  <1>4. /\ now \in Nat /\ t \in Nat /\ t <= now /\ job[j].expiresAt \in Nat
        /\ job[j].availableAt \in Nat /\ job[j].leaseExpiresAt \in Nat /\ job[j].leaseVersion \in Nat
    BY HFacts, RecentFacts, JobFields
  <1>5. CASE now >= job[j].expiresAt /\ SetJob(j, skipExpiredGenerationJob(job[j]))
    <2>1. job[j].expiresAt <= now
      BY <1>4, <1>5, Readings
    <2> QED
      BY <1>2, <1>3, <1>5, <2>1, SkipMoves, SetRowTraced
  <1>6. CASE ~ (now >= job[j].expiresAt) /\ Unlinked(j) /\ SetJob(j, cancelRemovedJob(job[j]))
    <2>1. now < job[j].expiresAt
      BY <1>4, <1>6, Readings
    <2> QED
      BY <1>2, <1>3, <1>6, <2>1, CancelMoves, SetRowTraced
  <1>7. CASE /\ ~ (now >= job[j].expiresAt) /\ ~Unlinked(j)
             /\ job[j].leaseVersion < MaxLeaseVersion /\ SetJob(j, Claimed(job[j]))
    <2> DEFINE c == Claimed(job[j])
               x == now + LeaseDuration
    <2>1. IsLeased(job[j], c, job[j].leaseVersion + 1, x)
      BY HFacts DEF IsLeased, Claimed, Job
    <2>2. x \in Nat /\ x > now
      BY <1>4, TimeAssumption
    <2> HIDE DEF c, x
    <2>3. now < job[j].expiresAt
      BY <1>4, <1>7, Readings
    <2>4. job[j].availableAt <= now
      <3>1. job[j].availableAt <= t
        BY <1>1 DEF Claimable
      <3> QED
        BY <1>4, <3>1, LeqTransitive
    <2>5. \/ job[j].status \in {"pending", "retry_wait"}
          \/ job[j].status = "running" /\ job[j].leaseExpiresAt <= now
      <3>1. CASE job[j].status \in {"pending", "retry_wait"}
        BY <3>1
      <3>2. CASE job[j].status = "running" /\ job[j].leaseExpiresAt <= t
        BY <1>4, <3>2, LeqTransitive
      <3> QED
        BY <1>1, <3>1, <3>2 DEF Claimable
    <2>6. ASSUME NEW a
          PROVE  ValidateGenerationJobTransition(job[j], c, now, Unlinked(j), a)
      <3>1. ValidJob(job[j]) /\ job[j].createdAt <= now /\ job[j] \in Job
        BY <1>3, ActiveFacts
      <3> QED
        BY <1>4, <1>7, <2>1, <2>2, <2>3, <2>4, <2>5, <3>1, ClaimAccepted
    <2>7. RowMoved(job[j], attempts[j], c, attempts[j])
      <3>1. job[j].leaseVersion <= job[j].leaseVersion + 1
        BY <1>4
      <3> QED
        BY <2>1, <3>1 DEF RowMoved, IsLeased
    <2>8. Moves(j, c)
      BY <1>3, <2>6, <2>7, RecentFacts, ActiveFacts DEF Moves
    <2> QED
      BY <1>2, <1>7, <2>8, SetRowTraced DEF c
  <1> QED
    BY <1>1, <1>5, <1>6, <1>7

\* The job and the attempt a busy worker names.
LEMMA WorkerNames ==
    ASSUME HInv, NEW w \in Workers, worker[w].pc # "idle"
    PROVE  /\ worker[w] \in WorkerState /\ worker[w].job \in Jobs
           /\ WorkerConsistent(w)
           /\ worker[w].attempt # 0 => worker[w].attempt \in DOMAIN attempts[worker[w].job]
  BY HFacts DEF TypeOK, WorkersConsistent, WorkerConsistent

LEMMA RenewGenerationTraced ==
    ASSUME HInv, NEW w \in Workers, RenewGeneration(w)
    PROVE  \A i \in Jobs : Traced(i)
  <1> DEFINE j == worker[w].job
             v == worker[w].version
  <1>1. PICK t \in Recent :
          /\ ValidateLease(job[j], v, t)
          /\ ~Unlinked(j)
          /\ t + LeaseDuration > job[j].leaseExpiresAt
          /\ SetJob(j, [job[j] EXCEPT !.leaseExpiresAt = t + LeaseDuration])
    BY DEF RenewGeneration
  <1>2. attempts' = attempts /\ j \in Jobs
    BY WorkerNames DEF RenewGeneration
  <1> HIDE DEF j, v
  <1> DEFINE x == t + LeaseDuration
             c == [job[j] EXCEPT !.leaseExpiresAt = x]
  <1>3. t \in Nat /\ x \in Nat /\ x > job[j].leaseExpiresAt
    BY <1>1, RecentFacts, TimeAssumption
  <1> HIDE DEF x
  <1>4. job[j].status = "running"
    BY <1>1 DEF ValidateLease
  <1>5. ValidJob(job[j]) /\ job[j] \in Job
    BY <1>2, <1>4, ActiveFacts DEF ActiveStatus
  <1>6. IsLeased(job[j], c, job[j].leaseVersion, x)
    <2>1. job[j].reasonCode = ""
      BY <1>4, <1>5 DEF ValidJob
    <2> QED
      BY <1>4, <1>5, <2>1 DEF IsLeased, Job
  <1>7. SetJob(j, c)
    BY <1>1 DEF x
  <1> HIDE DEF c
  <1>8. ASSUME NEW a
        PROVE  ValidateGenerationJobTransition(job[j], c, t, Unlinked(j), a)
    BY <1>1, <1>3, <1>5, <1>6, RenewAccepted
  <1>9. RowMoved(job[j], attempts[j], c, attempts[j])
    <2>1. job[j].leaseVersion <= job[j].leaseVersion
      BY <1>5, JobFields
    <2> QED
      BY <1>6, <2>1 DEF RowMoved, IsLeased
  <1>10. Moves(j, c)
    BY <1>4, <1>8, <1>9 DEF Moves
  <1> QED
    BY <1>2, <1>7, <1>10, SetRowTraced

LEMMA TouchedTraced ==
    ASSUME HInv, NEW j \in Jobs, job'[j] = job[j], Len(attempts'[j]) = Len(attempts[j]),
           \A n \in DOMAIN attempts[j] :
              \/ SameRecord(attempts[j][n], attempts'[j][n])
              \/ Finished(attempts[j][n], attempts'[j][n], now)
    PROVE  Traced(j)
  BY DEF Traced, Effect, Touched

LEMMA SetAttemptTraced ==
    ASSUME HInv, NEW i \in Jobs, NEW m \in DOMAIN attempts[i], NEW x \in Attempt,
           attempts' = [attempts EXCEPT ![i][m] = x], job' = job,
           SameRecord(attempts[i][m], x) \/ Finished(attempts[i][m], x, now)
    PROVE  \A j \in Jobs : Traced(j)
  <1> DEFINE s == [attempts[i] EXCEPT ![m] = x]
  <1>1. attempts[i] \in Seq(Attempt) /\ s \in [DOMAIN attempts[i] -> Attempt]
    BY HFacts
  <1>2. s \in Seq(Attempt) /\ DOMAIN s = DOMAIN attempts[i]
    BY <1>1, SameLength
  <1>3. Len(s) = Len(attempts[i])
    BY <1>1, <1>2
  <1>4. \A n \in DOMAIN attempts[i] : \/ SameRecord(attempts[i][n], s[n])
                                      \/ Finished(attempts[i][n], s[n], now)
    BY <1>1 DEF SameRecord
  <1>5. attempts' = [attempts EXCEPT ![i] = s]
    BY HFacts DEF TypeOK
  <1> HIDE DEF s
  <1>6. \A j \in Jobs : attempts'[j] = IF j = i THEN s ELSE attempts[j]
    BY <1>5, HFacts DEF TypeOK
  <1>7. Traced(i)
    BY <1>3, <1>4, <1>6, TouchedTraced
  <1> QED
    BY <1>6, <1>7, SameTraced

LEMMA LostFinished ==
    ASSUME NEW a \in Attempt, ValidAttempt(a), a.status = "reserved", now \in Nat, a.startedAt <= now
    PROVE  Finished(a, LeaseLost(a), now)
  <1> DEFINE x == LeaseLost(a)
  <1>1. /\ x.status = "unknown" /\ x.errorCode = "lease_lost" /\ x.decision = a.decision
    BY DEF LeaseLost, Attempt
  <1>2. /\ x.finishedAt = now /\ x.leaseVersion = a.leaseVersion
        /\ x.pauseRevision = a.pauseRevision /\ x.startedAt = a.startedAt
        /\ x.notBefore = a.notBefore /\ x.tokens = a.tokens
    BY DEF LeaseLost, Attempt
  <1> HIDE DEF x
  <1>3. /\ x.leaseVersion > 0 /\ x.startedAt > 0 /\ x.tokens <= ReservedTokens
        /\ x.finishedAt >= x.startedAt /\ x.tokens = 0
    <2>1. a.leaseVersion > 0 /\ a.startedAt > 0 /\ a.tokens <= ReservedTokens /\ a.tokens = 0
      BY DEF ValidAttempt
    <2>2. now >= a.startedAt
      BY AttemptFields, Readings
    <2> QED
      BY <1>2, <2>1, <2>2
  <1>4. x.decision = ""
    BY <1>1 DEF ValidAttempt
  <1>5. ValidAttempt(x)
    BY <1>1, <1>3, <1>4 DEF ValidAttempt
  <1>6. x.status # "reserved"
    BY <1>1
  <1>7. /\ x.finishedAt = now /\ x.leaseVersion = a.leaseVersion
        /\ x.pauseRevision = a.pauseRevision /\ x.startedAt = a.startedAt
    BY <1>2
  <1> QED
    BY <1>5, <1>6, <1>7, Zenon DEF Finished, x

LEMMA RecoverGenerationAttemptsTraced ==
    ASSUME HInv, NEW w \in Workers, RecoverGenerationAttempts(w)
    PROVE  \A j \in Jobs : Traced(j)
  <1> SUFFICES ASSUME NEW j \in Jobs PROVE Traced(j)
    OBVIOUS
  <1>1. PICK B \in SUBSET {p \in AttemptsOf(Jobs) : Recoverable(p[1], p[2])} :
          attempts' = [i \in Jobs |-> [n \in DOMAIN attempts[i] |->
                         IF <<i, n>> \in B THEN LeaseLost(attempts[i][n]) ELSE attempts[i][n]]]
    BY DEF RecoverGenerationAttempts
  <1>2. job' = job
    BY DEF RecoverGenerationAttempts
  <1>3. Len(attempts'[j]) = Len(attempts[j])
    BY HFacts, RecoverGenerationAttemptsQuiet DEF Quiet, QuietAttempts
  <1>4. ASSUME NEW n \in DOMAIN attempts[j]
        PROVE  \/ SameRecord(attempts[j][n], attempts'[j][n])
               \/ Finished(attempts[j][n], attempts'[j][n], now)
    <2>1. CASE <<j, n>> \in B
      <3>1. Recoverable(j, n)
        BY <2>1
      <3>2. attempts[j][n].status = "reserved"
        BY <3>1 DEF Recoverable
      <3>3. /\ attempts[j][n] \in Attempt /\ ValidAttempt(attempts[j][n])
            /\ attempts[j][n].startedAt <= now /\ now \in Nat
        BY HFacts, Elements DEF HistoryOK, AttemptsValid
      <3>4. Finished(attempts[j][n], LeaseLost(attempts[j][n]), now)
        BY <3>2, <3>3, LostFinished
      <3> QED
        BY <1>1, <2>1, <3>4
    <2>2. CASE <<j, n>> \notin B
      BY <1>1, <2>2 DEF SameRecord
    <2> QED
      BY <2>1, <2>2
  <1> QED
    BY <1>2, <1>3, <1>4, TouchedTraced

\* A provider that asks for a delay has failed.
LEMMA SettledFinished ==
    ASSUME NEW a \in Attempt, ValidAttempt(a), a.status = "reserved", now \in Nat, a.startedAt <= now,
           NEW o \in Observation, o.result # "none",
           o.notBefore # 0 => o.result \in GenerationFailure
    PROVE  Finished(a, Settled(a, o), now)
  <1> DEFINE c == ClassifiedOutcome(o)
  <1>1. /\ c.result \in {"publish", "skip"} \cup GenerationFailure
        /\ c.tokens \in Nat /\ c.notBefore \in Nat
    BY DEF ClassifiedOutcome, Observation, GenerationFailure
  <1>2. c.notBefore # 0 => c.result \in GenerationFailure
    <2>1. c.notBefore = o.notBefore
      BY DEF ClassifiedOutcome, Observation
    <2>2. o.result \in GenerationFailure => c.result \in GenerationFailure
      BY DEF ClassifiedOutcome, Observation, GenerationFailure
    <2> QED
      BY <2>1, <2>2
  <1>3. c.tokens <= ReservedTokens
    BY CounterAssumption DEF ClassifiedOutcome, Observation
  <1>4. c.result \in {"provider_timeout", "execution_cancelled"} => c.tokens = 0
    BY CounterAssumption DEF ClassifiedOutcome, Observation
  <1> HIDE DEF c
  <1> DEFINE st == IF c.result \in {"publish", "skip"} THEN "succeeded"
                   ELSE IF c.result \in {"provider_timeout",
                                         "execution_cancelled"}
                   THEN "unknown" ELSE "failed"
             de == IF c.result \in {"publish", "skip"} THEN c.result ELSE ""
             er == IF c.result \in {"publish", "skip"} THEN "" ELSE c.result
             x == [a EXCEPT !.status = st, !.decision = de,
                      !.errorCode = er, !.notBefore = c.notBefore, !.tokens = c.tokens,
                      !.finishedAt = now]
  <1>5. Settled(a, o) = x
    BY DEF Settled, c
  <1>6. /\ st \in {"succeeded", "failed", "unknown"}
        /\ de # "" => st = "succeeded"
        /\ st = "succeeded" => er = ""
        /\ st \in {"failed", "unknown"} => er # ""
    BY <1>1 DEF GenerationFailure
  <1>7. c.notBefore # 0 => st \in {"failed", "unknown"}
    BY <1>2 DEF GenerationFailure
  <1>8. st = "unknown" => c.tokens = 0
    BY <1>4
  <1> HIDE DEF st, de, er
  <1>9. x.status = st /\ x.decision = de /\ x.errorCode = er
    BY DEF Attempt
  <1>10. x.notBefore = c.notBefore /\ x.tokens = c.tokens
    BY DEF Attempt
  <1>11. /\ x.finishedAt = now /\ x.leaseVersion = a.leaseVersion
         /\ x.pauseRevision = a.pauseRevision /\ x.startedAt = a.startedAt
    BY DEF Attempt
  <1> HIDE DEF x
  <1>12. x.leaseVersion > 0 /\ x.startedAt > 0 /\ x.finishedAt >= x.startedAt
    <2>1. a.leaseVersion > 0 /\ a.startedAt > 0
      BY DEF ValidAttempt
    <2>2. now >= a.startedAt
      BY AttemptFields, Readings
    <2> QED
      BY <1>11, <2>1, <2>2
  <1>13. x.tokens <= ReservedTokens
    BY <1>3, <1>10
  <1>14. x.notBefore # 0 => x.status \in {"failed", "unknown"}
    BY <1>7, <1>9, <1>10
  <1>15. x.status = "unknown" => x.tokens = 0
    BY <1>8, <1>9, <1>10
  <1>16. x.status # "reserved"
    BY <1>6, <1>9
  <1>17. /\ x.decision # "" => x.status = "succeeded"
         /\ x.status = "succeeded" => x.errorCode = ""
         /\ x.status \in {"failed", "unknown"} => x.errorCode # ""
    BY <1>6, <1>9
  <1>18. ValidAttempt(x)
    BY <1>12, <1>13, <1>14, <1>15, <1>16, <1>17 DEF ValidAttempt
  <1> QED
    BY <1>5, <1>11, <1>16, <1>18, Zenon DEF Finished

LEMMA SettlementTraced ==
    ASSUME HInv, NEW i \in Jobs, NEW m \in DOMAIN attempts[i],
           NEW o \in Observation, o.result # "none",
           o.notBefore # 0 => o.result \in GenerationFailure,
           attempts' = Settlement(i, m, o), job' = job
    PROVE  \A j \in Jobs : Traced(j)
  <1>1. /\ attempts[i][m] \in Attempt /\ ValidAttempt(attempts[i][m])
        /\ attempts[i][m].startedAt <= now /\ now \in Nat
    BY HFacts, Elements DEF HistoryOK, AttemptsValid
  <1>2. CASE attempts[i][m].status = "reserved"
    <2>1. attempts' = [attempts EXCEPT ![i][m] = Settled(attempts[i][m], o)]
      BY <1>2 DEF Settlement
    <2>2. Finished(attempts[i][m], Settled(attempts[i][m], o), now)
      BY <1>1, <1>2, SettledFinished
    <2>3. Settled(attempts[i][m], o) \in Attempt
      BY <1>1, SettledType
    <2> QED
      BY <2>1, <2>2, <2>3, SetAttemptTraced
  <1>3. CASE attempts[i][m].status # "reserved"
    BY <1>3, NothingTraced DEF Settlement
  <1> QED
    BY <1>2, <1>3

LEMMA SettleGenerationTraced ==
    ASSUME HInv, NEW w \in Workers, SettleGeneration(w)
    PROVE  \A j \in Jobs : Traced(j)
  <1>1. /\ worker[w].pc = "settle" /\ worker[w].pc # "idle" /\ job' = job
        /\ attempts' = Settlement(worker[w].job, worker[w].attempt, worker[w].outcome)
    BY DEF SettleGeneration
  <1>2. /\ worker[w].job \in Jobs /\ worker[w].attempt \in DOMAIN attempts[worker[w].job]
        /\ worker[w].outcome \in Observation /\ worker[w].outcome.result # "none"
    <2>1. worker[w].attempt # 0 /\ worker[w].outcome.result # "none"
      BY <1>1, WorkerNames DEF WorkerConsistent, FinishPC
    <2>2. worker[w].outcome \in Observation
      BY <1>1, WorkerNames DEF WorkerState
    <2> QED
      BY <1>1, <2>1, <2>2, WorkerNames
  <1>3. worker[w].outcome.notBefore # 0 => worker[w].outcome.result \in GenerationFailure
    BY DEF HInv, Hinted
  <1> QED
    BY <1>1, <1>2, <1>3, SettlementTraced

LEMMA SettleCancelledTraced ==
    ASSUME HInv, NEW w \in Workers, SettleCancelled(w)
    PROVE  \A j \in Jobs : Traced(j)
  <1> DEFINE o == [NoOutcome EXCEPT !.result = "execution_cancelled"]
  <1>1. /\ worker[w].pc = "cancelled" /\ worker[w].pc # "idle" /\ job' = job
        /\ attempts' = Settlement(worker[w].job, worker[w].attempt, o)
    BY DEF SettleCancelled
  <1>2. /\ o \in Observation /\ o.result # "none" /\ o.result \in GenerationFailure
    BY DEF NoOutcome, Observation, GenerationFailure
  <1> HIDE DEF o
  <1>3. worker[w].job \in Jobs /\ worker[w].attempt \in DOMAIN attempts[worker[w].job]
    <2>1. worker[w].attempt # 0
      BY <1>1, WorkerNames DEF WorkerConsistent
    <2> QED
      BY <1>1, <2>1, WorkerNames
  <1> QED
    BY <1>1, <1>2, <1>3, SettlementTraced

LEMMA StartCallTraced ==
    ASSUME HInv, NEW w \in Workers, StartCall(w)
    PROVE  \A j \in Jobs : Traced(j)
  <1> DEFINE i == worker[w].job
             m == worker[w].attempt
             a == attempts[i][m]
             x == [a EXCEPT !.calls = @ + 1]
  <1>1. /\ worker[w].pc = "ready" /\ worker[w].pc # "idle" /\ job' = job
        /\ attempts' = [attempts EXCEPT ![i][m].calls = @ + 1]
    BY DEF StartCall
  <1>2. i \in Jobs /\ m \in DOMAIN attempts[i] /\ a \in Attempt
    <2>1. worker[w].attempt # 0
      BY <1>1, WorkerNames DEF WorkerConsistent
    <2>2. i \in Jobs /\ m \in DOMAIN attempts[i]
      BY <1>1, <2>1, WorkerNames
    <2> QED
      BY <2>2, HFacts, AttemptAt
  <1>3. attempts' = [attempts EXCEPT ![i][m] = x]
    BY <1>1
  <1> HIDE DEF i, m
  <1> HIDE DEF a
  <1>4. x \in Attempt /\ SameRecord(a, x)
    <2> DEFINE k == a.calls + 1
    <2>1. k \in Nat /\ x = [a EXCEPT !.calls = k]
      <3>1. a.calls \in Nat
        BY <1>2, AttemptFields
      <3> QED
        BY <3>1
    <2> HIDE DEF k, x
    <2>2. x \in Attempt
      BY <1>2, <2>1 DEF Attempt
    <2>3. SameRecord(a, x)
      BY <1>2, <2>1 DEF Attempt, SameRecord, Columns
    <2> QED
      BY <2>2, <2>3
  <1> HIDE DEF x
  <1>5. SameRecord(attempts[i][m], x)
    BY <1>4 DEF a
  <1> QED
    BY <1>1, <1>2, <1>3, <1>4, <1>5, SetAttemptTraced

LEMMA PauseAgentTraced ==
    ASSUME HInv, TypeOK', NEW g \in Agents, PauseAgent(g)
    PROVE  \A j \in Jobs : Traced(j)
  <1> SUFFICES ASSUME NEW j \in Jobs PROVE Traced(j)
    OBVIOUS
  <1>1. /\ attempts' = [i \in Jobs |-> [n \in DOMAIN attempts[i] |->
                           IF AgentOf[i] = g /\ job[i].status # "succeeded"
                           THEN [attempts[i][n] EXCEPT !.fenced = TRUE]
                           ELSE attempts[i][n]]]
        /\ job' = job
    BY DEF PauseAgent
  <1>2. attempts[j] \in Seq(Attempt) /\ attempts'[j] \in Seq(Attempt)
    BY HFacts DEF TypeOK
  <1>3. DOMAIN attempts'[j] = DOMAIN attempts[j]
    BY <1>1
  <1>4. Len(attempts'[j]) = Len(attempts[j])
    BY <1>2, <1>3
  <1>5. ASSUME NEW n \in DOMAIN attempts[j]
        PROVE  SameRecord(attempts[j][n], attempts'[j][n])
    <2> DEFINE a == attempts[j][n]
               x == [a EXCEPT !.fenced = TRUE]
    <2>1. attempts'[j][n] \in {a, x}
      BY <1>1
    <2>2. a \in Attempt
      BY HFacts, AttemptAt
    <2> HIDE DEF a
    <2>3. SameRecord(a, x) /\ SameRecord(a, a)
      BY <2>2 DEF Attempt, SameRecord, Columns
    <2> QED
      BY <2>1, <2>3 DEF a
  <1> QED
    BY <1>1, <1>4, <1>5, TouchedTraced

LEMMA FailedDenials ==
    ASSUME NEW r \in DOMAIN DenialStatus
    PROVE  r # "" /\ (DenialStatus[r] = "failed" => r \notin GenerationFailure)
  <1>1. r # ""
    BY DenialDomain
  <1>2. DenialStatus[r] = "failed" => r = "outcome_unavailable"
    BY DenialDomain DEF DenialStatus
  <1> QED
    BY <1>1, <1>2 DEF GenerationFailure

LEMMA DenyGenerationTraced ==
    ASSUME HInv, NEW w \in Workers, DenyGeneration(w)
    PROVE  \A i \in Jobs : Traced(i)
  <1> DEFINE j == worker[w].job
             v == worker[w].version
             d == worker[w].denial
             b == job[j]
             c == DenialRow(j, v, d)
  <1>1. /\ worker[w].pc = "deny" /\ worker[w].pc # "idle" /\ attempts' = attempts
        /\ SetJob(j, c)
    BY DEF DenyGeneration
  <1>2. j \in Jobs /\ d \in DOMAIN DenialStatus
    BY <1>1, WorkerNames DEF WorkerConsistent, WorkerState
  <1> HIDE DEF j, v, d
  <1>3. Moves(j, c)
    <2>1. CASE b.leaseVersion # v \/ b.status # "running"
      BY <2>1 DEF DenialRow, Moves
    <2>2. CASE b.leaseVersion = v /\ b.status = "running" /\ now >= b.expiresAt
      <3>1. b.expiresAt <= now
        BY <1>2, <2>2, HFacts, JobFields, Readings
      <3>2. c = skipExpiredGenerationJob(job[j])
        BY <2>2 DEF DenialRow
      <3>3. job[j].status \in ActiveStatus
        BY <2>2 DEF ActiveStatus
      <3> QED
        BY <1>2, <3>1, <3>2, <3>3, SkipMoves
    <2>3. CASE b.leaseVersion = v /\ b.status = "running" /\ ~ (now >= b.expiresAt) /\ Unlinked(j)
      <3>1. now < b.expiresAt
        BY <1>2, <2>3, HFacts, JobFields, Readings
      <3>2. c = cancelRemovedJob(job[j])
        BY <2>3 DEF DenialRow
      <3>3. job[j].status \in ActiveStatus
        BY <2>3 DEF ActiveStatus
      <3> QED
        BY <1>2, <2>3, <3>1, <3>2, <3>3, CancelMoves
    <2>4. CASE /\ b.leaseVersion = v /\ b.status = "running" /\ ~ (now >= b.expiresAt)
               /\ ~Unlinked(j) /\ ~ValidateLease(b, v, now)
      BY <2>4 DEF DenialRow, Moves
    <2>5. CASE /\ b.leaseVersion = v /\ b.status = "running" /\ ~ (now >= b.expiresAt)
               /\ ~Unlinked(j) /\ ValidateLease(b, v, now)
      <3>1. c = finishExecutionJob(job[j], DenialStatus[d], d, now)
        BY <2>5 DEF DenialRow
      <3>2. /\ DenialStatus[d] \in {"skipped", "cancelled", "failed"}
            /\ d # "" /\ (DenialStatus[d] = "failed" => d \notin GenerationFailure)
        BY <1>2, DenialType, FailedDenials
      <3> QED
        BY <1>2, <2>5, <3>1, <3>2, CloseMoves
    <2> QED
      BY <2>1, <2>2, <2>3, <2>4, <2>5
  <1> HIDE DEF c
  <1> QED
    BY <1>1, <1>2, <1>3, SetRowTraced

LEMMA RemoveSourceTraced ==
    ASSUME HInv, NEW s \in Sources, RemoveSource(s)
    PROVE  \A j \in Jobs : Traced(j)
  <1> SUFFICES ASSUME NEW j \in Jobs PROVE Traced(j)
    OBVIOUS
  <1>1. PICK B \in SUBSET RemovableJobs(s) :
           job' = [i \in Jobs |-> IF i \in B THEN RemovalRow(job[i]) ELSE job[i]]
    BY DEF RemoveSource
  <1>2. attempts' = attempts
    BY DEF RemoveSource
  <1>3. CASE j \in B
    <2>1. SourceOf[j] = s /\ job[j].status \in ActiveStatus
      BY <1>3 DEF RemovableJobs
    <2>2. SourceOf[j] # NoSource /\ ~SourceValid(j)'
      <3>1. source \in [Sources -> SourceStates]
        BY HFacts DEF TypeOK
      <3>2. \E gone \in {"deleted", "unlinked"} : source' = [source EXCEPT ![s] = gone]
        BY DEF RemoveSource
      <3>3. source'[s] \in {"deleted", "unlinked"}
        BY <3>1, <3>2
      <3> QED
        BY <2>1, <3>3, SetsAssumption DEF SourceValid
    <2>3. /\ job[j].status # "absent" /\ ValidJob(job[j]) /\ job[j].createdAt <= now
          /\ job[j] \in Job
      BY <2>1, ActiveFacts
    <2>4. job'[j] = RemovalRow(job[j])
      BY <1>1, <1>3
    <2>5. ValidateGenerationSourceInvalidation(job[j], job'[j], now)
      BY <2>1, <2>3, <2>4, HFacts, RemovalAccepted
    <2>6. JobStepAccepted(j)
      BY <2>2, <2>5, RecentFacts DEF JobStepAccepted
    <2>7. RowMoved(job[j], attempts[j], job'[j], attempts[j])
      <3>1. \/ IsClosed(job[j], job'[j], "cancelled", "source_removed")
            \/ IsClosed(job[j], job'[j], "skipped", "stale_trigger")
        BY <2>3, <2>4, ClosedFields DEF RemovalRow, cancelRemovedJob, skipExpiredGenerationJob
      <3> QED
        BY <2>3, <3>1, ClosedMoved
    <2> QED
      BY <1>2, <2>3, <2>6, <2>7 DEF Traced, Effect
  <1> QED
    BY <1>1, <1>2, <1>3, SameTraced

LEMMA GivenBackTraced ==
    ASSUME HInv, NEW j \in Jobs, attempts[j] # <<>>, job[j].status # "absent",
           NEW who \in {"worker", "operator"}, NEW r, NEW x, NEW c, SetJob(j, c),
           IsReturned(job[j], c, r, x),
           attempts' = [attempts EXCEPT ![j][Len(attempts[j])].acknowledged = who],
           LastAttempt(j).status # "reserved",
           LastAttempt(j).errorCode \notin Vetoed, LastAttempt(j).decision # "skip",
           LastAttempt(j).errorCode \in ForOperators => who = "operator",
           x > LastAttempt(j).finishedAt, x >= LastAttempt(j).notBefore,
           \A a : ValidateGenerationJobTransition(job[j], c, now, Unlinked(j), a)
    PROVE  \A i \in Jobs : Traced(i)
  <1> DEFINE h == attempts[j]
             l == Len(h)
             a == h[l]
             y == [a EXCEPT !.acknowledged = who]
             s == [h EXCEPT ![l] = y]
  <1>1. l \in DOMAIN h /\ a \in Attempt /\ h \in Seq(Attempt) /\ a = LastAttempt(j)
    BY HFacts, LastIsAttempt
  <1>2. attempts' = [attempts EXCEPT ![j] = s]
    BY HFacts DEF TypeOK
  <1> HIDE DEF a
  <1>3. y \in Attempt /\ Columns(y) = Columns(a)
    BY <1>1 DEF Attempt, Columns
  <1>4. /\ y.status = a.status /\ y.decision = a.decision /\ y.errorCode = a.errorCode
        /\ y.acknowledged = who
    BY <1>1 DEF Attempt
  <1> HIDE DEF y
  <1>5. s \in [DOMAIN h -> Attempt] /\ s[l] = y /\ \A n \in DOMAIN h : n # l => s[n] = h[n]
    BY <1>1, <1>3
  <1>6. s \in Seq(Attempt) /\ DOMAIN s = DOMAIN h
    BY <1>1, <1>5, SameLength
  <1>7. Len(s) = l
    BY <1>1, <1>6
  <1> HIDE DEF s
  <1>8. /\ \A i \in Jobs : attempts'[i] = IF i = j THEN s ELSE attempts[i]
        /\ \A i \in Jobs : job'[i] = IF i = j THEN c ELSE job[i]
    BY <1>2, HFacts DEF TypeOK, SetJob
  <1>9. MayFollow(y)
    BY <1>1, <1>4 DEF MayFollow
  <1>10. /\ c.status = "retry_wait" /\ c.leaseVersion = job[j].leaseVersion
         /\ c.availableAt = x
    BY DEF IsReturned
  <1>11. GivenBack(job[j], h, c, s)
    <2>1. a = h[l]
      BY DEF a
    <2> QED
      BY <1>1, <1>3, <1>5, <1>7, <1>9, <1>10, <2>1 DEF GivenBack
  <1>12. JobStepAccepted(j)
    BY <1>8, RecentFacts DEF JobStepAccepted
  <1>13. Traced(j)
    BY <1>8, <1>11, <1>12 DEF Traced, Effect
  <1> QED
    BY <1>8, <1>13, SameTraced

LEMMA SourceLinked ==
    ASSUME NEW j \in Jobs, SourceValid(j)
    PROVE  ~Unlinked(j)
  BY DEF SourceValid, Unlinked

LEMMA LastFacts ==
    ASSUME HInv, NEW j \in Jobs, attempts[j] # <<>>
    PROVE  /\ LastAttempt(j) \in Attempt /\ ValidAttempt(LastAttempt(j))
           /\ LastAttempt(j).startedAt <= now /\ LastAttempt(j).finishedAt <= now
           /\ LastAttempt(j).leaseVersion <= job[j].leaseVersion
           /\ Released(job[j], LastAttempt(j)) /\ Explained(job[j], attempts[j])
           /\ LastAttempt(j) = attempts[j][Len(attempts[j])]
  <1>1. /\ Len(attempts[j]) \in DOMAIN attempts[j] /\ LastAttempt(j) \in Attempt
        /\ LastAttempt(j) = attempts[j][Len(attempts[j])]
    BY HFacts, LastIsAttempt
  <1>2. HistoryOK(job[j], attempts[j], now)
    BY HFacts
  <1> QED
    BY <1>1, <1>2 DEF HistoryOK, AttemptsValid

\* When a reopened job may go on.
LEMMA RetryFloor ==
    ASSUME HInv, NEW j \in Jobs
    PROVE  /\ RetryAvailability(j) \in Nat /\ RetryAvailability(j) >= now
           /\ attempts[j] # <<>> => /\ RetryAvailability(j) > LastAttempt(j).finishedAt
                                    /\ RetryAvailability(j) >= LastAttempt(j).notBefore
  <1>1. now \in Nat
    BY HFacts
  <1>2. CASE attempts[j] = <<>>
    BY <1>1, <1>2 DEF RetryAvailability
  <1>3. CASE attempts[j] # <<>>
    <2> DEFINE f == LastAttempt(j).finishedAt
               n == LastAttempt(j).notBefore
    <2>1. f \in Nat /\ n \in Nat
      BY <1>3, LastFacts, AttemptFields
    <2>2. RetryAvailability(j) = LET floor == IF n > now THEN n ELSE now
                                 IN  IF floor > f THEN floor ELSE f + 1
      BY <1>3 DEF RetryAvailability
    <2> HIDE DEF f, n
    <2>3. RetryAvailability(j) \in Nat /\ RetryAvailability(j) >= now
          /\ RetryAvailability(j) > f /\ RetryAvailability(j) >= n
      BY <1>1, <2>1, <2>2
    <2> QED
      BY <2>3 DEF f, n
  <1> QED
    BY <1>2, <1>3

\* What a reopened job says of its last attempt.
LEMMA ReopenedLast ==
    ASSUME HInv, NEW j \in Jobs, Reopenable(j), attempts[j] # <<>>
    PROVE  /\ LastAttempt(j).status # "reserved" /\ LastAttempt(j).errorCode \notin Vetoed
           /\ LastAttempt(j).decision # "skip"
  <1> DEFINE a == LastAttempt(j)
             h == attempts[j]
  <1>1. /\ a.status # "reserved" /\ a.errorCode # "unsupported_accounting"
    <2>1. Len(h) \in DOMAIN h /\ a = h[Len(h)]
      BY HFacts, LastIsAttempt
    <2> QED
      BY <2>1 DEF Reopenable
  <1>2. ValidAttempt(a) /\ a = h[Len(h)] /\ Explained(job[j], h)
    BY LastFacts
  <1>3. CASE a.status = "succeeded"
    <2>1. a.errorCode = ""
      BY <1>2, <1>3 DEF ValidAttempt
    <2>2. a.decision # "skip"
      BY <1>3 DEF Reopenable
    <2> QED
      BY <1>1, <2>1, <2>2 DEF Vetoed
  <1>4. CASE a.status # "succeeded"
    <2>1. a.decision = ""
      BY <1>2, <1>4 DEF ValidAttempt
    <2>2. /\ job[j].status = "failed"
          /\ job[j].reasonCode \in GenerationFailure \
                {"unsafe_output", "repeated_output", "execution_cancelled"}
          /\ InvalidOutputs(h) <= MaxGenerationInvalidRegenerations
      BY <1>4 DEF Reopenable
    <2>3. ~ (InvalidOutputs(h) > MaxGenerationInvalidRegenerations)
      <3>1. InvalidOutputs(h) \in Nat
        BY HFacts, InvalidOutputsGrow
      <3> QED
        BY <2>2, <3>1, AttemptLimitAssumption, Readings
    <2>4. job[j].reasonCode = a.errorCode
      BY <1>2, <1>4, <2>2, <2>3 DEF Explained
    <2> QED
      BY <1>1, <2>1, <2>2, <2>4 DEF Vetoed
  <1> QED
    BY <1>3, <1>4

LEMMA RetryGenerationTraced ==
    ASSUME HInv, NEW j \in Jobs, RetryGeneration(j)
    PROVE  \A i \in Jobs : Traced(i)
  <1> DEFINE x == RetryAvailability(j)
             c == [job[j] EXCEPT !.status = "retry_wait", !.reasonCode = "operator_retry",
                                 !.availableAt = x]
             b == job[j]
  <1>1. /\ SetJob(j, c) /\ Reopenable(j) /\ SourceValid(j) /\ now < b.expiresAt /\ x < b.expiresAt
    BY DEF RetryGeneration
  <1>2. x \in Nat /\ x >= now
    BY RetryFloor
  <1>3. b.status = "failed" /\ b.leaseVersion > 0
    BY <1>1 DEF Reopenable
  <1>4. ValidJob(b) /\ b.createdAt <= now /\ b \in Job /\ b.status # "absent"
    BY <1>3, ActiveFacts
  <1>5. IsReturned(b, c, "operator_retry", x)
    <2>1. b.leaseExpiresAt = 0
      BY <1>3, <1>4 DEF ValidJob
    <2> HIDE DEF x
    <2> QED
      BY <1>4, <2>1 DEF IsReturned, Job
  <1> HIDE DEF c, x
  <1>6. ASSUME NEW a
        PROVE  ValidateGenerationJobTransition(b, c, now, Unlinked(j), a)
    BY <1>1, <1>2, <1>3, <1>4, <1>5, HFacts, SourceLinked, ReopenAccepted
  <1>7. CASE attempts[j] # <<>>
    <2>1. /\ x > LastAttempt(j).finishedAt /\ x >= LastAttempt(j).notBefore
      BY <1>7, RetryFloor DEF x
    <2>2. attempts' = [attempts EXCEPT ![j][Len(attempts[j])].acknowledged = "operator"]
      BY <1>7 DEF RetryGeneration
    <2> QED
      BY <1>1, <1>4, <1>5, <1>6, <1>7, <2>1, <2>2, ReopenedLast, GivenBackTraced
  <1>8. CASE attempts[j] = <<>>
    <2>1. attempts' = attempts
      BY <1>8 DEF RetryGeneration
    <2>2. \A i \in Jobs : job'[i] = IF i = j THEN c ELSE job[i]
      BY <1>1, HFacts DEF TypeOK, SetJob
    <2>3. JobStepAccepted(j)
      BY <1>6, <2>2, RecentFacts DEF JobStepAccepted
    <2>4. Traced(j)
      BY <1>4, <1>8, <2>1, <2>3 DEF Traced, Effect
    <2> QED
      BY <2>1, <2>2, <2>4, SameTraced
  <1> QED
    BY <1>7, <1>8

\* A job nobody has admitted yet has no attempts.
LEMMA AbsentEmpty ==
    ASSUME HInv, NEW j \in Jobs, job[j].status = "absent"
    PROVE  attempts[j] = <<>>
  <1> SUFFICES ASSUME attempts[j] # <<>> PROVE FALSE
    OBVIOUS
  <1>1. job[j].leaseVersion = 0
    BY HFacts DEF Inv, AbsentUnclaimed
  <1>2. ValidAttempt(LastAttempt(j)) /\ LastAttempt(j).leaseVersion <= 0 /\ LastAttempt(j).leaseVersion \in Nat
    BY <1>1, LastFacts, AttemptFields
  <1>3. LastAttempt(j).leaseVersion > 0
    BY <1>2 DEF ValidAttempt
  <1> QED
    BY <1>2, <1>3

LEMMA PublishGenerationTraced ==
    ASSUME HInv, NEW w \in Workers, PublishGeneration(w)
    PROVE  \A i \in Jobs : Traced(i)
  <1> DEFINE j == worker[w].job
             n == worker[w].durable
             v == worker[w].version
             b == job[j]
             a == attempts[j][n]
             c == Published(b, n)
  <1>1. worker[w].pc = "publish" /\ attempts' = attempts
    BY DEF PublishGeneration
  <1>2. PICK output \in BOOLEAN, policy \in BOOLEAN :
          IF PublicationVerdict(j, v, n, output, policy) = "published"
          THEN \E children \in SUBSET Continuations(j) :
                  job' = [k \in Jobs |-> IF k = j THEN Published(job[j], n)
                                         ELSE IF k \in children THEN NewJob ELSE job[k]]
          ELSE job' = job
    BY DEF PublishGeneration
  <1>3. CASE PublicationVerdict(j, v, n, output, policy) # "published"
    BY <1>1, <1>2, <1>3, NothingTraced
  <1>4. CASE PublicationVerdict(j, v, n, output, policy) = "published"
    <2>1. PICK children \in SUBSET Continuations(j) :
             job' = [k \in Jobs |-> IF k = j THEN Published(job[j], n)
                                    ELSE IF k \in children THEN NewJob ELSE job[k]]
      BY <1>2, <1>4
    <2>2. /\ j \in Jobs /\ b \in Job /\ b.status = "running"
          /\ n \in Nat /\ n = Len(attempts[j]) /\ n > 0
          /\ a.leaseVersion = b.leaseVersion /\ a.status = "succeeded"
      BY <1>1, <1>4, HFacts, PublicationFounded
    <2>3. /\ ValidateLease(b, v, now) /\ SourceValid(j) /\ Publishable(a, b)
      BY <1>4, <2>2 DEF PublicationVerdict
    <2> HIDE DEF j, n, v
    <2>4. a \in Attempt /\ ValidAttempt(a)
      <3>1. attempts[j] # <<>>
        BY <2>2, HFacts, Elements
      <3> QED
        BY <2>2, <3>1, LastFacts
    <2>5. /\ ValidJob(b) /\ b.createdAt <= now /\ b.status # "absent"
      BY <2>2, ActiveFacts DEF ActiveStatus
    <2>6. a.startedAt >= b.availableAt /\ a.finishedAt <= now
      BY <2>3 DEF Publishable
    <2>7. ~Unlinked(j) /\ n \in Nat \ {0} /\ now \in Nat
      BY <2>2, <2>3, SourceLinked, HFacts
    <2>8. c.status = "succeeded" /\ ValidateGenerationJobTransition(b, c, now, Unlinked(j), a)
      BY <2>2, <2>3, <2>4, <2>5, <2>6, <2>7, PublishAccepted
    <2>9. c.publishedAttempt = n
      BY <2>2 DEF Published, Job
    <2>10. job'[j] = c
      BY <2>1, <2>2
    <2>11. RowMoved(b, attempts[j], c, attempts[j])
      <3>1. c.leaseVersion = b.leaseVersion /\ c.availableAt = b.availableAt
        BY <2>2 DEF Published, Job
      <3>2. b.leaseVersion <= b.leaseVersion
        BY <2>2, JobFields
      <3> HIDE DEF c
      <3> QED
        BY <2>8, <3>1, <3>2 DEF RowMoved
    <2> HIDE DEF c
    <2>12. JobStepAccepted(j)
      <3>1. (IF job'[j].status = "succeeded" THEN attempts[j][job'[j].publishedAttempt]
                                             ELSE NoOutcome) = a
        BY <2>8, <2>9, <2>10
      <3>2. ValidateGenerationJobTransition(job[j], job'[j], now, Unlinked(j),
               IF job'[j].status = "succeeded" THEN attempts[j][job'[j].publishedAttempt]
                                               ELSE NoOutcome)
        BY <2>8, <2>10, <3>1
      <3> QED
        BY <3>2, RecentFacts DEF JobStepAccepted
    <2>13. Traced(j)
      BY <1>1, <2>5, <2>10, <2>11, <2>12 DEF Traced, Effect
    <2>14. ASSUME NEW i \in children, i # j PROVE Traced(i)
      <3>1. i \in Jobs /\ job[i].status = "absent"
        BY DEF Continuations
      <3>2. job'[i] = NewJob
        BY <2>1, <2>14, <3>1
      <3> QED
        BY <1>1, <3>1, <3>2, AbsentEmpty DEF Traced, Effect
    <2>15. ASSUME NEW i \in Jobs, i \notin children, i # j PROVE Traced(i)
      BY <1>1, <2>1, <2>15, SameTraced
    <2> QED
      BY <2>13, <2>14, <2>15
  <1> QED
    BY <1>3, <1>4

LEMMA ReservationMade ==
    ASSUME HInv, NEW j \in Jobs, NEW v \in Nat
    PROVE  LET r == Reservation(j, v) IN
           /\ r \in Attempt /\ r.status = "reserved" /\ r.leaseVersion = v /\ r.startedAt = now
           /\ r.finishedAt = 0 /\ r.errorCode = "" /\ r.decision = "" /\ r.notBefore = 0
           /\ r.tokens = 0
  <1>1. pauseRevision[AgentOf[j]] \in Nat
    BY SetsAssumption, HFacts DEF TypeOK
  <1> QED
    BY <1>1, HFacts DEF Reservation, Attempt, AttemptStatus

LEMMA ReserveGenerationTraced ==
    ASSUME HInv, NEW w \in Workers, ReserveGeneration(w)
    PROVE  \A i \in Jobs : Traced(i)
  <1> DEFINE j == worker[w].job
             v == worker[w].version
             b == job[j]
             h == attempts[j]
             row(verdict) ==
                IF verdict = "stale_trigger" THEN skipExpiredGenerationJob(job[j])
                ELSE IF verdict \in DOMAIN AdmissionStatus
                THEN finishExecutionJob(job[j], AdmissionStatus[verdict], verdict, now)
                ELSE job[j]
  <1>1. worker[w].pc = "reserve" /\ worker[w].pc # "idle"
    BY DEF ReserveGeneration
  <1>2. /\ j \in Jobs /\ v \in Nat
    BY <1>1, WorkerNames DEF WorkerState
  <1>3. PICK policy \in BOOLEAN :
          IF Admission(j, v, policy) = "admitted"
          THEN attempts' = [attempts EXCEPT ![j] = Append(@, Reservation(j, v))] /\ job' = job
          ELSE SetJob(j, row(Admission(j, v, policy))) /\ attempts' = attempts
    BY DEF ReserveGeneration
  <1>4. b \in Job /\ now \in Nat /\ h \in Seq(Attempt)
    BY <1>2, HFacts
  <1> HIDE DEF j, v
  <1> DEFINE verdict == Admission(j, v, policy)
  <1>5. CASE verdict = "admitted"
    <2> DEFINE r == Reservation(j, v)
    <2>1. /\ attempts' = [attempts EXCEPT ![j] = Append(h, r)] /\ job' = job
      BY <1>3, <1>5
    <2>2. /\ b.status = "running" /\ b.leaseVersion = v /\ ValidateLease(b, v, now)
          /\ \A n \in DOMAIN h : h[n].leaseVersion # v
          /\ h # <<>> => Acknowledged(b.availableAt, LastAttempt(j))
      BY <1>5 DEF Admission
    <2>3. /\ r \in Attempt /\ r.status = "reserved" /\ r.leaseVersion = v /\ r.startedAt = now
          /\ r.finishedAt = 0 /\ r.errorCode = "" /\ r.decision = "" /\ r.notBefore = 0
          /\ r.tokens = 0
      BY <1>2, ReservationMade
    <2> HIDE DEF r
    <2>4. b.leaseVersion > 0 /\ b.availableAt <= now
      <3>1. ValidJob(b)
        BY <1>2, <2>2, ActiveFacts DEF ActiveStatus
      <3>2. now >= b.availableAt /\ v > 0
        BY <1>4, <2>2, <3>1, LeaseFacts
      <3>3. b.availableAt \in Nat
        BY <1>4, JobFields
      <3>4. b.availableAt <= now
        BY <1>4, <3>2, <3>3, Readings
      <3> QED
        BY <2>2, <3>2, <3>4
    <2>5. \A i \in Jobs : /\ attempts'[i] = IF i = j THEN Append(h, r) ELSE attempts[i]
                          /\ job'[i] = job[i]
      BY <2>1, HFacts DEF TypeOK
    <2>6. h # <<>> => Acknowledged(b.availableAt, h[Len(h)])
      BY <2>2 DEF LastAttempt
    <2>7. Appended(b, h, b, Append(h, r), now)
      BY <2>2, <2>3, <2>4, <2>6 DEF Appended
    <2>8. Traced(j)
      BY <1>2, <2>5, <2>7 DEF Traced, Effect
    <2> QED
      BY <2>5, <2>8, SameTraced
  <1>6. CASE verdict # "admitted"
    <2>1. SetJob(j, row(verdict)) /\ attempts' = attempts
      BY <1>3, <1>6
    <2>2. Moves(j, row(verdict))
      <3>1. CASE verdict = "stale_trigger"
        <4>1. b.status = "running" /\ now >= b.expiresAt
          BY <3>1 DEF Admission
        <4>2. b.expiresAt <= now
          BY <1>4, <4>1, JobFields, Readings
        <4>3. job[j].status \in ActiveStatus
          BY <4>1 DEF ActiveStatus
        <4> QED
          BY <1>2, <3>1, <4>2, <4>3, SkipMoves
      <3>2. CASE verdict # "stale_trigger" /\ verdict \in DOMAIN AdmissionStatus
        <4>1. /\ ValidateLease(b, v, now)
              /\ ~SourceValid(j) => verdict = "source_removed"
              /\ verdict = "invalid_output" => InvalidOutputs(h) > MaxGenerationInvalidRegenerations
          BY <3>2, AdmissionDomain DEF Admission
        <4> HIDE DEF verdict
        <4>2. /\ verdict # "" /\ AdmissionStatus[verdict] \in {"skipped", "cancelled", "failed"}
          BY <3>2, AdmissionType, AdmissionDomain
        <4>3. Unlinked(j) => AdmissionStatus[verdict] = "cancelled"
          <5>1. AdmissionStatus["source_removed"] = "cancelled"
            BY DEF AdmissionStatus
          <5> QED
            BY <1>2, <4>1, <5>1, SourceLinked
        <4>4. verdict \in GenerationFailure => verdict = "invalid_output"
          BY <3>2, AdmissionDomain DEF GenerationFailure
        <4>5. verdict \in GenerationFailure =>
                 Explained(finishExecutionJob(b, AdmissionStatus[verdict], verdict, now), h)
          BY <4>1, <4>4 DEF Explained
        <4> QED
          BY <1>2, <3>2, <4>1, <4>2, <4>3, <4>5, CloseMoves
      <3>3. CASE verdict # "stale_trigger" /\ verdict \notin DOMAIN AdmissionStatus
        BY <3>3 DEF Moves
      <3> QED
        BY <3>1, <3>2, <3>3
    <2> HIDE DEF row
    <2> QED
      BY <1>2, <2>1, <2>2, SetRowTraced
  <1> QED
    BY <1>5, <1>6

LEMMA RetryLater ==
    ASSUME NEW t \in Nat, NEW count \in 1 .. MaxGenerationAttempts, NEW hint \in Nat,
           NEW jitter \in 0 .. MaxRetryJitter
    PROVE  /\ RetryInstant(t, count, hint, jitter) \in Nat
           /\ RetryInstant(t, count, hint, jitter) > t
           /\ RetryInstant(t, count, hint, jitter) >= hint
  <1>1. RetryBackoff[count] \in Nat /\ RetryBackoff[count] > 0
    BY BackoffAssumption
  <1>2. jitter \in Nat
    BY BackoffAssumption
  <1> QED
    BY <1>1, <1>2 DEF RetryInstant

LEMMA FailedClosures ==
    ASSUME NEW e
    PROVE  /\ FailureStatus(e) \in {"skipped", "cancelled", "failed"}
           /\ \A c, i : RetryGranted(e, c, i) => e \notin Vetoed /\ e \notin ForOperators
  BY DEF FailureStatus, RetryGranted, RetryableFailure, Vetoed, ForOperators

LEMMA CompleteTraced ==
    ASSUME HInv, NEW j \in Jobs, NEW v, NEW n, NEW jitter \in 0 .. MaxRetryJitter,
           Complete(j, Completion(j, v, n, jitter))
    PROVE  \A i \in Jobs : Traced(i)
  <1> DEFINE b == job[j]
             h == attempts[j]
             a == LastAttempt(j)
             next == RetryInstant(now, Len(h), a.notBefore, jitter)
             row == Completion(j, v, n, jitter).row
             failure == IF a.errorCode = "lease_lost" THEN "provider_timeout"
                                                      ELSE a.errorCode
             conflict == \/ h = <<>> \/ Len(h) > MaxGenerationAttempts
                         \/ b.leaseVersion # v \/ n # Len(h)
                         \/ a.leaseVersion > v \/ a.status = "reserved"
             kept == \/ ~ValidateLease(b, v, now) \/ now < a.finishedAt
                     \/ a.leaseVersion < v /\ Acknowledged(b.availableAt, a)
                     \/ a.status = "succeeded" /\ a.decision # "skip" /\ a.leaseVersion = v
  <1>1. /\ SetJob(j, row)
        /\ attempts' = IF row.status = "retry_wait" /\ b.status = "running"
                       THEN [attempts EXCEPT ![j][Len(h)].acknowledged = "worker"]
                       ELSE attempts
    BY DEF Complete
  <1>2. b \in Job /\ now \in Nat /\ h \in Seq(Attempt)
    BY HFacts
  <1>3. ASSUME Moves(j, row), b.status = "running" => row.status # "retry_wait"
        PROVE  \A i \in Jobs : Traced(i)
    <2>1. attempts' = attempts
      BY <1>1, <1>3
    <2> HIDE DEF row
    <2> QED
      BY <1>1, <1>3, <2>1, SetRowTraced
  <1>4. CASE conflict \/ b.status # "running"
    <2>1. row = b
      BY <1>4 DEF Completion
    <2>2. b.status = "running" => row.status # "retry_wait"
      BY <2>1
    <2> QED
      BY <1>3, <2>1, <2>2 DEF Moves
  <1>5. CASE ~conflict /\ b.status = "running"
    <2>0. /\ h # <<>> /\ ~ (Len(h) > MaxGenerationAttempts) /\ a.status # "reserved"
      BY <1>5
    <2>1. /\ b.status \in ActiveStatus
      BY <1>5 DEF ActiveStatus
    <2>2. /\ a \in Attempt /\ ValidAttempt(a) /\ a.finishedAt <= now
          /\ b.expiresAt \in Nat /\ ValidJob(b) /\ b.status # "absent"
          /\ a = h[Len(h)]
      BY <1>2, <2>0, <2>1, LastFacts, JobFields, ActiveFacts
    <2>3. CASE now >= b.expiresAt
      <3>1. row = skipExpiredGenerationJob(b)
        BY <1>5, <2>3 DEF Completion
      <3>2. b.expiresAt <= now
        BY <1>2, <2>2, <2>3, Readings
      <3>3. row.status = "skipped"
        BY <1>2, <3>1, ClosedFields DEF skipExpiredGenerationJob, IsClosed
      <3> QED
        BY <1>3, <2>1, <3>1, <3>2, <3>3, SkipMoves
    <2>4. CASE ~ (now >= b.expiresAt) /\ Unlinked(j)
      <3>1. row = cancelRemovedJob(b)
        BY <1>5, <2>4 DEF Completion
      <3>2. now < b.expiresAt
        BY <1>2, <2>2, <2>4, Readings
      <3>3. row.status = "cancelled"
        BY <1>2, <3>1, ClosedFields DEF cancelRemovedJob, IsClosed
      <3> QED
        BY <1>3, <2>1, <2>4, <3>1, <3>2, <3>3, CancelMoves
    <2>5. CASE ~ (now >= b.expiresAt) /\ ~Unlinked(j) /\ kept
      <3>1. row = b
        BY <1>5, <2>5 DEF Completion
      <3> QED
        BY <1>3, <1>5, <3>1 DEF Moves
    <2>6. CASE ~ (now >= b.expiresAt) /\ ~Unlinked(j) /\ ~kept
      <3>1. ValidateLease(b, v, now) /\ ~Unlinked(j)
        BY <2>6
      <3>2. \/ a.status = "succeeded" /\ row = finishExecutionJob(b, "skipped", "skip_reason", next)
            \/ a.status = "succeeded" /\ row = finishExecutionJob(b, "failed", "outcome_unavailable", next)
            \/ /\ a.status # "succeeded" /\ next < b.expiresAt
               /\ RetryGranted(failure, Len(h), InvalidOutputs(h))
               /\ row = finishExecutionJob(b, "retry_wait", a.errorCode, next)
            \/ /\ a.status # "succeeded"
               /\ row = finishExecutionJob(b, FailureStatus(failure), a.errorCode, next)
        BY <1>5, <2>6 DEF Completion
      <3> HIDE DEF conflict, kept, next, row, failure
      <3>3. ASSUME NEW s \in {"skipped", "cancelled", "failed"}, NEW r, r # "",
                   row = finishExecutionJob(b, s, r, next),
                   s = "failed" => r \notin GenerationFailure \/ Explained(row, h)
            PROVE  \A i \in Jobs : Traced(i)
        <4>1. s # "retry_wait"
          OBVIOUS
        <4>2. row.status # "retry_wait"
          BY <1>2, <3>3, <4>1, FinishedFields DEF IsClosed
        <4>3. Moves(j, row)
          BY <3>1, <3>3, CloseMoves
        <4> QED
          BY <1>3, <4>2, <4>3
      <3>4. a.status # "succeeded" => a.errorCode # ""
        BY <2>0, <2>2 DEF ValidAttempt, Attempt, AttemptStatus
      <3>5. CASE row = finishExecutionJob(b, "skipped", "skip_reason", next)
        BY <3>3, <3>5
      <3>6. CASE row = finishExecutionJob(b, "failed", "outcome_unavailable", next)
        BY <3>3, <3>6 DEF GenerationFailure
      <3>7. CASE /\ a.status # "succeeded"
                 /\ row = finishExecutionJob(b, FailureStatus(failure), a.errorCode, next)
        <4>1. FailureStatus(failure) \in {"skipped", "cancelled", "failed"}
          BY FailedClosures
        <4>2. FailureStatus(failure) # "retry_wait"
          BY <4>1
        <4>3. row.reasonCode = a.errorCode
          BY <1>2, <3>7, <4>2, FinishedFields DEF IsClosed
        <4>4. Explained(row, h)
          BY <2>2, <4>3 DEF Explained
        <4> QED
          BY <3>3, <3>4, <3>7, <4>1, <4>4
      <3>8. CASE /\ a.status # "succeeded" /\ next < b.expiresAt
                 /\ RetryGranted(failure, Len(h), InvalidOutputs(h))
                 /\ row = finishExecutionJob(b, "retry_wait", a.errorCode, next)
        <4>1. Len(h) \in 1 .. MaxGenerationAttempts
          <5>1. Len(h) \in Nat /\ Len(h) > 0
            BY <1>2, <2>0, Elements
          <5> QED
            BY <2>0, <5>1, AttemptLimitAssumption
        <4>2. a.notBefore \in Nat /\ a.finishedAt \in Nat
          BY <2>2, AttemptFields
        <4>3. next \in Nat /\ next > now /\ next >= a.notBefore
          BY <1>2, <4>1, <4>2, RetryLater DEF next
        <4>4. next > a.finishedAt
          BY <1>2, <2>2, <4>2, <4>3
        <4>5. IsReturned(b, row, a.errorCode, next)
          BY <1>2, <3>8, FinishedFields
        <4>6. ASSUME NEW x
              PROVE  ValidateGenerationJobTransition(b, row, now, Unlinked(j), x)
          BY <1>2, <2>2, <3>1, <3>4, <3>8, <4>3, <4>5, ReturnAccepted
        <4>7. attempts' = [attempts EXCEPT ![j][Len(attempts[j])].acknowledged = "worker"]
          BY <1>1, <1>5, <4>5 DEF IsReturned
        <4>8. /\ a.errorCode \notin Vetoed /\ a.errorCode \notin ForOperators
          <5>1. failure \notin Vetoed /\ failure \notin ForOperators
            BY <3>8, FailedClosures
          <5>2. failure = a.errorCode \/ a.errorCode = "lease_lost"
            BY DEF failure
          <5> QED
            BY <5>1, <5>2 DEF Vetoed, ForOperators
        <4>9. a.decision # "skip"
          BY <2>2, <3>8 DEF ValidAttempt
        <4> QED
          BY <1>1, <2>0, <2>2, <4>3, <4>4, <4>5, <4>6, <4>7, <4>8, <4>9, GivenBackTraced
      <3> QED
        BY <3>2, <3>5, <3>6, <3>7, <3>8
    <2> QED
      BY <2>3, <2>4, <2>5, <2>6
  <1> QED
    BY <1>4, <1>5

-----------------------------------------------------------------------------
(* What workers remember of the provider.                                  *)

OutcomeKept == \A u \in Workers : worker'[u].outcome \in {worker[u].outcome, NoOutcome}

LEMMA KeptHints ==
    ASSUME HInv, OutcomeKept
    PROVE  \A u \in Workers : Hinted(u)'
  BY DEF HInv, OutcomeKept, Hinted, NoOutcome

LEMMA MovedOutcome ==
    ASSUME TypeOK, NEW w \in Workers, NEW l, worker' = [worker EXCEPT ![w] = l],
           l.outcome \in {worker[w].outcome, NoOutcome}
    PROVE  OutcomeKept
  BY DEF TypeOK, OutcomeKept

\* Leaving, going on, denying and being interrupted.
Routine(w) ==
    \/ Leave(w)
    \/ \E pc : Goto(w, pc)
    \/ \E d : Deny(w, d)
    \/ \E acknowledge : Interrupt(w, acknowledge)

LEMMA RoutineOutcome ==
    ASSUME TypeOK, NEW w \in Workers, Routine(w)
    PROVE  OutcomeKept
  <1>1. worker[w] \in WorkerState
    BY DEF TypeOK
  <1>2. CASE Leave(w)
    <2>1. IdleWorker.outcome = NoOutcome
      BY DEF IdleWorker
    <2> QED
      BY <1>2, <2>1, MovedOutcome DEF Leave
  <1>3. ASSUME NEW pc, Goto(w, pc) PROVE OutcomeKept
    <2> DEFINE l == [worker[w] EXCEPT !.pc = pc]
    <2>1. worker' = [worker EXCEPT ![w] = l] /\ l.outcome = worker[w].outcome
      BY <1>1, <1>3 DEF Goto, WorkerState
    <2> HIDE DEF l
    <2> QED
      BY <2>1, MovedOutcome
  <1>4. ASSUME NEW d, Deny(w, d) PROVE OutcomeKept
    <2> DEFINE l == [worker[w] EXCEPT !.pc = "deny", !.denial = d]
    <2>1. worker' = [worker EXCEPT ![w] = l] /\ l.outcome = worker[w].outcome
      BY <1>1, <1>4 DEF Deny, WorkerState
    <2> HIDE DEF l
    <2> QED
      BY <2>1, MovedOutcome
  <1>5. ASSUME NEW k, Interrupt(w, k) PROVE OutcomeKept
    <2> DEFINE l == [worker[w] EXCEPT !.pc = "cancelled", !.acknowledge = k]
    <2>1. worker' = [worker EXCEPT ![w] = l] /\ l.outcome = worker[w].outcome
      BY <1>1, <1>5 DEF Interrupt, WorkerState
    <2> HIDE DEF l
    <2> QED
      BY <2>1, MovedOutcome
  <1> QED
    BY <1>2, <1>3, <1>4, <1>5 DEF Routine

LEMMA SameOutcomes ==
    ASSUME worker' = worker
    PROVE  OutcomeKept
  BY DEF OutcomeKept

LEMMA ClaimOutcome ==
    ASSUME TypeOK, NEW w \in Workers, ClaimGeneration(w)
    PROVE  OutcomeKept
  <1>1. CASE Leave(w)
    BY <1>1, RoutineOutcome DEF Routine
  <1>2. CASE \E j \in Jobs :
               worker' = [worker EXCEPT ![w] = [IdleWorker EXCEPT
                            !.pc = "prior", !.job = j,
                            !.version = Claimed(job[j]).leaseVersion,
                            !.availableAt = job[j].availableAt]]
    <2>1. PICK j \in Jobs :
               worker' = [worker EXCEPT ![w] = [IdleWorker EXCEPT
                            !.pc = "prior", !.job = j,
                            !.version = Claimed(job[j]).leaseVersion,
                            !.availableAt = job[j].availableAt]]
      BY <1>2
    <2> DEFINE v == Claimed(job[j]).leaseVersion
               x == job[j].availableAt
    <2>2. ASSUME NEW y, NEW z
          PROVE  [IdleWorker EXCEPT !.pc = "prior", !.job = j, !.version = y,
                                    !.availableAt = z].outcome = NoOutcome
      BY DEF IdleWorker
    <2> QED
      BY <2>1, <2>2, MovedOutcome
  <1> QED
    BY <1>1, <1>2 DEF ClaimGeneration

LEMMA ReadPriorOutcome ==
    ASSUME TypeOK, NEW w \in Workers, ReadPrior(w)
    PROVE  OutcomeKept
  <1> DEFINE m == Len(attempts[worker[w].job])
             l == [worker[w] EXCEPT !.pc = "ackprior", !.durable = m]
  <1>1. Routine(w) \/ worker' = [worker EXCEPT ![w] = l]
    BY DEF ReadPrior, Routine
  <1>2. l.outcome = worker[w].outcome
    <2> HIDE DEF m
    <2> QED
      BY DEF TypeOK, WorkerState
  <1> HIDE DEF l
  <1> QED
    BY <1>1, <1>2, RoutineOutcome, MovedOutcome

LEMMA ReserveOutcome ==
    ASSUME TypeOK, NEW w \in Workers, ReserveGeneration(w)
    PROVE  OutcomeKept
  <1> DEFINE m == Len(attempts[worker[w].job]) + 1
             l == [worker[w] EXCEPT !.pc = "ready", !.attempt = m]
  <1>1. Leave(w) \/ worker' = [worker EXCEPT ![w] = l]
    BY DEF ReserveGeneration
  <1>2. l.outcome = worker[w].outcome
    <2> HIDE DEF m
    <2> QED
      BY DEF TypeOK, WorkerState
  <1> HIDE DEF l
  <1> QED
    BY <1>1, <1>2, RoutineOutcome, MovedOutcome DEF Routine

LEMMA SettleOutcome ==
    ASSUME TypeOK, NEW w \in Workers, SettleGeneration(w)
    PROVE  OutcomeKept
  <1>1. PICK k : worker' = [worker EXCEPT ![w].pc = "latest", ![w].accepted = k]
    BY Zenon DEF SettleGeneration
  <1> DEFINE l == [worker[w] EXCEPT !.pc = "latest", !.accepted = k]
  <1>2. worker' = [worker EXCEPT ![w] = l]
    BY <1>1
  <1>3. l.outcome = worker[w].outcome
    BY DEF TypeOK, WorkerState
  <1> HIDE DEF l
  <1> QED
    BY <1>2, <1>3, MovedOutcome

LEMMA LatestOutcome ==
    ASSUME TypeOK, NEW w \in Workers, ReadLatest(w)
    PROVE  OutcomeKept
  <1> DEFINE m == Len(attempts[worker[w].job])
             l == [worker[w] EXCEPT !.pc = "complete", !.durable = m]
  <1>1. worker' = [worker EXCEPT ![w] = l]
    BY DEF ReadLatest
  <1>2. l.outcome = worker[w].outcome
    <2> HIDE DEF m
    <2> QED
      BY DEF TypeOK, WorkerState
  <1> HIDE DEF l
  <1> QED
    BY <1>1, <1>2, MovedOutcome

LEMMA ProviderHints ==
    ASSUME HInv, NEW w \in Workers, ProviderReturns(w)
    PROVE  \A u \in Workers : Hinted(u)'
  <1>1. PICK o \in Outcomes, hint \in RetryHints :
          worker' = [worker EXCEPT ![w].pc = "settle", ![w].outcome =
             [result |-> o.result, tokens |-> o.tokens,
              notBefore |-> IF hint = 0 \/ o.result \notin GenerationFailure
                            THEN 0 ELSE now + hint]]
    BY DEF ProviderReturns
  <1> DEFINE x == [result |-> o.result, tokens |-> o.tokens,
                   notBefore |-> IF hint = 0 \/ o.result \notin GenerationFailure
                                 THEN 0 ELSE now + hint]
             l == [worker[w] EXCEPT !.pc = "settle", !.outcome = x]
  <1>2. x.notBefore # 0 => x.result \in GenerationFailure
    OBVIOUS
  <1>3. worker' = [worker EXCEPT ![w] = l]
    BY <1>1
  <1> HIDE DEF x
  <1>4. l.outcome = x
    BY HFacts DEF TypeOK, WorkerState
  <1> HIDE DEF l
  <1>5. \A u \in Workers : worker'[u] = IF u = w THEN l ELSE worker[u]
    BY <1>3, HFacts DEF TypeOK
  <1> QED
    BY <1>2, <1>4, <1>5 DEF HInv, Hinted

LEMMA RoutineSteps ==
    ASSUME NEW w \in Workers,
           \/ AcknowledgePrior(w) \/ GenerationContext(w) \/ StartCall(w)
           \/ CompleteGeneration(w) \/ PublishGeneration(w) \/ DenyGeneration(w)
           \/ SettleCancelled(w) \/ RenewalFails(w) \/ Shutdown(w) \/ Abandon(w)
    PROVE  Routine(w)
  <1>1. CASE AcknowledgePrior(w)
    BY <1>1 DEF AcknowledgePrior, Routine
  <1>2. CASE GenerationContext(w)
    BY <1>2 DEF GenerationContext, Routine
  <1>3. CASE CompleteGeneration(w)
    BY <1>3 DEF CompleteGeneration, LeaveFinish, Routine
  <1>4. CASE PublishGeneration(w)
    BY <1>4 DEF PublishGeneration, LeaveFinish, Routine
  <1>5. CASE DenyGeneration(w)
    BY <1>5 DEF DenyGeneration, LeaveFinish, Routine
  <1>6. CASE SettleCancelled(w)
    BY <1>6 DEF SettleCancelled, Routine
  <1>7. CASE StartCall(w) \/ RenewalFails(w) \/ Shutdown(w) \/ Abandon(w)
    BY <1>7 DEF StartCall, RenewalFails, Shutdown, Abandon, Routine
  <1> QED
    BY <1>1, <1>2, <1>3, <1>4, <1>5, <1>6, <1>7

-----------------------------------------------------------------------------
(* The invariant.                                                          *)

Accepted(j) ==
    /\ AttemptsAccepted(attempts[j], attempts'[j])
    /\ job'[j] # job[j] /\ job[j].status # "absent" => JobStepAccepted(j)

LEMMA NewJobOK ==
    ASSUME now \in Nat
    PROVE  RowOK(NewJob, now)
  <1>1. now < now + Lifetime /\ now <= now
    BY TimeAssumption
  <1> DEFINE b == NewJob
  <1>2. /\ b.createdAt = now /\ b.availableAt = now /\ b.expiresAt = now + Lifetime
        /\ b.leaseVersion = 0 /\ b.leaseExpiresAt = 0 /\ b.publishedAttempt = 0
    BY DEF NewJob
  <1>3. b.status = "pending" /\ b.reasonCode = ""
    BY DEF NewJob
  <1> HIDE DEF b
  <1>4. b.createdAt <= b.availableAt /\ b.availableAt < b.expiresAt /\ b.createdAt <= now
    BY <1>1, <1>2
  <1>5. b.leaseVersion = 0 /\ b.leaseExpiresAt = 0 /\ b.publishedAttempt = 0
    BY <1>2
  <1>6. ValidJob(b)
    BY <1>3, <1>4, <1>5 DEF ValidJob
  <1> QED
    BY <1>4, <1>6 DEF RowOK, b

LEMMA AcceptedRow ==
    ASSUME NEW j \in Jobs, JobStepAccepted(j)
    PROVE  ValidJob(job'[j]) /\ job'[j].createdAt = job[j].createdAt
  BY DEF JobStepAccepted, ValidateGenerationJobTransition, ValidateGenerationSourceInvalidation

LEMMA TracedStep ==
    ASSUME HInv, AInv', TypeOK', now' = now, \A j \in Jobs : Traced(j),
           \A w \in Workers : Hinted(w)'
    PROVE  HInv' /\ \A j \in Jobs : Accepted(j)
  <1>1. ASSUME NEW j \in Jobs
        PROVE  /\ HistoryOK(job'[j], attempts'[j], now') /\ RowOK(job'[j], now')
               /\ Accepted(j)
    <2>1. /\ job[j] \in Job /\ attempts[j] \in Seq(Attempt) /\ now \in Nat /\ now > 0
          /\ HistoryOK(job[j], attempts[j], now)
      BY HFacts
    <2>2. job'[j] \in Job /\ attempts'[j] \in Seq(Attempt)
      BY DEF TypeOK
    <2>3. /\ Effect(job[j], attempts[j], job'[j], attempts'[j], now)
          /\ job'[j] # job[j] => IF job[j].status = "absent" THEN job'[j] = NewJob
                                                             ELSE JobStepAccepted(j)
      BY DEF Traced
    <2>4. HistoryOK(job'[j], attempts'[j], now) /\ AttemptsAccepted(attempts[j], attempts'[j])
      BY <2>1, <2>2, <2>3, EffectOK, EffectAccepted
    <2>5. RowOK(job'[j], now)
      <3>1. CASE job'[j] = job[j]
        BY <3>1 DEF HInv
      <3>2. CASE job'[j] = NewJob
        BY <2>1, <3>2, NewJobOK
      <3>3. CASE job[j].status # "absent" /\ JobStepAccepted(j)
        BY <3>3, AcceptedRow, HFacts DEF RowOK
      <3> QED
        BY <2>3, <3>1, <3>2, <3>3
    <2> QED
      BY <2>3, <2>4, <2>5 DEF Accepted
  <1>2. now' > 0
    BY HFacts
  <1> QED
    BY <1>1, <1>2 DEF HInv

LEMMA InitHInv == Init => HInv
  <1> SUFFICES ASSUME Init PROVE HInv
    OBVIOUS
  <1>1. AInv /\ now = 1
    BY InitAInv DEF Init
  <1>2. ASSUME NEW j \in Jobs PROVE HistoryOK(job[j], attempts[j], now)
    <2>1. attempts[j] = <<>>
      BY DEF Init
    <2> QED
      BY <2>1, EmptyOK
  <1>3. ASSUME NEW j \in Jobs PROVE RowOK(job[j], now)
    <2>1. job[j] = NewJob \/ job[j] = AbsentJob
      BY DEF Init
    <2>2. AbsentJob.status = "absent"
      BY DEF AbsentJob
    <2>3. now \in Nat
      BY <1>1
    <2> QED
      BY <2>1, <2>2, <2>3, NewJobOK DEF RowOK
  <1>4. ASSUME NEW w \in Workers PROVE Hinted(w)
    BY DEF Init, Hinted, IdleWorker, NoOutcome
  <1>5. now > 0
    BY <1>1
  <1> QED
    BY <1>1, <1>2, <1>3, <1>4, <1>5 DEF HInv

LEMMA NextHInv == HInv /\ [Next]_vars => HInv' /\ \A j \in Jobs : Accepted(j)
  <1> SUFFICES ASSUME HInv, [Next]_vars PROVE HInv' /\ \A j \in Jobs : Accepted(j)
    OBVIOUS
  <1>1. AInv' /\ TypeOK'
    <2>1. AInv'
      BY NextAInv, HFacts
    <2> QED
      BY <2>1 DEF AInv, Inv
  <1>2. TypeOK
    BY HFacts
  <1>3. ASSUME now' = now, \A j \in Jobs : Traced(j), \A w \in Workers : Hinted(w)'
        PROVE  HInv' /\ \A j \in Jobs : Accepted(j)
    BY <1>1, <1>3, TracedStep
  <1>4. ASSUME NEW w \in Workers, Proceed(w) \/ Disturb(w)
        PROVE  now' = now /\ (\A j \in Jobs : Traced(j)) /\ \A u \in Workers : Hinted(u)'
    <2>1. CASE RecoverGenerationAttempts(w)
      BY <2>1, RecoverGenerationAttemptsTraced, SameOutcomes, KeptHints
         DEF RecoverGenerationAttempts
    <2>2. CASE ExpireGenerationJobs(w)
      BY <2>2, ExpireGenerationJobsTraced, SameOutcomes, KeptHints DEF ExpireGenerationJobs
    <2>3. CASE ClaimGeneration(w)
      <3>1. now' = now
        BY <2>3 DEF ClaimGeneration
      <3> QED
        BY <1>2, <2>3, <3>1, ClaimGenerationTraced, ClaimOutcome, KeptHints
    <2>4. CASE ReadPrior(w)
      <3>1. now' = now /\ job' = job /\ attempts' = attempts
        BY <2>4 DEF ReadPrior
      <3> QED
        BY <1>2, <2>4, <3>1, NothingTraced, ReadPriorOutcome, KeptHints
    <2>5. CASE AcknowledgePrior(w)
      <3>1. now' = now
        BY <2>5 DEF AcknowledgePrior
      <3>2. PICK jitter \in 0 .. MaxRetryJitter :
               Complete(worker[w].job, Completion(worker[w].job, worker[w].version,
                                                  worker[w].durable, jitter))
        BY <2>5 DEF AcknowledgePrior
      <3>3. worker[w].job \in Jobs
        BY <2>5, WorkerNames DEF AcknowledgePrior
      <3> QED
        BY <1>2, <2>5, <3>1, <3>2, <3>3, CompleteTraced, RoutineSteps, RoutineOutcome, KeptHints
    <2>6. CASE GenerationContext(w)
      <3>1. now' = now /\ job' = job /\ attempts' = attempts
        BY <2>6 DEF GenerationContext
      <3> QED
        BY <1>2, <2>6, <3>1, NothingTraced, RoutineSteps, RoutineOutcome, KeptHints
    <2>7. CASE ReserveGeneration(w)
      <3>1. now' = now
        BY <2>7 DEF ReserveGeneration
      <3> QED
        BY <1>2, <2>7, <3>1, ReserveGenerationTraced, ReserveOutcome, KeptHints
    <2>8. CASE StartCall(w)
      <3>1. now' = now
        BY <2>8 DEF StartCall
      <3> QED
        BY <1>2, <2>8, <3>1, StartCallTraced, RoutineSteps, RoutineOutcome, KeptHints
    <2>9. CASE ProviderReturns(w)
      <3>1. now' = now /\ job' = job /\ attempts' = attempts
        BY <2>9 DEF ProviderReturns
      <3> QED
        BY <2>9, <3>1, NothingTraced, ProviderHints
    <2>10. CASE SettleGeneration(w)
      <3>1. now' = now
        BY <2>10 DEF SettleGeneration
      <3> QED
        BY <1>2, <2>10, <3>1, SettleGenerationTraced, SettleOutcome, KeptHints
    <2>11. CASE ReadLatest(w)
      <3>1. now' = now /\ job' = job /\ attempts' = attempts
        BY <2>11 DEF ReadLatest
      <3> QED
        BY <1>2, <2>11, <3>1, NothingTraced, LatestOutcome, KeptHints
    <2>12. CASE CompleteGeneration(w)
      <3>1. now' = now
        BY <2>12 DEF CompleteGeneration
      <3>2. PICK jitter \in 0 .. MaxRetryJitter :
               Complete(worker[w].job, Completion(worker[w].job, worker[w].version,
                                                  worker[w].durable, jitter))
        BY <2>12 DEF CompleteGeneration
      <3>3. worker[w].job \in Jobs
        BY <2>12, WorkerNames DEF CompleteGeneration
      <3> QED
        BY <1>2, <2>12, <3>1, <3>2, <3>3, CompleteTraced, RoutineSteps, RoutineOutcome, KeptHints
    <2>13. CASE PublishGeneration(w)
      <3>1. now' = now
        BY <2>13 DEF PublishGeneration
      <3> QED
        BY <1>2, <2>13, <3>1, PublishGenerationTraced, RoutineSteps, RoutineOutcome, KeptHints
    <2>14. CASE DenyGeneration(w)
      <3>1. now' = now
        BY <2>14 DEF DenyGeneration
      <3> QED
        BY <1>2, <2>14, <3>1, DenyGenerationTraced, RoutineSteps, RoutineOutcome, KeptHints
    <2>15. CASE SettleCancelled(w)
      <3>1. now' = now
        BY <2>15 DEF SettleCancelled
      <3> QED
        BY <1>2, <2>15, <3>1, SettleCancelledTraced, RoutineSteps, RoutineOutcome, KeptHints
    <2>16. CASE RenewGeneration(w)
      <3>1. now' = now /\ worker' = worker
        BY <2>16 DEF RenewGeneration
      <3> QED
        BY <2>16, <3>1, RenewGenerationTraced, SameOutcomes, KeptHints
    <2>17. CASE RenewalFails(w) \/ Shutdown(w) \/ Abandon(w)
      <3>1. now' = now /\ job' = job /\ attempts' = attempts
        BY <2>17 DEF RenewalFails, Shutdown, Abandon
      <3> QED
        BY <1>2, <2>17, <3>1, NothingTraced, RoutineSteps, RoutineOutcome, KeptHints
    <2> QED
      BY <1>4, <2>1, <2>2, <2>3, <2>4, <2>5, <2>6, <2>7, <2>8, <2>9, <2>10, <2>11, <2>12,
         <2>13, <2>14, <2>15, <2>16, <2>17 DEF Proceed, Disturb
  <1>5. ASSUME Control
        PROVE  now' = now /\ (\A j \in Jobs : Traced(j)) /\ \A u \in Workers : Hinted(u)'
    <2>1. ASSUME NEW a \in Agents, PauseAgent(a)
          PROVE  now' = now /\ (\A j \in Jobs : Traced(j)) /\ worker' = worker
      BY <1>1, <2>1, PauseAgentTraced DEF PauseAgent
    <2>2. ASSUME NEW a \in Agents, ResumeAgent(a) \/ DisableAccount(a)
          PROVE  now' = now /\ (\A j \in Jobs : Traced(j)) /\ worker' = worker
      BY <2>2, NothingTraced DEF ResumeAgent, DisableAccount
    <2>3. ASSUME NEW s \in Sources, HideSource(s)
          PROVE  now' = now /\ (\A j \in Jobs : Traced(j)) /\ worker' = worker
      BY <2>3, NothingTraced DEF HideSource
    <2>4. ASSUME NEW s \in Sources, RemoveSource(s)
          PROVE  now' = now /\ (\A j \in Jobs : Traced(j)) /\ worker' = worker
      BY <2>4, RemoveSourceTraced DEF RemoveSource
    <2>5. ASSUME NEW j \in Jobs, RetryGeneration(j)
          PROVE  now' = now /\ (\A i \in Jobs : Traced(i)) /\ worker' = worker
      BY <2>5, RetryGenerationTraced DEF RetryGeneration
    <2>6. now' = now /\ (\A i \in Jobs : Traced(i)) /\ worker' = worker
      BY <1>5, <2>1, <2>2, <2>3, <2>4, <2>5 DEF Control
    <2> QED
      BY <2>6, SameOutcomes, KeptHints
  <1>6. CASE UNCHANGED vars
    BY <1>3, <1>6, NothingTraced, SameOutcomes, KeptHints DEF vars
  <1>7. CASE Tick
    <2>1. /\ now' = now + 1 /\ job' = job /\ attempts' = attempts /\ worker' = worker
      BY <1>7 DEF Tick
    <2>2. ASSUME NEW j \in Jobs
          PROVE  HistoryOK(job'[j], attempts'[j], now') /\ RowOK(job'[j], now') /\ Accepted(j)
      <3>1. job[j] \in Job /\ attempts[j] \in Seq(Attempt) /\ now \in Nat
            /\ HistoryOK(job[j], attempts[j], now)
        BY HFacts
      <3>2. HistoryOK(job[j], attempts[j], now + 1)
        BY <3>1, TickOK
      <3>3. RowOK(job[j], now + 1)
        <4>1. job[j].createdAt \in Nat
          BY <3>1, JobFields
        <4> QED
          BY <3>1, <4>1 DEF HInv, RowOK
      <3>4. AttemptsAccepted(attempts[j], attempts[j])
        BY <3>1, Elements DEF AttemptsAccepted
      <3> QED
        BY <2>1, <3>2, <3>3, <3>4 DEF Accepted
    <2>3. \A w \in Workers : Hinted(w)'
      BY <2>1, SameOutcomes, KeptHints
    <2>4. now' > 0
      BY <2>1, HFacts
    <2> QED
      BY <1>1, <2>2, <2>3, <2>4 DEF HInv
  <1> QED
    BY <1>3, <1>4, <1>5, <1>6, <1>7 DEF Next

\* Histories stay in order and rows valid.
THEOREM Histories == Spec => []HInv
  <1>1. HInv /\ [Next]_vars => HInv'
    BY NextHInv
  <1> QED
    BY InitHInv, <1>1, PTL DEF Spec

(* Attempts are made one after the other: an attempt follows another only  *)
(* under a later lease, once the other is settled and a fenced transition  *)
(* has acknowledged it, and not before the provider asked for, whichever   *)
(* workers crash, lose their lease or settle late.                         *)
THEOREM AttemptsFollow == Spec => []AttemptsInOrder
  <1>1. HInv => AttemptsInOrder
    <2> SUFFICES ASSUME HInv, NEW j \in Jobs, NEW m \in DOMAIN attempts[j],
                        NEW n \in DOMAIN attempts[j], m < n
                 PROVE  LET a == attempts[j][m]
                            b == attempts[j][n]
                        IN  /\ a.status # "reserved" /\ a.acknowledged # ""
                            /\ a.leaseVersion < b.leaseVersion
                            /\ a.finishedAt < b.startedAt /\ a.notBefore <= b.startedAt
      BY DEF AttemptsInOrder
    <2>1. Ordered(attempts[j])
      BY HFacts DEF HistoryOK
    <2>2. m < Len(attempts[j])
      BY HFacts, Elements
    <2>3. MayFollow(attempts[j][m]) /\ Before(attempts[j][m], attempts[j][n])
      BY <2>1, <2>2 DEF Ordered
    <2> QED
      BY <2>3 DEF MayFollow, Before
  <1> QED
    BY <1>1, Histories, PTL

(* Nothing is attempted again after unsupported accounting, unsafe or      *)
(* repeated output, a cancelled execution or a decision to skip, and after *)
(* a credential or configuration failure only when an operator has         *)
(* reopened the job.                                                       *)
THEOREM RepairFirst == Spec => []RepairBeforeRetry
  <1>1. HInv => RepairBeforeRetry
    <2> SUFFICES ASSUME HInv, NEW j \in Jobs, NEW n \in DOMAIN attempts[j], n < Len(attempts[j])
                 PROVE  LET a == attempts[j][n] IN
                        /\ a.errorCode \notin {"unsupported_accounting", "unsafe_output",
                                               "repeated_output", "execution_cancelled"}
                        /\ a.decision # "skip"
                        /\ a.errorCode \in {"provider_credentials", "provider_configuration"}
                              => a.acknowledged = "operator"
      BY DEF RepairBeforeRetry
    <2>1. MayFollow(attempts[j][n])
      BY HFacts DEF HistoryOK, Ordered
    <2> QED
      BY <2>1 DEF MayFollow, Vetoed, ForOperators
  <1> QED
    BY <1>1, Histories, PTL

(* Every row a store operation writes is one the domain rules accept for   *)
(* the clock it was decided on: claims, renewals, completions, denials,    *)
(* publications, cleanups and operator retries never build a row that      *)
(* their own validation would refuse.                                      *)
THEOREM RowsAccepted == Spec => JobStepsAccepted
  <1>1. HInv /\ [Next]_vars =>
           [\A j \in Jobs : job'[j] # job[j] /\ job[j].status # "absent"
               => JobStepAccepted(j)]_vars
    BY NextHInv DEF Accepted
  <1> QED
    BY <1>1, Histories, PTL DEF Spec, JobStepsAccepted

(* Attempts are append-only: a late settlement, a recovery, a pause or a   *)
(* retry never changes what a settled attempt says, and a step adds at     *)
(* most one reservation to a job.                                          *)
THEOREM AttemptsAppendOnly == Spec => AttemptStepsAccepted
  <1>1. HInv /\ [Next]_vars =>
           [\A j \in Jobs :
               /\ Len(attempts'[j]) \in {Len(attempts[j]), Len(attempts[j]) + 1}
               /\ \A n \in DOMAIN attempts[j] :
                     \/ Columns(attempts'[j][n]) = Columns(attempts[j][n])
                     \/ ValidateGenerationAttemptTransition(attempts[j][n],
                                                            attempts'[j][n])]_vars
    BY NextHInv DEF Accepted, AttemptsAccepted
  <1> QED
    BY <1>1, Histories, PTL DEF Spec, AttemptStepsAccepted

-----------------------------------------------------------------------------
(* Sums over finite sets.  MapThenSumSet unfolds to a function that adds   *)
(* up a chosen element and the rest; the laws below are about any such     *)
(* function.  None of the provers has an induction, so each is proved by a *)
(* smallest counterexample.                                                *)

Choice(s) == CHOOSE x \in s : TRUE

\* g gives the sum of f over every subset of S.
IsSum(g, f, S) ==
    g = [s \in SUBSET S |-> IF s = {} THEN 0 ELSE f[Choice(s)] + g[s \ {Choice(s)}]]

LEMMA ChoiceIn ==
    ASSUME NEW s, s # {}
    PROVE  Choice(s) \in s
  BY DEF Choice

\* What holds of a finite set whenever it holds of its smaller subsets.
LEMMA SubsetInduction ==
    ASSUME NEW S, IsFiniteSet(S), NEW G,
           \A T \in SUBSET S : (\A U \in SUBSET T : U # T => U \in G) => T \in G
    PROVE  \A T \in SUBSET S : T \in G
  <1> DEFINE Bad == {T \in SUBSET S : T \notin G}
  <1> SUFFICES ASSUME Bad # {} PROVE FALSE
    OBVIOUS
  <1>1. Bad \subseteq FiniteSubsetsOf(S)
    BY FS_FiniteSubsetsOfFinite
  <1>2. IsWellFoundedOn(StrictSubsetOrdering(S), FiniteSubsetsOf(S))
    BY FS_StrictSubsetOrderingWellFounded
  <1>3. PICK T \in Bad : \A U \in Bad : <<U, T>> \notin StrictSubsetOrdering(S)
    <2> HIDE DEF Bad
    <2> QED
      BY <1>1, <1>2, WFMin
  <1>4. \A U \in SUBSET T : U # T => U \in G
    <2> SUFFICES ASSUME NEW U \in SUBSET T, U # T, U \notin G PROVE FALSE
      OBVIOUS
    <2>1. <<U, T>> \in StrictSubsetOrdering(S)
      BY DEF StrictSubsetOrdering
    <2> QED
      BY <1>3, <2>1
  <1> QED
    BY <1>4

LEMMA LeastOf ==
    ASSUME NEW S \in SUBSET Nat, S # {}
    PROVE  \E n \in S : \A m \in S : n <= m
  <1> DEFINE R == OpToRel(<, Nat)
  <1>1. IsWellFoundedOn(R, Nat)
    BY NatLessThanWellFounded
  <1>2. \A m, n \in Nat : <<m, n>> \in R <=> m < n
    BY DEF OpToRel
  <1> HIDE DEF R
  <1>3. PICK n \in S : \A m \in S : <<m, n>> \notin R
    BY <1>1, WFMin
  <1>4. n \in Nat /\ \A m \in S : m \in Nat /\ ~(m < n)
    BY <1>2, <1>3
  <1> QED
    BY <1>3, <1>4

\* Sums exist: they are defined on the sets of at most n elements for all n.
LEMMA SumExists ==
    ASSUME NEW f, NEW S, IsFiniteSet(S)
    PROVE  \E g : IsSum(g, f, S)
  <1> DEFINE Small(n) == {s \in SUBSET S : Cardinality(s) <= n}
             Step(g, n) == [s \in Small(n) |->
                               IF s = {} THEN 0 ELSE f[Choice(s)] + g[s \ {Choice(s)}]]
             Bad == {n \in Nat : ~ \E g : g = Step(g, n)}
  <1>1. \A s \in SUBSET S : IsFiniteSet(s) /\ Cardinality(s) \in Nat
    BY FS_Subset, FS_CardinalityType
  <1>2. Bad = {}
    <2> SUFFICES ASSUME Bad # {} PROVE FALSE
      OBVIOUS
    <2>1. PICK n \in Bad : \A m \in Bad : n <= m
      <3>1. Bad \in SUBSET Nat
        OBVIOUS
      <3> HIDE DEF Bad
      <3> QED
        BY <3>1, LeastOf
    <2>2. CASE n = 0
      <3>1. \A s \in Small(0) : s = {}
        BY <1>1, FS_EmptySet
      <3>2. [s \in Small(0) |-> 0] = Step([s \in Small(0) |-> 0], 0)
        BY <3>1
      <3> QED
        BY <2>1, <2>2, <3>2
    <2>3. CASE n # 0
      <3>1. n \in Nat /\ n - 1 \in Nat /\ n - 1 \notin Bad
        <4>1. n \in Nat /\ n - 1 \in Nat /\ ~(n <= n - 1)
          BY <2>3
        <4> HIDE DEF Bad
        <4> QED
          BY <2>1, <4>1
      <3>2. PICK g : g = Step(g, n - 1)
        BY <3>1
      <3> DEFINE h == Step(g, n)
      <3>3. ASSUME NEW s \in Small(n), s # {}
            PROVE  /\ s \ {Choice(s)} \in Small(n - 1) /\ s \ {Choice(s)} \in Small(n)
        <4>1. Choice(s) \in s
          BY <3>3, ChoiceIn
        <4>2. /\ s \ {Choice(s)} \in SUBSET S
              /\ Cardinality(s \ {Choice(s)}) = Cardinality(s) - 1
          BY <1>1, <4>1, FS_RemoveElement
        <4> QED
          BY <1>1, <3>1, <4>2
      <3>4. \A u \in Small(n - 1) : u \in Small(n)
        BY <1>1, <3>1
      <3>5. \A u \in Small(n - 1) : g[u] = IF u = {} THEN 0 ELSE f[Choice(u)] + g[u \ {Choice(u)}]
        <4> HIDE DEF Small
        <4> QED
          BY <3>2
      <3>6. \A u \in Small(n) : h[u] = IF u = {} THEN 0 ELSE f[Choice(u)] + g[u \ {Choice(u)}]
        <4> HIDE DEF Small
        <4> QED
          OBVIOUS
      <3>7. \A u \in Small(n - 1) : h[u] = g[u]
        BY ONLY <3>4, <3>5, <3>6
      <3>8. h = Step(h, n)
        <4> HIDE DEF Small
        <4>1. \A s \in Small(n) : h[s] = IF s = {} THEN 0 ELSE f[Choice(s)] + h[s \ {Choice(s)}]
          <5> HIDE DEF h
          <5> QED
            BY <3>3, <3>6, <3>7
        <4>2. h = [s \in Small(n) |-> h[s]]
          OBVIOUS
        <4> HIDE DEF h
        <4> QED
          BY <4>1, <4>2
      <3> QED
        BY <2>1, <3>8
    <2> QED
      BY <2>2, <2>3
  <1>3. Small(Cardinality(S)) = SUBSET S
    BY <1>1, FS_Subset
  <1>4. PICK g : g = Step(g, Cardinality(S))
    <2>1. Cardinality(S) \in Nat
      BY FS_CardinalityType
    <2> QED
      BY <1>2, <2>1
  <1>5. IsSum(g, f, S)
    <2> HIDE DEF Small
    <2> QED
      BY <1>3, <1>4 DEF IsSum
  <1> QED
    BY <1>5

LEMMA SumUnfolds ==
    ASSUME NEW g, NEW f, NEW S, IsSum(g, f, S)
    PROVE  /\ g[{}] = 0
           /\ \A s \in SUBSET S : s # {} =>
                 /\ Choice(s) \in s /\ s \ {Choice(s)} \in SUBSET S
                 /\ g[s] = f[Choice(s)] + g[s \ {Choice(s)}]
  <1>1. \A s \in SUBSET S : g[s] = IF s = {} THEN 0 ELSE f[Choice(s)] + g[s \ {Choice(s)}]
    BY DEF IsSum
  <1> QED
    BY <1>1, ChoiceIn

LEMMA SumType ==
    ASSUME NEW g, NEW f, NEW S, IsFiniteSet(S), IsSum(g, f, S), \A x \in S : f[x] \in Nat
    PROVE  \A T \in SUBSET S : g[T] \in Nat
  <1> DEFINE G == {T \in SUBSET S : g[T] \in Nat}
  <1>1. ASSUME NEW T \in SUBSET S, \A U \in SUBSET T : U # T => U \in G
        PROVE  T \in G
    <2>1. CASE T = {}
      BY <2>1, SumUnfolds
    <2>2. CASE T # {}
      <3>1. Choice(T) \in T /\ g[T] = f[Choice(T)] + g[T \ {Choice(T)}]
        BY <2>2, SumUnfolds
      <3>2. T \ {Choice(T)} \in G
        BY <1>1, <3>1
      <3> QED
        BY <3>1, <3>2
    <2> QED
      BY <2>1, <2>2
  <1> HIDE DEF G
  <1>2. \A T \in SUBSET S : T \in G
    BY <1>1, SubsetInduction
  <1> QED
    BY <1>2 DEF G

\* Any element can be taken out.
LEMMA SumTakes ==
    ASSUME NEW g, NEW f, NEW S, IsFiniteSet(S), IsSum(g, f, S), \A x \in S : f[x] \in Nat
    PROVE  \A T \in SUBSET S : \A x \in T : g[T] = f[x] + g[T \ {x}]
  <1> DEFINE G == {T \in SUBSET S : \A x \in T : g[T] = f[x] + g[T \ {x}]}
  <1>0. \A T \in SUBSET S : g[T] \in Nat
    BY SumType
  <1>1. ASSUME NEW T \in SUBSET S, \A U \in SUBSET T : U # T => U \in G, NEW x \in T
        PROVE  g[T] = f[x] + g[T \ {x}]
    <2> DEFINE c == Choice(T)
    <2>1. c \in T /\ g[T] = f[c] + g[T \ {c}]
      BY <1>1, SumUnfolds
    <2> HIDE DEF c
    <2>2. CASE x = c
      BY <2>1, <2>2
    <2>3. CASE x # c
      <3>1. T \ {c} \in G /\ T \ {x} \in G /\ x \in T \ {c} /\ c \in T \ {x}
        BY <1>1, <2>1, <2>3
      <3>2. g[T \ {c}] = f[x] + g[(T \ {c}) \ {x}] /\ g[T \ {x}] = f[c] + g[(T \ {x}) \ {c}]
        BY <3>1
      <3>3. (T \ {c}) \ {x} = (T \ {x}) \ {c} /\ (T \ {c}) \ {x} \in SUBSET S
        OBVIOUS
      <3>4. g[(T \ {c}) \ {x}] \in Nat /\ f[x] \in Nat /\ f[c] \in Nat
        BY <1>0, <2>1, <3>3
      <3> DEFINE rest == g[(T \ {c}) \ {x}]
      <3>5. g[T \ {c}] = f[x] + rest /\ g[T \ {x}] = f[c] + rest
        BY <3>2, <3>3
      <3>6. g[T] = f[c] + g[T \ {c}]
        BY <2>1
      <3>7. \A p, q, s, u, v, w \in Nat : u = q + s /\ v = p + s /\ w = p + u => w = q + v
        OBVIOUS
      <3>8. rest \in Nat /\ g[T \ {c}] \in Nat /\ g[T \ {x}] \in Nat /\ g[T] \in Nat
        BY <1>0, <3>4
      <3> QED
        BY ONLY <3>4, <3>5, <3>6, <3>7, <3>8
    <2> QED
      BY <2>2, <2>3
  <1>2. \A T \in SUBSET S : (\A U \in SUBSET T : U # T => U \in G) => T \in G
    BY <1>1
  <1> HIDE DEF G
  <1>3. \A T \in SUBSET S : T \in G
    BY <1>2, SubsetInduction
  <1> QED
    BY <1>3 DEF G

\* A sum of less is less.
LEMMA SumLeq ==
    ASSUME NEW g, NEW f, NEW S, IsSum(g, f, S), NEW h, NEW e, NEW R, IsSum(h, e, R),
           NEW T \in SUBSET S, T \in SUBSET R, IsFiniteSet(S), IsFiniteSet(R),
           \A x \in S : f[x] \in Nat, \A x \in R : e[x] \in Nat, \A x \in T : f[x] <= e[x]
    PROVE  g[T] <= h[T]
  <1> DEFINE G == {U \in SUBSET T : g[U] <= h[U]}
  <1>0. IsFiniteSet(T)
    BY FS_Subset
  <1>1. \A U \in SUBSET T : g[U] \in Nat /\ h[U] \in Nat
    BY SumType
  <1>2. ASSUME NEW U \in SUBSET T, \A V \in SUBSET U : V # U => V \in G
        PROVE  U \in G
    <2>1. CASE U = {}
      BY <2>1, SumUnfolds
    <2>2. CASE U # {}
      <3> DEFINE c == Choice(U)
      <3>1. c \in U /\ g[U] = f[c] + g[U \ {c}] /\ h[U] = e[c] + h[U \ {c}]
        <4>1. U \in SUBSET S /\ U \in SUBSET R
          OBVIOUS
        <4>2. c \in U /\ g[U] = f[c] + g[U \ {c}]
          BY <2>2, <4>1, SumUnfolds
        <4>3. IsSum(h, e, R)
          OBVIOUS
        <4>4. h[U] = e[c] + h[U \ {c}]
          BY ONLY <2>2, <4>1, <4>3, SumUnfolds
        <4> QED
          BY <4>2, <4>4
      <3> HIDE DEF c
      <3>2. U \ {c} \in G
        BY <1>2, <3>1
      <3>3. g[U \ {c}] <= h[U \ {c}] /\ f[c] <= e[c] /\ f[c] \in Nat /\ e[c] \in Nat
        BY <3>1, <3>2
      <3>4. g[U \ {c}] \in Nat /\ h[U \ {c}] \in Nat
        BY <1>1
      <3> QED
        BY <3>1, <3>3, <3>4
    <2> QED
      BY <2>1, <2>2
  <1> HIDE DEF G
  <1>3. \A U \in SUBSET T : U \in G
    BY <1>0, <1>2, SubsetInduction
  <1> QED
    BY <1>3 DEF G

-----------------------------------------------------------------------------
(* What the attempts of a day cost.                                        *)

\* The attempts that jobs J with histories h started on day d, and what each of
\* them may have cost.
OnDay(h, d, J) ==
    {p \in UNION {{j} \X DOMAIN h[j] : j \in J} : Day(h[p[1]][p[2]].startedAt) = d}
Charges(h, d, J) == [p \in OnDay(h, d, J) |-> MostCharged(h[p[1]][p[2]])]

\* No day costs more than the budget.
Within(h, budget, J) ==
    \A d \in Nat : \A g : IsSum(g, Charges(h, d, J), OnDay(h, d, J))
                             => g[OnDay(h, d, J)] <= budget

Written == [Jobs -> Seq(Attempt)]

LEMMA ChargeFacts ==
    ASSUME NEW a \in Attempt
    PROVE  /\ MostCharged(a) \in Nat /\ AccountedTokens(a) = MostCharged(a)
           /\ a.startedAt \in Nat
  <1>1. a.tokens \in Nat /\ a.status \in AttemptStatus /\ a.startedAt \in Nat
    BY AttemptFields
  <1>2. ReservedTokens \in Nat
    BY CounterAssumption
  <1>3. a.tokens = 0 <=> ~(a.tokens > 0)
    BY <1>1
  <1> QED
    BY <1>1, <1>2, <1>3 DEF MostCharged, AccountedTokens, AttemptStatus

LEMMA OnDayFacts ==
    ASSUME NEW h \in Written, NEW J \in SUBSET Jobs, NEW d
    PROVE  /\ \A p \in OnDay(h, d, J) :
                 /\ p[1] \in J /\ p[2] \in DOMAIN h[p[1]] /\ p = <<p[1], p[2]>>
                 /\ h[p[1]][p[2]] \in Attempt /\ Day(h[p[1]][p[2]].startedAt) = d
                 /\ Charges(h, d, J)[p] = MostCharged(h[p[1]][p[2]])
                 /\ Charges(h, d, J)[p] \in Nat
           /\ \A j \in J : \A n \in DOMAIN h[j] :
                 Day(h[j][n].startedAt) = d => <<j, n>> \in OnDay(h, d, J)
           /\ IsFiniteSet(OnDay(h, d, J))
  <1>1. \A p \in OnDay(h, d, J) :
           /\ p[1] \in J /\ p[2] \in DOMAIN h[p[1]] /\ p = <<p[1], p[2]>>
           /\ Day(h[p[1]][p[2]].startedAt) = d
    BY DEF OnDay
  <1>2. \A j \in J : \A n \in DOMAIN h[j] : h[j][n] \in Attempt
    BY Elements DEF Written
  <1>3. \A p \in OnDay(h, d, J) :
           /\ h[p[1]][p[2]] \in Attempt
           /\ Charges(h, d, J)[p] = MostCharged(h[p[1]][p[2]])
           /\ Charges(h, d, J)[p] \in Nat
    <2>1. \A p \in OnDay(h, d, J) : Charges(h, d, J)[p] = MostCharged(h[p[1]][p[2]])
      BY DEF Charges
    <2> QED
      BY <1>1, <1>2, <2>1, ChargeFacts
  <1>4. \A j \in J : \A n \in DOMAIN h[j] :
           Day(h[j][n].startedAt) = d => <<j, n>> \in OnDay(h, d, J)
    BY DEF OnDay
  <1>5. IsFiniteSet(OnDay(h, d, J))
    <2> DEFINE rows(j) == {j} \X DOMAIN h[j]
               R == {rows(j) : j \in J}
    <2>1. \A j \in J : IsFiniteSet(rows(j))
      <3> SUFFICES ASSUME NEW j \in J PROVE IsFiniteSet({j} \X DOMAIN h[j])
        OBVIOUS
      <3>1. DOMAIN h[j] = 1 .. Len(h[j]) /\ Len(h[j]) \in Nat
        BY Elements DEF Written
      <3>2. IsFiniteSet(DOMAIN h[j])
        BY <3>1, FS_Interval
      <3> QED
        BY <3>2, FS_Singleton, FS_Product
    <2>2. IsFiniteSet(J)
      BY JobsAssumption, FS_Subset
    <2>3. IsFiniteSet(R)
      <3> DEFINE F == [j \in J |-> rows(j)]
      <3>1. F \in Surjection(J, R)
        BY DEF Surjection
      <3> HIDE DEF F, R
      <3> QED
        BY <2>2, <3>1, FS_Surjection
    <2>4. \A T \in R : IsFiniteSet(T)
      BY <2>1
    <2>5. IsFiniteSet(UNION R)
      <3> HIDE DEF R
      <3> QED
        BY <2>3, <2>4, FS_UNION
    <2>6. OnDay(h, d, J) \in SUBSET UNION R
      BY DEF OnDay
    <2> HIDE DEF R
    <2> QED
      BY <2>5, <2>6, FS_Subset
  <1> QED
    BY <1>1, <1>3, <1>4, <1>5

\* The totals of the specification are sums.
LEMMA ChargedIsSum ==
    ASSUME TypeOK, NEW d, NEW J \in SUBSET Jobs
    PROVE  \E g : /\ IsSum(g, Charges(attempts, d, J), OnDay(attempts, d, J))
                  /\ TotalOn(MostCharged, d, J) = g[OnDay(attempts, d, J)]
  <1> DEFINE D == OnDay(attempts, d, J)
             f == Charges(attempts, d, J)
             Adds(iter) ==
                iter = [s \in SUBSET D |->
                           IF s = {} THEN 0
                           ELSE MostCharged(attempts[Choice(s)[1]][Choice(s)[2]])
                                   + iter[s \ {Choice(s)}]]
             it == CHOOSE iter : Adds(iter)
  <1>1. TotalOn(MostCharged, d, J) = it[D]
    BY Zenon DEF TotalOn, MapThenSumSet, MapThenFoldSet, OnDay, AttemptsOf, Choice
  <1>2. attempts \in Written
    BY DEF TypeOK, Written
  <1>3. IsFiniteSet(D) /\ \A p \in D : f[p] = MostCharged(attempts[p[1]][p[2]])
    <2>1. IsFiniteSet(D)
      BY <1>2, OnDayFacts
    <2>2. \A p \in D : f[p] = MostCharged(attempts[p[1]][p[2]])
      BY DEF Charges
    <2> QED
      BY <2>1, <2>2
  <1>4. \A g : Adds(g) <=> IsSum(g, f, D)
    <2> HIDE DEF D, f
    <2>1. \A s \in SUBSET D : s # {} =>
             MostCharged(attempts[Choice(s)[1]][Choice(s)[2]]) = f[Choice(s)]
      BY <1>3, ChoiceIn
    <2> QED
      BY <2>1 DEF IsSum
  <1>5. \E g : Adds(g)
    BY <1>3, <1>4, SumExists
  <1>6. Adds(it)
    <2> HIDE DEF Adds
    <2> QED
      BY <1>5, Zenon
  <1> QED
    BY <1>1, <1>4, <1>6

LEMMA SpentIsSum ==
    ASSUME TypeOK, NEW d, NEW J \in SUBSET Jobs
    PROVE  \E g : /\ IsSum(g, Charges(attempts, d, J), OnDay(attempts, d, J))
                  /\ SpentOn(d, J) = g[OnDay(attempts, d, J)]
  <1> DEFINE D == OnDay(attempts, d, J)
             f == Charges(attempts, d, J)
             Adds(iter) ==
                iter = [s \in SUBSET D |->
                           IF s = {} THEN 0
                           ELSE AccountedTokens(attempts[Choice(s)[1]][Choice(s)[2]])
                                   + iter[s \ {Choice(s)}]]
             it == CHOOSE iter : Adds(iter)
  <1>1. SpentOn(d, J) = it[D]
    BY Zenon DEF SpentOn, TotalOn, MapThenSumSet, MapThenFoldSet, OnDay, AttemptsOf, Choice
  <1>2. attempts \in Written
    BY DEF TypeOK, Written
  <1>3. IsFiniteSet(D) /\ \A p \in D : f[p] = AccountedTokens(attempts[p[1]][p[2]])
    <2>1. IsFiniteSet(D) /\ \A p \in D : attempts[p[1]][p[2]] \in Attempt
      BY <1>2, OnDayFacts
    <2>2. \A p \in D : f[p] = MostCharged(attempts[p[1]][p[2]])
      BY DEF Charges
    <2> QED
      BY <2>1, <2>2, ChargeFacts
  <1>4. \A g : Adds(g) <=> IsSum(g, f, D)
    <2> HIDE DEF D, f
    <2>1. \A s \in SUBSET D : s # {} =>
             AccountedTokens(attempts[Choice(s)[1]][Choice(s)[2]]) = f[Choice(s)]
      BY <1>3, ChoiceIn
    <2> QED
      BY <2>1 DEF IsSum
  <1>5. \E g : Adds(g)
    BY <1>3, <1>4, SumExists
  <1>6. Adds(it)
    <2> HIDE DEF Adds
    <2> QED
      BY <1>5, Zenon
  <1> QED
    BY <1>1, <1>4, <1>6

\* Attempts that keep their day and cost no more.
Cheaper(a, b) == b.startedAt = a.startedAt /\ MostCharged(b) <= MostCharged(a)

LEMMA CheaperWithin ==
    ASSUME NEW h \in Written, NEW k \in Written, NEW J \in SUBSET Jobs, NEW budget \in Nat,
           Within(h, budget, J),
           \A j \in J : /\ Len(k[j]) = Len(h[j])
                        /\ \A n \in DOMAIN h[j] : Cheaper(h[j][n], k[j][n])
    PROVE  Within(k, budget, J)
  <1> SUFFICES ASSUME NEW d \in Nat, NEW e, IsSum(e, Charges(k, d, J), OnDay(k, d, J))
               PROVE  e[OnDay(k, d, J)] <= budget
    BY DEF Within
  <1>1. OnDay(k, d, J) = OnDay(h, d, J)
    <2>1. \A j \in J : DOMAIN k[j] = DOMAIN h[j]
      <3>1. \A j \in J : h[j] \in Seq(Attempt) /\ k[j] \in Seq(Attempt)
        BY DEF Written
      <3> QED
        BY <3>1, Elements
    <2>2. \A p \in OnDay(h, d, J) : p \in OnDay(k, d, J)
      <3> SUFFICES ASSUME NEW p \in OnDay(h, d, J) PROVE p \in OnDay(k, d, J)
        OBVIOUS
      <3>1. p[1] \in J /\ p[2] \in DOMAIN h[p[1]] /\ p = <<p[1], p[2]>> /\ Day(h[p[1]][p[2]].startedAt) = d
        BY OnDayFacts
      <3> QED
        BY <2>1, <3>1, OnDayFacts DEF Cheaper
    <2>3. \A p \in OnDay(k, d, J) : p \in OnDay(h, d, J)
      <3> SUFFICES ASSUME NEW p \in OnDay(k, d, J) PROVE p \in OnDay(h, d, J)
        OBVIOUS
      <3>1. p[1] \in J /\ p[2] \in DOMAIN k[p[1]] /\ p = <<p[1], p[2]>> /\ Day(k[p[1]][p[2]].startedAt) = d
        BY OnDayFacts
      <3> QED
        BY <2>1, <3>1, OnDayFacts DEF Cheaper
    <2> QED
      BY <2>2, <2>3
  <1> DEFINE D == OnDay(h, d, J)
             f == Charges(h, d, J)
             c == Charges(k, d, J)
  <1>2. IsFiniteSet(D)
    BY OnDayFacts
  <1>3. PICK g : IsSum(g, f, D)
    BY <1>2, SumExists
  <1>4. \A p \in D : f[p] \in Nat /\ f[p] = MostCharged(h[p[1]][p[2]]) /\ p[1] \in J /\ p[2] \in DOMAIN h[p[1]]
    BY OnDayFacts
  <1>5. \A p \in D : c[p] \in Nat /\ c[p] = MostCharged(k[p[1]][p[2]])
    BY <1>1, OnDayFacts
  <1>6. \A p \in D : c[p] <= f[p]
    BY <1>4, <1>5 DEF Cheaper
  <1>7. IsSum(e, c, D) /\ g[D] <= budget
    BY <1>1, <1>3 DEF Within
  <1> HIDE DEF D, f, c
  <1>8. e[D] <= g[D]
    BY <1>2, <1>3, <1>4, <1>5, <1>6, <1>7, SumLeq
  <1>9. e[D] \in Nat /\ g[D] \in Nat
    BY <1>2, <1>3, <1>4, <1>5, <1>7, SumType
  <1> QED
    BY <1>1, <1>7, <1>8, <1>9 DEF D

\* A reservation is made only where the sum leaves room for it.
LEMMA ReservedWithin ==
    ASSUME NEW h \in Written, NEW j \in Jobs, NEW r \in Attempt, NEW J \in SUBSET Jobs,
           NEW budget \in Nat, Within(h, budget, J), MostCharged(r) = ReservedTokens,
           j \in J => \E g : /\ IsSum(g, Charges(h, Day(r.startedAt), J),
                                         OnDay(h, Day(r.startedAt), J))
                             /\ g[OnDay(h, Day(r.startedAt), J)] + ReservedTokens <= budget
    PROVE  Within([h EXCEPT ![j] = Append(h[j], r)], budget, J)
  <1> DEFINE k == [h EXCEPT ![j] = Append(h[j], r)]
             n == Len(h[j]) + 1
  <1>1. /\ k \in Written
        /\ \A i \in Jobs : k[i] = IF i = j THEN Append(h[j], r) ELSE h[i]
        /\ n \in Nat /\ DOMAIN h[j] = 1 .. (n - 1) /\ n \notin DOMAIN h[j]
        /\ DOMAIN k[j] = 1 .. n /\ n \in DOMAIN k[j] /\ k[j][n] = r
        /\ \A m \in DOMAIN h[j] : k[j][m] = h[j][m] /\ m \in DOMAIN k[j]
    <2>1. h[j] \in Seq(Attempt)
      BY DEF Written
    <2>2. /\ Append(h[j], r) \in Seq(Attempt) /\ DOMAIN Append(h[j], r) = 1 .. n
          /\ Append(h[j], r)[n] = r
          /\ \A m \in DOMAIN h[j] : Append(h[j], r)[m] = h[j][m]
          /\ n \in Nat /\ DOMAIN h[j] = 1 .. (n - 1) /\ n \notin DOMAIN h[j]
      BY <2>1, Appending, Elements
    <2>3. k \in Written /\ \A i \in Jobs : k[i] = IF i = j THEN Append(h[j], r) ELSE h[i]
      BY <2>2 DEF Written
    <2>4. n \in 1 .. n /\ \A m \in DOMAIN h[j] : m \in 1 .. n
      <3>1. Len(h[j]) \in Nat
        BY <2>1, Elements
      <3> QED
        BY <2>2, <3>1
    <2> QED
      BY <2>2, <2>3, <2>4
  <1> HIDE DEF k, n
  <1> SUFFICES ASSUME NEW d \in Nat, NEW e, IsSum(e, Charges(k, d, J), OnDay(k, d, J))
               PROVE  e[OnDay(k, d, J)] <= budget
    BY DEF Within, k
  <1> DEFINE D == OnDay(h, d, J)
             E == OnDay(k, d, J)
             f == Charges(h, d, J)
             c == Charges(k, d, J)
             here == j \in J /\ Day(r.startedAt) = d
  <1>2. IsFiniteSet(D) /\ IsFiniteSet(E)
    BY <1>1, OnDayFacts
  <1>3. \A p \in D : p \in E /\ f[p] \in Nat /\ c[p] \in Nat /\ c[p] = f[p] /\ p # <<j, n>>
    <2> SUFFICES ASSUME NEW p \in D
                 PROVE  p \in E /\ f[p] \in Nat /\ c[p] \in Nat /\ c[p] = f[p] /\ p # <<j, n>>
      OBVIOUS
    <2>1. /\ p[1] \in J /\ p[2] \in DOMAIN h[p[1]] /\ p = <<p[1], p[2]>>
          /\ Day(h[p[1]][p[2]].startedAt) = d
          /\ f[p] = MostCharged(h[p[1]][p[2]]) /\ f[p] \in Nat
      BY OnDayFacts
    <2>2. p[2] \in DOMAIN k[p[1]] /\ k[p[1]][p[2]] = h[p[1]][p[2]]
      BY <1>1, <2>1
    <2>3. p \in E
      BY <1>1, <2>1, <2>2, OnDayFacts
    <2>4. c[p] = MostCharged(k[p[1]][p[2]])
      BY <1>1, <2>3, OnDayFacts
    <2>5. p # <<j, n>>
      BY <1>1, <2>1
    <2> QED
      BY <2>1, <2>2, <2>3, <2>4, <2>5
  <1>4. \A p \in E : c[p] \in Nat /\ (p \in D \/ (here /\ p = <<j, n>>))
    <2> SUFFICES ASSUME NEW p \in E
                 PROVE  c[p] \in Nat /\ (p \in D \/ (here /\ p = <<j, n>>))
      OBVIOUS
    <2>1. /\ p[1] \in J /\ p[2] \in DOMAIN k[p[1]] /\ p = <<p[1], p[2]>>
          /\ Day(k[p[1]][p[2]].startedAt) = d /\ c[p] \in Nat
      BY <1>1, OnDayFacts
    <2>2. CASE p[1] = j /\ p[2] = n
      BY <1>1, <2>1, <2>2
    <2>3. CASE ~(p[1] = j /\ p[2] = n)
      <3>1. CASE p[1] = j
        <4>1. p[2] \in 1 .. n /\ p[2] # n
          BY <1>1, <2>1, <2>3, <3>1
        <4>2. p[2] \in 1 .. (n - 1)
          BY <1>1, <4>1
        <4>3. p[2] \in DOMAIN h[j] /\ k[j][p[2]] = h[j][p[2]]
          BY <1>1, <4>2
        <4> QED
          BY <2>1, <3>1, <4>3, OnDayFacts
      <3>2. CASE p[1] # j
        <4>1. k[p[1]] = h[p[1]]
          BY <1>1, <2>1, <3>2
        <4> QED
          BY <2>1, <4>1, OnDayFacts
      <3> QED
        BY <3>1, <3>2
    <2> QED
      BY <2>2, <2>3
  <1>5. here => <<j, n>> \in E /\ c[<<j, n>>] = ReservedTokens
    <2> SUFFICES ASSUME here PROVE <<j, n>> \in E /\ c[<<j, n>>] = ReservedTokens
      OBVIOUS
    <2>1. n \in DOMAIN k[j] /\ k[j][n] = r
      BY <1>1
    <2>2. <<j, n>> \in E
      BY <1>1, <2>1, OnDayFacts
    <2> QED
      BY <2>1, <2>2 DEF Charges
  <1>6. PICK g : IsSum(g, f, D)
    BY <1>2, SumExists
  <1>7. here => \E q : IsSum(q, f, D) /\ q[D] + ReservedTokens <= budget
    OBVIOUS
  <1>8. IsSum(e, c, E) /\ g[D] <= budget
    BY <1>6 DEF Within
  <1>9. ReservedTokens \in Nat
    BY CounterAssumption
  <1> HIDE DEF D, E, f, c
  <1>10. D \in SUBSET E /\ e[D] \in Nat /\ e[E] \in Nat
    BY <1>2, <1>3, <1>4, <1>8, SumType
  <1>11. \A q : IsSum(q, f, D) => q[D] \in Nat /\ e[D] <= q[D]
    <2> SUFFICES ASSUME NEW q, IsSum(q, f, D) PROVE q[D] \in Nat /\ e[D] <= q[D]
      OBVIOUS
    <2>1. q[D] \in Nat
      BY <1>2, <1>3, SumType
    <2>2. \A p \in D : c[p] <= f[p]
      BY <1>3
    <2>3. D \in SUBSET D
      OBVIOUS
    <2>4. e[D] <= q[D]
      BY ONLY <1>2, <1>3, <1>4, <1>8, <1>10, <2>2, <2>3, IsSum(q, f, D), SumLeq
    <2> QED
      BY <2>1, <2>4
  <1>12. CASE ~here
    <2>1. E = D
      BY <1>3, <1>4, <1>12
    <2> QED
      BY <1>6, <1>8, <1>10, <1>11, <2>1 DEF E
  <1>13. CASE here
    <2>1. E \ {<<j, n>>} = D
      BY <1>3, <1>4, <1>5, <1>13
    <2>2. <<j, n>> \in E /\ E \in SUBSET E
      BY <1>5, <1>13
    <2>3. e[E] = c[<<j, n>>] + e[E \ {<<j, n>>}]
      BY <1>2, <1>4, <1>8, <2>2, SumTakes
    <2>4. e[E] = ReservedTokens + e[D]
      BY <1>5, <1>13, <2>1, <2>3
    <2>5. PICK q : IsSum(q, f, D) /\ q[D] + ReservedTokens <= budget
      BY <1>7, <1>13
    <2>6. q[D] \in Nat /\ e[D] <= q[D]
      BY <1>11, <2>5
    <2>7. e[E] <= budget
      BY <1>9, <1>10, <2>4, <2>5, <2>6
    <2> QED
      BY <2>7 DEF E
  <1> QED
    BY <1>12, <1>13

(* No day costs more than the daily budget, and the calls of no agent more *)
(* than its own: of any day, so that it can be carried from step to step.  *)
BInv ==
    /\ HInv
    /\ Within(attempts, DailyTokenBudget, Jobs)
    /\ \A a \in Agents : Within(attempts, AgentTokenBudget[a], JobsOf(a))

LEMMA BudgetFacts ==
    ASSUME BInv
    PROVE  /\ TypeOK /\ attempts \in Written /\ now \in Nat
           /\ DailyTokenBudget \in Nat /\ \A a \in Agents : AgentTokenBudget[a] \in Nat
           /\ \A a : JobsOf(a) \in SUBSET Jobs
  BY HFacts, ProviderAssumption DEF BInv, TypeOK, Written, JobsOf

\* An accepted change of an attempt makes it no dearer.
LEMMA AcceptedCheaper ==
    ASSUME NEW a \in Attempt, NEW b \in Attempt,
           Columns(b) = Columns(a) \/ ValidateGenerationAttemptTransition(a, b)
    PROVE  Cheaper(a, b)
  <1>1. /\ a.tokens \in Nat /\ b.tokens \in Nat /\ ReservedTokens \in Nat
        /\ a.startedAt \in Nat /\ b.startedAt \in Nat
    BY AttemptFields, CounterAssumption
  <1>2. CASE Columns(b) = Columns(a)
    <2>1. /\ b.startedAt = a.startedAt /\ b.status = a.status /\ b.tokens = a.tokens
          /\ b.errorCode = a.errorCode
      BY <1>2, ColumnsEqual
    <2>2. MostCharged(b) = MostCharged(a) /\ MostCharged(a) \in Nat
      BY <2>1, ChargeFacts DEF MostCharged
    <2> QED
      BY <2>1, <2>2 DEF Cheaper
  <1>3. CASE ValidateGenerationAttemptTransition(a, b)
    <2>1. b.startedAt = a.startedAt /\ a.status = "reserved" /\ b.tokens <= ReservedTokens
      BY <1>3 DEF ValidateGenerationAttemptTransition, ValidAttempt
    <2>2. MostCharged(a) = ReservedTokens /\ MostCharged(b) <= ReservedTokens
      BY <1>1, <2>1 DEF MostCharged
    <2> QED
      BY <2>1, <2>2 DEF Cheaper
  <1> QED
    BY <1>2, <1>3

\* Only a reservation adds an attempt.
LEMMA OnlyReservationsAdd ==
    ASSUME AInv, [Next]_vars, \A w \in Workers : ~ReserveGeneration(w)
    PROVE  \A j \in Jobs : Len(attempts'[j]) = Len(attempts[j])
  <1>1. Quiet => \A j \in Jobs : Len(attempts'[j]) = Len(attempts[j])
    BY DEF Quiet, QuietAttempts
  <1>2. attempts \in [Jobs -> Seq(Attempt)]
    BY AInvFacts DEF TypeOK
  <1>3. ASSUME NEW w \in Workers, PublishGeneration(w)
        PROVE  attempts' = attempts
    BY <1>3 DEF PublishGeneration
  <1>4. ASSUME NEW w \in Workers, StartCall(w)
        PROVE  \A j \in Jobs : Len(attempts'[j]) = Len(attempts[j])
    <2> DEFINE i == worker[w].job
               g == [attempts[i] EXCEPT ![worker[w].attempt].calls = @ + 1]
    <2>1. attempts' = [attempts EXCEPT ![i] = g]
      BY <1>4 DEF StartCall
    <2>2. i \in Jobs => attempts[i] \in Seq(Attempt)
      BY <1>2
    <2>3. i \in Jobs => Len(g) = Len(attempts[i])
      BY <2>2
    <2> HIDE DEF g
    <2> QED
      BY <1>2, <2>1, <2>3
  <1>5. ASSUME NEW a \in Agents, PauseAgent(a)
        PROVE  \A j \in Jobs : Len(attempts'[j]) = Len(attempts[j])
    <2> DEFINE g(j) == [n \in DOMAIN attempts[j] |->
                           IF AgentOf[j] = a /\ job[j].status # "succeeded"
                           THEN [attempts[j][n] EXCEPT !.fenced = TRUE]
                           ELSE attempts[j][n]]
    <2>1. attempts' = [j \in Jobs |-> g(j)]
      BY <1>5 DEF PauseAgent
    <2>2. \A j \in Jobs : DOMAIN attempts[j] = 1 .. Len(attempts[j]) /\ Len(attempts[j]) \in Nat
      BY <1>2, Elements
    <2>3. \A j \in Jobs : DOMAIN g(j) = 1 .. Len(attempts[j])
      BY <2>2
    <2> HIDE DEF g
    <2>4. \A j \in Jobs : Len(g(j)) = Len(attempts[j])
      BY <2>2, <2>3
    <2> QED
      BY <2>1, <2>4
  <1>6. ASSUME NEW w \in Workers, Proceed(w)
        PROVE  \A j \in Jobs : Len(attempts'[j]) = Len(attempts[j])
    BY <1>1, <1>3, <1>4, <1>6, RecoverGenerationAttemptsQuiet, ExpireGenerationJobsQuiet,
       ClaimGenerationQuiet, ReadPriorQuiet, AcknowledgePriorQuiet,
       GenerationContextQuiet, ProviderReturnsQuiet, SettleGenerationQuiet, ReadLatestQuiet,
       CompleteGenerationQuiet, DenyGenerationQuiet, SettleCancelledQuiet
       DEF Proceed
  <1>7. ASSUME NEW w \in Workers, Disturb(w)
        PROVE  \A j \in Jobs : Len(attempts'[j]) = Len(attempts[j])
    BY <1>1, <1>7, RenewGenerationQuiet, DisturbQuiet DEF Disturb
  <1>8. CASE Control
    BY <1>1, <1>5, <1>8, SettingQuiet, RemoveSourceQuiet, RetryGenerationQuiet DEF Control
  <1>9. CASE Tick \/ UNCHANGED vars
    BY <1>1, <1>9, SettingQuiet
  <1> QED
    BY <1>6, <1>7, <1>8, <1>9 DEF Next

\* What an admitted reservation leaves of the budgets.
LEMMA RoomLeft ==
    ASSUME BInv, NEW j \in Jobs, BudgetAllows(AgentOf[j]),
           NEW J \in SUBSET Jobs, NEW budget,
           \/ J = Jobs /\ budget = DailyTokenBudget
           \/ J = JobsOf(AgentOf[j]) /\ budget = AgentTokenBudget[AgentOf[j]]
    PROVE  \E g : /\ IsSum(g, Charges(attempts, Day(now), J), OnDay(attempts, Day(now), J))
                  /\ g[OnDay(attempts, Day(now), J)] + ReservedTokens <= budget
  <1>1. SpentOn(Day(now), J) + ReservedTokens <= budget
    BY DEF BudgetAllows
  <1>2. \E g : /\ IsSum(g, Charges(attempts, Day(now), J), OnDay(attempts, Day(now), J))
               /\ SpentOn(Day(now), J) = g[OnDay(attempts, Day(now), J)]
    BY BudgetFacts, SpentIsSum
  <1> QED
    BY <1>1, <1>2

LEMMA ReserveGenerationBudget ==
    ASSUME BInv, HInv', NEW w \in Workers, ReserveGeneration(w)
    PROVE  BInv'
  <1> DEFINE j == worker[w].job
             v == worker[w].version
             r == Reservation(j, v)
  <1>1. j \in Jobs /\ v \in Nat
    <2>1. worker[w].pc = "reserve" /\ worker[w].pc # "idle"
      BY DEF ReserveGeneration
    <2> QED
      BY <2>1, WorkerNames DEF WorkerState, BInv
  <1>2. CASE attempts' = attempts
    BY <1>2 DEF BInv, Within, OnDay, Charges
  <1>3. CASE attempts' # attempts
    <2>1. /\ attempts' = [attempts EXCEPT ![j] = Append(attempts[j], r)]
          /\ BudgetAllows(AgentOf[j])
      <3>1. PICK policy \in BOOLEAN :
               /\ Admission(j, v, policy) = "admitted"
               /\ attempts' = [attempts EXCEPT ![j] = Append(attempts[j], r)]
        BY <1>3 DEF ReserveGeneration
      <3>2. BudgetAllows(AgentOf[j])
        BY <3>1 DEF Admission
      <3> QED
        BY <3>1, <3>2
    <2>2. r \in Attempt /\ r.startedAt = now /\ MostCharged(r) = ReservedTokens
      <3>1. r \in Attempt /\ r.startedAt = now /\ r.status = "reserved"
        BY <1>1, ReservationMade DEF BInv
      <3> QED
        BY <3>1 DEF MostCharged
    <2> HIDE DEF j, v, r
    <2>3. Within(attempts', DailyTokenBudget, Jobs)
      <3>1. Within(attempts, DailyTokenBudget, Jobs)
        BY DEF BInv
      <3>2. \E g : /\ IsSum(g, Charges(attempts, Day(now), Jobs), OnDay(attempts, Day(now), Jobs))
                   /\ g[OnDay(attempts, Day(now), Jobs)] + ReservedTokens <= DailyTokenBudget
        BY <1>1, <2>1, RoomLeft
      <3> QED
        BY <1>1, <2>1, <2>2, <3>1, <3>2, BudgetFacts, ReservedWithin
    <2>4. ASSUME NEW a \in Agents PROVE Within(attempts', AgentTokenBudget[a], JobsOf(a))
      <3>1. Within(attempts, AgentTokenBudget[a], JobsOf(a))
        BY DEF BInv
      <3>2. j \in JobsOf(a) =>
               \E g : /\ IsSum(g, Charges(attempts, Day(now), JobsOf(a)),
                                  OnDay(attempts, Day(now), JobsOf(a)))
                      /\ g[OnDay(attempts, Day(now), JobsOf(a))] + ReservedTokens
                            <= AgentTokenBudget[a]
        <4> SUFFICES ASSUME AgentOf[j] = a
                     PROVE  \E g : /\ IsSum(g, Charges(attempts, Day(now), JobsOf(a)),
                                               OnDay(attempts, Day(now), JobsOf(a)))
                                   /\ g[OnDay(attempts, Day(now), JobsOf(a))] + ReservedTokens
                                         <= AgentTokenBudget[a]
          BY DEF JobsOf
        <4> QED
          BY <1>1, <2>1, BudgetFacts, RoomLeft
      <3>3. AgentTokenBudget[a] \in Nat /\ JobsOf(a) \in SUBSET Jobs /\ attempts \in Written
        BY BudgetFacts
      <3> QED
        BY <1>1, <2>1, <2>2, <3>1, <3>2, <3>3, ReservedWithin
    <2> QED
      BY <2>3, <2>4 DEF BInv, JobsOf
  <1> QED
    BY <1>2, <1>3

LEMMA InitBInv == Init => BInv
  <1> SUFFICES ASSUME Init PROVE BInv
    OBVIOUS
  <1>1. HInv
    BY InitHInv
  <1>2. DailyTokenBudget \in Nat /\ \A a \in Agents : AgentTokenBudget[a] \in Nat
    BY ProviderAssumption
  <1>3. ASSUME NEW J \in SUBSET Jobs, NEW budget \in Nat PROVE Within(attempts, budget, J)
    <2>1. \A j \in J : DOMAIN attempts[j] = {}
      BY DEF Init
    <2>2. \A d : OnDay(attempts, d, J) = {}
      BY <2>1 DEF OnDay
    <2> SUFFICES ASSUME NEW d \in Nat, NEW g,
                        IsSum(g, Charges(attempts, d, J), OnDay(attempts, d, J))
                 PROVE  g[OnDay(attempts, d, J)] <= budget
      BY DEF Within
    <2>3. g[{}] = 0
      BY SumUnfolds
    <2> QED
      BY <2>2, <2>3
  <1>4. \A a : JobsOf(a) \in SUBSET Jobs
    BY DEF JobsOf
  <1> QED
    BY <1>1, <1>2, <1>3, <1>4 DEF BInv

LEMMA NextBInv == BInv /\ [Next]_vars => BInv'
  <1> SUFFICES ASSUME BInv, [Next]_vars PROVE BInv'
    OBVIOUS
  <1>1. HInv' /\ \A j \in Jobs : AttemptsAccepted(attempts[j], attempts'[j])
    BY NextHInv DEF BInv, Accepted
  <1>2. ASSUME NEW w \in Workers, ReserveGeneration(w) PROVE BInv'
    BY <1>1, <1>2, ReserveGenerationBudget
  <1>3. CASE \A w \in Workers : ~ReserveGeneration(w)
    <2>1. \A j \in Jobs : Len(attempts'[j]) = Len(attempts[j])
      BY <1>3, OnlyReservationsAdd DEF BInv, HInv
    <2>2. attempts \in Written /\ attempts' \in Written
      BY <1>1 DEF BInv, HInv, AInv, Inv, TypeOK, Written
    <2>3. ASSUME NEW j \in Jobs, NEW n \in DOMAIN attempts[j]
          PROVE  Cheaper(attempts[j][n], attempts'[j][n])
      <3>1. attempts[j] \in Seq(Attempt) /\ attempts'[j] \in Seq(Attempt)
        BY <2>2 DEF Written
      <3>2. n \in DOMAIN attempts'[j]
        BY <2>1, <3>1, Elements
      <3>3. attempts[j][n] \in Attempt /\ attempts'[j][n] \in Attempt
        BY <3>1, <3>2, Elements
      <3> QED
        BY <1>1, <3>3, AcceptedCheaper DEF AttemptsAccepted
    <2>4. ASSUME NEW J \in SUBSET Jobs, NEW budget \in Nat, Within(attempts, budget, J)
          PROVE  Within(attempts', budget, J)
      BY <2>1, <2>2, <2>3, <2>4, CheaperWithin
    <2> QED
      BY <1>1, <2>4, BudgetFacts DEF BInv, JobsOf
  <1> QED
    BY <1>2, <1>3

\* The budgets of every day stand.
THEOREM Budgets == Spec => []BInv
  BY InitBInv, NextBInv, PTL DEF Spec

(* Whatever the provider charged for calls that timed out, were cancelled  *)
(* or were lost with their worker, the calls of a day stay within the      *)
(* daily budget and those of an agent within its own: a reservation is     *)
(* admitted only where the sum of the day leaves room for all of it, and   *)
(* settling, recovering or giving it up can only make it cheaper.          *)
THEOREM BudgetKept == Spec => []WithinBudget
  <1>1. BInv => WithinBudget
    <2> SUFFICES ASSUME BInv, NEW t \in 1 .. now
                 PROVE  /\ TotalOn(MostCharged, Day(t), Jobs) <= DailyTokenBudget
                        /\ \A a \in Agents :
                              TotalOn(MostCharged, Day(t), JobsOf(a)) <= AgentTokenBudget[a]
      BY DEF WithinBudget
    <2>1. Day(t) \in Nat
      <3>1. t \in Nat
        BY BudgetFacts
      <3> QED
        BY <3>1, TimeAssumption DEF Day
    <2>2. ASSUME NEW J \in SUBSET Jobs, NEW budget, Within(attempts, budget, J)
          PROVE  TotalOn(MostCharged, Day(t), J) <= budget
      <3>1. \E g : /\ IsSum(g, Charges(attempts, Day(t), J), OnDay(attempts, Day(t), J))
                   /\ TotalOn(MostCharged, Day(t), J) = g[OnDay(attempts, Day(t), J)]
        BY BudgetFacts, ChargedIsSum
      <3> QED
        BY <2>1, <2>2, <3>1 DEF Within
    <2> QED
      BY <2>2, BudgetFacts DEF BInv
  <1> QED
    BY <1>1, Budgets, PTL

=============================================================================
