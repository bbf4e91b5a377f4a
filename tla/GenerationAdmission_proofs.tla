---------------------- MODULE GenerationAdmission_proofs ----------------------
(***************************************************************************)
(* Why concurrent admission keeps its promises, for any number of agents,  *)
(* people, transactions and jobs: every row that a transaction counts or   *)
(* checks is under a lock that it holds to its commit, and all locks are   *)
(* taken in one order.                                                     *)
(***************************************************************************)
EXTENDS GenerationAdmission, FiniteSetTheorems, FunctionTheorems, WellFoundedInduction, TLAPS

\* The order of locks, by table and then by ID.
TableOrder(table) ==
    CASE table = "human" -> 1 [] table = "post" -> 2 [] table = "tag" -> 3
      [] table = "account" -> 4 [] table = "settings" -> 5 [] table = "job" -> 6

Below(r, s) ==
    \/ TableOrder(r[1]) < TableOrder(s[1])
    \/ r[1] = s[1] /\ r[2] < s[2]

Ordered(p) == \A i, j \in DOMAIN p : i < j => Below(p[i].row, p[j].row)

\* A lock that is held or still planned.
Taken(t) == tx[t].held \cup RangeOf(tx[t].plan)

\* The root of the chain that a continuation extends.
Root(t) == jobs[tx[t].parent].root

\* An action that some job mentions, and the posts that exist.
Used(n) == \E i \in Indexes : n = jobs[i].key \/ n = jobs[i].result

Known(p) == p > Cardinality(Posts) => Used(p - Cardinality(Posts))

\* Admission and slots have read their clock.
Counted(t) == tx[t].pc \in {"counted", "considered"} /\ ~Control(t)

-----------------------------------------------------------------------------
(* The invariant: transactions. *)

FieldsOK(t) ==
    /\ tx[t].op = "none" <=> tx[t].pc = "idle"
    /\ tx[t].pc = "idle" => tx[t] = Idle
    /\ tx[t].op = "schedule" => tx[t].pc # "source"
    /\ Control(t) => tx[t].pc = "considered"
    /\ Counted(t) => tx[t].plan = <<>>
    /\ Known(tx[t].post)
    /\ tx[t].op = "continue" => tx[t].post # 0

\* Locks are taken in their order, and only accounts are shared.
LocksOK(t) ==
    /\ Ordered(tx[t].plan)
    /\ \A l \in tx[t].held, m \in RangeOf(tx[t].plan) : Below(l.row, m.row)
    /\ \A l \in Taken(t) :
           /\ l.shared => l.row[1] = "account"
           /\ tx[t].pc = "source" => l.row[1] \in {"human", "post", "tag"}

\* What is going to be changed, or counted, is locked before.
RowsOK(t) ==
    /\ Human(t) => ForUpdate("human", tx[t].actor) \in Taken(t)
    /\ Continuation(t) =>
           /\ tx[t].parent \in Indexes
           /\ tx[t].actor = jobs[tx[t].parent].agent
           /\ tx[t].op = "continue" => jobs[tx[t].parent].finished > 0
           /\ tx[t].pc # "source" => JobUpdate(Root(t)) \in Taken(t)
           /\ tx[t].pc # "source" /\ tx[t].op = "publish" => JobUpdate(tx[t].parent) \in Taken(t)
    /\ tx[t].op = "schedule" =>
           \A a \in RangeOf(tx[t].candidates) : AccountShare(a) \in Taken(t)
    /\ tx[t].op \in {"pause", "resume"} => \A a \in tx[t].targets : SettingsUpdate(a) \in Taken(t)
    /\ tx[t].op = "disable" => \A a \in tx[t].targets : ForUpdate("account", a) \in Taken(t)

\* Admission holds the settings of accounts that are not disabled.
AccountsOK(t) ==
    Admission(t) =>
        \A a \in Agents : /\ Holds(t, "account", a) => ~disabled[a]
                          /\ Holds(t, "settings", a) => Holds(t, "account", a)

\* What was counted still is there.
CountedOK(t) ==
    Counted(t) =>
        /\ tx[t].clock \in 1..now
        /\ \A a \in Agents : Holds(t, "settings", a) =>
               \A i \in OfAgent(a) : jobs[i].created < tx[t].clock
        /\ Human(t) =>
               /\ \A i \in Indexes : jobs[i].actor = tx[t].actor /\ jobs[i].kind \in HumanKinds =>
                      jobs[i].created < tx[t].clock
               /\ EligibleAgents(t) # {} => tx[t].humanJobs = HumanJobs(t, tx[t].clock)
        /\ Continuation(t) =>
               /\ \A i \in Chain(Root(t)) : jobs[i].created < tx[t].clock
               /\ tx[t].chainJobs = ChainJobs(t)
        /\ tx[t].prior = PriorActionJobs(t)
        /\ tx[t].op = "publish" =>
               /\ Holds(t, "settings", tx[t].actor)
               /\ jobs[tx[t].parent].finished = 0
               /\ lastPublished[tx[t].actor] > 0 =>
                      tx[t].clock >= lastPublished[tx[t].actor] + Policy[tx[t].actor].spacing

\* The jobs that count against a new one of agent a.
SlotsToday(t, a) ==
    {i \in OfAgent(a) : jobs[i].kind = "scheduled" /\ Day(jobs[i].created) = Day(tx[t].clock)}

RepliesToday(t, a) ==
    {i \in OfAgent(a) : jobs[i].kind # "scheduled" /\ Day(jobs[i].created) = Day(tx[t].clock)}

InConversation(t, a) ==
    {i \in OfAgent(a) : jobs[i].kind # "scheduled" /\ jobs[i].post = tx[t].post}

OfHuman(t, window) ==
    {i \in Indexes : /\ jobs[i].actor = tx[t].actor
                     /\ jobs[i].kind \in HumanKinds
                     /\ jobs[i].created >= tx[t].clock - window}

\* A reply, also the last of the transaction, finds room in every quota.
ReplyFits(t, a) ==
    /\ \A i \in Indexes : SameCooldown(i, TriggerKind(t), tx[t].actor, a, tx[t].post)
                              => jobs[i].created < tx[t].clock - Policy[a].cooldown
    /\ Cardinality(RepliesToday(t, a)) < Policy[a].dailyCap
    /\ Policy[a].conversationCap > 0
    /\ tx[t].post # 0 => Cardinality(InConversation(t, a)) < Policy[a].conversationCap
    /\ PriorActionJobs(t) + Len(tx[t].chosen) <= Policy[a].triggerCap
    /\ Human(t) => Cardinality(OfHuman(t, Policy[a].humanWindow)) + Len(tx[t].chosen)
                       <= Policy[a].humanCap
    /\ Continuation(t) =>
           /\ jobs[tx[t].parent].depth + 1 <= jobs[Root(t)].maxDepth
           /\ ChainJobs(t) + Len(tx[t].chosen) <= jobs[Root(t)].maxJobs

Fits(t, a) ==
    /\ Ready(t, a) /\ ~disabled[a]
    /\ ~Unspaced(a, tx[t].clock)
    /\ tx[t].op = "schedule" => Cardinality(SlotsToday(t, a)) < Policy[a].scheduledCap
    /\ Admission(t) => ReplyFits(t, a)

ChosenOK(t) ==
    Counted(t) /\ tx[t].pc = "considered" =>
        \A a \in RangeOf(tx[t].chosen) : a \in RangeOf(tx[t].candidates) /\ Fits(t, a)

TxOK(t) == FieldsOK(t) /\ LocksOK(t) /\ RowsOK(t) /\ AccountsOK(t) /\ CountedOK(t) /\ ChosenOK(t)

\* A row is held by two transactions only if both share it.
Exclusive ==
    \A t, u \in Txs : t # u =>
        \A l \in tx[t].held, m \in tx[u].held : l.row = m.row => l.shared /\ m.shared

-----------------------------------------------------------------------------
(* The invariant: jobs. *)

JobsOK ==
    /\ Len(jobs) <= MaxJobs
    /\ \A i \in Indexes :
           /\ jobs[i].created <= now /\ jobs[i].root \in Indexes
           /\ jobs[i].finished = 0 <=> jobs[i].result = 0
           /\ jobs[i].finished <= lastPublished[jobs[i].agent]
           /\ Known(jobs[i].post)

AdmissionInv ==
    /\ TypeOK /\ JobsOK /\ Exclusive
    /\ \A t \in Txs : TxOK(t)
    /\ QuotasStand /\ ChainStands /\ PublicationsSpaced

-----------------------------------------------------------------------------
(* Numbers, finite sets and sequences.                                     *)

LEMMA LeastNumber ==
    ASSUME NEW S \in SUBSET Nat, S # {}
    PROVE  \E n \in S : \A m \in S : n <= m
  <1> DEFINE R == OpToRel(<, Nat)
  <1>1. IsWellFoundedOn(R, Nat)
    BY NatLessThanWellFounded
  <1>2. \A m, n \in Nat : <<m, n>> \in R <=> m < n
    BY DEF OpToRel
  <1> HIDE DEF R
  <1>3. PICK n \in S : \A m \in S : <<m, n>> \notin R
    BY <1>1, WFMin
  <1>4. \A m \in S : n <= m
    <2>1. n \in Nat /\ \A m \in S : m \in Nat /\ ~(m < n)
      BY <1>2, <1>3
    <2> QED
      BY <2>1
  <1> QED
    BY <1>4

LEMMA LeastIsLeast ==
    ASSUME NEW S \in SUBSET Nat, S # {}
    PROVE  Least(S) \in S /\ \A m \in S : Least(S) <= m
  BY LeastNumber DEF Least

\* A strict total order R on the elements of T.
Line(T, R) ==
    /\ \A x, y \in T : x # y => <<x, y>> \in R \/ <<y, x>> \in R
    /\ \A x, y, z \in T : <<x, y>> \in R /\ <<y, z>> \in R => <<x, z>> \in R
    /\ \A x \in T : <<x, x>> \notin R

\* The last element of a finite line is the one with the most elements before it.
LEMMA LastExists ==
    ASSUME NEW T, IsFiniteSet(T), T # {}, NEW R, Line(T, R)
    PROVE  \E x \in T : \A y \in T \ {x} : <<y, x>> \in R
  <1> DEFINE Above(x) == {y \in T : <<x, y>> \in R}
             Upper == {Above(x) : x \in T}
  <1>1. Upper \subseteq FiniteSubsetsOf(T) /\ Upper # {}
    <2>1. \A x \in T : Above(x) \in SUBSET T
      OBVIOUS
    <2>2. \A x \in T : IsFiniteSet(Above(x))
      BY <2>1, FS_Subset
    <2> QED
      BY <2>1, <2>2 DEF FiniteSubsetsOf
  <1>2. IsWellFoundedOn(StrictSubsetOrdering(T), FiniteSubsetsOf(T))
    BY FS_StrictSubsetOrderingWellFounded
  <1>3. PICK B \in Upper : \A C \in Upper : <<C, B>> \notin StrictSubsetOrdering(T)
    <2> HIDE DEF Upper
    <2> QED
      BY <1>1, <1>2, WFMin
  <1>4. PICK x \in T : B = Above(x)
    OBVIOUS
  <1>5. ASSUME NEW y \in T, <<x, y>> \in R PROVE FALSE
    <2>1. Above(y) \subseteq Above(x)
      BY <1>5 DEF Line
    <2>2. y \in Above(x) /\ y \notin Above(y)
      BY <1>5 DEF Line
    <2>3. Above(y) \in SUBSET T /\ Above(x) \in SUBSET T /\ Above(y) # Above(x)
      BY <2>2
    <2>4. <<Above(y), Above(x)>> \in StrictSubsetOrdering(T)
      <3> HIDE DEF Above
      <3> QED
        BY <2>1, <2>3 DEF StrictSubsetOrdering
    <2>5. Above(y) \in Upper
      OBVIOUS
    <2> QED
      BY <1>3, <1>4, <2>4, <2>5
  <1> QED
    BY <1>5 DEF Line

LEMMA GreatestNumber ==
    ASSUME NEW S \in SUBSET Nat, S # {}, IsFiniteSet(S)
    PROVE  \E n \in S : \A m \in S : n >= m
  <1> DEFINE R == OpToRel(<, Nat)
  <1>1. \A m, n \in Nat : <<m, n>> \in R <=> m < n
    BY DEF OpToRel
  <1> HIDE DEF R
  <1>2. Line(S, R)
    <2>1. \A x, y \in S : x \in Nat /\ y \in Nat
      OBVIOUS
    <2> QED
      BY <1>1, <2>1 DEF Line
  <1>3. PICK n \in S : \A m \in S \ {n} : <<m, n>> \in R
    BY <1>2, LastExists
  <1>4. \A m \in S : n >= m
    <2>1. n \in Nat /\ \A m \in S : m \in Nat /\ (m = n \/ m < n)
      BY <1>1, <1>3
    <2> QED
      BY <2>1
  <1> QED
    BY <1>4

LEMMA GreatestIsGreatest ==
    ASSUME NEW S \in SUBSET Nat, S # {}, IsFiniteSet(S)
    PROVE  Greatest(S) \in S /\ \A m \in S : Greatest(S) >= m
  BY GreatestNumber DEF Greatest

Increasing(s, n) == \A i, j \in 1..n : i < j => s[i] < s[j]

\* The enumeration of a finite set of numbers in their order.
LEMMA SortedExists ==
    ASSUME NEW S \in SUBSET Nat, IsFiniteSet(S)
    PROVE  \E s \in [1..Cardinality(S) -> S] : Increasing(s, Cardinality(S))
  <1> DEFINE Enumerated(T) == \E s \in [1..Cardinality(T) -> T] : Increasing(s, Cardinality(T))
             Bad == {T \in FiniteSubsetsOf(S) : ~Enumerated(T)}
  <1>1. SUFFICES Bad = {}
    <2>1. S \in FiniteSubsetsOf(S)
      BY DEF FiniteSubsetsOf
    <2> QED
      BY <1>1, <2>1
  <1>2. SUFFICES ASSUME Bad # {} PROVE FALSE
    OBVIOUS
  <1>3. PICK T \in Bad : \A U \in Bad : <<U, T>> \notin StrictSubsetOrdering(S)
    <2>1. IsWellFoundedOn(StrictSubsetOrdering(S), FiniteSubsetsOf(S))
      BY FS_StrictSubsetOrderingWellFounded
    <2>2. Bad \subseteq FiniteSubsetsOf(S)
      OBVIOUS
    <2> HIDE DEF Bad
    <2> QED
      BY <1>2, <2>1, <2>2, WFMin
  <1>4. T \in SUBSET S /\ IsFiniteSet(T) /\ ~Enumerated(T)
    BY DEF FiniteSubsetsOf
  <1>5. T # {}
    <2>1. SUFFICES ASSUME T = {} PROVE Enumerated({})
      BY <1>4
    <2>2. Cardinality({}) = 0
      BY FS_EmptySet
    <2>3. 1..0 = {}
      OBVIOUS
    <2>4. [x \in {} |-> x] \in [{} -> {}]
      OBVIOUS
    <2> QED
      BY <2>2, <2>3, <2>4 DEF Increasing
  <1>6. PICK m \in T : \A x \in T : m >= x
    BY <1>4, <1>5, GreatestNumber
  <1> DEFINE U == T \ {m}
             n == Cardinality(U)
  <1>7. IsFiniteSet(U) /\ n \in Nat /\ Cardinality(T) = n + 1
    <2>1. IsFiniteSet(U) /\ n = Cardinality(T) - 1
      BY <1>4, FS_RemoveElement
    <2>2. n \in Nat /\ Cardinality(T) \in Nat
      BY <1>4, <2>1, FS_CardinalityType
    <2> QED
      BY <2>1, <2>2
  <1>8. Enumerated(U)
    <2>1. <<U, T>> \in StrictSubsetOrdering(S)
      BY <1>4 DEF StrictSubsetOrdering
    <2>2. U \in FiniteSubsetsOf(S)
      BY <1>4, <1>7 DEF FiniteSubsetsOf
    <2>3. U \notin Bad
      BY <1>3, <2>1
    <2> QED
      BY <2>2, <2>3
  <1>9. PICK s \in [1..n -> U] : Increasing(s, n)
    BY <1>8
  <1> DEFINE r == [i \in 1..(n + 1) |-> IF i = n + 1 THEN m ELSE s[i]]
  <1> HIDE DEF n
  <1>10. r \in [1..(n + 1) -> T]
    BY <1>7, <1>9
  <1>11. Increasing(r, n + 1)
    <2>1. \A x \in U : x < m /\ x \in Nat
      BY <1>4, <1>6
    <2>2. SUFFICES ASSUME NEW i \in 1..(n + 1), NEW j \in 1..(n + 1), i < j PROVE r[i] < r[j]
      BY DEF Increasing
    <2>3. i \in 1..n /\ r[i] = s[i]
      BY <1>7, <2>2
    <2>4. CASE j = n + 1
      BY <1>9, <2>1, <2>3, <2>4
    <2>5. CASE j # n + 1
      <3>1. j \in 1..n /\ r[j] = s[j]
        BY <1>7, <2>5
      <3> QED
        BY <1>9, <2>2, <2>3, <3>1 DEF Increasing
    <2> QED
      BY <2>4, <2>5
  <1> HIDE DEF r
  <1> QED
    BY <1>4, <1>7, <1>10, <1>11

LEMMA SortedFacts ==
    ASSUME NEW S \in SUBSET Nat, IsFiniteSet(S)
    PROVE  /\ Cardinality(S) \in Nat
           /\ Sorted(S) \in [1..Cardinality(S) -> S]
           /\ Increasing(Sorted(S), Cardinality(S))
           /\ \A x \in S : \E i \in 1..Cardinality(S) : Sorted(S)[i] = x
  <1> DEFINE n == Cardinality(S)
  <1>1. n \in Nat
    BY FS_CardinalityType
  <1>2. Sorted(S) \in [1..n -> S] /\ Increasing(Sorted(S), n)
    <2>1. \E s \in [1..n -> S] : \A i, j \in 1..n : i < j => s[i] < s[j]
      BY SortedExists DEF Increasing
    <2> QED
      BY <2>1 DEF Sorted, Increasing
  <1>3. Sorted(S) \in Injection(1..n, S)
    <2>1. ASSUME NEW i \in 1..n, NEW j \in 1..n, Sorted(S)[i] = Sorted(S)[j] PROVE i = j
      <3>1. Sorted(S)[i] \in Nat /\ Sorted(S)[j] \in Nat
        BY <1>2
      <3>2. i < j => Sorted(S)[i] < Sorted(S)[j]
        BY <1>2 DEF Increasing
      <3>3. j < i => Sorted(S)[j] < Sorted(S)[i]
        BY <1>2 DEF Increasing
      <3> QED
        BY <1>1, <2>1, <3>1, <3>2, <3>3
    <2> QED
      BY <1>2, <2>1, Fun_IsInj
  <1>4. Cardinality(1..n) = n
    BY <1>1, FS_Interval
  <1>5. Sorted(S) \in Surjection(1..n, S)
    BY <1>3, <1>4, FS_Injection
  <1>6. \A x \in S : \E i \in 1..n : Sorted(S)[i] = x
    BY <1>5 DEF Surjection
  <1> QED
    BY <1>1, <1>2, <1>6

-----------------------------------------------------------------------------
(* Types. *)

LEMMA ScenarioFacts ==
    ASSUME scenario \in Scenarios
    PROVE  /\ Agents \subseteq Nat \ {0} /\ IsFiniteSet(Agents)
           /\ Humans \subseteq Nat \ {0}
           /\ scenario.tags \subseteq Nat /\ IsFiniteSet(scenario.tags)
           /\ Operations \subseteq AllOperations
           /\ MaxJobs \in Nat /\ MaxTime \in Nat /\ DayLength \in Nat \ {0}
  BY ScenarioAssumption DEF Agents, Humans, Operations, MaxJobs, MaxTime, DayLength

LEMMA PolicyFacts ==
    ASSUME scenario \in Scenarios, NEW a \in Agents
    PROVE  /\ Policy[a].spacing \in Nat \ {0} /\ Policy[a].cooldown \in Nat \ {0}
           /\ Policy[a].humanWindow \in Nat \ {0}
           /\ Policy[a].scheduledCap \in Nat /\ Policy[a].dailyCap \in Nat
           /\ Policy[a].conversationCap \in Nat /\ Policy[a].triggerCap \in Nat
           /\ Policy[a].humanCap \in Nat /\ Policy[a].chainDepth \in Nat
           /\ Policy[a].chainJobs \in Nat /\ Policy[a].chainDepth < Policy[a].chainJobs
  <1>1. /\ scenario.policy[a] \in PolicyType
        /\ scenario.policy[a].spacing > 0 /\ scenario.policy[a].cooldown > 0
        /\ scenario.policy[a].humanWindow > 0
        /\ scenario.policy[a].chainDepth < scenario.policy[a].chainJobs
    BY ScenarioAssumption DEF Agents
  <1> QED
    BY <1>1 DEF Policy, PolicyType

LEMMA PostsFacts == Cardinality(Posts) \in Nat /\ Posts = 1..Cardinality(Posts) /\ IsFiniteSet(Txs)
  BY IdentifierAssumption, FS_CardinalityType

LEMMA Elements ==
    ASSUME NEW S, NEW q \in Seq(S)
    PROVE  /\ Len(q) \in Nat /\ DOMAIN q = 1..Len(q)
           /\ \A i \in DOMAIN q : q[i] \in S
           /\ RangeOf(q) \subseteq S
           /\ q # <<>> <=> Len(q) > 0
  BY DEF RangeOf

LEMMA FunctionIsSeq ==
    ASSUME NEW T, NEW n \in Nat, NEW f \in [1..n -> T]
    PROVE  f \in Seq(T) /\ Len(f) = n
  OBVIOUS

LEMMA IndexFacts ==
    ASSUME TypeOK
    PROVE  /\ Len(jobs) \in Nat /\ DOMAIN jobs = Indexes /\ IsFiniteSet(Indexes)
           /\ \A i \in Indexes : i \in Nat /\ jobs[i] \in Job
  <1>1. jobs \in Seq(Job)
    BY DEF TypeOK
  <1>2. Len(jobs) \in Nat /\ DOMAIN jobs = 1..Len(jobs) /\ \A i \in DOMAIN jobs : jobs[i] \in Job
    BY <1>1, Elements
  <1>3. IsFiniteSet(1..Len(jobs))
    BY <1>2, FS_Interval
  <1> QED
    BY <1>2, <1>3 DEF Indexes

LEMMA JobFields ==
    ASSUME NEW j \in Job
    PROVE  /\ j.agent \in Agents /\ j.kind \in SocialKinds \cup {"scheduled"} /\ j.key \in Nat
           /\ j.actor \in Nat /\ j.post \in Nat /\ j.root \in 1..MaxJobs /\ j.depth \in Nat
           /\ j.maxDepth \in Nat /\ j.maxJobs \in Nat /\ j.created \in Nat /\ j.order \in Nat
           /\ j.finished \in Nat /\ j.result \in Nat
  BY DEF Job

LEMMA TxFields ==
    ASSUME NEW x \in Transaction
    PROVE  /\ x.pc \in {"idle", "source", "discovered", "counted", "considered"}
           /\ x.op \in Operations \cup {"none"} /\ x.actor \in Nat /\ x.post \in Nat
           /\ x.parent \in 0..MaxJobs /\ x.targets \in SUBSET Agents
           /\ x.candidates \in Rankings(Agents) /\ x.plan \in Seq(Lock) /\ x.held \in SUBSET Lock
           /\ x.clock \in Nat /\ x.chainJobs \in Nat /\ x.humanJobs \in Nat /\ x.prior \in Nat
           /\ x.chosen \in Rankings(Agents)
  BY DEF Transaction

LEMMA RankingFacts ==
    ASSUME NEW S, IsFiniteSet(S), NEW s \in Rankings(S)
    PROVE  /\ s \in Seq(S) /\ Len(s) \in Nat /\ DOMAIN s = 1..Len(s) /\ RangeOf(s) \subseteq S
           /\ Len(s) <= Cardinality(S)
           /\ \A i, j \in 1..Len(s) : i # j => s[i] # s[j]
  <1>1. PICK n \in 0..Cardinality(S) : s \in [1..n -> S] /\ \A i, j \in 1..n : i # j => s[i] # s[j]
    BY DEF Rankings
  <1>2. n \in Nat /\ n <= Cardinality(S)
    BY FS_CardinalityType
  <1>3. s \in Seq(S) /\ Len(s) = n
    BY <1>1, <1>2
  <1> QED
    BY <1>1, <1>2, <1>3 DEF RangeOf

\* Whatever has no repetition is a ranking: it is not longer than the set.
LEMMA IsRanking ==
    ASSUME NEW S, IsFiniteSet(S), NEW s \in Seq(S), \A i, j \in 1..Len(s) : i # j => s[i] # s[j]
    PROVE  s \in Rankings(S)
  <1>1. Len(s) \in Nat /\ s \in [1..Len(s) -> S]
    OBVIOUS
  <1>2. s \in Injection(1..Len(s), S)
    BY <1>1, Fun_IsInj
  <1>3. Cardinality(1..Len(s)) = Len(s)
    BY <1>1, FS_Interval
  <1>4. Len(s) <= Cardinality(S) /\ Cardinality(S) \in Nat
    BY <1>2, <1>3, FS_Injection, FS_CardinalityType
  <1>5. Len(s) \in 0..Cardinality(S)
    BY <1>1, <1>4
  <1> QED
    BY <1>1, <1>5 DEF Rankings

-----------------------------------------------------------------------------
(* Plans of locks. *)

Tables == {"human", "post", "tag", "account", "settings", "job"}

LEMMA RowFields ==
    ASSUME scenario \in Scenarios, NEW r \in Row
    PROVE  r[1] \in Tables /\ r[2] \in Nat /\ r = <<r[1], r[2]>>
  <1>1. Agents \subseteq Nat /\ Humans \subseteq Nat /\ scenario.tags \subseteq Nat /\ MaxJobs \in Nat
    BY ScenarioFacts
  <1>2. r \in Tables \X Nat
    <2>1. 1..MaxJobs \subseteq Nat
      BY <1>1
    <2>2. CASE r \in {"human"} \X Humans
      BY <1>1, <2>2 DEF Tables
    <2>3. CASE r \in {"tag"} \X scenario.tags
      BY <1>1, <2>3 DEF Tables
    <2>4. CASE r \in {"post"} \X Nat
      BY <2>4 DEF Tables
    <2>5. CASE r \in {"account", "settings"} \X Agents
      BY <1>1, <2>5 DEF Tables
    <2>6. CASE r \in {"job"} \X (1..MaxJobs)
      BY <2>1, <2>6 DEF Tables
    <2> QED
      BY <2>2, <2>3, <2>4, <2>5, <2>6 DEF Row
  <1> QED
    BY <1>2

LEMMA LockFields ==
    ASSUME NEW l \in Lock
    PROVE  l.row \in Row /\ l.shared \in BOOLEAN
  BY DEF Lock

LEMMA TableOrders ==
    ASSUME NEW t \in Tables, NEW u \in Tables
    PROVE  TableOrder(t) \in Nat /\ (TableOrder(t) = TableOrder(u) => t = u)
  BY DEF Tables, TableOrder

\* Below is a strict total order of the rows.
LEMMA BelowOrders ==
    ASSUME NEW q \in Tables \X Nat, NEW r \in Tables \X Nat, NEW s \in Tables \X Nat
    PROVE  /\ ~Below(q, q)
           /\ Below(q, r) /\ Below(r, s) => Below(q, s)
           /\ q # r => Below(q, r) \/ Below(r, q)
  <1>1. /\ q[1] \in Tables /\ r[1] \in Tables /\ s[1] \in Tables
        /\ q[2] \in Nat /\ r[2] \in Nat /\ s[2] \in Nat
        /\ q = <<q[1], q[2]>> /\ r = <<r[1], r[2]>>
    OBVIOUS
  <1>2. /\ TableOrder(q[1]) \in Nat /\ TableOrder(r[1]) \in Nat /\ TableOrder(s[1]) \in Nat
        /\ TableOrder(q[1]) = TableOrder(r[1]) => q[1] = r[1]
    BY <1>1, TableOrders
  <1>3. q # r => q[1] # r[1] \/ q[2] # r[2]
    BY <1>1
  <1> QED
    BY <1>1, <1>2, <1>3 DEF Below

\* The locks of the rows of one table, in the order of their IDs.
InOrder(table, shared, S) ==
    [i \in 1..Cardinality(S) |-> [row |-> <<table, Sorted(S)[i]>>, shared |-> shared]]

LEMMA LocksOfTable ==
    ASSUME NEW S \in SUBSET Nat, IsFiniteSet(S), NEW table, NEW shared
    PROVE  /\ Ordered(InOrder(table, shared, S))
           /\ \A l : l \in RangeOf(InOrder(table, shared, S)) <=>
                  \E x \in S : l = [row |-> <<table, x>>, shared |-> shared]
           /\ (\A x \in S : [row |-> <<table, x>>, shared |-> shared] \in Lock) =>
                  InOrder(table, shared, S) \in Seq(Lock)
  <1> DEFINE p == InOrder(table, shared, S)
             n == Cardinality(S)
             s == Sorted(S)
             L(x) == [row |-> <<table, x>>, shared |-> shared]
  <1>1. n \in Nat /\ s \in [1..n -> S] /\ Increasing(s, n) /\ \A x \in S : \E i \in 1..n : s[i] = x
    BY SortedFacts
  <1>2. DOMAIN p = 1..n /\ \A i \in 1..n : p[i] = L(s[i])
    BY DEF InOrder
  <1>3. \A x : L(x).row[1] = table /\ L(x).row[2] = x
    OBVIOUS
  <1>7. p = [i \in 1..n |-> L(s[i])]
    BY DEF InOrder
  <1> HIDE DEF n, s, L, p
  <1>4. Ordered(p)
    <2> SUFFICES ASSUME NEW i \in 1..n, NEW j \in 1..n, i < j PROVE Below(p[i].row, p[j].row)
      BY <1>2 DEF Ordered
    <2>1. s[i] < s[j] /\ p[i] = L(s[i]) /\ p[j] = L(s[j])
      BY <1>1, <1>2 DEF Increasing
    <2> QED
      BY <1>3, <2>1 DEF Below
  <1>5. \A l : l \in RangeOf(p) <=> \E x \in S : l = L(x)
    <2>1. RangeOf(p) = {L(s[i]) : i \in 1..n}
      BY <1>2, Zenon DEF RangeOf
    <2>2. \A i \in 1..n : s[i] \in S
      BY <1>1
    <2> QED
      BY <1>1, <2>1, <2>2, Zenon
  <1>6. (\A x \in S : L(x) \in Lock) => p \in Seq(Lock)
    <2> SUFFICES ASSUME \A x \in S : L(x) \in Lock PROVE p \in Seq(Lock)
      OBVIOUS
    <2>1. \A i \in 1..n : L(s[i]) \in Lock
      BY <1>1, Zenon
    <2>2. p \in [1..n -> Lock]
      BY <1>7, <2>1, Zenon
    <2> QED
      BY <1>1, <2>2, FunctionIsSeq
  <1> QED
    BY <1>4, <1>5, <1>6 DEF L, p

LEMMA ConcatPlans ==
    ASSUME NEW p \in Seq(Lock), NEW q \in Seq(Lock), Ordered(p), Ordered(q),
           \A l \in RangeOf(p), m \in RangeOf(q) : Below(l.row, m.row)
    PROVE  /\ p \o q \in Seq(Lock) /\ Ordered(p \o q)
           /\ RangeOf(p \o q) = RangeOf(p) \cup RangeOf(q)
  <1> DEFINE r == p \o q
  <1>1. /\ Len(p) \in Nat /\ Len(q) \in Nat /\ DOMAIN p = 1..Len(p) /\ DOMAIN q = 1..Len(q)
        /\ DOMAIN r = 1..(Len(p) + Len(q)) /\ r \in Seq(Lock)
        /\ \A i \in DOMAIN r : r[i] = IF i <= Len(p) THEN p[i] ELSE q[i - Len(p)]
    OBVIOUS
  <1>2. \A i \in DOMAIN r : IF i <= Len(p) THEN i \in DOMAIN p /\ r[i] = p[i]
                            ELSE i - Len(p) \in DOMAIN q /\ r[i] = q[i - Len(p)]
    BY <1>1
  <1>3. \A i \in DOMAIN p : i \in DOMAIN r /\ r[i] = p[i]
    BY <1>1
  <1>4. \A i \in DOMAIN q : i + Len(p) \in DOMAIN r /\ r[i + Len(p)] = q[i]
    BY <1>1
  <1> HIDE DEF r
  <1>5. RangeOf(r) = RangeOf(p) \cup RangeOf(q)
    BY <1>2, <1>3, <1>4 DEF RangeOf
  <1>6. Ordered(r)
    <2> SUFFICES ASSUME NEW i \in DOMAIN r, NEW j \in DOMAIN r, i < j PROVE Below(r[i].row, r[j].row)
      BY DEF Ordered
    <2>1. i \in Nat /\ j \in Nat
      BY <1>1
    <2>2. CASE j <= Len(p)
      <3>1. i <= Len(p)
        BY <1>1, <2>1, <2>2
      <3> QED
        BY <1>2, <2>2, <3>1 DEF Ordered
    <2>3. CASE i > Len(p)
      <3>1. ~(i <= Len(p)) /\ ~(j <= Len(p)) /\ i - Len(p) < j - Len(p)
        BY <1>1, <2>1, <2>3
      <3> QED
        BY <1>2, <3>1 DEF Ordered
    <2>4. CASE i <= Len(p) /\ ~(j <= Len(p))
      <3>1. r[i] \in RangeOf(p) /\ r[j] \in RangeOf(q)
        BY <1>2, <2>4 DEF RangeOf
      <3> QED
        BY <3>1
    <2> QED
      BY <1>1, <2>1, <2>2, <2>3, <2>4
  <1> QED
    BY <1>1, <1>5, <1>6 DEF r

LEMMA NextLock ==
    ASSUME NEW p \in Seq(Lock), p # <<>>, Ordered(p)
    PROVE  /\ Tail(p) \in Seq(Lock) /\ Ordered(Tail(p)) /\ Head(p) \in Lock
           /\ RangeOf(p) = RangeOf(Tail(p)) \cup {Head(p)}
           /\ \A m \in RangeOf(Tail(p)) : Below(Head(p).row, m.row)
  <1>1. /\ Len(p) \in Nat /\ Len(p) > 0 /\ DOMAIN p = 1..Len(p) /\ Tail(p) \in Seq(Lock)
        /\ DOMAIN Tail(p) = 1..(Len(p) - 1) /\ Head(p) = p[1] /\ Head(p) \in Lock
        /\ \A i \in DOMAIN Tail(p) : Tail(p)[i] = p[i + 1] /\ i + 1 \in DOMAIN p
    OBVIOUS
  <1>2. \A i \in DOMAIN p : i = 1 \/ (i - 1 \in DOMAIN Tail(p) /\ Tail(p)[i - 1] = p[i])
    BY <1>1
  <1>3. 1 \in DOMAIN p
    BY <1>1
  <1>4. RangeOf(p) = RangeOf(Tail(p)) \cup {Head(p)}
    BY <1>1, <1>2, <1>3 DEF RangeOf
  <1>5. Ordered(Tail(p))
    BY <1>1 DEF Ordered
  <1>6. \A m \in RangeOf(Tail(p)) : Below(Head(p).row, m.row)
    BY <1>1, <1>3 DEF Ordered, RangeOf
  <1> QED
    BY <1>1, <1>4, <1>5, <1>6

-----------------------------------------------------------------------------
(* What the steps of others leave to a transaction. *)

\* The columns that an insertion fixes.
Fixed(x, y) ==
    /\ y.agent = x.agent /\ y.kind = x.kind /\ y.key = x.key /\ y.actor = x.actor
    /\ y.post = x.post /\ y.root = x.root /\ y.depth = x.depth /\ y.maxDepth = x.maxDepth
    /\ y.maxJobs = x.maxJobs /\ y.created = x.created /\ y.order = x.order

\* Jobs are only added, and published once.
Grown ==
    /\ scenario' = scenario /\ now <= now' /\ Len(jobs) <= Len(jobs')
    /\ \A i \in Indexes : /\ Fixed(jobs[i], jobs'[i])
                          /\ jobs[i].finished > 0 => jobs'[i] = jobs[i]
                          /\ jobs'[i].result = jobs[i].result \/ jobs[i].result = 0

Undisturbed(t) ==
    /\ tx'[t] = tx[t]
    /\ \A a \in Agents : Holds(t, "settings", a) =>
           OfAgent(a)' = OfAgent(a) /\ enabled'[a] = enabled[a] /\ lastPublished'[a] = lastPublished[a]
    /\ \A a \in Agents : Holds(t, "account", a) => disabled'[a] = disabled[a]
    /\ Human(t) /\ ForUpdate("human", tx[t].actor) \in tx[t].held =>
           \A i \in Indexes' \ Indexes : ~(jobs'[i].actor = tx[t].actor /\ jobs'[i].kind \in HumanKinds)
    /\ \A r \in Indexes : JobUpdate(r) \in tx[t].held =>
           Chain(r)' = Chain(r) /\ jobs'[r].finished = jobs[r].finished

LEMMA GrownIndexes ==
    ASSUME TypeOK, TypeOK', Grown
    PROVE  Indexes \subseteq Indexes' /\ Indexes' = 1..Len(jobs')
  <1>1. Len(jobs) \in Nat /\ Len(jobs') \in Nat
    BY Elements DEF TypeOK
  <1> QED
    BY <1>1 DEF Grown, Indexes

LEMMA UsedKeeps ==
    ASSUME TypeOK, TypeOK', Grown, NEW n \in Nat \ {0}, Used(n)
    PROVE  Used(n)'
  <1>1. PICK i \in Indexes : n = jobs[i].key \/ n = jobs[i].result
    BY DEF Used
  <1>2. i \in Indexes' /\ (n = jobs'[i].key \/ n = jobs'[i].result)
    BY <1>1, GrownIndexes DEF Grown, Fixed
  <1> QED
    BY <1>2 DEF Used

LEMMA KnownKeeps ==
    ASSUME TypeOK, TypeOK', Grown, NEW p \in Nat, Known(p)
    PROVE  Known(p)'
  <1>1. Cardinality(Posts) \in Nat
    BY PostsFacts
  <1>2. CASE p > Cardinality(Posts)
    <2>1. p - Cardinality(Posts) \in Nat \ {0}
      BY <1>1, <1>2
    <2> QED
      BY <1>2, <2>1, UsedKeeps DEF Known
  <1>3. CASE ~(p > Cardinality(Posts))
    BY <1>3 DEF Known
  <1> QED
    BY <1>2, <1>3

\* With no plan left, what was taken is held.
LEMMA AllHeld ==
    ASSUME NEW t, tx[t].plan = <<>>
    PROVE  Taken(t) = tx[t].held
  <1>1. RangeOf(<<>>) = {}
    BY DEF RangeOf
  <1> QED
    BY <1>1 DEF Taken

LEMMA FieldsKeep ==
    ASSUME TypeOK, TypeOK', Grown, NEW t \in Txs, Undisturbed(t), FieldsOK(t)
    PROVE  FieldsOK(t)'
  <1>1. tx'[t] = tx[t] /\ tx[t].post \in Nat
    BY TxFields DEF Undisturbed, TypeOK
  <1>2. Known(tx[t].post)'
    <2>1. \A p \in Nat : Known(p) => Known(p)'
      BY KnownKeeps
    <2>2. \A p : Known(p)' <=> (p > Cardinality(Posts) => Used(p - Cardinality(Posts))')
      BY DEF Known
    <2> QED
      BY <1>1, <2>1, <2>2 DEF FieldsOK, Known
  <1> QED
    BY <1>1, <1>2 DEF FieldsOK, Control, Counted, Idle

LEMMA LocksKeep ==
    ASSUME NEW t, Undisturbed(t), LocksOK(t)
    PROVE  LocksOK(t)'
  BY DEF Undisturbed, LocksOK, Taken, Ordered, RangeOf, Below

LEMMA RowsKeep ==
    ASSUME TypeOK, TypeOK', Grown, NEW t, Undisturbed(t), RowsOK(t)
    PROVE  RowsOK(t)'
  <1>1. tx'[t] = tx[t] /\ Taken(t)' = Taken(t)
    BY DEF Undisturbed, Taken, RangeOf
  <1>2. Continuation(t) => tx[t].parent \in Indexes
    BY DEF RowsOK
  <1>3. Continuation(t) => /\ tx[t].parent \in Indexes'
                           /\ jobs'[tx[t].parent].agent = jobs[tx[t].parent].agent
                           /\ jobs'[tx[t].parent].root = jobs[tx[t].parent].root
                           /\ jobs[tx[t].parent].finished > 0 => jobs'[tx[t].parent] = jobs[tx[t].parent]
    BY <1>2, GrownIndexes DEF Grown, Fixed
  <1> QED
    BY <1>1, <1>3 DEF RowsOK, Human, Continuation, Root

LEMMA AccountsKeep ==
    ASSUME Grown, NEW t, Undisturbed(t), AccountsOK(t)
    PROVE  AccountsOK(t)'
  BY DEF Undisturbed, AccountsOK, Admission, Human, Continuation, Holds, Grown, Agents

LEMMA DayKeeps ==
    ASSUME scenario' = scenario, NEW m, NEW n
    PROVE  Day(m) = m \div DayLength /\ DayLength' = DayLength
  BY DEF Day, DayLength

LEMMA HeldSettings ==
    ASSUME TypeOK, Grown, NEW t, Undisturbed(t), NEW a \in Agents, Holds(t, "settings", a)
    PROVE  /\ OfAgent(a)' = OfAgent(a) /\ \A i \in OfAgent(a) : Fixed(jobs[i], jobs'[i])
           /\ enabled'[a] = enabled[a] /\ lastPublished'[a] = lastPublished[a]
           /\ Policy'[a] = Policy[a]
  BY DEF Undisturbed, Grown, OfAgent, Policy

LEMMA EligibleKeeps ==
    ASSUME Grown, NEW t, Undisturbed(t), NEW a \in Agents
    PROVE  Ready(t, a)' = Ready(t, a) /\ Eligible(t, a)' = Eligible(t, a)
  <1>1. /\ tx'[t] = tx[t] /\ Policy' = Policy
        /\ Holds(t, "settings", a) => enabled'[a] = enabled[a]
        /\ Holds(t, "settings", a)' = Holds(t, "settings", a)
    BY DEF Undisturbed, Grown, Policy, Holds
  <1>2. /\ Human(t)' = Human(t) /\ Continuation(t)' = Continuation(t)
        /\ TriggerKind(t)' = TriggerKind(t)
    BY <1>1 DEF Human, Continuation, TriggerKind
  <1>3. Ready(t, a)' = Ready(t, a)
    BY <1>1 DEF Ready
  <1> QED
    BY <1>1, <1>2, <1>3 DEF Eligible

LEMMA EligibleSetKeeps ==
    ASSUME TypeOK, Grown, NEW t \in Txs, Undisturbed(t)
    PROVE  EligibleAgents(t)' = EligibleAgents(t) /\ HumanWindow(t)' = HumanWindow(t)
  <1>1. tx'[t] = tx[t] /\ Policy' = Policy
    BY DEF Undisturbed, Grown, Policy
  <1>2. RangeOf(tx[t].candidates) \subseteq Agents
    <2>1. IsFiniteSet(Agents)
      BY ScenarioFacts DEF TypeOK
    <2> QED
      BY <2>1, RankingFacts, TxFields DEF TypeOK
  <1>3. EligibleAgents(t)' = EligibleAgents(t)
    <2>1. \A a \in RangeOf(tx[t].candidates) : Eligible(t, a)' = Eligible(t, a)
      BY <1>2, EligibleKeeps
    <2> QED
      BY <1>1, <2>1 DEF EligibleAgents, RangeOf
  <1> QED
    BY <1>1, <1>3 DEF HumanWindow

\* The jobs that people caused.
LEMMA HeldHuman ==
    ASSUME TypeOK, TypeOK', Grown, NEW t \in Txs, Undisturbed(t), RowsOK(t), Human(t), tx[t].plan = <<>>
    PROVE  /\ \A i \in Indexes' : jobs'[i].actor = tx[t].actor /\ jobs'[i].kind \in HumanKinds =>
                  i \in Indexes /\ Fixed(jobs[i], jobs'[i])
           /\ \A w : OfHuman(t, w)' = OfHuman(t, w)
  <1>1. \A i \in Indexes' : jobs'[i].actor = tx[t].actor /\ jobs'[i].kind \in HumanKinds =>
                  i \in Indexes /\ Fixed(jobs[i], jobs'[i])
    BY AllHeld DEF RowsOK, Undisturbed, Grown
  <1>2. \A w : OfHuman(t, w)' = OfHuman(t, w)
    <2>1. tx'[t] = tx[t] /\ Indexes \subseteq Indexes' /\ \A i \in Indexes : Fixed(jobs[i], jobs'[i])
      BY GrownIndexes DEF Undisturbed, Grown
    <2> SUFFICES ASSUME NEW w PROVE OfHuman(t, w)' = OfHuman(t, w)
      OBVIOUS
    <2>2. OfHuman(t, w)' \subseteq OfHuman(t, w)
      BY <1>1, <2>1 DEF OfHuman, Fixed
    <2>3. OfHuman(t, w) \subseteq OfHuman(t, w)'
      BY <2>1 DEF OfHuman, Fixed
    <2> QED
      BY <2>2, <2>3
  <1> QED
    BY <1>1, <1>2

\* The chain that is extended.
LEMMA HeldChain ==
    ASSUME TypeOK, TypeOK', Grown, NEW t \in Txs, Undisturbed(t), RowsOK(t), JobsOK, Continuation(t),
           Counted(t), tx[t].plan = <<>>
    PROVE  /\ Root(t)' = Root(t) /\ Chain(Root(t))' = Chain(Root(t)) /\ Root(t) \in Indexes
           /\ \A i \in Chain(Root(t)) : i \in Indexes /\ Fixed(jobs[i], jobs'[i])
           /\ ChainJobs(t)' = ChainJobs(t)
           /\ Fixed(jobs[tx[t].parent], jobs'[tx[t].parent])
           /\ Fixed(jobs[Root(t)], jobs'[Root(t)])
           /\ tx[t].op = "continue" => jobs'[tx[t].parent] = jobs[tx[t].parent]
           /\ tx[t].op = "publish" => jobs'[tx[t].parent].finished = jobs[tx[t].parent].finished
  <1>1. tx'[t] = tx[t] /\ tx[t].parent \in Indexes /\ Fixed(jobs[tx[t].parent], jobs'[tx[t].parent])
    BY DEF Undisturbed, RowsOK, Grown
  <1>2. Root(t)' = Root(t) /\ Root(t) \in Indexes
    BY <1>1 DEF Root, Fixed, JobsOK
  <1>3. tx[t].pc # "source"
    BY DEF Counted
  <1>4. JobUpdate(Root(t)) \in tx[t].held /\ (tx[t].op = "publish" => JobUpdate(tx[t].parent) \in tx[t].held)
    BY <1>3, AllHeld DEF RowsOK
  <1>5. Chain(Root(t))' = Chain(Root(t))
    <2>1. \A r \in Indexes : JobUpdate(r) \in tx[t].held => Chain(r)' = Chain(r)
      BY DEF Undisturbed
    <2>2. Chain(Root(t))' = {i \in Indexes' : jobs'[i].root = Root(t)'}
      BY DEF Chain
    <2>3. \A r : Chain(r)' = {i \in Indexes' : jobs'[i].root = r}
      BY DEF Chain
    <2> QED
      BY <1>2, <1>4, <2>1, <2>2, <2>3
  <1>6. ChainJobs(t)' = ChainJobs(t)
    <2>1. ChainJobs(t) = Cardinality(Chain(Root(t))) /\ ChainJobs(t)' = Cardinality(Chain(Root(t))')
      BY DEF ChainJobs, Root
    <2> QED
      BY <1>5, <2>1
  <1>7. \A i \in Chain(Root(t)) : i \in Indexes /\ Fixed(jobs[i], jobs'[i])
    BY DEF Chain, Grown
  <1>8. tx[t].op = "continue" => jobs'[tx[t].parent] = jobs[tx[t].parent]
    BY <1>1 DEF RowsOK, Grown
  <1>9. tx[t].op = "publish" => jobs'[tx[t].parent].finished = jobs[tx[t].parent].finished
    BY <1>1, <1>4 DEF Undisturbed
  <1> QED
    BY <1>1, <1>2, <1>5, <1>6, <1>7, <1>8, <1>9 DEF Grown

LEMMA PriorKeeps ==
    ASSUME TypeOK, TypeOK', Grown, NEW t \in Txs, Undisturbed(t), RowsOK(t), JobsOK,
           Counted(t), tx[t].plan = <<>>
    PROVE  PriorActionJobs(t)' = PriorActionJobs(t)
  <1>1. tx'[t] = tx[t]
    BY DEF Undisturbed
  <1>2. CASE tx[t].op # "continue"
    BY <1>1, <1>2 DEF PriorActionJobs
  <1>3. CASE tx[t].op = "continue"
    <2>1. Continuation(t)
      BY <1>3 DEF Continuation
    <2>2. jobs'[tx[t].parent] = jobs[tx[t].parent] /\ Root(t)' = Root(t)
          /\ Chain(Root(t))' = Chain(Root(t)) /\ \A i \in Chain(Root(t)) : Fixed(jobs[i], jobs'[i])
      BY <1>3, <2>1, HeldChain
    <2> DEFINE Prior == {i \in Chain(Root(t)) :
                             jobs[i].kind = "continuation" /\ jobs[i].key = jobs[tx[t].parent].result}
    <2>3. PriorActionJobs(t) = Cardinality(Prior) /\ PriorActionJobs(t)' = Cardinality(Prior')
      BY <1>1, <1>3 DEF PriorActionJobs, Root
    <2>4. Prior' = Prior
      BY <1>1, <2>2 DEF Fixed
    <2> QED
      BY <2>3, <2>4
  <1> QED
    BY <1>2, <1>3

LEMMA CountedKeep ==
    ASSUME TypeOK, TypeOK', Grown, NEW t \in Txs, Undisturbed(t), FieldsOK(t), RowsOK(t), JobsOK,
           CountedOK(t)
    PROVE  CountedOK(t)'
  <1>1. tx'[t] = tx[t] /\ now <= now' /\ now \in Nat /\ now' \in Nat /\ Agents' = Agents
    BY DEF Undisturbed, Grown, TypeOK, Agents
  <1>2. /\ Counted(t)' = Counted(t) /\ Human(t)' = Human(t) /\ Continuation(t)' = Continuation(t)
        /\ \A a : Holds(t, "settings", a)' = Holds(t, "settings", a)
    BY <1>1 DEF Counted, Control, Human, Continuation, Holds
  <1> SUFFICES ASSUME Counted(t) PROVE CountedOK(t)'
    BY <1>2 DEF CountedOK
  <1>3. tx[t].plan = <<>>
    BY DEF FieldsOK
  <1>4. tx'[t].clock \in 1..now'
    <2>1. tx[t].clock \in 1..now
      BY DEF CountedOK
    <2> QED
      BY <1>1, <2>1
  <1>5. ASSUME NEW a \in Agents, Holds(t, "settings", a)
        PROVE  \A i \in OfAgent(a)' : jobs'[i].created < tx[t].clock
    BY <1>5, HeldSettings DEF CountedOK, Fixed
  <1>6. ASSUME Human(t)
        PROVE  /\ \A i \in Indexes' : jobs'[i].actor = tx[t].actor /\ jobs'[i].kind \in HumanKinds =>
                      jobs'[i].created < tx[t].clock
               /\ EligibleAgents(t)' # {} => tx[t].humanJobs = HumanJobs(t, tx[t].clock)'
    <2>1. \A i \in Indexes' : jobs'[i].actor = tx[t].actor /\ jobs'[i].kind \in HumanKinds =>
              i \in Indexes /\ Fixed(jobs[i], jobs'[i])
      BY <1>3, <1>6, HeldHuman
    <2>2. EligibleAgents(t)' = EligibleAgents(t) /\ HumanWindow(t)' = HumanWindow(t)
      BY EligibleSetKeeps
    <2>3. HumanJobs(t, tx[t].clock) = Cardinality(OfHuman(t, HumanWindow(t)))
      BY DEF HumanJobs, OfHuman
    <2>4. HumanJobs(t, tx[t].clock)' = Cardinality(OfHuman(t, HumanWindow(t))')
      BY DEF HumanJobs, OfHuman
    <2>5. OfHuman(t, HumanWindow(t))' = OfHuman(t, HumanWindow(t))
      <3>1. \A w : OfHuman(t, w)' = OfHuman(t, w)
        BY <1>3, <1>6, HeldHuman
      <3>2. OfHuman(t, HumanWindow(t))' = {i \in Indexes' : /\ jobs'[i].actor = tx'[t].actor
                                                         /\ jobs'[i].kind \in HumanKinds
                                                         /\ jobs'[i].created >= tx'[t].clock - HumanWindow(t)'}
        BY DEF OfHuman
      <3>3. \A w : OfHuman(t, w)' = {i \in Indexes' : /\ jobs'[i].actor = tx'[t].actor
                                                   /\ jobs'[i].kind \in HumanKinds
                                                   /\ jobs'[i].created >= tx'[t].clock - w}
        BY DEF OfHuman
      <3> QED
        BY <2>2, <3>1, <3>2, <3>3
    <2>6. \A i \in Indexes' : jobs'[i].actor = tx[t].actor /\ jobs'[i].kind \in HumanKinds =>
              jobs'[i].created < tx[t].clock
      BY <1>6, <2>1 DEF CountedOK, Fixed
    <2> QED
      BY <1>6, <2>2, <2>3, <2>4, <2>5, <2>6 DEF CountedOK
  <1>7. ASSUME Continuation(t)
        PROVE  /\ \A i \in Chain(Root(t))' : jobs'[i].created < tx[t].clock
               /\ tx[t].chainJobs = ChainJobs(t)'
    BY <1>3, <1>7, HeldChain DEF CountedOK, Fixed
  <1>8. tx[t].prior = PriorActionJobs(t)'
    BY <1>3, PriorKeeps DEF CountedOK
  <1>9. ASSUME tx[t].op = "publish"
        PROVE  /\ Holds(t, "settings", tx[t].actor)
               /\ jobs'[tx[t].parent].finished = 0
               /\ lastPublished'[tx[t].actor] > 0 =>
                      tx[t].clock >= lastPublished'[tx[t].actor] + Policy'[tx[t].actor].spacing
    <2>1. Continuation(t)
      BY <1>9 DEF Continuation
    <2>2. jobs'[tx[t].parent].finished = jobs[tx[t].parent].finished
      BY <1>3, <1>9, <2>1, HeldChain
    <2>3. tx[t].parent \in Indexes /\ tx[t].actor = jobs[tx[t].parent].agent
      BY <2>1 DEF RowsOK
    <2>4. tx[t].actor \in Agents
      BY <2>3, IndexFacts, JobFields
    <2>5. Holds(t, "settings", tx[t].actor)
      BY <1>9 DEF CountedOK
    <2>6. lastPublished'[tx[t].actor] = lastPublished[tx[t].actor] /\ Policy'[tx[t].actor] = Policy[tx[t].actor]
      BY <2>4, <2>5, HeldSettings
    <2> QED
      BY <1>9, <2>2, <2>5, <2>6 DEF CountedOK
  <1> QED
    BY <1>1, <1>2, <1>4, <1>5, <1>6, <1>7, <1>8, <1>9 DEF CountedOK

LEMMA ChosenAgents ==
    ASSUME TypeOK, NEW t \in Txs
    PROVE  /\ RangeOf(tx[t].chosen) \subseteq Agents /\ Len(tx[t].chosen) \in Nat
           /\ DOMAIN tx[t].chosen = 1..Len(tx[t].chosen) /\ tx[t].chosen \in Seq(Agents)
           /\ RangeOf(tx[t].candidates) \subseteq Agents
           /\ \A i, j \in 1..Len(tx[t].chosen) : i # j => tx[t].chosen[i] # tx[t].chosen[j]
  <1>1. IsFiniteSet(Agents)
    BY ScenarioFacts DEF TypeOK
  <1> QED
    BY <1>1, RankingFacts, TxFields DEF TypeOK

LEMMA ReplyFitKeeps ==
    ASSUME TypeOK, TypeOK', Grown, NEW t \in Txs, Undisturbed(t), FieldsOK(t), RowsOK(t), JobsOK,
           Counted(t), Admission(t), NEW a \in Agents, Holds(t, "settings", a), ReplyFits(t, a)
    PROVE  ReplyFits(t, a)'
  <1>1. /\ tx'[t] = tx[t] /\ Indexes \subseteq Indexes' /\ tx[t].plan = <<>>
        /\ TriggerKind(t)' = TriggerKind(t) /\ Human(t)' = Human(t) /\ Continuation(t)' = Continuation(t)
    BY GrownIndexes DEF Undisturbed, TriggerKind, Human, Continuation, FieldsOK
  <1>2. /\ OfAgent(a)' = OfAgent(a) /\ \A i \in OfAgent(a) : Fixed(jobs[i], jobs'[i])
        /\ Policy'[a] = Policy[a]
    BY HeldSettings
  <1>3. RepliesToday(t, a)' = RepliesToday(t, a)
    BY <1>1, <1>2, DayKeeps DEF RepliesToday, Fixed, Day, Grown
  <1>4. InConversation(t, a)' = InConversation(t, a)
    BY <1>1, <1>2 DEF InConversation, Fixed
  <1>5. ASSUME NEW i \in Indexes', jobs'[i].kind = TriggerKind(t), jobs'[i].actor = tx[t].actor,
               jobs'[i].agent = a, jobs'[i].post = tx[t].post
        PROVE  jobs'[i].created < tx[t].clock - Policy[a].cooldown
    <2>1. i \in OfAgent(a)'
      BY <1>5 DEF OfAgent
    <2>2. i \in Indexes /\ Fixed(jobs[i], jobs'[i])
      BY <1>2, <2>1 DEF OfAgent
    <2> QED
      BY <1>5, <2>2 DEF ReplyFits, SameCooldown, Fixed
  <1>6. PriorActionJobs(t)' = PriorActionJobs(t)
    BY <1>1, PriorKeeps
  <1>7. ASSUME Human(t)
        PROVE  Cardinality(OfHuman(t, Policy[a].humanWindow)') + Len(tx[t].chosen) <= Policy[a].humanCap
    <2>1. OfHuman(t, Policy[a].humanWindow)' = OfHuman(t, Policy[a].humanWindow)
      <3>1. \A w : OfHuman(t, w)' = OfHuman(t, w)
        BY <1>1, <1>7, HeldHuman
      <3>2. OfHuman(t, Policy[a].humanWindow)'
                = {i \in Indexes' : /\ jobs'[i].actor = tx'[t].actor
                                    /\ jobs'[i].kind \in HumanKinds
                                    /\ jobs'[i].created >= tx'[t].clock - Policy'[a].humanWindow}
        BY DEF OfHuman
      <3>3. \A w : OfHuman(t, w)' = {i \in Indexes' : /\ jobs'[i].actor = tx'[t].actor
                                                   /\ jobs'[i].kind \in HumanKinds
                                                   /\ jobs'[i].created >= tx'[t].clock - w}
        BY DEF OfHuman
      <3> QED
        BY <1>2, <3>1, <3>2, <3>3
    <2> QED
      BY <1>7, <2>1 DEF ReplyFits
  <1>8. ASSUME Continuation(t)
        PROVE  /\ jobs'[tx[t].parent].depth + 1 <= jobs'[Root(t)'].maxDepth
               /\ ChainJobs(t)' + Len(tx[t].chosen) <= jobs'[Root(t)'].maxJobs
    <2>1. /\ Root(t)' = Root(t) /\ ChainJobs(t)' = ChainJobs(t)
          /\ Fixed(jobs[tx[t].parent], jobs'[tx[t].parent]) /\ Fixed(jobs[Root(t)], jobs'[Root(t)])
      BY <1>1, <1>8, HeldChain
    <2> QED
      BY <1>8, <2>1 DEF ReplyFits, Fixed
  <1>9. /\ Cardinality(RepliesToday(t, a)) < Policy[a].dailyCap
        /\ Policy[a].conversationCap > 0
        /\ tx[t].post # 0 => Cardinality(InConversation(t, a)) < Policy[a].conversationCap
        /\ PriorActionJobs(t) + Len(tx[t].chosen) <= Policy[a].triggerCap
    BY DEF ReplyFits
  <1>10. Cardinality(OfHuman(t, Policy[a].humanWindow))' = Cardinality(OfHuman(t, Policy[a].humanWindow)')
    OBVIOUS
  <1> QED
    BY <1>1, <1>2, <1>3, <1>4, <1>5, <1>6, <1>7, <1>8, <1>9, <1>10 DEF ReplyFits, SameCooldown

LEMMA ChosenKeep ==
    ASSUME TypeOK, TypeOK', Grown, NEW t \in Txs, Undisturbed(t), FieldsOK(t), RowsOK(t), AccountsOK(t),
           JobsOK, ChosenOK(t)
    PROVE  ChosenOK(t)'
  <1>1. tx'[t] = tx[t] /\ Counted(t)' = Counted(t) /\ Admission(t)' = Admission(t)
    BY DEF Undisturbed, Counted, Control, Admission, Human, Continuation
  <1> SUFFICES ASSUME Counted(t), tx[t].pc = "considered", NEW a \in RangeOf(tx[t].chosen)
               PROVE  Fits(t, a)'
    BY <1>1 DEF ChosenOK, RangeOf
  <1>2. a \in Agents /\ a \in RangeOf(tx[t].candidates) /\ Fits(t, a)
    BY ChosenAgents DEF ChosenOK
  <1>3. Holds(t, "settings", a) /\ tx[t].plan = <<>>
    BY <1>2 DEF Fits, Ready, FieldsOK
  <1>4. /\ OfAgent(a)' = OfAgent(a) /\ \A i \in OfAgent(a) : Fixed(jobs[i], jobs'[i])
        /\ Policy'[a] = Policy[a]
    BY <1>2, <1>3, HeldSettings
  <1>5. Ready(t, a)'
    BY <1>2, EligibleKeeps DEF Fits
  <1>6. ~disabled'[a]
    <2>1. CASE Admission(t)
      <3>1. Holds(t, "account", a)
        BY <1>2, <1>3, <2>1 DEF AccountsOK
      <3> QED
        BY <1>2, <3>1 DEF Undisturbed, Fits
    <2>2. CASE ~Admission(t)
      <3>1. tx[t].op = "schedule"
        <4>1. tx[t].op \in Operations \cup {"none"} /\ Operations \subseteq AllOperations
          BY TxFields, ScenarioFacts DEF TypeOK
        <4>2. tx[t].op # "none"
          BY DEF FieldsOK, Counted
        <4> QED
          BY <2>2, <4>1, <4>2 DEF Admission, Human, Continuation, Counted, Control, AllOperations
      <3>2. AccountShare(a) \in tx[t].held
        BY <1>2, <1>3, <3>1, AllHeld DEF RowsOK
      <3>3. Holds(t, "account", a)
        BY <3>2 DEF Holds, AccountShare, ForShare
      <3> QED
        BY <1>2, <3>3 DEF Undisturbed, Fits
    <2> QED
      BY <2>1, <2>2
  <1>7. ~Unspaced(a, tx[t].clock)'
    BY <1>1, <1>2, <1>4 DEF Fits, Unspaced, Fixed
  <1>8. tx[t].op = "schedule" => Cardinality(SlotsToday(t, a)') < Policy[a].scheduledCap
    <2>1. SlotsToday(t, a)' = SlotsToday(t, a)
      BY <1>1, <1>4 DEF SlotsToday, Fixed, Day, DayLength, Grown
    <2> QED
      BY <1>2, <2>1 DEF Fits
  <1>9. Admission(t) => ReplyFits(t, a)'
    BY <1>2, <1>3, ReplyFitKeeps DEF Fits
  <1> QED
    BY <1>1, <1>4, <1>5, <1>6, <1>7, <1>8, <1>9 DEF Fits

LEMMA OthersKeep ==
    ASSUME TypeOK, TypeOK', Grown, JobsOK, NEW t \in Txs, Undisturbed(t), TxOK(t)
    PROVE  TxOK(t)'
  <1>1. FieldsOK(t)' /\ LocksOK(t)' /\ RowsOK(t)' /\ AccountsOK(t)'
    BY FieldsKeep, LocksKeep, RowsKeep, AccountsKeep DEF TxOK
  <1>2. CountedOK(t)' /\ ChosenOK(t)'
    BY CountedKeep, ChosenKeep DEF TxOK
  <1> QED
    BY <1>1, <1>2 DEF TxOK

-----------------------------------------------------------------------------
(* The plans of the operations. *)

LEMMA LockTypes ==
    ASSUME scenario \in Scenarios
    PROVE  /\ \A h \in Humans : ForUpdate("human", h) \in Lock
           /\ \A p \in Nat : ForUpdate("post", p) \in Lock
           /\ \A g \in scenario.tags : TagInsert(g) \in Lock
           /\ \A a \in Agents : AccountShare(a) \in Lock /\ SettingsUpdate(a) \in Lock
                                /\ ForUpdate("account", a) \in Lock
           /\ \A j \in 1..MaxJobs : JobUpdate(j) \in Lock
  <1>1. \A r \in Row, b \in BOOLEAN : [row |-> r, shared |-> b] \in Lock
    BY DEF Lock
  <1>2. \A h \in Humans : <<"human", h>> \in Row
    BY DEF Row
  <1>3. \A p \in Nat : <<"post", p>> \in Row
    BY DEF Row
  <1>4. \A g \in scenario.tags : <<"tag", g>> \in Row
    BY DEF Row
  <1>5. \A a \in Agents : <<"account", a>> \in Row /\ <<"settings", a>> \in Row
    BY DEF Row
  <1>6. \A j \in 1..MaxJobs : <<"job", j>> \in Row
    BY DEF Row
  <1> QED
    BY <1>1, <1>2, <1>3, <1>4, <1>5, <1>6
       DEF ForUpdate, TagInsert, AccountShare, ForShare, SettingsUpdate, JobUpdate

\* A plan with exactly the locks of S.
PlanOf(p, S) == p \in Seq(Lock) /\ Ordered(p) /\ \A l : l \in RangeOf(p) <=> l \in S

LEMMA EmptyPlan == PlanOf(<<>>, {})
  <1>1. <<>> \in Seq(Lock) /\ DOMAIN <<>> = {}
    OBVIOUS
  <1> QED
    BY <1>1 DEF PlanOf, Ordered, RangeOf

LEMMA OneLock ==
    ASSUME NEW l \in Lock
    PROVE  PlanOf(<<l>>, {l})
  <1>1. <<l>> \in Seq(Lock) /\ DOMAIN <<l>> = {1} /\ <<l>>[1] = l
    OBVIOUS
  <1>2. Ordered(<<l>>)
    BY <1>1 DEF Ordered
  <1>3. RangeOf(<<l>>) = {l}
    BY <1>1, Zenon DEF RangeOf
  <1> QED
    BY <1>1, <1>2, <1>3 DEF PlanOf

LEMMA TwoLocks ==
    ASSUME NEW l \in Lock, NEW m \in Lock, Below(l.row, m.row)
    PROVE  PlanOf(<<l, m>>, {l, m})
  <1> DEFINE p == <<l, m>>
  <1>1. p \in Seq(Lock) /\ DOMAIN p = {1, 2} /\ p[1] = l /\ p[2] = m
    OBVIOUS
  <1> HIDE DEF p
  <1>2. Ordered(p)
    BY <1>1 DEF Ordered
  <1>3. \A x : x \in RangeOf(p) <=> x = l \/ x = m
    BY <1>1 DEF RangeOf
  <1>4. PlanOf(p, {l, m})
    BY <1>1, <1>2, <1>3 DEF PlanOf
  <1> QED
    BY <1>4 DEF p

LEMMA JoinPlans ==
    ASSUME NEW p, NEW S, PlanOf(p, S), NEW q, NEW T, PlanOf(q, T),
           \A l \in S, m \in T : Below(l.row, m.row)
    PROVE  PlanOf(p \o q, S \cup T)
  <1>1. p \in Seq(Lock) /\ q \in Seq(Lock) /\ Ordered(p) /\ Ordered(q)
    BY DEF PlanOf
  <1>2. \A l \in RangeOf(p), m \in RangeOf(q) : Below(l.row, m.row)
    BY DEF PlanOf
  <1>3. /\ p \o q \in Seq(Lock) /\ Ordered(p \o q)
        /\ RangeOf(p \o q) = RangeOf(p) \cup RangeOf(q)
    BY <1>1, <1>2, ConcatPlans
  <1> QED
    BY <1>3 DEF PlanOf

LEMMA TablePlan ==
    ASSUME NEW S \in SUBSET Nat, IsFiniteSet(S), NEW table, NEW shared,
           \A x \in S : [row |-> <<table, x>>, shared |-> shared] \in Lock
    PROVE  PlanOf(InOrder(table, shared, S), {[row |-> <<table, x>>, shared |-> shared] : x \in S})
  BY LocksOfTable DEF PlanOf

LEMMA TablePlans ==
    ASSUME scenario \in Scenarios
    PROVE  /\ \A S \in SUBSET Agents :
                  /\ PlanOf(InOrder("account", TRUE, S), {AccountShare(a) : a \in S})
                  /\ PlanOf(InOrder("settings", FALSE, S), {SettingsUpdate(a) : a \in S})
           /\ \A S \in SUBSET (1..MaxJobs) : PlanOf(InOrder("job", FALSE, S), {JobUpdate(j) : j \in S})
           /\ \A S \in SUBSET scenario.tags : PlanOf(TagPlan(S), {TagInsert(g) : g \in S})
  <1>1. /\ Agents \subseteq Nat /\ IsFiniteSet(Agents) /\ scenario.tags \subseteq Nat
        /\ IsFiniteSet(scenario.tags) /\ MaxJobs \in Nat
    BY ScenarioFacts
  <1>2. IsFiniteSet(1..MaxJobs) /\ 1..MaxJobs \subseteq Nat
    BY <1>1, FS_Interval
  <1>3. ASSUME NEW S \in SUBSET Agents
        PROVE  /\ PlanOf(InOrder("account", TRUE, S), {AccountShare(a) : a \in S})
               /\ PlanOf(InOrder("settings", FALSE, S), {SettingsUpdate(a) : a \in S})
    <2>1. S \in SUBSET Nat /\ IsFiniteSet(S)
      BY <1>1, FS_Subset
    <2>2. /\ \A x \in S : [row |-> <<"account", x>>, shared |-> TRUE] \in Lock
          /\ \A x \in S : [row |-> <<"settings", x>>, shared |-> FALSE] \in Lock
      BY LockTypes DEF AccountShare, SettingsUpdate, ForShare, ForUpdate
    <2> QED
      BY <2>1, <2>2, TablePlan DEF AccountShare, SettingsUpdate, ForShare, ForUpdate
  <1>4. ASSUME NEW S \in SUBSET (1..MaxJobs) PROVE PlanOf(InOrder("job", FALSE, S), {JobUpdate(j) : j \in S})
    <2>1. S \in SUBSET Nat /\ IsFiniteSet(S)
      BY <1>2, FS_Subset
    <2>2. \A x \in S : [row |-> <<"job", x>>, shared |-> FALSE] \in Lock
      BY LockTypes DEF JobUpdate, ForUpdate
    <2> QED
      BY <2>1, <2>2, TablePlan DEF JobUpdate, ForUpdate
  <1>5. ASSUME NEW S \in SUBSET scenario.tags PROVE PlanOf(TagPlan(S), {TagInsert(g) : g \in S})
    <2>1. S \in SUBSET Nat /\ IsFiniteSet(S)
      BY <1>1, FS_Subset
    <2>2. \A x \in S : [row |-> <<"tag", x>>, shared |-> FALSE] \in Lock
      BY LockTypes DEF TagInsert, ForUpdate
    <2>3. PlanOf(InOrder("tag", FALSE, S), {[row |-> <<"tag", x>>, shared |-> FALSE] : x \in S})
      BY <2>1, <2>2, TablePlan
    <2> QED
      BY <2>3 DEF TagPlan, Locks, InOrder, TagInsert, ForUpdate
  <1> QED
    BY <1>3, <1>4, <1>5

LEMMA LockRows ==
    /\ \A h : ForUpdate("human", h).row[1] = "human" /\ ~ForUpdate("human", h).shared
    /\ \A p : ForUpdate("post", p).row[1] = "post" /\ ~ForUpdate("post", p).shared
    /\ \A a : ForUpdate("account", a).row[1] = "account" /\ ~ForUpdate("account", a).shared
    /\ \A g : TagInsert(g).row[1] = "tag" /\ ~TagInsert(g).shared
    /\ \A a : AccountShare(a).row[1] = "account"
    /\ \A a : SettingsUpdate(a).row[1] = "settings" /\ ~SettingsUpdate(a).shared
    /\ \A j : JobUpdate(j).row[1] = "job" /\ ~JobUpdate(j).shared
  BY DEF ForUpdate, TagInsert, AccountShare, ForShare, SettingsUpdate, JobUpdate

LEMMA BelowTables ==
    /\ \A h, p : Below(ForUpdate("human", h).row, ForUpdate("post", p).row)
    /\ \A h, g : Below(ForUpdate("human", h).row, TagInsert(g).row)
    /\ \A p, g : Below(ForUpdate("post", p).row, TagInsert(g).row)
    /\ \A a, b : Below(AccountShare(a).row, SettingsUpdate(b).row)
    /\ \A a, j : Below(AccountShare(a).row, JobUpdate(j).row)
    /\ \A a, j : Below(SettingsUpdate(a).row, JobUpdate(j).row)
    /\ \A q, r : q[1] \in {"human", "post", "tag"} /\ r[1] \in {"account", "settings", "job"} => Below(q, r)
  BY LockRows DEF Below, TableOrder

\* What the writer of a source locks first.
LEMMA SourcePlanFacts ==
    ASSUME scenario \in Scenarios, NEW kind \in HumanKinds, NEW h \in Humans, NEW p \in Posts,
           NEW tagged \in SUBSET scenario.tags, kind \in {"reply", "repost"} => tagged = {},
           NEW q, q = SourcePlan(kind, h, p) \o TagPlan(tagged)
    PROVE  /\ q \in Seq(Lock) /\ Ordered(q) /\ ForUpdate("human", h) \in RangeOf(q)
           /\ \A l \in RangeOf(q) : l.row[1] \in {"human", "post", "tag"} /\ ~l.shared
  <1>1. PlanOf(TagPlan(tagged), {TagInsert(g) : g \in tagged})
    BY TablePlans
  <1>2. p \in Nat /\ ForUpdate("human", h) \in Lock /\ ForUpdate("post", p) \in Lock
    <2>1. p \in Nat
      BY PostsFacts
    <2> QED
      BY <2>1, LockTypes
  <1> DEFINE H == ForUpdate("human", h)
             P == ForUpdate("post", p)
  <1>3. PICK S : PlanOf(SourcePlan(kind, h, p), S) /\ H \in S /\ \A l \in S : l = H \/ l = P
    <2>1. CASE kind = "human_post"
      <3>1. SourcePlan(kind, h, p) = <<H>>
        BY <2>1 DEF SourcePlan
      <3>2. PlanOf(<<H>>, {H})
        BY <1>2, OneLock
      <3> HIDE DEF H
      <3> QED
        BY <3>1, <3>2
    <2>2. CASE kind # "human_post"
      <3>1. SourcePlan(kind, h, p) = <<H, P>>
        BY <2>2 DEF SourcePlan
      <3>2. PlanOf(<<H, P>>, {H, P})
        BY <1>2, BelowTables, TwoLocks
      <3> HIDE DEF H, P
      <3> QED
        BY <3>1, <3>2
    <2> QED
      BY <2>1, <2>2
  <1> DEFINE T == {TagInsert(g) : g \in tagged}
  <1>4. \A l \in S, m \in T : Below(l.row, m.row)
    BY <1>3, BelowTables
  <1>5. \A l \in S \cup T : l.row[1] \in {"human", "post", "tag"} /\ ~l.shared
    BY <1>3, LockRows
  <1> HIDE DEF H, P, T
  <1>6. PlanOf(q, S \cup T)
    BY <1>1, <1>3, <1>4, JoinPlans DEF T
  <1> QED
    BY <1>3, <1>5, <1>6 DEF PlanOf, H

\* Candidates, then the rows of the job that is published or continued.
LEMMA CandidatePlanFacts ==
    ASSUME TypeOK, JobsOK, NEW t \in Txs, RowsOK(t), Admission(t), NEW ranking \in Rankings(Agents)
    PROVE  LET q == CandidatePlan(t, ranking)
           IN  /\ q \in Seq(Lock) /\ Ordered(q)
               /\ \A l \in RangeOf(q) : /\ l.row[1] \in {"account", "settings", "job"}
                                        /\ l.shared => l.row[1] = "account"
               /\ Continuation(t) => JobUpdate(Root(t)) \in RangeOf(q)
               /\ tx[t].op = "publish" => JobUpdate(tx[t].parent) \in RangeOf(q)
  <1> DEFINE candidates == RangeOf(ranking)
             accounts == IF Continuation(t) THEN candidates \cup {tx[t].actor} ELSE candidates
             settings == IF tx[t].op = "publish" THEN accounts ELSE candidates
             locked == CASE tx[t].op = "publish" -> {jobs[tx[t].parent].root, tx[t].parent}
                         [] tx[t].op = "continue" -> {jobs[tx[t].parent].root}
                         [] OTHER -> {}
             A == {AccountShare(a) : a \in accounts}
             S == {SettingsUpdate(a) : a \in settings}
             J == {JobUpdate(j) : j \in locked}
             q == (InOrder("account", TRUE, accounts) \o InOrder("settings", FALSE, settings))
                      \o InOrder("job", FALSE, locked)
  <1>1. scenario \in Scenarios /\ IsFiniteSet(Agents)
    BY ScenarioFacts DEF TypeOK
  <1>2. candidates \subseteq Agents
    BY <1>1, RankingFacts
  <1>3. Continuation(t) => /\ tx[t].actor \in Agents
                           /\ tx[t].parent \in 1..MaxJobs /\ jobs[tx[t].parent].root \in 1..MaxJobs
    <2>1. SUFFICES ASSUME Continuation(t) PROVE tx[t].actor \in Agents /\ tx[t].parent \in 1..MaxJobs
                                                /\ jobs[tx[t].parent].root \in 1..MaxJobs
      OBVIOUS
    <2>2. tx[t].parent \in Indexes /\ tx[t].actor = jobs[tx[t].parent].agent
      BY <2>1 DEF RowsOK
    <2>3. jobs[tx[t].parent] \in Job /\ Len(jobs) \in Nat
      BY <2>2, IndexFacts
    <2>4. tx[t].parent \in 1..MaxJobs
      <3>1. Len(jobs) <= MaxJobs /\ MaxJobs \in Nat
        BY <1>1, ScenarioFacts DEF JobsOK
      <3> QED
        BY <2>2, <2>3, <3>1 DEF Indexes
    <2> QED
      BY <2>2, <2>3, <2>4, JobFields
  <1>4. accounts \in SUBSET Agents /\ settings \in SUBSET Agents
    BY <1>2, <1>3
  <1>5. locked \in SUBSET (1..MaxJobs)
    BY <1>3 DEF Continuation
  <1>6. CandidatePlan(t, ranking) = q
    <2>1. CandidatePlan(t, ranking)
              = Locks(AccountShare, accounts) \o Locks(SettingsUpdate, settings) \o Locks(JobUpdate, locked)
      BY DEF CandidatePlan
    <2> QED
      BY <2>1 DEF Locks, InOrder, AccountShare, SettingsUpdate, JobUpdate, ForShare, ForUpdate
  <1>7. /\ Continuation(t) => JobUpdate(Root(t)) \in J
        /\ tx[t].op = "publish" => JobUpdate(tx[t].parent) \in J
    <2>1. Continuation(t) => Root(t) \in locked
      BY DEF Continuation, Root
    <2>2. tx[t].op = "publish" => tx[t].parent \in locked
      OBVIOUS
    <2> HIDE DEF locked
    <2> QED
      BY <2>1, <2>2
  <1> HIDE DEF accounts, settings, locked
  <1>8. /\ PlanOf(InOrder("account", TRUE, accounts), A)
        /\ PlanOf(InOrder("settings", FALSE, settings), S)
        /\ PlanOf(InOrder("job", FALSE, locked), J)
    BY <1>1, <1>4, <1>5, TablePlans
  <1>9. /\ \A l \in A, m \in S : Below(l.row, m.row)
        /\ \A l \in A \cup S, m \in J : Below(l.row, m.row)
    BY BelowTables
  <1>10. \A l \in (A \cup S) \cup J : /\ l.row[1] \in {"account", "settings", "job"}
                                      /\ l.shared => l.row[1] = "account"
    BY LockRows
  <1> HIDE DEF A, S, J
  <1>11. PlanOf(InOrder("account", TRUE, accounts) \o InOrder("settings", FALSE, settings), A \cup S)
    BY <1>8, <1>9, JoinPlans
  <1>12. PlanOf(q, (A \cup S) \cup J)
    <2> DEFINE p == InOrder("account", TRUE, accounts) \o InOrder("settings", FALSE, settings)
    <2>1. PlanOf(p, A \cup S)
      BY <1>11
    <2> HIDE DEF p
    <2>2. PlanOf(p \o InOrder("job", FALSE, locked), (A \cup S) \cup J)
      BY <1>8, <1>9, <2>1, JoinPlans
    <2> QED
      BY <2>2 DEF p
  <1> HIDE DEF q
  <1> QED
    BY <1>6, <1>7, <1>10, <1>12 DEF PlanOf

\* One agent or the fleet.
LEMMA ControlPlanFacts ==
    ASSUME scenario \in Scenarios, NEW S \in SUBSET Agents,
           NEW q, q = Locks(AccountShare, S) \o Locks(SettingsUpdate, S)
    PROVE  /\ q \in Seq(Lock) /\ Ordered(q)
           /\ \A l \in RangeOf(q) : /\ l.shared => l.row[1] = "account"
           /\ \A a \in S : SettingsUpdate(a) \in RangeOf(q)
  <1> DEFINE A == {AccountShare(a) : a \in S}
             B == {SettingsUpdate(a) : a \in S}
             p == InOrder("account", TRUE, S) \o InOrder("settings", FALSE, S)
  <1>1. q = p
    BY DEF Locks, InOrder, AccountShare, SettingsUpdate, ForShare, ForUpdate
  <1>2. PlanOf(InOrder("account", TRUE, S), A) /\ PlanOf(InOrder("settings", FALSE, S), B)
    BY TablePlans
  <1>3. \A l \in A, m \in B : Below(l.row, m.row)
    BY BelowTables
  <1>4. \A l \in A \cup B : l.shared => l.row[1] = "account"
    BY LockRows
  <1>5. \A a \in S : SettingsUpdate(a) \in B
    OBVIOUS
  <1> HIDE DEF A, B
  <1>6. PlanOf(p, A \cup B)
    BY <1>2, <1>3, JoinPlans
  <1> HIDE DEF p
  <1>7. p \in Seq(Lock) /\ Ordered(p) /\ \A l : l \in RangeOf(p) <=> l \in A \cup B
    BY <1>6 DEF PlanOf
  <1>8. p \in Seq(Lock) /\ Ordered(p) /\ (\A l \in RangeOf(p) : l.shared => l.row[1] = "account")
        /\ \A a \in S : SettingsUpdate(a) \in RangeOf(p)
    BY <1>4, <1>5, <1>7
  <1> QED
    BY <1>1, <1>8

-----------------------------------------------------------------------------
(* Steps that change their own transaction alone. *)

LEMMA SameJobs ==
    ASSUME TypeOK, TypeOK', UNCHANGED <<scenario, jobs, lastPublished>>, now <= now', JobsOK
    PROVE  /\ JobsOK' /\ QuotasStand' = QuotasStand /\ ChainStands' = ChainStands
           /\ PublicationsSpaced' = PublicationsSpaced
  <1>1. JobsOK'
    <2>1. /\ now \in Nat /\ now' \in Nat /\ Indexes' = Indexes /\ MaxJobs' = MaxJobs
          /\ \A i \in Indexes : jobs[i].created \in Nat
      BY IndexFacts, JobFields DEF TypeOK, Indexes, MaxJobs
    <2>2. \A i \in Indexes : jobs[i].created <= now'
      BY <2>1 DEF JobsOK
    <2> QED
      BY <2>1, <2>2 DEF JobsOK, Known, Used
  <1>2. QuotasStand' = QuotasStand
    BY DEF QuotasStand, AgentQuotasStand, TriggerStands, HumanStands, SpacingAllows, DayAllows,
           CooldownAllows, ConversationAllows, TriggerAllows, HumanAllows, RankAmong, UpTo, Before,
           OfAgent, SameReservation, SameCooldown, SameTrigger, Day, DayLength, Indexes, Policy
  <1>3. ChainStands' = ChainStands
    BY DEF ChainStands, Chain, Indexes
  <1>4. PublicationsSpaced' = PublicationsSpaced
    BY DEF PublicationsSpaced, Indexes, Policy
  <1> QED
    BY <1>1, <1>2, <1>3, <1>4

LEMMA SameRows ==
    ASSUME TypeOK, UNCHANGED <<scenario, jobs, enabled, disabled, lastPublished>>, now <= now',
           NEW t, tx'[t] = tx[t]
    PROVE  Grown /\ Undisturbed(t)
  <1>1. Len(jobs) \in Nat /\ Indexes' = Indexes
    BY Elements DEF TypeOK, Indexes
  <1>2. Grown
    BY <1>1 DEF Grown, Fixed
  <1>3. (\A a : OfAgent(a)' = OfAgent(a)) /\ (\A r : Chain(r)' = Chain(r))
    BY <1>1 DEF OfAgent, Chain
  <1> QED
    BY <1>1, <1>2, <1>3 DEF Undisturbed

LEMMA OwnStep ==
    ASSUME AdmissionInv, TypeOK', NEW t \in Txs, NEW x, tx' = [tx EXCEPT ![t] = x],
           UNCHANGED <<scenario, jobs, enabled, disabled, lastPublished>>, now <= now',
           TxOK(t)',
           \A u \in Txs \ {t} : \A l \in x.held, m \in tx[u].held : l.row = m.row => l.shared /\ m.shared
    PROVE  AdmissionInv'
  <1>1. TypeOK /\ JobsOK /\ QuotasStand /\ ChainStands /\ PublicationsSpaced
    BY DEF AdmissionInv
  <1>2. JobsOK' /\ QuotasStand' /\ ChainStands' /\ PublicationsSpaced'
    BY <1>1, SameJobs
  <1>3. tx'[t] = x /\ \A u \in Txs \ {t} : tx'[u] = tx[u]
    BY <1>1 DEF TypeOK
  <1>4. \A u \in Txs : TxOK(u)'
    <2>1. ASSUME NEW u \in Txs \ {t} PROVE TxOK(u)'
      <3>1. Grown /\ Undisturbed(u) /\ TxOK(u)
        BY <1>1, <1>3, SameRows DEF AdmissionInv
      <3> QED
        BY <1>1, <3>1, OthersKeep
    <2> QED
      BY <2>1
  <1>5. Exclusive'
    <2> SUFFICES ASSUME NEW u \in Txs, NEW v \in Txs, u # v, NEW l \in tx'[u].held, NEW m \in tx'[v].held,
                        l.row = m.row
                 PROVE  l.shared /\ m.shared
      BY DEF Exclusive
    <2>1. CASE u # t /\ v # t
      BY <1>3, <2>1 DEF AdmissionInv, Exclusive
    <2>2. CASE u = t
      BY <1>3, <2>2
    <2>3. CASE v = t
      BY <1>3, <2>3
    <2> QED
      BY <2>1, <2>2, <2>3
  <1> QED
    BY <1>2, <1>4, <1>5 DEF AdmissionInv

\* A step that takes no lock.
LEMMA NoLockStep ==
    ASSUME AdmissionInv, NEW t \in Txs, NEW x \in Transaction, x.held \subseteq tx[t].held,
           tx' = [tx EXCEPT ![t] = x], UNCHANGED <<scenario, jobs, enabled, disabled, lastPublished, tags>>,
           now' \in Nat, now <= now', TxOK(t)'
    PROVE  AdmissionInv'
  <1>1. TypeOK'
    <2>1. Transaction' = Transaction /\ Job' = Job
      BY DEF Transaction, Job, Lock, Row, Operations, Agents, Humans, MaxJobs
    <2>2. tx' \in [Txs -> Transaction]
      BY DEF AdmissionInv, TypeOK
    <2> QED
      BY <2>1, <2>2 DEF AdmissionInv, TypeOK, Agents
  <1>2. \A u \in Txs \ {t} : \A l \in x.held, m \in tx[u].held : l.row = m.row => l.shared /\ m.shared
    BY DEF AdmissionInv, Exclusive
  <1> QED
    BY <1>1, <1>2, OwnStep

LEMMA IdleTyped ==
    ASSUME scenario \in Scenarios
    PROVE  Idle \in Transaction /\ <<>> \in Rankings(Agents)
  <1>1. <<>> \in Rankings(Agents)
    <2>1. IsFiniteSet(Agents) /\ <<>> \in Seq(Agents) /\ Len(<<>>) = 0 /\ 1..0 = {}
      BY ScenarioFacts
    <2> QED
      BY <2>1, IsRanking
  <1>2. 0 \in 0..MaxJobs /\ <<>> \in Seq(Lock)
    BY ScenarioFacts
  <1> QED
    BY <1>1, <1>2 DEF Idle, Transaction

LEMMA IdleOK == \A t : tx[t] = Idle => TxOK(t)
  <1> SUFFICES ASSUME NEW t, tx[t] = Idle PROVE TxOK(t)
    OBVIOUS
  <1>1. /\ tx[t].pc = "idle" /\ tx[t].op = "none" /\ tx[t].plan = <<>> /\ tx[t].held = {} /\ tx[t].post = 0
    BY DEF Idle
  <1>2. RangeOf(<<>>) = {} /\ DOMAIN <<>> = {}
    BY DEF RangeOf
  <1>3. Cardinality(Posts) \in Nat
    BY PostsFacts
  <1>4. FieldsOK(t)
    BY <1>1, <1>3 DEF FieldsOK, Control, Counted, Known
  <1>5. LocksOK(t)
    BY <1>1, <1>2 DEF LocksOK, Ordered, Taken
  <1>6. RowsOK(t) /\ AccountsOK(t) /\ CountedOK(t) /\ ChosenOK(t)
    BY <1>1 DEF RowsOK, AccountsOK, CountedOK, ChosenOK, Human, HumanKinds, Continuation, Admission, Counted
  <1> QED
    BY <1>4, <1>5, <1>6 DEF TxOK

LEMMA IdleNext == (\A t : tx[t] = Idle => TxOK(t))'
  BY IdleOK, PTL

LEMMA RollbackStep ==
    ASSUME AdmissionInv, NEW t \in Txs, Rollback(t)
    PROVE  AdmissionInv'
  <1>1. Idle \in Transaction /\ Idle.held = {} /\ now \in Nat
    BY IdleTyped DEF AdmissionInv, TypeOK, Idle
  <1>2. tx' = [tx EXCEPT ![t] = Idle] /\ UNCHANGED <<scenario, jobs, enabled, disabled, lastPublished, now, tags>>
    BY DEF Rollback
  <1>3. tx'[t] = Idle
    BY <1>2 DEF AdmissionInv, TypeOK
  <1>4. TxOK(t)'
    BY <1>3, IdleNext
  <1>5. /\ Idle.held \subseteq tx[t].held /\ now' \in Nat /\ now <= now'
        /\ UNCHANGED <<scenario, jobs, enabled, disabled, lastPublished, tags>>
    BY <1>1, <1>2
  <1> QED
    BY <1>1, <1>2, <1>4, <1>5, NoLockStep

ControlKinds == {"pause", "resume", "disable"}

LEMMA BeginStep ==
    ASSUME AdmissionInv, NEW t \in Txs, NEW x \in Transaction, Begin(t, x),
           x.held = {}, x.pc \notin {"idle", "counted"}, x.op # "none",
           x.pc = "considered" <=> x.op \in ControlKinds,
           x.op = "schedule" => x.pc # "source", x.op = "continue" => x.post # 0,
           Known(x.post), Ordered(x.plan),
           \A l \in RangeOf(x.plan) : /\ l.shared => l.row[1] = "account"
                                      /\ x.pc = "source" => l.row[1] \in {"human", "post", "tag"},
           RowsOK(t)'
    PROVE  AdmissionInv'
  <1>1. tx' = [tx EXCEPT ![t] = x] /\ UNCHANGED <<scenario, jobs, enabled, disabled, lastPublished, now, tags>>
    BY DEF Begin
  <1>2. tx'[t] = x /\ now' \in Nat /\ now <= now'
    BY <1>1 DEF AdmissionInv, TypeOK
  <1>3. Known(x.post)'
    BY <1>1 DEF Known, Used, Indexes
  <1>4. FieldsOK(t)'
    <2>1. Control(t)' <=> x.op \in ControlKinds
      BY <1>2 DEF Control, ControlKinds
    <2>2. ~Counted(t)'
      BY <1>2, <2>1 DEF Counted
    <2>3. Known(tx[t].post)'
      BY <1>2, <1>3 DEF Known
    <2> QED
      BY <1>2, <2>1, <2>2, <2>3 DEF FieldsOK
  <1>5. LocksOK(t)'
    <2>1. Taken(t)' = RangeOf(x.plan)
      BY <1>2 DEF Taken, RangeOf
    <2>2. Ordered(tx[t].plan)' /\ (tx[t].held)' = {} /\ (tx[t].pc)' = x.pc
      BY <1>2 DEF Ordered, Below
    <2> QED
      BY <2>1, <2>2 DEF LocksOK
  <1>6. AccountsOK(t)'
    BY <1>2 DEF AccountsOK, Holds
  <1>7. CountedOK(t)' /\ ChosenOK(t)'
    <2>1. ~Counted(t)'
      BY <1>2 DEF Counted, Control, ControlKinds
    <2> QED
      BY <2>1 DEF CountedOK, ChosenOK
  <1>8. x.held \subseteq tx[t].held
    OBVIOUS
  <1>9. TxOK(t)'
    BY <1>4, <1>5, <1>6, <1>7 DEF TxOK
  <1> QED
    BY <1>1, <1>2, <1>8, <1>9, NoLockStep

LEMMA KnownPosts ==
    ASSUME NEW p \in Nat, p <= Cardinality(Posts)
    PROVE  Known(p)
  BY PostsFacts DEF Known

LEMMA HumanActsStep ==
    ASSUME AdmissionInv, NEW t \in Txs, NEW kind \in HumanKinds, NEW h \in Humans, NEW p \in Posts,
           NEW tagged \in SUBSET scenario.tags, HumanActs(t, kind, h, p, tagged)
    PROVE  AdmissionInv'
  <1> DEFINE q == SourcePlan(kind, h, p) \o TagPlan(tagged)
             post == IF kind \in {"reply", "repost"} THEN p ELSE 0
             x == [Idle EXCEPT !.pc = "source", !.op = kind, !.actor = h, !.post = post, !.plan = q]
  <1>1. scenario \in Scenarios
    BY DEF AdmissionInv, TypeOK
  <1>2. Begin(t, x) /\ kind \in Operations /\ (kind \in {"reply", "repost"} => tagged = {})
    BY DEF HumanActs
  <1>3. /\ q \in Seq(Lock) /\ Ordered(q) /\ ForUpdate("human", h) \in RangeOf(q)
        /\ \A l \in RangeOf(q) : l.row[1] \in {"human", "post", "tag"} /\ ~l.shared
    BY <1>1, <1>2, SourcePlanFacts
  <1> HIDE DEF q
  <1>4. post \in Nat /\ Known(post) /\ h \in Nat
    <2>1. p \in Nat /\ p <= Cardinality(Posts) /\ 0 <= Cardinality(Posts)
      BY PostsFacts
    <2> QED
      BY <1>1, <2>1, KnownPosts, ScenarioFacts
  <1> HIDE DEF post
  <1>5. x \in Transaction
    BY <1>1, <1>2, <1>3, <1>4, IdleTyped DEF Idle, Transaction
  <1>6. /\ x.held = {} /\ x.pc = "source" /\ x.op = kind /\ x.post = post /\ x.plan = q /\ x.actor = h
    BY DEF Idle
  <1> HIDE DEF x
  <1>7. tx'[t] = x
    BY <1>2 DEF Begin, AdmissionInv, TypeOK
  <1>8. RowsOK(t)'
    <2>1. ForUpdate("human", tx[t].actor)' = ForUpdate("human", h) /\ Taken(t)' = RangeOf(q)
      BY <1>6, <1>7 DEF ForUpdate, Taken, RangeOf
    <2>2. kind \notin {"publish", "continue", "schedule", "pause", "resume", "disable"}
      BY DEF HumanKinds
    <2> QED
      BY <1>3, <1>6, <1>7, <2>1, <2>2 DEF RowsOK, Continuation
  <1>9. kind \notin {"none", "schedule", "continue"} /\ kind \notin ControlKinds
    BY DEF HumanKinds, ControlKinds
  <1> QED
    BY <1>2, <1>3, <1>4, <1>5, <1>6, <1>8, <1>9, BeginStep

LEMMA ResultPostKnown ==
    ASSUME AdmissionInv, NEW j \in Indexes
    PROVE  /\ jobs[j].post \in Nat /\ Known(jobs[j].post) /\ jobs[j].agent \in Agents
           /\ PostOf(jobs[j].result) \in Nat /\ Known(PostOf(jobs[j].result))
           /\ j \in 0..MaxJobs /\ jobs[j].agent \in Nat
  <1>1. jobs[j] \in Job /\ Len(jobs) \in Nat /\ j \in 1..Len(jobs) /\ scenario \in Scenarios
    BY IndexFacts DEF AdmissionInv, Indexes, TypeOK
  <1>2. /\ jobs[j].post \in Nat /\ jobs[j].agent \in Agents /\ jobs[j].result \in Nat
        /\ Cardinality(Posts) \in Nat
    BY <1>1, JobFields, PostsFacts
  <1>3. Known(jobs[j].post)
    BY DEF AdmissionInv, JobsOK
  <1>4. PostOf(jobs[j].result) \in Nat /\ PostOf(jobs[j].result) - Cardinality(Posts) = jobs[j].result
    BY <1>2 DEF PostOf
  <1>5. Used(jobs[j].result)
    BY DEF Used
  <1>6. Known(PostOf(jobs[j].result))
    BY <1>4, <1>5 DEF Known
  <1>7. j \in 0..MaxJobs
    <2>1. Len(jobs) <= MaxJobs /\ MaxJobs \in Nat
      BY <1>1, ScenarioFacts DEF AdmissionInv, JobsOK
    <2> QED
      BY <1>1, <2>1
  <1>8. jobs[j].agent \in Nat
    BY <1>1, <1>2, ScenarioFacts
  <1> QED
    BY <1>2, <1>3, <1>4, <1>6, <1>7, <1>8

LEMMA BeginPublicationStep ==
    ASSUME AdmissionInv, NEW t \in Txs, NEW j \in Indexes, NEW tagged \in SUBSET scenario.tags,
           BeginPublication(t, j, tagged)
    PROVE  AdmissionInv'
  <1> DEFINE q == IF jobs[j].post = 0 THEN TagPlan(tagged) ELSE <<ForUpdate("post", jobs[j].post)>>
             post == ResultPost(j)
             x == [Idle EXCEPT !.pc = "source", !.op = "publish", !.actor = jobs[j].agent,
                               !.post = post, !.parent = j, !.plan = q]
  <1>1. scenario \in Scenarios
    BY DEF AdmissionInv, TypeOK
  <1>2. Begin(t, x) /\ "publish" \in Operations
    BY DEF BeginPublication
  <1>3. /\ q \in Seq(Lock) /\ Ordered(q)
        /\ \A l \in RangeOf(q) : l.row[1] \in {"human", "post", "tag"} /\ ~l.shared
    <2>1. CASE jobs[j].post = 0
      <3>1. PlanOf(TagPlan(tagged), {TagInsert(g) : g \in tagged})
        BY <1>1, TablePlans
      <3>2. \A l \in {TagInsert(g) : g \in tagged} : l.row[1] \in {"human", "post", "tag"} /\ ~l.shared
        BY LockRows
      <3> QED
        BY <2>1, <3>1, <3>2 DEF PlanOf
    <2>2. CASE jobs[j].post # 0
      <3> DEFINE l == ForUpdate("post", jobs[j].post)
      <3>1. l \in Lock /\ l.row[1] = "post" /\ ~l.shared
        BY <1>1, ResultPostKnown, LockTypes, LockRows
      <3> HIDE DEF l
      <3>2. PlanOf(<<l>>, {l})
        BY <3>1, OneLock
      <3>3. q = <<l>>
        BY <2>2 DEF l
      <3> HIDE DEF q
      <3> QED
        BY <3>1, <3>2, <3>3 DEF PlanOf
    <2> QED
      BY <2>1, <2>2
  <1> HIDE DEF q
  <1>4. post \in Nat /\ Known(post) /\ jobs[j].agent \in Nat /\ j \in 0..MaxJobs
    BY ResultPostKnown DEF ResultPost
  <1> HIDE DEF post
  <1>5. x \in Transaction
    BY <1>1, <1>2, <1>3, <1>4, IdleTyped DEF Idle, Transaction
  <1>6. /\ x.held = {} /\ x.pc = "source" /\ x.op = "publish" /\ x.post = post /\ x.plan = q
        /\ x.actor = jobs[j].agent /\ x.parent = j
    BY DEF Idle
  <1> HIDE DEF x
  <1>7. tx'[t] = x /\ jobs' = jobs
    BY <1>2 DEF Begin, AdmissionInv, TypeOK
  <1>8. RowsOK(t)'
    BY <1>6, <1>7 DEF RowsOK, Continuation, Human, HumanKinds, Indexes
  <1> QED
    BY <1>2, <1>3, <1>4, <1>5, <1>6, <1>8, BeginStep DEF ControlKinds

LEMMA BeginContinuationsStep ==
    ASSUME AdmissionInv, NEW t \in Txs, NEW j \in Indexes, BeginContinuations(t, j)
    PROVE  AdmissionInv'
  <1> DEFINE post == IF jobs[j].post = 0 THEN PostOf(jobs[j].result) ELSE jobs[j].post
             l == ForUpdate("post", post)
             q == <<l>>
             x == [Idle EXCEPT !.pc = "source", !.op = "continue", !.actor = jobs[j].agent,
                               !.post = post, !.parent = j, !.plan = q]
  <1>1. scenario \in Scenarios
    BY DEF AdmissionInv, TypeOK
  <1>2. Begin(t, x) /\ "continue" \in Operations /\ jobs[j].finished > 0
    BY DEF BeginContinuations
  <1>3. post \in Nat /\ Known(post) /\ jobs[j].agent \in Nat /\ j \in 0..MaxJobs /\ post # 0
    <2>1. jobs[j].result # 0 /\ jobs[j].result \in Nat /\ Cardinality(Posts) \in Nat
      BY <1>2, IndexFacts, JobFields, PostsFacts DEF AdmissionInv, JobsOK
    <2>2. PostOf(jobs[j].result) # 0
      BY <2>1 DEF PostOf
    <2> QED
      BY <2>2, ResultPostKnown
  <1> HIDE DEF post
  <1>4. l \in Lock /\ l.row[1] = "post" /\ ~l.shared
    BY <1>1, <1>3, LockTypes, LockRows
  <1> HIDE DEF l
  <1>5. PlanOf(q, {l})
    BY <1>4, OneLock
  <1> HIDE DEF q
  <1>6. q \in Seq(Lock) /\ Ordered(q) /\ \A m \in RangeOf(q) : m = l
    BY <1>5 DEF PlanOf
  <1>7. x \in Transaction
    BY <1>1, <1>2, <1>3, <1>6, IdleTyped DEF Idle, Transaction
  <1>8. /\ x.held = {} /\ x.pc = "source" /\ x.op = "continue" /\ x.post = post /\ x.plan = q
        /\ x.actor = jobs[j].agent /\ x.parent = j
    BY DEF Idle
  <1> HIDE DEF x
  <1>9. tx'[t] = x /\ jobs' = jobs
    BY <1>2 DEF Begin, AdmissionInv, TypeOK
  <1>10. RowsOK(t)'
    BY <1>2, <1>8, <1>9 DEF RowsOK, Continuation, Human, HumanKinds, Indexes
  <1>11. \A m \in RangeOf(x.plan) : m.row[1] \in {"human", "post", "tag"} /\ ~m.shared
    BY <1>4, <1>6, <1>8
  <1> QED
    BY <1>2, <1>3, <1>6, <1>7, <1>8, <1>10, <1>11, BeginStep DEF ControlKinds

LEMMA OneAgent ==
    ASSUME scenario \in Scenarios, NEW a \in Agents
    PROVE  <<a>> \in Rankings(Agents) /\ \A b \in RangeOf(<<a>>) : b = a
  <1>1. IsFiniteSet(Agents) /\ <<a>> \in Seq(Agents) /\ Len(<<a>>) = 1 /\ 1..1 = {1}
    BY ScenarioFacts
  <1>2. <<a>> \in Rankings(Agents)
    BY <1>1, IsRanking
  <1>3. DOMAIN <<a>> = {1} /\ <<a>>[1] = a
    OBVIOUS
  <1> QED
    BY <1>2, <1>3 DEF RangeOf

LEMMA BeginSlotStep ==
    ASSUME AdmissionInv, NEW t \in Txs, NEW a \in Agents, BeginSlot(t, a)
    PROVE  AdmissionInv'
  <1> DEFINE l == AccountShare(a)
             m == SettingsUpdate(a)
             q == <<l, m>>
             r == <<a>>
             x == [Idle EXCEPT !.pc = "discovered", !.op = "schedule", !.candidates = r, !.plan = q]
  <1>1. scenario \in Scenarios
    BY DEF AdmissionInv, TypeOK
  <1>2. Begin(t, x) /\ "schedule" \in Operations
    BY DEF BeginSlot
  <1>3. l \in Lock /\ m \in Lock /\ Below(l.row, m.row) /\ l.row[1] = "account" /\ ~m.shared
    BY <1>1, LockTypes, LockRows, BelowTables
  <1>4. r \in Rankings(Agents) /\ \A b \in RangeOf(r) : b = a
    BY <1>1, OneAgent
  <1> HIDE DEF l, m, r
  <1>5. PlanOf(q, {l, m})
    BY <1>3, TwoLocks
  <1> HIDE DEF q
  <1>6. q \in Seq(Lock) /\ Ordered(q) /\ \A n : n \in RangeOf(q) <=> n = l \/ n = m
    BY <1>5 DEF PlanOf
  <1>7. x \in Transaction
    BY <1>1, <1>2, <1>4, <1>6, IdleTyped DEF Idle, Transaction
  <1>8. /\ x.held = {} /\ x.pc = "discovered" /\ x.op = "schedule" /\ x.post = 0 /\ x.plan = q
        /\ x.candidates = r
    BY DEF Idle
  <1> HIDE DEF x
  <1>9. tx'[t] = x
    BY <1>2 DEF Begin, AdmissionInv, TypeOK
  <1>10. RowsOK(t)'
    <2>1. Taken(t)' = RangeOf(q) \cup {} /\ RangeOf(tx[t].candidates)' = RangeOf(r)
      BY <1>8, <1>9 DEF Taken, RangeOf
    <2>2. \A b \in RangeOf(r) : AccountShare(b) \in RangeOf(q)
      BY <1>4, <1>6 DEF l
    <2>3. (\A b \in RangeOf(tx[t].candidates) : AccountShare(b) \in Taken(t))'
      BY <2>1, <2>2 DEF AccountShare, ForShare
    <2> QED
      BY <1>8, <1>9, <2>3 DEF RowsOK, Continuation, Human, HumanKinds
  <1>11. \A n \in RangeOf(x.plan) : n.shared => n.row[1] = "account"
    BY <1>3, <1>6, <1>8
  <1>12. Known(0)
    BY PostsFacts, KnownPosts
  <1> QED
    BY <1>2, <1>6, <1>7, <1>8, <1>10, <1>11, <1>12, BeginStep DEF ControlKinds

LEMMA BeginControlStep ==
    ASSUME AdmissionInv, NEW t \in Txs, NEW op \in {"pause", "resume"},
           NEW S \in {Agents} \cup {{a} : a \in Agents}, BeginControl(t, op, S)
    PROVE  AdmissionInv'
  <1> DEFINE q == Locks(AccountShare, S) \o Locks(SettingsUpdate, S)
             x == [Idle EXCEPT !.pc = "considered", !.op = op, !.targets = S, !.plan = q]
  <1>1. scenario \in Scenarios /\ S \in SUBSET Agents
    BY DEF AdmissionInv, TypeOK
  <1>2. Begin(t, x) /\ op \in Operations
    BY DEF BeginControl
  <1>3. /\ q \in Seq(Lock) /\ Ordered(q)
        /\ \A l \in RangeOf(q) : l.shared => l.row[1] = "account"
        /\ \A a \in S : SettingsUpdate(a) \in RangeOf(q)
    BY <1>1, ControlPlanFacts
  <1> HIDE DEF q
  <1>4. x \in Transaction
    BY <1>1, <1>2, <1>3, IdleTyped DEF Idle, Transaction
  <1>5. /\ x.held = {} /\ x.pc = "considered" /\ x.op = op /\ x.post = 0 /\ x.plan = q
        /\ x.targets = S
    BY DEF Idle
  <1> HIDE DEF x
  <1>6. tx'[t] = x
    BY <1>2 DEF Begin, AdmissionInv, TypeOK
  <1>7. RowsOK(t)'
    <2>1. Taken(t)' = RangeOf(q) \cup {}
      BY <1>5, <1>6 DEF Taken, RangeOf
    <2>2. (\A a \in tx[t].targets : SettingsUpdate(a) \in Taken(t))'
      BY <1>3, <1>5, <1>6, <2>1 DEF SettingsUpdate, ForUpdate
    <2> QED
      BY <1>5, <1>6, <2>2 DEF RowsOK, Continuation, Human, HumanKinds
  <1>8. Known(0)
    BY PostsFacts, KnownPosts
  <1> QED
    BY <1>2, <1>3, <1>4, <1>5, <1>7, <1>8, BeginStep DEF ControlKinds

LEMMA BeginDisableStep ==
    ASSUME AdmissionInv, NEW t \in Txs, NEW a \in Agents, BeginDisable(t, a)
    PROVE  AdmissionInv'
  <1> DEFINE l == ForUpdate("account", a)
             q == <<l>>
             x == [Idle EXCEPT !.pc = "considered", !.op = "disable", !.targets = {a}, !.plan = q]
  <1>1. scenario \in Scenarios
    BY DEF AdmissionInv, TypeOK
  <1>2. Begin(t, x) /\ "disable" \in Operations
    BY DEF BeginDisable
  <1>3. l \in Lock /\ ~l.shared
    BY <1>1, LockTypes, LockRows
  <1> HIDE DEF l
  <1>4. PlanOf(q, {l})
    BY <1>3, OneLock
  <1> HIDE DEF q
  <1>5. q \in Seq(Lock) /\ Ordered(q) /\ \A m : m \in RangeOf(q) <=> m = l
    BY <1>4 DEF PlanOf
  <1>6. x \in Transaction
    BY <1>1, <1>2, <1>5, IdleTyped DEF Idle, Transaction
  <1>7. /\ x.held = {} /\ x.pc = "considered" /\ x.op = "disable" /\ x.post = 0 /\ x.plan = q
        /\ x.targets = {a}
    BY DEF Idle
  <1> HIDE DEF x
  <1>8. tx'[t] = x
    BY <1>2 DEF Begin, AdmissionInv, TypeOK
  <1>9. RowsOK(t)'
    <2>1. Taken(t)' = RangeOf(q) \cup {}
      BY <1>7, <1>8 DEF Taken, RangeOf
    <2>2. (\A b \in tx[t].targets : ForUpdate("account", b) \in Taken(t))'
      BY <1>5, <1>7, <1>8, <2>1 DEF l, ForUpdate
    <2> QED
      BY <1>7, <1>8, <2>2 DEF RowsOK, Continuation, Human, HumanKinds
  <1>10. \A m \in RangeOf(x.plan) : m.shared => m.row[1] = "account"
    BY <1>3, <1>5, <1>7
  <1>11. Known(0)
    BY PostsFacts, KnownPosts
  <1> QED
    BY <1>2, <1>5, <1>6, <1>7, <1>9, <1>10, <1>11, BeginStep DEF ControlKinds

-----------------------------------------------------------------------------
(* Taking locks. *)

\* Whether the row of the next lock exists or not, the plan goes on in order.
LEMMA AcquireStep ==
    ASSUME AdmissionInv, NEW t \in Txs, Acquire(t)
    PROVE  AdmissionInv'
  <1> DEFINE l == Head(tx[t].plan)
             held == IF NotFound(t, l) THEN tx[t].held ELSE tx[t].held \cup {l}
             rest == Tail(tx[t].plan)
             x == [tx[t] EXCEPT !.plan = rest, !.held = held]
  <1>1. tx[t] \in Transaction /\ scenario \in Scenarios /\ TxOK(t) /\ now \in Nat
    BY DEF AdmissionInv, TypeOK
  <1>2. /\ tx' = [tx EXCEPT ![t] = x] /\ tx[t].plan # <<>> /\ \A u \in Txs : ~Conflicts(t, u)
        /\ UNCHANGED <<scenario, jobs, enabled, disabled, lastPublished, now, tags>>
    BY DEF Acquire
  <1>3. tx[t].plan \in Seq(Lock) /\ tx[t].held \in SUBSET Lock
    BY <1>1, TxFields
  <1>4. /\ rest \in Seq(Lock) /\ Ordered(rest) /\ l \in Lock
        /\ RangeOf(tx[t].plan) = RangeOf(rest) \cup {l}
        /\ \A m \in RangeOf(rest) : Below(l.row, m.row)
    BY <1>1, <1>2, <1>3, NextLock DEF TxOK, LocksOK
  <1>5. /\ NotFound(t, l) => /\ Admission(t) /\ l.row[1] \in {"tag", "account", "settings"}
        /\ ~NotFound(t, l) /\ Admission(t) =>
               /\ l.row[1] = "account" => ~disabled[l.row[2]]
               /\ l.row[1] = "settings" => Holds(t, "account", l.row[2])
    BY DEF NotFound
  <1>6. held \in SUBSET Lock /\ tx[t].held \subseteq held /\ held \subseteq tx[t].held \cup {l}
        /\ (NotFound(t, l) => held = tx[t].held) /\ (~NotFound(t, l) => l \in held)
    BY <1>3, <1>4
  <1> HIDE DEF l, held, rest
  <1>7. x \in Transaction
    BY <1>1, <1>4, <1>6 DEF Transaction
  <1>8. /\ x.held = held /\ x.plan = rest /\ x.pc = tx[t].pc /\ x.op = tx[t].op
        /\ x.actor = tx[t].actor /\ x.post = tx[t].post /\ x.parent = tx[t].parent
        /\ x.targets = tx[t].targets /\ x.candidates = tx[t].candidates
    BY <1>1 DEF Transaction
  <1> HIDE DEF x
  <1>9. TypeOK'
    <2>1. Transaction' = Transaction /\ Job' = Job
      BY <1>2 DEF Transaction, Job, Lock, Row, Operations, Agents, Humans, MaxJobs
    <2>2. tx' \in [Txs -> Transaction]
      BY <1>2, <1>7 DEF AdmissionInv, TypeOK
    <2> QED
      BY <1>2, <2>1, <2>2 DEF AdmissionInv, TypeOK, Agents
  <1>10. tx'[t] = x
    BY <1>2 DEF AdmissionInv, TypeOK
  <1>11. /\ Human(t)' = Human(t) /\ Continuation(t)' = Continuation(t) /\ Control(t)' = Control(t)
         /\ Admission(t)' = Admission(t) /\ Counted(t)' = Counted(t)
    BY <1>8, <1>10 DEF Human, Continuation, Control, Admission, Counted
  <1>12. ~Counted(t)
    BY <1>1, <1>2 DEF TxOK, FieldsOK
  <1>13. FieldsOK(t)'
    <2>1. tx[t].pc # "idle"
      BY <1>1, <1>2 DEF TxOK, FieldsOK, Idle
    <2>2. Known(tx[t].post)'
      BY <1>1, <1>2, <1>8, <1>10 DEF TxOK, FieldsOK, Known, Used, Indexes
    <2> QED
      BY <1>1, <1>8, <1>10, <1>11, <1>12, <2>1, <2>2 DEF TxOK, FieldsOK
  <1>14. Taken(t)' = held \cup RangeOf(rest) /\ Taken(t) = tx[t].held \cup RangeOf(tx[t].plan)
    BY <1>8, <1>10 DEF Taken, RangeOf
  <1>15. /\ Taken(t)' \subseteq Taken(t)
         /\ ~NotFound(t, l) => Taken(t)' = Taken(t)
         /\ \A m \in Taken(t) : m.row[1] \in {"human", "post", "job"} => m \in Taken(t)'
    BY <1>4, <1>5, <1>6, <1>14
  <1>16. LocksOK(t)'
    <2>1. Ordered(tx[t].plan)'
      BY <1>4, <1>8, <1>10 DEF Ordered, Below
    <2>2. \A k \in held, m \in RangeOf(rest) : Below(k.row, m.row)
      BY <1>1, <1>4, <1>6 DEF TxOK, LocksOK
    <2>3. (\A k \in tx[t].held, m \in RangeOf(tx[t].plan) : Below(k.row, m.row))'
      BY <1>8, <1>10, <2>2 DEF RangeOf, Below
    <2>4. (\A m \in Taken(t) : /\ m.shared => m.row[1] = "account"
                               /\ tx[t].pc = "source" => m.row[1] \in {"human", "post", "tag"})'
      BY <1>1, <1>8, <1>10, <1>15 DEF TxOK, LocksOK
    <2> QED
      BY <2>1, <2>3, <2>4 DEF LocksOK
  <1>17. RowsOK(t)'
    <2>1. RowsOK(t) /\ scenario' = scenario /\ jobs' = jobs /\ Indexes' = Indexes /\ Root(t)' = Root(t)
      BY <1>1, <1>2, <1>8, <1>10 DEF TxOK, Indexes, Root
    <2>2. /\ ForUpdate("human", tx[t].actor).row[1] = "human" /\ JobUpdate(Root(t)).row[1] = "job"
          /\ JobUpdate(tx[t].parent).row[1] = "job"
      BY LockRows
    <2>3. Human(t) => ForUpdate("human", tx[t].actor) \in Taken(t)'
      BY <1>15, <2>1, <2>2 DEF RowsOK
    <2>4. Continuation(t) =>
              /\ tx[t].parent \in Indexes
              /\ tx[t].actor = jobs[tx[t].parent].agent
              /\ tx[t].op = "continue" => jobs[tx[t].parent].finished > 0
              /\ tx[t].pc # "source" => JobUpdate(Root(t)) \in Taken(t)'
              /\ tx[t].pc # "source" /\ tx[t].op = "publish" => JobUpdate(tx[t].parent) \in Taken(t)'
      BY <1>15, <2>1, <2>2 DEF RowsOK
    <2>5. tx[t].op \in {"schedule", "pause", "resume", "disable"} => Taken(t)' = Taken(t)
      BY <1>5, <1>15 DEF Admission, Human, HumanKinds, Continuation
    <2>6. tx[t].op = "schedule" => \A a \in RangeOf(tx[t].candidates) : AccountShare(a) \in Taken(t)'
      BY <2>1, <2>5 DEF RowsOK
    <2>7. tx[t].op \in {"pause", "resume"} => \A a \in tx[t].targets : SettingsUpdate(a) \in Taken(t)'
      BY <2>1, <2>5 DEF RowsOK
    <2>8. tx[t].op = "disable" => \A a \in tx[t].targets : ForUpdate("account", a) \in Taken(t)'
      BY <2>1, <2>5 DEF RowsOK
    <2>9. RangeOf(tx[t].candidates)' = RangeOf(tx[t].candidates)
      BY <1>8, <1>10 DEF RangeOf
    <2>10. ForUpdate("human", tx[t].actor)' = ForUpdate("human", tx[t].actor)
           /\ JobUpdate(Root(t))' = JobUpdate(Root(t)) /\ JobUpdate(tx[t].parent)' = JobUpdate(tx[t].parent)
      BY <1>8, <1>10, <2>1 DEF ForUpdate, JobUpdate
    <2> QED
      BY <1>8, <1>10, <1>11, <2>1, <2>3, <2>4, <2>6, <2>7, <2>8, <2>9, <2>10
         DEF RowsOK, AccountShare, ForShare, SettingsUpdate, ForUpdate
  <1>18. AccountsOK(t)'
    <2> SUFFICES ASSUME Admission(t) PROVE AccountsOK(t)'
      BY <1>11 DEF AccountsOK
    <2>1. \A a \in Agents : /\ Holds(t, "account", a) => ~disabled[a]
                            /\ Holds(t, "settings", a) => Holds(t, "account", a)
      BY <1>1 DEF TxOK, AccountsOK
    <2>2. \A table, id : Holds(t, table, id) => Holds(t, table, id)'
      BY <1>6, <1>8, <1>10 DEF Holds
    <2>3. \A table, id : Holds(t, table, id)' => \/ Holds(t, table, id)
                                                 \/ ~NotFound(t, l) /\ l.row = <<table, id>>
      BY <1>6, <1>8, <1>10 DEF Holds
    <2>4. ASSUME NEW a \in Agents, Holds(t, "account", a)' PROVE ~disabled[a]
      BY <1>5, <2>1, <2>3, <2>4
    <2>5. ASSUME NEW a \in Agents, Holds(t, "settings", a)' PROVE Holds(t, "account", a)
      BY <1>5, <2>1, <2>3, <2>5
    <2>6. \A a \in Agents : /\ Holds(t, "account", a)' => ~disabled'[a]
                            /\ Holds(t, "settings", a)' => Holds(t, "account", a)'
      BY <1>2, <2>2, <2>4, <2>5
    <2>7. Agents' = Agents
      BY <1>2 DEF Agents
    <2>8. (\A a \in Agents : /\ Holds(t, "account", a) => ~disabled[a]
                             /\ Holds(t, "settings", a) => Holds(t, "account", a))'
      BY <2>6, <2>7
    <2> QED
      BY <2>8 DEF AccountsOK
  <1>19. CountedOK(t)' /\ ChosenOK(t)'
    BY <1>11, <1>12 DEF CountedOK, ChosenOK
  <1>20. \A u \in Txs \ {t} : \A k \in x.held, m \in tx[u].held : k.row = m.row => k.shared /\ m.shared
    <2> SUFFICES ASSUME NEW u \in Txs \ {t}, NEW k \in held, NEW m \in tx[u].held, k.row = m.row
                 PROVE  k.shared /\ m.shared
      BY <1>8
    <2>1. CASE k \in tx[t].held
      BY <2>1 DEF AdmissionInv, Exclusive
    <2>2. CASE k = l
      BY <1>2, <2>2 DEF Conflicts, l
    <2> QED
      BY <1>6, <2>1, <2>2
  <1>21. TxOK(t)' /\ now <= now' /\ UNCHANGED <<scenario, jobs, enabled, disabled, lastPublished>>
    BY <1>1, <1>2, <1>13, <1>16, <1>17, <1>18, <1>19 DEF TxOK
  <1>22. tx' = [tx EXCEPT ![t] = x]
    BY <1>2
  <1> QED
    BY <1>9, <1>20, <1>21, <1>22, OwnStep

LEMMA DiscoverStep ==
    ASSUME AdmissionInv, NEW t \in Txs, NEW ranking \in Rankings(Agents), Discover(t, ranking)
    PROVE  AdmissionInv'
  <1> DEFINE q == CandidatePlan(t, ranking)
             x == [tx[t] EXCEPT !.pc = "discovered", !.candidates = ranking, !.plan = q]
  <1>1. tx[t] \in Transaction /\ scenario \in Scenarios /\ TxOK(t) /\ now \in Nat /\ TypeOK /\ JobsOK
    BY DEF AdmissionInv, TypeOK
  <1>2. /\ tx' = [tx EXCEPT ![t] = x] /\ tx[t].plan = <<>> /\ tx[t].pc = "source"
        /\ UNCHANGED <<scenario, jobs, enabled, disabled, lastPublished, now, tags>>
    BY DEF Discover
  <1>3. tx'[t] = x
    BY <1>2 DEF AdmissionInv, TypeOK
  <1>4. Admission(t) /\ ~Control(t) /\ tx[t].op \notin {"none", "schedule"}
    <2>1. tx[t].op \in Operations \cup {"none"} /\ Operations \subseteq AllOperations
      BY <1>1, TxFields, ScenarioFacts
    <2>2. ~Control(t) /\ tx[t].op # "none" /\ tx[t].op # "schedule"
      BY <1>1, <1>2 DEF TxOK, FieldsOK
    <2> QED
      BY <2>1, <2>2 DEF AllOperations, Admission, Human, Continuation, Control
  <1>5. /\ q \in Seq(Lock) /\ Ordered(q)
        /\ \A l \in RangeOf(q) : /\ l.row[1] \in {"account", "settings", "job"}
                                 /\ l.shared => l.row[1] = "account"
        /\ Continuation(t) => JobUpdate(Root(t)) \in RangeOf(q)
        /\ tx[t].op = "publish" => JobUpdate(tx[t].parent) \in RangeOf(q)
    BY <1>1, <1>4, CandidatePlanFacts DEF TxOK
  <1> HIDE DEF q
  <1>6. x \in Transaction
    BY <1>1, <1>5 DEF Transaction
  <1>7. /\ x.held = tx[t].held /\ x.plan = q /\ x.pc = "discovered" /\ x.op = tx[t].op
        /\ x.actor = tx[t].actor /\ x.post = tx[t].post /\ x.parent = tx[t].parent
        /\ x.targets = tx[t].targets
    BY <1>1 DEF Transaction
  <1> HIDE DEF x
  <1>8. /\ Human(t)' = Human(t) /\ Continuation(t)' = Continuation(t) /\ ~Control(t)'
        /\ Admission(t)' /\ ~Counted(t)'
    BY <1>3, <1>4, <1>7 DEF Human, Continuation, Control, Admission, Counted
  <1>9. FieldsOK(t)'
    <2>1. Known(tx[t].post)'
      BY <1>1, <1>2, <1>3, <1>7 DEF TxOK, FieldsOK, Known, Used, Indexes
    <2> QED
      BY <1>1, <1>2, <1>3, <1>4, <1>7, <1>8, <2>1 DEF TxOK, FieldsOK
  <1>10. Taken(t)' = tx[t].held \cup RangeOf(q) /\ Taken(t) = tx[t].held
    BY <1>2, <1>3, <1>7, AllHeld DEF Taken, RangeOf
  <1>11. \A l \in tx[t].held : l.row[1] \in {"human", "post", "tag"} /\ ~l.shared
    BY <1>1, <1>2, <1>10 DEF TxOK, LocksOK
  <1>12. LocksOK(t)'
    <2>1. Ordered(tx[t].plan)'
      BY <1>3, <1>5, <1>7 DEF Ordered, Below
    <2>2. \A k \in tx[t].held, m \in RangeOf(q) : Below(k.row, m.row)
      BY <1>5, <1>11, BelowTables
    <2>3. (\A k \in tx[t].held, m \in RangeOf(tx[t].plan) : Below(k.row, m.row))'
      BY <1>3, <1>7, <2>2 DEF RangeOf, Below
    <2>4. (\A m \in Taken(t) : /\ m.shared => m.row[1] = "account"
                               /\ tx[t].pc = "source" => m.row[1] \in {"human", "post", "tag"})'
      BY <1>3, <1>5, <1>7, <1>10, <1>11
    <2> QED
      BY <2>1, <2>3, <2>4 DEF LocksOK
  <1>13. RowsOK(t)'
    <2>1. RowsOK(t) /\ jobs' = jobs /\ Indexes' = Indexes /\ Root(t)' = Root(t)
      BY <1>1, <1>2, <1>3, <1>7 DEF TxOK, Indexes, Root
    <2>2. ForUpdate("human", tx[t].actor)' = ForUpdate("human", tx[t].actor)
           /\ JobUpdate(Root(t))' = JobUpdate(Root(t)) /\ JobUpdate(tx[t].parent)' = JobUpdate(tx[t].parent)
      BY <1>3, <1>7, <2>1 DEF ForUpdate, JobUpdate
    <2>3. tx[t].op \notin {"schedule", "pause", "resume", "disable"}
      BY <1>4 DEF Control
    <2> QED
      BY <1>3, <1>5, <1>7, <1>8, <1>10, <2>1, <2>2, <2>3 DEF RowsOK
  <1>14. AccountsOK(t)'
    BY <1>1, <1>2, <1>3, <1>4, <1>7 DEF TxOK, AccountsOK, Holds, Agents
  <1>15. CountedOK(t)' /\ ChosenOK(t)'
    BY <1>8 DEF CountedOK, ChosenOK
  <1>16. TxOK(t)' /\ now <= now' /\ now' \in Nat /\ x.held \subseteq tx[t].held
         /\ UNCHANGED <<scenario, jobs, enabled, disabled, lastPublished, tags>>
    BY <1>1, <1>2, <1>7, <1>9, <1>12, <1>13, <1>14, <1>15 DEF TxOK
  <1> QED
    BY <1>2, <1>6, <1>16, NoLockStep

-----------------------------------------------------------------------------
(* Counting. *)

\* A step of t between its locks and its end changes what it knows, not what it sees.
SameView(t) ==
    /\ scenario' = scenario /\ jobs' = jobs /\ enabled' = enabled /\ disabled' = disabled
    /\ lastPublished' = lastPublished
    /\ tx'[t].op = tx[t].op /\ tx'[t].actor = tx[t].actor /\ tx'[t].post = tx[t].post
    /\ tx'[t].parent = tx[t].parent /\ tx'[t].targets = tx[t].targets
    /\ tx'[t].candidates = tx[t].candidates /\ tx'[t].plan = tx[t].plan /\ tx'[t].held = tx[t].held

LEMMA ViewKinds ==
    ASSUME NEW t, SameView(t)
    PROVE  /\ Human(t)' = Human(t) /\ Continuation(t)' = Continuation(t) /\ Control(t)' = Control(t)
           /\ Admission(t)' = Admission(t) /\ TriggerKind(t)' = TriggerKind(t)
           /\ Taken(t)' = Taken(t) /\ Root(t)' = Root(t) /\ Indexes' = Indexes /\ Policy' = Policy
           /\ \A table, id : Holds(t, table, id)' = Holds(t, table, id)
  <1>1. /\ Human(t)' = Human(t) /\ Continuation(t)' = Continuation(t) /\ Control(t)' = Control(t)
        /\ TriggerKind(t)' = TriggerKind(t)
    BY DEF SameView, Human, Continuation, Control, TriggerKind
  <1>2. Taken(t)' = Taken(t) /\ Root(t)' = Root(t) /\ Indexes' = Indexes /\ Policy' = Policy
    BY DEF SameView, Taken, RangeOf, Root, Indexes, Policy
  <1> QED
    BY <1>1, <1>2 DEF SameView, Holds, Admission

LEMMA ViewEligible ==
    ASSUME NEW t, SameView(t)
    PROVE  /\ \A a : Ready(t, a)' = Ready(t, a) /\ Eligible(t, a)' = Eligible(t, a)
           /\ EligibleAgents(t)' = EligibleAgents(t) /\ HumanWindow(t)' = HumanWindow(t)
           /\ \A c : HumanJobs(t, c)' = HumanJobs(t, c)
           /\ ChainJobs(t)' = ChainJobs(t) /\ PriorActionJobs(t)' = PriorActionJobs(t)
  <1>1. \A a : Ready(t, a)' = Ready(t, a)
    BY ViewKinds DEF Ready, SameView
  <1>2. \A a : Eligible(t, a)' = Eligible(t, a)
    BY <1>1, ViewKinds DEF Eligible
  <1>3. EligibleAgents(t)' = EligibleAgents(t)
    BY <1>2 DEF EligibleAgents, SameView, RangeOf
  <1>4. HumanWindow(t)' = HumanWindow(t)
    BY <1>3, ViewKinds DEF HumanWindow
  <1>5. \A c : HumanJobs(t, c)' = HumanJobs(t, c)
    BY <1>4, ViewKinds DEF HumanJobs, SameView
  <1>6. ChainJobs(t)' = ChainJobs(t) /\ PriorActionJobs(t)' = PriorActionJobs(t)
    BY ViewKinds DEF ChainJobs, PriorActionJobs, Chain, SameView
  <1> QED
    BY <1>1, <1>2, <1>3, <1>4, <1>5, <1>6

LEMMA ViewLocks ==
    ASSUME NEW t, SameView(t), LocksOK(t), RowsOK(t), AccountsOK(t), tx[t].pc # "source", tx'[t].pc # "source"
    PROVE  LocksOK(t)' /\ RowsOK(t)' /\ AccountsOK(t)'
  <1>1. LocksOK(t)'
    <2>1. Ordered(tx[t].plan)' /\ (\A l \in tx[t].held, m \in RangeOf(tx[t].plan) : Below(l.row, m.row))'
      BY DEF LocksOK, SameView, Ordered, RangeOf, Below
    <2> QED
      BY <2>1, ViewKinds DEF LocksOK
  <1>2. RowsOK(t)'
    <2>1. /\ jobs' = jobs /\ tx'[t].op = tx[t].op /\ tx'[t].actor = tx[t].actor
          /\ tx'[t].parent = tx[t].parent /\ tx'[t].targets = tx[t].targets
          /\ RangeOf(tx[t].candidates)' = RangeOf(tx[t].candidates)
      BY DEF SameView, RangeOf
    <2>2. /\ Human(t)' = Human(t) /\ Continuation(t)' = Continuation(t)
          /\ Taken(t)' = Taken(t) /\ Root(t)' = Root(t) /\ Indexes' = Indexes
      BY ViewKinds
    <2>3. /\ ForUpdate("human", tx[t].actor)' = ForUpdate("human", tx[t].actor)
          /\ JobUpdate(Root(t))' = JobUpdate(Root(t))
          /\ JobUpdate(tx[t].parent)' = JobUpdate(tx[t].parent)
      BY <2>1, <2>2 DEF ForUpdate, JobUpdate
    <2> QED
      BY <2>1, <2>2, <2>3 DEF RowsOK, AccountShare, ForShare, SettingsUpdate, ForUpdate
  <1>3. AccountsOK(t)'
    BY ViewKinds DEF AccountsOK, SameView, Agents
  <1> QED
    BY <1>1, <1>2, <1>3

LEMMA Counts ==
    ASSUME TypeOK, NEW t \in Txs, NEW clock
    PROVE  /\ ChainJobs(t) \in Nat /\ HumanJobs(t, clock) \in Nat /\ PriorActionJobs(t) \in Nat
           /\ \A r : IsFiniteSet(Chain(r))
  <1>1. \A S : S \subseteq Indexes => Cardinality(S) \in Nat /\ IsFiniteSet(S)
    BY IndexFacts, FS_Subset, FS_CardinalityType
  <1>2. ChainJobs(t) \in Nat
    BY <1>1 DEF ChainJobs, Chain
  <1>3. HumanJobs(t, clock) \in Nat
    BY <1>1 DEF HumanJobs
  <1>4. PriorActionJobs(t) \in Nat
    BY <1>1 DEF PriorActionJobs, Chain
  <1> QED
    BY <1>1, <1>2, <1>3, <1>4 DEF Chain

\* Everything committed so far is older than the clock that is read next.
LEMMA CountStep ==
    ASSUME AdmissionInv, NEW t \in Txs, NEW clock \in Nat, clock > now, Count(t, clock)
    PROVE  AdmissionInv'
  <1> DEFINE chainJobs == IF Continuation(t) THEN ChainJobs(t) ELSE 0
             humanJobs == IF Human(t) /\ EligibleAgents(t) # {} THEN HumanJobs(t, clock) ELSE 0
             prior == PriorActionJobs(t)
             x == [tx[t] EXCEPT !.pc = "counted", !.clock = clock, !.chainJobs = chainJobs,
                                !.humanJobs = humanJobs, !.prior = prior]
  <1>1. tx[t] \in Transaction /\ TxOK(t) /\ now \in Nat /\ TypeOK /\ JobsOK
    BY DEF AdmissionInv, TypeOK
  <1>2. /\ tx' = [tx EXCEPT ![t] = x] /\ tx[t].plan = <<>> /\ tx[t].pc = "discovered" /\ now' = clock
        /\ UNCHANGED <<scenario, jobs, enabled, disabled, lastPublished, tags>>
        /\ tx[t].op = "publish" => MayPublish(t, clock)
    BY DEF Count
  <1>3. chainJobs \in Nat /\ humanJobs \in Nat /\ prior \in Nat
    BY <1>1, Counts
  <1>4. /\ Continuation(t) => chainJobs = ChainJobs(t)
        /\ Human(t) /\ EligibleAgents(t) # {} => humanJobs = HumanJobs(t, clock)
        /\ prior = PriorActionJobs(t)
    OBVIOUS
  <1> HIDE DEF chainJobs, humanJobs, prior
  <1>5. x \in Transaction
    BY <1>1, <1>3 DEF Transaction
  <1>6. /\ x.held = tx[t].held /\ x.plan = tx[t].plan /\ x.pc = "counted" /\ x.op = tx[t].op
        /\ x.actor = tx[t].actor /\ x.post = tx[t].post /\ x.parent = tx[t].parent
        /\ x.targets = tx[t].targets /\ x.candidates = tx[t].candidates /\ x.clock = clock
        /\ x.chainJobs = chainJobs /\ x.humanJobs = humanJobs /\ x.prior = prior
    BY <1>1 DEF Transaction
  <1> HIDE DEF x
  <1>7. tx'[t] = x
    BY <1>2 DEF AdmissionInv, TypeOK
  <1>8. SameView(t)
    BY <1>2, <1>6, <1>7 DEF SameView
  <1>9. LocksOK(t)' /\ RowsOK(t)' /\ AccountsOK(t)'
    BY <1>1, <1>2, <1>6, <1>7, <1>8, ViewLocks DEF TxOK
  <1>10. ~Control(t) /\ Counted(t)' /\ ~Control(t)'
    BY <1>1, <1>2, <1>6, <1>7, <1>8, ViewKinds DEF TxOK, FieldsOK, Counted
  <1>11. FieldsOK(t)'
    <2>1. Known(tx[t].post)'
      BY <1>1, <1>8 DEF TxOK, FieldsOK, Known, Used, Indexes, SameView
    <2> QED
      BY <1>1, <1>2, <1>6, <1>7, <1>10, <2>1 DEF TxOK, FieldsOK
  <1>12. \A i \in Indexes : jobs[i].created < clock
    <2>1. \A i \in Indexes : jobs[i].created \in Nat /\ jobs[i].created <= now
      BY <1>1, IndexFacts, JobFields DEF JobsOK
    <2> QED
      BY <1>1, <2>1
  <1>13. tx[t].op = "publish" =>
             /\ Holds(t, "settings", tx[t].actor)
             /\ jobs[tx[t].parent].finished = 0
             /\ lastPublished[tx[t].actor] > 0 =>
                    clock >= lastPublished[tx[t].actor] + Policy[tx[t].actor].spacing
    <2> SUFFICES ASSUME tx[t].op = "publish"
                 PROVE  /\ Holds(t, "settings", tx[t].actor)
                        /\ jobs[tx[t].parent].finished = 0
                        /\ lastPublished[tx[t].actor] > 0 =>
                               clock >= lastPublished[tx[t].actor] + Policy[tx[t].actor].spacing
      OBVIOUS
    <2>1. MayPublish(t, clock) /\ tx[t].actor = jobs[tx[t].parent].agent
      BY <1>1, <1>2 DEF TxOK, RowsOK, Continuation
    <2> QED
      BY <2>1 DEF MayPublish, Ready, ExecutionPolicyAllowed
  <1>14. CountedOK(t)'
    <2>1. /\ tx'[t].clock = clock /\ tx'[t].chainJobs = chainJobs /\ tx'[t].humanJobs = humanJobs
          /\ tx'[t].prior = prior /\ clock \in 1..now'
      BY <1>1, <1>2, <1>6, <1>7
    <2>2. HumanJobs(t, tx[t].clock)' = HumanJobs(t, clock)
      <3>1. HumanJobs(t, tx[t].clock)' = HumanJobs(t, clock)'
        BY <2>1 DEF HumanJobs
      <3> QED
        BY <1>8, <3>1, ViewEligible
    <2>3. \A a : OfAgent(a)' \subseteq Indexes
      BY <1>8, ViewKinds DEF OfAgent
    <2>4. Chain(Root(t))' \subseteq Indexes
      BY <1>8, ViewKinds DEF Chain
    <2>5. jobs' = jobs /\ Indexes' = Indexes /\ lastPublished' = lastPublished /\ Policy' = Policy
          /\ tx'[t].op = tx[t].op /\ tx'[t].actor = tx[t].actor /\ tx'[t].parent = tx[t].parent
      BY <1>8, ViewKinds DEF SameView
    <2>6. /\ Human(t)' = Human(t) /\ Continuation(t)' = Continuation(t)
          /\ \A table, id : Holds(t, table, id)' = Holds(t, table, id)
          /\ EligibleAgents(t)' = EligibleAgents(t) /\ ChainJobs(t)' = ChainJobs(t)
          /\ PriorActionJobs(t)' = PriorActionJobs(t)
      BY <1>8, ViewKinds, ViewEligible
    <2>7. (\A a \in Agents : Holds(t, "settings", a) =>
               \A i \in OfAgent(a) : jobs[i].created < tx[t].clock)'
      BY <1>12, <2>1, <2>3, <2>5
    <2>8. (Human(t) =>
               /\ \A i \in Indexes : jobs[i].actor = tx[t].actor /\ jobs[i].kind \in HumanKinds =>
                      jobs[i].created < tx[t].clock
               /\ EligibleAgents(t) # {} => tx[t].humanJobs = HumanJobs(t, tx[t].clock))'
      BY <1>4, <1>12, <2>1, <2>2, <2>5, <2>6
    <2>9. (Continuation(t) =>
               /\ \A i \in Chain(Root(t)) : jobs[i].created < tx[t].clock
               /\ tx[t].chainJobs = ChainJobs(t))'
      BY <1>4, <1>12, <2>1, <2>4, <2>5, <2>6
    <2>10. (tx[t].op = "publish" =>
               /\ Holds(t, "settings", tx[t].actor)
               /\ jobs[tx[t].parent].finished = 0
               /\ lastPublished[tx[t].actor] > 0 =>
                      tx[t].clock >= lastPublished[tx[t].actor] + Policy[tx[t].actor].spacing)'
      BY <1>13, <2>1, <2>5, <2>6
    <2>11. (tx[t].prior = PriorActionJobs(t))' /\ (tx[t].clock \in 1..now)'
      BY <1>4, <2>1, <2>6
    <2> QED
      BY <2>7, <2>8, <2>9, <2>10, <2>11 DEF CountedOK
  <1>15. ChosenOK(t)'
    BY <1>6, <1>7 DEF ChosenOK
  <1>16. TxOK(t)' /\ now <= now' /\ now' \in Nat /\ x.held \subseteq tx[t].held
         /\ UNCHANGED <<scenario, jobs, enabled, disabled, lastPublished, tags>>
    BY <1>1, <1>2, <1>6, <1>9, <1>11, <1>14, <1>15 DEF TxOK
  <1>17. tx' = [tx EXCEPT ![t] = x]
    BY <1>2
  <1> QED
    BY <1>5, <1>16, <1>17, NoLockStep

-----------------------------------------------------------------------------
(* Considering the candidates in their order. *)

\* Whether the k-th candidate is admitted after those of s.
Passes(t, drawn, k, s) ==
    LET a == tx[t].candidates[k]
    IN /\ a \in drawn
       /\ IF tx[t].op = "schedule" THEN SlotAllowed(t, a)
          ELSE Eligible(t, a) /\ Admits(t, a, Len(s))

Considered(t, drawn, k, s) ==
    IF Passes(t, drawn, k, s) THEN Append(s, tx[t].candidates[k]) ELSE s

\* The function that consideration computes, up to the n-th candidate.
ConsidersUpTo(f, t, drawn, n) ==
    f = [k \in 0..n |-> IF k = 0 THEN <<>> ELSE Considered(t, drawn, k, f[k - 1])]

LEMMA ConsiderationExists ==
    ASSUME NEW t, NEW drawn, NEW n \in Nat
    PROVE  \E f : ConsidersUpTo(f, t, drawn, n)
  <1> DEFINE Bad == {m \in Nat : ~\E f : ConsidersUpTo(f, t, drawn, m)}
  <1> SUFFICES ASSUME Bad # {} PROVE FALSE
    OBVIOUS
  <1>1. PICK m \in Bad : \A l \in Bad : m <= l
    <2>1. Bad \in SUBSET Nat
      OBVIOUS
    <2> HIDE DEF Bad
    <2> QED
      BY <2>1, LeastNumber
  <1>2. m \in Nat /\ ~\E f : ConsidersUpTo(f, t, drawn, m)
    OBVIOUS
  <1>3. m # 0
    <2> SUFFICES ASSUME m = 0 PROVE FALSE
      OBVIOUS
    <2> DEFINE f == [k \in 0..0 |-> <<>>]
    <2>1. f = [k \in 0..0 |-> IF k = 0 THEN <<>> ELSE Considered(t, drawn, k, f[k - 1])]
      <3>1. \A k \in 0..0 : k = 0
        OBVIOUS
      <3> HIDE DEF f
      <3> QED
        BY <3>1 DEF f
    <2> HIDE DEF f
    <2> QED
      BY <1>2, <2>1 DEF ConsidersUpTo
  <1>4. PICK g : ConsidersUpTo(g, t, drawn, m - 1)
    <2>1. m - 1 \in Nat /\ ~(m <= m - 1)
      BY <1>2, <1>3
    <2>2. m - 1 \notin Bad
      BY <1>1, <2>1
    <2> QED
      BY <2>1, <2>2
  <1>5. \A k \in 0..(m - 1) : g[k] = IF k = 0 THEN <<>> ELSE Considered(t, drawn, k, g[k - 1])
    BY <1>4 DEF ConsidersUpTo
  <1> DEFINE h == [k \in 0..m |-> IF k = m THEN Considered(t, drawn, m, g[m - 1]) ELSE g[k]]
             F == [k \in 0..m |-> IF k = 0 THEN <<>> ELSE Considered(t, drawn, k, h[k - 1])]
  <1>6. \A k \in 0..m : h[k] = IF k = 0 THEN <<>> ELSE Considered(t, drawn, k, h[k - 1])
    <2>1. \A k \in 0..m : h[k] = IF k = m THEN Considered(t, drawn, m, g[m - 1]) ELSE g[k]
      OBVIOUS
    <2> HIDE DEF h
    <2> SUFFICES ASSUME NEW k \in 0..m
                 PROVE  h[k] = IF k = 0 THEN <<>> ELSE Considered(t, drawn, k, h[k - 1])
      OBVIOUS
    <2>2. CASE k = 0
      <3>1. 0 \in 0..m /\ 0 \in 0..(m - 1)
        BY <1>2, <1>3
      <3> QED
        BY <1>3, <1>5, <2>1, <2>2, <3>1
    <2>3. CASE k = m
      <3>1. m \in 0..m /\ m - 1 \in 0..m /\ m - 1 # m
        BY <1>2, <1>3
      <3>2. h[m - 1] = g[m - 1] /\ h[m] = Considered(t, drawn, m, g[m - 1])
        BY <2>1, <3>1
      <3> QED
        BY <1>3, <2>3, <3>2
    <2>4. CASE k # 0 /\ k # m
      <3>1. k \in 0..(m - 1) /\ k - 1 \in 0..m /\ k - 1 # m
        BY <1>2, <2>4
      <3>2. h[k] = g[k] /\ h[k - 1] = g[k - 1]
        BY <2>1, <2>4, <3>1
      <3> QED
        BY <1>5, <2>4, <3>1, <3>2
    <2> QED
      BY <2>2, <2>3, <2>4
  <1>7. h = F
    <2>1. h = [k \in 0..m |-> h[k]]
      OBVIOUS
    <2> HIDE DEF h
    <2> QED
      BY <1>6, <2>1
  <1> HIDE DEF h
  <1> QED
    BY <1>2, <1>7 DEF ConsidersUpTo

LEMMA ChosenBySteps ==
    ASSUME NEW t, NEW drawn, Len(tx[t].candidates) \in Nat
    PROVE  \E f : /\ ConsidersUpTo(f, t, drawn, Len(tx[t].candidates))
                  /\ Chosen(t, drawn) = f[Len(tx[t].candidates)]
  <1> DEFINE n == Len(tx[t].candidates)
             C == CHOOSE f : ConsidersUpTo(f, t, drawn, n)
  <1>1. ConsidersUpTo(C, t, drawn, n)
    BY ConsiderationExists
  <1>2. Chosen(t, drawn) = C[n]
    BY DEF Chosen, ConsidersUpTo, Considered, Passes
  <1> QED
    BY <1>1, <1>2

\* What the check of a candidate said when it was considered as the m-th to be admitted.
Allowed(t, a, m) ==
    IF tx[t].op = "schedule" THEN SlotAllowed(t, a) ELSE Eligible(t, a) /\ Admits(t, a, m - 1)

Consideration(t, s, k) ==
    /\ s \in Seq(RangeOf(tx[t].candidates))
    /\ \A i \in 1..Len(s) : \E m \in 1..k : s[i] = tx[t].candidates[m]
    /\ \A i, j \in 1..Len(s) : i # j => s[i] # s[j]
    /\ \A i \in 1..Len(s) : Allowed(t, s[i], i)

LEMMA ConsiderOne ==
    ASSUME TypeOK, NEW t \in Txs, NEW drawn, NEW k \in 1..Len(tx[t].candidates), NEW s,
           Consideration(t, s, k - 1)
    PROVE  Consideration(t, Considered(t, drawn, k, s), k)
  <1> DEFINE r == tx[t].candidates
             a == r[k]
             C == RangeOf(r)
             u == Append(s, a)
  <1>1. /\ r \in Seq(Agents) /\ Len(r) \in Nat /\ DOMAIN r = 1..Len(r)
        /\ \A i, j \in 1..Len(r) : i # j => r[i] # r[j]
    <2>1. IsFiniteSet(Agents) /\ r \in Rankings(Agents)
      BY ScenarioFacts, TxFields DEF TypeOK
    <2> QED
      BY <2>1, RankingFacts
  <1>2. a \in C /\ k \in Nat
    BY <1>1 DEF RangeOf
  <1> HIDE DEF C
  <1>3. s \in Seq(C) /\ Len(s) \in Nat
    BY DEF Consideration, C
  <1>4. CASE ~Passes(t, drawn, k, s)
    <2>1. Considered(t, drawn, k, s) = s
      BY <1>4 DEF Considered
    <2>2. 1..(k - 1) \subseteq 1..k
      BY <1>2
    <2> QED
      BY <2>1, <2>2 DEF Consideration
  <1>5. CASE Passes(t, drawn, k, s)
    <2>1. Considered(t, drawn, k, s) = u
      BY <1>5 DEF Considered
    <2>2. /\ u \in Seq(C) /\ Len(u) = Len(s) + 1
          /\ \A i \in 1..(Len(s) + 1) : u[i] = IF i = Len(s) + 1 THEN a ELSE s[i]
      BY <1>2, <1>3
    <2>3. Allowed(t, a, Len(s) + 1)
      <3>1. (Len(s) + 1) - 1 = Len(s)
        BY <1>3
      <3> QED
        BY <1>5, <3>1 DEF Passes, Allowed
    <2> HIDE DEF u
    <2>4. \A i \in 1..(Len(s) + 1) : i # Len(s) + 1 => i \in 1..Len(s)
      BY <1>3
    <2>5. \A i \in 1..Len(s) : s[i] # a /\ \E m \in 1..k : s[i] = r[m]
      <3> SUFFICES ASSUME NEW i \in 1..Len(s) PROVE s[i] # a /\ \E m \in 1..k : s[i] = r[m]
        OBVIOUS
      <3>1. PICK m \in 1..(k - 1) : s[i] = r[m]
        BY DEF Consideration
      <3>2. m \in 1..k /\ m # k /\ m \in 1..Len(r)
        BY <1>1, <1>2
      <3> QED
        BY <1>1, <3>1, <3>2
    <2>6. \A i \in 1..Len(u) : \E m \in 1..k : u[i] = r[m]
      <3>1. k \in 1..k
        BY <1>2
      <3> QED
        BY <2>2, <2>4, <2>5, <3>1
    <2>7. \A i, j \in 1..Len(u) : i # j => u[i] # u[j]
      BY <2>2, <2>4, <2>5 DEF Consideration
    <2>8. \A i \in 1..Len(u) : Allowed(t, u[i], i)
      BY <2>2, <2>3, <2>4 DEF Consideration
    <2> QED
      BY <2>1, <2>2, <2>6, <2>7, <2>8 DEF Consideration, C
  <1> QED
    BY <1>4, <1>5

LEMMA ChosenFacts ==
    ASSUME TypeOK, NEW t \in Txs, NEW drawn
    PROVE  /\ Chosen(t, drawn) \in Rankings(Agents) /\ Len(Chosen(t, drawn)) \in Nat
           /\ Chosen(t, drawn) \in Seq(RangeOf(tx[t].candidates))
           /\ \A i \in 1..Len(Chosen(t, drawn)) : Allowed(t, Chosen(t, drawn)[i], i)
  <1> DEFINE n == Len(tx[t].candidates)
  <1>1. n \in Nat /\ IsFiniteSet(Agents) /\ RangeOf(tx[t].candidates) \subseteq Agents
    <2>1. IsFiniteSet(Agents) /\ tx[t].candidates \in Rankings(Agents)
      BY ScenarioFacts, TxFields DEF TypeOK
    <2> QED
      BY <2>1, RankingFacts
  <1>2. PICK f : ConsidersUpTo(f, t, drawn, n) /\ Chosen(t, drawn) = f[n]
    BY <1>1, ChosenBySteps
  <1>3. \A k \in 0..n : f[k] = IF k = 0 THEN <<>> ELSE Considered(t, drawn, k, f[k - 1])
    BY <1>2 DEF ConsidersUpTo
  <1> DEFINE Bad == {k \in 0..n : ~Consideration(t, f[k], k)}
  <1>4. Bad = {}
    <2> SUFFICES ASSUME Bad # {} PROVE FALSE
      OBVIOUS
    <2>1. PICK k \in Bad : \A l \in Bad : k <= l
      <3>1. Bad \in SUBSET Nat
        BY <1>1
      <3> HIDE DEF Bad
      <3> QED
        BY <3>1, LeastNumber
    <2>2. k \in 0..n /\ ~Consideration(t, f[k], k)
      OBVIOUS
    <2>3. CASE k = 0
      <3>1. f[k] = <<>>
        BY <1>3, <2>2, <2>3
      <3>2. Consideration(t, <<>>, 0)
        <4>1. Len(<<>>) = 0 /\ 1..0 = {} /\ <<>> \in Seq(RangeOf(tx[t].candidates))
          OBVIOUS
        <4> QED
          BY <4>1 DEF Consideration
      <3> QED
        BY <2>2, <2>3, <3>1, <3>2
    <2>4. CASE k # 0
      <3>1. k - 1 \in 0..n /\ k \in 1..n /\ ~(k <= k - 1)
        BY <1>1, <2>2, <2>4
      <3>2. k - 1 \notin Bad
        BY <2>1, <3>1
      <3>3. Consideration(t, f[k - 1], k - 1)
        BY <3>1, <3>2
      <3>4. f[k] = Considered(t, drawn, k, f[k - 1])
        BY <1>3, <2>2, <2>4
      <3>5. Consideration(t, Considered(t, drawn, k, f[k - 1]), k)
        BY <3>1, <3>3, ConsiderOne
      <3> QED
        BY <2>2, <3>4, <3>5
    <2> QED
      BY <2>3, <2>4
  <1>5. Consideration(t, Chosen(t, drawn), n)
    <2>1. n \in 0..n
      BY <1>1
    <2> QED
      BY <1>2, <1>4, <2>1
  <1>6. /\ Chosen(t, drawn) \in Seq(RangeOf(tx[t].candidates))
        /\ \A i, j \in 1..Len(Chosen(t, drawn)) : i # j => Chosen(t, drawn)[i] # Chosen(t, drawn)[j]
        /\ \A i \in 1..Len(Chosen(t, drawn)) : Allowed(t, Chosen(t, drawn)[i], i)
    BY <1>5 DEF Consideration
  <1>7. Chosen(t, drawn) \in Seq(Agents) /\ Len(Chosen(t, drawn)) \in Nat
    BY <1>1, <1>6
  <1>8. Chosen(t, drawn) \in Rankings(Agents)
    BY <1>1, <1>6, <1>7, IsRanking
  <1> QED
    BY <1>6, <1>7, <1>8

\* The strictest limits bind every candidate.
LEMMA StrictestLimits ==
    ASSUME TypeOK, NEW t \in Txs, NEW a \in EligibleAgents(t)
    PROVE  /\ ActionCap(t) \in Nat /\ HumanCap(t) \in Nat /\ HumanWindow(t) \in Nat
           /\ ActionCap(t) <= Policy[a].triggerCap /\ HumanCap(t) <= Policy[a].humanCap
           /\ HumanWindow(t) >= Policy[a].humanWindow
  <1> DEFINE E == EligibleAgents(t)
             T == {Policy[b].triggerCap : b \in E}
             H == {Policy[b].humanCap : b \in E}
             W == {Policy[b].humanWindow : b \in E}
  <1>1. scenario \in Scenarios /\ IsFiniteSet(Agents)
    BY ScenarioFacts DEF TypeOK
  <1>2. E \subseteq Agents /\ IsFiniteSet(E) /\ a \in E
    <2>1. E \subseteq Agents
      BY ChosenAgents DEF EligibleAgents
    <2> QED
      BY <1>1, <2>1, FS_Subset
  <1>3. \A b \in E : /\ Policy[b].triggerCap \in Nat /\ Policy[b].humanCap \in Nat
                     /\ Policy[b].humanWindow \in Nat
    BY <1>1, <1>2, PolicyFacts
  <1> HIDE DEF E
  <1>4. T \in SUBSET Nat /\ H \in SUBSET Nat /\ W \in SUBSET Nat
        /\ Policy[a].triggerCap \in T /\ Policy[a].humanCap \in H /\ Policy[a].humanWindow \in W
    BY <1>2, <1>3
  <1>5. IsFiniteSet(W)
    <2> DEFINE f == [b \in E |-> Policy[b].humanWindow]
    <2>1. f \in [E -> W] /\ \A w \in W : \E b \in E : f[b] = w
      OBVIOUS
    <2> HIDE DEF f, W
    <2>2. f \in Surjection(E, W)
      BY <2>1 DEF Surjection
    <2> QED
      BY <1>2, <2>2, FS_Surjection
  <1>6. ActionCap(t) = Least(T) /\ HumanCap(t) = Least(H) /\ HumanWindow(t) = Greatest(W)
    BY DEF ActionCap, HumanCap, HumanWindow, E
  <1> HIDE DEF T, H, W
  <1>7. T # {} /\ H # {} /\ W # {}
    BY <1>4
  <1>8. Least(T) \in T /\ \A m \in T : Least(T) <= m
    BY <1>4, <1>7, LeastIsLeast
  <1>9. Least(H) \in H /\ \A m \in H : Least(H) <= m
    BY <1>4, <1>7, LeastIsLeast
  <1>10. Greatest(W) \in W /\ \A m \in W : Greatest(W) >= m
    BY <1>4, <1>5, <1>7, GreatestIsGreatest
  <1> QED
    BY <1>4, <1>6, <1>8, <1>9, <1>10

\* ReplyFits, for n agents that are chosen.
RoomFor(t, a, n) ==
    /\ \A i \in Indexes : SameCooldown(i, TriggerKind(t), tx[t].actor, a, tx[t].post)
                              => jobs[i].created < tx[t].clock - Policy[a].cooldown
    /\ Cardinality(RepliesToday(t, a)) < Policy[a].dailyCap
    /\ Policy[a].conversationCap > 0
    /\ tx[t].post # 0 => Cardinality(InConversation(t, a)) < Policy[a].conversationCap
    /\ PriorActionJobs(t) + n <= Policy[a].triggerCap
    /\ Human(t) => Cardinality(OfHuman(t, Policy[a].humanWindow)) + n <= Policy[a].humanCap
    /\ Continuation(t) =>
           /\ jobs[tx[t].parent].depth + 1 <= jobs[Root(t)].maxDepth
           /\ ChainJobs(t) + n <= jobs[Root(t)].maxJobs

\* What the last of n agents was allowed leaves room for each.
LEMMA RoomWhenAllowed ==
    ASSUME TypeOK, JobsOK, NEW t \in Txs, TxOK(t), Counted(t), Admission(t),
           NEW n \in Nat \ {0}, NEW a \in EligibleAgents(t), ReplyAllowance(t, a),
           NEW b \in EligibleAgents(t), Admits(t, b, n - 1)
    PROVE  RoomFor(t, a, n)
  <1>1. scenario \in Scenarios /\ EligibleAgents(t) \subseteq Agents
    BY ChosenAgents DEF TypeOK, EligibleAgents
  <1>2. /\ Policy[a].triggerCap \in Nat /\ Policy[a].humanCap \in Nat /\ Policy[a].humanWindow \in Nat
    BY <1>1, PolicyFacts
  <1>3. /\ ActionCap(t) \in Nat /\ HumanCap(t) \in Nat /\ HumanWindow(t) \in Nat
        /\ ActionCap(t) <= Policy[a].triggerCap /\ HumanCap(t) <= Policy[a].humanCap
        /\ HumanWindow(t) >= Policy[a].humanWindow
    BY StrictestLimits
  <1>4. /\ ChainJobs(t) \in Nat /\ HumanJobs(t, tx[t].clock) \in Nat /\ PriorActionJobs(t) \in Nat
        /\ tx[t].clock \in Nat
    BY Counts, TxFields DEF TypeOK
  <1>5. /\ tx[t].prior = PriorActionJobs(t)
        /\ Human(t) => tx[t].humanJobs = HumanJobs(t, tx[t].clock)
        /\ Continuation(t) => tx[t].chainJobs = ChainJobs(t)
    BY DEF TxOK, CountedOK
  <1>6. PriorActionJobs(t) + n <= Policy[a].triggerCap
    <2>1. tx[t].prior + (n - 1) < ActionCap(t)
      BY DEF Admits
    <2> QED
      BY <1>2, <1>3, <1>4, <1>5, <2>1
  <1>7. ASSUME Human(t) PROVE Cardinality(OfHuman(t, Policy[a].humanWindow)) + n <= Policy[a].humanCap
    <2> DEFINE W == OfHuman(t, Policy[a].humanWindow)
               V == OfHuman(t, HumanWindow(t))
    <2>1. HumanJobs(t, tx[t].clock) + (n - 1) < HumanCap(t)
      BY <1>5, <1>7 DEF Admits
    <2>2. HumanJobs(t, tx[t].clock) = Cardinality(V)
      BY DEF HumanJobs, OfHuman
    <2>3. W \subseteq V
      <3>1. \A i \in Indexes : jobs[i].created \in Nat
        BY IndexFacts, JobFields
      <3>2. \A c \in Nat : c >= tx[t].clock - Policy[a].humanWindow => c >= tx[t].clock - HumanWindow(t)
        BY <1>2, <1>3, <1>4
      <3> QED
        BY <3>1, <3>2 DEF OfHuman
    <2>4. IsFiniteSet(V)
      <3>1. V \subseteq Indexes /\ IsFiniteSet(Indexes)
        BY IndexFacts DEF OfHuman
      <3> HIDE DEF V
      <3> QED
        BY <3>1, FS_Subset
    <2> HIDE DEF V, W
    <2>5. Cardinality(W) <= Cardinality(V) /\ Cardinality(W) \in Nat /\ Cardinality(V) \in Nat
      <3>1. IsFiniteSet(W) /\ Cardinality(W) <= Cardinality(V)
        BY <2>3, <2>4, FS_Subset
      <3> QED
        BY <2>4, <3>1, FS_CardinalityType
    <2>6. Cardinality(W) + n <= Policy[a].humanCap
      BY <1>2, <1>3, <2>1, <2>2, <2>5
    <2> QED
      BY <2>6 DEF W
  <1>8. ASSUME Continuation(t)
        PROVE  /\ jobs[tx[t].parent].depth + 1 <= jobs[Root(t)].maxDepth
               /\ ChainJobs(t) + n <= jobs[Root(t)].maxJobs
    <2>1. tx[t].parent \in Indexes /\ Root(t) \in Indexes
      BY <1>8 DEF TxOK, RowsOK, JobsOK, Root
    <2>2. /\ jobs[tx[t].parent].depth \in Nat /\ jobs[Root(t)].maxDepth \in Nat /\ jobs[Root(t)].maxJobs \in Nat
      BY <2>1, IndexFacts, JobFields
    <2>3. Policy[b].chainDepth \in Nat /\ Policy[b].chainJobs \in Nat
      BY <1>1, PolicyFacts
    <2>4. /\ jobs[tx[t].parent].depth + 1 <= Lesser(jobs[Root(t)].maxDepth, Policy[b].chainDepth)
          /\ ChainJobs(t) + (n - 1) < Lesser(jobs[Root(t)].maxJobs, Policy[b].chainJobs)
      BY <1>5, <1>8 DEF Admits, ChainHasRoom, Root
    <2> QED
      BY <1>4, <2>2, <2>3, <2>4 DEF Lesser
  <1>9. Policy[a].conversationCap > 0
    BY DEF EligibleAgents, Eligible
  <1>10. /\ \A i \in Indexes : SameCooldown(i, TriggerKind(t), tx[t].actor, a, tx[t].post)
                                   => jobs[i].created < tx[t].clock - Policy[a].cooldown
         /\ Cardinality(RepliesToday(t, a)) < Policy[a].dailyCap
         /\ tx[t].post # 0 => Cardinality(InConversation(t, a)) < Policy[a].conversationCap
    <2> DEFINE replies == {i \in OfAgent(a) : jobs[i].kind # "scheduled"}
    <2>1. RepliesToday(t, a) = {i \in replies : Day(jobs[i].created) = Day(tx[t].clock)}
      BY DEF RepliesToday
    <2>2. InConversation(t, a) = {i \in replies : jobs[i].post = tx[t].post}
      BY DEF InConversation
    <2> QED
      BY <2>1, <2>2 DEF ReplyAllowance
  <1> QED
    BY <1>6, <1>7, <1>8, <1>9, <1>10 DEF RoomFor

\* What was counted is decided upon before anyone else can change it.
LEMMA ConsiderStep ==
    ASSUME AdmissionInv, NEW t \in Txs, NEW drawn, Consider(t, drawn)
    PROVE  AdmissionInv'
  <1> DEFINE s == Chosen(t, drawn)
             x == [tx[t] EXCEPT !.pc = "considered", !.chosen = s]
  <1>1. tx[t] \in Transaction /\ TxOK(t) /\ now \in Nat /\ TypeOK /\ JobsOK /\ scenario \in Scenarios
    BY DEF AdmissionInv, TypeOK
  <1>2. /\ tx' = [tx EXCEPT ![t] = x] /\ tx[t].pc = "counted"
        /\ UNCHANGED <<scenario, jobs, enabled, disabled, lastPublished, now, tags>>
    BY DEF Consider
  <1>3. /\ s \in Rankings(Agents) /\ Len(s) \in Nat /\ s \in Seq(RangeOf(tx[t].candidates))
        /\ \A i \in 1..Len(s) : Allowed(t, s[i], i)
    BY <1>1, ChosenFacts
  <1> HIDE DEF s
  <1>4. x \in Transaction
    BY <1>1, <1>3 DEF Transaction
  <1>5. /\ x.held = tx[t].held /\ x.plan = tx[t].plan /\ x.pc = "considered" /\ x.op = tx[t].op
        /\ x.actor = tx[t].actor /\ x.post = tx[t].post /\ x.parent = tx[t].parent
        /\ x.targets = tx[t].targets /\ x.candidates = tx[t].candidates /\ x.clock = tx[t].clock
        /\ x.chainJobs = tx[t].chainJobs /\ x.humanJobs = tx[t].humanJobs /\ x.prior = tx[t].prior
        /\ x.chosen = s
    BY <1>1 DEF Transaction
  <1> HIDE DEF x
  <1>6. tx'[t] = x
    BY <1>2 DEF AdmissionInv, TypeOK
  <1>7. SameView(t)
    BY <1>2, <1>5, <1>6 DEF SameView
  <1>8. LocksOK(t)' /\ RowsOK(t)' /\ AccountsOK(t)'
    BY <1>1, <1>2, <1>5, <1>6, <1>7, ViewLocks DEF TxOK
  <1>9. ~Control(t) /\ Counted(t) /\ Counted(t)' /\ ~Control(t)' /\ tx[t].plan = <<>>
    BY <1>1, <1>2, <1>5, <1>6, <1>7, ViewKinds DEF TxOK, FieldsOK, Counted
  <1>10. FieldsOK(t)'
    <2>1. Known(tx[t].post)'
      BY <1>1, <1>7 DEF TxOK, FieldsOK, Known, Used, Indexes, SameView
    <2> QED
      BY <1>1, <1>2, <1>5, <1>6, <1>9, <2>1 DEF TxOK, FieldsOK
  <1>11. CountedOK(t)'
    <2>1. /\ tx'[t].clock = tx[t].clock /\ tx'[t].chainJobs = tx[t].chainJobs
          /\ tx'[t].humanJobs = tx[t].humanJobs /\ tx'[t].prior = tx[t].prior /\ now' = now
          /\ scenario' = scenario
      BY <1>2, <1>5, <1>6
    <2>2. HumanJobs(t, tx[t].clock)' = HumanJobs(t, tx[t].clock)
      <3>1. HumanJobs(t, tx[t].clock)' = Cardinality(OfHuman(t, HumanWindow(t))')
            /\ HumanJobs(t, tx[t].clock) = Cardinality(OfHuman(t, HumanWindow(t)))
        BY DEF HumanJobs, OfHuman
      <3>2. OfHuman(t, HumanWindow(t))' = OfHuman(t, HumanWindow(t))
        BY <1>7, <2>1, ViewKinds, ViewEligible DEF OfHuman, SameView
      <3> QED
        BY <3>1, <3>2
    <2>3. jobs' = jobs /\ Indexes' = Indexes /\ lastPublished' = lastPublished /\ Policy' = Policy
          /\ tx'[t].op = tx[t].op /\ tx'[t].actor = tx[t].actor /\ tx'[t].parent = tx[t].parent
          /\ Agents' = Agents /\ (\A a : OfAgent(a)' = OfAgent(a)) /\ Chain(Root(t))' = Chain(Root(t))
      BY <1>7, ViewKinds DEF SameView, OfAgent, Chain, Agents
    <2>4. /\ Human(t)' = Human(t) /\ Continuation(t)' = Continuation(t)
          /\ \A table, id : Holds(t, table, id)' = Holds(t, table, id)
          /\ EligibleAgents(t)' = EligibleAgents(t) /\ ChainJobs(t)' = ChainJobs(t)
          /\ PriorActionJobs(t)' = PriorActionJobs(t)
      BY <1>7, ViewKinds, ViewEligible
    <2>5. CountedOK(t)
      BY <1>1 DEF TxOK
    <2>6. (\A a \in Agents : Holds(t, "settings", a) =>
               \A i \in OfAgent(a) : jobs[i].created < tx[t].clock)'
      BY <1>9, <2>1, <2>3, <2>4, <2>5 DEF CountedOK
    <2>7. (Human(t) =>
               /\ \A i \in Indexes : jobs[i].actor = tx[t].actor /\ jobs[i].kind \in HumanKinds =>
                      jobs[i].created < tx[t].clock
               /\ EligibleAgents(t) # {} => tx[t].humanJobs = HumanJobs(t, tx[t].clock))'
      BY <1>9, <2>1, <2>2, <2>3, <2>4, <2>5 DEF CountedOK
    <2>8. (Continuation(t) =>
               /\ \A i \in Chain(Root(t)) : jobs[i].created < tx[t].clock
               /\ tx[t].chainJobs = ChainJobs(t))'
      BY <1>9, <2>1, <2>3, <2>4, <2>5 DEF CountedOK
    <2>9. (tx[t].op = "publish" =>
               /\ Holds(t, "settings", tx[t].actor)
               /\ jobs[tx[t].parent].finished = 0
               /\ lastPublished[tx[t].actor] > 0 =>
                      tx[t].clock >= lastPublished[tx[t].actor] + Policy[tx[t].actor].spacing)'
      BY <1>9, <2>1, <2>3, <2>4, <2>5 DEF CountedOK
    <2>10. (tx[t].prior = PriorActionJobs(t))' /\ (tx[t].clock \in 1..now)'
      BY <1>9, <2>1, <2>4, <2>5 DEF CountedOK
    <2> QED
      BY <2>6, <2>7, <2>8, <2>9, <2>10 DEF CountedOK
  <1>12. ASSUME NEW a \in RangeOf(s) PROVE a \in RangeOf(tx[t].candidates) /\ Fits(t, a)'
    <2>1. PICK k \in 1..Len(s) : a = s[k]
      BY <1>3 DEF RangeOf
    <2>2. a \in RangeOf(tx[t].candidates) /\ Allowed(t, a, k) /\ a \in Agents
      BY <1>1, <1>3, <2>1, ChosenAgents
    <2>3. Ready(t, a) /\ ~Unspaced(a, tx[t].clock)
      BY <2>2 DEF Allowed, SlotAllowed, Eligible, Admits, ReplyAllowance
    <2>4. ~disabled[a]
      <3>1. CASE tx[t].op = "schedule"
        BY <2>2, <3>1 DEF Allowed, SlotAllowed
      <3>2. CASE tx[t].op # "schedule"
        <4>1. Admission(t)
          <5>1. tx[t].op \in Operations \cup {"none"} /\ Operations \subseteq AllOperations
            BY <1>1, TxFields, ScenarioFacts
          <5>2. tx[t].op # "none"
            BY <1>1, <1>2 DEF TxOK, FieldsOK
          <5> QED
            BY <1>9, <3>2, <5>1, <5>2 DEF Admission, Human, Continuation, Control, AllOperations
        <4>2. Holds(t, "settings", a)
          BY <2>3 DEF Ready
        <4> QED
          BY <1>1, <2>2, <4>1, <4>2 DEF TxOK, AccountsOK
      <3> QED
        BY <3>1, <3>2
    <2>5. ASSUME tx[t].op = "schedule"
          PROVE  Cardinality(SlotsToday(t, a)) < Policy[a].scheduledCap
      BY <2>2, <2>5 DEF Allowed, SlotAllowed, SlotsToday
    <2>6. ASSUME Admission(t) PROVE RoomFor(t, a, Len(s))
      <3>1. tx[t].op # "schedule"
        BY <2>6 DEF Admission, Human, HumanKinds, Continuation
      <3>2. \A m \in 1..Len(s) : Eligible(t, s[m]) /\ Admits(t, s[m], m - 1)
        BY <1>3, <3>1 DEF Allowed
      <3>3. Len(s) \in Nat \ {0} /\ Len(s) \in 1..Len(s)
        BY <1>3, <2>1
      <3>4. s[Len(s)] \in RangeOf(tx[t].candidates)
        BY <1>3, <3>3
      <3>5. s[Len(s)] \in EligibleAgents(t) /\ Admits(t, s[Len(s)], Len(s) - 1)
        BY <3>2, <3>3, <3>4 DEF EligibleAgents
      <3>6. a \in EligibleAgents(t) /\ ReplyAllowance(t, a)
        BY <2>1, <2>2, <3>2 DEF EligibleAgents, Admits
      <3> QED
        BY <1>1, <1>9, <2>6, <3>3, <3>5, <3>6, RoomWhenAllowed
    <2>7. /\ tx'[t].clock = tx[t].clock /\ tx'[t].op = tx[t].op /\ tx'[t].chosen = s
          /\ tx'[t].actor = tx[t].actor /\ tx'[t].post = tx[t].post /\ tx'[t].parent = tx[t].parent
          /\ jobs' = jobs /\ Indexes' = Indexes /\ Policy' = Policy /\ disabled' = disabled
          /\ OfAgent(a)' = OfAgent(a) /\ DayLength' = DayLength
      BY <1>2, <1>5, <1>6, <1>7, ViewKinds DEF SameView, OfAgent, DayLength
    <2>8. /\ Human(t)' = Human(t) /\ Continuation(t)' = Continuation(t) /\ Admission(t)' = Admission(t)
          /\ TriggerKind(t)' = TriggerKind(t) /\ Root(t)' = Root(t) /\ ChainJobs(t)' = ChainJobs(t)
          /\ PriorActionJobs(t)' = PriorActionJobs(t) /\ Ready(t, a)' = Ready(t, a)
      BY <1>7, ViewKinds, ViewEligible
    <2>9. /\ SlotsToday(t, a)' = SlotsToday(t, a) /\ RepliesToday(t, a)' = RepliesToday(t, a)
          /\ InConversation(t, a)' = InConversation(t, a)
          /\ OfHuman(t, Policy[a].humanWindow)' = OfHuman(t, Policy[a].humanWindow)
      BY <2>7 DEF SlotsToday, RepliesToday, InConversation, OfHuman, Day
    <2>10. Unspaced(a, tx[t].clock)' = Unspaced(a, tx[t].clock)
      BY <2>7 DEF Unspaced
    <2>11. Admission(t) => ReplyFits(t, a)'
      <3> SUFFICES ASSUME Admission(t) PROVE ReplyFits(t, a)'
        OBVIOUS
      <3>1. RoomFor(t, a, Len(s))
        BY <2>6
      <3>2. (\A i \in Indexes : SameCooldown(i, TriggerKind(t), tx[t].actor, a, tx[t].post)
                                    => jobs[i].created < tx[t].clock - Policy[a].cooldown)'
        BY <2>7, <2>8, <3>1 DEF RoomFor, SameCooldown
      <3>3. (Cardinality(RepliesToday(t, a)) < Policy[a].dailyCap)' /\ (Policy[a].conversationCap > 0)'
            /\ (tx[t].post # 0 => Cardinality(InConversation(t, a)) < Policy[a].conversationCap)'
        BY <2>7, <2>9, <3>1 DEF RoomFor
      <3>4. (PriorActionJobs(t) + Len(tx[t].chosen) <= Policy[a].triggerCap)'
        BY <2>7, <2>8, <3>1 DEF RoomFor
      <3>5. (Human(t) => Cardinality(OfHuman(t, Policy[a].humanWindow)) + Len(tx[t].chosen)
                             <= Policy[a].humanCap)'
        BY <2>7, <2>8, <2>9, <3>1 DEF RoomFor
      <3>6. (Continuation(t) =>
                 /\ jobs[tx[t].parent].depth + 1 <= jobs[Root(t)].maxDepth
                 /\ ChainJobs(t) + Len(tx[t].chosen) <= jobs[Root(t)].maxJobs)'
        BY <2>7, <2>8, <3>1 DEF RoomFor
      <3> QED
        BY <3>2, <3>3, <3>4, <3>5, <3>6 DEF ReplyFits
    <2>12. (tx[t].op = "schedule" => Cardinality(SlotsToday(t, a)) < Policy[a].scheduledCap)'
      BY <2>5, <2>7, <2>9
    <2>13. Ready(t, a)' /\ ~disabled'[a] /\ ~Unspaced(a, tx[t].clock)' /\ (Admission(t)' => ReplyFits(t, a)')
      BY <2>3, <2>4, <2>7, <2>8, <2>10, <2>11
    <2> QED
      BY <2>2, <2>12, <2>13 DEF Fits
  <1>13. ChosenOK(t)'
    BY <1>5, <1>6, <1>12 DEF ChosenOK, RangeOf
  <1>14. TxOK(t)' /\ now <= now' /\ now' \in Nat /\ x.held \subseteq tx[t].held
         /\ UNCHANGED <<scenario, jobs, enabled, disabled, lastPublished, tags>>
    BY <1>1, <1>2, <1>5, <1>8, <1>10, <1>11, <1>13 DEF TxOK
  <1>15. tx' = [tx EXCEPT ![t] = x]
    BY <1>2
  <1> QED
    BY <1>4, <1>14, <1>15, NoLockStep

-----------------------------------------------------------------------------
(* The ends of transactions. *)

LEMMA EndStep ==
    ASSUME AdmissionInv, TypeOK', NEW t \in Txs, tx' = [tx EXCEPT ![t] = Idle], Grown,
           \A u \in Txs \ {t} : Undisturbed(u), JobsOK', QuotasStand', ChainStands', PublicationsSpaced'
    PROVE  AdmissionInv'
  <1>1. tx'[t] = Idle /\ \A u \in Txs \ {t} : tx'[u] = tx[u]
    BY DEF AdmissionInv, TypeOK
  <1>2. TxOK(t)'
    BY <1>1, IdleNext
  <1>3. ASSUME NEW u \in Txs \ {t} PROVE TxOK(u)'
    <2>1. TypeOK /\ JobsOK /\ Undisturbed(u) /\ TxOK(u)
      BY DEF AdmissionInv
    <2> QED
      BY <2>1, OthersKeep
  <1>4. Exclusive'
    <2>1. Idle.held = {}
      BY DEF Idle
    <2> SUFFICES ASSUME NEW u \in Txs, NEW v \in Txs, u # v, NEW l \in tx'[u].held, NEW m \in tx'[v].held,
                        l.row = m.row
                 PROVE  l.shared /\ m.shared
      BY DEF Exclusive
    <2>2. u # t /\ v # t
      BY <1>1, <2>1
    <2> QED
      BY <1>1, <2>2 DEF AdmissionInv, Exclusive
  <1> QED
    BY <1>2, <1>3, <1>4 DEF AdmissionInv

\* A row that t has locked for update is locked by nobody else.
LEMMA LockedAlone ==
    ASSUME AdmissionInv, NEW t \in Txs, NEW u \in Txs, t # u, NEW l \in tx[t].held, ~l.shared
    PROVE  \A m \in tx[u].held : m.row # l.row
  BY DEF AdmissionInv, Exclusive

LEMMA SettingsAlone ==
    ASSUME AdmissionInv, NEW t \in Txs, NEW u \in Txs, t # u, NEW a, Holds(t, "settings", a)
    PROVE  ~Holds(u, "settings", a)
  <1>1. PICK l \in tx[t].held : l.row = <<"settings", a>>
    BY DEF Holds
  <1>2. ~l.shared
    BY <1>1 DEF AdmissionInv, TxOK, LocksOK, Taken
  <1>3. \A m \in tx[u].held : m.row # l.row
    BY <1>2, LockedAlone
  <1> QED
    BY <1>1, <1>3 DEF Holds

\* Agents change only under locks that nobody else holds.
LEMMA CommitControlStep ==
    ASSUME AdmissionInv, NEW t \in Txs, CommitControl(t)
    PROVE  AdmissionInv'
  <1>1. TypeOK /\ JobsOK /\ TxOK(t) /\ now \in Nat /\ QuotasStand /\ ChainStands /\ PublicationsSpaced
    BY DEF AdmissionInv, TypeOK
  <1>2. /\ tx' = [tx EXCEPT ![t] = Idle] /\ tx[t].plan = <<>> /\ Control(t)
        /\ UNCHANGED <<scenario, jobs, lastPublished, now, tags>>
    BY DEF CommitControl
  <1>3. Idle \in Transaction
    BY <1>1, IdleTyped DEF TypeOK
  <1>4. /\ enabled' \in [Agents -> BOOLEAN] /\ disabled' \in [Agents -> BOOLEAN]
        /\ \A a \in Agents : a \notin tx[t].targets => enabled'[a] = enabled[a] /\ disabled'[a] = disabled[a]
        /\ tx[t].op # "disable" => disabled' = disabled
        /\ tx[t].op = "disable" => enabled' = enabled
    <2>1. enabled \in [Agents -> BOOLEAN] /\ disabled \in [Agents -> BOOLEAN]
      BY <1>1 DEF TypeOK
    <2>2. CASE tx[t].op = "pause"
      <3>1. enabled' = [a \in Agents |-> enabled[a] /\ a \notin tx[t].targets] /\ disabled' = disabled
        BY <2>2 DEF CommitControl
      <3> QED
        BY <2>1, <2>2, <3>1
    <2>3. CASE tx[t].op = "resume"
      <3>1. /\ enabled' = [a \in Agents |-> enabled[a] \/ (a \in tx[t].targets /\ ~disabled[a])]
            /\ disabled' = disabled
        BY <2>3 DEF CommitControl
      <3> QED
        BY <2>1, <2>3, <3>1
    <2>4. CASE tx[t].op = "disable"
      <3>1. disabled' = [a \in Agents |-> disabled[a] \/ a \in tx[t].targets] /\ enabled' = enabled
        BY <2>4 DEF CommitControl
      <3> QED
        BY <2>1, <2>4, <3>1
    <2> QED
      BY <1>2, <2>2, <2>3, <2>4 DEF Control
  <1>5. TypeOK'
    <2>1. Transaction' = Transaction /\ Job' = Job /\ Agents' = Agents
      BY <1>2 DEF Transaction, Job, Lock, Row, Operations, Agents, Humans, MaxJobs
    <2>2. tx' \in [Txs -> Transaction]
      BY <1>1, <1>2, <1>3 DEF TypeOK
    <2> QED
      BY <1>1, <1>2, <1>4, <2>1, <2>2 DEF TypeOK
  <1>6. JobsOK' /\ QuotasStand' /\ ChainStands' /\ PublicationsSpaced'
    <2>1. now <= now' /\ UNCHANGED <<scenario, jobs, lastPublished>>
      BY <1>1, <1>2
    <2> QED
      BY <1>1, <1>5, <2>1, SameJobs
  <1>7. /\ Indexes' = Indexes /\ (\A a : OfAgent(a)' = OfAgent(a)) /\ (\A r : Chain(r)' = Chain(r))
        /\ Len(jobs) \in Nat
    BY <1>1, <1>2, IndexFacts DEF Indexes, OfAgent, Chain
  <1>8. Grown
    BY <1>1, <1>2, <1>7 DEF Grown, Fixed
  <1>9. ASSUME NEW u \in Txs \ {t} PROVE Undisturbed(u)
    <2>1. tx'[u] = tx[u]
      BY <1>1, <1>2 DEF TypeOK
    <2>2. Taken(t) = tx[t].held
      BY <1>2, AllHeld
    <2>3. ASSUME NEW a \in Agents, Holds(u, "settings", a) PROVE enabled'[a] = enabled[a]
      <3>1. CASE tx[t].op = "disable"
        BY <1>4, <3>1
      <3>2. CASE tx[t].op # "disable"
        <4>1. SUFFICES ASSUME a \in tx[t].targets PROVE FALSE
          BY <1>4
        <4>2. SettingsUpdate(a) \in tx[t].held
          BY <1>1, <1>2, <2>2, <3>2, <4>1 DEF TxOK, RowsOK, Control
        <4>3. Holds(t, "settings", a)
          BY <4>2 DEF Holds, SettingsUpdate, ForUpdate
        <4> QED
          BY <2>3, <4>3, SettingsAlone
      <3> QED
        BY <3>1, <3>2
    <2>4. ASSUME NEW a \in Agents, Holds(u, "account", a) PROVE disabled'[a] = disabled[a]
      <3>1. CASE tx[t].op # "disable"
        BY <1>4, <3>1
      <3>2. CASE tx[t].op = "disable"
        <4>1. SUFFICES ASSUME a \in tx[t].targets PROVE FALSE
          BY <1>4
        <4>2. ForUpdate("account", a) \in tx[t].held
          BY <1>1, <2>2, <3>2, <4>1 DEF TxOK, RowsOK
        <4>3. \A m \in tx[u].held : m.row # ForUpdate("account", a).row
          BY <4>2, LockRows, LockedAlone
        <4> QED
          BY <2>4, <4>3 DEF Holds, ForUpdate
      <3> QED
        BY <3>1, <3>2
    <2>5. \A r \in Indexes : jobs'[r] = jobs[r]
      BY <1>2
    <2> QED
      BY <1>2, <1>7, <2>1, <2>3, <2>4, <2>5 DEF Undisturbed
  <1>10. tx' = [tx EXCEPT ![t] = Idle]
    BY <1>2
  <1> QED
    BY <1>5, <1>6, <1>8, <1>9, <1>10, EndStep

-----------------------------------------------------------------------------
(* What a commit inserts. *)

\* Two columns of fewer rows than that cannot mention every number.
LEMMA FreshExists ==
    ASSUME TypeOK, JobsOK
    PROVE  FreshAction \in Nat \ {0} /\ ~Used(FreshAction)
  <1> DEFINE L == Len(jobs)
             M == 2 * MaxJobs + 1
             Free == {n \in 1..M : ~Used(n)}
  <1>1. L \in Nat /\ MaxJobs \in Nat /\ L <= MaxJobs /\ M \in Nat /\ 2 * L < M /\ 2 * L \in Nat
        /\ Indexes = 1..L
    BY ScenarioFacts, IndexFacts DEF TypeOK, JobsOK, Indexes
  <1> HIDE DEF M, L
  <1>2. Free # {}
    <2> SUFFICES ASSUME \A n \in 1..M : Used(n) PROVE FALSE
      OBVIOUS
    <2> DEFINE N == 1..M
               T == 1..(2 * L)
               W(n, k) == (k <= L /\ n = jobs[k].key) \/ (k > L /\ n = jobs[k - L].result)
    <2>1. \A n \in N : \E k \in T : W(n, k)
      <3> SUFFICES ASSUME NEW n \in N PROVE \E k \in T : W(n, k)
        OBVIOUS
      <3>1. PICK i \in 1..L : n = jobs[i].key \/ n = jobs[i].result
        BY <1>1 DEF Used
      <3>2. i \in T /\ i <= L /\ i + L \in T /\ i + L > L /\ (i + L) - L = i
        BY <1>1
      <3> QED
        BY <3>1, <3>2
    <2> DEFINE f == [n \in N |-> CHOOSE k \in T : W(n, k)]
    <2> HIDE DEF W, N, T
    <2>2. f \in [N -> T] /\ \A n \in N : W(n, f[n])
      BY <2>1
    <2> HIDE DEF f
    <2>3. IsFiniteSet(N) /\ IsFiniteSet(T) /\ Cardinality(T) < Cardinality(N)
      <3>1. IsFiniteSet(N) /\ Cardinality(N) = M
        <4>1. 1 \in Int /\ M \in Int /\ 1..M = N
          BY <1>1 DEF N
        <4> QED
          BY <1>1, <4>1, FS_Interval
      <3>2. IsFiniteSet(T) /\ Cardinality(T) = 2 * L
        <4>1. 1..(2 * L) = T
          BY DEF T
        <4> DEFINE D == 2 * L
        <4>2. D \in Nat /\ 1..D = T
          BY <1>1, <4>1
        <4> HIDE DEF D
        <4>3. IsFiniteSet(T) /\ Cardinality(T) = D
          BY <4>2, FS_Interval
        <4> QED
          BY <4>3 DEF D
      <3> QED
        BY <1>1, <3>1, <3>2
    <2>4. PICK x \in N, y \in N : x # y /\ f[x] = f[y]
      BY <2>2, <2>3, FS_PigeonHole
    <2>5. W(x, f[x]) /\ W(y, f[x]) /\ f[x] \in Nat
      BY <1>1, <2>2, <2>4 DEF T
    <2>6. x = y
      BY <1>1, <2>5 DEF W
    <2> QED
      BY <2>4, <2>6
  <1>3. PICK n \in Free : \A m \in Free : n <= m
    <2>1. Free \in SUBSET Nat
      BY <1>1
    <2> HIDE DEF Free
    <2> QED
      BY <1>2, <2>1, LeastNumber
  <1> DEFINE IsFresh(k) == /\ \A i \in Indexes : k # jobs[i].key /\ k # jobs[i].result
                           /\ \A m \in 1..(k - 1) : \E i \in Indexes : m = jobs[i].key \/ m = jobs[i].result
  <1>4. n \in 1..M /\ IsFresh(n)
    <2>1. n \in 1..M /\ ~Used(n)
      OBVIOUS
    <2>2. \A m \in 1..(n - 1) : Used(m)
      <3> SUFFICES ASSUME NEW m \in 1..(n - 1) PROVE Used(m)
        OBVIOUS
      <3>1. m \in 1..M /\ ~(n <= m)
        BY <1>1, <2>1
      <3>2. m \notin Free
        BY <1>3, <3>1
      <3> QED
        BY <3>1, <3>2
    <2> QED
      BY <2>1, <2>2 DEF Used
  <1>5. FreshAction = CHOOSE k \in 1..M : IsFresh(k)
    BY DEF FreshAction, M
  <1> HIDE DEF IsFresh
  <1>6. FreshAction \in 1..M /\ IsFresh(FreshAction)
    BY <1>4, <1>5
  <1> QED
    BY <1>1, <1>6 DEF IsFresh, Used

\* The action that a transaction commits, and the rows it inserts for it.
ActionOf(t) == IF tx[t].op = "continue" THEN jobs[tx[t].parent].result ELSE FreshAction

New(t) == (Len(jobs) + 1)..(Len(jobs) + Len(tx[t].chosen))

\* The columns of row j, for agent a.
InsertedAs(t, j, a) ==
    /\ jobs'[j].agent = a
    /\ jobs'[j].kind = IF tx[t].op = "schedule" THEN "scheduled" ELSE TriggerKind(t)
    /\ jobs'[j].key = ActionOf(t)
    /\ jobs'[j].actor = tx[t].actor
    /\ jobs'[j].post = IF tx[t].post = 0 /\ tx[t].op # "schedule" THEN PostOf(ActionOf(t)) ELSE tx[t].post
    /\ jobs'[j].root = IF Continuation(t) THEN Root(t) ELSE j
    /\ jobs'[j].depth = IF Continuation(t) THEN jobs[tx[t].parent].depth + 1 ELSE 0
    /\ jobs'[j].maxDepth = IF Continuation(t) THEN jobs[Root(t)].maxDepth ELSE Policy[a].chainDepth
    /\ jobs'[j].maxJobs = IF Continuation(t) THEN jobs[Root(t)].maxJobs ELSE Policy[a].chainJobs
    /\ jobs'[j].created = tx[t].clock
    /\ jobs'[j].finished = 0 /\ jobs'[j].result = 0

\* A commit adds its rows and, when it publishes, finishes its parent.
Inserts(t) ==
    /\ scenario' = scenario /\ now' = now /\ enabled' = enabled /\ disabled' = disabled
    /\ tx' = [tx EXCEPT ![t] = Idle]
    /\ Indexes' = Indexes \cup New(t) /\ Len(jobs') = Len(jobs) + Len(tx[t].chosen)
    /\ \A i \in Indexes : Fixed(jobs[i], jobs'[i])
    /\ \A i \in Indexes : tx[t].op = "publish" /\ i = tx[t].parent =>
           jobs'[i].finished = tx[t].clock /\ jobs'[i].result = ActionOf(t)
    /\ \A i \in Indexes : ~(tx[t].op = "publish" /\ i = tx[t].parent) => jobs'[i] = jobs[i]
    /\ \A j \in New(t) : InsertedAs(t, j, tx[t].chosen[j - Len(jobs)])
    /\ lastPublished' = IF tx[t].op = "publish" THEN [lastPublished EXCEPT ![tx[t].actor] = tx[t].clock]
                        ELSE lastPublished

LEMMA ActionFacts ==
    ASSUME AdmissionInv, NEW t \in Txs
    PROVE  /\ Continuation(t) => ActionOf(t) \in Nat
           /\ tx[t].op # "continue" => ActionOf(t) \in Nat \ {0} /\ ~Used(ActionOf(t))
  <1>1. TypeOK /\ JobsOK /\ RowsOK(t)
    BY DEF AdmissionInv, TxOK
  <1>2. tx[t].op # "continue" => ActionOf(t) \in Nat \ {0} /\ ~Used(ActionOf(t))
    BY <1>1, FreshExists DEF ActionOf
  <1>3. tx[t].op = "continue" => ActionOf(t) \in Nat
    BY <1>1, IndexFacts, JobFields DEF ActionOf, RowsOK, Continuation
  <1> QED
    BY <1>2, <1>3

\* What a transaction that commits has decided upon.
LEMMA Committer ==
    ASSUME AdmissionInv, NEW t \in Txs, tx[t].pc = "considered", ~Control(t)
    PROVE  /\ Counted(t) /\ tx[t].plan = <<>> /\ Taken(t) = tx[t].held
           /\ tx[t].clock \in Nat \ {0} /\ tx[t].clock <= now /\ now \in Nat
           /\ tx[t].op = "schedule" \/ Admission(t)
           /\ ~(Human(t) /\ Continuation(t))
           /\ tx[t].op = "schedule" => ~Human(t) /\ ~Continuation(t)
           /\ Continuation(t) => /\ tx[t].parent \in Indexes /\ Root(t) \in Indexes
                                 /\ jobs[tx[t].parent] \in Job /\ jobs[Root(t)] \in Job
  <1>1. TypeOK /\ JobsOK /\ TxOK(t) /\ tx[t] \in Transaction
    BY DEF AdmissionInv, TypeOK
  <1>2. Counted(t) /\ tx[t].plan = <<>> /\ Taken(t) = tx[t].held /\ tx[t].op # "none"
    BY <1>1, AllHeld DEF Counted, TxOK, FieldsOK
  <1>3. tx[t].clock \in Nat \ {0} /\ tx[t].clock <= now /\ now \in Nat
    BY <1>1, <1>2 DEF TxOK, CountedOK, TypeOK
  <1>4. tx[t].op = "schedule" \/ Admission(t)
    <2>1. tx[t].op \in Operations \cup {"none"} /\ Operations \subseteq AllOperations
      BY <1>1, TxFields, ScenarioFacts DEF TypeOK
    <2> QED
      BY <1>2, <2>1 DEF Admission, Human, Continuation, Control, AllOperations
  <1>5. ~(Human(t) /\ Continuation(t)) /\ (tx[t].op = "schedule" => ~Human(t) /\ ~Continuation(t))
    BY DEF Human, HumanKinds, Continuation
  <1>6. Continuation(t) => tx[t].parent \in Indexes /\ Root(t) \in Indexes
    BY <1>1 DEF TxOK, RowsOK, JobsOK, Root
  <1> QED
    BY <1>1, <1>2, <1>3, <1>4, <1>5, <1>6, IndexFacts

LEMMA NewJobTyped ==
    ASSUME AdmissionInv, NEW t \in Txs, tx[t].pc = "considered", ~Control(t),
           Len(jobs) + Len(tx[t].chosen) <= MaxJobs,
           NEW ids \in IDOrders(Len(tx[t].chosen)), NEW i \in 1..Len(tx[t].chosen)
    PROVE  NewJob(t, i, ids, ActionOf(t)) \in Job
  <1> DEFINE a == tx[t].chosen[i]
             action == ActionOf(t)
             kind == IF tx[t].op = "schedule" THEN "scheduled" ELSE TriggerKind(t)
             post == IF tx[t].post = 0 /\ tx[t].op # "schedule" THEN PostOf(action) ELSE tx[t].post
             root == IF Continuation(t) THEN Root(t) ELSE Len(jobs) + i
             depth == IF Continuation(t) THEN jobs[tx[t].parent].depth + 1 ELSE 0
             maxDepth == IF Continuation(t) THEN jobs[Root(t)].maxDepth ELSE Policy[a].chainDepth
             maxJobs == IF Continuation(t) THEN jobs[Root(t)].maxJobs ELSE Policy[a].chainJobs
  <1>1. TypeOK /\ scenario \in Scenarios /\ tx[t] \in Transaction
    BY DEF AdmissionInv, TypeOK
  <1>2. a \in Agents
    BY <1>1, ChosenAgents DEF RangeOf
  <1>3. action \in Nat
    BY ActionFacts DEF Continuation
  <1>4. kind \in SocialKinds \cup {"scheduled"}
    <2>1. CASE tx[t].op = "schedule"
      BY <2>1
    <2>2. CASE tx[t].op # "schedule"
      BY <2>2, Committer DEF TriggerKind, SocialKinds, Admission, Human
    <2> QED
      BY <2>1, <2>2
  <1>5. post \in Nat /\ tx[t].actor \in Nat /\ tx[t].clock \in Nat
    BY <1>1, <1>3, TxFields, PostsFacts DEF PostOf
  <1>6. root \in 1..MaxJobs
    <2>1. Len(tx[t].chosen) \in Nat /\ Len(jobs) \in Nat /\ MaxJobs \in Nat
      BY <1>1, ChosenAgents, IndexFacts, ScenarioFacts
    <2>2. Continuation(t) => Root(t) \in 1..MaxJobs
      BY <2>1, Committer DEF Indexes
    <2> QED
      BY <2>1, <2>2
  <1>7. Continuation(t) => /\ jobs[tx[t].parent].depth \in Nat /\ jobs[Root(t)].maxDepth \in Nat
                           /\ jobs[Root(t)].maxJobs \in Nat
    BY Committer, JobFields
  <1>8. depth \in Nat /\ maxDepth \in Nat /\ maxJobs \in Nat
    BY <1>1, <1>2, <1>7, PolicyFacts
  <1>9. ids[i] \in Nat
    <2>1. ids[i] \in 1..Len(tx[t].chosen)
      BY DEF IDOrders
    <2> QED
      BY <1>1, <2>1, ChosenAgents
  <1>10. NewJob(t, i, ids, action)
           = [agent |-> a, kind |-> kind, key |-> action, actor |-> tx[t].actor, post |-> post,
              root |-> root, depth |-> depth, maxDepth |-> maxDepth, maxJobs |-> maxJobs,
              created |-> tx[t].clock, order |-> ids[i], finished |-> 0, result |-> 0]
    BY DEF NewJob, RootOf, Root
  <1> HIDE DEF a, action, kind, post, root, depth, maxDepth, maxJobs
  <1>11. [agent |-> a, kind |-> kind, key |-> action, actor |-> tx[t].actor, post |-> post,
              root |-> root, depth |-> depth, maxDepth |-> maxDepth, maxJobs |-> maxJobs,
              created |-> tx[t].clock, order |-> ids[i], finished |-> 0, result |-> 0] \in Job
    BY <1>2, <1>3, <1>4, <1>5, <1>6, <1>8, <1>9 DEF Job
  <1> QED
    BY <1>10, <1>11 DEF action

LEMMA PublishedTyped ==
    ASSUME AdmissionInv, NEW t \in Txs, tx[t].pc = "considered", ~Control(t)
    PROVE  /\ Published(t, ActionOf(t)) \in Seq(Job) /\ Len(Published(t, ActionOf(t))) = Len(jobs)
           /\ \A i \in Indexes : Fixed(jobs[i], Published(t, ActionOf(t))[i])
           /\ \A i \in Indexes : tx[t].op = "publish" /\ i = tx[t].parent =>
                  /\ Published(t, ActionOf(t))[i].finished = tx[t].clock
                  /\ Published(t, ActionOf(t))[i].result = ActionOf(t)
           /\ \A i \in Indexes : ~(tx[t].op = "publish" /\ i = tx[t].parent) =>
                  Published(t, ActionOf(t))[i] = jobs[i]
  <1> DEFINE P == Published(t, ActionOf(t))
             p == tx[t].parent
             action == ActionOf(t)
             clock == tx[t].clock
  <1>1. /\ TypeOK /\ jobs \in Seq(Job) /\ Len(jobs) \in Nat /\ DOMAIN jobs = Indexes /\ Indexes = 1..Len(jobs)
        /\ \A i \in Indexes : jobs[i] \in Job
    BY IndexFacts DEF AdmissionInv, TypeOK, Indexes
  <1>2. CASE tx[t].op # "publish"
    <2>1. P = jobs
      BY <1>2 DEF Published
    <2> HIDE DEF P
    <2> QED
      BY <1>1, <1>2, <2>1 DEF Fixed, P
  <1>3. CASE tx[t].op = "publish"
    <2> DEFINE r == [jobs[p] EXCEPT !.finished = clock, !.result = action]
    <2>1. P = [jobs EXCEPT ![p].finished = clock, ![p].result = action]
      BY <1>3 DEF Published
    <2>2. p \in Indexes /\ jobs[p] \in Job /\ clock \in Nat /\ action \in Nat
      <3>1. Continuation(t)
        BY <1>3 DEF Continuation
      <3> QED
        BY <3>1, Committer, ActionFacts
    <2> HIDE DEF action, clock
    <2>3. r \in Job /\ Fixed(jobs[p], r) /\ r.finished = clock /\ r.result = action
      <3>1. r \in Job
        BY <2>2 DEF Job
      <3>2. Fixed(jobs[p], r)
        BY <2>2 DEF Job, Fixed
      <3>3. r.finished = clock /\ r.result = action
        BY <2>2 DEF Job
      <3> QED
        BY <3>1, <3>2, <3>3
    <2>4. P = [i \in Indexes |-> IF i = p THEN r ELSE jobs[i]]
      BY <1>1, <2>1, <2>2
    <2> HIDE DEF r, P, p
    <2>5. P[p] = r /\ \A i \in Indexes : i # p => P[i] = jobs[i]
      BY <2>2, <2>4
    <2>6. P \in [1..Len(jobs) -> Job]
      BY <1>1, <2>3, <2>4
    <2>7. P \in Seq(Job) /\ Len(P) = Len(jobs)
      BY <1>1, <2>6, FunctionIsSeq
    <2>8. \A i \in Indexes : Fixed(jobs[i], P[i])
      <3>1. \A i \in Indexes : Fixed(jobs[i], jobs[i])
        BY DEF Fixed
      <3> QED
        BY <2>3, <2>5, <3>1
    <2>9. /\ \A i \in Indexes : i = p => P[i].finished = clock /\ P[i].result = action
          /\ \A i \in Indexes : i # p => P[i] = jobs[i]
      BY <2>3, <2>5
    <2> QED
      BY <1>3, <2>7, <2>8, <2>9 DEF P, p, clock, action
  <1> QED
    BY <1>2, <1>3

LEMMA Joined ==
    ASSUME NEW S, NEW p \in Seq(S), NEW q \in Seq(S)
    PROVE  /\ p \o q \in Seq(S) /\ Len(p \o q) = Len(p) + Len(q)
           /\ \A i \in 1..(Len(p) + Len(q)) : (p \o q)[i] = IF i <= Len(p) THEN p[i] ELSE q[i - Len(p)]
  OBVIOUS

LEMMA CommitInserts ==
    ASSUME AdmissionInv, NEW t \in Txs, NEW ids \in IDOrders(Len(tx[t].chosen)), Commit(t, ids)
    PROVE  /\ Inserts(t) /\ TypeOK' /\ Len(jobs') <= MaxJobs
           /\ tx[t].pc = "considered" /\ ~Control(t)
  <1> DEFINE P == Published(t, ActionOf(t))
             n == Len(tx[t].chosen)
             Q == [i \in 1..n |-> NewJob(t, i, ids, ActionOf(t))]
             L == Len(jobs)
  <1>1. /\ tx[t].pc = "considered" /\ ~Control(t) /\ L + n <= MaxJobs
        /\ lastPublished' = IF tx[t].op = "publish" THEN [lastPublished EXCEPT ![tx[t].actor] = tx[t].clock]
                            ELSE lastPublished
        /\ tx' = [tx EXCEPT ![t] = Idle]
        /\ tags' = tags \cup {g \in scenario.tags : Holds(t, "tag", g)}
        /\ UNCHANGED <<scenario, enabled, disabled, now>>
    BY DEF Commit
  <1>2. jobs' = P \o Q
    BY DEF Commit, ActionOf
  <1>3. /\ TypeOK /\ scenario \in Scenarios /\ L \in Nat /\ n \in Nat /\ Indexes = 1..L
        /\ \A i \in 1..n : tx[t].chosen[i] \in Agents
    BY IndexFacts, ChosenAgents DEF AdmissionInv, TypeOK, Indexes, RangeOf
  <1>4. /\ P \in Seq(Job) /\ Len(P) = L
        /\ \A i \in Indexes : Fixed(jobs[i], P[i])
        /\ \A i \in Indexes : tx[t].op = "publish" /\ i = tx[t].parent =>
               P[i].finished = tx[t].clock /\ P[i].result = ActionOf(t)
        /\ \A i \in Indexes : ~(tx[t].op = "publish" /\ i = tx[t].parent) => P[i] = jobs[i]
    BY <1>1, PublishedTyped
  <1>5. Q \in [1..n -> Job] /\ \A i \in 1..n : Q[i] = NewJob(t, i, ids, ActionOf(t))
    BY <1>1, NewJobTyped
  <1> HIDE DEF P, n, Q, L
  <1>6. Q \in Seq(Job) /\ Len(Q) = n
    BY <1>3, <1>5, FunctionIsSeq
  <1>7. /\ jobs' \in Seq(Job) /\ Len(jobs') = L + n
        /\ \A i \in 1..(L + n) : jobs'[i] = IF i <= L THEN P[i] ELSE Q[i - L]
    <2>1. /\ P \o Q \in Seq(Job) /\ Len(P \o Q) = Len(P) + Len(Q)
          /\ \A i \in 1..(Len(P) + Len(Q)) : (P \o Q)[i] = IF i <= Len(P) THEN P[i] ELSE Q[i - Len(P)]
      BY <1>4, <1>6, Joined
    <2> QED
      BY <1>2, <1>4, <1>6, <2>1
  <1>8. /\ Indexes' = Indexes \cup New(t) /\ \A i \in Indexes : jobs'[i] = P[i]
        /\ \A j \in New(t) : j - L \in 1..n /\ jobs'[j] = Q[j - L]
    <2>1. Indexes' = 1..(L + n) /\ New(t) = (L + 1)..(L + n)
      BY <1>7 DEF Indexes, New, L, n
    <2>2. \A i \in 1..L : i \in 1..(L + n) /\ i <= L
      BY <1>3
    <2>3. \A j \in (L + 1)..(L + n) : j \in 1..(L + n) /\ ~(j <= L) /\ j - L \in 1..n
      BY <1>3
    <2>4. \A j \in 1..(L + n) : j \in 1..L \/ j \in (L + 1)..(L + n)
      BY <1>3
    <2>5. Indexes' = Indexes \cup New(t)
      BY <1>3, <2>1, <2>2, <2>3, <2>4
    <2> QED
      BY <1>3, <1>7, <2>1, <2>2, <2>3, <2>5
  <1>9. ASSUME NEW j \in New(t) PROVE InsertedAs(t, j, tx[t].chosen[j - Len(jobs)])
    <2> DEFINE i == j - L
    <2>1. i \in 1..n /\ L + i = j /\ jobs'[j] = Q[i]
      BY <1>3, <1>8 DEF New, L, n
    <2> HIDE DEF i
    <2>2. jobs'[j] = NewJob(t, i, ids, ActionOf(t))
      BY <1>5, <2>1
    <2>3. InsertedAs(t, L + i, tx[t].chosen[i])
      BY <2>1, <2>2 DEF InsertedAs, NewJob, RootOf, Root, L
    <2> QED
      BY <2>1, <2>3 DEF i, L
  <1>10. Inserts(t)
    BY <1>1, <1>4, <1>7, <1>8, <1>9 DEF Inserts, L, n
  <1>11. TypeOK'
    <2>1. Transaction' = Transaction /\ Job' = Job /\ Agents' = Agents
      BY <1>1 DEF Transaction, Job, Lock, Row, Operations, Agents, Humans, MaxJobs
    <2>2. tx' \in [Txs -> Transaction]
      BY <1>1, <1>3, IdleTyped DEF TypeOK
    <2>3. lastPublished' \in [Agents -> Nat]
      <3>1. lastPublished \in [Agents -> Nat] /\ tx[t].clock \in Nat
        BY <1>3, TxFields DEF TypeOK
      <3> QED
        BY <1>1, <3>1
    <2>4. tags' \subseteq scenario'.tags
      BY <1>1, <1>3 DEF TypeOK
    <2> QED
      BY <1>1, <1>3, <1>7, <2>1, <2>2, <2>3, <2>4 DEF TypeOK
  <1>12. Len(jobs') <= MaxJobs
    BY <1>1, <1>7
  <1> QED
    BY <1>1, <1>10, <1>11, <1>12

-----------------------------------------------------------------------------
(* What a commit leaves to others. *)

Commits(t) ==
    /\ AdmissionInv /\ Inserts(t) /\ TypeOK' /\ Len(jobs') <= MaxJobs
    /\ tx[t].pc = "considered" /\ ~Control(t)

LEMMA NewRows ==
    ASSUME NEW t \in Txs, Commits(t)
    PROVE  /\ \A j \in New(t) : /\ j \notin Indexes /\ j \in Nat /\ j \in Indexes'
                                /\ jobs'[j].agent \in Agents /\ jobs'[j].agent \in RangeOf(tx[t].chosen)
                                /\ Fits(t, jobs'[j].agent) /\ Holds(t, "settings", jobs'[j].agent)
                                /\ InsertedAs(t, j, jobs'[j].agent)
           /\ \A i, j \in New(t) : jobs'[i].agent = jobs'[j].agent => i = j
           /\ IsFiniteSet(New(t)) /\ Cardinality(New(t)) = Len(tx[t].chosen)
           /\ Len(tx[t].chosen) \in Nat
  <1> DEFINE n == Len(tx[t].chosen)
             L == Len(jobs)
             s == tx[t].chosen
  <1>1. /\ TypeOK /\ L \in Nat /\ n \in Nat /\ Indexes = 1..L /\ DOMAIN s = 1..n
        /\ RangeOf(s) \subseteq Agents /\ \A i, j \in 1..n : i # j => s[i] # s[j]
    BY IndexFacts, ChosenAgents DEF Commits, AdmissionInv, Indexes
  <1>2. \A j \in New(t) : j - L \in 1..n /\ j \in Nat /\ j \notin 1..L
    BY <1>1 DEF New
  <1>3. \A j \in New(t) : jobs'[j].agent = s[j - L] /\ InsertedAs(t, j, jobs'[j].agent)
    <2>1. \A j \in New(t) : InsertedAs(t, j, s[j - L])
      BY DEF Commits, Inserts
    <2>2. \A j \in New(t) : jobs'[j].agent = s[j - L]
      BY <2>1 DEF InsertedAs
    <2> QED
      BY <2>1, <2>2
  <1>4. \A j \in New(t) : s[j - L] \in RangeOf(s) /\ s[j - L] \in Agents
    BY <1>1, <1>2 DEF RangeOf
  <1>5. \A a \in RangeOf(s) : Fits(t, a) /\ Holds(t, "settings", a)
    <2>1. ChosenOK(t) /\ Counted(t)
      BY Committer DEF Commits, AdmissionInv, TxOK
    <2> QED
      BY <2>1 DEF ChosenOK, Commits, Fits, Ready
  <1>6. \A i, j \in New(t) : jobs'[i].agent = jobs'[j].agent => i = j
    <2> SUFFICES ASSUME NEW i \in New(t), NEW j \in New(t), s[i - L] = s[j - L] PROVE i = j
      BY <1>3
    <2>1. i - L = j - L
      BY <1>1, <1>2
    <2> QED
      BY <1>1, <1>2, <2>1
  <1>7. IsFiniteSet(New(t)) /\ Cardinality(New(t)) = n
    <2> DEFINE lo == L + 1
               hi == L + n
    <2>1. New(t) = lo..hi /\ lo \in Int /\ hi \in Int
      BY <1>1 DEF New
    <2>2. IsFiniteSet(lo..hi) /\ Cardinality(lo..hi) = IF lo > hi THEN 0 ELSE hi - lo + 1
      <3> HIDE DEF lo, hi
      <3> QED
        BY <2>1, FS_Interval
    <2>3. (IF lo > hi THEN 0 ELSE hi - lo + 1) = n
      BY <1>1
    <2> QED
      BY <2>1, <2>2, <2>3
  <1>8. \A j \in New(t) : j \in Indexes'
    BY DEF Commits, Inserts
  <1> QED
    BY <1>1, <1>2, <1>3, <1>4, <1>5, <1>6, <1>7, <1>8

LEMMA OldRows ==
    ASSUME NEW t \in Txs, Commits(t)
    PROVE  /\ \A i \in Indexes : Fixed(jobs[i], jobs'[i]) /\ i \in Indexes'
           /\ Indexes' = Indexes \cup New(t) /\ Policy' = Policy /\ Agents' = Agents
           /\ DayLength' = DayLength /\ scenario' = scenario
  BY DEF Commits, Inserts, Policy, Agents, DayLength

\* Only a job that is still open is published.
LEMMA OpenParent ==
    ASSUME NEW t \in Txs, Commits(t), tx[t].op = "publish"
    PROVE  /\ tx[t].parent \in Indexes /\ jobs[tx[t].parent].finished = 0
           /\ jobs[tx[t].parent].result = 0 /\ tx[t].actor = jobs[tx[t].parent].agent
           /\ tx[t].actor \in Agents /\ Holds(t, "settings", tx[t].actor)
           /\ JobUpdate(tx[t].parent) \in tx[t].held
           /\ lastPublished[tx[t].actor] > 0 =>
                  tx[t].clock >= lastPublished[tx[t].actor] + Policy[tx[t].actor].spacing
  <1>1. TxOK(t) /\ Continuation(t) /\ Counted(t) /\ Taken(t) = tx[t].held /\ JobsOK /\ TypeOK
    BY Committer DEF Commits, AdmissionInv, Continuation
  <1>2. /\ tx[t].parent \in Indexes /\ tx[t].actor = jobs[tx[t].parent].agent
        /\ JobUpdate(tx[t].parent) \in tx[t].held
    BY <1>1 DEF TxOK, RowsOK, Commits
  <1>3. /\ jobs[tx[t].parent].finished = 0 /\ Holds(t, "settings", tx[t].actor)
        /\ lastPublished[tx[t].actor] > 0 =>
               tx[t].clock >= lastPublished[tx[t].actor] + Policy[tx[t].actor].spacing
    BY <1>1 DEF TxOK, CountedOK
  <1>4. jobs[tx[t].parent].result = 0
    BY <1>1, <1>2, <1>3 DEF JobsOK
  <1>5. tx[t].actor \in Agents
    BY <1>1, <1>2, IndexFacts, JobFields
  <1> QED
    BY <1>2, <1>3, <1>4, <1>5

LEMMA CommitGrows ==
    ASSUME NEW t \in Txs, Commits(t)
    PROVE  Grown
  <1>1. scenario' = scenario /\ now <= now'
    <2>1. now \in Nat /\ now' = now
      BY DEF Commits, Inserts, AdmissionInv, TypeOK
    <2> QED
      BY <2>1 DEF Commits, Inserts
  <1>2. Len(jobs) <= Len(jobs')
    <2>1. Len(jobs) \in Nat /\ Len(tx[t].chosen) \in Nat /\ Len(jobs') = Len(jobs) + Len(tx[t].chosen)
      BY NewRows, IndexFacts DEF Commits, Inserts, AdmissionInv
    <2> QED
      BY <2>1
  <1>3. ASSUME NEW i \in Indexes
        PROVE  /\ Fixed(jobs[i], jobs'[i])
               /\ jobs[i].finished > 0 => jobs'[i] = jobs[i]
               /\ jobs'[i].result = jobs[i].result \/ jobs[i].result = 0
    <2>1. CASE tx[t].op = "publish" /\ i = tx[t].parent
      <3>1. jobs[i].finished = 0 /\ jobs[i].result = 0
        BY <2>1, OpenParent
      <3>2. ~(jobs[i].finished > 0)
        BY <3>1
      <3> QED
        BY <3>1, <3>2, OldRows
    <2>2. CASE ~(tx[t].op = "publish" /\ i = tx[t].parent)
      BY <2>2, OldRows DEF Commits, Inserts
    <2> QED
      BY <2>1, <2>2
  <1> QED
    BY <1>1, <1>2, <1>3 DEF Grown

\* A commit touches rows of which its transaction holds the locks.
LEMMA CommitDisturbsNobody ==
    ASSUME NEW t \in Txs, Commits(t), NEW u \in Txs, u # t
    PROVE  Undisturbed(u)
  <1>1. AdmissionInv /\ TypeOK /\ TxOK(t) /\ Taken(t) = tx[t].held /\ tx'[u] = tx[u]
        /\ enabled' = enabled /\ disabled' = disabled
    BY Committer DEF Commits, AdmissionInv, Inserts, TypeOK
  <1>2. ASSUME NEW a \in Agents, Holds(u, "settings", a)
        PROVE  OfAgent(a)' = OfAgent(a) /\ lastPublished'[a] = lastPublished[a]
    <2>1. ~Holds(t, "settings", a)
      BY <1>1, <1>2, SettingsAlone
    <2>2. \A j \in New(t) : jobs'[j].agent # a
      BY <2>1, NewRows
    <2>3. OfAgent(a)' = OfAgent(a)
      BY <2>2, OldRows DEF OfAgent, Fixed
    <2>4. tx[t].op = "publish" => tx[t].actor # a /\ tx[t].actor \in Agents
      BY <2>1, OpenParent
    <2>5. lastPublished'[a] = lastPublished[a]
      BY <1>1, <2>4 DEF Commits, Inserts, TypeOK
    <2> QED
      BY <2>3, <2>5
  <1>3. ASSUME Human(u), ForUpdate("human", tx[u].actor) \in tx[u].held, NEW i \in Indexes' \ Indexes,
               jobs'[i].actor = tx[u].actor, jobs'[i].kind \in HumanKinds
        PROVE  FALSE
    <2>1. i \in New(t)
      BY <1>3, OldRows
    <2>2. /\ jobs'[i].actor = tx[t].actor
          /\ jobs'[i].kind = IF tx[t].op = "schedule" THEN "scheduled" ELSE TriggerKind(t)
      BY <2>1, NewRows DEF InsertedAs
    <2>3. Human(t)
      <3>1. tx[t].op # "schedule" /\ ~Continuation(t)
        BY <1>3, <2>2 DEF HumanKinds, TriggerKind
      <3> QED
        BY <3>1, Committer DEF Commits, Admission
    <2>4. ForUpdate("human", tx[t].actor) \in tx[t].held
      BY <1>1, <2>3 DEF TxOK, RowsOK
    <2>5. \A m \in tx[u].held : m.row # ForUpdate("human", tx[t].actor).row
      BY <1>1, <2>4, LockRows, LockedAlone
    <2> QED
      BY <1>3, <2>2, <2>5
  <1>4. ASSUME NEW r \in Indexes, JobUpdate(r) \in tx[u].held
        PROVE  Chain(r)' = Chain(r) /\ jobs'[r].finished = jobs[r].finished
    <2>1. JobUpdate(r) \notin tx[t].held
      BY <1>1, <1>4, LockRows, LockedAlone
    <2>2. ASSUME NEW j \in New(t) PROVE jobs'[j].root # r
      <3>1. jobs'[j].root = (IF Continuation(t) THEN Root(t) ELSE j) /\ j \notin Indexes
        BY NewRows DEF InsertedAs
      <3>2. Continuation(t) => JobUpdate(Root(t)) \in tx[t].held
        BY <1>1 DEF TxOK, RowsOK, Commits
      <3> QED
        BY <2>1, <3>1, <3>2
    <2>3. Chain(r)' = Chain(r)
      BY <2>2, OldRows DEF Chain, Fixed
    <2>4. ~(tx[t].op = "publish" /\ r = tx[t].parent)
      BY <2>1, OpenParent
    <2>5. jobs'[r].finished = jobs[r].finished
      BY <2>4 DEF Commits, Inserts
    <2> QED
      BY <2>3, <2>5
  <1> QED
    BY <1>1, <1>2, <1>3, <1>4 DEF Undisturbed

LEMMA CommitKeepsJobs ==
    ASSUME NEW t \in Txs, Commits(t)
    PROVE  JobsOK'
  <1>1. AdmissionInv /\ TypeOK /\ TypeOK' /\ JobsOK /\ TxOK(t) /\ Grown
    BY CommitGrows DEF Commits, AdmissionInv
  <1>2. /\ tx[t].clock \in Nat \ {0} /\ tx[t].clock <= now /\ now' = now /\ now \in Nat
        /\ Continuation(t) => Root(t) \in Indexes
    BY Committer DEF Commits, Inserts
  <1>3. (Len(jobs) <= MaxJobs)'
    BY DEF Commits, Inserts, MaxJobs
  <1>4. ASSUME NEW i \in Indexes
        PROVE  /\ jobs'[i].created <= now' /\ jobs'[i].root \in Indexes'
               /\ jobs'[i].finished = 0 <=> jobs'[i].result = 0
               /\ jobs'[i].finished <= lastPublished'[jobs'[i].agent]
               /\ Known(jobs[i].post)'
    <2>1. Fixed(jobs[i], jobs'[i]) /\ jobs[i] \in Job /\ jobs[i].agent \in Agents /\ jobs[i].post \in Nat
      BY <1>1, OldRows, IndexFacts, JobFields
    <2>2. jobs'[i].created <= now' /\ jobs'[i].root \in Indexes'
      BY <1>1, <1>2, <2>1, OldRows DEF Fixed, JobsOK
    <2>3. Known(jobs[i].post)'
      <3>1. \A p \in Nat : Known(p) => Known(p)'
        BY <1>1, KnownKeeps
      <3>2. Known(jobs[i].post)
        BY <1>1 DEF JobsOK
      <3>3. jobs'[i].post = jobs[i].post
        BY <2>1 DEF Fixed
      <3>4. \A p : Known(p)' <=> (p > Cardinality(Posts) => Used(p - Cardinality(Posts))')
        BY DEF Known
      <3> QED
        BY <2>1, <3>1, <3>2, <3>3, <3>4 DEF Known
    <2>4. lastPublished \in [Agents -> Nat]
      BY <1>1 DEF TypeOK
    <2>5. CASE tx[t].op = "publish" /\ i = tx[t].parent
      <3>1. jobs'[i].finished = tx[t].clock /\ jobs'[i].result = ActionOf(t)
        BY <2>5 DEF Commits, Inserts
      <3>2. ActionOf(t) # 0
        BY <1>1, <2>5, ActionFacts
      <3>3. lastPublished' = [lastPublished EXCEPT ![tx[t].actor] = tx[t].clock]
        BY <2>5 DEF Commits, Inserts
      <3>4. jobs'[i].agent = tx[t].actor /\ tx[t].actor \in Agents
        BY <2>1, <2>5, OpenParent DEF Fixed
      <3>5. lastPublished'[jobs'[i].agent] = tx[t].clock
        BY <2>4, <3>3, <3>4
      <3> QED
        BY <1>2, <2>2, <2>3, <3>1, <3>2, <3>5
    <2>6. CASE ~(tx[t].op = "publish" /\ i = tx[t].parent)
      <3>1. jobs'[i] = jobs[i]
        BY <2>6 DEF Commits, Inserts
      <3>2. (jobs[i].finished = 0 <=> jobs[i].result = 0) /\ jobs[i].finished <= lastPublished[jobs[i].agent]
        BY <1>1 DEF JobsOK
      <3>3. lastPublished'[jobs[i].agent] >= lastPublished[jobs[i].agent]
        <4>1. lastPublished[jobs[i].agent] \in Nat
          BY <2>1, <2>4
        <4>2. CASE tx[t].op = "publish" /\ jobs[i].agent = tx[t].actor
          <5>1. lastPublished' = [lastPublished EXCEPT ![tx[t].actor] = tx[t].clock]
            BY <4>2 DEF Commits, Inserts
          <5>2. lastPublished'[jobs[i].agent] = tx[t].clock
            BY <2>1, <2>4, <4>2, <5>1
          <5>3. lastPublished[tx[t].actor] > 0 =>
                    tx[t].clock >= lastPublished[tx[t].actor] + Policy[tx[t].actor].spacing
            BY <4>2, OpenParent
          <5>4. Policy[tx[t].actor].spacing \in Nat
            BY <1>1, <2>1, <4>2, PolicyFacts DEF TypeOK
          <5> QED
            BY <1>2, <4>1, <4>2, <5>2, <5>3, <5>4
        <4>3. CASE ~(tx[t].op = "publish" /\ jobs[i].agent = tx[t].actor)
          <5>1. lastPublished'[jobs[i].agent] = lastPublished[jobs[i].agent]
            BY <2>1, <2>4, <4>3 DEF Commits, Inserts
          <5> QED
            BY <4>1, <5>1
        <4> QED
          BY <4>2, <4>3
      <3>4. jobs[i].finished \in Nat /\ lastPublished[jobs[i].agent] \in Nat /\ lastPublished'[jobs[i].agent] \in Nat
        BY <1>1, <2>1, <2>4, JobFields, OldRows DEF TypeOK
      <3>5. jobs[i].finished <= lastPublished'[jobs[i].agent]
        BY <3>2, <3>3, <3>4
      <3> QED
        BY <2>2, <2>3, <3>1, <3>2, <3>5
    <2> QED
      BY <2>5, <2>6
  <1>5. ASSUME NEW j \in New(t)
        PROVE  /\ jobs'[j].created <= now' /\ jobs'[j].root \in Indexes'
               /\ jobs'[j].finished = 0 <=> jobs'[j].result = 0
               /\ jobs'[j].finished <= lastPublished'[jobs'[j].agent]
               /\ Known(jobs[j].post)'
    <2>1. InsertedAs(t, j, jobs'[j].agent) /\ j \in Indexes' /\ jobs'[j].agent \in Agents
      BY NewRows
    <2>2. jobs'[j].created <= now' /\ jobs'[j].finished = 0 /\ jobs'[j].result = 0
      BY <1>2, <2>1 DEF InsertedAs
    <2>3. jobs'[j].root \in Indexes'
      BY <1>2, <2>1, OldRows DEF InsertedAs
    <2>4. jobs'[j].finished <= lastPublished'[jobs'[j].agent]
      <3>1. lastPublished'[jobs'[j].agent] \in Nat
        BY <1>1, <2>1, OldRows DEF TypeOK
      <3> QED
        BY <2>2, <3>1
    <2>5. Known(jobs[j].post)'
      <3>1. \A p : Known(p)' <=> (p > Cardinality(Posts) => Used(p - Cardinality(Posts))')
        BY DEF Known
      <3>2. CASE tx[t].post = 0 /\ tx[t].op # "schedule"
        <4>1. jobs'[j].post = PostOf(ActionOf(t)) /\ jobs'[j].key = ActionOf(t)
          BY <2>1, <3>2 DEF InsertedAs
        <4>2. ActionOf(t) \in Nat /\ Cardinality(Posts) \in Nat
          BY <1>1, ActionFacts, PostsFacts DEF Continuation
        <4>3. jobs'[j].post - Cardinality(Posts) = ActionOf(t)
          BY <4>1, <4>2 DEF PostOf
        <4>4. Used(jobs[j].post - Cardinality(Posts))'
              <=> \E i \in Indexes' : \/ jobs'[j].post - Cardinality(Posts) = jobs'[i].key
                                      \/ jobs'[j].post - Cardinality(Posts) = jobs'[i].result
          BY DEF Used
        <4> QED
          BY <2>1, <4>1, <4>3, <4>4 DEF Known
      <3>3. CASE ~(tx[t].post = 0 /\ tx[t].op # "schedule")
        <4>1. jobs'[j].post = tx[t].post
          BY <2>1, <3>3 DEF InsertedAs
        <4>2. tx[t].post \in Nat /\ Known(tx[t].post)
          BY <1>1, TxFields DEF TxOK, FieldsOK, TypeOK
        <4>3. \A p \in Nat : Known(p) => Known(p)'
          BY <1>1, KnownKeeps
        <4>4. tx[t].post > Cardinality(Posts) =>
                  \E i \in Indexes' : \/ tx[t].post - Cardinality(Posts) = jobs'[i].key
                                      \/ tx[t].post - Cardinality(Posts) = jobs'[i].result
          <5>1. \A p \in Nat : Known(p) => (p > Cardinality(Posts) => Used(p - Cardinality(Posts))')
            BY <3>1, <4>3
          <5>2. \A m : Used(m)' <=> \E i \in Indexes' : m = jobs'[i].key \/ m = jobs'[i].result
            BY DEF Used
          <5> QED
            BY <4>2, <5>1, <5>2
        <4>5. Known(jobs[j].post)' <=> (jobs'[j].post > Cardinality(Posts) =>
                  \E i \in Indexes' : \/ jobs'[j].post - Cardinality(Posts) = jobs'[i].key
                                      \/ jobs'[j].post - Cardinality(Posts) = jobs'[i].result)
          BY DEF Known, Used
        <4> QED
          BY <4>1, <4>4, <4>5
      <3> QED
        BY <3>2, <3>3
    <2> QED
      BY <2>2, <2>3, <2>4, <2>5
  <1>6. \A i \in Indexes' : i \in Indexes \/ i \in New(t)
    BY OldRows
  <1>7. (\A i \in Indexes :
           /\ jobs[i].created <= now /\ jobs[i].root \in Indexes
           /\ jobs[i].finished = 0 <=> jobs[i].result = 0
           /\ jobs[i].finished <= lastPublished[jobs[i].agent]
           /\ Known(jobs[i].post))'
    BY <1>4, <1>5, <1>6
  <1> QED
    BY <1>3, <1>7 DEF JobsOK

-----------------------------------------------------------------------------
(* Old reservations keep their rank. *)

LEMMA OrderKeeps ==
    ASSUME NEW t \in Txs, Commits(t), NEW j \in Indexes
    PROVE  /\ \A i \in Indexes : Before(i, j)' = Before(i, j) /\ UpTo(i, j)' = UpTo(i, j)
           /\ jobs[j].created < tx[t].clock => \A i \in New(t) : ~Before(i, j)' /\ ~UpTo(i, j)'
  <1>1. ASSUME NEW i \in Indexes PROVE Before(i, j)' = Before(i, j) /\ UpTo(i, j)' = UpTo(i, j)
    <2>1. Fixed(jobs[i], jobs'[i]) /\ Fixed(jobs[j], jobs'[j])
      BY OldRows
    <2> QED
      BY <2>1 DEF Before, UpTo, Fixed
  <1>2. ASSUME jobs[j].created < tx[t].clock, NEW i \in New(t) PROVE ~Before(i, j)' /\ ~UpTo(i, j)'
    <2>1. jobs'[i].created = tx[t].clock /\ i \notin Indexes
      BY NewRows DEF InsertedAs
    <2>2. jobs'[j].created = jobs[j].created
      BY OldRows DEF Fixed
    <2>3. tx[t].clock \in Nat /\ jobs[j].created \in Nat
      BY Committer, IndexFacts, JobFields DEF Commits, AdmissionInv
    <2>4. ~(tx[t].clock < jobs[j].created) /\ tx[t].clock # jobs[j].created
      BY <1>2, <2>3
    <2>5. ~Before(i, j)'
      BY <2>1, <2>2, <2>4 DEF Before
    <2>6. i # j
      BY <2>1
    <2> QED
      BY <2>5, <2>6 DEF UpTo
  <1> QED
    BY <1>1, <1>2

\* What is older than the clock, since the transaction locked it before.
LEMMA OlderThanNew ==
    ASSUME NEW t \in Txs, Commits(t), NEW j \in Indexes
    PROVE  /\ \A i \in New(t) : jobs'[i].agent = jobs[j].agent => jobs[j].created < tx[t].clock
           /\ Human(t) /\ jobs[j].actor = tx[t].actor /\ jobs[j].kind \in HumanKinds =>
                  jobs[j].created < tx[t].clock
           /\ Continuation(t) /\ jobs[j].root = Root(t) => jobs[j].created < tx[t].clock
  <1>1. CountedOK(t) /\ Counted(t)
    BY Committer DEF Commits, AdmissionInv, TxOK
  <1>2. ASSUME NEW i \in New(t), jobs'[i].agent = jobs[j].agent PROVE jobs[j].created < tx[t].clock
    <2>1. jobs[j].agent \in Agents /\ Holds(t, "settings", jobs[j].agent) /\ j \in OfAgent(jobs[j].agent)
      BY <1>2, NewRows DEF OfAgent
    <2> QED
      BY <1>1, <2>1 DEF CountedOK
  <1>3. Continuation(t) /\ jobs[j].root = Root(t) => j \in Chain(Root(t))
    BY DEF Chain
  <1> QED
    BY <1>1, <1>2, <1>3 DEF CountedOK

LEMMA OldAgentQuotas ==
    ASSUME NEW t \in Txs, Commits(t), NEW j \in Indexes, SpacingAllows(j), DayAllows(j),
           jobs[j].kind # "scheduled" => CooldownAllows(j) /\ ConversationAllows(j)
    PROVE  /\ SpacingAllows(j)' /\ DayAllows(j)'
           /\ jobs'[j].kind # "scheduled" => CooldownAllows(j)' /\ ConversationAllows(j)'
  <1> DEFINE a == jobs[j].agent
  <1>1. /\ Fixed(jobs[j], jobs'[j]) /\ Indexes' = Indexes \cup New(t) /\ Policy' = Policy
        /\ DayLength' = DayLength /\ \A i \in Indexes : Fixed(jobs[i], jobs'[i])
    BY OldRows
  <1>2. jobs'[j].agent = a /\ jobs'[j].kind = jobs[j].kind /\ jobs'[j].created = jobs[j].created
        /\ jobs'[j].post = jobs[j].post /\ jobs'[j].actor = jobs[j].actor
    BY <1>1 DEF Fixed
  <1>3. /\ \A i \in Indexes : Before(i, j)' = Before(i, j) /\ UpTo(i, j)' = UpTo(i, j)
        /\ \A i \in New(t) : jobs'[i].agent = a => ~Before(i, j)' /\ ~UpTo(i, j)'
    BY OrderKeeps, OlderThanNew
  <1> HIDE DEF a
  <1>4. /\ OfAgent(a)' = {i \in Indexes' : jobs'[i].agent = a}
        /\ OfAgent(a) = {i \in Indexes : jobs[i].agent = a}
    <2>1. \A b : OfAgent(b)' = {i \in Indexes' : jobs'[i].agent = b}
      BY DEF OfAgent
    <2>2. OfAgent(a)' = {i \in Indexes' : jobs'[i].agent = a'}
      BY DEF OfAgent
    <2>3. a' = a
      BY <1>2 DEF a
    <2> QED
      BY <2>2, <2>3 DEF OfAgent
  <1>5. SpacingAllows(j)'
    <2>1. SpacingAllows(j)' <=> \A i \in {k \in Indexes' : jobs'[k].agent = jobs'[j].agent} :
              Before(i, j)' => jobs'[i].created <= jobs'[j].created - Policy'[jobs'[j].agent].spacing
      BY DEF SpacingAllows, OfAgent
    <2>2. \A i \in Indexes : jobs[i].agent = a =>
              (Before(i, j) => jobs[i].created <= jobs[j].created - Policy[a].spacing)
      BY DEF SpacingAllows, OfAgent, a
    <2> QED
      BY <1>1, <1>2, <1>3, <2>1, <2>2 DEF Fixed
  <1>6. DayAllows(j)'
    <2> DEFINE S == {i \in {k \in OfAgent(jobs[j].agent) :
                               SameReservation(k, j) /\ Day(jobs[k].created) = Day(jobs[j].created)} : UpTo(i, j)}
    <2>1. DayAllows(j) <=> Cardinality(S) <= IF jobs[j].kind = "scheduled" THEN Policy[jobs[j].agent].scheduledCap
                                             ELSE Policy[jobs[j].agent].dailyCap
      BY DEF DayAllows, RankAmong
    <2>2. DayAllows(j)' <=> Cardinality(S') <= IF jobs'[j].kind = "scheduled"
                                               THEN Policy'[jobs'[j].agent].scheduledCap
                                               ELSE Policy'[jobs'[j].agent].dailyCap
      BY DEF DayAllows, RankAmong
    <2>3. S' = S
      <3>1. S' = {i \in Indexes' : /\ jobs'[i].agent = jobs'[j].agent
                                   /\ (jobs'[i].kind = "scheduled" <=> jobs'[j].kind = "scheduled")
                                   /\ jobs'[i].created \div DayLength' = jobs'[j].created \div DayLength'
                                   /\ UpTo(i, j)'}
        BY DEF OfAgent, SameReservation, Day
      <3>2. S = {i \in Indexes : /\ jobs[i].agent = jobs[j].agent
                                 /\ (jobs[i].kind = "scheduled" <=> jobs[j].kind = "scheduled")
                                 /\ jobs[i].created \div DayLength = jobs[j].created \div DayLength
                                 /\ UpTo(i, j)}
        BY DEF OfAgent, SameReservation, Day
      <3> HIDE DEF S
      <3>3. \A i \in Indexes : i \in S' <=> i \in S
        BY <1>1, <1>2, <1>3, <3>1, <3>2 DEF Fixed, a
      <3>4. \A i \in New(t) : i \notin S'
        BY <1>2, <1>3, <3>1
      <3>5. (\A i \in S : i \in Indexes) /\ (\A i \in S' : i \in Indexes')
        BY <3>1, <3>2
      <3> QED
        BY <1>1, <3>3, <3>4, <3>5
    <2> HIDE DEF S
    <2> QED
      BY <1>1, <1>2, <2>1, <2>2, <2>3 DEF a
  <1>7. ASSUME jobs[j].kind # "scheduled" PROVE CooldownAllows(j)'
    <2>1. CooldownAllows(j)' <=> \A i \in Indexes' :
              Before(i, j)' /\ jobs'[i].kind = jobs'[j].kind /\ jobs'[i].actor = jobs'[j].actor
                  /\ jobs'[i].agent = jobs'[j].agent /\ jobs'[i].post = jobs'[j].post
              => jobs'[i].created < jobs'[j].created - Policy'[jobs'[j].agent].cooldown
      BY DEF CooldownAllows, SameCooldown
    <2>2. \A i \in Indexes :
              Before(i, j) /\ jobs[i].kind = jobs[j].kind /\ jobs[i].actor = jobs[j].actor
                  /\ jobs[i].agent = jobs[j].agent /\ jobs[i].post = jobs[j].post
              => jobs[i].created < jobs[j].created - Policy[jobs[j].agent].cooldown
      BY <1>7 DEF CooldownAllows, SameCooldown
    <2> QED
      BY <1>1, <1>2, <1>3, <2>1, <2>2 DEF Fixed, a
  <1>8. ASSUME jobs[j].kind # "scheduled" PROVE ConversationAllows(j)'
    <2> DEFINE S == {i \in {k \in OfAgent(jobs[j].agent) :
                               jobs[k].kind # "scheduled" /\ jobs[k].post = jobs[j].post} : UpTo(i, j)}
    <2>1. ConversationAllows(j) <=> Cardinality(S) <= Policy[jobs[j].agent].conversationCap
      BY DEF ConversationAllows, RankAmong
    <2>2. ConversationAllows(j)' <=> Cardinality(S') <= Policy'[jobs'[j].agent].conversationCap
      BY DEF ConversationAllows, RankAmong
    <2>3. S' = S
      <3>1. S' = {i \in Indexes' : /\ jobs'[i].agent = jobs'[j].agent /\ jobs'[i].kind # "scheduled"
                                   /\ jobs'[i].post = jobs'[j].post /\ UpTo(i, j)'}
        BY DEF OfAgent
      <3>2. S = {i \in Indexes : /\ jobs[i].agent = jobs[j].agent /\ jobs[i].kind # "scheduled"
                                 /\ jobs[i].post = jobs[j].post /\ UpTo(i, j)}
        BY DEF OfAgent
      <3> HIDE DEF S
      <3>3. \A i \in Indexes : i \in S' <=> i \in S
        BY <1>1, <1>2, <1>3, <3>1, <3>2 DEF Fixed, a
      <3>4. \A i \in New(t) : i \notin S'
        BY <1>2, <1>3, <3>1
      <3>5. (\A i \in S : i \in Indexes) /\ (\A i \in S' : i \in Indexes')
        BY <3>1, <3>2
      <3> QED
        BY <1>1, <3>3, <3>4, <3>5
    <2> HIDE DEF S
    <2> QED
      BY <1>1, <1>2, <1>8, <2>1, <2>2, <2>3 DEF a
  <1> QED
    BY <1>2, <1>5, <1>6, <1>7, <1>8

LEMMA OldTrigger ==
    ASSUME NEW t \in Txs, Commits(t), NEW j \in Indexes, jobs[j].kind # "scheduled", TriggerAllows(j)
    PROVE  TriggerAllows(j)'
  <1> DEFINE S == {i \in {k \in Indexes :
                             /\ SameTrigger(k, j)
                             /\ jobs[j].depth = 0 => jobs[k].depth = 0
                             /\ jobs[j].depth > 0 => jobs[k].depth > 0 /\ jobs[k].root = jobs[j].root} : UpTo(i, j)}
  <1>1. /\ Fixed(jobs[j], jobs'[j]) /\ Indexes' = Indexes \cup New(t) /\ Policy' = Policy
        /\ \A i \in Indexes : Fixed(jobs[i], jobs'[i])
    BY OldRows
  <1>2. TriggerAllows(j) <=> Cardinality(S) <= Policy[jobs[j].agent].triggerCap
    BY DEF TriggerAllows, RankAmong
  <1>3. TriggerAllows(j)' <=> Cardinality(S') <= Policy'[jobs'[j].agent].triggerCap
    BY DEF TriggerAllows, RankAmong
  <1>4. S' = {i \in Indexes' : /\ jobs'[i].kind = jobs'[j].kind /\ jobs'[i].key = jobs'[j].key
                               /\ jobs'[j].depth = 0 => jobs'[i].depth = 0
                               /\ jobs'[j].depth > 0 => jobs'[i].depth > 0 /\ jobs'[i].root = jobs'[j].root
                               /\ UpTo(i, j)'}
    BY DEF SameTrigger
  <1>5. S = {i \in Indexes : /\ jobs[i].kind = jobs[j].kind /\ jobs[i].key = jobs[j].key
                             /\ jobs[j].depth = 0 => jobs[i].depth = 0
                             /\ jobs[j].depth > 0 => jobs[i].depth > 0 /\ jobs[i].root = jobs[j].root
                             /\ UpTo(i, j)}
    BY DEF SameTrigger
  <1> HIDE DEF S
  <1>6. \A i \in Indexes : i \in S' <=> i \in S
    <2>1. \A i \in Indexes : UpTo(i, j)' = UpTo(i, j)
      BY OrderKeeps
    <2> QED
      BY <1>1, <1>4, <1>5, <2>1 DEF Fixed
  <1>7. ASSUME NEW i \in New(t) PROVE i \notin S'
    <2> SUFFICES ASSUME i \in S' PROVE FALSE
      OBVIOUS
    <2>1. InsertedAs(t, i, jobs'[i].agent)
      BY NewRows
    <2>2. jobs'[i].kind = jobs[j].kind /\ jobs'[i].key = jobs[j].key /\ UpTo(i, j)'
          /\ (jobs[j].depth = 0 => jobs'[i].depth = 0) /\ (jobs[j].depth > 0 => jobs'[i].root = jobs[j].root)
      BY <1>1, <1>4 DEF Fixed
    <2>3. tx[t].op = "continue"
      <3>1. ActionOf(t) = jobs[j].key
        BY <2>1, <2>2 DEF InsertedAs
      <3>2. Used(ActionOf(t))
        BY <3>1 DEF Used
      <3> QED
        BY <3>2, ActionFacts DEF Commits
    <2>4. Continuation(t)
      BY <2>3 DEF Continuation
    <2>5. /\ jobs[tx[t].parent].depth \in Nat /\ jobs[j].depth \in Nat
      BY <2>4, Committer, IndexFacts, JobFields DEF Commits, AdmissionInv
    <2>6. jobs'[i].depth = jobs[tx[t].parent].depth + 1 /\ jobs'[i].root = Root(t)
      BY <2>1, <2>4 DEF InsertedAs
    <2>7. jobs[j].depth > 0 /\ jobs[j].root = Root(t)
      BY <2>2, <2>5, <2>6
    <2>8. jobs[j].created < tx[t].clock
      BY <2>4, <2>7, OlderThanNew
    <2> QED
      BY <2>2, <2>8, OrderKeeps
  <1>8. S' = S
    BY <1>1, <1>4, <1>5, <1>6, <1>7
  <1> QED
    BY <1>1, <1>2, <1>3, <1>8 DEF Fixed

LEMMA OldHuman ==
    ASSUME NEW t \in Txs, Commits(t), NEW j \in Indexes, jobs[j].kind \in HumanKinds, HumanAllows(j)
    PROVE  HumanAllows(j)'
  <1> DEFINE S == {i \in {k \in Indexes :
                             /\ jobs[k].actor = jobs[j].actor
                             /\ jobs[k].kind \in HumanKinds
                             /\ jobs[k].created >= jobs[j].created - Policy[jobs[j].agent].humanWindow} : UpTo(i, j)}
  <1>1. /\ Fixed(jobs[j], jobs'[j]) /\ Indexes' = Indexes \cup New(t) /\ Policy' = Policy
        /\ \A i \in Indexes : Fixed(jobs[i], jobs'[i])
    BY OldRows
  <1>2. HumanAllows(j) <=> Cardinality(S) <= Policy[jobs[j].agent].humanCap
    BY DEF HumanAllows, RankAmong
  <1>3. HumanAllows(j)' <=> Cardinality(S') <= Policy'[jobs'[j].agent].humanCap
    BY DEF HumanAllows, RankAmong
  <1>4. S' = {i \in Indexes' : /\ jobs'[i].actor = jobs'[j].actor /\ jobs'[i].kind \in HumanKinds
                               /\ jobs'[i].created >= jobs'[j].created - Policy'[jobs'[j].agent].humanWindow
                               /\ UpTo(i, j)'}
    OBVIOUS
  <1>5. S = {i \in Indexes : /\ jobs[i].actor = jobs[j].actor /\ jobs[i].kind \in HumanKinds
                             /\ jobs[i].created >= jobs[j].created - Policy[jobs[j].agent].humanWindow
                             /\ UpTo(i, j)}
    OBVIOUS
  <1> HIDE DEF S
  <1>6. \A i \in Indexes : i \in S' <=> i \in S
    <2>1. \A i \in Indexes : UpTo(i, j)' = UpTo(i, j)
      BY OrderKeeps
    <2> QED
      BY <1>1, <1>4, <1>5, <2>1 DEF Fixed
  <1>7. ASSUME NEW i \in New(t) PROVE i \notin S'
    <2> SUFFICES ASSUME i \in S' PROVE FALSE
      OBVIOUS
    <2>1. /\ jobs'[i].kind = IF tx[t].op = "schedule" THEN "scheduled" ELSE TriggerKind(t)
          /\ jobs'[i].actor = tx[t].actor
      BY NewRows DEF InsertedAs
    <2>2. jobs'[i].actor = jobs[j].actor /\ jobs'[i].kind \in HumanKinds /\ UpTo(i, j)'
      BY <1>1, <1>4 DEF Fixed
    <2>3. Human(t)
      <3>1. tx[t].op # "schedule" /\ ~Continuation(t)
        BY <2>1, <2>2 DEF HumanKinds, TriggerKind
      <3> QED
        BY <3>1, Committer DEF Commits, Admission
    <2>4. jobs[j].created < tx[t].clock
      BY <2>1, <2>2, <2>3, OlderThanNew
    <2> QED
      BY <2>2, <2>4, OrderKeeps
  <1>8. S' = S
    BY <1>1, <1>4, <1>5, <1>6, <1>7
  <1> QED
    BY <1>1, <1>2, <1>3, <1>8 DEF Fixed

-----------------------------------------------------------------------------
(* New reservations find room. *)

LEMMA OneMore ==
    ASSUME NEW B, IsFiniteSet(B), NEW j, NEW A \in SUBSET (B \cup {j}), NEW cap \in Nat, Cardinality(B) < cap
    PROVE  Cardinality(A) <= cap
  <1>1. IsFiniteSet(B \cup {j}) /\ Cardinality(B) \in Nat
        /\ (Cardinality(B \cup {j}) = Cardinality(B) \/ Cardinality(B \cup {j}) = Cardinality(B) + 1)
    <2>1. CASE j \in B
      <3>1. B \cup {j} = B
        BY <2>1
      <3> QED
        BY <3>1, FS_CardinalityType
    <2>2. CASE j \notin B
      BY <2>2, FS_AddElement, FS_CardinalityType
    <2> QED
      BY <2>1, <2>2
  <1>2. IsFiniteSet(A) /\ Cardinality(A) <= Cardinality(B \cup {j}) /\ Cardinality(A) \in Nat
    <2>1. IsFiniteSet(A) /\ Cardinality(A) <= Cardinality(B \cup {j})
      BY <1>1, FS_Subset
    <2> QED
      BY <2>1, FS_CardinalityType
  <1> QED
    BY <1>1, <1>2

LEMMA SomeMore ==
    ASSUME NEW B, IsFiniteSet(B), NEW N, IsFiniteSet(N), NEW A \in SUBSET (B \cup N)
    PROVE  /\ Cardinality(A) <= Cardinality(B) + Cardinality(N)
           /\ Cardinality(A) \in Nat /\ Cardinality(B) \in Nat /\ Cardinality(N) \in Nat
  <1>1. IsFiniteSet(B \cup N) /\ Cardinality(B \cup N) = Cardinality(B) + Cardinality(N) - Cardinality(B \cap N)
    BY FS_Union
  <1>2. IsFiniteSet(B \cap N)
    BY FS_Intersection
  <1>3. IsFiniteSet(A) /\ Cardinality(A) <= Cardinality(B \cup N)
    BY <1>1, FS_Subset
  <1>4. Cardinality(A) \in Nat /\ Cardinality(B) \in Nat /\ Cardinality(N) \in Nat
        /\ Cardinality(B \cap N) \in Nat /\ Cardinality(B \cup N) \in Nat
    BY <1>1, <1>2, <1>3, FS_CardinalityType
  <1> QED
    BY <1>1, <1>3, <1>4

\* A post that is created now has no jobs yet.
LEMMA FreshPost ==
    ASSUME NEW t \in Txs, Commits(t), tx[t].post = 0, tx[t].op # "schedule", NEW i \in Indexes
    PROVE  jobs[i].post # PostOf(ActionOf(t))
  <1>1. tx[t].op # "continue"
    BY DEF Commits, AdmissionInv, TxOK, FieldsOK
  <1>2. ActionOf(t) \in Nat \ {0} /\ ~Used(ActionOf(t)) /\ Cardinality(Posts) \in Nat
    BY <1>1, ActionFacts, PostsFacts DEF Commits
  <1>3. Known(jobs[i].post)
    BY DEF Commits, AdmissionInv, JobsOK
  <1>4. PostOf(ActionOf(t)) > Cardinality(Posts) /\ PostOf(ActionOf(t)) - Cardinality(Posts) = ActionOf(t)
    BY <1>2 DEF PostOf
  <1> QED
    BY <1>2, <1>3, <1>4 DEF Known

LEMMA NewKinds ==
    ASSUME NEW t \in Txs, Commits(t), NEW j \in New(t)
    PROVE  /\ jobs'[j].kind = "scheduled" <=> tx[t].op = "schedule"
           /\ jobs'[j].kind # "scheduled" => jobs'[j].kind = TriggerKind(t) /\ Admission(t)
           /\ jobs'[j].kind \in HumanKinds => Human(t)
           /\ jobs'[j].kind = "continuation" <=> Continuation(t)
  <1>1. jobs'[j].kind = IF tx[t].op = "schedule" THEN "scheduled" ELSE TriggerKind(t)
    BY NewRows DEF InsertedAs
  <1>2. tx[t].op = "schedule" \/ Admission(t)
    BY Committer DEF Commits
  <1> QED
    BY <1>1, <1>2 DEF TriggerKind, Admission, Human, HumanKinds, Continuation

LEMMA OrderTyped == TypeOK => \A i \in Indexes : jobs[i].order \in Nat /\ jobs[i].created \in Nat
  BY IndexFacts, JobFields

LEMMA OrderTypedNext == (TypeOK => \A i \in Indexes : jobs[i].order \in Nat /\ jobs[i].created \in Nat)'
  BY OrderTyped, PTL

LEMMA NewAgentQuotas ==
    ASSUME NEW t \in Txs, Commits(t), NEW j \in New(t)
    PROVE  /\ SpacingAllows(j)' /\ DayAllows(j)'
           /\ jobs'[j].kind # "scheduled" => CooldownAllows(j)' /\ ConversationAllows(j)'
  <1> DEFINE a == jobs'[j].agent
             clock == tx[t].clock
  <1>1. /\ a \in Agents /\ Fits(t, a) /\ InsertedAs(t, j, a) /\ j \notin Indexes /\ j \in Indexes'
        /\ \A i \in New(t) : jobs'[i].agent = a => i = j
    BY NewRows
  <1>2. /\ Indexes' = Indexes \cup New(t) /\ Policy' = Policy /\ DayLength' = DayLength
        /\ \A i \in Indexes : Fixed(jobs[i], jobs'[i])
    BY OldRows
  <1>3. /\ clock \in Nat /\ TypeOK /\ TypeOK' /\ jobs'[j].created = clock /\ jobs'[j].order \in Nat
    <2>1. jobs'[j].order \in Nat
      BY <1>1, OrderTypedNext DEF Commits
    <2> QED
      BY <1>1, <2>1, Committer DEF Commits, AdmissionInv, InsertedAs
  <1>4. /\ Policy[a].spacing \in Nat /\ Policy[a].scheduledCap \in Nat /\ Policy[a].dailyCap \in Nat
        /\ Policy[a].conversationCap \in Nat
    BY <1>1, <1>3, PolicyFacts DEF TypeOK
  <1>5. /\ \A i \in Indexes : jobs'[i].agent = jobs[i].agent /\ jobs'[i].kind = jobs[i].kind
                /\ jobs'[i].created = jobs[i].created /\ jobs'[i].post = jobs[i].post
                /\ jobs'[i].actor = jobs[i].actor /\ jobs[i].created \in Nat
        /\ \A S : S \subseteq Indexes => IsFiniteSet(S)
    <2>1. \A i \in Indexes : jobs[i].created \in Nat
      BY <1>3, IndexFacts, JobFields
    <2>2. \A S : S \subseteq Indexes => IsFiniteSet(S)
      BY <1>3, IndexFacts, FS_Subset
    <2> QED
      BY <1>2, <2>1, <2>2 DEF Fixed
  <1>6. ~Before(j, j)'
    <2>1. Before(j, j)' <=> \/ jobs'[j].created < jobs'[j].created
                            \/ jobs'[j].created = jobs'[j].created /\ jobs'[j].order < jobs'[j].order
      BY DEF Before
    <2> QED
      BY <1>3, <2>1
  <1> HIDE DEF a, clock
  <1>7. \A i \in Indexes' : jobs'[i].agent = a => i = j \/ (i \in Indexes /\ jobs[i].agent = a)
    BY <1>1, <1>2, <1>5
  <1>8. SpacingAllows(j)'
    <2>1. SpacingAllows(j)' <=> \A i \in {k \in Indexes' : jobs'[k].agent = jobs'[j].agent} :
              Before(i, j)' => jobs'[i].created <= jobs'[j].created - Policy'[jobs'[j].agent].spacing
      BY DEF SpacingAllows, OfAgent
    <2>2. ASSUME NEW i \in Indexes, jobs[i].agent = a PROVE jobs'[i].created <= clock - Policy[a].spacing
      <3>1. ~(jobs[i].created > clock - Policy[a].spacing)
        BY <1>1, <2>2 DEF Fits, Unspaced, OfAgent, clock
      <3> QED
        BY <1>3, <1>4, <1>5, <3>1
    <2>3. jobs'[j].agent = a
      BY DEF a
    <2> QED
      BY <1>2, <1>3, <1>6, <1>7, <2>1, <2>2, <2>3
  <1>9. DayAllows(j)'
    <2> DEFINE S == {i \in {k \in OfAgent(jobs[j].agent) :
                               SameReservation(k, j) /\ Day(jobs[k].created) = Day(jobs[j].created)} : UpTo(i, j)}
    <2>1. DayAllows(j)' <=> Cardinality(S') <= IF jobs'[j].kind = "scheduled"
                                               THEN Policy'[jobs'[j].agent].scheduledCap
                                               ELSE Policy'[jobs'[j].agent].dailyCap
      BY DEF DayAllows, RankAmong
    <2>2. S' = {i \in Indexes' : /\ jobs'[i].agent = jobs'[j].agent
                                 /\ (jobs'[i].kind = "scheduled" <=> jobs'[j].kind = "scheduled")
                                 /\ jobs'[i].created \div DayLength' = jobs'[j].created \div DayLength'
                                 /\ UpTo(i, j)'}
      BY DEF OfAgent, SameReservation, Day
    <2> HIDE DEF S
    <2>3. jobs'[j].agent = a
      BY DEF a
    <2>4. CASE tx[t].op = "schedule"
      <3> DEFINE B == SlotsToday(t, a)
      <3>1. jobs'[j].kind = "scheduled" /\ Cardinality(B) < Policy[a].scheduledCap
        BY <1>1, <2>4, NewKinds DEF Fits
      <3>2. B = {i \in Indexes : /\ jobs[i].agent = a /\ jobs[i].kind = "scheduled"
                                 /\ jobs[i].created \div DayLength = clock \div DayLength}
        BY DEF SlotsToday, OfAgent, Day, clock
      <3> HIDE DEF B
      <3>3. S' \subseteq B \cup {j}
        BY <1>2, <1>3, <1>5, <1>7, <2>2, <2>3, <3>1, <3>2
      <3>4. IsFiniteSet(B)
        BY <1>5, <3>2
      <3>5. Cardinality(S') <= Policy[a].scheduledCap
        BY <1>4, <3>1, <3>3, <3>4, OneMore
      <3> QED
        BY <1>2, <2>1, <2>3, <3>1, <3>5
    <2>5. CASE tx[t].op # "schedule"
      <3> DEFINE B == RepliesToday(t, a)
      <3>1. jobs'[j].kind # "scheduled" /\ Admission(t)
        BY <2>5, NewKinds
      <3>2. Cardinality(B) < Policy[a].dailyCap
        BY <1>1, <3>1 DEF Fits, ReplyFits
      <3>3. B = {i \in Indexes : /\ jobs[i].agent = a /\ jobs[i].kind # "scheduled"
                                 /\ jobs[i].created \div DayLength = clock \div DayLength}
        BY DEF RepliesToday, OfAgent, Day, clock
      <3> HIDE DEF B
      <3>4. S' \subseteq B \cup {j}
        BY <1>2, <1>3, <1>5, <1>7, <2>2, <2>3, <3>1, <3>3
      <3>5. IsFiniteSet(B)
        BY <1>5, <3>3
      <3>6. Cardinality(S') <= Policy[a].dailyCap
        BY <1>4, <3>2, <3>4, <3>5, OneMore
      <3> QED
        BY <1>2, <2>1, <2>3, <3>1, <3>6
    <2> QED
      BY <2>4, <2>5
  <1>10. ASSUME jobs'[j].kind # "scheduled" PROVE CooldownAllows(j)' /\ ConversationAllows(j)'
    <2>1. /\ jobs'[j].kind = TriggerKind(t) /\ Admission(t) /\ tx[t].op # "schedule"
          /\ jobs'[j].actor = tx[t].actor /\ jobs'[j].agent = a
          /\ jobs'[j].post = IF tx[t].post = 0 THEN PostOf(ActionOf(t)) ELSE tx[t].post
      BY <1>1, <1>10, NewKinds DEF InsertedAs, a
    <2>2. ReplyFits(t, a)
      BY <1>1, <2>1 DEF Fits
    <2>3. \A i \in Indexes : jobs[i].post = jobs'[j].post => tx[t].post # 0 /\ jobs[i].post = tx[t].post
      BY <2>1, FreshPost
    <2>4. CooldownAllows(j)'
      <3>1. CooldownAllows(j)' <=> \A i \in Indexes' :
              Before(i, j)' /\ jobs'[i].kind = jobs'[j].kind /\ jobs'[i].actor = jobs'[j].actor
                  /\ jobs'[i].agent = jobs'[j].agent /\ jobs'[i].post = jobs'[j].post
              => jobs'[i].created < jobs'[j].created - Policy'[jobs'[j].agent].cooldown
        BY DEF CooldownAllows, SameCooldown
      <3>2. \A i \in Indexes :
              jobs[i].kind = TriggerKind(t) /\ jobs[i].actor = tx[t].actor /\ jobs[i].agent = a
                  /\ jobs[i].post = tx[t].post
              => jobs[i].created < clock - Policy[a].cooldown
        BY <2>2 DEF ReplyFits, SameCooldown, clock
      <3> QED
        BY <1>2, <1>3, <1>5, <1>6, <1>7, <2>1, <2>3, <3>1, <3>2
    <2>5. ConversationAllows(j)'
      <3> DEFINE S == {i \in {k \in OfAgent(jobs[j].agent) :
                                 jobs[k].kind # "scheduled" /\ jobs[k].post = jobs[j].post} : UpTo(i, j)}
      <3>1. ConversationAllows(j)' <=> Cardinality(S') <= Policy'[jobs'[j].agent].conversationCap
        BY DEF ConversationAllows, RankAmong
      <3>2. S' = {i \in Indexes' : /\ jobs'[i].agent = jobs'[j].agent /\ jobs'[i].kind # "scheduled"
                                   /\ jobs'[i].post = jobs'[j].post /\ UpTo(i, j)'}
        BY DEF OfAgent
      <3> HIDE DEF S
      <3>3. CASE tx[t].post = 0
        <4>1. S' \subseteq {} \cup {j}
          BY <1>5, <1>7, <2>1, <2>3, <3>2, <3>3
        <4>2. IsFiniteSet({}) /\ Cardinality({}) = 0
          BY FS_EmptySet
        <4>3. Cardinality({}) < Policy[a].conversationCap
          BY <2>2, <4>2 DEF ReplyFits
        <4>4. Cardinality(S') <= Policy[a].conversationCap
          BY <1>4, <4>1, <4>2, <4>3, OneMore
        <4> QED
          BY <1>2, <2>1, <3>1, <4>4
      <3>4. CASE tx[t].post # 0
        <4> DEFINE B == InConversation(t, a)
        <4>1. Cardinality(B) < Policy[a].conversationCap
          BY <2>2, <3>4 DEF ReplyFits
        <4>2. B = {i \in Indexes : jobs[i].agent = a /\ jobs[i].kind # "scheduled" /\ jobs[i].post = tx[t].post}
          BY DEF InConversation, OfAgent
        <4> HIDE DEF B
        <4>3. S' \subseteq B \cup {j}
          BY <1>5, <1>7, <2>1, <2>3, <3>2, <4>2
        <4>4. IsFiniteSet(B)
          BY <1>5, <4>2
        <4>5. Cardinality(S') <= Policy[a].conversationCap
          BY <1>4, <4>1, <4>3, <4>4, OneMore
        <4> QED
          BY <1>2, <2>1, <3>1, <4>5
      <3> QED
        BY <3>3, <3>4
    <2> QED
      BY <2>4, <2>5
  <1> QED
    BY <1>8, <1>9, <1>10

LEMMA NewTrigger ==
    ASSUME NEW t \in Txs, Commits(t), NEW j \in New(t), jobs'[j].kind # "scheduled"
    PROVE  TriggerAllows(j)'
  <1> DEFINE S == {i \in {k \in Indexes :
                             /\ SameTrigger(k, j)
                             /\ jobs[j].depth = 0 => jobs[k].depth = 0
                             /\ jobs[j].depth > 0 => jobs[k].depth > 0 /\ jobs[k].root = jobs[j].root} : UpTo(i, j)}
             a == jobs'[j].agent
             n == Len(tx[t].chosen)
             B == IF tx[t].op = "continue"
                  THEN {i \in Chain(Root(t)) :
                            jobs[i].kind = "continuation" /\ jobs[i].key = jobs[tx[t].parent].result}
                  ELSE {}
  <1>1. /\ Indexes' = Indexes \cup New(t) /\ Policy' = Policy /\ \A i \in Indexes : Fixed(jobs[i], jobs'[i])
    BY OldRows
  <1>2. /\ a \in Agents /\ Fits(t, a) /\ InsertedAs(t, j, a) /\ n \in Nat
        /\ IsFiniteSet(New(t)) /\ Cardinality(New(t)) = n
    BY NewRows
  <1>3. jobs'[j].kind = TriggerKind(t) /\ Admission(t) /\ tx[t].op # "schedule"
    BY NewKinds
  <1>4. PriorActionJobs(t) + n <= Policy[a].triggerCap /\ Policy[a].triggerCap \in Nat
    BY <1>2, <1>3, PolicyFacts DEF Fits, ReplyFits, Commits, AdmissionInv, TypeOK
  <1>5. TriggerAllows(j)' <=> Cardinality(S') <= Policy'[jobs'[j].agent].triggerCap
    BY DEF TriggerAllows, RankAmong
  <1>6. S' = {i \in Indexes' : /\ jobs'[i].kind = jobs'[j].kind /\ jobs'[i].key = jobs'[j].key
                               /\ jobs'[j].depth = 0 => jobs'[i].depth = 0
                               /\ jobs'[j].depth > 0 => jobs'[i].depth > 0 /\ jobs'[i].root = jobs'[j].root
                               /\ UpTo(i, j)'}
    BY DEF SameTrigger
  <1>7. Cardinality(B) <= PriorActionJobs(t) /\ IsFiniteSet(B) /\ PriorActionJobs(t) \in Nat
    <2>1. CASE tx[t].op = "continue"
      <3>1. PriorActionJobs(t) = Cardinality(B)
        BY <2>1 DEF PriorActionJobs, Root
      <3>2. B \subseteq Chain(Root(t)) /\ IsFiniteSet(Chain(Root(t)))
        BY <2>1, Counts DEF Commits, AdmissionInv
      <3> HIDE DEF B
      <3>3. IsFiniteSet(B) /\ Cardinality(B) \in Nat
        BY <3>2, FS_Subset, FS_CardinalityType
      <3> QED
        BY <3>1, <3>3
    <2>2. CASE tx[t].op # "continue"
      <3>1. PriorActionJobs(t) = 0 /\ B = {}
        BY <2>2 DEF PriorActionJobs
      <3>2. IsFiniteSet({}) /\ Cardinality({}) = 0
        BY FS_EmptySet
      <3> HIDE DEF B
      <3> QED
        BY <3>1, <3>2
    <2> QED
      BY <2>1, <2>2
  <1> HIDE DEF S
  <1>8. ASSUME NEW i \in Indexes, i \in S' PROVE i \in B
    <2>1. jobs[i].kind = TriggerKind(t) /\ jobs[i].key = ActionOf(t)
          /\ (jobs'[j].depth > 0 => jobs[i].root = jobs'[j].root)
      BY <1>1, <1>2, <1>3, <1>6, <1>8 DEF Fixed, InsertedAs
    <2>2. tx[t].op = "continue"
      <3>1. Used(ActionOf(t))
        BY <2>1 DEF Used
      <3> QED
        BY <3>1, ActionFacts DEF Commits
    <2>3. Continuation(t)
      BY <2>2 DEF Continuation
    <2>4. jobs[tx[t].parent].depth \in Nat
      BY <2>3, Committer, JobFields DEF Commits
    <2>5. jobs'[j].depth = jobs[tx[t].parent].depth + 1 /\ jobs'[j].root = Root(t)
      BY <1>2, <2>3 DEF InsertedAs
    <2>6. jobs[i].root = Root(t)
      BY <2>1, <2>4, <2>5
    <2> QED
      BY <2>1, <2>2, <2>3, <2>6 DEF Chain, TriggerKind, ActionOf
  <1>9. S' \subseteq B \cup New(t)
    <2>1. \A i \in S' : i \in Indexes \/ i \in New(t)
      BY <1>1, <1>6
    <2> QED
      BY <1>8, <2>1
  <1> HIDE DEF B
  <1>10. Cardinality(S') <= Cardinality(B) + Cardinality(New(t)) /\ Cardinality(S') \in Nat /\ Cardinality(B) \in Nat
    BY <1>2, <1>7, <1>9, SomeMore
  <1> HIDE DEF n
  <1>11. Cardinality(S') <= Policy[a].triggerCap
    BY <1>2, <1>4, <1>7, <1>10
  <1> QED
    BY <1>1, <1>5, <1>11

LEMMA NewHuman ==
    ASSUME NEW t \in Txs, Commits(t), NEW j \in New(t), jobs'[j].kind \in HumanKinds
    PROVE  HumanAllows(j)'
  <1> DEFINE S == {i \in {k \in Indexes :
                             /\ jobs[k].actor = jobs[j].actor
                             /\ jobs[k].kind \in HumanKinds
                             /\ jobs[k].created >= jobs[j].created - Policy[jobs[j].agent].humanWindow} : UpTo(i, j)}
             a == jobs'[j].agent
             n == Len(tx[t].chosen)
             B == OfHuman(t, Policy[a].humanWindow)
  <1>1. /\ Indexes' = Indexes \cup New(t) /\ Policy' = Policy /\ \A i \in Indexes : Fixed(jobs[i], jobs'[i])
    BY OldRows
  <1>2. /\ a \in Agents /\ Fits(t, a) /\ InsertedAs(t, j, a) /\ n \in Nat
        /\ IsFiniteSet(New(t)) /\ Cardinality(New(t)) = n
    BY NewRows
  <1>3. Human(t) /\ Admission(t)
    BY NewKinds DEF Admission
  <1>4. Cardinality(B) + n <= Policy[a].humanCap /\ Policy[a].humanCap \in Nat
    BY <1>2, <1>3, PolicyFacts DEF Fits, ReplyFits, Commits, AdmissionInv, TypeOK
  <1>5. HumanAllows(j)' <=> Cardinality(S') <= Policy'[jobs'[j].agent].humanCap
    BY DEF HumanAllows, RankAmong
  <1>6. S' = {i \in Indexes' : /\ jobs'[i].actor = jobs'[j].actor /\ jobs'[i].kind \in HumanKinds
                               /\ jobs'[i].created >= jobs'[j].created - Policy'[jobs'[j].agent].humanWindow
                               /\ UpTo(i, j)'}
    OBVIOUS
  <1>7. jobs'[j].actor = tx[t].actor /\ jobs'[j].created = tx[t].clock
    BY <1>2 DEF InsertedAs
  <1> HIDE DEF S
  <1>8. \A i \in Indexes : i \in S' => i \in B
    BY <1>1, <1>6, <1>7 DEF Fixed, OfHuman
  <1>9. IsFiniteSet(B)
    <2>1. B \subseteq Indexes /\ IsFiniteSet(Indexes)
      BY IndexFacts DEF OfHuman, Commits, AdmissionInv
    <2> HIDE DEF B
    <2> QED
      BY <2>1, FS_Subset
  <1>10. S' \subseteq B \cup New(t)
    <2>1. \A i \in S' : i \in Indexes \/ i \in New(t)
      BY <1>1, <1>6
    <2> QED
      BY <1>8, <2>1
  <1> HIDE DEF B, n
  <1>11. Cardinality(S') <= Cardinality(B) + Cardinality(New(t)) /\ Cardinality(S') \in Nat /\ Cardinality(B) \in Nat
    BY <1>2, <1>9, <1>10, SomeMore
  <1>12. Cardinality(S') <= Policy[a].humanCap
    BY <1>2, <1>4, <1>11
  <1> QED
    BY <1>1, <1>5, <1>12

LEMMA QuotasAfterCommit ==
    ASSUME NEW t \in Txs, Commits(t)
    PROVE  QuotasStand'
  <1>1. \A i \in Indexes' : i \in Indexes \/ i \in New(t)
    BY OldRows
  <1>2. QuotasStand
    BY DEF Commits, AdmissionInv
  <1>3. \A j \in Indexes : jobs'[j].kind = jobs[j].kind
    BY OldRows DEF Fixed
  <1>4. AgentQuotasStand'
    <2>1. \A j \in Indexes : /\ SpacingAllows(j)' /\ DayAllows(j)'
                             /\ jobs'[j].kind # "scheduled" => CooldownAllows(j)' /\ ConversationAllows(j)'
      BY <1>2, OldAgentQuotas DEF QuotasStand, AgentQuotasStand
    <2>2. \A j \in New(t) : /\ SpacingAllows(j)' /\ DayAllows(j)'
                            /\ jobs'[j].kind # "scheduled" => CooldownAllows(j)' /\ ConversationAllows(j)'
      BY NewAgentQuotas
    <2>3. (\A j \in Indexes : /\ SpacingAllows(j)
                              /\ DayAllows(j)
                              /\ jobs[j].kind # "scheduled" => CooldownAllows(j) /\ ConversationAllows(j))'
      <3> SUFFICES ASSUME NEW j \in Indexes'
                   PROVE  /\ SpacingAllows(j)' /\ DayAllows(j)'
                          /\ jobs'[j].kind # "scheduled" => CooldownAllows(j)' /\ ConversationAllows(j)'
        OBVIOUS
      <3> QED
        BY <1>1, <2>1, <2>2
    <2> QED
      BY <2>3 DEF AgentQuotasStand
  <1>5. TriggerStands'
    <2>1. \A j \in Indexes : jobs'[j].kind # "scheduled" => TriggerAllows(j)'
      BY <1>2, <1>3, OldTrigger DEF QuotasStand, TriggerStands
    <2>2. \A j \in New(t) : jobs'[j].kind # "scheduled" => TriggerAllows(j)'
      BY NewTrigger
    <2>3. (\A j \in Indexes : jobs[j].kind # "scheduled" => TriggerAllows(j))'
      <3> SUFFICES ASSUME NEW j \in Indexes' PROVE jobs'[j].kind # "scheduled" => TriggerAllows(j)'
        OBVIOUS
      <3> QED
        BY <1>1, <2>1, <2>2
    <2> QED
      BY <2>3 DEF TriggerStands
  <1>6. HumanStands'
    <2>1. \A j \in Indexes : jobs'[j].kind \in HumanKinds => HumanAllows(j)'
      BY <1>2, <1>3, OldHuman DEF QuotasStand, HumanStands
    <2>2. \A j \in New(t) : jobs'[j].kind \in HumanKinds => HumanAllows(j)'
      BY NewHuman
    <2>3. (\A j \in Indexes : jobs[j].kind \in HumanKinds => HumanAllows(j))'
      <3> SUFFICES ASSUME NEW j \in Indexes' PROVE jobs'[j].kind \in HumanKinds => HumanAllows(j)'
        OBVIOUS
      <3> QED
        BY <1>1, <2>1, <2>2
    <2> QED
      BY <2>3 DEF HumanStands
  <1> QED
    BY <1>4, <1>5, <1>6 DEF QuotasStand

-----------------------------------------------------------------------------
(* Chains and publications after a commit. *)

\* The root of the chain that a transaction extends is a job that began one.
LEMMA RootStands ==
    ASSUME NEW t \in Txs, Commits(t), Continuation(t)
    PROVE  /\ tx[t].parent \in Indexes /\ Root(t) \in Indexes
           /\ jobs[Root(t)].depth = 0 /\ jobs[Root(t)].root = Root(t)
           /\ jobs[Root(t)].maxJobs \in Nat /\ jobs[Root(t)].maxDepth \in Nat
           /\ Cardinality(Chain(Root(t))) <= jobs[Root(t)].maxJobs
           /\ IsFiniteSet(Chain(Root(t)))
  <1>1. ChainStands /\ TypeOK
    BY DEF Commits, AdmissionInv
  <1>2. tx[t].parent \in Indexes /\ Root(t) \in Indexes /\ jobs[Root(t)] \in Job
    BY Committer DEF Commits
  <1>3. /\ jobs[Root(t)].depth = 0 /\ jobs[Root(t)].root = Root(t)
        /\ Cardinality(Chain(Root(t))) <= jobs[Root(t)].maxJobs
    BY <1>1, <1>2 DEF ChainStands, Root
  <1>4. Chain(Root(t)) \subseteq Indexes /\ IsFiniteSet(Indexes)
    BY <1>1, IndexFacts DEF Chain
  <1>5. IsFiniteSet(Chain(Root(t)))
    BY <1>4, FS_Subset
  <1> QED
    BY <1>1, <1>2, <1>3, <1>5, JobFields

\* The chains after the commit.
LEMMA ChainsAfterCommit ==
    ASSUME NEW t \in Txs, Commits(t)
    PROVE  /\ \A r \in Indexes : Continuation(t) /\ r = Root(t) => Chain(r)' \subseteq Chain(r) \cup New(t)
           /\ \A r \in Indexes : ~(Continuation(t) /\ r = Root(t)) => Chain(r)' = Chain(r)
           /\ ~Continuation(t) => \A j \in New(t) : Chain(j)' = {j}
  <1>1. \A j \in New(t) : /\ jobs'[j].root = IF Continuation(t) THEN Root(t) ELSE j
                          /\ j \notin Indexes /\ j \in Indexes'
    BY NewRows DEF InsertedAs
  <1>2. Indexes' = Indexes \cup New(t) /\ \A i \in Indexes : jobs'[i].root = jobs[i].root
    BY OldRows DEF Fixed
  <1>3. \A i \in Indexes : jobs[i].root \in Indexes
    BY DEF Commits, AdmissionInv, JobsOK
  <1>4. \A r : Chain(r)' = {i \in Indexes' : jobs'[i].root = r}
    BY DEF Chain
  <1>5. \A r \in Indexes : Chain(r)' \subseteq Chain(r) \cup New(t)
    BY <1>2, <1>4 DEF Chain
  <1>6. \A r \in Indexes : ~(Continuation(t) /\ r = Root(t)) => Chain(r)' = Chain(r)
    BY <1>1, <1>2, <1>4 DEF Chain
  <1>7. ~Continuation(t) => \A j \in New(t) : Chain(j)' = {j}
    BY <1>1, <1>2, <1>3, <1>4
  <1> QED
    BY <1>5, <1>6, <1>7

\* A continuation has found room in its chain.
LEMMA RoomInChain ==
    ASSUME NEW t \in Txs, Commits(t), NEW j \in New(t), Continuation(t)
    PROVE  /\ jobs[tx[t].parent].depth + 1 <= jobs[Root(t)].maxDepth
           /\ Cardinality(Chain(Root(t))) + Len(tx[t].chosen) <= jobs[Root(t)].maxJobs
  <1>1. Fits(t, jobs'[j].agent) /\ Admission(t)
    BY NewRows DEF Admission
  <1> QED
    BY <1>1 DEF Fits, ReplyFits, ChainJobs, Root

LEMMA ExtendedChain ==
    ASSUME NEW t \in Txs, Commits(t), Continuation(t), NEW r \in Indexes, r = Root(t)
    PROVE  Cardinality(Chain(r)') <= jobs[r].maxJobs
  <1> DEFINE A == Chain(r)'
             B == Chain(r)
             n == Len(tx[t].chosen)
  <1>1. A \subseteq B \cup New(t) /\ IsFiniteSet(B) /\ Cardinality(B) <= jobs[r].maxJobs /\ jobs[r].maxJobs \in Nat
    BY ChainsAfterCommit, RootStands
  <1>2. IsFiniteSet(New(t)) /\ Cardinality(New(t)) = n /\ n \in Nat
    BY NewRows
  <1>3. (\E j : j \in New(t)) => Cardinality(B) + n <= jobs[r].maxJobs
    BY RoomInChain
  <1> HIDE DEF A, B, n
  <1>4. Cardinality(A) <= Cardinality(B) + n /\ Cardinality(A) \in Nat /\ Cardinality(B) \in Nat
    BY <1>1, <1>2, SomeMore
  <1>5. CASE \E j : j \in New(t)
    BY <1>1, <1>2, <1>3, <1>4, <1>5 DEF A
  <1>6. CASE ~\E j : j \in New(t)
    <2>1. New(t) = {}
      BY <1>6
    <2>2. Cardinality({}) = 0
      BY FS_EmptySet
    <2>3. n = 0
      BY <1>2, <2>1, <2>2
    <2> QED
      BY <1>1, <1>4, <2>3 DEF A
  <1> QED
    BY <1>5, <1>6

LEMMA ChainAfterCommit ==
    ASSUME NEW t \in Txs, Commits(t)
    PROVE  ChainStands'
  <1> DEFINE Stands(j) == /\ jobs[jobs[j].root].depth = 0 /\ jobs[jobs[j].root].root = jobs[j].root
                          /\ jobs[j].depth <= jobs[jobs[j].root].maxDepth
                          /\ Cardinality(Chain(jobs[j].root)) <= jobs[jobs[j].root].maxJobs
                          /\ jobs[j].maxDepth = jobs[jobs[j].root].maxDepth
                          /\ jobs[j].maxJobs = jobs[jobs[j].root].maxJobs
  <1>1. \A j : Stands(j)' <=> /\ jobs'[jobs'[j].root].depth = 0 /\ jobs'[jobs'[j].root].root = jobs'[j].root
                              /\ jobs'[j].depth <= jobs'[jobs'[j].root].maxDepth
                              /\ Cardinality({i \in Indexes' : jobs'[i].root = jobs'[j].root})
                                     <= jobs'[jobs'[j].root].maxJobs
                              /\ jobs'[j].maxDepth = jobs'[jobs'[j].root].maxDepth
                              /\ jobs'[j].maxJobs = jobs'[jobs'[j].root].maxJobs
    BY DEF Chain
  <1>2. /\ Indexes' = Indexes \cup New(t)
        /\ \A i \in Indexes : /\ jobs'[i].root = jobs[i].root /\ jobs'[i].depth = jobs[i].depth
                              /\ jobs'[i].maxDepth = jobs[i].maxDepth /\ jobs'[i].maxJobs = jobs[i].maxJobs
    BY OldRows DEF Fixed
  <1>3. /\ \A j \in Indexes : jobs[j].root \in Indexes
        /\ \A j \in Indexes : Stands(j)
    BY DEF Commits, AdmissionInv, JobsOK, ChainStands
  <1>4. \A r : Chain(r)' = {i \in Indexes' : jobs'[i].root = r}
    BY DEF Chain
  <1> HIDE DEF Stands
  <1>5. ASSUME NEW j \in Indexes PROVE Stands(j)'
    <2>0. PICK r \in Indexes : r = jobs[j].root
      BY <1>3
    <2>1. r \in Indexes /\ jobs'[j].root = r /\ Stands(j)
      BY <1>2, <1>3, <2>0
    <2>2. Cardinality(Chain(r)) <= jobs[r].maxJobs
      BY <2>0, <2>1 DEF Stands
    <2>3. Cardinality(Chain(r)') <= jobs[r].maxJobs
      <3>1. CASE Continuation(t) /\ r = Root(t)
        BY <2>1, <3>1, ExtendedChain
      <3>2. CASE ~(Continuation(t) /\ r = Root(t))
        <4>1. Chain(r)' = Chain(r)
          BY <2>1, <3>2, ChainsAfterCommit
        <4> QED
          BY <2>2, <4>1
      <3> QED
        BY <3>1, <3>2
    <2>4. Cardinality({i \in Indexes' : jobs'[i].root = jobs'[j].root}) <= jobs'[jobs'[j].root].maxJobs
      BY <1>2, <1>4, <2>1, <2>3
    <2>5. /\ jobs[r].depth = 0 /\ jobs[r].root = r /\ jobs[j].depth <= jobs[r].maxDepth
          /\ jobs[j].maxDepth = jobs[r].maxDepth /\ jobs[j].maxJobs = jobs[r].maxJobs
      BY <2>0, <2>1 DEF Stands
    <2> QED
      BY <1>1, <1>2, <2>1, <2>4, <2>5
  <1>6. ASSUME NEW j \in New(t) PROVE Stands(j)'
    <2>1. InsertedAs(t, j, jobs'[j].agent) /\ jobs'[j].agent \in Agents /\ j \in Indexes'
      BY NewRows
    <2>2. CASE Continuation(t)
      <3>0. PICK r \in Indexes : r = Root(t)
        BY <2>2, RootStands
      <3>1. /\ r \in Indexes /\ jobs'[j].root = r /\ jobs'[j].depth = jobs[tx[t].parent].depth + 1
            /\ jobs'[j].maxDepth = jobs[r].maxDepth /\ jobs'[j].maxJobs = jobs[r].maxJobs
        BY <2>1, <2>2, <3>0 DEF InsertedAs
      <3>2. jobs[r].depth = 0 /\ jobs[r].root = r /\ jobs[tx[t].parent].depth + 1 <= jobs[r].maxDepth
        BY <2>2, <3>0, RootStands, RoomInChain
      <3>3. Cardinality(Chain(r)') <= jobs[r].maxJobs
        BY <2>2, <3>0, ExtendedChain
      <3> QED
        BY <1>1, <1>2, <1>4, <3>1, <3>2, <3>3
    <2>3. CASE ~Continuation(t)
      <3>1. /\ jobs'[j].root = j /\ jobs'[j].depth = 0
            /\ jobs'[j].maxDepth = Policy[jobs'[j].agent].chainDepth
            /\ jobs'[j].maxJobs = Policy[jobs'[j].agent].chainJobs
        BY <2>1, <2>3 DEF InsertedAs
      <3>2. /\ Policy[jobs'[j].agent].chainDepth \in Nat /\ Policy[jobs'[j].agent].chainJobs \in Nat
            /\ Policy[jobs'[j].agent].chainDepth < Policy[jobs'[j].agent].chainJobs
        BY <2>1, PolicyFacts DEF Commits, AdmissionInv, TypeOK
      <3>3. Chain(j)' = {j}
        BY <2>3, ChainsAfterCommit
      <3>4. Cardinality({j}) = 1
        BY FS_Singleton
      <3>5. {i \in Indexes' : jobs'[i].root = j} = {j}
        BY <1>4, <3>3
      <3>6. 0 <= jobs'[j].maxDepth /\ 1 <= jobs'[j].maxJobs
        BY <3>1, <3>2
      <3>7. Cardinality({i \in Indexes' : jobs'[i].root = j}) <= jobs'[j].maxJobs
        BY <3>4, <3>5, <3>6
      <3> QED
        BY <1>1, <3>1, <3>6, <3>7
    <2> QED
      BY <2>2, <2>3
  <1>7. (\A j \in Indexes : Stands(j))'
    BY <1>2, <1>5, <1>6
  <1> QED
    BY <1>7 DEF ChainStands, Stands

\* The settings of the publisher keep two publications apart.
LEMMA PublicationsAfterCommit ==
    ASSUME NEW t \in Txs, Commits(t)
    PROVE  PublicationsSpaced'
  <1>1. /\ Indexes' = Indexes \cup New(t) /\ Policy' = Policy
        /\ \A i \in Indexes : jobs'[i].agent = jobs[i].agent
        /\ \A i \in New(t) : jobs'[i].finished = 0
    BY OldRows, NewRows DEF Fixed, InsertedAs
  <1>2. \A i \in Indexes : ~(tx[t].op = "publish" /\ i = tx[t].parent) => jobs'[i].finished = jobs[i].finished
    BY DEF Commits, Inserts
  <1>3. \A i \in Indexes : tx[t].op = "publish" /\ i = tx[t].parent => jobs'[i].finished = tx[t].clock
    BY DEF Commits, Inserts
  <1>4. /\ tx[t].clock \in Nat /\ lastPublished \in [Agents -> Nat]
        /\ \A i \in Indexes : /\ jobs[i].agent \in Agents /\ jobs[i].finished \in Nat
                              /\ jobs[i].finished <= lastPublished[jobs[i].agent]
                              /\ Policy[jobs[i].agent].spacing \in Nat \ {0}
    <2>1. TypeOK /\ JobsOK
      BY DEF Commits, AdmissionInv
    <2>2. \A i \in Indexes : jobs[i].agent \in Agents /\ jobs[i].finished \in Nat
      BY <2>1, IndexFacts, JobFields
    <2>3. \A i \in Indexes : Policy[jobs[i].agent].spacing \in Nat \ {0}
      BY <2>1, <2>2, PolicyFacts DEF TypeOK
    <2> QED
      BY <2>1, <2>2, <2>3, Committer DEF Commits, JobsOK, TypeOK
  <1>5. tx[t].op = "publish" =>
            /\ tx[t].actor = jobs[tx[t].parent].agent /\ tx[t].parent \in Indexes
            /\ lastPublished[tx[t].actor] > 0 =>
                   tx[t].clock >= lastPublished[tx[t].actor] + Policy[tx[t].actor].spacing
    BY OpenParent
  <1>6. ASSUME NEW i \in Indexes', NEW j \in Indexes', i # j, jobs'[i].agent = jobs'[j].agent,
               jobs'[i].finished > 0, jobs'[j].finished >= jobs'[i].finished
        PROVE  jobs'[j].finished >= jobs'[i].finished + Policy[jobs'[i].agent].spacing
    <2>1. i \in Indexes /\ j \in Indexes
      <3>1. i \in Indexes
        BY <1>1, <1>6
      <3>2. jobs'[i].finished \in Nat
        BY <1>2, <1>3, <1>4, <3>1
      <3> QED
        BY <1>1, <1>6, <3>1, <3>2
    <2>2. jobs[i].agent = jobs[j].agent /\ jobs'[i].agent = jobs[i].agent
      BY <1>1, <1>6, <2>1
    <2>3. CASE tx[t].op = "publish" /\ j = tx[t].parent
      <3>1. jobs'[j].finished = tx[t].clock /\ jobs'[i].finished = jobs[i].finished
        BY <1>2, <1>3, <1>6, <2>1, <2>3
      <3>2. tx[t].actor = jobs[i].agent
        BY <1>5, <2>2, <2>3
      <3>3. jobs[i].finished <= lastPublished[jobs[i].agent] /\ jobs[i].finished \in Nat
            /\ lastPublished[jobs[i].agent] \in Nat /\ Policy[jobs[i].agent].spacing \in Nat
            /\ jobs[i].finished > 0
        BY <1>4, <1>6, <2>1, <3>1
      <3>4. tx[t].clock >= lastPublished[jobs[i].agent] + Policy[jobs[i].agent].spacing
        BY <1>5, <2>3, <3>2, <3>3
      <3> QED
        BY <1>4, <2>2, <3>1, <3>3, <3>4
    <2>4. CASE tx[t].op = "publish" /\ i = tx[t].parent
      <3>1. jobs'[i].finished = tx[t].clock /\ jobs'[j].finished = jobs[j].finished
        BY <1>2, <1>3, <1>6, <2>1, <2>4
      <3>2. tx[t].actor = jobs[j].agent
        BY <1>5, <2>2, <2>4
      <3>3. jobs[j].finished <= lastPublished[jobs[j].agent] /\ jobs[j].finished \in Nat
            /\ lastPublished[jobs[j].agent] \in Nat /\ Policy[jobs[j].agent].spacing \in Nat \ {0}
            /\ jobs[j].finished >= tx[t].clock /\ tx[t].clock > 0
        BY <1>4, <1>6, <2>1, <3>1
      <3>4. lastPublished[jobs[j].agent] > 0
        BY <1>4, <3>3
      <3>5. tx[t].clock >= lastPublished[jobs[j].agent] + Policy[jobs[j].agent].spacing
        BY <1>5, <2>4, <3>2, <3>4
      <3> QED
        BY <1>4, <3>3, <3>5
    <2>5. CASE ~(tx[t].op = "publish" /\ (i = tx[t].parent \/ j = tx[t].parent))
      <3>1. jobs'[i].finished = jobs[i].finished /\ jobs'[j].finished = jobs[j].finished
        BY <1>2, <2>1, <2>5
      <3>2. PublicationsSpaced
        BY DEF Commits, AdmissionInv
      <3> QED
        BY <1>6, <2>1, <2>2, <3>1, <3>2 DEF PublicationsSpaced
    <2> QED
      BY <2>3, <2>4, <2>5
  <1>7. (\A i, j \in Indexes :
            /\ i # j
            /\ jobs[i].agent = jobs[j].agent
            /\ jobs[i].finished > 0
            /\ jobs[j].finished >= jobs[i].finished
            => jobs[j].finished >= jobs[i].finished + Policy[jobs[i].agent].spacing)'
    BY <1>1, <1>6
  <1> QED
    BY <1>7 DEF PublicationsSpaced

-----------------------------------------------------------------------------
(* Every step keeps the invariant. *)

LEMMA CommitStep ==
    ASSUME AdmissionInv, NEW t \in Txs, NEW ids \in IDOrders(Len(tx[t].chosen)), Commit(t, ids)
    PROVE  AdmissionInv'
  <1>1. Commits(t) /\ TypeOK' /\ tx' = [tx EXCEPT ![t] = Idle]
    BY CommitInserts DEF Commits, Inserts
  <1>2. Grown /\ JobsOK' /\ QuotasStand' /\ ChainStands' /\ PublicationsSpaced'
    BY <1>1, CommitGrows, CommitKeepsJobs, QuotasAfterCommit, ChainAfterCommit, PublicationsAfterCommit
  <1>3. \A u \in Txs \ {t} : Undisturbed(u)
    BY <1>1, CommitDisturbsNobody
  <1> QED
    BY <1>1, <1>2, <1>3, EndStep

LEMMA StutterStep ==
    ASSUME AdmissionInv, UNCHANGED vars
    PROVE  AdmissionInv'
  <1>1. /\ UNCHANGED <<scenario, jobs, enabled, disabled, lastPublished>> /\ tx' = tx
        /\ now <= now' /\ TypeOK /\ JobsOK
    BY DEF vars, AdmissionInv, TypeOK
  <1>2. TypeOK'
    <2>1. Transaction' = Transaction /\ Job' = Job /\ Agents' = Agents
      BY <1>1 DEF Transaction, Job, Lock, Row, Operations, Agents, Humans, MaxJobs
    <2> QED
      BY <1>1, <2>1 DEF vars, TypeOK
  <1>3. JobsOK' /\ QuotasStand' /\ ChainStands' /\ PublicationsSpaced'
    <2>1. UNCHANGED <<scenario, jobs, lastPublished>>
      BY <1>1
    <2> QED
      BY <1>1, <1>2, <2>1, SameJobs DEF AdmissionInv
  <1>4. ASSUME NEW u \in Txs PROVE TxOK(u)'
    <2>1. tx'[u] = tx[u] /\ TxOK(u)
      BY <1>1 DEF AdmissionInv
    <2>2. Grown /\ Undisturbed(u)
      BY <1>1, <2>1, SameRows
    <2> QED
      BY <1>1, <1>2, <2>1, <2>2, OthersKeep
  <1>5. Exclusive'
    BY <1>1 DEF AdmissionInv, Exclusive
  <1> QED
    BY <1>2, <1>3, <1>4, <1>5 DEF AdmissionInv

LEMMA InitInv == Init => AdmissionInv
  <1> SUFFICES ASSUME Init PROVE AdmissionInv
    OBVIOUS
  <1>1. /\ scenario \in Scenarios /\ jobs = <<>> /\ tx = [t \in Txs |-> Idle] /\ Indexes = {}
        /\ MaxJobs \in Nat /\ Len(jobs) = 0
    <2>1. scenario \in Scenarios /\ jobs = <<>> /\ tx = [t \in Txs |-> Idle] /\ Len(jobs) = 0
      BY DEF Init
    <2>2. Indexes = {}
      BY <2>1 DEF Indexes
    <2> QED
      BY <2>1, <2>2, ScenarioFacts
  <1>2. TypeOK
    <2>1. Idle \in Transaction
      BY <1>1, IdleTyped
    <2>2. tx \in [Txs -> Transaction] /\ jobs \in Seq(Job)
      BY <1>1, <2>1
    <2> QED
      BY <2>2 DEF Init, TypeOK
  <1>3. \A t \in Txs : TxOK(t)
    BY <1>1, IdleOK
  <1>4. Exclusive
    <2>1. Idle.held = {}
      BY DEF Idle
    <2> QED
      BY <1>1, <2>1 DEF Exclusive
  <1>5. JobsOK /\ ChainStands /\ PublicationsSpaced
    BY <1>1 DEF JobsOK, ChainStands, PublicationsSpaced
  <1>6. QuotasStand
    BY <1>1 DEF QuotasStand, AgentQuotasStand, TriggerStands, HumanStands
  <1> QED
    BY <1>2, <1>3, <1>4, <1>5, <1>6 DEF AdmissionInv

LEMMA NextInv == AdmissionInv /\ [Next]_vars => AdmissionInv'
  <1> SUFFICES ASSUME AdmissionInv, [Next]_vars PROVE AdmissionInv'
    OBVIOUS
  <1>1. CASE UNCHANGED vars
    BY <1>1, StutterStep
  <1>2. CASE Next
    <2>1. PICK t \in Txs :
              \/ \E kind \in HumanKinds, h \in Humans, p \in Posts, tagged \in SUBSET scenario.tags :
                     HumanActs(t, kind, h, p, tagged)
              \/ \E j \in Indexes, tagged \in SUBSET scenario.tags : BeginPublication(t, j, tagged)
              \/ \E j \in Indexes : BeginContinuations(t, j)
              \/ \E a \in Agents : BeginSlot(t, a)
              \/ \E op \in {"pause", "resume"}, S \in {Agents} \cup {{a} : a \in Agents} :
                     BeginControl(t, op, S)
              \/ \E a \in Agents : BeginDisable(t, a)
              \/ Acquire(t)
              \/ \E ranking \in Rankings(Agents) : Discover(t, ranking)
              \/ \E clock \in (now + 1)..Lesser(now + MaxStep, MaxTime) : Count(t, clock)
              \/ \E drawn \in SUBSET RangeOf(tx[t].candidates) : Consider(t, drawn)
              \/ \E ids \in IDOrders(Len(tx[t].chosen)) : Commit(t, ids)
              \/ CommitControl(t)
              \/ Rollback(t)
      BY <1>2 DEF Next
    <2>2. CASE \E kind \in HumanKinds, h \in Humans, p \in Posts, tagged \in SUBSET scenario.tags :
                   HumanActs(t, kind, h, p, tagged)
      BY <2>2, HumanActsStep
    <2>3. CASE \E j \in Indexes, tagged \in SUBSET scenario.tags : BeginPublication(t, j, tagged)
      BY <2>3, BeginPublicationStep
    <2>4. CASE \E j \in Indexes : BeginContinuations(t, j)
      BY <2>4, BeginContinuationsStep
    <2>5. CASE \E a \in Agents : BeginSlot(t, a)
      BY <2>5, BeginSlotStep
    <2>6. CASE \E op \in {"pause", "resume"}, S \in {Agents} \cup {{a} : a \in Agents} :
                   BeginControl(t, op, S)
      BY <2>6, BeginControlStep
    <2>7. CASE \E a \in Agents : BeginDisable(t, a)
      BY <2>7, BeginDisableStep
    <2>8. CASE Acquire(t)
      BY <2>8, AcquireStep
    <2>9. CASE \E ranking \in Rankings(Agents) : Discover(t, ranking)
      BY <2>9, DiscoverStep
    <2>10. CASE \E clock \in (now + 1)..Lesser(now + MaxStep, MaxTime) : Count(t, clock)
      <3>1. PICK clock \in (now + 1)..Lesser(now + MaxStep, MaxTime) : Count(t, clock)
        BY <2>10
      <3>2. now \in Nat /\ MaxStep \in Nat /\ MaxTime \in Nat
        BY ScenarioAssumption DEF AdmissionInv, TypeOK, MaxStep, MaxTime
      <3>3. clock \in Nat /\ clock > now
        BY <3>1, <3>2 DEF Lesser
      <3> QED
        BY <3>1, <3>3, CountStep
    <2>11. CASE \E drawn \in SUBSET RangeOf(tx[t].candidates) : Consider(t, drawn)
      BY <2>11, ConsiderStep
    <2>12. CASE \E ids \in IDOrders(Len(tx[t].chosen)) : Commit(t, ids)
      BY <2>12, CommitStep
    <2>13. CASE CommitControl(t)
      BY <2>13, CommitControlStep
    <2>14. CASE Rollback(t)
      BY <2>14, RollbackStep
    <2> QED
      BY <2>1, <2>2, <2>3, <2>4, <2>5, <2>6, <2>7, <2>8, <2>9, <2>10, <2>11, <2>12, <2>13, <2>14
  <1> QED
    BY <1>1, <1>2

-----------------------------------------------------------------------------
(* The order of the locks. *)

\* The rows that transactions wait for, and the first of which would be last.
LEMMA LocksInOrderStep == AdmissionInv => NoWaitCycle
  <1> SUFFICES ASSUME AdmissionInv, NEW S \in (SUBSET Txs) \ {{}}
               PROVE  \E t \in S : \A u \in S : ~Conflicts(t, u)
    BY DEF NoWaitCycle
  <1>1. CASE \E t \in S : tx[t].plan = <<>>
    BY <1>1 DEF Conflicts
  <1>2. CASE \A t \in S : tx[t].plan # <<>>
    <2> DEFINE Wanted(t) == Head(tx[t].plan).row
               T == {Wanted(t) : t \in S}
               R == {p \in (Tables \X Nat) \X (Tables \X Nat) : Below(p[1], p[2])}
    <2>1. S # {} /\ IsFiniteSet(S)
      <3>1. S \subseteq Txs /\ IsFiniteSet(Txs)
        BY PostsFacts
      <3> QED
        BY <3>1, FS_Subset
    <2>2. \A t \in S : Wanted(t) \in Tables \X Nat
      <3> SUFFICES ASSUME NEW t \in S PROVE Wanted(t) \in Tables \X Nat
        OBVIOUS
      <3>1. tx[t].plan \in Seq(Lock) /\ tx[t].plan # <<>> /\ scenario \in Scenarios
        BY <1>2, TxFields DEF AdmissionInv, TypeOK
      <3>2. Head(tx[t].plan) \in Lock
        BY <3>1
      <3>3. Wanted(t) \in Row
        BY <3>2, LockFields
      <3> HIDE DEF Wanted
      <3> QED
        BY <3>1, <3>3, RowFields
    <2>3. \A t \in S : \A l \in tx[t].held : Below(l.row, Wanted(t)) /\ l.row \in Tables \X Nat
      <3> SUFFICES ASSUME NEW t \in S, NEW l \in tx[t].held
                   PROVE  Below(l.row, Wanted(t)) /\ l.row \in Tables \X Nat
        OBVIOUS
      <3>1. /\ tx[t].plan \in Seq(Lock) /\ tx[t].plan # <<>> /\ tx[t].held \subseteq Lock
            /\ scenario \in Scenarios /\ LocksOK(t)
        BY <1>2, TxFields DEF AdmissionInv, TypeOK, TxOK
      <3>2. Head(tx[t].plan) \in RangeOf(tx[t].plan)
        BY <3>1 DEF RangeOf
      <3>3. l.row \in Row
        BY <3>1, LockFields
      <3> QED
        BY <3>1, <3>2, <3>3, RowFields DEF LocksOK
    <2> HIDE DEF Wanted
    <2>4. IsFiniteSet(T) /\ T # {} /\ T \subseteq Tables \X Nat
      <3> DEFINE f == [t \in S |-> Wanted(t)]
      <3>0. f \in Surjection(S, T)
        BY DEF Surjection
      <3> HIDE DEF f, T
      <3>1. IsFiniteSet(T)
        BY <2>1, <3>0, FS_Surjection
      <3> QED
        BY <2>1, <2>2, <3>1 DEF T
    <2>5. \A q, r \in Tables \X Nat : <<q, r>> \in R <=> Below(q, r)
      OBVIOUS
    <2> HIDE DEF R
    <2>6. Line(T, R)
      <3> HIDE DEF T
      <3>1. \A x, y \in T : x # y => <<x, y>> \in R \/ <<y, x>> \in R
        BY <2>4, <2>5, BelowOrders
      <3>2. \A x, y, z \in T : <<x, y>> \in R /\ <<y, z>> \in R => <<x, z>> \in R
        BY <2>4, <2>5, BelowOrders
      <3>3. \A x \in T : <<x, x>> \notin R
        BY <2>4, <2>5, BelowOrders
      <3> QED
        BY <3>1, <3>2, <3>3 DEF Line
    <2>7. PICK x \in T : \A y \in T \ {x} : <<y, x>> \in R
      <3> HIDE DEF T
      <3> QED
        BY <2>4, <2>6, LastExists
    <2>8. PICK t \in S : x = Wanted(t)
      BY <2>7
    <2>9. ASSUME NEW u \in S, NEW l \in tx[u].held, l.row = x PROVE FALSE
      <3>1. Below(x, Wanted(u)) /\ x \in Tables \X Nat /\ Wanted(u) \in Tables \X Nat
        BY <2>2, <2>3, <2>9
      <3>2. Wanted(u) = x \/ Below(Wanted(u), x)
        BY <2>5, <2>7, <3>1
      <3> QED
        BY <3>1, <3>2, BelowOrders
    <2>10. \A u \in S : ~Conflicts(t, u)
      BY <2>8, <2>9 DEF Conflicts, Wanted
    <2> QED
      BY <2>10
  <1> QED
    BY <1>1, <1>2

-----------------------------------------------------------------------------
(* The theorems. *)

\* Every state that admission reaches satisfies the invariant: what a
\* transaction has counted under its locks (admitPreparedGenerationSource) is
\* what there is until it commits.
THEOREM AdmissionStands == Spec => []AdmissionInv
  BY InitInv, NextInv, PTL DEF Spec

\* Rows, settings and transactions always have the shape of their tables.
THEOREM AdmissionTypes == Spec => []TypeOK
  <1>1. AdmissionInv => TypeOK
    BY DEF AdmissionInv
  <1> QED
    BY <1>1, AdmissionStands, PTL

\* Transactions that admit at the same time leave every reservation within
\* the quotas that spending and publication check again
\* (executionPolicyAllowed).
THEOREM QuotasHold == Spec => []QuotasStand
  <1>1. AdmissionInv => QuotasStand
    BY DEF AdmissionInv
  <1> QED
    BY <1>1, AdmissionStands, PTL

\* A chain stays within the limits of its root, whoever publishes its members
\* and however often its continuations are enqueued
\* (EnqueueGenerationContinuations, ValidateGenerationContinuation).
THEOREM ChainsStand == Spec => []ChainStands
  <1>1. AdmissionInv => ChainStands
    BY DEF AdmissionInv
  <1> QED
    BY <1>1, AdmissionStands, PTL

\* Two publications of an agent are its spacing apart (publishGeneration).
THEOREM PublicationsApart == Spec => []PublicationsSpaced
  <1>1. AdmissionInv => PublicationsSpaced
    BY DEF AdmissionInv
  <1> QED
    BY <1>1, AdmissionStands, PTL

\* The order of the locks excludes that transactions wait in a circle
\* (lockPreparedGenerationCandidates, setAgentsEnabled).
THEOREM LocksInOrder == Spec => []NoWaitCycle
  BY LocksInOrderStep, AdmissionStands, PTL

LEMMA AdmittedEnabledStep ==
    AdmissionInv /\ [Next]_vars
        => [\A i \in (Len(jobs) + 1)..Len(jobs') :
                enabled[jobs'[i].agent] /\ ~disabled[jobs'[i].agent]]_vars
  <1> SUFFICES ASSUME AdmissionInv, Next, NEW i \in (Len(jobs) + 1)..Len(jobs')
               PROVE  enabled[jobs'[i].agent] /\ ~disabled[jobs'[i].agent]
    BY DEF vars
  <1>1. CASE jobs' = jobs
    <2>1. Len(jobs) \in Nat /\ Len(jobs') = Len(jobs)
      BY <1>1, IndexFacts DEF AdmissionInv
    <2> QED
      BY <2>1
  <1>2. CASE \E t \in Txs : \E ids \in IDOrders(Len(tx[t].chosen)) : Commit(t, ids)
    <2>1. PICK t \in Txs : Commits(t)
      BY <1>2, CommitInserts DEF Commits
    <2>2. i \in New(t)
      BY <2>1 DEF New, Commits, Inserts
    <2> QED
      BY <2>1, <2>2, NewRows DEF Fits, Ready
  <1>3. jobs' = jobs \/ \E t \in Txs : \E ids \in IDOrders(Len(tx[t].chosen)) : Commit(t, ids)
    <2>1. \A t \in Txs : \A x : Begin(t, x) => jobs' = jobs
      BY DEF Begin
    <2>2. \A t \in Txs : \A kind, h, p, tagged : HumanActs(t, kind, h, p, tagged) => jobs' = jobs
      BY DEF HumanActs, Begin
    <2>3. \A t \in Txs : \A j, tagged : BeginPublication(t, j, tagged) => jobs' = jobs
      BY DEF BeginPublication, Begin
    <2>4. \A t \in Txs : \A j : BeginContinuations(t, j) => jobs' = jobs
      BY <2>1 DEF BeginContinuations
    <2>5. \A t \in Txs : \A a : BeginSlot(t, a) \/ BeginDisable(t, a) => jobs' = jobs
      BY <2>1 DEF BeginSlot, BeginDisable
    <2>6. \A t \in Txs : \A op, S : BeginControl(t, op, S) => jobs' = jobs
      BY DEF BeginControl, Begin
    <2>7. \A t \in Txs : Acquire(t) => jobs' = jobs
      BY DEF Acquire
    <2>8. \A t \in Txs : CommitControl(t) => jobs' = jobs
      BY DEF CommitControl
    <2>9. \A t \in Txs : Rollback(t) => jobs' = jobs
      BY DEF Rollback
    <2>10. \A t \in Txs : \A d : Discover(t, d) => jobs' = jobs
      BY DEF Discover
    <2>11. \A t \in Txs : \A n : Count(t, n) => jobs' = jobs
      BY DEF Count
    <2>12. \A t \in Txs : \A s : Consider(t, s) => jobs' = jobs
      BY DEF Consider
    <2> QED
      BY <2>2, <2>3, <2>4, <2>5, <2>6, <2>7, <2>8, <2>9, <2>10, <2>11, <2>12
      DEF Next
  <1> QED
    BY <1>1, <1>2, <1>3

\* An agent that was paused or disabled after its discovery gets no job: its
\* settings are read again under their lock (admitPreparedGenerationSource).
THEOREM AdmittedEnabled == Spec => AdmittedWhileEnabled
  BY AdmittedEnabledStep, AdmissionStands, PTL DEF Spec, AdmittedWhileEnabled
=============================================================================
