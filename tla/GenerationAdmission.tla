----------------------- MODULE GenerationAdmission -----------------------
(***************************************************************************)
(* How jobs come to exist (internal/postgres/generation_admission.go,      *)
(* generation_candidates.go, generation_continuation.go, the insertion of  *)
(* generation_schedule.go) while other transactions run.  A transaction    *)
(* takes its row locks one at a time, discovers candidates without any,    *)
(* counts what is reserved, considers its candidates and commits.          *)
(* Read Committed is what the store asks of PostgreSQL: a statement sees   *)
(* the rows committed so far.                                              *)
(*                                                                         *)
(* What happens to a job between admission and publication is the subject  *)
(* of GenerationLifecycle; here a job is open until it is published, and a *)
(* job that ends otherwise is one that is never published.                 *)
(***************************************************************************)
EXTENDS Integers, Sequences, FiniteSets

CONSTANTS
    Posts,      \* posts that exist from the start
    Txs,        \* database transactions
    Scenarios   \* the instances, one of which a behaviour is about

HumanKinds == {"reply", "repost", "quote", "human_post"}
SocialKinds == HumanKinds \cup {"continuation"}
AllOperations ==
    HumanKinds \cup {"publish", "continue", "schedule", "pause", "resume", "disable"}

PolicyType ==
    [spacing : Nat, cooldown : Nat, scheduledCap : Nat, dailyCap : Nat,
     conversationCap : Nat, triggerCap : Nat, humanCap : Nat, humanWindow : Nat,
     chainDepth : Nat, chainJobs : Nat, reacts : SUBSET SocialKinds]

ASSUME IdentifierAssumption ==
    /\ Posts = 1..Cardinality(Posts)
    /\ IsFiniteSet(Posts) /\ IsFiniteSet(Txs)

\* policy is the generation policy of each agent, and agents and humans are
\* numbers in the order of their IDs, as are tags.  Bounds: open transactions, the clock
\* with the ticks that may pass before it is read, and the table of jobs.
\* GenerationPolicy.Validate: spacing, windows and the job limit are positive
\* and the job limit leaves room for the root and every depth.
ASSUME ScenarioAssumption ==
    \A s \in Scenarios :
        /\ s.operations \subseteq AllOperations
        /\ DOMAIN s.policy \subseteq Nat \ {0} /\ s.humans \subseteq Nat \ {0}
        /\ DOMAIN s.policy \cap s.humans = {}
        /\ s.tags \subseteq Nat /\ IsFiniteSet(s.tags)
        /\ IsFiniteSet(DOMAIN s.policy) /\ IsFiniteSet(s.humans)
        /\ \A a \in DOMAIN s.policy : /\ s.policy[a] \in PolicyType
                                      /\ s.policy[a].spacing > 0
                                      /\ s.policy[a].cooldown > 0
                                      /\ s.policy[a].humanWindow > 0
                                      /\ s.policy[a].chainDepth < s.policy[a].chainJobs
        /\ {s.dayLength, s.maxStep, s.maxOpen} \subseteq Nat \ {0}
        /\ {s.maxTime, s.maxJobs} \subseteq Nat

VARIABLES
    scenario,       \* never changes
    jobs,           \* generation_jobs, in the order of insertion
    enabled,        \* agent_settings.enabled
    disabled,       \* accounts.disabled_at is set
    lastPublished,  \* agent_settings.last_published_at, 0 when null
    now,            \* the clock of the database
    tags,           \* the tags that have a row
    tx              \* the open transactions

vars == <<scenario, jobs, enabled, disabled, lastPublished, now, tags, tx>>

Agents == DOMAIN scenario.policy
Humans == scenario.humans
Operations == scenario.operations
Policy == scenario.policy
DayLength == scenario.dayLength  \* ticks of a local day
MaxStep == scenario.maxStep
MaxTime == scenario.maxTime
MaxJobs == scenario.maxJobs

Lesser(m, n) == IF m <= n THEN m ELSE n

RangeOf(s) == {s[i] : i \in DOMAIN s}

\* The elements of a set of identifiers in their order (slices.Sort, ORDER BY).
Sorted(S) ==
    CHOOSE s \in [1..Cardinality(S) -> S] :
        \A i, j \in 1..Cardinality(S) : i < j => s[i] < s[j]

\* The orders in which agents can be ranked: the priority author, then
\* mentions in the order of the text, then topics.
Rankings(S) ==
    UNION {{s \in [1..n -> S] : \A i, j \in 1..n : i # j => s[i] # s[j]} :
           n \in 0..Cardinality(S)}

----------------------------------------------------------------------------
(* Jobs. *)

\* post is 0 for a scheduled job, key is the action that triggered the job,
\* and order is where the random ID sorts among the jobs of one instant.
\* finished and result are 0 until the job is published as that action.
Job == [agent : Agents, kind : SocialKinds \cup {"scheduled"}, key : Nat,
        actor : Nat, post : Nat, root : 1..MaxJobs, depth : Nat,
        maxDepth : Nat, maxJobs : Nat, created : Nat, order : Nat,
        finished : Nat, result : Nat]

Indexes == 1..Len(jobs)

\* The post that an action which creates one is stored as.
PostOf(action) == Cardinality(Posts) + action

\* A fresh action has an ID that no row mentions.
FreshAction ==
    CHOOSE n \in 1..(2 * MaxJobs + 1) :
        /\ \A i \in Indexes : n # jobs[i].key /\ n # jobs[i].result
        /\ \A m \in 1..(n - 1) :
               \E i \in Indexes : m = jobs[i].key \/ m = jobs[i].result

Day(t) == t \div DayLength

SameReservation(i, j) == (jobs[i].kind = "scheduled") <=> (jobs[j].kind = "scheduled")

\* GenerationCooldownKey: no action ID, so repeating an action does not help.
SameCooldown(i, kind, actor, agent, post) ==
    /\ jobs[i].kind = kind
    /\ jobs[i].actor = actor
    /\ jobs[i].agent = agent
    /\ jobs[i].post = post

\* SocialGenerationKey.
SameTrigger(i, j) == jobs[i].kind = jobs[j].kind /\ jobs[i].key = jobs[j].key

(***************************************************************************)
(* executionPolicyAllowed: spending and publication check the quotas again *)
(* by rank, the order of (created_at, id).                                 *)
(***************************************************************************)
Before(i, j) ==
    \/ jobs[i].created < jobs[j].created
    \/ jobs[i].created = jobs[j].created /\ jobs[i].order < jobs[j].order

UpTo(i, j) == i = j \/ Before(i, j)

RankAmong(S, j) == Cardinality({i \in S : UpTo(i, j)})

OfAgent(a) == {i \in Indexes : jobs[i].agent = a}

SpacingAllows(j) ==
    \A i \in OfAgent(jobs[j].agent) :
        Before(i, j) => jobs[i].created <= jobs[j].created - Policy[jobs[j].agent].spacing

DayAllows(j) ==
    LET P == Policy[jobs[j].agent]
    IN RankAmong({i \in OfAgent(jobs[j].agent) :
                      SameReservation(i, j) /\ Day(jobs[i].created) = Day(jobs[j].created)}, j)
       <= IF jobs[j].kind = "scheduled" THEN P.scheduledCap ELSE P.dailyCap

CooldownAllows(j) ==
    \A i \in Indexes :
        Before(i, j) /\ SameCooldown(i, jobs[j].kind, jobs[j].actor, jobs[j].agent, jobs[j].post)
            => jobs[i].created < jobs[j].created - Policy[jobs[j].agent].cooldown

ConversationAllows(j) ==
    RankAmong({i \in OfAgent(jobs[j].agent) :
                   jobs[i].kind # "scheduled" /\ jobs[i].post = jobs[j].post}, j)
    <= Policy[jobs[j].agent].conversationCap

TriggerAllows(j) ==
    RankAmong({i \in Indexes :
                   /\ SameTrigger(i, j)
                   /\ jobs[j].depth = 0 => jobs[i].depth = 0
                   /\ jobs[j].depth > 0 => jobs[i].depth > 0 /\ jobs[i].root = jobs[j].root}, j)
    <= Policy[jobs[j].agent].triggerCap

HumanAllows(j) ==
    LET P == Policy[jobs[j].agent]
    IN RankAmong({i \in Indexes :
                      /\ jobs[i].actor = jobs[j].actor
                      /\ jobs[i].kind \in HumanKinds
                      /\ jobs[i].created >= jobs[j].created - P.humanWindow}, j)
       <= P.humanCap

Chain(r) == {i \in Indexes : jobs[i].root = r}

\* The root consumes capacity wherever its ID sorts.
ChainRank(j) ==
    Cardinality({i \in Chain(jobs[j].root) : i = jobs[j].root \/ UpTo(i, j)})

ChainAllows(j) ==
    LET P == Policy[jobs[j].agent]
        R == jobs[jobs[j].root]
    IN /\ jobs[j].depth <= Lesser(R.maxDepth, P.chainDepth)
       /\ ChainRank(j) <= Lesser(R.maxJobs, P.chainJobs)

\* Source age, windows and the token budget may also refuse; a transaction
\* can abort at any time, which stands for that.
ExecutionPolicyAllowed(j, clock) ==
    LET a == jobs[j].agent
    IN /\ lastPublished[a] > 0 => clock >= lastPublished[a] + Policy[a].spacing
       /\ SpacingAllows(j)
       /\ DayAllows(j)
       /\ jobs[j].kind # "scheduled" =>
              /\ jobs[j].kind \in Policy[a].reacts
              /\ CooldownAllows(j)
              /\ ConversationAllows(j)
              /\ TriggerAllows(j)
       /\ jobs[j].kind \in HumanKinds => HumanAllows(j)
       /\ jobs[j].kind = "continuation" => ChainAllows(j)

----------------------------------------------------------------------------
(* Transactions and their row locks. *)

\* A locked row.  FOR SHARE locks are compatible with each other.
Row == ({"human"} \X Humans) \cup ({"tag"} \X scenario.tags) \cup ({"post"} \X Nat) \cup ({"account", "settings"} \X Agents)
           \cup ({"job"} \X (1..MaxJobs))
Lock == [row : Row, shared : BOOLEAN]

ForUpdate(table, id) == [row |-> <<table, id>>, shared |-> FALSE]
ForShare(table, id) == [row |-> <<table, id>>, shared |-> TRUE]

Idle == [pc |-> "idle", op |-> "none", actor |-> 0, post |-> 0, parent |-> 0,
         targets |-> {}, candidates |-> <<>>, plan |-> <<>>, held |-> {}, clock |-> 0,
         chainJobs |-> 0, humanJobs |-> 0, prior |-> 0, chosen |-> <<>>]

Transaction ==
    [pc : {"idle", "source", "discovered", "counted", "considered"},
     op : Operations \cup {"none"}, actor : Nat, post : Nat, parent : 0..MaxJobs,
     targets : SUBSET Agents, candidates : Rankings(Agents), plan : Seq(Lock),
     held : SUBSET Lock, clock : Nat, chainJobs : Nat, humanJobs : Nat, prior : Nat,
     chosen : Rankings(Agents)]

Human(t) == tx[t].op \in HumanKinds
Continuation(t) == tx[t].op \in {"publish", "continue"}
Admission(t) == Human(t) \/ Continuation(t)
Control(t) == tx[t].op \in {"pause", "resume", "disable"}

Holds(t, table, id) == \E l \in tx[t].held : l.row = <<table, id>>

Conflicts(t, u) ==
    /\ t # u
    /\ tx[t].plan # <<>>
    /\ \E l \in tx[u].held : /\ l.row = Head(tx[t].plan).row
                             /\ ~(l.shared /\ Head(tx[t].plan).shared)

\* The query of a candidate's account finds no row when the account is
\* disabled, only accounts that were found have their settings locked, and
\* without the account of its actor a continuation has no candidates.  A tag
\* that has a row is used as it is.
NotFound(t, l) ==
    /\ Admission(t)
    /\ \/ l.row[1] = "tag" /\ l.row[2] \in tags
       \/ l.row[1] = "account" /\ disabled[l.row[2]]
       \/ l.row[1] = "settings" /\ ~Holds(t, "account", l.row[2])
       \/ l.row[1] = "settings" /\ Continuation(t) /\ ~Holds(t, "account", tx[t].actor)

Acquire(t) ==
    /\ tx[t].plan # <<>>
    /\ \A u \in Txs : ~Conflicts(t, u)
    /\ tx' = [tx EXCEPT ![t].plan = Tail(@),
                        ![t].held = IF NotFound(t, Head(tx[t].plan)) THEN @
                                    ELSE @ \cup {Head(tx[t].plan)}]
    /\ UNCHANGED <<scenario, jobs, enabled, disabled, lastPublished, now, tags>>

\* Locks of a table in ID order.
Locks(F(_), S) == LET s == Sorted(S) IN [i \in 1..Cardinality(S) |-> F(s[i])]

\* Mutant: settings are read FOR SHARE.
SettingsUpdate_Shared(a) == ForShare("settings", a)

AccountShare(a) == ForShare("account", a)
SettingsUpdate(a) == ForUpdate("settings", a)
JobUpdate(j) == ForUpdate("job", j)

\* lockHumanActor, then the post that the action is about.
SourcePlan(kind, h, p) ==
    IF kind = "human_post" THEN <<ForUpdate("human", h)>>
    ELSE <<ForUpdate("human", h), ForUpdate("post", p)>>

TagInsert(g) == ForUpdate("tag", g)

\* insertTags, resolveTags: a new tag is inserted in the order of the slugs, and
\* who inserts the same tag waits.
TagPlan(S) == Locks(TagInsert, S)

\* Mutant: candidates are locked in the order of their rank.
CandidatePlan_ByRank(t, ranking) ==
    LET locks(F(_)) == [i \in DOMAIN ranking |-> F(ranking[i])]
    IN locks(AccountShare) \o locks(SettingsUpdate)

\* lockPreparedGenerationCandidates: all accounts, then all settings, each in
\* ID order; the publisher is in both.  Then the root and the job itself.
CandidatePlan(t, ranking) ==
    LET candidates == RangeOf(ranking)
        accounts == IF Continuation(t) THEN candidates \cup {tx[t].actor} ELSE candidates
        settings == IF tx[t].op = "publish" THEN accounts ELSE candidates
        locked == CASE tx[t].op = "publish" -> {jobs[tx[t].parent].root, tx[t].parent}
                    [] tx[t].op = "continue" -> {jobs[tx[t].parent].root}
                    [] OTHER -> {}
    IN Locks(AccountShare, accounts) \o Locks(SettingsUpdate, settings) \o Locks(JobUpdate, locked)

Begin(t, transaction) ==
    /\ tx[t].pc = "idle"
    /\ Cardinality({u \in Txs : tx[u].pc # "idle"}) < scenario.maxOpen
    /\ tx' = [tx EXCEPT ![t] = transaction]
    /\ UNCHANGED <<scenario, jobs, enabled, disabled, lastPublished, now, tags>>

----------------------------------------------------------------------------
(* The first statements of each operation. *)

\* CreatePost, CreateReply and SetRepost with a fresh write.  A new post is its
\* own conversation (post 0 until it has an ID); nobody else can lock it yet.
HumanActs(t, kind, h, p, tagged) ==
    /\ kind \in Operations
    /\ kind \in {"reply", "repost"} => tagged = {}
    /\ Begin(t, [Idle EXCEPT !.pc = "source", !.op = kind, !.actor = h,
                             !.post = IF kind \in {"reply", "repost"} THEN p ELSE 0,
                             !.plan = SourcePlan(kind, h, p) \o TagPlan(tagged)])

\* The conversation of what a job publishes: a reply stays in the one it
\* answers, a scheduled post begins its own.
ResultPost(j) == jobs[j].post

\* PublishGeneration of a job that is still open, which locks its source or, for
\* a post, resolves the tags.
BeginPublication(t, j, tagged) ==
    /\ "publish" \in Operations
    /\ jobs[j].post # 0 => tagged = {}
    /\ jobs[j].finished = 0
    /\ Begin(t, [Idle EXCEPT !.pc = "source", !.op = "publish", !.actor = jobs[j].agent,
                             !.post = ResultPost(j), !.parent = j,
                             !.plan = IF jobs[j].post = 0 THEN TagPlan(tagged)
                                      ELSE <<ForUpdate("post", jobs[j].post)>>])

\* EnqueueGenerationContinuations, which can be repeated: its source is what
\* the succeeded parent published.
BeginContinuations(t, j) ==
    /\ "continue" \in Operations
    /\ jobs[j].finished > 0
    /\ LET post == IF jobs[j].post = 0 THEN PostOf(jobs[j].result) ELSE jobs[j].post
       IN Begin(t, [Idle EXCEPT !.pc = "source", !.op = "continue", !.actor = jobs[j].agent,
                                !.post = post, !.parent = j,
                                !.plan = <<ForUpdate("post", post)>>])

\* generationCandidateIDs reads the fleet without locks.
Discover(t, ranking) ==
    /\ tx[t].pc = "source"
    /\ tx[t].plan = <<>>
    /\ \A a \in RangeOf(ranking) : enabled[a] /\ ~disabled[a] /\ a # tx[t].actor
    /\ tx' = [tx EXCEPT ![t].pc = "discovered", ![t].candidates = ranking,
                        ![t].plan = CandidatePlan(t, ranking)]
    /\ UNCHANGED <<scenario, jobs, enabled, disabled, lastPublished, now, tags>>

\* scheduleGenerationAgent, when the cursor has a slot that is due.
BeginSlot(t, a) ==
    /\ "schedule" \in Operations
    /\ Begin(t, [Idle EXCEPT !.pc = "discovered", !.op = "schedule", !.candidates = <<a>>,
                             !.plan = <<AccountShare(a), SettingsUpdate(a)>>])

\* setAgentsEnabled for one agent or the fleet.
BeginControl(t, op, targets) ==
    /\ op \in Operations
    /\ Begin(t, [Idle EXCEPT !.pc = "considered", !.op = op, !.targets = targets,
                             !.plan = Locks(AccountShare, targets)
                                          \o Locks(SettingsUpdate, targets)])

\* DisableAccount of an agent.
BeginDisable(t, a) ==
    /\ "disable" \in Operations
    /\ Begin(t, [Idle EXCEPT !.pc = "considered", !.op = "disable", !.targets = {a},
                             !.plan = <<ForUpdate("account", a)>>])

----------------------------------------------------------------------------
(* admitPreparedGenerationSource. *)

TriggerKind(t) == IF Continuation(t) THEN "continuation" ELSE tx[t].op

\* Mutant: what discovery read is not read again.
Ready_Stale(t, a) == Holds(t, "settings", a)

\* Settings are read after their lock: an agent that was paused or disabled
\* since discovery is no candidate, and a zero cap excludes its own agent.
Ready(t, a) == Holds(t, "settings", a) /\ enabled[a]

Eligible(t, a) ==
    LET P == Policy[a]
    IN /\ Ready(t, a)
       /\ TriggerKind(t) \in P.reacts
       /\ P.triggerCap > 0 /\ P.dailyCap > 0 /\ P.conversationCap > 0
       /\ Human(t) => P.humanCap > 0
       /\ Continuation(t) => P.chainDepth > 0

EligibleAgents(t) == {a \in RangeOf(tx[t].candidates) : Eligible(t, a)}

Least(S) == CHOOSE n \in S : \A m \in S : n <= m
Greatest(S) == CHOOSE n \in S : \A m \in S : n >= m

\* The limits an action shares are the strictest of its candidates'.
ActionCap(t) == Least({Policy[a].triggerCap : a \in EligibleAgents(t)})
HumanCap(t) == Least({Policy[a].humanCap : a \in EligibleAgents(t)})
HumanWindow(t) == Greatest({Policy[a].humanWindow : a \in EligibleAgents(t)})

\* Mutant: only open jobs use the capacity of a chain.
ChainJobs_OpenOnly(t) ==
    Cardinality({i \in Chain(jobs[tx[t].parent].root) : jobs[i].finished = 0})

ChainJobs(t) == Cardinality(Chain(jobs[tx[t].parent].root))

HumanJobs(t, clock) ==
    Cardinality({i \in Indexes : /\ jobs[i].actor = tx[t].actor
                                 /\ jobs[i].kind \in HumanKinds
                                 /\ jobs[i].created >= clock - HumanWindow(t)})

\* Only a repeated continuation finds jobs of its own action.
PriorActionJobs(t) ==
    IF tx[t].op # "continue" THEN 0
    ELSE Cardinality({i \in Chain(jobs[tx[t].parent].root) :
                          /\ jobs[i].kind = "continuation"
                          /\ jobs[i].key = jobs[tx[t].parent].result})

\* Mutant: the policy is not checked again when it publishes.
MayPublish_Unchecked(t, clock) ==
    Ready(t, tx[t].actor) /\ jobs[tx[t].parent].finished = 0

\* What publishGeneration requires of the job it has locked.
MayPublish(t, clock) ==
    /\ Ready(t, tx[t].actor)
    /\ jobs[tx[t].parent].finished = 0
    /\ ExecutionPolicyAllowed(tx[t].parent, clock)

\* The clock is read after the locks; time passes between any two reads.
Count(t, clock) ==
    /\ tx[t].pc = "discovered"
    /\ tx[t].plan = <<>>
    /\ tx[t].op = "publish" => MayPublish(t, clock)
    /\ now' = clock
    /\ tx' = [tx EXCEPT ![t].pc = "counted", ![t].clock = clock,
                        ![t].chainJobs = IF Continuation(t) THEN ChainJobs(t) ELSE 0,
                        ![t].humanJobs = IF Human(t) /\ EligibleAgents(t) # {}
                                         THEN HumanJobs(t, clock) ELSE 0,
                        ![t].prior = PriorActionJobs(t)]
    /\ UNCHANGED <<scenario, jobs, enabled, disabled, lastPublished, tags>>

\* No reservation of any kind within the spacing.
Unspaced(a, clock) ==
    \E i \in OfAgent(a) : jobs[i].created > clock - Policy[a].spacing

ReplyAllowance(t, a) ==
    LET clock == tx[t].clock
        P == Policy[a]
        replies == {i \in OfAgent(a) : jobs[i].kind # "scheduled"}
    IN /\ lastPublished[a] > 0 => clock >= lastPublished[a] + P.spacing
       /\ ~Unspaced(a, clock)
       /\ \A i \in Indexes : SameCooldown(i, TriggerKind(t), tx[t].actor, a, tx[t].post)
                                 => jobs[i].created < clock - P.cooldown
       /\ Cardinality({i \in replies : Day(jobs[i].created) = Day(clock)}) < P.dailyCap
       /\ tx[t].post # 0 =>
              Cardinality({i \in replies : jobs[i].post = tx[t].post}) < P.conversationCap

\* The insertion does nothing when the agent already has the action's key.
Reserved(t, a) ==
    /\ tx[t].op = "continue"
    /\ \E i \in OfAgent(a) : /\ jobs[i].kind = "continuation"
                             /\ jobs[i].key = jobs[tx[t].parent].result

ChainHasRoom(t, a, n) ==
    LET R == jobs[jobs[tx[t].parent].root]
    IN /\ jobs[tx[t].parent].depth + 1 <= Lesser(R.maxDepth, Policy[a].chainDepth)
       /\ tx[t].chainJobs + n < Lesser(R.maxJobs, Policy[a].chainJobs)

\* Whether agent a is admitted after n others.
Admits(t, a, n) ==
    /\ tx[t].prior + n < ActionCap(t)
    /\ Human(t) => tx[t].humanJobs + n < HumanCap(t)
    /\ Continuation(t) => ChainHasRoom(t, a, n)
    /\ ReplyAllowance(t, a)
    /\ ~Reserved(t, a)

\* The slot of scheduleGenerationAgent: daily reservations and spacing.
SlotAllowed(t, a) ==
    /\ Ready(t, a)
    /\ ~disabled[a]
    /\ ~Unspaced(a, tx[t].clock)
    /\ Cardinality({i \in OfAgent(a) : /\ jobs[i].kind = "scheduled"
                                       /\ Day(jobs[i].created) = Day(tx[t].clock)})
       < Policy[a].scheduledCap

\* The candidates in their order; drawn are those the dice and the age of the
\* source let through.
Chosen(t, drawn) ==
    LET ranking == tx[t].candidates
        f[k \in 0..Len(ranking)] ==
            IF k = 0 THEN <<>>
            ELSE IF /\ ranking[k] \in drawn
                    /\ IF tx[t].op = "schedule" THEN SlotAllowed(t, ranking[k])
                       ELSE /\ Eligible(t, ranking[k])
                            /\ Admits(t, ranking[k], Len(f[k - 1]))
                 THEN Append(f[k - 1], ranking[k])
                 ELSE f[k - 1]
    IN f[Len(ranking)]

Consider(t, drawn) ==
    /\ tx[t].pc = "counted"
    /\ tx' = [tx EXCEPT ![t].pc = "considered", ![t].chosen = Chosen(t, drawn)]
    /\ UNCHANGED <<scenario, jobs, enabled, disabled, lastPublished, now, tags>>

----------------------------------------------------------------------------
(* The ends of transactions. *)

\* Mutant: the first job of a chain has no root.
RootOf_Unset(t, index) == IF Continuation(t) THEN jobs[tx[t].parent].root ELSE 0

RootOf(t, index) == IF Continuation(t) THEN jobs[tx[t].parent].root ELSE index

\* The rows of a transaction, which get IDs at random.
NewJob(t, i, ids, action) ==
    LET a == tx[t].chosen[i]
        index == Len(jobs) + i
        root == RootOf(t, index)
        limits == IF Continuation(t)
                  THEN <<jobs[root].maxDepth, jobs[root].maxJobs>>
                  ELSE <<Policy[a].chainDepth, Policy[a].chainJobs>>
    IN [agent |-> a,
        kind |-> IF tx[t].op = "schedule" THEN "scheduled" ELSE TriggerKind(t),
        key |-> action,
        actor |-> tx[t].actor,
        post |-> IF tx[t].post = 0 /\ tx[t].op # "schedule" THEN PostOf(action) ELSE tx[t].post,
        root |-> root,
        depth |-> IF Continuation(t) THEN jobs[tx[t].parent].depth + 1 ELSE 0,
        maxDepth |-> limits[1], maxJobs |-> limits[2],
        created |-> tx[t].clock, order |-> ids[i],
        finished |-> 0, result |-> 0]

Published(t, action) ==
    IF tx[t].op # "publish" THEN jobs
    ELSE [jobs EXCEPT ![tx[t].parent].finished = tx[t].clock,
                      ![tx[t].parent].result = action]

Commit(t, ids) ==
    LET action == IF tx[t].op = "continue" THEN jobs[tx[t].parent].result ELSE FreshAction
    IN /\ tx[t].pc = "considered"
       /\ ~Control(t)
       /\ Len(jobs) + Len(tx[t].chosen) <= MaxJobs
       /\ jobs' = Published(t, action)
                      \o [i \in 1..Len(tx[t].chosen) |-> NewJob(t, i, ids, action)]
       /\ lastPublished' = IF tx[t].op = "publish"
                           THEN [lastPublished EXCEPT ![tx[t].actor] = tx[t].clock]
                           ELSE lastPublished
       /\ tx' = [tx EXCEPT ![t] = Idle]
       /\ tags' = tags \cup {g \in scenario.tags : Holds(t, "tag", g)}
       /\ UNCHANGED <<scenario, enabled, disabled, now>>

\* Resuming one agent whose account is disabled is refused; resuming the fleet
\* skips it.
CommitControl(t) ==
    /\ tx[t].pc = "considered"
    /\ tx[t].plan = <<>>
    /\ Control(t)
    /\ CASE tx[t].op = "pause" ->
              /\ enabled' = [a \in Agents |-> enabled[a] /\ a \notin tx[t].targets]
              /\ UNCHANGED disabled
         [] tx[t].op = "resume" ->
              /\ enabled' = [a \in Agents |-> \/ enabled[a]
                                              \/ a \in tx[t].targets /\ ~disabled[a]]
              /\ UNCHANGED disabled
         [] tx[t].op = "disable" ->
              /\ disabled' = [a \in Agents |-> disabled[a] \/ a \in tx[t].targets]
              /\ UNCHANGED enabled
    /\ tx' = [tx EXCEPT ![t] = Idle]
    /\ UNCHANGED <<scenario, jobs, lastPublished, now, tags>>

\* A refusal, a failed statement, a deadline or a crash: everything is rolled
\* back and the locks are released.
Rollback(t) ==
    /\ tx[t].pc # "idle"
    /\ tx' = [tx EXCEPT ![t] = Idle]
    /\ UNCHANGED <<scenario, jobs, enabled, disabled, lastPublished, now, tags>>

Init ==
    /\ scenario \in Scenarios
    /\ jobs = <<>>
    /\ enabled = [a \in Agents |-> TRUE]
    /\ disabled = [a \in Agents |-> FALSE]
    /\ lastPublished = [a \in Agents |-> 0]
    /\ now = 0
    /\ tags = {}
    /\ tx = [t \in Txs |-> Idle]

\* The orders in which n random IDs can sort.
IDOrders(n) == {f \in [1..n -> 1..n] : \A i, j \in 1..n : i # j => f[i] # f[j]}

Next ==
    \E t \in Txs :
        \/ \E kind \in HumanKinds, h \in Humans, p \in Posts, tagged \in SUBSET scenario.tags :
               HumanActs(t, kind, h, p, tagged)
        \/ \E j \in Indexes, tagged \in SUBSET scenario.tags : BeginPublication(t, j, tagged)
        \/ \E j \in Indexes : BeginContinuations(t, j)
        \/ \E a \in Agents : BeginSlot(t, a)
        \/ \E op \in {"pause", "resume"}, S \in {Agents} \cup {{a} : a \in Agents} :
               BeginControl(t, op, S)
        \/ \E a \in Agents : BeginDisable(t, a)
        \/ Acquire(t)
        \/ \E ranking \in Rankings(Agents) : Discover(t, ranking)
        \/ \E clock \in (now + 1)..Lesser(now + MaxStep, MaxTime) : Count(t, clock)
        \/ \E drawn \in SUBSET RangeOf(tx[t].candidates) : Consider(t, drawn)
        \/ \E ids \in IDOrders(Len(tx[t].chosen)) : Commit(t, ids)
        \/ CommitControl(t)
        \/ Rollback(t)

Spec == Init /\ [][Next]_vars

----------------------------------------------------------------------------
(* What is checked. *)

\* Types.
TypeOK ==
    /\ scenario \in Scenarios
    /\ jobs \in Seq(Job)
    /\ enabled \in [Agents -> BOOLEAN]
    /\ disabled \in [Agents -> BOOLEAN]
    /\ lastPublished \in [Agents -> Nat]
    /\ now \in Nat
    /\ tags \subseteq scenario.tags
    /\ tx \in [Txs -> Transaction]

AgentQuotasStand ==
    \A j \in Indexes :
        /\ SpacingAllows(j)
        /\ DayAllows(j)
        /\ jobs[j].kind # "scheduled" => CooldownAllows(j) /\ ConversationAllows(j)

TriggerStands == \A j \in Indexes : jobs[j].kind # "scheduled" => TriggerAllows(j)

HumanStands == \A j \in Indexes : jobs[j].kind \in HumanKinds => HumanAllows(j)

\* Every reservation passes the checks that spending and publication will make
\* of it (executionPolicyAllowed), whichever transactions admitted jobs at the
\* same time: those on its agent (serialised by the settings lock), on one
\* action, also when a continuation is enqueued again (priorActionJobs), and
\* on one human in a window (serialised by lockHumanActor).
QuotasStand == AgentQuotasStand /\ TriggerStands /\ HumanStands

\* A chain stays within the limits fixed by its root, however many of its
\* members publish at once, and its members inherit those limits
\* (ValidateGenerationContinuation).
ChainStands ==
    \A j \in Indexes :
        LET R == jobs[jobs[j].root]
        IN /\ R.depth = 0 /\ R.root = jobs[j].root
           /\ jobs[j].depth <= R.maxDepth
           /\ Cardinality(Chain(jobs[j].root)) <= R.maxJobs
           /\ jobs[j].maxDepth = R.maxDepth /\ jobs[j].maxJobs = R.maxJobs

\* Two publications of an agent are at least its spacing apart
\* (last_published_at under the settings lock).
PublicationsSpaced ==
    \A i, j \in Indexes :
        /\ i # j
        /\ jobs[i].agent = jobs[j].agent
        /\ jobs[i].finished > 0
        /\ jobs[j].finished >= jobs[i].finished
        => jobs[j].finished >= jobs[i].finished + Policy[jobs[i].agent].spacing

\* No transactions wait for each other in a circle: the locks have an order
\* (lockPreparedGenerationCandidates, setAgentsEnabled).
NoWaitCycle ==
    \A S \in (SUBSET Txs) \ {{}} : \E t \in S : \A u \in S : ~Conflicts(t, u)

\* A job is never admitted for an agent that is paused or disabled at that
\* moment, although candidates are discovered without locks.
AdmittedWhileEnabled ==
    [][\A i \in (Len(jobs) + 1)..Len(jobs') :
           enabled[jobs'[i].agent] /\ ~disabled[jobs'[i].agent]]_vars

\* A reservation that was admitted within its agent's own chain limit keeps
\* its place in the chain (generation_eligibility.go: "Later work cannot
\* invalidate a legitimate earlier member").
MembersStand == \A j \in Indexes : jobs[j].kind = "continuation" => ChainAllows(j)
=============================================================================
