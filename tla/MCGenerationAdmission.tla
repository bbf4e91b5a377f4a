--------------------- MODULE MCGenerationAdmission ---------------------
(* Small instances of GenerationAdmission. *)
EXTENDS GenerationAdmission, TLC

Symmetric == Permutations(Txs)

Base == [spacing |-> 2, cooldown |-> 3, scheduledCap |-> 1, dailyCap |-> 2,
         conversationCap |-> 2, triggerCap |-> 2, humanCap |-> 2, humanWindow |-> 2,
         chainDepth |-> 2, chainJobs |-> 3, reacts |-> SocialKinds]

OnePost == 1..1

\* Agent 1 shares an action with nobody, agent 2 allows each human less.
HumanPolicies ==
    (1 :> [Base EXCEPT !.triggerCap = 1, !.humanWindow = 3])
        @@ (2 :> [Base EXCEPT !.humanCap = 1])

\* Two scheduled posts a day.
SlotPolicies == [a \in 1..1 |-> [Base EXCEPT !.scheduledCap = 2]]

\* Agent 1 begins a chain of three, which two siblings fill.
SiblingPolicies ==
    [a \in 1..3 |-> [Base EXCEPT !.spacing = 1, !.scheduledCap = IF a = 1 THEN 1 ELSE 0]]

\* One reservation for each action; chains begin with agent 1.
ReplayPolicies ==
    [a \in 1..3 |-> [Base EXCEPT !.triggerCap = 1, !.scheduledCap = IF a = 1 THEN 1 ELSE 0]]

\* Agent 2 joins only chains of two more.
MemberPolicies ==
    (1 :> [Base EXCEPT !.chainJobs = 4])
        @@ (2 :> [Base EXCEPT !.chainDepth = 1, !.chainJobs = 2])
        @@ (3 :> [Base EXCEPT !.chainJobs = 4])

\* Two humans compete for two agents, over a day and its windows or in one
\* conversation; a slot of an agent competes with what a human makes it do.
Humanly ==
    [operations |-> {"human_post"}, policy |-> HumanPolicies, humans |-> {11, 12},
     maxOpen |-> 2, dayLength |-> 4, maxStep |-> 1, maxTime |-> 3, maxJobs |-> 3, tags |-> {}]
Conversations == [Humanly EXCEPT !.operations = {"reply", "human_post"}, !.maxTime = 1]
Slots ==
    [Humanly EXCEPT !.operations = {"repost", "schedule"}, !.humans = {11}, !.maxStep = 2,
                    !.dayLength = 3]

\* Admission and controls, also three transactions at once (a disabling holds
\* one lock and waits for no other).
Controls ==
    [Humanly EXCEPT !.operations = {"quote", "pause", "resume", "disable"}, !.humans = {11},
                    !.maxTime = 1, !.maxJobs = 1]
Queues == [Controls EXCEPT !.operations = {"quote", "pause"}, !.maxOpen = 3]

\* Agents publish, and continue each other.
Publications ==
    [operations |-> {"publish", "schedule"}, policy |-> SlotPolicies, humans |-> {},
     maxOpen |-> 2, dayLength |-> 9, maxStep |-> 2, maxTime |-> 6, maxJobs |-> 3, tags |-> {}]
Siblings ==
    [Publications EXCEPT !.policy = SiblingPolicies, !.maxStep = 1, !.maxTime = 3, !.maxJobs = 4]
Replays ==
    [Publications EXCEPT !.operations = {"publish", "continue", "schedule"},
                         !.policy = ReplayPolicies, !.maxStep = 1, !.maxTime = 3]
Members ==
    [Publications EXCEPT !.policy = MemberPolicies, !.maxOpen = 1, !.maxStep = 1, !.maxJobs = 4]

\* Posts of people and of agents bring the same new tags.
Tagging ==
    [Publications EXCEPT !.operations = {"quote", "publish", "schedule"}, !.humans = {11},
                         !.maxStep = 1, !.maxTime = 2, !.maxJobs = 1, !.tags = {1, 2}]

AllScenarios ==
    {Humanly, Conversations, Slots, Controls, Queues, Publications, Siblings, Replays, Tagging}
MemberScenarios == {Members}
=============================================================================
