----------------------- MODULE MCGenerationLifecycle -----------------------
(* Instances of GenerationLifecycle for TLC.                               *)
EXTENDS GenerationLifecycle, TLC

CONSTANTS j1, j2, w1, w2, a1, a2, s1

\* 2s << (n - 1), in units of 2s.
MCRetryBackoff == [n \in 1 .. MaxGenerationAttempts |-> 2 ^ (n - 1)]

\* One unit after every attempt: the lifetime has room for all the attempts.
FlatBackoff == [n \in 1 .. MaxGenerationAttempts |-> 1]

\* One agent, or an agent for each of two jobs.
OneAgent == [j \in Jobs |-> a1]
AgentEach == [j \in Jobs |-> IF j = j1 THEN a1 ELSE a2]

SharedBudget == [a \in Agents |-> DailyTokenBudget]
SmallerBudget == [a \in Agents |-> IF a = a1 THEN ReservedTokens
                                             ELSE DailyTokenBudget]

ScheduledTrigger == [j \in Jobs |-> "scheduled"]
J1AnswersS1 == [j \in Jobs |-> IF j = j1 THEN s1 ELSE NoSource]
ConversationTrigger == [j \in Jobs |-> IF j = j2 THEN "continuation" ELSE "repost"]
NoSourceOf == [j \in Jobs |-> NoSource]

NoParent == [j \in Jobs |-> NoJob]
J2ContinuesJ1 == [j \in Jobs |-> IF j = j2 THEN j1 ELSE NoJob]

o(result, tokens) == [result |-> result, tokens |-> tokens]

\* One outcome of each class the lease protocol distinguishes.
LeaseOutcomes == {o("publish", 1), o("provider_transient", 0)}

\* Every outcome that the retry rules tell apart.
RetryOutcomes ==
    {o("publish", 1), o("skip", 1), o("provider_transient", 0),
     o("provider_timeout", 0), o("invalid_output", 1),
     o("provider_credentials", 0), o("unsafe_output", 1)}

\* Verified usage, uncertain usage and usage beyond the reservation.
BudgetOutcomes ==
    {o("publish", 1), o("provider_timeout", 0), o("publish", ReservedTokens + 1)}

WorkerSymmetry == Permutations(Workers)
=============================================================================
