--------------------------- MODULE MCHumanWrites ---------------------------
(* Small instances of HumanWrites. *)
EXTENDS HumanWrites, TLC

\* Transactions have no identity; only safety is checked here.
Symmetric == Permutations(Txs)

One == 1..1
Two == 1..2

\* One person repeats requests, with two contents, while posts disappear.
Retry ==
    [operations |-> {"post", "quote", "delete", "remove"}, members |-> One, bodies |-> Two,
     maxOpen |-> 2, maxTokens |-> 1, maxItems |-> 3]

\* A post and a reply under the same key.
Kinds ==
    [Retry EXCEPT !.operations = {"post", "reply", "delete"}, !.bodies = One]

\* Two people in one conversation.
Conversation ==
    [operations |-> {"reply", "repost", "delete"}, members |-> Two, bodies |-> One,
     maxOpen |-> 2, maxTokens |-> 2, maxItems |-> 2]

\* Sessions and accounts end while they are used.
Sessions ==
    [Conversation EXCEPT !.operations = {"post", "login", "logout", "disable"},
                         !.members = One, !.maxTokens = 3, !.maxItems = 1]
Follows ==
    [Conversation EXCEPT !.operations = {"follow", "logout", "disable", "register"},
                         !.members = One, !.maxItems = 1]
Marking ==
    [Conversation EXCEPT !.operations = {"reaction", "bookmark", "logout", "disable"},
                         !.members = One, !.maxItems = 1]

\* Three transactions wait for each other.
Queues ==
    [Conversation EXCEPT !.operations = {"delete", "login", "disable"}, !.maxOpen = 3,
                         !.maxItems = 1]

\* Somebody follows an account and logs in as it.
Switching == [Conversation EXCEPT !.operations = {"follow", "login"}, !.maxTokens = 3]

AllScenarios == {Retry, Kinds, Conversation, Sessions, Follows, Marking, Queues}
SwitchingScenarios == {Switching}
=============================================================================
