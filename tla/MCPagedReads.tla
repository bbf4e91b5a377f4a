---------------------------- MODULE MCPagedReads ----------------------------
(* Small instances of PagedReads. *)
EXTENDS PagedReads

Row(table, post, actor, topical) == [table |-> table, post |-> post, actor |-> actor, topical |-> topical]

Post(r, actor) == Row("post", r, actor, TRUE)

TwoViewers == {1, 2}

\* Two posts of different people, one of them reposted, and reposted again.
ForYou ==
    [rows |-> <<Post(1, 2), Row("repost", 1, 2, FALSE), Post(3, 3), Row("repost", 1, 2, FALSE)>>,
     operations |-> {"insert", "remove"}, scope |-> "feed", view |-> "for-you", topic |-> FALSE,
     sort |-> "newest", target |-> 0, readers |-> {NoViewer}, limits |-> {1},
     startTime |-> 2, maxTime |-> 3, maxWrites |-> 3]

\* A feed on a topic that is bound to who is signed in.
Topic ==
    [ForYou EXCEPT !.rows = <<Post(1, 3), Row("post", 2, 3, FALSE), Row("repost", 1, 2, FALSE), Row("repost", 2, 2, FALSE), Post(5, 2)>>,
                   !.operations = {"insert", "session"}, !.topic = TRUE, !.readers = {1},
                   !.maxWrites = 2]

Following ==
    [ForYou EXCEPT !.rows = <<Post(1, 3), Post(2, 2), Row("repost", 2, 3, FALSE)>>,
                   !.operations = {"follow", "insert", "remove", "session", "disable"}, !.view = "following",
                   !.readers = {1}, !.maxWrites = 2]

Reacted ==
    [ForYou EXCEPT !.rows = <<Post(1, 2), Post(2, 3), Row("repost", 2, 2, FALSE)>>,
                   !.operations = {"react", "insert", "remove"}, !.sort = "reacted"]

OfAccount ==
    [ForYou EXCEPT !.scope = "account-feed", !.target = 2, !.operations = {"insert", "remove", "disable"}, !.maxWrites = 2]

\* Three answers to one post by two people; pages of one and of two, like a preview.
Oldest ==
    [ForYou EXCEPT !.rows = <<Post(1, 3), Row("reply", 1, 2, FALSE), Row("reply", 1, 3, FALSE), Row("reply", 1, 4, FALSE)>>,
                   !.scope = "replies", !.sort = "oldest", !.target = 1, !.limits = {1, 2}]
Newest == [Oldest EXCEPT !.sort = "newest", !.limits = {1}, !.maxWrites = 2]

Bookmarked ==
    [ForYou EXCEPT !.rows = <<Post(1, 3), Post(2, 3), Row("bookmark", 1, 1, FALSE), Row("bookmark", 2, 1, FALSE),
                             Row("bookmark", 1, 2, FALSE)>>,
                   !.operations = {"insert", "remove", "session"}, !.scope = "bookmarks",
                   !.readers = {1, 2}, !.maxWrites = 2]

Searched ==
    [Topic EXCEPT !.scope = "search", !.operations = {"insert", "remove"},
                  !.rows = <<Post(1, 3), Row("post", 2, 3, FALSE), Post(3, 2), Post(4, 3)>>]

Queue ==
    [ForYou EXCEPT !.rows = [r \in 1..3 |-> Row("job", r, 3, TRUE)],
                   !.operations = {"insert", "move"}, !.scope = "jobs"]

AllScenarios == {ForYou, Topic, Following, Reacted, OfAccount, Oldest, Newest, Bookmarked, Searched, Queue}
=============================================================================
