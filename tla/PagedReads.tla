----------------------------- MODULE PagedReads -----------------------------
(***************************************************************************)
(* The listings that clients read page by page while others write: feeds   *)
(* (internal/postgres/feed.go), replies and their previews                 *)
(* (content_read.go), bookmarks, search (discovery.go) and the job list of *)
(* operators (generation_admin.go), with the cursors of internal/api.      *)
(*                                                                         *)
(* A page is one read-only transaction that sees one instant of the        *)
(* database.  Between two pages the client holds nothing but a signed      *)
(* cursor: what it is bound to, the ceiling of the first page and the key  *)
(* of the last row.  Rows become visible when they are committed, which is *)
(* after the instant they carry.                                           *)
(***************************************************************************)
EXTENDS Integers, FiniteSets, Sequences

CONSTANTS
    Viewers,    \* people who sign in, numbers
    Scenarios   \* the instances, one of which a behaviour is about

Tables == {"post", "repost", "reply", "bookmark", "job"}
Operations == {"insert", "remove", "follow", "react", "move", "session", "disable"}
Scopes == {"feed", "account-feed", "replies", "bookmarks", "search", "jobs"}
Views == {"for-you", "following"}
Sorts == {"newest", "reacted", "oldest"}

NoViewer == 0

\* rows are the rows that the history may have, in the order of their IDs: the
\* table, the post it is about (a post or job itself), whose it is, and
\* whether it is on the topic of the listing.  A topic is the spicy view, a tag
\* or a search text: a property of the post that never changes.  target is the
\* account or the post the listing belongs to, readers are those who ask for
\* pages, of the sizes limits.  Bounds: the clock goes from startTime to maxTime,
\* and maxWrites writes happen beside the reads.
ASSUME ScenarioAssumption ==
    \A s \in Scenarios :
        /\ s.rows \in Seq([table : Tables, post : Nat, actor : Nat, topical : BOOLEAN]) \ {<<>>}
        /\ \A r \in DOMAIN s.rows :
               /\ s.rows[r].post \in DOMAIN s.rows
               /\ s.rows[r].table \in {"post", "job"} => s.rows[r].post = r
               /\ s.rows[r].table \notin {"post", "job"} => s.rows[s.rows[r].post].table = "post"
        /\ s.operations \subseteq Operations
        /\ s.view = "following" => s.scope = "feed"
        /\ s.scope \in Scopes /\ s.view \in Views /\ s.sort \in Sorts /\ s.topic \in BOOLEAN
        /\ s.readers # {} /\ s.readers \subseteq Viewers \cup {NoViewer}
        /\ s.sort = "reacted" => s.scope = "feed"
        /\ s.sort = "oldest" => s.scope = "replies"
        /\ s.limits # {} /\ s.limits \subseteq Nat \ {0}
        /\ {s.startTime, s.maxTime} \subseteq Nat \ {0} /\ s.startTime <= s.maxTime
        /\ s.maxWrites \in Nat

ASSUME ViewerAssumption == Viewers \subseteq Nat \ {NoViewer} /\ IsFiniteSet(Viewers)

VARIABLES
    scenario,  \* never changes
    now,       \* the clock of the database
    db,        \* what is committed
    pending,   \* rows that are inserted and not committed yet, with their instants
    writes,    \* how many writes there were
    reader,    \* the page that is being read
    cursor,    \* what the client holds
    scan       \* history: what the client has read since its first page

vars == <<scenario, now, db, pending, writes, reader, cursor, scan>>

Rows == DOMAIN scenario.rows
Table(r) == scenario.rows[r].table
PostOf(r) == scenario.rows[r].post
Actor(r) == scenario.rows[r].actor
Topical(r) == scenario.rows[r].topical
Accounts == Viewers \cup {Actor(r) : r \in Rows}
Times == 0 .. scenario.maxTime

\* since is created_at of the rows that are there and 0 for the others; a
\* deleted post or reply keeps its row, the ID of a repost is never used again.
Database ==
    [since : [Rows -> Times], deleted : SUBSET Rows, follows : SUBSET (Viewers \X Accounts),
     score : [Rows -> 0..1], listed : SUBSET Rows, sessions : SUBSET Viewers,
     disabled : SUBSET Accounts]

Visible(d, r) == d.since[r] # 0 /\ r \notin d.deleted

----------------------------------------------------------------------------
(* Positions.  Keys are compared like rows of SQL. *)

Less(k, l) == \E i \in 1..4 : k[i] < l[i] /\ \A j \in 1 .. i-1 : k[j] = l[j]

Precedes(k, l) == IF scenario.sort = "oldest" THEN Less(k, l) ELSE Less(l, k)

\* Score (reacted only), time, kind and ID; a repost ranks above a post.
Key(d, r) ==
    <<IF scenario.sort = "reacted" THEN d.score[PostOf(r)] ELSE 0,
      d.since[r],
      IF Table(r) = "repost" THEN 1 ELSE 0,
      IF Table(r) = "bookmark" THEN PostOf(r) ELSE r>>

Keys == (0..1) \X Times \X (0..1) \X Rows
Start == <<>>
NoCursor == [bound |-> NoViewer, ceiling |-> 0, position |-> Start]

----------------------------------------------------------------------------
(* Selections. *)

\* The view of a feed, then its filter.
InView(d, viewer, r) ==
    /\ scenario.view = "following" => Actor(r) = viewer \/ <<viewer, Actor(r)>> \in d.follows
    /\ scenario.topic => Topical(PostOf(r))

FeedEvents(d, viewer) ==
    {r \in Rows : Table(r) \in {"post", "repost"} /\ Visible(d, PostOf(r)) /\ InView(d, viewer, r)}

AccountEvents(d) ==
    {r \in Rows : Table(r) \in {"post", "repost"} /\ Visible(d, PostOf(r)) /\ Actor(r) = scenario.target}

Replies == {r \in Rows : Table(r) = "reply" /\ PostOf(r) = scenario.target}

Bookmarks(d, viewer) ==
    {r \in Rows : Table(r) = "bookmark" /\ Visible(d, PostOf(r)) /\ Actor(r) = viewer}

Matches == {r \in Rows : Table(r) = "post" /\ Topical(r)}

\* listed are the jobs with the status and the agent that were asked for.
Jobs(d) == {r \in d.listed : Table(r) = "job"}

Listed(d, viewer) ==
    {r \in CASE scenario.scope = "feed" -> FeedEvents(d, viewer)
             [] scenario.scope = "account-feed" -> AccountEvents(d)
             [] scenario.scope = "replies" -> Replies
             [] scenario.scope = "bookmarks" -> Bookmarks(d, viewer)
             [] scenario.scope = "search" -> Matches
             [] scenario.scope = "jobs" -> Jobs(d) : Visible(d, r)}

\* Mutant: rows at the position are read again.
After_Inclusive(key, position) == position # Start => ~Precedes(key, position)

After(key, position) == position # Start => Precedes(position, key)

\* Everything that is left from the position on.
Remaining(d, viewer, ceiling, position) ==
    {r \in Listed(d, viewer) : d.since[r] <= ceiling /\ After(Key(d, r), position)}

\* ORDER BY ... LIMIT n.
FirstOf(d, S, n) ==
    {r \in S : Cardinality({q \in S : Precedes(Key(d, q), Key(d, r))}) < n}

Last(d, S) == Key(d, CHOOSE r \in S : \A q \in S \ {r} : Precedes(Key(d, q), Key(d, r)))

\* Mutant: the position is that of the row that only shows that there is more.
NextPosition_Extra(d, S, n) ==
    IF Cardinality(S) > n THEN Last(d, FirstOf(d, S, n + 1)) ELSE Start

\* The page is followed by another when the selection has a row more.
NextPosition(d, S, n) ==
    IF Cardinality(S) > n THEN Last(d, FirstOf(d, S, n)) ELSE Start

----------------------------------------------------------------------------
(* Writes.  An inserted row takes its instant from its statement, while the *)
(* transaction holds locks that it keeps until it commits.                  *)

\* Mutant: the post is not locked.
Locks_NoPost(r) == IF Table(r) = "job" THEN {} ELSE {<<"account", Actor(r)>>}

\* What the transaction of a row holds when the row is inserted.
Locks(r) ==
    CASE Table(r) = "job" -> {}
      [] Table(r) = "post" -> {<<"account", Actor(r)>>}
      [] OTHER -> {<<"account", Actor(r)>>, <<"post", PostOf(r)>>}

Free(locks) == \A p \in pending : Locks(p.row) \cap locks = {}

Write(operation) ==
    /\ operation \in scenario.operations
    /\ writes < scenario.maxWrites
    /\ writes' = writes + 1
    /\ UNCHANGED <<scenario, now, reader, cursor, scan>>

\* A lock changes hands through a commit, which takes longer than the clock
\* needs to move on.
Insert(r) ==
    /\ Write("insert")
    /\ db.since[r] = 0 /\ r \notin {p.row : p \in pending}
    /\ Actor(r) \notin db.disabled
    /\ Table(r) \notin {"post", "job"} => Visible(db, PostOf(r))
    /\ Table(r) = "repost" =>
           \A q \in Rows : Table(q) = "repost" /\ Visible(db, q) => <<Actor(q), PostOf(q)>> # <<Actor(r), PostOf(r)>>
    /\ Free(Locks(r))
    /\ \A q \in Rows : Locks(q) \cap Locks(r) # {} => db.since[q] < now
    /\ pending' = pending \cup {[row |-> r, at |-> now]}
    /\ UNCHANGED db

Commit(p) ==
    /\ pending' = pending \ {p}
    /\ db' = [db EXCEPT !.since[p.row] = p.at]
    /\ UNCHANGED <<scenario, now, writes, reader, cursor, scan>>

Rollback(p) ==
    /\ pending' = pending \ {p}
    /\ UNCHANGED <<scenario, now, db, writes, reader, cursor, scan>>

\* Deletions of posts and replies, and marks that are taken back.
Remove(r) ==
    /\ Write("remove")
    /\ Table(r) # "job"
    /\ Visible(db, r) /\ Visible(db, PostOf(r))
    /\ Free(Locks(r) \cup {<<"post", PostOf(r)>>})
    /\ db' = IF Table(r) = "bookmark" THEN [db EXCEPT !.since[r] = 0]
                                      ELSE [db EXCEPT !.deleted = @ \cup {r}]
    /\ UNCHANGED pending

SetFollow(v, a) ==
    /\ Write("follow")
    /\ v # a
    /\ Free({<<"account", v>>, <<"account", a>>})
    /\ db' = [db EXCEPT !.follows = IF <<v, a>> \in @ THEN @ \ {<<v, a>>} ELSE @ \cup {<<v, a>>}]
    /\ UNCHANGED pending

\* Mutant: a reaction that is repeated counts again.
SetReaction_Repeated(p) ==
    /\ Write("react")
    /\ Table(p) = "post" /\ Visible(db, p)
    /\ Free({<<"post", p>>})
    /\ db' = [db EXCEPT !.score[p] = @ + 1]
    /\ UNCHANGED pending

\* One person reacts to a post, or no longer.
SetReaction(p) ==
    /\ Write("react")
    /\ Table(p) = "post" /\ Visible(db, p)
    /\ Free({<<"post", p>>})
    /\ db' = [db EXCEPT !.score[p] = 1 - @]
    /\ UNCHANGED pending

\* A job changes its status.
MoveJob(r) ==
    /\ Write("move")
    /\ Table(r) = "job" /\ Visible(db, r)
    /\ db' = [db EXCEPT !.listed = IF r \in @ THEN @ \ {r} ELSE @ \cup {r}]
    /\ UNCHANGED pending

\* Logging in again, and logging out or the end of the seven days.
SwitchSession(v) ==
    /\ Write("session")
    /\ v \notin db.disabled
    /\ Free({<<"account", v>>})
    /\ db' = [db EXCEPT !.sessions = IF v \in @ THEN @ \ {v} ELSE @ \cup {v}]
    /\ UNCHANGED pending

DisableAccount(a) ==
    /\ Write("disable")
    /\ a \notin db.disabled
    /\ Free({<<"account", a>>})
    /\ db' = [db EXCEPT !.disabled = @ \cup {a}, !.sessions = @ \ {a}]
    /\ UNCHANGED pending

Tick ==
    /\ now < scenario.maxTime
    /\ now' = now + 1
    /\ UNCHANGED <<scenario, db, pending, writes, reader, cursor, scan>>

----------------------------------------------------------------------------
(* Reads. *)

Private == scenario.scope = "bookmarks" \/ scenario.view = "following"

Idle == [pc |-> "idle", token |-> NoViewer, viewer |-> NoViewer, limit |-> 0, ceiling |-> 0,
         position |-> Start, snap |-> <<>>, total |-> 0, page |-> {}, next |-> Start, posts |-> {}]

SessionAccount(d, token) == IF token \in d.sessions THEN token ELSE NoViewer

\* Mutant: a cursor may be used by anybody.
BoundTo_Nobody(viewer) == NoViewer

\* Replies and jobs are the same for everybody, also those of a preview.
BoundTo(viewer) == IF scenario.scope \in {"replies", "jobs"} THEN NoViewer ELSE viewer

\* Mutant: the ceiling is not part of the cursor.
CeilingOf_Fresh(c) == IF scenario.scope = "jobs" THEN scenario.maxTime ELSE 0

\* The list of operators has no ceiling.
CeilingOf(c) == IF scenario.scope = "jobs" THEN scenario.maxTime ELSE c.ceiling

Accepted(viewer) ==
    /\ Private => viewer # NoViewer
    /\ cursor # NoCursor => cursor.bound = BoundTo(viewer)

\* The handler resolves the viewer by a query of its own and checks the cursor.
\* A request that it refuses changes nothing.
Request(token, limit) ==
    /\ reader.pc = "idle"
    /\ ~scan.ended
    /\ LET viewer == SessionAccount(db, token)
       IN reader' = IF Accepted(viewer)
                    THEN [Idle EXCEPT !.pc = "opened", !.token = token, !.viewer = viewer,
                                      !.limit = limit, !.ceiling = CeilingOf(cursor),
                                      !.position = cursor.position]
                    ELSE reader
    /\ UNCHANGED <<scenario, now, db, pending, writes, cursor, scan>>

\* A feed or a search reads the clock with its first statement, the others look
\* for the session, the account or the post first.
CeilingFirst == scenario.scope = "search" \/ (scenario.scope = "feed" /\ ~Private)

TakeCeiling ==
    /\ reader.pc = IF CeilingFirst THEN "opened" ELSE "reading"
    /\ reader.ceiling = 0
    /\ reader' = [reader EXCEPT !.ceiling = now]
    /\ UNCHANGED <<scenario, now, db, pending, writes, cursor, scan>>

\* Mutant: every statement sees what is committed by then.
Instant_Latest == db

\* What the statements of the page see.
Instant == IF reader.pc = "opened" THEN db ELSE reader.snap

\* The first statement may already answer the request with an error.
Found(d) ==
    /\ Private => SessionAccount(d, reader.token) = reader.viewer
    /\ scenario.scope = "account-feed" => scenario.target \notin d.disabled
    /\ scenario.scope = "replies" => Visible(d, scenario.target)

OpenSnapshot ==
    /\ reader.pc = "opened"
    /\ CeilingFirst => reader.ceiling # 0
    /\ reader' = IF Found(db)
                 THEN [reader EXCEPT !.pc = "reading", !.snap = db,
                                     !.total = Cardinality(Listed(db, reader.viewer))]
                 ELSE Idle
    /\ UNCHANGED <<scenario, now, db, pending, writes, cursor, scan>>

Event(d, r) == [row |-> r, key |-> Key(d, r)]

Select ==
    /\ reader.pc = "reading"
    /\ reader.ceiling # 0
    /\ LET d == Instant
           S == Remaining(d, reader.viewer, reader.ceiling, reader.position)
       IN reader' = [reader EXCEPT !.pc = "selected",
                                   !.page = {Event(d, r) : r \in FirstOf(d, S, reader.limit)},
                                   !.next = NextPosition(d, S, reader.limit)]
    /\ UNCHANGED <<scenario, now, db, pending, writes, cursor, scan>>

Counted(d, p) == [post |-> p, reactions |-> d.score[p]]

\* The posts of the page with their counts.
Hydrate ==
    /\ reader.pc = "selected"
    /\ LET d == Instant
           visible == {p \in {PostOf(e.row) : e \in reader.page} : Visible(d, p)}
       IN reader' = [reader EXCEPT !.pc = "hydrated", !.posts = {Counted(d, p) : p \in visible}]
    /\ UNCHANGED <<scenario, now, db, pending, writes, cursor, scan>>

Unread == [delivered |-> {}, kept |-> {}, seen |-> {}, ceiling |-> 0, audience |-> {}, ended |-> FALSE]

\* The cursor that goes with a page: none when nothing is left.
Continuation(page) ==
    IF page.next = Start
    THEN NoCursor
    ELSE [bound |-> BoundTo(page.viewer), ceiling |-> page.ceiling, position |-> page.next]

\* The answer arrives.
Answer ==
    /\ reader.pc = "hydrated"
    /\ cursor' = Continuation(reader)
    /\ LET ceiling == IF scan = Unread THEN reader.ceiling ELSE scan.ceiling
           readable == {Event(reader.snap, r) : r \in {q \in Listed(reader.snap, reader.viewer) :
                                                       reader.snap.since[q] <= ceiling}}
       IN scan' = [delivered |-> scan.delivered \cup reader.page,
                   kept |-> IF scan = Unread THEN readable ELSE scan.kept \cap readable,
                   seen |-> readable,
                   ceiling |-> ceiling,
                   audience |-> scan.audience \cup {SessionAccount(reader.snap, reader.token)},
                   ended |-> reader.next = Start]
    /\ reader' = Idle
    /\ UNCHANGED <<scenario, now, db, pending, writes>>

\* A failed statement, a deadline or a lost answer: the client asks again with
\* the cursor it has.
Lose ==
    /\ reader.pc # "idle"
    /\ reader' = Idle
    /\ UNCHANGED <<scenario, now, db, pending, writes, cursor, scan>>

StartOver ==
    /\ reader.pc = "idle"
    /\ scan # Unread
    /\ cursor' = NoCursor /\ scan' = Unread
    /\ UNCHANGED <<scenario, now, db, pending, writes, reader>>

----------------------------------------------------------------------------

\* Rows that are there before the reads begin; now is past their instants.
Initially(since) ==
    /\ \A r \in Rows : since[r] # 0 => since[PostOf(r)] # 0 /\ since[PostOf(r)] <= since[r]
    /\ \A q, r \in Rows : q # r /\ Locks(q) \cap Locks(r) # {} /\ since[q] # 0 => since[q] # since[r]
    /\ \A q, r \in Rows : /\ q # r /\ {Table(q), Table(r)} = {"repost"}
                          /\ <<Actor(q), PostOf(q)>> = <<Actor(r), PostOf(r)>>
                          => 0 \in {since[q], since[r]}
    /\ scenario.scope = "replies" => since[scenario.target] # 0

Init ==
    /\ scenario \in Scenarios
    /\ now = scenario.startTime
    /\ \E since \in [Rows -> 0 .. scenario.startTime],
          follows \in SUBSET ((scenario.readers \ {NoViewer}) \X {Actor(r) : r \in Rows}) :
           /\ Initially(since)
           /\ scenario.view = "following" \/ follows = {}
           /\ db = [since |-> since, deleted |-> {}, follows |-> follows, score |-> [r \in Rows |-> 0],
                    listed |-> Rows, sessions |-> scenario.readers \ {NoViewer}, disabled |-> {}]
    /\ pending = {} /\ writes = 0
    /\ reader = Idle /\ cursor = NoCursor /\ scan = Unread

Next ==
    \/ \E r \in Rows : Insert(r) \/ Remove(r) \/ SetReaction(r) \/ MoveJob(r)
    \/ \E p \in pending : Commit(p) \/ Rollback(p)
    \/ \E v \in scenario.readers \ {NoViewer}, a \in Accounts : SetFollow(v, a)
    \/ \E v \in scenario.readers \ {NoViewer} : SwitchSession(v)
    \/ \E a \in Accounts : DisableAccount(a)
    \/ Tick
    \/ \E token \in scenario.readers, limit \in scenario.limits : Request(token, limit)
    \/ TakeCeiling \/ OpenSnapshot \/ Select \/ Hydrate \/ Answer \/ Lose
    \/ StartOver

Spec == Init /\ [][Next]_vars

----------------------------------------------------------------------------
(* Properties. *)

Events == [row : Rows, key : Keys]

TypeOK ==
    /\ scenario \in Scenarios
    /\ now \in Times
    /\ db \in Database
    /\ pending \subseteq [row : Rows, at : Times]
    /\ writes \in 0 .. scenario.maxWrites
    /\ reader.pc \in {"idle", "opened", "reading", "selected", "hydrated"}
    /\ reader.pc \in {"reading", "selected", "hydrated"} => reader.snap \in Database
    /\ reader.page \subseteq Events /\ reader.next \in Keys \cup {Start}
    /\ reader.ceiling \in Times /\ reader.position \in Keys \cup {Start}
    /\ cursor \in [bound : Viewers \cup {NoViewer}, ceiling : Times, position : Keys \cup {Start}]
    /\ {scan.delivered, scan.kept, scan.seen} \subseteq SUBSET Events

\* A page goes on where the one before ended: it repeats no row, however rows
\* come and go in between, only a moving score can show a row again (ListFeed,
\* ListReplies, ListBookmarks, searchPosts, ListGenerationJobs).
NothingRepeated ==
    \A e \in reader.page, f \in scan.delivered :
        Precedes(f.key, e.key) /\ (scenario.sort # "reacted" => e.row # f.row)

\* A row that could be read at its place by every page so far is not passed
\* over, whatever else was written and whichever answers were lost.
NothingSkipped ==
    \A e \in scan.kept : scan.ended \/ ~After(e.key, cursor.position) => e \in scan.delivered

\* Who reads replies oldest first to the end has read all that were there at the
\* last page, also those committed since the first: replies to one post take
\* their instants one after the other, under the lock of the post.
RepliesComplete ==
    scan.ended /\ scenario.sort = "oldest" => scan.seen \subseteq scan.delivered

\* Later pages bring nothing newer than the first page was, so that a reader
\* comes to an end (the ceiling in the cursor; "cannot inject replies newer").
NothingNewer == \A e \in scan.delivered : e.key[2] <= scan.ceiling

\* Selection, posts, counts and totals of a page are of one instant: no entry
\* is without its post, no score differs from the counts beside it, and there
\* are as many replies as are listed (readSnapshot).
PageOfOneInstant ==
    reader.pc = "hydrated" =>
        /\ \A e \in reader.page : \E found \in reader.posts :
               /\ found.post = PostOf(e.row)
               /\ scenario.sort = "reacted" => found.reactions = e.key[1]
        /\ Cardinality(reader.page) <= reader.total

\* The pages of a private listing were read by one person, who was signed in
\* at each of them, and bookmarks are that person's.
OneAudience ==
    Private =>
        /\ NoViewer \notin scan.audience /\ Cardinality(scan.audience) <= 1
        /\ scenario.scope = "bookmarks" => {Actor(e.row) : e \in scan.delivered} \subseteq scan.audience
=============================================================================
