------------------------- MODULE PagedReads_proofs -------------------------
(***************************************************************************)
(* What readers get from page to page, for every history of writes, every  *)
(* listing and every reader: the ceiling of the first page, the audience,  *)
(* each row at most once, none that stays passed over, and each page from  *)
(* one instant.                                                            *)
(***************************************************************************)
EXTENDS PagedReads, FiniteSetTheorems, WellFoundedInduction, TLAPS

Busy == reader.pc # "idle"
Opened == reader.pc \in {"reading", "selected", "hydrated"}
Chosen == reader.pc \in {"selected", "hydrated"}

\* A record with the fields of a request, so that a change of some keeps the others.
Shaped(r) ==
    r = [pc |-> r.pc, token |-> r.token, viewer |-> r.viewer, limit |-> r.limit, ceiling |-> r.ceiling,
         position |-> r.position, snap |-> r.snap, total |-> r.total, page |-> r.page, next |-> r.next,
         posts |-> r.posts]

\* The client holds a cursor between its first page and its last, with the
\* ceiling and the audience of what it has read.
CursorOK ==
    /\ scan = Unread => cursor = NoCursor
    /\ scan # Unread /\ ~scan.ended =>
           /\ cursor # NoCursor
           /\ cursor.ceiling = scan.ceiling
           /\ Private => scan.audience = {cursor.bound}
    /\ cursor # NoCursor =>
           /\ cursor.ceiling # 0
           /\ scenario.scope = "jobs" => cursor.ceiling = scenario.maxTime

\* A request goes on with the ceiling of its cursor and for the viewer it was
\* bound to, who is still signed in where its snapshot begins.
ReaderOK ==
    /\ Shaped(reader)
    /\ Busy =>
           /\ ~scan.ended
           /\ scenario.scope = "jobs" => reader.ceiling = scenario.maxTime
           /\ Private => reader.viewer # NoViewer
           /\ cursor # NoCursor =>
                  /\ reader.ceiling = cursor.ceiling
                  /\ Private => cursor.bound = reader.viewer
    /\ Opened /\ Private => SessionAccount(reader.snap, reader.token) = reader.viewer
    /\ Chosen =>
           /\ reader.ceiling # 0
           /\ \A e \in reader.page :
                  /\ e.key[2] <= reader.ceiling
                  /\ scenario.scope = "bookmarks" => Actor(e.row) = reader.viewer

\* Everything read is the audience's: of one person, if it is private.
AudienceOK ==
    Private =>
        /\ NoViewer \notin scan.audience
        /\ \E v \in scan.audience \cup {NoViewer} : scan.audience \subseteq {v}
        /\ scenario.scope = "bookmarks" => {Actor(e.row) : e \in scan.delivered} \subseteq scan.audience

Inv == scenario \in Scenarios /\ CursorOK /\ ReaderOK /\ NothingNewer /\ AudienceOK

-----------------------------------------------------------------------------
(* Lemmas. *)

\* Only the feed is private by its view, so a private listing is bound to its
\* reader.
LEMMA PrivateBound ==
    ASSUME Private, scenario \in Scenarios, NEW v
    PROVE  scenario.scope # "jobs" /\ BoundTo(v) = v
  BY ScenarioAssumption DEF Private, BoundTo

\* What is selected lies at or below the ceiling and is the viewer's.
LEMMA SelectedRows ==
    ASSUME NEW d, NEW viewer, NEW ceiling, NEW position, NEW n,
           NEW r \in FirstOf(d, Remaining(d, viewer, ceiling, position), n)
    PROVE  /\ Key(d, r)[2] <= ceiling
           /\ scenario.scope = "bookmarks" => Actor(r) = viewer
  <1>1. r \in Listed(d, viewer) /\ d.since[r] <= ceiling
    BY DEF FirstOf, Remaining
  <1>2. Key(d, r)[2] = d.since[r]
    BY DEF Key
  <1>3. scenario.scope = "bookmarks" => r \in Bookmarks(d, viewer)
    BY <1>1 DEF Listed
  <1> QED
    BY <1>1, <1>2, <1>3 DEF Bookmarks

\* Writes and the clock are seen by no request that has begun.
LEMMA WritesKeep ==
    ASSUME Inv, UNCHANGED <<scenario, reader, cursor, scan>>
    PROVE  Inv'
  BY DEF Inv, CursorOK, ReaderOK, Shaped, Busy, Opened, Chosen, NothingNewer, AudienceOK,
         Private, Actor, SessionAccount, Unread, NoCursor, Start

LEMMA InitInv == Init => Inv
  BY DEF Init, Inv, CursorOK, ReaderOK, Shaped, Busy, Opened, Chosen, NothingNewer, AudienceOK,
         Idle, Unread, NoCursor, Start

\* A request that ends without an answer leaves the client what it had.
LEMMA IdleKeeps ==
    ASSUME Inv, reader' = Idle, UNCHANGED <<scenario, cursor, scan>>
    PROVE  Inv'
  BY DEF Inv, CursorOK, ReaderOK, Shaped, Busy, Opened, Chosen, NothingNewer, AudienceOK,
         Private, Actor, SessionAccount, Unread, NoCursor, Start, Idle

LEMMA RequestStep ==
    ASSUME Inv, NEW token, NEW limit, Request(token, limit)
    PROVE  Inv'
  <1> DEFINE viewer == SessionAccount(db, token)
             R == [Idle EXCEPT !.pc = "opened", !.token = token, !.viewer = viewer, !.limit = limit,
                               !.ceiling = CeilingOf(cursor), !.position = cursor.position]
  <1>1. CASE ~Accepted(viewer)
    BY <1>1, WritesKeep DEF Request
  <1>2. CASE Accepted(viewer)
    <2>1. reader' = R /\ UNCHANGED <<scenario, cursor, scan>> /\ ~scan.ended
      BY <1>2 DEF Request
    <2>2. Shaped(R) /\ R.pc = "opened" /\ R.viewer = viewer /\ R.ceiling = CeilingOf(cursor)
      <3>1. R = [Idle EXCEPT !.pc = "opened", !.token = token, !.viewer = viewer, !.limit = limit,
                             !.ceiling = CeilingOf(cursor), !.position = cursor.position]
        OBVIOUS
      <3> HIDE DEF viewer, R
      <3>2. R.pc = "opened" /\ R.viewer = viewer /\ R.ceiling = CeilingOf(cursor)
        BY <3>1 DEF Idle
      <3>3. Shaped(R)
        BY <3>1 DEF Idle, Shaped
      <3> QED
        BY <3>2, <3>3
    <2>3. /\ Private => viewer # NoViewer
          /\ cursor # NoCursor /\ Private => cursor.bound = viewer
      BY <1>2, PrivateBound DEF Accepted, Inv
    <2>4. /\ cursor # NoCursor => CeilingOf(cursor) = cursor.ceiling
          /\ scenario.scope = "jobs" => CeilingOf(cursor) = scenario.maxTime
      BY DEF CeilingOf, Inv, CursorOK
    <2>5. ReaderOK'
      <3> HIDE DEF viewer, R
      <3> QED
        BY <2>1, <2>2, <2>3, <2>4 DEF ReaderOK, Shaped, Busy, Opened, Chosen, Private
    <2> QED
      BY <2>1, <2>5 DEF Inv, CursorOK, NothingNewer, AudienceOK, Private, Actor
  <1> QED
    BY <1>1, <1>2

LEMMA TakeCeilingStep ==
    ASSUME Inv, TakeCeiling
    PROVE  Inv'
  <1>1. reader' = [reader EXCEPT !.ceiling = now] /\ UNCHANGED <<scenario, cursor, scan>>
    BY DEF TakeCeiling
  <1>2. reader.pc \in {"opened", "reading"} /\ reader.ceiling = 0
    BY DEF TakeCeiling
  <1>3. cursor = NoCursor /\ scenario.scope # "jobs"
    BY <1>2, ScenarioAssumption DEF Inv, CursorOK, ReaderOK, Busy
  <1>4. ReaderOK'
    BY <1>1, <1>2, <1>3 DEF Inv, ReaderOK, Shaped, Busy, Opened, Chosen, Private, SessionAccount
  <1> QED
    BY <1>1, <1>4 DEF Inv, CursorOK, NothingNewer, AudienceOK, Private, Actor

LEMMA OpenSnapshotStep ==
    ASSUME Inv, OpenSnapshot
    PROVE  Inv'
  <1>1. CASE ~Found(db)
    BY <1>1, IdleKeeps DEF OpenSnapshot
  <1>2. CASE Found(db)
    <2> DEFINE total == Cardinality(Listed(db, reader.viewer))
    <2>1. /\ reader' = [reader EXCEPT !.pc = "reading", !.snap = db, !.total = total]
          /\ UNCHANGED <<scenario, cursor, scan>>
      BY <1>2 DEF OpenSnapshot
    <2>2. Private => SessionAccount(db, reader.token) = reader.viewer
      BY <1>2 DEF Found
    <2>3. reader.pc = "opened"
      BY DEF OpenSnapshot
    <2>4. ReaderOK'
      <3> HIDE DEF total
      <3> QED
        BY <2>1, <2>2, <2>3 DEF Inv, ReaderOK, Shaped, Busy, Opened, Chosen, Private, SessionAccount
    <2> QED
      BY <2>1, <2>4 DEF Inv, CursorOK, NothingNewer, AudienceOK, Private, Actor
  <1> QED
    BY <1>1, <1>2

LEMMA SelectStep ==
    ASSUME Inv, Select
    PROVE  Inv'
  <1> DEFINE d == Instant
             S == Remaining(d, reader.viewer, reader.ceiling, reader.position)
             page == {Event(d, r) : r \in FirstOf(d, S, reader.limit)}
             next == NextPosition(d, S, reader.limit)
  <1>1. /\ reader' = [reader EXCEPT !.pc = "selected", !.page = page, !.next = next]
        /\ UNCHANGED <<scenario, cursor, scan>>
        /\ reader.pc = "reading" /\ reader.ceiling # 0
    BY DEF Select
  <1>2. \A e \in page : /\ e.key[2] <= reader.ceiling
                        /\ scenario.scope = "bookmarks" => Actor(e.row) = reader.viewer
    <2> SUFFICES ASSUME NEW r \in FirstOf(d, S, reader.limit)
                 PROVE  /\ Event(d, r).key[2] <= reader.ceiling
                        /\ scenario.scope = "bookmarks" => Actor(Event(d, r).row) = reader.viewer
      OBVIOUS
    <2>1. Event(d, r).key = Key(d, r) /\ Event(d, r).row = r
      BY DEF Event
    <2> QED
      BY <2>1, SelectedRows
  <1>3. ReaderOK'
    <2> HIDE DEF page, next
    <2> QED
      BY <1>1, <1>2 DEF Inv, ReaderOK, Shaped, Busy, Opened, Chosen, Private, Actor, SessionAccount
  <1> QED
    BY <1>1, <1>3 DEF Inv, CursorOK, NothingNewer, AudienceOK, Private, Actor

LEMMA HydrateStep ==
    ASSUME Inv, Hydrate
    PROVE  Inv'
  <1>1. PICK posts : reader' = [reader EXCEPT !.pc = "hydrated", !.posts = posts]
    BY DEF Hydrate
  <1>2. reader.pc = "selected" /\ UNCHANGED <<scenario, cursor, scan>>
    BY DEF Hydrate
  <1>3. ReaderOK'
    BY <1>1, <1>2 DEF Inv, ReaderOK, Shaped, Busy, Opened, Chosen, Private, Actor, SessionAccount
  <1> QED
    BY <1>2, <1>3 DEF Inv, CursorOK, NothingNewer, AudienceOK, Private, Actor

\* The answer: the only step that adds to what was read.
LEMMA AnswerStep ==
    ASSUME Inv, Answer
    PROVE  Inv'
  <1> DEFINE ceiling == IF scan = Unread THEN reader.ceiling ELSE scan.ceiling
             v == SessionAccount(reader.snap, reader.token)
  <1>1. PICK kept, seen :
          scan' = [delivered |-> scan.delivered \cup reader.page, kept |-> kept, seen |-> seen,
                   ceiling |-> ceiling, audience |-> scan.audience \cup {v},
                   ended |-> reader.next = Start]
    BY DEF Answer
  <1>2. /\ cursor' = Continuation(reader) /\ reader' = Idle /\ scenario' = scenario
        /\ reader.pc = "hydrated"
    BY DEF Answer
  <1>3. Busy /\ Opened /\ Chosen /\ ~scan.ended
    BY <1>2 DEF Busy, Opened, Chosen, Inv, ReaderOK
  <1>4. ceiling = reader.ceiling /\ reader.ceiling # 0
    BY <1>3 DEF Inv, CursorOK, ReaderOK
  <1>5. Private => /\ v = reader.viewer /\ v # NoViewer
                   /\ scan.audience \subseteq {v}
    <2>1. scan = Unread => scan.audience = {}
      BY DEF Unread
    <2> QED
      BY <1>3, <2>1 DEF Inv, CursorOK, ReaderOK
  <1>6. ReaderOK'
    BY <1>2 DEF ReaderOK, Shaped, Busy, Opened, Chosen, Idle
  <1>7. NothingNewer'
    <2>1. \A e \in scan.delivered : scan # Unread
      BY DEF Unread
    <2> HIDE DEF ceiling, v
    <2>2. \A e \in scan.delivered : e.key[2] <= ceiling
      BY <2>1, <1>4 DEF Inv, NothingNewer, ceiling
    <2>3. \A e \in reader.page : e.key[2] <= ceiling
      BY <1>3, <1>4 DEF Inv, ReaderOK
    <2> QED
      BY <1>1, <2>2, <2>3 DEF NothingNewer
  <1>8. AudienceOK'
    <2> SUFFICES ASSUME Private
                 PROVE  /\ NoViewer \notin scan'.audience
                        /\ \E u \in scan'.audience \cup {NoViewer} : scan'.audience \subseteq {u}
                        /\ scenario.scope = "bookmarks" =>
                               {Actor(e.row) : e \in scan'.delivered} \subseteq scan'.audience
      BY <1>2 DEF AudienceOK, Private, Actor
    <2> HIDE DEF ceiling, v
    <2>1. scan'.audience = {v} /\ scan'.delivered = scan.delivered \cup reader.page
      BY <1>1, <1>5
    <2>2. scenario.scope = "bookmarks" => \A e \in scan.delivered : Actor(e.row) \in {v}
      BY <1>5 DEF Inv, AudienceOK
    <2>3. scenario.scope = "bookmarks" => \A e \in reader.page : Actor(e.row) = v
      BY <1>3, <1>5 DEF Inv, ReaderOK
    <2> QED
      BY <1>5, <2>1, <2>2, <2>3
  <1>9. CursorOK'
    <2> HIDE DEF ceiling, v
    <2>1. scan' # Unread
      <3>1. v \in scan'.audience
        BY <1>1
      <3> QED
        BY <3>1 DEF Unread
    <2>2. CASE reader.next = Start
      BY <1>1, <1>2, <2>1, <2>2 DEF CursorOK, Continuation
    <2>3. CASE reader.next # Start
      <3>1. cursor' = [bound |-> BoundTo(reader.viewer), ceiling |-> reader.ceiling, position |-> reader.next]
        BY <1>2, <2>3 DEF Continuation
      <3>2. cursor' # NoCursor
        BY <3>1, <2>3 DEF NoCursor
      <3>3. scan'.ceiling = reader.ceiling
        BY <1>1, <1>4
      <3>4. Private => scan'.audience = {cursor'.bound}
        BY <1>1, <1>5, <3>1, PrivateBound DEF Inv
      <3>5. scenario.scope = "jobs" => reader.ceiling = scenario.maxTime
        BY <1>3 DEF Inv, ReaderOK
      <3> QED
        BY <1>2, <1>4, <2>1, <3>1, <3>2, <3>3, <3>4, <3>5 DEF CursorOK, Private
    <2> QED
      BY <2>2, <2>3
  <1> QED
    BY <1>2, <1>6, <1>7, <1>8, <1>9 DEF Inv

LEMMA StartOverStep ==
    ASSUME Inv, StartOver
    PROVE  Inv'
  BY DEF StartOver, Inv, CursorOK, ReaderOK, Shaped, Busy, Opened, Chosen, NothingNewer, AudienceOK,
         Unread, NoCursor, Private

LEMMA NextInv ==
    ASSUME Inv, [Next]_vars
    PROVE  Inv'
  <1>1. ASSUME NEW r \in Rows, Insert(r) \/ Remove(r) \/ SetReaction(r) \/ MoveJob(r) PROVE Inv'
    BY <1>1, WritesKeep DEF Insert, Remove, SetReaction, MoveJob, Write
  <1>2. ASSUME NEW p \in pending, Commit(p) \/ Rollback(p) PROVE Inv'
    BY <1>2, WritesKeep DEF Commit, Rollback
  <1>3. ASSUME NEW v, NEW a, SetFollow(v, a) \/ SwitchSession(v) \/ DisableAccount(a) PROVE Inv'
    BY <1>3, WritesKeep DEF SetFollow, SwitchSession, DisableAccount, Write
  <1>4. CASE Tick \/ UNCHANGED vars
    BY <1>4, WritesKeep DEF Tick, vars
  <1>5. CASE Lose
    BY <1>5, IdleKeeps DEF Lose
  <1> QED
    BY <1>1, <1>2, <1>3, <1>4, <1>5, RequestStep, TakeCeilingStep, OpenSnapshotStep, SelectStep,
       HydrateStep, AnswerStep, StartOverStep
       DEF Next

-----------------------------------------------------------------------------

\* The ceiling of the first page holds for all that follow it, whichever answers
\* are lost and however late rows are committed (listFeed, ListReplies,
\* ListBookmarks, searchPosts).
THEOREM ReadsNothingNewer == Spec => []NothingNewer
  <1>1. Inv => NothingNewer
    BY DEF Inv
  <1> QED
    BY InitInv, NextInv, <1>1, PTL DEF Spec

\* A private listing is read to one person, who was signed in at each page
\* (ListFeed, ListBookmarks and what their cursors are bound to).
THEOREM ReadsOneAudience == Spec => []OneAudience
  <1>1. Inv => OneAudience
    <2> SUFFICES ASSUME Inv, Private
                 PROVE  /\ Cardinality(scan.audience) <= 1
                        /\ NoViewer \notin scan.audience
                        /\ scenario.scope = "bookmarks" =>
                               {Actor(e.row) : e \in scan.delivered} \subseteq scan.audience
      BY DEF OneAudience
    <2>1. PICK v : scan.audience \subseteq {v}
      BY DEF Inv, AudienceOK
    <2>2. scan.audience = {} \/ scan.audience = {v}
      BY <2>1
    <2>3. Cardinality({}) = 0 /\ Cardinality({v}) = 1
      BY FS_EmptySet, FS_Singleton
    <2> QED
      BY <2>2, <2>3 DEF Inv, AudienceOK
  <1> QED
    BY InitInv, NextInv, <1>1, PTL DEF Spec

-----------------------------------------------------------------------------
(* What the pages say of the rows needs more: how instants are given out,   *)
(* what a snapshot and what was read are to the rows of now, and what a     *)
(* page is to its cursor.                                                   *)

\* Rows that take one lock carry different instants.
InstantsApart(since) ==
    \A q, r \in Rows : q # r /\ Locks(q) \cap Locks(r) # {} /\ since[q] # 0 => since[q] # since[r]

\* What is committed is no newer than the clock, and what is pending will be
\* newer than whatever has taken a lock of it before.
WritesOK ==
    /\ InstantsApart(db.since)
    /\ \A r \in Rows : db.since[r] <= now
    /\ \A p \in pending :
           /\ p.at # 0 /\ p.at <= now /\ db.since[p.row] = 0
           /\ \A q \in Rows : Locks(q) \cap Locks(p.row) # {} => db.since[q] < p.at
    /\ \A o, p \in pending : o # p => o.row # p.row /\ Locks(o.row) \cap Locks(p.row) = {}

\* Row r was seen with instant t: it keeps it, or was a bookmark that was taken
\* away and can come back only later.
Seen(r, t) ==
    /\ t <= now
    /\ \A p \in pending : p.row = r => t <= p.at
    /\ db.since[r] # 0 => t <= db.since[r]
    /\ Table(r) # "bookmark" => db.since[r] = t

SnapshotOK ==
    Opened =>
        /\ \A r \in Rows : reader.snap.since[r] # 0 => Seen(r, reader.snap.since[r])
        /\ InstantsApart(reader.snap.since)
        /\ reader.snap.deleted \subseteq db.deleted
        /\ reader.total = Cardinality(Listed(reader.snap, reader.viewer))
        /\ scenario.scope = "replies" => Visible(reader.snap, scenario.target)

\* What a page is to its cursor: rows of the snapshot after the position, and all
\* of them up to the position it ends with, which is that of its last row.
Paged ==
    /\ \A e \in reader.page :
           /\ e.row \in Listed(reader.snap, reader.viewer)
           /\ e = Event(reader.snap, e.row)
           /\ After(e.key, reader.position)
    /\ \A r \in Listed(reader.snap, reader.viewer) :
           /\ reader.snap.since[r] <= reader.ceiling
           /\ After(Key(reader.snap, r), reader.position)
           => \/ Event(reader.snap, r) \in reader.page
              \/ reader.next # Start /\ Precedes(reader.next, Key(reader.snap, r))
    /\ reader.next # Start =>
           \E e \in reader.page :
               e.key = reader.next /\ \A f \in reader.page : f = e \/ Precedes(f.key, reader.next)
    /\ Cardinality(reader.page) <= reader.total

PageOK ==
    /\ Busy =>
           /\ reader.position = cursor.position
           /\ reader.limit \in Nat \ {0}
           /\ reader.viewer \in Viewers \cup {NoViewer}
    /\ ~Chosen => reader.page = {}
    /\ Chosen => Paged
    /\ reader.pc = "hydrated" =>
           \A e \in reader.page : Counted(reader.snap, PostOf(e.row)) \in reader.posts

\* The parts of a key that nothing changes.
Placed(e) ==
    /\ scenario.sort # "reacted" => e.key[1] = 0
    /\ e.key[3] = IF Table(e.row) = "repost" THEN 1 ELSE 0
    /\ e.key[4] = IF Table(e.row) = "bookmark" THEN PostOf(e.row) ELSE e.row

\* An event was read before the row in the snapshot, or is that row.
Earlier(e, d) ==
    d.since[e.row] # 0 =>
        /\ e.key[2] <= d.since[e.row]
        /\ Table(e.row) # "bookmark" => e.key[2] = d.since[e.row]

\* What was read ends at the position of the cursor.
DeliveredOK ==
    /\ scan.delivered # {} /\ ~scan.ended => cursor.position # Start
    /\ \A e \in scan.delivered :
           /\ Placed(e) /\ e.key[2] # 0 /\ Seen(e.row, e.key[2])
           /\ Opened => Earlier(e, reader.snap)
           /\ cursor.position # Start => e.key = cursor.position \/ Precedes(e.key, cursor.position)

\* All replies up to the cursor have been read.
CompleteIn(d) ==
    cursor.position # Start =>
        \A r \in Replies :
            Visible(d, r) /\ ~Precedes(cursor.position, Key(d, r)) => Event(d, r) \in scan.delivered

\* Replies that are committed after a snapshot are newer than all in it.
RepliesOK ==
    scenario.sort = "oldest" =>
        /\ cursor.position # Start =>
               \E r \in Replies : db.since[r] # 0 /\ cursor.position = Key(db, r)
        /\ CompleteIn(db)
        /\ Opened =>
               /\ CompleteIn(reader.snap)
               /\ \A r \in Replies : db.since[r] # reader.snap.since[r] =>
                      reader.snap.since[r] = 0 /\ \A q \in Replies : reader.snap.since[q] < db.since[r]

\* What the writers change, and what the client and its request hold.
WritersTyped ==
    /\ now \in Times \ {0}
    /\ db \in Database
    /\ pending \subseteq [row : Rows, at : Times]
    /\ writes \in 0 .. scenario.maxWrites

ReaderTyped ==
    /\ reader.pc \in {"idle", "opened", "reading", "selected", "hydrated"}
    /\ Opened => reader.snap \in Database
    /\ reader.page \subseteq Events /\ reader.next \in Keys \cup {Start}
    /\ reader.ceiling \in Times /\ reader.position \in Keys \cup {Start}
    /\ cursor \in [bound : Viewers \cup {NoViewer}, ceiling : Times, position : Keys \cup {Start}]
    /\ scan.delivered \subseteq Events /\ scan.kept \subseteq Events /\ scan.seen \subseteq Events

PagesInv ==
    /\ Inv /\ WritersTyped /\ ReaderTyped
    /\ WritesOK /\ SnapshotOK /\ PageOK
    /\ DeliveredOK /\ RepliesOK
    /\ NothingSkipped /\ RepliesComplete

-----------------------------------------------------------------------------
(* A listing is a line of rows: keys are in a total order, and a listing is *)
(* finite, so that it has a first row and a last one.                       *)

\* A strict total order R on the elements of T.
Line(T, R) ==
    /\ \A x, y \in T : x # y => <<x, y>> \in R \/ <<y, x>> \in R
    /\ \A x, y, z \in T : <<x, y>> \in R /\ <<y, z>> \in R => <<x, z>> \in R
    /\ \A x \in T : <<x, x>> \notin R

LEMMA FirstExists ==
    ASSUME NEW T, IsFiniteSet(T), T # {}, NEW R, Line(T, R)
    PROVE  \E x \in T : \A y \in T \ {x} : <<x, y>> \in R
  <1> DEFINE Below(x) == {y \in T : <<y, x>> \in R}
             Lower == {Below(x) : x \in T}
  <1>1. Lower \subseteq FiniteSubsetsOf(T) /\ Lower # {}
    <2>1. \A x \in T : Below(x) \in SUBSET T
      OBVIOUS
    <2>2. \A x \in T : IsFiniteSet(Below(x))
      BY <2>1, FS_Subset
    <2> QED
      BY <2>1, <2>2 DEF FiniteSubsetsOf
  <1>2. IsWellFoundedOn(StrictSubsetOrdering(T), FiniteSubsetsOf(T))
    BY FS_StrictSubsetOrderingWellFounded
  <1>3. PICK B \in Lower : \A C \in Lower : <<C, B>> \notin StrictSubsetOrdering(T)
    <2> HIDE DEF Lower
    <2> QED
      BY <1>1, <1>2, WFMin
  <1>4. PICK x \in T : B = Below(x)
    OBVIOUS
  <1>5. ASSUME NEW y \in T, <<y, x>> \in R PROVE FALSE
    <2>1. Below(y) \subseteq Below(x)
      BY <1>5 DEF Line
    <2>2. y \in Below(x) /\ y \notin Below(y)
      BY <1>5 DEF Line
    <2>3. Below(y) \in SUBSET T /\ Below(x) \in SUBSET T /\ Below(y) # Below(x)
      BY <2>2
    <2>4. <<Below(y), Below(x)>> \in StrictSubsetOrdering(T)
      <3> HIDE DEF Below
      <3> QED
        BY <2>1, <2>3 DEF StrictSubsetOrdering
    <2>5. Below(y) \in Lower
      OBVIOUS
    <2> QED
      BY <1>3, <1>4, <2>4, <2>5
  <1> QED
    BY <1>5 DEF Line

LEMMA LastExists ==
    ASSUME NEW T, IsFiniteSet(T), T # {}, NEW R, Line(T, R)
    PROVE  \E x \in T : \A y \in T \ {x} : <<y, x>> \in R
  <1> DEFINE Converse == {p \in T \X T : <<p[2], p[1]>> \in R}
  <1>1. \A x, y \in T : <<x, y>> \in Converse <=> <<y, x>> \in R
    OBVIOUS
  <1> HIDE DEF Converse
  <1>2. Line(T, Converse)
    BY <1>1 DEF Line
  <1> QED
    BY <1>1, <1>2, FirstExists

\* Comparing rows of SQL.
Quads == Int \X Int \X Int \X Int

LEMMA LessMeans ==
    ASSUME NEW k \in Quads, NEW l \in Quads
    PROVE  Less(k, l) <=> \/ k[1] < l[1]
                          \/ k[1] = l[1] /\ k[2] < l[2]
                          \/ k[1] = l[1] /\ k[2] = l[2] /\ k[3] < l[3]
                          \/ k[1] = l[1] /\ k[2] = l[2] /\ k[3] = l[3] /\ k[4] < l[4]
  <1>1. 1..0 = {} /\ 1..1 = {1} /\ 1..2 = {1, 2} /\ 1..3 = {1, 2, 3} /\ 1..4 = {1, 2, 3, 4}
    OBVIOUS
  <1>2. Less(k, l) <=> \/ k[1] < l[1] /\ \A j \in 1..0 : k[j] = l[j]
                       \/ k[2] < l[2] /\ \A j \in 1..1 : k[j] = l[j]
                       \/ k[3] < l[3] /\ \A j \in 1..2 : k[j] = l[j]
                       \/ k[4] < l[4] /\ \A j \in 1..3 : k[j] = l[j]
    <2>1. 1 - 1 = 0 /\ 2 - 1 = 1 /\ 3 - 1 = 2 /\ 4 - 1 = 3
      OBVIOUS
    <2> QED
      BY <1>1, <2>1 DEF Less
  <1> QED
    BY <1>1, <1>2

LEMMA LessOrders ==
    ASSUME NEW k \in Quads, NEW l \in Quads, NEW m \in Quads
    PROVE  /\ ~Less(k, k)
           /\ Less(k, l) /\ Less(l, m) => Less(k, m)
           /\ k # l => Less(k, l) \/ Less(l, k)
  <1>1. /\ k[1] \in Int /\ k[2] \in Int /\ k[3] \in Int /\ k[4] \in Int
        /\ l[1] \in Int /\ l[2] \in Int /\ l[3] \in Int /\ l[4] \in Int
        /\ m[1] \in Int /\ m[2] \in Int /\ m[3] \in Int /\ m[4] \in Int
    BY DEF Quads
  <1>2. k = <<k[1], k[2], k[3], k[4]>> /\ l = <<l[1], l[2], l[3], l[4]>>
    BY DEF Quads
  <1>3. ~Less(k, k)
    BY <1>1, LessMeans
  <1>4. Less(k, l) /\ Less(l, m) => Less(k, m)
    BY <1>1, LessMeans
  <1>5. k # l => k[1] # l[1] \/ k[2] # l[2] \/ k[3] # l[3] \/ k[4] # l[4]
    BY <1>2
  <1>6. k # l => Less(k, l) \/ Less(l, k)
    BY <1>1, <1>5, LessMeans
  <1> QED
    BY <1>3, <1>4, <1>6

LEMMA PrecedesOrders ==
    ASSUME NEW k \in Quads, NEW l \in Quads, NEW m \in Quads
    PROVE  /\ ~Precedes(k, k)
           /\ Precedes(k, l) /\ Precedes(l, m) => Precedes(k, m)
           /\ k # l => Precedes(k, l) \/ Precedes(l, k)
  <1>1. CASE scenario.sort = "oldest"
    BY <1>1, LessOrders DEF Precedes
  <1>2. CASE scenario.sort # "oldest"
    BY <1>2, LessOrders DEF Precedes
  <1> QED
    BY <1>1, <1>2

LEMMA Elements ==
    ASSUME NEW S, NEW q \in Seq(S)
    PROVE  /\ Len(q) \in Nat /\ DOMAIN q = 1 .. Len(q)
           /\ \A i \in DOMAIN q : q[i] \in S
           /\ q # <<>> => DOMAIN q # {}
  OBVIOUS

\* The rows of a scenario are finitely many, with numbers for IDs.
LEMMA RowFields ==
    ASSUME scenario \in Scenarios
    PROVE  /\ Rows \subseteq Nat \ {0} /\ IsFiniteSet(Rows) /\ Rows # {}
           /\ scenario.maxTime \in Nat \ {0} /\ scenario.startTime \in Times \ {0}
           /\ \A r \in Rows : /\ Table(r) \in Tables /\ PostOf(r) \in Rows /\ Actor(r) \in Nat
                              /\ Table(r) \in {"post", "job"} => PostOf(r) = r
  <1> DEFINE Row == [table : Tables, post : Nat, actor : Nat, topical : BOOLEAN]
             rows == scenario.rows
  <1>1. /\ rows \in Seq(Row)
        /\ rows # <<>>
        /\ \A r \in DOMAIN rows : /\ rows[r].post \in DOMAIN rows
                                  /\ rows[r].table \in {"post", "job"} => rows[r].post = r
    BY ScenarioAssumption
  <1>2. scenario.startTime \in Nat \ {0} /\ scenario.maxTime \in Nat \ {0} /\ scenario.startTime <= scenario.maxTime
    BY ScenarioAssumption
  <1>3. \A row \in Row : row.table \in Tables /\ row.actor \in Nat
    OBVIOUS
  <1> HIDE DEF Row
  <1>4. /\ Len(rows) \in Nat /\ DOMAIN rows = 1 .. Len(rows)
        /\ \A i \in DOMAIN rows : rows[i] \in Row
        /\ DOMAIN rows # {}
    <2> HIDE DEF rows
    <2> QED
      BY <1>1, Elements
  <1>5. Rows = DOMAIN rows
    BY DEF Rows
  <1> HIDE DEF rows
  <1>6. IsFiniteSet(Rows) /\ Rows \subseteq Nat \ {0}
    <2>1. \A n \in Nat : 1 .. n \subseteq Nat \ {0}
      OBVIOUS
    <2>2. \A n \in Nat : IsFiniteSet(1 .. n)
      BY FS_Interval
    <2> QED
      BY <1>4, <1>5, <2>1, <2>2
  <1>7. \A r \in Rows : Table(r) = rows[r].table /\ PostOf(r) = rows[r].post /\ Actor(r) = rows[r].actor
    BY DEF Table, PostOf, Actor, rows
  <1>8. scenario.startTime \in Times \ {0}
    BY <1>2 DEF Times
  <1> QED
    BY <1>1, <1>2, <1>3, <1>4, <1>5, <1>6, <1>7, <1>8

LEMMA KeyTyped ==
    ASSUME scenario \in Scenarios, NEW d \in Database, NEW r \in Rows
    PROVE  Key(d, r) \in Keys /\ Key(d, r) \in Quads
  <1>1. PostOf(r) \in Rows /\ d.score[PostOf(r)] \in 0..1 /\ d.since[r] \in Times
    BY RowFields DEF Database
  <1>2. Key(d, r) \in Keys
    BY <1>1 DEF Key, Keys
  <1> QED
    BY <1>2, RowFields DEF Keys, Quads, Times

-----------------------------------------------------------------------------
(* Listings and what is selected of them. *)

\* Which rows a listing has.
LEMMA ListedRows ==
    ASSUME scenario \in Scenarios, NEW d \in Database, NEW v, NEW r \in Listed(d, v)
    PROVE  /\ r \in Rows /\ Visible(d, r)
           /\ scenario.scope = "bookmarks" => Table(r) = "bookmark" /\ Actor(r) = v
           /\ scenario.scope # "bookmarks" => Table(r) # "bookmark"
           /\ scenario.scope = "replies" => r \in Replies
           /\ scenario.scope # "replies" => Visible(d, PostOf(r))
  <1>1. Visible(d, r)
    BY DEF Listed
  <1>2. CASE scenario.scope = "feed"
    BY <1>1, <1>2 DEF Listed, FeedEvents
  <1>3. CASE scenario.scope = "account-feed"
    BY <1>1, <1>3 DEF Listed, AccountEvents
  <1>4. CASE scenario.scope = "replies"
    BY <1>1, <1>4 DEF Listed, Replies
  <1>5. CASE scenario.scope = "bookmarks"
    BY <1>1, <1>5 DEF Listed, Bookmarks
  <1>6. CASE scenario.scope = "search"
    <2>1. r \in Matches
      BY <1>6 DEF Listed
    <2> QED
      BY <1>1, <1>6, <2>1, RowFields DEF Matches
  <1>7. CASE scenario.scope = "jobs"
    <2>1. r \in Rows /\ Table(r) = "job"
      BY <1>7 DEF Listed, Jobs, Database
    <2> QED
      BY <1>1, <1>7, <2>1, RowFields
  <1> QED
    BY <1>2, <1>3, <1>4, <1>5, <1>6, <1>7, ScenarioAssumption DEF Scopes

\* Two rows of a listing never have one key: only keys of bookmarks leave the ID
\* out, and those of one person have their instants under the person's lock.
LEMMA KeysDiffer ==
    ASSUME scenario \in Scenarios, NEW d \in Database, InstantsApart(d.since),
           NEW v, NEW q \in Listed(d, v), NEW r \in Listed(d, v), q # r
    PROVE  Key(d, q) # Key(d, r)
  <1>1. q \in Rows /\ r \in Rows /\ d.since[q] # 0
    BY ListedRows DEF Visible
  <1>2. CASE scenario.scope = "bookmarks"
    <2>1. Table(q) = "bookmark" /\ Table(r) = "bookmark" /\ Actor(q) = Actor(r)
      BY <1>2, ListedRows
    <2>2. <<"account", Actor(q)>> \in Locks(q) \cap Locks(r)
      BY <2>1 DEF Locks
    <2>3. d.since[q] # d.since[r]
      BY <1>1, <2>2 DEF InstantsApart
    <2>4. Key(d, q)[2] = d.since[q] /\ Key(d, r)[2] = d.since[r]
      BY DEF Key
    <2> QED
      BY <2>3, <2>4
  <1>3. CASE scenario.scope # "bookmarks"
    <2>1. Table(q) # "bookmark" /\ Table(r) # "bookmark"
      BY <1>3, ListedRows
    <2>2. Key(d, q)[4] = q /\ Key(d, r)[4] = r
      BY <2>1 DEF Key
    <2> QED
      BY <2>2
  <1> QED
    BY <1>2, <1>3

Before(d, S) == {p \in S \X S : Precedes(Key(d, p[1]), Key(d, p[2]))}

LEMMA ListingLine ==
    ASSUME scenario \in Scenarios, NEW d \in Database, InstantsApart(d.since),
           NEW v, NEW S \in SUBSET Listed(d, v)
    PROVE  /\ IsFiniteSet(S)
           /\ Line(S, Before(d, S))
           /\ \A q, r \in S : <<q, r>> \in Before(d, S) <=> Precedes(Key(d, q), Key(d, r))
  <1>1. S \subseteq Rows /\ IsFiniteSet(S)
    <2>1. S \subseteq Rows
      BY ListedRows
    <2> QED
      BY <2>1, RowFields, FS_Subset
  <1>2. \A q, r \in S : <<q, r>> \in Before(d, S) <=> Precedes(Key(d, q), Key(d, r))
    BY DEF Before
  <1>3. \A q \in S : Key(d, q) \in Quads
    BY <1>1, KeyTyped
  <1>4. \A q, r \in S : q # r => Key(d, q) # Key(d, r)
    BY KeysDiffer
  <1>5. \A q, r \in S : q # r => <<q, r>> \in Before(d, S) \/ <<r, q>> \in Before(d, S)
    BY <1>2, <1>3, <1>4, PrecedesOrders
  <1>6. \A q, r, s \in S : <<q, r>> \in Before(d, S) /\ <<r, s>> \in Before(d, S) => <<q, s>> \in Before(d, S)
    <2> SUFFICES ASSUME NEW q \in S, NEW r \in S, NEW s \in S,
                        Precedes(Key(d, q), Key(d, r)), Precedes(Key(d, r), Key(d, s))
                 PROVE  Precedes(Key(d, q), Key(d, s))
      BY <1>2
    <2> QED
      BY <1>3, PrecedesOrders
  <1>7. \A q \in S : <<q, q>> \notin Before(d, S)
    BY <1>2, <1>3, PrecedesOrders
  <1> QED
    BY <1>1, <1>2, <1>5, <1>6, <1>7 DEF Line

\* ORDER BY ... LIMIT n: a beginning of the listing, the whole of it if it is
\* short enough.
LEMMA FirstRows ==
    ASSUME scenario \in Scenarios, NEW d \in Database, InstantsApart(d.since),
           NEW v, NEW S \in SUBSET Listed(d, v), NEW n \in Nat \ {0}
    PROVE  /\ FirstOf(d, S, n) \subseteq S
           /\ Cardinality(S) <= n => FirstOf(d, S, n) = S
           /\ S # {} => FirstOf(d, S, n) # {}
           /\ \A q \in FirstOf(d, S, n), r \in S \ FirstOf(d, S, n) : Precedes(Key(d, q), Key(d, r))
  <1> DEFINE Above(r) == {q \in S : Precedes(Key(d, q), Key(d, r))}
  <1>1. /\ IsFiniteSet(S) /\ Line(S, Before(d, S))
        /\ \A q, r \in S : <<q, r>> \in Before(d, S) <=> Precedes(Key(d, q), Key(d, r))
    BY ListingLine
  <1>2. \A r : r \in FirstOf(d, S, n) <=> r \in S /\ Cardinality(Above(r)) < n
    BY DEF FirstOf
  <1>3. \A r : Above(r) \in SUBSET S
    OBVIOUS
  <1>4. \A r \in S : r \notin Above(r)
    BY <1>1 DEF Line
  <1>5. \A q, r \in S : q \in Above(r) => Above(q) \subseteq Above(r)
    <2> SUFFICES ASSUME NEW q \in S, NEW r \in S, NEW s \in S,
                        Precedes(Key(d, q), Key(d, r)), Precedes(Key(d, s), Key(d, q))
                 PROVE  Precedes(Key(d, s), Key(d, r))
      OBVIOUS
    <2> QED
      BY <1>1 DEF Line
  <1>6. \A q, r \in S : q \in Above(r) \/ r \in Above(q) \/ q = r
    BY <1>1 DEF Line
  <1>7. \A r : IsFiniteSet(Above(r)) /\ Cardinality(Above(r)) \in Nat /\ Cardinality(Above(r)) <= Cardinality(S)
    BY <1>1, <1>3, FS_Subset, FS_CardinalityType
  <1>8. Cardinality(S) \in Nat
    BY <1>1, FS_CardinalityType
  <1>9. S # {} => \E x \in S : Above(x) = {}
    <2> SUFFICES ASSUME S # {} PROVE \E x \in S : Above(x) = {}
      OBVIOUS
    <2>1. PICK x \in S : \A y \in S \ {x} : <<x, y>> \in Before(d, S)
      BY <1>1, FirstExists
    <2>2. ASSUME NEW y \in Above(x) PROVE FALSE
      <3>1. y \in S /\ y # x /\ <<y, x>> \in Before(d, S) /\ <<x, y>> \in Before(d, S)
        BY <1>1, <1>4, <2>1, <2>2
      <3> QED
        BY <1>1, <3>1 DEF Line
    <2> QED
      BY <2>2
  <1> HIDE DEF Above
  <1>10. FirstOf(d, S, n) \subseteq S
    BY <1>2
  <1>11. Cardinality(S) <= n => FirstOf(d, S, n) = S
    <2> SUFFICES ASSUME Cardinality(S) <= n, NEW r \in S PROVE Cardinality(Above(r)) < n
      BY <1>2
    <2>1. Above(r) # S
      BY <1>4
    <2>2. Cardinality(Above(r)) # Cardinality(S)
      BY <1>1, <1>3, <2>1, FS_Subset
    <2> QED
      BY <1>7, <1>8, <2>2
  <1>12. S # {} => FirstOf(d, S, n) # {}
    <2> SUFFICES ASSUME NEW x \in S, Above(x) = {} PROVE Cardinality(Above(x)) < n
      BY <1>2, <1>9
    <2> QED
      BY FS_EmptySet
  <1>13. ASSUME NEW q \in FirstOf(d, S, n), NEW r \in S \ FirstOf(d, S, n)
         PROVE  Precedes(Key(d, q), Key(d, r))
    <2>1. q \in S /\ r \in S /\ Cardinality(Above(q)) < n /\ ~(Cardinality(Above(r)) < n)
      BY <1>2
    <2>2. ASSUME r \in Above(q) PROVE FALSE
      <3>1. Above(r) \in SUBSET Above(q)
        BY <1>5, <2>1, <2>2
      <3>2. Cardinality(Above(r)) <= Cardinality(Above(q))
        BY <1>7, <3>1, FS_Subset
      <3> QED
        BY <1>7, <2>1, <3>2
    <2>3. q \in Above(r)
      BY <1>6, <2>1, <2>2
    <2> QED
      BY <2>3 DEF Above
  <1> QED
    BY <1>10, <1>11, <1>12, <1>13

LEMMA LastRow ==
    ASSUME scenario \in Scenarios, NEW d \in Database, InstantsApart(d.since),
           NEW v, NEW T \in SUBSET Listed(d, v), T # {}
    PROVE  \E x \in T : Last(d, T) = Key(d, x) /\ \A y \in T \ {x} : Precedes(Key(d, y), Key(d, x))
  <1>1. \E x \in T : \A y \in T \ {x} : Precedes(Key(d, y), Key(d, x))
    <2>1. /\ IsFiniteSet(T) /\ Line(T, Before(d, T))
          /\ \A q, r \in T : <<q, r>> \in Before(d, T) <=> Precedes(Key(d, q), Key(d, r))
      BY ListingLine
    <2>2. PICK x \in T : \A y \in T \ {x} : <<y, x>> \in Before(d, T)
      BY <2>1, LastExists
    <2> QED
      BY <2>1, <2>2
  <1> DEFINE x == CHOOSE r \in T : \A q \in T \ {r} : Precedes(Key(d, q), Key(d, r))
  <1>2. x \in T /\ \A y \in T \ {x} : Precedes(Key(d, y), Key(d, x))
    BY <1>1
  <1>3. Last(d, T) = Key(d, x)
    BY DEF Last
  <1> QED
    BY <1>2, <1>3

-----------------------------------------------------------------------------
(* Steps. *)

\* The scenario stays, and all that depends on nothing else.
LEMMA Frozen ==
    ASSUME scenario' = scenario
    PROVE  /\ Rows' = Rows /\ Times' = Times /\ Keys' = Keys /\ Events' = Events
           /\ Database' = Database /\ Replies' = Replies /\ Private' = Private
           /\ \A r : Table(r)' = Table(r) /\ PostOf(r)' = PostOf(r) /\ Actor(r)' = Actor(r) /\ Locks(r)' = Locks(r)
           /\ \A k, l : Precedes(k, l)' <=> Precedes(k, l)
           /\ \A k, l : After(k, l)' <=> After(k, l)
           /\ \A d, r : Key(d, r)' = Key(d, r) /\ Event(d, r)' = Event(d, r)
           /\ \A since : InstantsApart(since)' <=> InstantsApart(since)
  <1>1. Rows' = Rows /\ Times' = Times /\ Private' = Private
    BY DEF Rows, Times, Private
  <1>2. \A r : Table(r)' = Table(r) /\ PostOf(r)' = PostOf(r) /\ Actor(r)' = Actor(r)
    BY DEF Table, PostOf, Actor
  <1>3. \A r : Locks(r)' = Locks(r)
    BY <1>2 DEF Locks
  <1>4. \A k, l : Precedes(k, l)' <=> Precedes(k, l)
    BY DEF Precedes
  <1>5. \A k, l : After(k, l)' <=> After(k, l)
    BY <1>4 DEF After
  <1>6. \A d, r : Key(d, r)' = Key(d, r)
    BY <1>2 DEF Key
  <1>7. \A d, r : Event(d, r)' = Event(d, r)
    BY <1>6 DEF Event
  <1>8. Keys' = Keys
    BY <1>1 DEF Keys
  <1>9. Events' = Events
    BY <1>1, <1>8 DEF Events
  <1>10. Accounts' = Accounts
    BY <1>1, <1>2 DEF Accounts
  <1>11. Database' = Database
    BY <1>1, <1>10 DEF Database
  <1>12. Replies' = Replies
    BY <1>1, <1>2 DEF Replies
  <1>13. \A since : InstantsApart(since)' <=> InstantsApart(since)
    BY <1>1, <1>3 DEF InstantsApart
  <1> QED
    BY <1>1, <1>2, <1>3, <1>4, <1>5, <1>6, <1>7, <1>8, <1>9, <1>11, <1>12, <1>13

LEMMA ListedFrozen ==
    ASSUME scenario' = scenario
    PROVE  \A d, v : Listed(d, v)' = Listed(d, v)
  <1>1. Rows' = Rows /\ Replies' = Replies /\ \A r : Table(r)' = Table(r) /\ PostOf(r)' = PostOf(r) /\ Actor(r)' = Actor(r)
    BY Frozen
  <1>2. \A p : Topical(p)' = Topical(p)
    BY DEF Topical
  <1>3. \A d, v, r : InView(d, v, r)' <=> InView(d, v, r)
    BY <1>1, <1>2 DEF InView
  <1>4. \A d, v : FeedEvents(d, v)' = FeedEvents(d, v)
    BY <1>1, <1>3 DEF FeedEvents
  <1>5. \A d : AccountEvents(d)' = AccountEvents(d)
    BY <1>1 DEF AccountEvents
  <1>6. \A d, v : Bookmarks(d, v)' = Bookmarks(d, v)
    BY <1>1 DEF Bookmarks
  <1>7. Matches' = Matches
    BY <1>1, <1>2 DEF Matches
  <1>8. \A d : Jobs(d)' = Jobs(d)
    BY <1>1 DEF Jobs
  <1> QED
    BY <1>1, <1>4, <1>5, <1>6, <1>7, <1>8 DEF Listed

\* What a write may do to a request that has begun and to a client between two.
Effect ==
    /\ UNCHANGED <<scenario, reader, cursor, scan>>
    /\ WritersTyped' /\ WritesOK'
    /\ \A r \in Rows, t \in Nat \ {0} : Seen(r, t) => Seen(r, t)'
    /\ \A r \in Replies : \/ db'.since[r] = db.since[r]
                          \/ db.since[r] = 0 /\ \A q \in Replies : db.since[q] < db'.since[r]
    /\ db.deleted \subseteq db'.deleted

LEMMA EffectKeeps ==
    ASSUME PagesInv, Effect
    PROVE  PagesInv'
  <1> USE DEF PagesInv
  <1>1. UNCHANGED <<scenario, reader, cursor, scan>>
    BY DEF Effect
  <1>2. /\ Rows' = Rows /\ Times' = Times /\ Keys' = Keys /\ Events' = Events
        /\ Database' = Database /\ Replies' = Replies /\ Private' = Private
    BY <1>1, Frozen
  <1>3. \A r : Table(r)' = Table(r) /\ PostOf(r)' = PostOf(r)
    BY <1>1, Frozen
  <1>4. /\ \A k, l : (Precedes(k, l)' <=> Precedes(k, l)) /\ (After(k, l)' <=> After(k, l))
        /\ \A d, r : Key(d, r)' = Key(d, r) /\ Event(d, r)' = Event(d, r)
        /\ \A d, v : Listed(d, v)' = Listed(d, v)
    BY <1>1, Frozen, ListedFrozen
  <1>5. Inv'
    BY <1>1, WritesKeep
  <1>6. /\ WritersTyped' /\ WritesOK'
        /\ \A r \in Rows, t \in Nat \ {0} : Seen(r, t) => Seen(r, t)'
    BY DEF Effect
  <1>7. ReaderTyped'
    BY <1>1, <1>2 DEF ReaderTyped, Opened, Start
  <1>8. SnapshotOK'
    <2> SUFFICES ASSUME Opened PROVE SnapshotOK'
      BY <1>1 DEF SnapshotOK, Opened
    <2>1. \A r \in Rows : reader.snap.since[r] \in Nat
      BY DEF ReaderTyped, Database, Times
    <2>2. InstantsApart(reader.snap.since)'
      BY <1>1, Frozen DEF SnapshotOK
    <2>3. \A r \in Rows, t \in Nat : t = reader.snap.since[r] /\ t # 0 => Seen(r, t)'
      BY <1>6 DEF SnapshotOK
    <2>4. \A r \in Rows : reader.snap.since[r] # 0 => Seen(r, reader.snap.since[r])'
      BY <1>1, <2>1, <2>3 DEF Seen
    <2>5. reader.snap.deleted \subseteq db'.deleted
      BY DEF SnapshotOK, Effect
    <2> QED
      BY <1>1, <1>2, <1>4, <2>2, <2>4, <2>5 DEF SnapshotOK, Visible
  <1>9. PageOK'
    <2>1. Chosen => Paged'
      BY <1>1, <1>2, <1>4 DEF PageOK, Paged, Start
    <2> QED
      BY <1>1, <1>3, <2>1 DEF PageOK, Busy, Chosen, Counted
  <1>10. DeliveredOK'
    <2> SUFFICES ASSUME NEW e \in scan.delivered
                 PROVE  /\ Placed(e)' /\ e.key[2] # 0 /\ Seen(e.row, e.key[2])'
                        /\ Opened => Earlier(e, reader.snap)'
                        /\ cursor.position # Start => e.key = cursor.position \/ Precedes(e.key, cursor.position)
      BY <1>1, <1>4 DEF DeliveredOK, Opened, Start
    <2>1. e.row \in Rows /\ e.key[2] \in Nat
      BY DEF ReaderTyped, Events, Keys, Times
    <2>2. Placed(e)'
      BY <1>1, <1>3 DEF DeliveredOK, Placed
    <2>3. Seen(e.row, e.key[2])'
      BY <1>6, <2>1 DEF DeliveredOK
    <2>4. Opened => Earlier(e, reader.snap)'
      BY <1>1, <1>3 DEF DeliveredOK, Earlier
    <2> QED
      BY <2>2, <2>3, <2>4 DEF DeliveredOK
  <1>11. RepliesOK'
    <2> SUFFICES ASSUME scenario.sort = "oldest" PROVE RepliesOK'
      BY <1>1 DEF RepliesOK
    <2>1. \A r \in Replies : Key(db, r) = <<0, db.since[r], 0, r>> /\ Key(db', r) = <<0, db'.since[r], 0, r>>
      BY DEF Replies, Key
    <2>2. \A r \in Replies : \/ db'.since[r] = db.since[r]
                             \/ db.since[r] = 0 /\ \A q \in Replies : db.since[q] < db'.since[r]
      BY DEF Effect
    <2>3. \A r \in Replies : r \in Rows /\ db.since[r] \in Nat /\ db'.since[r] \in Nat
      <3>1. db \in Database /\ db' \in Database
        BY <1>2, <1>6 DEF WritersTyped
      <3> QED
        BY <3>1 DEF Replies, Database, Times
    <2>4. ASSUME cursor.position # Start
          PROVE  \E r \in Replies : db'.since[r] # 0 /\ cursor.position = Key(db', r)
      <3>1. PICK r \in Replies : db.since[r] # 0 /\ cursor.position = Key(db, r)
        BY <2>4 DEF RepliesOK
      <3>2. db'.since[r] = db.since[r]
        BY <2>2, <3>1
      <3> QED
        BY <2>1, <3>1, <3>2
    <2>5. ASSUME cursor.position # Start, NEW r \in Replies,
                 Visible(db', r), ~Precedes(cursor.position, Key(db', r))
          PROVE  Event(db', r) \in scan.delivered
      <3>1. PICK l \in Replies : db.since[l] # 0 /\ cursor.position = Key(db, l)
        BY <2>5 DEF RepliesOK
      <3>2. CASE db'.since[r] = db.since[r]
        <4>1. Event(db', r) = Event(db, r) /\ Key(db', r) = Key(db, r)
          BY <2>1, <3>2 DEF Event
        <4>2. Visible(db, r)
          BY <2>5, <3>2 DEF Visible, Effect
        <4> QED
          BY <2>5, <4>1, <4>2 DEF RepliesOK, CompleteIn
      <3>3. CASE db'.since[r] # db.since[r]
        <4>1. db.since[l] < db'.since[r]
          BY <2>2, <3>3
        <4>2. Key(db, l) \in Quads /\ Key(db', r) \in Quads
          <5>1. l \in Rows /\ r \in Rows /\ db \in Database /\ db' \in Database
            BY <1>2, <1>6, <2>3 DEF WritersTyped
          <5> QED
            BY <5>1, KeyTyped DEF Inv
        <4>3. Less(Key(db, l), Key(db', r))
          <5>1. /\ Key(db, l)[1] = 0 /\ Key(db', r)[1] = 0
                /\ Key(db, l)[2] = db.since[l] /\ Key(db', r)[2] = db'.since[r]
            BY <2>1
          <5> QED
            BY <4>1, <4>2, <5>1, LessMeans
        <4> QED
          BY <2>5, <3>1, <4>3 DEF Precedes
      <3> QED
        BY <3>2, <3>3
    <2>6. ASSUME Opened
          PROVE  /\ CompleteIn(reader.snap)
                 /\ \A r \in Replies : db'.since[r] # reader.snap.since[r] =>
                        reader.snap.since[r] = 0 /\ \A q \in Replies : reader.snap.since[q] < db'.since[r]
      <3>1. /\ CompleteIn(reader.snap)
            /\ \A r \in Replies : db.since[r] # reader.snap.since[r] =>
                   reader.snap.since[r] = 0 /\ \A q \in Replies : reader.snap.since[q] < db.since[r]
        BY <2>6 DEF RepliesOK
      <3>2. \A r \in Replies : reader.snap.since[r] \in Nat
        BY <2>3, <2>6 DEF ReaderTyped, Database, Times
      <3>3. ASSUME NEW r \in Replies, db'.since[r] # reader.snap.since[r]
            PROVE  reader.snap.since[r] = 0 /\ \A q \in Replies : reader.snap.since[q] < db'.since[r]
        <4>1. CASE db'.since[r] = db.since[r]
          BY <3>1, <3>3, <4>1
        <4>2. CASE db'.since[r] # db.since[r]
          <5>1. db.since[r] = 0 /\ \A q \in Replies : db.since[q] < db'.since[r]
            BY <2>2, <4>2
          <5>2. \A q \in Replies : reader.snap.since[q] = 0 \/ reader.snap.since[q] = db.since[q]
            BY <3>1
          <5>3. reader.snap.since[r] = 0
            BY <5>1, <5>2
          <5>4. \A q \in Replies : reader.snap.since[q] < db'.since[r]
            <6>1. 0 < db'.since[r]
              BY <2>3, <4>2, <5>1
            <6> QED
              BY <5>1, <5>2, <6>1
          <5> QED
            BY <5>3, <5>4
        <4> QED
          BY <4>1, <4>2
      <3> QED
        BY <3>1, <3>3
    <2> HIDE DEF PagesInv
    <2>7. \A r : Event(db, r)' = Event(db', r) /\ Key(db, r)' = Key(db', r)
      BY <1>1, <1>3 DEF Event, Key
    <2>8. CompleteIn(db)'
      BY <1>1, <1>2, <1>4, <2>5, <2>7 DEF CompleteIn, Visible, Start
    <2>9. Opened => CompleteIn(reader.snap)'
      BY <1>1, <1>2, <1>4, <2>6 DEF CompleteIn, Visible, Start
    <2> QED
      BY <1>1, <1>2, <2>4, <2>6, <2>7, <2>8, <2>9 DEF RepliesOK, Opened, Start
  <1>12. NothingSkipped' /\ RepliesComplete'
    BY <1>1, <1>4 DEF NothingSkipped, RepliesComplete
  <1> QED
    BY <1>5, <1>6, <1>7, <1>8, <1>9, <1>10, <1>11, <1>12

\* Most writes touch no instant.
LEMMA QuietEffect ==
    ASSUME PagesInv, UNCHANGED <<scenario, reader, cursor, scan>>, WritersTyped',
           db'.since = db.since, db.deleted \subseteq db'.deleted,
           pending' \subseteq pending, now <= now'
    PROVE  Effect
  <1> USE DEF PagesInv
  <1>1. Rows' = Rows /\ \A r : Table(r)' = Table(r) /\ Locks(r)' = Locks(r)
    BY Frozen
  <1>2. /\ now \in Nat /\ now' \in Nat
        /\ \A r \in Rows : db.since[r] \in Nat
        /\ \A p \in pending : p.at \in Nat
    <2>1. scenario.maxTime \in Nat
      BY RowFields DEF Inv
    <2> QED
      BY <2>1 DEF WritersTyped, Database, Times
  <1>3. WritesOK'
    <2>1. InstantsApart(db.since)'
      BY Frozen DEF WritesOK, InstantsApart
    <2>2. \A r \in Rows : db'.since[r] <= now'
      BY <1>2 DEF WritesOK
    <2>3. ASSUME NEW p \in pending'
          PROVE  /\ p.at # 0 /\ p.at <= now' /\ db'.since[p.row] = 0
                 /\ \A q \in Rows : Locks(q) \cap Locks(p.row) # {} => db'.since[q] < p.at
      BY <1>2 DEF WritesOK
    <2>4. \A o, p \in pending' : o # p => o.row # p.row /\ Locks(o.row) \cap Locks(p.row) = {}
      BY DEF WritesOK
    <2> QED
      BY <1>1, <2>1, <2>2, <2>3, <2>4 DEF WritesOK
  <1>4. ASSUME NEW r \in Rows, NEW t \in Nat \ {0}, Seen(r, t) PROVE Seen(r, t)'
    BY <1>1, <1>2, <1>4 DEF Seen
  <1> QED
    BY <1>3, <1>4 DEF Effect

LEMMA QuietWrite ==
    ASSUME PagesInv, NEW operation, Write(operation), pending' = pending,
           db' \in Database, db'.since = db.since, db.deleted \subseteq db'.deleted
    PROVE  Effect
  <1> USE DEF PagesInv
  <1>1. /\ UNCHANGED <<scenario, reader, cursor, scan, now>>
        /\ writes' \in 0 .. scenario.maxWrites
    <2>1. scenario.maxWrites \in Nat
      BY ScenarioAssumption DEF Inv
    <2> QED
      BY <2>1 DEF Write, WritersTyped
  <1>2. WritersTyped'
    <2>1. Rows' = Rows /\ Times' = Times /\ Database' = Database
      BY <1>1, Frozen
    <2> QED
      BY <1>1, <2>1 DEF WritersTyped
  <1>3. now <= now'
    <2>1. now \in Int
      BY RowFields DEF WritersTyped, Times, Inv
    <2> QED
      BY <1>1, <2>1
  <1> QED
    BY <1>1, <1>2, <1>3, QuietEffect

\* Deletions, counts, statuses.
LEMMA RowWriteEffect ==
    ASSUME PagesInv, NEW r \in Rows,
           \/ Remove(r) /\ Table(r) # "bookmark"
           \/ SetReaction(r) \/ MoveJob(r)
    PROVE  Effect
  <1>1. PICK operation : Write(operation) /\ pending' = pending
    BY DEF Remove, SetReaction, MoveJob
  <1>2. db \in Database
    BY DEF PagesInv, WritersTyped
  <1>3. /\ db' \in Database /\ db'.since = db.since /\ db.deleted \subseteq db'.deleted
    <2>1. CASE Remove(r) /\ Table(r) # "bookmark"
      <3>1. db' = [db EXCEPT !.deleted = @ \cup {r}]
        BY <2>1 DEF Remove
      <3> QED
        BY <1>2, <3>1 DEF Database
    <2>2. CASE SetReaction(r)
      <3>1. db' = [db EXCEPT !.score[r] = 1 - @]
        BY <2>2 DEF SetReaction
      <3>2. 1 - db.score[r] \in 0..1
        BY <1>2 DEF Database
      <3> QED
        BY <1>2, <3>1, <3>2 DEF Database
    <2>3. CASE MoveJob(r)
      <3>1. db' = [db EXCEPT !.listed = IF r \in @ THEN @ \ {r} ELSE @ \cup {r}]
        BY <2>3 DEF MoveJob
      <3> QED
        BY <1>2, <3>1 DEF Database
    <2> QED
      BY <2>1, <2>2, <2>3
  <1> QED
    BY <1>1, <1>3, QuietWrite

\* Follows, sessions, accounts.
LEMMA AccountWriteEffect ==
    ASSUME PagesInv,
           \/ \E v \in scenario.readers \ {NoViewer}, a \in Accounts : SetFollow(v, a)
           \/ \E v \in scenario.readers \ {NoViewer} : SwitchSession(v)
           \/ \E a \in Accounts : DisableAccount(a)
    PROVE  Effect
  <1>1. PICK operation : Write(operation) /\ pending' = pending
    BY DEF SetFollow, SwitchSession, DisableAccount
  <1>2. db \in Database /\ scenario.readers \ {NoViewer} \subseteq Viewers
    BY ScenarioAssumption DEF PagesInv, Inv, WritersTyped
  <1>3. /\ db' \in Database /\ db'.since = db.since /\ db.deleted \subseteq db'.deleted
    <2>1. ASSUME NEW v \in Viewers, NEW a \in Accounts, SetFollow(v, a)
          PROVE  /\ db' \in Database /\ db'.since = db.since /\ db.deleted \subseteq db'.deleted
      <3>1. db' = [db EXCEPT !.follows = IF <<v, a>> \in @ THEN @ \ {<<v, a>>} ELSE @ \cup {<<v, a>>}]
        BY <2>1 DEF SetFollow
      <3> QED
        BY <1>2, <3>1 DEF Database
    <2>2. ASSUME NEW v \in Viewers, SwitchSession(v)
          PROVE  /\ db' \in Database /\ db'.since = db.since /\ db.deleted \subseteq db'.deleted
      <3>1. db' = [db EXCEPT !.sessions = IF v \in @ THEN @ \ {v} ELSE @ \cup {v}]
        BY <2>2 DEF SwitchSession
      <3> QED
        BY <1>2, <3>1 DEF Database
    <2>3. ASSUME NEW a \in Accounts, DisableAccount(a)
          PROVE  /\ db' \in Database /\ db'.since = db.since /\ db.deleted \subseteq db'.deleted
      <3>1. db' = [db EXCEPT !.disabled = @ \cup {a}, !.sessions = @ \ {a}]
        BY <2>3 DEF DisableAccount
      <3> QED
        BY <1>2, <3>1 DEF Database
    <2> QED
      BY <1>2, <2>1, <2>2, <2>3
  <1> QED
    BY <1>1, <1>3, QuietWrite

LEMMA StutterPages ==
    ASSUME PagesInv, UNCHANGED vars
    PROVE  PagesInv'
  <1>1. now <= now
    BY RowFields DEF PagesInv, WritersTyped, Times, Inv
  <1>2. WritersTyped'
    BY Frozen DEF PagesInv, WritersTyped, vars
  <1> QED
    BY <1>1, <1>2, QuietEffect, EffectKeeps DEF vars

LEMMA TickEffect ==
    ASSUME PagesInv, Tick
    PROVE  Effect
  <1>1. UNCHANGED <<scenario, db, pending, writes, reader, cursor, scan>> /\ now' = now + 1 /\ now < scenario.maxTime
    BY DEF Tick
  <1>2. now \in Nat /\ scenario.maxTime \in Nat
    BY RowFields DEF PagesInv, WritersTyped, Inv, Times
  <1>3. now <= now' /\ now' \in Times \ {0}
    BY <1>1, <1>2 DEF Times
  <1>4. WritersTyped'
    BY <1>1, <1>3, Frozen DEF PagesInv, WritersTyped
  <1> QED
    BY <1>1, <1>3, <1>4, QuietEffect

LEMMA RollbackEffect ==
    ASSUME PagesInv, NEW p \in pending, Rollback(p)
    PROVE  Effect
  <1>1. UNCHANGED <<scenario, db, now, writes, reader, cursor, scan>> /\ pending' = pending \ {p}
    BY DEF Rollback
  <1>2. now \in Nat
    BY RowFields DEF PagesInv, WritersTyped, Inv, Times
  <1>3. WritersTyped'
    BY <1>1, Frozen DEF PagesInv, WritersTyped
  <1> QED
    BY <1>1, <1>2, <1>3, QuietEffect

\* A row is inserted: it will be newer than whatever has been seen of it.
LEMMA InsertEffect ==
    ASSUME PagesInv, NEW r \in Rows, Insert(r)
    PROVE  Effect
  <1> USE DEF PagesInv
  <1> DEFINE p == [row |-> r, at |-> now]
  <1>1. /\ UNCHANGED <<scenario, now, db, reader, cursor, scan>>
        /\ writes < scenario.maxWrites /\ writes' = writes + 1
        /\ pending' = pending \cup {p}
    BY DEF Insert, Write
  <1>2. /\ db.since[r] = 0 /\ \A o \in pending : o.row # r
        /\ \A o \in pending : Locks(o.row) \cap Locks(r) = {}
        /\ \A q \in Rows : Locks(q) \cap Locks(r) # {} => db.since[q] < now
    BY DEF Insert, Free
  <1>3. Rows' = Rows /\ Times' = Times /\ Database' = Database /\ \A q : Table(q)' = Table(q) /\ Locks(q)' = Locks(q)
    BY <1>1, Frozen
  <1>4. now \in Nat /\ now \in Times
    BY RowFields DEF WritersTyped, Inv, Times
  <1>5. /\ now # 0
        /\ \A q \in Rows : db.since[q] \in Nat /\ db.since[q] <= now
        /\ \A o \in pending : o.row \in Rows
    BY DEF WritersTyped, WritesOK, Database, Times
  <1>6. WritersTyped'
    <2>1. scenario.maxWrites \in Nat /\ writes \in 0 .. scenario.maxWrites
      BY ScenarioAssumption DEF Inv, WritersTyped
    <2>2. writes' \in 0 .. scenario.maxWrites
      BY <1>1, <2>1
    <2> QED
      BY <1>1, <1>3, <1>4, <2>2 DEF WritersTyped
  <1>7. WritesOK'
    <2>1. InstantsApart(db.since)'
      BY <1>1, Frozen DEF WritesOK, InstantsApart
    <2>2. ASSUME NEW o \in pending'
          PROVE  /\ o.at # 0 /\ o.at <= now' /\ db'.since[o.row] = 0
                 /\ \A q \in Rows : Locks(q) \cap Locks(o.row) # {} => db'.since[q] < o.at
      <3>1. CASE o \in pending
        BY <1>1, <3>1 DEF WritesOK
      <3>2. CASE o = p
        BY <1>1, <1>2, <1>4, <1>5, <3>2
      <3> QED
        BY <1>1, <3>1, <3>2
    <2>3. ASSUME NEW o \in pending', NEW q \in pending', o # q
          PROVE  o.row # q.row /\ Locks(o.row) \cap Locks(q.row) = {}
      <3>1. CASE o \in pending /\ q \in pending
        BY <2>3, <3>1 DEF WritesOK
      <3>2. CASE o = p \/ q = p
        BY <1>1, <1>2, <2>3, <3>2
      <3> QED
        BY <1>1, <3>1, <3>2
    <2>4. \A q \in Rows : db'.since[q] <= now'
      BY <1>1 DEF WritesOK
    <2> QED
      BY <1>3, <2>1, <2>2, <2>3, <2>4 DEF WritesOK
  <1>8. ASSUME NEW q \in Rows, NEW t \in Nat \ {0}, Seen(q, t) PROVE Seen(q, t)'
    BY <1>1, <1>3, <1>8 DEF Seen
  <1> QED
    BY <1>1, <1>6, <1>7, <1>8 DEF Effect

\* A row becomes visible with the instant it was inserted at: nobody else has
\* taken its locks since.
LEMMA CommitEffect ==
    ASSUME PagesInv, NEW p \in pending, Commit(p)
    PROVE  Effect
  <1> USE DEF PagesInv
  <1>1. /\ UNCHANGED <<scenario, now, writes, reader, cursor, scan>>
        /\ pending' = pending \ {p}
        /\ db' = [db EXCEPT !.since[p.row] = p.at]
    BY DEF Commit
  <1>2. p.row \in Rows /\ p.at \in Times /\ db \in Database /\ \A o \in pending : o.row \in Rows
    BY DEF WritersTyped
  <1>3. /\ p.at # 0 /\ p.at <= now /\ db.since[p.row] = 0
        /\ \A q \in Rows : Locks(q) \cap Locks(p.row) # {} => db.since[q] < p.at
        /\ \A o \in pending \ {p} : o.row # p.row /\ Locks(o.row) \cap Locks(p.row) = {}
    BY DEF WritesOK
  <1>4. /\ db' \in Database /\ db'.deleted = db.deleted
        /\ db'.since[p.row] = p.at
        /\ \A q \in Rows \ {p.row} : db'.since[q] = db.since[q]
    BY <1>1, <1>2 DEF Database
  <1>5. Rows' = Rows /\ Times' = Times /\ Database' = Database /\ \A q : Table(q)' = Table(q) /\ Locks(q)' = Locks(q)
    BY <1>1, Frozen
  <1>6. /\ now \in Nat /\ p.at \in Nat
        /\ \A q \in Rows : db.since[q] \in Nat
        /\ \A o \in pending : o.at \in Nat
    BY <1>2, RowFields DEF WritersTyped, Database, Inv, Times
  <1>7. WritersTyped'
    BY <1>1, <1>4, <1>5 DEF WritersTyped
  <1>8. WritesOK'
    <2>1. InstantsApart(db'.since)
      <3> SUFFICES ASSUME NEW q \in Rows, NEW r \in Rows, q # r,
                          Locks(q) \cap Locks(r) # {}, db'.since[q] # 0
                   PROVE  db'.since[q] # db'.since[r]
        BY DEF InstantsApart
      <3>1. CASE q = p.row
        <4>1. db.since[r] < p.at
          BY <1>3, <3>1
        <4> QED
          BY <1>4, <1>6, <3>1, <4>1
      <3>2. CASE r = p.row
        <4>1. db.since[q] < p.at
          BY <1>3, <3>2
        <4> QED
          BY <1>4, <1>6, <3>2, <4>1
      <3>3. CASE q # p.row /\ r # p.row
        BY <1>4, <3>3 DEF WritesOK, InstantsApart
      <3> QED
        BY <3>1, <3>2, <3>3
    <2>2. \A q \in Rows : db'.since[q] <= now'
      BY <1>1, <1>3, <1>4 DEF WritesOK
    <2>3. ASSUME NEW o \in pending'
          PROVE  /\ o.at # 0 /\ o.at <= now' /\ db'.since[o.row] = 0
                 /\ \A q \in Rows : Locks(q) \cap Locks(o.row) # {} => db'.since[q] < o.at
      <3>1. o \in pending \ {p} /\ o.row # p.row /\ Locks(o.row) \cap Locks(p.row) = {} /\ o.row \in Rows
        BY <1>1, <1>2, <1>3
      <3>2. /\ o.at # 0 /\ o.at <= now /\ db.since[o.row] = 0
            /\ \A q \in Rows : Locks(q) \cap Locks(o.row) # {} => db.since[q] < o.at
        BY <3>1 DEF WritesOK
      <3>3. ASSUME NEW q \in Rows, Locks(q) \cap Locks(o.row) # {} PROVE q # p.row
        BY <3>1, <3>3
      <3> QED
        BY <1>1, <1>4, <3>1, <3>2, <3>3
    <2>4. \A o, q \in pending' : o # q => o.row # q.row /\ Locks(o.row) \cap Locks(q.row) = {}
      BY <1>1 DEF WritesOK
    <2>5. InstantsApart(db.since)'
      BY <1>5, <2>1 DEF InstantsApart
    <2> QED
      BY <1>5, <2>2, <2>3, <2>4, <2>5 DEF WritesOK
  <1>9. ASSUME NEW q \in Rows, NEW t \in Nat \ {0}, Seen(q, t) PROVE Seen(q, t)'
    <2>1. /\ t <= now /\ \A o \in pending : o.row = q => t <= o.at
          /\ db.since[q] # 0 => t <= db.since[q]
          /\ Table(q) # "bookmark" => db.since[q] = t
      BY <1>9 DEF Seen
    <2>2. CASE q = p.row
      <3>1. t <= p.at /\ Table(q) = "bookmark"
        BY <1>3, <2>1, <2>2
      <3> QED
        BY <1>1, <1>4, <1>5, <2>1, <2>2, <3>1 DEF Seen
    <2>3. CASE q # p.row
      <3>1. db'.since[q] = db.since[q]
        BY <1>4, <2>3
      <3> QED
        BY <1>1, <1>5, <2>1, <3>1 DEF Seen
    <2> QED
      BY <2>2, <2>3
  <1>10. ASSUME NEW r \in Replies
         PROVE  \/ db'.since[r] = db.since[r]
                \/ db.since[r] = 0 /\ \A q \in Replies : db.since[q] < db'.since[r]
    <2>1. CASE r # p.row
      BY <1>4, <2>1 DEF Replies
    <2>2. CASE r = p.row
      <3>1. ASSUME NEW q \in Replies PROVE db.since[q] < p.at
        <4>1. q \in Rows /\ <<"post", PostOf(q)>> \in Locks(q)
          BY DEF Replies, Locks
        <4>2. <<"post", PostOf(r)>> \in Locks(r) /\ PostOf(q) = PostOf(r)
          BY DEF Replies, Locks
        <4>3. Locks(q) \cap Locks(p.row) # {}
          BY <2>2, <4>1, <4>2
        <4> QED
          BY <1>3, <4>1, <4>3
      <3> QED
        BY <1>3, <1>4, <2>2, <3>1
    <2> QED
      BY <2>1, <2>2
  <1> QED
    BY <1>1, <1>4, <1>7, <1>8, <1>9, <1>10 DEF Effect

\* A bookmark is taken away.
LEMMA TakeAwayEffect ==
    ASSUME PagesInv, NEW r \in Rows, Remove(r), Table(r) = "bookmark"
    PROVE  Effect
  <1> USE DEF PagesInv
  <1>1. /\ UNCHANGED <<scenario, now, pending, reader, cursor, scan>>
        /\ writes < scenario.maxWrites /\ writes' = writes + 1
        /\ db' = [db EXCEPT !.since[r] = 0]
    BY DEF Remove, Write
  <1>2. db \in Database /\ 0 \in Times
    BY RowFields DEF WritersTyped, Inv, Times
  <1>3. /\ db' \in Database /\ db'.deleted = db.deleted
        /\ db'.since[r] = 0
        /\ \A q \in Rows \ {r} : db'.since[q] = db.since[q]
    BY <1>1, <1>2 DEF Database
  <1>4. Rows' = Rows /\ Times' = Times /\ Database' = Database /\ \A q : Table(q)' = Table(q) /\ Locks(q)' = Locks(q)
    BY <1>1, Frozen
  <1>5. /\ now \in Nat
        /\ \A o \in pending : o.row \in Rows /\ o.at \in Nat
        /\ \A q \in Rows : db.since[q] \in Nat
    BY RowFields DEF WritersTyped, Database, Inv, Times
  <1>6. WritersTyped'
    <2>1. scenario.maxWrites \in Nat /\ writes \in 0 .. scenario.maxWrites
      BY ScenarioAssumption DEF Inv, WritersTyped
    <2>2. writes' \in 0 .. scenario.maxWrites
      BY <1>1, <2>1
    <2> QED
      BY <1>1, <1>3, <1>4, <2>2 DEF WritersTyped
  <1>7. WritesOK'
    <2>1. ASSUME NEW q \in Rows, NEW s \in Rows, q # s, Locks(q) \cap Locks(s) # {}, db'.since[q] # 0
          PROVE  db'.since[q] # db'.since[s]
      BY <1>3, <2>1 DEF WritesOK, InstantsApart
    <2>2. \A q \in Rows : db'.since[q] <= now'
      BY <1>1, <1>3, <1>5 DEF WritesOK
    <2>3. ASSUME NEW o \in pending
          PROVE  /\ o.at # 0 /\ o.at <= now /\ db'.since[o.row] = 0
                 /\ \A q \in Rows : Locks(q) \cap Locks(o.row) # {} => db'.since[q] < o.at
      <3>1. /\ o.at # 0 /\ o.at <= now /\ db.since[o.row] = 0
            /\ \A q \in Rows : Locks(q) \cap Locks(o.row) # {} => db.since[q] < o.at
        BY DEF WritesOK
      <3>2. 0 < o.at
        BY <1>5, <3>1
      <3> QED
        BY <1>3, <1>5, <3>1, <3>2
    <2>4. InstantsApart(db.since)'
      BY <1>4, <2>1 DEF InstantsApart
    <2> QED
      BY <1>1, <1>4, <2>2, <2>3, <2>4 DEF WritesOK
  <1>8. ASSUME NEW q \in Rows, NEW t \in Nat \ {0}, Seen(q, t) PROVE Seen(q, t)'
    <2>1. q = r \/ db'.since[q] = db.since[q]
      BY <1>3
    <2> QED
      BY <1>1, <1>3, <1>4, <1>8, <2>1 DEF Seen
  <1>9. \A q \in Replies : db'.since[q] = db.since[q]
    BY <1>3 DEF Replies
  <1> QED
    BY <1>1, <1>3, <1>6, <1>7, <1>8, <1>9 DEF Effect

\* Reads change nothing that is written.
LEMMA WritersKeep ==
    ASSUME PagesInv, UNCHANGED <<scenario, now, db, pending, writes>>
    PROVE  WritersTyped' /\ WritesOK'
  <1>1. Rows' = Rows /\ Times' = Times /\ Database' = Database /\ \A r : Locks(r)' = Locks(r)
    BY Frozen
  <1>2. InstantsApart(db.since)'
    BY Frozen DEF PagesInv, WritesOK, InstantsApart
  <1> QED
    BY <1>1, <1>2 DEF PagesInv, WritersTyped, WritesOK

\* A step of the request alone sees the database as it is, or goes on with the
\* snapshot it has.
LEMMA RequestKeeps ==
    ASSUME PagesInv, UNCHANGED <<scenario, now, db, pending, writes, cursor, scan>>,
           Inv', ReaderTyped', SnapshotOK', PageOK',
           Opened' => reader'.snap = db \/ (Opened /\ reader'.snap = reader.snap)
    PROVE  PagesInv'
  <1> USE DEF PagesInv
  <1>1. /\ Rows' = Rows /\ Times' = Times /\ Database' = Database /\ Replies' = Replies
        /\ \A r : Table(r)' = Table(r) /\ PostOf(r)' = PostOf(r) /\ Locks(r)' = Locks(r)
        /\ \A k, l : (Precedes(k, l)' <=> Precedes(k, l)) /\ (After(k, l)' <=> After(k, l))
        /\ \A d, r : Key(d, r)' = Key(d, r) /\ Event(d, r)' = Event(d, r)
    BY Frozen
  <1>2. WritersTyped' /\ WritesOK'
    BY WritersKeep
  <1>4. DeliveredOK'
    <2> SUFFICES ASSUME NEW e \in scan.delivered
                 PROVE  /\ Placed(e)' /\ e.key[2] # 0 /\ Seen(e.row, e.key[2])'
                        /\ Opened' => Earlier(e, reader.snap)'
                        /\ cursor.position # Start => e.key = cursor.position \/ Precedes(e.key, cursor.position)
      BY <1>1 DEF DeliveredOK, Start
    <2>1. Placed(e)'
      BY <1>1 DEF DeliveredOK, Placed
    <2>2. Seen(e.row, e.key[2])'
      BY <1>1 DEF DeliveredOK, Seen
    <2>3. ASSUME Opened' PROVE Earlier(e, reader.snap)'
      <3>1. CASE reader'.snap = db
        BY <1>1, <3>1 DEF DeliveredOK, Seen, Earlier
      <3>2. CASE Opened /\ reader'.snap = reader.snap
        BY <1>1, <3>2 DEF DeliveredOK, Earlier
      <3> QED
        BY <2>3, <3>1, <3>2
    <2> QED
      BY <2>1, <2>2, <2>3 DEF DeliveredOK
  <1>5. RepliesOK'
    <2> SUFFICES ASSUME scenario.sort = "oldest" PROVE RepliesOK'
      BY DEF RepliesOK
    <2>1. CompleteIn(db)'
      BY <1>1 DEF RepliesOK, CompleteIn, Visible, Start
    <2>2. ASSUME Opened'
          PROVE  /\ CompleteIn(reader.snap)'
                 /\ \A r \in Replies : db.since[r] # reader'.snap.since[r] =>
                        reader'.snap.since[r] = 0 /\ \A q \in Replies : reader'.snap.since[q] < db.since[r]
      <3>1. CASE reader'.snap = db
        BY <1>1, <3>1 DEF RepliesOK, CompleteIn, Visible, Start
      <3>2. CASE Opened /\ reader'.snap = reader.snap
        BY <1>1, <3>2 DEF RepliesOK, CompleteIn, Visible, Start
      <3> QED
        BY <2>2, <3>1, <3>2
    <2>3. cursor.position # Start => \E r \in Replies : db.since[r] # 0 /\ cursor.position = Key(db, r)
      BY DEF RepliesOK
    <2> QED
      BY <1>1, <2>1, <2>2, <2>3 DEF RepliesOK, Start
  <1>6. NothingSkipped' /\ RepliesComplete'
    BY <1>1 DEF NothingSkipped, RepliesComplete
  <1> QED
    BY <1>2, <1>4, <1>5, <1>6

LEMMA IdleFields ==
    /\ Idle.pc = "idle" /\ Idle.page = {} /\ Idle.next = Start /\ Idle.position = Start
    /\ Idle.ceiling = 0
  BY DEF Idle

LEMMA ToIdle ==
    ASSUME PagesInv, UNCHANGED <<scenario, now, db, pending, writes, cursor, scan>>, reader' = Idle
    PROVE  PagesInv'
  <1> USE DEF PagesInv
  <1>1. Inv'
    BY IdleKeeps
  <1>2. Times' = Times /\ Keys' = Keys /\ Events' = Events
    BY Frozen
  <1>3. 0 \in Times
    BY RowFields DEF Times, Inv
  <1>4. ReaderTyped'
    BY <1>2, <1>3, IdleFields DEF ReaderTyped, Opened, Start
  <1>5. ~Opened' /\ ~Busy' /\ ~Chosen'
    BY IdleFields DEF Opened, Busy, Chosen
  <1>6. SnapshotOK' /\ PageOK'
    BY <1>5, IdleFields DEF SnapshotOK, PageOK
  <1> QED
    BY <1>1, <1>4, <1>5, <1>6, RequestKeeps

LEMMA RequestPages ==
    ASSUME PagesInv, NEW token, NEW limit \in scenario.limits, Request(token, limit)
    PROVE  PagesInv'
  <1> USE DEF PagesInv
  <1> DEFINE viewer == SessionAccount(db, token)
             R == [Idle EXCEPT !.pc = "opened", !.token = token, !.viewer = viewer, !.limit = limit,
                               !.ceiling = CeilingOf(cursor), !.position = cursor.position]
  <1>1. UNCHANGED <<scenario, now, db, pending, writes, cursor, scan>> /\ reader.pc = "idle"
    BY DEF Request
  <1>2. Inv'
    BY RequestStep
  <1>3. viewer \in Viewers \cup {NoViewer}
    BY DEF SessionAccount, WritersTyped, Database
  <1>4. limit \in Nat \ {0}
    BY ScenarioAssumption DEF Inv
  <1>5. CeilingOf(cursor) \in Times
    BY RowFields DEF CeilingOf, ReaderTyped, Times, Inv
  <1>6. CASE reader' = R
    <2>1. /\ R.pc = "opened" /\ R.viewer = viewer /\ R.limit = limit /\ R.ceiling = CeilingOf(cursor)
          /\ R.position = cursor.position /\ R.page = {} /\ R.next = Start
      <3>1. R = [Idle EXCEPT !.pc = "opened", !.token = token, !.viewer = viewer, !.limit = limit,
                             !.ceiling = CeilingOf(cursor), !.position = cursor.position]
        OBVIOUS
      <3> HIDE DEF viewer, R
      <3> QED
        BY <3>1 DEF Idle
    <2> HIDE DEF viewer, R
    <2>2. ~Opened' /\ ~Chosen'
      BY <1>6, <2>1 DEF Opened, Chosen
    <2>3. Times' = Times /\ Keys' = Keys /\ Events' = Events
      BY <1>1, Frozen
    <2>4. ReaderTyped'
      BY <1>1, <1>5, <1>6, <2>1, <2>2, <2>3 DEF ReaderTyped, Start
    <2>5. SnapshotOK' /\ PageOK'
      BY <1>1, <1>3, <1>4, <1>6, <2>1, <2>2 DEF SnapshotOK, PageOK
    <2> QED
      BY <1>1, <1>2, <2>2, <2>4, <2>5, RequestKeeps
  <1>7. CASE reader' = reader
    <2>1. ~Opened /\ ~Opened' /\ ~Chosen' /\ ~Busy'
      BY <1>1, <1>7 DEF Opened, Chosen, Busy
    <2>2. Times' = Times /\ Keys' = Keys /\ Events' = Events
      BY <1>1, Frozen
    <2>3. ReaderTyped'
      BY <1>1, <1>7, <2>1, <2>2 DEF ReaderTyped, Start
    <2>4. reader.page = {}
      BY <2>1, <1>1 DEF PageOK, Chosen
    <2>5. SnapshotOK' /\ PageOK'
      BY <1>1, <1>7, <2>1, <2>4 DEF SnapshotOK, PageOK
    <2> QED
      BY <1>1, <1>2, <2>1, <2>3, <2>5, RequestKeeps
  <1> QED
    BY <1>6, <1>7 DEF Request

LEMMA TakeCeilingPages ==
    ASSUME PagesInv, TakeCeiling
    PROVE  PagesInv'
  <1> USE DEF PagesInv
  <1>1. /\ UNCHANGED <<scenario, now, db, pending, writes, cursor, scan>>
        /\ reader.pc \in {"opened", "reading"} /\ reader' = [reader EXCEPT !.ceiling = now]
    BY DEF TakeCeiling
  <1>2. Inv'
    BY TakeCeilingStep
  <1>3. /\ reader'.pc = reader.pc /\ reader'.snap = reader.snap /\ reader'.page = reader.page
        /\ reader'.next = reader.next /\ reader'.position = reader.position /\ reader'.limit = reader.limit
        /\ reader'.viewer = reader.viewer /\ reader'.total = reader.total /\ reader'.ceiling = now
    BY <1>1 DEF Inv, ReaderOK, Shaped
  <1>4. Times' = Times /\ Keys' = Keys /\ Events' = Events /\ Database' = Database /\ Rows' = Rows
    BY <1>1, Frozen
  <1>5. ReaderTyped'
    BY <1>1, <1>3, <1>4 DEF ReaderTyped, WritersTyped, Opened, Start
  <1>6. SnapshotOK'
    <2>1. InstantsApart(reader.snap.since)' <=> InstantsApart(reader.snap.since)
      BY <1>1, <1>3, Frozen DEF InstantsApart
    <2>2. \A r : Table(r)' = Table(r)
      BY <1>1, Frozen
    <2>3. \A d, v : Listed(d, v)' = Listed(d, v)
      BY <1>1, ListedFrozen
    <2> QED
      BY <1>1, <1>3, <1>4, <2>1, <2>2, <2>3 DEF SnapshotOK, Opened, Seen, Visible
  <1>7. ~Chosen' /\ ~Chosen
    BY <1>1, <1>3 DEF Chosen
  <1>8. PageOK'
    BY <1>1, <1>3, <1>7 DEF PageOK, Busy, Chosen
  <1> QED
    BY <1>1, <1>2, <1>3, <1>5, <1>6, <1>8, RequestKeeps DEF Opened

LEMMA OpenSnapshotPages ==
    ASSUME PagesInv, OpenSnapshot
    PROVE  PagesInv'
  <1> USE DEF PagesInv
  <1> DEFINE total == Cardinality(Listed(db, reader.viewer))
  <1>1. UNCHANGED <<scenario, now, db, pending, writes, cursor, scan>> /\ reader.pc = "opened"
    BY DEF OpenSnapshot
  <1>2. CASE ~Found(db)
    BY <1>1, <1>2, ToIdle DEF OpenSnapshot
  <1>3. CASE Found(db)
    <2>1. reader' = [reader EXCEPT !.pc = "reading", !.snap = db, !.total = total]
      BY <1>3 DEF OpenSnapshot
    <2>2. Inv'
      BY OpenSnapshotStep
    <2>3. /\ reader'.pc = "reading" /\ reader'.snap = db /\ reader'.total = total
          /\ reader'.page = reader.page /\ reader'.next = reader.next /\ reader'.position = reader.position
          /\ reader'.limit = reader.limit /\ reader'.viewer = reader.viewer /\ reader'.ceiling = reader.ceiling
      <3> HIDE DEF total
      <3> QED
        BY <2>1 DEF Inv, ReaderOK, Shaped
    <2>4. Times' = Times /\ Keys' = Keys /\ Events' = Events /\ Database' = Database /\ Rows' = Rows
      BY <1>1, Frozen
    <2>5. ReaderTyped'
      BY <1>1, <2>3, <2>4 DEF ReaderTyped, WritersTyped, Opened, Start
    <2>6. SnapshotOK'
      <3>1. InstantsApart(reader.snap.since)'
        BY <1>1, <2>3, Frozen DEF InstantsApart, WritesOK
      <3>2. \A r : Table(r)' = Table(r)
        BY <1>1, Frozen
      <3>3. total = Cardinality(Listed(db, reader.viewer))'
        BY <1>1, <2>3, ListedFrozen
      <3>4. scenario.scope = "replies" => Visible(db, scenario.target)
        BY <1>3 DEF Found
      <3>5. \A r \in Rows : db.since[r] # 0 => Seen(r, db.since[r])
        <4>1. \A r \in Rows : db.since[r] \in Int
          BY DEF WritersTyped, Database, Times
        <4> QED
          BY <4>1 DEF WritesOK, Seen
      <3>6. (reader.total = Cardinality(Listed(reader.snap, reader.viewer)))'
        <4>1. \A d, v : Listed(d, v)' = Listed(d, v)
          BY <1>1, ListedFrozen
        <4> QED
          BY <2>3, <4>1
      <3> HIDE DEF total
      <3> QED
        BY <1>1, <2>3, <2>4, <3>1, <3>2, <3>4, <3>5, <3>6 DEF SnapshotOK, Opened, Seen, Visible
    <2>7. ~Chosen' /\ ~Chosen
      BY <1>1, <2>3 DEF Chosen
    <2>8. PageOK'
      BY <1>1, <2>3, <2>7 DEF PageOK, Busy, Chosen
    <2>9. reader'.snap = db
      <3> HIDE DEF total
      <3> QED
        BY <2>1 DEF Inv, ReaderOK, Shaped
    <2>10. UNCHANGED <<scenario, now, db, pending, writes, cursor, scan>>
      BY <1>1
    <2> QED
      BY <2>2, <2>5, <2>6, <2>8, <2>9, <2>10, RequestKeeps
  <1> QED
    BY <1>2, <1>3

\* What is selected is a page.
LEMMA SelectPages ==
    ASSUME PagesInv, Select
    PROVE  PagesInv'
  <1> USE DEF PagesInv
  <1> DEFINE d == reader.snap
             L == Listed(d, reader.viewer)
             S == Remaining(d, reader.viewer, reader.ceiling, reader.position)
             F == FirstOf(d, S, reader.limit)
             page == {Event(d, r) : r \in F}
             next == NextPosition(d, S, reader.limit)
  <1>1. /\ UNCHANGED <<scenario, now, db, pending, writes, cursor, scan>>
        /\ reader.pc = "reading" /\ reader.ceiling # 0
        /\ reader' = [reader EXCEPT !.pc = "selected", !.page = page, !.next = next]
    BY DEF Select, Instant
  <1>2. Inv' /\ Opened /\ Busy
    BY <1>1, SelectStep DEF Opened, Busy
  <1>3. /\ reader'.pc = "selected" /\ reader'.page = page /\ reader'.next = next
        /\ reader'.snap = reader.snap /\ reader'.total = reader.total /\ reader'.position = reader.position
        /\ reader'.limit = reader.limit /\ reader'.viewer = reader.viewer /\ reader'.ceiling = reader.ceiling
    <2> HIDE DEF page, next
    <2> QED
      BY <1>1 DEF Inv, ReaderOK, Shaped
  <1>4. /\ scenario \in Scenarios /\ d \in Database /\ InstantsApart(d.since)
        /\ reader.limit \in Nat \ {0}
        /\ reader.total = Cardinality(L)
    BY <1>2 DEF Inv, ReaderTyped, SnapshotOK, PageOK
  <1>5. \A r : r \in S <=> r \in L /\ d.since[r] <= reader.ceiling /\ After(Key(d, r), reader.position)
    BY DEF Remaining
  <1>6. S \in SUBSET L /\ L \subseteq Rows
    <2>1. L \subseteq Rows
      BY <1>4, ListedRows
    <2> QED
      BY <1>5, <2>1
  <1> HIDE DEF S
  <1>7. /\ F \subseteq S
        /\ Cardinality(S) <= reader.limit => F = S
        /\ S # {} => F # {}
        /\ \A q \in F, r \in S \ F : Precedes(Key(d, q), Key(d, r))
    <2> HIDE DEF L
    <2>1. S \in SUBSET Listed(d, reader.viewer)
      BY <1>6 DEF L
    <2> QED
      BY <1>4, <2>1, FirstRows
  <1>8. \A r \in L : Key(d, r) \in Keys /\ Key(d, r) # Start
    <2>1. \A r : Key(d, r) # Start
      BY DEF Key, Start
    <2> QED
      BY <1>4, <1>6, <2>1, KeyTyped
  <1>9. /\ Cardinality(S) \in Nat /\ IsFiniteSet(F) /\ IsFiniteSet(L)
        /\ Cardinality(F) \in Nat /\ Cardinality(L) \in Nat /\ Cardinality(F) <= Cardinality(L)
    <2>1. IsFiniteSet(L)
      BY <1>4, <1>6, RowFields, FS_Subset
    <2>2. IsFiniteSet(S) /\ F \in SUBSET L
      BY <1>6, <1>7, <2>1, FS_Subset
    <2> HIDE DEF L, F
    <2> QED
      BY <2>1, <2>2, FS_Subset, FS_CardinalityType
  <1>10. next # Start => \E x \in F : next = Key(d, x) /\ \A y \in F \ {x} : Precedes(Key(d, y), Key(d, x))
    <2> SUFFICES ASSUME next # Start
                 PROVE  \E x \in F : next = Key(d, x) /\ \A y \in F \ {x} : Precedes(Key(d, y), Key(d, x))
      OBVIOUS
    <2>1. next = Last(d, F) /\ Cardinality(S) > reader.limit
      BY DEF NextPosition
    <2>2. S # {}
      BY <1>4, <2>1, FS_EmptySet
    <2>3. F \in SUBSET Listed(d, reader.viewer) /\ F # {}
      BY <1>6, <1>7, <2>2
    <2>4. \E x \in F : Last(d, F) = Key(d, x) /\ \A y \in F \ {x} : Precedes(Key(d, y), Key(d, x))
      <3> HIDE DEF F
      <3> QED
        BY <1>4, <2>3, LastRow
    <2> QED
      BY <2>1, <2>4
  <1>11. F # S => next # Start
    <2> SUFFICES ASSUME F # S PROVE next # Start
      OBVIOUS
    <2>1. Cardinality(S) > reader.limit
      BY <1>4, <1>7, <1>9
    <2>2. next = Last(d, F)
      BY <2>1 DEF NextPosition
    <2>3. S # {}
      BY <1>7
    <2>4. F \in SUBSET Listed(d, reader.viewer) /\ F # {}
      BY <1>6, <1>7, <2>3
    <2>5. \E x \in F : Last(d, F) = Key(d, x)
      <3> HIDE DEF F
      <3> QED
        BY <1>4, <2>4, LastRow
    <2> QED
      BY <1>6, <1>7, <1>8, <2>2, <2>5
  <1>12. Cardinality(page) <= reader.total
    <2> DEFINE f == [r \in F |-> Event(d, r)]
    <2>1. f \in Surjection(F, page)
      BY DEF Surjection
    <2>2. Cardinality(page) <= Cardinality(F) /\ IsFiniteSet(page)
      <3> HIDE DEF f, page, F
      <3> QED
        BY <1>9, <2>1, FS_Surjection
    <2>3. Cardinality(page) \in Nat
      <3> HIDE DEF page
      <3> QED
        BY <2>2, FS_CardinalityType
    <2> QED
      BY <1>4, <1>9, <2>2, <2>3
  <1>13. \A r : Event(d, r).row = r /\ Event(d, r).key = Key(d, r)
    BY DEF Event
  <1> HIDE DEF F, next, L
  <1>14. page \subseteq Events /\ next \in Keys \cup {Start}
    <2>1. \A r \in F : Event(d, r) \in Events
      BY <1>6, <1>7, <1>8 DEF Event, Events
    <2> QED
      BY <1>6, <1>7, <1>8, <1>10, <2>1
  <1>15. /\ \A e \in page : /\ e.row \in L
                            /\ e = Event(d, e.row)
                            /\ After(e.key, reader.position)
         /\ \A r \in L : d.since[r] <= reader.ceiling /\ After(Key(d, r), reader.position)
                => Event(d, r) \in page \/ (next # Start /\ Precedes(next, Key(d, r)))
         /\ next # Start =>
                \E e \in page : e.key = next /\ \A g \in page : g = e \/ Precedes(g.key, next)
    <2>1. ASSUME NEW e \in page
          PROVE  e.row \in L /\ e = Event(d, e.row) /\ After(e.key, reader.position)
      <3>1. PICK r \in F : e = Event(d, r)
        OBVIOUS
      <3> HIDE DEF page
      <3>2. e.row = r /\ e.key = Key(d, r) /\ r \in S
        BY <1>7, <1>13, <3>1
      <3> QED
        BY <1>5, <3>1, <3>2
    <2>2. ASSUME NEW r \in L, d.since[r] <= reader.ceiling, After(Key(d, r), reader.position)
          PROVE  Event(d, r) \in page \/ (next # Start /\ Precedes(next, Key(d, r)))
      <3>1. r \in S
        BY <1>5, <2>2
      <3>2. CASE r \in F
        BY <3>2
      <3>3. CASE r \notin F
        <4>1. next # Start
          BY <1>11, <3>1, <3>3
        <4>2. PICK x \in F : next = Key(d, x)
          BY <1>10, <4>1
        <4> QED
          BY <1>7, <3>1, <3>3, <4>1, <4>2
      <3> QED
        BY <3>2, <3>3
    <2>3. ASSUME next # Start
          PROVE  \E e \in page : e.key = next /\ \A g \in page : g = e \/ Precedes(g.key, next)
      <3>1. PICK x \in F : next = Key(d, x) /\ \A y \in F \ {x} : Precedes(Key(d, y), Key(d, x))
        BY <1>10, <2>3
      <3>2. Event(d, x) \in page /\ Event(d, x).key = next
        BY <1>13, <3>1
      <3>3. ASSUME NEW g \in page PROVE g = Event(d, x) \/ Precedes(g.key, next)
        <4>1. PICK y \in F : g = Event(d, y)
          OBVIOUS
        <4> HIDE DEF page
        <4> QED
          BY <1>13, <3>1, <4>1
      <3> QED
        BY <3>2, <3>3
    <2> QED
      BY <2>1, <2>2, <2>3
  <1> HIDE DEF page, d
  <1>16. /\ Times' = Times /\ Keys' = Keys /\ Events' = Events /\ Database' = Database /\ Rows' = Rows
         /\ \A k, l : (Precedes(k, l)' <=> Precedes(k, l)) /\ (After(k, l)' <=> After(k, l))
         /\ \A b, r : Key(b, r)' = Key(b, r) /\ Event(b, r)' = Event(b, r)
         /\ \A b, v : Listed(b, v)' = Listed(b, v)
    BY <1>1, Frozen, ListedFrozen
  <1>17. Opened' /\ Chosen' /\ Busy'
    BY <1>3 DEF Opened, Chosen, Busy
  <1>18. ReaderTyped'
    BY <1>1, <1>2, <1>3, <1>14, <1>16 DEF ReaderTyped, Start
  <1>19. SnapshotOK'
    <2>1. InstantsApart(reader.snap.since)' <=> InstantsApart(reader.snap.since)
      BY <1>1, <1>3, Frozen DEF InstantsApart
    <2>2. \A r : Table(r)' = Table(r)
      BY <1>1, Frozen
    <2> QED
      BY <1>1, <1>2, <1>3, <1>16, <2>1, <2>2 DEF SnapshotOK, Seen, Visible
  <1>20. Paged'
    BY <1>1, <1>3, <1>12, <1>15, <1>16 DEF Paged, Start, d, L
  <1>21. PageOK'
    BY <1>1, <1>2, <1>3, <1>17, <1>20 DEF PageOK
  <1> QED
    BY <1>1, <1>2, <1>3, <1>18, <1>19, <1>21, RequestKeeps

LEMMA HydratePages ==
    ASSUME PagesInv, Hydrate
    PROVE  PagesInv'
  <1> USE DEF PagesInv
  <1> DEFINE d == reader.snap
             posts == {Counted(d, p) : p \in {q \in {PostOf(e.row) : e \in reader.page} : Visible(d, q)}}
  <1>1. /\ UNCHANGED <<scenario, now, db, pending, writes, cursor, scan>>
        /\ reader.pc = "selected"
        /\ reader' = [reader EXCEPT !.pc = "hydrated", !.posts = posts]
    BY DEF Hydrate, Instant
  <1>2. Inv' /\ Opened /\ Busy /\ Chosen
    BY <1>1, HydrateStep DEF Opened, Busy, Chosen
  <1>3. /\ reader'.pc = "hydrated" /\ reader'.posts = posts /\ reader'.page = reader.page /\ reader'.next = reader.next
        /\ reader'.snap = reader.snap /\ reader'.total = reader.total /\ reader'.position = reader.position
        /\ reader'.limit = reader.limit /\ reader'.viewer = reader.viewer /\ reader'.ceiling = reader.ceiling
    <2> HIDE DEF posts
    <2> QED
      BY <1>1 DEF Inv, ReaderOK, Shaped
  <1>4. ASSUME NEW e \in reader.page PROVE Counted(d, PostOf(e.row)) \in posts
    <2>1. e.row \in Listed(d, reader.viewer) /\ d \in Database /\ scenario \in Scenarios
      BY <1>2 DEF PageOK, Paged, ReaderTyped, Inv
    <2>2. Visible(d, PostOf(e.row))
      <3>1. CASE scenario.scope = "replies"
        <4>1. e.row \in Replies
          BY <2>1, <3>1, ListedRows
        <4>2. Visible(d, scenario.target)
          BY <1>2, <3>1 DEF SnapshotOK
        <4> QED
          BY <4>1, <4>2 DEF Replies
      <3>2. CASE scenario.scope # "replies"
        BY <2>1, <3>2, ListedRows
      <3> QED
        BY <3>1, <3>2
    <2> QED
      BY <2>2
  <1> HIDE DEF posts, d
  <1>5. /\ Times' = Times /\ Keys' = Keys /\ Events' = Events /\ Database' = Database /\ Rows' = Rows
        /\ \A k, l : (Precedes(k, l)' <=> Precedes(k, l)) /\ (After(k, l)' <=> After(k, l))
        /\ \A b, r : Key(b, r)' = Key(b, r) /\ Event(b, r)' = Event(b, r)
        /\ \A b, v : Listed(b, v)' = Listed(b, v)
        /\ \A r : PostOf(r)' = PostOf(r) /\ Table(r)' = Table(r)
    BY <1>1, Frozen, ListedFrozen
  <1>6. Opened' /\ Chosen' /\ Busy'
    BY <1>3 DEF Opened, Chosen, Busy
  <1>7. ReaderTyped'
    BY <1>1, <1>2, <1>3, <1>5 DEF ReaderTyped, Start
  <1>8. SnapshotOK'
    <2>1. InstantsApart(reader.snap.since)' <=> InstantsApart(reader.snap.since)
      BY <1>1, <1>3, Frozen DEF InstantsApart
    <2> QED
      BY <1>1, <1>2, <1>3, <1>5, <2>1 DEF SnapshotOK, Seen, Visible
  <1>9. Paged'
    BY <1>1, <1>2, <1>3, <1>5 DEF PageOK, Paged, Start
  <1>10. \A e \in reader'.page : Counted(reader'.snap, PostOf(e.row)) \in reader'.posts
    BY <1>3, <1>4 DEF d
  <1>11. PageOK'
    BY <1>1, <1>2, <1>3, <1>5, <1>6, <1>9, <1>10 DEF PageOK, Counted
  <1> QED
    BY <1>1, <1>2, <1>3, <1>7, <1>8, <1>11, RequestKeeps

\* The answer: what was read grows by a page, and the cursor moves to its end.
LEMMA AnswerPages ==
    ASSUME PagesInv, Answer
    PROVE  PagesInv'
  <1> USE DEF PagesInv
  <1> DEFINE d == reader.snap
             L == Listed(d, reader.viewer)
             readable == {Event(d, r) : r \in {q \in L : d.since[q] <= reader.ceiling}}
  <1>1. /\ UNCHANGED <<scenario, now, db, pending, writes>>
        /\ reader.pc = "hydrated" /\ reader' = Idle
        /\ cursor' = Continuation(reader)
    BY DEF Answer
  <1>2. Busy /\ Opened /\ Chosen /\ ~scan.ended
    BY <1>1 DEF Busy, Opened, Chosen, Inv, ReaderOK
  <1>3. /\ Inv'
        /\ WritersTyped' /\ WritesOK'
    BY <1>1, AnswerStep, WritersKeep
  <1>4. /\ scan'.delivered = scan.delivered \cup reader.page
        /\ scan'.kept = IF scan = Unread THEN readable ELSE scan.kept \cap readable
        /\ scan'.seen = readable
        /\ scan'.ended <=> reader.next = Start
    <2> DEFINE ceiling == IF scan = Unread THEN reader.ceiling ELSE scan.ceiling
    <2>1. ceiling = reader.ceiling
      BY <1>2 DEF Inv, CursorOK, ReaderOK
    <2>2. scan' = [delivered |-> scan.delivered \cup reader.page,
                   kept |-> IF scan = Unread THEN readable ELSE scan.kept \cap readable,
                   seen |-> readable,
                   ceiling |-> ceiling,
                   audience |-> scan.audience \cup {SessionAccount(reader.snap, reader.token)},
                   ended |-> reader.next = Start]
      BY <2>1 DEF Answer
    <2> HIDE DEF ceiling, readable
    <2> QED
      BY <2>2
  <1>5. /\ cursor'.position = reader.next
        /\ reader.next # Start =>
               cursor' = [bound |-> BoundTo(reader.viewer), ceiling |-> reader.ceiling, position |-> reader.next]
        /\ reader.next = Start => cursor' = NoCursor
    BY <1>1 DEF Continuation, NoCursor
  <1>6. /\ Paged /\ scenario \in Scenarios /\ d \in Database
        /\ reader.position = cursor.position
        /\ reader.page \subseteq Events
    BY <1>2 DEF PageOK, Inv, ReaderTyped
  <1>7. /\ Times' = Times /\ Keys' = Keys /\ Events' = Events /\ Replies' = Replies
        /\ \A r : Table(r)' = Table(r) /\ PostOf(r)' = PostOf(r)
        /\ \A k, l : (Precedes(k, l)' <=> Precedes(k, l)) /\ (After(k, l)' <=> After(k, l))
        /\ \A b, r : Key(b, r)' = Key(b, r) /\ Event(b, r)' = Event(b, r)
    BY <1>1, Frozen
  <1>8. \A r : Event(d, r).row = r /\ Event(d, r).key = Key(d, r)
    BY DEF Event
  <1>9. \A r \in L : r \in Rows /\ d.since[r] # 0 /\ Key(d, r) \in Keys /\ Key(d, r) \in Quads
    BY <1>6, ListedRows, KeyTyped DEF Visible
  <1>10. \A e \in reader.page : e.row \in L /\ e = Event(d, e.row) /\ e.key = Key(d, e.row) /\ After(e.key, reader.position)
    BY <1>6, <1>8 DEF Paged
  <1>11. \A r \in L : d.since[r] <= reader.ceiling /\ After(Key(d, r), reader.position)
            => Event(d, r) \in reader.page \/ (reader.next # Start /\ Precedes(reader.next, Key(d, r)))
    BY <1>6 DEF Paged
  <1>12. reader.next # Start =>
            \E e \in reader.page :
                e.key = reader.next /\ \A f \in reader.page : f = e \/ Precedes(f.key, reader.next)
    BY <1>6 DEF Paged
  <1>13. scan.delivered # {} => cursor.position # Start
    BY <1>2 DEF DeliveredOK
  <1>14. SnapshotOK' /\ PageOK' /\ ~Opened' /\ ~Busy' /\ ~Chosen'
    <2>1. reader'.pc = "idle" /\ reader'.page = {}
      BY <1>1, IdleFields
    <2> QED
      BY <2>1 DEF SnapshotOK, PageOK, Opened, Busy, Chosen
  <1>15. ReaderTyped'
    <2>1. readable \subseteq Events
      BY <1>8, <1>9 DEF Event, Events
    <2>2. cursor' \in [bound : Viewers \cup {NoViewer}, ceiling : Times, position : Keys \cup {Start}]
      <3>1. BoundTo(reader.viewer) \in Viewers \cup {NoViewer} /\ 0 \in Times
        BY <1>2, RowFields DEF BoundTo, PageOK, Times, Inv
      <3> QED
        BY <1>5, <3>1 DEF NoCursor, ReaderTyped, Start
    <2> HIDE DEF readable
    <2>3. scan'.delivered \subseteq Events /\ scan'.kept \subseteq Events /\ scan'.seen \subseteq Events
      BY <1>4, <1>6, <2>1 DEF ReaderTyped
    <2>4. 0 \in Times
      BY RowFields DEF Times, Inv
    <2> QED
      BY <1>1, <1>7, <1>14, <2>2, <2>3, <2>4, IdleFields DEF ReaderTyped, Start
  <1> HIDE DEF readable
  <1>16. DeliveredOK'
    <2>1. ASSUME NEW e \in reader.page PROVE Placed(e) /\ e.key[2] # 0 /\ Seen(e.row, e.key[2])
      <3>1. e.key = Key(d, e.row) /\ e.row \in Rows /\ d.since[e.row] # 0
        BY <1>9, <1>10
      <3>2. Placed(e)
        BY <3>1 DEF Placed, Key
      <3>3. e.key[2] = d.since[e.row]
        BY <3>1 DEF Key
      <3>4. Seen(e.row, d.since[e.row])
        BY <1>2, <3>1 DEF SnapshotOK
      <3> QED
        BY <3>1, <3>2, <3>3, <3>4
    <2>2. ASSUME NEW e \in scan.delivered \cup reader.page
          PROVE  Placed(e)' /\ e.key[2] # 0 /\ Seen(e.row, e.key[2])'
      <3>1. Placed(e) /\ e.key[2] # 0 /\ Seen(e.row, e.key[2])
        BY <2>1 DEF DeliveredOK
      <3>2. Placed(e)'
        BY <1>1, <1>7, <3>1 DEF Placed
      <3>3. Seen(e.row, e.key[2])'
        BY <1>1, <1>7, <3>1 DEF Seen
      <3> QED
        BY <3>1, <3>2, <3>3
    <2>3. ASSUME reader.next # Start, NEW e \in scan.delivered \cup reader.page
          PROVE  e.key = reader.next \/ Precedes(e.key, reader.next)
      <3>1. PICK x \in reader.page : x.key = reader.next /\ \A f \in reader.page : f = x \/ Precedes(f.key, reader.next)
        BY <1>12, <2>3
      <3>2. CASE e \in reader.page
        BY <3>1, <3>2
      <3>3. CASE e \in scan.delivered
        <4>1. cursor.position # Start /\ (e.key = cursor.position \/ Precedes(e.key, cursor.position))
          BY <1>13, <3>3 DEF DeliveredOK
        <4>2. Precedes(cursor.position, reader.next)
          BY <1>6, <1>10, <3>1, <4>1 DEF After
        <4>3. e.key \in Quads /\ cursor.position \in Quads /\ reader.next \in Quads
          <5>1. Keys \subseteq Quads
            BY RowFields DEF Keys, Quads, Times, Inv
          <5> QED
            BY <2>3, <3>3, <4>1, <5>1 DEF ReaderTyped, Events
        <4> QED
          BY <4>1, <4>2, <4>3, PrecedesOrders
      <3> QED
        BY <3>2, <3>3
    <2>4. ~scan'.ended => cursor'.position # Start
      BY <1>4, <1>5
    <2> QED
      BY <1>4, <1>5, <1>7, <1>14, <2>2, <2>3, <2>4 DEF DeliveredOK, Start
  <1>17. NothingSkipped'
    <2> SUFFICES ASSUME NEW e \in scan'.kept, scan'.ended \/ ~After(e.key, cursor'.position)
                 PROVE  e \in scan'.delivered
      BY <1>7 DEF NothingSkipped
    <2>1. PICK r \in L : e = Event(d, r) /\ d.since[r] <= reader.ceiling
      BY <1>4 DEF readable
    <2>2. e.key = Key(d, r)
      BY <1>8, <2>1
    <2>3. CASE After(e.key, reader.position)
      <3>1. CASE reader.next # Start /\ Precedes(reader.next, Key(d, r))
        BY <1>4, <1>5, <2>2, <3>1 DEF After
      <3> QED
        BY <1>4, <1>11, <2>1, <2>2, <2>3, <3>1
    <2>4. CASE ~After(e.key, reader.position)
      <3>1. reader.position # Start
        BY <2>4 DEF After
      <3>2. scan # Unread
        BY <1>6, <3>1 DEF Inv, CursorOK, NoCursor
      <3>3. e \in scan.kept
        BY <1>4, <3>2
      <3> QED
        BY <1>4, <1>6, <2>4, <3>3 DEF NothingSkipped
    <2> QED
      BY <2>3, <2>4
  <1>18. ASSUME scenario.sort = "oldest"
         PROVE  /\ scenario.scope = "replies"
                /\ \A r : r \in L <=> r \in Replies /\ Visible(d, r)
                /\ \A r \in L : ~After(Key(d, r), reader.position) => Event(d, r) \in scan.delivered
    <2>1. scenario.scope = "replies"
      BY <1>6, <1>18, ScenarioAssumption
    <2>2. \A r : r \in L <=> r \in Replies /\ Visible(d, r)
      BY <2>1 DEF Listed
    <2>3. CompleteIn(d)
      BY <1>2, <1>18 DEF RepliesOK
    <2> HIDE DEF d, L
    <2>4. \A r \in L : ~After(Key(d, r), reader.position) => Event(d, r) \in scan.delivered
      BY <1>6, <2>2, <2>3 DEF CompleteIn, After
    <2> QED
      BY <2>1, <2>2, <2>4
  <1>19. RepliesComplete'
    <2> SUFFICES ASSUME scan'.ended, scenario.sort = "oldest", NEW e \in scan'.seen
                 PROVE  e \in scan'.delivered
      BY <1>1 DEF RepliesComplete
    <2>1. PICK r \in L : e = Event(d, r) /\ d.since[r] <= reader.ceiling
      BY <1>4 DEF readable
    <2>2. reader.next = Start
      BY <1>4
    <2>3. CASE After(Key(d, r), reader.position)
      BY <1>4, <1>11, <2>1, <2>2, <2>3
    <2>4. CASE ~After(Key(d, r), reader.position)
      BY <1>4, <1>18, <2>1, <2>4
    <2> QED
      BY <2>3, <2>4
  <1>20. RepliesOK'
    <2> SUFFICES ASSUME scenario.sort = "oldest" PROVE RepliesOK'
      BY <1>1 DEF RepliesOK
    <2>1. CASE reader.next = Start
      BY <1>5, <1>14, <2>1 DEF RepliesOK, CompleteIn, Start
    <2>2. CASE reader.next # Start
      <3>1. PICK x \in reader.page : x.key = reader.next
        BY <1>12, <2>2
      <3>2. /\ x.row \in L /\ x.row \in Replies /\ x.row \in Rows /\ d.since[x.row] # 0
            /\ reader.next = Key(d, x.row) /\ x.key[2] <= reader.ceiling
        BY <1>2, <1>9, <1>10, <1>18, <3>1 DEF Inv, ReaderOK
      <3>3. \A r \in Replies : Key(d, r) = <<0, d.since[r], 0, r>> /\ Key(db, r) = <<0, db.since[r], 0, r>>
        BY DEF Replies, Key
      <3>4. \A r \in Replies : r \in Rows /\ d.since[r] \in Nat /\ db.since[r] \in Nat
        BY <1>6 DEF Replies, WritersTyped, Database, Times
      <3>5. \A r \in Replies : db.since[r] # d.since[r] =>
                d.since[r] = 0 /\ \A q \in Replies : d.since[q] < db.since[r]
        BY <1>2 DEF RepliesOK
      <3>6. db.since[x.row] = d.since[x.row] /\ reader.next = Key(db, x.row)
        BY <3>2, <3>3, <3>5
      <3>7. ASSUME NEW r \in Replies, Visible(db, r), ~Precedes(reader.next, Key(db, r))
            PROVE  Event(db, r) \in scan'.delivered
        <4>1. ~Less(Key(d, x.row), Key(db, r))
          BY <3>2, <3>7 DEF Precedes
        <4>2. /\ Key(d, x.row) \in Quads /\ Key(db, r) \in Quads
              /\ Key(d, x.row)[1] = 0 /\ Key(d, x.row)[2] = d.since[x.row]
              /\ Key(db, r)[1] = 0 /\ Key(db, r)[2] = db.since[r]
          <5>1. Key(db, r) \in Quads
            BY <1>6, <3>4, KeyTyped DEF WritersTyped
          <5> QED
            BY <1>9, <3>2, <3>3, <5>1
        <4>3. ~(d.since[x.row] < db.since[r])
          BY <4>1, <4>2, LessMeans
        <4>4. db.since[r] = d.since[r]
          BY <3>2, <3>5, <4>3
        <4>5. Event(db, r) = Event(d, r) /\ Key(db, r) = Key(d, r)
          BY <3>3, <4>4 DEF Event
        <4>6. Visible(d, r)
          BY <1>2, <3>7, <4>4 DEF Visible, SnapshotOK
        <4>7. r \in L
          BY <1>18, <4>6
        <4>8. d.since[r] <= reader.ceiling
          <5>1. d.since[x.row] <= reader.ceiling
            BY <1>10, <3>2, <4>2
          <5>2. reader.ceiling \in Nat
            BY RowFields DEF ReaderTyped, Times, Inv
          <5> QED
            BY <3>2, <3>4, <4>3, <4>4, <5>1, <5>2
        <4>9. CASE After(Key(d, r), reader.position)
          BY <1>4, <1>11, <3>7, <4>5, <4>7, <4>8, <4>9
        <4>10. CASE ~After(Key(d, r), reader.position)
          BY <1>4, <1>18, <4>5, <4>7, <4>10
        <4> QED
          BY <4>9, <4>10
      <3>8. /\ \A r : Key(db, r)' = Key(db, r) /\ Event(db, r)' = Event(db, r)
        <4>1. scenario' = scenario /\ db' = db
          BY <1>1
        <4> QED
          BY <4>1 DEF Event, Key, Table, PostOf
      <3>9. CompleteIn(db)'
        BY <1>1, <1>5, <1>7, <3>7, <3>8 DEF CompleteIn, Visible, Start
      <3>10. (\E r \in Replies : db.since[r] # 0 /\ cursor.position = Key(db, r))'
        BY <1>1, <1>5, <1>7, <3>2, <3>6, <3>8
      <3> QED
        BY <1>14, <3>9, <3>10 DEF RepliesOK
    <2> QED
      BY <2>1, <2>2
  <1> QED
    BY <1>3, <1>14, <1>15, <1>16, <1>17, <1>19, <1>20

LEMMA StartOverPages ==
    ASSUME PagesInv, StartOver
    PROVE  PagesInv'
  <1> USE DEF PagesInv
  <1>1. /\ UNCHANGED <<scenario, now, db, pending, writes, reader>> /\ reader.pc = "idle"
        /\ cursor' = NoCursor /\ scan' = Unread
    BY DEF StartOver
  <1>2. Inv' /\ WritersTyped' /\ WritesOK'
    BY <1>1, StartOverStep, WritersKeep
  <1>3. reader.page = {}
    BY <1>1 DEF PageOK, Chosen
  <1>4. SnapshotOK' /\ PageOK' /\ ~Opened'
    BY <1>1, <1>3 DEF SnapshotOK, PageOK, Opened, Busy, Chosen
  <1>5. /\ cursor'.position = Start /\ scan'.delivered = {} /\ scan'.kept = {} /\ scan'.seen = {}
        /\ cursor'.bound = NoViewer /\ cursor'.ceiling = 0
    BY <1>1 DEF NoCursor, Unread
  <1>6. Times' = Times /\ Keys' = Keys /\ Events' = Events
    BY <1>1, Frozen
  <1>7. ReaderTyped'
    <2>1. 0 \in Times
      BY RowFields DEF Times, Inv
    <2>2. cursor' \in [bound : Viewers \cup {NoViewer}, ceiling : Times, position : Keys \cup {Start}]
      BY <1>1, <2>1 DEF NoCursor
    <2> QED
      BY <1>1, <1>4, <1>5, <1>6, <2>2 DEF ReaderTyped, Start
  <1>8. DeliveredOK' /\ RepliesOK' /\ NothingSkipped' /\ RepliesComplete'
    BY <1>4, <1>5 DEF DeliveredOK, RepliesOK, CompleteIn, NothingSkipped, RepliesComplete, Start
  <1> QED
    BY <1>2, <1>4, <1>7, <1>8

LEMMA InitPages == Init => PagesInv
  <1> SUFFICES ASSUME Init PROVE PagesInv
    OBVIOUS
  <1>1. scenario \in Scenarios /\ now = scenario.startTime
    BY DEF Init
  <1>2. PICK since \in [Rows -> 0 .. scenario.startTime],
             follows \in SUBSET ((scenario.readers \ {NoViewer}) \X {Actor(r) : r \in Rows}) :
          /\ Initially(since)
          /\ scenario.view = "following" \/ follows = {}
          /\ db = [since |-> since, deleted |-> {}, follows |-> follows, score |-> [r \in Rows |-> 0],
                   listed |-> Rows, sessions |-> scenario.readers \ {NoViewer}, disabled |-> {}]
    BY DEF Init
  <1>3. /\ pending = {} /\ writes = 0 /\ reader = Idle /\ cursor = NoCursor /\ scan = Unread
    BY DEF Init
  <1>4. Inv
    BY InitInv
  <1>5. /\ scenario.startTime \in Times \ {0} /\ 0 .. scenario.startTime \subseteq Times /\ 0 \in Times
        /\ scenario.maxWrites \in Nat
        /\ scenario.readers \subseteq Viewers \cup {NoViewer}
    BY <1>1, RowFields, ScenarioAssumption DEF Times
  <1>6. db.since = since /\ db.since \in [Rows -> Times]
    BY <1>2, <1>5
  <1>7. db \in Database
    <2>1. follows \subseteq Viewers \X Accounts
      BY <1>2, <1>5 DEF Accounts
    <2>2. [r \in Rows |-> 0] \in [Rows -> 0..1]
      OBVIOUS
    <2>3. scenario.readers \ {NoViewer} \subseteq Viewers
      BY <1>5
    <2> QED
      BY <1>2, <1>5, <1>6, <2>1, <2>2, <2>3 DEF Database
  <1>8. WritersTyped
    BY <1>1, <1>3, <1>5, <1>7 DEF WritersTyped
  <1>9. WritesOK
    <2>1. InstantsApart(db.since)
      BY <1>2, <1>6 DEF Initially, InstantsApart
    <2>2. \A r \in Rows : db.since[r] <= now
      BY <1>1, <1>5, <1>6 DEF Times
    <2> QED
      BY <1>3, <2>1, <2>2 DEF WritesOK
  <1>10. reader.pc = "idle" /\ reader.page = {} /\ reader.next = Start /\ reader.position = Start /\ reader.ceiling = 0
    BY <1>3, IdleFields
  <1>11. /\ cursor.position = Start /\ scan.delivered = {} /\ scan.kept = {} /\ scan.seen = {}
    BY <1>3 DEF NoCursor, Unread
  <1>12. SnapshotOK /\ PageOK /\ ~Opened
    BY <1>10 DEF SnapshotOK, PageOK, Opened, Busy, Chosen
  <1>13. ReaderTyped
    <2>1. cursor \in [bound : Viewers \cup {NoViewer}, ceiling : Times, position : Keys \cup {Start}]
      BY <1>3, <1>5 DEF NoCursor
    <2> QED
      BY <1>5, <1>10, <1>11, <1>12, <2>1 DEF ReaderTyped
  <1>14. DeliveredOK /\ RepliesOK /\ NothingSkipped /\ RepliesComplete
    BY <1>11, <1>12 DEF DeliveredOK, RepliesOK, CompleteIn, NothingSkipped, RepliesComplete
  <1> QED
    BY <1>4, <1>8, <1>9, <1>12, <1>13, <1>14 DEF PagesInv

LEMMA NextPages ==
    ASSUME PagesInv, [Next]_vars
    PROVE  PagesInv'
  <1>1. ASSUME NEW r \in Rows, Insert(r) \/ Remove(r) \/ SetReaction(r) \/ MoveJob(r) PROVE PagesInv'
    <2>1. CASE Insert(r)
      BY <2>1, InsertEffect, EffectKeeps
    <2>2. CASE Remove(r) /\ Table(r) = "bookmark"
      BY <2>2, TakeAwayEffect, EffectKeeps
    <2>3. CASE \/ Remove(r) /\ Table(r) # "bookmark"
               \/ SetReaction(r) \/ MoveJob(r)
      BY <2>3, RowWriteEffect, EffectKeeps
    <2> QED
      BY <1>1, <2>1, <2>2, <2>3
  <1>2. ASSUME NEW p \in pending, Commit(p) \/ Rollback(p) PROVE PagesInv'
    BY <1>2, CommitEffect, RollbackEffect, EffectKeeps
  <1>3. ASSUME NEW v \in scenario.readers \ {NoViewer}, NEW a \in Accounts, SetFollow(v, a) PROVE PagesInv'
    BY <1>3, AccountWriteEffect, EffectKeeps
  <1>4. ASSUME NEW v \in scenario.readers \ {NoViewer}, SwitchSession(v) PROVE PagesInv'
    BY <1>4, AccountWriteEffect, EffectKeeps
  <1>5. ASSUME NEW a \in Accounts, DisableAccount(a) PROVE PagesInv'
    BY <1>5, AccountWriteEffect, EffectKeeps
  <1>6. CASE Tick
    BY <1>6, TickEffect, EffectKeeps
  <1>7. ASSUME NEW token, NEW limit \in scenario.limits, Request(token, limit) PROVE PagesInv'
    BY <1>7, RequestPages
  <1>8. CASE Lose
    BY <1>8, ToIdle DEF Lose
  <1>9. CASE UNCHANGED vars
    BY <1>9, StutterPages
  <1> QED
    BY <1>1, <1>2, <1>3, <1>4, <1>5, <1>6, <1>7, <1>8, <1>9, TakeCeilingPages, OpenSnapshotPages, SelectPages,
       HydratePages, AnswerPages, StartOverPages
       DEF Next

-----------------------------------------------------------------------------

(* What the pages say of the rows holds at every instant.                  *)
THEOREM PagesStand == Spec => []PagesInv
  BY InitPages, NextPages, PTL DEF Spec

(* Every variable keeps its type: in particular a cursor holds the key of a *)
(* row, whichever rows were inserted, taken back or deleted in between.     *)
THEOREM ReadsTypes == Spec => []TypeOK
  <1>1. PagesInv => TypeOK
    BY DEF PagesInv, Inv, WritersTyped, ReaderTyped, TypeOK, Opened
  <1> QED
    BY <1>1, PagesStand, PTL

(* A page goes on strictly after everything that was read, and only a      *)
(* moving score can show a row again (ListFeed, ListReplies, ListBookmarks, *)
(* searchPosts, ListGenerationJobs).                                       *)
THEOREM ReadsNothingTwice == Spec => []NothingRepeated
  <1>1. ASSUME PagesInv PROVE NothingRepeated
    <2> USE <1>1 DEF PagesInv
    <2> SUFFICES ASSUME NEW e \in reader.page, NEW f \in scan.delivered
                 PROVE  Precedes(f.key, e.key) /\ (scenario.sort # "reacted" => e.row # f.row)
      BY DEF NothingRepeated
    <2> DEFINE d == reader.snap
    <2>1. Chosen /\ Opened /\ Busy
      BY DEF PageOK, Chosen, Opened, Busy
    <2>2. /\ scenario \in Scenarios /\ d \in Database
          /\ e.row \in Listed(d, reader.viewer) /\ e = Event(d, e.row) /\ After(e.key, cursor.position)
          /\ ~scan.ended
      BY <2>1 DEF PageOK, Paged, ReaderTyped, Inv, ReaderOK
    <2>3. e.row \in Rows /\ e.key = Key(d, e.row) /\ d.since[e.row] # 0 /\ Visible(d, e.row)
      BY <2>2, ListedRows DEF Event, Visible
    <2>4. cursor.position # Start /\ (f.key = cursor.position \/ Precedes(f.key, cursor.position))
      BY <2>2 DEF DeliveredOK
    <2>5. Precedes(cursor.position, e.key)
      BY <2>2, <2>4 DEF After
    <2>6. f.key \in Quads /\ e.key \in Quads /\ cursor.position \in Quads
      <3>1. Keys \subseteq Quads
        BY RowFields DEF Keys, Quads, Times, Inv
      <3> QED
        BY <2>4, <3>1 DEF ReaderTyped, Events
    <2>7. Precedes(f.key, e.key)
      BY <2>4, <2>5, <2>6, PrecedesOrders
    <2>8. ASSUME scenario.sort # "reacted", e.row = f.row PROVE FALSE
      <3>1. /\ f.key[1] = e.key[1] /\ f.key[3] = e.key[3] /\ f.key[4] = e.key[4]
            /\ e.key[2] = d.since[e.row]
        BY <2>3, <2>8 DEF DeliveredOK, Placed, Key
      <3>2. f.key[2] <= e.key[2] /\ (Table(f.row) # "bookmark" => f.key[2] = e.key[2])
        BY <2>1, <2>3, <2>8, <3>1 DEF DeliveredOK, Earlier
      <3>3. /\ f.key[1] \in Int /\ f.key[2] \in Int /\ f.key[3] \in Int /\ f.key[4] \in Int
            /\ e.key[1] \in Int /\ e.key[2] \in Int /\ e.key[3] \in Int /\ e.key[4] \in Int
        BY <2>6 DEF Quads
      <3>4. CASE scenario.sort = "oldest"
        <4>1. Table(f.row) # "bookmark"
          BY <2>2, <2>8, <3>4, ListedRows, ScenarioAssumption
        <4>2. Less(f.key, e.key)
          BY <2>7, <3>4 DEF Precedes
        <4> QED
          BY <2>6, <3>1, <3>2, <3>3, <4>1, <4>2, LessMeans
      <3>5. CASE scenario.sort # "oldest"
        <4>1. Less(e.key, f.key)
          BY <2>7, <3>5 DEF Precedes
        <4> QED
          BY <2>6, <3>1, <3>2, <3>3, <4>1, LessMeans
      <3> QED
        BY <3>4, <3>5
    <2> QED
      BY <2>7, <2>8
  <1> QED
    BY <1>1, PagesStand, PTL

(* A row that stays at its place is read by the pages that pass it,        *)
(* whatever else is written between them and however often an answer is    *)
(* lost: the cursor is the last row of a page, never the one that only     *)
(* shows that there is more.                                               *)
THEOREM ReadsSkipNothing == Spec => []NothingSkipped
  <1>1. PagesInv => NothingSkipped
    BY DEF PagesInv
  <1> QED
    BY <1>1, PagesStand, PTL

(* Who reads replies oldest first to the end has all that were there at    *)
(* the last page: a reply that is committed after another was read carries *)
(* a later instant, since the post is locked from one to the other.        *)
THEOREM ReadsAllReplies == Spec => []RepliesComplete
  <1>1. PagesInv => RepliesComplete
    BY DEF PagesInv
  <1> QED
    BY <1>1, PagesStand, PTL

(* Entries, posts, counts and totals of a page come from one snapshot, so  *)
(* they fit together (readSnapshot).                                       *)
THEOREM ReadsOneInstant == Spec => []PageOfOneInstant
  <1>1. ASSUME PagesInv, reader.pc = "hydrated"
        PROVE  /\ \A e \in reader.page : \E found \in reader.posts :
                      /\ found.post = PostOf(e.row)
                      /\ scenario.sort = "reacted" => found.reactions = e.key[1]
               /\ Cardinality(reader.page) <= reader.total
    <2> USE <1>1 DEF PagesInv
    <2>1. Chosen /\ Paged
      BY DEF PageOK, Chosen
    <2>2. ASSUME NEW e \in reader.page
          PROVE  \E found \in reader.posts :
                     /\ found.post = PostOf(e.row)
                     /\ scenario.sort = "reacted" => found.reactions = e.key[1]
      <3> DEFINE found == Counted(reader.snap, PostOf(e.row))
      <3>1. found \in reader.posts
        BY DEF PageOK
      <3>2. e.key = Key(reader.snap, e.row)
        BY <2>1 DEF Paged, Event
      <3>3. /\ found.post = PostOf(e.row)
            /\ scenario.sort = "reacted" => found.reactions = e.key[1]
        BY <3>2 DEF Counted, Key
      <3> HIDE DEF found
      <3> QED
        BY <3>1, <3>3
    <2> QED
      BY <2>1, <2>2 DEF Paged
  <1>2. PagesInv => PageOfOneInstant
    BY <1>1 DEF PageOfOneInstant
  <1> QED
    BY <1>2, PagesStand, PTL
=============================================================================
