---------------------------- MODULE HumanWrites ----------------------------
(***************************************************************************)
(* What people do through the HTTP API: sessions (internal/postgres/       *)
(* auth.go) and the writes made with them (content.go, interactions.go,    *)
(* accounts.go), together with what operators do to both (operator.go).    *)
(* A transaction takes its row locks one at a time and checks each row     *)
(* under its lock; a statement that waited for a lock sees the row as it   *)
(* is then (Read Committed).  Clients repeat requests whose answer they    *)
(* did not get.                                                            *)
(*                                                                         *)
(* The generation work that a write admits or cancels in its transaction   *)
(* is the subject of GenerationAdmission and GenerationLifecycle.          *)
(***************************************************************************)
EXTENDS Integers, Sequences, FiniteSets

CONSTANTS
    Humans,     \* numbers of the human accounts
    Keys,       \* idempotency keys a client may choose, numbers
    Txs,        \* database transactions
    Scenarios   \* the instances, one of which a behaviour is about

Creations == {"post", "quote", "reply"}
Marks == {"reaction", "repost", "bookmark"}
AllOperations ==
    Creations \cup Marks \cup {"delete", "follow", "register", "login", "logout", "disable", "remove"}

ASSUME IdentifierAssumption ==
    /\ Humans = 1..Cardinality(Humans)
    /\ Keys \subseteq Nat \ {0}
    /\ \A S \in {Humans, Keys, Txs} : IsFiniteSet(S)

\* members are registered and logged in at the start, bodies are the contents
\* of requests.  Bounds: open transactions, the session tokens ever issued, and
\* posts and replies.
ASSUME ScenarioAssumption ==
    \A s \in Scenarios :
        /\ s.operations \subseteq AllOperations
        /\ s.members \subseteq Humans /\ s.members = 1..Cardinality(s.members)
        /\ 1 \in s.members
        /\ s.bodies # {} /\ IsFiniteSet(s.bodies)
        /\ {s.maxOpen, s.maxTokens, s.maxItems} \subseteq Nat \ {0}
        /\ s.maxTokens >= Cardinality(s.members)

VARIABLES
    scenario,  \* never changes
    status,    \* accounts: absent, active or disabled
    sessions,  \* the account of each token that has a row, otherwise 0
    issued,    \* how many tokens were issued
    expired,   \* tokens past their seven days
    items,     \* posts and replies, in the order of their creation
    keys,      \* idempotency_keys
    marks,     \* reactions, reposts and bookmarks
    follows,
    tx,        \* the open transactions
    answers    \* history: the creations that clients were told of

vars == <<scenario, status, sessions, issued, expired, items, keys, marks, follows, tx, answers>>
accounts == <<scenario, status, sessions, issued, expired>>
content == <<items, keys, marks, follows>>

Operations == scenario.operations
Members == scenario.members
Bodies == scenario.bodies
MaxTokens == scenario.maxTokens
MaxItems == scenario.maxItems
Tokens == 1..MaxTokens

\* about is the quoted post, or the post that is answered; by is the token.
Item == [kind : Creations, author : Humans, key : Nat, body : Bodies, about : Nat,
         deleted : BOOLEAN, by : Nat]

\* RequestHash: the operation, the content and the post it is about.
Request == [kind : Creations, body : Bodies, about : Nat]
RequestOf(item) == [kind |-> item.kind, body |-> item.body, about |-> item.about]

Key == [actor : Humans, key : Keys, request : Request, item : 1..MaxItems]
Mark == [kind : Marks, actor : Humans, post : 1..MaxItems]
Follow == [from : Humans, to : Humans]
Answer == [actor : Humans, key : Keys, request : Request, item : 1..MaxItems]

----------------------------------------------------------------------------
(* Transactions and their row locks. *)

Row == ({"account"} \X Humans) \cup ({"session"} \X Tokens) \cup ({"key"} \X Humans \X Keys)
           \cup ({"post"} \X (1..MaxItems))
Lock == [row : Row, shared : BOOLEAN]

ForUpdate(row) == [row |-> row, shared |-> FALSE]
ForShare(row) == [row |-> row, shared |-> TRUE]

\* result is the item that a repeated creation found, or a fresh one created.
Idle == [pc |-> "idle", op |-> "none", actor |-> 0, token |-> 0, key |-> 0, target |-> 0,
         body |-> 0, desired |-> FALSE, plan |-> <<>>, held |-> {}, result |-> 0]

Transaction ==
    [pc : {"idle", "open", "committed"}, op : Operations \cup {"none"}, actor : Nat, token : Nat,
     key : Nat, target : Nat, body : Bodies \cup {0}, desired : BOOLEAN, plan : Seq(Lock),
     held : SUBSET Lock, result : Nat]

Creation(t) == tx[t].op \in Creations
SessionWrite(t) == tx[t].op \in Creations \cup Marks \cup {"delete", "follow"}

\* Mutant: the hash leaves out what a reply is about.
RequestIn_NoAbout(t) == [kind |-> tx[t].op, body |-> tx[t].body]

RequestIn(t) == [kind |-> tx[t].op, body |-> tx[t].body, about |-> tx[t].target]

Conflicts(t, u) ==
    /\ t # u
    /\ tx[t].plan # <<>>
    /\ \E l \in tx[u].held : /\ l.row = Head(tx[t].plan).row
                             /\ ~(l.shared /\ Head(tx[t].plan).shared)

\* Mutant: the account is not checked again when a login commits.
AccountPasses_Stale(t, h) ==
    CASE tx[t].op = "register" -> status[h] = "absent"
      [] tx[t].op \in {"disable", "login"} -> status[h] # "absent"
      [] OTHER -> status[h] = "active"

\* The account a statement asks for: a new handle, any account for the
\* operator, and otherwise one that is not disabled.
AccountPasses(t, h) ==
    CASE tx[t].op = "register" -> status[h] = "absent"
      [] tx[t].op = "disable" -> status[h] # "absent"
      [] OTHER -> status[h] = "active"

\* The session is read again under the lock of its account.
SessionPasses(t, k) == SessionWrite(t) => sessions[k] = tx[t].actor /\ k \notin expired

\* A key that is used belongs to one request.
KeyPasses(t) ==
    \A row \in keys : row.actor = tx[t].actor /\ row.key = tx[t].key => row.request = RequestIn(t)

\* lockVisiblePost; a deletion also asks for the reply and who wrote it.
PostPasses(t, p) ==
    /\ p \in DOMAIN items
    /\ ~items[p].deleted
    /\ tx[t].op \in {"delete", "remove"} => ~items[tx[t].target].deleted
    /\ tx[t].op = "delete" => items[tx[t].target].author = tx[t].actor

Passes(t, l) ==
    CASE l.row[1] = "account" -> AccountPasses(t, l.row[2])
      [] l.row[1] = "session" -> SessionPasses(t, l.row[2])
      [] l.row[1] = "key" -> KeyPasses(t)
      [] l.row[1] = "post" -> PostPasses(t, l.row[2])

\* Mutant: a key is free again when its item was deleted.
Replayed_DeletedIsFree(t) ==
    {row \in keys : row.actor = tx[t].actor /\ row.key = tx[t].key /\ ~items[row.item].deleted}

\* What a used key leads to.
Replayed(t) == {row \in keys : row.actor = tx[t].actor /\ row.key = tx[t].key}

SessionsOf(h) == {k \in Tokens : sessions[k] = h}

\* The locks that follow: none after a repeated creation, and the sessions of
\* an account once the operator has locked it, in any order.
Remaining(t, l) ==
    CASE l.row[1] = "key" /\ Replayed(t) # {} -> {<<>>}
      [] tx[t].op = "disable" /\ l.row[1] = "account" ->
             {s \in UNION {[1..n -> {ForUpdate(<<"session", k>>) : k \in SessionsOf(l.row[2])}] :
                           n \in {Cardinality(SessionsOf(l.row[2]))}} :
              \A i, j \in DOMAIN s : i # j => s[i] # s[j]}
      [] OTHER -> {Tail(tx[t].plan)}

\* A deletion of a session that has no row locks nothing.
Exists(l) == l.row[1] = "session" => sessions[l.row[2]] # 0

\* A row that does not pass leaves only Rollback.
Acquire(t) ==
    /\ tx[t].plan # <<>>
    /\ \A u \in Txs : ~Conflicts(t, u)
    /\ LET l == Head(tx[t].plan)
       IN /\ Passes(t, l)
          /\ \E plan \in Remaining(t, l) :
                 tx' = [tx EXCEPT ![t].plan = plan,
                                  ![t].held = IF Exists(l) THEN @ \cup {l} ELSE @,
                                  ![t].result = IF l.row[1] = "key" /\ Replayed(t) # {}
                                                THEN (CHOOSE row \in Replayed(t) : TRUE).item
                                                ELSE @]
    /\ UNCHANGED <<accounts, content, answers>>

Begin(t, transaction) ==
    /\ tx[t].pc = "idle"
    /\ Cardinality({u \in Txs : tx[u].pc # "idle"}) < scenario.maxOpen
    /\ transaction.op \in Operations
    /\ tx' = [tx EXCEPT ![t] = [transaction EXCEPT !.pc = "open"]]
    /\ UNCHANGED <<accounts, content, answers>>

----------------------------------------------------------------------------
(* Writes of people. *)

\* Mutant: the session is not read again under the lock of its account.
SessionShare_Unread(k) == <<>>

SessionShare(k) == <<ForShare(<<"session", k>>)>>

\* Mutant: the session is locked before its account.
ActorPlan_SessionFirst(k) == SessionShare(k) \o <<ForUpdate(<<"account", sessions[k]>>)>>

\* lockHumanActor: the account first, then the session.
ActorPlan(k) == <<ForUpdate(<<"account", sessions[k]>>)>> \o SessionShare(k)

\* Mutant: posts are locked FOR SHARE.
PostLock_Shared(p) == ForShare(<<"post", p>>)

PostLock(p) == ForUpdate(<<"post", p>>)

\* The session is resolved without a lock.
BeginWrite(t, k, transaction, plan) ==
    /\ sessions[k] # 0
    /\ Begin(t, [transaction EXCEPT !.actor = sessions[k], !.token = k,
                                    !.plan = ActorPlan(k) \o plan])

KeyLock(k, key) == ForUpdate(<<"key", sessions[k], key>>)

Posts == {p \in DOMAIN items : items[p].kind # "reply"}

\* CreatePost, alone or quoting a post.
CreatePost(t, k, key, body, quoted) ==
    BeginWrite(t, k,
               [Idle EXCEPT !.op = IF quoted = 0 THEN "post" ELSE "quote",
                            !.key = key, !.body = body, !.target = quoted],
               IF quoted = 0 THEN <<KeyLock(k, key)>> ELSE <<KeyLock(k, key), PostLock(quoted)>>)

CreateReply(t, k, key, body, p) ==
    BeginWrite(t, k, [Idle EXCEPT !.op = "reply", !.key = key, !.body = body, !.target = p],
               <<KeyLock(k, key), PostLock(p)>>)

SetMark(t, k, kind, p, desired) ==
    BeginWrite(t, k, [Idle EXCEPT !.op = kind, !.target = p, !.desired = desired], <<PostLock(p)>>)

SetReaction(t, k, p, desired) == SetMark(t, k, "reaction", p, desired)
SetRepost(t, k, p, desired) == SetMark(t, k, "repost", p, desired)
SetBookmark(t, k, p, desired) == SetMark(t, k, "bookmark", p, desired)

\* DeletePost and DeleteReply lock the post, which for a reply is the one it
\* answers.
PostOf(i) == IF items[i].kind = "reply" THEN items[i].about ELSE i

DeletePost(t, k, i) ==
    /\ items[i].kind # "reply"
    /\ BeginWrite(t, k, [Idle EXCEPT !.op = "delete", !.target = i], <<PostLock(i)>>)

DeleteReply(t, k, i) ==
    /\ items[i].kind = "reply"
    /\ BeginWrite(t, k, [Idle EXCEPT !.op = "delete", !.target = i], <<PostLock(PostOf(i))>>)

\* SetFollow shares the actor and its session in one statement, then the
\* target.  Accounts are named by their ID, which nobody knows before the
\* account exists.
SetFollow(t, k, h, desired) ==
    /\ status[h] # "absent"
    /\ sessions[k] \notin {0, h}
    /\ Begin(t, [Idle EXCEPT !.op = "follow", !.actor = sessions[k], !.token = k, !.target = h,
                             !.desired = desired,
                             !.plan = <<ForShare(<<"account", sessions[k]>>)>> \o SessionShare(k)
                                          \o <<ForShare(<<"account", h>>)>>])

----------------------------------------------------------------------------
(* Sessions and operators. *)

\* The cookie of the previous session, if the browser sends one.
Previous(k) == IF k = 0 THEN <<>> ELSE <<ForUpdate(<<"session", k>>)>>

\* A handle that is taken is refused at once; one that is being registered is
\* waited for.
RegisterHuman(t, h, k) ==
    /\ status[h] = "absent"
    /\ Begin(t, [Idle EXCEPT !.op = "register", !.actor = h, !.token = k,
                             !.plan = <<ForUpdate(<<"account", h>>)>> \o Previous(k)])

\* Login reads the credential, which takes its time to verify, and rotates the
\* session afterwards.
Login(t, h, k) ==
    /\ status[h] = "active"
    /\ Begin(t, [Idle EXCEPT !.op = "login", !.actor = h, !.token = k,
                             !.plan = <<ForUpdate(<<"account", h>>)>> \o Previous(k)])

\* The logout of a session that requireWrite found alive.
Logout(t, k) ==
    /\ sessions[k] # 0 /\ status[sessions[k]] = "active" /\ k \notin expired
    /\ Begin(t, [Idle EXCEPT !.op = "logout", !.token = k,
                             !.plan = <<ForUpdate(<<"session", k>>)>>])

DisableAccount(t, h) ==
    /\ status[h] # "absent"
    /\ Begin(t, [Idle EXCEPT !.op = "disable", !.actor = h,
                             !.plan = <<ForUpdate(<<"account", h>>)>>])

\* RemovePost and RemoveReply need no session.
Remove(t, i) ==
    Begin(t, [Idle EXCEPT !.op = "remove", !.target = i, !.plan = <<PostLock(PostOf(i))>>])

----------------------------------------------------------------------------
(* The ends of transactions. *)

Ready(t, ops) == tx[t].pc = "open" /\ tx[t].plan = <<>> /\ tx[t].op \in ops

Done(t) == tx' = [tx EXCEPT ![t] = Idle]

\* The item and its key, unless the key was used before.
CommitCreation(t) ==
    /\ Ready(t, Creations)
    /\ LET fresh == tx[t].result = 0
           item == [kind |-> tx[t].op, author |-> tx[t].actor, key |-> tx[t].key,
                    body |-> tx[t].body, about |-> tx[t].target, deleted |-> FALSE,
                    by |-> tx[t].token]
           id == IF fresh THEN Len(items) + 1 ELSE tx[t].result
       IN /\ id <= MaxItems
          /\ items' = IF fresh THEN Append(items, item) ELSE items
          /\ keys' = IF fresh
                     THEN keys \cup {[actor |-> tx[t].actor, key |-> tx[t].key,
                                      request |-> RequestIn(t), item |-> id]}
                     ELSE keys
          /\ tx' = [tx EXCEPT ![t].pc = "committed", ![t].held = {}, ![t].result = id]
    /\ UNCHANGED <<accounts, marks, follows, answers>>

\* The item is read again in a snapshot of its own; a deletion in between is
\* reported (Rollback).
AnswerCreation(t) ==
    /\ tx[t].pc = "committed"
    /\ LET i == tx[t].result
       IN /\ ~items[i].deleted /\ ~items[PostOf(i)].deleted
          /\ answers' = answers \cup {[actor |-> tx[t].actor, key |-> tx[t].key,
                                       request |-> RequestIn(t), item |-> i]}
    /\ Done(t)
    /\ UNCHANGED <<accounts, content>>

Toggle(S, element, desired) == IF desired THEN S \cup {element} ELSE S \ {element}

CommitMark(t) ==
    /\ Ready(t, Marks)
    /\ marks' = Toggle(marks, [kind |-> tx[t].op, actor |-> tx[t].actor, post |-> tx[t].target],
                       tx[t].desired)
    /\ Done(t)
    /\ UNCHANGED <<accounts, items, keys, follows, answers>>

CommitFollow(t) ==
    /\ Ready(t, {"follow"})
    /\ follows' = Toggle(follows, [from |-> tx[t].actor, to |-> tx[t].target], tx[t].desired)
    /\ Done(t)
    /\ UNCHANGED <<accounts, items, keys, marks, answers>>

CommitDeletion(t) ==
    /\ Ready(t, {"delete", "remove"})
    /\ items' = [items EXCEPT ![tx[t].target].deleted = TRUE]
    /\ Done(t)
    /\ UNCHANGED <<accounts, keys, marks, follows, answers>>

\* replaceSession: the previous session goes, whoever it belongs to, and a new
\* one is issued.
CommitSession(t) ==
    /\ Ready(t, {"register", "login"})
    /\ issued < MaxTokens
    /\ issued' = issued + 1
    /\ sessions' = [k \in Tokens |-> CASE k = issued + 1 -> tx[t].actor
                                       [] k = tx[t].token -> 0
                                       [] OTHER -> sessions[k]]
    /\ status' = [status EXCEPT ![tx[t].actor] = IF tx[t].op = "register" THEN "active" ELSE @]
    /\ Done(t)
    /\ UNCHANGED <<scenario, expired, content, answers>>

CommitLogout(t) ==
    /\ Ready(t, {"logout"})
    /\ sessions' = [sessions EXCEPT ![tx[t].token] = 0]
    /\ Done(t)
    /\ UNCHANGED <<scenario, status, issued, expired, content, answers>>

CommitDisable(t) ==
    /\ Ready(t, {"disable"})
    /\ status' = [status EXCEPT ![tx[t].actor] = "disabled"]
    /\ sessions' = [k \in Tokens |-> IF sessions[k] = tx[t].actor THEN 0 ELSE sessions[k]]
    /\ Done(t)
    /\ UNCHANGED <<scenario, issued, expired, content, answers>>

\* A refusal, a failure, a crash, or an answer that is lost.
Rollback(t) ==
    /\ tx[t].pc # "idle"
    /\ Done(t)
    /\ UNCHANGED <<accounts, content, answers>>

\* Seven days pass.
Expire(k) ==
    /\ sessions[k] # 0
    /\ expired' = expired \cup {k}
    /\ UNCHANGED <<scenario, status, sessions, issued, content, tx, answers>>

\* The members have a session each, and the first has posted.
Init ==
    /\ scenario \in Scenarios
    /\ status = [h \in Humans |-> IF h \in Members THEN "active" ELSE "absent"]
    /\ sessions = [k \in Tokens |-> IF k \in Members THEN k ELSE 0]
    /\ issued = Cardinality(Members)
    /\ expired = {}
    /\ items = <<[kind |-> "post", author |-> 1, key |-> 0, body |-> CHOOSE b \in Bodies : TRUE,
                  about |-> 0, deleted |-> FALSE, by |-> 1]>>
    /\ keys = {}
    /\ marks = {}
    /\ follows = {}
    /\ tx = [t \in Txs |-> Idle]
    /\ answers = {}

PersonWrites(t, k) ==
    \/ \E key \in Keys, body \in Bodies :
           \/ \E quoted \in Posts \cup {0} : CreatePost(t, k, key, body, quoted)
           \/ \E p \in Posts : CreateReply(t, k, key, body, p)
    \/ \E p \in Posts, desired \in BOOLEAN :
           \/ SetReaction(t, k, p, desired)
           \/ SetRepost(t, k, p, desired)
           \/ SetBookmark(t, k, p, desired)
    \/ \E i \in DOMAIN items : DeletePost(t, k, i) \/ DeleteReply(t, k, i)
    \/ \E h \in Humans, desired \in BOOLEAN : SetFollow(t, k, h, desired)

Next ==
    \/ \E t \in Txs :
           \/ \E k \in Tokens : PersonWrites(t, k)
           \/ \E h \in Humans, k \in 0..issued : RegisterHuman(t, h, k)
           \/ \E h \in Humans, k \in 0..issued : Login(t, h, k)
           \/ \E k \in Tokens : Logout(t, k)
           \/ \E h \in Humans : DisableAccount(t, h)
           \/ \E i \in DOMAIN items : Remove(t, i)
           \/ Acquire(t)
           \/ CommitCreation(t) \/ AnswerCreation(t)
           \/ CommitMark(t) \/ CommitFollow(t) \/ CommitDeletion(t)
           \/ CommitSession(t) \/ CommitLogout(t) \/ CommitDisable(t)
           \/ Rollback(t)
    \/ \E k \in Tokens : Expire(k)

Spec == Init /\ [][Next]_vars

----------------------------------------------------------------------------
(* What is checked. *)

\* Types.
TypeOK ==
    /\ scenario \in Scenarios
    /\ status \in [Humans -> {"absent", "active", "disabled"}]
    /\ sessions \in [Tokens -> Humans \cup {0}]
    /\ issued \in 0..MaxTokens
    /\ expired \subseteq Tokens
    /\ items \in Seq(Item)
    /\ keys \subseteq Key
    /\ marks \subseteq Mark
    /\ follows \subseteq Follow
    /\ tx \in [Txs -> Transaction]
    /\ answers \subseteq Answer

Promise ==
    INSTANCE IdempotentWrites WITH
        created <- {[actor |-> items[i].author, key |-> items[i].key,
                     request |-> RequestOf(items[i]), item |-> i] :
                    i \in {j \in DOMAIN items : items[j].key # 0}},
        gone <- {i \in DOMAIN items : items[i].deleted \/ items[PostOf(i)].deleted},
        told <- answers

\* A key stands for one request and one item: a request that is repeated, at
\* once or after its answer was lost or its item deleted, creates nothing more,
\* and a client is told only of what its own request created, while it is there
\* (reservePost, reserveReply, RequestHash).
KeepsIdempotence == Promise!Spec

\* Nothing is attached to a post that is deleted at that moment, although the
\* deletion and the write may begin at the same time (lockVisiblePost).
NothingOnDeleted ==
    [][/\ \A i \in (Len(items) + 1)..Len(items') :
              items'[i].about # 0 => ~items[items'[i].about].deleted
       /\ \A m \in marks' \ marks : ~items[m.post].deleted]_vars

\* A write commits only while the session it was made with still has its row
\* and the account is not disabled, whatever happens to both while it runs
\* (lockHumanActor, SetFollow).
WritesAuthorised ==
    [][\A t \in Txs :
           /\ tx[t].pc = "open" /\ SessionWrite(t)
           /\ content' # content
           /\ tx'[t] # tx[t]
           => sessions[tx[t].token] = tx[t].actor /\ status[tx[t].actor] = "active"]_vars

\* A disabled account has no session, also when somebody logs in while the
\* operator disables it (RotateSession, DisableAccount).
DisabledHasNoSession == \A k \in Tokens : sessions[k] # 0 => status[sessions[k]] = "active"

\* No transactions wait for each other in a circle (operator.go: "Lock order
\* matches the existing account-first convention").
NoWaitCycle ==
    \A S \in (SUBSET Txs) \ {{}} : \E t \in S : \A u \in S : ~Conflicts(t, u)
=============================================================================
