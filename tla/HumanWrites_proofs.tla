------------------------- MODULE HumanWrites_proofs -------------------------
(***************************************************************************)
(* What row locks guarantee to the writes of people, for any number of     *)
(* accounts, transactions and items: every check that a transaction made   *)
(* under a lock still holds when it commits.  At the end, who can be part  *)
(* of a circle of transactions that wait for each other.                   *)
(***************************************************************************)
EXTENDS HumanWrites, FiniteSetTheorems, SequenceTheorems, TLAPS

Writes == Creations \cup Marks \cup {"delete", "follow"}
Owning == {"register", "login", "disable"}
Ending == {"register", "login", "logout"}
Touching == {"quote", "reply"} \cup Marks \cup {"delete", "remove"}

\* The locks of a transaction.  The post it is about is, for a deleted reply,
\* the one that is answered.
AccountLock(t) == [row |-> <<"account", tx[t].actor>>, shared |-> tx[t].op = "follow"]
SessionLock(t) == [row |-> <<"session", tx[t].token>>, shared |-> tx[t].op \in Writes]
KeyRowLock(t) == ForUpdate(<<"key", tx[t].actor, tx[t].key>>)
Guarded(t) == IF tx[t].op \in {"delete", "remove"} THEN PostOf(tx[t].target) ELSE tx[t].target
PostRowLock(t) == ForUpdate(<<"post", Guarded(t)>>)
FollowedLock(t) == ForShare(<<"account", tx[t].target>>)

\* l is among the locks that t may still take.
Expected(t, l) ==
    \/ tx[t].op \in Writes \cup Owning /\ l = AccountLock(t)
    \/ tx[t].op \in Writes \cup Ending /\ tx[t].token # 0 /\ l = SessionLock(t)
    \/ tx[t].op \in Creations /\ l = KeyRowLock(t)
    \/ tx[t].op \in Touching /\ l = PostRowLock(t)
    \/ tx[t].op = "follow" /\ l = FollowedLock(t)
    \/ tx[t].op = "disable" /\ \E k \in Tokens : l = ForUpdate(<<"session", k>>)

Left(t, l) == \E i \in DOMAIN tx[t].plan : tx[t].plan[i] = l

\* A repeated creation has found what its own request created.
Found(t) == \E row \in Replayed(t) : row.request = RequestIn(t) /\ row.item = tx[t].result

-----------------------------------------------------------------------------
(* The invariant: transactions. *)

FieldsOK(t) ==
    /\ tx[t].pc = "open" =>
           /\ tx[t].op \in Operations
           /\ tx[t].op \notin {"logout", "remove"} => tx[t].actor \in Humans
           /\ tx[t].op \in Writes \cup {"logout"} => tx[t].token \in 1..issued
           /\ tx[t].op \in Ending => tx[t].token \in 0..issued
           /\ tx[t].op \in {"quote", "reply"} \cup Marks => tx[t].target \in Posts
           /\ tx[t].op \in {"delete", "remove"} => tx[t].target \in DOMAIN items
           /\ tx[t].op = "follow" => tx[t].target \in Humans \ {tx[t].actor}
           /\ \A i \in DOMAIN tx[t].plan : Expected(t, tx[t].plan[i])
    /\ tx[t].pc # "idle" /\ tx[t].op \in Creations =>
           /\ tx[t].actor \in Humans /\ tx[t].key \in Keys /\ tx[t].body \in Bodies
           /\ tx[t].op = "post" => tx[t].target = 0
    /\ tx[t].pc # "open" => tx[t].plan = <<>> /\ tx[t].held = {}
    /\ tx[t].pc = "committed" => tx[t].op \in Creations /\ Found(t)

\* First the account, then the session, each as it was when it was locked.
ActorOK(t) ==
    tx[t].pc = "open" /\ tx[t].op \in Writes =>
        \/ Len(tx[t].plan) >= 2 /\ tx[t].plan[1] = AccountLock(t) /\ tx[t].plan[2] = SessionLock(t)
        \/ /\ AccountLock(t) \in tx[t].held /\ status[tx[t].actor] = "active"
           /\ \/ Len(tx[t].plan) >= 1 /\ tx[t].plan[1] = SessionLock(t)
              \/ SessionLock(t) \in tx[t].held /\ sessions[tx[t].token] = tx[t].actor

\* An account that is registered, logged in to or disabled.
OwnerOK(t) ==
    tx[t].pc = "open" /\ tx[t].op \in Owning /\ ~Left(t, AccountLock(t)) =>
        /\ AccountLock(t) \in tx[t].held
        /\ CASE tx[t].op = "register" -> status[tx[t].actor] = "absent"
             [] tx[t].op = "login" -> status[tx[t].actor] = "active"
             [] OTHER -> TRUE

\* A session that is going to end.
EndOK(t) ==
    tx[t].pc = "open" /\ tx[t].op \in Ending /\ tx[t].token # 0 /\ ~Left(t, SessionLock(t)) =>
        SessionLock(t) \in tx[t].held \/ sessions[tx[t].token] = 0

KeyOK(t) ==
    tx[t].pc = "open" /\ tx[t].op \in Creations =>
        \/ tx[t].plan = <<>> /\ Found(t)
        \/ /\ tx[t].result = 0
           /\ Left(t, KeyRowLock(t)) \/ (KeyRowLock(t) \in tx[t].held /\ Replayed(t) = {})

PostOK(t) ==
    tx[t].pc = "open" /\ tx[t].op \in Touching =>
        \/ tx[t].plan = <<>> /\ tx[t].op \in Creations /\ Found(t)
        \/ Left(t, PostRowLock(t))
        \/ PostRowLock(t) \in tx[t].held /\ ~items[Guarded(t)].deleted

TxOK(t) == FieldsOK(t) /\ ActorOK(t) /\ OwnerOK(t) /\ EndOK(t) /\ KeyOK(t) /\ PostOK(t)

\* Two transactions hold the same row only if both share it.
Exclusive ==
    \A t, u \in Txs : t # u =>
        \A l \in tx[t].held, m \in tx[u].held : l.row = m.row => l.shared /\ m.shared

-----------------------------------------------------------------------------
(* The invariant: rows. *)

ItemsOK ==
    /\ Len(items) <= MaxItems
    /\ \A i \in DOMAIN items :
           /\ items[i].kind = "post" => items[i].about = 0
           /\ items[i].kind # "post" => items[i].about \in 1..(i-1) /\ items[items[i].about].kind # "reply"

\* Keys and the items that were made with them belong together.
KeysOK ==
    /\ \A row \in keys :
           /\ row.item \in DOMAIN items
           /\ items[row.item].author = row.actor /\ items[row.item].key = row.key
           /\ RequestOf(items[row.item]) = row.request
    /\ \A i \in DOMAIN items : items[i].key # 0 =>
           \E row \in keys : row.actor = items[i].author /\ row.key = items[i].key

SessionsOK ==
    /\ DisabledHasNoSession
    /\ \A k \in Tokens : k > issued => sessions[k] = 0

Inv == TypeOK /\ ItemsOK /\ KeysOK /\ SessionsOK /\ Exclusive /\ \A t \in Txs : TxOK(t)

-----------------------------------------------------------------------------
(* Constants and locks. *)

LEMMA Constants ==
    ASSUME scenario \in Scenarios
    PROVE  /\ Humans \subseteq Nat \ {0} /\ Cardinality(Humans) \in Nat
           /\ Keys \subseteq Nat \ {0}
           /\ MaxTokens \in Nat /\ MaxItems \in Nat
           /\ Members \subseteq Humans /\ 1 \in Members /\ Members = 1..Cardinality(Members)
           /\ Cardinality(Members) \in 0..MaxTokens
           /\ IsFiniteSet(Tokens)
           /\ Operations \subseteq AllOperations
  <1>1. Cardinality(Humans) \in Nat /\ Humans = 1..Cardinality(Humans) /\ IsFiniteSet(Humans)
    BY FS_CardinalityType, IdentifierAssumption
  <1>2. Members \subseteq Humans /\ 1 \in Members /\ Members = 1..Cardinality(Members)
    BY ScenarioAssumption DEF Members
  <1>3. Cardinality(Members) \in Nat
    BY <1>1, <1>2, FS_Subset, FS_CardinalityType
  <1>4. MaxTokens \in Nat /\ MaxItems \in Nat /\ MaxTokens >= Cardinality(Members)
    BY ScenarioAssumption DEF MaxTokens, MaxItems, Members
  <1>5. IsFiniteSet(Tokens)
    BY <1>4, FS_Interval DEF Tokens
  <1>6. Keys \subseteq Nat \ {0}
    BY IdentifierAssumption
  <1>7. Operations \subseteq AllOperations
    BY ScenarioAssumption DEF Operations
  <1> QED
    BY <1>1, <1>2, <1>3, <1>4, <1>5, <1>6, <1>7

LEMMA LockTypes ==
    ASSUME NEW b \in BOOLEAN
    PROVE  /\ \A h \in Humans : [row |-> <<"account", h>>, shared |-> b] \in Lock
           /\ \A k \in Tokens : [row |-> <<"session", k>>, shared |-> b] \in Lock
           /\ \A h \in Humans, k \in Keys : [row |-> <<"key", h, k>>, shared |-> b] \in Lock
           /\ \A p \in 1..MaxItems : [row |-> <<"post", p>>, shared |-> b] \in Lock
  BY DEF Lock, Row

-----------------------------------------------------------------------------
(* What a step leaves alone. *)

\* A transaction that is over holds nothing.
LEMMA IdleOK ==
    ASSUME NEW t \in Txs, tx[t].pc = "idle", tx[t].plan = <<>>, tx[t].held = {}
    PROVE  TxOK(t)
  BY DEF TxOK, FieldsOK, ActorOK, OwnerOK, EndOK, KeyOK, PostOK

LEMMA InitInv == Init => Inv
  <1> SUFFICES ASSUME Init PROVE Inv
    OBVIOUS
  <1> USE DEF Init
  <1>1. scenario \in Scenarios
    OBVIOUS
  <1>2. /\ Humans \subseteq Nat \ {0} /\ MaxTokens \in Nat /\ MaxItems \in Nat \ {0}
        /\ Members \subseteq Humans /\ 1 \in Members /\ Members = 1..issued
        /\ issued \in 0..MaxTokens
    BY <1>1, Constants, ScenarioAssumption DEF MaxItems
  <1>3. Idle \in Transaction
    BY DEF Idle, Transaction
  <1>4. items[1] \in Item /\ items \in Seq(Item) /\ Len(items) = 1
    <2> DEFINE first == CHOOSE b \in Bodies : TRUE
    <2>1. first \in Bodies
      BY <1>1, ScenarioAssumption DEF Bodies
    <2>2. items = <<[kind |-> "post", author |-> 1, key |-> 0, body |-> first,
                     about |-> 0, deleted |-> FALSE, by |-> 1]>>
      OBVIOUS
    <2> HIDE DEF first, Init
    <2> QED
      BY <1>2, <2>1, <2>2 DEF Item, Creations
  <1>5. TypeOK
    BY <1>1, <1>2, <1>3, <1>4 DEF TypeOK, Tokens
  <1>6. ItemsOK /\ KeysOK
    <2>1. items[1].kind = "post" /\ items[1].about = 0 /\ items[1].key = 0 /\ keys = {}
      OBVIOUS
    <2>2. DOMAIN items = {1}
      BY <1>4
    <2> HIDE DEF Init
    <2>3. ItemsOK
      BY <1>2, <1>4, <2>1, <2>2 DEF ItemsOK
    <2>4. KeysOK
      BY <2>1, <2>2 DEF KeysOK
    <2> QED
      BY <2>3, <2>4
  <1>7. SessionsOK
    <2>1. \A k \in Tokens : sessions[k] = IF k \in Members THEN k ELSE 0
      OBVIOUS
    <2>2. \A h \in Members : status[h] = "active"
      BY <1>2
    <2> HIDE DEF Init
    <2> QED
      BY <1>2, <2>1, <2>2 DEF SessionsOK, DisabledHasNoSession, Tokens
  <1>8. \A t \in Txs : tx[t].pc = "idle" /\ tx[t].plan = <<>> /\ tx[t].held = {}
    BY DEF Idle
  <1>9. Exclusive /\ \A t \in Txs : TxOK(t)
    BY <1>8, IdleOK DEF Exclusive
  <1> QED
    BY <1>5, <1>6, <1>7, <1>9 DEF Inv

\* A transaction only depends on the rows that it checked.
LEMMA TxKeeps ==
    ASSUME NEW t \in Txs, TxOK(t), tx'[t] = tx[t],
           UNCHANGED <<scenario, status, sessions, issued, items, keys>>
    PROVE  TxOK(t)'
  <1>1. /\ AccountLock(t)' = AccountLock(t) /\ SessionLock(t)' = SessionLock(t)
        /\ KeyRowLock(t)' = KeyRowLock(t) /\ PostRowLock(t)' = PostRowLock(t)
        /\ FollowedLock(t)' = FollowedLock(t) /\ Guarded(t)' = Guarded(t) /\ Tokens' = Tokens
    BY DEF AccountLock, SessionLock, KeyRowLock, PostRowLock, FollowedLock, Guarded, PostOf,
           ForUpdate, ForShare, Tokens, MaxTokens
  <1>2. Replayed(t)' = Replayed(t) /\ Found(t)' = Found(t)
    BY DEF Replayed, Found, RequestIn
  <1>3. FieldsOK(t)'
    <2>1. \A l : Expected(t, l) => Expected(t, l)'
      BY <1>1 DEF Expected, ForUpdate
    <2>2. Operations' = Operations /\ Bodies' = Bodies /\ Posts' = Posts
      BY DEF Operations, Bodies, Posts
    <2> QED
      BY <1>2, <2>1, <2>2 DEF FieldsOK, TxOK
  <1>4. ActorOK(t)' /\ OwnerOK(t)' /\ EndOK(t)'
    BY <1>1 DEF TxOK, ActorOK, OwnerOK, EndOK, Left
  <1>5. KeyOK(t)' /\ PostOK(t)'
    BY <1>1, <1>2 DEF TxOK, KeyOK, PostOK, Left
  <1> QED
    BY <1>3, <1>4, <1>5 DEF TxOK

LEMMA RowsKeep ==
    ASSUME ItemsOK, KeysOK, SessionsOK,
           UNCHANGED <<scenario, status, sessions, issued, items, keys>>
    PROVE  (ItemsOK /\ KeysOK /\ SessionsOK)'
  BY DEF ItemsOK, KeysOK, SessionsOK, DisabledHasNoSession, Tokens, MaxTokens, MaxItems, RequestOf

\* A step that takes no lock cannot give the same row to two transactions.
LEMMA ExclusiveKeeps ==
    ASSUME TypeOK, Exclusive, NEW t \in Txs, NEW T, tx' = [tx EXCEPT ![t] = T], T.held \subseteq tx[t].held
    PROVE  Exclusive'
  <1>1. \A u \in Txs : tx'[u].held \subseteq tx[u].held
    BY DEF TypeOK
  <1> QED
    BY <1>1 DEF Exclusive

LEMMA BeginTx ==
    ASSUME Inv, NEW t \in Txs, NEW T \in Transaction, tx' = [tx EXCEPT ![t] = T],
           T.held = {}, UNCHANGED <<accounts, content, answers>>, TxOK(t)'
    PROVE  Inv'
  <1>1. UNCHANGED <<scenario, status, sessions, issued, items, keys, marks, follows, expired, answers>>
    BY DEF accounts, content
  <1>2. TypeOK'
    BY <1>1 DEF Inv, TypeOK, Transaction, Tokens, MaxTokens, Item, Bodies, Key, Request, Mark, Follow, Answer,
                MaxItems, Operations, Lock, Row
  <1>3. Exclusive'
    BY ExclusiveKeeps DEF Inv
  <1>4. \A u \in Txs : TxOK(u)'
    <2> SUFFICES ASSUME NEW u \in Txs \ {t} PROVE TxOK(u)'
      OBVIOUS
    <2>1. tx'[u] = tx[u] /\ TxOK(u)
      BY DEF Inv, TypeOK
    <2> QED
      BY <1>1, <2>1, TxKeeps
  <1> QED
    BY <1>1, <1>2, <1>3, <1>4, RowsKeep DEF Inv

-----------------------------------------------------------------------------
(* Transactions begin. *)

\* A transaction that has not taken any of its locks.
LEMMA FreshTx ==
    ASSUME NEW t \in Txs, tx'[t].pc = "open", tx'[t].result = 0, FieldsOK(t)',
           (tx[t].op \in Writes =>
               Len(tx[t].plan) >= 2 /\ tx[t].plan[1] = AccountLock(t) /\ tx[t].plan[2] = SessionLock(t))',
           (tx[t].op \in Owning => Left(t, AccountLock(t)))',
           (tx[t].op \in Ending /\ tx[t].token # 0 => Left(t, SessionLock(t)))',
           (tx[t].op \in Creations => Left(t, KeyRowLock(t)))',
           (tx[t].op \in Touching => Left(t, PostRowLock(t)))'
    PROVE  TxOK(t)'
  BY DEF TxOK, ActorOK, OwnerOK, EndOK, KeyOK, PostOK

\* Both locks of the actor come first.
LEMMA ActorFirst ==
    ASSUME NEW A \in Lock, NEW S \in Lock, NEW plan \in Seq(Lock)
    PROVE  LET whole == (<<A>> \o <<S>>) \o plan
           IN  /\ whole \in Seq(Lock) /\ Len(whole) = Len(plan) + 2
               /\ whole[1] = A /\ whole[2] = S
               /\ \A i \in DOMAIN plan : i + 2 \in DOMAIN whole /\ whole[i + 2] = plan[i]
               /\ \A i \in DOMAIN whole : i = 1 \/ i = 2 \/ (i - 2 \in DOMAIN plan /\ whole[i] = plan[i - 2])
  OBVIOUS

LEMMA BeginWriteInv ==
    ASSUME Inv, NEW t \in Txs, NEW k \in Tokens, NEW T \in Transaction, NEW plan,
           BeginWrite(t, k, T, plan), T.held = {}, T.result = 0,
           T.op \in Creations \cup Marks \cup {"delete"},
           T.op \in Creations => T.key \in Keys /\ T.body \in Bodies,
           T.op = "post" => T.target = 0 /\ plan = <<KeyLock(k, T.key)>>,
           T.op \in {"quote", "reply"} =>
               T.target \in Posts /\ plan = <<KeyLock(k, T.key), PostLock(T.target)>>,
           T.op \in Marks => T.target \in Posts /\ plan = <<PostLock(T.target)>>,
           T.op = "delete" => T.target \in DOMAIN items /\ plan = <<PostLock(PostOf(T.target))>>
    PROVE  Inv'
  <1> DEFINE h == sessions[k]
             A == ForUpdate(<<"account", h>>)
             S == ForShare(<<"session", k>>)
             whole == (<<A>> \o <<S>>) \o plan
             R == [[T EXCEPT !.actor = h, !.token = k, !.plan = whole] EXCEPT !.pc = "open"]
             p == IF T.op = "delete" THEN PostOf(T.target) ELSE T.target
             K == ForUpdate(<<"key", h, T.key>>)
             P == ForUpdate(<<"post", p>>)
  <1>1. /\ tx' = [tx EXCEPT ![t] = R] /\ T.op \in Operations
        /\ UNCHANGED <<accounts, content, answers>>
    BY DEF BeginWrite, Begin, ActorPlan, SessionShare
  <1>2. scenario \in Scenarios /\ h \in Humans /\ h \in Nat /\ k \in 1..issued
    <2>1. h # 0 /\ h \in Humans \cup {0}
      BY DEF BeginWrite, Inv, TypeOK
    <2>2. ~(k > issued) /\ k \in 1..MaxTokens /\ issued \in 0..MaxTokens
      BY <2>1 DEF Inv, SessionsOK, TypeOK, Tokens
    <2>3. scenario \in Scenarios
      BY DEF Inv, TypeOK
    <2> QED
      BY <2>1, <2>2, <2>3, Constants
  <1>3. /\ T.op # "post" => p \in 1..MaxItems
        /\ T.op = "post" => plan = <<K>>
        /\ T.op \in {"quote", "reply"} => plan = <<K, P>>
        /\ T.op \in Marks \cup {"delete"} => plan = <<P>>
    <2>1. T.op # "post" => p \in DOMAIN items
      <3>1. T.op \in {"quote", "reply"} \cup Marks => T.target \in DOMAIN items
        BY DEF Posts
      <3>2. ASSUME T.op = "delete"
            PROVE  p \in DOMAIN items
        <4>1. T.target \in DOMAIN items /\ DOMAIN items = 1..Len(items) /\ Len(items) \in Nat
          BY <3>2 DEF Inv, TypeOK
        <4>2. items[T.target].kind # "reply" \/ items[T.target].about \in 1..(T.target - 1)
          BY <4>1 DEF Inv, ItemsOK
        <4>3. CASE items[T.target].kind = "reply"
          <5>1. p = items[T.target].about
            BY <3>2, <4>3 DEF PostOf
          <5> QED
            BY <4>1, <4>2, <4>3, <5>1
        <4>4. CASE items[T.target].kind # "reply"
          BY <3>2, <4>1, <4>4 DEF PostOf
        <4> QED
          BY <4>3, <4>4
      <3>3. T.op # "delete" => p = T.target
        OBVIOUS
      <3>4. T.op \in Creations \cup Marks \cup {"delete"}
        OBVIOUS
      <3> QED
        BY <3>1, <3>2, <3>3, <3>4 DEF Creations
    <2>2. DOMAIN items \subseteq 1..MaxItems
      BY <1>2, Constants DEF Inv, TypeOK, ItemsOK
    <2>3. T.op \in Marks \cup {"delete"} => plan = <<P>>
      BY DEF PostLock, Marks
    <2>4. T.op = "post" => plan = <<K>>
      BY DEF KeyLock
    <2>5. T.op \in {"quote", "reply"} => plan = <<K, P>>
      BY DEF PostLock, KeyLock
    <2> QED
      BY <2>1, <2>2, <2>3, <2>4, <2>5
  <1>4. A \in Lock /\ S \in Lock /\ (T.op \in Creations => K \in Lock) /\ (T.op # "post" => P \in Lock)
    BY <1>2, <1>3, LockTypes DEF ForUpdate, ForShare
  <1>5. /\ plan \in Seq(Lock)
        /\ \A i \in DOMAIN plan : (T.op \in Creations /\ plan[i] = K) \/ (T.op # "post" /\ plan[i] = P)
        /\ T.op \in Creations => \E i \in DOMAIN plan : plan[i] = K
        /\ T.op # "post" => \E i \in DOMAIN plan : plan[i] = P
    <2> HIDE DEF K, P, p
    <2>1. CASE T.op = "post"
      <3>1. plan = <<K>> /\ K \in Lock
        BY <1>3, <1>4, <2>1 DEF Creations
      <3>2. Len(plan) = 1 /\ plan[1] = K
        BY <3>1
      <3> QED
        BY <3>1, <3>2, <2>1 DEF Creations
    <2>2. CASE T.op \in {"quote", "reply"}
      <3>1. plan = <<K, P>> /\ K \in Lock /\ P \in Lock
        BY <1>3, <1>4, <2>2 DEF Creations
      <3>2. Len(plan) = 2 /\ plan[1] = K /\ plan[2] = P
        BY <3>1
      <3> QED
        BY <3>1, <3>2, <2>2 DEF Creations
    <2>3. CASE T.op \in Marks \cup {"delete"}
      <3>1. plan = <<P>> /\ P \in Lock /\ T.op \notin Creations /\ T.op # "post"
        BY <1>3, <1>4, <2>3 DEF Creations, Marks
      <3>2. Len(plan) = 1 /\ plan[1] = P
        BY <3>1
      <3> QED
        BY <3>1, <3>2
    <2> QED
      BY <2>1, <2>2, <2>3 DEF Creations
  <1>6. /\ whole \in Seq(Lock) /\ Len(whole) >= 2 /\ whole[1] = A /\ whole[2] = S
        /\ \A i \in DOMAIN whole : \/ whole[i] \in {A, S}
                                   \/ T.op \in Creations /\ whole[i] = K
                                   \/ T.op # "post" /\ whole[i] = P
        /\ T.op \in Creations => \E i \in DOMAIN whole : whole[i] = K
        /\ T.op # "post" => \E i \in DOMAIN whole : whole[i] = P
    <2> HIDE DEF A, S, K, P, p, whole
    <2>1. /\ whole \in Seq(Lock) /\ Len(whole) = Len(plan) + 2 /\ whole[1] = A /\ whole[2] = S
          /\ \A i \in DOMAIN plan : i + 2 \in DOMAIN whole /\ whole[i + 2] = plan[i]
          /\ \A i \in DOMAIN whole : i = 1 \/ i = 2 \/ (i - 2 \in DOMAIN plan /\ whole[i] = plan[i - 2])
      BY <1>4, <1>5, ActorFirst DEF whole
    <2>2. Len(plan) \in Nat
      BY <1>5
    <2>3. \A i \in DOMAIN whole : \/ whole[i] \in {A, S}
                                  \/ T.op \in Creations /\ whole[i] = K
                                  \/ T.op # "post" /\ whole[i] = P
      BY <1>5, <2>1
    <2>4. T.op \in Creations => \E i \in DOMAIN whole : whole[i] = K
      BY <1>5, <2>1
    <2>5. T.op # "post" => \E i \in DOMAIN whole : whole[i] = P
      BY <1>5, <2>1
    <2> QED
      BY <2>1, <2>2, <2>3, <2>4, <2>5
  <1>7. /\ R \in Transaction /\ R.pc = "open" /\ R.op = T.op /\ R.actor = h /\ R.token = k /\ R.key = T.key
        /\ R.target = T.target /\ R.body = T.body /\ R.plan = whole /\ R.held = {} /\ R.result = 0
    <2> HIDE DEF h, whole
    <2>1. k \in Nat
      BY <1>2 DEF Inv, TypeOK
    <2> QED
      BY <1>2, <1>6, <2>1 DEF Transaction
  <1>8. tx'[t] = R
    BY <1>1 DEF Inv, TypeOK
  <1>9. UNCHANGED <<items, issued, scenario>>
    BY <1>1 DEF accounts, content
  <1>10. /\ AccountLock(t)' = A /\ SessionLock(t)' = S
         /\ T.op \in Creations => KeyRowLock(t)' = K
         /\ T.op # "post" => PostRowLock(t)' = P
    <2> HIDE DEF R
    <2>1. T.op \in Writes /\ T.op # "follow" /\ T.op # "remove"
      BY DEF Writes, Creations, Marks
    <2>2. AccountLock(t)' = A /\ SessionLock(t)' = S
      BY <1>7, <1>8, <2>1 DEF AccountLock, SessionLock, ForUpdate, ForShare
    <2>3. KeyRowLock(t)' = K
      BY <1>7, <1>8 DEF KeyRowLock, ForUpdate
    <2>4. PostRowLock(t)' = P
      BY <1>7, <1>8, <1>9, <2>1 DEF PostRowLock, Guarded, PostOf, ForUpdate
    <2> QED
      BY <2>2, <2>3, <2>4
  <1> HIDE DEF R, A, S, K, P, p, whole, h
  <1>11. FieldsOK(t)'
    <2>1. \A i \in DOMAIN tx'[t].plan : Expected(t, tx[t].plan[i])'
      <3> SUFFICES ASSUME NEW i \in DOMAIN whole PROVE Expected(t, tx[t].plan[i])'
        BY <1>7, <1>8
      <3>1. whole[i] \in {A, S} \/ (T.op \in Creations /\ whole[i] = K) \/ (T.op # "post" /\ whole[i] = P)
        BY <1>6
      <3>2. T.op \in Writes /\ T.op \notin {"post"} => T.op \in Touching
        BY DEF Writes, Touching, Creations, Marks
      <3>3. T.op \in Writes /\ k # 0
        BY <1>2 DEF Writes
      <3> QED
        BY <1>7, <1>8, <1>10, <3>1, <3>2, <3>3 DEF Expected
    <2>2. T.op \in Operations' /\ T.op \notin {"logout", "remove", "follow", "register", "login", "disable"}
      BY <1>1, <1>9 DEF Operations, Creations, Marks
    <2>3. T.target \in Posts' <=> T.target \in Posts
      BY <1>9 DEF Posts
    <2> QED
      BY <1>2, <1>7, <1>8, <1>9, <2>1, <2>2, <2>3 DEF FieldsOK, Ending, Bodies, Creations, Marks
  <1>12. TxOK(t)'
    <2>1. T.op \notin Owning \cup Ending /\ (T.op \in Touching => T.op # "post")
      BY DEF Owning, Ending, Creations, Marks, Touching
    <2> QED
      BY <1>6, <1>7, <1>8, <1>10, <1>11, <2>1, FreshTx DEF Left
  <1> QED
    BY <1>1, <1>7, <1>12, BeginTx

LEMMA IdleRecord ==
    /\ Idle \in Transaction /\ Idle.pc = "idle" /\ Idle.plan = <<>> /\ Idle.held = {}
    /\ Idle.result = 0 /\ Idle.token = 0 /\ Idle.target = 0
  <1>1. /\ Idle.pc = "idle" /\ Idle.plan = <<>> /\ Idle.held = {}
        /\ Idle.result = 0 /\ Idle.token = 0 /\ Idle.target = 0
    BY DEF Idle
  <1>2. Idle \in Transaction
    BY DEF Idle, Transaction
  <1> QED
    BY <1>1, <1>2

LEMMA CreatePostInv ==
    ASSUME Inv, NEW t \in Txs, NEW k \in Tokens, NEW key \in Keys, NEW body \in Bodies,
           NEW quoted \in Posts \cup {0}, CreatePost(t, k, key, body, quoted)
    PROVE  Inv'
  <1> DEFINE op == IF quoted = 0 THEN "post" ELSE "quote"
             T == [Idle EXCEPT !.op = op, !.key = key, !.body = body, !.target = quoted]
             plan == IF quoted = 0 THEN <<KeyLock(k, key)>> ELSE <<KeyLock(k, key), PostLock(quoted)>>
  <1>1. BeginWrite(t, k, T, plan) /\ op \in {"post", "quote"}
    BY DEF CreatePost
  <1>2. op \in Operations
    BY DEF CreatePost, BeginWrite, Begin, Idle
  <1>3. key \in Nat /\ quoted \in Nat
    BY Constants DEF Inv, TypeOK, Posts
  <1>4. op = "post" <=> quoted = 0
    OBVIOUS
  <1>5. /\ T \in Transaction /\ T.op = op /\ T.key = key /\ T.body = body /\ T.target = quoted
        /\ T.held = {} /\ T.result = 0
    <2> HIDE DEF op
    <2> QED
      BY <1>2, <1>3, IdleRecord DEF Transaction
  <1>6. /\ op = "post" => plan = <<KeyLock(k, key)>>
        /\ op = "quote" => plan = <<KeyLock(k, key), PostLock(quoted)>> /\ quoted \in Posts
    BY <1>4
  <1> HIDE DEF T, op, plan
  <1> QED
    BY <1>1, <1>4, <1>5, <1>6, BeginWriteInv DEF Creations, Marks

LEMMA CreateReplyInv ==
    ASSUME Inv, NEW t \in Txs, NEW k \in Tokens, NEW key \in Keys, NEW body \in Bodies,
           NEW p \in Posts, CreateReply(t, k, key, body, p)
    PROVE  Inv'
  <1> DEFINE T == [Idle EXCEPT !.op = "reply", !.key = key, !.body = body, !.target = p]
             plan == <<KeyLock(k, key), PostLock(p)>>
  <1>1. BeginWrite(t, k, T, plan) /\ "reply" \in Operations
    BY DEF CreateReply, BeginWrite, Begin, Idle
  <1>2. key \in Nat /\ p \in Nat
    BY Constants DEF Inv, TypeOK, Posts
  <1>3. /\ T \in Transaction /\ T.op = "reply" /\ T.key = key /\ T.body = body /\ T.target = p
        /\ T.held = {} /\ T.result = 0
    BY <1>1, <1>2, IdleRecord DEF Transaction
  <1> HIDE DEF T
  <1> QED
    BY <1>1, <1>3, BeginWriteInv DEF Creations, Marks

LEMMA SetMarkInv ==
    ASSUME Inv, NEW t \in Txs, NEW k \in Tokens, NEW kind \in Marks, NEW p \in Posts,
           NEW desired \in BOOLEAN, SetMark(t, k, kind, p, desired)
    PROVE  Inv'
  <1> DEFINE T == [Idle EXCEPT !.op = kind, !.target = p, !.desired = desired]
             plan == <<PostLock(p)>>
  <1>1. BeginWrite(t, k, T, plan) /\ kind \in Operations
    BY DEF SetMark, BeginWrite, Begin, Idle
  <1>2. p \in Nat
    BY DEF Inv, TypeOK, Posts
  <1>3. T \in Transaction /\ T.op = kind /\ T.target = p /\ T.held = {} /\ T.result = 0
    BY <1>1, <1>2, IdleRecord DEF Transaction
  <1> HIDE DEF T
  <1> QED
    BY <1>1, <1>3, BeginWriteInv DEF Creations, Marks

LEMMA DeleteInv ==
    ASSUME Inv, NEW t \in Txs, NEW k \in Tokens, NEW i \in DOMAIN items,
           DeletePost(t, k, i) \/ DeleteReply(t, k, i)
    PROVE  Inv'
  <1> DEFINE T == [Idle EXCEPT !.op = "delete", !.target = i]
             plan == <<PostLock(PostOf(i))>>
  <1>1. BeginWrite(t, k, T, plan) /\ "delete" \in Operations
    BY DEF DeletePost, DeleteReply, BeginWrite, Begin, Idle, PostOf
  <1>2. i \in Nat
    BY DEF Inv, TypeOK
  <1>3. T \in Transaction /\ T.op = "delete" /\ T.target = i /\ T.held = {} /\ T.result = 0
    BY <1>1, <1>2, IdleRecord DEF Transaction
  <1> HIDE DEF T
  <1> QED
    BY <1>1, <1>3, BeginWriteInv DEF Creations, Marks

LEMMA SetFollowInv ==
    ASSUME Inv, NEW t \in Txs, NEW k \in Tokens, NEW h \in Humans, NEW desired \in BOOLEAN,
           SetFollow(t, k, h, desired)
    PROVE  Inv'
  <1> DEFINE me == sessions[k]
             A == ForShare(<<"account", me>>)
             S == ForShare(<<"session", k>>)
             F == ForShare(<<"account", h>>)
             plan == <<A>> \o <<S>> \o <<F>>
             R == [[Idle EXCEPT !.op = "follow", !.actor = me, !.token = k, !.target = h,
                                !.desired = desired, !.plan = plan] EXCEPT !.pc = "open"]
  <1>1. /\ tx' = [tx EXCEPT ![t] = R] /\ UNCHANGED <<accounts, content, answers>>
        /\ me # 0 /\ me # h /\ "follow" \in Operations
    BY DEF SetFollow, Begin, SessionShare, Idle
  <1>2. scenario \in Scenarios /\ me \in Humans /\ me \in Nat /\ h \in Nat /\ k \in 1..issued /\ k \in Nat
    <2>1. me \in Humans \cup {0} /\ scenario \in Scenarios
      BY DEF Inv, TypeOK
    <2>2. ~(k > issued) /\ k \in 1..MaxTokens /\ issued \in 0..MaxTokens /\ MaxTokens \in Nat
      BY <1>1, <2>1, Constants DEF Inv, SessionsOK, TypeOK, Tokens
    <2> QED
      BY <1>1, <2>1, <2>2, Constants
  <1>3. A \in Lock /\ S \in Lock /\ F \in Lock
    BY <1>2, LockTypes DEF ForShare
  <1>4. plan \in Seq(Lock) /\ Len(plan) = 3 /\ plan[1] = A /\ plan[2] = S /\ plan[3] = F
    BY <1>3
  <1> HIDE DEF plan
  <1>5. /\ R.pc = "open" /\ R.op = "follow" /\ R.actor = me /\ R.token = k /\ R.target = h
        /\ R.plan = plan /\ R.held = {} /\ R.result = 0
    BY IdleRecord DEF Transaction
  <1>6. R \in Transaction
    BY <1>1, <1>2, <1>4, IdleRecord DEF Transaction
  <1>7. tx'[t] = R /\ UNCHANGED <<items, issued, scenario>>
    BY <1>1 DEF Inv, TypeOK, accounts, content
  <1> HIDE DEF R, me
  <1>8. AccountLock(t)' = A /\ SessionLock(t)' = S /\ FollowedLock(t)' = F
    BY <1>5, <1>7 DEF AccountLock, SessionLock, FollowedLock, ForShare, Writes
  <1> HIDE DEF A, S, F
  <1>9. FieldsOK(t)'
    <2>1. \A i \in DOMAIN plan : plan[i] \in {A, S, F}
      BY <1>4
    <2>2. \A i \in DOMAIN tx'[t].plan : Expected(t, tx[t].plan[i])'
      BY <1>2, <1>5, <1>7, <1>8, <2>1 DEF Expected, Writes
    <2> QED
      BY <1>1, <1>2, <1>5, <1>7, <2>2 DEF FieldsOK, Operations, Creations, Marks, Ending, Writes
  <1>10. TxOK(t)'
    BY <1>4, <1>5, <1>7, <1>8, <1>9, FreshTx DEF Owning, Ending, Creations, Marks, Touching
  <1> QED
    BY <1>1, <1>5, <1>6, <1>10, BeginTx

\* Locks of one account, and of the session that it replaces.
LEMMA SessionBeginsInv ==
    ASSUME Inv, NEW t \in Txs, NEW h \in Humans, NEW k \in 0..issued,
           RegisterHuman(t, h, k) \/ Login(t, h, k)
    PROVE  Inv'
  <1> DEFINE op == IF RegisterHuman(t, h, k) THEN "register" ELSE "login"
             A == ForUpdate(<<"account", h>>)
             S == ForUpdate(<<"session", k>>)
             plan == <<A>> \o Previous(k)
             R == [[Idle EXCEPT !.op = op, !.actor = h, !.token = k, !.plan = plan] EXCEPT !.pc = "open"]
  <1>1. /\ tx' = [tx EXCEPT ![t] = R] /\ UNCHANGED <<accounts, content, answers>>
        /\ op \in Operations /\ op \in {"register", "login"}
    <2>1. CASE RegisterHuman(t, h, k)
      <3>1. op = "register"
        BY <2>1
      <3>2. /\ tx' = [tx EXCEPT ![t] = R] /\ UNCHANGED <<accounts, content, answers>>
            /\ "register" \in Operations
        BY <2>1, <3>1 DEF RegisterHuman, Begin, Idle
      <3> QED
        BY <3>1, <3>2
    <2>2. CASE ~RegisterHuman(t, h, k)
      <3>1. op = "login"
        BY <2>2
      <3>2. /\ tx' = [tx EXCEPT ![t] = R] /\ UNCHANGED <<accounts, content, answers>>
            /\ "login" \in Operations
        BY <2>2, <3>1 DEF Login, Begin, Idle
      <3> QED
        BY <3>1, <3>2
    <2> QED
      BY <2>1, <2>2
  <1> HIDE DEF op
  <1>2. scenario \in Scenarios /\ h \in Nat /\ k \in Nat /\ (k # 0 => k \in Tokens)
    BY Constants DEF Inv, TypeOK, Tokens
  <1>3. A \in Lock /\ (k # 0 => S \in Lock)
    BY <1>2, LockTypes DEF ForUpdate
  <1>4. /\ plan \in Seq(Lock) /\ plan[1] = A /\ 1 \in DOMAIN plan
        /\ k = 0 => Len(plan) = 1
        /\ k # 0 => Len(plan) = 2 /\ plan[2] = S
    <2>1. CASE k = 0
      <3>1. plan = <<A>> \o <<>>
        BY <2>1 DEF Previous
      <3> HIDE DEF plan, A
      <3> QED
        BY <1>3, <2>1, <3>1
    <2>2. CASE k # 0
      <3>1. plan = <<A>> \o <<S>>
        BY <2>2 DEF Previous
      <3> HIDE DEF plan, A, S
      <3> QED
        BY <1>3, <2>2, <3>1
    <2> QED
      BY <2>1, <2>2
  <1> HIDE DEF plan
  <1>5. /\ R.pc = "open" /\ R.op = op /\ R.actor = h /\ R.token = k
        /\ R.plan = plan /\ R.held = {} /\ R.result = 0
    BY IdleRecord DEF Transaction
  <1>6. R \in Transaction
    BY <1>1, <1>2, <1>4, IdleRecord DEF Transaction
  <1>7. tx'[t] = R /\ UNCHANGED <<items, issued, scenario>>
    BY <1>1 DEF Inv, TypeOK, accounts, content
  <1> HIDE DEF R
  <1>8. AccountLock(t)' = A /\ SessionLock(t)' = S
    <2>1. op # "follow" /\ op \notin Writes
      BY <1>1 DEF Writes, Creations, Marks
    <2>2. AccountLock(t)' = A
      BY <1>5, <1>7, <2>1 DEF AccountLock, ForUpdate
    <2>3. SessionLock(t)' = S
      <3>1. (tx'[t].op \in Writes) = FALSE
        BY <1>5, <1>7, <2>1
      <3> QED
        BY <1>5, <1>7, <3>1 DEF SessionLock, ForUpdate
    <2> QED
      BY <2>2, <2>3
  <1> HIDE DEF A, S
  <1>9. FieldsOK(t)'
    <2>1. \A i \in DOMAIN plan : plan[i] = A \/ (k # 0 /\ plan[i] = S)
      BY <1>4
    <2>2. \A i \in DOMAIN tx'[t].plan : Expected(t, tx[t].plan[i])'
      BY <1>1, <1>2, <1>5, <1>7, <1>8, <2>1 DEF Expected, Owning, Ending
    <2> QED
      BY <1>1, <1>2, <1>5, <1>7, <2>2 DEF FieldsOK, Operations, Creations, Marks, Writes
  <1>10. TxOK(t)'
    <2>1. (tx[t].op \in Owning => Left(t, AccountLock(t)))'
      BY <1>4, <1>5, <1>7, <1>8 DEF Left
    <2>2. (tx[t].op \in Ending /\ tx[t].token # 0 => Left(t, SessionLock(t)))'
      BY <1>4, <1>5, <1>7, <1>8 DEF Left
    <2>3. op \notin Writes \cup Creations \cup Touching
      BY <1>1 DEF Writes, Creations, Marks, Touching
    <2> QED
      BY <1>5, <1>7, <1>9, <2>1, <2>2, <2>3, FreshTx
  <1> QED
    BY <1>1, <1>5, <1>6, <1>10, BeginTx

\* The others lock one row to begin with.
LEMMA OneLockInv ==
    ASSUME Inv, NEW t \in Txs, NEW R \in Transaction, NEW l \in Lock,
           tx' = [tx EXCEPT ![t] = R], UNCHANGED <<accounts, content, answers>>,
           R.pc = "open", R.held = {}, R.result = 0, R.plan = <<l>>,
           R.op \in Operations, R.op \in {"logout", "disable", "remove"},
           R.op = "logout" => R.token \in 1..issued /\ l = ForUpdate(<<"session", R.token>>),
           R.op = "disable" => R.actor \in Humans /\ l = ForUpdate(<<"account", R.actor>>),
           R.op = "remove" => R.target \in DOMAIN items /\ l = PostLock(PostOf(R.target))
    PROVE  Inv'
  <1>1. tx'[t] = R /\ UNCHANGED <<items, issued, scenario>>
    BY DEF Inv, TypeOK, accounts, content
  <1>2. /\ R.op = "logout" => SessionLock(t)' = l
        /\ R.op = "disable" => AccountLock(t)' = l
        /\ R.op = "remove" => PostRowLock(t)' = l
    <2>1. R.op # "follow" /\ R.op \notin Writes
      BY DEF Writes, Creations, Marks
    <2>2. R.op = "logout" => SessionLock(t)' = l
      <3>1. (tx'[t].op \in Writes) = FALSE
        BY <1>1, <2>1
      <3> QED
        BY <1>1, <3>1 DEF SessionLock, ForUpdate
    <2>3. R.op = "disable" => AccountLock(t)' = l
      BY <1>1, <2>1 DEF AccountLock, ForUpdate
    <2>4. R.op = "remove" => PostRowLock(t)' = l
      BY <1>1 DEF PostRowLock, PostLock, ForUpdate, Guarded, PostOf
    <2> QED
      BY <2>2, <2>3, <2>4
  <1>3. DOMAIN R.plan = {1} /\ R.plan[1] = l /\ Len(R.plan) = 1
    OBVIOUS
  <1>4. issued \in Nat
    BY DEF Inv, TypeOK
  <1>5. Expected(t, l)'
    BY <1>1, <1>2, <1>4 DEF Expected, Owning, Ending, Touching
  <1>6. FieldsOK(t)'
    BY <1>1, <1>3, <1>4, <1>5 DEF FieldsOK, Operations, Creations, Marks, Writes, Ending
  <1>7. TxOK(t)'
    <2>1. R.op \notin Writes /\ R.op \notin Creations
      BY DEF Writes, Creations, Marks
    <2>2. (tx[t].op \in Owning => Left(t, AccountLock(t)))'
      BY <1>1, <1>2, <1>3 DEF Left, Owning
    <2>3. (tx[t].op \in Ending /\ tx[t].token # 0 => Left(t, SessionLock(t)))'
      BY <1>1, <1>2, <1>3 DEF Left, Ending
    <2>4. (tx[t].op \in Touching => Left(t, PostRowLock(t)))'
      BY <1>1, <1>2, <1>3 DEF Left, Touching, Marks
    <2> QED
      BY <1>1, <1>6, <2>1, <2>2, <2>3, <2>4, FreshTx
  <1> QED
    BY <1>7, BeginTx

LEMMA OperatorBeginsInv ==
    ASSUME Inv, NEW t \in Txs,
           \/ \E k \in Tokens : Logout(t, k)
           \/ \E h \in Humans : DisableAccount(t, h)
           \/ \E i \in DOMAIN items : Remove(t, i)
    PROVE  Inv'
  <1>1. ASSUME NEW k \in Tokens, Logout(t, k) PROVE Inv'
    <2> DEFINE l == ForUpdate(<<"session", k>>)
               R == [[Idle EXCEPT !.op = "logout", !.token = k, !.plan = <<l>>] EXCEPT !.pc = "open"]
    <2>1. /\ tx' = [tx EXCEPT ![t] = R] /\ UNCHANGED <<accounts, content, answers>>
          /\ "logout" \in Operations
      BY <1>1 DEF Logout, Begin, Idle
    <2>2. sessions[k] # 0 /\ k \in 1..issued /\ k \in Nat
      <3>1. sessions[k] # 0
        BY <1>1 DEF Logout
      <3>2. MaxTokens \in Nat /\ issued \in 0..MaxTokens /\ k \in 1..MaxTokens
        BY Constants DEF Inv, TypeOK, Tokens
      <3>3. ~(k > issued)
        BY <3>1 DEF Inv, SessionsOK
      <3> QED
        BY <3>1, <3>2, <3>3
    <2>3. l \in Lock
      BY LockTypes DEF ForUpdate
    <2> HIDE DEF l
    <2>4. <<l>> \in Seq(Lock)
      BY <2>3
    <2>5. /\ R \in Transaction /\ R.pc = "open" /\ R.held = {} /\ R.result = 0 /\ R.plan = <<l>>
          /\ R.op = "logout" /\ R.token = k
      BY <2>1, <2>2, <2>4, IdleRecord DEF Transaction
    <2> HIDE DEF R
    <2> QED
      BY <2>1, <2>2, <2>3, <2>5, OneLockInv DEF l
  <1>2. ASSUME NEW h \in Humans, DisableAccount(t, h) PROVE Inv'
    <2> DEFINE l == ForUpdate(<<"account", h>>)
               R == [[Idle EXCEPT !.op = "disable", !.actor = h, !.plan = <<l>>] EXCEPT !.pc = "open"]
    <2>1. /\ tx' = [tx EXCEPT ![t] = R] /\ UNCHANGED <<accounts, content, answers>>
          /\ "disable" \in Operations
      BY <1>2 DEF DisableAccount, Begin, Idle
    <2>2. h \in Nat
      BY Constants DEF Inv, TypeOK
    <2>3. l \in Lock
      BY LockTypes DEF ForUpdate
    <2> HIDE DEF l
    <2>4. <<l>> \in Seq(Lock)
      BY <2>3
    <2>5. /\ R \in Transaction /\ R.pc = "open" /\ R.held = {} /\ R.result = 0 /\ R.plan = <<l>>
          /\ R.op = "disable" /\ R.actor = h
      BY <2>1, <2>2, <2>4, IdleRecord DEF Transaction
    <2> HIDE DEF R
    <2> QED
      BY <2>1, <2>3, <2>5, OneLockInv DEF l
  <1>3. ASSUME NEW i \in DOMAIN items, Remove(t, i) PROVE Inv'
    <2> DEFINE l == PostLock(PostOf(i))
               R == [[Idle EXCEPT !.op = "remove", !.target = i, !.plan = <<l>>] EXCEPT !.pc = "open"]
    <2>1. /\ tx' = [tx EXCEPT ![t] = R] /\ UNCHANGED <<accounts, content, answers>>
          /\ "remove" \in Operations
      BY <1>3 DEF Remove, Begin, Idle
    <2>2. i \in Nat /\ PostOf(i) \in 1..MaxItems
      <3>1. items \in Seq(Item) /\ MaxItems \in Nat /\ Len(items) <= MaxItems
        BY Constants DEF Inv, TypeOK, ItemsOK
      <3>2. items[i].kind = "reply" => items[i].about \in 1..(i-1)
        BY DEF Inv, ItemsOK
      <3> QED
        BY <3>1, <3>2 DEF PostOf
    <2>3. l \in Lock
      BY <2>2, LockTypes DEF PostLock, ForUpdate
    <2> HIDE DEF l
    <2>4. <<l>> \in Seq(Lock)
      BY <2>3
    <2>5. /\ R \in Transaction /\ R.pc = "open" /\ R.held = {} /\ R.result = 0 /\ R.plan = <<l>>
          /\ R.op = "remove" /\ R.target = i
      BY <2>1, <2>2, <2>4, IdleRecord DEF Transaction
    <2> HIDE DEF R
    <2> QED
      BY <2>1, <2>3, <2>5, OneLockInv DEF l
  <1> QED
    BY <1>1, <1>2, <1>3

-----------------------------------------------------------------------------
(* A transaction takes a lock. *)

LEMMA RowKinds ==
    ASSUME NEW t
    PROVE  /\ AccountLock(t).row = <<"account", tx[t].actor>> /\ AccountLock(t).row[1] = "account"
           /\ SessionLock(t).row = <<"session", tx[t].token>> /\ SessionLock(t).row[1] = "session"
           /\ KeyRowLock(t).row[1] = "key"
           /\ PostRowLock(t).row = <<"post", Guarded(t)>> /\ PostRowLock(t).row[1] = "post"
           /\ FollowedLock(t).row[1] = "account"
           /\ \A k : ForUpdate(<<"session", k>>).row[1] = "session"
  BY DEF AccountLock, SessionLock, KeyRowLock, PostRowLock, FollowedLock, ForUpdate, ForShare

LEMMA NextLock ==
    ASSUME Inv, NEW t \in Txs, tx[t].plan # <<>>
    PROVE  /\ tx[t].pc = "open" /\ tx[t].plan \in Seq(Lock)
           /\ Head(tx[t].plan) = tx[t].plan[1] /\ Head(tx[t].plan) \in Lock
           /\ Expected(t, Head(tx[t].plan))
           /\ Tail(tx[t].plan) \in Seq(Lock)
           /\ Len(tx[t].plan) \in Nat \ {0} /\ Len(Tail(tx[t].plan)) = Len(tx[t].plan) - 1
           /\ \A i \in DOMAIN Tail(tx[t].plan) :
                  i + 1 \in DOMAIN tx[t].plan /\ Tail(tx[t].plan)[i] = tx[t].plan[i + 1]
           /\ \A i \in DOMAIN tx[t].plan : i = 1 \/ (i - 1 \in DOMAIN Tail(tx[t].plan)
                                                      /\ Tail(tx[t].plan)[i - 1] = tx[t].plan[i])
  <1>1. tx[t].pc = "open"
    BY DEF Inv, TxOK, FieldsOK
  <1>2. tx[t].plan \in Seq(Lock)
    BY DEF Inv, TypeOK, Transaction
  <1>3. 1 \in DOMAIN tx[t].plan /\ Head(tx[t].plan) = tx[t].plan[1]
    BY <1>2
  <1>4. Expected(t, tx[t].plan[1])
    BY <1>1, <1>3 DEF Inv, TxOK, FieldsOK
  <1> DEFINE plan == tx[t].plan
  <1> HIDE DEF plan
  <1>5. plan \in Seq(Lock) /\ plan # <<>>
    BY <1>2 DEF plan
  <1>6. /\ Tail(plan) \in Seq(Lock) /\ Len(plan) \in Nat \ {0} /\ Len(Tail(plan)) = Len(plan) - 1
        /\ \A i \in DOMAIN Tail(plan) : i + 1 \in DOMAIN plan /\ Tail(plan)[i] = plan[i + 1]
        /\ \A i \in DOMAIN plan : i = 1 \/ (i - 1 \in DOMAIN Tail(plan) /\ Tail(plan)[i - 1] = plan[i])
        /\ Head(plan) \in Lock
    BY <1>5
  <1> QED
    BY <1>1, <1>2, <1>3, <1>4, <1>6 DEF plan

\* What a transaction still has to lock after l.
Follows(t, l, q) ==
    /\ q \in Seq(Lock)
    /\ \/ l = KeyRowLock(t) /\ Replayed(t) # {} /\ q = <<>>
       \/ /\ l = AccountLock(t) /\ tx[t].op = "disable"
          /\ \A i \in DOMAIN q : \E k \in Tokens : q[i] = ForUpdate(<<"session", k>>)
       \/ q = Tail(tx[t].plan) /\ ~(l.row[1] = "key" /\ Replayed(t) # {})

LEMMA RemainingPlan ==
    ASSUME Inv, NEW t \in Txs, tx[t].plan # <<>>, NEW q \in Remaining(t, Head(tx[t].plan))
    PROVE  Follows(t, Head(tx[t].plan), q)
  <1> DEFINE l == Head(tx[t].plan)
  <1>1. Expected(t, l) /\ Tail(tx[t].plan) \in Seq(Lock)
    BY NextLock
  <1>2. CASE l.row[1] = "key" /\ Replayed(t) # {}
    <2>1. l = KeyRowLock(t)
      BY <1>1, <1>2, RowKinds DEF Expected
    <2>2. q = <<>>
      BY <1>2 DEF Remaining
    <2> QED
      BY <1>2, <2>1, <2>2 DEF Follows
  <1>3. CASE tx[t].op = "disable" /\ l.row[1] = "account"
    <2> DEFINE mine == SessionsOf(l.row[2])
               S == {ForUpdate(<<"session", k>>) : k \in mine}
    <2>1. l = AccountLock(t)
      BY <1>1, <1>3, RowKinds DEF Expected, Touching, Creations, Marks
    <2>2. q \in UNION {[1..n -> S] : n \in {Cardinality(mine)}}
      BY <1>3 DEF Remaining
    <2>3. mine \subseteq Tokens /\ Cardinality(mine) \in Nat
      <3>1. mine \subseteq Tokens /\ IsFiniteSet(Tokens)
        BY Constants DEF SessionsOf, Inv, TypeOK
      <3> QED
        BY <3>1, FS_Subset, FS_CardinalityType
    <2>4. q \in [1..Cardinality(mine) -> S]
      BY <2>2
    <2>5. S \subseteq Lock /\ \A s \in S : \E k \in Tokens : s = ForUpdate(<<"session", k>>)
      BY <2>3, LockTypes DEF ForUpdate
    <2> HIDE DEF S, mine
    <2>6. q \in Seq(S)
      BY <2>3, <2>4
    <2>7. q \in Seq(Lock)
      BY <2>5, <2>6
    <2> QED
      BY <1>3, <2>1, <2>4, <2>5, <2>7 DEF Follows
  <1>4. CASE ~(l.row[1] = "key" /\ Replayed(t) # {}) /\ ~(tx[t].op = "disable" /\ l.row[1] = "account")
    <2>1. q = Tail(tx[t].plan)
      BY <1>4 DEF Remaining
    <2> QED
      BY <1>1, <1>4, <2>1 DEF Follows
  <1> QED
    BY <1>2, <1>3, <1>4

LEMMA AcquireInv ==
    ASSUME Inv, NEW t \in Txs, Acquire(t)
    PROVE  Inv'
  <1> DEFINE l == Head(tx[t].plan)
             hit == l.row[1] = "key" /\ Replayed(t) # {}
             found == (CHOOSE row \in Replayed(t) : TRUE).item
             held == IF Exists(l) THEN tx[t].held \cup {l} ELSE tx[t].held
             result == IF hit THEN found ELSE tx[t].result
  <1>1. PICK q \in Remaining(t, l) :
            tx' = [tx EXCEPT ![t].plan = q, ![t].held = held, ![t].result = result]
    BY DEF Acquire, Inv, TypeOK
  <1>2. /\ tx[t].plan # <<>> /\ Passes(t, l) /\ \A u \in Txs : ~Conflicts(t, u)
        /\ UNCHANGED <<scenario, status, sessions, issued, expired, items, keys, marks, follows, answers>>
    BY DEF Acquire, accounts, content
  <1>3. /\ tx[t] \in Transaction /\ tx[t].pc = "open" /\ Expected(t, l) /\ l \in Lock /\ l = tx[t].plan[1]
        /\ TxOK(t) /\ scenario \in Scenarios
    BY <1>2, NextLock DEF Inv, TypeOK
  <1>4. /\ q \in Seq(Lock)
        /\ \/ l = KeyRowLock(t) /\ hit /\ q = <<>>
           \/ /\ l = AccountLock(t) /\ tx[t].op = "disable"
              /\ \A i \in DOMAIN q : \E k \in Tokens : q[i] = ForUpdate(<<"session", k>>)
           \/ q = Tail(tx[t].plan) /\ ~hit
    <2>1. Follows(t, l, q)
      BY <1>2, RemainingPlan
    <2>2. l.row[1] = "key" => (hit <=> Replayed(t) # {})
      OBVIOUS
    <2> HIDE DEF l
    <2> QED
      BY <2>1, <2>2, RowKinds DEF Follows
  <1>5. hit => \E row \in Replayed(t) : /\ result = row.item /\ row \in keys
                                        /\ row.request = RequestIn(t)
    <2> SUFFICES ASSUME hit PROVE \E row \in Replayed(t) : /\ result = row.item /\ row \in keys
                                                           /\ row.request = RequestIn(t)
      OBVIOUS
    <2>1. (CHOOSE row \in Replayed(t) : TRUE) \in Replayed(t)
      OBVIOUS
    <2>2. \A row \in Replayed(t) : row \in keys /\ row.request = RequestIn(t)
      BY <1>2 DEF Passes, KeyPasses, Replayed
    <2> QED
      BY <2>1, <2>2
  <1> DEFINE R == [[[tx[t] EXCEPT !.plan = q] EXCEPT !.held = held] EXCEPT !.result = result]
  <1>6. tx' = [tx EXCEPT ![t] = R]
    BY <1>1 DEF Inv, TypeOK
  <1>7. result \in Nat /\ held \in SUBSET Lock /\ tx[t].held \subseteq held /\ held \subseteq tx[t].held \cup {l}
    <2>1. hit => result \in Nat
      BY <1>5 DEF Inv, TypeOK, Key, Replayed
    <2> QED
      BY <1>3, <2>1 DEF Transaction
  <1> HIDE DEF held, result
  <1>8. /\ R \in Transaction /\ R.plan = q /\ R.held = held /\ R.result = result
        /\ R.pc = "open" /\ R.op = tx[t].op /\ R.actor = tx[t].actor /\ R.token = tx[t].token
        /\ R.key = tx[t].key /\ R.target = tx[t].target /\ R.body = tx[t].body
    BY <1>3, <1>4, <1>7 DEF Transaction
  <1> HIDE DEF R
  <1>9. tx'[t] = R /\ (\A u \in Txs \ {t} : tx'[u] = tx[u])
    BY <1>6 DEF Inv, TypeOK
  <1>10. /\ AccountLock(t)' = AccountLock(t) /\ SessionLock(t)' = SessionLock(t)
         /\ KeyRowLock(t)' = KeyRowLock(t) /\ PostRowLock(t)' = PostRowLock(t)
         /\ FollowedLock(t)' = FollowedLock(t) /\ Guarded(t)' = Guarded(t) /\ Tokens' = Tokens
    BY <1>2, <1>8, <1>9 DEF AccountLock, SessionLock, KeyRowLock, PostRowLock, FollowedLock, Guarded, PostOf,
           ForUpdate, ForShare, Tokens, MaxTokens
  <1>11. Replayed(t)' = Replayed(t) /\ RequestIn(t)' = RequestIn(t) /\ (hit => Found(t)')
    BY <1>2, <1>5, <1>8, <1>9 DEF Replayed, Found, RequestIn
  <1>12. \A m : m # l /\ Left(t, m) /\ q = Tail(tx[t].plan) => Left(t, m)'
    <2> SUFFICES ASSUME NEW m, m # l, NEW i \in DOMAIN tx[t].plan, tx[t].plan[i] = m,
                        q = Tail(tx[t].plan)
                 PROVE  \E j \in DOMAIN q : q[j] = m
      BY <1>8, <1>9 DEF Left
    <2>1. i # 1
      BY <1>3
    <2> QED
      BY <1>2, <2>1, NextLock
  <1>13. Exists(l) => l \in held
    BY DEF held
  <1>14. FieldsOK(t)'
    <2>1. \A m : Expected(t, m) => Expected(t, m)'
      BY <1>8, <1>9, <1>10 DEF Expected
    <2>2. \A i \in DOMAIN q : Expected(t, q[i])'
      <3>1. CASE q = <<>>
        BY <3>1
      <3>2. CASE tx[t].op = "disable" /\ \A i \in DOMAIN q : \E k \in Tokens : q[i] = ForUpdate(<<"session", k>>)
        BY <1>8, <1>9, <1>10, <3>2 DEF Expected
      <3>3. CASE q = Tail(tx[t].plan)
        BY <1>2, <1>3, <2>1, <3>3, NextLock DEF TxOK, FieldsOK
      <3> QED
        BY <1>4, <3>1, <3>2, <3>3
    <2>3. Operations' = Operations /\ Bodies' = Bodies /\ Posts' = Posts
      BY <1>2 DEF Operations, Bodies, Posts
    <2> QED
      BY <1>2, <1>3, <1>8, <1>9, <2>2, <2>3 DEF TxOK, FieldsOK
  <1>15. ActorOK(t)'
    <2> SUFFICES ASSUME tx[t].op \in Writes PROVE ActorOK(t)'
      BY <1>8, <1>9 DEF ActorOK
    <2>1. tx[t].op \notin {"register", "disable", "login", "logout"}
      BY DEF Writes, Creations, Marks
    <2>2. tx[t].actor \in Humans /\ tx[t].actor # 0
      BY <1>3, <2>1, Constants DEF TxOK, FieldsOK, Writes, Creations, Marks
    <2>3. CASE Len(tx[t].plan) >= 2 /\ tx[t].plan[1] = AccountLock(t) /\ tx[t].plan[2] = SessionLock(t)
      <3>1. l.row[1] = "account" /\ l.row[2] = tx[t].actor
        BY <1>3, <2>3, RowKinds
      <3>2. status[tx[t].actor] = "active" /\ l \in held
        BY <1>2, <1>13, <2>1, <3>1 DEF Passes, AccountPasses, Exists
      <3>3. q = Tail(tx[t].plan)
        BY <1>4, <2>1, <3>1
      <3>4. Len(q) >= 1 /\ q[1] = SessionLock(t)
        BY <1>2, <2>3, <3>3, NextLock
      <3> QED
        BY <1>2, <1>3, <1>8, <1>9, <1>10, <2>3, <3>2, <3>4 DEF ActorOK
    <2>4. CASE /\ AccountLock(t) \in tx[t].held /\ status[tx[t].actor] = "active"
               /\ Len(tx[t].plan) >= 1 /\ tx[t].plan[1] = SessionLock(t)
      <3>1. l.row[1] = "session" /\ l.row[2] = tx[t].token
        BY <1>3, <2>4, RowKinds
      <3>2. sessions[tx[t].token] = tx[t].actor
        BY <1>2, <3>1 DEF Passes, SessionPasses, SessionWrite, Writes
      <3>3. l \in held
        BY <1>13, <2>2, <3>1, <3>2 DEF Exists
      <3> QED
        BY <1>2, <1>3, <1>7, <1>8, <1>9, <1>10, <2>4, <3>2, <3>3 DEF ActorOK
    <2>5. CASE /\ AccountLock(t) \in tx[t].held /\ status[tx[t].actor] = "active"
               /\ SessionLock(t) \in tx[t].held /\ sessions[tx[t].token] = tx[t].actor
      BY <1>2, <1>7, <1>8, <1>9, <1>10, <2>5 DEF ActorOK
    <2> QED
      BY <1>3, <2>3, <2>4, <2>5 DEF TxOK, ActorOK
  <1>16. OwnerOK(t)'
    <2> SUFFICES ASSUME tx[t].op \in Owning, ~Left(t, AccountLock(t))' PROVE OwnerOK(t)'
      BY <1>8, <1>9 DEF OwnerOK
    <2>1. tx[t].op \notin Writes /\ tx[t].op \notin Creations /\ tx[t].op \notin Touching
      BY DEF Owning, Writes, Creations, Marks, Touching
    <2>2. CASE l = AccountLock(t)
      <3>1. l.row[1] = "account" /\ l.row[2] = tx[t].actor
        BY <2>2, RowKinds
      <3> QED
        BY <1>2, <1>8, <1>9, <1>10, <1>13, <2>2, <3>1 DEF OwnerOK, Passes, AccountPasses, Exists, Owning
    <2>3. CASE l # AccountLock(t)
      <3>1. l.row[1] = "session"
        BY <1>3, <2>1, <2>3, RowKinds DEF Expected, Owning
      <3>2. q = Tail(tx[t].plan)
        BY <1>4, <2>3, <3>1
      <3>3. ~Left(t, AccountLock(t))
        BY <1>10, <1>12, <2>3, <3>2 DEF Left
      <3> QED
        BY <1>2, <1>3, <1>7, <1>8, <1>9, <1>10, <3>3 DEF TxOK, OwnerOK
    <2> QED
      BY <2>2, <2>3
  <1>17. EndOK(t)'
    <2> SUFFICES ASSUME tx[t].op \in Ending, tx[t].token # 0, ~Left(t, SessionLock(t))' PROVE EndOK(t)'
      BY <1>8, <1>9 DEF EndOK
    <2>1. tx[t].op \notin Writes /\ tx[t].op \notin Creations /\ tx[t].op \notin Touching /\ tx[t].op # "disable"
      BY DEF Ending, Writes, Creations, Marks, Touching
    <2>2. CASE l = SessionLock(t)
      <3>1. l.row[1] = "session" /\ l.row[2] = tx[t].token
        BY <2>2, RowKinds
      <3> QED
        BY <1>2, <1>8, <1>9, <1>10, <1>13, <2>2, <3>1 DEF EndOK, Exists
    <2>3. CASE l # SessionLock(t)
      <3>1. l.row[1] = "account"
        BY <1>3, <2>1, <2>3, RowKinds DEF Expected
      <3>2. q = Tail(tx[t].plan)
        BY <1>4, <2>1, <3>1
      <3>3. ~Left(t, SessionLock(t))
        BY <1>10, <1>12, <2>3, <3>2 DEF Left
      <3> QED
        BY <1>2, <1>3, <1>7, <1>8, <1>9, <1>10, <2>1, <3>3 DEF TxOK, EndOK
    <2> QED
      BY <2>2, <2>3
  <1>18. KeyOK(t)'
    <2> SUFFICES ASSUME tx[t].op \in Creations PROVE KeyOK(t)'
      BY <1>8, <1>9 DEF KeyOK
    <2>1. /\ tx[t].result = 0
          /\ Left(t, KeyRowLock(t)) \/ (KeyRowLock(t) \in tx[t].held /\ Replayed(t) = {})
      BY <1>2, <1>3 DEF TxOK, KeyOK
    <2>2. tx[t].op # "disable"
      BY DEF Creations
    <2>3. CASE hit
      BY <1>4, <1>8, <1>9, <1>11, <2>2, <2>3 DEF KeyOK
    <2>4. CASE ~hit
      <3>1. q = Tail(tx[t].plan) /\ result = 0
        BY <1>4, <2>1, <2>2, <2>4 DEF result
      <3>2. CASE l = KeyRowLock(t)
        <4>1. l.row[1] = "key"
          BY <3>2, RowKinds
        <4>2. Replayed(t) = {} /\ l \in held
          BY <1>13, <2>4, <4>1 DEF Exists
        <4> QED
          BY <1>8, <1>9, <1>10, <1>11, <3>1, <3>2, <4>2 DEF KeyOK
      <3>3. CASE l # KeyRowLock(t)
        <4>1. Left(t, KeyRowLock(t)) => (Left(t, KeyRowLock(t)))'
          BY <1>10, <1>12, <3>1, <3>3 DEF Left
        <4> QED
          BY <1>7, <1>8, <1>9, <1>10, <1>11, <2>1, <3>1, <4>1 DEF KeyOK
      <3> QED
        BY <3>2, <3>3
    <2> QED
      BY <2>3, <2>4
  <1>19. PostOK(t)'
    <2> SUFFICES ASSUME tx[t].op \in Touching PROVE PostOK(t)'
      BY <1>8, <1>9 DEF PostOK
    <2>1. Left(t, PostRowLock(t)) \/ (PostRowLock(t) \in tx[t].held /\ ~items[Guarded(t)].deleted)
      BY <1>2, <1>3 DEF TxOK, PostOK
    <2>2. tx[t].op # "disable"
      BY DEF Touching, Marks
    <2>3. CASE hit
      <3>1. l = KeyRowLock(t) /\ q = <<>>
        BY <1>4, <2>2, <2>3
      <3>2. tx[t].op \in Creations
        BY <1>3, <2>3, RowKinds DEF Expected
      <3> QED
        BY <1>8, <1>9, <1>11, <2>3, <3>1, <3>2 DEF PostOK
    <2>4. CASE ~hit
      <3>1. q = Tail(tx[t].plan)
        BY <1>4, <2>2, <2>4
      <3>2. CASE l = PostRowLock(t)
        <4>1. l.row[1] = "post" /\ l.row[2] = Guarded(t)
          BY <3>2, RowKinds
        <4>2. ~items[Guarded(t)].deleted /\ l \in held
          BY <1>2, <1>13, <4>1 DEF Exists, Passes, PostPasses
        <4> QED
          BY <1>2, <1>8, <1>9, <1>10, <3>2, <4>2 DEF PostOK
      <3>3. CASE l # PostRowLock(t)
        <4>1. Left(t, PostRowLock(t)) => (Left(t, PostRowLock(t)))'
          BY <1>10, <1>12, <3>1, <3>3 DEF Left
        <4> QED
          BY <1>2, <1>7, <1>8, <1>9, <1>10, <2>1, <4>1 DEF PostOK
      <3> QED
        BY <3>2, <3>3
    <2> QED
      BY <2>3, <2>4
  <1>20. Exclusive'
    <2> SUFFICES ASSUME NEW u \in Txs, NEW v \in Txs, u # v, NEW a \in tx'[u].held, NEW b \in tx'[v].held,
                        a.row = b.row
                 PROVE  a.shared /\ b.shared
      BY DEF Exclusive
    <2>1. \A w \in Txs \ {t} : \A m \in tx[w].held : m.row = l.row => m.shared /\ l.shared
      <3> SUFFICES ASSUME NEW w \in Txs \ {t}, NEW m \in tx[w].held, m.row = l.row PROVE m.shared /\ l.shared
        OBVIOUS
      <3> QED
        BY <1>2 DEF Conflicts
    <2>2. CASE u # t /\ v # t
      BY <1>9, <2>2 DEF Inv, Exclusive
    <2>3. CASE u = t
      <3>1. b \in tx[v].held /\ (a \in tx[t].held \/ a = l)
        BY <1>7, <1>8, <1>9, <2>3
      <3> QED
        BY <2>1, <2>3, <3>1 DEF Inv, Exclusive
    <2>4. CASE v = t
      <3>1. a \in tx[u].held /\ (b \in tx[t].held \/ b = l)
        BY <1>7, <1>8, <1>9, <2>4
      <3> QED
        BY <2>1, <2>4, <3>1 DEF Inv, Exclusive
    <2> QED
      BY <2>2, <2>3, <2>4
  <1>21. TypeOK'
    BY <1>2, <1>6, <1>8 DEF Inv, TypeOK, Transaction, Tokens, MaxTokens, Item, Bodies, Key, Request, Mark, Follow,
           Answer, MaxItems, Operations, Lock, Row
  <1>22. \A u \in Txs \ {t} : TxOK(u)'
    BY <1>2, <1>9, TxKeeps DEF Inv
  <1>23. TxOK(t)'
    BY <1>14, <1>15, <1>16, <1>17, <1>18, <1>19 DEF TxOK
  <1> QED
    BY <1>2, <1>20, <1>21, <1>22, <1>23, RowsKeep DEF Inv

-----------------------------------------------------------------------------
(* Transactions end. *)

\* The sets of types only depend on the instance.
LEMMA SameTypes ==
    ASSUME scenario' = scenario
    PROVE  /\ Tokens' = Tokens /\ Item' = Item /\ Key' = Key /\ Request' = Request
           /\ Mark' = Mark /\ Follow' = Follow /\ Answer' = Answer
           /\ Transaction' = Transaction /\ MaxItems' = MaxItems /\ MaxTokens' = MaxTokens
           /\ Operations' = Operations /\ Bodies' = Bodies
  BY DEF Tokens, MaxTokens, Item, Bodies, Key, Request, Mark, Follow, Answer, MaxItems, Transaction,
         Operations, Lock, Row

\* The end of a transaction gives its locks back.
LEMMA DoneTx ==
    ASSUME Inv, NEW t \in Txs, Done(t), scenario' = scenario
    PROVE  /\ tx' \in [Txs -> Transaction'] /\ Exclusive' /\ TxOK(t)'
           /\ \A u \in Txs \ {t} : tx'[u] = tx[u]
  <1>1. Idle \in Transaction /\ tx \in [Txs -> Transaction]
    BY DEF Idle, Transaction, Inv, TypeOK
  <1>2. Idle.held = {} /\ Idle.plan = <<>> /\ Idle.pc = "idle"
    BY DEF Idle
  <1>3. tx' = [tx EXCEPT ![t] = Idle]
    BY DEF Done
  <1>4. tx'[t] = Idle /\ \A u \in Txs \ {t} : tx'[u] = tx[u]
    BY <1>1, <1>3
  <1>5. TxOK(t)'
    BY <1>2, <1>4 DEF TxOK, FieldsOK, ActorOK, OwnerOK, EndOK, KeyOK, PostOK
  <1>6. Exclusive'
    BY <1>2, <1>3, ExclusiveKeeps DEF Inv
  <1> QED
    BY <1>1, <1>3, <1>4, <1>5, <1>6, SameTypes

\* What a transaction relies on when content changes: no second use of its key
\* and no deletion of its post.
LEMMA ContentKeeps ==
    ASSUME Inv, NEW u \in Txs, tx'[u] = tx[u], UNCHANGED <<scenario, status, sessions, issued>>,
           DOMAIN items \subseteq DOMAIN items', keys \subseteq keys',
           \A i \in DOMAIN items : items'[i].kind = items[i].kind /\ items'[i].about = items[i].about,
           tx[u].pc = "open" /\ tx[u].op \in Creations /\ KeyRowLock(u) \in tx[u].held /\ Replayed(u) = {}
               => Replayed(u)' = {},
           tx[u].pc = "open" /\ tx[u].op \in Touching /\ PostRowLock(u) \in tx[u].held
               /\ ~items[Guarded(u)].deleted => ~items'[Guarded(u)].deleted
    PROVE  TxOK(u)'
  <1>1. TxOK(u)
    BY DEF Inv
  <1>2. /\ AccountLock(u)' = AccountLock(u) /\ SessionLock(u)' = SessionLock(u)
        /\ KeyRowLock(u)' = KeyRowLock(u) /\ FollowedLock(u)' = FollowedLock(u) /\ Tokens' = Tokens
    BY DEF AccountLock, SessionLock, KeyRowLock, FollowedLock, ForUpdate, ForShare, Tokens, MaxTokens
  <1>3. tx[u].pc = "open" => Guarded(u)' = Guarded(u) /\ PostRowLock(u)' = PostRowLock(u)
    BY <1>1 DEF TxOK, FieldsOK, Guarded, PostRowLock, PostOf, ForUpdate
  <1>4. Found(u) => Found(u)'
    BY DEF Found, Replayed, RequestIn
  <1>5. FieldsOK(u)'
    <2>1. tx[u].pc = "open" => \A l : Expected(u, l) => Expected(u, l)'
      BY <1>2, <1>3 DEF Expected, ForUpdate
    <2>2. Operations' = Operations /\ Bodies' = Bodies /\ Posts \subseteq Posts'
      BY DEF Operations, Bodies, Posts
    <2> QED
      BY <1>1, <1>4, <2>1, <2>2 DEF FieldsOK, TxOK
  <1>6. ActorOK(u)' /\ OwnerOK(u)' /\ EndOK(u)'
    BY <1>1, <1>2 DEF TxOK, ActorOK, OwnerOK, EndOK, Left
  <1>7. KeyOK(u)'
    BY <1>1, <1>2, <1>4 DEF TxOK, KeyOK, Left
  <1>8. PostOK(u)'
    BY <1>1, <1>3, <1>4 DEF TxOK, PostOK, Left
  <1> QED
    BY <1>5, <1>6, <1>7, <1>8 DEF TxOK

\* What a transaction relies on when accounts and sessions change: its account,
\* its session, and that a session which is over does not come back.
LEMMA AccountsKeep ==
    ASSUME Inv, NEW u \in Txs, tx'[u] = tx[u], UNCHANGED <<scenario, items, keys>>,
           issued' \in Nat, issued <= issued',
           tx[u].pc = "open" /\ tx[u].op \in Writes \cup Owning /\ AccountLock(u) \in tx[u].held
               => status'[tx[u].actor] = status[tx[u].actor],
           tx[u].pc = "open" /\ tx[u].op \in Writes /\ AccountLock(u) \in tx[u].held
               /\ SessionLock(u) \in tx[u].held /\ sessions[tx[u].token] = tx[u].actor
               => sessions'[tx[u].token] = tx[u].actor,
           tx[u].pc = "open" /\ tx[u].op \in Ending /\ tx[u].token # 0 /\ sessions[tx[u].token] = 0
               => sessions'[tx[u].token] = 0
    PROVE  TxOK(u)'
  <1>1. TxOK(u) /\ issued \in Nat
    <2>1. MaxTokens \in Nat
      BY Constants DEF Inv, TypeOK
    <2> QED
      BY <2>1 DEF Inv, TypeOK
  <1>2. /\ AccountLock(u)' = AccountLock(u) /\ SessionLock(u)' = SessionLock(u)
        /\ KeyRowLock(u)' = KeyRowLock(u) /\ PostRowLock(u)' = PostRowLock(u)
        /\ FollowedLock(u)' = FollowedLock(u) /\ Guarded(u)' = Guarded(u) /\ Tokens' = Tokens
    BY DEF AccountLock, SessionLock, KeyRowLock, PostRowLock, FollowedLock, Guarded, PostOf,
           ForUpdate, ForShare, Tokens, MaxTokens
  <1>3. Replayed(u)' = Replayed(u) /\ Found(u)' = Found(u)
    BY DEF Replayed, Found, RequestIn
  <1>4. FieldsOK(u)'
    <2>1. \A l : Expected(u, l) => Expected(u, l)'
      BY <1>2 DEF Expected, ForUpdate
    <2>2. Operations' = Operations /\ Bodies' = Bodies /\ Posts' = Posts
      BY DEF Operations, Bodies, Posts
    <2>3. 1..issued \subseteq 1..issued' /\ 0..issued \subseteq 0..issued'
      BY <1>1
    <2> QED
      BY <1>1, <1>3, <2>1, <2>2, <2>3 DEF FieldsOK, TxOK
  <1>5. ActorOK(u)'
    BY <1>1, <1>2 DEF TxOK, ActorOK
  <1>6. OwnerOK(u)'
    BY <1>1, <1>2 DEF TxOK, OwnerOK, Left
  <1>7. EndOK(u)'
    BY <1>1, <1>2 DEF TxOK, EndOK, Left
  <1>8. KeyOK(u)' /\ PostOK(u)'
    BY <1>1, <1>2, <1>3 DEF TxOK, KeyOK, PostOK, Left
  <1> QED
    BY <1>4, <1>5, <1>6, <1>7, <1>8 DEF TxOK

LEMMA RollbackInv ==
    ASSUME Inv, NEW t \in Txs, Rollback(t)
    PROVE  Inv'
  <1>1. Idle \in Transaction /\ Idle.held = {}
    BY DEF Idle, Transaction
  <1>2. tx' = [tx EXCEPT ![t] = Idle] /\ UNCHANGED <<accounts, content, answers>>
    BY DEF Rollback, Done
  <1>3. TxOK(t)'
    BY <1>2, DoneTx DEF Rollback, accounts
  <1> QED
    BY <1>1, <1>2, <1>3, BeginTx

LEMMA ExpireInv ==
    ASSUME Inv, NEW k \in Tokens, Expire(k)
    PROVE  Inv'
  <1>1. /\ UNCHANGED <<scenario, status, sessions, issued, items, keys, marks, follows, tx, answers>>
        /\ expired' = expired \cup {k}
    BY DEF Expire, content
  <1>2. TypeOK'
    BY <1>1, SameTypes DEF Inv, TypeOK
  <1>3. Exclusive' /\ \A u \in Txs : TxOK(u)'
    BY <1>1, TxKeeps DEF Inv, Exclusive
  <1> QED
    BY <1>1, <1>2, <1>3, RowsKeep DEF Inv

\* What an ending transaction that only writes marks, follows or answers leaves.
LEMMA DoneBeside ==
    ASSUME Inv, NEW t \in Txs, Done(t), UNCHANGED <<accounts, items, keys>>,
           marks' \subseteq Mark, follows' \subseteq Follow, answers' \subseteq Answer
    PROVE  Inv'
  <1>1. UNCHANGED <<scenario, status, sessions, issued, expired, items, keys>>
    BY DEF accounts
  <1>2. /\ tx' \in [Txs -> Transaction'] /\ Exclusive' /\ TxOK(t)'
        /\ \A u \in Txs \ {t} : tx'[u] = tx[u]
    BY <1>1, DoneTx
  <1>3. TypeOK'
    BY <1>1, <1>2, SameTypes DEF Inv, TypeOK
  <1>4. \A u \in Txs \ {t} : TxOK(u)'
    BY <1>1, <1>2, TxKeeps DEF Inv
  <1> QED
    BY <1>1, <1>2, <1>3, <1>4, RowsKeep DEF Inv

\* Items are numbered by their positions.
LEMMA ItemRange ==
    ASSUME Inv
    PROVE  /\ Len(items) \in Nat /\ MaxItems \in Nat /\ DOMAIN items = 1..Len(items)
           /\ DOMAIN items \subseteq 1..MaxItems /\ DOMAIN items \subseteq Nat \ {0}
           /\ \A i \in DOMAIN items : items[i] \in Item
  <1>1. MaxItems \in Nat /\ items \in Seq(Item) /\ Len(items) <= MaxItems
    BY Constants DEF Inv, TypeOK, ItemsOK
  <1> QED
    BY <1>1

LEMMA CommitMarkInv ==
    ASSUME Inv, NEW t \in Txs, CommitMark(t)
    PROVE  Inv'
  <1>1. /\ tx[t].pc = "open" /\ tx[t].op \in Marks /\ Done(t)
        /\ UNCHANGED <<accounts, items, keys, follows, answers>>
    BY DEF CommitMark, Ready
  <1>2. tx[t].actor \in Humans /\ tx[t].target \in DOMAIN items
    BY <1>1 DEF Inv, TxOK, FieldsOK, Posts, Marks
  <1>3. [kind |-> tx[t].op, actor |-> tx[t].actor, post |-> tx[t].target] \in Mark
    BY <1>1, <1>2, ItemRange DEF Mark
  <1>4. marks' \subseteq Mark
    BY <1>3 DEF CommitMark, Toggle, Inv, TypeOK
  <1> QED
    BY <1>1, <1>4, DoneBeside DEF Inv, TypeOK

LEMMA CommitFollowInv ==
    ASSUME Inv, NEW t \in Txs, CommitFollow(t)
    PROVE  Inv'
  <1>1. /\ tx[t].pc = "open" /\ tx[t].op = "follow" /\ Done(t)
        /\ UNCHANGED <<accounts, items, keys, marks, answers>>
    BY DEF CommitFollow, Ready
  <1>2. tx[t].actor \in Humans /\ tx[t].target \in Humans
    BY <1>1 DEF Inv, TxOK, FieldsOK
  <1>3. follows' \subseteq Follow
    BY <1>2 DEF CommitFollow, Toggle, Inv, TypeOK, Follow
  <1> QED
    BY <1>1, <1>3, DoneBeside DEF Inv, TypeOK

LEMMA AnswerCreationInv ==
    ASSUME Inv, NEW t \in Txs, AnswerCreation(t)
    PROVE  Inv'
  <1>1. tx[t].pc = "committed" /\ Done(t) /\ UNCHANGED <<accounts, content>>
    BY DEF AnswerCreation
  <1>2. PICK row \in Replayed(t) : row.request = RequestIn(t) /\ row.item = tx[t].result
    BY <1>1 DEF Inv, TxOK, FieldsOK, Found
  <1>3. row \in Key /\ row.actor = tx[t].actor /\ row.key = tx[t].key
    BY <1>2 DEF Replayed, Inv, TypeOK
  <1>4. [actor |-> tx[t].actor, key |-> tx[t].key, request |-> RequestIn(t), item |-> tx[t].result]
            \in Answer
    BY <1>2, <1>3 DEF Key, Answer
  <1>5. answers' \subseteq Answer
    BY <1>4 DEF AnswerCreation, Inv, TypeOK
  <1> QED
    BY <1>1, <1>5, DoneBeside DEF content, Inv, TypeOK

\* A transaction has taken all its locks.
LEMMA ReadyTx ==
    ASSUME Inv, NEW t \in Txs, tx[t].pc = "open", tx[t].plan = <<>>
    PROVE  /\ tx[t].op \in Owning => /\ AccountLock(t) \in tx[t].held /\ tx[t].actor \in Humans
                                     /\ tx[t].op = "register" => status[tx[t].actor] = "absent"
                                     /\ tx[t].op = "login" => status[tx[t].actor] = "active"
           /\ tx[t].op \in Ending /\ tx[t].token # 0 =>
                  SessionLock(t) \in tx[t].held \/ sessions[tx[t].token] = 0
           /\ tx[t].op \in Writes => /\ status[tx[t].actor] = "active"
                                     /\ sessions[tx[t].token] = tx[t].actor
           /\ tx[t].op \in Touching \ Creations =>
                  PostRowLock(t) \in tx[t].held /\ ~items[Guarded(t)].deleted
           /\ tx[t].op \in Creations =>
                  \/ Found(t)
                  \/ /\ tx[t].result = 0 /\ KeyRowLock(t) \in tx[t].held /\ Replayed(t) = {}
                     /\ tx[t].op # "post" =>
                            PostRowLock(t) \in tx[t].held /\ ~items[Guarded(t)].deleted
  <1>1. TxOK(t) /\ \A l : ~Left(t, l)
    BY DEF Inv, Left
  <1>2. Len(tx[t].plan) = 0
    OBVIOUS
  <1>3. tx[t].op \in Owning => tx[t].actor \in Humans
    BY <1>1 DEF TxOK, FieldsOK, Owning
  <1>4. tx[t].op \in Creations /\ tx[t].op # "post" => tx[t].op \in Touching
    BY DEF Creations, Touching
  <1>5. tx[t].op \in Owning => /\ AccountLock(t) \in tx[t].held
                               /\ tx[t].op = "register" => status[tx[t].actor] = "absent"
                               /\ tx[t].op = "login" => status[tx[t].actor] = "active"
    BY <1>1 DEF TxOK, OwnerOK
  <1>6. tx[t].op \in Writes => status[tx[t].actor] = "active" /\ sessions[tx[t].token] = tx[t].actor
    BY <1>1, <1>2 DEF TxOK, ActorOK
  <1>7. tx[t].op \in Touching => \/ tx[t].op \in Creations /\ Found(t)
                                 \/ PostRowLock(t) \in tx[t].held /\ ~items[Guarded(t)].deleted
    BY <1>1 DEF TxOK, PostOK
  <1>8. tx[t].op \in Creations =>
            Found(t) \/ (tx[t].result = 0 /\ KeyRowLock(t) \in tx[t].held /\ Replayed(t) = {})
    BY <1>1 DEF TxOK, KeyOK
  <1>9. tx[t].op \in Ending /\ tx[t].token # 0 =>
            SessionLock(t) \in tx[t].held \/ sessions[tx[t].token] = 0
    BY <1>1 DEF TxOK, EndOK
  <1> QED
    BY <1>3, <1>4, <1>5, <1>6, <1>7, <1>8, <1>9

\* Nobody else holds the row of a lock that is not shared.
LEMMA HeldAlone ==
    ASSUME Inv, NEW t \in Txs, NEW u \in Txs, t # u, NEW l \in tx[t].held, NEW m \in tx[u].held,
           ~l.shared
    PROVE  l.row # m.row
  BY DEF Inv, Exclusive

LEMMA CommitDeletionInv ==
    ASSUME Inv, NEW t \in Txs, CommitDeletion(t)
    PROVE  Inv'
  <1> DEFINE i == tx[t].target
  <1>1. /\ tx[t].pc = "open" /\ tx[t].plan = <<>> /\ tx[t].op \in {"delete", "remove"} /\ Done(t)
        /\ items' = [items EXCEPT ![i].deleted = TRUE]
        /\ UNCHANGED <<scenario, status, sessions, issued, expired, keys, marks, follows, answers>>
    BY DEF CommitDeletion, Ready, accounts
  <1>2. i \in DOMAIN items
    BY <1>1 DEF Inv, TxOK, FieldsOK
  <1>3. items \in Seq(Item) /\ items[i] \in Item
    BY <1>2, ItemRange DEF Inv, TypeOK
  <1>4. /\ DOMAIN items' = DOMAIN items /\ Len(items') = Len(items)
        /\ \A j \in DOMAIN items : j # i => items'[j] = items[j]
        /\ items'[i] = [items[i] EXCEPT !.deleted = TRUE]
    <2> HIDE DEF i
    <2> QED
      BY <1>1, <1>2, <1>3
  <1>5. \A j \in DOMAIN items : /\ items'[j] \in Item
                                /\ items'[j].kind = items[j].kind /\ items'[j].about = items[j].about
                                /\ items'[j].author = items[j].author /\ items'[j].key = items[j].key
                                /\ items'[j].body = items[j].body
    <2> SUFFICES ASSUME NEW j \in DOMAIN items
                 PROVE  /\ items'[j] \in Item
                        /\ items'[j].kind = items[j].kind /\ items'[j].about = items[j].about
                        /\ items'[j].author = items[j].author /\ items'[j].key = items[j].key
                        /\ items'[j].body = items[j].body
      OBVIOUS
    <2>1. CASE j # i
      BY <1>4, <2>1, ItemRange
    <2>2. CASE j = i
      <3> HIDE DEF i
      <3> QED
        BY <1>3, <1>4, <2>2 DEF Item
    <2> QED
      BY <2>1, <2>2
  <1>6. items' \in Seq(Item)
    <2>1. items' \in [1..Len(items) -> Item]
      <3>1. items' = [j \in DOMAIN items' |-> items'[j]]
        BY <1>1
      <3> QED
        BY <1>4, <1>5, <3>1, ItemRange
    <2> QED
      BY <2>1, ItemRange
  <1>7. /\ tx' \in [Txs -> Transaction'] /\ Exclusive' /\ TxOK(t)'
        /\ \A u \in Txs \ {t} : tx'[u] = tx[u]
    BY <1>1, DoneTx
  <1>8. TypeOK'
    BY <1>1, <1>6, <1>7, SameTypes DEF Inv, TypeOK
  <1>9. ItemsOK'
    BY <1>1, <1>4, <1>5, ItemRange, SameTypes DEF Inv, ItemsOK
  <1>10. KeysOK'
    BY <1>1, <1>4, <1>5 DEF Inv, KeysOK, RequestOf
  <1>11. SessionsOK'
    BY <1>1, SameTypes DEF Inv, SessionsOK, DisabledHasNoSession
  <1>12. PostRowLock(t) \in tx[t].held /\ Guarded(t) = PostOf(i)
    <2>1. tx[t].op \in Touching \ Creations
      BY <1>1 DEF Touching, Creations, Marks
    <2> QED
      BY <1>1, <2>1, ReadyTx DEF Guarded
  <1>13. ASSUME NEW u \in Txs \ {t} PROVE TxOK(u)'
    <2>1. ASSUME tx[u].pc = "open", tx[u].op \in Touching, PostRowLock(u) \in tx[u].held,
                 ~items[Guarded(u)].deleted
          PROVE  ~items'[Guarded(u)].deleted
      <3>1. Guarded(u) \in DOMAIN items /\ items[Guarded(u)].kind # "reply"
        <4>1. CASE tx[u].op \in {"delete", "remove"}
          <5>1. tx[u].target \in DOMAIN items /\ Guarded(u) = PostOf(tx[u].target)
            BY <2>1, <4>1 DEF Inv, TxOK, FieldsOK, Guarded
          <5>2. CASE items[tx[u].target].kind = "reply"
            <6>1. /\ items[tx[u].target].about \in 1..(tx[u].target - 1)
                  /\ items[items[tx[u].target].about].kind # "reply"
              BY <5>1, <5>2 DEF Inv, ItemsOK
            <6>2. items[tx[u].target].about \in DOMAIN items
              BY <5>1, <6>1, ItemRange
            <6> QED
              BY <5>1, <5>2, <6>1, <6>2 DEF PostOf
          <5>3. CASE items[tx[u].target].kind # "reply"
            BY <5>1, <5>3 DEF PostOf
          <5> QED
            BY <5>2, <5>3
        <4>2. CASE tx[u].op \notin {"delete", "remove"}
          <5>1. tx[u].op \in {"quote", "reply"} \cup Marks /\ Guarded(u) = tx[u].target
            BY <2>1, <4>2 DEF Touching, Guarded
          <5> QED
            BY <2>1, <5>1 DEF Inv, TxOK, FieldsOK, Posts
        <4> QED
          BY <4>1, <4>2
      <3>2. PostRowLock(t).row # PostRowLock(u).row
        BY <1>12, <2>1, HeldAlone DEF PostRowLock, ForUpdate
      <3>3. Guarded(t) # Guarded(u)
        BY <3>2 DEF PostRowLock, ForUpdate
      <3>4. Guarded(u) # i
        BY <1>12, <3>1, <3>3 DEF PostOf
      <3> QED
        BY <1>4, <2>1, <3>1, <3>4
    <2>2. Replayed(u)' = Replayed(u)
      BY <1>1, <1>7 DEF Replayed
    <2> QED
      BY <1>1, <1>4, <1>5, <1>7, <2>1, <2>2, ContentKeeps
  <1> QED
    BY <1>7, <1>8, <1>9, <1>10, <1>11, <1>13 DEF Inv

\* The accounts and sessions of transactions are those that exist.
LEMMA AccountTypes ==
    ASSUME Inv
    PROVE  /\ scenario \in Scenarios /\ MaxTokens \in Nat /\ issued \in 0..MaxTokens /\ issued \in Nat
           /\ Tokens = 1..MaxTokens /\ 0 \notin Humans
           /\ \A k \in Tokens : sessions[k] \in Humans \cup {0}
           /\ \A u \in Txs : tx[u].pc = "open" =>
                  /\ tx[u].op \in Writes \cup Owning => tx[u].actor \in Humans
                  /\ tx[u].op \in Writes \cup {"logout"} => tx[u].token \in Tokens /\ tx[u].token <= issued
                  /\ tx[u].op \in Ending /\ tx[u].token # 0 => tx[u].token \in Tokens /\ tx[u].token <= issued
  <1>1. /\ scenario \in Scenarios /\ MaxTokens \in Nat /\ issued \in 0..MaxTokens /\ issued \in Nat
        /\ Tokens = 1..MaxTokens /\ 0 \notin Humans
        /\ \A k \in Tokens : sessions[k] \in Humans \cup {0}
    <2>1. scenario \in Scenarios
      BY DEF Inv, TypeOK
    <2> QED
      BY <2>1, Constants DEF Inv, TypeOK, Tokens
  <1>2. ASSUME NEW u \in Txs, tx[u].pc = "open"
        PROVE  /\ tx[u].op \in Writes \cup Owning => tx[u].actor \in Humans
               /\ tx[u].op \in Writes \cup {"logout"} => tx[u].token \in Tokens /\ tx[u].token <= issued
               /\ tx[u].op \in Ending /\ tx[u].token # 0 => tx[u].token \in Tokens /\ tx[u].token <= issued
    <2>1. FieldsOK(u)
      BY DEF Inv, TxOK
    <2>2. tx[u].op \in Writes \cup Owning => tx[u].op \notin {"logout", "remove"}
      BY DEF Writes, Owning, Creations, Marks
    <2> QED
      BY <1>1, <1>2, <2>1, <2>2 DEF FieldsOK
  <1> QED
    BY <1>1, <1>2

LEMMA CommitSessionInv ==
    ASSUME Inv, NEW t \in Txs, CommitSession(t)
    PROVE  Inv'
  <1> DEFINE h == tx[t].actor
             old == tx[t].token
  <1>1. /\ tx[t].pc = "open" /\ tx[t].plan = <<>> /\ tx[t].op \in {"register", "login"} /\ Done(t)
        /\ issued < MaxTokens /\ issued' = issued + 1
        /\ sessions' = [k \in Tokens |-> CASE k = issued + 1 -> h
                                           [] k = old -> 0
                                           [] OTHER -> sessions[k]]
        /\ status' = [status EXCEPT ![h] = IF tx[t].op = "register" THEN "active" ELSE @]
        /\ UNCHANGED <<scenario, expired, items, keys, marks, follows, answers>>
    BY DEF CommitSession, Ready, content
  <1>2. /\ AccountLock(t) \in tx[t].held /\ h \in Humans
        /\ tx[t].op = "register" => status[h] = "absent"
        /\ tx[t].op = "login" => status[h] = "active"
        /\ old # 0 => SessionLock(t) \in tx[t].held \/ sessions[old] = 0
    <2>1. tx[t].op \in Owning /\ tx[t].op \in Ending
      BY <1>1 DEF Owning, Ending
    <2> QED
      BY <1>1, <2>1, ReadyTx
  <1>3. (AccountLock(t).shared = FALSE) /\ (SessionLock(t).shared = FALSE)
    <2>1. (tx[t].op = "follow") = FALSE /\ (tx[t].op \in Writes) = FALSE
      BY <1>1 DEF Writes, Creations, Marks
    <2> QED
      BY <2>1 DEF AccountLock, SessionLock
  <1>4. /\ tx' \in [Txs -> Transaction'] /\ Exclusive' /\ TxOK(t)'
        /\ \A u \in Txs \ {t} : tx'[u] = tx[u]
    BY <1>1, DoneTx
  <1>5. /\ scenario \in Scenarios /\ MaxTokens \in Nat /\ issued \in Nat
        /\ Tokens = 1..MaxTokens /\ 0 \notin Humans
        /\ \A k \in Tokens : sessions[k] \in Humans \cup {0}
    BY AccountTypes
  <1>6. old # issued + 1
    <2>1. tx[t].op \in Ending
      BY <1>1 DEF Ending
    <2>2. old = 0 \/ (old \in Tokens /\ old <= issued)
      BY <1>1, <2>1, AccountTypes
    <2> QED
      BY <1>5, <2>2
  <1>7. status' \in [Humans -> {"absent", "active", "disabled"}] /\ status'[h] = "active"
        /\ \A g \in Humans : g # h => status'[g] = status[g]
    BY <1>1, <1>2 DEF Inv, TypeOK
  <1>8. /\ sessions' \in [Tokens -> Humans \cup {0}]
        /\ issued + 1 \in Tokens /\ sessions'[issued + 1] = h
        /\ \A k \in Tokens : k # issued + 1 => /\ k = old => sessions'[k] = 0
                                               /\ k # old => sessions'[k] = sessions[k]
    <2>1. issued + 1 \in Tokens
      BY <1>1, <1>5
    <2> HIDE DEF h, old
    <2>2. sessions' \in [Tokens -> Humans \cup {0}]
      BY <1>1, <1>2, <1>5
    <2>3. ASSUME NEW k \in Tokens, k = issued + 1 PROVE sessions'[k] = h
      <3>1. sessions'[k] = CASE k = issued + 1 -> h [] k = old -> 0 [] OTHER -> sessions[k]
        BY <1>1
      <3> QED
        BY <1>6, <2>3, <3>1
    <2>4. ASSUME NEW k \in Tokens, k # issued + 1
          PROVE  /\ k = old => sessions'[k] = 0
                 /\ k # old => sessions'[k] = sessions[k]
      <3>1. sessions'[k] = CASE k = issued + 1 -> h [] k = old -> 0 [] OTHER -> sessions[k]
        BY <1>1
      <3> QED
        BY <2>4, <3>1
    <2> QED
      BY <2>1, <2>2, <2>3, <2>4
  <1> HIDE DEF h, old
  <1>9. TypeOK'
    <2>1. issued' \in 0..MaxTokens
      BY <1>1, <1>5
    <2> QED
      BY <1>1, <1>4, <1>7, <1>8, <2>1, SameTypes DEF Inv, TypeOK
  <1>10. ItemsOK' /\ KeysOK'
    BY <1>1, SameTypes DEF Inv, ItemsOK, KeysOK, RequestOf
  <1>11. SessionsOK'
    <2>1. ASSUME NEW k \in Tokens, sessions'[k] # 0 PROVE status'[sessions'[k]] = "active"
      <3>1. CASE k = issued + 1
        BY <1>7, <1>8, <3>1
      <3>2. CASE k # issued + 1
        <4>1. sessions'[k] = sessions[k]
          BY <1>8, <2>1, <3>2
        <4>2. status[sessions[k]] = "active" /\ sessions[k] \in Humans
          BY <1>5, <2>1, <4>1 DEF Inv, SessionsOK, DisabledHasNoSession
        <4> QED
          BY <1>7, <4>1, <4>2
      <3> QED
        BY <3>1, <3>2
    <2>2. ASSUME NEW k \in Tokens, k > issued' PROVE sessions'[k] = 0
      <3>1. k # issued + 1 /\ k > issued
        BY <1>1, <1>5, <2>2
      <3> QED
        BY <1>8, <3>1 DEF Inv, SessionsOK
    <2> QED
      BY <1>1, <2>1, <2>2, SameTypes DEF SessionsOK, DisabledHasNoSession
  <1>12. ASSUME NEW u \in Txs \ {t} PROVE TxOK(u)'
    <2>1. ASSUME tx[u].pc = "open", tx[u].op \in Writes \cup Owning, AccountLock(u) \in tx[u].held
          PROVE  status'[tx[u].actor] = status[tx[u].actor]
      <3>1. AccountLock(t).row # AccountLock(u).row
        BY <1>2, <1>3, <2>1, HeldAlone
      <3>2. tx[u].actor # h /\ tx[u].actor \in Humans
        BY <2>1, <3>1, RowKinds, AccountTypes DEF h
      <3> QED
        BY <1>7, <3>2
    <2>2. ASSUME tx[u].pc = "open", tx[u].op \in Writes, SessionLock(u) \in tx[u].held,
                 sessions[tx[u].token] = tx[u].actor
          PROVE  sessions'[tx[u].token] = tx[u].actor
      <3>1. tx[u].token \in Tokens /\ tx[u].token <= issued /\ tx[u].actor \in Humans
        BY <2>2, AccountTypes
      <3>2. tx[u].token # old
        <4>1. SUFFICES ASSUME tx[u].token = old PROVE FALSE
          OBVIOUS
        <4>2. old # 0 /\ sessions[old] # 0
          BY <1>5, <2>2, <3>1, <4>1
        <4>3. SessionLock(t).row # SessionLock(u).row
          BY <1>2, <1>3, <2>2, <4>2, HeldAlone
        <4> QED
          BY <4>1, <4>3, RowKinds DEF old
      <3>3. tx[u].token # issued + 1
        BY <1>5, <3>1
      <3> QED
        BY <1>8, <2>2, <3>1, <3>2, <3>3
    <2>3. ASSUME tx[u].pc = "open", tx[u].op \in Ending, tx[u].token # 0, sessions[tx[u].token] = 0
          PROVE  sessions'[tx[u].token] = 0
      <3>1. tx[u].token \in Tokens /\ tx[u].token # issued + 1
        BY <1>5, <2>3, AccountTypes
      <3> QED
        BY <1>8, <2>3, <3>1
    <2>4. issued' \in Nat /\ issued <= issued'
      BY <1>1, <1>5
    <2> QED
      BY <1>1, <1>4, <2>1, <2>2, <2>3, <2>4, AccountsKeep
  <1> QED
    BY <1>4, <1>9, <1>10, <1>11, <1>12 DEF Inv

LEMMA CommitLogoutInv ==
    ASSUME Inv, NEW t \in Txs, CommitLogout(t)
    PROVE  Inv'
  <1> DEFINE old == tx[t].token
  <1>1. /\ tx[t].pc = "open" /\ tx[t].plan = <<>> /\ tx[t].op = "logout" /\ Done(t)
        /\ sessions' = [sessions EXCEPT ![old] = 0]
        /\ UNCHANGED <<scenario, status, issued, expired, items, keys, marks, follows, answers>>
    BY DEF CommitLogout, Ready, content
  <1>2. old \in Tokens /\ old # 0 /\ (SessionLock(t) \in tx[t].held \/ sessions[old] = 0)
    <2>1. tx[t].op \in Ending
      BY <1>1 DEF Ending
    <2>2. old \in Tokens /\ old # 0
      BY <1>1, AccountTypes
    <2> QED
      BY <1>1, <2>1, <2>2, ReadyTx
  <1>3. SessionLock(t).shared = FALSE
    <2>1. (tx[t].op \in Writes) = FALSE
      BY <1>1 DEF Writes, Creations, Marks
    <2> QED
      BY <2>1 DEF SessionLock
  <1>4. /\ tx' \in [Txs -> Transaction'] /\ Exclusive' /\ TxOK(t)'
        /\ \A u \in Txs \ {t} : tx'[u] = tx[u]
    BY <1>1, DoneTx
  <1>5. /\ sessions' \in [Tokens -> Humans \cup {0}] /\ sessions'[old] = 0
        /\ \A k \in Tokens : k # old => sessions'[k] = sessions[k]
    BY <1>1, <1>2 DEF Inv, TypeOK
  <1> HIDE DEF old
  <1>6. TypeOK'
    BY <1>1, <1>4, <1>5, SameTypes DEF Inv, TypeOK
  <1>7. ItemsOK' /\ KeysOK'
    BY <1>1, SameTypes DEF Inv, ItemsOK, KeysOK, RequestOf
  <1>8. SessionsOK'
    BY <1>1, <1>5, SameTypes DEF Inv, SessionsOK, DisabledHasNoSession
  <1>9. ASSUME NEW u \in Txs \ {t} PROVE TxOK(u)'
    <2>1. ASSUME tx[u].pc = "open", tx[u].op \in Writes, SessionLock(u) \in tx[u].held,
                 sessions[tx[u].token] = tx[u].actor
          PROVE  sessions'[tx[u].token] = tx[u].actor
      <3>1. tx[u].token \in Tokens /\ tx[u].actor \in Humans /\ 0 \notin Humans
        BY <2>1, AccountTypes
      <3>2. tx[u].token # old
        <4>1. SUFFICES ASSUME tx[u].token = old PROVE FALSE
          OBVIOUS
        <4>2. sessions[old] # 0
          BY <2>1, <3>1, <4>1
        <4>3. SessionLock(t).row # SessionLock(u).row
          BY <1>2, <1>3, <2>1, <4>2, HeldAlone
        <4> QED
          BY <4>1, <4>3, RowKinds DEF old
      <3> QED
        BY <1>5, <2>1, <3>1, <3>2
    <2>2. ASSUME tx[u].pc = "open", tx[u].op \in Ending, tx[u].token # 0, sessions[tx[u].token] = 0
          PROVE  sessions'[tx[u].token] = 0
      BY <1>5, <2>2, AccountTypes
    <2>3. issued' \in Nat /\ issued <= issued'
      BY <1>1, AccountTypes
    <2> QED
      BY <1>1, <1>4, <2>1, <2>2, <2>3, AccountsKeep
  <1> QED
    BY <1>4, <1>6, <1>7, <1>8, <1>9 DEF Inv

LEMMA CommitDisableInv ==
    ASSUME Inv, NEW t \in Txs, CommitDisable(t)
    PROVE  Inv'
  <1> DEFINE h == tx[t].actor
  <1>1. /\ tx[t].pc = "open" /\ tx[t].plan = <<>> /\ tx[t].op = "disable" /\ Done(t)
        /\ status' = [status EXCEPT ![h] = "disabled"]
        /\ sessions' = [k \in Tokens |-> IF sessions[k] = h THEN 0 ELSE sessions[k]]
        /\ UNCHANGED <<scenario, issued, expired, items, keys, marks, follows, answers>>
    BY DEF CommitDisable, Ready, content
  <1>2. AccountLock(t) \in tx[t].held /\ h \in Humans
    <2>1. tx[t].op \in Owning
      BY <1>1 DEF Owning
    <2> QED
      BY <1>1, <2>1, ReadyTx
  <1>3. AccountLock(t).shared = FALSE
    BY <1>1 DEF AccountLock
  <1>4. /\ tx' \in [Txs -> Transaction'] /\ Exclusive' /\ TxOK(t)'
        /\ \A u \in Txs \ {t} : tx'[u] = tx[u]
    BY <1>1, DoneTx
  <1>5. /\ status' \in [Humans -> {"absent", "active", "disabled"}]
        /\ \A g \in Humans : g # h => status'[g] = status[g]
    BY <1>1, <1>2 DEF Inv, TypeOK
  <1> HIDE DEF h
  <1>6. /\ sessions' \in [Tokens -> Humans \cup {0}]
        /\ \A k \in Tokens : /\ sessions[k] = h => sessions'[k] = 0
                             /\ sessions[k] # h => sessions'[k] = sessions[k]
    BY <1>1, AccountTypes
  <1>7. TypeOK'
    BY <1>1, <1>4, <1>5, <1>6, SameTypes DEF Inv, TypeOK
  <1>8. ItemsOK' /\ KeysOK'
    BY <1>1, SameTypes DEF Inv, ItemsOK, KeysOK, RequestOf
  <1>9. SessionsOK'
    <2>1. ASSUME NEW k \in Tokens, sessions'[k] # 0 PROVE status'[sessions'[k]] = "active"
      <3>1. sessions[k] # h /\ sessions'[k] = sessions[k] /\ sessions[k] \in Humans
        BY <1>6, <2>1, AccountTypes
      <3> QED
        BY <1>5, <2>1, <3>1 DEF Inv, SessionsOK, DisabledHasNoSession
    <2>2. ASSUME NEW k \in Tokens, k > issued' PROVE sessions'[k] = 0
      BY <1>1, <1>6, <2>2 DEF Inv, SessionsOK
    <2> QED
      BY <1>1, <2>1, <2>2, SameTypes DEF SessionsOK, DisabledHasNoSession
  <1>10. ASSUME NEW u \in Txs \ {t} PROVE TxOK(u)'
    <2>1. ASSUME tx[u].pc = "open", tx[u].op \in Writes \cup Owning, AccountLock(u) \in tx[u].held
          PROVE  tx[u].actor # h /\ tx[u].actor \in Humans
      <3>1. AccountLock(t).row # AccountLock(u).row
        BY <1>2, <1>3, <2>1, HeldAlone
      <3> QED
        BY <2>1, <3>1, RowKinds, AccountTypes DEF h
    <2>2. ASSUME tx[u].pc = "open", tx[u].op \in Writes, AccountLock(u) \in tx[u].held,
                 sessions[tx[u].token] = tx[u].actor
          PROVE  sessions'[tx[u].token] = tx[u].actor
      BY <1>6, <2>1, <2>2, AccountTypes
    <2>3. ASSUME tx[u].pc = "open", tx[u].op \in Ending, tx[u].token # 0, sessions[tx[u].token] = 0
          PROVE  sessions'[tx[u].token] = 0
      BY <1>6, <2>3, AccountTypes
    <2>4. issued' \in Nat /\ issued <= issued'
      BY <1>1, AccountTypes
    <2> QED
      BY <1>1, <1>4, <1>5, <2>1, <2>2, <2>3, <2>4, AccountsKeep
  <1> QED
    BY <1>4, <1>7, <1>8, <1>9, <1>10 DEF Inv

\* A creation that found nothing under its key adds its item and its key.
NewItem(t) == [kind |-> tx[t].op, author |-> tx[t].actor, key |-> tx[t].key, body |-> tx[t].body,
               about |-> tx[t].target, deleted |-> FALSE, by |-> tx[t].token]
NewKey(t) == [actor |-> tx[t].actor, key |-> tx[t].key, request |-> RequestIn(t),
              item |-> Len(items) + 1]

LEMMA FreshCreation ==
    ASSUME Inv, NEW t \in Txs, CommitCreation(t), tx[t].result = 0
    PROVE  /\ KeyRowLock(t) \in tx[t].held /\ Replayed(t) = {}
           /\ Len(items) + 1 <= MaxItems /\ NewItem(t) \in Item /\ NewKey(t) \in Key
           /\ tx[t].op = "post" => tx[t].target = 0
           /\ tx[t].op # "post" => /\ tx[t].target \in Posts /\ ~items[tx[t].target].deleted
           /\ items' = Append(items, NewItem(t)) /\ items' \in Seq(Item)
           /\ DOMAIN items' = DOMAIN items \cup {Len(items) + 1} /\ Len(items) + 1 \notin DOMAIN items
           /\ Len(items') = Len(items) + 1 /\ items'[Len(items) + 1] = NewItem(t)
           /\ \A i \in DOMAIN items : items'[i] = items[i]
           /\ keys' = keys \cup {NewKey(t)}
  <1>1. /\ tx[t].pc = "open" /\ tx[t].plan = <<>> /\ tx[t].op \in Creations
        /\ Len(items) + 1 <= MaxItems
        /\ items' = Append(items, NewItem(t)) /\ keys' = keys \cup {NewKey(t)}
    BY DEF CommitCreation, Ready, NewItem, NewKey
  <1>2. ~Found(t)
    <2> SUFFICES ASSUME NEW row \in Replayed(t), row.item = tx[t].result PROVE FALSE
      BY DEF Found
    <2>1. row \in Key /\ MaxItems \in Nat
      BY ItemRange DEF Replayed, Inv, TypeOK
    <2> QED
      BY <2>1 DEF Key
  <1>3. /\ KeyRowLock(t) \in tx[t].held /\ Replayed(t) = {}
        /\ tx[t].op # "post" => ~items[Guarded(t)].deleted
    BY <1>1, <1>2, ReadyTx
  <1>4. /\ tx[t].op = "post" => tx[t].target = 0
        /\ tx[t].op # "post" => tx[t].target \in Posts /\ ~items[tx[t].target].deleted
        /\ tx[t].actor \in Humans /\ tx[t].key \in Keys /\ tx[t].body \in Bodies
        /\ tx[t].target \in Nat /\ tx[t].token \in Nat
    <2>1. FieldsOK(t) /\ tx[t] \in Transaction
      BY DEF Inv, TxOK, TypeOK
    <2>2. tx[t].op # "post" => tx[t].op \in {"quote", "reply"} /\ tx[t].op \notin {"delete", "remove"}
      BY <1>1 DEF Creations
    <2>3. tx[t].op # "post" => Guarded(t) = tx[t].target
      BY <2>2 DEF Guarded
    <2>4. tx[t].target \in Nat /\ tx[t].token \in Nat
      BY <2>1 DEF Transaction
    <2> QED
      BY <1>1, <1>3, <2>1, <2>2, <2>3, <2>4 DEF FieldsOK
  <1>5. tx[t].key \in Nat /\ scenario \in Scenarios
    BY <1>4, Constants DEF Inv, TypeOK
  <1>6. NewItem(t) \in Item
    BY <1>1, <1>4, <1>5 DEF NewItem, Item
  <1>7. NewKey(t) \in Key
    <2>1. RequestIn(t) \in Request
      BY <1>1, <1>4 DEF RequestIn, Request
    <2>2. Len(items) + 1 \in 1..MaxItems
      BY <1>1, ItemRange
    <2> QED
      BY <1>4, <2>1, <2>2 DEF NewKey, Key
  <1>8. /\ items' \in Seq(Item) /\ Len(items') = Len(items) + 1 /\ items'[Len(items) + 1] = NewItem(t)
        /\ DOMAIN items' = DOMAIN items \cup {Len(items) + 1} /\ Len(items) + 1 \notin DOMAIN items
        /\ \A i \in DOMAIN items : items'[i] = items[i]
    <2>1. items \in Seq(Item)
      BY DEF Inv, TypeOK
    <2> QED
      BY <1>1, <1>6, <2>1
  <1> QED
    BY <1>1, <1>3, <1>4, <1>6, <1>7, <1>8

\* A repeated creation changes nothing.
LEMMA RepeatedCreation ==
    ASSUME Inv, NEW t \in Txs, CommitCreation(t), tx[t].result # 0
    PROVE  Found(t) /\ items' = items /\ keys' = keys
  <1>1. tx[t].pc = "open" /\ tx[t].plan = <<>> /\ tx[t].op \in Creations /\ items' = items /\ keys' = keys
    BY DEF CommitCreation, Ready
  <1> QED
    BY <1>1, ReadyTx

LEMMA CommitCreationInv ==
    ASSUME Inv, NEW t \in Txs, CommitCreation(t)
    PROVE  Inv'
  <1> DEFINE id == IF tx[t].result = 0 THEN Len(items) + 1 ELSE tx[t].result
             R == [[[tx[t] EXCEPT !.pc = "committed"] EXCEPT !.held = {}] EXCEPT !.result = id]
  <1>1. /\ tx[t].pc = "open" /\ tx[t].plan = <<>> /\ tx[t].op \in Creations
        /\ tx' = [tx EXCEPT ![t] = R]
        /\ UNCHANGED <<scenario, status, sessions, issued, expired, marks, follows, answers>>
    <2>1. tx' = [tx EXCEPT ![t].pc = "committed", ![t].held = {}, ![t].result = id]
      BY DEF CommitCreation
    <2> HIDE DEF id
    <2>2. tx' = [tx EXCEPT ![t] = R]
      BY <2>1 DEF Inv, TypeOK
    <2> QED
      BY <2>2 DEF CommitCreation, Ready, accounts
  <1>2. tx[t] \in Transaction /\ id \in Nat
    BY ItemRange DEF Inv, TypeOK, Transaction
  <1> HIDE DEF id
  <1>3. /\ R \in Transaction /\ R.pc = "committed" /\ R.held = {} /\ R.result = id /\ R.plan = <<>>
        /\ R.op = tx[t].op /\ R.actor = tx[t].actor /\ R.key = tx[t].key /\ R.body = tx[t].body
        /\ R.target = tx[t].target
    BY <1>1, <1>2 DEF Transaction
  <1> HIDE DEF R
  <1>4. tx'[t] = R /\ \A u \in Txs \ {t} : tx'[u] = tx[u]
    BY <1>1 DEF Inv, TypeOK
  <1>5. tx' \in [Txs -> Transaction'] /\ Exclusive'
    <2>1. tx' \in [Txs -> Transaction]
      BY <1>1, <1>3 DEF Inv, TypeOK
    <2>2. Exclusive'
      BY <1>1, <1>3, ExclusiveKeeps DEF Inv
    <2> QED
      BY <1>1, <2>1, <2>2, SameTypes
  <1>6. SessionsOK'
    BY <1>1, SameTypes DEF Inv, SessionsOK, DisabledHasNoSession
  <1>7. Found(t)' => TxOK(t)'
    <2>1. /\ tx[t].actor \in Humans /\ tx[t].key \in Keys /\ tx[t].body \in Bodies
          /\ tx[t].op = "post" => tx[t].target = 0
      BY <1>1 DEF Inv, TxOK, FieldsOK
    <2>2. tx'[t].pc # "open" /\ Bodies' = Bodies
      BY <1>1, <1>3, <1>4, SameTypes
    <2>3. Found(t)' => FieldsOK(t)'
      BY <1>1, <1>3, <1>4, <2>1, <2>2 DEF FieldsOK
    <2> QED
      BY <2>2, <2>3 DEF TxOK, ActorOK, OwnerOK, EndOK, KeyOK, PostOK
  <1>8. RequestIn(t)' = RequestIn(t)
    BY <1>3, <1>4 DEF RequestIn
  <1>9. CASE tx[t].result # 0
    <2>1. Found(t) /\ items' = items /\ keys' = keys
      BY <1>9, RepeatedCreation
    <2>2. Found(t)'
      BY <1>3, <1>4, <1>8, <1>9, <2>1 DEF Found, Replayed, id
    <2>3. TypeOK'
      BY <1>1, <1>5, <2>1, SameTypes DEF Inv, TypeOK
    <2>4. \A u \in Txs \ {t} : TxOK(u)'
      BY <1>1, <1>4, <2>1, TxKeeps DEF Inv
    <2> QED
      BY <1>1, <1>5, <1>7, <2>1, <2>2, <2>3, <2>4, RowsKeep DEF Inv
  <1>10. CASE tx[t].result = 0
    <2> DEFINE n == Len(items) + 1
    <2>1. /\ KeyRowLock(t) \in tx[t].held /\ Replayed(t) = {}
          /\ n <= MaxItems /\ NewItem(t) \in Item /\ NewKey(t) \in Key
          /\ tx[t].op = "post" => tx[t].target = 0
          /\ tx[t].op # "post" => /\ tx[t].target \in Posts /\ ~items[tx[t].target].deleted
          /\ items' \in Seq(Item)
          /\ DOMAIN items' = DOMAIN items \cup {n} /\ n \notin DOMAIN items
          /\ Len(items') = n /\ items'[n] = NewItem(t)
          /\ \A i \in DOMAIN items : items'[i] = items[i]
          /\ keys' = keys \cup {NewKey(t)}
      BY <1>10, FreshCreation
    <2>2. /\ NewItem(t).kind = tx[t].op /\ NewItem(t).about = tx[t].target
          /\ NewItem(t).author = tx[t].actor /\ NewItem(t).key = tx[t].key
          /\ RequestOf(NewItem(t)) = RequestIn(t)
          /\ NewKey(t).actor = tx[t].actor /\ NewKey(t).key = tx[t].key
          /\ NewKey(t).request = RequestIn(t) /\ NewKey(t).item = n
      BY DEF NewItem, NewKey, RequestOf, RequestIn
    <2>3. n \in Nat /\ DOMAIN items = 1..(n - 1) /\ id = n
      BY <1>10, ItemRange DEF id
    <2> HIDE DEF n
    <2>4. TypeOK'
      BY <1>1, <1>5, <2>1, SameTypes DEF Inv, TypeOK
    <2>5. ItemsOK'
      <3>1. Len(items') <= MaxItems'
        BY <1>1, <2>1, SameTypes
      <3>2. ASSUME NEW i \in DOMAIN items
            PROVE  /\ items'[i].kind = "post" => items'[i].about = 0
                   /\ items'[i].kind # "post" => /\ items'[i].about \in 1..(i-1)
                                                 /\ items'[items'[i].about].kind # "reply"
        <4>1. items[i].kind # "post" => items[i].about \in DOMAIN items
          BY <2>3 DEF Inv, ItemsOK
        <4> QED
          BY <2>1, <4>1 DEF Inv, ItemsOK
      <3>3. /\ items'[n].kind = "post" => items'[n].about = 0
            /\ items'[n].kind # "post" => /\ items'[n].about \in 1..(n-1)
                                          /\ items'[items'[n].about].kind # "reply"
        BY <2>1, <2>2, <2>3 DEF Posts
      <3> QED
        BY <2>1, <3>1, <3>2, <3>3 DEF ItemsOK
    <2>6. KeysOK'
      <3>1. ASSUME NEW row \in keys'
            PROVE  /\ row.item \in DOMAIN items'
                   /\ items'[row.item].author = row.actor /\ items'[row.item].key = row.key
                   /\ RequestOf(items'[row.item]) = row.request
        <4>1. CASE row \in keys
          BY <2>1, <4>1 DEF Inv, KeysOK
        <4>2. CASE row = NewKey(t)
          BY <2>1, <2>2, <4>2
        <4> QED
          BY <2>1, <4>1, <4>2
      <3>2. ASSUME NEW i \in DOMAIN items', items'[i].key # 0
            PROVE  \E row \in keys' : row.actor = items'[i].author /\ row.key = items'[i].key
        <4>1. CASE i \in DOMAIN items
          BY <2>1, <3>2, <4>1 DEF Inv, KeysOK
        <4>2. CASE i = n
          BY <2>1, <2>2, <4>2
        <4> QED
          BY <2>1, <4>1, <4>2
      <3> QED
        BY <3>1, <3>2 DEF KeysOK, RequestOf
    <2>7. Found(t)'
      BY <1>3, <1>4, <1>8, <2>1, <2>2, <2>3 DEF Found, Replayed
    <2>8. ASSUME NEW u \in Txs \ {t} PROVE TxOK(u)'
      <3>1. ASSUME KeyRowLock(u) \in tx[u].held, Replayed(u) = {} PROVE Replayed(u)' = {}
        <4>1. KeyRowLock(t).row # KeyRowLock(u).row
          BY <2>1, <3>1, HeldAlone DEF KeyRowLock, ForUpdate
        <4>2. tx[u].actor # tx[t].actor \/ tx[u].key # tx[t].key
          BY <4>1 DEF KeyRowLock, ForUpdate
        <4> QED
          BY <1>4, <2>1, <2>2, <3>1, <4>2 DEF Replayed
      <3>2. ASSUME tx[u].pc = "open", tx[u].op \in Touching, ~items[Guarded(u)].deleted
            PROVE  ~items'[Guarded(u)].deleted
        <4>1. Guarded(u) \in DOMAIN items
          <5>1. tx[u].op \in {"quote", "reply"} \cup Marks \cup {"delete", "remove"}
            BY <3>2 DEF Touching
          <5>2. tx[u].target \in DOMAIN items
            BY <3>2, <5>1 DEF Inv, TxOK, FieldsOK, Posts
          <5>3. items[tx[u].target].kind = "reply" => items[tx[u].target].about \in DOMAIN items
            BY <2>3, <5>2 DEF Inv, ItemsOK
          <5> QED
            BY <5>2, <5>3 DEF Guarded, PostOf
        <4> QED
          BY <2>1, <3>2, <4>1
      <3> QED
        BY <1>1, <1>4, <2>1, <3>1, <3>2, ContentKeeps
    <2> QED
      BY <1>5, <1>6, <1>7, <2>4, <2>5, <2>6, <2>7, <2>8 DEF Inv
  <1> QED
    BY <1>9, <1>10

-----------------------------------------------------------------------------
(* The invariant. *)

LEMMA PersonWritesInv ==
    ASSUME Inv, NEW t \in Txs, NEW k \in Tokens, PersonWrites(t, k)
    PROVE  Inv'
  <1>1. ASSUME NEW key \in Keys, NEW body \in Bodies, NEW quoted \in Posts \cup {0},
               CreatePost(t, k, key, body, quoted)
        PROVE  Inv'
    BY <1>1, CreatePostInv
  <1>2. ASSUME NEW key \in Keys, NEW body \in Bodies, NEW p \in Posts, CreateReply(t, k, key, body, p)
        PROVE  Inv'
    BY <1>2, CreateReplyInv
  <1>3. ASSUME NEW kind \in Marks, NEW p \in Posts, NEW desired \in BOOLEAN,
               SetMark(t, k, kind, p, desired)
        PROVE  Inv'
    BY <1>3, SetMarkInv
  <1>4. ASSUME NEW p \in Posts, NEW desired \in BOOLEAN,
               \/ SetReaction(t, k, p, desired)
               \/ SetRepost(t, k, p, desired)
               \/ SetBookmark(t, k, p, desired)
        PROVE  Inv'
    BY <1>3, <1>4 DEF SetReaction, SetRepost, SetBookmark, Marks
  <1>5. ASSUME NEW i \in DOMAIN items, DeletePost(t, k, i) \/ DeleteReply(t, k, i)
        PROVE  Inv'
    BY <1>5, DeleteInv
  <1>6. ASSUME NEW h \in Humans, NEW desired \in BOOLEAN, SetFollow(t, k, h, desired)
        PROVE  Inv'
    BY <1>6, SetFollowInv
  <1> QED
    BY <1>1, <1>2, <1>4, <1>5, <1>6 DEF PersonWrites

LEMMA StutterInv == Inv /\ UNCHANGED vars => Inv'
  <1> SUFFICES ASSUME Inv, UNCHANGED vars PROVE Inv'
    OBVIOUS
  <1>1. /\ UNCHANGED <<scenario, status, sessions, issued, expired>>
        /\ UNCHANGED <<items, keys, marks, follows, tx, answers>>
    BY DEF vars
  <1>2. TypeOK'
    BY <1>1, SameTypes DEF Inv, TypeOK
  <1>3. Exclusive' /\ \A u \in Txs : TxOK(u)'
    BY <1>1, TxKeeps DEF Inv, Exclusive
  <1> QED
    BY <1>1, <1>2, <1>3, RowsKeep DEF Inv

LEMMA NextInv == Inv /\ [Next]_vars => Inv'
  <1> SUFFICES ASSUME Inv, [Next]_vars PROVE Inv'
    OBVIOUS
  <1>1. ASSUME NEW t \in Txs, NEW k \in Tokens, PersonWrites(t, k) PROVE Inv'
    BY <1>1, PersonWritesInv
  <1>2. ASSUME NEW t \in Txs, NEW h \in Humans, NEW k \in 0..issued,
               RegisterHuman(t, h, k) \/ Login(t, h, k)
        PROVE  Inv'
    BY <1>2, SessionBeginsInv
  <1>3. ASSUME NEW t \in Txs,
               \/ \E k \in Tokens : Logout(t, k)
               \/ \E h \in Humans : DisableAccount(t, h)
               \/ \E i \in DOMAIN items : Remove(t, i)
        PROVE  Inv'
    BY <1>3, OperatorBeginsInv
  <1>4. ASSUME NEW t \in Txs, Acquire(t) PROVE Inv'
    BY <1>4, AcquireInv
  <1>5. ASSUME NEW t \in Txs, CommitCreation(t) \/ AnswerCreation(t) PROVE Inv'
    BY <1>5, CommitCreationInv, AnswerCreationInv
  <1>6. ASSUME NEW t \in Txs, CommitMark(t) \/ CommitFollow(t) \/ CommitDeletion(t) PROVE Inv'
    BY <1>6, CommitMarkInv, CommitFollowInv, CommitDeletionInv
  <1>7. ASSUME NEW t \in Txs, CommitSession(t) \/ CommitLogout(t) \/ CommitDisable(t) PROVE Inv'
    BY <1>7, CommitSessionInv, CommitLogoutInv, CommitDisableInv
  <1>8. ASSUME NEW t \in Txs, Rollback(t) PROVE Inv'
    BY <1>8, RollbackInv
  <1>9. ASSUME NEW k \in Tokens, Expire(k) PROVE Inv'
    BY <1>9, ExpireInv
  <1>10. CASE UNCHANGED vars
    BY <1>10, StutterInv
  <1> QED
    BY <1>1, <1>2, <1>3, <1>4, <1>5, <1>6, <1>7, <1>8, <1>9, <1>10 DEF Next

(* What a transaction checked under a lock holds for as long as it has the *)
(* lock, and no two transactions hold a row that they do not both share.   *)
THEOREM ChecksStand == Spec => []Inv
  BY InitInv, NextInv, PTL DEF Spec

(* Every variable keeps its type: in particular every key, mark and answer *)
(* refers to an item among the MaxItems that fit.                          *)
THEOREM HumanTypes == Spec => []TypeOK
  <1>1. Inv => TypeOK
    BY DEF Inv
  <1> QED
    BY <1>1, ChecksStand, PTL

(* No session of a disabled account survives, whatever logins, logouts and *)
(* registrations run while the operator disables it (DisableAccount and    *)
(* RotateSession both lock the account first).                             *)
THEOREM DisabledLosesSessions == Spec => []DisabledHasNoSession
  <1>1. Inv => DisabledHasNoSession
    BY DEF Inv, SessionsOK
  <1> QED
    BY <1>1, ChecksStand, PTL

-----------------------------------------------------------------------------
(* What steps may never do. *)

\* The steps that change content.
LEMMA ContentSteps ==
    ASSUME [Next]_vars, content' # content
    PROVE  \E t \in Txs : CommitCreation(t) \/ CommitMark(t) \/ CommitFollow(t) \/ CommitDeletion(t)
  <1>1. ASSUME NEW t \in Txs, NEW T, Begin(t, T) PROVE FALSE
    BY <1>1 DEF Begin
  <1>2. ASSUME NEW t \in Txs, NEW k \in Tokens, PersonWrites(t, k) PROVE FALSE
    BY <1>1, <1>2 DEF PersonWrites, CreatePost, CreateReply, SetReaction, SetRepost, SetBookmark, SetMark,
                      DeletePost, DeleteReply, SetFollow, BeginWrite
  <1>3. ASSUME NEW t \in Txs, NEW h, NEW k, RegisterHuman(t, h, k) \/ Login(t, h, k) PROVE FALSE
    BY <1>1, <1>3 DEF RegisterHuman, Login
  <1>4. ASSUME NEW t \in Txs, NEW x, Logout(t, x) \/ DisableAccount(t, x) \/ Remove(t, x) PROVE FALSE
    BY <1>1, <1>4 DEF Logout, DisableAccount, Remove
  <1>5. ASSUME NEW t \in Txs, Acquire(t) \/ AnswerCreation(t) \/ Rollback(t) PROVE FALSE
    BY <1>5 DEF Acquire, AnswerCreation, Rollback
  <1>6. ASSUME NEW t \in Txs, CommitSession(t) \/ CommitLogout(t) \/ CommitDisable(t) PROVE FALSE
    BY <1>6 DEF CommitSession, CommitLogout, CommitDisable
  <1>7. ASSUME NEW k, Expire(k) PROVE FALSE
    BY <1>7 DEF Expire
  <1>8. ~UNCHANGED vars
    BY DEF vars, content
  <1> QED
    BY <1>2, <1>3, <1>4, <1>5, <1>6, <1>7, <1>8 DEF Next

(* A write commits only while the session it was made with has its row and *)
(* the account is active, although both were checked earlier and logouts,  *)
(* logins and the operator went on in between (lockHumanActor, SetFollow). *)
THEOREM WritesAreAuthorised == Spec => WritesAuthorised
  <1>1. Inv /\ [Next]_vars =>
            [\A t \in Txs :
                 /\ tx[t].pc = "open" /\ SessionWrite(t)
                 /\ content' # content
                 /\ tx'[t] # tx[t]
                 => sessions[tx[t].token] = tx[t].actor /\ status[tx[t].actor] = "active"]_vars
    <2> SUFFICES ASSUME Inv, [Next]_vars, NEW t \in Txs, tx[t].pc = "open", SessionWrite(t),
                        content' # content, tx'[t] # tx[t]
                 PROVE  sessions[tx[t].token] = tx[t].actor /\ status[tx[t].actor] = "active"
      OBVIOUS
    <2>1. PICK u \in Txs :
              CommitCreation(u) \/ CommitMark(u) \/ CommitFollow(u) \/ CommitDeletion(u)
      BY ContentSteps
    <2>2. tx[u].plan = <<>> /\ \A v \in Txs \ {u} : tx'[v] = tx[v]
      <3>1. CASE CommitCreation(u)
        BY <3>1 DEF CommitCreation, Ready, Inv, TypeOK
      <3>2. CASE CommitMark(u) \/ CommitFollow(u) \/ CommitDeletion(u)
        BY <3>2 DEF CommitMark, CommitFollow, CommitDeletion, Ready, Done, Inv, TypeOK
      <3> QED
        BY <2>1, <3>1, <3>2
    <2>3. t = u
      BY <2>2
    <2>4. tx[t].op \in Writes
      BY DEF SessionWrite, Writes
    <2> QED
      BY <2>2, <2>3, <2>4, ReadyTx
  <1> QED
    BY <1>1, ChecksStand, PTL DEF Spec, WritesAuthorised

(* A quote, a reply, a reaction, a repost or a bookmark is committed only   *)
(* while the post it is about is there, although the deletion may have     *)
(* begun before or run at the same time (lockVisiblePost).                 *)
THEOREM WritesNeedTheirPost == Spec => NothingOnDeleted
  <1>1. Inv /\ [Next]_vars =>
            [/\ \A i \in (Len(items) + 1)..Len(items') :
                    items'[i].about # 0 => ~items[items'[i].about].deleted
             /\ \A m \in marks' \ marks : ~items[m.post].deleted]_vars
    <2> SUFFICES ASSUME Inv, [Next]_vars
                 PROVE  /\ \A i \in (Len(items) + 1)..Len(items') :
                               items'[i].about # 0 => ~items[items'[i].about].deleted
                        /\ \A m \in marks' \ marks : ~items[m.post].deleted
      OBVIOUS
    <2> DEFINE new == (Len(items) + 1)..Len(items')
    <2>1. Len(items) \in Nat
      BY ItemRange
    <2>2. items' = items => new = {}
      BY <2>1
    <2>3. CASE content' = content
      BY <2>2, <2>3 DEF content
    <2>4. ASSUME NEW t \in Txs, CommitCreation(t)
          PROVE  marks' = marks /\ \A i \in new : items'[i].about # 0 => ~items[items'[i].about].deleted
      <3>1. marks' = marks
        BY <2>4 DEF CommitCreation
      <3>2. CASE tx[t].result # 0
        BY <2>2, <2>4, <3>1, <3>2, RepeatedCreation
      <3>3. CASE tx[t].result = 0
        <4>1. /\ Len(items') = Len(items) + 1 /\ items'[Len(items) + 1] = NewItem(t)
              /\ tx[t].op = "post" => tx[t].target = 0
              /\ tx[t].op # "post" => ~items[tx[t].target].deleted
          BY <2>4, <3>3, FreshCreation
        <4>2. new = {Len(items) + 1}
          BY <2>1, <4>1
        <4>3. NewItem(t).about = tx[t].target
          BY DEF NewItem
        <4> QED
          BY <3>1, <4>1, <4>2, <4>3
      <3> QED
        BY <3>2, <3>3
    <2>5. ASSUME NEW t \in Txs, CommitMark(t)
          PROVE  items' = items /\ \A m \in marks' \ marks : ~items[m.post].deleted
      <3>1. /\ items' = items /\ tx[t].pc = "open" /\ tx[t].plan = <<>> /\ tx[t].op \in Marks
            /\ \A m \in marks' \ marks : m.post = tx[t].target
        BY <2>5 DEF CommitMark, Ready, Toggle
      <3>2. tx[t].op \in Touching \ Creations /\ Guarded(t) = tx[t].target
        BY <3>1 DEF Touching, Creations, Marks, Guarded
      <3> QED
        BY <3>1, <3>2, ReadyTx
    <2>6. ASSUME NEW t \in Txs, CommitFollow(t) \/ CommitDeletion(t)
          PROVE  marks' = marks /\ Len(items') = Len(items)
      <3>1. CASE CommitFollow(t)
        BY <3>1 DEF CommitFollow
      <3>2. CASE CommitDeletion(t)
        <4>1. items \in Seq(Item)
          BY DEF Inv, TypeOK
        <4>2. marks' = marks /\ items' = [items EXCEPT ![tx[t].target].deleted = TRUE]
          BY <3>2 DEF CommitDeletion
        <4> QED
          BY <4>1, <4>2
      <3> QED
        BY <2>6, <3>1, <3>2
    <2>7. Len(items') = Len(items) => new = {}
      BY <2>1
    <2> QED
      BY <2>2, <2>3, <2>4, <2>5, <2>6, <2>7, ContentSteps
  <1> QED
    BY <1>1, ChecksStand, PTL DEF Spec, NothingOnDeleted

-----------------------------------------------------------------------------
(* Writes are idempotent. *)

\* What the promise sees of the items.
Created ==
    {[actor |-> items[i].author, key |-> items[i].key, request |-> RequestOf(items[i]), item |-> i] :
     i \in {j \in DOMAIN items : items[j].key # 0}}
Gone == {i \in DOMAIN items : items[i].deleted \/ items[PostOf(i)].deleted}

\* Only these steps change items or answers.
LEMMA ItemSteps ==
    ASSUME [Next]_vars
    PROVE  \/ UNCHANGED <<items, answers>>
           \/ \E t \in Txs : CommitCreation(t) \/ AnswerCreation(t) \/ CommitDeletion(t)
  <1>1. CASE content' # content
    <2>1. \A t \in Txs : CommitMark(t) \/ CommitFollow(t) => UNCHANGED <<items, answers>>
      BY DEF CommitMark, CommitFollow
    <2> QED
      BY <1>1, <2>1, ContentSteps
  <1>2. CASE content' = content
    <2>1. items' = items
      BY <1>2 DEF content
    <2>2. ASSUME NEW t \in Txs, NEW T, Begin(t, T) PROVE answers' = answers
      BY <2>2 DEF Begin
    <2>3. ASSUME NEW t \in Txs, NEW k \in Tokens, PersonWrites(t, k) PROVE answers' = answers
      BY <2>2, <2>3 DEF PersonWrites, CreatePost, CreateReply, SetReaction, SetRepost, SetBookmark, SetMark,
                        DeletePost, DeleteReply, SetFollow, BeginWrite
    <2>4. ASSUME NEW t \in Txs, NEW h, NEW k, RegisterHuman(t, h, k) \/ Login(t, h, k)
          PROVE  answers' = answers
      BY <2>2, <2>4 DEF RegisterHuman, Login
    <2>5. ASSUME NEW t \in Txs, NEW x, Logout(t, x) \/ DisableAccount(t, x) \/ Remove(t, x)
          PROVE  answers' = answers
      BY <2>2, <2>5 DEF Logout, DisableAccount, Remove
    <2>6. ASSUME NEW t \in Txs,
                 \/ Acquire(t) \/ Rollback(t) \/ CommitMark(t) \/ CommitFollow(t)
                 \/ CommitSession(t) \/ CommitLogout(t) \/ CommitDisable(t)
          PROVE  answers' = answers
      BY <2>6 DEF Acquire, Rollback, CommitMark, CommitFollow, CommitSession, CommitLogout, CommitDisable
    <2>7. ASSUME NEW k, Expire(k) PROVE answers' = answers
      BY <2>7 DEF Expire
    <2>8. UNCHANGED vars => answers' = answers
      BY DEF vars
    <2> QED
      BY <2>1, <2>3, <2>4, <2>5, <2>6, <2>7, <2>8 DEF Next
  <1> QED
    BY <1>1, <1>2

LEMMA CreationKeepsPromise ==
    ASSUME Inv, NEW t \in Txs, CommitCreation(t)
    PROVE  \/ UNCHANGED <<Created, Gone, answers>>
           \/ /\ \E c \in Created' :
                     /\ Created' = Created \cup {c}
                     /\ \A d \in Created : d.item # c.item /\ <<d.actor, d.key>> # <<c.actor, c.key>>
              /\ UNCHANGED <<Gone, answers>>
  <1>1. answers' = answers
    BY DEF CommitCreation
  <1>2. CASE tx[t].result # 0
    <2>1. items' = items
      BY <1>2, RepeatedCreation
    <2> QED
      BY <1>1, <2>1 DEF Created, Gone, RequestOf, PostOf
  <1>3. CASE tx[t].result = 0
    <2> DEFINE n == Len(items) + 1
               c == [actor |-> tx[t].actor, key |-> tx[t].key, request |-> RequestIn(t), item |-> n]
    <2>1. /\ Replayed(t) = {}
          /\ tx[t].op = "post" => tx[t].target = 0
          /\ tx[t].op # "post" => tx[t].target \in Posts /\ ~items[tx[t].target].deleted
          /\ DOMAIN items' = DOMAIN items \cup {n} /\ n \notin DOMAIN items
          /\ items'[n] = NewItem(t)
          /\ \A i \in DOMAIN items : items'[i] = items[i]
      BY <1>3, FreshCreation
    <2>2. /\ NewItem(t).kind = tx[t].op /\ NewItem(t).about = tx[t].target
          /\ NewItem(t).author = tx[t].actor /\ NewItem(t).key = tx[t].key
          /\ NewItem(t).deleted = FALSE /\ RequestOf(NewItem(t)) = RequestIn(t)
      BY DEF NewItem, RequestOf, RequestIn
    <2>3. tx[t].key # 0
      <3>1. tx[t].key \in Keys /\ scenario \in Scenarios
        BY DEF CommitCreation, Ready, Inv, TxOK, TypeOK, FieldsOK
      <3> QED
        BY <3>1, Constants
    <2> HIDE DEF n
    <2>4. Created' = Created \cup {c}
      <3>1. \A i \in DOMAIN items : RequestOf(items'[i]) = RequestOf(items[i])
        BY <2>1
      <3>2. Created' = {[actor |-> items'[i].author, key |-> items'[i].key,
                         request |-> RequestOf(items'[i]), item |-> i] :
                        i \in {j \in DOMAIN items' : items'[j].key # 0}}
        BY DEF Created, RequestOf
      <3>3. {j \in DOMAIN items' : items'[j].key # 0} = {j \in DOMAIN items : items[j].key # 0} \cup {n}
        BY <2>1, <2>2, <2>3
      <3> QED
        BY <2>1, <2>2, <3>1, <3>2, <3>3 DEF Created
    <2>5. ASSUME NEW d \in Created
          PROVE  d.item # c.item /\ <<d.actor, d.key>> # <<c.actor, c.key>>
      <3>1. PICK i \in DOMAIN items : /\ items[i].key # 0 /\ d.item = i
                                      /\ d.actor = items[i].author /\ d.key = items[i].key
        BY DEF Created
      <3>2. PICK row \in keys : row.actor = d.actor /\ row.key = d.key
        BY <3>1 DEF Inv, KeysOK
      <3>3. row.actor # tx[t].actor \/ row.key # tx[t].key
        BY <2>1, <3>2 DEF Replayed
      <3> QED
        BY <2>1, <3>1, <3>2, <3>3
    <2>6. Gone' = Gone
      <3> DEFINE after(i) == IF items'[i].kind = "reply" THEN items'[i].about ELSE i
      <3>1. \A i \in DOMAIN items : after(i) = PostOf(i) /\ PostOf(i) \in DOMAIN items
        <4>1. \A i \in DOMAIN items : PostOf(i) \in DOMAIN items
          BY ItemRange DEF PostOf, Inv, ItemsOK
        <4> QED
          BY <2>1, <4>1 DEF PostOf
      <3>2. ~items'[n].deleted /\ ~items'[after(n)].deleted
        BY <2>1, <2>2 DEF Posts
      <3>3. Gone' = {i \in DOMAIN items' : items'[i].deleted \/ items'[after(i)].deleted}
        BY DEF Gone, PostOf
      <3> HIDE DEF after
      <3>4. \A i \in DOMAIN items :
                (items'[i].deleted \/ items'[after(i)].deleted)
                <=> (items[i].deleted \/ items[PostOf(i)].deleted)
        BY <2>1, <3>1
      <3> QED
        BY <2>1, <3>2, <3>3, <3>4 DEF Gone
    <2> QED
      BY <1>1, <2>4, <2>5, <2>6
  <1> QED
    BY <1>2, <1>3

LEMMA DeletionKeepsPromise ==
    ASSUME Inv, NEW t \in Txs, CommitDeletion(t)
    PROVE  Gone \subseteq Gone' /\ UNCHANGED <<Created, answers>>
  <1> DEFINE i == tx[t].target
  <1>1. items' = [items EXCEPT ![i].deleted = TRUE] /\ answers' = answers
    BY DEF CommitDeletion
  <1>2. items \in Seq(Item) /\ \A j \in DOMAIN items : items[j] \in Item
    BY ItemRange DEF Inv, TypeOK
  <1> HIDE DEF i
  <1>3. DOMAIN items' = DOMAIN items
    BY <1>1, <1>2
  <1>4. ASSUME NEW j \in DOMAIN items
        PROVE  /\ items'[j].kind = items[j].kind /\ items'[j].about = items[j].about
               /\ items'[j].author = items[j].author /\ items'[j].key = items[j].key
               /\ items'[j].body = items[j].body /\ (items[j].deleted => items'[j].deleted)
    <2>1. CASE j # i
      BY <1>1, <1>2, <2>1
    <2>2. CASE j = i
      <3>1. items'[j] = [items[j] EXCEPT !.deleted = TRUE] /\ items[j] \in Item
        BY <1>1, <1>2, <2>2
      <3> QED
        BY <3>1 DEF Item
    <2> QED
      BY <2>1, <2>2
  <1>5. Created' = Created
    BY <1>3, <1>4 DEF Created, RequestOf
  <1>6. ASSUME NEW j \in Gone PROVE j \in Gone'
    <2>1. j \in DOMAIN items /\ PostOf(j) \in DOMAIN items
      BY ItemRange DEF Gone, PostOf, Inv, ItemsOK
    <2>2. PostOf(j)' = PostOf(j)
      BY <1>4, <2>1 DEF PostOf
    <2>3. items[j].deleted \/ items[PostOf(j)].deleted
      BY DEF Gone
    <2>4. items'[j].deleted \/ items'[PostOf(j)'].deleted
      BY <1>4, <2>1, <2>2, <2>3
    <2> QED
      BY <1>3, <2>1, <2>4 DEF Gone
  <1> QED
    BY <1>1, <1>5, <1>6

LEMMA AnswerKeepsPromise ==
    ASSUME Inv, NEW t \in Txs, AnswerCreation(t)
    PROVE  /\ \E c \in Created : c.item \notin Gone /\ answers' = answers \cup {c}
           /\ UNCHANGED <<Created, Gone>>
  <1> DEFINE i == tx[t].result
             c == [actor |-> tx[t].actor, key |-> tx[t].key, request |-> RequestIn(t), item |-> i]
  <1>1. /\ tx[t].pc = "committed" /\ ~items[i].deleted /\ ~items[PostOf(i)].deleted
        /\ answers' = answers \cup {c} /\ items' = items
    BY DEF AnswerCreation, content
  <1>2. Found(t) /\ tx[t].key \in Keys /\ scenario \in Scenarios
    BY <1>1 DEF Inv, TypeOK, TxOK, FieldsOK
  <1>3. PICK row \in keys : /\ row.actor = tx[t].actor /\ row.key = tx[t].key
                            /\ row.request = RequestIn(t) /\ row.item = i
    BY <1>2 DEF Found, Replayed
  <1>4. /\ i \in DOMAIN items /\ items[i].author = tx[t].actor /\ items[i].key = tx[t].key
        /\ RequestOf(items[i]) = RequestIn(t)
    BY <1>3 DEF Inv, KeysOK
  <1>5. items[i].key # 0
    BY <1>2, <1>4, Constants
  <1>6. c \in Created
    BY <1>4, <1>5 DEF Created
  <1>7. i \notin Gone
    BY <1>1 DEF Gone
  <1>8. Created' = Created /\ Gone' = Gone
    BY <1>1 DEF Created, Gone, RequestOf, PostOf
  <1> QED
    BY <1>1, <1>6, <1>7, <1>8

(* Repeated and concurrent requests keep what an idempotency key promises: *)
(* each step of a transaction creates one item under an unused key, takes  *)
(* items away, tells a client of what its own request created, or does     *)
(* nothing that the promise can see.                                       *)
THEOREM WritesAreIdempotent == Spec => KeepsIdempotence
  <1>1. Init => Promise!Init
    <2> SUFFICES ASSUME Init PROVE Created = {} /\ Gone = {} /\ answers = {}
      BY DEF Promise!Init, Created, Gone
    <2>1. /\ answers = {} /\ items[1].kind = "post" /\ items[1].key = 0 /\ items[1].deleted = FALSE
          /\ DOMAIN items = {1}
      BY DEF Init
    <2> QED
      BY <2>1 DEF Created, Gone, PostOf
  <1>2. Inv /\ [Next]_vars => [Promise!Next]_(Promise!vars)
    <2> SUFFICES ASSUME Inv, [Next]_vars PROVE [Promise!Next]_(Promise!vars)
      OBVIOUS
    <2>1. CASE UNCHANGED <<items, answers>>
      BY <2>1 DEF Promise!vars, RequestOf, PostOf
    <2>2. ASSUME NEW t \in Txs, CommitCreation(t) PROVE [Promise!Next]_(Promise!vars)
      BY <2>2, CreationKeepsPromise DEF Promise!vars, Promise!Next, Promise!Create, Created, Gone
    <2>3. ASSUME NEW t \in Txs, AnswerCreation(t) PROVE [Promise!Next]_(Promise!vars)
      BY <2>3, AnswerKeepsPromise DEF Promise!Next, Promise!Tell, Created, Gone
    <2>4. ASSUME NEW t \in Txs, CommitDeletion(t) PROVE [Promise!Next]_(Promise!vars)
      BY <2>4, DeletionKeepsPromise DEF Promise!Next, Promise!Delete, Created, Gone
    <2> QED
      BY <2>1, <2>2, <2>3, <2>4, ItemSteps
  <1> QED
    BY <1>1, <1>2, ChecksStand, PTL DEF Spec, KeepsIdempotence, Promise!Spec

-----------------------------------------------------------------------------
(* Waiting.                                                                *)

\* t locks m after l: the account, the session, the key, the post.  A follow
\* ends with the account it is about and the operator goes through the sessions
\* of an account.
Before(t, l, m) ==
    \/ l.row[1] = "account" /\ m.row[1] # "account"
    \/ l.row[1] = "session" /\ m.row[1] \in {"key", "post"}
    \/ l.row[1] = "key" /\ m.row[1] = "post"
    \/ tx[t].op = "follow" /\ m = FollowedLock(t)
    \/ tx[t].op = "disable" /\ l.row[1] = "session" /\ m.row[1] = "session"

\* What a lock says of the transaction that has it.
Owned(t, l) ==
    /\ l.row[1] = "account" =>
           \/ tx[t].op \in Writes \cup Owning /\ l = AccountLock(t)
           \/ tx[t].op = "follow" /\ l = FollowedLock(t)
    /\ l.row[1] = "session" =>
           \/ tx[t].op \in Writes \cup Ending /\ l = SessionLock(t)
           \/ tx[t].op = "disable" /\ ~l.shared
    /\ l.row[1] \in {"key", "post"} => tx[t].op \notin {"follow", "disable"}

Sorted(t) ==
    /\ \A l \in tx[t].held :
           Owned(t, l) /\ \A i \in DOMAIN tx[t].plan : Before(t, l, tx[t].plan[i])
    /\ \A i, j \in DOMAIN tx[t].plan : i < j => Before(t, tx[t].plan[i], tx[t].plan[j])

\* The operator waits for sessions under the lock of their account: they are
\* the account's until they are gone.
Sweeps(t) ==
    tx[t].pc = "open" /\ tx[t].op = "disable" =>
        \A k \in Tokens :
            /\ Left(t, ForUpdate(<<"session", k>>)) =>
                   /\ AccountLock(t) \in tx[t].held
                   /\ k <= issued /\ sessions[k] \in {tx[t].actor, 0}
            /\ ForUpdate(<<"session", k>>) \in tx[t].held =>
                   AccountLock(t) \in tx[t].held /\ sessions[k] = tx[t].actor

\* A follow is about an account that exists.
Aims(t) == tx[t].pc = "open" /\ tx[t].op = "follow" => status[tx[t].target] # "absent"

Waiting(t) == Sorted(t) /\ Sweeps(t) /\ Aims(t)

WInv == Inv /\ \A t \in Txs : Waiting(t)

\* The transactions of S all wait for each other.
WaitCycle(S) == S # {} /\ \A t \in S : \E u \in S : Conflicts(t, u)

-----------------------------------------------------------------------------
(* Who can be part of a cycle.                                             *)

LEMMA Kinds ==
    ASSUME NEW l \in Lock
    PROVE  /\ l.row[1] \in {"account", "session", "key", "post"}
           /\ l.row[1] = "session" => \E k \in Tokens : l.row = <<"session", k>>
           /\ l.shared \in BOOLEAN /\ l = [row |-> l.row, shared |-> l.shared]
  BY DEF Lock, Row

LEMMA ExpectedOwned ==
    ASSUME NEW t, NEW l, Expected(t, l)
    PROVE  Owned(t, l)
  BY RowKinds DEF Expected, Owned, Writes, Owning, Ending, Touching, Creations, Marks, ForUpdate

\* A transaction that waits, for a lock that another one has.
LEMMA Waits ==
    ASSUME WInv, NEW t \in Txs, NEW u \in Txs, Conflicts(t, u)
    PROVE  \E l \in Lock, m \in tx[u].held :
              /\ tx[t].plan # <<>> /\ 1 \in DOMAIN tx[t].plan /\ tx[t].plan[1] = l
              /\ tx[t].pc = "open" /\ Expected(t, l) /\ Owned(t, l)
              /\ \A k \in tx[t].held : Before(t, k, l)
              /\ t # u /\ m \in Lock /\ m.row = l.row /\ ~(m.shared /\ l.shared)
              /\ tx[u].pc = "open" /\ Owned(u, m)
  <1> DEFINE l == Head(tx[t].plan)
  <1>1. t # u /\ tx[t].plan # <<>> /\ \E m \in tx[u].held : m.row = l.row /\ ~(m.shared /\ l.shared)
    BY DEF Conflicts
  <1>2. PICK m \in tx[u].held : m.row = l.row /\ ~(m.shared /\ l.shared)
    BY <1>1
  <1>3. l \in Lock /\ tx[t].pc = "open" /\ Expected(t, l) /\ l = tx[t].plan[1] /\ 1 \in DOMAIN tx[t].plan
    <2>1. tx[t].plan \in Seq(Lock)
      BY <1>1, NextLock DEF WInv
    <2>2. 1 \in DOMAIN tx[t].plan
      BY <1>1, <2>1
    <2> QED
      BY <1>1, <2>2, NextLock DEF WInv
  <1>4. m \in Lock /\ tx[u].pc = "open" /\ Owned(u, m)
    <2>1. tx[u].held \in SUBSET Lock
      BY DEF WInv, Inv, TypeOK, Transaction
    <2>2. tx[u].pc = "open"
      BY <1>2 DEF WInv, Inv, TxOK, FieldsOK
    <2> QED
      BY <1>2, <2>1, <2>2 DEF WInv, Waiting, Sorted
  <1>5. \A k \in tx[t].held : Before(t, k, l)
    BY <1>3 DEF WInv, Waiting, Sorted
  <1>6. Owned(t, l)
    BY <1>3, ExpectedOwned
  <1> HIDE DEF l
  <1> QED
    BY <1>1, <1>2, <1>3, <1>4, <1>5, <1>6

Wanted(t) == tx[t].plan[1]

\* Each of a cycle waits for one that waits itself.
LEMMA HolderWaits ==
    ASSUME WInv, NEW S \in SUBSET Txs, WaitCycle(S), NEW t \in S
    PROVE  \E u \in S : \E m \in tx[u].held :
              /\ t # u /\ m \in Lock /\ m.row = Wanted(t).row /\ ~(m.shared /\ Wanted(t).shared)
              /\ Owned(u, m) /\ Before(u, m, Wanted(u))
              /\ tx[t].pc = "open" /\ Wanted(t) \in Lock /\ 1 \in DOMAIN tx[t].plan
              /\ Expected(t, Wanted(t)) /\ Owned(t, Wanted(t))
              /\ tx[u].pc = "open" /\ Wanted(u) \in Lock /\ 1 \in DOMAIN tx[u].plan
  <1>1. PICK u \in S : Conflicts(t, u)
    BY DEF WaitCycle
  <1>2. PICK v \in S : Conflicts(u, v)
    BY DEF WaitCycle
  <1>3. PICK m \in tx[u].held :
            /\ t # u /\ m \in Lock /\ m.row = Wanted(t).row /\ ~(m.shared /\ Wanted(t).shared)
            /\ Owned(u, m)
            /\ tx[t].pc = "open" /\ Wanted(t) \in Lock /\ 1 \in DOMAIN tx[t].plan
            /\ Expected(t, Wanted(t)) /\ Owned(t, Wanted(t))
    BY <1>1, Waits DEF Wanted
  <1>4. /\ tx[u].pc = "open" /\ Wanted(u) \in Lock /\ 1 \in DOMAIN tx[u].plan
        /\ \A k \in tx[u].held : Before(u, k, Wanted(u))
    BY <1>2, Waits DEF Wanted
  <1> QED
    BY <1>3, <1>4

\* Nobody waits for a key or a post: those who have one want no account and no
\* session any more.
LEMMA UpperWaits ==
    ASSUME WInv, NEW S \in SUBSET Txs, WaitCycle(S), NEW t \in S
    PROVE  Wanted(t).row[1] \in {"account", "session"}
  <1>1. ASSUME NEW v \in S PROVE Wanted(v).row[1] # "post"
    BY HolderWaits DEF Before, Owned
  <1>2. ASSUME NEW v \in S PROVE Wanted(v).row[1] # "key"
    BY <1>1, HolderWaits DEF Before, Owned
  <1>3. Wanted(t) \in Lock
    BY HolderWaits
  <1> QED
    BY <1>1, <1>2, <1>3, Kinds

LEMMA WaiterFacts ==
    ASSUME WInv, NEW t \in Txs, tx[t].pc = "open"
    PROVE  /\ tx[t].op \notin {"logout", "remove"} => tx[t].actor \in Humans
           /\ tx[t].op = "follow" => tx[t].target \in Humans \ {tx[t].actor}
           /\ 0 \notin Humans
           /\ ActorOK(t) /\ OwnerOK(t) /\ Sweeps(t) /\ Aims(t)
           /\ AccountLock(t).shared <=> tx[t].op = "follow"
           /\ SessionLock(t).shared <=> tx[t].op \in Writes
  BY Constants DEF WInv, Inv, TypeOK, TxOK, FieldsOK, Waiting, AccountLock, SessionLock

\* A follow that waits for the account it is about was allowed its session.
LEMMA FollowHolds ==
    ASSUME WInv, NEW t \in Txs, tx[t].pc = "open", tx[t].op = "follow", 1 \in DOMAIN tx[t].plan,
           Wanted(t) = FollowedLock(t)
    PROVE  AccountLock(t) \in tx[t].held /\ sessions[tx[t].token] = tx[t].actor
  <1>1. tx[t].target # tx[t].actor /\ ActorOK(t)
    BY WaiterFacts
  <1>2. FollowedLock(t).row = <<"account", tx[t].target>>
    BY DEF FollowedLock, ForShare
  <1>3. FollowedLock(t) # AccountLock(t) /\ FollowedLock(t) # SessionLock(t)
    BY <1>1, <1>2, RowKinds
  <1>4. tx[t].op \in Writes
    BY DEF Writes
  <1> QED
    BY <1>1, <1>3, <1>4 DEF ActorOK, Wanted

\* The operator waits for no session in a cycle: whoever has it has the account
\* too, which the operator has locked.
LEMMA NoSweepWaits ==
    ASSUME WInv, NEW S \in SUBSET Txs, WaitCycle(S), NEW t \in S,
           Wanted(t).row[1] = "session", tx[t].op = "disable"
    PROVE  FALSE
  <1>1. PICK u, m :
            /\ u \in S /\ m \in tx[u].held
            /\ t # u /\ m \in Lock /\ m.row = Wanted(t).row
            /\ Owned(u, m) /\ Before(u, m, Wanted(u))
            /\ tx[t].pc = "open" /\ Wanted(t) \in Lock /\ 1 \in DOMAIN tx[t].plan
            /\ Expected(t, Wanted(t))
            /\ tx[u].pc = "open" /\ Wanted(u) \in Lock /\ 1 \in DOMAIN tx[u].plan
    BY HolderWaits
  <1>2. t \in Txs /\ u \in Txs
    BY <1>1
  <1>3. PICK k \in Tokens : Wanted(t) = ForUpdate(<<"session", k>>)
    BY <1>1, RowKinds DEF Expected, Writes, Owning, Ending, Touching, Creations, Marks
  <1>4. AccountLock(t) \in tx[t].held /\ sessions[k] \in {tx[t].actor, 0}
    <2>1. Left(t, ForUpdate(<<"session", k>>))
      BY <1>1, <1>3 DEF Left, Wanted
    <2> QED
      BY <1>1, <1>2, <2>1, WaiterFacts DEF Sweeps
  <1>5. tx[t].actor \in Humans /\ 0 \notin Humans /\ ~AccountLock(t).shared
    BY <1>1, <1>2, WaiterFacts
  <1>6. m.row = <<"session", k>> /\ m.row[1] = "session"
    BY <1>1, <1>3 DEF ForUpdate
  <1>7. ASSUME AccountLock(u) \in tx[u].held, sessions[k] = tx[u].actor, tx[u].actor \in Humans
        PROVE  FALSE
    <2>1. tx[u].actor = tx[t].actor
      BY <1>4, <1>5, <1>7
    <2>2. AccountLock(t).row = AccountLock(u).row
      BY <2>1, RowKinds
    <2> QED
      BY <1>1, <1>2, <1>4, <1>5, <1>7, <2>2, HeldAlone DEF WInv
  <1>8. CASE tx[u].op = "disable"
    <2>1. ~m.shared
      BY <1>1, <1>6, <1>8 DEF Owned, Writes, Ending, Creations, Marks
    <2>2. m = ForUpdate(<<"session", k>>)
      BY <1>1, <1>6, <2>1, Kinds DEF ForUpdate
    <2>3. AccountLock(u) \in tx[u].held /\ sessions[k] = tx[u].actor
      BY <1>1, <1>2, <1>8, <2>2, WaiterFacts DEF Sweeps
    <2> QED
      BY <1>1, <1>2, <1>7, <1>8, <2>3, WaiterFacts
  <1>9. CASE tx[u].op # "disable"
    <2>1. tx[u].op = "follow" /\ Wanted(u) = FollowedLock(u)
      <3>1. Wanted(u).row[1] \notin {"key", "post"}
        BY <1>1, UpperWaits
      <3> QED
        BY <1>1, <1>6, <1>9, <3>1 DEF Before
    <2>2. m = SessionLock(u)
      BY <1>1, <1>6, <1>9 DEF Owned
    <2>3. tx[u].token = k
      BY <1>6, <2>2, RowKinds
    <2>4. AccountLock(u) \in tx[u].held /\ sessions[k] = tx[u].actor
      BY <1>1, <1>2, <2>1, <2>3, FollowHolds
    <2> QED
      BY <1>1, <1>2, <1>7, <2>1, <2>4, WaiterFacts
  <1> QED
    BY <1>8, <1>9

\* Whoever waits for a session wants to end it, and waits for a follow that was
\* made with it and waits for the account it is about.
LEMMA SessionWaits ==
    ASSUME WInv, NEW S \in SUBSET Txs, WaitCycle(S), NEW t \in S, Wanted(t).row[1] = "session"
    PROVE  /\ tx[t].op \in Ending
           /\ \E u \in S : /\ tx[u].op = "follow" /\ Wanted(u) = FollowedLock(u)
                           /\ tx[u].token = tx[t].token
  <1>1. PICK u, m :
            /\ u \in S /\ m \in tx[u].held
            /\ t # u /\ m \in Lock /\ m.row = Wanted(t).row /\ ~(m.shared /\ Wanted(t).shared)
            /\ Owned(u, m) /\ Before(u, m, Wanted(u))
            /\ tx[t].pc = "open" /\ Owned(t, Wanted(t)) /\ tx[u].pc = "open"
    BY HolderWaits
  <1>2. m.row[1] = "session" /\ Wanted(u).row[1] \in {"account", "session"}
    BY <1>1, UpperWaits
  <1>3. tx[u].op # "disable" \/ Wanted(u).row[1] # "session"
    BY <1>1, NoSweepWaits
  <1>4. tx[u].op = "follow" /\ Wanted(u) = FollowedLock(u)
    BY <1>1, <1>2, <1>3 DEF Before
  <1>5. m = SessionLock(u) /\ m.shared
    BY <1>1, <1>2, <1>4, WaiterFacts DEF Owned, Writes
  <1>6. tx[t].op # "disable"
    BY NoSweepWaits
  <1>7. tx[t].op \in Writes \cup Ending /\ Wanted(t) = SessionLock(t)
    BY <1>1, <1>6 DEF Owned
  <1>8. tx[t].op \notin Writes
    BY <1>1, <1>5, <1>7, WaiterFacts
  <1>9. tx[u].token = tx[t].token
    BY <1>1, <1>5, <1>7, RowKinds
  <1> QED
    BY <1>1, <1>4, <1>7, <1>8, <1>9

\* In a cycle somebody follows the account that somebody logs in to, replacing
\* the session of a follow that waits as well.
LEMMA CycleShape ==
    ASSUME WInv, NEW S \in SUBSET Txs, WaitCycle(S)
    PROVE  \E f, v, g \in S :
              /\ tx[f].op = "follow" /\ tx[v].op = "login" /\ tx[g].op = "follow"
              /\ tx[v].actor = tx[f].target /\ tx[v].token = tx[g].token
  <1>1. PICK f \in S : tx[f].op = "follow" /\ Wanted(f) = FollowedLock(f)
    <2>1. PICK t \in S : TRUE
      BY DEF WaitCycle
    <2>2. ASSUME NEW v \in S, Wanted(v).row[1] = "session"
          PROVE  \E u \in S : tx[u].op = "follow" /\ Wanted(u) = FollowedLock(u)
      BY <2>2, SessionWaits
    <2>3. CASE Wanted(t).row[1] = "session"
      BY <2>2, <2>3
    <2>4. CASE Wanted(t).row[1] = "account"
      <3>1. PICK u, m :
               u \in S /\ m \in tx[u].held /\ m.row = Wanted(t).row /\ Before(u, m, Wanted(u))
        BY HolderWaits
      <3>2. \/ tx[u].op = "follow" /\ Wanted(u) = FollowedLock(u)
            \/ Wanted(u).row[1] # "account"
        BY <2>4, <3>1 DEF Before
      <3>3. Wanted(u).row[1] \in {"account", "session"}
        BY <3>1, UpperWaits
      <3> QED
        BY <3>1, <2>2, <3>2, <3>3
    <2> QED
      BY <2>3, <2>4, UpperWaits
  <1>2. PICK v, m :
            /\ v \in S /\ m \in tx[v].held
            /\ f # v /\ m \in Lock /\ m.row = Wanted(f).row /\ ~(m.shared /\ Wanted(f).shared)
            /\ Owned(v, m) /\ Before(v, m, Wanted(v)) /\ tx[v].pc = "open" /\ tx[f].pc = "open"
            /\ \A i \in DOMAIN tx[v].plan : Before(v, m, tx[v].plan[i])
    <2>1. PICK v, m :
            /\ v \in S /\ m \in tx[v].held
            /\ f # v /\ m \in Lock /\ m.row = Wanted(f).row /\ ~(m.shared /\ Wanted(f).shared)
            /\ Owned(v, m) /\ Before(v, m, Wanted(v)) /\ tx[v].pc = "open" /\ tx[f].pc = "open"
      BY HolderWaits
    <2>2. \A i \in DOMAIN tx[v].plan : Before(v, m, tx[v].plan[i])
      BY <2>1 DEF WInv, Waiting, Sorted
    <2> QED
      BY <2>1, <2>2
  <1>3. /\ FollowedLock(f).row = <<"account", tx[f].target>> /\ FollowedLock(f).shared
        /\ FollowedLock(v).shared
    BY DEF FollowedLock, ForShare
  <1>4. m.row = <<"account", tx[f].target>> /\ m.row[1] = "account" /\ ~m.shared
    BY <1>1, <1>2, <1>3
  <1>5. /\ tx[v].op \in Writes \cup Owning /\ m = AccountLock(v) /\ tx[v].op # "follow"
        /\ tx[v].actor = tx[f].target
    <2>1. tx[v].op \in Writes \cup Owning /\ m = AccountLock(v)
      BY <1>2, <1>3, <1>4 DEF Owned
    <2>2. tx[v].op # "follow"
      BY <1>2, <1>4, <2>1, WaiterFacts
    <2> QED
      BY <1>4, <2>1, <2>2, RowKinds
  <1>6. Wanted(v).row[1] = "session"
    <2>1. Wanted(v).row[1] \in {"account", "session"}
      BY <1>2, UpperWaits
    <2> QED
      BY <1>2, <1>4, <1>5, <2>1 DEF Before
  <1>7. tx[v].op \in Ending /\ \E g \in S : tx[g].op = "follow" /\ tx[g].token = tx[v].token
    BY <1>2, <1>6, SessionWaits
  <1>8. tx[v].op \in {"register", "login"}
    BY <1>5, <1>7 DEF Writes, Owning, Ending, Creations, Marks
  <1>9. tx[v].op # "register"
    <2> SUFFICES ASSUME tx[v].op = "register" PROVE FALSE
      OBVIOUS
    <2>1. ~Left(v, AccountLock(v))
      BY <1>2, <1>4, <1>5 DEF Left, Before
    <2>2. status[tx[v].actor] = "absent"
      BY <1>2, <2>1, WaiterFacts DEF OwnerOK, Owning
    <2>3. status[tx[f].target] # "absent"
      BY <1>1, <1>2, WaiterFacts DEF Aims
    <2> QED
      BY <1>5, <2>2, <2>3
  <1> QED
    BY <1>2, <1>1, <1>5, <1>7, <1>8, <1>9

-----------------------------------------------------------------------------
(* Steps keep what is said of waiting.                                     *)

LEMMA OverWaits ==
    ASSUME NEW t, tx'[t].pc # "open", tx'[t].plan = <<>>, tx'[t].held = {}
    PROVE  Waiting(t)'
  BY DEF Waiting, Sorted, Sweeps, Aims

\* Sessions of the operator's account are not given to others, and go only
\* through who has them.
LEMMA WaitingKeeps ==
    ASSUME Inv, NEW t \in Txs, Waiting(t), tx'[t] = tx[t], scenario' = scenario,
           issued' \in Nat, issued <= issued',
           \A h \in Humans : status[h] # "absent" => status'[h] # "absent",
           \A k \in Tokens : k <= issued => sessions'[k] \in {sessions[k], 0},
           \A k \in Tokens : /\ tx[t].op = "disable" /\ AccountLock(t) \in tx[t].held
                             /\ ForUpdate(<<"session", k>>) \in tx[t].held
                             /\ sessions[k] = tx[t].actor
                             => sessions'[k] = sessions[k]
    PROVE  Waiting(t)'
  <1>1. /\ AccountLock(t)' = AccountLock(t) /\ SessionLock(t)' = SessionLock(t)
        /\ FollowedLock(t)' = FollowedLock(t) /\ Tokens' = Tokens
    BY DEF AccountLock, SessionLock, FollowedLock, ForShare, Tokens, MaxTokens
  <1>2. issued \in Nat /\ \A k \in Tokens : k \in Nat
    BY Constants DEF Inv, TypeOK, Tokens
  <1>3. Sorted(t)'
    BY <1>1 DEF Waiting, Sorted, Owned, Before
  <1>4. Sweeps(t)'
    <2> SUFFICES ASSUME tx[t].pc = "open", tx[t].op = "disable", NEW k \in Tokens
                 PROVE  /\ Left(t, ForUpdate(<<"session", k>>)) =>
                              /\ AccountLock(t) \in tx[t].held
                              /\ k <= issued' /\ sessions'[k] \in {tx[t].actor, 0}
                        /\ ForUpdate(<<"session", k>>) \in tx[t].held =>
                              AccountLock(t) \in tx[t].held /\ sessions'[k] = tx[t].actor
      BY <1>1 DEF Sweeps, Left, ForUpdate
    <2>1. /\ Left(t, ForUpdate(<<"session", k>>)) =>
                /\ AccountLock(t) \in tx[t].held
                /\ k <= issued /\ sessions[k] \in {tx[t].actor, 0}
          /\ ForUpdate(<<"session", k>>) \in tx[t].held =>
                AccountLock(t) \in tx[t].held /\ sessions[k] = tx[t].actor
      BY DEF Waiting, Sweeps
    <2>2. k <= issued => k <= issued'
      BY <1>2
    <2> QED
      BY <2>1, <2>2
  <1>5. Aims(t)'
    <2>1. tx[t].pc = "open" /\ tx[t].op = "follow" => tx[t].target \in Humans
      BY DEF Inv, TxOK, FieldsOK
    <2> QED
      BY <2>1 DEF Waiting, Aims
  <1> QED
    BY <1>3, <1>4, <1>5 DEF Waiting

\* A step of t that leaves accounts and sessions alone.
LEMMA OwnWaits ==
    ASSUME WInv, Inv', NEW t \in Txs, UNCHANGED <<scenario, status, sessions, issued>>,
           \A u \in Txs \ {t} : tx'[u] = tx[u], Waiting(t)'
    PROVE  WInv'
  <1>1. Inv /\ issued \in Nat /\ issued <= issued
    BY DEF WInv, Inv, TypeOK
  <1>2. ASSUME NEW u \in Txs \ {t} PROVE Waiting(u)'
    BY <1>1, <1>2, WaitingKeeps DEF WInv
  <1> QED
    BY <1>2 DEF WInv

\* A transaction that has not taken any of its locks.
LEMMA FreshWaits ==
    ASSUME NEW t, tx'[t].held = {},
           (\A i, j \in DOMAIN tx[t].plan : i < j => Before(t, tx[t].plan[i], tx[t].plan[j]))',
           tx'[t].op = "disable" =>
               \A i \in DOMAIN tx'[t].plan : tx'[t].plan[i].row[1] # "session",
           tx'[t].op = "follow" => status'[tx'[t].target] # "absent"
    PROVE  Waiting(t)'
  BY DEF Waiting, Sorted, Sweeps, Aims, Left, ForUpdate

\* Plans that start with an account and a session.
LEMMA PlanShapes ==
    ASSUME NEW A, NEW S, NEW K, NEW P
    PROVE  LET q == (<<A>> \o <<S>>) \o <<K>>
               r == (<<A>> \o <<S>>) \o <<K, P>>
           IN  /\ DOMAIN q = 1 .. 3 /\ q[1] = A /\ q[2] = S /\ q[3] = K
               /\ DOMAIN r = 1 .. 4 /\ r[1] = A /\ r[2] = S /\ r[3] = K /\ r[4] = P
  <1> DEFINE U == {A, S, K, P}
  <1>1. A \in U /\ S \in U /\ K \in U /\ P \in U
    OBVIOUS
  <1> HIDE DEF U
  <1> QED
    BY <1>1

LEMMA BeginWriteWaits ==
    ASSUME WInv, Inv', NEW t \in Txs, NEW k \in Tokens, NEW T, NEW plan,
           BeginWrite(t, k, T, plan), T.op \notin {"disable", "follow"},
           T \in Transaction, T.held = {},
           \/ \E K, P : plan = <<K, P>> /\ K.row[1] = "key" /\ P.row[1] = "post"
           \/ \E L : plan = <<L>> /\ L.row[1] \in {"key", "post"}
    PROVE  WInv'
  <1> DEFINE A == ForUpdate(<<"account", sessions[k]>>)
             S == ForShare(<<"session", k>>)
             whole == (<<A>> \o <<S>>) \o plan
             R == [[T EXCEPT !.actor = sessions[k], !.token = k, !.plan = whole] EXCEPT !.pc = "open"]
  <1>1. /\ tx' = [tx EXCEPT ![t] = R]
        /\ UNCHANGED <<scenario, status, sessions, issued>>
    BY DEF BeginWrite, Begin, ActorPlan, SessionShare, accounts
  <1>2. tx'[t] = R /\ \A u \in Txs \ {t} : tx'[u] = tx[u]
    BY <1>1 DEF WInv, Inv, TypeOK
  <1>3. R.plan = whole /\ R.held = {} /\ R.op = T.op
    BY DEF Transaction
  <1>4. A.row[1] = "account" /\ S.row[1] = "session"
    BY DEF ForUpdate, ForShare
  <1> HIDE DEF A, S, R
  <1>5. \A i, j \in DOMAIN whole : i < j =>
           \/ whole[i].row[1] = "account" /\ whole[j].row[1] # "account"
           \/ whole[i].row[1] = "session" /\ whole[j].row[1] \in {"key", "post"}
           \/ whole[i].row[1] = "key" /\ whole[j].row[1] = "post"
    <2>1. CASE \E K, P : plan = <<K, P>> /\ K.row[1] = "key" /\ P.row[1] = "post"
      <3>1. PICK K, P : plan = <<K, P>> /\ K.row[1] = "key" /\ P.row[1] = "post"
        BY <2>1
      <3>2. DOMAIN whole = 1 .. 4 /\ whole[1] = A /\ whole[2] = S /\ whole[3] = K /\ whole[4] = P
        BY <3>1, PlanShapes
      <3> HIDE DEF whole
      <3> QED
        BY <1>4, <3>1, <3>2
    <2>2. CASE \E L : plan = <<L>> /\ L.row[1] \in {"key", "post"}
      <3>1. PICK L : plan = <<L>> /\ L.row[1] \in {"key", "post"}
        BY <2>2
      <3>2. DOMAIN whole = 1 .. 3 /\ whole[1] = A /\ whole[2] = S /\ whole[3] = L
        BY <3>1, PlanShapes
      <3> HIDE DEF whole
      <3> QED
        BY <1>4, <3>1, <3>2
    <2> QED
      BY <2>1, <2>2
  <1> HIDE DEF whole
  <1>6. Waiting(t)'
    <2>1. \A i, j \in DOMAIN tx'[t].plan : i < j => Before(t, tx[t].plan[i], tx[t].plan[j])'
      BY <1>2, <1>3, <1>5 DEF Before
    <2> QED
      BY <1>2, <1>3, <2>1, FreshWaits
  <1> QED
    BY <1>1, <1>2, <1>6, OwnWaits

LEMMA PersonWritesWaits ==
    ASSUME WInv, Inv', NEW t \in Txs, NEW k \in Tokens, PersonWrites(t, k)
    PROVE  WInv'
  <1> DEFINE Rest(plan) ==
                \/ \E K, P : plan = <<K, P>> /\ K.row[1] = "key" /\ P.row[1] = "post"
                \/ \E L : plan = <<L>> /\ L.row[1] \in {"key", "post"}
  <1>1. /\ \A key : KeyLock(k, key).row[1] = "key"
        /\ \A p : PostLock(p).row[1] = "post"
    BY DEF KeyLock, PostLock, ForUpdate
  <1>2. /\ \A p : Rest(<<PostLock(p)>>)
        /\ \A key : Rest(<<KeyLock(k, key)>>)
        /\ \A key, p : Rest(<<KeyLock(k, key), PostLock(p)>>)
    BY <1>1
  <1>3. \A p \in Posts : p \in Nat
    BY DEF Posts, WInv, Inv, TypeOK
  <1>4. \A key \in Keys : key \in Nat
    BY Constants DEF WInv, Inv, TypeOK
  <1>5. ASSUME NEW T \in Transaction, NEW plan, BeginWrite(t, k, T, plan), Rest(plan),
               T.held = {}, T.op \notin {"disable", "follow"}
        PROVE  WInv'
    BY <1>5, BeginWriteWaits
  <1> HIDE DEF Rest
  <1>6. ASSUME NEW key \in Keys, NEW body \in Bodies, NEW quoted \in Posts \cup {0},
               CreatePost(t, k, key, body, quoted)
        PROVE  WInv'
    <2> DEFINE op == IF quoted = 0 THEN "post" ELSE "quote"
               T == [Idle EXCEPT !.op = op, !.key = key, !.body = body, !.target = quoted]
               plan == IF quoted = 0 THEN <<KeyLock(k, key)>> ELSE <<KeyLock(k, key), PostLock(quoted)>>
    <2>1. BeginWrite(t, k, T, plan)
      BY <1>6 DEF CreatePost
    <2>2. op \in Operations
      BY <1>6 DEF CreatePost, BeginWrite, Begin, Idle
    <2>3. T \in Transaction /\ T.op = op /\ T.held = {}
      <3> HIDE DEF op
      <3> QED
        BY <1>3, <1>4, <2>2, IdleRecord DEF Transaction
    <2>4. Rest(plan) /\ op \notin {"disable", "follow"}
      BY <1>2
    <2> HIDE DEF T, plan, op
    <2> QED
      BY <1>5, <2>1, <2>3, <2>4
  <1>7. ASSUME NEW key \in Keys, NEW body \in Bodies, NEW p \in Posts, CreateReply(t, k, key, body, p)
        PROVE  WInv'
    <2> DEFINE T == [Idle EXCEPT !.op = "reply", !.key = key, !.body = body, !.target = p]
    <2>1. BeginWrite(t, k, T, <<KeyLock(k, key), PostLock(p)>>) /\ "reply" \in Operations
      BY <1>7 DEF CreateReply, BeginWrite, Begin, Idle
    <2>2. T \in Transaction /\ T.op = "reply" /\ T.held = {}
      BY <1>3, <1>4, <2>1, IdleRecord DEF Transaction
    <2> HIDE DEF T
    <2> QED
      BY <1>2, <1>5, <2>1, <2>2
  <1>8. ASSUME NEW kind \in Marks, NEW p \in Posts, NEW desired \in BOOLEAN,
               SetMark(t, k, kind, p, desired)
        PROVE  WInv'
    <2> DEFINE T == [Idle EXCEPT !.op = kind, !.target = p, !.desired = desired]
    <2>1. BeginWrite(t, k, T, <<PostLock(p)>>) /\ kind \in Operations
      BY <1>8 DEF SetMark, BeginWrite, Begin, Idle
    <2>2. T \in Transaction /\ T.op = kind /\ T.held = {}
      BY <1>3, <2>1, IdleRecord DEF Transaction
    <2> HIDE DEF T
    <2> QED
      BY <1>2, <1>5, <2>1, <2>2 DEF Marks
  <1>9. ASSUME NEW p \in Posts, NEW desired \in BOOLEAN,
               \/ SetReaction(t, k, p, desired)
               \/ SetRepost(t, k, p, desired)
               \/ SetBookmark(t, k, p, desired)
        PROVE  WInv'
    BY <1>8, <1>9 DEF SetReaction, SetRepost, SetBookmark, Marks
  <1>10. ASSUME NEW i \in DOMAIN items, DeletePost(t, k, i) \/ DeleteReply(t, k, i)
         PROVE  WInv'
    <2> DEFINE T == [Idle EXCEPT !.op = "delete", !.target = i]
    <2>1. BeginWrite(t, k, T, <<PostLock(PostOf(i))>>) /\ "delete" \in Operations
      BY <1>10 DEF DeletePost, DeleteReply, BeginWrite, Begin, Idle, PostOf
    <2>2. i \in Nat
      BY DEF WInv, Inv, TypeOK
    <2>3. T \in Transaction /\ T.op = "delete" /\ T.held = {}
      BY <2>1, <2>2, IdleRecord DEF Transaction
    <2> HIDE DEF T
    <2> QED
      BY <1>2, <1>5, <2>1, <2>3
  <1>11. ASSUME NEW h \in Humans, NEW desired \in BOOLEAN, SetFollow(t, k, h, desired)
         PROVE  WInv'
    <2> DEFINE A == ForShare(<<"account", sessions[k]>>)
               S == ForShare(<<"session", k>>)
               F == ForShare(<<"account", h>>)
               plan == <<A>> \o <<S>> \o <<F>>
               R == [[Idle EXCEPT !.op = "follow", !.actor = sessions[k], !.token = k, !.target = h,
                                  !.desired = desired, !.plan = plan] EXCEPT !.pc = "open"]
    <2>1. /\ tx' = [tx EXCEPT ![t] = R] /\ status[h] # "absent"
          /\ UNCHANGED <<scenario, status, sessions, issued>>
      BY <1>11 DEF SetFollow, Begin, SessionShare, Idle, accounts
    <2>2. tx'[t] = R /\ \A u \in Txs \ {t} : tx'[u] = tx[u]
      BY <2>1 DEF WInv, Inv, TypeOK
    <2>3. R.plan = plan /\ R.held = {} /\ R.op = "follow" /\ R.target = h
      BY IdleRecord DEF Transaction
    <2> HIDE DEF R
    <2>4. A.row[1] = "account" /\ S.row[1] = "session"
      BY DEF ForShare
    <2>5. FollowedLock(t)' = F
      BY <2>2, <2>3 DEF FollowedLock, ForShare
    <2> HIDE DEF A, S, F
    <2>6. DOMAIN plan = 1 .. 3 /\ plan[1] = A /\ plan[2] = S /\ plan[3] = F
      BY PlanShapes
    <2> HIDE DEF plan
    <2>7. Waiting(t)'
      <3>1. \A i, j \in DOMAIN tx'[t].plan : i < j => Before(t, tx[t].plan[i], tx[t].plan[j])'
        BY <2>2, <2>3, <2>4, <2>5, <2>6 DEF Before
      <3> QED
        BY <2>1, <2>2, <2>3, <3>1, FreshWaits
    <2> QED
      BY <2>1, <2>2, <2>7, OwnWaits
  <1> QED
    BY <1>6, <1>7, <1>9, <1>10, <1>11 DEF PersonWrites

LEMMA SessionBeginsWaits ==
    ASSUME WInv, Inv', NEW t \in Txs, NEW h \in Humans, NEW k \in 0..issued,
           RegisterHuman(t, h, k) \/ Login(t, h, k)
    PROVE  WInv'
  <1> DEFINE A == ForUpdate(<<"account", h>>)
             S == ForUpdate(<<"session", k>>)
             plan == <<A>> \o Previous(k)
             R(op) == [[Idle EXCEPT !.op = op, !.actor = h, !.token = k, !.plan = plan]
                          EXCEPT !.pc = "open"]
  <1>1. /\ tx' = [tx EXCEPT ![t] = R("register")] \/ tx' = [tx EXCEPT ![t] = R("login")]
        /\ UNCHANGED <<scenario, status, sessions, issued>>
    BY DEF RegisterHuman, Login, Begin, Idle, accounts
  <1>2. \A op : R(op).plan = plan /\ R(op).held = {} /\ R(op).op = op
    BY IdleRecord DEF Transaction
  <1> HIDE DEF R
  <1>3. /\ tx'[t].plan = plan /\ tx'[t].held = {} /\ tx'[t].op \in {"register", "login"}
        /\ \A u \in Txs \ {t} : tx'[u] = tx[u]
    BY <1>1, <1>2 DEF WInv, Inv, TypeOK
  <1>4. A.row[1] = "account" /\ S.row[1] = "session"
    BY DEF ForUpdate
  <1>5. \A i, j \in DOMAIN plan : i < j => plan[i].row[1] = "account" /\ plan[j].row[1] # "account"
    <2>1. CASE k = 0
      <3>1. plan = <<A>> \o <<>>
        BY <2>1 DEF Previous
      <3> DEFINE U == {A}
      <3>2. A \in U
        OBVIOUS
      <3> HIDE DEF plan, A, U
      <3>3. DOMAIN plan = 1 .. 1
        BY <3>1, <3>2
      <3> QED
        BY <3>3
    <2>2. CASE k # 0
      <3>1. plan = <<A>> \o <<S>>
        BY <2>2 DEF Previous
      <3> DEFINE U == {A, S}
      <3>2. A \in U /\ S \in U
        OBVIOUS
      <3> HIDE DEF plan, A, S, U
      <3>3. DOMAIN plan = 1 .. 2 /\ plan[1] = A /\ plan[2] = S
        BY <3>1, <3>2
      <3> QED
        BY <1>4, <3>3
    <2> QED
      BY <2>1, <2>2
  <1> HIDE DEF plan
  <1>6. Waiting(t)'
    <2>1. (\A i, j \in DOMAIN tx[t].plan : i < j => Before(t, tx[t].plan[i], tx[t].plan[j]))'
      BY <1>3, <1>5 DEF Before
    <2> QED
      BY <1>3, <2>1, FreshWaits
  <1> QED
    BY <1>1, <1>3, <1>6, OwnWaits

LEMMA OperatorBeginsWaits ==
    ASSUME WInv, Inv', NEW t \in Txs,
           \/ \E k \in Tokens : Logout(t, k)
           \/ \E h \in Humans : DisableAccount(t, h)
           \/ \E i \in DOMAIN items : Remove(t, i)
    PROVE  WInv'
  <1>1. ASSUME NEW T, NEW l, T.plan = <<l>>, T.held = {}, T.op # "follow",
               T.op = "disable" => l.row[1] # "session",
               tx' = [tx EXCEPT ![t] = T], UNCHANGED <<scenario, status, sessions, issued>>
        PROVE  WInv'
    <2>1. tx'[t] = T /\ \A u \in Txs \ {t} : tx'[u] = tx[u]
      BY <1>1 DEF WInv, Inv, TypeOK
    <2>2. DOMAIN T.plan = {1} /\ T.plan[1] = l
      BY <1>1
    <2>3. Waiting(t)'
      <3>1. (\A i, j \in DOMAIN tx[t].plan : i < j => Before(t, tx[t].plan[i], tx[t].plan[j]))'
        BY <2>1, <2>2
      <3> QED
        BY <1>1, <2>1, <2>2, <3>1, FreshWaits
    <2> QED
      BY <1>1, <2>1, <2>3, OwnWaits
  <1>2. ASSUME NEW k \in Tokens, Logout(t, k) PROVE WInv'
    <2> DEFINE l == ForUpdate(<<"session", k>>)
               R == [[Idle EXCEPT !.op = "logout", !.token = k, !.plan = <<l>>] EXCEPT !.pc = "open"]
    <2>1. tx' = [tx EXCEPT ![t] = R] /\ UNCHANGED <<scenario, status, sessions, issued>>
      BY <1>2 DEF Logout, Begin, Idle, accounts
    <2>2. R.plan = <<l>> /\ R.held = {} /\ R.op = "logout"
      BY IdleRecord DEF Transaction
    <2> HIDE DEF R, l
    <2> QED
      BY <1>1, <2>1, <2>2
  <1>3. ASSUME NEW h \in Humans, DisableAccount(t, h) PROVE WInv'
    <2> DEFINE l == ForUpdate(<<"account", h>>)
               R == [[Idle EXCEPT !.op = "disable", !.actor = h, !.plan = <<l>>] EXCEPT !.pc = "open"]
    <2>1. tx' = [tx EXCEPT ![t] = R] /\ UNCHANGED <<scenario, status, sessions, issued>>
      BY <1>3 DEF DisableAccount, Begin, Idle, accounts
    <2>2. R.plan = <<l>> /\ R.held = {} /\ R.op = "disable"
      BY IdleRecord DEF Transaction
    <2>3. l.row[1] # "session"
      BY DEF ForUpdate
    <2> HIDE DEF R, l
    <2> QED
      BY <1>1, <2>1, <2>2, <2>3
  <1>4. ASSUME NEW i \in DOMAIN items, Remove(t, i) PROVE WInv'
    <2> DEFINE l == PostLock(PostOf(i))
               R == [[Idle EXCEPT !.op = "remove", !.target = i, !.plan = <<l>>] EXCEPT !.pc = "open"]
    <2>1. tx' = [tx EXCEPT ![t] = R] /\ UNCHANGED <<scenario, status, sessions, issued>>
      BY <1>4 DEF Remove, Begin, Idle, accounts
    <2>2. R.plan = <<l>> /\ R.held = {} /\ R.op = "remove"
      BY IdleRecord DEF Transaction
    <2> HIDE DEF R, l
    <2> QED
      BY <1>1, <2>1, <2>2
  <1> QED
    BY <1>2, <1>3, <1>4

\* The sessions that the operator goes through are those of the account.
LEMMA SweptSessions ==
    ASSUME Inv, NEW t \in Txs, tx[t].op = "disable", tx[t].plan # <<>>,
           Head(tx[t].plan).row[1] = "account", NEW q \in Remaining(t, Head(tx[t].plan))
    PROVE  /\ Head(tx[t].plan) = AccountLock(t)
           /\ \A i \in DOMAIN q : \E k \in Tokens :
                 q[i] = ForUpdate(<<"session", k>>) /\ sessions[k] = tx[t].actor /\ k <= issued
  <1> DEFINE l == Head(tx[t].plan)
             mine == SessionsOf(l.row[2])
             S == {ForUpdate(<<"session", k>>) : k \in mine}
  <1>1. Expected(t, l)
    BY NextLock
  <1>2. l = AccountLock(t)
    BY <1>1, RowKinds DEF Expected, Touching, Creations, Marks
  <1>3. l.row[2] = tx[t].actor /\ tx[t].actor \in Humans
    <2>1. tx[t].actor \in Humans
      BY NextLock DEF Inv, TxOK, FieldsOK
    <2> QED
      BY <1>2, <2>1, RowKinds
  <1>4. q \in UNION {[1..n -> S] : n \in {Cardinality(mine)}}
    BY DEF Remaining
  <1>5. q \in [1..Cardinality(mine) -> S]
    BY <1>4
  <1>6. \A k \in mine : k \in Tokens /\ sessions[k] = tx[t].actor /\ k <= issued
    <2>1. \A k \in mine : k \in Tokens /\ sessions[k] = tx[t].actor
      BY <1>3 DEF SessionsOf
    <2>2. 0 \notin Humans /\ issued \in Nat /\ Tokens \subseteq Nat
      BY Constants DEF Inv, TypeOK, Tokens
    <2>3. \A k \in Tokens : k > issued => sessions[k] = 0
      BY DEF Inv, SessionsOK
    <2> HIDE DEF mine
    <2> QED
      BY <1>3, <2>1, <2>2, <2>3
  <1> HIDE DEF mine, l
  <1> QED
    BY <1>2, <1>5, <1>6 DEF l

LEMMA AcquireWaits ==
    ASSUME WInv, Inv', NEW t \in Txs, Acquire(t)
    PROVE  WInv'
  <1> DEFINE l == Head(tx[t].plan)
             held == IF Exists(l) THEN tx[t].held \cup {l} ELSE tx[t].held
  <1>0. Inv
    BY DEF WInv
  <1>1. PICK q \in Remaining(t, l) : \E r :
            tx' = [tx EXCEPT ![t].plan = q, ![t].held = held, ![t].result = r]
    BY DEF Acquire
  <1>2. /\ tx[t].plan # <<>> /\ UNCHANGED <<scenario, status, sessions, issued>>
    BY DEF Acquire, accounts
  <1>3. /\ tx[t].pc = "open" /\ Expected(t, l) /\ l = tx[t].plan[1] /\ 1 \in DOMAIN tx[t].plan
        /\ tx[t].plan \in Seq(Lock) /\ Tail(tx[t].plan) \in Seq(Lock)
        /\ \A i \in DOMAIN Tail(tx[t].plan) :
              /\ i \in Nat \ {0}
              /\ i + 1 \in DOMAIN tx[t].plan /\ Tail(tx[t].plan)[i] = tx[t].plan[i + 1]
    <2>1. tx[t].plan \in Seq(Lock) /\ Tail(tx[t].plan) \in Seq(Lock)
      BY <1>0, <1>2, NextLock
    <2>2. 1 \in DOMAIN tx[t].plan
      BY <1>2, <2>1
    <2> QED
      BY <1>0, <1>2, <2>1, <2>2, NextLock
  <1>4. Follows(t, l, q)
    BY <1>0, <1>2, RemainingPlan
  <1>5. /\ tx'[t].plan = q /\ tx'[t].held = held /\ tx'[t].op = tx[t].op /\ tx'[t].pc = "open"
        /\ tx'[t].actor = tx[t].actor /\ tx'[t].token = tx[t].token /\ tx'[t].target = tx[t].target
        /\ \A u \in Txs \ {t} : tx'[u] = tx[u]
    <2>1. tx \in [Txs -> Transaction]
      BY <1>0 DEF Inv, TypeOK
    <2> HIDE DEF held
    <2> QED
      BY <1>1, <1>3, <2>1 DEF Transaction
  <1>6. /\ AccountLock(t)' = AccountLock(t) /\ SessionLock(t)' = SessionLock(t)
        /\ FollowedLock(t)' = FollowedLock(t) /\ Tokens' = Tokens
    BY <1>2, <1>5 DEF AccountLock, SessionLock, FollowedLock, ForShare, Tokens, MaxTokens
  <1>7. /\ \A m, n : Before(t, m, n)' <=> Before(t, m, n)
        /\ \A m : Owned(t, m)' <=> Owned(t, m)
    BY <1>5, <1>6 DEF Before, Owned
  <1>8. Sorted(t) /\ Sweeps(t) /\ Aims(t)
    BY DEF WInv, Waiting
  <1>9. held \subseteq tx[t].held \cup {l} /\ tx[t].held \subseteq held
    OBVIOUS
  <1>10. Owned(t, l)
    BY <1>3, ExpectedOwned
  <1>11. Sorted(t)'
    <2>1. \/ q = <<>>
          \/ /\ tx[t].op = "disable" /\ l.row[1] = "account"
             /\ \A i \in DOMAIN q : q[i].row[1] = "session"
          \/ q = Tail(tx[t].plan)
      BY <1>4, RowKinds DEF Follows
    <2> SUFFICES /\ \A m \in held : Owned(t, m) /\ \A i \in DOMAIN q : Before(t, m, q[i])
                 /\ \A i, j \in DOMAIN q : i < j => Before(t, q[i], q[j])
      BY <1>5, <1>7 DEF Sorted
    <2>2. \A m \in held : Owned(t, m)
      BY <1>8, <1>9, <1>10 DEF Sorted
    <2> HIDE DEF held, l
    <2>3. CASE q = <<>>
      BY <2>2, <2>3
    <2>4. CASE /\ tx[t].op = "disable" /\ l.row[1] = "account"
               /\ \A i \in DOMAIN q : q[i].row[1] = "session"
      <3>1. \A m \in held : m.row[1] \in {"account", "session"}
        <4>1. \A m \in tx[t].held : m.row[1] \in {"account", "session", "key", "post"}
          <5>1. tx[t].held \in SUBSET Lock
            BY <1>0 DEF Inv, TypeOK, Transaction
          <5> QED
            BY <5>1, Kinds
        <4> QED
          BY <1>9, <2>2, <2>4, <4>1 DEF Owned
      <3> QED
        BY <2>2, <2>4, <3>1 DEF Before
    <2>5. CASE q = Tail(tx[t].plan)
      <3>1. \A i \in DOMAIN q : Before(t, l, q[i])
        <4> SUFFICES ASSUME NEW i \in DOMAIN q PROVE Before(t, l, q[i])
          OBVIOUS
        <4>1. i \in Nat \ {0} /\ i + 1 \in DOMAIN tx[t].plan /\ q[i] = tx[t].plan[i + 1] /\ 1 < i + 1
          BY <1>3, <2>5
        <4> QED
          BY <1>3, <1>8, <4>1 DEF Sorted
      <3>2. \A m \in tx[t].held : \A i \in DOMAIN q : Before(t, m, q[i])
        BY <1>3, <1>8, <2>5 DEF Sorted
      <3>3. \A i, j \in DOMAIN q : i < j => Before(t, q[i], q[j])
        <4> SUFFICES ASSUME NEW i \in DOMAIN q, NEW j \in DOMAIN q, i < j PROVE Before(t, q[i], q[j])
          OBVIOUS
        <4>1. /\ i + 1 \in DOMAIN tx[t].plan /\ q[i] = tx[t].plan[i + 1]
              /\ j + 1 \in DOMAIN tx[t].plan /\ q[j] = tx[t].plan[j + 1]
              /\ i + 1 < j + 1
          BY <1>3, <2>5
        <4> QED
          BY <1>8, <4>1 DEF Sorted
      <3> QED
        BY <1>9, <2>2, <3>1, <3>2, <3>3
    <2> QED
      BY <2>1, <2>3, <2>4, <2>5
  <1>12. Sweeps(t)'
    <2> SUFFICES ASSUME tx[t].op = "disable", NEW k \in Tokens
                 PROVE  /\ (\E i \in DOMAIN q : q[i] = ForUpdate(<<"session", k>>)) =>
                              /\ AccountLock(t) \in held
                              /\ k <= issued /\ sessions[k] \in {tx[t].actor, 0}
                        /\ ForUpdate(<<"session", k>>) \in held =>
                              AccountLock(t) \in held /\ sessions[k] = tx[t].actor
      BY <1>2, <1>5, <1>6 DEF Sweeps, Left, ForUpdate
    <2> DEFINE s == ForUpdate(<<"session", k>>)
    <2>1. /\ Left(t, s) => /\ AccountLock(t) \in tx[t].held
                           /\ k <= issued /\ sessions[k] \in {tx[t].actor, 0}
          /\ s \in tx[t].held => AccountLock(t) \in tx[t].held /\ sessions[k] = tx[t].actor
      BY <1>3, <1>8 DEF Sweeps
    <2>2. s.row = <<"session", k>> /\ s.row[1] = "session" /\ s.row[2] = k
      BY DEF ForUpdate
    <2>3. s \in held => AccountLock(t) \in held /\ sessions[k] = tx[t].actor
      <3>1. CASE s \in tx[t].held
        BY <1>9, <2>1, <3>1
      <3>2. CASE s = l /\ Exists(l)
        <4>1. Left(t, s)
          BY <1>3, <3>2 DEF Left
        <4>2. sessions[k] # 0
          BY <2>2, <3>2 DEF Exists
        <4> QED
          BY <1>9, <2>1, <4>1, <4>2
      <3>3. s \in held => s \in tx[t].held \/ (s = l /\ Exists(l))
        OBVIOUS
      <3> QED
        BY <3>1, <3>2, <3>3
    <2>4. ASSUME NEW i \in DOMAIN q, q[i] = s
          PROVE  /\ AccountLock(t) \in held
                 /\ k <= issued /\ sessions[k] \in {tx[t].actor, 0}
      <3>1. CASE l.row[1] = "account"
        <4>1. /\ l = AccountLock(t)
              /\ \E n \in Tokens :
                    q[i] = ForUpdate(<<"session", n>>) /\ sessions[n] = tx[t].actor /\ n <= issued
          BY <1>0, <1>2, <3>1, SweptSessions
        <4>2. PICK n \in Tokens :
                 q[i] = ForUpdate(<<"session", n>>) /\ sessions[n] = tx[t].actor /\ n <= issued
          BY <4>1
        <4>3. n = k
          BY <2>2, <2>4, <4>2 DEF ForUpdate
        <4>4. Exists(l)
          BY <3>1 DEF Exists
        <4> QED
          BY <4>1, <4>2, <4>3, <4>4
      <3>2. CASE l.row[1] # "account"
        <4>1. q = Tail(tx[t].plan) \/ q = <<>>
          BY <1>4, <3>2, RowKinds DEF Follows
        <4>2. i + 1 \in DOMAIN tx[t].plan /\ tx[t].plan[i + 1] = s
          BY <1>3, <2>4, <4>1
        <4>3. Left(t, s)
          BY <4>2 DEF Left
        <4> QED
          BY <1>9, <2>1, <4>3
      <3> QED
        BY <3>1, <3>2
    <2> QED
      BY <2>3, <2>4
  <1>13. Aims(t)'
    BY <1>2, <1>3, <1>5, <1>8 DEF Aims
  <1> QED
    BY <1>2, <1>5, <1>11, <1>12, <1>13, OwnWaits DEF Waiting

\* Ends of transactions that leave accounts and sessions alone.
LEMMA EndWaits ==
    ASSUME WInv, Inv', NEW t \in Txs,
           \/ CommitCreation(t) \/ AnswerCreation(t) \/ CommitMark(t) \/ CommitFollow(t)
           \/ CommitDeletion(t) \/ Rollback(t)
    PROVE  WInv'
  <1>1. tx \in [Txs -> Transaction]
    BY DEF WInv, Inv, TypeOK
  <1>2. ASSUME CommitCreation(t) PROVE WInv'
    <2>1. /\ tx[t].plan = <<>> /\ UNCHANGED <<scenario, status, sessions, issued>>
          /\ \E id : tx' = [tx EXCEPT ![t].pc = "committed", ![t].held = {}, ![t].result = id]
      BY <1>2 DEF CommitCreation, Ready, accounts
    <2>2. /\ tx'[t].pc = "committed" /\ tx'[t].plan = <<>> /\ tx'[t].held = {}
          /\ \A u \in Txs \ {t} : tx'[u] = tx[u]
      BY <1>1, <2>1 DEF Transaction
    <2> QED
      BY <2>1, <2>2, OverWaits, OwnWaits
  <1>3. ASSUME Done(t), UNCHANGED <<scenario, status, sessions, issued>> PROVE WInv'
    <2>1. tx'[t] = Idle /\ \A u \in Txs \ {t} : tx'[u] = tx[u]
      BY <1>1, <1>3 DEF Done
    <2> QED
      BY <1>3, <2>1, IdleRecord, OverWaits, OwnWaits
  <1> QED
    BY <1>2, <1>3 DEF AnswerCreation, CommitMark, CommitFollow, CommitDeletion, Rollback, accounts

\* A step of t that ends it and changes accounts or sessions.
LEMMA DoneWaits ==
    ASSUME WInv, Inv', NEW t \in Txs, Done(t), scenario' = scenario,
           issued' \in Nat, issued <= issued',
           \A h \in Humans : status[h] # "absent" => status'[h] # "absent",
           \A k \in Tokens : k <= issued => sessions'[k] \in {sessions[k], 0},
           \A u \in Txs \ {t} : \A k \in Tokens :
               /\ tx[u].op = "disable" /\ tx[u].pc = "open" /\ AccountLock(u) \in tx[u].held
               /\ ForUpdate(<<"session", k>>) \in tx[u].held /\ sessions[k] = tx[u].actor
               => sessions'[k] = sessions[k]
    PROVE  WInv'
  <1>0. Inv
    BY DEF WInv
  <1>1. tx'[t] = Idle /\ \A u \in Txs \ {t} : tx'[u] = tx[u]
    BY DEF Done, WInv, Inv, TypeOK
  <1>2. Waiting(t)'
    BY <1>1, IdleRecord, OverWaits
  <1>3. ASSUME NEW u \in Txs \ {t} PROVE Waiting(u)'
    <2>1. \A k \in Tokens : ForUpdate(<<"session", k>>) \in tx[u].held => tx[u].pc = "open"
      BY <1>0 DEF Inv, TxOK, FieldsOK
    <2>2. Waiting(u) /\ tx'[u] = tx[u]
      BY <1>1 DEF WInv
    <2> QED
      BY <1>0, <2>1, <2>2, WaitingKeeps
  <1> QED
    BY <1>2, <1>3 DEF WInv

\* Whoever ends a session does so under its lock, or finds it gone.
LEMMA OthersSession ==
    ASSUME Inv, NEW t \in Txs, NEW u \in Txs \ {t}, NEW k \in Tokens,
           tx[t].pc = "open", tx[t].plan = <<>>, tx[t].op \in Ending, tx[t].token = k,
           tx[u].pc = "open", tx[u].op = "disable",
           ForUpdate(<<"session", k>>) \in tx[u].held, sessions[k] = tx[u].actor
    PROVE  FALSE
  <1>1. k # 0 /\ sessions[k] # 0
    <2>1. tx[u].op \in Writes \cup Owning
      BY DEF Owning
    <2> QED
      BY <2>1, AccountTypes
  <1>2. SessionLock(t) \in tx[t].held
    BY <1>1, ReadyTx
  <1>3. SessionLock(t).row = <<"session", k>>
    BY RowKinds
  <1>4. ForUpdate(<<"session", k>>).row = <<"session", k>> /\ ~ForUpdate(<<"session", k>>).shared
    BY DEF ForUpdate
  <1> QED
    BY <1>2, <1>3, <1>4, HeldAlone

LEMMA CommitSessionWaits ==
    ASSUME WInv, Inv', NEW t \in Txs, CommitSession(t)
    PROVE  WInv'
  <1> DEFINE h == tx[t].actor
             old == tx[t].token
  <1>0. Inv
    BY DEF WInv
  <1>1. /\ tx[t].pc = "open" /\ tx[t].plan = <<>> /\ tx[t].op \in {"register", "login"} /\ Done(t)
        /\ issued < MaxTokens /\ issued' = issued + 1
        /\ sessions' = [k \in Tokens |-> CASE k = issued + 1 -> h
                                           [] k = old -> 0
                                           [] OTHER -> sessions[k]]
        /\ status' = [status EXCEPT ![h] = IF tx[t].op = "register" THEN "active" ELSE @]
        /\ scenario' = scenario
    BY DEF CommitSession, Ready
  <1>2. tx[t].op \in Ending
    BY <1>1 DEF Ending
  <1>3. issued \in Nat /\ issued' \in Nat /\ issued <= issued' /\ \A k \in Tokens : k \in Nat
    BY <1>0, <1>1, AccountTypes
  <1>4. \A g \in Humans : status[g] # "absent" => status'[g] # "absent"
    BY <1>0, <1>1 DEF Inv, TypeOK
  <1> HIDE DEF h, old
  <1>5. \A k \in Tokens : k <= issued => sessions'[k] = IF k = old THEN 0 ELSE sessions[k]
    <2> SUFFICES ASSUME NEW k \in Tokens, k <= issued
                 PROVE  sessions'[k] = IF k = old THEN 0 ELSE sessions[k]
      OBVIOUS
    <2>1. k # issued + 1
      BY <1>3
    <2>2. sessions'[k] = CASE k = issued + 1 -> h [] k = old -> 0 [] OTHER -> sessions[k]
      BY <1>1
    <2> QED
      BY <2>1, <2>2
  <1>6. ASSUME NEW u \in Txs \ {t}, NEW k \in Tokens,
               tx[u].op = "disable", tx[u].pc = "open",
               ForUpdate(<<"session", k>>) \in tx[u].held, sessions[k] = tx[u].actor
        PROVE  sessions'[k] = sessions[k]
    <2>1. k # old
      BY <1>0, <1>1, <1>2, <1>6, OthersSession DEF old
    <2>2. k <= issued
      <3>1. sessions[k] # 0
        BY <1>0, <1>6, AccountTypes DEF Owning
      <3> QED
        BY <1>0, <1>3, <3>1 DEF Inv, SessionsOK
    <2> QED
      BY <1>5, <2>1, <2>2
  <1> QED
    BY <1>1, <1>3, <1>4, <1>5, <1>6, DoneWaits

LEMMA CommitLogoutWaits ==
    ASSUME WInv, Inv', NEW t \in Txs, CommitLogout(t)
    PROVE  WInv'
  <1> DEFINE old == tx[t].token
  <1>0. Inv
    BY DEF WInv
  <1>1. /\ tx[t].pc = "open" /\ tx[t].plan = <<>> /\ tx[t].op = "logout" /\ Done(t)
        /\ sessions' = [sessions EXCEPT ![old] = 0]
        /\ UNCHANGED <<scenario, status, issued>>
    BY DEF CommitLogout, Ready
  <1>2. tx[t].op \in Ending
    BY <1>1 DEF Ending
  <1>3. issued \in Nat /\ issued <= issued
    BY <1>0, AccountTypes
  <1> HIDE DEF old
  <1>4. \A k \in Tokens : sessions'[k] = IF k = old THEN 0 ELSE sessions[k]
    BY <1>0, <1>1 DEF Inv, TypeOK
  <1>5. ASSUME NEW u \in Txs \ {t}, NEW k \in Tokens,
               tx[u].op = "disable", tx[u].pc = "open",
               ForUpdate(<<"session", k>>) \in tx[u].held, sessions[k] = tx[u].actor
        PROVE  sessions'[k] = sessions[k]
    <2>1. k # old
      BY <1>0, <1>1, <1>2, <1>5, OthersSession DEF old
    <2> QED
      BY <1>4, <2>1
  <1> QED
    BY <1>1, <1>3, <1>4, <1>5, DoneWaits

\* Two operators do not disable the same account at once.
LEMMA CommitDisableWaits ==
    ASSUME WInv, Inv', NEW t \in Txs, CommitDisable(t)
    PROVE  WInv'
  <1> DEFINE h == tx[t].actor
  <1>0. Inv
    BY DEF WInv
  <1>1. /\ tx[t].pc = "open" /\ tx[t].plan = <<>> /\ tx[t].op = "disable" /\ Done(t)
        /\ status' = [status EXCEPT ![h] = "disabled"]
        /\ sessions' = [k \in Tokens |-> IF sessions[k] = h THEN 0 ELSE sessions[k]]
        /\ UNCHANGED <<scenario, issued>>
    BY DEF CommitDisable, Ready
  <1>2. AccountLock(t) \in tx[t].held /\ ~AccountLock(t).shared
    <2>1. tx[t].op \in Owning
      BY <1>1 DEF Owning
    <2>2. ~AccountLock(t).shared
      BY <1>1 DEF AccountLock
    <2> QED
      BY <1>0, <1>1, <2>1, <2>2, ReadyTx
  <1>3. issued \in Nat /\ issued <= issued
    BY <1>0, AccountTypes
  <1>4. \A g \in Humans : status[g] # "absent" => status'[g] # "absent"
    BY <1>0, <1>1 DEF Inv, TypeOK
  <1>5. ASSUME NEW u \in Txs \ {t}, NEW k \in Tokens,
               AccountLock(u) \in tx[u].held, sessions[k] = tx[u].actor
        PROVE  sessions'[k] = sessions[k]
    <2>1. AccountLock(t).row # AccountLock(u).row
      BY <1>0, <1>2, <1>5, HeldAlone
    <2>2. tx[u].actor # h
      BY <2>1, RowKinds
    <2> QED
      BY <1>1, <1>5, <2>2
  <1> QED
    BY <1>1, <1>3, <1>4, <1>5, DoneWaits

LEMMA InitWInv == Init => WInv
  <1> SUFFICES ASSUME Init PROVE WInv
    OBVIOUS
  <1>1. \A t \in Txs : tx[t] = Idle
    BY DEF Init
  <1>2. \A t \in Txs : Waiting(t)
    BY <1>1, IdleRecord DEF Waiting, Sorted, Sweeps, Aims
  <1> QED
    BY <1>2, InitInv DEF WInv

LEMMA NextWInv == WInv /\ [Next]_vars => WInv'
  <1> SUFFICES ASSUME WInv, [Next]_vars PROVE WInv'
    OBVIOUS
  <1>0. Inv /\ Inv'
    BY NextInv DEF WInv
  <1>1. ASSUME NEW t \in Txs, NEW k \in Tokens, PersonWrites(t, k) PROVE WInv'
    BY <1>0, <1>1, PersonWritesWaits
  <1>2. ASSUME NEW t \in Txs, NEW h \in Humans, NEW k \in 0..issued,
               RegisterHuman(t, h, k) \/ Login(t, h, k)
        PROVE  WInv'
    BY <1>0, <1>2, SessionBeginsWaits
  <1>3. ASSUME NEW t \in Txs,
               \/ \E k \in Tokens : Logout(t, k)
               \/ \E h \in Humans : DisableAccount(t, h)
               \/ \E i \in DOMAIN items : Remove(t, i)
        PROVE  WInv'
    BY <1>0, <1>3, OperatorBeginsWaits
  <1>4. ASSUME NEW t \in Txs, Acquire(t) PROVE WInv'
    BY <1>0, <1>4, AcquireWaits
  <1>5. ASSUME NEW t \in Txs,
               \/ CommitCreation(t) \/ AnswerCreation(t) \/ CommitMark(t) \/ CommitFollow(t)
               \/ CommitDeletion(t) \/ Rollback(t)
        PROVE  WInv'
    BY <1>0, <1>5, EndWaits
  <1>6. ASSUME NEW t \in Txs, CommitSession(t) \/ CommitLogout(t) \/ CommitDisable(t) PROVE WInv'
    BY <1>0, <1>6, CommitSessionWaits, CommitLogoutWaits, CommitDisableWaits
  <1>7. ASSUME UNCHANGED <<scenario, status, sessions, issued, tx>> PROVE WInv'
    <2>1. issued \in Nat /\ issued <= issued
      BY <1>0, AccountTypes
    <2>2. ASSUME NEW u \in Txs PROVE Waiting(u)'
      BY <1>0, <1>7, <2>1, <2>2, WaitingKeeps DEF WInv
    <2> QED
      BY <1>0, <2>2 DEF WInv
  <1>8. ASSUME NEW k \in Tokens, Expire(k) PROVE WInv'
    BY <1>7, <1>8 DEF Expire
  <1>9. CASE UNCHANGED vars
    BY <1>7, <1>9 DEF vars
  <1> QED
    BY <1>1, <1>2, <1>3, <1>4, <1>5, <1>6, <1>8, <1>9 DEF Next

(* Transactions lock in one order, the operator waits only for sessions of *)
(* the account that it has locked, and a follow is about an account that   *)
(* exists (lockHumanActor, SetFollow, RotateSession, DisableAccount).      *)
THEOREM LocksAreOrdered == Spec => []WInv
  BY InitWInv, NextWInv, PTL DEF Spec

(* Whenever transactions wait for each other in a circle, one of them      *)
(* follows an account, another logs in to that account, and the session    *)
(* that the login replaces is one that a third, or the first, follows with *)
(* (SetFollow locks two accounts, RotateSession the session of anybody).   *)
THEOREM CyclesFollowAndLogIn ==
    Spec => [](\A S \in SUBSET Txs : WaitCycle(S) =>
                  \E f, v, g \in S :
                     /\ tx[f].op = "follow" /\ tx[v].op = "login" /\ tx[g].op = "follow"
                     /\ tx[v].actor = tx[f].target /\ tx[v].token = tx[g].token)
  <1>1. WInv => \A S \in SUBSET Txs : WaitCycle(S) =>
                  \E f, v, g \in S :
                     /\ tx[f].op = "follow" /\ tx[v].op = "login" /\ tx[g].op = "follow"
                     /\ tx[v].actor = tx[f].target /\ tx[v].token = tx[g].token
    BY CycleShape
  <1> QED
    BY <1>1, LocksAreOrdered, PTL

\* Without one of the two there is no cycle.
LEMMA NoCycle ==
    ASSUME WInv, ~({"follow", "login"} \subseteq Operations)
    PROVE  NoWaitCycle
  <1> SUFFICES ASSUME NEW S \in (SUBSET Txs) \ {{}}, \A t \in S : \E u \in S : Conflicts(t, u)
               PROVE  FALSE
    BY DEF NoWaitCycle
  <1>1. WaitCycle(S) /\ S \in SUBSET Txs
    BY DEF WaitCycle
  <1>2. ASSUME NEW t \in S PROVE tx[t].op \in Operations
    <2>1. tx[t].pc = "open" /\ t \in Txs
      BY <1>1, HolderWaits
    <2> QED
      BY <2>1 DEF WInv, Inv, TxOK, FieldsOK
  <1> QED
    BY <1>1, <1>2, CycleShape

(* Where nobody follows or nobody logs in, no transactions wait for each   *)
(* other in a circle, whatever creations, marks, deletions, registrations, *)
(* logouts and disablings are under way (operator.go: "Lock order matches  *)
(* the existing account-first convention").                                *)
THEOREM AccountFirstSuffices ==
    Spec => [](~({"follow", "login"} \subseteq Operations) => NoWaitCycle)
  <1>1. WInv => (~({"follow", "login"} \subseteq Operations) => NoWaitCycle)
    BY NoCycle
  <1> QED
    BY <1>1, LocksAreOrdered, PTL
=============================================================================
