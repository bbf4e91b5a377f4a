-------------------------- MODULE IdempotentWrites --------------------------
(***************************************************************************)
(* What an idempotency key promises to the people who create posts and     *)
(* replies (reservePost and reserveReply of internal/postgres/content.go): *)
(* a key of an actor stands for one request and one item for ever, and     *)
(* whoever repeats the request is told of that item or, when it is gone,   *)
(* of nothing.                                                             *)
(***************************************************************************)
VARIABLES
    created,  \* what keys stand for: [actor, key, request, item]
    gone,     \* items that nobody sees any more
    told      \* what clients were told

vars == <<created, gone, told>>

Init == created = {} /\ gone = {} /\ told = {}

\* Whatever is created, its key and its item are new.
Create ==
    /\ \E c \in created' :
           /\ created' = created \cup {c}
           /\ \A d \in created : d.item # c.item /\ <<d.actor, d.key>> # <<c.actor, c.key>>
    /\ UNCHANGED <<gone, told>>

\* A post goes with the replies to it.
Delete ==
    /\ gone \subseteq gone'
    /\ UNCHANGED <<created, told>>

Tell ==
    /\ \E c \in created : c.item \notin gone /\ told' = told \cup {c}
    /\ UNCHANGED <<created, gone>>

Next == Create \/ Delete \/ Tell

Spec == Init /\ [][Next]_vars
=============================================================================
