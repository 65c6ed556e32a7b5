---------------------------- MODULE AbstractDeque ----------------------------
(***************************************************************************)
(* What a work-stealing deque promises its owner and its thieves: a        *)
(* bounded sequence, used as a stack by the owner and as a queue by the    *)
(* thieves.  The owner is refused work it might not be able to finish, and *)
(* a push beyond the capacity fails.                                       *)
(***************************************************************************)
EXTENDS Integers, Sequences

CONSTANTS
    Tasks,          \* what is queued: the active pairs of a net
    Capacity,       \* how many tasks the deque can hold
    MaxReentrant,   \* how many pushes one task may cause
    None,           \* the answer of an empty deque
    Zero,           \* the answer of a deque that holds back its work
    Overflow        \* the failed assertion of a push

VARIABLES
    items,          \* the queued tasks, the oldest first
    result          \* the last operation and what it answered

vars == <<items, result>>

Answer(op, value) == [op |-> op, value |-> value]

(* Popping must leave room for the pushes the popped task may cause. *)
HoldsBack == Len(items) - 1 >= Capacity - MaxReentrant

Init == items = <<>> /\ result = Answer("new", None)

Push(t) ==
    /\ Len(items) < Capacity
    /\ items' = Append(items, t)
    /\ result' = Answer("push", t)

PushOverflow ==
    /\ Len(items) >= Capacity
    /\ UNCHANGED items
    /\ result' = Answer("push", Overflow)

Pop ==
    /\ items # <<>>
    /\ ~HoldsBack
    /\ items' = SubSeq(items, 1, Len(items) - 1)
    /\ result' = Answer("pop", items[Len(items)])

PopRefused ==
    /\ items # <<>>
    /\ HoldsBack
    /\ UNCHANGED items
    /\ result' = Answer("pop", Zero)

Steal ==
    /\ items # <<>>
    /\ items' = Tail(items)
    /\ result' = Answer("steal", Head(items))

FindEmpty ==
    /\ items = <<>>
    /\ UNCHANGED items
    /\ result' \in {Answer(op, None) : op \in {"pop", "steal"}}

Next ==
    \/ \E t \in Tasks : Push(t)
    \/ PushOverflow
    \/ Pop
    \/ PopRefused
    \/ Steal
    \/ FindEmpty

Spec == Init /\ [][Next]_vars
=============================================================================
