-------------------------- MODULE WorkStealingDeque --------------------------
(***************************************************************************)
(* The ring buffer of src/natsune/deque.py, with the way a ThreadWorker of *)
(* src/natsune/executor.py uses its own deque and other workers steal from *)
(* it.  Every method of the class holds one lock from its first to its     *)
(* last statement, so every method call is one action.                     *)
(*                                                                         *)
(* The cursors left and right only grow.  The code finds a slot with       *)
(* cursor & wrap_mask, which is cursor % Capacity because the constructor  *)
(* makes the capacity a power of two.                                      *)
(***************************************************************************)
EXTENDS Integers, Sequences

CONSTANTS
    Tasks,          \* the active pairs; each is queued at most once
    Capacity,       \* the length of the store
    MaxReentrant,   \* max_reentrant_push
    MaxPush,        \* the most pushes an interaction really makes
    None,           \* Python's None: an unused slot, the answer of an empty deque
    Zero,           \* the literal 0 that pop answers to hold back its work
    Overflow        \* the AssertionError of push

(* What the constructor accepts, of a storage hint rounded up to Capacity. *)
ASSUME CapacityAssumption ==
    /\ Capacity \in Nat
    /\ MaxReentrant \in Nat
    /\ 1 <= MaxReentrant
    /\ MaxReentrant <= Capacity
    /\ MaxPush \in Nat

ASSUME AnswersAssumption ==
    /\ None \notin Tasks
    /\ Zero \notin Tasks
    /\ Overflow \notin Tasks

VARIABLES
    left,           \* cursor of the thieves' end
    right,          \* cursor of the owner's end
    store,          \* the slots
    owner,          \* what the owner of the deque is doing
    made,           \* pushes made by the task in the owner's hands
    pushed,         \* history: the tasks that were ever queued
    returned,       \* history: the tasks pop and steal handed out
    result          \* the last operation and what it answered

ring == <<left, right, store>>
vars == <<left, right, store, owner, made, pushed, returned, result>>

Size == right - left

Slot(cursor) == cursor % Capacity

Answer(op, value) == [op |-> op, value |-> value]

Init ==
    /\ left = 0
    /\ right = 0
    /\ store = [s \in 0..(Capacity - 1) |-> None]
    /\ owner = "wiring"
    /\ made = 0
    /\ pushed = {}
    /\ returned = {}
    /\ result = Answer("new", None)

-----------------------------------------------------------------------------
(* The methods of the deque. *)

Write(t) ==
    /\ right' = right + 1
    /\ store' = [store EXCEPT ![Slot(right)] = t]
    /\ pushed' = pushed \cup {t}
    /\ result' = Answer("push", t)
    /\ UNCHANGED <<left, returned>>

PushUnchecked(t) == Write(t)

Push(t) == Size < Capacity /\ Write(t)

PushOverflow ==
    /\ Size >= Capacity
    /\ result' = Answer("push", Overflow)
    /\ UNCHANGED <<ring, pushed, returned>>

FindEmpty(op) ==
    /\ right <= left
    /\ result' = Answer(op, None)
    /\ UNCHANGED <<ring, pushed, returned>>

HoldsBackNever == Size > Capacity

HoldsBack == Size - 1 >= Capacity - MaxReentrant

PopRefused ==
    /\ right > left
    /\ HoldsBack
    /\ result' = Answer("pop", Zero)
    /\ UNCHANGED <<ring, pushed, returned>>

HandOut(op, cursor) ==
    /\ result' = Answer(op, store[Slot(cursor)])
    /\ returned' = returned \cup {store[Slot(cursor)]}
    /\ UNCHANGED <<store, pushed>>

(* The last task is taken from the thieves' end. *)
PopLast ==
    /\ Size = 1
    /\ ~HoldsBack
    /\ left' = left + 1
    /\ UNCHANGED right
    /\ HandOut("pop", left)

PopNewestOffByOne ==
    /\ Size > 1
    /\ ~HoldsBack
    /\ right' = right - 1
    /\ UNCHANGED left
    /\ HandOut("pop", right)

PopNewest ==
    /\ Size > 1
    /\ ~HoldsBack
    /\ right' = right - 1
    /\ UNCHANGED left
    /\ HandOut("pop", right - 1)

StealNewest ==
    /\ right > left
    /\ right' = right - 1
    /\ UNCHANGED left
    /\ HandOut("steal", right - 1)

StealOldest ==
    /\ right > left
    /\ left' = left + 1
    /\ UNCHANGED right
    /\ HandOut("steal", left)

-----------------------------------------------------------------------------
(* The callers.  Before run() any thread that wires the net may push to    *)
(* the queue; while the pool runs only its owner does, for the task it got *)
(* from its own queue or stole from another one.  A failed assertion ends  *)
(* the worker.                                                             *)

Fresh == Tasks \ pushed

WiringPush ==
    /\ owner = "wiring"
    /\ PushOverflow \/ \E t \in Fresh : Push(t)
    /\ UNCHANGED <<owner, made>>

StartRun ==
    /\ owner = "wiring"
    /\ owner' = "idle"
    /\ UNCHANGED <<ring, made, pushed, returned, result>>

WorkerPush ==
    /\ owner = "executing"
    /\ made < MaxPush
    /\ \E t \in Fresh : Push(t)
    /\ made' = made + 1
    /\ UNCHANGED owner

WorkerPushFails ==
    /\ owner = "executing"
    /\ made < MaxPush
    /\ PushOverflow
    /\ owner' = "dead"
    /\ UNCHANGED made

(* The interaction ends, having pushed what it had to push. *)
WorkerDone ==
    /\ owner = "executing"
    /\ owner' = "idle"
    /\ UNCHANGED <<ring, made, pushed, returned, result>>

WorkerPop ==
    /\ owner = "idle"
    /\ PopLast \/ PopNewest
    /\ owner' = "executing"
    /\ made' = 0

WorkerPopRefused ==
    /\ owner = "idle"
    /\ PopRefused
    /\ UNCHANGED <<owner, made>>

WorkerPopEmpty ==
    /\ owner = "idle"
    /\ FindEmpty("pop")
    /\ owner' = "hungry"
    /\ UNCHANGED made

(* Its own deque being empty, the owner tries the others: it gets a task   *)
(* from one of them, or none and pops its own again.                       *)
StealElsewhere ==
    /\ owner = "hungry"
    /\ owner' \in {"idle", "executing"}
    /\ made' = 0
    /\ UNCHANGED <<ring, pushed, returned, result>>

StealByOther ==
    /\ owner # "wiring"
    /\ StealOldest \/ FindEmpty("steal")
    /\ UNCHANGED <<owner, made>>

(* run() returns once its workers have: what is left in the queue stays    *)
(* for the next call.                                                      *)
EndRun ==
    /\ owner \in {"idle", "hungry", "dead"}
    /\ owner' = "wiring"
    /\ UNCHANGED <<ring, made, pushed, returned, result>>

Next ==
    \/ WiringPush
    \/ StartRun
    \/ WorkerPush
    \/ WorkerPushFails
    \/ WorkerDone
    \/ WorkerPop
    \/ WorkerPopRefused
    \/ WorkerPopEmpty
    \/ StealElsewhere
    \/ StealByOther
    \/ EndRun

Spec == Init /\ [][Next]_vars

-----------------------------------------------------------------------------
Cursors == left..(right - 1)

At(cursor) == store[Slot(cursor)]

(* The cursors span a window of at most Capacity slots, whatever the two   *)
(* ends do.                                                                *)
TypeOK ==
    /\ left \in Nat
    /\ right \in Nat
    /\ left <= right
    /\ right - left <= Capacity
    /\ store \in [0..(Capacity - 1) -> Tasks \cup {None}]
    /\ owner \in {"wiring", "idle", "executing", "hungry", "dead"}
    /\ made \in 0..MaxPush
    /\ pushed \subseteq Tasks
    /\ returned \subseteq pushed

(* The queue holds exactly the tasks that were pushed and not yet handed   *)
(* out, each of them in one slot: wrapping around never overwrites a       *)
(* queued task, and the owner and the thieves never take the same one.     *)
Conserved ==
    /\ \A i \in Cursors : At(i) \in pushed \ returned
    /\ \A i, j \in Cursors : At(i) = At(j) => i = j
    /\ \A t \in pushed \ returned : \E i \in Cursors : At(i) = t

(* A worker that was given a task has room for every push it was promised, *)
(* without the help of a thief: pop gives out work, and a worker steals,   *)
(* only when "the capacity to push" exists (the comments in push and pop). *)
ReserveFits ==
    /\ (owner = "executing" /\ made <= MaxReentrant)
           => Size + (MaxReentrant - made) <= Capacity
    /\ owner = "hungry" => Size = 0

(* While the pool runs, a push fails only in an interaction that already   *)
(* made all the pushes max_reentrant_push allows it.                       *)
OverflowsOnlyBeyondReserve == [][WorkerPushFails => made >= MaxReentrant]_vars

Items == [k \in 1..Size |-> At(left + k - 1)]

Deque == INSTANCE AbstractDeque WITH items <- Items

(* The deque implements the bounded two-ended sequence: the owner gets the *)
(* newest task, a thief the oldest, and nothing else changes.              *)
ImplementsDeque == Deque!Spec
=============================================================================
