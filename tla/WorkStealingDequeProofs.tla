----------------------- MODULE WorkStealingDequeProofs -----------------------
(***************************************************************************)
(* Proofs about WorkStealingDeque for every capacity and every reserve the *)
(* constructor accepts.  The argument rests on one arithmetic fact: two    *)
(* cursors less than Capacity apart never share a slot (SlotsDiffer).      *)
(***************************************************************************)
EXTENDS WorkStealingDeque, SequenceTheorems, TLAPS

(* A cursor always falls on a slot of the store. *)
LEMMA SlotInStore ==
    ASSUME NEW c \in Nat
    PROVE  Slot(c) \in 0..(Capacity - 1)
BY CapacityAssumption DEF Slot

(* Two cursors of a window no longer than the store use different slots.   *)
LEMMA SlotsDiffer ==
    ASSUME NEW a \in Nat, NEW b \in Nat, a < b, b - a < Capacity
    PROVE  Slot(a) # Slot(b)
<1>1. /\ Capacity \in Nat \ {0}
      /\ Slot(a) = a % Capacity
      /\ Slot(b) = b % Capacity
  BY CapacityAssumption DEF Slot
<1>2. a = Capacity * (a \div Capacity) + (a % Capacity)
  BY <1>1
<1>3. b = Capacity * (b \div Capacity) + (b % Capacity)
  BY <1>1
<1>4. SUFFICES ASSUME a % Capacity = b % Capacity
               PROVE  FALSE
  BY <1>1
<1>5. /\ a \div Capacity \in Int
      /\ b \div Capacity \in Int
      /\ a % Capacity \in 0..(Capacity - 1)
  BY <1>1
<1> DEFINE d == (b \div Capacity) - (a \div Capacity)
<1>6. d \in Int /\ b - a = Capacity * d
  BY <1>1, <1>2, <1>3, <1>4, <1>5
<1>7. CASE d <= 0
  <2>1. Capacity * d <= 0
    BY <1>1, <1>6, <1>7
  <2> QED
    BY <1>6, <2>1
<1>8. CASE d >= 1
  <2>1. Capacity * d >= Capacity
    BY <1>1, <1>6, <1>8
  <2> QED
    BY <1>1, <1>6, <2>1
<1> QED
  BY <1>6, <1>7, <1>8

-----------------------------------------------------------------------------
(* The ring and the histories: what the methods of the class maintain      *)
(* whoever calls them.                                                     *)
RingOK ==
    /\ left \in Nat
    /\ right \in Nat
    /\ left <= right
    /\ right - left <= Capacity
    /\ store \in [0..(Capacity - 1) -> Tasks \cup {None}]
    /\ pushed \subseteq Tasks
    /\ returned \subseteq pushed

RingInv == RingOK /\ Conserved

(* A push of a fresh task fills a slot no queued task uses. *)
LEMMA PushKeepsRing ==
    ASSUME RingInv, NEW t \in Fresh, Push(t)
    PROVE  RingInv'
<1> USE CapacityAssumption, AnswersAssumption
<1>1. /\ left \in Nat /\ right \in Nat /\ left <= right /\ right - left < Capacity
      /\ left' = left /\ right' = right + 1
      /\ pushed' = pushed \cup {t} /\ returned' = returned
      /\ t \in Tasks /\ t \notin pushed
  BY DEF RingInv, RingOK, Push, Write, Size, Fresh
<1>2. Slot(right) \in 0..(Capacity - 1)
  BY <1>1, SlotInStore
<1>3. RingOK'
  BY <1>1, <1>2 DEF RingInv, RingOK, Push, Write
<1>4. Cursors' = Cursors \cup {right}
  BY <1>1 DEF Cursors
<1>5. \A i : i = right => At(i)' = t
  BY <1>1, <1>2 DEF RingInv, RingOK, Push, Write, At, Slot
<1>6. \A i \in Cursors : At(i)' = At(i)
  <2> TAKE i \in Cursors
  <2>1. i \in Nat /\ i < right /\ right - i < Capacity
    BY <1>1 DEF Cursors
  <2>2. Slot(i) \in 0..(Capacity - 1) /\ Slot(i) # Slot(right)
    BY <1>1, <2>1, SlotInStore, SlotsDiffer
  <2> QED
    BY <1>2, <2>2 DEF RingInv, RingOK, Push, Write, At, Slot
<1>7. \A i \in Cursors : At(i) \in pushed /\ At(i) \notin returned /\ At(i) # t
  BY <1>1 DEF RingInv, Conserved
<1>8. Conserved'
  <2>1. \A i \in Cursors' : At(i)' \in pushed' \ returned'
    BY <1>1, <1>4, <1>5, <1>6, <1>7 DEF RingInv, RingOK
  <2>2. \A i, j \in Cursors' : At(i)' = At(j)' => i = j
    BY <1>4, <1>5, <1>6, <1>7 DEF RingInv, Conserved
  <2>3. \A u \in pushed' \ returned' : \E i \in Cursors' : At(i)' = u
    BY <1>1, <1>4, <1>5, <1>6 DEF RingInv, Conserved
  <2> QED
    BY <2>1, <2>2, <2>3 DEF Conserved
<1> QED
  BY <1>3, <1>8 DEF RingInv

(* Handing out the task at one end of the window leaves the other tasks    *)
(* queued, each once.                                                      *)
LEMMA HandOutKeepsRing ==
    ASSUME RingInv, right > left, NEW op, NEW c \in {left, right - 1}, HandOut(op, c),
           \/ c = left /\ left' = left + 1 /\ right' = right
           \/ c = right - 1 /\ right' = right - 1 /\ left' = left
    PROVE  RingInv'
<1> USE CapacityAssumption
<1>1. /\ left \in Nat /\ right \in Nat
      /\ c \in Cursors
      /\ pushed' = pushed /\ store' = store
      /\ returned' = returned \cup {At(c)}
  BY DEF RingInv, RingOK, HandOut, At, Cursors
<1>2. Cursors' = Cursors \ {c}
  BY <1>1 DEF Cursors
<1>3. At(c) \in pushed
  BY <1>1 DEF RingInv, Conserved
<1>4. RingOK'
  BY <1>1, <1>3 DEF RingInv, RingOK
<1>5. \A i : At(i)' = At(i)
  BY <1>1 DEF At, Slot
<1>6. \A i \in Cursors' : At(i) # At(c)
  BY <1>1, <1>2 DEF RingInv, Conserved
<1>7. Conserved'
  <2>1. \A i \in Cursors' : At(i)' \in pushed' \ returned'
    BY <1>1, <1>2, <1>5, <1>6 DEF RingInv, Conserved
  <2>2. \A i, j \in Cursors' : At(i)' = At(j)' => i = j
    BY <1>2, <1>5 DEF RingInv, Conserved
  <2>3. \A u \in pushed' \ returned' : \E i \in Cursors' : At(i)' = u
    BY <1>1, <1>2, <1>5 DEF RingInv, Conserved
  <2> QED
    BY <2>1, <2>2, <2>3 DEF Conserved
<1> QED
  BY <1>4, <1>7 DEF RingInv

(* An operation that answers without changing the ring keeps it. *)
LEMMA StutterKeepsRing ==
    ASSUME RingInv, UNCHANGED <<left, right, store, pushed, returned>>
    PROVE  RingInv'
BY DEF RingInv, RingOK, Conserved, Cursors, At, Slot

-----------------------------------------------------------------------------
(* The inductive invariant: the ring, what its owner may be doing, and the *)
(* reserve.  ReserveFits needs both parts: a worker that stole has an      *)
(* empty queue only because nobody but the owner pushes to it.             *)
IInv ==
    /\ TypeOK
    /\ Conserved
    /\ ReserveFits

(* The deque starts with an empty window. *)
LEMMA InvInit == Init => IInv
<1> SUFFICES ASSUME Init PROVE IInv
  OBVIOUS
<1>1. TypeOK
  BY CapacityAssumption DEF Init, TypeOK
<1>2. Cursors = {}
  BY DEF Init, Cursors
<1>3. Conserved /\ ReserveFits
  BY <1>2 DEF Init, Conserved, ReserveFits
<1> QED
  BY <1>1, <1>3 DEF IInv

(* Every step of the owner, of a thief or of a wiring thread keeps it. *)
LEMMA InvNext == IInv /\ [Next]_vars => IInv'
<1> SUFFICES ASSUME IInv, [Next]_vars
             PROVE  IInv'
  OBVIOUS
<1> USE CapacityAssumption
<1>0. /\ RingInv
      /\ owner \in {"wiring", "idle", "executing", "hungry", "dead"}
      /\ made \in 0..MaxPush
      /\ ReserveFits
      /\ left \in Nat /\ right \in Nat /\ left <= right
  BY DEF IInv, TypeOK, RingInv, RingOK
<1> DEFINE OwnerOK == /\ owner \in {"wiring", "idle", "executing", "hungry", "dead"}
                      /\ made \in 0..MaxPush
<1>a. SUFFICES RingInv' /\ OwnerOK' /\ ReserveFits'
  BY DEF IInv, TypeOK, RingInv, RingOK
<1>1. CASE WiringPush
  <2>1. RingInv'
    BY <1>0, <1>1, PushKeepsRing, StutterKeepsRing DEF WiringPush, PushOverflow, ring
  <2> QED
    BY <1>0, <1>1, <2>1 DEF WiringPush, ReserveFits
<1>2. CASE StartRun
  BY <1>0, <1>2, StutterKeepsRing DEF StartRun, ring, ReserveFits
<1>3. CASE WorkerPush
  <2>1. PICK t \in Fresh : Push(t)
    BY <1>3 DEF WorkerPush
  <2>2. RingInv'
    BY <1>0, <2>1, PushKeepsRing
  <2>3. ReserveFits'
    BY <1>0, <1>3, <2>1 DEF WorkerPush, Push, Write, ReserveFits, Size
  <2> QED
    BY <1>0, <1>3, <2>2, <2>3 DEF WorkerPush
<1>4. CASE WorkerPushFails
  BY <1>0, <1>4, StutterKeepsRing DEF WorkerPushFails, PushOverflow, ring, ReserveFits
<1>5. CASE WorkerDone
  BY <1>0, <1>5, StutterKeepsRing DEF WorkerDone, ring, ReserveFits
<1>6. CASE WorkerPop
  <2>1. RingInv'
    <3>1. CASE PopLast
      BY <1>0, <3>1, HandOutKeepsRing DEF PopLast, Size
    <3>2. CASE PopNewest
      BY <1>0, <3>2, HandOutKeepsRing DEF PopNewest, Size
    <3> QED
      BY <1>6, <3>1, <3>2 DEF WorkerPop
  <2>2. Size' = Size - 1 /\ ~HoldsBack
    BY <1>0, <1>6 DEF WorkerPop, PopLast, PopNewest, Size
  <2>3. ReserveFits'
    BY <1>0, <1>6, <2>2 DEF WorkerPop, HoldsBack, ReserveFits, Size
  <2> QED
    BY <1>0, <1>6, <2>1, <2>3 DEF WorkerPop
<1>7. CASE WorkerPopRefused
  BY <1>0, <1>7, StutterKeepsRing DEF WorkerPopRefused, PopRefused, ring, ReserveFits
<1>8. CASE WorkerPopEmpty
  BY <1>0, <1>8, StutterKeepsRing DEF WorkerPopEmpty, FindEmpty, ring, ReserveFits, Size
<1>9. CASE StealElsewhere
  BY <1>0, <1>9, StutterKeepsRing DEF StealElsewhere, ring, ReserveFits, Size
<1>10. CASE StealByOther
  <2>1. CASE StealOldest
    <3>1. RingInv'
      BY <1>0, <2>1, HandOutKeepsRing DEF StealOldest
    <3>2. ReserveFits'
      BY <1>0, <1>10, <2>1 DEF StealByOther, StealOldest, ReserveFits, Size
    <3> QED
      BY <1>0, <1>10, <3>1, <3>2 DEF StealByOther
  <2>2. CASE FindEmpty("steal")
    BY <1>0, <1>10, <2>2, StutterKeepsRing DEF StealByOther, FindEmpty, ring, ReserveFits, Size
  <2> QED
    BY <1>10, <2>1, <2>2 DEF StealByOther
<1>11. CASE EndRun
  BY <1>0, <1>11, StutterKeepsRing DEF EndRun, ring, ReserveFits
<1>12. CASE UNCHANGED vars
  BY <1>0, <1>12, StutterKeepsRing DEF vars, ReserveFits, Size
<1> QED
  BY <1>1, <1>2, <1>3, <1>4, <1>5, <1>6, <1>7, <1>8, <1>9, <1>10, <1>11, <1>12 DEF Next

(* The invariant holds in every reachable state. *)
THEOREM Invariant == Spec => []IInv
BY InvInit, InvNext, PTL DEF Spec

(* Type correctness of the deque: the cursors of src/natsune/deque.py span *)
(* at most the capacity, for every capacity.                               *)
THEOREM TypeCorrect == Spec => []TypeOK
<1>1. IInv => TypeOK
  BY DEF IInv
<1> QED
  BY <1>1, Invariant, PTL

(* push, pop and steal never lose, overwrite or duplicate a task. *)
THEOREM TasksConserved == Spec => []Conserved
<1>1. IInv => Conserved
  BY DEF IInv
<1> QED
  BY <1>1, Invariant, PTL

(* What pop holds back is enough for every interaction that keeps to       *)
(* max_reentrant_push.                                                     *)
THEOREM ReserveSuffices == Spec => []ReserveFits
<1>1. IInv => ReserveFits
  BY DEF IInv
<1> QED
  BY <1>1, Invariant, PTL

(* The assertion of push cannot fail inside the promised number of pushes. *)
THEOREM NoOverflowWithinReserve == Spec => OverflowsOnlyBeyondReserve
<1>1. IInv => (WorkerPushFails => made >= MaxReentrant)
  <2> SUFFICES ASSUME IInv, WorkerPushFails, ~(made >= MaxReentrant)
               PROVE  FALSE
    OBVIOUS
  <2>1. made \in Nat /\ left \in Nat /\ right \in Nat
    BY CapacityAssumption DEF IInv, TypeOK
  <2> QED
    BY <2>1, CapacityAssumption
       DEF IInv, ReserveFits, WorkerPushFails, PushOverflow, Size
<1>2. IInv /\ [Next]_vars => [WorkerPushFails => made >= MaxReentrant]_vars
  BY <1>1
<1> QED
  BY <1>2, Invariant, PTL DEF Spec, OverflowsOnlyBeyondReserve

-----------------------------------------------------------------------------
(* Refinement: read from left to right, the window is the abstract         *)
(* sequence.                                                               *)

Window(l, r, st) == [k \in 1..(r - l) |-> st[Slot(l + k - 1)]]

(* A window of task slots is a sequence of tasks. *)
LEMMA WindowProperties ==
    ASSUME NEW l \in Nat, NEW r \in Nat, l <= r, NEW st,
           \A i \in l..(r - 1) : st[Slot(i)] \in Tasks
    PROVE  /\ Window(l, r, st) \in Seq(Tasks)
           /\ Len(Window(l, r, st)) = r - l
           /\ \A k \in 1..(r - l) : Window(l, r, st)[k] = st[Slot(l + k - 1)]
<1> DEFINE n == r - l
           e(k) == st[Slot(l + k - 1)]
<1>1. n \in Nat
  OBVIOUS
<1>2. \A k \in 1..n : e(k) \in Tasks
  <2> TAKE k \in 1..n
  <2>1. l + k - 1 \in l..(r - 1)
    OBVIOUS
  <2> QED
    BY <2>1
<1>3. Window(l, r, st) = [k \in 1..n |-> e(k)]
  BY DEF Window
<1> HIDE DEF n, e
<1>4. [k \in 1..n |-> e(k)] \in Seq(Tasks)
  BY <1>1, <1>2, IsASeq
<1>5. Len([k \in 1..n |-> e(k)]) = n
  BY <1>1, <1>4, LenProperties
<1> QED
  BY <1>3, <1>4, <1>5 DEF n, e

(* The queued tasks, before a step and after it. *)
LEMMA ItemsProperties ==
    ASSUME RingInv
    PROVE  /\ Items = Window(left, right, store)
           /\ Items \in Seq(Tasks)
           /\ Len(Items) = Size
           /\ \A k \in 1..Size : Items[k] = store[Slot(left + k - 1)]
<1>1. \A i \in left..(right - 1) : store[Slot(i)] \in Tasks
  BY DEF RingInv, RingOK, Conserved, Cursors, At
<1>2. Items = Window(left, right, store)
  BY DEF Items, Window, At, Size
<1> QED
  BY <1>1, <1>2, WindowProperties DEF RingInv, RingOK, Size

(* A push appends. *)
LEMMA PushAppends ==
    ASSUME RingInv, NEW t \in Fresh, Push(t)
    PROVE  Items' = Append(Items, t)
<1>0. /\ left \in Nat /\ right \in Nat /\ Capacity \in Nat
      /\ left <= right /\ right - left < Capacity
  BY CapacityAssumption DEF RingInv, RingOK, Push, Size
<1>1. /\ left' = left /\ right' = right + 1
      /\ store' = [store EXCEPT ![Slot(right)] = t]
      /\ store \in [0..(Capacity - 1) -> Tasks \cup {None}]
      /\ t \in Tasks
  BY DEF RingInv, RingOK, Push, Write, Size, Fresh
<1>2. store'[Slot(right)] = t
  BY <1>0, <1>1, SlotInStore
<1>3. \A i \in left..(right - 1) : store'[Slot(i)] = store[Slot(i)] /\ store[Slot(i)] \in Tasks
  <2> TAKE i \in left..(right - 1)
  <2>0. i \in Nat /\ i < right /\ right - i < Capacity
    BY <1>0
  <2>1. Slot(i) # Slot(right) /\ Slot(i) \in 0..(Capacity - 1)
    BY <1>0, <2>0, SlotInStore, SlotsDiffer
  <2>2. store[Slot(i)] \in Tasks
    BY DEF RingInv, RingOK, Conserved, Cursors, At
  <2> QED
    BY <1>1, <2>1, <2>2
<1>4. \A i \in left..right : store'[Slot(i)] \in Tasks
  BY <1>0, <1>1, <1>2, <1>3
<1>5. Items' = Window(left, right + 1, store')
  BY <1>1 DEF Items, Window, At, Size, Slot
<1>6. /\ Items' \in Seq(Tasks)
      /\ Len(Items') = Size + 1
      /\ \A k \in 1..(Size + 1) : Items'[k] = store'[Slot(left + k - 1)]
  <2> DEFINE r == right + 1
  <2>1. r \in Nat /\ left <= r /\ r - left = Size + 1
    BY <1>0 DEF Size
  <2>2. \A i \in left..(r - 1) : store'[Slot(i)] \in Tasks
    BY <1>0, <1>4
  <2>3. Items' = Window(left, r, store')
    BY <1>5
  <2> HIDE DEF r
  <2>4. /\ Window(left, r, store') \in Seq(Tasks)
        /\ Len(Window(left, r, store')) = r - left
        /\ \A k \in 1..(r - left) : Window(left, r, store')[k] = store'[Slot(left + k - 1)]
    BY <1>0, <2>1, <2>2, WindowProperties
  <2> QED
    BY <2>1, <2>3, <2>4
<1>7. /\ Append(Items, t) \in Seq(Tasks)
      /\ Len(Append(Items, t)) = Size + 1
      /\ \A k \in 1..Size : Append(Items, t)[k] = store[Slot(left + k - 1)]
      /\ Append(Items, t)[Size + 1] = t
  <2>1. /\ Items \in Seq(Tasks) /\ Len(Items) = Size
        /\ \A k \in 1..Size : Items[k] = store[Slot(left + k - 1)]
    BY ItemsProperties
  <2>2. /\ Append(Items, t) \in Seq(Tasks)
        /\ Len(Append(Items, t)) = Len(Items) + 1
        /\ \A k \in 1..Len(Items) : Append(Items, t)[k] = Items[k]
        /\ Append(Items, t)[Len(Items) + 1] = t
    BY <1>1, <2>1, AppendProperties
  <2> QED
    BY <2>1, <2>2
<1>8. \A k \in 1..(Size + 1) : Items'[k] = Append(Items, t)[k]
  <2> TAKE k \in 1..(Size + 1)
  <2>1. CASE k = Size + 1
    <3>1. left + k - 1 = right
      BY <1>0, <2>1 DEF Size
    <3>2. Items'[k] = store'[Slot(left + k - 1)]
      BY <1>6
    <3>3. Append(Items, t)[k] = t
      BY <1>7, <2>1
    <3> QED
      BY <1>2, <3>1, <3>2, <3>3
  <2>2. CASE k \in 1..Size
    <3>1. left + k - 1 \in left..(right - 1)
      BY <1>0, <2>2 DEF Size
    <3>2. store'[Slot(left + k - 1)] = store[Slot(left + k - 1)]
      BY <1>3, <3>1
    <3>3. Items'[k] = store'[Slot(left + k - 1)]
      BY <1>6
    <3> QED
      BY <1>7, <2>2, <3>2, <3>3
  <2>3. k = Size + 1 \/ k \in 1..Size
    BY <1>0 DEF Size
  <2> QED
    BY <2>1, <2>2, <2>3
<1> QED
  BY <1>6, <1>7, <1>8, SeqEqual

(* Taking the task at the left end leaves the tail. *)
LEMMA TakeLeftIsTail ==
    ASSUME RingInv, right > left, left' = left + 1, right' = right, store' = store
    PROVE  /\ Items # <<>>
           /\ Items' = Tail(Items)
           /\ store[Slot(left)] = Head(Items)
<1>1. left \in Nat /\ right \in Nat
  BY DEF RingInv, RingOK
<1>2. \A i \in (left + 1)..(right - 1) : store[Slot(i)] \in Tasks
  BY <1>1 DEF RingInv, RingOK, Conserved, Cursors, At
<1>3. Items' = Window(left + 1, right, store)
  BY DEF Items, Window, At, Size, Slot
<1>4. /\ Items' \in Seq(Tasks)
      /\ Len(Items') = Size - 1
      /\ \A k \in 1..(Size - 1) : Items'[k] = store[Slot(left + k)]
  <2> DEFINE l == left + 1
  <2>1. l \in Nat /\ l <= right /\ right - l = Size - 1
    BY <1>1 DEF Size
  <2>2. \A i \in l..(right - 1) : store[Slot(i)] \in Tasks
    BY <1>2
  <2>3. Items' = Window(l, right, store)
    BY <1>3
  <2>4. \A k \in Nat : l + k - 1 = left + k
    BY <1>1
  <2> HIDE DEF l
  <2>5. /\ Window(l, right, store) \in Seq(Tasks)
        /\ Len(Window(l, right, store)) = right - l
        /\ \A k \in 1..(right - l) : Window(l, right, store)[k] = store[Slot(l + k - 1)]
    BY <1>1, <2>1, <2>2, WindowProperties
  <2> QED
    BY <2>1, <2>3, <2>4, <2>5
<1>5. Items # <<>>
  BY <1>1, ItemsProperties DEF Size
<1>6. /\ Tail(Items) \in Seq(Tasks)
      /\ Len(Tail(Items)) = Size - 1
      /\ \A k \in 1..(Size - 1) : Tail(Items)[k] = Items[k + 1]
  BY <1>5, ItemsProperties, HeadTailProperties
<1>7. \A k \in 1..(Size - 1) : Items'[k] = Tail(Items)[k]
  BY <1>1, <1>4, <1>6, ItemsProperties DEF Size
<1>8. Items' = Tail(Items)
  BY <1>4, <1>6, <1>7, SeqEqual
<1>9. Head(Items) = store[Slot(left)]
  BY <1>1, <1>5, ItemsProperties DEF Size
<1> QED
  BY <1>5, <1>8, <1>9

(* Taking the task at the right end leaves the front. *)
LEMMA TakeRightIsFront ==
    ASSUME RingInv, right > left, left' = left, right' = right - 1, store' = store
    PROVE  /\ Items # <<>>
           /\ Items' = SubSeq(Items, 1, Len(Items) - 1)
           /\ store[Slot(right - 1)] = Items[Len(Items)]
<1>1. left \in Nat /\ right \in Nat /\ Size \in Nat
  BY DEF RingInv, RingOK, Size
<1>2. \A i \in left..((right - 1) - 1) : store[Slot(i)] \in Tasks
  BY <1>1 DEF RingInv, RingOK, Conserved, Cursors, At
<1>3. Items' = Window(left, right - 1, store)
  BY DEF Items, Window, At, Size, Slot
<1>4. /\ Items' \in Seq(Tasks)
      /\ Len(Items') = Size - 1
      /\ \A k \in 1..(Size - 1) : Items'[k] = store[Slot(left + k - 1)]
  <2>1. right - 1 \in Nat /\ left <= right - 1
    BY <1>1
  <2> QED
    BY <1>1, <1>2, <1>3, <2>1, WindowProperties DEF Size
<1>5. Items # <<>>
  BY <1>1, ItemsProperties DEF Size
<1>6. /\ SubSeq(Items, 1, Size - 1) \in Seq(Tasks)
      /\ Len(SubSeq(Items, 1, Size - 1)) = Size - 1
      /\ \A k \in 1..(Size - 1) : SubSeq(Items, 1, Size - 1)[k] = Items[k]
  <2>1. \A k \in 1..(Size - 1) : Items[k] \in Tasks
    BY <1>1, ItemsProperties, ElementOfSeq
  <2> QED
    BY <1>1, <2>1, SubSeqProperties DEF Size
<1>7. \A k \in 1..(Size - 1) : Items'[k] = SubSeq(Items, 1, Size - 1)[k]
  BY <1>1, <1>4, <1>6, ItemsProperties DEF Size
<1>8. Items' = SubSeq(Items, 1, Size - 1)
  BY <1>4, <1>6, <1>7, SeqEqual
<1>9. Items[Size] = store[Slot(right - 1)]
  BY <1>1, ItemsProperties DEF Size
<1> QED
  BY <1>5, <1>8, <1>9, ItemsProperties

-----------------------------------------------------------------------------
(* The initial states and the steps. *)

(* A new ring buffer is an empty sequence. *)
LEMMA RefinesInit == Init => Deque!Init
<1> SUFFICES ASSUME Init PROVE Deque!Init
  OBVIOUS
<1>1. Items = [k \in {} |-> At(left + k - 1)]
  <2>1. 1..Size = {}
    BY DEF Init, Size
  <2> QED
    BY <2>1 DEF Items
<1>2. Items = <<>>
  BY <1>1
<1> QED
  BY <1>2 DEF Init, Deque!Init, Answer, Deque!Answer

(* Every method of the ring buffer acts as the same method of the abstract *)
(* deque, and every other step leaves that deque alone.                    *)
LEMMA RefinesNext == IInv /\ [Next]_vars => [Deque!Next]_(Deque!vars)
<1> SUFFICES ASSUME IInv, [Next]_vars
             PROVE  Deque!Next \/ UNCHANGED Deque!vars
  OBVIOUS
<1>0. RingInv /\ Size \in Nat /\ left \in Nat /\ right \in Nat /\ Len(Items) = Size
  <2>1. RingInv
    BY DEF IInv, TypeOK, RingInv, RingOK
  <2> QED
    BY <2>1, ItemsProperties DEF RingInv, RingOK, Size
<1>1. ASSUME UNCHANGED ring
      PROVE  Items' = Items
  BY <1>1 DEF ring, Items, At, Size, Slot
<1>2. ASSUME NEW t \in Fresh, Push(t)
      PROVE  Deque!Next
  <2>1. Deque!Push(t)
    BY <1>0, <1>2, PushAppends DEF Push, Write, Deque!Push, Answer, Deque!Answer
  <2> QED
    BY <2>1 DEF Deque!Next, Fresh
<1>3. ASSUME PushOverflow
      PROVE  Deque!Next
  <2>1. Deque!PushOverflow
    BY <1>0, <1>1, <1>3 DEF PushOverflow, Deque!PushOverflow, Answer, Deque!Answer
  <2> QED
    BY <2>1 DEF Deque!Next
<1>4. ASSUME NEW op \in {"pop", "steal"}, FindEmpty(op)
      PROVE  Deque!Next
  <2>1. Size = 0
    BY <1>0, <1>4 DEF FindEmpty, Size, RingInv, RingOK
  <2>2. Items = <<>>
    BY <1>0, <2>1, ItemsProperties, EmptySeq
  <2>3. Deque!FindEmpty
    BY <1>1, <1>4, <2>2 DEF FindEmpty, Deque!FindEmpty, Answer, Deque!Answer
  <2> QED
    BY <2>3 DEF Deque!Next
<1>5. HoldsBack <=> Deque!HoldsBack
  BY <1>0 DEF HoldsBack, Deque!HoldsBack
<1>6. ASSUME PopRefused
      PROVE  Deque!Next
  <2>1. Items # <<>>
    BY <1>0, <1>6 DEF PopRefused, Size
  <2>2. Deque!PopRefused
    BY <1>1, <1>5, <1>6, <2>1 DEF PopRefused, Deque!PopRefused, Answer, Deque!Answer
  <2> QED
    BY <2>2 DEF Deque!Next
<1>7. ASSUME PopLast \/ PopNewest
      PROVE  Deque!Next
  <2>1. right > left /\ ~HoldsBack
    BY <1>0, <1>7 DEF PopLast, PopNewest, Size
  <2>2. /\ Items # <<>>
        /\ Items' = SubSeq(Items, 1, Len(Items) - 1)
        /\ result' = Answer("pop", Items[Len(Items)])
    <3>1. CASE PopNewest
      BY <1>0, <2>1, <3>1, TakeRightIsFront DEF PopNewest, HandOut
    <3>2. CASE PopLast
      <4>1. /\ Items # <<>>
            /\ Items' = Tail(Items)
            /\ result' = Answer("pop", Head(Items))
        BY <1>0, <2>1, <3>2, TakeLeftIsTail DEF PopLast, HandOut
      <4>2. Len(Items) = 1
        BY <1>0, <3>2 DEF PopLast
      <4>3. Tail(Items) = SubSeq(Items, 2, Len(Items))
        BY <1>0, <4>1, ItemsProperties, TailIsSubSeq
      <4>4. Tail(Items) = <<>> /\ SubSeq(Items, 1, Len(Items) - 1) = <<>>
        BY <4>2, <4>3, SubSeqEmpty
      <4>5. Head(Items) = Items[Len(Items)]
        BY <1>0, <4>1, <4>2, ItemsProperties
      <4> QED
        BY <4>1, <4>4, <4>5
    <3> QED
      BY <1>7, <3>1, <3>2
  <2>3. Deque!Pop
    BY <1>5, <2>1, <2>2 DEF Deque!Pop, Answer, Deque!Answer
  <2> QED
    BY <2>3 DEF Deque!Next
<1>8. ASSUME StealOldest
      PROVE  Deque!Next
  <2>1. /\ Items # <<>>
        /\ Items' = Tail(Items)
        /\ result' = Answer("steal", Head(Items))
    BY <1>0, <1>8, TakeLeftIsTail DEF StealOldest, HandOut
  <2>2. Deque!Steal
    BY <2>1 DEF Deque!Steal, Answer, Deque!Answer
  <2> QED
    BY <2>2 DEF Deque!Next
<1>9. ASSUME UNCHANGED <<ring, result>>
      PROVE  UNCHANGED Deque!vars
  BY <1>1, <1>9 DEF Deque!vars
<1>10. CASE WiringPush
  BY <1>2, <1>3, <1>10 DEF WiringPush
<1>11. CASE StartRun \/ WorkerDone \/ StealElsewhere \/ EndRun
  BY <1>9, <1>11 DEF StartRun, WorkerDone, StealElsewhere, EndRun
<1>12. CASE WorkerPush \/ WorkerPushFails
  BY <1>2, <1>3, <1>12 DEF WorkerPush, WorkerPushFails
<1>13. CASE WorkerPop \/ WorkerPopRefused \/ WorkerPopEmpty
  BY <1>4, <1>6, <1>7, <1>13 DEF WorkerPop, WorkerPopRefused, WorkerPopEmpty
<1>14. CASE StealByOther
  BY <1>4, <1>8, <1>14 DEF StealByOther
<1>15. CASE UNCHANGED vars
  BY <1>9, <1>15 DEF vars, ring
<1> QED
  BY <1>10, <1>11, <1>12, <1>13, <1>14, <1>15 DEF Next

(* The ring buffer of src/natsune/deque.py implements the two-ended        *)
(* sequence, for every capacity and reserve.                               *)
THEOREM Refinement == Spec => ImplementsDeque
BY RefinesInit, RefinesNext, Invariant, PTL DEF Spec, ImplementsDeque, Deque!Spec

=============================================================================
