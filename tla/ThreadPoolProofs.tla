---------------------------- MODULE ThreadPoolProofs ----------------------------
(***************************************************************************)
(* Proofs about ThreadPool for every number of workers, every net and      *)
(* every size of the queues: a worker that executes a pair has room for    *)
(* its pushes although the others steal from it; and who leaves a run.     *)
(***************************************************************************)
EXTENDS ThreadPool, SequenceTheorems, TLAPS

Places == {"unstarted", "pop", "steal", "take", "connect", "push", "signal", "failed", "exited"}

Types ==
    /\ graph \in Graphs
    /\ queues \in [Workers -> Seq(Pairs)]
    /\ pc \in [Workers -> Places]
    /\ idx \in [Workers -> Workers]
    /\ hand \in [Workers -> Pairs \cup {Nothing}]
    /\ todo \in [Workers -> Seq(Pairs)]
    /\ endEvent \in BOOLEAN

(* While the caller fills the queues, nobody executes a pair. *)
WiringAlone == main = "wiring" => \A w \in Workers : pc[w] = "unstarted"

(* A thief steals from the others, and only when its own queue is empty;   *)
(* only its owner would fill it again.                                     *)
Hungry(w) == pc[w] = "steal" => queues[w] = <<>> /\ idx[w] # w

HandFull(w) ==
    /\ pc[w] \in {"take", "connect", "push"} => hand[w] \in Pairs
    /\ pc[w] = "push" => todo[w] # <<>>

RoomToTake(w) == pc[w] = "take" => Len(queues[w]) + MaxReentrant <= Capacity

WithinReserve(w) == Len(graph.connects[hand[w]]) <= MaxReentrant

RoomToPush(w) ==
    pc[w] \in {"connect", "push"} /\ WithinReserve(w)
        => Len(queues[w]) + Len(todo[w]) <= Capacity

Safe(w) == Hungry(w) /\ HandFull(w) /\ RoomToTake(w) /\ RoomToPush(w)

IInv == Types /\ WiringAlone /\ \A w \in Workers : Safe(w)

LEMMA Sizes ==
    /\ N \in Nat /\ N >= 1
    /\ Capacity \in Nat /\ MaxReentrant \in Nat /\ MaxReentrant <= Capacity
BY PoolAssumption

LEMMA Nets == \A g \in Graphs : g.initial \subseteq Pairs /\ g.connects \in [Pairs -> Seq(Pairs)]
BY PoolAssumption

(* The next worker around is a worker, and another one if there are two.   *)
LEMMA NextWorker ==
    ASSUME NEW w \in Workers
    PROVE  /\ (w + 1) % N \in Workers
           /\ N # 1 => (w + 1) % N # w
<1>1. N \in Nat /\ N >= 1 /\ w \in Int /\ 0 <= w /\ w < N
  BY Sizes DEF Workers
<1>2. (w + 1) % N \in 0..(N - 1)
  BY <1>1
<1>3. CASE w + 1 = N
  <2>1. (w + 1) % N = 0
    BY <1>1, <1>3
  <2> QED
    BY <1>1, <1>2, <1>3, <2>1 DEF Workers
<1>4. CASE w + 1 < N
  <2>1. (w + 1) % N = w + 1
    BY <1>1, <1>4
  <2> QED
    BY <1>1, <1>2, <2>1 DEF Workers
<1> QED
  BY <1>1, <1>3, <1>4

-----------------------------------------------------------------------------
LEMMA InitIsSafe == Init => IInv
<1> SUFFICES ASSUME Init PROVE IInv
  OBVIOUS
<1>1. \A w \in Workers : pc[w] = "unstarted"
  BY DEF Init
<1>2. Types
  <2>1. queues \in [Workers -> Seq(Pairs)]
    BY DEF Init
  <2>2. pc \in [Workers -> Places] /\ idx \in [Workers -> Workers]
    BY DEF Init, Places
  <2>3. hand \in [Workers -> Pairs \cup {Nothing}]
    BY DEF Init
  <2>4. todo \in [Workers -> Seq(Pairs)]
    BY DEF Init
  <2>5. graph \in Graphs /\ endEvent \in BOOLEAN
    BY DEF Init
  <2> QED
    BY <2>1, <2>2, <2>3, <2>4, <2>5 DEF Types
<1> QED
  BY <1>1, <1>2 DEF IInv, WiringAlone, Safe, Hungry, HandFull, RoomToTake, RoomToPush

(* What a pair still needs, it does not need more of. *)
LEMMA RoomKept ==
    ASSUME NEW v \in Workers, Types, Types', RoomToPush(v), graph' = graph, hand'[v] = hand[v],
           pc'[v] \in {"connect", "push"} => pc[v] \in {"connect", "push"},
           Len(queues'[v]) + Len(todo'[v]) <= Len(queues[v]) + Len(todo[v])
    PROVE  RoomToPush(v)'
<1> SUFFICES ASSUME pc'[v] \in {"connect", "push"}, WithinReserve(v)'
             PROVE  Len(queues'[v]) + Len(todo'[v]) <= Capacity
  BY DEF RoomToPush
<1>1. WithinReserve(v)
  BY DEF WithinReserve
<1>2. Len(queues[v]) + Len(todo[v]) <= Capacity
  BY <1>1 DEF RoomToPush
<1>3. /\ Len(queues[v]) \in Nat /\ Len(queues'[v]) \in Nat
      /\ Len(todo[v]) \in Nat /\ Len(todo'[v]) \in Nat
  BY DEF Types
<1>4. Len(queues'[v]) + Len(todo'[v]) <= Len(queues[v]) + Len(todo[v])
  OBVIOUS
<1> DEFINE a == Len(queues'[v])
           b == Len(todo'[v])
           c == Len(queues[v])
           d == Len(todo[v])
<1>5. a \in Nat /\ b \in Nat /\ c \in Nat /\ d \in Nat /\ c + d <= Capacity /\ a + b <= c + d
  BY <1>2, <1>3, <1>4
<1> HIDE DEF a, b, c, d
<1>6. a + b <= Capacity
  BY <1>5, Sizes
<1> QED
  BY <1>6 DEF a, b

(* The caller touches the queues before any worker starts. *)
LEMMA MainKeepsSafe == ASSUME IInv, MainStep PROVE IInv'
<1>1. CASE \E p \in graph.initial : WirePair(p)
  <2>1. PICK p \in graph.initial : WirePair(p)
    BY <1>1
  <2>2. p \in Pairs
    BY Nets DEF IInv, Types
  <2>3. /\ queues' = queues \/ \E w \in Workers : queues' = [queues EXCEPT ![w] = Append(@, p)]
        /\ UNCHANGED <<graph, pc, idx, hand, todo, endEvent>>
    BY <2>1 DEF WirePair
  <2>4. queues' \in [Workers -> Seq(Pairs)]
    <3>1. queues \in [Workers -> Seq(Pairs)]
      BY DEF IInv, Types
    <3>2. ASSUME NEW w \in Workers, queues' = [queues EXCEPT ![w] = Append(@, p)]
          PROVE  queues' \in [Workers -> Seq(Pairs)]
      <4>1. Append(queues[w], p) \in Seq(Pairs)
        BY <2>2, <3>1
      <4> QED
        BY <3>1, <3>2, <4>1
    <3> QED
      BY <2>3, <3>1, <3>2
  <2>5. Types'
    BY <2>3, <2>4 DEF IInv, Types
  <2>6. \A w \in Workers : pc'[w] = "unstarted"
    BY <2>1 DEF IInv, WiringAlone, WirePair
  <2> QED
    BY <2>5, <2>6 DEF IInv, WiringAlone, Safe, Hungry, HandFull, RoomToTake, RoomToPush
<1>2. CASE \E w \in Workers : Submit(w)
  <2>1. PICK w \in Workers : Submit(w)
    BY <1>2
  <2>2. /\ pc' = [pc EXCEPT ![w] = "pop"]
        /\ main' # "wiring"
        /\ UNCHANGED <<graph, queues, idx, hand, todo, endEvent>>
    BY <2>1 DEF Submit, Goto, net
  <2>3. Types'
    BY <2>2 DEF IInv, Types, Places
  <2>4. \A v \in Workers : pc'[v] \in {pc[v], "pop"}
    BY <2>2 DEF IInv, Types
  <2>5. ASSUME NEW v \in Workers
        PROVE  Safe(v)'
    <3>1. CASE pc'[v] = "pop"
      BY <3>1 DEF Safe, Hungry, HandFull, RoomToTake, RoomToPush
    <3>2. CASE pc'[v] = pc[v]
      <4>1. Safe(v) /\ Types
        BY DEF IInv
      <4>2. Len(queues'[v]) + Len(todo'[v]) <= Len(queues[v]) + Len(todo[v])
        BY <2>2, <4>1 DEF Types
      <4>3. RoomToPush(v)'
        BY <2>2, <2>3, <3>2, <4>1, <4>2, RoomKept DEF Safe
      <4> QED
        BY <2>2, <3>2, <4>1, <4>3 DEF Safe, Hungry, HandFull, RoomToTake
    <3> QED
      BY <2>4, <3>1, <3>2
  <2> QED
    BY <2>2, <2>3, <2>5 DEF IInv, WiringAlone
<1>3. CASE Return
  BY <1>3 DEF IInv, Types, WiringAlone, Safe, Hungry, HandFull, RoomToTake, RoomToPush,
       Return, net
<1> QED
  BY <1>1, <1>2, <1>3 DEF MainStep

(* What a worker does leaves the others safe, as long as it only shortens  *)
(* their queues.                                                           *)
Undisturbed(v) ==
    /\ pc'[v] = pc[v] /\ idx'[v] = idx[v] /\ hand'[v] = hand[v] /\ todo'[v] = todo[v]
    /\ Len(queues'[v]) <= Len(queues[v])
    /\ queues[v] = <<>> => queues'[v] = <<>>

LEMMA LocalStep ==
    ASSUME IInv, NEW w \in Workers, pc[w] # "unstarted", UNCHANGED <<graph, main>>,
           Types', Safe(w)', \A v \in Workers \ {w} : Undisturbed(v)
    PROVE  IInv'
<1>1. WiringAlone'
  BY DEF IInv, WiringAlone
<1>2. ASSUME NEW v \in Workers \ {w}
      PROVE  Safe(v)'
  <2>1. Len(queues[v]) \in Nat /\ Len(queues'[v]) \in Nat /\ Len(todo[v]) \in Nat
    BY DEF IInv, Types
  <2>2. Safe(v) /\ Undisturbed(v)
    BY DEF IInv
  <2>3. Hungry(v)' /\ HandFull(v)'
    BY <2>2 DEF Safe, Undisturbed, Hungry, HandFull
  <2>4. RoomToTake(v)'
    BY <2>1, <2>2, Sizes DEF Safe, Undisturbed, RoomToTake
  <2>5. RoomToPush(v)'
    <3>1. Len(queues'[v]) + Len(todo'[v]) <= Len(queues[v]) + Len(todo[v])
      BY <2>1, <2>2 DEF Undisturbed
    <3>2. RoomToPush(v) /\ Types
      BY <2>2 DEF IInv, Safe
    <3> QED
      BY <2>2, <3>1, <3>2, RoomKept DEF Undisturbed
  <2> QED
    BY <2>3, <2>4, <2>5 DEF Safe
<1> QED
  BY <1>1, <1>2 DEF IInv

LEMMA PopKeepsSafe == ASSUME IInv, NEW w \in Workers, Pop(w) PROVE IInv'
<1> DEFINE q == queues[w]
<1>1. q \in Seq(Pairs) /\ Len(q) \in Nat /\ pc[w] = "pop" /\ Types
  BY DEF IInv, Types, Pop
<1>2. UNCHANGED <<graph, main, todo, endEvent>>
  BY DEF Pop
<1>3. CASE q = <<>> /\ idx' = [idx EXCEPT ![w] = (w + 1) % N]
           /\ Goto(w, IF N = 1 THEN "signal" ELSE "steal") /\ UNCHANGED <<queues, hand>>
  <2>1. Types'
    BY <1>1, <1>2, <1>3, NextWorker DEF Types, Places, Goto
  <2>2. /\ pc'[w] \in {"signal", "steal"} /\ (pc'[w] = "steal" => N # 1)
        /\ idx'[w] = (w + 1) % N
        /\ \A v \in Workers \ {w} : pc'[v] = pc[v] /\ idx'[v] = idx[v]
    BY <1>1, <1>3 DEF Types, Goto
  <2>3. Safe(w)'
    BY <1>3, <2>2, NextWorker DEF Safe, Hungry, HandFull, RoomToTake, RoomToPush
  <2>4. \A v \in Workers \ {w} : Undisturbed(v)
    BY <1>1, <1>2, <1>3, <2>2 DEF Undisturbed, Types
  <2> QED
    BY <1>1, <1>2, <2>1, <2>3, <2>4, LocalStep
<1>4. CASE q # <<>> /\ HoldsBack(q) /\ Goto(w, "signal") /\ UNCHANGED <<queues, idx, hand>>
  <2>1. Types'
    BY <1>1, <1>2, <1>4 DEF Types, Places, Goto
  <2>2. pc'[w] = "signal" /\ \A v \in Workers \ {w} : pc'[v] = pc[v]
    BY <1>1, <1>4 DEF Types, Goto
  <2>3. Safe(w)'
    BY <2>2 DEF Safe, Hungry, HandFull, RoomToTake, RoomToPush
  <2>4. \A v \in Workers \ {w} : Undisturbed(v)
    BY <1>1, <1>2, <1>4, <2>2 DEF Undisturbed, Types
  <2> QED
    BY <1>1, <1>2, <2>1, <2>3, <2>4, LocalStep
<1>5. CASE q # <<>> /\ ~HoldsBack(q) /\ Take(w, q[Len(q)])
           /\ queues' = [queues EXCEPT ![w] = SubSeq(q, 1, Len(q) - 1)] /\ UNCHANGED idx
  <2>1. Len(q) >= 1 /\ q[Len(q)] \in Pairs
    BY <1>1, <1>5
  <2>2. SubSeq(q, 1, Len(q) - 1) \in Seq(Pairs) /\ Len(SubSeq(q, 1, Len(q) - 1)) = Len(q) - 1
    BY <1>1, <2>1
  <2>3. Len(q) - 1 + MaxReentrant <= Capacity
    BY <1>1, <1>5, Sizes DEF HoldsBack
  <2>4. queues' \in [Workers -> Seq(Pairs)]
    BY <1>1, <1>5, <2>2 DEF Types
  <2>5. Types'
    BY <1>1, <1>2, <1>5, <2>1, <2>4 DEF Types, Places, Take, Goto
  <2>6. /\ \A v \in Workers \ {w} : queues'[v] = queues[v] /\ pc'[v] = pc[v] /\ hand'[v] = hand[v]
        /\ Len(queues'[w]) = Len(q) - 1 /\ pc'[w] = "take" /\ hand'[w] \in Pairs
    BY <1>1, <1>5, <2>1, <2>2 DEF Types, Take, Goto
  <2>7. Safe(w)'
    BY <2>3, <2>6 DEF Safe, Hungry, HandFull, RoomToTake, RoomToPush
  <2>8. \A v \in Workers \ {w} : Undisturbed(v)
    BY <1>1, <1>2, <1>5, <2>6 DEF Undisturbed, Types
  <2> QED
    BY <1>1, <1>2, <2>5, <2>7, <2>8, LocalStep
<1> QED
  BY <1>3, <1>4, <1>5 DEF Pop

(* A thief shortens the queue of another worker, and has room because its  *)
(* own is empty.                                                           *)
LEMMA StealKeepsSafe == ASSUME IInv, NEW w \in Workers, Steal(w) PROVE IInv'
<1> DEFINE q == queues[idx[w]]
<1>1. Types /\ idx[w] \in Workers /\ q \in Seq(Pairs) /\ Len(q) \in Nat /\ pc[w] = "steal"
  BY DEF IInv, Types, Steal
<1>2. queues[w] = <<>> /\ idx[w] # w
  BY <1>1 DEF IInv, Safe, Hungry
<1>3. UNCHANGED <<graph, main, todo, endEvent>>
  BY DEF Steal
<1>4. CASE endEvent
  <2>1. pc' = [pc EXCEPT ![w] = "pop"] /\ UNCHANGED <<queues, idx, hand>>
    BY <1>4 DEF Steal, Goto
  <2>2. Types'
    BY <1>1, <1>3, <2>1 DEF Types, Places
  <2>3. Safe(w)'
    BY <1>1, <2>1 DEF Types, Safe, Hungry, HandFull, RoomToTake, RoomToPush
  <2>4. \A v \in Workers \ {w} : Undisturbed(v)
    BY <1>1, <1>3, <2>1 DEF Undisturbed, Types
  <2> QED
    BY <1>1, <1>3, <2>2, <2>3, <2>4, LocalStep
<1>5. CASE ~endEvent /\ q = <<>>
  <2>1. /\ idx' = [idx EXCEPT ![w] = (idx[w] + 1) % N]
        /\ pc' = [pc EXCEPT ![w] = IF idx'[w] = w THEN "signal" ELSE "steal"]
        /\ UNCHANGED <<queues, hand>>
    BY <1>5 DEF Steal, Goto
  <2>2. (idx[w] + 1) % N \in Workers
    BY <1>1, NextWorker
  <2>3. Types'
    BY <1>1, <1>3, <2>1, <2>2 DEF Types, Places
  <2>4. /\ pc'[w] \in {"signal", "steal"} /\ (pc'[w] = "steal" => idx'[w] # w)
        /\ \A v \in Workers \ {w} : pc'[v] = pc[v] /\ idx'[v] = idx[v]
    BY <1>1, <2>1 DEF Types
  <2>5. Safe(w)'
    BY <1>2, <2>1, <2>4 DEF Safe, Hungry, HandFull, RoomToTake, RoomToPush
  <2>6. \A v \in Workers \ {w} : Undisturbed(v)
    BY <1>1, <1>3, <2>1, <2>4 DEF Undisturbed, Types
  <2> QED
    BY <1>1, <1>3, <2>3, <2>5, <2>6, LocalStep
<1>6. CASE ~endEvent /\ q # <<>>
  <2>1. Head(q) \in Pairs /\ Tail(q) \in Seq(Pairs) /\ Len(Tail(q)) = Len(q) - 1
    BY <1>1, <1>6
  <2>2. /\ queues' = [queues EXCEPT ![idx[w]] = Tail(q)]
        /\ hand' = [hand EXCEPT ![w] = Head(q)]
        /\ pc' = [pc EXCEPT ![w] = "take"]
        /\ UNCHANGED idx
    BY <1>6 DEF Steal, Take, Goto
  <2>3. queues' \in [Workers -> Seq(Pairs)]
    BY <1>1, <2>1, <2>2 DEF Types
  <2>4. Types'
    BY <1>1, <1>3, <2>1, <2>2, <2>3 DEF Types, Places
  <2>5. pc'[w] = "take" /\ hand'[w] \in Pairs /\ queues'[w] = <<>>
    BY <1>1, <1>2, <2>1, <2>2 DEF Types
  <2>6. Safe(w)'
    BY <2>5, Sizes DEF Safe, Hungry, HandFull, RoomToTake, RoomToPush
  <2>7. ASSUME NEW v \in Workers \ {w}
        PROVE  Undisturbed(v)
    <3>1. pc'[v] = pc[v] /\ idx'[v] = idx[v] /\ hand'[v] = hand[v] /\ todo'[v] = todo[v]
      BY <1>1, <1>3, <2>2 DEF Types
    <3>2. Len(queues[v]) \in Nat
      BY <1>1 DEF Types
    <3>3. queues'[v] = IF v = idx[w] THEN Tail(q) ELSE queues[v]
      BY <1>1, <2>2 DEF Types
    <3> QED
      BY <1>1, <1>6, <2>1, <3>1, <3>2, <3>3 DEF Undisturbed
  <2> QED
    BY <1>1, <1>3, <2>4, <2>6, <2>7, LocalStep
<1> QED
  BY <1>4, <1>5, <1>6

(* The room a pair was taken with is the room for what it pushes. *)
LEMMA BeginKeepsSafe == ASSUME IInv, NEW w \in Workers, Begin(w) PROVE IInv'
<1>1. Types /\ pc[w] = "take" /\ hand[w] \in Pairs
  BY DEF IInv, Begin, Safe, HandFull
<1>2. UNCHANGED <<graph, main, queues, idx, endEvent>>
  BY DEF Begin, net
<1>3. CASE endEvent
  <2>1. /\ pc' = [pc EXCEPT ![w] = "pop"] /\ hand' = [hand EXCEPT ![w] = Nothing]
        /\ todo' = todo
    BY <1>3 DEF Begin, Goto
  <2>2. Types'
    BY <1>1, <1>2, <2>1 DEF Types, Places
  <2>3. Safe(w)'
    BY <1>1, <2>1 DEF Types, Safe, Hungry, HandFull, RoomToTake, RoomToPush
  <2>4. \A v \in Workers \ {w} : Undisturbed(v)
    BY <1>1, <1>2, <2>1 DEF Undisturbed, Types
  <2> QED
    BY <1>1, <1>2, <2>2, <2>3, <2>4, LocalStep
<1>4. CASE ~endEvent
  <2>1. /\ pc' = [pc EXCEPT ![w] = "connect"]
        /\ todo' = [todo EXCEPT ![w] = graph.connects[hand[w]]]
        /\ hand' = hand
    BY <1>4 DEF Begin, Goto
  <2>2. graph.connects[hand[w]] \in Seq(Pairs)
    BY <1>1, Nets DEF Types
  <2>3. todo' \in [Workers -> Seq(Pairs)]
    BY <1>1, <2>1, <2>2 DEF Types
  <2>4. Types'
    BY <1>1, <1>2, <2>1, <2>3 DEF Types, Places
  <2>5. Len(queues[w]) + MaxReentrant <= Capacity /\ Len(queues[w]) \in Nat
    BY <1>1 DEF IInv, Safe, RoomToTake, Types
  <2>6. pc'[w] = "connect" /\ todo'[w] = graph.connects[hand[w]] /\ Len(todo'[w]) \in Nat
    BY <1>1, <2>1, <2>2 DEF Types
  <2>7. Safe(w)'
    <3>1. RoomToPush(w)'
      <4> SUFFICES ASSUME WithinReserve(w)'
                   PROVE  Len(queues'[w]) + Len(todo'[w]) <= Capacity
        BY DEF RoomToPush
      <4>1. Len(todo'[w]) <= MaxReentrant
        BY <1>2, <2>1, <2>6 DEF WithinReserve
      <4> DEFINE a == Len(queues'[w])
                 b == Len(todo'[w])
      <4>2. a \in Nat /\ b \in Nat /\ a + MaxReentrant <= Capacity /\ b <= MaxReentrant
        BY <1>2, <2>5, <2>6, <4>1
      <4> HIDE DEF a, b
      <4>3. a + b <= Capacity
        BY <4>2, Sizes
      <4> QED
        BY <4>3 DEF a, b
    <3> QED
      BY <1>1, <2>1, <2>6, <3>1 DEF Safe, Hungry, HandFull, RoomToTake
  <2>8. \A v \in Workers \ {w} : Undisturbed(v)
    BY <1>1, <1>2, <2>1 DEF Undisturbed, Types
  <2> QED
    BY <1>1, <1>2, <2>4, <2>7, <2>8, LocalStep
<1> QED
  BY <1>3, <1>4

(* A wire whose first end is connected is one push less to make. *)
LEMMA ConnectKeepsSafe == ASSUME IInv, NEW w \in Workers, Connect(w) PROVE IInv'
<1>1. Types /\ pc[w] = "connect" /\ todo[w] \in Seq(Pairs) /\ todo[w] # <<>>
  BY DEF IInv, Connect, Types
<1>2. Tail(todo[w]) \in Seq(Pairs) /\ Len(Tail(todo[w])) = Len(todo[w]) - 1 /\ Len(todo[w]) \in Nat
  BY <1>1
<1>3. /\ \/ todo' = [todo EXCEPT ![w] = Tail(@)] /\ pc' = pc
         \/ pc' = [pc EXCEPT ![w] = "push"] /\ todo' = todo
      /\ UNCHANGED <<graph, main, queues, idx, hand, endEvent>>
  BY DEF Connect, Goto
<1>4. todo' \in [Workers -> Seq(Pairs)] /\ pc' \in [Workers -> Places]
  <2>1. CASE todo' = [todo EXCEPT ![w] = Tail(@)] /\ pc' = pc
    BY <1>1, <1>2, <2>1 DEF Types
  <2>2. CASE pc' = [pc EXCEPT ![w] = "push"] /\ todo' = todo
    BY <1>1, <2>2 DEF Types, Places
  <2> QED
    BY <1>3, <2>1, <2>2
<1>5. Types'
  BY <1>1, <1>3, <1>4 DEF Types
<1>6. /\ Len(todo'[w]) <= Len(todo[w]) /\ Len(todo'[w]) \in Nat
      /\ (pc'[w] = "push" /\ todo'[w] # <<>>) \/ pc'[w] = "connect"
  BY <1>1, <1>2, <1>3 DEF Types
<1>7. Len(queues[w]) \in Nat /\ Safe(w)
  BY DEF IInv, Types
<1>8. Safe(w)'
  <2>1. Len(queues'[w]) + Len(todo'[w]) <= Len(queues[w]) + Len(todo[w])
    BY <1>2, <1>3, <1>6, <1>7
  <2>2. RoomToPush(w)'
    BY <1>1, <1>3, <1>5, <1>7, <2>1, RoomKept DEF Safe
  <2>3. Hungry(w)' /\ HandFull(w)' /\ RoomToTake(w)'
    BY <1>1, <1>3, <1>6, <1>7 DEF Safe, Hungry, HandFull, RoomToTake
  <2> QED
    BY <2>2, <2>3 DEF Safe
<1>9. \A v \in Workers \ {w} : Undisturbed(v)
  BY <1>1, <1>3 DEF Undisturbed, Types
<1> QED
  BY <1>1, <1>3, <1>5, <1>8, <1>9, LocalStep

(* Each push uses up one of the wires that remain. *)
LEMMA PushKeepsSafe == ASSUME IInv, NEW w \in Workers, Push(w) PROVE IInv'
<1>1. /\ Types /\ pc[w] = "push" /\ todo[w] \in Seq(Pairs) /\ todo[w] # <<>>
      /\ queues[w] \in Seq(Pairs) /\ Safe(w)
  BY DEF IInv, Push, Safe, HandFull, Types
<1>2. /\ Head(todo[w]) \in Pairs /\ Tail(todo[w]) \in Seq(Pairs)
      /\ Len(Tail(todo[w])) = Len(todo[w]) - 1 /\ Len(todo[w]) \in Nat
  BY <1>1
<1>3. /\ Append(queues[w], Head(todo[w])) \in Seq(Pairs)
      /\ Len(Append(queues[w], Head(todo[w]))) = Len(queues[w]) + 1 /\ Len(queues[w]) \in Nat
  BY <1>1, <1>2
<1>4. /\ queues' = [queues EXCEPT ![w] = Append(@, Head(todo[w]))]
      /\ todo' = [todo EXCEPT ![w] = Tail(@)]
      /\ pc' = [pc EXCEPT ![w] = "connect"]
      /\ UNCHANGED <<graph, main, idx, hand, endEvent>>
  BY DEF Push, Goto
<1>5. queues' \in [Workers -> Seq(Pairs)] /\ todo' \in [Workers -> Seq(Pairs)]
  BY <1>1, <1>2, <1>3, <1>4 DEF Types
<1>6. Types'
  BY <1>1, <1>4, <1>5 DEF Types, Places
<1>7. /\ Len(queues'[w]) = Len(queues[w]) + 1 /\ Len(todo'[w]) = Len(todo[w]) - 1
      /\ pc'[w] = "connect"
  BY <1>1, <1>2, <1>3, <1>4 DEF Types
<1>8. Safe(w)'
  <2>1. Len(queues'[w]) + Len(todo'[w]) <= Len(queues[w]) + Len(todo[w])
    <3> DEFINE a == Len(queues'[w])
               b == Len(todo'[w])
               c == Len(queues[w])
               d == Len(todo[w])
    <3>1. c \in Nat /\ d \in Nat /\ a = c + 1 /\ b = d - 1
      BY <1>2, <1>3, <1>7
    <3> HIDE DEF a, b, c, d
    <3>2. a + b <= c + d
      BY <3>1
    <3> QED
      BY <3>2 DEF a, b, c, d
  <2>2. RoomToPush(w)'
    BY <1>1, <1>4, <1>6, <2>1, RoomKept DEF Safe
  <2>3. Hungry(w)' /\ HandFull(w)' /\ RoomToTake(w)'
    BY <1>1, <1>4, <1>7 DEF Safe, Hungry, HandFull, RoomToTake
  <2> QED
    BY <2>2, <2>3 DEF Safe
<1>9. \A v \in Workers \ {w} : Undisturbed(v)
  BY <1>1, <1>4 DEF Undisturbed, Types
<1> QED
  BY <1>1, <1>4, <1>6, <1>8, <1>9, LocalStep

(* The other steps end the work on a pair, or none is in hand. *)
LEMMA OthersKeepSafe ==
    ASSUME IInv, NEW w \in Workers,
           Exit(w) \/ Finish(w) \/ Fail(w) \/ ReportFailure(w) \/ Signal(w)
    PROVE  IInv'
<1>1. Types
  BY DEF IInv
<1>2. /\ pc[w] # "unstarted"
      /\ \E place \in {"pop", "failed", "exited"} : pc' = [pc EXCEPT ![w] = place]
      /\ hand' = hand \/ hand' = [hand EXCEPT ![w] = Nothing]
      /\ endEvent' = endEvent \/ endEvent' = TRUE
      /\ UNCHANGED <<graph, main, queues, idx, todo>>
  BY DEF Exit, Finish, Fail, ReportFailure, Signal, Finished, Goto, net
<1>3. Types'
  <2>1. pc' \in [Workers -> Places]
    BY <1>1, <1>2 DEF Types, Places
  <2>2. hand' \in [Workers -> Pairs \cup {Nothing}]
    BY <1>1, <1>2 DEF Types
  <2>3. endEvent' \in BOOLEAN
    BY <1>1, <1>2 DEF Types
  <2> QED
    BY <1>1, <1>2, <2>1, <2>2, <2>3 DEF Types
<1>4. Safe(w)'
  BY <1>1, <1>2 DEF Types, Safe, Hungry, HandFull, RoomToTake, RoomToPush
<1>5. \A v \in Workers \ {w} : Undisturbed(v)
  BY <1>1, <1>2 DEF Undisturbed, Types
<1> QED
  BY <1>2, <1>3, <1>4, <1>5, LocalStep

LEMMA StepIsSafe == IInv /\ [Next]_vars => IInv'
<1> SUFFICES ASSUME IInv, [Next]_vars PROVE IInv'
  OBVIOUS
<1>1. CASE MainStep
  BY <1>1, MainKeepsSafe
<1>2. CASE \E w \in Workers : WorkerStep(w)
  BY <1>2, PopKeepsSafe, StealKeepsSafe, BeginKeepsSafe, ConnectKeepsSafe, PushKeepsSafe,
     OthersKeepSafe DEF WorkerStep
<1>3. CASE UNCHANGED vars
  BY <1>3 DEF vars, net, IInv, Types, WiringAlone, Safe, Hungry, HandFull, RoomToTake, RoomToPush,
              WithinReserve
<1> QED
  BY <1>1, <1>2, <1>3 DEF Next, Done

(* A worker that executes a pair has room for all its pushes, wherever it  *)
(* took the pair from (executor.py 94-122, deque.py 70-101).               *)
THEOREM RoomForPushes == Spec => []WorkerReserve
<1>1. IInv => WorkerReserve
  BY DEF IInv, Safe, RoomToTake, RoomToPush, WithinReserve, WorkerReserve
<1> QED
  BY <1>1, InitIsSafe, StepIsSafe, PTL DEF Spec

-----------------------------------------------------------------------------
(* Only the last worker reads the total, so nobody else leaves before the  *)
(* end event.                                                              *)
Stays == \A w \in Workers : pc[w] = "exited" => endEvent \/ w = N - 1

LEMMA InitStays == Init => Stays
BY DEF Init, Stays

(* A worker that exits has seen the event, sets it, or reads the total.    *)
LEMMA WorkerStays ==
    ASSUME Types, Stays, NEW w \in Workers, WorkerStep(w)
    PROVE  Stays'
<1>1. pc \in [Workers -> Places] /\ endEvent \in BOOLEAN
  BY DEF Types
<1> DEFINE Moves(place) ==
             /\ main' = main /\ pc[w] # "exited"
             /\ endEvent => endEvent'
             /\ pc' = [pc EXCEPT ![w] = place] \/ pc' = pc
             /\ place = "exited" => endEvent' \/ w = N - 1
<1>2. \E place \in Places : Moves(place)
  <2>1. CASE Exit(w)
    <3>1. Moves("exited")
      BY <2>1 DEF Exit, Goto, net
    <3> QED
      BY <3>1 DEF Places
  <2>2. CASE Pop(w)
    <3>1. Moves("steal") \/ Moves("signal") \/ Moves("take")
      BY <2>2 DEF Pop, Take, Goto
    <3> QED
      BY <3>1 DEF Places
  <2>3. CASE Steal(w)
    <3>1. Moves("steal") \/ Moves("signal") \/ Moves("take") \/ Moves("pop")
      BY <2>3 DEF Steal, Take, Goto
    <3> QED
      BY <3>1 DEF Places
  <2>4. CASE Begin(w) \/ Connect(w) \/ Push(w)
    <3>1. Moves("pop") \/ Moves("connect") \/ Moves("push")
      BY <2>4 DEF Begin, Connect, Push, Goto, net
    <3> QED
      BY <3>1 DEF Places
  <2>5. CASE Finish(w) \/ Fail(w)
    <3>1. Moves("pop") \/ Moves("failed")
      BY <2>5 DEF Finish, Fail, Goto, net
    <3> QED
      BY <3>1 DEF Places
  <2>6. CASE ReportFailure(w)
    <3>1. Moves("exited")
      BY <2>6 DEF ReportFailure, Goto, net
    <3> QED
      BY <3>1 DEF Places
  <2>7. CASE Signal(w)
    <3>1. w \in Int /\ N \in Int
      BY Sizes DEF Workers
    <3>2. CASE w + 1 = N
      <4>1. Moves("exited")
        BY <2>7, <3>1, <3>2 DEF Signal, Goto, net
      <4> QED
        BY <4>1 DEF Places
    <3>3. CASE w + 1 # N
      <4>1. Moves("pop")
        BY <2>7, <3>1, <3>3 DEF Signal, Goto, net
      <4> QED
        BY <4>1 DEF Places
    <3> QED
      BY <3>2, <3>3
  <2> QED
    BY <2>1, <2>2, <2>3, <2>4, <2>5, <2>6, <2>7 DEF WorkerStep
<1>3. PICK place \in Places : Moves(place)
  BY <1>2
<1>4. \A v \in Workers : pc'[v] = pc[v] \/ (v = w /\ pc'[v] = place)
  BY <1>1, <1>3
<1> QED
  BY <1>3, <1>4 DEF Stays

LEMMA StepStays == IInv /\ Stays /\ [Next]_vars => Stays'
<1> SUFFICES ASSUME IInv, Stays, [Next]_vars PROVE Stays'
  OBVIOUS
<1>0. Types
  BY DEF IInv
<1>1. CASE MainStep
  <2>1. CASE \E p \in graph.initial : WirePair(p)
    BY <2>1 DEF WirePair, Stays
  <2>2. CASE \E w \in Workers : Submit(w)
    BY <1>0, <2>2 DEF Submit, Goto, Types, Stays
  <2>3. CASE Return
    BY <2>3 DEF Return, Stays
  <2> QED
    BY <1>1, <2>1, <2>2, <2>3 DEF MainStep
<1>2. CASE \E w \in Workers : WorkerStep(w)
  BY <1>0, <1>2, WorkerStays
<1>3. CASE UNCHANGED vars
  BY <1>3 DEF vars, net, Stays
<1> QED
  BY <1>1, <1>2, <1>3 DEF Next, Done

(* With three workers or more, as every pool has whose size is not chosen  *)
(* by its caller (executor.py 54-55), a queue that its owner will not      *)
(* empty keeps a thief until the end event, whatever the net pushes and    *)
(* however small the queues are (executor.py 94-131).  With fewer workers  *)
(* it may lose the last one.                                               *)
THEOREM ThievesRemain ==
    ASSUME N >= 3
    PROVE  Spec => []ThiefRemains
<1>1. Stays => ThiefRemains
  <2> SUFFICES ASSUME Stays, ~endEvent, NEW w \in Workers
               PROVE  \E v \in Workers \ {w} : pc[v] # "exited"
    BY DEF ThiefRemains
  <2>1. \A v \in Workers : v # N - 1 => pc[v] # "exited"
    BY DEF Stays
  <2>2. {0, 1} \subseteq Workers /\ N - 1 \notin {0, 1}
    BY Sizes DEF Workers
  <2>3. 0 # w \/ 1 # w
    OBVIOUS
  <2> QED
    BY <2>1, <2>2, <2>3
<1> QED
  BY <1>1, InitIsSafe, StepIsSafe, InitStays, StepStays, PTL DEF Spec
=============================================================================
