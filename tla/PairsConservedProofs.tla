-------------------------- MODULE PairsConservedProofs --------------------------
(***************************************************************************)
(* Proof that the pool neither loses nor doubles a pair, for every number  *)
(* of workers and every linear net: a pair that was made is at one place,  *)
(* and every step of a worker moves it from there to another.  That a wire *)
(* makes one pair only needs what is left of its ends to be counted.       *)
(***************************************************************************)
EXTENDS ThreadPoolProofs, FiniteSetTheorems

Elems(s) == {s[i] : i \in DOMAIN s}

Distinct(s) == \A i, j \in DOMAIN s : s[i] = s[j] => i = j

QueuesOf(p) == {w \in Workers : p \in Elems(queues[w])}

(* A pair that was made is at one place, the others are nowhere. *)
Nowhere(p) == QueuesOf(p) = {} /\ HeldBy(p) = {} /\ MadeBy(p) = {} /\ OverBy(p) = {}

Queued(p) == (\E w \in Workers : QueuesOf(p) = {w}) /\ HeldBy(p) = {} /\ MadeBy(p) = {} /\ OverBy(p) = {}

Held(p) == (\E w \in Workers : HeldBy(p) = {w}) /\ QueuesOf(p) = {} /\ MadeBy(p) = {} /\ OverBy(p) = {}

Made(p) == (\E w \in Workers : MadeBy(p) = {w}) /\ QueuesOf(p) = {} /\ HeldBy(p) = {} /\ OverBy(p) = {}

Over(p) == (\E h \in {"executed", "dropped"} : OverBy(p) = {h})
              /\ QueuesOf(p) = {} /\ HeldBy(p) = {} /\ MadeBy(p) = {}

Placed(p) ==
    IF connected[p] = 2 THEN Queued(p) \/ Held(p) \/ Made(p) \/ Over(p) ELSE Nowhere(p)

(* What a worker still has to connect is the end of what its pair causes.  *)
Active(w) == pc[w] \in {"connect", "push"}

Causes(w) == graph.connects[hand[w]]

Passed(w) == Len(Causes(w)) - Len(todo[w]) + (IF pc[w] = "push" THEN 1 ELSE 0)

Ready(w) ==
    /\ hand[w] \in Pairs <=> pc[w] \in {"take", "connect", "push"}
    /\ pc[w] \in {"unstarted", "pop", "steal", "take", "signal"} => todo[w] = <<>>
    /\ Active(w) =>
          /\ Len(todo[w]) <= Len(Causes(w))
          /\ \A k \in 1..Len(todo[w]) : todo[w][k] = Causes(w)[Len(Causes(w)) - Len(todo[w]) + k]

(* The ends of a wire that may still be connected. *)
Left(p) ==
    {e \in Ends(graph, p) :
        /\ e[1] \notin executed
        /\ \A w \in Workers : Active(w) /\ hand[w] = e[1] => e[2] > Passed(w)}

EndsLeft(p) ==
    /\ connected[p] = 1 => \A x, y \in Left(p) : x = y
    /\ connected[p] = 2 => Left(p) = {}

Conserved ==
    /\ connected \in [Pairs -> 0..2]
    /\ \A w \in Workers : Ready(w) /\ Len(queues[w]) <= Capacity /\ Distinct(queues[w])
    /\ \A p \in Pairs : Placed(p) /\ EndsLeft(p)
    /\ dropped # {} => endEvent

(* The caller that failed to wire its net runs no workers. *)
CInv == IInv /\ (dropped # {} => endEvent) /\ (main # "raised" => Conserved)

-----------------------------------------------------------------------------
(* Sequences without duplicates. *)
LEMMA AppendElems ==
    ASSUME NEW s \in Seq(Pairs), NEW p \in Pairs
    PROVE  /\ Elems(Append(s, p)) = Elems(s) \cup {p}
           /\ Distinct(s) /\ p \notin Elems(s) => Distinct(Append(s, p))
           /\ Len(Append(s, p)) = Len(s) + 1
<1>1. /\ Len(s) \in Nat /\ DOMAIN s = 1..Len(s) /\ DOMAIN Append(s, p) = 1..(Len(s) + 1)
      /\ Append(s, p)[Len(s) + 1] = p /\ \A i \in 1..Len(s) : Append(s, p)[i] = s[i]
      /\ Len(Append(s, p)) = Len(s) + 1
  OBVIOUS
<1>2. \A i \in 1..(Len(s) + 1) : i = Len(s) + 1 \/ i \in 1..Len(s)
  BY <1>1
<1>3. Len(s) + 1 \in 1..(Len(s) + 1) /\ \A i \in 1..Len(s) : i \in 1..(Len(s) + 1)
  BY <1>1
<1>4. Elems(Append(s, p)) = Elems(s) \cup {p}
  BY <1>1, <1>2, <1>3 DEF Elems
<1>5. Distinct(s) /\ p \notin Elems(s) => Distinct(Append(s, p))
  BY <1>1, <1>2 DEF Elems, Distinct
<1> QED
  BY <1>1, <1>4, <1>5

LEMMA Indices ==
    ASSUME NEW n \in Nat, n >= 1
    PROVE  /\ 1 \in 1..n /\ n \in 1..n
           /\ \A i \in 1..n : i = n \/ i \in 1..(n - 1)
           /\ \A i \in 1..n : i # 1 => i - 1 \in 1..(n - 1) /\ (i - 1) + 1 = i
           /\ \A i \in 1..(n - 1) : i \in 1..n /\ i # n /\ i + 1 \in 1..n /\ i + 1 # 1
OBVIOUS

LEMMA FrontElems ==
    ASSUME NEW s \in Seq(Pairs), s # <<>>, Distinct(s)
    PROVE  LET r == SubSeq(s, 1, Len(s) - 1) IN
           /\ r \in Seq(Pairs) /\ Len(r) = Len(s) - 1
           /\ s[Len(s)] \in Pairs /\ s[Len(s)] \in Elems(s)
           /\ Elems(r) = Elems(s) \ {s[Len(s)]} /\ Distinct(r)
<1> DEFINE r == SubSeq(s, 1, Len(s) - 1)
           n == Len(s)
<1>1. n \in Nat /\ n >= 1 /\ DOMAIN s = 1..n /\ s[n] \in Pairs
  OBVIOUS
<1>2. /\ r \in Seq(Pairs) /\ Len(r) = n - 1 /\ DOMAIN r = 1..(n - 1)
      /\ \A i \in 1..(n - 1) : r[i] = s[i]
  <2> DEFINE m == n - 1
  <2>1. m \in Int /\ m \in Nat /\ \A i \in 1..m : s[i] \in Pairs
    BY <1>1
  <2>2. /\ r \in Seq(Pairs) /\ Len(r) = IF 1 <= m THEN m - 1 + 1 ELSE 0
        /\ \A i \in 1..(m - 1 + 1) : r[i] = s[1 + i - 1]
    BY <2>1, SubSeqProperties
  <2> HIDE DEF r, m
  <2>3. Len(r) = m /\ \A i \in 1..m : r[i] = s[i]
    BY <2>1, <2>2
  <2> QED
    BY <2>2, <2>3 DEF m
<1> HIDE DEF r
<1>3. \A i \in 1..n : i = n \/ i \in 1..(n - 1)
  BY <1>1, Indices
<1>4. n \in 1..n /\ \A i \in 1..(n - 1) : i \in 1..n /\ i # n
  BY <1>1, Indices
<1>5. Elems(r) = Elems(s) \ {s[n]}
  <2>1. \A i \in 1..n : s[i] = s[n] => i = n
    BY <1>1, <1>4 DEF Distinct
  <2> QED
    BY <1>1, <1>2, <1>3, <1>4, <2>1 DEF Elems
<1>6. Distinct(r)
  BY <1>1, <1>2, <1>4 DEF Distinct
<1> QED
  BY <1>1, <1>2, <1>4, <1>5, <1>6 DEF r, Elems

LEMMA TailElems ==
    ASSUME NEW s \in Seq(Pairs), s # <<>>, Distinct(s)
    PROVE  /\ Tail(s) \in Seq(Pairs) /\ Len(Tail(s)) = Len(s) - 1
           /\ Head(s) \in Pairs /\ Head(s) \in Elems(s)
           /\ Elems(Tail(s)) = Elems(s) \ {Head(s)} /\ Distinct(Tail(s))
<1> DEFINE r == Tail(s)
           n == Len(s)
<1>1. n \in Nat /\ n >= 1 /\ DOMAIN s = 1..n /\ s[1] \in Pairs /\ Head(s) = s[1]
  OBVIOUS
<1>2. /\ r \in Seq(Pairs) /\ Len(r) = n - 1 /\ DOMAIN r = 1..(n - 1)
      /\ \A i \in 1..(n - 1) : r[i] = s[i + 1]
  BY <1>1
<1> HIDE DEF r
<1>3. \A i \in 1..n : i # 1 => i - 1 \in 1..(n - 1) /\ (i - 1) + 1 = i
  BY <1>1, Indices
<1>4. 1 \in 1..n /\ \A i \in 1..(n - 1) : i + 1 \in 1..n /\ i + 1 # 1
  BY <1>1, Indices
<1>5. \A i \in 1..n : i # 1 => s[i] = r[i - 1]
  BY <1>2, <1>3
<1>6. Elems(r) = Elems(s) \ {s[1]}
  <2>1. \A i \in 1..n : s[i] = s[1] => i = 1
    BY <1>1, <1>4 DEF Distinct
  <2>2. \A i \in 1..n : i # 1 => s[i] \in Elems(r)
    BY <1>2, <1>3, <1>5 DEF Elems
  <2>3. \A i \in 1..(n - 1) : r[i] \in Elems(s) /\ r[i] # s[1]
    BY <1>1, <1>2, <1>4, <2>1 DEF Elems
  <2> QED
    BY <1>1, <1>2, <2>2, <2>3 DEF Elems
<1>7. Distinct(r)
  <2>1. \A i, j \in 1..(n - 1) : i + 1 = j + 1 => i = j
    BY <1>1
  <2> QED
    BY <1>1, <1>2, <1>4, <2>1 DEF Distinct
<1> QED
  BY <1>1, <1>2, <1>4, <1>6, <1>7 DEF r, Elems

-----------------------------------------------------------------------------
(* A step of one worker and what it leaves alone. *)
Making(w, p) == pc[w] \in {"push", "failed", "exited"} /\ todo[w] # <<>> /\ Head(todo[w]) = p

OthersRest(w) ==
    \A v \in Workers \ {w} : pc'[v] = pc[v] /\ hand'[v] = hand[v] /\ todo'[v] = todo[v]

Still(p) ==
    /\ QueuesOf(p)' = QueuesOf(p) /\ HeldBy(p)' = HeldBy(p)
    /\ MadeBy(p)' = MadeBy(p) /\ OverBy(p)' = OverBy(p)
    /\ connected'[p] = connected[p]

LEMMA StillPlaced == ASSUME NEW p \in Pairs, Placed(p), Still(p) PROVE Placed(p)'
BY DEF Placed, Still, Nowhere, Queued, Held, Made, Over

LEMMA QueuesStay ==
    ASSUME NEW p, NEW w \in Workers, \A v \in Workers \ {w} : queues'[v] = queues[v],
           p \in Elems(queues'[w]) <=> p \in Elems(queues[w])
    PROVE  QueuesOf(p)' = QueuesOf(p)
<1>1. \A v \in Workers : p \in Elems(queues'[v]) <=> p \in Elems(queues[v])
  OBVIOUS
<1> QED
  BY <1>1 DEF QueuesOf, Elems

LEMMA HandsStay ==
    ASSUME NEW p, NEW w \in Workers, OthersRest(w), hand'[w] = p <=> hand[w] = p
    PROVE  HeldBy(p)' = HeldBy(p)
<1>1. \A v \in Workers : hand'[v] = p <=> hand[v] = p
  BY DEF OthersRest
<1> QED
  BY <1>1 DEF HeldBy

LEMMA MakersAre == \A p : MadeBy(p) = {w \in Workers : Making(w, p)}
BY DEF MadeBy, Making

LEMMA MakersStay ==
    ASSUME NEW p, NEW w \in Workers, OthersRest(w), Making(w, p)' <=> Making(w, p)
    PROVE  MadeBy(p)' = MadeBy(p)
<1>1. \A v \in Workers : Making(v, p)' <=> Making(v, p)
  BY DEF OthersRest, Making
<1>2. MadeBy(p)' = {v \in Workers : Making(v, p)'}
  BY DEF MadeBy, Making
<1> QED
  BY <1>1, <1>2, MakersAre

LEMMA OverStays ==
    ASSUME NEW p, p \in executed' <=> p \in executed, p \in dropped' <=> p \in dropped
    PROVE  OverBy(p)' = OverBy(p)
BY DEF OverBy

(* Ends are only used up. *)
Onward(w) ==
    Active(w) => \/ hand[w] \in executed'
                 \/ Active(w)' /\ hand'[w] = hand[w] /\ Passed(w)' >= Passed(w)

LEMMA PassedTyped ==
    ASSUME Types, Types', UNCHANGED graph, NEW w \in Workers, hand[w] \in Pairs
    PROVE  /\ Passed(w) \in Int
           /\ hand'[w] = hand[w] => Passed(w)' \in Int
<1>1. graph \in Graphs /\ todo[w] \in Seq(Pairs) /\ todo'[w] \in Seq(Pairs)
  BY DEF Types
<1>2. Causes(w) \in Seq(Pairs)
  BY <1>1, Nets DEF Causes
<1>3. Len(Causes(w)) \in Nat /\ Len(todo[w]) \in Nat /\ Len(todo'[w]) \in Nat
  BY <1>1, <1>2
<1>4. hand'[w] = hand[w] => Causes(w)' = Causes(w)
  BY DEF Causes
<1>5. Passed(w) \in Int
  BY <1>3 DEF Passed
<1>6. ASSUME hand'[w] = hand[w]
      PROVE  Passed(w)' \in Int
  <2>1. Len(Causes(w)') \in Nat
    BY <1>3, <1>4, <1>6
  <2> QED
    BY <1>3, <2>1 DEF Passed
<1> QED
  BY <1>5, <1>6

LEMMA EndsAre ==
    ASSUME NEW g \in Graphs, NEW p
    PROVE  /\ \A e \in Ends(g, p) : /\ e[1] \in Pairs /\ e[2] \in Int /\ e = <<e[1], e[2]>>
                                    /\ e[2] \in DOMAIN g.connects[e[1]]
                                    /\ g.connects[e[1]][e[2]] = p
           /\ \A q \in Pairs : \A i \in DOMAIN g.connects[q] :
                  g.connects[q][i] = p => <<q, i>> \in Ends(g, p)
<1>1. ASSUME NEW e \in Ends(g, p)
      PROVE  \E q \in Pairs : \E i \in DOMAIN g.connects[q] : e = <<q, i>> /\ g.connects[q][i] = p
  BY <1>1 DEF Ends
<1>2. \A q \in Pairs : g.connects[q] \in Seq(Pairs)
  BY Nets
<1>3. \A q \in Pairs : \A i \in DOMAIN g.connects[q] : i \in Int
  BY <1>2
<1>4. \A q \in Pairs : \A i \in DOMAIN g.connects[q] :
          g.connects[q][i] = p => <<q, i>> \in Ends(g, p)
  BY DEF Ends
<1> QED
  BY <1>1, <1>3, <1>4

LEMMA LeftShrinks ==
    ASSUME Types, Types', NEW w \in Workers, OthersRest(w), Ready(w), Ready(w)', Onward(w),
           UNCHANGED graph, executed \subseteq executed', NEW p
    PROVE  Left(p)' \subseteq Left(p)
<1> SUFFICES ASSUME NEW e \in Left(p)' PROVE e \in Left(p)
  OBVIOUS
<1>1. /\ e \in Ends(graph, p) /\ e[1] \notin executed /\ e[1] \notin executed'
      /\ \A v \in Workers : Active(v)' /\ hand'[v] = e[1] => e[2] > Passed(v)'
  BY DEF Left, Ends
<1>2. ASSUME NEW v \in Workers, Active(v), hand[v] = e[1]
      PROVE  e[2] > Passed(v)
  <2>1. CASE v = w
    <3>1. Active(w)' /\ hand'[w] = hand[w] /\ Passed(w)' >= Passed(w)
      BY <1>1, <1>2, <2>1 DEF Onward
    <3>2. e[2] > Passed(w)'
      BY <1>1, <1>2, <2>1, <3>1
    <3>3. Passed(w) \in Int /\ Passed(w)' \in Int
      <4>1. hand[w] \in Pairs
        BY <1>2, <2>1 DEF Ready, Active
      <4> QED
        BY <3>1, <4>1, PassedTyped
    <3>4. e[2] \in Int
      BY <1>1, EndsAre DEF Types
    <3> QED
      BY <2>1, <3>1, <3>2, <3>3, <3>4
  <2>2. CASE v # w
    <3>1. Active(v)' /\ hand'[v] = hand[v] /\ Passed(v)' = Passed(v)
      BY <1>2, <2>2 DEF OthersRest, Active, Passed, Causes
    <3> QED
      BY <1>1, <1>2, <3>1
  <2> QED
    BY <2>1, <2>2
<1> QED
  BY <1>1, <1>2 DEF Left

LEMMA OthersReady ==
    ASSUME Conserved, NEW w \in Workers, OthersRest(w), UNCHANGED graph, Ready(w)'
    PROVE  \A v \in Workers : Ready(v)'
<1> SUFFICES ASSUME NEW v \in Workers \ {w} PROVE Ready(v)'
  OBVIOUS
<1>1. Ready(v) /\ pc'[v] = pc[v] /\ hand'[v] = hand[v] /\ todo'[v] = todo[v]
  BY DEF Conserved, OthersRest
<1>2. Active(v)' <=> Active(v)
  BY <1>1 DEF Active
<1>3. Causes(v)' = Causes(v)
  BY <1>1 DEF Causes
<1> QED
  BY <1>1, <1>2, <1>3 DEF Ready

(* A step that connects no wire. *)
LEMMA WorkerConserves ==
    ASSUME Types, Types', Conserved, NEW w \in Workers, OthersRest(w),
           UNCHANGED <<graph, connected>>, executed \subseteq executed', Ready(w)', Onward(w),
           \A v \in Workers : Len(queues'[v]) <= Capacity /\ Distinct(queues'[v]),
           \A p \in Pairs : Placed(p)',
           dropped' # {} => endEvent'
    PROVE  Conserved'
<1>1. Ready(w)
  BY DEF Conserved
<1>2. \A p : Left(p)' \subseteq Left(p)
  BY <1>1, LeftShrinks
<1>3. ASSUME NEW p \in Pairs
      PROVE  EndsLeft(p)'
  BY <1>2 DEF Conserved, EndsLeft
<1>4. \A v \in Workers : Ready(v)'
  BY OthersReady
<1>5. \A v \in Workers : Distinct(queues[v])'
  BY DEF Distinct
<1> QED
  BY <1>3, <1>4, <1>5 DEF Conserved

(* A step that moves no pair. *)
LEMMA RestConserves ==
    ASSUME Types, Types', Conserved, NEW w \in Workers, OthersRest(w), ~Active(w),
           UNCHANGED <<graph, connected, queues, hand, todo, executed, dropped>>,
           \A p \in Pairs : Making(w, p)' <=> Making(w, p), Ready(w)', endEvent => endEvent'
    PROVE  Conserved'
<1>1. ASSUME NEW p \in Pairs
      PROVE  Placed(p)'
  <2>1. QueuesOf(p)' = QueuesOf(p) /\ HeldBy(p)' = HeldBy(p) /\ OverBy(p)' = OverBy(p)
    BY DEF QueuesOf, Elems, HeldBy, OverBy
  <2>2. MadeBy(p)' = MadeBy(p)
    BY MakersStay
  <2> QED
    BY <2>1, <2>2, StillPlaced DEF Still, Conserved
<1>2. \A v \in Workers : Len(queues'[v]) <= Capacity /\ Distinct(queues'[v])
  BY DEF Conserved
<1>3. Onward(w) /\ (dropped' # {} => endEvent')
  BY DEF Onward, Conserved
<1> QED
  BY <1>1, <1>2, <1>3, WorkerConserves

LEMMA TypesKept == IInv => Types
BY DEF IInv

LEMMA ExitConserves == ASSUME IInv, IInv', Conserved, NEW w \in Workers, Exit(w) PROVE Conserved'
<1>1. /\ pc[w] = "pop" /\ pc' = [pc EXCEPT ![w] = "exited"]
      /\ UNCHANGED <<graph, connected, queues, hand, todo, executed, dropped, endEvent>>
  BY DEF Exit, Goto, net
<1>2. Types /\ Types' /\ Ready(w)
  BY DEF IInv, Conserved
<1>3. OthersRest(w) /\ pc'[w] = "exited" /\ todo[w] = <<>>
  BY <1>1, <1>2 DEF OthersRest, Types, Ready
<1>4. Ready(w)' /\ ~Active(w) /\ \A p \in Pairs : Making(w, p)' <=> Making(w, p)
  BY <1>1, <1>2, <1>3 DEF Ready, Active, Making
<1> QED
  BY <1>1, <1>2, <1>3, <1>4, RestConserves

LEMMA SignalConserves == ASSUME IInv, IInv', Conserved, NEW w \in Workers, Signal(w) PROVE Conserved'
<1>1. /\ pc[w] = "signal"
      /\ \E place \in {"exited", "pop"} : pc' = [pc EXCEPT ![w] = place]
      /\ UNCHANGED <<graph, connected, queues, hand, todo, executed, dropped, endEvent>>
  BY DEF Signal, Goto, net
<1>2. Types /\ Types' /\ Ready(w)
  BY DEF IInv, Conserved
<1>3. OthersRest(w) /\ pc'[w] \in {"exited", "pop"} /\ todo[w] = <<>>
  BY <1>1, <1>2 DEF OthersRest, Types, Ready
<1>4. Ready(w)' /\ ~Active(w) /\ \A p \in Pairs : Making(w, p)' <=> Making(w, p)
  BY <1>1, <1>2, <1>3 DEF Ready, Active, Making
<1> QED
  BY <1>1, <1>2, <1>3, <1>4, RestConserves

LEMMA ReportConserves ==
    ASSUME IInv, IInv', Conserved, NEW w \in Workers, ReportFailure(w)
    PROVE  Conserved'
<1>1. /\ pc[w] = "failed" /\ pc' = [pc EXCEPT ![w] = "exited"] /\ endEvent'
      /\ UNCHANGED <<graph, connected, queues, hand, todo, executed, dropped>>
  BY DEF ReportFailure, Goto, net
<1>2. Types /\ Types' /\ Ready(w)
  BY DEF IInv, Conserved
<1>3. OthersRest(w) /\ pc'[w] = "exited"
  BY <1>1, <1>2 DEF OthersRest, Types
<1>4. Ready(w)' /\ ~Active(w) /\ \A p \in Pairs : Making(w, p)' <=> Making(w, p)
  BY <1>1, <1>2, <1>3 DEF Ready, Active, Making
<1> QED
  BY <1>1, <1>2, <1>3, <1>4, RestConserves

-----------------------------------------------------------------------------
(* A pair goes from a queue into the hand of a worker. *)
LEMMA TakeConserves ==
    ASSUME Types, Types', Conserved, NEW u \in Workers, NEW w \in Workers, NEW p \in Pairs,
           pc[w] \in {"pop", "steal"}, pc'[w] = "take", hand'[w] = p, OthersRest(w),
           UNCHANGED <<graph, connected, todo, executed, dropped, endEvent>>,
           \A v \in Workers \ {u} : queues'[v] = queues[v],
           p \in Elems(queues[u]), Elems(queues'[u]) = Elems(queues[u]) \ {p},
           Distinct(queues'[u]), Len(queues'[u]) <= Len(queues[u])
    PROVE  Conserved'
<1>1. Ready(w) /\ hand[w] \notin Pairs /\ todo[w] = <<>> /\ todo'[w] = <<>>
  BY DEF Conserved, Ready
<1>2. Ready(w)' /\ Onward(w)
  BY <1>1 DEF Ready, Onward, Active
<1>3. \A q : MadeBy(q)' = MadeBy(q) /\ OverBy(q)' = OverBy(q)
  BY <1>1, MakersStay DEF Making, OverBy
<1>4. ASSUME NEW q \in Pairs \ {p}
      PROVE  Placed(q)'
  <2>1. HeldBy(q)' = HeldBy(q)
    BY <1>1, HandsStay
  <2>2. QueuesOf(q)' = QueuesOf(q)
    BY QueuesStay
  <2> QED
    BY <1>3, <2>1, <2>2, StillPlaced DEF Still, Conserved
<1>5. Placed(p)'
  <2>1. u \in QueuesOf(p) /\ Placed(p)
    BY DEF QueuesOf, Conserved
  <2>2. connected[p] = 2 /\ Queued(p)
    BY <2>1 DEF Placed, Nowhere, Held, Made, Over
  <2>3. QueuesOf(p) = {u}
    BY <2>1, <2>2 DEF Queued
  <2>4. QueuesOf(p)' = {}
    <3>1. \A v \in Workers : p \notin Elems(queues'[v])
      BY <2>3 DEF QueuesOf
    <3> QED
      BY <3>1 DEF QueuesOf, Elems
  <2>5. HeldBy(p)' = {w}
    <3>1. \A v \in Workers \ {w} : hand'[v] # p
      BY <2>2 DEF OthersRest, Queued, HeldBy
    <3> QED
      BY <3>1 DEF HeldBy
  <2> QED
    BY <1>3, <2>2, <2>4, <2>5 DEF Placed, Queued, Held
<1>6. \A v \in Workers : Len(queues'[v]) <= Capacity /\ Distinct(queues'[v])
  <2>1. \A v \in Workers : Len(queues[v]) <= Capacity /\ Distinct(queues[v])
    BY DEF Conserved
  <2>2. Len(queues[u]) \in Nat /\ Len(queues'[u]) \in Nat
    BY DEF Types
  <2>3. Len(queues'[u]) <= Capacity
    BY <2>1, <2>2, Sizes
  <2> QED
    BY <2>1, <2>3
<1>7. \A q \in Pairs : Placed(q)'
  BY <1>4, <1>5
<1>8. dropped' # {} => endEvent'
  BY DEF Conserved
<1> QED
  BY <1>2, <1>6, <1>7, <1>8, WorkerConserves

LEMMA PopConserves == ASSUME IInv, IInv', Conserved, NEW w \in Workers, Pop(w) PROVE Conserved'
<1> DEFINE q == queues[w]
<1>1. /\ Types /\ Types' /\ q \in Seq(Pairs) /\ Distinct(q) /\ Ready(w) /\ pc[w] = "pop"
      /\ UNCHANGED <<graph, connected, todo, executed, dropped, endEvent>>
  BY DEF Pop, IInv, Types, Conserved
<1>2. CASE UNCHANGED <<queues, hand>> /\ \E place \in {"signal", "steal"} : pc' = [pc EXCEPT ![w] = place]
  <2>1. OthersRest(w) /\ pc'[w] \in {"signal", "steal"} /\ todo[w] = <<>>
    BY <1>1, <1>2 DEF OthersRest, Types, Ready
  <2>2. Ready(w)' /\ ~Active(w) /\ \A p \in Pairs : Making(w, p)' <=> Making(w, p)
    BY <1>1, <1>2, <2>1 DEF Ready, Active, Making
  <2> QED
    BY <1>1, <1>2, <2>1, <2>2, RestConserves
<1>3. CASE /\ q # <<>> /\ Take(w, q[Len(q)])
           /\ queues' = [queues EXCEPT ![w] = SubSeq(q, 1, Len(q) - 1)]
  <2> DEFINE r == SubSeq(q, 1, Len(q) - 1)
             p == q[Len(q)]
  <2>1. /\ r \in Seq(Pairs) /\ Len(r) = Len(q) - 1 /\ p \in Pairs /\ p \in Elems(q)
        /\ Elems(r) = Elems(q) \ {p} /\ Distinct(r)
    BY <1>1, <1>3, FrontElems
  <2>2. /\ hand' = [hand EXCEPT ![w] = p] /\ pc' = [pc EXCEPT ![w] = "take"]
        /\ queues' = [queues EXCEPT ![w] = r]
    BY <1>3 DEF Take, Goto
  <2> HIDE DEF r, p
  <2>3. /\ OthersRest(w) /\ hand'[w] = p /\ pc'[w] = "take" /\ queues'[w] = r
        /\ \A v \in Workers \ {w} : queues'[v] = queues[v]
    BY <1>1, <2>2 DEF OthersRest, Types
  <2>4. Len(r) <= Len(q)
    BY <1>1, <2>1
  <2> QED
    BY <1>1, <2>1, <2>3, <2>4, TakeConserves
<1> QED
  BY <1>2, <1>3 DEF Pop, Goto

LEMMA StealConserves == ASSUME IInv, IInv', Conserved, NEW w \in Workers, Steal(w) PROVE Conserved'
<1> DEFINE u == idx[w]
           q == queues[u]
<1>1. /\ Types /\ Types' /\ u \in Workers /\ q \in Seq(Pairs) /\ Distinct(q) /\ Ready(w)
      /\ pc[w] = "steal" /\ UNCHANGED <<graph, connected, todo, executed, dropped, endEvent>>
  BY DEF Steal, IInv, Types, Conserved
<1>2. CASE UNCHANGED <<queues, hand>> /\ \E place \in {"pop", "signal", "steal"} : pc' = [pc EXCEPT ![w] = place]
  <2>1. OthersRest(w) /\ pc'[w] \in {"pop", "signal", "steal"} /\ todo[w] = <<>>
    BY <1>1, <1>2 DEF OthersRest, Types, Ready
  <2>2. Ready(w)' /\ ~Active(w) /\ \A p \in Pairs : Making(w, p)' <=> Making(w, p)
    BY <1>1, <1>2, <2>1 DEF Ready, Active, Making
  <2> QED
    BY <1>1, <1>2, <2>1, <2>2, RestConserves
<1>3. CASE q # <<>> /\ Take(w, Head(q)) /\ queues' = [queues EXCEPT ![u] = Tail(q)]
  <2> DEFINE r == Tail(q)
             p == Head(q)
  <2>1. /\ r \in Seq(Pairs) /\ Len(r) = Len(q) - 1 /\ p \in Pairs /\ p \in Elems(q)
        /\ Elems(r) = Elems(q) \ {p} /\ Distinct(r)
    BY <1>1, <1>3, TailElems
  <2>2. /\ hand' = [hand EXCEPT ![w] = p] /\ pc' = [pc EXCEPT ![w] = "take"]
        /\ queues' = [queues EXCEPT ![u] = r]
    BY <1>3 DEF Take, Goto
  <2> HIDE DEF r, p
  <2>3. /\ OthersRest(w) /\ hand'[w] = p /\ pc'[w] = "take" /\ queues'[u] = r
        /\ \A v \in Workers \ {u} : queues'[v] = queues[v]
    BY <1>1, <2>2 DEF OthersRest, Types
  <2>4. Len(r) <= Len(q)
    BY <1>1, <2>1
  <2> QED
    BY <1>1, <2>1, <2>3, <2>4, TakeConserves
<1> QED
  BY <1>2, <1>3 DEF Steal, Goto

(* A pair leaves the hand of a worker: executed, or given up. *)
LEMMA ReleaseConserves ==
    ASSUME Types, Types', Conserved, NEW w \in Workers, NEW p \in Pairs,
           hand[w] = p, hand'[w] = Nothing, pc'[w] \in {"pop", "failed"}, OthersRest(w),
           UNCHANGED <<graph, connected, queues, todo>>, pc'[w] = "pop" => todo[w] = <<>>,
           \A q \in Pairs : Making(w, q)' <=> Making(w, q),
           \/ executed' = executed \cup {p} /\ dropped' = dropped
           \/ executed' = executed /\ dropped' = dropped \cup {p} /\ pc[w] = "take",
           dropped' # {} => endEvent'
    PROVE  Conserved'
<1>1. Nothing \notin Pairs
  BY PoolAssumption
<1>2. Ready(w)' /\ Onward(w) /\ executed \subseteq executed'
  BY <1>1 DEF Ready, Onward, Active
<1>3. ASSUME NEW q \in Pairs
      PROVE  MadeBy(q)' = MadeBy(q) /\ QueuesOf(q)' = QueuesOf(q)
  BY MakersStay DEF QueuesOf, Elems
<1>4. ASSUME NEW q \in Pairs \ {p}
      PROVE  Placed(q)'
  <2>1. HeldBy(q)' = HeldBy(q)
    BY <1>1, HandsStay
  <2>2. OverBy(q)' = OverBy(q)
    BY OverStays
  <2> QED
    BY <1>3, <2>1, <2>2, StillPlaced DEF Still, Conserved
<1>5. Placed(p)'
  <2>1. w \in HeldBy(p) /\ Placed(p)
    BY DEF HeldBy, Conserved
  <2>2. connected[p] = 2 /\ Held(p)
    BY <2>1 DEF Placed, Nowhere, Queued, Made, Over
  <2>3. HeldBy(p)' = {}
    <3>1. HeldBy(p) = {w}
      BY <2>1, <2>2 DEF Held
    <3>2. \A v \in Workers : hand'[v] # p
      BY <1>1, <3>1 DEF OthersRest, HeldBy
    <3> QED
      BY <3>2 DEF HeldBy
  <2>4. p \notin executed /\ p \notin dropped
    BY <2>2 DEF Held, OverBy
  <2>5. \E h \in {"executed", "dropped"} : OverBy(p)' = {h}
    <3>1. CASE executed' = executed \cup {p} /\ dropped' = dropped
      <4>1. OverBy(p)' = {"executed"}
        BY <2>4, <3>1 DEF OverBy
      <4> QED
        BY <4>1
    <3>2. CASE executed' = executed /\ dropped' = dropped \cup {p}
      <4>1. OverBy(p)' = {"dropped"}
        BY <2>4, <3>2 DEF OverBy
      <4> QED
        BY <4>1
    <3> QED
      BY <3>1, <3>2
  <2> QED
    BY <1>3, <2>2, <2>3, <2>5 DEF Placed, Held, Over
<1>6. \A v \in Workers : Len(queues'[v]) <= Capacity /\ Distinct(queues'[v])
  BY DEF Conserved
<1>7. \A q \in Pairs : Placed(q)'
  BY <1>4, <1>5
<1> QED
  BY <1>2, <1>6, <1>7, WorkerConserves

LEMMA BeginConserves == ASSUME IInv, IInv', Conserved, NEW w \in Workers, Begin(w) PROVE Conserved'
<1>1. /\ Types /\ Types' /\ Ready(w) /\ pc[w] = "take" /\ hand[w] \in Pairs /\ todo[w] = <<>>
      /\ UNCHANGED <<graph, connected, queues, executed, endEvent>>
  BY DEF Begin, IInv, Conserved, Ready, net
<1>2. CASE endEvent
  <2>1. /\ dropped' = dropped \cup {hand[w]} /\ hand' = [hand EXCEPT ![w] = Nothing]
        /\ pc' = [pc EXCEPT ![w] = "pop"] /\ UNCHANGED todo
    BY <1>2 DEF Begin, Goto
  <2>2. OthersRest(w) /\ hand'[w] = Nothing /\ pc'[w] = "pop"
    BY <1>1, <2>1 DEF OthersRest, Types
  <2>3. \A q \in Pairs : Making(w, q)' <=> Making(w, q)
    BY <1>1, <2>1 DEF Making
  <2> QED
    BY <1>1, <1>2, <2>1, <2>2, <2>3, ReleaseConserves
<1>3. CASE ~endEvent
  <2>1. /\ todo' = [todo EXCEPT ![w] = Causes(w)] /\ pc' = [pc EXCEPT ![w] = "connect"]
        /\ UNCHANGED <<hand, dropped>>
    BY <1>3 DEF Begin, Goto, Causes
  <2>2. OthersRest(w) /\ todo'[w] = Causes(w) /\ pc'[w] = "connect" /\ Causes(w)' = Causes(w)
    BY <1>1, <2>1 DEF OthersRest, Types, Causes
  <2>3. Causes(w) \in Seq(Pairs)
    BY <1>1, Nets DEF Types, Causes
  <2>4. Ready(w)'
    <3> DEFINE c == Causes(w)
               n == Len(c)
    <3>1. n \in Nat
      BY <2>3
    <3>2. Causes(w)' = c /\ todo'[w] = c
      BY <2>2
    <3> HIDE DEF c
    <3>3. n <= n /\ \A k \in 1..n : c[k] = c[n - n + k]
      <4> HIDE DEF n
      <4>1. \A k \in 1..n : n - n + k = k
        BY <3>1
      <4> QED
        BY <3>1, <4>1
    <3>4. hand'[w] \in Pairs
      BY <1>1, <2>1
    <3> QED
      BY <2>2, <3>2, <3>3, <3>4 DEF Ready
  <2>5. ASSUME NEW q \in Pairs
        PROVE  Placed(q)'
    <3>1. ~Making(w, q) /\ ~Making(w, q)'
      BY <1>1, <2>2 DEF Making
    <3>2. MadeBy(q)' = MadeBy(q)
      BY <2>2, <3>1, MakersStay
    <3>3. QueuesOf(q)' = QueuesOf(q) /\ HeldBy(q)' = HeldBy(q) /\ OverBy(q)' = OverBy(q)
      BY <1>1, <2>1 DEF QueuesOf, Elems, HeldBy, OverBy
    <3> QED
      BY <1>1, <3>2, <3>3, StillPlaced DEF Still, Conserved
  <2>6. \A v \in Workers : Len(queues'[v]) <= Capacity /\ Distinct(queues'[v])
    BY <1>1 DEF Conserved
  <2>7. Onward(w) /\ (dropped' # {} => endEvent')
    BY <1>1, <2>1 DEF Onward, Active, Conserved
  <2> QED
    BY <1>1, <2>2, <2>4, <2>5, <2>6, <2>7, WorkerConserves
<1> QED
  BY <1>2, <1>3

LEMMA FinishConserves == ASSUME IInv, IInv', Conserved, NEW w \in Workers, Finish(w) PROVE Conserved'
<1>1. /\ Types /\ Types' /\ Ready(w) /\ pc[w] = "connect" /\ hand[w] \in Pairs /\ todo[w] = <<>>
      /\ UNCHANGED <<graph, connected, queues, todo, dropped>> /\ (endEvent => endEvent')
      /\ executed' = executed \cup {hand[w]} /\ hand' = [hand EXCEPT ![w] = Nothing]
      /\ pc' = [pc EXCEPT ![w] = "pop"]
  BY DEF Finish, Finished, Goto, IInv, Conserved, Ready, net
<1>2. OthersRest(w) /\ hand'[w] = Nothing /\ pc'[w] = "pop"
  BY <1>1 DEF OthersRest, Types
<1>3. \A q \in Pairs : Making(w, q)' <=> Making(w, q)
  BY <1>1 DEF Making
<1>4. dropped' # {} => endEvent'
  BY <1>1 DEF Conserved
<1> QED
  BY <1>1, <1>2, <1>3, <1>4, ReleaseConserves

(* A worker whose push fails keeps the pair it made, and takes it along.   *)
LEMMA FailConserves == ASSUME IInv, IInv', Conserved, NEW w \in Workers, Fail(w) PROVE Conserved'
<1>1. /\ Types /\ Types' /\ Ready(w) /\ hand[w] \in Pairs
      /\ pc[w] = "push" \/ (pc[w] = "connect" /\ todo[w] = <<>>)
      /\ UNCHANGED <<graph, connected, queues, todo, dropped, endEvent>>
      /\ executed' = executed \cup {hand[w]} /\ hand' = [hand EXCEPT ![w] = Nothing]
      /\ pc' = [pc EXCEPT ![w] = "failed"]
  BY DEF Fail, Finished, Goto, IInv, Conserved, Ready, net
<1>2. OthersRest(w) /\ hand'[w] = Nothing /\ pc'[w] = "failed"
  BY <1>1 DEF OthersRest, Types
<1>3. \A q \in Pairs : Making(w, q)' <=> Making(w, q)
  BY <1>1, <1>2 DEF Making
<1>4. dropped' # {} => endEvent'
  BY <1>1 DEF Conserved
<1> QED
  BY <1>1, <1>2, <1>3, <1>4, ReleaseConserves

-----------------------------------------------------------------------------
(* What remains of the wires a pair connects. *)
LEMMA Remainder ==
    ASSUME NEW c \in Seq(Pairs), NEW t \in Seq(Pairs), t # <<>>, Len(t) <= Len(c),
           \A k \in 1..Len(t) : t[k] = c[Len(c) - Len(t) + k]
    PROVE  /\ Tail(t) \in Seq(Pairs) /\ Len(Tail(t)) = Len(t) - 1
           /\ Len(Tail(t)) <= Len(c)
           /\ \A k \in 1..Len(Tail(t)) : Tail(t)[k] = c[Len(c) - Len(Tail(t)) + k]
           /\ Head(t) \in Pairs
           /\ Len(c) - Len(t) + 1 \in DOMAIN c /\ Head(t) = c[Len(c) - Len(t) + 1]
           /\ Len(c) - Len(Tail(t)) = Len(c) - Len(t) + 1
<1> DEFINE r == Tail(t)
           n == Len(c)
           m == Len(t)
<1>1. /\ n \in Nat /\ m \in Nat /\ m >= 1 /\ m <= n /\ DOMAIN c = 1..n
      /\ Head(t) = t[1] /\ Head(t) \in Pairs
  OBVIOUS
<1>2. r \in Seq(Pairs) /\ Len(r) = m - 1 /\ \A k \in 1..(m - 1) : r[k] = t[k + 1]
  BY <1>1
<1>3. \A k \in 1..m : t[k] = c[n - m + k]
  OBVIOUS
<1> HIDE DEF r, n, m
<1>4. /\ 1 \in 1..m /\ n - m + 1 \in 1..n /\ n - (m - 1) = n - m + 1 /\ m - 1 <= n
      /\ \A k \in 1..(m - 1) : k + 1 \in 1..m /\ n - m + (k + 1) = n - (m - 1) + k
  BY <1>1
<1>5. \A k \in 1..(m - 1) : r[k] = c[n - (m - 1) + k]
  BY <1>2, <1>3, <1>4
<1>6. t[1] = c[n - m + 1]
  BY <1>3, <1>4
<1> QED
  BY <1>1, <1>2, <1>4, <1>5, <1>6 DEF r, n, m

LEMMA ActiveFacts ==
    ASSUME IInv, Conserved, NEW w \in Workers, Active(w), todo[w] # <<>>
    PROVE  /\ graph \in Graphs /\ hand[w] \in Pairs
           /\ Causes(w) \in Seq(Pairs) /\ todo[w] \in Seq(Pairs)
           /\ Len(todo[w]) <= Len(Causes(w))
           /\ \A k \in 1..Len(todo[w]) : todo[w][k] = Causes(w)[Len(Causes(w)) - Len(todo[w]) + k]
<1>1. Ready(w) /\ hand[w] \in Pairs /\ graph \in Graphs /\ todo[w] \in Seq(Pairs)
  BY DEF IInv, Types, Conserved, Ready, Active
<1>2. Causes(w) \in Seq(Pairs)
  BY <1>1, Nets DEF Causes
<1> QED
  BY <1>1, <1>2 DEF Ready

LEMMA PushConserves == ASSUME IInv, IInv', Conserved, NEW w \in Workers, Push(w) PROVE Conserved'
<1> DEFINE t == todo[w]
           c == Causes(w)
<1>1. /\ Types /\ Types' /\ pc[w] = "push" /\ t # <<>> /\ Len(queues[w]) < Capacity
      /\ queues' = [queues EXCEPT ![w] = Append(queues[w], Head(t))]
      /\ todo' = [todo EXCEPT ![w] = Tail(t)] /\ pc' = [pc EXCEPT ![w] = "connect"]
      /\ UNCHANGED <<graph, connected, hand, executed, dropped, endEvent>>
  BY DEF Push, Goto, IInv, Safe, HandFull
<1>2. /\ graph \in Graphs /\ hand[w] \in Pairs /\ c \in Seq(Pairs) /\ t \in Seq(Pairs)
      /\ Len(t) <= Len(c) /\ \A k \in 1..Len(t) : t[k] = c[Len(c) - Len(t) + k]
  BY <1>1, ActiveFacts DEF Active
<1>3. /\ Tail(t) \in Seq(Pairs) /\ Len(Tail(t)) <= Len(c) /\ Head(t) \in Pairs
      /\ \A k \in 1..Len(Tail(t)) : Tail(t)[k] = c[Len(c) - Len(Tail(t)) + k]
      /\ Len(c) - Len(Tail(t)) = Len(c) - Len(t) + 1
  BY <1>1, <1>2, Remainder
<1>4. OthersRest(w) /\ todo'[w] = Tail(t) /\ pc'[w] = "connect" /\ hand'[w] = hand[w] /\ Causes(w)' = c
  BY <1>1 DEF OthersRest, Types, Causes
<1>p. PICK p \in Pairs : p = Head(t)
  BY <1>3
<1>5. Ready(w)'
  BY <1>2, <1>3, <1>4 DEF Ready, Active
<1>6. Onward(w)
  <2>1. Passed(w)' = Len(c) - Len(Tail(t)) + 0
    BY <1>4 DEF Passed
  <2>2. Passed(w) = Len(c) - Len(t) + 1
    BY <1>1 DEF Passed
  <2>3. Len(c) \in Nat /\ Len(t) \in Nat /\ Len(Tail(t)) \in Nat
    BY <1>2, <1>3
  <2>4. Passed(w)' >= Passed(w)
    <3> DEFINE x == Len(c)
               y == Len(t)
               z == Len(Tail(t))
    <3>1. x \in Nat /\ y \in Nat /\ z \in Nat /\ x - z = x - y + 1
      BY <1>3, <2>3
    <3>2. Passed(w)' = x - z + 0 /\ Passed(w) = x - y + 1
      BY <2>1, <2>2
    <3> HIDE DEF x, y, z
    <3> QED
      BY <3>1, <3>2
  <2> QED
    BY <1>4, <2>4 DEF Onward, Active
<1>7. MadeBy(p) = {w} /\ Made(p) /\ connected[p] = 2
  <2>1. w \in MadeBy(p)
    BY <1>1, <1>p DEF MadeBy
  <2>2. Placed(p)
    BY <1>3 DEF Conserved
  <2> QED
    BY <2>1, <2>2 DEF Placed, Nowhere, Queued, Held, Made, Over
<1>8. /\ queues'[w] = Append(queues[w], p) /\ \A v \in Workers \ {w} : queues'[v] = queues[v]
      /\ queues[w] \in Seq(Pairs)
  BY <1>1, <1>p DEF Types
<1>9. p \notin Elems(queues[w])
  BY <1>7 DEF Made, QueuesOf
<1>10. /\ Elems(queues'[w]) = Elems(queues[w]) \cup {p} /\ Len(queues'[w]) = Len(queues[w]) + 1
       /\ Distinct(queues'[w])
  <2>1. Distinct(queues[w])
    BY DEF Conserved
  <2> QED
    BY <1>3, <1>8, <1>9, <2>1, AppendElems
<1>11. ASSUME NEW q \in Pairs
       PROVE  HeldBy(q)' = HeldBy(q) /\ OverBy(q)' = OverBy(q)
  BY <1>1 DEF HeldBy, OverBy
<1>12. ASSUME NEW q \in Pairs \ {p}
       PROVE  Placed(q)'
  <2>1. ~Making(w, q) /\ ~Making(w, q)'
    BY <1>4, <1>p DEF Making
  <2>2. MadeBy(q)' = MadeBy(q)
    BY <1>4, <2>1, MakersStay
  <2>3. QueuesOf(q)' = QueuesOf(q)
    BY <1>8, <1>10, QueuesStay
  <2> QED
    BY <1>1, <1>11, <2>2, <2>3, StillPlaced DEF Still, Conserved
<1>13. Placed(p)'
  <2>1. MadeBy(p)' = {}
    <3>1. \A v \in Workers : ~Making(v, p)'
      BY <1>4, <1>7 DEF OthersRest, Making, MadeBy
    <3> QED
      BY <3>1 DEF MadeBy, Making
  <2>2. QueuesOf(p)' = {w}
    <3>1. \A v \in Workers : p \in Elems(queues'[v]) <=> v = w
      BY <1>7, <1>8, <1>10 DEF Made, QueuesOf
    <3> QED
      BY <3>1 DEF QueuesOf, Elems
  <2> QED
    BY <1>1, <1>3, <1>7, <1>11, <2>1, <2>2 DEF Placed, Made, Queued
<1>14. \A v \in Workers : Len(queues'[v]) <= Capacity /\ Distinct(queues'[v])
  <2>1. Len(queues'[w]) <= Capacity
    BY <1>1, <1>8, <1>10, Sizes
  <2> QED
    BY <1>8, <1>10, <2>1 DEF Conserved
<1>15. \A q \in Pairs : Placed(q)'
  BY <1>12, <1>13
<1>16. dropped' # {} => endEvent'
  BY <1>1 DEF Conserved
<1> QED
  BY <1>1, <1>4, <1>5, <1>6, <1>14, <1>15, <1>16, WorkerConserves

(* A wire is connected at an end that was left; the second connect uses up *)
(* the last one, and makes the pair.                                       *)
LEMMA ConnectConserves == ASSUME IInv, IInv', Conserved, NEW w \in Workers, Connect(w) PROVE Conserved'
<1> DEFINE t == todo[w]
           c == Causes(w)
<1>1. /\ Types /\ Types' /\ pc[w] = "connect" /\ t # <<>>
      /\ UNCHANGED <<graph, queues, hand, executed, dropped, endEvent>>
  BY DEF Connect, IInv
<1>2. /\ graph \in Graphs /\ hand[w] \in Pairs /\ c \in Seq(Pairs) /\ t \in Seq(Pairs)
      /\ Len(t) <= Len(c) /\ \A k \in 1..Len(t) : t[k] = c[Len(c) - Len(t) + k]
  BY <1>1, ActiveFacts DEF Active
<1>3. /\ Tail(t) \in Seq(Pairs) /\ Len(Tail(t)) <= Len(c) /\ Head(t) \in Pairs
      /\ \A k \in 1..Len(Tail(t)) : Tail(t)[k] = c[Len(c) - Len(Tail(t)) + k]
      /\ Len(c) - Len(t) + 1 \in DOMAIN c /\ Head(t) = c[Len(c) - Len(t) + 1]
      /\ Len(c) - Len(Tail(t)) = Len(c) - Len(t) + 1
  BY <1>1, <1>2, Remainder
<1>p. PICK p \in Pairs : p = Head(t)
  BY <1>3
<1>h. PICK h \in Pairs : h = hand[w]
  BY <1>2
<1>i. PICK i \in Int : i = Passed(w) + 1
  <2>1. Passed(w) \in Int
    BY <1>1, <1>2, PassedTyped
  <2> QED
    BY <2>1
<1>4. Passed(w) = Len(c) - Len(t)
  <2>1. Passed(w) = Len(c) - Len(t) + 0 /\ Len(c) \in Nat /\ Len(t) \in Nat
    BY <1>1, <1>2 DEF Passed
  <2> QED
    BY <2>1
<1>5. connected' = [connected EXCEPT ![p] = connected[p] + 1] /\ connected \in [Pairs -> 0..2]
  BY <1>p DEF Connect, Conserved
<1>6. \/ connected[p] = 0 /\ todo' = [todo EXCEPT ![w] = Tail(t)] /\ UNCHANGED pc
      \/ connected[p] # 0 /\ pc' = [pc EXCEPT ![w] = "push"] /\ UNCHANGED todo
  BY <1>p DEF Connect, Goto
<1>7. /\ OthersRest(w) /\ hand'[w] = h /\ Causes(w)' = c /\ Active(w) /\ Active(w)'
      /\ \/ connected[p] = 0 /\ todo'[w] = Tail(t) /\ pc'[w] = "connect"
         \/ connected[p] # 0 /\ todo'[w] = t /\ pc'[w] = "push"
  BY <1>1, <1>6, <1>h DEF OthersRest, Types, Causes, Active
<1>8. Ready(w)'
  BY <1>2, <1>3, <1>7 DEF Ready
<1>9. Passed(w)' = i
  <2>1. CASE connected[p] = 0
    <3>1. Passed(w)' = Len(c) - Len(Tail(t)) + 0
      BY <1>7, <2>1 DEF Passed
    <3>2. Len(c) \in Nat /\ Len(Tail(t)) \in Nat
      BY <1>2, <1>3
    <3>3. Len(c) - Len(Tail(t)) = Passed(w) + 1
      BY <1>3, <1>4
    <3>4. Len(c) - Len(Tail(t)) + 0 = Len(c) - Len(Tail(t))
      BY <3>2
    <3> QED
      BY <1>i, <3>1, <3>3, <3>4
  <2>2. CASE connected[p] # 0
    BY <1>4, <1>7, <1>i, <2>2 DEF Passed
  <2> QED
    BY <2>1, <2>2
<1>10. Onward(w)
  <2>1. Passed(w)' >= Passed(w)
    BY <1>1, <1>2, <1>9, <1>i, PassedTyped
  <2> QED
    BY <1>7, <1>h, <2>1 DEF Onward
<1>11. \A q : Left(q)' \subseteq Left(q)
  <2>1. Ready(w)
    BY DEF Conserved
  <2> QED
    BY <1>1, <1>7, <1>8, <1>10, <2>1, LeftShrinks
<1>12. <<h, i>> \in Left(p)
  <2>1. Held(h)
    <3>1. w \in HeldBy(h) /\ Placed(h)
      BY <1>h DEF HeldBy, Conserved
    <3> QED
      BY <3>1 DEF Placed, Nowhere, Queued, Made, Over
  <2>2. h \notin executed /\ \A v \in Workers : hand[v] = h => v = w
    BY <2>1, <1>h DEF Held, OverBy, HeldBy
  <2>3. <<h, i>> \in Ends(graph, p)
    <3>1. c = graph.connects[h]
      BY <1>h DEF Causes
    <3>2. i \in DOMAIN graph.connects[h] /\ graph.connects[h][i] = p
      BY <1>3, <1>4, <1>i, <1>p, <3>1
    <3> QED
      BY <1>2, <3>2, EndsAre
  <2>4. i > Passed(w)
    BY <1>1, <1>2, <1>i, PassedTyped
  <2> QED
    BY <2>2, <2>3, <2>4 DEF Left
<1>13. <<h, i>> \notin Left(p)'
  <2>1. ~(i > i)
    BY <1>i
  <2> QED
    BY <1>7, <1>9, <2>1 DEF Left
<1>14. connected[p] \in {0, 1} /\ connected'[p] = connected[p] + 1
  <2>1. connected[p] # 2
    BY <1>12 DEF Conserved, EndsLeft
  <2> QED
    BY <1>5, <2>1
<1>15. EndsLeft(p)'
  <2>1. CASE connected[p] = 0
    <3> SUFFICES ASSUME NEW x \in Left(p)', NEW y \in Left(p)'
                 PROVE  x = y
      BY <1>14, <2>1 DEF EndsLeft
    <3>1. x \in Left(p) /\ y \in Left(p) /\ x # <<h, i>> /\ y # <<h, i>>
      BY <1>11, <1>13
    <3>2. x \in Ends(graph, p) /\ y \in Ends(graph, p) /\ <<h, i>> \in Ends(graph, p)
      BY <1>12, <3>1 DEF Left
    <3> QED
      BY <1>2, <3>1, <3>2, LinearAssumption
  <2>2. CASE connected[p] = 1
    <3>1. \A x \in Left(p)' : x = <<h, i>>
      BY <1>11, <1>12, <2>2 DEF Conserved, EndsLeft
    <3>2. Left(p)' = {}
      BY <1>13, <3>1
    <3> QED
      BY <1>14, <2>2, <3>2 DEF EndsLeft
  <2> QED
    BY <1>14, <2>1, <2>2
<1>16. ASSUME NEW q \in Pairs \ {p}
       PROVE  connected'[q] = connected[q] /\ EndsLeft(q)'
  BY <1>5, <1>11 DEF Conserved, EndsLeft
<1>17. ASSUME NEW q \in Pairs
       PROVE  QueuesOf(q)' = QueuesOf(q) /\ HeldBy(q)' = HeldBy(q) /\ OverBy(q)' = OverBy(q)
  BY <1>1 DEF QueuesOf, Elems, HeldBy, OverBy
<1>18. ASSUME NEW q \in Pairs \ {p}
       PROVE  Placed(q)'
  <2>1. ~Making(w, q) /\ ~Making(w, q)'
    BY <1>1, <1>7, <1>p DEF Making
  <2>2. MadeBy(q)' = MadeBy(q)
    BY <1>7, <2>1, MakersStay
  <2> QED
    BY <1>16, <1>17, <2>2, StillPlaced DEF Still, Conserved
<1>19. Placed(p)'
  <2>1. Nowhere(p)
    BY <1>14 DEF Conserved, Placed
  <2>2. CASE connected[p] = 0
    <3>1. ~Making(w, p) /\ ~Making(w, p)'
      BY <1>1, <1>7, <2>2 DEF Making
    <3>2. MadeBy(p)' = MadeBy(p)
      BY <1>7, <3>1, MakersStay
    <3> QED
      BY <1>14, <1>17, <2>1, <2>2, <3>2 DEF Placed, Nowhere
  <2>3. CASE connected[p] = 1
    <3>1. \A v \in Workers \ {w} : ~Making(v, p)'
      BY <1>7, <2>1 DEF Nowhere, MadeBy, OthersRest, Making
    <3>2. Making(w, p)'
      BY <1>1, <1>7, <1>p, <2>3 DEF Making
    <3>3. MadeBy(p)' = {w}
      BY <3>1, <3>2 DEF MadeBy, Making
    <3> QED
      BY <1>14, <1>17, <2>1, <2>3, <3>3 DEF Placed, Nowhere, Made
  <2> QED
    BY <1>14, <2>2, <2>3
<1>20. \A v \in Workers : Ready(v)' /\ Len(queues'[v]) <= Capacity /\ Distinct(queues[v])'
  <2>1. \A v \in Workers : Ready(v)'
    BY <1>1, <1>7, <1>8, OthersReady
  <2> QED
    BY <1>1, <2>1 DEF Conserved, Distinct
<1>21. connected' \in [Pairs -> 0..2]
  <2>1. connected[p] + 1 \in 0..2
    BY <1>14
  <2> QED
    BY <1>5, <2>1
<1>22. \A q \in Pairs : Placed(q)' /\ EndsLeft(q)'
  BY <1>15, <1>16, <1>18, <1>19
<1>23. dropped' # {} => endEvent'
  BY <1>1 DEF Conserved
<1> QED
  BY <1>20, <1>21, <1>22, <1>23 DEF Conserved

-----------------------------------------------------------------------------
(* The calling thread, before the workers run. *)
LEMMA WireConserves ==
    ASSUME IInv, IInv', Conserved, NEW p \in graph.initial, WirePair(p), main' # "raised"
    PROVE  Conserved'
<1>1. /\ Types /\ Types' /\ graph \in Graphs /\ p \in Pairs
      /\ connected[p] = 0 /\ connected' = [connected EXCEPT ![p] = 2]
      /\ UNCHANGED <<graph, pc, hand, todo, executed, dropped, endEvent>>
  BY Nets DEF WirePair, IInv, Types
<1>2. PICK w \in Workers : Len(queues[w]) < Capacity /\ queues' = [queues EXCEPT ![w] = Append(queues[w], p)]
  BY DEF WirePair
<1>3. Nowhere(p)
  BY <1>1 DEF Conserved, Placed
<1>4. /\ queues'[w] = Append(queues[w], p) /\ \A v \in Workers \ {w} : queues'[v] = queues[v]
      /\ queues[w] \in Seq(Pairs) /\ Distinct(queues[w]) /\ p \notin Elems(queues[w])
  BY <1>1, <1>2, <1>3 DEF Types, Conserved, Nowhere, QueuesOf
<1>5. /\ Elems(queues'[w]) = Elems(queues[w]) \cup {p} /\ Len(queues'[w]) = Len(queues[w]) + 1
      /\ Distinct(queues'[w])
  BY <1>1, <1>4, AppendElems
<1>6. connected' \in [Pairs -> 0..2] /\ connected'[p] = 2
      /\ \A q \in Pairs \ {p} : connected'[q] = connected[q]
  BY <1>1 DEF Conserved
<1>7. ASSUME NEW q \in Pairs
      PROVE  HeldBy(q)' = HeldBy(q) /\ MadeBy(q)' = MadeBy(q) /\ OverBy(q)' = OverBy(q)
  BY <1>1 DEF HeldBy, MadeBy, OverBy
<1>8. ASSUME NEW q \in Pairs \ {p}
      PROVE  Placed(q)'
  <2>1. QueuesOf(q)' = QueuesOf(q)
    BY <1>4, <1>5, QueuesStay
  <2> QED
    BY <1>6, <1>7, <2>1, StillPlaced DEF Still, Conserved
<1>9. Placed(p)'
  <2>1. \A v \in Workers : p \in Elems(queues'[v]) <=> v = w
    BY <1>3, <1>4, <1>5 DEF Nowhere, QueuesOf
  <2>2. QueuesOf(p)' = {w}
    BY <2>1 DEF QueuesOf, Elems
  <2> QED
    BY <1>1, <1>3, <1>6, <1>7, <2>2 DEF Placed, Nowhere, Queued
<1>10. ASSUME NEW q \in Pairs
       PROVE  EndsLeft(q)'
  <2>1. Left(q)' = Left(q)
    BY <1>1 DEF Left, Ends, Active, Passed, Causes
  <2>2. CASE q = p
    <3>1. Left(p) = {}
      BY <1>1, LinearAssumption DEF Left
    <3> QED
      BY <2>1, <2>2, <3>1 DEF EndsLeft
  <2>3. CASE q # p
    BY <1>6, <2>1, <2>3 DEF Conserved, EndsLeft
  <2> QED
    BY <2>2, <2>3
<1>11. \A v \in Workers : Ready(v)'
  BY <1>1 DEF Conserved, Ready, Active, Causes
<1>12. \A v \in Workers : Len(queues'[v]) <= Capacity /\ Distinct(queues[v])'
  <2>1. Len(queues'[w]) <= Capacity
    BY <1>2, <1>4, <1>5, Sizes
  <2> QED
    BY <1>4, <1>5, <2>1 DEF Conserved, Distinct
<1>13. \A q \in Pairs : Placed(q)' /\ EndsLeft(q)'
  BY <1>8, <1>9, <1>10
<1>14. dropped' # {} => endEvent'
  BY <1>1 DEF Conserved
<1> QED
  BY <1>6, <1>11, <1>12, <1>13, <1>14 DEF Conserved

LEMMA SubmitConserves == ASSUME IInv, IInv', Conserved, NEW w \in Workers, Submit(w) PROVE Conserved'
<1>1. /\ pc[w] = "unstarted" /\ pc' = [pc EXCEPT ![w] = "pop"]
      /\ UNCHANGED <<graph, connected, queues, hand, todo, executed, dropped, endEvent>>
  BY DEF Submit, Goto, net
<1>2. Types /\ Types' /\ Ready(w)
  BY DEF IInv, Conserved
<1>3. OthersRest(w) /\ pc'[w] = "pop" /\ todo[w] = <<>>
  BY <1>1, <1>2 DEF OthersRest, Types, Ready
<1>4. Ready(w)' /\ ~Active(w) /\ \A p \in Pairs : Making(w, p)' <=> Making(w, p)
  BY <1>1, <1>2, <1>3 DEF Ready, Active, Making
<1> QED
  BY <1>1, <1>2, <1>3, <1>4, RestConserves

LEMMA NothingConserves ==
    ASSUME Conserved,
           UNCHANGED <<graph, queues, connected, pc, hand, todo, endEvent, executed, dropped>>
    PROVE  Conserved'
<1>1. \A w \in Workers : Ready(w)' /\ Len(queues'[w]) <= Capacity /\ Distinct(queues[w])'
  BY DEF Conserved, Ready, Active, Causes, Distinct
<1>2. ASSUME NEW p \in Pairs
      PROVE  Placed(p)' /\ EndsLeft(p)'
  <2>1. Still(p)
    BY DEF Still, QueuesOf, Elems, HeldBy, MadeBy, OverBy
  <2>2. Left(p)' = Left(p)
    BY DEF Left, Ends, Active, Passed, Causes
  <2> QED
    BY <2>1, <2>2, StillPlaced DEF Conserved, EndsLeft
<1> QED
  BY <1>1, <1>2 DEF Conserved

-----------------------------------------------------------------------------
LEMMA InitConserves == Init => CInv
<1> SUFFICES ASSUME Init PROVE CInv
  OBVIOUS
<1>1. IInv
  BY InitIsSafe
<1>2. connected \in [Pairs -> 0..2] /\ graph \in Graphs
  BY DEF Init
<1>3. ASSUME NEW w \in Workers
      PROVE  Ready(w) /\ Len(queues[w]) <= Capacity /\ Distinct(queues[w])
  <2>1. pc[w] = "unstarted" /\ hand[w] = Nothing /\ todo[w] = <<>> /\ queues[w] = <<>>
    BY DEF Init
  <2>2. Ready(w)
    BY <2>1, PoolAssumption DEF Ready, Active
  <2>3. Len(queues[w]) <= Capacity
    BY <2>1, Sizes
  <2> QED
    BY <2>1, <2>2, <2>3 DEF Distinct
<1>4. ASSUME NEW p \in Pairs
      PROVE  Placed(p) /\ EndsLeft(p)
  <2>1. connected[p] = IF p \in graph.half THEN 1 ELSE 0
    BY DEF Init
  <2>2. Nowhere(p)
    <3>1. QueuesOf(p) = {}
      BY DEF Init, QueuesOf, Elems
    <3>2. HeldBy(p) = {} /\ MadeBy(p) = {}
      BY PoolAssumption DEF Init, HeldBy, MadeBy
    <3>3. OverBy(p) = {}
      BY DEF Init, OverBy
    <3> QED
      BY <3>1, <3>2, <3>3 DEF Nowhere
  <2>3. connected[p] = 1 => \A x, y \in Left(p) : x = y
    BY <1>2, <2>1, LinearAssumption DEF Left
  <2> QED
    BY <2>1, <2>2, <2>3 DEF Placed, EndsLeft
<1>5. dropped = {}
  BY DEF Init
<1> QED
  BY <1>1, <1>2, <1>3, <1>4, <1>5 DEF CInv, Conserved

LEMMA WorkerStepConserves ==
    ASSUME IInv, IInv', Conserved, NEW w \in Workers, WorkerStep(w)
    PROVE  Conserved'
BY ExitConserves, PopConserves, StealConserves, BeginConserves, ConnectConserves, PushConserves,
   FinishConserves, FailConserves, ReportConserves, SignalConserves DEF WorkerStep

LEMMA GivenUpAtEnd == ASSUME dropped # {} => endEvent, [Next]_vars PROVE dropped' # {} => endEvent'
<1>1. CASE MainStep
  BY <1>1 DEF MainStep, WirePair, Submit, Return
<1>2. CASE \E w \in Workers : WorkerStep(w)
  <2>1. PICK w \in Workers : WorkerStep(w)
    BY <1>2
  <2>2. CASE Begin(w)
    BY <2>2 DEF Begin
  <2>3. CASE Finish(w) \/ ReportFailure(w)
    BY <2>3 DEF Finish, ReportFailure
  <2>4. CASE ~(Begin(w) \/ Finish(w) \/ ReportFailure(w))
    BY <2>1, <2>4 DEF WorkerStep, Exit, Pop, Steal, Connect, Push, Fail, Signal
  <2> QED
    BY <2>2, <2>3, <2>4
<1>3. CASE UNCHANGED vars
  BY <1>3 DEF vars
<1> QED
  BY <1>1, <1>2, <1>3 DEF Next, Done

LEMMA NextConserves == CInv /\ [Next]_vars => CInv'
<1> SUFFICES ASSUME CInv, [Next]_vars PROVE CInv'
  OBVIOUS
<1>1. IInv /\ IInv'
  BY StepIsSafe DEF CInv
<1> SUFFICES ASSUME main' # "raised" PROVE Conserved'
  BY <1>1, GivenUpAtEnd DEF CInv
<1>2. CASE MainStep
  <2>1. main # "raised"
    BY <1>2 DEF MainStep, WirePair, Submit, Return
  <2>2. Conserved
    BY <2>1 DEF CInv
  <2>3. CASE \E p \in graph.initial : WirePair(p)
    BY <1>1, <2>2, <2>3, WireConserves
  <2>4. CASE \E w \in Workers : Submit(w)
    BY <1>1, <2>2, <2>4, SubmitConserves
  <2>5. CASE Return
    BY <2>2, <2>5, NothingConserves DEF Return, net
  <2> QED
    BY <1>2, <2>3, <2>4, <2>5 DEF MainStep
<1>3. CASE \E w \in Workers : WorkerStep(w)
  <2>1. PICK w \in Workers : WorkerStep(w)
    BY <1>3
  <2>2. main' = main
    BY <2>1 DEF WorkerStep, Exit, Pop, Steal, Begin, Connect, Push, Finish, Fail,
       ReportFailure, Signal
  <2> QED
    BY <1>1, <2>1, <2>2, WorkerStepConserves DEF CInv
<1>4. CASE UNCHANGED vars
  BY <1>4, NothingConserves DEF CInv, vars, net
<1> QED
  BY <1>2, <1>3, <1>4 DEF Next, Done

(* One place is one entry of one queue, or one worker, or one history.     *)
LEMMA OnePlace ==
    ASSUME IInv, Conserved, NEW p \in Pairs
    PROVE  Cardinality(QueuedAt(p)) + Cardinality(HeldBy(p))
             + Cardinality(MadeBy(p)) + Cardinality(OverBy(p))
           = IF connected[p] = 2 THEN 1 ELSE 0
<1>1. Cardinality({}) = 0 /\ \A x : Cardinality({x}) = 1
  BY FS_EmptySet, FS_Singleton
<1>2. QueuesOf(p) = {} => QueuedAt(p) = {}
  <2> SUFFICES ASSUME NEW at \in QueuedAt(p) PROVE QueuesOf(p) # {}
    OBVIOUS
  <2>1. /\ at[1] \in Workers /\ at[2] \in 1..Capacity
        /\ at[2] <= Len(queues[at[1]]) /\ queues[at[1]][at[2]] = p
    BY DEF QueuedAt
  <2>2. queues[at[1]] \in Seq(Pairs)
    BY <2>1 DEF IInv, Types
  <2>3. at[2] \in DOMAIN queues[at[1]]
    BY <2>1, <2>2
  <2> QED
    BY <2>1, <2>3 DEF QueuesOf, Elems
<1>3. ASSUME NEW w \in Workers, QueuesOf(p) = {w}
      PROVE  \E x : QueuedAt(p) = {x}
  <2>1. PICK i \in DOMAIN queues[w] : queues[w][i] = p
    BY <1>3 DEF QueuesOf, Elems
  <2>2. /\ queues[w] \in Seq(Pairs) /\ Len(queues[w]) <= Capacity /\ Distinct(queues[w])
        /\ Capacity \in Nat
    BY Sizes DEF IInv, Types, Conserved
  <2>3. i \in 1..Capacity /\ i <= Len(queues[w])
    BY <2>1, <2>2
  <2>4. <<w, i>> \in QueuedAt(p)
    BY <2>1, <2>3 DEF QueuedAt
  <2>5. ASSUME NEW at \in QueuedAt(p)
        PROVE  at = <<w, i>>
    <3>1. /\ at = <<at[1], at[2]>> /\ at[1] \in Workers /\ at[2] \in 1..Capacity
          /\ at[2] <= Len(queues[at[1]]) /\ queues[at[1]][at[2]] = p
      BY DEF QueuedAt
    <3>2. queues[at[1]] \in Seq(Pairs)
      BY <3>1 DEF IInv, Types
    <3>3. at[2] \in DOMAIN queues[at[1]]
      BY <3>1, <3>2
    <3>4. at[1] = w
      BY <1>3, <3>1, <3>3 DEF QueuesOf, Elems
    <3>5. at[2] = i
      BY <2>1, <2>2, <3>1, <3>3, <3>4 DEF Distinct
    <3> QED
      BY <3>1, <3>4, <3>5
  <2> QED
    BY <2>4, <2>5
<1>4. Placed(p)
  BY DEF Conserved
<1> DEFINE sum == Cardinality(QueuedAt(p)) + Cardinality(HeldBy(p))
                    + Cardinality(MadeBy(p)) + Cardinality(OverBy(p))
<1>5. CASE connected[p] # 2
  BY <1>1, <1>2, <1>4, <1>5 DEF Placed, Nowhere
<1>6. CASE connected[p] = 2 /\ Queued(p)
  BY <1>1, <1>3, <1>6 DEF Queued
<1>7. CASE connected[p] = 2 /\ Held(p)
  <2>1. QueuedAt(p) = {} /\ MadeBy(p) = {} /\ OverBy(p) = {} /\ \E w : HeldBy(p) = {w}
    BY <1>2, <1>7 DEF Held
  <2>2. sum = 0 + 1 + 0 + 0
    BY <1>1, <2>1
  <2> QED
    BY <1>7, <2>2
<1>8. CASE connected[p] = 2 /\ Made(p)
  <2>1. QueuedAt(p) = {} /\ HeldBy(p) = {} /\ OverBy(p) = {} /\ \E w : MadeBy(p) = {w}
    BY <1>2, <1>8 DEF Made
  <2>2. sum = 0 + 0 + 1 + 0
    BY <1>1, <2>1
  <2> QED
    BY <1>8, <2>2
<1>9. CASE connected[p] = 2 /\ Over(p)
  <2>1. QueuedAt(p) = {} /\ HeldBy(p) = {} /\ MadeBy(p) = {} /\ \E h : OverBy(p) = {h}
    BY <1>2, <1>9 DEF Over
  <2>2. sum = 0 + 0 + 0 + 1
    BY <1>1, <2>1
  <2> QED
    BY <1>9, <2>2
<1> QED
  BY <1>4, <1>5, <1>6, <1>7, <1>8, <1>9 DEF Placed

(* No worker, thief or owner, loses or doubles a pair, and no wire makes   *)
(* two, whichever threads connect its ends: connect_wire_to_port,          *)
(* process_pair and the deques between them.                               *)
THEOREM PairsAlwaysConserved == Spec => []PairsConserved
<1>1. CInv => PairsConserved
  <2> SUFFICES ASSUME CInv PROVE PairsConserved
    OBVIOUS
  <2>1. CASE main # "raised"
    BY <2>1, OnePlace DEF CInv, Conserved, PairsConserved
  <2>2. CASE main = "raised"
    BY <2>2 DEF CInv, PairsConserved
  <2> QED
    BY <2>1, <2>2
<1> QED
  BY <1>1, InitConserves, NextConserves, PTL DEF Spec

-----------------------------------------------------------------------------
(* What the invariant leaves to say about types.  A caller that raised     *)
(* while it filled the queues has started no worker.                       *)
Rest ==
    /\ main \in {"wiring", "submitting", "waiting", "returned", "raised"}
    /\ connected \in [Pairs -> 0..2]
    /\ \A w \in Workers : Len(queues[w]) <= Capacity
    /\ value \in 0..N
    /\ outputs \subseteq graph.outputs
    /\ executed \subseteq Pairs
    /\ dropped \subseteq Pairs
    /\ main = "raised" => \A w \in Workers : pc[w] = "unstarted"

TInv == CInv /\ Rest

LEMMA InitIsTyped == Init => Rest
<1> SUFFICES ASSUME Init PROVE Rest
  OBVIOUS
<1>1. \A w \in Workers : Len(queues[w]) = 0
  BY DEF Init
<1> QED
  BY <1>1, Sizes DEF Init, Rest

LEMMA MainStaysTyped == ASSUME TInv, CInv', MainStep PROVE Rest'
<1>0. Types /\ WiringAlone /\ Rest
  BY DEF TInv, CInv, IInv
<1>1. CASE \E p \in graph.initial : WirePair(p)
  <2> PICK p \in graph.initial : WirePair(p)
    BY <1>1
  <2>1. /\ main = "wiring"
        /\ UNCHANGED <<graph, pc, value, outputs, executed, dropped>>
    BY DEF WirePair
  <2>2. connected' \in [Pairs -> 0..2]
    <3>1. connected \in [Pairs -> 0..2] /\ connected' = [connected EXCEPT ![p] = 2] /\ 2 \in 0..2
      BY <1>0 DEF WirePair, Rest
    <3> QED
      BY <3>1
  <2>3. CASE main' # "raised"
    <3>1. \A w \in Workers : Len(queues'[w]) <= Capacity
      BY <2>3 DEF CInv, Conserved
    <3>2. main' = main
      BY <2>3 DEF WirePair
    <3> QED
      BY <1>0, <2>1, <2>2, <2>3, <3>1, <3>2 DEF Rest
  <2>4. CASE main' = "raised"
    <3>1. queues' = queues
      BY <2>1, <2>4 DEF WirePair
    <3>2. \A w \in Workers : pc'[w] = "unstarted"
      BY <1>0, <2>1 DEF WiringAlone
    <3> QED
      BY <1>0, <2>1, <2>2, <2>4, <3>1, <3>2 DEF Rest
  <2> QED
    BY <2>3, <2>4
<1>2. CASE \E w \in Workers : Submit(w)
  BY <1>0, <1>2 DEF Submit, net, Rest
<1>3. CASE Return
  BY <1>0, <1>3 DEF Return, net, Rest
<1> QED
  BY <1>1, <1>2, <1>3 DEF MainStep

LEMMA WorkersStayTyped == ASSUME TInv, CInv', NEW w \in Workers, WorkerStep(w) PROVE Rest'
<1>0. Types /\ Safe(w) /\ Rest
  BY DEF TInv, CInv, IInv
<1>1. pc[w] # "unstarted"
  BY DEF WorkerStep, Exit, Pop, Steal, Begin, Connect, Push, Finish, Fail, ReportFailure, Signal
<1>2. main # "raised" /\ UNCHANGED <<main, graph>>
  BY <1>0, <1>1 DEF Rest, WorkerStep, Exit, Pop, Steal, Begin, Connect, Push, Finish, Fail,
                    ReportFailure, Signal
<1>3. connected' \in [Pairs -> 0..2] /\ \A v \in Workers : Len(queues'[v]) <= Capacity
  BY <1>2 DEF CInv, Conserved
<1>4. value' \in 0..N
  <2>1. w + 1 \in 0..N /\ 0 \in 0..N
    BY Sizes DEF Workers
  <2> QED
    BY <1>0, <2>1 DEF Rest, WorkerStep, Exit, Pop, Steal, Begin, Connect, Push, Finish, Fail,
                      ReportFailure, Signal
<1>5. outputs' \subseteq graph.outputs
  BY <1>0 DEF Rest, WorkerStep, Exit, Pop, Steal, Begin, Connect, Push, Finish, Fail,
              ReportFailure, Signal
<1>6. executed' \subseteq Pairs
  BY <1>0 DEF Rest, Safe, HandFull, Finished, WorkerStep, Exit, Pop, Steal, Begin, Connect, Push,
              Finish, Fail, ReportFailure, Signal
<1>7. dropped' \subseteq Pairs
  BY <1>0 DEF Rest, Safe, HandFull, WorkerStep, Exit, Pop, Steal, Begin, Connect, Push,
              Finish, Fail, ReportFailure, Signal
<1> QED
  BY <1>0, <1>2, <1>3, <1>4, <1>5, <1>6, <1>7 DEF Rest

LEMMA StepStaysTyped == TInv /\ [Next]_vars => TInv'
<1> SUFFICES ASSUME TInv, [Next]_vars PROVE TInv'
  OBVIOUS
<1>1. CInv'
  BY NextConserves DEF TInv
<1>2. CASE MainStep
  BY <1>1, <1>2, MainStaysTyped DEF TInv
<1>3. CASE \E w \in Workers : WorkerStep(w)
  BY <1>1, <1>3, WorkersStayTyped DEF TInv
<1>4. CASE UNCHANGED vars
  BY <1>1, <1>4 DEF TInv, Rest, vars, net
<1> QED
  BY <1>2, <1>3, <1>4 DEF Next, Done

LEMMA TypedIsOK == TInv => TypeOK
BY DEF TInv, CInv, IInv, Types, Places, Rest, TypeOK

(* No queue holds more than its capacity and no wire is connected a third  *)
(* time, in any run of the pool.                                           *)
THEOREM PoolTypesAlways == Spec => []TypeOK
<1>1. Init => TInv
  BY InitConserves, InitIsTyped DEF TInv
<1> QED
  BY <1>1, StepStaysTyped, TypedIsOK, PTL DEF Spec
=============================================================================
