------------------------- MODULE SerialExecutorProofs -------------------------
(***************************************************************************)
(* Proof that the serial executor reduces nets by the rules of             *)
(* InteractionNet: its stack of pairs is a bag of which it always takes    *)
(* the newest one, and its one thread is the caller until run is called,   *)
(* the worker afterwards.                                                  *)
(***************************************************************************)
EXTENDS SerialExecutor, SequenceTheorems, FiniteSetTheorems, TLAPS

(* A sequence is one over any set that holds its elements. *)
LEMMA OverItsElements ==
    ASSUME NEW S, NEW s \in Seq(S)
    PROVE  s \in Seq(ToSet(s))
<1>1. /\ Len(s) \in Nat /\ DOMAIN s = 1..Len(s) /\ s \in [1..Len(s) -> S]
  BY LenProperties
<1>2. s \in [1..Len(s) -> ToSet(s)]
  BY <1>1 DEF ToSet
<1> QED
  BY <1>1, <1>2

LEMMA PushedOver ==
    ASSUME NEW S, NEW s \in Seq(S), NEW e
    PROVE  s \in Seq(S \cup {e}) /\ Append(s, e) \in Seq(S \cup {e})
<1>1. s \in Seq(S \cup {e})
  BY SeqMonotonic
<1> QED
  BY <1>1, AppendProperties

(* How often each pair is on a stack. *)
Positions(s, pair) == {i \in DOMAIN s : s[i] = pair}
BagOf(s) == [pair \in ToSet(s) |-> Cardinality(Positions(s, pair))]

LEMMA PushedPositions ==
    ASSUME NEW S, NEW s \in Seq(S), NEW e, NEW pair
    PROVE  /\ IsFiniteSet(Positions(s, pair))
           /\ Cardinality(Positions(s, pair)) \in Nat
           /\ Cardinality(Positions(Append(s, e), pair))
                = Cardinality(Positions(s, pair)) + (IF pair = e THEN 1 ELSE 0)
           /\ pair \in ToSet(s) <=> Cardinality(Positions(s, pair)) # 0
<1> DEFINE t == Append(s, e)
           n == Len(s) + 1
<1>1. Len(s) \in Nat /\ DOMAIN s = 1..Len(s)
  OBVIOUS
<1>2. DOMAIN t = 1..n /\ t[n] = e /\ \A i \in 1..Len(s) : t[i] = s[i]
  BY PushedOver, AppendProperties, LenProperties
<1>3. IsFiniteSet(Positions(s, pair)) /\ Cardinality(Positions(s, pair)) \in Nat
  <2>1. IsFiniteSet(1..Len(s))
    BY <1>1, FS_Interval
  <2>2. Positions(s, pair) \in SUBSET (1..Len(s))
    BY <1>1 DEF Positions
  <2> QED
    BY <2>1, <2>2, FS_Subset, FS_CardinalityType
<1>4. n \notin Positions(s, pair)
  BY <1>1 DEF Positions
<1>5. pair \in ToSet(s) <=> Cardinality(Positions(s, pair)) # 0
  <2>1. pair \in ToSet(s) <=> Positions(s, pair) # {}
    BY DEF Positions, ToSet
  <2> QED
    BY <1>3, <2>1, FS_EmptySet
<1>6. CASE pair = e
  <2>1. Positions(t, pair) = Positions(s, pair) \cup {n}
    BY <1>1, <1>2, <1>6 DEF Positions
  <2> QED
    BY <1>3, <1>4, <1>6, <1>5, <2>1, FS_AddElement
<1>7. CASE pair # e
  <2>1. Positions(t, pair) = Positions(s, pair)
    BY <1>1, <1>2, <1>7 DEF Positions
  <2> QED
    BY <1>3, <1>7, <1>5, <2>1
<1> QED
  BY <1>6, <1>7

LEMMA PushedBag ==
    ASSUME NEW S, NEW s \in Seq(S), NEW e
    PROVE  /\ BagOf(Append(s, e)) = Inet!(+)(BagOf(s), Inet!SetToBag({e}))
           /\ BagOf(s) = Inet!(-)(BagOf(Append(s, e)), Inet!SetToBag({e}))
<1> DEFINE t == Append(s, e)
           n(pair) == Cardinality(Positions(s, pair))
           m(pair) == Cardinality(Positions(t, pair))
<1>1. ToSet(t) = ToSet(s) \cup {e}
  <2>1. /\ Len(s) \in Nat /\ DOMAIN s = 1..Len(s)
        /\ DOMAIN t = 1..(Len(s) + 1) /\ t[Len(s) + 1] = e /\ \A i \in 1..Len(s) : t[i] = s[i]
    BY PushedOver, AppendProperties, LenProperties
  <2> QED
    BY <2>1 DEF ToSet
<1>2. \A pair : /\ n(pair) \in Nat
                /\ m(pair) = n(pair) + (IF pair = e THEN 1 ELSE 0)
                /\ pair \in ToSet(s) <=> n(pair) # 0
  BY PushedPositions
<1>3. BagOf(s) = [pair \in ToSet(s) |-> n(pair)]
  BY DEF BagOf
<1>4. BagOf(t) = [pair \in ToSet(s) \cup {e} |-> m(pair)]
  BY <1>1 DEF BagOf
<1> HIDE DEF n, m
<1>5. BagOf(t) = Inet!(+)(BagOf(s), Inet!SetToBag({e}))
  <2>1. Inet!(+)(BagOf(s), Inet!SetToBag({e}))
          = [pair \in ToSet(s) \cup {e} |->
               (IF pair \in ToSet(s) THEN n(pair) ELSE 0) + (IF pair \in {e} THEN 1 ELSE 0)]
    BY <1>3 DEF Inet!(+), Inet!SetToBag
  <2>2. \A pair \in ToSet(s) \cup {e} :
           m(pair) = (IF pair \in ToSet(s) THEN n(pair) ELSE 0) + (IF pair \in {e} THEN 1 ELSE 0)
    BY <1>2
  <2> QED
    BY <1>4, <2>1, <2>2
<1>6. BagOf(s) = Inet!(-)(BagOf(t), Inet!SetToBag({e}))
  <2> DEFINE B == [pair \in ToSet(s) \cup {e} |->
                      IF pair \in {e} THEN m(pair) - 1 ELSE m(pair)]
  <2>1. Inet!(-)(BagOf(t), Inet!SetToBag({e}))
          = [pair \in {d \in DOMAIN B : B[d] > 0} |-> B[pair]]
    BY <1>4 DEF Inet!(-), Inet!SetToBag
  <2>2. \A pair \in ToSet(s) \cup {e} : B[pair] = n(pair)
    BY <1>2
  <2>3. {d \in DOMAIN B : B[d] > 0} = ToSet(s)
    BY <1>2, <2>2
  <2> QED
    BY <1>3, <2>1, <2>2, <2>3
<1> QED
  BY <1>5, <1>6

LEMMA PoppedBag ==
    ASSUME NEW S, NEW s \in Seq(S), s # <<>>
    PROVE  /\ BagOf(Front(s)) = Inet!(-)(BagOf(s), Inet!SetToBag({Last(s)}))
           /\ Last(s) \in Inet!BagToSet(BagOf(s))
           /\ Front(s) \in Seq(S)
<1>1. Len(s) \in Nat /\ Len(s) > 0 /\ DOMAIN s = 1..Len(s) /\ \A i \in 1..Len(s) : s[i] \in S
  BY LenProperties, EmptySeq, ElementOfSeq
<1>2. /\ Front(s) \in Seq(S)
      /\ Len(Front(s)) = Len(s) - 1
      /\ \A i \in 1..(Len(s) - 1) : Front(s)[i] = s[i]
  BY <1>1, SubSeqProperties DEF Front
<1>3. Last(s) \in S /\ Last(s) \in ToSet(s)
  BY <1>1 DEF Last, ToSet
<1>4. Append(Front(s), Last(s)) = s
  <2>1. /\ Append(Front(s), Last(s)) \in Seq(S)
        /\ Len(Append(Front(s), Last(s))) = Len(s)
        /\ \A i \in 1..(Len(s) - 1) : Append(Front(s), Last(s))[i] = s[i]
        /\ Append(Front(s), Last(s))[Len(s)] = s[Len(s)]
    <3> DEFINE f == Front(s)
               l == Last(s)
    <3> HIDE DEF f, l
    <3>1. f \in Seq(S) /\ l \in S /\ Len(f) = Len(s) - 1
      BY <1>2, <1>3 DEF f, l
    <3>2. /\ Append(f, l) \in Seq(S) /\ Len(Append(f, l)) = Len(f) + 1
          /\ \A i \in 1..Len(f) : Append(f, l)[i] = f[i]
          /\ Append(f, l)[Len(f) + 1] = l
      BY <3>1, AppendProperties
    <3> QED
      BY <1>1, <1>2, <3>1, <3>2 DEF f, l, Last
  <2> DEFINE u == Append(Front(s), Last(s))
  <2> HIDE DEF u
  <2>2. u \in Seq(S) /\ Len(u) = Len(s) /\ \A i \in 1..Len(s) : u[i] = s[i]
    BY <1>1, <2>1 DEF u
  <2>3. u = s
    BY <2>2, SeqEqual
  <2> QED
    BY <2>3 DEF u
<1>5. BagOf(Front(s)) = Inet!(-)(BagOf(Append(Front(s), Last(s))), Inet!SetToBag({Last(s)}))
  BY <1>2, PushedBag
<1> QED
  BY <1>2, <1>3, <1>4, <1>5 DEF BagOf, Inet!BagToSet

-----------------------------------------------------------------------------
(* The stack is a sequence, run is called or not, and every net has this   *)
(* executor for its crew.                                                  *)
Serial ==
    /\ active_pairs \in Seq(ToSet(active_pairs))
    /\ running \in BOOLEAN
    /\ net \in Nets

(* What the thread has to do is done by the caller before run. *)
Mapped == [t \in {"executor", "caller"} |-> IF (t = "executor") = running THEN todo ELSE <<>>]

LEMMA MappedTodo ==
    ASSUME Serial
    PROVE  /\ running => Mapped["executor"] = todo /\ Mapped["caller"] = <<>>
           /\ ~running => Mapped["executor"] = <<>> /\ Mapped["caller"] = todo
BY DEF Serial, Mapped

LEMMA InitSerial == Init => Serial
BY EmptySeq DEF Init, Serial

LEMMA StepSerial == Serial /\ [Next]_vars => Serial'
<1> SUFFICES ASSUME Serial, [Next]_vars PROVE Serial'
  OBVIOUS
<1>1. CASE ProcessPair
  <2>1. active_pairs' \in Seq(ToSet(active_pairs))
    BY <1>1, PoppedBag DEF Serial, ProcessPair, Remaining
  <2> QED
    BY <1>1, <2>1, OverItsElements DEF Serial, ProcessPair
<1>2. CASE Connect
  <2>1. active_pairs' = active_pairs \/ \E pair : active_pairs' = Append(active_pairs, pair)
    BY <1>2 DEF Connect, Pushed
  <2>2. ASSUME NEW pair, active_pairs' = Append(active_pairs, pair)
        PROVE  active_pairs' \in Seq(ToSet(active_pairs) \cup {pair})
    BY <2>2, PushedOver DEF Serial
  <2> QED
    BY <1>2, <2>1, <2>2, OverItsElements DEF Serial, Connect
<1>3. CASE Run
  BY <1>3 DEF Serial, Run
<1>4. CASE CallAgain
  BY <1>4 DEF Serial, CallAgain
<1>5. CASE UNCHANGED vars
  BY <1>5 DEF Serial, vars
<1> QED
  BY <1>1, <1>2, <1>3, <1>4, <1>5 DEF Next, Stopped

-----------------------------------------------------------------------------
(* The operators of InteractionNet's own copy of Ports are those of this   *)
(* module.                                                                 *)
LEMMA SamePorts ==
    ASSUME NEW connects, NEW name, NEW wires, NEW n
    PROVE  /\ Inet!Cardinality(wires) = Cardinality(wires)
           /\ Inet!Fresh(connects) = Fresh(connects)
           /\ Inet!Identities(wires, n) = Identities(wires, n)
           /\ Inet!Renamed(connects, name) = Renamed(connects, name)
<1>1. \A S : Inet!Cardinality(S) = Cardinality(S)
  BY DEF Inet!Cardinality, Cardinality
<1>2. Inet!Fresh(connects) = Fresh(connects)
  BY DEF Inet!Fresh, Fresh, Inet!WiresOf, WiresOf, Inet!ToSet, ToSet
<1>3. Inet!Identities(wires, n) = Identities(wires, n)
  BY <1>1 DEF Inet!Identities, Identities
<1>4. Inet!Renamed(connects, name) = Renamed(connects, name)
  BY DEF Inet!Renamed, Renamed, Inet!To, To, Inet!RenamedPort, RenamedPort
<1> QED
  BY <1>1, <1>2, <1>3, <1>4

LEMMA InitWired == Init => Inet!Wired
<1> SUFFICES ASSUME Init PROVE Inet!Wired
  OBVIOUS
<1>1. PairsBag = Inet!EmptyBag
  BY DEF Init, PairsBag, ToSet, Inet!EmptyBag, Inet!SetToBag
<1>2. Mapped = [t \in Inet!Threads |-> IF t = "caller" THEN net.connects ELSE <<>>]
  BY DEF Init, Mapped, Inet!Threads
<1> QED
  BY <1>1, <1>2 DEF Init, Mapped, Inet!Wired, Inet!Wires

LEMMA ProcessIsStep ==
    ASSUME Serial, ProcessPair
    PROVE  Inet!Begin("executor") \/ Inet!Raise("executor")
<1> DEFINE pair == Last(active_pairs)
<1>1. /\ PairsBag = BagOf(active_pairs)
      /\ PairsBag' = BagOf(Front(active_pairs))
  BY DEF ProcessPair, Remaining, PairsBag, BagOf, Positions
<1>2. /\ PairsBag' = Inet!(-)(PairsBag, Inet!SetToBag({pair}))
      /\ pair \in Inet!BagToSet(PairsBag)
  BY <1>1, PoppedBag DEF Serial, ProcessPair
<1>3. /\ Mapped["executor"] = <<>> /\ Mapped["caller"] = <<>>
      /\ running' = running
      /\ "executor" \in net.crew
  BY MappedTodo, ExecutorAssumption DEF Serial, ProcessPair
<1>4. CASE Inet!Legal(pair[1], pair[2]) /\ Begin(pair)
  <2> DEFINE connects == Inet!Interaction(pair[1], pair[2])
             name == Inet!Identities(Inet!Fresh(connects), allocated)
  <2>1. /\ allocated' = allocated + Inet!Cardinality(DOMAIN name)
        /\ allocated' <= MaxWires
        /\ todo' = Inet!Renamed(connects, name)
        /\ copied' = copied \cup Inet!Serves(pair[1], pair[2])
        /\ UNCHANGED raised
    BY <1>4, SamePorts DEF Begin
  <2> HIDE DEF connects, name
  <2>2. Mapped' = [Mapped EXCEPT !["executor"] = Inet!Renamed(connects, name)]
    BY <1>3, <2>1 DEF Mapped, ProcessPair
  <2>3. UNCHANGED <<net, target, uses, raised>>
    BY <2>1 DEF ProcessPair
  <2>4. ~raised
    BY DEF ProcessPair
  <2> QED
    BY <1>2, <1>3, <1>4, <2>1, <2>2, <2>3, <2>4 DEF Inet!Begin, Mapped, connects, name
<1>5. CASE ~Inet!Legal(pair[1], pair[2]) /\ Raise(pair)
  <2>1. Mapped' = Mapped
    BY <1>3, <1>5 DEF Mapped, Raise
  <2>2. ~raised /\ raised' = TRUE /\ UNCHANGED <<net, allocated, target, copied, uses>>
    BY <1>5 DEF ProcessPair, Raise
  <2> QED
    BY <1>2, <1>3, <1>5, <2>1, <2>2 DEF Inet!Raise, Mapped
<1> QED
  BY <1>4, <1>5 DEF ProcessPair

LEMMA ConnectIsStep ==
    ASSUME Serial, Connect
    PROVE  \E t \in {"executor", "caller"} : Inet!Connect(t)
<1> PICK t \in {"executor", "caller"} : t = IF running THEN "executor" ELSE "caller"
  OBVIOUS
<1> DEFINE w == Head(todo).wire
           port == Head(todo).port
<1>1. Mapped[t] = todo /\ todo # <<>>
  BY MappedTodo DEF Connect
<1>2. Mapped' = [Mapped EXCEPT ![t] = Tail(Mapped[t])]
  BY <1>1 DEF Mapped, Connect, Serial
<1>3. /\ uses' = [uses EXCEPT ![w] = @ + 1]
      /\ UNCHANGED <<net, allocated, copied, raised>>
  BY DEF Connect
<1>4. IF target[w] = NoPort
      THEN target' = [target EXCEPT ![w] = port] /\ UNCHANGED PairsBag
      ELSE /\ PairsBag' = Inet!(+)(PairsBag, Inet!SetToBag({<<target[w], port>>}))
           /\ UNCHANGED target
  <2>1. PairsBag = BagOf(active_pairs) /\ PairsBag' = BagOf(active_pairs')
    BY DEF PairsBag, BagOf, Positions
  <2>2. BagOf(Append(active_pairs, <<target[w], port>>))
          = Inet!(+)(BagOf(active_pairs), Inet!SetToBag({<<target[w], port>>}))
    BY PushedBag DEF Serial
  <2> QED
    BY <2>1, <2>2 DEF Connect, Pushed
<1>5. Inet!Connect(t)
  BY <1>1, <1>2, <1>3, <1>4 DEF Inet!Connect, Mapped
<1> QED
  BY <1>5

LEMMA StepIsStep == Serial /\ [Next]_vars => [CallAgain \/ Inet!Next]_(Inet!vars)
<1> SUFFICES ASSUME Serial, [Next]_vars PROVE [CallAgain \/ Inet!Next]_(Inet!vars)
  OBVIOUS
<1>1. {"executor", "caller"} = Inet!Threads
  BY DEF Inet!Threads
<1>2. CASE ProcessPair
  BY <1>1, <1>2, ProcessIsStep DEF Inet!Next, Inet!Step
<1>3. CASE Connect
  BY <1>1, <1>3, ConnectIsStep DEF Inet!Next, Inet!Step
<1>4. CASE Run
  <2>1. Mapped' = Mapped
    BY <1>4 DEF Mapped, Run
  <2>2. PairsBag' = PairsBag
    BY <1>4 DEF Run, PairsBag
  <2> QED
    BY <1>4, <2>1, <2>2 DEF Inet!vars, Run, Mapped
<1>5. CASE CallAgain
  BY <1>5
<1>6. CASE UNCHANGED vars
  <2>1. Mapped' = Mapped /\ PairsBag' = PairsBag
    BY <1>6 DEF Mapped, PairsBag, vars
  <2> QED
    BY <1>6, <2>1 DEF Inet!vars, Mapped, vars
<1> QED
  BY <1>2, <1>3, <1>4, <1>5, <1>6 DEF Next, Stopped

(* Every step of the executor, whatever its nets, is a step of             *)
(* InteractionNet, or wires the net of a new call.                         *)
THEOREM SerialReduces == Spec => Reduces
<1>1. Init => Serial /\ Inet!Wired
  BY InitSerial, InitWired
<1>2. Serial /\ [Next]_vars => Serial'
  BY StepSerial
<1>3. Serial /\ [Next]_vars => [CallAgain \/ Inet!Next]_(Inet!vars)
  BY StepIsStep
<1> QED
  BY <1>1, <1>2, <1>3, PTL DEF Spec, Reduces

-----------------------------------------------------------------------------
(* What InteractionNetProofs proves of a net's wires, of the linear nets   *)
(* among those that this executor runs.                                    *)
LinearNets == {n \in Nets : Linear(n)}

Counted == INSTANCE InteractionNetProofs WITH
    Nets <- LinearNets,
    Workers <- {"executor"}, caller <- "caller",
    active <- PairsBag,
    todo <- [t \in {"executor", "caller"} |-> IF (t = "executor") = running THEN todo ELSE <<>>]

(* Its definitions are those of Inet: they say the same when they are      *)
(* written out.                                                            *)
LEMMA SameRules ==
    ASSUME NEW t
    PROVE  /\ Counted!Begin(t) = Inet!Begin(t)
           /\ Counted!Raise(t) = Inet!Raise(t)
           /\ Counted!Connect(t) = Inet!Connect(t)
<1>1. Counted!Begin(t) = Inet!Begin(t)
  BY Zenon DEF
    Counted!Begin, Inet!Begin, Counted!Serves, Inet!Serves, Counted!Kinds, Inet!Kinds,
    Counted!PortOf, Inet!PortOf, Counted!Renamed, Inet!Renamed,
    Counted!RenamedPort, Inet!RenamedPort, Counted!To, Inet!To, Counted!Fresh, Inet!Fresh,
    Counted!WiresOf, Inet!WiresOf, Counted!ToSet, Inet!ToSet,
    Counted!Identities, Inet!Identities, Counted!Interaction, Inet!Interaction,
    Counted!Merge, Inet!Merge, Counted!fresh, Inet!fresh, Counted!New, Inet!New,
    Counted!MergePort, Inet!MergePort, Counted!Port, Inet!Port, Counted!Merged, Inet!Merged,
    Counted!MergeFn, Inet!MergeFn, Counted!Filters, Inet!Filters,
    Counted!Shorting, Inet!Shorting, Counted!ValuePort, Inet!ValuePort,
    Counted!Erasure, Inet!Erasure, Counted!Operand, Inet!Operand,
    Counted!OperandReady, Inet!OperandReady, Counted!Split, Inet!Split,
    Counted!SplitFn, Inet!SplitFn, Counted!Annihilations, Inet!Annihilations,
    Counted!Annihilate, Inet!Annihilate, Counted!Clone, Inet!Clone,
    Counted!Commute, Inet!Commute, Counted!Join, Inet!Join, Counted!WirePort, Inet!WirePort,
    Counted!AnnihilatePair, Inet!AnnihilatePair, Counted!BothCombs, Inet!BothCombs,
    Counted!Erase, Inet!Erase, Counted!Executes, Inet!Executes,
    Counted!PartnerOf, Inet!PartnerOf, Counted!Expand, Inet!Expand,
    Counted!ConcurrentValueMergeOf, Inet!ConcurrentValueMergeOf, Counted!Chain, Inet!Chain,
    Counted!Tuplate, Inet!Tuplate, Counted!CombPort, Inet!CombPort,
    Counted!Invoke, Inet!Invoke, Counted!Graft, Inet!Graft, Counted!Duplicate, Inet!Duplicate,
    Counted!Meet, Inet!Meet, Counted!ParallelOrOf, Inet!ParallelOrOf,
    Counted!AmbiguousOf, Inet!AmbiguousOf, Counted!IfThenElseOf, Inet!IfThenElseOf,
    Counted!Result, Inet!Result, Counted!Second, Inet!Second, Counted!Opened, Inet!Opened,
    Counted!Truthy, Inet!Truthy, Counted!CloseAfterContingentOf, Inet!CloseAfterContingentOf,
    Counted!SerialAndOf, Inet!SerialAndOf, Counted!SerialOrOf, Inet!SerialOrOf,
    Counted!Materialize, Inet!Materialize, Counted!CopyOf, Inet!CopyOf,
    Counted!Copied, Inet!Copied, Counted!Concat, Inet!Concat,
    Counted!FlattenSeq, Inet!FlattenSeq, Counted!Max, Inet!Max, Counted!Legal, Inet!Legal,
    Counted!(-), Inet!(-), Counted!SetToBag, Inet!SetToBag, Counted!BagToSet, Inet!BagToSet,
    Counted!Cardinality, Inet!Cardinality
<1>2. Counted!Raise(t) = Inet!Raise(t)
  BY Zenon DEF
    Counted!Raise, Inet!Raise, Counted!Legal, Inet!Legal, Counted!Kinds, Inet!Kinds,
    Counted!BothCombs, Inet!BothCombs, Counted!(-), Inet!(-), Counted!SetToBag, Inet!SetToBag,
    Counted!BagToSet, Inet!BagToSet
<1>3. Counted!Connect(t) = Inet!Connect(t)
  BY Zenon DEF
    Counted!Connect, Inet!Connect, Counted!(+), Inet!(+), Counted!SetToBag, Inet!SetToBag
<1> QED
  BY <1>1, <1>2, <1>3

LEMMA SameState ==
    /\ Counted!Wired = Inet!Wired
    /\ Counted!vars = Inet!vars
    /\ Counted!TypeOK = Inet!TypeOK
    /\ Counted!WiresLinear = Inet!WiresLinear
<1>1. Counted!Wired = Inet!Wired
  BY Zenon DEF
    Counted!Wired, Inet!Wired, Counted!Threads, Inet!Threads, Counted!Wires, Inet!Wires,
    Counted!EmptyBag, Inet!EmptyBag, Counted!SetToBag, Inet!SetToBag
<1>2. Counted!vars = Inet!vars
  BY Zenon DEF Counted!vars, Inet!vars
<1>3. Counted!TypeOK = Inet!TypeOK
  BY Zenon DEF
    Counted!TypeOK, Inet!TypeOK, Counted!IsPort, Inet!IsPort,
    Counted!PortKinds, Inet!PortKinds, Counted!ToSet, Inet!ToSet,
    Counted!Threads, Inet!Threads, Counted!Observed, Inet!Observed,
    Counted!ObservedIn, Inet!ObservedIn, Counted!BagToSet, Inet!BagToSet
<1>4. Counted!WiresLinear = Inet!WiresLinear
  BY Zenon DEF
    Counted!WiresLinear, Inet!WiresLinear, Counted!Observed, Inet!Observed,
    Counted!ObservedIn, Inet!ObservedIn, Counted!Count, Inet!Count,
    Counted!Shared, Inet!Shared, Counted!Holding, Inet!Holding, Counted!Threads, Inet!Threads,
    Counted!Waiting, Inet!Waiting, Counted!ToSet, Inet!ToSet,
    Counted!PendingEnds, Inet!PendingEnds, Counted!EndsIn, Inet!EndsIn,
    Counted!Ends, Inet!Ends, Counted!PairEnds, Inet!PairEnds, Counted!Copies, Inet!Copies,
    Counted!WaitingEnds, Inet!WaitingEnds, Counted!BagToSet, Inet!BagToSet,
    Counted!Cardinality, Inet!Cardinality
<1> QED
  BY <1>1, <1>2, <1>3, <1>4

LEMMA SameConnects ==
    ASSUME NEW n, NEW cs, NEW W, NEW w, NEW e
    PROVE  /\ Counted!Deterministic(n) = Inet!Deterministic(n)
           /\ Counted!PortsOver(n, W) = Inet!PortsOver(n, W)
           /\ Counted!ConnectsOver(n, W) = Inet!ConnectsOver(n, W)
           /\ Counted!OwnWires = Inet!OwnWires /\ Counted!Wires = Inet!Wires
           /\ Counted!Uncaught(n) = Inet!Uncaught(n)
           /\ Counted!ObservedIn(n) = Inet!ObservedIn(n)
           /\ Counted!CatchesResults(n, cs) = Inet!CatchesResults(n, cs)
           /\ Counted!WiresOf(cs) = Inet!WiresOf(cs)
           /\ Counted!Joined(n, cs, w, e) = Inet!Joined(n, cs, w, e)
<1>1. Counted!Deterministic(n) = Inet!Deterministic(n)
  BY Zenon DEF Counted!Deterministic, Inet!Deterministic
<1>2. /\ Counted!PortsOver(n, W) = Inet!PortsOver(n, W)
      /\ Counted!ConnectsOver(n, W) = Inet!ConnectsOver(n, W)
  BY Zenon DEF
    Counted!PortsOver, Inet!PortsOver, Counted!Arity, Inet!Arity,
    Counted!Catches, Inet!Catches, Counted!PortKinds, Inet!PortKinds,
    Counted!ConnectsOver, Inet!ConnectsOver
<1>3. /\ Counted!OwnWires = Inet!OwnWires /\ Counted!Wires = Inet!Wires
      /\ Counted!Uncaught(n) = Inet!Uncaught(n)
      /\ Counted!ObservedIn(n) = Inet!ObservedIn(n)
  BY Zenon DEF
    Counted!OwnWires, Inet!OwnWires, Counted!Wires, Inet!Wires,
    Counted!Uncaught, Inet!Uncaught, Counted!ObservedIn, Inet!ObservedIn
<1>4. Counted!CatchesResults(n, cs) = Inet!CatchesResults(n, cs)
  BY Zenon DEF
    Counted!CatchesResults, Inet!CatchesResults, Counted!Caught, Inet!Caught,
    Counted!Catches, Inet!Catches, Counted!ResultOnly, Inet!ResultOnly
<1>5. Counted!WiresOf(cs) = Inet!WiresOf(cs)
  BY Zenon DEF Counted!WiresOf, Inet!WiresOf, Counted!ToSet, Inet!ToSet
<1>6. Counted!Joined(n, cs, w, e) = Inet!Joined(n, cs, w, e)
  BY Zenon DEF
    Counted!Joined, Inet!Joined, Counted!EndsIn, Inet!EndsIn, Counted!Ends, Inet!Ends,
    Counted!Count, Inet!Count, Counted!Cardinality, Inet!Cardinality
<1> QED
  BY <1>1, <1>2, <1>3, <1>4, <1>5, <1>6

LEMMA SameTemplates ==
    ASSUME NEW x, NEW w, NEW v, NEW ws
    PROVE  /\ Counted!Copied(x) = Inet!Copied(x)
           /\ Counted!CopyOf(x, w) = Inet!CopyOf(x, w)
           /\ Counted!Join(v, w) = Inet!Join(v, w)
           /\ Counted!Annihilate(w) = Inet!Annihilate(w)
           /\ Counted!Second = Inet!Second /\ Counted!Result = Inet!Result
           /\ Counted!Opened(ws) = Inet!Opened(ws)
  BY Zenon DEF
    Counted!Copied, Inet!Copied, Counted!Concat, Inet!Concat,
    Counted!FlattenSeq, Inet!FlattenSeq, Counted!To, Inet!To, Counted!New, Inet!New,
    Counted!Meet, Inet!Meet, Counted!Max, Inet!Max, Counted!RenamedPort, Inet!RenamedPort,
    Counted!CopyOf, Inet!CopyOf, Counted!ToSet, Inet!ToSet, Counted!Join, Inet!Join,
    Counted!WirePort, Inet!WirePort, Counted!Port, Inet!Port,
    Counted!Annihilate, Inet!Annihilate, Counted!Erasure, Inet!Erasure,
    Counted!Second, Inet!Second, Counted!Result, Inet!Result, Counted!Opened, Inet!Opened,
    Counted!Chain, Inet!Chain, Counted!Tuplate, Inet!Tuplate, Counted!CombPort, Inet!CombPort

LEMMA SameNets ==
    ASSUME NEW n
    PROVE  /\ Inet!LinearNet(n) => Counted!LinearNet(n)
           /\ \A cs : Inet!LinearCall(n, cs) => Counted!LinearCall(n, cs)
<1>1. ASSUME NEW x, Inet!LinearExpansion(n, x) PROVE Counted!LinearExpansion(n, x)
  <2> USE SameConnects, SameTemplates
  <2> QED
    BY <1>1 DEF Inet!LinearExpansion, Counted!LinearExpansion
<1>2. Inet!LinearNet(n) => Counted!LinearNet(n)
  BY <1>1, SameConnects DEF Inet!LinearNet, Counted!LinearNet
<1>3. ASSUME NEW cs, Inet!LinearCall(n, cs) PROVE Counted!LinearCall(n, cs)
  BY <1>3, SameConnects DEF Inet!LinearCall, Counted!LinearCall
<1> QED
  BY <1>2, <1>3

(* The wires of the nets of all calls, and the types of what is said about *)
(* the calls.                                                              *)
SInv ==
    /\ Serial
    /\ Linear(net)
    /\ Counted!NInv
    /\ calls \in 1..(Len(net.again) + 1)
    /\ outputs \in Seq(ToSet(outputs))
    /\ Len(outputs) <= calls

(* What is assumed of the nets of InteractionNetProofs. *)
Assumptions ==
    /\ "caller" \notin {"executor"}
    /\ \A n \in LinearNets : n.crew \subseteq {"executor"}
    /\ MaxWires \in Nat
    /\ \A n \in LinearNets : Counted!Deterministic(n) =>
          Counted!LinearNet(n) /\ NoPort \notin Counted!PortsOver(n, Counted!Wires)
    /\ {"", "x", "l", "r", "True", "False"} \subseteq STRING

LEMMA AssumptionsHold == Assumptions
<1>1. \A n \in LinearNets : n.crew \subseteq {"executor"}
  BY ExecutorAssumption DEF LinearNets
<1>2. ASSUME NEW n \in LinearNets
      PROVE  Counted!LinearNet(n) /\ NoPort \notin Counted!PortsOver(n, Counted!Wires)
  <2>1. Inet!LinearNet(n) /\ n \in Nets
    BY DEF LinearNets, Linear
  <2>2. NoPort \notin Inet!PortsOver(n, Inet!Wires)
    BY <2>1, PortAssumption
  <2> QED
    BY <2>1, <2>2, SameNets, SameConnects
<1> QED
  BY <1>1, <1>2, ExecutorAssumption, NamesAssumption DEF Assumptions

LEMMA CountedLemmas ==
    /\ Counted!Init /\ Counted!Deterministic(net) => Counted!NInv
    /\ Counted!NInv /\ [Counted!Next]_(Counted!vars) => Counted!NInv'
    /\ Counted!NInv => Counted!TypeOK /\ Counted!WiresLinear
  BY AssumptionsHold, Counted!InitBalanced, Counted!NextBalanced,
     Counted!BalancedIsTyped, Counted!BalancedIsLinear DEF Assumptions

(* A call wires its net for the caller, of wires of its own. *)
LEMMA WiringLemma ==
    ASSUME Counted!NInv, NEW t \in Counted!Threads, NEW cs, Counted!LinearCall(net, cs),
           Mapped[t] = <<>>,
           allocated' = allocated
             + Counted!Cardinality(DOMAIN Counted!Identities(Counted!Fresh(cs), allocated)),
           allocated' <= MaxWires,
           Mapped' = [Mapped EXCEPT ![t] =
                        Counted!Renamed(cs, Counted!Identities(Counted!Fresh(cs), allocated))],
           UNCHANGED <<net, target, copied, uses, PairsBag, raised>>
    PROVE  Counted!NInv'
  BY AssumptionsHold, Counted!WiringBalanced DEF Assumptions, Mapped

LEMMA CallWires == ASSUME SInv, CallAgain PROVE Counted!NInv'
<1> DEFINE cs == net.again[calls]
           name == Identities(Fresh(cs), allocated)
<1>1. /\ allocated' = allocated + Cardinality(DOMAIN name)
      /\ allocated' <= MaxWires
      /\ todo' = Renamed(cs, name)
      /\ running /\ todo = <<>> /\ running' = FALSE /\ calls <= Len(net.again)
      /\ UNCHANGED <<net, target, copied, uses, active_pairs, raised>>
  BY DEF CallAgain, Returned
<1>2. Inet!LinearCall(net, cs)
  <2>1. net.again \in Seq(ToSet(net.again)) /\ calls \in 1..(Len(net.again) + 1)
    BY ExecutorAssumption DEF SInv, Serial
  <2>2. calls \in DOMAIN net.again
    BY <1>1, <2>1
  <2> QED
    BY <2>2 DEF SInv, Linear
<1>3. Mapped["caller"] = <<>> /\ Mapped' = [Mapped EXCEPT !["caller"] = Renamed(cs, name)]
  BY <1>1 DEF Mapped
<1>4. /\ Counted!Cardinality(DOMAIN name) = Cardinality(DOMAIN name)
      /\ Counted!Identities(Counted!Fresh(cs), allocated) = name
      /\ Counted!Renamed(cs, name) = Renamed(cs, name)
  BY Zenon DEF Counted!Cardinality, Cardinality, Counted!Identities, Identities,
    Counted!Fresh, Fresh, Counted!WiresOf, WiresOf, Counted!ToSet, ToSet,
    Counted!Renamed, Renamed, Counted!RenamedPort, RenamedPort, Counted!To, To
<1>5. PairsBag' = PairsBag
  BY <1>1 DEF PairsBag
<1>6. "caller" \in Counted!Threads /\ Counted!NInv /\ Counted!LinearCall(net, cs)
  BY <1>2, SameNets DEF Counted!Threads, SInv
<1> HIDE DEF cs, name
<1> QED
  BY <1>1, <1>3, <1>4, <1>5, <1>6, WiringLemma

LEMMA InitCounted == Init /\ Linear(net) => SInv
<1> SUFFICES ASSUME Init, Linear(net) PROVE SInv
  OBVIOUS
<1>1. Counted!Init /\ Counted!Deterministic(net)
  BY InitWired, SameState, SameConnects DEF Init, Counted!Init, LinearNets, Linear
<1>2. net.again \in Seq(ToSet(net.again))
  BY ExecutorAssumption DEF Init
<1>3. calls = 1 /\ outputs = <<>>
  BY DEF Init
<1> QED
  BY <1>1, <1>2, <1>3, InitSerial, CountedLemmas DEF SInv

LEMMA StepCounted == SInv /\ [Next]_vars => SInv'
<1> SUFFICES ASSUME SInv, [Next]_vars PROVE SInv'
  OBVIOUS
<1>1. Serial' /\ [CallAgain \/ Inet!Next]_(Inet!vars)
  BY StepSerial, StepIsStep DEF SInv
<1>2. net' = net
  BY DEF Next, ProcessPair, Connect, Run, CallAgain, Stopped, vars
<1>3. Counted!NInv'
  <2>1. CASE CallAgain
    BY <2>1, CallWires
  <2>2. CASE [Inet!Next]_(Inet!vars)
    <3>1. Counted!Threads = Inet!Threads /\ Counted!Stopped = Inet!Stopped
      BY Zenon DEF Counted!Threads, Inet!Threads, Counted!Stopped, Inet!Stopped,
        Counted!Quiescent, Inet!Quiescent, Counted!EmptyBag, Inet!EmptyBag,
        Counted!SetToBag, Inet!SetToBag, Counted!vars, Inet!vars
    <3>2. \A t : Inet!Step(t) => Counted!Step(t)
      BY SameRules, Zenon DEF Inet!Step, Counted!Step
    <3>3. Inet!Next => Counted!Next
      BY <3>1, <3>2, Zenon DEF Inet!Next, Counted!Next
    <3>4. [Counted!Next]_(Counted!vars)
      <4>1. CASE Inet!Next
        BY <3>3, <4>1
      <4>2. CASE UNCHANGED Inet!vars
        BY <4>2 DEF Inet!vars, Counted!vars
      <4> QED
        BY <2>2, <4>1, <4>2
    <3> QED
      BY <3>4, CountedLemmas DEF SInv
  <2> QED
    BY <1>1, <2>1, <2>2
<1>4. net.again \in Seq(ToSet(net.again)) /\ Len(net.again) \in Nat
  BY ExecutorAssumption DEF SInv, Serial
<1>5. calls' \in 1..(Len(net.again) + 1) /\ outputs' \in Seq(ToSet(outputs')) /\ Len(outputs') <= calls'
  <2>1. /\ calls \in 1..(Len(net.again) + 1) /\ outputs \in Seq(ToSet(outputs))
        /\ Len(outputs) <= calls
    BY DEF SInv
  <2>2. CASE ProcessPair
    <3>1. calls' = calls /\ Len(outputs) # calls
      BY <2>2 DEF ProcessPair, Ended
    <3>2. outputs' = outputs \/ \E o : outputs' = outputs \o <<o>>
      <4>1. \A l, r : Received(l, r) = <<>> \/ \E o : Received(l, r) = <<o>>
        BY DEF Received
      <4>2. outputs' = outputs \/ \E l, r : outputs' = outputs \o Received(l, r)
        BY <2>2 DEF ProcessPair, Begin, Raise
      <4>3. outputs \o <<>> = outputs
        BY <2>1, ConcatEmptySeq
      <4> QED
        BY <4>1, <4>2, <4>3, Zenon
    <3>3. ASSUME NEW o, outputs' = outputs \o <<o>>
          PROVE  outputs' \in Seq(ToSet(outputs')) /\ Len(outputs') = Len(outputs) + 1
      <4>1. outputs \in Seq(ToSet(outputs) \cup {o})
        BY <2>1, PushedOver
      <4>2. /\ outputs' \in Seq(ToSet(outputs) \cup {o})
            /\ Len(outputs') = Len(outputs) + 1
        BY <3>3, <4>1
      <4> QED
        BY <4>2, OverItsElements
    <3>4. Len(outputs) \in Nat
      BY <2>1
    <3>5. CASE outputs' = outputs
      BY <2>1, <3>1, <3>5
    <3>6. CASE \E o : outputs' = outputs \o <<o>>
      <4>1. outputs' \in Seq(ToSet(outputs')) /\ Len(outputs') = Len(outputs) + 1
        BY <3>3, <3>6
      <4> QED
        BY <1>4, <2>1, <3>1, <3>4, <4>1
    <3> QED
      BY <3>2, <3>5, <3>6
  <2>3. CASE CallAgain
    BY <1>4, <2>1, <2>3 DEF CallAgain
  <2>4. CASE UNCHANGED <<calls, outputs>>
    BY <2>1, <2>4
  <2> QED
    BY <2>2, <2>3, <2>4 DEF Next, Connect, Run, Stopped, vars
<1> QED
  BY <1>1, <1>2, <1>3, <1>5 DEF SInv

(* The serial executor keeps the wires of all calls linear, whatever the   *)
(* nets are and however many calls are made: the pairs that one run leaves *)
(* behind and the net of the next call have no end in common, and no end   *)
(* is lost, erasures that the callback catches included (executor.py,      *)
(* python_backend.py).                                                     *)
THEOREM CallsLinearAlways == Spec /\ Linear(net) => []CallsLinear
<1>1. Init /\ Linear(net) => SInv
  BY InitCounted
<1>2. SInv /\ [Next]_vars => SInv'
  BY StepCounted
<1>3. SInv => CallsLinear
  BY CountedLemmas, SameState DEF SInv, CallsLinear
<1> QED
  BY <1>1, <1>2, <1>3, PTL DEF Spec

(* Type correctness of the serial executor: ports over allocated wires, no *)
(* wire connected a third time, and at most one answer for each call.      *)
THEOREM SerialTypesAlways == Spec /\ Linear(net) => []TypeOK
<1>1. Init /\ Linear(net) => SInv
  BY InitCounted
<1>2. SInv /\ [Next]_vars => SInv'
  BY StepCounted
<1>3. SInv => TypeOK
  BY CountedLemmas, SameState DEF SInv, Serial, TypeOK
<1> QED
  BY <1>1, <1>2, <1>3, PTL DEF Spec

===============================================================================
