---------------------------- MODULE InteractionNet ----------------------------
(***************************************************************************)
(* The reduction rules of src/natsune/first_order/interactions.py over the *)
(* ports of first_order/ports.py and the connect operations of             *)
(* backend/connector.py, executed by several workers.                      *)
(*                                                                         *)
(* A wire joins two ends.  Whoever connects its first end leaves a port in *)
(* the wire; whoever connects the second one takes that port out and makes *)
(* an active pair.  Executing an active pair is a sequence of connects,    *)
(* each of them atomic (global_wire_lock), so that the interactions of     *)
(* several workers interleave connect by connect.  The order in which the  *)
(* executors hand out active pairs is left open: any pair may be next.     *)
(*                                                                         *)
(* Making an active pair and pushing it are one step: until it is pushed   *)
(* the pair is known to the pushing worker alone.                          *)
(***************************************************************************)
EXTENDS Expansions, Bags

CONSTANTS
    Workers,        \* threads that execute active pairs; a net has a crew of them
    caller,         \* the thread that wires the net
    Nets,           \* the nets the caller may wire, and what is expected of them
    Raising,        \* values on which the merge and split functions raise
    MaxWires,       \* bound on the wires a reduction allocates
    NoPort          \* Wire.target is None

ASSUME NetAssumption ==
    /\ caller \notin Workers
    /\ \A n \in Nets : n.crew \subseteq Workers
    /\ MaxWires \in Nat

Threads == Workers \cup {caller}
Wires == 1..MaxWires

-----------------------------------------------------------------------------
(* The ends of wires that a port holds, and those that connects have still *)
(* to make: counted from the end, so that they stay when the first connect *)
(* is done.                                                                *)
Ends(holder, port) ==
    {[holder |-> holder, nth |-> i, wire |-> port.wires[i]] : i \in DOMAIN port.wires}

EndsIn(t, connects) ==
    UNION {Ends(<<t, Len(connects) - i>>, connects[i].port)
             \cup {[holder |-> <<t, Len(connects) - i>>, nth |-> 0, wire |-> connects[i].wire]}
           : i \in DOMAIN connects}

Count(ends, w) == Cardinality({e \in ends : e.wire = w})

PortKinds == {"wire", "value", "erasure", "comb", "merge", "split", "graft"}

(* How many wires a port has.  (The two grafts of an ambiguous pair have   *)
(* two, which they share.)                                                 *)
Arity(kind) == IF kind \in {"value", "erasure"} THEN 0 ELSE IF kind \in {"wire", "graft"} THEN 1 ELSE 2

(* The graft that catches an erasure has none. *)
Catches(n, p) == p.kind = "graft" /\ n.expansions[p.label].does = "catch"

PortsOver(n, wires) ==
    {p \in [kind : PortKinds, label : STRING, value : Seq(STRING), swapped : BOOLEAN,
            wires : Seq(wires)] :
        /\ p.kind = "graft" => p.label \in DOMAIN n.expansions
        /\ Len(p.wires) = IF Catches(n, p) THEN 0 ELSE Arity(p.kind)}

ConnectsOver(n, wires) == Seq([wire : wires, port : PortsOver(n, wires)])

OwnWires == {w \in Int : w < 0}

(* A net that does not depend on what arrives first. *)
Deterministic(n) ==
    \A l \in DOMAIN n.expansions :
        n.expansions[l].does \in {"template", "or", "and", "contingent", "if", "catch"}

(* The net without what catches.  No expansion makes a graft that does.    *)
Uncaught(n) ==
    [drops |-> n.drops,
     expansions |-> [l \in {k \in DOMAIN n.expansions : n.expansions[k].does # "catch"}
                       |-> n.expansions[l]]]

(* What catches drops the wires of what it meets.  It closes the result of *)
(* a merge, which is a value or an erasure.                                *)
ResultOnly(p, w) == \A i \in DOMAIN p.wires : p.wires[i] = w => p.kind = "merge" /\ i = 2

Caught(n, p) == p.kind \in {"value", "erasure"} \/ Catches(n, p)

CatchesResults(n, connects) ==
    \A i \in DOMAIN connects : Catches(n, connects[i].port) =>
        \A j \in DOMAIN connects :
            /\ ResultOnly(connects[j].port, connects[i].wire)
            /\ connects[j].wire = connects[i].wire => Caught(n, connects[j].port)

(* Some code drops a register that it does not close: n.drops. *)
Joined(n, connects, w, ends) ==
    LET count == Count(EndsIn(caller, connects), w)
    IN  IF n.drops THEN count <= ends ELSE count = ends

(* A template has two open ends, what closes an input has the input.       *)
LinearExpansion(n, x) ==
    LET input == CopyOf(x.template, x.template.input)
        output == CopyOf(x.template, x.template.output)
        template == Copied(x.template) \o <<Join(input, output)>>
        closing == x.closing \o <<Annihilate(Second)>>
    IN  /\ x.does = "template" =>
              /\ Copied(x.template) \in ConnectsOver(Uncaught(n), OwnWires)
              /\ {input, output} \subseteq OwnWires
              /\ \A w \in WiresOf(template) : Joined(n, template, w, 2)
        /\ x.does = "contingent" =>
              /\ x.closing \in ConnectsOver(Uncaught(n), OwnWires)
              /\ \A w \in WiresOf(closing) : Joined(n, closing, w, 2)
              /\ WiresOf(x.closing) \cap WiresOf(Opened(<<Result>>)) \subseteq {Second}
        /\ x.does = "if" => {x.first, x.second} \subseteq DOMAIN Uncaught(n).expansions

(* The observer keeps one end of each wire that it reads. *)
ObservedIn(n) == DOMAIN (CHOOSE e \in n.expected : TRUE)

LinearNet(n) ==
    /\ n.wires \in 0..MaxWires
    /\ DOMAIN n.expansions \subseteq STRING
    /\ ObservedIn(n) \subseteq 1..n.wires
    /\ n.connects \in ConnectsOver(n, 1..n.wires)
    /\ CatchesResults(n, n.connects)
    /\ \A w \in 1..n.wires : Joined(n, n.connects, w, IF w \in ObservedIn(n) THEN 1 ELSE 2)
    /\ \A l \in DOMAIN n.expansions : LinearExpansion(n, n.expansions[l])

(* A net that is wired beside the others, of wires of its own.             *)
LinearCall(n, connects) ==
    /\ connects \in ConnectsOver(n, OwnWires)
    /\ CatchesResults(n, connects)
    /\ \A w \in WiresOf(connects) : Joined(n, connects, w, 2)

(* Whoever wires a net or builds a template connects every end once.       *)
ASSUME LinearAssumption ==
    \A n \in Nets : Deterministic(n) => LinearNet(n) /\ NoPort \notin PortsOver(n, Wires)

(* The labels and tokens that the rules make. *)
ASSUME NamesAssumption == {"", "x", "l", "r", "True", "False"} \subseteq STRING

-----------------------------------------------------------------------------
VARIABLES
    net,            \* the net that is reduced
    allocated,      \* the wires made so far
    target,         \* Wire.target
    copied,         \* AmbiguousPair.copied, by the wires of the pair
    uses,           \* history: how many ends of each wire were connected
    active,         \* the active pairs, a bag
    todo,           \* the connects each thread has still to do
    raised          \* an interaction raised, which stops the run

vars == <<net, allocated, target, copied, uses, active, todo, raised>>

Wired ==
    /\ allocated = net.wires
    /\ target = [w \in Wires |-> NoPort]
    /\ copied = {}
    /\ uses = [w \in Wires |-> 0]
    /\ active = EmptyBag
    /\ todo = [t \in Threads |-> IF t = caller THEN net.connects ELSE <<>>]
    /\ raised = FALSE

Init == net \in Nets /\ Wired

-----------------------------------------------------------------------------
(* The rules.  Each returns the connects of one interaction in their       *)
(* order; fresh(i) is the i-th wire the rule makes.                        *)
fresh(i) == New(0, i)

EraseOne(l, r) == Annihilations(l)

Erase(l, r) == Annihilations(l) \o Annihilations(r)

AnnihilatePair(l, r) ==
    <<Join(l.wires[1], r.wires[1]), Join(l.wires[2], r.wires[2])>>

CommuteStraight(l, r) ==
    LET copy(p, i) == [p EXCEPT !.wires = <<fresh(i), fresh(i + 1)>>]
        l1 == copy(l, 1)  l2 == copy(l, 3)  r1 == copy(r, 5)  r2 == copy(r, 7)
    IN  <<Join(l1.wires[1], r1.wires[2]), Join(l1.wires[2], r2.wires[2]),
          Join(l2.wires[1], r1.wires[1]), Join(l2.wires[2], r2.wires[1]),
          To(l.wires[1], l1), To(l.wires[2], l2), To(r.wires[1], r1), To(r.wires[2], r2)>>

(* The outputs of each agent meet the copies of the other one. *)
Commute(l, r) ==
    LET copy(p, i) == [p EXCEPT !.wires = <<fresh(i), fresh(i + 1)>>]
        l1 == copy(l, 1)  l2 == copy(l, 3)  r1 == copy(r, 5)  r2 == copy(r, 7)
    IN  <<Join(l1.wires[1], r1.wires[2]), Join(l1.wires[2], r2.wires[2]),
          Join(l2.wires[1], r1.wires[1]), Join(l2.wires[2], r2.wires[1]),
          To(l.wires[1], r1), To(l.wires[2], r2), To(r.wires[1], l1), To(r.wires[2], l2)>>

Clone(comb, v) == <<To(comb.wires[1], v), To(comb.wires[2], v)>>

Split(ext, v) ==
    IF v.value \in Raising THEN Annihilations(ext)
    ELSE [i \in 1..2 |-> To(ext.wires[i], ValuePort(SplitFn(v.value)[i]))]

(* The other operand is read without the lock.  When it is not there the   *)
(* port goes and waits for it, with the operand it met in a wire of its    *)
(* own: fresh(1).                                                          *)
Operand(ext) == target[ext.wires[1]]

OperandReadyByWire(ext) == Operand(ext) # NoPort /\ Operand(ext).kind = "wire"

OperandReady(ext) == Operand(ext) # NoPort /\ Operand(ext).kind = "value"

Merged(ext, v) ==
    LET other == Operand(ext).value IN
    IF {v.value, other} \cap Raising # {} THEN Erasure
    ELSE ValuePort(IF ext.swapped THEN MergeFn(ext.label, other, v.value)
                                  ELSE MergeFn(ext.label, v.value, other))

MergeInPlace(ext, v) ==
    IF OperandReady(ext)
    THEN <<To(ext.wires[1], Erasure), To(ext.wires[2], Merged(ext, v))>>
    ELSE <<To(ext.wires[1], MergePort(ext.label, ~ext.swapped, ext.wires[1], ext.wires[2]))>>

Merge(ext, v) ==
    IF OperandReady(ext)
    THEN <<To(ext.wires[1], Erasure), To(ext.wires[2], Merged(ext, v))>>
    ELSE <<To(fresh(1), v), To(ext.wires[1], MergePort(ext.label, ~ext.swapped, fresh(1), ext.wires[2]))>>

Kinds(l, r) == {l.kind, r.kind}
PortOf(kind, l, r) == IF l.kind = kind THEN l ELSE r
PartnerOf(kind, l, r) == IF l.kind = kind THEN r ELSE l
BothCombs(l, r) == Kinds(l, r) = {"comb"}

(* execute_interaction: wires first, then grafts, then erasures, then the  *)
(* rest.                                                                   *)
Legal(l, r) ==
    \/ "wire" \in Kinds(l, r)
    \/ "graft" \in Kinds(l, r) /\ Kinds(l, r) # {"graft"}
    \/ "graft" \notin Kinds(l, r) /\ "erasure" \in Kinds(l, r)
    \/ BothCombs(l, r)
    \/ \E k \in {"comb", "merge", "split"} : Kinds(l, r) = {k, "value"}

ExecutesUnlocked(l, r) ==
    LET graft == PortOf("graft", l, r)
        seen == IF \E t \in Workers : todo[t] # <<>> THEN {} ELSE copied
    IN  Expand(net.expansions[graft.label], seen, PartnerOf("graft", l, r), graft.wires)

Executes(l, r) ==
    LET graft == PortOf("graft", l, r)
    IN  Expand(net.expansions[graft.label], copied, PartnerOf("graft", l, r), graft.wires)

Interaction(l, r) ==
    LET ext == PartnerOf("value", l, r)
        v == PortOf("value", l, r)
    IN CASE "wire" \in Kinds(l, r) ->
              <<To(PortOf("wire", l, r).wires[1], PartnerOf("wire", l, r))>>
         [] "wire" \notin Kinds(l, r) /\ "graft" \in Kinds(l, r) -> Executes(l, r)
         [] Kinds(l, r) \cap {"wire", "graft"} = {} /\ "erasure" \in Kinds(l, r) -> Erase(l, r)
         [] BothCombs(l, r) ->
              IF l.label = r.label THEN AnnihilatePair(l, r) ELSE Commute(l, r)
         [] Kinds(l, r) = {"comb", "value"} -> Clone(ext, v)
         [] Kinds(l, r) = {"split", "value"} -> Split(ext, v)
         [] Kinds(l, r) = {"merge", "value"} -> Merge(ext, v)

(* The ambiguous pair that serves its first arrival. *)
Serves(l, r) ==
    LET graft == PortOf("graft", l, r)
    IN  IF "wire" \notin Kinds(l, r) /\ graft.kind = "graft"
            /\ net.expansions[graft.label].does = "ambiguous"
        THEN {graft.wires[2]} ELSE {}

-----------------------------------------------------------------------------
(* A worker takes an active pair and works out what it has to connect, on  *)
(* which new wires.                                                        *)
Begin(t) ==
    /\ t \in net.crew
    /\ todo[caller] = <<>>
    /\ todo[t] = <<>>
    /\ ~raised
    /\ \E pair \in BagToSet(active) :
          /\ Legal(pair[1], pair[2])
          /\ \E connects \in {Interaction(pair[1], pair[2])} :
             \E name \in {Identities(Fresh(connects), allocated)} :
                 /\ allocated' = allocated + Cardinality(DOMAIN name)
                 /\ allocated' <= MaxWires
                 /\ todo' = [todo EXCEPT ![t] = Renamed(connects, name)]
          /\ active' = active (-) SetToBag({pair})
          /\ copied' = copied \cup Serves(pair[1], pair[2])
    /\ UNCHANGED <<net, target, uses, raised>>

(* Two values, or an external port that meets no value: the worker raises  *)
(* and the others stop at the next pair.                                   *)
Raise(t) ==
    /\ t \in net.crew
    /\ todo[caller] = <<>>
    /\ todo[t] = <<>>
    /\ ~raised
    /\ \E pair \in BagToSet(active) :
          /\ ~Legal(pair[1], pair[2])
          /\ active' = active (-) SetToBag({pair})
    /\ raised' = TRUE
    /\ UNCHANGED <<net, allocated, target, copied, uses, todo>>

(* connect_wire_to_port. *)
Connect(t) ==
    /\ todo[t] # <<>>
    /\ LET w == Head(todo[t]).wire  port == Head(todo[t]).port IN
       /\ uses' = [uses EXCEPT ![w] = @ + 1]
       /\ IF target[w] = NoPort
          THEN /\ target' = [target EXCEPT ![w] = port]
               /\ UNCHANGED active
          ELSE /\ active' = active (+) SetToBag({<<target[w], port>>})
               /\ UNCHANGED target
    /\ todo' = [todo EXCEPT ![t] = Tail(@)]
    /\ UNCHANGED <<net, allocated, copied, raised>>

Quiescent == active = EmptyBag /\ \A t \in Threads : todo[t] = <<>>

Step(t) == Begin(t) \/ Raise(t) \/ Connect(t)

Stopped == (Quiescent \/ raised) /\ UNCHANGED vars

Next == (\E t \in Threads : Step(t)) \/ Stopped

Spec == Init /\ [][Next]_vars

(* Threads are not starved. *)
FairSpec == Spec /\ \A t \in Threads : WF_vars(Step(t))

-----------------------------------------------------------------------------
Observed == ObservedIn(net)

IsPort(port) ==
    /\ port.kind \in PortKinds
    /\ port.kind = "graft" => port.label \in DOMAIN net.expansions
    /\ Len(port.wires) <= 2
    /\ \A i \in DOMAIN port.wires : port.wires[i] \in 1..allocated

TypeOK ==
    /\ Observed \subseteq 1..net.wires
    /\ allocated \in 0..MaxWires
    /\ \A w \in 1..allocated : uses[w] <= 2 /\ (target[w] = NoPort \/ IsPort(target[w]))
    /\ \A w \in (allocated + 1)..MaxWires : target[w] = NoPort /\ uses[w] = 0
    /\ copied \subseteq 1..allocated
    /\ \A pair \in BagToSet(active) : IsPort(pair[1]) /\ IsPort(pair[2])
    /\ \A t \in Threads : \A connect \in ToSet(todo[t]) :
          connect.wire \in 1..allocated /\ IsPort(connect.port)

(* The ends that are still to be connected: they stand in the ports that   *)
(* wait in wires, in active pairs and in pending connects.                 *)
Waiting == {w \in 1..allocated : uses[w] = 1}

Copies == UNION {{pair} \X (1..active[pair]) : pair \in BagToSet(active)}

WaitingEnds == UNION {Ends(w, target[w]) : w \in Waiting}

PairEnds ==
    UNION {Ends(<<copy, 1>>, copy[1][1]) \cup Ends(<<copy, 2>>, copy[1][2]) : copy \in Copies}

PendingEnds == UNION {EndsIn(t, todo[t]) : t \in Threads}

(* The two grafts of an ambiguous pair share their wires. *)
Holding ==
    {target[w] : w \in Waiting} \cup {pair[1] : pair \in BagToSet(active)}
      \cup {pair[2] : pair \in BagToSet(active)}
      \cup UNION {{todo[t][i].port : i \in DOMAIN todo[t]} : t \in Threads}

Shared ==
    UNION {ToSet(port.wires) : port \in
        {p \in Holding : p.kind = "graft" /\ net.expansions[p.label].does = "ambiguous"}}

(* Wires are linear: every wire has two ends, each of them connected once, *)
(* by whichever worker and in whichever order, and a copied template has   *)
(* none in common with the other copies.  A third connect would pair again *)
(* with the port the wire still holds.                                     *)
WiresLinear ==
    LET waiting == WaitingEnds  pairs == PairEnds  pending == PendingEnds
    IN  ~raised /\ ~net.drops => \A w \in (1..allocated) \ Shared :
            uses[w] + Count(waiting, w) + Count(pairs, w) + Count(pending, w)
              = IF w \in Observed THEN 1 ELSE 2

Occurrences(seq, v) == Cardinality({i \in DOMAIN seq : seq[i] = v})

(* What an observer reads from a wire: the values below it, in order.      *)
Read ==
    LET read[w \in Wires] ==
          LET port == target[w] IN
          IF port = NoPort THEN <<>>
          ELSE IF port.kind = "value" THEN <<port.value>>
          ELSE IF port.kind = "wire" THEN read[port.wires[1]]
          ELSE IF port.kind = "comb" THEN read[port.wires[1]] \o read[port.wires[2]]
          ELSE <<>>
    IN  read

SameValues(l, r) ==
    \A v \in ToSet(l) \cup ToSet(r) : Occurrences(l, v) = Occurrences(r, v)

(* Whatever the order of the interactions, a reduced net delivers the same *)
(* values, or one of the alternatives if its result depends on the first   *)
(* arrival: a duplicated tree arrives whole on both outputs, a merge calls *)
(* its function with the operands in the order of the source, an erased    *)
(* copy takes nothing with it, a channel is taken when the ones before it  *)
(* are erased.                                                             *)
ValuesDelivered ==
    LET read == Read
    IN  Quiescent /\ ~raised =>
            \E e \in net.expected : \A w \in Observed : SameValues(read[w], e[w])

(* "Duplicating a tup tree yields a full copy of the tree" (tests): each   *)
(* output reads as the tree that was duplicated, component by component.   *)
CopiesInOrder ==
    Quiescent /\ ~raised =>
        \E e \in net.expected : \A w \in Observed : Read[w] = e[w]

Below ==
    LET below[w \in Wires] ==
          {w} \cup IF target[w] = NoPort THEN {}
                   ELSE UNION {below[target[w].wires[i]] : i \in DOMAIN target[w].wires}
    IN  below

(* A reduced net leaves nothing behind: a wire that is not used up hangs   *)
(* below one that an observer reads.                                       *)
NothingLeft ==
    Quiescent /\ ~raised /\ ~net.drops =>
        \A w \in 1..allocated : uses[w] = 2 \/ \E i \in Observed : w \in Below[i]

(* Every net is reduced, or raises. *)
Reduced == <>[](Quiescent \/ raised)
=============================================================================
