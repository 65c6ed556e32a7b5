--------------------------------- MODULE Ports ---------------------------------
(***************************************************************************)
(* Ports, wires and connects: first_order/ports.py and the Connector of    *)
(* backend/connector.py, as values.                                        *)
(*                                                                         *)
(* A wire is a positive number once it is allocated.  Code that makes      *)
(* wires of its own returns its connects with negative numbers for them,   *)
(* which the interaction that does the connects allocates: New(n, k) is    *)
(* the k-th wire, or the k-th part, of the place n.  Joining two fresh     *)
(* wires only to rename one is left out.                                   *)
(***************************************************************************)
EXTENDS Integers, Sequences, SequencesExt, FiniteSetsExt

Port(kind, wires) ==
    [kind |-> kind, label |-> "", value |-> <<>>, swapped |-> FALSE, wires |-> wires]

WirePort(w) == Port("wire", <<w>>)
(* A value is the sequence of the tokens it was computed from, and an       *)
(* Erasure carries no exception: no rule looks at it.                       *)
ValuePort(v) == [Port("value", <<>>) EXCEPT !.value = v]
Erasure == Port("erasure", <<>>)
CombPort(label, a, b) == [Port("comb", <<a, b>>) EXCEPT !.label = label]
MergePort(fn, swapped, a, b) ==
    [Port("merge", <<a, b>>) EXCEPT !.label = fn, !.swapped = swapped]
SplitPort(a, b) == Port("split", <<a, b>>)
(* A port that executes an expansion on whatever it meets. *)
Graft(expansion, wires) == [Port("graft", wires) EXCEPT !.label = expansion]

New(n, k) == 10 * n - k

(* The functions of the external ports, on values that keep a trace. *)
Shorting(x) == x = <<"a">>

(* filter_invocation: a function of the first operand alone. *)
Filters == {"iter", "callback"}

MergeFn(fn, x, y) ==
    IF fn = "short" THEN IF Shorting(x) THEN <<"True">> ELSE <<"False">>
    ELSE IF fn \in Filters THEN <<fn>> \o x
    ELSE <<fn>> \o x \o y

SplitFn(x) == <<<<"l">> \o x, <<"r">> \o x>>

-----------------------------------------------------------------------------
(* Connecting a port to a wire, and two wires with each other. *)
To(w, port) == [wire |-> w, port |-> port]
Join(l, r) == To(l, WirePort(r))
Annihilate(w) == To(w, Erasure)

Annihilations(port) == [i \in DOMAIN port.wires |-> Annihilate(port.wires[i])]

(* connect_ports: two ports that meet have a wire of their own. *)
Meet(w, l, r) == <<To(w, l), To(w, r)>>

Tuplate(w, a, b) == To(w, CombPort("x", a, b))
Duplicate(w, a, b, label) == To(w, CombPort(label, a, b))

Concat(parts) == FlattenSeq(parts)

(* sequenced_tuplate_from: a chain of pairs that ends in an erasure. *)
Chain(w, parts, n) ==
    LET rest(i) == IF i = 1 THEN w ELSE New(n, i - 1)
    IN  [i \in DOMAIN parts |-> Tuplate(rest(i), parts[i], rest(i + 1))]
          \o <<Annihilate(rest(Len(parts) + 1))>>

(* What invokes an agent: its graft, and the chain on its wire. *)
Invoke(name, in, second, result, n) ==
    <<To(in, Graft(name, <<New(n, 1)>>))>> \o Chain(New(n, 1), <<second, result>>, New(n, 2))

-----------------------------------------------------------------------------
(* SetToSeq tries every function. *)
Listed(set) == FoldSet(LAMBDA x, seq : Append(seq, x), <<>>, set)

WiresOf(connects) ==
    UNION {{connects[i].wire} \cup ToSet(connects[i].port.wires) : i \in DOMAIN connects}

Fresh(connects) == {w \in WiresOf(connects) : w < 0}

RenamedPort(port, name) ==
    [port EXCEPT !.wires = [i \in DOMAIN @ |-> IF @[i] \in DOMAIN name THEN name[@[i]] ELSE @[i]]]

Renamed(connects, name) ==
    [i \in DOMAIN connects |->
        To(IF connects[i].wire \in DOMAIN name THEN name[connects[i].wire] ELSE connects[i].wire,
           RenamedPort(connects[i].port, name))]

(* New identities for wires, behind the allocated ones. *)
Identities(wires, allocated) ==
    [w \in wires |-> allocated + Cardinality({v \in wires : v <= w})]

Numbering(connects) == Identities(Fresh(connects), Max({0} \cup WiresOf(connects)))

Numbered(connects) == Renamed(connects, Numbering(connects))
=============================================================================
