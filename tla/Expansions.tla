------------------------------- MODULE Expansions -------------------------------
(***************************************************************************)
(* What a graft does with the port it meets: templates, which are nets     *)
(* that are built once and copied for every use (ExpansionBuilder,         *)
(* FrozenExpansion, materialize_template of backend/connector.py), and the *)
(* agents of backend/control_flow.py that choose between channels.         *)
(*                                                                         *)
(* An expansion returns the connects it makes, with negative numbers for   *)
(* its own wires.                                                          *)
(***************************************************************************)
EXTENDS Ports, TLC

NoTemplate ==
    [target |-> <<>>, pairs |-> <<>>, input |-> 0, output |-> 0, wires |-> <<>>]

Expansion(does) ==
    [does |-> does, template |-> NoTemplate, first |-> "", second |-> "", closing |-> <<>>]

-----------------------------------------------------------------------------
(* Building a template.  A wire keeps the port that came first, a later    *)
(* one makes a pair with it.  target is a function on the wires that have  *)
(* a port.                                                                 *)
Build1(net, c) ==
    IF c.wire \in DOMAIN net.target
    THEN [net EXCEPT !.pairs = Append(@, <<net.target[c.wire], c.port>>)]
    ELSE [net EXCEPT !.target = @ @@ (c.wire :> c.port)]

Built(net, connects) == FoldLeft(Build1, net, connects)

(* The wires a template consists of: those below its pairs and its ends.   *)
Deepest == 40       \* bound on the wires of a template that hang below each other

Reached(template, wires) ==
    LET below(w) == IF w \in DOMAIN template.target THEN ToSet(template.target[w].wires) ELSE {}
    IN  FoldLeft(LAMBDA reached, i : reached \cup UNION {below(w) : w \in reached},
                 wires, [i \in 1..Deepest |-> i])

Frozen(net) ==
    LET held == UNION {ToSet(net.pairs[i][1].wires \o net.pairs[i][2].wires) : i \in DOMAIN net.pairs}
    IN  [net EXCEPT !.wires = Listed(Reached(net, {net.input, net.output} \cup held))]

Template(connects, input, output) ==
    Frozen(Built([NoTemplate EXCEPT !.input = input, !.output = output], Numbered(connects)))

(* Every wire is copied, those that hang below other ones too. *)
CopyOf(template, w) == New(0, w)

(* What two uses of a template have apart: the ports that wait in its      *)
(* wires, and its pairs.                                                   *)
Copied(template) ==
    LET copy == [w \in ToSet(template.wires) |-> CopyOf(template, w)]
        copied(p) == RenamedPort(p, copy)
        waiting == SelectSeq(template.wires, LAMBDA w : w \in DOMAIN template.target)
        last == Max(DOMAIN copy)
        pair(i) == Meet(New(0, last + i), copied(template.pairs[i][1]),
                        copied(template.pairs[i][2]))
    IN  [i \in DOMAIN waiting |-> To(copy[waiting[i]], copied(template.target[waiting[i]]))]
          \o Concat([i \in DOMAIN template.pairs |-> pair(i)])

MaterializeOwnInput(template, port, wires) ==
    Copied(template) \o <<To(template.input, port),
                          Join(CopyOf(template, template.output), wires[1])>>

(* materialize_template: a copy with wires of its own, between the port    *)
(* and the first wire of the graft.                                        *)
Materialize(template, port, wires) ==
    Copied(template) \o <<To(CopyOf(template, template.input), port),
                          Join(CopyOf(template, template.output), wires[1])>>

-----------------------------------------------------------------------------
(* The agents.  Their wire carries a chain: the other input, the output.   *)
Second == New(0, 1)
Result == New(0, 2)
Opened(wires) == Chain(wires[1], <<Second, Result>>, New(0, 3))

SerialOrOf(port, wires) ==
    Opened(wires) \o
        IF port.kind = "erasure" THEN <<Join(Second, Result)>>
        ELSE <<Annihilate(Second), To(Result, port)>>

SerialAndOf(port, wires) ==
    IF port.kind = "erasure" THEN <<Annihilate(wires[1])>>
    ELSE Opened(wires) \o Chain(Result, <<New(0, 4), Second>>, New(0, 5)) \o <<To(New(0, 4), port)>>

(* closing: the connects that close the second input, by its adapter. *)
CloseAfterContingentOf(closing, port, wires) ==
    Opened(wires) \o closing \o <<To(Result, port)>>

(* l.choice(r): whichever is alive, with the wire it goes out on. *)
Choice(l, r, outl, outr, n) ==
    LET v(k) == New(n, k) IN
    Invoke("and", l, outl, v(1), v(2)) \o Invoke("and", r, outr, v(3), v(4))
      \o Invoke("or", v(1), v(3), v(5), v(6)) \o Chain(v(5), <<v(7), v(8)>>, v(9))
      \o <<Join(v(7), v(8))>>

(* A test that is not a value erases both the input and the output of the  *)
(* branches.                                                               *)
Truthy(v) == v # <<"False">>

IfThenElseOf(x, port, wires) ==
    IF port.kind # "value" THEN <<Annihilate(wires[1])>> \o Annihilations(port)
    ELSE LET case == IF Truthy(port.value) THEN x.first ELSE x.second
         IN  Opened(wires) \o <<To(Second, Graft(case, <<Result>>))>>

(* AmbiguousPair: the first arrival on wires[1], the other on wires[2]. *)
AmbiguousOf(copied, port, wires) ==
    <<To(IF wires[2] \in copied THEN wires[2] ELSE wires[1], port)>>

(* ParallelOr: the first of two operands that is not erased. *)
ParallelOrOf(port, wires) ==
    LET v(k) == New(0, k)  pair == Graft("ambiguous", <<v(3), v(4)>>) IN
    Meet(v(8), port, CombPort("x", v(1), v(5)))
      \o <<Tuplate(v(5), v(2), v(6)), Annihilate(v(6)), To(v(1), pair), To(v(2), pair)>>
      \o Invoke("or", v(3), v(4), v(7), v(9)) \o <<Join(v(7), wires[1])>>

(* ConcurrentValueMerge: the first of two operands decides whether it is   *)
(* the result or has to wait for the other one.                            *)
ConcurrentValueMergeOf(x, port, wires) ==
    LET v(k) == New(0, k)  w(k) == New(v(9), k)
        pair == Graft("ambiguous", <<v(3), v(4)>>) IN
    Meet(v(8), port, CombPort("x", v(1), v(5)))
      \o <<Tuplate(v(5), v(2), v(6)), Annihilate(v(6)), To(v(1), pair), To(v(2), pair),
           Duplicate(v(3), w(1), w(2), "share"),
           To(w(1), MergePort("short", FALSE, w(3), w(4))), To(w(3), ValuePort(<<"None">>))>>
      \o Invoke(x.first, w(4), w(5), w(6), w(7))
      \o Chain(w(5), <<w(2), v(4)>>, w(8)) \o <<Join(w(6), wires[1])>>

Expand(x, copied, port, wires) ==
    CASE x.does = "template" ->
           IF port.kind = "erasure" THEN Annihilations(Port("graft", wires))
           ELSE Materialize(x.template, port, wires)
      [] x.does = "or" -> SerialOrOf(port, wires)
      [] x.does = "and" -> SerialAndOf(port, wires)
      [] x.does = "contingent" -> CloseAfterContingentOf(x.closing, port, wires)
      [] x.does = "if" -> IfThenElseOf(x, port, wires)
      [] x.does = "ambiguous" -> AmbiguousOf(copied, port, wires)
      [] x.does = "parallelor" -> ParallelOrOf(port, wires)
      [] x.does = "merge" -> ConcurrentValueMergeOf(x, port, wires)
      [] x.does = "catch" -> <<>>
=============================================================================
