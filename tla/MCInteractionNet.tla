--------------------------- MODULE MCInteractionNet ---------------------------
(* The nets of tests/test_interactions.py, of tests/backend, and variants. *)
EXTENDS InteractionNet

A == <<"a">>
B == <<"b">>
C == <<"c">>
Bad == <<"bad">>
MCRaising == {Bad}

NoExpansions == [x \in {} |-> Expansion("")]

NetOf(connects, expansions, expected) ==
    [wires |-> Max(WiresOf(Numbered(connects))), connects |-> Numbered(connects),
     expansions |-> expansions, expected |-> expected, drops |-> FALSE, crew |-> {1}]

Net(connects, expected) ==
    [NetOf(connects, NoExpansions, {expected}) EXCEPT !.crew = {1, 2, 3}]

Dup(a, b) == CombPort("dup", a, b)
Pair(a, b) == CombPort("x", a, b)
F(a, b) == MergePort("f", FALSE, a, b)
Applied(x, y) == MergeFn("f", x, y)

(* A duplicator meets a pair of values. *)
DupOfTup == Net(
    Meet(5, Dup(1, 2), Pair(3, 4)) \o <<To(3, ValuePort(A)), To(4, ValuePort(B))>>,
    1 :> <<A, B>> @@ 2 :> <<A, B>>)

(* The pair holds another pair. *)
DupOfTree == Net(
    Meet(7, Dup(1, 2), Pair(3, 4)) \o
        <<To(3, Pair(5, 6)), To(4, ValuePort(A)), To(5, ValuePort(B)), To(6, ValuePort(A))>>,
    1 :> <<B, A, A>> @@ 2 :> <<B, A, A>>)

(* The duplicator waits in a wire, so that either side may come first. *)
DupByWire == Net(
    Meet(6, WirePort(5), Dup(1, 2)) \o Meet(7, WirePort(5), Pair(3, 4)) \o
        <<To(3, ValuePort(A)), To(4, ValuePort(B))>>,
    1 :> <<A, B>> @@ 2 :> <<A, B>>)

(* One of the two copies is erased. *)
DupErased == Net(
    Meet(5, Pair(3, 4), Dup(1, 2)) \o
        <<Annihilate(2), To(3, ValuePort(A)), To(4, ValuePort(B))>>,
    1 :> <<A, B>>)

(* The operands of a merge come from two interactions. *)
MergeOfTwo == Net(
    Meet(5, WirePort(4), F(1, 2)) \o Meet(6, WirePort(4), ValuePort(A)) \o
        Meet(7, CombPort("share", 1, 3), ValuePort(B)),
    2 :> <<Applied(A, B)>> @@ 3 :> <<B>>)

(* A pair meets a pair: one component is split, the other raises. *)
Components == Net(
    Meet(9, Pair(1, 2), Pair(3, 4)) \o
        <<To(1, SplitPort(5, 6)), To(3, ValuePort(A)), To(2, F(7, 8)),
          To(7, ValuePort(B)), To(4, ValuePort(Bad))>>,
    5 :> <<SplitFn(A)[1]>> @@ 6 :> <<SplitFn(A)[2]>> @@ 8 :> <<>>)

(* Splitting a value on which the function raises erases both results. *)
SplitRaises == Net(
    Meet(5, ValuePort(Bad), SplitPort(1, 2)) \o Meet(6, Pair(1, 2), Dup(3, 4)),
    3 :> <<>> @@ 4 :> <<>>)

(* Two values meet, which no rule allows. *)
TwoValues == Net(
    Meet(3, ValuePort(A), ValuePort(B)) \o Meet(4, Dup(1, 2), ValuePort(A)),
    1 :> <<A>> @@ 2 :> <<A>>)

-----------------------------------------------------------------------------
(* Two uses of one template, which holds a duplicator behind a pair; the    *)
(* second use is erased.                                                    *)
Twice == Template(
    <<Tuplate(1, 3, 4), To(3, Dup(5, 6)), Tuplate(2, 5, 7), To(6, F(4, 7)), Join(8, 2)>>, 1, 8)

UsesOf(template) ==
    LET x == ("t" :> [Expansion("template") EXCEPT !.template = template])
    IN  NetOf(Meet(9, Graft("t", <<1>>), Pair(3, 4)) \o <<To(3, ValuePort(A)), To(4, ValuePort(B))>>
              \o Meet(10, Pair(6, 7), Graft("t", <<2>>)) \o <<To(6, ValuePort(B)), To(7, ValuePort(C))>>
              \o Meet(8, Erasure, Graft("t", <<5>>)),
              x, {1 :> <<A, Applied(A, B)>> @@ 2 :> <<B, Applied(B, C)>> @@ 5 :> <<>>})

Choosing == "and" :> Expansion("and") @@ "or" :> Expansion("or")

ChoosingFirst == Choosing @@ "por" :> Expansion("parallelor") @@ "ambiguous" :> Expansion("ambiguous")

(* SerialOr: the second input when the first one is erased. *)
OrOf(l, r, result) == NetOf(
    Invoke("or", 1, 2, 3, 0) \o <<To(1, l), To(2, r)>>, Choosing, {3 :> result})

(* CloseAfterContingent: what is left of a value is closed when the other   *)
(* input has come.                                                         *)
ClosingValue ==
    "close" :> [Expansion("contingent") EXCEPT !.closing = <<Annihilate(Second)>>]

ContingentOn(l, r, result) == NetOf(
    Invoke("close", 1, 2, 3, 0) \o <<To(1, l), To(2, r)>>, ClosingValue, {3 :> result})

(* choice of two channels. *)
ChoiceOf(l, r, outl, outr) == NetOf(
    Choice(1, 2, 3, 4, 0) \o <<To(1, l), To(2, r)>>, Choosing, {3 :> outl @@ 4 :> outr})

(* ParallelOr: the first arrival, unless it is erased. *)
ParallelOrOf2(l, r, results) == NetOf(
    Meet(4, Graft("por", <<3>>), Pair(1, 5))
        \o <<Tuplate(5, 2, 6), Annihilate(6), To(1, l), To(2, r)>>, ChoosingFirst, results)

(* Two workers bring both values of an ambiguous pair at the same time. *)
FirstArrival ==
    LET pair == Graft("ambiguous", <<3, 4>>) IN
    [NetOf(<<To(1, pair), To(2, pair), To(1, ValuePort(A)), To(2, ValuePort(B))>>,
           ChoosingFirst, {3 :> <<A>> @@ 4 :> <<B>>, 3 :> <<B>> @@ 4 :> <<A>>})
        EXCEPT !.crew = {1, 2, 3}]

(* x or y: the first arrival when it is true, both of them merged otherwise. *)
TrueCase == Template(Chain(1, <<2, 3>>, 0), 1, 2)
FalseCase == Template(Chain(1, <<2, 3>>, 0) \o <<To(2, MergePort("or", FALSE, 3, 4))>>, 1, 4)

BooleanOr ==
    "merge" :> [Expansion("merge") EXCEPT !.first = "if"] @@
    "if" :> [Expansion("if") EXCEPT !.first = "true", !.second = "false"] @@
    "true" :> [Expansion("template") EXCEPT !.template = TrueCase] @@
    "false" :> [Expansion("template") EXCEPT !.template = FalseCase] @@
    "ambiguous" :> Expansion("ambiguous")

BooleanOrOf(l, r, results) == [NetOf(
    Meet(4, Graft("merge", <<3>>), Pair(1, 5))
        \o <<Tuplate(5, 2, 6), Annihilate(6), To(1, l), To(2, r)>>, BooleanOr, results)
    EXCEPT !.drops = TRUE]

MCNets ==
    {DupOfTup, DupOfTree, DupByWire, DupErased, MergeOfTwo, Components, SplitRaises, TwoValues}
    \cup {UsesOf(Twice)}
    \cup {OrOf(ValuePort(A), ValuePort(B), <<A>>), OrOf(Erasure, ValuePort(B), <<B>>),
          OrOf(Erasure, Erasure, <<>>)}
    \cup {ContingentOn(ValuePort(A), ValuePort(B), <<A>>), ContingentOn(Erasure, ValuePort(B), <<>>)}
    \cup {ChoiceOf(ValuePort(A), Erasure, <<A>>, <<>>), ChoiceOf(Erasure, ValuePort(B), <<>>, <<B>>),
          ChoiceOf(ValuePort(A), ValuePort(B), <<A>>, <<>>)}
    \cup {ParallelOrOf2(ValuePort(A), ValuePort(B), {3 :> <<A>>, 3 :> <<B>>}),
          ParallelOrOf2(Erasure, ValuePort(B), {3 :> <<B>>})}
    \cup {FirstArrival}
    \cup {BooleanOrOf(ValuePort(A), ValuePort(B), {3 :> <<A>>, 3 :> <<MergeFn("or", B, A)>>}),
          BooleanOrOf(Erasure, ValuePort(A), {3 :> <<>>, 3 :> <<A>>})}

DupNets == {DupOfTup, DupByWire}
=============================================================================
