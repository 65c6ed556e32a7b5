---------------------------- MODULE MCSerialExecutor ----------------------------
(* Programs over variables of every adapter, as the nets the lowering makes. *)
EXTENDS SerialExecutor, VariablesFlow, Optimizer

NetOf(connects, expansions, expected, answers) ==
    LET wired == Numbered(connects)
    IN  [wires |-> Max(WiresOf(wired)), connects |-> wired, expansions |-> expansions,
         expected |-> {expected}, drops |-> FALSE, legal |-> TRUE, crew |-> {"executor"},
         answers |-> answers, again |-> <<>>]

CloseAll(count) ==
    [Expansion("contingent") EXCEPT !.closing = Close(Held(count), Second, New(0, 4))]

Expansions ==
    Contingent(1) :> CloseAll(1) @@ Contingent(2) :> CloseAll(2) @@ "catch" :> Expansion("catch")

(* A case is a program over variables in an order, with their adapters.    *)
Case(order, adapters, program) == [order |-> order, adapters |-> adapters, program |-> program]

ConnectsOf(case) == Flow(case.order, case.adapters, case.program)
MemoryOf(case) == Remembered(case.order, case.adapters, case.program)

(* The functions a program calls, and those that these call. *)
CallsIn(program) ==
    LET made(q) == {q[i] : i \in {j \in DOMAIN q : q[j].do = "call"}}
    IN  made(program) \cup UNION {made(c.callee.program) : c \in made(program)}

NamedBody(connects, last, name) ==
    Template(Renamed(connects, name), name[Input], name[Observer(last)])

NumberedBody(connects, last) == NamedBody(connects, last, Numbering(connects))

BodyOf(f) == NumberedBody(BodyNet(f), Len(f.program))

ExpansionsOf(made, body) ==
    [name \in {c.token : c \in made} |->
        [Expansion("template") EXCEPT
            !.template = body[(CHOOSE c \in made : c.token = name).callee]]] @@ Expansions

(* A flow with its observers.  An evaluation and a layer drop a register.  *)
SeenBy(name, meaning) ==
    [w \in {name[Observer(i)] : i \in DOMAIN meaning} |->
        meaning[CHOOSE i \in DOMAIN meaning : name[Observer(i)] = w]]

Drops(program) ==
    \E i \in DOMAIN program : program[i].do \in {"eval", "exec", "layer", "delete"}

ObservedNet(program, connects, meaning, body) ==
    LET made == CallsIn(program) IN
    [NetOf(connects, ExpansionsOf(made, body), SeenBy(Numbering(connects), meaning), <<>>)
        EXCEPT !.drops = Drops(program) \/ \E c \in made : Drops(c.callee.program)]

(* as_callable: the callback receives the result of a function, which is   *)
(* called again and again.                                                 *)
CallOf(f, token) ==
    Callback(New(-1, 3), -1) \o <<To(New(-1, 4), ValuePort(<<token>>))>>
      \o InvocationNet("f", f, <<VA>>, <<New(-1, 4)>>, New(-1, 3), New(-1, 5))

Calling(f, body, tokens, answers) ==
    LET made == [k \in DOMAIN tokens |-> CallOf(f, tokens[k])]
        answer(token) == IF answers[token] = <<>> THEN Erasure ELSE ValuePort(answers[token][1])
    IN  [NetOf(Head(made), ExpansionsOf({Call("f", <<>>, f)}, [g \in {f} |-> body]), <<>>,
               [k \in DOMAIN tokens |-> answer(tokens[k])])
         EXCEPT !.again = Tail(made), !.drops = Drops(f.program)]

(* Once as the template is built, and twice as it is optimized. *)
CallsOf(f, body, answers) ==
    {Calling(f, called[1], called[2], answers) :
        called \in {<<body, <<"a">>>>, <<Frozen(Optimized(body)), <<"a", "c">>>>}}

-----------------------------------------------------------------------------
Value == AdapterFromType(<<"int">>)
Ref == AdapterFromType(<<"Ref">>)
Inv == AdapterFromType(<<"Inverse">>)
ParOf2(l, r) == ParOf(<<l, r>>)
RefPar == AdapterFromType(<<"Ref", <<"Par", <<"int">>, <<"int">>>>>>)
Kinds == {Value, Ref, Inv}

Cases(order, adapters, programs) == {Case(order, adapters, p) : p \in programs}

(* Two accesses between a first write and the last reads, over variables   *)
(* of every kind.                                                          *)
Between == {Write("x", "b"), Write("y", "c"), Copy("y", "x"), Copy("x", "y"), Read("x")}

TwoVariables ==
    UNION {Cases(<<"x", "y">>, [x |-> k, y |-> l],
              {<<Write("x", "a"), first, second, Read("y"), Read("x")>> :
                   first \in Between, second \in Between \ {Write("y", "c")}}) : k \in Kinds, l \in Kinds}

(* A loan that spans a layer or an evaluation. *)
Spanning ==
    UNION {Cases(<<"x", "y">>, [x |-> k, y |-> l],
              {<<Write("x", "a"), Copy("y", "x"), between, Write("y", "b"), Read("x")>> :
                   between \in {NextLayer, Evaluated("x"), Evaluated("y"),
                                EvaluatedAll(<<"x", "y">>), Executed(<<"x", "y">>)}}) :
           k \in Kinds, l \in Kinds}

(* Tuples, in chains of two and on both sides of an assignment. *)
Pairs == {ParOf2(Value, Value), ParOf2(Ref, Value), ParOf2(Ref, Inv)}

Tuples ==
    UNION {Cases(<<"x", "y", "z">>, [x |-> k, y |-> l, z |-> pair],
              {<<Write("x", "a"), Write("y", "b"), Assign(<<"z">>, <<"x", "y">>), then,
                 Read("y"), Read("x")>> :
                   then \in {Element("z", 2), Evaluated("z"), Assign(<<"y", "x">>, <<"z">>),
                             Assign(<<"x", "y">>, <<"y", "x">>), Write("z", "c")}}) :
           k \in Kinds, l \in {Value, Ref}, pair \in Pairs}

(* A reference to a chain. *)
Boxed ==
    Cases(<<"x", "y", "z">>, [x |-> Value, y |-> Value, z |-> RefPar],
          {<<Write("x", "a"), Write("y", "b"), Assign(<<"z">>, <<"x", "y">>), then, last, Read("x")>> :
              then \in {Consume("z", 1), Consume("z", 2), Assign(<<"y", "x">>, <<"z">>)},
              last \in {Consume("z", 2), Deleted("x"), Copy("x", "y")}})

(* Functions of two parameters, and calls of them with variables of every  *)
(* kind, with one variable twice as well.                                  *)
Exchange == Assign(<<"p", "q">>, <<"q", "p">>)
Alter == Function(<<"s">>, [s |-> Ref], <<Read("s"), Write("s", "d"), Read("s")>>)

Functions(k) ==
    {Function(<<"p", "q">>, [p |-> k, q |-> k], <<Copy("p", "q"), Read("p")>>),
     Function(<<"p", "q">>, [p |-> k, q |-> Ref], <<Exchange, Read("q")>>),
     Function(<<"p", "q", "r">>, [p |-> k, q |-> Value, r |-> Ref],
              <<Copy("r", "p"), Write("p", "c"), Read("r")>>),
     Function(<<"p", "q">>, [p |-> k, q |-> k], <<Call("g", <<"p">>, Alter), Evaluated("p")>>)}

Enclosed(call) == <<Write("x", "a"), Write("y", "b"), call, Read("x"), Read("y")>>

Calls ==
    UNION {Cases(<<"x", "y">>, [x |-> k, y |-> l],
                 {Enclosed(Call("f", <<"x", "y">>, f)) : f \in Functions(m)}) :
           k \in Kinds, l \in Kinds, m \in Kinds}
      \cup UNION {Cases(<<"x", "y">>, [x |-> k, y |-> Value],
                       {Enclosed(Call("f", <<"x", "x">>, f)) : f \in Functions(m)}) :
                 k \in Kinds, m \in Kinds}

Observable == TwoVariables \cup Spanning \cup Tuples \cup Boxed \cup Calls

(* Functions for as_callable; the last one returns what it never wrote.    *)
Callable ==
    {Function(<<"x", "y">>, [x |-> k, y |-> l],
              <<Copy("y", "x"), Write("y", "b"), Read("y"), Evaluated(z)>>) :
     k \in Kinds, l \in Kinds, z \in {"x", "y"}}
       \cup {Function(<<"x", "y">>, [x |-> k, y |-> Value],
                      <<Copy("y", "x"), Write("y", "b"), Read("y")>>) : k \in Kinds}
       \cup {Function(<<"x", "y">>, [x |-> Value, y |-> Value], <<Read("y")>>)}

(* A graft that is erased erases its result. *)
Erased(body) ==
    NetOf(Meet(1, Graft("f", <<2>>), Erasure),
          Expansions @@ "f" :> [Expansion("template") EXCEPT !.template = body],
          2 :> <<>>, <<>>)

(* Two values meet, which no rule allows; other pairs are left. *)
TwoValues ==
    [NetOf(Meet(1, Erasure, Erasure) \o Meet(2, ValuePort(<<"a">>), ValuePort(<<"b">>)),
           Expansions, <<>>, <<>>) EXCEPT !.legal = FALSE]

(* What a function is called for, with a value. *)
Given(f, token) ==
    Case(<<"v">>, [v |-> Value], <<Write("v", token), Call("f", <<"v">>, f)>>)

Arguments == {"a", "c"}

Called == UNION {{a.callee : a \in CallsIn(c.program)} : c \in Calls}

ObservedNets(memory, body) ==
    {ObservedNet(c.program, ConnectsOf(c), Meaning(memory[c]), body) :
        c \in {o \in Observable : ~Circular(memory[o])}}

CalledNets(memory, body) ==
    LET answer(f, token) == Meaning(memory[Given(f, token)])[2] IN
    UNION {CallsOf(f, body[f], [token \in Arguments |-> answer(f, token)]) : f \in Callable}

NetsOf(memory, body) ==
    ObservedNets(memory, [f \in Called |-> Frozen(Optimized(body[f]))] @@ <<>>)
      \cup CalledNets(memory, body) \cup {Erased(body[Alter]), TwoValues}

(* @@ makes a function whose values are computed once. *)
MCNets ==
    LET memory == [c \in Observable \cup {Given(f, token) : f \in Callable, token \in Arguments} |->
                      MemoryOf(c)] @@ <<>>
        body == [f \in Called \cup Callable |-> BodyOf(f)] @@ <<>>
    IN  NetsOf(memory, body)
=============================================================================
