----------------------------- MODULE VariablesFlow -----------------------------
(***************************************************************************)
(* The variables of a lowered statement list, as nets and as what they     *)
(* mean: VariablesFlow of backend/control_flow.py, the accesses of         *)
(* backend/lowering.py to it, and borrow_registers of                      *)
(* backend/registers.py.                                                   *)
(*                                                                         *)
(* A program is a sequence of accesses.  Flow turns it into connects: each *)
(* access cuts the wires of its variables and extends them.  Meaning says  *)
(* what its observers see, access by access, in a memory: a reference that *)
(* is lent is a promise of its final content, the read of an inverse is a  *)
(* promise of the next write.                                              *)
(***************************************************************************)
EXTENDS Registers, TLC

(* A function: its variables, the parameters first, and its accesses, the  *)
(* last of which is what it returns.                                       *)
Function(order, adapters, program) ==
    [order |-> order, adapters |-> adapters, program |-> program]

NoFunction == Function(<<>>, [x |-> VA], <<>>)

Access(do, to, from, token, index) ==
    [do |-> do, to |-> to, from |-> from, token |-> token, index |-> index,
     callee |-> NoFunction]

Read(x) == Access("read", <<>>, <<x>>, "", 0)
Write(x, token) == Access("write", <<x>>, <<>>, token, 0)
(* An assignment, of a tuple or to a tuple if there are several names.     *)
Assign(ys, xs) == Access("assign", ys, xs, "", 0)
Copy(y, x) == Assign(<<y>>, <<x>>)
Element(x, index) == Access("element", <<>>, <<x>>, "", index)
Consume(x, index) == Access("consume", <<>>, <<x>>, "", index)
Evaluated(x) == Access("eval", <<>>, <<x>>, "", 0)
EvaluatedAll(xs) == Access("eval", <<>>, xs, "", 0)
(* The value of the first goes into a target that captures the others.     *)
Executed(xs) == Access("exec", <<>>, xs, "", 0)
Call(name, xs, f) == [Access("call", <<>>, xs, name, 0) EXCEPT !.callee = f]
Deleted(x) == Access("delete", <<x>>, <<>>, "", 0)
NextLayer == Access("layer", <<>>, <<>>, "", 0)

Observes(access) == access.do \in {"read", "element", "consume", "eval", "call"}

-----------------------------------------------------------------------------
(* Nets.  A flow is the wire each variable stands on, and the connects so  *)
(* far.  The i-th access has the place -i; its observer reads from         *)
(* Observer(i).                                                            *)
Observer(i) == New(-i, 8)

(* FlowRegister: an access leaves its variable on another wire. *)
ExtendNothing(flow, x, given, connects) == [flow EXCEPT !.net = @ \o connects]

Extend(flow, x, given, connects) ==
    [state |-> [flow.state EXCEPT ![x] = given], net |-> flow.net \o connects]

Readout(adapters, flow, x, out, n) ==
    Extend(flow, x, New(n, 1), Egression(adapters[x], flow.state[x], New(n, 1), out, "dup", New(n, 2)))

Readin(adapters, flow, x, in, n) ==
    Extend(flow, x, New(n, 1), Ingression(adapters[x], flow.state[x], New(n, 1), in, New(n, 2)))

ReadoutElement(adapters, flow, x, index, out, n) ==
    Extend(flow, x, New(n, 1),
        PartialEgression(adapters[x], flow.state[x], New(n, 1), index, out, New(n, 2)))

Also(flow, connects) == [flow EXCEPT !.net = @ \o connects]

(* join_from_registers and join_to_registers: a tuple is a chain. *)
Joined(adapters, xs) ==
    IF Len(xs) = 1 THEN adapters[xs[1]] ELSE ParOf([k \in DOMAIN xs |-> adapters[xs[k]]])

JoinParts(w, parts, n) == IF Len(parts) = 1 THEN <<Join(w, parts[1])>> ELSE Chain(w, parts, n)

(* lower_assign: the value is read before the target is written.  Further  *)
(* targets of a chain read the variable before them, by the same readout:  *)
(* a = b = c is the program of two assignments, of c to a and of a to b.   *)
AssignNet(adapters, flow, ys, xs, n) ==
    LET outs == [k \in DOMAIN xs |-> New(New(n, 1), k)]
        ins == [k \in DOMAIN ys |-> New(New(n, 2), k)]
        read == FoldLeft(LAMBDA f, k : Readout(adapters, f, xs[k], outs[k], New(New(n, 3), k)),
                         flow, [k \in DOMAIN xs |-> k])
        written == FoldLeft(LAMBDA f, k : Readin(adapters, f, ys[k], ins[k], New(New(n, 4), k)),
                            read, [k \in DOMAIN ys |-> k])
    IN  Also(written,
             JoinParts(New(n, 5), outs, New(n, 6)) \o JoinParts(New(n, 7), ins, New(n, 8)) \o
             SendValue(Joined(adapters, xs), New(n, 5), Joined(adapters, ys), New(n, 7), New(n, 9)))

(* An element of a reference to a chain: the chain is taken out whole, the *)
(* siblings are erased.                                                    *)
ConsumeNet(adapters, flow, x, index, out, n) ==
    LET parts == Items(Inner(adapters[x]), New(n, 4)) IN
    Also(Readout(adapters, flow, x, New(n, 1), New(n, 2)),
         Linearize(New(n, 1), New(n, 3), New(n, 5)) \o Chain(New(n, 3), parts, New(n, 6)) \o
         [k \in DOMAIN parts |-> IF k = index THEN Join(parts[k], out) ELSE Annihilate(parts[k])])

(* borrow_registers: what is read is held in reference cells, which are    *)
(* closed when the result is there.  Nothing ever comes from the interface *)
(* of the registers that hold it.                                          *)
Held(count) == ParOf([j \in 1..count |-> RA_VA])
Contingent(count) == <<"contingent", "contingent2">>[count]

BorrowNet(as, ins, outs, finished, n) ==
    LET w(k) == New(n, k)
        cell(j, k) == New(New(n, j), k)
        held(j) == Ingression(RA_VA, cell(j, 1), cell(j, 2), cell(j, 3), cell(j, 4))
                     \o SendValue(as[j], ins[j], RA_VA, cell(j, 3), cell(j, 5))
                     \o Egression(RA_VA, cell(j, 2), cell(j, 6), outs[j], "dup", cell(j, 7))
    IN  Concat([j \in DOMAIN as |-> held(j)])
          \o Invoke(Contingent(Len(as)), finished, w(7), w(8), w(9))
          \o Chain(w(7), [j \in DOMAIN as |-> cell(j, 6)], New(w(9), 9)) \o <<Annihilate(w(8))>>

(* materialize_dynamic, materialize_dynamic_to: a function of the text and *)
(* of the tuple of what it captures.                                       *)
DynamicNet(as, captures, out, n) ==
    LET v(k) == New(n, k)
        lent == [j \in DOMAIN as |-> New(v(1), j)]
        values == [j \in DOMAIN as |-> New(v(2), j)]
    IN  BorrowNet(as, captures, lent, v(5), v(3))
          \o Meet(v(6), ValuePort(<<"text">>), MergePort("eval", FALSE, v(7), v(8)))
          \o Concat([j \in DOMAIN as |-> SendValue(RA_VA, lent[j], VA, values[j], New(v(9), j))])
          \o Serialized(values, v(7), v(4)) \o <<Duplicate(v(8), out, v(5), "share")>>

(* The first of what an opaque target captures is the assigned value. *)
Captured(access, adapters, reads, n) ==
    IF access.do = "eval" THEN [as |-> adapters, wires |-> reads]
    ELSE [as |-> <<VA>> \o Tail(adapters), wires |-> <<New(n, 4)>> \o Tail(reads)]

CapturingNet(access, adapters, reads, out, n) ==
    LET captured == Captured(access, adapters, reads, n)
        result == IF access.do = "eval" THEN out ELSE New(n, 6)
    IN  DynamicNet(captured.as, captured.wires, result, New(n, 3))
          \o (IF access.do = "eval" THEN <<>>
              ELSE SendValue(adapters[1], reads[1], VA, New(n, 4), New(n, 5)) \o <<Annihilate(result)>>)

(* callee_invocation: a graft that takes the chain of the variables.  Each *)
(* argument is written to an empty variable, the other ones are erased.    *)
InvocationNet(name, f, as, args, out, n) ==
    LET v(k, j) == New(New(n, 3 + k), j)
        passed(k) == LET a == f.adapters[f.order[k]] IN
            <<Annihilate(v(k, 2))>> \o Ingression(a, v(k, 2), v(k, 1), v(k, 3), v(k, 4))
              \o SendValue(as[k], args[k], a, v(k, 3), v(k, 5))
        local(k) == <<Annihilate(v(k, 1))>>
    IN  <<To(New(n, 2), Graft(name, <<out>>))>>
          \o Chain(New(n, 2), [k \in DOMAIN f.order |-> v(k, 1)], New(n, 3))
          \o Concat([k \in DOMAIN f.order |-> IF k <= Len(as) THEN passed(k) ELSE local(k)])

(* What an expression captures, or passes, is read before it is made. *)
ReadoutAll(adapters, flow, xs, outs, n) ==
    FoldLeft(LAMBDA f, j : Readout(adapters, f, xs[j], outs[j], New(n, j)),
             flow, [j \in DOMAIN xs |-> j])

ExpressionNet(adapters, flow, access, out, n) ==
    LET xs == access.from
        as == [j \in DOMAIN xs |-> adapters[xs[j]]]
        reads == [j \in DOMAIN xs |-> New(New(n, 1), j)]
    IN  Also(ReadoutAll(adapters, flow, xs, reads, New(n, 2)),
             IF access.do = "call"
             THEN InvocationNet(access.token, access.callee, as, reads, out, New(n, 3))
             ELSE CapturingNet(access, as, reads, out, n))

(* variables_readout, and the flow of the next layer. *)
LayerNet(order, flow, n) ==
    LET parts == [k \in DOMAIN order |-> New(New(n, 1), k)]
        inputs == [k \in DOMAIN order |-> New(New(n, 2), k)]
    IN  [state |-> [x \in DOMAIN flow.state |-> inputs[CHOOSE k \in DOMAIN order : order[k] = x]],
         net |-> flow.net \o Chain(New(n, 3), parts, New(n, 4)) \o Chain(New(n, 3), inputs, New(n, 5))
                   \o [k \in DOMAIN order |-> Join(flow.state[order[k]], parts[k])]]

(* lower_delete closes both ends of the cut. *)
DeleteNet(adapters, flow, x, n) ==
    Extend(flow, x, New(n, 1), Close(adapters[x], flow.state[x], New(n, 2))
                                 \o Close(adapters[x], New(n, 1), New(n, 3)))

AccessNet(order, adapters, flow, access, i) ==
    LET n == -i
        x == IF access.from # <<>> THEN access.from[1] ELSE IF access.to # <<>> THEN access.to[1] ELSE ""
        sent(f, a) == Also(f, SendValue(a, New(n, 7), VA, Observer(i), New(n, 9)))
    IN CASE access.do = "read" -> sent(Readout(adapters, flow, x, New(n, 7), New(n, 1)), adapters[x])
         [] access.do = "element" ->
              sent(ReadoutElement(adapters, flow, x, access.index, New(n, 7), New(n, 1)),
                   adapters[x].items[access.index])
         [] access.do = "write" ->
              Also(Readin(adapters, flow, x, New(n, 2), New(n, 1)),
                   <<To(New(n, 3), ValuePort(<<access.token>>))>>
                     \o SendValue(VA, New(n, 3), adapters[x], New(n, 2), New(n, 9)))
         [] access.do = "assign" -> AssignNet(adapters, flow, access.to, access.from, n)
         [] access.do = "consume" ->
              ConsumeNet(adapters, flow, x, access.index, Observer(i), New(n, 1))
         [] access.do \in {"eval", "exec", "call"} ->
              ExpressionNet(adapters, flow, access, Observer(i), n)
         [] access.do = "delete" -> DeleteNet(adapters, flow, x, n)
         [] access.do = "layer" -> LayerNet(order, flow, n)

Closed(order, adapters, flow) ==
    flow.net \o Concat([k \in DOMAIN order |->
        Close(adapters[order[k]], flow.state[order[k]], New(-9, k))])

FlowFrom(order, adapters, program, connects) ==
    Closed(order, adapters,
        FoldLeft(LAMBDA flow, i : AccessNet(order, adapters, flow, program[i], i),
                 [state |-> [x \in ToSet(order) |->
                                New(-8, CHOOSE k \in DOMAIN order : order[k] = x)],
                  net |-> connects],
                 [i \in DOMAIN program |-> i]))

(* Every variable starts from an erasure, and is closed at the end.        *)
Flow(order, adapters, program) ==
    FlowFrom(order, adapters, program, [k \in DOMAIN order |-> Annihilate(New(-8, k))])

(* The body of a function: its variables come in a chain; what it does not *)
(* return is erased.                                                       *)
Input == New(-7, 9)

BodyNet(f) ==
    FlowFrom(f.order, f.adapters, f.program,
             Chain(Input, [k \in DOMAIN f.order |-> New(-8, k)], New(-7, 8)))
      \o SetToSeq({Annihilate(Observer(i)) :
                      i \in {j \in 1..(Len(f.program) - 1) : Observes(f.program[j])}})

-----------------------------------------------------------------------------
(* Memory.  A term is a sequence of tokens and of promises; Void stands    *)
(* for what was erased, and a function of it is erased too.                *)
Void == <<>>
Token(token) == [token |-> token, promise |-> 0]
Promised(p) == <<[token |-> "", promise |-> p]>>

Tokens(functions) == [k \in DOMAIN functions |-> Token(functions[k])]

Applied(functions, t) == IF t = Void THEN Void ELSE Tokens(functions) \o t

(* A tuple of terms, and the k-th of the terms a value is taken apart to.  *)
Tupled(ts) ==
    IF \E k \in DOMAIN ts : ts[k] = Void THEN Void
    ELSE Tokens([k \in DOMAIN ts |-> "join"] \o <<"()">>) \o Concat(ts)

Taken(t, k) == Applied(<<"l">> \o [j \in 1..(k - 1) |-> "r"] \o <<"iter">>, t)

(* A cell has its content, one term or the terms of a chain, and the       *)
(* promises that wait for it: for its last content if it is a reference,   *)
(* for its next one if it is an inverse.                                   *)
Cell(kind, size) == [kind |-> kind, content |-> [k \in 1..size |-> Void], waiting |-> {}]

CellFor(a) ==
    Cell(a.wiring, IF a.wiring # "value" /\ IsPar(Inner(a)) THEN Len(Inner(a).items) ELSE 1)

Cells(a) == IF IsPar(a) THEN [k \in DOMAIN a.items |-> CellFor(a.items[k])] ELSE <<CellFor(a)>>

Emptied(cell) == Cell(cell.kind, Len(cell.content))

Answer(memory, promises, content) ==
    [memory EXCEPT !.answers = [p \in promises |-> content[1]] @@ @]

(* A place is a cell of a variable: <<variable, number>>. *)
CellOf(memory, place) == memory.cells[place[1]][place[2]]

Placed(memory, place, cell) == [memory EXCEPT !.cells[place[1]][place[2]] = cell]

PlacesOf(memory, xs) ==
    Concat([j \in DOMAIN xs |-> [k \in DOMAIN memory.cells[xs[j]] |-> <<xs[j], k>>]])

(* What is read is appended to out. *)
ReadCell(memory, place, p) ==
    LET cell == CellOf(memory, place)
    IN  IF cell.kind # "inverse" THEN [memory EXCEPT !.out = Append(@, cell.content)]
        ELSE [Placed(memory, place, [cell EXCEPT !.content = Emptied(cell).content, !.waiting = @ \cup {p}])
                EXCEPT !.out = Append(@, <<Promised(p)>>)]

WriteCell(memory, place, content) ==
    LET cell == CellOf(memory, place)
    IN  IF cell.kind # "inverse" THEN Placed(memory, place, [cell EXCEPT !.content = content])
        ELSE Placed(Answer(memory, cell.waiting, content), place, Emptied(cell))

CloseCell(memory, place) ==
    LET cell == CellOf(memory, place)
    IN  Placed(Answer(memory, cell.waiting, cell.content), place, Emptied(cell))

(* Between cells of one kind, neither is opened: the reference is lent,    *)
(* and gets back what the other one ends with; the loan of an inverse      *)
(* comes from the other one.                                               *)
Lent(memory, from, to) ==
    /\ CellOf(memory, from).kind = CellOf(memory, to).kind
    /\ CellOf(memory, from).kind # "value"

LendCell(memory, from, p) ==
    [Placed(memory, from, [CellOf(memory, from) EXCEPT !.content = <<Promised(p)>>])
        EXCEPT !.out = Append(@, CellOf(memory, from).content)]

BorrowCell(memory, to, content, p) ==
    LET cell == CellOf(memory, to)
    IN  IF cell.kind = "reference"
        THEN Placed(memory, to, [cell EXCEPT !.content = content, !.waiting = @ \cup {p}])
        ELSE Placed(Answer(memory, cell.waiting, <<Void>>), to,
                    [Emptied(cell) EXCEPT !.waiting = {p}])

Promise(i, k) == 10 * i + k

(* An assignment reads every value before it writes the first target. *)
AssignCells(memory, from, to, i) ==
    LET lent(k) == Len(from) = Len(to) /\ Lent(memory, from[k], to[k])
        read == FoldLeft(
            LAMBDA m, k : IF lent(k) THEN LendCell(m, from[k], Promise(i, k))
                          ELSE ReadCell(m, from[k], Promise(i, k)),
            memory, [k \in DOMAIN from |-> k])
        terms == Concat(read.out)
        content(k) ==
            IF Len(from) = Len(to) THEN read.out[k]
            ELSE IF Len(to) = 1 THEN IF Len(CellOf(memory, to[1]).content) > 1 THEN terms
                                  ELSE <<Tupled(terms)>>
            ELSE IF Len(terms) = Len(to) THEN <<terms[k]>>
            ELSE <<Taken(terms[1], k)>>
    IN  FoldLeft(
            LAMBDA m, k : IF lent(k) THEN BorrowCell(m, to[k], content(k), Promise(i, k))
                          ELSE WriteCell(m, to[k], content(k)),
            read, [k \in DOMAIN to |-> k])

(* The value of each variable, a tuple for a chain. *)
ReadVariable(memory, x, i, j) ==
    LET places == PlacesOf(memory, <<x>>)
        whole == FoldLeft(LAMBDA m, k : ReadCell(m, places[k], Promise(i, 3 * (j - 1) + k)),
                          [memory EXCEPT !.out = <<>>], [k \in DOMAIN places |-> k])
        terms == Concat(whole.out)
    IN  [whole EXCEPT !.out = Append(memory.out, IF Len(terms) = 1 THEN terms[1] ELSE Tupled(terms))]

ReadVariables(memory, xs, i) ==
    FoldLeft(LAMBDA m, j : ReadVariable(m, xs[j], i, j), memory, [j \in DOMAIN xs |-> j])

(* A call is the program of the function, on variables of its own that are *)
(* assigned the arguments before it and closed after it.                   *)
RECURSIVE Inlined(_)
Inlined(program) ==
    LET body(call) ==
            <<[call EXCEPT !.do = "enter"]>>
              \o [k \in DOMAIN call.from |-> Copy(call.callee.order[k], call.from[k])]
              \o Inlined(call.callee.program) \o <<[call EXCEPT !.do = "leave"]>>
    IN  Concat([i \in DOMAIN program |->
            IF program[i].do = "call" THEN body(program[i]) ELSE <<program[i]>>])

Enter(memory, f) ==
    [memory EXCEPT !.cells = [x \in ToSet(f.order) |-> Cells(f.adapters[x])] @@ @]

Leave(memory, f) ==
    LET closed == FoldLeft(CloseCell, memory, PlacesOf(memory, f.order)) IN
    [closed EXCEPT !.cells = [x \in DOMAIN closed.cells \ ToSet(f.order) |-> closed.cells[x]]]

Remember(memory, access, i) ==
    LET from == PlacesOf(memory, access.from)
        to == PlacesOf(memory, access.to)
        read == ReadCell(memory, from[IF access.do = "element" THEN access.index ELSE 1], Promise(i, 0))
        content == Head(read.out)
        values == ReadVariables(memory, access.from, i)
        see(m, t) == [m EXCEPT !.seen = @ @@ (i :> t)]
    IN CASE access.do = "read" -> see(values, values.out[1])
         [] access.do = "element" -> see(read, content[1])
         [] access.do = "eval" -> see(values, Applied(<<"eval", "text">>, Tupled(values.out)))
         [] access.do = "exec" -> values
         [] access.do = "enter" -> Enter(memory, access.callee)
         [] access.do = "leave" -> see(Leave(memory, access.callee), memory.seen[i - 1])
         [] access.do = "consume" ->
              see(WriteCell(read, from[1], [k \in DOMAIN content |-> Void]), content[access.index])
         [] access.do = "write" -> FoldLeft(
              LAMBDA m, k : WriteCell(m, to[k], <<IF Len(to) = 1 THEN <<Token(access.token)>>
                                                  ELSE Taken(<<Token(access.token)>>, k)>>),
              memory, [k \in DOMAIN to |-> k])
         [] access.do = "assign" -> AssignCells(memory, from, to, i)
         [] access.do = "delete" -> FoldLeft(CloseCell, memory, to)
         [] access.do = "layer" -> memory

(* The memory at the end of a program, when every variable is closed. *)
Forgotten(memory, order) == FoldLeft(CloseCell, memory, PlacesOf(memory, order))

(* What was seen counts by the accesses of the program itself. *)
SeenIn(memory, program) ==
    LET last(i) == Len(Inlined(SubSeq(program, 1, i))) IN
    [memory EXCEPT !.seen = [i \in {j \in DOMAIN program : Observes(program[j])} |-> @[last(i)]]]

RememberAll(first, accesses) ==
    FoldLeft(LAMBDA m, i : [Remember(m, accesses[i], i) EXCEPT !.out = <<>>],
             first, [i \in DOMAIN accesses |-> i])

Remembered(order, adapters, program) ==
    SeenIn(Forgotten(RememberAll([cells |-> [x \in ToSet(order) |-> Cells(adapters[x])],
                                  answers |-> <<>>, out |-> <<>>, seen |-> <<>>],
                                 Inlined(program)),
                     order),
           program)

PromisesIn(t) == {t[k].promise : k \in DOMAIN t} \ {0}

(* Promises that answer each other: a reference that was lent to itself. *)
Circular(memory) ==
    \E ps \in SUBSET DOMAIN memory.answers :
        ps # {} /\ \A p \in ps : PromisesIn(memory.answers[p]) \cap ps # {}

RECURSIVE Resolved(_, _)
Resolved(t, answers) ==
    LET parts == [k \in DOMAIN t |->
            IF t[k].promise = 0 THEN <<t[k].token>> ELSE Resolved(answers[t[k].promise], answers)]
    IN  IF \E k \in DOMAIN parts : parts[k] = <<>> THEN <<>> ELSE Concat(parts)

(* What the observers of a program see: a value, or nothing. *)
Meaning(memory) ==
    LET value(i) == Resolved(memory.seen[i], memory.answers)
    IN  [i \in DOMAIN memory.seen |-> IF value(i) = <<>> THEN <<>> ELSE <<value(i)>>]
=============================================================================
