------------------------------ MODULE ControlFlow ------------------------------
(***************************************************************************)
(* The control flow of a lowered function as a net of channels:            *)
(* backend/lowering.py, control_branch_flow.py and control_flow.py.        *)
(*                                                                         *)
(* Control is data here.  A statement list has four outputs, one for each  *)
(* way it may end, and what happens next depends on which of them carries  *)
(* the bundle of the variables and which are erased.  Every statement list *)
(* is cut into layers behind its compound statements, a layer runs when    *)
(* the finish output of the layers before it is alive, and a loop grafts   *)
(* one more copy of itself behind each of its iterations.                  *)
(*                                                                         *)
(* A channel is pending, dead (an Erasure came) or live.  A live bundle is *)
(* the pair of cons cells that carries the variables; the variables inside *)
(* it may still be pending, or erased.  One variable, x, stands for them.  *)
(*                                                                         *)
(* The state is the set of what has fired: evaluations of expressions,     *)
(* layers and loops that were grafted.  Everything between two of these is *)
(* wiring, and is derived: interactions are confluent (InteractionNet), so *)
(* a channel has the signal that its inputs give it.  Expressions are      *)
(* evaluated in any order their operands allow.                            *)
(***************************************************************************)
EXTENDS IrProgram, TLC

CONSTANTS
    Programs,       \* [params, body, oracles]: functions and what their tests say
    MaxIterations   \* bound on the iterations of one execution of a loop

ASSUME ProgramsAssumption ==
    /\ MaxIterations \in Nat
    /\ \A p \in Programs : Accepted(Build(p.body)) /\ CollectSymbols(p.params, p.body).ok

VARIABLES
    program,        \* the function that runs
    oracle,         \* how each of its expressions behaves
    fired,          \* the evaluations and grafts that happened
    outs,           \* the signals on the function's outputs, and what may fire next
    sequential      \* history: what the sequential run of the function does

vars == <<program, oracle, fired, outs, sequential>>

Event(does, at, part, layer, path) ==
    [does |-> does, at |-> at, part |-> part, layer |-> layer, path |-> path]

Evaluation(s, f) == Event("evaluate", s.at, "", 0, f.path)

(* A frame f says where a statement stands: in the part of the compound    *)
(* f.at, in the iterations f.path of the enclosing loops; with what has    *)
(* fired, and with how expressions behave.  The outcome of an expression:  *)
Behaves(at, f) == IF at \in DOMAIN f.oracle THEN f.oracle[at] ELSE "true"

Iteration(f) == IF f.path = <<>> THEN 1 ELSE Last(f.path)

Outcome(at, f) ==
    LET behaves == Behaves(at, f)
    IN CASE behaves = "once" -> Iteration(f) = 1
         [] behaves = "twice" -> Iteration(f) <= 2
         [] behaves = "later" -> Iteration(f) > 1
         [] behaves = "outer" -> f.path[1] > 1
         [] OTHER -> behaves = "true"

Raises(at, f) ==
    Behaves(at, f) = "raise" \/ (Behaves(at, f) = "raiselater" /\ Iteration(f) > 1)

-----------------------------------------------------------------------------
(* Signals and contents. *)
Unknown == <<"?">>
Void == <<>>

Signal(state, x) == [state |-> state, x |-> x]
Pending == Signal("pending", Unknown)
Dead == Signal("dead", Void)
Live(x) == Signal("live", x)

IsLive(s) == s.state = "live"
IsDead(s) == s.state = "dead"
IsPending(s) == s.state = "pending"

(* A channel for a value is alive when the value is there. *)
ValueSignal(v) == CASE v = Unknown -> Pending [] v = Void -> Dead [] OTHER -> Live(v)

Channels == {"return", "continue", "break", "finish"}

AllOf(signal) ==
    [return |-> signal, continue |-> signal, break |-> signal, finish |-> signal, next |-> {}]

Waiting(event) == [AllOf(Pending) EXCEPT !.next = {event}]

(* Outputs the node cannot take are annihilated. *)
Shortcut(signals, exits) ==
    [c \in DOMAIN signals |-> IF c \in Channels \ exits THEN Dead ELSE signals[c]]

SerialOrEager(l, r) == IF IsLive(l) THEN l ELSE r

(* l | r: the left one unless it is erased. *)
SerialOr(l, r) == IF IsDead(l) THEN r ELSE l

(* l.choice(r): the left output is l; the right one is r when l is erased  *)
(* and is erased when l is alive.                                          *)
ChoiceNever(l, r) == r

ChoiceRight(l, r) ==
    CASE ~IsLive(r) -> r
      [] IsLive(r) /\ IsPending(l) -> Pending
      [] IsLive(r) /\ IsLive(l) -> Dead
      [] IsLive(r) /\ IsDead(l) -> r

-----------------------------------------------------------------------------
(* Expressions and plain statements, with x the content of the variable.   *)
Reads(s) == "x" \in s.reads
Binds(s) == "x" \in ToSet(s.targets)
HasExpression(s) == s.at # ""

None == <<"None">>

Result(s, f, x) == <<s.at>> \o f.path \o (IF s.op = "return" /\ Reads(s) THEN x ELSE <<>>)

ValueOf(s, f, x) ==
    CASE ~HasExpression(s) -> None
      [] HasExpression(s) /\ Reads(s) /\ x = Void -> Void
      [] HasExpression(s) /\ ~(Reads(s) /\ x = Void) ->
            IF Evaluation(s, f) \notin f.fired THEN Unknown
            ELSE IF Raises(s.at, f) THEN Void ELSE Result(s, f, x)

Evaluable(s, f, x) ==
    IF HasExpression(s) /\ (Reads(s) => x \notin {Void, Unknown})
    THEN {Evaluation(s, f)} ELSE {}

After(s, f, x) ==
    CASE s.op \in {"assign", "annassign", "augassign"} /\ Binds(s) -> ValueOf(s, f, x)
      [] s.op = "delete" /\ Binds(s) -> Void
      [] OTHER -> x

ContentAfter(stmts, f, x) ==
    FoldLeft(LAMBDA content, s : After(s, f, content), x, stmts)

-----------------------------------------------------------------------------
RECURSIVE Layers(_, _, _, _)
RECURSIVE LoopCall(_, _, _, _)

(* A statement list in a flow of its own. *)
BranchFlow(stmts, f, input, exits) ==
    IF ~IsLive(input) THEN AllOf(input)
    ELSE Shortcut(Layers(stmts, f, [AllOf(Dead) EXCEPT !.finish = input], exits), exits)

Body(s, part) == IF part = "body" THEN s.body ELSE s.orelse

BodyFlow(s, part, f, x) ==
    BranchFlow(Body(s, part), [f EXCEPT !.at = s.at, !.part = part], Live(x),
               Exits(Body(s, part)))

(* The branch the test chooses; a test that is erased erases every output. *)
IfStatement(s, f, x) ==
    LET test == ValueOf(s, f, x)
        case == IF Outcome(s.at, f) THEN "body" ELSE "orelse"
        taken == CASE test = Unknown -> AllOf(Pending)
                   [] test = Void -> AllOf(Dead)
                   [] OTHER -> BodyFlow(s, case, f, x)
    IN  [Shortcut(taken, StmtExits(s)) EXCEPT !.next = @ \cup Evaluable(s, f, x)]

(* An iteration: the body, and behind it the loop again unless the body    *)
(* breaks or returns.  The finish output is put together from its parts,   *)
(* so that it is alive before it is known whether there is anything in it. *)
Again(body) == SerialOr(body.continue, body.finish)
Broken(body) == ChoiceRight(body.return, body.break)

Iterated(body, recurse) ==
    [return |-> SerialOr(body.return, recurse.return),
     continue |-> recurse.continue,
     break |-> recurse.break,
     finish |-> Live(SerialOr(Broken(body), recurse.finish).x),
     next |-> body.next \cup recurse.next]

Recursing(s, f, n, body) ==
    Iterated(body, Shortcut(LoopCall(s, f, n + 1, ChoiceRight(Broken(body), Again(body))),
                            StmtExits(s)))

TrueCase(s, f, n, x) ==
    Recursing(s, f, n, BodyFlow(s, "body", [f EXCEPT !.path = Append(@, n)], x))

FalseCase(s, f, n, x) == BodyFlow(s, "orelse", [f EXCEPT !.path = Append(@, n)], x)

(* Loop.__call__ for the n-th iteration.  A for loop asks its iterator and *)
(* binds its target, a while loop reads the variables.                     *)
LoopCall(s, f, n, input) ==
    LET here == [f EXCEPT !.path = Append(@, n)]
        call == Event("loop", s.at, "", 0, here.path)
        test == ValueOf(s, here, input.x)
        x == IF Binds(s) THEN test ELSE input.x
        taken == CASE test = Unknown -> AllOf(Pending)
                   [] test = Void -> AllOf(Dead)
                   [] OTHER -> IF Outcome(s.at, here) THEN TrueCase(s, f, n, x)
                               ELSE FalseCase(s, f, n, input.x)
    IN  IF ~IsLive(input) THEN AllOf(input)
        ELSE IF n > MaxIterations THEN AllOf(Pending)
        ELSE IF call \notin f.fired THEN Waiting(call)
        ELSE [Shortcut(taken, StmtExits(s))
                EXCEPT !.next = @ \cup {call} \cup Evaluable(s, here, input.x)]

Compound(s, f, x) ==
    IF s.op = "if" THEN IfStatement(s, f, x)
    ELSE Shortcut(LoopCall(s, f, 1, Live(x)), StmtExits(s))

(* What a plain exit writes into the outputs of its layer. *)
ExitOuts(s, f, x) ==
    CASE s.op = "return" ->
            [AllOf(Dead) EXCEPT !.return = ValueSignal(ValueOf(s, f, x))]
      [] s.op = "break" -> [AllOf(Dead) EXCEPT !.break = Live(x)]
      [] s.op = "continue" -> [AllOf(Dead) EXCEPT !.continue = Live(x)]

(* What the end of a layer writes: its compound, or the end of the list.   *)
EndOuts(stmts, closed, f, x, exits) ==
    LET last == IF stmts = <<>> THEN Pass ELSE Last(stmts)
    IN CASE last.op \in Compounds -> Compound(last, f, x)
         [] last.op \notin Compounds /\ closed -> AllOf(Dead)
         [] last.op \notin Compounds /\ ~closed /\ "finish" \in exits ->
               [AllOf(Dead) EXCEPT !.finish = Live(x)]
         [] last.op \notin Compounds /\ ~closed /\ "finish" \notin exits ->
               [AllOf(Dead) EXCEPT !.return = Live(None)]

(* The first write of an output counts, so that a compound behind an exit  *)
(* comes too late.                                                         *)
Before(stmts, i, f, x) == ContentAfter(SubSeq(stmts, 1, i - 1), f, x)

FirstWrites(stmts, exit, f, x, end) ==
    IF exit = 0 THEN end
    ELSE LET s == stmts[exit] IN
         [end EXCEPT ![s.op] = ExitOuts(s, f, Before(stmts, exit, f, x))[s.op]]

(* One layer: plain statements, with a compound or the end of the list     *)
(* behind them.                                                            *)
LayerOuts(stmts, closed, f, x, exits) ==
    LET exit == SelectInSeq(stmts, LAMBDA s : s.op \in PlainExits)
        plain == {i \in DOMAIN stmts : stmts[i].op \notin Compounds}
    IN  [FirstWrites(stmts, exit, f, x,
                     EndOuts(stmts, closed, f, ContentAfter(stmts, f, x), exits))
            EXCEPT !.next = @ \cup UNION {Evaluable(stmts[i], f, Before(stmts, i, f, x)) : i \in plain}]

(* apply_continuation: the outputs of a layer join those of the layers     *)
(* before it; neighbours exclude each other.                               *)
ApplyContinuation(control, layer) ==
    LET continue == ChoiceRight(layer.return, layer.continue)
        break == ChoiceRight(continue, layer.break)
    IN  [return |-> SerialOr(control.return, layer.return),
         continue |-> SerialOr(control.continue, continue),
         break |-> SerialOr(control.break, break),
         finish |-> ChoiceRight(break, layer.finish),
         next |-> control.next \cup layer.next]

(* The layer of the statements from first to last, when it is grafted.     *)
Layer(stmts, first, last, f, input, exits) ==
    LET graft == Event("layer", f.at, f.part, first, f.path) IN
    IF ~IsLive(input) THEN AllOf(input)
    ELSE IF graft \notin f.fired THEN Waiting(graft)
    ELSE LayerOuts(SubSeq(stmts, first, last), HasCloser(stmts), f, input.x, exits)

(* A layer ends with a compound statement; another one follows it.         *)
Lasts(stmts) ==
    Append(SelectSeq([i \in DOMAIN stmts |-> i], LAMBDA i : stmts[i].op \in Compounds), Len(stmts))

(* lower_statements: layer by layer, control being the outputs of the      *)
(* layers so far.                                                          *)
Layers(stmts, f, begin, exits) ==
    LET lasts == Lasts(stmts) IN
    FoldLeft(LAMBDA control, k :
                ApplyContinuation(control,
                    Layer(stmts, IF k = 1 THEN 1 ELSE lasts[k - 1] + 1, lasts[k], f,
                          control.finish, exits)),
             begin, [k \in DOMAIN lasts |-> k])

-----------------------------------------------------------------------------
(* The sequential run of the same statements: how a list ends, with which  *)
(* x (or which returned value), and what it evaluates on its way.          *)
Ended(exit, x, ran) == [exit |-> exit, x |-> x, ran |-> ran]

RECURSIVE Run(_, _, _)
RECURSIVE RunLoop(_, _, _, _)

Computed(s, f, x) ==
    CASE ~HasExpression(s) -> None
      [] HasExpression(s) /\ (Raises(s.at, f) \/ (Reads(s) /\ x = Void)) -> Void
      [] OTHER -> Result(s, f, x)

RunStmt(s, f, x) ==
    LET v == Computed(s, f, x)
        ran == Evaluable(s, f, x)
        taken == Run(IF Outcome(s.at, f) THEN s.body ELSE s.orelse, f, x)
    IN CASE s.op \in Loops -> RunLoop(s, f, 1, x)
         [] s.op \notin Loops /\ v = Void -> Ended("raise", Void, ran)
         [] s.op = "if" /\ v # Void -> [taken EXCEPT !.ran = @ \cup ran]
         [] s.op = "return" /\ v # Void -> Ended("return", v, ran)
         [] s.op \in {"break", "continue"} -> Ended(s.op, x, ran)
         [] s.op = "delete" -> Ended("finish", IF Binds(s) THEN Void ELSE x, ran)
         [] OTHER -> Ended("finish", IF Binds(s) THEN v ELSE x, ran)

(* Plain statements behind an exit "run concurrently" (nodes.py).          *)
Run(stmts, f, x) ==
    IF stmts = <<>> THEN Ended("finish", x, {})
    ELSE LET first == RunStmt(Head(stmts), f, x)
             rest == Run(Tail(stmts), f, IF first.exit = "finish" THEN first.x ELSE x)
         IN CASE first.exit = "finish" -> [rest EXCEPT !.ran = @ \cup first.ran]
              [] Head(stmts).op \in PlainExits /\ first.exit # "raise" ->
                    [first EXCEPT !.ran = @ \cup rest.ran]
              [] OTHER -> first

RunLoop(s, f, n, x) ==
    LET here == [f EXCEPT !.path = Append(@, n)]
        v == Computed(s, here, x)
        body == Run(s.body, here, IF Binds(s) THEN v ELSE x)
        rest == RunLoop(s, f, n + 1, body.x)
        ended == CASE v = Void -> Ended("raise", Void, {})
                   [] v # Void /\ ~Outcome(s.at, here) -> Run(s.orelse, here, x)
                   [] v # Void /\ Outcome(s.at, here) /\ n > MaxIterations ->
                        Ended("forever", Void, {})
                   [] v # Void /\ Outcome(s.at, here) /\ n <= MaxIterations ->
                        CASE body.exit = "break" -> [body EXCEPT !.exit = "finish"]
                          [] body.exit \in {"finish", "continue"} ->
                               [rest EXCEPT !.ran = @ \cup body.ran]
                          [] OTHER -> body
    IN  [ended EXCEPT !.ran = @ \cup Evaluable(s, here, x)]

-----------------------------------------------------------------------------
(* A function, its variables given: the signals when done has fired.       *)
Frame(behaviour, done) ==
    [at |-> "", part |-> "", path |-> <<>>, fired |-> done, oracle |-> behaviour]

Input == <<"x0">>

FunctionOuts(stmts, behaviour, done) ==
    BranchFlow(stmts, Frame(behaviour, done), Live(Input), FunctionExits(stmts))

SequentialRun(stmts, behaviour) ==
    LET run == Run(stmts, Frame(behaviour, {}), Input)
    IN  IF run.exit = "finish" THEN Ended("return", None, run.ran) ELSE run

Init ==
    /\ program \in Programs
    /\ oracle \in program.oracles
    /\ fired = {}
    /\ outs = FunctionOuts(Build(program.body), oracle, {})
    /\ sequential = SequentialRun(Build(program.body), oracle)

Grow(does) ==
    \E event \in outs.next \ fired :
        /\ event.does \in does
        /\ fired' = fired \cup {event}

Fire(does) ==
    /\ Grow({does})
    /\ outs' = FunctionOuts(Build(program.body), oracle, fired')
    /\ UNCHANGED <<program, oracle, sequential>>

Evaluate == Fire("evaluate")
EnterLayer == Fire("layer")
CallLoop == Fire("loop")

Reduced == outs.next \subseteq fired

Stopped == Reduced /\ UNCHANGED vars

Next == Evaluate \/ EnterLayer \/ CallLoop \/ Stopped

Spec == Init /\ [][Next]_vars

(* Workers go on executing pairs.  (The outputs follow from what fired.) *)
FairSpec == Spec /\ WF_fired(Grow({"evaluate", "layer", "loop"}))

-----------------------------------------------------------------------------
Answer == outs["return"]

(* A function has one output. *)
TypeOK ==
    /\ program \in Programs
    /\ oracle \in program.oracles
    /\ \A e \in fired : /\ e.does \in {"evaluate", "layer", "loop"}
                        /\ e.part \in {"", "body", "orelse"}
                        /\ \A i \in DOMAIN e.path : e.path[i] \in 1..MaxIterations
    /\ Answer.state \in {"pending", "dead", "live"}
    /\ \A c \in Channels \ {"return"} : IsDead(outs[c])

(* "Agreement with the source" (tests): a call answers what the sequential *)
(* run returns, whatever is evaluated first, and answers nothing when that *)
(* run raises.                                                             *)
AnswersAgree ==
    IsLive(Answer) /\ sequential.exit # "forever" =>
        sequential.exit = "return" /\ Answer.x = sequential.x

(* Dead paths stay dead: what reads a variable is evaluated only if the    *)
(* sequential run evaluates it, in the same iteration.                     *)
OnlyWhatRuns ==
    sequential.exit \notin {"raise", "forever"} =>
        \A e \in outs.next : e.does = "evaluate" => e \in sequential.ran

(* No signal changes once it is known: a channel that died stays dead, a   *)
(* content that arrived stays.                                             *)
SignalsStay ==
    [][\A c \in Channels : /\ ~IsPending(outs[c]) => outs'[c].state = outs[c].state
                           /\ outs[c].x # Unknown => outs'[c].x = outs[c].x]_vars

(* Every call ends with the answer, or with the knowledge that there is    *)
(* none, unless the sequential run never ends.                             *)
Answered ==
    /\ (sequential.exit = "return") ~> IsLive(Answer)
    /\ (sequential.exit = "raise") ~> IsDead(Answer)

(* The two walks over the variables agree, in order, for every function    *)
(* the frontend accepts.                                                   *)
WalksAgree ==
    CollectSymbols(program.params, program.body).names =
        CollectVariables(program.params, program.body)
=============================================================================
