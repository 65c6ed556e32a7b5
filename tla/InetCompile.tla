------------------------------ MODULE InetCompile ------------------------------
(***************************************************************************)
(* The deferred compilation driver of src/natsune/inet.py: threads call    *)
(* inet functions, the first call of a function compiles it and, depth     *)
(* first, the inet functions it calls, all under one re-entrant lock.  A   *)
(* function whose compilation is underway is represented in the nets of    *)
(* its callees by a promise (src/natsune/backend/agents.py), which its own *)
(* compilation fills at the end.                                           *)
(*                                                                         *)
(* A net is abstracted to what it embeds: for every inet function called,  *)
(* the callee's frozen net or one of its promises.  A promise is named by  *)
(* its function and by the attempt at compiling it that made it.           *)
(***************************************************************************)
EXTENDS Integers, Sequences, FiniteSets

CONSTANTS
    Threads,
    Functions,      \* the inet functions
    Callees,        \* Callees[f]: the inet functions f calls, in order
    Fragile,        \* <<f, stage>>: compiling f may fail at that stage
    MaxCalls,       \* bound: calls of a thread
    MaxFailures,    \* bound: failed attempts of all threads
    NoThread,
    NoFunction

Stages == {"signature", "build", "adapters"}

ASSUME CompileAssumption ==
    /\ Callees \in [Functions -> Seq(Functions)]
    /\ Fragile \subseteq Functions \X Stages
    /\ MaxCalls \in Nat
    /\ MaxFailures \in Nat
    /\ NoThread \notin Threads
    /\ NoFunction \notin Functions

VARIABLES
    lock,           \* the thread that holds _compile_lock
    stack,          \* the compilations each thread has underway, nested
    call,           \* the call each thread is making
    calls,          \* how many calls each thread has begun
    outcome,        \* how the last call of each thread ended
    entry,          \* entry[f]: f has its entry point
    compiling,      \* compiling[f]: the flag _compiling
    signed,         \* signed[f]: args_adapter is filled
    expansion,      \* expansion[f]: none, a promise or frozen
    attempt,        \* attempt[f]: the attempt that made the last promise
    filled,         \* the promises whose target is set
    embeds,         \* embeds[f]: what the frozen net of f grafts
    failures        \* how many attempts failed

state == <<entry, compiling, signed, expansion, attempt, filled, embeds>>
vars == <<lock, stack, call, calls, outcome, state, failures>>

Promise(f, n) == [kind |-> "promise", fn |-> f, attempt |-> n]
Frozen(f) == [kind |-> "frozen", fn |-> f, attempt |-> 0]

NoCall == [fn |-> NoFunction, at |-> "idle", net |-> NoFunction]

Init ==
    /\ lock = NoThread
    /\ stack = [t \in Threads |-> <<>>]
    /\ call = [t \in Threads |-> NoCall]
    /\ calls = [t \in Threads |-> 0]
    /\ outcome = [t \in Threads |-> "none"]
    /\ entry = [f \in Functions |-> FALSE]
    /\ compiling = [f \in Functions |-> FALSE]
    /\ signed = [f \in Functions |-> FALSE]
    /\ expansion = [f \in Functions |-> "none"]
    /\ attempt = [f \in Functions |-> 0]
    /\ filled = {}
    /\ embeds = [f \in Functions |-> {}]
    /\ failures = 0

-----------------------------------------------------------------------------
(* A call: ensure_compiled, then the entry point. *)

At(t, place) == call' = [call EXCEPT ![t].at = place]

Call(t) ==
    /\ call[t].at = "idle"
    /\ calls[t] < MaxCalls
    /\ calls' = [calls EXCEPT ![t] = @ + 1]
    /\ \E f \in Functions : call' = [call EXCEPT ![t] = [fn |-> f, at |-> "check", net |-> f]]
    /\ outcome' = [outcome EXCEPT ![t] = "none"]
    /\ UNCHANGED <<lock, stack, state, failures>>

(* The fast path of ensure_compiled reads the two flags without the lock.  *)
Check(t) ==
    /\ call[t].at = "check"
    /\ At(t, IF entry[call[t].fn] \/ compiling[call[t].fn] THEN "enter" ELSE "lock")
    /\ UNCHANGED <<lock, stack, calls, outcome, state, failures>>

AcquireUnchecked(t) ==
    LET f == call[t].fn IN
    /\ call[t].at = "lock"
    /\ lock = NoThread
    /\ At(t, "compiling")
    /\ lock' = t
    /\ stack' = [stack EXCEPT ![t] = <<[fn |-> f, at |-> "start", next |-> 1]>>]
    /\ compiling' = [compiling EXCEPT ![f] = TRUE]
    /\ UNCHANGED <<calls, outcome, entry, signed, expansion, attempt, filled, embeds, failures>>

Frame(f) == [fn |-> f, at |-> "start", next |-> 1]

(* The lock is taken, and the entry point looked for once more.            *)
Acquire(t) ==
    LET f == call[t].fn IN
    /\ call[t].at = "lock"
    /\ lock = NoThread
    /\ IF entry[f]
       THEN /\ At(t, "enter")
            /\ UNCHANGED <<lock, stack, compiling>>
       ELSE /\ At(t, "compiling")
            /\ lock' = t
            /\ stack' = [stack EXCEPT ![t] = <<Frame(f)>>]
            /\ compiling' = [compiling EXCEPT ![f] = TRUE]
    /\ UNCHANGED <<calls, outcome, entry, signed, expansion, attempt, filled, embeds, failures>>

End(t, how) ==
    /\ call' = [call EXCEPT ![t] = NoCall]
    /\ outcome' = [outcome EXCEPT ![t] = how]

(* __call__ asserts, without the lock, that the expansion is no promise... *)
NoPromise(t) ==
    /\ call[t].at = "enter"
    /\ IF expansion[call[t].fn] = "promise"
       THEN End(t, "still compiling")
       ELSE At(t, "entry") /\ UNCHANGED outcome
    /\ UNCHANGED <<lock, stack, calls, state, failures>>

(* ...and then that there is an entry point or, for a call with an         *)
(* executor of its own, IR and an expansion.  Frozen nets and filled       *)
(* promises come with an entry point, so that this differs in one case:    *)
(* the expansion has become a promise meanwhile, and the call runs it.     *)
(* The IR comes with the entry point, or is left by a failed attempt.      *)
Enter(t) ==
    LET f == call[t].fn IN
    /\ call[t].at = "entry"
    /\ \/ entry[f] /\ At(t, "running") /\ UNCHANGED outcome
       \/ ~entry[f] /\ End(t, "still compiling")
       \/ /\ expansion[f] = "promise" /\ Promise(f, attempt[f]) \notin filled
          /\ entry[f] \/ failures > 0
          /\ End(t, "unfilled promise")
    /\ UNCHANGED <<lock, stack, calls, state, failures>>

(* The net runs: it grafts what it embeds, as deep as the arguments make   *)
(* it go.  Grafting a promise without a target fails.                      *)
Graft(t) ==
    /\ call[t].at = "running"
    /\ \E e \in embeds[call[t].net] :
          IF e.kind = "promise" /\ e \notin filled
          THEN End(t, "unfilled promise")
          ELSE /\ call' = [call EXCEPT ![t].net = e.fn]
               /\ UNCHANGED outcome
    /\ UNCHANGED <<lock, stack, calls, state, failures>>

Output(t) ==
    /\ call[t].at = "running"
    /\ End(t, "output")
    /\ UNCHANGED <<lock, stack, calls, state, failures>>

-----------------------------------------------------------------------------
(* _compile, one action for each part that other threads can tell apart.   *)

Top(t) == stack[t][Len(stack[t])]
Compiles(t, place) == stack[t] # <<>> /\ Top(t).at = place
Step(t, place) == stack' = [stack EXCEPT ![t][Len(stack[t])].at = place]

Pop(t) == SubSeq(stack[t], 1, Len(stack[t]) - 1)

(* The promise of a failed attempt is forgotten; the signature is analysed.*)
Start(t) ==
    LET f == Top(t).fn IN
    /\ Compiles(t, "start")
    /\ expansion' = [expansion EXCEPT ![f] = "none"]
    /\ signed' = [signed EXCEPT ![f] = TRUE]
    /\ Step(t, "symbols")
    /\ UNCHANGED <<lock, call, calls, outcome, entry, compiling, attempt, filled, embeds,
                   failures>>

SymbolsOnly(t) ==
    LET f == Top(t).fn
        g == Callees[f]
    IN
    /\ Compiles(t, "symbols")
    /\ signed' = [h \in Functions |-> signed[h] \/ \E i \in DOMAIN g : g[i] = h]
    /\ attempt' = [attempt EXCEPT ![f] = @ + 1]
    /\ Step(t, "callees")
    /\ UNCHANGED <<lock, call, calls, outcome, entry, compiling, expansion, filled, embeds,
                   failures>>

(* ensure_signature of every callee, the symbols, and the promise.         *)
Symbols(t) ==
    LET f == Top(t).fn
        g == Callees[f]
    IN
    /\ Compiles(t, "symbols")
    /\ signed' = [h \in Functions |-> signed[h] \/ \E i \in DOMAIN g : g[i] = h]
    /\ attempt' = [attempt EXCEPT ![f] = @ + 1]
    /\ expansion' = [expansion EXCEPT ![f] = "promise"]
    /\ Step(t, "callees")
    /\ UNCHANGED <<lock, call, calls, outcome, entry, compiling, filled, embeds, failures>>

CalleeAlways(t) ==
    LET f == Top(t).fn
        g == Callees[f][Top(t).next]
        advanced == [stack[t] EXCEPT ![Len(stack[t])].next = @ + 1]
    IN
    /\ Compiles(t, "callees")
    /\ Top(t).next <= Len(Callees[f])
    /\ IF entry[g]
       THEN /\ stack' = [stack EXCEPT ![t] = advanced]
            /\ UNCHANGED compiling
       ELSE /\ stack' = [stack EXCEPT ![t] = Append(advanced, Frame(g))]
            /\ compiling' = [compiling EXCEPT ![g] = TRUE]
    /\ UNCHANGED <<lock, call, calls, outcome, entry, signed, expansion, attempt, filled,
                   embeds, failures>>

(* ensure_compiled of the next callee: nested if it is neither compiled    *)
(* nor being compiled; the thread holds the lock already.                  *)
Callee(t) ==
    LET f == Top(t).fn
        i == Top(t).next
        g == Callees[f][i]
        advanced == [stack[t] EXCEPT ![Len(stack[t])].next = @ + 1]
    IN
    /\ Compiles(t, "callees")
    /\ i <= Len(Callees[f])
    /\ IF entry[g] \/ compiling[g]
       THEN /\ stack' = [stack EXCEPT ![t] = advanced]
            /\ UNCHANGED compiling
       ELSE /\ stack' = [stack EXCEPT ![t] = Append(advanced, Frame(g))]
            /\ compiling' = [compiling EXCEPT ![g] = TRUE]
    /\ UNCHANGED <<lock, call, calls, outcome, entry, signed, expansion, attempt, filled,
                   embeds, failures>>

AllAsked(t) ==
    /\ Compiles(t, "callees")
    /\ Top(t).next > Len(Callees[Top(t).fn])
    /\ Step(t, "lower")
    /\ UNCHANGED <<lock, call, calls, outcome, state, failures>>

EmbedOf(g) == IF expansion[g] = "frozen" THEN Frozen(g) ELSE Promise(g, attempt[g])

(* build_ir and lower_function: the net grafts what each callee offers;    *)
(* then the entry point is set.                                            *)
Lower(t) ==
    LET f == Top(t).fn IN
    /\ Compiles(t, "lower")
    /\ embeds' = [embeds EXCEPT ![f] = {EmbedOf(Callees[f][i]) : i \in DOMAIN Callees[f]}]
    /\ entry' = [entry EXCEPT ![f] = TRUE]
    /\ Step(t, "fill")
    /\ UNCHANGED <<lock, call, calls, outcome, compiling, signed, expansion, attempt, filled,
                   failures>>

FillNothing(t) ==
    /\ Compiles(t, "fill")
    /\ Step(t, "publish")
    /\ UNCHANGED <<lock, call, calls, outcome, state, failures>>

(* The adapters agree: the promise gets its target. *)
Fill(t) ==
    LET f == Top(t).fn IN
    /\ Compiles(t, "fill")
    /\ filled' = filled \cup {Promise(f, attempt[f])}
    /\ Step(t, "publish")
    /\ UNCHANGED <<lock, call, calls, outcome, entry, compiling, signed, expansion, attempt,
                   embeds, failures>>

Publish(t) ==
    /\ Compiles(t, "publish")
    /\ expansion' = [expansion EXCEPT ![Top(t).fn] = "frozen"]
    /\ Step(t, "done")
    /\ UNCHANGED <<lock, call, calls, outcome, entry, compiling, signed, attempt, filled,
                   embeds, failures>>

Raise(t) ==
    /\ failures < MaxFailures
    /\ failures' = failures + 1
    /\ Step(t, "raised")
    /\ UNCHANGED <<lock, call, calls, outcome, entry, compiling, signed, attempt, filled, embeds>>

(* A stage raises: extracting the source of f (the old promise is already  *)
(* gone) or that of a callee whose signature is missing, building the IR,  *)
(* or the assertion that the adapters of promise and net agree.            *)
Fail(t) ==
    LET f == Top(t).fn IN
    /\ \/ Compiles(t, "start") /\ <<f, "signature">> \in Fragile
       \/ /\ Compiles(t, "symbols")
          /\ \E i \in DOMAIN Callees[f] :
                ~signed[Callees[f][i]] /\ <<Callees[f][i], "signature">> \in Fragile
       \/ Compiles(t, "lower") /\ <<f, "build">> \in Fragile
       \/ Compiles(t, "fill") /\ <<f, "adapters">> \in Fragile
    /\ Raise(t)
    /\ expansion' = IF Top(t).at = "start" THEN [expansion EXCEPT ![f] = "none"] ELSE expansion

LeaveFrameKeepingLock(t) ==
    LET f == Top(t).fn
        raised == Top(t).at = "raised"
        outer == Pop(t)
    IN
    /\ Compiles(t, "done") \/ Compiles(t, "raised")
    /\ compiling' = [compiling EXCEPT ![f] = FALSE]
    /\ IF outer = <<>>
       THEN /\ stack' = [stack EXCEPT ![t] = <<>>]
            /\ IF raised THEN End(t, "compile error") /\ UNCHANGED lock
               ELSE At(t, "enter") /\ lock' = NoThread /\ UNCHANGED outcome
       ELSE /\ stack' = [stack EXCEPT ![t] =
                            IF raised THEN [outer EXCEPT ![Len(outer)].at = "raised"] ELSE outer]
            /\ UNCHANGED <<lock, call, outcome>>
    /\ UNCHANGED <<calls, entry, signed, expansion, attempt, filled, embeds, failures>>

(* The finally clause clears the flag; the outermost frame gives the lock  *)
(* back.  An exception goes on into the compilation that asked.            *)
LeaveFrame(t) ==
    LET f == Top(t).fn
        raised == Top(t).at = "raised"
        outer == Pop(t)
    IN
    /\ Compiles(t, "done") \/ Compiles(t, "raised")
    /\ compiling' = [compiling EXCEPT ![f] = FALSE]
    /\ IF outer = <<>>
       THEN /\ lock' = NoThread
            /\ stack' = [stack EXCEPT ![t] = <<>>]
            /\ IF raised THEN End(t, "compile error")
               ELSE At(t, "enter") /\ UNCHANGED outcome
       ELSE /\ stack' = [stack EXCEPT ![t] =
                            IF raised THEN [outer EXCEPT ![Len(outer)].at = "raised"] ELSE outer]
            /\ UNCHANGED <<lock, call, outcome>>
    /\ UNCHANGED <<calls, entry, signed, expansion, attempt, filled, embeds, failures>>

CallStep(t) ==
    \/ Check(t)
    \/ Acquire(t)
    \/ NoPromise(t)
    \/ Enter(t)
    \/ Graft(t)
    \/ Output(t)

CompileStep(t) ==
    \/ Start(t)
    \/ Symbols(t)
    \/ Callee(t)
    \/ AllAsked(t)
    \/ Lower(t)
    \/ Fill(t)
    \/ Publish(t)
    \/ Fail(t)
    \/ LeaveFrame(t)

Idle == (\A t \in Threads : call[t].at = "idle" /\ calls[t] = MaxCalls) /\ UNCHANGED vars

Next == (\E t \in Threads : Call(t) \/ CallStep(t) \/ CompileStep(t)) \/ Idle

Spec == Init /\ [][Next]_vars

(* Every thread goes on running; the lock is not withheld for ever from a  *)
(* thread that waits for it.                                               *)
Fairness ==
    \A t \in Threads :
        /\ WF_vars(Check(t) \/ NoPromise(t) \/ Enter(t) \/ CompileStep(t))
        /\ SF_vars(Acquire(t))

FairSpec == Spec /\ Fairness

-----------------------------------------------------------------------------
Places == {"start", "symbols", "callees", "lower", "fill", "publish", "done", "raised"}

(* A function is attempted once more for each failure at most. *)
TypeOK ==
    /\ lock \in Threads \cup {NoThread}
    /\ \A t \in Threads : \A i \in DOMAIN stack[t] :
          stack[t][i] \in [fn : Functions, at : Places, next : Nat \ {0}]
    /\ call \in [Threads ->
          [fn : Functions \cup {NoFunction},
           at : {"idle", "check", "lock", "compiling", "enter", "entry", "running"},
           net : Functions \cup {NoFunction}]]
    /\ calls \in [Threads -> 0..MaxCalls]
    /\ outcome \in [Threads -> {"none", "output", "compile error", "still compiling",
                                 "unfilled promise"}]
    /\ entry \in [Functions -> BOOLEAN]
    /\ compiling \in [Functions -> BOOLEAN]
    /\ signed \in [Functions -> BOOLEAN]
    /\ expansion \in [Functions -> {"none", "promise", "frozen"}]
    /\ attempt \in [Functions -> 0..(MaxFailures + 1)]
    /\ \A p \in filled : p.kind = "promise" /\ p.attempt \in 1..attempt[p.fn]
    /\ failures \in 0..MaxFailures

Underway == UNION {{<<t, i>> : i \in DOMAIN stack[t]} : t \in Threads}

(* Only the thread that holds the lock compiles, no function is compiled   *)
(* inside its own compilation, and _compiling says which ones are          *)
(* underway, whatever raised.                                              *)
OneCompiler ==
    /\ \A u \in Underway : lock = u[1]
    /\ \A u, v \in Underway : stack[u[1]][u[2]].fn = stack[v[1]][v[2]].fn => u = v
    /\ \A f \in Functions : compiling[f] <=> \E u \in Underway : stack[u[1]][u[2]].fn = f

(* When the net of a function is lowered, each of its callees has a net or *)
(* a promise to graft and a signature to link against, even in a cycle:    *)
(* "the driver compiles (or promises) every callee before lowering".       *)
GraftsPossible ==
    \A t \in Threads : Compiles(t, "lower") =>
        \A i \in DOMAIN Callees[Top(t).fn] :
            LET g == Callees[Top(t).fn][i] IN expansion[g] # "none" /\ signed[g]

(* Between compilations, if none failed, every net that can run is whole:  *)
(* each promise it embeds, directly or in a cycle, has its target.         *)
NetsComplete ==
    (lock = NoThread /\ failures = 0) =>
        \A f \in Functions : entry[f] =>
            /\ expansion[f] = "frozen"
            /\ \A e \in embeds[f] : e.kind = "promise" => e \in filled

(* A function is compiled once: what callers have embedded is never        *)
(* replaced (test_compile_once_and_reuse).                                 *)
CompiledOnce ==
    [][\A f \in Functions :
          entry[f] => entry'[f] /\ embeds'[f] = embeds[f] /\ (compiling'[f] => compiling[f])]_vars

(* Every call gets through its compilation: cycles of callees, threads     *)
(* that call into a cycle at both ends, and failures block nobody.         *)
CallsServed ==
    \A t \in Threads : call[t].at # "idle" ~> call[t].at \in {"running", "idle"}

(* "The callee's compile fills [the promise] with the finished             *)
(* FrozenExpansion before any net can run", and a call that finds          *)
(* _compiling set is "mid-compile on this thread": when no compilation     *)
(* fails, no call meets a promise.                                         *)
FirstCallsServed ==
    failures = 0 => \A t \in Threads : outcome[t] \notin {"still compiling", "unfilled promise"}

(* "A retry after a failed attempt must not keep a stale promise: nothing  *)
(* valid can have embedded it": no runnable net embeds a promise that a    *)
(* later attempt has replaced.                                             *)
NoStalePromise ==
    \A f \in Functions : entry[f] /\ expansion[f] = "frozen" =>
        \A e \in embeds[f] : e.kind = "promise" => e \in filled \/ e.attempt = attempt[e.fn]
=============================================================================
