----------------------------- MODULE SerialExecutor -----------------------------
(***************************************************************************)
(* DeterministicSerialExecutor of src/natsune/executor.py: one thread,     *)
(* and a stack of active pairs.  The rules are those of InteractionNet;    *)
(* what is said here is which pair is next, and when run returns: when no  *)
(* pair is left, or after the pair in which the callback of as_callable    *)
(* (backend/python_backend.py) set the end event.  The pairs a run leaves  *)
(* behind are still there when the next call is made on this executor.     *)
(***************************************************************************)
EXTENDS Expansions, Bags

CONSTANTS
    Nets,           \* the nets that are run, and what is expected of them
    Raising,        \* values on which the merge and split functions raise
    MaxWires,       \* bound on the wires a reduction allocates
    NoPort          \* Wire.target is None

(* The executor works on every net, and on a list of calls. *)
ASSUME ExecutorAssumption ==
    MaxWires \in Nat /\ \A n \in Nets : n.crew = {"executor"} /\ n.again \in Seq(ToSet(n.again))

VARIABLES
    net,            \* the net that is run
    allocated,      \* the wires made so far
    target,         \* Wire.target
    copied,         \* AmbiguousPair.copied
    uses,           \* history: how many ends of each wire were connected
    active_pairs,   \* a list, the last one is next
    todo,           \* the connects that are still to do
    running,        \* run was called
    raised,         \* an interaction raised
    calls,          \* how many calls were made
    outputs         \* what the callbacks received

vars ==
    <<net, allocated, target, copied, uses, active_pairs, todo, running, raised, calls, outputs>>

PairsBag ==
    [pair \in ToSet(active_pairs) |->
        Cardinality({i \in DOMAIN active_pairs : active_pairs[i] = pair})]

(* The net, with this executor as its only worker. *)
Inet == INSTANCE InteractionNet WITH
    Workers <- {"executor"}, caller <- "caller",
    active <- PairsBag,
    todo <- [t \in {"executor", "caller"} |-> IF (t = "executor") = running THEN todo ELSE <<>>]

(* The nets of all calls connect the ends of their wires once. *)
Linear(n) ==
    /\ Inet!Deterministic(n) /\ Inet!LinearNet(n)
    /\ \A k \in DOMAIN n.again : Inet!LinearCall(n, n.again[k])

ASSUME PortAssumption == \A n \in Nets : NoPort \notin Inet!PortsOver(n, Inet!Wires)

(* The labels and tokens that the rules make. *)
ASSUME NamesAssumption == {"", "x", "l", "r", "True", "False"} \subseteq STRING

Init ==
    /\ net \in Nets
    /\ allocated = net.wires
    /\ target = [w \in 1..MaxWires |-> NoPort]
    /\ copied = {}
    /\ uses = [w \in 1..MaxWires |-> 0]
    /\ active_pairs = <<>>
    /\ todo = net.connects
    /\ running = FALSE
    /\ raised = FALSE
    /\ calls = 1
    /\ outputs = <<>>

-----------------------------------------------------------------------------
(* The callback is the function of a merge whose other operand is None,    *)
(* and it catches the erasure that comes in place of a value.              *)
Callback(w, n) ==
    <<To(New(n, 1), ValuePort(<<"None">>)), To(New(n, 2), Graft("catch", <<>>)),
      To(w, MergePort("callback", FALSE, New(n, 1), New(n, 2)))>>

ReceivedLast(l, r) ==
    LET merge == Inet!PortOf("merge", l, r) IN
    IF Inet!Kinds(l, r) = {"merge", "value"} /\ merge.label = "callback"
            /\ Inet!OperandReady(merge)
    THEN <<Inet!PortOf("value", l, r)>> ELSE <<>>

Received(l, r) ==
    LET merge == Inet!PortOf("merge", l, r)
        graft == Inet!PortOf("graft", l, r)
    IN IF Inet!Kinds(l, r) = {"merge", "value"} /\ merge.label = "callback"
            /\ Inet!OperandReady(merge)
       THEN <<IF merge.swapped THEN target[merge.wires[1]] ELSE Inet!PortOf("value", l, r)>>
       ELSE IF Inet!Kinds(l, r) = {"graft", "erasure"} /\ graft.label = "catch"
       THEN <<Erasure>>
       ELSE <<>>

Ended == Len(outputs) = calls

Begin(pair) ==
    \E connects \in {Inet!Interaction(pair[1], pair[2])} :
    \E name \in {Identities(Fresh(connects), allocated)} :
        /\ allocated' = allocated + Cardinality(DOMAIN name)
        /\ allocated' <= MaxWires
        /\ todo' = Renamed(connects, name)
        /\ copied' = copied \cup Inet!Serves(pair[1], pair[2])
        /\ outputs' = outputs \o Received(pair[1], pair[2])
        /\ UNCHANGED raised

(* The illegal pair raises out of run, it was popped before. *)
Raise(pair) == raised' = TRUE /\ UNCHANGED <<allocated, todo, copied, outputs>>

RemainingAll == active_pairs

RemainingButFirst == Tail(active_pairs)

Remaining == Front(active_pairs)

(* process_pair: up to its first connect. *)
ProcessPair ==
    /\ running /\ todo = <<>> /\ active_pairs # <<>> /\ ~Ended /\ ~raised
    /\ LET pair == Last(active_pairs) IN
          \/ Inet!Legal(pair[1], pair[2]) /\ Begin(pair)
          \/ ~Inet!Legal(pair[1], pair[2]) /\ Raise(pair)
    /\ active_pairs' = Remaining
    /\ UNCHANGED <<net, target, uses, running, calls>>

(* Connector.connect, with connect_ports of this executor: a port that     *)
(* finds another one makes a pair with it.                                 *)
Pushed(pair) == Append(active_pairs, pair)

Connect ==
    /\ todo # <<>>
    /\ LET w == Head(todo).wire  port == Head(todo).port IN
       /\ uses' = [uses EXCEPT ![w] = @ + 1]
       /\ IF target[w] = NoPort
          THEN target' = [target EXCEPT ![w] = port] /\ UNCHANGED active_pairs
          ELSE active_pairs' = Pushed(<<target[w], port>>) /\ UNCHANGED target
    /\ todo' = Tail(todo)
    /\ UNCHANGED <<net, allocated, copied, running, raised, calls, outputs>>

(* The caller calls run when the net is wired. *)
Run ==
    /\ todo = <<>> /\ ~running
    /\ running' = TRUE
    /\ UNCHANGED <<net, allocated, target, copied, uses, active_pairs, todo, raised, calls, outputs>>

Returned == running /\ todo = <<>> /\ (active_pairs = <<>> \/ Ended \/ raised)

CallAgainOnOldWires ==
    /\ Returned /\ Ended /\ ~raised /\ calls <= Len(net.again)
    /\ LET connects == net.again[calls] IN
       \E name \in {Identities(Fresh(connects), net.wires)} :
          /\ allocated' = allocated + Cardinality(DOMAIN name)
          /\ allocated' <= MaxWires
          /\ todo' = Renamed(connects, name)
    /\ calls' = calls + 1
    /\ running' = FALSE
    /\ UNCHANGED <<net, target, copied, uses, active_pairs, raised, outputs>>

(* The next call wires its net beside what the last run left. *)
CallAgain ==
    /\ Returned /\ Ended /\ ~raised /\ calls <= Len(net.again)
    /\ LET connects == net.again[calls] IN
       \E name \in {Identities(Fresh(connects), allocated)} :
          /\ allocated' = allocated + Cardinality(DOMAIN name)
          /\ allocated' <= MaxWires
          /\ todo' = Renamed(connects, name)
    /\ calls' = calls + 1
    /\ running' = FALSE
    /\ UNCHANGED <<net, target, copied, uses, active_pairs, raised, outputs>>

Stopped == Returned /\ UNCHANGED vars

Next == ProcessPair \/ Connect \/ Run \/ CallAgain \/ Stopped

(* One thread, which is not suspended forever. *)
Spec == Init /\ [][Next]_vars /\ WF_vars(ProcessPair \/ Connect \/ Run)

-----------------------------------------------------------------------------
TypeOK ==
    /\ Inet!TypeOK
    /\ running \in BOOLEAN
    /\ calls \in 1..(Len(net.again) + 1)
    /\ Len(outputs) <= calls

(* The variables hold what the accesses to them, in the order of the       *)
(* source, leave there: every observer of a program reads what Meaning     *)
(* says, through whatever adapters, chains and layers.                     *)
VariablesMean == (raised => ~net.legal) /\ Inet!ValuesDelivered

(* Every register a program leaves behind is closed: nothing dangles when  *)
(* no pair is left.                                                        *)
RegistersClosed == Inet!NothingLeft

(* The wires of a call are linear beside what the calls before it left: no *)
(* end is lost or connected twice, in whatever order the pairs of several  *)
(* calls are reduced.                                                      *)
CallsLinear ==
    /\ calls = 1 /\ todo = net.connects => Linear(net)
    /\ Inet!WiresLinear

(* A call returns one answer, that of its program, although it leaves      *)
(* pairs behind, and finds those of the call before it.                    *)
CallAnswered ==
    Returned /\ net.answers # <<>> => outputs = SubSeq(net.answers, 1, calls)

(* run returns, in every call. *)
Returns == []<>Returned

(* The stack is one of the orders in which a net may be reduced: between   *)
(* two calls every step is one of InteractionNet.                          *)
Reduces == Inet!Wired /\ [][CallAgain \/ Inet!Next]_(Inet!vars)
=============================================================================
