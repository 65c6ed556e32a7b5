------------------------------ MODULE ThreadPool ------------------------------
(***************************************************************************)
(* ThreadPoolExecutor and ThreadWorker of src/natsune/executor.py, with    *)
(* the IdleCounter of src/natsune/deque.py and the connect step of         *)
(* src/natsune/backend/connector.py: one call of an inet function wires    *)
(* its net into the queues, and run() reduces it on N worker threads.      *)
(*                                                                         *)
(* A queue is the sequence WorkStealingDeque is proved to implement.  The  *)
(* net is abstracted to what drives the scheduling: executing an active    *)
(* pair connects the ends of some wires, and the thread that connects the  *)
(* second end of a wire makes a new active pair of it.  A pair therefore   *)
(* carries the name of the wire it comes from.                             *)
(*                                                                         *)
(* An action that reads end_event and then touches one queue or the idle   *)
(* counter does both at once: setting the event in between leads to the    *)
(* same state as setting it right after.                                   *)
(***************************************************************************)
EXTENDS Integers, Sequences, FiniteSets

CONSTANTS
    N,              \* workers
    Pairs,          \* the wires of the net, each an active pair to be
    Graphs,         \* the nets that may run; of each of them:
                    \*   initial   the pairs the caller wires before run()
                    \*   half      the wires the caller leaves with one free end
                    \*   connects  the wires executing each pair connects, in order
                    \*   outputs   the pairs that call the output callback
                    \*   raising   the pairs whose execution raises
    Capacity,       \* of every queue
    MaxReentrant,   \* of every queue
    Nothing         \* no pair in a worker's hands

Workers == 0..(N - 1)

ASSUME PoolAssumption ==
    /\ N \in Nat \ {0}
    /\ \A g \in Graphs :
          /\ g.initial \cup g.half \cup g.outputs \cup g.raising \subseteq Pairs
          /\ g.initial \cap g.half = {}
          /\ g.connects \in [Pairs -> Seq(Pairs)]
    /\ Capacity \in Nat
    /\ MaxReentrant \in 1..Capacity
    /\ Nothing \notin Pairs

(* The connects that find the wire p. *)
Ends(g, p) ==
    UNION {{<<q, i>> : i \in {j \in DOMAIN g.connects[q] : g.connects[q][j] = p}} : q \in Pairs}

(* A net is linear: a wire has two ends at most, those that the caller     *)
(* connects included.  (The rules keep it so: InteractionNet.)             *)
ASSUME LinearAssumption ==
    \A g \in Graphs : \A p \in Pairs :
        /\ p \in g.initial => Ends(g, p) = {}
        /\ p \in g.half => \A x, y \in Ends(g, p) : x = y
        /\ \A x, y, z \in Ends(g, p) : x = y \/ y = z \/ x = z

VARIABLES
    graph,          \* the net that runs
    main,           \* the thread that called the inet function
    queues,         \* one deque for each worker
    connected,      \* how many ends of each wire are connected
    pc,             \* where each worker is in its loop
    idx,            \* whose queue each worker tries to steal from
    hand,           \* next_pair: the pair each worker has taken
    todo,           \* the wires that pair has still to connect
    value,          \* IdleCounter._value
    endEvent,       \* the event that stops the run
    outputs,        \* what the output callback received
    executed,       \* history: the pairs that were executed
    dropped         \* history: the pairs taken and given up at the end

net == <<queues, connected>>
vars == <<graph, main, queues, connected, pc, idx, hand, todo, value, endEvent,
          outputs, executed, dropped>>

Init ==
    /\ graph \in Graphs
    /\ main = "wiring"
    /\ queues = [w \in Workers |-> <<>>]
    /\ connected = [p \in Pairs |-> IF p \in graph.half THEN 1 ELSE 0]
    /\ pc = [w \in Workers |-> "unstarted"]
    /\ idx = [w \in Workers |-> w]
    /\ hand = [w \in Workers |-> Nothing]
    /\ todo = [w \in Workers |-> <<>>]
    /\ value = 0
    /\ endEvent = FALSE
    /\ outputs = {}
    /\ executed = {}
    /\ dropped = {}

Goto(w, place) == pc' = [pc EXCEPT ![w] = place]

-----------------------------------------------------------------------------
(* The calling thread. *)

(* connect_ports of the executor: a queue is drawn at random. *)
WirePair(p) ==
    /\ main = "wiring"
    /\ connected[p] = 0
    /\ connected' = [connected EXCEPT ![p] = 2]
    /\ \E w \in Workers :
          IF Len(queues[w]) < Capacity
          THEN /\ queues' = [queues EXCEPT ![w] = Append(@, p)]
               /\ UNCHANGED main
          ELSE /\ main' = "raised"
               /\ UNCHANGED queues
    /\ UNCHANGED <<graph, pc, idx, hand, todo, value, endEvent, outputs, executed, dropped>>

(* run(): the workers are submitted one after the other, and those already *)
(* submitted run meanwhile.                                                *)
Submit(w) ==
    /\ \/ main = "wiring" /\ \A p \in graph.initial : connected[p] = 2
       \/ main = "submitting"
    /\ pc[w] = "unstarted"
    /\ \A v \in 0..(w - 1) : pc[v] # "unstarted"
    /\ Goto(w, "pop")
    /\ main' = IF w = N - 1 THEN "waiting" ELSE "submitting"
    /\ UNCHANGED <<graph, net, idx, hand, todo, value, endEvent, outputs, executed, dropped>>

(* Leaving the with block waits for every worker. *)
Return ==
    /\ main = "waiting"
    /\ \A w \in Workers : pc[w] = "exited"
    /\ main' = "returned"
    /\ UNCHANGED <<graph, net, pc, idx, hand, todo, value, endEvent, outputs, executed, dropped>>

-----------------------------------------------------------------------------
(* The loop of a worker: __call__ and process_pair. *)

HoldsBackNever(q) == Len(q) > Capacity

HoldsBack(q) == Len(q) - 1 >= Capacity - MaxReentrant

Take(w, p) ==
    /\ hand' = [hand EXCEPT ![w] = p]
    /\ Goto(w, "take")

Exit(w) ==
    /\ pc[w] = "pop"
    /\ endEvent
    /\ Goto(w, "exited")
    /\ UNCHANGED <<graph, main, net, idx, hand, todo, value, endEvent, outputs, executed, dropped>>

(* The owner takes the newest pair of its own queue; a queue that holds    *)
(* its work back sends it to signal idle, not to steal.                    *)
Pop(w) ==
    /\ pc[w] = "pop"
    /\ ~endEvent
    /\ LET q == queues[w] IN
       \/ /\ q = <<>>
          /\ idx' = [idx EXCEPT ![w] = (w + 1) % N]
          /\ Goto(w, IF N = 1 THEN "signal" ELSE "steal")
          /\ UNCHANGED <<queues, hand>>
       \/ /\ q # <<>> /\ HoldsBack(q)
          /\ Goto(w, "signal")
          /\ UNCHANGED <<queues, idx, hand>>
       \/ /\ q # <<>> /\ ~HoldsBack(q)
          /\ Take(w, q[Len(q)])
          /\ queues' = [queues EXCEPT ![w] = SubSeq(q, 1, Len(q) - 1)]
          /\ UNCHANGED idx
    /\ UNCHANGED <<graph, main, connected, todo, value, endEvent, outputs, executed, dropped>>

(* The thief takes the oldest pair of the next worker that has one. *)
Steal(w) ==
    /\ pc[w] = "steal"
    /\ IF endEvent THEN Goto(w, "pop") /\ UNCHANGED <<queues, idx, hand>>
       ELSE LET q == queues[idx[w]] IN
            \/ /\ q # <<>>
               /\ Take(w, Head(q))
               /\ queues' = [queues EXCEPT ![idx[w]] = Tail(q)]
               /\ UNCHANGED idx
            \/ /\ q = <<>>
               /\ idx' = [idx EXCEPT ![w] = (@ + 1) % N]
               /\ Goto(w, IF idx'[w] = w THEN "signal" ELSE "steal")
               /\ UNCHANGED <<queues, hand>>
    /\ UNCHANGED <<graph, main, connected, todo, value, endEvent, outputs, executed, dropped>>

(* A pair taken when the event is set is given up; otherwise the counter   *)
(* is reset before the pair is executed.                                   *)
Begin(w) ==
    /\ pc[w] = "take"
    /\ IF endEvent
       THEN /\ dropped' = dropped \cup {hand[w]}
            /\ hand' = [hand EXCEPT ![w] = Nothing]
            /\ Goto(w, "pop")
            /\ UNCHANGED <<todo, value>>
       ELSE /\ value' = 0
            /\ todo' = [todo EXCEPT ![w] = graph.connects[hand[w]]]
            /\ Goto(w, "connect")
            /\ UNCHANGED <<hand, dropped>>
    /\ UNCHANGED <<graph, main, net, idx, endEvent, outputs, executed>>

ConnectUnlocked(w) ==
    /\ pc[w] = "connect"
    /\ todo[w] # <<>>
    /\ LET p == Head(todo[w]) IN
       /\ connected' = [connected EXCEPT ![p] = @ + 1]
       /\ \/ todo' = [todo EXCEPT ![w] = Tail(@)] /\ UNCHANGED pc
          \/ connected[p] = 1 /\ Goto(w, "push") /\ UNCHANGED todo
    /\ UNCHANGED <<graph, main, queues, idx, hand, value, endEvent, outputs, executed, dropped>>

(* connect_wire_to_port, under the global lock: the first end is kept in   *)
(* the wire, the second one makes an active pair of it.                    *)
Connect(w) ==
    /\ pc[w] = "connect"
    /\ todo[w] # <<>>
    /\ LET p == Head(todo[w]) IN
       /\ connected' = [connected EXCEPT ![p] = @ + 1]
       /\ IF connected[p] = 0
          THEN /\ todo' = [todo EXCEPT ![w] = Tail(@)]
               /\ UNCHANGED pc
          ELSE /\ Goto(w, "push")
               /\ UNCHANGED todo
    /\ UNCHANGED <<graph, main, queues, idx, hand, value, endEvent, outputs, executed, dropped>>

(* connect_ports of the worker, outside the global lock. *)
Push(w) ==
    /\ pc[w] = "push"
    /\ Len(queues[w]) < Capacity
    /\ queues' = [queues EXCEPT ![w] = Append(@, Head(todo[w]))]
    /\ todo' = [todo EXCEPT ![w] = Tail(@)]
    /\ Goto(w, "connect")
    /\ UNCHANGED <<graph, main, connected, idx, hand, value, endEvent, outputs, executed, dropped>>

Finished(w) ==
    /\ hand' = [hand EXCEPT ![w] = Nothing]
    /\ executed' = executed \cup {hand[w]}

FinishSilently(w) ==
    /\ pc[w] = "connect"
    /\ todo[w] = <<>>
    /\ hand[w] \notin graph.raising
    /\ Finished(w)
    /\ Goto(w, "pop")
    /\ outputs' = outputs \cup ({hand[w]} \cap graph.outputs)
    /\ UNCHANGED <<graph, main, net, idx, todo, value, endEvent, dropped>>

(* The interaction is over; an output sets the event. *)
Finish(w) ==
    /\ pc[w] = "connect"
    /\ todo[w] = <<>>
    /\ hand[w] \notin graph.raising
    /\ Finished(w)
    /\ Goto(w, "pop")
    /\ IF hand[w] \in graph.outputs
       THEN outputs' = outputs \cup {hand[w]} /\ endEvent' = TRUE
       ELSE UNCHANGED <<outputs, endEvent>>
    /\ UNCHANGED <<graph, main, net, idx, todo, value, dropped>>

(* The interaction raises, or the assertion of push fails. *)
Fail(w) ==
    /\ \/ pc[w] = "connect" /\ todo[w] = <<>> /\ hand[w] \in graph.raising
       \/ pc[w] = "push" /\ Len(queues[w]) >= Capacity
    /\ Finished(w)
    /\ Goto(w, "failed")
    /\ UNCHANGED <<graph, main, net, idx, todo, value, endEvent, outputs, dropped>>

(* print_worker_exception, the callback of the worker's future. *)
ReportFailure(w) ==
    /\ pc[w] = "failed"
    /\ endEvent' = TRUE
    /\ Goto(w, "exited")
    /\ UNCHANGED <<graph, main, net, idx, hand, todo, value, outputs, executed, dropped>>

SignalOffByOne(w) ==
    /\ pc[w] = "signal"
    /\ value' = w + 2
    /\ Goto(w, IF value' = N THEN "exited" ELSE "pop")
    /\ UNCHANGED <<graph, main, net, idx, hand, todo, endEvent, outputs, executed, dropped>>

SignalAny(w) ==
    /\ pc[w] = "signal"
    /\ value' = w + 1
    /\ Goto(w, "exited")
    /\ UNCHANGED <<graph, main, net, idx, hand, todo, endEvent, outputs, executed, dropped>>

(* IdleCounter.signal: the worker leaves when the counter reads the total. *)
Signal(w) ==
    /\ pc[w] = "signal"
    /\ value' = w + 1
    /\ Goto(w, IF value' = N THEN "exited" ELSE "pop")
    /\ UNCHANGED <<graph, main, net, idx, hand, todo, endEvent, outputs, executed, dropped>>

WorkerStep(w) ==
    \/ Exit(w)
    \/ Pop(w)
    \/ Steal(w)
    \/ Begin(w)
    \/ Connect(w)
    \/ Push(w)
    \/ Finish(w)
    \/ Fail(w)
    \/ ReportFailure(w)
    \/ Signal(w)

MainStep ==
    \/ \E p \in graph.initial : WirePair(p)
    \/ \E w \in Workers : Submit(w)
    \/ Return

Done == main \in {"returned", "raised"} /\ UNCHANGED vars

Next == MainStep \/ (\E w \in Workers : WorkerStep(w)) \/ Done

(* Threads are preempted but never starved: the calling thread and every   *)
(* worker go on running.                                                   *)
Fairness == WF_vars(MainStep) /\ \A w \in Workers : WF_vars(WorkerStep(w))

Spec == Init /\ [][Next]_vars

FairSpec == Spec /\ Fairness

-----------------------------------------------------------------------------
TypeOK ==
    /\ main \in {"wiring", "submitting", "waiting", "returned", "raised"}
    /\ queues \in [Workers -> Seq(Pairs)]
    /\ \A w \in Workers : Len(queues[w]) <= Capacity
    /\ connected \in [Pairs -> 0..2]
    /\ pc \in [Workers -> {"unstarted", "pop", "steal", "take", "connect", "push",
                           "signal", "failed", "exited"}]
    /\ idx \in [Workers -> Workers]
    /\ hand \in [Workers -> Pairs \cup {Nothing}]
    /\ todo \in [Workers -> Seq(Pairs)]
    /\ value \in 0..N
    /\ endEvent \in BOOLEAN
    /\ outputs \subseteq graph.outputs
    /\ executed \subseteq Pairs
    /\ dropped \subseteq Pairs

(* Where a pair can be.  A worker whose push fails keeps the pair it made  *)
(* in todo: it is lost with the worker.                                    *)
QueuedAt(p) ==
    {at \in Workers \X (1..Capacity) :
        at[2] <= Len(queues[at[1]]) /\ queues[at[1]][at[2]] = p}

HeldBy(p) == {w \in Workers : hand[w] = p}

MadeBy(p) ==
    {w \in Workers : pc[w] \in {"push", "failed", "exited"}
                         /\ todo[w] # <<>> /\ Head(todo[w]) = p}

OverBy(p) == {h \in {"executed", "dropped"} : p \in IF h = "executed" THEN executed ELSE dropped}

(* A wire makes exactly one active pair, when its second end is connected, *)
(* whichever threads connect the two ends; and a pair is queued, stolen,   *)
(* executed or given up once.  Nothing is given up before the end event.   *)
(* (A caller that finds a queue full loses the pair, and runs nothing.)    *)
PairsConserved ==
    /\ main # "raised" => \A p \in Pairs :
          Cardinality(QueuedAt(p)) + Cardinality(HeldBy(p))
            + Cardinality(MadeBy(p)) + Cardinality(OverBy(p))
          = IF connected[p] = 2 THEN 1 ELSE 0
    /\ dropped # {} => endEvent

(* A worker that executes a pair has room for all its pushes, wherever it  *)
(* took the pair from, as long as the pair causes at most MaxReentrant.    *)
WorkerReserve ==
    \A w \in Workers :
        /\ pc[w] = "take" => Len(queues[w]) + MaxReentrant <= Capacity
        /\ (pc[w] \in {"connect", "push"} /\ Len(graph.connects[hand[w]]) <= MaxReentrant)
              => Len(queues[w]) + Len(todo[w]) <= Capacity

(* A queue that its owner will not empty: it holds its work back, or the   *)
(* owner has left it through the idle counter.                             *)
Abandoned(w) == queues[w] # <<>> /\ (HoldsBack(queues[w]) \/ pc[w] = "exited")

(* Before the end event, such a queue has a thief: another worker that has *)
(* not left.  (An owner whose queue refuses its work does not steal and    *)
(* signals idle, and the last worker leaves when it does, its own queue    *)
(* full or not.  One thief is enough only where two workers stay.)         *)
ThiefRemains ==
    ~endEvent => \A w \in Workers : Abandoned(w) => \E v \in Workers \ {w} : pc[v] # "exited"

(* A worker that raised, or whose push failed. *)
Failed ==
    \/ executed \cap graph.raising # {}
    \/ \E w \in Workers : pc[w] = "exited" /\ todo[w] # <<>>

(* A net that produces an output delivers it, and the call returns; when a *)
(* worker fails the others stop, and the call returns as well.             *)
OutputDelivered == <>(main = "returned" /\ (outputs # {} \/ Failed))

Quiescent ==
    /\ main = "waiting"
    /\ \A w \in Workers : queues[w] = <<>> /\ hand[w] = Nothing

(* "All workers are idle, stop" (ThreadWorker.__call__): a run whose net   *)
(* is reduced returns, so that the call can report that no output came.    *)
QuiescentRunStops == Quiescent ~> main = "returned"
=============================================================================
