----------------------------- MODULE MCThreadPool -----------------------------
(* Small nets for ThreadPool.                                              *)
EXTENDS ThreadPool

CONSTANTS a, b, c, d, e, f, g

(* A fork and a join: executing a and b connects the two ends of c, of d   *)
(* and of e, in opposite orders; c and d join in f, the output.            *)
ForkAndJoin ==
    [initial |-> {a, b}, half |-> {}, outputs |-> {f}, raising |-> {},
     connects |-> [p \in Pairs |->
        CASE p = a -> <<c, d, e>>
          [] p = b -> <<e, d, c>>
          [] p \in {c, d} -> <<f>>
          [] OTHER -> <<>>]]

(* The same net without an output. *)
NoOutput == [ForkAndJoin EXCEPT !.outputs = {}]

(* A net whose first pair pushes more than the reserve: a template with    *)
(* four active pairs, one of them the output; another one raises.          *)
BigTemplate ==
    [initial |-> {a, b, c}, half |-> {d, e, f, g}, outputs |-> {g}, raising |-> {d},
     connects |-> [p \in Pairs |-> IF p = a THEN <<d, e, f, g>> ELSE <<>>]]

MCGraphs == {ForkAndJoin, BigTemplate}

QuietGraphs == {NoOutput}
=============================================================================
