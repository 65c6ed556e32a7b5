------------------------------- MODULE Optimizer -------------------------------
(***************************************************************************)
(* backend/optimizer.py: the pairs of a template are rewritten before it   *)
(* is used, until nothing changes.                                         *)
(***************************************************************************)
EXTENDS Expansions

(* One wire of a pair may lead through a wire that only passes on. *)
Shortened(port, target) ==
    LET passes(w) == w \in DOMAIN target /\ target[w].kind = "wire"
    IN  [port EXCEPT !.wires =
            [i \in DOMAIN @ |-> IF passes(@[i]) THEN target[@[i]].wires[1] ELSE @[i]]]

OptimizePair(net, pair) ==
    LET l == pair[1]  r == pair[2]
        kinds == {l.kind, r.kind}
        short == <<Shortened(l, net.target), Shortened(r, net.target)>>
    IN CASE kinds = {"comb"} /\ l.label = r.label ->
              Build1(Build1(net, Join(l.wires[1], r.wires[1])), Join(l.wires[2], r.wires[2]))
         [] l.kind = "wire" -> Build1(net, To(l.wires[1], r))
         [] l.kind # "wire" /\ r.kind = "wire" -> Build1(net, To(r.wires[1], l))
         [] kinds = {"erasure"} -> net
         [] OTHER -> [net EXCEPT !.pairs = Append(@, short)]

(* optimize: until a pass changes nothing. *)
RECURSIVE Optimized(_)
Optimized(net) ==
    LET pass == FoldLeft(OptimizePair, [net EXCEPT !.pairs = <<>>], net.pairs)
    IN  IF pass = net THEN net ELSE Optimized(pass)
================================================================================
