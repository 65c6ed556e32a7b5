-------------------------- MODULE InteractionNetProofs --------------------------
(***************************************************************************)
(* Proof that wires are linear, for every net that does not depend on what *)
(* arrives first, every number of workers and every interleaving of their  *)
(* connects.  Each rule connects as many ends of a wire as the ports it    *)
(* takes have, and two of each wire that it makes.                         *)
(***************************************************************************)
EXTENDS WireCounting

(* What a rule connects in place of the active pair of l and r. *)
Conserves(n, a, cs, l, r) ==
    /\ cs \in ConnectsOver(n, (1..a) \cup OwnWires)
    /\ \A t \in Threads :
         /\ \A x \in 1..a : Count(EndsIn(t, cs), x) = Weight(l, x) + Weight(r, x)
         /\ \A x \in OwnWires : /\ Count(EndsIn(t, cs), x) <= 2
                                /\ ~n.drops => Count(EndsIn(t, cs), x) # 1

LEMMA PortIs ==
    ASSUME NEW n, NEW W, NEW kind \in PortKinds, NEW label \in STRING, NEW value \in Seq(STRING),
           NEW swapped \in BOOLEAN, NEW wires \in Seq(W), Len(wires) = Arity(kind),
           kind = "graft" => label \in DOMAIN n.expansions /\ n.expansions[label].does # "catch"
    PROVE  [kind |-> kind, label |-> label, value |-> value, swapped |-> swapped, wires |-> wires]
             \in PortsOver(n, W)
<1> DEFINE p == [kind |-> kind, label |-> label, value |-> value, swapped |-> swapped,
                 wires |-> wires]
           P == [kind : PortKinds, label : STRING, value : Seq(STRING), swapped : BOOLEAN,
                 wires : Seq(W)]
<1>1. p \in P
  OBVIOUS
<1>2. /\ p.kind = "graft" => p.label \in DOMAIN n.expansions
      /\ Len(p.wires) = IF Catches(n, p) THEN 0 ELSE Arity(p.kind)
  BY DEF Catches
<1> HIDE DEF p, P
<1>3. p \in {q \in P : /\ q.kind = "graft" => q.label \in DOMAIN n.expansions
                       /\ Len(q.wires) = IF Catches(n, q) THEN 0 ELSE Arity(q.kind)}
  BY <1>1, <1>2
<1> QED
  BY <1>3 DEF p, P, PortsOver

LEMMA PortsMade ==
    ASSUME NEW n, NEW W, NEW v \in W, NEW w \in W
    PROVE  /\ WirePort(w) \in PortsOver(n, W)
           /\ Erasure \in PortsOver(n, W)
           /\ \A s \in Seq(STRING) : ValuePort(s) \in PortsOver(n, W)
           /\ \A label \in STRING : CombPort(label, v, w) \in PortsOver(n, W)
           /\ \A fn \in STRING, swapped \in BOOLEAN : MergePort(fn, swapped, v, w) \in PortsOver(n, W)
           /\ \A e \in STRING \cap DOMAIN n.expansions :
                 n.expansions[e].does # "catch" => Graft(e, <<w>>) \in PortsOver(n, W)
<1> DEFINE port(kind, label, value, swapped, wires) ==
             [kind |-> kind, label |-> label, value |-> value, swapped |-> swapped, wires |-> wires]
<1>1. <<>> \in Seq(W) /\ <<w>> \in Seq(W) /\ <<v, w>> \in Seq(W)
  OBVIOUS
<1>2. Len(<<>>) = 0 /\ Len(<<w>>) = 1 /\ Len(<<v, w>>) = 2
  OBVIOUS
<1>3. "" \in STRING /\ <<>> \in Seq(STRING)
  <2>1. "" \in STRING
    BY NamesAssumption
  <2>2. <<>> \in Seq(STRING)
    OBVIOUS
  <2> QED
    BY <2>1, <2>2
<1>4. /\ PortKinds = {"wire", "value", "erasure", "comb", "merge", "split", "graft"}
      /\ Arity("wire") = 1 /\ Arity("value") = 0 /\ Arity("erasure") = 0 /\ Arity("comb") = 2
      /\ Arity("merge") = 2 /\ Arity("graft") = 1
  BY DEF PortKinds, Arity
<1>5. WirePort(w) = port("wire", "", <<>>, FALSE, <<w>>)
  BY DEF WirePort, Port
<1>6. Erasure = port("erasure", "", <<>>, FALSE, <<>>)
  BY DEF Erasure, Port
<1>7. ASSUME NEW s PROVE ValuePort(s) = port("value", "", s, FALSE, <<>>)
  <2> DEFINE p == port("value", "", <<>>, FALSE, <<>>)
  <2>1. ValuePort(s) = [p EXCEPT !.value = s]
    BY DEF ValuePort, Port
  <2> QED
    BY <2>1
<1>8. ASSUME NEW label PROVE CombPort(label, v, w) = port("comb", label, <<>>, FALSE, <<v, w>>)
  <2> DEFINE p == port("comb", "", <<>>, FALSE, <<v, w>>)
  <2>1. CombPort(label, v, w) = [p EXCEPT !.label = label]
    BY DEF CombPort, Port
  <2> QED
    BY <2>1
<1>9. ASSUME NEW fn, NEW swapped
      PROVE  MergePort(fn, swapped, v, w) = port("merge", fn, <<>>, swapped, <<v, w>>)
  <2> DEFINE p == port("merge", "", <<>>, FALSE, <<v, w>>)
  <2>1. MergePort(fn, swapped, v, w) = [p EXCEPT !.label = fn, !.swapped = swapped]
    BY DEF MergePort, Port
  <2> QED
    BY <2>1
<1>10. ASSUME NEW e PROVE Graft(e, <<w>>) = port("graft", e, <<>>, FALSE, <<w>>)
  <2> DEFINE p == port("graft", "", <<>>, FALSE, <<w>>)
  <2>1. Graft(e, <<w>>) = [p EXCEPT !.label = e]
    BY DEF Graft, Port
  <2> QED
    BY <2>1
<1>11. ASSUME NEW kind \in PortKinds, NEW label \in STRING, NEW value \in Seq(STRING),
             NEW swapped \in BOOLEAN, NEW wires \in Seq(W), Len(wires) = Arity(kind),
             kind = "graft" => label \in DOMAIN n.expansions /\ n.expansions[label].does # "catch"
       PROVE  port(kind, label, value, swapped, wires) \in PortsOver(n, W)
  BY <1>11, PortIs
<1> HIDE DEF port
<1>12. WirePort(w) \in PortsOver(n, W)
  BY <1>1, <1>2, <1>3, <1>4, <1>5, <1>11
<1>13. Erasure \in PortsOver(n, W)
  BY <1>1, <1>2, <1>3, <1>4, <1>6, <1>11
<1>14. \A s \in Seq(STRING) : ValuePort(s) \in PortsOver(n, W)
  BY <1>1, <1>2, <1>3, <1>4, <1>7, <1>11
<1>15. \A label \in STRING : CombPort(label, v, w) \in PortsOver(n, W)
  BY <1>1, <1>2, <1>3, <1>4, <1>8, <1>11
<1>16. \A fn \in STRING, swapped \in BOOLEAN : MergePort(fn, swapped, v, w) \in PortsOver(n, W)
  BY <1>1, <1>2, <1>3, <1>4, <1>9, <1>11
<1>17. \A e \in STRING \cap DOMAIN n.expansions :
           n.expansions[e].does # "catch" => Graft(e, <<w>>) \in PortsOver(n, W)
  BY <1>1, <1>2, <1>3, <1>4, <1>10, <1>11
<1> QED
  BY <1>12, <1>13, <1>14, <1>15, <1>16, <1>17

LEMMA PortWeights ==
    ASSUME NEW v, NEW w, NEW x
    PROVE  /\ Weight(WirePort(w), x) = Is(w, x)
           /\ Weight(Erasure, x) = 0
           /\ \A s : Weight(ValuePort(s), x) = 0
           /\ \A label : Weight(CombPort(label, v, w), x) = Is(v, x) + Is(w, x)
           /\ \A fn, swapped : Weight(MergePort(fn, swapped, v, w), x) = Is(v, x) + Is(w, x)
           /\ \A e : Weight(Graft(e, <<w>>), x) = Is(w, x)
<1>1. Weight(WirePort(w), x) = Is(w, x)
  BY DEF WirePort, Port, Weight, Arity
<1>2. Weight(Erasure, x) = 0
  BY DEF Erasure, Port, Weight, Arity
<1>3. \A s : Weight(ValuePort(s), x) = 0
  BY DEF ValuePort, Port, Weight, Arity
<1>4. \A label : Weight(CombPort(label, v, w), x) = Is(v, x) + Is(w, x)
  BY DEF CombPort, Port, Weight, Arity
<1>5. \A fn, swapped : Weight(MergePort(fn, swapped, v, w), x) = Is(v, x) + Is(w, x)
  BY DEF MergePort, Port, Weight, Arity
<1>6. \A e : Weight(Graft(e, <<w>>), x) = Is(w, x)
  BY DEF Graft, Port, Weight, Arity
<1> QED
  BY <1>1, <1>2, <1>3, <1>4, <1>5, <1>6

(* A port has wires of the net only, and a connect is of one. *)
LEMMA ConnectMade ==
    ASSUME NEW n, NEW W, NEW w \in W, NEW p \in PortsOver(n, W), NEW x
    PROVE  /\ To(w, p) \in OneOver(n, W)
           /\ Made(To(w, p), x) = Is(w, x) + Weight(p, x)
BY DEF To, Made, OneOver

LEMMA PortTyped ==
    ASSUME NEW n, NEW W, NEW p \in PortsOver(n, W)
    PROVE  /\ p.kind \in PortKinds /\ p.label \in STRING /\ p.value \in Seq(STRING)
           /\ p.swapped \in BOOLEAN /\ p.wires \in Seq(W)
           /\ Len(p.wires) \in {0, 1, 2}
           /\ Len(p.wires) >= 1 => p.wires[1] \in W
           /\ Len(p.wires) = 2 => p.wires[2] \in W
           /\ ~Catches(n, p) => Len(p.wires) = Arity(p.kind)
           /\ p.kind = "graft" => p.label \in STRING \cap DOMAIN n.expansions
           /\ \A x : Weight(p, x) \in Nat
           /\ \A x : x \notin W => Weight(p, x) = 0
<1>1. /\ p.kind \in PortKinds /\ p.label \in STRING /\ p.value \in Seq(STRING)
      /\ p.swapped \in BOOLEAN /\ p.wires \in Seq(W)
      /\ Len(p.wires) = IF Catches(n, p) THEN 0 ELSE Arity(p.kind)
      /\ p.kind = "graft" => p.label \in STRING \cap DOMAIN n.expansions
  BY DEF PortsOver
<1>2. Len(p.wires) \in {0, 1, 2}
  BY <1>1 DEF Arity
<1>3. /\ Len(p.wires) >= 1 => p.wires[1] \in W
      /\ Len(p.wires) = 2 => p.wires[2] \in W
  BY <1>1, <1>2
<1>4. \A x : Weight(p, x) \in Nat
  BY <1>2 DEF Weight, Is
<1>5. \A x : x \notin W => Weight(p, x) = 0
  BY <1>2, <1>3 DEF Weight, Is
<1> QED
  BY <1>1, <1>2, <1>3, <1>4, <1>5

(* The ports that are not grafts, and the grafts that do not catch. *)
LEMMA PortSize ==
    ASSUME NEW n, NEW W, NEW p \in PortsOver(n, W)
    PROVE  /\ p.kind # "graft" => Len(p.wires) = Arity(p.kind)
           /\ p.kind = "graft" /\ n.expansions[p.label].does # "catch" => Len(p.wires) = 1
           /\ Catches(n, p) => Len(p.wires) = 0
BY DEF PortsOver, Catches, Arity

LEMMA ChainOfTwo ==
    ASSUME NEW w, NEW p, NEW q, NEW n
    PROVE  Chain(w, <<p, q>>, n)
             = <<Tuplate(w, p, New(n, 1)), Tuplate(New(n, 1), q, New(n, 2)), Annihilate(New(n, 2))>>
<1> DEFINE rest(i) == IF i = 1 THEN w ELSE New(n, i - 1)
           parts == <<p, q>>
           c == Tuplate(w, p, New(n, 1))
           d == Tuplate(New(n, 1), q, New(n, 2))
<1>1. rest(1) = w /\ rest(2) = New(n, 1) /\ rest(3) = New(n, 2)
  OBVIOUS
<1>2. DOMAIN parts = {1, 2} /\ Len(parts) = 2 /\ parts[1] = p /\ parts[2] = q
  OBVIOUS
<1>3. Chain(w, parts, n)
        = [i \in DOMAIN parts |-> Tuplate(rest(i), parts[i], rest(i + 1))]
             \o <<Annihilate(rest(Len(parts) + 1))>>
  BY DEF Chain
<1> HIDE DEF rest, parts
<1>4. [i \in DOMAIN parts |-> Tuplate(rest(i), parts[i], rest(i + 1))] = <<c, d>>
  <2>1. /\ Tuplate(rest(1), parts[1], rest(1 + 1)) = c
        /\ Tuplate(rest(2), parts[2], rest(2 + 1)) = d
    BY <1>1, <1>2
  <2> HIDE DEF c, d
  <2>2. [i \in {1, 2} |-> Tuplate(rest(i), parts[i], rest(i + 1))] = <<c, d>>
    BY <2>1
  <2> QED
    BY <1>2, <2>2
<1>5. rest(Len(parts) + 1) = New(n, 2)
  BY <1>1, <1>2
<1>6. <<c, d>> \o <<Annihilate(New(n, 2))>> = <<c, d, Annihilate(New(n, 2))>>
  <2> HIDE DEF c, d
  <2> QED
    BY JoinThree
<1> QED
  BY <1>3, <1>4, <1>5, <1>6 DEF parts

-----------------------------------------------------------------------------
(* The connects that the rules share. *)
LEMMA JoinMade ==
    ASSUME NEW n, NEW W, NEW u \in W, NEW v \in W, NEW x
    PROVE  Join(u, v) \in OneOver(n, W) /\ Made(Join(u, v), x) = Is(u, x) + Is(v, x)
<1>1. WirePort(v) \in PortsOver(n, W)
  BY PortsMade
<1>2. Weight(WirePort(v), x) = Is(v, x)
  BY PortWeights
<1> QED
  BY <1>1, <1>2, ConnectMade DEF Join

LEMMA AnnihilateMade ==
    ASSUME NEW n, NEW W, NEW u \in W, NEW x
    PROVE  Annihilate(u) \in OneOver(n, W) /\ Made(Annihilate(u), x) = Is(u, x)
<1>1. Erasure \in PortsOver(n, W)
  BY PortsMade
<1>2. Weight(Erasure, x) = 0
  BY DEF Erasure, Port, Weight, Arity
<1> QED
  BY <1>1, <1>2, ConnectMade DEF Annihilate, Is

LEMMA TuplateMade ==
    ASSUME NEW n, NEW W, NEW u \in W, NEW v \in W, NEW w \in W, NEW x
    PROVE  /\ Tuplate(u, v, w) \in OneOver(n, W)
           /\ Made(Tuplate(u, v, w), x) = Is(u, x) + Is(v, x) + Is(w, x)
<1>1. CombPort("x", v, w) \in PortsOver(n, W)
  <2>1. "x" \in STRING
    BY NamesAssumption
  <2> QED
    BY <2>1, PortsMade
<1>2. Weight(CombPort("x", v, w), x) = Is(v, x) + Is(w, x)
  BY DEF CombPort, Port, Weight, Arity
<1> QED
  BY <1>1, <1>2, ConnectMade DEF Tuplate, Is

LEMMA CountChain ==
    ASSUME NEW n, NEW W, NEW w \in W, NEW p \in W, NEW q \in W, NEW m,
           New(m, 1) \in W, New(m, 2) \in W, NEW t, NEW x
    PROVE  /\ Chain(w, <<p, q>>, m) \in ConnectsOver(n, W)
           /\ Count(EndsIn(t, Chain(w, <<p, q>>, m)), x)
                = Is(w, x) + Is(p, x) + Is(q, x) + 2 * Is(New(m, 1), x) + 2 * Is(New(m, 2), x)
<1> DEFINE a == Tuplate(w, p, New(m, 1))
           b == Tuplate(New(m, 1), q, New(m, 2))
           c == Annihilate(New(m, 2))
<1>1. /\ a \in OneOver(n, W)
      /\ b \in OneOver(n, W)
      /\ c \in OneOver(n, W)
      /\ Made(a, x) = Is(w, x) + Is(p, x) + Is(New(m, 1), x)
      /\ Made(b, x) = Is(New(m, 1), x) + Is(q, x) + Is(New(m, 2), x)
      /\ Made(c, x) = Is(New(m, 2), x)
  <2>1. PICK f \in W, g \in W : f = New(m, 1) /\ g = New(m, 2)
    OBVIOUS
  <2>2. /\ Tuplate(w, p, f) \in OneOver(n, W)
        /\ Made(Tuplate(w, p, f), x) = Is(w, x) + Is(p, x) + Is(f, x)
    BY JoinMade, AnnihilateMade, TuplateMade
  <2>3. /\ Tuplate(f, q, g) \in OneOver(n, W)
        /\ Made(Tuplate(f, q, g), x) = Is(f, x) + Is(q, x) + Is(g, x)
    BY JoinMade, AnnihilateMade, TuplateMade
  <2>4. /\ Annihilate(g) \in OneOver(n, W)
        /\ Made(Annihilate(g), x) = Is(g, x)
    BY JoinMade, AnnihilateMade, TuplateMade
  <2> QED
    BY <2>1, <2>2, <2>3, <2>4
<1>2. Chain(w, <<p, q>>, m) = <<a, b, c>>
  BY ChainOfTwo
<1> HIDE DEF a, b, c
<1>3. /\ <<a, b, c>> \in ConnectsOver(n, W)
      /\ Count(EndsIn(t, <<a, b, c>>), x) = Made(a, x) + Made(b, x) + Made(c, x)
  BY <1>1, CountThree
<1>4. /\ Chain(w, <<p, q>>, m) \in ConnectsOver(n, W)
      /\ Count(EndsIn(t, Chain(w, <<p, q>>, m)), x) = Made(a, x) + Made(b, x) + Made(c, x)
  BY <1>2, <1>3, Zenon
<1> QED
  BY <1>1, <1>4 DEF Is

LEMMA CountAnnihilations ==
    ASSUME NEW n, NEW W, NEW p \in PortsOver(n, W), NEW t, NEW x
    PROVE  /\ Annihilations(p) \in ConnectsOver(n, W)
           /\ Count(EndsIn(t, Annihilations(p)), x) = Weight(p, x)
<1>1. /\ p.wires \in Seq(W)
      /\ Len(p.wires) \in {0, 1, 2}
      /\ Len(p.wires) >= 1 => p.wires[1] \in W
      /\ Len(p.wires) = 2 => p.wires[2] \in W
  BY PortTyped
<1> DEFINE a == Annihilate(p.wires[1])
           b == Annihilate(p.wires[2])
<1>2. CASE Len(p.wires) = 0
  <2>1. Annihilations(p) = <<>>
    BY <1>1, <1>2 DEF Annihilations
  <2> QED
    BY <1>2, <2>1, CountEmpty DEF Weight
<1>3. CASE Len(p.wires) = 1
  <2>1. Annihilations(p) = <<a>>
    <3>1. DOMAIN p.wires = {1}
      BY <1>1, <1>3
    <3> QED
      BY <3>1 DEF Annihilations
  <2>2. a \in OneOver(n, W) /\ Made(a, x) = Is(p.wires[1], x)
    <3>1. p.wires[1] \in W
      BY <1>1, <1>3
    <3> QED
      BY <3>1, JoinMade, AnnihilateMade, TuplateMade
  <2> HIDE DEF a
  <2>3. <<a>> \in ConnectsOver(n, W) /\ Count(EndsIn(t, <<a>>), x) = Made(a, x)
    BY <2>2, CountSingle
  <2> QED
    BY <1>3, <2>1, <2>2, <2>3 DEF Weight
<1>4. CASE Len(p.wires) = 2
  <2>1. Annihilations(p) = <<a, b>>
    <3>1. DOMAIN p.wires = {1, 2}
      BY <1>1, <1>4
    <3> QED
      BY <3>1 DEF Annihilations
  <2>2. /\ a \in OneOver(n, W) /\ Made(a, x) = Is(p.wires[1], x)
        /\ b \in OneOver(n, W) /\ Made(b, x) = Is(p.wires[2], x)
    <3>1. p.wires[1] \in W /\ p.wires[2] \in W
      BY <1>1, <1>4
    <3> QED
      BY <3>1, JoinMade, AnnihilateMade, TuplateMade
  <2> HIDE DEF a, b
  <2>3. /\ <<a, b>> \in ConnectsOver(n, W)
        /\ Count(EndsIn(t, <<a, b>>), x) = Made(a, x) + Made(b, x)
    BY <2>2, CountTwo
  <2> QED
    BY <1>4, <2>1, <2>2, <2>3 DEF Weight
<1> QED
  BY <1>1, <1>2, <1>3, <1>4

-----------------------------------------------------------------------------
(* The rules that make no wires. *)
LEMMA PlainConserves ==
    ASSUME NEW n, NEW a \in Nat, NEW l \in PortsOver(n, 1..a), NEW r \in PortsOver(n, 1..a),
           NEW cs \in ConnectsOver(n, 1..a),
           \A t \in Threads, x \in Int : Count(EndsIn(t, cs), x) = Weight(l, x) + Weight(r, x)
    PROVE  Conserves(n, a, cs, l, r)
<1>1. cs \in ConnectsOver(n, (1..a) \cup OwnWires)
  <2>1. 1..a \subseteq (1..a) \cup OwnWires
    OBVIOUS
  <2> QED
    BY <2>1, Wider
<1>2. \A x \in OwnWires : x \in Int /\ x \notin 1..a
  BY DEF OwnWires
<1>3. \A x \in OwnWires : Weight(l, x) = 0 /\ Weight(r, x) = 0
  BY <1>2, PortTyped
<1>4. \A t \in Threads : \A x \in OwnWires : Count(EndsIn(t, cs), x) = 0
  BY <1>2, <1>3
<1> QED
  BY <1>1, <1>4 DEF Conserves

LEMMA WireConserves ==
    ASSUME NEW n, NEW a \in Nat, NEW l \in PortsOver(n, 1..a), NEW r \in PortsOver(n, 1..a),
           NEW p \in {l, r}, NEW q \in {l, r}, p = l => q = r, p = r => q = l, p.kind = "wire"
    PROVE  Conserves(n, a, <<To(p.wires[1], q)>>, l, r)
<1>1. p \in PortsOver(n, 1..a) /\ q \in PortsOver(n, 1..a)
  OBVIOUS
<1>2. Len(p.wires) = 1
  BY <1>1, PortSize DEF Arity
<1>3. p.wires[1] \in 1..a
  BY <1>1, <1>2, PortTyped
<1>4. \A x : Weight(p, x) = Is(p.wires[1], x)
  BY <1>2 DEF Weight
<1>5. \A x : Weight(p, x) + Weight(q, x) = Weight(l, x) + Weight(r, x)
  <2>1. \A x : Weight(l, x) \in Nat /\ Weight(r, x) \in Nat
    BY PortTyped
  <2> QED
    BY <2>1
<1> DEFINE c == To(p.wires[1], q)
<1>6. ASSUME NEW x PROVE c \in OneOver(n, 1..a) /\ Made(c, x) = Weight(p, x) + Weight(q, x)
  <2>1. PICK w \in 1..a : w = p.wires[1]
    BY <1>3
  <2>2. /\ To(w, q) \in OneOver(n, 1..a)
        /\ Made(To(w, q), x) = Is(w, x) + Weight(q, x)
    <3> DEFINE W == 1..a
    <3>1. w \in W /\ q \in PortsOver(n, W)
      BY <1>1
    <3> HIDE DEF W
    <3>2. To(w, q) \in OneOver(n, W) /\ Made(To(w, q), x) = Is(w, x) + Weight(q, x)
      BY <3>1, ConnectMade
    <3> QED
      BY <3>2 DEF W
  <2> QED
    BY <1>4, <2>1, <2>2
<1> HIDE DEF c
<1>7. \A t, x : <<c>> \in ConnectsOver(n, 1..a) /\ Count(EndsIn(t, <<c>>), x) = Made(c, x)
  BY <1>6, CountSingle
<1>8. Conserves(n, a, <<c>>, l, r)
  BY <1>5, <1>6, <1>7, PlainConserves
<1> QED
  BY <1>8 DEF c

LEMMA EraseConserves ==
    ASSUME NEW n, NEW a \in Nat, NEW l \in PortsOver(n, 1..a), NEW r \in PortsOver(n, 1..a)
    PROVE  Conserves(n, a, Erase(l, r), l, r)
<1>1. ASSUME NEW t, NEW x
      PROVE  /\ Annihilations(l) \o Annihilations(r) \in ConnectsOver(n, 1..a)
             /\ Count(EndsIn(t, Annihilations(l) \o Annihilations(r)), x)
                  = Weight(l, x) + Weight(r, x)
  <2>1. /\ Annihilations(l) \in ConnectsOver(n, 1..a)
        /\ Count(EndsIn(t, Annihilations(l)), x) = Weight(l, x)
        /\ Annihilations(r) \in ConnectsOver(n, 1..a)
        /\ Count(EndsIn(t, Annihilations(r)), x) = Weight(r, x)
    BY CountAnnihilations
  <2> QED
    BY <2>1, CountConcat
<1> QED
  BY <1>1, PlainConserves DEF Erase

LEMMA AnnihilateConserves ==
    ASSUME NEW n, NEW a \in Nat, NEW l \in PortsOver(n, 1..a), NEW r \in PortsOver(n, 1..a),
           l.kind = "comb", r.kind = "comb"
    PROVE  Conserves(n, a, AnnihilatePair(l, r), l, r)
<1>1. Len(l.wires) = 2 /\ Len(r.wires) = 2
  BY PortSize DEF Arity
<1>2. l.wires[1] \in 1..a /\ l.wires[2] \in 1..a /\ r.wires[1] \in 1..a /\ r.wires[2] \in 1..a
  <2>1. \A p \in PortsOver(n, 1..a) :
          Len(p.wires) = 2 => p.wires[1] \in 1..a /\ p.wires[2] \in 1..a
    BY PortTyped
  <2> QED
    BY <1>1, <2>1
<1> DEFINE c == Join(l.wires[1], r.wires[1])
           d == Join(l.wires[2], r.wires[2])
<1>3. \A x : /\ Weight(l, x) = Is(l.wires[1], x) + Is(l.wires[2], x)
             /\ Weight(r, x) = Is(r.wires[1], x) + Is(r.wires[2], x)
  BY <1>1 DEF Weight
<1>4. ASSUME NEW x
      PROVE  /\ c \in OneOver(n, 1..a) /\ Made(c, x) = Is(l.wires[1], x) + Is(r.wires[1], x)
             /\ d \in OneOver(n, 1..a) /\ Made(d, x) = Is(l.wires[2], x) + Is(r.wires[2], x)
  <2>1. \A u, v \in 1..a : Join(u, v) \in OneOver(n, 1..a) /\ Made(Join(u, v), x) = Is(u, x) + Is(v, x)
    BY JoinMade
  <2> QED
    BY <1>2, <2>1
<1>5. AnnihilatePair(l, r) = <<c, d>>
  BY DEF AnnihilatePair
<1> HIDE DEF c, d
<1>6. \A t, x : /\ <<c, d>> \in ConnectsOver(n, 1..a)
                /\ Count(EndsIn(t, <<c, d>>), x) = Made(c, x) + Made(d, x)
  BY <1>4, CountTwo
<1>7. \A x : Made(c, x) + Made(d, x) = Weight(l, x) + Weight(r, x)
  BY <1>3, <1>4 DEF Is
<1>8. Conserves(n, a, <<c, d>>, l, r)
  BY <1>6, <1>7, PlainConserves
<1> QED
  BY <1>5, <1>8

(* A port of two wires meets a value. *)
LEMMA BothGet ==
    ASSUME NEW n, NEW a \in Nat, NEW p \in PortsOver(n, 1..a), Len(p.wires) = 2,
           NEW u \in PortsOver(n, 1..a), NEW v \in PortsOver(n, 1..a),
           \A x : Weight(u, x) = 0 /\ Weight(v, x) = 0, NEW t, NEW x
    PROVE  /\ <<To(p.wires[1], u), To(p.wires[2], v)>> \in ConnectsOver(n, 1..a)
           /\ Count(EndsIn(t, <<To(p.wires[1], u), To(p.wires[2], v)>>), x) = Weight(p, x)
<1>1. p.wires[1] \in 1..a /\ p.wires[2] \in 1..a
  BY PortTyped
<1> DEFINE c == To(p.wires[1], u)
           d == To(p.wires[2], v)
<1>2. /\ c \in OneOver(n, 1..a) /\ Made(c, x) = Is(p.wires[1], x) + Weight(u, x)
      /\ d \in OneOver(n, 1..a) /\ Made(d, x) = Is(p.wires[2], x) + Weight(v, x)
  <2> DEFINE W == 1..a
  <2>1. \A w \in W, q \in PortsOver(n, W) :
          To(w, q) \in OneOver(n, W) /\ Made(To(w, q), x) = Is(w, x) + Weight(q, x)
    <3> HIDE DEF W
    <3> QED
      BY ConnectMade
  <2> QED
    BY <1>1, <2>1
<1> HIDE DEF c, d
<1>3. /\ <<c, d>> \in ConnectsOver(n, 1..a)
      /\ Count(EndsIn(t, <<c, d>>), x) = Made(c, x) + Made(d, x)
  BY <1>2, CountTwo
<1>4. Made(c, x) + Made(d, x) = Weight(p, x)
  <2>1. Weight(u, x) = 0 /\ Weight(v, x) = 0
    OBVIOUS
  <2>2. Weight(p, x) = Is(p.wires[1], x) + Is(p.wires[2], x)
    BY DEF Weight
  <2> QED
    BY <1>2, <2>1, <2>2 DEF Is
<1>5. /\ <<c, d>> \in ConnectsOver(n, 1..a)
      /\ Count(EndsIn(t, <<c, d>>), x) = Weight(p, x)
  BY <1>3, <1>4
<1> QED
  BY <1>5 DEF c, d

-----------------------------------------------------------------------------
(* The rules that make wires of their own, two ends of each. *)
LEMMA FreshConserves ==
    ASSUME NEW n, NEW a \in Nat, NEW l \in PortsOver(n, 1..a), NEW r \in PortsOver(n, 1..a),
           NEW cs \in ConnectsOver(n, (1..a) \cup OwnWires),
           NEW own \in [Int -> {0, 1}], \A x \in Nat : own[x] = 0,
           \A t \in Threads, x \in Int :
                Count(EndsIn(t, cs), x) = Weight(l, x) + Weight(r, x) + 2 * own[x]
    PROVE  Conserves(n, a, cs, l, r)
<1>1. \A x \in OwnWires : x \in Int /\ x \notin 1..a
  BY DEF OwnWires
<1>2. \A x \in OwnWires : Weight(l, x) = 0 /\ Weight(r, x) = 0
  BY <1>1, PortTyped
<1>3. \A x : Weight(l, x) \in Nat /\ Weight(r, x) \in Nat
  BY PortTyped
<1>4. ASSUME NEW t \in Threads, NEW x \in 1..a
      PROVE  Count(EndsIn(t, cs), x) = Weight(l, x) + Weight(r, x)
  <2>1. x \in Int /\ own[x] = 0
    OBVIOUS
  <2> QED
    BY <1>3, <2>1
<1>5. ASSUME NEW t \in Threads, NEW x \in OwnWires
      PROVE  Count(EndsIn(t, cs), x) \in {0, 2}
  <2>1. Count(EndsIn(t, cs), x) = 0 + 0 + 2 * own[x] /\ own[x] \in {0, 1}
    BY <1>1, <1>2
  <2> QED
    BY <2>1
<1> QED
  BY <1>4, <1>5 DEF Conserves

LEMMA FreshOwn ==
    /\ \A i \in 1..9 : fresh(i) = 0 - i
    /\ \A i \in 1..9 : fresh(i) \in OwnWires
    /\ \A k \in 0..9, i \in 1..9 : New(0 - k, i) = 0 - 10 * k - i
    /\ \A k \in 0..9, i \in 1..9 : New(0 - k, i) \in OwnWires
<1>1. \A i \in 1..9 : fresh(i) = 0 - i /\ i \in Nat
  BY DEF fresh, New
<1>2. \A k \in 0..9, i \in 1..9 : New(0 - k, i) = 0 - 10 * k - i
  BY DEF New
<1>3. \A k \in 0..9, i \in 1..9 : 0 - 10 * k - i \in Int /\ 0 - 10 * k - i < 0
  OBVIOUS
<1>4. \A i \in 1..9 : 0 - i \in Int /\ 0 - i < 0
  OBVIOUS
<1> QED
  BY <1>1, <1>2, <1>3, <1>4 DEF OwnWires

(* A copy of an agent, with other wires. *)
Redirected(p, u, v) == [p EXCEPT !.wires = <<u, v>>]

LEMMA CopyMade ==
    ASSUME NEW n, NEW V, NEW W, NEW p \in PortsOver(n, V), p.kind = "comb", NEW u \in W, NEW v \in W,
           NEW w \in W, NEW x
    PROVE  /\ To(w, Redirected(p, u, v)) \in OneOver(n, W)
           /\ Made(To(w, Redirected(p, u, v)), x) = Is(w, x) + (Is(u, x) + Is(v, x))
<1> DEFINE q == Redirected(p, u, v)
<1>1. /\ p.label \in STRING /\ p.value \in Seq(STRING) /\ p.swapped \in BOOLEAN
      /\ p = [kind |-> p.kind, label |-> p.label, value |-> p.value, swapped |-> p.swapped,
              wires |-> p.wires]
  BY DEF PortsOver
<1>2. q = [kind |-> "comb", label |-> p.label, value |-> p.value, swapped |-> p.swapped,
           wires |-> <<u, v>>]
  BY <1>1 DEF Redirected
<1>3. "comb" \in PortKinds /\ Arity("comb") = 2 /\ <<u, v>> \in Seq(W) /\ Len(<<u, v>>) = 2
  BY DEF PortKinds, Arity
<1>4. q \in PortsOver(n, W)
  <2> DEFINE kind == "comb"
             wires == <<u, v>>
  <2>1. kind \in PortKinds /\ wires \in Seq(W) /\ Len(wires) = Arity(kind)
    BY <1>3
  <2>2. kind = "graft" => p.label \in DOMAIN n.expansions /\ n.expansions[p.label].does # "catch"
    OBVIOUS
  <2> HIDE DEF kind, wires
  <2>3. [kind |-> kind, label |-> p.label, value |-> p.value, swapped |-> p.swapped,
         wires |-> wires] \in PortsOver(n, W)
    BY <1>1, <2>1, <2>2, PortIs
  <2> QED
    BY <1>2, <2>3 DEF kind, wires
<1>5. Weight(q, x) = Is(u, x) + Is(v, x)
  BY <1>2, <1>3 DEF Weight
<1> HIDE DEF q
<1>6. To(w, q) \in OneOver(n, W) /\ Made(To(w, q), x) = Is(w, x) + Weight(q, x)
  BY <1>4, ConnectMade
<1> QED
  BY <1>5, <1>6 DEF q

LEMMA CommuteConserves ==
    ASSUME NEW n, NEW a \in Nat, NEW l \in PortsOver(n, 1..a), NEW r \in PortsOver(n, 1..a),
           l.kind = "comb", r.kind = "comb"
    PROVE  Conserves(n, a, Commute(l, r), l, r)
<1> DEFINE W == (1..a) \cup OwnWires
           l1 == Redirected(l, fresh(1), fresh(2))
           l2 == Redirected(l, fresh(3), fresh(4))
           r1 == Redirected(r, fresh(5), fresh(6))
           r2 == Redirected(r, fresh(7), fresh(8))
           c1 == Join(fresh(1), fresh(6))
           c2 == Join(fresh(2), fresh(8))
           c3 == Join(fresh(3), fresh(5))
           c4 == Join(fresh(4), fresh(7))
           d1 == To(l.wires[1], r1)
           d2 == To(l.wires[2], r2)
           d3 == To(r.wires[1], l1)
           d4 == To(r.wires[2], l2)
           own == [x \in Int |-> IF x \in -8..-1 THEN 1 ELSE 0]
<1>1. Commute(l, r) = <<c1, c2, c3, c4>> \o <<d1, d2, d3, d4>>
  <2>1. l1.wires = <<fresh(1), fresh(2)>> /\ l2.wires = <<fresh(3), fresh(4)>>
    BY DEF PortsOver, Redirected
  <2>2. r1.wires = <<fresh(5), fresh(6)>> /\ r2.wires = <<fresh(7), fresh(8)>>
    BY DEF PortsOver, Redirected
  <2>3. Commute(l, r) = <<c1, c2, c3, c4, d1, d2, d3, d4>>
    BY <2>1, <2>2 DEF Commute, Redirected
  <2> HIDE DEF c1, c2, c3, c4, d1, d2, d3, d4
  <2>4. <<c1, c2, c3, c4, d1, d2, d3, d4>> = <<c1, c2, c3, c4>> \o <<d1, d2, d3, d4>>
    OBVIOUS
  <2> QED
    BY <2>3, <2>4
<1>2. /\ l.wires[1] \in W /\ l.wires[2] \in W
      /\ r.wires[1] \in W /\ r.wires[2] \in W
  <2>1. Len(l.wires) = 2 /\ Len(r.wires) = 2
    BY PortSize DEF Arity
  <2>2. l.wires[1] \in 1..a /\ l.wires[2] \in 1..a
    BY <2>1, PortTyped
  <2>3. r.wires[1] \in 1..a /\ r.wires[2] \in 1..a
    BY <2>1, PortTyped
  <2> QED
    BY <2>2, <2>3
<1>3. \A i \in 1..8 : fresh(i) \in W /\ fresh(i) = 0 - i
  <2> TAKE i \in 1..8
  <2>1. i \in 1..9
    OBVIOUS
  <2>2. fresh(i) \in OwnWires /\ fresh(i) = 0 - i
    BY <2>1, FreshOwn
  <2> QED
    BY <2>2
<1>4. \A x : /\ Weight(l, x) = Is(l.wires[1], x) + Is(l.wires[2], x)
             /\ Weight(r, x) = Is(r.wires[1], x) + Is(r.wires[2], x)
  <2>1. Len(l.wires) = 2 /\ Len(r.wires) = 2
    BY PortSize DEF Arity
  <2> QED
    BY <2>1 DEF Weight
<1> HIDE DEF W
<1>5. ASSUME NEW x
      PROVE  /\ c1 \in OneOver(n, W) /\ Made(c1, x) = Is(fresh(1), x) + Is(fresh(6), x)
             /\ c2 \in OneOver(n, W) /\ Made(c2, x) = Is(fresh(2), x) + Is(fresh(8), x)
             /\ c3 \in OneOver(n, W) /\ Made(c3, x) = Is(fresh(3), x) + Is(fresh(5), x)
             /\ c4 \in OneOver(n, W) /\ Made(c4, x) = Is(fresh(4), x) + Is(fresh(7), x)
  <2>1. \A u, v \in W : Join(u, v) \in OneOver(n, W) /\ Made(Join(u, v), x) = Is(u, x) + Is(v, x)
    BY JoinMade
  <2> QED
    BY <1>3, <2>1
<1>6. ASSUME NEW x
      PROVE  /\ d1 \in OneOver(n, W)
             /\ Made(d1, x) = Is(l.wires[1], x) + (Is(fresh(5), x) + Is(fresh(6), x))
             /\ d2 \in OneOver(n, W)
             /\ Made(d2, x) = Is(l.wires[2], x) + (Is(fresh(7), x) + Is(fresh(8), x))
             /\ d3 \in OneOver(n, W)
             /\ Made(d3, x) = Is(r.wires[1], x) + (Is(fresh(1), x) + Is(fresh(2), x))
             /\ d4 \in OneOver(n, W)
             /\ Made(d4, x) = Is(r.wires[2], x) + (Is(fresh(3), x) + Is(fresh(4), x))
  <2>1. ASSUME NEW p \in {l, r}, NEW u \in W, NEW v \in W, NEW w \in W
        PROVE  /\ To(w, Redirected(p, u, v)) \in OneOver(n, W)
               /\ Made(To(w, Redirected(p, u, v)), x) = Is(w, x) + (Is(u, x) + Is(v, x))
    <3> DEFINE V == 1..a
    <3>1. p.kind = "comb" /\ p \in PortsOver(n, V)
      OBVIOUS
    <3> HIDE DEF V
    <3> QED
      BY <3>1, CopyMade
  <2>2. fresh(1) \in W /\ fresh(2) \in W /\ fresh(3) \in W /\ fresh(4) \in W
    BY <1>3
  <2>3. fresh(5) \in W /\ fresh(6) \in W /\ fresh(7) \in W /\ fresh(8) \in W
    BY <1>3
  <2>4. d1 \in OneOver(n, W) /\ Made(d1, x) = Is(l.wires[1], x) + (Is(fresh(5), x) + Is(fresh(6), x))
    BY <1>2, <2>1, <2>3
  <2>5. d2 \in OneOver(n, W) /\ Made(d2, x) = Is(l.wires[2], x) + (Is(fresh(7), x) + Is(fresh(8), x))
    BY <1>2, <2>1, <2>3
  <2>6. d3 \in OneOver(n, W) /\ Made(d3, x) = Is(r.wires[1], x) + (Is(fresh(1), x) + Is(fresh(2), x))
    BY <1>2, <2>1, <2>2
  <2>7. d4 \in OneOver(n, W) /\ Made(d4, x) = Is(r.wires[2], x) + (Is(fresh(3), x) + Is(fresh(4), x))
    BY <1>2, <2>1, <2>2
  <2> QED
    BY <2>4, <2>5, <2>6, <2>7
<1> HIDE DEF c1, c2, c3, c4, d1, d2, d3, d4
<1>7. ASSUME NEW t, NEW x
      PROVE  /\ <<c1, c2, c3, c4>> \o <<d1, d2, d3, d4>> \in ConnectsOver(n, W)
             /\ Count(EndsIn(t, <<c1, c2, c3, c4>> \o <<d1, d2, d3, d4>>), x)
                  = (Made(c1, x) + Made(c2, x) + Made(c3, x) + Made(c4, x))
                      + (Made(d1, x) + Made(d2, x) + Made(d3, x) + Made(d4, x))
  <2> DEFINE cs == <<c1, c2, c3, c4>>
             ds == <<d1, d2, d3, d4>>
  <2>1. /\ cs \in ConnectsOver(n, W)
        /\ Count(EndsIn(t, cs), x) = Made(c1, x) + Made(c2, x) + Made(c3, x) + Made(c4, x)
    BY <1>5, CountFour
  <2>2. /\ ds \in ConnectsOver(n, W)
        /\ Count(EndsIn(t, ds), x) = Made(d1, x) + Made(d2, x) + Made(d3, x) + Made(d4, x)
    BY <1>6, CountFour
  <2> HIDE DEF cs, ds
  <2>3. /\ cs \o ds \in ConnectsOver(n, W)
        /\ Count(EndsIn(t, cs \o ds), x) = Count(EndsIn(t, cs), x) + Count(EndsIn(t, ds), x)
    BY <2>1, <2>2, CountConcat
  <2> QED
    BY <2>1, <2>2, <2>3 DEF cs, ds
<1>8. ASSUME NEW x \in Int
      PROVE  (Made(c1, x) + Made(c2, x) + Made(c3, x) + Made(c4, x))
               + (Made(d1, x) + Made(d2, x) + Made(d3, x) + Made(d4, x))
             = Weight(l, x) + Weight(r, x) + 2 * own[x]
  <2>1. own[x] = Is(fresh(1), x) + Is(fresh(2), x) + Is(fresh(3), x) + Is(fresh(4), x)
                  + Is(fresh(5), x) + Is(fresh(6), x) + Is(fresh(7), x) + Is(fresh(8), x)
    BY <1>3 DEF Is
  <2>2. \A w : Is(w, x) \in Nat
    BY DEF Is
  <2> HIDE DEF own
  <2>3. Made(c1, x) + Made(c2, x) + Made(c3, x) + Made(c4, x) = own[x]
    BY <1>5, <2>1 DEF Is
  <2>4. Made(d1, x) + Made(d2, x) + Made(d3, x) + Made(d4, x)
          = Is(l.wires[1], x) + Is(l.wires[2], x) + Is(r.wires[1], x) + Is(r.wires[2], x) + own[x]
    BY <1>6, <2>1 DEF Is
  <2>5. own[x] \in Nat
    BY DEF own
  <2> QED
    BY <1>4, <2>2, <2>3, <2>4, <2>5
<1>9. own \in [Int -> {0, 1}] /\ \A x \in Nat : own[x] = 0
  OBVIOUS
<1> DEFINE cs == <<c1, c2, c3, c4>> \o <<d1, d2, d3, d4>>
<1>10. cs \in ConnectsOver(n, W)
  BY <1>7
<1>11. \A t \in Threads, x \in Int :
          Count(EndsIn(t, cs), x) = Weight(l, x) + Weight(r, x) + 2 * own[x]
  BY <1>7, <1>8
<1> HIDE DEF cs, own
<1>12. Conserves(n, a, cs, l, r)
  BY <1>9, <1>10, <1>11, FreshConserves DEF W
<1> QED
  BY <1>1, <1>12 DEF cs

(* What the partner of a value had is connected again. *)
LEMMA PartnerConserves ==
    ASSUME NEW n, NEW a \in Nat, NEW l \in PortsOver(n, 1..a), NEW r \in PortsOver(n, 1..a),
           NEW p \in {l, r}, NEW q \in {l, r}, p = l => q = r, p = r => q = l,
           \A x : Weight(q, x) = 0,
           NEW cs \in ConnectsOver(n, 1..a), \A t, x : Count(EndsIn(t, cs), x) = Weight(p, x)
    PROVE  Conserves(n, a, cs, l, r)
<1>1. \A x : Weight(l, x) \in Nat /\ Weight(r, x) \in Nat
  BY PortTyped
<1>2. \A x : Weight(p, x) = Weight(l, x) + Weight(r, x)
  BY <1>1
<1>3. \A t \in Threads, x \in Int : Count(EndsIn(t, cs), x) = Weight(l, x) + Weight(r, x)
  BY <1>2
<1> QED
  BY <1>3, PlainConserves

LEMMA NoWires ==
    ASSUME NEW n, NEW W, NEW p \in PortsOver(n, W), p.kind \in {"value", "erasure"}
    PROVE  \A x : Weight(p, x) = 0
<1>1. Len(p.wires) = 0
  BY PortSize DEF Arity
<1> QED
  BY <1>1 DEF Weight

LEMMA CloneConserves ==
    ASSUME NEW n, NEW a \in Nat, NEW l \in PortsOver(n, 1..a), NEW r \in PortsOver(n, 1..a),
           NEW p \in {l, r}, NEW q \in {l, r}, p = l => q = r, p = r => q = l,
           p.kind = "comb", q.kind = "value"
    PROVE  Conserves(n, a, Clone(p, q), l, r)
<1>1. p \in PortsOver(n, 1..a) /\ q \in PortsOver(n, 1..a) /\ Len(p.wires) = 2
  <2>1. p \in PortsOver(n, 1..a) /\ q \in PortsOver(n, 1..a)
    OBVIOUS
  <2>2. Len(p.wires) = Arity(p.kind)
    BY <2>1, PortSize
  <2> QED
    BY <2>1, <2>2 DEF Arity
<1>2. \A x : Weight(q, x) = 0
  BY NoWires
<1> DEFINE cs == <<To(p.wires[1], q), To(p.wires[2], q)>>
<1>3. \A t, x : cs \in ConnectsOver(n, 1..a) /\ Count(EndsIn(t, cs), x) = Weight(p, x)
  BY <1>1, <1>2, BothGet
<1> HIDE DEF cs
<1>4. Conserves(n, a, cs, l, r)
  BY <1>2, <1>3, PartnerConserves
<1> QED
  BY <1>4 DEF cs, Clone

LEMMA FunctionsTyped ==
    ASSUME NEW x \in Seq(STRING), NEW y \in Seq(STRING), NEW fn \in STRING
    PROVE  /\ SplitFn(x)[1] \in Seq(STRING) /\ SplitFn(x)[2] \in Seq(STRING)
           /\ MergeFn(fn, x, y) \in Seq(STRING)
<1> DEFINE S == STRING
<1>1. "l" \in S /\ "r" \in S /\ "True" \in S /\ "False" \in S /\ fn \in S
  BY NamesAssumption
<1>2. x \in Seq(S) /\ y \in Seq(S)
  OBVIOUS
<1> HIDE DEF S
<1>3. \A u \in S, z \in Seq(S) : <<u>> \o z \in Seq(S) /\ <<u>> \in Seq(S)
  OBVIOUS
<1>4. (<<fn>> \o x) \o y \in Seq(S)
  BY <1>1, <1>2, <1>3
<1>5. <<"l">> \o x \in Seq(S) /\ <<"r">> \o x \in Seq(S)
  BY <1>1, <1>2, <1>3
<1>6. SplitFn(x)[1] = <<"l">> \o x /\ SplitFn(x)[2] = <<"r">> \o x
  BY DEF SplitFn
<1>7. <<"True">> \in Seq(S) /\ <<"False">> \in Seq(S) /\ <<fn>> \o x \in Seq(S)
  BY <1>1, <1>2, <1>3
<1>8. MergeFn(fn, x, y) \in {<<"True">>, <<"False">>, <<fn>> \o x, (<<fn>> \o x) \o y}
  BY DEF MergeFn
<1>9. MergeFn(fn, x, y) \in Seq(S)
  BY <1>4, <1>7, <1>8
<1> QED
  BY <1>5, <1>6, <1>9 DEF S

LEMMA SplitConserves ==
    ASSUME NEW n, NEW a \in Nat, NEW l \in PortsOver(n, 1..a), NEW r \in PortsOver(n, 1..a),
           NEW p \in {l, r}, NEW q \in {l, r}, p = l => q = r, p = r => q = l,
           p.kind = "split", q.kind = "value"
    PROVE  Conserves(n, a, Split(p, q), l, r)
<1>1. p \in PortsOver(n, 1..a) /\ q \in PortsOver(n, 1..a) /\ Len(p.wires) = 2
  <2>1. p \in PortsOver(n, 1..a) /\ q \in PortsOver(n, 1..a)
    OBVIOUS
  <2>2. Len(p.wires) = Arity(p.kind)
    BY <2>1, PortSize
  <2> QED
    BY <2>1, <2>2 DEF Arity
<1>2. \A x : Weight(q, x) = 0
  BY NoWires
<1>3. CASE q.value \in Raising
  <2> DEFINE cs == Annihilations(p)
  <2>1. \A t, x : cs \in ConnectsOver(n, 1..a) /\ Count(EndsIn(t, cs), x) = Weight(p, x)
    BY <1>1, CountAnnihilations
  <2> HIDE DEF cs
  <2>2. Conserves(n, a, cs, l, r)
    BY <1>2, <2>1, PartnerConserves
  <2> QED
    BY <1>3, <2>2 DEF cs, Split
<1>4. CASE q.value \notin Raising
  <2> DEFINE u == ValuePort(SplitFn(q.value)[1])
             v == ValuePort(SplitFn(q.value)[2])
             cs == <<To(p.wires[1], u), To(p.wires[2], v)>>
  <2>1. q.value \in Seq(STRING)
    BY <1>1, PortTyped
  <2>2. SplitFn(q.value)[1] \in Seq(STRING) /\ SplitFn(q.value)[2] \in Seq(STRING)
    <3>1. "" \in STRING
      BY NamesAssumption
    <3> QED
      BY <2>1, <3>1, FunctionsTyped
  <2>3. u \in PortsOver(n, 1..a) /\ v \in PortsOver(n, 1..a)
    <3> DEFINE W == 1..a
    <3>1. PICK w \in W : TRUE
      <4>1. p.wires[1] \in W
        BY <1>1, PortTyped
      <4> QED
        BY <4>1
    <3> HIDE DEF W
    <3>2. \A s \in Seq(STRING) : ValuePort(s) \in PortsOver(n, W)
      BY <3>1, PortsMade
    <3> QED
      BY <2>2, <3>2 DEF W
  <2>4. \A x : Weight(u, x) = 0 /\ Weight(v, x) = 0
    BY DEF Weight, ValuePort, Port
  <2>5. Split(p, q) = cs
    BY <1>4 DEF Split
  <2> HIDE DEF u, v
  <2>6. \A t, x : cs \in ConnectsOver(n, 1..a) /\ Count(EndsIn(t, cs), x) = Weight(p, x)
    BY <1>1, <2>3, <2>4, BothGet
  <2> HIDE DEF cs
  <2>7. Conserves(n, a, cs, l, r)
    BY <1>2, <2>6, PartnerConserves
  <2> QED
    BY <2>5, <2>7
<1> QED
  BY <1>3, <1>4

LEMMA MergeConserves ==
    ASSUME NEW n, NEW a \in Nat, NEW l \in PortsOver(n, 1..a), NEW r \in PortsOver(n, 1..a),
           NEW p \in {l, r}, NEW q \in {l, r}, p = l => q = r, p = r => q = l,
           p.kind = "merge", q.kind = "value",
           a <= MaxWires, NEW k, target \in [Wires -> PortsOver(k, 1..a) \cup {NoPort}]
    PROVE  Conserves(n, a, Merge(p, q), l, r)
<1>1. p \in PortsOver(n, 1..a) /\ q \in PortsOver(n, 1..a) /\ Len(p.wires) = 2
  <2>1. p \in PortsOver(n, 1..a) /\ q \in PortsOver(n, 1..a)
    OBVIOUS
  <2>2. Len(p.wires) = Arity(p.kind)
    BY <2>1, PortSize
  <2> QED
    BY <2>1, <2>2 DEF Arity
<1>2. \A x : Weight(q, x) = 0
  BY NoWires
<1>3. p.wires[1] \in 1..a /\ p.wires[2] \in 1..a
  BY <1>1, PortTyped
<1>4. /\ p.label \in STRING /\ q.value \in Seq(STRING) /\ p.swapped \in BOOLEAN
      /\ \A o \in PortsOver(k, 1..a) : o.value \in Seq(STRING)
  BY <1>1, PortTyped
<1>5. CASE OperandReady(p)
  <2> DEFINE v == Merged(p, q)
             cs == <<To(p.wires[1], Erasure), To(p.wires[2], v)>>
  <2>1. Operand(p).value \in Seq(STRING)
    <3>1. p.wires[1] \in Wires
      BY <1>3, NetAssumption DEF Wires
    <3>2. Operand(p) \in PortsOver(k, 1..a)
      BY <1>5, <3>1 DEF Operand, OperandReady
    <3> QED
      BY <1>4, <3>2
  <2>2. \A x, y \in Seq(STRING) : MergeFn(p.label, x, y) \in Seq(STRING)
    BY <1>4, FunctionsTyped
  <2>3. v = Erasure \/ \E s \in Seq(STRING) : v = ValuePort(s)
    BY <1>4, <2>1, <2>2 DEF Merged
  <2>4. v \in PortsOver(n, 1..a) /\ Erasure \in PortsOver(n, 1..a)
    <3> DEFINE W == 1..a
    <3>1. PICK w \in W : TRUE
      BY <1>3
    <3> HIDE DEF W
    <3>2. Erasure \in PortsOver(n, W) /\ \A s \in Seq(STRING) : ValuePort(s) \in PortsOver(n, W)
      BY <3>1, PortsMade
    <3> HIDE DEF v
    <3> QED
      BY <2>3, <3>2 DEF W
  <2>5. \A x : Weight(v, x) = 0 /\ Weight(Erasure, x) = 0
    <3> HIDE DEF v
    <3>1. Erasure.kind = "erasure" /\ \A s : ValuePort(s).kind = "value"
      BY DEF Erasure, ValuePort, Port
    <3>2. v.kind \in {"value", "erasure"}
      BY <2>3, <3>1
    <3> QED
      BY <2>4, <3>1, <3>2, NoWires
  <2>6. Merge(p, q) = cs
    BY <1>5 DEF Merge
  <2> HIDE DEF v
  <2>7. \A t, x : cs \in ConnectsOver(n, 1..a) /\ Count(EndsIn(t, cs), x) = Weight(p, x)
    BY <1>1, <2>4, <2>5, BothGet
  <2> HIDE DEF cs
  <2>8. Conserves(n, a, cs, l, r)
    BY <1>2, <2>7, PartnerConserves
  <2> QED
    BY <2>6, <2>8
<1>6. CASE ~OperandReady(p)
  <2> DEFINE W == (1..a) \cup OwnWires
             f == fresh(1)
             m == MergePort(p.label, ~p.swapped, f, p.wires[2])
             c == To(f, q)
             d == To(p.wires[1], m)
             own == [x \in Int |-> IF x = -1 THEN 1 ELSE 0]
  <2>1. Merge(p, q) = <<c, d>>
    BY <1>6 DEF Merge
  <2>2. f = -1 /\ f \in W /\ p.wires[1] \in W /\ p.wires[2] \in W
    BY <1>3 DEF OwnWires, fresh, New
  <2>3. q \in PortsOver(n, W)
    <3>1. 1..a \subseteq W
      OBVIOUS
    <3> HIDE DEF W
    <3> QED
      BY <1>1, <3>1, Wider
  <2> HIDE DEF W, f
  <2>4. m \in PortsOver(n, W)
    <3>1. (~p.swapped) \in BOOLEAN
      OBVIOUS
    <3>2. \A fn \in STRING, swapped \in BOOLEAN :
            MergePort(fn, swapped, f, p.wires[2]) \in PortsOver(n, W)
      BY <2>2, PortsMade
    <3> QED
      BY <1>4, <3>1, <3>2
  <2>5. \A x : Weight(m, x) = Is(f, x) + Is(p.wires[2], x)
    BY DEF MergePort, Port, Weight
  <2> HIDE DEF m
  <2>6. ASSUME NEW x
        PROVE  /\ c \in OneOver(n, W) /\ Made(c, x) = Is(f, x) + 0
               /\ d \in OneOver(n, W) /\ Made(d, x) = Is(p.wires[1], x) + (Is(f, x) + Is(p.wires[2], x))
    <3>1. c \in OneOver(n, W) /\ Made(c, x) = Is(f, x) + Weight(q, x)
      BY <2>2, <2>3, ConnectMade
    <3>2. d \in OneOver(n, W) /\ Made(d, x) = Is(p.wires[1], x) + Weight(m, x)
      BY <2>2, <2>4, ConnectMade
    <3> QED
      BY <1>2, <2>5, <3>1, <3>2
  <2> HIDE DEF c, d
  <2> DEFINE cs == <<c, d>>
  <2>7. \A t, x : cs \in ConnectsOver(n, W) /\ Count(EndsIn(t, cs), x) = Made(c, x) + Made(d, x)
    BY <2>6, CountTwo
  <2>8. \A x : Weight(p, x) = Is(p.wires[1], x) + Is(p.wires[2], x)
    BY <1>1 DEF Weight
  <2>9. ASSUME NEW x \in Int
        PROVE  Made(c, x) + Made(d, x) = Weight(l, x) + Weight(r, x) + 2 * own[x]
    <3>1. own[x] = Is(f, x)
      BY <2>2 DEF Is
    <3>2. Weight(l, x) \in Nat /\ Weight(r, x) \in Nat
      BY PortTyped
    <3>3. Weight(l, x) + Weight(r, x) = Weight(p, x)
      BY <1>2, <3>2
    <3> HIDE DEF own
    <3> QED
      BY <2>6, <2>8, <3>1, <3>3 DEF Is
  <2>10. own \in [Int -> {0, 1}] /\ \A x \in Nat : own[x] = 0
    OBVIOUS
  <2> HIDE DEF cs, own
  <2>11. cs \in ConnectsOver(n, W)
    BY <2>7
  <2>12. \A t \in Threads, x \in Int :
           Count(EndsIn(t, cs), x) = Weight(l, x) + Weight(r, x) + 2 * own[x]
    BY <2>7, <2>9
  <2>13. Conserves(n, a, cs, l, r)
    BY <2>10, <2>11, <2>12, FreshConserves DEF W
  <2> QED
    BY <2>1, <2>13 DEF cs
<1> QED
  BY <1>5, <1>6

-----------------------------------------------------------------------------
(* The expansions of grafts. *)
LEMMA GraftConserves ==
    ASSUME NEW n, NEW a \in Nat, NEW l \in PortsOver(n, 1..a), NEW r \in PortsOver(n, 1..a),
           NEW p \in {l, r}, NEW q \in {l, r}, p = l => q = r, p = r => q = l, Len(p.wires) = 1,
           NEW cs \in ConnectsOver(n, (1..a) \cup OwnWires),
           NEW own \in [Int -> {0, 1}], \A x \in Nat : own[x] = 0,
           \A t \in Threads, x \in Int :
                Count(EndsIn(t, cs), x) = Is(p.wires[1], x) + Weight(q, x) + 2 * own[x]
    PROVE  Conserves(n, a, cs, l, r)
<1>1. \A x : Weight(l, x) \in Nat /\ Weight(r, x) \in Nat
  BY PortTyped
<1>2. \A x : Weight(p, x) = Is(p.wires[1], x)
  BY DEF Weight
<1>3. \A x : Weight(p, x) + Weight(q, x) = Weight(l, x) + Weight(r, x)
  BY <1>1
<1>4. \A t \in Threads, x \in Int :
        Count(EndsIn(t, cs), x) = Weight(l, x) + Weight(r, x) + 2 * own[x]
  BY <1>2, <1>3
<1> QED
  BY <1>4, FreshConserves

LEMMA GraftTyped ==
    ASSUME NEW n, NEW a \in Nat, NEW l \in PortsOver(n, 1..a), NEW r \in PortsOver(n, 1..a),
           NEW p \in {l, r}, NEW q \in {l, r}, Len(p.wires) = 1
    PROVE  /\ p.wires[1] \in (1..a) \cup OwnWires
           /\ p.wires[1] \in 1..a
           /\ p.wires \in Seq(1..a) /\ Len(p.wires) = 1
           /\ q \in PortsOver(n, (1..a) \cup OwnWires)
           /\ q \in PortsOver(n, 1..a)
           /\ \A x : Weight(q, x) \in Nat
<1>1. p \in PortsOver(n, 1..a) /\ q \in PortsOver(n, 1..a)
  OBVIOUS
<1>2. p.wires[1] \in 1..a /\ p.wires \in Seq(1..a) /\ Len(p.wires) = 1
  <2> DEFINE V == 1..a
  <2>1. p \in PortsOver(n, V) /\ Len(p.wires) >= 1
    BY <1>1
  <2> HIDE DEF V
  <2>2. p.wires[1] \in V /\ p.wires \in Seq(V)
    BY <2>1, PortTyped
  <2> QED
    BY <1>1, <2>2 DEF V
<1> DEFINE W == (1..a) \cup OwnWires
<1>3. 1..a \subseteq W
  OBVIOUS
<1> HIDE DEF W
<1>4. q \in PortsOver(n, W)
  BY <1>1, <1>3, Wider
<1>5. \A x : Weight(q, x) \in Nat
  BY <1>1, PortTyped
<1> QED
  BY <1>1, <1>2, <1>4, <1>5 DEF W

LEMMA OpenedMade ==
    ASSUME NEW n, NEW W, OwnWires \subseteq W, NEW wires, wires[1] \in W, NEW t, NEW x
    PROVE  /\ Opened(wires) \in ConnectsOver(n, W)
           /\ Count(EndsIn(t, Opened(wires)), x)
                = Is(wires[1], x) + Is(-1, x) + Is(-2, x) + 2 * Is(-31, x) + 2 * Is(-32, x)
           /\ Second = -1 /\ Result = -2 /\ Second \in W /\ Result \in W
<1>1. /\ Second = -1 /\ Result = -2 /\ New(0, 3) = -3
      /\ New(-3, 1) = -31 /\ New(-3, 2) = -32
  BY DEF Second, Result, New
<1>2. -1 \in W /\ -2 \in W /\ -31 \in W /\ -32 \in W
  BY DEF OwnWires
<1>3. PICK m \in Int, u \in W, v \in W : m = -3 /\ u = -1 /\ v = -2
  BY <1>2
<1>4. New(m, 1) = -31 /\ New(m, 2) = -32 /\ New(m, 1) \in W /\ New(m, 2) \in W
  BY <1>1, <1>2, <1>3
<1>5. PICK w \in W : w = wires[1]
  OBVIOUS
<1>6. /\ Chain(w, <<u, v>>, m) \in ConnectsOver(n, W)
      /\ Count(EndsIn(t, Chain(w, <<u, v>>, m)), x)
           = Is(w, x) + Is(u, x) + Is(v, x) + 2 * Is(New(m, 1), x) + 2 * Is(New(m, 2), x)
  BY <1>4, CountChain
<1>7. Opened(wires) = Chain(w, <<u, v>>, m)
  BY <1>1, <1>3, <1>5 DEF Opened
<1> QED
  BY <1>1, <1>2, <1>3, <1>4, <1>5, <1>6, <1>7

LEMMA OrConserves ==
    ASSUME NEW n, NEW a \in Nat, NEW l \in PortsOver(n, 1..a), NEW r \in PortsOver(n, 1..a),
           NEW p \in {l, r}, NEW q \in {l, r}, p = l => q = r, p = r => q = l, Len(p.wires) = 1
    PROVE  Conserves(n, a, SerialOrOf(q, p.wires), l, r)
<1> DEFINE W == (1..a) \cup OwnWires
           own == [x \in Int |-> IF x \in {-1, -2, -31, -32} THEN 1 ELSE 0]
           rest == IF q.kind = "erasure" THEN <<Join(Second, Result)>>
                   ELSE <<Annihilate(Second), To(Result, q)>>
           cs == Opened(p.wires) \o rest
<1>1. /\ p.wires[1] \in W /\ q \in PortsOver(n, W) /\ OwnWires \subseteq W
      /\ \A x : Weight(q, x) \in Nat
  BY GraftTyped
<1> HIDE DEF W
<1>2. \A t, x : /\ Opened(p.wires) \in ConnectsOver(n, W)
                /\ Count(EndsIn(t, Opened(p.wires)), x)
                     = Is(p.wires[1], x) + Is(-1, x) + Is(-2, x) + 2 * Is(-31, x) + 2 * Is(-32, x)
                /\ Second = -1 /\ Result = -2 /\ Second \in W /\ Result \in W
  BY <1>1, OpenedMade
<1>3. \A t, x : /\ rest \in ConnectsOver(n, W)
                /\ Count(EndsIn(t, rest), x) = Is(Second, x) + Is(Result, x) + Weight(q, x)
  <2> TAKE t, x
  <2>1. CASE q.kind = "erasure"
    <3> DEFINE c == Join(Second, Result)
    <3>1. c \in OneOver(n, W) /\ Made(c, x) = Is(Second, x) + Is(Result, x)
      <4>1. PICK u \in W, v \in W : u = Second /\ v = Result
        BY <1>2
      <4>2. Join(u, v) \in OneOver(n, W) /\ Made(Join(u, v), x) = Is(u, x) + Is(v, x)
        BY JoinMade
      <4> QED
        BY <4>1, <4>2
    <3>2. Weight(q, x) = 0
      BY <2>1, NoWires
    <3>3. rest = <<c>>
      BY <2>1
    <3> HIDE DEF c, rest
    <3>4. <<c>> \in ConnectsOver(n, W) /\ Count(EndsIn(t, <<c>>), x) = Made(c, x)
      BY <3>1, CountSingle
    <3> QED
      BY <3>1, <3>2, <3>3, <3>4 DEF Is
  <2>2. CASE q.kind # "erasure"
    <3> DEFINE c == Annihilate(Second)
               d == To(Result, q)
    <3>1. c \in OneOver(n, W) /\ Made(c, x) = Is(Second, x)
      BY <1>2, AnnihilateMade
    <3>2. d \in OneOver(n, W) /\ Made(d, x) = Is(Result, x) + Weight(q, x)
      BY <1>1, <1>2, ConnectMade
    <3>3. rest = <<c, d>>
      BY <2>2
    <3> HIDE DEF c, d, rest
    <3>4. /\ <<c, d>> \in ConnectsOver(n, W)
          /\ Count(EndsIn(t, <<c, d>>), x) = Made(c, x) + Made(d, x)
      BY <3>1, <3>2, CountTwo
    <3> QED
      BY <1>1, <3>1, <3>2, <3>3, <3>4 DEF Is
  <2> QED
    BY <2>1, <2>2
<1> HIDE DEF rest
<1>4. \A t, x : /\ cs \in ConnectsOver(n, W)
                /\ Count(EndsIn(t, cs), x) = Count(EndsIn(t, Opened(p.wires)), x) + Count(EndsIn(t, rest), x)
  BY <1>2, <1>3, CountConcat
<1> HIDE DEF cs
<1>5. \A t \in Threads, x \in Int :
        Count(EndsIn(t, cs), x) = Is(p.wires[1], x) + Weight(q, x) + 2 * own[x]
  <2> TAKE t \in Threads, x \in Int
  <2>1. own[x] = Is(-1, x) + Is(-2, x) + Is(-31, x) + Is(-32, x)
    BY DEF Is
  <2> HIDE DEF own
  <2>2. Count(EndsIn(t, Opened(p.wires)), x)
          = Is(p.wires[1], x) + Is(-1, x) + Is(-2, x) + 2 * Is(-31, x) + 2 * Is(-32, x)
    BY <1>2
  <2>3. Count(EndsIn(t, rest), x) = Is(-1, x) + Is(-2, x) + Weight(q, x)
    BY <1>2, <1>3
  <2>4. Count(EndsIn(t, cs), x) = Count(EndsIn(t, Opened(p.wires)), x) + Count(EndsIn(t, rest), x)
    BY <1>4
  <2>5. Weight(q, x) \in Nat
    BY <1>1
  <2> QED
    BY <2>1, <2>2, <2>3, <2>4, <2>5 DEF Is
<1>6. own \in [Int -> {0, 1}] /\ \A x \in Nat : own[x] = 0
  OBVIOUS
<1> HIDE DEF own
<1>7. Conserves(n, a, cs, l, r)
  BY <1>4, <1>5, <1>6, GraftConserves DEF W
<1> QED
  BY <1>7 DEF cs, rest, SerialOrOf

LEMMA ErasedConserves ==
    ASSUME NEW n, NEW a \in Nat, NEW l \in PortsOver(n, 1..a), NEW r \in PortsOver(n, 1..a),
           NEW p \in {l, r}, NEW q \in {l, r}, p = l => q = r, p = r => q = l, Len(p.wires) = 1
    PROVE  Conserves(n, a, <<Annihilate(p.wires[1])>> \o Annihilations(q), l, r)
<1> DEFINE W == (1..a) \cup OwnWires
           own == [x \in Int |-> 0]
           c == Annihilate(p.wires[1])
           cs == <<c>> \o Annihilations(q)
<1>1. /\ p.wires[1] \in W /\ q \in PortsOver(n, W)
      /\ \A x : Weight(q, x) \in Nat
  BY GraftTyped
<1> HIDE DEF W
<1>2. \A x : c \in OneOver(n, W) /\ Made(c, x) = Is(p.wires[1], x)
  BY <1>1, AnnihilateMade
<1> HIDE DEF c
<1>3. \A t, x : /\ <<c>> \in ConnectsOver(n, W) /\ Count(EndsIn(t, <<c>>), x) = Made(c, x)
                /\ Annihilations(q) \in ConnectsOver(n, W)
                /\ Count(EndsIn(t, Annihilations(q)), x) = Weight(q, x)
  BY <1>1, <1>2, CountSingle, CountAnnihilations
<1>4. \A t, x : /\ cs \in ConnectsOver(n, W)
                /\ Count(EndsIn(t, cs), x) = Count(EndsIn(t, <<c>>), x) + Count(EndsIn(t, Annihilations(q)), x)
  BY <1>3, CountConcat
<1> HIDE DEF cs
<1>5. \A t \in Threads, x \in Int :
        Count(EndsIn(t, cs), x) = Is(p.wires[1], x) + Weight(q, x) + 2 * own[x]
  <2> TAKE t \in Threads, x \in Int
  <2>1. Count(EndsIn(t, cs), x) = Is(p.wires[1], x) + Weight(q, x)
    BY <1>2, <1>3, <1>4
  <2>2. Weight(q, x) \in Nat /\ own[x] = 0
    BY <1>1
  <2> QED
    BY <2>1, <2>2 DEF Is
<1>6. own \in [Int -> {0, 1}] /\ \A x \in Nat : own[x] = 0
  OBVIOUS
<1> HIDE DEF own
<1>7. Conserves(n, a, cs, l, r)
  BY <1>4, <1>5, <1>6, GraftConserves DEF W
<1> QED
  BY <1>7 DEF cs, c

LEMMA OnlyErased ==
    ASSUME NEW n, NEW a \in Nat, NEW l \in PortsOver(n, 1..a), NEW r \in PortsOver(n, 1..a),
           NEW p \in {l, r}, NEW q \in {l, r}, p = l => q = r, p = r => q = l, Len(p.wires) = 1,
           q.kind = "erasure"
    PROVE  Conserves(n, a, <<Annihilate(p.wires[1])>>, l, r)
<1>1. Annihilations(q) = <<>>
  <2>1. q.kind = "erasure" /\ q \in PortsOver(n, 1..a)
    OBVIOUS
  <2>2. q.wires \in Seq(1..a) /\ Len(q.wires) = 0
    BY <2>1, PortSize DEF PortsOver, Arity
  <2> QED
    BY <2>2 DEF Annihilations
<1>2. <<Annihilate(p.wires[1])>> \o <<>> = <<Annihilate(p.wires[1])>>
  OBVIOUS
<1> QED
  BY <1>1, <1>2, ErasedConserves

LEMMA AndChain ==
    ASSUME NEW n, NEW W, OwnWires \subseteq W, NEW t, NEW x
    PROVE  LET chain == Chain(Result, <<New(0, 4), Second>>, New(0, 5))
           IN  /\ chain \in ConnectsOver(n, W)
               /\ Count(EndsIn(t, chain), x)
                    = Is(-2, x) + Is(-4, x) + Is(-1, x) + 2 * Is(-51, x) + 2 * Is(-52, x)
<1> DEFINE chain == Chain(Result, <<New(0, 4), Second>>, New(0, 5))
<1>1. /\ New(0, 4) = -4 /\ New(0, 5) = -5 /\ New(-5, 1) = -51 /\ New(-5, 2) = -52
      /\ Second = -1 /\ Result = -2
  BY DEF New, Second, Result
<1>2. -1 \in W /\ -2 \in W /\ -4 \in W /\ -51 \in W /\ -52 \in W
  BY DEF OwnWires
<1>3. PICK m \in Int, u \in W, v \in W, w \in W : m = -5 /\ u = -4 /\ v = Second /\ w = Result
  BY <1>1, <1>2
<1>4. New(m, 1) = -51 /\ New(m, 2) = -52 /\ New(m, 1) \in W /\ New(m, 2) \in W
  BY <1>1, <1>2, <1>3
<1>5. chain = Chain(w, <<u, v>>, m)
  BY <1>1, <1>3
<1> HIDE DEF chain
<1>6. /\ Chain(w, <<u, v>>, m) \in ConnectsOver(n, W)
      /\ Count(EndsIn(t, Chain(w, <<u, v>>, m)), x)
           = Is(w, x) + Is(u, x) + Is(v, x) + 2 * Is(New(m, 1), x) + 2 * Is(New(m, 2), x)
  BY <1>4, CountChain
<1> QED
  BY <1>1, <1>3, <1>4, <1>5, <1>6 DEF chain

LEMMA AndConserves ==
    ASSUME NEW n, NEW a \in Nat, NEW l \in PortsOver(n, 1..a), NEW r \in PortsOver(n, 1..a),
           NEW p \in {l, r}, NEW q \in {l, r}, p = l => q = r, p = r => q = l, Len(p.wires) = 1,
           q.kind # "erasure"
    PROVE  Conserves(n, a, SerialAndOf(q, p.wires), l, r)
<1> DEFINE W == (1..a) \cup OwnWires
           own == [x \in Int |-> IF x \in {-1, -2, -4, -31, -32, -51, -52} THEN 1 ELSE 0]
           chain == Chain(Result, <<New(0, 4), Second>>, New(0, 5))
           c == To(New(0, 4), q)
           cs == (Opened(p.wires) \o chain) \o <<c>>
<1>1. /\ p.wires[1] \in W /\ q \in PortsOver(n, W) /\ OwnWires \subseteq W
      /\ \A x : Weight(q, x) \in Nat
  BY GraftTyped
<1>2. New(0, 4) = -4 /\ New(0, 5) = -5 /\ New(-5, 1) = -51 /\ New(-5, 2) = -52
  BY DEF New
<1>3. -4 \in W /\ -51 \in W /\ -52 \in W
  BY DEF OwnWires
<1> HIDE DEF W
<1>4. \A t, x : /\ Opened(p.wires) \in ConnectsOver(n, W)
                /\ Count(EndsIn(t, Opened(p.wires)), x)
                     = Is(p.wires[1], x) + Is(-1, x) + Is(-2, x) + 2 * Is(-31, x) + 2 * Is(-32, x)
                /\ Second = -1 /\ Result = -2 /\ Second \in W /\ Result \in W
  BY <1>1, OpenedMade
<1>5. ASSUME NEW t, NEW x
      PROVE  /\ chain \in ConnectsOver(n, W)
             /\ Count(EndsIn(t, chain), x)
                  = Is(-2, x) + Is(-4, x) + Is(-1, x) + 2 * Is(-51, x) + 2 * Is(-52, x)
  BY <1>1, AndChain
<1>6. \A x : c \in OneOver(n, W) /\ Made(c, x) = Is(-4, x) + Weight(q, x)
  <2> TAKE x
  <2>1. PICK w \in W : w = -4
    BY <1>3
  <2>2. To(w, q) \in OneOver(n, W) /\ Made(To(w, q), x) = Is(w, x) + Weight(q, x)
    BY <1>1, ConnectMade
  <2> QED
    BY <1>2, <2>1, <2>2
<1> HIDE DEF chain, c
<1>7. ASSUME NEW t, NEW x
      PROVE  /\ cs \in ConnectsOver(n, W)
             /\ Count(EndsIn(t, cs), x) = Count(EndsIn(t, Opened(p.wires)), x)
                                            + Count(EndsIn(t, chain), x) + Made(c, x)
  <2> DEFINE ds == Opened(p.wires) \o chain
  <2>1. /\ ds \in ConnectsOver(n, W)
        /\ Count(EndsIn(t, ds), x) = Count(EndsIn(t, Opened(p.wires)), x) + Count(EndsIn(t, chain), x)
    BY <1>4, <1>5, CountConcat
  <2>2. <<c>> \in ConnectsOver(n, W) /\ Count(EndsIn(t, <<c>>), x) = Made(c, x)
    BY <1>6, CountSingle
  <2> HIDE DEF ds
  <2>3. /\ ds \o <<c>> \in ConnectsOver(n, W)
        /\ Count(EndsIn(t, ds \o <<c>>), x) = Count(EndsIn(t, ds), x) + Count(EndsIn(t, <<c>>), x)
    BY <2>1, <2>2, CountConcat
  <2> QED
    BY <2>1, <2>2, <2>3 DEF ds
<1> HIDE DEF cs
<1>8. \A t \in Threads, x \in Int :
        Count(EndsIn(t, cs), x) = Is(p.wires[1], x) + Weight(q, x) + 2 * own[x]
  <2> TAKE t \in Threads, x \in Int
  <2>1. own[x] = Is(-1, x) + Is(-2, x) + Is(-4, x) + Is(-31, x) + Is(-32, x) + Is(-51, x) + Is(-52, x)
    BY DEF Is
  <2> HIDE DEF own
  <2>2. Count(EndsIn(t, Opened(p.wires)), x)
          = Is(p.wires[1], x) + Is(-1, x) + Is(-2, x) + 2 * Is(-31, x) + 2 * Is(-32, x)
    BY <1>4
  <2>3. Count(EndsIn(t, chain), x)
          = Is(-2, x) + Is(-4, x) + Is(-1, x) + 2 * Is(-51, x) + 2 * Is(-52, x)
    BY <1>5
  <2>4. Made(c, x) = Is(-4, x) + Weight(q, x)
    BY <1>6
  <2>5. Count(EndsIn(t, cs), x) = Count(EndsIn(t, Opened(p.wires)), x)
                                    + Count(EndsIn(t, chain), x) + Made(c, x)
    BY <1>7
  <2>6. Weight(q, x) \in Nat
    BY <1>1
  <2> QED
    BY <2>1, <2>2, <2>3, <2>4, <2>5, <2>6 DEF Is
<1>9. own \in [Int -> {0, 1}] /\ \A x \in Nat : own[x] = 0
  OBVIOUS
<1>10. cs \in ConnectsOver(n, W)
  BY <1>7
<1> HIDE DEF own
<1>11. Conserves(n, a, cs, l, r)
  BY <1>8, <1>9, <1>10, GraftConserves DEF W
<1> QED
  BY <1>11 DEF cs, c, chain, SerialAndOf

LEMMA IfConserves ==
    ASSUME NEW n, NEW a \in Nat, NEW l \in PortsOver(n, 1..a), NEW r \in PortsOver(n, 1..a),
           NEW p \in {l, r}, NEW q \in {l, r}, p = l => q = r, p = r => q = l, Len(p.wires) = 1,
           q.kind = "value",
           NEW e \in STRING \cap DOMAIN n.expansions, n.expansions[e].does # "catch"
    PROVE  Conserves(n, a, Opened(p.wires) \o <<To(Second, Graft(e, <<Result>>))>>, l, r)
<1> DEFINE W == (1..a) \cup OwnWires
           own == [x \in Int |-> IF x \in {-1, -2, -31, -32} THEN 1 ELSE 0]
           g == Graft(e, <<Result>>)
           c == To(Second, g)
           cs == Opened(p.wires) \o <<c>>
<1>1. p.wires[1] \in W /\ OwnWires \subseteq W
  BY GraftTyped
<1> HIDE DEF W
<1>2. \A t, x : /\ Opened(p.wires) \in ConnectsOver(n, W)
                /\ Count(EndsIn(t, Opened(p.wires)), x)
                     = Is(p.wires[1], x) + Is(-1, x) + Is(-2, x) + 2 * Is(-31, x) + 2 * Is(-32, x)
                /\ Second = -1 /\ Result = -2 /\ Second \in W /\ Result \in W
  BY <1>1, OpenedMade
<1>3. g \in PortsOver(n, W)
  BY <1>2, PortsMade
<1>4. \A x : Weight(g, x) = Is(Result, x)
  BY DEF Graft, Port, Weight
<1> HIDE DEF g
<1>5. \A x : c \in OneOver(n, W) /\ Made(c, x) = Is(Second, x) + Weight(g, x)
  BY <1>2, <1>3, ConnectMade
<1> HIDE DEF c
<1>6. \A t, x : <<c>> \in ConnectsOver(n, W) /\ Count(EndsIn(t, <<c>>), x) = Made(c, x)
  BY <1>5, CountSingle
<1>7. \A t, x : /\ cs \in ConnectsOver(n, W)
                /\ Count(EndsIn(t, cs), x) = Count(EndsIn(t, Opened(p.wires)), x) + Count(EndsIn(t, <<c>>), x)
  BY <1>2, <1>6, CountConcat
<1> HIDE DEF cs
<1>8. \A t \in Threads, x \in Int :
        Count(EndsIn(t, cs), x) = Is(p.wires[1], x) + Weight(q, x) + 2 * own[x]
  <2> TAKE t \in Threads, x \in Int
  <2>1. own[x] = Is(-1, x) + Is(-2, x) + Is(-31, x) + Is(-32, x)
    BY DEF Is
  <2> HIDE DEF own
  <2>2. Count(EndsIn(t, Opened(p.wires)), x)
          = Is(p.wires[1], x) + Is(-1, x) + Is(-2, x) + 2 * Is(-31, x) + 2 * Is(-32, x)
    BY <1>2
  <2>3. Count(EndsIn(t, <<c>>), x) = Is(-1, x) + Is(-2, x)
    BY <1>2, <1>4, <1>5, <1>6
  <2>4. Count(EndsIn(t, cs), x) = Count(EndsIn(t, Opened(p.wires)), x) + Count(EndsIn(t, <<c>>), x)
    BY <1>7
  <2>5. Weight(q, x) = 0
    BY NoWires
  <2> QED
    BY <2>1, <2>2, <2>3, <2>4, <2>5 DEF Is
<1>9. own \in [Int -> {0, 1}] /\ \A x \in Nat : own[x] = 0
  OBVIOUS
<1>10. cs \in ConnectsOver(n, W)
  BY <1>7
<1> HIDE DEF own
<1>11. cs \in ConnectsOver(n, (1..a) \cup OwnWires)
  BY <1>10 DEF W
<1>12. Conserves(n, a, cs, l, r)
  BY <1>8, <1>9, <1>11, GraftConserves, ZenonT(60)
<1> QED
  BY <1>12 DEF cs, c, g

(* Connects that leave at most two ends of each of their own wires, and    *)
(* exactly two if nothing is dropped.                                      *)
LEMMA ClosedConnects ==
    ASSUME NEW n, NEW cs \in ConnectsOver(n, OwnWires), NEW t \in Threads, NEW x,
           \A w \in WiresOf(cs) : Joined(n, cs, w, 2)
    PROVE  /\ Count(EndsIn(t, cs), x) \in Nat
           /\ Count(EndsIn(t, cs), x) <= 2
           /\ ~n.drops => Count(EndsIn(t, cs), x) # 1
           /\ x \in Nat => Count(EndsIn(t, cs), x) = 0
<1>1. Count(EndsIn(t, cs), x) = Count(EndsIn(caller, cs), x)
  BY CountAnyones
<1>2. /\ Count(EndsIn(t, cs), x) \in Nat
      /\ Count(EndsIn(t, cs), x) = 0 <=> x \notin WiresOf(cs)
  BY CountUsed
<1>3. CASE x \in WiresOf(cs)
  <2>1. Joined(n, cs, x, 2)
    BY <1>3
  <2>2. IF n.drops THEN Count(EndsIn(caller, cs), x) <= 2 ELSE Count(EndsIn(caller, cs), x) = 2
    BY <2>1 DEF Joined
  <2>3. x \in OwnWires
    BY <1>3, WiresNamed
  <2>4. x \notin Nat
    BY <2>3 DEF OwnWires
  <2> QED
    BY <1>1, <1>2, <2>2, <2>4
<1>4. CASE x \notin WiresOf(cs)
  BY <1>2, <1>4
<1> QED
  BY <1>3, <1>4

LEMMA ResultOpened ==
    ASSUME NEW x \in {-2, -31, -32}
    PROVE  x \in WiresOf(Opened(<<Result>>))
<1> DEFINE own == <<Result>>
           ends == Opened(own)
<1>1. PICK n : n = [drops |-> FALSE, expansions |-> <<>>]
  OBVIOUS
<1>2. own[1] \in OwnWires
  BY DEF OwnWires, Result, New
<1> HIDE DEF own
<1>3. /\ ends \in ConnectsOver(n, OwnWires)
      /\ Count(EndsIn(caller, ends), x)
           = Is(own[1], x) + Is(-1, x) + Is(-2, x) + 2 * Is(-31, x) + 2 * Is(-32, x)
  BY <1>2, OpenedMade
<1>4. Is(own[1], x) + Is(-1, x) + Is(-2, x) + 2 * Is(-31, x) + 2 * Is(-32, x) # 0
  BY DEF Is
<1> HIDE DEF ends
<1>5. x \in WiresOf(ends)
  BY <1>3, <1>4, CountUsed
<1> QED
  BY <1>5 DEF ends, own

LEMMA ContingentConserves ==
    ASSUME NEW n, NEW a \in Nat, NEW l \in PortsOver(n, 1..a), NEW r \in PortsOver(n, 1..a),
           NEW p \in {l, r}, NEW q \in {l, r}, p = l => q = r, p = r => q = l, Len(p.wires) = 1,
           NEW e, e.does = "contingent", LinearExpansion(n, e), Uncaught(n) = n
    PROVE  Conserves(n, a, CloseAfterContingentOf(e.closing, q, p.wires), l, r)
<1> DEFINE W == (1..a) \cup OwnWires
           open == Opened(p.wires)
           closing == e.closing
           last == Annihilate(Second)
           closed == closing \o <<last>>
           c == To(Result, q)
           cs == (open \o closing) \o <<c>>
<1>1. /\ p.wires[1] \in W /\ q \in PortsOver(n, W) /\ OwnWires \subseteq W
      /\ \A x : Weight(q, x) \in Nat
      /\ p.wires[1] \in 1..a /\ q \in PortsOver(n, 1..a)
  BY GraftTyped
<1>2. /\ closing \in ConnectsOver(n, OwnWires)
      /\ \A w \in WiresOf(closed) : Joined(n, closed, w, 2)
      /\ WiresOf(closing) \cap WiresOf(Opened(<<Result>>)) \subseteq {Second}
  BY DEF LinearExpansion
<1> HIDE DEF W, open, closing
<1>3. \A t, x : /\ open \in ConnectsOver(n, W)
                /\ Count(EndsIn(t, open), x)
                     = Is(p.wires[1], x) + Is(-1, x) + Is(-2, x) + 2 * Is(-31, x) + 2 * Is(-32, x)
                /\ Second = -1 /\ Result = -2 /\ Second \in W /\ Result \in W
  BY <1>1, OpenedMade DEF open
<1>4. \A x : c \in OneOver(n, W) /\ Made(c, x) = Is(-2, x) + Weight(q, x)
  <2> TAKE x
  <2>1. c \in OneOver(n, W) /\ Made(c, x) = Is(Result, x) + Weight(q, x)
    BY <1>1, <1>3, ConnectMade
  <2> QED
    BY <1>3, <2>1
<1>5. \A t, x : /\ closed \in ConnectsOver(n, OwnWires)
                /\ Count(EndsIn(t, closed), x) = Count(EndsIn(t, closing), x) + Is(-1, x)
  <2> TAKE t, x
  <2>1. Second \in OwnWires /\ Second = -1
    BY <1>3 DEF OwnWires
  <2>2. last \in OneOver(n, OwnWires) /\ Made(last, x) = Is(Second, x)
    BY <2>1, AnnihilateMade
  <2> HIDE DEF last
  <2>3. /\ <<last>> \in ConnectsOver(n, OwnWires)
        /\ Count(EndsIn(t, <<last>>), x) = Made(last, x)
    BY <2>2, CountSingle
  <2>4. /\ closing \o <<last>> \in ConnectsOver(n, OwnWires)
        /\ Count(EndsIn(t, closing \o <<last>>), x)
             = Count(EndsIn(t, closing), x) + Count(EndsIn(t, <<last>>), x)
    BY <1>2, <2>3, CountConcat
  <2> QED
    BY <2>1, <2>2, <2>3, <2>4
<1> HIDE DEF closed, c
<1>6. \A x \in {-2, -31, -32} : x \notin WiresOf(closing)
  <2> TAKE x \in {-2, -31, -32}
  <2>1. x \in WiresOf(Opened(<<Result>>)) /\ x # Second
    BY <1>3, ResultOpened
  <2> QED
    BY <1>2, <2>1
<1>7. ASSUME NEW t \in Threads, NEW x
      PROVE  /\ Count(EndsIn(t, closed), x) \in Nat
             /\ Count(EndsIn(t, closed), x) <= 2
             /\ ~n.drops => Count(EndsIn(t, closed), x) # 1
             /\ x \in Nat => Count(EndsIn(t, closed), x) = 0
  BY <1>2, <1>5, ClosedConnects
<1>8. ASSUME NEW t, NEW x
      PROVE  /\ cs \in ConnectsOver(n, W)
             /\ Count(EndsIn(t, cs), x) = Count(EndsIn(t, open), x)
                                            + Count(EndsIn(t, closing), x) + Made(c, x)
  <2> DEFINE ds == open \o closing
  <2>1. closing \in ConnectsOver(n, W)
    BY <1>1, <1>2, Wider
  <2>2. /\ ds \in ConnectsOver(n, W)
        /\ Count(EndsIn(t, ds), x) = Count(EndsIn(t, open), x) + Count(EndsIn(t, closing), x)
    BY <1>3, <2>1, CountConcat
  <2>3. <<c>> \in ConnectsOver(n, W) /\ Count(EndsIn(t, <<c>>), x) = Made(c, x)
    BY <1>4, CountSingle
  <2> HIDE DEF ds
  <2>4. /\ ds \o <<c>> \in ConnectsOver(n, W)
        /\ Count(EndsIn(t, ds \o <<c>>), x) = Count(EndsIn(t, ds), x) + Count(EndsIn(t, <<c>>), x)
    BY <2>2, <2>3, CountConcat
  <2> QED
    BY <2>2, <2>3, <2>4 DEF ds
<1> HIDE DEF cs
<1>9. ASSUME NEW t \in Threads, NEW x
      PROVE  /\ Count(EndsIn(t, closing), x) \in Nat
             /\ Count(EndsIn(t, closed), x) = Count(EndsIn(t, closing), x) + Is(-1, x)
             /\ Count(EndsIn(t, cs), x)
                  = (Is(p.wires[1], x) + Is(-1, x) + Is(-2, x) + 2 * Is(-31, x) + 2 * Is(-32, x))
                      + Count(EndsIn(t, closing), x) + (Is(-2, x) + Weight(q, x))
             /\ x \in {-2, -31, -32} => Count(EndsIn(t, closing), x) = 0
  <2>1. Count(EndsIn(t, closing), x) \in Nat
    BY <1>2, CountUsed
  <2>2. Count(EndsIn(t, closed), x) = Count(EndsIn(t, closing), x) + Is(-1, x)
    BY <1>5
  <2>3. Count(EndsIn(t, cs), x) = Count(EndsIn(t, open), x) + Count(EndsIn(t, closing), x) + Made(c, x)
    BY <1>8
  <2>4. Count(EndsIn(t, open), x)
          = Is(p.wires[1], x) + Is(-1, x) + Is(-2, x) + 2 * Is(-31, x) + 2 * Is(-32, x)
    BY <1>3
  <2>5. Made(c, x) = Is(-2, x) + Weight(q, x)
    BY <1>4
  <2>6. x \in {-2, -31, -32} => Count(EndsIn(t, closing), x) = 0
    BY <1>2, <1>6, CountUsed
  <2> QED
    BY <2>1, <2>2, <2>3, <2>4, <2>5, <2>6
<1>10. \A x : Weight(l, x) \in Nat /\ Weight(r, x) \in Nat
  BY PortTyped
<1>11. ASSUME NEW t \in Threads, NEW x \in 1..a
       PROVE  Count(EndsIn(t, cs), x) = Weight(l, x) + Weight(r, x)
  <2>1. Is(-1, x) = 0 /\ Is(-2, x) = 0 /\ Is(-31, x) = 0 /\ Is(-32, x) = 0
    BY DEF Is
  <2>2. x \in Nat
    OBVIOUS
  <2>3. Count(EndsIn(t, closed), x) = 0
    BY <1>7, <2>2
  <2>4. Count(EndsIn(t, cs), x) = Is(p.wires[1], x) + Weight(q, x)
    BY <1>1, <1>9, <2>1, <2>3 DEF Is
  <2>5. Weight(p, x) = Is(p.wires[1], x)
    BY DEF Weight
  <2>6. Weight(p, x) + Weight(q, x) = Weight(l, x) + Weight(r, x)
    BY <1>10
  <2> QED
    BY <2>4, <2>5, <2>6
<1>12. ASSUME NEW t \in Threads, NEW x \in OwnWires
       PROVE  /\ Count(EndsIn(t, cs), x) <= 2
              /\ ~n.drops => Count(EndsIn(t, cs), x) # 1
  <2>1. x \in Int /\ x \notin 1..a
    BY DEF OwnWires
  <2>2. Is(p.wires[1], x) = 0
    BY <1>1, <2>1 DEF Is
  <2>3. Weight(q, x) = 0
    <3> DEFINE V == 1..a
    <3>1. q \in PortsOver(n, V) /\ x \notin V
      BY <1>1, <2>1
    <3> HIDE DEF V
    <3> QED
      BY <3>1, PortTyped
  <2>4. /\ Count(EndsIn(t, closed), x) \in Nat
        /\ Count(EndsIn(t, closed), x) <= 2
        /\ ~n.drops => Count(EndsIn(t, closed), x) # 1
    BY <1>7
  <2>5. CASE x = -2
    <3>1. /\ Is(-1, x) = 0 /\ Is(-2, x) = 1 /\ Is(-31, x) = 0 /\ Is(-32, x) = 0
          /\ Count(EndsIn(t, closing), x) = 0
      BY <1>9, <2>5 DEF Is
    <3>2. Count(EndsIn(t, cs), x) = 2
      BY <1>9, <2>2, <2>3, <3>1
    <3> QED
      BY <3>2
  <2>6. CASE x \in {-31, -32}
    <3>1. /\ Is(-1, x) = 0 /\ Is(-2, x) = 0 /\ Is(-31, x) + Is(-32, x) = 1
          /\ Count(EndsIn(t, closing), x) = 0
      BY <1>9, <2>6 DEF Is
    <3>2. Count(EndsIn(t, cs), x) = 2
      BY <1>9, <2>2, <2>3, <2>6, <3>1 DEF Is
    <3> QED
      BY <3>2
  <2>7. CASE x \notin {-2, -31, -32}
    <3>1. Is(-2, x) = 0 /\ Is(-31, x) = 0 /\ Is(-32, x) = 0
      BY <2>7 DEF Is
    <3>2. Count(EndsIn(t, cs), x) = Count(EndsIn(t, closed), x)
      BY <1>9, <2>2, <2>3, <3>1 DEF Is
    <3> QED
      BY <2>4, <3>2
  <2> QED
    BY <2>5, <2>6, <2>7
<1>13. cs \in ConnectsOver(n, W)
  BY <1>8
<1>14. Conserves(n, a, cs, l, r)
  BY <1>11, <1>12, <1>13 DEF Conserves, W
<1> QED
  BY <1>14 DEF cs, c, open, closing, CloseAfterContingentOf

LEMMA TemplateConserves ==
    ASSUME NEW n, NEW a \in Nat, NEW l \in PortsOver(n, 1..a), NEW r \in PortsOver(n, 1..a),
           NEW p \in {l, r}, NEW q \in {l, r}, p = l => q = r, p = r => q = l, Len(p.wires) = 1,
           NEW e, e.does = "template", LinearExpansion(n, e), Uncaught(n) = n
    PROVE  Conserves(n, a, Materialize(e.template, q, p.wires), l, r)
<1> DEFINE W == (1..a) \cup OwnWires
           contents == Copied(e.template)
           input == CopyOf(e.template, e.template.input)
           output == CopyOf(e.template, e.template.output)
           closing == Join(input, output)
           closed == contents \o <<closing>>
           c == To(input, q)
           d == Join(output, p.wires[1])
           cs == contents \o <<c, d>>
<1>1. /\ p.wires[1] \in W /\ q \in PortsOver(n, W) /\ OwnWires \subseteq W
      /\ \A x : Weight(q, x) \in Nat
      /\ p.wires[1] \in 1..a /\ q \in PortsOver(n, 1..a)
  BY GraftTyped
<1>2. /\ contents \in ConnectsOver(n, OwnWires)
      /\ \A w \in WiresOf(closed) : Joined(n, closed, w, 2)
      /\ input \in OwnWires /\ output \in OwnWires
  BY DEF LinearExpansion
<1> HIDE DEF W, contents, input, output
<1>3. \A x : c \in OneOver(n, W) /\ Made(c, x) = Is(input, x) + Weight(q, x)
  BY <1>1, <1>2, ConnectMade
<1>4. \A x : d \in OneOver(n, W) /\ Made(d, x) = Is(output, x) + Is(p.wires[1], x)
  <2> TAKE x
  <2>1. PICK u \in W, v \in W : u = output /\ v = p.wires[1]
    BY <1>1, <1>2
  <2>2. Join(u, v) \in OneOver(n, W) /\ Made(Join(u, v), x) = Is(u, x) + Is(v, x)
    BY JoinMade
  <2> QED
    BY <2>1, <2>2
<1>5. \A t, x : /\ closed \in ConnectsOver(n, OwnWires)
                /\ Count(EndsIn(t, closed), x)
                     = Count(EndsIn(t, contents), x) + (Is(input, x) + Is(output, x))
  <2> TAKE t, x
  <2>1. closing \in OneOver(n, OwnWires) /\ Made(closing, x) = Is(input, x) + Is(output, x)
    BY <1>2, JoinMade
  <2> HIDE DEF closing
  <2>2. /\ <<closing>> \in ConnectsOver(n, OwnWires)
        /\ Count(EndsIn(t, <<closing>>), x) = Made(closing, x)
    BY <2>1, CountSingle
  <2>3. /\ contents \o <<closing>> \in ConnectsOver(n, OwnWires)
        /\ Count(EndsIn(t, contents \o <<closing>>), x)
             = Count(EndsIn(t, contents), x) + Count(EndsIn(t, <<closing>>), x)
    BY <1>2, <2>2, CountConcat
  <2> QED
    BY <2>1, <2>2, <2>3
<1> HIDE DEF closed, c, d
<1>6. ASSUME NEW t \in Threads, NEW x
      PROVE  /\ Count(EndsIn(t, closed), x) \in Nat
             /\ Count(EndsIn(t, closed), x) <= 2
             /\ ~n.drops => Count(EndsIn(t, closed), x) # 1
             /\ x \in Nat => Count(EndsIn(t, closed), x) = 0
  BY <1>2, <1>5, ClosedConnects
<1>7. ASSUME NEW t, NEW x
      PROVE  /\ cs \in ConnectsOver(n, W)
             /\ Count(EndsIn(t, cs), x) = Count(EndsIn(t, contents), x) + (Made(c, x) + Made(d, x))
  <2> DEFINE ds == <<c, d>>
  <2>1. contents \in ConnectsOver(n, W)
    BY <1>1, <1>2, Wider
  <2>2. /\ ds \in ConnectsOver(n, W)
        /\ Count(EndsIn(t, ds), x) = Made(c, x) + Made(d, x)
    BY <1>3, <1>4, CountTwo
  <2> HIDE DEF ds
  <2>3. /\ contents \o ds \in ConnectsOver(n, W)
        /\ Count(EndsIn(t, contents \o ds), x) = Count(EndsIn(t, contents), x) + Count(EndsIn(t, ds), x)
    BY <2>1, <2>2, CountConcat
  <2> QED
    BY <2>2, <2>3 DEF ds
<1> HIDE DEF cs
<1>8. ASSUME NEW t \in Threads, NEW x
      PROVE  Count(EndsIn(t, cs), x)
               = Count(EndsIn(t, closed), x) + (Is(p.wires[1], x) + Weight(q, x))
  <2>1. Count(EndsIn(t, contents), x) \in Nat
    BY <1>2, CountUsed
  <2>2. Count(EndsIn(t, closed), x) = Count(EndsIn(t, contents), x) + (Is(input, x) + Is(output, x))
    BY <1>5
  <2>3. Count(EndsIn(t, cs), x) = Count(EndsIn(t, contents), x) + (Made(c, x) + Made(d, x))
    BY <1>7
  <2>4. Made(c, x) = Is(input, x) + Weight(q, x) /\ Made(d, x) = Is(output, x) + Is(p.wires[1], x)
    BY <1>3, <1>4
  <2>5. Weight(q, x) \in Nat
    BY <1>1
  <2> QED
    BY <2>1, <2>2, <2>3, <2>4, <2>5 DEF Is
<1>9. \A x : Weight(l, x) \in Nat /\ Weight(r, x) \in Nat
  BY PortTyped
<1>10. ASSUME NEW t \in Threads, NEW x \in 1..a
       PROVE  Count(EndsIn(t, cs), x) = Weight(l, x) + Weight(r, x)
  <2>1. x \in Nat
    OBVIOUS
  <2>2. Count(EndsIn(t, closed), x) = 0
    BY <1>6, <2>1
  <2>3. Count(EndsIn(t, cs), x) = Is(p.wires[1], x) + Weight(q, x)
    BY <1>1, <1>8, <2>2 DEF Is
  <2>4. Weight(p, x) = Is(p.wires[1], x)
    BY DEF Weight
  <2>5. Weight(p, x) + Weight(q, x) = Weight(l, x) + Weight(r, x)
    BY <1>9
  <2> QED
    BY <2>3, <2>4, <2>5
<1>11. ASSUME NEW t \in Threads, NEW x \in OwnWires
       PROVE  /\ Count(EndsIn(t, cs), x) <= 2
              /\ ~n.drops => Count(EndsIn(t, cs), x) # 1
  <2>1. x \in Int /\ x \notin 1..a
    BY DEF OwnWires
  <2>2. Is(p.wires[1], x) = 0
    BY <1>1, <2>1 DEF Is
  <2>3. Weight(q, x) = 0
    <3> DEFINE V == 1..a
    <3>1. q \in PortsOver(n, V) /\ x \notin V
      BY <1>1, <2>1
    <3> HIDE DEF V
    <3> QED
      BY <3>1, PortTyped
  <2>4. Count(EndsIn(t, closed), x) \in Nat
    BY <1>6
  <2>5. Count(EndsIn(t, cs), x) = Count(EndsIn(t, closed), x)
    BY <1>8, <2>2, <2>3, <2>4
  <2> QED
    BY <1>6, <2>5
<1>12. cs \in ConnectsOver(n, W)
  BY <1>7
<1>13. Conserves(n, a, cs, l, r)
  BY <1>10, <1>11, <1>12 DEF Conserves, W
<1> QED
  BY <1>13 DEF cs, c, d, contents, input, output, Materialize

(* A net that catches nothing and does not depend on what arrives first.   *)
Expandable(n) ==
    /\ DOMAIN n.expansions \subseteq STRING
    /\ Uncaught(n) = n
    /\ \A l \in DOMAIN n.expansions :
          /\ n.expansions[l].does \in {"template", "or", "and", "contingent", "if"}
          /\ LinearExpansion(n, n.expansions[l])

LEMMA UncaughtExpands ==
    ASSUME NEW n, Deterministic(n), LinearNet(n)
    PROVE  Expandable(Uncaught(n))
<1> DEFINE m == Uncaught(n)
           D == {k \in DOMAIN n.expansions : n.expansions[k].does # "catch"}
<1>1. /\ m.drops = n.drops /\ DOMAIN m.expansions = D
      /\ \A l \in D : m.expansions[l] = n.expansions[l]
  BY DEF Uncaught
<1>2. /\ Uncaught(m).drops = m.drops
      /\ Uncaught(m).expansions
           = [l \in {k \in DOMAIN m.expansions : m.expansions[k].does # "catch"} |-> m.expansions[l]]
      /\ Uncaught(m) = [drops |-> Uncaught(m).drops, expansions |-> Uncaught(m).expansions]
      /\ m.expansions = [l \in D |-> n.expansions[l]]
      /\ m = [drops |-> m.drops, expansions |-> m.expansions]
  BY DEF Uncaught
<1>3. {k \in DOMAIN m.expansions : m.expansions[k].does # "catch"} = D
  BY <1>1
<1>4. Uncaught(m).expansions = m.expansions
  BY <1>1, <1>2, <1>3
<1>5. Uncaught(m) = m
  BY <1>2, <1>4
<1>6. \A l \in D : /\ n.expansions[l].does \in {"template", "or", "and", "contingent", "if"}
                   /\ LinearExpansion(n, n.expansions[l])
  BY DEF Deterministic, LinearNet
<1>7. DOMAIN n.expansions \subseteq STRING
  BY DEF LinearNet
<1> HIDE DEF m, D
<1>8. ASSUME NEW x, LinearExpansion(n, x) PROVE LinearExpansion(m, x)
  <2>1. Uncaught(n) = m /\ Uncaught(m) = m
    BY <1>5 DEF m
  <2>2. \A cs, w : Joined(m, cs, w, 2) <=> Joined(n, cs, w, 2)
    BY <1>1 DEF Joined
  <2> QED
    BY <1>8, <2>1, <2>2 DEF LinearExpansion
<1>9. Expandable(m)
  BY <1>1, <1>5, <1>6, <1>7, <1>8 DEF Expandable, D
<1> QED
  BY <1>9 DEF m

(* Whatever a graft that does not catch meets.                             *)
LEMMA ExpandConserves ==
    ASSUME NEW n, NEW a \in Nat, NEW l \in PortsOver(n, 1..a), NEW r \in PortsOver(n, 1..a),
           NEW p \in {l, r}, NEW q \in {l, r}, p = l => q = r, p = r => q = l, p.kind = "graft",
           Expandable(n), NEW served
    PROVE  Conserves(n, a, Expand(n.expansions[p.label], served, q, p.wires), l, r)
<1> DEFINE e == n.expansions[p.label]
           cs == Expand(e, served, q, p.wires)
<1>1. p.label \in DOMAIN n.expansions
  BY DEF PortsOver
<1>2. /\ e.does \in {"template", "or", "and", "contingent", "if"}
      /\ LinearExpansion(n, e) /\ Uncaught(n) = n
      /\ DOMAIN n.expansions \subseteq STRING
  BY <1>1 DEF Expandable
<1>3. p.wires \in Seq(1..a) /\ Len(p.wires) = 1
  <2>1. Len(p.wires) = 1
    BY <1>2, PortSize
  <2> QED
    BY <2>1, GraftTyped
<1> HIDE DEF e
<1>4. CASE e.does = "template"
  <2>1. CASE q.kind = "erasure"
    <3>1. Annihilations(Port("graft", p.wires)) = <<Annihilate(p.wires[1])>>
      <4>1. Port("graft", p.wires).wires = p.wires /\ DOMAIN p.wires = {1}
        BY <1>3 DEF Port
      <4> QED
        BY <4>1 DEF Annihilations
    <3>2. cs = Annihilations(Port("graft", p.wires))
      BY <1>4, <2>1 DEF Expand
    <3> HIDE DEF cs
    <3>3. cs = <<Annihilate(p.wires[1])>>
      BY <3>1, <3>2
    <3> QED
      BY <1>3, <2>1, <3>3, OnlyErased DEF cs, e
  <2>2. CASE q.kind # "erasure"
    <3>1. cs = Materialize(e.template, q, p.wires)
      BY <1>4, <2>2 DEF Expand
    <3> HIDE DEF cs
    <3>2. Conserves(n, a, Materialize(e.template, q, p.wires), l, r)
      BY <1>2, <1>3, <1>4, TemplateConserves
    <3> QED
      BY <3>1, <3>2 DEF cs, e
  <2> QED
    BY <2>1, <2>2
<1>5. CASE e.does = "or"
  <2>1. cs = SerialOrOf(q, p.wires)
    BY <1>5 DEF Expand
  <2> HIDE DEF cs
  <2> QED
    BY <1>3, <2>1, OrConserves DEF cs, e
<1>6. CASE e.does = "and"
  <2>1. cs = SerialAndOf(q, p.wires)
    BY <1>6 DEF Expand
  <2> HIDE DEF cs
  <2>2. CASE q.kind = "erasure"
    <3>1. cs = <<Annihilate(p.wires[1])>>
      BY <2>1, <2>2 DEF SerialAndOf
    <3> QED
      BY <1>3, <2>2, <3>1, OnlyErased DEF cs, e
  <2>3. CASE q.kind # "erasure"
    BY <1>3, <2>1, <2>3, AndConserves DEF cs, e
  <2> QED
    BY <2>2, <2>3
<1>7. CASE e.does = "contingent"
  <2>1. cs = CloseAfterContingentOf(e.closing, q, p.wires)
    BY <1>7 DEF Expand
  <2> HIDE DEF cs
  <2>2. Conserves(n, a, CloseAfterContingentOf(e.closing, q, p.wires), l, r)
    BY <1>2, <1>3, <1>7, ContingentConserves
  <2> QED
    BY <2>1, <2>2 DEF cs, e
<1>8. CASE e.does = "if"
  <2>1. cs = IfThenElseOf(e, q, p.wires)
    BY <1>8 DEF Expand
  <2> HIDE DEF cs
  <2>2. CASE q.kind # "value"
    <3>1. cs = <<Annihilate(p.wires[1])>> \o Annihilations(q)
      BY <2>1, <2>2 DEF IfThenElseOf
    <3> QED
      BY <1>3, <3>1, ErasedConserves DEF cs, e
  <2>3. CASE q.kind = "value"
    <3> DEFINE f == IF Truthy(q.value) THEN e.first ELSE e.second
    <3>1. cs = Opened(p.wires) \o <<To(Second, Graft(f, <<Result>>))>>
      BY <2>1, <2>3 DEF IfThenElseOf
    <3>2. f \in STRING \cap DOMAIN n.expansions /\ n.expansions[f].does # "catch"
      <4>1. f \in DOMAIN Uncaught(n).expansions
        BY <1>2, <1>8 DEF LinearExpansion
      <4> HIDE DEF f
      <4> QED
        BY <1>2, <4>1 DEF Uncaught
    <3> HIDE DEF f
    <3>3. Conserves(n, a, Opened(p.wires) \o <<To(Second, Graft(f, <<Result>>))>>, l, r)
      BY <1>3, <2>3, <3>2, IfConserves
    <3> QED
      BY <3>1, <3>3 DEF cs, e
  <2> QED
    BY <2>2, <2>3
<1> QED
  BY <1>2, <1>4, <1>5, <1>6, <1>7, <1>8 DEF e

-----------------------------------------------------------------------------
(* Every interaction conserves the wires. *)
LEMMA PortAndPartner ==
    ASSUME NEW l, NEW r, NEW kind, kind \in Kinds(l, r)
    PROVE  /\ PortOf(kind, l, r) \in {l, r} /\ PartnerOf(kind, l, r) \in {l, r}
           /\ PortOf(kind, l, r).kind = kind
           /\ PortOf(kind, l, r) = l => PartnerOf(kind, l, r) = r
           /\ PortOf(kind, l, r) = r => PartnerOf(kind, l, r) = l
BY DEF PortOf, PartnerOf, Kinds

LEMMA OtherConserves ==
    ASSUME NEW n, Expandable(n), \A e \in DOMAIN n.expansions : n.expansions[e] = net.expansions[e],
           allocated \in Nat, allocated <= MaxWires,
           target \in [Wires -> PortsOver(net, 1..allocated) \cup {NoPort}],
           NEW l \in PortsOver(n, 1..allocated), NEW r \in PortsOver(n, 1..allocated),
           Legal(l, r)
    PROVE  Conserves(n, allocated, Interaction(l, r), l, r)
<1> DEFINE K == Kinds(l, r)
           cs == Interaction(l, r)
<1>1. CASE "wire" \in K
  <2> DEFINE p == PortOf("wire", l, r)
             q == PartnerOf("wire", l, r)
  <2>1. cs = <<To(p.wires[1], q)>>
    BY <1>1 DEF Interaction, BothCombs, Kinds
  <2>2. /\ p \in {l, r} /\ q \in {l, r} /\ p.kind = "wire"
        /\ p = l => q = r
        /\ p = r => q = l
    BY <1>1, PortAndPartner
  <2> HIDE DEF p, q, cs
  <2>3. Conserves(n, allocated, <<To(p.wires[1], q)>>, l, r)
    BY <2>2, WireConserves
  <2> QED
    BY <2>1, <2>3 DEF cs
<1>2. CASE "wire" \notin K /\ "graft" \in K
  <2> DEFINE p == PortOf("graft", l, r)
             q == PartnerOf("graft", l, r)
  <2>1. /\ p \in {l, r} /\ q \in {l, r} /\ p.kind = "graft"
        /\ p = l => q = r
        /\ p = r => q = l
    BY <1>2, PortAndPartner
  <2>2. cs = Expand(n.expansions[p.label], copied, q, p.wires)
    <3>1. cs = Expand(net.expansions[p.label], copied, q, p.wires)
      BY <1>2 DEF Interaction, Executes, BothCombs, Kinds
    <3>2. p.label \in DOMAIN n.expansions
      BY <2>1 DEF PortsOver
    <3>3. n.expansions[p.label] = net.expansions[p.label]
      BY <3>2
    <3> QED
      BY <3>1, <3>3
  <2> HIDE DEF p, q, cs
  <2>3. Conserves(n, allocated, Expand(n.expansions[p.label], copied, q, p.wires), l, r)
    BY <2>1, ExpandConserves
  <2> QED
    BY <2>2, <2>3 DEF cs
<1>3. CASE K \cap {"wire", "graft"} = {} /\ "erasure" \in K
  <2>1. cs = Erase(l, r)
    BY <1>3 DEF Interaction, BothCombs, Kinds
  <2> QED
    BY <2>1, EraseConserves
<1>4. CASE BothCombs(l, r)
  <2>1. l.kind = "comb" /\ r.kind = "comb"
    BY <1>4 DEF BothCombs, Kinds
  <2>2. cs = IF l.label = r.label THEN AnnihilatePair(l, r) ELSE Commute(l, r)
    BY <2>1 DEF Interaction, BothCombs, Kinds
  <2> HIDE DEF cs
  <2> QED
    BY <2>1, <2>2, AnnihilateConserves, CommuteConserves DEF cs
<1>5. ASSUME NEW kind \in {"comb", "merge", "split"}, K = {kind, "value"}
      PROVE  Conserves(n, allocated, cs, l, r)
  <2> DEFINE p == PartnerOf("value", l, r)
             q == PortOf("value", l, r)
  <2>1. "value" \in K
    BY <1>5
  <2>2. /\ p \in {l, r} /\ q \in {l, r} /\ q.kind = "value"
        /\ q = l => p = r
        /\ q = r => p = l
    BY <2>1, PortAndPartner
  <2>3. p.kind = kind
    BY <1>5 DEF PartnerOf, Kinds
  <2>4. p = l => q = r
    BY DEF PartnerOf, PortOf
  <2>5. p = r => q = l
    BY DEF PartnerOf, PortOf
  <2>6. cs = IF kind = "comb" THEN Clone(p, q) ELSE IF kind = "split" THEN Split(p, q) ELSE Merge(p, q)
    <3>1. CASE kind = "comb"
      BY <1>5, <3>1 DEF Interaction, BothCombs
    <3>2. CASE kind = "split"
      BY <1>5, <3>2 DEF Interaction, BothCombs
    <3>3. CASE kind = "merge"
      BY <1>5, <3>3 DEF Interaction, BothCombs
    <3> QED
      BY <3>1, <3>2, <3>3
  <2> HIDE DEF p, q, cs
  <2>7. CASE kind = "comb"
    <3>1. Conserves(n, allocated, Clone(p, q), l, r)
      BY <2>2, <2>3, <2>4, <2>5, <2>7, CloneConserves
    <3> QED
      BY <2>6, <2>7, <3>1 DEF cs
  <2>8. CASE kind = "split"
    <3>1. Conserves(n, allocated, Split(p, q), l, r)
      BY <2>2, <2>3, <2>4, <2>5, <2>8, SplitConserves
    <3> QED
      BY <2>6, <2>8, <3>1 DEF cs
  <2>9. CASE kind = "merge"
    <3>1. Conserves(n, allocated, Merge(p, q), l, r)
      BY <2>2, <2>3, <2>4, <2>5, <2>9, MergeConserves
    <3> QED
      BY <2>6, <2>9, <3>1 DEF cs
  <2> QED
    BY <2>7, <2>8, <2>9
<1> QED
  <2>1. \/ "wire" \in K
        \/ "wire" \notin K /\ "graft" \in K
        \/ K \cap {"wire", "graft"} = {} /\ "erasure" \in K
        \/ BothCombs(l, r)
        \/ \E kind \in {"comb", "merge", "split"} : K = {kind, "value"}
    BY DEF Legal
  <2> QED
    BY <1>1, <1>2, <1>3, <1>4, <1>5, <2>1

(* The ports that do not catch. *)
LEMMA UncaughtPorts ==
    ASSUME NEW n, NEW W
    PROVE  /\ PortsOver(Uncaught(n), W) = {p \in PortsOver(n, W) : ~Catches(n, p)}
           /\ ConnectsOver(Uncaught(n), W) \subseteq ConnectsOver(n, W)
           /\ \A cs \in ConnectsOver(Uncaught(n), W), i \in Nat :
                  i \in DOMAIN cs => ~Catches(n, cs[i].port)
<1> DEFINE m == Uncaught(n)
           D == {k \in DOMAIN n.expansions : n.expansions[k].does # "catch"}
           P == [kind : PortKinds, label : STRING, value : Seq(STRING), swapped : BOOLEAN,
                 wires : Seq(W)]
<1>1. /\ DOMAIN m.expansions = D /\ \A l \in D : m.expansions[l] = n.expansions[l]
  BY DEF Uncaught
<1> HIDE DEF m
<1>2. ASSUME NEW p \in P
      PROVE  /\ p.kind = "graft" => p.label \in DOMAIN m.expansions
             /\ Len(p.wires) = IF Catches(m, p) THEN 0 ELSE Arity(p.kind)
             <=>
             /\ p.kind = "graft" => p.label \in DOMAIN n.expansions
             /\ Len(p.wires) = IF Catches(n, p) THEN 0 ELSE Arity(p.kind)
             /\ ~Catches(n, p)
  <2>1. CASE p.kind = "graft"
    BY <1>1, <2>1 DEF Catches
  <2>2. CASE p.kind # "graft"
    BY <2>2 DEF Catches
  <2> QED
    BY <2>1, <2>2
<1> HIDE DEF P, D
<1>3. PortsOver(m, W) = {p \in PortsOver(n, W) : ~Catches(n, p)}
  <2>1. /\ PortsOver(m, W) = {p \in P :
              /\ p.kind = "graft" => p.label \in DOMAIN m.expansions
              /\ Len(p.wires) = IF Catches(m, p) THEN 0 ELSE Arity(p.kind)}
        /\ PortsOver(n, W) = {p \in P :
              /\ p.kind = "graft" => p.label \in DOMAIN n.expansions
              /\ Len(p.wires) = IF Catches(n, p) THEN 0 ELSE Arity(p.kind)}
    BY DEF PortsOver, P
  <2> QED
    BY <1>2, <2>1
<1>4. ASSUME NEW cs \in ConnectsOver(m, W)
      PROVE  /\ cs \in ConnectsOver(n, W)
             /\ \A i \in Nat : i \in DOMAIN cs => ~Catches(n, cs[i].port)
  <2> DEFINE A == OneOver(m, W)
             B == OneOver(n, W)
  <2>1. A \subseteq B /\ \A c \in A : ~Catches(n, c.port)
    BY <1>3 DEF OneOver
  <2>2. cs \in Seq(A)
    BY DEF ConnectsOver, OneOver
  <2>3. ConnectsOver(n, W) = Seq(B)
    BY DEF ConnectsOver, OneOver
  <2> HIDE DEF A, B
  <2> QED
    BY <2>1, <2>2, <2>3
<1> QED
  BY <1>3, <1>4 DEF m

(* Nor does a port that a rule makes catch.                                *)
LEMMA InteractionConserves ==
    ASSUME Deterministic(net), LinearNet(net), allocated \in Nat, allocated <= MaxWires,
           target \in [Wires -> PortsOver(net, 1..allocated) \cup {NoPort}],
           NEW l \in PortsOver(net, 1..allocated), NEW r \in PortsOver(net, 1..allocated),
           Legal(l, r),
           Catches(net, l) \/ Catches(net, r) => Caught(net, l) /\ Caught(net, r)
    PROVE  /\ Conserves(net, allocated, Interaction(l, r), l, r)
           /\ Interaction(l, r) \in ConnectsOver(Uncaught(net), (1..allocated) \cup OwnWires)
           /\ Catches(net, l) \/ Catches(net, r) => Interaction(l, r) = <<>>
<1> DEFINE m == Uncaught(net)
           W == (1..allocated) \cup OwnWires
           cs == Interaction(l, r)
<1>1. CASE Catches(net, l) \/ Catches(net, r)
  <2> DEFINE p == PortOf("graft", l, r)
             q == PartnerOf("graft", l, r)
  <2>1. "graft" \in Kinds(l, r) /\ "wire" \notin Kinds(l, r) /\ Kinds(l, r) # {"graft"}
    BY <1>1 DEF Caught, Catches, Kinds, Legal, BothCombs
  <2>2. Catches(net, p)
    BY <1>1, <2>1 DEF PortOf, Catches, Kinds
  <2>3. cs = Expand(net.expansions[p.label], copied, q, p.wires)
    BY <2>1 DEF Interaction, Executes, BothCombs
  <2> HIDE DEF cs, p, q
  <2>4. cs = <<>>
    BY <2>2, <2>3 DEF Expand, Catches
  <2>5. \A x : Weight(l, x) = 0 /\ Weight(r, x) = 0
    <3>1. ASSUME NEW o \in {l, r} PROVE \A x : Weight(o, x) = 0
      <4>1. o \in PortsOver(net, 1..allocated) /\ Caught(net, o)
        BY <1>1
      <4>2. Len(o.wires) = 0
        <5>1. Catches(net, o) => Len(o.wires) = 0
          BY <4>1, PortSize
        <5>2. o.kind \in {"value", "erasure"} => Len(o.wires) = 0
          BY <4>1, PortSize DEF Arity
        <5> QED
          BY <4>1, <5>1, <5>2 DEF Caught
      <4> QED
        BY <4>2 DEF Weight
    <3> QED
      BY <3>1
  <2>6. cs \in ConnectsOver(net, W) /\ cs \in ConnectsOver(m, W)
    <3> HIDE DEF m, W
    <3> QED
      BY <2>4, CountEmpty
  <2>7. \A t, x : Count(EndsIn(t, cs), x) = 0
    BY <2>4, CountEmpty
  <2>8. Conserves(net, allocated, cs, l, r)
    BY <2>5, <2>6, <2>7 DEF Conserves
  <2> QED
    BY <2>4, <2>6, <2>8 DEF cs
<1>2. CASE ~Catches(net, l) /\ ~Catches(net, r)
  <2>1. l \in PortsOver(m, 1..allocated) /\ r \in PortsOver(m, 1..allocated)
    BY <1>2, UncaughtPorts
  <2>2. Expandable(m)
    BY UncaughtExpands
  <2>3. m.drops = net.drops /\ \A e \in DOMAIN m.expansions : m.expansions[e] = net.expansions[e]
    BY DEF Uncaught
  <2> HIDE DEF m, cs
  <2>4. Conserves(m, allocated, cs, l, r)
    BY <2>1, <2>2, <2>3, OtherConserves DEF cs
  <2>5. cs \in ConnectsOver(m, W)
    BY <2>4 DEF Conserves
  <2>6. cs \in ConnectsOver(net, W)
    BY <2>5, UncaughtPorts DEF m
  <2> QED
    BY <1>2, <2>3, <2>4, <2>5, <2>6 DEF Conserves, cs, m
<1> QED
  BY <1>1, <1>2

-----------------------------------------------------------------------------
(* A wire that waits for the result of a merge, at what catches: a rule    *)
(* that finds nothing but merges there leaves nothing but merges, and      *)
(* connects only what can be caught.                                       *)
Obeys(cs, x) ==
    \A i \in DOMAIN cs :
        /\ ResultOnly(cs[i].port, x)
        /\ cs[i].wire = x => cs[i].port.kind \in {"value", "erasure"}

(* Connects that do not name the wire. *)
LEMMA ObeysOver ==
    ASSUME NEW n, NEW W, NEW cs \in ConnectsOver(n, W), NEW x, x \notin WiresOf(cs)
    PROVE  Obeys(cs, x)
<1> SUFFICES ASSUME NEW i \in DOMAIN cs
             PROVE  cs[i].wire # x /\ \A j \in DOMAIN cs[i].port.wires : cs[i].port.wires[j] # x
  BY DEF Obeys, ResultOnly
<1> QED
  BY DEF WiresOf, ToSet

LEMMA ObeysBeside ==
    ASSUME NEW n, NEW W, NEW cs \in ConnectsOver(n, W), NEW x, x \notin W
    PROVE  Obeys(cs, x)
<1>1. x \notin WiresOf(cs)
  BY WiresNamed
<1> QED
  BY <1>1, ObeysOver

LEMMA ObeysConcat ==
    ASSUME NEW n, NEW W, NEW cs \in ConnectsOver(n, W), NEW ds \in ConnectsOver(n, W), NEW x,
           Obeys(cs, x), Obeys(ds, x)
    PROVE  cs \o ds \in ConnectsOver(n, W) /\ Obeys(cs \o ds, x)
<1> DEFINE S == OneOver(n, W)
<1>1. cs \in Seq(S) /\ ds \in Seq(S)
  BY DEF ConnectsOver, OneOver
<1> HIDE DEF S
<1>2. /\ cs \o ds \in Seq(S)
      /\ Len(cs \o ds) = Len(cs) + Len(ds) /\ DOMAIN (cs \o ds) = 1..Len(cs \o ds)
      /\ \A i \in 1..Len(cs \o ds) : (cs \o ds)[i] = IF i <= Len(cs) THEN cs[i] ELSE ds[i - Len(cs)]
  BY <1>1, ConcatProperties, LenProperties
<1>3. /\ Len(cs) \in Nat /\ Len(ds) \in Nat
      /\ DOMAIN cs = 1..Len(cs) /\ DOMAIN ds = 1..Len(ds)
  BY <1>1, LenProperties
<1>4. ASSUME NEW i \in DOMAIN (cs \o ds)
      PROVE  (\E j \in DOMAIN cs : (cs \o ds)[i] = cs[j]) \/ (\E j \in DOMAIN ds : (cs \o ds)[i] = ds[j])
  <2>1. i \in 1..(Len(cs) + Len(ds))
    BY <1>2
  <2>2. CASE i <= Len(cs)
    BY <1>2, <1>3, <2>1, <2>2
  <2>3. CASE i > Len(cs)
    <3>1. i - Len(cs) \in DOMAIN ds
      BY <1>3, <2>1, <2>3
    <3> QED
      BY <1>2, <1>3, <2>1, <2>3, <3>1
  <2> QED
    BY <1>3, <2>1, <2>2, <2>3
<1>5. Obeys(cs \o ds, x)
  BY <1>4 DEF Obeys
<1> QED
  BY <1>2, <1>5 DEF S, ConnectsOver, OneOver

LEMMA ObeysOne ==
    ASSUME NEW n, NEW W, NEW w \in W, NEW p \in PortsOver(n, W), NEW x,
           ResultOnly(p, x), w = x => p.kind \in {"value", "erasure"}
    PROVE  <<To(w, p)>> \in ConnectsOver(n, W) /\ Obeys(<<To(w, p)>>, x)
<1> DEFINE c == To(w, p)
<1>1. c \in OneOver(n, W) /\ c.wire = w /\ c.port = p
  BY DEF OneOver, To
<1> HIDE DEF c
<1>2. <<c>> \in ConnectsOver(n, W)
  BY <1>1, CountSingle
<1>3. Obeys(<<c>>, x)
  BY <1>1 DEF Obeys
<1> QED
  BY <1>2, <1>3 DEF c

LEMMA ObeysTwo ==
    ASSUME NEW n, NEW W, NEW v \in W, NEW p \in PortsOver(n, W), NEW w \in W, NEW q \in PortsOver(n, W),
           NEW x, ResultOnly(p, x), v = x => p.kind \in {"value", "erasure"},
           ResultOnly(q, x), w = x => q.kind \in {"value", "erasure"}
    PROVE  <<To(v, p), To(w, q)>> \in ConnectsOver(n, W) /\ Obeys(<<To(v, p), To(w, q)>>, x)
<1>1. /\ <<To(v, p)>> \in ConnectsOver(n, W) /\ Obeys(<<To(v, p)>>, x)
      /\ <<To(w, q)>> \in ConnectsOver(n, W) /\ Obeys(<<To(w, q)>>, x)
  BY ObeysOne
<1> DEFINE c == To(v, p)
           d == To(w, q)
<1> HIDE DEF c, d
<1>2. <<c, d>> = <<c>> \o <<d>>
  BY JoinTwo
<1>3. <<c>> \o <<d>> \in ConnectsOver(n, W) /\ Obeys(<<c>> \o <<d>>, x)
  BY <1>1, ObeysConcat DEF c, d
<1> QED
  BY <1>2, <1>3 DEF c, d

(* An erasure may go to every wire. *)
LEMMA AnnihilationsObey ==
    ASSUME NEW n, NEW W, NEW p \in PortsOver(n, W), NEW x
    PROVE  Annihilations(p) \in ConnectsOver(n, W) /\ Obeys(Annihilations(p), x)
<1>1. Annihilations(p) \in ConnectsOver(n, W)
  BY CountAnnihilations
<1>2. \A i \in DOMAIN p.wires : Annihilations(p)[i].port = Erasure
  BY DEF Annihilations, Annihilate, To
<1>3. DOMAIN Annihilations(p) = DOMAIN p.wires
  BY DEF Annihilations
<1>4. Erasure.kind = "erasure" /\ Erasure.wires = <<>>
  BY DEF Erasure, Port
<1>5. ResultOnly(Erasure, x)
  BY <1>4 DEF ResultOnly
<1> QED
  BY <1>1, <1>2, <1>3, <1>4, <1>5 DEF Obeys

LEMMA ObeysWithout ==
    ASSUME NEW n, NEW W, NEW x, NEW cs \in ConnectsOver(n, W \ {x})
    PROVE  cs \in ConnectsOver(n, W) /\ Obeys(cs, x)
<1> DEFINE U == W \ {x}
<1>1. U \subseteq W /\ x \notin U
  OBVIOUS
<1>2. cs \in ConnectsOver(n, U)
  OBVIOUS
<1> HIDE DEF U
<1>3. cs \in ConnectsOver(n, W)
  BY <1>1, <1>2, Wider
<1>4. Obeys(cs, x)
  BY <1>1, <1>2, ObeysBeside
<1> QED
  BY <1>3, <1>4

LEMMA OpenedObeys ==
    ASSUME NEW n, NEW W, OwnWires \subseteq W, NEW wires, wires[1] \in W, NEW x, x \notin OwnWires,
           wires[1] # x
    PROVE  /\ Opened(wires) \in ConnectsOver(n, W) /\ Obeys(Opened(wires), x)
           /\ Second \in OwnWires /\ Result \in OwnWires
<1> DEFINE U == W \ {x}
<1>1. OwnWires \subseteq U /\ wires[1] \in U
  OBVIOUS
<1> HIDE DEF U
<1>2. Opened(wires) \in ConnectsOver(n, U)
  BY <1>1, OpenedMade
<1>3. Second \in OwnWires /\ Result \in OwnWires
  BY DEF Second, Result, New, OwnWires
<1> QED
  BY <1>2, <1>3, ObeysWithout DEF U

(* What a graft makes of a port q that it meets on another wire. *)
LEMMA GraftObeys ==
    ASSUME NEW n, Expandable(n), NEW V, V \cap OwnWires = {},
           NEW p \in PortsOver(n, V), NEW q \in PortsOver(n, V), p.kind = "graft", NEW served,
           NEW x \in V, p.wires[1] # x, ResultOnly(q, x)
    PROVE  Obeys(Expand(n.expansions[p.label], served, q, p.wires), x)
<1> DEFINE W == V \cup OwnWires
           U == W \ {x}
           e == n.expansions[p.label]
           cs == Expand(e, served, q, p.wires)
           open == Opened(p.wires)
<1>1. p.label \in DOMAIN n.expansions
  BY DEF PortsOver
<1>2. /\ e.does \in {"template", "or", "and", "contingent", "if"}
      /\ LinearExpansion(n, e) /\ Uncaught(n) = n
  BY <1>1 DEF Expandable
<1>3. p.wires \in Seq(V) /\ Len(p.wires) = 1 /\ p.wires[1] \in V
  <2>1. Len(p.wires) = 1
    BY <1>2, PortSize
  <2> QED
    BY <2>1, PortTyped
<1>4. x \notin OwnWires
  OBVIOUS
<1>5. OwnWires \subseteq U /\ OwnWires \subseteq W /\ p.wires[1] \in U /\ p.wires[1] \in W /\ V \subseteq W
  BY <1>3
<1> HIDE DEF e, W
<1>6. q \in PortsOver(n, W)
  BY <1>5, Wider
<1>7. open \in ConnectsOver(n, W) /\ Obeys(open, x) /\ Second \in OwnWires /\ Result \in OwnWires
  BY <1>4, <1>5, OpenedObeys
<1>8. ASSUME NEW w \in OwnWires
      PROVE  /\ <<To(w, q)>> \in ConnectsOver(n, W) /\ Obeys(<<To(w, q)>>, x)
             /\ <<Annihilate(w)>> \in ConnectsOver(n, U)
  <2>1. <<To(w, q)>> \in ConnectsOver(n, W) /\ Obeys(<<To(w, q)>>, x)
    BY <1>4, <1>5, <1>6, ObeysOne
  <2>2. Annihilate(w) \in OneOver(n, U)
    <3> HIDE DEF U
    <3> QED
      BY <1>5, AnnihilateMade
  <2> DEFINE c == Annihilate(w)
  <2> HIDE DEF c, U
  <2>3. <<c>> \in ConnectsOver(n, U)
    BY <2>2, CountSingle DEF c
  <2> QED
    BY <2>1, <2>3 DEF c
<1>9. <<Annihilate(p.wires[1])>> \in ConnectsOver(n, W) /\ Obeys(<<Annihilate(p.wires[1])>>, x)
  <2> DEFINE c == Annihilate(p.wires[1])
  <2>1. c \in OneOver(n, U)
    <3> HIDE DEF U
    <3> QED
      BY <1>5, AnnihilateMade
  <2> HIDE DEF c
  <2>2. <<c>> \in ConnectsOver(n, U)
    <3> HIDE DEF U
    <3> QED
      BY <2>1, CountSingle
  <2>3. <<c>> \in ConnectsOver(n, W) /\ Obeys(<<c>>, x)
    BY <2>2, ObeysWithout
  <2> QED
    BY <2>3 DEF c
<1>10. ASSUME NEW v \in U, NEW w \in U
       PROVE  <<Join(v, w)>> \in ConnectsOver(n, W) /\ Obeys(<<Join(v, w)>>, x)
  <2> DEFINE c == Join(v, w)
  <2>1. c \in OneOver(n, U)
    <3> HIDE DEF U
    <3> QED
      BY JoinMade
  <2> HIDE DEF c
  <2>2. <<c>> \in ConnectsOver(n, U)
    <3> HIDE DEF U
    <3> QED
      BY <2>1, CountSingle
  <2>3. <<c>> \in ConnectsOver(n, W) /\ Obeys(<<c>>, x)
    BY <2>2, ObeysWithout
  <2> QED
    BY <2>3 DEF c
<1>11. ASSUME NEW cs1 \in ConnectsOver(n, OwnWires)
       PROVE  cs1 \in ConnectsOver(n, W) /\ Obeys(cs1, x)
  BY <1>4, <1>5, ObeysBeside, Wider
<1> HIDE DEF U, open
<1>12. CASE e.does = "template"
  <2>1. CASE q.kind = "erasure"
    <3>1. Annihilations(Port("graft", p.wires)) = <<Annihilate(p.wires[1])>>
      <4>1. Port("graft", p.wires).wires = p.wires /\ DOMAIN p.wires = {1}
        BY <1>3 DEF Port
      <4> QED
        BY <4>1 DEF Annihilations
    <3>2. cs = Annihilations(Port("graft", p.wires))
      BY <1>12, <2>1 DEF Expand
    <3> HIDE DEF cs
    <3> QED
      BY <1>9, <3>1, <3>2 DEF cs, e
  <2>2. CASE q.kind # "erasure"
    <3> DEFINE input == CopyOf(e.template, e.template.input)
               output == CopyOf(e.template, e.template.output)
               contents == Copied(e.template)
               c == To(input, q)
               d == Join(output, p.wires[1])
    <3>1. contents \in ConnectsOver(n, OwnWires) /\ input \in OwnWires /\ output \in OwnWires
      BY <1>2, <1>12 DEF LinearExpansion
    <3>2. cs = contents \o <<c, d>>
      BY <1>12, <2>2 DEF Expand, Materialize
    <3> HIDE DEF input, output, contents, cs
    <3>3. contents \in ConnectsOver(n, W) /\ Obeys(contents, x)
      BY <1>11, <3>1
    <3>4. <<c>> \in ConnectsOver(n, W) /\ Obeys(<<c>>, x)
      BY <1>8, <3>1
    <3>5. <<d>> \in ConnectsOver(n, W) /\ Obeys(<<d>>, x)
      BY <1>5, <1>10, <3>1
    <3> HIDE DEF c, d
    <3>6. <<c, d>> = <<c>> \o <<d>>
      BY JoinTwo
    <3>7. <<c>> \o <<d>> \in ConnectsOver(n, W) /\ Obeys(<<c>> \o <<d>>, x)
      BY <3>4, <3>5, ObeysConcat
    <3> DEFINE ds == <<c, d>>
    <3>8. ds \in ConnectsOver(n, W) /\ Obeys(ds, x)
      BY <3>6, <3>7
    <3> HIDE DEF ds
    <3>9. Obeys(contents \o ds, x)
      BY <3>3, <3>8, ObeysConcat
    <3> QED
      BY <3>2, <3>9 DEF cs, e, ds
  <2> QED
    BY <2>1, <2>2
<1>13. CASE e.does = "or"
  <2> DEFINE rest == IF q.kind = "erasure" THEN <<Join(Second, Result)>>
                     ELSE <<Annihilate(Second), To(Result, q)>>
  <2>1. cs = open \o rest
    BY <1>13 DEF Expand, SerialOrOf, open
  <2>2. rest \in ConnectsOver(n, W) /\ Obeys(rest, x)
    <3>1. CASE q.kind = "erasure"
      BY <1>5, <1>7, <1>10, <3>1
    <3>2. CASE q.kind # "erasure"
      <4> DEFINE c == Annihilate(Second)
                 d == To(Result, q)
      <4>1. <<c>> \in ConnectsOver(n, W) /\ Obeys(<<c>>, x)
        BY <1>7, <1>8, ObeysWithout DEF U
      <4>2. <<d>> \in ConnectsOver(n, W) /\ Obeys(<<d>>, x)
        BY <1>7, <1>8
      <4>3. rest = <<c, d>>
        BY <3>2
      <4> HIDE DEF c, d, rest
      <4>4. <<c, d>> = <<c>> \o <<d>>
        BY JoinTwo
      <4>5. <<c>> \o <<d>> \in ConnectsOver(n, W) /\ Obeys(<<c>> \o <<d>>, x)
        BY <4>1, <4>2, ObeysConcat
      <4> QED
        BY <4>3, <4>4, <4>5
    <3> QED
      BY <3>1, <3>2
  <2> HIDE DEF rest, cs
  <2>3. Obeys(open \o rest, x)
    BY <1>7, <2>2, ObeysConcat
  <2> QED
    BY <2>1, <2>3 DEF cs, e
<1>14. CASE e.does = "and"
  <2>1. CASE q.kind = "erasure"
    <3>1. cs = <<Annihilate(p.wires[1])>>
      BY <1>14, <2>1 DEF Expand, SerialAndOf
    <3> HIDE DEF cs
    <3> QED
      BY <1>9, <3>1 DEF cs, e
  <2>2. CASE q.kind # "erasure"
    <3> DEFINE chain == Chain(Result, <<New(0, 4), Second>>, New(0, 5))
               c == To(New(0, 4), q)
               ds == open \o chain
    <3>1. cs = ds \o <<c>>
      BY <1>14, <2>2 DEF Expand, SerialAndOf, open
    <3>2. chain \in ConnectsOver(n, OwnWires)
      BY AndChain
    <3>3. New(0, 4) \in OwnWires
      BY DEF New, OwnWires
    <3>4. <<c>> \in ConnectsOver(n, W) /\ Obeys(<<c>>, x)
      BY <1>8, <3>3
    <3> HIDE DEF chain, c, cs
    <3>5. chain \in ConnectsOver(n, W) /\ Obeys(chain, x)
      BY <1>11, <3>2
    <3>6. ds \in ConnectsOver(n, W) /\ Obeys(ds, x)
      BY <1>7, <3>5, ObeysConcat
    <3> HIDE DEF ds
    <3>7. Obeys(ds \o <<c>>, x)
      BY <3>4, <3>6, ObeysConcat
    <3> QED
      BY <3>1, <3>7 DEF cs, e
  <2> QED
    BY <2>1, <2>2
<1>15. CASE e.does = "contingent"
  <2> DEFINE closing == e.closing
             c == To(Result, q)
             ds == open \o closing
  <2>1. cs = ds \o <<c>>
    BY <1>15 DEF Expand, CloseAfterContingentOf, open
  <2>2. closing \in ConnectsOver(n, OwnWires)
    BY <1>2, <1>15 DEF LinearExpansion
  <2>3. <<c>> \in ConnectsOver(n, W) /\ Obeys(<<c>>, x)
    BY <1>7, <1>8
  <2> HIDE DEF closing, c, cs
  <2>4. closing \in ConnectsOver(n, W) /\ Obeys(closing, x)
    BY <1>11, <2>2
  <2>5. ds \in ConnectsOver(n, W) /\ Obeys(ds, x)
    BY <1>7, <2>4, ObeysConcat
  <2> HIDE DEF ds
  <2>6. Obeys(ds \o <<c>>, x)
    BY <2>3, <2>5, ObeysConcat
  <2> QED
    BY <2>1, <2>6 DEF cs, e
<1>16. CASE e.does = "if"
  <2>1. CASE q.kind # "value"
    <3> DEFINE c == Annihilate(p.wires[1])
               ds == Annihilations(q)
    <3>1. cs = <<c>> \o ds
      BY <1>16, <2>1 DEF Expand, IfThenElseOf
    <3>2. ds \in ConnectsOver(n, W) /\ Obeys(ds, x)
      BY <1>6, AnnihilationsObey
    <3>3. <<c>> \in ConnectsOver(n, W) /\ Obeys(<<c>>, x)
      BY <1>9
    <3> HIDE DEF c, ds, cs
    <3>4. Obeys(<<c>> \o ds, x)
      BY <3>2, <3>3, ObeysConcat
    <3> QED
      BY <3>1, <3>4 DEF cs, e
  <2>2. CASE q.kind = "value"
    <3> DEFINE f == IF Truthy(q.value) THEN e.first ELSE e.second
               g == Graft(f, <<Result>>)
               c == To(Second, g)
    <3>1. cs = open \o <<c>>
      BY <1>16, <2>2 DEF Expand, IfThenElseOf, open
    <3>2. f \in STRING \cap DOMAIN n.expansions /\ n.expansions[f].does # "catch"
      <4>1. f \in DOMAIN Uncaught(n).expansions
        BY <1>2, <1>16 DEF LinearExpansion
      <4>2. DOMAIN n.expansions \subseteq STRING
        BY DEF Expandable
      <4> HIDE DEF f
      <4> QED
        BY <1>2, <4>1, <4>2 DEF Uncaught
    <3> HIDE DEF f, cs
    <3>3. g \in PortsOver(n, OwnWires)
      BY <1>7, <3>2, PortsMade
    <3> HIDE DEF g
    <3>4. c \in OneOver(n, OwnWires)
      BY <1>7, <3>3, ConnectMade
    <3> HIDE DEF c
    <3>5. <<c>> \in ConnectsOver(n, OwnWires)
      BY <3>4, CountSingle
    <3>6. <<c>> \in ConnectsOver(n, W) /\ Obeys(<<c>>, x)
      BY <1>11, <3>5
    <3>7. Obeys(open \o <<c>>, x)
      BY <1>7, <3>6, ObeysConcat
    <3> QED
      BY <3>1, <3>7 DEF cs, e, c, g, f
  <2> QED
    BY <2>1, <2>2
<1> QED
  BY <1>2, <1>12, <1>13, <1>14, <1>15, <1>16 DEF e

(* A merge keeps its result, a port that is none has no wire there. *)
LEMMA NotResult ==
    ASSUME NEW n, NEW W, NEW p \in PortsOver(n, W), NEW x, ResultOnly(p, x)
    PROVE  /\ p.kind # "merge" => Weight(p, x) = 0
           /\ Len(p.wires) >= 1 => p.wires[1] # x
<1>1. p.wires \in Seq(W) /\ Len(p.wires) \in {0, 1, 2}
  BY PortTyped
<1>2. DOMAIN p.wires = 1..Len(p.wires)
  BY <1>1, LenProperties
<1>3. Len(p.wires) >= 1 => p.wires[1] # x
  <2>1. 1 \in DOMAIN p.wires /\ p.wires[1] = x => 1 = 2
    BY DEF ResultOnly
  <2> QED
    BY <1>1, <1>2, <2>1
<1>4. p.kind # "merge" /\ Len(p.wires) = 2 => p.wires[2] # x
  <2>1. 2 \in DOMAIN p.wires /\ p.wires[2] = x => p.kind = "merge"
    BY DEF ResultOnly
  <2> QED
    BY <1>1, <1>2, <2>1
<1> QED
  BY <1>1, <1>3, <1>4 DEF Weight, Is

LEMMA MergeObeys ==
    ASSUME NEW n, NEW a \in Nat, NEW p \in PortsOver(n, 1..a), NEW q \in PortsOver(n, 1..a),
           p.kind = "merge", q.kind = "value", NEW x \in 1..a, ResultOnly(p, x)
    PROVE  Obeys(Merge(p, q), x)
<1>1. Len(p.wires) = 2 /\ p.wires[1] \in 1..a /\ p.wires[2] \in 1..a
  <2>1. Len(p.wires) = 2
    BY PortSize DEF Arity
  <2> QED
    BY <2>1, PortTyped
<1>2. p.wires[1] # x
  BY <1>1, NotResult
<1>3. /\ Erasure.kind = "erasure" /\ Erasure.wires = <<>>
      /\ \A s : ValuePort(s).kind = "value" /\ ValuePort(s).wires = <<>>
  BY DEF Erasure, ValuePort, Port
<1>4. q.wires = <<>>
  <2>1. Len(q.wires) = 0
    BY PortSize DEF Arity
  <2> QED
    BY <2>1, PortTyped, EmptySeq
<1>5. ASSUME NEW c, NEW d,
             ResultOnly(c.port, x), c.wire = x => c.port.kind \in {"value", "erasure"},
             ResultOnly(d.port, x), d.wire = x => d.port.kind \in {"value", "erasure"}
      PROVE  Obeys(<<c, d>>, x)
  BY <1>5 DEF Obeys
<1>6. ASSUME NEW o, o.wires = <<>> PROVE ResultOnly(o, x)
  BY <1>6 DEF ResultOnly
<1>7. CASE OperandReady(p)
  <2> DEFINE v == Merged(p, q)
             c == To(p.wires[1], Erasure)
             d == To(p.wires[2], v)
  <2>1. Merge(p, q) = <<c, d>>
    BY <1>7 DEF Merge
  <2>2. v.kind \in {"value", "erasure"} /\ v.wires = <<>>
    BY <1>3 DEF Merged
  <2> HIDE DEF v
  <2>3. /\ c.port = Erasure /\ d.port = v
    BY DEF To
  <2> HIDE DEF c, d
  <2>4. Obeys(<<c, d>>, x)
    BY <1>3, <1>5, <1>6, <2>2, <2>3
  <2> QED
    BY <2>1, <2>4
<1>8. CASE ~OperandReady(p)
  <2> DEFINE m == MergePort(p.label, ~p.swapped, fresh(1), p.wires[2])
             c == To(fresh(1), q)
             d == To(p.wires[1], m)
  <2>1. Merge(p, q) = <<c, d>>
    BY <1>8 DEF Merge
  <2>2. fresh(1) = -1
    BY DEF fresh, New
  <2>3. m.kind = "merge" /\ m.wires = <<-1, p.wires[2]>>
    BY <2>2 DEF MergePort, Port
  <2> HIDE DEF m
  <2>4. ResultOnly(m, x)
    BY <2>3 DEF ResultOnly
  <2>5. /\ c.port = q /\ d.port = m /\ c.wire = -1 /\ d.wire = p.wires[1]
    BY <2>2 DEF To
  <2> HIDE DEF c, d
  <2>6. Obeys(<<c, d>>, x)
    BY <1>2, <1>4, <1>5, <1>6, <2>4, <2>5
  <2> QED
    BY <2>1, <2>6
<1> QED
  BY <1>7, <1>8

LEMMA OtherObeys ==
    ASSUME NEW n, Expandable(n), \A e \in DOMAIN n.expansions : n.expansions[e] = net.expansions[e],
           allocated \in Nat, allocated <= MaxWires,
           target \in [Wires -> PortsOver(net, 1..allocated) \cup {NoPort}],
           NEW l \in PortsOver(n, 1..allocated), NEW r \in PortsOver(n, 1..allocated),
           Legal(l, r), NEW x \in 1..allocated, ResultOnly(l, x), ResultOnly(r, x)
    PROVE  Obeys(Interaction(l, r), x)
<1> DEFINE K == Kinds(l, r)
           cs == Interaction(l, r)
           V == 1..allocated
           W == V \cup OwnWires
<1>1. cs \in ConnectsOver(n, W)
  BY OtherConserves DEF Conserves
<1>2. V \cap OwnWires = {}
  BY DEF OwnWires
<1>3. CASE "wire" \in K
  <2> DEFINE p == PortOf("wire", l, r)
             q == PartnerOf("wire", l, r)
  <2>1. cs = <<To(p.wires[1], q)>>
    BY <1>3 DEF Interaction, BothCombs, Kinds
  <2>2. p \in {l, r} /\ q \in {l, r} /\ p.kind = "wire"
    BY <1>3, PortAndPartner
  <2> HIDE DEF p, q, cs, V
  <2>3. p \in PortsOver(n, V) /\ q \in PortsOver(n, V) /\ ResultOnly(p, x) /\ ResultOnly(q, x)
    BY <2>2 DEF V
  <2>4. Len(p.wires) = 1
    BY <2>2, <2>3, PortSize DEF Arity
  <2>5. p.wires[1] \in V /\ p.wires[1] # x
    <3>1. p.wires[1] \in V
      BY <2>3, <2>4, PortTyped
    <3>2. p.wires[1] # x
      BY <2>3, <2>4, NotResult
    <3> QED
      BY <3>1, <3>2
  <2>6. Obeys(<<To(p.wires[1], q)>>, x)
    BY <2>3, <2>5, ObeysOne
  <2> QED
    BY <2>1, <2>6 DEF cs
<1>4. CASE "wire" \notin K /\ "graft" \in K
  <2> DEFINE p == PortOf("graft", l, r)
             q == PartnerOf("graft", l, r)
  <2>1. p \in {l, r} /\ q \in {l, r} /\ p.kind = "graft"
    BY <1>4, PortAndPartner
  <2>2. cs = Expand(n.expansions[p.label], copied, q, p.wires)
    <3>1. cs = Expand(net.expansions[p.label], copied, q, p.wires)
      BY <1>4 DEF Interaction, Executes, BothCombs, Kinds
    <3>2. p.label \in DOMAIN n.expansions
      BY <2>1 DEF PortsOver
    <3> QED
      BY <3>1, <3>2
  <2> HIDE DEF p, q, cs, V
  <2>3. p \in PortsOver(n, V) /\ q \in PortsOver(n, V) /\ ResultOnly(p, x) /\ ResultOnly(q, x) /\ x \in V
    BY <2>1 DEF V
  <2>4. Len(p.wires) = 1
    <3>1. p.label \in DOMAIN n.expansions
      BY <2>1, <2>3 DEF PortsOver
    <3>2. n.expansions[p.label].does # "catch"
      BY <3>1 DEF Expandable
    <3> QED
      BY <2>1, <2>3, <3>2, PortSize
  <2>5. p.wires[1] # x
    BY <2>3, <2>4, NotResult
  <2>6. Obeys(Expand(n.expansions[p.label], copied, q, p.wires), x)
    BY <1>2, <2>1, <2>3, <2>5, GraftObeys
  <2> QED
    BY <2>2, <2>6 DEF cs
<1>5. CASE K \cap {"wire", "graft"} = {} /\ "erasure" \in K
  <2>1. cs = Annihilations(l) \o Annihilations(r)
    BY <1>5 DEF Interaction, BothCombs, Kinds, Erase
  <2>2. /\ Annihilations(l) \in ConnectsOver(n, V) /\ Obeys(Annihilations(l), x)
        /\ Annihilations(r) \in ConnectsOver(n, V) /\ Obeys(Annihilations(r), x)
    BY AnnihilationsObey
  <2> HIDE DEF cs, V
  <2>3. Obeys(Annihilations(l) \o Annihilations(r), x)
    BY <2>2, ObeysConcat
  <2> QED
    BY <2>1, <2>3 DEF cs
<1>6. CASE K = {"merge", "value"}
  <2> DEFINE p == PartnerOf("value", l, r)
             q == PortOf("value", l, r)
  <2>1. cs = Merge(p, q)
    BY <1>6 DEF Interaction, BothCombs
  <2>2. p \in {l, r} /\ q \in {l, r} /\ q.kind = "value" /\ p.kind = "merge"
    BY <1>6 DEF PortOf, PartnerOf, Kinds
  <2> HIDE DEF p, q, cs
  <2>3. Obeys(Merge(p, q), x)
    BY <2>2, MergeObeys
  <2> QED
    BY <2>1, <2>3 DEF cs
<1>7. CASE "merge" \notin K
  <2>1. l.kind # "merge" /\ r.kind # "merge"
    BY <1>7 DEF Kinds
  <2>2. Weight(l, x) = 0 /\ Weight(r, x) = 0
    BY <2>1, NotResult
  <2> HIDE DEF cs
  <2>3. Conserves(n, allocated, cs, l, r) /\ caller \in Threads
    BY OtherConserves DEF cs, Threads
  <2>4. Count(EndsIn(caller, cs), x) = Weight(l, x) + Weight(r, x)
    BY <2>3 DEF Conserves
  <2>5. Count(EndsIn(caller, cs), x) = 0
    BY <2>2, <2>4
  <2> HIDE DEF W
  <2>6. x \notin WiresOf(cs)
    BY <1>1, <2>5, CountUsed
  <2> QED
    BY <1>1, <2>6, ObeysOver DEF cs
<1> QED
  <2>1. \/ "wire" \in K
        \/ "wire" \notin K /\ "graft" \in K
        \/ K \cap {"wire", "graft"} = {} /\ "erasure" \in K
        \/ K = {"merge", "value"}
        \/ "merge" \notin K
    BY DEF Legal, BothCombs
  <2> QED
    BY <1>3, <1>4, <1>5, <1>6, <1>7, <2>1

(* What an interaction connects to a wire that waits for a result. *)
LEMMA InteractionObeys ==
    ASSUME Deterministic(net), LinearNet(net), allocated \in Nat, allocated <= MaxWires,
           target \in [Wires -> PortsOver(net, 1..allocated) \cup {NoPort}],
           NEW l \in PortsOver(net, 1..allocated), NEW r \in PortsOver(net, 1..allocated),
           Legal(l, r),
           Catches(net, l) \/ Catches(net, r) => Caught(net, l) /\ Caught(net, r),
           NEW x \in 1..allocated, ResultOnly(l, x), ResultOnly(r, x)
    PROVE  Obeys(Interaction(l, r), x)
<1> DEFINE m == Uncaught(net)
<1>1. CASE Catches(net, l) \/ Catches(net, r)
  <2>1. Interaction(l, r) = <<>>
    BY <1>1, InteractionConserves
  <2>2. Obeys(<<>>, x)
    BY DEF Obeys
  <2> QED
    BY <2>1, <2>2
<1>2. CASE ~Catches(net, l) /\ ~Catches(net, r)
  <2>1. l \in PortsOver(m, 1..allocated) /\ r \in PortsOver(m, 1..allocated)
    BY <1>2, UncaughtPorts
  <2>2. Expandable(m)
    BY UncaughtExpands
  <2>3. \A e \in DOMAIN m.expansions : m.expansions[e] = net.expansions[e]
    BY DEF Uncaught
  <2> HIDE DEF m
  <2> QED
    BY <2>1, <2>2, <2>3, OtherObeys
<1> QED
  BY <1>1, <1>2

-----------------------------------------------------------------------------
(* What is renamed stays where it is, and keeps the names it had apart. *)
NamesIn(cs, name) == [w \in WiresOf(cs) |-> IF w \in Fresh(cs) THEN name[w] ELSE w]

NamedApart(cs, ds, R, a, b) ==
    /\ DOMAIN cs = 1..Len(cs) /\ DOMAIN ds = 1..Len(cs)
    /\ \A i \in 1..Len(cs) :
         /\ cs[i].wire \in WiresOf(cs)
         /\ \A j \in DOMAIN cs[i].port.wires : cs[i].port.wires[j] \in WiresOf(cs)
         /\ ds[i].wire = R[cs[i].wire]
         /\ ds[i].port.kind = cs[i].port.kind /\ ds[i].port.label = cs[i].port.label
         /\ ds[i].port.wires = [j \in DOMAIN cs[i].port.wires |-> R[cs[i].port.wires[j]]]
    /\ \A v, w \in WiresOf(cs) : R[v] = R[w] => v = w
    /\ \A w \in WiresOf(cs) : /\ w < 0 => R[w] \in (a + 1)..b
                              /\ ~(w < 0) => R[w] = w /\ w \in 1..a

LEMMA RenamedParts ==
    ASSUME NEW n, NEW a \in Nat, NEW b \in Nat, a <= b,
           NEW cs \in ConnectsOver(n, (1..a) \cup OwnWires),
           NEW name \in Bijection(Fresh(cs), (a + 1)..b)
    PROVE  NamedApart(cs, Renamed(cs, name), NamesIn(cs, name), a, b)
<1> DEFINE W == (1..a) \cup OwnWires
           F == Fresh(cs)
           R == NamesIn(cs, name)
           ds == Renamed(cs, name)
           port(p) == [p EXCEPT !.wires = [j \in DOMAIN p.wires |-> R[p.wires[j]]]]
<1>1. /\ Len(cs) \in Nat /\ DOMAIN cs = 1..Len(cs)
      /\ \A i \in 1..Len(cs) : cs[i].wire \in W /\ cs[i].port \in PortsOver(n, W)
  BY MembersTyped
<1>2. /\ DOMAIN name = F /\ \A w \in F : name[w] \in (a + 1)..b
      /\ \A v, w \in F : name[v] = name[w] => v = w
  BY DEF Bijection, Injection, IsInjective
<1>3. \A w \in WiresOf(cs) : w \in W /\ (w \in F <=> w < 0)
  BY WiresNamed DEF Fresh
<1>4. \A w \in WiresOf(cs) : /\ w < 0 => R[w] \in (a + 1)..b
                             /\ ~(w < 0) => R[w] = w /\ w \in 1..a
  BY <1>2, <1>3 DEF OwnWires, NamesIn
<1>5. \A v, w \in WiresOf(cs) : R[v] = R[w] => v = w
  BY <1>2, <1>3, <1>4 DEF NamesIn
<1>6. \A i \in 1..Len(cs) : /\ cs[i].wire \in WiresOf(cs)
                            /\ \A j \in DOMAIN cs[i].port.wires : cs[i].port.wires[j] \in WiresOf(cs)
  BY <1>1 DEF WiresOf, ToSet
<1>7. /\ DOMAIN ds = 1..Len(cs)
      /\ \A i \in 1..Len(cs) : ds[i] = To(R[cs[i].wire], port(cs[i].port))
  <2> SUFFICES ASSUME NEW i \in 1..Len(cs)
               PROVE  ds[i] = To(R[cs[i].wire], port(cs[i].port))
    BY <1>1 DEF Renamed
  <2>1. \A w \in WiresOf(cs) : R[w] = IF w \in DOMAIN name THEN name[w] ELSE w
    BY <1>2 DEF NamesIn
  <2>2. ds[i] = To(IF cs[i].wire \in DOMAIN name THEN name[cs[i].wire] ELSE cs[i].wire,
                   RenamedPort(cs[i].port, name))
    BY <1>1 DEF Renamed
  <2> HIDE DEF R, ds
  <2>3. R[cs[i].wire] = IF cs[i].wire \in DOMAIN name THEN name[cs[i].wire] ELSE cs[i].wire
    BY <1>6, <2>1
  <2>4. [j \in DOMAIN cs[i].port.wires |-> R[cs[i].port.wires[j]]]
          = [j \in DOMAIN cs[i].port.wires |->
               IF cs[i].port.wires[j] \in DOMAIN name THEN name[cs[i].port.wires[j]] ELSE cs[i].port.wires[j]]
    BY <1>6, <2>1
  <2>5. RenamedPort(cs[i].port, name) = port(cs[i].port)
    BY <2>4 DEF RenamedPort
  <2> QED
    BY <2>2, <2>3, <2>5
<1> HIDE DEF R, W, F, ds
<1>8. \A i \in 1..Len(cs) :
        /\ port(cs[i].port).kind = cs[i].port.kind /\ port(cs[i].port).label = cs[i].port.label
        /\ port(cs[i].port).wires = [j \in DOMAIN cs[i].port.wires |-> R[cs[i].port.wires[j]]]
  <2> TAKE i \in 1..Len(cs)
  <2>1. PICK p \in PortsOver(n, W) : p = cs[i].port
    BY <1>1
  <2>2. /\ port(p).wires = [j \in DOMAIN p.wires |-> R[p.wires[j]]]
        /\ port(p).kind = p.kind /\ port(p).label = p.label
    BY DEF PortsOver
  <2> QED
    BY <2>1, <2>2
<1> HIDE DEF port
<1>9. \A i \in 1..Len(cs) : ds[i].wire = R[cs[i].wire] /\ ds[i].port = port(cs[i].port)
  BY <1>7 DEF To
<1>10. ASSUME NEW i \in 1..Len(cs)
       PROVE  /\ ds[i].wire = R[cs[i].wire]
              /\ ds[i].port.kind = cs[i].port.kind /\ ds[i].port.label = cs[i].port.label
              /\ ds[i].port.wires = [j \in DOMAIN cs[i].port.wires |-> R[cs[i].port.wires[j]]]
  BY <1>8, <1>9
<1> QED
  BY <1>1, <1>4, <1>5, <1>6, <1>7, <1>10 DEF ds, R, NamedApart

LEMMA RenamedObeys ==
    ASSUME NEW cs, NEW ds, NEW R, NEW a \in Nat, NEW b, NamedApart(cs, ds, R, a, b),
           NEW x \in 1..a, Obeys(cs, x)
    PROVE  Obeys(ds, x)
<1> SUFFICES ASSUME NEW i \in 1..Len(cs)
             PROVE  ResultOnly(ds[i].port, x) /\ (ds[i].wire = x => ds[i].port.kind \in {"value", "erasure"})
  BY DEF Obeys, NamedApart
<1>1. ASSUME NEW w \in WiresOf(cs), R[w] = x PROVE w = x
  <2>1. /\ w < 0 => R[w] \in (a + 1)..b
        /\ ~(w < 0) => R[w] = w
    BY Zenon DEF NamedApart
  <2>2. x \notin (a + 1)..b
    OBVIOUS
  <2> QED
    BY <1>1, <2>1, <2>2, Zenon
<1>2. ResultOnly(cs[i].port, x) /\ (cs[i].wire = x => cs[i].port.kind \in {"value", "erasure"})
  BY DEF Obeys, NamedApart
<1>3. /\ cs[i].wire \in WiresOf(cs)
      /\ \A j \in DOMAIN cs[i].port.wires : cs[i].port.wires[j] \in WiresOf(cs)
      /\ ds[i].wire = R[cs[i].wire] /\ ds[i].port.kind = cs[i].port.kind
      /\ ds[i].port.wires = [j \in DOMAIN cs[i].port.wires |-> R[cs[i].port.wires[j]]]
  BY DEF NamedApart
<1>4. ResultOnly(ds[i].port, x)
  <2> SUFFICES ASSUME NEW j \in DOMAIN ds[i].port.wires, ds[i].port.wires[j] = x
               PROVE  ds[i].port.kind = "merge" /\ j = 2
    BY DEF ResultOnly
  <2>1. j \in DOMAIN cs[i].port.wires /\ cs[i].port.wires[j] = x
    BY <1>1, <1>3
  <2> QED
    BY <1>2, <1>3, <2>1 DEF ResultOnly
<1> QED
  BY <1>1, <1>2, <1>3, <1>4

LEMMA RenamedCatches ==
    ASSUME NEW n, NEW cs, NEW ds, NEW R, NEW a, NEW b, NamedApart(cs, ds, R, a, b),
           CatchesResults(n, cs)
    PROVE  CatchesResults(n, ds)
<1> SUFFICES ASSUME NEW i \in 1..Len(cs), NEW k \in 1..Len(cs), Catches(n, ds[i].port)
             PROVE  /\ ResultOnly(ds[k].port, ds[i].wire)
                    /\ ds[k].wire = ds[i].wire => Caught(n, ds[k].port)
  BY DEF CatchesResults, NamedApart
<1>1. \A m \in 1..Len(cs) :
         /\ cs[m].wire \in WiresOf(cs) /\ ds[m].wire = R[cs[m].wire]
         /\ ds[m].port.kind = cs[m].port.kind /\ ds[m].port.label = cs[m].port.label
  BY DEF NamedApart
<1>2. /\ DOMAIN cs = 1..Len(cs)
      /\ \A j \in DOMAIN cs[k].port.wires : cs[k].port.wires[j] \in WiresOf(cs)
      /\ ds[k].port.wires = [j \in DOMAIN cs[k].port.wires |-> R[cs[k].port.wires[j]]]
      /\ \A v, w \in WiresOf(cs) : R[v] = R[w] => v = w
  BY DEF NamedApart
<1>3. Catches(n, cs[i].port) /\ (Caught(n, ds[k].port) <=> Caught(n, cs[k].port))
  BY <1>1 DEF Catches, Caught
<1>4. /\ ResultOnly(cs[k].port, cs[i].wire)
      /\ cs[k].wire = cs[i].wire => Caught(n, cs[k].port)
  BY <1>2, <1>3 DEF CatchesResults
<1>5. ResultOnly(ds[k].port, ds[i].wire)
  <2> SUFFICES ASSUME NEW j \in DOMAIN ds[k].port.wires, ds[k].port.wires[j] = ds[i].wire
               PROVE  ds[k].port.kind = "merge" /\ j = 2
    BY DEF ResultOnly
  <2>1. j \in DOMAIN cs[k].port.wires /\ cs[k].port.wires[j] = cs[i].wire
    BY <1>1, <1>2
  <2> QED
    BY <1>1, <1>4, <2>1 DEF ResultOnly
<1> QED
  BY <1>1, <1>2, <1>3, <1>4, <1>5

-----------------------------------------------------------------------------
(* The ends of a state: what one port, pair or connect adds to them.       *)
EndsWaiting(S, ports) == UNION {Ends(w, ports[w]) : w \in S}

CopiesOf(bag) == UNION {{pair} \X (1..bag[pair]) : pair \in BagToSet(bag)}

EndsOfCopies(C) ==
    UNION {Ends(<<copy, 1>>, copy[1][1]) \cup Ends(<<copy, 2>>, copy[1][2]) : copy \in C}

EndsPending(T, connects) == UNION {EndsIn(t, connects[t]) : t \in T}

LEMMA EndsHeld ==
    ASSUME NEW h, NEW p, NEW e \in Ends(h, p)
    PROVE  e.holder = h /\ \E i \in DOMAIN p.wires : e.wire = p.wires[i]
BY DEF Ends

LEMMA WaiterAdded ==
    ASSUME NEW n, NEW W, NEW p \in PortsOver(n, W), NEW S, NEW R, NEW w, w \notin S, R = S \cup {w},
           NEW f, NEW g, \A v \in S : g[v] = f[v], p = g[w], NEW x, IsFiniteSet(At(EndsWaiting(S, f), x))
    PROVE  /\ IsFiniteSet(At(EndsWaiting(R, g), x))
           /\ Count(EndsWaiting(R, g), x) = Count(EndsWaiting(S, f), x) + Weight(p, x)
<1> DEFINE A == EndsWaiting(S, f)
           B == Ends(w, p)
<1>1. EndsWaiting(R, g) = A \cup B
  BY DEF EndsWaiting
<1>2. A \cap B = {}
  <2> SUFFICES ASSUME NEW e \in A, e \in B PROVE FALSE
    OBVIOUS
  <2>1. PICK v \in S : e \in Ends(v, f[v])
    BY DEF EndsWaiting
  <2>2. e.holder = v /\ e.holder = w
    BY <2>1, EndsHeld
  <2> QED
    BY <2>2
<1>5. IsFiniteSet(At(B, x)) /\ Count(B, x) = Weight(p, x)
  BY CountPort
<1> HIDE DEF A, B
<1>6. IsFiniteSet(At(A \cup B, x)) /\ Count(A \cup B, x) = Count(A, x) + Count(B, x)
  <2>1. IsFiniteSet(At(A, x))
    BY DEF A
  <2> QED
    BY <1>2, <1>5, <2>1, CountUnion
<1> QED
  BY <1>1, <1>5, <1>6 DEF A

LEMMA CopyAdded ==
    ASSUME NEW n, NEW W, NEW p \in PortsOver(n, W), NEW q \in PortsOver(n, W),
           NEW C, NEW D, NEW c, c \notin C, D = C \cup {c}, p = c[1][1], q = c[1][2],
           NEW x, IsFiniteSet(At(EndsOfCopies(C), x))
    PROVE  /\ IsFiniteSet(At(EndsOfCopies(D), x))
           /\ Count(EndsOfCopies(D), x) = Count(EndsOfCopies(C), x) + Weight(p, x) + Weight(q, x)
<1>1. p = c[1][1] /\ q = c[1][2]
  OBVIOUS
<1> DEFINE A == EndsOfCopies(C)
           P == Ends(<<c, 1>>, p)
           Q == Ends(<<c, 2>>, q)
<1>2. EndsOfCopies(D) = (A \cup P) \cup Q
  <2>1. ASSUME NEW E, NEW e
        PROVE  e \in EndsOfCopies(E) <=>
                 \E copy \in E :
                    e \in Ends(<<copy, 1>>, copy[1][1]) \/ e \in Ends(<<copy, 2>>, copy[1][2])
    BY DEF EndsOfCopies
  <2> HIDE DEF A
  <2>2. \A copy : copy \in D <=> copy \in C \/ copy = c
    OBVIOUS
  <2>3. ASSUME NEW e PROVE e \in EndsOfCopies(D) <=> e \in (A \cup P) \cup Q
    <3>1. e \in EndsOfCopies(D) <=>
            \E copy \in D : e \in Ends(<<copy, 1>>, copy[1][1]) \/ e \in Ends(<<copy, 2>>, copy[1][2])
      BY <2>1
    <3>2. e \in EndsOfCopies(C) <=>
            \E copy \in C : e \in Ends(<<copy, 1>>, copy[1][1]) \/ e \in Ends(<<copy, 2>>, copy[1][2])
      BY <2>1
    <3>3. e \in EndsOfCopies(D) <=>
            e \in EndsOfCopies(C) \/ e \in Ends(<<c, 1>>, c[1][1]) \/ e \in Ends(<<c, 2>>, c[1][2])
      BY <2>2, <3>1, <3>2, Zenon
    <3>4. e \in EndsOfCopies(D) <=> e \in EndsOfCopies(C) \/ e \in P \/ e \in Q
      BY <1>1, <3>3, Zenon
    <3> QED
      BY <3>4 DEF A
  <2> QED
    BY <2>3, Zenon
<1>3. A \cap P = {} /\ A \cap Q = {}
  <2> SUFFICES ASSUME NEW e \in A, e \in P \/ e \in Q PROVE FALSE
    OBVIOUS
  <2>1. PICK copy \in C :
            e \in Ends(<<copy, 1>>, copy[1][1]) \/ e \in Ends(<<copy, 2>>, copy[1][2])
    BY DEF EndsOfCopies
  <2>2. e.holder \in {<<copy, 1>>, <<copy, 2>>} /\ e.holder \in {<<c, 1>>, <<c, 2>>}
    BY <2>1, EndsHeld
  <2> QED
    BY <2>2
<1>4. P \cap Q = {}
  <2> SUFFICES ASSUME NEW e \in P, e \in Q PROVE FALSE
    OBVIOUS
  <2>1. e.holder = <<c, 1>> /\ e.holder = <<c, 2>>
    BY EndsHeld
  <2> QED
    BY <2>1
<1>5. /\ IsFiniteSet(At(P, x)) /\ Count(P, x) = Weight(p, x)
      /\ IsFiniteSet(At(Q, x)) /\ Count(Q, x) = Weight(q, x)
  BY CountPort
<1> HIDE DEF P, Q, A
<1>6. IsFiniteSet(At(A \cup P, x)) /\ Count(A \cup P, x) = Count(A, x) + Count(P, x)
  <2>1. IsFiniteSet(At(A, x))
    BY DEF A
  <2> QED
    BY <1>3, <1>5, <2>1, CountUnion
<1>7. /\ IsFiniteSet(At((A \cup P) \cup Q, x))
      /\ Count((A \cup P) \cup Q, x) = Count(A \cup P, x) + Count(Q, x)
  <2>1. (A \cup P) \cap Q = {}
    BY <1>3, <1>4
  <2> QED
    BY <1>5, <1>6, <2>1, CountUnion
<1>8. /\ IsFiniteSet(At(EndsOfCopies(D), x))
      /\ Count(EndsOfCopies(D), x) = Count(A, x) + Weight(p, x) + Weight(q, x)
  BY <1>2, <1>5, <1>6, <1>7, Zenon
<1> QED
  BY <1>1, <1>8 DEF A

LEMMA PairPushed ==
    ASSUME NEW bag, IsABag(bag), NEW pair
    PROVE  /\ IsABag(bag (+) SetToBag({pair}))
           /\ BagToSet(bag (+) SetToBag({pair})) = BagToSet(bag) \cup {pair}
           /\ \E k : /\ <<pair, k>> \notin CopiesOf(bag)
                     /\ CopiesOf(bag (+) SetToBag({pair})) = CopiesOf(bag) \cup {<<pair, k>>}
<1> DEFINE more == bag (+) SetToBag({pair})
           had == IF pair \in DOMAIN bag THEN bag[pair] ELSE 0
<1>1. bag \in [DOMAIN bag -> {i \in Nat : i > 0}]
  BY DEF IsABag
<1>2. /\ DOMAIN more = DOMAIN bag \cup {pair}
      /\ more[pair] = had + 1
      /\ \A q \in DOMAIN bag : q # pair => more[q] = bag[q]
      /\ more = [q \in DOMAIN more |-> more[q]]
  BY <1>1 DEF SetToBag, (+)
<1>3. had \in Nat
  BY <1>1
<1> HIDE DEF more
<1>4. IsABag(more)
  <2>1. \A q \in DOMAIN more : more[q] \in {i \in Nat : i > 0}
    BY <1>1, <1>2, <1>3
  <2> QED
    BY <1>2, <2>1 DEF IsABag
<1>5. ASSUME NEW c
      PROVE  /\ c \in CopiesOf(more) <=> \E q \in DOMAIN more : \E i \in 1..more[q] : c = <<q, i>>
             /\ c \in CopiesOf(bag) <=> \E q \in DOMAIN bag : \E i \in 1..bag[q] : c = <<q, i>>
  BY DEF CopiesOf, BagToSet
<1>6. <<pair, had + 1>> \notin CopiesOf(bag)
  <2> SUFFICES ASSUME NEW q \in DOMAIN bag, NEW i \in 1..bag[q], <<pair, had + 1>> = <<q, i>>
               PROVE FALSE
    BY <1>5
  <2>1. q = pair /\ i = had + 1
    OBVIOUS
  <2>2. had = bag[q]
    BY <2>1
  <2> QED
    BY <1>3, <2>1, <2>2
<1>7. ASSUME NEW c PROVE c \in CopiesOf(more) <=> c \in CopiesOf(bag) \cup {<<pair, had + 1>>}
  <2>1. ASSUME NEW q \in DOMAIN more, NEW i \in 1..more[q], c = <<q, i>>
        PROVE  c \in CopiesOf(bag) \cup {<<pair, had + 1>>}
    <3>1. CASE q # pair
      BY <1>2, <1>5, <2>1, <3>1
    <3>2. CASE q = pair /\ i = had + 1
      BY <2>1, <3>2
    <3>3. CASE q = pair /\ i # had + 1
      <4>1. i \in 1..had /\ had > 0
        BY <1>2, <1>3, <3>3
      <4>2. pair \in DOMAIN bag /\ i \in 1..bag[pair]
        BY <4>1
      <4> QED
        BY <1>5, <2>1, <3>3, <4>2
    <3> QED
      BY <3>1, <3>2, <3>3
  <2>2. ASSUME NEW q \in DOMAIN bag, NEW i \in 1..bag[q], c = <<q, i>>
        PROVE  c \in CopiesOf(more)
    <3>1. bag[q] \in Nat
      BY <1>1
    <3>2. q \in DOMAIN more /\ i \in 1..more[q]
      BY <1>2, <3>1
    <3> QED
      BY <1>5, <2>2, <3>2
  <2>3. <<pair, had + 1>> \in CopiesOf(more)
    <3>1. pair \in DOMAIN more /\ had + 1 \in 1..more[pair]
      BY <1>2, <1>3
    <3> QED
      BY <1>5, <3>1
  <2> QED
    BY <1>5, <2>1, <2>2, <2>3
<1>8. CopiesOf(more) = CopiesOf(bag) \cup {<<pair, had + 1>>}
  BY <1>7
<1> QED
  BY <1>2, <1>4, <1>6, <1>8 DEF more, BagToSet

LEMMA PairTaken ==
    ASSUME NEW bag, IsABag(bag), NEW pair \in BagToSet(bag)
    PROVE  /\ IsABag(bag (-) SetToBag({pair}))
           /\ BagToSet(bag (-) SetToBag({pair})) \subseteq BagToSet(bag)
           /\ \E k : /\ <<pair, k>> \notin CopiesOf(bag (-) SetToBag({pair}))
                     /\ CopiesOf(bag) = CopiesOf(bag (-) SetToBag({pair})) \cup {<<pair, k>>}
<1> DEFINE less == bag (-) SetToBag({pair})
           had == bag[pair]
<1>1. bag \in [DOMAIN bag -> {i \in Nat : i > 0}] /\ pair \in DOMAIN bag
  BY DEF IsABag, BagToSet
<1>2. had \in Nat /\ had > 0
  BY <1>1
<1>3. /\ DOMAIN less = {q \in DOMAIN bag : q # pair \/ had > 1}
      /\ \A q \in DOMAIN less : less[q] = IF q = pair THEN had - 1 ELSE bag[q]
      /\ less = [q \in DOMAIN less |-> less[q]]
  <2> DEFINE B == [e \in DOMAIN bag |-> IF e \in DOMAIN SetToBag({pair})
                                        THEN bag[e] - SetToBag({pair})[e] ELSE bag[e]]
  <2>1. less = [e \in {d \in DOMAIN B : B[d] > 0} |-> B[e]]
    BY DEF (-)
  <2>2. DOMAIN B = DOMAIN bag /\ \A q \in DOMAIN bag : B[q] = IF q = pair THEN had - 1 ELSE bag[q]
    BY DEF SetToBag
  <2> HIDE DEF B, less
  <2>3. {d \in DOMAIN B : B[d] > 0} = {q \in DOMAIN bag : q # pair \/ had > 1}
    BY <1>1, <1>2, <2>2
  <2> QED
    BY <2>1, <2>2, <2>3
<1> HIDE DEF less
<1>4. IsABag(less)
  <2>1. \A q \in DOMAIN less : less[q] \in {i \in Nat : i > 0}
    BY <1>1, <1>2, <1>3
  <2> QED
    BY <1>3, <2>1 DEF IsABag
<1>5. ASSUME NEW c
      PROVE  /\ c \in CopiesOf(less) <=> \E q \in DOMAIN less : \E i \in 1..less[q] : c = <<q, i>>
             /\ c \in CopiesOf(bag) <=> \E q \in DOMAIN bag : \E i \in 1..bag[q] : c = <<q, i>>
  BY DEF CopiesOf, BagToSet
<1>6. <<pair, had>> \notin CopiesOf(less)
  <2> SUFFICES ASSUME NEW q \in DOMAIN less, NEW i \in 1..less[q], <<pair, had>> = <<q, i>>
               PROVE FALSE
    BY <1>5
  <2>1. q = pair /\ i = had
    OBVIOUS
  <2> QED
    BY <1>2, <1>3, <2>1
<1>7. ASSUME NEW c PROVE c \in CopiesOf(bag) <=> c \in CopiesOf(less) \cup {<<pair, had>>}
  <2>1. ASSUME NEW q \in DOMAIN bag, NEW i \in 1..bag[q], c = <<q, i>>
        PROVE  c \in CopiesOf(less) \cup {<<pair, had>>}
    <3>1. CASE q # pair
      BY <1>3, <1>5, <2>1, <3>1
    <3>2. CASE q = pair /\ i = had
      BY <2>1, <3>2
    <3>3. CASE q = pair /\ i # had
      <4>1. i \in 1..(had - 1) /\ had > 1
        BY <1>2, <3>3
      <4>2. pair \in DOMAIN less /\ i \in 1..less[pair]
        BY <1>1, <1>3, <4>1
      <4> QED
        BY <1>5, <2>1, <3>3, <4>2
    <3> QED
      BY <3>1, <3>2, <3>3
  <2>2. ASSUME NEW q \in DOMAIN less, NEW i \in 1..less[q], c = <<q, i>>
        PROVE  c \in CopiesOf(bag)
    <3>1. q \in DOMAIN bag /\ i \in 1..bag[q]
      BY <1>1, <1>2, <1>3
    <3> QED
      BY <1>5, <2>2, <3>1
  <2>3. <<pair, had>> \in CopiesOf(bag)
    <3>1. pair \in DOMAIN bag /\ had \in 1..bag[pair]
      BY <1>1, <1>2
    <3> QED
      BY <1>5, <3>1
  <2> QED
    BY <1>5, <2>1, <2>2, <2>3
<1>8. CopiesOf(bag) = CopiesOf(less) \cup {<<pair, had>>}
  BY <1>7
<1> QED
  BY <1>3, <1>4, <1>6, <1>8 DEF less, BagToSet

LEMMA PendingChanged ==
    ASSUME NEW n, NEW W, NEW V, NEW T, NEW t \in T,
           NEW f, \A u \in T : f[u] \in ConnectsOver(n, W),
           NEW g, \A u \in T : u # t => g[u] = f[u],
           NEW bs, bs = f[t], NEW cs \in ConnectsOver(n, V), cs = g[t],
           NEW x, IsFiniteSet(At(EndsPending(T, f), x))
    PROVE  /\ IsFiniteSet(At(EndsPending(T, g), x))
           /\ Count(EndsPending(T, g), x) \in Nat
           /\ Count(EndsPending(T, g), x) + Count(EndsIn(t, bs), x)
                = Count(EndsPending(T, f), x) + Count(EndsIn(t, cs), x)
<1> DEFINE rest == EndsPending(T \ {t}, f)
           old == EndsIn(t, bs)
           new == EndsIn(t, cs)
<1>1. ASSUME NEW u \in T, NEW v, NEW U, NEW ds \in ConnectsOver(n, U), NEW e \in EndsIn(u, ds)
      PROVE  \E i : e.holder = <<u, i>>
  <2>1. EndsIn(u, ds) = EndsFrom(u, 0, ds)
    BY FromNowhere DEF ConnectsOver
  <2>2. e \in EndsFrom(u, 0, ds)
    BY <2>1
  <2>3. PICK i \in 1..Len(ds), j \in 0..2 :
            e = End(<<u, 0 + Len(ds) - i>>, j, IF j = 0 THEN ds[i].wire ELSE ds[i].port.wires[j])
    BY <2>2, EndMembers
  <2> QED
    BY <2>3 DEF End
<1>2. \A u \in T : f[u] \in ConnectsOver(n, W)
  OBVIOUS
<1>3. EndsPending(T, f) = rest \cup old
  BY DEF EndsPending
<1>4. EndsPending(T, g) = rest \cup new
  <2>1. \A u \in T \ {t} : g[u] = f[u]
    OBVIOUS
  <2>2. g[t] = cs
    OBVIOUS
  <2>3. \A e : e \in EndsPending(T, g) <=> \E u \in T : e \in EndsIn(u, g[u])
    BY DEF EndsPending
  <2>4. \A e : e \in EndsPending(T \ {t}, f) <=> \E u \in T \ {t} : e \in EndsIn(u, f[u])
    BY DEF EndsPending
  <2>5. \A e : e \in EndsPending(T, g) <=> e \in rest \/ e \in new
    <3> TAKE e
    <3>1. ASSUME NEW u \in T, e \in EndsIn(u, g[u]) PROVE e \in rest \/ e \in new
      <4>1. CASE u = t
        BY <2>2, <3>1, <4>1, Zenon
      <4>2. CASE u # t
        BY <2>1, <2>4, <3>1, <4>2, Zenon
      <4> QED
        BY <4>1, <4>2
    <3>2. ASSUME NEW u \in T \ {t}, e \in EndsIn(u, f[u]) PROVE e \in EndsPending(T, g)
      BY <2>1, <2>3, <3>2, Zenon
    <3>3. ASSUME e \in new PROVE e \in EndsPending(T, g)
      BY <2>2, <2>3, <3>3, Zenon
    <3> QED
      BY <2>3, <2>4, <3>1, <3>2, <3>3, Zenon
  <2> QED
    BY <2>5
<1>5. rest \cap old = {} /\ rest \cap new = {}
  <2> SUFFICES ASSUME NEW e \in rest, e \in old \/ e \in new PROVE FALSE
    OBVIOUS
  <2>1. PICK u \in T \ {t} : e \in EndsIn(u, f[u])
    BY DEF EndsPending
  <2>2. PICK i : e.holder = <<u, i>>
    BY <1>1, <1>2, <2>1
  <2>3. PICK j : e.holder = <<t, j>>
    BY <1>1, <1>2
  <2> QED
    BY <2>2, <2>3
<1>6. /\ IsFiniteSet(At(old, x)) /\ IsFiniteSet(At(new, x))
      /\ Count(old, x) \in Nat /\ Count(new, x) \in Nat
  BY <1>2, CountUsed
<1>7. IsFiniteSet(At(rest, x))
  <2> DEFINE all == EndsPending(T, f)
  <2>1. rest \subseteq all
    BY <1>3
  <2> HIDE DEF rest, all
  <2> QED
    BY <2>1, FewerEnds DEF all
<1>8. Count(rest, x) \in Nat
  BY <1>7, CountIsNat
<1> HIDE DEF rest, old, new
<1>9. Count(rest \cup old, x) = Count(rest, x) + Count(old, x)
  BY <1>5, <1>6, <1>7, CountUnion
<1>10. /\ IsFiniteSet(At(rest \cup new, x))
       /\ Count(rest \cup new, x) = Count(rest, x) + Count(new, x)
  <2>1. IsFiniteSet(At(new, x)) /\ rest \cap new = {}
    BY <1>5, <1>6
  <2> QED
    BY <1>7, <2>1, CountUnion
<1>11. /\ IsFiniteSet(At(EndsPending(T, g), x))
       /\ Count(EndsPending(T, g), x) = Count(rest, x) + Count(new, x)
       /\ Count(EndsPending(T, f), x) = Count(rest, x) + Count(old, x)
  BY <1>3, <1>4, <1>9, <1>10, Zenon
<1> QED
  BY <1>6, <1>8, <1>11 DEF old, new

-----------------------------------------------------------------------------
(* The inductive invariant.  What the net holds is over its wires, and     *)
(* every wire has the ends that it owes: connected, or in a port that      *)
(* waits in a wire, in an active pair or in a pending connect.             *)
Shaped ==
    /\ net \in Nets /\ Deterministic(net)
    /\ allocated \in net.wires..MaxWires
    /\ target \in [Wires -> PortsOver(net, 1..allocated) \cup {NoPort}]
    /\ uses \in [Wires -> 0..2]
    /\ \A w \in Wires : target[w] = NoPort <=> uses[w] = 0
    /\ \A w \in Wires : w > allocated => uses[w] = 0
    /\ IsABag(active)
    /\ BagToSet(active) \subseteq PortsOver(net, 1..allocated) \X PortsOver(net, 1..allocated)
    /\ todo \in [Threads -> ConnectsOver(net, 1..allocated)]
    /\ copied = {}
    /\ raised \in BOOLEAN

Finite(x) ==
    /\ IsFiniteSet(At(WaitingEnds, x))
    /\ IsFiniteSet(At(PairEnds, x))
    /\ IsFiniteSet(At(PendingEnds, x))

Balance(x) == uses[x] + Count(WaitingEnds, x) + Count(PairEnds, x) + Count(PendingEnds, x)

Owed(x) == IF x \in Observed THEN 1 ELSE 2

Balanced ==
    \A x \in 1..allocated :
        /\ Finite(x)
        /\ Balance(x) <= Owed(x)
        /\ ~raised /\ ~net.drops => Balance(x) = Owed(x)

(* What meets on a wire: the port that waits there and those that are to be *)
(* connected.                                                              *)
PortsIn(cs) == {cs[i].port : i \in DOMAIN cs}

PortsAt(cs, x) == {cs[i].port : i \in {j \in DOMAIN cs : cs[j].wire = x}}

Meeting(x) ==
    (IF x \in Waiting THEN {target[x]} ELSE {}) \cup UNION {PortsAt(todo[t], x) : t \in Threads}

(* Whatever catches meets only what it may catch: its wire takes nothing   *)
(* else, and is the result of a merge.                                     *)
OnlyCaught(x) == (\A q \in Meeting(x) : Caught(net, q)) /\ (\A q \in Holding : ResultOnly(q, x))

Catching(x) == \E p \in Meeting(x) : Catches(net, p)

Meets(l, r) == Catches(net, l) \/ Catches(net, r) => Caught(net, l) /\ Caught(net, r)

Served ==
    /\ \A x \in 1..allocated : Catching(x) => OnlyCaught(x)
    /\ \A pair \in BagToSet(active) : Meets(pair[1], pair[2])

NInv == Shaped /\ Balanced /\ Served

LEMMA Assumed ==
    ASSUME Shaped
    PROVE  /\ LinearNet(net) /\ NoPort \notin PortsOver(net, Wires)
           /\ net.wires \in Nat /\ MaxWires \in Nat /\ net.wires <= allocated
           /\ allocated \in Nat /\ allocated <= MaxWires
           /\ 1..allocated \subseteq Wires
           /\ Observed \subseteq 1..net.wires
<1>1. LinearNet(net) /\ NoPort \notin PortsOver(net, Wires)
  BY LinearAssumption DEF Shaped
<1>2. net.wires \in 0..MaxWires /\ MaxWires \in Nat
  BY <1>1, NetAssumption DEF LinearNet
<1>3. allocated \in net.wires..MaxWires
  BY DEF Shaped
<1>4. Observed \subseteq 1..net.wires
  BY <1>1 DEF LinearNet, Observed
<1> QED
  BY <1>1, <1>2, <1>3, <1>4 DEF Wires

LEMMA BalanceTyped ==
    ASSUME NInv, NEW x \in 1..allocated
    PROVE  /\ x \in Wires /\ uses[x] \in Nat /\ Count(WaitingEnds, x) \in Nat
           /\ Count(PairEnds, x) \in Nat /\ Count(PendingEnds, x) \in Nat
           /\ Owed(x) \in {1, 2}
<1>1. x \in Wires
  BY Assumed DEF NInv
<1>2. uses[x] \in Nat
  BY <1>1 DEF NInv, Shaped
<1>3. Finite(x)
  BY DEF NInv, Balanced
<1> QED
  BY <1>1, <1>2, <1>3, CountIsNat DEF Finite, Owed

(* Wires that are not allocated have no ends. *)
LEMMA EndsTyped ==
    ASSUME Shaped, NEW x, x \notin 1..allocated
    PROVE  /\ Count(WaitingEnds, x) = 0 /\ IsFiniteSet(At(WaitingEnds, x))
           /\ Count(PairEnds, x) = 0 /\ IsFiniteSet(At(PairEnds, x))
           /\ Count(PendingEnds, x) = 0 /\ IsFiniteSet(At(PendingEnds, x))
<1> DEFINE W == 1..allocated
<1>1. ASSUME NEW p \in PortsOver(net, W), NEW h, NEW e \in Ends(h, p) PROVE e.wire \in W
  <2>1. p.wires \in Seq(W)
    BY DEF PortsOver
  <2> HIDE DEF W
  <2> QED
    BY <2>1, EndsHeld
<1>2. \A e \in WaitingEnds : e.wire \in W
  <2> SUFFICES ASSUME NEW w \in Waiting, NEW e \in Ends(w, target[w]) PROVE e.wire \in W
    BY DEF WaitingEnds
  <2>1. w \in Wires /\ uses[w] = 1
    BY Assumed DEF Waiting
  <2>2. target[w] \in PortsOver(net, W)
    BY <2>1 DEF Shaped
  <2> QED
    BY <1>1, <2>2
<1>3. \A e \in PairEnds : e.wire \in W
  <2> SUFFICES ASSUME NEW copy \in Copies, NEW e,
                      e \in Ends(<<copy, 1>>, copy[1][1]) \/ e \in Ends(<<copy, 2>>, copy[1][2])
               PROVE  e.wire \in W
    BY DEF PairEnds
  <2>1. copy[1] \in BagToSet(active)
    BY DEF Copies
  <2>2. copy[1][1] \in PortsOver(net, W) /\ copy[1][2] \in PortsOver(net, W)
    BY <2>1 DEF Shaped
  <2> QED
    BY <1>1, <2>2
<1>4. \A e \in PendingEnds : e.wire \in W
  <2> SUFFICES ASSUME NEW t \in Threads, NEW e \in EndsIn(t, todo[t]) PROVE e.wire \in W
    BY DEF PendingEnds
  <2>1. PICK cs \in ConnectsOver(net, W) : cs = todo[t]
    BY DEF Shaped
  <2>2. e \in EndsFrom(t, 0, cs)
    BY <2>1, FromNowhere DEF ConnectsOver
  <2> HIDE DEF W
  <2>3. PICK i \in 1..Len(cs), j \in 0..2 :
            /\ j = 0 \/ j \in DOMAIN cs[i].port.wires
            /\ e = End(<<t, 0 + Len(cs) - i>>, j, IF j = 0 THEN cs[i].wire ELSE cs[i].port.wires[j])
    BY <2>2, EndMembers
  <2>4. cs[i].wire \in W /\ cs[i].port.wires \in Seq(W)
    BY MembersTyped, PortTyped
  <2> QED
    BY <2>3, <2>4 DEF End
<1> QED
  BY <1>2, <1>3, <1>4, CountNone DEF W

(* The connects that are to do when their new wires are allocated. *)
LEMMA Named ==
    ASSUME NEW n, NEW a \in Nat, NEW cs \in ConnectsOver(n, (1..a) \cup OwnWires), NEW t \in Threads
    PROVE  LET name == Identities(Fresh(cs), a)
               b == a + Cardinality(DOMAIN name)
               ds == Renamed(cs, name)
           IN  /\ b \in Nat /\ a <= b
               /\ ds \in ConnectsOver(n, 1..b)
               /\ NamedApart(cs, ds, NamesIn(cs, name), a, b)
               /\ \A x \in 1..a : Count(EndsIn(t, ds), x) = Count(EndsIn(t, cs), x)
               /\ \A x \in (a + 1)..b : \E w \in WiresOf(cs) \cap OwnWires :
                     /\ Count(EndsIn(t, ds), x) = Count(EndsIn(t, cs), w)
                     /\ Count(EndsIn(t, ds), x) \in Nat /\ Count(EndsIn(t, ds), x) # 0
<1> DEFINE W == (1..a) \cup OwnWires
           F == Fresh(cs)
           name == Identities(F, a)
           b == a + Cardinality(DOMAIN name)
           ds == Renamed(cs, name)
<1>2. F \in SUBSET Int /\ IsFiniteSet(F)
  <2>1. WiresOf(cs) \subseteq W /\ IsFiniteSet(WiresOf(cs))
    BY WiresNamed
  <2>2. W \subseteq Int
    BY DEF OwnWires
  <2>3. F \in SUBSET WiresOf(cs)
    BY DEF Fresh
  <2> HIDE DEF F, W
  <2>4. IsFiniteSet(F)
    BY <2>1, <2>3, FS_Subset
  <2> QED
    BY <2>1, <2>2, <2>3, <2>4
<1> HIDE DEF F
<1>3. /\ Cardinality(F) \in Nat /\ DOMAIN name = F
      /\ name \in Bijection(F, (a + 1)..(a + Cardinality(F)))
  BY <1>2, IdentitiesNumber
<1> HIDE DEF name
<1>4. b \in Nat /\ a <= b /\ name \in Bijection(F, (a + 1)..b)
  BY <1>3
<1> HIDE DEF b
<1>5. /\ ds \in ConnectsOver(n, 1..b)
      /\ \A x \in 1..a : Count(EndsIn(t, ds), x) = Count(EndsIn(t, cs), x)
      /\ \A x \in (a + 1)..b : \E w \in F : Count(EndsIn(t, ds), x) = Count(EndsIn(t, cs), w)
  <2>1. cs \in ConnectsOver(n, (1..a) \cup OwnWires) /\ name \in Bijection(Fresh(cs), (a + 1)..b)
    BY <1>4 DEF F
  <2>2. Fresh(cs) = F
    BY DEF F
  <2> HIDE DEF W, ds
  <2>3. /\ Renamed(cs, name) \in ConnectsOver(n, 1..b)
        /\ \A x \in 1..a : Count(EndsIn(t, Renamed(cs, name)), x) = Count(EndsIn(t, cs), x)
        /\ \A x \in (a + 1)..b : \E w \in Fresh(cs) :
              Count(EndsIn(t, Renamed(cs, name)), x) = Count(EndsIn(t, cs), w)
    BY <1>4, <2>1, CountRenamed
  <2> QED
    BY <2>2, <2>3 DEF ds
<1>6. NamedApart(cs, ds, NamesIn(cs, name), a, b)
  BY <1>4, RenamedParts DEF F
<1> HIDE DEF ds
<1>7. ASSUME NEW x \in (a + 1)..b
      PROVE  \E w \in WiresOf(cs) \cap OwnWires :
                /\ Count(EndsIn(t, ds), x) = Count(EndsIn(t, cs), w)
                /\ Count(EndsIn(t, ds), x) \in Nat /\ Count(EndsIn(t, ds), x) # 0
  <2>1. PICK w \in F : Count(EndsIn(t, ds), x) = Count(EndsIn(t, cs), w)
    BY <1>5
  <2>2. w \in WiresOf(cs) /\ w < 0 /\ w \in Int
    BY <1>2 DEF F, Fresh
  <2>3. w \in WiresOf(cs) \cap OwnWires
    BY <2>2 DEF OwnWires
  <2>4. Count(EndsIn(t, cs), w) \in Nat /\ Count(EndsIn(t, cs), w) # 0
    BY <2>2, CountUsed
  <2> QED
    BY <2>1, <2>3, <2>4
<1> QED
  BY <1>4, <1>5, <1>6, <1>7 DEF ds, b, name, F

-----------------------------------------------------------------------------
(* Every step keeps the invariant. *)
LEMMA InitBalanced == ASSUME Init, Deterministic(net) PROVE NInv
<1>1. LinearNet(net) /\ net \in Nets
  BY LinearAssumption DEF Init
<1>2. net.wires \in 0..MaxWires /\ MaxWires \in Nat /\ net.connects \in ConnectsOver(net, 1..net.wires)
  BY <1>1, NetAssumption DEF LinearNet
<1>3. /\ allocated = net.wires
      /\ target = [w \in Wires |-> NoPort]
      /\ copied = {}
      /\ uses = [w \in Wires |-> 0]
      /\ active = EmptyBag
      /\ todo = [t \in Threads |-> IF t = caller THEN net.connects ELSE <<>>]
      /\ raised = FALSE
  BY DEF Init, Wired
<1>4. Shaped
  <2>1. BagToSet(active) = {} /\ IsABag(active)
    BY <1>3 DEF EmptyBag, SetToBag, BagToSet, IsABag
  <2>2. todo \in [Threads -> ConnectsOver(net, 1..net.wires)]
    <3>1. <<>> \in ConnectsOver(net, 1..net.wires)
      BY CountEmpty
    <3> DEFINE C == ConnectsOver(net, 1..net.wires)
    <3> HIDE DEF C
    <3>2. \A t \in Threads : (IF t = caller THEN net.connects ELSE <<>>) \in C
      BY <1>2, <3>1 DEF C
    <3> QED
      BY <1>3, <3>2 DEF C
  <2>3. allocated \in net.wires..MaxWires
    BY <1>2, <1>3
  <2>4. target \in [Wires -> PortsOver(net, 1..allocated) \cup {NoPort}] /\ uses \in [Wires -> 0..2]
    BY <1>3
  <2>5. \A w \in Wires : target[w] = NoPort /\ uses[w] = 0
    BY <1>3
  <2> QED
    BY <1>1, <1>3, <2>1, <2>2, <2>3, <2>4, <2>5 DEF Shaped
<1>5. ASSUME NEW x \in 1..allocated
      PROVE  Finite(x) /\ Balance(x) <= Owed(x) /\ (~net.drops => Balance(x) = Owed(x))
  <2>1. x \in Wires /\ x \in 1..net.wires
    BY <1>2, <1>3 DEF Wires
  <2>2. WaitingEnds = {}
    <3>1. \A w \in Wires : uses[w] = 0
      BY <1>3
    <3>2. 1..allocated \subseteq Wires
      BY <1>2, <1>3 DEF Wires
    <3>3. Waiting = {}
      BY <3>1, <3>2 DEF Waiting
    <3> QED
      BY <3>3 DEF WaitingEnds
  <2>3. PairEnds = {}
    <3>1. BagToSet(active) = {}
      BY <1>3 DEF EmptyBag, SetToBag, BagToSet
    <3>2. Copies = {}
      BY <3>1 DEF Copies
    <3> QED
      BY <3>2 DEF PairEnds
  <2>4. PendingEnds = EndsIn(caller, net.connects)
    <3>1. todo[caller] = net.connects /\ \A t \in Threads : t # caller => todo[t] = <<>>
      BY <1>3 DEF Threads
    <3>2. \A t : EndsIn(t, <<>>) = {}
      BY DEF EndsIn
    <3>3. \A e : e \in PendingEnds <=> \E t \in Threads : e \in EndsIn(t, todo[t])
      BY DEF PendingEnds
    <3>4. caller \in Threads
      BY DEF Threads
    <3>5. \A e : e \in PendingEnds <=> e \in EndsIn(caller, net.connects)
      BY <3>1, <3>2, <3>3, <3>4, Zenon
    <3> QED
      BY <3>5
  <2>5. /\ IsFiniteSet(At(EndsIn(caller, net.connects), x))
        /\ Count(EndsIn(caller, net.connects), x) \in Nat
    BY <1>2, CountUsed
  <2>6. /\ IsFiniteSet(At({}, x)) /\ Count({}, x) = 0
    BY CountNone
  <2>7. Finite(x)
    BY <2>2, <2>3, <2>4, <2>5, <2>6 DEF Finite
  <2>8. Balance(x) = Count(EndsIn(caller, net.connects), x)
    <3>1. uses[x] = 0
      BY <1>3, <2>1
    <3>2. Balance(x) = 0 + 0 + 0 + Count(EndsIn(caller, net.connects), x)
      BY <2>2, <2>3, <2>4, <2>6, <3>1 DEF Balance
    <3> QED
      BY <2>5, <3>2
  <2>9. Joined(net, net.connects, x, Owed(x))
    <3>1. Joined(net, net.connects, x, IF x \in ObservedIn(net) THEN 1 ELSE 2)
      BY <1>1, <2>1 DEF LinearNet
    <3> QED
      BY <3>1 DEF Owed, Observed
  <2>10. IF net.drops THEN Count(EndsIn(caller, net.connects), x) <= Owed(x)
         ELSE Count(EndsIn(caller, net.connects), x) = Owed(x)
    BY <2>9 DEF Joined
  <2>11. Owed(x) \in {1, 2}
    BY DEF Owed
  <2> QED
    BY <2>5, <2>7, <2>8, <2>10, <2>11
<1>6. Served
  <2>1. Waiting = {} /\ BagToSet(active) = {}
    <3>1. \A w \in 1..allocated : w \in Wires
      BY <1>2, <1>3 DEF Wires
    <3>2. \A w \in 1..allocated : uses[w] = 0
      BY <1>3, <3>1
    <3> QED
      BY <1>3, <3>2 DEF Waiting, EmptyBag, SetToBag, BagToSet
  <2>2. \A t \in Threads : todo[t] = IF t = caller THEN net.connects ELSE <<>>
    BY <1>3
  <2>3. \A x : PortsAt(<<>>, x) = {} /\ PortsIn(<<>>) = {}
    BY DEF PortsAt, PortsIn
  <2>4. \A x : \A p \in Meeting(x) : p \in PortsAt(net.connects, x)
    BY <2>1, <2>2, <2>3 DEF Meeting
  <2>5. \A p \in Holding : p \in PortsIn(net.connects)
    BY <2>1, <2>2, <2>3 DEF Holding, PortsIn
  <2>6. CatchesResults(net, net.connects)
    BY <1>1 DEF LinearNet
  <2>7. ASSUME NEW x \in 1..allocated, Catching(x) PROVE OnlyCaught(x)
    <3>1. PICK i \in DOMAIN net.connects :
              net.connects[i].wire = x /\ Catches(net, net.connects[i].port)
      BY <2>4, <2>7 DEF Catching, PortsAt
    <3>2. \A j \in DOMAIN net.connects :
              /\ ResultOnly(net.connects[j].port, x)
              /\ net.connects[j].wire = x => Caught(net, net.connects[j].port)
      BY <2>6, <3>1 DEF CatchesResults
    <3> QED
      BY <2>4, <2>5, <3>2 DEF OnlyCaught, PortsAt, PortsIn
  <2> QED
    BY <2>1, <2>7 DEF Served
<1> QED
  BY <1>4, <1>5, <1>6 DEF NInv, Balanced

(* What a thread that has nothing to do gets to do: connects over the old  *)
(* wires and over those that are allocated with it.  They have the ends    *)
(* that the active pairs have lost.                                        *)
Launches(t, ds, lost) ==
    /\ todo[t] = <<>>
    /\ net' = net /\ target' = target /\ uses' = uses /\ raised' = raised
    /\ copied' = {}
    /\ allocated' \in Nat /\ allocated <= allocated' /\ allocated' <= MaxWires
    /\ ds \in ConnectsOver(net, 1..allocated')
    /\ todo' = [todo EXCEPT ![t] = ds]
    /\ IsABag(active') /\ BagToSet(active') \subseteq BagToSet(active)
    /\ \A x \in Int : lost[x] \in Nat
    /\ \A x \in Int : Count(PairEnds, x) \in Nat /\ IsFiniteSet(At(PairEnds, x)) =>
          /\ IsFiniteSet(At(PairEnds', x))
          /\ Count(PairEnds', x) \in Nat
          /\ Count(PairEnds, x) = Count(PairEnds', x) + lost[x]
    /\ \A x \in 1..allocated : Count(EndsIn(t, ds), x) = lost[x]
    /\ \A x \in (allocated + 1)..allocated' :
          /\ Count(EndsIn(t, ds), x) \in Nat
          /\ Count(EndsIn(t, ds), x) <= 2
          /\ ~net.drops => Count(EndsIn(t, ds), x) = 2

LEMMA Launched ==
    ASSUME NInv, NEW t \in Threads, NEW ds, NEW lost, Launches(t, ds, lost)
    PROVE  Shaped' /\ Balanced' /\ Waiting' = Waiting
<1>1. /\ net.wires \in Nat /\ MaxWires \in Nat /\ net.wires <= allocated
      /\ allocated \in Nat /\ allocated <= MaxWires
      /\ 1..allocated \subseteq Wires
      /\ Observed \subseteq 1..net.wires
  BY Assumed DEF NInv
<1>2. /\ Deterministic(net) /\ net \in Nets
      /\ target \in [Wires -> PortsOver(net, 1..allocated) \cup {NoPort}]
      /\ uses \in [Wires -> 0..2]
      /\ \A w \in Wires : target[w] = NoPort <=> uses[w] = 0
      /\ \A w \in Wires : w > allocated => uses[w] = 0
      /\ BagToSet(active) \subseteq PortsOver(net, 1..allocated) \X PortsOver(net, 1..allocated)
      /\ todo \in [Threads -> ConnectsOver(net, 1..allocated)]
      /\ raised \in BOOLEAN
  BY DEF NInv, Shaped
<1>3. /\ todo[t] = <<>>
      /\ net' = net /\ target' = target /\ uses' = uses /\ raised' = raised
  BY DEF Launches
<1>5. /\ allocated' <= MaxWires
      /\ todo' = [todo EXCEPT ![t] = ds]
      /\ \A x \in Int : lost[x] \in Nat
  BY DEF Launches
<1>8. /\ allocated' \in Nat /\ allocated <= allocated'
      /\ ds \in ConnectsOver(net, 1..allocated')
      /\ \A x \in 1..allocated : Count(EndsIn(t, ds), x) = lost[x]
      /\ \A x \in (allocated + 1)..allocated' :
            /\ Count(EndsIn(t, ds), x) \in Nat
            /\ Count(EndsIn(t, ds), x) <= 2
            /\ ~net.drops => Count(EndsIn(t, ds), x) = 2
  BY DEF Launches
<1>9. copied' = {}
  BY DEF Launches
<1>10. 1..allocated \subseteq 1..allocated'
  BY <1>1, <1>8
<1>11. /\ PortsOver(net, 1..allocated) \subseteq PortsOver(net, 1..allocated')
       /\ ConnectsOver(net, 1..allocated) \subseteq ConnectsOver(net, 1..allocated')
  BY <1>10, Wider
<1>12. /\ IsABag(active')
       /\ BagToSet(active') \subseteq BagToSet(active)
  BY DEF Launches
<1>13. Shaped'
  <2> DEFINE P == PortsOver(net, 1..allocated)
             Q == PortsOver(net, 1..allocated')
             D == ConnectsOver(net, 1..allocated')
  <2>1. todo' \in [Threads -> D]
    <3>1. \A u \in Threads : todo[u] \in D
      BY <1>2, <1>11
    <3> HIDE DEF D
    <3> QED
      BY <1>2, <1>5, <1>8, <3>1 DEF D
  <2>2. target' \in [Wires -> Q \cup {NoPort}]
    BY <1>2, <1>3, <1>11
  <2>3. BagToSet(active') \subseteq Q \X Q
    <3>1. BagToSet(active) \subseteq P \X P /\ P \subseteq Q
      BY <1>2, <1>11
    <3> HIDE DEF P, Q
    <3> QED
      BY <1>12, <3>1
  <2>4. allocated' \in net.wires..MaxWires
    BY <1>1, <1>5, <1>8
  <2>5. \A w \in Wires : w > allocated' => uses'[w] = 0
    BY <1>1, <1>2, <1>3, <1>8 DEF Wires
  <2>6. \A w \in Wires : target'[w] = NoPort <=> uses'[w] = 0
    BY <1>2, <1>3
  <2> HIDE DEF Q, D
  <2> QED
    BY <1>2, <1>3, <1>9, <1>12, <2>1, <2>2, <2>3, <2>4, <2>5, <2>6 DEF Shaped, Q, D
<1>20. Waiting' = Waiting
  <2>1. \A w \in 1..allocated' : w > allocated => w \in Wires /\ uses[w] # 1
    BY <1>1, <1>2, <1>5, <1>8 DEF Wires
  <2>2. \A w \in 1..allocated' : w \notin 1..allocated => w > allocated
    BY <1>1, <1>8
  <2>3. \A w : w \in Waiting' <=> w \in 1..allocated' /\ uses[w] = 1
    BY <1>3 DEF Waiting
  <2>4. \A w : w \in Waiting <=> w \in 1..allocated /\ uses[w] = 1
    BY DEF Waiting
  <2>5. \A w : w \in Waiting' <=> w \in Waiting
    BY <1>10, <2>1, <2>2, <2>3, <2>4
  <2> QED
    BY <2>5
<1>14. ASSUME NEW x \in Int
       PROVE  /\ WaitingEnds' = WaitingEnds
              /\ Count(PairEnds, x) \in Nat /\ IsFiniteSet(At(PairEnds, x)) =>
                    /\ IsFiniteSet(At(PairEnds', x))
                    /\ Count(PairEnds', x) \in Nat
                    /\ Count(PairEnds, x) = Count(PairEnds', x) + lost[x]
              /\ Count(PendingEnds, x) \in Nat /\ IsFiniteSet(At(PendingEnds, x)) =>
                    /\ IsFiniteSet(At(PendingEnds', x))
                    /\ Count(PendingEnds', x) = Count(PendingEnds, x) + Count(EndsIn(t, ds), x)
  <2>1. WaitingEnds' = WaitingEnds
    BY <1>3, <1>20 DEF WaitingEnds
  <2>2. Count(PairEnds, x) \in Nat /\ IsFiniteSet(At(PairEnds, x)) =>
          /\ IsFiniteSet(At(PairEnds', x))
          /\ Count(PairEnds', x) \in Nat
          /\ Count(PairEnds, x) = Count(PairEnds', x) + lost[x]
    BY DEF Launches
  <2>3. ASSUME Count(PendingEnds, x) \in Nat, IsFiniteSet(At(PendingEnds, x))
        PROVE  /\ IsFiniteSet(At(PendingEnds', x))
               /\ Count(PendingEnds', x) = Count(PendingEnds, x) + Count(EndsIn(t, ds), x)
    <3>1. PendingEnds = EndsPending(Threads, todo)
      BY DEF PendingEnds, EndsPending
    <3>2. PendingEnds' = EndsPending(Threads, todo')
      BY DEF PendingEnds, EndsPending
    <3>3. Count(EndsIn(t, todo[t]), x) = 0
      BY <1>3, CountEmpty
    <3>4. /\ IsFiniteSet(At(PendingEnds', x))
          /\ Count(PendingEnds', x) \in Nat
          /\ Count(PendingEnds', x) + Count(EndsIn(t, todo[t]), x)
               = Count(PendingEnds, x) + Count(EndsIn(t, ds), x)
      <4> DEFINE W == 1..allocated
                 V == 1..allocated'
      <4>1. (\A u \in Threads : todo[u] \in ConnectsOver(net, W)) /\ ds \in ConnectsOver(net, V)
        BY <1>2, <1>8
      <4> HIDE DEF W, V
      <4>2. PICK f, g, bs : f = todo /\ g = todo' /\ bs = todo[t]
        OBVIOUS
      <4>3. (\A u \in Threads : u # t => g[u] = f[u]) /\ ds = g[t] /\ bs = f[t]
        BY <1>2, <1>5, <4>2
      <4>4. (\A u \in Threads : f[u] \in ConnectsOver(net, W)) /\ IsFiniteSet(At(EndsPending(Threads, f), x))
        BY <2>3, <3>1, <4>1, <4>2
      <4>5. /\ IsFiniteSet(At(EndsPending(Threads, g), x))
            /\ Count(EndsPending(Threads, g), x) \in Nat
            /\ Count(EndsPending(Threads, g), x) + Count(EndsIn(t, bs), x)
                 = Count(EndsPending(Threads, f), x) + Count(EndsIn(t, ds), x)
        BY <4>1, <4>3, <4>4, PendingChanged
      <4> QED
        BY <3>1, <3>2, <4>2, <4>5
    <3> QED
      BY <2>3, <3>3, <3>4
  <2> QED
    BY <2>1, <2>2, <2>3
<1>15. Observed' = Observed
  BY <1>3 DEF Observed
<1>16. ASSUME NEW x \in 1..allocated
       PROVE  Finite(x)' /\ Balance(x)' = Balance(x) /\ Owed(x)' = Owed(x)
  <2>1. /\ x \in Wires /\ uses[x] \in Nat /\ Count(WaitingEnds, x) \in Nat
        /\ Count(PairEnds, x) \in Nat /\ Count(PendingEnds, x) \in Nat
    BY BalanceTyped
  <2>2. Finite(x) /\ x \in Int
    BY DEF NInv, Balanced
  <2>3. /\ IsFiniteSet(At(PairEnds', x)) /\ IsFiniteSet(At(PendingEnds', x))
        /\ Count(PairEnds', x) \in Nat
        /\ Count(PairEnds, x) = Count(PairEnds', x) + lost[x]
        /\ Count(PendingEnds', x) = Count(PendingEnds, x) + Count(EndsIn(t, ds), x)
        /\ WaitingEnds' = WaitingEnds
    BY <1>14, <2>1, <2>2 DEF Finite
  <2>4. Count(EndsIn(t, ds), x) = lost[x]
    BY <1>8
  <2>5. lost[x] \in Nat
    BY <1>5, <2>2
  <2>6. Finite(x)'
    BY <2>2, <2>3 DEF Finite
  <2>7. Balance(x)' = Balance(x)
    <3>1. Balance(x)' = uses[x] + Count(WaitingEnds, x) + Count(PairEnds', x) + Count(PendingEnds', x)
      BY <1>3, <2>3 DEF Balance
    <3> QED
      BY <2>1, <2>3, <2>4, <2>5, <3>1 DEF Balance
  <2> QED
    BY <1>15, <2>6, <2>7 DEF Owed
<1>17. ASSUME NEW x \in (allocated + 1)..allocated'
       PROVE  /\ Finite(x)' /\ Balance(x)' = Count(EndsIn(t, ds), x) /\ Owed(x)' = 2
  <2>1. x \in Int /\ x \notin 1..allocated /\ x \in Wires /\ x > allocated
    BY <1>1, <1>5, <1>8 DEF Wires
  <2>2. /\ Count(WaitingEnds, x) = 0 /\ IsFiniteSet(At(WaitingEnds, x))
        /\ Count(PairEnds, x) = 0 /\ IsFiniteSet(At(PairEnds, x))
        /\ Count(PendingEnds, x) = 0 /\ IsFiniteSet(At(PendingEnds, x))
    BY <2>1, EndsTyped DEF NInv
  <2>3. 0 \in Nat
    OBVIOUS
  <2>4. /\ IsFiniteSet(At(PairEnds', x)) /\ IsFiniteSet(At(PendingEnds', x))
        /\ Count(PairEnds', x) \in Nat
        /\ 0 = Count(PairEnds', x) + lost[x]
        /\ Count(PendingEnds', x) = 0 + Count(EndsIn(t, ds), x)
        /\ WaitingEnds' = WaitingEnds
    BY <1>14, <2>1, <2>2, <2>3
  <2>5. lost[x] \in Nat
    BY <1>5, <2>1
  <2>6. Count(PairEnds', x) = 0
    BY <2>4, <2>5
  <2>7. Finite(x)'
    BY <2>2, <2>4 DEF Finite
  <2>8. Balance(x)' = Count(EndsIn(t, ds), x)
    <3>1. Balance(x)' = uses[x] + Count(WaitingEnds, x) + Count(PairEnds', x) + Count(PendingEnds', x)
      BY <1>3, <2>4 DEF Balance
    <3>2. uses[x] = 0
      BY <1>2, <2>1
    <3>3. Count(EndsIn(t, ds), x) \in Nat
      BY <1>8
    <3> QED
      BY <2>2, <2>4, <2>6, <3>1, <3>2, <3>3
  <2>9. x \notin Observed'
    BY <1>1, <1>15, <2>1
  <2> QED
    BY <2>7, <2>8, <2>9 DEF Owed
<1>18. Balanced'
  <2> SUFFICES ASSUME NEW x \in 1..allocated'
               PROVE  /\ Finite(x)'
                      /\ Balance(x)' <= Owed(x)'
                      /\ ~raised' /\ ~net'.drops => Balance(x)' = Owed(x)'
    BY DEF Balanced
  <2>1. CASE x \in 1..allocated
    <3>1. Balance(x) <= Owed(x) /\ (~raised /\ ~net.drops => Balance(x) = Owed(x))
      BY <2>1 DEF NInv, Balanced
    <3> QED
      BY <1>3, <1>16, <2>1, <3>1
  <2>2. CASE x \in (allocated + 1)..allocated'
    BY <1>3, <1>8, <1>17, <2>2
  <2> QED
    BY <1>1, <1>8, <2>1, <2>2
<1> QED
  BY <1>13, <1>18, <1>20

(* The ports over the wires of a state, those that wait for nothing new. *)
LEMMA HeldOver ==
    ASSUME Shaped
    PROVE  /\ \A p \in Holding : p \in PortsOver(net, 1..allocated)
           /\ \A x : \A p \in Meeting(x) : p \in Holding
           /\ \A x : x \notin 1..allocated => Meeting(x) = {}
<1> DEFINE W == 1..allocated
           P == PortsOver(net, W)
<1>1. /\ \A w \in Wires : w \in Waiting => target[w] \in P
      /\ BagToSet(active) \subseteq P \X P
      /\ \A t \in Threads : todo[t] \in ConnectsOver(net, W)
  BY DEF Shaped, Waiting
<1>2. Waiting \subseteq Wires /\ Waiting \subseteq W
  BY Assumed DEF Waiting
<1>3. ASSUME NEW t \in Threads, NEW i \in DOMAIN todo[t]
      PROVE  todo[t][i].wire \in W /\ todo[t][i].port \in P
  <2>1. PICK cs \in ConnectsOver(net, W) : cs = todo[t]
    BY <1>1
  <2> HIDE DEF W
  <2> QED
    BY <1>3, <2>1, MembersTyped
<1> HIDE DEF W, P
<1>4. \A p \in Holding : p \in P
  <2> SUFFICES ASSUME NEW p \in Holding PROVE p \in P
    OBVIOUS
  <2>1. ASSUME NEW w \in Waiting, p = target[w] PROVE p \in P
    BY <1>1, <1>2, <2>1
  <2>2. ASSUME NEW pair \in BagToSet(active), p = pair[1] \/ p = pair[2] PROVE p \in P
    BY <1>1, <2>2
  <2>3. ASSUME NEW t \in Threads, NEW i \in DOMAIN todo[t], p = todo[t][i].port PROVE p \in P
    BY <1>3, <2>3
  <2> QED
    BY <2>1, <2>2, <2>3 DEF Holding
<1>5. ASSUME NEW x, NEW p \in Meeting(x) PROVE p \in Holding /\ x \in W
  <2>1. CASE x \in Waiting /\ p = target[x]
    BY <1>2, <2>1 DEF Holding
  <2>2. ASSUME NEW t \in Threads, p \in PortsAt(todo[t], x) PROVE p \in Holding /\ x \in W
    <3>1. PICK i \in DOMAIN todo[t] : todo[t][i].wire = x /\ p = todo[t][i].port
      BY <2>2 DEF PortsAt
    <3> QED
      BY <1>3, <3>1 DEF Holding
  <2> QED
    BY <2>1, <2>2 DEF Meeting
<1> QED
  BY <1>4, <1>5 DEF W, P

(* When nothing comes to a wire that did not meet there, and nothing is    *)
(* held that was not.                                                      *)
LEMMA ServedKept ==
    ASSUME Served, net' = net, allocated' = allocated, Holding' \subseteq Holding,
           \A x : Meeting(x)' \subseteq Meeting(x),
           \A pair \in BagToSet(active') :
              \/ pair \in BagToSet(active)
              \/ \E x \in 1..allocated : pair[1] \in Meeting(x) /\ pair[2] \in Meeting(x)
    PROVE  Served'
<1>1. ASSUME NEW x \in 1..allocated, Catching(x)' PROVE OnlyCaught(x)'
  <2>1. Catching(x)
    BY <1>1 DEF Catching, Catches
  <2>2. OnlyCaught(x)
    BY <2>1 DEF Served
  <2> QED
    BY <2>2 DEF OnlyCaught, Caught, Catches, ResultOnly
<1>2. ASSUME NEW pair \in BagToSet(active') PROVE Meets(pair[1], pair[2])'
  <2>1. CASE pair \in BagToSet(active)
    BY <2>1 DEF Served, Meets, Caught, Catches
  <2>2. ASSUME NEW x \in 1..allocated, pair[1] \in Meeting(x), pair[2] \in Meeting(x)
        PROVE  Meets(pair[1], pair[2])'
    <3>1. Catches(net, pair[1]) \/ Catches(net, pair[2]) => OnlyCaught(x)
      BY <2>2 DEF Served, Catching
    <3> QED
      BY <2>2, <3>1 DEF OnlyCaught, Meets, Caught, Catches
  <2> QED
    BY <2>1, <2>2
<1>3. BagToSet(active)' = BagToSet(active')
  OBVIOUS
<1> QED
  BY <1>1, <1>2, <1>3 DEF Served

LEMMA LaunchedServed ==
    ASSUME NInv, NEW t \in Threads, NEW ds, NEW lost, Launches(t, ds, lost),
           \A x \in 1..allocated : Catching(x) => Obeys(ds, x),
           \A p \in PortsIn(ds) : Catches(net, p) => \A x \in 1..allocated : p \notin PortsAt(ds, x),
           CatchesResults(net, ds)
    PROVE  Served'
<1> DEFINE W == 1..allocated
           V == 1..allocated'
<1>1. /\ net' = net /\ todo[t] = <<>> /\ todo' = [todo EXCEPT ![t] = ds] /\ target' = target
      /\ BagToSet(active') \subseteq BagToSet(active) /\ W \subseteq V
      /\ ds \in ConnectsOver(net, V)
  <2>1. W \subseteq V
    BY Assumed DEF NInv, Launches
  <2> QED
    BY <2>1 DEF Launches
<1>2. Waiting' = Waiting
  BY Launched
<1>3. /\ \A p \in Holding : p \in PortsOver(net, W)
      /\ \A x : \A p \in Meeting(x) : p \in Holding
      /\ \A x : x \notin W => Meeting(x) = {}
  BY HeldOver DEF NInv
<1>4. todo \in [Threads -> ConnectsOver(net, W)]
  BY DEF NInv, Shaped
<1> HIDE DEF W, V
<1>5. todo'[t] = ds /\ \A u \in Threads : u # t => todo'[u] = todo[u]
  BY <1>1, <1>4
<1>6. ASSUME NEW x, NEW p \in Meeting(x)' PROVE p \in Meeting(x) \/ p \in PortsAt(ds, x)
  <2>1. CASE x \in Waiting' /\ p = target'[x]
    BY <1>1, <1>2, <2>1 DEF Meeting
  <2>2. ASSUME NEW u \in Threads, p \in PortsAt(todo'[u], x) PROVE p \in Meeting(x) \/ p \in PortsAt(ds, x)
    BY <1>5, <2>2 DEF Meeting
  <2> QED
    BY <2>1, <2>2 DEF Meeting
<1>7. ASSUME NEW p \in Holding' PROVE p \in Holding \/ p \in PortsIn(ds)
  <2>1. ASSUME NEW w \in Waiting', p = target'[w] PROVE p \in Holding
    BY <1>1, <1>2, <2>1 DEF Holding
  <2>2. ASSUME NEW pair \in BagToSet(active'), p = pair[1] \/ p = pair[2] PROVE p \in Holding
    BY <1>1, <2>2 DEF Holding
  <2>3. ASSUME NEW u \in Threads, NEW i \in DOMAIN todo'[u], p = todo'[u][i].port
        PROVE  p \in Holding \/ p \in PortsIn(ds)
    <3>1. CASE u = t
      BY <1>5, <2>3, <3>1 DEF PortsIn
    <3>2. CASE u # t
      BY <1>5, <2>3, <3>2 DEF Holding
    <3> QED
      BY <3>1, <3>2
  <2> QED
    BY <2>1, <2>2, <2>3 DEF Holding
<1>8. ASSUME NEW x \in V, Catching(x)' PROVE OnlyCaught(x)'
  <2>1. PICK p \in Meeting(x)' : Catches(net, p)
    BY <1>1, <1>8 DEF Catching, Catches
  <2>2. CASE x \in W
    <3>1. p \in Meeting(x)
      BY <1>6, <2>1, <2>2 DEF PortsIn, PortsAt, W
    <3>2. OnlyCaught(x) /\ Obeys(ds, x)
      BY <2>1, <2>2, <3>1 DEF NInv, Served, Catching, W
    <3>3. \A q \in PortsAt(ds, x) : Caught(net, q)
      BY <3>2 DEF Obeys, PortsAt, Caught
    <3>4. \A q \in PortsIn(ds) : ResultOnly(q, x)
      BY <3>2 DEF Obeys, PortsIn
    <3>5. (\A q \in Meeting(x)' : Caught(net, q)) /\ (\A q \in Holding' : ResultOnly(q, x))
      BY <1>6, <1>7, <3>2, <3>3, <3>4 DEF OnlyCaught
    <3> QED
      BY <1>1, <3>5 DEF OnlyCaught, Caught, Catches, ResultOnly
  <2>3. CASE x \notin W
    <3>1. \A q \in Meeting(x)' : q \in PortsAt(ds, x)
      BY <1>3, <1>6, <2>3
    <3>2. PICK i \in DOMAIN ds : ds[i].wire = x /\ p = ds[i].port
      BY <2>1, <3>1 DEF PortsAt
    <3>3. \A j \in DOMAIN ds : ResultOnly(ds[j].port, x) /\ (ds[j].wire = x => Caught(net, ds[j].port))
      BY <2>1, <3>2 DEF CatchesResults
    <3>4. \A q \in Holding : ResultOnly(q, x)
      <4> SUFFICES ASSUME NEW q \in Holding, NEW k \in DOMAIN q.wires PROVE q.wires[k] # x
        BY DEF ResultOnly
      <4>1. q.wires \in Seq(W)
        BY <1>3, PortTyped
      <4> QED
        BY <2>3, <4>1
    <3>5. (\A q \in Meeting(x)' : Caught(net, q)) /\ (\A q \in Holding' : ResultOnly(q, x))
      BY <1>7, <3>1, <3>3, <3>4 DEF PortsAt, PortsIn
    <3> QED
      BY <1>1, <3>5 DEF OnlyCaught, Caught, Catches, ResultOnly
  <2> QED
    BY <2>2, <2>3
<1>9. ASSUME NEW pair \in BagToSet(active') PROVE Meets(pair[1], pair[2])'
  <2>1. Meets(pair[1], pair[2])
    BY <1>1 DEF NInv, Served
  <2> QED
    BY <1>1, <2>1 DEF Meets, Caught, Catches
<1>10. BagToSet(active)' = BagToSet(active')
  OBVIOUS
<1> QED
  BY <1>8, <1>9, <1>10 DEF Served, V

(* A worker begins an interaction. *)
LEMMA BeginBalanced == ASSUME NInv, NEW t \in Threads, Begin(t) PROVE NInv'
<1>1. /\ LinearNet(net)
      /\ allocated \in Nat /\ allocated <= MaxWires
  BY Assumed DEF NInv
<1>2. /\ Deterministic(net)
      /\ target \in [Wires -> PortsOver(net, 1..allocated) \cup {NoPort}]
      /\ IsABag(active)
      /\ BagToSet(active) \subseteq PortsOver(net, 1..allocated) \X PortsOver(net, 1..allocated)
      /\ copied = {}
  BY DEF NInv, Shaped
<1>3. /\ todo[t] = <<>> /\ ~raised
      /\ net' = net /\ target' = target /\ uses' = uses /\ raised' = raised
  BY DEF Begin
<1>4. PICK pair \in BagToSet(active) :
        /\ Legal(pair[1], pair[2])
        /\ \E connects \in {Interaction(pair[1], pair[2])} :
           \E name \in {Identities(Fresh(connects), allocated)} :
               /\ allocated' = allocated + Cardinality(DOMAIN name)
               /\ allocated' <= MaxWires
               /\ todo' = [todo EXCEPT ![t] = Renamed(connects, name)]
        /\ active' = active (-) SetToBag({pair})
        /\ copied' = copied \cup Serves(pair[1], pair[2])
  BY DEF Begin
<1> DEFINE l == pair[1]
           r == pair[2]
           cs == Interaction(l, r)
           name == Identities(Fresh(cs), allocated)
           ds == Renamed(cs, name)
<1>5. /\ Legal(l, r)
      /\ allocated' = allocated + Cardinality(DOMAIN name) /\ allocated' <= MaxWires
      /\ todo' = [todo EXCEPT ![t] = ds]
      /\ active' = active (-) SetToBag({pair})
      /\ copied' = copied \cup Serves(l, r)
  BY <1>4
<1>6. l \in PortsOver(net, 1..allocated) /\ r \in PortsOver(net, 1..allocated)
  BY <1>2, <1>4
<1>7. Meets(l, r)
  BY <1>4 DEF NInv, Served
<1>8. pair \in BagToSet(active)
  BY <1>4
<1> HIDE DEF l, r
<1>21. /\ Conserves(net, allocated, cs, l, r)
       /\ cs \in ConnectsOver(Uncaught(net), (1..allocated) \cup OwnWires)
  BY <1>1, <1>2, <1>5, <1>6, <1>7, InteractionConserves DEF Meets
<1>22. ASSUME NEW x \in 1..allocated, Catching(x) PROVE Obeys(cs, x)
  <2>1. l \in Holding /\ r \in Holding
    BY <1>8 DEF l, r, Holding
  <2>2. ResultOnly(l, x) /\ ResultOnly(r, x)
    BY <1>22, <2>1 DEF NInv, Served, OnlyCaught
  <2> QED
    BY <1>1, <1>2, <1>5, <1>6, <1>7, <2>2, InteractionObeys DEF Meets
<1> HIDE DEF cs
<1>23. /\ allocated' \in Nat /\ allocated <= allocated'
       /\ ds \in ConnectsOver(net, 1..allocated') /\ ds \in ConnectsOver(Uncaught(net), 1..allocated')
       /\ NamedApart(cs, ds, NamesIn(cs, name), allocated, allocated')
       /\ \A x \in 1..allocated : Count(EndsIn(t, ds), x) = Weight(l, x) + Weight(r, x)
       /\ \A x \in (allocated + 1)..allocated' :
             /\ Count(EndsIn(t, ds), x) \in Nat
             /\ Count(EndsIn(t, ds), x) <= 2
             /\ ~net.drops => Count(EndsIn(t, ds), x) = 2
  <2>1. PICK a, b : a = allocated /\ b = allocated'
    OBVIOUS
  <2>2. b = a + Cardinality(DOMAIN name) /\ a \in Nat
    BY <1>1, <1>5, <2>1
  <2>3. cs \in ConnectsOver(net, (1..a) \cup OwnWires) /\ cs \in ConnectsOver(Uncaught(net), (1..a) \cup OwnWires)
    BY <1>21, <2>1 DEF Conserves
  <2>4. name = Identities(Fresh(cs), a)
    BY <2>1 DEF name
  <2> HIDE DEF name
  <2>5. /\ b \in Nat /\ a <= b
        /\ ds \in ConnectsOver(net, 1..b)
        /\ NamedApart(cs, ds, NamesIn(cs, name), a, b)
        /\ \A x \in 1..a : Count(EndsIn(t, ds), x) = Count(EndsIn(t, cs), x)
        /\ \A x \in (a + 1)..b : \E w \in WiresOf(cs) \cap OwnWires :
              /\ Count(EndsIn(t, ds), x) = Count(EndsIn(t, cs), w)
              /\ Count(EndsIn(t, ds), x) \in Nat /\ Count(EndsIn(t, ds), x) # 0
    BY <2>2, <2>3, <2>4, Named
  <2>6. ds \in ConnectsOver(Uncaught(net), 1..b)
    BY <2>2, <2>3, <2>4, Named
  <2> HIDE DEF ds
  <2>7. \A x \in 1..a : Count(EndsIn(t, ds), x) = Weight(l, x) + Weight(r, x)
    BY <1>21, <2>1, <2>5 DEF Conserves
  <2>8. ASSUME NEW x \in (a + 1)..b
        PROVE  /\ Count(EndsIn(t, ds), x) \in Nat
               /\ Count(EndsIn(t, ds), x) <= 2
               /\ ~net.drops => Count(EndsIn(t, ds), x) = 2
    <3>1. PICK w \in OwnWires : /\ Count(EndsIn(t, ds), x) = Count(EndsIn(t, cs), w)
                                /\ Count(EndsIn(t, ds), x) \in Nat /\ Count(EndsIn(t, ds), x) # 0
      BY <2>5
    <3>2. /\ Count(EndsIn(t, cs), w) <= 2
          /\ ~net.drops => Count(EndsIn(t, cs), w) # 1
      BY <1>21 DEF Conserves
    <3> QED
      BY <3>1, <3>2
  <2> QED
    BY <2>1, <2>5, <2>6, <2>7, <2>8
<1> HIDE DEF ds, name
<1>9. copied' = {}
  <2>1. Serves(l, r) = {}
    <3> DEFINE graft == PortOf("graft", l, r)
    <3>1. graft.kind = "graft" => graft.label \in DOMAIN net.expansions
      BY <1>6 DEF PortOf, PortsOver
    <3>2. graft.kind = "graft" => net.expansions[graft.label].does # "ambiguous"
      BY <1>2, <3>1 DEF Deterministic
    <3> QED
      BY <3>2 DEF Serves
  <2> QED
    BY <1>2, <1>5, <2>1
<1>12. /\ IsABag(active')
       /\ BagToSet(active') \subseteq BagToSet(active)
       /\ \E k : /\ <<pair, k>> \notin CopiesOf(active')
                 /\ CopiesOf(active) = CopiesOf(active') \cup {<<pair, k>>}
  <2>1. pair \in BagToSet(active)
    BY <1>4
  <2> DEFINE less == active (-) SetToBag({pair})
  <2>2. /\ IsABag(less)
        /\ BagToSet(less) \subseteq BagToSet(active)
        /\ \E k : /\ <<pair, k>> \notin CopiesOf(less)
                  /\ CopiesOf(active) = CopiesOf(less) \cup {<<pair, k>>}
    BY <1>2, <2>1, PairTaken
  <2>3. active' = less
    BY <1>5
  <2> HIDE DEF less
  <2> QED
    BY <2>2, <2>3, Zenon
<1>13. ASSUME NEW x \in Int
       PROVE  Count(PairEnds, x) \in Nat /\ IsFiniteSet(At(PairEnds, x)) =>
                  /\ IsFiniteSet(At(PairEnds', x))
                  /\ Count(PairEnds', x) \in Nat
                  /\ Count(PairEnds, x) = Count(PairEnds', x) + Weight(l, x) + Weight(r, x)
  <2>2. ASSUME Count(PairEnds, x) \in Nat, IsFiniteSet(At(PairEnds, x))
        PROVE  /\ IsFiniteSet(At(PairEnds', x))
               /\ Count(PairEnds', x) \in Nat
               /\ Count(PairEnds, x) = Count(PairEnds', x) + Weight(l, x) + Weight(r, x)
    <3>1. PICK k : /\ <<pair, k>> \notin CopiesOf(active')
                   /\ CopiesOf(active) = CopiesOf(active') \cup {<<pair, k>>}
      BY <1>12
    <3> DEFINE C == CopiesOf(active')
               c == <<pair, k>>
    <3>2. PairEnds = EndsOfCopies(C \cup {c})
      BY <3>1 DEF PairEnds, EndsOfCopies, Copies, CopiesOf
    <3>3. PairEnds' = EndsOfCopies(C)
      BY DEF PairEnds, EndsOfCopies, Copies, CopiesOf
    <3>4. c \notin C /\ c[1][1] = l /\ c[1][2] = r
      BY <3>1 DEF l, r
    <3> HIDE DEF C, c
    <3>5. EndsOfCopies(C) \subseteq EndsOfCopies(C \cup {c})
      BY DEF EndsOfCopies
    <3>6. IsFiniteSet(At(EndsOfCopies(C), x))
      <4>1. PICK A, B : A = EndsOfCopies(C) /\ B = EndsOfCopies(C \cup {c})
        OBVIOUS
      <4> QED
        BY <2>2, <3>2, <3>5, <4>1, FewerEnds
    <3>7. Count(EndsOfCopies(C \cup {c}), x)
            = Count(EndsOfCopies(C), x) + Weight(l, x) + Weight(r, x)
      <4> DEFINE W == 1..allocated
      <4>1. l \in PortsOver(net, W) /\ r \in PortsOver(net, W)
        BY <1>6
      <4> HIDE DEF W
      <4>2. PICK D : D = C \cup {c}
        OBVIOUS
      <4>3. l = c[1][1] /\ r = c[1][2]
        BY <3>4
      <4>4. Count(EndsOfCopies(D), x) = Count(EndsOfCopies(C), x) + Weight(l, x) + Weight(r, x)
        BY <3>4, <3>6, <4>1, <4>2, <4>3, CopyAdded
      <4> QED
        BY <4>2, <4>4, Zenon
    <3>8. Count(EndsOfCopies(C), x) \in Nat
      BY <3>6, CountIsNat
    <3> QED
      BY <3>2, <3>3, <3>4, <3>6, <3>7, <3>8
  <2> QED
    BY <2>2
<1> DEFINE lost == [x \in Int |-> Weight(l, x) + Weight(r, x)]
<1>14. \A x \in Int : lost[x] = Weight(l, x) + Weight(r, x) /\ lost[x] \in Nat
  <2>1. \A x \in Int : Weight(l, x) \in Nat /\ Weight(r, x) \in Nat
    BY <1>6, PortTyped
  <2> QED
    BY <2>1
<1>15. 1..allocated \subseteq Int /\ \A x \in Int : Weight(l, x) \in Nat /\ Weight(r, x) \in Nat
  BY <1>6, PortTyped
<1> HIDE DEF lost
<1>16. Launches(t, ds, lost)
  <2>1. \A x \in Int : Count(PairEnds, x) \in Nat /\ IsFiniteSet(At(PairEnds, x)) =>
          /\ IsFiniteSet(At(PairEnds', x))
          /\ Count(PairEnds', x) \in Nat
          /\ Count(PairEnds, x) = Count(PairEnds', x) + lost[x]
    BY <1>13, <1>14, <1>15
  <2>2. \A x \in 1..allocated : Count(EndsIn(t, ds), x) = lost[x]
    BY <1>14, <1>15, <1>23
  <2> QED
    BY <1>3, <1>5, <1>9, <1>12, <1>14, <1>23, <2>1, <2>2 DEF Launches
<1>17. \A x \in 1..allocated : Catching(x) => Obeys(ds, x)
  BY <1>1, <1>22, <1>23, RenamedObeys
<1>18. \A p \in PortsIn(ds) : ~Catches(net, p)
  <2> DEFINE V == 1..allocated'
  <2>1. ds \in ConnectsOver(Uncaught(net), V)
    BY <1>23
  <2> HIDE DEF V
  <2>2. \A i \in DOMAIN ds : ds[i].port \in PortsOver(Uncaught(net), V)
    BY <2>1, MembersTyped
  <2>3. \A p \in PortsOver(Uncaught(net), V) : ~Catches(net, p)
    BY DEF PortsOver, Uncaught, Catches
  <2> QED
    BY <2>2, <2>3 DEF PortsIn
<1>19. CatchesResults(net, ds)
  BY <1>18 DEF CatchesResults, PortsIn
<1>20. Shaped' /\ Balanced'
  BY <1>16, Launched
<1>24. Served'
  BY <1>16, <1>17, <1>18, <1>19, LaunchedServed
<1> QED
  BY <1>20, <1>24 DEF NInv

(* The next net is wired beside the ones before it. *)
LEMMA WiringBalanced ==
    ASSUME NInv, NEW t \in Threads, NEW cs, LinearCall(net, cs), todo[t] = <<>>,
           allocated' = allocated + Cardinality(DOMAIN Identities(Fresh(cs), allocated)),
           allocated' <= MaxWires,
           todo' = [todo EXCEPT ![t] = Renamed(cs, Identities(Fresh(cs), allocated))],
           UNCHANGED <<net, target, copied, uses, active, raised>>
    PROVE  NInv'
<1> DEFINE name == Identities(Fresh(cs), allocated)
           ds == Renamed(cs, name)
<1>1. allocated \in Nat /\ allocated <= MaxWires
  BY Assumed DEF NInv
<1>2. IsABag(active) /\ copied = {}
  BY DEF NInv, Shaped
<1>3. /\ cs \in ConnectsOver(net, OwnWires)
      /\ CatchesResults(net, cs)
      /\ \A w \in WiresOf(cs) : Joined(net, cs, w, 2)
  BY DEF LinearCall
<1>4. cs \in ConnectsOver(net, (1..allocated) \cup OwnWires)
  <2>1. PICK V : V = (1..allocated) \cup OwnWires
    OBVIOUS
  <2>2. OwnWires \subseteq V
    BY <2>1
  <2>3. ConnectsOver(net, OwnWires) \subseteq ConnectsOver(net, V)
    BY <2>2, Wider
  <2> QED
    BY <1>3, <2>1, <2>3
<1>5. /\ allocated' \in Nat /\ allocated <= allocated'
      /\ ds \in ConnectsOver(net, 1..allocated')
      /\ NamedApart(cs, ds, NamesIn(cs, name), allocated, allocated')
      /\ \A x \in 1..allocated : Count(EndsIn(t, ds), x) = Count(EndsIn(t, cs), x)
      /\ \A x \in (allocated + 1)..allocated' : \E w \in WiresOf(cs) \cap OwnWires :
            /\ Count(EndsIn(t, ds), x) = Count(EndsIn(t, cs), w)
            /\ Count(EndsIn(t, ds), x) \in Nat /\ Count(EndsIn(t, ds), x) # 0
  <2>1. PICK a, b : a = allocated /\ b = allocated'
    OBVIOUS
  <2>2. b = a + Cardinality(DOMAIN name) /\ a \in Nat /\ cs \in ConnectsOver(net, (1..a) \cup OwnWires)
    BY <1>1, <1>4, <2>1
  <2>3. name = Identities(Fresh(cs), a)
    BY <2>1
  <2> HIDE DEF name
  <2>4. /\ b \in Nat /\ a <= b
        /\ ds \in ConnectsOver(net, 1..b)
        /\ NamedApart(cs, ds, NamesIn(cs, name), a, b)
        /\ \A x \in 1..a : Count(EndsIn(t, ds), x) = Count(EndsIn(t, cs), x)
        /\ \A x \in (a + 1)..b : \E w \in WiresOf(cs) \cap OwnWires :
              /\ Count(EndsIn(t, ds), x) = Count(EndsIn(t, cs), w)
              /\ Count(EndsIn(t, ds), x) \in Nat /\ Count(EndsIn(t, ds), x) # 0
    BY <2>2, <2>3, Named
  <2> QED
    BY <2>1, <2>4
<1>6. todo' = [todo EXCEPT ![t] = ds]
  OBVIOUS
<1> HIDE DEF ds, name
<1>7. ASSUME NEW x \in (allocated + 1)..allocated'
      PROVE  /\ Count(EndsIn(t, ds), x) \in Nat
             /\ Count(EndsIn(t, ds), x) <= 2
             /\ ~net.drops => Count(EndsIn(t, ds), x) = 2
  <2>1. PICK w \in WiresOf(cs) \cap OwnWires :
            /\ Count(EndsIn(t, ds), x) = Count(EndsIn(t, cs), w)
            /\ Count(EndsIn(t, ds), x) \in Nat /\ Count(EndsIn(t, ds), x) # 0
    BY <1>5
  <2>2. Count(EndsIn(t, cs), w) = Count(EndsIn(caller, cs), w)
    BY <1>4, <2>1, CountAnyones DEF Threads
  <2>3. Joined(net, cs, w, 2)
    BY <1>3, <2>1
  <2> QED
    BY <2>1, <2>2, <2>3 DEF Joined
<1>8. ASSUME NEW x \in 1..allocated PROVE Count(EndsIn(t, ds), x) = 0 /\ Obeys(cs, x)
  <2>1. x \notin OwnWires
    BY DEF OwnWires
  <2>2. Count(EndsIn(t, cs), x) = 0
    BY <1>3, <2>1, CountUsed, WiresNamed
  <2> QED
    BY <1>3, <1>5, <2>1, <2>2, ObeysBeside
<1> DEFINE lost == [x \in Int |-> 0]
<1>9. \A x \in Int : lost[x] = 0
  OBVIOUS
<1> HIDE DEF lost
<1>10. Launches(t, ds, lost)
  <2>1. PairEnds' = PairEnds
    BY DEF PairEnds, Copies
  <2>2. \A x \in Int : Count(PairEnds, x) \in Nat /\ IsFiniteSet(At(PairEnds, x)) =>
          /\ IsFiniteSet(At(PairEnds', x))
          /\ Count(PairEnds', x) \in Nat
          /\ Count(PairEnds, x) = Count(PairEnds', x) + lost[x]
    BY <1>9, <2>1
  <2>3. \A x \in 1..allocated : Count(EndsIn(t, ds), x) = lost[x]
    BY <1>8, <1>9
  <2>4. /\ IsABag(active') /\ BagToSet(active') \subseteq BagToSet(active) /\ copied' = {}
    BY <1>2
  <2> QED
    <3>1. /\ todo[t] = <<>>
          /\ net' = net /\ target' = target /\ uses' = uses /\ raised' = raised
          /\ \A x \in Int : lost[x] \in Nat
      BY <1>9
    <3> QED
      BY <1>5, <1>6, <1>7, <2>2, <2>3, <2>4, <3>1, Zenon DEF Launches
<1>11. \A x \in 1..allocated : Obeys(ds, x)
  BY <1>1, <1>5, <1>8, RenamedObeys
<1>12. \A x \in 1..allocated : PortsAt(ds, x) = {}
  <2> SUFFICES ASSUME NEW x \in 1..allocated, NEW i \in DOMAIN ds PROVE ds[i].wire # x
    BY DEF PortsAt
  <2>1. /\ i \in 1..Len(cs) /\ DOMAIN cs = 1..Len(cs)
        /\ cs[i].wire \in WiresOf(cs) /\ ds[i].wire = NamesIn(cs, name)[cs[i].wire]
    BY <1>5 DEF NamedApart
  <2>2. cs[i].wire \in OwnWires
    BY <1>3, <2>1, WiresNamed
  <2>3. ds[i].wire \in (allocated + 1)..allocated'
    <3>1. cs[i].wire < 0
      BY <2>2 DEF OwnWires
    <3> QED
      BY <1>5, <2>1, <3>1, Zenon DEF NamedApart
  <2> QED
    BY <1>1, <2>3
<1>13. CatchesResults(net, ds)
  BY <1>3, <1>5, RenamedCatches
<1>14. Shaped' /\ Balanced'
  BY <1>10, Launched
<1>15. Served'
  BY <1>10, <1>11, <1>12, <1>13, LaunchedServed
<1> QED
  BY <1>14, <1>15 DEF NInv

(* A connect brings two ports together that met on the wire before. *)
LEMMA ConnectServed ==
    ASSUME NInv, NEW t \in Threads, Connect(t),
           Head(todo[t]).wire \in 1..allocated, uses[Head(todo[t]).wire] \in {0, 1}
    PROVE  Served'
<1>1. PICK w, port, rest : w = Head(todo[t]).wire /\ port = Head(todo[t]).port /\ rest = Tail(todo[t])
  OBVIOUS
<1>2. /\ todo[t] # <<>>
      /\ uses' = [uses EXCEPT ![w] = @ + 1]
      /\ IF target[w] = NoPort
         THEN target' = [target EXCEPT ![w] = port] /\ active' = active
         ELSE active' = active (+) SetToBag({<<target[w], port>>}) /\ target' = target
      /\ todo' = [todo EXCEPT ![t] = rest]
      /\ net' = net /\ allocated' = allocated
  BY <1>1 DEF Connect
<1>3. /\ target \in [Wires -> PortsOver(net, 1..allocated) \cup {NoPort}]
      /\ uses \in [Wires -> 0..2]
      /\ \A v \in Wires : target[v] = NoPort <=> uses[v] = 0
      /\ IsABag(active)
      /\ todo \in [Threads -> ConnectsOver(net, 1..allocated)]
  BY DEF NInv, Shaped
<1>4. w \in 1..allocated /\ uses[w] \in {0, 1} /\ 1..allocated \subseteq Wires
  BY <1>1, Assumed DEF NInv
<1>5. /\ port \in PortsAt(todo[t], w) /\ port \in PortsIn(todo[t])
      /\ \A x : PortsAt(rest, x) \subseteq PortsAt(todo[t], x)
      /\ PortsIn(rest) \subseteq PortsIn(todo[t])
  <2>1. PICK bs, C : bs = todo[t] /\ bs \in Seq(C)
    BY <1>3 DEF ConnectsOver
  <2>2. /\ Len(bs) \in Nat /\ Len(bs) # 0 /\ DOMAIN bs = 1..Len(bs)
        /\ DOMAIN Tail(bs) = 1..(Len(bs) - 1) /\ Head(bs) = bs[1]
        /\ \A i \in 1..(Len(bs) - 1) : Tail(bs)[i] = bs[i + 1]
    <3>1. bs # <<>>
      BY <1>2, <2>1
    <3> QED
      BY <2>1, <3>1
  <2>3. /\ w = bs[1].wire /\ port = bs[1].port /\ rest = Tail(bs)
        /\ \A i \in 1..(Len(bs) - 1) : i + 1 \in DOMAIN bs
        /\ 1 \in DOMAIN bs
    BY <1>1, <2>1, <2>2
  <2>4. DOMAIN rest = 1..(Len(bs) - 1) /\ \A i \in DOMAIN rest : i + 1 \in DOMAIN bs /\ rest[i] = bs[i + 1]
    BY <2>2, <2>3
  <2>5. /\ port \in PortsAt(bs, w) /\ port \in PortsIn(bs)
        /\ \A x : PortsAt(rest, x) \subseteq PortsAt(bs, x)
        /\ PortsIn(rest) \subseteq PortsIn(bs)
    BY <2>3, <2>4 DEF PortsAt, PortsIn
  <2> QED
    BY <2>1, <2>5
<1>6. todo'[t] = rest /\ \A u \in Threads : u # t => todo'[u] = todo[u]
  BY <1>2, <1>3
<1>7. uses'[w] = uses[w] + 1 /\ \A v \in 1..allocated : v # w => uses'[v] = uses[v]
  BY <1>2, <1>3, <1>4
<1>8. target[w] # NoPort => w \in Waiting
  BY <1>3, <1>4 DEF Waiting
<1>9. ASSUME NEW v \in Waiting'
      PROVE  (v \in Waiting /\ target'[v] = target[v]) \/ (v = w /\ target'[v] = port)
  <2>1. v \in 1..allocated /\ uses'[v] = 1
    BY <1>2 DEF Waiting
  <2>2. CASE v = w
    <3>1. uses[w] = 0 /\ target[w] = NoPort
      BY <1>3, <1>4, <1>7, <2>1, <2>2
    <3> QED
      BY <1>2, <1>3, <1>4, <2>2, <3>1
  <2>3. CASE v # w
    <3>1. v \in Waiting
      BY <1>7, <2>1, <2>3 DEF Waiting
    <3>2. target'[v] = target[v]
      BY <1>2, <1>3, <1>4, <2>1, <2>3
    <3> QED
      BY <3>1, <3>2
  <2> QED
    BY <2>2, <2>3
<1>10. ASSUME NEW pair \in BagToSet(active')
       PROVE  pair \in BagToSet(active) \/ (w \in Waiting /\ pair = <<target[w], port>>)
  <2>1. CASE target[w] = NoPort
    BY <1>2, <2>1
  <2>2. CASE target[w] # NoPort
    <3>1. PICK new : new = <<target[w], port>>
      OBVIOUS
    <3>2. BagToSet(active (+) SetToBag({new})) = BagToSet(active) \cup {new}
      BY <1>3, PairPushed
    <3> QED
      BY <1>2, <1>8, <2>2, <3>1, <3>2
  <2> QED
    BY <2>1, <2>2
<1>11. /\ port \in Meeting(w) /\ port \in Holding
       /\ w \in Waiting => target[w] \in Meeting(w) /\ target[w] \in Holding
  BY <1>5 DEF Meeting, Holding, PortsIn
<1>12. ASSUME NEW p \in Holding' PROVE p \in Holding
  <2>1. ASSUME NEW v \in Waiting', p = target'[v] PROVE p \in Holding
    BY <1>9, <1>11, <2>1 DEF Holding
  <2>2. ASSUME NEW pair \in BagToSet(active'), p = pair[1] \/ p = pair[2] PROVE p \in Holding
    <3>1. CASE pair \in BagToSet(active)
      BY <2>2, <3>1 DEF Holding
    <3>2. CASE w \in Waiting /\ pair = <<target[w], port>>
      BY <1>11, <2>2, <3>2
    <3> QED
      BY <1>10, <3>1, <3>2
  <2>3. ASSUME NEW u \in Threads, p \in PortsIn(todo'[u]) PROVE p \in Holding
    <3>1. p \in PortsIn(todo[u])
      BY <1>5, <1>6, <2>3
    <3> QED
      BY <3>1 DEF Holding, PortsIn
  <2> QED
    BY <2>1, <2>2, <2>3 DEF Holding, PortsIn
<1>13. ASSUME NEW x, NEW p \in Meeting(x)' PROVE p \in Meeting(x)
  <2>1. CASE x \in Waiting' /\ p = target'[x]
    BY <1>9, <1>11, <2>1 DEF Meeting
  <2>2. ASSUME NEW u \in Threads, p \in PortsAt(todo'[u], x) PROVE p \in Meeting(x)
    <3>1. p \in PortsAt(todo[u], x)
      BY <1>5, <1>6, <2>2
    <3> QED
      BY <3>1 DEF Meeting
  <2> QED
    BY <2>1, <2>2 DEF Meeting
<1>14. ASSUME NEW pair \in BagToSet(active')
       PROVE  \/ pair \in BagToSet(active)
              \/ \E x \in 1..allocated : pair[1] \in Meeting(x) /\ pair[2] \in Meeting(x)
  BY <1>4, <1>10, <1>11
<1> QED
  BY <1>2, <1>12, <1>13, <1>14, ServedKept DEF NInv

(* A connect moves the end it makes from what is pending to what is used,  *)
(* and those of its port to where the port goes.                           *)
LEMMA ConnectBalanced == ASSUME NInv, NEW t \in Threads, Connect(t) PROVE NInv'
<1>1. /\ NoPort \notin PortsOver(net, Wires)
      /\ allocated \in Nat /\ 1..allocated \subseteq Wires
  BY Assumed DEF NInv
<1>2. /\ net \in Nets /\ Deterministic(net) /\ allocated \in net.wires..MaxWires
      /\ target \in [Wires -> PortsOver(net, 1..allocated) \cup {NoPort}]
      /\ uses \in [Wires -> 0..2]
      /\ \A v \in Wires : target[v] = NoPort <=> uses[v] = 0
      /\ \A v \in Wires : v > allocated => uses[v] = 0
      /\ IsABag(active)
      /\ BagToSet(active) \subseteq PortsOver(net, 1..allocated) \X PortsOver(net, 1..allocated)
      /\ todo \in [Threads -> ConnectsOver(net, 1..allocated)]
      /\ copied = {} /\ raised \in BOOLEAN
  BY DEF NInv, Shaped
<1> DEFINE W == 1..allocated
           w == Head(todo[t]).wire
           port == Head(todo[t]).port
           rest == Tail(todo[t])
<1>3. /\ todo[t] # <<>>
      /\ uses' = [uses EXCEPT ![w] = @ + 1]
      /\ IF target[w] = NoPort
         THEN target' = [target EXCEPT ![w] = port] /\ active' = active
         ELSE active' = active (+) SetToBag({<<target[w], port>>}) /\ target' = target
      /\ todo' = [todo EXCEPT ![t] = rest]
      /\ net' = net /\ allocated' = allocated /\ copied' = copied /\ raised' = raised
  BY DEF Connect
<1>4. todo[t] \in ConnectsOver(net, W)
  BY <1>2
<1> HIDE DEF W
<1>5. /\ Head(todo[t]) \in OneOver(net, W) /\ rest \in ConnectsOver(net, W)
      /\ \A x : Count(EndsIn(t, todo[t]), x) = Made(Head(todo[t]), x) + Count(EndsIn(t, rest), x)
  <2>1. PICK cs \in ConnectsOver(net, W) : cs = todo[t] /\ cs # <<>>
    BY <1>3, <1>4
  <2>2. /\ Head(cs) \in OneOver(net, W) /\ Tail(cs) \in ConnectsOver(net, W)
        /\ \A x : Count(EndsIn(t, cs), x) = Made(Head(cs), x) + Count(EndsIn(t, Tail(cs)), x)
    <3>1. cs # <<>>
      BY <2>1
    <3>2. ASSUME NEW x
          PROVE  /\ Head(cs) \in OneOver(net, W) /\ Tail(cs) \in ConnectsOver(net, W)
                 /\ Count(EndsIn(t, cs), x) = Made(Head(cs), x) + Count(EndsIn(t, Tail(cs)), x)
      BY <3>1, CountFirst
    <3> QED
      BY <3>2
  <2> QED
    BY <2>1, <2>2
<1>6. w \in W /\ port \in PortsOver(net, W)
  BY <1>5 DEF OneOver
<1>7. \A x : Made(Head(todo[t]), x) = Is(w, x) + Weight(port, x)
  BY DEF Made
<1> HIDE DEF w, port, rest
<1>8. ASSUME NEW x, IsFiniteSet(At(PendingEnds, x))
      PROVE  /\ IsFiniteSet(At(PendingEnds', x))
             /\ Count(PendingEnds', x) \in Nat
             /\ Count(PendingEnds, x) = Count(PendingEnds', x) + Is(w, x) + Weight(port, x)
  <2>1. PendingEnds = EndsPending(Threads, todo) /\ PendingEnds' = EndsPending(Threads, todo')
    BY DEF PendingEnds, EndsPending
  <2>2. PICK f, g, bs : f = todo /\ g = todo' /\ bs = todo[t]
    OBVIOUS
  <2>3. \A u \in Threads : f[u] \in ConnectsOver(net, W)
    BY <1>2, <2>2 DEF W
  <2>4. (\A u \in Threads : u # t => g[u] = f[u]) /\ rest = g[t] /\ bs = f[t]
    BY <1>2, <1>3, <2>2
  <2>5. IsFiniteSet(At(EndsPending(Threads, f), x))
    BY <1>8, <2>1, <2>2
  <2>6. /\ IsFiniteSet(At(EndsPending(Threads, g), x))
        /\ Count(EndsPending(Threads, g), x) \in Nat
        /\ Count(EndsPending(Threads, g), x) + Count(EndsIn(t, bs), x)
             = Count(EndsPending(Threads, f), x) + Count(EndsIn(t, rest), x)
    BY <1>5, <2>3, <2>4, <2>5, PendingChanged
  <2>7. Count(EndsIn(t, bs), x) = Is(w, x) + Weight(port, x) + Count(EndsIn(t, rest), x)
    BY <1>5, <1>7, <2>2
  <2>8. /\ Is(w, x) \in Nat /\ Weight(port, x) \in Nat /\ Count(EndsIn(t, rest), x) \in Nat
        /\ Count(EndsPending(Threads, f), x) \in Nat
    <3>1. Count(EndsIn(t, rest), x) \in Nat
      BY <1>5, CountUsed
    <3>2. Is(w, x) \in Nat /\ Weight(port, x) \in Nat
      BY DEF Is, Weight
    <3> QED
      BY <2>5, <3>1, <3>2, CountIsNat
  <2>9. Count(EndsPending(Threads, f), x) = Count(EndsPending(Threads, g), x) + Is(w, x) + Weight(port, x)
    BY <2>6, <2>7, <2>8
  <2> QED
    BY <2>1, <2>2, <2>6, <2>9
<1>9. w \in Wires /\ w \in 1..allocated
  BY <1>1, <1>6 DEF W
<1>10. uses[w] \in {0, 1}
  <2>1. /\ uses[w] \in Nat /\ Count(WaitingEnds, w) \in Nat
        /\ Count(PairEnds, w) \in Nat /\ Count(PendingEnds, w) \in Nat
        /\ Owed(w) \in {1, 2}
    BY <1>9, BalanceTyped
  <2>2. Finite(w) /\ Balance(w) <= Owed(w)
    BY <1>9 DEF NInv, Balanced
  <2>3. Count(PendingEnds, w) = Count(PendingEnds', w) + Is(w, w) + Weight(port, w) /\ Count(PendingEnds', w) \in Nat
    BY <1>8, <2>2 DEF Finite
  <2>4. Is(w, w) = 1 /\ Weight(port, w) \in Nat
    BY DEF Is, Weight
  <2> QED
    BY <2>1, <2>2, <2>3, <2>4 DEF Balance
<1>11. \A x \in Wires : uses'[x] = uses[x] + Is(w, x)
  BY <1>2, <1>3, <1>9, <1>10 DEF Is
<1>12. Observed' = Observed
  BY <1>3 DEF Observed
<1> DEFINE Kept == /\ target' \in [Wires -> PortsOver(net, W) \cup {NoPort}]
                   /\ \A v \in Wires : target'[v] = NoPort <=> uses'[v] = 0
                   /\ IsABag(active')
                   /\ BagToSet(active') \subseteq PortsOver(net, W) \X PortsOver(net, W)
           Moved(x) == /\ IsFiniteSet(At(WaitingEnds', x)) /\ IsFiniteSet(At(PairEnds', x))
                       /\ Count(WaitingEnds', x) \in Nat /\ Count(PairEnds', x) \in Nat
                       /\ Count(WaitingEnds', x) + Count(PairEnds', x)
                            = Count(WaitingEnds, x) + Count(PairEnds, x) + Weight(port, x)
<1>13. /\ Waiting = {v \in W : uses[v] = 1} /\ Waiting' = {v \in W : uses'[v] = 1}
       /\ WaitingEnds = EndsWaiting(Waiting, target) /\ WaitingEnds' = EndsWaiting(Waiting', target')
  BY <1>3 DEF Waiting, WaitingEnds, EndsWaiting, W
<1>14. W \subseteq Wires /\ \A x : Weight(port, x) \in Nat
  BY <1>1 DEF W, Weight, Is
<1>15. ASSUME target[w] = NoPort PROVE Kept /\ \A x : Finite(x) => Moved(x)
  <2>1. uses[w] = 0 /\ uses'[w] = 1
    BY <1>2, <1>3, <1>9, <1>15
  <2>2. /\ target' = [target EXCEPT ![w] = port] /\ active' = active
        /\ target'[w] = port /\ \A v \in Wires : v # w => target'[v] = target[v] /\ uses'[v] = uses[v]
    BY <1>2, <1>3, <1>9, <1>15
  <2>3. port # NoPort
    <3>1. PortsOver(net, W) \subseteq PortsOver(net, Wires)
      BY <1>14, Wider
    <3> QED
      BY <1>1, <1>6, <3>1
  <2>4. Kept
    <3>1. target' \in [Wires -> PortsOver(net, W) \cup {NoPort}]
      BY <1>2, <1>6, <2>2 DEF W
    <3>2. \A v \in Wires : target'[v] = NoPort <=> uses'[v] = 0
      BY <1>2, <2>1, <2>2, <2>3
    <3> QED
      BY <1>2, <2>2, <3>1, <3>2 DEF W
  <2>5. w \notin Waiting /\ Waiting' = Waiting \cup {w}
    <3>1. ASSUME NEW v PROVE v \in Waiting' <=> v \in Waiting \/ v = w
      BY <1>6, <1>13, <1>14, <2>1, <2>2
    <3> QED
      BY <1>13, <2>1, <3>1
  <2>6. ASSUME NEW x, Finite(x) PROVE Moved(x)
    <3>1. PICK S, R, f, g : /\ S = Waiting /\ R = Waiting' /\ f = target /\ g = target'
      OBVIOUS
    <3>2. w \notin S /\ R = S \cup {w} /\ (\A v \in S : g[v] = f[v]) /\ port = g[w]
      BY <1>13, <1>14, <2>2, <2>5, <3>1
    <3>3. IsFiniteSet(At(EndsWaiting(S, f), x))
      BY <1>13, <2>6, <3>1 DEF Finite
    <3>4. /\ IsFiniteSet(At(EndsWaiting(R, g), x))
          /\ Count(EndsWaiting(R, g), x) = Count(EndsWaiting(S, f), x) + Weight(port, x)
      BY <1>6, <3>2, <3>3, WaiterAdded
    <3>5. /\ IsFiniteSet(At(WaitingEnds', x))
          /\ Count(WaitingEnds', x) = Count(WaitingEnds, x) + Weight(port, x)
      BY <1>13, <3>1, <3>4
    <3>6. PairEnds' = PairEnds
      BY <2>2 DEF PairEnds, Copies
    <3>7. /\ Count(WaitingEnds, x) \in Nat /\ Count(PairEnds, x) \in Nat
          /\ Count(WaitingEnds', x) \in Nat /\ IsFiniteSet(At(PairEnds, x))
      BY <2>6, <3>5, CountIsNat DEF Finite
    <3> QED
      BY <1>14, <3>5, <3>6, <3>7
  <2> QED
    BY <2>4, <2>6
<1>16. ASSUME target[w] # NoPort PROVE Kept /\ \A x : Finite(x) => Moved(x)
  <2> DEFINE pair == <<target[w], port>>
             more == active (+) SetToBag({pair})
  <2>1. uses[w] = 1 /\ uses'[w] = 2
    BY <1>2, <1>3, <1>9, <1>10, <1>16
  <2>2. /\ target' = target /\ active' = more
        /\ \A v \in Wires : v # w => uses'[v] = uses[v]
    BY <1>2, <1>3, <1>16
  <2>3. target[w] \in PortsOver(net, W)
    BY <1>2, <1>9, <1>16 DEF W
  <2>4. /\ IsABag(more)
        /\ BagToSet(more) = BagToSet(active) \cup {pair}
        /\ \E k : /\ <<pair, k>> \notin CopiesOf(active)
                  /\ CopiesOf(more) = CopiesOf(active) \cup {<<pair, k>>}
    BY <1>2, PairPushed
  <2>5. pair \in PortsOver(net, W) \X PortsOver(net, W) /\ pair[1] = target[w] /\ pair[2] = port
    BY <1>6, <2>3
  <2> HIDE DEF more, pair
  <2>6. Kept
    <3>1. target' \in [Wires -> PortsOver(net, W) \cup {NoPort}]
      BY <1>2, <2>2 DEF W
    <3>2. \A v \in Wires : target'[v] = NoPort <=> uses'[v] = 0
      BY <1>2, <1>16, <2>1, <2>2
    <3>3. BagToSet(active) \subseteq PortsOver(net, W) \X PortsOver(net, W)
      BY <1>2 DEF W
    <3>4. BagToSet(active') \subseteq PortsOver(net, W) \X PortsOver(net, W)
      <4>1. PICK Z : Z = PortsOver(net, W) \X PortsOver(net, W)
        OBVIOUS
      <4> QED
        BY <2>2, <2>4, <2>5, <3>3, <4>1
    <3> QED
      BY <2>2, <2>4, <3>1, <3>2, <3>4
  <2>7. w \notin Waiting' /\ Waiting = Waiting' \cup {w}
    <3>1. ASSUME NEW v PROVE v \in Waiting <=> v \in Waiting' \/ v = w
      BY <1>6, <1>13, <1>14, <2>1, <2>2
    <3> QED
      BY <1>13, <2>1, <3>1
  <2>8. ASSUME NEW x, Finite(x) PROVE Moved(x)
    <3>1. PICK S, R, f, p : S = Waiting' /\ R = Waiting /\ f = target /\ p = target[w]
      OBVIOUS
    <3>2. w \notin S /\ R = S \cup {w} /\ p = f[w] /\ p \in PortsOver(net, W)
      BY <2>3, <2>7, <3>1
    <3>3. IsFiniteSet(At(EndsWaiting(R, f), x))
      BY <1>13, <2>8, <3>1 DEF Finite
    <3>4. IsFiniteSet(At(EndsWaiting(S, f), x))
      <4>1. EndsWaiting(S, f) \subseteq EndsWaiting(R, f)
        BY <3>2 DEF EndsWaiting
      <4> QED
        BY <3>3, <4>1, FewerEnds
    <3>5. Count(EndsWaiting(R, f), x) = Count(EndsWaiting(S, f), x) + Weight(p, x)
      <4>1. PICK g : g = f
        OBVIOUS
      <4>2. (\A v \in S : g[v] = f[v]) /\ p = g[w]
        BY <3>2, <4>1
      <4>3. Count(EndsWaiting(R, g), x) = Count(EndsWaiting(S, f), x) + Weight(p, x)
        BY <3>2, <3>4, <4>2, WaiterAdded
      <4> QED
        BY <4>1, <4>3
    <3>6. /\ IsFiniteSet(At(WaitingEnds', x))
          /\ Count(WaitingEnds, x) = Count(WaitingEnds', x) + Weight(p, x)
      BY <1>13, <2>2, <3>1, <3>4, <3>5
    <3>7. PICK k : /\ <<pair, k>> \notin CopiesOf(active)
                   /\ CopiesOf(more) = CopiesOf(active) \cup {<<pair, k>>}
      BY <2>4
    <3>8. PICK C, D, c : C = CopiesOf(active) /\ D = CopiesOf(more) /\ c = <<pair, k>>
      OBVIOUS
    <3>9. c \notin C /\ D = C \cup {c} /\ p = c[1][1] /\ port = c[1][2]
      BY <2>5, <3>1, <3>7, <3>8
    <3>10. PairEnds = EndsOfCopies(C) /\ PairEnds' = EndsOfCopies(D)
      <4>1. CopiesOf(active') = CopiesOf(more)
        BY <2>2
      <4>2. Copies = CopiesOf(active) /\ Copies' = CopiesOf(active')
        BY DEF Copies, CopiesOf
      <4> QED
        BY <3>8, <4>1, <4>2 DEF PairEnds, EndsOfCopies
    <3>11. IsFiniteSet(At(EndsOfCopies(C), x))
      BY <2>8, <3>10 DEF Finite
    <3>12. /\ IsFiniteSet(At(EndsOfCopies(D), x))
           /\ Count(EndsOfCopies(D), x) = Count(EndsOfCopies(C), x) + Weight(p, x) + Weight(port, x)
      BY <1>6, <3>2, <3>9, <3>11, CopyAdded
    <3>13. /\ IsFiniteSet(At(PairEnds', x))
           /\ Count(PairEnds', x) = Count(PairEnds, x) + Weight(p, x) + Weight(port, x)
      BY <3>10, <3>12
    <3>14. /\ Count(WaitingEnds', x) \in Nat /\ Count(PairEnds, x) \in Nat
           /\ Count(PairEnds', x) \in Nat
           /\ Weight(p, x) \in Nat
      BY <2>8, <3>6, <3>13, CountIsNat DEF Finite, Weight, Is
    <3> QED
      BY <1>14, <3>6, <3>13, <3>14
  <2> QED
    BY <2>6, <2>8
<1>17. Kept /\ \A x : Finite(x) => Moved(x)
  BY <1>15, <1>16
<1>18. Shaped'
  <2>1. todo' \in [Threads -> ConnectsOver(net, W)]
    BY <1>2, <1>3, <1>5 DEF W
  <2>2. uses' \in [Wires -> 0..2]
    <3>1. uses[w] + 1 \in 0..2
      BY <1>10
    <3> QED
      BY <1>2, <1>3, <1>9, <3>1
  <2>3. \A v \in Wires : v > allocated => uses'[v] = 0
    BY <1>1, <1>2, <1>3, <1>9
  <2> QED
    BY <1>2, <1>3, <1>17, <2>1, <2>2, <2>3 DEF Shaped, W
<1>19. Balanced'
  <2> SUFFICES ASSUME NEW x \in 1..allocated
               PROVE  /\ Finite(x)'
                      /\ Balance(x)' <= Owed(x)'
                      /\ ~raised' /\ ~net'.drops => Balance(x)' = Owed(x)'
    BY <1>3 DEF Balanced
  <2>1. /\ Finite(x) /\ Balance(x) <= Owed(x)
        /\ ~raised /\ ~net.drops => Balance(x) = Owed(x)
    BY DEF NInv, Balanced
  <2>2. /\ x \in Wires /\ uses[x] \in Nat /\ Count(WaitingEnds, x) \in Nat
        /\ Count(PairEnds, x) \in Nat /\ Count(PendingEnds, x) \in Nat
    BY BalanceTyped
  <2>3. Moved(x)
    BY <1>17, <2>1
  <2>4. /\ IsFiniteSet(At(PendingEnds', x)) /\ Count(PendingEnds', x) \in Nat
        /\ Count(PendingEnds, x) = Count(PendingEnds', x) + Is(w, x) + Weight(port, x)
    BY <1>8, <2>1 DEF Finite
  <2>5. Finite(x)'
    BY <2>3, <2>4 DEF Finite
  <2>6. uses'[x] = uses[x] + Is(w, x) /\ Is(w, x) \in Nat /\ Weight(port, x) \in Nat
    BY <1>11, <1>14, <2>2 DEF Is
  <2>7. Balance(x)' = uses'[x] + Count(WaitingEnds', x) + Count(PairEnds', x) + Count(PendingEnds', x)
    BY DEF Balance
  <2>8. Balance(x)' = Balance(x)
    BY <2>2, <2>3, <2>4, <2>6, <2>7 DEF Balance
  <2>9. Owed(x)' = Owed(x)
    BY <1>12 DEF Owed
  <2> QED
    BY <1>3, <2>1, <2>5, <2>8, <2>9
<1>20. Served'
  BY <1>6, <1>9, <1>10, ConnectServed DEF w
<1> QED
  BY <1>18, <1>19, <1>20 DEF NInv

(* A raising interaction takes its pair along: its wires lose their ends. *)
LEMMA RaiseBalanced == ASSUME NInv, NEW t \in Threads, Raise(t) PROVE NInv'
<1>1. PICK pair \in BagToSet(active) : active' = active (-) SetToBag({pair})
  BY DEF Raise
<1>2. /\ raised' = TRUE /\ net' = net /\ allocated' = allocated /\ target' = target
      /\ copied' = copied /\ uses' = uses /\ todo' = todo
  BY DEF Raise
<1> DEFINE less == active (-) SetToBag({pair})
<1>3. IsABag(active)
  BY DEF NInv, Shaped
<1>4. /\ IsABag(less) /\ BagToSet(less) \subseteq BagToSet(active)
      /\ CopiesOf(less) \subseteq CopiesOf(active)
  <2>1. /\ IsABag(less) /\ BagToSet(less) \subseteq BagToSet(active)
        /\ \E k : /\ <<pair, k>> \notin CopiesOf(less)
                  /\ CopiesOf(active) = CopiesOf(less) \cup {<<pair, k>>}
    BY <1>3, PairTaken
  <2> HIDE DEF less
  <2> QED
    BY <2>1
<1>5. active' = less
  BY <1>1
<1> HIDE DEF less
<1>6. Shaped'
  <2>1. BagToSet(active) \subseteq PortsOver(net, 1..allocated) \X PortsOver(net, 1..allocated)
    BY DEF NInv, Shaped
  <2>2. BagToSet(less) \subseteq PortsOver(net, 1..allocated) \X PortsOver(net, 1..allocated)
    <3>1. PICK Z : Z = PortsOver(net, 1..allocated) \X PortsOver(net, 1..allocated)
      OBVIOUS
    <3> QED
      BY <1>4, <2>1, <3>1
  <2> QED
    BY <1>2, <1>4, <1>5, <2>2 DEF NInv, Shaped
<1>7. PairEnds' \subseteq PairEnds /\ WaitingEnds' = WaitingEnds /\ PendingEnds' = PendingEnds
  <2>1. Copies = CopiesOf(active) /\ Copies' = CopiesOf(less)
    BY <1>5 DEF Copies, CopiesOf
  <2>2. Copies' \subseteq Copies
    BY <1>4, <2>1
  <2>3. PairEnds = EndsOfCopies(Copies) /\ PairEnds' = EndsOfCopies(Copies')
    BY DEF PairEnds, EndsOfCopies
  <2>4. ASSUME NEW C, NEW D, C \subseteq D PROVE EndsOfCopies(C) \subseteq EndsOfCopies(D)
    BY <2>4 DEF EndsOfCopies
  <2>5. PairEnds' \subseteq PairEnds
    BY <2>2, <2>3, <2>4
  <2> QED
    BY <1>2, <2>5 DEF WaitingEnds, Waiting, PendingEnds
<1>8. Balanced'
  <2> SUFFICES ASSUME NEW x \in 1..allocated PROVE Finite(x)' /\ Balance(x)' <= Owed(x)'
    BY <1>2 DEF Balanced
  <2>1. Finite(x) /\ Balance(x) <= Owed(x)
    BY DEF NInv, Balanced
  <2>2. /\ uses[x] \in Nat /\ Count(WaitingEnds, x) \in Nat
        /\ Count(PairEnds, x) \in Nat /\ Count(PendingEnds, x) \in Nat /\ Owed(x) \in {1, 2}
    BY BalanceTyped
  <2>3. IsFiniteSet(At(PairEnds', x)) /\ Count(PairEnds', x) \in Nat /\ Count(PairEnds', x) <= Count(PairEnds, x)
    <3>1. At(PairEnds', x) \in SUBSET At(PairEnds, x) /\ IsFiniteSet(At(PairEnds, x))
      BY <1>7, <2>1 DEF At, Finite
    <3>2. IsFiniteSet(At(PairEnds', x)) /\ Cardinality(At(PairEnds', x)) <= Cardinality(At(PairEnds, x))
      BY <3>1, FS_Subset
    <3>3. /\ Count(PairEnds', x) = Cardinality(At(PairEnds', x))
          /\ Count(PairEnds, x) = Cardinality(At(PairEnds, x))
      BY DEF Count, At
    <3> QED
      BY <3>2, <3>3, CountIsNat
  <2>4. Finite(x)'
    BY <1>7, <2>1, <2>3 DEF Finite
  <2>5. Balance(x)' = uses[x] + Count(WaitingEnds, x) + Count(PairEnds', x) + Count(PendingEnds, x)
    BY <1>2, <1>7 DEF Balance
  <2>6. Owed(x)' = Owed(x)
    BY <1>2 DEF Owed, Observed
  <2> QED
    BY <2>1, <2>2, <2>3, <2>4, <2>5, <2>6 DEF Balance
<1>9. Served'
  <2>1. Waiting' = Waiting /\ \A x : Meeting(x)' = Meeting(x)
    BY <1>2 DEF Meeting, Waiting
  <2>2. BagToSet(active') \subseteq BagToSet(active)
    BY <1>4, <1>5
  <2>3. Holding' \subseteq Holding
    BY <1>2, <2>1, <2>2 DEF Holding
  <2> QED
    BY <1>2, <2>1, <2>2, <2>3, ServedKept DEF NInv
<1> QED
  BY <1>6, <1>8, <1>9 DEF NInv

LEMMA Unchanged == ASSUME NInv, UNCHANGED vars PROVE NInv'
<1>1. /\ net' = net /\ allocated' = allocated /\ target' = target /\ copied' = copied
      /\ uses' = uses /\ active' = active /\ todo' = todo /\ raised' = raised
  BY DEF vars
<1>2. Shaped'
  BY <1>1 DEF NInv, Shaped
<1>3. Observed' = Observed /\ WaitingEnds' = WaitingEnds /\ PairEnds' = PairEnds /\ PendingEnds' = PendingEnds
  BY <1>1 DEF Observed, WaitingEnds, Waiting, PairEnds, Copies, PendingEnds
<1>4. Balanced'
  <2> SUFFICES ASSUME NEW x \in 1..allocated
               PROVE  /\ Finite(x)'
                      /\ Balance(x)' <= Owed(x)'
                      /\ ~raised' /\ ~net'.drops => Balance(x)' = Owed(x)'
    BY <1>1 DEF Balanced
  <2>1. Finite(x)' <=> Finite(x)
    BY <1>3 DEF Finite
  <2>2. Balance(x)' = Balance(x) /\ Owed(x)' = Owed(x)
    BY <1>1, <1>3 DEF Balance, Owed
  <2> QED
    BY <1>1, <2>1, <2>2 DEF NInv, Balanced
<1>5. Served'
  <2>1. Waiting' = Waiting /\ \A x : Meeting(x)' = Meeting(x)
    BY <1>1 DEF Meeting, Waiting
  <2>2. Holding' = Holding
    BY <1>1, <2>1 DEF Holding
  <2> QED
    BY <1>1, <2>1, <2>2, ServedKept DEF NInv
<1> QED
  BY <1>2, <1>4, <1>5 DEF NInv

LEMMA NextBalanced == ASSUME NInv, [Next]_vars PROVE NInv'
<1>1. ASSUME NEW t \in Threads, Step(t) PROVE NInv'
  BY <1>1, BeginBalanced, RaiseBalanced, ConnectBalanced DEF Step
<1>2. CASE UNCHANGED vars
  BY <1>2, Unchanged
<1> QED
  BY <1>1, <1>2 DEF Next, Stopped

-----------------------------------------------------------------------------
(* What the invariant means for the wires and for the types of the state.  *)
LEMMA BalancedIsLinear == ASSUME NInv PROVE WiresLinear
<1> SUFFICES ASSUME ~raised, ~net.drops, NEW x \in (1..allocated) \ Shared
             PROVE  Balance(x) = Owed(x)
  BY DEF WiresLinear, Balance, Owed
<1> QED
  BY DEF NInv, Balanced

LEMMA BalancedIsTyped == ASSUME NInv PROVE TypeOK
<1>1. /\ net.wires \in Nat /\ MaxWires \in Nat /\ net.wires <= allocated
      /\ allocated \in Nat /\ allocated <= MaxWires
      /\ 1..allocated \subseteq Wires
      /\ Observed \subseteq 1..net.wires
  BY Assumed DEF NInv
<1> DEFINE W == 1..allocated
<1>2. ASSUME NEW p \in PortsOver(net, W) PROVE IsPort(p)
  <2>1. /\ p.kind \in PortKinds /\ p.wires \in Seq(W) /\ Len(p.wires) \in {0, 1, 2}
        /\ p.kind = "graft" => p.label \in DOMAIN net.expansions
    <3> HIDE DEF W
    <3> QED
      BY PortTyped
  <2>2. Len(p.wires) <= 2
    <3> DEFINE k == Len(p.wires)
    <3>1. k \in {0, 1, 2}
      BY <2>1
    <3> HIDE DEF k
    <3>2. k <= 2
      BY <3>1
    <3> QED
      BY <3>2 DEF k
  <2>3. \A i \in DOMAIN p.wires : p.wires[i] \in W
    <3> HIDE DEF W
    <3> QED
      BY <2>1
  <2> QED
    BY <2>1, <2>2, <2>3 DEF IsPort
<1>3. \A w \in W : uses[w] <= 2 /\ (target[w] = NoPort \/ IsPort(target[w]))
  <2> SUFFICES ASSUME NEW w \in W PROVE uses[w] <= 2 /\ (target[w] = NoPort \/ IsPort(target[w]))
    OBVIOUS
  <2>1. w \in Wires
    BY <1>1
  <2>2. uses[w] \in 0..2 /\ target[w] \in PortsOver(net, W) \cup {NoPort}
    BY <2>1 DEF NInv, Shaped
  <2> QED
    BY <1>2, <2>2
<1>4. \A w \in (allocated + 1)..MaxWires : target[w] = NoPort /\ uses[w] = 0
  BY <1>1 DEF NInv, Shaped, Wires
<1>5. \A pair \in BagToSet(active) : IsPort(pair[1]) /\ IsPort(pair[2])
  <2>1. \A pair \in BagToSet(active) : pair[1] \in PortsOver(net, W) /\ pair[2] \in PortsOver(net, W)
    BY DEF NInv, Shaped
  <2> QED
    BY <1>2, <2>1
<1>6. \A t \in Threads : \A connect \in ToSet(todo[t]) : connect.wire \in W /\ IsPort(connect.port)
  <2> SUFFICES ASSUME NEW t \in Threads, NEW connect \in ToSet(todo[t])
               PROVE  connect.wire \in W /\ IsPort(connect.port)
    OBVIOUS
  <2>1. PICK cs \in ConnectsOver(net, W) : cs = todo[t]
    BY DEF NInv, Shaped
  <2>2. PICK i \in DOMAIN cs : connect = cs[i]
    BY <2>1 DEF ToSet
  <2>3. connect \in OneOver(net, W)
    <3> DEFINE C == OneOver(net, W)
    <3>1. cs \in Seq(C)
      BY DEF ConnectsOver, OneOver
    <3> HIDE DEF C
    <3> QED
      BY <2>2, <3>1 DEF C
  <2> QED
    BY <1>2, <2>3 DEF OneOver
<1> QED
  BY <1>1, <1>3, <1>4, <1>5, <1>6 DEF NInv, Shaped, TypeOK

-----------------------------------------------------------------------------
(* Wires are linear in every reduction of a net that does not depend on    *)
(* what arrives first: every wire has two ends, one if the caller keeps    *)
(* the other to observe it, each of them connected once or still held by   *)
(* exactly one port that waits, stands in an active pair or is to be       *)
(* connected, whichever workers execute which interactions in which order  *)
(* (interactions.py, connector.py).                                        *)
THEOREM NetsLinear == Spec /\ Deterministic(net) => []WiresLinear
<1>1. Init /\ Deterministic(net) => NInv
  BY InitBalanced
<1>2. NInv /\ [Next]_vars => NInv'
  BY NextBalanced
<1>3. NInv => WiresLinear
  BY BalancedIsLinear
<1> QED
  BY <1>1, <1>2, <1>3, PTL DEF Spec

(* Type correctness of these reductions: ports over wires that are         *)
(* allocated, and no wire connected a third time.                          *)
THEOREM NetTypesAlways == Spec /\ Deterministic(net) => []TypeOK
<1>1. Init /\ Deterministic(net) => NInv
  BY InitBalanced
<1>2. NInv /\ [Next]_vars => NInv'
  BY NextBalanced
<1>3. NInv => TypeOK
  BY BalancedIsTyped
<1> QED
  BY <1>1, <1>2, <1>3, PTL DEF Spec

=============================================================================
