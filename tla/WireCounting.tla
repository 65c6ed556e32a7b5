------------------------------ MODULE WireCounting ------------------------------
(***************************************************************************)
(* Lemmas about the ends of wires that ports and connects hold: how many   *)
(* there are of a wire, and what renaming the wires of a sequence of       *)
(* connects changes.  InteractionNetProofs counts with them.               *)
(***************************************************************************)
EXTENDS InteractionNet, SequenceTheorems, FiniteSetTheorems, FunctionTheorems, TLAPS

Is(a, x) == IF a = x THEN 1 ELSE 0

(* How often a port, and a connect, has a wire. *)
Weight(p, x) ==
    IF Len(p.wires) = 0 THEN 0
    ELSE IF Len(p.wires) = 1 THEN Is(p.wires[1], x)
    ELSE Is(p.wires[1], x) + Is(p.wires[2], x)

(* The connects of a port that has wires of W, to one of them. *)
OneOver(n, W) == [wire : W, port : PortsOver(n, W)]

Made(c, x) == Is(c.wire, x) + Weight(c.port, x)

At(ends, x) == {e \in ends : e.wire = x}

End(h, i, w) == [holder |-> h, nth |-> i, wire |-> w]

(* The ends that one connect makes, of those that k others come after.     *)
EndsOf(t, k, c) == Ends(<<t, k>>, c.port) \cup {End(<<t, k>>, 0, c.wire)}

-----------------------------------------------------------------------------
(* Counting ends. *)
LEMMA CountUnion ==
    ASSUME NEW A, NEW B, NEW x, A \cap B = {}, IsFiniteSet(At(A, x)), IsFiniteSet(At(B, x))
    PROVE  /\ Count(A \cup B, x) = Count(A, x) + Count(B, x)
           /\ IsFiniteSet(At(A \cup B, x))
<1>1. At(A \cup B, x) = At(A, x) \cup At(B, x) /\ At(A, x) \cap At(B, x) = {}
  BY DEF At
<1>2. /\ Cardinality(At(A, x)) \in Nat
      /\ Cardinality(At(B, x)) \in Nat
  BY FS_CardinalityType
<1>3. Cardinality({}) = 0
  BY FS_EmptySet
<1>4. /\ IsFiniteSet(At(A, x) \cup At(B, x))
      /\ Cardinality(At(A, x) \cup At(B, x))
           = Cardinality(At(A, x)) + Cardinality(At(B, x)) - Cardinality({})
  BY <1>1, FS_Union
<1>5. Count(A, x) = Cardinality(At(A, x)) /\ Count(B, x) = Cardinality(At(B, x))
      /\ Count(A \cup B, x) = Cardinality(At(A \cup B, x))
  BY DEF At, Count
<1>6. IsFiniteSet(At(A \cup B, x))
  BY <1>1, <1>4, Zenon
<1>7. Cardinality(At(A \cup B, x)) = Cardinality(At(A, x)) + Cardinality(At(B, x)) - 0
  BY <1>1, <1>3, <1>4, Zenon
<1>8. Count(A \cup B, x) = Count(A, x) + Count(B, x)
  BY <1>2, <1>5, <1>7
<1> QED
  BY <1>6, <1>8

LEMMA CountIsNat ==
    ASSUME NEW A, NEW x, IsFiniteSet(At(A, x))
    PROVE  Count(A, x) \in Nat
BY FS_CardinalityType DEF At, Count

LEMMA FewerEnds ==
    ASSUME NEW A, NEW B, NEW x, A \subseteq B, IsFiniteSet(At(B, x))
    PROVE  IsFiniteSet(At(A, x))
<1>1. At(A, x) \in SUBSET At(B, x)
  BY DEF At
<1> QED
  BY <1>1, FS_Subset

LEMMA CountOne ==
    ASSUME NEW h, NEW i, NEW w, NEW x
    PROVE  IsFiniteSet(At({End(h, i, w)}, x)) /\ Count({End(h, i, w)}, x) = Is(w, x)
<1>1. At({End(h, i, w)}, x) = IF w = x THEN {End(h, i, w)} ELSE {}
  BY DEF At, End
<1>2. Count({End(h, i, w)}, x) = Cardinality(At({End(h, i, w)}, x))
  BY DEF At, Count
<1>3. /\ IsFiniteSet({}) /\ Cardinality({}) = 0
      /\ IsFiniteSet({End(h, i, w)}) /\ Cardinality({End(h, i, w)}) = 1
  BY FS_EmptySet, FS_Singleton
<1> QED
  BY <1>1, <1>2, <1>3 DEF Is

LEMMA CountNone ==
    ASSUME NEW A, NEW x, \A e \in A : e.wire # x
    PROVE  IsFiniteSet(At(A, x)) /\ Count(A, x) = 0
<1>1. At(A, x) = {}
  BY DEF At
<1> QED
  BY <1>1, FS_EmptySet DEF At, Count

(* A port holds as many ends as it has wires, whoever holds the port. *)
LEMMA CountPort ==
    ASSUME NEW n, NEW W, NEW p \in PortsOver(n, W), NEW h, NEW x
    PROVE  IsFiniteSet(At(Ends(h, p), x)) /\ Count(Ends(h, p), x) = Weight(p, x)
<1>1. p.wires \in Seq(W)
  BY DEF PortsOver
<1>2. Len(p.wires) \in {0, 1, 2}
  BY DEF PortsOver, Arity
<1> DEFINE end(i) == End(h, i, p.wires[i])
<1>3. CASE Len(p.wires) = 0
  <2>1. Ends(h, p) = {}
    BY <1>1, <1>3 DEF Ends, End
  <2> QED
    BY <1>3, <2>1, CountNone DEF Weight
<1>4. CASE Len(p.wires) = 1
  <2>1. DOMAIN p.wires = {1}
    BY <1>1, <1>4
  <2>2. Ends(h, p) = {end(1)}
    BY <2>1 DEF Ends, End
  <2>3. IsFiniteSet(At({end(1)}, x)) /\ Count({end(1)}, x) = Is(p.wires[1], x)
    BY CountOne
  <2> HIDE DEF end
  <2> QED
    BY <1>4, <2>2, <2>3 DEF Weight
<1>5. CASE Len(p.wires) = 2
  <2>1. DOMAIN p.wires = {1, 2}
    BY <1>1, <1>5
  <2> DEFINE one == {end(1)}
             two == {end(2)}
  <2>2. Ends(h, p) = one \cup two
    BY <2>1 DEF Ends, End
  <2>3. one \cap two = {}
    BY DEF End
  <2>4. /\ IsFiniteSet(At(one, x)) /\ Count(one, x) = Is(p.wires[1], x)
        /\ IsFiniteSet(At(two, x)) /\ Count(two, x) = Is(p.wires[2], x)
    BY CountOne
  <2> HIDE DEF one, two
  <2>5. IsFiniteSet(At(Ends(h, p), x)) /\ Count(Ends(h, p), x) = Count(one, x) + Count(two, x)
    BY <2>2, <2>3, <2>4, CountUnion
  <2> QED
    BY <1>5, <2>4, <2>5 DEF Weight
<1> QED
  BY <1>2, <1>3, <1>4, <1>5

LEMMA CountConnect ==
    ASSUME NEW n, NEW W, NEW c \in OneOver(n, W), NEW t, NEW k, NEW x
    PROVE  /\ IsFiniteSet(At(EndsOf(t, k, c), x))
           /\ Count(EndsOf(t, k, c), x) = Made(c, x)
           /\ Made(c, x) \in Nat
<1> DEFINE own == {End(<<t, k>>, 0, c.wire)}
<1>0. c.port \in PortsOver(n, W)
  BY DEF OneOver
<1>1. Ends(<<t, k>>, c.port) \cap own = {}
  <2>1. 0 \notin DOMAIN c.port.wires
    BY <1>0 DEF PortsOver
  <2> QED
    BY <2>1 DEF Ends, End
<1>2. IsFiniteSet(At(own, x)) /\ Count(own, x) = Is(c.wire, x)
  BY CountOne
<1>3. /\ IsFiniteSet(At(Ends(<<t, k>>, c.port), x))
      /\ Count(Ends(<<t, k>>, c.port), x) = Weight(c.port, x)
  BY <1>0, CountPort
<1>4. EndsOf(t, k, c) = Ends(<<t, k>>, c.port) \cup own
  BY DEF EndsOf
<1>5. Made(c, x) = Is(c.wire, x) + Weight(c.port, x)
  BY DEF Made
<1>6. Is(c.wire, x) \in Nat /\ Weight(c.port, x) \in Nat
  BY DEF Is, Weight
<1> HIDE DEF own
<1> QED
  BY <1>1, <1>2, <1>3, <1>4, <1>5, <1>6, CountUnion

-----------------------------------------------------------------------------
(* The ends of a sequence of connects that k others come after. *)
EndsFrom(t, k, cs) == UNION {EndsOf(t, k + Len(cs) - i, cs[i]) : i \in DOMAIN cs}

LEMMA FromNowhere == ASSUME NEW t, NEW S, NEW cs \in Seq(S) PROVE EndsIn(t, cs) = EndsFrom(t, 0, cs)
<1>1. \A i \in DOMAIN cs :
        EndsOf(t, 0 + Len(cs) - i, cs[i])
          = Ends(<<t, Len(cs) - i>>, cs[i].port)
              \cup {[holder |-> <<t, Len(cs) - i>>, nth |-> 0, wire |-> cs[i].wire]}
  BY DEF EndsOf, End
<1> QED
  BY <1>1 DEF EndsIn, EndsFrom

LEMMA MembersTyped ==
    ASSUME NEW n, NEW W, NEW cs \in ConnectsOver(n, W)
    PROVE  /\ Len(cs) \in Nat /\ DOMAIN cs = 1..Len(cs)
           /\ \A i \in 1..Len(cs) : cs[i] \in OneOver(n, W)
           /\ \A i \in 1..Len(cs) : cs[i].wire \in W /\ cs[i].port \in PortsOver(n, W)
<1> DEFINE C == OneOver(n, W)
<1>1. cs \in Seq(C)
  BY DEF ConnectsOver, OneOver
<1>2. \A c \in C : c.wire \in W /\ c.port \in PortsOver(n, W)
  BY DEF OneOver
<1> HIDE DEF C
<1>3. /\ Len(cs) \in Nat /\ DOMAIN cs = 1..Len(cs)
      /\ \A i \in 1..Len(cs) : cs[i] \in C
  BY <1>1
<1> QED
  BY <1>2, <1>3 DEF C

(* The j-th end that a connect makes is of the wire x. *)
Names(c, j, x) == IF j = 0 THEN c.wire = x ELSE j \in DOMAIN c.port.wires /\ c.port.wires[j] = x

LEMMA EndMembers ==
    ASSUME NEW n, NEW W, NEW cs \in ConnectsOver(n, W), NEW t, NEW k \in Nat, NEW e
    PROVE  e \in EndsFrom(t, k, cs) <=>
             \E i \in 1..Len(cs) : \E j \in 0..2 :
                /\ j = 0 \/ j \in DOMAIN cs[i].port.wires
                /\ e = End(<<t, k + Len(cs) - i>>, j,
                           IF j = 0 THEN cs[i].wire ELSE cs[i].port.wires[j])
<1>1. \A i \in 1..Len(cs) : cs[i].port \in PortsOver(n, W)
  BY MembersTyped
<1>2. \A p \in PortsOver(n, W) : DOMAIN p.wires \subseteq 1..2
  <2> TAKE p \in PortsOver(n, W)
  <2>1. DOMAIN p.wires = 1..Len(p.wires) /\ Len(p.wires) \in {0, 1, 2}
    BY DEF PortsOver, Arity
  <2> QED
    BY <2>1
<1>3. DOMAIN cs = 1..Len(cs)
  BY MembersTyped
<1>4. ASSUME NEW i \in 1..Len(cs)
      PROVE  e \in EndsOf(t, k + Len(cs) - i, cs[i]) <=>
               \E j \in 0..2 :
                /\ j = 0 \/ j \in DOMAIN cs[i].port.wires
                /\ e = End(<<t, k + Len(cs) - i>>, j,
                           IF j = 0 THEN cs[i].wire ELSE cs[i].port.wires[j])
  <2>1. DOMAIN cs[i].port.wires \subseteq 1..2
    BY <1>1, <1>2
  <2> QED
    BY <2>1 DEF EndsOf, Ends, End
<1>5. e \in EndsFrom(t, k, cs) <=> \E i \in 1..Len(cs) : e \in EndsOf(t, k + Len(cs) - i, cs[i])
  BY <1>3 DEF EndsFrom
<1> QED
  BY <1>4, <1>5, Zenon

(* The end e of the wire x is one that the connects make. *)
Makes(cs, t, k, x, e) ==
    \E i \in 1..Len(cs) : \E j \in 0..2 :
        Names(cs[i], j, x) /\ e = End(<<t, k + Len(cs) - i>>, j, x)

LEMMA AtMembers ==
    ASSUME NEW n, NEW W, NEW cs \in ConnectsOver(n, W), NEW t, NEW k \in Nat, NEW x
    PROVE  \A e : e \in At(EndsFrom(t, k, cs), x) <=> Makes(cs, t, k, x, e)
<1> TAKE e
<1>1. \A h, j, w : End(h, j, w).wire = w
  BY DEF End
<1>2. e \in At(EndsFrom(t, k, cs), x) <=> e \in EndsFrom(t, k, cs) /\ e.wire = x
  BY DEF At
<1>3. ASSUME e \in At(EndsFrom(t, k, cs), x)
      PROVE  \E i \in 1..Len(cs) : \E j \in 0..2 :
                Names(cs[i], j, x) /\ e = End(<<t, k + Len(cs) - i>>, j, x)
  <2>1. PICK i \in 1..Len(cs), j \in 0..2 :
                /\ j = 0 \/ j \in DOMAIN cs[i].port.wires
                /\ e = End(<<t, k + Len(cs) - i>>, j,
                           IF j = 0 THEN cs[i].wire ELSE cs[i].port.wires[j])
    BY <1>2, <1>3, EndMembers
  <2>2. x = IF j = 0 THEN cs[i].wire ELSE cs[i].port.wires[j]
    BY <1>1, <1>2, <1>3, <2>1
  <2> QED
    BY <2>1, <2>2 DEF Names
<1>4. ASSUME NEW i \in 1..Len(cs), NEW j \in 0..2,
             Names(cs[i], j, x), e = End(<<t, k + Len(cs) - i>>, j, x)
      PROVE  e \in At(EndsFrom(t, k, cs), x)
  <2>1. x = IF j = 0 THEN cs[i].wire ELSE cs[i].port.wires[j]
    BY <1>4 DEF Names
  <2>2. j = 0 \/ j \in DOMAIN cs[i].port.wires
    BY <1>4 DEF Names
  <2>3. e = End(<<t, k + Len(cs) - i>>, j, IF j = 0 THEN cs[i].wire ELSE cs[i].port.wires[j])
    BY <1>4, <2>1
  <2>4. e \in EndsFrom(t, k, cs)
    BY <2>2, <2>3, EndMembers
  <2> QED
    BY <1>1, <1>2, <1>4, <2>4
<1> QED
  BY <1>3, <1>4 DEF Makes

LEMMA EndsFinite ==
    ASSUME NEW n, NEW W, NEW cs \in ConnectsOver(n, W), NEW t, NEW k \in Nat, NEW x
    PROVE  IsFiniteSet(At(EndsFrom(t, k, cs), x))
<1> DEFINE A == At(EndsFrom(t, k, cs), x)
           B == (0..(k + Len(cs))) \X (0..2)
           place == [e \in A |-> <<e.holder[2], e.nth>>]
<1>0. Len(cs) \in Nat
  BY MembersTyped
<1>1. \A e \in A : Makes(cs, t, k, x, e)
  BY AtMembers
<1>2. \A e \in A : /\ e = End(<<t, e.holder[2]>>, e.nth, x)
                   /\ e.holder[2] \in 0..(k + Len(cs))
                   /\ e.nth \in 0..2
  <2> TAKE e \in A
  <2>1. PICK i \in 1..Len(cs), j \in 0..2 : e = End(<<t, k + Len(cs) - i>>, j, x)
    BY <1>1 DEF Makes
  <2>2. k + Len(cs) - i \in 0..(k + Len(cs))
    BY <1>0
  <2>3. e.holder[2] = k + Len(cs) - i /\ e.nth = j
    BY <2>1 DEF End
  <2> QED
    BY <2>1, <2>2, <2>3
<1> HIDE DEF A
<1>3. place \in [A -> B]
  BY <1>2
<1>4. ASSUME NEW d \in A, NEW e \in A, place[d] = place[e] PROVE d = e
  <2>1. d.holder[2] = e.holder[2] /\ d.nth = e.nth
    BY <1>4
  <2> QED
    BY <1>2, <2>1
<1>5. place \in Injection(A, B)
  BY <1>3, <1>4 DEF Injection, IsInjective
<1>6. IsFiniteSet(B)
  <2>1. 0 \in Int /\ 2 \in Int /\ k + Len(cs) \in Int
    BY <1>0
  <2>2. IsFiniteSet(0..(k + Len(cs))) /\ IsFiniteSet(0..2)
    BY <2>1, FS_Interval, Zenon
  <2> QED
    BY <2>2, FS_Product
<1> HIDE DEF B, place
<1>7. IsFiniteSet(A)
  BY <1>5, <1>6, FS_Injection
<1> QED
  BY <1>7 DEF A

(* Connects of the same shape make as many ends of a wire as the others of *)
(* the wire that stands in its place.                                      *)
LEMMA SameCount ==
    ASSUME NEW n, NEW W, NEW cs \in ConnectsOver(n, W), NEW k \in Nat, NEW x,
           NEW V, NEW ds \in ConnectsOver(n, V), NEW m \in Nat, NEW y, NEW t, NEW u,
           Len(cs) = Len(ds),
           \A i \in 1..Len(cs) : \A j \in 0..2 : Names(cs[i], j, x) <=> Names(ds[i], j, y)
    PROVE  Count(EndsFrom(t, k, cs), x) = Count(EndsFrom(u, m, ds), y)
<1> DEFINE A == At(EndsFrom(t, k, cs), x)
           B == At(EndsFrom(u, m, ds), y)
           L == Len(cs)
           f == [e \in A |-> End(<<u, e.holder[2] - k + m>>, e.nth, y)]
<1>0. L \in Nat
  BY MembersTyped
<1>1. \A e : e \in A <=> Makes(cs, t, k, x, e)
  BY AtMembers
<1>2. \A e : e \in B <=> Makes(ds, u, m, y, e)
  BY AtMembers
<1> HIDE DEF A, B
<1>3. ASSUME NEW i \in 1..L, NEW j \in 0..2, NEW e \in A, e = End(<<t, k + L - i>>, j, x)
      PROVE  f[e] = End(<<u, m + L - i>>, j, y)
  <2>1. e.holder[2] = k + L - i /\ e.nth = j
    BY <1>3 DEF End
  <2>2. e.holder[2] - k + m = m + L - i
    BY <1>0, <2>1
  <2>3. f[e] = End(<<u, e.holder[2] - k + m>>, e.nth, y)
    OBVIOUS
  <2> QED
    BY <2>1, <2>2, <2>3
<1> HIDE DEF L
<1>4. \A e \in A : f[e] \in B
  <2> TAKE e \in A
  <2>1. PICK i \in 1..L, j \in 0..2 : Names(cs[i], j, x) /\ e = End(<<t, k + L - i>>, j, x)
    BY <1>1 DEF Makes, L
  <2>2. f[e] = End(<<u, m + L - i>>, j, y) /\ Names(ds[i], j, y)
    BY <1>3, <2>1 DEF L
  <2> HIDE DEF f
  <2>3. Makes(ds, u, m, y, f[e])
    BY <2>2 DEF Makes, L
  <2> QED
    BY <1>2, <2>3
<1>5. ASSUME NEW d \in A, NEW e \in A, f[d] = f[e] PROVE d = e
  <2>1. PICK i1 \in 1..L, j1 \in 0..2 : d = End(<<t, k + L - i1>>, j1, x)
    BY <1>1 DEF Makes, L
  <2>2. PICK i2 \in 1..L, j2 \in 0..2 : e = End(<<t, k + L - i2>>, j2, x)
    BY <1>1 DEF Makes, L
  <2>3. End(<<u, m + L - i1>>, j1, y) = End(<<u, m + L - i2>>, j2, y)
    BY <1>3, <1>5, <2>1, <2>2
  <2>4. m + L - i1 = m + L - i2 /\ j1 = j2
    BY <2>3 DEF End
  <2>5. i1 = i2
    BY <1>0, <2>4
  <2> QED
    BY <2>1, <2>2, <2>4, <2>5
<1>6. ASSUME NEW d \in B PROVE \E e \in A : f[e] = d
  <2>1. PICK i \in 1..L, j \in 0..2 : Names(ds[i], j, y) /\ d = End(<<u, m + L - i>>, j, y)
    BY <1>2 DEF Makes, L
  <2>2. Names(cs[i], j, x)
    BY <2>1 DEF L
  <2>3. Makes(cs, t, k, x, End(<<t, k + L - i>>, j, x))
    BY <2>2 DEF Makes, L
  <2>4. End(<<t, k + L - i>>, j, x) \in A
    BY <1>1, <2>3
  <2> QED
    BY <1>3, <2>1, <2>4
<1>7. f \in Bijection(A, B)
  <2>1. f \in [A -> B]
    BY <1>4
  <2> QED
    BY <1>5, <1>6, <2>1 DEF Bijection, Injection, Surjection, IsInjective
<1>8. IsFiniteSet(A)
  BY EndsFinite DEF A
<1> HIDE DEF f
<1>9. Cardinality(A) = Cardinality(B)
  BY <1>7, <1>8, FS_Bijection DEF ExistsBijection
<1> QED
  BY <1>9 DEF A, B, At, Count

(* Whoever has to make the connects. *)
LEMMA CountAnyones ==
    ASSUME NEW n, NEW W, NEW cs \in ConnectsOver(n, W), NEW t, NEW u, NEW x
    PROVE  Count(EndsIn(t, cs), x) = Count(EndsIn(u, cs), x)
<1>1. EndsIn(t, cs) = EndsFrom(t, 0, cs) /\ EndsIn(u, cs) = EndsFrom(u, 0, cs)
  BY FromNowhere DEF ConnectsOver
<1>2. Count(EndsFrom(t, 0, cs), x) = Count(EndsFrom(u, 0, cs), x)
  BY SameCount
<1> QED
  BY <1>1, <1>2

LEMMA CountConcat ==
    ASSUME NEW n, NEW W, NEW a \in ConnectsOver(n, W), NEW b \in ConnectsOver(n, W), NEW t, NEW x
    PROVE  /\ a \o b \in ConnectsOver(n, W)
           /\ Count(EndsIn(t, a \o b), x) = Count(EndsIn(t, a), x) + Count(EndsIn(t, b), x)
<1> DEFINE C == OneOver(n, W)
<1>1. a \in Seq(C) /\ b \in Seq(C)
  BY DEF ConnectsOver, OneOver
<1> HIDE DEF C
<1>2. /\ a \o b \in Seq(C) /\ Len(a) \in Nat /\ Len(b) \in Nat
      /\ Len(a \o b) = Len(a) + Len(b)
      /\ \A i \in 1..Len(a) : (a \o b)[i] = a[i]
      /\ \A i \in 1..Len(b) : (a \o b)[Len(a) + i] = b[i]
  BY <1>1
<1>3. a \o b \in ConnectsOver(n, W)
  BY <1>2 DEF C, ConnectsOver
<1> DEFINE front == EndsFrom(t, Len(b), a)
           back == EndsFrom(t, 0, b)
           whole == EndsFrom(t, 0, a \o b)
<1>4. \A e : /\ e \in At(front, x) <=> Makes(a, t, Len(b), x, e)
             /\ e \in At(back, x) <=> Makes(b, t, 0, x, e)
             /\ e \in At(whole, x) <=> Makes(a \o b, t, 0, x, e)
  <2>1. \A e : e \in At(front, x) <=> Makes(a, t, Len(b), x, e)
    BY <1>2, AtMembers
  <2>2. \A e : e \in At(back, x) <=> Makes(b, t, 0, x, e)
    BY AtMembers
  <2>3. \A e : e \in At(whole, x) <=> Makes(a \o b, t, 0, x, e)
    BY <1>3, AtMembers
  <2> QED
    BY <2>1, <2>2, <2>3
<1>5. ASSUME NEW e, Makes(a, t, Len(b), x, e)
      PROVE  Makes(a \o b, t, 0, x, e) /\ ~Makes(b, t, 0, x, e)
  <2>1. PICK i \in 1..Len(a), j \in 0..2 :
              Names(a[i], j, x) /\ e = End(<<t, Len(b) + Len(a) - i>>, j, x)
    BY <1>5 DEF Makes
  <2>2. /\ i \in 1..Len(a \o b) /\ (a \o b)[i] = a[i]
        /\ 0 + Len(a \o b) - i = Len(b) + Len(a) - i
        /\ Len(b) + Len(a) - i >= Len(b)
    BY <1>2
  <2>3. Makes(a \o b, t, 0, x, e)
    BY <2>1, <2>2 DEF Makes
  <2>4. e.holder[2] = Len(b) + Len(a) - i
    BY <2>1 DEF End
  <2>5. ASSUME Makes(b, t, 0, x, e) PROVE FALSE
    <3>1. PICK k \in 1..Len(b), l \in 0..2 : e = End(<<t, 0 + Len(b) - k>>, l, x)
      BY <2>5 DEF Makes
    <3>2. e.holder[2] = 0 + Len(b) - k
      BY <3>1 DEF End
    <3> QED
      BY <1>2, <2>2, <2>4, <3>2
  <2> QED
    BY <2>3, <2>5
<1>6. ASSUME NEW e, Makes(b, t, 0, x, e) PROVE Makes(a \o b, t, 0, x, e)
  <2>1. PICK i \in 1..Len(b), j \in 0..2 :
              Names(b[i], j, x) /\ e = End(<<t, 0 + Len(b) - i>>, j, x)
    BY <1>6 DEF Makes
  <2>2. /\ Len(a) + i \in 1..Len(a \o b) /\ (a \o b)[Len(a) + i] = b[i]
        /\ 0 + Len(a \o b) - (Len(a) + i) = 0 + Len(b) - i
    BY <1>2
  <2> QED
    BY <2>1, <2>2 DEF Makes
<1>7. ASSUME NEW e, Makes(a \o b, t, 0, x, e)
      PROVE  Makes(a, t, Len(b), x, e) \/ Makes(b, t, 0, x, e)
  <2>1. PICK i \in 1..Len(a \o b), j \in 0..2 :
              Names((a \o b)[i], j, x) /\ e = End(<<t, 0 + Len(a \o b) - i>>, j, x)
    BY <1>7 DEF Makes
  <2>2. CASE i \in 1..Len(a)
    <3>1. (a \o b)[i] = a[i] /\ 0 + Len(a \o b) - i = Len(b) + Len(a) - i
      BY <1>2, <2>2
    <3> QED
      BY <2>1, <2>2, <3>1 DEF Makes
  <2>3. CASE i \notin 1..Len(a)
    <3>1. PICK k \in 1..Len(b) : i = Len(a) + k
      <4>1. i - Len(a) \in 1..Len(b) /\ i = Len(a) + (i - Len(a))
        BY <1>2, <2>3
      <4> QED
        BY <4>1
    <3>2. (a \o b)[i] = b[k] /\ 0 + Len(a \o b) - i = 0 + Len(b) - k
      BY <1>2, <3>1
    <3> QED
      BY <2>1, <3>2 DEF Makes
  <2> QED
    BY <2>2, <2>3
<1> HIDE DEF front, back, whole
<1>8. At(whole, x) = At(front, x) \cup At(back, x) /\ At(front, x) \cap At(back, x) = {}
  <2>1. \A e : /\ e \in At(whole, x) <=> e \in At(front, x) \/ e \in At(back, x)
               /\ ~(e \in At(front, x) /\ e \in At(back, x))
    BY <1>4, <1>5, <1>6, <1>7
  <2> QED
    BY <2>1, Zenon
<1>9. /\ IsFiniteSet(At(front, x)) /\ Cardinality(At(front, x)) \in Nat
      /\ IsFiniteSet(At(back, x)) /\ Cardinality(At(back, x)) \in Nat
  BY <1>2, EndsFinite, FS_CardinalityType DEF front, back
<1>10. Cardinality(At(whole, x)) = Cardinality(At(front, x)) + Cardinality(At(back, x))
  <2>1. Cardinality(At(front, x) \cup At(back, x))
          = Cardinality(At(front, x)) + Cardinality(At(back, x))
              - Cardinality(At(front, x) \cap At(back, x))
    BY <1>9, FS_Union, Zenon
  <2>2. Cardinality(At(front, x) \cap At(back, x)) = 0
    BY <1>8, FS_EmptySet, Zenon
  <2>3. Cardinality(At(whole, x))
          = Cardinality(At(front, x)) + Cardinality(At(back, x)) - 0
    BY <1>8, <2>1, <2>2, Zenon
  <2> QED
    BY <1>9, <2>3
<1>11. /\ Cardinality(At(whole, x)) = Count(EndsIn(t, a \o b), x)
       /\ Cardinality(At(back, x)) = Count(EndsIn(t, b), x)
  <2>1. EndsIn(t, a \o b) = whole /\ EndsIn(t, b) = back
    BY <1>1, <1>2, FromNowhere DEF whole, back
  <2> QED
    BY <2>1 DEF At, Count
<1>12. Cardinality(At(front, x)) = Count(EndsIn(t, a), x)
  <2>1. EndsIn(t, a) = EndsFrom(t, 0, a)
    BY <1>1, FromNowhere
  <2>2. Count(front, x) = Count(EndsFrom(t, 0, a), x)
    BY <1>2, SameCount DEF front
  <2> QED
    BY <2>1, <2>2 DEF At, Count
<1> QED
  BY <1>3, <1>10, <1>11, <1>12

LEMMA CountSingle ==
    ASSUME NEW n, NEW W, NEW c \in OneOver(n, W), NEW t, NEW x
    PROVE  /\ <<c>> \in ConnectsOver(n, W)
           /\ Count(EndsIn(t, <<c>>), x) = Made(c, x)
<1> DEFINE C == OneOver(n, W)
<1>1. c \in C
  OBVIOUS
<1>2. Count(EndsOf(t, 0, c), x) = Made(c, x)
  BY CountConnect
<1> HIDE DEF C
<1>3. <<c>> \in Seq(C)
  BY <1>1
<1>4. EndsIn(t, <<c>>) = EndsFrom(t, 0, <<c>>)
  BY <1>3, FromNowhere
<1>5. EndsFrom(t, 0, <<c>>) = EndsOf(t, 0, c)
  <2>1. DOMAIN <<c>> = {1} /\ 0 + Len(<<c>>) - 1 = 0 /\ <<c>>[1] = c
    OBVIOUS
  <2> QED
    BY <2>1 DEF EndsFrom
<1> QED
  BY <1>2, <1>3, <1>4, <1>5 DEF ConnectsOver, C, OneOver

LEMMA CountEmpty ==
    ASSUME NEW n, NEW W, NEW t, NEW x
    PROVE  <<>> \in ConnectsOver(n, W) /\ Count(EndsIn(t, <<>>), x) = 0
<1>1. <<>> \in ConnectsOver(n, W)
  BY DEF ConnectsOver
<1>2. EndsIn(t, <<>>) = {}
  BY DEF EndsIn
<1> QED
  BY <1>1, <1>2, CountNone

LEMMA JoinTwo == ASSUME NEW a, NEW b PROVE <<a, b>> = <<a>> \o <<b>>
<1>1. <<a, b>> = Append(<<a>>, b)
  OBVIOUS
<1>2. <<a>> \o <<b>> = Append(<<a>>, b)
  OBVIOUS
<1> QED
  BY <1>1, <1>2

LEMMA JoinThree == ASSUME NEW a, NEW b, NEW c PROVE <<a, b, c>> = <<a, b>> \o <<c>>
OBVIOUS

LEMMA JoinFour == ASSUME NEW a, NEW b, NEW c, NEW d PROVE <<a, b, c, d>> = <<a, b, c>> \o <<d>>
OBVIOUS

LEMMA CountTwo ==
    ASSUME NEW n, NEW W, NEW a \in OneOver(n, W), NEW b \in OneOver(n, W), NEW t, NEW x
    PROVE  /\ <<a, b>> \in ConnectsOver(n, W)
           /\ Count(EndsIn(t, <<a, b>>), x) = Made(a, x) + Made(b, x)
<1>1. /\ <<a>> \in ConnectsOver(n, W) /\ Count(EndsIn(t, <<a>>), x) = Made(a, x)
      /\ <<b>> \in ConnectsOver(n, W) /\ Count(EndsIn(t, <<b>>), x) = Made(b, x)
  BY CountSingle
<1>2. /\ <<a>> \o <<b>> \in ConnectsOver(n, W)
      /\ Count(EndsIn(t, <<a>> \o <<b>>), x) = Count(EndsIn(t, <<a>>), x) + Count(EndsIn(t, <<b>>), x)
  BY <1>1, CountConcat
<1>3. <<a, b>> = <<a>> \o <<b>>
  BY JoinTwo
<1> QED
  BY <1>1, <1>2, <1>3, Zenon

LEMMA CountThree ==
    ASSUME NEW n, NEW W, NEW a \in OneOver(n, W), NEW b \in OneOver(n, W), NEW c \in OneOver(n, W),
           NEW t, NEW x
    PROVE  /\ <<a, b, c>> \in ConnectsOver(n, W)
           /\ Count(EndsIn(t, <<a, b, c>>), x) = Made(a, x) + Made(b, x) + Made(c, x)
<1>1. /\ <<a, b>> \in ConnectsOver(n, W)
      /\ Count(EndsIn(t, <<a, b>>), x) = Made(a, x) + Made(b, x)
      /\ <<c>> \in ConnectsOver(n, W) /\ Count(EndsIn(t, <<c>>), x) = Made(c, x)
  BY CountSingle, CountTwo
<1>2. /\ <<a, b>> \o <<c>> \in ConnectsOver(n, W)
      /\ Count(EndsIn(t, <<a, b>> \o <<c>>), x) = Count(EndsIn(t, <<a, b>>), x) + Count(EndsIn(t, <<c>>), x)
  BY <1>1, CountConcat
<1>3. <<a, b, c>> = <<a, b>> \o <<c>>
  BY JoinThree
<1> QED
  BY <1>1, <1>2, <1>3, Zenon

LEMMA CountFour ==
    ASSUME NEW n, NEW W, NEW a \in OneOver(n, W), NEW b \in OneOver(n, W), NEW c \in OneOver(n, W),
           NEW d \in OneOver(n, W), NEW t, NEW x
    PROVE  /\ <<a, b, c, d>> \in ConnectsOver(n, W)
           /\ Count(EndsIn(t, <<a, b, c, d>>), x)
                = Made(a, x) + Made(b, x) + Made(c, x) + Made(d, x)
<1>1. /\ <<a, b, c>> \in ConnectsOver(n, W)
      /\ Count(EndsIn(t, <<a, b, c>>), x) = Made(a, x) + Made(b, x) + Made(c, x)
      /\ <<d>> \in ConnectsOver(n, W) /\ Count(EndsIn(t, <<d>>), x) = Made(d, x)
  BY CountSingle, CountThree
<1>2. /\ <<a, b, c>> \o <<d>> \in ConnectsOver(n, W)
      /\ Count(EndsIn(t, <<a, b, c>> \o <<d>>), x) = Count(EndsIn(t, <<a, b, c>>), x) + Count(EndsIn(t, <<d>>), x)
  BY <1>1, CountConcat
<1>3. <<a, b, c, d>> = <<a, b, c>> \o <<d>>
  BY JoinFour
<1> QED
  BY <1>1, <1>2, <1>3, Zenon

LEMMA CountFirst ==
    ASSUME NEW n, NEW W, NEW cs \in ConnectsOver(n, W), cs # <<>>, NEW t, NEW x
    PROVE  /\ Head(cs) \in OneOver(n, W)
           /\ Tail(cs) \in ConnectsOver(n, W)
           /\ Count(EndsIn(t, cs), x) = Made(Head(cs), x) + Count(EndsIn(t, Tail(cs)), x)
<1> DEFINE C == OneOver(n, W)
<1>1. cs \in Seq(C)
  BY DEF ConnectsOver, OneOver
<1> HIDE DEF C
<1>2. Head(cs) \in C /\ Tail(cs) \in Seq(C) /\ cs = <<Head(cs)>> \o Tail(cs)
  BY <1>1
<1>3. Head(cs) \in OneOver(n, W) /\ Tail(cs) \in ConnectsOver(n, W)
  BY <1>2 DEF C, ConnectsOver
<1>4. /\ <<Head(cs)>> \in ConnectsOver(n, W)
      /\ Count(EndsIn(t, <<Head(cs)>>), x) = Made(Head(cs), x)
  <2> DEFINE c == Head(cs)
  <2>1. c \in OneOver(n, W)
    BY <1>3
  <2> HIDE DEF c
  <2>2. <<c>> \in ConnectsOver(n, W) /\ Count(EndsIn(t, <<c>>), x) = Made(c, x)
    BY <2>1, CountSingle
  <2> QED
    BY <2>2 DEF c
<1>5. Count(EndsIn(t, <<Head(cs)>> \o Tail(cs)), x)
        = Made(Head(cs), x) + Count(EndsIn(t, Tail(cs)), x)
  BY <1>3, <1>4, CountConcat
<1> QED
  BY <1>2, <1>3, <1>5, Zenon

-----------------------------------------------------------------------------
(* The wires of connects. *)
LEMMA Wider ==
    ASSUME NEW n, NEW W, NEW V, W \subseteq V
    PROVE  PortsOver(n, W) \subseteq PortsOver(n, V) /\ ConnectsOver(n, W) \subseteq ConnectsOver(n, V)
<1>1. Seq(W) \subseteq Seq(V)
  OBVIOUS
<1>2. PortsOver(n, W) \subseteq PortsOver(n, V)
  BY <1>1 DEF PortsOver
<1>3. OneOver(n, W) \subseteq [wire : V, port : PortsOver(n, V)]
  BY <1>2 DEF OneOver
<1>4. ConnectsOver(n, W) \subseteq ConnectsOver(n, V)
  <2> DEFINE C == OneOver(n, W)
             D == [wire : V, port : PortsOver(n, V)]
  <2>1. C \subseteq D
    BY <1>3
  <2> HIDE DEF C, D
  <2>2. Seq(C) \subseteq Seq(D)
    BY <2>1
  <2> QED
    BY <2>2 DEF C, D, ConnectsOver, OneOver
<1> QED
  BY <1>2, <1>4

LEMMA WiresNamed ==
    ASSUME NEW n, NEW W, NEW cs \in ConnectsOver(n, W)
    PROVE  /\ WiresOf(cs) \subseteq W
           /\ \A x : x \in WiresOf(cs) <=>
                       \E i \in 1..Len(cs) : \E j \in 0..2 : Names(cs[i], j, x)
           /\ IsFiniteSet(WiresOf(cs))
<1>1. /\ Len(cs) \in Nat /\ DOMAIN cs = 1..Len(cs)
      /\ \A i \in 1..Len(cs) : cs[i].wire \in W /\ cs[i].port \in PortsOver(n, W)
  BY MembersTyped
<1>2. \A p \in PortsOver(n, W) : DOMAIN p.wires \subseteq 1..2 /\ p.wires \in Seq(W)
  <2> TAKE p \in PortsOver(n, W)
  <2>1. p.wires \in Seq(W) /\ Len(p.wires) \in {0, 1, 2}
    BY DEF PortsOver, Arity
  <2>2. DOMAIN p.wires \subseteq 1..2
    BY <2>1
  <2> QED
    BY <2>1, <2>2
<1>3. ASSUME NEW x
      PROVE  x \in WiresOf(cs) <=> \E i \in 1..Len(cs) : \E j \in 0..2 : Names(cs[i], j, x)
  <2>1. x \in WiresOf(cs) <=>
          \E i \in 1..Len(cs) : x = cs[i].wire \/ \E j \in DOMAIN cs[i].port.wires : x = cs[i].port.wires[j]
    BY <1>1 DEF WiresOf, ToSet
  <2>2. \A i \in 1..Len(cs) : DOMAIN cs[i].port.wires \subseteq 1..2
    BY <1>1, <1>2
  <2> QED
    BY <2>1, <2>2 DEF Names
<1>4. WiresOf(cs) \subseteq W
  <2> SUFFICES ASSUME NEW x \in WiresOf(cs) PROVE x \in W
    OBVIOUS
  <2>1. PICK i \in 1..Len(cs), j \in 0..2 : Names(cs[i], j, x)
    BY <1>3
  <2>2. cs[i].wire \in W /\ cs[i].port.wires \in Seq(W)
    BY <1>1, <1>2
  <2> QED
    BY <2>1, <2>2 DEF Names
<1>5. IsFiniteSet(WiresOf(cs))
  <2> DEFINE Q == (1..Len(cs)) \X (0..2)
             D == {q \in Q : \E x \in WiresOf(cs) : Names(cs[q[1]], q[2], x)}
             wire(q) == IF q[2] = 0 THEN cs[q[1]].wire ELSE cs[q[1]].port.wires[q[2]]
             f == [q \in D |-> wire(q)]
  <2>1. IsFiniteSet(Q)
    <3>1. 1 \in Int /\ 0 \in Int /\ 2 \in Int /\ Len(cs) \in Int
      BY <1>1
    <3>2. IsFiniteSet(1..Len(cs)) /\ IsFiniteSet(0..2)
      BY <3>1, FS_Interval, Zenon
    <3> QED
      BY <3>2, FS_Product
  <2>2. IsFiniteSet(D)
    <3>1. D \in SUBSET Q
      OBVIOUS
    <3> HIDE DEF D, Q
    <3> QED
      BY <2>1, <3>1, FS_Subset
  <2>3. \A q \in D : \A x : Names(cs[q[1]], q[2], x) => x = wire(q)
    BY DEF Names
  <2>4. \A q \in D : f[q] \in WiresOf(cs)
    BY <2>3
  <2>5. ASSUME NEW x \in WiresOf(cs) PROVE \E q \in D : f[q] = x
    <3>1. PICK i \in 1..Len(cs), j \in 0..2 : Names(cs[i], j, x)
      BY <1>3
    <3>2. <<i, j>> \in D
      BY <3>1
    <3>3. wire(<<i, j>>) = x
      BY <2>3, <3>1, <3>2
    <3> QED
      BY <3>2, <3>3
  <2>6. f \in Surjection(D, WiresOf(cs))
    <3>1. f \in [D -> WiresOf(cs)]
      BY <2>4
    <3> HIDE DEF f
    <3> QED
      BY <2>5, <3>1 DEF Surjection
  <2> HIDE DEF D, f
  <2> QED
    BY <2>2, <2>6, FS_Surjection
<1> QED
  BY <1>3, <1>4, <1>5

LEMMA CountUsed ==
    ASSUME NEW n, NEW W, NEW cs \in ConnectsOver(n, W), NEW t, NEW x
    PROVE  /\ IsFiniteSet(At(EndsIn(t, cs), x))
           /\ Count(EndsIn(t, cs), x) \in Nat
           /\ Count(EndsIn(t, cs), x) = 0 <=> x \notin WiresOf(cs)
<1>0. EndsIn(t, cs) = EndsFrom(t, 0, cs)
  BY FromNowhere DEF ConnectsOver
<1> DEFINE A == At(EndsFrom(t, 0, cs), x)
<1>1. IsFiniteSet(A)
  BY EndsFinite
<1>2. \A e : e \in A <=> Makes(cs, t, 0, x, e)
  BY AtMembers
<1> HIDE DEF A
<1>3. A # {} <=> \E i \in 1..Len(cs) : \E j \in 0..2 : Names(cs[i], j, x)
  BY <1>2 DEF Makes
<1>4. A # {} <=> x \in WiresOf(cs)
  BY <1>3, WiresNamed
<1>5. Cardinality(A) \in Nat /\ (Cardinality(A) = 0 <=> A = {})
  BY <1>1, FS_EmptySet, FS_CardinalityType
<1>6. Cardinality(A) = Count(EndsIn(t, cs), x) /\ A = At(EndsIn(t, cs), x)
  BY <1>0 DEF A, At, Count
<1> QED
  BY <1>1, <1>4, <1>5, <1>6, Zenon

-----------------------------------------------------------------------------
(* New identities for the wires of connects. *)
LEMMA IdentitiesNumber ==
    ASSUME NEW F \in SUBSET Int, IsFiniteSet(F), NEW a \in Nat
    PROVE  /\ Cardinality(F) \in Nat
           /\ DOMAIN Identities(F, a) = F
           /\ Identities(F, a) \in Bijection(F, (a + 1)..(a + Cardinality(F)))
<1> DEFINE below(w) == {v \in F : v <= w}
           name == [w \in F |-> a + Cardinality(below(w))]
           N == (a + 1)..(a + Cardinality(F))
<1>0. Identities(F, a) = name /\ Cardinality(F) \in Nat
  BY FS_CardinalityType DEF Identities
<1>1. ASSUME NEW w \in F
      PROVE  /\ IsFiniteSet(below(w)) /\ Cardinality(below(w)) \in Nat
             /\ Cardinality(below(w)) <= Cardinality(F)
             /\ Cardinality(below(w)) # 0
  <2>1. below(w) \in SUBSET F /\ w \in below(w)
    OBVIOUS
  <2> HIDE DEF below
  <2> QED
    BY <2>1, FS_Subset, FS_CardinalityType, FS_EmptySet
<1>2. name \in [F -> N]
  <2>1. \A w \in F : a + Cardinality(below(w)) \in N
    BY <1>0, <1>1
  <2> HIDE DEF N, below
  <2> QED
    BY <2>1
<1>3. ASSUME NEW v \in F, NEW w \in F, v < w PROVE name[v] # name[w]
  <2>1. below(v) \in SUBSET below(w) /\ w \in below(w) /\ w \notin below(v)
    <3>1. v \in Int /\ w \in Int /\ \A u \in F : u \in Int /\ (u <= v => u <= w)
      BY <1>3
    <3>2. w <= w /\ ~(w <= v)
      BY <1>3, <3>1
    <3> QED
      BY <3>1, <3>2
  <2>2. name[v] = a + Cardinality(below(v)) /\ name[w] = a + Cardinality(below(w))
    OBVIOUS
  <2>3. /\ IsFiniteSet(below(w)) /\ Cardinality(below(w)) \in Nat
        /\ Cardinality(below(v)) \in Nat
    BY <1>1
  <2> HIDE DEF below, name
  <2>4. Cardinality(below(v)) # Cardinality(below(w))
    BY <2>1, <2>3, FS_Subset
  <2> QED
    BY <2>2, <2>3, <2>4
<1>4. name \in Injection(F, N)
  <2>1. \A v, w \in F : v = w \/ v < w \/ w < v
    OBVIOUS
  <2>2. \A v, w \in F : name[v] = name[w] => v = w
    <3> HIDE DEF name
    <3> QED
      BY <1>3, <2>1
  <2> HIDE DEF name, N
  <2> QED
    BY <1>2, <2>2 DEF Injection, IsInjective
<1>5. IsFiniteSet(N) /\ Cardinality(N) = Cardinality(F)
  <2>1. PICK l \in Int, h \in Int : l = a + 1 /\ h = a + Cardinality(F)
    BY <1>0
  <2>2. IsFiniteSet(l..h) /\ Cardinality(l..h) = IF l > h THEN 0 ELSE h - l + 1
    BY FS_Interval
  <2>3. N = l..h
    BY <2>1
  <2> HIDE DEF N
  <2> QED
    BY <1>0, <2>1, <2>2, <2>3
<1> HIDE DEF name, N
<1>6. name \in Surjection(F, N)
  BY <1>4, <1>5, FS_Injection
<1> QED
  BY <1>0, <1>4, <1>6 DEF Bijection, name, N

(* Renaming keeps the ends of the wires that keep their names, and gives   *)
(* those of the others to the new ones.                                    *)
LEMMA CountRenamed ==
    ASSUME NEW n, NEW a \in Nat, NEW b \in Nat, a <= b,
           NEW cs \in ConnectsOver(n, (1..a) \cup OwnWires),
           NEW name \in Bijection(Fresh(cs), (a + 1)..b), NEW t
    PROVE  /\ Renamed(cs, name) \in ConnectsOver(n, 1..b)
           /\ \A x \in 1..a :
                Count(EndsIn(t, Renamed(cs, name)), x) = Count(EndsIn(t, cs), x)
           /\ \A x \in (a + 1)..b : \E w \in Fresh(cs) :
                Count(EndsIn(t, Renamed(cs, name)), x) = Count(EndsIn(t, cs), w)
<1> DEFINE W == (1..a) \cup OwnWires
           F == Fresh(cs)
           R(w) == IF w \in F THEN name[w] ELSE w
           ds == Renamed(cs, name)
           port(p) == [p EXCEPT !.wires = [j \in DOMAIN p.wires |-> R(p.wires[j])]]
<1>1. /\ Len(cs) \in Nat /\ DOMAIN cs = 1..Len(cs)
      /\ \A i \in 1..Len(cs) : cs[i].wire \in W /\ cs[i].port \in PortsOver(n, W)
  BY MembersTyped
<1>2. /\ DOMAIN name = F /\ \A w \in F : name[w] \in (a + 1)..b
      /\ \A v, w \in F : name[v] = name[w] => v = w
      /\ \A x \in (a + 1)..b : \E w \in F : name[w] = x
  BY DEF Bijection, Injection, Surjection, IsInjective
<1>3. \A w \in WiresOf(cs) : w \in W /\ (w \in F <=> w < 0)
  BY WiresNamed DEF Fresh
<1>4. \A w \in WiresOf(cs) : R(w) \in 1..b /\ (w \notin F => R(w) = w /\ w \in 1..a)
  BY <1>2, <1>3 DEF OwnWires
<1>5. \A v, w \in WiresOf(cs) : R(v) = R(w) => v = w
  BY <1>2, <1>4
<1>6. \A i \in 1..Len(cs) : /\ cs[i].wire \in WiresOf(cs)
                            /\ cs[i].port.wires \in Seq(WiresOf(cs))
  <2> TAKE i \in 1..Len(cs)
  <2>1. cs[i].wire \in WiresOf(cs)
    BY <1>1 DEF WiresOf
  <2>2. \A j \in DOMAIN cs[i].port.wires : cs[i].port.wires[j] \in WiresOf(cs)
    BY <1>1 DEF WiresOf, ToSet
  <2>3. cs[i].port.wires \in Seq(W)
    BY <1>1 DEF PortsOver
  <2> QED
    BY <2>1, <2>2, <2>3
<1>7. /\ Len(ds) = Len(cs) /\ DOMAIN ds = 1..Len(cs)
      /\ \A i \in 1..Len(cs) : ds[i] = To(R(cs[i].wire), port(cs[i].port))
  BY <1>1, <1>2 DEF Renamed, RenamedPort
<1> HIDE DEF R, W, F, ds
<1>8. \A i \in 1..Len(cs) :
        /\ port(cs[i].port) \in PortsOver(n, 1..b)
        /\ port(cs[i].port).wires = [j \in DOMAIN cs[i].port.wires |-> R(cs[i].port.wires[j])]
  <2> TAKE i \in 1..Len(cs)
  <2>1. PICK p \in PortsOver(n, W) : p = cs[i].port
    BY <1>1
  <2>2. p.wires \in Seq(WiresOf(cs))
    BY <1>6, <2>1
  <2>3. [j \in DOMAIN p.wires |-> R(p.wires[j])] \in Seq(1..b)
    BY <1>4, <2>2
  <2>4. Len([j \in DOMAIN p.wires |-> R(p.wires[j])]) = Len(p.wires)
    BY <2>2
  <2>5. port(p) \in PortsOver(n, 1..b)
    BY <2>3, <2>4 DEF PortsOver, Catches
  <2>6. port(p).wires = [j \in DOMAIN p.wires |-> R(p.wires[j])]
    BY DEF PortsOver
  <2> QED
    BY <2>1, <2>5, <2>6
<1> HIDE DEF port
<1>9. ds \in ConnectsOver(n, 1..b)
  <2> DEFINE D == [wire : 1..b, port : PortsOver(n, 1..b)]
  <2>1. \A i \in 1..Len(cs) : ds[i] \in D
    <3> TAKE i \in 1..Len(cs)
    <3>1. R(cs[i].wire) \in 1..b /\ port(cs[i].port) \in PortsOver(n, 1..b)
      BY <1>4, <1>6, <1>8
    <3> QED
      BY <1>7, <3>1 DEF To
  <2>2. ds = [i \in 1..Len(cs) |-> ds[i]]
    BY <1>7 DEF ds, Renamed
  <2> HIDE DEF D
  <2>3. ds \in Seq(D)
    BY <1>1, <2>1, <2>2
  <2> QED
    BY <2>3 DEF D, ConnectsOver
<1>10. ASSUME NEW x \in WiresOf(cs), NEW i \in 1..Len(cs), NEW j \in 0..2
       PROVE  Names(cs[i], j, x) <=> Names(ds[i], j, R(x))
  <2>1. /\ ds[i].wire = R(cs[i].wire)
        /\ ds[i].port.wires = [k \in DOMAIN cs[i].port.wires |-> R(cs[i].port.wires[k])]
    BY <1>7, <1>8 DEF To
  <2>2. cs[i].wire = x <=> ds[i].wire = R(x)
    BY <1>5, <1>6, <2>1
  <2>3. ASSUME j \in DOMAIN cs[i].port.wires
        PROVE  cs[i].port.wires[j] = x <=> ds[i].port.wires[j] = R(x)
    <3>1. cs[i].port.wires[j] \in WiresOf(cs)
      BY <1>6, <2>3
    <3> QED
      BY <1>5, <2>1, <2>3, <3>1
  <2>4. DOMAIN ds[i].port.wires = DOMAIN cs[i].port.wires
    BY <2>1
  <2> QED
    BY <2>2, <2>3, <2>4 DEF Names
<1>11. ASSUME NEW x \in WiresOf(cs)
       PROVE  Count(EndsIn(t, ds), R(x)) = Count(EndsIn(t, cs), x)
  <2>1. cs \in ConnectsOver(n, W)
    BY DEF W
  <2>2. Count(EndsFrom(t, 0, cs), x) = Count(EndsFrom(t, 0, ds), R(x))
    BY <1>7, <1>9, <1>10, <2>1, SameCount
  <2>3. EndsIn(t, ds) = EndsFrom(t, 0, ds) /\ EndsIn(t, cs) = EndsFrom(t, 0, cs)
    BY <1>9, <2>1, FromNowhere DEF ConnectsOver
  <2> QED
    BY <2>2, <2>3
<1>12. ASSUME NEW x \in WiresOf(ds) PROVE \E w \in WiresOf(cs) : R(w) = x
  <2>1. PICK i \in 1..Len(cs), j \in 0..2 : Names(ds[i], j, x)
    BY <1>7, <1>9, WiresNamed
  <2>2. /\ ds[i].wire = R(cs[i].wire)
        /\ ds[i].port.wires = [k \in DOMAIN cs[i].port.wires |-> R(cs[i].port.wires[k])]
    BY <1>7, <1>8 DEF To
  <2>3. /\ cs[i].wire \in WiresOf(cs)
        /\ \A k \in DOMAIN cs[i].port.wires : cs[i].port.wires[k] \in WiresOf(cs)
    BY <1>6
  <2> QED
    BY <2>1, <2>2, <2>3 DEF Names
<1>13. ASSUME NEW x \in 1..a PROVE Count(EndsIn(t, ds), x) = Count(EndsIn(t, cs), x)
  <2>1. CASE x \in WiresOf(cs)
    <3>1. x \notin F
      BY <1>3, <2>1
    <3>2. R(x) = x
      BY <3>1 DEF R
    <3> QED
      BY <1>11, <2>1, <3>2
  <2>2. CASE x \notin WiresOf(cs)
    <3>1. x \notin WiresOf(ds)
      <4> SUFFICES ASSUME NEW w \in WiresOf(cs), R(w) = x PROVE FALSE
        BY <1>12
      <4>1. w \in F
        BY <1>4, <2>2
      <4>2. R(w) \in (a + 1)..b
        BY <1>2, <4>1 DEF R
      <4> QED
        BY <4>2
    <3>2. Count(EndsIn(t, ds), x) = 0
      BY <1>9, <3>1, CountUsed
    <3>3. Count(EndsIn(t, cs), x) = 0
      BY <2>2, CountUsed
    <3> QED
      BY <3>2, <3>3
  <2> QED
    BY <2>1, <2>2
<1>14. ASSUME NEW x \in (a + 1)..b
       PROVE  \E w \in F : Count(EndsIn(t, ds), x) = Count(EndsIn(t, cs), w)
  <2>1. PICK w \in F : name[w] = x
    BY <1>2
  <2>2. R(w) = x /\ w \in WiresOf(cs)
    BY <2>1 DEF R, F, Fresh
  <2> QED
    BY <1>11, <2>2
<1> QED
  BY <1>9, <1>13, <1>14 DEF ds, F

=============================================================================
