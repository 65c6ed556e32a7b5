------------------------------- MODULE Registers -------------------------------
(***************************************************************************)
(* Adapters (first_order/adapters.py) and registers (backend/registers.py) *)
(* as the connects they make.                                              *)
(*                                                                         *)
(* A variable is a wire that is cut and extended by each access: an access *)
(* takes the wire the last one left and gives a new one.  Its adapter says *)
(* what travels on the wire: a value, a reference (its content, and where  *)
(* the final content goes back), an inverse (what loans bring back, and    *)
(* who waits for the next write), or a chain of several of these.          *)
(***************************************************************************)
EXTENDS Ports

Adapter(wiring, items) == [wiring |-> wiring, items |-> items]

VA == Adapter("value", <<>>)
RefOf(inner) == Adapter("reference", <<inner>>)
InverseOf(inner) == Adapter("inverse", <<inner>>)
ParOf(items) == Adapter("par", items)
RA_VA == RefOf(VA)

Inner(a) == a.items[1]
IsPar(a) == a.wiring = "par"

(* The adapter an annotation <<container, arguments...>> stands for. *)
RECURSIVE AdapterFromType(_)
AdapterFromType(te) ==
    LET args == [i \in 1..(Len(te) - 1) |-> AdapterFromType(te[i + 1])]
    IN CASE te[1] = "Par" /\ Len(args) > 1 -> ParOf(args)
         [] te[1] = "Ref" -> IF Len(args) = 1 THEN RefOf(args[1]) ELSE RA_VA
         [] te[1] = "Inverse" -> InverseOf(IF Len(args) = 1 THEN args[1] ELSE VA)
         [] OTHER -> VA

(* to_accepts_from: whether a cell may travel as it is. *)
RECURSIVE ToAcceptsFrom(_, _)
ToAcceptsFrom(to, from) ==
    /\ to.wiring = from.wiring
    /\ IsPar(to) =>
          \A i \in 1..Min({Len(to.items), Len(from.items)}) :
              ToAcceptsFrom(to.items[i], from.items[i])

(* Adapter.__iter__: the wrappers of an adapter, the innermost first. *)
RECURSIVE Wrappers(_)
Wrappers(a) ==
    IF a.wiring \in {"reference", "inverse"} THEN Append(Wrappers(Inner(a)), a) ELSE <<a>>

(* Each item of a chain on wires of its own, from the place New(n, 1) on.  *)
Items(a, n) == [i \in DOMAIN a.items |-> New(New(n, 1), i)]
Item(n, i) == New(New(n, 4), i)

-----------------------------------------------------------------------------
(* close: what is done with the last wire of a variable.  What a cell was   *)
(* lent for goes back, what it waits for comes.                            *)
Rejoin(w, n) == <<Tuplate(w, New(n, 1), New(n, 1))>>

RECURSIVE Close(_, _, _)
Close(a, w, n) ==
    CASE a.wiring = "value" -> <<Annihilate(w)>>
      [] a.wiring \in {"reference", "inverse"} -> Rejoin(w, n)
      [] IsPar(a) ->
           Chain(w, Items(a, n), New(n, 3)) \o
           Concat([i \in DOMAIN a.items |-> Close(a.items[i], Items(a, n)[i], Item(n, i))])

(* initialize: out becomes a cell that holds what comes from the wire      *)
(* initial, or nothing when there is none (0).                             *)
InitializeValue(out, initial) ==
    IF initial = 0 THEN <<Annihilate(out)>> ELSE <<Join(out, initial)>>

InitializeReference(a, out, initial, n) ==
    <<Tuplate(out, New(n, 1), New(n, 2))>> \o InitializeValue(New(n, 1), initial)
      \o Close(Inner(a), New(n, 2), New(n, 3))

InitializeInverse(a, out, initial, n) ==
    <<Tuplate(out, New(n, 1), New(n, 2)), Annihilate(New(n, 1))>>
      \o Close(Inner(a), New(n, 2), New(n, 3))
      \o (IF initial = 0 THEN <<>> ELSE Close(Inner(a), initial, New(n, 4)))

RECURSIVE Initialize(_, _, _, _)
Initialize(a, out, initial, n) ==
    CASE a.wiring = "value" -> InitializeValue(out, initial)
      [] a.wiring = "reference" -> InitializeReference(a, out, initial, n)
      [] a.wiring = "inverse" -> InitializeInverse(a, out, initial, n)
      [] IsPar(a) ->
           Chain(out, Items(a, n), New(n, 3)) \o
           Concat([i \in DOMAIN a.items |->
                     Initialize(a.items[i], Items(a, n)[i], 0, Item(n, i))])

(* produce_egression: a read.  A reference is lent: its content goes out,  *)
(* and what comes back is the content that stays.  An inverse goes out     *)
(* empty, and waits.                                                       *)
EgressValue(taken, given, out, label) == <<Duplicate(taken, out, given, label)>>

EgressReference(taken, given, out, n) ==
    LET w(k) == New(n, k)
    IN  <<Tuplate(taken, w(1), w(2)), Tuplate(given, w(3), w(2)), Tuplate(out, w(1), w(3))>>

EgressInverse(taken, given, out, n) ==
    LET w(k) == New(n, k)
    IN  <<Tuplate(out, w(1), w(2)), Tuplate(taken, w(3), w(4)), Tuplate(w(1), w(5), w(4)),
          Annihilate(w(3)), Annihilate(w(5)), Tuplate(w(2), w(6), w(7)),
          Tuplate(given, w(6), w(7))>>

RECURSIVE Egression(_, _, _, _, _, _)
Egression(a, taken, given, out, label, n) ==
    LET outs == Items(a, n)  givens == Items(a, New(n, 2))  takens == Items(a, New(n, 3))
    IN CASE a.wiring = "value" -> EgressValue(taken, given, out, label)
         [] a.wiring = "reference" -> EgressReference(taken, given, out, n)
         [] a.wiring = "inverse" -> EgressInverse(taken, given, out, n)
         [] IsPar(a) ->
              Chain(out, outs, New(n, 5)) \o Chain(given, givens, New(n, 6))
                \o Chain(taken, takens, New(n, 7)) \o
              Concat([i \in DOMAIN a.items |->
                 Egression(a.items[i], takens[i], givens[i], outs[i], "dup", Item(n, i))])

(* produce_ingression: a write. *)
IngressValue(taken, given, in) == <<Annihilate(taken), Join(in, given)>>

IngressReference(a, taken, given, in, n) ==
    LET w(k) == New(n, k)
    IN  <<Tuplate(taken, w(1), w(2)), Tuplate(given, w(3), w(4))>>
          \o Egression(Inner(a), w(4), w(2), w(5), "share", w(6))
          \o Close(Inner(a), w(1), w(7)) \o <<Tuplate(in, w(3), w(5))>>

IngressInverse(taken, given, in, n) ==
    LET w(k) == New(n, k)
    IN  <<Tuplate(in, w(1), w(2)), Tuplate(taken, w(3), w(4)), Annihilate(w(3)),
          Tuplate(w(1), w(4), w(5)), Tuplate(w(2), w(6), w(5)), Tuplate(given, w(7), w(6)),
          Annihilate(w(7))>>

RECURSIVE Ingression(_, _, _, _, _)
Ingression(a, taken, given, in, n) ==
    LET ins == Items(a, n)  givens == Items(a, New(n, 2))  takens == Items(a, New(n, 3))
    IN CASE a.wiring = "value" -> IngressValue(taken, given, in)
         [] a.wiring = "reference" -> IngressReference(a, taken, given, in, n)
         [] a.wiring = "inverse" -> IngressInverse(taken, given, in, n)
         [] IsPar(a) ->
              Chain(in, ins, New(n, 5)) \o Chain(given, givens, New(n, 6))
                \o Chain(taken, takens, New(n, 7)) \o
              Concat([i \in DOMAIN a.items |->
                 Ingression(a.items[i], takens[i], givens[i], ins[i], Item(n, i))])

(* produce_partial_egression: one item is read, its siblings pass through. *)
PartialEgression(a, taken, given, index, out, n) ==
    LET parts == Items(a, n)
        through(i) == IF i = index THEN New(n, 2) ELSE parts[i]
    IN  Chain(given, [i \in DOMAIN a.items |-> through(i)], New(n, 5))
          \o Chain(taken, parts, New(n, 6))
          \o Egression(a.items[index], parts[index], New(n, 2), out, "dup", New(n, 3))

(* unpack and repack: taking a content out of its cell, and a cell around  *)
(* a content; linearize drops the cell.                                    *)
UnpackReference(a, w, out, n) ==
    <<Tuplate(w, New(n, 1), New(n, 2))>>
      \o Egression(Inner(a), New(n, 1), New(n, 2), out, "share", New(n, 3))

UnpackInverse(a, w, out, n) ==
    LET v(k) == New(n, k)
    IN  <<Tuplate(w, v(1), v(2)), Tuplate(v(2), v(3), v(4)), Tuplate(v(1), v(5), v(6)),
          Annihilate(v(3)), Annihilate(v(5))>>
          \o Egression(Inner(a), v(4), v(6), out, "dup", v(7))

Unpack(a, w, out, n) ==
    IF a.wiring = "reference" THEN UnpackReference(a, w, out, n) ELSE UnpackInverse(a, w, out, n)

RepackInverse(a, w, out, n) ==
    <<Tuplate(out, New(n, 1), New(n, 2)), Tuplate(New(n, 1), w, New(n, 3)), Annihilate(New(n, 3))>>
      \o Initialize(a, New(n, 2), 0, New(n, 4))

Repack(a, w, out, n) ==
    IF a.wiring = "reference" THEN Initialize(a, out, w, n) ELSE RepackInverse(a, w, out, n)

LinearizeOnly(w, out, n) == <<Tuplate(w, out, New(n, 1))>>

Linearize(w, out, n) == <<Tuplate(w, out, New(n, 1)), Annihilate(New(n, 1))>>

-----------------------------------------------------------------------------
(* send_value: what leaves w under the adapter from arrives at v under the *)
(* adapter to.  Cells that both know travel as they are; the other wrappers *)
(* are taken off and put on, at most four of them.                         *)
CommonUnchecked(from, to) == Min({Len(Wrappers(from)), Len(Wrappers(to))})

Common(from, to) ==
    LET f == Wrappers(from)  t == Wrappers(to)
        least == Min({Len(f), Len(t)})
        differ == {i \in 1..least : ~ToAcceptsFrom(t[i], f[i])}
    IN  IF differ = {} THEN least ELSE Min(differ) - 1

Rewrap(off, on, w, v, n) ==
    LET steps == Len(off) + Len(on)
        wire(k) == IF k = 0 THEN w ELSE IF k = steps THEN v ELSE New(n, k)
        place(k) == New(n, k + 4)
    IN  IF steps = 0 THEN <<Join(w, v)>>
        ELSE Concat([k \in 1..steps |->
                IF k <= Len(off) THEN Unpack(Reverse(off)[k], wire(k - 1), wire(k), place(k))
                ELSE Repack(on[k - Len(off)], wire(k - 1), wire(k), place(k))])

(* parallelize_value and serialize_values: an iterator that is split once  *)
(* for every item, and a tuple that is joined with one item after another. *)
Parallelized(in, items, n) ==
    LET rest(i) == New(New(n, 1), i + 1) IN
    <<To(in, MergePort("iter", FALSE, New(n, 2), rest(0))), To(New(n, 2), ValuePort(<<"None">>))>>
      \o [i \in DOMAIN items |-> To(rest(i - 1), SplitPort(items[i], rest(i)))]
      \o <<Annihilate(rest(Len(items)))>>

Serialized(items, out, n) ==
    LET acc(i) == IF i = Len(items) THEN out ELSE New(n, i + 1) IN
    <<To(acc(0), ValuePort(<<"()">>))>>
      \o [i \in DOMAIN items |-> To(acc(i - 1), MergePort("join", FALSE, items[i], acc(i)))]

(* A chain is sent item by item; what is no chain is first sent as a       *)
(* value, and a value that becomes a cell is sent last.                    *)
Sending(from, w, to, v, n) == [from |-> from, w |-> w, to |-> to, v |-> v, n |-> n]

Values(a, n) == [i \in DOMAIN a.items |-> New(New(n, 3), i)]

Around(from, w, to, v, n) ==
    (IF IsPar(from) THEN Chain(w, Items(from, n), New(n, 5)) ELSE <<>>)
      \o (IF IsPar(to) THEN Chain(v, Items(to, New(n, 2)), New(n, 6)) ELSE <<>>)
      \o (IF ~IsPar(from) THEN Parallelized(New(n, 8), Values(to, n), New(n, 9))
          ELSE IF ~IsPar(to) THEN Serialized(Values(from, n), New(n, 8), New(n, 9))
          ELSE <<>>)

Parts(from, w, to, v, n) ==
    LET outs == IF IsPar(from) THEN Items(from, n) ELSE Values(to, n)
        ins == IF IsPar(to) THEN Items(to, New(n, 2)) ELSE Values(from, n)
        item(a, i) == IF IsPar(a) THEN a.items[i] ELSE VA
    IN  [i \in DOMAIN (IF IsPar(from) THEN from ELSE to).items |->
            Sending(item(from, i), outs[i], item(to, i), ins[i], Item(n, i))]
          \o (IF ~IsPar(from) THEN <<Sending(from, w, VA, New(n, 8), New(n, 7))>>
              ELSE IF ~IsPar(to) THEN <<Sending(VA, New(n, 8), to, v, New(n, 7))>>
              ELSE <<>>)

Unwrapped(from, to, common, w, v, n) ==
    Rewrap(SubSeq(Wrappers(from), common + 1, Len(Wrappers(from))),
           SubSeq(Wrappers(to), common + 1, Len(Wrappers(to))), w, v, n)

RECURSIVE SendValue(_, _, _, _, _)

SendAll(parts) ==
    Concat([i \in DOMAIN parts |->
        SendValue(parts[i].from, parts[i].w, parts[i].to, parts[i].v, parts[i].n)])

SendValue(from, w, to, v, n) ==
    IF Common(from, to) > 0 THEN Unwrapped(from, to, Common(from, to), w, v, n)
    ELSE Around(from, w, to, v, n) \o SendAll(Parts(from, w, to, v, n))
=============================================================================
