--------------------------- MODULE NetsCompleteProofs ---------------------------
(***************************************************************************)
(* Proof that, for any threads and any functions that call each other in   *)
(* any way, the promises of finished nets have their targets: as long as   *)
(* no attempt fails, a promise is either filled, or it is the last one its *)
(* function made and that function is still on the way to filling it.      *)
(***************************************************************************)
EXTENDS InetCompileProofs

(* A compilation of f is at one of these places. *)
In(f, places) ==
    \E t \in Threads : \E i \in DOMAIN stack[t] :
        stack[t][i].fn = f /\ stack[t][i].at \in places

(* Who may still be handed the promise of f, and who fills it. *)
Pending == {"callees", "lower", "fill"}

(* Lowered, and not published yet. *)
Lowered == {"fill", "publish"}

Awaited(e) == e \in filled \/ (e = Promise(e.fn, attempt[e.fn]) /\ In(e.fn, Pending))

Calm == \A t \in Threads : \A i \in DOMAIN stack[t] : stack[t][i].at # "raised"

Published == \A f \in Functions : entry[f] => expansion[f] = "frozen" \/ In(f, Lowered)

Offered == \A f \in Functions : expansion[f] = "promise" => Awaited(Promise(f, attempt[f]))

Grafted == \A f \in Functions : \A e \in embeds[f] : e.kind = "promise" => Awaited(e)

Whole == failures = 0 => Calm /\ Published /\ Offered /\ Grafted

WInv == IInv /\ failures \in Nat /\ Whole

LEMMA InitIsWhole == Init => WInv
<1> SUFFICES ASSUME Init PROVE WInv
  OBVIOUS
<1>1. Calm
  BY DEF Init, Calm
<1>2. Published /\ Offered /\ Grafted
  BY DEF Init, Published, Offered, Grafted
<1>3. failures \in Nat
  BY DEF Init
<1> QED
  BY <1>1, <1>2, <1>3, InitHolds DEF WInv, Whole

-----------------------------------------------------------------------------
(* Where the functions are, after a step of the top compilation: only its  *)
(* own function has moved.                                                 *)
LEMMA TopMoves ==
    ASSUME IInv, NEW t \in Threads, stack[t] # <<>>, NEW place \in Places, Step(t, place),
           NEW f \in Functions, NEW places
    PROVE  /\ f # Top(t).fn => (In(f, places)' <=> In(f, places))
           /\ f = Top(t).fn => /\ In(f, places) <=> Top(t).at \in places
                               /\ In(f, places)' <=> place \in places
<1> DEFINE s == stack[t]
           n == Len(s)
<1>1. /\ s \in Seq(Frames) /\ n \in Nat /\ n >= 1 /\ DOMAIN s = 1..n /\ Top(t) = s[n]
  BY DEF IInv, Types, Top
<1>2. TopReplaced(t) /\ Top(t)'.fn = s[n].fn /\ Top(t)'.at = place
  BY <1>1, StepReplaces DEF IInv
<1>3. s' \in Seq(Frames) /\ DOMAIN s' = 1..n /\ Top(t)' = s'[n]
  BY <1>1, <1>2 DEF TopReplaced, Top
<1>4. \A i \in 1..n : s'[i].fn = s[i].fn /\ (i # n => s'[i] = s[i])
  BY <1>1, <1>2 DEF TopReplaced
<1>5. \A i \in 1..n : s[i].fn = s[n].fn => i = n
  BY <1>1 DEF IInv, Sound, Distinct
<1>6. \A v \in Threads \ {t} : stack[v] = <<>> /\ stack'[v] = <<>>
  BY <1>2, Alone DEF TopReplaced
<1>7. In(f, places) <=> \E i \in 1..n : s[i].fn = f /\ s[i].at \in places
  BY <1>1, <1>6 DEF In
<1>8. In(f, places)' <=> \E i \in 1..n : s'[i].fn = f /\ s'[i].at \in places
  BY <1>3, <1>6 DEF In
<1>9. n \in 1..n
  BY <1>1
<1> QED
  BY <1>1, <1>2, <1>3, <1>4, <1>5, <1>7, <1>8, <1>9

LEMMA StaysCalm ==
    ASSUME IInv, Calm, NEW t \in Threads, stack[t] # <<>>, NEW place \in Places,
           place # "raised", Step(t, place)
    PROVE  Calm'
<1> DEFINE n == Len(stack[t])
<1>1. stack[t] \in Seq(Frames) /\ n \in Nat /\ n >= 1 /\ DOMAIN stack[t] = 1..n
  BY DEF IInv, Types
<1>2. TopReplaced(t) /\ Top(t)'.at = place
  BY StepReplaces DEF IInv
<1>3. DOMAIN stack'[t] = 1..n /\ stack'[t][n].at = place
  BY <1>1, <1>2 DEF TopReplaced, Top
<1>4. \A i \in 1..n : i # n => stack'[t][i] = stack[t][i]
  BY <1>1, <1>2 DEF TopReplaced
<1>5. \A v \in Threads \ {t} : stack'[v] = stack[v]
  BY <1>2 DEF TopReplaced
<1> QED
  BY <1>1, <1>3, <1>4, <1>5 DEF Calm

(* A step that takes no function from its place, and changes none of the   *)
(* nets, keeps the promises as they are.                                   *)
LEMMA PlacesKept ==
    ASSUME WInv, Calm => Calm', UNCHANGED <<entry, expansion, attempt, filled, embeds, failures>>,
           \A f \in Functions : (In(f, Lowered) => In(f, Lowered)') /\ (In(f, Pending) => In(f, Pending)'),
           IInv'
    PROVE  WInv'
<1> SUFFICES ASSUME failures = 0 PROVE Calm' /\ Published' /\ Offered' /\ Grafted'
  BY DEF WInv, Whole
<1>1. Calm /\ Published /\ Offered /\ Grafted
  BY DEF WInv, Whole
<1>2. Published'
  BY <1>1 DEF Published
<1>3. \A e : e.fn \in Functions /\ Awaited(e) => Awaited(e)'
  BY DEF Awaited
<1>4. Offered'
  BY <1>1, <1>3 DEF Offered, Promise
<1>5. ASSUME NEW f \in Functions, NEW e \in embeds[f]
      PROVE  e.fn \in Functions
  BY DEF WInv, IInv, Types
<1>6. Grafted'
  BY <1>1, <1>3, <1>5 DEF Grafted
<1> QED
  BY <1>1, <1>2, <1>4, <1>6

(* A step of the top compilation: an awaited promise stays awaited, unless *)
(* the step takes its function off the way to filling it.                  *)
LEMMA AwaitedStays ==
    ASSUME IInv, NEW t \in Threads, stack[t] # <<>>, NEW place \in Places, Step(t, place),
           filled \subseteq filled', NEW e, e.fn \in Functions, Awaited(e),
           e.fn # Top(t).fn => attempt'[e.fn] = attempt[e.fn],
           e.fn = Top(t).fn => \/ e \in filled'
                               \/ Top(t).at \notin Pending
                               \/ place \in Pending /\ attempt' = attempt
    PROVE  Awaited(e)'
<1>1. CASE e \in filled'
  BY <1>1 DEF Awaited
<1>2. CASE e \notin filled'
  <2>1. e = Promise(e.fn, attempt[e.fn]) /\ In(e.fn, Pending)
    BY <1>2 DEF Awaited
  <2>2. CASE e.fn # Top(t).fn
    <3>1. In(e.fn, Pending)'
      BY <2>1, <2>2, TopMoves
    <3> QED
      BY <2>1, <2>2, <3>1 DEF Awaited
  <2>3. CASE e.fn = Top(t).fn
    <3>1. Top(t).at \in Pending
      BY <2>1, <2>3, TopMoves
    <3>2. place \in Pending /\ attempt' = attempt
      BY <1>2, <2>3, <3>1
    <3>3. In(e.fn, Pending)'
      BY <2>3, <3>2, TopMoves
    <3> QED
      BY <2>1, <3>2, <3>3 DEF Awaited
  <2> QED
    BY <2>2, <2>3
<1> QED
  BY <1>1, <1>2

LEMMA Embedded ==
    ASSUME IInv, NEW f \in Functions, NEW e \in embeds[f]
    PROVE  e.fn \in Functions
BY DEF IInv, Types

LEMMA PromiseIs ==
    ASSUME NEW f, NEW n
    PROVE  Promise(f, n).kind = "promise" /\ Promise(f, n).fn = f /\ Promise(f, n).attempt = n
BY DEF Promise

LEMMA StartWhole == ASSUME WInv, IInv', NEW t \in Threads, Start(t) PROVE WInv'
<1> SUFFICES ASSUME failures = 0 PROVE Calm' /\ Published' /\ Offered' /\ Grafted'
  BY DEF WInv, Whole, Start
<1>1. /\ stack[t] # <<>> /\ Top(t).at = "start" /\ Step(t, "symbols") /\ "symbols" \in Places
      /\ "symbols" \notin Lowered /\ Top(t).at \notin Lowered \cup Pending
      /\ expansion' = [expansion EXCEPT ![Top(t).fn] = "none"]
      /\ UNCHANGED <<entry, attempt, filled, embeds>>
  BY DEF Start, Compiles, Places, Lowered, Pending
<1>2. IInv /\ Calm /\ Published /\ Offered /\ Grafted
  BY DEF WInv, Whole
<1>3. Top(t).fn \in Functions /\ ~entry[Top(t).fn]
  BY <1>1, <1>2, TopFacts DEF Entered
<1>4. Calm'
  BY <1>1, <1>2, StaysCalm
<1>5. \A f \in Functions \ {Top(t).fn} : expansion'[f] = expansion[f] /\ (In(f, Lowered)' <=> In(f, Lowered))
  BY <1>1, <1>2, TopMoves DEF IInv, Types
<1>6. Published'
  BY <1>1, <1>2, <1>3, <1>5 DEF Published
<1>7. ASSUME NEW e, e.fn \in Functions, Awaited(e)
      PROVE  Awaited(e)'
  BY <1>1, <1>2, <1>7, AwaitedStays
<1>8. expansion'[Top(t).fn] # "promise"
  BY <1>1, <1>2, <1>3 DEF IInv, Types
<1>9. Offered'
  BY <1>1, <1>2, <1>5, <1>7, <1>8, PromiseIs DEF Offered
<1>10. Grafted'
  BY <1>1, <1>2, <1>7, Embedded DEF Grafted
<1> QED
  BY <1>4, <1>6, <1>9, <1>10

LEMMA SymbolsWhole == ASSUME WInv, IInv', NEW t \in Threads, Symbols(t) PROVE WInv'
<1> SUFFICES ASSUME failures = 0 PROVE Calm' /\ Published' /\ Offered' /\ Grafted'
  BY DEF WInv, Whole, Symbols
<1>1. /\ stack[t] # <<>> /\ Top(t).at = "symbols" /\ Step(t, "callees") /\ "callees" \in Places
      /\ Top(t).at \notin Pending /\ "callees" \in Pending
      /\ expansion' = [expansion EXCEPT ![Top(t).fn] = "promise"]
      /\ attempt' = [attempt EXCEPT ![Top(t).fn] = @ + 1]
      /\ UNCHANGED <<entry, filled, embeds>>
  BY DEF Symbols, Compiles, Places, Pending
<1>2. IInv /\ Calm /\ Published /\ Offered /\ Grafted
  BY DEF WInv, Whole
<1>3. Top(t).fn \in Functions /\ ~entry[Top(t).fn]
  BY <1>1, <1>2, TopFacts DEF Entered
<1>4. Calm'
  BY <1>1, <1>2, StaysCalm
<1>5. \A f \in Functions \ {Top(t).fn} :
          /\ expansion'[f] = expansion[f] /\ attempt'[f] = attempt[f]
          /\ In(f, Lowered)' <=> In(f, Lowered)
  BY <1>1, <1>2, TopMoves DEF IInv, Types
<1>6. Published'
  BY <1>1, <1>2, <1>3, <1>5 DEF Published
<1>7. ASSUME NEW e, e.fn \in Functions, Awaited(e)
      PROVE  Awaited(e)'
  BY <1>1, <1>2, <1>7, AwaitedStays
<1>8. ASSUME NEW f \in Functions, f = Top(t).fn
      PROVE  Awaited(Promise(f, attempt[f]))'
  <2>1. In(f, Pending)'
    BY <1>1, <1>2, <1>8, TopMoves
  <2> QED
    BY <2>1, PromiseIs DEF Awaited
<1>9. Offered'
  BY <1>2, <1>5, <1>7, <1>8, PromiseIs DEF Offered
<1>10. Grafted'
  BY <1>1, <1>2, <1>7, Embedded DEF Grafted
<1> QED
  BY <1>4, <1>6, <1>9, <1>10

(* The lowering embeds what its callees offer: nets, or awaited promises.  *)
LEMMA LowerWhole == ASSUME WInv, IInv', NEW t \in Threads, Lower(t) PROVE WInv'
<1> SUFFICES ASSUME failures = 0 PROVE Calm' /\ Published' /\ Offered' /\ Grafted'
  BY DEF WInv, Whole, Lower
<1> DEFINE g == Callees[Top(t).fn]
           grafts == {EmbedOf(g[i]) : i \in DOMAIN g}
<1>1. /\ stack[t] # <<>> /\ Top(t).at = "lower" /\ Step(t, "fill") /\ "fill" \in Places
      /\ "fill" \in Pending /\ "fill" \in Lowered
      /\ embeds' = [embeds EXCEPT ![Top(t).fn] = grafts]
      /\ entry' = [entry EXCEPT ![Top(t).fn] = TRUE]
      /\ UNCHANGED <<expansion, attempt, filled>>
  BY DEF Lower, Compiles, Places, Pending, Lowered
<1>2. IInv /\ Calm /\ Published /\ Offered /\ Grafted
  BY DEF WInv, Whole
<1>3. Top(t).fn \in Functions /\ Prepared(Top(t))
  BY <1>1, <1>2, TopFacts
<1>4. Calm'
  BY <1>1, <1>2, StaysCalm
<1>5. ASSUME NEW f \in Functions
      PROVE  /\ f # Top(t).fn => /\ entry'[f] = entry[f] /\ embeds'[f] = embeds[f]
                                 /\ In(f, Lowered)' <=> In(f, Lowered)
             /\ f = Top(t).fn => In(f, Lowered)'
  BY <1>1, <1>2, TopMoves DEF IInv, Types
<1>6. Published'
  BY <1>1, <1>2, <1>5 DEF Published
<1>7. ASSUME NEW e, e.fn \in Functions, Awaited(e)
      PROVE  Awaited(e)'
  BY <1>1, <1>2, <1>7, AwaitedStays
<1>8. Offered'
  BY <1>1, <1>2, <1>7, PromiseIs DEF Offered
<1>9. ASSUME NEW i \in DOMAIN g, EmbedOf(g[i]).kind = "promise"
      PROVE  EmbedOf(g[i]).fn \in Functions /\ Awaited(EmbedOf(g[i]))
  <2>1. g[i] \in Functions
    BY <1>3, CalleeFunctions
  <2>2. expansion[g[i]] # "frozen" /\ EmbedOf(g[i]) = Promise(g[i], attempt[g[i]])
    BY <1>9 DEF EmbedOf, Frozen
  <2>3. expansion[g[i]] # "none"
    <3>1. Compiles(t, "lower")
      BY <1>1 DEF Compiles
    <3> QED
      BY <1>2, <3>1, GraftsHold DEF GraftsPossible
  <2>4. expansion[g[i]] = "promise"
    BY <1>2, <2>1, <2>2, <2>3 DEF IInv, Types
  <2> QED
    BY <1>2, <2>1, <2>2, <2>4, PromiseIs DEF Offered
<1>10. Grafted'
  <2> SUFFICES ASSUME NEW f \in Functions, NEW e \in embeds'[f], e.kind = "promise"
               PROVE  Awaited(e)'
    BY DEF Grafted
  <2>1. CASE f = Top(t).fn
    <3>1. e \in grafts
      BY <1>1, <1>2, <2>1 DEF IInv, Types
    <3> QED
      BY <1>7, <1>9, <3>1
  <2>2. CASE f # Top(t).fn
    BY <1>2, <1>5, <1>7, <2>2, Embedded DEF Grafted
  <2> QED
    BY <2>1, <2>2
<1> QED
  BY <1>4, <1>6, <1>8, <1>10

LEMMA FillWhole == ASSUME WInv, IInv', NEW t \in Threads, Fill(t) PROVE WInv'
<1> SUFFICES ASSUME failures = 0 PROVE Calm' /\ Published' /\ Offered' /\ Grafted'
  BY DEF WInv, Whole, Fill
<1>1. /\ stack[t] # <<>> /\ Top(t).at = "fill" /\ Step(t, "publish") /\ "publish" \in Places
      /\ Top(t).at \in Lowered /\ "publish" \in Lowered
      /\ filled' = filled \cup {Promise(Top(t).fn, attempt[Top(t).fn])}
      /\ UNCHANGED <<entry, expansion, attempt, embeds>>
  BY DEF Fill, Compiles, Places, Lowered
<1>2. IInv /\ Calm /\ Published /\ Offered /\ Grafted
  BY DEF WInv, Whole
<1>3. Calm'
  BY <1>1, <1>2, StaysCalm
<1>4. Published'
  BY <1>1, <1>2, TopMoves DEF Published
<1>5. ASSUME NEW e, e.fn \in Functions, Awaited(e)
      PROVE  Awaited(e)'
  <2>1. e.fn = Top(t).fn => e \in filled'
    BY <1>1, <1>5 DEF Awaited
  <2> QED
    BY <1>1, <1>2, <1>5, <2>1, AwaitedStays
<1>6. Offered'
  BY <1>1, <1>2, <1>5, PromiseIs DEF Offered
<1>7. Grafted'
  BY <1>1, <1>2, <1>5, Embedded DEF Grafted
<1> QED
  BY <1>3, <1>4, <1>6, <1>7

LEMMA PublishWhole == ASSUME WInv, IInv', NEW t \in Threads, Publish(t) PROVE WInv'
<1> SUFFICES ASSUME failures = 0 PROVE Calm' /\ Published' /\ Offered' /\ Grafted'
  BY DEF WInv, Whole, Publish
<1>1. /\ stack[t] # <<>> /\ Top(t).at = "publish" /\ Step(t, "done") /\ "done" \in Places
      /\ Top(t).at \notin Pending
      /\ expansion' = [expansion EXCEPT ![Top(t).fn] = "frozen"]
      /\ UNCHANGED <<entry, attempt, filled, embeds>>
  BY DEF Publish, Compiles, Places, Pending
<1>2. IInv /\ Calm /\ Published /\ Offered /\ Grafted
  BY DEF WInv, Whole
<1>3. Calm'
  BY <1>1, <1>2, StaysCalm
<1>4. ASSUME NEW f \in Functions
      PROVE  /\ f # Top(t).fn => expansion'[f] = expansion[f] /\ (In(f, Lowered)' <=> In(f, Lowered))
             /\ f = Top(t).fn => expansion'[f] = "frozen"
  BY <1>1, <1>2, TopMoves DEF IInv, Types
<1>5. Published'
  BY <1>1, <1>2, <1>4 DEF Published
<1>6. ASSUME NEW e, e.fn \in Functions, Awaited(e)
      PROVE  Awaited(e)'
  BY <1>1, <1>2, <1>6, AwaitedStays
<1>7. Offered'
  BY <1>1, <1>2, <1>4, <1>6, PromiseIs DEF Offered
<1>8. Grafted'
  BY <1>1, <1>2, <1>6, Embedded DEF Grafted
<1> QED
  BY <1>3, <1>5, <1>7, <1>8

-----------------------------------------------------------------------------
(* Steps that leave every function where it was. *)
LEMMA AllAskedWhole == ASSUME WInv, IInv', NEW t \in Threads, AllAsked(t) PROVE WInv'
<1>1. /\ stack[t] # <<>> /\ Top(t).at = "callees" /\ Step(t, "lower") /\ "lower" \in Places
      /\ Top(t).at \notin Lowered /\ "lower" \in Pending /\ "lower" # "raised"
      /\ UNCHANGED <<entry, expansion, attempt, filled, embeds, failures>>
  BY DEF AllAsked, Compiles, Places, Pending, Lowered, state
<1>2. IInv
  BY DEF WInv
<1>3. Calm => Calm'
  BY <1>1, <1>2, StaysCalm
<1>4. \A f \in Functions : (In(f, Lowered) => In(f, Lowered)') /\ (In(f, Pending) => In(f, Pending)')
  BY <1>1, <1>2, TopMoves
<1> QED
  BY <1>1, <1>3, <1>4, PlacesKept

(* The stack of one thread is replaced, and its frames have each their     *)
(* counterpart.                                                            *)
Matches(s, r) ==
    /\ \A i \in DOMAIN r : r[i].at = "raised" => \E k \in DOMAIN s : s[k].at = "raised"
    /\ \A i \in DOMAIN s : s[i].at \in Pending \cup Lowered =>
          \E k \in DOMAIN r : r[k].fn = s[i].fn /\ r[k].at = s[i].at

LEMMA StackReplaced ==
    ASSUME WInv, IInv', NEW t \in Threads,
           \A v \in Threads \ {t} : stack'[v] = stack[v], Matches(stack[t], stack'[t]),
           UNCHANGED <<entry, expansion, attempt, filled, embeds, failures>>
    PROVE  WInv'
<1> DEFINE r == stack'[t]
<1>1. /\ \A i \in DOMAIN r : r[i].at = "raised" => \E k \in DOMAIN stack[t] : stack[t][k].at = "raised"
      /\ \A i \in DOMAIN stack[t] : stack[t][i].at \in Pending \cup Lowered =>
            \E k \in DOMAIN r : r[k].fn = stack[t][i].fn /\ r[k].at = stack[t][i].at
  BY DEF Matches
<1>2. Calm => Calm'
  BY <1>1 DEF Calm
<1>3. ASSUME NEW f \in Functions, NEW places, places \subseteq Pending \cup Lowered, In(f, places)
      PROVE  In(f, places)'
  <2>1. PICK v \in Threads : \E i \in DOMAIN stack[v] : stack[v][i].fn = f /\ stack[v][i].at \in places
    BY <1>3 DEF In
  <2>2. CASE v = t
    <3>1. PICK i \in DOMAIN stack[t] : stack[t][i].fn = f /\ stack[t][i].at \in places
      BY <2>1, <2>2
    <3>2. PICK k \in DOMAIN r : r[k].fn = f /\ r[k].at = stack[t][i].at
      BY <1>1, <1>3, <3>1
    <3> QED
      BY <3>1, <3>2 DEF In
  <2>3. CASE v # t
    BY <2>1, <2>3 DEF In
  <2> QED
    BY <2>2, <2>3
<1>4. \A f \in Functions : (In(f, Lowered) => In(f, Lowered)') /\ (In(f, Pending) => In(f, Pending)')
  BY <1>3
<1> QED
  BY <1>2, <1>4, PlacesKept

(* The frames of a thread that asks for a callee, or for a function.       *)
LEMMA CalleeWhole == ASSUME WInv, IInv', NEW t \in Threads, Callee(t) PROVE WInv'
<1> DEFINE s == stack[t]
           n == Len(s)
           a == Advanced(t)
           b == Append(a, Frame(Callees[Top(t).fn][Top(t).next]))
<1>1. /\ s # <<>>
      /\ stack' = [stack EXCEPT ![t] = a] \/ stack' = [stack EXCEPT ![t] = b]
      /\ UNCHANGED <<entry, expansion, attempt, filled, embeds, failures>>
  BY DEF Callee, Compiles, Advanced
<1>2. IInv /\ Types /\ s # <<>>
  BY DEF WInv, IInv, Callee, Compiles
<1>3. s \in Seq(Frames) /\ n \in Nat /\ n >= 1 /\ DOMAIN s = 1..n /\ Top(t) = s[n]
  BY <1>2 DEF Types, Top
<1>4. /\ a \in Seq(Frames) /\ DOMAIN a = 1..n /\ Len(a) = n
      /\ \A i \in 1..n : a[i].fn = s[i].fn /\ a[i].at = s[i].at
  <2>1. /\ a \in Seq(Frames) /\ Len(a) = n /\ a[n].fn = s[n].fn /\ a[n].at = s[n].at
        /\ \A i \in 1..n : i < n => a[i] = s[i]
    BY <1>2, <1>3, AdvancedFrames
  <2> HIDE DEF a
  <2>2. \A i \in 1..n : i = n \/ i < n
    BY <1>3
  <2> QED
    BY <1>3, <2>1, <2>2
<1> HIDE DEF a
<1>5. CASE stack' = [stack EXCEPT ![t] = a]
  <2>1. stack'[t] = a /\ \A v \in Threads \ {t} : stack'[v] = stack[v]
    BY <1>2, <1>5 DEF Types
  <2>2. Matches(s, a)
    BY <1>3, <1>4 DEF Matches
  <2> QED
    BY <1>1, <2>1, <2>2, StackReplaced
<1>6. CASE stack' = [stack EXCEPT ![t] = b]
  <2> DEFINE frame == Frame(Callees[Top(t).fn][Top(t).next])
  <2>1. frame.at = "start"
    BY DEF Frame
  <2> HIDE DEF frame
  <2>2. DOMAIN b = 1..(n + 1) /\ b[n + 1] = frame /\ \A i \in 1..n : b[i] = a[i]
    BY <1>3, <1>4 DEF frame
  <2> HIDE DEF b
  <2>3. \A i \in 1..(n + 1) : i = n + 1 \/ i \in 1..n
    BY <1>3
  <2>4. \A i \in DOMAIN b : b[i].at = "raised" => \E k \in DOMAIN s : s[k].at = "raised"
    BY <1>3, <1>4, <2>1, <2>2, <2>3
  <2>5. \A i \in DOMAIN s : \E k \in DOMAIN b : b[k].fn = s[i].fn /\ b[k].at = s[i].at
    <3>1. \A i \in 1..n : i \in 1..(n + 1)
      BY <1>3
    <3> QED
      BY <1>3, <1>4, <2>2, <3>1
  <2>6. Matches(s, b)
    BY <2>4, <2>5 DEF Matches
  <2>7. stack'[t] = b /\ \A v \in Threads \ {t} : stack'[v] = stack[v]
    BY <1>2, <1>6 DEF Types
  <2> QED
    BY <1>1, <2>6, <2>7, StackReplaced
<1> QED
  BY <1>1, <1>5, <1>6

LEMMA AcquireWhole == ASSUME WInv, IInv', NEW t \in Threads, Acquire(t) PROVE WInv'
<1>1. UNCHANGED <<entry, expansion, attempt, filled, embeds, failures>> /\ lock = NoThread
  BY DEF Acquire
<1>2. CASE UNCHANGED stack
  BY <1>1, <1>2, PlacesKept DEF In, Calm
<1>3. CASE stack' = [stack EXCEPT ![t] = <<Frame(call[t].fn)>>]
  <2> DEFINE frame == Frame(call[t].fn)
  <2>1. stack[t] = <<>>
    BY <1>1, Threaded DEF WInv, IInv, Locked
  <2>2. frame.at = "start"
    BY DEF Frame
  <2> HIDE DEF frame
  <2>3. \A i \in DOMAIN <<frame>> : <<frame>>[i].at # "raised"
    BY <2>2
  <2>4. DOMAIN stack[t] = {}
    BY <2>1
  <2>5. Matches(stack[t], <<frame>>)
    BY <2>3, <2>4 DEF Matches
  <2>6. stack'[t] = <<frame>> /\ \A v \in Threads \ {t} : stack'[v] = stack[v]
    BY <1>3 DEF WInv, IInv, Types, frame
  <2> QED
    BY <1>1, <2>5, <2>6, StackReplaced
<1> QED
  BY <1>2, <1>3 DEF Acquire

(* A compilation ends where nobody waits for its promise any more; without *)
(* failures none is left by an exception.                                  *)
LEMMA LeaveFrameWhole == ASSUME WInv, IInv', NEW t \in Threads, LeaveFrame(t) PROVE WInv'
<1> SUFFICES ASSUME failures = 0 PROVE WInv'
  BY DEF WInv, Whole, LeaveFrame
<1> DEFINE s == stack[t]
           n == Len(s)
           outer == Pop(t)
<1>1. s # <<>> /\ IInv /\ Calm
  BY DEF WInv, Whole, LeaveFrame, Compiles
<1>2. s \in Seq(Frames) /\ n \in Nat /\ n >= 1 /\ DOMAIN s = 1..n /\ Top(t) = s[n]
  BY <1>1 DEF IInv, Types, Top
<1>3. s[n].at = "done"
  <2>1. s[n].at # "raised"
    BY <1>1, <1>2 DEF Calm
  <2> QED
    BY <1>2, <2>1 DEF LeaveFrame, Compiles
<1>4. stack' = [stack EXCEPT ![t] = outer]
  BY <1>2, <1>3 DEF LeaveFrame
<1>5. UNCHANGED <<entry, expansion, attempt, filled, embeds, failures>>
  BY DEF LeaveFrame
<1>6. /\ outer \in Seq(Frames) /\ DOMAIN outer = 1..(n - 1)
      /\ \A i \in 1..(n - 1) : outer[i] = s[i]
  BY <1>1, <1>2, PopFacts
<1> HIDE DEF outer
<1>7. \A i \in DOMAIN outer : i \in DOMAIN s /\ outer[i] = s[i]
  BY <1>2, <1>6
<1>8. \A i \in DOMAIN s : i = n \/ i \in DOMAIN outer
  BY <1>2, <1>6
<1>9. s[n].at \notin Pending \cup Lowered
  BY <1>3 DEF Pending, Lowered
<1>10. Matches(s, outer)
  BY <1>7, <1>8, <1>9 DEF Matches
<1>11. stack'[t] = outer /\ \A v \in Threads \ {t} : stack'[v] = stack[v]
  BY <1>1, <1>4 DEF IInv, Types
<1> QED
  BY <1>5, <1>10, <1>11, StackReplaced

LEMMA CallWhole == ASSUME WInv, IInv', NEW t \in Threads, Call(t) \/ CallStep(t) PROVE WInv'
<1>1. CASE Acquire(t)
  BY <1>1, AcquireWhole
<1>2. CASE ~Acquire(t)
  <2>1. UNCHANGED <<stack, state, failures>>
    BY <1>2 DEF Call, CallStep, Check, NoPromise, Enter, Graft, Output
  <2> QED
    BY <2>1, PlacesKept DEF In, Calm, state
<1> QED
  BY <1>1, <1>2

LEMMA FailWhole == ASSUME WInv, IInv', NEW t \in Threads, Fail(t) PROVE WInv'
<1>1. failures' = failures + 1 /\ failures \in Nat
  BY DEF Fail, Raise, WInv
<1> QED
  BY <1>1 DEF WInv, Whole

LEMMA NextIsWhole == WInv /\ [Next]_vars => WInv'
<1> SUFFICES ASSUME WInv, [Next]_vars PROVE WInv'
  OBVIOUS
<1>1. IInv'
  BY NextHolds DEF WInv
<1>2. ASSUME NEW t \in Threads, Call(t) \/ CallStep(t)
      PROVE  WInv'
  BY <1>1, <1>2, CallWhole
<1>3. ASSUME NEW t \in Threads, CompileStep(t)
      PROVE  WInv'
  BY <1>1, <1>3, StartWhole, SymbolsWhole, CalleeWhole, AllAskedWhole, LowerWhole, FillWhole,
     PublishWhole, FailWhole, LeaveFrameWhole DEF CompileStep
<1>4. CASE UNCHANGED vars
  BY <1>1, <1>4, PlacesKept DEF vars, state, In, Calm
<1> QED
  BY <1>2, <1>3, <1>4 DEF Next, Idle

LEMMA WholeIsComplete == WInv => NetsComplete
<1> SUFFICES ASSUME WInv, lock = NoThread, failures = 0, NEW f \in Functions, entry[f]
             PROVE  /\ expansion[f] = "frozen"
                    /\ \A e \in embeds[f] : e.kind = "promise" => e \in filled
  BY DEF NetsComplete
<1>1. \A t \in Threads : stack[t] = <<>>
  BY Threaded DEF WInv, IInv, Locked
<1>2. \A g, places : ~In(g, places)
  BY <1>1 DEF In
<1> QED
  BY <1>2 DEF WInv, Whole, Published, Grafted, Awaited

(* "The callee's compile fills [the promise] before any net can run":      *)
(* between compilations, as long as none failed, every promise a net       *)
(* embeds has its target, however the functions call each other (_compile  *)
(* and PromiseExpansion).                                                  *)
THEOREM NetsCompleteAlways == Spec => []NetsComplete
<1> QED
  BY InitIsWhole, NextIsWhole, WholeIsComplete, PTL DEF Spec

-----------------------------------------------------------------------------
(* How often a function is attempted.  An attempt ends with the entry      *)
(* point, or with a failure; a failure that goes through the stack is the  *)
(* failure of every attempt there.                                         *)
Called ==
    /\ calls \in [Threads -> 0..MaxCalls]
    /\ outcome \in [Threads -> {"none", "output", "compile error", "still compiling",
                                "unfilled promise"}]

Limits ==
    /\ attempt \in [Functions -> Nat]
    /\ failures \in 0..MaxFailures
    /\ \A f \in Functions :
          /\ attempt[f] <= failures + 1
          /\ entry[f] \/ In(f, Pending) \/ attempt[f] <= failures
          /\ Calm \/ attempt[f] <= failures
          /\ In(f, Pending) => attempt[f] >= 1
    /\ \A p \in filled : p.kind = "promise" /\ p.fn \in Functions /\ p.attempt \in 1..attempt[p.fn]

TInv == IInv /\ Called /\ Limits

LEMMA InitIsLimited == Init => Called /\ Limits
<1> SUFFICES ASSUME Init PROVE Called /\ Limits
  OBVIOUS
<1>1. MaxCalls \in Nat /\ MaxFailures \in Nat
  BY CompileAssumption
<1>2. Calm /\ \A f \in Functions : ~In(f, Pending)
  BY DEF Init, Calm, In
<1>3. Called
  BY <1>1 DEF Init, Called
<1>4. attempt \in [Functions -> Nat] /\ failures \in 0..MaxFailures /\ failures = 0
  BY <1>1 DEF Init
<1>5. \A f \in Functions : attempt[f] = 0
  BY DEF Init
<1> QED
  BY <1>2, <1>3, <1>4, <1>5 DEF Init, Limits

LEMMA CallStaysCalled == ASSUME Called, NEW t \in Threads, Call(t) PROVE Called'
<1>1. /\ calls \in [Threads -> 0..MaxCalls] /\ calls[t] < MaxCalls /\ MaxCalls \in Nat
      /\ calls' = [calls EXCEPT ![t] = @ + 1]
      /\ outcome' = [outcome EXCEPT ![t] = "none"]
  BY CompileAssumption DEF Call, Called
<1>2. calls[t] + 1 \in 0..MaxCalls
  BY <1>1
<1>3. calls' \in [Threads -> 0..MaxCalls]
  BY <1>1, <1>2
<1> QED
  BY <1>1, <1>3 DEF Called

Outcomes == {"none", "output", "compile error", "still compiling", "unfilled promise"}

LEMMA EndStaysCalled ==
    ASSUME Called, NEW t \in Threads, UNCHANGED calls,
           UNCHANGED outcome \/ \E how \in Outcomes : End(t, how)
    PROVE  Called'
<1>1. CASE UNCHANGED outcome
  BY <1>1 DEF Called
<1>2. CASE \E how \in Outcomes : End(t, how)
  BY <1>2 DEF Called, End, Outcomes
<1> QED
  BY <1>1, <1>2

LEMMA StepStaysCalled ==
    ASSUME Called, NEW t \in Threads, CallStep(t) \/ CompileStep(t)
    PROVE  Called'
<1>1. calls' = calls
  <2>1. CASE CallStep(t)
    BY <2>1 DEF CallStep, Check, Acquire, NoPromise, Enter, Graft, Output
  <2>2. CASE CompileStep(t)
    BY <2>2 DEF CompileStep, Start, Symbols, Callee, AllAsked, Lower, Fill, Publish, Fail, Raise, LeaveFrame
  <2> QED
    BY <2>1, <2>2
<1>2. UNCHANGED outcome \/ \E how \in Outcomes : End(t, how)
  <2>1. CASE Check(t) \/ Acquire(t)
    BY <2>1 DEF Check, Acquire
  <2>2. CASE NoPromise(t) \/ Enter(t) \/ Output(t)
    BY <2>2 DEF NoPromise, Enter, Output, Outcomes
  <2>3. CASE Graft(t)
    BY <2>3 DEF Graft, Outcomes
  <2>4. CASE LeaveFrame(t)
    BY <2>4 DEF LeaveFrame, Outcomes
  <2>5. CASE CompileStep(t) /\ ~LeaveFrame(t)
    BY <2>5 DEF CompileStep, Start, Symbols, Callee, AllAsked, Lower, Fill, Publish, Fail, Raise
  <2> QED
    BY <2>1, <2>2, <2>3, <2>4, <2>5 DEF CallStep
<1> QED
  BY <1>1, <1>2, EndStaysCalled

(* Only the top of a stack raises: the frames below it ask for callees.    *)
LEMMA CalmBelow ==
    ASSUME IInv, NEW t \in Threads, stack[t] # <<>>, Top(t).at # "raised"
    PROVE  Calm
<1> DEFINE n == Len(stack[t])
<1>1. stack[t] \in Seq(Frames) /\ n \in Nat /\ n >= 1 /\ DOMAIN stack[t] = 1..n
  BY DEF IInv, Types
<1>2. \A i \in 1..n : i # n => stack[t][i].at = "callees"
  BY <1>1 DEF IInv, Sound, Nested
<1>3. \A v \in Threads \ {t} : DOMAIN stack[v] = {}
  BY Alone
<1> QED
  BY <1>1, <1>2, <1>3 DEF Calm, Top

LEMMA LimitsKept ==
    ASSUME Limits, UNCHANGED <<attempt, filled, failures>>, Calm => Calm',
           \A f \in Functions :
               /\ entry[f] => entry'[f]
               /\ In(f, Pending)' => In(f, Pending)
               /\ In(f, Pending) => In(f, Pending)' \/ entry'[f] \/ attempt[f] <= failures
    PROVE  Limits'
BY DEF Limits

(* A step of the top compilation, except for the one that makes an attempt,*)
(* fills a promise or fails.                                               *)
LEMMA TopLimited ==
    ASSUME TInv, NEW t \in Threads, stack[t] # <<>>, NEW place \in Places, Step(t, place),
           Top(t).at # "raised", place # "raised", UNCHANGED <<attempt, failures>>,
           \A f \in Functions : entry[f] => entry'[f],
           place \in Pending => Top(t).at \in Pending,
           Top(t).at \in Pending => place \in Pending \/ entry[Top(t).fn],
           filled' = filled \/ (attempt[Top(t).fn] >= 1 /\
                                 filled' = filled \cup {Promise(Top(t).fn, attempt[Top(t).fn])})
    PROVE  Limits'
<1>0. IInv /\ Limits /\ Top(t).fn \in Functions
  BY TopFacts DEF TInv
<1>1. Calm
  BY <1>0, CalmBelow
<1>2. Calm'
  BY <1>0, <1>1, StaysCalm
<1>3. \A f \in Functions : f # Top(t).fn => (In(f, Pending)' <=> In(f, Pending))
  BY <1>0, TopMoves
<1>4. \A f \in Functions : f = Top(t).fn =>
         (In(f, Pending) <=> Top(t).at \in Pending) /\ (In(f, Pending)' <=> place \in Pending)
  BY <1>0, TopMoves
<1>5. \A f \in Functions : /\ In(f, Pending)' => In(f, Pending)
                           /\ In(f, Pending) => In(f, Pending)' \/ entry'[f]
  BY <1>3, <1>4
<1>6. \A f \in Functions :
          /\ attempt'[f] <= failures' + 1
          /\ entry'[f] \/ In(f, Pending)' \/ attempt'[f] <= failures'
          /\ In(f, Pending)' => attempt'[f] >= 1
  BY <1>0, <1>5 DEF Limits
<1>7. \A p \in filled' : p.kind = "promise" /\ p.fn \in Functions /\ p.attempt \in 1..attempt'[p.fn]
  <2>1. LET p == Promise(Top(t).fn, attempt[Top(t).fn])
        IN  attempt[Top(t).fn] >= 1 =>
                p.kind = "promise" /\ p.fn \in Functions /\ p.attempt \in 1..attempt[p.fn]
    BY <1>0, PromiseIs DEF Limits
  <2> QED
    BY <1>0, <2>1 DEF Limits
<1>8. attempt' \in [Functions -> Nat] /\ failures' \in 0..MaxFailures
  BY <1>0 DEF Limits
<1> QED
  BY <1>2, <1>6, <1>7, <1>8 DEF Limits

LEMMA SymbolsLimited == ASSUME TInv, NEW t \in Threads, Symbols(t) PROVE Limits'
<1> PICK f : f = Top(t).fn
  OBVIOUS
<1>1. /\ stack[t] # <<>> /\ Top(t).at = "symbols" /\ Step(t, "callees") /\ "callees" \in Places
      /\ Top(t).at \notin Pending /\ "callees" \in Pending
      /\ attempt' = [attempt EXCEPT ![f] = @ + 1]
      /\ UNCHANGED <<entry, filled, failures>>
  BY DEF Symbols, Compiles, Places, Pending
<1>2. IInv /\ Limits /\ f \in Functions /\ ~entry[f]
  BY <1>1, TopFacts DEF TInv, Entered
<1>3. Calm /\ Calm'
  BY <1>1, <1>2, CalmBelow, StaysCalm
<1>4. \A g \in Functions : g # f => (In(g, Pending)' <=> In(g, Pending))
  BY <1>1, <1>2, TopMoves
<1>5. ~In(f, Pending) /\ In(f, Pending)'
  BY <1>1, <1>2, TopMoves
<1>6. attempt[f] \in Nat /\ attempt[f] <= failures
  BY <1>2, <1>5 DEF Limits
<1>7. attempt'[f] = attempt[f] + 1 /\ \A g \in Functions : g # f => attempt'[g] = attempt[g]
  BY <1>1, <1>2 DEF Limits
<1>8. attempt' \in [Functions -> Nat] /\ failures \in Nat
  <2>1. attempt \in [Functions -> Nat] /\ attempt[f] + 1 \in Nat /\ failures \in Nat
    BY <1>2, <1>6, CompileAssumption DEF Limits
  <2> QED
    BY <1>1, <2>1
<1>9. \A g \in Functions :
          /\ attempt'[g] <= failures' + 1
          /\ entry'[g] \/ In(g, Pending)' \/ attempt'[g] <= failures'
          /\ In(g, Pending)' => attempt'[g] >= 1
  <2> SUFFICES ASSUME NEW g \in Functions
               PROVE  /\ attempt'[g] <= failures' + 1
                      /\ entry'[g] \/ In(g, Pending)' \/ attempt'[g] <= failures'
                      /\ In(g, Pending)' => attempt'[g] >= 1
    OBVIOUS
  <2>1. CASE g = f
    BY <1>1, <1>5, <1>6, <1>7, <1>8, <2>1
  <2>2. CASE g # f
    BY <1>1, <1>2, <1>4, <1>7, <2>2 DEF Limits
  <2> QED
    BY <2>1, <2>2
<1>10. \A p \in filled' : p.kind = "promise" /\ p.fn \in Functions /\ p.attempt \in 1..attempt'[p.fn]
  <2> SUFFICES ASSUME NEW p \in filled
               PROVE  p.kind = "promise" /\ p.fn \in Functions /\ p.attempt \in 1..attempt'[p.fn]
    BY <1>1
  <2>1. p.kind = "promise" /\ p.fn \in Functions /\ p.attempt \in 1..attempt[p.fn]
    BY <1>2 DEF Limits
  <2>2. attempt[p.fn] \in Nat /\ attempt'[p.fn] \in Nat /\ attempt'[p.fn] >= attempt[p.fn]
    BY <1>2, <1>6, <1>7, <1>8, <2>1 DEF Limits
  <2> QED
    BY <2>1, <2>2
<1> QED
  BY <1>1, <1>2, <1>3, <1>8, <1>9, <1>10 DEF Limits

LEMMA FailLimited == ASSUME TInv, NEW t \in Threads, Fail(t) PROVE Limits'
<1>1. /\ stack[t] # <<>> /\ Step(t, "raised") /\ "raised" \in Places /\ "raised" \notin Pending
      /\ failures' = failures + 1 /\ failures < MaxFailures
      /\ UNCHANGED <<entry, attempt, filled>>
  BY DEF Fail, Raise, Compiles, Places, Pending
<1>2. IInv /\ Limits /\ MaxFailures \in Nat
  BY CompileAssumption DEF TInv
<1>3. \A f \in Functions : In(f, Pending)' => In(f, Pending)
  BY <1>1, <1>2, TopMoves
<1>4. \A f \in Functions : attempt[f] \in Nat /\ attempt[f] <= failures + 1
  BY <1>2 DEF Limits
<1>5. failures \in Nat /\ failures' \in 0..MaxFailures
  BY <1>1, <1>2 DEF Limits
<1>6. \A f \in Functions : attempt'[f] <= failures' /\ attempt'[f] <= failures' + 1
  BY <1>1, <1>4, <1>5
<1> QED
  BY <1>1, <1>2, <1>3, <1>5, <1>6 DEF Limits

LEMMA CallLimited == ASSUME TInv, NEW t \in Threads, Call(t) \/ CallStep(t) PROVE Limits'
<1>0. IInv /\ Limits
  BY DEF TInv
<1>1. CASE Acquire(t) /\ stack' # stack
  <2>1. /\ lock = NoThread /\ stack' = [stack EXCEPT ![t] = <<Frame(call[t].fn)>>]
        /\ UNCHANGED <<entry, attempt, filled, failures>>
    BY <1>1 DEF Acquire
  <2>2. \A v \in Threads : stack[v] = <<>>
    BY <1>0, <2>1, Threaded DEF IInv, Locked
  <2>3. \A v \in Threads : \A i \in DOMAIN stack'[v] : stack'[v][i].at = "start"
    <3> DEFINE frame == Frame(call[t].fn)
    <3>1. frame.at = "start"
      BY DEF Frame
    <3> HIDE DEF frame
    <3>2. stack'[t] = <<frame>> /\ \A v \in Threads \ {t} : stack'[v] = <<>>
      BY <1>0, <2>1, <2>2 DEF IInv, Types, frame
    <3> QED
      BY <3>1, <3>2
  <2>4. Calm' /\ \A f \in Functions : ~In(f, Pending)' /\ ~In(f, Pending)
    BY <2>2, <2>3 DEF Calm, In, Pending
  <2> QED
    BY <1>0, <2>1, <2>4, LimitsKept
<1>2. CASE ~(Acquire(t) /\ stack' # stack)
  <2>1. UNCHANGED <<stack, entry, attempt, filled, failures>>
    BY <1>2 DEF Call, CallStep, Check, Acquire, NoPromise, Enter, Graft, Output, state
  <2>2. (Calm' <=> Calm) /\ \A f : In(f, Pending)' <=> In(f, Pending)
    BY <2>1 DEF Calm, In
  <2> QED
    BY <1>0, <2>1, <2>2, LimitsKept
<1> QED
  BY <1>1, <1>2

(* Frames that come and go, but for those where an attempt is underway. *)
Mirrors(r, s) ==
    \A i \in DOMAIN r :
        /\ r[i].at \in Pending => \E k \in DOMAIN s : r[i].fn = s[k].fn /\ r[i].at = s[k].at
        /\ r[i].at = "raised" => \E k \in DOMAIN s : s[k].at = "raised"

LEMMA StackLimited ==
    ASSUME TInv, NEW t \in Threads, \A v \in Threads \ {t} : stack'[v] = stack[v],
           Mirrors(stack'[t], stack[t]), ~Calm \/ Mirrors(stack[t], stack'[t]),
           UNCHANGED <<entry, attempt, filled, failures>>
    PROVE  Limits'
<1>1. Calm => Calm'
  BY DEF Calm, Mirrors
<1>2. ASSUME NEW f \in Functions, In(f, Pending)'
      PROVE  In(f, Pending)
  BY <1>2 DEF In, Mirrors
<1>3. ASSUME NEW f \in Functions, Calm, In(f, Pending)
      PROVE  In(f, Pending)'
  BY <1>3 DEF In, Mirrors
<1>4. \A f \in Functions : ~Calm => attempt[f] <= failures
  BY DEF TInv, Limits
<1> QED
  BY <1>1, <1>2, <1>3, <1>4, LimitsKept DEF TInv

LEMMA CalleeLimited == ASSUME TInv, NEW t \in Threads, Callee(t) PROVE Limits'
<1> DEFINE s == stack[t]
           n == Len(s)
           a == Advanced(t)
           frame == Frame(Callees[Top(t).fn][Top(t).next])
           b == Append(a, frame)
<1>1. /\ s # <<>>
      /\ stack' = [stack EXCEPT ![t] = a] \/ stack' = [stack EXCEPT ![t] = b]
      /\ UNCHANGED <<entry, attempt, filled, failures>>
  BY DEF Callee, Compiles, Advanced
<1>2. IInv /\ Types
  BY DEF TInv, IInv
<1>3. s \in Seq(Frames) /\ n \in Nat /\ n >= 1 /\ DOMAIN s = 1..n /\ Top(t) = s[n]
  BY <1>1, <1>2 DEF Types, Top
<1>4. /\ a \in Seq(Frames) /\ DOMAIN a = 1..n /\ Len(a) = n
      /\ \A i \in 1..n : a[i].fn = s[i].fn /\ a[i].at = s[i].at
  <2>1. /\ a \in Seq(Frames) /\ Len(a) = n /\ a[n].fn = s[n].fn /\ a[n].at = s[n].at
        /\ \A i \in 1..n : i < n => a[i] = s[i]
    BY <1>1, <1>2, <1>3, AdvancedFrames
  <2> HIDE DEF a
  <2>2. \A i \in 1..n : i = n \/ i < n
    BY <1>3
  <2> QED
    BY <1>3, <2>1, <2>2
<1>5. frame.at = "start"
  BY DEF Frame
<1> HIDE DEF a, frame
<1>6. DOMAIN b = 1..(n + 1) /\ b[n + 1] = frame /\ \A i \in 1..n : b[i] = a[i]
  BY <1>3, <1>4
<1> HIDE DEF b
<1>7. /\ Mirrors(a, s) /\ Mirrors(s, a)
      /\ Mirrors(b, s) /\ Mirrors(s, b)
  <2>1. \A i \in 1..(n + 1) : i = n + 1 \/ i \in 1..n
    BY <1>3
  <2>2. \A i \in 1..n : i \in 1..(n + 1)
    BY <1>3
  <2> QED
    BY <1>3, <1>4, <1>5, <1>6, <2>1, <2>2 DEF Mirrors, Pending
<1>8. (stack'[t] = a \/ stack'[t] = b) /\ \A v \in Threads \ {t} : stack'[v] = stack[v]
  BY <1>1, <1>2 DEF Types
<1> QED
  BY <1>1, <1>7, <1>8, StackLimited

LEMMA LeaveFrameLimited == ASSUME TInv, NEW t \in Threads, LeaveFrame(t) PROVE Limits'
<1> DEFINE s == stack[t]
           n == Len(s)
           outer == Pop(t)
<1>1. /\ IInv /\ Types /\ s # <<>> /\ Top(t).at \in {"done", "raised"}
      /\ UNCHANGED <<entry, attempt, filled, failures>>
  BY DEF TInv, IInv, LeaveFrame, Compiles
<1>2. s \in Seq(Frames) /\ n \in Nat /\ n >= 1 /\ DOMAIN s = 1..n /\ Top(t) = s[n]
  BY <1>1 DEF Types, Top
<1>3. /\ outer \in Seq(Frames) /\ DOMAIN outer = 1..(n - 1) /\ Len(outer) = n - 1
      /\ \A i \in 1..(n - 1) : outer[i] = s[i]
  BY <1>1, <1>2, PopFacts
<1> HIDE DEF outer
<1>4. \A i \in 1..n : i = n \/ i \in 1..(n - 1)
  BY <1>2
<1>5. \A i \in 1..(n - 1) : i \in 1..n
  BY <1>2
<1>6. CASE Top(t).at = "done"
  <2>1. stack'[t] = outer /\ \A v \in Threads \ {t} : stack'[v] = stack[v]
    <3>1. stack' = [stack EXCEPT ![t] = outer]
      BY <1>6 DEF LeaveFrame, outer
    <3> QED
      BY <1>1, <3>1 DEF Types
  <2>2. Mirrors(outer, s) /\ Mirrors(s, outer)
    BY <1>2, <1>3, <1>4, <1>5, <1>6 DEF Mirrors, Pending
  <2> QED
    BY <1>1, <2>1, <2>2, StackLimited
<1>7. CASE Top(t).at = "raised"
  <2>1. ~Calm
    BY <1>2, <1>7 DEF Calm
  <2> PICK r : r = IF outer = <<>> THEN <<>> ELSE [outer EXCEPT ![Len(outer)].at = "raised"]
    OBVIOUS
  <2>2. stack'[t] = r /\ \A v \in Threads \ {t} : stack'[v] = stack[v]
    <3>1. stack' = [stack EXCEPT ![t] = r]
      BY <1>7 DEF LeaveFrame, outer
    <3> QED
      BY <1>1, <3>1 DEF Types
  <2>3. DOMAIN r = 1..(n - 1) /\ \A i \in 1..(n - 1) : r[i].at = "raised" \/ r[i] = s[i]
    <3>1. CASE outer = <<>>
      BY <1>2, <1>3, <3>1
    <3>2. CASE outer # <<>>
      <4> DEFINE last == [outer[Len(outer)] EXCEPT !.at = "raised"]
      <4>1. outer[Len(outer)] \in Frames
        BY <1>2, <1>3, <3>2
      <4>2. last.at = "raised"
        BY <4>1 DEF Frames
      <4>3. r = [outer EXCEPT ![Len(outer)] = last]
        BY <3>2
      <4> HIDE DEF last
      <4> QED
        BY <1>2, <1>3, <4>2, <4>3
    <3> QED
      BY <3>1, <3>2
  <2>4. \A i \in DOMAIN r : r[i].at \in Pending => r[i] = s[i]
    BY <2>3 DEF Pending
  <2>5. n \in DOMAIN s /\ s[n].at = "raised" /\ \A i \in DOMAIN r : i \in DOMAIN s
    BY <1>2, <1>5, <1>7, <2>3
  <2>6. Mirrors(r, s)
    BY <2>4, <2>5 DEF Mirrors
  <2> QED
    BY <1>1, <2>1, <2>2, <2>6, StackLimited
<1> QED
  BY <1>1, <1>6, <1>7

LEMMA CompileLimited == ASSUME TInv, NEW t \in Threads, CompileStep(t) PROVE Limits'
<1>0. IInv
  BY DEF TInv
<1>1. CASE Start(t)
  <2>1. /\ stack[t] # <<>> /\ Top(t).at = "start" /\ Step(t, "symbols")
        /\ UNCHANGED <<entry, attempt, filled, failures>>
    BY <1>1 DEF Start, Compiles
  <2> QED
    BY <2>1, TopLimited DEF Places, Pending
<1>2. CASE AllAsked(t)
  <2>1. /\ stack[t] # <<>> /\ Top(t).at = "callees" /\ Step(t, "lower")
        /\ UNCHANGED <<entry, attempt, filled, failures>>
    BY <1>2 DEF AllAsked, Compiles, state
  <2> QED
    BY <2>1, TopLimited DEF Places, Pending
<1>3. CASE Lower(t)
  <2>1. /\ stack[t] # <<>> /\ Top(t).at = "lower" /\ Step(t, "fill")
        /\ UNCHANGED <<attempt, filled, failures>>
        /\ entry' = [entry EXCEPT ![Top(t).fn] = TRUE]
    BY <1>3 DEF Lower, Compiles
  <2>2. \A f \in Functions : entry[f] => entry'[f]
    BY <1>0, <2>1 DEF IInv, Types
  <2> QED
    BY <2>1, <2>2, TopLimited DEF Places, Pending
<1>4. CASE Fill(t)
  <2>1. /\ stack[t] # <<>> /\ Top(t).at = "fill" /\ Step(t, "publish")
        /\ filled' = filled \cup {Promise(Top(t).fn, attempt[Top(t).fn])}
        /\ UNCHANGED <<entry, attempt, failures>>
    BY <1>4 DEF Fill, Compiles
  <2>2. Top(t).fn \in Functions /\ entry[Top(t).fn]
    BY <1>0, <2>1, TopFacts DEF Entered
  <2>3. "publish" \in Places /\ "publish" \notin Pending /\ "fill" \in Pending
    BY DEF Places, Pending
  <2>4. In(Top(t).fn, Pending)
    BY <1>0, <2>1, <2>2, <2>3, TopMoves
  <2>5. attempt[Top(t).fn] >= 1
    BY <2>2, <2>4 DEF TInv, Limits
  <2> QED
    BY <2>1, <2>2, <2>3, <2>5, TopLimited
<1>5. CASE Publish(t)
  <2>1. /\ stack[t] # <<>> /\ Top(t).at = "publish" /\ Step(t, "done")
        /\ UNCHANGED <<entry, attempt, filled, failures>>
    BY <1>5 DEF Publish, Compiles
  <2> QED
    BY <2>1, TopLimited DEF Places, Pending
<1> QED
  BY <1>1, <1>2, <1>3, <1>4, <1>5, SymbolsLimited, CalleeLimited, FailLimited, LeaveFrameLimited
     DEF CompileStep

LEMMA NextIsTyped == TInv /\ [Next]_vars => TInv'
<1> SUFFICES ASSUME TInv, [Next]_vars PROVE TInv'
  OBVIOUS
<1>1. IInv'
  BY NextHolds DEF TInv
<1>2. ASSUME NEW t \in Threads, Call(t) \/ CallStep(t) \/ CompileStep(t)
      PROVE  Called' /\ Limits'
  BY <1>2, CallStaysCalled, StepStaysCalled, CallLimited, CompileLimited DEF TInv
<1>3. CASE UNCHANGED vars
  <2>1. Called'
    BY <1>3 DEF TInv, Called, vars
  <2>2. Limits'
    BY <1>3, LimitsKept DEF TInv, In, Calm, vars, state
  <2> QED
    BY <1>1, <2>1, <2>2 DEF TInv
<1> QED
  BY <1>1, <1>2, <1>3 DEF Next, Idle, TInv

LEMMA TypedIsOK == TInv => TypeOK
<1> SUFFICES ASSUME TInv PROVE TypeOK
  OBVIOUS
<1>1. Types /\ Called /\ Limits
  BY DEF TInv, IInv
<1>2. \A t \in Threads : \A i \in DOMAIN stack[t] :
          stack[t][i] \in [fn : Functions, at : Places, next : Nat \ {0}]
  <2>1. stack \in [Threads -> Seq(Frames)]
    BY <1>1 DEF Types
  <2>2. \A t \in Threads : \A i \in DOMAIN stack[t] : stack[t][i] \in Frames
    BY <2>1
  <2> QED
    BY <2>2 DEF Frames
<1>3. attempt \in [Functions -> 0..(MaxFailures + 1)]
  <2>1. \A f \in Functions : attempt[f] \in 0..(MaxFailures + 1)
    BY <1>1, CompileAssumption DEF Limits
  <2> QED
    BY <1>1, <2>1 DEF Types
<1>4. /\ lock \in Threads \cup {NoThread} /\ call \in [Threads -> Calls]
      /\ entry \in [Functions -> BOOLEAN] /\ compiling \in [Functions -> BOOLEAN]
      /\ signed \in [Functions -> BOOLEAN]
      /\ expansion \in [Functions -> {"none", "promise", "frozen"}]
  BY <1>1 DEF Types
<1>5. /\ failures \in 0..MaxFailures
      /\ \A p \in filled : p.kind = "promise" /\ p.attempt \in 1..attempt[p.fn]
  BY <1>1 DEF Limits
<1> QED
  BY <1>1, <1>2, <1>3, <1>4, <1>5, Zenon DEF TypeOK, Called, Calls, Stations

(* A function is attempted once, and once more for each failed attempt at  *)
(* most, whatever raised and wherever (_compile and its finally clause).   *)
THEOREM CompileTypesAlways == Spec => []TypeOK
<1>1. Init => TInv
  BY InitHolds, InitIsLimited DEF TInv
<1> QED
  BY <1>1, NextIsTyped, TypedIsOK, PTL DEF Spec
=============================================================================
