--------------------------- MODULE InetCompileProofs ---------------------------
(***************************************************************************)
(* Proofs about InetCompile for any threads, any functions that call each  *)
(* other in any way, and any failures: who compiles, what a lowering       *)
(* finds, and that nothing is compiled twice.                              *)
(***************************************************************************)
EXTENDS InetCompile, SequenceTheorems, TLAPS

Frames == [fn : Functions, at : Places, next : Nat \ {0}]

Stations == {"idle", "check", "lock", "compiling", "enter", "entry", "running"}

Calls == [fn : Functions \cup {NoFunction}, at : Stations, net : Functions \cup {NoFunction}]

Types ==
    /\ lock \in Threads \cup {NoThread}
    /\ stack \in [Threads -> Seq(Frames)]
    /\ call \in [Threads -> Calls]
    /\ entry \in [Functions -> BOOLEAN]
    /\ compiling \in [Functions -> BOOLEAN]
    /\ signed \in [Functions -> BOOLEAN]
    /\ expansion \in [Functions -> {"none", "promise", "frozen"}]
    /\ embeds \in [Functions -> SUBSET [kind : {"promise", "frozen"}, fn : Functions, attempt : Int]]
    /\ attempt \in [Functions -> Int]

Named ==
    \A t \in Threads :
        call[t].at # "idle" => call[t].fn \in Functions /\ call[t].net \in Functions

(* Compiling needs the lock. *)
Locked == \A t \in Threads : stack[t] # <<>> => lock = t /\ call[t].at = "compiling"

(* The flag _compiling says who is on the stack. *)
Flags ==
    \A f \in Functions :
        compiling[f] <=> \E t \in Threads : \E i \in DOMAIN stack[t] : stack[t][i].fn = f

Graftable == \A f \in Functions : entry[f] => expansion[f] # "none"

Distinct(s) == \A i, j \in DOMAIN s : s[i].fn = s[j].fn => i = j

(* A compilation that waits for a nested one is asking for its callees. *)
Nested(s) == \A i \in DOMAIN s : i < Len(s) => s[i].at = "callees"

(* What a frame can rely on: its function gets the entry point when it is  *)
(* lowered, and has a promise and the callees' signatures once it asks.    *)
Entered(frame) ==
    /\ frame.at \in {"start", "symbols", "callees", "lower"} => ~entry[frame.fn]
    /\ frame.at \in {"fill", "publish", "done"} => entry[frame.fn]

Asking(frame) == frame.at \in {"callees", "lower"}

Prepared(frame) ==
    /\ frame.at \in {"start", "symbols"} => frame.next = 1
    /\ Asking(frame) =>
          /\ expansion[frame.fn] # "none"
          /\ \A j \in DOMAIN Callees[frame.fn] : signed[Callees[frame.fn][j]]
          /\ frame.at = "lower" => frame.next > Len(Callees[frame.fn])

(* A callee asked for is compiled, or its compilation is below or just     *)
(* above the one that asked.                                               *)
Answered(s, i) ==
    Asking(s[i]) =>
        \A j \in DOMAIN Callees[s[i].fn] : j < s[i].next =>
            \/ entry[Callees[s[i].fn][j]]
            \/ \E k \in DOMAIN s : k <= i + 1 /\ s[k].fn = Callees[s[i].fn][j]

Sound(s) ==
    /\ Distinct(s)
    /\ Nested(s)
    /\ \A i \in DOMAIN s : Entered(s[i]) /\ Prepared(s[i]) /\ Answered(s, i)

IInv ==
    /\ Types /\ Named /\ Locked /\ Flags /\ Graftable
    /\ \A t \in Threads : Sound(stack[t])

LEMMA CalleeFunctions ==
    \A f \in Functions : /\ Callees[f] \in Seq(Functions)
                         /\ \A j \in DOMAIN Callees[f] : Callees[f][j] \in Functions
BY CompileAssumption

LEMMA Threaded == NoThread \notin Threads
BY CompileAssumption

-----------------------------------------------------------------------------
LEMMA InitHolds == Init => IInv
<1> SUFFICES ASSUME Init PROVE IInv
  OBVIOUS
<1>1. Types
  <2>1. stack \in [Threads -> Seq(Frames)]
    BY DEF Init
  <2>2. call \in [Threads -> Calls]
    <3>1. NoCall \in Calls
      BY DEF NoCall, Calls, Stations
    <3> QED
      BY <3>1 DEF Init
  <2>3. /\ lock \in Threads \cup {NoThread} /\ entry \in [Functions -> BOOLEAN]
        /\ compiling \in [Functions -> BOOLEAN] /\ signed \in [Functions -> BOOLEAN]
        /\ expansion \in [Functions -> {"none", "promise", "frozen"}]
        /\ embeds \in [Functions -> SUBSET [kind : {"promise", "frozen"}, fn : Functions, attempt : Int]]
        /\ attempt \in [Functions -> Int]
    BY DEF Init
  <2> QED
    BY <2>1, <2>2, <2>3 DEF Types
<1>2. \A t \in Threads : stack[t] = <<>> /\ call[t].at = "idle"
  BY DEF Init, NoCall
<1> QED
  BY <1>1, <1>2 DEF Init, IInv, Named, Locked, Flags, Graftable, Sound, Distinct, Nested

(* When a thread compiles, the others do not. *)
LEMMA Alone ==
    ASSUME IInv, NEW t \in Threads, stack[t] # <<>>
    PROVE  /\ lock = t
           /\ \A v \in Threads \ {t} : stack[v] = <<>>
BY DEF IInv, Locked

(* A step that replaces the top frame, and what is known of its function.  *)
TopReplaced(t) ==
    /\ stack' \in [Threads -> Seq(Frames)]
    /\ \A v \in Threads \ {t} : stack'[v] = stack[v]
    /\ Len(stack'[t]) = Len(stack[t])
    /\ \A i \in 1..Len(stack[t]) : stack'[t][i].fn = stack[t][i].fn
    /\ \A i \in 1..Len(stack[t]) : i < Len(stack[t]) => stack'[t][i] = stack[t][i]

Kept(f) == entry'[f] = entry[f] /\ expansion'[f] = expansion[f]

LEMMA TopStep ==
    ASSUME IInv, NEW t \in Threads, stack[t] # <<>>, TopReplaced(t), Types', Named',
           UNCHANGED <<lock, call, compiling>>,
           \A f \in Functions : (entry[f] => entry'[f]) /\ (signed[f] => signed'[f]),
           \A f \in Functions \ {Top(t).fn} : Kept(f),
           entry'[Top(t).fn] => expansion'[Top(t).fn] # "none",
           Entered(Top(t))', Prepared(Top(t))', Answered(stack[t], Len(stack[t]))'
    PROVE  IInv'
<1> DEFINE s == stack[t]
           n == Len(s)
<1>1. /\ s \in Seq(Frames) /\ s' \in Seq(Frames) /\ n \in Nat /\ n >= 1 /\ Len(s') = n
      /\ DOMAIN s = 1..n /\ DOMAIN s' = 1..n /\ Top(t) = s[n] /\ s[n] \in Frames
      /\ Top(t)' = s'[n]
  BY DEF IInv, Types, TopReplaced, Top
<1>2. \A i \in 1..n : s'[i].fn = s[i].fn /\ s[i].fn \in Functions /\ (i < n => s'[i] = s[i])
  <2>1. \A i \in 1..n : s[i] \in Frames
    BY <1>1
  <2>2. \A i \in 1..n : s[i].fn \in Functions
    BY <2>1 DEF Frames
  <2>3. \A i \in 1..n : s'[i].fn = s[i].fn /\ (i < n => s'[i] = s[i])
    BY DEF TopReplaced
  <2> QED
    BY <2>2, <2>3
<1>3. \A v \in Threads \ {t} : stack'[v] = <<>>
  BY Alone DEF TopReplaced
<1>4. Locked'
  BY <1>3, Alone DEF IInv, Locked
<1>5. Flags'
  <2>1. \A v \in Threads \ {t} : stack'[v] = stack[v]
    BY DEF TopReplaced
  <2>2. ASSUME NEW f \in Functions
        PROVE  (\E v \in Threads : \E i \in DOMAIN stack[v] : stack[v][i].fn = f)
                 <=> (\E v \in Threads : \E i \in DOMAIN stack'[v] : stack'[v][i].fn = f)
    BY <1>1, <1>2, <2>1
  <2> QED
    BY <2>2 DEF IInv, Flags
<1>6. Graftable'
  BY <1>1 DEF IInv, Graftable, Kept
<1>7. Distinct(stack[t])' /\ Nested(stack[t])'
  BY <1>1, <1>2 DEF IInv, Sound, Distinct, Nested
<1>8. ASSUME NEW i \in 1..n
      PROVE  Entered(stack[t][i])' /\ Prepared(stack[t][i])' /\ Answered(stack[t], i)'
  <2>1. CASE i = n
    BY <1>1, <2>1
  <2>2. CASE i < n
    <3>1. /\ s'[i] = s[i] /\ s[i].fn \in Functions /\ s[i].fn # s[n].fn
          /\ entry'[s[i].fn] = entry[s[i].fn] /\ expansion'[s[i].fn] = expansion[s[i].fn]
      BY <1>1, <1>2, <2>2 DEF IInv, Sound, Distinct, Kept
    <3>2. Entered(s[i]) /\ Prepared(s[i]) /\ Answered(s, i)
      BY <1>1 DEF IInv, Sound
    <3>3. Entered(stack[t][i])'
      BY <3>1, <3>2 DEF Entered
    <3>4. Prepared(stack[t][i])'
      BY <3>1, <3>2, CalleeFunctions DEF Prepared, Asking
    <3>5. Answered(stack[t], i)'
      <4> SUFFICES ASSUME Asking(s[i]), NEW j \in DOMAIN Callees[s[i].fn], j < s[i].next
                   PROVE  \/ entry'[Callees[s[i].fn][j]]
                          \/ \E k \in 1..n : k <= i + 1 /\ s'[k].fn = Callees[s[i].fn][j]
        BY <1>1, <3>1 DEF Answered, Asking
      <4>1. Callees[s[i].fn][j] \in Functions
        BY <3>1, CalleeFunctions
      <4>2. \/ entry[Callees[s[i].fn][j]]
            \/ \E k \in 1..n : k <= i + 1 /\ s[k].fn = Callees[s[i].fn][j]
        BY <1>1, <3>2 DEF Answered
      <4> QED
        BY <1>2, <4>1, <4>2
    <3> QED
      BY <3>3, <3>4, <3>5
  <2> QED
    BY <1>1, <2>1, <2>2
<1>9. Sound(stack[t])'
  BY <1>1, <1>7, <1>8 DEF Sound
<1>10. \A v \in Threads \ {t} : Sound(stack[v])'
  BY <1>3 DEF Sound, Distinct, Nested
<1> QED
  BY <1>4, <1>5, <1>6, <1>9, <1>10 DEF IInv

-----------------------------------------------------------------------------
(* How the sequences of frames change. *)
LEMMA StepReplaces ==
    ASSUME Types, NEW t \in Threads, stack[t] # <<>>, NEW place \in Places, Step(t, place)
    PROVE  /\ TopReplaced(t)
           /\ Top(t)' = [Top(t) EXCEPT !.at = place]
           /\ Top(t)'.fn = Top(t).fn /\ Top(t)'.next = Top(t).next /\ Top(t)'.at = place
           /\ Top(t) \in Frames
<1> DEFINE s == stack[t]
           n == Len(s)
           r == [s EXCEPT ![n].at = place]
<1>1. s \in Seq(Frames) /\ n \in Nat /\ n >= 1 /\ DOMAIN s = 1..n /\ s[n] \in Frames
  BY DEF Types
<1>2. stack' = [stack EXCEPT ![t] = r]
  BY DEF Step
<1>3. [s[n] EXCEPT !.at = place] \in Frames
  BY <1>1 DEF Frames
<1>4. r = [s EXCEPT ![n] = [s[n] EXCEPT !.at = place]]
  OBVIOUS
<1>5. r \in Seq(Frames) /\ Len(r) = n
  BY <1>1, <1>3, <1>4
<1>6. r[n] = [s[n] EXCEPT !.at = place] /\ \A i \in 1..n : i < n => r[i] = s[i]
  BY <1>1, <1>4
<1>7. r[n].fn = s[n].fn /\ r[n].next = s[n].next /\ r[n].at = place
  BY <1>1, <1>6 DEF Frames
<1>8. stack' \in [Threads -> Seq(Frames)] /\ stack'[t] = r /\ \A v \in Threads \ {t} : stack'[v] = stack[v]
  BY <1>2, <1>5 DEF Types
<1>9. Top(t) = s[n] /\ Top(t)' = r[n]
  BY <1>5, <1>8 DEF Top
<1> HIDE DEF r
<1>10. \A i \in 1..n : r[i].fn = s[i].fn
  <2> SUFFICES ASSUME NEW i \in 1..n PROVE r[i].fn = s[i].fn
    OBVIOUS
  <2>1. i = n \/ i < n
    BY <1>1
  <2> QED
    BY <1>6, <1>7, <2>1
<1>11. TopReplaced(t)
  BY <1>5, <1>6, <1>8, <1>10 DEF TopReplaced
<1> QED
  BY <1>1, <1>6, <1>7, <1>9, <1>11

Advanced(t) == [stack[t] EXCEPT ![Len(stack[t])].next = @ + 1]

LEMMA AdvancedFrames ==
    ASSUME Types, NEW t \in Threads, stack[t] # <<>>
    PROVE  /\ Advanced(t) \in Seq(Frames) /\ Len(Advanced(t)) = Len(stack[t])
           /\ \A i \in 1..Len(stack[t]) : i < Len(stack[t]) => Advanced(t)[i] = stack[t][i]
           /\ Advanced(t)[Len(stack[t])].fn = Top(t).fn
           /\ Advanced(t)[Len(stack[t])].at = Top(t).at
           /\ Advanced(t)[Len(stack[t])].next = Top(t).next + 1
<1> DEFINE s == stack[t]
           n == Len(s)
           r == [s EXCEPT ![n].next = @ + 1]
<1>1. s \in Seq(Frames) /\ n \in Nat /\ n >= 1 /\ DOMAIN s = 1..n /\ s[n] \in Frames
  BY DEF Types
<1>2. [s[n] EXCEPT !.next = @ + 1] \in Frames
  BY <1>1 DEF Frames
<1>3. r = [s EXCEPT ![n] = [s[n] EXCEPT !.next = @ + 1]]
  OBVIOUS
<1>4. r \in Seq(Frames) /\ Len(r) = n
  BY <1>1, <1>2, <1>3
<1>5. r[n] = [s[n] EXCEPT !.next = @ + 1] /\ \A i \in 1..n : i < n => r[i] = s[i]
  BY <1>1, <1>3
<1>6. r[n].fn = s[n].fn /\ r[n].at = s[n].at /\ r[n].next = s[n].next + 1
  BY <1>1, <1>5 DEF Frames
<1>7. Advanced(t) = r /\ Top(t) = s[n]
  BY DEF Advanced, Top
<1> HIDE DEF r
<1> QED
  BY <1>4, <1>5, <1>6, <1>7

LEMMA AdvanceReplaces ==
    ASSUME Types, NEW t \in Threads, stack[t] # <<>>, stack' = [stack EXCEPT ![t] = Advanced(t)]
    PROVE  /\ TopReplaced(t) /\ Top(t) \in Frames
           /\ Top(t)'.fn = Top(t).fn /\ Top(t)'.at = Top(t).at /\ Top(t)'.next = Top(t).next + 1
<1> DEFINE n == Len(stack[t])
           a == Advanced(t)
<1>1. stack[t] \in Seq(Frames) /\ n \in Nat /\ n >= 1 /\ stack[t][n] \in Frames
  BY DEF Types
<1>2. /\ a \in Seq(Frames) /\ Len(a) = n
      /\ \A i \in 1..n : i < n => a[i] = stack[t][i]
      /\ a[n].fn = stack[t][n].fn /\ a[n].at = stack[t][n].at
      /\ a[n].next = stack[t][n].next + 1
  BY AdvancedFrames DEF Top
<1> HIDE DEF a
<1>3. /\ stack' \in [Threads -> Seq(Frames)] /\ stack'[t] = a
      /\ \A v \in Threads \ {t} : stack'[v] = stack[v]
  BY <1>2 DEF Types, a
<1>4. \A i \in 1..n : a[i].fn = stack[t][i].fn
  <2> SUFFICES ASSUME NEW i \in 1..n PROVE a[i].fn = stack[t][i].fn
    OBVIOUS
  <2>1. i = n \/ i < n
    BY <1>1
  <2> QED
    BY <1>2, <2>1
<1> QED
  BY <1>1, <1>2, <1>3, <1>4 DEF TopReplaced, Top

-----------------------------------------------------------------------------
(* Calls. *)
LEMMA CallChange ==
    ASSUME IInv, UNCHANGED <<lock, stack, state>>, call' \in [Threads -> Calls], Named',
           NEW t \in Threads, call[t].at # "compiling",
           \A v \in Threads \ {t} : call'[v] = call[v]
    PROVE  IInv'
<1>1. Types'
  BY DEF IInv, Types, state
<1>2. Locked' /\ Flags' /\ Graftable'
  BY DEF IInv, Locked, Flags, Graftable, state
<1>3. ASSUME NEW v \in Threads
      PROVE  Sound(stack[v])'
  <2>1. Sound(stack[v]) /\ stack'[v] = stack[v]
    BY DEF IInv
  <2>2. Distinct(stack[v])' /\ Nested(stack[v])'
    BY <2>1 DEF Sound, Distinct, Nested
  <2>3. ASSUME NEW i \in DOMAIN stack[v]
        PROVE  Entered(stack[v][i])' /\ Prepared(stack[v][i])' /\ Answered(stack[v], i)'
    <3>1. Entered(stack[v][i])'
      BY <2>1 DEF Sound, Entered, state
    <3>2. Prepared(stack[v][i])'
      BY <2>1 DEF Sound, Prepared, Asking, state
    <3>3. Answered(stack[v], i)'
      BY <2>1 DEF Sound, Answered, Asking, state
    <3> QED
      BY <3>1, <3>2, <3>3
  <2> QED
    BY <2>1, <2>2, <2>3 DEF Sound
<1> QED
  BY <1>1, <1>2, <1>3 DEF IInv

LEMMA AtTyped ==
    ASSUME Types, Named, NEW t \in Threads, NEW place \in Stations,
           call[t].at # "idle", At(t, place)
    PROVE  /\ call' \in [Threads -> Calls] /\ Named' /\ call'[t].at = place
           /\ \A v \in Threads \ {t} : call'[v] = call[v]
<1>1. [call[t] EXCEPT !.at = place] \in Calls
  <2>1. call[t] \in Calls
    BY DEF Types
  <2> QED
    BY <2>1 DEF Calls
<1>2. call' = [call EXCEPT ![t] = [call[t] EXCEPT !.at = place]]
  BY DEF At
<1>3. call' \in [Threads -> Calls]
  BY <1>1, <1>2 DEF Types
<1>4. call'[t].fn = call[t].fn /\ call'[t].net = call[t].net /\ call'[t].at = place
  BY <1>2 DEF Types, Calls
<1>5. \A v \in Threads \ {t} : call'[v] = call[v]
  BY <1>2 DEF Types
<1> QED
  BY <1>3, <1>4, <1>5 DEF Named

LEMMA EndTyped ==
    ASSUME Types, Named, NEW t \in Threads, NEW how, End(t, how)
    PROVE  /\ call' \in [Threads -> Calls] /\ Named'
           /\ \A v \in Threads \ {t} : call'[v] = call[v]
<1>1. NoCall \in Calls /\ NoCall.at = "idle"
  BY DEF NoCall, Calls, Stations
<1>2. call' = [call EXCEPT ![t] = NoCall]
  BY DEF End
<1> QED
  BY <1>1, <1>2 DEF Types, Named

LEMMA CallsHold ==
    ASSUME IInv, NEW t \in Threads,
           Call(t) \/ Check(t) \/ NoPromise(t) \/ Enter(t) \/ Graft(t) \/ Output(t)
    PROVE  IInv'
<1>0. Types /\ Named
  BY DEF IInv
<1>1. CASE Call(t)
  <2>1. PICK f \in Functions :
            call' = [call EXCEPT ![t] = [fn |-> f, at |-> "check", net |-> f]]
    BY <1>1 DEF Call
  <2>2. [fn |-> f, at |-> "check", net |-> f] \in Calls
    BY DEF Calls, Stations
  <2>3. call' \in [Threads -> Calls] /\ Named' /\ \A v \in Threads \ {t} : call'[v] = call[v]
    BY <1>0, <2>1, <2>2 DEF Types, Named
  <2> QED
    BY <1>1, <2>3, CallChange DEF Call
<1>2. CASE Check(t)
  <2>1. call[t].at # "idle"
    BY <1>2 DEF Check
  <2>2. \E place \in {"enter", "lock"} : At(t, place)
    BY <1>2 DEF Check
  <2>3. call' \in [Threads -> Calls] /\ Named' /\ \A v \in Threads \ {t} : call'[v] = call[v]
    BY <1>0, <2>1, <2>2, AtTyped DEF Stations
  <2> QED
    BY <1>2, <2>3, CallChange DEF Check
<1>3. CASE NoPromise(t)
  <2>1. (End(t, "still compiling") \/ At(t, "entry")) /\ call[t].at # "idle"
    BY <1>3 DEF NoPromise
  <2>2. call' \in [Threads -> Calls] /\ Named' /\ \A v \in Threads \ {t} : call'[v] = call[v]
    BY <1>0, <2>1, AtTyped, EndTyped DEF Stations
  <2> QED
    BY <1>3, <2>2, CallChange DEF NoPromise
<1>4. CASE Enter(t)
  <2>1. /\ End(t, "still compiling") \/ End(t, "unfilled promise") \/ At(t, "running")
        /\ call[t].at # "idle"
    BY <1>4 DEF Enter
  <2>2. call' \in [Threads -> Calls] /\ Named' /\ \A v \in Threads \ {t} : call'[v] = call[v]
    BY <1>0, <2>1, AtTyped, EndTyped DEF Stations
  <2> QED
    BY <1>4, <2>2, CallChange DEF Enter
<1>5. CASE Graft(t)
  <2>1. PICK e \in embeds[call[t].net] :
            \/ End(t, "unfilled promise")
            \/ call' = [call EXCEPT ![t].net = e.fn]
    BY <1>5 DEF Graft
  <2>2. call[t].at = "running" /\ call[t] \in Calls /\ call[t].net \in Functions
    BY <1>0, <1>5 DEF Graft, Types, Named
  <2>3. e.fn \in Functions
    BY <1>0, <2>2 DEF Types
  <2>4. CASE End(t, "unfilled promise")
    BY <1>0, <1>5, <2>4, CallChange, EndTyped DEF Graft
  <2>5. CASE call' = [call EXCEPT ![t].net = e.fn]
    <3>1. [call[t] EXCEPT !.net = e.fn] \in Calls
      BY <2>2, <2>3 DEF Calls
    <3>2. call' = [call EXCEPT ![t] = [call[t] EXCEPT !.net = e.fn]]
      BY <2>5
    <3>3. call' \in [Threads -> Calls] /\ Named' /\ \A v \in Threads \ {t} : call'[v] = call[v]
      BY <1>0, <2>2, <2>3, <3>1, <3>2 DEF Types, Named, Calls
    <3> QED
      BY <1>5, <3>3, CallChange DEF Graft
  <2> QED
    BY <2>1, <2>4, <2>5
<1>6. CASE Output(t)
  BY <1>0, <1>6, CallChange, EndTyped DEF Output
<1> QED
  BY <1>1, <1>2, <1>3, <1>4, <1>5, <1>6

-----------------------------------------------------------------------------
(* Compilations. *)
LEMMA TopFacts ==
    ASSUME IInv, NEW t \in Threads, stack[t] # <<>>
    PROVE  /\ Top(t) \in Frames /\ Top(t).fn \in Functions
           /\ Len(stack[t]) \in DOMAIN stack[t]
           /\ Entered(Top(t)) /\ Prepared(Top(t)) /\ Answered(stack[t], Len(stack[t]))
<1>1. stack[t] \in Seq(Frames)
  BY DEF IInv, Types
<1>2. Len(stack[t]) \in DOMAIN stack[t] /\ Top(t) \in Frames
  BY <1>1 DEF Top
<1>3. Top(t).fn \in Functions
  BY <1>2 DEF Frames
<1> QED
  BY <1>2, <1>3 DEF IInv, Sound, Top

(* A frame that stays where it is has its answers still. *)
LEMMA CalleesKept ==
    ASSUME IInv, NEW t \in Threads, stack[t] # <<>>, TopReplaced(t), UNCHANGED entry,
           Asking(Top(t)), Top(t)'.fn = Top(t).fn, Top(t)'.next = Top(t).next
    PROVE  Answered(stack[t], Len(stack[t]))'
<1> DEFINE s == stack[t]
           n == Len(s)
           g == Callees[s[n].fn]
<1>1. /\ n \in Nat /\ n >= 1 /\ DOMAIN s = 1..n /\ DOMAIN s' = 1..n /\ Len(s') = n
      /\ s'[n].fn = s[n].fn /\ s'[n].next = s[n].next
  BY DEF IInv, Types, TopReplaced, Top
<1>2. \A i \in 1..n : s'[i].fn = s[i].fn
  BY DEF TopReplaced
<1>3. \A j \in DOMAIN g : j < s[n].next =>
          entry[g[j]] \/ \E k \in 1..n : k <= n + 1 /\ s[k].fn = g[j]
  BY <1>1, TopFacts DEF Answered, Top
<1>4. \A j \in DOMAIN g : j < s'[n].next =>
          entry'[g[j]] \/ \E k \in 1..n : k <= n + 1 /\ s'[k].fn = g[j]
  BY <1>1, <1>2, <1>3
<1> QED
  BY <1>1, <1>4 DEF Answered

LEMMA StartHolds == ASSUME IInv, NEW t \in Threads, Start(t) PROVE IInv'
<1> DEFINE f == Top(t).fn
<1>1. /\ Types /\ stack[t] # <<>> /\ Top(t).at = "start"
      /\ expansion' = [expansion EXCEPT ![f] = "none"]
      /\ signed' = [signed EXCEPT ![f] = TRUE]
      /\ UNCHANGED <<lock, call, entry, compiling, attempt, embeds>>
      /\ Step(t, "symbols")
  BY DEF Start, Compiles, IInv
<1>2. f \in Functions /\ ~entry[f] /\ Top(t).next = 1
  BY <1>1, TopFacts DEF Entered, Prepared
<1>3. TopReplaced(t) /\ Top(t)'.fn = f /\ Top(t)'.next = 1 /\ Top(t)'.at = "symbols"
  BY <1>1, <1>2, StepReplaces DEF Places
<1>4. Types' /\ Named'
  BY <1>1, <1>2, <1>3 DEF IInv, Types, Named, TopReplaced
<1>5. Entered(Top(t))' /\ Prepared(Top(t))' /\ Answered(stack[t], Len(stack[t]))'
  BY <1>1, <1>2, <1>3 DEF Entered, Prepared, Answered, Asking, Top
<1>6. \A g \in Functions : (entry[g] => entry'[g]) /\ (signed[g] => signed'[g])
  BY <1>1, <1>2 DEF Types
<1>7. \A g \in Functions \ {f} : Kept(g)
  BY <1>1 DEF Types, Kept
<1> QED
  BY <1>1, <1>2, <1>3, <1>4, <1>5, <1>6, <1>7, TopStep

LEMMA SymbolsHolds == ASSUME IInv, NEW t \in Threads, Symbols(t) PROVE IInv'
<1> DEFINE f == Top(t).fn
<1>1. /\ Types /\ stack[t] # <<>> /\ Top(t).at = "symbols"
      /\ signed' = [h \in Functions |-> signed[h] \/ \E i \in DOMAIN Callees[f] : Callees[f][i] = h]
      /\ attempt' = [attempt EXCEPT ![f] = @ + 1]
      /\ expansion' = [expansion EXCEPT ![f] = "promise"]
      /\ UNCHANGED <<lock, call, entry, compiling, embeds>>
      /\ Step(t, "callees")
  BY DEF Symbols, Compiles, IInv
<1>2. f \in Functions /\ ~entry[f] /\ Top(t).next = 1
  BY <1>1, TopFacts DEF Entered, Prepared
<1>3. TopReplaced(t) /\ Top(t)'.fn = f /\ Top(t)'.next = 1 /\ Top(t)'.at = "callees"
  BY <1>1, <1>2, StepReplaces DEF Places
<1>4. Types' /\ Named'
  BY <1>1, <1>2, <1>3 DEF IInv, Types, Named, TopReplaced
<1>5. \A g \in Functions : (entry[g] => entry'[g]) /\ (signed[g] => signed'[g])
  BY <1>1, <1>2 DEF Types
<1>6. \A g \in Functions \ {f} : Kept(g)
  BY <1>1 DEF Types, Kept
<1>7. Entered(Top(t))' /\ Prepared(Top(t))'
  <2>1. expansion'[f] = "promise"
    BY <1>1, <1>2 DEF Types
  <2>2. \A j \in DOMAIN Callees[f] : signed'[Callees[f][j]]
    BY <1>1, <1>2, CalleeFunctions
  <2> QED
    BY <1>1, <1>2, <1>3, <2>1, <2>2 DEF Entered, Prepared
<1>8. Answered(stack[t], Len(stack[t]))'
  <2>1. stack'[t][Len(stack'[t])].fn = f /\ stack'[t][Len(stack'[t])].next = 1
    BY <1>3 DEF Top
  <2>2. \A j \in DOMAIN Callees[f] : ~(j < 1)
    BY <1>2, CalleeFunctions
  <2> QED
    BY <2>1, <2>2 DEF Answered
<1> QED
  BY <1>1, <1>2, <1>3, <1>4, <1>5, <1>6, <1>7, <1>8, TopStep

(* The thread goes on to the lowering when every callee was asked for. *)
LEMMA AllAskedHolds == ASSUME IInv, NEW t \in Threads, AllAsked(t) PROVE IInv'
<1> DEFINE f == Top(t).fn
<1>1. /\ Types /\ stack[t] # <<>> /\ Top(t).at = "callees"
      /\ Top(t).next > Len(Callees[f])
      /\ UNCHANGED <<lock, call, entry, compiling, signed, expansion, attempt, embeds>>
      /\ Step(t, "lower")
  BY DEF AllAsked, Compiles, IInv, state
<1>2. /\ f \in Functions /\ ~entry[f] /\ Prepared(Top(t))
      /\ Answered(stack[t], Len(stack[t])) /\ Len(stack[t]) \in Nat
  BY <1>1, TopFacts DEF Entered, IInv, Types
<1>3. TopReplaced(t) /\ Top(t)'.fn = f /\ Top(t)'.next = Top(t).next /\ Top(t)'.at = "lower"
  BY <1>1, StepReplaces DEF Places
<1>4. Types' /\ Named'
  BY <1>1, <1>3 DEF IInv, Types, Named, TopReplaced
<1>5. Entered(Top(t))' /\ Prepared(Top(t))'
  BY <1>1, <1>2, <1>3 DEF Entered, Prepared, Asking
<1>6. Answered(stack[t], Len(stack[t]))'
  BY <1>1, <1>2, <1>3, CalleesKept DEF Asking
<1>7. \A g \in Functions : Kept(g) /\ (signed[g] => signed'[g]) /\ (entry[g] => entry'[g])
  BY <1>1 DEF Kept
<1>8. entry'[f] => expansion'[f] # "none"
  BY <1>1, <1>2
<1> QED
  BY <1>1, <1>3, <1>4, <1>5, <1>6, <1>7, <1>8, TopStep

(* Lowering sets the entry point; the steps after it leave it.             *)
LEMMA LowerHolds == ASSUME IInv, NEW t \in Threads, Lower(t) PROVE IInv'
<1> DEFINE f == Top(t).fn
           net == {EmbedOf(Callees[f][i]) : i \in DOMAIN Callees[f]}
<1>1. /\ Types /\ stack[t] # <<>> /\ Top(t).at = "lower"
      /\ embeds' = [embeds EXCEPT ![f] = net]
      /\ entry' = [entry EXCEPT ![f] = TRUE]
      /\ UNCHANGED <<lock, call, compiling, signed, expansion, attempt>>
      /\ Step(t, "fill")
  BY DEF Lower, Compiles, IInv
<1>2. f \in Functions /\ expansion[f] # "none"
  BY <1>1, TopFacts DEF Prepared, Asking
<1>3. TopReplaced(t) /\ Top(t)'.fn = f /\ Top(t)'.at = "fill"
  BY <1>1, StepReplaces DEF Places
<1>4. net \subseteq [kind : {"promise", "frozen"}, fn : Functions, attempt : Int]
  <2> SUFFICES ASSUME NEW j \in DOMAIN Callees[f]
               PROVE  EmbedOf(Callees[f][j])
                        \in [kind : {"promise", "frozen"}, fn : Functions, attempt : Int]
    OBVIOUS
  <2>1. Callees[f][j] \in Functions
    BY <1>2, CalleeFunctions
  <2>2. attempt[Callees[f][j]] \in Int
    BY <1>1, <2>1 DEF Types
  <2> QED
    BY <2>1, <2>2 DEF EmbedOf, Frozen, Promise
<1> HIDE DEF net
<1>5. Types' /\ Named'
  BY <1>1, <1>2, <1>3, <1>4 DEF IInv, Types, Named, TopReplaced
<1>6. entry'[f] /\ \A g \in Functions : entry[g] => entry'[g]
  BY <1>1, <1>2 DEF Types
<1>7. Entered(Top(t))' /\ Prepared(Top(t))' /\ Answered(stack[t], Len(stack[t]))'
  BY <1>3, <1>6 DEF Entered, Prepared, Answered, Asking, Top
<1>8. \A g \in Functions \ {f} : Kept(g)
  BY <1>1 DEF Types, Kept
<1>9. \A g \in Functions : signed[g] => signed'[g]
  BY <1>1
<1> QED
  BY <1>1, <1>2, <1>3, <1>5, <1>6, <1>7, <1>8, <1>9, TopStep

LEMMA FillOrPublishHolds ==
    ASSUME IInv, NEW t \in Threads, Fill(t) \/ Publish(t)
    PROVE  IInv'
<1> DEFINE f == Top(t).fn
<1>1. /\ Types /\ stack[t] # <<>> /\ Top(t).at \in {"fill", "publish"}
      /\ expansion' = expansion \/ expansion' = [expansion EXCEPT ![f] = "frozen"]
      /\ UNCHANGED <<lock, call, entry, compiling, signed, attempt, embeds>>
      /\ Step(t, "publish") \/ Step(t, "done")
  BY DEF Fill, Publish, Compiles, IInv
<1>2. f \in Functions /\ entry[f] /\ expansion[f] # "none"
  BY <1>1, TopFacts DEF Entered, IInv, Graftable
<1>3. TopReplaced(t) /\ Top(t)'.fn = f /\ Top(t)'.at \in {"publish", "done"}
  BY <1>1, StepReplaces DEF Places
<1>4. expansion' \in [Functions -> {"none", "promise", "frozen"}] /\ expansion'[f] # "none"
  BY <1>1, <1>2 DEF Types
<1>5. Types' /\ Named'
  BY <1>1, <1>3, <1>4 DEF IInv, Types, Named, TopReplaced
<1>6. Entered(Top(t))' /\ Prepared(Top(t))' /\ Answered(stack[t], Len(stack[t]))'
  BY <1>1, <1>2, <1>3 DEF Entered, Prepared, Answered, Asking, Top
<1>7. \A g \in Functions : (entry[g] => entry'[g]) /\ (signed[g] => signed'[g])
  BY <1>1
<1>8. \A g \in Functions \ {f} : Kept(g)
  BY <1>1 DEF Types, Kept
<1> QED
  BY <1>1, <1>3, <1>4, <1>5, <1>6, <1>7, <1>8, TopStep

LEMMA FailHolds == ASSUME IInv, NEW t \in Threads, Fail(t) PROVE IInv'
<1> DEFINE f == Top(t).fn
<1>1. /\ Types /\ stack[t] # <<>> /\ Top(t).at \in {"start", "symbols", "lower", "fill"}
      /\ \/ expansion' = expansion
         \/ Top(t).at = "start" /\ expansion' = [expansion EXCEPT ![f] = "none"]
      /\ UNCHANGED <<lock, call, entry, compiling, signed, attempt, embeds>>
      /\ Step(t, "raised")
  BY DEF Fail, Raise, Compiles, IInv
<1>2. f \in Functions /\ (Top(t).at = "start" => ~entry[f]) /\ (entry[f] => expansion[f] # "none")
  BY <1>1, TopFacts DEF Entered, IInv, Graftable
<1>3. TopReplaced(t) /\ Top(t)'.fn = f /\ Top(t)'.at = "raised"
  BY <1>1, StepReplaces DEF Places
<1>4. expansion' \in [Functions -> {"none", "promise", "frozen"}]
  BY <1>1, <1>2 DEF Types
<1>5. Types' /\ Named'
  BY <1>1, <1>3, <1>4 DEF IInv, Types, Named, TopReplaced
<1>6. Entered(Top(t))' /\ Prepared(Top(t))' /\ Answered(stack[t], Len(stack[t]))'
  BY <1>3 DEF Entered, Prepared, Answered, Asking, Top
<1>7. \A g \in Functions : (entry[g] => entry'[g]) /\ (signed[g] => signed'[g])
  BY <1>1
<1>8. \A g \in Functions \ {f} : Kept(g)
  BY <1>1 DEF Types, Kept
<1>9. entry'[f] => expansion'[f] # "none"
  BY <1>1, <1>2
<1> QED
  BY <1>1, <1>3, <1>5, <1>6, <1>7, <1>8, <1>9, TopStep

(* A callee that has its entry point or is being compiled is an answer.    *)
LEMMA SkipHolds ==
    ASSUME IInv, NEW t \in Threads, stack[t] # <<>>, Top(t).at = "callees",
           Top(t).next \in DOMAIN Callees[Top(t).fn],
           LET g == Callees[Top(t).fn][Top(t).next] IN entry[g] \/ compiling[g],
           stack' = [stack EXCEPT ![t] = Advanced(t)],
           UNCHANGED <<lock, call, entry, compiling, signed, expansion, attempt, embeds>>
    PROVE  IInv'
<1> DEFINE f == Top(t).fn
           g == Callees[f][Top(t).next]
           s == stack[t]
           n == Len(s)
<1>1. /\ Types /\ f \in Functions /\ g \in Functions /\ ~entry[f] /\ Top(t) \in Frames
      /\ Prepared(Top(t)) /\ Answered(s, n)
  BY TopFacts, CalleeFunctions DEF IInv, Entered
<1>2. /\ TopReplaced(t) /\ Top(t)'.fn = f /\ Top(t)'.at = "callees"
      /\ Top(t)'.next = Top(t).next + 1 /\ Top(t).next \in Nat
  BY <1>1, AdvanceReplaces DEF Frames
<1>3. Types' /\ Named'
  BY <1>1, <1>2 DEF IInv, Types, Named, TopReplaced
<1>4. Entered(Top(t))' /\ Prepared(Top(t))'
  BY <1>1, <1>2 DEF Entered, Prepared, Asking
<1>5. /\ n \in Nat /\ n >= 1 /\ DOMAIN s = 1..n /\ DOMAIN s' = 1..n /\ Len(s') = n
      /\ \A k \in 1..n : s'[k].fn = s[k].fn
      /\ s'[n].fn = f /\ s'[n].next = Top(t).next + 1 /\ s[n] = Top(t)
  BY <1>1, <1>2 DEF Types, TopReplaced, Top
<1>6. entry[g] \/ \E k \in 1..n : k <= n + 1 /\ s[k].fn = g
  <2>1. CASE compiling[g]
    <3>1. PICK v \in Threads : \E k \in DOMAIN stack[v] : stack[v][k].fn = g
      BY <1>1, <2>1 DEF IInv, Flags
    <3>2. v = t
      BY <3>1, Alone
    <3> QED
      BY <1>5, <3>1, <3>2
  <2> QED
    BY <2>1
<1>7. ASSUME NEW j \in DOMAIN Callees[f], j < Top(t).next + 1
      PROVE  entry'[Callees[f][j]] \/ \E k \in 1..n : k <= n + 1 /\ s'[k].fn = Callees[f][j]
  <2>1. j \in Nat
    BY <1>1, CalleeFunctions
  <2>2. CASE j = Top(t).next
    BY <1>5, <1>6, <2>2
  <2>3. CASE j < Top(t).next
    <3>1. entry[Callees[f][j]] \/ \E k \in 1..n : k <= n + 1 /\ s[k].fn = Callees[f][j]
      BY <1>1, <1>5, <2>3 DEF Answered, Asking
    <3> QED
      BY <1>5, <3>1
  <2> QED
    BY <1>2, <1>7, <2>1, <2>2, <2>3
<1>8. Answered(stack[t], Len(stack[t]))'
  BY <1>5, <1>7 DEF Answered
<1>9. \A h \in Functions : Kept(h) /\ (signed[h] => signed'[h]) /\ (entry[h] => entry'[h])
  BY DEF Kept
<1>10. entry'[f] => expansion'[f] # "none"
  BY <1>1
<1> QED
  BY <1>2, <1>3, <1>4, <1>8, <1>9, <1>10, TopStep

(* One that has neither is compiled first, above the one that asks. *)
LEMMA NestHolds ==
    ASSUME IInv, NEW t \in Threads, stack[t] # <<>>, Top(t).at = "callees",
           Top(t).next \in DOMAIN Callees[Top(t).fn],
           NEW g \in Functions, g = Callees[Top(t).fn][Top(t).next], ~entry[g], ~compiling[g],
           stack' = [stack EXCEPT ![t] = Append(Advanced(t), Frame(g))],
           compiling' = [compiling EXCEPT ![g] = TRUE],
           UNCHANGED <<lock, call, entry, signed, expansion, attempt, embeds>>
    PROVE  IInv'
<1> DEFINE f == Top(t).fn
           s == stack[t]
           n == Len(s)
           a == Advanced(t)
           r == Append(a, Frame(g))
<1>1. /\ Types /\ f \in Functions /\ ~entry[f] /\ Top(t) \in Frames
      /\ Prepared(Top(t)) /\ Answered(s, n)
  BY TopFacts DEF IInv, Entered
<1>2. s \in Seq(Frames) /\ n \in Nat /\ n >= 1 /\ DOMAIN s = 1..n /\ s[n] = Top(t)
  BY <1>1 DEF Types, Top
<1>3. /\ a \in Seq(Frames) /\ Len(a) = n /\ \A i \in 1..n : i < n => a[i] = s[i]
      /\ a[n].fn = f /\ a[n].at = "callees" /\ a[n].next = Top(t).next + 1
  BY <1>1, AdvancedFrames
<1>4. Frame(g) \in Frames /\ Frame(g).fn = g /\ Frame(g).at = "start" /\ Frame(g).next = 1
  BY DEF Frame, Frames, Places
<1> HIDE DEF a
<1>5. /\ r \in Seq(Frames) /\ Len(r) = n + 1 /\ DOMAIN r = 1..(n + 1)
      /\ r[n + 1] = Frame(g) /\ \A i \in 1..n : r[i] = a[i]
  BY <1>2, <1>3, <1>4
<1> HIDE DEF r
<1>6. /\ stack' \in [Threads -> Seq(Frames)] /\ s' = r
      /\ \A v \in Threads \ {t} : stack'[v] = stack[v]
  BY <1>1, <1>5 DEF Types, r, a
<1>7. \A i \in 1..n : r[i].fn = s[i].fn /\ s[i].fn \in Functions /\ (i < n => r[i] = s[i])
  <2> SUFFICES ASSUME NEW i \in 1..n
               PROVE  r[i].fn = s[i].fn /\ s[i].fn \in Functions /\ (i < n => r[i] = s[i])
    OBVIOUS
  <2>1. s[i] \in Frames /\ (i = n \/ i < n)
    BY <1>2
  <2> QED
    BY <1>2, <1>3, <1>5, <2>1 DEF Frames
<1>8. \A i \in 1..n : s[i].fn # g
  BY <1>2 DEF IInv, Flags
<1>9. Types' /\ Named' /\ Locked'
  BY <1>1, <1>6, Alone DEF IInv, Types, Named, Locked
<1>10. Flags' /\ Graftable'
  <2>1. Graftable'
    BY DEF IInv, Graftable
  <2>2. ASSUME NEW h \in Functions
        PROVE  compiling'[h] <=> \E v \in Threads : \E i \in DOMAIN stack'[v] : stack'[v][i].fn = h
    <3>1. compiling[h] <=> \E v \in Threads : \E i \in DOMAIN stack[v] : stack[v][i].fn = h
      BY DEF IInv, Flags
    <3>2. \A v \in Threads \ {t} : stack[v] = <<>> /\ stack'[v] = <<>>
      BY <1>6, Alone
    <3>3. compiling[h] <=> \E i \in 1..n : s[i].fn = h
      BY <1>2, <3>1, <3>2
    <3>4. (\E v \in Threads : \E i \in DOMAIN stack'[v] : stack'[v][i].fn = h)
            <=> \E i \in 1..(n + 1) : r[i].fn = h
      BY <1>5, <1>6, <3>2
    <3>5. (\E i \in 1..(n + 1) : r[i].fn = h) <=> (h = g \/ \E i \in 1..n : r[i].fn = h)
      BY <1>2, <1>4, <1>5
    <3>6. compiling'[h] <=> h = g \/ compiling[h]
      BY <1>1 DEF Types
    <3> QED
      BY <1>7, <3>3, <3>4, <3>5, <3>6
  <2> QED
    BY <2>1, <2>2 DEF Flags
<1>11. Distinct(s)' /\ Nested(s)'
  <2>1. Distinct(s) /\ Nested(s)
    BY DEF IInv, Sound
  <2>2. ASSUME NEW i \in 1..(n + 1), NEW j \in 1..(n + 1), r[i].fn = r[j].fn
        PROVE  i = j
    <3>1. (i = n + 1 \/ i \in 1..n) /\ (j = n + 1 \/ j \in 1..n)
      BY <1>2
    <3>2. r[n + 1].fn = g /\ \A k \in 1..n : r[k].fn = s[k].fn /\ r[k].fn # g
      BY <1>4, <1>5, <1>7, <1>8
    <3>3. ASSUME i \in 1..n, j \in 1..n
          PROVE  i = j
      <4>1. s[i].fn = s[j].fn
        BY <2>2, <3>2, <3>3
      <4> QED
        BY <1>2, <2>1, <3>3, <4>1 DEF Distinct
    <3> QED
      BY <2>2, <3>1, <3>2, <3>3
  <2>3. ASSUME NEW i \in 1..(n + 1), i < n + 1
        PROVE  r[i].at = "callees"
    <3>1. CASE i = n
      <4>1. n \in 1..n
        BY <1>2
      <4>2. r[n] = a[n]
        BY <1>5, <4>1
      <4> QED
        BY <1>3, <3>1, <4>2
    <3>2. CASE i < n
      <4>1. i \in 1..n /\ i \in DOMAIN s
        BY <1>2, <3>2
      <4>2. r[i] = s[i]
        BY <1>7, <3>2, <4>1
      <4> QED
        BY <2>1, <3>2, <4>1, <4>2 DEF Nested
    <3> QED
      BY <1>2, <2>3, <3>1, <3>2
  <2> QED
    BY <1>5, <1>6, <2>2, <2>3 DEF Distinct, Nested
<1>12. ASSUME NEW i \in 1..(n + 1)
       PROVE  Entered(s[i])' /\ Prepared(s[i])' /\ Answered(s, i)'
  <2>1. CASE i = n + 1
    BY <1>4, <1>5, <1>6, <2>1 DEF Entered, Prepared, Answered, Asking
  <2>2. CASE i = n
    <3>0. s'[i].fn = f /\ s'[i].at = "callees" /\ s'[i].next = Top(t).next + 1
      <4>1. n \in 1..n
        BY <1>2
      <4>2. s'[i] = a[n]
        BY <1>5, <1>6, <2>2, <4>1
      <4> QED
        BY <1>3, <4>2
    <3>1. Entered(s[i])' /\ Prepared(s[i])'
      BY <1>1, <3>0 DEF Entered, Prepared, Asking
    <3>2. ASSUME NEW j \in DOMAIN Callees[f], j < Top(t).next + 1
          PROVE  entry[Callees[f][j]] \/ \E k \in 1..(n + 1) : k <= n + 1 /\ r[k].fn = Callees[f][j]
      <4>1. j \in Nat /\ Top(t).next \in Nat
        BY <1>1, CalleeFunctions DEF Frames
      <4>2. CASE j = Top(t).next
        BY <1>2, <1>4, <1>5, <4>2
      <4>3. CASE j < Top(t).next
        <5>1. entry[Callees[f][j]] \/ \E k \in 1..n : k <= n + 1 /\ s[k].fn = Callees[f][j]
          BY <1>1, <1>2, <4>3 DEF Answered, Asking
        <5> QED
          BY <1>2, <1>7, <5>1
      <4> QED
        BY <3>2, <4>1, <4>2, <4>3
    <3>3. Answered(s, i)'
      <4>1. \A j \in DOMAIN Callees[f] : j < Top(t).next + 1 =>
                entry'[Callees[f][j]]
                  \/ \E k \in DOMAIN s' : k <= i + 1 /\ s'[k].fn = Callees[f][j]
        BY <1>5, <1>6, <2>2, <3>2
      <4> QED
        BY <3>0, <4>1 DEF Answered
    <3> QED
      BY <3>1, <3>3
  <2>3. CASE i < n
    <3>1. i \in 1..n /\ r[i] = s[i] /\ s[i].fn \in Functions
      BY <1>2, <1>7, <2>3
    <3>2. Entered(s[i]) /\ Prepared(s[i]) /\ Answered(s, i)
      BY <1>2, <3>1 DEF IInv, Sound
    <3>3. Entered(s[i])' /\ Prepared(s[i])'
      BY <1>6, <3>1, <3>2 DEF Entered, Prepared, Asking
    <3>4. Answered(s, i)'
      <4>1. s'[i] = s[i] /\ DOMAIN s' = 1..(n + 1) /\ 1..n \subseteq 1..(n + 1)
            /\ \A k \in 1..n : s'[k].fn = s[k].fn
        <5>1. s' = r
          BY <1>6
        <5>2. 1..n \subseteq 1..(n + 1)
          BY <1>2
        <5> QED
          BY <1>5, <1>7, <3>1, <5>1, <5>2
      <4>2. Asking(s[i]) => \A j \in DOMAIN Callees[s[i].fn] : j < s[i].next =>
                entry[Callees[s[i].fn][j]]
                  \/ \E k \in 1..n : k <= i + 1 /\ s[k].fn = Callees[s[i].fn][j]
        <5> HIDE DEF n, s
        <5> QED
          BY <1>2, <3>2 DEF Answered
      <4>3. Asking(s[i]) => \A j \in DOMAIN Callees[s[i].fn] : j < s[i].next =>
                entry'[Callees[s[i].fn][j]]
                  \/ \E k \in DOMAIN s' : k <= i + 1 /\ s'[k].fn = Callees[s[i].fn][j]
        BY <4>1, <4>2
      <4> QED
        BY <4>1, <4>3 DEF Answered, Asking
    <3> QED
      BY <3>3, <3>4
  <2>4. i = n + 1 \/ i = n \/ i < n
    BY <1>2
  <2> QED
    BY <2>1, <2>2, <2>3, <2>4
<1>13. Sound(s)'
  BY <1>5, <1>6, <1>11, <1>12 DEF Sound
<1>14. \A v \in Threads \ {t} : Sound(stack[v])'
  <2>1. \A v \in Threads \ {t} : stack'[v] = <<>>
    BY <1>6, Alone
  <2> QED
    BY <2>1 DEF Sound, Distinct, Nested
<1> QED
  BY <1>9, <1>10, <1>13, <1>14 DEF IInv

LEMMA CalleeHolds == ASSUME IInv, NEW t \in Threads, Callee(t) PROVE IInv'
<1> DEFINE g == Callees[Top(t).fn][Top(t).next]
<1>1. /\ stack[t] # <<>> /\ Top(t).at = "callees" /\ Top(t).next <= Len(Callees[Top(t).fn])
      /\ UNCHANGED <<lock, call, entry, signed, expansion, attempt, embeds>>
  BY DEF Callee, Compiles
<1>2. Top(t).fn \in Functions /\ Top(t).next \in Nat \ {0}
  BY <1>1, TopFacts DEF Frames
<1>4. Top(t).next \in DOMAIN Callees[Top(t).fn] /\ g \in Functions
  BY <1>1, <1>2, CalleeFunctions
<1>5. CASE entry[g] \/ compiling[g]
  <2>1. stack' = [stack EXCEPT ![t] = Advanced(t)] /\ UNCHANGED compiling
    BY <1>5 DEF Callee, Advanced
  <2> QED
    BY <1>1, <1>4, <1>5, <2>1, SkipHolds
<1>6. CASE ~(entry[g] \/ compiling[g])
  <2>1. /\ stack' = [stack EXCEPT ![t] = Append(Advanced(t), Frame(g))]
        /\ compiling' = [compiling EXCEPT ![g] = TRUE]
    BY <1>6 DEF Callee, Advanced
  <2> QED
    BY <1>1, <1>4, <1>6, <2>1, NestHolds
<1> QED
  BY <1>5, <1>6

-----------------------------------------------------------------------------
(* A thread starts a compilation when nobody else has one underway. *)
LEMMA AcquireHolds == ASSUME IInv, NEW t \in Threads, Acquire(t) PROVE IInv'
<1> DEFINE f == call[t].fn
<1>1. /\ Types /\ Named /\ call[t].at = "lock" /\ lock = NoThread
      /\ UNCHANGED <<entry, signed, expansion, attempt, embeds>>
  BY DEF Acquire, IInv
<1>2. f \in Functions
  BY <1>1 DEF Named
<1>3. CASE entry[f]
  <2>1. At(t, "enter") /\ UNCHANGED <<lock, stack, state>>
    BY <1>3 DEF Acquire, state
  <2> QED
    BY <1>1, <2>1, AtTyped, CallChange DEF Stations
<1>4. CASE ~entry[f]
  <2>1. /\ At(t, "compiling") /\ lock' = t
        /\ stack' = [stack EXCEPT ![t] = <<Frame(f)>>]
        /\ compiling' = [compiling EXCEPT ![f] = TRUE]
    BY <1>4 DEF Acquire
  <2>2. \A v \in Threads : stack[v] = <<>>
    BY <1>1, Threaded DEF IInv, Locked
  <2>3. Frame(f) \in Frames /\ Frame(f).fn = f /\ Frame(f).at = "start" /\ Frame(f).next = 1
    BY <1>2 DEF Frame, Frames, Places
  <2>4. /\ <<Frame(f)>> \in Seq(Frames) /\ DOMAIN <<Frame(f)>> = {1} /\ Len(<<Frame(f)>>) = 1
        /\ <<Frame(f)>>[1] = Frame(f)
    BY <2>3
  <2>5. /\ stack' \in [Threads -> Seq(Frames)] /\ stack'[t] = <<Frame(f)>>
        /\ \A v \in Threads \ {t} : stack'[v] = <<>>
    BY <1>1, <2>1, <2>2, <2>4 DEF Types
  <2>6. call' \in [Threads -> Calls] /\ Named' /\ call'[t].at = "compiling"
    BY <1>1, <2>1, AtTyped DEF Stations
  <2>7. Types'
    BY <1>1, <2>1, <2>5, <2>6 DEF Types
  <2>8. Locked' /\ Graftable'
    BY <1>1, <2>1, <2>5, <2>6 DEF IInv, Locked, Graftable
  <2>9. Flags'
    <3>1. \A g \in Functions : ~compiling[g]
      BY <2>2 DEF IInv, Flags
    <3>2. \A g \in Functions : compiling'[g] <=> g = f
      BY <1>1, <1>2, <2>1, <3>1 DEF Types
    <3>3. \A g \in Functions :
              (\E v \in Threads : \E i \in DOMAIN stack'[v] : stack'[v][i].fn = g) <=> g = f
      BY <2>3, <2>4, <2>5
    <3> QED
      BY <3>2, <3>3 DEF Flags
  <2>10. Sound(stack[t])'
    <3>1. stack'[t][1] = Frame(f) /\ DOMAIN stack'[t] = {1} /\ Len(stack'[t]) = 1
      BY <2>4, <2>5
    <3>2. Distinct(stack[t])' /\ Nested(stack[t])'
      BY <3>1 DEF Distinct, Nested
    <3>3. Entered(stack[t][1])' /\ Prepared(stack[t][1])' /\ Answered(stack[t], 1)'
      BY <1>1, <1>4, <2>3, <3>1 DEF Entered, Prepared, Answered, Asking
    <3> QED
      BY <3>1, <3>2, <3>3 DEF Sound
  <2>11. \A v \in Threads \ {t} : Sound(stack[v])'
    BY <2>5 DEF Sound, Distinct, Nested
  <2> QED
    BY <2>6, <2>7, <2>8, <2>9, <2>10, <2>11 DEF IInv
<1> QED
  BY <1>3, <1>4

LEMMA PopFacts ==
    ASSUME NEW t \in Threads, stack[t] \in Seq(Frames), stack[t] # <<>>
    PROVE  /\ Len(stack[t]) \in Nat /\ Len(stack[t]) >= 1
           /\ DOMAIN stack[t] = 1..Len(stack[t])
           /\ Pop(t) \in Seq(Frames)
           /\ Len(Pop(t)) = Len(stack[t]) - 1
           /\ \A i \in 1..(Len(stack[t]) - 1) : Pop(t)[i] = stack[t][i]
           /\ Pop(t) = <<>> <=> Len(stack[t]) = 1
<1> DEFINE s == stack[t]
           m == Len(s) - 1
           o == SubSeq(s, 1, m)
<1>1. Len(s) \in Nat /\ Len(s) >= 1 /\ DOMAIN s = 1..Len(s) /\ m \in Nat
  OBVIOUS
<1>2. \A i \in 1..m : s[i] \in Frames
  BY <1>1
<1>3. /\ o \in Seq(Frames) /\ Len(o) = IF 1 <= m THEN m - 1 + 1 ELSE 0
      /\ \A i \in 1..(m - 1 + 1) : o[i] = s[1 + i - 1]
  BY <1>1, <1>2, SubSeqProperties
<1>4. Pop(t) = o
  BY DEF Pop
<1> HIDE DEF o
<1>5. Len(o) = m /\ \A i \in 1..m : o[i] = s[i]
  BY <1>1, <1>3
<1>6. o = <<>> <=> m = 0
  <2>1. CASE m = 0
    <3>1. Len(o) = 0 /\ o \in Seq(Frames)
      BY <1>3, <1>5, <2>1
    <3> HIDE DEF m
    <3>2. o = <<>>
      BY <3>1
    <3> QED
      BY <2>1, <3>2
  <2>2. CASE m # 0
    <3>1. Len(o) # Len(<<>>)
      BY <1>5, <2>2
    <3> QED
      BY <2>2, <3>1
  <2> QED
    BY <2>1, <2>2
<1> QED
  BY <1>1, <1>3, <1>4, <1>5, <1>6

(* Leaving a nested compilation, which has ended or has raised. *)
LEMMA UnnestHolds ==
    ASSUME IInv, NEW t \in Threads, Len(stack[t]) > 1, NEW r \in Seq(Frames),
           Len(r) = Len(stack[t]) - 1,
           \A i \in 1..Len(r) : r[i].fn = stack[t][i].fn /\ (i < Len(r) => r[i] = stack[t][i]),
           \/ r[Len(r)].at = "raised"
           \/ r[Len(r)] = stack[t][Len(r)] /\ Top(t).at = "done",
           stack' = [stack EXCEPT ![t] = r],
           compiling' = [compiling EXCEPT ![Top(t).fn] = FALSE],
           UNCHANGED <<lock, call, entry, signed, expansion, attempt, embeds>>
    PROVE  IInv'
<1> DEFINE s == stack[t]
           n == Len(s)
           m == Len(r)
           f == Top(t).fn
<1>1. /\ Types /\ s \in Seq(Frames) /\ s # <<>> /\ n \in Nat /\ n > 1 /\ DOMAIN s = 1..n
      /\ m = n - 1 /\ m \in Nat /\ m >= 1 /\ DOMAIN r = 1..m /\ Top(t) = s[n]
  BY DEF IInv, Types, Top
<1>2. f \in Functions /\ Entered(Top(t)) /\ Distinct(s) /\ Nested(s)
  BY <1>1, TopFacts DEF IInv, Sound
<1>3. /\ stack' \in [Threads -> Seq(Frames)] /\ s' = r
      /\ \A v \in Threads \ {t} : stack'[v] = stack[v] /\ stack[v] = <<>>
  BY <1>1, Alone DEF Types
<1>4. Types' /\ Named' /\ Locked' /\ Graftable'
  <2>1. Types' /\ Named'
    BY <1>1, <1>3 DEF IInv, Types, Named
  <2>2. Locked' /\ Graftable'
    BY <1>1, <1>3, Alone DEF IInv, Locked, Graftable
  <2> QED
    BY <2>1, <2>2
<1>5. \A i \in 1..m : i \in 1..n /\ i < n /\ r[i].fn = s[i].fn /\ s[i].fn # f
  BY <1>1, <1>2 DEF Distinct
<1>6. Flags'
  <2>1. ASSUME NEW g \in Functions
        PROVE  compiling'[g] <=> \E v \in Threads : \E i \in DOMAIN stack'[v] : stack'[v][i].fn = g
    <3>0. compiling[g] <=> \E v \in Threads : \E i \in DOMAIN stack[v] : stack[v][i].fn = g
      BY DEF IInv, Flags
    <3>1. compiling[g] <=> \E i \in 1..n : s[i].fn = g
      BY <1>1, <1>3, <3>0
    <3>2. (\E v \in Threads : \E i \in DOMAIN stack'[v] : stack'[v][i].fn = g)
            <=> \E i \in 1..m : r[i].fn = g
      <4>1. stack'[t] = r /\ DOMAIN r = 1..m
        BY <1>1, <1>3
      <4>2. \A v \in Threads \ {t} : DOMAIN stack'[v] = {}
        BY <1>3
      <4>3. (\E i \in 1..m : r[i].fn = g)
              => \E v \in Threads : \E i \in DOMAIN stack'[v] : stack'[v][i].fn = g
        BY <4>1
      <4>4. ASSUME NEW v \in Threads, NEW i \in DOMAIN stack'[v], stack'[v][i].fn = g
            PROVE  \E k \in 1..m : r[k].fn = g
        <5>1. v = t
          BY <4>2
        <5> QED
          BY <4>1, <4>4, <5>1
      <4> HIDE DEF m
      <4> QED
        BY <4>3, <4>4
    <3>3. \A i \in 1..n : i = n \/ i \in 1..m
      BY <1>1
    <3>4. n \in 1..n /\ s[n].fn = f
      BY <1>1
    <3>5. (\E i \in 1..m : r[i].fn = g) <=> g # f /\ \E i \in 1..n : s[i].fn = g
      BY <1>5, <3>3, <3>4
    <3>6. compiling'[g] <=> g # f /\ compiling[g]
      BY <1>1 DEF Types
    <3> QED
      BY <3>1, <3>2, <3>5, <3>6
  <2> QED
    BY <2>1 DEF Flags
<1>7. Distinct(s)' /\ Nested(s)'
  <2>1. Distinct(s)'
    BY <1>1, <1>2, <1>3, <1>5 DEF Distinct
  <2>2. \A i \in 1..m : i < m => r[i].at = "callees"
    BY <1>1, <1>2, <1>5 DEF Nested
  <2> QED
    BY <1>1, <1>3, <2>1, <2>2 DEF Nested
<1>8. ASSUME NEW i \in 1..m
      PROVE  Entered(s[i])' /\ Prepared(s[i])' /\ Answered(s, i)'
  <2>1. CASE r[i].at = "raised"
    BY <1>3, <2>1 DEF Entered, Prepared, Answered, Asking
  <2>2. CASE r[i].at # "raised"
    <3>1. r[i] = s[i] /\ (i = m => Top(t).at = "done")
      BY <1>1, <1>5, <2>2
    <3>2. Entered(s[i]) /\ Prepared(s[i]) /\ Answered(s, i)
      BY <1>1, <1>5 DEF IInv, Sound
    <3>3. Entered(s[i])' /\ Prepared(s[i])'
      BY <1>3, <3>1, <3>2 DEF Entered, Prepared, Asking
    <3>4. Asking(s[i]) => \A j \in DOMAIN Callees[s[i].fn] : j < s[i].next =>
              entry[Callees[s[i].fn][j]]
                \/ \E k \in 1..n : k <= i + 1 /\ s[k].fn = Callees[s[i].fn][j]
      BY <1>1, <3>2 DEF Answered
    <3>5. \A k \in 1..n : k <= i + 1 => k \in 1..m \/ (k = n /\ i = m)
      BY <1>1
    <3>6. i = m => entry[s[n].fn]
      BY <1>1, <1>2, <3>1 DEF Entered
    <3>7. Asking(s[i]) => \A j \in DOMAIN Callees[s[i].fn] : j < s[i].next =>
              entry'[Callees[s[i].fn][j]]
                \/ \E k \in 1..m : k <= i + 1 /\ r[k].fn = Callees[s[i].fn][j]
      <4>1. \A k \in 1..n : k <= i + 1 =>
                entry[s[k].fn] \/ (k \in 1..m /\ r[k].fn = s[k].fn)
        BY <1>5, <3>5, <3>6
      <4> HIDE DEF n, m, s
      <4> QED
        BY <3>4, <4>1
    <3>8. Answered(s, i)'
      <4>1. s' = r /\ r[i] = s[i] /\ DOMAIN r = 1..m
        BY <1>1, <1>3, <3>1
      <4>2. Asking(r[i]) => \A j \in DOMAIN Callees[r[i].fn] : j < r[i].next =>
                entry'[Callees[r[i].fn][j]]
                  \/ \E k \in DOMAIN r : k <= i + 1 /\ r[k].fn = Callees[r[i].fn][j]
        <5> HIDE DEF n, m, s
        <5> QED
          BY <3>7, <4>1
      <4>3. stack'[t] = r
        BY <4>1
      <4> QED
        BY <4>2, <4>3 DEF Answered, Asking
    <3> QED
      BY <3>3, <3>8
  <2> QED
    BY <2>1, <2>2
<1>9. Sound(s)'
  BY <1>1, <1>3, <1>7, <1>8 DEF Sound
<1>10. \A v \in Threads \ {t} : Sound(stack[v])'
  <2>1. \A v \in Threads \ {t} : stack'[v] = <<>>
    BY <1>3
  <2> QED
    BY <2>1 DEF Sound, Distinct, Nested
<1> QED
  BY <1>4, <1>6, <1>9, <1>10 DEF IInv

LEMMA LeaveFrameHolds == ASSUME IInv, NEW t \in Threads, LeaveFrame(t) PROVE IInv'
<1> DEFINE f == Top(t).fn
           n == Len(stack[t])
<1>1. /\ Types /\ Named /\ stack[t] # <<>> /\ stack[t] \in Seq(Frames)
      /\ Top(t).at \in {"done", "raised"}
      /\ compiling' = [compiling EXCEPT ![f] = FALSE]
      /\ UNCHANGED <<entry, signed, expansion, attempt, embeds>>
  BY DEF LeaveFrame, Compiles, IInv, Types
<1>2. /\ f \in Functions /\ lock = t /\ \A v \in Threads \ {t} : stack[v] = <<>>
      /\ call[t].at = "compiling"
  BY <1>1, TopFacts, Alone DEF IInv, Locked
<1>3. /\ n \in Nat /\ n >= 1 /\ DOMAIN stack[t] = 1..n
      /\ Pop(t) \in Seq(Frames) /\ Len(Pop(t)) = n - 1
      /\ \A i \in 1..(n - 1) : Pop(t)[i] = stack[t][i]
      /\ Pop(t) = <<>> <=> n = 1
  BY <1>1, PopFacts
<1>4. CASE Pop(t) = <<>>
  <2>1. /\ lock' = NoThread /\ stack' = [stack EXCEPT ![t] = <<>>]
        /\ End(t, "compile error") \/ At(t, "enter")
    BY <1>4 DEF LeaveFrame
  <2>2. call' \in [Threads -> Calls] /\ Named'
    BY <1>1, <1>2, <2>1, AtTyped, EndTyped DEF Stations
  <2>3. \A v \in Threads : stack'[v] = <<>>
    <3>1. stack'[t] = <<>> /\ \A v \in Threads \ {t} : stack'[v] = stack[v]
      BY <1>1, <2>1 DEF Types
    <3> QED
      BY <1>2, <3>1
  <2>4. stack' \in [Threads -> Seq(Frames)]
    <3>1. <<>> \in Seq(Frames)
      OBVIOUS
    <3> QED
      BY <1>1, <2>1, <3>1 DEF Types
  <2>5. Types'
    BY <1>1, <2>1, <2>2, <2>4 DEF Types
  <2>6. Locked' /\ Graftable'
    BY <1>1, <2>3 DEF IInv, Locked, Graftable
  <2>7. Flags'
    <3>1. \A g \in Functions : compiling[g] => g = f
      <4> SUFFICES ASSUME NEW g \in Functions, compiling[g] PROVE g = f
        OBVIOUS
      <4>1. PICK v \in Threads : \E i \in DOMAIN stack[v] : stack[v][i].fn = g
        BY DEF IInv, Flags
      <4>2. v = t
        BY <1>2, <4>1
      <4>3. PICK i \in 1..n : stack[t][i].fn = g
        BY <1>3, <4>1, <4>2
      <4>4. n = 1 /\ i \in 1..n
        BY <1>3, <1>4
      <4> QED
        BY <4>3, <4>4 DEF Top
    <3>2. \A g \in Functions : ~compiling'[g]
      BY <1>1, <3>1 DEF Types
    <3> QED
      BY <2>3, <3>2 DEF Flags
  <2>8. \A v \in Threads : Sound(stack[v])'
    BY <2>3 DEF Sound, Distinct, Nested
  <2> QED
    BY <2>2, <2>5, <2>6, <2>7, <2>8 DEF IInv
<1>5. CASE Pop(t) # <<>>
  <2> DEFINE o == Pop(t)
             m == Len(o)
             raised == [o EXCEPT ![m].at = "raised"]
  <2>1. m \in Nat /\ m >= 1 /\ m = n - 1 /\ n > 1 /\ DOMAIN o = 1..m
    BY <1>3, <1>5
  <2>2. /\ UNCHANGED <<lock, call>>
        /\ \/ Top(t).at = "raised" /\ stack' = [stack EXCEPT ![t] = raised]
           \/ Top(t).at = "done" /\ stack' = [stack EXCEPT ![t] = o]
    <3>1. /\ UNCHANGED <<lock, call>>
          /\ stack' = [stack EXCEPT ![t] = IF Top(t).at = "raised" THEN raised ELSE o]
      BY <1>5 DEF LeaveFrame
    <3> QED
      BY <1>1, <3>1
  <2>3. CASE Top(t).at = "done" /\ stack' = [stack EXCEPT ![t] = o]
    <3>1. o \in Seq(Frames) /\ Len(o) = n - 1 /\ m \in 1..m
      BY <1>3, <2>1
    <3>2. \A i \in 1..m : o[i] = stack[t][i]
      BY <1>3, <2>1
    <3> HIDE DEF o
    <3> QED
      BY <1>1, <2>1, <2>2, <2>3, <3>1, <3>2, UnnestHolds
  <2>4. CASE Top(t).at = "raised" /\ stack' = [stack EXCEPT ![t] = raised]
    <3>1. o[m] \in Frames
      BY <1>3, <2>1
    <3>2. [o[m] EXCEPT !.at = "raised"] \in Frames
      BY <3>1 DEF Frames, Places
    <3>3. raised = [o EXCEPT ![m] = [o[m] EXCEPT !.at = "raised"]]
      OBVIOUS
    <3> HIDE DEF o
    <3>4. raised \in Seq(Frames) /\ Len(raised) = m
      BY <1>3, <2>1, <3>2, <3>3 DEF o
    <3>5. raised[m] = [o[m] EXCEPT !.at = "raised"] /\ \A i \in 1..m : i < m => raised[i] = o[i]
      BY <2>1, <3>3
    <3>6. raised[m].fn = o[m].fn /\ raised[m].at = "raised"
      BY <3>1, <3>5 DEF Frames
    <3> HIDE DEF raised
    <3>7. \A i \in 1..m : raised[i].fn = stack[t][i].fn /\ (i < m => raised[i] = stack[t][i])
      <4> SUFFICES ASSUME NEW i \in 1..m
                   PROVE  raised[i].fn = stack[t][i].fn /\ (i < m => raised[i] = stack[t][i])
        OBVIOUS
      <4>1. o[i] = stack[t][i] /\ (i = m \/ i < m)
        BY <1>3, <2>1 DEF o
      <4> QED
        BY <3>5, <3>6, <4>1
    <3> QED
      BY <1>1, <2>1, <2>2, <2>4, <3>4, <3>6, <3>7, UnnestHolds
  <2> QED
    BY <2>2, <2>3, <2>4
<1> QED
  BY <1>4, <1>5

-----------------------------------------------------------------------------
LEMMA NextHolds == IInv /\ [Next]_vars => IInv'
<1> SUFFICES ASSUME IInv, [Next]_vars PROVE IInv'
  OBVIOUS
<1>1. ASSUME NEW t \in Threads, Call(t) \/ CallStep(t)
      PROVE  IInv'
  BY <1>1, CallsHold, AcquireHolds DEF CallStep
<1>2. ASSUME NEW t \in Threads, CompileStep(t)
      PROVE  IInv'
  BY <1>2, StartHolds, SymbolsHolds, CalleeHolds, AllAskedHolds, LowerHolds,
     FillOrPublishHolds, FailHolds, LeaveFrameHolds DEF CompileStep
<1>3. CASE UNCHANGED vars
  <2>1. Types' /\ Named' /\ Locked' /\ Flags' /\ Graftable'
    BY <1>3 DEF vars, state, IInv, Types, Named, Locked, Flags, Graftable
  <2>2. \A t \in Threads : Sound(stack[t])'
    BY <1>3 DEF vars, state, IInv, Sound, Distinct, Nested, Entered, Prepared, Answered, Asking
  <2> QED
    BY <2>1, <2>2 DEF IInv
<1> QED
  BY <1>1, <1>2, <1>3 DEF Next, Idle

(* The invariant in the terms of the properties that are checked. *)
LEMMA OneCompilerHolds == IInv => OneCompiler
<1> SUFFICES ASSUME IInv PROVE OneCompiler
  OBVIOUS
<1>1. \A u \in Underway : \E t \in Threads : \E i \in DOMAIN stack[t] : u = <<t, i>>
  BY DEF Underway
<1>2. \A t \in Threads : \A i \in DOMAIN stack[t] : <<t, i>> \in Underway
  BY DEF Underway
<1>3. \A t \in Threads : \A i \in DOMAIN stack[t] : stack[t] # <<>> /\ lock = t
  <2> SUFFICES ASSUME NEW t \in Threads, NEW i \in DOMAIN stack[t] PROVE stack[t] # <<>>
    BY DEF IInv, Locked
  <2> QED
    OBVIOUS
<1>4. \A u \in Underway : lock = u[1]
  BY <1>1, <1>3
<1>5. ASSUME NEW u \in Underway, NEW v \in Underway,
             stack[u[1]][u[2]].fn = stack[v[1]][v[2]].fn
      PROVE  u = v
  <2>1. PICK t \in Threads : \E i \in DOMAIN stack[t] : u = <<t, i>>
    BY <1>1
  <2>2. PICK w \in Threads : \E j \in DOMAIN stack[w] : v = <<w, j>>
    BY <1>1
  <2> PICK i \in DOMAIN stack[t] : u = <<t, i>>
    BY <2>1
  <2> PICK j \in DOMAIN stack[w] : v = <<w, j>>
    BY <2>2
  <2>3. t = w
    BY <1>3
  <2>4. i = j
    BY <1>5, <2>1, <2>2, <2>3 DEF IInv, Sound, Distinct
  <2> QED
    BY <2>1, <2>2, <2>3, <2>4
<1>6. ASSUME NEW f \in Functions
      PROVE  compiling[f] <=> \E u \in Underway : stack[u[1]][u[2]].fn = f
  <2>1. compiling[f] <=> \E t \in Threads : \E i \in DOMAIN stack[t] : stack[t][i].fn = f
    BY DEF IInv, Flags
  <2>2. (\E u \in Underway : stack[u[1]][u[2]].fn = f)
          => \E t \in Threads : \E i \in DOMAIN stack[t] : stack[t][i].fn = f
    BY <1>1
  <2>3. ASSUME NEW t \in Threads, NEW i \in DOMAIN stack[t], stack[t][i].fn = f
        PROVE  \E u \in Underway : stack[u[1]][u[2]].fn = f
    <3>1. <<t, i>> \in Underway /\ stack[<<t, i>>[1]][<<t, i>>[2]].fn = f
      BY <1>2, <2>3
    <3> QED
      BY <3>1
  <2> QED
    BY <2>1, <2>2, <2>3
<1> QED
  BY <1>4, <1>5, <1>6 DEF OneCompiler

(* A callee of a net that is lowered has its entry point, or stands on the *)
(* stack with a promise.                                                   *)
LEMMA GraftsHold == IInv => GraftsPossible
<1> SUFFICES ASSUME IInv, NEW t \in Threads, Compiles(t, "lower"),
                    NEW j \in DOMAIN Callees[Top(t).fn]
             PROVE  expansion[Callees[Top(t).fn][j]] # "none" /\ signed[Callees[Top(t).fn][j]]
  BY DEF GraftsPossible
<1> DEFINE s == stack[t]
           n == Len(s)
           f == Top(t).fn
           g == Callees[f][j]
<1>1. /\ s # <<>> /\ s \in Seq(Frames) /\ n \in Nat /\ DOMAIN s = 1..n /\ s[n] = Top(t)
      /\ Top(t).at = "lower"
  BY DEF Compiles, IInv, Types, Top
<1>2. /\ f \in Functions /\ Top(t) \in Frames /\ Prepared(Top(t)) /\ Answered(s, n)
  BY <1>1, TopFacts
<1>3. g \in Functions /\ j \in Nat /\ j <= Len(Callees[f]) /\ Len(Callees[f]) \in Nat
  BY <1>2, CalleeFunctions
<1>4. signed[g] /\ j < Top(t).next
  BY <1>1, <1>2, <1>3 DEF Prepared, Asking, Frames
<1>5. entry[g] \/ \E k \in 1..n : s[k].fn = g
  BY <1>1, <1>2, <1>4 DEF Answered, Asking
<1>6. CASE entry[g]
  BY <1>3, <1>4, <1>6 DEF IInv, Graftable
<1>7. ASSUME NEW k \in 1..n, s[k].fn = g
      PROVE  expansion[g] # "none"
  <2>1. Asking(s[k])
    <3>1. k = n \/ k < n
      BY <1>1
    <3> QED
      BY <1>1, <3>1 DEF IInv, Sound, Nested, Asking
  <2>2. Prepared(s[k])
    BY <1>1 DEF IInv, Sound
  <2> QED
    BY <1>7, <2>1, <2>2 DEF Prepared
<1> QED
  BY <1>4, <1>5, <1>6, <1>7

(* Only the thread that holds the lock compiles, nothing is compiled       *)
(* inside its own compilation, and _compiling says what is underway        *)
(* (ensure_compiled, inet.py).                                             *)
THEOREM OneCompilerAlways == Spec => []OneCompiler
<1> QED
  BY InitHolds, NextHolds, OneCompilerHolds, PTL DEF Spec

(* Whatever the functions call and whatever fails, each callee of a net    *)
(* that is lowered has a net or a promise, and a signature (_compile).     *)
THEOREM GraftsAlwaysPossible == Spec => []GraftsPossible
<1> QED
  BY InitHolds, NextHolds, GraftsHold, PTL DEF Spec

-----------------------------------------------------------------------------
(* What a step may do to a function that has its entry point. *)
Once == \A f \in Functions :
    entry[f] => entry'[f] /\ embeds'[f] = embeds[f] /\ (compiling'[f] => compiling[f])

LEMMA OnceHolds == IInv /\ [Next]_vars => Once
<1> SUFFICES ASSUME IInv, [Next]_vars PROVE Once
  OBVIOUS
<1>1. Types
  BY DEF IInv
<1>2. ASSUME UNCHANGED <<entry, embeds, compiling>>
      PROVE  Once
  BY <1>2 DEF Once
<1>3. ASSUME NEW t \in Threads, Acquire(t)
      PROVE  Once
  BY <1>1, <1>3 DEF Acquire, Types, Once
<1>4. ASSUME NEW t \in Threads, Callee(t)
      PROVE  Once
  <2> DEFINE g == Callees[Top(t).fn][Top(t).next]
  <2>1. /\ UNCHANGED <<entry, embeds>>
        /\ \/ UNCHANGED compiling
           \/ ~entry[g] /\ compiling' = [compiling EXCEPT ![g] = TRUE]
    BY <1>4 DEF Callee
  <2> HIDE DEF g
  <2> QED
    BY <1>1, <2>1 DEF Types, Once
<1>5. ASSUME NEW t \in Threads, Lower(t)
      PROVE  Once
  <2>1. ~entry[Top(t).fn]
    BY <1>5, TopFacts DEF Lower, Compiles, Entered
  <2> QED
    BY <1>1, <1>5, <2>1 DEF Lower, Types, Once
<1>6. ASSUME NEW t \in Threads, LeaveFrame(t)
      PROVE  Once
  <2>1. UNCHANGED <<entry, embeds>> /\ compiling' = [compiling EXCEPT ![Top(t).fn] = FALSE]
    BY <1>6 DEF LeaveFrame
  <2> QED
    BY <1>1, <2>1 DEF Types, Once
<1>7. ASSUME NEW t \in Threads,
             Call(t) \/ Check(t) \/ NoPromise(t) \/ Enter(t) \/ Graft(t) \/ Output(t)
      PROVE  Once
  BY <1>2, <1>7 DEF Call, Check, NoPromise, Enter, Graft, Output, state
<1>8. ASSUME NEW t \in Threads, Start(t) \/ Symbols(t) \/ AllAsked(t) \/ Fill(t) \/ Publish(t)
      PROVE  Once
  BY <1>2, <1>8 DEF Start, Symbols, AllAsked, Fill, Publish, state
<1>9. ASSUME NEW t \in Threads, Fail(t)
      PROVE  Once
  BY <1>2, <1>9 DEF Fail, Raise
<1>10. CASE UNCHANGED vars
  BY <1>2, <1>10 DEF vars, state
<1> QED
  BY <1>3, <1>4, <1>5, <1>6, <1>7, <1>8, <1>9, <1>10 DEF Next, CallStep, CompileStep, Idle

(* A function that has its entry point keeps it and its net, and is never  *)
(* compiled again, whatever fails and retries around it.                   *)
THEOREM CompiledOnceAlways == Spec => CompiledOnce
<1>1. IInv /\ [Next]_vars =>
        [\A f \in Functions :
            entry[f] => entry'[f] /\ embeds'[f] = embeds[f] /\ (compiling'[f] => compiling[f])]_vars
  BY OnceHolds DEF Once
<1> QED
  BY <1>1, InitHolds, NextHolds, PTL DEF Spec, CompiledOnce
=============================================================================
