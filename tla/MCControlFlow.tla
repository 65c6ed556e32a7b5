----------------------------- MODULE MCControlFlow -----------------------------
(* Functions after tests/backend/test_if_lowering.py, test_loop_lowering.py *)
(* and test_lowering_oracle.py, README.md and tests/test_inet.py.           *)
EXTENDS ControlFlow

Program(body, oracles) == [params |-> <<"x">>, body |-> body, oracles |-> oracles]
X == {"x"}

(* if: assigns in a branch, returns early in the other one, or raises. *)
Branches == Program(
    <<Assign("a", <<"x">>, X),
      If("t", X, <<Assign("b", <<"x", "y">>, X)>>, <<If("u", X, <<Return("r", X)>>, <<Pass>>)>>),
      Return("s", X)>>,
    [{"t", "u"} -> {"true", "false", "raise"}] \cup {"a" :> "raise"})

(* Both branches return; what stands behind is never reached. *)
BothReturn == Program(
    <<If("t", X, <<Return("r", X)>>, <<Declare("y"), Assign("a", <<"y", "x">>, X), Return("s", X)>>),
      ExprStmt("e", X)>>,
    [{"t"} -> {"true", "false"}])

(* Statements behind a return run all the same; a variable is deleted on   *)
(* one path only.                                                          *)
Deleting == Program(
    <<If("t", X, <<Delete("x"), Assign("b", <<"z">>, {})>>, <<AnnAssign("c", "y", X)>>),
      Return("r", X), Assign("a", <<"x">>, X), ExprStmt("e", X)>>,
    [{"t", "a"} -> {"true", "false", "raise"}])

(* A while loop with continue, break and an else clause. *)
Looping == Program(
    <<While("w", X,
        <<If("t", X, <<Continue>>, <<>>),
          AugAssign("a", "x", {}),
          If("u", X, <<Break>>, <<>>)>>,
        <<Assign("e", <<"x">>, X)>>),
      Return("r", X)>>,
    {("w" :> w @@ "t" :> t @@ "u" :> u) : w \in {"false", "once", "twice", "raiselater"},
        t \in {"true", "false", "later"}, u \in {"false", "once", "later"}})

(* A search: the loop binds x, returns from the middle, or falls through. *)
Searching == Program(
    <<For("i", "x", {},
        <<If("t", X, <<Return("r", X)>>, <<ExprStmt("g", X)>>), Assign("a", <<"y">>, X)>>,
        <<If("u", X, <<Return("s", X)>>, <<>>)>>),
      Return("v", X)>>,
    {("i" :> i @@ "t" :> t @@ "u" :> u) : i \in {"false", "once", "twice"},
        t \in {"true", "false", "later"}, u \in {"true", "false"}})

(* A loop that finishes by break only, and a function that falls off its end. *)
Finding == Program(
    <<For("i", "x", {}, <<If("t", X, <<Break>>, <<Continue>>)>>, <<Return("s", X)>>),
      Assign("e", <<"x">>, X)>>,
    {("i" :> i @@ "t" :> t) : i \in {"false", "twice"}, t \in {"true", "false", "later"}})

(* The else clause of the inner loop breaks the outer one. *)
ElseBreak == Program(
    <<For("i", "x", {},
        <<For("j", "x", {}, <<If("t", X, <<Break>>, <<>>)>>, <<Break>>),
          ExprStmt("e", {}), Return("c", {})>>,
        <<>>),
      Return("r", X)>>,
    {("i" :> "twice" @@ "j" :> j @@ "t" :> t) : j \in {"false", "once", "twice"},
        t \in {"true", "false", "later"}})

(* A loop in a loop: the inner one breaks, the outer one may go on. *)
Nested == Program(
    <<For("i", "x", {},
        <<For("j", "x", {}, <<If("t", X, <<Break>>, <<Assign("a", <<"x">>, X)>>)>>, <<>>),
          If("u", X, <<Break>>, <<>>)>>,
        <<>>),
      Return("r", X)>>,
    {("i" :> i @@ "j" :> j @@ "t" :> t @@ "u" :> u) : i \in {"once", "twice"},
        j \in {"once", "outer"}, t \in {"true", "false", "outer"}, u \in {"false", "later", "outer"}})

(* A loop in a branch of a loop's else clause, and a loop that need not end. *)
Endless == Program(
    <<If("t", X, <<While("w", X, <<AugAssign("a", "x", {})>>, <<Return("q", X)>>)>>,
                 <<While("v", {}, <<ExprStmt("e", X)>>, <<>>)>>),
      Return("r", X)>>,
    {("t" :> t @@ "w" :> w @@ "v" :> v) : t \in {"true", "false"}, w \in {"true", "once"},
        v \in {"true", "twice"}})

(* A loop that goes on from the else clause of an inner one. *)
ElseContinue == Program(
    <<While("w", X,
        <<AugAssign("a", "x", {}),
          While("v", X, <<AugAssign("b", "x", {})>>, <<Continue>>),
          Return("c", {})>>,
        <<>>),
      Return("r", X)>>,
    {"w" :> "twice" @@ "v" :> "once"})

ElseContinuePrograms == {ElseContinue}

(* The first example of README.md. *)
ShiftListBySmallest ==
    [params |-> <<"l">>, oracles |-> {"n" :> "false" @@ "v" :> "once" @@ "lt" :> "false"},
     body |->
        <<If("n", {"l"}, <<Return("empty", {})>>, <<>>),
          Declare("smallest"), AnnAssign("acc", "smallest_acc", {"l"}),
          AnnAssign("res", "result", {}),
          For("v", "v", {"l"},
              <<If("lt", {"v", "smallest_acc"}, <<Assign("min", <<"smallest_acc">>, {"v"})>>, <<>>),
                ExprStmt("print", {"smallest"}), ExprStmt("app", {"result", "v", "smallest"})>>,
              <<>>),
          Assign("set", <<"smallest">>, {"smallest_acc"}), Return("r", {"result"})>>]

ReadmePrograms == {ShiftListBySmallest}

MCPrograms == {Branches, BothReturn, Deleting, Looping, Searching, Finding, ElseBreak,
               Nested, Endless}
=============================================================================
