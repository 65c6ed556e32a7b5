------------------------------- MODULE IrProgram -------------------------------
(***************************************************************************)
(* What the frontend computes from a function before it is lowered: the    *)
(* statements that are kept (frontend/ir/builder.py), the ways each        *)
(* statement list can end (frontend/ir/nodes.py), and the variables of the *)
(* function, which two walks collect independently: one over the source    *)
(* (frontend/symbols.py) and one over the built statements                 *)
(* (backend/lowering.py).                                                  *)
(*                                                                         *)
(* A statement has at most one expression, known by the name `at` and the  *)
(* variables it reads; `targets` are the names it binds, with tuples laid  *)
(* out flat.  Statements without an expression have at = "".               *)
(***************************************************************************)
EXTENDS Integers, Sequences, SequencesExt, FiniteSetsExt

Stmt(op, at, targets, reads) ==
    [op |-> op, at |-> at, targets |-> targets, reads |-> reads, body |-> <<>>, orelse |-> <<>>]

Assign(at, targets, reads) == Stmt("assign", at, targets, reads)
AugAssign(at, name, reads) == Stmt("augassign", at, <<name>>, reads \cup {name})
AnnAssign(at, name, reads) == Stmt("annassign", at, <<name>>, reads)
Declare(name) == Stmt("declare", "", <<name>>, {})
ExprStmt(at, reads) == Stmt("expr", at, <<>>, reads)
Return(at, reads) == Stmt("return", at, <<>>, reads)
Delete(name) == Stmt("delete", "", <<name>>, {})
Break == Stmt("break", "", <<>>, {})
Continue == Stmt("continue", "", <<>>, {})
Pass == Stmt("pass", "", <<>>, {})
If(at, reads, body, orelse) ==
    [Stmt("if", at, <<>>, reads) EXCEPT !.body = body, !.orelse = orelse]
While(at, reads, body, orelse) == [If(at, reads, body, orelse) EXCEPT !.op = "while"]
For(at, target, reads, body, orelse) ==
    [If(at, reads, body, orelse) EXCEPT !.op = "for", !.targets = <<target>>]

Loops == {"while", "for"}
Compounds == Loops \cup {"if"}
PlainExits == {"return", "break", "continue"}

-----------------------------------------------------------------------------
(* The builder drops pass and bare annotations. *)
Dropped(s) == s.op \in {"pass", "declare"}

RECURSIVE Build(_)
Build(stmts) ==
    LET kept == SelectSeq(stmts, LAMBDA s : ~Dropped(s))
    IN  [i \in DOMAIN kept |->
            [kept[i] EXCEPT !.body = Build(@), !.orelse = Build(@)]]

-----------------------------------------------------------------------------
(* The exit analysis: how a statement may end, "finish" being that the flow *)
(* returns to the enclosing list.                                           *)
LoopExitsUnpromoted(body, orelse) == (body \cap {"finish", "return"}) \cup orelse

LoopExits(body, orelse) ==
    (body \cap {"finish", "return"}) \cup orelse
        \cup (IF "break" \in body THEN {"finish"} ELSE {})

RECURSIVE Exits(_)

StmtExits(s) ==
    CASE s.op \in PlainExits -> {s.op}
      [] s.op = "if" -> Exits(s.body) \cup Exits(s.orelse)
      [] s.op \in Loops -> LoopExits(Exits(s.body), Exits(s.orelse))
      [] OTHER -> {"finish"}

Closes(s) == s.op \in PlainExits \/ (s.op \in Compounds /\ "finish" \notin StmtExits(s))

(* The index of the closer, behind the list when every statement falls     *)
(* through.                                                                *)
Closer(stmts) == Min({i \in DOMAIN stmts : Closes(stmts[i])} \cup {Len(stmts) + 1})

HasCloser(stmts) == Closer(stmts) <= Len(stmts)

Exits(stmts) ==
    LET ending == {i \in DOMAIN stmts :
                     i <= Closer(stmts) /\ stmts[i].op \in Compounds \cup PlainExits}
        exits == UNION {StmtExits(stmts[i]) : i \in ending}
    IN  IF exits = {} THEN {"finish"} ELSE exits

FunctionExitsOpen(stmts) == Exits(stmts)

(* A function that falls off its end returns None. *)
FunctionExits(stmts) ==
    LET exits == Exits(stmts)
    IN  IF "finish" \in exits THEN (exits \ {"finish"}) \cup {"return"} ELSE exits

(* Statements after the closer run all the same and must not exit. *)
RECURSIVE Accepted(_)
Accepted(stmts) ==
    /\ \A i \in DOMAIN stmts : Accepted(stmts[i].body) /\ Accepted(stmts[i].orelse)
    /\ \A i \in DOMAIN stmts : i > Closer(stmts) =>
          /\ stmts[i].op \notin PlainExits
          /\ stmts[i].op \in Compounds => StmtExits(stmts[i]) = {"finish"}

-----------------------------------------------------------------------------
(* The walk of the symbols collector over the source: variables in the     *)
(* order of their first binding, names that are read before they are bound *)
(* as globals, and whether a diagnostic was recorded.                      *)
Mark(found, name) ==
    IF name \in found.globals THEN [found EXCEPT !.ok = FALSE]
    ELSE IF name \in ToSet(found.names) THEN found
    ELSE [found EXCEPT !.names = Append(@, name)]

NoteNames(found, names) ==
    [found EXCEPT !.globals = @ \cup (names \ ToSet(found.names))]

RECURSIVE WalkSource(_, _)

VisitStmt(found, s) ==
    LET marked == IF s.op = "delete" THEN NoteNames(found, ToSet(s.targets))
                  ELSE FoldLeft(Mark, found, s.targets)
        declared == ToSet(marked.names) \ ToSet(found.names)
        early == s.op \in {"assign", "annassign"} /\ s.reads \cap declared # {}
        read == IF s.op = "augassign" THEN s.reads \ ToSet(s.targets) ELSE s.reads
        noted == NoteNames([marked EXCEPT !.ok = @ /\ ~early], read)
    IN  WalkSource(WalkSource(noted, s.body), s.orelse)

WalkSource(found, stmts) == FoldLeft(VisitStmt, found, stmts)

CollectSymbols(params, stmts) ==
    WalkSource([names |-> params, globals |-> {}, ok |-> TRUE], stmts)

(* The walk of the lowering over the built statements. *)
AddName(names, name) == IF name \in ToSet(names) THEN names ELSE Append(names, name)

RECURSIVE CollectFromStatements(_, _)

CollectBodyOnly(names, s) ==
    CollectFromStatements(FoldLeft(AddName, names, s.targets), s.body)

CollectFromStatement(names, s) ==
    CollectFromStatements(
        CollectFromStatements(FoldLeft(AddName, names, s.targets), s.body), s.orelse)

CollectFromStatements(names, stmts) == FoldLeft(CollectFromStatement, names, stmts)

CollectVariables(params, stmts) == CollectFromStatements(params, Build(stmts))
=============================================================================
