-------------------------- MODULE MyLanguageParser --------------------------
(***************************************************************************)
(* The recursive descent parser that ANTLR generated from MyLanguage.g4    *)
(* (src/AntlrTestProj/MyLanguageParser.cpp): one operator per rule         *)
(* function.  A rule takes the token sequence s and a result r, reads on   *)
(* from r.pos and returns the position it reached and the tree it built;   *)
(* ok turns FALSE where the code throws or reports a RecognitionException. *)
(* What the ANTLR runtime then does to recover is not modelled.            *)
(***************************************************************************)
EXTENDS MyLanguage, SequencesExt

At(pos) == [ok |-> TRUE, pos |-> pos, tree |-> <<>>]
Yield(r, tree) == [r EXCEPT !.tree = tree]
Fail(r) == [r EXCEPT !.ok = FALSE]

\* _input->LA(1)
LA(s, r) == IF r.ok /\ r.pos <= Len(s) THEN s[r.pos].type ELSE "EOF"
Match(s, r, type) == IF LA(s, r) = type THEN [r EXCEPT !.pos = @ + 1] ELSE Fail(r)
\* The token a match() has just consumed.
Consumed(s, r) == s[r.pos - 1]

\* The precedence each alternative of a left recursive rule asks for
\* (precpred(_ctx, k) in the rule's sempred function).
Alternatives ==
    [bitwiseor    |-> [BITOR |-> 2],
     bitwisexor   |-> [BITXOR |-> 2],
     bitwiseand   |-> [BITAND |-> 2],
     eqcomparison |-> [EQUAL |-> 3, NOTEQUAL |-> 2],
     comparison   |-> [LESS |-> 5, LESSEQUAL |-> 4, GREATER |-> 3, GREATEREQUAL |-> 2],
     shift        |-> [SHIFTLEFT |-> 3, SHIFTRIGHT |-> 2],
     summa        |-> [PLUS |-> 3, MINUS |-> 2],
     term         |-> [MULT |-> 4, DIV |-> 3, REM |-> 2]]

\* A call of the function of a rule.  All recursion of the parser goes through
\* P, which gives the result of each rule at each position (see Rules).
Rule(P, rule, r) == IF r.ok THEN P[rule, r.pos] ELSE Yield(r, <<>>)

\* Every rule is entered with precedence 0.
ContinuesAbove(rule, type) ==     \* mutant: the last alternative is never taken
    type \in DOMAIN Alternatives[rule] /\ Alternatives[rule][type] > 2
Continues(rule, type) ==
    type \in DOMAIN Alternatives[rule] /\ Alternatives[rule][type] >= 0

\* The rule that a left recursive rule calls for its operands.
Operand ==
    [bitwiseor |-> "bitwisexor", bitwisexor |-> "bitwiseand", bitwiseand |-> "eqcomparison",
     eqcomparison |-> "comparison", comparison |-> "shift", shift |-> "summa",
     summa |-> "term", term |-> "factor"]

\* The loop of a left recursive rule: it reads an operator and an operand at
\* a time, and what has been read so far becomes the left child of the next
\* context (pushNewRecursionContext).
LeftRecursive(rule, s, P, r) ==
    LET left == Rule(P, Operand[rule], r)
        Loop[pos \in 1..Len(s) + 1] ==
            LET op == LA(s, At(pos))
                right == Rule(P, Operand[rule], Match(s, At(pos), op))
                rest == IF right.ok THEN Loop[right.pos] ELSE Yield(right, <<>>)
            IN  IF Continues(rule, op)
                THEN Yield(rest, <<[op |-> op, right |-> right.tree]>> \o rest.tree)
                ELSE At(pos)
        loop == IF left.ok THEN Loop[left.pos] ELSE Yield(left, <<>>)
    IN  Yield(loop, FoldLeft(LAMBDA l, read : BinaryNode(rule, read.op, l, read.right),
                             left.tree, loop.tree))

Term(s, P, r) == LeftRecursive("term", s, P, r)
Summa(s, P, r) == LeftRecursive("summa", s, P, r)
Shift(s, P, r) == LeftRecursive("shift", s, P, r)
Comparison(s, P, r) == LeftRecursive("comparison", s, P, r)
Eqcomparison(s, P, r) == LeftRecursive("eqcomparison", s, P, r)
Bitwiseand(s, P, r) == LeftRecursive("bitwiseand", s, P, r)
Bitwisexor(s, P, r) == LeftRecursive("bitwisexor", s, P, r)
Bitwiseor(s, P, r) == LeftRecursive("bitwiseor", s, P, r)
Expr(s, P, r) == Rule(P, "bitwiseor", r)

Factor(s, P, r) ==
    LET op == LA(s, r)
        next == Match(s, r, op)
        arg == Rule(P, "factor", next)
        inner == Rule(P, "expr", next)
    IN  CASE op \in {"MINUS", "BITNOT"} -> Yield(arg, UnaryNode(op, arg.tree))
          [] op = "NUMBER" -> Yield(next, NumberNode(Consumed(s, next).value))
          [] op = "IDENT"  -> Yield(next, IdentNode(Consumed(s, next).name))
          [] op = "LPAR"   -> Match(s, inner, "RPAR")
          [] OTHER         -> Fail(r)

\* IDENT ASSIGN expr SEMICOLON, the tail of a declaration and an assignment;
\* the name is the second half of the pair.
Binding(s, P, r) ==
    LET name == Match(s, r, "IDENT")
        value == Match(s, Rule(P, "expr", Match(s, name, "ASSIGN")), "SEMICOLON")
    IN  <<value, IF name.ok THEN Consumed(s, name).name ELSE "">>

Var_decl_stmt(s, P, r) ==
    LET b == Binding(s, P, Match(s, r, "VAR"))
    IN  Yield(b[1], VarNode(b[2], b[1].tree))

Assign_stmt(s, P, r) ==
    LET b == Binding(s, P, r)
    IN  Yield(b[1], AssignNode(b[2], b[1].tree))

Print_stmt(s, P, r) ==
    LET arg == Rule(P, "expr", Match(s, Match(s, r, "PRINT"), "LPAR"))
    IN  Yield(Match(s, Match(s, arg, "RPAR"), "SEMICOLON"), PrintNode(arg.tree))

Call_stmt(s, P, r) ==
    LET name == Match(s, Match(s, r, "CALL"), "IDENT")
    IN  IF name.ok
        THEN Yield(Match(s, name, "SEMICOLON"), CallNode(Consumed(s, name).name))
        ELSE name

\* An ELSE belongs to the nearest IF.
If_stmt(s, P, r) ==
    LET cond == Rule(P, "expr", Match(s, Match(s, r, "IF"), "LPAR"))
        then == Rule(P, "stmt", Match(s, cond, "RPAR"))
        else == Rule(P, "stmt", Match(s, then, "ELSE"))
    IN  IF LA(s, then) = "ELSE"
        THEN Yield(else, IfNode(cond.tree, <<then.tree, else.tree>>))
        ELSE Yield(then, IfNode(cond.tree, <<then.tree>>))

While_stmt(s, P, r) ==
    LET cond == Rule(P, "expr", Match(s, Match(s, r, "WHILE"), "LPAR"))
        body == Rule(P, "stmt", Match(s, cond, "RPAR"))
    IN  Yield(body, WhileNode(cond.tree, body.tree))

\* LBRA stmts RBRA
Braced(s, P, r) == Match(s, Rule(P, "stmts", Match(s, r, "LBRA")), "RBRA")

Stmt(s, P, r) ==
    LET first == LA(s, r)
    IN  CASE first = "IF"    -> If_stmt(s, P, r)
          [] first = "WHILE" -> While_stmt(s, P, r)
          [] first = "VAR"   -> Var_decl_stmt(s, P, r)
          [] first = "IDENT" -> Assign_stmt(s, P, r)
          [] first = "PRINT" -> Print_stmt(s, P, r)
          [] first = "CALL"  -> Call_stmt(s, P, r)
          [] first = "LBRA"  -> LET b == Braced(s, P, r) IN Yield(b, BlockNode(b.tree))
          [] OTHER           -> Fail(r)

\* The bit mask 2147484092 of the loop's condition.
StmtFirst == {"CALL", "VAR", "PRINT", "IF", "WHILE", "LBRA", "IDENT"}

Stmts(s, P, r) ==
    LET one == Rule(P, "stmt", r)
        rest == Rule(P, "stmts", one)
    IN  IF LA(s, r) \in StmtFirst
        THEN Yield(rest, <<one.tree>> \o rest.tree)
        ELSE Yield(r, <<>>)

Func_decl(s, P, r) ==
    LET name == Match(s, Match(s, r, "FUNC"), "IDENT")
        body == Braced(s, P, name)
    IN  IF name.ok THEN Yield(body, FuncNode(Consumed(s, name).name, body.tree)) ELSE name

Top_level(s, P, r) ==
    CASE LA(s, r) = "FUNC" -> Func_decl(s, P, r)
      [] LA(s, r) = "VAR"  -> Var_decl_stmt(s, P, r)
      [] OTHER             -> Fail(r)

TopLevels(s, P, r) ==
    LET one == Top_level(s, P, r)
        rest == Rule(P, "top_levels", one)
    IN  IF LA(s, r) \in {"FUNC", "VAR"}
        THEN Yield(rest, <<one.tree>> \o rest.tree)
        ELSE Yield(r, <<>>)

\* The function of every rule, at every position of s.
Rules(s) ==
    LET P[rule \in DOMAIN Operand \cup {"top_levels", "stmts", "stmt", "expr", "factor"},
          pos \in 1..Len(s) + 1] ==
          CASE rule = "top_levels"   -> TopLevels(s, P, At(pos))
            [] rule = "stmts"        -> Stmts(s, P, At(pos))
            [] rule = "stmt"         -> Stmt(s, P, At(pos))
            [] rule = "expr"         -> Expr(s, P, At(pos))
            [] rule = "bitwiseor"    -> Bitwiseor(s, P, At(pos))
            [] rule = "bitwisexor"   -> Bitwisexor(s, P, At(pos))
            [] rule = "bitwiseand"   -> Bitwiseand(s, P, At(pos))
            [] rule = "eqcomparison" -> Eqcomparison(s, P, At(pos))
            [] rule = "comparison"   -> Comparison(s, P, At(pos))
            [] rule = "shift"        -> Shift(s, P, At(pos))
            [] rule = "summa"        -> Summa(s, P, At(pos))
            [] rule = "term"         -> Term(s, P, At(pos))
            [] rule = "factor"       -> Factor(s, P, At(pos))
    IN  P

\* prog does not ask for the end of the input: it stops in front of the
\* first token that starts no top_level, and what follows is ignored.
Prog(s) ==
    LET items == Rules(s)["top_levels", 1]
    IN  Yield(items, ProgNode(items.tree))
=============================================================================
