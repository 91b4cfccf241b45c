--------------------------- MODULE LanguageMeaning --------------------------
(***************************************************************************)
(* What a program of MyLanguage means, told without its compiler: which    *)
(* programs are in error, and which words the others print.  Functions     *)
(* share the globals; a call, and each branch of an if or a while, opens a *)
(* scope of names; braces open none.  Words wrap at WordBits bits, / % and *)
(* >> read them unsigned, the comparisons signed.                          *)
(***************************************************************************)
EXTENDS MyLanguage, Integers, FiniteSets
LOCAL INSTANCE Bitwise

CONSTANT WordBits

Wrap(n) == n % 2^WordBits
Signed(w) == IF w >= 2^(WordBits - 1) THEN w - 2^WordBits ELSE w
Truth(b) == IF b THEN 1 ELSE 0

Apply(op, a, b) ==
    CASE op = "BITOR"  -> a | b
      [] op = "BITXOR" -> a ^^ b
      [] op = "BITAND" -> a & b
      [] op = "EQUAL"    -> Truth(a = b)
      [] op = "NOTEQUAL" -> Truth(a # b)
      [] op = "LESS"         -> Truth(Signed(a) < Signed(b))
      [] op = "LESSEQUAL"    -> Truth(Signed(a) <= Signed(b))
      [] op = "GREATER"      -> Truth(Signed(a) > Signed(b))
      [] op = "GREATEREQUAL" -> Truth(Signed(a) >= Signed(b))
      [] op = "SHIFTLEFT"  -> IF b < WordBits THEN Wrap(a * 2^b) ELSE 0
      [] op = "SHIFTRIGHT" -> IF b < WordBits THEN a \div 2^b ELSE 0
      [] op = "PLUS"  -> Wrap(a + b)
      [] op = "MINUS" -> Wrap(a - b)
      [] op = "MULT"  -> Wrap(Signed(a) * Signed(b))
      [] op = "DIV"   -> a \div b
      [] op = "REM"   -> a % b

ItemsOf(p, kind) == SelectSeq(p.items, LAMBDA item : item.kind = kind)
FunctionNames(p) == {ItemsOf(p, "func_decl")[i].name : i \in DOMAIN ItemsOf(p, "func_decl")}
Function(p, name) ==
    CHOOSE f \in {p.items[i] : i \in DOMAIN p.items} :
        f.kind = "func_decl" /\ f.name = name

-----------------------------------------------------------------------------
\* Static errors.  A scope is a set of names, the innermost last; a check
\* returns the scopes after the statement, or <<>> when it is in error.

RECURSIVE LeavesOf(_), Checked(_, _, _), CheckedAll(_, _, _)

LeavesOf(e) ==
    CASE e.kind \in {"number", "ident"} -> {e}
      [] e.kind = "unary"               -> LeavesOf(e.arg)
      [] OTHER                          -> LeavesOf(e.left) \cup LeavesOf(e.right)

\* The names an expression reads are in scope, its constants fit a word
\* without its top bit.
FineIn(e, names) ==
    \A l \in LeavesOf(e) :
        IF l.kind = "ident" THEN l.name \in names ELSE l.value < 2^(WordBits - 1)

Known(scopes) == UNION {scopes[i] : i \in DOMAIN scopes}
InnerScope(scopes) == Append(scopes, {})

Checked(p, s, scopes) ==
    LET Fine(e) == FineIn(e, Known(scopes))
        here == Len(scopes)
        Branches ==
            \A i \in DOMAIN s.body : Checked(p, s.body[i], InnerScope(scopes)) # <<>>
        declared == [scopes EXCEPT ![here] = @ \cup {s.name}]
    IN  CASE s.kind = "print_stmt" -> IF Fine(s.expr) THEN scopes ELSE <<>>
          [] s.kind = "call_stmt" -> IF s.name \in FunctionNames(p) THEN scopes ELSE <<>>
          [] s.kind = "assign_stmt" ->
               IF s.name \in Known(scopes) /\ Fine(s.expr) THEN scopes ELSE <<>>
          [] s.kind = "var_decl_stmt" ->
               IF s.name \notin scopes[here] /\ FineIn(s.expr, Known(declared))
               THEN declared ELSE <<>>
          [] s.kind = "stmts" -> CheckedAll(p, s.body, scopes)
          [] OTHER -> IF Fine(s.cond) /\ Branches THEN scopes ELSE <<>>

CheckedAll(p, stmts, scopes) ==
    IF stmts = <<>> \/ scopes = <<>> THEN scopes
    ELSE CheckedAll(p, Tail(stmts), Checked(p, Head(stmts), scopes))

InError(p) ==
    LET globals == CheckedAll(p, ItemsOf(p, "var_decl_stmt"), <<{}>>)
        functions == ItemsOf(p, "func_decl")
    IN  \/ globals = <<>>
        \/ "main" \notin FunctionNames(p)
        \/ Cardinality(FunctionNames(p)) < Len(functions)
        \/ \E i \in DOMAIN functions :
              CheckedAll(p, functions[i].body, InnerScope(globals)) = <<>>

-----------------------------------------------------------------------------
\* Running a program.  A scope maps names to words; a run state has the
\* scopes, the globals first, and the words printed.

RECURSIVE Eval(_, _), Run(_, _, _), RunAll(_, _, _)

ScopeOf(scopes, name) ==
    CHOOSE i \in DOMAIN scopes :
        /\ name \in DOMAIN scopes[i]
        /\ \A j \in DOMAIN scopes : name \in DOMAIN scopes[j] => j <= i

Eval(e, scopes) ==
    CASE e.kind = "number" -> e.value
      [] e.kind = "ident"  -> scopes[ScopeOf(scopes, e.name)][e.name]
      [] e.kind = "unary"  -> IF e.op = "MINUS" THEN Wrap(-Eval(e.arg, scopes))
                              ELSE 2^WordBits - 1 - Eval(e.arg, scopes)
      [] OTHER -> Apply(e.op, Eval(e.left, scopes), Eval(e.right, scopes))

Bind(scopes, i, name, value) ==
    [scopes EXCEPT ![i] = [n \in DOMAIN @ \cup {name} |-> IF n = name THEN value ELSE @[n]]]
NoNames == [n \in {} |-> 0]

\* The statement in a scope of its own.
InScope(p, s, st) ==
    LET r == Run(p, s, [st EXCEPT !.scopes = Append(@, NoNames)])
    IN  [r EXCEPT !.scopes = SubSeq(@, 1, Len(st.scopes))]

Run(p, s, st) ==
    LET Value(e) == Eval(e, st.scopes)
        globalsOnly == [st EXCEPT !.scopes = <<@[1], NoNames>>]
    IN  CASE s.kind = "print_stmt" -> [st EXCEPT !.output = Append(@, Value(s.expr))]
          [] s.kind = "assign_stmt" ->
               [st EXCEPT !.scopes = Bind(@, ScopeOf(@, s.name), s.name, Value(s.expr))]
          [] s.kind = "var_decl_stmt" ->
               [st EXCEPT !.scopes = Bind(@, Len(@), s.name, Value(s.expr))]
          [] s.kind = "call_stmt" ->
               LET r == RunAll(p, Function(p, s.name).body, globalsOnly)
               IN  [r EXCEPT !.scopes = [st.scopes EXCEPT ![1] = r.scopes[1]]]
          [] s.kind = "stmts" -> RunAll(p, s.body, st)
          [] s.kind = "if_stmt" ->
               IF Value(s.cond) # 0 THEN InScope(p, s.body[1], st)
               ELSE IF Len(s.body) = 2 THEN InScope(p, s.body[2], st) ELSE st
          [] s.kind = "while_stmt" ->
               IF Value(s.cond) # 0 THEN Run(p, s, InScope(p, s.body[1], st)) ELSE st

RunAll(p, stmts, st) ==
    IF stmts = <<>> THEN st ELSE RunAll(p, Tail(stmts), Run(p, Head(stmts), st))

\* Of a program that ends.
Meaning(p) ==
    IF InError(p) THEN [error |-> TRUE, output |-> <<>>]
    ELSE LET globals == RunAll(p, ItemsOf(p, "var_decl_stmt"),
                               [scopes |-> <<NoNames>>, output |-> <<>>])
             end == RunAll(p, <<CallNode("main")>>, globals)
         IN  [error |-> FALSE, output |-> end.output]

-----------------------------------------------------------------------------
\* The text of a tree, with no parenthesis that the precedences of
\* MyLanguage.g4 make needless.

RECURSIVE ExprText(_, _), StmtText(_), StmtsText(_)

Ranks == <<"bitwiseor", "bitwisexor", "bitwiseand", "eqcomparison", "comparison",
           "shift", "summa", "term">>
RankOf(rule) == CHOOSE i \in DOMAIN Ranks : Ranks[i] = rule
Parens(text) == <<Token("LPAR")>> \o text \o <<Token("RPAR")>>

\* e where the grammar wants a rule of this rank or a tighter one.
ExprText(e, rank) ==
    CASE e.kind = "number" -> <<NumberToken(e.value)>>
      [] e.kind = "ident"  -> <<IdentToken(e.name)>>
      [] e.kind = "unary"  -> <<Token(e.op)>> \o ExprText(e.arg, 9)
      [] OTHER ->
           LET own == RankOf(e.kind)
               text == ExprText(e.left, own) \o <<Token(e.op)>> \o ExprText(e.right, own + 1)
           IN  IF own < rank THEN Parens(text) ELSE text

StmtText(s) ==
    LET Cond == Parens(ExprText(s.cond, 1))
        Line(start) == start \o <<Token("ASSIGN")>> \o ExprText(s.expr, 1) \o <<Token("SEMICOLON")>>
        Braced == <<Token("LBRA")>> \o StmtsText(s.body) \o <<Token("RBRA")>>
    IN  CASE s.kind = "var_decl_stmt" -> Line(<<Token("VAR"), IdentToken(s.name)>>)
          [] s.kind = "assign_stmt" -> Line(<<IdentToken(s.name)>>)
          [] s.kind = "print_stmt" ->
               <<Token("PRINT")>> \o Parens(ExprText(s.expr, 1)) \o <<Token("SEMICOLON")>>
          [] s.kind = "call_stmt" -> <<Token("CALL"), IdentToken(s.name), Token("SEMICOLON")>>
          [] s.kind = "stmts" -> Braced
          [] s.kind = "func_decl" -> <<Token("FUNC"), IdentToken(s.name)>> \o Braced
          [] s.kind = "while_stmt" -> <<Token("WHILE")>> \o Cond \o StmtText(s.body[1])
          [] s.kind = "if_stmt" ->
               <<Token("IF")>> \o Cond \o StmtText(s.body[1])
                 \o (IF Len(s.body) = 2 THEN <<Token("ELSE")>> \o StmtText(s.body[2]) ELSE <<>>)

StmtsText(stmts) ==
    IF stmts = <<>> THEN <<>> ELSE StmtText(Head(stmts)) \o StmtsText(Tail(stmts))

Text(p) == StmtsText(p.items)
=============================================================================
