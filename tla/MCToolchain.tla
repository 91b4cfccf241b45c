---------------------------- MODULE MCToolchain -----------------------------
(***************************************************************************)
(* Toolchain on a library of programs, at words of 16 bits (immediates of  *)
(* 6 bits).  Meaning says what each program should do.                     *)
(***************************************************************************)
EXTENDS Toolchain

M == INSTANCE LanguageMeaning

N(value) == NumberNode(value)
V(name) == IdentNode(name)
RuleOf(op) == CHOOSE rule \in BinaryRules : op \in DOMAIN Alternatives[rule]
Bin(left, op, right) == BinaryNode(RuleOf(op), op, left, right)
Main(body) == FuncNode("main", body)
Prints(expr) == ProgNode(<<Main(<<PrintNode(expr)>>)>>)

-----------------------------------------------------------------------------
\* Every pair of operators, nested on the left and on the right.  For | and
\* ^, where the code emits AND, see OrXorInputs.
Operators == UNION {DOMAIN Alternatives[rule] : rule \in BinaryRules} \ {"BITOR", "BITXOR"}

Nested ==
    {Bin(Bin(N(23), p, N(3)), q, N(2)) : p, q \in Operators}
      \cup {Bin(N(23), p, Bin(N(9), q, N(2))) : p, q \in Operators}
DividesByZero(e) ==
    \/ e.op \in {"DIV", "REM"} /\ M!Eval(e.right, <<>>) = 0
    \/ e.left.kind # "number" /\ e.left.op \in {"DIV", "REM"} /\ M!Eval(e.left.right, <<>>) = 0
    \/ e.right.kind # "number" /\ e.right.op \in {"DIV", "REM"} /\ M!Eval(e.right.right, <<>>) = 0
ExpressionPrograms == {Prints(e) : e \in {n \in Nested : ~DividesByZero(n)}}

\* Negative words, and the operands on which AND happens to be right.
Minus(e) == UnaryNode("MINUS", e)
BitNot(e) == UnaryNode("BITNOT", e)
UnaryPrograms ==
    {Prints(e) : e \in
        {Bin(Minus(N(5)), op, N(2)) : op \in {"LESS", "GREATEREQUAL", "DIV", "SHIFTRIGHT", "MULT"}}
          \cup {Minus(BitNot(Minus(N(1)))), BitNot(Bin(N(1), "PLUS", V("x"))),
                Bin(N(5), "BITOR", N(5)), Bin(N(0), "BITXOR", N(0))}}

-----------------------------------------------------------------------------
Inc(name, k) == AssignNode(name, Bin(V(name), "PLUS", N(k)))

\* Three variables of one block are freed in any order and taken again by
\* the next; the outer ones must keep their values.
Blocks ==
    ProgNode(<<Main(<<
        VarNode("a", N(1)),
        IfNode(V("a"), <<BlockNode(<<VarNode("x", N(2)), VarNode("y", N(3)), VarNode("z", N(4)),
                                     PrintNode(Bin(V("x"), "PLUS", Bin(V("y"), "MULT", V("z"))))>>)>>),
        VarNode("b", N(5)),
        IfNode(N(0), <<VarNode("x", N(6)),
                       BlockNode(<<VarNode("u", N(7)), VarNode("a", N(8)),
                                   Inc("a", 1), AssignNode("u", V("a")), PrintNode(V("u"))>>)>>),
        VarNode("c", N(9)),
        PrintNode(Bin(V("a"), "PLUS", Bin(V("b"), "MULT", V("c"))))>>)>>)

\* A dangling else, in both senses.
Choice(a, b) ==
    ProgNode(<<VarNode("a", N(a)), VarNode("b", N(b)),
               Main(<<IfNode(V("a"), <<IfNode(V("b"), <<PrintNode(N(1)), PrintNode(N(2))>>)>>),
                      IfNode(V("a"), <<BlockNode(<<IfNode(V("b"), <<PrintNode(N(3))>>)>>),
                                       PrintNode(N(4))>>)>>)>>)

\* A loop whose body declares variables, one of them hiding the counter.
Loop ==
    ProgNode(<<Main(<<
        VarNode("n", N(3)), VarNode("sum", N(0)),
        WhileNode(Bin(V("n"), "GREATER", N(0)), BlockNode(<<
            VarNode("t", Bin(V("n"), "MULT", V("n"))),
            IfNode(Bin(V("t"), "REM", N(2)), <<BlockNode(<<VarNode("n", V("t")), PrintNode(V("n"))>>)>>),
            AssignNode("sum", Bin(V("sum"), "PLUS", V("t"))),
            AssignNode("n", Bin(V("n"), "MINUS", N(1)))>>)),
        PrintNode(V("sum"))>>)>>)

\* The recursion of input.myLang: arguments and results go through globals,
\* local variables of each call have to survive the calls below it.
Fib(n) ==
    ProgNode(<<
        Main(<<AssignNode("arg", N(n)), CallNode("fib"), PrintNode(V("ret"))>>),
        VarNode("arg", N(0)),
        FuncNode("fib", <<
            VarNode("local", V("arg")), VarNode("ans", N(0)),
            IfNode(Bin(V("local"), "LESSEQUAL", N(2)), <<AssignNode("ret", N(1)),
                BlockNode(<<AssignNode("arg", Bin(V("local"), "MINUS", N(1))), CallNode("fib"),
                            AssignNode("ans", V("ret")),
                            AssignNode("arg", Bin(V("local"), "MINUS", N(2))), CallNode("fib"),
                            AssignNode("ret", Bin(V("ans"), "PLUS", V("ret")))>>)>>)>>),
        VarNode("ret", Bin(V("arg"), "PLUS", N(7)))>>)

\* A global hidden by a local of the same name, and seen by a callee.
Hiding ==
    ProgNode(<<
        VarNode("g", N(1)),
        FuncNode("show", <<PrintNode(V("g")), Inc("g", 10)>>),
        Main(<<VarNode("g", N(5)), CallNode("show"), PrintNode(V("g")),
               Inc("g", 1), CallNode("show"), PrintNode(V("g"))>>)>>)

RightPrograms ==
    {Blocks, Loop, Hiding} \cup {Choice(a, b) : a, b \in {0, 1}} \cup {Fib(n) : n \in {1, 4}}

-----------------------------------------------------------------------------
WrongBodies ==
    {<<PrintNode(V("x"))>>,                                  \* never declared
     <<AssignNode("x", N(1))>>,
     <<IfNode(N(1), <<VarNode("x", N(1))>>), PrintNode(V("x"))>>,   \* out of scope
     <<VarNode("x", N(1)), VarNode("x", N(2))>>,              \* declared twice
     <<BlockNode(<<VarNode("x", N(1))>>), BlockNode(<<VarNode("x", N(2))>>)>>,
     <<CallNode("nobody")>>,
     <<PrintNode(N(2^15))>>}

WrongPrograms ==
    {ProgNode(<<Main(b)>>) : b \in WrongBodies}
      \cup {ProgNode(<<VarNode("a", V("b")), VarNode("b", N(1)), Main(<<>>)>>),
            ProgNode(<<FuncNode("f", <<>>)>>),
            ProgNode(<<Main(<<>>), Main(<<>>)>>)}

\* More words than the memory holds.
Long == ProgNode(<<Main([i \in 1..40 |-> PrintNode(N(i))])>>)

-----------------------------------------------------------------------------
Written(p) ==
    LET meaning == M!Meaning(p)
    IN  [tree |-> p, text |-> M!Text(p), error |-> meaning.error, output |-> meaning.output]

\* What follows the last top_level is ignored.
Trailing ==
    {[Written(Hiding) EXCEPT !.text = @ \o <<Token("RBRA"), Token("PRINT"), IdentToken("x")>>]}

\* A text without one of its tokens.
Broken(p, i) ==
    LET text == M!Text(p)
    IN  [tree |-> <<>>, text |-> SubSeq(text, 1, i - 1) \o SubSeq(text, i + 1, Len(text)),
         error |-> FALSE, output |-> <<>>]
BrokenTexts == {Broken(Hiding, i) : i \in {2, 4, 5, 8, 11, 13, 14, 20, 28}}

MCInputs ==
    {Written(p) : p \in ExpressionPrograms \cup UnaryPrograms \cup RightPrograms
                          \cup WrongPrograms \cup {Long}}
      \cup Trailing \cup BrokenTexts

\* Every pair of small operands of | and ^.
OrXorInputs ==
    {Written(Prints(Bin(N(a), op, N(b)))) : op \in {"BITOR", "BITXOR"}, a, b \in 0..3}

\* The contexts of all the trees.
RECURSIVE ContextsOf(_)
ContextsOf(n) ==
    LET ofAll(s) == UNION {ContextsOf(s[i]) : i \in DOMAIN s}
    IN  {n} \cup
        CASE n.kind = "prog"                                  -> ofAll(n.items)
          [] n.kind \in {"func_decl", "stmts"}                -> ofAll(n.body)
          [] n.kind \in {"if_stmt", "while_stmt"}             -> ofAll(<<n.cond>> \o n.body)
          [] n.kind \in {"var_decl_stmt", "assign_stmt", "print_stmt"} -> ContextsOf(n.expr)
          [] n.kind = "unary"                                 -> ContextsOf(n.arg)
          [] n.kind \in BinaryRules                           -> ofAll(<<n.left, n.right>>)
          [] OTHER                                            -> {}

MCNodes == UNION {ContextsOf(i.tree) : i \in {j \in MCInputs \cup OrXorInputs : j.tree # <<>>}}

PowersOfTwo == [n \in 0..ImmBits + 10 |-> 2^n]
BitAnd(a, b) == M!Apply("BITAND", a, b)
BitOr(a, b) == M!Apply("BITOR", a, b)
BitXor(a, b) == M!Apply("BITXOR", a, b)
=============================================================================
