----------------------------- MODULE MyLanguage -----------------------------
(***************************************************************************)
(* Tokens and parse tree nodes of the language that src/AntlrTestProj      *)
(* compiles.  A token is what the lexer delivers; a node is a rule context *)
(* of MyLanguageParser.h, with the children its accessors return.  The     *)
(* contexts that only pass a single child on (expr, and a binary rule      *)
(* without its operator) are elided: every visitor method hands them on    *)
(* unchanged.                                                              *)
(***************************************************************************)
EXTENDS Naturals, Sequences

\* Keywords, punctuation and operators, by the token's name.
Token(type) == [type |-> type, name |-> "", value |-> 0]
IdentToken(name) == [type |-> "IDENT", name |-> name, value |-> 0]
NumberToken(value) == [type |-> "NUMBER", name |-> "", value |-> value]

ProgNode(items) == [kind |-> "prog", items |-> items]
FuncNode(name, body) == [kind |-> "func_decl", name |-> name, body |-> body]
\* The alternative LBRA stmts RBRA of stmt.
BlockNode(body) == [kind |-> "stmts", body |-> body]
\* body holds one statement, or two when there is an ELSE.
IfNode(cond, body) == [kind |-> "if_stmt", cond |-> cond, body |-> body]
WhileNode(cond, body) == [kind |-> "while_stmt", cond |-> cond, body |-> <<body>>]
CallNode(name) == [kind |-> "call_stmt", name |-> name]
VarNode(name, expr) == [kind |-> "var_decl_stmt", name |-> name, expr |-> expr]
AssignNode(name, expr) == [kind |-> "assign_stmt", name |-> name, expr |-> expr]
PrintNode(expr) == [kind |-> "print_stmt", expr |-> expr]

\* A binary rule with its operator token: bitwiseor, bitwisexor, bitwiseand,
\* eqcomparison, comparison, shift, summa or term.
BinaryNode(rule, op, left, right) ==
    [kind |-> rule, op |-> op, left |-> left, right |-> right]
\* The alternatives of factor.
UnaryNode(op, arg) == [kind |-> "unary", op |-> op, arg |-> arg]
NumberNode(value) == [kind |-> "number", value |-> value]
IdentNode(name) == [kind |-> "ident", name |-> name]

BinaryRules == {"bitwiseor", "bitwisexor", "bitwiseand", "eqcomparison",
                "comparison", "shift", "summa", "term"}

StmtKinds == {"stmts", "if_stmt", "while_stmt", "call_stmt", "var_decl_stmt",
              "assign_stmt", "print_stmt"}
ExprKinds == BinaryRules \cup {"unary", "number", "ident"}

\* The tokens that MyLanguage.g4 lets a binary rule have as its operator.
OperatorsOf ==
    [bitwiseor |-> {"BITOR"}, bitwisexor |-> {"BITXOR"}, bitwiseand |-> {"BITAND"},
     eqcomparison |-> {"EQUAL", "NOTEQUAL"},
     comparison |-> {"LESS", "LESSEQUAL", "GREATER", "GREATEREQUAL"},
     shift |-> {"SHIFTLEFT", "SHIFTRIGHT"}, summa |-> {"PLUS", "MINUS"},
     term |-> {"MULT", "DIV", "REM"}]

\* The contexts of a set of trees: the children are contexts of the set too,
\* of the kinds that the rule has in MyLanguage.g4.
WellFormed(nodes) ==
    LET Of(kinds) == {n \in nodes : n.kind \in kinds}
        stmts == Of(StmtKinds)
        exprs == Of(ExprKinds)
    IN  /\ \A n \in Of({"prog"}) : n.items \in Seq(Of({"var_decl_stmt", "func_decl"}))
        /\ \A n \in Of({"func_decl", "stmts"}) : n.body \in Seq(stmts)
        /\ \A n \in Of({"if_stmt"}) :
              n.cond \in exprs /\ n.body \in Seq(stmts) /\ Len(n.body) \in {1, 2}
        /\ \A n \in Of({"while_stmt"}) :
              n.cond \in exprs /\ n.body \in Seq(stmts) /\ Len(n.body) = 1
        /\ \A n \in Of({"var_decl_stmt", "assign_stmt", "print_stmt"}) : n.expr \in exprs
        /\ \A n \in Of(BinaryRules) :
              n.op \in OperatorsOf[n.kind] /\ n.left \in exprs /\ n.right \in exprs
        /\ \A n \in Of({"unary"}) : n.op \in {"MINUS", "BITNOT"} /\ n.arg \in exprs
=============================================================================
