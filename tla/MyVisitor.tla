----------------------------- MODULE MyVisitor ------------------------------
(***************************************************************************)
(* The visitor that walks a parse tree and drives the allocator, the label *)
(* generator and the code generator (MyVisitor.h).  The C++ call stack is  *)
(* the variable work: a step takes the method on top of it, does what the  *)
(* method does up to its next nested visit, and leaves in its place the    *)
(* visits it makes and the rest of the method.                             *)
(***************************************************************************)
EXTENDS MyLanguage, VariableAllocator, CodeGenerator, TLC

CONSTANT Nodes      \* the contexts of the parse trees in play
ASSUME NodesAssumption == WellFormed(Nodes)

Programs == {node \in Nodes : node.kind = "prog"}

VARIABLES
    work,           \* what is still to be done, the innermost call first
    mAllocators,    \* the globals, and the frame of the current function
    mCodeGen,
    counter,        \* LabelGenerator::counter
    status          \* "idle", "visiting", "compiled", or "failed" by a throw

visitorVars == <<work, mAllocators, mCodeGen, counter, status>>

VisitorInit ==
    /\ work = <<>>
    /\ mAllocators = <<NewAllocator(200, "GLOBAL")>>
    /\ mCodeGen = NewCodeGenerator
    /\ counter = 0
    /\ status = "idle"

\* LabelGenerator::next.  A name of the source may look the same.
Label(n) == "L" \o ToString(n)

-----------------------------------------------------------------------------
\* Entries of work: the visit of a node, or the rest of a method.
Visit(node) == [do |-> "visit", node |-> node]
VisitEach(nodes) == [i \in DOMAIN nodes |-> Visit(nodes[i])]
VisitOnly(kind, nodes) ==
    [i \in DOMAIN nodes |-> [do |-> "topLevel", kind |-> kind, node |-> nodes[i]]]
Rest(name) == [do |-> name]
RestOf(name, node, label) == [do |-> name, node |-> node, label |-> label]
RestOfLoop(loop, loopEnd) == [do |-> "whileEnd", loop |-> loop, loopEnd |-> loopEnd]
Emit(alu) == [do |-> "emit", alu |-> alu]
Store(addr, scope) == [do |-> "store", addr |-> addr, scope |-> scope]

Doing(name) == status = "visiting" /\ work # <<>> /\ Head(work).do = name
Visiting(kind) == Doing("visit") /\ Head(work).node.kind = kind
Node == Head(work).node

Back == mAllocators[Len(mAllocators)]
ReplaceBack(a) == mAllocators' = [mAllocators EXCEPT ![Len(mAllocators)] = a]

\* The generator becomes g, and the visits and rests in next come first.
Proceed(g, next) ==
    /\ mCodeGen' = g
    /\ status' = IF g.ok THEN "visiting" ELSE "failed"
    /\ work' = next \o Tail(work)

Call(next) ==
    /\ work' = next \o Tail(work)
    /\ UNCHANGED <<mCodeGen, status>>

\* A std::runtime_error that main() reports.
Throw ==
    /\ status' = "failed"
    /\ UNCHANGED <<work, mAllocators, mCodeGen, counter>>

\* mutant: the globals come before the variables of the function
DeclarationGlobal(name) ==
    LET k == CHOOSE k \in DOMAIN mAllocators :
                 /\ Declares(mAllocators[k], name)
                 /\ \A l \in DOMAIN mAllocators : Declares(mAllocators[l], name) => k <= l
    IN  [addr |-> GetAddr(mAllocators[k], name), scope |-> mAllocators[k].scope]

\* getDeclaration: the function's variables come before the globals.
IsDeclared(name) == \E k \in DOMAIN mAllocators : Declares(mAllocators[k], name)
Declaration(name) ==
    LET k == CHOOSE k \in DOMAIN mAllocators :
                 /\ Declares(mAllocators[k], name)
                 /\ \A l \in DOMAIN mAllocators : Declares(mAllocators[l], name) => l <= k
    IN  [addr |-> GetAddr(mAllocators[k], name), scope |-> mAllocators[k].scope]

-----------------------------------------------------------------------------
VisitAll(tree) ==
    /\ status = "idle"
    /\ status' = "visiting"
    /\ work' = <<Visit(tree)>>
    /\ UNCHANGED <<mAllocators, mCodeGen, counter>>

\* The globals first, whatever the order of the source.
VisitProg ==
    /\ Visiting("prog")
    /\ Proceed(CompileLoadFp(CompileConst(mCodeGen, 1024)),
               VisitOnly("var_decl_stmt", Node.items) \o <<Rest("callMain")>>
                 \o VisitOnly("func_decl", Node.items))
    /\ UNCHANGED <<mAllocators, counter>>

\* The loops of visitProg pass over the other kind of top_level.
TopLevel ==
    /\ Doing("topLevel")
    /\ Call(IF Node.kind = Head(work).kind THEN <<Visit(Node)>> ELSE <<>>)
    /\ UNCHANGED <<mAllocators, counter>>

CallMain ==
    /\ Doing("callMain")
    /\ LET endLoop == Label(counter)
           callMain == CompileAJmp(CompileRef(mCodeGen, "main"))
       IN  Proceed(CompileAJmp(CompileRef(DeclareLabel(callMain, endLoop), endLoop)), <<>>)
    /\ counter' = counter + 1
    /\ UNCHANGED mAllocators

VisitFunc_decl ==
    /\ Visiting("func_decl")
    /\ Proceed(CompilePrologue(DeclareLabel(mCodeGen, Node.name)),
               VisitEach(Node.body) \o <<Rest("funcEnd")>>)
    /\ mAllocators' = Append(mAllocators, NewAllocator(0, "STACK"))
    /\ UNCHANGED counter

FuncEnd ==
    /\ Doing("funcEnd")
    /\ Proceed(CompileEpilogue(mCodeGen, GetMaxAlloc(Back)), <<>>)
    /\ mAllocators' = SubSeq(mAllocators, 1, Len(mAllocators) - 1)
    /\ UNCHANGED counter

VisitCall_stmt ==
    /\ Visiting("call_stmt")
    /\ Proceed(CompileAJmp(CompileRef(mCodeGen, Node.name)), <<>>)
    /\ UNCHANGED <<mAllocators, counter>>

\* Braces open no block of variables.
VisitStmts ==
    /\ Visiting("stmts")
    /\ Call(VisitEach(Node.body))
    /\ UNCHANGED <<mAllocators, counter>>

VisitIf_stmt ==
    /\ Visiting("if_stmt")
    /\ ReplaceBack(StartBlock(Back))
    /\ counter' = counter + 1
    /\ Call(<<Visit(Node.cond), RestOf("ifThen", Node, Label(counter))>>)

IfThen ==
    /\ Doing("ifThen")
    /\ LET r == Head(work)
       IN  Proceed(CompileCJmpz(CompileRef(mCodeGen, r.label)),
                   <<Visit(r.node.body[1]), RestOf("ifElse", r.node, r.label)>>)
    /\ ReplaceBack(StartBlock(Back))
    /\ UNCHANGED counter

IfElse ==
    /\ Doing("ifElse")
    /\ Len(Node.body) = 2
    /\ \E a \in EndBlock(Back) : ReplaceBack(StartBlock(a))
    /\ LET operatorEnd == Label(counter)
           skip == CompileAJmp(CompileRef(mCodeGen, operatorEnd))
       IN  Proceed(DeclareLabel(skip, Head(work).label),
                   <<Visit(Node.body[2]), RestOf("ifEnd", Node, operatorEnd)>>)
    /\ counter' = counter + 1

IfWithoutElse ==
    /\ Doing("ifElse")
    /\ Len(Node.body) = 1
    /\ \E a \in EndBlock(Back) : \E b \in EndBlock(a) : ReplaceBack(b)
    /\ Proceed(DeclareLabel(mCodeGen, Head(work).label), <<>>)
    /\ UNCHANGED counter

IfEnd ==
    /\ Doing("ifEnd")
    /\ \E a \in EndBlock(Back) : \E b \in EndBlock(a) : ReplaceBack(b)
    /\ Proceed(DeclareLabel(mCodeGen, Head(work).label), <<>>)
    /\ UNCHANGED counter

VisitWhile_stmt ==
    /\ Visiting("while_stmt")
    /\ ReplaceBack(StartBlock(Back))
    /\ LET loop == Label(counter)
       IN  Proceed(DeclareLabel(mCodeGen, loop),
                   <<Visit(Node.cond), RestOf("whileBody", Node, loop)>>)
    /\ counter' = counter + 1

\* mutant: a condition that is 0 jumps to the start of the loop
WhileBodyAgain ==
    /\ Doing("whileBody")
    /\ LET loopEnd == Label(counter)
       IN  Proceed(CompileCJmpz(CompileRef(mCodeGen, Head(work).label)),
                   <<Visit(Node.body[1]), RestOfLoop(Head(work).label, loopEnd)>>)
    /\ ReplaceBack(StartBlock(Back))
    /\ counter' = counter + 1

WhileBody ==
    /\ Doing("whileBody")
    /\ LET loopEnd == Label(counter)
       IN  Proceed(CompileCJmpz(CompileRef(mCodeGen, loopEnd)),
                   <<Visit(Node.body[1]), RestOfLoop(Head(work).label, loopEnd)>>)
    /\ ReplaceBack(StartBlock(Back))
    /\ counter' = counter + 1

WhileEnd ==
    /\ Doing("whileEnd")
    /\ \E a \in EndBlock(Back) : \E b \in EndBlock(a) : ReplaceBack(b)
    /\ LET repeat == CompileAJmp(CompileRef(mCodeGen, Head(work).loop))
       IN  Proceed(DeclareLabel(repeat, Head(work).loopEnd), <<>>)
    /\ UNCHANGED counter

\* The slot is taken before the initial value is visited.
VisitVar_decl_stmt ==
    /\ Visiting("var_decl_stmt")
    /\ CanAlloc(Back, Node.name)
    /\ ReplaceBack(Alloc(Back, Node.name))
    /\ Call(<<Visit(Node.expr), Store(Back.base + NextSlot(Back), Back.scope)>>)
    /\ UNCHANGED counter

DeclaredTwice ==
    /\ Visiting("var_decl_stmt")
    /\ ~CanAlloc(Back, Node.name)
    /\ Throw

VisitAssign_stmt ==
    /\ Visiting("assign_stmt")
    /\ IsDeclared(Node.name)
    /\ LET d == Declaration(Node.name)
       IN  Call(<<Visit(Node.expr), Store(d.addr, d.scope)>>)
    /\ UNCHANGED <<mAllocators, counter>>

NotDeclared ==
    /\ \/ Visiting("assign_stmt")
       \/ Visiting("ident")
    /\ ~IsDeclared(Node.name)
    /\ Throw

\* The code prints by a store to the output port.
VisitPrint_stmt ==
    /\ Visiting("print_stmt")
    /\ Call(<<Visit(Node.expr), Store(Pow2[WordBits - 2], "GLOBAL")>>)
    /\ UNCHANGED <<mAllocators, counter>>

\* The end of a declaration, an assignment and a print.
StoreValue ==
    /\ Doing("store")
    /\ LET s == Head(work)
       IN  Proceed(IF s.scope = "GLOBAL" THEN CompileSave(mCodeGen, s.addr)
                   ELSE CompileStackSave(mCodeGen, s.addr), <<>>)
    /\ UNCHANGED <<mAllocators, counter>>

\* A binary rule visits its operands from left to right, then emits the
\* operation that emitted gives for its token.
VisitOperands(emitted) ==
    /\ Call(<<Visit(Node.left), Visit(Node.right), Emit(emitted[Node.op])>>)
    /\ UNCHANGED <<mAllocators, counter>>

\* Both | and ^ call compileAnd.
VisitBitwiseor == Visiting("bitwiseor") /\ VisitOperands([BITOR |-> "AND"])
VisitBitwisexor == Visiting("bitwisexor") /\ VisitOperands([BITXOR |-> "AND"])
VisitBitwiseand == Visiting("bitwiseand") /\ VisitOperands([BITAND |-> "AND"])
VisitEqcomparison ==
    Visiting("eqcomparison") /\ VisitOperands([EQUAL |-> "EQ", NOTEQUAL |-> "NEQ"])
VisitComparison ==
    /\ Visiting("comparison")
    /\ VisitOperands([LESS |-> "LT", GREATER |-> "GT", LESSEQUAL |-> "LE",
                      GREATEREQUAL |-> "GE"])
VisitShift ==
    Visiting("shift") /\ VisitOperands([SHIFTLEFT |-> "SHL", SHIFTRIGHT |-> "SHR"])
VisitSumma == Visiting("summa") /\ VisitOperands([PLUS |-> "ADD", MINUS |-> "SUB"])
VisitTerm ==
    Visiting("term") /\ VisitOperands([MULT |-> "MUL", DIV |-> "DIV", REM |-> "REM"])

EmitOperation ==
    /\ Doing("emit")
    /\ Proceed(CASE Head(work).alu = "NEGATE" -> CompileNegate(mCodeGen)
                 [] Head(work).alu = "NOT"    -> CompileNot(mCodeGen)
                 [] OTHER                     -> CompileAlu(mCodeGen, Head(work).alu), <<>>)
    /\ UNCHANGED <<mAllocators, counter>>

\* The alternatives of visitFactor; a parenthesis is its expr.
VisitUnary ==
    /\ Visiting("unary")
    /\ Call(<<Visit(Node.arg), Emit(IF Node.op = "MINUS" THEN "NEGATE" ELSE "NOT")>>)
    /\ UNCHANGED <<mAllocators, counter>>

VisitNumber ==
    /\ Visiting("number")
    /\ Proceed(CompileConst(mCodeGen, Node.value), <<>>)
    /\ UNCHANGED <<mAllocators, counter>>

VisitIdent ==
    /\ Visiting("ident")
    /\ IsDeclared(Node.name)
    /\ LET d == Declaration(Node.name)
       IN  Proceed(IF d.scope = "GLOBAL" THEN CompileLoad(mCodeGen, d.addr)
                   ELSE CompileStackLoad(mCodeGen, d.addr), <<>>)
    /\ UNCHANGED <<mAllocators, counter>>

\* The end of visitAll.
Resolve ==
    /\ status = "visiting"
    /\ work = <<>>
    /\ mCodeGen' = ResolveRefs(mCodeGen)
    /\ status' = IF mCodeGen'.ok THEN "compiled" ELSE "failed"
    /\ UNCHANGED <<work, mAllocators, counter>>

VisitStatement ==
    \/ VisitCall_stmt \/ VisitStmts
    \/ VisitIf_stmt \/ IfThen \/ IfElse \/ IfWithoutElse \/ IfEnd
    \/ VisitWhile_stmt \/ WhileBody \/ WhileEnd
    \/ VisitVar_decl_stmt \/ DeclaredTwice
    \/ VisitAssign_stmt \/ VisitPrint_stmt \/ StoreValue

VisitExpression ==
    \/ VisitBitwiseand \/ VisitEqcomparison \/ VisitComparison \/ VisitShift
    \/ VisitSumma \/ VisitTerm \/ VisitBitwiseor \/ VisitBitwisexor
    \/ EmitOperation \/ VisitUnary \/ VisitNumber \/ VisitIdent \/ NotDeclared

VisitorStep ==
    \/ VisitProg \/ TopLevel \/ CallMain \/ VisitFunc_decl \/ FuncEnd
    \/ VisitStatement \/ VisitExpression \/ Resolve

VisitorNext == VisitorStep \/ \E tree \in Programs : VisitAll(tree)

-----------------------------------------------------------------------------
\* At every moment of the compilation, in the globals and in the frame of
\* the current function: two variables that are live together never share a
\* slot, and no slot on the free list, where a block that closes puts its
\* slots in the order of an unordered_map, belongs to a live variable or is
\* there twice.
SlotsDisjoint ==
    \A k \in DOMAIN mAllocators :
        /\ LiveSlotsDistinct(mAllocators[k])
        /\ LiveSlotsTaken(mAllocators[k])
        /\ FreeSlotsDistinct(mAllocators[k])
=============================================================================
