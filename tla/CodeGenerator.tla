--------------------------- MODULE CodeGenerator ----------------------------
(***************************************************************************)
(* The code being generated (CodeGenerator.h and .cpp): the program so     *)
(* far, the labels declared, the positions that refer to each label, and   *)
(* the positions of the frame sizes still to be filled in.  A method is an *)
(* operator from one generator to the next; ok turns FALSE where the       *)
(* method throws std::runtime_error, and nothing of g is used after that.  *)
(* Positions count from 0 as in the code, so that word p is                *)
(* g.program[p + 1].                                                       *)
(***************************************************************************)
EXTENDS Assembler

NewCodeGenerator ==
    [program |-> <<>>, labels |-> [l \in {} |-> 0], refs |-> [l \in {} |-> <<>>],
     fpAdds |-> <<>>, ok |-> TRUE]

PushBack(g, word) ==
    IF word = Throws THEN [g EXCEPT !.ok = FALSE]
    ELSE [g EXCEPT !.program = Append(@, word)]

\* compileAdd, compileSub, ..., compileGe
CompileAlu(g, alu) == PushBack(g, StackOp(alu))
CompileNegate(g) == PushBack(g, Negate)
CompileNot(g) == PushBack(g, Not)
CompileConst(g, val) == PushBack(g, Lconst(val))
CompileLoad(g, addr) == PushBack(PushBack(g, Lconst(addr)), Lmem)
CompileStackLoad(g, addr) == PushBack(g, Lfpmem(-addr))
CompileSave(g, addr) == PushBack(PushBack(g, Lconst(addr)), Stmem)
CompileStackSave(g, addr) == PushBack(g, Stfpmem(-addr))
CompileCJmpz(g) == PushBack(g, Cjmpz)
CompileAJmp(g) == PushBack(g, Ajmp)
CompileLoadFp(g) == PushBack(g, Lfp)

\* mutant: no return address
CompilePrologueOnly(g) ==
    PushBack([g EXCEPT !.fpAdds = Append(@, Len(g.program))], 0)

\* Pushes the return address and leaves a hole for the frame size.
CompilePrologue(g) ==
    LET h == PushBack(g, Lppc)
    IN  PushBack([h EXCEPT !.fpAdds = Append(@, Len(h.program))], 0)

\* Fills the hole of the prologue, gives the frame back and returns.
CompileEpilogue(g, frameSize) ==
    LET hole == g.fpAdds[Len(g.fpAdds)] + 1
        enter == Addfp(frameSize)
        h == [g EXCEPT !.program[hole] = IF enter = Throws THEN @ ELSE enter,
                       !.ok = @ /\ enter # Throws,
                       !.fpAdds = SubSeq(@, 1, Len(@) - 1)]
    IN  CompileAJmp(PushBack(h, Addfp(-frameSize)))

DeclareLabel(g, label) ==
    IF label \in DOMAIN g.labels THEN [g EXCEPT !.ok = FALSE]
    ELSE [g EXCEPT !.labels = [l \in DOMAIN @ \cup {label} |->
                                 IF l = label THEN Len(g.program) ELSE @[l]]]

CompileRef(g, label) ==
    LET seen == IF label \in DOMAIN g.refs THEN g.refs[label] ELSE <<>>
        h == [g EXCEPT !.refs = [l \in DOMAIN @ \cup {label} |->
                                   IF l = label THEN Append(seen, Len(g.program))
                                   ELSE @[l]]]
    IN  PushBack(h, Lconst(0))

\* Every position that refers to a label receives its address.
Target(g, p) ==
    {l \in DOMAIN g.refs : \E k \in DOMAIN g.refs[l] : g.refs[l][k] = p - 1}

ResolveRefs(g) ==
    LET resolved == [p \in DOMAIN g.program |->
                        IF Target(g, p) = {} THEN g.program[p]
                        ELSE Lconst(g.labels[CHOOSE l \in Target(g, p) : TRUE])]
    IN  IF DOMAIN g.refs \subseteq DOMAIN g.labels
              /\ \A p \in DOMAIN resolved : resolved[p] # Throws
        THEN [g EXCEPT !.program = resolved]
        ELSE [g EXCEPT !.ok = FALSE]
=============================================================================
