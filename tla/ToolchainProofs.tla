-------------------------- MODULE ToolchainProofs ---------------------------
(***************************************************************************)
(* Proofs about the compiler and the image it starts the stack processor   *)
(* from, for every program, every order in which the loop over an          *)
(* unordered_map may run and every nesting of blocks: live variables keep  *)
(* slots of their own, labels are resolved, frames hold what the code of   *)
(* their functions reaches.                                                *)
(***************************************************************************)
EXTENDS Toolchain, FiniteSetTheorems, SequenceTheorems, WellFoundedInduction, TLAPS

\* A sequence over its own elements, whatever they are.
IsSequence(s) == s \in Seq({s[i] : i \in DOMAIN s})

IsBlock(b) ==
    /\ b = [n \in DOMAIN b |-> b[n]]
    /\ IsFiniteSet(DOMAIN b)
    /\ \A n \in DOMAIN b : b[n] \in Nat

AllocatorType(a) ==
    /\ a \in [base : {a.base}, scope : {a.scope}, firstFree : Nat,
              free : Seq(Nat), blocks : {a.blocks}]
    /\ IsSequence(a.blocks)
    /\ \A i \in DOMAIN a.blocks : IsBlock(a.blocks[i])

\* The slots of one allocator are handed out right.
AllocatorOK(a) ==
    /\ AllocatorType(a)
    /\ LiveSlotsDistinct(a)
    /\ LiveSlotsTaken(a)
    /\ FreeSlotsDistinct(a)

\* The inductive invariant.
AllocatorsOK ==
    /\ IsSequence(mAllocators)
    /\ \A k \in DOMAIN mAllocators : AllocatorOK(mAllocators[k])

\* The words that the assembler methods deliver.
CodeWord ==
    0..FlagBit - 1
      \cup {Op(mode, alu, imm) : mode \in DOMAIN OpSrc, alu \in DOMAIN OpAlu,
                                imm \in MinImm..MaxImm}

GeneratorType(g) ==
    /\ g \in [program : Seq(CodeWord), labels : {g.labels}, refs : {g.refs},
              fpAdds : Seq(Nat), ok : BOOLEAN]
    /\ \A l \in DOMAIN g.refs : g.refs[l] \in Seq(Nat)

\* Until they are resolved, the positions that refer to a label hold 0, and
\* none refers to two.
RefsOK(g) ==
    /\ \A l \in DOMAIN g.refs : \A k \in DOMAIN g.refs[l] :
          g.refs[l][k] < Len(g.program) /\ g.program[g.refs[l][k] + 1] = 0
    /\ \A l, m \in DOMAIN g.refs : \A j \in DOMAIN g.refs[l], k \in DOMAIN g.refs[m] :
          g.refs[l][j] = g.refs[m][k] => l = m

\* What a word reaches through fp lies in a frame of this size.
Within(word, frame) ==
    word >= FlagBit /\ Disasm(word).mode.b = "FP_IMM"
      => -Disasm(word).imm \in 0..frame - 1

\* A word that does not begin a function.
BodyWord(word, limit) ==
    word \in CodeWord /\ word # Lppc /\ Within(word, limit)

\* The words from p to e are the code of a function.
FunctionCode(program, p, e) ==
    LET frame == Disasm(program[p + 2]).imm
    IN  /\ frame \in Nat
        /\ program[p + 2] = Addfp(frame)
        /\ program[e - 1] = Addfp(-frame)
        /\ \A q \in p..e - 1 : Within(program[q + 1], frame)
        /\ \A q \in p + 1..e - 1 : program[q + 1] # Lppc

NoFunctions(program) == \A p \in DOMAIN program : program[p] # Lppc

FunctionsClosed(program) ==
    \A p \in 0..Len(program) - 1 : program[p + 1] = Lppc =>
        \E e \in p + 2..Len(program) :
            /\ FunctionCode(program, p, e)
            /\ e = Len(program) \/ program[e + 1] = Lppc

\* The code of the function that begins at f is being generated; it reaches
\* no slot from limit on.
FunctionOpen(g, limit) ==
    LET f == g.fpAdds[1] - 1
        program == g.program
    IN  /\ f \in 0..Len(program) - 2
        /\ program[f + 1] = Lppc
        /\ \A l \in DOMAIN g.refs : \A k \in DOMAIN g.refs[l] : g.refs[l][k] # f + 1
        /\ \A q \in f..Len(program) - 1 : Within(program[q + 1], limit)
        /\ \A q \in f + 1..Len(program) - 1 : program[q + 1] # Lppc
        /\ \A p \in 0..f - 1 : program[p + 1] = Lppc =>
             \E e \in p + 2..f : FunctionCode(program, p, e) /\ program[e + 1] = Lppc

GeneratorOK(g, mode, limit) ==
    /\ GeneratorType(g)
    /\ RefsOK(g)
    /\ mode = "globals" => g.fpAdds = <<>> /\ NoFunctions(g.program)
    /\ mode = "function" => Len(g.fpAdds) = 1 /\ FunctionOpen(g, limit)
    /\ mode = "between" => g.fpAdds = <<>> /\ FunctionsClosed(g.program)

\* What is to be done within the globals or within a function.
Inner(e, limit) ==
    /\ e.do \in {"topLevel", "visit", "ifThen", "ifElse", "ifEnd", "whileBody",
                 "whileEnd", "emit", "store"}
    /\ e.do = "topLevel" => e.kind = "var_decl_stmt" /\ e.node \in Nodes
    /\ e.do = "visit" => e.node \in Nodes /\ e.node.kind \in StmtKinds \cup ExprKinds
    /\ e.do \in {"ifThen", "ifElse"} => e.node \in Nodes /\ e.node.kind = "if_stmt"
    /\ e.do = "whileBody" => e.node \in Nodes /\ e.node.kind = "while_stmt"
    /\ e.do = "emit" => e.alu \in DOMAIN OpAlu
    /\ e.do = "store" =>
         \/ e.scope = "GLOBAL"
         \/ e.scope = "STACK" /\ e.addr \in 0..limit - 1

\* The functions that are still to be visited.
Outer(e) ==
    /\ e.do \in {"topLevel", "visit"}
    /\ e.node \in Nodes
    /\ e.do = "topLevel" => e.kind = "func_decl"
    /\ e.do = "visit" => e.node.kind = "func_decl"

Marked(s, mark, limit) ==
    \E k \in DOMAIN s :
        /\ s[k].do = mark
        /\ \A i \in 1..k - 1 : Inner(s[i], limit)
        /\ \A i \in k + 1..Len(s) : Outer(s[i])

Starting ==
    /\ \E p \in Programs : work = <<Visit(p)>>
    /\ mAllocators = <<NewAllocator(200, "GLOBAL")>>
    /\ mCodeGen = NewCodeGenerator

InGlobals ==
    /\ Len(mAllocators) = 1 /\ Back.scope = "GLOBAL"
    /\ Marked(work, "callMain", 0)
    /\ GeneratorOK(mCodeGen, "globals", 0)

InFunction ==
    /\ Len(mAllocators) = 2 /\ mAllocators[1].scope = "GLOBAL"
    /\ Back.scope = "STACK" /\ Back.base = 0
    /\ Marked(work, "funcEnd", Back.firstFree)
    /\ GeneratorOK(mCodeGen, "function", Back.firstFree)

Between ==
    /\ Len(mAllocators) = 1 /\ Back.scope = "GLOBAL"
    /\ \A i \in DOMAIN work : Outer(work[i])
    /\ GeneratorOK(mCodeGen, "between", 0)

\* Every position that refers to a label holds its address.
LabelsResolved(g) ==
    \A l \in DOMAIN g.refs : \A k \in DOMAIN g.refs[l] :
        g.program[g.refs[l][k] + 1] = g.labels[l]

VisitorInv ==
    /\ AllocatorsOK
    /\ IsSequence(work)
    /\ GeneratorType(mCodeGen)
    /\ counter \in Nat
    /\ status \in {"idle", "visiting", "compiled", "failed"}
    /\ status = "idle" => VisitorInit
    /\ status = "visiting" => Starting \/ InGlobals \/ InFunction \/ Between
    /\ status = "compiled" => FunctionsClosed(mCodeGen.program) /\ LabelsResolved(mCodeGen)

-----------------------------------------------------------------------------
\* How the assembler packs a word, and how it is taken apart again.

\* The powers of two of a word's fields.
LEMMA Powers ==
    /\ Pow2[ImmBits - 1] \in Nat /\ Pow2[ImmBits - 1] > 0
    /\ Pow2[ImmBits] = 2 * Pow2[ImmBits - 1]
    /\ FlagBit = 512 * Pow2[ImmBits]
    /\ Pow2[WordBits] = 2 * FlagBit
    /\ Pow2[WordBits] \in Nat /\ Pow2[WordBits] > 0
<1>1. ImmBits \in Nat /\ ImmBits >= 2  BY ImmBitsAssumption
<1>2. \A n \in 0..ImmBits + 9 : Pow2[n + 1] = 2 * Pow2[n] /\ Pow2[n] \in Nat \ {0}
  <2>1. \A n \in 0..ImmBits + 9 : n \in 0..ImmBits + 10  BY <1>1
  <2>2. \A n \in 0..ImmBits + 10 : Pow2[n] \in Nat \ {0}  BY PowAssumption
  <2>3. \A n \in 0..ImmBits + 9 : Pow2[n + 1] = 2 * Pow2[n]  BY PowAssumption
  <2> QED  BY <2>1, <2>2, <2>3
<1>3. /\ Pow2[ImmBits - 1 + 1] = 2 * Pow2[ImmBits - 1]
      /\ Pow2[ImmBits - 1] \in Nat \ {0}
  <2>1. ImmBits - 1 \in 0..ImmBits + 9  BY <1>1
  <2> QED  BY <1>2, <2>1
<1>4. ImmBits - 1 + 1 = ImmBits  BY <1>1
<1>5. \A i \in 0..9 : Pow2[ImmBits + i + 1] = 2 * Pow2[ImmBits + i]
  <2> TAKE i \in 0..9
  <2>1. ImmBits + i \in 0..ImmBits + 9  BY <1>1
  <2> QED  BY <1>2, <2>1
<1>6. /\ Pow2[ImmBits + 0 + 1] = 2 * Pow2[ImmBits + 0]
      /\ Pow2[ImmBits + 1 + 1] = 2 * Pow2[ImmBits + 1]
      /\ Pow2[ImmBits + 2 + 1] = 2 * Pow2[ImmBits + 2]
      /\ Pow2[ImmBits + 3 + 1] = 2 * Pow2[ImmBits + 3]
      /\ Pow2[ImmBits + 4 + 1] = 2 * Pow2[ImmBits + 4]
      /\ Pow2[ImmBits + 5 + 1] = 2 * Pow2[ImmBits + 5]
      /\ Pow2[ImmBits + 6 + 1] = 2 * Pow2[ImmBits + 6]
      /\ Pow2[ImmBits + 7 + 1] = 2 * Pow2[ImmBits + 7]
      /\ Pow2[ImmBits + 8 + 1] = 2 * Pow2[ImmBits + 8]
      /\ Pow2[ImmBits + 9 + 1] = 2 * Pow2[ImmBits + 9]
  BY <1>5
<1>7. /\ ImmBits + 0 = ImmBits /\ ImmBits + 0 + 1 = ImmBits + 1
      /\ ImmBits + 1 + 1 = ImmBits + 2 /\ ImmBits + 2 + 1 = ImmBits + 3
      /\ ImmBits + 3 + 1 = ImmBits + 4 /\ ImmBits + 4 + 1 = ImmBits + 5
      /\ ImmBits + 5 + 1 = ImmBits + 6 /\ ImmBits + 6 + 1 = ImmBits + 7
      /\ ImmBits + 7 + 1 = ImmBits + 8 /\ ImmBits + 8 + 1 = ImmBits + 9
      /\ ImmBits + 9 + 1 = ImmBits + 10
  BY <1>1
<1>8. WordBits = ImmBits + 10 /\ WordBits - 1 = ImmBits + 9  BY <1>1 DEF WordBits
<1>9. FlagBit = Pow2[ImmBits + 9] /\ Pow2[WordBits] = Pow2[ImmBits + 10]
  BY <1>8 DEF FlagBit
<1> QED  BY <1>3, <1>4, <1>6, <1>7, <1>9

\* No two addressing modes have the same number.
LEMMA ModeNumbers ==
    /\ \A m \in DOMAIN OpSrc : OpSrc[m] \in 0..15
    /\ \A m, n \in DOMAIN OpSrc : OpSrc[m] = OpSrc[n] => m = n
BY DEF OpSrc

\* Only the accesses to a frame are listed as going through fp, and the word
\* that pushes the return address is listed like no other.
LEMMA ModesListed ==
    ASSUME NEW mode \in DOMAIN OpSrc
    PROVE  /\ mode \notin {"MEM_FPIMM_STACK", "STACK_FPIMM_MEM"}
                => addrModeName[1 + OpSrc[mode]].b # "FP_IMM"
           /\ mode # "PPC_IMM_STACK" => addrModeName[1 + OpSrc[mode]] # addrModeName[15]
BY DEF OpSrc, addrModeName

\* Of every mode the listing shows what FetchStage decodes, but of the jump.
LEMMA ModesAgree ==
    ASSUME NEW mode \in DOMAIN OpSrc
    PROVE  LET listed == addrModeName[1 + OpSrc[mode]]
               done == CPU!Modes[1 + OpSrc[mode]]
           IN  listed = IF done.dst = "PC" THEN Exchanged(done) ELSE done
BY DEF OpSrc, addrModeName, CPU!Modes, Exchanged

\* No two operations have the same number.
LEMMA AluNumbers ==
    /\ \A m \in DOMAIN OpAlu : OpAlu[m] \in 0..20
    /\ \A m, n \in DOMAIN OpAlu : OpAlu[m] = OpAlu[n] => m = n
    /\ "out_of_range" \notin DOMAIN OpAlu
BY DEF OpAlu

\* The signed reading of the masked immediate is the immediate.
LEMMA MaskedImmediate ==
    ASSUME NEW imm \in MinImm..MaxImm
    PROVE  LET field == imm % Pow2[ImmBits]
           IN  /\ field \in 0..Pow2[ImmBits] - 1
               /\ SignExtend(field, ImmBits) = imm
<1> DEFINE h == Pow2[ImmBits - 1]
<1> DEFINE k == Pow2[ImmBits]
<1>1. h \in Nat /\ h > 0 /\ k = 2 * h  BY Powers
<1>2. imm \in Int /\ -h <= imm /\ imm <= h - 1  BY <1>1 DEF MinImm, MaxImm
<1>3. SignExtend(imm % k, ImmBits) = IF imm % k >= h THEN (imm % k) - k ELSE imm % k
  BY DEF SignExtend
<1> HIDE DEF h, k
<1>4. CASE imm >= 0
  <2>1. imm % k = imm  BY <1>1, <1>2, <1>4
  <2> QED  BY <1>1, <1>2, <1>3, <1>4, <2>1 DEF k
<1>5. CASE imm < 0
  <2>1. imm % k = imm + k  BY <1>1, <1>2, <1>5
  <2> QED  BY <1>1, <1>2, <1>3, <1>5, <2>1 DEF k
<1> QED  BY <1>2, <1>4, <1>5

\* What disasm makes of a word that Op has packed.
LEMMA OpUnpacked ==
    ASSUME NEW mode \in DOMAIN OpSrc, NEW alu \in DOMAIN OpAlu, NEW imm \in MinImm..MaxImm
    PROVE  LET word == Op(mode, alu, imm)
               shown == Disasm(word)
           IN  /\ word \in FlagBit..Pow2[WordBits] - 1
               /\ ~shown.isConst
               /\ shown.mode = addrModeName[1 + OpSrc[mode]]
               /\ shown.alu = alu /\ shown.imm = imm
               /\ OpAlu[alu] = (word \div 2^4) % 2^5
               /\ OpSrc[mode] = word % 2^4
<1> DEFINE k == Pow2[ImmBits]
<1> DEFINE field == imm % k
<1> DEFINE a == OpAlu[alu]
<1> DEFINE m == OpSrc[mode]
<1> DEFINE word == Op(mode, alu, imm)
<1>1. k \in Nat /\ k > 0 /\ FlagBit = 512 * k /\ Pow2[WordBits] = 1024 * k  BY Powers
<1>2. imm \in Int /\ ~(imm > MaxImm \/ imm < MinImm)  BY Powers DEF MinImm, MaxImm
<1>3. 2^9 = 512 /\ 2^4 = 16 /\ 2^5 = 32  OBVIOUS
<1>4. word = FlagBit + field * 512 + a * 16 + m  BY <1>2, <1>3 DEF Op
<1>5. field \in 0..k - 1 /\ SignExtend(field, ImmBits) = imm  BY MaskedImmediate
<1>6. a \in 0..20 /\ m \in 0..15  BY ModeNumbers, AluNumbers
<1> HIDE DEF k, field, a, m, word
<1> DEFINE x == k + field
<1>7. x \in Nat /\ word = 512 * x + 16 * a + m  BY <1>1, <1>4, <1>5, <1>6
<1>8. word \in FlagBit..Pow2[WordBits] - 1  BY <1>1, <1>5, <1>6, <1>7
<1>9. word \div 512 = x /\ (word \div 16) % 32 = a /\ word % 16 = m
  <2> HIDE DEF x
  <2>1. word \div 512 = x  BY <1>6, <1>7
  <2>2. word \div 16 = 32 * x + a  BY <1>6, <1>7
  <2>3. (32 * x + a) % 32 = a  BY <1>6, <1>7
  <2>4. word % 16 = m  BY <1>6, <1>7
  <2> QED  BY <2>1, <2>2, <2>3, <2>4
<1>10. x % k = field
  <2>1. x = k * 1 + field  BY <1>1, <1>5
  <2> QED  BY <1>1, <1>5, <2>1
<1>11. ~(word < FlagBit)  BY <1>1, <1>8
<1> DEFINE rf == (word \div 2^9) % Pow2[ImmBits]
<1> DEFINE ra == (word \div 2^4) % 2^5
<1> DEFINE rm == word % 2^4
<1>12. rf = field /\ ra = a /\ rm = m  BY <1>3, <1>9, <1>10 DEF k
<1>13. Disasm(word) =
         [isConst |-> FALSE, imm |-> SignExtend(rf, ImmBits),
          alu |-> CHOOSE n \in DOMAIN OpAlu \cup {"out_of_range"} :
                    IF \E i \in DOMAIN OpAlu : OpAlu[i] = ra
                    THEN n # "out_of_range" /\ OpAlu[n] = ra
                    ELSE n = "out_of_range",
          mode |-> addrModeName[1 + rm]]
  BY <1>11 DEF Disasm
<1> HIDE DEF rf, ra, rm
<1>14. (CHOOSE n \in DOMAIN OpAlu \cup {"out_of_range"} :
          IF \E i \in DOMAIN OpAlu : OpAlu[i] = ra
          THEN n # "out_of_range" /\ OpAlu[n] = ra
          ELSE n = "out_of_range") = alu
  <2>1. \E i \in DOMAIN OpAlu : OpAlu[i] = ra  BY <1>12 DEF a
  <2> DEFINE Named(n) == IF \E i \in DOMAIN OpAlu : OpAlu[i] = ra
                         THEN n # "out_of_range" /\ OpAlu[n] = ra
                         ELSE n = "out_of_range"
  <2>2. \A n \in DOMAIN OpAlu \cup {"out_of_range"} : Named(n) => n = alu
    BY <1>12, <2>1, AluNumbers DEF a
  <2>3. Named(alu)  BY <1>12, AluNumbers DEF a
  <2>4. (CHOOSE n \in DOMAIN OpAlu \cup {"out_of_range"} : Named(n)) = alu
    <3> HIDE DEF Named
    <3> QED  BY <2>2, <2>3
  <2> QED  BY <2>4
<1>15. /\ ~Disasm(word).isConst
       /\ Disasm(word).mode = addrModeName[1 + m]
       /\ Disasm(word).alu = alu /\ Disasm(word).imm = imm
  BY <1>5, <1>12, <1>13, <1>14
<1> QED  BY <1>8, <1>12, <1>15 DEF word, a, ra, m, rm

\* Words have WordBits bits, and none is taken for a throw.
LEMMA CodeWordIsWord ==
    ASSUME NEW w \in CodeWord
    PROVE  w \in 0..Pow2[WordBits] - 1 /\ w # Throws
<1>1. CASE w \in 0..FlagBit - 1  BY <1>1, Powers DEF Throws
<1>2. CASE w \in {Op(mode, alu, imm) : mode \in DOMAIN OpSrc, alu \in DOMAIN OpAlu,
                                     imm \in MinImm..MaxImm}
  <2>1. PICK mode \in DOMAIN OpSrc, alu \in DOMAIN OpAlu, imm \in MinImm..MaxImm :
           w = Op(mode, alu, imm)
    BY <1>2
  <2>2. w \in FlagBit..Pow2[WordBits] - 1  BY <2>1, OpUnpacked
  <2> QED  BY <2>2, Powers DEF Throws
<1> QED  BY <1>1, <1>2 DEF CodeWord

\* The return address is pushed only where a function begins.
LEMMA LppcUnpacked ==
    /\ Lppc \in CodeWord /\ Lppc >= FlagBit /\ Lppc # Throws
    /\ Disasm(Lppc).mode = addrModeName[15]
    /\ \A limit : Within(Lppc, limit)
<1>1. "PPC_IMM_STACK" \in DOMAIN OpSrc /\ "A" \in DOMAIN OpAlu /\ 0 \in MinImm..MaxImm
  BY Powers DEF OpSrc, OpAlu, MinImm, MaxImm
<1>2. /\ Op("PPC_IMM_STACK", "A", 0) \in FlagBit..Pow2[WordBits] - 1
      /\ Disasm(Op("PPC_IMM_STACK", "A", 0)).mode = addrModeName[15]
  <2>1. OpSrc["PPC_IMM_STACK"] = 14  BY DEF OpSrc
  <2> QED  BY <1>1, <2>1, OpUnpacked
<1>3. Op("PPC_IMM_STACK", "A", 0) \in CodeWord  BY <1>1 DEF CodeWord
<1>4. addrModeName[15].b # "FP_IMM"  BY DEF addrModeName
<1> QED  BY <1>2, <1>3, <1>4, CodeWordIsWord, Powers DEF Lppc, Within

\* An operation, if its immediate fits.
LEMMA OpBody ==
    ASSUME NEW mode \in DOMAIN OpSrc, NEW alu \in DOMAIN OpAlu, NEW imm \in Int, NEW limit,
           mode # "PPC_IMM_STACK",
           mode \in {"MEM_FPIMM_STACK", "STACK_FPIMM_MEM"} => -imm \in 0..limit - 1
    PROVE  \/ Op(mode, alu, imm) = Throws /\ imm \notin MinImm..MaxImm
           \/ /\ imm \in MinImm..MaxImm
              /\ BodyWord(Op(mode, alu, imm), limit)
<1> DEFINE word == Op(mode, alu, imm)
<1>1. MinImm \in Int /\ MaxImm \in Int  BY Powers DEF MinImm, MaxImm
<1>2. CASE imm \notin MinImm..MaxImm
  BY <1>1, <1>2 DEF Op
<1>3. CASE imm \in MinImm..MaxImm
  <2>1. Disasm(word).mode = addrModeName[1 + OpSrc[mode]] /\ Disasm(word).imm = imm
    BY <1>3, OpUnpacked
  <2>2. word \in CodeWord  BY <1>3 DEF CodeWord
  <2>3. word # Lppc  BY <2>1, LppcUnpacked, ModesListed
  <2> HIDE DEF word
  <2>4. Within(word, limit)  BY <2>1, ModesListed DEF Within
  <2> QED  BY <1>3, <2>2, <2>3, <2>4 DEF BodyWord, word
<1> QED  BY <1>2, <1>3

\* A constant, if it leaves the flag clear.
LEMMA LconstBody ==
    ASSUME NEW val, NEW limit
    PROVE  \/ Lconst(val) = Throws
           \/ Lconst(val) = val /\ val \in 0..FlagBit - 1 /\ BodyWord(val, limit)
<1>1. CASE val \notin 0..FlagBit - 1  BY <1>1 DEF Lconst
<1>2. CASE val \in 0..FlagBit - 1
  <2>1. FlagBit \in Nat  BY Powers
  <2>2. ~(val >= FlagBit)  BY <1>2, <2>1
  <2>3. Lconst(val) = val  BY <1>2 DEF Lconst
  <2>4. val \in CodeWord  BY <1>2 DEF CodeWord
  <2>5. val # Lppc  BY <2>2, LppcUnpacked
  <2>6. Within(val, limit)  BY <2>2 DEF Within
  <2> QED  BY <1>2, <2>3, <2>4, <2>5, <2>6 DEF BodyWord
<1> QED  BY <1>1, <1>2

\* The operations without an immediate.
LEMMA PlainBody ==
    ASSUME NEW limit
    PROVE  /\ \A alu \in DOMAIN OpAlu : BodyWord(StackOp(alu), limit)
           /\ BodyWord(Negate, limit) /\ BodyWord(Not, limit)
           /\ BodyWord(Lmem, limit) /\ BodyWord(Stmem, limit)
           /\ BodyWord(Ajmp, limit) /\ BodyWord(Cjmpz, limit) /\ BodyWord(Lfp, limit)
<1>1. 0 \in Int /\ 0 \in MinImm..MaxImm  BY Powers DEF MinImm, MaxImm
<1>2. \A mode \in {"STACK_STACK_STACK", "STACK_IMM_STACK", "MEM_STACK_STACK",
                   "STACK_STACK_MEM", "IMM_STACK_PC", "STACK_STACK_PC_Z", "STACK_IMM_FP"} :
         /\ mode \in DOMAIN OpSrc
         /\ mode \notin {"PPC_IMM_STACK", "MEM_FPIMM_STACK", "STACK_FPIMM_MEM"}
  BY DEF OpSrc
<1>3. \A mode \in {"STACK_STACK_STACK", "STACK_IMM_STACK", "MEM_STACK_STACK",
                   "STACK_STACK_MEM", "IMM_STACK_PC", "STACK_STACK_PC_Z", "STACK_IMM_FP"},
         alu \in DOMAIN OpAlu : BodyWord(Op(mode, alu, 0), limit)
  BY <1>1, <1>2, OpBody
<1>4. {"A", "NEGATE", "NOT"} \subseteq DOMAIN OpAlu  BY DEF OpAlu
<1> QED  BY <1>3, <1>4 DEF StackOp, Negate, Not, Lmem, Stmem, Ajmp, Cjmpz, Lfp

\* Access to a slot of a frame.
LEMMA FrameBody ==
    ASSUME NEW limit \in Nat, NEW addr \in 0..limit - 1
    PROVE  /\ Lfpmem(-addr) = Throws \/ BodyWord(Lfpmem(-addr), limit)
           /\ Stfpmem(-addr) = Throws \/ BodyWord(Stfpmem(-addr), limit)
<1>1. -addr \in Int /\ -(-addr) \in 0..limit - 1  OBVIOUS
<1>2. /\ {"MEM_FPIMM_STACK", "STACK_FPIMM_MEM"} \subseteq DOMAIN OpSrc
      /\ "A" \in DOMAIN OpAlu
  BY DEF OpSrc, OpAlu
<1>3. \A mode \in {"MEM_FPIMM_STACK", "STACK_FPIMM_MEM"} :
         Op(mode, "A", -addr) = Throws \/ BodyWord(Op(mode, "A", -addr), limit)
  BY <1>1, <1>2, OpBody
<1> QED  BY <1>3 DEF Lfpmem, Stfpmem

\* The words that take a frame and give it back.
LEMMA AddfpBody ==
    ASSUME NEW delta \in Int, NEW limit
    PROVE  \/ Addfp(delta) = Throws
           \/ /\ BodyWord(Addfp(delta), limit)
              /\ Addfp(delta) >= FlagBit
              /\ Disasm(Addfp(delta)).imm = delta
<1>1. /\ "FP_IMM_FP" \in DOMAIN OpSrc /\ "ADD" \in DOMAIN OpAlu
      /\ "FP_IMM_FP" \notin {"PPC_IMM_STACK", "MEM_FPIMM_STACK", "STACK_FPIMM_MEM"}
  BY DEF OpSrc, OpAlu
<1>2. \/ Addfp(delta) = Throws
      \/ delta \in MinImm..MaxImm /\ BodyWord(Addfp(delta), limit)
  BY <1>1, OpBody DEF Addfp
<1>3. ASSUME delta \in MinImm..MaxImm
      PROVE  Addfp(delta) >= FlagBit /\ Disasm(Addfp(delta)).imm = delta
  <2>1. /\ Op("FP_IMM_FP", "ADD", delta) \in FlagBit..Pow2[WordBits] - 1
        /\ Disasm(Op("FP_IMM_FP", "ADD", delta)).imm = delta
    BY <1>1, <1>3, OpUnpacked
  <2> QED  BY <2>1, Powers DEF Addfp
<1> QED  BY <1>2, <1>3

-----------------------------------------------------------------------------
\* What Append, SubSeq and the replacement of an element do to a sequence.

\* The positions of a sequence.
LEMMA SequenceLength ==
    ASSUME NEW s, IsSequence(s)
    PROVE  Len(s) \in Nat /\ DOMAIN s = 1..Len(s)
BY DEF IsSequence

\* A sequence over any set is one over its own elements.
LEMMA SeqIsSequence ==
    ASSUME NEW S, NEW s \in Seq(S)
    PROVE  IsSequence(s)
<1> DEFINE R == {s[i] : i \in DOMAIN s}
<1>1. \A i \in 1..Len(s) : s[i] \in R  OBVIOUS
<1> HIDE DEF R
<1>2. s \in Seq(R)  BY <1>1
<1> QED  BY <1>2 DEF IsSequence, R

\* emplace_back and push_back: one more element, the others stay.
LEMMA AppendSequence ==
    ASSUME NEW s, IsSequence(s), NEW e
    PROVE  /\ IsSequence(Append(s, e))
           /\ Len(Append(s, e)) = Len(s) + 1
           /\ DOMAIN Append(s, e) = 1..Len(s) + 1
           /\ \A i \in 1..Len(s) : Append(s, e)[i] = s[i]
           /\ Append(s, e)[Len(s) + 1] = e
<1> DEFINE S == {s[i] : i \in DOMAIN s} \cup {e}
<1> DEFINE t == Append(s, e)
<1>1. s \in Seq(S)  BY DEF IsSequence
<1>2. /\ t \in Seq(S)
      /\ Len(t) = Len(s) + 1
      /\ \A i \in 1..Len(s) : t[i] = s[i]
      /\ t[Len(s) + 1] = e
  <2> HIDE DEF S
  <2>1. e \in S  BY DEF S
  <2> QED  BY <1>1, <2>1
<1>3. DOMAIN t = 1..Len(s) + 1  BY <1>2, SequenceLength
<1>4. t \in Seq({t[i] : i \in DOMAIN t})
  <2> HIDE DEF t, S
  <2> QED  BY <1>2, <1>3, SequenceLength
<1> QED  BY <1>2, <1>3, <1>4 DEF IsSequence

\* pop_back: the last element goes, the others stay.
LEMMA FrontSequence ==
    ASSUME NEW s, IsSequence(s), Len(s) # 0
    PROVE  /\ IsSequence(SubSeq(s, 1, Len(s) - 1))
           /\ DOMAIN SubSeq(s, 1, Len(s) - 1) = 1..Len(s) - 1
           /\ \A i \in 1..Len(s) - 1 : SubSeq(s, 1, Len(s) - 1)[i] = s[i]
<1> DEFINE S == {s[i] : i \in DOMAIN s}
<1> DEFINE t == SubSeq(s, 1, Len(s) - 1)
<1>1. s \in Seq(S) /\ Len(s) \in Nat  BY SequenceLength DEF IsSequence
<1>2. /\ t \in Seq(S)
      /\ Len(t) = Len(s) - 1
      /\ \A i \in 1..Len(s) - 1 : t[i] = s[i]
  <2> DEFINE n == Len(s) - 1
  <2>1. n \in Int /\ 1 \in Int /\ n - 1 + 1 = n  BY <1>1
  <2>2. \A i \in 1..n : s[i] \in S  BY <1>1, SequenceLength
  <2>3. \A i \in 1..n : 1 + i - 1 = i  OBVIOUS
  <2>4. 1 <= n \/ n = 0
    <3> HIDE DEF S, t
    <3> DEFINE l == Len(s)
    <3>1. l \in Nat /\ l # 0  BY <1>1
    <3> HIDE DEF l
    <3>2. l - 1 >= 1 \/ l - 1 = 0  BY <3>1
    <3> QED  BY <3>2 DEF l
  <2> HIDE DEF S, n
  <2>5. /\ SubSeq(s, 1, n) \in Seq(S)
        /\ Len(SubSeq(s, 1, n)) = IF 1 <= n THEN n - 1 + 1 ELSE 0
        /\ \A i \in 1..n - 1 + 1 : SubSeq(s, 1, n)[i] = s[1 + i - 1]
    BY <2>1, <2>2, SubSeqProperties
  <2> QED  BY <2>1, <2>3, <2>4, <2>5 DEF n
<1>3. DOMAIN t = 1..Len(s) - 1  BY <1>1, <1>2
<1>4. t \in Seq({t[i] : i \in DOMAIN t})
  <2> HIDE DEF t, S
  <2> QED  BY <1>1, <1>2, <1>3
<1> QED  BY <1>2, <1>3, <1>4 DEF IsSequence

\* Writing one element leaves the length and the other elements.
LEMMA ReplaceSequence ==
    ASSUME NEW s, IsSequence(s), NEW k, NEW e
    PROVE  /\ IsSequence([s EXCEPT ![k] = e])
           /\ DOMAIN [s EXCEPT ![k] = e] = DOMAIN s
           /\ \A i \in DOMAIN s : [s EXCEPT ![k] = e][i] = IF i = k THEN e ELSE s[i]
<1> DEFINE t == [s EXCEPT ![k] = e]
<1>1. Len(s) \in Nat /\ DOMAIN s = 1..Len(s) /\ DOMAIN t = DOMAIN s  BY SequenceLength
<1>2. \A i \in DOMAIN s : t[i] = IF i = k THEN e ELSE s[i]  OBVIOUS
<1>3. t = [i \in 1..Len(s) |-> t[i]]  BY <1>1
<1>4. t \in Seq({t[i] : i \in DOMAIN t})
  <2> HIDE DEF t
  <2> QED  BY <1>1, <1>3
<1> QED  BY <1>1, <1>2, <1>4 DEF IsSequence

-----------------------------------------------------------------------------
\* What the methods of an allocator preserve.

\* A new block declares nothing.
LEMMA EmptyBlockIsBlock == IsBlock(EmptyBlock) /\ DOMAIN EmptyBlock = {}
BY FS_EmptySet DEF IsBlock, EmptyBlock

\* The constructor: one empty block and no slots handed out.
LEMMA NewAllocatorOK ==
    ASSUME NEW base, NEW scope
    PROVE  AllocatorOK(NewAllocator(base, scope))
<1> DEFINE a == NewAllocator(base, scope)
<1>1. /\ a = [base |-> base, scope |-> scope, firstFree |-> 0, free |-> <<>>,
              blocks |-> Append(<<>>, EmptyBlock)]
  BY DEF NewAllocator, StartBlock
<1>2. IsSequence(<<>>) /\ Len(<<>>) = 0  BY DEF IsSequence
<1>3. /\ IsSequence(a.blocks)
      /\ DOMAIN a.blocks = {1}
      /\ a.blocks[1] = EmptyBlock
  <2> DEFINE none == <<>>
  <2>1. a.blocks = Append(none, EmptyBlock)  BY <1>1
  <2>2. IsSequence(none) /\ Len(none) = 0  BY <1>2
  <2> HIDE DEF a, none
  <2>3. /\ IsSequence(Append(none, EmptyBlock))
        /\ DOMAIN Append(none, EmptyBlock) = 1..0 + 1
        /\ Append(none, EmptyBlock)[0 + 1] = EmptyBlock
    BY <2>2, AppendSequence
  <2> QED  BY <2>1, <2>3
<1>4. a.firstFree = 0 /\ a.free = <<>>  BY <1>1
<1>5. AllocatorType(a)
  <2>1. a \in [base : {a.base}, scope : {a.scope}, firstFree : Nat,
               free : Seq(Nat), blocks : {a.blocks}]
    BY <1>1
  <2> HIDE DEF a
  <2> QED  BY <1>3, <2>1, EmptyBlockIsBlock DEF AllocatorType
<1>6. LiveSlotsDistinct(a) /\ LiveSlotsTaken(a)
  <2> HIDE DEF a
  <2> QED  BY <1>3, EmptyBlockIsBlock DEF LiveSlotsDistinct, LiveSlotsTaken
<1>7. FreeSlotsDistinct(a)
  <2> HIDE DEF a
  <2> QED  BY <1>4 DEF FreeSlotsDistinct
<1> QED  BY <1>5, <1>6, <1>7 DEF AllocatorOK

\* startBlock leaves every slot as it is.
LEMMA StartBlockOK ==
    ASSUME NEW a, AllocatorOK(a)
    PROVE  AllocatorOK(StartBlock(a))
<1> DEFINE b == StartBlock(a)
<1> DEFINE n == Len(a.blocks)
<1>1. AllocatorType(a)  BY DEF AllocatorOK
<1>2. b = [base |-> a.base, scope |-> a.scope, firstFree |-> a.firstFree,
           free |-> a.free, blocks |-> Append(a.blocks, EmptyBlock)]
  <2>1. a \in [base : {a.base}, scope : {a.scope}, firstFree : Nat,
               free : Seq(Nat), blocks : {a.blocks}]
    BY <1>1 DEF AllocatorType
  <2> DEFINE blocks == Append(a.blocks, EmptyBlock)
  <2>2. b = [a EXCEPT !.blocks = blocks]  BY DEF StartBlock
  <2> HIDE DEF b, blocks
  <2>3. b = [base |-> a.base, scope |-> a.scope, firstFree |-> a.firstFree,
             free |-> a.free, blocks |-> blocks]
    BY <2>1, <2>2
  <2> QED  BY <2>3 DEF blocks
<1>3. n \in Nat /\ DOMAIN a.blocks = 1..n
  BY <1>1, SequenceLength DEF AllocatorType
<1>4. /\ IsSequence(b.blocks)
      /\ DOMAIN b.blocks = 1..n + 1
      /\ \A i \in 1..n : b.blocks[i] = a.blocks[i]
      /\ b.blocks[n + 1] = EmptyBlock
  <2>1. b.blocks = Append(a.blocks, EmptyBlock)  BY <1>2
  <2>2. IsSequence(a.blocks)  BY <1>1 DEF AllocatorType
  <2> HIDE DEF b
  <2> QED  BY <2>1, <2>2, AppendSequence
<1>5. b.firstFree = a.firstFree /\ b.free = a.free  BY <1>2
<1>6. b \in [base : {b.base}, scope : {b.scope}, firstFree : Nat,
             free : Seq(Nat), blocks : {b.blocks}]
  BY <1>1, <1>2 DEF AllocatorType
<1> HIDE DEF b, n
<1>7. \A i \in DOMAIN b.blocks :
         \/ i \in DOMAIN a.blocks /\ b.blocks[i] = a.blocks[i]
         \/ b.blocks[i] = EmptyBlock
  BY <1>3, <1>4
<1>8. AllocatorType(b)
  BY <1>1, <1>4, <1>5, <1>6, <1>7, EmptyBlockIsBlock DEF AllocatorType
<1>9. LiveSlotsDistinct(b)
  BY <1>7, EmptyBlockIsBlock DEF AllocatorOK, LiveSlotsDistinct
<1>10. LiveSlotsTaken(b)
  BY <1>5, <1>7, EmptyBlockIsBlock DEF AllocatorOK, LiveSlotsTaken
<1>11. FreeSlotsDistinct(b)  BY <1>5 DEF AllocatorOK, FreeSlotsDistinct
<1> QED  BY <1>8, <1>9, <1>10, <1>11 DEF AllocatorOK, b

\* The slots that FreeAll puts on the free list are those of the block it
\* removes, each once.
LEMMA EndBlockOK ==
    ASSUME NEW a, AllocatorOK(a), NEW b \in EndBlock(a)
    PROVE  AllocatorOK(b)
<1> DEFINE n == Len(a.blocks)
<1> DEFINE top == a.blocks[n]
<1>1. AllocatorType(a)  BY DEF AllocatorOK
<1>2. /\ a \in [base : {a.base}, scope : {a.scope}, firstFree : Nat,
                free : Seq(Nat), blocks : {a.blocks}]
      /\ IsSequence(a.blocks)
      /\ n \in Nat /\ DOMAIN a.blocks = 1..n
  BY <1>1, SequenceLength DEF AllocatorType
<1>3. n > 1  BY <1>2 DEF EndBlock
<1>4. PICK s \in Orders(DOMAIN top) : b = FreeAll(a, s)
  BY <1>2, <1>3 DEF EndBlock, TopBlock
<1> DEFINE freed == [i \in DOMAIN s |-> top[s[i]]]
<1>5. IsBlock(top)  BY <1>1, <1>2, <1>3 DEF AllocatorType
<1> DEFINE m == Cardinality(DOMAIN top)
<1>6. m \in Nat  BY <1>5, FS_CardinalityType DEF IsBlock
<1>7. /\ s \in [1..m -> DOMAIN top]
      /\ \A i, j \in 1..m : s[i] = s[j] => i = j
  BY <1>4 DEF Orders
<1>8. /\ freed \in Seq(Nat)
      /\ Len(freed) = m
      /\ \A i \in 1..m : freed[i] = top[s[i]] /\ s[i] \in DOMAIN top
  <2>1. freed \in [1..m -> Nat]  BY <1>5, <1>7 DEF IsBlock
  <2> HIDE DEF freed, m
  <2>2. freed \in Seq(Nat) /\ Len(freed) = m  BY <1>6, <2>1
  <2> QED  BY <1>7, <2>2 DEF freed
<1>9. b = [base |-> a.base, scope |-> a.scope, firstFree |-> a.firstFree,
           free |-> a.free \o freed, blocks |-> SubSeq(a.blocks, 1, n - 1)]
  BY <1>2, <1>4 DEF FreeAll, TopBlock
<1> HIDE DEF freed, m
<1>10. /\ IsSequence(b.blocks)
       /\ DOMAIN b.blocks = 1..n - 1
       /\ \A i \in 1..n - 1 : b.blocks[i] = a.blocks[i]
  <2>1. b.blocks = SubSeq(a.blocks, 1, n - 1) /\ n # 0  BY <1>3, <1>9
  <2> QED  BY <1>2, <2>1, FrontSequence
<1> DEFINE k == Len(a.free)
<1>11. /\ b.free \in Seq(Nat)
       /\ k \in Nat
       /\ DOMAIN a.free = 1..k
       /\ DOMAIN b.free = 1..k + m
       /\ \A i \in 1..k : b.free[i] = a.free[i]
       /\ \A i \in k + 1..k + m : b.free[i] = freed[i - k]
  <2>1. b.free = a.free \o freed  BY <1>9
  <2>2. a.free \in Seq(Nat) /\ k \in Nat /\ DOMAIN a.free = 1..k  BY <1>2
  <2> HIDE DEF k
  <2>3. /\ Len(b.free) = k + m /\ b.free \in Seq(Nat)
        /\ \A i \in 1..k + m : b.free[i] = IF i <= k THEN a.free[i] ELSE freed[i - k]
    <3> DEFINE s1 == a.free
    <3>1. s1 \in Seq(Nat) /\ Len(s1) = k  BY <2>2 DEF k
    <3>2. b.free = s1 \o freed  BY <2>1
    <3> HIDE DEF s1
    <3>3. /\ s1 \o freed \in Seq(Nat)
          /\ Len(s1 \o freed) = Len(s1) + Len(freed)
          /\ \A i \in 1..Len(s1) + Len(freed) :
               (s1 \o freed)[i] = IF i <= Len(s1) THEN s1[i] ELSE freed[i - Len(s1)]
      BY <1>8, <3>1, ConcatProperties
    <3> QED  BY <1>8, <3>1, <3>2, <3>3 DEF s1
  <2>4. DOMAIN b.free = 1..k + m  BY <2>3
  <2>5. \A i \in 1..k : i \in 1..k + m /\ i <= k  BY <1>6, <2>2
  <2>6. \A i \in k + 1..k + m : i \in 1..k + m /\ ~(i <= k)  BY <1>6, <2>2
  <2> QED  BY <2>2, <2>3, <2>4, <2>5, <2>6
<1>12. \A i \in DOMAIN b.free :
         \/ i \in DOMAIN a.free /\ b.free[i] = a.free[i]
         \/ /\ i - k \in 1..m
            /\ s[i - k] \in DOMAIN top
            /\ b.free[i] = top[s[i - k]]
  <2> SUFFICES ASSUME NEW i \in DOMAIN b.free
               PROVE  \/ i \in DOMAIN a.free /\ b.free[i] = a.free[i]
                      \/ /\ i - k \in 1..m
                         /\ s[i - k] \in DOMAIN top
                         /\ b.free[i] = top[s[i - k]]
    OBVIOUS
  <2> HIDE DEF k, top
  <2>1. CASE i \in 1..k  BY <1>11, <2>1
  <2>2. CASE i \in k + 1..k + m
    <3>1. i - k \in 1..m  BY <1>6, <1>11, <2>2
    <3> QED  BY <1>8, <1>11, <2>2, <3>1
  <2>3. i \in 1..k \/ i \in k + 1..k + m  BY <1>6, <1>11
  <2> QED  BY <2>1, <2>2, <2>3
<1>13. b.firstFree = a.firstFree  BY <1>9
<1>14. b \in [base : {b.base}, scope : {b.scope}, firstFree : Nat,
              free : Seq(Nat), blocks : {b.blocks}]
  BY <1>2, <1>9, <1>11
<1>15. \A i \in DOMAIN b.blocks :
         i \in DOMAIN a.blocks /\ i # n /\ b.blocks[i] = a.blocks[i]
  BY <1>2, <1>10
<1>16. AllocatorType(b)  BY <1>1, <1>10, <1>14, <1>15 DEF AllocatorType
<1>17. n \in DOMAIN a.blocks  BY <1>2, <1>3
<1>18. LiveSlotsDistinct(b)  BY <1>15 DEF AllocatorOK, LiveSlotsDistinct
<1>19. LiveSlotsTaken(b)
  <2> SUFFICES ASSUME NEW i \in DOMAIN b.blocks, NEW x \in DOMAIN b.blocks[i]
               PROVE  /\ b.blocks[i][x] < b.firstFree
                      /\ \A f \in DOMAIN b.free : b.free[f] # b.blocks[i][x]
    BY DEF LiveSlotsTaken
  <2>1. i \in DOMAIN a.blocks /\ i # n /\ b.blocks[i] = a.blocks[i]  BY <1>15
  <2>2. \A f \in DOMAIN a.free : a.free[f] # a.blocks[i][x]
    BY <2>1 DEF AllocatorOK, LiveSlotsTaken
  <2>3. \A y \in DOMAIN top : top[y] # a.blocks[i][x]
    BY <1>17, <2>1 DEF AllocatorOK, LiveSlotsDistinct
  <2>4. b.blocks[i][x] < b.firstFree
    BY <1>13, <2>1 DEF AllocatorOK, LiveSlotsTaken
  <2> QED  BY <1>12, <2>1, <2>2, <2>3, <2>4
<1>20. FreeSlotsDistinct(b)
  <2>1. \A f \in DOMAIN b.free : b.free[f] < b.firstFree
    BY <1>12, <1>13, <1>17 DEF AllocatorOK, LiveSlotsTaken, FreeSlotsDistinct
  <2>2. ASSUME NEW f \in DOMAIN b.free, NEW g \in DOMAIN b.free, b.free[f] = b.free[g]
        PROVE  f = g
    <3>1. \A x, y \in DOMAIN top : top[x] = top[y] => x = y
      BY <1>17 DEF AllocatorOK, LiveSlotsDistinct
    <3>2. \A h \in DOMAIN a.free, x \in DOMAIN top : a.free[h] # top[x]
      BY <1>17 DEF AllocatorOK, LiveSlotsTaken
    <3>3. \A g1, g2 \in DOMAIN a.free : a.free[g1] = a.free[g2] => g1 = g2
      BY DEF AllocatorOK, FreeSlotsDistinct
    <3>4. CASE f \in DOMAIN a.free /\ b.free[f] = a.free[f]
      BY <1>12, <2>2, <3>2, <3>3, <3>4
    <3>5. CASE /\ f - k \in 1..m
               /\ s[f - k] \in DOMAIN top
               /\ b.free[f] = top[s[f - k]]
      <4>1. /\ g - k \in 1..m
            /\ s[g - k] \in DOMAIN top
            /\ b.free[g] = top[s[g - k]]
        BY <1>12, <2>2, <3>2, <3>5
      <4>2. s[f - k] = s[g - k]  BY <2>2, <3>1, <3>5, <4>1
      <4>3. f - k = g - k  BY <1>7, <3>5, <4>1, <4>2
      <4> QED  BY <1>6, <1>11, <4>3
    <3> QED  BY <1>12, <3>4, <3>5
  <2> QED  BY <2>1, <2>2 DEF FreeSlotsDistinct
<1> QED  BY <1>16, <1>18, <1>19, <1>20 DEF AllocatorOK

\* A slot taken from the free list, or the next one never used, is no
\* other variable's.
LEMMA AllocOK ==
    ASSUME NEW a, AllocatorOK(a), NEW name, CanAlloc(a, name)
    PROVE  AllocatorOK(Alloc(a, name))
<1> DEFINE b == Alloc(a, name)
<1> DEFINE n == Len(a.blocks)
<1> DEFINE k == Len(a.free)
<1> DEFINE slot == NextSlot(a)
<1> DEFINE old == a.blocks[n]
<1> DEFINE new == [x \in DOMAIN old \cup {name} |-> IF x = name THEN slot ELSE old[x]]
<1>1. AllocatorType(a)  BY DEF AllocatorOK
<1>2. /\ a \in [base : {a.base}, scope : {a.scope}, firstFree : Nat,
                free : Seq(Nat), blocks : {a.blocks}]
      /\ IsSequence(a.blocks)
      /\ n \in Nat /\ DOMAIN a.blocks = 1..n
      /\ k \in Nat /\ DOMAIN a.free = 1..k
  BY <1>1, SequenceLength DEF AllocatorType
<1> DEFINE free == IF a.free # <<>> THEN SubSeq(a.free, 1, k - 1) ELSE a.free
<1> DEFINE firstFree == IF a.free # <<>> THEN a.firstFree ELSE a.firstFree + 1
<1>3. b = [base |-> a.base, scope |-> a.scope, firstFree |-> firstFree,
           free |-> free, blocks |-> [a.blocks EXCEPT ![n] = new]]
  <2>1. b = [a EXCEPT !.free = free, !.firstFree = firstFree, !.blocks[n] = new]
    BY DEF Alloc
  <2> HIDE DEF b, n, free, firstFree, new
  <2> QED  BY <1>2, <2>1
<1>4. /\ slot \in Nat /\ slot < firstFree
      /\ \A i \in DOMAIN a.blocks : \A x \in DOMAIN a.blocks[i] : a.blocks[i][x] # slot
      /\ free \in Seq(Nat)
      /\ \A f \in DOMAIN free : /\ f \in DOMAIN a.free
                                /\ free[f] = a.free[f]
                                /\ free[f] # slot
      /\ firstFree \in Nat /\ a.firstFree <= firstFree
  <2>1. CASE a.free = <<>>
    <3>1. slot = a.firstFree /\ free = <<>> /\ firstFree = a.firstFree + 1
      BY <2>1 DEF NextSlot
    <3>2. \A i \in DOMAIN a.blocks : \A x \in DOMAIN a.blocks[i] :
            a.blocks[i][x] < a.firstFree /\ a.blocks[i][x] \in Nat
      BY <1>1 DEF AllocatorOK, LiveSlotsTaken, AllocatorType, IsBlock
    <3> HIDE DEF slot, free, firstFree
    <3> QED  BY <1>2, <3>1, <3>2
  <2>2. CASE a.free # <<>>
    <3>1. slot = a.free[k] /\ firstFree = a.firstFree /\ free = SubSeq(a.free, 1, k - 1)
      BY <2>2 DEF NextSlot
    <3>2. k # 0 /\ k \in DOMAIN a.free  BY <1>2, <2>2
    <3>3. IsSequence(a.free)  BY <1>2, SeqIsSequence
    <3>4. /\ DOMAIN free = 1..k - 1
          /\ \A f \in 1..k - 1 : free[f] = a.free[f]
      BY <3>1, <3>2, <3>3, FrontSequence
    <3>5. free \in Seq(Nat)
      <4>1. free \in Seq({free[f] : f \in DOMAIN free})
        <5>1. IsSequence(SubSeq(a.free, 1, k - 1))  BY <3>2, <3>3, FrontSequence
        <5> QED  BY <3>1, <5>1 DEF IsSequence
      <4>2. \A f \in DOMAIN free : free[f] \in Nat  BY <1>2, <3>4
      <4> HIDE DEF free
      <4> QED  BY <4>1, <4>2
    <3> HIDE DEF slot, free, firstFree
    <3>6. \A f \in DOMAIN free : f \in DOMAIN a.free /\ f # k  BY <1>2, <3>4
    <3>7. \A f \in DOMAIN free : free[f] # slot
      BY <3>1, <3>2, <3>4, <3>6 DEF AllocatorOK, FreeSlotsDistinct
    <3>8. slot \in Nat /\ slot < a.firstFree
      BY <1>2, <3>1, <3>2 DEF AllocatorOK, FreeSlotsDistinct
    <3>9. \A i \in DOMAIN a.blocks : \A x \in DOMAIN a.blocks[i] : a.blocks[i][x] # slot
      BY <3>1, <3>2 DEF AllocatorOK, LiveSlotsTaken
    <3> QED  BY <1>2, <3>1, <3>4, <3>5, <3>6, <3>7, <3>8, <3>9
  <2> QED  BY <2>1, <2>2
<1> HIDE DEF slot, free, firstFree
<1>5. b.free = free /\ b.firstFree = firstFree  BY <1>3
<1>6. /\ IsSequence(b.blocks)
      /\ DOMAIN b.blocks = DOMAIN a.blocks
      /\ \A i \in DOMAIN a.blocks : b.blocks[i] = IF i = n THEN new ELSE a.blocks[i]
  <2>1. b.blocks = [a.blocks EXCEPT ![n] = new]  BY <1>3
  <2> HIDE DEF b, new
  <2>2. LET t == [a.blocks EXCEPT ![n] = new]
        IN  /\ IsSequence(t)
            /\ DOMAIN t = DOMAIN a.blocks
            /\ \A i \in DOMAIN a.blocks : t[i] = IF i = n THEN new ELSE a.blocks[i]
    BY <1>2, ReplaceSequence
  <2> QED  BY <2>1, <2>2
<1>7. b \in [base : {b.base}, scope : {b.scope}, firstFree : Nat,
             free : Seq(Nat), blocks : {b.blocks}]
  BY <1>3, <1>4, <1>5
<1>8. n \in DOMAIN a.blocks => IsBlock(new)
  <2> SUFFICES ASSUME n \in DOMAIN a.blocks
               PROVE  IsBlock(new)
    OBVIOUS
  <2>1. IsBlock(old)  BY <1>1 DEF AllocatorType
  <2>2. IsFiniteSet(DOMAIN old \cup {name})  BY <2>1, FS_AddElement DEF IsBlock
  <2>3. \A x \in DOMAIN new : new[x] \in Nat  BY <1>4, <2>1 DEF IsBlock
  <2> QED  BY <2>2, <2>3 DEF IsBlock
<1>9. \A i \in DOMAIN a.blocks : \A x \in DOMAIN b.blocks[i] :
         \/ i = n /\ x = name /\ b.blocks[i][x] = slot
         \/ x \in DOMAIN a.blocks[i] /\ b.blocks[i][x] = a.blocks[i][x]
  <2> SUFFICES ASSUME NEW i \in DOMAIN a.blocks, NEW x \in DOMAIN b.blocks[i]
               PROVE  \/ i = n /\ x = name /\ b.blocks[i][x] = slot
                      \/ x \in DOMAIN a.blocks[i] /\ b.blocks[i][x] = a.blocks[i][x]
    OBVIOUS
  <2>1. CASE i # n  BY <1>6, <2>1
  <2>2. CASE i = n
    <3>1. b.blocks[i] = new  BY <1>6, <2>2
    <3>2. /\ x \in DOMAIN old \cup {name}
          /\ b.blocks[i][x] = IF x = name THEN slot ELSE old[x]
      <4> HIDE DEF b, old
      <4> QED  BY <3>1
    <3> HIDE DEF b, new
    <3> QED  BY <2>2, <3>2
  <2> QED  BY <2>1, <2>2
<1> HIDE DEF b, new
<1>10. AllocatorType(b)
  <2>1. \A i \in DOMAIN b.blocks : IsBlock(b.blocks[i])
    BY <1>1, <1>6, <1>8 DEF AllocatorType
  <2> QED  BY <1>6, <1>7, <2>1 DEF AllocatorType
<1>11. LiveSlotsDistinct(b)
  BY <1>4, <1>6, <1>9 DEF AllocatorOK, LiveSlotsDistinct
<1>12. LiveSlotsTaken(b)
  <2> SUFFICES ASSUME NEW i \in DOMAIN a.blocks, NEW x \in DOMAIN b.blocks[i]
               PROVE  /\ b.blocks[i][x] < b.firstFree
                      /\ \A f \in DOMAIN b.free : b.free[f] # b.blocks[i][x]
    BY <1>6 DEF LiveSlotsTaken
  <2>1. CASE b.blocks[i][x] = slot  BY <1>4, <1>5, <2>1
  <2>2. CASE x \in DOMAIN a.blocks[i] /\ b.blocks[i][x] = a.blocks[i][x]
    <3>1. /\ a.blocks[i][x] < a.firstFree
          /\ \A f \in DOMAIN a.free : a.free[f] # a.blocks[i][x]
      BY <2>2 DEF AllocatorOK, LiveSlotsTaken
    <3>2. a.blocks[i][x] \in Nat /\ a.firstFree \in Nat
      BY <1>1, <1>2, <2>2 DEF AllocatorType, IsBlock
    <3> QED  BY <1>4, <1>5, <2>2, <3>1, <3>2
  <2> QED  BY <1>9, <2>1, <2>2
<1>13. FreeSlotsDistinct(b)
  <2> SUFFICES ASSUME NEW f \in DOMAIN free
               PROVE  /\ free[f] < firstFree
                      /\ \A g \in DOMAIN free : free[f] = free[g] => f = g
    BY <1>5 DEF FreeSlotsDistinct
  <2>1. a.free[f] < a.firstFree /\ a.free[f] \in Nat /\ a.firstFree \in Nat
    BY <1>2, <1>4 DEF AllocatorOK, FreeSlotsDistinct
  <2>2. free[f] < firstFree  BY <1>4, <2>1
  <2>3. \A g \in DOMAIN free : free[f] = free[g] => f = g
    BY <1>4 DEF AllocatorOK, FreeSlotsDistinct
  <2> QED  BY <2>2, <2>3
<1> QED  BY <1>10, <1>11, <1>12, <1>13 DEF AllocatorOK, b

-----------------------------------------------------------------------------
\* What the methods of the code generator preserve.

\* Code that stays where it is remains the code of its function.
LEMMA FunctionCodeStays ==
    ASSUME NEW program, NEW new, NEW p \in Nat, NEW e \in Nat, p + 2 <= e,
           \A i \in p + 1..e : new[i] = program[i],
           FunctionCode(program, p, e)
    PROVE  FunctionCode(new, p, e)
<1>1. p + 2 \in p + 1..e /\ e - 1 \in p + 1..e  OBVIOUS
<1>2. new[p + 2] = program[p + 2] /\ new[e - 1] = program[e - 1]  BY <1>1
<1>3. \A q \in p..e - 1 : q + 1 \in p + 1..e  OBVIOUS
<1>4. \A q \in p..e - 1 : new[q + 1] = program[q + 1]  BY <1>3
<1>5. \A q \in p + 1..e - 1 : q \in p..e - 1  OBVIOUS
<1> QED  BY <1>2, <1>4, <1>5 DEF FunctionCode

\* FunctionCode with the size of the frame given a name.
LEMMA FunctionCodeIs ==
    ASSUME NEW program, NEW p, NEW e, NEW frame \in Nat,
           Disasm(program[p + 2]).imm = frame,
           program[p + 2] = Addfp(frame), program[e - 1] = Addfp(-frame),
           \A q \in p..e - 1 : Within(program[q + 1], frame),
           \A q \in p + 1..e - 1 : program[q + 1] # Lppc
    PROVE  FunctionCode(program, p, e)
BY DEF FunctionCode

\* push_back of a word, or a throw.
LEMMA PushBackType ==
    ASSUME NEW g, GeneratorType(g), NEW w, w = Throws \/ w \in CodeWord
    PROVE  LET h == PushBack(g, w)
           IN  /\ GeneratorType(h)
               /\ h.refs = g.refs /\ h.labels = g.labels /\ h.fpAdds = g.fpAdds
               /\ \/ /\ w = Throws /\ ~h.ok /\ h.program = g.program
                  \/ /\ w \in CodeWord /\ h.ok = g.ok
                     /\ Len(h.program) = Len(g.program) + 1
                     /\ \A i \in 1..Len(g.program) : h.program[i] = g.program[i]
                     /\ h.program[Len(g.program) + 1] = w
<1> DEFINE h == PushBack(g, w)
<1>1. g \in [program : Seq(CodeWord), labels : {g.labels}, refs : {g.refs},
             fpAdds : Seq(Nat), ok : BOOLEAN]
  BY DEF GeneratorType
<1>2. CASE w = Throws
  <2>1. h = [g EXCEPT !.ok = FALSE]  BY <1>2 DEF PushBack
  <2> HIDE DEF h
  <2>2. h = [program |-> g.program, labels |-> g.labels, refs |-> g.refs,
             fpAdds |-> g.fpAdds, ok |-> FALSE]
    BY <1>1, <2>1
  <2>3. h \in [program : Seq(CodeWord), labels : {h.labels}, refs : {h.refs},
               fpAdds : Seq(Nat), ok : BOOLEAN]
    BY <1>1, <2>2
  <2>4. GeneratorType(h)  BY <2>2, <2>3 DEF GeneratorType
  <2> QED  BY <1>2, <2>2, <2>4 DEF h
<1>3. CASE w \in CodeWord
  <2>1. w # Throws  BY <1>3, CodeWordIsWord
  <2> DEFINE new == Append(g.program, w)
  <2>2. h = [g EXCEPT !.program = new]  BY <2>1 DEF PushBack
  <2>3. /\ new \in Seq(CodeWord)
        /\ Len(new) = Len(g.program) + 1
        /\ \A i \in 1..Len(g.program) : new[i] = g.program[i]
        /\ new[Len(g.program) + 1] = w
    BY <1>1, <1>3
  <2> HIDE DEF h, new
  <2>4. h = [program |-> new, labels |-> g.labels, refs |-> g.refs,
             fpAdds |-> g.fpAdds, ok |-> g.ok]
    BY <1>1, <2>2
  <2>5. h \in [program : Seq(CodeWord), labels : {h.labels}, refs : {h.refs},
               fpAdds : Seq(Nat), ok : BOOLEAN]
    BY <1>1, <2>3, <2>4
  <2>6. GeneratorType(h)  BY <2>4, <2>5 DEF GeneratorType
  <2> QED  BY <1>3, <2>3, <2>4, <2>6 DEF h
<1> QED  BY <1>2, <1>3

\* The words of a growing program that stay.
Grown(program, new, w) ==
    /\ program \in Seq(CodeWord) /\ new \in Seq(CodeWord)
    /\ Len(new) = Len(program) + 1
    /\ \A i \in 1..Len(program) : new[i] = program[i]
    /\ new[Len(program) + 1] = w

\* A word of a body leaves the functions as they are.
LEMMA GrownNoFunctions ==
    ASSUME NEW program, NEW new, NEW w, Grown(program, new, w), w # Lppc,
           NoFunctions(program)
    PROVE  NoFunctions(new)
<1>1. /\ Len(program) \in Nat /\ DOMAIN program = 1..Len(program)
      /\ DOMAIN new = 1..Len(program) + 1
  BY DEF Grown
<1>2. \A i \in DOMAIN new : i \in 1..Len(program) \/ i = Len(program) + 1  BY <1>1
<1> QED  BY <1>1, <1>2 DEF Grown, NoFunctions

\* A word of the function's body leaves the function open.
LEMMA GrownFunctionOpen ==
    ASSUME NEW g, NEW h, NEW w, NEW limit, Grown(g.program, h.program, w),
           w # Lppc, Within(w, limit), h.fpAdds = g.fpAdds,
           \A l \in DOMAIN h.refs : \A k \in DOMAIN h.refs[l] :
              \/ l \in DOMAIN g.refs /\ k \in DOMAIN g.refs[l] /\ h.refs[l][k] = g.refs[l][k]
              \/ h.refs[l][k] = Len(g.program),
           FunctionOpen(g, limit)
    PROVE  FunctionOpen(h, limit)
<1> DEFINE f == g.fpAdds[1] - 1
<1> DEFINE P == g.program
<1> DEFINE Q == h.program
<1> DEFINE n == Len(P)
<1>1. n \in Nat /\ Len(Q) = n + 1 /\ Q[n + 1] = w /\ \A i \in 1..n : Q[i] = P[i]
  BY DEF Grown
<1>2. /\ f \in 0..n - 2
      /\ P[f + 1] = Lppc
      /\ \A l \in DOMAIN g.refs : \A k \in DOMAIN g.refs[l] : g.refs[l][k] # f + 1
      /\ \A q \in f..n - 1 : Within(P[q + 1], limit)
      /\ \A q \in f + 1..n - 1 : P[q + 1] # Lppc
      /\ \A p \in 0..f - 1 : P[p + 1] = Lppc =>
           \E e \in p + 2..f : FunctionCode(P, p, e) /\ P[e + 1] = Lppc
  BY DEF FunctionOpen
<1>3. h.fpAdds[1] - 1 = f  OBVIOUS
<1> HIDE DEF f, P, Q, n
<1>4. f \in 0..Len(Q) - 2 /\ f + 1 \in 1..n /\ f + 1 # n  BY <1>1, <1>2
<1>5. Q[f + 1] = Lppc  BY <1>1, <1>2, <1>4
<1>6. \A l \in DOMAIN h.refs : \A k \in DOMAIN h.refs[l] : h.refs[l][k] # f + 1
  BY <1>2, <1>4 DEF n, P
<1>7. \A q \in f..Len(Q) - 1 : Within(Q[q + 1], limit)
  <2> TAKE q \in f..Len(Q) - 1
  <2>1. CASE q = n  BY <1>1, <2>1
  <2>2. CASE q # n
    <3>1. q \in f..n - 1 /\ q + 1 \in 1..n  BY <1>1, <1>2, <2>2
    <3> QED  BY <1>1, <1>2, <3>1
  <2> QED  BY <2>1, <2>2
<1>8. \A q \in f + 1..Len(Q) - 1 : Q[q + 1] # Lppc
  <2> TAKE q \in f + 1..Len(Q) - 1
  <2>1. CASE q = n  BY <1>1, <2>1
  <2>2. CASE q # n
    <3>1. q \in f + 1..n - 1 /\ q + 1 \in 1..n  BY <1>1, <1>2, <2>2
    <3> QED  BY <1>1, <1>2, <3>1
  <2> QED  BY <2>1, <2>2
<1>9. \A p \in 0..f - 1 : Q[p + 1] = Lppc =>
        \E e \in p + 2..f : FunctionCode(Q, p, e) /\ Q[e + 1] = Lppc
  <2> SUFFICES ASSUME NEW p \in 0..f - 1, Q[p + 1] = Lppc
               PROVE  \E e \in p + 2..f : FunctionCode(Q, p, e) /\ Q[e + 1] = Lppc
    OBVIOUS
  <2>1. p + 1 \in 1..n  BY <1>1, <1>2
  <2>2. P[p + 1] = Lppc  BY <1>1, <2>1
  <2>3. PICK e \in p + 2..f : FunctionCode(P, p, e) /\ P[e + 1] = Lppc  BY <1>2, <2>2
  <2>4. /\ p \in Nat /\ e \in Nat /\ p + 2 <= e /\ e + 1 \in 1..n
        /\ \A i \in p + 1..e : i \in 1..n
    BY <1>1, <1>2
  <2>5. FunctionCode(Q, p, e)  BY <1>1, <2>3, <2>4, FunctionCodeStays
  <2> QED  BY <1>1, <2>3, <2>4, <2>5
<1> QED  BY <1>3, <1>4, <1>5, <1>6, <1>7, <1>8, <1>9 DEF FunctionOpen, Q

\* References to words that stay are as good as before.
LEMMA GrownRefs ==
    ASSUME NEW g, NEW h, NEW w, Grown(g.program, h.program, w), h.refs = g.refs,
           GeneratorType(g), RefsOK(g)
    PROVE  RefsOK(h)
<1>1. \A l \in DOMAIN g.refs : \A k \in DOMAIN g.refs[l] :
        /\ g.refs[l][k] \in Nat /\ g.refs[l][k] < Len(g.program)
        /\ g.program[g.refs[l][k] + 1] = 0
  BY DEF RefsOK, GeneratorType
<1>2. /\ Len(g.program) \in Nat /\ Len(h.program) = Len(g.program) + 1
      /\ \A i \in 1..Len(g.program) : h.program[i] = g.program[i]
  BY DEF Grown
<1>3. \A l \in DOMAIN h.refs : \A k \in DOMAIN h.refs[l] :
        h.refs[l][k] < Len(h.program) /\ h.program[h.refs[l][k] + 1] = 0
  <2> SUFFICES ASSUME NEW l \in DOMAIN g.refs, NEW k \in DOMAIN g.refs[l]
               PROVE  /\ g.refs[l][k] < Len(h.program)
                      /\ h.program[g.refs[l][k] + 1] = 0
    OBVIOUS
  <2> DEFINE r == g.refs[l][k]
  <2>1. r \in Nat /\ r < Len(g.program) /\ g.program[r + 1] = 0  BY <1>1
  <2> HIDE DEF r
  <2>2. r + 1 \in 1..Len(g.program)  BY <1>2, <2>1
  <2>3. r < Len(h.program) /\ h.program[r + 1] = 0  BY <1>2, <2>1, <2>2
  <2> QED  BY <2>3 DEF r
<1> QED  BY <1>3 DEF RefsOK

\* A word of the body in hand, or a throw.
LEMMA PushBackOK ==
    ASSUME NEW g, NEW mode \in {"globals", "function"}, NEW limit, NEW w,
           GeneratorOK(g, mode, limit), w = Throws \/ BodyWord(w, limit)
    PROVE  /\ GeneratorOK(PushBack(g, w), mode, limit)
           /\ PushBack(g, w).ok => g.ok
<1> DEFINE h == PushBack(g, w)
<1>1. GeneratorType(g) /\ RefsOK(g)  BY DEF GeneratorOK
<1>2. w = Throws \/ w \in CodeWord  BY DEF BodyWord
<1>3. /\ GeneratorType(h)
      /\ h.refs = g.refs /\ h.labels = g.labels /\ h.fpAdds = g.fpAdds
      /\ \/ /\ w = Throws /\ ~h.ok /\ h.program = g.program
         \/ /\ w \in CodeWord /\ h.ok = g.ok
            /\ Len(h.program) = Len(g.program) + 1
            /\ \A i \in 1..Len(g.program) : h.program[i] = g.program[i]
            /\ h.program[Len(g.program) + 1] = w
  BY <1>1, <1>2, PushBackType
<1> HIDE DEF h
<1>4. ASSUME h.program = g.program
      PROVE  GeneratorOK(h, mode, limit)
  <2>1. RefsOK(h)  BY <1>1, <1>3, <1>4 DEF RefsOK
  <2>2. mode = "globals" => h.fpAdds = <<>> /\ NoFunctions(h.program)
    BY <1>3, <1>4 DEF GeneratorOK
  <2>3. mode = "function" => Len(h.fpAdds) = 1 /\ FunctionOpen(h, limit)
    BY <1>3, <1>4 DEF GeneratorOK, FunctionOpen
  <2>4. mode # "between"  OBVIOUS
  <2> QED  BY <1>3, <2>1, <2>2, <2>3, <2>4 DEF GeneratorOK
<1>5. ASSUME h.program # g.program
      PROVE  GeneratorOK(h, mode, limit)
  <2>1. Grown(g.program, h.program, w) /\ w \in CodeWord
    BY <1>1, <1>3, <1>5 DEF Grown, GeneratorType
  <2>2. w # Throws  BY <2>1, CodeWordIsWord
  <2>3. w # Lppc /\ Within(w, limit)  BY <2>2 DEF BodyWord
  <2>4. RefsOK(h)  BY <1>1, <1>3, <2>1, GrownRefs
  <2>5. mode = "globals" => h.fpAdds = <<>> /\ NoFunctions(h.program)
    BY <1>3, <2>1, <2>3, GrownNoFunctions DEF GeneratorOK
  <2>6. ASSUME mode = "function"
        PROVE  Len(h.fpAdds) = 1 /\ FunctionOpen(h, limit)
    <3>1. Len(g.fpAdds) = 1 /\ FunctionOpen(g, limit)  BY <2>6 DEF GeneratorOK
    <3>2. \A l \in DOMAIN h.refs : \A k \in DOMAIN h.refs[l] :
            l \in DOMAIN g.refs /\ k \in DOMAIN g.refs[l] /\ h.refs[l][k] = g.refs[l][k]
      BY <1>3
    <3>3. FunctionOpen(h, limit)  BY <1>3, <2>1, <2>3, <3>1, <3>2, GrownFunctionOpen
    <3> QED  BY <1>3, <3>1, <3>3
  <2>7. mode # "between"  OBVIOUS
  <2> QED  BY <1>3, <2>4, <2>5, <2>6, <2>7 DEF GeneratorOK
<1>6. h.ok => g.ok  BY <1>3
<1> QED  BY <1>4, <1>5, <1>6 DEF h

\* Two words after one another.
LEMMA PushBackTwiceOK ==
    ASSUME NEW g, NEW mode \in {"globals", "function"}, NEW limit, NEW v, NEW w,
           GeneratorOK(g, mode, limit),
           v = Throws \/ BodyWord(v, limit), w = Throws \/ BodyWord(w, limit)
    PROVE  /\ GeneratorOK(PushBack(PushBack(g, v), w), mode, limit)
           /\ PushBack(PushBack(g, v), w).ok => g.ok
<1> DEFINE h == PushBack(g, v)
<1>1. GeneratorOK(h, mode, limit) /\ (h.ok => g.ok)  BY PushBackOK
<1> HIDE DEF h
<1>2. GeneratorOK(PushBack(h, w), mode, limit) /\ (PushBack(h, w).ok => h.ok)
  BY <1>1, PushBackOK
<1> QED  BY <1>1, <1>2 DEF h

\* Declaring a label touches no word.
LEMMA DeclareLabelOK ==
    ASSUME NEW g, NEW mode, NEW limit, NEW label, GeneratorOK(g, mode, limit)
    PROVE  LET h == DeclareLabel(g, label)
           IN  /\ GeneratorOK(h, mode, limit)
               /\ h.ok => g.ok
               /\ h.program = g.program /\ h.refs = g.refs /\ h.fpAdds = g.fpAdds
<1> DEFINE h == DeclareLabel(g, label)
<1>1. g \in [program : Seq(CodeWord), labels : {g.labels}, refs : {g.refs},
             fpAdds : Seq(Nat), ok : BOOLEAN]
  BY DEF GeneratorOK, GeneratorType
<1>2. h = [g EXCEPT !.ok = FALSE] \/ \E new : h = [g EXCEPT !.labels = new]
  BY DEF DeclareLabel
<1> HIDE DEF h
<1>3. /\ h.program = g.program /\ h.refs = g.refs /\ h.fpAdds = g.fpAdds
      /\ h.ok => g.ok
      /\ h \in [program : Seq(CodeWord), labels : {h.labels}, refs : {h.refs},
                fpAdds : Seq(Nat), ok : BOOLEAN]
  <2>1. CASE h = [g EXCEPT !.ok = FALSE]  BY <1>1, <2>1
  <2>2. CASE \E new : h = [g EXCEPT !.labels = new]
    <3>1. PICK new : h = [g EXCEPT !.labels = new]  BY <2>2
    <3> QED  BY <1>1, <3>1
  <2> QED  BY <1>2, <2>1, <2>2
<1>4. GeneratorType(h) /\ RefsOK(h)
  BY <1>3 DEF GeneratorOK, GeneratorType, RefsOK
<1>5. FunctionOpen(g, limit) => FunctionOpen(h, limit)  BY <1>3 DEF FunctionOpen
<1>6. GeneratorOK(h, mode, limit)  BY <1>3, <1>4, <1>5 DEF GeneratorOK
<1> QED  BY <1>3, <1>6 DEF h

\* A position that refers to a label, filled in later.
LEMMA CompileRefOK ==
    ASSUME NEW g, NEW mode \in {"globals", "function"}, NEW limit, NEW label,
           GeneratorOK(g, mode, limit)
    PROVE  /\ GeneratorOK(CompileRef(g, label), mode, limit)
           /\ CompileRef(g, label).ok => g.ok
<1> DEFINE seen == IF label \in DOMAIN g.refs THEN g.refs[label] ELSE <<>>
<1> DEFINE refs == [l \in DOMAIN g.refs \cup {label} |->
                      IF l = label THEN Append(seen, Len(g.program)) ELSE g.refs[l]]
<1> DEFINE noted == [g EXCEPT !.refs = refs]
<1> DEFINE h == CompileRef(g, label)
<1>1. GeneratorType(g) /\ RefsOK(g)  BY DEF GeneratorOK
<1>2. /\ g \in [program : Seq(CodeWord), labels : {g.labels}, refs : {g.refs},
                fpAdds : Seq(Nat), ok : BOOLEAN]
      /\ Len(g.program) \in Nat
  BY <1>1 DEF GeneratorType
<1>3. h = PushBack(noted, Lconst(0))  BY DEF CompileRef
<1>4. Lconst(0) = 0 /\ 0 \in CodeWord /\ 0 # Lppc /\ Within(0, limit)
  <2>1. 0 \in 0..FlagBit - 1  BY Powers
  <2>2. Lconst(0) = 0 /\ 0 # Throws  BY <2>1 DEF Lconst, Throws
  <2>3. BodyWord(0, limit)  BY <2>2, LconstBody
  <2> QED  BY <2>2, <2>3 DEF BodyWord
<1>5. seen \in Seq(Nat)  BY <1>1 DEF GeneratorType
<1>6. /\ Len(seen) \in Nat /\ DOMAIN seen = 1..Len(seen)
      /\ Append(seen, Len(g.program)) \in Seq(Nat)
      /\ DOMAIN Append(seen, Len(g.program)) = 1..Len(seen) + 1
      /\ \A k \in 1..Len(seen) : Append(seen, Len(g.program))[k] = seen[k]
      /\ Append(seen, Len(g.program))[Len(seen) + 1] = Len(g.program)
  <2> HIDE DEF seen
  <2> QED  BY <1>2, <1>5
<1> HIDE DEF h
<1>7. noted = [program |-> g.program, labels |-> g.labels, refs |-> refs,
               fpAdds |-> g.fpAdds, ok |-> g.ok]
  <2> HIDE DEF refs
  <2> QED  BY <1>2
<1>8. \A l \in DOMAIN refs : \A k \in DOMAIN refs[l] :
        \/ l \in DOMAIN g.refs /\ k \in DOMAIN g.refs[l] /\ refs[l][k] = g.refs[l][k]
        \/ l = label /\ k = Len(seen) + 1 /\ refs[l][k] = Len(g.program)
  <2> TAKE l \in DOMAIN refs
  <2>1. CASE l # label  BY <2>1
  <2>2. CASE l = label
    <3>1. refs[l] = Append(seen, Len(g.program))  BY <2>2
    <3> HIDE DEF refs
    <3> SUFFICES ASSUME NEW k \in DOMAIN refs[l]
                 PROVE \/ l \in DOMAIN g.refs /\ k \in DOMAIN g.refs[l] /\ refs[l][k] = g.refs[l][k]
                       \/ l = label /\ k = Len(seen) + 1 /\ refs[l][k] = Len(g.program)
      OBVIOUS
    <3>2. k \in 1..Len(seen) \/ k = Len(seen) + 1
      <4> HIDE DEF seen
      <4> QED  BY <1>6, <3>1
    <3>3. CASE k = Len(seen) + 1
      <4> HIDE DEF seen
      <4> QED  BY <1>6, <2>2, <3>1, <3>3
    <3>4. CASE k \in 1..Len(seen)
      <4>1. refs[l][k] = seen[k] /\ k \in DOMAIN seen
        <5> HIDE DEF seen
        <5> QED  BY <1>6, <3>1, <3>4
      <4>2. seen # <<>>
        <5>1. seen = <<>> => DOMAIN seen = {}
          <6> HIDE DEF seen
          <6> QED OBVIOUS
        <5> QED  BY <4>1, <5>1
      <4>3. label \in DOMAIN g.refs /\ seen = g.refs[label]  BY <4>2
      <4> QED  BY <2>2, <4>1, <4>3
    <3> QED  BY <3>2, <3>3, <3>4
  <2> QED  BY <2>1, <2>2
<1>9. \A l \in DOMAIN refs : refs[l] \in Seq(Nat)
  <2> TAKE l \in DOMAIN refs
  <2>1. CASE l # label  BY <1>1, <2>1 DEF GeneratorType
  <2>2. CASE l = label
    <3>1. refs[l] = Append(seen, Len(g.program))  BY <2>2
    <3> QED  BY <1>6, <3>1
  <2> QED  BY <2>1, <2>2
<1> HIDE DEF refs, seen
<1>10. GeneratorType(noted)
  <2>1. noted \in [program : Seq(CodeWord), labels : {noted.labels}, refs : {noted.refs},
                   fpAdds : Seq(Nat), ok : BOOLEAN]
    BY <1>2, <1>7
  <2> QED  BY <1>7, <1>9, <2>1 DEF GeneratorType
<1>11. /\ GeneratorType(h)
       /\ h.refs = refs /\ h.fpAdds = g.fpAdds /\ h.ok = g.ok
       /\ Len(h.program) = Len(g.program) + 1
       /\ \A i \in 1..Len(g.program) : h.program[i] = g.program[i]
       /\ h.program[Len(g.program) + 1] = 0
  <2> HIDE DEF noted
  <2>1. 0 # Throws  BY DEF Throws
  <2>2. LET q == PushBack(noted, 0)
        IN  /\ GeneratorType(q)
            /\ q.refs = noted.refs /\ q.fpAdds = noted.fpAdds
            /\ q.ok = noted.ok
            /\ Len(q.program) = Len(noted.program) + 1
            /\ \A i \in 1..Len(noted.program) : q.program[i] = noted.program[i]
            /\ q.program[Len(noted.program) + 1] = 0
    BY <1>4, <1>10, <2>1, PushBackType
  <2>3. h = PushBack(noted, 0)  BY <1>3, <1>4
  <2> QED  BY <1>7, <2>2, <2>3
<1>12. Grown(g.program, h.program, 0)  BY <1>2, <1>11 DEF Grown, GeneratorType
<1>13. RefsOK(h)
  <2> DEFINE n == Len(g.program)
  <2>1. \A l \in DOMAIN g.refs : \A k \in DOMAIN g.refs[l] :
          /\ g.refs[l][k] \in Nat /\ g.refs[l][k] < n
          /\ g.program[g.refs[l][k] + 1] = 0
    BY <1>1 DEF RefsOK, GeneratorType
  <2>2. \A i \in Nat : i < n => i + 1 \in 1..n  BY <1>2
  <2>3. \A l \in DOMAIN refs : \A k \in DOMAIN refs[l] :
          refs[l][k] < n + 1 /\ h.program[refs[l][k] + 1] = 0
    <3> SUFFICES ASSUME NEW l \in DOMAIN refs, NEW k \in DOMAIN refs[l]
                 PROVE  refs[l][k] < n + 1 /\ h.program[refs[l][k] + 1] = 0
      OBVIOUS
    <3>1. CASE refs[l][k] = n
      <4>1. n < n + 1  BY <1>2
      <4> QED  BY <1>11, <3>1, <4>1
    <3>2. CASE l \in DOMAIN g.refs /\ k \in DOMAIN g.refs[l] /\ refs[l][k] = g.refs[l][k]
      <4> DEFINE r == refs[l][k]
      <4>1. r \in Nat /\ r < n /\ g.program[r + 1] = 0  BY <2>1, <3>2
      <4> HIDE DEF r
      <4>2. r < n + 1 /\ r + 1 \in 1..n  BY <1>2, <4>1
      <4>3. h.program[r + 1] = 0  BY <1>11, <4>1, <4>2
      <4> QED  BY <4>2, <4>3 DEF r
    <3> QED  BY <1>8, <3>1, <3>2
  <2>4. ASSUME NEW l \in DOMAIN refs, NEW m \in DOMAIN refs,
               NEW j \in DOMAIN refs[l], NEW k \in DOMAIN refs[m], refs[l][j] = refs[m][k]
        PROVE  l = m
    <3>1. \A a \in DOMAIN g.refs : \A i \in DOMAIN g.refs[a] : g.refs[a][i] # n
      BY <1>2, <2>1
    <3>2. CASE l = label /\ m = label  BY <3>2
    <3>3. CASE l # label \/ m # label
      BY <1>1, <1>8, <2>4, <3>1, <3>3 DEF RefsOK
    <3> QED  BY <3>2, <3>3
  <2> QED  BY <1>11, <2>3, <2>4 DEF RefsOK
<1>14. mode = "globals" => h.fpAdds = <<>> /\ NoFunctions(h.program)
  BY <1>4, <1>11, <1>12, GrownNoFunctions DEF GeneratorOK
<1>15. ASSUME mode = "function"
       PROVE  Len(h.fpAdds) = 1 /\ FunctionOpen(h, limit)
  <2>1. Len(g.fpAdds) = 1 /\ FunctionOpen(g, limit)  BY <1>15 DEF GeneratorOK
  <2>2. \A l \in DOMAIN h.refs : \A k \in DOMAIN h.refs[l] :
          \/ l \in DOMAIN g.refs /\ k \in DOMAIN g.refs[l] /\ h.refs[l][k] = g.refs[l][k]
          \/ h.refs[l][k] = Len(g.program)
    BY <1>8, <1>11
  <2>3. FunctionOpen(h, limit)
    BY <1>4, <1>11, <1>12, <2>1, <2>2, GrownFunctionOpen
  <2> QED  BY <1>11, <2>1, <2>3
<1>16. mode # "between"  OBVIOUS
<1>17. GeneratorOK(h, mode, limit)  BY <1>11, <1>13, <1>14, <1>15, <1>16 DEF GeneratorOK
<1> QED  BY <1>11, <1>17 DEF h

\* Behind the globals no function is open.
LEMMA GlobalsClosed ==
    ASSUME NEW g, NEW limit, NEW any, GeneratorOK(g, "globals", limit)
    PROVE  GeneratorOK(g, "between", any)
<1>1. GeneratorType(g) /\ RefsOK(g) /\ g.fpAdds = <<>> /\ NoFunctions(g.program)
  BY DEF GeneratorOK
<1>2. g.program \in Seq(CodeWord)  BY <1>1 DEF GeneratorType
<1>3. \A p \in 0..Len(g.program) - 1 : p + 1 \in DOMAIN g.program  BY <1>2
<1>4. FunctionsClosed(g.program)  BY <1>1, <1>3 DEF FunctionsClosed, NoFunctions
<1> QED  BY <1>1, <1>4 DEF GeneratorOK

\* A prologue opens a function that reaches no slot yet.
LEMMA PrologueOK ==
    ASSUME NEW g, NEW any, GeneratorOK(g, "between", any)
    PROVE  /\ GeneratorOK(CompilePrologue(g), "function", 0)
           /\ CompilePrologue(g).ok => g.ok
<1> DEFINE P == g.program
<1> DEFINE n == Len(P)
<1> DEFINE pushed == PushBack(g, Lppc)
<1> DEFINE fpAdds == Append(pushed.fpAdds, Len(pushed.program))
<1> DEFINE noted == [pushed EXCEPT !.fpAdds = fpAdds]
<1> DEFINE h == CompilePrologue(g)
<1>1. GeneratorType(g) /\ RefsOK(g) /\ g.fpAdds = <<>> /\ FunctionsClosed(P)
  BY DEF GeneratorOK
<1>2. P \in Seq(CodeWord) /\ n \in Nat  BY <1>1 DEF GeneratorType
<1>3. h = PushBack(noted, 0)  BY DEF CompilePrologue
<1> HIDE DEF h
<1>4. /\ GeneratorType(pushed)
      /\ pushed.refs = g.refs /\ pushed.fpAdds = <<>> /\ pushed.ok = g.ok
      /\ Len(pushed.program) = n + 1
      /\ \A i \in 1..n : pushed.program[i] = P[i]
      /\ pushed.program[n + 1] = Lppc
  BY <1>1, LppcUnpacked, PushBackType
<1> HIDE DEF pushed
<1>5. fpAdds \in Seq(Nat) /\ Len(fpAdds) = 1 /\ fpAdds[1] = n + 1
  <2>1. fpAdds = Append(<<>>, n + 1) /\ n + 1 \in Nat  BY <1>2, <1>4
  <2> QED  BY <2>1
<1> HIDE DEF fpAdds
<1>6. noted = [program |-> pushed.program, labels |-> pushed.labels, refs |-> g.refs,
               fpAdds |-> fpAdds, ok |-> g.ok]
  BY <1>4 DEF GeneratorType
<1> HIDE DEF noted
<1>7. GeneratorType(noted)
  <2>1. noted \in [program : Seq(CodeWord), labels : {noted.labels}, refs : {noted.refs},
                   fpAdds : Seq(Nat), ok : BOOLEAN]
    BY <1>1, <1>4, <1>5, <1>6 DEF GeneratorType
  <2> QED  BY <1>1, <1>6, <2>1 DEF GeneratorType
<1>8. 0 \in CodeWord /\ 0 # Throws /\ 0 # Lppc /\ ~(0 >= FlagBit)
  BY Powers, LppcUnpacked DEF CodeWord, Throws
<1> DEFINE Q == h.program
<1>9. /\ GeneratorType(h)
      /\ h.refs = g.refs /\ h.fpAdds = fpAdds /\ h.ok = g.ok
      /\ Q \in Seq(CodeWord) /\ Len(Q) = n + 2
      /\ \A i \in 1..n : Q[i] = P[i]
      /\ Q[n + 1] = Lppc /\ Q[n + 2] = 0
  <2>1. LET q == PushBack(noted, 0)
        IN  /\ GeneratorType(q)
            /\ q.refs = noted.refs /\ q.fpAdds = noted.fpAdds
            /\ q.ok = noted.ok
            /\ Len(q.program) = Len(noted.program) + 1
            /\ \A i \in 1..Len(noted.program) : q.program[i] = noted.program[i]
            /\ q.program[Len(noted.program) + 1] = 0
    BY <1>7, <1>8, PushBackType
  <2>2. noted.program = pushed.program /\ noted.refs = g.refs
        /\ noted.fpAdds = fpAdds /\ noted.ok = g.ok
    BY <1>6
  <2>3. /\ GeneratorType(h)
        /\ h.refs = g.refs /\ h.fpAdds = fpAdds /\ h.ok = g.ok
        /\ Len(Q) = n + 1 + 1
        /\ \A i \in 1..n + 1 : Q[i] = pushed.program[i]
        /\ Q[n + 1 + 1] = 0
    BY <1>3, <1>4, <2>1, <2>2
  <2>4. n + 1 + 1 = n + 2 /\ n + 1 \in 1..n + 1 /\ \A i \in 1..n : i \in 1..n + 1
    BY <1>2
  <2>5. Q \in Seq(CodeWord)  BY <2>3 DEF GeneratorType
  <2> QED  BY <1>4, <2>3, <2>4, <2>5
<1> HIDE DEF Q
<1>10. \A l \in DOMAIN g.refs : \A k \in DOMAIN g.refs[l] :
         /\ g.refs[l][k] \in Nat /\ g.refs[l][k] < n
         /\ P[g.refs[l][k] + 1] = 0
  BY <1>1 DEF RefsOK, GeneratorType
<1>11. RefsOK(h)
  <2>1. \A i \in Nat : i < n => i < n + 2 /\ i + 1 \in 1..n  BY <1>2
  <2>2. \A l \in DOMAIN g.refs : \A k \in DOMAIN g.refs[l] :
          g.refs[l][k] < n + 2 /\ Q[g.refs[l][k] + 1] = 0
    BY <1>9, <1>10, <2>1
  <2> QED  BY <1>1, <1>9, <2>2 DEF RefsOK, Q
<1>12. FunctionOpen(h, 0)
  <2>1. h.fpAdds[1] - 1 = n  BY <1>2, <1>5, <1>9
  <2>2. n \in 0..Len(Q) - 2 /\ Q[n + 1] = Lppc  BY <1>2, <1>9
  <2>3. \A l \in DOMAIN h.refs : \A k \in DOMAIN h.refs[l] : h.refs[l][k] # n + 1
    <3>1. \A i \in Nat : i < n => i # n + 1  BY <1>2
    <3> QED  BY <1>9, <1>10, <3>1
  <2>4. \A q \in n..Len(Q) - 1 : Within(Q[q + 1], 0)
    <3>1. \A q \in n..Len(Q) - 1 : q + 1 = n + 1 \/ q + 1 = n + 2  BY <1>2, <1>9
    <3>2. Within(Lppc, 0) /\ Within(0, 0)  BY <1>8, LppcUnpacked DEF Within
    <3> QED  BY <1>9, <3>1, <3>2
  <2>5. \A q \in n + 1..Len(Q) - 1 : Q[q + 1] # Lppc
    <3>1. \A q \in n + 1..Len(Q) - 1 : q + 1 = n + 2  BY <1>2, <1>9
    <3> QED  BY <1>8, <1>9, <3>1
  <2>6. ASSUME NEW p \in 0..n - 1, Q[p + 1] = Lppc
        PROVE  \E e \in p + 2..n : FunctionCode(Q, p, e) /\ Q[e + 1] = Lppc
    <3>1. p + 1 \in 1..n  BY <1>2
    <3>2. P[p + 1] = Lppc  BY <1>9, <2>6, <3>1
    <3>3. PICK e \in p + 2..n :
             /\ FunctionCode(P, p, e)
             /\ e = n \/ P[e + 1] = Lppc
      BY <1>1, <3>2 DEF FunctionsClosed
    <3>4. /\ p \in Nat /\ e \in Nat /\ p + 2 <= e
          /\ \A i \in p + 1..e : i \in 1..n
          /\ e # n => e + 1 \in 1..n
      BY <1>2
    <3>5. FunctionCode(Q, p, e)  BY <1>9, <3>3, <3>4, FunctionCodeStays
    <3>6. Q[e + 1] = Lppc  BY <1>9, <3>3, <3>4
    <3> QED  BY <3>5, <3>6
  <2> QED  BY <2>1, <2>2, <2>3, <2>4, <2>5, <2>6 DEF FunctionOpen, Q
<1>13. GeneratorOK(h, "function", 0)  BY <1>5, <1>9, <1>11, <1>12 DEF GeneratorOK
<1> QED  BY <1>9, <1>13 DEF h

\* An epilogue closes the function: the frame it takes and gives back holds
\* all the function reaches.
LEMMA EpilogueOK ==
    ASSUME NEW g, NEW limit \in Nat, GeneratorOK(g, "function", limit)
    PROVE  LET h == CompileEpilogue(g, limit)
           IN  /\ GeneratorType(h)
               /\ h.ok => g.ok /\ GeneratorOK(h, "between", 0)
<1> DEFINE P == g.program
<1> DEFINE n == Len(P)
<1> DEFINE f == g.fpAdds[1] - 1
<1> DEFINE enter == Addfp(limit)
<1> DEFINE leave == Addfp(-limit)
<1> DEFINE program == [P EXCEPT ![f + 2] = IF enter = Throws THEN P[f + 2] ELSE enter]
<1> DEFINE patched == [g EXCEPT !.program = program, !.ok = g.ok /\ enter # Throws,
                                !.fpAdds = <<>>]
<1> DEFINE left == PushBack(patched, leave)
<1> DEFINE h == CompileEpilogue(g, limit)
<1>1. /\ GeneratorType(g) /\ RefsOK(g) /\ Len(g.fpAdds) = 1 /\ FunctionOpen(g, limit)
      /\ g.fpAdds \in Seq(Nat)
  BY DEF GeneratorOK, GeneratorType
<1>2. P \in Seq(CodeWord) /\ n \in Nat /\ DOMAIN P = 1..n  BY <1>1 DEF GeneratorType
<1>3. /\ f \in 0..n - 2
      /\ P[f + 1] = Lppc
      /\ \A l \in DOMAIN g.refs : \A k \in DOMAIN g.refs[l] : g.refs[l][k] # f + 1
      /\ \A q \in f..n - 1 : Within(P[q + 1], limit)
      /\ \A q \in f + 1..n - 1 : P[q + 1] # Lppc
      /\ \A p \in 0..f - 1 : P[p + 1] = Lppc =>
           \E e \in p + 2..f : FunctionCode(P, p, e) /\ P[e + 1] = Lppc
  BY <1>1 DEF FunctionOpen
<1>4. g.fpAdds[Len(g.fpAdds)] + 1 = f + 2 /\ SubSeq(g.fpAdds, 1, Len(g.fpAdds) - 1) = <<>>
  <2>1. g.fpAdds[1] \in Nat  BY <1>1
  <2>2. SubSeq(g.fpAdds, 1, 0) = <<>>
    <3>1. 1 \in Int /\ 0 \in Int /\ 0 < 1  OBVIOUS
    <3> QED  BY <3>1, SubSeqEmpty
  <2>3. Len(g.fpAdds) - 1 = 0  BY <1>1
  <2> QED  BY <1>1, <2>1, <2>2, <2>3
<1>5. h = PushBack(left, Ajmp)
  <2>1. patched = [g EXCEPT !.program[f + 2] = IF enter = Throws THEN @ ELSE enter,
                            !.ok = @ /\ enter # Throws,
                            !.fpAdds = SubSeq(@, 1, Len(@) - 1)]
    BY <1>4
  <2> QED  BY <1>4, <2>1 DEF CompileEpilogue, CompileAJmp
<1> HIDE DEF h
<1>6. /\ \/ enter = Throws
         \/ enter \in CodeWord /\ enter # Lppc /\ Within(enter, limit)
              /\ Disasm(enter).imm = limit
      /\ \/ leave = Throws
         \/ leave \in CodeWord /\ leave # Lppc /\ Within(leave, limit)
  <2>1. limit \in Int /\ -limit \in Int  OBVIOUS
  <2> QED  BY <2>1, AddfpBody DEF BodyWord
<1>7. Ajmp \in CodeWord /\ Ajmp # Lppc /\ Within(Ajmp, limit) /\ Ajmp # Throws
  BY PlainBody, CodeWordIsWord DEF BodyWord
<1> HIDE DEF enter, leave
<1>8. /\ program \in Seq(CodeWord) /\ Len(program) = n
      /\ \A i \in 1..n : i # f + 2 => program[i] = P[i]
      /\ enter # Throws => program[f + 2] = enter
  <2> HIDE DEF P, n, f
  <2>1. f + 2 \in 1..n  BY <1>2, <1>3
  <2>2. P[f + 2] \in CodeWord  BY <1>2, <2>1
  <2> QED  BY <1>2, <1>6, <2>1, <2>2 DEF n
<1> HIDE DEF program
<1>9. patched = [program |-> program, labels |-> g.labels, refs |-> g.refs,
                 fpAdds |-> <<>>, ok |-> g.ok /\ enter # Throws]
  <2> DEFINE ok == g.ok /\ enter # Throws
  <2>1. g \in [program : Seq(CodeWord), labels : {g.labels}, refs : {g.refs},
               fpAdds : Seq(Nat), ok : BOOLEAN]
    BY <1>1 DEF GeneratorType
  <2>2. patched = [g EXCEPT !.program = program, !.ok = ok, !.fpAdds = <<>>]  OBVIOUS
  <2> HIDE DEF ok, patched
  <2>3. patched = [program |-> program, labels |-> g.labels, refs |-> g.refs,
                   fpAdds |-> <<>>, ok |-> ok]
    BY <2>1, <2>2
  <2> QED  BY <2>3 DEF ok
<1> HIDE DEF patched
<1>10. GeneratorType(patched)
  <2>1. <<>> \in Seq(Nat)  OBVIOUS
  <2>2. patched \in [program : Seq(CodeWord), labels : {patched.labels},
                     refs : {patched.refs}, fpAdds : Seq(Nat), ok : BOOLEAN]
    BY <1>8, <1>9, <2>1
  <2> QED  BY <1>1, <1>9, <2>2 DEF GeneratorType
<1>11. /\ GeneratorType(left)
       /\ left.refs = g.refs /\ left.fpAdds = <<>>
       /\ \/ ~left.ok
          \/ /\ left.ok = patched.ok /\ leave \in CodeWord
             /\ Len(left.program) = n + 1
             /\ \A i \in 1..n : left.program[i] = program[i]
             /\ left.program[n + 1] = leave
  <2>1. patched.program = program /\ patched.refs = g.refs /\ patched.fpAdds = <<>>
    BY <1>9
  <2>2. leave = Throws \/ leave \in CodeWord  BY <1>6
  <2>3. LET q == PushBack(patched, leave)
        IN  /\ GeneratorType(q)
            /\ q.refs = patched.refs /\ q.fpAdds = patched.fpAdds
            /\ \/ ~q.ok
               \/ /\ q.ok = patched.ok /\ leave \in CodeWord
                  /\ Len(q.program) = Len(patched.program) + 1
                  /\ \A i \in 1..Len(patched.program) : q.program[i] = patched.program[i]
                  /\ q.program[Len(patched.program) + 1] = leave
    BY <1>10, <2>2, PushBackType
  <2> QED  BY <1>8, <2>1, <2>3
<1> HIDE DEF left
<1> DEFINE Q == h.program
<1>12. /\ GeneratorType(h)
       /\ h.refs = g.refs /\ h.fpAdds = <<>> /\ h.ok = left.ok
       /\ Len(Q) = Len(left.program) + 1
       /\ \A i \in 1..Len(left.program) : Q[i] = left.program[i]
       /\ Q[Len(left.program) + 1] = Ajmp
  BY <1>5, <1>7, <1>11, PushBackType
<1> HIDE DEF Q
<1>13. ASSUME h.ok
       PROVE  /\ g.ok /\ enter # Throws /\ leave \in CodeWord
              /\ Q \in Seq(CodeWord) /\ Len(Q) = n + 2
              /\ \A i \in 1..n : i # f + 2 => Q[i] = P[i]
              /\ Q[f + 2] = enter /\ Q[n + 1] = leave /\ Q[n + 2] = Ajmp
  <2>1. /\ patched.ok /\ leave \in CodeWord
        /\ Len(left.program) = n + 1
        /\ \A i \in 1..n : left.program[i] = program[i]
        /\ left.program[n + 1] = leave
    BY <1>11, <1>12, <1>13
  <2>2. g.ok /\ enter # Throws  BY <1>9, <2>1
  <2>3. \A i \in 1..n : i \in 1..n + 1  BY <1>2
  <2>4. n + 1 \in 1..n + 1 /\ n + 1 + 1 = n + 2 /\ f + 2 \in 1..n  BY <1>2, <1>3
  <2>5. Q \in Seq(CodeWord)  BY <1>12 DEF GeneratorType, Q
  <2> HIDE DEF P, n, f
  <2>6. \A i \in 1..n : Q[i] = program[i]  BY <1>12, <2>1, <2>3
  <2>7. Q[f + 2] = enter  BY <1>8, <2>2, <2>4, <2>6
  <2>8. \A i \in 1..n : i # f + 2 => Q[i] = P[i]  BY <1>8, <2>6
  <2> QED  BY <1>12, <2>1, <2>2, <2>4, <2>5, <2>7, <2>8
<1>14. ASSUME h.ok
       PROVE  RefsOK(h)
  <2>1. ASSUME NEW l \in DOMAIN g.refs, NEW k \in DOMAIN g.refs[l]
        PROVE  g.refs[l][k] < n + 2 /\ Q[g.refs[l][k] + 1] = 0
    <3> DEFINE r == g.refs[l][k]
    <3>1. r \in Nat /\ r < n /\ P[r + 1] = 0 /\ r # f + 1
      BY <1>1, <1>3 DEF RefsOK, GeneratorType
    <3> HIDE DEF r
    <3>2. r + 1 \in 1..n /\ r + 1 # f + 2 /\ r < n + 2  BY <1>2, <1>3, <3>1
    <3>3. Q[r + 1] = 0
      <4> HIDE DEF P, n, f
      <4> QED  BY <1>13, <1>14, <3>1, <3>2
    <3> QED  BY <3>2, <3>3 DEF r
  <2> QED  BY <1>1, <1>12, <1>13, <1>14, <2>1 DEF RefsOK, Q
<1>15. ASSUME h.ok
       PROVE  FunctionsClosed(Q)
  <2>1. /\ enter # Throws /\ leave \in CodeWord
        /\ Len(Q) = n + 2
        /\ \A i \in 1..n : i # f + 2 => Q[i] = P[i]
        /\ Q[f + 2] = enter /\ Q[n + 1] = leave /\ Q[n + 2] = Ajmp
    BY <1>13, <1>15
  <2>2. /\ enter \in CodeWord /\ enter # Lppc /\ Within(enter, limit)
        /\ Disasm(enter).imm = limit
        /\ leave # Lppc /\ Within(leave, limit)
    <3>1. leave # Throws  BY <2>1, CodeWordIsWord
    <3> QED  BY <1>6, <2>1, <3>1
  <2> HIDE DEF P, n, f
  <2>3. \A q \in f..n + 1 :
          \/ q + 1 \in 1..n /\ q \in f..n - 1 /\ q + 1 # f + 2
          \/ q + 1 = f + 2 \/ q + 1 = n + 1 \/ q + 1 = n + 2
    BY <1>2, <1>3
  <2>4. \A q \in f..n + 1 : Within(Q[q + 1], limit)
    BY <1>3, <1>7, <2>1, <2>2, <2>3
  <2>5. \A q \in f + 1..n + 1 : Q[q + 1] # Lppc
    <3> TAKE q \in f + 1..n + 1
    <3>1. q \in f..n + 1 /\ (q \in f..n - 1 => q \in f + 1..n - 1)  BY <1>2, <1>3
    <3> QED  BY <1>3, <1>7, <2>1, <2>2, <2>3, <3>1
  <2>6. FunctionCode(Q, f, n + 2)
    <3>1. (n + 2) - 1 = n + 1  BY <1>2
    <3>2. Disasm(Q[f + 2]).imm = limit  BY <2>1, <2>2
    <3>3. Q[f + 2] = Addfp(limit) /\ Q[(n + 2) - 1] = Addfp(-limit)
      BY <2>1, <3>1 DEF enter, leave
    <3>4. /\ \A q \in f..(n + 2) - 1 : Within(Q[q + 1], limit)
          /\ \A q \in f + 1..(n + 2) - 1 : Q[q + 1] # Lppc
      BY <2>4, <2>5, <3>1
    <3> QED  BY <3>2, <3>3, <3>4, FunctionCodeIs
  <2>7. ASSUME NEW p \in 0..f - 1, Q[p + 1] = Lppc
        PROVE  \E e \in p + 2..n + 2 : FunctionCode(Q, p, e) /\ Q[e + 1] = Lppc
    <3>1. p + 1 \in 1..n /\ p + 1 # f + 2  BY <1>2, <1>3
    <3>2. P[p + 1] = Lppc  BY <2>1, <2>7, <3>1
    <3>3. PICK e \in p + 2..f : FunctionCode(P, p, e) /\ P[e + 1] = Lppc
      BY <1>3, <3>2
    <3>4. /\ p \in Nat /\ e \in Nat /\ p + 2 <= e /\ e \in p + 2..n + 2
          /\ \A i \in p + 1..e : i \in 1..n /\ i # f + 2
          /\ e + 1 \in 1..n /\ e + 1 # f + 2
      BY <1>2, <1>3
    <3>5. \A i \in p + 1..e : Q[i] = P[i]  BY <2>1, <3>4
    <3>6. FunctionCode(Q, p, e)  BY <3>3, <3>4, <3>5, FunctionCodeStays
    <3>7. Q[e + 1] = Lppc  BY <2>1, <3>3, <3>4
    <3> QED  BY <3>4, <3>6, <3>7
  <2>8. ASSUME NEW p \in 0..Len(Q) - 1, Q[p + 1] = Lppc
        PROVE  \E e \in p + 2..Len(Q) :
                  FunctionCode(Q, p, e) /\ (e = Len(Q) \/ Q[e + 1] = Lppc)
    <3>1. p \in 0..n + 1  BY <1>2, <2>1
    <3>2. CASE p \in 0..f - 1  BY <2>1, <2>7, <2>8, <3>2
    <3>3. CASE p = f
      <4>1. n + 2 \in p + 2..n + 2  BY <1>2, <1>3, <3>3
      <4> QED  BY <2>1, <2>6, <3>3, <4>1
    <3>4. CASE p \in f + 1..n + 1  BY <2>5, <2>8, <3>4
    <3> QED  BY <1>2, <1>3, <3>1, <3>2, <3>3, <3>4
  <2> QED  BY <2>8 DEF FunctionsClosed
<1>16. ASSUME h.ok
       PROVE  g.ok /\ GeneratorOK(h, "between", 0)
  BY <1>12, <1>13, <1>14, <1>15, <1>16 DEF GeneratorOK, Q
<1> QED  BY <1>12, <1>16 DEF h

\* Filling in addresses where 0 was leaves the functions closed.
LEMMA FilledClosed ==
    ASSUME NEW program \in Seq(CodeWord), NEW new, Len(new) = Len(program),
           \A i \in 1..Len(program) :
              new[i] = program[i] \/ (program[i] = 0 /\ new[i] \in 0..FlagBit - 1),
           FunctionsClosed(program)
    PROVE  FunctionsClosed(new)
<1> DEFINE n == Len(program)
<1>1. n \in Nat /\ FlagBit \in Nat /\ FlagBit > 0  BY Powers
<1>2. \A i \in 1..n : new[i] >= FlagBit \/ program[i] >= FlagBit => new[i] = program[i]
  BY <1>1
<1>3. \A w, limit : ~(w >= FlagBit) => Within(w, limit)  BY DEF Within
<1>4. Lppc >= FlagBit  BY LppcUnpacked
<1>5. \A i \in 1..n : new[i] = Lppc <=> program[i] = Lppc
  BY <1>2, <1>4
<1>6. ASSUME NEW p \in Nat, NEW e \in p + 2..n, FunctionCode(program, p, e)
      PROVE  FunctionCode(new, p, e)
  <2> DEFINE frame == Disasm(program[p + 2]).imm
  <2>1. /\ frame \in Nat
        /\ program[p + 2] = Addfp(frame) /\ program[e - 1] = Addfp(-frame)
        /\ \A q \in p..e - 1 : Within(program[q + 1], frame)
        /\ \A q \in p + 1..e - 1 : program[q + 1] # Lppc
    BY <1>6 DEF FunctionCode
  <2> HIDE DEF frame
  <2>2. p + 2 \in 1..n /\ e - 1 \in 1..n  BY <1>1
  <2>3. program[p + 2] \in CodeWord /\ program[e - 1] \in CodeWord  BY <2>2
  <2>4. Addfp(frame) >= FlagBit /\ Addfp(-frame) >= FlagBit
    <3>1. Addfp(frame) # Throws /\ Addfp(-frame) # Throws
      BY <2>1, <2>3, CodeWordIsWord
    <3>2. frame \in Int /\ -frame \in Int  BY <2>1
    <3> QED  BY <3>1, <3>2, AddfpBody
  <2>5. new[p + 2] = program[p + 2] /\ new[e - 1] = program[e - 1]
    BY <1>2, <2>1, <2>2, <2>4
  <2>6. \A q \in p..e - 1 : q + 1 \in 1..n  BY <1>1
  <2>7. \A q \in p..e - 1 : Within(new[q + 1], frame)
    BY <1>2, <1>3, <2>1, <2>6
  <2>8. \A q \in p + 1..e - 1 : new[q + 1] # Lppc
    <3>1. \A q \in p + 1..e - 1 : q \in p..e - 1  OBVIOUS
    <3> QED  BY <1>5, <2>1, <2>6, <3>1
  <2>9. Disasm(new[p + 2]).imm = frame  BY <2>5 DEF frame
  <2>10. new[p + 2] = Addfp(frame) /\ new[e - 1] = Addfp(-frame)  BY <2>1, <2>5
  <2> QED  BY <2>1, <2>7, <2>8, <2>9, <2>10, FunctionCodeIs
<1>7. ASSUME NEW p \in 0..n - 1, new[p + 1] = Lppc
      PROVE  \E e \in p + 2..n :
                FunctionCode(new, p, e) /\ (e = n \/ new[e + 1] = Lppc)
  <2>1. p + 1 \in 1..n /\ p \in Nat  BY <1>1
  <2>2. program[p + 1] = Lppc  BY <1>5, <1>7, <2>1
  <2>3. PICK e \in p + 2..n :
           FunctionCode(program, p, e) /\ (e = n \/ program[e + 1] = Lppc)
    BY <2>2 DEF FunctionsClosed
  <2>4. FunctionCode(new, p, e)  BY <1>6, <2>1, <2>3
  <2>5. e # n => e + 1 \in 1..n  BY <1>1
  <2>6. e = n \/ new[e + 1] = Lppc  BY <1>5, <2>3, <2>5
  <2> QED  BY <2>4, <2>6
<1> QED  BY <1>7 DEF FunctionsClosed

\* Resolving gives every reference the address of its label, once all are
\* known and fit.
LEMMA ResolveRefsOK ==
    ASSUME NEW g, NEW any, GeneratorOK(g, "between", any)
    PROVE  LET h == ResolveRefs(g)
           IN  /\ GeneratorType(h)
               /\ h.ok => FunctionsClosed(h.program) /\ LabelsResolved(h)
<1> DEFINE P == g.program
<1> DEFINE n == Len(P)
<1> DEFINE new == [p \in DOMAIN P |-> IF Target(g, p) = {} THEN P[p]
                                     ELSE Lconst(g.labels[CHOOSE l \in Target(g, p) : TRUE])]
<1> DEFINE h == ResolveRefs(g)
<1>1. /\ GeneratorType(g) /\ RefsOK(g) /\ FunctionsClosed(P)
      /\ g \in [program : Seq(CodeWord), labels : {g.labels}, refs : {g.refs},
                fpAdds : Seq(Nat), ok : BOOLEAN]
      /\ P \in Seq(CodeWord) /\ n \in Nat /\ DOMAIN P = 1..n
  BY DEF GeneratorOK, GeneratorType
<1>2. CASE ~(DOMAIN g.refs \subseteq DOMAIN g.labels /\ \A p \in DOMAIN new : new[p] # Throws)
  <2>1. h = [g EXCEPT !.ok = FALSE]  BY <1>2 DEF ResolveRefs
  <2> HIDE DEF h
  <2>2. h = [program |-> g.program, labels |-> g.labels, refs |-> g.refs,
             fpAdds |-> g.fpAdds, ok |-> FALSE]
    BY <1>1, <2>1
  <2>3. h \in [program : Seq(CodeWord), labels : {h.labels}, refs : {h.refs},
               fpAdds : Seq(Nat), ok : BOOLEAN]
    BY <1>1, <2>2
  <2>4. GeneratorType(h)  BY <1>1, <2>2, <2>3 DEF GeneratorType
  <2> QED  BY <2>2, <2>4 DEF h
<1>3. CASE DOMAIN g.refs \subseteq DOMAIN g.labels /\ \A p \in DOMAIN new : new[p] # Throws
  <2>1. h = [g EXCEPT !.program = new]  BY <1>3 DEF ResolveRefs
  <2> HIDE DEF h
  <2>2. \A p \in 1..n : Target(g, p) = {} => new[p] = P[p]  BY <1>1
  <2>3. ASSUME NEW p \in 1..n, NEW l \in Target(g, p)
        PROVE  /\ P[p] = 0
               /\ new[p] = g.labels[l] /\ new[p] \in 0..FlagBit - 1
    <3>1. PICK k \in DOMAIN g.refs[l] : l \in DOMAIN g.refs /\ g.refs[l][k] = p - 1
      BY DEF Target
    <3>2. P[p] = 0
      <4>1. P[g.refs[l][k] + 1] = 0  BY <1>1, <3>1 DEF RefsOK
      <4>2. (p - 1) + 1 = p  OBVIOUS
      <4> QED  BY <3>1, <4>1, <4>2
    <3> DEFINE chosen == CHOOSE m \in Target(g, p) : TRUE
    <3>3. chosen \in Target(g, p)  OBVIOUS
    <3> HIDE DEF chosen
    <3>4. chosen = l
      <4>1. PICK j \in DOMAIN g.refs[chosen] :
               chosen \in DOMAIN g.refs /\ g.refs[chosen][j] = p - 1
        BY <3>3 DEF Target
      <4> QED  BY <1>1, <3>1, <4>1 DEF RefsOK
    <3>5. new[p] = Lconst(g.labels[l])
      <4>1. Target(g, p) # {}  OBVIOUS
      <4>2. new[p] = Lconst(g.labels[chosen])  BY <1>1, <4>1 DEF chosen
      <4> QED  BY <3>4, <4>2
    <3>6. new[p] # Throws  BY <1>1, <1>3
    <3> HIDE DEF new
    <3>7. g.labels[l] \in 0..FlagBit - 1 /\ new[p] = g.labels[l]
      BY <3>5, <3>6 DEF Lconst
    <3> QED  BY <3>2, <3>7
  <2>4. DOMAIN new = 1..n  BY <1>1
  <2> HIDE DEF new
  <2>5. \A p \in 1..n : new[p] = P[p] \/ (P[p] = 0 /\ new[p] \in 0..FlagBit - 1)
    BY <2>2, <2>3
  <2>6. new \in Seq(CodeWord) /\ Len(new) = n
    <3>1. \A p \in 1..n : new[p] \in CodeWord  BY <1>1, <2>5 DEF CodeWord
    <3>2. new = [p \in 1..n |-> new[p]]
      <4>1. new = [p \in DOMAIN P |-> new[p]]  BY DEF new
      <4> QED  BY <1>1, <4>1
    <3>3. new \in [1..n -> CodeWord]  BY <3>1, <3>2
    <3>4. n \in Nat  BY <1>1
    <3> HIDE DEF n
    <3>5. new \in Seq(CodeWord) /\ Len(new) = n
      BY <3>3, <3>4, LenProperties, SequenceLength, SeqDef
    <3> QED  BY <3>5
  <2>7. h = [program |-> new, labels |-> g.labels, refs |-> g.refs,
             fpAdds |-> g.fpAdds, ok |-> g.ok]
    BY <1>1, <2>1
  <2>8. h \in [program : Seq(CodeWord), labels : {h.labels}, refs : {h.refs},
               fpAdds : Seq(Nat), ok : BOOLEAN]
    BY <1>1, <2>6, <2>7
  <2>9. GeneratorType(h)  BY <1>1, <2>7, <2>8 DEF GeneratorType
  <2>10. FunctionsClosed(new)  BY <1>1, <2>5, <2>6, FilledClosed
  <2>11. ASSUME NEW l \in DOMAIN g.refs, NEW k \in DOMAIN g.refs[l]
         PROVE  new[g.refs[l][k] + 1] = g.labels[l]
    <3> DEFINE r == g.refs[l][k]
    <3>1. r \in Nat /\ r < n  BY <1>1 DEF RefsOK, GeneratorType
    <3>2. r + 1 \in 1..n /\ (r + 1) - 1 = r
      <4> HIDE DEF r
      <4> QED  BY <1>1, <3>1
    <3>3. l \in Target(g, r + 1)  BY <3>2 DEF Target
    <3> QED  BY <2>3, <3>2, <3>3
  <2>12. LabelsResolved(h)  BY <2>7, <2>11 DEF LabelsResolved
  <2> QED  BY <2>7, <2>9, <2>10, <2>12 DEF h
<1> QED  BY <1>2, <1>3

-----------------------------------------------------------------------------
\* What a step does to the scopes.

\* A step that replaces the innermost scope by a good one keeps all good.
LEMMA ReplaceBackOK ==
    ASSUME AllocatorsOK, NEW a, Len(mAllocators) # 0 => AllocatorOK(a), ReplaceBack(a)
    PROVE  AllocatorsOK'
<1>1. mAllocators' = [mAllocators EXCEPT ![Len(mAllocators)] = a]  BY DEF ReplaceBack
<1>2. /\ IsSequence(mAllocators')
      /\ DOMAIN mAllocators' = DOMAIN mAllocators
      /\ \A i \in DOMAIN mAllocators :
           mAllocators'[i] = IF i = Len(mAllocators) THEN a ELSE mAllocators[i]
  <2>1. LET t == [mAllocators EXCEPT ![Len(mAllocators)] = a]
        IN  /\ IsSequence(t)
            /\ DOMAIN t = DOMAIN mAllocators
            /\ \A i \in DOMAIN mAllocators :
                 t[i] = IF i = Len(mAllocators) THEN a ELSE mAllocators[i]
    BY ReplaceSequence DEF AllocatorsOK
  <2> QED  BY <1>1, <2>1
<1>3. \A i \in DOMAIN mAllocators : Len(mAllocators) # 0
  BY SequenceLength DEF AllocatorsOK
<1>4. \A i \in DOMAIN mAllocators' : AllocatorOK(mAllocators'[i])
  BY <1>2, <1>3 DEF AllocatorsOK
<1> QED  BY <1>2, <1>4 DEF AllocatorsOK

\* The innermost scope is a good one.
LEMMA BackOK ==
    ASSUME AllocatorsOK, Len(mAllocators) # 0
    PROVE  AllocatorOK(Back)
<1>1. Len(mAllocators) \in DOMAIN mAllocators
  BY SequenceLength DEF AllocatorsOK
<1> QED  BY <1>1 DEF AllocatorsOK, Back

\* The scopes that a block's end leaves, one or two of them closed.
LEMMA OpenedAgainOK ==
    ASSUME AllocatorsOK, NEW a \in EndBlock(Back), ReplaceBack(StartBlock(a))
    PROVE  AllocatorsOK'
<1>1. Len(mAllocators) # 0 => AllocatorOK(StartBlock(a))
  BY BackOK, EndBlockOK, StartBlockOK
<1> QED  BY <1>1, ReplaceBackOK

\* The end of an if or a while, which closes two blocks.
LEMMA ClosedTwiceOK ==
    ASSUME AllocatorsOK, \E a \in EndBlock(Back) : \E b \in EndBlock(a) : ReplaceBack(b)
    PROVE  AllocatorsOK'
<1>1. PICK a \in EndBlock(Back) : \E b \in EndBlock(a) : ReplaceBack(b)  OBVIOUS
<1>2. PICK b \in EndBlock(a) : ReplaceBack(b)  BY <1>1
<1>3. Len(mAllocators) # 0 => AllocatorOK(b)  BY BackOK, EndBlockOK
<1> QED  BY <1>2, <1>3, ReplaceBackOK

\* The start of an if, a while or one of their branches.
LEMMA StartedOK ==
    ASSUME AllocatorsOK, ReplaceBack(StartBlock(Back))
    PROVE  AllocatorsOK'
<1>1. Len(mAllocators) # 0 => AllocatorOK(StartBlock(Back))  BY BackOK, StartBlockOK
<1> QED  BY <1>1, ReplaceBackOK

\* The visitor starts with the globals, and with no slot of them taken.
LEMMA AllocatorsInit == VisitorInit => AllocatorsOK
<1> SUFFICES ASSUME VisitorInit
             PROVE  AllocatorsOK
  OBVIOUS
<1> DEFINE a == NewAllocator(200, "GLOBAL")
<1>1. mAllocators = <<a>>  BY DEF VisitorInit
<1>2. AllocatorOK(a)  BY NewAllocatorOK
<1> HIDE DEF a
<1>3. IsSequence(mAllocators)
  <2>1. mAllocators \in Seq({a})  BY <1>1
  <2> QED  BY <2>1, SeqIsSequence
<1> QED  BY <1>1, <1>2, <1>3 DEF AllocatorsOK

\* The end of a function drops its frame.
LEMMA FuncEndOK ==
    ASSUME AllocatorsOK, mAllocators' = SubSeq(mAllocators, 1, Len(mAllocators) - 1)
    PROVE  AllocatorsOK'
<1> DEFINE s == mAllocators
<1>1. IsSequence(s)  BY DEF AllocatorsOK
<1>2. CASE Len(s) = 0
  <2>1. SubSeq(s, 1, Len(s) - 1) = <<>>
    <3>1. 1 \in Int /\ 0 - 1 \in Int /\ 0 - 1 < 1  OBVIOUS
    <3> HIDE DEF s
    <3> QED  BY <1>2, <3>1, SubSeqEmpty
  <2>2. mAllocators' = <<>>  BY <2>1
  <2>3. mAllocators' \in Seq({}) /\ DOMAIN mAllocators' = {}
    <3>1. <<>> \in Seq({})  OBVIOUS
    <3>2. DOMAIN <<>> = {}  OBVIOUS
    <3> QED  BY <2>2, <3>1, <3>2
  <2>4. IsSequence(mAllocators')  BY <2>3, SeqIsSequence
  <2> QED  BY <2>3, <2>4 DEF AllocatorsOK
<1>3. CASE Len(s) # 0
  <2>1. /\ IsSequence(mAllocators')
        /\ DOMAIN mAllocators' = 1..Len(s) - 1
        /\ \A i \in 1..Len(s) - 1 : mAllocators'[i] = s[i]
    BY <1>1, <1>3, FrontSequence
  <2>2. \A i \in 1..Len(s) - 1 : i \in DOMAIN s  BY <1>1, SequenceLength
  <2> QED  BY <2>1, <2>2 DEF AllocatorsOK
<1> QED  BY <1>2, <1>3

\* The start of a function adds an empty frame.
LEMMA FunctionOpensOK ==
    ASSUME AllocatorsOK, mAllocators' = Append(mAllocators, NewAllocator(0, "STACK"))
    PROVE  AllocatorsOK'
<1> DEFINE s == mAllocators
<1>1. IsSequence(s) /\ Len(s) \in Nat /\ DOMAIN s = 1..Len(s)
  BY SequenceLength DEF AllocatorsOK
<1>2. /\ IsSequence(mAllocators')
      /\ DOMAIN mAllocators' = 1..Len(s) + 1
      /\ \A i \in 1..Len(s) : mAllocators'[i] = s[i]
      /\ mAllocators'[Len(s) + 1] = NewAllocator(0, "STACK")
  BY <1>1, AppendSequence
<1>3. \A i \in 1..Len(s) + 1 : i \in 1..Len(s) \/ i = Len(s) + 1  BY <1>1
<1> QED  BY <1>1, <1>2, <1>3, NewAllocatorOK DEF AllocatorsOK

-----------------------------------------------------------------------------
\* Which steps leave the scopes alone, and which do one of the above.
LEMMA StatementStepOK ==
    ASSUME AllocatorsOK, VisitStatement
    PROVE  AllocatorsOK'
<1>1. CASE VisitIf_stmt \/ IfThen \/ VisitWhile_stmt \/ WhileBody
  BY <1>1, StartedOK DEF VisitIf_stmt, IfThen, VisitWhile_stmt, WhileBody
<1>2. CASE IfElse
  BY <1>2, OpenedAgainOK DEF IfElse
<1>3. CASE IfWithoutElse \/ IfEnd \/ WhileEnd
  BY <1>3, ClosedTwiceOK DEF IfWithoutElse, IfEnd, WhileEnd
<1>4. CASE VisitVar_decl_stmt
  <2>1. /\ CanAlloc(Back, Node.name)
        /\ ReplaceBack(Alloc(Back, Node.name))
    BY <1>4 DEF VisitVar_decl_stmt
  <2>2. Len(mAllocators) # 0 => AllocatorOK(Alloc(Back, Node.name))
    BY <2>1, BackOK, AllocOK
  <2> QED  BY <2>1, <2>2, ReplaceBackOK
<1>5. CASE VisitCall_stmt \/ VisitStmts \/ DeclaredTwice \/ VisitAssign_stmt
             \/ VisitPrint_stmt \/ StoreValue
  <2>1. mAllocators' = mAllocators
    BY <1>5 DEF VisitCall_stmt, VisitStmts, DeclaredTwice, Throw, VisitAssign_stmt,
                VisitPrint_stmt, StoreValue
  <2> QED  BY <2>1 DEF AllocatorsOK
<1> QED  BY <1>1, <1>2, <1>3, <1>4, <1>5 DEF VisitStatement

\* Expressions take and free no slots.
LEMMA ExpressionStepOK ==
    ASSUME AllocatorsOK, VisitExpression
    PROVE  AllocatorsOK'
<1>1. CASE VisitBitwiseand \/ VisitEqcomparison \/ VisitComparison \/ VisitShift
             \/ VisitSumma \/ VisitTerm \/ VisitBitwiseor \/ VisitBitwisexor
  <2>1. mAllocators' = mAllocators
    BY <1>1 DEF VisitBitwiseand, VisitEqcomparison, VisitComparison, VisitShift,
                VisitSumma, VisitTerm, VisitBitwiseor, VisitBitwisexor, VisitOperands
  <2> QED  BY <2>1 DEF AllocatorsOK
<1>2. CASE EmitOperation \/ VisitUnary \/ VisitNumber \/ VisitIdent \/ NotDeclared
  <2>1. mAllocators' = mAllocators
    BY <1>2 DEF EmitOperation, VisitUnary, VisitNumber, VisitIdent, NotDeclared, Throw
  <2> QED  BY <2>1 DEF AllocatorsOK
<1> QED  BY <1>1, <1>2 DEF VisitExpression

\* Every step of the visitor preserves the invariant.
LEMMA VisitorStepOK ==
    ASSUME AllocatorsOK, [VisitorNext]_visitorVars
    PROVE  AllocatorsOK'
<1>1. CASE VisitProg \/ TopLevel \/ CallMain \/ Resolve
  <2>1. mAllocators' = mAllocators
    BY <1>1 DEF VisitProg, TopLevel, CallMain, Resolve
  <2> QED  BY <2>1 DEF AllocatorsOK
<1>2. CASE VisitFunc_decl
  BY <1>2, FunctionOpensOK DEF VisitFunc_decl
<1>3. CASE FuncEnd
  BY <1>3, FuncEndOK DEF FuncEnd
<1>4. CASE VisitStatement \/ VisitExpression
  BY <1>4, StatementStepOK, ExpressionStepOK
<1>5. CASE \/ \E p \in Programs : VisitAll(p)
           \/ UNCHANGED visitorVars
  <2>1. mAllocators' = mAllocators  BY <1>5 DEF VisitAll, visitorVars
  <2> QED  BY <2>1 DEF AllocatorsOK
<1> QED  BY <1>1, <1>2, <1>3, <1>4, <1>5 DEF VisitorNext, VisitorStep

-----------------------------------------------------------------------------
\* What is still to be done, after a step has put next in place of its head.

\* Two sequences after one another.
LEMMA ConcatSequence ==
    ASSUME NEW s, IsSequence(s), NEW t, IsSequence(t)
    PROVE  /\ IsSequence(s \o t)
           /\ Len(s \o t) = Len(s) + Len(t)
           /\ \A i \in 1..Len(s) : (s \o t)[i] = s[i]
           /\ \A i \in 1..Len(t) : (s \o t)[Len(s) + i] = t[i]
<1> DEFINE S == {s[i] : i \in DOMAIN s} \cup {t[i] : i \in DOMAIN t}
<1>1. Len(s) \in Nat /\ Len(t) \in Nat /\ DOMAIN s = 1..Len(s) /\ DOMAIN t = 1..Len(t)
  BY SequenceLength
<1>2. s \in Seq(S) /\ t \in Seq(S)  BY SeqMonotonic DEF IsSequence
<1> HIDE DEF S
<1>3. /\ s \o t \in Seq(S)
      /\ Len(s \o t) = Len(s) + Len(t)
      /\ \A i \in 1..Len(s) + Len(t) :
           (s \o t)[i] = IF i <= Len(s) THEN s[i] ELSE t[i - Len(s)]
  BY <1>2, ConcatProperties
<1>4. \A i \in 1..Len(s) : (s \o t)[i] = s[i]
  <2> TAKE i \in 1..Len(s)
  <2>1. i \in 1..Len(s) + Len(t) /\ i <= Len(s)  BY <1>1
  <2> QED  BY <1>3, <2>1
<1>5. \A i \in 1..Len(t) : (s \o t)[Len(s) + i] = t[i]
  <2> TAKE i \in 1..Len(t)
  <2> DEFINE j == Len(s) + i
  <2>1. j \in 1..Len(s) + Len(t) /\ ~(j <= Len(s)) /\ j - Len(s) = i  BY <1>1
  <2> HIDE DEF j
  <2> QED  BY <1>3, <2>1 DEF j
<1> QED  BY <1>3, <1>4, <1>5, SeqIsSequence

\* The rest of what is to be done.
LEMMA TailSequence ==
    ASSUME NEW s, IsSequence(s), s # <<>>
    PROVE  /\ Len(s) \in Nat \ {0} /\ DOMAIN s = 1..Len(s) /\ Head(s) = s[1]
           /\ IsSequence(Tail(s))
           /\ Len(Tail(s)) = Len(s) - 1
           /\ \A i \in 1..Len(s) - 1 : Tail(s)[i] = s[i + 1]
<1> DEFINE S == {s[i] : i \in DOMAIN s}
<1>1. Len(s) \in Nat /\ DOMAIN s = 1..Len(s)  BY SequenceLength
<1>2. s \in Seq(S)  BY DEF IsSequence
<1> HIDE DEF S
<1>3. /\ Tail(s) \in Seq(S) /\ Len(Tail(s)) = Len(s) - 1
      /\ \A i \in 1..Len(Tail(s)) : Tail(s)[i] = s[i + 1]
  BY <1>2, HeadTailProperties
<1>4. Len(s) # 0  BY <1>2
<1>5. Head(s) = s[1]  BY <1>2
<1> QED  BY <1>1, <1>3, <1>4, <1>5, SeqIsSequence

\* The head gives way to next, the rest moves.
LEMMA HeadReplaced ==
    ASSUME NEW s, IsSequence(s), s # <<>>, NEW next, IsSequence(next)
    PROVE  LET t == next \o Tail(s)
           IN  /\ IsSequence(t)
               /\ Len(t) = Len(next) + (Len(s) - 1)
               /\ \A i \in 1..Len(next) : t[i] = next[i]
               /\ \A i \in 2..Len(s) : t[Len(next) + (i - 1)] = s[i]
<1> DEFINE r == Tail(s)
<1>1. /\ Len(s) \in Nat \ {0} /\ IsSequence(r) /\ Len(r) = Len(s) - 1
      /\ \A i \in 1..Len(s) - 1 : r[i] = s[i + 1]
  BY TailSequence
<1> HIDE DEF r
<1>2. /\ IsSequence(next \o r)
      /\ Len(next \o r) = Len(next) + Len(r)
      /\ \A i \in 1..Len(next) : (next \o r)[i] = next[i]
      /\ \A i \in 1..Len(r) : (next \o r)[Len(next) + i] = r[i]
  <2>1. IsSequence(next) /\ IsSequence(r)  BY <1>1
  <2> HIDE <1>1
  <2> QED  BY <2>1, ConcatSequence
<1>3. \A i \in 2..Len(s) : (next \o r)[Len(next) + (i - 1)] = s[i]
  <2> TAKE i \in 2..Len(s)
  <2>1. i - 1 \in 1..Len(s) - 1 /\ (i - 1) + 1 = i  BY <1>1
  <2>2. r[i - 1] = s[i]  BY <1>1, <2>1
  <2> QED  BY <1>1, <1>2, <2>1, <2>2
<1> QED  BY <1>1, <1>2, <1>3 DEF r

\* The short sequences that the steps put in front.
LEMMA ShortSequences ==
    /\ IsSequence(<<>>) /\ DOMAIN <<>> = {}
    /\ \A a : IsSequence(<<a>>) /\ DOMAIN <<a>> = {1}
    /\ \A a, b : IsSequence(<<a, b>>) /\ DOMAIN <<a, b>> = {1, 2}
    /\ \A a, b, c : IsSequence(<<a, b, c>>) /\ DOMAIN <<a, b, c>> = {1, 2, 3}
<1>1. <<>> \in Seq({}) /\ DOMAIN <<>> = {}
  <2>1. <<>> \in Seq({})  OBVIOUS
  <2>2. DOMAIN <<>> = {}  OBVIOUS
  <2> QED  BY <2>1, <2>2
<1>2. \A a : <<a>> \in Seq({a}) /\ DOMAIN <<a>> = {1}
  <2> TAKE a
  <2>1. <<a>> \in Seq({a})  OBVIOUS
  <2>2. DOMAIN <<a>> = 1..1  OBVIOUS
  <2> QED  BY <2>1, <2>2
<1>3. \A a, b : <<a, b>> \in Seq({a, b}) /\ DOMAIN <<a, b>> = {1, 2}
  <2> TAKE a, b
  <2>1. <<a, b>> \in Seq({a, b})  OBVIOUS
  <2>2. DOMAIN <<a, b>> = 1..2  OBVIOUS
  <2> QED  BY <2>1, <2>2
<1>4. \A a, b, c : <<a, b, c>> \in Seq({a, b, c}) /\ DOMAIN <<a, b, c>> = {1, 2, 3}
  <2> TAKE a, b, c
  <2>1. <<a, b, c>> \in Seq({a, b, c})  OBVIOUS
  <2>2. DOMAIN <<a, b, c>> = 1..3  OBVIOUS
  <2> QED  BY <2>1, <2>2
<1> QED  BY <1>1, <1>2, <1>3, <1>4, SeqIsSequence

\* The loops over the children of a context.
LEMMA LoopSequences ==
    ASSUME NEW S, NEW nodes \in Seq(S), NEW kind
    PROVE  /\ IsSequence(VisitEach(nodes)) /\ DOMAIN VisitEach(nodes) = 1..Len(nodes)
           /\ Len(VisitEach(nodes)) = Len(nodes)
           /\ \A i \in 1..Len(nodes) : VisitEach(nodes)[i] = Visit(nodes[i]) /\ nodes[i] \in S
           /\ IsSequence(VisitOnly(kind, nodes))
           /\ DOMAIN VisitOnly(kind, nodes) = 1..Len(nodes)
           /\ Len(VisitOnly(kind, nodes)) = Len(nodes)
           /\ \A i \in 1..Len(nodes) :
                VisitOnly(kind, nodes)[i] = [do |-> "topLevel", kind |-> kind, node |-> nodes[i]]
<1> DEFINE n == Len(nodes)
<1> DEFINE e == VisitEach(nodes)
<1> DEFINE o == VisitOnly(kind, nodes)
<1>1. n \in Nat /\ DOMAIN nodes = 1..n /\ \A i \in 1..n : nodes[i] \in S  OBVIOUS
<1>2. e = [i \in 1..n |-> Visit(nodes[i])]  BY <1>1 DEF VisitEach
<1>3. o = [i \in 1..n |-> [do |-> "topLevel", kind |-> kind, node |-> nodes[i]]]
  BY <1>1 DEF VisitOnly
<1>4. \A f : f = [i \in 1..n |-> f[i]] => IsSequence(f) /\ DOMAIN f = 1..n /\ Len(f) = n
  <2> SUFFICES ASSUME NEW f, f = [i \in 1..n |-> f[i]]
               PROVE  IsSequence(f) /\ DOMAIN f = 1..n /\ Len(f) = n
    OBVIOUS
  <2> HIDE DEF n
  <2>1. DOMAIN f = 1..n  OBVIOUS
  <2> DEFINE R == {f[i] : i \in DOMAIN f}
  <2>2. \A i \in 1..n : f[i] \in R  BY <2>1
  <2> HIDE DEF R
  <2>3. f \in [1..n -> R]  BY <2>2
  <2>4. f \in Seq(R) /\ Len(f) = n  BY <1>1, <2>3
  <2> QED  BY <2>1, <2>4, SeqIsSequence
<1>5. e = [i \in 1..n |-> e[i]] /\ o = [i \in 1..n |-> o[i]]  BY <1>2, <1>3
<1>6. /\ IsSequence(e) /\ DOMAIN e = 1..n /\ Len(e) = n
      /\ IsSequence(o) /\ DOMAIN o = 1..n /\ Len(o) = n
  <2> HIDE DEF e, o
  <2> QED  BY <1>4, <1>5
<1>7. \A i \in 1..n : e[i] = Visit(nodes[i])  BY <1>2
<1>8. \A i \in 1..n : o[i] = [do |-> "topLevel", kind |-> kind, node |-> nodes[i]]
  BY <1>3
<1> QED  BY <1>1, <1>6, <1>7, <1>8

\* The methods whose rest is done within the globals or within a function.
InnerDos == {"topLevel", "visit", "ifThen", "ifElse", "ifEnd", "whileBody", "whileEnd",
             "emit", "store"}

\* A frame that grows only makes room.
LEMMA InnerRoom ==
    ASSUME NEW e, NEW limit \in Nat, NEW room \in Nat, limit <= room, Inner(e, limit)
    PROVE  Inner(e, room)
BY DEF Inner

\* Within a body the head is inner work or the end of the body.
LEMMA MarkedHead ==
    ASSUME NEW s, IsSequence(s), NEW mark, mark \notin InnerDos, NEW limit,
           Marked(s, mark, limit)
    PROVE  /\ s # <<>>
           /\ \/ Head(s).do = mark
              \/ Inner(Head(s), limit) /\ Head(s).do \in InnerDos
<1>1. PICK k \in DOMAIN s : s[k].do = mark /\ \A i \in 1..k - 1 : Inner(s[i], limit)
  BY DEF Marked
<1>2. s # <<>>  BY <1>1
<1>3. Len(s) \in Nat /\ DOMAIN s = 1..Len(s) /\ Head(s) = s[1]  BY <1>2, TailSequence
<1>4. CASE k = 1  BY <1>1, <1>2, <1>3, <1>4
<1>5. CASE k # 1
  <2>1. 1 \in 1..k - 1  BY <1>3, <1>5
  <2>2. Inner(s[1], limit)  BY <1>1, <2>1
  <2> QED  BY <1>2, <1>3, <2>2 DEF Inner, InnerDos
<1> QED  BY <1>4, <1>5

\* Inner work gives way to inner work.
LEMMA MarkedStays ==
    ASSUME NEW s, IsSequence(s), NEW mark, NEW limit \in Nat, NEW room \in Nat,
           limit <= room, Marked(s, mark, limit), Head(s).do # mark, s # <<>>,
           NEW next, IsSequence(next), \A i \in DOMAIN next : Inner(next[i], room)
    PROVE  Marked(next \o Tail(s), mark, room)
<1> DEFINE t == next \o Tail(s)
<1> DEFINE n == Len(next)
<1>1. PICK k \in DOMAIN s :
         /\ s[k].do = mark
         /\ \A i \in 1..k - 1 : Inner(s[i], limit)
         /\ \A i \in k + 1..Len(s) : Outer(s[i])
  BY DEF Marked
<1>2. Len(s) \in Nat /\ DOMAIN s = 1..Len(s) /\ Head(s) = s[1]  BY TailSequence
<1>3. n \in Nat /\ DOMAIN next = 1..n  BY SequenceLength
<1>4. /\ IsSequence(t) /\ Len(t) = n + (Len(s) - 1)
      /\ \A i \in 1..n : t[i] = next[i]
      /\ \A i \in 2..Len(s) : t[n + (i - 1)] = s[i]
  BY HeadReplaced
<1> HIDE DEF t, n
<1>5. k # 1 /\ k \in 2..Len(s)  BY <1>1, <1>2
<1> DEFINE m == n + (k - 1)
<1>6. m \in Nat /\ m \in 1..Len(t)  BY <1>2, <1>3, <1>4, <1>5
<1>7. DOMAIN t = 1..Len(t)  BY <1>4, SequenceLength
<1>8. t[m].do = mark  BY <1>1, <1>4, <1>5
<1>9. \A i \in 1..m - 1 : Inner(t[i], room)
  <2> SUFFICES ASSUME NEW i \in 1..m - 1
               PROVE  Inner(t[i], room)
    OBVIOUS
  <2>1. CASE i <= n
    <3>1. i \in 1..n  BY <1>3, <2>1
    <3> QED  BY <1>3, <1>4, <3>1
  <2>2. CASE ~(i <= n)
    <3> DEFINE j == (i - n) + 1
    <3>1. j \in 2..Len(s) /\ j \in 1..k - 1 /\ n + (j - 1) = i
      BY <1>2, <1>3, <1>5, <2>2
    <3> HIDE DEF j
    <3>2. t[i] = s[j] /\ Inner(s[j], limit)  BY <1>1, <1>4, <3>1
    <3> QED  BY <3>2, InnerRoom
  <2> QED  BY <2>1, <2>2
<1>10. \A i \in m + 1..Len(t) : Outer(t[i])
  <2> SUFFICES ASSUME NEW i \in m + 1..Len(t)
               PROVE  Outer(t[i])
    OBVIOUS
  <2> DEFINE j == (i - n) + 1
  <2>1. j \in 2..Len(s) /\ j \in k + 1..Len(s) /\ n + (j - 1) = i
    BY <1>2, <1>3, <1>4, <1>5
  <2> HIDE DEF j
  <2> QED  BY <1>1, <1>4, <2>1
<1> HIDE DEF m
<1>11. Marked(t, mark, room)  BY <1>6, <1>7, <1>8, <1>9, <1>10 DEF Marked
<1> QED  BY <1>11 DEF t

\* Behind the end of a body only functions are left.
LEMMA MarkedEnds ==
    ASSUME NEW s, IsSequence(s), NEW mark, mark \notin InnerDos, NEW limit,
           Marked(s, mark, limit), Head(s).do = mark
    PROVE  /\ IsSequence(<<>> \o Tail(s))
           /\ \A i \in DOMAIN (<<>> \o Tail(s)) : Outer((<<>> \o Tail(s))[i])
<1>1. PICK k \in DOMAIN s :
         /\ \A i \in 1..k - 1 : Inner(s[i], limit)
         /\ \A i \in k + 1..Len(s) : Outer(s[i])
  BY DEF Marked
<1>2. s # <<>>  BY <1>1
<1> DEFINE t == Tail(s)
<1>3. /\ Len(s) \in Nat /\ DOMAIN s = 1..Len(s) /\ Head(s) = s[1] /\ IsSequence(t)
      /\ Len(t) = Len(s) - 1
      /\ \A i \in 1..Len(s) - 1 : t[i] = s[i + 1]
  BY <1>2, TailSequence
<1> HIDE DEF t
<1>4. <<>> \o t = t
  <2>1. t \in Seq({t[i] : i \in DOMAIN t})  BY <1>3 DEF IsSequence
  <2> QED  BY <2>1, ConcatEmptySeq
<1>5. k = 1
  <2> SUFFICES ASSUME k # 1
               PROVE  FALSE
    OBVIOUS
  <2>1. 1 \in 1..k - 1  BY <1>3
  <2>2. Inner(s[1], limit)  BY <1>1, <2>1
  <2> QED  BY <1>3, <2>2 DEF Inner, InnerDos
<1>6. DOMAIN t = 1..Len(s) - 1  BY <1>3, SequenceLength
<1>7. \A i \in DOMAIN t : Outer(t[i])
  <2> TAKE i \in DOMAIN t
  <2>1. i + 1 \in k + 1..Len(s) /\ t[i] = s[i + 1]  BY <1>3, <1>5, <1>6
  <2> QED  BY <1>1, <2>1
<1> QED  BY <1>3, <1>4, <1>7 DEF t

\* The functions that are left, when the first gives way to its visit.
LEMMA OuterStays ==
    ASSUME NEW s, IsSequence(s), s # <<>>, \A i \in DOMAIN s : Outer(s[i]),
           NEW next, IsSequence(next), \A i \in DOMAIN next : Outer(next[i])
    PROVE  /\ IsSequence(next \o Tail(s))
           /\ \A i \in DOMAIN (next \o Tail(s)) : Outer((next \o Tail(s))[i])
<1> DEFINE t == next \o Tail(s)
<1> DEFINE n == Len(next)
<1>1. Len(s) \in Nat /\ DOMAIN s = 1..Len(s)  BY TailSequence
<1>2. n \in Nat /\ DOMAIN next = 1..n  BY SequenceLength
<1>3. /\ IsSequence(t) /\ Len(t) = n + (Len(s) - 1)
      /\ \A i \in 1..n : t[i] = next[i]
      /\ \A i \in 2..Len(s) : t[n + (i - 1)] = s[i]
  BY HeadReplaced
<1> HIDE DEF t, n
<1>4. DOMAIN t = 1..Len(t)  BY <1>3, SequenceLength
<1>5. \A i \in 1..Len(t) : Outer(t[i])
  <2> SUFFICES ASSUME NEW i \in 1..Len(t)
               PROVE  Outer(t[i])
    OBVIOUS
  <2>1. CASE i <= n
    <3>1. i \in 1..n  BY <1>2, <2>1
    <3> QED  BY <1>2, <1>3, <3>1
  <2>2. CASE ~(i <= n)
    <3> DEFINE j == (i - n) + 1
    <3>1. j \in 2..Len(s) /\ n + (j - 1) = i  BY <1>1, <1>2, <1>3, <2>2
    <3> HIDE DEF j
    <3> QED  BY <1>1, <1>3, <3>1
  <2> QED  BY <2>1, <2>2
<1> QED  BY <1>3, <1>4, <1>5 DEF t

\* A body, its end and the functions behind it.
LEMMA MarkedStarts ==
    ASSUME NEW body, IsSequence(body), NEW limit,
           \A i \in DOMAIN body : Inner(body[i], limit), NEW mark,
           NEW behind, IsSequence(behind), \A i \in DOMAIN behind : Outer(behind[i])
    PROVE  /\ IsSequence((body \o <<Rest(mark)>>) \o behind)
           /\ Marked((body \o <<Rest(mark)>>) \o behind, mark, limit)
<1> DEFINE n == Len(body)
<1> DEFINE b == body \o <<Rest(mark)>>
<1> DEFINE t == b \o behind
<1>1. n \in Nat /\ DOMAIN body = 1..n  BY SequenceLength
<1>2. Len(behind) \in Nat /\ DOMAIN behind = 1..Len(behind)  BY SequenceLength
<1>3. /\ IsSequence(b) /\ Len(b) = n + 1
      /\ \A i \in 1..n : b[i] = body[i]
      /\ b[n + 1] = Rest(mark)
  <2> DEFINE one == <<Rest(mark)>>
  <2>1. IsSequence(one)  BY ShortSequences
  <2>2. Len(one) = 1 /\ one[1] = Rest(mark)  OBVIOUS
  <2> HIDE DEF one
  <2>3. /\ IsSequence(body \o one) /\ Len(body \o one) = Len(body) + Len(one)
        /\ \A i \in 1..Len(body) : (body \o one)[i] = body[i]
        /\ \A i \in 1..Len(one) : (body \o one)[Len(body) + i] = one[i]
    BY <2>1, ConcatSequence
  <2>4. 1 \in 1..Len(one)  BY <2>2
  <2> QED  BY <2>3, <2>4, <2>2 DEF one
<1> HIDE DEF b
<1>4. /\ IsSequence(t) /\ Len(t) = Len(b) + Len(behind)
      /\ \A i \in 1..Len(b) : t[i] = b[i]
      /\ \A i \in 1..Len(behind) : t[Len(b) + i] = behind[i]
  <2>1. IsSequence(b)  BY <1>3
  <2> QED  BY <2>1, ConcatSequence
<1> HIDE DEF t, n
<1>5. DOMAIN t = 1..Len(t) /\ n + 1 \in 1..Len(t) /\ (n + 1) - 1 = n
  BY <1>1, <1>2, <1>3, <1>4, SequenceLength
<1>6. t[n + 1].do = mark
  <2>1. n + 1 \in 1..Len(b)  BY <1>1, <1>3
  <2> QED  BY <1>3, <1>4, <2>1 DEF Rest
<1>7. \A i \in 1..(n + 1) - 1 : Inner(t[i], limit)
  <2> TAKE i \in 1..(n + 1) - 1
  <2>1. i \in 1..n /\ i \in 1..Len(b)  BY <1>1, <1>3
  <2> QED  BY <1>1, <1>3, <1>4, <2>1
<1>8. \A i \in (n + 1) + 1..Len(t) : Outer(t[i])
  <2> SUFFICES ASSUME NEW i \in (n + 1) + 1..Len(t)
               PROVE  Outer(t[i])
    OBVIOUS
  <2> DEFINE j == i - (n + 1)
  <2>1. j \in 1..Len(behind) /\ Len(b) + j = i  BY <1>1, <1>2, <1>3, <1>4
  <2> HIDE DEF j
  <2> QED  BY <1>2, <1>4, <2>1
<1>9. Marked(t, mark, limit)  BY <1>5, <1>6, <1>7, <1>8 DEF Marked
<1> QED  BY <1>4, <1>9 DEF t, b

-----------------------------------------------------------------------------
\* The visitor within the globals and within a function.

\* Within the globals, or within a function whose frame has limit slots so far.
Inside(mode, mark, limit) ==
    /\ \/ /\ mode = "globals" /\ mark = "callMain" /\ limit = 0
          /\ Len(mAllocators) = 1 /\ Back.scope = "GLOBAL"
       \/ /\ mode = "function" /\ mark = "funcEnd" /\ limit = Back.firstFree
          /\ Len(mAllocators) = 2 /\ mAllocators[1].scope = "GLOBAL"
          /\ Back.scope = "STACK" /\ Back.base = 0
    /\ Marked(work, mark, limit)
    /\ GeneratorOK(mCodeGen, mode, limit)

\* A step leaves the scopes what they are, and room slots in the frame.
Kept(mode, limit, room) ==
    /\ Len(mAllocators') = Len(mAllocators)
    /\ mode = "function" => mAllocators'[1].scope = mAllocators[1].scope
    /\ Back'.scope = Back.scope /\ Back'.base = Back.base
    /\ limit \in Nat /\ room \in Nat /\ limit <= room
    /\ IF mode = "function" THEN room = Back'.firstFree ELSE room = 0

\* The frame may grow under the code that has been generated.
LEMMA GeneratorRoom ==
    ASSUME NEW g, NEW mode, NEW limit \in Nat, NEW room \in Nat, limit <= room,
           GeneratorOK(g, mode, limit)
    PROVE  GeneratorOK(g, mode, room)
<1>1. \A w : Within(w, limit) => Within(w, room)
  <2> SUFFICES ASSUME NEW w, Within(w, limit)
               PROVE  Within(w, room)
    OBVIOUS
  <2> DEFINE i == -Disasm(w).imm
  <2>1. i \in 0..limit - 1 => i \in 0..room - 1
    <3> HIDE DEF i
    <3> QED  OBVIOUS
  <2> QED  BY <2>1 DEF Within
<1>2. FunctionOpen(g, limit) => FunctionOpen(g, room)  BY <1>1 DEF FunctionOpen
<1> QED  BY <1>2 DEF GeneratorOK

\* Both sorts of body come down to Inside.
LEMMA InsideEither ==
    /\ InGlobals => Inside("globals", "callMain", 0)
    /\ InFunction => Inside("function", "funcEnd", Back.firstFree)
BY DEF InGlobals, InFunction, Inside

\* The frame of a function is an allocator.
LEMMA BackType ==
    ASSUME AllocatorsOK, Len(mAllocators) \in {1, 2}
    PROVE  AllocatorOK(Back) /\ Back.firstFree \in Nat
<1>1. Len(mAllocators) # 0  OBVIOUS
<1>2. AllocatorOK(Back)  BY <1>1, BackOK
<1>3. Back.firstFree \in Nat
  <2> DEFINE a == Back
  <2>1. AllocatorType(a)  BY <1>2 DEF AllocatorOK
  <2> HIDE DEF a
  <2>2. a.firstFree \in Nat  BY <2>1 DEF AllocatorType
  <2> QED  BY <2>2 DEF a
<1> QED  BY <1>2, <1>3

\* Where the visitor stands, seen from the head of what is to be done.
LEMMA HeadInside ==
    ASSUME VisitorInv, status = "visiting", work # <<>>, Head(work).do \in InnerDos,
           Head(work).do = "visit" => Head(work).node.kind \in StmtKinds \cup ExprKinds,
           Head(work).do = "topLevel" => Head(work).kind # "func_decl"
    PROVE  \E mode \in {"globals", "function"}, mark \in {"callMain", "funcEnd"}, limit \in Nat :
              /\ Inside(mode, mark, limit)
              /\ Inner(Head(work), limit)
              /\ Head(work).do # mark
<1>1. IsSequence(work) /\ AllocatorsOK  BY DEF VisitorInv
<1>2. ~Starting
  <2> SUFFICES ASSUME NEW p \in Programs, work = <<Visit(p)>>
               PROVE  FALSE
    BY DEF Starting
  <2>1. Head(work).do = "visit" /\ Head(work).node = p  BY DEF Visit
  <2>2. p.kind = "prog"  BY DEF Programs
  <2> QED  BY <2>1, <2>2 DEF StmtKinds, ExprKinds, BinaryRules
<1>3. ~Between
  <2> SUFFICES ASSUME \A i \in DOMAIN work : Outer(work[i])
               PROVE  FALSE
    BY DEF Between
  <2>1. 1 \in DOMAIN work /\ Head(work) = work[1]  BY <1>1, TailSequence
  <2>2. Outer(Head(work))  BY <2>1
  <2> QED  BY <2>2 DEF Outer, StmtKinds, ExprKinds, BinaryRules
<1>4. "callMain" \notin InnerDos /\ "funcEnd" \notin InnerDos  BY DEF InnerDos
<1>5. CASE InGlobals
  <2>1. Inside("globals", "callMain", 0)  BY <1>5, InsideEither
  <2>2. Marked(work, "callMain", 0)  BY <1>5 DEF InGlobals
  <2>3. Inner(Head(work), 0) /\ Head(work).do # "callMain"
    BY <1>1, <1>4, <2>2, MarkedHead
  <2> QED  BY <2>1, <2>3
<1>6. CASE InFunction
  <2> DEFINE limit == Back.firstFree
  <2>1. Inside("function", "funcEnd", limit)  BY <1>6, InsideEither
  <2>2. Marked(work, "funcEnd", limit) /\ Len(mAllocators) = 2  BY <1>6 DEF InFunction
  <2>3. limit \in Nat  BY <1>1, <2>2, BackType
  <2> HIDE DEF limit
  <2>4. Inner(Head(work), limit) /\ Head(work).do # "funcEnd"
    BY <1>1, <1>4, <2>2, MarkedHead
  <2> QED  BY <2>1, <2>3, <2>4
<1> QED  BY <1>2, <1>3, <1>5, <1>6 DEF VisitorInv

\* A step that leaves the scopes alone makes no room.
LEMMA KeptUnchanged ==
    ASSUME NEW mode \in {"globals", "function"}, NEW mark, NEW limit \in Nat,
           Inside(mode, mark, limit), mAllocators' = mAllocators
    PROVE  Kept(mode, limit, limit)
<1>1. Back' = Back  BY DEF Back
<1>2. IF mode = "function" THEN limit = Back.firstFree ELSE limit = 0  BY DEF Inside
<1> QED  BY <1>1, <1>2 DEF Kept

\* A step that replaces the scope in use by one that has as many slots, or more.
LEMMA KeptReplaced ==
    ASSUME AllocatorsOK, NEW mode \in {"globals", "function"}, NEW mark, NEW limit \in Nat,
           Inside(mode, mark, limit), NEW a, ReplaceBack(a),
           a.scope = Back.scope, a.base = Back.base,
           a.firstFree \in Nat, Back.firstFree <= a.firstFree
    PROVE  /\ Kept(mode, limit, IF mode = "function" THEN a.firstFree ELSE 0)
           /\ Len(mAllocators) # 0
<1> DEFINE s == mAllocators
<1> DEFINE n == Len(s)
<1>1. IsSequence(s)  BY DEF AllocatorsOK
<1>2. n \in {1, 2} /\ (mode = "function" => n = 2)  BY DEF Inside
<1>3. n \in Nat /\ DOMAIN s = 1..n  BY <1>1, SequenceLength
<1>4. s' = [s EXCEPT ![n] = a]  BY DEF ReplaceBack
<1>5. /\ IsSequence(s') /\ DOMAIN s' = DOMAIN s
      /\ \A i \in DOMAIN s : s'[i] = IF i = n THEN a ELSE s[i]
  BY <1>1, <1>4, ReplaceSequence
<1>6. Len(s') = n  BY <1>3, <1>5, SequenceLength
<1>7. s'[n] = a /\ (n = 2 => s'[1] = s[1])
  <2>1. n \in DOMAIN s /\ 1 \in DOMAIN s  BY <1>2, <1>3
  <2> QED  BY <1>5, <2>1
<1>8. Back' = a  BY <1>6, <1>7 DEF Back
<1>9. IF mode = "function" THEN limit = Back.firstFree ELSE limit = 0  BY DEF Inside
<1>10. Len(s') = n /\ (mode = "function" => s'[1].scope = s[1].scope)
  BY <1>2, <1>6, <1>7
<1> QED  BY <1>2, <1>8, <1>9, <1>10 DEF Kept

\* A step within a body that has inner work to put in place of the head.
LEMMA InnerStep ==
    ASSUME VisitorInv, AllocatorsOK', status = "visiting",
           NEW mode \in {"globals", "function"}, NEW mark \in {"callMain", "funcEnd"},
           NEW limit \in Nat, NEW room,
           Inside(mode, mark, limit), Head(work).do # mark, Kept(mode, limit, room),
           NEW next, IsSequence(next), \A i \in DOMAIN next : Inner(next[i], room),
           work' = next \o Tail(work), GeneratorOK(mCodeGen', mode, limit),
           counter' \in Nat, status' \in {"visiting", "failed"}
    PROVE  VisitorInv'
<1>1. IsSequence(work) /\ Marked(work, mark, limit)  BY DEF VisitorInv, Inside
<1>2. mark \notin InnerDos  BY DEF InnerDos
<1>3. work # <<>>  BY <1>1, <1>2, MarkedHead
<1>4. limit \in Nat /\ room \in Nat /\ limit <= room  BY DEF Kept
<1>5. IsSequence(work')  BY <1>1, <1>3, HeadReplaced
<1>6. Marked(work', mark, room)  BY <1>1, <1>3, <1>4, MarkedStays
<1>7. GeneratorOK(mCodeGen', mode, room)  BY <1>4, GeneratorRoom
<1>8. GeneratorType(mCodeGen')  BY <1>7 DEF GeneratorOK
<1>9. CASE mode = "globals"
  <2>1. /\ mark = "callMain" /\ Len(mAllocators) = 1 /\ Back.scope = "GLOBAL" /\ room = 0
    BY <1>9 DEF Inside, Kept
  <2>2. Len(mAllocators') = 1 /\ Back'.scope = "GLOBAL"  BY <2>1 DEF Kept
  <2>3. InGlobals'  BY <1>6, <1>7, <1>9, <2>1, <2>2 DEF InGlobals
  <2> QED  BY <1>5, <1>8, <2>3 DEF VisitorInv
<1>10. CASE mode = "function"
  <2>1. /\ mark = "funcEnd" /\ Len(mAllocators) = 2 /\ mAllocators[1].scope = "GLOBAL"
        /\ Back.scope = "STACK" /\ Back.base = 0
    BY <1>10 DEF Inside
  <2>2. /\ Len(mAllocators') = 2 /\ mAllocators'[1].scope = "GLOBAL"
        /\ Back'.scope = "STACK" /\ Back'.base = 0 /\ room = Back'.firstFree
    BY <1>10, <2>1 DEF Kept
  <2>3. InFunction'  BY <1>6, <1>7, <1>10, <2>1, <2>2 DEF InFunction
  <2> QED  BY <1>5, <1>8, <2>3 DEF VisitorInv
<1> QED  BY <1>9, <1>10

\* A set of positions that is not empty has a last one.
LEMMA LastExists ==
    ASSUME NEW n \in Nat, NEW J \in SUBSET (1..n), J # {}
    PROVE  \E j \in J : \A l \in J : l <= j
<1> DEFINE T == {n - j : j \in J}
<1>1. T \subseteq Nat /\ T # {}
  <2>1. \A j \in J : n - j \in Nat  OBVIOUS
  <2> QED  BY <2>1
<1> HIDE DEF T
<1> DEFINE R == {r \in Nat \X Nat : r[1] < r[2]}
<1>2. IsWellFoundedOn(R, Nat)  BY NatLessThanWellFounded DEF OpToRel
<1> HIDE DEF R
<1>3. PICK t \in T : \A m \in T : <<m, t>> \notin R  BY <1>1, <1>2, WFMin
<1>4. \A m \in T : t <= m
  <2> TAKE m \in T
  <2>1. m \in Nat /\ t \in Nat /\ <<m, t>> \notin R  BY <1>1, <1>3
  <2> QED  BY <2>1 DEF R
<1>5. PICK j \in J : t = n - j  BY DEF T
<1>6. \A l \in J : l <= j
  <2> TAKE l \in J
  <2>1. t <= n - l  BY <1>4 DEF T
  <2> QED  BY <1>5, <2>1
<1> QED  BY <1>6

\* The code of a jump to a label, and of a call.
LEMMA JumpsOK ==
    ASSUME NEW g, NEW mode \in {"globals", "function"}, NEW limit, NEW label,
           GeneratorOK(g, mode, limit)
    PROVE  /\ GeneratorOK(CompileAJmp(CompileRef(g, label)), mode, limit)
           /\ GeneratorOK(CompileCJmpz(CompileRef(g, label)), mode, limit)
<1> DEFINE h == CompileRef(g, label)
<1>1. GeneratorOK(h, mode, limit)  BY CompileRefOK
<1> HIDE DEF h
<1>2. BodyWord(Ajmp, limit) /\ BodyWord(Cjmpz, limit)  BY PlainBody
<1>3. GeneratorOK(PushBack(h, Ajmp), mode, limit) /\ GeneratorOK(PushBack(h, Cjmpz), mode, limit)
  BY <1>1, <1>2, PushBackOK
<1> QED  BY <1>3 DEF CompileAJmp, CompileCJmpz, h

\* The code of an operation.
LEMMA OperationsOK ==
    ASSUME NEW g, NEW mode \in {"globals", "function"}, NEW limit,
           GeneratorOK(g, mode, limit), NEW alu \in DOMAIN OpAlu
    PROVE  /\ GeneratorOK(CompileAlu(g, alu), mode, limit)
           /\ GeneratorOK(CompileNegate(g), mode, limit)
           /\ GeneratorOK(CompileNot(g), mode, limit)
<1>1. BodyWord(StackOp(alu), limit) /\ BodyWord(Negate, limit) /\ BodyWord(Not, limit)
  BY PlainBody
<1>2. /\ GeneratorOK(PushBack(g, StackOp(alu)), mode, limit)
      /\ GeneratorOK(PushBack(g, Negate), mode, limit)
      /\ GeneratorOK(PushBack(g, Not), mode, limit)
  BY <1>1, PushBackOK
<1> QED  BY <1>2 DEF CompileAlu, CompileNegate, CompileNot

\* The code of a constant, and of the access to a global.
LEMMA ConstantsOK ==
    ASSUME NEW g, NEW mode \in {"globals", "function"}, NEW limit, NEW val,
           GeneratorOK(g, mode, limit)
    PROVE  /\ GeneratorOK(CompileConst(g, val), mode, limit)
           /\ GeneratorOK(CompileLoad(g, val), mode, limit)
           /\ GeneratorOK(CompileSave(g, val), mode, limit)
           /\ GeneratorOK(CompileLoadFp(g), mode, limit)
<1>1. Lconst(val) = Throws \/ BodyWord(Lconst(val), limit)  BY LconstBody
<1>2. BodyWord(Lmem, limit) /\ BodyWord(Stmem, limit) /\ BodyWord(Lfp, limit)  BY PlainBody
<1>3. /\ GeneratorOK(PushBack(g, Lconst(val)), mode, limit)
      /\ GeneratorOK(PushBack(g, Lfp), mode, limit)
  BY <1>1, <1>2, PushBackOK
<1>4. GeneratorOK(PushBack(PushBack(g, Lconst(val)), Lmem), mode, limit)
  BY <1>2, <1>3, PushBackOK
<1>5. GeneratorOK(PushBack(PushBack(g, Lconst(val)), Stmem), mode, limit)
  BY <1>2, <1>3, PushBackOK
<1> QED  BY <1>3, <1>4, <1>5 DEF CompileConst, CompileLoad, CompileSave, CompileLoadFp

\* The code of the access to a slot of the frame.
LEMMA SlotsOK ==
    ASSUME NEW g, NEW mode \in {"globals", "function"}, NEW limit \in Nat,
           NEW addr \in 0..limit - 1, GeneratorOK(g, mode, limit)
    PROVE  /\ GeneratorOK(CompileStackLoad(g, addr), mode, limit)
           /\ GeneratorOK(CompileStackSave(g, addr), mode, limit)
<1>1. /\ Lfpmem(-addr) = Throws \/ BodyWord(Lfpmem(-addr), limit)
      /\ Stfpmem(-addr) = Throws \/ BodyWord(Stfpmem(-addr), limit)
  BY FrameBody
<1>2. /\ GeneratorOK(PushBack(g, Lfpmem(-addr)), mode, limit)
      /\ GeneratorOK(PushBack(g, Stfpmem(-addr)), mode, limit)
  BY <1>1, PushBackOK
<1> QED  BY <1>2 DEF CompileStackLoad, CompileStackSave

\* A variable that is found is a global, or has a slot of the frame.
LEMMA DeclarationInside ==
    ASSUME AllocatorsOK, NEW mode, NEW mark, NEW limit \in Nat, Inside(mode, mark, limit),
           NEW name, IsDeclared(name)
    PROVE  \/ Declaration(name).scope = "GLOBAL"
           \/ Declaration(name).scope = "STACK" /\ Declaration(name).addr \in 0..limit - 1
<1> DEFINE Found(k) == /\ Declares(mAllocators[k], name)
                       /\ \A l \in DOMAIN mAllocators :
                            Declares(mAllocators[l], name) => l <= k
<1> DEFINE k == CHOOSE i \in DOMAIN mAllocators : Found(i)
<1>1. IsSequence(mAllocators)  BY DEF AllocatorsOK
<1>2. DOMAIN mAllocators = 1..Len(mAllocators)  BY <1>1, SequenceLength
<1>3. \E i \in DOMAIN mAllocators : Found(i)
  <2>1. PICK i \in DOMAIN mAllocators : Declares(mAllocators[i], name)  BY DEF IsDeclared
  <2>2. Len(mAllocators) \in {1, 2}  BY DEF Inside
  <2>3. DOMAIN mAllocators \subseteq {1, 2}  BY <1>2, <2>2
  <2>4. CASE 2 \in DOMAIN mAllocators /\ Declares(mAllocators[2], name)
    <3>1. Found(2)  BY <2>3, <2>4
    <3> QED  BY <2>4, <3>1
  <2>5. CASE ~(2 \in DOMAIN mAllocators /\ Declares(mAllocators[2], name))
    <3>1. i = 1  BY <2>1, <2>3, <2>5
    <3>2. \A l \in DOMAIN mAllocators : Declares(mAllocators[l], name) => l <= 1
      BY <2>3, <2>5
    <3>3. Found(1)  BY <2>1, <3>1, <3>2
    <3> QED  BY <2>1, <3>1, <3>3
  <2> QED  BY <2>4, <2>5
<1>4. k \in DOMAIN mAllocators /\ Declares(mAllocators[k], name)
  <2>1. k \in DOMAIN mAllocators /\ Found(k)
    <3> HIDE DEF Found
    <3> QED  BY <1>3
  <2> QED  BY <2>1
<1>5. Declaration(name) = [addr |-> GetAddr(mAllocators[k], name),
                           scope |-> mAllocators[k].scope]
  BY DEF Declaration
<1> HIDE DEF k, Found
<1>6. CASE k = 1
  <2>1. mAllocators[1].scope = "GLOBAL"
    BY DEF Inside, Back
  <2> QED  BY <1>5, <1>6, <2>1
<1>7. CASE k # 1
  <2>1. /\ mode = "function" /\ k = Len(mAllocators) /\ limit = Back.firstFree
        /\ Back.scope = "STACK" /\ Back.base = 0
    BY <1>2, <1>4, <1>7 DEF Inside
  <2> DEFINE a == mAllocators[k]
  <2>2. AllocatorOK(a) /\ a.scope = "STACK" /\ a.base = 0 /\ a.firstFree = limit
    BY <1>4, <2>1 DEF AllocatorsOK, Back
  <2>3. Declares(a, name) /\ Declaration(name).addr = GetAddr(a, name)
        /\ Declaration(name).scope = a.scope
    BY <1>4, <1>5
  <2> HIDE DEF a
  <2> DEFINE i == CHOOSE j \in DOMAIN a.blocks :
                    /\ name \in DOMAIN a.blocks[j]
                    /\ \A l \in DOMAIN a.blocks : name \in DOMAIN a.blocks[l] => l <= j
  <2>4. i \in DOMAIN a.blocks /\ name \in DOMAIN a.blocks[i]
    <3> DEFINE J == {j \in DOMAIN a.blocks : name \in DOMAIN a.blocks[j]}
    <3>1. DOMAIN a.blocks = 1..Len(a.blocks) /\ Len(a.blocks) \in Nat
      BY <2>2, SequenceLength DEF AllocatorOK, AllocatorType
    <3>2. J # {} /\ J \in SUBSET (1..Len(a.blocks))  BY <2>3, <3>1 DEF Declares
    <3>3. \E j \in J : \A l \in J : l <= j
      <4> HIDE DEF J
      <4> QED  BY <3>1, <3>2, LastExists
    <3>4. \E j \in DOMAIN a.blocks :
             /\ name \in DOMAIN a.blocks[j]
             /\ \A l \in DOMAIN a.blocks : name \in DOMAIN a.blocks[l] => l <= j
      BY <3>3
    <3> QED  BY <3>4
  <2>5. GetAddr(a, name) = a.base + a.blocks[i][name]  BY DEF GetAddr
  <2> HIDE DEF i
  <2>6. a.blocks[i][name] \in Nat /\ a.blocks[i][name] < limit
    <3>1. IsBlock(a.blocks[i])  BY <2>2, <2>4 DEF AllocatorOK, AllocatorType
    <3>2. a.blocks[i][name] \in Nat  BY <2>4, <3>1 DEF IsBlock
    <3>3. a.blocks[i][name] < a.firstFree
      BY <2>2, <2>4 DEF AllocatorOK, LiveSlotsTaken
    <3> QED  BY <2>2, <3>2, <3>3
  <2>7. GetAddr(a, name) \in 0..limit - 1  BY <2>2, <2>5, <2>6
  <2> QED  BY <2>2, <2>3, <2>7
<1> QED  BY <1>6, <1>7

\* What a block's start, its end and a declaration leave of a scope.
LEMMA ScopeStays ==
    ASSUME NEW a, AllocatorOK(a)
    PROVE  /\ StartBlock(a).scope = a.scope /\ StartBlock(a).base = a.base
           /\ StartBlock(a).firstFree = a.firstFree
           /\ \A b \in EndBlock(a) :
                b.scope = a.scope /\ b.base = a.base /\ b.firstFree = a.firstFree
           /\ \A name : /\ Alloc(a, name).scope = a.scope /\ Alloc(a, name).base = a.base
                        /\ Alloc(a, name).firstFree \in Nat
                        /\ a.firstFree <= Alloc(a, name).firstFree
                        /\ NextSlot(a) \in Nat
                        /\ NextSlot(a) < Alloc(a, name).firstFree
<1>1. /\ a \in [base : {a.base}, scope : {a.scope}, firstFree : Nat,
                free : Seq(Nat), blocks : {a.blocks}]
      /\ FreeSlotsDistinct(a)
  BY DEF AllocatorOK, AllocatorType
<1>2. /\ StartBlock(a).scope = a.scope /\ StartBlock(a).base = a.base
      /\ StartBlock(a).firstFree = a.firstFree
  BY <1>1 DEF StartBlock
<1>3. \A b \in EndBlock(a) :
        b.scope = a.scope /\ b.base = a.base /\ b.firstFree = a.firstFree
  <2> TAKE b \in EndBlock(a)
  <2>1. \E s : b = FreeAll(a, s)  BY DEF EndBlock
  <2>2. PICK s : b = FreeAll(a, s)  BY <2>1
  <2> QED  BY <1>1, <2>2 DEF FreeAll
<1>4. ASSUME NEW name
      PROVE  /\ Alloc(a, name).scope = a.scope /\ Alloc(a, name).base = a.base
             /\ Alloc(a, name).firstFree = IF a.free # <<>> THEN a.firstFree
                                           ELSE a.firstFree + 1
  BY <1>1 DEF Alloc
<1>5. /\ NextSlot(a) \in Nat
      /\ NextSlot(a) < (IF a.free # <<>> THEN a.firstFree ELSE a.firstFree + 1)
  <2>1. CASE a.free # <<>>
    <3>1. Len(a.free) \in DOMAIN a.free /\ NextSlot(a) = a.free[Len(a.free)]
      BY <1>1, <2>1 DEF NextSlot
    <3> QED  BY <1>1, <2>1, <3>1 DEF FreeSlotsDistinct
  <2>2. CASE a.free = <<>>
    BY <1>1, <2>2 DEF NextSlot
  <2> QED  BY <2>1, <2>2
<1> QED  BY <1>1, <1>2, <1>3, <1>4, <1>5

\* A step that starts or ends blocks.
LEMMA KeptByBlocks ==
    ASSUME AllocatorsOK, NEW mode \in {"globals", "function"}, NEW mark, NEW limit \in Nat,
           Inside(mode, mark, limit),
           \/ ReplaceBack(StartBlock(Back))
           \/ \E a \in EndBlock(Back) : ReplaceBack(StartBlock(a))
           \/ \E a \in EndBlock(Back) : \E b \in EndBlock(a) : ReplaceBack(b)
    PROVE  Kept(mode, limit, limit)
<1>1. Len(mAllocators) \in {1, 2}  BY DEF Inside
<1>2. AllocatorOK(Back) /\ Back.firstFree \in Nat  BY <1>1, BackType
<1>3. PICK a : /\ ReplaceBack(a) /\ a.scope = Back.scope /\ a.base = Back.base
               /\ a.firstFree = Back.firstFree
  <2>1. CASE ReplaceBack(StartBlock(Back))  BY <1>2, <2>1, ScopeStays
  <2>2. CASE \E a \in EndBlock(Back) : ReplaceBack(StartBlock(a))
    <3>1. PICK a \in EndBlock(Back) : ReplaceBack(StartBlock(a))  BY <2>2
    <3>2. AllocatorOK(a)  BY <1>2, <3>1, EndBlockOK
    <3> QED  BY <1>2, <3>1, <3>2, ScopeStays
  <2>3. CASE \E a \in EndBlock(Back) : \E b \in EndBlock(a) : ReplaceBack(b)
    <3>1. PICK a \in EndBlock(Back) : \E b \in EndBlock(a) : ReplaceBack(b)  BY <2>3
    <3>2. PICK b \in EndBlock(a) : ReplaceBack(b)  BY <3>1
    <3>3. AllocatorOK(a)  BY <1>2, <3>1, EndBlockOK
    <3>4. b.scope = a.scope /\ b.base = a.base /\ b.firstFree = a.firstFree
      BY <3>2, <3>3, ScopeStays
    <3>5. a.scope = Back.scope /\ a.base = Back.base /\ a.firstFree = Back.firstFree
      BY <1>2, <3>1, ScopeStays
    <3> QED  BY <3>2, <3>4, <3>5
  <2> QED  BY <2>1, <2>2, <2>3
<1>4. Kept(mode, limit, IF mode = "function" THEN a.firstFree ELSE 0)
  <2>1. a.firstFree \in Nat /\ Back.firstFree <= a.firstFree  BY <1>2, <1>3
  <2> QED  BY <1>3, <2>1, KeptReplaced
<1>5. limit = IF mode = "function" THEN a.firstFree ELSE 0  BY <1>3 DEF Inside
<1> QED  BY <1>4, <1>5

\* A declaration, which makes room for its slot.
LEMMA KeptByAlloc ==
    ASSUME AllocatorsOK, NEW mode \in {"globals", "function"}, NEW mark, NEW limit \in Nat,
           Inside(mode, mark, limit), NEW name, ReplaceBack(Alloc(Back, name))
    PROVE  \E room \in Nat :
              /\ Kept(mode, limit, room)
              /\ \/ Back.scope = "GLOBAL"
                 \/ Back.scope = "STACK" /\ Back.base + NextSlot(Back) \in 0..room - 1
<1> DEFINE a == Alloc(Back, name)
<1> DEFINE slot == NextSlot(Back)
<1>1. Len(mAllocators) \in {1, 2}  BY DEF Inside
<1>2. AllocatorOK(Back) /\ Back.firstFree \in Nat  BY <1>1, BackType
<1>3. /\ a.scope = Back.scope /\ a.base = Back.base /\ a.firstFree \in Nat
      /\ Back.firstFree <= a.firstFree /\ slot \in Nat /\ slot < a.firstFree
  BY <1>2, ScopeStays
<1>4. ReplaceBack(a)  OBVIOUS
<1> HIDE DEF a, slot
<1> DEFINE room == IF mode = "function" THEN a.firstFree ELSE 0
<1>5. Kept(mode, limit, room)  BY <1>3, <1>4, KeptReplaced
<1>6. room \in Nat  BY <1>3
<1>7. CASE mode = "globals"
  <2>1. Back.scope = "GLOBAL"  BY <1>7 DEF Inside
  <2> QED  BY <1>5, <1>6, <2>1
<1>8. CASE mode = "function"
  <2>1. Back.scope = "STACK" /\ Back.base = 0  BY <1>8 DEF Inside
  <2>2. Back.base + slot \in 0..room - 1  BY <1>3, <1>8, <2>1
  <2> QED  BY <1>5, <1>6, <2>1, <2>2 DEF slot
<1> QED  BY <1>7, <1>8

-----------------------------------------------------------------------------
\* Every step of the visitor preserves the invariant.

\* The children of a context.
LEMMA Children ==
    ASSUME NEW n \in Nodes
    PROVE  /\ n.kind = "prog" =>
                n.items \in Seq({m \in Nodes : m.kind \in {"var_decl_stmt", "func_decl"}})
           /\ n.kind \in {"func_decl", "stmts", "if_stmt", "while_stmt"} =>
                n.body \in Seq({m \in Nodes : m.kind \in StmtKinds})
           /\ n.kind = "if_stmt" => Len(n.body) \in {1, 2}
           /\ n.kind = "while_stmt" => Len(n.body) = 1
           /\ n.kind \in {"if_stmt", "while_stmt"} =>
                n.cond \in Nodes /\ n.cond.kind \in ExprKinds
           /\ n.kind \in {"var_decl_stmt", "assign_stmt", "print_stmt"} =>
                n.expr \in Nodes /\ n.expr.kind \in ExprKinds
           /\ n.kind \in BinaryRules =>
                /\ n.op \in OperatorsOf[n.kind]
                /\ n.left \in Nodes /\ n.left.kind \in ExprKinds
                /\ n.right \in Nodes /\ n.right.kind \in ExprKinds
           /\ n.kind = "unary" => n.arg \in Nodes /\ n.arg.kind \in ExprKinds
<1> DEFINE S == {m \in Nodes : m.kind \in StmtKinds}
<1> DEFINE E == {m \in Nodes : m.kind \in ExprKinds}
<1>1. /\ n.kind = "prog" =>
           n.items \in Seq({m \in Nodes : m.kind \in {"var_decl_stmt", "func_decl"}})
      /\ n.kind \in {"func_decl", "stmts"} => n.body \in Seq(S)
      /\ n.kind = "if_stmt" => n.cond \in E /\ n.body \in Seq(S) /\ Len(n.body) \in {1, 2}
      /\ n.kind = "while_stmt" => n.cond \in E /\ n.body \in Seq(S) /\ Len(n.body) = 1
      /\ n.kind \in {"var_decl_stmt", "assign_stmt", "print_stmt"} => n.expr \in E
      /\ n.kind \in BinaryRules => n.op \in OperatorsOf[n.kind] /\ n.left \in E /\ n.right \in E
      /\ n.kind = "unary" => n.arg \in E
  BY NodesAssumption DEF WellFormed
<1> QED  BY <1>1

\* The statements of a block, an if or a while.
LEMMA StatementsOf ==
    ASSUME NEW n \in Nodes, n.kind \in {"func_decl", "stmts", "if_stmt", "while_stmt"}
    PROVE  /\ \A i \in 1..Len(n.body) : n.body[i] \in Nodes /\ n.body[i].kind \in StmtKinds
           /\ n.kind \in {"if_stmt", "while_stmt"} =>
                n.body[1] \in Nodes /\ n.body[1].kind \in StmtKinds
<1> DEFINE S == {m \in Nodes : m.kind \in StmtKinds}
<1> DEFINE b == n.body
<1>1. b \in Seq(S)  BY Children
<1>2. n.kind \in {"if_stmt", "while_stmt"} => Len(b) \in {1, 2}  BY Children
<1> HIDE DEF S, b
<1>3. \A i \in 1..Len(b) : b[i] \in S  BY <1>1
<1>4. n.kind \in {"if_stmt", "while_stmt"} => b[1] \in S  BY <1>2, <1>3
<1> QED  BY <1>3, <1>4 DEF S, b

\* Visits of statements and expressions, operations and rests are inner work.
LEMMA InnerWork ==
    ASSUME NEW limit
    PROVE  /\ \A n \in Nodes : n.kind \in StmtKinds \cup ExprKinds => Inner(Visit(n), limit)
           /\ \A alu \in DOMAIN OpAlu : Inner(Emit(alu), limit)
           /\ \A n \in Nodes : \A label : n.kind = "if_stmt" =>
                /\ Inner(RestOf("ifThen", n, label), limit)
                /\ Inner(RestOf("ifElse", n, label), limit)
                /\ Inner(RestOf("ifEnd", n, label), limit)
           /\ \A n \in Nodes : \A label : n.kind = "while_stmt" =>
                Inner(RestOf("whileBody", n, label), limit)
           /\ \A loop, loopEnd : Inner(RestOfLoop(loop, loopEnd), limit)
           /\ \A addr : Inner(Store(addr, "GLOBAL"), limit)
           /\ \A addr \in 0..limit - 1 : Inner(Store(addr, "STACK"), limit)
<1>1. \A n \in Nodes : n.kind \in StmtKinds \cup ExprKinds => Inner(Visit(n), limit)
  BY DEF Inner, Visit
<1>2. \A alu \in DOMAIN OpAlu : Inner(Emit(alu), limit)  BY DEF Inner, Emit
<1>3. \A n \in Nodes : \A label : n.kind = "if_stmt" =>
        /\ Inner(RestOf("ifThen", n, label), limit)
        /\ Inner(RestOf("ifElse", n, label), limit)
        /\ Inner(RestOf("ifEnd", n, label), limit)
  BY DEF Inner, RestOf
<1>4. \A n \in Nodes : \A label : n.kind = "while_stmt" =>
        Inner(RestOf("whileBody", n, label), limit)
  BY DEF Inner, RestOf
<1>5. \A loop, loopEnd : Inner(RestOfLoop(loop, loopEnd), limit)  BY DEF Inner, RestOfLoop
<1>6. \A addr : Inner(Store(addr, "GLOBAL"), limit)  BY DEF Inner, Store
<1>7. \A addr \in 0..limit - 1 : Inner(Store(addr, "STACK"), limit)  BY DEF Inner, Store
<1> QED  BY <1>1, <1>2, <1>3, <1>4, <1>5, <1>6, <1>7

\* A throw leaves the types.
LEMMA ThrowInv ==
    ASSUME VisitorInv, Throw
    PROVE  VisitorInv'
<1>1. /\ status' = "failed"
      /\ UNCHANGED <<work, mAllocators, mCodeGen, counter>>
  BY DEF Throw
<1> QED  BY <1>1 DEF VisitorInv, AllocatorsOK

\* The step of a binary rule.
LEMMA OperandsInv ==
    ASSUME VisitorInv, AllocatorsOK',
           \/ VisitBitwiseand \/ VisitEqcomparison \/ VisitComparison \/ VisitShift
           \/ VisitSumma \/ VisitTerm \/ VisitBitwiseor \/ VisitBitwisexor
    PROVE  VisitorInv'
<1> DEFINE n == Node
<1>1. /\ Visiting(n.kind) /\ n.kind \in BinaryRules
      /\ \E emitted : /\ VisitOperands(emitted)
                      /\ n.op \in OperatorsOf[n.kind] => emitted[n.op] \in DOMAIN OpAlu
  <2>1. CASE VisitBitwiseand
    BY <2>1 DEF VisitBitwiseand, Visiting, BinaryRules, OperatorsOf, OpAlu, Node
  <2>2. CASE VisitEqcomparison
    BY <2>2 DEF VisitEqcomparison, Visiting, BinaryRules, OperatorsOf, OpAlu, Node
  <2>3. CASE VisitComparison
    BY <2>3 DEF VisitComparison, Visiting, BinaryRules, OperatorsOf, OpAlu, Node
  <2>4. CASE VisitShift
    BY <2>4 DEF VisitShift, Visiting, BinaryRules, OperatorsOf, OpAlu, Node
  <2>5. CASE VisitSumma
    BY <2>5 DEF VisitSumma, Visiting, BinaryRules, OperatorsOf, OpAlu, Node
  <2>6. CASE VisitTerm
    BY <2>6 DEF VisitTerm, Visiting, BinaryRules, OperatorsOf, OpAlu, Node
  <2>7. CASE VisitBitwiseor
    BY <2>7 DEF VisitBitwiseor, Visiting, BinaryRules, OperatorsOf, OpAlu, Node
  <2>8. CASE VisitBitwisexor
    BY <2>8 DEF VisitBitwisexor, Visiting, BinaryRules, OperatorsOf, OpAlu, Node
  <2> QED  BY <2>1, <2>2, <2>3, <2>4, <2>5, <2>6, <2>7, <2>8
<1>2. PICK emitted : /\ VisitOperands(emitted)
                     /\ n.op \in OperatorsOf[n.kind] => emitted[n.op] \in DOMAIN OpAlu
  BY <1>1
<1>3. /\ status = "visiting" /\ work # <<>> /\ Head(work).do = "visit"
      /\ Head(work).node = n /\ n.kind \in ExprKinds
  BY <1>1 DEF Visiting, Doing, Node, ExprKinds
<1>4. Head(work).do \in InnerDos  BY <1>3 DEF InnerDos
<1>5. PICK mode \in {"globals", "function"}, mark \in {"callMain", "funcEnd"}, limit \in Nat :
         Inside(mode, mark, limit) /\ Inner(Head(work), limit) /\ Head(work).do # mark
  BY <1>3, <1>4, HeadInside
<1>6. n \in Nodes  BY <1>3, <1>5 DEF Inner
<1> DEFINE next == <<Visit(n.left), Visit(n.right), Emit(emitted[n.op])>>
<1>7. work' = next \o Tail(work) /\ UNCHANGED <<mCodeGen, status, mAllocators, counter>>
  BY <1>2 DEF VisitOperands, Call, Node
<1>8. /\ n.left \in Nodes /\ n.left.kind \in ExprKinds
      /\ n.right \in Nodes /\ n.right.kind \in ExprKinds
      /\ emitted[n.op] \in DOMAIN OpAlu
  BY <1>1, <1>2, <1>6, Children
<1>9. IsSequence(next) /\ DOMAIN next = {1, 2, 3}  BY ShortSequences
<1>10. \A i \in DOMAIN next : Inner(next[i], limit)
  <2>1. /\ Inner(Visit(n.left), limit) /\ Inner(Visit(n.right), limit)
        /\ Inner(Emit(emitted[n.op]), limit)
    BY <1>8, InnerWork
  <2> QED  BY <1>9, <2>1
<1>11. Kept(mode, limit, limit)  BY <1>5, <1>7, KeptUnchanged
<1>12. GeneratorOK(mCodeGen', mode, limit)  BY <1>5, <1>7 DEF Inside
<1>13. counter' \in Nat  BY <1>7 DEF VisitorInv
<1> HIDE DEF next
<1> QED  BY <1>3, <1>5, <1>7, <1>9, <1>10, <1>11, <1>12, <1>13, InnerStep

\* A step within a body that generates the code of g.
LEMMA ProceedInv ==
    ASSUME VisitorInv, AllocatorsOK', status = "visiting",
           NEW mode \in {"globals", "function"}, NEW mark \in {"callMain", "funcEnd"},
           NEW limit \in Nat, NEW room,
           Inside(mode, mark, limit), Head(work).do # mark, Kept(mode, limit, room),
           NEW next, IsSequence(next), \A i \in DOMAIN next : Inner(next[i], room),
           NEW g, GeneratorOK(g, mode, limit), Proceed(g, next), counter' \in Nat
    PROVE  VisitorInv'
<1>1. /\ mCodeGen' = g /\ status' \in {"visiting", "failed"}
      /\ work' = next \o Tail(work)
  BY DEF Proceed
<1>2. GeneratorOK(mCodeGen', mode, limit)  BY <1>1
<1> QED  BY <1>1, <1>2, InnerStep

\* A step within a body that only visits.
LEMMA CallInv ==
    ASSUME VisitorInv, AllocatorsOK', status = "visiting",
           NEW mode \in {"globals", "function"}, NEW mark \in {"callMain", "funcEnd"},
           NEW limit \in Nat, NEW room,
           Inside(mode, mark, limit), Head(work).do # mark, Kept(mode, limit, room),
           NEW next, IsSequence(next), \A i \in DOMAIN next : Inner(next[i], room),
           Call(next), counter' \in Nat
    PROVE  VisitorInv'
<1>1. /\ mCodeGen' = mCodeGen /\ status' = status
      /\ work' = next \o Tail(work)
  BY DEF Call
<1>2. GeneratorOK(mCodeGen', mode, limit)  BY <1>1 DEF Inside
<1> QED  BY <1>1, <1>2, InnerStep

\* The end of a declaration, an assignment or a print, and of an operation.
LEMMA StoreEmitInv ==
    ASSUME VisitorInv, AllocatorsOK', StoreValue \/ EmitOperation
    PROVE  VisitorInv'
<1> DEFINE h == Head(work)
<1>1. /\ status = "visiting" /\ work # <<>> /\ h.do \in {"store", "emit"}
      /\ mAllocators' = mAllocators /\ counter' = counter
  BY DEF StoreValue, EmitOperation, Doing
<1>2. h.do \in InnerDos  BY <1>1 DEF InnerDos
<1>3. PICK mode \in {"globals", "function"}, mark \in {"callMain", "funcEnd"}, limit \in Nat :
         Inside(mode, mark, limit) /\ Inner(h, limit) /\ h.do # mark
  BY <1>1, <1>2, HeadInside
<1>4. GeneratorOK(mCodeGen, mode, limit) /\ Kept(mode, limit, limit) /\ counter' \in Nat
  BY <1>1, <1>3, KeptUnchanged DEF Inside, VisitorInv
<1>5. PICK g : Proceed(g, <<>>) /\ GeneratorOK(g, mode, limit)
  <2>1. CASE StoreValue
    <3> DEFINE g == IF h.scope = "GLOBAL" THEN CompileSave(mCodeGen, h.addr)
                    ELSE CompileStackSave(mCodeGen, h.addr)
    <3>1. Proceed(g, <<>>) /\ h.do = "store"  BY <2>1 DEF StoreValue, Doing
    <3>2. h.scope = "GLOBAL" \/ h.addr \in 0..limit - 1  BY <1>3, <3>1 DEF Inner
    <3>3. CASE h.scope = "GLOBAL"
      <4>1. GeneratorOK(CompileSave(mCodeGen, h.addr), mode, limit)
        BY <1>4, ConstantsOK
      <4> QED  BY <3>1, <3>3, <4>1
    <3>4. CASE h.scope # "GLOBAL"
      <4>1. GeneratorOK(CompileStackSave(mCodeGen, h.addr), mode, limit)
        BY <1>4, <3>2, <3>4, SlotsOK
      <4> QED  BY <3>1, <3>4, <4>1
    <3> QED  BY <3>3, <3>4
  <2>2. CASE EmitOperation
    <3> DEFINE a == h.alu
    <3>1. /\ h.do = "emit"
          /\ Proceed(CASE a = "NEGATE" -> CompileNegate(mCodeGen)
                       [] a = "NOT" -> CompileNot(mCodeGen)
                       [] OTHER -> CompileAlu(mCodeGen, a), <<>>)
      BY <2>2 DEF EmitOperation, Doing
    <3>2. a \in DOMAIN OpAlu  BY <1>3, <3>1 DEF Inner
    <3> HIDE DEF a
    <3>3. /\ GeneratorOK(CompileAlu(mCodeGen, a), mode, limit)
          /\ GeneratorOK(CompileNegate(mCodeGen), mode, limit)
          /\ GeneratorOK(CompileNot(mCodeGen), mode, limit)
      BY <1>4, <3>2, OperationsOK
    <3>4. CASE a = "NEGATE"  BY <3>1, <3>3, <3>4
    <3>5. CASE a = "NOT"  BY <3>1, <3>3, <3>5
    <3>6. CASE a \notin {"NEGATE", "NOT"}  BY <3>1, <3>3, <3>6
    <3> QED  BY <3>4, <3>5, <3>6
  <2> QED  BY <2>1, <2>2
<1>6. IsSequence(<<>>) /\ \A i \in DOMAIN <<>> : Inner(<<>>[i], limit)
  BY ShortSequences
<1> QED  BY <1>1, <1>3, <1>4, <1>5, <1>6, ProceedInv

\* The other expressions, and a call.
LEMMA FactorInv ==
    ASSUME VisitorInv, AllocatorsOK', VisitUnary \/ VisitNumber \/ VisitIdent \/ VisitCall_stmt
    PROVE  VisitorInv'
<1> DEFINE n == Node
<1>1. /\ status = "visiting" /\ work # <<>> /\ Head(work).do = "visit"
      /\ Head(work).node = n
      /\ n.kind \in {"unary", "number", "ident", "call_stmt"}
      /\ mAllocators' = mAllocators /\ counter' = counter
  BY DEF VisitUnary, VisitNumber, VisitIdent, VisitCall_stmt, Visiting, Doing, Node
<1>2. Head(work).do \in InnerDos /\ n.kind \in StmtKinds \cup ExprKinds
  BY <1>1 DEF InnerDos, StmtKinds, ExprKinds
<1>3. PICK mode \in {"globals", "function"}, mark \in {"callMain", "funcEnd"}, limit \in Nat :
         Inside(mode, mark, limit) /\ Inner(Head(work), limit) /\ Head(work).do # mark
  BY <1>1, <1>2, HeadInside
<1>4. GeneratorOK(mCodeGen, mode, limit) /\ Kept(mode, limit, limit) /\ counter' \in Nat
  BY <1>1, <1>3, KeptUnchanged DEF Inside, VisitorInv
<1>5. n \in Nodes  BY <1>1, <1>3 DEF Inner
<1> HIDE DEF n
<1>6. CASE VisitUnary
  <2>1. n.kind = "unary" /\ n.arg \in Nodes /\ n.arg.kind \in ExprKinds
    BY <1>5, <1>6, Children DEF VisitUnary, Visiting, n, Node
  <2> DEFINE alu == IF n.op = "MINUS" THEN "NEGATE" ELSE "NOT"
  <2> DEFINE next == <<Visit(n.arg), Emit(alu)>>
  <2>2. alu \in DOMAIN OpAlu  BY DEF OpAlu
  <2>3. Inner(Visit(n.arg), limit) /\ Inner(Emit(alu), limit)  BY <2>1, <2>2, InnerWork
  <2>4. Call(next)  BY <1>6 DEF VisitUnary, n, Node
  <2>5. IsSequence(next) /\ DOMAIN next = {1, 2}  BY ShortSequences
  <2>6. \A i \in DOMAIN next : Inner(next[i], limit)  BY <2>3, <2>5
  <2> HIDE DEF next
  <2> QED  BY <1>1, <1>3, <1>4, <2>4, <2>5, <2>6, CallInv
<1>7. CASE VisitNumber \/ VisitIdent \/ VisitCall_stmt
  <2>1. PICK g : Proceed(g, <<>>) /\ GeneratorOK(g, mode, limit)
    <3>1. CASE VisitNumber
      <4>1. Proceed(CompileConst(mCodeGen, n.value), <<>>)
        BY <3>1 DEF VisitNumber, n, Node
      <4>2. GeneratorOK(CompileConst(mCodeGen, n.value), mode, limit)
        BY <1>4, ConstantsOK
      <4> QED  BY <4>1, <4>2
    <3>2. CASE VisitIdent
      <4> DEFINE d == Declaration(n.name)
      <4>1. /\ IsDeclared(n.name)
            /\ Proceed(IF d.scope = "GLOBAL" THEN CompileLoad(mCodeGen, d.addr)
                       ELSE CompileStackLoad(mCodeGen, d.addr), <<>>)
        BY <3>2 DEF VisitIdent, n, Node
      <4>2. d.scope = "GLOBAL" \/ (d.scope = "STACK" /\ d.addr \in 0..limit - 1)
        BY <1>3, <4>1, DeclarationInside DEF VisitorInv
      <4> HIDE DEF d
      <4>3. CASE d.scope = "GLOBAL"
        <5>1. GeneratorOK(CompileLoad(mCodeGen, d.addr), mode, limit)
          BY <1>4, ConstantsOK
        <5> QED  BY <4>1, <4>3, <5>1
      <4>4. CASE d.scope # "GLOBAL"
        <5>1. GeneratorOK(CompileStackLoad(mCodeGen, d.addr), mode, limit)
          BY <1>4, <4>2, <4>4, SlotsOK
        <5> QED  BY <4>1, <4>4, <5>1
      <4> QED  BY <4>3, <4>4
    <3>3. CASE VisitCall_stmt
      <4>1. Proceed(CompileAJmp(CompileRef(mCodeGen, n.name)), <<>>)
        BY <3>3 DEF VisitCall_stmt, n, Node
      <4>2. GeneratorOK(CompileAJmp(CompileRef(mCodeGen, n.name)), mode, limit)
        BY <1>4, JumpsOK
      <4> QED  BY <4>1, <4>2
    <3> QED  BY <1>7, <3>1, <3>2, <3>3
  <2>2. IsSequence(<<>>) /\ \A i \in DOMAIN <<>> : Inner(<<>>[i], limit)
    BY ShortSequences
  <2> QED  BY <1>1, <1>3, <1>4, <2>1, <2>2, ProceedInv
<1> QED  BY <1>6, <1>7

\* The statements that visit their parts first.
LEMMA SimpleStatementInv ==
    ASSUME VisitorInv, AllocatorsOK', VisitStmts \/ VisitAssign_stmt \/ VisitPrint_stmt
    PROVE  VisitorInv'
<1> DEFINE n == Node
<1>1. /\ status = "visiting" /\ work # <<>> /\ Head(work).do = "visit"
      /\ Head(work).node = n
      /\ n.kind \in {"stmts", "assign_stmt", "print_stmt"}
      /\ mAllocators' = mAllocators /\ counter' = counter
  BY DEF VisitStmts, VisitAssign_stmt, VisitPrint_stmt, Visiting, Doing, Node
<1>2. Head(work).do \in InnerDos /\ n.kind \in StmtKinds \cup ExprKinds
  BY <1>1 DEF InnerDos, StmtKinds, ExprKinds
<1>3. PICK mode \in {"globals", "function"}, mark \in {"callMain", "funcEnd"}, limit \in Nat :
         Inside(mode, mark, limit) /\ Inner(Head(work), limit) /\ Head(work).do # mark
  BY <1>1, <1>2, HeadInside
<1>4. Kept(mode, limit, limit) /\ counter' \in Nat
  BY <1>1, <1>3, KeptUnchanged DEF VisitorInv
<1>5. n \in Nodes  BY <1>1, <1>3 DEF Inner
<1> HIDE DEF n
<1>6. PICK next : Call(next) /\ IsSequence(next) /\ \A i \in DOMAIN next : Inner(next[i], limit)
  <2>1. CASE VisitStmts
    <3>1. n.kind = "stmts" /\ Call(VisitEach(n.body))
      BY <2>1 DEF VisitStmts, Visiting, n, Node
    <3> DEFINE S == {m \in Nodes : m.kind \in StmtKinds}
    <3> DEFINE next == VisitEach(n.body)
    <3>2. n.body \in Seq(S)  BY <1>5, <3>1, Children
    <3>3. /\ IsSequence(next) /\ DOMAIN next = 1..Len(n.body)
          /\ \A i \in 1..Len(n.body) : next[i] = Visit(n.body[i]) /\ n.body[i] \in S
      <4> HIDE DEF S
      <4> QED  BY <3>2, LoopSequences
    <3>4. \A i \in DOMAIN next : Inner(next[i], limit)
      <4>1. \A m \in S : Inner(Visit(m), limit)  BY InnerWork
      <4> HIDE DEF S, next
      <4> QED  BY <3>3, <4>1
    <3> QED  BY <3>1, <3>3, <3>4
  <2>2. CASE VisitAssign_stmt
    <3> DEFINE d == Declaration(n.name)
    <3> DEFINE next == <<Visit(n.expr), Store(d.addr, d.scope)>>
    <3>1. n.kind = "assign_stmt" /\ IsDeclared(n.name) /\ Call(next)
      BY <2>2 DEF VisitAssign_stmt, Visiting, n, Node
    <3>2. d.scope = "GLOBAL" \/ (d.scope = "STACK" /\ d.addr \in 0..limit - 1)
      BY <1>3, <3>1, DeclarationInside DEF VisitorInv
    <3>3. n.expr \in Nodes /\ n.expr.kind \in ExprKinds  BY <1>5, <3>1, Children
    <3> HIDE DEF d
    <3>4. Inner(Visit(n.expr), limit) /\ Inner(Store(d.addr, d.scope), limit)
      BY <3>2, <3>3, InnerWork
    <3>5. IsSequence(next) /\ DOMAIN next = {1, 2}  BY ShortSequences
    <3>6. \A i \in DOMAIN next : Inner(next[i], limit)  BY <3>4, <3>5
    <3> QED  BY <3>1, <3>5, <3>6
  <2>3. CASE VisitPrint_stmt
    <3> DEFINE next == <<Visit(n.expr), Store(Pow2[WordBits - 2], "GLOBAL")>>
    <3>1. n.kind = "print_stmt" /\ Call(next)
      BY <2>3 DEF VisitPrint_stmt, Visiting, n, Node
    <3>2. n.expr \in Nodes /\ n.expr.kind \in ExprKinds  BY <1>5, <3>1, Children
    <3>3. Inner(Visit(n.expr), limit) /\ Inner(Store(Pow2[WordBits - 2], "GLOBAL"), limit)
      BY <3>2, InnerWork
    <3>4. IsSequence(next) /\ DOMAIN next = {1, 2}  BY ShortSequences
    <3>5. \A i \in DOMAIN next : Inner(next[i], limit)  BY <3>3, <3>4
    <3> QED  BY <3>1, <3>4, <3>5
  <2> QED  BY <2>1, <2>2, <2>3
<1> QED  BY <1>1, <1>3, <1>4, <1>6, CallInv

\* A declaration: its slot is within the frame when its value is stored.
LEMMA VarDeclInv ==
    ASSUME VisitorInv, AllocatorsOK', VisitVar_decl_stmt
    PROVE  VisitorInv'
<1> DEFINE n == Node
<1> DEFINE next == <<Visit(n.expr), Store(Back.base + NextSlot(Back), Back.scope)>>
<1>1. /\ status = "visiting" /\ work # <<>> /\ Head(work).do = "visit"
      /\ Head(work).node = n /\ n.kind = "var_decl_stmt"
      /\ ReplaceBack(Alloc(Back, n.name)) /\ Call(next) /\ counter' = counter
  BY DEF VisitVar_decl_stmt, Visiting, Doing, Node
<1>2. Head(work).do \in InnerDos /\ n.kind \in StmtKinds \cup ExprKinds
  BY <1>1 DEF InnerDos, StmtKinds
<1>3. PICK mode \in {"globals", "function"}, mark \in {"callMain", "funcEnd"}, limit \in Nat :
         Inside(mode, mark, limit) /\ Inner(Head(work), limit) /\ Head(work).do # mark
  BY <1>1, <1>2, HeadInside
<1>4. n \in Nodes  BY <1>1, <1>3 DEF Inner
<1>5. AllocatorsOK /\ counter' \in Nat  BY <1>1 DEF VisitorInv
<1> HIDE DEF n
<1>6. PICK room \in Nat :
         /\ Kept(mode, limit, room)
         /\ \/ Back.scope = "GLOBAL"
            \/ Back.scope = "STACK" /\ Back.base + NextSlot(Back) \in 0..room - 1
  BY <1>1, <1>3, <1>5, KeptByAlloc
<1>7. n.expr \in Nodes /\ n.expr.kind \in ExprKinds  BY <1>1, <1>4, Children
<1>8. /\ Inner(Visit(n.expr), room)
      /\ Inner(Store(Back.base + NextSlot(Back), Back.scope), room)
  BY <1>6, <1>7, InnerWork
<1>9. IsSequence(next) /\ DOMAIN next = {1, 2}  BY ShortSequences
<1>10. \A i \in DOMAIN next : Inner(next[i], room)  BY <1>8, <1>9
<1> HIDE DEF next
<1> QED  BY <1>1, <1>3, <1>5, <1>6, <1>9, <1>10, CallInv

\* A loop over the globals passes over a function, or visits a declaration.
LEMMA TopLevelInnerInv ==
    ASSUME VisitorInv, AllocatorsOK', TopLevel, Head(work).kind # "func_decl"
    PROVE  VisitorInv'
<1> DEFINE n == Node
<1> DEFINE next == IF n.kind = Head(work).kind THEN <<Visit(n)>> ELSE <<>>
<1>1. /\ status = "visiting" /\ work # <<>> /\ Head(work).do = "topLevel"
      /\ Head(work).node = n
      /\ Call(next) /\ mAllocators' = mAllocators /\ counter' = counter
  BY DEF TopLevel, Doing, Node
<1>2. Head(work).do \in InnerDos  BY <1>1 DEF InnerDos
<1>3. PICK mode \in {"globals", "function"}, mark \in {"callMain", "funcEnd"}, limit \in Nat :
         Inside(mode, mark, limit) /\ Inner(Head(work), limit) /\ Head(work).do # mark
  BY <1>1, <1>2, HeadInside
<1>4. Kept(mode, limit, limit) /\ counter' \in Nat
  BY <1>1, <1>3, KeptUnchanged DEF VisitorInv
<1>5. n \in Nodes /\ Head(work).kind = "var_decl_stmt"  BY <1>1, <1>3 DEF Inner
<1> HIDE DEF n
<1>6. IsSequence(next) /\ \A i \in DOMAIN next : Inner(next[i], limit)
  <2>1. CASE n.kind = "var_decl_stmt"
    <3>1. Inner(Visit(n), limit)  BY <1>5, <2>1, InnerWork DEF StmtKinds
    <3>2. next = <<Visit(n)>>  BY <1>5, <2>1
    <3>3. IsSequence(<<Visit(n)>>) /\ DOMAIN <<Visit(n)>> = {1}  BY ShortSequences
    <3> QED  BY <3>1, <3>2, <3>3
  <2>2. CASE n.kind # "var_decl_stmt"
    <3>1. next = <<>>  BY <1>5, <2>2
    <3>2. IsSequence(<<>>) /\ DOMAIN <<>> = {}  BY ShortSequences
    <3> HIDE DEF next
    <3> QED  BY <3>1, <3>2
  <2> QED  BY <2>1, <2>2
<1> HIDE DEF next
<1> QED  BY <1>1, <1>3, <1>4, <1>6, CallInv

\* The steps of an if.
LEMMA IfInv ==
    ASSUME VisitorInv, AllocatorsOK',
           VisitIf_stmt \/ IfThen \/ IfElse \/ IfWithoutElse \/ IfEnd
    PROVE  VisitorInv'
<1> DEFINE h == Head(work)
<1>1. /\ status = "visiting" /\ work # <<>>
      /\ h.do \in {"visit", "ifThen", "ifElse", "ifEnd"}
      /\ h.do = "visit" => h.node.kind = "if_stmt"
      /\ h.do = "visit" <=> VisitIf_stmt
  BY DEF VisitIf_stmt, IfThen, IfElse, IfWithoutElse, IfEnd, Visiting, Doing
<1>2. h.do \in InnerDos /\ (h.do = "visit" => h.node.kind \in StmtKinds \cup ExprKinds)
  BY <1>1 DEF InnerDos, StmtKinds
<1>3. PICK mode \in {"globals", "function"}, mark \in {"callMain", "funcEnd"}, limit \in Nat :
         Inside(mode, mark, limit) /\ Inner(h, limit) /\ h.do # mark
  BY <1>1, <1>2, HeadInside
<1>4. Kept(mode, limit, limit)
  <2>1. \/ ReplaceBack(StartBlock(Back))
        \/ \E a \in EndBlock(Back) : ReplaceBack(StartBlock(a))
        \/ \E a \in EndBlock(Back) : \E b \in EndBlock(a) : ReplaceBack(b)
    BY DEF VisitIf_stmt, IfThen, IfElse, IfWithoutElse, IfEnd
  <2>2. AllocatorsOK  BY DEF VisitorInv
  <2> QED  BY <1>3, <2>1, <2>2, KeptByBlocks
<1>5. counter' \in Nat
  BY DEF VisitorInv, VisitIf_stmt, IfThen, IfElse, IfWithoutElse, IfEnd
<1>6. GeneratorOK(mCodeGen, mode, limit)  BY <1>3 DEF Inside
<1> DEFINE n == h.node
<1>7. h.do # "ifEnd" => n \in Nodes /\ n.kind = "if_stmt"
  BY <1>1, <1>3 DEF Inner
<1>8. h.do # "ifEnd" =>
        /\ n.cond \in Nodes /\ n.cond.kind \in ExprKinds
        /\ Len(n.body) \in {1, 2}
        /\ \A i \in 1..Len(n.body) : n.body[i] \in Nodes /\ n.body[i].kind \in StmtKinds
  BY <1>7, Children, StatementsOf
<1>9. IsSequence(<<>>) /\ \A i \in DOMAIN <<>> : Inner(<<>>[i], limit)
  BY ShortSequences
<1>10. CASE VisitIf_stmt
  <2> DEFINE next == <<Visit(n.cond), RestOf("ifThen", n, Label(counter))>>
  <2>1. Call(next) /\ h.do # "ifEnd"  BY <1>1, <1>10 DEF VisitIf_stmt, Node
  <2>2. /\ Inner(Visit(n.cond), limit)
        /\ Inner(RestOf("ifThen", n, Label(counter)), limit)
    BY <1>7, <1>8, <2>1, InnerWork
  <2>3. IsSequence(next) /\ DOMAIN next = {1, 2}  BY ShortSequences
  <2>4. \A i \in DOMAIN next : Inner(next[i], limit)  BY <2>2, <2>3
  <2> HIDE DEF next
  <2> QED  BY <1>1, <1>3, <1>4, <1>5, <2>1, <2>3, <2>4, CallInv
<1>11. CASE IfThen
  <2> DEFINE g == CompileCJmpz(CompileRef(mCodeGen, h.label))
  <2> DEFINE next == <<Visit(n.body[1]), RestOf("ifElse", n, h.label)>>
  <2>1. Proceed(g, next) /\ h.do # "ifEnd"  BY <1>11 DEF IfThen, Doing
  <2>2. /\ Inner(Visit(n.body[1]), limit)
        /\ Inner(RestOf("ifElse", n, h.label), limit)
    <3>1. n.body[1] \in Nodes /\ n.body[1].kind \in StmtKinds  BY <1>8, <2>1
    <3>2. Inner(Visit(n.body[1]), limit)  BY <3>1, InnerWork
    <3>3. Inner(RestOf("ifElse", n, h.label), limit)  BY <1>7, <2>1, InnerWork
    <3> QED  BY <3>2, <3>3
  <2>3. IsSequence(next) /\ DOMAIN next = {1, 2}  BY ShortSequences
  <2>4. \A i \in DOMAIN next : Inner(next[i], limit)  BY <2>2, <2>3
  <2>5. GeneratorOK(g, mode, limit)  BY <1>6, JumpsOK
  <2> HIDE DEF next, g
  <2> QED  BY <1>1, <1>3, <1>4, <1>5, <2>1, <2>3, <2>4, <2>5, ProceedInv
<1>12. CASE IfElse
  <2> DEFINE operatorEnd == Label(counter)
  <2> DEFINE skip == CompileAJmp(CompileRef(mCodeGen, operatorEnd))
  <2> DEFINE g == DeclareLabel(skip, h.label)
  <2> DEFINE next == <<Visit(n.body[2]), RestOf("ifEnd", n, operatorEnd)>>
  <2>1. Proceed(g, next) /\ h.do # "ifEnd" /\ Len(n.body) = 2
    BY <1>12 DEF IfElse, Doing, Node
  <2>2. /\ Inner(Visit(n.body[2]), limit)
        /\ Inner(RestOf("ifEnd", n, operatorEnd), limit)
    <3>1. n.body[2] \in Nodes /\ n.body[2].kind \in StmtKinds  BY <1>8, <2>1
    <3> QED  BY <1>7, <2>1, <3>1, InnerWork
  <2>3. IsSequence(next) /\ DOMAIN next = {1, 2}  BY ShortSequences
  <2>4. \A i \in DOMAIN next : Inner(next[i], limit)  BY <2>2, <2>3
  <2>5. GeneratorOK(skip, mode, limit)  BY <1>6, JumpsOK
  <2> HIDE DEF skip
  <2>6. GeneratorOK(g, mode, limit)  BY <2>5, DeclareLabelOK
  <2> HIDE DEF next, g
  <2> QED  BY <1>1, <1>3, <1>4, <1>5, <2>1, <2>3, <2>4, <2>6, ProceedInv
<1>13. CASE IfWithoutElse \/ IfEnd
  <2> DEFINE g == DeclareLabel(mCodeGen, h.label)
  <2>1. Proceed(g, <<>>)  BY <1>13 DEF IfWithoutElse, IfEnd
  <2>2. GeneratorOK(g, mode, limit)  BY <1>6, DeclareLabelOK
  <2> HIDE DEF g
  <2> QED  BY <1>1, <1>3, <1>4, <1>5, <1>9, <2>1, <2>2, ProceedInv
<1> QED  BY <1>10, <1>11, <1>12, <1>13

\* The steps of a while.
LEMMA WhileInv ==
    ASSUME VisitorInv, AllocatorsOK', VisitWhile_stmt \/ WhileBody \/ WhileEnd
    PROVE  VisitorInv'
<1> DEFINE h == Head(work)
<1>1. /\ status = "visiting" /\ work # <<>>
      /\ h.do \in {"visit", "whileBody", "whileEnd"}
      /\ h.do = "visit" => h.node.kind = "while_stmt"
  BY DEF VisitWhile_stmt, WhileBody, WhileEnd, Visiting, Doing
<1>2. h.do \in InnerDos /\ (h.do = "visit" => h.node.kind \in StmtKinds \cup ExprKinds)
  BY <1>1 DEF InnerDos, StmtKinds
<1>3. PICK mode \in {"globals", "function"}, mark \in {"callMain", "funcEnd"}, limit \in Nat :
         Inside(mode, mark, limit) /\ Inner(h, limit) /\ h.do # mark
  BY <1>1, <1>2, HeadInside
<1>4. Kept(mode, limit, limit)
  <2>1. \/ ReplaceBack(StartBlock(Back))
        \/ \E a \in EndBlock(Back) : \E b \in EndBlock(a) : ReplaceBack(b)
    BY DEF VisitWhile_stmt, WhileBody, WhileEnd
  <2>2. AllocatorsOK  BY DEF VisitorInv
  <2> QED  BY <1>3, <2>1, <2>2, KeptByBlocks
<1>5. counter' \in Nat
  BY DEF VisitorInv, VisitWhile_stmt, WhileBody, WhileEnd
<1>6. GeneratorOK(mCodeGen, mode, limit)  BY <1>3 DEF Inside
<1> DEFINE n == h.node
<1>7. h.do # "whileEnd" => n \in Nodes /\ n.kind = "while_stmt"
  BY <1>1, <1>3 DEF Inner
<1>8. h.do # "whileEnd" =>
        /\ n.cond \in Nodes /\ n.cond.kind \in ExprKinds
        /\ n.body[1] \in Nodes /\ n.body[1].kind \in StmtKinds
  BY <1>7, Children, StatementsOf
<1>9. IsSequence(<<>>) /\ \A i \in DOMAIN <<>> : Inner(<<>>[i], limit)
  BY ShortSequences
<1>10. CASE VisitWhile_stmt
  <2> DEFINE g == DeclareLabel(mCodeGen, Label(counter))
  <2> DEFINE next == <<Visit(n.cond), RestOf("whileBody", n, Label(counter))>>
  <2>1. Proceed(g, next) /\ h.do # "whileEnd"
    BY <1>10 DEF VisitWhile_stmt, Visiting, Doing, Node
  <2>2. /\ Inner(Visit(n.cond), limit)
        /\ Inner(RestOf("whileBody", n, Label(counter)), limit)
    BY <1>7, <1>8, <2>1, InnerWork
  <2>3. IsSequence(next) /\ DOMAIN next = {1, 2}  BY ShortSequences
  <2>4. \A i \in DOMAIN next : Inner(next[i], limit)  BY <2>2, <2>3
  <2>5. GeneratorOK(g, mode, limit)  BY <1>6, DeclareLabelOK
  <2> HIDE DEF next, g
  <2> QED  BY <1>1, <1>3, <1>4, <1>5, <2>1, <2>3, <2>4, <2>5, ProceedInv
<1>11. CASE WhileBody
  <2> DEFINE g == CompileCJmpz(CompileRef(mCodeGen, Label(counter)))
  <2> DEFINE next == <<Visit(n.body[1]), RestOfLoop(h.label, Label(counter))>>
  <2>1. Proceed(g, next) /\ h.do # "whileEnd"
    BY <1>11 DEF WhileBody, Doing, Node
  <2>2. /\ Inner(Visit(n.body[1]), limit)
        /\ Inner(RestOfLoop(h.label, Label(counter)), limit)
    BY <1>7, <1>8, <2>1, InnerWork
  <2>3. IsSequence(next) /\ DOMAIN next = {1, 2}  BY ShortSequences
  <2>4. \A i \in DOMAIN next : Inner(next[i], limit)  BY <2>2, <2>3
  <2>5. GeneratorOK(g, mode, limit)  BY <1>6, JumpsOK
  <2> HIDE DEF next, g
  <2> QED  BY <1>1, <1>3, <1>4, <1>5, <2>1, <2>3, <2>4, <2>5, ProceedInv
<1>12. CASE WhileEnd
  <2> DEFINE repeat == CompileAJmp(CompileRef(mCodeGen, h.loop))
  <2> DEFINE g == DeclareLabel(repeat, h.loopEnd)
  <2>1. Proceed(g, <<>>)  BY <1>12 DEF WhileEnd
  <2>2. GeneratorOK(repeat, mode, limit)  BY <1>6, JumpsOK
  <2> HIDE DEF repeat
  <2>3. GeneratorOK(g, mode, limit)  BY <2>2, DeclareLabelOK
  <2> HIDE DEF g
  <2> QED  BY <1>1, <1>3, <1>4, <1>5, <1>9, <2>1, <2>3, ProceedInv
<1> QED  BY <1>10, <1>11, <1>12

\* The start of a program: the globals, the call of main, the functions.
LEMMA ProgInv ==
    ASSUME VisitorInv, AllocatorsOK', VisitProg
    PROVE  VisitorInv'
<1> DEFINE n == Node
<1> DEFINE g == CompileLoadFp(CompileConst(mCodeGen, 1024))
<1> DEFINE next == VisitOnly("var_decl_stmt", n.items) \o <<Rest("callMain")>>
                     \o VisitOnly("func_decl", n.items)
<1>1. /\ status = "visiting" /\ work # <<>> /\ Head(work).do = "visit"
      /\ Head(work).node = n /\ n.kind = "prog"
      /\ Proceed(g, next) /\ mAllocators' = mAllocators /\ counter' = counter
  BY DEF VisitProg, Visiting, Doing, Node
<1>2. IsSequence(work)  BY DEF VisitorInv
<1>3. Starting
  <2>1. ~InGlobals
    <3> SUFFICES ASSUME Marked(work, "callMain", 0)
                 PROVE  FALSE
      BY DEF InGlobals
    <3>1. Head(work).do = "callMain" \/ Inner(Head(work), 0)
      BY <1>2, MarkedHead DEF InnerDos
    <3> QED  BY <1>1, <3>1 DEF Inner, StmtKinds, ExprKinds, BinaryRules
  <2>2. ~InFunction
    <3> DEFINE limit == Back.firstFree
    <3> SUFFICES ASSUME Marked(work, "funcEnd", limit)
                 PROVE  FALSE
      BY DEF InFunction
    <3> HIDE DEF limit
    <3>1. Head(work).do = "funcEnd" \/ Inner(Head(work), limit)
      BY <1>2, MarkedHead DEF InnerDos
    <3> QED  BY <1>1, <3>1 DEF Inner, StmtKinds, ExprKinds, BinaryRules
  <2>3. ~Between
    <3> SUFFICES ASSUME \A i \in DOMAIN work : Outer(work[i])
                 PROVE  FALSE
      BY DEF Between
    <3>1. 1 \in DOMAIN work /\ Head(work) = work[1]  BY <1>1, <1>2, TailSequence
    <3> QED  BY <1>1, <3>1 DEF Outer
  <2> QED  BY <1>1, <2>1, <2>2, <2>3 DEF VisitorInv
<1>4. PICK p \in Programs : work = <<Visit(p)>>  BY <1>3 DEF Starting
<1>5. n \in Nodes
  <2>1. n = p  BY <1>4 DEF Node, Visit
  <2> QED  BY <2>1 DEF Programs
<1> HIDE DEF n
<1> DEFINE S == {m \in Nodes : m.kind \in {"var_decl_stmt", "func_decl"}}
<1> DEFINE globals == VisitOnly("var_decl_stmt", n.items)
<1> DEFINE funcs == VisitOnly("func_decl", n.items)
<1>6. n.items \in Seq(S)  BY <1>1, <1>5, Children
<1>7. /\ IsSequence(globals) /\ DOMAIN globals = 1..Len(n.items)
      /\ IsSequence(funcs) /\ DOMAIN funcs = 1..Len(n.items)
      /\ \A i \in 1..Len(n.items) :
           /\ globals[i] = [do |-> "topLevel", kind |-> "var_decl_stmt", node |-> n.items[i]]
           /\ funcs[i] = [do |-> "topLevel", kind |-> "func_decl", node |-> n.items[i]]
           /\ n.items[i] \in S
  <2> HIDE DEF S
  <2> QED  BY <1>6, LoopSequences
<1> HIDE DEF globals, funcs
<1>8. \A i \in DOMAIN globals : Inner(globals[i], 0)
  <2>1. \A m \in S : Inner([do |-> "topLevel", kind |-> "var_decl_stmt", node |-> m], 0)
    BY DEF Inner
  <2> HIDE DEF S
  <2> QED  BY <1>7, <2>1
<1>9. \A i \in DOMAIN funcs : Outer(funcs[i])
  <2>1. \A m \in S : Outer([do |-> "topLevel", kind |-> "func_decl", node |-> m])
    BY DEF Outer
  <2> HIDE DEF S
  <2> QED  BY <1>7, <2>1
<1>10. IsSequence(next) /\ Marked(next, "callMain", 0)
  <2>1. next = (globals \o <<Rest("callMain")>>) \o funcs  BY DEF globals, funcs
  <2> QED  BY <1>7, <1>8, <1>9, <2>1, MarkedStarts
<1> HIDE DEF next
<1>11. work' = next
  <2>1. work' = next \o Tail(work)  BY <1>1 DEF Proceed
  <2>2. Tail(work) = <<>>  BY <1>4
  <2>3. next \in Seq({next[i] : i \in DOMAIN next})  BY <1>10 DEF IsSequence
  <2>4. next \o <<>> = next  BY <2>3, ConcatEmptySeq
  <2> QED  BY <2>1, <2>2, <2>4
<1>12. GeneratorOK(g, "globals", 0)
  <2>1. GeneratorOK(mCodeGen, "globals", 0)
    <3>1. mCodeGen = [program |-> <<>>, labels |-> [l \in {} |-> 0],
                      refs |-> [l \in {} |-> <<>>], fpAdds |-> <<>>, ok |-> TRUE]
      BY <1>3 DEF Starting, NewCodeGenerator
    <3>2. <<>> \in Seq(CodeWord) /\ <<>> \in Seq(Nat) /\ DOMAIN <<>> = {}
      BY ShortSequences
    <3>3. DOMAIN mCodeGen.refs = {}  BY <3>1
    <3>4. GeneratorType(mCodeGen)
      <4>1. mCodeGen \in [program : Seq(CodeWord), labels : {mCodeGen.labels},
                          refs : {mCodeGen.refs}, fpAdds : Seq(Nat), ok : BOOLEAN]
        BY <3>1, <3>2
      <4> QED  BY <3>3, <4>1 DEF GeneratorType
    <3>5. RefsOK(mCodeGen)  BY <3>3 DEF RefsOK
    <3>6. mCodeGen.fpAdds = <<>> /\ NoFunctions(mCodeGen.program)
      BY <3>1, <3>2 DEF NoFunctions
    <3> QED  BY <3>4, <3>5, <3>6 DEF GeneratorOK
  <2>2. GeneratorOK(CompileConst(mCodeGen, 1024), "globals", 0)  BY <2>1, ConstantsOK
  <2> QED  BY <2>2, ConstantsOK
<1> HIDE DEF g
<1>13. mCodeGen' = g /\ status' \in {"visiting", "failed"}  BY <1>1 DEF Proceed
<1>14. Len(mAllocators') = 1 /\ Back'.scope = "GLOBAL"
  <2> DEFINE a == NewAllocator(200, "GLOBAL")
  <2>1. a.scope = "GLOBAL"  BY DEF NewAllocator, StartBlock
  <2>2. mAllocators' = <<a>>  BY <1>1, <1>3 DEF Starting
  <2> HIDE DEF a
  <2> QED  BY <2>1, <2>2 DEF Back
<1>15. InGlobals'  BY <1>10, <1>11, <1>12, <1>13, <1>14 DEF InGlobals
<1>16. GeneratorType(mCodeGen')  BY <1>12, <1>13 DEF GeneratorOK
<1>17. IsSequence(work') /\ counter' \in Nat  BY <1>1, <1>10, <1>11 DEF VisitorInv
<1> QED  BY <1>13, <1>15, <1>16, <1>17 DEF VisitorInv

\* The call of main, behind the globals.
LEMMA CallMainInv ==
    ASSUME VisitorInv, AllocatorsOK', CallMain
    PROVE  VisitorInv'
<1> DEFINE endLoop == Label(counter)
<1> DEFINE called == CompileAJmp(CompileRef(mCodeGen, "main"))
<1> DEFINE declared == DeclareLabel(called, endLoop)
<1> DEFINE g == CompileAJmp(CompileRef(declared, endLoop))
<1>1. /\ status = "visiting" /\ work # <<>> /\ Head(work).do = "callMain"
      /\ Proceed(g, <<>>) /\ mAllocators' = mAllocators /\ counter' = counter + 1
  BY DEF CallMain, Doing
<1>2. IsSequence(work) /\ counter \in Nat  BY DEF VisitorInv
<1>3. InGlobals
  <2>1. ~Starting  BY <1>1 DEF Starting, Visit
  <2>2. ~InFunction
    <3> DEFINE limit == Back.firstFree
    <3> SUFFICES ASSUME Marked(work, "funcEnd", limit)
                 PROVE  FALSE
      BY DEF InFunction
    <3> HIDE DEF limit
    <3>1. Head(work).do = "funcEnd" \/ Head(work).do \in InnerDos
      BY <1>2, MarkedHead DEF InnerDos
    <3> QED  BY <1>1, <3>1 DEF InnerDos
  <2>3. ~Between
    <3> SUFFICES ASSUME \A i \in DOMAIN work : Outer(work[i])
                 PROVE  FALSE
      BY DEF Between
    <3>1. 1 \in DOMAIN work /\ Head(work) = work[1]  BY <1>1, <1>2, TailSequence
    <3> QED  BY <1>1, <3>1 DEF Outer
  <2> QED  BY <1>1, <2>1, <2>2, <2>3 DEF VisitorInv
<1>4. /\ Marked(work, "callMain", 0) /\ GeneratorOK(mCodeGen, "globals", 0)
      /\ Len(mAllocators) = 1 /\ Back.scope = "GLOBAL"
  BY <1>3 DEF InGlobals
<1>5. /\ IsSequence(<<>> \o Tail(work))
      /\ \A i \in DOMAIN (<<>> \o Tail(work)) : Outer((<<>> \o Tail(work))[i])
  BY <1>1, <1>2, <1>4, MarkedEnds DEF InnerDos
<1>6. GeneratorOK(called, "globals", 0)  BY <1>4, JumpsOK
<1> HIDE DEF called
<1>7. GeneratorOK(declared, "globals", 0)  BY <1>6, DeclareLabelOK
<1> HIDE DEF declared
<1>8. GeneratorOK(g, "globals", 0)  BY <1>7, JumpsOK
<1> HIDE DEF g
<1>9. GeneratorOK(g, "between", 0)  BY <1>8, GlobalsClosed
<1>10. /\ mCodeGen' = g /\ status' \in {"visiting", "failed"}
       /\ work' = <<>> \o Tail(work)
  BY <1>1 DEF Proceed
<1>11. Back' = Back  BY <1>1 DEF Back
<1>12. Between'  BY <1>1, <1>4, <1>5, <1>9, <1>10, <1>11 DEF Between
<1>13. GeneratorType(mCodeGen')  BY <1>9, <1>10 DEF GeneratorOK
<1> QED  BY <1>1, <1>2, <1>5, <1>10, <1>12, <1>13 DEF VisitorInv

\* Between two functions.
LEMMA HeadBetween ==
    ASSUME VisitorInv, status = "visiting", work # <<>>,
           \/ Head(work).do = "visit" /\ Head(work).node.kind = "func_decl"
           \/ Head(work).do = "topLevel" /\ Head(work).kind = "func_decl"
    PROVE  Between
<1>1. IsSequence(work)  BY DEF VisitorInv
<1>2. ~Starting
  <2> SUFFICES ASSUME NEW p \in Programs, work = <<Visit(p)>>
               PROVE  FALSE
    BY DEF Starting
  <2> QED  BY DEF Visit, Programs
<1>3. ~InGlobals
  <2> SUFFICES ASSUME Marked(work, "callMain", 0)
               PROVE  FALSE
    BY DEF InGlobals
  <2>1. Head(work).do = "callMain" \/ Inner(Head(work), 0)
    BY <1>1, MarkedHead DEF InnerDos
  <2> QED  BY <2>1 DEF Inner, StmtKinds, ExprKinds, BinaryRules
<1>4. ~InFunction
  <2> DEFINE limit == Back.firstFree
  <2> SUFFICES ASSUME Marked(work, "funcEnd", limit)
               PROVE  FALSE
    BY DEF InFunction
  <2> HIDE DEF limit
  <2>1. Head(work).do = "funcEnd" \/ Inner(Head(work), limit)
    BY <1>1, MarkedHead DEF InnerDos
  <2> QED  BY <2>1 DEF Inner, StmtKinds, ExprKinds, BinaryRules
<1> QED  BY <1>2, <1>3, <1>4 DEF VisitorInv

\* The loop over the functions visits a function, or passes over a global.
LEMMA TopLevelOuterInv ==
    ASSUME VisitorInv, AllocatorsOK', TopLevel, Head(work).kind = "func_decl"
    PROVE  VisitorInv'
<1> DEFINE n == Node
<1> DEFINE next == IF n.kind = Head(work).kind THEN <<Visit(n)>> ELSE <<>>
<1>1. /\ status = "visiting" /\ work # <<>> /\ Head(work).do = "topLevel"
      /\ Head(work).node = n
      /\ Call(next) /\ mAllocators' = mAllocators /\ counter' = counter
  BY DEF TopLevel, Doing, Node
<1>2. Between  BY <1>1, HeadBetween
<1>3. IsSequence(work) /\ \A i \in DOMAIN work : Outer(work[i])
  BY <1>2 DEF VisitorInv, Between
<1>4. n \in Nodes
  <2>1. 1 \in DOMAIN work /\ Head(work) = work[1]  BY <1>1, <1>3, TailSequence
  <2> QED  BY <1>1, <1>3, <2>1 DEF Outer
<1> HIDE DEF n
<1>5. IsSequence(next) /\ \A i \in DOMAIN next : Outer(next[i])
  <2>1. CASE n.kind = "func_decl"
    <3>1. Outer(Visit(n))  BY <1>4, <2>1 DEF Outer, Visit
    <3>2. next = <<Visit(n)>>  BY <2>1
    <3>3. IsSequence(<<Visit(n)>>) /\ DOMAIN <<Visit(n)>> = {1}  BY ShortSequences
    <3> QED  BY <3>1, <3>2, <3>3
  <2>2. CASE n.kind # "func_decl"
    <3>1. next = <<>>  BY <2>2
    <3>2. IsSequence(<<>>) /\ DOMAIN <<>> = {}  BY ShortSequences
    <3> HIDE DEF next
    <3> QED  BY <3>1, <3>2
  <2> QED  BY <2>1, <2>2
<1> HIDE DEF next
<1>6. /\ IsSequence(next \o Tail(work))
      /\ \A i \in DOMAIN (next \o Tail(work)) : Outer((next \o Tail(work))[i])
  BY <1>1, <1>3, <1>5, OuterStays
<1>7. work' = next \o Tail(work) /\ mCodeGen' = mCodeGen /\ status' = status
  BY <1>1 DEF Call
<1>8. Back' = Back  BY <1>1 DEF Back
<1>9. Between'  BY <1>1, <1>2, <1>6, <1>7, <1>8 DEF Between
<1> QED  BY <1>1, <1>6, <1>7, <1>9 DEF VisitorInv

\* The start of a function.
LEMMA FuncDeclInv ==
    ASSUME VisitorInv, AllocatorsOK', VisitFunc_decl
    PROVE  VisitorInv'
<1> DEFINE n == Node
<1> DEFINE declared == DeclareLabel(mCodeGen, n.name)
<1> DEFINE g == CompilePrologue(declared)
<1> DEFINE body == VisitEach(n.body)
<1> DEFINE next == body \o <<Rest("funcEnd")>>
<1>1. /\ status = "visiting" /\ work # <<>> /\ Head(work).do = "visit"
      /\ Head(work).node = n /\ n.kind = "func_decl"
      /\ Proceed(g, next) /\ counter' = counter
      /\ mAllocators' = Append(mAllocators, NewAllocator(0, "STACK"))
  BY DEF VisitFunc_decl, Visiting, Doing, Node
<1>2. Between  BY <1>1, HeadBetween
<1>3. /\ IsSequence(work) /\ \A i \in DOMAIN work : Outer(work[i])
      /\ Len(mAllocators) = 1 /\ Back.scope = "GLOBAL"
      /\ GeneratorOK(mCodeGen, "between", 0) /\ IsSequence(mAllocators)
  BY <1>2 DEF VisitorInv, Between, AllocatorsOK
<1>4. n \in Nodes
  <2>1. 1 \in DOMAIN work /\ Head(work) = work[1]  BY <1>1, <1>3, TailSequence
  <2> QED  BY <1>1, <1>3, <2>1 DEF Outer
<1> HIDE DEF n
<1>5. GeneratorOK(declared, "between", 0)  BY <1>3, DeclareLabelOK
<1> HIDE DEF declared
<1>6. GeneratorOK(g, "function", 0)  BY <1>5, PrologueOK
<1> HIDE DEF g
<1>7. IsSequence(body) /\ \A i \in DOMAIN body : Inner(body[i], 0)
  <2> DEFINE S == {m \in Nodes : m.kind \in StmtKinds}
  <2>1. n.body \in Seq(S)  BY <1>1, <1>4, Children
  <2>2. /\ IsSequence(body) /\ DOMAIN body = 1..Len(n.body)
        /\ \A i \in 1..Len(n.body) : body[i] = Visit(n.body[i]) /\ n.body[i] \in S
    <3> HIDE DEF S
    <3> QED  BY <2>1, LoopSequences
  <2>3. \A m \in S : Inner(Visit(m), 0)  BY InnerWork
  <2> HIDE DEF S, body
  <2> QED  BY <2>2, <2>3
<1> HIDE DEF body
<1> DEFINE behind == Tail(work)
<1>8. IsSequence(behind) /\ \A i \in DOMAIN behind : Outer(behind[i])
  <2>1. /\ DOMAIN work = 1..Len(work) /\ IsSequence(behind) /\ Len(behind) = Len(work) - 1
        /\ \A i \in 1..Len(work) - 1 : behind[i] = work[i + 1]
        /\ Len(work) \in Nat
    BY <1>1, <1>3, TailSequence
  <2>2. DOMAIN behind = 1..Len(work) - 1  BY <2>1, SequenceLength
  <2>3. \A i \in 1..Len(work) - 1 : i + 1 \in DOMAIN work  BY <2>1
  <2> HIDE DEF behind
  <2> QED  BY <1>3, <2>1, <2>2, <2>3
<1> HIDE DEF behind
<1>9. /\ IsSequence((body \o <<Rest("funcEnd")>>) \o behind)
      /\ Marked((body \o <<Rest("funcEnd")>>) \o behind, "funcEnd", 0)
  BY <1>7, <1>8, MarkedStarts
<1>10. /\ work' = (body \o <<Rest("funcEnd")>>) \o behind
       /\ mCodeGen' = g /\ status' \in {"visiting", "failed"}
  BY <1>1 DEF Proceed, behind
<1> DEFINE a == NewAllocator(0, "STACK")
<1>11. a.scope = "STACK" /\ a.base = 0 /\ a.firstFree = 0
  BY DEF NewAllocator, StartBlock
<1> HIDE DEF a
<1>12. /\ Len(mAllocators') = 2 /\ mAllocators'[1].scope = "GLOBAL" /\ Back' = a
  <2>1. /\ Len(mAllocators') = 2
        /\ mAllocators'[1] = mAllocators[1] /\ mAllocators'[2] = a
    <3>1. mAllocators' = Append(mAllocators, a)  BY <1>1 DEF a
    <3>2. /\ Len(Append(mAllocators, a)) = Len(mAllocators) + 1
          /\ \A i \in 1..Len(mAllocators) : Append(mAllocators, a)[i] = mAllocators[i]
          /\ Append(mAllocators, a)[Len(mAllocators) + 1] = a
      <4>1. IsSequence(mAllocators)  BY <1>3
      <4> QED  BY <4>1, AppendSequence
    <3> QED  BY <1>3, <3>1, <3>2
  <2>2. mAllocators[1].scope = "GLOBAL"  BY <1>3 DEF Back
  <2> QED  BY <2>1, <2>2 DEF Back
<1>13. InFunction'
  BY <1>6, <1>9, <1>10, <1>11, <1>12 DEF InFunction
<1>14. GeneratorType(mCodeGen')  BY <1>6, <1>10 DEF GeneratorOK
<1> QED  BY <1>1, <1>9, <1>10, <1>13, <1>14 DEF VisitorInv

\* The end of a function.
LEMMA FuncEndInv ==
    ASSUME VisitorInv, AllocatorsOK', FuncEnd
    PROVE  VisitorInv'
<1> DEFINE limit == GetMaxAlloc(Back)
<1> DEFINE g == CompileEpilogue(mCodeGen, limit)
<1>1. /\ status = "visiting" /\ work # <<>> /\ Head(work).do = "funcEnd"
      /\ Proceed(g, <<>>) /\ counter' = counter
      /\ mAllocators' = SubSeq(mAllocators, 1, Len(mAllocators) - 1)
  BY DEF FuncEnd, Doing
<1>2. IsSequence(work) /\ IsSequence(mAllocators)  BY DEF VisitorInv, AllocatorsOK
<1>3. InFunction
  <2>1. ~Starting  BY <1>1 DEF Starting, Visit
  <2>2. ~InGlobals
    <3> SUFFICES ASSUME Marked(work, "callMain", 0)
                 PROVE  FALSE
      BY DEF InGlobals
    <3>1. Head(work).do = "callMain" \/ Head(work).do \in InnerDos
      BY <1>2, MarkedHead DEF InnerDos
    <3> QED  BY <1>1, <3>1 DEF InnerDos
  <2>3. ~Between
    <3> SUFFICES ASSUME \A i \in DOMAIN work : Outer(work[i])
                 PROVE  FALSE
      BY DEF Between
    <3>1. 1 \in DOMAIN work /\ Head(work) = work[1]  BY <1>1, <1>2, TailSequence
    <3> QED  BY <1>1, <3>1 DEF Outer
  <2> QED  BY <1>1, <2>1, <2>2, <2>3 DEF VisitorInv
<1>4. /\ Len(mAllocators) = 2 /\ mAllocators[1].scope = "GLOBAL"
      /\ Marked(work, "funcEnd", limit) /\ GeneratorOK(mCodeGen, "function", limit)
  BY <1>3 DEF InFunction, GetMaxAlloc
<1>5. limit \in Nat  BY <1>4, BackType DEF VisitorInv, GetMaxAlloc
<1> HIDE DEF limit
<1>6. /\ IsSequence(<<>> \o Tail(work))
      /\ \A i \in DOMAIN (<<>> \o Tail(work)) : Outer((<<>> \o Tail(work))[i])
  BY <1>1, <1>2, <1>4, MarkedEnds DEF InnerDos
<1>7. GeneratorType(g) /\ (g.ok => GeneratorOK(g, "between", 0))
  BY <1>4, <1>5, EpilogueOK
<1> HIDE DEF g
<1>8. /\ mCodeGen' = g /\ status' = IF g.ok THEN "visiting" ELSE "failed"
      /\ work' = <<>> \o Tail(work)
  BY <1>1 DEF Proceed
<1>9. Len(mAllocators') = 1 /\ Back'.scope = "GLOBAL"
  <2>1. /\ IsSequence(mAllocators')
        /\ DOMAIN mAllocators' = 1..Len(mAllocators) - 1
        /\ \A i \in 1..Len(mAllocators) - 1 : mAllocators'[i] = mAllocators[i]
    <3>1. IsSequence(mAllocators) /\ Len(mAllocators) # 0  BY <1>2, <1>4
    <3>2. LET t == SubSeq(mAllocators, 1, Len(mAllocators) - 1)
          IN  /\ IsSequence(t)
              /\ DOMAIN t = 1..Len(mAllocators) - 1
              /\ \A i \in 1..Len(mAllocators) - 1 : t[i] = mAllocators[i]
      BY <3>1, FrontSequence
    <3> QED  BY <1>1, <3>2
  <2>2. Len(mAllocators') \in Nat /\ DOMAIN mAllocators' = 1..Len(mAllocators')
    BY <2>1, SequenceLength
  <2>3. Len(mAllocators') = 1  BY <1>4, <2>1, <2>2
  <2>4. mAllocators'[1] = mAllocators[1]  BY <1>4, <2>1
  <2> QED  BY <1>4, <2>3, <2>4 DEF Back
<1>10. g.ok => Between'  BY <1>6, <1>7, <1>8, <1>9 DEF Between
<1>11. GeneratorType(mCodeGen')  BY <1>7, <1>8
<1>12. IsSequence(work') /\ counter' \in Nat  BY <1>1, <1>6, <1>8 DEF VisitorInv
<1> QED  BY <1>8, <1>10, <1>11, <1>12 DEF VisitorInv

\* The end of visitAll.
LEMMA ResolveInv ==
    ASSUME VisitorInv, AllocatorsOK', Resolve
    PROVE  VisitorInv'
<1>1. /\ status = "visiting" /\ work = <<>> /\ mCodeGen' = ResolveRefs(mCodeGen)
      /\ status' = IF mCodeGen'.ok THEN "compiled" ELSE "failed"
      /\ work' = work /\ counter' = counter
  BY DEF Resolve
<1>2. DOMAIN work = {}  BY <1>1, ShortSequences
<1>3. Between
  <2>1. ~Starting  BY <1>1 DEF Starting
  <2>2. \A mark, limit : ~Marked(work, mark, limit)  BY <1>2 DEF Marked
  <2> QED  BY <1>1, <2>1, <2>2 DEF VisitorInv, InGlobals, InFunction
<1>4. GeneratorOK(mCodeGen, "between", 0)  BY <1>3 DEF Between
<1> DEFINE h == ResolveRefs(mCodeGen)
<1>5. GeneratorType(h) /\ (h.ok => FunctionsClosed(h.program) /\ LabelsResolved(h))
  BY <1>4, ResolveRefsOK
<1> HIDE DEF h
<1>6. mCodeGen' = h  BY <1>1 DEF h
<1>7. GeneratorType(mCodeGen')  BY <1>5, <1>6
<1>8. mCodeGen'.ok => FunctionsClosed(mCodeGen'.program) /\ LabelsResolved(mCodeGen')
  BY <1>5, <1>6
<1>9. IsSequence(work') /\ counter' \in Nat  BY <1>1 DEF VisitorInv
<1> QED  BY <1>1, <1>7, <1>8, <1>9 DEF VisitorInv

\* The visit of a tree begins.
LEMMA VisitAllInv ==
    ASSUME VisitorInv, AllocatorsOK', NEW p \in Programs, VisitAll(p)
    PROVE  VisitorInv'
<1>1. /\ status = "idle" /\ status' = "visiting" /\ work' = <<Visit(p)>>
      /\ UNCHANGED <<mAllocators, mCodeGen, counter>>
  BY DEF VisitAll
<1>2. VisitorInit  BY <1>1 DEF VisitorInv
<1>3. Starting'  BY <1>1, <1>2 DEF Starting, VisitorInit
<1>4. IsSequence(work')  BY <1>1, ShortSequences
<1> QED  BY <1>1, <1>3, <1>4 DEF VisitorInv

\* The visitor starts right.
LEMMA VisitorInvInit == VisitorInit => VisitorInv
<1> SUFFICES ASSUME VisitorInit
             PROVE  VisitorInv
  OBVIOUS
<1>1. /\ work = <<>> /\ mCodeGen = NewCodeGenerator /\ counter = 0 /\ status = "idle"
  BY DEF VisitorInit
<1>2. GeneratorType(mCodeGen)
  <2>1. mCodeGen = [program |-> <<>>, labels |-> [l \in {} |-> 0],
                    refs |-> [l \in {} |-> <<>>], fpAdds |-> <<>>, ok |-> TRUE]
    BY <1>1 DEF NewCodeGenerator
  <2>2. <<>> \in Seq(CodeWord) /\ <<>> \in Seq(Nat)  OBVIOUS
  <2>3. DOMAIN mCodeGen.refs = {}  BY <2>1
  <2>4. mCodeGen \in [program : Seq(CodeWord), labels : {mCodeGen.labels},
                      refs : {mCodeGen.refs}, fpAdds : Seq(Nat), ok : BOOLEAN]
    BY <2>1, <2>2
  <2> QED  BY <2>3, <2>4 DEF GeneratorType
<1>3. IsSequence(work)  BY <1>1, ShortSequences
<1> QED  BY <1>1, <1>2, <1>3, AllocatorsInit DEF VisitorInv

\* Every step keeps the invariant.
LEMMA VisitorInvStep ==
    ASSUME VisitorInv, [VisitorNext]_visitorVars
    PROVE  VisitorInv'
<1>1. AllocatorsOK'  BY VisitorStepOK DEF VisitorInv
<1>2. CASE VisitorStep
  <2>1. CASE VisitProg \/ CallMain \/ VisitFunc_decl \/ FuncEnd \/ Resolve
    BY <1>1, <2>1, ProgInv, CallMainInv, FuncDeclInv, FuncEndInv, ResolveInv
  <2>2. CASE TopLevel  BY <1>1, <2>2, TopLevelInnerInv, TopLevelOuterInv
  <2>3. CASE VisitStatement
    <3>1. CASE VisitStmts \/ VisitAssign_stmt \/ VisitPrint_stmt
      BY <1>1, <3>1, SimpleStatementInv
    <3>2. CASE VisitIf_stmt \/ IfThen \/ IfElse \/ IfWithoutElse \/ IfEnd
      BY <1>1, <3>2, IfInv
    <3>3. CASE VisitWhile_stmt \/ WhileBody \/ WhileEnd  BY <1>1, <3>3, WhileInv
    <3>4. CASE VisitVar_decl_stmt  BY <1>1, <3>4, VarDeclInv
    <3>5. CASE VisitCall_stmt  BY <1>1, <3>5, FactorInv
    <3>6. CASE StoreValue  BY <1>1, <3>6, StoreEmitInv
    <3>7. CASE DeclaredTwice  BY <3>7, ThrowInv DEF DeclaredTwice
    <3> QED  BY <2>3, <3>1, <3>2, <3>3, <3>4, <3>5, <3>6, <3>7 DEF VisitStatement
  <2>4. CASE VisitExpression
    <3>1. CASE EmitOperation  BY <1>1, <3>1, StoreEmitInv
    <3>2. CASE VisitUnary \/ VisitNumber \/ VisitIdent  BY <1>1, <3>2, FactorInv
    <3>3. CASE NotDeclared  BY <3>3, ThrowInv DEF NotDeclared
    <3>4. CASE \/ VisitBitwiseand \/ VisitEqcomparison \/ VisitComparison \/ VisitShift
               \/ VisitSumma \/ VisitTerm \/ VisitBitwiseor \/ VisitBitwisexor
      BY <1>1, <3>4, OperandsInv
    <3> QED  BY <2>4, <3>1, <3>2, <3>3, <3>4 DEF VisitExpression
  <2> QED  BY <1>2, <2>1, <2>2, <2>3, <2>4 DEF VisitorStep
<1>3. CASE \E p \in Programs : VisitAll(p)  BY <1>1, <1>3, VisitAllInv
<1>4. CASE UNCHANGED visitorVars
  <2>1. UNCHANGED <<work, mAllocators, mCodeGen, counter, status>>
    BY <1>4 DEF visitorVars
  <2>2. /\ (Starting => Starting') /\ (InGlobals => InGlobals')
        /\ (InFunction => InFunction') /\ (Between => Between')
        /\ (VisitorInit => VisitorInit')
    BY <2>1 DEF Starting, InGlobals, InFunction, Between, Back, VisitorInit
  <2> QED  BY <1>1, <2>1, <2>2 DEF VisitorInv
<1> QED  BY <1>2, <1>3, <1>4 DEF VisitorNext

-----------------------------------------------------------------------------
\* From the compiled program to the image.

\* The invariant of the tools: what has been compiled is what is started.
ToolInv ==
    /\ VisitorInv
    /\ phase \in {"parse", "reported", "visit", "run", "error"}
    /\ phase = "run" => status = "compiled" /\ rom = mCodeGen.program

\* The four bytes of a word make up the word.
LEMMA FourBytes ==
    ASSUME NEW w \in Nat, w \div 2^16 < 2^16
    PROVE  w = (w % 256) + ((w \div 2^8) % 256) * 2^8 + ((w \div 2^16) % 256) * 2^16
                 + ((w \div 2^24) % 256) * 2^24
<1>1. 2^8 = 256 /\ 2^16 = 65536 /\ 2^24 = 16777216  OBVIOUS
<1> DEFINE a == w \div 256
<1> DEFINE b == w \div 65536
<1> DEFINE c == w \div 16777216
<1>2. a \in Nat /\ b \in Nat /\ c \in Nat  OBVIOUS
<1>3. w = 256 * a + (w % 256)  OBVIOUS
<1>4. b = a \div 256 /\ a = 256 * b + (a % 256)
  <2>1. b = a \div 256  OBVIOUS
  <2> HIDE DEF a, b
  <2>2. a = 256 * (a \div 256) + (a % 256)  BY <1>2
  <2> QED  BY <2>1, <2>2
<1>5. c = b \div 256 /\ b = 256 * c + (b % 256)
  <2>1. c = b \div 256  OBVIOUS
  <2> HIDE DEF b, c
  <2>2. b = 256 * (b \div 256) + (b % 256)  BY <1>2
  <2> QED  BY <2>1, <2>2
<1>6. b < 65536  BY <1>1
<1>7. c % 256 = c
  <2> HIDE DEF a, b
  <2>1. c < 256  BY <1>2, <1>5, <1>6
  <2> QED  BY <1>2, <2>1
<1> DEFINE x == w % 256
<1> DEFINE y == a % 256
<1> DEFINE z == b % 256
<1>8. x \in Int /\ y \in Int /\ z \in Int  BY <1>2
<1> HIDE DEF a, b, c, x, y, z
<1>9. w = x + y * 256 + z * 65536 + c * 16777216
  BY <1>2, <1>3, <1>4, <1>5, <1>8 DEF x, y, z
<1> QED  BY <1>1, <1>7, <1>9 DEF a, b, c, x, y, z

\* A loader that puts the words of saveHex together has the program of saveMif.
LEMMA HexFaithful ==
    ASSUME NEW program \in Seq(CodeWord)
    PROVE  FromHex(Hex(program)) = program
<1> DEFINE n == Len(program)
<1>1. n \in Nat /\ DOMAIN program = 1..n /\ \A p \in 1..n : program[p] \in CodeWord
  OBVIOUS
<1>2. \A p \in 1..n : program[p] \in Nat /\ program[p] \div 2^16 < 2^16
  <2> TAKE p \in 1..n
  <2> DEFINE w == program[p]
  <2> DEFINE top == Pow2[WordBits] - 1
  <2>1. w \in 0..top  BY <1>1, CodeWordIsWord
  <2>2. top \in Nat /\ top \div 2^16 < 2^16
    <3>1. top \in Nat  BY Powers
    <3>2. top \div 2^16 < 2^16  BY WordAssumption
    <3> QED  BY <3>1, <3>2
  <2>3. 2^16 = 65536  OBVIOUS
  <2> HIDE DEF w, top
  <2>4. w \in Nat /\ w <= top  BY <2>1, <2>2
  <2>5. w \div 65536 <= top \div 65536  BY <2>2, <2>4
  <2>6. w \div 65536 \in Nat /\ top \div 65536 \in Nat  BY <2>2, <2>4
  <2>7. w \div 65536 < 65536  BY <2>2, <2>3, <2>5, <2>6
  <2> QED  BY <2>3, <2>4, <2>7 DEF w
<1> DEFINE bytes == Hex(program)
<1>3. /\ DOMAIN bytes = 1..n
      /\ \A p \in 1..n :
           /\ bytes[p][1] = program[p] % 256
           /\ bytes[p][2] = (program[p] \div 2^8) % 256
           /\ bytes[p][3] = (program[p] \div 2^16) % 256
           /\ bytes[p][4] = (program[p] \div 2^24) % 256
  BY <1>1 DEF Hex
<1> HIDE DEF bytes
<1>4. \A p \in 1..n :
        program[p] = bytes[p][1] + bytes[p][2] * 2^8 + bytes[p][3] * 2^16
                       + bytes[p][4] * 2^24
  <2> TAKE p \in 1..n
  <2> DEFINE w == program[p]
  <2>1. w \in Nat /\ w \div 2^16 < 2^16  BY <1>2
  <2> HIDE DEF w
  <2>2. w = (w % 256) + ((w \div 2^8) % 256) * 2^8 + ((w \div 2^16) % 256) * 2^16
              + ((w \div 2^24) % 256) * 2^24
    BY <2>1, FourBytes
  <2> QED  BY <1>3, <2>2 DEF w
<1>5. FromHex(bytes) =
        [p \in 1..n |-> bytes[p][1] + bytes[p][2] * 2^8 + bytes[p][3] * 2^16
                          + bytes[p][4] * 2^24]
  BY <1>3 DEF FromHex
<1>6. FromHex(bytes) = [p \in 1..n |-> program[p]]  BY <1>4, <1>5
<1>7. program = [p \in 1..n |-> program[p]]  BY <1>1
<1> QED  BY <1>6, <1>7 DEF bytes

\* What a step of the tools is to the visitor.
LEMMA NextVisits ==
    ASSUME input \in Inputs, Next
    PROVE  [VisitorNext]_visitorVars
<1>1. CASE Parse
  <2> DEFINE r == Prog(input.text)
  <2>1. r.ok /\ VisitAll(r.tree)  BY <1>1 DEF Parse
  <2>2. r.tree \in Programs  BY <2>1, InputsAssumption
  <2> QED  BY <2>1, <2>2 DEF VisitorNext
<1>2. CASE Compile  BY <1>2 DEF Compile, VisitorNext
<1>3. CASE SyntaxError \/ Save \/ Catch \/ ResumeCpu \/ RunCpu
  BY <1>3 DEF SyntaxError, Save, Catch, ResumeCpu, RunCpu
<1> QED  BY <1>1, <1>2, <1>3 DEF Next

\* The tools start right.
LEMMA ToolInvInit == Init => ToolInv /\ input \in Inputs
<1> SUFFICES ASSUME Init
             PROVE  ToolInv /\ input \in Inputs
  OBVIOUS
<1>1. VisitorInit /\ phase = "parse" /\ input \in Inputs  BY DEF Init
<1> QED  BY <1>1, VisitorInvInit DEF ToolInv

\* Every step of the tools keeps their invariant.
LEMMA ToolInvStep ==
    ASSUME ToolInv, input \in Inputs, [Next]_vars
    PROVE  ToolInv' /\ input' \in Inputs
<1>1. [VisitorNext]_visitorVars
  <2>1. CASE Next  BY <2>1, NextVisits
  <2>2. CASE UNCHANGED vars  BY <2>2 DEF vars
  <2> QED  BY <2>1, <2>2
<1>2. VisitorInv'  BY <1>1, VisitorInvStep DEF ToolInv
<1>3. CASE Parse  BY <1>2, <1>3 DEF Parse, ToolInv
<1>4. CASE SyntaxError  BY <1>2, <1>4 DEF SyntaxError, ToolInv
<1>5. CASE Compile  BY <1>2, <1>5 DEF Compile, ToolInv
<1>6. CASE Save
  <2>1. /\ status = "compiled" /\ phase' = "run" /\ UNCHANGED <<input, visitorVars>>
        /\ rom' \in {Mif(mCodeGen.program), FromHex(Hex(mCodeGen.program))}
    BY <1>6 DEF Save
  <2>2. mCodeGen.program \in Seq(CodeWord)  BY DEF ToolInv, VisitorInv, GeneratorType
  <2>3. rom' = mCodeGen.program  BY <2>1, <2>2, HexFaithful DEF Mif
  <2>4. mCodeGen' = mCodeGen /\ status' = status  BY <2>1 DEF visitorVars
  <2> QED  BY <1>2, <2>1, <2>3, <2>4 DEF ToolInv
<1>7. CASE Catch  BY <1>2, <1>7 DEF Catch, ToolInv
<1>8. CASE ResumeCpu \/ RunCpu
  <2>1. UNCHANGED <<input, phase, rom, visitorVars>>  BY <1>8 DEF ResumeCpu, RunCpu
  <2>2. mCodeGen' = mCodeGen /\ status' = status  BY <2>1 DEF visitorVars
  <2> QED  BY <1>2, <2>1, <2>2 DEF ToolInv
<1>9. CASE UNCHANGED vars
  <2>1. UNCHANGED <<input, phase, rom, visitorVars>>  BY <1>9 DEF vars
  <2>2. mCodeGen' = mCodeGen /\ status' = status  BY <2>1 DEF visitorVars
  <2> QED  BY <1>2, <2>1, <2>2 DEF ToolInv
<1> QED  BY <1>3, <1>4, <1>5, <1>6, <1>7, <1>8, <1>9 DEF Next

\* What the listing says of a word is what the processor decodes, but for the
\* order of a jump's operands.
LEMMA ListedDecoded ==
    ASSUME NEW w \in CodeWord
    PROVE  ListedRight(w)
<1>1. FlagBit \in Nat /\ Pow2[WordBits] = 2 * FlagBit /\ FlagBit = Pow2[WordBits - 1]
  BY Powers DEF FlagBit
<1>2. CASE w \in 0..FlagBit - 1
  <2>1. w < FlagBit /\ w \in Nat /\ w < Pow2[WordBits]  BY <1>1, <1>2
  <2>2. Disasm(w) = [isConst |-> TRUE, imm |-> w]  BY <2>1 DEF Disasm
  <2>3. CPU!Decode(w).const = TRUE /\ CPU!Decode(w).imm = w
    BY <1>1, <2>1 DEF CPU!Decode
  <2>4. w % Pow2[WordBits] = w  BY <1>1, <2>1
  <2>5. Disasm(w).isConst = TRUE /\ Disasm(w).imm = w  BY <2>2
  <2> QED  BY <2>3, <2>4, <2>5 DEF ListedRight
<1>3. CASE w \in {Op(mode, alu, imm) : mode \in DOMAIN OpSrc, alu \in DOMAIN OpAlu,
                                     imm \in MinImm..MaxImm}
  <2>1. PICK mode \in DOMAIN OpSrc, alu \in DOMAIN OpAlu, imm \in MinImm..MaxImm :
           w = Op(mode, alu, imm)
    BY <1>3
  <2>2. /\ w \in FlagBit..Pow2[WordBits] - 1
        /\ ~Disasm(w).isConst
        /\ Disasm(w).alu = alu
        /\ OpAlu[alu] = (w \div 2^4) % 2^5
        /\ OpSrc[mode] = w % 2^4
        /\ Disasm(w).mode = addrModeName[1 + OpSrc[mode]]
    BY <2>1, OpUnpacked
  <2>3. ~(w < FlagBit)  BY <1>1, <2>2
  <2>4. WordBits - 10 = ImmBits /\ WordBits - 11 = ImmBits - 1
    BY ImmBitsAssumption DEF WordBits
  <2> DEFINE field == (w \div 2^9) % Pow2[ImmBits]
  <2>5. Disasm(w).imm = SignExtend(field, ImmBits)  BY <2>3 DEF Disasm
  <2> DEFINE sign == IF field >= Pow2[ImmBits - 1] THEN Pow2[ImmBits] ELSE 0
  <2>6. /\ CPU!Decode(w).const = FALSE
        /\ CPU!Decode(w).alu = (w \div 2^4) % 2^5
        /\ CPU!Decode(w).imm = (field - sign) % Pow2[WordBits]
        /\ CPU!Decode(w).mode = CPU!Modes[1 + (w % 2^4)]
    BY <1>1, <2>3, <2>4 DEF CPU!Decode, CPU!Wrap
  <2>7. Disasm(w).isConst = FALSE  BY <2>3 DEF Disasm
  <2>8. field \in Int
    <3>1. w \in Nat  BY <1>1, <2>2
    <3>2. 2^9 = 512  OBVIOUS
    <3> QED  BY <3>1, <3>2, Powers
  <2> HIDE DEF field
  <2>9. SignExtend(field, ImmBits) = field - sign
    BY <2>8, Powers DEF SignExtend
  <2>10. alu # "out_of_range"  BY AluNumbers
  <2> DEFINE done == CPU!Decode(w).mode
  <2>11. Disasm(w).mode = IF done.dst = "PC" THEN Exchanged(done) ELSE done
    BY <2>2, <2>6, ModesAgree
  <2> QED  BY <2>2, <2>5, <2>6, <2>7, <2>9, <2>10, <2>11 DEF ListedRight
<1> QED  BY <1>2, <1>3 DEF CodeWord

\* Where the code of a function ends is where it is closed.
LEMMA FunctionEndIs ==
    ASSUME rom \in Seq(CodeWord), NEW p \in FunctionStarts, NEW e \in p + 2..Len(rom),
           \A q \in p + 1..e - 1 : rom[q + 1] # Lppc,
           e = Len(rom) \/ rom[e + 1] = Lppc
    PROVE  FunctionEnd(p) = e
<1> DEFINE n == Len(rom)
<1> DEFINE later == {q \in FunctionStarts : q > p}
<1>1. n \in Nat /\ p \in 0..n - 1 /\ e \in Nat  BY DEF FunctionStarts, Position
<1>2. \A q \in later : q \in 0..n - 1 /\ q > p /\ rom[q + 1] = Lppc
  BY DEF FunctionStarts, Position
<1>3. \A q \in later : q >= e
  <2> SUFFICES ASSUME NEW q \in later, ~(q >= e)
               PROVE  FALSE
    OBVIOUS
  <2>1. q \in p + 1..e - 1  BY <1>1, <1>2
  <2> QED  BY <1>2, <2>1
<1>4. CASE e = n
  <2>1. \A q \in later : FALSE  BY <1>1, <1>2, <1>3, <1>4
  <2> QED  BY <1>4, <2>1 DEF FunctionEnd
<1>5. CASE e # n
  <2>1. e \in later  BY <1>1, <1>5 DEF FunctionStarts, Position
  <2>2. FunctionEnd(p) = CHOOSE q \in later : \A r \in later : q <= r
    BY <2>1 DEF FunctionEnd
  <2>3. \A r \in later : e <= r  BY <1>1, <1>2, <1>3
  <2>4. \A q \in later : (\A r \in later : q <= r) => q = e
    BY <1>1, <1>2, <1>3, <2>1
  <2> HIDE DEF later
  <2>5. (CHOOSE q \in later : \A r \in later : q <= r) = e  BY <2>1, <2>3, <2>4
  <2> QED  BY <2>2, <2>5
<1> QED  BY <1>4, <1>5

\* The image that is started is right.
LEMMA ImageRightInv == ToolInv => ImageRight
<1> SUFFICES ASSUME ToolInv, Started
             PROVE  /\ \A p \in Position : ListedRight(rom[p + 1])
                    /\ \A l \in DOMAIN mCodeGen.refs : \A k \in DOMAIN mCodeGen.refs[l] :
                         rom[mCodeGen.refs[l][k] + 1] = mCodeGen.labels[l]
                    /\ \A p \in FunctionStarts :
                         LET frame == Disasm(rom[p + 2]).imm
                             end == FunctionEnd(p)
                         IN  /\ rom[p + 2] = Addfp(frame)
                             /\ rom[end - 1] = Addfp(-frame)
                             /\ \A q \in p..end - 1 :
                                  rom[q + 1] >= FlagBit
                                    /\ Disasm(rom[q + 1]).mode.b = "FP_IMM"
                                  => -Disasm(rom[q + 1]).imm \in 0..frame - 1
  BY DEF ImageRight
<1>1. /\ rom = mCodeGen.program /\ rom \in Seq(CodeWord)
      /\ FunctionsClosed(rom) /\ LabelsResolved(mCodeGen)
  BY DEF ToolInv, Started, VisitorInv, GeneratorType
<1>2. \A p \in Position : rom[p + 1] \in CodeWord
  <2> TAKE p \in Position
  <2>1. p + 1 \in 1..Len(rom)  BY <1>1 DEF Position
  <2> QED  BY <1>1, <2>1
<1>3. \A p \in Position : ListedRight(rom[p + 1])
  BY <1>2, ListedDecoded
<1>4. \A l \in DOMAIN mCodeGen.refs : \A k \in DOMAIN mCodeGen.refs[l] :
        rom[mCodeGen.refs[l][k] + 1] = mCodeGen.labels[l]
  BY <1>1 DEF LabelsResolved
<1>5. \A p \in FunctionStarts :
        LET frame == Disasm(rom[p + 2]).imm
            end == FunctionEnd(p)
        IN  /\ rom[p + 2] = Addfp(frame)
            /\ rom[end - 1] = Addfp(-frame)
            /\ \A q \in p..end - 1 :
                 rom[q + 1] >= FlagBit
                   /\ Disasm(rom[q + 1]).mode.b = "FP_IMM"
                 => -Disasm(rom[q + 1]).imm \in 0..frame - 1
  <2> TAKE p \in FunctionStarts
  <2>1. p \in 0..Len(rom) - 1 /\ rom[p + 1] = Lppc  BY DEF FunctionStarts, Position
  <2>2. PICK e \in p + 2..Len(rom) :
           FunctionCode(rom, p, e) /\ (e = Len(rom) \/ rom[e + 1] = Lppc)
    BY <1>1, <2>1 DEF FunctionsClosed
  <2> DEFINE frame == Disasm(rom[p + 2]).imm
  <2>3. /\ rom[p + 2] = Addfp(frame) /\ rom[e - 1] = Addfp(-frame)
        /\ \A q \in p..e - 1 : Within(rom[q + 1], frame)
        /\ \A q \in p + 1..e - 1 : rom[q + 1] # Lppc
    BY <2>2 DEF FunctionCode
  <2>4. FunctionEnd(p) = e  BY <1>1, <2>2, <2>3, FunctionEndIs
  <2>5. \A q \in p..e - 1 :
          rom[q + 1] >= FlagBit
            /\ Disasm(rom[q + 1]).mode.b = "FP_IMM"
          => -Disasm(rom[q + 1]).imm \in 0..frame - 1
    BY <2>3 DEF Within
  <2> HIDE DEF frame
  <2> QED  BY <2>3, <2>4, <2>5 DEF frame
<1> QED  BY <1>3, <1>4, <1>5

-----------------------------------------------------------------------------
\* The registers and the memory of the processor hold words.

\* What FetchStage may have decoded.
Decoded(i) ==
    /\ i.imm \in CPU!Word
    /\ \E m \in 1..16 : i.mode = CPU!Modes[m]

CpuTypeOK ==
    /\ cur_state \in {"S_HALT", "S_FETCH", "S_LOAD_B", "S_LOAD_A", "S_STORE"}
    /\ pc \in CPU!Word /\ ppc \in CPU!Word /\ sp \in CPU!Word /\ fp \in CPU!Word
    /\ reg_a \in CPU!Word /\ reg_b \in CPU!Word
    /\ Decoded(insn)
    /\ \A a \in DOMAIN ram : a \in CPU!Word /\ ram[a] \in CPU!Word
    /\ printed \in Seq(CPU!Word)

\* The size of a word.
LEMMA WordSize ==
    /\ Pow2[WordBits] \in Nat /\ Pow2[WordBits] >= 1024
    /\ CPU!Word = 0..Pow2[WordBits] - 1
    /\ 0 \in CPU!Word /\ 1 \in CPU!Word
<1>1. CPU!Word = 0..Pow2[WordBits] - 1  BY DEF CPU!Word
<1> DEFINE n == Pow2[WordBits]
<1>2. n \in Nat /\ n >= 1024
  <2> DEFINE k == Pow2[ImmBits - 1]
  <2>1. n = 2 * (512 * (2 * k)) /\ k \in Nat /\ k > 0  BY Powers
  <2> HIDE DEF n, k
  <2> QED  BY <2>1
<1> HIDE DEF n
<1>3. 0 \in 0..n - 1 /\ 1 \in 0..n - 1  BY <1>2
<1> QED  BY <1>1, <1>2, <1>3 DEF n

\* Arithmetic that wraps around delivers words.
LEMMA WrapIsWord ==
    ASSUME NEW x \in Int
    PROVE  CPU!Wrap(x) \in CPU!Word
<1> DEFINE n == Pow2[WordBits]
<1>1. n \in Nat /\ n >= 1024  BY WordSize
<1>2. CPU!Word = 0..n - 1  BY WordSize
<1>3. CPU!Wrap(x) = x % n  BY DEF CPU!Wrap
<1> HIDE DEF n
<1>4. x % n \in 0..n - 1  BY <1>1
<1> QED  BY <1>2, <1>3, <1>4

\* The addressing modes name sources and a destination.
LEMMA ModeOperands ==
    ASSUME NEW m \in 1..16
    PROVE  LET i == CPU!Modes[m]
           IN  /\ i.a \in {"STACK", "ADDR", "FP", "IMM", "PPC"}
               /\ i.b \in {"STACK", "IMM", "FP_IMM"}
BY DEF CPU!Modes

\* A word is decoded to an immediate that is a word.
LEMMA DecodeOK ==
    ASSUME NEW w \in CPU!Word
    PROVE  Decoded(CPU!Decode(w))
<1>1. w \in Nat  BY WordSize
<1>2. CASE w < Pow2[WordBits - 1]
  <2>1. CPU!Decode(w).imm = w /\ CPU!Decode(w).mode = CPU!Modes[16]
    BY <1>2 DEF CPU!Decode
  <2>2. 16 \in 1..16  OBVIOUS
  <2> QED  BY <2>1, <2>2 DEF Decoded
<1>3. CASE ~(w < Pow2[WordBits - 1])
  <2> DEFINE field == (w \div 2^9) % Pow2[WordBits - 10]
  <2> DEFINE sign == IF field >= Pow2[WordBits - 11] THEN Pow2[WordBits - 10] ELSE 0
  <2>1. /\ CPU!Decode(w).imm = CPU!Wrap(field - sign)
        /\ CPU!Decode(w).mode = CPU!Modes[1 + (w % 2^4)]
    BY <1>3 DEF CPU!Decode
  <2>2. field - sign \in Int
    <3>1. WordBits - 10 = ImmBits  BY ImmBitsAssumption DEF WordBits
    <3> DEFINE k == Pow2[ImmBits]
    <3>2. k \in Nat /\ k > 0
      <4> DEFINE h == Pow2[ImmBits - 1]
      <4>1. k = 2 * h /\ h \in Nat /\ h > 0  BY Powers
      <4> HIDE DEF k, h
      <4> QED  BY <4>1
    <3>3. field = (w \div 512) % k
      <4>1. 2^9 = 512  OBVIOUS
      <4> QED  BY <3>1, <4>1
    <3>4. sign = k \/ sign = 0  BY <3>1
    <3> HIDE DEF k, field, sign
    <3>5. field \in Int  BY <1>1, <3>2, <3>3
    <3> QED  BY <3>2, <3>4, <3>5
  <2> HIDE DEF field, sign
  <2>3. CPU!Decode(w).imm \in CPU!Word  BY <2>1, <2>2, WrapIsWord
  <2>4. 1 + (w % 2^4) \in 1..16
    <3>1. 2^4 = 16  OBVIOUS
    <3>2. 1 + (w % 16) \in 1..16  BY <1>1
    <3> QED  BY <3>1, <3>2
  <2> QED  BY <2>1, <2>3, <2>4 DEF Decoded
<1> QED  BY <1>2, <1>3

\* A read delivers a word.
LEMMA ReadOK ==
    ASSUME CpuTypeOK, NEW addr
    PROVE  CPU!Read(addr) \in CPU!Word
<1>1. printed \in Seq(CPU!Word) /\ \A a \in DOMAIN ram : ram[a] \in CPU!Word
  BY DEF CpuTypeOK
<1>2. 0 \in CPU!Word  BY WordSize
<1>3. printed # <<>> => printed[Len(printed)] \in CPU!Word  BY <1>1
<1> QED  BY <1>1, <1>2, <1>3 DEF CPU!Read

\* An operand is a word.
LEMMA OperandOK ==
    ASSUME CpuTypeOK, NEW addr, NEW m \in 1..16, insn.mode = CPU!Modes[m]
    PROVE  /\ CPU!Operand(insn.mode.a, addr) \in CPU!Word
           /\ CPU!Operand(insn.mode.b, addr) \in CPU!Word
<1>1. \A src \in {"STACK", "ADDR", "FP", "IMM", "PPC", "FP_IMM"} :
        CPU!Operand(src, addr) \in CPU!Word
  <2> SUFFICES ASSUME NEW src \in {"STACK", "ADDR", "FP", "IMM", "PPC", "FP_IMM"}
               PROVE  CPU!Operand(src, addr) \in CPU!Word
    OBVIOUS
  <2>1. insn.imm \in CPU!Word /\ fp \in CPU!Word /\ ppc \in CPU!Word
    BY DEF CpuTypeOK, Decoded
  <2>2. CPU!Wrap(fp + insn.imm) \in CPU!Word
    <3>1. fp + insn.imm \in Int  BY <2>1, WordSize
    <3> QED  BY <3>1, WrapIsWord
  <2>3. CPU!Read(addr) \in CPU!Word /\ CPU!Read(CPU!Wrap(sp - 1)) \in CPU!Word  BY ReadOK
  <2> QED  BY <2>1, <2>2, <2>3 DEF CPU!Operand
<1> QED  BY <1>1, ModeOperands

\* A quotient is no more than what is divided.
LEMMA QuotientBound ==
    ASSUME NEW a \in Nat, NEW b \in Nat, b > 0
    PROVE  a \div b \in 0..a
<1>1. a \div b \in Int /\ a % b \in 0..b - 1 /\ a = b * (a \div b) + (a % b)
  OBVIOUS
<1> DEFINE q == a \div b
<1> DEFINE r == a % b
<1>2. q \in Int /\ r \in 0..b - 1 /\ a = b * q + r  BY <1>1
<1> HIDE DEF q, r
<1>3. q >= 0
  <2> SUFFICES ASSUME q <= -1
               PROVE  FALSE
    BY <1>2
  <2>1. b * q <= b * (-1)  BY <1>2
  <2> QED  BY <1>2, <2>1
<1>4. q <= a
  <2>1. b * q >= q  BY <1>2, <1>3
  <2> QED  BY <1>2, <2>1
<1> QED  BY <1>2, <1>3, <1>4 DEF q

\* What ALU delivers is a word, whatever the operation.
LEMMA AluIsWord ==
    ASSUME NEW iop, NEW a \in CPU!Word, NEW b \in CPU!Word
    PROVE  CPU!Alu(iop, a, b) \subseteq CPU!Word
<1> DEFINE n == Pow2[WordBits]
<1> DEFINE top == n - 1
<1>1. n \in Nat /\ n >= 1024 /\ CPU!Word = 0..top  BY WordSize
<1>2. a \in Nat /\ b \in Nat /\ a <= top /\ b <= top /\ top \in Nat
  <2> HIDE DEF n
  <2> QED  BY <1>1
<1>3. 0 \in CPU!Word /\ 1 \in CPU!Word /\ top \in CPU!Word  BY <1>1, <1>2, WordSize
<1>4. CPU!Signed(a) \in Int /\ CPU!Signed(b) \in Int
  <2>1. n \in Int /\ a \in Int /\ b \in Int  BY <1>1, <1>2
  <2> QED  BY <2>1 DEF CPU!Signed
<1>5. /\ CPU!Wrap(-a) \in CPU!Word /\ CPU!Wrap(a + b) \in CPU!Word
      /\ CPU!Wrap(a - b) \in CPU!Word
      /\ CPU!Wrap(CPU!Signed(a) * CPU!Signed(b)) \in CPU!Word
  <2>1. -a \in Int /\ a + b \in Int /\ a - b \in Int  BY <1>2
  <2>2. CPU!Signed(a) * CPU!Signed(b) \in Int
    <3> DEFINE x == CPU!Signed(a)
    <3> DEFINE y == CPU!Signed(b)
    <3>1. x \in Int /\ y \in Int  BY <1>4
    <3> HIDE DEF x, y
    <3>2. x * y \in Int  BY <3>1
    <3> QED  BY <3>2 DEF x, y
  <2> QED  BY <2>1, <2>2, WrapIsWord
<1>6. b # 0 => a \div b \in CPU!Word /\ a % b \in CPU!Word
  <2> SUFFICES ASSUME b # 0
               PROVE  a \div b \in CPU!Word /\ a % b \in CPU!Word
    OBVIOUS
  <2>1. b > 0  BY <1>2
  <2>2. a \div b \in 0..a  BY <1>2, <2>1, QuotientBound
  <2>3. a % b \in 0..b - 1  BY <1>2, <2>1
  <2> HIDE DEF top
  <2>4. a \div b \in 0..top
    <3> DEFINE q == a \div b
    <3>1. q \in 0..a  BY <2>2
    <3> HIDE DEF q
    <3>2. q \in 0..top  BY <1>2, <3>1
    <3> QED  BY <3>2 DEF q
  <2>5. a % b \in 0..top
    <3> DEFINE r == a % b
    <3>1. r \in 0..b - 1  BY <2>3
    <3> HIDE DEF r
    <3>2. r \in 0..top  BY <1>2, <3>1
    <3> QED  BY <3>2 DEF r
  <2> QED  BY <1>1, <2>4, <2>5
<1>7. top - a \in CPU!Word
  <2> HIDE DEF top
  <2> QED  BY <1>1, <1>2
<1>8. ImmBits \in Nat /\ WordBits = ImmBits + 10
  BY ImmBitsAssumption DEF WordBits
<1>9. ~(b >= WordBits) => Pow2[b] \in Nat /\ Pow2[b] > 0
  <2> SUFFICES ASSUME ~(b >= WordBits)
               PROVE  Pow2[b] \in Nat /\ Pow2[b] > 0
    OBVIOUS
  <2>1. b \in 0..ImmBits + 10  BY <1>2, <1>8
  <2>2. Pow2[b] \in Nat \ {0}  BY <2>1, PowAssumption
  <2> QED  BY <2>2
<1>10. CPU!Shifted(a, b) \in CPU!Word
  <2>1. CASE b >= WordBits  BY <1>3, <2>1 DEF CPU!Shifted
  <2>2. CASE ~(b >= WordBits)
    <3> DEFINE p == Pow2[b]
    <3>1. p \in Nat  BY <1>9, <2>2
    <3>2. CPU!Shifted(a, b) = CPU!Wrap(a * p)  BY <2>2 DEF CPU!Shifted
    <3> HIDE DEF p
    <3>3. a * p \in Int  BY <1>2, <3>1
    <3> QED  BY <3>2, <3>3, WrapIsWord
  <2> QED  BY <2>1, <2>2
<1>11. (IF b >= WordBits THEN 0 ELSE a \div Pow2[b]) \in CPU!Word
  <2>1. CASE b >= WordBits  BY <1>3, <2>1
  <2>2. CASE ~(b >= WordBits)
    <3> DEFINE p == Pow2[b]
    <3> DEFINE q == a \div p
    <3>1. p \in Nat /\ p > 0  BY <1>9, <2>2
    <3>2. q \in 0..a
      <4> HIDE DEF p
      <4> QED  BY <1>2, <3>1, QuotientBound
    <3> HIDE DEF q, top
    <3>3. q \in 0..top  BY <1>2, <3>2
    <3> QED  BY <1>1, <2>2, <3>3 DEF q
  <2> QED  BY <2>1, <2>2
<1>12. \A c : CPU!BoolWord(c) \in CPU!Word  BY <1>3 DEF CPU!BoolWord
<1>13. CPU!DivisionByZero \subseteq CPU!Word  BY <1>3 DEF CPU!DivisionByZero
<1> HIDE DEF n, top
<1> DEFINE shr == IF b >= WordBits THEN 0 ELSE a \div Pow2[b]
<1> DEFINE x == CPU!Wrap(CPU!Signed(a) * CPU!Signed(b))
<1> DEFINE inv == Pow2[WordBits] - 1 - a
<1>14. inv \in CPU!Word  BY <1>7 DEF top, n
<1>15. shr \in CPU!Word /\ x \in CPU!Word  BY <1>5, <1>11
<1>16. CPU!Alu(iop, a, b) =
         CASE iop = 1  -> {CPU!Wrap(-a)}
           [] iop = 2  -> {CPU!Wrap(a + b)}
           [] iop = 3  -> {CPU!Wrap(a - b)}
           [] iop = 4  -> {x}
           [] iop = 5  -> IF b = 0 THEN CPU!DivisionByZero ELSE {a \div b}
           [] iop = 6  -> IF b = 0 THEN CPU!DivisionByZero ELSE {a % b}
           [] iop = 7  -> {WordAnd(a, b)} \cap CPU!Word
           [] iop = 8  -> {WordOr(a, b)} \cap CPU!Word
           [] iop = 9  -> {inv}
           [] iop = 10 -> {WordXor(a, b)} \cap CPU!Word
           [] iop = 11 -> {a}
           [] iop = 12 -> {b}
           [] iop = 13 -> {CPU!Shifted(a, b)}
           [] iop = 14 -> {shr}
           [] iop = 15 -> {CPU!BoolWord(a = b)}
           [] iop = 16 -> {CPU!BoolWord(a # b)}
           [] iop = 17 -> {CPU!BoolWord(CPU!Signed(a) < CPU!Signed(b))}
           [] iop = 18 -> {CPU!BoolWord(CPU!Signed(a) > CPU!Signed(b))}
           [] iop = 19 -> {CPU!BoolWord(CPU!Signed(a) <= CPU!Signed(b))}
           [] iop = 20 -> {CPU!BoolWord(CPU!Signed(a) >= CPU!Signed(b))}
           [] OTHER    -> {0}
  BY DEF CPU!Alu
<1> HIDE DEF shr, x, inv
<1>17. CASE iop \in {1, 2, 3, 4}  BY <1>5, <1>15, <1>16, <1>17
<1>18. CASE iop \in {5, 6}  BY <1>6, <1>13, <1>16, <1>18
<1>19. CASE iop \in {7, 8, 9, 10}  BY <1>14, <1>16, <1>19
<1>20. CASE iop \in {11, 12, 13, 14}  BY <1>10, <1>15, <1>16, <1>20
<1>21. CASE iop \in {15, 16, 17, 18, 19, 20}  BY <1>12, <1>16, <1>21
<1>22. CASE iop \notin 1..20  BY <1>3, <1>16, <1>22
<1> QED  BY <1>17, <1>18, <1>19, <1>20, <1>21, <1>22

\* The processor starts with words.
LEMMA CpuTypeInit == CPU!CpuInit => CpuTypeOK
<1> SUFFICES ASSUME CPU!CpuInit
             PROVE  CpuTypeOK
  OBVIOUS
<1>1. 0 \in CPU!Word  BY WordSize
<1>2. insn.imm = 0 /\ insn.mode = CPU!Modes[16]  BY DEF CPU!CpuInit
<1>3. Decoded(insn)
  <2>1. 16 \in 1..16  OBVIOUS
  <2> QED  BY <1>1, <1>2, <2>1 DEF Decoded
<1>4. DOMAIN ram = {} /\ printed = <<>>  BY DEF CPU!CpuInit
<1>5. printed \in Seq(CPU!Word)  BY <1>4
<1> QED  BY <1>1, <1>3, <1>4, <1>5 DEF CPU!CpuInit, CpuTypeOK

\* A word is written to a word of the memory or to the port.
LEMMA WriteOK ==
    ASSUME CpuTypeOK, NEW addr \in CPU!Word, NEW value \in CPU!Word,
           CPU!Write(addr, value)
    PROVE  /\ \A a \in DOMAIN ram' : a \in CPU!Word /\ ram'[a] \in CPU!Word
           /\ printed' \in Seq(CPU!Word)
<1>1. /\ \A a \in DOMAIN ram : a \in CPU!Word /\ ram[a] \in CPU!Word
      /\ printed \in Seq(CPU!Word)
  BY DEF CpuTypeOK
<1>2. CASE printed' = Append(printed, value) /\ UNCHANGED ram
  BY <1>1, <1>2
<1>3. CASE /\ ram' = [x \in DOMAIN ram \cup {addr} |-> IF x = addr THEN value ELSE ram[x]]
           /\ UNCHANGED printed
  BY <1>1, <1>3
<1> QED  BY <1>2, <1>3 DEF CPU!Write

\* Every word of the program memory is decoded to an immediate that is a word.
LEMMA FetchOK ==
    ASSUME CpuTypeOK, rom \in Seq(CPU!Word), CPU!Fetch
    PROVE  CpuTypeOK'
<1> DEFINE w == IF pc < Len(rom) THEN rom[pc + 1] ELSE 0
<1>1. pc \in Nat  BY WordSize DEF CpuTypeOK
<1>2. w \in CPU!Word
  <2>1. CASE pc < Len(rom)
    <3>1. pc + 1 \in 1..Len(rom)  BY <1>1, <2>1
    <3>2. rom[pc + 1] \in CPU!Word  BY <3>1
    <3> QED  BY <2>1, <3>2
  <2>2. CASE ~(pc < Len(rom))  BY <2>2, WordSize
  <2> QED  BY <2>1, <2>2
<1>3. insn' = CPU!Decode(w) /\ pc' = CPU!Wrap(pc + 1)  BY DEF CPU!Fetch
<1>4. cur_state' = "S_LOAD_B"
      /\ UNCHANGED <<ppc, sp, fp, reg_a, reg_b, ram, printed>>
  BY DEF CPU!Fetch
<1> HIDE DEF w
<1>5. Decoded(CPU!Decode(w))  BY <1>2, DecodeOK
<1>6. Decoded(insn')  BY <1>3, <1>5
<1>7. pc' \in CPU!Word
  <2>1. pc + 1 \in Int  BY <1>1
  <2> QED  BY <1>3, <2>1, WrapIsWord
<1>8. insn'.imm \in CPU!Word /\ \E m \in 1..16 : insn'.mode = CPU!Modes[m]
  BY <1>6 DEF Decoded
<1> QED  BY <1>4, <1>7, <1>8 DEF CpuTypeOK, Decoded

\* What is popped leaves the stack pointer a word.
LEMMA PoppedOK ==
    ASSUME CpuTypeOK, NEW src
    PROVE  CPU!Popped(src) \in CPU!Word
<1>1. sp \in CPU!Word /\ sp - 1 \in Int  BY WordSize DEF CpuTypeOK
<1>2. CPU!Wrap(sp - 1) \in CPU!Word  BY <1>1, WrapIsWord
<1> QED  BY <1>1, <1>2 DEF CPU!Popped

\* The operands of an instruction are words.
LEMMA LoadOK ==
    ASSUME CpuTypeOK, CPU!LoadB \/ CPU!LoadA
    PROVE  CpuTypeOK'
<1>1. PICK m \in 1..16 : insn.mode = CPU!Modes[m]  BY DEF CpuTypeOK, Decoded
<1>2. CASE CPU!LoadB
  <2>1. /\ reg_b' = CPU!Operand(insn.mode.b, 0)
        /\ sp' = CPU!Popped(insn.mode.b)
        /\ cur_state' = "S_LOAD_A"
        /\ UNCHANGED <<pc, ppc, fp, insn, reg_a, ram, printed>>
    BY <1>2 DEF CPU!LoadB
  <2>2. CPU!Operand(insn.mode.b, 0) \in CPU!Word  BY <1>1, OperandOK
  <2>3. CPU!Popped(insn.mode.b) \in CPU!Word  BY PoppedOK
  <2>4. reg_b' \in CPU!Word /\ sp' \in CPU!Word  BY <2>1, <2>2, <2>3
  <2> QED  BY <2>1, <2>4 DEF CpuTypeOK, Decoded
<1>3. CASE CPU!LoadA
  <2>1. /\ reg_a' = CPU!Operand(insn.mode.a, reg_b)
        /\ sp' = CPU!Popped(insn.mode.a)
        /\ cur_state' = "S_STORE"
        /\ UNCHANGED <<pc, ppc, fp, insn, reg_b, ram, printed>>
    BY <1>3 DEF CPU!LoadA
  <2>2. CPU!Operand(insn.mode.a, reg_b) \in CPU!Word  BY <1>1, OperandOK
  <2>3. CPU!Popped(insn.mode.a) \in CPU!Word  BY PoppedOK
  <2>4. reg_a' \in CPU!Word /\ sp' \in CPU!Word  BY <2>1, <2>2, <2>3
  <2> QED  BY <2>1, <2>4 DEF CpuTypeOK, Decoded
<1> QED  BY <1>2, <1>3

\* The result that is stored is a word, and so is the address it goes to.
LEMMA StoreResultOK ==
    ASSUME CpuTypeOK, CPU!StoreResult
    PROVE  CpuTypeOK'
<1> DEFINE dst == CPU!Destination(insn)
<1>1. PICK result \in CPU!Alu(insn.alu, reg_a, reg_b) :
        /\ CASE dst = "STACK" -> CPU!Write(sp, result)
             [] dst = "MEM"   -> CPU!Write(reg_b, result)
             [] OTHER         -> UNCHANGED <<ram, printed>>
        /\ fp' = IF dst = "FP" THEN result ELSE fp
  BY DEF CPU!StoreResult
<1>2. /\ sp' = IF dst = "STACK" THEN CPU!Wrap(sp + 1) ELSE sp
      /\ pc' = IF CPU!Taken(dst) THEN reg_b ELSE pc
      /\ ppc' = IF CPU!Taken(dst) THEN pc ELSE ppc
      /\ UNCHANGED <<insn, reg_a, reg_b>>
  BY DEF CPU!StoreResult
<1>3. cur_state' \in {"S_HALT", "S_FETCH"}  BY DEF CPU!StoreResult
<1> HIDE DEF dst
<1>4. /\ pc \in CPU!Word /\ ppc \in CPU!Word /\ sp \in CPU!Word /\ fp \in CPU!Word
      /\ reg_a \in CPU!Word /\ reg_b \in CPU!Word
  BY DEF CpuTypeOK
<1>5. result \in CPU!Word  BY <1>1, <1>4, AluIsWord
<1>6. /\ \A a \in DOMAIN ram' : a \in CPU!Word /\ ram'[a] \in CPU!Word
      /\ printed' \in Seq(CPU!Word)
  <2>1. CASE dst = "STACK"
    <3>1. CPU!Write(sp, result)  BY <1>1, <2>1
    <3> QED  BY <1>4, <1>5, <3>1, WriteOK
  <2>2. CASE dst = "MEM"
    <3>1. CPU!Write(reg_b, result)  BY <1>1, <2>2
    <3> QED  BY <1>4, <1>5, <3>1, WriteOK
  <2>3. CASE dst # "STACK" /\ dst # "MEM"
    <3>1. UNCHANGED <<ram, printed>>  BY <1>1, <2>3
    <3> QED  BY <3>1 DEF CpuTypeOK
  <2> QED  BY <2>1, <2>2, <2>3
<1>7. CPU!Wrap(sp + 1) \in CPU!Word
  <2>1. sp + 1 \in Int  BY <1>4, WordSize
  <2> QED  BY <2>1, WrapIsWord
<1>8. fp' \in CPU!Word  BY <1>1, <1>4, <1>5
<1>9. sp' \in CPU!Word /\ pc' \in CPU!Word /\ ppc' \in CPU!Word  BY <1>2, <1>4, <1>7
<1>10. Decoded(insn)'  BY <1>2 DEF CpuTypeOK, Decoded
<1>11. reg_a' \in CPU!Word /\ reg_b' \in CPU!Word  BY <1>2, <1>4
<1> QED  BY <1>3, <1>6, <1>8, <1>9, <1>10, <1>11 DEF CpuTypeOK

\* The program is words.
LEMMA ProgramIsWords ==
    ASSUME VisitorInv
    PROVE  mCodeGen.program \in Seq(CPU!Word)
<1>1. mCodeGen.program \in Seq(CodeWord)  BY DEF VisitorInv, GeneratorType
<1>2. CodeWord \subseteq CPU!Word  BY CodeWordIsWord DEF CPU!Word
<1> QED  BY <1>1, <1>2

\* Every step leaves the processor with words.
LEMMA CpuTypeStep ==
    ASSUME ToolInv, CpuTypeOK, [Next]_vars
    PROVE  CpuTypeOK'
<1>1. CASE RunCpu
  <2>1. phase = "run" /\ CPU!CpuStep  BY <1>1 DEF RunCpu
  <2>2. rom \in Seq(CPU!Word)  BY <2>1, ProgramIsWords DEF ToolInv
  <2>3. CPU!Fetch \/ CPU!LoadB \/ CPU!LoadA \/ CPU!StoreResult  BY <2>1 DEF CPU!CpuStep
  <2>4. CASE CPU!Fetch  BY <2>2, <2>4, FetchOK
  <2>5. CASE CPU!LoadB \/ CPU!LoadA  BY <2>5, LoadOK
  <2>6. CASE CPU!StoreResult  BY <2>6, StoreResultOK
  <2> QED  BY <2>3, <2>4, <2>5, <2>6
<1>2. CASE ResumeCpu
  <2>1. /\ cur_state' = "S_FETCH"
        /\ UNCHANGED <<pc, ppc, sp, fp, insn, reg_a, reg_b, ram, printed>>
    BY <1>2 DEF ResumeCpu, CPU!Resume
  <2> QED  BY <2>1 DEF CpuTypeOK, Decoded
<1>3. CASE Parse \/ SyntaxError \/ Compile \/ Save \/ Catch \/ UNCHANGED vars
  <2>1. UNCHANGED cpuVars
    BY <1>3 DEF Parse, SyntaxError, Compile, Save, Catch, vars
  <2> QED  BY <2>1 DEF cpuVars, CpuTypeOK, Decoded
<1> QED  BY <1>1, <1>2, <1>3 DEF Next

\* The inductive invariant implies the types.
LEMMA TypesHold == ToolInv /\ CpuTypeOK => TypeOK
<1> SUFFICES ASSUME ToolInv, CpuTypeOK
             PROVE  TypeOK
  OBVIOUS
<1>1. VisitorInv  BY DEF ToolInv
<1>2. mCodeGen.program \in Seq(CPU!Word)  BY <1>1, ProgramIsWords
<1>3. \A i \in DOMAIN mCodeGen.program : mCodeGen.program[i] \in CPU!Word  BY <1>2
<1>4. counter \in Nat /\ status \in {"idle", "visiting", "compiled", "failed"}
  BY <1>1 DEF VisitorInv
<1> QED  BY <1>3, <1>4 DEF ToolInv, CpuTypeOK, TypeOK

-----------------------------------------------------------------------------
\* The theorems.  The invariant that the steps keep is ToolInv /\ CpuTypeOK.

\* Whatever is compiled and however often the processor is halted, the
\* toolchain and the processor hold the values they are declared to hold:
\* the program is words, and no register, operand or memory cell of the
\* processor ever holds more than a word.
THEOREM Types == Spec => []TypeOK
<1> DEFINE Inv == ToolInv /\ CpuTypeOK /\ input \in Inputs
<1>1. Init => Inv  BY ToolInvInit, CpuTypeInit DEF Init
<1>2. Inv /\ [Next]_vars => Inv'  BY ToolInvStep, CpuTypeStep
<1>3. Inv => TypeOK  BY TypesHold
<1> HIDE DEF Inv
<1> QED  BY <1>1, <1>2, <1>3, PTL DEF Spec

\* Of every program that is saved: the processor takes from each word the
\* constant, or the immediate, the operation, the operands and the destination
\* that the listing shows, except that the listing exchanges the two operands
\* of each jump; every position that refers to a label holds the label's
\* address; and every slot that a function's code reaches through fp lies in
\* the frame its prologue takes and its epilogue gives back.
THEOREM ImageIsRight == Spec => []ImageRight
<1> DEFINE Inv == ToolInv /\ input \in Inputs
<1>1. Init => Inv  BY ToolInvInit
<1>2. Inv /\ [Next]_vars => Inv'  BY ToolInvStep
<1>3. Inv => ImageRight  BY ImageRightInv
<1> HIDE DEF Inv
<1> QED  BY <1>1, <1>2, <1>3, PTL DEF Spec

\* Whatever is compiled, no two variables that are live together share a
\* slot, and no free slot is a live variable's.
THEOREM LiveSlotsDisjoint == Spec => []SlotsDisjoint
<1> DEFINE Inv == ToolInv /\ input \in Inputs
<1>1. Init => Inv  BY ToolInvInit
<1>2. Inv /\ [Next]_vars => Inv'  BY ToolInvStep
<1>3. Inv => SlotsDisjoint
  BY DEF ToolInv, VisitorInv, AllocatorsOK, AllocatorOK, SlotsDisjoint
<1> HIDE DEF Inv
<1> QED  BY <1>1, <1>2, <1>3, PTL DEF Spec
=============================================================================
