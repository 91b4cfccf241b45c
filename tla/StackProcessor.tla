--------------------------- MODULE StackProcessor ---------------------------
(***************************************************************************)
(* The stack processor the compiler generates code for                     *)
(* (Calc2/src/Processor.sv and the stages it instantiates), with the       *)
(* word-addressed memory and output port of mmio.sv.  A step is one state  *)
(* of the processor's FSM, at the cycle in which the memory acknowledges   *)
(* it.  Words have WordBits bits, 32 in the code.                          *)
(***************************************************************************)
EXTENDS Integers, Sequences

CONSTANTS
    WordBits,
    Pow2,                                               \* the powers of two
    WordAnd(_, _), WordOr(_, _), WordXor(_, _)          \* & | ^ of Verilog

VARIABLES
    rom,            \* the program memory, word p at rom[p + 1]
    cur_state,      \* the state of the FSM
    pc, ppc, sp, fp,
    insn,           \* what FetchStage has decoded
    reg_a, reg_b,
    ram,            \* the words written so far
    printed         \* the words written to the output port, in order

Word == 0..Pow2[WordBits] - 1
Wrap(n) == n % Pow2[WordBits]
Signed(w) == IF w >= Pow2[WordBits - 1] THEN w - Pow2[WordBits] ELSE w
BoolWord(b) == IF b THEN 1 ELSE 0

\* op_a_src, op_b_src and res_dst by addressing mode.
Modes ==
    <<[a |-> "STACK", b |-> "STACK",  dst |-> "STACK"],
      [a |-> "STACK", b |-> "IMM",    dst |-> "STACK"],
      [a |-> "ADDR",  b |-> "IMM",    dst |-> "STACK"],
      [a |-> "STACK", b |-> "IMM",    dst |-> "MEM"],
      [a |-> "ADDR",  b |-> "STACK",  dst |-> "STACK"],
      [a |-> "STACK", b |-> "STACK",  dst |-> "MEM"],
      [a |-> "ADDR",  b |-> "FP_IMM", dst |-> "STACK"],
      [a |-> "STACK", b |-> "FP_IMM", dst |-> "MEM"],
      [a |-> "FP",    b |-> "IMM",    dst |-> "STACK"],
      [a |-> "STACK", b |-> "IMM",    dst |-> "FP"],
      [a |-> "FP",    b |-> "IMM",    dst |-> "FP"],
      [a |-> "IMM",   b |-> "STACK",  dst |-> "PC"],
      [a |-> "STACK", b |-> "STACK",  dst |-> "PC_Z"],
      [a |-> "STACK", b |-> "STACK",  dst |-> "PC_NZ"],
      [a |-> "PPC",   b |-> "IMM",    dst |-> "STACK"],
      [a |-> "IMM",   b |-> "IMM",    dst |-> "NONE"]>>

\* FetchStage
Decode(word) ==
    LET field == (word \div 2^9) % Pow2[WordBits - 10]
        sign == IF field >= Pow2[WordBits - 11] THEN Pow2[WordBits - 10] ELSE 0
    IN  IF word < Pow2[WordBits - 1]
        THEN [imm |-> word, alu |-> 11, mode |-> Modes[16], const |-> TRUE]
        ELSE [imm |-> Wrap(field - sign), alu |-> (word \div 2^4) % 2^5,
              mode |-> Modes[1 + (word % 2^4)], const |-> FALSE]
Destination(i) == IF i.const THEN "STACK" ELSE i.mode.dst

\* A division by zero may deliver any word: two of them stand for it.
DivisionByZero == {0, Pow2[WordBits] - 1}

Shifted(w, n) == IF n >= WordBits THEN 0 ELSE Wrap(w * Pow2[n])

\* The results ALU may show; products are formed from the signed readings,
\* which changes no bit of the word.  The bitwise operators deliver words: no
\* run can look at all pairs of words, so the sets say so.
Alu(iop, a, b) ==
    CASE iop = 1  -> {Wrap(-a)}
      [] iop = 2  -> {Wrap(a + b)}
      [] iop = 3  -> {Wrap(a - b)}
      [] iop = 4  -> {Wrap(Signed(a) * Signed(b))}
      [] iop = 5  -> IF b = 0 THEN DivisionByZero ELSE {a \div b}
      [] iop = 6  -> IF b = 0 THEN DivisionByZero ELSE {a % b}
      [] iop = 7  -> {WordAnd(a, b)} \cap Word
      [] iop = 8  -> {WordOr(a, b)} \cap Word
      [] iop = 9  -> {Pow2[WordBits] - 1 - a}
      [] iop = 10 -> {WordXor(a, b)} \cap Word
      [] iop = 11 -> {a}
      [] iop = 12 -> {b}
      [] iop = 13 -> {Shifted(a, b)}
      [] iop = 14 -> {IF b >= WordBits THEN 0 ELSE a \div Pow2[b]}
      [] iop = 15 -> {BoolWord(a = b)}
      [] iop = 16 -> {BoolWord(a # b)}
      [] iop = 17 -> {BoolWord(Signed(a) < Signed(b))}
      [] iop = 18 -> {BoolWord(Signed(a) > Signed(b))}
      [] iop = 19 -> {BoolWord(Signed(a) <= Signed(b))}
      [] iop = 20 -> {BoolWord(Signed(a) >= Signed(b))}
      [] OTHER    -> {0}

\* mmio: bit 30 of the address selects the output port.
IsPort(addr) == (addr \div Pow2[WordBits - 2]) % 2 = 1
Read(addr) ==
    IF IsPort(addr) THEN IF printed = <<>> THEN 0 ELSE printed[Len(printed)]
    ELSE IF addr \in DOMAIN ram THEN ram[addr] ELSE 0
Write(addr, value) ==
    IF IsPort(addr) THEN printed' = Append(printed, value) /\ UNCHANGED ram
    ELSE /\ ram' = [x \in DOMAIN ram \cup {addr} |-> IF x = addr THEN value ELSE ram[x]]
         /\ UNCHANGED printed

\* AddrSelector and OperandSourceSelector; addr is the memory operand.
OperandCarry(src, addr) ==     \* mutant: the sum with fp keeps its carry
    CASE src = "IMM"    -> insn.imm
      [] src = "STACK"  -> Read(Wrap(sp - 1))
      [] src = "FP"     -> fp
      [] src = "FP_IMM" -> fp + insn.imm
      [] src = "PPC"    -> ppc
      [] src = "ADDR"   -> Read(addr)
Operand(src, addr) ==
    CASE src = "IMM"    -> insn.imm
      [] src = "STACK"  -> Read(Wrap(sp - 1))
      [] src = "FP"     -> fp
      [] src = "FP_IMM" -> Wrap(fp + insn.imm)
      [] src = "PPC"    -> ppc
      [] src = "ADDR"   -> Read(addr)
Popped(src) == IF src = "STACK" THEN Wrap(sp - 1) ELSE sp

-----------------------------------------------------------------------------
CpuInit ==
    /\ cur_state = "S_HALT"
    /\ pc = 0 /\ ppc = 0 /\ sp = 0 /\ fp = 0
    /\ insn = [imm |-> 0, alu |-> 0, mode |-> Modes[16], const |-> FALSE]
    /\ reg_a = 0 /\ reg_b = 0
    /\ ram = [x \in {} |-> 0]
    /\ printed = <<>>

Resume ==
    /\ cur_state = "S_HALT"
    /\ cur_state' = "S_FETCH"
    /\ UNCHANGED <<pc, ppc, sp, fp, insn, reg_a, reg_b, ram, printed>>

\* Behind the program the memory holds zeros.
Fetch ==
    /\ cur_state = "S_FETCH"
    /\ insn' = Decode(IF pc < Len(rom) THEN rom[pc + 1] ELSE 0)
    /\ pc' = Wrap(pc + 1)
    /\ cur_state' = "S_LOAD_B"
    /\ UNCHANGED <<ppc, sp, fp, reg_a, reg_b, ram, printed>>

LoadB ==
    /\ cur_state = "S_LOAD_B"
    /\ reg_b' = Operand(insn.mode.b, 0)
    /\ sp' = Popped(insn.mode.b)
    /\ cur_state' = "S_LOAD_A"
    /\ UNCHANGED <<pc, ppc, fp, insn, reg_a, ram, printed>>

LoadA ==
    /\ cur_state = "S_LOAD_A"
    /\ reg_a' = Operand(insn.mode.a, reg_b)
    /\ sp' = Popped(insn.mode.a)
    /\ cur_state' = "S_STORE"
    /\ UNCHANGED <<pc, ppc, fp, insn, reg_b, ram, printed>>

\* SaveStage with BranchConditioner and ProgramCounter; a request to halt
\* is looked at here only.
Taken(dst) ==
    \/ dst = "PC"
    \/ dst = "PC_Z" /\ reg_a = 0
    \/ dst = "PC_NZ" /\ reg_a # 0

StoreResult ==
    /\ cur_state = "S_STORE"
    /\ \E result \in Alu(insn.alu, reg_a, reg_b) :
         /\ CASE Destination(insn) = "STACK" -> Write(sp, result)
              [] Destination(insn) = "MEM"   -> Write(reg_b, result)
              [] OTHER                       -> UNCHANGED <<ram, printed>>
         /\ fp' = IF Destination(insn) = "FP" THEN result ELSE fp
    /\ sp' = IF Destination(insn) = "STACK" THEN Wrap(sp + 1) ELSE sp
    /\ pc' = IF Taken(Destination(insn)) THEN reg_b ELSE pc
    /\ ppc' = IF Taken(Destination(insn)) THEN pc ELSE ppc
    /\ \E halt_req \in BOOLEAN : cur_state' = IF halt_req THEN "S_HALT" ELSE "S_FETCH"
    /\ UNCHANGED <<insn, reg_a, reg_b>>

CpuStep == Fetch \/ LoadB \/ LoadA \/ StoreResult
=============================================================================
