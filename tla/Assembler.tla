----------------------------- MODULE Assembler ------------------------------
(***************************************************************************)
(* The instruction words of the stack processor, as Assembler.h packs them *)
(* and disasm takes them apart.  A word is, from the top, a flag bit, an   *)
(* immediate of ImmBits bits, five bits of ALU operation and four of       *)
(* addressing mode; with the flag clear, the rest of the word is a         *)
(* constant.  The code has ImmBits = 22 and so 32-bit words.               *)
(***************************************************************************)
EXTENDS Integers, Sequences, FiniteSets

CONSTANTS
    ImmBits,
    Pow2        \* the powers of two
ASSUME ImmBitsAssumption == ImmBits \in Nat /\ ImmBits >= 2
ASSUME PowAssumption ==
    /\ Pow2 \in [0..ImmBits + 10 -> Nat \ {0}]
    /\ Pow2[0] = 1
    /\ \A n \in 0..ImmBits + 9 : Pow2[n + 1] = 2 * Pow2[n]

WordBits == ImmBits + 10
FlagBit == Pow2[WordBits - 1]

\* What an assembler method that throws delivers.
Throws == -1

OpSrc ==
    [STACK_STACK_STACK |-> 0, STACK_IMM_STACK |-> 1, MEM_IMM_STACK |-> 2,
     STACK_IMM_MEM |-> 3, MEM_STACK_STACK |-> 4, STACK_STACK_MEM |-> 5,
     MEM_FPIMM_STACK |-> 6, STACK_FPIMM_MEM |-> 7, FP_IMM_STACK |-> 8,
     STACK_IMM_FP |-> 9, FP_IMM_FP |-> 10, IMM_STACK_PC |-> 11,
     STACK_STACK_PC_Z |-> 12, STACK_STACK_PC_NZ |-> 13, PPC_IMM_STACK |-> 14,
     IMM_IMM_NOP |-> 15]

OpAlu ==
    [ZERO |-> 0, NEGATE |-> 1, ADD |-> 2, SUB |-> 3, MUL |-> 4, DIV |-> 5,
     REM |-> 6, AND |-> 7, OR |-> 8, NOT |-> 9, XOR |-> 10, A |-> 11, B |-> 12,
     SHL |-> 13, SHR |-> 14, EQ |-> 15, NEQ |-> 16, LT |-> 17, GT |-> 18,
     LE |-> 19, GE |-> 20]

MinImm == -Pow2[ImmBits - 1]
MaxImm == Pow2[ImmBits - 1] - 1

\* The immediate must be a signed number of ImmBits bits.
Op(mode, alu, imm) ==
    IF imm > MaxImm \/ imm < MinImm THEN Throws
    ELSE FlagBit + (imm % Pow2[ImmBits]) * 2^9 + OpAlu[alu] * 2^4 + OpSrc[mode]

\* A constant must leave the flag bit clear.
Lconst(val) == IF val \in 0..FlagBit - 1 THEN val ELSE Throws

\* add, sub, mul, div, rem, and_, or_, xor_, shl, shr, equ, nequ, lt, gt, le, ge
StackOp(alu) == Op("STACK_STACK_STACK", alu, 0)
Negate == Op("STACK_IMM_STACK", "NEGATE", 0)
Not == Op("STACK_IMM_STACK", "NOT", 0)
Lppc == Op("PPC_IMM_STACK", "A", 0)
Lmem == Op("MEM_STACK_STACK", "A", 0)
Stmem == Op("STACK_STACK_MEM", "A", 0)
Lfpmem(addrdelta) == Op("MEM_FPIMM_STACK", "A", addrdelta)
Stfpmem(addrdelta) == Op("STACK_FPIMM_MEM", "A", addrdelta)
Ajmp == Op("IMM_STACK_PC", "A", 0)
Cjmpz == Op("STACK_STACK_PC_Z", "A", 0)
Addfp(delta) == Op("FP_IMM_FP", "ADD", delta)
Lfp == Op("STACK_IMM_FP", "A", 0)

\* Two's complement reading of a field of n bits.
SignExtend(field, n) == IF field >= Pow2[n - 1] THEN field - Pow2[n] ELSE field

\* What the listing says of an addressing mode: operands A and B and the
\* destination, in the words of StackProcessor.  "[B]" is ADDR where it is an
\* operand and MEM where it is the destination.
addrModeName ==
    LET Line(a, b, dst) == [a |-> a, b |-> b, dst |-> dst]
    IN  <<Line("STACK", "STACK", "STACK"), Line("STACK", "IMM", "STACK"),
          Line("ADDR", "IMM", "STACK"),    Line("STACK", "IMM", "MEM"),
          Line("ADDR", "STACK", "STACK"),  Line("STACK", "STACK", "MEM"),
          Line("ADDR", "FP_IMM", "STACK"), Line("STACK", "FP_IMM", "MEM"),
          Line("FP", "IMM", "STACK"),      Line("STACK", "IMM", "FP"),
          Line("FP", "IMM", "FP"),         Line("STACK", "IMM", "PC"),
          Line("STACK", "STACK", "PC_Z"),  Line("STACK", "STACK", "PC_NZ"),
          Line("PPC", "IMM", "STACK"),     Line("IMM", "IMM", "NONE")>>

\* The listing of main() names the parts of a word; aluName.at throws
\* std::out_of_range on an operation it does not know.
Disasm(op) ==
    LET alu == (op \div 2^4) % 2^5
    IN  IF op < FlagBit THEN [isConst |-> TRUE, imm |-> op]
        ELSE [isConst |-> FALSE,
              imm |-> SignExtend((op \div 2^9) % Pow2[ImmBits], ImmBits),
              alu |-> CHOOSE n \in DOMAIN OpAlu \cup {"out_of_range"} :
                        IF \E k \in DOMAIN OpAlu : OpAlu[k] = alu
                        THEN n # "out_of_range" /\ OpAlu[n] = alu
                        ELSE n = "out_of_range",
              mode |-> addrModeName[1 + (op % 2^4)]]
=============================================================================
