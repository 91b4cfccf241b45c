------------------------------- MODULE MCArxCore -------------------------------
(***************************************************************************)
(* ArxCore for TLC: what a debugger may ask for, and the programs: eight     *)
(* words over eight values and three registers, and the small ones over four *)
(* values and two registers.                                                 *)
(***************************************************************************)
EXTENDS ArxCore, Sequences

\* the debugger reads; what it writes is the concern of DebugSystem
Reader == {NoAccess, [req |-> TRUE, we |-> FALSE, addr |-> 2, data |-> 0]}

NoDebugger == {NoAccess}

Mk(op, f, d, s1, s2, k) ==
  [opcode |-> op, funct |-> f, rd |-> d, rs1 |-> s1, rs2 |-> s2, imm |-> k]

Alu(f, d, s1, s2) == Mk("OP", f, d, s1, s2, 0)
Addi(d, s, k)     == Mk("OP_IMM", "ADD", d, s, 0, k)
Lw(d, s, k)       == Mk("LOAD", "ADD", d, s, 0, k)
Sw(s2, s1, k)     == Mk("STORE", "ADD", 0, s1, s2, k)
Br(f, s1, s2, k)  == Mk("BRANCH", f, 0, s1, s2, k)
Jal(d, k)         == Mk("JAL", "ADD", d, 0, 0, k)
Jalr(d, s, k)     == Mk("JALR", "ADD", d, s, 0, k)
Lui(d, k)         == Mk("LUI", "ADD", d, 0, 0, k)
Auipc(d, k)       == Mk("AUIPC", "ADD", d, 0, 0, k)
Nop               == ZeroInsn

Program(s) == [a \in Word |-> IF a < Len(s) THEN s[a + 1] ELSE Jal(0, 0)]

\* dependent arithmetic, several writes of one register in flight, writes of x0
Chain == <<Addi(1, 0, 1), Addi(2, 0, 2), Addi(1, 0, 3), Addi(0, 2, 1),
           Lui(1, 5), Alu("SUB", 1, 1, 2), Alu("ADD", 2, 1, 0), Jal(0, 1)>>

\* stores and loads of one address back to back, a load feeding a store's address
Memory == <<Addi(1, 0, 3), Sw(1, 0, 2), Lw(2, 0, 2), Sw(2, 2, 1),
            Lw(1, 2, 1), Addi(1, 1, 1), Sw(1, 0, 2), Jal(0, 2)>>

\* taken and untaken branches, a branch in a branch's shadow, a call and a return
Jumps == <<Addi(1, 0, 2), Br("NEQ", 1, 0, 2), Jal(0, 2), Jal(2, 2),
           Br("EQ", 0, 0, 3), Addi(1, 1, 7), Jalr(0, 2, 0), Br("LTU", 0, 1, 2)>>

\* multiplications and divisions, fast instructions and a jump right behind them
Units == <<Addi(1, 0, 5), Alu("MUL", 2, 1, 1), Alu("DIVU", 2, 1, 2), Addi(1, 0, 1),
           Alu("REMU", 2, 2, 0), Jal(1, 2), Alu("DIVU", 1, 2, 0), Br("GEU", 2, 1, 2)>>

FourPrograms == {Program(p) : p \in {Chain, Memory, Jumps, Units}}

ThreePrograms == {Program(p) : p \in {Chain, Memory, Units}}

(* Every program of three words out of ten instructions, four words in all;  *)
(* the fourth jumps back.                                                    *)
SmallInsns == {Addi(1, 0, 1), Addi(1, 1, 3), Addi(0, 1, 1), Alu("MUL", 1, 1, 1), Alu("DIVU", 1, 0, 1),
               Lw(1, 1, 0), Sw(1, 0, 0), Br("NEQ", 1, 0, 2), Jal(1, 2), Jalr(1, 1, 1)}

AllSmallPrograms == {Program(p) : p \in {<<a, b, c, Jal(0, 1)>> : a, b, c \in SmallInsns}}

===============================================================================
