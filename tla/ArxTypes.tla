------------------------------- MODULE ArxTypes -------------------------------
(***************************************************************************)
(* The vocabulary of the arx_core processor: words, registers, the decoded  *)
(* instruction and the control word InsnDecodeStage derives from it.        *)
(*                                                                          *)
(* An instruction is a record of its fields (InsnDecoder.sv slices them out *)
(* of 32 bits).  "funct" stands for {funct_3, funct_7}.  Instructions are   *)
(* one word long here: "+ 1" is the code's "+ 4".                           *)
(***************************************************************************)
EXTENDS Integers

CONSTANTS
  WordSize,   \* 2^XLEN: words are 0 .. WordSize - 1
  NumRegs,    \* 32 in the code
  DivTicks    \* the busy cycles of IDIV, 33 in the code (IDIV.sv:115)

ASSUME SizesAssumption ==
  /\ WordSize \in Nat \ {0}
  /\ NumRegs \in Nat \ {0}
  /\ DivTicks \in Nat \ {0}

Word == 0 .. WordSize - 1
Reg  == 0 .. NumRegs - 1

Opcode == {"OP", "OP_IMM", "LOAD", "STORE", "BRANCH", "JAL", "JALR",
           "LUI", "AUIPC", "OTHER"}

IaluOp  == {"ADD", "SUB", "SLTU", "EQ", "NEQ", "LTU", "GEU"}
MduOp   == {"MUL", "DIVU", "REMU"}

\* the functs an opcode is encoded with
Functs(opcode) ==
  CASE opcode = "OP"     -> {"ADD", "SUB", "SLTU"} \cup MduOp
    [] opcode = "OP_IMM" -> {"ADD", "SLTU"}
    [] opcode = "BRANCH" -> {"EQ", "NEQ", "LTU", "GEU"}
    [] OTHER             -> {"ADD"}

Insn ==
  {i \in [opcode : Opcode, funct : IaluOp \cup MduOp,
          rd : Reg, rs1 : Reg, rs2 : Reg, imm : Word] : i.funct \in Functs(i.opcode)}

\* the all-zero word decodes to no operation
ZeroInsn ==
  [opcode |-> "OTHER", funct |-> "ADD", rd |-> 0, rs1 |-> 0, rs2 |-> 0, imm |-> 0]

Plus(a, b)  == (a + b) % WordSize
Minus(a, b) == (a - b) % WordSize

-------------------------------------------------------------------------------
(* The control word, InsnDecodeStage.sv:265-438: defaults first, then what   *)
(* the case on the opcode overrides.                                         *)

RegWrite(i) == i.opcode \in {"OP", "OP_IMM", "LOAD", "JAL", "JALR", "LUI", "AUIPC"}
MemToReg(i) == i.opcode = "LOAD"
MemOp(i)    == i.opcode \in {"LOAD", "STORE"}
MemWrite(i) == i.opcode = "STORE"
JumpEn(i)   == i.opcode \in {"JAL", "JALR"}
MduEn(i)    == i.opcode = "OP" /\ i.funct \in MduOp
AluEn(i)    == ~MduEn(i)

\* m_mdu_op != MUL sends the operation to IDIV (IMDU.sv:23-40)
DivOp(i)    == MduEn(i) /\ i.funct # "MUL"

AluOp(i)    == IF i.opcode \in {"OP", "OP_IMM", "BRANCH"} THEN i.funct ELSE "ADD"

\* BRANCH_REG_IMM takes the base from rs1, BRANCH_PC_IMM from the pc
BranchBase(i, p, x1) == IF i.opcode = "JALR" THEN x1 ELSE p

Src1(i, p, x1) ==
  CASE i.opcode \in {"JAL", "JALR", "AUIPC"} -> p
    [] i.opcode = "LUI"                      -> 0
    [] OTHER                                 -> x1

Src2(i, x2) ==
  CASE i.opcode \in {"JAL", "JALR"} -> 1 % WordSize
    [] i.opcode \in {"OP_IMM", "LOAD", "STORE", "LUI", "AUIPC"} -> i.imm
    [] OTHER -> x2

-------------------------------------------------------------------------------
(* What the execution units compute.                                         *)

IaluRes(op, a, b) ==
  CASE op = "ADD"  -> Plus(a, b)
    [] op = "SUB"  -> Minus(a, b)
    [] op = "SLTU" -> IF a < b THEN 1 % WordSize ELSE 0
    [] OTHER       -> b

IaluBranchEn(op, a, b) ==
  \/ op = "EQ"  /\ a = b
  \/ op = "NEQ" /\ a # b
  \/ op = "LTU" /\ a < b
  \/ op = "GEU" /\ ~(a < b)

ImduRes(op, a, b) ==
  CASE op = "MUL"  -> (a * b) % WordSize
    [] op = "DIVU" -> IF b = 0 THEN WordSize - 1 ELSE a \div b
    [] OTHER       -> IF b = 0 THEN a ELSE a % b

===============================================================================
