------------------------------- MODULE RiscvIsa -------------------------------
(***************************************************************************)
(* What a processor promises its program: one instruction at a time, in     *)
(* program order, each reading the registers and the memory its predecessor *)
(* left.  Written from the instruction set, not from the decoder's tables.  *)
(* ArxCore is shown to implement it.                                        *)
(*                                                                          *)
(* A debugger may change the data memory, but only while the processor is   *)
(* halted, and a reset may come at any time; it clears the pc and the       *)
(* registers and can lose the store that was on its way to the memory.      *)
(***************************************************************************)
EXTENDS ArxTypes

VARIABLES
  irom,     \* the program
  ipc,      \* the address of the next instruction
  iregs,
  imem,
  ihalted

ivars == <<irom, ipc, iregs, imem, ihalted>>

I  == irom[ipc]
X1 == iregs[I.rs1]
X2 == iregs[I.rs2]

Address == Plus(X1, I.imm)

Taken ==
  CASE I.funct = "EQ"  -> X1 = X2
    [] I.funct = "NEQ" -> X1 # X2
    [] I.funct = "LTU" -> X1 < X2
    [] I.funct = "GEU" -> X1 >= X2
    [] OTHER           -> FALSE

Arith(a, b) ==
  CASE I.funct = "ADD"  -> Plus(a, b)
    [] I.funct = "SUB"  -> Minus(a, b)
    [] I.funct = "SLTU" -> IF a < b THEN 1 % WordSize ELSE 0
    [] I.funct = "MUL"  -> (a * b) % WordSize
    [] I.funct = "DIVU" -> IF b = 0 THEN WordSize - 1 ELSE a \div b
    [] I.funct = "REMU" -> IF b = 0 THEN a ELSE a % b
    [] OTHER            -> b

\* register 0 reads as zero and ignores what is written to it
Write(v) ==
  iregs' = IF I.rd = 0 THEN iregs ELSE [iregs EXCEPT ![I.rd] = v]

Advance == ipc' = Plus(ipc, 1)

Compute ==
  /\ \/ I.opcode = "OP"     /\ Write(Arith(X1, X2))
     \/ I.opcode = "OP_IMM" /\ Write(Arith(X1, I.imm))
     \/ I.opcode = "LUI"    /\ Write(I.imm)
     \/ I.opcode = "AUIPC"  /\ Write(Plus(ipc, I.imm))
     \/ I.opcode = "OTHER"  /\ UNCHANGED iregs
  /\ Advance
  /\ UNCHANGED imem

Load ==
  /\ I.opcode = "LOAD"
  /\ Write(imem[Address])
  /\ Advance
  /\ UNCHANGED imem

Store ==
  /\ I.opcode = "STORE"
  /\ imem' = [imem EXCEPT ![Address] = X2]
  /\ Advance
  /\ UNCHANGED iregs

Branch ==
  /\ I.opcode = "BRANCH"
  /\ IF Taken THEN ipc' = Plus(ipc, I.imm) ELSE Advance
  /\ UNCHANGED <<iregs, imem>>

Jump ==
  /\ \/ I.opcode = "JAL"  /\ ipc' = Plus(ipc, I.imm)
     \/ I.opcode = "JALR" /\ ipc' = Plus(X1, I.imm)
  /\ Write(Plus(ipc, 1))
  /\ UNCHANGED imem

Execute == ~ihalted /\ (Compute \/ Load \/ Store \/ Branch \/ Jump)

DebugWrite ==
  /\ ihalted
  /\ \E a, v \in Word : imem' = [imem EXCEPT ![a] = v]
  /\ UNCHANGED <<ipc, iregs>>

Reset ==
  /\ ipc' = 0
  /\ iregs' = [r \in Reg |-> 0]
  /\ \/ UNCHANGED imem
     \/ \E a, v \in Word : imem' = [imem EXCEPT ![a] = v]

Idle == UNCHANGED <<ipc, iregs, imem>>   \* halting and resuming

Init ==
  /\ irom \in [Word -> Insn]
  /\ ipc = 0
  /\ iregs = [r \in Reg |-> 0]
  /\ imem \in [Word -> Word]
  /\ ihalted = FALSE

Next ==
  /\ Execute \/ DebugWrite \/ Reset \/ Idle
  /\ ihalted' \in BOOLEAN
  /\ UNCHANGED irom

Spec == Init /\ [][Next]_ivars

===============================================================================
