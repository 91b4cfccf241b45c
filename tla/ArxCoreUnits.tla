------------------------------ MODULE ArxCoreUnits ------------------------------
(***************************************************************************)
(* The processor with its real units: ArxCore's stages around IALU and IMDU, *)
(* register by register, where ExecStage has units that know their result as *)
(* soon as the operands enter.  The stage offers a unit an operation when it *)
(* takes an instruction from the decoder, and takes the result when the      *)
(* memory stage takes the instruction; the units decide everything else.     *)
(***************************************************************************)
EXTENDS Integers

CONSTANTS
  XLEN, Pow2,                               \* as in IMDU: words are below 2^XLEN
  WordAnd(_, _), WordOr(_, _), WordXor(_, _),   \* as in IALU
  NumRegs,
  Programs, DebugAccesses, MaxWait, MayHalt, MayReset    \* as in ArxCore

VARIABLES
  cur_state, pc, insn_buf, pc_we_buf, pc_in_buf,         \* the fetch stage
  m_valid, m_pc, m_insn, m_used_reg, regs,               \* the decode stage
  ex_insn, ex_pc, ex_rs1, ex_rs2,                        \* the execution stage
  alu_valid, ialu_res, branch_en, alu_job,               \* IALU
  mul_valid, mul_res,                                    \* IMUL
  cnt, dividend_wide, divisor_wide, quotient,
  sign_res_reg, is_res_quotient_reg,
  div_valid, div_res, mdu_job,                           \* IDIV
  mem_valid, mem_insn, mem_alu, mem_rs2,
  mem_request, mem_data_valid, mem_data,                 \* the memory stage
  wb_valid, wb_insn, wb_res,                             \* the write-back stage
  halt_req_in, halted,
  rom, rom_ack, rom_data, rom_wait,
  ram, ram_ack, ram_data, ram_wait, ram_owner

Word == 0 .. Pow2[XLEN] - 1

ASSUME SizesAssumption ==
  /\ XLEN \in Nat \ {0} /\ NumRegs \in Nat \ {0}
  /\ Pow2 \in [0 .. 2 * XLEN -> Nat \ {0}]
  /\ Pow2[0] = 1 /\ Pow2[1] = 2
  /\ \A m, n \in 0 .. XLEN : Pow2[m + n] = Pow2[m] * Pow2[n]

ASSUME GatesAssumption ==
  \A a, b \in Word :
    /\ WordAnd(a, b) \in Word /\ WordOr(a, b) \in Word /\ WordXor(a, b) \in Word
    /\ WordXor(a, b) = 0 <=> a = b

\* The theorems of the units and of the processor are used, so it is the modules
\* of their proofs that are instantiated.
Alu == INSTANCE IALUProofs WITH
  Operand <- Word, valid_out <- alu_valid, res <- ialu_res, job <- alu_job

Mdu == INSTANCE IMDUProofs WITH
  Operand <- Word, job <- mdu_job

\* the wires and the other stages, over the registers of the units
Pipe == INSTANCE ArxCore WITH
  WordSize <- Pow2[XLEN], DivTicks <- XLEN + 1, div_cnt <- cnt

ASSUME CoreAssumption ==
  /\ Programs \subseteq [Word -> Pipe!Insn]
  /\ DebugAccesses \subseteq [req : BOOLEAN, we : BOOLEAN, addr : Word, data : Word]
  /\ MaxWait \in Nat
  /\ MayHalt \in BOOLEAN /\ MayReset \in BOOLEAN

-------------------------------------------------------------------------------
(* The execution stage                                                       *)

m_in_handshake == Pipe!id_valid_out /\ Pipe!ex_ready_in
out            == Pipe!mem_ready_in /\ ~halt_req_in

alu_arg_1 == Pipe!Src1(m_insn, m_pc, regs[m_insn.rs1])
alu_arg_2 == Pipe!Src2(m_insn, regs[m_insn.rs2])

aluVars == <<alu_valid, ialu_res, branch_en, alu_job>>

AluTick ==
  IF m_in_handshake /\ Pipe!AluEn(m_insn)
  THEN Alu!Enter(Pipe!AluOp(m_insn), alu_arg_1, alu_arg_2, out)
  ELSE IF alu_valid /\ out THEN Alu!Leave ELSE UNCHANGED aluVars

MduTick ==
  IF m_in_handshake /\ Pipe!MduEn(m_insn)
  THEN Mdu!Enter(m_insn.funct, alu_arg_1, alu_arg_2, out)
  ELSE Mdu!Pass(out)

stageVars == <<ex_insn, ex_pc, ex_rs1, ex_rs2>>

StageTick ==
  IF m_in_handshake
  THEN /\ ex_insn' = m_insn /\ ex_pc' = m_pc
       /\ ex_rs1' = regs[m_insn.rs1] /\ ex_rs2' = regs[m_insn.rs2]
  ELSE UNCHANGED stageVars

-------------------------------------------------------------------------------
(* A clock edge                                                              *)

Tick(halt_req, resume_req, dbg) ==
  /\ Pipe!AroundExec(halt_req, resume_req, dbg)
  /\ AluTick /\ MduTick /\ StageTick

RunTick == \E halt_req \in {FALSE, MayHalt}, resume_req \in BOOLEAN, dbg \in Pipe!DebugInputs :
             Tick(halt_req, resume_req, dbg)

\* the registers of the stage itself are not reset
ResetTick ==
  /\ Pipe!AroundExecReset
  /\ Alu!Reset /\ Mdu!Reset
  /\ UNCHANGED stageVars

Next == RunTick \/ ResetTick

Init == Pipe!Init /\ Alu!Init /\ Mdu!Init

vars == <<Pipe!vars, aluVars, Mdu!vars>>

Spec == Init /\ [][Next]_vars

-------------------------------------------------------------------------------
(* What ExecStage has in place of the units.                                 *)

Core == INSTANCE ArxCoreProofs WITH
  WordSize <- Pow2[XLEN], DivTicks <- XLEN + 1, div_cnt <- cnt, div_res <- Mdu!kept_res

\* The processor with its real units does what ArxCore does, cycle by cycle: the
\* units refuse, hold and offer as ExecStage assumes, whatever instruction follows
\* whichever, and through halts and resets in the middle of a division.
ImplementsCore == Core!Spec

\* From the program down to the subtracter and the shift registers: the processor
\* with its real units implements the instruction set.
ImplementsIsa == Core!ImplementsIsa

===============================================================================
