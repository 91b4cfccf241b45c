--------------------------- MODULE ArxCoreUnitsProofs ---------------------------
(***************************************************************************)
(* The processor with its real units implements ArxCore and, with the        *)
(* theorem of ArxCoreProofs, the instruction set: for every width, number of *)
(* registers, program, debugger and memory delay.                            *)
(*                                                                          *)
(* Only div_res is mapped: ExecStage's is the result of the division from    *)
(* the cycle the operands enter, IDIV's that of the division before until    *)
(* the last iteration.  So there are two things to show: that everything     *)
(* around the units reads div_res only when the two agree, and that a step   *)
(* of each unit is the step ExecStage has for it.  The second is the theorem *)
(* of the unit, under the conditions the stage offers it operations in;      *)
(* Inv carries the inductive invariants that theorem rests on.               *)
(***************************************************************************)
EXTENDS ArxCoreUnits, TLAPS

-------------------------------------------------------------------------------
(* The instances: their constants satisfy what their theorems assume.        *)

\* What IMDU assumes of its width, its powers of two and its operands.
LEMMA MduAssumptions == Mdu!WidthAssumption /\ Mdu!PowAssumption /\ Mdu!OperandAssumption
BY SizesAssumption DEF Mdu!Word, Word, Mdu!WidthAssumption, Mdu!PowAssumption,
                       Mdu!OperandAssumption

\* What IALU assumes, of the gates too.
LEMMA AluAssumptions ==
  /\ Alu!WidthAssumption /\ Alu!PowAssumption
  /\ Alu!OperandAssumption /\ Alu!GatesAssumption
<1>1. Alu!WidthAssumption /\ Alu!PowAssumption
  <2>1. XLEN \in Nat \ {0} /\ \A n \in 0 .. XLEN : n \in 0 .. 2 * XLEN
    BY SizesAssumption
  <2>2. \A n \in 0 .. XLEN : Pow2[n] \in Nat \ {0}
    BY SizesAssumption, <2>1
  <2>. QED  BY <2>1, <2>2, SizesAssumption DEF Alu!WidthAssumption, Alu!PowAssumption
<1>2. Alu!OperandAssumption /\ Alu!GatesAssumption
  BY GatesAssumption DEF Alu!Word, Word, Alu!OperandAssumption, Alu!GatesAssumption
<1>. QED  BY <1>1, <1>2

\* What ArxCore assumes of its sizes, its programs and its debugger.
LEMMA ProcessorAssumptions == Core!SizesAssumption /\ Core!CoreAssumption
<1>1. Core!SizesAssumption
  <2>1. XLEN \in 0 .. 2 * XLEN /\ XLEN + 1 \in Nat \ {0}
    BY SizesAssumption
  <2>2. Pow2[XLEN] \in Nat \ {0}
    BY SizesAssumption, <2>1
  <2>. QED  BY <2>1, <2>2, SizesAssumption DEF Core!SizesAssumption
<1>2. Core!CoreAssumption
  BY CoreAssumption DEF Core!Word, Word, Core!CoreAssumption, Pipe!Insn, Core!Insn,
                        Pipe!Word, Core!Reg, Pipe!Reg, Core!Opcode, Pipe!Opcode,
                        Core!IaluOp, Pipe!IaluOp, Core!MduOp, Pipe!MduOp, Core!Functs,
                        Pipe!Functs
<1>. QED  BY <1>1, <1>2

-------------------------------------------------------------------------------
(* Around the execution stage.                                               *)

\* While a division runs div_valid is low, so the result mux (ExecStage.sv:200-206)
\* never shows the register in which the two processors differ.
LEMMA AluOutSame ==
  ASSUME Mdu!IInv
  PROVE  Core!AluOut = Pipe!AluOut
<1>1. Mdu!busy => ~div_valid
  BY Mdu!Places, MduAssumptions DEF Mdu!IInv, Mdu!Quiet
<1>. QED  BY <1>1 DEF Core!AluOut, Pipe!AluOut, Mdu!kept_res, Core!AluEn, Pipe!AluEn,
                      Core!MduEn, Pipe!MduEn, Core!MduOp, Pipe!MduOp

\* No other wire between the stages depends on div_res.
LEMMA WiresSame ==
  /\ Core!AluEn(ex_insn) = Pipe!AluEn(ex_insn)
  /\ Core!MduEn(ex_insn) = Pipe!MduEn(ex_insn)
  /\ Core!MemValidOut(halt_req_in) = Pipe!MemValidOut(halt_req_in)
  /\ Core!MemResult = Pipe!MemResult
  /\ Core!WbRegWrite = Pipe!WbRegWrite
  /\ Core!WbRd = Pipe!WbRd
  /\ Core!m_is_halted = Pipe!m_is_halted
  /\ Core!PcBranchOut = Pipe!PcBranchOut
  /\ Core!FetchInsnOut(rom_data) = Pipe!FetchInsnOut(rom_data)
  /\ Core!mem_ready_in = Pipe!mem_ready_in
  /\ Core!ex_valid_out = Pipe!ex_valid_out
  /\ Core!ex_ready_in = Pipe!ex_ready_in
  /\ Core!ex_pc_we_out = Pipe!ex_pc_we_out
  /\ Core!id_valid_out = Pipe!id_valid_out
  /\ Core!id_ready_in = Pipe!id_ready_in
  /\ Core!fs_valid_out = Pipe!fs_valid_out
  /\ Core!mem_ack_in = Pipe!mem_ack_in
  /\ Core!rom_req = Pipe!rom_req
  /\ Core!rom_addr = Pipe!rom_addr
<1>1. Core!AluEn(ex_insn) = Pipe!AluEn(ex_insn)
  BY DEF Core!AluEn, Pipe!AluEn, Core!MduEn, Pipe!MduEn, Core!MduOp, Pipe!MduOp
<1>2. Core!MduEn(ex_insn) = Pipe!MduEn(ex_insn)
  BY DEF Core!MduEn, Pipe!MduEn, Core!MduOp, Pipe!MduOp
<1>3. Core!MemValidOut(halt_req_in) = Pipe!MemValidOut(halt_req_in)
  BY DEF Core!MemValidOut, Pipe!MemValidOut
<1>4. Core!MemResult = Pipe!MemResult
  BY DEF Core!MemResult, Pipe!MemResult, Core!MemToReg, Pipe!MemToReg
<1>5. Core!WbRegWrite = Pipe!WbRegWrite
  BY DEF Core!WbRegWrite, Pipe!WbRegWrite, Core!RegWrite, Pipe!RegWrite
<1>6. Core!WbRd = Pipe!WbRd
  BY DEF Core!WbRd, Pipe!WbRd
<1>7. Core!m_is_halted = Pipe!m_is_halted
  BY DEF Core!m_is_halted, Pipe!m_is_halted, Core!FetchHaltAck, Pipe!FetchHaltAck,
         Core!MemHaltAck, Pipe!MemHaltAck
<1>8. Core!PcBranchOut = Pipe!PcBranchOut
  BY DEF Core!PcBranchOut, Pipe!PcBranchOut, Core!Plus, Pipe!Plus, Core!BranchBase,
         Pipe!BranchBase
<1>9. Core!FetchInsnOut(rom_data) = Pipe!FetchInsnOut(rom_data)
  BY DEF Core!FetchInsnOut, Pipe!FetchInsnOut
<1>10. Core!mem_ready_in = Pipe!mem_ready_in
  BY <1>3 DEF Core!mem_ready_in, Pipe!mem_ready_in, Core!MemReadyIn, Pipe!MemReadyIn
<1>11. Core!ex_valid_out = Pipe!ex_valid_out
  BY <1>1, <1>2 DEF Core!ex_valid_out, Pipe!ex_valid_out, Core!ExecValidOut,
                    Pipe!ExecValidOut
<1>12. Core!ex_ready_in = Pipe!ex_ready_in
  BY <1>10 DEF Core!ex_ready_in, Pipe!ex_ready_in, Core!ExecReadyIn, Pipe!ExecReadyIn,
               Core!AluReadyIn, Pipe!AluReadyIn, Core!MulReadyIn, Pipe!MulReadyIn,
               Core!DivReadyIn, Pipe!DivReadyIn
<1>13. Core!ex_pc_we_out = Pipe!ex_pc_we_out
  BY <1>1, <1>10, <1>11 DEF Core!ex_pc_we_out, Pipe!ex_pc_we_out, Core!PcWeOut,
                            Pipe!PcWeOut, Core!JumpEn, Pipe!JumpEn, Core!ex_valid_out,
                            Pipe!ex_valid_out
<1>14. Core!id_valid_out = Pipe!id_valid_out
  BY <1>13 DEF Core!id_valid_out, Pipe!id_valid_out, Core!DecodeValidOut,
               Pipe!DecodeValidOut
<1>15. Core!id_ready_in = Pipe!id_ready_in
  BY <1>12, <1>13, <1>14 DEF Core!id_ready_in, Pipe!id_ready_in, Core!DecodeReadyIn,
                             Pipe!DecodeReadyIn, Core!id_valid_out, Pipe!id_valid_out
<1>16. Core!fs_valid_out = Pipe!fs_valid_out
  BY <1>13, <1>15 DEF Core!fs_valid_out, Pipe!fs_valid_out, Core!FetchValidOut,
                      Pipe!FetchValidOut, Core!PcWeAck, Pipe!PcWeAck, Core!PcUpd,
                      Pipe!PcUpd, Core!PcWeInternal, Pipe!PcWeInternal
<1>17. Core!mem_ack_in = Pipe!mem_ack_in
  BY <1>7 DEF Core!mem_ack_in, Pipe!mem_ack_in
<1>18. Core!rom_req = Pipe!rom_req
  BY <1>13, <1>15 DEF Core!rom_req, Pipe!rom_req, Core!RomReq, Pipe!RomReq, Core!PcUpd,
                      Pipe!PcUpd, Core!PcWeInternal, Pipe!PcWeInternal
<1>19. Core!rom_addr = Pipe!rom_addr
  BY <1>8, <1>13, <1>15 DEF Core!rom_addr, Pipe!rom_addr, Core!RomAddr, Pipe!RomAddr,
                            Core!PcUpd, Pipe!PcUpd, Core!PcNext, Pipe!PcNext,
                            Core!PcWeInternal, Pipe!PcWeInternal, Core!Plus, Pipe!Plus
<1>. QED  BY <1>1, <1>2, <1>3, <1>4, <1>5, <1>6, <1>7, <1>8, <1>9, <1>10, <1>11, <1>12,
             <1>13, <1>14, <1>15, <1>16, <1>17, <1>18, <1>19

\* The stages and the instruction memory move alike, whatever is on their ports.
LEMMA TicksSame ==
  ASSUME NEW a, NEW b, NEW c, NEW d, NEW e, NEW f, NEW g, NEW h, NEW i
  PROVE  /\ Core!FetchTick(a, b, c, d, e) <=> Pipe!FetchTick(a, b, c, d, e)
         /\ Core!DecodeTick(a, b, c, d, e, f, g, h, i) <=> Pipe!DecodeTick(a, b, c, d, e, f, g, h, i)
         /\ Core!MemTick(a, b, c, d, e, f, g) <=> Pipe!MemTick(a, b, c, d, e, f, g)
         /\ Core!WbTick(a, b, c) <=> Pipe!WbTick(a, b, c)
         /\ Core!RomTick(a, b) <=> Pipe!RomTick(a, b)
         /\ Core!HaltControl(a, b) <=> Pipe!HaltControl(a, b)
<1>1. Core!FetchTick(a, b, c, d, e) <=> Pipe!FetchTick(a, b, c, d, e)
  BY DEF Core!FetchTick, Pipe!FetchTick, Core!PcUpd, Pipe!PcUpd, Core!PcWeAck,
         Pipe!PcWeAck, Core!InsnBufWe, Pipe!InsnBufWe, Core!PcWeInternal,
         Pipe!PcWeInternal, Core!PcNext, Pipe!PcNext, Core!Plus, Pipe!Plus
<1>2. Core!DecodeTick(a, b, c, d, e, f, g, h, i) <=> Pipe!DecodeTick(a, b, c, d, e, f, g, h, i)
  <2>1. Core!StageRegister(a, b, c, d, e, f) <=> Pipe!StageRegister(a, b, c, d, e, f)
    BY DEF Core!StageRegister, Pipe!StageRegister, Core!DecodeReadyIn, Pipe!DecodeReadyIn,
           Core!DecodeValidOut, Pipe!DecodeValidOut, Core!Issue, Pipe!Issue
  <2>2. Core!Scoreboard(d, e, f, g, h) <=> Pipe!Scoreboard(d, e, f, g, h)
    BY DEF Core!Scoreboard, Pipe!Scoreboard, Core!Issue, Pipe!Issue, Core!DecodeValidOut,
           Pipe!DecodeValidOut, Core!RegWrite, Pipe!RegWrite, Core!Reg, Pipe!Reg
  <2>3. Core!RegisterFile(g, h, i) <=> Pipe!RegisterFile(g, h, i)
    BY DEF Core!RegisterFile, Pipe!RegisterFile
  <2>. QED  BY <2>1, <2>2, <2>3 DEF Core!DecodeTick, Pipe!DecodeTick
<1>3. Core!MemTick(a, b, c, d, e, f, g) <=> Pipe!MemTick(a, b, c, d, e, f, g)
  BY DEF Core!MemTick, Pipe!MemTick, Core!MemReadyIn, Pipe!MemReadyIn, Core!MemValidOut,
         Pipe!MemValidOut, Core!MemOp, Pipe!MemOp, Core!MemToReg, Pipe!MemToReg
<1>4. Core!WbTick(a, b, c) <=> Pipe!WbTick(a, b, c)
  BY DEF Core!WbTick, Pipe!WbTick
<1>5. Core!RomTick(a, b) <=> Pipe!RomTick(a, b)
  BY DEF Core!RomTick, Pipe!RomTick
<1>6. Core!HaltControl(a, b) <=> Pipe!HaltControl(a, b)
  BY WiresSame DEF Core!HaltControl, Pipe!HaltControl
<1>. QED  BY <1>1, <1>2, <1>3, <1>4, <1>5, <1>6

\* So does the data memory.
LEMMA RamTickSame ==
  ASSUME NEW port
  PROVE  Core!RamTick(port) <=> Pipe!RamTick(port)
BY WiresSame DEF Core!RamTick, Pipe!RamTick

\* The mux in front of the data memory (ArxCore.sv:518-543).
LEMMA RamPortSame ==
  ASSUME NEW dbg
  PROVE  Core!RamPort(dbg) = Pipe!RamPort(dbg)
BY WiresSame DEF Core!RamPort, Pipe!RamPort, Core!CpuReq, Pipe!CpuReq, Core!MemWrite,
                 Pipe!MemWrite

\* Around the execution stage a clock edge of one is a clock edge of the other.
LEMMA AroundSame ==
  ASSUME Mdu!IInv, NEW h, NEW r, NEW dbg, Pipe!AroundExec(h, r, dbg)
  PROVE  Core!AroundExec(h, r, dbg)
<1>1. Core!HaltControl(h, r)
  BY TicksSame DEF Pipe!AroundExec
<1>2. Core!FetchTick(rom_ack, rom_data, Core!ex_pc_we_out, Core!PcBranchOut, Core!id_ready_in)
  BY TicksSame, WiresSame DEF Pipe!AroundExec
<1>3. Core!DecodeTick(Core!fs_valid_out, pc, Core!FetchInsnOut(rom_data), Core!ex_ready_in,
                Core!ex_pc_we_out, halt_req_in, Core!WbRegWrite, Core!WbRd, wb_res)
  BY TicksSame, WiresSame DEF Pipe!AroundExec
<1>4. Core!MemTick(Core!ex_valid_out, ex_insn, Core!AluOut, ex_rs2, Core!mem_ack_in, ram_data,
                   halt_req_in)
  BY TicksSame, WiresSame, AluOutSame DEF Pipe!AroundExec
<1>5. Core!WbTick(Core!MemValidOut(halt_req_in), mem_insn, Core!MemResult)
  BY TicksSame, WiresSame DEF Pipe!AroundExec
<1>6. Core!RomTick(Core!rom_req, Core!rom_addr)
  BY TicksSame, WiresSame DEF Pipe!AroundExec
<1>7. Core!RamTick(Core!RamPort(dbg))
  BY RamTickSame, RamPortSame DEF Pipe!AroundExec
<1>. QED  BY <1>1, <1>2, <1>3, <1>4, <1>5, <1>6, <1>7 DEF Pipe!AroundExec, Core!AroundExec

\* And so is a reset.
LEMMA AroundResetSame ==
  ASSUME Pipe!AroundExecReset
  PROVE  Core!AroundExecReset
<1>1. Core!RomTick(FALSE, pc)
  BY TicksSame DEF Pipe!AroundExecReset
<1>2. Core!RamTick(Core!NoAccess)
  <2>1. Core!NoAccess = Pipe!NoAccess
    BY DEF Core!NoAccess, Pipe!NoAccess
  <2>. QED  BY <2>1, RamTickSame DEF Pipe!AroundExecReset
<1>. QED
  BY <1>1, <1>2 DEF Core!AroundExecReset, Pipe!AroundExecReset, Core!FetchReset,
                    Pipe!FetchReset, Core!DecodeReset, Pipe!DecodeReset, Core!MemReset,
                    Pipe!MemReset, Core!WbReset, Pipe!WbReset, Core!ZeroInsn,
                    Pipe!ZeroInsn, Core!Reg, Pipe!Reg

-------------------------------------------------------------------------------
(* The units in the stage.                                                   *)

\* What the stage offers its units are words, in the cycles in which ExecStage
\* takes an instruction.
LEMMA Offers ==
  ASSUME Core!TypeOK
  PROVE  /\ alu_arg_1 \in Word /\ alu_arg_2 \in Word
         /\ m_insn \in Core!Insn
         /\ out \in BOOLEAN /\ m_in_handshake \in BOOLEAN
         /\ m_in_handshake = (Core!id_valid_out /\ Core!ex_ready_in)
         /\ out = (Core!mem_ready_in /\ ~halt_req_in)
         /\ alu_arg_1 = Core!Src1(m_insn, m_pc, regs[m_insn.rs1])
         /\ alu_arg_2 = Core!Src2(m_insn, regs[m_insn.rs2])
<1>1. /\ m_insn \in Core!Insn /\ m_pc \in Core!Word
      /\ regs[m_insn.rs1] \in Core!Word /\ regs[m_insn.rs2] \in Core!Word
  <2>1. m_insn \in Core!Insn /\ m_pc \in Core!Word
    BY DEF Core!TypeOK, Core!DecodeTypeOK
  <2>2. regs[m_insn.rs1] \in Core!Word /\ regs[m_insn.rs2] \in Core!Word
    BY Core!WiresTyped, ProcessorAssumptions
  <2>. QED  BY <2>1, <2>2
<1>2. /\ alu_arg_1 = Core!Src1(m_insn, m_pc, regs[m_insn.rs1])
      /\ alu_arg_2 = Core!Src2(m_insn, regs[m_insn.rs2])
  BY DEF alu_arg_1, alu_arg_2, Core!Src1, Pipe!Src1, Core!Src2, Pipe!Src2
<1>3. /\ Core!Src1(m_insn, m_pc, regs[m_insn.rs1]) \in Core!Word
      /\ Core!Src2(m_insn, regs[m_insn.rs2]) \in Core!Word
  BY <1>1, Core!OperandsAreWords, ProcessorAssumptions
<1>4. Core!Word = Word
  BY DEF Core!Word, Word
<1>5. /\ m_in_handshake = (Core!id_valid_out /\ Core!ex_ready_in)
      /\ out = (Core!mem_ready_in /\ ~halt_req_in)
  BY WiresSame DEF m_in_handshake, out
<1>6. out \in BOOLEAN /\ m_in_handshake \in BOOLEAN
  BY DEF out, m_in_handshake
<1>. QED  BY <1>1, <1>2, <1>3, <1>4, <1>5, <1>6

\* The results ExecStage has for the multiplications and divisions it knows are
\* those of the M extension.
LEMMA ImduIsRight ==
  ASSUME NEW op \in Core!MduOp, NEW a \in Word, NEW b \in Word
  PROVE  /\ Core!ImduRes(op, a, b) = Mdu!Expected(op, a, b)
         /\ op \in Mdu!Op /\ op # "DIV"
         /\ op \in Mdu!MulOp <=> op = "MUL"
         /\ op \in Mdu!DivOp <=> op # "MUL"
<1>1. op \in {"MUL", "DIVU", "REMU"}
  BY DEF Core!MduOp
<1>2. Mdu!Wrap(-1) = Pow2[XLEN] - 1
  <2>1. a \in Mdu!Word
    BY DEF Mdu!Word, Word
  <2>. QED  BY <2>1, Mdu!NegWraps, MduAssumptions
<1>3. Core!ImduRes(op, a, b) = Mdu!Expected(op, a, b)
  BY <1>1, <1>2 DEF Core!ImduRes, Mdu!Expected, Mdu!Wrap
<1>. QED  BY <1>1, <1>3 DEF Mdu!Op, Mdu!MulOp, Mdu!DivOp

\* The results and branches ExecStage has for IALU's operations are those of its
\* datapath, of its one subtracter.
LEMMA IaluIsRight ==
  ASSUME NEW op \in Core!IaluOp, NEW a \in Word, NEW b \in Word
  PROVE  /\ Core!IaluRes(op, a, b) = Alu!m_res(op, a, b)
         /\ Core!IaluBranchEn(op, a, b) = Alu!m_branch_en(op, a, b)
         /\ op \in Alu!Op
<1>1. op \in {"ADD", "SUB", "SLTU", "EQ", "NEQ", "LTU", "GEU"} /\ op \in Alu!Op
  BY DEF Core!IaluOp, Alu!Op
<1>2. a \in Alu!Word /\ b \in Alu!Word
  BY DEF Alu!Word, Word
<1>3. 1 % Pow2[XLEN] = 1
  <2>1. Pow2[XLEN] \in Nat \ {0} /\ 1 \in 0 .. Pow2[XLEN] - 1
    BY Alu!WordSize, AluAssumptions
  <2>. QED  BY <2>1
<1>4. /\ Alu!m_res(op, a, b) = Alu!Expected(op, a, b)
      /\ Alu!m_branch_en(op, a, b) <=> Alu!Taken(op, a, b)
  BY <1>1, <1>2, Alu!DatapathRight, AluAssumptions
<1>5. Core!IaluRes(op, a, b) = Alu!Expected(op, a, b)
  BY <1>1, <1>3 DEF Core!IaluRes, Core!Plus, Core!Minus, Alu!Expected, Alu!Wrap, Alu!Less
<1>6. Core!IaluBranchEn(op, a, b) <=> Alu!Taken(op, a, b)
  BY <1>1 DEF Core!IaluBranchEn, Alu!Taken, Alu!Less
<1>7. Core!IaluBranchEn(op, a, b) \in BOOLEAN /\ Alu!m_branch_en(op, a, b) \in BOOLEAN
  BY DEF Core!IaluBranchEn, Alu!m_branch_en
<1>8. Core!IaluBranchEn(op, a, b) = Alu!m_branch_en(op, a, b)
  BY <1>4, <1>6, <1>7
<1>. QED  BY <1>1, <1>4, <1>5, <1>8

\* An instruction goes to IALU or IMDU, with an operation of theirs
\* (InsnDecodeStage.sv:265-438).
LEMMA ChoiceSame ==
  ASSUME NEW i \in Core!Insn
  PROVE  /\ Pipe!AluEn(i) = Core!AluEn(i) /\ Pipe!MduEn(i) = Core!MduEn(i)
         /\ Pipe!AluOp(i) = Core!AluOp(i)
         /\ Core!MduEn(i) = ~Core!AluEn(i)
         /\ Core!AluEn(i) => Core!AluOp(i) \in Core!IaluOp
         /\ Core!MduEn(i) => i.funct \in Core!MduOp
         /\ Core!DivOp(i) = (Core!MduEn(i) /\ i.funct # "MUL")
<1>1. /\ Pipe!AluEn(i) = Core!AluEn(i) /\ Pipe!MduEn(i) = Core!MduEn(i)
      /\ Pipe!AluOp(i) = Core!AluOp(i)
  BY DEF Core!AluEn, Pipe!AluEn, Core!MduEn, Pipe!MduEn, Core!MduOp, Pipe!MduOp,
         Core!AluOp, Pipe!AluOp
<1>2. /\ Core!MduEn(i) = ~Core!AluEn(i)
      /\ Core!MduEn(i) => i.funct \in Core!MduOp
      /\ Core!DivOp(i) = (Core!MduEn(i) /\ i.funct # "MUL")
  BY DEF Core!MduEn, Core!AluEn, Core!DivOp
<1>3. ASSUME Core!AluEn(i) PROVE Core!AluOp(i) \in Core!IaluOp
  <2>1. i.funct \in Core!Functs(i.opcode)
    BY DEF Core!Insn
  <2>2. CASE i.opcode = "OP"
    BY <1>3, <2>1, <2>2 DEF Core!AluEn, Core!MduEn, Core!AluOp, Core!Functs, Core!IaluOp
  <2>3. CASE i.opcode = "OP_IMM"
    BY <2>1, <2>3 DEF Core!AluOp, Core!Functs, Core!IaluOp
  <2>4. CASE i.opcode = "BRANCH"
    BY <2>1, <2>4 DEF Core!AluOp, Core!Functs, Core!IaluOp
  <2>5. CASE i.opcode \notin {"OP", "OP_IMM", "BRANCH"}
    BY <2>5 DEF Core!AluOp, Core!IaluOp
  <2>. QED  BY <2>2, <2>3, <2>4, <2>5
<1>. QED  BY <1>1, <1>2, <1>3

\* A clock edge of IALU in the stage is one of ExecStage's.
LEMMA AluStep ==
  ASSUME Core!TypeOK, Alu!IInv, AluTick
  PROVE  /\ Core!IaluTick(m_in_handshake /\ Core!AluEn(m_insn), Core!AluOp(m_insn),
                          alu_arg_1, alu_arg_2, out)
         /\ Alu!IInv'
<1>1. m_insn \in Core!Insn /\ alu_arg_1 \in Word /\ alu_arg_2 \in Word /\ out \in BOOLEAN
  BY Offers
<1>2. /\ Pipe!AluEn(m_insn) = Core!AluEn(m_insn) /\ Pipe!AluOp(m_insn) = Core!AluOp(m_insn)
      /\ Core!AluEn(m_insn) => Core!AluOp(m_insn) \in Core!IaluOp
  BY <1>1, ChoiceSame
<1>3. alu_valid \in BOOLEAN /\ branch_en \in BOOLEAN
  BY DEF Alu!IInv, Alu!TypeOK
<1>4. (Alu!IInv /\ [Alu!Next]_(Alu!vars)) => Alu!IInv'
  BY Alu!NextInv, AluAssumptions
<1>5. CASE m_in_handshake /\ Core!AluEn(m_insn)
  <2>1. /\ Core!AluOp(m_insn) \in Core!IaluOp
        /\ Alu!Enter(Core!AluOp(m_insn), alu_arg_1, alu_arg_2, out)
    BY <1>2, <1>5 DEF AluTick
  <2>2. /\ Core!IaluRes(Core!AluOp(m_insn), alu_arg_1, alu_arg_2)
             = Alu!m_res(Core!AluOp(m_insn), alu_arg_1, alu_arg_2)
        /\ Core!IaluBranchEn(Core!AluOp(m_insn), alu_arg_1, alu_arg_2)
             = Alu!m_branch_en(Core!AluOp(m_insn), alu_arg_1, alu_arg_2)
        /\ Core!AluOp(m_insn) \in Alu!Op
    BY <1>1, <2>1, IaluIsRight
  <2>3. Core!IaluTick(TRUE, Core!AluOp(m_insn), alu_arg_1, alu_arg_2, out)
    BY <2>1, <2>2 DEF Alu!Enter, Core!IaluTick
  <2>4. (m_in_handshake /\ Core!AluEn(m_insn)) = TRUE
    BY <1>5
  <2>5. Alu!Next
    BY <1>1, <2>1, <2>2 DEF Alu!Next
  <2>. QED  BY <1>4, <2>3, <2>4, <2>5
<1>6. CASE ~(m_in_handshake /\ Core!AluEn(m_insn)) /\ alu_valid /\ out
  <2>1. Alu!Leave
    BY <1>2, <1>6 DEF AluTick
  <2>2. Core!IaluTick(FALSE, Core!AluOp(m_insn), alu_arg_1, alu_arg_2, out)
    BY <1>6, <2>1 DEF Alu!Leave, Core!IaluTick
  <2>3. (m_in_handshake /\ Core!AluEn(m_insn)) = FALSE
    BY <1>6
  <2>. QED  BY <1>4, <2>1, <2>2, <2>3 DEF Alu!Next
<1>7. CASE ~(m_in_handshake /\ Core!AluEn(m_insn)) /\ ~(alu_valid /\ out)
  <2>1. UNCHANGED aluVars
    BY <1>2, <1>7 DEF AluTick
  <2>2. Core!IaluTick(FALSE, Core!AluOp(m_insn), alu_arg_1, alu_arg_2, out)
    BY <1>3, <1>7, <2>1 DEF aluVars, Core!IaluTick
  <2>3. (m_in_handshake /\ Core!AluEn(m_insn)) = FALSE
    BY <1>7
  <2>. QED  BY <1>4, <2>1, <2>2, <2>3 DEF aluVars, Alu!vars
<1>. QED  BY <1>5, <1>6, <1>7

\* ExecStage offers IMDU no operation but those of MduOp: not DIV, whose quotient of
\* a negative number by zero is not the one of the M extension.
MduInv == Mdu!IInv /\ mdu_job.op \in Core!MduOp

\* A clock edge of IMDU in the stage is one of ExecStage's two: an operation that
\* enters promises its result, and the last iteration keeps the promise.
LEMMA MduStep ==
  ASSUME Core!TypeOK, MduInv, MduTick
  PROVE  /\ Core!ImulTick(m_in_handshake /\ Core!MduEn(m_insn) /\ ~Core!DivOp(m_insn),
                          m_insn.funct, alu_arg_1, alu_arg_2, out)
         /\ Core!IdivTick(m_in_handshake /\ Core!DivOp(m_insn),
                          m_insn.funct, alu_arg_1, alu_arg_2, out)
         /\ MduInv'
<1>1. /\ m_insn \in Core!Insn /\ alu_arg_1 \in Word /\ alu_arg_2 \in Word
      /\ out \in BOOLEAN /\ m_in_handshake \in BOOLEAN
  BY Offers
<1>2. /\ Pipe!MduEn(m_insn) = Core!MduEn(m_insn)
      /\ Core!MduEn(m_insn) => m_insn.funct \in Core!MduOp
      /\ Core!DivOp(m_insn) = (Core!MduEn(m_insn) /\ m_insn.funct # "MUL")
  BY <1>1, ChoiceSame
<1>3. Word = Mdu!Word
  BY DEF Mdu!Word, Word
<1>. DEFINE op == m_insn.funct
            a  == alu_arg_1
            b  == alu_arg_2
<1>4. CASE m_in_handshake /\ Core!MduEn(m_insn)
  <2>1. Mdu!Enter(op, a, b, out) /\ op \in Core!MduOp
    BY <1>2, <1>4 DEF MduTick
  <2>2. /\ Core!ImduRes(op, a, b) = Mdu!Expected(op, a, b)
        /\ op \in Mdu!Op
        /\ op \in Mdu!MulOp <=> op = "MUL"
        /\ op \in Mdu!DivOp <=> op # "MUL"
    BY <1>1, <2>1, ImduIsRight
  <2>3. Mdu!IInv /\ a \in Mdu!Word /\ b \in Mdu!Word
    BY <1>1, <1>3 DEF MduInv
  <2>4. /\ mul_valid' = (op \in Mdu!MulOp)
        /\ mul_res' = IF op \in Mdu!MulOp THEN Mdu!Expected(op, a, b) ELSE mul_res
        /\ cnt = 0 /\ (~mul_valid \/ out) /\ (~div_valid \/ out)
        /\ cnt' = IF op \in Mdu!DivOp THEN XLEN + 1 ELSE 0
        /\ div_valid' = FALSE
        /\ Mdu!kept_res' = IF op \in Mdu!DivOp THEN Mdu!Expected(op, a, b) ELSE Mdu!kept_res
    BY <1>1, <2>1, <2>2, <2>3, Mdu!EnterFromOutside, MduAssumptions
  <2>5. Mdu!IInv' /\ mdu_job'.op = op
    <3>1. Mdu!IInv'
      BY <1>1, <2>1, <2>2, <2>3, Mdu!EnterHolds, MduAssumptions
    <3>. QED  BY <2>1, <3>1 DEF Mdu!Enter
  <2>6. CASE op = "MUL"
    <3>1. Core!ImulTick(TRUE, op, a, b, out)
      BY <2>2, <2>4, <2>6 DEF Core!ImulTick
    <3>2. Core!IdivTick(FALSE, op, a, b, out)
      <4>1. Mdu!kept_res' = Mdu!kept_res
        BY <2>2, <2>4, <2>6
      <4>2. cnt' = IF cnt > 0 THEN cnt - 1 ELSE 0
        BY <2>2, <2>4, <2>6
      <4>3. div_valid' = (cnt = 1 \/ (div_valid /\ ~out))
        <5>1. (cnt = 1 \/ (div_valid /\ ~out)) = FALSE
          BY <2>4
        <5>. QED  BY <2>4, <5>1
      <4>. QED  BY <4>1, <4>2, <4>3 DEF Core!IdivTick
    <3>3. /\ (m_in_handshake /\ Core!MduEn(m_insn) /\ ~Core!DivOp(m_insn)) = TRUE
          /\ (m_in_handshake /\ Core!DivOp(m_insn)) = FALSE
      BY <1>2, <1>4, <2>6
    <3>. QED  BY <2>1, <2>5, <3>1, <3>2, <3>3 DEF MduInv
  <2>7. CASE op # "MUL"
    <3>1. Core!ImulTick(FALSE, op, a, b, out)
      BY <2>2, <2>4, <2>7 DEF Core!ImulTick
    <3>2. Core!IdivTick(TRUE, op, a, b, out)
      BY <2>2, <2>4, <2>7 DEF Core!IdivTick
    <3>3. /\ (m_in_handshake /\ Core!MduEn(m_insn) /\ ~Core!DivOp(m_insn)) = FALSE
          /\ (m_in_handshake /\ Core!DivOp(m_insn)) = TRUE
      BY <1>2, <1>4, <2>7
    <3>. QED  BY <2>1, <2>5, <3>1, <3>2, <3>3 DEF MduInv
  <2>. QED  BY <2>6, <2>7
<1>5. CASE ~(m_in_handshake /\ Core!MduEn(m_insn))
  <2>1. Mdu!Pass(out)
    BY <1>2, <1>5 DEF MduTick
  <2>2. Mdu!IInv /\ mdu_job.op # "DIV"
    BY DEF MduInv, Core!MduOp
  <2>3. /\ mul_valid' = (mul_valid /\ ~out) /\ mul_res' = mul_res
        /\ cnt' = IF cnt > 0 THEN cnt - 1 ELSE 0
        /\ div_valid' = (cnt = 1 \/ (div_valid /\ ~out))
        /\ Mdu!kept_res' = Mdu!kept_res
    BY <1>1, <2>1, <2>2, Mdu!PassFromOutside, MduAssumptions
  <2>4. Mdu!IInv' /\ mdu_job'.op = mdu_job.op
    <3>1. Mdu!IInv'
      BY <1>1, <2>1, <2>2, Mdu!PassHolds, MduAssumptions
    <3>2. mdu_job'.op = mdu_job.op
      BY <2>1, <2>2 DEF Mdu!Pass, Mdu!IInv, Mdu!TypeOK, Mdu!Job
    <3>. QED  BY <3>1, <3>2
  <2>5. Core!ImulTick(FALSE, op, a, b, out) /\ Core!IdivTick(FALSE, op, a, b, out)
    BY <2>3 DEF Core!ImulTick, Core!IdivTick
  <2>6. /\ (m_in_handshake /\ Core!MduEn(m_insn) /\ ~Core!DivOp(m_insn)) = FALSE
        /\ (m_in_handshake /\ Core!DivOp(m_insn)) = FALSE
    BY <1>2, <1>5
  <2>. QED  BY <2>4, <2>5, <2>6 DEF MduInv
<1>. QED  BY <1>4, <1>5

-------------------------------------------------------------------------------
(* The processor.                                                            *)

\* A clock edge of the processor.
LEMMA TickIsCoreTick ==
  ASSUME Core!TypeOK, Alu!IInv, MduInv, NEW h, NEW r, NEW dbg, Tick(h, r, dbg)
  PROVE  Core!Tick(h, r, dbg) /\ Alu!IInv' /\ MduInv'
<1>1. /\ Pipe!AroundExec(h, r, dbg) /\ AluTick /\ MduTick /\ StageTick /\ Mdu!IInv
  BY DEF Tick, MduInv
<1>2. Core!AroundExec(h, r, dbg)
  BY <1>1, AroundSame
<1>3. /\ Core!IaluTick(m_in_handshake /\ Core!AluEn(m_insn), Core!AluOp(m_insn),
                       alu_arg_1, alu_arg_2, out)
      /\ Alu!IInv'
  BY <1>1, AluStep
<1>4. /\ Core!ImulTick(m_in_handshake /\ Core!MduEn(m_insn) /\ ~Core!DivOp(m_insn),
                       m_insn.funct, alu_arg_1, alu_arg_2, out)
      /\ Core!IdivTick(m_in_handshake /\ Core!DivOp(m_insn),
                       m_insn.funct, alu_arg_1, alu_arg_2, out)
      /\ MduInv'
  BY <1>1, MduStep
<1>5. /\ m_in_handshake = (Core!id_valid_out /\ Core!ExecReadyIn(Core!mem_ready_in, halt_req_in))
      /\ out = (Core!mem_ready_in /\ ~halt_req_in)
      /\ alu_arg_1 = Core!Src1(m_insn, m_pc, regs[m_insn.rs1])
      /\ alu_arg_2 = Core!Src2(m_insn, regs[m_insn.rs2])
  BY Offers DEF Core!ex_ready_in
<1>6. /\ ex_insn' = IF m_in_handshake THEN m_insn ELSE ex_insn
      /\ ex_pc'   = IF m_in_handshake THEN m_pc ELSE ex_pc
      /\ ex_rs1'  = IF m_in_handshake THEN regs[m_insn.rs1] ELSE ex_rs1
      /\ ex_rs2'  = IF m_in_handshake THEN regs[m_insn.rs2] ELSE ex_rs2
  BY <1>1 DEF StageTick, stageVars
<1>7. Core!ExecTick(Core!id_valid_out, m_insn, m_pc, regs[m_insn.rs1], regs[m_insn.rs2],
                    Core!mem_ready_in, halt_req_in)
  BY <1>3, <1>4, <1>5, <1>6 DEF Core!ExecTick
<1>. QED  BY <1>2, <1>3, <1>4, <1>7 DEF Core!Tick

\* A reset, in the middle of a division too.
LEMMA ResetIsCoreReset ==
  ASSUME Alu!IInv, MduInv, ResetTick
  PROVE  Core!ResetTick /\ Alu!IInv' /\ MduInv'
<1>1. Pipe!AroundExecReset /\ Alu!Reset /\ Mdu!Reset /\ UNCHANGED stageVars
  BY DEF ResetTick
<1>2. Core!AroundExecReset
  BY <1>1, AroundResetSame
<1>3. Alu!IInv'
  <2>1. (Alu!IInv /\ [Alu!Next]_(Alu!vars)) => Alu!IInv'
    BY Alu!NextInv, AluAssumptions
  <2>. QED  BY <1>1, <2>1 DEF Alu!Next
<1>4. MduInv'
  <2>1. (Mdu!IInv /\ Mdu!Reset) => Mdu!IInv'
    BY Mdu!ResetHolds, MduAssumptions
  <2>2. mdu_job'.op = mdu_job.op
    BY <1>1 DEF MduInv, Mdu!IInv, Mdu!TypeOK, Mdu!Job, Mdu!Reset
  <2>. QED  BY <1>1, <2>1, <2>2 DEF MduInv
<1>5. Mdu!kept_res' = 0
  <2>1. cnt' = 0 /\ div_res' = 0
    BY <1>1 DEF Mdu!Reset
  <2>. QED  BY <2>1 DEF Mdu!kept_res, Mdu!busy
<1>6. Core!ExecReset
  BY <1>1, <1>5 DEF Alu!Reset, Mdu!Reset, stageVars, Core!ExecReset
<1>. QED  BY <1>2, <1>3, <1>4, <1>6 DEF Core!ResetTick

\* the inductive invariant: the types of the processor, those and the correctness of
\* the units
Inv == Core!TypeOK /\ Alu!IInv /\ MduInv

\* The start.
LEMMA InitImplements == Init => Core!Init /\ Inv
<1>. SUFFICES ASSUME Init PROVE Core!Init /\ Inv
  OBVIOUS
<1>1. Pipe!Init /\ Alu!Init /\ Mdu!Init
  BY DEF Init
<1>2. Mdu!kept_res = 0
  BY <1>1 DEF Mdu!Init, Mdu!kept_res, Mdu!busy
<1>3. Core!Init
  BY <1>1, <1>2 DEF Pipe!Init, Core!Init, Pipe!ZeroInsn, Core!ZeroInsn, Pipe!Reg,
                    Core!Reg,
                    Pipe!Word, Core!Word
<1>4. Core!TypeOK
  BY <1>3, Core!InitTyped, ProcessorAssumptions
<1>5. Alu!IInv
  BY <1>1, Alu!InitInv, AluAssumptions
<1>6. Mdu!IInv
  BY <1>1, Mdu!InitHolds, MduAssumptions
<1>7. mdu_job.op \in Core!MduOp
  BY <1>1 DEF Mdu!Init, Core!MduOp
<1>. QED  BY <1>3, <1>4, <1>5, <1>6, <1>7 DEF Inv, MduInv

\* A step that changes nothing.
LEMMA StutterSame ==
  ASSUME Inv, UNCHANGED vars
  PROVE  UNCHANGED Core!vars /\ Inv'
<1>1. UNCHANGED Pipe!vars /\ UNCHANGED aluVars /\ UNCHANGED Mdu!vars
  BY DEF vars
<1>2. Mdu!kept_res' = Mdu!kept_res
  BY <1>1 DEF Mdu!vars, Mdu!kept_res, Mdu!busy
<1>3. UNCHANGED Core!vars
  BY <1>1, <1>2 DEF Pipe!vars, Core!vars, Core!fetchVars, Pipe!fetchVars, Core!decodeVars,
                    Pipe!decodeVars, Core!execVars, Pipe!execVars, Core!memVars,
                    Pipe!memVars, Core!wbVars, Pipe!wbVars, Core!coreVars, Pipe!coreVars,
                    Core!romVars, Pipe!romVars, Core!ramVars, Pipe!ramVars
<1>4. Core!TypeOK'
  <2>1. (Core!TypeOK /\ UNCHANGED Core!vars) => Core!TypeOK'
    BY Core!StutterTyped, ProcessorAssumptions
  <2>. QED  BY <1>3, <2>1 DEF Inv
<1>5. Alu!IInv'
  <2>1. (Alu!IInv /\ [Alu!Next]_(Alu!vars)) => Alu!IInv'
    BY Alu!NextInv, AluAssumptions
  <2>. QED  BY <1>1, <2>1 DEF Inv, aluVars, Alu!vars
<1>6. MduInv'
  <2>1. (Mdu!IInv /\ [Mdu!Next]_(Mdu!vars)) => Mdu!IInv'
    BY Mdu!StepHolds, MduAssumptions
  <2>. QED  BY <1>1, <2>1 DEF Inv, MduInv, Mdu!vars
<1>. QED  BY <1>3, <1>4, <1>5, <1>6 DEF Inv

\* Every step is a step of ArxCore or leaves it alone, and keeps the invariant.
LEMMA StepImplements == Inv /\ [Next]_vars => [Core!Next]_(Core!vars) /\ Inv'
<1>1. ASSUME Inv, NEW h \in {FALSE, MayHalt}, NEW r \in BOOLEAN, NEW dbg \in Pipe!DebugInputs,
             Tick(h, r, dbg)
      PROVE  Core!Next /\ Inv'
  <2>1. Core!Tick(h, r, dbg) /\ Alu!IInv' /\ MduInv'
    BY <1>1, TickIsCoreTick DEF Inv
  <2>2. dbg \in Core!DebugInputs
    BY WiresSame DEF Pipe!DebugInputs, Core!DebugInputs, Pipe!NoAccess, Core!NoAccess
  <2>3. Core!RunTick
    BY <2>1, <2>2 DEF Core!RunTick
  <2>4. Core!TypeOK'
    <3>1. (Core!TypeOK /\ Core!RunTick) => Core!TypeOK'
      BY Core!TickTyped, ProcessorAssumptions
    <3>. QED  BY <1>1, <2>3, <3>1 DEF Inv
  <2>. QED  BY <2>1, <2>3, <2>4 DEF Inv, Core!Next
<1>2. ASSUME Inv, ResetTick PROVE Core!Next /\ Inv'
  <2>1. Core!ResetTick /\ Alu!IInv' /\ MduInv'
    BY <1>2, ResetIsCoreReset DEF Inv
  <2>2. Core!TypeOK'
    <3>1. (Core!TypeOK /\ Core!ResetTick) => Core!TypeOK'
      BY Core!ResetTyped, ProcessorAssumptions
    <3>. QED  BY <1>2, <2>1, <3>1 DEF Inv
  <2>. QED  BY <2>1, <2>2 DEF Inv, Core!Next
<1>. QED  BY <1>1, <1>2, StutterSame DEF Next, RunTick

\* At every width and for every program, the processor with its real units does what
\* ArxCore does, cycle by cycle: IALU, IMUL and IDIV refuse, hold and offer as the
\* stage assumes, through flushes, halts, waiting memories and resets.
THEOREM UnitsImplementCore == Spec => ImplementsCore
BY InitImplements, StepImplements, PTL DEF Spec, ImplementsCore, Core!Spec

\* The processor down to the registers of its subtracter and its divider implements
\* the instruction set: no program can tell, at any width, with any debugger and
\* however long the memories let a request wait.
THEOREM UnitsImplementIsa == Spec => ImplementsIsa
<1>1. Core!Spec => Core!ImplementsIsa
  BY Core!ImplementsInstructionSet, ProcessorAssumptions
<1>. QED  BY <1>1, UnitsImplementCore, PTL DEF ImplementsCore, ImplementsIsa

===============================================================================
