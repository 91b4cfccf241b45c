----------------------------- MODULE ArxCoreProofs -----------------------------
(***************************************************************************)
(* What holds of the processor for every word size, number of registers,    *)
(* division latency, program, debugger and memory delay: type correctness,  *)
(* the safety invariants, and that it implements the instruction set.       *)
(*                                                                          *)
(* The inductive invariant Inv adds to the safety invariants two facts      *)
(* about the stages: a fetch stage that has not started has an empty        *)
(* pipeline behind it, and a memory stage with an open request holds an     *)
(* instruction and no answer.  DataInv, the second half, has the data: each *)
(* stage holds the instruction of its address, the addresses follow each    *)
(* other, and the units and the memory answer what the instruction set      *)
(* says.                                                                    *)
(***************************************************************************)
EXTENDS ArxCore, TLAPS

-----------------------------------------------------------------------------
\* Closure of the word operations: whatever the fields of the instruction, the
\* units return words.

\* The adders wrap: their results are words (IALU.sv:39-41).
LEMMA AddersReturnWords ==
  ASSUME NEW a \in Word, NEW b \in Word
  PROVE  Plus(a, b) \in Word /\ Minus(a, b) \in Word
BY SizesAssumption DEF Word, Plus, Minus

\* Constant operands of the ALU are words.
LEMMA ConstantsAreWords == 0 \in Word /\ 1 % WordSize \in Word /\ WordSize - 1 \in Word
BY SizesAssumption DEF Word

\* IALU.sv:79-97
LEMMA IaluReturnsWord ==
  ASSUME NEW op \in IaluOp \cup MduOp, NEW a \in Word, NEW b \in Word
  PROVE  IaluRes(op, a, b) \in Word /\ IaluBranchEn(op, a, b) \in BOOLEAN
<1>1. IaluRes(op, a, b) \in Word
  BY AddersReturnWords, ConstantsAreWords DEF IaluRes
<1>2. IaluBranchEn(op, a, b) \in BOOLEAN
  BY DEF IaluBranchEn
<1>. QED  BY <1>1, <1>2

\* A quotient is not larger than its dividend.
LEMMA QuotientIsWord ==
  ASSUME NEW a \in Word, NEW b \in Word, b # 0
  PROVE  a \div b \in Word
<1>1. a \in Nat /\ b \in Nat /\ b > 0 /\ a < WordSize
  BY SizesAssumption DEF Word
<1>. DEFINE q == a \div b
<1>2. q \in Int /\ b * q <= a /\ a < b * (q + 1)
  BY <1>1
<1>. HIDE DEF q
<1>3. q >= 0
  BY <1>1, <1>2
<1>4. q <= a
  BY <1>1, <1>2, <1>3
<1>. QED  BY <1>1, <1>2, <1>3, <1>4, SizesAssumption DEF Word, q

\* IMUL.sv:60-79 and IDIV.sv:98-99
LEMMA ImduReturnsWord ==
  ASSUME NEW op, NEW a \in Word, NEW b \in Word
  PROVE  ImduRes(op, a, b) \in Word
<1>1. (a * b) % WordSize \in Word
  <2>1. a * b \in Int
    BY SizesAssumption DEF Word
  <2>. QED  BY <2>1, SizesAssumption DEF Word
<1>2. ASSUME b # 0 PROVE a % b \in Word
  BY <1>2, SizesAssumption DEF Word
<1>. QED
  BY <1>1, <1>2, QuotientIsWord, ConstantsAreWords DEF ImduRes

\* The operand muxes pass words (ExecStage.sv:181-196, 208).
LEMMA OperandsAreWords ==
  ASSUME NEW i \in Insn, NEW p \in Word, NEW x1 \in Word, NEW x2 \in Word
  PROVE  /\ Src1(i, p, x1) \in Word
         /\ Src2(i, x2) \in Word
         /\ BranchBase(i, p, x1) \in Word
         /\ AluOp(i) \in IaluOp \cup MduOp
<1>1. i.imm \in Word /\ i.opcode \in Opcode /\ i.funct \in IaluOp \cup MduOp
  BY DEF Insn
<1>2. Src1(i, p, x1) \in Word /\ BranchBase(i, p, x1) \in Word
  BY <1>1, ConstantsAreWords DEF Src1, BranchBase
<1>3. Src2(i, x2) \in Word
  BY <1>1, ConstantsAreWords DEF Src2
<1>4. AluOp(i) \in IaluOp \cup MduOp
  BY <1>1 DEF AluOp, IaluOp
<1>. QED  BY <1>2, <1>3, <1>4

-----------------------------------------------------------------------------

\* The wires carry values of their types.
LEMMA WiresTyped ==
  ASSUME TypeOK
  PROVE  /\ ex_pc_we_out \in BOOLEAN /\ PcBranchOut \in Word
         /\ AluOut \in Word /\ MemResult \in Word
         /\ WbRd \in Reg
         /\ regs[m_insn.rs1] \in Word /\ regs[m_insn.rs2] \in Word
         /\ FetchInsnOut(rom_data) \in Insn
         /\ PcNext(ex_pc_we_out, PcBranchOut) \in Word
         /\ rom_addr \in Word
<1>1. ex_pc_we_out \in BOOLEAN
  BY DEF ex_pc_we_out, PcWeOut
<1>2. PcBranchOut \in Word
  <2>1. ex_insn.imm \in Word
    BY DEF TypeOK, ExecTypeOK, Insn
  <2>. QED  BY <2>1, OperandsAreWords, AddersReturnWords DEF TypeOK, ExecTypeOK, PcBranchOut
<1>3. AluOut \in Word
  BY ConstantsAreWords DEF TypeOK, AluOut, ExecTypeOK
<1>4. MemResult \in Word
  BY DEF TypeOK, MemResult, MemTypeOK
<1>5. WbRd \in Reg
  BY SizesAssumption DEF TypeOK, WbRd, WbTypeOK, Insn, Reg
<1>6. regs[m_insn.rs1] \in Word /\ regs[m_insn.rs2] \in Word
  BY DEF TypeOK, DecodeTypeOK, Insn
<1>7. FetchInsnOut(rom_data) \in Insn
  BY DEF TypeOK, FetchInsnOut, FetchTypeOK
<1>8. pc \in Word /\ pc_in_buf \in Word
  BY DEF TypeOK, FetchTypeOK
<1>9. Plus(pc, 1) \in Word
  BY <1>8, SizesAssumption DEF Plus, Word
<1>10. PcNext(ex_pc_we_out, PcBranchOut) \in Word
  BY <1>2, <1>8, <1>9 DEF PcNext
<1>11. rom_addr \in Word
  BY <1>8, <1>10 DEF rom_addr, RomAddr
<1>. QED  BY <1>1, <1>2, <1>3, <1>4, <1>5, <1>6, <1>7, <1>10, <1>11

Access == [req : BOOLEAN, we : BOOLEAN, addr : Word, data : Word]

LEMMA NoAccessTyped == NoAccess \in Access
BY ConstantsAreWords DEF NoAccess, Access

\* The access that reaches the RAM port is one of words.
LEMMA RamPortTyped ==
  ASSUME TypeOK, NEW dbg \in DebugInputs
  PROVE  RamPort(dbg) \in Access
<1>1. CASE m_is_halted
  <2>1. dbg \in Access
    BY <1>1, CoreAssumption, NoAccessTyped DEF DebugInputs, Access
  <2>. QED  BY <1>1, <2>1 DEF RamPort
<1>2. CASE ~m_is_halted
  <2>1. CpuReq(mem_ack_in) \in BOOLEAN /\ MemWrite(mem_insn) \in BOOLEAN
    BY DEF CpuReq, MemWrite
  <2>2. mem_alu \in Word /\ mem_rs2 \in Word
    BY DEF TypeOK, MemTypeOK
  <2>. QED  BY <1>2, <2>1, <2>2 DEF RamPort, Access
<1>. QED  BY <1>1, <1>2

LEMMA ZeroInsnTyped == ZeroInsn \in Insn
BY SizesAssumption, ConstantsAreWords
   DEF ZeroInsn, Insn, Functs, Opcode, IaluOp, MduOp, Reg

LEMMA InitTyped == Init => TypeOK
<1>. SUFFICES ASSUME Init PROVE TypeOK
  OBVIOUS
<1>1. FetchTypeOK
  BY ZeroInsnTyped, ConstantsAreWords DEF Init, FetchTypeOK, FetchStates
<1>2. DecodeTypeOK
  <2>1. m_used_reg \in [Reg -> 0 .. 3]
    BY DEF Init
  <2>2. regs \in [Reg -> Word]
    BY ConstantsAreWords DEF Init
  <2>. QED  BY <2>1, <2>2, ZeroInsnTyped, ConstantsAreWords DEF Init, DecodeTypeOK
<1>3. ExecTypeOK
  <2>1. 0 \in 0 .. DivTicks
    BY SizesAssumption
  <2>. QED  BY <2>1, ZeroInsnTyped, ConstantsAreWords DEF Init, ExecTypeOK
<1>4. MemTypeOK /\ WbTypeOK
  BY ZeroInsnTyped, ConstantsAreWords DEF Init, MemTypeOK, WbTypeOK
<1>5. rom \in [Word -> Insn] /\ ram \in [Word -> Word]
  BY ConstantsAreWords, CoreAssumption DEF Init
<1>6. rom_wait \in 0 .. MaxWait /\ ram_wait \in 0 .. MaxWait
  BY CoreAssumption DEF Init
<1>7. rom_data \in Insn /\ ram_data \in Word
  BY ConstantsAreWords, ZeroInsnTyped DEF Init
<1>8. /\ halt_req_in \in BOOLEAN /\ halted \in BOOLEAN
      /\ rom_ack \in BOOLEAN /\ ram_ack \in BOOLEAN /\ ram_owner \in {"core", "debug"}
  BY DEF Init
<1>. QED
  BY <1>1, <1>2, <1>3, <1>4, <1>5, <1>6, <1>7, <1>8 DEF TypeOK

-------------------------------------------------------------------------------
(* One clock edge preserves the types, stage by stage.                       *)

LEMMA FetchTyped ==
  ASSUME FetchTypeOK, NEW ack, NEW insn \in Insn, NEW we, NEW target \in Word,
         NEW ready, PcNext(we, target) \in Word,
         FetchTick(ack, insn, we, target, ready)
  PROVE  FetchTypeOK'
<1>1. cur_state' \in FetchStates
  BY DEF FetchTick, FetchTypeOK, FetchStates
<1>2. pc' \in Word /\ insn_buf' \in Insn
  BY DEF FetchTick, FetchTypeOK
<1>3. pc_we_buf' \in BOOLEAN
  BY DEF FetchTick
<1>4. pc_in_buf' \in Word
  BY DEF FetchTick, FetchTypeOK
<1>. QED  BY <1>1, <1>2, <1>3, <1>4 DEF FetchTypeOK

LEMMA DecodeTyped ==
  ASSUME DecodeTypeOK, NEW valid_in, NEW p \in Word, NEW insn \in Insn, NEW ready,
         NEW flush, NEW halt, NEW we, NEW rd \in Reg, NEW val \in Word,
         DecodeTick(valid_in, p, insn, ready, flush, halt, we, rd, val)
  PROVE  DecodeTypeOK'
<1>1. m_valid' \in BOOLEAN /\ m_pc' \in Word /\ m_insn' \in Insn
  BY DEF DecodeTick, StageRegister, DecodeTypeOK
<1>2. m_used_reg' \in [Reg -> 0 .. 3]
  <2>1. ASSUME NEW r \in Reg, NEW i \in {0, 1}, NEW d \in {0, 3}
        PROVE  (m_used_reg[r] + i + d) % 4 \in 0 .. 3
    BY DEF DecodeTypeOK
  <2>. QED  BY <2>1 DEF DecodeTick, Scoreboard, DecodeTypeOK
<1>3. regs' \in [Reg -> Word]
  BY DEF DecodeTick, RegisterFile, DecodeTypeOK
<1>. QED  BY <1>1, <1>2, <1>3 DEF DecodeTypeOK

LEMMA ExecTyped ==
  ASSUME ExecTypeOK, NEW valid_in, NEW insn \in Insn, NEW p \in Word,
         NEW x1 \in Word, NEW x2 \in Word, NEW ready, NEW halt,
         ExecTick(valid_in, insn, p, x1, x2, ready, halt)
  PROVE  ExecTypeOK'
<1>. DEFINE a == Src1(insn, p, x1)
            b == Src2(insn, x2)
<1>1. a \in Word /\ b \in Word /\ AluOp(insn) \in IaluOp \cup MduOp
  BY OperandsAreWords
<1>2. /\ IaluRes(AluOp(insn), a, b) \in Word
      /\ IaluBranchEn(AluOp(insn), a, b) \in BOOLEAN
      /\ ImduRes(insn.funct, a, b) \in Word
  BY <1>1, IaluReturnsWord, ImduReturnsWord
<1>. HIDE DEF a, b
<1>3. ex_insn' \in Insn /\ ex_pc' \in Word /\ ex_rs1' \in Word /\ ex_rs2' \in Word
  BY DEF ExecTick, ExecTypeOK
<1>4. alu_valid' \in BOOLEAN /\ branch_en' \in BOOLEAN /\ ialu_res' \in Word
  BY <1>2 DEF ExecTick, ExecTypeOK, IaluTick, a, b
<1>5. mul_valid' \in BOOLEAN /\ mul_res' \in Word
  BY <1>2 DEF ExecTick, ExecTypeOK, ImulTick, a, b
<1>6. div_cnt' \in 0 .. DivTicks
  BY SizesAssumption DEF ExecTick, ExecTypeOK, IdivTick
<1>7. div_valid' \in BOOLEAN /\ div_res' \in Word
  BY <1>2 DEF ExecTick, ExecTypeOK, IdivTick, a, b
<1>. QED  BY <1>3, <1>4, <1>5, <1>6, <1>7 DEF ExecTypeOK

LEMMA MemTyped ==
  ASSUME MemTypeOK, NEW valid_in, NEW insn \in Insn, NEW alu \in Word, NEW x2 \in Word,
         NEW ack, NEW data \in Word, NEW halt,
         MemTick(valid_in, insn, alu, x2, ack, data, halt)
  PROVE  MemTypeOK'
<1>1. mem_valid' \in BOOLEAN /\ mem_insn' \in Insn /\ mem_alu' \in Word /\ mem_rs2' \in Word
  BY DEF MemTick, MemTypeOK
<1>2. mem_request' \in BOOLEAN /\ mem_data_valid' \in BOOLEAN
  BY DEF MemTick
<1>3. mem_data' \in Word
  BY ConstantsAreWords DEF MemTick, MemTypeOK
<1>. QED  BY <1>1, <1>2, <1>3 DEF MemTypeOK

LEMMA WbTyped ==
  ASSUME WbTypeOK, NEW valid_in \in BOOLEAN, NEW insn \in Insn, NEW res \in Word,
         WbTick(valid_in, insn, res)
  PROVE  WbTypeOK'
BY DEF WbTick, WbTypeOK

RomTypeOK == /\ rom \in [Word -> Insn]
             /\ rom_ack \in BOOLEAN /\ rom_data \in Insn /\ rom_wait \in 0 .. MaxWait

RamTypeOK == /\ ram \in [Word -> Word] /\ ram_ack \in BOOLEAN /\ ram_data \in Word
             /\ ram_wait \in 0 .. MaxWait /\ ram_owner \in {"core", "debug"}

LEMMA RomTyped ==
  ASSUME RomTypeOK, NEW req, NEW addr \in Word, RomTick(req, addr), UNCHANGED rom
  PROVE  RomTypeOK'
<1>1. MaxWait \in Nat
  BY CoreAssumption
<1>2. rom[addr] \in Insn
  BY DEF RomTypeOK
<1>3. rom_wait' \in 0 .. MaxWait
  BY <1>1 DEF RomTick, RomTypeOK
<1>4. rom_ack' \in BOOLEAN /\ rom_data' \in Insn
  BY <1>2 DEF RomTick, RomTypeOK
<1>. QED  BY <1>3, <1>4 DEF RomTypeOK

LEMMA RamTyped ==
  ASSUME RamTypeOK, NEW port \in Access, RamTick(port)
  PROVE  RamTypeOK'
<1>1. MaxWait \in Nat
  BY CoreAssumption
<1>2. port.addr \in Word /\ port.data \in Word
  BY DEF Access
<1>3. ram' \in [Word -> Word] /\ ram_data' \in Word
  BY <1>2 DEF RamTick, RamTypeOK
<1>4. ram_wait' \in 0 .. MaxWait
  BY <1>1 DEF RamTick, RamTypeOK
<1>5. ram_ack' \in BOOLEAN /\ ram_owner' \in {"core", "debug"}
  BY DEF RamTick, RamTypeOK
<1>. QED  BY <1>3, <1>4, <1>5 DEF RamTypeOK

-------------------------------------------------------------------------------
(* Type correctness of the whole.                                            *)

LEMMA TickTyped ==
  ASSUME TypeOK, RunTick
  PROVE  TypeOK'
<1>1. PICK halt_req \in {FALSE, MayHalt}, resume_req \in BOOLEAN, dbg \in DebugInputs :
        Tick(halt_req, resume_req, dbg)
  BY DEF RunTick
<1>2. FetchTypeOK'
  BY <1>1, WiresTyped, FetchTyped DEF Tick, AroundExec, TypeOK
<1>3. DecodeTypeOK'
  <2>1. pc \in Word /\ wb_res \in Word
    BY DEF TypeOK, FetchTypeOK, WbTypeOK
  <2>. QED  BY <1>1, <2>1, WiresTyped, DecodeTyped DEF Tick, AroundExec, TypeOK
<1>4. ExecTypeOK'
  <2>1. m_insn \in Insn /\ m_pc \in Word
    BY DEF TypeOK, DecodeTypeOK
  <2>. QED  BY <1>1, <2>1, WiresTyped, ExecTyped DEF Tick, AroundExec, TypeOK
<1>5. MemTypeOK'
  <2>1. ex_insn \in Insn /\ ex_rs2 \in Word
    BY DEF TypeOK, ExecTypeOK
  <2>. QED  BY <1>1, <2>1, WiresTyped, MemTyped DEF Tick, AroundExec, TypeOK
<1>6. WbTypeOK'
  <2>1. mem_insn \in Insn /\ MemValidOut(halt_req_in) \in BOOLEAN
    BY DEF TypeOK, MemTypeOK, MemValidOut
  <2>. QED  BY <1>1, <2>1, WiresTyped, WbTyped DEF Tick, AroundExec, TypeOK
<1>7. halt_req_in' \in BOOLEAN /\ halted' \in BOOLEAN
  BY <1>1 DEF Tick, AroundExec, HaltControl, TypeOK, m_is_halted, FetchHaltAck
<1>8. RomTypeOK'
  BY <1>1, WiresTyped, RomTyped DEF Tick, AroundExec, TypeOK, RomTypeOK
<1>9. RamTypeOK'
  BY <1>1, RamPortTyped, RamTyped DEF Tick, AroundExec, TypeOK, RamTypeOK
<1>. QED
  BY <1>2, <1>3, <1>4, <1>5, <1>6, <1>7, <1>8, <1>9 DEF TypeOK, RomTypeOK, RamTypeOK

LEMMA ResetTyped ==
  ASSUME TypeOK, ResetTick
  PROVE  TypeOK'
<1>1. FetchTypeOK'
  BY ZeroInsnTyped, ConstantsAreWords
     DEF ResetTick, AroundExecReset, FetchReset, TypeOK, FetchTypeOK, FetchStates
<1>2. DecodeTypeOK'
  <2>1. m_used_reg' \in [Reg -> 0 .. 3]
    BY DEF ResetTick, AroundExecReset, DecodeReset
  <2>2. regs' \in [Reg -> Word]
    BY ConstantsAreWords DEF ResetTick, AroundExecReset, DecodeReset
  <2>. QED  BY <2>1, <2>2 DEF ResetTick, AroundExecReset, DecodeReset, TypeOK, DecodeTypeOK
<1>3. ExecTypeOK'
  <2>1. 0 \in 0 .. DivTicks
    BY SizesAssumption
  <2>. QED  BY <2>1, ConstantsAreWords DEF ResetTick, AroundExecReset, ExecReset, TypeOK, ExecTypeOK
<1>4. MemTypeOK' /\ WbTypeOK'
  BY ConstantsAreWords DEF ResetTick, AroundExecReset, MemReset, WbReset, TypeOK, MemTypeOK, WbTypeOK
<1>5. halt_req_in' \in BOOLEAN /\ halted' \in BOOLEAN
  BY DEF ResetTick, AroundExecReset, TypeOK
<1>6. RomTypeOK'
  <2>1. pc \in Word
    BY DEF TypeOK, FetchTypeOK
  <2>. QED  BY <2>1, RomTyped DEF ResetTick, AroundExecReset, TypeOK, RomTypeOK
<1>7. RamTypeOK'
  BY NoAccessTyped, RamTyped DEF ResetTick, AroundExecReset, TypeOK, RamTypeOK
<1>. QED
  BY <1>1, <1>2, <1>3, <1>4, <1>5, <1>6, <1>7 DEF TypeOK, RomTypeOK, RamTypeOK

LEMMA StutterTyped == TypeOK /\ UNCHANGED vars => TypeOK'
BY DEF TypeOK, vars, FetchTypeOK, DecodeTypeOK, ExecTypeOK, MemTypeOK, WbTypeOK,
       fetchVars, decodeVars, execVars, memVars, wbVars, coreVars, romVars, ramVars

\* Every register of the processor keeps its type, the scoreboard's counters
\* their two bits and the divider's counter its bound, for every program.
THEOREM TypeCorrect == Spec => []TypeOK
<1>1. TypeOK /\ [Next]_vars => TypeOK'
  BY TickTyped, ResetTyped, StutterTyped DEF Next
<1>. QED  BY <1>1, InitTyped, PTL DEF Spec

-----------------------------------------------------------------------------
(* The invariant                                                             *)

FetchStarts == cur_state = "IDLE" => ~m_valid /\ ~ExBusy /\ ~pc_we_buf

RequestOpen == mem_request => mem_valid /\ ~mem_data_valid

Inv ==
  /\ TypeOK
  /\ ExecHoldsOne
  /\ ScoreboardExact
  /\ FetchStarts
  /\ RedirectKept
  /\ RequestOpen
  /\ AnswersReachTheirOwner

-------------------------------------------------------------------------------
(* How instructions move.  Enter and Leave speak of the execution stage.      *)

Enter == Issue(ex_ready_in, ex_pc_we_out, halt_req_in)
Leave == ex_valid_out /\ mem_ready_in

\* The stage takes an instruction only when it is empty or hands one over, the
\* instruction it hands over is the one it holds, and it holds one at a time.
LEMMA ExecMoves ==
  ASSUME TypeOK, ExecHoldsOne, RunTick
  PROVE  /\ ExBusy' <=> Enter \/ (ExBusy /\ ~Leave)
         /\ Enter => ~ExBusy \/ Leave
         /\ ex_valid_out => ExBusy
         /\ ex_insn' = IF Enter THEN m_insn ELSE ex_insn
         /\ ExecHoldsOne'
<1>1. PICK halt_req \in {FALSE, MayHalt}, resume_req \in BOOLEAN, dbg \in DebugInputs :
        Tick(halt_req, resume_req, dbg)
  BY DEF RunTick
<1>. DEFINE out == mem_ready_in /\ ~halt_req_in
            ent == id_valid_out /\ ex_ready_in
            a   == Src1(m_insn, m_pc, regs[m_insn.rs1])
            b   == Src2(m_insn, regs[m_insn.rs2])
<1>2. Enter <=> ent
  BY DEF Enter, Issue, id_valid_out
<1>3. /\ IaluTick(ent /\ AluEn(m_insn), AluOp(m_insn), a, b, out)
      /\ ImulTick(ent /\ MduEn(m_insn) /\ ~DivOp(m_insn), m_insn.funct, a, b, out)
      /\ IdivTick(ent /\ DivOp(m_insn), m_insn.funct, a, b, out)
      /\ ex_insn' = IF ent THEN m_insn ELSE ex_insn
  BY <1>1 DEF Tick, AroundExec, ExecTick, ex_ready_in
<1>. DEFINE alu == ent /\ AluEn(m_insn)
            mul == ent /\ MduEn(m_insn) /\ ~DivOp(m_insn)
            div == ent /\ DivOp(m_insn)
<1>4. /\ alu_valid' <=> alu \/ (alu_valid /\ ~out)
      /\ mul_valid' <=> mul \/ (mul_valid /\ ~out)
      /\ div_valid' <=> ~div /\ (div_cnt = 1 \/ (div_valid /\ ~out))
      /\ div_cnt' = IF div THEN DivTicks ELSE IF div_cnt > 0 THEN div_cnt - 1 ELSE 0
  BY <1>3 DEF IaluTick, ImulTick, IdivTick
<1>5. branch_en' => alu \/ (branch_en /\ ~(alu_valid /\ out))
  BY <1>3 DEF IaluTick
<1>6. /\ alu => ~mul /\ ~div
      /\ mul => ~div
      /\ ent <=> alu \/ mul \/ div
      /\ alu => AluEn(m_insn)
      /\ mul \/ div => MduEn(m_insn)
      /\ AluEn(ex_insn) <=> ~MduEn(ex_insn)
      /\ AluEn(m_insn) <=> ~MduEn(m_insn)
  BY DEF AluEn, DivOp
<1>7. ent => /\ div_cnt = 0
             /\ out \/ (~alu_valid /\ ~mul_valid /\ ~div_valid)
  BY DEF ex_ready_in, ExecReadyIn, AluReadyIn, MulReadyIn, DivReadyIn
<1>8. div_cnt \in 0 .. DivTicks /\ DivTicks \in Nat /\ DivTicks > 0
  BY SizesAssumption DEF TypeOK, ExecTypeOK
<1>9. /\ alu_valid \in BOOLEAN /\ mul_valid \in BOOLEAN /\ div_valid \in BOOLEAN
      /\ branch_en \in BOOLEAN
      /\ alu_valid' \in BOOLEAN /\ mul_valid' \in BOOLEAN /\ div_valid' \in BOOLEAN
      /\ branch_en' \in BOOLEAN
  BY TickTyped DEF TypeOK, ExecTypeOK
<1>10. /\ alu_valid => AluEn(ex_insn) /\ ~mul_valid /\ ~div_valid /\ div_cnt = 0
       /\ mul_valid => MduEn(ex_insn) /\ ~div_valid /\ div_cnt = 0
       /\ div_valid => MduEn(ex_insn) /\ div_cnt = 0
       /\ div_cnt > 0 => MduEn(ex_insn)
       /\ branch_en => alu_valid
  BY <1>8 DEF ExecHoldsOne, Count
<1>11. Leave <=> out /\ (alu_valid \/ mul_valid \/ div_valid)
  BY <1>6, <1>10 DEF Leave, ex_valid_out, ExecValidOut
<1>. HIDE DEF out, ent, alu, mul, div
<1>12. ExBusy' <=> ent \/ (ExBusy /\ ~Leave)
  BY <1>4, <1>6, <1>7, <1>8, <1>10, <1>11 DEF ExBusy
<1>13. ent => ~ExBusy \/ Leave
  BY <1>7, <1>8, <1>11 DEF ExBusy
<1>14. ex_valid_out => ExBusy
  BY DEF ex_valid_out, ExecValidOut, ExBusy
<1>15. ExecHoldsOne'
  BY <1>3, <1>4, <1>5, <1>6, <1>7, <1>8, <1>9, <1>10 DEF ExecHoldsOne, Count
<1>. QED  BY <1>2, <1>3, <1>12, <1>13, <1>14, <1>15

\* What the memory and the write-back stage hold after a tick.
LEMMA BackEndMoves ==
  ASSUME TypeOK, RunTick
  PROVE  /\ mem_valid' <=> Leave \/ (mem_valid /\ ~MemValidOut(halt_req_in))
         /\ Leave => ~mem_valid \/ MemValidOut(halt_req_in)
         /\ mem_insn' = IF Leave THEN ex_insn ELSE mem_insn
         /\ wb_valid' <=> MemValidOut(halt_req_in)
         /\ MemValidOut(halt_req_in) => mem_valid /\ wb_insn' = mem_insn
<1>1. PICK halt_req \in {FALSE, MayHalt}, resume_req \in BOOLEAN, dbg \in DebugInputs :
        Tick(halt_req, resume_req, dbg)
  BY DEF RunTick
<1>2. Leave <=> ex_valid_out /\ MemReadyIn(halt_req_in)
  BY DEF Leave, mem_ready_in
<1>3. Leave => ~mem_valid \/ MemValidOut(halt_req_in)
  BY <1>2 DEF MemReadyIn
<1>4. /\ mem_valid' <=> Leave \/ (mem_valid /\ ~MemValidOut(halt_req_in))
      /\ mem_insn' = IF Leave THEN ex_insn ELSE mem_insn
  BY <1>1, <1>2 DEF Tick, AroundExec, MemTick
<1>5. /\ wb_valid' <=> MemValidOut(halt_req_in)
      /\ MemValidOut(halt_req_in) => wb_insn' = mem_insn
  BY <1>1 DEF Tick, AroundExec, WbTick, MemValidOut
<1>. QED  BY <1>3, <1>4, <1>5 DEF MemValidOut

\* What happens to one counter: the three ways of InsnDecodeStage.sv:189-197 are
\* one sum modulo four.
LEMMA CounterMoves ==
  ASSUME TypeOK, RunTick, NEW r \in Reg
  PROVE  m_used_reg'[r] = (m_used_reg[r] + Count(Enter /\ RegWrite(m_insn) /\ m_insn.rd = r)
                                         + 3 * Count(WbWrites(r))) % 4
<1>1. PICK halt_req \in {FALSE, MayHalt}, resume_req \in BOOLEAN, dbg \in DebugInputs :
        Tick(halt_req, resume_req, dbg)
  BY DEF RunTick
<1>. DEFINE sync == Enter /\ RegWrite(m_insn)
            both == WbRegWrite /\ sync /\ WbRd = m_insn.rd
            incr == sync /\ m_insn.rd = r
            decr == WbRegWrite /\ WbRd = r
<1>2. m_used_reg' = [q \in Reg |->
          IF both THEN m_used_reg[q]
          ELSE (m_used_reg[q] + (IF sync /\ q = m_insn.rd THEN 1 ELSE 0)
                              + (IF WbRegWrite /\ q = WbRd THEN 3 ELSE 0)) % 4]
  BY <1>1 DEF Tick, AroundExec, DecodeTick, Scoreboard, Enter
<1>3. m_used_reg'[r] =
          IF both THEN m_used_reg[r]
          ELSE (m_used_reg[r] + (IF incr THEN 1 ELSE 0) + (IF decr THEN 3 ELSE 0)) % 4
  BY <1>2
<1>4. both => (incr <=> decr)
  OBVIOUS
<1>5. m_used_reg[r] \in 0 .. 3
  BY DEF TypeOK, DecodeTypeOK
<1>. HIDE DEF both, incr, decr
<1>6. m_used_reg'[r] = (m_used_reg[r] + (IF incr THEN 1 ELSE 0) + 3 * (IF decr THEN 1 ELSE 0)) % 4
  <2>1. CASE ~both
    BY <1>3, <1>5, <2>1
  <2>2. CASE both /\ incr /\ decr
    BY <1>3, <1>5, <2>2
  <2>3. CASE both /\ ~incr /\ ~decr
    BY <1>3, <1>5, <2>3
  <2>. QED  BY <1>4, <2>1, <2>2, <2>3
<1>. QED  BY <1>6 DEF incr, decr, Count, WbWrites

\* The scoreboard stays exact: what enters is counted, what is written back is
\* discounted, and whatever moves in between is counted once all the way.
LEMMA ScoreboardStep ==
  ASSUME TypeOK, ExecHoldsOne, ScoreboardExact, RunTick
  PROVE  ScoreboardExact'
<1>. SUFFICES ASSUME NEW r \in Reg
              PROVE  m_used_reg'[r] = Count(ExWrites(r)') + Count(MemWrites(r)') + Count(WbWrites(r)')
  BY DEF ScoreboardExact, Count
<1>. DEFINE incr == Enter /\ RegWrite(m_insn) /\ m_insn.rd = r
            hand == MemValidOut(halt_req_in)
<1>1. m_used_reg'[r] = (m_used_reg[r] + Count(incr) + 3 * Count(WbWrites(r))) % 4
  BY CounterMoves
<1>2. m_used_reg[r] = Count(ExWrites(r)) + Count(MemWrites(r)) + Count(WbWrites(r))
  BY DEF ScoreboardExact
<1>3. ExWrites(r)' <=> incr \/ (~Enter /\ ~Leave /\ ExWrites(r))
  BY ExecMoves DEF ExWrites
<1>4. incr => ~ExWrites(r) \/ Leave
  BY ExecMoves DEF ExWrites
<1>5. MemWrites(r)' <=> (Leave /\ ExWrites(r)) \/ (~Leave /\ ~hand /\ MemWrites(r))
  BY ExecMoves, BackEndMoves DEF MemWrites, ExWrites, Leave
<1>6. Leave => ~MemWrites(r) \/ hand
  BY BackEndMoves DEF MemWrites
<1>7. WbWrites(r)' <=> hand /\ MemWrites(r)
  BY BackEndMoves DEF WbWrites, MemWrites, WbRegWrite, WbRd
<1>8. Enter => ~ExWrites(r) \/ Leave
  BY ExecMoves DEF ExWrites
<1>. HIDE DEF incr, hand
<1>. QED  BY <1>1, <1>2, <1>3, <1>4, <1>5, <1>6, <1>7, <1>8 DEF Count

-------------------------------------------------------------------------------
(* The fetch stage                                                           *)

\* A redirection empties everything behind the fetch stage, so the buffer is
\* never written twice, and the answer it waits for comes in FETCH.
LEMMA RedirectStep ==
  ASSUME TypeOK, ExecHoldsOne, FetchStarts, RedirectKept, RunTick
  PROVE  FetchStarts' /\ RedirectKept'
<1>1. PICK halt_req \in {FALSE, MayHalt}, resume_req \in BOOLEAN, dbg \in DebugInputs :
        Tick(halt_req, resume_req, dbg)
  BY DEF RunTick
<1>. DEFINE we   == ex_pc_we_out
            upd  == PcUpd(rom_ack, we, id_ready_in)
            took == fs_valid_out /\ id_ready_in
<1>2. cur_state \in FetchStates
  BY DEF TypeOK, FetchTypeOK
<1>3. /\ cur_state' # "IDLE"
      /\ cur_state = "FETCH" /\ ~rom_ack => cur_state' = "FETCH"
  BY <1>1, <1>2 DEF Tick, AroundExec, FetchTick, PcUpd, InsnBufWe, FetchStates
<1>4. pc_we_buf' <=> (we \/ pc_we_buf) /\ ~(upd /\ (we \/ pc_we_buf))
  BY <1>1 DEF Tick, AroundExec, FetchTick, PcWeInternal, PcWeAck
<1>5. m_valid' <=> took \/ (m_valid /\ ~(we \/ Enter))
  BY <1>1 DEF Tick, AroundExec, DecodeTick, StageRegister, Enter, id_ready_in
<1>6. we => ExBusy /\ Leave /\ ~id_ready_in /\ ~Enter
  <2>1. we => ex_valid_out /\ mem_ready_in
    BY DEF ex_pc_we_out, PcWeOut, ex_valid_out
  <2>2. we => ~id_ready_in /\ ~Enter
    BY DEF id_ready_in, DecodeReadyIn, Enter, Issue, DecodeValidOut
  <2>. QED  BY <2>1, <2>2, ExecMoves DEF Leave
<1>7. Enter => m_valid
  BY DEF Enter, Issue, DecodeValidOut
<1>8. ExBusy' <=> Enter \/ (ExBusy /\ ~Leave)
  BY ExecMoves
<1>9. ASSUME pc_we_buf'
      PROVE  cur_state' = "FETCH" /\ ~m_valid' /\ ~ExBusy'
  <2>1. ~upd
    BY <1>4, <1>9
  <2>2. CASE we
    <3>1. cur_state # "IDLE"
      BY <1>6, <2>2 DEF FetchStarts
    <3>2. cur_state = "FETCH" /\ ~rom_ack
      BY <1>2, <2>1, <2>2, <3>1 DEF PcUpd, PcWeInternal, FetchStates
    <3>. QED  BY <1>3, <1>5, <1>6, <1>8, <2>2, <3>2
  <2>3. CASE ~we
    <3>1. pc_we_buf
      BY <1>4, <1>9, <2>3
    <3>2. cur_state = "FETCH" /\ ~m_valid /\ ~ExBusy
      BY <3>1 DEF RedirectKept
    <3>3. ~rom_ack
      BY <2>1, <3>1, <3>2 DEF PcUpd, PcWeInternal
    <3>4. ~fs_valid_out
      BY <3>2, <3>3 DEF fs_valid_out, FetchValidOut
    <3>. QED  BY <1>3, <1>5, <1>7, <1>8, <3>2, <3>3, <3>4
  <2>. QED  BY <2>2, <2>3
<1>. QED  BY <1>3, <1>9 DEF FetchStarts, RedirectKept

-------------------------------------------------------------------------------
(* The data memory                                                           *)

\* The port changes hands only when no request is open, and a request that is
\* open keeps the processor from halting.
LEMMA MemoryStep ==
  ASSUME TypeOK, RequestOpen, AnswersReachTheirOwner, RunTick
  PROVE  RequestOpen' /\ AnswersReachTheirOwner'
<1>1. PICK halt_req \in {FALSE, MayHalt}, resume_req \in BOOLEAN, dbg \in DebugInputs :
        Tick(halt_req, resume_req, dbg)
  BY DEF RunTick
<1>. DEFINE enter  == ex_valid_out /\ MemReadyIn(halt_req_in)
            answer == mem_request /\ mem_ack_in
<1>2. /\ mem_valid' <=> enter \/ (mem_valid /\ ~MemValidOut(halt_req_in))
      /\ mem_request' <=> ~answer /\ (IF enter THEN MemOp(ex_insn) ELSE mem_request)
      /\ mem_data_valid' <=> answer \/ (IF enter THEN ~MemOp(ex_insn) ELSE mem_data_valid)
  BY <1>1 DEF Tick, AroundExec, MemTick
<1>3. enter => ~mem_request /\ ~halt_req_in
  BY DEF MemReadyIn, MemValidOut, RequestOpen
<1>4. MemValidOut(halt_req_in) => mem_valid /\ mem_data_valid
  BY DEF MemValidOut
<1>. HIDE DEF enter, answer
<1>5. RequestOpen'
  BY <1>2, <1>3, <1>4 DEF RequestOpen, answer
<1>6. m_is_halted => halt_req_in /\ ~mem_request /\ ~mem_request'
  BY <1>2, <1>3 DEF m_is_halted, MemHaltAck, RequestOpen
<1>7. ram_ack' => /\ RamPort(dbg).req
                  /\ ram_owner' = IF m_is_halted THEN "debug" ELSE "core"
  BY <1>1 DEF Tick, AroundExec, RamTick
<1>8. ASSUME ram_ack', ~m_is_halted
      PROVE  ~m_is_halted'
  <2>1. mem_request /\ ~mem_ack_in
    BY <1>7, <1>8 DEF RamPort, CpuReq
  <2>2. mem_request'
    BY <1>2, <1>3, <2>1 DEF answer
  <2>. QED  BY <1>5, <2>2 DEF RequestOpen, m_is_halted, MemHaltAck
<1>9. AnswersReachTheirOwner'
  BY <1>6, <1>7, <1>8 DEF AnswersReachTheirOwner
<1>. QED  BY <1>5, <1>9

-------------------------------------------------------------------------------
(* The invariant holds                                                       *)

LEMMA InitInv == Init => Inv
<1>. SUFFICES ASSUME Init PROVE Inv
  OBVIOUS
<1>1. /\ ~ExBusy /\ ~mem_valid /\ ~wb_valid /\ ~mem_request /\ ~ram_ack /\ ~pc_we_buf
      /\ ~m_valid /\ ~branch_en
  BY DEF Init, ExBusy
<1>2. ScoreboardExact
  BY <1>1 DEF Init, ScoreboardExact, ExWrites, MemWrites, WbWrites, WbRegWrite, Count
<1>3. ExecHoldsOne
  BY DEF Init, ExecHoldsOne, Count
<1>. QED
  BY <1>1, <1>2, <1>3, InitTyped
     DEF Inv, FetchStarts, RedirectKept, RequestOpen, AnswersReachTheirOwner

LEMMA ResetInv ==
  ASSUME TypeOK, ResetTick
  PROVE  Inv'
<1>1. /\ ~ExBusy' /\ ~mem_valid' /\ ~wb_valid' /\ ~mem_request' /\ ~ram_ack' /\ ~pc_we_buf'
      /\ ~m_valid'
  BY DEF ResetTick, AroundExecReset, ExecReset, MemReset, WbReset, FetchReset, DecodeReset,
         RamTick, NoAccess, ExBusy
<1>2. ScoreboardExact'
  <2>1. \A r \in Reg : m_used_reg'[r] = 0
    BY DEF ResetTick, AroundExecReset, DecodeReset
  <2>. QED
    BY <1>1, <2>1 DEF ScoreboardExact, ExWrites, MemWrites, WbWrites, WbRegWrite, Count
<1>3. ExecHoldsOne'
  BY DEF ResetTick, AroundExecReset, ExecReset, ExecHoldsOne, Count
<1>. QED
  BY <1>1, <1>2, <1>3, ResetTyped
     DEF Inv, FetchStarts, RedirectKept, RequestOpen, AnswersReachTheirOwner

LEMMA StutterInv == Inv /\ UNCHANGED vars => Inv'
<1>. SUFFICES ASSUME Inv, UNCHANGED vars PROVE Inv'
  OBVIOUS
<1>1. /\ UNCHANGED <<cur_state, pc_we_buf, m_valid, m_used_reg, ex_insn, alu_valid, branch_en>>
      /\ UNCHANGED <<mul_valid, div_valid, div_cnt, mem_valid, mem_insn, mem_request>>
      /\ UNCHANGED <<mem_data_valid, wb_valid, wb_insn, ram_ack, ram_owner, halt_req_in>>
  BY DEF vars, fetchVars, decodeVars, execVars, memVars, wbVars, coreVars, romVars, ramVars
<1>2. ExBusy' = ExBusy /\ m_is_halted' = m_is_halted
  BY <1>1 DEF ExBusy, m_is_halted, FetchHaltAck, MemHaltAck
<1>3. ScoreboardExact'
  BY <1>1, <1>2 DEF Inv, ScoreboardExact, ExWrites, MemWrites, WbWrites, WbRegWrite, WbRd, Count
<1>4. ExecHoldsOne'
  BY <1>1 DEF Inv, ExecHoldsOne, Count
<1>5. FetchStarts' /\ RedirectKept' /\ RequestOpen' /\ AnswersReachTheirOwner'
  BY <1>1, <1>2 DEF Inv, FetchStarts, RedirectKept, RequestOpen, AnswersReachTheirOwner
<1>. QED  BY <1>3, <1>4, <1>5, StutterTyped DEF Inv

LEMMA StepInv == Inv /\ [Next]_vars => Inv'
<1>1. ASSUME Inv, RunTick PROVE Inv'
  BY <1>1, TickTyped, ExecMoves, ScoreboardStep, RedirectStep, MemoryStep DEF Inv
<1>2. ASSUME Inv, ResetTick PROVE Inv'
  BY <1>2, ResetInv DEF Inv
<1>. QED  BY <1>1, <1>2, StutterInv DEF Next

THEOREM InvHolds == Spec => []Inv
BY InitInv, StepInv, PTL DEF Spec

\* The two bit counters always count the writes in flight, whatever the program.
THEOREM ScoreboardIsExact == Spec => []ScoreboardExact
<1>1. Inv => ScoreboardExact
  BY DEF Inv
<1>. QED  BY <1>1, InvHolds, PTL

\* IALU, IMUL and IDIV never hold two instructions.
THEOREM ExecHoldsOneAlways == Spec => []ExecHoldsOne
<1>1. Inv => ExecHoldsOne
  BY DEF Inv
<1>. QED  BY <1>1, InvHolds, PTL

\* No taken branch is lost in the fetch stage.
THEOREM RedirectIsKept == Spec => []RedirectKept
<1>1. Inv => RedirectKept
  BY DEF Inv
<1>. QED  BY <1>1, InvHolds, PTL

\* The debugger and the memory stage never take each other's answers.
THEOREM AnswersAreSeparate == Spec => []AnswersReachTheirOwner
<1>1. Inv => AnswersReachTheirOwner
  BY DEF Inv
<1>. QED  BY <1>1, InvHolds, PTL

\* The exact scoreboard leaves nothing in flight that could still change the
\* operands of the instruction the decoder issues.
LEMMA OperandsInv == Inv => OperandsCurrent
<1>1. ASSUME Inv, Enter, NEW r \in {m_insn.rs1, m_insn.rs2}
      PROVE  regs[r] = ArchRegs[r] /\ ~ExWrites(r) /\ ~MemWrites(r) /\ ~WbWrites(r)
  <2>1. r \in Reg /\ m_used_reg[r] = 0
    BY <1>1 DEF Inv, TypeOK, DecodeTypeOK, Insn, Enter, Issue, DecodeValidOut
  <2>2. ~ExWrites(r) /\ ~MemWrites(r) /\ ~WbWrites(r)
    BY <1>1, <2>1 DEF Inv, ScoreboardExact, Count
  <2>3. /\ ~(WbRegWrite /\ WbRd = r)
        /\ ~(mem_valid /\ RegWrite(mem_insn) /\ mem_insn.rd = r)
    BY <2>2 DEF WbWrites, MemWrites
  <2>. DEFINE wb == WithWrite(regs, WbRegWrite, WbRd, wb_res)
  <2>4. regs \in [Reg -> Word] /\ wb \in [Reg -> Word]
    BY <1>1 DEF Inv, TypeOK, DecodeTypeOK, WbTypeOK, WithWrite
  <2>5. wb[r] = regs[r]
    BY <2>1, <2>3, <2>4 DEF WithWrite
  <2>. HIDE DEF wb
  <2>6. WithWrite(wb, mem_valid /\ RegWrite(mem_insn), mem_insn.rd, MemPending)[r] = wb[r]
    BY <2>1, <2>3, <2>4 DEF WithWrite
  <2>. QED  BY <2>2, <2>5, <2>6 DEF wb, ArchRegs
<1>. QED  BY <1>1 DEF OperandsCurrent, Enter

\* An instruction is issued with the operands the program gives it.
THEOREM OperandsAreCurrent == Spec => []OperandsCurrent
BY OperandsInv, InvHolds, PTL

\* A processor that all stages have acknowledged as halted stays so as long as the
\* halt is requested: nothing in it moves, so nothing takes the acknowledgement back.
LEMMA HaltStays == RunTick /\ m_is_halted /\ halt_req_in' => m_is_halted'
<1>. SUFFICES ASSUME RunTick, m_is_halted, halt_req_in' PROVE m_is_halted'
  OBVIOUS
<1>1. PICK halt_req \in {FALSE, MayHalt}, resume_req \in BOOLEAN, dbg \in DebugInputs :
        Tick(halt_req, resume_req, dbg)
  BY DEF RunTick
<1>2. halt_req_in /\ cur_state = "WAIT_HANDSHAKE" /\ (mem_data_valid \/ ~mem_valid)
  BY DEF m_is_halted, FetchHaltAck, MemHaltAck
<1>3. ~ex_pc_we_out /\ ~id_ready_in
  BY <1>2 DEF ex_pc_we_out, PcWeOut, ExecValidOut, id_ready_in, DecodeReadyIn
<1>4. cur_state' = "WAIT_HANDSHAKE"
  BY <1>1, <1>2, <1>3 DEF Tick, AroundExec, FetchTick, PcUpd, InsnBufWe
<1>5. mem_data_valid' \/ ~mem_valid'
  BY <1>1, <1>2 DEF Tick, AroundExec, MemTick, MemReadyIn, MemValidOut
<1>. QED  BY <1>4, <1>5 DEF m_is_halted, FetchHaltAck, MemHaltAck

\* What the debugger reads in halted is true, although it is a cycle late.
THEOREM HaltedIsTrueAlways == Spec => []HaltedIsTrue
<1>1. Init => HaltedIsTrue
  BY DEF Init, HaltedIsTrue
<1>2. ASSUME RunTick PROVE HaltedIsTrue'
  <2>1. halted' = m_is_halted
    BY <1>2 DEF RunTick, Tick, AroundExec, HaltControl
  <2>. QED  BY <1>2, <2>1, HaltStays DEF HaltedIsTrue
<1>3. ASSUME ResetTick PROVE HaltedIsTrue'
  BY <1>3 DEF ResetTick, AroundExecReset, HaltedIsTrue
<1>4. ASSUME HaltedIsTrue, UNCHANGED vars PROVE HaltedIsTrue'
  BY <1>4 DEF vars, fetchVars, memVars, coreVars, HaltedIsTrue, m_is_halted,
              FetchHaltAck, MemHaltAck
<1>5. HaltedIsTrue /\ [Next]_vars => HaltedIsTrue'
  BY <1>2, <1>3, <1>4 DEF Next
<1>. QED  BY <1>1, <1>5, PTL DEF Spec

\* A halted processor stays as it is: the write-back still under way is done, and
\* counts in the architectural registers before and after.  No store is under way,
\* and the memory changes only by a write of the debug port.
LEMMA HaltedTick ==
  ASSUME TypeOK, RequestOpen, m_is_halted, RunTick
  PROVE  /\ UNCHANGED <<cur_state, pc, insn_buf, m_valid, m_insn, ex_insn, mem_valid, mem_request>>
         /\ ArchRegs' = ArchRegs
         /\ ArchMem = ram
         /\ ram' # ram => \E dbg \in DebugAccesses :
              dbg.req /\ dbg.we /\ ram' = [ram EXCEPT ![dbg.addr] = dbg.data]
<1>1. PICK halt_req \in {FALSE, MayHalt}, resume_req \in BOOLEAN, dbg \in DebugInputs :
        Tick(halt_req, resume_req, dbg)
  BY DEF RunTick
<1>2. halt_req_in /\ cur_state = "WAIT_HANDSHAKE" /\ (mem_data_valid \/ ~mem_valid)
  BY DEF m_is_halted, FetchHaltAck, MemHaltAck
<1>3. ~ex_pc_we_out /\ ~id_ready_in /\ ~id_valid_out
  BY <1>2 DEF ex_pc_we_out, PcWeOut, ExecValidOut, id_ready_in, DecodeReadyIn, id_valid_out,
              DecodeValidOut
<1>4. ~mem_request
  BY <1>2 DEF RequestOpen
<1>5. UNCHANGED <<cur_state, pc, insn_buf>>
  BY <1>1, <1>2, <1>3 DEF Tick, AroundExec, FetchTick, PcUpd, InsnBufWe, TypeOK, FetchTypeOK
<1>6. UNCHANGED <<m_valid, m_insn>>
  BY <1>1, <1>2, <1>3 DEF Tick, AroundExec, DecodeTick, StageRegister, DecodeReadyIn, Issue, DecodeValidOut,
     TypeOK, DecodeTypeOK
<1>7. UNCHANGED ex_insn
  BY <1>1, <1>3 DEF Tick, AroundExec, ExecTick
<1>8. /\ UNCHANGED <<mem_valid, mem_insn, mem_alu, mem_data, mem_request>>
      /\ ~wb_valid'
  BY <1>1, <1>2, <1>4 DEF Tick, AroundExec, MemTick, MemReadyIn, MemValidOut, WbTick, TypeOK, MemTypeOK
<1>9. ArchRegs' = ArchRegs
  <2>1. regs' = WithWrite(regs, WbRegWrite, WbRd, wb_res)
    BY <1>1 DEF Tick, AroundExec, DecodeTick, RegisterFile, WithWrite
  <2>2. WithWrite(regs, WbRegWrite, WbRd, wb_res)' = regs'
    BY <1>8 DEF WithWrite, WbRegWrite
  <2>3. MemPending' = MemPending
    BY <1>4, <1>8 DEF MemPending, MemResult
  <2>. DEFINE wb == WithWrite(regs, WbRegWrite, WbRd, wb_res)
  <2>4. wb' = wb
    BY <2>1, <2>2
  <2>5. ArchRegs  = WithWrite(wb, mem_valid /\ RegWrite(mem_insn), mem_insn.rd, MemPending)
    BY DEF ArchRegs
  <2>6. ArchRegs' = WithWrite(wb', mem_valid' /\ RegWrite(mem_insn'), mem_insn'.rd, MemPending')
    BY DEF ArchRegs, WithWrite, RegWrite
  <2>. HIDE DEF wb
  <2>. QED  BY <1>8, <2>3, <2>4, <2>5, <2>6
<1>10. ArchMem = ram
  BY <1>4 DEF ArchMem
<1>11. ASSUME ram' # ram
       PROVE  \E d \in DebugAccesses : d.req /\ d.we /\ ram' = [ram EXCEPT ![d.addr] = d.data]
  <2>1. RamTick(dbg)
    BY <1>1 DEF Tick, AroundExec, RamPort
  <2>2. dbg.req /\ dbg.we /\ ram' = [ram EXCEPT ![dbg.addr] = dbg.data]
    BY <1>11, <2>1 DEF RamTick
  <2>3. dbg \in DebugAccesses
    BY <1>1 DEF DebugInputs
  <2>. QED  BY <2>2, <2>3
<1>. QED  BY <1>5, <1>6, <1>7, <1>8, <1>9, <1>10, <1>11

\* From the decoder on nothing moves in a halted processor: the debugger sees one
\* state of the program, what it reads is not overtaken, and nothing but what it
\* writes changes the memory.
THEOREM HaltIsFrozen == Spec => HaltFreezes
<1>1. ASSUME ResetTick PROVE cur_state' = "IDLE"
  BY <1>1 DEF ResetTick, AroundExecReset, FetchReset
<1>2. Inv /\ [Next]_vars =>
        [m_is_halted /\ halt_req_in' /\ ~(cur_state' = "IDLE") =>
          /\ UNCHANGED <<cur_state, pc, insn_buf, m_valid, m_insn, ex_insn, mem_valid, mem_request>>
          /\ ArchRegs' = ArchRegs
          /\ ArchMem = ram
          /\ ram' # ram => \E dbg \in DebugAccesses :
               dbg.req /\ dbg.we /\ ram' = [ram EXCEPT ![dbg.addr] = dbg.data]]_vars
  BY <1>1, HaltedTick DEF Inv, Next
<1>. QED  BY <1>2, InvHolds, PTL DEF Spec, HaltFreezes

\* A request the instruction memory has not accepted is repeated unchanged, also
\* when a branch is taken meanwhile.
LEMMA RequestStep ==
  ASSUME TypeOK, RunTick, rom_req, ~rom_ack' PROVE rom_req' /\ rom_addr' = rom_addr
<1>1. PICK halt_req \in {FALSE, MayHalt}, resume_req \in BOOLEAN, dbg \in DebugInputs :
        Tick(halt_req, resume_req, dbg)
  BY DEF RunTick
<1>2. cur_state' = "FETCH" /\ pc' = rom_addr
  BY <1>1 DEF Tick, AroundExec, FetchTick, rom_req, rom_addr, RomReq, RomAddr, PcUpd, InsnBufWe
<1>3. ~PcUpd(rom_ack, ex_pc_we_out, id_ready_in)'
  BY <1>2 DEF PcUpd
<1>. QED  BY <1>2, <1>3 DEF rom_req, rom_addr, RomReq, RomAddr, PcUpd

THEOREM FetchRequestIsHeld == Spec => FetchRequestHeld
<1>1. ASSUME ResetTick PROVE cur_state' = "IDLE"
  BY <1>1 DEF ResetTick, AroundExecReset, FetchReset
<1>2. Inv /\ [Next]_vars =>
        [rom_req /\ ~rom_ack' /\ cur_state' # "IDLE" => rom_req' /\ rom_addr' = rom_addr]_vars
  BY <1>1, RequestStep DEF Inv, Next
<1>. QED  BY <1>2, InvHolds, PTL DEF Spec, FetchRequestHeld

-------------------------------------------------------------------------------
(* The data                                                                  *)

\* each stage holds the instruction its program has at its address
StagesHoldProgram ==
  /\ rom_ack => cur_state = "FETCH" /\ rom_data = rom[pc]
  /\ cur_state = "WAIT_HANDSHAKE" => insn_buf = rom[pc]
  /\ m_valid => m_insn = rom[m_pc]
  /\ ExBusy  => ex_insn = rom[ex_pc]

\* the fetch stage runs ahead in a straight line
StraightLine ==
  /\ m_valid => pc = Plus(m_pc, 1)
  /\ ExBusy  => (IF m_valid THEN m_pc ELSE pc) = Plus(ex_pc, 1)

\* the operands of the units
SrcA == Src1(ex_insn, ex_pc, ex_rs1)
SrcB == Src2(ex_insn, ex_rs2)

\* the units work on the operands the program gives the instruction
UnitsCompute ==
  /\ ExBusy => ex_rs1 = ArchRegs[ex_insn.rs1] /\ ex_rs2 = ArchRegs[ex_insn.rs2]
  /\ alu_valid => /\ ialu_res = IaluRes(AluOp(ex_insn), SrcA, SrcB)
                  /\ branch_en = IaluBranchEn(AluOp(ex_insn), SrcA, SrcB)
  /\ mul_valid => mul_res = ImduRes(ex_insn.funct, SrcA, SrcB)
  /\ div_valid \/ div_cnt > 0 => div_res = ImduRes(ex_insn.funct, SrcA, SrcB)

\* the memory has done what it acknowledges
MemoryAnswers ==
  mem_request => /\ MemOp(mem_insn)
                 /\ ram_ack => IF MemWrite(mem_insn) THEN ram[mem_alu] = mem_rs2
                               ELSE ram_data = ram[mem_alu]

DataInv == StagesHoldProgram /\ StraightLine /\ UnitsCompute /\ MemoryAnswers

-----------------------------------------------------------------------------
(* Fetch and decode                                                          *)

\* the decoder takes an instruction
Took == fs_valid_out /\ id_ready_in

\* where the fetch stage is headed
FetchPc == IF pc_we_buf THEN pc_in_buf ELSE pc

\* A redirection decides where the fetch stage goes next, at once or when the
\* answer under way has come; without one it steps on when the decoder takes.
LEMMA FetchMoves ==
  ASSUME TypeOK, ExecHoldsOne, FetchStarts, RedirectKept, RunTick
  PROVE  /\ ex_pc_we_out => ~Took /\ ~Enter /\ Leave /\ FetchPc' = PcBranchOut
         /\ Took => ~pc_we_buf /\ pc' = Plus(pc, 1) /\ ~pc_we_buf' /\ cur_state' = "FETCH"
         /\ ~Took /\ ~ex_pc_we_out => FetchPc' = FetchPc /\ (~pc_we_buf => pc' = pc /\ ~pc_we_buf')
         /\ m_valid' <=> Took \/ (m_valid /\ ~ex_pc_we_out /\ ~Enter)
         /\ m_pc' = IF Took THEN pc ELSE m_pc
         /\ m_insn' = IF Took THEN FetchInsnOut(rom_data) ELSE m_insn
<1>1. PICK halt_req \in {FALSE, MayHalt}, resume_req \in BOOLEAN, dbg \in DebugInputs :
        Tick(halt_req, resume_req, dbg)
  BY DEF RunTick
<1>. DEFINE we  == ex_pc_we_out
            upd == PcUpd(rom_ack, we, id_ready_in)
<1>2. /\ pc' = IF upd THEN PcNext(we, PcBranchOut) ELSE pc
      /\ pc_we_buf' <=> (we \/ pc_we_buf) /\ ~(upd /\ (we \/ pc_we_buf))
      /\ pc_in_buf' = IF we /\ ~(upd /\ (we \/ pc_we_buf)) THEN PcBranchOut ELSE pc_in_buf
      /\ upd => cur_state' = "FETCH"
  BY <1>1 DEF Tick, AroundExec, FetchTick, PcWeInternal, PcWeAck, InsnBufWe
<1>3. we => ~id_ready_in /\ ~Enter /\ Leave
  BY DEF ex_pc_we_out, PcWeOut, ex_valid_out, id_ready_in, DecodeReadyIn, Enter, Issue,
         DecodeValidOut, Leave
<1>4. id_ready_in => ~halt_req_in
  BY DEF id_ready_in, DecodeReadyIn
<1>5. Took <=> upd /\ ~we /\ ~pc_we_buf
  BY <1>3, <1>4 DEF Took, fs_valid_out, FetchValidOut, PcWeAck, PcWeInternal, PcUpd, RedirectKept
<1>6. /\ m_valid' <=> Took \/ (m_valid /\ ~we /\ ~Enter)
      /\ m_pc' = IF Took THEN pc ELSE m_pc
      /\ m_insn' = IF Took THEN FetchInsnOut(rom_data) ELSE m_insn
  BY <1>1 DEF Tick, AroundExec, DecodeTick, StageRegister, Took, Enter, id_ready_in
<1>7. we => FetchPc' = PcBranchOut
  BY <1>2 DEF FetchPc, PcNext
<1>8. Took => ~pc_we_buf /\ pc' = Plus(pc, 1) /\ ~pc_we_buf' /\ cur_state' = "FETCH"
  BY <1>2, <1>5 DEF PcNext
<1>9. ~Took /\ ~we => FetchPc' = FetchPc /\ (~pc_we_buf => pc' = pc /\ ~pc_we_buf')
  BY <1>2, <1>5 DEF FetchPc, PcNext
<1>. QED  BY <1>3, <1>6, <1>7, <1>8, <1>9 DEF Took

\* What enters the execution stage is what the decoder holds.
LEMMA ExecLatches ==
  ASSUME RunTick
  PROVE  /\ ex_insn' = IF Enter THEN m_insn ELSE ex_insn
         /\ ex_pc'   = IF Enter THEN m_pc ELSE ex_pc
         /\ ex_rs1'  = IF Enter THEN regs[m_insn.rs1] ELSE ex_rs1
         /\ ex_rs2'  = IF Enter THEN regs[m_insn.rs2] ELSE ex_rs2
BY DEF RunTick, Tick, AroundExec, ExecTick, ex_ready_in, id_valid_out, Enter, Issue

\* An instruction enters the execution stage from the decoder, behind the one
\* that leaves it.
LEMMA StraightLineStep ==
  ASSUME TypeOK, ExecHoldsOne, FetchStarts, RedirectKept, StraightLine, RunTick
  PROVE  StraightLine'
<1>1. Enter => m_valid
  BY DEF Enter, Issue, DecodeValidOut
<1>2. Took => ~m_valid \/ Enter
  BY DEF Took, id_ready_in, DecodeReadyIn, Enter, Issue
<1>3. m_valid \/ ExBusy => ~pc_we_buf
  BY DEF RedirectKept
<1>4. m_valid' => pc' = Plus(m_pc', 1)
  BY <1>3, FetchMoves DEF StraightLine
<1>5. ASSUME ExBusy' PROVE (IF m_valid' THEN m_pc' ELSE pc') = Plus(ex_pc', 1)
  <2>1. Enter \/ (ExBusy /\ ~Leave)
    BY <1>5, ExecMoves
  <2>2. CASE Enter
    <3>1. ~ex_pc_we_out /\ m_valid /\ ~pc_we_buf
      BY <2>2, <1>1, <1>3, FetchMoves
    <3>2. pc = Plus(m_pc, 1) /\ ex_pc' = m_pc
      BY <2>2, <3>1, ExecLatches DEF StraightLine
    <3>. QED  BY <2>2, <3>1, <3>2, FetchMoves
  <2>3. CASE ~Enter /\ ExBusy /\ ~Leave
    <3>1. ~ex_pc_we_out /\ ~pc_we_buf /\ ex_pc' = ex_pc
      BY <2>3, <1>3, FetchMoves, ExecLatches
    <3>2. (IF m_valid THEN m_pc ELSE pc) = Plus(ex_pc, 1)
      BY <2>3 DEF StraightLine
    <3>. QED  BY <2>3, <1>2, <3>1, <3>2, FetchMoves
  <2>. QED  BY <2>1, <2>2, <2>3
<1>. QED  BY <1>4, <1>5 DEF StraightLine

\* An acknowledged word is the one of the address that was asked for, and it is
\* kept or handed on with its address.
LEMMA StagesHoldProgramStep ==
  ASSUME TypeOK, ExecHoldsOne, FetchStarts, RedirectKept, StagesHoldProgram, RunTick
  PROVE  StagesHoldProgram'
<1>1. PICK halt_req \in {FALSE, MayHalt}, resume_req \in BOOLEAN, dbg \in DebugInputs :
        Tick(halt_req, resume_req, dbg)
  BY DEF RunTick
<1>2. UNCHANGED rom
  BY <1>1 DEF Tick, AroundExec
<1>3. rom_ack' => cur_state' = "FETCH" /\ rom_data' = rom[pc']
  <2>1. rom_ack' => rom_req /\ rom_data' = rom[rom_addr]
    BY <1>1 DEF Tick, AroundExec, RomTick
  <2>2. rom_req => cur_state' = "FETCH" /\ pc' = rom_addr
    BY <1>1 DEF Tick, AroundExec, FetchTick, rom_req, rom_addr, RomReq, RomAddr, PcUpd, InsnBufWe
  <2>. QED  BY <2>1, <2>2
<1>4. ASSUME cur_state' = "WAIT_HANDSHAKE" PROVE insn_buf' = rom[pc']
  <2>1. ~PcUpd(rom_ack, ex_pc_we_out, id_ready_in) /\ pc' = pc
    BY <1>1, <1>4 DEF Tick, AroundExec, FetchTick, InsnBufWe
  <2>2. CASE InsnBufWe(rom_ack, ex_pc_we_out, id_ready_in)
    BY <1>1, <2>1, <2>2 DEF Tick, AroundExec, FetchTick, InsnBufWe, StagesHoldProgram
  <2>3. CASE ~InsnBufWe(rom_ack, ex_pc_we_out, id_ready_in)
    BY <1>1, <1>4, <2>1, <2>3 DEF Tick, AroundExec, FetchTick, StagesHoldProgram, TypeOK, FetchTypeOK,
                                  FetchStates
  <2>. QED  BY <2>2, <2>3
<1>5. Took => FetchInsnOut(rom_data) = rom[pc]
  BY DEF Took, fs_valid_out, FetchValidOut, FetchInsnOut, StagesHoldProgram
<1>6. m_valid' => m_insn' = rom[m_pc']
  BY <1>5, FetchMoves DEF StagesHoldProgram
<1>7. Enter => m_valid
  BY DEF Enter, Issue, DecodeValidOut
<1>8. ExBusy' => ex_insn' = rom[ex_pc']
  BY <1>7, ExecMoves, ExecLatches DEF StagesHoldProgram
<1>. QED  BY <1>2, <1>3, <1>4, <1>6, <1>8 DEF StagesHoldProgram

-----------------------------------------------------------------------------
(* The data memory                                                           *)

Hand   == MemValidOut(halt_req_in)     \* the memory stage hands over
Answer == mem_request /\ ram_ack       \* its request is answered

\* One tick of the memory stage and of the data memory, which belongs to the
\* stage's request if there is one, and to the debugger in a halted processor.
LEMMA MemoryMoves ==
  ASSUME TypeOK, RequestOpen, RunTick
  PROVE  /\ mem_request => mem_valid /\ ~Leave /\ ~Hand /\ ~m_is_halted
         /\ Leave => ~m_is_halted /\ (~mem_valid \/ Hand)
         /\ Hand => mem_valid /\ ~mem_request
         /\ mem_valid' <=> Leave \/ (mem_valid /\ ~Hand)
         /\ mem_insn'  = IF Leave THEN ex_insn ELSE mem_insn
         /\ mem_alu'   = IF Leave THEN AluOut ELSE mem_alu
         /\ mem_rs2'   = IF Leave THEN ex_rs2 ELSE mem_rs2
         /\ mem_request' <=> ~Answer /\ IF Leave THEN MemOp(ex_insn) ELSE mem_request
         /\ mem_data'  = IF ~Answer THEN mem_data
                         ELSE IF MemToReg(mem_insn) THEN ram_data ELSE 0
         /\ ~m_is_halted =>
              \/ /\ mem_request /\ ~Answer /\ ram_ack'
                 /\ ram_data' = ram[mem_alu]
                 /\ ram' = IF MemWrite(mem_insn) THEN [ram EXCEPT ![mem_alu] = mem_rs2] ELSE ram
              \/ ~ram_ack' /\ ram' = ram
         /\ m_is_halted => ram' = ram \/ \E a, v \in Word : ram' = [ram EXCEPT ![a] = v]
<1>1. PICK halt_req \in {FALSE, MayHalt}, resume_req \in BOOLEAN, dbg \in DebugInputs :
        Tick(halt_req, resume_req, dbg)
  BY DEF RunTick
<1>2. mem_request => mem_valid /\ ~Leave /\ ~Hand /\ ~m_is_halted
  BY DEF RequestOpen, Hand, Leave, mem_ready_in, MemReadyIn, MemValidOut, m_is_halted, MemHaltAck
<1>3. Leave => ~halt_req_in /\ (~mem_valid \/ Hand)
  BY DEF Leave, mem_ready_in, MemReadyIn, Hand
<1>4. Leave => ~m_is_halted
  BY <1>3 DEF m_is_halted, MemHaltAck
<1>5. Hand => mem_valid /\ ~mem_request
  BY DEF Hand, MemValidOut, RequestOpen
<1>6. Answer <=> mem_request /\ mem_ack_in
  BY <1>2 DEF Answer, mem_ack_in
<1>7. Leave <=> ex_valid_out /\ MemReadyIn(halt_req_in)
  BY DEF Leave, mem_ready_in
<1>8. /\ mem_valid' <=> Leave \/ (mem_valid /\ ~Hand)
      /\ mem_insn'  = IF Leave THEN ex_insn ELSE mem_insn
      /\ mem_alu'   = IF Leave THEN AluOut ELSE mem_alu
      /\ mem_rs2'   = IF Leave THEN ex_rs2 ELSE mem_rs2
      /\ mem_request' <=> ~Answer /\ IF Leave THEN MemOp(ex_insn) ELSE mem_request
      /\ mem_data'  = IF ~Answer THEN mem_data
                      ELSE IF MemToReg(mem_insn) THEN ram_data ELSE 0
  BY <1>1, <1>6, <1>7 DEF Tick, AroundExec, MemTick, Hand
<1>9. ASSUME ~m_is_halted
      PROVE  \/ /\ mem_request /\ ~Answer /\ ram_ack'
                /\ ram_data' = ram[mem_alu]
                /\ ram' = IF MemWrite(mem_insn) THEN [ram EXCEPT ![mem_alu] = mem_rs2] ELSE ram
             \/ ~ram_ack' /\ ram' = ram
  <2>. DEFINE port == RamPort(dbg)
  <2>1. port.req => mem_request /\ ~Answer
    BY <1>6, <1>9 DEF RamPort, CpuReq
  <2>2. port.addr = mem_alu /\ port.data = mem_rs2 /\ port.we = MemWrite(mem_insn)
    BY <1>9 DEF RamPort
  <2>3. \/ /\ port.req /\ ram_ack' /\ ram_data' = ram[port.addr]
           /\ ram' = IF port.we THEN [ram EXCEPT ![port.addr] = port.data] ELSE ram
        \/ ~ram_ack' /\ ram' = ram
    BY <1>1 DEF Tick, AroundExec, RamTick
  <2>. QED  BY <2>1, <2>2, <2>3
<1>10. ASSUME m_is_halted PROVE ram' = ram \/ \E a, v \in Word : ram' = [ram EXCEPT ![a] = v]
  <2>1. RamPort(dbg) = dbg /\ dbg.addr \in Word /\ dbg.data \in Word
    BY <1>10, CoreAssumption DEF RamPort, DebugInputs
  <2>. QED  BY <1>1, <2>1 DEF Tick, AroundExec, RamTick
<1>. QED  BY <1>2, <1>3, <1>4, <1>5, <1>8, <1>9, <1>10

\* An acknowledged write is in the memory, an acknowledged word is the memory's.
LEMMA MemoryAnswersStep ==
  ASSUME TypeOK, RequestOpen, MemoryAnswers, RunTick
  PROVE  MemoryAnswers'
<1>. SUFFICES ASSUME mem_request'
              PROVE  /\ MemOp(mem_insn')
                     /\ ram_ack' => IF MemWrite(mem_insn') THEN ram'[mem_alu'] = mem_rs2'
                                    ELSE ram_data' = ram'[mem_alu']
  BY DEF MemoryAnswers, MemOp, MemWrite
<1>1. CASE Leave
  BY <1>1, MemoryMoves
<1>2. CASE ~Leave
  <2>1. mem_request /\ ~m_is_halted /\ UNCHANGED <<mem_insn, mem_alu, mem_rs2>>
    BY <1>2, MemoryMoves
  <2>2. mem_alu \in Word /\ ram \in [Word -> Word]
    BY DEF TypeOK, MemTypeOK
  <2>. QED  BY <2>1, <2>2, MemoryMoves DEF MemoryAnswers
<1>. QED  BY <1>1, <1>2

\* The memory the program sees: a store is done when it leaves the execution
\* stage, and nothing but the debugger in a halted processor touches it besides.
LEMMA ArchMemMoves ==
  ASSUME TypeOK, RequestOpen, MemoryAnswers, RunTick
  PROVE  /\ Leave => /\ ArchMem = ram
                     /\ ram' = ram
                     /\ ArchMem' = IF MemWrite(ex_insn) THEN [ArchMem EXCEPT ![AluOut] = ex_rs2]
                                   ELSE ArchMem
         /\ ~Leave /\ ~m_is_halted => ArchMem' = ArchMem
         /\ m_is_halted => \/ ArchMem' = ArchMem
                           \/ \E a, v \in Word : ArchMem' = [ArchMem EXCEPT ![a] = v]
<1>1. ram \in [Word -> Word] /\ mem_alu \in Word /\ mem_rs2 \in Word
  BY DEF TypeOK, MemTypeOK
<1>2. ASSUME Leave
      PROVE  /\ ArchMem = ram
             /\ ram' = ram
             /\ ArchMem' = IF MemWrite(ex_insn) THEN [ArchMem EXCEPT ![AluOut] = ex_rs2] ELSE ArchMem
  <2>1. ~mem_request /\ ~m_is_halted /\ ram' = ram
    BY <1>2, MemoryMoves
  <2>2. /\ mem_valid' /\ mem_insn' = ex_insn /\ mem_alu' = AluOut /\ mem_rs2' = ex_rs2
        /\ mem_request' <=> MemOp(ex_insn)
    BY <1>2, <2>1, MemoryMoves DEF Answer
  <2>. QED  BY <2>1, <2>2 DEF ArchMem, MemOp, MemWrite
<1>3. ASSUME ~Leave, ~mem_request PROVE ArchMem = ram /\ ArchMem' = ram'
  BY <1>3, MemoryMoves DEF ArchMem
<1>4. ASSUME ~Leave, mem_request PROVE ArchMem' = ArchMem
  <2>1. /\ mem_valid /\ mem_valid' /\ UNCHANGED <<mem_insn, mem_alu, mem_rs2>>
        /\ mem_request' <=> ~Answer
        /\ ~m_is_halted
    BY <1>4, MemoryMoves
  <2>2. CASE Answer
    <3>1. ram' = ram /\ ~mem_request'
      BY <2>1, <2>2, MemoryMoves
    <3>2. MemWrite(mem_insn) => ram[mem_alu] = mem_rs2
      BY <1>4, <2>2 DEF MemoryAnswers, Answer
    <3>3. MemWrite(mem_insn) => [ram EXCEPT ![mem_alu] = mem_rs2] = ram
      BY <1>1, <3>2
    <3>. QED  BY <3>1, <3>3 DEF ArchMem
  <2>3. CASE ~Answer
    <3>1. ram' = ram \/ (MemWrite(mem_insn) /\ ram' = [ram EXCEPT ![mem_alu] = mem_rs2])
      BY <2>1, MemoryMoves
    <3>2. [ram EXCEPT ![mem_alu] = mem_rs2] = [[ram EXCEPT ![mem_alu] = mem_rs2]
                                                    EXCEPT ![mem_alu] = mem_rs2]
      BY <1>1
    <3>. QED  BY <1>4, <2>1, <2>3, <3>1, <3>2 DEF ArchMem, MemWrite
  <2>. QED  BY <2>2, <2>3
<1>5. ASSUME ~Leave, ~m_is_halted PROVE ArchMem' = ArchMem
  <2>1. ~mem_request => ram' = ram
    BY <1>5, MemoryMoves
  <2>. QED  BY <1>3, <1>4, <1>5, <2>1
<1>6. ASSUME m_is_halted PROVE \/ ArchMem' = ArchMem
                               \/ \E a, v \in Word : ArchMem' = [ArchMem EXCEPT ![a] = v]
  <2>1. ~Leave /\ ~mem_request
    BY <1>6, MemoryMoves
  <2>. QED  BY <1>3, <1>6, <2>1, MemoryMoves
<1>. QED  BY <1>2, <1>5, <1>6

\* The program's registers hold words.
LEMMA ArchRegsTyped == TypeOK => ArchRegs \in [Reg -> Word]
<1>. SUFFICES ASSUME TypeOK PROVE ArchRegs \in [Reg -> Word]
  OBVIOUS
<1>1. MemPending \in Word
  BY DEF TypeOK, MemTypeOK, MemPending, MemResult
<1>2. regs \in [Reg -> Word] /\ wb_res \in Word
  BY DEF TypeOK, DecodeTypeOK, WbTypeOK
<1>. QED  BY <1>1, <1>2 DEF ArchRegs, WithWrite

\* The registers the program sees: they change when an instruction leaves the
\* execution stage, whatever is still on its way to the register file.
LEMMA ArchRegsMove ==
  ASSUME TypeOK, RequestOpen, MemoryAnswers, RunTick
  PROVE  ArchRegs' = WithWrite(ArchRegs, Leave /\ RegWrite(ex_insn), ex_insn.rd,
                               IF MemToReg(ex_insn) THEN ArchMem[AluOut] ELSE AluOut)
<1>1. PICK halt_req \in {FALSE, MayHalt}, resume_req \in BOOLEAN, dbg \in DebugInputs :
        Tick(halt_req, resume_req, dbg)
  BY DEF RunTick
<1>. DEFINE wb == WithWrite(regs, WbRegWrite, WbRd, wb_res)
<1>2. ArchRegs = WithWrite(wb, mem_valid /\ RegWrite(mem_insn), mem_insn.rd, MemPending)
  BY DEF ArchRegs
<1>3. ArchRegs' = WithWrite(wb', mem_valid' /\ RegWrite(mem_insn'), mem_insn'.rd, MemPending')
  BY DEF ArchRegs, WithWrite, RegWrite
<1>4. regs' = wb
  BY <1>1 DEF Tick, AroundExec, DecodeTick, RegisterFile, WithWrite
<1>5. wb_valid' = Hand /\ (Hand => wb_insn' = mem_insn /\ wb_res' = MemResult)
  BY <1>1 DEF Tick, AroundExec, WbTick, Hand
<1>6. wb' = IF Hand THEN ArchRegs ELSE wb
  <2>1. CASE Hand
    <3>1. wb' = WithWrite(wb, RegWrite(mem_insn), mem_insn.rd, MemResult)
      BY <1>4, <1>5, <2>1 DEF WithWrite, WbRegWrite, WbRd, RegWrite
    <3>2. MemPending = MemResult /\ mem_valid
      BY <2>1, MemoryMoves DEF MemPending
    <3>. QED  BY <1>2, <2>1, <3>1, <3>2 DEF WithWrite
  <2>2. CASE ~Hand
    BY <1>4, <1>5, <2>2 DEF WithWrite, WbRegWrite
  <2>. QED  BY <2>1, <2>2
<1>. HIDE DEF wb
<1>7. CASE Leave
  <2>1. wb' = ArchRegs
    BY <1>2, <1>6, <1>7, MemoryMoves DEF WithWrite
  <2>2. /\ mem_valid' /\ mem_insn' = ex_insn /\ mem_alu' = AluOut
        /\ mem_request' <=> MemOp(ex_insn)
        /\ ram' = ArchMem
    BY <1>7, MemoryMoves, ArchMemMoves DEF Answer
  <2>3. RegWrite(ex_insn) =>
          MemPending' = IF MemToReg(ex_insn) THEN ArchMem[AluOut] ELSE AluOut
    BY <2>2 DEF MemPending, MemResult, MemToReg, MemOp, RegWrite
  <2>. QED  BY <1>3, <1>7, <2>1, <2>2, <2>3 DEF WithWrite
<1>8. CASE ~Leave /\ Hand
  BY <1>3, <1>6, <1>8, MemoryMoves DEF WithWrite
<1>9. CASE ~Leave /\ ~Hand
  <2>1. (mem_valid' <=> mem_valid) /\ UNCHANGED <<mem_insn, mem_alu>>
    BY <1>9, MemoryMoves
  <2>2. ASSUME mem_valid, RegWrite(mem_insn) PROVE MemPending' = MemPending
    <3>1. ~MemWrite(mem_insn) /\ (MemOp(mem_insn) => MemToReg(mem_insn))
      BY <2>2 DEF RegWrite, MemWrite, MemOp, MemToReg
    <3>2. CASE ~mem_request
      BY <1>9, <2>1, <3>2, MemoryMoves DEF MemPending, MemResult, MemToReg, Answer
    <3>3. CASE mem_request /\ ~Answer
      BY <1>9, <2>1, <3>1, <3>3, MemoryMoves DEF MemPending
    <3>4. CASE mem_request /\ Answer
      <4>1. MemToReg(mem_insn) /\ ram_data = ram[mem_alu]
        BY <3>1, <3>4 DEF MemoryAnswers, Answer
      <4>2. ~mem_request' /\ mem_data' = ram_data
        BY <3>4, <4>1, MemoryMoves
      <4>. QED  BY <2>1, <3>4, <4>1, <4>2 DEF MemPending, MemResult, MemToReg
    <3>. QED  BY <3>2, <3>3, <3>4
  <2>. QED  BY <1>2, <1>3, <1>6, <1>9, <2>1, <2>2 DEF WithWrite, RegWrite
<1>. QED  BY <1>7, <1>8, <1>9

-----------------------------------------------------------------------------
(* The execution stage                                                       *)

\* The program's pc moves when an instruction leaves the execution stage: to its
\* successor, wherever in the pipeline that is, or to the branch target.
LEMMA ArchPcMoves ==
  ASSUME TypeOK, ExecHoldsOne, FetchStarts, RedirectKept, StraightLine, RunTick
  PROVE  /\ ~Leave => ArchPc' = ArchPc
         /\ Leave  => /\ ExBusy /\ ArchPc = ex_pc
                      /\ ArchPc' = IF ex_pc_we_out THEN PcBranchOut ELSE Plus(ex_pc, 1)
<1>1. Enter => m_valid
  BY DEF Enter, Issue, DecodeValidOut
<1>2. Took => ~m_valid \/ Enter
  BY DEF Took, id_ready_in, DecodeReadyIn, Enter, Issue
<1>3. m_valid \/ ExBusy => ~pc_we_buf
  BY DEF RedirectKept
<1>4. Leave => ExBusy
  BY ExecMoves DEF Leave
<1>5. /\ ExBusy => ArchPc = ex_pc
      /\ ~ExBusy /\ m_valid => ArchPc = m_pc
      /\ ~ExBusy /\ ~m_valid => ArchPc = FetchPc
  BY DEF ArchPc, FetchPc
<1>6. /\ ExBusy' => ArchPc' = ex_pc'
      /\ ~ExBusy' /\ m_valid' => ArchPc' = m_pc'
      /\ ~ExBusy' /\ ~m_valid' => ArchPc' = FetchPc'
  BY DEF ArchPc, FetchPc
<1>7. CASE Leave /\ ex_pc_we_out
  BY <1>4, <1>5, <1>6, <1>7, FetchMoves, ExecMoves
<1>8. CASE Leave /\ ~ex_pc_we_out
  <2>1. ~pc_we_buf /\ (IF m_valid THEN m_pc ELSE pc) = Plus(ex_pc, 1)
    BY <1>3, <1>4, <1>8 DEF StraightLine
  <2>2. CASE Enter
    BY <1>1, <1>4, <1>5, <1>6, <1>8, <2>1, <2>2, ExecMoves, ExecLatches
  <2>3. CASE ~Enter
    <3>1. ~ExBusy' /\ (m_valid => m_valid' /\ ~Took)
      BY <1>2, <1>8, <2>3, ExecMoves, FetchMoves
    <3>2. FetchPc = pc
      BY <2>1 DEF FetchPc
    <3>. QED  BY <1>4, <1>5, <1>6, <1>8, <2>1, <2>3, <3>1, <3>2, FetchMoves
  <2>. QED  BY <2>2, <2>3
<1>9. CASE ~Leave
  <2>1. ~ex_pc_we_out
    BY <1>9, FetchMoves
  <2>2. CASE ExBusy
    <3>1. ~Enter /\ ExBusy' /\ ex_pc' = ex_pc
      BY <1>9, <2>2, ExecMoves, ExecLatches
    <3>. QED  BY <1>5, <1>6, <1>9, <2>2, <3>1
  <2>3. CASE ~ExBusy /\ Enter
    BY <1>1, <1>5, <1>6, <1>9, <2>3, ExecMoves, ExecLatches
  <2>4. CASE ~ExBusy /\ ~Enter /\ m_valid
    BY <1>2, <1>5, <1>6, <1>9, <2>1, <2>4, ExecMoves, FetchMoves
  <2>5. CASE ~ExBusy /\ ~m_valid
    <3>1. ~Enter /\ ~ExBusy'
      BY <1>1, <1>9, <2>5, ExecMoves
    <3>2. Took => FetchPc = pc
      BY FetchMoves DEF FetchPc
    <3>. QED  BY <1>5, <1>6, <1>9, <2>1, <2>5, <3>1, <3>2, FetchMoves
  <2>. QED  BY <2>2, <2>3, <2>4, <2>5
<1>. QED  BY <1>7, <1>8, <1>9

\* Nothing that enters the execution stage reads what the instruction it follows
\* writes, and nothing else changes the program's registers meanwhile.
LEMMA UnitsComputeStep ==
  ASSUME Inv, UnitsCompute, MemoryAnswers, RunTick
  PROVE  UnitsCompute'
<1>1. PICK halt_req \in {FALSE, MayHalt}, resume_req \in BOOLEAN, dbg \in DebugInputs :
        Tick(halt_req, resume_req, dbg)
  BY DEF RunTick
<1>2. TypeOK /\ ExecHoldsOne /\ RequestOpen /\ OperandsCurrent
  BY OperandsInv DEF Inv
<1>3. /\ ExBusy' <=> Enter \/ (ExBusy /\ ~Leave)
      /\ Leave => ExBusy
      /\ Enter => ~ExBusy \/ Leave
  BY <1>2, ExecMoves DEF Leave
<1>4. ASSUME ExBusy' PROVE ex_rs1' = ArchRegs'[ex_insn'.rs1] /\ ex_rs2' = ArchRegs'[ex_insn'.rs2]
  <2>1. CASE Enter
    <3>1. ASSUME NEW r \in {m_insn.rs1, m_insn.rs2} PROVE regs[r] = ArchRegs'[r]
      <4>1. regs[r] = ArchRegs[r] /\ ~ExWrites(r)
        BY <1>2, <2>1 DEF OperandsCurrent, Enter
      <4>2. ~(Leave /\ RegWrite(ex_insn) /\ ex_insn.rd = r)
        BY <1>3, <4>1 DEF ExWrites
      <4>3. r \in Reg /\ ArchRegs \in [Reg -> Word]
        BY <1>2, ArchRegsTyped DEF TypeOK, DecodeTypeOK, Insn
      <4>. QED  BY <1>2, <4>1, <4>2, <4>3, ArchRegsMove DEF WithWrite
    <3>. QED  BY <2>1, <3>1, ExecLatches
  <2>2. CASE ~Enter
    <3>1. ExBusy /\ ~Leave /\ UNCHANGED <<ex_insn, ex_rs1, ex_rs2>>
      BY <1>3, <1>4, <2>2, ExecLatches
    <3>2. ArchRegs' = ArchRegs
      BY <1>2, <3>1, ArchRegsMove DEF WithWrite
    <3>. QED  BY <3>1, <3>2 DEF UnitsCompute
  <2>. QED  BY <2>1, <2>2
<1>. DEFINE out == mem_ready_in /\ ~halt_req_in
            ent == id_valid_out /\ ex_ready_in
            a   == Src1(m_insn, m_pc, regs[m_insn.rs1])
            b   == Src2(m_insn, regs[m_insn.rs2])
<1>5. Enter <=> ent
  BY DEF Enter, Issue, id_valid_out
<1>6. /\ IaluTick(ent /\ AluEn(m_insn), AluOp(m_insn), a, b, out)
      /\ ImulTick(ent /\ MduEn(m_insn) /\ ~DivOp(m_insn), m_insn.funct, a, b, out)
      /\ IdivTick(ent /\ DivOp(m_insn), m_insn.funct, a, b, out)
  BY <1>1 DEF Tick, AroundExec, ExecTick, ex_ready_in
<1>. DEFINE div == ent /\ DivOp(m_insn)
<1>7. /\ div_cnt' = IF div THEN DivTicks ELSE IF div_cnt > 0 THEN div_cnt - 1 ELSE 0
      /\ div_valid' => ~div /\ (div_cnt = 1 \/ (div_valid /\ ~out))
      /\ div_res' = IF div THEN ImduRes(m_insn.funct, a, b) ELSE div_res
  BY <1>6 DEF IdivTick
<1>8. CASE Enter
  <2>1. ex_insn' = m_insn /\ SrcA' = a /\ SrcB' = b
    BY <1>8, ExecLatches DEF SrcA, SrcB
  <2>2. /\ div_cnt = 0
        /\ out \/ (~alu_valid /\ ~mul_valid /\ ~div_valid)
    BY <1>5, <1>8 DEF ex_ready_in, ExecReadyIn, AluReadyIn, MulReadyIn, DivReadyIn
  <2>. HIDE DEF a, b, out
  <2>3. alu_valid' => /\ ialu_res' = IaluRes(AluOp(ex_insn'), SrcA', SrcB')
                      /\ branch_en' = IaluBranchEn(AluOp(ex_insn'), SrcA', SrcB')
    BY <1>5, <1>6, <1>8, <2>1, <2>2 DEF IaluTick
  <2>4. mul_valid' => mul_res' = ImduRes(ex_insn'.funct, SrcA', SrcB')
    BY <1>5, <1>6, <1>8, <2>1, <2>2 DEF ImulTick
  <2>5. div_valid' \/ div_cnt' > 0 => div_res' = ImduRes(ex_insn'.funct, SrcA', SrcB')
    BY <1>7, <1>8, <2>1, <2>2
  <2>. QED  BY <1>4, <2>3, <2>4, <2>5 DEF UnitsCompute, AluOp
<1>9. CASE ~Enter
  <2>1. UNCHANGED <<ex_insn, ex_pc, ex_rs1, ex_rs2>> /\ SrcA' = SrcA /\ SrcB' = SrcB
    BY <1>9, ExecLatches DEF SrcA, SrcB
  <2>2. div_cnt \in 0 .. DivTicks /\ branch_en \in BOOLEAN
    BY <1>2 DEF TypeOK, ExecTypeOK
  <2>. HIDE DEF a, b, out
  <2>3. alu_valid' => alu_valid /\ ialu_res' = ialu_res /\ branch_en' = branch_en
    BY <1>5, <1>6, <1>9, <2>2 DEF IaluTick
  <2>4. mul_valid' => mul_valid /\ mul_res' = mul_res
    BY <1>5, <1>6, <1>9 DEF ImulTick
  <2>5. div_valid' \/ div_cnt' > 0 => (div_valid \/ div_cnt > 0) /\ div_res' = div_res
    BY <1>5, <1>7, <1>9, <2>2, SizesAssumption
  <2>. QED  BY <1>4, <2>1, <2>3, <2>4, <2>5 DEF UnitsCompute, AluOp
<1>. QED  BY <1>8, <1>9

-----------------------------------------------------------------------------
(* The instruction set                                                       *)

\* What leaves the execution stage is the result of its instruction, and it
\* redirects the fetch stage exactly if the instruction does.
LEMMA ExecResult ==
  ASSUME ExecHoldsOne, UnitsCompute, Leave
  PROVE  /\ AluOut = IF MduEn(ex_insn) THEN ImduRes(ex_insn.funct, SrcA, SrcB)
                     ELSE IaluRes(AluOp(ex_insn), SrcA, SrcB)
         /\ ex_pc_we_out <=> \/ JumpEn(ex_insn)
                             \/ AluEn(ex_insn) /\ IaluBranchEn(AluOp(ex_insn), SrcA, SrcB)
<1>1. ex_valid_out /\ mem_ready_in /\ ExecValidOut(halt_req_in)
  BY DEF Leave, ex_valid_out
<1>2. IF MduEn(ex_insn) THEN mul_valid \/ div_valid ELSE alu_valid
  BY <1>1 DEF ExecValidOut, AluEn
<1>3. AluOut = IF MduEn(ex_insn) THEN ImduRes(ex_insn.funct, SrcA, SrcB)
               ELSE IaluRes(AluOp(ex_insn), SrcA, SrcB)
  BY <1>2 DEF AluOut, AluEn, UnitsCompute
<1>4. AluEn(ex_insn) => (branch_en <=> IaluBranchEn(AluOp(ex_insn), SrcA, SrcB))
  BY <1>2 DEF AluEn, UnitsCompute
<1>. QED  BY <1>1, <1>3, <1>4 DEF ex_pc_we_out, PcWeOut

\* The constants the ALU gets in place of a register leave the other operand as
\* it is, or step it by one.
LEMMA ConstantOperands ==
  ASSUME NEW a \in Word
  PROVE  Plus(0, a) = a /\ Plus(a, 1 % WordSize) = Plus(a, 1)
<1>1. CASE WordSize = 1
  BY <1>1 DEF Plus, Word
<1>2. CASE WordSize > 1
  <2>1. 1 % WordSize = 1
    BY <1>2, SizesAssumption
  <2>. QED  BY <2>1, SizesAssumption DEF Plus, Word
<1>. QED  BY <1>1, <1>2, SizesAssumption

\* The tick in which an instruction leaves the execution stage is its step of the
\* instruction set.
LEMMA LeaveExecutes ==
  ASSUME Inv, DataInv, RunTick, Leave
  PROVE  Riscv!Execute
<1>. DEFINE i  == ex_insn
            op == ex_insn.opcode
<1>1. /\ TypeOK /\ ExecHoldsOne /\ FetchStarts /\ RedirectKept /\ RequestOpen
      /\ StagesHoldProgram /\ StraightLine /\ UnitsCompute /\ MemoryAnswers
  BY DEF Inv, DataInv
<1>2. ExBusy /\ ArchPc = ex_pc /\ ArchPc' = IF ex_pc_we_out THEN PcBranchOut ELSE Plus(ex_pc, 1)
  BY <1>1, ArchPcMoves
<1>3. Riscv!I = i /\ Riscv!X1 = ex_rs1 /\ Riscv!X2 = ex_rs2
  BY <1>1, <1>2 DEF Riscv!I, Riscv!X1, Riscv!X2, StagesHoldProgram, UnitsCompute
<1>4. /\ i.opcode \in Opcode /\ i.funct \in Functs(op) /\ i.imm \in Word /\ i.rd \in Reg
      /\ ex_rs1 \in Word /\ ex_rs2 \in Word /\ ex_pc \in Word
  BY <1>1 DEF TypeOK, ExecTypeOK, Insn
<1>5. /\ ArchMem' = IF op = "STORE" THEN [ArchMem EXCEPT ![AluOut] = ex_rs2] ELSE ArchMem
      /\ ArchRegs' = WithWrite(ArchRegs, RegWrite(i), i.rd,
                               IF op = "LOAD" THEN ArchMem[AluOut] ELSE AluOut)
  BY <1>1, ArchMemMoves, ArchRegsMove DEF MemWrite, MemToReg, WithWrite
<1>6. /\ AluOut = IF MduEn(i) THEN ImduRes(i.funct, SrcA, SrcB) ELSE IaluRes(AluOp(i), SrcA, SrcB)
      /\ ex_pc_we_out <=> JumpEn(i) \/ (AluEn(i) /\ IaluBranchEn(AluOp(i), SrcA, SrcB))
  BY <1>1, ExecResult
<1>7. ~m_is_halted
  BY <1>1, MemoryMoves
<1>8. /\ Riscv!Advance <=> ArchPc' = Plus(ex_pc, 1)
      /\ \A v : RegWrite(i) /\ op # "LOAD" /\ v = AluOut => Riscv!Write(v)
      /\ \A a, b : Riscv!Plus(a, b) = Plus(a, b) /\ Riscv!Minus(a, b) = Minus(a, b)
  BY <1>2, <1>3, <1>5 DEF Riscv!Advance, Riscv!Write, Riscv!Plus, Plus, Riscv!Minus, Minus, WithWrite
<1>9. /\ ~RegWrite(i) => UNCHANGED ArchRegs
      /\ op # "STORE" => UNCHANGED ArchMem
      /\ ~ex_pc_we_out => Riscv!Advance
  BY <1>2, <1>5, <1>8 DEF WithWrite
<1>. HIDE DEF i, op
<1>10. CASE op = "OP"
  <2>1. SrcA = ex_rs1 /\ SrcB = ex_rs2 /\ AluOp(i) = i.funct
    BY <1>10 DEF SrcA, SrcB, Src1, Src2, AluOp, i, op
  <2>2. i.funct \in {"ADD", "SUB", "SLTU"} \cup MduOp
    BY <1>4, <1>10 DEF Functs
  <2>3. AluOut = Riscv!Arith(ex_rs1, ex_rs2)
    BY <1>3, <1>6, <1>8, <1>10, <2>1, <2>2
       DEF MduEn, ImduRes, IaluRes, Riscv!Arith, MduOp, i, op
  <2>4. ~ex_pc_we_out
    BY <1>6, <1>10, <2>1, <2>2 DEF JumpEn, AluEn, MduEn, IaluBranchEn, MduOp, i, op
  <2>5. Riscv!Write(AluOut)
    BY <1>8, <1>10 DEF RegWrite, i, op
  <2>. QED  BY <1>3, <1>7, <1>9, <1>10, <2>3, <2>4, <2>5 DEF Riscv!Execute, Riscv!Compute, i, op
<1>11. CASE op = "OP_IMM"
  <2>1. SrcA = ex_rs1 /\ SrcB = i.imm /\ AluOp(i) = i.funct /\ AluEn(i) /\ ~MduEn(i)
    BY <1>11 DEF SrcA, SrcB, Src1, Src2, AluOp, AluEn, MduEn, i, op
  <2>2. i.funct \in {"ADD", "SLTU"}
    BY <1>4, <1>11 DEF Functs
  <2>3. AluOut = Riscv!Arith(ex_rs1, i.imm)
    BY <1>3, <1>6, <1>8, <2>1, <2>2 DEF IaluRes, Riscv!Arith, i
  <2>4. ~ex_pc_we_out
    BY <1>6, <1>11, <2>1, <2>2 DEF JumpEn, IaluBranchEn, i, op
  <2>5. Riscv!Write(AluOut)
    BY <1>8, <1>11 DEF RegWrite, i, op
  <2>. QED  BY <1>3, <1>7, <1>9, <1>11, <2>3, <2>4, <2>5 DEF Riscv!Execute, Riscv!Compute, i, op
<1>12. ASSUME op \notin {"OP", "OP_IMM", "BRANCH"}
       PROVE  AluOut = Plus(SrcA, SrcB) /\ (ex_pc_we_out <=> JumpEn(i))
  BY <1>6, <1>12 DEF AluOp, MduEn, AluEn, IaluRes, IaluBranchEn, i, op
<1>13. CASE op = "LUI"
  <2>1. AluOut = i.imm /\ ~ex_pc_we_out
    BY <1>4, <1>12, <1>13, ConstantOperands DEF SrcA, SrcB, Src1, Src2, JumpEn, i, op
  <2>2. Riscv!Write(AluOut)
    BY <1>8, <1>13 DEF RegWrite, i, op
  <2>. QED  BY <1>3, <1>7, <1>9, <1>13, <2>1, <2>2 DEF Riscv!Execute, Riscv!Compute, i, op
<1>14. CASE op = "AUIPC"
  <2>1. AluOut = Plus(ex_pc, i.imm) /\ ~ex_pc_we_out
    BY <1>12, <1>14 DEF SrcA, SrcB, Src1, Src2, JumpEn, i, op
  <2>2. Riscv!Write(AluOut)
    BY <1>8, <1>14 DEF RegWrite, i, op
  <2>. QED  BY <1>2, <1>3, <1>7, <1>8, <1>9, <1>14, <2>1, <2>2 DEF Riscv!Execute, Riscv!Compute, i, op
<1>15. CASE op = "OTHER"
  <2>1. ~ex_pc_we_out /\ ~RegWrite(i)
    BY <1>12, <1>15 DEF JumpEn, RegWrite, i, op
  <2>. QED  BY <1>3, <1>7, <1>9, <1>15, <2>1 DEF Riscv!Execute, Riscv!Compute, i, op
<1>16. CASE op \in {"LOAD", "STORE"}
  <2>1. AluOut = Riscv!Address /\ ~ex_pc_we_out
    BY <1>3, <1>8, <1>12, <1>16 DEF SrcA, SrcB, Src1, Src2, JumpEn, Riscv!Address, i, op
  <2>2. CASE op = "LOAD"
    <3>1. Riscv!Write(ArchMem[Riscv!Address])
      BY <1>3, <1>5, <2>1, <2>2 DEF RegWrite, WithWrite, Riscv!Write, i, op
    <3>. QED  BY <1>3, <1>7, <1>9, <2>1, <2>2, <3>1 DEF Riscv!Execute, Riscv!Load, i, op
  <2>3. CASE op = "STORE"
    <3>1. ~RegWrite(i) /\ ArchMem' = [ArchMem EXCEPT ![Riscv!Address] = Riscv!X2]
      BY <1>3, <1>5, <2>1, <2>3 DEF RegWrite, i, op
    <3>. QED  BY <1>3, <1>7, <1>9, <2>1, <2>3, <3>1 DEF Riscv!Execute, Riscv!Store, i, op
  <2>. QED  BY <1>16, <2>2, <2>3
<1>17. CASE op \in {"JAL", "JALR"}
  <2>1. AluOut = Plus(ex_pc, 1) /\ ex_pc_we_out
    BY <1>4, <1>12, <1>17, ConstantOperands DEF SrcA, SrcB, Src1, Src2, JumpEn, i, op
  <2>2. ArchPc' = Plus(BranchBase(i, ex_pc, ex_rs1), i.imm)
    BY <1>2, <2>1 DEF PcBranchOut, i
  <2>3. Riscv!Write(Plus(ex_pc, 1))
    BY <1>8, <1>17, <2>1 DEF RegWrite, i, op
  <2>. QED  BY <1>2, <1>3, <1>7, <1>8, <1>9, <1>17, <2>2, <2>3
            DEF Riscv!Execute, Riscv!Jump, BranchBase, i, op
<1>18. CASE op = "BRANCH"
  <2>1. SrcA = ex_rs1 /\ SrcB = ex_rs2 /\ AluOp(i) = i.funct /\ AluEn(i) /\ ~JumpEn(i) /\ ~RegWrite(i)
    BY <1>18 DEF SrcA, SrcB, Src1, Src2, AluOp, AluEn, MduEn, JumpEn, RegWrite, i, op
  <2>2. i.funct \in {"EQ", "NEQ", "LTU", "GEU"} /\ ex_rs1 \in Int /\ ex_rs2 \in Int
    BY <1>4, <1>18 DEF Functs, Word
  <2>3. ex_pc_we_out <=> Riscv!Taken
    BY <1>3, <1>6, <2>1, <2>2 DEF IaluBranchEn, Riscv!Taken
  <2>4. ex_pc_we_out => ArchPc' = Plus(ex_pc, i.imm)
    BY <1>2, <1>18 DEF PcBranchOut, BranchBase, i, op
  <2>. QED  BY <1>2, <1>3, <1>7, <1>8, <1>9, <1>18, <2>1, <2>3, <2>4
            DEF Riscv!Execute, Riscv!Branch, i, op
<1>. QED
  <2>1. op \in Opcode
    BY <1>4 DEF op, i
  <2>. QED  BY <1>10, <1>11, <1>13, <1>14, <1>15, <1>16, <1>17, <1>18, <2>1 DEF Opcode

\* A tick in which nothing leaves the execution stage shows the program nothing,
\* unless it is the debugger's, in a halted processor.
LEMMA TickFollows ==
  ASSUME Inv, DataInv, RunTick
  PROVE  Riscv!Next
<1>1. /\ TypeOK /\ ExecHoldsOne /\ FetchStarts /\ RedirectKept /\ RequestOpen
      /\ StraightLine /\ MemoryAnswers
  BY DEF Inv, DataInv
<1>2. UNCHANGED rom /\ m_is_halted' \in BOOLEAN
  BY DEF RunTick, Tick, AroundExec, m_is_halted
<1>3. CASE Leave
  BY <1>2, <1>3, LeaveExecutes DEF Riscv!Next
<1>4. CASE ~Leave
  <2>1. UNCHANGED <<ArchPc, ArchRegs>>
    BY <1>1, <1>4, ArchPcMoves, ArchRegsMove DEF WithWrite
  <2>2. CASE m_is_halted
    BY <1>1, <1>2, <2>1, <2>2, ArchMemMoves
       DEF Riscv!Next, Riscv!Idle, Riscv!DebugWrite, Riscv!Word, Word
  <2>3. CASE ~m_is_halted
    BY <1>1, <1>2, <1>4, <2>1, <2>3, ArchMemMoves DEF Riscv!Next, Riscv!Idle
  <2>. QED  BY <2>2, <2>3
<1>. QED  BY <1>3, <1>4

\* A reset starts the program again; the store it may lose is one word.
LEMMA ResetFollows ==
  ASSUME TypeOK, ResetTick
  PROVE  Riscv!Next
<1>1. /\ ~ExBusy' /\ ~m_valid' /\ ~pc_we_buf' /\ pc' = 0 /\ ~mem_valid' /\ ~wb_valid'
      /\ regs' = [r \in Reg |-> 0] /\ ram' = ram /\ rom' = rom
  BY DEF ResetTick, AroundExecReset, ExecReset, MemReset, WbReset, FetchReset, DecodeReset, RamTick, NoAccess, ExBusy
<1>2. ArchPc' = 0
  BY <1>1 DEF ArchPc
<1>3. ArchRegs' = [r \in Reg |-> 0]
  BY <1>1 DEF ArchRegs, WithWrite, WbRegWrite
<1>4. ArchMem' = ram
  BY <1>1 DEF ArchMem
<1>5. ram \in [Word -> Word] /\ mem_alu \in Word
  BY DEF TypeOK, MemTypeOK
<1>6. ArchMem' = ArchMem \/ \E a, v \in Word : ArchMem' = [ArchMem EXCEPT ![a] = v]
  <2>1. CASE ArchMem = ram
    BY <1>4, <2>1
  <2>2. CASE ArchMem = [ram EXCEPT ![mem_alu] = mem_rs2]
    <3>1. ram[mem_alu] \in Word /\ ram = [ArchMem EXCEPT ![mem_alu] = ram[mem_alu]]
      BY <1>5, <2>2
    <3>. QED  BY <1>4, <1>5, <3>1
  <2>. QED  BY <2>1, <2>2 DEF ArchMem
<1>7. m_is_halted' \in BOOLEAN
  BY DEF m_is_halted
<1>8. Riscv!Reset
  BY <1>2, <1>3, <1>6 DEF Riscv!Reset, Riscv!Word, Riscv!Reg, Word, Reg
<1>. QED  BY <1>1, <1>7, <1>8 DEF Riscv!Next

\* Nothing is in the pipeline at first, and its program is that of the memory.
LEMMA InitFollows == Init => DataInv /\ Riscv!Init
<1>. SUFFICES ASSUME Init PROVE DataInv /\ Riscv!Init
  OBVIOUS
<1>1. /\ ~ExBusy /\ ~m_valid /\ ~pc_we_buf /\ pc = 0 /\ ~mem_valid /\ ~wb_valid /\ ~mem_request
      /\ ~rom_ack /\ cur_state = "IDLE" /\ ~halt_req_in
      /\ ~alu_valid /\ ~mul_valid /\ ~div_valid /\ div_cnt = 0
  BY DEF Init, ExBusy
<1>2. DataInv
  BY <1>1 DEF DataInv, StagesHoldProgram, StraightLine, UnitsCompute, MemoryAnswers
<1>3. ArchPc = 0 /\ ArchRegs = regs /\ ArchMem = ram /\ m_is_halted = FALSE
  BY <1>1 DEF ArchPc, ArchRegs, ArchMem, WithWrite, WbRegWrite, m_is_halted, FetchHaltAck
<1>4. rom \in [Word -> Insn] /\ regs = [r \in Reg |-> 0] /\ ram \in [Word -> Word]
  BY CoreAssumption, ConstantsAreWords DEF Init
<1>5. rom \in [Riscv!Word -> Riscv!Insn] /\ ram \in [Riscv!Word -> Riscv!Word]
  BY <1>4 DEF Riscv!Word, Word, Riscv!Insn, Insn, Riscv!Reg, Reg, Riscv!Opcode, Opcode,
              Riscv!IaluOp, IaluOp, Riscv!MduOp, MduOp, Riscv!Functs, Functs
<1>. QED  BY <1>2, <1>3, <1>4, <1>5 DEF Riscv!Init, Riscv!Reg, Reg

\* A reset empties the stages, so that only a tick needs the step lemmas.
LEMMA DataStep == Inv /\ DataInv /\ [Next]_vars => DataInv'
<1>1. ASSUME Inv, DataInv, RunTick PROVE DataInv'
  BY <1>1, StagesHoldProgramStep, StraightLineStep, UnitsComputeStep, MemoryAnswersStep
     DEF Inv, DataInv
<1>2. ASSUME ResetTick PROVE DataInv'
  <2>1. /\ ~ExBusy' /\ ~m_valid' /\ ~mem_request' /\ ~rom_ack' /\ cur_state' = "IDLE"
        /\ ~alu_valid' /\ ~mul_valid' /\ ~div_valid' /\ div_cnt' = 0
    BY <1>2 DEF ResetTick, AroundExecReset, ExecReset, MemReset, FetchReset, DecodeReset, RomTick, ExBusy
  <2>. QED  BY <2>1 DEF DataInv, StagesHoldProgram, StraightLine, UnitsCompute, MemoryAnswers
<1>3. ASSUME DataInv, UNCHANGED vars PROVE DataInv'
  <2>1. /\ UNCHANGED <<fetchVars, decodeVars, execVars, memVars, wbVars, rom, romVars, ramVars>>
    BY <1>3 DEF vars
  <2>2. ArchRegs' = ArchRegs /\ ExBusy' = ExBusy /\ SrcA' = SrcA /\ SrcB' = SrcB
    BY <2>1 DEF fetchVars, decodeVars, execVars, memVars, wbVars, ramVars, ArchRegs, WithWrite,
                WbRegWrite, WbRd, MemPending, MemResult, ExBusy, SrcA, SrcB
  <2>. QED  BY <1>3, <2>1, <2>2
            DEF fetchVars, decodeVars, execVars, memVars, romVars, ramVars, DataInv,
                StagesHoldProgram, StraightLine, UnitsCompute, MemoryAnswers
<1>. QED  BY <1>1, <1>2, <1>3 DEF Next

\* The pipeline implements the instruction set: whatever the program, the pace of
\* the memories and the halts and resets, its registers, its memory and its pc
\* change as if one instruction were executed after the other.
THEOREM ImplementsInstructionSet == Spec => ImplementsIsa
<1>1. Init => Inv /\ DataInv /\ Riscv!Init
  BY InitInv, InitFollows
<1>2. Inv /\ DataInv /\ [Next]_vars => (Inv /\ DataInv)'
  BY StepInv, DataStep
<1>3. Inv /\ DataInv /\ [Next]_vars => [Riscv!Next]_(Riscv!ivars)
  <2>. SUFFICES ASSUME Inv, DataInv, [Next]_vars PROVE [Riscv!Next]_(Riscv!ivars)
    OBVIOUS
  <2>1. CASE RunTick
    BY <2>1, TickFollows
  <2>2. CASE ResetTick
    BY <2>2, ResetFollows DEF Inv
  <2>3. CASE UNCHANGED vars
    <3>1. UNCHANGED <<fetchVars, decodeVars, execVars, memVars, wbVars, coreVars, rom, ramVars>>
      BY <2>3 DEF vars
    <3>2. UNCHANGED <<ArchPc, ArchRegs, ArchMem, m_is_halted>>
      BY <3>1 DEF fetchVars, decodeVars, execVars, memVars, wbVars, coreVars, ramVars, ArchPc, ArchRegs,
                  ArchMem, WithWrite, WbRegWrite, WbRd, MemPending, MemResult, ExBusy,
                  m_is_halted, FetchHaltAck, MemHaltAck
    <3>. QED  BY <3>1, <3>2 DEF Riscv!ivars
  <2>. QED  BY <2>1, <2>2, <2>3 DEF Next
<1>. QED  BY <1>1, <1>2, <1>3, PTL DEF Spec, ImplementsIsa, Riscv!Spec

==============================================================================
