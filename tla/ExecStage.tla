------------------------------- MODULE ExecStage -------------------------------
(***************************************************************************)
(* The execution stage (arx_core/src/ExecStage.sv) with its units IALU, and *)
(* IMDU made of IMUL and IDIV.  The stage has no valid bit of its own: it   *)
(* is occupied exactly when one of the units is.  The control bits it       *)
(* latches are functions of the instruction, so the instruction is latched. *)
(*                                                                          *)
(* A unit's result is computed when the operands enter (the datapath of     *)
(* IDIV's DivTicks iterations is the concern of module IMDU); what is kept  *)
(* here is when it becomes valid.                                           *)
(*                                                                          *)
(* Input ports: valid_in, insn, p, x1, x2 (from the decode stage; x1, x2    *)
(* are rs1_in, rs2_in), ready (ready_out, from the memory stage) and halt.  *)
(***************************************************************************)
EXTENDS ArxTypes

VARIABLES
  ex_insn, ex_pc, ex_rs1, ex_rs2,
  alu_valid, branch_en, ialu_res,
  mul_valid, mul_res,
  div_cnt, div_valid, div_res

execVars == <<ex_insn, ex_pc, ex_rs1, ex_rs2, alu_valid, branch_en, ialu_res,
              mul_valid, mul_res, div_cnt, div_valid, div_res>>

ExecTypeOK ==
  /\ ex_insn \in Insn
  /\ ex_pc \in Word
  /\ ex_rs1 \in Word
  /\ ex_rs2 \in Word
  /\ alu_valid \in BOOLEAN
  /\ branch_en \in BOOLEAN
  /\ ialu_res \in Word
  /\ mul_valid \in BOOLEAN
  /\ mul_res \in Word
  /\ div_cnt \in 0 .. DivTicks
  /\ div_valid \in BOOLEAN
  /\ div_res \in Word

-------------------------------------------------------------------------------
(* Combinational signals                                                     *)

AluReadyIn(out)  == ~alu_valid \/ out
MulReadyIn(out)  == ~mul_valid \/ out
DivReadyIn(out)  == div_cnt = 0 /\ (~div_valid \/ out)

\* mutant: a running division does not keep the next instruction out
ExecReadyInAluMul(ready, halt) == ~halt /\ AluReadyIn(ready) /\ MulReadyIn(ready)

ExecReadyIn(ready, halt) ==
  ~halt /\ AluReadyIn(ready) /\ MulReadyIn(ready) /\ DivReadyIn(ready)

ExecValidOut(halt) ==
  /\ ~halt
  /\ \/ AluEn(ex_insn) /\ alu_valid
     \/ MduEn(ex_insn) /\ (mul_valid \/ div_valid)

AluOut ==
  IF AluEn(ex_insn) THEN ialu_res
  ELSE IF mul_valid THEN mul_res
  ELSE IF div_valid THEN div_res ELSE 0

PcBranchOut == Plus(BranchBase(ex_insn, ex_pc, ex_rs1), ex_insn.imm)

PcWeOut(ready, halt) ==
  /\ (AluEn(ex_insn) /\ branch_en) \/ JumpEn(ex_insn)
  /\ ExecValidOut(halt) /\ ready

-------------------------------------------------------------------------------
(* One clock edge.  "out" is the ready_out the units see, 0 during a halt.   *)

IaluTick(enter, op, a, b, out) ==
  /\ alu_valid' = (enter \/ (alu_valid /\ ~out))
  /\ ialu_res'  = IF enter THEN IaluRes(op, a, b) ELSE ialu_res
  /\ branch_en' = IF enter THEN IaluBranchEn(op, a, b)
                  ELSE branch_en /\ ~(alu_valid /\ out)

ImulTick(enter, op, a, b, out) ==
  /\ mul_valid' = (enter \/ (mul_valid /\ ~out))
  /\ mul_res'   = IF enter THEN ImduRes(op, a, b) ELSE mul_res

\* mutant: the counter does not stop at zero
IdivTickFree(enter, op, a, b, out) ==
  /\ div_cnt'   = IF enter THEN DivTicks ELSE div_cnt - 1
  /\ div_valid' = (~enter /\ (div_cnt = 1 \/ (div_valid /\ ~out)))
  /\ div_res'   = IF enter THEN ImduRes(op, a, b) ELSE div_res

IdivTick(enter, op, a, b, out) ==
  /\ div_cnt'   = IF enter THEN DivTicks ELSE IF div_cnt > 0 THEN div_cnt - 1 ELSE 0
  /\ div_valid' = (~enter /\ (div_cnt = 1 \/ (div_valid /\ ~out)))
  /\ div_res'   = IF enter THEN ImduRes(op, a, b) ELSE div_res

ExecTick(valid_in, insn, p, x1, x2, ready, halt) ==
  LET enter == valid_in /\ ExecReadyIn(ready, halt)
      out   == ready /\ ~halt
      a     == Src1(insn, p, x1)
      b     == Src2(insn, x2)
  IN
  /\ IaluTick(enter /\ AluEn(insn), AluOp(insn), a, b, out)
  /\ ImulTick(enter /\ MduEn(insn) /\ ~DivOp(insn), insn.funct, a, b, out)
  /\ IdivTick(enter /\ DivOp(insn), insn.funct, a, b, out)
  /\ ex_insn' = IF enter THEN insn ELSE ex_insn
  /\ ex_pc'   = IF enter THEN p ELSE ex_pc
  /\ ex_rs1'  = IF enter THEN x1 ELSE ex_rs1
  /\ ex_rs2'  = IF enter THEN x2 ELSE ex_rs2

\* arstn low; only the units' state is reset, the stage registers are not
ExecReset ==
  /\ alu_valid' = FALSE /\ branch_en' = FALSE /\ ialu_res' = 0
  /\ mul_valid' = FALSE /\ mul_res' = 0
  /\ div_cnt' = 0 /\ div_valid' = FALSE /\ div_res' = 0
  /\ UNCHANGED <<ex_insn, ex_pc, ex_rs1, ex_rs2>>

===============================================================================
