---------------------------- MODULE WriteBackStage ----------------------------
(***************************************************************************)
(* The write-back stage (arx_core/src/WriteBackStage.sv): a register that   *)
(* always accepts, and writes the register file one cycle later, in a halt  *)
(* too.  The mux on mem_to_reg is applied on entry.                         *)
(***************************************************************************)
EXTENDS ArxTypes

VARIABLES
  wb_valid,
  wb_insn,
  wb_res

wbVars == <<wb_valid, wb_insn, wb_res>>

WbTypeOK ==
  /\ wb_valid \in BOOLEAN
  /\ wb_insn \in Insn
  /\ wb_res \in Word

WbRegWrite == wb_valid /\ RegWrite(wb_insn)

WbRd == IF wb_valid THEN wb_insn.rd ELSE 0

WbTick(valid_in, insn, res) ==
  /\ wb_valid' = valid_in
  /\ wb_insn'  = IF valid_in THEN insn ELSE wb_insn
  /\ wb_res'   = IF valid_in THEN res ELSE wb_res

WbReset == wb_valid' = FALSE /\ UNCHANGED <<wb_insn, wb_res>>

===============================================================================
