------------------------------- MODULE MemStage -------------------------------
(***************************************************************************)
(* The memory stage (arx_core/src/MemStage.sv).  A load or a store asks the *)
(* data memory once and keeps asking until the answer; anything else passes *)
(* in one cycle.  LoadStoreUnit is combinational: only whole words are      *)
(* modelled here, its byte lanes are data.                                  *)
(*                                                                          *)
(* Input ports: valid_in, insn, alu, x2 (from the execution stage), ack and *)
(* data (mem_ack_in, mem_data_in) and halt; the write-back stage is always  *)
(* ready (WriteBackStage.sv:81).                                            *)
(***************************************************************************)
EXTENDS ArxTypes

VARIABLES
  mem_valid,         \* valid_in_internal
  mem_insn,          \* rd, reg_write, mem_to_reg and mem_op_type of it
  mem_alu,           \* alu_in_internal: the result, or the address
  mem_rs2,           \* rs2_in_internal: what a store writes
  mem_request,
  mem_data_valid,
  mem_data           \* mem_data_internal

memVars == <<mem_valid, mem_insn, mem_alu, mem_rs2,
             mem_request, mem_data_valid, mem_data>>

MemTypeOK ==
  /\ mem_valid \in BOOLEAN
  /\ mem_insn \in Insn
  /\ mem_alu \in Word
  /\ mem_rs2 \in Word
  /\ mem_request \in BOOLEAN
  /\ mem_data_valid \in BOOLEAN
  /\ mem_data \in Word

-------------------------------------------------------------------------------
(* Combinational signals                                                     *)

MemValidOut(halt) == ~halt /\ mem_valid /\ mem_data_valid

MemReadyIn(halt) == ~halt /\ (~mem_valid \/ MemValidOut(halt))

\* mutants: a halt is acknowledged before the memory has answered; an empty
\* stage does not acknowledge
MemHaltAckEarly(halt) == halt
MemHaltAckLate(halt)  == halt /\ mem_data_valid

MemHaltAck(halt) == halt /\ (mem_data_valid \/ ~mem_valid)

CpuReq(ack) == mem_request /\ ~ack

\* the word that reaches the write-back stage
MemResult == IF MemToReg(mem_insn) THEN mem_data ELSE mem_alu

-------------------------------------------------------------------------------
(* One clock edge                                                            *)

MemTick(valid_in, insn, alu, x2, ack, data, halt) ==
  LET enter  == valid_in /\ MemReadyIn(halt)
      answer == mem_request /\ ack
  IN
  /\ mem_valid' = (enter \/ (mem_valid /\ ~MemValidOut(halt)))
  /\ mem_insn'  = IF enter THEN insn ELSE mem_insn
  /\ mem_alu'   = IF enter THEN alu ELSE mem_alu
  /\ mem_rs2'   = IF enter THEN x2 ELSE mem_rs2
  /\ mem_request' = (~answer /\ IF enter THEN MemOp(insn) ELSE mem_request)
  /\ mem_data_valid' = (answer \/ IF enter THEN ~MemOp(insn) ELSE mem_data_valid)
  /\ mem_data' = IF ~answer THEN mem_data
                 ELSE IF MemToReg(mem_insn) THEN data ELSE 0

\* arstn low
MemReset ==
  /\ mem_valid' = FALSE
  /\ mem_request' = FALSE
  /\ mem_data_valid' = FALSE
  /\ mem_data' = 0
  /\ UNCHANGED <<mem_insn, mem_alu, mem_rs2>>

===============================================================================
