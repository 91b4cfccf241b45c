---------------------------- MODULE InsnDecodeStage ----------------------------
(***************************************************************************)
(* The decode stage (arx_core/src/InsnDecodeStage.sv, RegisterFile.sv): one *)
(* instruction register, the register file, and the scoreboard m_used_reg,  *)
(* a two bit counter per register of the writes still to come.  An          *)
(* instruction leaves only when the counters of both its sources are zero.  *)
(*                                                                          *)
(* Input ports as parameters: valid_in, pc_in, insn_in (from the fetch      *)
(* stage), ready (ready_out, from the execution stage), flush, halt, and    *)
(* the write-back port we, rd, val (rd_we_in, rd_in, rd_val_in).            *)
(***************************************************************************)
EXTENDS ArxTypes

VARIABLES
  m_valid,
  m_pc,
  m_insn,
  m_used_reg,
  regs

decodeVars == <<m_valid, m_pc, m_insn, m_used_reg, regs>>

DecodeTypeOK ==
  /\ m_valid \in BOOLEAN
  /\ m_pc \in Word
  /\ m_insn \in Insn
  /\ m_used_reg \in [Reg -> 0 .. 3]
  /\ regs \in [Reg -> Word]

-------------------------------------------------------------------------------
(* Combinational signals                                                     *)

\* mutant: the scoreboard is consulted for the first source only
DecodeValidOutRs1Only(flush, halt) ==
  /\ ~flush /\ ~halt
  /\ m_valid
  /\ m_used_reg[m_insn.rs1] = 0

DecodeValidOut(flush, halt) ==
  /\ ~flush /\ ~halt
  /\ m_valid
  /\ m_used_reg[m_insn.rs1] = 0
  /\ m_used_reg[m_insn.rs2] = 0

DecodeReadyIn(ready, flush, halt) ==
  /\ ~flush /\ ~halt
  /\ ~m_valid \/ (DecodeValidOut(flush, halt) /\ ready)

\* the instruction goes to the execution stage at this edge
Issue(ready, flush, halt) == DecodeValidOut(flush, halt) /\ ready

-------------------------------------------------------------------------------
(* One clock edge                                                            *)

\* mutant: a taken branch does not flush the instruction behind it
StageRegisterUnflushed(valid_in, pc_in, insn_in, ready, flush, halt) ==
  LET enter == valid_in /\ DecodeReadyIn(ready, flush, halt)
  IN
  /\ m_valid' = (enter \/ (m_valid /\ ~Issue(ready, flush, halt)))
  /\ m_pc' = IF enter THEN pc_in ELSE m_pc
  /\ m_insn' = IF enter THEN insn_in ELSE m_insn

StageRegister(valid_in, pc_in, insn_in, ready, flush, halt) ==
  LET enter == valid_in /\ DecodeReadyIn(ready, flush, halt)
      leave == flush \/ Issue(ready, flush, halt)
  IN
  /\ m_valid' = (enter \/ (m_valid /\ ~leave))
  /\ m_pc' = IF enter THEN pc_in ELSE m_pc
  /\ m_insn' = IF enter THEN insn_in ELSE m_insn

\* mutant: when both happen at one edge the write-back is forgotten
ScoreboardIssueWins(ready, flush, halt, we, rd) ==
  LET sync == Issue(ready, flush, halt) /\ RegWrite(m_insn)
  IN  m_used_reg' = [r \in Reg |->
                       CASE sync /\ r = m_insn.rd -> (m_used_reg[r] + 1) % 4
                         [] ~(sync /\ r = m_insn.rd) /\ we /\ r = rd -> (m_used_reg[r] + 3) % 4
                         [] OTHER -> m_used_reg[r]]

\* the counters are two bits wide and wrap
Scoreboard(ready, flush, halt, we, rd) ==
  LET sync == Issue(ready, flush, halt) /\ RegWrite(m_insn)
      both == we /\ sync /\ rd = m_insn.rd
      incr(r) == IF sync /\ r = m_insn.rd THEN 1 ELSE 0
      decr(r) == IF we /\ r = rd THEN 3 ELSE 0
  IN  m_used_reg' = [r \in Reg |-> IF both THEN m_used_reg[r]
                                   ELSE (m_used_reg[r] + incr(r) + decr(r)) % 4]

RegisterFile(we, rd, val) ==
  regs' = IF we /\ rd # 0 THEN [regs EXCEPT ![rd] = val] ELSE regs

DecodeTick(valid_in, pc_in, insn_in, ready, flush, halt, we, rd, val) ==
  /\ StageRegister(valid_in, pc_in, insn_in, ready, flush, halt)
  /\ Scoreboard(ready, flush, halt, we, rd)
  /\ RegisterFile(we, rd, val)

\* arstn low; m_pc and m_insn have no reset value
DecodeReset ==
  /\ m_valid' = FALSE
  /\ m_used_reg' = [r \in Reg |-> 0]
  /\ regs' = [r \in Reg |-> 0]
  /\ UNCHANGED <<m_pc, m_insn>>

===============================================================================
