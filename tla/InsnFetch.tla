------------------------------- MODULE InsnFetch -------------------------------
(***************************************************************************)
(* The fetch stage (arx_core/src/InsnFetch.sv).  It asks the instruction    *)
(* memory for the word at pc, hands it to the decoder, and follows the      *)
(* redirections (pc_we, pc_in) of the execution stage.  A redirection that  *)
(* arrives while a request is unanswered is kept in pc_we_buf/pc_in_buf     *)
(* until the answer, which is then thrown away.                             *)
(*                                                                          *)
(* The operators take the stage's input ports as parameters:                *)
(*   ack, insn   the memory's answer            (mem_ack, mem_insn_in)      *)
(*   we, target  the redirection                (pc_we, pc_in)              *)
(*   ready       the decoder takes valid_out    (ready_out)                 *)
(*   halt        halt_req_in                                                *)
(***************************************************************************)
EXTENDS ArxTypes

VARIABLES
  cur_state,
  pc,
  insn_buf,
  pc_we_buf,
  pc_in_buf

fetchVars == <<cur_state, pc, insn_buf, pc_we_buf, pc_in_buf>>

FetchStates == {"IDLE", "FETCH", "WAIT_HANDSHAKE"}

FetchTypeOK ==
  /\ cur_state \in FetchStates
  /\ pc \in Word
  /\ insn_buf \in Insn
  /\ pc_we_buf \in BOOLEAN
  /\ pc_in_buf \in Word

-------------------------------------------------------------------------------
(* Combinational signals                                                     *)

PcWeInternal(we) == we \/ pc_we_buf

PcNext(we, target) ==
  IF we THEN target
  ELSE IF pc_we_buf THEN pc_in_buf ELSE Plus(pc, 1)

\* the cycle ends the current instruction: it is handed over or thrown away
PcUpd(ack, we, ready) ==
  \/ cur_state = "FETCH" /\ ack /\ (ready \/ PcWeInternal(we))
  \/ cur_state = "WAIT_HANDSHAKE" /\ (ready \/ we)

\* mutant: only a redirection of this very cycle counts
PcWeAckUnbuffered(ack, we, ready) == PcUpd(ack, we, ready) /\ we

PcWeAck(ack, we, ready) == PcUpd(ack, we, ready) /\ PcWeInternal(we)

FetchValidOut(ack, we, ready, halt) ==
  /\ ~halt
  /\ ~PcWeAck(ack, we, ready)
  /\ \/ cur_state = "FETCH" /\ ack
     \/ cur_state = "WAIT_HANDSHAKE"

FetchInsnOut(insn) == IF cur_state = "FETCH" THEN insn ELSE insn_buf

FetchHaltAck(halt) == halt /\ cur_state = "WAIT_HANDSHAKE"

RomReq(ack, we, ready) ==
  \/ cur_state = "FETCH" /\ ~ack
  \/ PcUpd(ack, we, ready)

\* mutant: the new address is shown as soon as the redirection arrives
RomAddrEager(ack, we, target, ready) ==
  IF we \/ PcUpd(ack, we, ready) THEN PcNext(we, target) ELSE pc

RomAddr(ack, we, target, ready) ==
  IF PcUpd(ack, we, ready) THEN PcNext(we, target) ELSE pc

-------------------------------------------------------------------------------
(* One clock edge                                                            *)

\* no redirection and a decoder that is not ready: keep the word
InsnBufWe(ack, we, ready) == cur_state = "FETCH" /\ ack /\ ~PcUpd(ack, we, ready)

FetchTick(ack, insn, we, target, ready) ==
  LET pc_upd    == PcUpd(ack, we, ready)
      pc_we_ack == PcWeAck(ack, we, ready)
      buffer    == InsnBufWe(ack, we, ready)
  IN
  /\ cur_state' = CASE cur_state = "IDLE" \/ pc_upd -> "FETCH"
                    [] buffer                       -> "WAIT_HANDSHAKE"
                    [] OTHER                        -> cur_state
  /\ insn_buf' = IF buffer THEN insn ELSE insn_buf
  /\ pc' = IF pc_upd THEN PcNext(we, target) ELSE pc
  /\ pc_we_buf' = (PcWeInternal(we) /\ ~pc_we_ack)
  /\ pc_in_buf' = IF we /\ ~pc_we_ack THEN target ELSE pc_in_buf

\* arstn low; pc_in_buf has no reset value
FetchReset ==
  /\ cur_state' = "IDLE"
  /\ pc' = 0
  /\ insn_buf' = ZeroInsn
  /\ pc_we_buf' = FALSE
  /\ UNCHANGED pc_in_buf

===============================================================================
