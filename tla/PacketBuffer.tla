----------------------------- MODULE PacketBuffer -----------------------------
(***************************************************************************)
(* The sender of the debug unit (DebugModule/PacketBuffer.sv): registers    *)
(* for status, id, length and payload, and the state machine that sends     *)
(* them as [STATUS][ID][LEN][DATA] when it is asked to.                     *)
(***************************************************************************)
EXTENDS PacketParser

VARIABLES
  send_state,
  status_reg, id_reg, len_reg,
  payload_data_buf, send_ptr    \* data_ptr

bufferVars == <<send_state, status_reg, id_reg, len_reg, payload_data_buf, send_ptr>>

SenderStates == {"IDLE", "SEND_STATUS", "SEND_ID", "SEND_LEN", "SEND_PAYLOAD"}

BufferTypeOK ==
  /\ send_state \in SenderStates
  /\ status_reg \in Byte /\ id_reg \in Byte /\ len_reg \in Byte
  /\ payload_data_buf \in [Byte -> Byte] /\ send_ptr \in Byte

next_send_ptr == Increment(send_ptr)

send_valid == send_state # "IDLE"

send_data ==
  CASE send_state = "SEND_STATUS"  -> status_reg
    [] send_state = "SEND_ID"      -> id_reg
    [] send_state = "SEND_LEN"     -> len_reg
    [] send_state = "SEND_PAYLOAD" -> payload_data_buf[send_ptr]

\* where a byte that was taken leads
AfterByte ==
  CASE send_state = "SEND_STATUS"  -> "SEND_ID"
    [] send_state = "SEND_ID"      -> "SEND_LEN"
    [] send_state = "SEND_LEN"     -> IF len_reg = 0 THEN "IDLE" ELSE "SEND_PAYLOAD"
    [] send_state = "SEND_PAYLOAD" -> IF next_send_ptr = len_reg THEN "IDLE" ELSE "SEND_PAYLOAD"

send_ack(ready) == send_valid /\ ready /\ AfterByte = "IDLE"

SenderTick(req, ready) ==
  \/ /\ send_state = "IDLE" /\ req
     /\ send_state' = "SEND_STATUS" /\ send_ptr' = 0
  \/ /\ send_valid /\ ready
     /\ send_state' = AfterByte
     /\ send_ptr' = IF send_state = "SEND_PAYLOAD" THEN next_send_ptr ELSE send_ptr
  \/ /\ ~(send_state = "IDLE" /\ req) /\ ~(send_valid /\ ready)
     /\ UNCHANGED <<send_state, send_ptr>>

HeaderTick(we, status, id, len) ==
  /\ status_reg' = IF we THEN status ELSE status_reg
  /\ id_reg'     = IF we THEN id ELSE id_reg
  /\ len_reg'    = IF we THEN len ELSE len_reg

PayloadTick(we, addr, data) ==
  payload_data_buf' = IF we THEN [payload_data_buf EXCEPT ![addr] = data] ELSE payload_data_buf

BufferInit ==
  /\ send_state = "IDLE"
  /\ status_reg = 0 /\ id_reg = 0 /\ len_reg = 0
  /\ payload_data_buf = [i \in Byte |-> 0] /\ send_ptr = 0

===============================================================================
