----------------------------- MODULE PacketParser -----------------------------
(***************************************************************************)
(* The receiver of the debug unit (DebugModule/PacketParser.sv): collects a *)
(* packet [CMD][ID][LEN][DATA] byte by byte, stops at a byte with a parity  *)
(* error, and holds what it has until the packet is released.  Bytes that   *)
(* arrive meanwhile are taken and forgotten: input_ready is tied high.      *)
(*                                                                          *)
(* Memories are memories of bytes for the whole unit: an access is the one  *)
(* ByteToWordAddrConverter.sv makes of the word that holds the byte.        *)
(***************************************************************************)
EXTENDS Integers

CONSTANTS
  ByteSize,     \* 256 in the code: a byte is 0 .. ByteSize - 1
  MemSize       \* bytes in a memory; addresses wrap there

ASSUME ByteAssumption == ByteSize \in Nat /\ ByteSize > 11    \* commands and statuses differ
ASSUME MemAssumption  == MemSize \in Nat \ {0}

Byte     == 0 .. ByteSize - 1
Addr     == 0 .. MemSize - 1
Memories == {"prog", "data"}

Increment(ptr) == (ptr + 1) % ByteSize

VARIABLES
  parse_state,
  res_cmd, res_id, res_len, res_error,
  res_data_buf, parse_ptr,      \* data_ptr
  res_data                      \* the register of the buffer's read port

parserVars == <<parse_state, res_cmd, res_id, res_len, res_error,
                res_data_buf, parse_ptr, res_data>>

ParserStates == {"WAIT_CMD", "WAIT_ID", "WAIT_LEN", "WAIT_DATA", "WAIT_READY"}

ParserTypeOK ==
  /\ parse_state \in ParserStates
  /\ res_cmd \in Byte /\ res_id \in Byte /\ res_len \in Byte
  /\ res_error \in BOOLEAN
  /\ res_data_buf \in [Byte -> Byte] /\ parse_ptr \in Byte /\ res_data \in Byte

res_valid == parse_state = "WAIT_READY"

\* where an intact byte leads
NextField(byte) ==
  CASE parse_state = "WAIT_CMD"  -> "WAIT_ID"
    [] parse_state = "WAIT_ID"   -> "WAIT_LEN"
    [] parse_state = "WAIT_LEN"  -> IF byte = 0 THEN "WAIT_READY" ELSE "WAIT_DATA"
    [] parse_state = "WAIT_DATA" -> IF Increment(parse_ptr) = res_len
                                    THEN "WAIT_READY" ELSE "WAIT_DATA"

\* a byte arrives: it is stored in its field, and an error ends the packet
Receive(byte, error) ==
  /\ parse_state' = IF error THEN "WAIT_READY" ELSE NextField(byte)
  /\ res_error' = error
  /\ res_cmd' = IF parse_state = "WAIT_CMD" THEN byte ELSE res_cmd
  /\ res_id'  = IF parse_state = "WAIT_ID" THEN byte ELSE res_id
  /\ res_len' = IF parse_state = "WAIT_LEN" THEN byte ELSE res_len
  /\ parse_ptr' = CASE parse_state = "WAIT_LEN"  -> 0
                    [] parse_state = "WAIT_DATA" -> Increment(parse_ptr)
                    [] OTHER                     -> parse_ptr
  /\ res_data_buf' = IF parse_state = "WAIT_DATA"
                     THEN [res_data_buf EXCEPT ![parse_ptr] = byte] ELSE res_data_buf

\* a packet is held: it is released with res_ready, and bytes are dropped
Hold(ready) ==
  /\ parse_state' = IF ready THEN "WAIT_CMD" ELSE parse_state
  /\ res_error' = (res_error /\ ~ready)
  /\ UNCHANGED <<res_cmd, res_id, res_len, res_data_buf, parse_ptr>>

ParserTick(input_valid, byte, error, ready, re, addr) ==
  /\ \/ res_valid /\ Hold(ready)
     \/ ~res_valid /\ input_valid /\ Receive(byte, error)
     \/ /\ ~res_valid /\ ~input_valid
        /\ UNCHANGED <<parse_state, res_cmd, res_id, res_len, res_error,
                       res_data_buf, parse_ptr>>
  /\ res_data' = IF re THEN res_data_buf[addr] ELSE res_data

ParserInit ==
  /\ parse_state = "WAIT_CMD"
  /\ res_cmd = 0 /\ res_id = 0 /\ res_len = 0 /\ res_error = FALSE
  /\ res_data_buf = [i \in Byte |-> 0] /\ parse_ptr = 0 /\ res_data = 0

===============================================================================
