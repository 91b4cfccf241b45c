------------------------------ MODULE DebugModule ------------------------------
(***************************************************************************)
(* The debug unit (DebugModule/DebugModule.sv): the command state machine   *)
(* with the parser, the packet buffer, the two memory copiers and the reset *)
(* controller it drives.  All of them move on the same clock edge, each on  *)
(* the others' registers and combinational outputs of the cycle before it.  *)
(***************************************************************************)
EXTENDS DebugMemoryCopier, PacketBuffer

CONSTANTS
  TIMEOUT_TICKS,    \* the quiet time that ends a packet with a parity error
  RESET_TICKS       \* the length of a soft reset

ASSUME TickAssumption == TIMEOUT_TICKS \in Nat \ {0} /\ RESET_TICKS \in Nat \ {0}

VARIABLES
  dm_state,         \* cur_state
  timeout_counter,
  reset_counter     \* ResetController's counter

controlVars == <<dm_state, timeout_counter, reset_counter>>
debugVars   == <<parserVars, bufferVars, copierVars, controlVars>>

STATUS_OK           == 0
STATUS_ERROR_PARITY == ByteSize - 1
STATUS_ERROR_ARGS   == ByteSize - 2
STATUS_ERROR_CMD    == ByteSize - 3

\* the state that serves a command; READ needs an address and a count, WRITE an address
Service == <<"CMD_HALT", "CMD_RESUME", "CMD_READ_PROG", "CMD_WRITE_PROG",
             "CMD_READ_DATA", "CMD_WRITE_DATA", "CMD_RESET", "CMD_STATE">>

MinLength(cmd) == CASE cmd \in {2, 4} -> 5 [] cmd \in {3, 5} -> 4 [] OTHER -> 0

\* mutant: the length of a packet is not looked at
DispatchAll ==
  CASE res_error                   -> "WAIT_TIMEOUT"
    [] ~res_error /\ res_cmd > 7   -> "ERROR_CMD"
    [] ~res_error /\ res_cmd <= 7  -> Service[res_cmd + 1]

Dispatch ==
  CASE res_error                    -> "WAIT_TIMEOUT"
    [] ~res_error /\ res_cmd > 7    -> "ERROR_CMD"
    [] ~res_error /\ res_cmd <= 7   ->
         IF res_len >= MinLength(res_cmd) THEN Service[res_cmd + 1] ELSE "ERROR_ARGS"

DebugStates ==
  {Service[i] : i \in 1 .. 8}
    \union {"WAIT_INPUT", "WAIT_TIMEOUT", "ERROR_PARITY", "ERROR_ARGS", "ERROR_CMD", "WAIT_SEND"}

ControlTypeOK ==
  /\ dm_state \in DebugStates
  /\ timeout_counter \in 0 .. TIMEOUT_TICKS
  /\ reset_counter \in 0 .. RESET_TICKS

halt_req       == dm_state = "CMD_HALT"
resume_req     == dm_state = "CMD_RESUME"
soft_reset_n   == reset_counter = 0
soft_reset_ack == reset_counter = 1

copy_write == [k \in Memories |-> dm_state = (IF k = "prog" THEN "CMD_WRITE_PROG" ELSE "CMD_WRITE_DATA")]
copy_req   == [k \in Memories |->
                 dm_state \in (IF k = "prog" THEN {"CMD_READ_PROG", "CMD_WRITE_PROG"}
                                             ELSE {"CMD_READ_DATA", "CMD_WRITE_DATA"})]

CopyReady(k) == copy_ready(k, copy_req[k], copy_write[k])

\* mutant: HALT is answered without waiting for the core
DoneAtOnce(is_halted) ==
  CASE dm_state = "CMD_RESUME" -> ~is_halted
    [] dm_state = "CMD_RESET"  -> soft_reset_ack
    [] copy_req["prog"]        -> CopyReady("prog")
    [] copy_req["data"]        -> CopyReady("data")
    [] OTHER                   -> TRUE

\* whether the command is served and its response complete
Done(is_halted) ==
  CASE dm_state = "CMD_HALT"   -> is_halted
    [] dm_state = "CMD_RESUME" -> ~is_halted
    [] dm_state = "CMD_RESET"  -> soft_reset_ack
    [] copy_req["prog"]        -> CopyReady("prog")
    [] copy_req["data"]        -> CopyReady("data")
    [] OTHER                   -> TRUE

responding == dm_state \notin {"WAIT_INPUT", "WAIT_TIMEOUT", "WAIT_SEND"}

dm_next(is_halted, ready) ==
  CASE dm_state = "WAIT_INPUT"   -> IF res_valid THEN Dispatch ELSE dm_state
    [] dm_state = "WAIT_TIMEOUT" ->
         IF timeout_counter = TIMEOUT_TICKS - 1 THEN "ERROR_PARITY" ELSE dm_state
    [] dm_state = "WAIT_SEND"    -> IF send_ack(ready) THEN "WAIT_INPUT" ELSE dm_state
    [] responding                -> IF Done(is_halted) THEN "WAIT_SEND" ELSE dm_state

inp_packet_ready(ready) == dm_state = "WAIT_SEND" /\ send_ack(ready)

out_status ==
  CASE dm_state = "ERROR_PARITY" -> STATUS_ERROR_PARITY
    [] dm_state = "ERROR_ARGS"   -> STATUS_ERROR_ARGS
    [] dm_state = "ERROR_CMD"    -> STATUS_ERROR_CMD
    [] OTHER                     -> STATUS_OK

out_len ==
  CASE dm_state = "CMD_READ_PROG" -> read_len["prog"]
    [] dm_state = "CMD_READ_DATA" -> read_len["data"]
    [] dm_state = "CMD_STATE"     -> 1
    [] OTHER                      -> 0

\* the program copier comes first at both ports it shares with the other one
Reader == IF inp_packet_re("prog", copy_req["prog"], copy_write["prog"]) THEN "prog" ELSE "data"

PayloadWrite(is_halted) ==
  CASE out_packet_we("prog") -> PayloadTick(TRUE, copy_ptr["prog"], data_data["prog"])
    [] ~out_packet_we("prog") /\ out_packet_we("data") ->
         PayloadTick(TRUE, copy_ptr["data"], data_data["data"])
    [] ~out_packet_we("prog") /\ ~out_packet_we("data") ->
         PayloadTick(dm_state = "CMD_STATE", 0, IF is_halted THEN 1 ELSE 0)

ParseTick(input_valid, byte, error, ready) ==
  LET re == inp_packet_re(Reader, copy_req[Reader], copy_write[Reader])
  IN  ParserTick(input_valid, byte, error, inp_packet_ready(ready),
                 re, IF re THEN inp_packet_addr(Reader) ELSE 0)

\* mutant: bytes that keep coming do not hold the timeout back
TimeoutTickDeaf(input_valid) ==
  timeout_counter' = IF dm_state = "WAIT_TIMEOUT"
                     THEN IF timeout_counter < TIMEOUT_TICKS THEN timeout_counter + 1 ELSE 0
                     ELSE 0

\* mutant: the timeout counts the bytes and not the quiet
TimeoutTickSwapped(input_valid) ==
  timeout_counter' = IF input_valid /\ timeout_counter < TIMEOUT_TICKS - 2
                     THEN timeout_counter + 1 ELSE 0

TimeoutTick(input_valid) ==
  timeout_counter' = IF input_valid THEN 0
                     ELSE IF dm_state = "WAIT_TIMEOUT" THEN timeout_counter + 1
                     ELSE timeout_counter

ResetTick ==
  reset_counter' = CASE soft_reset_n /\ dm_state = "CMD_RESET" -> RESET_TICKS
                     [] soft_reset_n /\ dm_state # "CMD_RESET" -> 0
                     [] OTHER                                  -> reset_counter - 1

\* a clock edge: a byte from the UART or none, and whether the UART takes one
DebugTick(input_valid, byte, error, ready, is_halted) ==
  /\ ParseTick(input_valid, byte, error, ready)
  /\ CopierTick(copy_req, copy_write)
  /\ HeaderTick(responding, out_status, res_id, out_len)
  /\ PayloadWrite(is_halted)
  /\ SenderTick(dm_state = "WAIT_SEND", ready)
  /\ dm_state' = dm_next(is_halted, ready)
  /\ TimeoutTick(input_valid)
  /\ ResetTick

DebugInit ==
  /\ ParserInit /\ BufferInit /\ CopierInit
  /\ dm_state = "WAIT_INPUT" /\ timeout_counter = 0 /\ reset_counter = 0

===============================================================================
