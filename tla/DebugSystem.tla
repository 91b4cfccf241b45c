------------------------------ MODULE DebugSystem ------------------------------
(***************************************************************************)
(* The debug unit in its place (top.sv): behind the UART a host that asks   *)
(* and waits (tools/uart_debug.py), before it the memories and the halt     *)
(* control of the core.  One Tick is one clock edge of everything on the    *)
(* board; the two steps of the host are its own.                            *)
(*                                                                          *)
(* The line loses nothing and flags every damaged byte (parity, external);  *)
(* the bytes of a packet follow each other within MaxGap cycles, as one     *)
(* write of the host's.  Nobody presses the board's buttons.                *)
(***************************************************************************)
EXTENDS DebugModule, Sequences

CONSTANTS
  Sessions,     \* what a host may be up to: a set of [requests, noise], the
                \* [cmd, data] it asks for and the bytes of a packet that may
                \* arrive damaged, one of them in a packet
  MaxGap,       \* idle cycles between two bytes of a packet
  NUM_TICKS,    \* ValidReadyDelay's pause after every byte that is sent
  NumIds        \* packet ids before they repeat (256 in the tool)

ASSUME SessionAssumption ==
  \A s \in Sessions :
    /\ s.requests \subseteq [cmd : Byte, data : Seq(Byte)]
    /\ \A r \in s.requests : Len(r.data) \in Byte
    /\ s.noise \subseteq Nat \ {0}
ASSUME LineAssumption ==
  /\ MaxGap \in Nat /\ MaxGap + 1 < TIMEOUT_TICKS
  /\ NUM_TICKS \in Nat
  /\ NumIds \in 1 .. ByteSize

VARIABLES
  session,                          \* the one of this run
  mem,                              \* the bytes of both memories
  halt_req_in, m_is_halted, halted, \* of ArxCore
  refused,      \* the data port was refused in the last cycle
  delay,        \* ValidReadyDelay's counter
  host_state, pkt, bad, sent, gap,  \* the packet under way; bad: its damaged byte, or 0
  resp, next_id,
  host_halted,  \* whether the last command answered OK that moves the core was HALT
  shadow        \* the memories, as the answers to the host's writes say

boardVars == <<debugVars, data_ack, data_data, mem, halt_req_in, m_is_halted, halted, refused, delay>>
hostVars  == <<host_state, pkt, bad, sent, gap, resp, next_id, host_halted, shadow>>
vars      == <<session, boardVars, hostVars>>

TypeOK ==
  /\ ParserTypeOK /\ BufferTypeOK /\ CopierTypeOK /\ ControlTypeOK
  /\ data_ack \in [Memories -> BOOLEAN] /\ data_data \in [Memories -> Byte]
  /\ mem \in [Memories -> [Addr -> Byte]] /\ shadow \in [Memories -> [Addr -> Byte]]
  /\ {halt_req_in, m_is_halted, halted, refused, host_halted} \subseteq BOOLEAN
  /\ delay \in 0 .. NUM_TICKS
  /\ host_state \in {"IDLE", "SENDING", "WAITING"}
  /\ pkt \in Seq(Byte) /\ sent \in 0 .. Len(pkt) /\ bad \in 0 .. Len(pkt) /\ gap \in 0 .. MaxGap
  /\ resp \in Seq(Byte) /\ next_id \in 0 .. NumIds - 1

-----------------------------------------------------------------------------
\* The line.

send_ready(ready)    == delay = 0 /\ ready        \* ValidReadyDelay: master_ready
byte_passes(ready)   == send_valid /\ send_ready(ready)
Damaged(byte)        == (byte + 1) % ByteSize

\* mutant: the pause is counted down below zero
UartTickBelow(ready) ==
  /\ delay' = IF byte_passes(ready) THEN NUM_TICKS ELSE delay - 1
  /\ resp' = IF byte_passes(ready) THEN Append(resp, send_data) ELSE resp

UartTick(ready) ==
  /\ delay' = IF delay > 0 THEN delay - 1 ELSE IF byte_passes(ready) THEN NUM_TICKS ELSE 0
  /\ resp' = IF byte_passes(ready) THEN Append(resp, send_data) ELSE resp

\* the next byte of the packet arrives, or the line is quiet for a cycle
SendByte ==
  /\ host_state = "SENDING"
  /\ sent' = sent + 1 /\ gap' = 0
  /\ host_state' = IF sent' = Len(pkt) THEN "WAITING" ELSE "SENDING"

Quiet ==
  /\ host_state = "SENDING" => gap < MaxGap
  /\ gap' = IF host_state = "SENDING" THEN gap + 1 ELSE 0
  /\ UNCHANGED <<sent, host_state>>

-----------------------------------------------------------------------------
\* What the debug unit drives.

\* ArxCore's halt control; the pipeline drains when it does, and then stays.
\* Its reset is asynchronous: it acts in the cycle in which the counter starts.
HaltTick(drained) ==
  /\ halt_req_in' = (/\ soft_reset_n /\ reset_counter' = 0
                     /\ halt_req \/ (~resume_req /\ halt_req_in))
  /\ drained => halt_req_in' /\ ~m_is_halted
  /\ m_is_halted' = (halt_req_in' /\ (m_is_halted \/ drained))
  /\ halted' = IF soft_reset_n THEN m_is_halted ELSE halted

\* which requests are taken: the program port's always, the data port's while
\* the core is halted and unless the interconnect serves the other master first
Accepts(k, taken) == data_req(k) /\ (k = "data" => m_is_halted /\ taken)

PortTick(taken) ==
  /\ data_ack' = [k \in Memories |-> Accepts(k, taken)]
  /\ data_data' = [k \in Memories |->
       IF Accepts(k, taken) /\ ~data_wr_en(k) THEN mem[k][data_addr(k)] ELSE data_data[k]]
  /\ mem' = [k \in Memories |->
       IF Accepts(k, taken) /\ data_wr_en(k)
       THEN [mem[k] EXCEPT ![data_addr(k)] = res_data] ELSE mem[k]]
  /\ refused' = (data_req("data") /\ m_is_halted /\ ~taken)

Tick ==
  \E ready, drained, taken \in BOOLEAN :
    /\ ready => send_valid /\ delay = 0
    /\ ~taken => data_req("data") /\ m_is_halted /\ ~refused
    /\ \/ /\ SendByte
          /\ LET i == sent + 1 IN
             DebugTick(TRUE, IF i = bad THEN Damaged(pkt[i]) ELSE pkt[i], i = bad, send_ready(ready), halted)
       \/ /\ Quiet
          /\ DebugTick(FALSE, 0, FALSE, send_ready(ready), halted)
    /\ UartTick(ready)
    /\ HaltTick(drained)
    /\ PortTick(taken)
    /\ UNCHANGED <<session, pkt, bad, next_id, host_halted, shadow>>

-----------------------------------------------------------------------------
\* The host (uart_debug.py): a packet is sent whole, then its answer is read.

Packet(r) == <<r.cmd, next_id, Len(r.data)>> \o r.data

\* the tool halts the core before it touches the data memory
MayAsk(r) == r.cmd \in {4, 5} => host_halted

HostSend ==
  /\ host_state = "IDLE"
  /\ \E r \in session.requests :
       /\ MayAsk(r)
       /\ pkt' = Packet(r)
       /\ bad' \in {0} \union (session.noise \intersect 1 .. Len(pkt'))
  /\ next_id' = (next_id + 1) % NumIds
  /\ host_state' = "SENDING"
  /\ UNCHANGED <<session, boardVars, sent, gap, resp, host_halted, shadow>>

\* three bytes, and then as many as the third says
ResponseComplete == Len(resp) >= 3 /\ Len(resp) >= 3 + resp[3]

RequestAddr == Address([i \in 0 .. 3 |-> pkt[i + 4]], 0)

\* the bytes of the packet that are for address a, and the memory m with them
BytesFor(a) == {i \in 8 .. Len(pkt) : (RequestAddr + i - 8) % MemSize = a}

Written(m) ==
  [a \in Addr |-> IF BytesFor(a) = {} THEN m[a]
                  ELSE pkt[CHOOSE i \in BytesFor(a) : \A j \in BytesFor(a) : j <= i]]

HostReceive ==
  /\ host_state = "WAITING" /\ ResponseComplete
  /\ LET ok(cmd) == resp[1] = STATUS_OK /\ pkt[1] = cmd
     IN  /\ host_halted' = (~ok(1) /\ ~ok(6) /\ (host_halted \/ ok(0)))
         /\ shadow' = [k \in Memories |->
              IF ok(IF k = "prog" THEN 3 ELSE 5) THEN Written(shadow[k]) ELSE shadow[k]]
  /\ host_state' = "IDLE"
  /\ pkt' = <<>> /\ bad' = 0 /\ sent' = 0 /\ resp' = <<>>
  /\ UNCHANGED <<session, boardVars, gap, next_id>>

Init ==
  /\ session \in Sessions
  /\ DebugInit
  /\ data_ack = [k \in Memories |-> FALSE] /\ data_data = [k \in Memories |-> 0]
  /\ mem = [k \in Memories |-> [a \in Addr |-> 0]] /\ shadow = mem
  /\ halt_req_in = FALSE /\ m_is_halted = FALSE /\ halted = FALSE /\ refused = FALSE /\ delay = 0
  /\ host_state = "IDLE" /\ pkt = <<>> /\ bad = 0 /\ sent = 0 /\ gap = 0
  /\ resp = <<>> /\ next_id = 0 /\ host_halted = FALSE

Next == Tick \/ HostSend \/ HostReceive

Spec == Init /\ [][Next]_vars

\* The clock runs and the host reads its answer.  An edge that changes nothing
\* does not count: a UART that never takes the byte that waits, or a pipeline
\* that never drains, is excluded too.
FairSpec == Spec /\ WF_vars(Tick) /\ WF_vars(HostReceive)

-----------------------------------------------------------------------------
\* Correctness.

\* the memory a command moves bytes of
MemoryOf(cmd) == IF cmd \in {2, 3} THEN "prog" ELSE "data"

ExpectedStatus ==
  CASE bad # 0                                    -> STATUS_ERROR_PARITY
    [] bad = 0 /\ pkt[1] > 7                      -> STATUS_ERROR_CMD
    [] /\ bad = 0
       /\ \/ pkt[1] \in {2, 4} /\ pkt[3] < 5      \* no address and count
          \/ pkt[1] \in {3, 5} /\ pkt[3] < 4      \* no address
       -> STATUS_ERROR_ARGS
    [] OTHER                                      -> STATUS_OK

\* what a command that is answered OK returns
ExpectedPayload ==
  CASE pkt[1] \in {2, 4} -> [i \in 1 .. pkt[8] |->
         shadow[MemoryOf(pkt[1])][(RequestAddr + i - 1) % MemSize]]
    [] pkt[1] = 7        -> <<IF host_halted THEN 1 ELSE 0>>
    [] OTHER             -> <<>>

\* Every packet is answered with its own id, the status it deserves and, when
\* that is OK, the bytes it asked for as the answered writes left them: nothing
\* of an earlier packet shows in the answer (the id excepted when the byte that
\* was damaged is the command or the id itself: it is then not known).
ResponseRight ==
  host_state = "WAITING" /\ ResponseComplete =>
    /\ resp[1] = ExpectedStatus
    /\ bad \notin {1, 2} => resp[2] = pkt[2]
    /\ SubSeq(resp, 4, Len(resp)) = IF ExpectedStatus = STATUS_OK THEN ExpectedPayload ELSE <<>>

\* A READ that is answered OK returns as many bytes as its count asks for, as
\* DebugModule_tb.sv:404-421 expects of a read of four.
ReadLengthRight ==
  host_state = "WAITING" /\ ResponseComplete /\ pkt[1] \in {2, 4} /\ resp[1] = STATUS_OK =>
    resp[3] = pkt[8]

\* The memories hold what the answered writes put there; between its answer and
\* its packet only an intact write changes anything, and only the bytes it names.
WritesExact ==
  \A k \in Memories : \A a \in Addr :
    \/ mem[k][a] = shadow[k][a]
    \/ /\ host_state = "WAITING" /\ bad = 0
       /\ pkt[1] = (IF k = "prog" THEN 3 ELSE 5) /\ pkt[3] > 4
       /\ \E i \in BytesFor(a) : mem[k][a] = pkt[i]

\* Whatever happened to the last packet, when the host has its answer the unit
\* is ready for the next one: no part of it is left in a packet, a copy or a
\* response, and nothing is sent before the packet that asks for it has arrived.
InSync ==
  /\ host_state = "IDLE" =>
       /\ parse_state = "WAIT_CMD" /\ ~res_error
       /\ dm_state = "WAIT_INPUT" /\ send_state = "IDLE" /\ soft_reset_n
       /\ \A k \in Memories : copy_state[k] = "IDLE" /\ ~data_ack[k]
  /\ resp # <<>> => host_state = "WAITING"

\* What the host concludes from its answers is so: after a HALT that was
\* answered OK the core is halted, after RESUME or RESET it is not, and GET_STATE
\* will say the same.
HaltKnown ==
  host_state = "IDLE" => m_is_halted = host_halted /\ halted = host_halted

\* What the host has of the unit.  A request is under way from its first byte to
\* the moment its answer is taken; it is done when the answer is complete, and
\* until then the memories and the core are what they were before.
HasAnswer == host_state = "WAITING" /\ ResponseComplete
Quiescent == HasAnswer \/ host_state = "IDLE"

Request     == IF host_state = "IDLE" THEN <<>> ELSE pkt
DamagedByte == IF host_state = "IDLE" THEN 0 ELSE bad
Answer      == IF HasAnswer THEN resp ELSE <<>>
Memory      == IF Quiescent THEN mem ELSE shadow
CoreHalted  == IF Quiescent THEN m_is_halted ELSE host_halted

Remote == INSTANCE DebugService WITH
  request <- Request, damaged <- DamagedByte, answer <- Answer,
  memory <- Memory, core_halted <- CoreHalted

\* The unit, its line and its memories are to the host the service it expects:
\* what takes hundreds of cycles happens to it at once, in order, and only when
\* asked for.
ImplementsService == Remote!Spec

\* Every packet is answered, damaged ones included.
Answered == host_state # "IDLE" ~> host_state = "IDLE"

===============================================================================
