--------------------------- MODULE DebugSystemProofs ---------------------------
(***************************************************************************)
(* What holds of the debug unit and its host for every byte and memory      *)
(* size, every session of requests, every pace of the UART and of the       *)
(* memories.  Inv follows one packet through the unit: while it is sent,    *)
(* while it waits for the parity timeout, while it is served, while its     *)
(* answer goes out, and when the answer is complete.  Copies adds what the  *)
(* packet's bytes make of the memories, Answers what the answer says.       *)
(***************************************************************************)
EXTENDS DebugSystem, SequenceTheorems, WellFoundedInduction, TLAPS

-----------------------------------------------------------------------------
\* The parts of the unit work only for the state that asks them to.

PartsServe ==
  /\ \A k \in Memories :
       /\ copy_state[k] # "IDLE" => copy_req[k]
       /\ data_ack[k] => copy_state[k] \in {"READ", "WRITE"}
  /\ reset_counter # 0 => dm_state = "CMD_RESET"
  /\ send_state # "IDLE" => dm_state = "WAIT_SEND"
  /\ send_state \in {"SEND_STATUS", "SEND_ID", "SEND_LEN"} => send_ptr = 0

\* the bytes that have arrived are as they were sent
Intact == bad = 0 \/ sent < bad

PacketShape ==
  /\ host_state = "IDLE" => sent = 0
  /\ host_state # "IDLE" => Len(pkt) >= 3 /\ Len(pkt) = 3 + pkt[3]
  /\ host_state = "SENDING" => sent < Len(pkt)
  /\ host_state = "WAITING" => sent = Len(pkt)
  /\ resp # <<>> => host_state = "WAITING"

\* between two packets
AtRest == parse_state = "WAIT_CMD" /\ ~res_error /\ dm_state = "WAIT_INPUT"

\* the field the parser waits for
Field == CASE sent = 0 -> "WAIT_CMD" [] sent = 1 -> "WAIT_ID"
           [] sent = 2 -> "WAIT_LEN" [] OTHER -> "WAIT_DATA"

\* the parser follows the packet byte by byte; the timeout of a damaged one
\* cannot end before its last byte, which is never more than MaxGap cycles off
Arriving ==
  \/ /\ Intact /\ parse_state = Field /\ ~res_error /\ dm_state = "WAIT_INPUT"
     /\ sent > 0 => res_cmd = pkt[1]
     /\ sent > 2 => res_len = pkt[3] /\ parse_ptr = sent - 3
  \/ /\ ~Intact /\ parse_state = "WAIT_READY" /\ res_error
     /\ \/ dm_state = "WAIT_INPUT" /\ timeout_counter = 0
        \/ dm_state = "WAIT_TIMEOUT" /\ timeout_counter <= gap

\* how much of the answer the host has
Answering ==
  CASE send_state \in {"IDLE", "SEND_STATUS"} -> resp = <<>>
    [] send_state = "SEND_ID"      -> Len(resp) = 1 /\ resp[1] = status_reg
    [] send_state = "SEND_LEN"     -> Len(resp) = 2 /\ resp[1] = status_reg
    [] send_state = "SEND_PAYLOAD" ->
         /\ Len(resp) = 3 + send_ptr /\ send_ptr < len_reg
         /\ resp[1] = status_reg /\ resp[3] = len_reg

Serving == dm_state \in {Service[i] : i \in 1 .. 8}

\* the packet has arrived and is held until its answer has gone out
Held ==
  /\ parse_state = "WAIT_READY"
  /\ res_error <=> ~Intact
  /\ Intact => res_cmd = pkt[1]
  /\ dm_state = "WAIT_INPUT" /\ res_error => timeout_counter = 0
  /\ dm_state = "WAIT_TIMEOUT" => res_error /\ timeout_counter < TIMEOUT_TICKS
  /\ Serving => ~res_error /\ res_cmd <= 7 /\ dm_state = Service[res_cmd + 1]
  /\ Answering

Complete == AtRest /\ ResponseComplete /\ resp[1] = status_reg

Follows ==
  CASE host_state = "IDLE"    -> AtRest
    [] host_state = "SENDING" -> Arriving
    [] host_state = "WAITING" -> Held \/ Complete

-----------------------------------------------------------------------------
\* The halt control.

Settled(b) == halt_req_in = b /\ m_is_halted = b /\ halted = b

\* what the command under way makes of the core when it is answered OK
Target == CASE pkt[1] = 0        -> TRUE
            [] pkt[1] \in {1, 6} -> FALSE
            [] OTHER             -> host_halted

\* the answer's registers are written
Decided ==
  \/ dm_state = "WAIT_SEND"
  \/ dm_state = "WAIT_INPUT" /\ host_state = "WAITING" /\ parse_state = "WAIT_CMD"

Known ==
  /\ dm_state = "CMD_HALT"   => (halted => m_is_halted) /\ (m_is_halted => halt_req_in)
  /\ dm_state = "CMD_RESUME" => halted \/ Settled(FALSE)
  /\ dm_state = "CMD_RESET"  => (reset_counter # 0 => ~m_is_halted /\ ~halt_req_in)
  /\ Decided =>
       IF status_reg # STATUS_OK THEN Settled(host_halted)
       ELSE \/ Settled(Target)
            \/ /\ dm_state = "WAIT_SEND" /\ send_state = "IDLE" /\ pkt[1] = 6
               /\ ~m_is_halted /\ ~halt_req_in
  /\ ~Decided /\ dm_state \notin {"CMD_HALT", "CMD_RESUME", "CMD_RESET"} => Settled(host_halted)

Inv == TypeOK /\ PartsServe /\ PacketShape /\ Follows /\ Known

-----------------------------------------------------------------------------
\* The command under way and its copier.

WriteOf(k) == IF k = "prog" THEN 3 ELSE 5

\* where the bytes of a command go or come from: byte 8 of a write, or the first
\* of a read, is at AddrOf(8)
AddrOf(i) == (RequestAddr + i - 8) % MemSize

\* the first n bytes of the address have been fetched
Fetched(k, n) == \A i \in 0 .. n - 1 : start_addr[k][i] = pkt[i + 4]

\* the packet is in the buffer as it was sent
Buffered ==
  /\ Intact => \A i \in 4 .. sent : res_data_buf[i - 4] = pkt[i]
  /\ Intact /\ parse_state = "WAIT_READY" => res_len = pkt[3]

\* a command is served, or refused, for what its packet says
Dispatched ==
  /\ dm_state = "ERROR_PARITY" => ~Intact
  /\ dm_state = "ERROR_CMD"    => Intact /\ res_cmd > 7
  /\ dm_state = "ERROR_ARGS"   => Intact /\ res_cmd <= 7 /\ res_len < MinLength(res_cmd)
  /\ Serving                   => res_len >= MinLength(res_cmd)

\* a copier fetches the address byte by byte and then has on the read port of the
\* buffer the count of a read, or the byte of a write it is about to write or has
\* just written
CopierFollows(k) ==
  /\ copy_state[k] = "WRITE" => copy_write[k]
  /\ copy_req[k] =>
       /\ copy_state[k] \in {"ADDR_0", "ADDR_1", "ADDR_2", "ADDR_3"} =>
            /\ copy_ptr[k] = 0
            /\ res_data = pkt[AddrByte(copy_state[k]) + 4]
            /\ Fetched(k, AddrByte(copy_state[k]))
       /\ copy_state[k] = "LEN" =>
            ~copy_write[k] /\ copy_ptr[k] = 0 /\ res_data = pkt[8] /\ Fetched(k, 4)
       /\ copy_state[k] = "READ" =>
            /\ ~copy_write[k] /\ read_len[k] = pkt[8] /\ copy_ptr[k] < read_len[k]
            /\ Fetched(k, 4)
       /\ copy_state[k] = "WRITE" =>
            copy_ptr[k] + 4 < res_len /\ res_data = pkt[copy_ptr[k] + 8] /\ Fetched(k, 4)

-----------------------------------------------------------------------------
\* The memories and the answers.

StatusRight == Decided => status_reg = ExpectedStatus

\* how many bytes of the packet the memory has
Copied(k) ==
  IF copy_state[k] = "WRITE" THEN IF data_ack[k] THEN copy_ptr[k] + 1 ELSE copy_ptr[k]
  ELSE IF Decided /\ status_reg = STATUS_OK /\ pkt[1] = WriteOf(k) THEN pkt[3] - 4 ELSE 0

\* address a of memory k is as the first n bytes of a write leave it
Holds(k, n, a) ==
  \/ /\ \A i \in 8 .. n + 7 : AddrOf(i) # a
     /\ mem[k][a] = shadow[k][a]
  \/ \E i \in 8 .. n + 7 :
       /\ AddrOf(i) = a /\ mem[k][a] = pkt[i]
       /\ \A j \in i + 1 .. n + 7 : AddrOf(j) # a

Copies ==
  /\ Buffered /\ Dispatched /\ StatusRight
  /\ \A k \in Memories : CopierFollows(k) /\ \A a \in Addr : Holds(k, Copied(k), a)

\* the id has arrived
Identified == host_state # "IDLE" /\ sent > 1 /\ bad \notin {1, 2} => res_id = pkt[2]

\* a read has as many bytes in the payload as its copier has moved
Reads(k) ==
  copy_state[k] = "READ" =>
    /\ data_ack[k] => data_data[k] = shadow[k][AddrOf(copy_ptr[k] + 8)]
    /\ \A i \in 0 .. copy_ptr[k] - 1 : payload_data_buf[i] = shadow[k][AddrOf(i + 8)]

\* the request under way is no read of nothing
NotEmpty == host_state # "IDLE" /\ pkt[1] \in {2, 4} /\ pkt[3] >= 5 => pkt[8] # 0

\* the registers of an answer that is decided
HeaderRight ==
  Decided =>
    /\ bad \notin {1, 2} => id_reg = pkt[2]
    /\ status_reg # STATUS_OK => len_reg = 0
    /\ status_reg = STATUS_OK =>
         /\ pkt[1] \in {2, 4} =>
              /\ len_reg = pkt[8]
              /\ \A i \in 0 .. len_reg - 1 :
                   payload_data_buf[i] = shadow[MemoryOf(pkt[1])][AddrOf(i + 8)]
         /\ pkt[1] = 7 => len_reg = 1 /\ payload_data_buf[0] = IF host_halted THEN 1 ELSE 0
         /\ pkt[1] \notin {2, 4, 7} => len_reg = 0

AnswerByte(i) == CASE i = 1 -> status_reg [] i = 2 -> id_reg [] i = 3 -> len_reg
                   [] OTHER -> payload_data_buf[i - 4]

\* the host has the bytes of the registers
Sent ==
  Decided =>
    /\ \A i \in 1 .. Len(resp) : resp[i] = AnswerByte(i)
    /\ dm_state = "WAIT_INPUT" => Len(resp) = 3 + len_reg

Answers == Identified /\ NotEmpty /\ HeaderRight /\ Sent /\ \A k \in Memories : Reads(k)

-----------------------------------------------------------------------------
\* The statuses, and whatever is taken modulo a byte, are bytes.
LEMMA BytesTyped ==
  /\ 0 \in Byte /\ 1 \in Byte /\ 2 \in Byte /\ 3 \in Byte /\ 4 \in Byte
  /\ STATUS_OK \in Byte /\ STATUS_ERROR_PARITY \in Byte
  /\ STATUS_ERROR_ARGS \in Byte /\ STATUS_ERROR_CMD \in Byte
  /\ \A x \in Int : x % ByteSize \in Byte
BY ByteAssumption DEF Byte, STATUS_OK, STATUS_ERROR_PARITY, STATUS_ERROR_ARGS, STATUS_ERROR_CMD

\* A pointer wraps within a byte.
LEMMA IncrementTyped == ASSUME NEW p \in Byte PROVE Increment(p) \in Byte
BY ByteAssumption DEF Byte, Increment

\* A pointer below another byte does not wrap.
LEMMA IncrementBelow ==
  ASSUME NEW p \in Byte, NEW q \in Byte, p < q
  PROVE  Increment(p) = p + 1
<1>1. p + 1 \in 0 .. ByteSize - 1 /\ ByteSize \in Nat /\ ByteSize > 0
  BY ByteAssumption DEF Byte
<1>. QED  BY <1>1 DEF Increment

\* What one byte more makes of an answer.
LEMMA AppendByte ==
  ASSUME NEW s \in Seq(Byte), NEW b \in Byte
  PROVE  /\ Len(Append(s, b)) = Len(s) + 1
         /\ \A i \in 1 .. Len(s) : Append(s, b)[i] = s[i]
         /\ Append(s, b)[Len(s) + 1] = b
BY AppendProperties

\* Addresses wrap in the memory.
LEMMA AddressTyped ==
  ASSUME NEW bytes \in [0 .. 3 -> Byte], NEW p \in Byte
  PROVE  Address(bytes, p) \in Addr
<1>. DEFINE x == ((bytes[0] * ByteSize + bytes[1]) * ByteSize + bytes[2]) * ByteSize + bytes[3] + p
<1>1. /\ bytes[0] \in Int /\ bytes[1] \in Int /\ bytes[2] \in Int /\ bytes[3] \in Int
      /\ p \in Int /\ ByteSize \in Int
  BY ByteAssumption DEF Byte
<1>2. x \in Int
  BY <1>1
<1>. HIDE DEF x
<1>3. x % MemSize \in Addr
  BY <1>2, MemAssumption DEF Addr
<1>. QED  BY <1>3 DEF Address, x

-----------------------------------------------------------------------------
\* One clock edge, whatever the line brings: Edge is the part of Tick that does
\* not depend on it.

Edge(valid, byte, error, ready, drained, taken) ==
  /\ DebugTick(valid, byte, error, send_ready(ready), halted)
  /\ UartTick(ready) /\ HaltTick(drained) /\ PortTick(taken)
  /\ UNCHANGED <<session, pkt, bad, next_id, host_halted, shadow>>

\* what the line brings: the next byte, damaged or not, or nothing
Line(valid, byte, error) ==
  \/ /\ valid /\ SendByte /\ byte \in Byte
     /\ error <=> sent + 1 = bad
     /\ ~error => byte = pkt[sent + 1]
  \/ ~valid /\ Quiet /\ ~error /\ byte \in Byte

\* A tick is an edge with what the line brings.
LEMMA TickIsEdge ==
  ASSUME TypeOK, PacketShape, Tick
  PROVE  \E valid, error, ready, drained, taken \in BOOLEAN, byte \in Byte :
           Edge(valid, byte, error, ready, drained, taken) /\ Line(valid, byte, error)
<1>1. PICK ready, drained, taken \in BOOLEAN :
        /\ \/ /\ SendByte
              /\ LET i == sent + 1 IN
                 DebugTick(TRUE, IF i = bad THEN Damaged(pkt[i]) ELSE pkt[i], i = bad, send_ready(ready), halted)
           \/ /\ Quiet
              /\ DebugTick(FALSE, 0, FALSE, send_ready(ready), halted)
        /\ UartTick(ready) /\ HaltTick(drained) /\ PortTick(taken)
        /\ UNCHANGED <<session, pkt, bad, next_id, host_halted, shadow>>
  BY DEF Tick
<1>2. CASE /\ SendByte
           /\ LET i == sent + 1 IN
              DebugTick(TRUE, IF i = bad THEN Damaged(pkt[i]) ELSE pkt[i], i = bad, send_ready(ready), halted)
  <2>. DEFINE i == sent + 1
              byte == IF i = bad THEN Damaged(pkt[i]) ELSE pkt[i]
  <2>1. i \in 1 .. Len(pkt) /\ pkt \in Seq(Byte)
    BY <1>2 DEF SendByte, PacketShape, TypeOK
  <2>2. pkt[i] \in Byte
    BY <2>1
  <2>3. byte \in Byte
    BY <2>2, ByteAssumption DEF Damaged, Byte
  <2>. HIDE DEF byte
  <2>4. Edge(TRUE, byte, i = bad, ready, drained, taken)
    BY <1>1, <1>2 DEF Edge, byte
  <2>5. Line(TRUE, byte, i = bad)
    BY <1>2, <2>3 DEF Line, byte
  <2>. QED  BY <2>3, <2>4, <2>5
<1>3. CASE Quiet /\ DebugTick(FALSE, 0, FALSE, send_ready(ready), halted)
  BY <1>1, <1>3, BytesTyped DEF Edge, Line
<1>. QED  BY <1>1, <1>2, <1>3

-----------------------------------------------------------------------------
\* Type correctness of an edge: the parser and the packet buffer's read port.
LEMMA ParserTyped ==
  ASSUME TypeOK, NEW valid \in BOOLEAN, NEW byte \in Byte, NEW error \in BOOLEAN, NEW ready,
         ParseTick(valid, byte, error, ready)
  PROVE  ParserTypeOK'
<1>. DEFINE re == inp_packet_re(Reader, copy_req[Reader], copy_write[Reader])
            addr == IF re THEN inp_packet_addr(Reader) ELSE 0
<1>1. ParserTypeOK
  BY DEF TypeOK
<1>2. ParserTick(valid, byte, error, inp_packet_ready(ready), re, addr)
  BY DEF ParseTick
<1>3. addr \in Byte
  <2>1. Reader \in Memories
    BY DEF Reader, Memories
  <2>2. copy_state[Reader] \in CopierStates /\ copy_ptr[Reader] \in Byte
    BY <2>1 DEF TypeOK, CopierTypeOK
  <2>3. (copy_ptr[Reader] + 5) % ByteSize \in Byte /\ (copy_ptr[Reader] + 4) % ByteSize \in Byte
    BY <2>2, BytesTyped DEF Byte
  <2>4. CASE copy_state[Reader] \in {"IDLE", "WRITE"}
    BY <2>3, <2>4, BytesTyped DEF inp_packet_addr
  <2>5. CASE copy_state[Reader] \in {"ADDR_0", "ADDR_1", "ADDR_2", "ADDR_3"}
    BY <2>5, BytesTyped DEF inp_packet_addr, AddrByte
  <2>6. CASE copy_state[Reader] \in {"LEN", "READ"}
    BY <2>6, BytesTyped DEF inp_packet_re
  <2>. QED  BY <2>2, <2>4, <2>5, <2>6 DEF CopierStates
<1>. HIDE DEF re, addr
<1>4. res_data' \in Byte
  BY <1>1, <1>2, <1>3 DEF ParserTick, ParserTypeOK
<1>5. Increment(parse_ptr) \in Byte
  BY <1>1, IncrementTyped DEF ParserTypeOK
<1>6. NextField(byte) \in ParserStates \/ res_valid
  BY <1>1 DEF NextField, ParserStates, ParserTypeOK, res_valid
<1>7. CASE res_valid /\ Hold(inp_packet_ready(ready))
  BY <1>1, <1>4, <1>7 DEF Hold, ParserTypeOK, ParserStates
<1>8. CASE ~res_valid /\ valid /\ Receive(byte, error)
  <2>1. parse_state' \in ParserStates
    BY <1>6, <1>8 DEF Receive, ParserStates
  <2>2. res_cmd' \in Byte /\ res_id' \in Byte /\ res_len' \in Byte /\ res_error' \in BOOLEAN
    BY <1>1, <1>8 DEF Receive, ParserTypeOK
  <2>3. parse_ptr' \in Byte
    BY <1>1, <1>5, <1>8, BytesTyped DEF Receive, ParserTypeOK
  <2>4. res_data_buf' \in [Byte -> Byte]
    BY <1>1, <1>8 DEF Receive, ParserTypeOK
  <2>. QED  BY <1>4, <2>1, <2>2, <2>3, <2>4 DEF ParserTypeOK
<1>9. CASE UNCHANGED <<parse_state, res_cmd, res_id, res_len, res_error, res_data_buf, parse_ptr>>
  BY <1>1, <1>4, <1>9 DEF ParserTypeOK
<1>. QED  BY <1>2, <1>7, <1>8, <1>9 DEF ParserTick

\* The two copiers.
LEMMA CopierTyped ==
  ASSUME TypeOK, CopierTick(copy_req, copy_write)
  PROVE  CopierTypeOK'
<1>1. CopierTypeOK /\ res_data \in Byte
  BY DEF TypeOK, ParserTypeOK
<1>2. \A k \in Memories : copy_next(k, copy_req[k], copy_write[k]) \in CopierStates
  BY <1>1 DEF copy_next, CopierStates, CopierTypeOK
<1>3. copy_state' \in [Memories -> CopierStates]
  BY <1>2 DEF CopierTick
<1>4. ASSUME NEW k \in Memories
      PROVE  (IF copy_state[k] \in {"ADDR_0", "ADDR_1", "ADDR_2", "ADDR_3"}
              THEN [start_addr[k] EXCEPT ![AddrByte(copy_state[k])] = res_data]
              ELSE start_addr[k]) \in [0 .. 3 -> Byte]
  BY <1>1 DEF CopierTypeOK
<1>5. start_addr' \in [Memories -> [0 .. 3 -> Byte]]
  BY <1>4 DEF CopierTick
<1>6. read_len' \in [Memories -> Byte]
  BY <1>1 DEF CopierTick, CopierTypeOK
<1>7. ASSUME NEW k \in Memories PROVE Increment(copy_ptr[k]) \in Byte /\ copy_ptr[k] \in Byte
  BY <1>1, IncrementTyped DEF CopierTypeOK
<1>8. copy_ptr' \in [Memories -> Byte]
  BY <1>7, BytesTyped DEF CopierTick
<1>. QED  BY <1>3, <1>5, <1>6, <1>8 DEF CopierTypeOK

\* The registers and the payload of the answer, and the sender.
LEMMA BufferTyped ==
  ASSUME TypeOK, NEW ready,
         HeaderTick(responding, out_status, res_id, out_len), PayloadWrite(halted),
         SenderTick(dm_state = "WAIT_SEND", ready)
  PROVE  BufferTypeOK'
<1>1. BufferTypeOK /\ res_id \in Byte /\ CopierTypeOK /\ data_data \in [Memories -> Byte]
  BY DEF TypeOK, ParserTypeOK
<1>2. out_status \in Byte
  BY BytesTyped DEF out_status
<1>3. out_len \in Byte
  BY <1>1, BytesTyped DEF out_len, CopierTypeOK, Memories
<1>4. status_reg' \in Byte /\ id_reg' \in Byte /\ len_reg' \in Byte
  BY <1>1, <1>2, <1>3 DEF HeaderTick, BufferTypeOK
<1>5. payload_data_buf' \in [Byte -> Byte]
  <2>1. /\ copy_ptr["prog"] \in Byte /\ copy_ptr["data"] \in Byte
        /\ data_data["prog"] \in Byte /\ data_data["data"] \in Byte
        /\ payload_data_buf \in [Byte -> Byte]
    BY <1>1 DEF CopierTypeOK, Memories, BufferTypeOK
  <2>. QED  BY <2>1, BytesTyped DEF PayloadWrite, PayloadTick
<1>6. next_send_ptr \in Byte
  BY <1>1, IncrementTyped DEF next_send_ptr, BufferTypeOK
<1>7. send_valid => AfterByte \in SenderStates
  BY <1>1 DEF send_valid, AfterByte, SenderStates, BufferTypeOK
<1>8. send_state' \in SenderStates /\ send_ptr' \in Byte
  BY <1>1, <1>6, <1>7, BytesTyped DEF SenderTick, BufferTypeOK, SenderStates
<1>. QED  BY <1>4, <1>5, <1>8 DEF BufferTypeOK

\* The service of a command of the table is a state.
LEMMA DispatchTyped ==
  ASSUME TypeOK
  PROVE  Dispatch \in DebugStates
<1>1. res_cmd \in Byte /\ res_error \in BOOLEAN
  BY DEF TypeOK, ParserTypeOK
<1>2. ASSUME res_cmd <= 7 PROVE Service[res_cmd + 1] \in DebugStates
  <2>1. res_cmd + 1 \in 1 .. 8
    BY <1>1, <1>2 DEF Byte
  <2>. QED  BY <2>1 DEF DebugStates
<1>3. CASE res_error
  BY <1>3 DEF Dispatch, DebugStates
<1>4. CASE ~res_error
  BY <1>1, <1>2, <1>4, ByteAssumption DEF Dispatch, DebugStates, Byte
<1>. QED  BY <1>1, <1>3, <1>4

\* The timeout of a damaged packet is over before its counter overflows.
LEMMA TimeoutBounded ==
  ASSUME TypeOK, Follows, dm_state = "WAIT_TIMEOUT"
  PROVE  timeout_counter < TIMEOUT_TICKS /\ res_error
<1>1. /\ timeout_counter \in Int /\ gap \in Int /\ gap <= MaxGap
      /\ MaxGap \in Int /\ TIMEOUT_TICKS \in Int /\ MaxGap + 1 < TIMEOUT_TICKS
      /\ host_state \in {"IDLE", "SENDING", "WAITING"}
  BY LineAssumption, TickAssumption DEF TypeOK, ControlTypeOK
<1>2. CASE host_state = "SENDING"
  BY <1>1, <1>2 DEF Follows, Arriving
<1>3. CASE host_state # "SENDING"
  BY <1>1, <1>3 DEF Follows, AtRest, Held, Complete
<1>. QED  BY <1>2, <1>3

\* The command state machine and its two counters.
LEMMA ControlTyped ==
  ASSUME TypeOK, Follows, NEW ready, NEW valid \in BOOLEAN,
         dm_state' = dm_next(halted, ready), TimeoutTick(valid), ResetTick
  PROVE  ControlTypeOK'
<1>1. ControlTypeOK
  BY DEF TypeOK
<1>2. dm_state' \in DebugStates
  BY <1>1, DispatchTyped DEF dm_next, ControlTypeOK, responding, DebugStates
<1>3. timeout_counter' \in 0 .. TIMEOUT_TICKS
  BY <1>1, TimeoutBounded, TickAssumption DEF TimeoutTick, ControlTypeOK
<1>4. reset_counter' \in 0 .. RESET_TICKS
  BY <1>1, TickAssumption DEF ResetTick, soft_reset_n, ControlTypeOK
<1>. QED  BY <1>2, <1>3, <1>4 DEF ControlTypeOK

\* What is around the unit: the ports, the memories, the halt control, the UART.
LEMMA BoardTyped ==
  ASSUME TypeOK, NEW ready \in BOOLEAN, NEW drained \in BOOLEAN, NEW taken \in BOOLEAN,
         UartTick(ready), HaltTick(drained), PortTick(taken)
  PROVE  /\ data_ack' \in [Memories -> BOOLEAN] /\ data_data' \in [Memories -> Byte]
         /\ mem' \in [Memories -> [Addr -> Byte]]
         /\ {halt_req_in', m_is_halted', halted', refused'} \subseteq BOOLEAN
         /\ delay' \in 0 .. NUM_TICKS /\ resp' \in Seq(Byte)
<1>1. /\ data_data \in [Memories -> Byte] /\ mem \in [Memories -> [Addr -> Byte]]
      /\ res_data \in Byte /\ delay \in 0 .. NUM_TICKS /\ resp \in Seq(Byte)
      /\ {halt_req_in, m_is_halted, halted} \subseteq BOOLEAN
      /\ CopierTypeOK /\ BufferTypeOK
      /\ NUM_TICKS \in Nat
  BY LineAssumption DEF TypeOK, ParserTypeOK
<1>2. ASSUME NEW k \in Memories PROVE data_addr(k) \in Addr
  <2>1. start_addr[k] \in [0 .. 3 -> Byte] /\ copy_ptr[k] \in Byte
    BY <1>1 DEF CopierTypeOK
  <2>. QED  BY <2>1, AddressTyped DEF data_addr
<1>3. ASSUME NEW k \in Memories PROVE Accepts(k, taken) \in BOOLEAN
  BY <1>1 DEF Accepts, data_req
<1>4. data_ack' \in [Memories -> BOOLEAN]
  BY <1>3 DEF PortTick
<1>5. data_data' \in [Memories -> Byte]
  BY <1>1, <1>2 DEF PortTick
<1>6. mem' \in [Memories -> [Addr -> Byte]]
  <2>1. ASSUME NEW k \in Memories
        PROVE  (IF Accepts(k, taken) /\ data_wr_en(k)
                THEN [mem[k] EXCEPT ![data_addr(k)] = res_data] ELSE mem[k]) \in [Addr -> Byte]
    BY <1>1, <1>2
  <2>. QED  BY <2>1 DEF PortTick
<1>7. {halt_req_in', m_is_halted', halted', refused'} \subseteq BOOLEAN
  BY <1>1 DEF HaltTick, PortTick, data_req
<1>8. delay' \in 0 .. NUM_TICKS
  BY <1>1 DEF UartTick
<1>9. send_valid => send_data \in Byte
  BY <1>1 DEF send_valid, send_data, BufferTypeOK, SenderStates
<1>10. resp' \in Seq(Byte)
  BY <1>1, <1>9 DEF UartTick, byte_passes
<1>. QED  BY <1>4, <1>5, <1>6, <1>7, <1>8, <1>10

\* The host's variables, and what has arrived of the packet.
LEMMA LineTyped ==
  ASSUME TypeOK, PacketShape, NEW valid \in BOOLEAN, NEW byte \in Byte, NEW error \in BOOLEAN,
         Line(valid, byte, error), UNCHANGED <<pkt, bad>>
  PROVE  /\ host_state' \in {"IDLE", "SENDING", "WAITING"}
         /\ pkt' \in Seq(Byte) /\ sent' \in 0 .. Len(pkt') /\ bad' \in 0 .. Len(pkt')
         /\ gap' \in 0 .. MaxGap
         /\ host_state' = "IDLE" <=> host_state = "IDLE"
         /\ host_state' = "SENDING" => host_state = "SENDING" /\ sent' < Len(pkt)
         /\ host_state' = "WAITING" /\ host_state # "WAITING" => valid /\ sent' = Len(pkt)
         /\ host_state = "WAITING" => host_state' = "WAITING" /\ sent' = sent
<1>1. /\ pkt \in Seq(Byte) /\ sent \in 0 .. Len(pkt) /\ bad \in 0 .. Len(pkt) /\ gap \in 0 .. MaxGap
      /\ host_state \in {"IDLE", "SENDING", "WAITING"} /\ MaxGap \in Nat /\ Len(pkt) \in Nat
  BY LineAssumption DEF TypeOK
<1>2. CASE SendByte /\ valid
  BY <1>1, <1>2 DEF SendByte, PacketShape
<1>3. CASE Quiet /\ ~valid
  BY <1>1, <1>3 DEF Quiet, PacketShape
<1>. QED  BY <1>2, <1>3 DEF Line

\* All of it together.
LEMMA EdgeTyped ==
  ASSUME TypeOK, PacketShape, Follows,
         NEW valid \in BOOLEAN, NEW byte \in Byte, NEW error \in BOOLEAN,
         NEW ready \in BOOLEAN, NEW drained \in BOOLEAN, NEW taken \in BOOLEAN,
         Edge(valid, byte, error, ready, drained, taken), Line(valid, byte, error)
  PROVE  TypeOK'
<1>1. /\ ParserTypeOK' /\ CopierTypeOK' /\ BufferTypeOK' /\ ControlTypeOK'
  BY ParserTyped, CopierTyped, BufferTyped, ControlTyped DEF Edge, DebugTick
<1>2. /\ data_ack' \in [Memories -> BOOLEAN] /\ data_data' \in [Memories -> Byte]
      /\ mem' \in [Memories -> [Addr -> Byte]]
      /\ {halt_req_in', m_is_halted', halted', refused'} \subseteq BOOLEAN
      /\ delay' \in 0 .. NUM_TICKS /\ resp' \in Seq(Byte)
  BY BoardTyped DEF Edge
<1>3. UNCHANGED <<session, pkt, bad, next_id, host_halted, shadow>>
  BY DEF Edge
<1>4. /\ host_state' \in {"IDLE", "SENDING", "WAITING"}
      /\ pkt' \in Seq(Byte) /\ sent' \in 0 .. Len(pkt') /\ bad' \in 0 .. Len(pkt')
      /\ gap' \in 0 .. MaxGap
  BY <1>3, LineTyped
<1>5. /\ next_id' \in 0 .. NumIds - 1 /\ host_halted' \in BOOLEAN
      /\ shadow' \in [Memories -> [Addr -> Byte]]
  BY <1>3 DEF TypeOK
<1>. QED  BY <1>1, <1>2, <1>4, <1>5 DEF TypeOK

-----------------------------------------------------------------------------
\* The parts keep serving the state that asked them, and end with it.
LEMMA EdgeServes ==
  ASSUME TypeOK, PartsServe, NEW valid, NEW byte, NEW error,
         NEW ready \in BOOLEAN, NEW drained, NEW taken,
         Edge(valid, byte, error, ready, drained, taken)
  PROVE  PartsServe'
<1>1. /\ CopierTick(copy_req, copy_write)
      /\ SenderTick(dm_state = "WAIT_SEND", send_ready(ready))
      /\ dm_state' = dm_next(halted, send_ready(ready))
      /\ ResetTick /\ PortTick(taken)
      /\ dm_state \in DebugStates /\ send_state \in SenderStates
      /\ copy_state \in [Memories -> CopierStates] /\ reset_counter \in 0 .. RESET_TICKS
  BY DEF Edge, DebugTick, TypeOK, ControlTypeOK, BufferTypeOK, CopierTypeOK
<1>2. ASSUME NEW k \in Memories, copy_state'[k] # "IDLE" PROVE copy_req'[k]
  <2>1. copy_state'[k] = copy_next(k, copy_req[k], copy_write[k])
    BY <1>1 DEF CopierTick
  <2>2. copy_req[k]
    BY <1>2, <2>1 DEF PartsServe, copy_next
  <2>3. ~CopyReady(k)
    BY <1>2, <2>1 DEF CopyReady, copy_ready
  <2>4. k = "prog" \/ k = "data"
    BY DEF Memories
  <2>5. CASE k = "prog"
    <3>1. dm_state \in {"CMD_READ_PROG", "CMD_WRITE_PROG"}
      BY <2>2, <2>5 DEF copy_req
    <3>2. ~Done(halted)
      <4>1. ~copy_req["data"]
        BY <3>1 DEF copy_req, Memories
      <4>. QED  BY <2>2, <2>3, <2>5, <3>1, <4>1 DEF Done
    <3>3. dm_state' = dm_state
      BY <1>1, <3>1, <3>2 DEF dm_next, responding
    <3>. QED  BY <2>5, <3>1, <3>3 DEF copy_req, Memories
  <2>6. CASE k = "data"
    <3>1. dm_state \in {"CMD_READ_DATA", "CMD_WRITE_DATA"}
      BY <2>2, <2>6 DEF copy_req
    <3>2. ~copy_req["prog"]
      BY <3>1 DEF copy_req, Memories
    <3>3. ~Done(halted)
      BY <2>2, <2>3, <2>6, <3>1, <3>2 DEF Done
    <3>4. dm_state' = dm_state
      BY <1>1, <3>1, <3>3 DEF dm_next, responding
    <3>. QED  BY <2>6, <3>1, <3>4 DEF copy_req, Memories
  <2>. QED  BY <2>4, <2>5, <2>6
<1>3. ASSUME NEW k \in Memories, data_ack'[k] PROVE copy_state'[k] \in {"READ", "WRITE"}
  <2>1. Accepts(k, taken)
    BY <1>1, <1>3 DEF PortTick
  <2>2. copy_state[k] \in {"READ", "WRITE"} /\ ~data_ack[k]
    BY <2>1 DEF Accepts, data_req
  <2>. QED  BY <1>1, <2>2 DEF CopierTick, copy_next
<1>4. reset_counter' # 0 => dm_state' = "CMD_RESET"
  <2>1. SUFFICES ASSUME reset_counter' # 0 PROVE dm_state' = "CMD_RESET"
    OBVIOUS
  <2>2. dm_state = "CMD_RESET" /\ ~soft_reset_ack
    BY <1>1, <2>1 DEF ResetTick, soft_reset_n, soft_reset_ack, PartsServe
  <2>3. ~copy_req["prog"] /\ ~copy_req["data"]
    BY <2>2 DEF copy_req, Memories
  <2>. QED  BY <1>1, <2>2, <2>3 DEF dm_next, responding, Done
<1>5. send_state' # "IDLE" => dm_state' = "WAIT_SEND"
  BY <1>1 DEF SenderTick, PartsServe, send_valid, send_ack, dm_next
<1>6. send_state' \in {"SEND_STATUS", "SEND_ID", "SEND_LEN"} => send_ptr' = 0
  BY <1>1 DEF SenderTick, PartsServe, send_valid, AfterByte, SenderStates
<1>. QED  BY <1>2, <1>3, <1>4, <1>5, <1>6 DEF PartsServe

\* Nothing is sent but in WAIT_SEND.
LEMMA SilentEdge ==
  ASSUME TypeOK, PartsServe, NEW valid, NEW byte, NEW error,
         NEW ready \in BOOLEAN, NEW drained, NEW taken,
         Edge(valid, byte, error, ready, drained, taken), dm_state # "WAIT_SEND"
  PROVE  /\ send_state = "IDLE" /\ send_state' = "IDLE" /\ resp' = resp
         /\ ~inp_packet_ready(send_ready(ready))
BY DEF Edge, DebugTick, SenderTick, UartTick, byte_passes, send_valid, PartsServe, inp_packet_ready

\* In WAIT_SEND the answer grows byte by byte, its registers staying as they are,
\* and it is complete when its last byte is acknowledged.
LEMMA AnswerGrows ==
  ASSUME TypeOK, PartsServe, Answering, NEW valid, NEW byte, NEW error,
         NEW ready \in BOOLEAN, NEW drained, NEW taken,
         Edge(valid, byte, error, ready, drained, taken), dm_state = "WAIT_SEND"
  PROVE  /\ UNCHANGED <<status_reg, len_reg>>
         /\ IF send_ack(send_ready(ready))
            THEN ResponseComplete' /\ resp'[1] = status_reg
            ELSE Answering'
<1>. DEFINE rdy == send_ready(ready)
<1>1. UNCHANGED <<status_reg, len_reg>>
  BY DEF Edge, DebugTick, HeaderTick, responding
<1>2. /\ SenderTick(TRUE, rdy) /\ UartTick(ready)
      /\ resp \in Seq(Byte) /\ delay \in 0 .. NUM_TICKS /\ NUM_TICKS \in Nat
      /\ send_state \in SenderStates /\ status_reg \in Byte /\ id_reg \in Byte /\ len_reg \in Byte
      /\ send_ptr \in Byte /\ payload_data_buf \in [Byte -> Byte]
  BY LineAssumption DEF Edge, DebugTick, TypeOK, BufferTypeOK
<1>3. rdy <=> delay = 0 /\ ready
  BY DEF send_ready
<1>4. send_valid /\ rdy => resp' = Append(resp, send_data)
  BY <1>2 DEF UartTick, byte_passes, send_ready
<1>5. ~(send_valid /\ rdy) => resp' = resp
  BY <1>2 DEF UartTick, byte_passes, send_ready
<1>. HIDE DEF rdy
<1>6. CASE ~(send_valid /\ rdy)
  <2>1. /\ send_state = "IDLE" => send_state' = "SEND_STATUS"
        /\ send_state # "IDLE" => send_state' = send_state /\ send_ptr' = send_ptr
        /\ ~send_ack(rdy)
    BY <1>2, <1>6 DEF SenderTick, send_valid, send_ack
  <2>. QED  BY <1>1, <1>2, <1>5, <1>6, <2>1 DEF Answering, SenderStates, rdy
<1>7. CASE send_valid /\ rdy
  <2>1. /\ send_state' = AfterByte
        /\ send_ptr' = IF send_state = "SEND_PAYLOAD" THEN next_send_ptr ELSE send_ptr
        /\ send_ack(rdy) <=> AfterByte = "IDLE"
    BY <1>2, <1>7 DEF SenderTick, send_valid, send_ack
  <2>2. resp' = Append(resp, send_data) /\ send_state # "IDLE"
    BY <1>4, <1>7 DEF send_valid
  <2>3. CASE send_state = "SEND_STATUS"
    <3>1. resp' = <<status_reg>> /\ send_state' = "SEND_ID" /\ ~send_ack(rdy)
      BY <2>1, <2>2, <2>3 DEF Answering, AfterByte, send_data
    <3>. QED  BY <1>1, <3>1 DEF Answering, rdy
  <2>4. CASE send_state = "SEND_ID"
    <3>1. resp' = Append(resp, id_reg) /\ send_state' = "SEND_LEN" /\ ~send_ack(rdy)
      BY <2>1, <2>2, <2>4 DEF AfterByte, send_data
    <3>2. Len(resp) = 1 /\ resp[1] = status_reg
      BY <2>4 DEF Answering
    <3>3. Len(resp') = 2 /\ resp'[1] = status_reg
      <4>1. /\ Len(Append(resp, id_reg)) = Len(resp) + 1
            /\ \A i \in 1 .. Len(resp) : Append(resp, id_reg)[i] = resp[i]
        BY <1>2, AppendByte
      <4>2. 1 \in 1 .. Len(resp)
        BY <3>2
      <4>. QED  BY <3>1, <3>2, <4>1, <4>2
    <3>. QED  BY <1>1, <3>1, <3>3 DEF Answering, rdy
  <2>5. CASE send_state = "SEND_LEN"
    <3>1. resp' = Append(resp, len_reg) /\ Len(resp) = 2 /\ resp[1] = status_reg
      BY <2>2, <2>5 DEF send_data, Answering
    <3>2. Len(resp') = 3 /\ resp'[1] = status_reg /\ resp'[3] = len_reg
      <4>1. /\ Len(Append(resp, len_reg)) = Len(resp) + 1
            /\ \A i \in 1 .. Len(resp) : Append(resp, len_reg)[i] = resp[i]
            /\ Append(resp, len_reg)[Len(resp) + 1] = len_reg
        BY <1>2, AppendByte
      <4>2. 1 \in 1 .. Len(resp)
        BY <3>1
      <4>. QED  BY <3>1, <4>1, <4>2
    <3>3. CASE len_reg = 0
      <4>1. send_ack(rdy)
        BY <2>1, <2>5, <3>3 DEF AfterByte
      <4>. QED  BY <1>1, <3>2, <3>3, <4>1 DEF ResponseComplete, rdy
    <3>4. CASE len_reg # 0
      <4>1. send_state' = "SEND_PAYLOAD" /\ ~send_ack(rdy) /\ send_ptr' = send_ptr
        BY <2>1, <2>5, <3>4 DEF AfterByte
      <4>2. send_ptr = 0
        BY <2>5 DEF PartsServe
      <4>. QED  BY <1>1, <1>2, <3>2, <3>4, <4>1, <4>2 DEF Answering, rdy, Byte
    <3>. QED  BY <3>3, <3>4
  <2>6. CASE send_state = "SEND_PAYLOAD"
    <3>1. /\ resp' = Append(resp, payload_data_buf[send_ptr])
          /\ Len(resp) = 3 + send_ptr /\ send_ptr < len_reg
          /\ resp[1] = status_reg /\ resp[3] = len_reg
      BY <2>2, <2>6 DEF send_data, Answering
    <3>2. payload_data_buf[send_ptr] \in Byte /\ send_ptr \in Nat /\ len_reg \in Nat
      BY <1>2 DEF Byte
    <3>3. Len(resp') = 4 + send_ptr /\ resp'[1] = status_reg /\ resp'[3] = len_reg
      BY <1>2, <3>1, <3>2, AppendByte
    <3>4. next_send_ptr = send_ptr + 1
      BY <1>2, <3>1, IncrementBelow DEF next_send_ptr
    <3>5. CASE next_send_ptr = len_reg
      <4>1. send_ack(rdy)
        BY <2>1, <2>6, <3>5 DEF AfterByte
      <4>. QED  BY <1>1, <3>2, <3>3, <3>4, <3>5, <4>1 DEF ResponseComplete, rdy
    <3>6. CASE next_send_ptr # len_reg
      <4>1. send_state' = "SEND_PAYLOAD" /\ ~send_ack(rdy) /\ send_ptr' = next_send_ptr
        BY <2>1, <2>6, <3>6 DEF AfterByte
      <4>. QED  BY <1>1, <3>1, <3>2, <3>3, <3>4, <3>6, <4>1 DEF Answering, rdy
    <3>. QED  BY <3>5, <3>6
  <2>. QED  BY <1>2, <2>2, <2>3, <2>4, <2>5, <2>6 DEF SenderStates
<1>. QED  BY <1>1, <1>6, <1>7 DEF rdy

-----------------------------------------------------------------------------
\* The packet on the line keeps its shape, and no answer starts before its end.
LEMMA EdgeKeepsShape ==
  ASSUME TypeOK, PartsServe, PacketShape, Follows,
         NEW valid \in BOOLEAN, NEW byte \in Byte, NEW error \in BOOLEAN,
         NEW ready \in BOOLEAN, NEW drained, NEW taken,
         Edge(valid, byte, error, ready, drained, taken), Line(valid, byte, error)
  PROVE  PacketShape'
<1>1. UNCHANGED <<pkt, bad>>
  BY DEF Edge
<1>2. /\ host_state' = "IDLE" <=> host_state = "IDLE"
      /\ host_state' = "SENDING" => host_state = "SENDING" /\ sent' < Len(pkt)
      /\ host_state' = "WAITING" /\ host_state # "WAITING" => valid /\ sent' = Len(pkt)
      /\ host_state = "WAITING" => host_state' = "WAITING" /\ sent' = sent
      /\ host_state' \in {"IDLE", "SENDING", "WAITING"}
  BY <1>1, LineTyped
<1>3. host_state = "IDLE" => sent' = sent
  BY DEF Line, SendByte, Quiet
<1>4. resp' # <<>> => host_state' = "WAITING"
  <2>1. CASE dm_state = "WAIT_SEND"
    <3>1. host_state \in {"IDLE", "SENDING", "WAITING"}
      BY DEF TypeOK
    <3>. QED  BY <1>2, <2>1, <3>1 DEF Follows, AtRest, Arriving
  <2>2. CASE dm_state # "WAIT_SEND"
    <3>1. resp' = resp
      BY <2>2, SilentEdge
    <3>. QED  BY <1>2, <3>1 DEF PacketShape
  <2>. QED  BY <2>1, <2>2
<1>. QED  BY <1>1, <1>2, <1>3, <1>4 DEF PacketShape

\* What the parser and the command state machine do at an edge, by their states.
LEMMA ParserMoves ==
  ASSUME TypeOK, NEW valid \in BOOLEAN, NEW byte, NEW error,
         NEW ready, NEW drained, NEW taken,
         Edge(valid, byte, error, ready, drained, taken)
  PROVE  /\ parse_state = "WAIT_READY" =>
              /\ parse_state' = IF inp_packet_ready(send_ready(ready)) THEN "WAIT_CMD" ELSE "WAIT_READY"
              /\ res_error' <=> res_error /\ ~inp_packet_ready(send_ready(ready))
              /\ UNCHANGED <<res_cmd, res_len, parse_ptr>>
         /\ parse_state # "WAIT_READY" /\ valid => Receive(byte, error)
         /\ parse_state # "WAIT_READY" /\ ~valid =>
              UNCHANGED <<parse_state, res_cmd, res_len, res_error, parse_ptr>>
BY DEF Edge, DebugTick, ParseTick, ParserTick, res_valid, Hold

\* A unit at rest stays so while the line is quiet.
LEMMA RestKept ==
  ASSUME TypeOK, AtRest, NEW byte, NEW error, NEW ready, NEW drained, NEW taken,
         Edge(FALSE, byte, error, ready, drained, taken)
  PROVE  AtRest'
<1>1. parse_state' = "WAIT_CMD" /\ res_error' = res_error
  BY ParserMoves DEF AtRest
<1>2. dm_state' = "WAIT_INPUT"
  BY DEF Edge, DebugTick, dm_next, responding, AtRest, res_valid
<1>. QED  BY <1>1, <1>2 DEF AtRest

\* An undamaged byte takes the parser to the next field, the last one to the end.
LEMMA ByteTaken ==
  ASSUME TypeOK, PacketShape, Arriving, Intact, host_state = "SENDING",
         NEW ready, NEW drained, NEW taken, NEW byte \in Byte,
         byte = pkt[sent + 1], sent' = sent + 1,
         Edge(TRUE, byte, FALSE, ready, drained, taken)
  PROVE  /\ parse_state' = IF sent' < Len(pkt) THEN Field' ELSE "WAIT_READY"
         /\ ~res_error' /\ dm_state' = "WAIT_INPUT"
         /\ res_cmd' = pkt[1]
         /\ sent' > 2 => res_len' = pkt[3] /\ parse_ptr' = sent' - 3
<1>1. /\ parse_state = Field /\ ~res_error /\ dm_state = "WAIT_INPUT"
      /\ sent > 0 => res_cmd = pkt[1]
      /\ sent > 2 => res_len = pkt[3] /\ parse_ptr = sent - 3
  BY DEF Arriving
<1>2. /\ sent \in Nat /\ sent < Len(pkt) /\ Len(pkt) = 3 + pkt[3] /\ Len(pkt) \in Nat /\ Len(pkt) >= 3
      /\ pkt[3] \in Byte
  <2>1. pkt \in Seq(Byte) /\ Len(pkt) >= 3
    BY DEF TypeOK, PacketShape
  <2>2. pkt[3] \in Byte
    BY <2>1
  <2>. QED  BY <2>1, <2>2 DEF TypeOK, PacketShape
<1>3. Receive(byte, FALSE)
  BY <1>1, <1>2, ParserMoves DEF Field
<1>4. ~res_error'
  BY <1>3 DEF Receive
<1>5. dm_state' = "WAIT_INPUT"
  BY <1>1, <1>2 DEF Edge, DebugTick, dm_next, responding, res_valid, Field
<1>6. res_cmd' = pkt[1]
  BY <1>1, <1>2, <1>3 DEF Receive, Field
<1>7. CASE sent \in {0, 1}
  BY <1>1, <1>2, <1>3, <1>4, <1>5, <1>6, <1>7 DEF Receive, NextField, Field
<1>8. CASE sent = 2
  BY <1>1, <1>2, <1>3, <1>4, <1>5, <1>6, <1>8, ByteAssumption DEF Receive, NextField, Field, Byte
<1>9. CASE sent > 2
  <2>1. Increment(parse_ptr) = parse_ptr + 1
    <3>1. parse_ptr \in Byte /\ parse_ptr < pkt[3]
      BY <1>1, <1>2, <1>9 DEF TypeOK, ParserTypeOK, Byte
    <3>. QED  BY <1>2, <3>1, IncrementBelow
  <2>2. parse_state = "WAIT_DATA" /\ Field' = "WAIT_DATA"
    BY <1>1, <1>2, <1>9 DEF Field
  <2>3. /\ res_len' = pkt[3] /\ parse_ptr' = sent' - 3
    BY <1>1, <1>2, <1>3, <1>9, <2>1, <2>2 DEF Receive
  <2>4. parse_state' = IF sent' < Len(pkt) THEN "WAIT_DATA" ELSE "WAIT_READY"
    BY <1>1, <1>2, <1>3, <1>9, <2>1, <2>2 DEF Receive, NextField, Byte
  <2>. QED  BY <1>4, <1>5, <1>6, <2>2, <2>3, <2>4
<1>. QED  BY <1>2, <1>7, <1>8, <1>9

\* Held: what a packet that is served needs of the line is that it is quiet.
LEMMA HeldKept ==
  ASSUME TypeOK, PartsServe, Held,
         NEW byte, NEW error, NEW ready \in BOOLEAN, NEW drained, NEW taken,
         Edge(FALSE, byte, error, ready, drained, taken), sent' = sent
  PROVE  Held' \/ Complete'
<1>1. /\ UNCHANGED <<pkt, bad, sent>>
      /\ dm_state' = dm_next(halted, send_ready(ready))
      /\ TimeoutTick(FALSE)
      /\ dm_state \in DebugStates /\ timeout_counter \in 0 .. TIMEOUT_TICKS
      /\ TIMEOUT_TICKS \in Nat \ {0} /\ res_cmd \in Byte /\ res_error \in BOOLEAN
  BY TickAssumption DEF Edge, DebugTick, TypeOK, ControlTypeOK, ParserTypeOK
<1>2. Intact' <=> Intact
  BY <1>1 DEF Intact
<1>3. /\ parse_state' = IF inp_packet_ready(send_ready(ready)) THEN "WAIT_CMD" ELSE "WAIT_READY"
      /\ res_error' <=> res_error /\ ~inp_packet_ready(send_ready(ready))
      /\ res_cmd' = res_cmd
  BY ParserMoves DEF Held
<1>4. CASE dm_state = "WAIT_SEND" /\ send_ack(send_ready(ready))
  <2>1. ResponseComplete' /\ resp'[1] = status_reg /\ status_reg' = status_reg
    BY <1>4, AnswerGrows DEF Held
  <2>2. dm_state' = "WAIT_INPUT"
    BY <1>1, <1>4 DEF dm_next, responding
  <2>3. AtRest'
    BY <1>3, <1>4, <2>2 DEF AtRest, inp_packet_ready
  <2>. QED  BY <2>1, <2>3 DEF Complete
<1>5. CASE dm_state = "WAIT_SEND" /\ ~send_ack(send_ready(ready))
  <2>1. Answering'
    BY <1>5, AnswerGrows DEF Held
  <2>2. dm_state' = "WAIT_SEND"
    BY <1>1, <1>5 DEF dm_next, responding
  <2>3. ~Serving'
    BY <2>2 DEF Service, Serving
  <2>4. parse_state' = "WAIT_READY" /\ (res_error' <=> res_error)
    BY <1>3, <1>5 DEF inp_packet_ready
  <2>5. (res_error' <=> ~Intact') /\ (Intact' => res_cmd' = pkt'[1])
    BY <1>1, <1>2, <1>3, <2>4 DEF Held
  <2>6. dm_state' \notin {"WAIT_INPUT", "WAIT_TIMEOUT"}
    BY <2>2
  <2>7. Held'
    BY <2>1, <2>3, <2>4, <2>5, <2>6 DEF Held
  <2>. QED  BY <2>7
<1>6. CASE dm_state # "WAIT_SEND"
  <2>1. Answering'
    <3>1. send_state = "IDLE" /\ send_state' = "IDLE" /\ resp' = resp
      BY <1>6, SilentEdge
    <3>. QED  BY <3>1 DEF Held, Answering
  <2>2. /\ parse_state' = "WAIT_READY" /\ (res_error' <=> res_error) /\ res_cmd' = res_cmd
    BY <1>3, <1>6 DEF inp_packet_ready
  <2>3. /\ dm_state' = "WAIT_INPUT" /\ res_error' => timeout_counter' = 0
        /\ dm_state' = "WAIT_TIMEOUT" => res_error' /\ timeout_counter' < TIMEOUT_TICKS
        /\ Serving' => ~res_error' /\ res_cmd' <= 7 /\ dm_state' = Service[res_cmd' + 1]
    <3>1. CASE dm_state = "WAIT_INPUT"
      <4>1. dm_state' = Dispatch
        BY <1>1, <3>1 DEF dm_next, responding, res_valid, Held
      <4>2. timeout_counter' = timeout_counter
        BY <1>1, <3>1 DEF TimeoutTick
      <4>3. CASE res_error
        <5>1. dm_state' = "WAIT_TIMEOUT" /\ timeout_counter = 0
          BY <3>1, <4>1, <4>3 DEF Dispatch, Held
        <5>2. ~Serving'
          BY <5>1 DEF Service, Serving
        <5>. QED  BY <1>1, <2>2, <4>2, <4>3, <5>1, <5>2
      <4>4. CASE ~res_error
        <5>1. dm_state' \in {"ERROR_CMD", "ERROR_ARGS"} \/ (res_cmd <= 7 /\ dm_state' = Service[res_cmd + 1])
          BY <1>1, <4>1, <4>4 DEF Dispatch, Byte
        <5>2. CASE dm_state' \in {"ERROR_CMD", "ERROR_ARGS"}
          <6>1. ~Serving'
            BY <5>2 DEF Service, Serving
          <6>. QED  BY <5>2, <6>1
        <5>3. CASE res_cmd <= 7 /\ dm_state' = Service[res_cmd + 1]
          <6>1. res_cmd + 1 \in 1 .. 8
            BY <1>1, <5>3 DEF Byte
          <6>2. dm_state' \notin {"WAIT_INPUT", "WAIT_TIMEOUT"}
            BY <5>3, <6>1 DEF Service
          <6>. QED  BY <2>2, <4>4, <5>3, <6>2
        <5>. QED  BY <5>1, <5>2, <5>3
      <4>. QED  BY <4>3, <4>4
    <3>2. CASE dm_state = "WAIT_TIMEOUT"
      <4>1. dm_state' = IF timeout_counter = TIMEOUT_TICKS - 1 THEN "ERROR_PARITY" ELSE dm_state
        BY <1>1, <3>2 DEF dm_next, responding
      <4>2. timeout_counter' = timeout_counter + 1 /\ timeout_counter < TIMEOUT_TICKS /\ res_error
        BY <1>1, <3>2 DEF TimeoutTick, Held
      <4>3. ~Serving'
        BY <3>2, <4>1 DEF Service, Serving
      <4>. QED  BY <1>1, <2>2, <3>2, <4>1, <4>2, <4>3
    <3>3. CASE responding
      <4>1. dm_state' = dm_state \/ dm_state' = "WAIT_SEND"
        BY <1>1, <3>3 DEF dm_next, responding
      <4>2. dm_state' = "WAIT_SEND" => ~Serving'
        BY DEF Service, Serving
      <4>. QED  BY <2>2, <3>3, <4>1, <4>2 DEF responding, Held, Serving
    <3>. QED  BY <1>6, <3>1, <3>2, <3>3 DEF responding
  <2>. QED  BY <1>1, <1>2, <2>1, <2>2, <2>3 DEF Held
<1>. QED  BY <1>4, <1>5, <1>6

\* A damaged packet is held while the rest of it goes by, and the timeout does
\* not end before its last byte.
LEMMA DamagedHeld ==
  ASSUME TypeOK, PartsServe, PacketShape, Arriving, ~Intact, host_state = "SENDING",
         NEW valid \in BOOLEAN, NEW byte \in Byte, NEW error \in BOOLEAN,
         NEW ready \in BOOLEAN, NEW drained, NEW taken,
         Edge(valid, byte, error, ready, drained, taken), Line(valid, byte, error)
  PROVE  /\ ~Intact' /\ parse_state' = "WAIT_READY" /\ res_error'
         /\ dm_state' = "WAIT_TIMEOUT" /\ timeout_counter' <= gap'
         /\ timeout_counter' < TIMEOUT_TICKS
         /\ send_state' = "IDLE" /\ resp' = <<>>
<1>1. /\ parse_state = "WAIT_READY" /\ res_error
      /\ \/ dm_state = "WAIT_INPUT" /\ timeout_counter = 0
         \/ dm_state = "WAIT_TIMEOUT" /\ timeout_counter <= gap
  BY DEF Arriving
<1>2. send_state' = "IDLE" /\ resp' = resp /\ ~inp_packet_ready(send_ready(ready))
  BY <1>1, SilentEdge
<1>3. parse_state' = "WAIT_READY" /\ res_error'
  BY <1>1, <1>2, ParserMoves
<1>4. /\ timeout_counter \in Nat /\ gap \in 0 .. MaxGap /\ MaxGap \in Nat /\ TIMEOUT_TICKS \in Nat
      /\ MaxGap + 1 < TIMEOUT_TICKS /\ bad \in Nat /\ sent \in Nat
  BY LineAssumption, TickAssumption DEF TypeOK, ControlTypeOK
<1>5. /\ sent' = IF valid THEN sent + 1 ELSE sent
      /\ gap' = IF valid THEN 0 ELSE gap + 1
      /\ ~valid => gap < MaxGap
      /\ bad' = bad
  BY DEF Line, SendByte, Quiet, Edge
<1>6. ~Intact'
  BY <1>4, <1>5 DEF Intact
<1>7. dm_state' = "WAIT_TIMEOUT"
  BY <1>1, <1>4 DEF Edge, DebugTick, dm_next, responding, res_valid, Dispatch
<1>8. timeout_counter' <= gap' /\ timeout_counter' < TIMEOUT_TICKS
  BY <1>1, <1>4, <1>5 DEF Edge, DebugTick, TimeoutTick
<1>9. resp = <<>>
  BY DEF PacketShape
<1>. QED  BY <1>2, <1>3, <1>6, <1>7, <1>8, <1>9

\* The parser and the command state machine follow the packet at every edge.
LEMMA EdgeFollows ==
  ASSUME TypeOK, PartsServe, PacketShape, Follows,
         NEW valid \in BOOLEAN, NEW byte \in Byte, NEW error \in BOOLEAN,
         NEW ready \in BOOLEAN, NEW drained, NEW taken,
         Edge(valid, byte, error, ready, drained, taken), Line(valid, byte, error)
  PROVE  Follows'
<1>1. UNCHANGED <<pkt, bad>>
  BY DEF Edge
<1>2. /\ host_state' = "IDLE" <=> host_state = "IDLE"
      /\ host_state' = "SENDING" => host_state = "SENDING" /\ sent' < Len(pkt)
      /\ host_state' = "WAITING" /\ host_state # "WAITING" => valid /\ sent' = Len(pkt)
      /\ host_state = "WAITING" => host_state' = "WAITING" /\ sent' = sent
      /\ host_state' \in {"IDLE", "SENDING", "WAITING"} /\ host_state \in {"IDLE", "SENDING", "WAITING"}
  BY <1>1, LineTyped DEF TypeOK
<1>3. CASE host_state = "IDLE"
  <2>1. ~valid /\ AtRest
    BY <1>3 DEF Line, SendByte, Follows
  <2>. QED  BY <1>2, <1>3, <2>1, RestKept DEF Follows
<1>4. CASE host_state = "WAITING"
  <2>1. ~valid
    BY <1>4 DEF Line, SendByte
  <2>2. CASE Held
    BY <1>2, <1>4, <2>1, <2>2, HeldKept DEF Follows
  <2>3. CASE Complete
    <3>1. AtRest'
      BY <2>1, <2>3, RestKept DEF Complete
    <3>2. resp' = resp
      BY <2>3, SilentEdge DEF Complete, AtRest
    <3>3. status_reg' = status_reg
      BY <2>3 DEF Edge, DebugTick, HeaderTick, responding, Complete, AtRest
    <3>4. Complete'
      BY <2>3, <3>1, <3>2, <3>3 DEF Complete, ResponseComplete
    <3>. QED  BY <1>2, <1>4, <3>4 DEF Follows
  <2>. QED  BY <1>4, <2>2, <2>3 DEF Follows
<1>5. CASE host_state = "SENDING"
  <2>1. Arriving
    BY <1>5 DEF Follows
  <2>2. CASE ~Intact
    <3>1. /\ ~Intact' /\ parse_state' = "WAIT_READY" /\ res_error'
          /\ dm_state' = "WAIT_TIMEOUT" /\ timeout_counter' <= gap'
          /\ timeout_counter' < TIMEOUT_TICKS
          /\ send_state' = "IDLE" /\ resp' = <<>>
      BY <1>5, <2>1, <2>2, DamagedHeld
    <3>2. Arriving'
      BY <3>1 DEF Arriving
    <3>3. Held'
      <4>1. ~Serving'
        BY <3>1 DEF Service, Serving
      <4>. QED  BY <3>1, <4>1 DEF Held, Answering
    <3>. QED  BY <1>2, <1>5, <3>2, <3>3 DEF Follows
  <2>3. CASE Intact /\ ~valid
    <3>1. sent' = sent /\ host_state' = "SENDING"
      BY <1>5, <2>3 DEF Line, Quiet
    <3>2. /\ parse_state = Field /\ ~res_error /\ dm_state = "WAIT_INPUT"
          /\ sent > 0 => res_cmd = pkt[1]
          /\ sent > 2 => res_len = pkt[3] /\ parse_ptr = sent - 3
      BY <2>1, <2>3 DEF Arriving
    <3>3. UNCHANGED <<parse_state, res_cmd, res_len, res_error, parse_ptr>>
      BY <2>3, <3>2, ParserMoves DEF Field
    <3>4. dm_state' = "WAIT_INPUT"
      BY <3>2 DEF Edge, DebugTick, dm_next, responding, res_valid, Field
    <3>5. Intact' /\ Field' = Field
      BY <1>1, <2>3, <3>1 DEF Intact, Field
    <3>6. Arriving'
      BY <1>1, <3>1, <3>2, <3>3, <3>4, <3>5 DEF Arriving
    <3>. QED  BY <3>1, <3>6 DEF Follows
  <2>4. CASE Intact /\ valid /\ ~error
    <3>1. /\ byte = pkt[sent + 1] /\ sent' = sent + 1 /\ sent + 1 # bad
      BY <2>4 DEF Line, SendByte
    <3>2. Edge(TRUE, byte, FALSE, ready, drained, taken)
      BY <2>4 DEF Edge, DebugTick, ParseTick, ParserTick, Receive, TimeoutTick
    <3>3. /\ parse_state' = IF sent' < Len(pkt) THEN Field' ELSE "WAIT_READY"
          /\ ~res_error' /\ dm_state' = "WAIT_INPUT"
          /\ res_cmd' = pkt[1]
          /\ sent' > 2 => res_len' = pkt[3] /\ parse_ptr' = sent' - 3
      BY <1>5, <2>1, <2>4, <3>1, <3>2, ByteTaken
    <3>4. Intact'
      BY <1>1, <2>4, <3>1 DEF Intact, TypeOK
    <3>5. send_state' = "IDLE" /\ resp' = <<>>
      BY <1>5, <2>1, <2>4, SilentEdge DEF Arriving, PacketShape
    <3>6. CASE host_state' = "SENDING"
      BY <1>1, <1>2, <3>3, <3>4, <3>6 DEF Arriving, Follows
    <3>7. CASE host_state' = "WAITING"
      <4>1. ~Serving'
        BY <3>3 DEF Service, Serving
      <4>2. sent' = Len(pkt) /\ Len(pkt) \in Nat
        BY <1>2, <1>5, <3>7 DEF TypeOK
      <4>3. Held'
        BY <1>1, <3>3, <3>4, <3>5, <4>1, <4>2 DEF Held, Answering
      <4>. QED  BY <3>7, <4>3 DEF Follows
    <3>. QED  BY <1>2, <1>5, <3>6, <3>7
  <2>5. CASE Intact /\ valid /\ error
    <3>1. sent + 1 = bad /\ sent' = sent + 1 /\ sent \in Nat
      BY <2>5 DEF Line, SendByte, TypeOK
    <3>2. ~Intact'
      BY <1>1, <3>1 DEF Intact
    <3>3. parse_state # "WAIT_READY" /\ dm_state = "WAIT_INPUT"
      BY <2>1, <2>5 DEF Arriving, Field
    <3>4. parse_state' = "WAIT_READY" /\ res_error'
      BY <2>5, <3>3, ParserMoves DEF Receive
    <3>5. dm_state' = "WAIT_INPUT" /\ timeout_counter' = 0
      BY <2>5, <3>3 DEF Edge, DebugTick, dm_next, responding, res_valid, TimeoutTick
    <3>6. send_state' = "IDLE" /\ resp' = <<>>
      BY <1>5, <3>3, SilentEdge DEF PacketShape
    <3>7. Arriving'
      BY <3>2, <3>4, <3>5 DEF Arriving
    <3>8. Held'
      <4>1. ~Serving'
        BY <3>5 DEF Service, Serving
      <4>. QED  BY <3>2, <3>4, <3>5, <3>6, <4>1 DEF Held, Answering
    <3>. QED  BY <1>2, <1>5, <3>7, <3>8 DEF Follows
  <2>. QED  BY <2>2, <2>3, <2>4, <2>5
<1>. QED  BY <1>2, <1>3, <1>4, <1>5

-----------------------------------------------------------------------------
\* The halt control at an edge.
LEMMA HaltMoves ==
  ASSUME TypeOK, NEW valid, NEW byte, NEW error, NEW ready, NEW drained \in BOOLEAN, NEW taken,
         Edge(valid, byte, error, ready, drained, taken)
  PROVE  /\ halt_req_in' = (/\ soft_reset_n /\ reset_counter' = 0
                            /\ dm_state = "CMD_HALT" \/ (dm_state # "CMD_RESUME" /\ halt_req_in))
         /\ m_is_halted' => halt_req_in'
         /\ m_is_halted /\ halt_req_in' => m_is_halted'
         /\ halted' = IF reset_counter = 0 THEN m_is_halted ELSE halted
         /\ reset_counter' # 0 => dm_state = "CMD_RESET" \/ reset_counter # 0
         /\ halt_req_in' \in BOOLEAN /\ m_is_halted' \in BOOLEAN /\ halted' \in BOOLEAN
BY DEF Edge, DebugTick, HaltTick, ResetTick, soft_reset_n, halt_req, resume_req, TypeOK

\* A settled halt control stays so while no command moves it.
LEMMA SettledKept ==
  ASSUME TypeOK, PartsServe, NEW valid, NEW byte, NEW error, NEW ready, NEW drained \in BOOLEAN, NEW taken,
         Edge(valid, byte, error, ready, drained, taken),
         dm_state \notin {"CMD_HALT", "CMD_RESUME", "CMD_RESET"},
         NEW b \in BOOLEAN, Settled(b)
  PROVE  halt_req_in' = b /\ m_is_halted' = b /\ halted' = b
<1>1. reset_counter = 0 /\ reset_counter' = 0
  BY DEF PartsServe, Edge, DebugTick, ResetTick, soft_reset_n
<1>2. halt_req_in' = b
  BY <1>1, HaltMoves DEF Settled, soft_reset_n
<1>3. drained => halt_req_in' /\ ~m_is_halted
  BY DEF Edge, HaltTick
<1>. QED  BY <1>1, <1>2, <1>3, HaltMoves DEF Settled

-----------------------------------------------------------------------------
\* A packet that is served is undamaged, whole, and of the command served.
LEMMA PacketServed ==
  ASSUME TypeOK, PacketShape, Follows, dm_state \notin {"WAIT_INPUT", "WAIT_TIMEOUT"}
  PROVE  /\ host_state = "WAITING" /\ Held /\ sent = Len(pkt) /\ Len(pkt) = 3 + pkt[3]
         /\ Serving => /\ Intact /\ bad = 0 /\ ~res_error
                       /\ res_cmd = pkt[1] /\ pkt[1] \in 0 .. 7
                       /\ dm_state = Service[pkt[1] + 1]
<1>1. host_state = "WAITING" /\ Held
  BY DEF TypeOK, Follows, AtRest, Arriving, Complete
<1>2. sent = Len(pkt) /\ Len(pkt) = 3 + pkt[3] /\ Len(pkt) \in Nat /\ bad \in 0 .. Len(pkt)
  BY <1>1 DEF PacketShape, TypeOK
<1>3. ASSUME Serving
      PROVE  /\ Intact /\ bad = 0 /\ ~res_error
             /\ res_cmd = pkt[1] /\ pkt[1] \in 0 .. 7
             /\ dm_state = Service[pkt[1] + 1]
  <2>1. ~res_error /\ Intact /\ res_cmd = pkt[1] /\ res_cmd <= 7 /\ dm_state = Service[res_cmd + 1]
    BY <1>1, <1>3 DEF Held
  <2>2. bad = 0
    BY <1>2, <2>1 DEF Intact
  <2>3. res_cmd \in Nat
    BY DEF TypeOK, ParserTypeOK, Byte
  <2>. QED  BY <2>1, <2>2, <2>3
<1>. QED  BY <1>1, <1>2, <1>3

\* An answer that is decided stays so until the host has it, and one is decided
\* when its service is done.
LEMMA AnswerDecided ==
  ASSUME TypeOK, PartsServe, PacketShape, Follows,
         NEW valid \in BOOLEAN, NEW byte \in Byte, NEW error \in BOOLEAN,
         NEW ready \in BOOLEAN, NEW drained, NEW taken,
         Edge(valid, byte, error, ready, drained, taken), Line(valid, byte, error)
  PROVE  /\ Decided => Decided' /\ status_reg' = status_reg
         /\ ~Decided /\ Decided' =>
              /\ responding /\ dm_state' = "WAIT_SEND"
              /\ status_reg' = STATUS_OK => Serving
<1>1. /\ dm_state' = dm_next(halted, send_ready(ready))
      /\ HeaderTick(responding, out_status, res_id, out_len)
      /\ dm_state \in DebugStates
  BY DEF Edge, DebugTick, TypeOK, ControlTypeOK
<1>2. /\ host_state = "WAITING" => host_state' = "WAITING"
      /\ host_state' = "WAITING" /\ host_state # "WAITING" => valid
      /\ host_state' \in {"IDLE", "SENDING", "WAITING"}
  BY LineTyped DEF Edge
<1>3. Follows'
  BY EdgeFollows
<1>4. CASE dm_state = "WAIT_SEND"
  <2>1. status_reg' = status_reg /\ Decided
    BY <1>1, <1>4 DEF HeaderTick, responding, Decided
  <2>2. host_state = "WAITING" /\ Held
    BY <1>4, PacketServed
  <2>3. dm_state' = "WAIT_SEND" \/ (dm_state' = "WAIT_INPUT" /\ send_ack(send_ready(ready)))
    BY <1>1, <1>4 DEF dm_next, responding
  <2>4. send_ack(send_ready(ready)) => parse_state' = "WAIT_CMD"
    BY <1>4, <2>2, ParserMoves DEF Held, inp_packet_ready
  <2>. QED  BY <1>2, <2>1, <2>2, <2>3, <2>4 DEF Decided
<1>5. CASE responding
  <2>1. ~Decided
    BY <1>5, PacketServed DEF Decided, responding
  <2>2. dm_state' = dm_state \/ dm_state' = "WAIT_SEND"
    BY <1>1, <1>5 DEF dm_next, responding
  <2>3. dm_state' = dm_state => ~Decided'
    BY <1>5 DEF Decided, responding
  <2>4. status_reg' = STATUS_OK => Serving
    <3>1. Serving \/ dm_state \in {"ERROR_PARITY", "ERROR_ARGS", "ERROR_CMD"}
      BY <1>1, <1>5 DEF responding, DebugStates, Serving
    <3>2. status_reg' = out_status
      BY <1>1, <1>5 DEF HeaderTick
    <3>. QED  BY <3>1, <3>2, ByteAssumption
              DEF out_status, STATUS_OK, STATUS_ERROR_PARITY, STATUS_ERROR_ARGS, STATUS_ERROR_CMD
  <2>. QED  BY <1>5, <2>1, <2>2, <2>3, <2>4
<1>6. CASE dm_state \in {"WAIT_INPUT", "WAIT_TIMEOUT"} /\ Decided
  <2>1. dm_state = "WAIT_INPUT" /\ host_state = "WAITING" /\ parse_state = "WAIT_CMD"
    BY <1>6 DEF Decided
  <2>2. AtRest /\ ~valid
    BY <2>1 DEF Follows, Held, Complete, Line, SendByte
  <2>3. AtRest'
    BY <2>2, RestKept
  <2>4. status_reg' = status_reg
    BY <1>1, <2>1 DEF HeaderTick, responding
  <2>. QED  BY <1>2, <1>6, <2>1, <2>3, <2>4 DEF Decided, AtRest
<1>7. CASE dm_state \in {"WAIT_INPUT", "WAIT_TIMEOUT"} /\ ~Decided
  <2>1. dm_state' # "WAIT_SEND"
    <3>1. Dispatch # "WAIT_SEND"
      <4>1. res_cmd <= 7 => res_cmd + 1 \in 1 .. 8
        <5>1. res_cmd \in Nat
          BY DEF TypeOK, ParserTypeOK, Byte
        <5>. QED  BY <5>1
      <4>2. \A i \in 1 .. 8 : Service[i] # "WAIT_SEND"
        BY DEF Service
      <4>3. res_error \in BOOLEAN /\ res_cmd \in Int
        BY DEF TypeOK, ParserTypeOK, Byte
      <4>. QED  BY <4>1, <4>2, <4>3 DEF Dispatch
    <3>. QED  BY <1>1, <1>7, <3>1 DEF dm_next, responding
  <2>2. send_state' = "IDLE" /\ resp' = resp /\ ~inp_packet_ready(send_ready(ready))
    BY <1>7, SilentEdge
  <2>3. CASE host_state = "WAITING"
    <3>1. Held
      BY <1>7, <2>3 DEF Follows, Complete, AtRest, Decided
    <3>2. parse_state' = "WAIT_READY"
      BY <2>2, <3>1, ParserMoves DEF Held
    <3>. QED  BY <1>7, <2>1, <3>2 DEF Decided
  <2>4. CASE host_state # "WAITING"
    <3>1. resp' = <<>>
      BY <2>2, <2>4 DEF PacketShape
    <3>2. ~ResponseComplete'
      BY <3>1 DEF ResponseComplete
    <3>. QED  BY <1>3, <1>7, <2>1, <3>2 DEF Follows, Complete, Held, Decided
  <2>. QED  BY <2>3, <2>4
<1>. QED  BY <1>4, <1>5, <1>6, <1>7 DEF responding

\* What the core is known to be after an edge: by the state of the unit.
LEMMA EdgeKnown ==
  ASSUME TypeOK, PartsServe, PacketShape, Follows, Known,
         NEW valid \in BOOLEAN, NEW byte \in Byte, NEW error \in BOOLEAN,
         NEW ready \in BOOLEAN, NEW drained \in BOOLEAN, NEW taken,
         Edge(valid, byte, error, ready, drained, taken), Line(valid, byte, error)
  PROVE  Known'
<1>1. /\ UNCHANGED <<pkt, host_halted>>
      /\ dm_state' = dm_next(halted, send_ready(ready))
      /\ HeaderTick(responding, out_status, res_id, out_len)
      /\ dm_state \in DebugStates /\ host_halted \in BOOLEAN
      /\ host_state \in {"IDLE", "SENDING", "WAITING"}
  BY DEF Edge, DebugTick, TypeOK, ControlTypeOK
<1>2. Target' = Target /\ Target \in BOOLEAN
  BY <1>1 DEF Target
<1>3. /\ host_state' = "IDLE" <=> host_state = "IDLE"
      /\ host_state' = "SENDING" => host_state = "SENDING"
      /\ host_state = "WAITING" => host_state' = "WAITING"
      /\ host_state' \in {"IDLE", "SENDING", "WAITING"}
  BY <1>1, LineTyped DEF Edge
<1>4. Follows'
  BY EdgeFollows
\* a packet under service, in the terms of the host
<1>5. ASSUME dm_state \notin {"WAIT_INPUT", "WAIT_TIMEOUT"}
      PROVE  host_state = "WAITING" /\ Held
  BY <1>1, <1>5 DEF Follows, AtRest, Arriving, Complete
<1>6. ASSUME Serving
      PROVE  /\ dm_state = "CMD_HALT"   <=> pkt[1] = 0
             /\ dm_state = "CMD_RESUME" <=> pkt[1] = 1
             /\ dm_state = "CMD_RESET"  <=> pkt[1] = 6
  <2>1. dm_state \notin {"WAIT_INPUT", "WAIT_TIMEOUT"}
    BY <1>6 DEF Service, Serving
  <2>2. Held
    BY <1>5, <2>1
  <2>3. dm_state = Service[res_cmd + 1] /\ res_cmd = pkt[1] /\ res_cmd <= 7
    BY <1>6, <2>2 DEF Held
  <2>4. res_cmd \in Nat
    BY DEF TypeOK, ParserTypeOK, Byte
  <2>5. res_cmd + 1 \in 1 .. 8
    BY <2>3, <2>4
  <2>. QED  BY <2>3, <2>4, <2>5 DEF Service
\* the service that ends writes STATUS_OK, an error state another status
<1>7. ASSUME responding
      PROVE  /\ dm_state' = IF Done(halted) THEN "WAIT_SEND" ELSE dm_state
             /\ Serving \/ dm_state \in {"ERROR_PARITY", "ERROR_ARGS", "ERROR_CMD"}
             /\ status_reg' = STATUS_OK <=> Serving
             /\ send_state' = "IDLE"
  <2>1. dm_state' = IF Done(halted) THEN "WAIT_SEND" ELSE dm_state
    BY <1>1, <1>7 DEF dm_next, responding
  <2>2. Serving \/ dm_state \in {"ERROR_PARITY", "ERROR_ARGS", "ERROR_CMD"}
    BY <1>1, <1>7 DEF responding, DebugStates, Serving
  <2>3. dm_state \in {"ERROR_PARITY", "ERROR_ARGS", "ERROR_CMD"} => ~Serving
    BY DEF Service, Serving
  <2>4. status_reg' = out_status
    BY <1>1, <1>7 DEF HeaderTick
  <2>5. out_status = STATUS_OK <=> Serving
    BY <2>2, <2>3, ByteAssumption
       DEF out_status, STATUS_OK, STATUS_ERROR_PARITY, STATUS_ERROR_ARGS, STATUS_ERROR_CMD
  <2>6. send_state' = "IDLE"
    BY <1>7, SilentEdge DEF responding
  <2>. QED  BY <2>1, <2>2, <2>4, <2>5, <2>6
<1>8. CASE dm_state = "CMD_HALT"
  <2>1. responding /\ Serving
    BY <1>8 DEF responding, Serving, Service
  <2>2. (halted => m_is_halted) /\ (m_is_halted => halt_req_in)
    BY <1>8 DEF Known
  <2>3. halt_req_in' /\ (m_is_halted => m_is_halted') /\ halted' = m_is_halted
    BY <1>8, HaltMoves DEF PartsServe, soft_reset_n
  <2>4. CASE halted
    <3>1. dm_state' = "WAIT_SEND" /\ status_reg' = STATUS_OK
      BY <1>7, <1>8, <2>1, <2>4 DEF Done, copy_req, Memories
    <3>2. Target = TRUE
      BY <1>6, <1>8, <2>1 DEF Target
    <3>3. Settled(TRUE)'
      BY <2>2, <2>3, <2>4 DEF Settled, TypeOK
    <3>4. Settled(Target)'
      BY <1>2, <3>2, <3>3 DEF Settled
    <3>. QED  BY <3>1, <3>4 DEF Known, Decided
  <2>5. CASE ~halted
    <3>1. dm_state' = "CMD_HALT"
      BY <1>7, <1>8, <2>1, <2>5 DEF Done, copy_req, Memories
    <3>. QED  BY <2>3, <3>1 DEF Known, Decided
  <2>. QED  BY <2>4, <2>5
<1>9. CASE dm_state = "CMD_RESUME"
  <2>1. responding /\ Serving
    BY <1>9 DEF responding, Serving, Service
  <2>2. halted \/ Settled(FALSE)
    BY <1>9 DEF Known
  <2>3. ~halt_req_in' /\ ~m_is_halted' /\ halted' = m_is_halted
    BY <1>9, HaltMoves DEF PartsServe
  <2>4. CASE ~halted
    <3>1. dm_state' = "WAIT_SEND" /\ status_reg' = STATUS_OK
      BY <1>7, <1>9, <2>1, <2>4 DEF Done, copy_req, Memories
    <3>2. Target = FALSE
      BY <1>6, <1>9, <2>1 DEF Target
    <3>3. Settled(FALSE)'
      BY <2>2, <2>3, <2>4, HaltMoves DEF Settled
    <3>4. Settled(Target)'
      BY <1>2, <3>2, <3>3 DEF Settled
    <3>. QED  BY <3>1, <3>4 DEF Known, Decided
  <2>5. CASE halted
    <3>1. dm_state' = "CMD_RESUME"
      BY <1>7, <1>9, <2>1, <2>5 DEF Done, copy_req, Memories
    <3>2. (halted \/ Settled(FALSE))'
      BY <2>3, HaltMoves DEF Settled
    <3>. QED  BY <3>1, <3>2 DEF Known, Decided
  <2>. QED  BY <2>4, <2>5
<1>10. CASE dm_state = "CMD_RESET"
  <2>1. responding /\ Serving
    BY <1>10 DEF responding, Serving, Service
  <2>2. reset_counter # 0 => ~m_is_halted /\ ~halt_req_in
    BY <1>10 DEF Known
  <2>3. reset_counter \in 0 .. RESET_TICKS /\ RESET_TICKS \in Nat \ {0} /\ ResetTick
    BY TickAssumption DEF TypeOK, ControlTypeOK, Edge, DebugTick
  <2>4. reset_counter' = IF reset_counter = 0 THEN RESET_TICKS ELSE reset_counter - 1
    BY <1>10, <2>3 DEF ResetTick, soft_reset_n
  <2>5. ~halt_req_in' /\ ~m_is_halted'
    BY <2>3, <2>4, HaltMoves DEF soft_reset_n
  <2>6. CASE reset_counter = 1
    <3>1. dm_state' = "WAIT_SEND" /\ status_reg' = STATUS_OK /\ send_state' = "IDLE"
      BY <1>7, <1>10, <2>1, <2>6 DEF Done, soft_reset_ack, copy_req, Memories
    <3>2. pkt'[1] = 6
      BY <1>1, <1>6, <1>10, <2>1
    <3>. QED  BY <2>5, <3>1, <3>2 DEF Known, Decided
  <2>7. CASE reset_counter # 1
    <3>1. dm_state' = "CMD_RESET"
      BY <1>7, <1>10, <2>1, <2>7 DEF Done, soft_reset_ack, copy_req, Memories
    <3>. QED  BY <2>5, <3>1 DEF Known, Decided
  <2>. QED  BY <2>6, <2>7
<1>11. CASE responding /\ dm_state \notin {"CMD_HALT", "CMD_RESUME", "CMD_RESET"}
  <2>1. Settled(host_halted)
    <3>1. ~Decided
      BY <1>5, <1>11 DEF Decided, responding, Held
    <3>. QED  BY <1>11, <3>1 DEF Known
  <2>2. Settled(host_halted)'
    <3>1. halt_req_in' = host_halted /\ m_is_halted' = host_halted /\ halted' = host_halted
      BY <1>1, <1>11, <2>1, SettledKept
    <3>. QED  BY <1>1, <3>1 DEF Settled
  <2>3. CASE dm_state' = dm_state
    <3>1. ~Decided'
      BY <1>4, <1>5, <1>11, <2>3 DEF Decided, responding, Follows, Held, Complete, AtRest, Arriving
    <3>. QED  BY <1>11, <2>2, <2>3, <3>1 DEF Known
  <2>4. CASE dm_state' = "WAIT_SEND"
    <3>1. status_reg' = STATUS_OK => Target' = host_halted'
      BY <1>1, <1>2, <1>6, <1>7, <1>11 DEF Target
    <3>2. status_reg' = STATUS_OK => Settled(Target)'
      BY <2>2, <3>1 DEF Settled
    <3>. QED  BY <2>2, <2>4, <3>2 DEF Known, Decided
  <2>. QED  BY <1>7, <1>11, <2>3, <2>4
<1>12. CASE dm_state = "WAIT_SEND"
  <2>1. status_reg' = status_reg
    BY <1>1, <1>12 DEF HeaderTick, responding
  <2>2. host_state' = "WAITING" /\ (dm_state' = "WAIT_SEND" \/ (dm_state' = "WAIT_INPUT" /\ send_ack(send_ready(ready))))
    BY <1>1, <1>3, <1>5, <1>12 DEF dm_next, responding
  <2>3. Decided'
    <3>1. send_ack(send_ready(ready)) => parse_state' = "WAIT_CMD"
      BY <1>5, <1>12, ParserMoves DEF Held, inp_packet_ready
    <3>. QED  BY <2>2, <3>1 DEF Decided
  <2>4. Decided
    BY <1>12 DEF Decided
  <2>5. CASE status_reg # STATUS_OK
    <3>1. Settled(host_halted)
      BY <1>12, <2>4, <2>5 DEF Known
    <3>2. halt_req_in' = host_halted /\ m_is_halted' = host_halted /\ halted' = host_halted
      BY <1>1, <1>12, <3>1, SettledKept
    <3>. QED  BY <1>1, <2>1, <2>2, <2>3, <2>5, <3>2 DEF Known, Settled
  <2>6. CASE status_reg = STATUS_OK /\ Settled(Target)
    <3>1. halt_req_in' = Target /\ m_is_halted' = Target /\ halted' = Target
      BY <1>2, <1>12, <2>6, SettledKept
    <3>. QED  BY <1>2, <2>1, <2>2, <2>3, <2>6, <3>1 DEF Known, Settled
  <2>7. CASE status_reg = STATUS_OK /\ send_state = "IDLE" /\ pkt[1] = 6 /\ ~m_is_halted /\ ~halt_req_in
    <3>1. ~halt_req_in' /\ ~m_is_halted' /\ halted' = m_is_halted
      BY <1>12, <2>7, HaltMoves DEF PartsServe
    <3>2. Target = FALSE
      BY <2>7 DEF Target
    <3>3. Settled(Target)'
      BY <1>2, <2>7, <3>1, <3>2, HaltMoves DEF Settled, TypeOK
    <3>. QED  BY <2>1, <2>2, <2>3, <2>7, <3>3 DEF Known
  <2>. QED  BY <1>12, <2>4, <2>5, <2>6, <2>7 DEF Known
<1>13. CASE dm_state \in {"WAIT_INPUT", "WAIT_TIMEOUT"}
  <2>1. status_reg' = status_reg
    BY <1>1, <1>13 DEF HeaderTick, responding
  <2>2. CASE Decided
    <3>1. dm_state = "WAIT_INPUT" /\ host_state = "WAITING" /\ parse_state = "WAIT_CMD"
      BY <1>13, <2>2 DEF Decided
    <3>2. AtRest
      BY <3>1 DEF Follows, Held, Complete
    <3>3. ~valid
      BY <3>1 DEF Line, SendByte
    <3>4. AtRest' /\ host_state' = "WAITING"
      BY <1>3, <3>1, <3>2, <3>3, RestKept
    <3>5. Decided'
      BY <3>4 DEF Decided, AtRest
    <3>6. IF status_reg # STATUS_OK THEN Settled(host_halted) ELSE Settled(Target)
      BY <2>2, <3>1 DEF Known
    <3>7. CASE status_reg # STATUS_OK
      <4>1. halt_req_in' = host_halted /\ m_is_halted' = host_halted /\ halted' = host_halted
        BY <1>1, <1>13, <3>6, <3>7, SettledKept
      <4>. QED  BY <1>1, <2>1, <3>4, <3>5, <3>7, <4>1 DEF Known, Settled, AtRest
    <3>8. CASE status_reg = STATUS_OK
      <4>1. halt_req_in' = Target /\ m_is_halted' = Target /\ halted' = Target
        BY <1>2, <1>13, <3>6, <3>8, SettledKept
      <4>. QED  BY <1>2, <2>1, <3>4, <3>5, <3>8, <4>1 DEF Known, Settled, AtRest
    <3>. QED  BY <3>7, <3>8
  <2>3. CASE ~Decided
    <3>1. Settled(host_halted)
      BY <1>13, <2>3 DEF Known
    <3>2. halt_req_in' = host_halted /\ m_is_halted' = host_halted /\ halted' = host_halted
      BY <1>1, <1>13, <3>1, SettledKept
    <3>3. reset_counter' = 0
      BY <1>13 DEF PartsServe, Edge, DebugTick, ResetTick, soft_reset_n
    <3>4. ~Decided'
      <4>1. dm_state' # "WAIT_SEND"
        <5>1. Dispatch # "WAIT_SEND"
          <6>1. res_cmd <= 7 => res_cmd + 1 \in 1 .. 8
            BY DEF TypeOK, ParserTypeOK, Byte
          <6>2. \A i \in 1 .. 8 : Service[i] # "WAIT_SEND"
            BY DEF Service
          <6>3. res_error \in BOOLEAN /\ res_cmd \in Int
            BY DEF TypeOK, ParserTypeOK, Byte
          <6>. QED  BY <6>1, <6>2, <6>3 DEF Dispatch
        <5>. QED  BY <1>1, <1>13, <5>1 DEF dm_next, responding
      <4>2. send_state' = "IDLE" /\ resp' = resp /\ ~inp_packet_ready(send_ready(ready))
        BY <1>13, SilentEdge
      <4>3. CASE host_state = "WAITING"
        <5>1. Held
          BY <1>13, <2>3, <4>3 DEF Follows, Complete, AtRest, Decided
        <5>2. parse_state' = "WAIT_READY"
          BY <4>2, <5>1, ParserMoves DEF Held
        <5>. QED  BY <4>1, <5>2 DEF Decided
      <4>4. CASE host_state # "WAITING"
        <5>1. resp' = <<>>
          BY <4>2, <4>4 DEF PacketShape
        <5>2. ~ResponseComplete'
          BY <5>1 DEF ResponseComplete
        <5>. QED  BY <1>4, <4>1, <5>2 DEF Follows, Complete, Held, Decided
      <4>. QED  BY <4>3, <4>4
    <3>. QED  BY <1>1, <3>2, <3>3, <3>4 DEF Known, Settled
  <2>. QED  BY <2>2, <2>3
<1>. QED  BY <1>8, <1>9, <1>10, <1>11, <1>12, <1>13 DEF responding

-----------------------------------------------------------------------------
\* The packet of a request holds its own length.
LEMMA RequestTyped ==
  ASSUME TypeOK, session \in Sessions, NEW r \in session.requests
  PROVE  /\ Packet(r) \in Seq(Byte)
         /\ Len(Packet(r)) >= 3 /\ Len(Packet(r)) = 3 + Packet(r)[3]
         /\ Packet(r)[1] = r.cmd
<1>1. r \in [cmd : Byte, data : Seq(Byte)] /\ Len(r.data) \in Byte
  BY SessionAssumption
<1>2. next_id \in Byte
  BY LineAssumption, ByteAssumption DEF TypeOK, Byte
<1>3. <<r.cmd, next_id, Len(r.data)>> \in Seq(Byte) /\ r.data \in Seq(Byte) /\ Len(r.data) \in Nat
  BY <1>1, <1>2 DEF Byte
<1>. DEFINE head == <<r.cmd, next_id, Len(r.data)>>
<1>4. Len(head) = 3 /\ head[1] = r.cmd /\ head[3] = Len(r.data)
  OBVIOUS
<1>. HIDE DEF head
<1>5. head \in Seq(Byte)
  BY <1>3 DEF head
<1>6. /\ head \o r.data \in Seq(Byte)
      /\ Len(head \o r.data) = 3 + Len(r.data)
      /\ (head \o r.data)[1] = head[1] /\ (head \o r.data)[3] = head[3]
  <2>. DEFINE whole == head \o r.data
  <2>1. /\ whole \in Seq(Byte) /\ Len(whole) = Len(head) + Len(r.data)
        /\ \A i \in 1 .. Len(head) + Len(r.data) :
             whole[i] = IF i <= Len(head) THEN head[i] ELSE r.data[i - Len(head)]
    BY <1>3, <1>5, ConcatProperties
  <2>. HIDE DEF whole
  <2>2. 1 \in 1 .. 3 + Len(r.data) /\ 3 \in 1 .. 3 + Len(r.data)
    BY <1>3
  <2>3. whole[1] = head[1] /\ whole[3] = head[3]
    BY <1>4, <2>1, <2>2
  <2>. QED  BY <1>4, <2>1, <2>3 DEF whole
<1>. QED  BY <1>3, <1>4, <1>6 DEF Packet, head

\* A host that sends finds the unit at rest.
LEMMA SendKeeps ==
  ASSUME Inv, session \in Sessions, HostSend
  PROVE  Inv' /\ session' = session
<1>1. PICK r \in session.requests :
        pkt' = Packet(r) /\ bad' \in {0} \union (session.noise \intersect 1 .. Len(pkt'))
  BY DEF HostSend
<1>2. /\ host_state = "IDLE" /\ host_state' = "SENDING" /\ next_id' = (next_id + 1) % NumIds
      /\ UNCHANGED <<session, boardVars, sent, gap, resp, host_halted, shadow>>
  BY DEF HostSend
<1>3. /\ UNCHANGED <<parserVars, bufferVars, copierVars, controlVars>>
      /\ UNCHANGED <<data_ack, data_data, mem, halt_req_in, m_is_halted, halted, refused, delay>>
  BY <1>2 DEF boardVars, debugVars
<1>4. /\ pkt' \in Seq(Byte) /\ Len(pkt') >= 3 /\ Len(pkt') = 3 + pkt'[3] /\ Len(pkt') \in Nat
  BY <1>1, RequestTyped DEF Inv
<1>5. sent = 0 /\ AtRest /\ Known /\ TypeOK /\ PartsServe /\ PacketShape
  BY <1>2 DEF Inv, PacketShape, Follows
<1>6. bad' \in 0 .. Len(pkt')
  BY <1>1, <1>4
<1>7. TypeOK'
  <2>1. ParserTypeOK' /\ BufferTypeOK' /\ CopierTypeOK' /\ ControlTypeOK'
    BY <1>3, <1>5 DEF TypeOK, ParserTypeOK, BufferTypeOK, CopierTypeOK, ControlTypeOK,
                      parserVars, bufferVars, copierVars, controlVars
  <2>2. next_id' \in 0 .. NumIds - 1
    BY <1>2, <1>5, LineAssumption, ByteAssumption DEF TypeOK
  <2>. QED  BY <1>2, <1>3, <1>4, <1>5, <1>6, <2>1, <2>2 DEF TypeOK
<1>8. PartsServe'
  BY <1>3, <1>5 DEF PartsServe, copy_req, parserVars, bufferVars, copierVars, controlVars
<1>9. PacketShape'
  BY <1>2, <1>4, <1>5 DEF PacketShape
<1>10. Follows'
  <2>1. AtRest' /\ sent' = 0
    BY <1>2, <1>3, <1>5 DEF AtRest, parserVars, controlVars
  <2>2. Intact'
    BY <1>1, <1>4, <2>1, SessionAssumption DEF Intact
  <2>3. Arriving'
    BY <2>1, <2>2 DEF Arriving, AtRest, Field
  <2>. QED  BY <1>2, <2>3 DEF Follows
<1>11. Known'
  <2>1. Settled(host_halted) /\ ~Decided /\ dm_state = "WAIT_INPUT"
    BY <1>2, <1>5 DEF Known, AtRest, Decided
  <2>2. UNCHANGED <<dm_state, halt_req_in, m_is_halted, halted, host_halted>>
    BY <1>2, <1>3 DEF controlVars
  <2>3. ~Decided'
    BY <1>2, <2>1, <2>2 DEF Decided
  <2>. QED  BY <2>1, <2>2, <2>3 DEF Known, Settled
<1>. QED  BY <1>2, <1>7, <1>8, <1>9, <1>10, <1>11 DEF Inv

\* A set of numbers up to n that is not empty has a largest one.
LEMMA LargestBelow ==
  ASSUME NEW n \in Nat, NEW S, S \subseteq 1 .. n, S # {}
  PROVE  \E i \in S : \A j \in S : j <= i
<1>. DEFINE T == {n - i : i \in S}
<1>1. T \subseteq Nat /\ T # {}
  <2>1. \A i \in S : n - i \in Nat
    OBVIOUS
  <2>. QED  BY <2>1
<1>. HIDE DEF T
<1>2. PICK t \in T : \A m \in T : t <= m
  <2>. DEFINE R == {ss \in Nat \X Nat : ss[1] < ss[2]}
  <2>1. IsWellFoundedOn(R, Nat)
    BY NatLessThanWellFounded DEF OpToRel
  <2>. HIDE DEF R
  <2>2. PICK t \in T : \A m \in T : <<m, t>> \notin R
    BY <1>1, <2>1, WFMin
  <2>3. ASSUME NEW m \in T PROVE t <= m
    <3>1. m \in Nat /\ t \in Nat /\ <<m, t>> \notin R
      BY <1>1, <2>2
    <3>. QED  BY <3>1 DEF R
  <2>. QED  BY <2>3
<1>3. PICK i \in S : t = n - i
  BY DEF T
<1>4. ASSUME NEW j \in S PROVE j <= i
  <2>1. t <= n - j
    BY <1>2 DEF T
  <2>. QED  BY <1>3, <2>1
<1>. QED  BY <1>4

\* An answer that is complete is that of a unit that has released the packet.
LEMMA AnswerWhole ==
  ASSUME TypeOK, Follows, host_state = "WAITING", ResponseComplete
  PROVE  Complete
<1>1. resp \in Seq(Byte) /\ send_state \in SenderStates /\ send_ptr \in Nat /\ len_reg \in Nat
  BY DEF TypeOK, BufferTypeOK, Byte
<1>2. ~Answering
  <2>1. Len(resp) >= 3 /\ Len(resp) >= 3 + resp[3]
    BY DEF ResponseComplete
  <2>2. resp # <<>> /\ Len(resp) # 1 /\ Len(resp) # 2
    BY <1>1, <2>1
  <2>3. ~(Len(resp) = 3 + send_ptr /\ send_ptr < len_reg /\ resp[3] = len_reg)
    BY <1>1, <2>1
  <2>. QED  BY <1>1, <2>2, <2>3 DEF Answering, SenderStates
<1>. QED  BY <1>2 DEF Follows, Held

\* A host that has the whole answer has that of its own packet.
LEMMA ReceiveKeeps ==
  ASSUME Inv, session \in Sessions, HostReceive
  PROVE  Inv' /\ session' = session
<1>1. /\ host_state = "WAITING" /\ ResponseComplete /\ host_state' = "IDLE"
      /\ pkt' = <<>> /\ bad' = 0 /\ sent' = 0 /\ resp' = <<>>
      /\ UNCHANGED <<session, boardVars, gap, next_id>>
  BY DEF HostReceive
<1>2. /\ UNCHANGED <<parserVars, bufferVars, copierVars, controlVars>>
      /\ UNCHANGED <<data_ack, data_data, mem, halt_req_in, m_is_halted, halted, refused, delay>>
  BY <1>1 DEF boardVars, debugVars
<1>3. TypeOK /\ PartsServe /\ PacketShape /\ Follows /\ Known
  BY DEF Inv
<1>4. Complete
  BY <1>1, <1>3, AnswerWhole
<1>5. Decided /\ dm_state = "WAIT_INPUT"
  BY <1>1, <1>4 DEF Complete, AtRest, Decided
<1>6. IF status_reg = STATUS_OK THEN Settled(Target) ELSE Settled(host_halted)
  BY <1>3, <1>5 DEF Known
<1>7. host_halted' = IF status_reg = STATUS_OK THEN Target ELSE host_halted
  <2>1. resp[1] = status_reg
    BY <1>4 DEF Complete
  <2>2. host_halted \in BOOLEAN /\ pkt[1] \in Int
    <3>1. pkt \in Seq(Byte) /\ Len(pkt) >= 3
      BY <1>1, <1>3 DEF TypeOK, PacketShape
    <3>2. pkt[1] \in Byte
      BY <3>1
    <3>. QED  BY <1>3, <3>2 DEF TypeOK, Byte
  <2>3. host_halted' = (/\ ~(resp[1] = STATUS_OK /\ pkt[1] = 1)
                        /\ ~(resp[1] = STATUS_OK /\ pkt[1] = 6)
                        /\ host_halted \/ (resp[1] = STATUS_OK /\ pkt[1] = 0))
    BY DEF HostReceive
  <2>4. CASE status_reg # STATUS_OK
    BY <2>1, <2>2, <2>3, <2>4
  <2>5. CASE status_reg = STATUS_OK
    <3>1. CASE pkt[1] = 0
      BY <2>1, <2>2, <2>3, <2>5, <3>1 DEF Target
    <3>2. CASE pkt[1] \in {1, 6}
      BY <2>1, <2>2, <2>3, <2>5, <3>2 DEF Target
    <3>3. CASE pkt[1] \notin {0, 1, 6}
      BY <2>1, <2>2, <2>3, <2>5, <3>3 DEF Target
    <3>. QED  BY <3>1, <3>2, <3>3
  <2>. QED  BY <2>4, <2>5
<1>8. shadow' \in [Memories -> [Addr -> Byte]]
  <2>1. ASSUME NEW m \in [Addr -> Byte] PROVE Written(m) \in [Addr -> Byte]
    <3>1. ASSUME NEW a \in Addr, BytesFor(a) # {}
          PROVE  pkt[CHOOSE i \in BytesFor(a) : \A j \in BytesFor(a) : j <= i] \in Byte
      <4>1. PICK n \in Nat : pkt \in [1 .. n -> Byte] /\ Len(pkt) = n
        BY <1>3 DEF TypeOK
      <4>2. BytesFor(a) \subseteq 1 .. n
        BY <4>1 DEF BytesFor
      <4>3. \E i \in BytesFor(a) : \A j \in BytesFor(a) : j <= i
        BY <3>1, <4>1, <4>2, LargestBelow
      <4>. QED  BY <4>1, <4>2, <4>3
    <3>. QED  BY <3>1 DEF Written
  <2>2. shadow \in [Memories -> [Addr -> Byte]]
    BY <1>3 DEF TypeOK
  <2>3. \A k \in Memories : shadow[k] \in [Addr -> Byte] /\ Written(shadow[k]) \in [Addr -> Byte]
    BY <2>1, <2>2
  <2>. HIDE DEF Written
  <2>. QED  BY <2>3 DEF HostReceive
<1>9. TypeOK'
  <2>1. ParserTypeOK' /\ BufferTypeOK' /\ CopierTypeOK' /\ ControlTypeOK'
    BY <1>2, <1>3 DEF TypeOK, ParserTypeOK, BufferTypeOK, CopierTypeOK, ControlTypeOK,
                      parserVars, bufferVars, copierVars, controlVars
  <2>2. host_halted' \in BOOLEAN
    BY <1>3, <1>7 DEF Target, TypeOK
  <2>. QED  BY <1>1, <1>2, <1>3, <1>8, <2>1, <2>2 DEF TypeOK
<1>10. PartsServe'
  BY <1>2, <1>3 DEF PartsServe, copy_req, parserVars, bufferVars, copierVars, controlVars
<1>11. PacketShape'
  BY <1>1 DEF PacketShape
<1>12. Follows'
  BY <1>1, <1>2, <1>4 DEF Follows, Complete, AtRest, parserVars, controlVars
<1>13. Known'
  <2>1. ~Decided' /\ dm_state' = "WAIT_INPUT"
    BY <1>1, <1>2, <1>5 DEF Decided, controlVars
  <2>2. Settled(host_halted')
    BY <1>6, <1>7
  <2>3. halt_req_in' = host_halted' /\ m_is_halted' = host_halted' /\ halted' = host_halted'
    BY <1>2, <2>2 DEF Settled
  <2>. QED  BY <2>1, <2>3 DEF Known, Settled
<1>. QED  BY <1>1, <1>9, <1>10, <1>11, <1>12, <1>13 DEF Inv

-----------------------------------------------------------------------------
\* The initial states satisfy Inv.
LEMMA InitHolds == Init => Inv
<1>. SUFFICES ASSUME Init PROVE Inv
  OBVIOUS
<1>. USE DEF Init, DebugInit, ParserInit, BufferInit, CopierInit
<1>1. TypeOK
  <2>1. ParserTypeOK /\ BufferTypeOK
    BY BytesTyped DEF ParserTypeOK, BufferTypeOK, ParserStates, SenderStates
  <2>2. CopierTypeOK /\ ControlTypeOK
    BY BytesTyped, TickAssumption DEF CopierTypeOK, ControlTypeOK, CopierStates, DebugStates
  <2>3. <<>> \in Seq(Byte) /\ Len(<<>>) = 0
    OBVIOUS
  <2>4. mem \in [Memories -> [Addr -> Byte]] /\ data_data \in [Memories -> Byte]
    BY BytesTyped
  <2>5. /\ delay \in 0 .. NUM_TICKS /\ gap \in 0 .. MaxGap /\ next_id \in 0 .. NumIds - 1
        /\ sent \in 0 .. Len(pkt) /\ bad \in 0 .. Len(pkt)
    BY <2>3, LineAssumption
  <2>. QED  BY <2>1, <2>2, <2>3, <2>4, <2>5 DEF TypeOK
<1>2. PartsServe
  BY DEF PartsServe
<1>3. PacketShape
  BY DEF PacketShape
<1>4. Follows
  BY DEF Follows, AtRest
<1>5. Known
  BY DEF Known, Decided, Settled
<1>. QED  BY <1>1, <1>2, <1>3, <1>4, <1>5 DEF Inv

\* Inv is kept by every step.
LEMMA StepKeeps == session \in Sessions /\ Inv /\ [Next]_vars => (session \in Sessions /\ Inv)'
<1>. SUFFICES ASSUME session \in Sessions, Inv, [Next]_vars
     PROVE  Inv' /\ session' = session
  OBVIOUS
<1>1. CASE Tick
  <2>1. TypeOK /\ PartsServe /\ PacketShape /\ Follows /\ Known
    BY DEF Inv
  <2>2. PICK valid, error, ready, drained, taken \in BOOLEAN, byte \in Byte :
          Edge(valid, byte, error, ready, drained, taken) /\ Line(valid, byte, error)
    BY <1>1, <2>1, TickIsEdge
  <2>3. TypeOK'
    BY <2>1, <2>2, EdgeTyped
  <2>4. PartsServe'
    BY <2>1, <2>2, EdgeServes
  <2>5. PacketShape' /\ Follows'
    BY <2>1, <2>2, EdgeKeepsShape, EdgeFollows
  <2>6. Known'
    BY <2>1, <2>2, EdgeKnown
  <2>7. session' = session
    BY <2>2 DEF Edge
  <2>. QED  BY <2>3, <2>4, <2>5, <2>6, <2>7 DEF Inv
<1>2. CASE HostSend
  BY <1>2, SendKeeps
<1>3. CASE HostReceive
  BY <1>3, ReceiveKeeps
<1>4. CASE UNCHANGED vars
  <2>. USE <1>4 DEF vars, boardVars, hostVars, debugVars, parserVars, bufferVars, copierVars, controlVars
  <2>1. TypeOK'
    BY DEF Inv, TypeOK, ParserTypeOK, BufferTypeOK, CopierTypeOK, ControlTypeOK
  <2>2. PartsServe'
    BY DEF Inv, PartsServe, copy_req
  <2>3. PacketShape'
    BY DEF Inv, PacketShape
  <2>4. Follows'
    BY DEF Inv, Follows, AtRest, Arriving, Held, Complete, Intact, Field, Answering, Serving, ResponseComplete
  <2>5. Known'
    BY DEF Inv, Known, Decided, Settled, Target
  <2>. QED  BY <2>1, <2>2, <2>3, <2>4, <2>5 DEF Inv
<1>. QED  BY <1>1, <1>2, <1>3, <1>4 DEF Next

\* The unit follows the packets of the host, whatever the session.
THEOREM InvHolds == Spec => []Inv
<1>1. Init => session \in Sessions /\ Inv
  BY InitHolds DEF Init
<1>. QED  BY <1>1, StepKeeps, PTL DEF Spec

\* Every register, memory and counter of the debug unit, the line and the host
\* keeps its type: no counter overflows, TIMEOUT_TICKS included.
THEOREM TypeCorrect == Spec => []TypeOK
<1>1. Inv => TypeOK
  BY DEF Inv
<1>. QED  BY <1>1, InvHolds, PTL

\* When the host has its answer nothing of the packet, damaged or not, is left in
\* the parser, the copiers or the sender, and no answer starts before its packet
\* has arrived.
THEOREM UnitInSync == Spec => []InSync
<1>1. ASSUME Inv PROVE InSync
  <2>1. TypeOK /\ PartsServe /\ PacketShape /\ Follows
    BY <1>1 DEF Inv
  <2>2. CASE host_state = "IDLE"
    <3>1. AtRest
      BY <2>1, <2>2 DEF Follows
    <3>2. soft_reset_n /\ send_state = "IDLE"
      BY <2>1, <3>1 DEF AtRest, PartsServe, soft_reset_n
    <3>3. ASSUME NEW k \in Memories PROVE copy_state[k] = "IDLE" /\ ~data_ack[k]
      <4>1. ~copy_req[k]
        BY <3>1 DEF AtRest, copy_req
      <4>. QED  BY <2>1, <4>1 DEF PartsServe
    <3>. QED  BY <2>1, <3>1, <3>2, <3>3 DEF InSync, AtRest, PacketShape
  <2>3. CASE host_state # "IDLE"
    BY <2>1, <2>3 DEF InSync, PacketShape
  <2>. QED  BY <2>2, <2>3
<1>. QED  BY <1>1, InvHolds, PTL

\* What the host concludes from the answers to HALT, RESUME and RESET is so when
\* it has them, although the unit sees the halt a cycle late and a reset leaves
\* the flag alone.
THEOREM HaltIsKnown == Spec => []HaltKnown
<1>1. ASSUME Inv PROVE HaltKnown
  <2>1. ASSUME host_state = "IDLE" PROVE Settled(host_halted)
    <3>1. dm_state = "WAIT_INPUT" /\ ~Decided
      BY <1>1, <2>1 DEF Inv, Follows, AtRest, Decided
    <3>. QED  BY <1>1, <3>1 DEF Inv, Known
  <2>. QED  BY <2>1 DEF HaltKnown, Settled
<1>. QED  BY <1>1, InvHolds, PTL

-----------------------------------------------------------------------------
\* Addresses: what is added to one may be added before or after it wraps.
LEMMA WrapsOnce ==
  ASSUME NEW x \in Int, NEW p \in Int
  PROVE  ((x % MemSize) + p) % MemSize = (x + p) % MemSize
<1>. DEFINE y == (x % MemSize) + p
            q == x \div MemSize
            u == y \div MemSize
            r == y % MemSize
            v == (x + p) \div MemSize
            s == (x + p) % MemSize
<1>1. MemSize \in Nat /\ MemSize > 0
  BY MemAssumption
<1>2. x % MemSize \in Int /\ q \in Int /\ x = MemSize * q + (x % MemSize)
  BY <1>1
<1>3. y \in Int /\ x + p = MemSize * q + y
  <2>1. MemSize * q \in Int
    BY <1>1, <1>2
  <2>. QED  BY <1>2, <2>1
<1>4. u \in Int /\ r \in 0 .. MemSize - 1 /\ y = MemSize * u + r
  BY <1>1, <1>3
<1>5. v \in Int /\ s \in 0 .. MemSize - 1 /\ x + p = MemSize * v + s
  BY <1>1
<1>. HIDE DEF y, q, u, r, v, s
<1>6. MemSize * (q + u) = MemSize * q + MemSize * u
  BY <1>1, <1>2, <1>4
<1>7. MemSize * (v - (q + u)) = MemSize * v - MemSize * (q + u)
  BY <1>1, <1>2, <1>4, <1>5
<1>8. MemSize * (v - (q + u)) = r - s
  <2>1. MemSize * q \in Int /\ MemSize * u \in Int /\ MemSize * v \in Int
    BY <1>1, <1>2, <1>4, <1>5
  <2>. QED  BY <2>1, <1>3, <1>4, <1>5, <1>6, <1>7
<1>9. v - (q + u) \in Int /\ r - s < MemSize /\ r - s > -MemSize
  BY <1>1, <1>2, <1>4, <1>5
<1>10. v - (q + u) = 0
  <2>1. CASE v - (q + u) >= 1
    <3>1. MemSize * (v - (q + u)) >= MemSize
      BY <1>1, <1>9, <2>1
    <3>. QED  BY <1>1, <1>8, <1>9, <3>1
  <2>2. CASE v - (q + u) <= -1
    <3>1. MemSize * (v - (q + u)) <= -MemSize
      BY <1>1, <1>9, <2>2
    <3>. QED  BY <1>1, <1>8, <1>9, <3>1
  <2>. QED  BY <1>9, <2>1, <2>2
<1>11. r = s
  BY <1>1, <1>4, <1>5, <1>8, <1>10
<1>. QED  BY <1>11 DEF r, s, y

\* Byte n + 8 of a write goes to the n-th address of the copier that has fetched
\* the packet's.
LEMMA CopierAddress ==
  ASSUME TypeOK, NEW k \in Memories, NEW n \in Nat, Fetched(k, 4)
  PROVE  AddrOf(n + 8) = Address(start_addr[k], n)
<1>. DEFINE bytes == [i \in 0 .. 3 |-> pkt[i + 4]]
            x == ((start_addr[k][0] * ByteSize + start_addr[k][1]) * ByteSize + start_addr[k][2]) * ByteSize + start_addr[k][3]
<1>1. start_addr[k] \in [0 .. 3 -> Byte]
  BY DEF TypeOK, CopierTypeOK
<1>2. /\ bytes[0] = start_addr[k][0] /\ bytes[1] = start_addr[k][1]
      /\ bytes[2] = start_addr[k][2] /\ bytes[3] = start_addr[k][3]
  BY DEF Fetched
<1>3. x \in Int
  <2>1. /\ start_addr[k][0] \in Int /\ start_addr[k][1] \in Int /\ start_addr[k][2] \in Int
        /\ start_addr[k][3] \in Int /\ ByteSize \in Int
    BY <1>1, ByteAssumption DEF Byte
  <2>. QED  BY <2>1
<1>. HIDE DEF bytes
<1>4. RequestAddr = (x + 0) % MemSize
  <2>1. RequestAddr = Address(bytes, 0)
    BY DEF RequestAddr, bytes
  <2>. QED  BY <1>2, <2>1 DEF Address
<1>5. Address(start_addr[k], n) = (x + n) % MemSize
  BY DEF Address
<1>. HIDE DEF x
<1>6. RequestAddr = x % MemSize /\ x % MemSize \in Int
  BY <1>3, <1>4, MemAssumption
<1>7. AddrOf(n + 8) = ((x % MemSize) + n) % MemSize
  <2>1. (x % MemSize) + (n + 8) - 8 = (x % MemSize) + n
    BY <1>6
  <2>. QED  BY <1>6, <2>1 DEF AddrOf
<1>. QED  BY <1>3, <1>5, <1>7, WrapsOnce

-----------------------------------------------------------------------------
\* A copier is asked by the command of the packet that is held, which is in the
\* buffer and has an address, a read a count too; that copier alone reads it.
LEMMA CopyServed ==
  ASSUME TypeOK, PartsServe, PacketShape, Follows, Buffered, Dispatched,
         NEW k \in Memories, copy_req[k]
  PROVE  /\ host_state = "WAITING" /\ parse_state = "WAIT_READY" /\ bad = 0 /\ Serving
         /\ pkt[1] = IF copy_write[k] THEN WriteOf(k) ELSE WriteOf(k) - 1
         /\ inp_packet_re(k, copy_req[k], copy_write[k]) => Reader = k
         /\ res_len = pkt[3] /\ res_len >= 4 /\ (~copy_write[k] => res_len >= 5)
         /\ Len(pkt) = 3 + res_len /\ res_len \in Nat
         /\ \A i \in 0 .. res_len - 1 : res_data_buf[i] = pkt[i + 4]
<1>1. k = "prog" \/ k = "data"
  BY DEF Memories
<1>2. /\ dm_state \in IF k = "prog" THEN {"CMD_READ_PROG", "CMD_WRITE_PROG"}
                                   ELSE {"CMD_READ_DATA", "CMD_WRITE_DATA"}
      /\ copy_write[k] <=> dm_state = IF k = "prog" THEN "CMD_WRITE_PROG" ELSE "CMD_WRITE_DATA"
  BY <1>1 DEF copy_req, copy_write
<1>3. Serving
  <2>1. dm_state \in {Service[3], Service[4], Service[5], Service[6]}
    BY <1>1, <1>2 DEF Service
  <2>. QED  BY <2>1 DEF Serving
<1>4. /\ host_state = "WAITING" /\ Held /\ sent = Len(pkt) /\ Len(pkt) = 3 + pkt[3]
      /\ Intact /\ bad = 0 /\ res_cmd = pkt[1] /\ pkt[1] \in 0 .. 7 /\ dm_state = Service[pkt[1] + 1]
  BY <1>1, <1>2, <1>3, PacketServed
<1>5. parse_state = "WAIT_READY"
  BY <1>4 DEF Held
<1>6. pkt[1] = IF copy_write[k] THEN WriteOf(k) ELSE WriteOf(k) - 1
  <2>1. dm_state = <<"CMD_HALT", "CMD_RESUME", "CMD_READ_PROG", "CMD_WRITE_PROG",
                     "CMD_READ_DATA", "CMD_WRITE_DATA", "CMD_RESET", "CMD_STATE">>[pkt[1] + 1]
    BY <1>4 DEF Service
  <2>2. pkt[1] \in {0, 1, 2, 3, 4, 5, 6, 7}
    BY <1>4
  <2>. QED  BY <1>1, <1>2, <2>1, <2>2 DEF WriteOf
<1>7. inp_packet_re(k, copy_req[k], copy_write[k]) => Reader = k
  <2>1. CASE k = "prog"
    BY <2>1 DEF Reader
  <2>2. CASE k = "data"
    <3>1. ~copy_req["prog"]
      BY <1>2, <2>2 DEF copy_req, Memories
    <3>2. copy_state["prog"] = "IDLE"
      BY <3>1 DEF PartsServe, Memories
    <3>. QED  BY <2>2, <3>1, <3>2 DEF Reader, inp_packet_re
  <2>. QED  BY <1>1, <2>1, <2>2
<1>8. res_len = pkt[3] /\ res_len \in Nat /\ \A i \in 4 .. Len(pkt) : res_data_buf[i - 4] = pkt[i]
  BY <1>4, <1>5 DEF Buffered, TypeOK, ParserTypeOK, Byte
<1>9. \A i \in 0 .. res_len - 1 : res_data_buf[i] = pkt[i + 4]
  <2>1. ASSUME NEW i \in 0 .. res_len - 1 PROVE res_data_buf[i] = pkt[i + 4]
    <3>1. i + 4 \in 4 .. Len(pkt) /\ (i + 4) - 4 = i
      BY <1>4, <1>8
    <3>. QED  BY <1>8, <3>1
  <2>. QED  BY <2>1
<1>10. res_len >= 4 /\ (~copy_write[k] => res_len >= 5)
  <2>1. res_len >= MinLength(pkt[1])
    BY <1>3, <1>4 DEF Dispatched
  <2>2. pkt[1] \in {2, 3, 4, 5} /\ (~copy_write[k] => pkt[1] \in {2, 4})
    BY <1>1, <1>6 DEF WriteOf
  <2>. QED  BY <1>8, <2>1, <2>2 DEF MinLength
<1>. QED  BY <1>3, <1>4, <1>5, <1>6, <1>7, <1>8, <1>9, <1>10

\* The buffer takes the packet byte by byte and then keeps it.
LEMMA BufferKept ==
  ASSUME TypeOK, PartsServe, PacketShape, Follows, Buffered,
         NEW valid \in BOOLEAN, NEW byte \in Byte, NEW error \in BOOLEAN,
         NEW ready \in BOOLEAN, NEW drained, NEW taken,
         Edge(valid, byte, error, ready, drained, taken), Line(valid, byte, error)
  PROVE  Buffered'
<1>1. UNCHANGED <<pkt, bad>> /\ sent \in Nat /\ bad \in Nat /\ Len(pkt) \in Nat
  BY DEF Edge, TypeOK
<1>2. CASE ~valid
  <2>1. UNCHANGED <<res_data_buf, res_len>> /\ (parse_state' = "WAIT_READY" => parse_state = "WAIT_READY")
    BY <1>2 DEF Edge, DebugTick, ParseTick, ParserTick, Hold, res_valid
  <2>2. sent' = sent
    BY <1>2 DEF Line, Quiet
  <2>. QED  BY <1>1, <2>1, <2>2 DEF Buffered, Intact
<1>3. CASE valid /\ ~Intact'
  BY <1>3 DEF Buffered
<1>4. CASE valid /\ Intact'
  <2>1. /\ host_state = "SENDING" /\ sent' = sent + 1 /\ sent < Len(pkt)
        /\ error <=> sent + 1 = bad
        /\ ~error => byte = pkt[sent + 1]
    BY <1>4 DEF Line, SendByte, PacketShape
  <2>2. Intact /\ ~error /\ byte = pkt[sent + 1]
    BY <1>1, <1>4, <2>1 DEF Intact
  <2>3. Arriving
    BY <2>1 DEF Follows
  <2>4. Edge(TRUE, byte, FALSE, ready, drained, taken)
    BY <1>4, <2>2 DEF Edge, DebugTick, ParseTick, ParserTick, Receive, TimeoutTick
  <2>5. /\ parse_state' = IF sent' < Len(pkt) THEN Field' ELSE "WAIT_READY"
        /\ sent' > 2 => res_len' = pkt[3]
    BY <2>1, <2>2, <2>3, <2>4, ByteTaken
  <2>6. parse_state' = "WAIT_READY" => res_len' = pkt'[3]
    <3>1. Field' # "WAIT_READY"
      BY DEF Field
    <3>2. Len(pkt) >= 3
      BY <2>1 DEF PacketShape
    <3>. QED  BY <1>1, <2>1, <2>5, <3>1, <3>2
  <2>7. \A i \in 4 .. sent' : res_data_buf'[i - 4] = pkt'[i]
    <3>1. CASE sent <= 2
      BY <1>1, <2>1, <3>1
    <3>2. CASE sent > 2
      <4>1. parse_state = "WAIT_DATA" /\ parse_ptr = sent - 3
        BY <1>1, <2>2, <2>3, <3>2 DEF Arriving, Field
      <4>2. res_data_buf' = [res_data_buf EXCEPT ![sent - 3] = byte]
        BY <2>4, <4>1, ParserMoves DEF Receive
      <4>3. res_data_buf \in [Byte -> Byte] /\ sent - 3 \in Byte
        BY <4>1 DEF TypeOK, ParserTypeOK
      <4>4. ASSUME NEW i \in 4 .. sent PROVE res_data_buf'[i - 4] = pkt[i]
        <5>1. res_data_buf[i - 4] = pkt[i]
          BY <2>2 DEF Buffered
        <5>2. i - 4 \in Byte /\ i - 4 # sent - 3
          BY <1>1, <4>3, ByteAssumption DEF Byte
        <5>. QED  BY <4>2, <4>3, <5>1, <5>2
      <4>5. res_data_buf'[sent + 1 - 4] = pkt[sent + 1]
        <5>1. sent + 1 - 4 = sent - 3
          BY <1>1
        <5>. QED  BY <2>2, <4>2, <4>3, <5>1
      <4>. QED  BY <1>1, <2>1, <4>4, <4>5
    <3>. QED  BY <1>1, <3>1, <3>2
  <2>. QED  BY <2>6, <2>7 DEF Buffered
<1>. QED  BY <1>2, <1>3, <1>4

\* What a copier does at an edge, and what it finds on the read port when it
\* has a command to serve.
LEMMA CopierMoves ==
  ASSUME TypeOK, PartsServe, PacketShape, Follows, Buffered, Dispatched,
         NEW valid \in BOOLEAN, NEW byte, NEW error, NEW ready, NEW drained, NEW taken \in BOOLEAN,
         Edge(valid, byte, error, ready, drained, taken), NEW k \in Memories
  PROVE  /\ copy_state'[k] = copy_next(k, copy_req[k], copy_write[k])
         /\ start_addr'[k] = IF copy_state[k] \in {"ADDR_0", "ADDR_1", "ADDR_2", "ADDR_3"}
                             THEN [start_addr[k] EXCEPT ![AddrByte(copy_state[k])] = res_data]
                             ELSE start_addr[k]
         /\ copy_state[k] = "IDLE" => copy_ptr'[k] = 0
         /\ copy_state[k] \in {"READ", "WRITE"} /\ data_ack[k] => copy_ptr'[k] = Increment(copy_ptr[k])
         /\ copy_state[k] # "IDLE" /\ ~(copy_state[k] \in {"READ", "WRITE"} /\ data_ack[k]) =>
              copy_ptr'[k] = copy_ptr[k]
         /\ read_len'[k] = IF copy_state[k] = "LEN" THEN res_data ELSE read_len[k]
         /\ data_ack'[k] = Accepts(k, taken)
         /\ data_data'[k] = IF Accepts(k, taken) /\ ~data_wr_en(k)
                            THEN mem[k][data_addr(k)] ELSE data_data[k]
         /\ mem'[k] = IF Accepts(k, taken) /\ data_wr_en(k)
                      THEN [mem[k] EXCEPT ![data_addr(k)] = res_data] ELSE mem[k]
         /\ copy_req[k] /\ inp_packet_re(k, copy_req[k], copy_write[k]) =>
              res_data' = res_data_buf[inp_packet_addr(k)]
<1>1. CopierTick(copy_req, copy_write) /\ PortTick(taken)
  BY DEF Edge, DebugTick
<1>2. copy_req[k] /\ inp_packet_re(k, copy_req[k], copy_write[k]) =>
        res_data' = res_data_buf[inp_packet_addr(k)]
  <2>1. SUFFICES ASSUME copy_req[k], inp_packet_re(k, copy_req[k], copy_write[k])
        PROVE  res_data' = res_data_buf[inp_packet_addr(k)]
    OBVIOUS
  <2>2. Reader = k
    BY <2>1, CopyServed
  <2>3. ParseTick(valid, byte, error, send_ready(ready))
    BY DEF Edge, DebugTick
  <2>. QED  BY <2>1, <2>2, <2>3 DEF ParseTick, ParserTick
<1>3. /\ copy_state'[k] = copy_next(k, copy_req[k], copy_write[k])
      /\ start_addr'[k] = IF copy_state[k] \in {"ADDR_0", "ADDR_1", "ADDR_2", "ADDR_3"}
                          THEN [start_addr[k] EXCEPT ![AddrByte(copy_state[k])] = res_data]
                          ELSE start_addr[k]
      /\ read_len'[k] = IF copy_state[k] = "LEN" THEN res_data ELSE read_len[k]
  BY <1>1 DEF CopierTick
<1>4. copy_ptr'[k] = CASE copy_state[k] = "IDLE" -> 0
         [] copy_state[k] \in {"READ", "WRITE"} /\ data_ack[k] -> Increment(copy_ptr[k])
         [] OTHER -> copy_ptr[k]
  BY <1>1 DEF CopierTick
<1>5. /\ data_ack'[k] = Accepts(k, taken)
      /\ data_data'[k] = IF Accepts(k, taken) /\ ~data_wr_en(k)
                         THEN mem[k][data_addr(k)] ELSE data_data[k]
      /\ mem'[k] = IF Accepts(k, taken) /\ data_wr_en(k)
                   THEN [mem[k] EXCEPT ![data_addr(k)] = res_data] ELSE mem[k]
  BY <1>1 DEF PortTick
<1>. QED  BY <1>2, <1>3, <1>4, <1>5

\* A copy that is not over goes on, and one that is over is answered.
LEMMA CopyGoesOn ==
  ASSUME TypeOK, PartsServe, PacketShape, Follows, Buffered, Dispatched,
         NEW valid \in BOOLEAN, NEW byte, NEW error, NEW ready, NEW drained, NEW taken \in BOOLEAN,
         Edge(valid, byte, error, ready, drained, taken), NEW k \in Memories, copy_req[k]
  PROVE  /\ CopyReady(k)  => dm_state' = "WAIT_SEND" /\ ~copy_req'[k]
         /\ ~CopyReady(k) => dm_state' = dm_state /\ copy_req'[k] /\ (copy_write'[k] <=> copy_write[k])
         /\ status_reg' = STATUS_OK /\ (~copy_write[k] => len_reg' = read_len[k])
         /\ UNCHANGED <<res_len, res_data_buf>>
<1>1. k = "prog" \/ k = "data"
  BY DEF Memories
<1>2. /\ dm_state \in IF k = "prog" THEN {"CMD_READ_PROG", "CMD_WRITE_PROG"}
                                   ELSE {"CMD_READ_DATA", "CMD_WRITE_DATA"}
      /\ copy_write[k] <=> dm_state = IF k = "prog" THEN "CMD_WRITE_PROG" ELSE "CMD_WRITE_DATA"
  BY <1>1 DEF copy_req, copy_write
<1>3. dm_state' = IF Done(halted) THEN "WAIT_SEND" ELSE dm_state
  BY <1>1, <1>2 DEF Edge, DebugTick, dm_next, responding
<1>4. Done(halted) = CopyReady(k)
  <2>1. CASE k = "prog"
    <3>1. copy_req["prog"] /\ ~copy_req["data"]
      BY <1>2, <2>1 DEF copy_req, Memories
    <3>. QED  BY <1>2, <2>1, <3>1 DEF Done
  <2>2. CASE k = "data"
    <3>1. copy_req["data"] /\ ~copy_req["prog"]
      BY <1>2, <2>2 DEF copy_req, Memories
    <3>. QED  BY <1>2, <2>2, <3>1 DEF Done
  <2>. QED  BY <1>1, <2>1, <2>2
<1>5. dm_state' = dm_state => copy_req'[k] /\ (copy_write'[k] <=> copy_write[k])
  BY <1>1, <1>2 DEF copy_write, copy_req
<1>6. dm_state' = "WAIT_SEND" => ~copy_req'[k]
  BY <1>1 DEF copy_req
<1>7. status_reg' = STATUS_OK /\ len_reg' = out_len
  BY <1>1, <1>2 DEF Edge, DebugTick, HeaderTick, responding, out_status
<1>8. ~copy_write[k] => out_len = read_len[k]
  BY <1>1, <1>2 DEF out_len
<1>9. UNCHANGED <<res_len, res_data_buf>>
  <2>1. parse_state = "WAIT_READY"
    BY CopyServed
  <2>. QED  BY <2>1 DEF Edge, DebugTick, ParseTick, ParserTick, Hold, res_valid
<1>. QED  BY <1>3, <1>4, <1>5, <1>6, <1>7, <1>8, <1>9

\* A packet is dispatched for what it says, and held as long as it is served.
LEMMA DispatchKept ==
  ASSUME TypeOK, PartsServe, PacketShape, Follows, Dispatched,
         NEW valid \in BOOLEAN, NEW byte \in Byte, NEW error \in BOOLEAN,
         NEW ready \in BOOLEAN, NEW drained, NEW taken,
         Edge(valid, byte, error, ready, drained, taken), Line(valid, byte, error)
  PROVE  Dispatched'
<1>1. /\ dm_state' = dm_next(halted, send_ready(ready)) /\ UNCHANGED <<pkt, bad>>
      /\ dm_state \in DebugStates /\ res_error \in BOOLEAN /\ res_cmd \in Nat /\ res_len \in Nat
      /\ sent \in Nat /\ bad \in Nat
  BY DEF Edge, DebugTick, TypeOK, ControlTypeOK, ParserTypeOK, Byte
<1>2. sent' \in {sent, sent + 1} /\ (host_state = "WAITING" => sent' = sent)
  BY DEF Line, SendByte, Quiet
<1>3. ~Intact => ~Intact'
  BY <1>1, <1>2 DEF Intact
<1>4. host_state = "WAITING" => (Intact' <=> Intact)
  BY <1>1, <1>2 DEF Intact
<1>5. parse_state = "WAIT_READY" => UNCHANGED <<res_cmd, res_len>>
  BY ParserMoves
<1>6. CASE dm_state = "WAIT_INPUT"
  <2>1. CASE ~res_valid
    <3>1. dm_state' = "WAIT_INPUT"
      BY <1>1, <1>6, <2>1 DEF dm_next, responding
    <3>2. ~Serving'
      BY <3>1 DEF Serving, Service
    <3>. QED  BY <3>1, <3>2 DEF Dispatched
  <2>2. CASE res_valid /\ res_error
    <3>1. dm_state' = "WAIT_TIMEOUT"
      BY <1>1, <1>6, <2>2 DEF dm_next, responding, Dispatch
    <3>2. ~Serving'
      BY <3>1 DEF Serving, Service
    <3>. QED  BY <3>1, <3>2 DEF Dispatched
  <2>3. CASE res_valid /\ ~res_error
    <3>1. host_state = "WAITING" /\ Held
      BY <2>3 DEF Follows, AtRest, Arriving, Complete, res_valid, Field, TypeOK
    <3>2. Intact' /\ UNCHANGED <<res_cmd, res_len>>
      BY <1>4, <1>5, <2>3, <3>1 DEF Held
    <3>3. dm_state' = Dispatch
      BY <1>1, <1>6, <2>3 DEF dm_next, responding
    <3>4. CASE res_cmd > 7
      <4>1. dm_state' = "ERROR_CMD"
        BY <1>1, <2>3, <3>3, <3>4 DEF Dispatch
      <4>2. ~Serving'
        BY <4>1 DEF Serving, Service
      <4>. QED  BY <3>2, <3>4, <4>1, <4>2 DEF Dispatched
    <3>5. CASE res_cmd <= 7 /\ ~(res_len >= MinLength(res_cmd))
      <4>1. dm_state' = "ERROR_ARGS"
        BY <1>1, <2>3, <3>3, <3>5 DEF Dispatch
      <4>2. ~Serving'
        BY <4>1 DEF Serving, Service
      <4>3. res_len < MinLength(res_cmd)
        BY <1>1, <3>5 DEF MinLength
      <4>4. res_len' < MinLength(res_cmd')
        BY <3>2, <4>3
      <4>. QED  BY <3>2, <3>5, <4>1, <4>2, <4>4 DEF Dispatched, MinLength
    <3>6. CASE res_cmd <= 7 /\ res_len >= MinLength(res_cmd)
      <4>1. dm_state' = Service[res_cmd + 1] /\ res_cmd + 1 \in 1 .. 8
        BY <1>1, <2>3, <3>3, <3>6 DEF Dispatch
      <4>2. dm_state' \notin {"ERROR_PARITY", "ERROR_CMD", "ERROR_ARGS"}
        BY <4>1 DEF Service
      <4>3. res_len' >= MinLength(res_cmd')
        BY <3>2, <3>6
      <4>. QED  BY <4>2, <4>3 DEF Dispatched, MinLength
    <3>. QED  BY <1>1, <3>4, <3>5, <3>6
  <2>. QED  BY <2>1, <2>2, <2>3
<1>7. CASE dm_state = "WAIT_TIMEOUT"
  <2>1. ~Intact
    BY <1>7, TimeoutBounded DEF Follows, AtRest, Arriving, Held, Complete, TypeOK
  <2>2. dm_state' \in {"WAIT_TIMEOUT", "ERROR_PARITY"}
    BY <1>1, <1>7 DEF dm_next, responding
  <2>3. ~Serving'
    BY <2>2 DEF Serving, Service
  <2>. QED  BY <1>3, <2>1, <2>2, <2>3 DEF Dispatched
<1>8. CASE dm_state \notin {"WAIT_INPUT", "WAIT_TIMEOUT"}
  <2>1. host_state = "WAITING" /\ parse_state = "WAIT_READY"
    BY <1>8, PacketServed DEF Held
  <2>2. (Intact' <=> Intact) /\ UNCHANGED <<res_cmd, res_len>>
    BY <1>4, <1>5, <2>1
  <2>3. dm_state' = dm_state \/ dm_state' \in {"WAIT_SEND", "WAIT_INPUT"}
    BY <1>1, <1>8 DEF dm_next, responding
  <2>4. CASE dm_state' = dm_state
    <3>1. Serving' <=> Serving
      BY <2>4 DEF Serving
    <3>2. MinLength(res_cmd') = MinLength(res_cmd)
      BY <2>2
    <3>. QED  BY <2>2, <2>4, <3>1, <3>2 DEF Dispatched, MinLength
  <2>5. CASE dm_state' \in {"WAIT_SEND", "WAIT_INPUT"}
    <3>1. ~Serving'
      BY <2>5 DEF Serving, Service
    <3>. QED  BY <2>5, <3>1 DEF Dispatched
  <2>. QED  BY <2>3, <2>4, <2>5
<1>. QED  BY <1>6, <1>7, <1>8

\* A copier follows its packet: while it fetches the address, reads and writes.
LEMMA CopierKept ==
  ASSUME TypeOK, PartsServe, PacketShape, Follows, Buffered, Dispatched,
         NEW valid \in BOOLEAN, NEW byte, NEW error, NEW ready, NEW drained, NEW taken \in BOOLEAN,
         Edge(valid, byte, error, ready, drained, taken),
         NEW k \in Memories, CopierFollows(k)
  PROVE  CopierFollows(k)'
<1>1. /\ copy_state[k] \in CopierStates /\ copy_ptr[k] \in Byte /\ res_len \in Byte /\ read_len[k] \in Byte
      /\ start_addr[k] \in [0 .. 3 -> Byte] /\ dm_state \in DebugStates
  BY DEF TypeOK, CopierTypeOK, ParserTypeOK, ControlTypeOK
<1>2. UNCHANGED pkt
  BY DEF Edge
<1>3. /\ copy_state'[k] = copy_next(k, copy_req[k], copy_write[k])
      /\ start_addr'[k] = IF copy_state[k] \in {"ADDR_0", "ADDR_1", "ADDR_2", "ADDR_3"}
                          THEN [start_addr[k] EXCEPT ![AddrByte(copy_state[k])] = res_data]
                          ELSE start_addr[k]
      /\ copy_state[k] = "IDLE" => copy_ptr'[k] = 0
      /\ copy_state[k] \in {"READ", "WRITE"} /\ data_ack[k] => copy_ptr'[k] = Increment(copy_ptr[k])
      /\ copy_state[k] \notin {"IDLE", "READ", "WRITE"} => copy_ptr'[k] = copy_ptr[k]
      /\ copy_state[k] \in {"READ", "WRITE"} /\ ~data_ack[k] => copy_ptr'[k] = copy_ptr[k]
      /\ read_len'[k] = IF copy_state[k] = "LEN" THEN res_data ELSE read_len[k]
      /\ copy_req[k] /\ inp_packet_re(k, copy_req[k], copy_write[k]) =>
           res_data' = res_data_buf[inp_packet_addr(k)]
  BY CopierMoves
\* it writes on only while it serves a write
<1>4. copy_state'[k] = "WRITE" => copy_write'[k]
  <2>1. SUFFICES ASSUME copy_state'[k] = "WRITE" PROVE copy_write'[k]
    OBVIOUS
  <2>2. copy_write[k] /\ copy_req[k]
    BY <1>1, <1>3, <2>1 DEF copy_next, CopierFollows, CopierStates, PartsServe
  <2>3. ~CopyReady(k)
    BY <1>3, <2>1 DEF CopyReady, copy_ready
  <2>. QED  BY <2>2, <2>3, CopyGoesOn
<1>5. CASE ~copy_req'[k]
  BY <1>4, <1>5 DEF CopierFollows
\* the copy begins
<1>6. CASE copy_req'[k] /\ ~copy_req[k]
  <2>1. copy_state'[k] = "IDLE"
    BY <1>3, <1>6 DEF PartsServe, copy_next
  <2>. QED  BY <2>1 DEF CopierFollows
\* the copy goes on
<1>7. CASE copy_req'[k] /\ copy_req[k]
  <2>1. /\ copy_state[k] \in {"ADDR_0", "ADDR_1", "ADDR_2", "ADDR_3"} =>
             /\ copy_ptr[k] = 0
             /\ res_data = pkt[AddrByte(copy_state[k]) + 4]
             /\ Fetched(k, AddrByte(copy_state[k]))
        /\ copy_state[k] = "LEN" =>
             ~copy_write[k] /\ copy_ptr[k] = 0 /\ res_data = pkt[8] /\ Fetched(k, 4)
        /\ copy_state[k] = "READ" =>
             /\ ~copy_write[k] /\ read_len[k] = pkt[8] /\ copy_ptr[k] < read_len[k]
             /\ Fetched(k, 4)
        /\ copy_state[k] = "WRITE" =>
             /\ copy_write[k] /\ copy_ptr[k] + 4 < res_len
             /\ res_data = pkt[copy_ptr[k] + 8] /\ Fetched(k, 4)
    BY <1>7 DEF CopierFollows
  <2>2. /\ res_len >= 4 /\ (~copy_write[k] => res_len >= 5) /\ res_len \in Nat
        /\ \A i \in 0 .. res_len - 1 : res_data_buf[i] = pkt[i + 4]
    BY <1>7, CopyServed
  <2>3. res_len' = res_len /\ (copy_write'[k] <=> copy_write[k]) /\ ~CopyReady(k)
    BY <1>7, CopyGoesOn
  <2>4. ASSUME NEW n \in Nat, n < res_len,
               inp_packet_re(k, copy_req[k], copy_write[k]), inp_packet_addr(k) = n
        PROVE  res_data' = pkt[n + 4]
    BY <1>3, <1>7, <2>2, <2>4
  <2>5. ASSUME NEW j \in 0 .. 3, Fetched(k, j),
               start_addr'[k] = [start_addr[k] EXCEPT ![j] = pkt[j + 4]]
        PROVE  Fetched(k, j + 1)'
    <3>1. ASSUME NEW i \in 0 .. j PROVE start_addr'[k][i] = pkt[i + 4]
      BY <1>1, <2>5 DEF Fetched
    <3>. QED  BY <1>2, <3>1 DEF Fetched
  <2>6. CASE copy_state[k] = "IDLE"
    <3>1. copy_state'[k] = "ADDR_0" /\ copy_ptr'[k] = 0
      BY <1>3, <1>7, <2>6 DEF copy_next
    <3>2. res_data' = pkt[0 + 4]
      <4>1. inp_packet_re(k, copy_req[k], copy_write[k]) /\ inp_packet_addr(k) = 0
        BY <1>7, <2>6 DEF inp_packet_re, inp_packet_addr
      <4>2. 0 \in Nat /\ 0 < res_len
        BY <2>2
      <4>. QED  BY <2>4, <4>1, <4>2
    <3>3. AddrByte(copy_state'[k]) = 0
      BY <3>1 DEF AddrByte
    <3>4. Fetched(k, 0)'
      BY DEF Fetched
    <3>. QED  BY <1>2, <3>1, <3>2, <3>3, <3>4 DEF CopierFollows
  <2>7. ASSUME NEW j \in 0 .. 2, AddrByte(copy_state[k]) = j, AddrByte(copy_state'[k]) = j + 1,
               copy_state[k] \in {"ADDR_0", "ADDR_1", "ADDR_2"},
               copy_state'[k] \in {"ADDR_1", "ADDR_2", "ADDR_3"}
        PROVE  CopierFollows(k)'
    <3>1. copy_ptr'[k] = 0
      BY <1>3, <2>1, <2>7
    <3>2. res_data' = pkt[j + 1 + 4]
      <4>1. inp_packet_re(k, copy_req[k], copy_write[k]) /\ inp_packet_addr(k) = j + 1
        BY <2>7 DEF inp_packet_re, inp_packet_addr
      <4>2. j + 1 \in Nat /\ j + 1 < res_len
        BY <2>2
      <4>. QED  BY <2>4, <4>1, <4>2
    <3>3. Fetched(k, j + 1)'
      <4>1. Fetched(k, j) /\ start_addr'[k] = [start_addr[k] EXCEPT ![j] = pkt[j + 4]]
        BY <1>3, <2>1, <2>7
      <4>. QED  BY <2>5, <4>1
    <3>. QED  BY <1>2, <2>7, <3>1, <3>2, <3>3 DEF CopierFollows
  <2>8. CASE copy_state[k] = "ADDR_0"
    <3>1. copy_state'[k] = "ADDR_1"
      BY <1>3, <2>8 DEF copy_next
    <3>2. AddrByte(copy_state[k]) = 0 /\ AddrByte(copy_state'[k]) = 0 + 1
      BY <2>8, <3>1 DEF AddrByte
    <3>. QED  BY <2>7, <2>8, <3>1, <3>2
  <2>9. CASE copy_state[k] = "ADDR_1"
    <3>1. copy_state'[k] = "ADDR_2"
      BY <1>3, <2>9 DEF copy_next
    <3>2. AddrByte(copy_state[k]) = 1 /\ AddrByte(copy_state'[k]) = 1 + 1
      BY <2>9, <3>1 DEF AddrByte
    <3>. QED  BY <2>7, <2>9, <3>1, <3>2
  <2>10. CASE copy_state[k] = "ADDR_2"
    <3>1. copy_state'[k] = "ADDR_3"
      BY <1>3, <2>10 DEF copy_next
    <3>2. AddrByte(copy_state[k]) = 2 /\ AddrByte(copy_state'[k]) = 2 + 1
      BY <2>10, <3>1 DEF AddrByte
    <3>. QED  BY <2>7, <2>10, <3>1, <3>2
  <2>11. CASE copy_state[k] = "ADDR_3"
    <3>1. AddrByte(copy_state[k]) = 3
      BY <2>11 DEF AddrByte
    <3>2. copy_state'[k] = IF ~copy_write[k] THEN "LEN" ELSE IF res_len > 4 THEN "WRITE" ELSE "IDLE"
      BY <1>3, <2>11 DEF copy_next
    <3>3. ~copy_write[k] \/ res_len > 4
      BY <2>3, <2>11, <3>2 DEF CopyReady, copy_ready, copy_next
    <3>4. Fetched(k, 4)'
      <4>1. Fetched(k, 3) /\ start_addr'[k] = [start_addr[k] EXCEPT ![3] = pkt[3 + 4]]
        BY <1>3, <2>1, <2>11, <3>1
      <4>. QED  BY <2>5, <4>1
    <3>5. res_data' = pkt[4 + 4]
      <4>1. inp_packet_re(k, copy_req[k], copy_write[k]) /\ inp_packet_addr(k) = 4
        BY <2>11, <3>1, <3>3 DEF inp_packet_re, inp_packet_addr
      <4>2. 4 \in Nat /\ 4 < res_len
        BY <2>2, <3>3
      <4>. QED  BY <2>4, <4>1, <4>2
    <3>6. copy_ptr'[k] = 0
      BY <1>3, <2>1, <2>11
    <3>7. CASE copy_write[k]
      BY <1>2, <2>2, <2>3, <3>2, <3>3, <3>4, <3>5, <3>6, <3>7 DEF CopierFollows
    <3>8. CASE ~copy_write[k]
      BY <1>2, <2>3, <3>2, <3>4, <3>5, <3>6, <3>8 DEF CopierFollows
    <3>. QED  BY <3>7, <3>8
  <2>12. CASE copy_state[k] = "LEN"
    <3>1. copy_state'[k] = IF res_data # 0 THEN "READ" ELSE "IDLE"
      BY <1>3, <2>12 DEF copy_next
    <3>2. res_data # 0 /\ res_data \in Nat
      BY <2>3, <2>12, <3>1 DEF CopyReady, copy_ready, copy_next, TypeOK, ParserTypeOK, Byte
    <3>3. copy_ptr'[k] = 0 /\ read_len'[k] = pkt[8] /\ pkt[8] \in Nat /\ pkt[8] # 0
      BY <1>3, <2>1, <2>12, <3>2
    <3>4. Fetched(k, 4)'
      BY <1>2, <1>3, <2>1, <2>12 DEF Fetched
    <3>. QED  BY <1>2, <2>1, <2>3, <2>12, <3>1, <3>2, <3>3, <3>4 DEF CopierFollows
  <2>13. CASE copy_state[k] = "READ"
    <3>1. Fetched(k, 4)' /\ read_len'[k] = read_len[k]
      BY <1>2, <1>3, <2>1, <2>13 DEF Fetched
    <3>2. copy_state'[k] = "READ" /\ ~(data_ack[k] /\ LastRead(k))
      BY <1>3, <2>3, <2>13 DEF CopyReady, copy_ready, copy_next
    <3>3. copy_ptr'[k] < read_len[k]
      <4>1. copy_ptr[k] < read_len[k] /\ Increment(copy_ptr[k]) = copy_ptr[k] + 1
        BY <1>1, <2>1, <2>13, IncrementBelow
      <4>2. copy_ptr'[k] = IF data_ack[k] THEN copy_ptr[k] + 1 ELSE copy_ptr[k]
        BY <1>3, <2>13, <4>1
      <4>3. data_ack[k] => copy_ptr[k] + 1 # read_len[k]
        BY <3>2, <4>1 DEF LastRead
      <4>4. copy_ptr[k] \in Int /\ read_len[k] \in Int
        BY <1>1 DEF Byte
      <4>. QED  BY <4>1, <4>2, <4>3, <4>4
    <3>. QED  BY <1>2, <2>1, <2>3, <2>13, <3>1, <3>2, <3>3 DEF CopierFollows
  <2>14. CASE copy_state[k] = "WRITE"
    <3>1. Fetched(k, 4)' /\ copy_write[k]
      BY <1>2, <1>3, <2>1, <2>14 DEF Fetched
    <3>2. /\ copy_ptr[k] \in Nat /\ copy_ptr[k] + 4 < res_len
          /\ inp_packet_re(k, copy_req[k], copy_write[k])
          /\ inp_packet_addr(k) = (copy_ptr[k] + (IF data_ack[k] THEN 5 ELSE 4)) % ByteSize
      BY <1>1, <2>1, <2>14 DEF Byte, inp_packet_re, inp_packet_addr
    <3>3. copy_state'[k] = "WRITE" /\ ~(data_ack[k] /\ LastWrite(k))
      BY <1>3, <2>3, <2>14 DEF CopyReady, copy_ready, copy_next
    <3>4. \A z \in 0 .. ByteSize - 1 : z % ByteSize = z
      BY ByteAssumption
    <3>5. CASE data_ack[k]
      <4>1. /\ copy_ptr[k] + 1 \in 0 .. ByteSize - 1 /\ copy_ptr[k] + 5 \in 0 .. ByteSize - 1
            /\ copy_ptr[k] + 1 + 4 = copy_ptr[k] + 5
        BY <1>1, <3>2, ByteAssumption DEF Byte
      <4>2. copy_ptr'[k] = copy_ptr[k] + 1 /\ copy_ptr[k] + 5 # res_len
        BY <1>3, <2>14, <3>3, <3>4, <3>5, <4>1 DEF LastWrite, Increment
      <4>3. inp_packet_addr(k) = copy_ptr[k] + 5
        BY <3>2, <3>4, <3>5, <4>1
      <4>4. copy_ptr[k] + 5 \in Nat /\ copy_ptr[k] + 5 < res_len
        BY <2>2, <3>2, <4>2
      <4>5. res_data' = pkt[copy_ptr[k] + 5 + 4]
        BY <2>4, <3>2, <4>3, <4>4
      <4>6. copy_ptr[k] + 5 + 4 = copy_ptr'[k] + 8 /\ copy_ptr'[k] + 4 < res_len
        BY <3>2, <4>2, <4>4
      <4>. QED  BY <1>2, <2>3, <3>1, <3>3, <4>5, <4>6 DEF CopierFollows
    <3>6. CASE ~data_ack[k]
      <4>1. copy_ptr'[k] = copy_ptr[k]
        BY <1>3, <2>14, <3>6
      <4>2. copy_ptr[k] + 4 \in 0 .. ByteSize - 1
        BY <1>1, <3>2, ByteAssumption DEF Byte
      <4>3. inp_packet_addr(k) = copy_ptr[k] + 4
        BY <3>2, <3>4, <3>6, <4>2
      <4>4. copy_ptr[k] + 4 \in Nat /\ copy_ptr[k] + 4 < res_len
        BY <3>2
      <4>5. res_data' = pkt[copy_ptr[k] + 4 + 4]
        BY <2>4, <3>2, <4>3, <4>4
      <4>6. copy_ptr[k] + 4 + 4 = copy_ptr'[k] + 8 /\ copy_ptr'[k] + 4 < res_len
        BY <3>2, <4>1
      <4>. QED  BY <1>2, <2>3, <3>1, <3>3, <4>5, <4>6 DEF CopierFollows
    <3>. QED  BY <3>5, <3>6
  <2>. QED  BY <1>1, <2>6, <2>8, <2>9, <2>10, <2>11, <2>12, <2>13, <2>14 DEF CopierStates
<1>. QED  BY <1>5, <1>6, <1>7

-----------------------------------------------------------------------------
\* A service that is done has been asked by an undamaged packet with arguments.
LEMMA ServedRight ==
  ASSUME TypeOK, PacketShape, Follows, Buffered, Dispatched, responding
  PROVE  /\ out_status = ExpectedStatus
         /\ Serving <=> ExpectedStatus = STATUS_OK
<1>1. /\ dm_state \in DebugStates /\ pkt \in Seq(Byte)
      /\ res_cmd \in Nat /\ res_len \in Nat
  BY DEF TypeOK, ControlTypeOK, ParserTypeOK, Byte
<1>2. host_state = "WAITING" /\ Held /\ sent = Len(pkt) /\ Len(pkt) = 3 + pkt[3]
  BY PacketServed DEF responding
<1>3. Intact <=> bad = 0
  BY <1>2 DEF Intact, TypeOK
<1>4. Intact => res_cmd = pkt[1] /\ res_len = pkt[3]
  BY <1>2 DEF Held, Buffered
<1>5. /\ STATUS_OK # STATUS_ERROR_PARITY /\ STATUS_OK # STATUS_ERROR_ARGS /\ STATUS_OK # STATUS_ERROR_CMD
  BY ByteAssumption DEF STATUS_OK, STATUS_ERROR_PARITY, STATUS_ERROR_ARGS, STATUS_ERROR_CMD
<1>6. CASE dm_state = "ERROR_PARITY"
  <2>1. ExpectedStatus = STATUS_ERROR_PARITY /\ ~Serving
    BY <1>3, <1>6 DEF Dispatched, ExpectedStatus, Serving, Service
  <2>. QED  BY <1>5, <1>6, <2>1 DEF out_status
<1>7. CASE dm_state = "ERROR_CMD"
  <2>1. bad = 0 /\ pkt[1] > 7 /\ pkt[1] \notin {2, 4} /\ pkt[1] \notin {3, 5}
    BY <1>1, <1>3, <1>4, <1>7 DEF Dispatched
  <2>2. ExpectedStatus = STATUS_ERROR_CMD /\ ~Serving
    BY <1>7, <2>1 DEF ExpectedStatus, Serving, Service
  <2>. QED  BY <1>5, <1>7, <2>2 DEF out_status
<1>8. CASE dm_state = "ERROR_ARGS"
  <2>1. bad = 0 /\ pkt[1] \in Nat /\ pkt[1] <= 7 /\ pkt[3] \in Nat /\ pkt[3] < MinLength(pkt[1])
    BY <1>1, <1>3, <1>4, <1>8 DEF Dispatched
  <2>2. \/ pkt[1] \in {2, 4} /\ pkt[3] < 5
        \/ pkt[1] \in {3, 5} /\ pkt[3] < 4
    BY <2>1 DEF MinLength
  <2>3. ExpectedStatus = STATUS_ERROR_ARGS /\ ~Serving
    BY <1>8, <2>1, <2>2 DEF ExpectedStatus, Serving, Service
  <2>. QED  BY <1>5, <1>8, <2>3 DEF out_status
<1>9. CASE Serving
  <2>1. bad = 0 /\ pkt[1] \in 0 .. 7 /\ pkt[3] \in Nat /\ pkt[3] >= MinLength(pkt[1])
    <3>1. bad = 0 /\ pkt[1] \in 0 .. 7
      BY <1>9, PacketServed DEF responding
    <3>. QED  BY <1>1, <1>3, <1>4, <1>9, <3>1 DEF Dispatched
  <2>2. /\ ~(pkt[1] \in {2, 4} /\ pkt[3] < 5)
        /\ ~(pkt[1] \in {3, 5} /\ pkt[3] < 4)
        /\ ~(pkt[1] > 7)
    BY <2>1 DEF MinLength
  <2>3. ExpectedStatus = STATUS_OK
    BY <2>1, <2>2 DEF ExpectedStatus
  <2>4. dm_state \notin {"ERROR_PARITY", "ERROR_CMD", "ERROR_ARGS"}
    BY <1>9 DEF Serving, Service
  <2>. QED  BY <1>9, <2>3, <2>4 DEF out_status
<1>. QED  BY <1>1, <1>6, <1>7, <1>8, <1>9 DEF responding, DebugStates, Serving

\* The status of an answer is decided with its service, and then stays.
LEMMA StatusKept ==
  ASSUME TypeOK, PartsServe, PacketShape, Follows, Buffered, Dispatched, StatusRight,
         NEW valid \in BOOLEAN, NEW byte \in Byte, NEW error \in BOOLEAN,
         NEW ready \in BOOLEAN, NEW drained, NEW taken,
         Edge(valid, byte, error, ready, drained, taken), Line(valid, byte, error)
  PROVE  StatusRight'
<1>1. ExpectedStatus' = ExpectedStatus
  BY DEF Edge, ExpectedStatus
<1>2. CASE Decided
  BY <1>1, <1>2, AnswerDecided DEF StatusRight
<1>3. CASE ~Decided /\ Decided'
  <2>1. responding
    BY <1>3, AnswerDecided
  <2>2. status_reg' = out_status
    BY <2>1 DEF Edge, DebugTick, HeaderTick
  <2>. QED  BY <1>1, <2>1, <2>2, ServedRight DEF StatusRight
<1>. QED  BY <1>2, <1>3 DEF StatusRight

\* The command of a memory is served by its copier.
LEMMA MemoryServed ==
  ASSUME TypeOK, PacketShape, Follows, Serving, NEW k \in Memories,
         pkt[1] \in {WriteOf(k), WriteOf(k) - 1}
  PROVE  copy_req[k] /\ (copy_write[k] <=> pkt[1] = WriteOf(k))
<1>1. dm_state \notin {"WAIT_INPUT", "WAIT_TIMEOUT"}
  BY DEF Serving, Service
<1>2. dm_state = Service[pkt[1] + 1]
  BY <1>1, PacketServed
<1>3. k = "prog" \/ k = "data"
  BY DEF Memories
<1>4. CASE k = "prog"
  <2>1. pkt[1] = 2 \/ pkt[1] = 3
    BY <1>4 DEF WriteOf
  <2>2. CASE pkt[1] = 2
    <3>1. dm_state = Service[3]
      BY <1>2, <2>2
    <3>2. dm_state = "CMD_READ_PROG"
      BY <3>1 DEF Service
    <3>3. copy_req[k] /\ ~copy_write[k]
      BY <1>4, <3>2 DEF copy_req, copy_write
    <3>4. WriteOf(k) # pkt[1]
      BY <1>4, <2>2 DEF WriteOf
    <3>. QED  BY <3>3, <3>4
  <2>3. CASE pkt[1] = 3
    <3>1. dm_state = Service[4]
      BY <1>2, <2>3
    <3>2. dm_state = "CMD_WRITE_PROG"
      BY <3>1 DEF Service
    <3>. QED  BY <1>4, <2>3, <3>2 DEF copy_req, copy_write, WriteOf
  <2>. QED  BY <2>1, <2>2, <2>3
<1>5. CASE k = "data"
  <2>1. pkt[1] = 4 \/ pkt[1] = 5
    BY <1>5 DEF WriteOf
  <2>2. CASE pkt[1] = 4
    <3>1. dm_state = Service[5]
      BY <1>2, <2>2
    <3>2. dm_state = "CMD_READ_DATA"
      BY <3>1 DEF Service
    <3>3. copy_req[k] /\ ~copy_write[k]
      BY <1>5, <3>2 DEF copy_req, copy_write
    <3>4. WriteOf(k) # pkt[1]
      BY <1>5, <2>2 DEF WriteOf
    <3>. QED  BY <3>3, <3>4
  <2>3. CASE pkt[1] = 5
    <3>1. dm_state = Service[6]
      BY <1>2, <2>3
    <3>2. dm_state = "CMD_WRITE_DATA"
      BY <3>1 DEF Service
    <3>. QED  BY <1>5, <2>3, <3>2 DEF copy_req, copy_write, WriteOf
  <2>. QED  BY <2>1, <2>2, <2>3
<1>. QED  BY <1>3, <1>4, <1>5

-----------------------------------------------------------------------------
\* How many bytes the memory has changes only with a write of the next one.
LEMMA CopiedMoves ==
  ASSUME TypeOK, PartsServe, PacketShape, Follows, Buffered, Dispatched,
         \A k \in Memories : CopierFollows(k),
         NEW valid \in BOOLEAN, NEW byte \in Byte, NEW error \in BOOLEAN,
         NEW ready \in BOOLEAN, NEW drained, NEW taken \in BOOLEAN,
         Edge(valid, byte, error, ready, drained, taken), Line(valid, byte, error),
         NEW k \in Memories
  PROVE  IF Accepts(k, taken) /\ data_wr_en(k)
         THEN Copied(k) = copy_ptr[k] /\ Copied(k)' = copy_ptr[k] + 1
         ELSE Copied(k)' = Copied(k)
<1>1. /\ copy_state[k] \in CopierStates /\ copy_ptr[k] \in Nat /\ copy_ptr[k] \in Byte
      /\ res_len \in Byte /\ res_len \in Nat /\ data_ack[k] \in BOOLEAN
  BY DEF TypeOK, CopierTypeOK, ParserTypeOK, Byte
<1>2. /\ copy_state'[k] = copy_next(k, copy_req[k], copy_write[k])
      /\ copy_state[k] = "WRITE" /\ data_ack[k] => copy_ptr'[k] = Increment(copy_ptr[k])
      /\ copy_state[k] = "WRITE" /\ ~data_ack[k] => copy_ptr'[k] = copy_ptr[k]
      /\ copy_state[k] \notin {"IDLE", "READ", "WRITE"} => copy_ptr'[k] = copy_ptr[k]
      /\ data_ack'[k] = Accepts(k, taken)
  BY CopierMoves
<1>3. UNCHANGED pkt
  BY DEF Edge
<1>4. CASE copy_state[k] = "WRITE"
  <2>1. copy_write[k] /\ copy_req[k]
    BY <1>4 DEF CopierFollows, PartsServe
  <2>2. copy_ptr[k] + 4 < res_len /\ pkt[1] = WriteOf(k) /\ res_len = pkt[3]
    BY <1>4, <2>1, CopyServed DEF CopierFollows
  <2>3. CASE ~data_ack[k]
    <3>1. copy_state'[k] = "WRITE" /\ copy_ptr'[k] = copy_ptr[k]
      BY <1>2, <1>4, <2>3 DEF copy_next
    <3>. QED  BY <1>2, <1>4, <2>3, <3>1 DEF Copied, data_wr_en
  <2>4. CASE data_ack[k]
    <3>1. ~Accepts(k, taken) /\ Copied(k) = copy_ptr[k] + 1
      BY <1>4, <2>4 DEF Accepts, data_req, Copied
    <3>2. /\ Increment(copy_ptr[k]) = copy_ptr[k] + 1
          /\ (copy_ptr[k] + 1 + 4) % ByteSize = copy_ptr[k] + 5
      <4>1. /\ copy_ptr[k] + 1 \in 0 .. ByteSize - 1 /\ copy_ptr[k] + 5 \in 0 .. ByteSize - 1
            /\ copy_ptr[k] + 1 + 4 = copy_ptr[k] + 5
        BY <1>1, <2>2, ByteAssumption DEF Byte
      <4>2. \A z \in 0 .. ByteSize - 1 : z % ByteSize = z
        BY ByteAssumption
      <4>. QED  BY <4>1, <4>2 DEF Increment
    <3>3. CASE copy_ptr[k] + 5 # res_len
      <4>1. copy_state'[k] = "WRITE" /\ copy_ptr'[k] = copy_ptr[k] + 1 /\ ~data_ack'[k]
        BY <1>2, <1>4, <2>4, <3>1, <3>2, <3>3 DEF copy_next, LastWrite
      <4>. QED  BY <3>1, <4>1 DEF Copied
    <3>4. CASE copy_ptr[k] + 5 = res_len
      <4>1. copy_state'[k] = "IDLE"
        BY <1>2, <1>4, <2>4, <3>2, <3>4 DEF copy_next, LastWrite
      <4>2. dm_state' = "WAIT_SEND" /\ status_reg' = STATUS_OK
        BY <1>2, <1>4, <2>1, <4>1, CopyGoesOn DEF CopyReady, copy_ready
      <4>3. Copied(k)' = pkt[3] - 4
        BY <1>3, <2>2, <4>1, <4>2 DEF Copied, Decided
      <4>. QED  BY <1>1, <2>2, <3>1, <3>4, <4>3
    <3>. QED  BY <3>3, <3>4
  <2>. QED  BY <1>1, <2>3, <2>4
<1>5. CASE copy_state[k] # "WRITE"
  <2>1. ~(Accepts(k, taken) /\ data_wr_en(k))
    BY <1>5 DEF data_wr_en
  <2>2. CASE copy_state'[k] = "WRITE"
    <3>1. copy_state[k] = "ADDR_3" /\ copy_write[k] /\ copy_req[k]
      BY <1>1, <1>2, <1>5, <2>2 DEF copy_next, CopierStates, PartsServe
    <3>2. copy_ptr[k] = 0 /\ copy_ptr'[k] = 0 /\ ~data_ack'[k]
      BY <1>2, <3>1 DEF CopierFollows, Accepts, data_req
    <3>3. ~Decided
      <4>1. dm_state \in {"CMD_WRITE_PROG", "CMD_WRITE_DATA"}
        BY <3>1 DEF copy_write
      <4>. QED  BY <4>1 DEF Decided
    <3>. QED  BY <1>5, <2>1, <2>2, <3>2, <3>3 DEF Copied
  <2>3. CASE copy_state'[k] # "WRITE" /\ Decided
    <3>1. Decided' /\ status_reg' = status_reg
      BY <2>3, AnswerDecided
    <3>2. Copied(k)' = Copied(k)
      BY <1>3, <1>5, <2>3, <3>1 DEF Copied, WriteOf
    <3>. QED  BY <2>1, <3>2
  <2>4. CASE copy_state'[k] # "WRITE" /\ ~Decided /\ Decided' /\ status_reg' = STATUS_OK /\ pkt[1] = WriteOf(k)
    <3>1. Serving /\ dm_state' = "WAIT_SEND"
      BY <2>4, AnswerDecided
    <3>2. copy_req[k] /\ copy_write[k]
      BY <2>4, <3>1, MemoryServed
    <3>3. res_len = pkt[3] /\ res_len >= 4
      BY <3>2, CopyServed
    <3>4. copy_state[k] = "ADDR_3" /\ ~(res_len > 4)
      <4>1. CopyReady(k)
        <5>1. dm_state # "WAIT_SEND"
          BY <3>2 DEF copy_write
        <5>. QED  BY <3>1, <3>2, <5>1, CopyGoesOn
      <4>2. copy_state[k] \notin {"LEN", "READ"}
        BY <3>2 DEF CopierFollows
      <4>. QED  BY <1>1, <1>5, <3>2, <4>1, <4>2 DEF CopyReady, copy_ready, copy_next, CopierStates
    <3>5. pkt[3] - 4 = 0
      BY <1>1, <3>3, <3>4
    <3>6. Copied(k) = 0 /\ Copied(k)' = pkt[3] - 4
      BY <1>3, <1>5, <2>4 DEF Copied, WriteOf
    <3>. QED  BY <2>1, <3>5, <3>6
  <2>5. CASE copy_state'[k] # "WRITE" /\ ~Decided /\ ~(Decided' /\ status_reg' = STATUS_OK /\ pkt[1] = WriteOf(k))
    <3>1. Copied(k) = 0 /\ Copied(k)' = 0
      BY <1>3, <1>5, <2>5 DEF Copied, WriteOf
    <3>. QED  BY <2>1, <3>1
  <2>. QED  BY <2>2, <2>3, <2>4, <2>5
<1>. QED  BY <1>4, <1>5

\* The memories are as the bytes copied so far leave them.
LEMMA MemoryKept ==
  ASSUME TypeOK, PartsServe, PacketShape, Follows, Buffered, Dispatched,
         \A k \in Memories : CopierFollows(k),
         NEW valid \in BOOLEAN, NEW byte \in Byte, NEW error \in BOOLEAN,
         NEW ready \in BOOLEAN, NEW drained, NEW taken \in BOOLEAN,
         Edge(valid, byte, error, ready, drained, taken), Line(valid, byte, error),
         NEW k \in Memories, \A a \in Addr : Holds(k, Copied(k), a)
  PROVE  \A a \in Addr : Holds(k, Copied(k), a)'
<1>1. /\ UNCHANGED <<pkt, shadow>>
      /\ mem'[k] = IF Accepts(k, taken) /\ data_wr_en(k)
                   THEN [mem[k] EXCEPT ![data_addr(k)] = res_data] ELSE mem[k]
      /\ mem[k] \in [Addr -> Byte] /\ copy_ptr[k] \in Nat
  <2>1. mem'[k] = IF Accepts(k, taken) /\ data_wr_en(k)
                  THEN [mem[k] EXCEPT ![data_addr(k)] = res_data] ELSE mem[k]
    BY CopierMoves
  <2>2. UNCHANGED <<pkt, shadow>>
    BY DEF Edge
  <2>. QED  BY <2>1, <2>2 DEF TypeOK, CopierTypeOK, Byte
<1>2. \A i : AddrOf(i)' = AddrOf(i)
  BY <1>1 DEF AddrOf, RequestAddr, Address
<1>. SUFFICES ASSUME NEW a \in Addr PROVE Holds(k, Copied(k), a)'
  OBVIOUS
<1>3. CASE ~(Accepts(k, taken) /\ data_wr_en(k))
  <2>1. Copied(k)' = Copied(k) /\ mem'[k] = mem[k]
    BY <1>1, <1>3, CopiedMoves
  <2>. QED  BY <1>1, <1>2, <2>1 DEF Holds
<1>4. CASE Accepts(k, taken) /\ data_wr_en(k)
  <2>. DEFINE n == copy_ptr[k]
  <2>1. Copied(k) = n /\ Copied(k)' = n + 1
    BY <1>4, CopiedMoves
  <2>2. res_data = pkt[n + 8] /\ Fetched(k, 4)
    BY <1>4 DEF data_wr_en, CopierFollows, PartsServe
  <2>3. AddrOf(n + 8) = data_addr(k)
    BY <1>1, <2>2, CopierAddress DEF data_addr
  <2>4. mem'[k] = [mem[k] EXCEPT ![AddrOf(n + 8)] = pkt[n + 8]]
    BY <1>1, <1>4, <2>2, <2>3
  <2>5. n \in Nat /\ (n + 1) + 7 = n + 8
    BY <1>1
  <2>. HIDE DEF n
  <2>6. CASE a = AddrOf(n + 8)
    <3>1. mem'[k][a] = pkt[n + 8]
      BY <1>1, <2>4, <2>6
    <3>2. n + 8 \in 8 .. (n + 1) + 7 /\ \A j \in (n + 8) + 1 .. (n + 1) + 7 : AddrOf(j) # a
      BY <2>5
    <3>. QED  BY <1>1, <1>2, <2>1, <2>6, <3>1, <3>2 DEF Holds
  <2>7. CASE a # AddrOf(n + 8)
    <3>1. mem'[k][a] = mem[k][a]
      BY <1>1, <2>4, <2>7
    <3>2. Holds(k, n, a)
      BY <2>1
    <3>3. CASE (\A i \in 8 .. n + 7 : AddrOf(i) # a) /\ mem[k][a] = shadow[k][a]
      <4>1. \A i \in 8 .. (n + 1) + 7 : AddrOf(i) # a
        <5>1. \A i \in 8 .. (n + 1) + 7 : i \in 8 .. n + 7 \/ i = n + 8
          BY <2>5
        <5>. QED  BY <2>7, <3>3, <5>1
      <4>. QED  BY <1>1, <1>2, <2>1, <3>1, <3>3, <4>1 DEF Holds
    <3>4. CASE \E i \in 8 .. n + 7 :
                 /\ AddrOf(i) = a /\ mem[k][a] = pkt[i]
                 /\ \A j \in i + 1 .. n + 7 : AddrOf(j) # a
      <4>1. PICK i \in 8 .. n + 7 :
              /\ AddrOf(i) = a /\ mem[k][a] = pkt[i]
              /\ \A j \in i + 1 .. n + 7 : AddrOf(j) # a
        BY <3>4
      <4>2. i \in 8 .. (n + 1) + 7 /\ \A j \in i + 1 .. (n + 1) + 7 : j \in i + 1 .. n + 7 \/ j = n + 8
        BY <2>5
      <4>3. \A j \in i + 1 .. (n + 1) + 7 : AddrOf(j) # a
        BY <2>7, <4>1, <4>2
      <4>. QED  BY <1>1, <1>2, <2>1, <3>1, <4>1, <4>2, <4>3 DEF Holds
    <3>. QED  BY <3>2, <3>3, <3>4 DEF Holds
  <2>. QED  BY <2>6, <2>7
<1>. QED  BY <1>3, <1>4

\* A status OK is of an undamaged packet with its arguments.
LEMMA StatusOK ==
  ExpectedStatus = STATUS_OK =>
    /\ bad = 0 /\ ~(pkt[1] > 7)
    /\ ~(pkt[1] \in {2, 4} /\ pkt[3] < 5) /\ ~(pkt[1] \in {3, 5} /\ pkt[3] < 4)
BY ByteAssumption
   DEF ExpectedStatus, STATUS_OK, STATUS_ERROR_PARITY, STATUS_ERROR_ARGS, STATUS_ERROR_CMD

\* A unit that has answered has done what the answer says with the memories.
LEMMA AnsweredHolds ==
  ASSUME Inv, Copies, host_state = "WAITING", ResponseComplete, NEW k \in Memories, NEW a \in Addr
  PROVE  /\ Decided /\ status_reg = resp[1]
         /\ mem[k][a] = (IF resp[1] = STATUS_OK /\ pkt[1] = WriteOf(k)
                        THEN Written(shadow[k]) ELSE shadow[k])[a]
<1>1. Complete
  BY AnswerWhole DEF Inv
<1>2. /\ Decided /\ dm_state = "WAIT_INPUT" /\ resp[1] = status_reg
      /\ TypeOK /\ PartsServe /\ PacketShape
  BY <1>1 DEF Inv, Complete, AtRest, Decided
<1>3. copy_state[k] = "IDLE"
  <2>1. ~copy_req[k]
    BY <1>2 DEF copy_req
  <2>. QED  BY <1>2, <2>1 DEF PartsServe
<1>4. Holds(k, Copied(k), a)
  BY DEF Copies
<1>5. CASE ~(resp[1] = STATUS_OK /\ pkt[1] = WriteOf(k))
  <2>1. Copied(k) = 0
    BY <1>2, <1>3, <1>5 DEF Copied
  <2>2. 8 .. 0 + 7 = {}
    OBVIOUS
  <2>. QED  BY <1>2, <1>4, <1>5, <2>1, <2>2 DEF Holds
<1>6. CASE resp[1] = STATUS_OK /\ pkt[1] = WriteOf(k)
  <2>1. Len(pkt) = 3 + pkt[3] /\ Len(pkt) \in Nat /\ pkt[3] \in Nat /\ pkt[3] >= 4
    <3>1. pkt \in Seq(Byte) /\ Len(pkt) >= 3 /\ Len(pkt) = 3 + pkt[3]
      BY <1>2 DEF TypeOK, PacketShape
    <3>2. pkt[3] \in Byte
      BY <3>1
    <3>3. pkt[1] \in {3, 5}
      BY <1>6 DEF WriteOf
    <3>. QED  BY <1>2, <1>6, <3>1, <3>2, <3>3, StatusOK DEF Copies, StatusRight, Byte
  <2>2. Copied(k) = pkt[3] - 4 /\ Copied(k) + 7 = Len(pkt)
    BY <1>2, <1>3, <1>6, <2>1 DEF Copied
  <2>3. BytesFor(a) = {i \in 8 .. Len(pkt) : AddrOf(i) = a}
    BY DEF BytesFor, AddrOf
  <2>4. Written(shadow[k])[a] =
          IF BytesFor(a) = {} THEN shadow[k][a]
          ELSE pkt[CHOOSE i \in BytesFor(a) : \A j \in BytesFor(a) : j <= i]
    BY DEF Written
  <2>5. CASE (\A i \in 8 .. Len(pkt) : AddrOf(i) # a) /\ mem[k][a] = shadow[k][a]
    BY <1>2, <1>6, <2>3, <2>4, <2>5
  <2>6. CASE \E i \in 8 .. Len(pkt) :
               /\ AddrOf(i) = a /\ mem[k][a] = pkt[i]
               /\ \A j \in i + 1 .. Len(pkt) : AddrOf(j) # a
    <3>1. PICK i \in 8 .. Len(pkt) :
            /\ AddrOf(i) = a /\ mem[k][a] = pkt[i]
            /\ \A j \in i + 1 .. Len(pkt) : AddrOf(j) # a
      BY <2>6
    <3>2. i \in BytesFor(a) /\ BytesFor(a) \subseteq Int
      BY <2>3, <3>1
    <3>3. \A j \in BytesFor(a) : j <= i
      <4>1. SUFFICES ASSUME NEW j \in BytesFor(a), ~(j <= i) PROVE FALSE
        OBVIOUS
      <4>2. j \in i + 1 .. Len(pkt) /\ AddrOf(j) = a
        BY <2>1, <2>3, <4>1
      <4>. QED  BY <3>1, <4>2
    <3>. DEFINE c == CHOOSE l \in BytesFor(a) : \A j \in BytesFor(a) : j <= l
    <3>4. c \in BytesFor(a) /\ \A j \in BytesFor(a) : j <= c
      BY <3>2, <3>3
    <3>. HIDE DEF c
    <3>5. c = i
      <4>1. c <= i /\ i <= c /\ c \in Int /\ i \in Int
        BY <3>2, <3>3, <3>4
      <4>. QED  BY <4>1
    <3>. QED  BY <1>2, <1>6, <2>4, <3>1, <3>2, <3>5 DEF c
  <2>. QED  BY <1>4, <2>2, <2>5, <2>6 DEF Holds
<1>. QED  BY <1>2, <1>5, <1>6

\* The host that has its answer takes the memories for what they are.
LEMMA ReceiveHolds ==
  ASSUME Inv, Copies, HostReceive, NEW k \in Memories, NEW a \in Addr
  PROVE  mem[k][a] = shadow'[k][a]
<1>1. ASSUME NEW m \in Memories PROVE (IF m = "prog" THEN 3 ELSE 5) = WriteOf(m)
  BY DEF WriteOf
<1>2. /\ host_state = "WAITING" /\ ResponseComplete
      /\ shadow'[k] = IF resp[1] = STATUS_OK /\ pkt[1] = WriteOf(k) THEN Written(shadow[k]) ELSE shadow[k]
  BY <1>1 DEF HostReceive
<1>. QED  BY <1>2, AnsweredHolds

\* A memory that has no byte of a packet is as the host takes it for.
LEMMA NothingCopied ==
  ASSUME NEW k, NEW a
  PROVE  Holds(k, 0, a) <=> mem[k][a] = shadow[k][a]
<1>1. 8 .. 0 + 7 = {}
  OBVIOUS
<1>. QED  BY <1>1 DEF Holds

\* A host that begins or ends with a unit at rest finds the memories its own.
LEMMA HostCopies ==
  ASSUME TypeOK, PartsServe, AtRest, UNCHANGED boardVars, host_state' # "WAITING", sent' = 0,
         \A k \in Memories : \A a \in Addr : mem[k][a] = shadow'[k][a]
  PROVE  Copies'
<1>1. UNCHANGED <<parse_state, res_len, res_data_buf, dm_state, copy_state, mem>>
  BY DEF boardVars, debugVars, parserVars, copierVars, controlVars
<1>2. dm_state' = "WAIT_INPUT" /\ parse_state' = "WAIT_CMD" /\ ~Decided'
  BY <1>1 DEF AtRest, Decided
<1>3. ASSUME NEW k \in Memories
      PROVE  CopierFollows(k)' /\ Copied(k)' = 0 /\ \A a \in Addr : Holds(k, Copied(k), a)'
  <2>1. ~copy_req[k] /\ ~copy_req'[k]
    BY <1>2 DEF AtRest, copy_req
  <2>2. copy_state'[k] = "IDLE"
    BY <1>1, <2>1 DEF PartsServe
  <2>3. Copied(k)' = 0
    BY <1>2, <2>2 DEF Copied
  <2>4. 8 .. 0 + 7 = {}
    OBVIOUS
  <2>5. \A a \in Addr : Holds(k, Copied(k), a)'
    BY <1>1, <2>3, <2>4 DEF Holds
  <2>. QED  BY <2>1, <2>2, <2>3, <2>5 DEF CopierFollows
<1>4. Buffered'
  BY <1>2 DEF Buffered
<1>5. Dispatched'
  <2>1. ~Serving'
    BY <1>2 DEF Serving, Service
  <2>. QED  BY <1>2, <2>1 DEF Dispatched
<1>. QED  BY <1>2, <1>3, <1>4, <1>5 DEF Copies, StatusRight

-----------------------------------------------------------------------------
\* The initial states have the memories the host starts from.
LEMMA InitCopies == Init => Copies
<1>. SUFFICES ASSUME Init PROVE Copies
  OBVIOUS
<1>1. ~Decided /\ Buffered
  BY DEF Init, DebugInit, ParserInit, Decided, Buffered
<1>2. ASSUME NEW k \in Memories
      PROVE  ~copy_req[k] /\ copy_state[k] = "IDLE" /\ \A a \in Addr : mem[k][a] = shadow[k][a]
  BY DEF Init, DebugInit, CopierInit, copy_req
<1>3. ASSUME NEW k \in Memories PROVE CopierFollows(k) /\ \A a \in Addr : Holds(k, Copied(k), a)
  <2>1. Copied(k) = 0
    BY <1>1, <1>2 DEF Copied
  <2>2. 8 .. 0 + 7 = {}
    OBVIOUS
  <2>. QED  BY <1>2, <2>1, <2>2 DEF CopierFollows, Holds
<1>4. Dispatched
  <2>1. dm_state = "WAIT_INPUT"
    BY DEF Init, DebugInit
  <2>2. ~Serving
    BY <2>1 DEF Serving, Service
  <2>. QED  BY <2>1, <2>2 DEF Dispatched
<1>. QED  BY <1>1, <1>3, <1>4 DEF Copies, StatusRight

\* Copies is kept by every step.
LEMMA StepCopies == session \in Sessions /\ Inv /\ Copies /\ [Next]_vars => Copies'
<1>. SUFFICES ASSUME session \in Sessions, Inv, Copies, [Next]_vars PROVE Copies'
  OBVIOUS
<1>1. TypeOK /\ PartsServe /\ PacketShape /\ Follows
  BY DEF Inv
<1>2. CASE Tick
  <2>1. PICK valid, error, ready, drained, taken \in BOOLEAN, byte \in Byte :
          Edge(valid, byte, error, ready, drained, taken) /\ Line(valid, byte, error)
    BY <1>1, <1>2, TickIsEdge
  <2>2. Buffered /\ Dispatched /\ StatusRight /\ \A k \in Memories : CopierFollows(k)
    BY DEF Copies
  <2>3. Buffered'
    BY <1>1, <2>1, <2>2, BufferKept
  <2>4. Dispatched' /\ StatusRight'
    BY <1>1, <2>1, <2>2, DispatchKept, StatusKept
  <2>5. ASSUME NEW k \in Memories PROVE CopierFollows(k)'
    BY <1>1, <2>1, <2>2, CopierKept
  <2>6. ASSUME NEW k \in Memories PROVE \A a \in Addr : Holds(k, Copied(k), a)'
    <3>1. \A a \in Addr : Holds(k, Copied(k), a)
      BY DEF Copies
    <3>. QED  BY <1>1, <2>1, <2>2, <3>1, MemoryKept
  <2>. QED  BY <2>3, <2>4, <2>5, <2>6 DEF Copies
<1>3. CASE HostSend
  <2>1. /\ host_state = "IDLE" /\ host_state' = "SENDING" /\ sent' = sent /\ shadow' = shadow
        /\ UNCHANGED boardVars
    BY <1>3 DEF HostSend
  <2>2. AtRest /\ sent = 0
    BY <1>1, <2>1 DEF Follows, PacketShape
  <2>3. ASSUME NEW k \in Memories, NEW a \in Addr PROVE mem[k][a] = shadow'[k][a]
    <3>1. ~copy_req[k] /\ ~Decided
      BY <2>1, <2>2 DEF AtRest, copy_req, Decided
    <3>2. Copied(k) = 0
      BY <1>1, <3>1 DEF PartsServe, Copied
    <3>3. Holds(k, 0, a)
      BY <3>2 DEF Copies
    <3>. QED  BY <2>1, <3>3, NothingCopied
  <2>. QED  BY <1>1, <2>1, <2>2, <2>3, HostCopies
<1>4. CASE HostReceive
  <2>1. /\ host_state = "WAITING" /\ ResponseComplete /\ host_state' = "IDLE" /\ sent' = 0
        /\ UNCHANGED boardVars
    BY <1>4 DEF HostReceive
  <2>2. AtRest
    BY <1>1, <2>1, AnswerWhole DEF Complete
  <2>3. \A k \in Memories : \A a \in Addr : mem[k][a] = shadow'[k][a]
    BY <1>4, ReceiveHolds
  <2>. QED  BY <1>1, <2>1, <2>2, <2>3, HostCopies
<1>5. CASE UNCHANGED vars
  <2>. USE <1>5 DEF vars, boardVars, hostVars, debugVars, parserVars, bufferVars, copierVars, controlVars
  <2>1. Buffered'
    BY DEF Copies, Buffered, Intact
  <2>2. Dispatched' /\ StatusRight'
    BY DEF Copies, Dispatched, Serving, Intact, MinLength, StatusRight, Decided, ExpectedStatus
  <2>3. ASSUME NEW k \in Memories PROVE CopierFollows(k)'
    BY DEF Copies, CopierFollows, copy_req, copy_write, Fetched, AddrByte
  <2>4. ASSUME NEW k \in Memories, NEW a \in Addr PROVE Holds(k, Copied(k), a)'
    <3>1. Copied(k)' = Copied(k)
      BY DEF Copied, Decided, WriteOf
    <3>2. \A i : AddrOf(i)' = AddrOf(i)
      BY DEF AddrOf, RequestAddr, Address
    <3>3. Holds(k, Copied(k), a)
      BY DEF Copies
    <3>. QED  BY <3>1, <3>2, <3>3 DEF Holds
  <2>. QED  BY <2>1, <2>2, <2>3, <2>4 DEF Copies
<1>. QED  BY <1>2, <1>3, <1>4, <1>5 DEF Next

\* The unit follows its packets into the memories, whatever the session.
LEMMA CopiesHold == Spec => [](session \in Sessions /\ Inv /\ Copies)
<1>1. Init => session \in Sessions /\ Inv /\ Copies
  BY InitHolds, InitCopies DEF Init
<1>2. session \in Sessions /\ Inv /\ Copies /\ [Next]_vars => (session \in Sessions /\ Inv /\ Copies)'
  BY StepKeeps, StepCopies
<1>. QED  BY <1>1, <1>2, PTL DEF Spec

\* Between its answer and its packet only an intact write changes the memories,
\* and only the bytes it names; what is answered is what they hold.
THEOREM WritesAreExact == Spec => []WritesExact
<1>1. ASSUME Inv, Copies PROVE WritesExact
  <2>1. SUFFICES ASSUME NEW k \in Memories, NEW a \in Addr, mem[k][a] # shadow[k][a]
        PROVE  /\ host_state = "WAITING" /\ bad = 0
               /\ pkt[1] = (IF k = "prog" THEN 3 ELSE 5) /\ pkt[3] > 4
               /\ \E i \in BytesFor(a) : mem[k][a] = pkt[i]
    BY DEF WritesExact
  <2>2. TypeOK /\ PartsServe /\ PacketShape /\ Follows /\ Buffered /\ Dispatched
    BY <1>1 DEF Inv, Copies
  <2>3. PICK i \in 8 .. Copied(k) + 7 : AddrOf(i) = a /\ mem[k][a] = pkt[i]
    BY <1>1, <2>1 DEF Copies, Holds
  <2>4. Copied(k) # 0
    BY <2>3
  <2>5. /\ host_state = "WAITING" /\ bad = 0 /\ pkt[1] = WriteOf(k)
        /\ pkt[3] \in Int /\ Copied(k) \in Int /\ pkt[3] - 4 >= Copied(k)
        /\ Len(pkt) = 3 + pkt[3]
    <3>1. CASE copy_state[k] = "WRITE"
      <4>1. copy_write[k] /\ copy_req[k] /\ copy_ptr[k] + 4 < res_len
        BY <1>1, <2>2, <3>1 DEF Copies, CopierFollows, PartsServe
      <4>2. copy_ptr[k] \in Nat
        BY <2>2 DEF TypeOK, CopierTypeOK, Byte
      <4>3. Copied(k) \in {copy_ptr[k], copy_ptr[k] + 1}
        BY <3>1 DEF Copied
      <4>4. /\ host_state = "WAITING" /\ bad = 0 /\ pkt[1] = WriteOf(k)
            /\ res_len = pkt[3] /\ Len(pkt) = 3 + res_len /\ res_len \in Nat
        BY <2>2, <4>1, CopyServed
      <4>. QED  BY <4>1, <4>2, <4>3, <4>4
    <3>2. CASE copy_state[k] # "WRITE"
      <4>1. Decided /\ status_reg = STATUS_OK /\ pkt[1] = WriteOf(k) /\ Copied(k) = pkt[3] - 4
        BY <2>4, <3>2 DEF Copied
      <4>2. host_state = "WAITING"
        BY <2>2, <4>1, PacketServed DEF Decided
      <4>3. bad = 0
        BY <1>1, <4>1, StatusOK DEF Copies, StatusRight
      <4>4. pkt \in Seq(Byte) /\ Len(pkt) >= 3 /\ Len(pkt) = 3 + pkt[3]
        BY <2>2, <4>2 DEF TypeOK, PacketShape
      <4>5. pkt[3] \in Byte
        BY <4>4
      <4>6. pkt[3] \in Int
        BY <4>5 DEF Byte
      <4>. QED  BY <4>1, <4>2, <4>3, <4>4, <4>6
    <3>. QED  BY <3>1, <3>2
  <2>6. pkt[3] > 4 /\ i \in 8 .. Len(pkt)
    <3>. DEFINE n == Copied(k)
    <3>1. i \in 8 .. n + 7 /\ n \in Int /\ pkt[3] \in Int /\ pkt[3] - 4 >= n
      BY <2>3, <2>5
    <3>. HIDE DEF n
    <3>2. pkt[3] > 4 /\ i \in 8 .. 3 + pkt[3]
      BY <3>1
    <3>. QED  BY <2>5, <3>2
  <2>7. i \in BytesFor(a)
    BY <2>3, <2>6 DEF BytesFor, AddrOf
  <2>8. WriteOf(k) = (IF k = "prog" THEN 3 ELSE 5)
    BY DEF WriteOf
  <2>. QED  BY <2>3, <2>5, <2>6, <2>7, <2>8
<1>. QED  BY <1>1, CopiesHold, PTL

-----------------------------------------------------------------------------
\* The answers.  A read of no bytes is answered with the count of the read before
\* it: what follows is of the requests the tool sends (uart_debug.py:197), which
\* have none.
NoEmptyRead ==
  \A s \in Sessions : \A r \in s.requests :
    r.cmd \in {2, 4} /\ Len(r.data) >= 5 => r.data[5] # 0

\* The id that has arrived is kept.
LEMMA IdKept ==
  ASSUME TypeOK, PartsServe, PacketShape, Follows, Identified,
         NEW valid \in BOOLEAN, NEW byte \in Byte, NEW error \in BOOLEAN,
         NEW ready \in BOOLEAN, NEW drained, NEW taken,
         Edge(valid, byte, error, ready, drained, taken), Line(valid, byte, error)
  PROVE  Identified'
<1>1. UNCHANGED <<pkt, bad>> /\ sent \in Nat /\ bad \in Nat /\ Len(pkt) \in Nat
  BY DEF Edge, TypeOK
<1>2. CASE ~valid
  <2>1. res_id' = res_id
    BY <1>2 DEF Edge, DebugTick, ParseTick, ParserTick, Hold
  <2>2. sent' = sent /\ host_state' = host_state
    BY <1>2 DEF Line, Quiet
  <2>. QED  BY <1>1, <2>1, <2>2 DEF Identified
<1>3. CASE valid
  <2>1. /\ host_state = "SENDING" /\ sent' = sent + 1
        /\ error <=> sent + 1 = bad
        /\ ~error => byte = pkt[sent + 1]
    BY <1>3 DEF Line, SendByte
  <2>2. Arriving
    BY <2>1 DEF Follows
  <2>. SUFFICES ASSUME sent' > 1, bad \notin {1, 2} PROVE res_id' = pkt[2]
    BY <1>1 DEF Identified
  <2>3. CASE sent = 1
    <3>1. Intact
      BY <1>1, <2>3 DEF Intact
    <3>2. parse_state = "WAIT_ID"
      BY <2>2, <2>3, <3>1 DEF Arriving, Field
    <3>3. res_id' = byte
      BY <1>3, <3>2 DEF Edge, DebugTick, ParseTick, ParserTick, Receive, res_valid
    <3>. QED  BY <2>1, <2>3, <3>3
  <2>4. CASE sent > 1
    <3>1. parse_state # "WAIT_ID"
      BY <1>1, <2>2, <2>4 DEF Arriving, Field
    <3>2. res_id' = res_id
      BY <3>1 DEF Edge, DebugTick, ParseTick, ParserTick, Receive, Hold
    <3>. QED  BY <2>1, <2>4, <3>2 DEF Identified
  <2>. QED  BY <1>1, <2>1, <2>3, <2>4
<1>. QED  BY <1>2, <1>3

\* The payload takes the byte the copier that is asked has read, or the state of
\* the core, and nothing else.
LEMMA PayloadMoves ==
  ASSUME TypeOK, PartsServe, NEW valid, NEW byte, NEW error, NEW ready, NEW drained, NEW taken,
         Edge(valid, byte, error, ready, drained, taken)
  PROVE  /\ \A k \in Memories : copy_req[k] =>
              payload_data_buf' = IF out_packet_we(k)
                                  THEN [payload_data_buf EXCEPT ![copy_ptr[k]] = data_data[k]]
                                  ELSE payload_data_buf
         /\ dm_state = "CMD_STATE" =>
              payload_data_buf' = [payload_data_buf EXCEPT ![0] = IF halted THEN 1 ELSE 0]
         /\ ~responding => payload_data_buf' = payload_data_buf
<1>1. PayloadWrite(halted)
  BY DEF Edge, DebugTick
<1>2. ASSUME NEW k \in Memories, ~copy_req[k] PROVE ~out_packet_we(k)
  BY <1>2 DEF PartsServe, out_packet_we
<1>3. "prog" \in Memories /\ "data" \in Memories
  BY DEF Memories
<1>4. ASSUME NEW k \in Memories, copy_req[k]
      PROVE  payload_data_buf' = IF out_packet_we(k)
                                 THEN [payload_data_buf EXCEPT ![copy_ptr[k]] = data_data[k]]
                                 ELSE payload_data_buf
  <2>1. dm_state # "CMD_STATE"
    BY <1>4 DEF copy_req
  <2>2. CASE k = "prog"
    <3>1. ~copy_req["data"]
      BY <1>3, <1>4, <2>2 DEF copy_req
    <3>2. ~out_packet_we("data")
      BY <1>2, <1>3, <3>1
    <3>. QED  BY <1>1, <2>1, <2>2, <3>2 DEF PayloadWrite, PayloadTick
  <2>3. CASE k = "data"
    <3>1. ~copy_req["prog"]
      BY <1>3, <1>4, <2>3 DEF copy_req
    <3>2. ~out_packet_we("prog")
      BY <1>2, <1>3, <3>1
    <3>. QED  BY <1>1, <2>1, <2>3, <3>2 DEF PayloadWrite, PayloadTick
  <2>. QED  BY <2>2, <2>3 DEF Memories
<1>5. ASSUME dm_state = "CMD_STATE" \/ ~responding
      PROVE  payload_data_buf' = IF dm_state = "CMD_STATE"
                                 THEN [payload_data_buf EXCEPT ![0] = IF halted THEN 1 ELSE 0]
                                 ELSE payload_data_buf
  <2>1. ~copy_req["prog"] /\ ~copy_req["data"]
    BY <1>3, <1>5 DEF copy_req, responding
  <2>2. ~out_packet_we("prog") /\ ~out_packet_we("data")
    BY <1>2, <1>3, <2>1
  <2>. QED  BY <1>1, <2>2 DEF PayloadWrite, PayloadTick
<1>6. dm_state = "CMD_STATE" => responding
  BY DEF responding
<1>. QED  BY <1>4, <1>5, <1>6

\* A read brings the bytes the host knows, one by one.
LEMMA ReadKept ==
  ASSUME Inv, Copies,
         NEW valid \in BOOLEAN, NEW byte \in Byte, NEW error \in BOOLEAN,
         NEW ready \in BOOLEAN, NEW drained, NEW taken \in BOOLEAN,
         Edge(valid, byte, error, ready, drained, taken), Line(valid, byte, error),
         NEW k \in Memories, Reads(k)
  PROVE  Reads(k)'
<1>0. /\ TypeOK /\ PartsServe /\ PacketShape /\ Follows /\ Buffered /\ Dispatched
      /\ CopierFollows(k)
  BY DEF Inv, Copies
<1>1. /\ UNCHANGED <<pkt, shadow>>
      /\ copy_state[k] \in CopierStates /\ copy_ptr[k] \in Byte /\ copy_ptr[k] \in Nat
      /\ payload_data_buf \in [Byte -> Byte] /\ read_len[k] \in Byte /\ data_ack[k] \in BOOLEAN
  <2>1. CopierTypeOK /\ BufferTypeOK /\ data_ack \in [Memories -> BOOLEAN]
    BY <1>0 DEF TypeOK
  <2>2. UNCHANGED <<pkt, shadow>>
    BY DEF Edge
  <2>3. copy_state[k] \in CopierStates /\ copy_ptr[k] \in Byte /\ read_len[k] \in Byte
    BY <2>1 DEF CopierTypeOK
  <2>4. payload_data_buf \in [Byte -> Byte] /\ data_ack[k] \in BOOLEAN
    BY <2>1 DEF BufferTypeOK
  <2>5. copy_ptr[k] \in Nat
    BY <2>3, ByteAssumption DEF Byte
  <2>. QED  BY <2>2, <2>3, <2>4, <2>5
<1>2. /\ copy_state'[k] = copy_next(k, copy_req[k], copy_write[k])
      /\ copy_state[k] \in {"READ", "WRITE"} /\ data_ack[k] => copy_ptr'[k] = Increment(copy_ptr[k])
      /\ copy_state[k] # "IDLE" /\ ~(copy_state[k] \in {"READ", "WRITE"} /\ data_ack[k]) =>
           copy_ptr'[k] = copy_ptr[k]
      /\ data_ack'[k] = Accepts(k, taken)
      /\ data_data'[k] = IF Accepts(k, taken) /\ ~data_wr_en(k)
                         THEN mem[k][data_addr(k)] ELSE data_data[k]
  BY <1>0, CopierMoves
<1>3. \A i : AddrOf(i)' = AddrOf(i)
  BY <1>1 DEF AddrOf, RequestAddr, Address
<1>. SUFFICES ASSUME copy_state'[k] = "READ"
     PROVE  /\ data_ack'[k] => data_data'[k] = shadow[k][AddrOf(copy_ptr'[k] + 8)]
            /\ \A i \in 0 .. copy_ptr'[k] - 1 : payload_data_buf'[i] = shadow[k][AddrOf(i + 8)]
  BY <1>1, <1>3 DEF Reads
<1>4. copy_state[k] \in {"LEN", "READ"} /\ copy_req[k]
  BY <1>0, <1>1, <1>2 DEF copy_next, CopierStates, PartsServe
<1>5. CASE copy_state[k] = "LEN"
  <2>1. copy_ptr'[k] = 0 /\ ~data_ack'[k]
    BY <1>0, <1>2, <1>4, <1>5 DEF CopierFollows, Accepts, data_req
  <2>. QED  BY <2>1
<1>6. CASE copy_state[k] = "READ"
  <2>1. Fetched(k, 4) /\ copy_ptr[k] < read_len[k]
    BY <1>0, <1>4, <1>6 DEF CopierFollows
  <2>2. payload_data_buf' = IF data_ack[k]
                            THEN [payload_data_buf EXCEPT ![copy_ptr[k]] = data_data[k]]
                            ELSE payload_data_buf
    BY <1>0, <1>4, <1>6, PayloadMoves DEF out_packet_we
  <2>3. /\ data_ack[k] => data_data[k] = shadow[k][AddrOf(copy_ptr[k] + 8)]
        /\ \A i \in 0 .. copy_ptr[k] - 1 : payload_data_buf[i] = shadow[k][AddrOf(i + 8)]
    BY <1>6 DEF Reads
  <2>4. CASE data_ack[k]
    <3>1. copy_ptr'[k] = copy_ptr[k] + 1 /\ ~data_ack'[k]
      BY <1>1, <1>2, <1>6, <2>1, <2>4, IncrementBelow DEF Accepts, data_req
    <3>2. ASSUME NEW i \in 0 .. copy_ptr[k] PROVE payload_data_buf'[i] = shadow[k][AddrOf(i + 8)]
      <4>1. i = copy_ptr[k] \/ i \in 0 .. copy_ptr[k] - 1
        BY <1>1
      <4>. QED  BY <1>1, <2>2, <2>3, <2>4, <4>1
    <3>. QED  BY <1>1, <3>1, <3>2
  <2>5. CASE ~data_ack[k]
    <3>1. copy_ptr'[k] = copy_ptr[k] /\ payload_data_buf' = payload_data_buf
      BY <1>2, <1>6, <2>2, <2>5
    <3>2. ASSUME data_ack'[k] PROVE data_data'[k] = shadow[k][AddrOf(copy_ptr[k] + 8)]
      <4>1. data_data'[k] = mem[k][data_addr(k)]
        BY <1>2, <1>6, <3>2 DEF data_wr_en
      <4>2. data_addr(k) = AddrOf(copy_ptr[k] + 8)
        BY <1>0, <1>1, <2>1, CopierAddress DEF data_addr
      <4>3. data_addr(k) \in Addr
        <5>1. start_addr[k] \in [0 .. 3 -> Byte]
          BY <1>0 DEF TypeOK, CopierTypeOK
        <5>. QED  BY <1>1, <5>1, AddressTyped DEF data_addr
      <4>4. Copied(k) = 0
        <5>1. ~Decided
          BY <1>4 DEF Decided, copy_req
        <5>. QED  BY <1>6, <5>1 DEF Copied
      <4>5. Holds(k, 0, data_addr(k))
        BY <4>3, <4>4 DEF Copies
      <4>. QED  BY <4>1, <4>2, <4>5, NothingCopied
    <3>. QED  BY <2>3, <3>1, <3>2
  <2>. QED  BY <1>1, <2>4, <2>5
<1>. QED  BY <1>4, <1>5, <1>6

-----------------------------------------------------------------------------
\* The registers of an answer are written when its service is done, and then stay.
LEMMA HeaderKept ==
  ASSUME Inv, Copies, Identified, NotEmpty, HeaderRight, \A k \in Memories : Reads(k),
         NEW valid \in BOOLEAN, NEW byte \in Byte, NEW error \in BOOLEAN,
         NEW ready \in BOOLEAN, NEW drained, NEW taken \in BOOLEAN,
         Edge(valid, byte, error, ready, drained, taken), Line(valid, byte, error)
  PROVE  HeaderRight'
<1>1. /\ TypeOK /\ PartsServe /\ PacketShape /\ Follows /\ Known /\ Buffered /\ Dispatched
      /\ \A k \in Memories : CopierFollows(k)
  BY DEF Inv, Copies
<1>2. UNCHANGED <<pkt, bad, shadow, host_halted>> /\ HeaderTick(responding, out_status, res_id, out_len)
  BY DEF Edge, DebugTick
<1>3. \A i : AddrOf(i)' = AddrOf(i)
  BY <1>2 DEF AddrOf, RequestAddr, Address
<1>4. CASE Decided
  <2>1. Decided' /\ status_reg' = status_reg
    BY <1>1, <1>4, AnswerDecided
  <2>2. ~responding
    BY <1>4 DEF Decided, responding
  <2>3. UNCHANGED <<id_reg, len_reg, payload_data_buf>>
    BY <1>1, <1>2, <2>2, PayloadMoves DEF HeaderTick
  <2>. QED  BY <1>2, <1>3, <1>4, <2>1, <2>3 DEF HeaderRight
<1>5. CASE ~Decided /\ Decided'
  <2>1. responding /\ dm_state' = "WAIT_SEND" /\ (status_reg' = STATUS_OK => Serving)
    BY <1>1, <1>5, AnswerDecided
  <2>2. status_reg' = out_status /\ id_reg' = res_id /\ len_reg' = out_len
    BY <1>2, <2>1 DEF HeaderTick
  <2>3. /\ host_state = "WAITING" /\ sent = Len(pkt) /\ Len(pkt) >= 3
        /\ Serving => dm_state = Service[pkt[1] + 1] /\ pkt[1] \in 0 .. 7 /\ res_len = pkt[3]
    <3>1. dm_state \notin {"WAIT_INPUT", "WAIT_TIMEOUT"}
      BY <2>1 DEF responding
    <3>2. host_state = "WAITING" /\ Held /\ sent = Len(pkt)
      BY <1>1, <3>1, PacketServed
    <3>3. Serving => Intact /\ dm_state = Service[pkt[1] + 1] /\ pkt[1] \in 0 .. 7
      BY <1>1, <3>1, PacketServed
    <3>. QED  BY <1>1, <3>2, <3>3 DEF PacketShape, Held, Buffered
  <2>4. bad \notin {1, 2} => id_reg' = pkt[2]
    <3>1. sent > 1
      BY <2>3
    <3>. QED  BY <2>2, <2>3, <3>1 DEF Identified
  <2>5. status_reg' # STATUS_OK => len_reg' = 0
    <3>1. status_reg' # STATUS_OK => ~Serving
      BY <1>1, <2>1, <2>2, ServedRight
    <3>2. ~Serving => out_len = 0
      <4>1. ~Serving => dm_state \notin {Service[3], Service[5], Service[8]}
        BY DEF Serving
      <4>. QED  BY <4>1 DEF Service, out_len
    <3>. QED  BY <2>2, <3>1, <3>2
  <2>6. ASSUME status_reg' = STATUS_OK, pkt[1] \in {2, 4}
        PROVE  /\ len_reg' = pkt[8]
               /\ \A i \in 0 .. len_reg' - 1 :
                    payload_data_buf'[i] = shadow[MemoryOf(pkt[1])][AddrOf(i + 8)]
    <3>. DEFINE k == MemoryOf(pkt[1])
    <3>1. k \in Memories /\ pkt[1] = WriteOf(k) - 1
      BY <2>6 DEF MemoryOf, Memories, WriteOf
    <3>. HIDE DEF k
    <3>2. copy_req[k] /\ ~copy_write[k]
      <4>1. pkt[1] # WriteOf(k)
        BY <3>1 DEF WriteOf
      <4>. QED  BY <1>1, <2>1, <2>6, <3>1, <4>1, MemoryServed
    <3>3. CopyReady(k) /\ len_reg' = read_len[k]
      <4>1. dm_state # "WAIT_SEND"
        BY <2>1 DEF responding
      <4>. QED  BY <1>1, <2>1, <3>1, <3>2, <4>1, CopyGoesOn
    <3>4. CopierFollows(k) /\ Reads(k)
      BY <1>1, <3>1
    <3>5. /\ copy_ptr[k] \in Nat /\ copy_ptr[k] \in Byte /\ read_len[k] \in Byte
          /\ payload_data_buf \in [Byte -> Byte] /\ copy_state[k] \in CopierStates
      <4>1. copy_ptr[k] \in Byte /\ read_len[k] \in Byte /\ copy_state[k] \in CopierStates
        BY <1>1, <3>1 DEF TypeOK, CopierTypeOK
      <4>2. payload_data_buf \in [Byte -> Byte]
        BY <1>1 DEF TypeOK, BufferTypeOK
      <4>3. copy_ptr[k] \in Nat
        BY <4>1, ByteAssumption DEF Byte
      <4>. QED  BY <4>1, <4>2, <4>3
    <3>6. pkt[8] # 0
      <4>1. res_len >= 5 /\ res_len = pkt[3]
        BY <1>1, <3>1, <3>2, CopyServed
      <4>. QED  BY <2>3, <2>6, <4>1 DEF NotEmpty
    <3>7. copy_state[k] = "READ" /\ data_ack[k] /\ LastRead(k)
      <4>1. copy_state[k] # "WRITE"
        BY <3>2, <3>4 DEF CopierFollows
      <4>2. copy_state[k] = "LEN" => res_data # 0
        BY <3>2, <3>4, <3>6 DEF CopierFollows
      <4>. QED  BY <3>2, <3>3, <3>5, <4>1, <4>2 DEF CopyReady, copy_ready, copy_next, CopierStates
    <3>8. read_len[k] = pkt[8] /\ copy_ptr[k] < read_len[k]
      BY <3>2, <3>4, <3>7 DEF CopierFollows
    <3>9. read_len[k] = copy_ptr[k] + 1
      BY <3>5, <3>7, <3>8, IncrementBelow DEF LastRead
    <3>10. /\ data_data[k] = shadow[k][AddrOf(copy_ptr[k] + 8)]
           /\ \A i \in 0 .. copy_ptr[k] - 1 : payload_data_buf[i] = shadow[k][AddrOf(i + 8)]
      BY <3>4, <3>7 DEF Reads
    <3>11. payload_data_buf' = [payload_data_buf EXCEPT ![copy_ptr[k]] = data_data[k]]
      BY <1>1, <3>1, <3>2, <3>7, PayloadMoves DEF out_packet_we
    <3>12. ASSUME NEW i \in 0 .. len_reg' - 1 PROVE payload_data_buf'[i] = shadow[k][AddrOf(i + 8)]
      <4>1. i = copy_ptr[k] \/ (i \in 0 .. copy_ptr[k] - 1 /\ i # copy_ptr[k])
        BY <3>3, <3>5, <3>9
      <4>. QED  BY <3>5, <3>10, <3>11, <4>1
    <3>. QED  BY <3>3, <3>8, <3>12 DEF k
  <2>7. ASSUME status_reg' = STATUS_OK, pkt[1] = 7
        PROVE  len_reg' = 1 /\ payload_data_buf'[0] = IF host_halted THEN 1 ELSE 0
    <3>1. dm_state = "CMD_STATE"
      <4>1. dm_state = Service[8]
        BY <2>1, <2>3, <2>7
      <4>. QED  BY <4>1 DEF Service
    <3>2. halted = host_halted
      BY <1>1, <1>5, <3>1 DEF Known, Settled
    <3>3. payload_data_buf' = [payload_data_buf EXCEPT ![0] = IF halted THEN 1 ELSE 0]
      BY <1>1, <3>1, PayloadMoves
    <3>4. payload_data_buf \in [Byte -> Byte] /\ 0 \in Byte
      BY <1>1, BytesTyped DEF TypeOK, BufferTypeOK
    <3>5. out_len = 1
      BY <3>1 DEF out_len
    <3>. QED  BY <2>2, <3>2, <3>3, <3>4, <3>5
  <2>8. ASSUME status_reg' = STATUS_OK, pkt[1] \notin {2, 4, 7}
        PROVE  len_reg' = 0
    <3>1. pkt[1] \in {0, 1, 3, 5, 6} /\ dm_state = Service[pkt[1] + 1]
      BY <2>1, <2>3, <2>8
    <3>2. dm_state \in {Service[1], Service[2], Service[4], Service[6], Service[7]}
      BY <3>1
    <3>3. out_len = 0
      BY <3>2 DEF Service, out_len
    <3>. QED  BY <2>2, <3>3
  <2>. QED  BY <1>2, <1>3, <2>4, <2>5, <2>6, <2>7, <2>8 DEF HeaderRight
<1>. QED  BY <1>4, <1>5 DEF HeaderRight

\* The host has the bytes of the registers, in their order, as many as have passed.
LEMMA SentKept ==
  ASSUME TypeOK, PartsServe, PacketShape, Follows, Sent,
         NEW valid \in BOOLEAN, NEW byte \in Byte, NEW error \in BOOLEAN,
         NEW ready \in BOOLEAN, NEW drained, NEW taken,
         Edge(valid, byte, error, ready, drained, taken), Line(valid, byte, error)
  PROVE  Sent'
<1>. DEFINE rdy == send_ready(ready)
<1>1. /\ resp \in Seq(Byte) /\ Len(resp) \in Nat /\ send_state \in SenderStates
      /\ status_reg \in Byte /\ id_reg \in Byte /\ len_reg \in Byte /\ len_reg \in Nat
      /\ send_ptr \in Byte /\ send_ptr \in Nat /\ payload_data_buf \in [Byte -> Byte]
  BY DEF TypeOK, BufferTypeOK, Byte
<1>2. HeaderTick(responding, out_status, res_id, out_len)
  BY DEF Edge, DebugTick
<1>3. Decided => UNCHANGED <<status_reg, id_reg, len_reg, payload_data_buf>>
  <2>1. Decided => ~responding
    BY DEF Decided, responding
  <2>. QED  BY <1>2, <2>1, PayloadMoves DEF HeaderTick
<1>4. Decided => Decided'
  BY AnswerDecided
<1>5. Decided => \A i : AnswerByte(i)' = AnswerByte(i)
  BY <1>3 DEF AnswerByte
<1>6. CASE Decided /\ dm_state = "WAIT_SEND"
  <2>1. Held
    BY <1>6, PacketServed
  <2>2. Answering /\ \A i \in 1 .. Len(resp) : resp[i] = AnswerByte(i)
    BY <1>6, <2>1 DEF Held, Sent
  <2>3. dm_state' = IF send_ack(rdy) THEN "WAIT_INPUT" ELSE "WAIT_SEND"
    BY <1>6 DEF Edge, DebugTick, dm_next, responding
  <2>4. resp' = IF send_valid /\ rdy THEN Append(resp, send_data) ELSE resp
    BY DEF Edge, UartTick, byte_passes, send_ready
  <2>. HIDE DEF rdy
  <2>5. CASE ~(send_valid /\ rdy)
    <3>1. ~send_ack(rdy)
      BY <2>5 DEF send_ack
    <3>2. resp' = resp /\ dm_state' = "WAIT_SEND"
      BY <2>3, <2>4, <2>5, <3>1
    <3>. QED  BY <1>5, <1>6, <2>2, <3>2 DEF Sent
  <2>6. CASE send_valid /\ rdy
    <3>1. /\ send_data \in Byte /\ send_data = AnswerByte(Len(resp) + 1)
          /\ AfterByte = "IDLE" => Len(resp) + 1 = 3 + len_reg
      <4>1. CASE send_state = "SEND_STATUS"
        <5>1. Len(resp) + 1 = 1 /\ AfterByte = "SEND_ID" /\ send_data = status_reg
          BY <2>2, <4>1 DEF Answering, AfterByte, send_data
        <5>. QED  BY <1>1, <5>1 DEF AnswerByte
      <4>2. CASE send_state = "SEND_ID"
        <5>1. Len(resp) = 1
          BY <2>2, <4>2 DEF Answering
        <5>2. AfterByte = "SEND_LEN" /\ send_data = id_reg
          BY <4>2 DEF AfterByte, send_data
        <5>. QED  BY <1>1, <5>1, <5>2 DEF AnswerByte
      <4>3. CASE send_state = "SEND_LEN"
        <5>1. Len(resp) = 2
          BY <2>2, <4>3 DEF Answering
        <5>2. send_data = len_reg /\ (AfterByte = "IDLE" => len_reg = 0)
          BY <4>3 DEF AfterByte, send_data
        <5>. QED  BY <1>1, <5>1, <5>2 DEF AnswerByte
      <4>4. CASE send_state = "SEND_PAYLOAD"
        <5>1. Len(resp) = 3 + send_ptr /\ send_ptr < len_reg /\ send_data = payload_data_buf[send_ptr]
          BY <2>2, <4>4 DEF Answering, send_data
        <5>2. next_send_ptr = send_ptr + 1
          BY <1>1, <5>1, IncrementBelow DEF next_send_ptr
        <5>3. AfterByte = "IDLE" => send_ptr + 1 = len_reg
          BY <4>4, <5>2 DEF AfterByte
        <5>4. AnswerByte(Len(resp) + 1) = payload_data_buf[send_ptr]
          <6>1. Len(resp) + 1 \notin {1, 2, 3} /\ (Len(resp) + 1) - 4 = send_ptr
            BY <1>1, <5>1
          <6>. QED  BY <6>1 DEF AnswerByte
        <5>. QED  BY <1>1, <5>1, <5>3, <5>4
      <4>. QED  BY <1>1, <2>6, <4>1, <4>2, <4>3, <4>4 DEF SenderStates, send_valid
    <3>2. /\ Len(resp') = Len(resp) + 1
          /\ \A i \in 1 .. Len(resp) : resp'[i] = resp[i]
          /\ resp'[Len(resp) + 1] = send_data
      BY <1>1, <2>4, <2>6, <3>1, AppendByte
    <3>3. ASSUME NEW i \in 1 .. Len(resp') PROVE resp'[i] = AnswerByte(i)
      <4>1. i \in 1 .. Len(resp) \/ i = Len(resp) + 1
        BY <1>1, <3>2
      <4>. QED  BY <2>2, <3>1, <3>2, <4>1
    <3>4. dm_state' = "WAIT_INPUT" => Len(resp') = 3 + len_reg
      BY <2>3, <3>1, <3>2 DEF send_ack
    <3>. QED  BY <1>3, <1>5, <1>6, <3>3, <3>4 DEF Sent
  <2>. QED  BY <2>5, <2>6
<1>7. CASE Decided /\ dm_state # "WAIT_SEND"
  <2>1. resp' = resp /\ dm_state = "WAIT_INPUT"
    BY <1>7, SilentEdge DEF Decided
  <2>2. Sent'
    BY <1>3, <1>5, <1>7, <2>1 DEF Sent
  <2>. QED  BY <2>2
<1>8. CASE ~Decided /\ Decided'
  <2>1. responding /\ dm_state' = "WAIT_SEND"
    BY <1>8, AnswerDecided
  <2>2. Held
    BY <2>1, PacketServed DEF responding
  <2>3. send_state = "IDLE" /\ resp' = resp
    BY <2>1, SilentEdge DEF responding
  <2>4. resp' = <<>>
    BY <2>2, <2>3 DEF Held, Answering
  <2>5. 1 .. Len(resp') = {}
    BY <2>4
  <2>. QED  BY <2>1, <2>5 DEF Sent
<1>9. CASE ~Decided'
  BY <1>9 DEF Sent
<1>. QED  BY <1>6, <1>7, <1>8, <1>9

-----------------------------------------------------------------------------
\* A host that begins or ends with a unit at rest has no answer under way.
LEMMA HostAnswers ==
  ASSUME PartsServe, AtRest, UNCHANGED boardVars, host_state' # "WAITING"
  PROVE  HeaderRight' /\ Sent' /\ \A k \in Memories : Reads(k)'
<1>1. UNCHANGED <<dm_state, copy_state>>
  BY DEF boardVars, debugVars, copierVars, controlVars
<1>2. ~Decided'
  BY <1>1 DEF AtRest, Decided
<1>3. ASSUME NEW k \in Memories PROVE Reads(k)'
  <2>1. ~copy_req[k]
    BY DEF AtRest, copy_req
  <2>2. copy_state'[k] = "IDLE"
    BY <1>1, <2>1 DEF PartsServe
  <2>. QED  BY <2>2 DEF Reads
<1>. QED  BY <1>2, <1>3 DEF HeaderRight, Sent

\* No request of the tool is a read of nothing.
LEMMA RequestReads ==
  ASSUME NoEmptyRead, TypeOK, session \in Sessions, HostSend
  PROVE  NotEmpty'
<1>1. PICK r \in session.requests : pkt' = Packet(r)
  BY DEF HostSend
<1>2. r \in [cmd : Byte, data : Seq(Byte)] /\ Len(r.data) \in Byte
  BY SessionAssumption
<1>3. next_id \in Byte
  BY LineAssumption, ByteAssumption DEF TypeOK, Byte
<1>. DEFINE head == <<r.cmd, next_id, Len(r.data)>>
<1>4. Len(head) = 3 /\ head[1] = r.cmd /\ head[3] = Len(r.data)
  OBVIOUS
<1>5. head \in Seq(Byte) /\ r.data \in Seq(Byte) /\ Len(r.data) \in Nat
  BY <1>2, <1>3 DEF Byte
<1>. HIDE DEF head
<1>6. \A i \in 1 .. 3 + Len(r.data) : (head \o r.data)[i] = IF i <= 3 THEN head[i] ELSE r.data[i - 3]
  <2>1. \A i \in 1 .. Len(head) + Len(r.data) :
          (head \o r.data)[i] = IF i <= Len(head) THEN head[i] ELSE r.data[i - Len(head)]
    BY <1>5, ConcatProperties
  <2>. QED  BY <1>4, <2>1
<1>7. pkt' = head \o r.data
  BY <1>1 DEF Packet, head
<1>8. pkt'[1] = r.cmd /\ pkt'[3] = Len(r.data)
  <2>1. 1 \in 1 .. 3 + Len(r.data) /\ 3 \in 1 .. 3 + Len(r.data)
    BY <1>5
  <2>2. \A i \in 1 .. 3 + Len(r.data) : i <= 3 => pkt'[i] = head[i]
    BY <1>6, <1>7
  <2>. QED  BY <1>4, <2>1, <2>2
<1>9. Len(r.data) >= 5 => pkt'[8] = r.data[5]
  <2>1. Len(r.data) >= 5 => 8 \in 1 .. 3 + Len(r.data) /\ ~(8 <= 3) /\ 8 - 3 = 5
    BY <1>5
  <2>. QED  BY <1>6, <1>7, <2>1
<1>10. r.cmd \in {2, 4} /\ Len(r.data) >= 5 => r.data[5] # 0
  BY DEF NoEmptyRead
<1>. QED  BY <1>8, <1>9, <1>10 DEF NotEmpty

\* Answers is kept by every step.
LEMMA StepAnswers ==
  ASSUME NoEmptyRead
  PROVE  session \in Sessions /\ Inv /\ Copies /\ Answers /\ [Next]_vars => Answers'
<1>. SUFFICES ASSUME session \in Sessions, Inv, Copies, Answers, [Next]_vars PROVE Answers'
  OBVIOUS
<1>1. TypeOK /\ PartsServe /\ PacketShape /\ Follows
  BY DEF Inv
<1>2. Identified /\ NotEmpty /\ HeaderRight /\ Sent /\ \A k \in Memories : Reads(k)
  BY DEF Answers
<1>3. CASE Tick
  <2>1. PICK valid, error, ready, drained, taken \in BOOLEAN, byte \in Byte :
          Edge(valid, byte, error, ready, drained, taken) /\ Line(valid, byte, error)
    BY <1>1, <1>3, TickIsEdge
  <2>2. Identified'
    BY <1>1, <1>2, <2>1, IdKept
  <2>3. NotEmpty'
    <3>1. UNCHANGED <<pkt, bad>>
      BY <2>1 DEF Edge
    <3>2. host_state' = "IDLE" <=> host_state = "IDLE"
      BY <1>1, <2>1, <3>1, LineTyped
    <3>. QED  BY <1>2, <3>1, <3>2 DEF NotEmpty
  <2>4. HeaderRight'
    BY <1>2, <2>1, HeaderKept
  <2>5. Sent'
    BY <1>1, <1>2, <2>1, SentKept
  <2>6. ASSUME NEW k \in Memories PROVE Reads(k)'
    <3>1. Reads(k)
      BY <1>2
    <3>. QED  BY <2>1, <3>1, ReadKept
  <2>. QED  BY <2>2, <2>3, <2>4, <2>5, <2>6 DEF Answers
<1>4. CASE HostSend
  <2>1. host_state = "IDLE" /\ host_state' = "SENDING" /\ sent' = sent /\ UNCHANGED boardVars
    BY <1>4 DEF HostSend
  <2>2. AtRest /\ sent = 0
    BY <1>1, <2>1 DEF Follows, PacketShape
  <2>3. Identified'
    BY <2>1, <2>2 DEF Identified
  <2>4. NotEmpty'
    BY <1>1, <1>4, RequestReads
  <2>. QED  BY <1>1, <2>1, <2>2, <2>3, <2>4, HostAnswers DEF Answers
<1>5. CASE HostReceive
  <2>1. host_state = "WAITING" /\ ResponseComplete /\ host_state' = "IDLE" /\ UNCHANGED boardVars
    BY <1>5 DEF HostReceive
  <2>2. AtRest
    BY <1>1, <2>1, AnswerWhole DEF Complete
  <2>3. Identified' /\ NotEmpty'
    BY <2>1 DEF Identified, NotEmpty
  <2>. QED  BY <1>1, <2>1, <2>2, <2>3, HostAnswers DEF Answers
<1>6. CASE UNCHANGED vars
  <2>. USE <1>6 DEF vars, boardVars, hostVars, debugVars, parserVars, bufferVars, copierVars, controlVars
  <2>1. Identified' /\ NotEmpty'
    BY <1>2 DEF Identified, NotEmpty
  <2>2. \A i : AddrOf(i)' = AddrOf(i)
    BY DEF AddrOf, RequestAddr, Address
  <2>3. HeaderRight'
    BY <1>2, <2>2 DEF HeaderRight, Decided
  <2>4. Sent'
    BY <1>2 DEF Sent, AnswerByte, Decided
  <2>5. ASSUME NEW k \in Memories PROVE Reads(k)'
    BY <1>2, <2>2 DEF Reads
  <2>. QED  BY <2>1, <2>3, <2>4, <2>5 DEF Answers
<1>. QED  BY <1>3, <1>4, <1>5, <1>6 DEF Next

\* A complete answer is the right one.
LEMMA AnswerRight ==
  ASSUME Inv, Copies, Answers
  PROVE  ResponseRight
<1>. SUFFICES ASSUME host_state = "WAITING", ResponseComplete
     PROVE  /\ resp[1] = ExpectedStatus
            /\ bad \notin {1, 2} => resp[2] = pkt[2]
            /\ SubSeq(resp, 4, Len(resp)) = IF ExpectedStatus = STATUS_OK THEN ExpectedPayload ELSE <<>>
  BY DEF ResponseRight
<1>1. TypeOK /\ Follows /\ PacketShape
  BY DEF Inv
<1>2. Complete
  BY <1>1, AnswerWhole
<1>3. Decided /\ dm_state = "WAIT_INPUT" /\ resp[1] = status_reg
  BY <1>2 DEF Complete, AtRest, Decided
<1>4. status_reg = ExpectedStatus
  BY <1>3 DEF Copies, StatusRight
<1>5. /\ resp \in Seq(Byte) /\ len_reg \in Nat /\ Len(resp) = 3 + len_reg
      /\ \A i \in 1 .. Len(resp) : resp[i] = AnswerByte(i)
  BY <1>1, <1>3 DEF TypeOK, BufferTypeOK, Byte, Answers, Sent
<1>6. bad \notin {1, 2} => resp[2] = pkt[2]
  <2>1. 2 \in 1 .. Len(resp)
    BY <1>5
  <2>2. resp[2] = id_reg
    BY <1>5, <2>1 DEF AnswerByte
  <2>. QED  BY <1>3, <2>2 DEF Answers, HeaderRight
<1>. DEFINE payload == SubSeq(resp, 4, Len(resp))
<1>7. /\ payload \in Seq(Byte) /\ Len(payload) = len_reg
      /\ \A i \in 1 .. len_reg : payload[i] = payload_data_buf[i - 1]
  <2>1. \A i \in 4 .. Len(resp) : resp[i] \in Byte
    BY <1>5
  <2>2. /\ payload \in Seq(Byte)
        /\ Len(payload) = IF 4 <= Len(resp) THEN Len(resp) - 4 + 1 ELSE 0
        /\ \A i \in 1 .. Len(resp) - 4 + 1 : payload[i] = resp[4 + i - 1]
    BY <1>5, <2>1, SubSeqProperties
  <2>. HIDE DEF payload
  <2>3. Len(payload) = len_reg
    BY <1>5, <2>2
  <2>4. ASSUME NEW i \in 1 .. len_reg PROVE payload[i] = payload_data_buf[i - 1]
    <3>1. i \in 1 .. Len(resp) - 4 + 1 /\ 4 + i - 1 \in 1 .. Len(resp)
      BY <1>5
    <3>2. payload[i] = AnswerByte(4 + i - 1)
      BY <1>5, <2>2, <3>1
    <3>3. 4 + i - 1 \notin {1, 2, 3} /\ (4 + i - 1) - 4 = i - 1
      BY <1>5
    <3>. QED  BY <3>2, <3>3 DEF AnswerByte
  <2>. QED  BY <2>2, <2>3, <2>4
<1>8. len_reg = 0 => payload = <<>>
  BY <1>7
<1>. HIDE DEF payload
<1>9. CASE ExpectedStatus # STATUS_OK
  <2>1. len_reg = 0
    BY <1>3, <1>4, <1>9 DEF Answers, HeaderRight
  <2>. QED  BY <1>3, <1>4, <1>6, <1>8, <1>9, <2>1 DEF payload
<1>10. CASE ExpectedStatus = STATUS_OK
  <2>1. CASE pkt[1] \in {2, 4}
    <3>1. /\ len_reg = pkt[8]
          /\ \A i \in 0 .. len_reg - 1 :
               payload_data_buf[i] = shadow[MemoryOf(pkt[1])][AddrOf(i + 8)]
      BY <1>3, <1>4, <1>10, <2>1 DEF Answers, HeaderRight
    <3>2. ASSUME NEW i \in 1 .. len_reg
          PROVE  payload[i] = shadow[MemoryOf(pkt[1])][(RequestAddr + i - 1) % MemSize]
      <4>1. i - 1 \in 0 .. len_reg - 1
        BY <1>5
      <4>2. payload_data_buf[i - 1] = shadow[MemoryOf(pkt[1])][AddrOf((i - 1) + 8)]
        BY <3>1, <4>1
      <4>3. AddrOf((i - 1) + 8) = (RequestAddr + i - 1) % MemSize
        <5>1. RequestAddr \in Int
          <6>. DEFINE x == ((pkt[4] * ByteSize + pkt[5]) * ByteSize + pkt[6]) * ByteSize + pkt[7] + 0
          <6>1. pkt[4] \in Int /\ pkt[5] \in Int /\ pkt[6] \in Int /\ pkt[7] \in Int /\ ByteSize \in Int
            <7>1. pkt \in Seq(Byte) /\ Len(pkt) = 3 + pkt[3] /\ Len(pkt) \in Nat
              BY <1>1 DEF TypeOK, PacketShape
            <7>2. ~(pkt[3] < 5) /\ pkt[3] \in Int
              <8>1. 3 \in 1 .. Len(pkt)
                BY <1>1, <7>1 DEF PacketShape
              <8>2. pkt[3] \in Int
                BY <7>1, <8>1, ByteAssumption DEF Byte
              <8>. QED  BY <1>10, <2>1, <8>2, StatusOK
            <7>3. 4 \in 1 .. Len(pkt) /\ 5 \in 1 .. Len(pkt) /\ 6 \in 1 .. Len(pkt) /\ 7 \in 1 .. Len(pkt)
              BY <7>1, <7>2
            <7>4. pkt[4] \in Byte /\ pkt[5] \in Byte /\ pkt[6] \in Byte /\ pkt[7] \in Byte
              BY <7>1, <7>3
            <7>. QED  BY <7>4, ByteAssumption DEF Byte
          <6>2. x \in Int
            BY <6>1
          <6>3. RequestAddr = x % MemSize
            BY DEF RequestAddr, Address
          <6>. HIDE DEF x
          <6>. QED  BY <6>2, <6>3, MemAssumption
        <5>2. RequestAddr + ((i - 1) + 8) - 8 = RequestAddr + i - 1
          BY <5>1
        <5>. QED  BY <5>2 DEF AddrOf
      <4>. QED  BY <1>7, <4>2, <4>3
    <3>3. payload = [i \in 1 .. pkt[8] |-> shadow[MemoryOf(pkt[1])][(RequestAddr + i - 1) % MemSize]]
      <4>1. payload = [i \in 1 .. len_reg |-> payload[i]]
        BY <1>7
      <4>. QED  BY <3>1, <3>2, <4>1
    <3>4. ExpectedPayload = [i \in 1 .. pkt[8] |-> shadow[MemoryOf(pkt[1])][(RequestAddr + i - 1) % MemSize]]
      BY <2>1 DEF ExpectedPayload
    <3>. QED  BY <1>3, <1>4, <1>6, <1>10, <3>3, <3>4 DEF payload
  <2>2. CASE pkt[1] = 7
    <3>1. len_reg = 1 /\ payload_data_buf[0] = IF host_halted THEN 1 ELSE 0
      BY <1>3, <1>4, <1>10, <2>2 DEF Answers, HeaderRight
    <3>2. payload = <<IF host_halted THEN 1 ELSE 0>>
      <4>1. Len(payload) = 1 /\ payload[1] = IF host_halted THEN 1 ELSE 0
        BY <1>7, <3>1
      <4>. QED  BY <1>7, <4>1
    <3>3. ExpectedPayload = <<IF host_halted THEN 1 ELSE 0>>
      BY <2>2 DEF ExpectedPayload
    <3>. QED  BY <1>3, <1>4, <1>6, <1>10, <3>2, <3>3 DEF payload
  <2>3. CASE pkt[1] \notin {2, 4, 7}
    <3>1. len_reg = 0
      BY <1>3, <1>4, <1>10, <2>3 DEF Answers, HeaderRight
    <3>2. ExpectedPayload = <<>>
      BY <2>3 DEF ExpectedPayload
    <3>. QED  BY <1>3, <1>4, <1>6, <1>8, <1>10, <3>1, <3>2 DEF payload
  <2>. QED  BY <2>1, <2>2, <2>3
<1>. QED  BY <1>9, <1>10

\* The unit follows its packets into the answers, if no read asks for nothing.
LEMMA AnswersHold ==
  ASSUME NoEmptyRead
  PROVE  Spec => [](session \in Sessions /\ Inv /\ Copies /\ Answers)
<1>1. Init => Answers
  <2>. SUFFICES ASSUME Init PROVE Answers
    OBVIOUS
  <2>1. Identified /\ NotEmpty
    BY DEF Init, Identified, NotEmpty
  <2>2. ~Decided
    BY DEF Init, DebugInit, Decided
  <2>3. \A k \in Memories : Reads(k)
    BY DEF Init, DebugInit, CopierInit, Reads
  <2>. QED  BY <2>1, <2>2, <2>3 DEF Answers, HeaderRight, Sent
<1>2. Init => session \in Sessions /\ Inv /\ Copies
  BY InitHolds, InitCopies DEF Init
<1>3. session \in Sessions /\ Inv /\ Copies /\ Answers /\ [Next]_vars =>
        (session \in Sessions /\ Inv /\ Copies /\ Answers)'
  BY StepKeeps, StepCopies, StepAnswers
<1>. QED  BY <1>1, <1>2, <1>3, PTL DEF Spec

\* Every packet is answered with its own id, the status it deserves and the bytes
\* it asked for, and with nothing of an earlier one, if no read asks for none.
THEOREM ResponsesRight ==
  ASSUME NoEmptyRead
  PROVE  Spec => []ResponseRight
<1>1. Spec => [](session \in Sessions /\ Inv /\ Copies /\ Answers)
  BY AnswersHold
<1>2. Inv /\ Copies /\ Answers => ResponseRight
  BY AnswerRight
<1>. QED  BY <1>1, <1>2, PTL

-----------------------------------------------------------------------------
\* The service.  What the host sees of the unit, in the two moments in which it
\* looks: before it asks, and when it has its answer.

AnsweredMemory ==
  [k \in Memories |-> IF ExpectedStatus = STATUS_OK /\ pkt[1] = WriteOf(k)
                      THEN Written(shadow[k]) ELSE shadow[k]]

AnsweredHalt == IF ExpectedStatus = STATUS_OK THEN Target ELSE host_halted

Seen ==
  /\ session \in Sessions /\ TypeOK /\ PacketShape /\ ResponseRight
  /\ host_state = "IDLE" => mem = shadow /\ m_is_halted = host_halted
  /\ HasAnswer =>
       /\ mem = AnsweredMemory /\ m_is_halted = AnsweredHalt
       /\ Len(resp) = 3 + resp[3] /\ send_state = "IDLE"

\* The host sees the service.
LEMMA HostSees ==
  ASSUME session \in Sessions, Inv, Copies, Answers
  PROVE  Seen
<1>1. TypeOK /\ PacketShape /\ Follows /\ Known /\ PartsServe
  BY DEF Inv
<1>2. ResponseRight
  BY AnswerRight
<1>3. mem \in [Memories -> [Addr -> Byte]] /\ shadow \in [Memories -> [Addr -> Byte]]
  BY <1>1 DEF TypeOK
<1>4. ASSUME host_state = "IDLE" PROVE mem = shadow /\ m_is_halted = host_halted
  <2>1. AtRest /\ ~Decided
    BY <1>1, <1>4 DEF Follows, AtRest, Decided
  <2>2. m_is_halted = host_halted
    BY <1>1, <2>1 DEF Known, AtRest, Settled
  <2>3. ASSUME NEW k \in Memories, NEW a \in Addr PROVE mem[k][a] = shadow[k][a]
    <3>1. Copied(k) = 0
      BY <1>1, <2>1 DEF AtRest, copy_req, PartsServe, Copied
    <3>2. Holds(k, 0, a)
      BY <3>1 DEF Copies
    <3>. QED  BY <3>2, NothingCopied
  <2>4. ASSUME NEW k \in Memories PROVE mem[k] = shadow[k]
    BY <1>3, <2>3
  <2>. QED  BY <1>3, <2>2, <2>4
<1>5. ASSUME HasAnswer
      PROVE  /\ mem = AnsweredMemory /\ m_is_halted = AnsweredHalt
             /\ Len(resp) = 3 + resp[3] /\ send_state = "IDLE"
  <2>1. host_state = "WAITING" /\ ResponseComplete
    BY <1>5 DEF HasAnswer
  <2>2. Complete
    BY <1>1, <2>1, AnswerWhole
  <2>3. Decided /\ dm_state = "WAIT_INPUT" /\ resp[1] = status_reg /\ status_reg = ExpectedStatus
    BY <2>1, <2>2 DEF Complete, AtRest, Decided, Copies, StatusRight
  <2>4. send_state = "IDLE"
    BY <1>1, <2>3 DEF PartsServe
  <2>5. m_is_halted = AnsweredHalt
    BY <1>1, <2>3 DEF Known, Settled, AnsweredHalt
  <2>6. Len(resp) = 3 + resp[3]
    <3>1. /\ Len(resp) = 3 + len_reg /\ len_reg \in Nat
          /\ \A i \in 1 .. Len(resp) : resp[i] = AnswerByte(i)
      BY <1>1, <2>3 DEF Answers, Sent, TypeOK, BufferTypeOK, Byte
    <3>2. 3 \in 1 .. Len(resp)
      BY <3>1
    <3>3. resp[3] = len_reg
      BY <3>1, <3>2 DEF AnswerByte
    <3>. QED  BY <3>1, <3>3
  <2>7. mem = AnsweredMemory
    <3>1. ASSUME NEW k \in Memories PROVE mem[k] = AnsweredMemory[k]
      <4>. DEFINE done == resp[1] = STATUS_OK /\ pkt[1] = WriteOf(k)
                  m == IF done THEN Written(shadow[k]) ELSE shadow[k]
      <4>1. \A a \in Addr : mem[k][a] = m[a]
        BY <2>1, AnsweredHolds
      <4>2. AnsweredMemory[k] = m
        BY <2>3 DEF AnsweredMemory
      <4>3. m = [a \in Addr |-> m[a]]
        <5>1. shadow[k] = [a \in Addr |-> shadow[k][a]]
          BY <1>3
        <5>2. Written(shadow[k]) = [a \in Addr |-> Written(shadow[k])[a]]
          BY DEF Written
        <5>. QED  BY <5>1, <5>2
      <4>4. mem[k] = [a \in Addr |-> mem[k][a]]
        BY <1>3
      <4>. HIDE DEF m
      <4>. QED  BY <4>1, <4>2, <4>3, <4>4
    <3>2. mem = [k \in Memories |-> mem[k]] /\ AnsweredMemory = [k \in Memories |-> AnsweredMemory[k]]
      BY <1>3 DEF AnsweredMemory
    <3>. QED  BY <3>1, <3>2
  <2>. QED  BY <2>4, <2>5, <2>6, <2>7
<1>. QED  BY <1>1, <1>2, <1>4, <1>5 DEF Seen

\* The bytes of a request that is under way.
LEMMA RequestBytes ==
  ASSUME TypeOK, PacketShape, host_state # "IDLE"
  PROVE  /\ Request = pkt /\ DamagedByte = bad
         /\ pkt \in Seq(Byte) /\ Len(pkt) \in Nat /\ Len(pkt) >= 3 /\ Len(pkt) = 3 + pkt[3]
         /\ pkt[1] \in Byte /\ pkt[3] \in Byte /\ bad \in Nat
         /\ pkt[3] >= 4 => \A i \in 4 .. 7 : pkt[i] \in Int
<1>1. Request = pkt /\ DamagedByte = bad
  BY DEF Request, DamagedByte
<1>2. pkt \in Seq(Byte) /\ Len(pkt) \in Nat /\ Len(pkt) >= 3 /\ Len(pkt) = 3 + pkt[3] /\ bad \in Nat
  BY DEF TypeOK, PacketShape
<1>3. 1 \in 1 .. Len(pkt) /\ 3 \in 1 .. Len(pkt)
  BY <1>2
<1>4. pkt[1] \in Byte /\ pkt[3] \in Byte
  BY <1>2, <1>3
<1>5. ASSUME pkt[3] >= 4, NEW i \in 4 .. 7 PROVE pkt[i] \in Int
  <2>1. i \in 1 .. Len(pkt)
    BY <1>2, <1>4, <1>5 DEF Byte
  <2>2. pkt[i] \in Byte
    BY <1>2, <2>1
  <2>. QED  BY <2>2 DEF Byte
<1>. QED  BY <1>1, <1>2, <1>4, <1>5

\* The service and the unit refuse the same packets, for the same reasons.
LEMMA SameStatus ==
  ASSUME TypeOK, PacketShape, host_state # "IDLE"
  PROVE  /\ Remote!Good <=> ExpectedStatus = STATUS_OK
         /\ Remote!Status = ExpectedStatus
<1>1. Request = pkt /\ DamagedByte = bad /\ pkt[1] \in 0 .. ByteSize - 1 /\ pkt[3] \in Nat
  BY RequestBytes DEF Byte
<1>2. Remote!Good <=> bad = 0 /\ (\/ pkt[1] \in {2, 4} /\ pkt[3] >= 5
                                  \/ pkt[1] \in {3, 5} /\ pkt[3] >= 4
                                  \/ pkt[1] \in {0, 1, 6, 7})
  BY <1>1 DEF Remote!Good, Remote!Is, Remote!Command, Remote!Length
<1>3. CASE bad # 0
  BY <1>1, <1>2, <1>3, ByteAssumption
     DEF Remote!Status, ExpectedStatus, STATUS_OK, STATUS_ERROR_PARITY
<1>4. CASE bad = 0 /\ pkt[1] > 7
  <2>1. ~Remote!Good /\ Remote!Command \notin 0 .. 7
    BY <1>1, <1>2, <1>4 DEF Remote!Command
  <2>2. ExpectedStatus = STATUS_ERROR_CMD
    BY <1>1, <1>4 DEF ExpectedStatus
  <2>. QED  BY <1>1, <1>4, <2>1, <2>2, ByteAssumption
            DEF Remote!Status, STATUS_OK, STATUS_ERROR_CMD
<1>5. CASE bad = 0 /\ pkt[1] <= 7
  <2>1. Remote!Command \in 0 .. 7
    BY <1>1, <1>5 DEF Remote!Command
  <2>2. CASE (pkt[1] \in {2, 4} /\ pkt[3] < 5) \/ (pkt[1] \in {3, 5} /\ pkt[3] < 4)
    <3>1. ~Remote!Good
      BY <1>1, <1>2, <2>2
    <3>2. ExpectedStatus = STATUS_ERROR_ARGS
      BY <1>1, <1>5, <2>2 DEF ExpectedStatus
    <3>. QED  BY <1>1, <1>5, <2>1, <3>1, <3>2, ByteAssumption
              DEF Remote!Status, STATUS_OK, STATUS_ERROR_ARGS
  <2>3. CASE ~((pkt[1] \in {2, 4} /\ pkt[3] < 5) \/ (pkt[1] \in {3, 5} /\ pkt[3] < 4))
    <3>1. Remote!Good
      BY <1>1, <1>2, <1>5, <2>3
    <3>2. ExpectedStatus = STATUS_OK
      BY <1>1, <1>5, <2>3 DEF ExpectedStatus
    <3>. QED  BY <1>1, <1>5, <3>1, <3>2 DEF Remote!Status, STATUS_OK
  <2>. QED  BY <2>2, <2>3
<1>. QED  BY <1>1, <1>3, <1>4, <1>5

\* The service finds the byte of a request where the unit does: the unit wraps
\* every address, the service the sum.
LEMMA SameCell ==
  ASSUME TypeOK, PacketShape, host_state # "IDLE", pkt[3] >= 4, NEW n \in Int
  PROVE  /\ RequestAddr \in Int
         /\ Remote!Cell(n) = (RequestAddr + n) % MemSize
<1>. DEFINE x == ((pkt[4] * ByteSize + pkt[5]) * ByteSize + pkt[6]) * ByteSize + pkt[7]
<1>1. Request = pkt /\ pkt[4] \in Int /\ pkt[5] \in Int /\ pkt[6] \in Int /\ pkt[7] \in Int
  BY RequestBytes
<1>2. x \in Int
  BY <1>1, ByteAssumption
<1>3. Remote!Cell(n) = (x + n) % MemSize
  BY <1>1 DEF Remote!Cell, Remote!Start
<1>4. RequestAddr = (x + 0) % MemSize
  BY DEF RequestAddr, Address
<1>. HIDE DEF x
<1>5. RequestAddr = x % MemSize /\ x % MemSize \in Int
  BY <1>2, <1>4, MemAssumption
<1>. QED  BY <1>2, <1>3, <1>5, WrapsOnce

\* What a write leaves of a memory.
LEMMA SameStore ==
  ASSUME TypeOK, PacketShape, host_state # "IDLE", pkt[3] >= 4, NEW m
  PROVE  Remote!Stored(m) = Written(m)
<1>1. Request = pkt
  BY RequestBytes
<1>2. ASSUME NEW a PROVE Remote!BytesOf(a) = BytesFor(a)
  <2>1. ASSUME NEW i \in 8 .. Len(pkt)
        PROVE  Remote!Cell(i - 8) = (RequestAddr + i - 8) % MemSize
    <3>1. i - 8 \in Int
      OBVIOUS
    <3>2. RequestAddr \in Int /\ Remote!Cell(i - 8) = (RequestAddr + (i - 8)) % MemSize
      BY <3>1, SameCell
    <3>3. RequestAddr + (i - 8) = RequestAddr + i - 8
      BY <3>2
    <3>. QED  BY <3>2, <3>3
  <2>. QED  BY <1>1, <2>1 DEF Remote!BytesOf, BytesFor
<1>3. Remote!Addr = Addr
  BY DEF Remote!Addr, Addr
<1>. DEFINE Last(S) == CHOOSE i \in S : \A j \in S : j <= i
<1>4. ASSUME NEW a PROVE Last(Remote!BytesOf(a)) = Last(BytesFor(a))
  BY <1>2, Zenon
<1>5. /\ Remote!Stored(m) = [a \in Addr |-> IF Remote!BytesOf(a) = {} THEN m[a]
                                          ELSE Request[Last(Remote!BytesOf(a))]]
      /\ Written(m) = [a \in Addr |-> IF BytesFor(a) = {} THEN m[a] ELSE pkt[Last(BytesFor(a))]]
  BY <1>3 DEF Remote!Stored, Written
<1>. HIDE DEF Last
<1>. QED  BY <1>1, <1>2, <1>4, <1>5

\* The service reads what the host expects, from memories that are the host's.
LEMMA SamePayload ==
  ASSUME TypeOK, PacketShape, host_state # "IDLE", ~HasAnswer
  PROVE  Remote!Payload = IF ExpectedStatus = STATUS_OK THEN ExpectedPayload ELSE <<>>
<1>1. /\ Request = pkt /\ Memory = shadow /\ CoreHalted = host_halted
      /\ pkt[1] \in Int /\ pkt[3] \in Int
      /\ Remote!Command = pkt[1] /\ (Remote!Good <=> ExpectedStatus = STATUS_OK)
  BY RequestBytes, SameStatus DEF Memory, CoreHalted, Quiescent, Remote!Command, Byte
<1>2. CASE ~(Remote!Good /\ pkt[1] \in {2, 4, 7})
  <2>1. Remote!Payload = <<>>
    BY <1>1, <1>2 DEF Remote!Payload
  <2>2. ~(pkt[1] \in {2, 4, 7}) => ExpectedPayload = <<>>
    BY DEF ExpectedPayload
  <2>. QED  BY <1>1, <1>2, <2>1, <2>2
<1>3. CASE Remote!Good /\ pkt[1] = 7
  <2>1. ExpectedPayload = <<IF host_halted THEN 1 ELSE 0>>
    BY <1>3 DEF ExpectedPayload
  <2>2. Remote!Payload = <<IF host_halted THEN 1 ELSE 0>>
    BY <1>1, <1>3 DEF Remote!Payload
  <2>. QED  BY <1>1, <1>3, <2>1, <2>2
<1>4. CASE Remote!Good /\ pkt[1] \in {2, 4}
  <2>1. pkt[3] >= 4
    BY <1>1, <1>4, StatusOK
  <2>. DEFINE k == MemoryOf(pkt[1])
  <2>2. ExpectedPayload = [i \in 1 .. pkt[8] |-> shadow[k][(RequestAddr + i - 1) % MemSize]]
    BY <1>4 DEF ExpectedPayload
  <2>3. Remote!Payload = [i \in 1 .. pkt[8] |-> shadow[k][Remote!Cell(i - 1)]]
    <3>1. CASE pkt[1] = 2
      BY <1>1, <1>4, <3>1 DEF Remote!Payload, MemoryOf
    <3>2. CASE pkt[1] = 4
      BY <1>1, <1>4, <3>2 DEF Remote!Payload, MemoryOf
    <3>. QED  BY <1>4, <3>1, <3>2
  <2>4. ASSUME NEW i \in 1 .. pkt[8] PROVE Remote!Cell(i - 1) = (RequestAddr + i - 1) % MemSize
    <3>1. i - 1 \in Int
      OBVIOUS
    <3>2. RequestAddr \in Int /\ Remote!Cell(i - 1) = (RequestAddr + (i - 1)) % MemSize
      BY <2>1, <3>1, SameCell
    <3>3. RequestAddr + (i - 1) = RequestAddr + i - 1
      BY <3>2
    <3>. QED  BY <3>2, <3>3
  <2>. HIDE DEF k
  <2>. QED  BY <1>1, <1>4, <2>2, <2>3, <2>4
<1>. QED  BY <1>2, <1>3, <1>4

\* What an answer that is complete looks like, by its bytes.
LEMMA AnswerBytes ==
  ASSUME Seen, HasAnswer
  PROVE  \E payload \in Seq(Byte) :
           /\ payload = IF ExpectedStatus = STATUS_OK THEN ExpectedPayload ELSE <<>>
           /\ resp \in Seq(Byte) /\ resp # <<>> /\ Len(resp) = 3 + Len(payload)
           /\ resp[1] = ExpectedStatus /\ resp[3] = Len(payload)
           /\ bad \notin {1, 2} => resp[2] = pkt[2]
           /\ \A i \in 1 .. Len(payload) : resp[i + 3] = payload[i]
<1>. DEFINE payload == SubSeq(resp, 4, Len(resp))
<1>1. /\ host_state = "WAITING" /\ ResponseComplete /\ ResponseRight
      /\ resp \in Seq(Byte) /\ Len(resp) \in Nat /\ Len(resp) >= 3 /\ Len(resp) = 3 + resp[3]
  BY DEF Seen, HasAnswer, ResponseComplete, TypeOK
<1>2. /\ payload = IF ExpectedStatus = STATUS_OK THEN ExpectedPayload ELSE <<>>
      /\ resp[1] = ExpectedStatus /\ (bad \notin {1, 2} => resp[2] = pkt[2])
  BY <1>1 DEF ResponseRight
<1>3. resp[3] \in Nat
  <2>1. 3 \in 1 .. Len(resp)
    BY <1>1
  <2>2. resp[3] \in Byte
    BY <1>1, <2>1
  <2>. QED  BY <2>2 DEF Byte
<1>4. /\ payload \in Seq(Byte)
      /\ Len(payload) = IF 4 <= Len(resp) THEN Len(resp) - 4 + 1 ELSE 0
      /\ \A i \in 1 .. Len(resp) - 4 + 1 : payload[i] = resp[4 + i - 1]
  <2>1. \A i \in 4 .. Len(resp) : resp[i] \in Byte
    BY <1>1
  <2>. QED  BY <1>1, <2>1, SubSeqProperties
<1>. HIDE DEF payload
<1>5. Len(payload) = resp[3]
  BY <1>1, <1>3, <1>4
<1>6. ASSUME NEW i \in 1 .. Len(payload) PROVE resp[i + 3] = payload[i]
  <2>1. i \in 1 .. Len(resp) - 4 + 1 /\ 4 + i - 1 = i + 3
    BY <1>1, <1>3, <1>5
  <2>. QED  BY <1>4, <2>1
<1>7. resp # <<>>
  BY <1>1
<1>. QED  BY <1>1, <1>2, <1>4, <1>5, <1>6, <1>7

\* A tick between whose ends the answer has become complete is the service.
LEMMA TickServes ==
  ASSUME Seen, Seen', host_state # "IDLE", host_state' # "IDLE", ~HasAnswer, HasAnswer',
         UNCHANGED <<session, pkt, bad, host_halted, shadow>>,
         NEW payload \in Seq(Byte),
         payload = (IF ExpectedStatus = STATUS_OK THEN ExpectedPayload ELSE <<>>),
         resp' \in Seq(Byte), resp' # <<>>, Len(resp') = 3 + Len(payload),
         resp'[1] = ExpectedStatus, resp'[3] = Len(payload),
         bad \notin {1, 2} => resp'[2] = pkt[2],
         \A i \in 1 .. Len(payload) : resp'[i + 3] = payload[i]
  PROVE  Remote!Serve
<1>1. TypeOK /\ PacketShape
  BY DEF Seen
<1>2. /\ Request = pkt /\ DamagedByte = bad /\ Answer = <<>> /\ Memory = shadow /\ CoreHalted = host_halted
      /\ pkt \in Seq(Byte) /\ Len(pkt) >= 3 /\ pkt[1] \in Int /\ pkt[3] \in Int
  BY <1>1, RequestBytes DEF Answer, Memory, CoreHalted, Quiescent, Byte
<1>3. /\ Request' = pkt /\ DamagedByte' = bad /\ Answer' = resp'
      /\ Memory' = mem' /\ CoreHalted' = m_is_halted'
  BY DEF Request, DamagedByte, Answer, Memory, CoreHalted, Quiescent
<1>4. /\ (Remote!Good <=> ExpectedStatus = STATUS_OK) /\ Remote!Status = ExpectedStatus
      /\ Remote!Payload = payload /\ Remote!Command = pkt[1]
  BY <1>1, <1>2, SameStatus, SamePayload DEF Remote!Command
<1>5. ExpectedStatus' = ExpectedStatus /\ AnsweredMemory' = AnsweredMemory /\ AnsweredHalt' = AnsweredHalt
  BY DEF ExpectedStatus, AnsweredMemory, AnsweredHalt, Target, Written, BytesFor, RequestAddr, Address
<1>6. mem' = AnsweredMemory /\ m_is_halted' = AnsweredHalt
  BY <1>5 DEF Seen
<1>7. AnsweredMemory = [k \in Memories |->
        IF Remote!Good /\ Remote!Command = (IF k = "prog" THEN 3 ELSE 5)
        THEN Remote!Stored(Memory[k]) ELSE Memory[k]]
  <2>1. ASSUME NEW k \in Memories PROVE WriteOf(k) = (IF k = "prog" THEN 3 ELSE 5)
    BY DEF WriteOf
  <2>2. ASSUME NEW k \in Memories, ExpectedStatus = STATUS_OK, pkt[1] = WriteOf(k)
        PROVE  Remote!Stored(Memory[k]) = Written(shadow[k])
    <3>1. pkt[3] >= 4
      <4>1. pkt[1] \in {3, 5}
        BY <2>2 DEF WriteOf
      <4>. QED  BY <1>2, <2>2, <4>1, StatusOK
    <3>2. Remote!Stored(shadow[k]) = Written(shadow[k])
      BY <1>1, <3>1, SameStore
    <3>. QED  BY <1>2, <3>2
  <2>. QED  BY <1>2, <1>4, <2>1, <2>2 DEF AnsweredMemory
<1>8. AnsweredHalt = IF Remote!Good /\ Remote!Command \in {0, 1, 6}
                     THEN Remote!Command = 0 ELSE CoreHalted
  <2>1. host_halted \in BOOLEAN
    BY <1>1 DEF TypeOK
  <2>2. CASE ~Remote!Good
    BY <1>2, <1>4, <2>2 DEF AnsweredHalt
  <2>3. CASE Remote!Good /\ pkt[1] = 0
    <3>1. AnsweredHalt = TRUE
      BY <1>4, <2>3 DEF AnsweredHalt, Target
    <3>2. Remote!Good /\ Remote!Command = 0
      BY <1>4, <2>3
    <3>. QED  BY <3>1, <3>2
  <2>4. CASE Remote!Good /\ pkt[1] \in {1, 6}
    <3>1. AnsweredHalt = FALSE
      BY <1>4, <2>4 DEF AnsweredHalt, Target
    <3>2. Remote!Good /\ Remote!Command \in {0, 1, 6} /\ Remote!Command # 0
      BY <1>4, <2>4
    <3>. QED  BY <3>1, <3>2
  <2>5. CASE Remote!Good /\ pkt[1] \notin {0, 1, 6}
    BY <1>2, <1>4, <2>5 DEF AnsweredHalt, Target
  <2>. QED  BY <2>2, <2>3, <2>4, <2>5
<1>9. Remote!Memories = Memories /\ Remote!Byte = Byte
  BY DEF Remote!Memories, Memories, Remote!Byte, Byte
<1>10. Request # <<>>
  BY <1>2
<1>11. /\ Answer' \in Seq(Remote!Byte) /\ Len(Answer') = 3 + Len(Remote!Payload)
       /\ Answer'[1] = Remote!Status /\ Answer'[3] = Len(Remote!Payload)
       /\ DamagedByte \notin {1, 2} => Answer'[2] = Request[2]
       /\ \A i \in 1 .. Len(Remote!Payload) : Answer'[i + 3] = Remote!Payload[i]
  BY <1>2, <1>3, <1>4, <1>9
<1>12. /\ Memory' = [k \in Remote!Memories |->
            IF Remote!Good /\ Remote!Command = (IF k = "prog" THEN 3 ELSE 5)
            THEN Remote!Stored(Memory[k]) ELSE Memory[k]]
       /\ CoreHalted' = IF Remote!Good /\ Remote!Command \in {0, 1, 6}
                        THEN Remote!Command = 0 ELSE CoreHalted
  BY <1>3, <1>6, <1>7, <1>8, <1>9
<1>. QED  BY <1>2, <1>3, <1>10, <1>11, <1>12 DEF Remote!Serve

\* Whatever a clock edge does, the host sees the request being served or nothing.
LEMMA TickStep ==
  ASSUME Seen, Seen', Tick
  PROVE  Remote!Serve \/ UNCHANGED Remote!vars
<1>1. TypeOK /\ PacketShape /\ TypeOK' /\ PacketShape'
  BY DEF Seen
<1>2. PICK valid, error, ready, drained, taken \in BOOLEAN, byte \in Byte :
        Edge(valid, byte, error, ready, drained, taken) /\ Line(valid, byte, error)
  BY <1>1, TickIsEdge
<1>3. UNCHANGED <<session, pkt, bad, host_halted, shadow>> /\ UartTick(ready)
  BY <1>2 DEF Edge
<1>4. /\ host_state' = "IDLE" <=> host_state = "IDLE"
      /\ host_state = "WAITING" => host_state' = "WAITING"
  BY <1>1, <1>2, <1>3, LineTyped
<1>5. UNCHANGED <<Request, DamagedByte>>
  BY <1>3, <1>4 DEF Request, DamagedByte
<1>6. /\ ExpectedStatus' = ExpectedStatus
      /\ AnsweredMemory' = AnsweredMemory /\ AnsweredHalt' = AnsweredHalt
  BY <1>3 DEF ExpectedStatus, AnsweredMemory, AnsweredHalt, Target, Written, BytesFor, RequestAddr, Address
<1>7. CASE host_state = "IDLE"
  <2>1. Answer = <<>> /\ Answer' = <<>>
    BY <1>4, <1>7 DEF Answer, HasAnswer
  <2>2. /\ Memory = shadow /\ Memory' = shadow'
        /\ CoreHalted = host_halted /\ CoreHalted' = host_halted'
    BY <1>4, <1>7 DEF Seen, Memory, CoreHalted, Quiescent
  <2>. QED  BY <1>3, <1>5, <2>1, <2>2 DEF Remote!vars
<1>8. CASE HasAnswer
  <2>1. host_state = "WAITING" /\ host_state' = "WAITING" /\ send_state = "IDLE"
    BY <1>4, <1>8 DEF HasAnswer, Seen
  <2>2. resp' = resp
    BY <1>3, <2>1 DEF UartTick, byte_passes, send_valid
  <2>3. HasAnswer'
    BY <1>8, <2>1, <2>2 DEF HasAnswer, ResponseComplete
  <2>4. mem' = mem /\ m_is_halted' = m_is_halted
    BY <1>6, <1>8, <2>3 DEF Seen
  <2>5. UNCHANGED <<Answer, Memory, CoreHalted>>
    BY <1>8, <2>2, <2>3, <2>4 DEF Answer, Memory, CoreHalted, Quiescent
  <2>. QED  BY <1>5, <2>5 DEF Remote!vars
<1>9. CASE host_state # "IDLE" /\ ~HasAnswer /\ ~HasAnswer'
  BY <1>3, <1>4, <1>5, <1>9 DEF Remote!vars, Answer, Memory, CoreHalted, Quiescent
<1>10. CASE host_state # "IDLE" /\ ~HasAnswer /\ HasAnswer'
  <2>1. ExpectedPayload' = ExpectedPayload
    BY <1>3 DEF ExpectedPayload, MemoryOf, RequestAddr, Address
  <2>2. PICK payload \in Seq(Byte) :
          /\ payload = IF ExpectedStatus = STATUS_OK THEN ExpectedPayload ELSE <<>>
          /\ resp' \in Seq(Byte) /\ resp' # <<>> /\ Len(resp') = 3 + Len(payload)
          /\ resp'[1] = ExpectedStatus /\ resp'[3] = Len(payload)
          /\ bad \notin {1, 2} => resp'[2] = pkt[2]
          /\ \A i \in 1 .. Len(payload) : resp'[i + 3] = payload[i]
    <3>1. (Seen /\ HasAnswer)' => (\E payload \in Seq(Byte) :
             /\ payload = IF ExpectedStatus = STATUS_OK THEN ExpectedPayload ELSE <<>>
             /\ resp \in Seq(Byte) /\ resp # <<>> /\ Len(resp) = 3 + Len(payload)
             /\ resp[1] = ExpectedStatus /\ resp[3] = Len(payload)
             /\ bad \notin {1, 2} => resp[2] = pkt[2]
             /\ \A i \in 1 .. Len(payload) : resp[i + 3] = payload[i])'
      BY AnswerBytes, PTL
    <3>. QED  BY <1>3, <1>6, <1>10, <2>1, <3>1
  <2>3. host_state' # "IDLE"
    BY <1>4, <1>10
  <2>. QED  BY <1>3, <1>10, <2>2, <2>3, TickServes
<1>. QED  BY <1>7, <1>8, <1>9, <1>10

\* What the host does is what the service lets it do.
LEMMA HostStep ==
  ASSUME Seen, Seen'
  PROVE  /\ HostSend => Remote!Ask
         /\ HostReceive => Remote!Take
<1>1. ASSUME HostSend PROVE Remote!Ask
  <2>1. PICK r \in session.requests : MayAsk(r) /\ pkt' = Packet(r)
    BY <1>1 DEF HostSend
  <2>2. /\ pkt' \in Seq(Byte) /\ Len(pkt') >= 3 /\ Len(pkt') = 3 + pkt'[3] /\ pkt'[1] = r.cmd
    BY <2>1, RequestTyped DEF Seen
  <2>3. /\ host_state = "IDLE" /\ host_state' = "SENDING"
        /\ UNCHANGED <<host_halted, shadow>>
        /\ mem = shadow /\ m_is_halted = host_halted /\ bad' \in 0 .. Len(pkt')
    BY <1>1 DEF HostSend, Seen, TypeOK
  <2>4. /\ Request = <<>> /\ Request' = pkt' /\ DamagedByte' = bad'
        /\ Answer = <<>> /\ Answer' = <<>>
        /\ Memory = shadow /\ Memory' = shadow /\ CoreHalted = host_halted /\ CoreHalted' = host_halted
    BY <2>3 DEF Request, DamagedByte, Answer, HasAnswer, Memory, CoreHalted, Quiescent
  <2>5. Remote!Byte = Byte
    BY DEF Remote!Byte, Byte
  <2>6. Request'[1] \in {4, 5} => CoreHalted
    BY <2>1, <2>2, <2>4 DEF MayAsk
  <2>. QED  BY <2>2, <2>3, <2>4, <2>5, <2>6 DEF Remote!Ask
<1>2. ASSUME HostReceive PROVE Remote!Take
  <2>1. /\ HasAnswer /\ host_state' = "IDLE" /\ UNCHANGED <<mem, m_is_halted>>
        /\ Len(resp) >= 3
    BY <1>2 DEF HostReceive, HasAnswer, boardVars, ResponseComplete
  <2>2. Answer = resp /\ resp # <<>>
    BY <2>1 DEF Answer, Seen, TypeOK
  <2>3. Request' = <<>> /\ DamagedByte' = 0 /\ Answer' = <<>>
    BY <2>1 DEF Request, DamagedByte, Answer, HasAnswer
  <2>4. UNCHANGED <<Memory, CoreHalted>>
    BY <2>1 DEF Memory, CoreHalted, Quiescent
  <2>. QED  BY <2>2, <2>3, <2>4 DEF Remote!Take
<1>. QED  BY <1>1, <1>2

\* The debug unit, its line, its memories and the halt control are to the tool a
\* service that does one request at a time, at once and as it was asked: the
\* cycles, the bytes and the registers in between do not show.
THEOREM ServiceImplemented ==
  ASSUME NoEmptyRead
  PROVE  Spec => ImplementsService
<1>1. Spec => [](session \in Sessions /\ Inv /\ Copies /\ Answers)
  BY AnswersHold
<1>2. session \in Sessions /\ Inv /\ Copies /\ Answers => Seen
  BY HostSees
<1>3. Init => Remote!Init
  BY DEF Init, Remote!Init, Request, DamagedByte, Answer, HasAnswer, Memory, CoreHalted, Quiescent,
         Memories, Addr, Remote!Memories, Remote!Addr
<1>4. Seen /\ Seen' /\ [Next]_vars => [Remote!Next]_Remote!vars
  <2>. SUFFICES ASSUME Seen, Seen', [Next]_vars PROVE [Remote!Next]_Remote!vars
    OBVIOUS
  <2>1. CASE Tick
    BY <2>1, TickStep DEF Remote!Next
  <2>2. CASE HostSend \/ HostReceive
    BY <2>2, HostStep DEF Remote!Next
  <2>3. CASE UNCHANGED vars
    BY <2>3 DEF vars, boardVars, hostVars, Remote!vars, Request, DamagedByte, Answer, HasAnswer,
                ResponseComplete, Memory, CoreHalted, Quiescent
  <2>. QED  BY <2>1, <2>2, <2>3 DEF Next
<1>. QED  BY <1>1, <1>2, <1>3, <1>4, PTL DEF Spec, ImplementsService, Remote!Spec

===============================================================================
