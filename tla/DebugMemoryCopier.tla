--------------------------- MODULE DebugMemoryCopier ---------------------------
(***************************************************************************)
(* The two copiers of the debug unit (DebugModule/DebugMemoryCopier.sv),    *)
(* one per memory k: "prog" and "data".  A copier fetches the address from  *)
(* the packet, a byte a cycle, each registered by the packet buffer's read  *)
(* port, and then moves the bytes one request at a time.                    *)
(***************************************************************************)
EXTENDS PacketParser

VARIABLES
  copy_state, start_addr, read_len, copy_ptr,    \* functions of the copier
  data_ack, data_data                            \* and the answers it gets

copierVars == <<copy_state, start_addr, read_len, copy_ptr>>

CopierStates == {"IDLE", "ADDR_0", "ADDR_1", "ADDR_2", "ADDR_3", "LEN", "READ", "WRITE"}

CopierTypeOK ==
  /\ copy_state \in [Memories -> CopierStates]
  /\ start_addr \in [Memories -> [0 .. 3 -> Byte]]
  /\ read_len \in [Memories -> Byte] /\ copy_ptr \in [Memories -> Byte]

\* the address bytes come first, the most significant one first
AddrByte(state) ==
  CASE state = "ADDR_0" -> 0 [] state = "ADDR_1" -> 1
    [] state = "ADDR_2" -> 2 [] state = "ADDR_3" -> 3

Address(bytes, ptr) ==
  (((bytes[0] * ByteSize + bytes[1]) * ByteSize + bytes[2]) * ByteSize + bytes[3] + ptr) % MemSize

\* mutant: the write ends with the packet's length, the address not counted
LastWriteLong(k) == Increment(copy_ptr[k]) = res_len

LastWrite(k) == (copy_ptr[k] + 1 + 4) % ByteSize = res_len

\* mutant: one byte fewer
LastReadEarly(k) == Increment(copy_ptr[k] + 1) = read_len[k]

LastRead(k)  == Increment(copy_ptr[k]) = read_len[k]

copy_next(k, req, write) ==
  CASE copy_state[k] = "IDLE"   -> IF req THEN "ADDR_0" ELSE "IDLE"
    [] copy_state[k] = "ADDR_0" -> "ADDR_1"
    [] copy_state[k] = "ADDR_1" -> "ADDR_2"
    [] copy_state[k] = "ADDR_2" -> "ADDR_3"
    [] copy_state[k] = "ADDR_3" -> IF ~write THEN "LEN"
                                   ELSE IF res_len > 4 THEN "WRITE" ELSE "IDLE"
    [] copy_state[k] = "LEN"    -> IF res_data # 0 THEN "READ" ELSE "IDLE"
    [] copy_state[k] = "WRITE"  -> IF data_ack[k] /\ LastWrite(k) THEN "IDLE" ELSE "WRITE"
    [] copy_state[k] = "READ"   -> IF data_ack[k] /\ LastRead(k) THEN "IDLE" ELSE "READ"

copy_ready(k, req, write) ==
  copy_state[k] # "IDLE" /\ copy_next(k, req, write) = "IDLE"

\* the packet byte that is read, for the next cycle
inp_packet_re(k, req, write) ==
  \/ copy_state[k] = "IDLE" /\ req
  \/ copy_state[k] \in {"ADDR_0", "ADDR_1", "ADDR_2", "WRITE"}
  \/ copy_state[k] = "ADDR_3" /\ (write => res_len > 4)

inp_packet_addr(k) ==
  CASE copy_state[k] = "IDLE"   -> 0
    [] copy_state[k] = "WRITE"  -> (copy_ptr[k] + (IF data_ack[k] THEN 5 ELSE 4)) % ByteSize
    [] OTHER                    -> AddrByte(copy_state[k]) + 1

\* the request to the memory; low in the cycle of the answer
data_req(k)  == copy_state[k] \in {"READ", "WRITE"} /\ ~data_ack[k]
data_wr_en(k) == copy_state[k] = "WRITE"
data_addr(k) == Address(start_addr[k], copy_ptr[k])

\* a byte that was read goes to the response
out_packet_we(k) == copy_state[k] = "READ" /\ data_ack[k]

\* req and write are functions of the copier
CopierTick(req, write) ==
  /\ copy_state' = [k \in Memories |-> copy_next(k, req[k], write[k])]
  /\ start_addr' = [k \in Memories |->
       IF copy_state[k] \in {"ADDR_0", "ADDR_1", "ADDR_2", "ADDR_3"}
       THEN [start_addr[k] EXCEPT ![AddrByte(copy_state[k])] = res_data]
       ELSE start_addr[k]]
  /\ read_len' = [k \in Memories |-> IF copy_state[k] = "LEN" THEN res_data ELSE read_len[k]]
  /\ copy_ptr' = [k \in Memories |->
       CASE copy_state[k] = "IDLE" -> 0
         [] copy_state[k] \in {"READ", "WRITE"} /\ data_ack[k] -> Increment(copy_ptr[k])
         [] OTHER -> copy_ptr[k]]

CopierInit ==
  /\ copy_state = [k \in Memories |-> "IDLE"]
  /\ start_addr = [k \in Memories |-> [i \in 0 .. 3 |-> 0]]
  /\ read_len = [k \in Memories |-> 0] /\ copy_ptr = [k \in Memories |-> 0]

===============================================================================
