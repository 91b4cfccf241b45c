----------------------------- MODULE LoadStoreUnit -----------------------------
(***************************************************************************)
(* The lanes of the data memory: LoadStoreUnit.sv between the memory stage   *)
(* and a word memory with byte enables (mmio.sv), and the debugger's byte    *)
(* accesses to the same memory (DebugModule/ByteToWordAddrConverter.sv).     *)
(*                                                                          *)
(* One step is one access.  The memory registers the word it read; the unit  *)
(* picks the bytes from that register, on the address and the operation the  *)
(* memory stage still holds (MemStage's handshake is in that module).        *)
(***************************************************************************)
EXTENDS Integers

CONSTANTS
  ByteSize,     \* 256 in the code
  Words,        \* words in the memory
  StoreData     \* the words the processor stores or stores the low bytes of

ASSUME LaneAssumption ==
  /\ ByteSize \in Nat /\ ByteSize > 0
  /\ Words \in Nat /\ Words > 0

Byte     == 0 .. ByteSize - 1
ByteAddr == 0 .. 4 * Words - 1
Lane     == 0 .. 3
Word     == [Lane -> Byte]     \* lane 0 holds the bits [7:0]

ASSUME StoreDataAssumption == StoreData \subseteq Word

Loads  == {"LOAD_BYTE", "LOAD_BYTE_UNSIGNED", "LOAD_HALFWORD", "LOAD_HALFWORD_UNSIGNED", "LOAD_WORD"}
Stores == {"STORE_BYTE", "STORE_HALFWORD", "STORE_WORD"}
Debugs == {"DEBUG_READ", "DEBUG_WRITE"}     \* the debugger's accesses, of a byte

VARIABLES
  ram,      \* the words
  q,        \* the read register of the memory
  op,       \* cpu_mem_op_type_in, or the access of the debugger
  addr,     \* cpu_addr_in, or the debugger's byte_addr
  wdata     \* cpu_write_data_in, or the debugger's byte

vars == <<ram, q, op, addr, wdata>>

Zeros == [i \in Lane |-> 0]

TypeOK ==
  /\ ram \in [0 .. Words - 1 -> Word]
  /\ q \in Word
  /\ op \in Loads \union Stores \union Debugs
  /\ addr \in ByteAddr
  /\ wdata \in Word

\* the low bits of an address
Low(a)  == a % 4
High(a) == (a \div 2) % 2

-----------------------------------------------------------------------------
\* LoadStoreUnit.sv

\* mutant: every lane of the other half
mem_write_mask_swapped(type, a) ==
  CASE type = "STORE_WORD"     -> Lane
    [] type = "STORE_HALFWORD" -> IF High(a) = 1 THEN {0, 1} ELSE {2, 3}
    [] type = "STORE_BYTE"     -> {Low(a)}
    [] type \in Loads          -> {}

mem_write_mask_out(type, a) ==
  CASE type = "STORE_WORD"     -> Lane
    [] type = "STORE_HALFWORD" -> IF High(a) = 1 THEN {2, 3} ELSE {0, 1}
    [] type = "STORE_BYTE"     -> {Low(a)}
    [] type \in Loads          -> {}

mem_write_data_out(type, data) ==
  CASE type = "STORE_WORD"     -> data
    [] type = "STORE_HALFWORD" -> [i \in Lane |-> data[i % 2]]
    [] type = "STORE_BYTE"     -> [i \in Lane |-> data[0]]
    [] type \in Loads          -> Zeros

Sign(byte) == IF 2 * byte >= ByteSize THEN ByteSize - 1 ELSE 0

\* the bytes from lane `from` to lane `to`, and the same byte on the left of them
Extend(w, from, to, fill) == [i \in Lane |-> IF i <= to - from THEN w[from + i] ELSE fill]

cpu_read_data_out(type, a, w) ==
  CASE type = "LOAD_WORD"              -> w
    [] type = "LOAD_HALFWORD"          -> Extend(w, 2 * High(a), 2 * High(a) + 1, Sign(w[2 * High(a) + 1]))
    [] type = "LOAD_HALFWORD_UNSIGNED" -> Extend(w, 2 * High(a), 2 * High(a) + 1, 0)
    [] type = "LOAD_BYTE"              -> Extend(w, Low(a), Low(a), Sign(w[Low(a)]))
    [] type = "LOAD_BYTE_UNSIGNED"     -> Extend(w, Low(a), Low(a), 0)
    [] type \in Stores                 -> Zeros

-----------------------------------------------------------------------------
\* ByteToWordAddrConverter.sv

write_data_extended(a, byte) == [i \in Lane |-> IF i = Low(a) THEN byte ELSE 0]
write_data_mask(a)           == {Low(a)}
read_data(a, w)              == w[Low(a)]

-----------------------------------------------------------------------------

\* the memory: the enabled lanes are written, the word before is registered
MemoryAccess(a, mask, data) ==
  LET w == a \div 4
  IN  /\ q' = ram[w]
      /\ ram' = [ram EXCEPT ![w] = [i \in Lane |-> IF i \in mask THEN data[i] ELSE ram[w][i]]]

CpuAccess(type, a, data) ==
  /\ op' = type /\ addr' = a /\ wdata' = data
  /\ MemoryAccess(a, mem_write_mask_out(type, a), mem_write_data_out(type, data))

DebugRead(a) ==
  /\ op' = "DEBUG_READ" /\ addr' = a /\ wdata' = Zeros
  /\ MemoryAccess(a, {}, Zeros)

DebugWrite(a, byte) ==
  /\ op' = "DEBUG_WRITE" /\ addr' = a /\ wdata' = [Zeros EXCEPT ![0] = byte]
  /\ MemoryAccess(a, write_data_mask(a), write_data_extended(a, byte))

Init ==
  /\ ram \in [0 .. Words - 1 -> Word]
  /\ q = Zeros
  /\ op = "LOAD_WORD" /\ addr = 0 /\ wdata = Zeros

Next ==
  \E a \in ByteAddr :
    \/ \E type \in Loads : CpuAccess(type, a, Zeros)
    \/ \E type \in Stores, data \in StoreData : CpuAccess(type, a, data)
    \/ DebugRead(a)
    \/ \E byte \in Byte : DebugWrite(a, byte)

Spec == Init /\ [][Next]_vars

-----------------------------------------------------------------------------
\* The words are a memory of bytes.

\* what the reader of the last access is given
AnswerOf(type, a, w) ==
  IF type \in Debugs THEN [Zeros EXCEPT ![0] = read_data(a, w)] ELSE cpu_read_data_out(type, a, w)

\* what an access means
Size(type) ==
  CASE type \in {"LOAD_WORD", "STORE_WORD"} -> 4
    [] type \in {"LOAD_HALFWORD", "LOAD_HALFWORD_UNSIGNED", "STORE_HALFWORD"} -> 2
    [] OTHER -> 1

AccessOf(type, a, data) ==
  [write  |-> type \in Stores \union {"DEBUG_WRITE"},
   addr   |-> a,
   n      |-> Size(type),
   signed |-> type \in {"LOAD_BYTE", "LOAD_HALFWORD"},
   data   |-> data]

AbstractBytes == [a \in ByteAddr |-> ram[a \div 4][a % 4]]

BM == INSTANCE ByteMemory WITH
  bytes <- AbstractBytes, access <- AccessOf(op, addr, wdata), answer <- AnswerOf(op, addr, q)

\* Every load of the processor and of the debugger returns the bytes the last
\* stores of either left at its address, with the sign where it is asked for,
\* and a store changes the bytes of its own block and no other.
ImplementsByteMemory == BM!Spec

===============================================================================
