----------------------------- MODULE DebugService -----------------------------
(***************************************************************************)
(* What the debug unit is to the tool at the other end of the line: two     *)
(* memories of bytes and the halt of the core, behind a desk that takes one *)
(* request at a time and answers it once.  What a request asks for is done  *)
(* all at once, when its answer is there; there are no bytes under way, no  *)
(* registers and no cycles.                                                 *)
(***************************************************************************)
EXTENDS Integers, Sequences

CONSTANTS
  ByteSize,     \* a byte is 0 .. ByteSize - 1
  MemSize       \* bytes in a memory; addresses wrap there

VARIABLES
  request,      \* <<command, id, length>> and the data, or <<>>
  damaged,      \* the byte of the request that arrives damaged, or 0
  answer,       \* <<status, id, length>> and the data, or <<>>
  memory,       \* the bytes of both memories
  core_halted

vars == <<request, damaged, answer, memory, core_halted>>

Byte     == 0 .. ByteSize - 1
Addr     == 0 .. MemSize - 1
Memories == {"prog", "data"}

-----------------------------------------------------------------------------
\* Commands: 0 halts the core, 1 resumes it, 6 resets it and 7 asks for its
\* state; 2 and 3 read and write the program memory, 4 and 5 the data memory.

Command == request[1]
Length  == request[3]

Is(commands, length) == Command \in commands /\ Length >= length

\* the address that a read or a write begins with, and the cell of byte n behind it
Start   == ((request[4] * ByteSize + request[5]) * ByteSize + request[6]) * ByteSize + request[7]
Cell(n) == (Start + n) % MemSize

\* a packet that can be served: a read has an address and a count, a write an address
Good == damaged = 0 /\ (Is({2, 4}, 5) \/ Is({3, 5}, 4) \/ Is({0, 1, 6, 7}, 0))

Status ==
  CASE Good                                         -> 0
    [] damaged # 0                                  -> ByteSize - 1
    [] damaged = 0 /\ ~Good /\ Command \in 0 .. 7   -> ByteSize - 2
    [] damaged = 0 /\ ~Good /\ Command \notin 0 .. 7 -> ByteSize - 3

\* what is read; the count is the fifth byte
Payload ==
  CASE Good /\ Command = 2 -> [i \in 1 .. request[8] |-> memory["prog"][Cell(i - 1)]]
    [] Good /\ Command = 4 -> [i \in 1 .. request[8] |-> memory["data"][Cell(i - 1)]]
    [] Good /\ Command = 7 -> <<IF core_halted THEN 1 ELSE 0>>
    [] OTHER               -> <<>>

\* a memory with the bytes of a write; where it wraps, the last byte stays
BytesOf(a) == {i \in 8 .. Len(request) : Cell(i - 8) = a}
Stored(m)  ==
  [a \in Addr |-> IF BytesOf(a) = {} THEN m[a]
                  ELSE request[CHOOSE i \in BytesOf(a) : \A j \in BytesOf(a) : j <= i]]

-----------------------------------------------------------------------------
Init ==
  /\ request = <<>> /\ damaged = 0 /\ answer = <<>>
  /\ memory = [k \in Memories |-> [a \in Addr |-> 0]]
  /\ core_halted = FALSE

\* The tool asks, for the data memory of a halted core only.
Ask ==
  /\ request = <<>>
  /\ request' \in Seq(Byte) /\ Len(request') >= 3 /\ Len(request') = 3 + request'[3]
  /\ damaged' \in 0 .. Len(request')
  /\ request'[1] \in {4, 5} => core_halted
  /\ UNCHANGED <<answer, memory, core_halted>>

\* The request is done and answered; when the command or the id is damaged, the
\* answer may have any id.
Serve ==
  /\ request # <<>> /\ answer = <<>>
  /\ answer' \in Seq(Byte) /\ Len(answer') = 3 + Len(Payload)
  /\ answer'[1] = Status /\ answer'[3] = Len(Payload)
  /\ damaged \notin {1, 2} => answer'[2] = request[2]
  /\ \A i \in 1 .. Len(Payload) : answer'[i + 3] = Payload[i]
  /\ memory' = [k \in Memories |->
       IF Good /\ Command = (IF k = "prog" THEN 3 ELSE 5) THEN Stored(memory[k]) ELSE memory[k]]
  /\ core_halted' = IF Good /\ Command \in {0, 1, 6} THEN Command = 0 ELSE core_halted
  /\ UNCHANGED <<request, damaged>>

\* The tool takes the answer.
Take ==
  /\ answer # <<>>
  /\ request' = <<>> /\ damaged' = 0 /\ answer' = <<>>
  /\ UNCHANGED <<memory, core_halted>>

Next == Ask \/ Serve \/ Take

Spec == Init /\ [][Next]_vars

===============================================================================
