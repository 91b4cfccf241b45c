------------------------------ MODULE ByteMemory ------------------------------
(***************************************************************************)
(* What a program and a debugger may rely on: a memory of bytes, least      *)
(* significant byte first, from which one, two or four bytes are loaded     *)
(* with their sign or with zeros before them, and to which they are stored. *)
(* An access of n bytes is one of the block of n that its address is in.     *)
(***************************************************************************)
EXTENDS Integers

CONSTANTS
  ByteSize,     \* 256: the values of a byte
  Words         \* the memory holds the bytes 0 .. 4 * Words - 1

Byte     == 0 .. ByteSize - 1
ByteAddr == 0 .. 4 * Words - 1
Lane     == 0 .. 3
Word     == [Lane -> Byte]

VARIABLES
  bytes,    \* the memory
  access,   \* the last access
  answer    \* what it returned; what a store returns is arbitrary

\* an access of n bytes; a load ignores the data, a store the sign
Access == [write : BOOLEAN, addr : ByteAddr, n : {1, 2, 4}, signed : BOOLEAN, data : Word]

\* the first of the bytes an access of n bytes at addr reaches
Block(addr, n) == addr - (addr % n)

Negative(byte) == 2 * byte >= ByteSize

\* n bytes from addr, continued with the sign of the last or with zeros
Loaded(addr, n, signed) ==
  LET base == Block(addr, n)
      fill == IF signed /\ Negative(bytes[base + n - 1]) THEN ByteSize - 1 ELSE 0
  IN  [i \in Lane |-> IF i < n THEN bytes[base + i] ELSE fill]

\* the memory with the first n bytes of data from addr
Stored(addr, n, data) ==
  LET base == Block(addr, n)
  IN  [b \in ByteAddr |-> IF base <= b /\ b < base + n THEN data[b - base] ELSE bytes[b]]

Load(r) ==
  /\ ~r.write
  /\ answer' = Loaded(r.addr, r.n, r.signed)
  /\ UNCHANGED bytes

Store(r) ==
  /\ r.write
  /\ bytes' = Stored(r.addr, r.n, r.data)
  /\ answer' \in Word

Init == bytes \in [ByteAddr -> Byte] /\ access \in Access /\ answer \in Word

Next ==
  /\ access' \in Access
  /\ Load(access') \/ Store(access')

Spec == Init /\ [][Next]_<<bytes, access, answer>>

===============================================================================
