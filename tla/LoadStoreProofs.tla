---------------------------- MODULE LoadStoreProofs ----------------------------
(***************************************************************************)
(* The lanes of the data memory are right for bytes of any size and a        *)
(* memory of any length: the words implement ByteMemory.  The argument is     *)
(* one lemma on addresses, a lemma for what an access reads and one for what  *)
(* it writes, each by the operation.                                          *)
(***************************************************************************)
EXTENDS LoadStoreUnit, TLAPS

\* An address is a word and a lane, and the block of two or four bytes it is in
\* starts at the lane its high bit names, or at the word.
LEMMA AddressParts ==
  ASSUME NEW a \in ByteAddr
  PROVE  /\ a \div 4 \in 0 .. Words - 1 /\ a % 4 \in Lane
         /\ a = 4 * (a \div 4) + (a % 4)
         /\ BM!Block(a, 1) = a
         /\ High(a) \in {0, 1}
         /\ BM!Block(a, 2) = 4 * (a \div 4) + 2 * High(a)
         /\ BM!Block(a, 4) = 4 * (a \div 4)
<1>. Words \in Nat /\ a \in Nat /\ a <= 4 * Words - 1
  BY LaneAssumption DEF ByteAddr
<1>1. a % 4 \in Lane /\ a = 4 * (a \div 4) + (a % 4) /\ a \div 4 \in Nat
  BY DEF Lane
<1>2. a \div 4 \in 0 .. Words - 1
  BY <1>1 DEF Lane
<1>3. BM!Block(a, 1) = a
  BY DEF BM!Block
<1>4. High(a) \in {0, 1} /\ BM!Block(a, 2) = 4 * (a \div 4) + 2 * High(a)
  BY DEF BM!Block, High
<1>5. BM!Block(a, 4) = 4 * (a \div 4)
  BY <1>1 DEF BM!Block, Lane
<1>. QED  BY <1>1, <1>2, <1>3, <1>4, <1>5

\* The byte in lane i of word w is the byte at 4w + i.
LEMMA ByteOfLane ==
  ASSUME NEW w \in 0 .. Words - 1, NEW i \in Lane
  PROVE  /\ 4 * w + i \in ByteAddr
         /\ (4 * w + i) \div 4 = w /\ (4 * w + i) % 4 = i
         /\ AbstractBytes[4 * w + i] = ram[w][i]
<1>. Words \in Nat
  BY LaneAssumption
<1>1. 4 * w + i \in ByteAddr
  BY DEF ByteAddr, Lane
<1>2. (4 * w + i) \div 4 = w /\ (4 * w + i) % 4 = i
  BY DEF Lane
<1>. QED  BY <1>1, <1>2 DEF AbstractBytes

LEMMA SignTyped == ASSUME NEW b \in Byte PROVE Sign(b) \in Byte
BY LaneAssumption DEF Sign, Byte

\* ByteMemory's names for the same sets
LEMMA SameSets ==
  BM!Byte = Byte /\ BM!ByteAddr = ByteAddr /\ BM!Lane = Lane /\ BM!Word = Word
BY DEF BM!Byte, Byte, BM!ByteAddr, ByteAddr, BM!Lane, Lane, BM!Word, Word

LEMMA ZeroIsByte == 0 \in Byte
BY LaneAssumption DEF Byte

\* What is read is a word.
LEMMA ReadTyped ==
  ASSUME NEW type \in Loads \union Stores \union Debugs, NEW a \in ByteAddr, NEW w \in Word
  PROVE  AnswerOf(type, a, w) \in Word
<1>1. \A i \in Lane : w[i] \in Byte
  BY DEF Word
<1>2. Low(a) \in Lane /\ 2 * High(a) \in Lane /\ 2 * High(a) + 1 \in Lane
  BY AddressParts DEF Low, Lane
<1>3. \A from, to \in Lane, fill \in Byte : from <= to => Extend(w, from, to, fill) \in Word
  BY <1>1 DEF Extend, Lane, Word
<1>4. Zeros \in Word
  BY ZeroIsByte DEF Word, Zeros
<1>5. Sign(w[Low(a)]) \in Byte /\ Sign(w[2 * High(a) + 1]) \in Byte
  BY <1>1, <1>2, SignTyped
<1>6. 2 * High(a) <= 2 * High(a) + 1 /\ Low(a) <= Low(a)
  BY <1>2 DEF Lane
<1>7. CASE type \in Debugs
  BY <1>1, <1>2, <1>4, <1>7 DEF AnswerOf, read_data, Word, Low
<1>8. CASE type \in Loads \union Stores
  BY <1>2, <1>3, <1>4, <1>5, <1>6, <1>8, ZeroIsByte
    DEF AnswerOf, cpu_read_data_out, Loads, Stores, Debugs
<1>. QED  BY <1>7, <1>8

\* A load of the processor, or a read of the debugger, from the words is one from
\* the bytes.
LEMMA LoadRight ==
  ASSUME TypeOK, NEW type \in Loads \union {"DEBUG_READ"}, NEW a \in ByteAddr
  PROVE  AnswerOf(type, a, ram[a \div 4])
           = BM!Loaded(a, Size(type), type \in {"LOAD_BYTE", "LOAD_HALFWORD"})
<1>. DEFINE w == a \div 4
<1>1. w \in 0 .. Words - 1 /\ a % 4 \in Lane /\ High(a) \in {0, 1}
  BY AddressParts
<1>2. \A i \in Lane : AbstractBytes[4 * w + i] = ram[w][i]
  BY <1>1, ByteOfLane
<1>3. \A b \in Byte : Sign(b) = (IF BM!Negative(b) THEN ByteSize - 1 ELSE 0)
  BY DEF Sign, BM!Negative
<1>4. ram[w] \in Word /\ \A i \in Lane : ram[w][i] \in Byte
  BY <1>1 DEF TypeOK, Word
<1>5. a = 4 * w + Low(a) /\ Low(a) \in Lane
  BY AddressParts DEF Low
<1>6. BM!Loaded(a, 1, FALSE) = [i \in Lane |-> IF i = 0 THEN ram[w][Low(a)] ELSE 0]
  <2>1. \A i \in Lane : i < 1 <=> i = 0
    BY DEF Lane
  <2>2. AbstractBytes[a] = ram[w][Low(a)]
    BY <1>2, <1>5
  <2>3. a + 0 = a
    BY DEF ByteAddr
  <2>. QED  BY <2>1, <2>2, <2>3, AddressParts DEF BM!Loaded, BM!Lane, Lane
<1>7. BM!Loaded(a, 1, TRUE) = [i \in Lane |-> IF i = 0 THEN ram[w][Low(a)] ELSE Sign(ram[w][Low(a)])]
  <2>1. \A i \in Lane : i < 1 <=> i = 0
    BY DEF Lane
  <2>2. AbstractBytes[a] = ram[w][Low(a)]
    BY <1>2, <1>5
  <2>3. a + 0 = a /\ a + 1 - 1 = a
    BY DEF ByteAddr
  <2>4. Sign(AbstractBytes[a]) = (IF BM!Negative(AbstractBytes[a]) THEN ByteSize - 1 ELSE 0)
    BY <1>3, <1>4, <1>5, <2>2
  <2>. QED  BY <2>1, <2>2, <2>3, <2>4, AddressParts DEF BM!Loaded, BM!Lane, Lane
<1>. DEFINE h == 2 * High(a)
<1>8. /\ h \in Lane /\ h + 1 \in Lane
      /\ \A i \in Lane : i < 2 => h + i \in Lane /\ 4 * w + h + i = 4 * w + (h + i)
  BY <1>1 DEF Lane
<1>9. \A i \in Lane : i < 2 => AbstractBytes[BM!Block(a, 2) + i] = ram[w][h + i]
  BY <1>2, <1>8, AddressParts
<1>10. AbstractBytes[BM!Block(a, 2) + 2 - 1] = ram[w][h + 1]
  <2>1. BM!Block(a, 2) + 2 - 1 = 4 * w + (h + 1)
    BY <1>1, AddressParts DEF Lane
  <2>. QED  BY <1>2, <1>8, <2>1
<1>11. \A signed \in BOOLEAN :
         BM!Loaded(a, 2, signed) =
           [i \in Lane |-> IF i < 2 THEN ram[w][h + i]
                           ELSE IF signed THEN Sign(ram[w][h + 1]) ELSE 0]
  <2>1. Sign(ram[w][h + 1]) = (IF BM!Negative(ram[w][h + 1]) THEN ByteSize - 1 ELSE 0)
    BY <1>3, <1>4, <1>8
  <2>. QED  BY <1>9, <1>10, <2>1 DEF BM!Loaded, BM!Lane, Lane
<1>12. \A i \in Lane : AbstractBytes[BM!Block(a, 4) + i] = ram[w][i]
  BY <1>2, AddressParts
<1>13. BM!Loaded(a, 4, FALSE) = ram[w]
  <2>1. BM!Loaded(a, 4, FALSE) = [i \in Lane |-> ram[w][i]]
    <3>1. \A i \in Lane : i < 4
      BY DEF Lane
    <3>. QED  BY <1>12, <3>1 DEF BM!Loaded, BM!Lane, Lane
  <2>. QED  BY <1>4, <2>1 DEF Word
<1>. HIDE DEF w, h
<1>14. \A fill : Extend(ram[w], h, h + 1, fill) = [i \in Lane |-> IF i < 2 THEN ram[w][h + i] ELSE fill]
  <2>. TAKE fill
  <2>1. \A i \in Lane : (IF i <= (h + 1) - h THEN ram[w][h + i] ELSE fill)
                        = (IF i < 2 THEN ram[w][h + i] ELSE fill)
    BY <1>8 DEF Lane
  <2>2. Extend(ram[w], h, h + 1, fill) = [i \in Lane |-> IF i <= (h + 1) - h THEN ram[w][h + i] ELSE fill]
    BY DEF Extend
  <2>. QED  BY <2>1, <2>2, Zenon
<1>15. \A fill : Extend(ram[w], Low(a), Low(a), fill) = [i \in Lane |-> IF i = 0 THEN ram[w][Low(a)] ELSE fill]
  <2>1. \A i \in Lane : (i <= Low(a) - Low(a) <=> i = 0) /\ Low(a) + 0 = Low(a)
    BY <1>5 DEF Lane
  <2>. QED  BY <2>1 DEF Extend
<1>. DEFINE signed == type \in {"LOAD_BYTE", "LOAD_HALFWORD"}
<1>16. CASE type = "DEBUG_READ"
  <2>1. AnswerOf(type, a, ram[w]) = [i \in Lane |-> IF i = 0 THEN ram[w][Low(a)] ELSE 0]
    BY <1>16 DEF AnswerOf, Debugs, read_data, Zeros
  <2>2. Size(type) = 1 /\ signed = FALSE
    BY <1>16 DEF Size
  <2>. QED  BY <1>6, <2>1, <2>2 DEF w
<1>17. CASE type = "LOAD_WORD"
  <2>1. AnswerOf(type, a, ram[a \div 4]) = BM!Loaded(a, 4, FALSE)
    BY <1>13, <1>17 DEF AnswerOf, cpu_read_data_out, Loads, Stores, Debugs, w
  <2>2. Size(type) = 4 /\ signed = FALSE
    BY <1>17 DEF Size
  <2>. QED  BY <2>1, <2>2
<1>18. CASE type = "LOAD_BYTE"
  <2>1. AnswerOf(type, a, ram[a \div 4]) = BM!Loaded(a, 1, TRUE)
    BY <1>7, <1>15, <1>18 DEF AnswerOf, cpu_read_data_out, Loads, Stores, Debugs, w
  <2>2. Size(type) = 1 /\ signed = TRUE
    BY <1>18 DEF Size
  <2>. QED  BY <2>1, <2>2
<1>19. CASE type = "LOAD_BYTE_UNSIGNED"
  <2>1. AnswerOf(type, a, ram[a \div 4]) = BM!Loaded(a, 1, FALSE)
    BY <1>6, <1>15, <1>19 DEF AnswerOf, cpu_read_data_out, Loads, Stores, Debugs, w
  <2>2. Size(type) = 1 /\ signed = FALSE
    BY <1>19 DEF Size
  <2>. QED  BY <2>1, <2>2
<1>20. CASE type = "LOAD_HALFWORD"
  <2>1. AnswerOf(type, a, ram[a \div 4]) = BM!Loaded(a, 2, TRUE)
    BY <1>11, <1>14, <1>20 DEF AnswerOf, cpu_read_data_out, Loads, Stores, Debugs, w, h
  <2>2. Size(type) = 2 /\ signed = TRUE
    BY <1>20 DEF Size
  <2>. QED  BY <2>1, <2>2
<1>21. CASE type = "LOAD_HALFWORD_UNSIGNED"
  <2>1. AnswerOf(type, a, ram[a \div 4]) = BM!Loaded(a, 2, FALSE)
    BY <1>11, <1>14, <1>21 DEF AnswerOf, cpu_read_data_out, Loads, Stores, Debugs, w, h
  <2>2. Size(type) = 2 /\ signed = FALSE
    BY <1>21 DEF Size
  <2>. QED  BY <2>1, <2>2
<1>. QED  BY <1>16, <1>17, <1>18, <1>19, <1>20, <1>21 DEF Loads

\* A write through the lanes of a word is a store to the bytes of its block.
LEMMA StoreRight ==
  ASSUME TypeOK, NEW a \in ByteAddr, NEW n \in {1, 2, 4}, NEW mask, NEW data, NEW stored,
         mask = {i \in Lane : BM!Block(a, n) <= 4 * (a \div 4) + i /\ 4 * (a \div 4) + i < BM!Block(a, n) + n},
         \A i \in mask : data[i] = stored[4 * (a \div 4) + i - BM!Block(a, n)],
         MemoryAccess(a, mask, data)
  PROVE  AbstractBytes' = BM!Stored(a, n, stored)
<1>. DEFINE w == a \div 4  base == BM!Block(a, n)
<1>1. w \in 0 .. Words - 1 /\ base >= 4 * w /\ base + n <= 4 * w + 4 /\ base \in Int
  BY AddressParts DEF Lane
<1>2. ram' = [ram EXCEPT ![w] = [i \in Lane |-> IF i \in mask THEN data[i] ELSE ram[w][i]]]
  BY DEF MemoryAccess
<1>3. ASSUME NEW b \in ByteAddr
      PROVE  ram'[b \div 4][b % 4] =
               IF base <= b /\ b < base + n THEN stored[b - base] ELSE ram[b \div 4][b % 4]
  <2>1. b \div 4 \in 0 .. Words - 1 /\ b % 4 \in Lane /\ b = 4 * (b \div 4) + (b % 4)
    BY AddressParts
  <2>2. CASE b \div 4 = w
    <3>1. ram'[w][b % 4] = IF b % 4 \in mask THEN data[b % 4] ELSE ram[w][b % 4]
      BY <1>1, <1>2, <2>1 DEF TypeOK
    <3>2. b % 4 \in mask <=> base <= b /\ b < base + n
      BY <2>1, <2>2
    <3>3. CASE b % 4 \in mask
      <4>1. data[b % 4] = stored[4 * w + (b % 4) - base]
        BY <3>3
      <4>2. 4 * w + (b % 4) - base = b - base
        BY <1>1, <2>1, <2>2 DEF Lane
      <4>. QED  BY <2>2, <3>1, <3>2, <3>3, <4>1, <4>2
    <3>4. CASE b % 4 \notin mask
      BY <2>2, <3>1, <3>2, <3>4
    <3>. QED  BY <3>3, <3>4
  <2>3. CASE b \div 4 # w
    <3>1. ram'[b \div 4] = ram[b \div 4]
      BY <1>1, <1>2, <2>1, <2>3 DEF TypeOK
    <3>2. ~(base <= b /\ b < base + n)
      BY <1>1, <2>1, <2>3 DEF Lane
    <3>. QED  BY <3>1, <3>2
  <2>. QED  BY <2>2, <2>3
<1>. QED  BY <1>3 DEF AbstractBytes, BM!Stored, BM!ByteAddr, ByteAddr

LEMMA InitTyped == Init => TypeOK
<1>1. 0 \in ByteAddr /\ Zeros \in Word
  BY LaneAssumption, ZeroIsByte DEF ByteAddr, Zeros, Word
<1>. QED  BY <1>1 DEF Init, TypeOK, Loads

LEMMA NextTyped == TypeOK /\ [Next]_vars => TypeOK'
<1>. SUFFICES ASSUME TypeOK, [Next]_vars PROVE TypeOK'
  OBVIOUS
<1>1. ASSUME NEW a \in ByteAddr, NEW mask, NEW data,
             \A i \in Lane : i \in mask => data[i] \in Byte, MemoryAccess(a, mask, data)
      PROVE  ram' \in [0 .. Words - 1 -> Word] /\ q' \in Word
  <2>1. a \div 4 \in 0 .. Words - 1
    BY AddressParts
  <2>2. \A i \in Lane : ram[a \div 4][i] \in Byte
    BY <2>1 DEF TypeOK, Word
  <2>3. [i \in Lane |-> IF i \in mask THEN data[i] ELSE ram[a \div 4][i]] \in Word
    BY <1>1, <2>2 DEF Word
  <2>. QED  BY <1>1, <2>1, <2>3 DEF TypeOK, MemoryAccess
<1>2. ASSUME NEW a \in ByteAddr, NEW type \in Loads \union Stores, NEW data \in Word, CpuAccess(type, a, data)
      PROVE  TypeOK'
  <2>1. \A i \in Lane : data[i] \in Byte /\ data[i % 2] \in Byte /\ data[0] \in Byte
    BY DEF Word, Lane
  <2>2. \A i \in Lane : mem_write_data_out(type, data)[i] \in Byte
    BY <2>1, ZeroIsByte DEF mem_write_data_out, Zeros, Loads, Stores
  <2>. QED  BY <1>1, <1>2, <2>2 DEF CpuAccess, TypeOK
<1>3. Zeros \in Word
  BY ZeroIsByte DEF Word, Zeros
<1>4. ASSUME NEW a \in ByteAddr, DebugRead(a) PROVE TypeOK'
  BY <1>1, <1>3, <1>4 DEF DebugRead, TypeOK, Debugs
<1>5. ASSUME NEW a \in ByteAddr, NEW byte \in Byte, DebugWrite(a, byte) PROVE TypeOK'
  <2>1. \A i \in Lane : write_data_extended(a, byte)[i] \in Byte
    BY ZeroIsByte DEF write_data_extended
  <2>2. [Zeros EXCEPT ![0] = byte] \in Word
    BY <1>3 DEF Word
  <2>. QED  BY <1>1, <1>5, <2>1, <2>2 DEF DebugWrite, TypeOK, Debugs
<1>6. CASE UNCHANGED vars
  BY <1>6 DEF vars, TypeOK
<1>. QED  BY <1>2, <1>3, <1>4, <1>5, <1>6, StoreDataAssumption DEF Next

\* The type invariant, for bytes of any size and any number of words.
THEOREM TypeCorrect == Spec => []TypeOK
<1>. QED  BY InitTyped, NextTyped, PTL DEF Spec

\* The reader of an access is answered from the word as it was, with a word, and
\* the access is the one the operation means.
LEMMA AccessNext ==
  ASSUME TypeOK, NEW type \in Loads \union Stores \union Debugs, NEW a \in ByteAddr, NEW word \in Word,
         NEW mask, NEW data, op' = type, addr' = a, wdata' = word, MemoryAccess(a, mask, data)
  PROVE  /\ AnswerOf(op, addr, q)' = AnswerOf(type, a, ram[a \div 4])
         /\ AnswerOf(op, addr, q)' \in Word
         /\ AccessOf(op, addr, wdata)' = AccessOf(type, a, word)
         /\ AccessOf(type, a, word) \in BM!Access
<1>1. a \div 4 \in 0 .. Words - 1
  BY AddressParts
<1>2. ram[a \div 4] \in Word
  BY <1>1 DEF TypeOK
<1>3. AnswerOf(type, a, ram[a \div 4]) \in Word
  BY <1>2, ReadTyped
<1>4. q' = ram[a \div 4]
  BY DEF MemoryAccess
<1>5. AnswerOf(op, addr, q)' = AnswerOf(type, a, ram[a \div 4])
  BY <1>4 DEF AnswerOf, read_data, cpu_read_data_out, Extend, Sign, Low, High
<1>6. AccessOf(op, addr, wdata)' = AccessOf(type, a, word)
  BY DEF AccessOf, Size
<1>7. Size(type) \in {1, 2, 4}
  BY DEF Size
<1>8. AccessOf(type, a, word) \in BM!Access
  BY <1>7, SameSets DEF AccessOf, BM!Access
<1>. QED  BY <1>3, <1>5, <1>6, <1>8

\* A load of the words is a load of the bytes.
LEMMA LoadFollows ==
  ASSUME TypeOK, NEW type \in Loads \union {"DEBUG_READ"}, NEW a \in ByteAddr, NEW word \in Word, NEW data,
         op' = type, addr' = a, wdata' = word, MemoryAccess(a, {}, data)
  PROVE  BM!Next
<1>1. a \div 4 \in 0 .. Words - 1
  BY AddressParts
<1>2. ram' = ram
  <2>1. [i \in Lane |-> IF i \in {} THEN data[i] ELSE ram[a \div 4][i]] = ram[a \div 4]
    BY <1>1 DEF TypeOK, Word
  <2>. QED  BY <1>1, <2>1 DEF MemoryAccess, TypeOK
<1>3. AbstractBytes' = AbstractBytes
  BY <1>2 DEF AbstractBytes
<1>. DEFINE r == AccessOf(type, a, word)
<1>4. AnswerOf(op, addr, q)' = AnswerOf(type, a, ram[a \div 4]) /\ AccessOf(op, addr, wdata)' = r /\ r \in BM!Access
  BY AccessNext DEF Debugs
<1>5. ~r.write
  BY DEF AccessOf, Loads, Stores
<1>6. AnswerOf(type, a, ram[a \div 4]) = BM!Loaded(r.addr, r.n, r.signed)
  BY LoadRight DEF AccessOf
<1>. HIDE DEF r
<1>7. BM!Load(r)
  BY <1>3, <1>4, <1>5, <1>6 DEF BM!Load
<1>. QED  BY <1>4, <1>7 DEF BM!Next

\* A write of the lanes of a block is a store to the bytes of it.
LEMMA StoreFollows ==
  ASSUME TypeOK, NEW type \in Stores \union {"DEBUG_WRITE"}, NEW a \in ByteAddr, NEW word \in Word,
         NEW mask, NEW data, NEW n, n = Size(type),
         mask = {i \in Lane : BM!Block(a, n) <= 4 * (a \div 4) + i /\ 4 * (a \div 4) + i < BM!Block(a, n) + n},
         \A i \in mask : data[i] = word[4 * (a \div 4) + i - BM!Block(a, n)],
         op' = type, addr' = a, wdata' = word, MemoryAccess(a, mask, data)
  PROVE  BM!Next
<1>1. n \in {1, 2, 4}
  BY DEF Size
<1>2. AbstractBytes' = BM!Stored(a, n, word)
  BY <1>1, StoreRight
<1>. DEFINE r == AccessOf(type, a, word)
<1>3. AnswerOf(op, addr, q)' \in Word /\ AccessOf(op, addr, wdata)' = r /\ r \in BM!Access
  BY AccessNext DEF Debugs
<1>4. r.write
  BY DEF AccessOf
<1>5. AbstractBytes' = BM!Stored(r.addr, r.n, r.data)
  BY <1>2 DEF AccessOf
<1>. HIDE DEF r
<1>6. BM!Store(r)
  BY <1>3, <1>4, <1>5, SameSets DEF BM!Store
<1>. QED  BY <1>3, <1>6 DEF BM!Next

LEMMA CpuStoreFollows ==
  ASSUME TypeOK, NEW type \in Stores, NEW a \in ByteAddr, NEW data \in Word, CpuAccess(type, a, data)
  PROVE  BM!Next
<1>. DEFINE w == a \div 4
            mask == mem_write_mask_out(type, a)
            lanes == mem_write_data_out(type, data)
<1>1. /\ w \in 0 .. Words - 1 /\ a % 4 \in Lane /\ High(a) \in {0, 1} /\ a = 4 * w + (a % 4)
      /\ BM!Block(a, 1) = a /\ BM!Block(a, 2) = 4 * w + 2 * High(a) /\ BM!Block(a, 4) = 4 * w
  BY AddressParts
<1>2. op' = type /\ addr' = a /\ wdata' = data /\ MemoryAccess(a, mask, lanes)
  BY DEF CpuAccess
<1>3. CASE type = "STORE_WORD"
  <2>1. mask = {i \in Lane : BM!Block(a, 4) <= 4 * w + i /\ 4 * w + i < BM!Block(a, 4) + 4}
    BY <1>1, <1>3 DEF mem_write_mask_out, Lane, Loads
  <2>2. \A i \in mask : lanes[i] = data[4 * w + i - BM!Block(a, 4)]
    BY <1>1, <1>3 DEF mem_write_mask_out, mem_write_data_out, Lane, Loads
  <2>3. 4 = Size(type)
    BY <1>3 DEF Size
  <2>. HIDE DEF mask, lanes
  <2>. QED  BY <1>2, <2>1, <2>2, <2>3, StoreFollows
<1>4. CASE type = "STORE_HALFWORD"
  <2>1. mask = {i \in Lane : BM!Block(a, 2) <= 4 * w + i /\ 4 * w + i < BM!Block(a, 2) + 2}
    BY <1>1, <1>4 DEF mem_write_mask_out, Lane, Loads
  <2>2. \A i \in mask : lanes[i] = data[4 * w + i - BM!Block(a, 2)]
    BY <1>1, <1>4 DEF mem_write_mask_out, mem_write_data_out, Lane, Loads
  <2>3. 2 = Size(type)
    BY <1>4 DEF Size
  <2>. HIDE DEF mask, lanes
  <2>. QED  BY <1>2, <2>1, <2>2, <2>3, StoreFollows
<1>5. CASE type = "STORE_BYTE"
  <2>1. mask = {i \in Lane : BM!Block(a, 1) <= 4 * w + i /\ 4 * w + i < BM!Block(a, 1) + 1}
    BY <1>1, <1>5 DEF mem_write_mask_out, Lane, Loads, Low
  <2>2. \A i \in mask : lanes[i] = data[4 * w + i - BM!Block(a, 1)]
    BY <1>1, <1>5 DEF mem_write_mask_out, mem_write_data_out, Lane, Loads, Low
  <2>3. 1 = Size(type)
    BY <1>5 DEF Size
  <2>. HIDE DEF mask, lanes
  <2>. QED  BY <1>2, <2>1, <2>2, <2>3, StoreFollows
<1>. QED  BY <1>3, <1>4, <1>5 DEF Stores

LEMMA DebugWriteFollows ==
  ASSUME TypeOK, NEW a \in ByteAddr, NEW byte \in Byte, DebugWrite(a, byte)
  PROVE  BM!Next
<1>. DEFINE w == a \div 4
            mask == write_data_mask(a)
            lanes == write_data_extended(a, byte)
            word == [Zeros EXCEPT ![0] = byte]
<1>1. /\ w \in 0 .. Words - 1 /\ a % 4 \in Lane /\ a = 4 * w + (a % 4)
      /\ BM!Block(a, 1) = a
  BY AddressParts
<1>2. op' = "DEBUG_WRITE" /\ addr' = a /\ wdata' = word /\ MemoryAccess(a, mask, lanes)
  BY DEF DebugWrite
<1>3. mask = {i \in Lane : BM!Block(a, 1) <= 4 * w + i /\ 4 * w + i < BM!Block(a, 1) + 1}
  BY <1>1 DEF write_data_mask, Lane, Low
<1>4. word[0] = byte /\ word \in Word
  BY ZeroIsByte DEF Zeros, Lane, Word
<1>5. \A i \in mask : i = Low(a) /\ 4 * w + i - BM!Block(a, 1) = 0
  BY <1>1 DEF write_data_mask, Low, Lane
<1>6. \A i \in mask : lanes[i] = byte
  BY <1>1, <1>5 DEF write_data_extended, write_data_mask, Low
<1>7. \A i \in mask : lanes[i] = word[4 * w + i - BM!Block(a, 1)]
  BY <1>4, <1>5, <1>6
<1>8. 1 = Size("DEBUG_WRITE") /\ "DEBUG_WRITE" \in Stores \union {"DEBUG_WRITE"}
  BY DEF Size
<1>. HIDE DEF mask, lanes, word
<1>. QED  BY <1>2, <1>3, <1>4, <1>7, <1>8, StoreFollows

\* The words with their lanes implement the memory of bytes, for bytes of any
\* size and any number of words.
THEOREM ImplementsBytes == Spec => ImplementsByteMemory
<1>1. Init => BM!Init
  <2>. SUFFICES ASSUME Init PROVE BM!Init
    OBVIOUS
  <2>1. TypeOK
    BY InitTyped
  <2>2. AnswerOf(op, addr, q) \in Word
    BY <2>1, ReadTyped DEF TypeOK
  <2>3. \A a \in ByteAddr : AbstractBytes[a] \in Byte
    BY <2>1, AddressParts DEF AbstractBytes, TypeOK, Word
  <2>4. AbstractBytes \in [ByteAddr -> Byte]
    BY <2>3 DEF AbstractBytes
  <2>5. Size(op) \in {1, 2, 4}
    BY DEF Size
  <2>6. AccessOf(op, addr, wdata) \in BM!Access
    BY <2>1, <2>5, SameSets DEF AccessOf, BM!Access, TypeOK
  <2>. QED  BY <2>2, <2>4, <2>6, SameSets DEF BM!Init
<1>2. TypeOK /\ [Next]_vars
        => [BM!Next]_<<AbstractBytes, AccessOf(op, addr, wdata), AnswerOf(op, addr, q)>>
  <2>. SUFFICES ASSUME TypeOK, [Next]_vars
       PROVE  BM!Next \/ UNCHANGED <<AbstractBytes, AccessOf(op, addr, wdata), AnswerOf(op, addr, q)>>
    OBVIOUS
  <2>1. Zeros \in Word
    BY ZeroIsByte DEF Zeros, Word
  <2>2. ASSUME NEW a \in ByteAddr, NEW type \in Loads, CpuAccess(type, a, Zeros)
        PROVE  BM!Next
    <3>1. mem_write_mask_out(type, a) = {}
      BY DEF mem_write_mask_out, Loads
    <3>. QED  BY <2>1, <2>2, <3>1, LoadFollows DEF CpuAccess
  <2>3. ASSUME NEW a \in ByteAddr, DebugRead(a) PROVE BM!Next
    BY <2>1, <2>3, LoadFollows DEF DebugRead
  <2>4. ASSUME NEW a \in ByteAddr, NEW type \in Stores, NEW data \in StoreData, CpuAccess(type, a, data)
        PROVE  BM!Next
    BY <2>4, StoreDataAssumption, CpuStoreFollows
  <2>5. CASE UNCHANGED vars
    BY <2>5 DEF vars, AbstractBytes, AccessOf, Size, AnswerOf, read_data, cpu_read_data_out, Extend, Sign, Low, High
  <2>. QED  BY <2>2, <2>3, <2>4, <2>5, DebugWriteFollows DEF Next
<1>. QED  BY <1>1, <1>2, TypeCorrect, PTL DEF Spec, BM!Spec, ImplementsByteMemory
===============================================================================
