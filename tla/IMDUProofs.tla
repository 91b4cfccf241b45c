------------------------------ MODULE IMDUProofs ------------------------------
(***************************************************************************)
(* For every width: the registers keep their widths, the divider keeps the  *)
(* invariant of long division, and every result is the one that is expected *)
(***************************************************************************)
EXTENDS IMDU, TLAPS

-------------------------------------------------------------------------------
(* Division with remainder                                                   *)

\* Quotient and remainder are unique.
LEMMA DivModUnique ==
  ASSUME NEW x \in Int, NEW d \in Nat \ {0}, NEW k \in Int, NEW r \in 0 .. d - 1,
         x = k * d + r
  PROVE  x \div d = k /\ x % d = r
<1>. DEFINE q == x \div d
            m == x % d
<1>1. q \in Int /\ m \in 0 .. d - 1 /\ x = d * q + m
  OBVIOUS
<1>. HIDE DEF q, m
<1>2. d * (q - k) = r - m
  BY <1>1
<1>3. q - k \in Int
  BY <1>1
<1>4. CASE q - k >= 1
  <2>1. d * (q - k) >= d
    BY <1>3, <1>4
  <2>. QED  BY <2>1, <1>1, <1>2
<1>5. CASE q - k <= -1
  <2>1. d * (q - k) <= -d
    BY <1>3, <1>5
  <2>. QED  BY <2>1, <1>1, <1>2
<1>6. CASE q = k
  BY <1>1, <1>2, <1>6 DEF q, m
<1>. QED  BY <1>1, <1>3, <1>4, <1>5, <1>6

\* A multiple of the modulus does not count.
LEMMA ModShift ==
  ASSUME NEW x \in Int, NEW k \in Int, NEW d \in Nat \ {0}
  PROVE  (x + k * d) % d = x % d
<1>. DEFINE q == x \div d
            m == x % d
<1>1. q \in Int /\ m \in 0 .. d - 1 /\ x = d * q + m
  OBVIOUS
<1>. HIDE DEF q, m
<1>2. x + k * d = (q + k) * d + m
  BY <1>1
<1>3. x + k * d \in Int /\ q + k \in Int
  BY <1>1
<1>4. (x + k * d) % d = m
  BY <1>1, <1>2, <1>3, DivModUnique
<1>. QED  BY <1>4 DEF m

\* A number below the modulus is its own remainder.
LEMMA ModSmall ==
  ASSUME NEW d \in Nat \ {0}, NEW x \in 0 .. d - 1
  PROVE  x % d = x /\ x \div d = 0
OBVIOUS

\* The low part of a wide number's remainder, and its high part.
LEMMA ModHalves ==
  ASSUME NEW x \in Int, NEW d \in Nat \ {0}
  PROVE  /\ (x % (d * d)) % d = x % d
         /\ (x % (d * d)) \div d = (x \div d) % d
<1>. DEFINE h == x \div d
            l == x % d
            hh == h \div d
            hl == h % d
<1>1. h \in Int /\ l \in 0 .. d - 1 /\ x = d * h + l
  OBVIOUS
<1>2. hh \in Int /\ hl \in 0 .. d - 1 /\ h = d * hh + hl
  BY <1>1
<1>. HIDE DEF h, l, hh, hl
<1>3. x = hh * (d * d) + (hl * d + l)
  <2>1. d * (d * hh + hl) = hh * (d * d) + hl * d
    BY <1>2
  <2>. QED  BY <1>1, <1>2, <2>1
<1>4. hl * d + l \in 0 .. (d * d) - 1
  <2>1. hl * d \in Nat /\ hl * d <= (d - 1) * d
    BY <1>2
  <2>2. (d - 1) * d = d * d - d
    OBVIOUS
  <2>. QED  BY <1>1, <2>1, <2>2
<1>5. d * d \in Nat \ {0}
  OBVIOUS
<1>6. x % (d * d) = hl * d + l
  BY <1>2, <1>3, <1>4, <1>5, DivModUnique
<1>7. (hl * d + l) % d = l /\ (hl * d + l) \div d = hl
  <2>1. hl * d + l \in Int /\ hl \in Int
    BY <1>1, <1>2
  <2>. QED  BY <1>1, <2>1, DivModUnique
<1>. QED  BY <1>6, <1>7 DEF h, l, hl

-------------------------------------------------------------------------------
(* Powers of two                                                             *)

\* The powers double, and the wide ones are the squares of the narrow ones.
LEMMA PowFacts ==
  /\ \A n \in 0 .. 2 * XLEN : Pow2[n] \in Nat \ {0}
  /\ \A n \in 1 .. XLEN : Pow2[n] = 2 * Pow2[n - 1]
  /\ Pow2[2 * XLEN] = Pow2[XLEN] * Pow2[XLEN]
  /\ Pow2[2 * XLEN] = 2 * Pow2[2 * XLEN - 1]
  /\ Pow2[2 * XLEN - 1] = Pow2[XLEN] * Pow2[XLEN - 1]
  /\ Pow2[XLEN - 1] \in Nat \ {0} /\ Pow2[XLEN] \in Nat \ {0}
  /\ Pow2[2 * XLEN - 1] \in Nat \ {0} /\ Pow2[2 * XLEN] \in Nat \ {0}
<1>1. \A n \in 0 .. 2 * XLEN : Pow2[n] \in Nat \ {0}
  BY WidthAssumption, PowAssumption
<1>2. \A n \in 1 .. XLEN : Pow2[n] = 2 * Pow2[n - 1]
  <2>1. TAKE n \in 1 .. XLEN
  <2>2. n - 1 \in 0 .. XLEN /\ 1 \in 0 .. XLEN /\ 1 + (n - 1) = n
    BY WidthAssumption
  <2>. QED  BY <2>2, PowAssumption
<1>3. Pow2[2 * XLEN] = Pow2[XLEN] * Pow2[XLEN]
  <2>1. XLEN \in 0 .. XLEN /\ XLEN + XLEN = 2 * XLEN
    BY WidthAssumption
  <2>. QED  BY <2>1, PowAssumption
<1>4. Pow2[2 * XLEN - 1] = Pow2[XLEN] * Pow2[XLEN - 1]
  <2>1. XLEN \in 0 .. XLEN /\ XLEN - 1 \in 0 .. XLEN /\ XLEN + (XLEN - 1) = 2 * XLEN - 1
    BY WidthAssumption
  <2>. QED  BY <2>1, PowAssumption
<1>5. /\ XLEN - 1 \in 0 .. 2 * XLEN /\ XLEN \in 0 .. 2 * XLEN
      /\ 2 * XLEN - 1 \in 0 .. 2 * XLEN /\ 2 * XLEN \in 0 .. 2 * XLEN
      /\ XLEN \in 1 .. XLEN
  BY WidthAssumption
<1>6. Pow2[XLEN] = 2 * Pow2[XLEN - 1]
  BY <1>2, <1>5
<1>7. /\ Pow2[XLEN - 1] \in Nat \ {0} /\ Pow2[XLEN] \in Nat \ {0}
      /\ Pow2[2 * XLEN - 1] \in Nat \ {0} /\ Pow2[2 * XLEN] \in Nat \ {0}
  BY <1>1, <1>5
<1>8. Pow2[2 * XLEN] = 2 * Pow2[2 * XLEN - 1]
  <2>1. \A p, h \in Nat : p = 2 * h => p * p = 2 * (p * h)
    OBVIOUS
  <2>. QED  BY <1>3, <1>4, <1>6, <1>7, <2>1
<1>. QED  BY <1>1, <1>2, <1>3, <1>4, <1>7, <1>8

\* Powers of two grow.
LEMMA PowGrows ==
  ASSUME NEW m \in 0 .. XLEN, NEW n \in 0 .. m
  PROVE  Pow2[n] <= Pow2[m]
<1>1. m - n \in 0 .. XLEN /\ n \in 0 .. XLEN /\ (m - n) + n = m
  BY WidthAssumption
<1>2. Pow2[m] = Pow2[m - n] * Pow2[n]
  BY <1>1, PowAssumption
<1>3. Pow2[m - n] \in Nat \ {0} /\ Pow2[n] \in Nat \ {0}
  <2>1. m - n \in 0 .. 2 * XLEN /\ n \in 0 .. 2 * XLEN
    BY <1>1, WidthAssumption
  <2>. QED  BY <2>1, PowFacts
<1>4. \A p, q \in Nat \ {0} : q <= p * q
  OBVIOUS
<1>. QED  BY <1>2, <1>3, <1>4

-------------------------------------------------------------------------------
(* The operators on words                                                    *)

\* Negation and absolute value stay within a word.
LEMMA NegWord ==
  ASSUME NEW x \in Word
  PROVE  Neg(x) \in Word /\ \A s \in BOOLEAN : Abs(s, x) \in Word
<1>1. Neg(x) \in Word
  BY PowFacts DEF Neg, Word
<1>. QED  BY <1>1 DEF Abs

\* The magnitude IDIV loads is a word.
LEMMA AbsWord ==
  ASSUME NEW op, NEW x \in Word
  PROVE  Abs(Signs(op), x) \in Word
BY NegWord DEF Abs

\* What IMUL puts out is a word.
LEMMA MulWord ==
  ASSUME NEW op \in Op, NEW a \in Word, NEW b \in Word
  PROVE  mul_result(op, a, b) \in Word
<1>. DEFINE x == mul_op_a(op, a) * mul_op_b(op, b)
            d == Pow2[XLEN]
<1>1. d \in Nat \ {0} /\ a \in Int /\ b \in Int
  BY PowFacts DEF Word
<1>2. mul_op_a(op, a) \in Int /\ mul_op_b(op, b) \in Int
  BY <1>1 DEF mul_op_a, mul_op_b, Signed
<1>3. x \in Int
  BY <1>2
<1>4. mul_result_wide(op, a, b) = x % (d * d)
  BY PowFacts DEF mul_result_wide
<1>. HIDE DEF x, d
<1>5. (x % (d * d)) % d \in 0 .. d - 1 /\ (x \div d) % d \in 0 .. d - 1
  <2>1. x \div d \in Int
    BY <1>1, <1>3
  <2>2. (x \div d) % d \in 0 .. d - 1 /\ x % d \in 0 .. d - 1
    BY <1>1, <1>3, <2>1
  <2>. QED  BY <1>1, <1>3, <2>2, ModHalves
<1>6. (x % (d * d)) \div d \in 0 .. d - 1
  BY <1>1, <1>3, <1>5, ModHalves
<1>. QED  BY <1>4, <1>5, <1>6 DEF mul_result, Word, d

-------------------------------------------------------------------------------
(* The inductive invariant                                                   *)

\* While IDIV runs, its flags are those of the operation that entered.
FlagsOfJob ==
  busy =>
    /\ job.op \in DivOp
    /\ sign_res_reg = sign_res(job.op, job.a, job.b)
    /\ is_res_quotient_reg = (job.op \in DivQuotientOp)

IInv == TypeOK /\ DueOnce /\ FlagsOfJob /\ DivisionInvariant /\ ResultRight

\* The sign bit of the wide difference says which operand is smaller, because the
\* dividend is a word and the divisor is below half of the wide range.
LEMMA DiffSign ==
  ASSUME TypeOK, dividend_wide < Pow2[XLEN], divisor_wide <= Pow2[2 * XLEN - 1]
  PROVE  /\ DiffNegative <=> dividend_wide < divisor_wide
         /\ ~DiffNegative => diff_wide = dividend_wide - divisor_wide
<1>. DEFINE m == Pow2[2 * XLEN]
            h == Pow2[2 * XLEN - 1]
<1>1. m \in Nat \ {0} /\ h \in Nat \ {0} /\ m = 2 * h
  BY PowFacts
<1>2. dividend_wide \in Nat /\ divisor_wide \in Nat /\ divisor_wide <= h
  BY PowFacts DEF TypeOK, WideWord
<1>3. dividend_wide < h
  <2>1. Pow2[XLEN] <= h
    <3>1. \A p, q \in Nat \ {0} : p <= p * q
      OBVIOUS
    <3>. QED  BY <3>1, PowFacts
  <2>. QED  BY <2>1, <1>1, <1>2, PowFacts
<1>4. diff_wide = (dividend_wide - divisor_wide) % m /\ (DiffNegative <=> diff_wide >= h)
  BY DEF diff_wide, DiffNegative
<1>. HIDE DEF m, h
<1>5. CASE dividend_wide < divisor_wide
  <2>1. /\ dividend_wide - divisor_wide = (-1) * m + (dividend_wide - divisor_wide + m)
        /\ dividend_wide - divisor_wide + m \in 0 .. m - 1
        /\ dividend_wide - divisor_wide \in Int
    BY <1>1, <1>2, <1>5
  <2>2. (dividend_wide - divisor_wide) % m = dividend_wide - divisor_wide + m
    <3>. DEFINE x == dividend_wide - divisor_wide
    <3>1. x \in Int /\ x + 1 * m \in 0 .. m - 1 /\ x + 1 * m = x + m
      BY <2>1, <1>1
    <3>. HIDE DEF x
    <3>2. (x + 1 * m) % m = x % m
      <4>1. 1 \in Int
        OBVIOUS
      <4>. QED  BY <4>1, <3>1, <1>1, ModShift
    <3>3. (x + 1 * m) % m = x + 1 * m
      BY <3>1, <1>1, ModSmall
    <3>. QED  BY <3>1, <3>2, <3>3 DEF x
  <2>. QED  BY <2>2, <1>1, <1>2, <1>3, <1>4, <1>5
<1>6. CASE ~(dividend_wide < divisor_wide)
  <2>1. dividend_wide - divisor_wide \in 0 .. m - 1
    BY <1>1, <1>2, <1>3, <1>6
  <2>2. diff_wide = dividend_wide - divisor_wide
    BY <2>1, <1>1, <1>4, ModSmall
  <2>. QED  BY <2>2, <1>1, <1>2, <1>3, <1>4, <1>6
<1>. QED  BY <1>5, <1>6

\* The arithmetic of one iteration: from a remainder below 2 d to one below d.
LEMMA Subtract ==
  ASSUME NEW a \in Nat, NEW q \in Nat, NEW r \in Nat, NEW d \in Nat, NEW p \in Nat, p > a,
         a = q * (2 * d) + r, r < 2 * d
  PROVE  /\ r < d => a = (2 * q) * d + r /\ (2 * q) % p = 2 * q
         /\ r >= d => /\ a = (2 * q + 1) * d + (r - d)
                      /\ r - d < d /\ r - d \in Nat
                      /\ (2 * q + 1) % p = 2 * q + 1
<1>1. d >= 1
  OBVIOUS
<1>2. \A k \in Nat : k <= k * d
  BY <1>1
<1>3. (2 * q) * d = q * (2 * d) /\ (2 * q + 1) * d = q * (2 * d) + d
  OBVIOUS
<1>4. ASSUME r < d PROVE a = (2 * q) * d + r /\ (2 * q) % p = 2 * q
  <2>1. 2 * q \in Nat /\ 2 * q <= (2 * q) * d
    BY <1>2
  <2>2. 2 * q \in 0 .. p - 1
    BY <2>1, <1>3
  <2>. QED  BY <2>2, <1>3, ModSmall
<1>5. ASSUME r >= d PROVE /\ a = (2 * q + 1) * d + (r - d)
                          /\ r - d < d /\ r - d \in Nat
                          /\ (2 * q + 1) % p = 2 * q + 1
  <2>1. 2 * q + 1 \in Nat /\ 2 * q + 1 <= (2 * q + 1) * d
    BY <1>2
  <2>2. 2 * q + 1 \in 0 .. p - 1
    BY <2>1, <1>3, <1>5
  <2>. QED  BY <2>2, <1>3, <1>5, ModSmall
<1>. QED  BY <1>4, <1>5

-------------------------------------------------------------------------------
(* Loading and iterating                                                     *)

\* The invariant of long division for given values of the registers.
LongDivision(a, b, c, q, r, d) ==
  /\ d = (b * Pow2[c - 1]) \div 2
  /\ a = q * (b * Pow2[c - 1]) + r
  /\ b # 0 => r < b * Pow2[c - 1]
  /\ b = 0 => q = Pow2[Iterations - c] - 1

\* It holds when the operands enter.
LEMMA LoadDivides ==
  ASSUME NEW a \in Word, NEW b \in Word
  PROVE  LongDivision(a, b, XLEN + 1, 0, a, b * Pow2[XLEN - 1])
<1>. DEFINE p == Pow2[XLEN]
            h == Pow2[XLEN - 1]
<1>1. p \in Nat \ {0} /\ h \in Nat \ {0} /\ p = 2 * h
  <2>1. XLEN \in 1 .. XLEN
    BY WidthAssumption
  <2>. QED  BY <2>1, PowFacts
<1>2. XLEN + 1 - 1 = XLEN /\ Iterations - (XLEN + 1) = 0 /\ Pow2[0] = 1
  BY WidthAssumption, PowAssumption DEF Iterations
<1>3. a \in 0 .. p - 1 /\ b \in 0 .. p - 1
  BY DEF Word
<1>. HIDE DEF p, h
<1>4. b * p = 2 * (b * h) /\ b * h \in Nat
  BY <1>1, <1>3
<1>5. (b * p) \div 2 = b * h
  BY <1>4
<1>6. b # 0 => a < b * p
  <2>1. \A x \in Nat \ {0} : p <= x * p
    BY <1>1
  <2>. QED  BY <2>1, <1>1, <1>3
<1>7. a = 0 * (b * p) + a
  BY <1>1, <1>3
<1>8. Pow2[XLEN + 1 - 1] = p /\ Pow2[Iterations - (XLEN + 1)] = 1 /\ Pow2[XLEN - 1] = h
  BY <1>2 DEF p, h
<1>9. 0 = Pow2[Iterations - (XLEN + 1)] - 1
  BY <1>8
<1>10. b * Pow2[XLEN - 1] = (b * Pow2[XLEN + 1 - 1]) \div 2
  BY <1>5, <1>8
<1>11. a = 0 * (b * Pow2[XLEN + 1 - 1]) + a /\ (b # 0 => a < b * Pow2[XLEN + 1 - 1])
  BY <1>6, <1>7, <1>8
<1>12. a \in Nat /\ b * Pow2[XLEN + 1 - 1] \in Nat /\ XLEN \in Nat
  BY <1>1, <1>3, <1>8, WidthAssumption
<1>. QED  BY <1>9, <1>10, <1>11, <1>12 DEF LongDivision

\* The divisor stays below half of the wide range.
LEMMA DivisorBound ==
  ASSUME NEW b \in Word, NEW n \in 0 .. XLEN - 1
  PROVE  b * Pow2[n] <= Pow2[2 * XLEN - 1]
<1>1. n \in 0 .. XLEN - 1 /\ XLEN - 1 \in 0 .. XLEN /\ n \in 0 .. 2 * XLEN
  BY WidthAssumption
<1>2. Pow2[n] <= Pow2[XLEN - 1] /\ Pow2[n] \in Nat
  BY <1>1, PowGrows, PowFacts
<1>3. b \in Nat /\ b <= Pow2[XLEN]
  BY PowFacts DEF Word
<1>4. \A x, y, u, v \in Nat : x <= u /\ y <= v => x * y <= u * v
  <2>1. TAKE x, y, u, v \in Nat
  <2>2. HAVE x <= u /\ y <= v
  <2>3. x * y <= x * v
    BY <2>2
  <2>4. x * v <= u * v
    BY <2>2
  <2>. QED  BY <2>3, <2>4
<1>. QED  BY <1>2, <1>3, <1>4, PowFacts

\* An iteration that is not the last keeps it.
LEMMA IterateDivides ==
  ASSUME TypeOK, cnt \in 2 .. XLEN + 1, NEW a \in Word, NEW b \in Word, NEW out,
         LongDivision(a, b, cnt, quotient, dividend_wide, divisor_wide),
         DivIterate(out)
  PROVE  LongDivision(a, b, cnt', quotient', dividend_wide', divisor_wide')
<1>. DEFINE e == b * Pow2[cnt - 2]
            q == quotient
            r == dividend_wide
            p == Pow2[XLEN]
<1>1. /\ cnt - 1 \in 1 .. XLEN /\ cnt - 2 \in 0 .. XLEN - 1 /\ cnt - 2 \in 0 .. 2 * XLEN
      /\ (cnt - 1) - 1 = cnt - 2 /\ cnt - 1 \in 0 .. 2 * XLEN
  BY WidthAssumption
<1>2. /\ p \in Nat \ {0} /\ a \in Nat /\ a < p /\ b \in Nat /\ b < p
      /\ q \in Nat /\ r \in Nat /\ q < p
  BY PowFacts DEF TypeOK, Word, WideWord
<1>3. Pow2[cnt - 1] = 2 * Pow2[cnt - 2] /\ Pow2[cnt - 2] \in Nat \ {0}
  BY <1>1, PowFacts
<1>4. b * Pow2[cnt - 1] = 2 * e /\ e \in Nat
  BY <1>2, <1>3
<1>5. e <= Pow2[2 * XLEN - 1]
  BY <1>1, DivisorBound
<1>6. cnt' = cnt - 1 /\ cnt' - 1 = cnt - 2 /\ b * Pow2[cnt' - 1] = e
  BY <1>1 DEF DivIterate, TypeOK
<1>7. divisor_wide = e /\ a = q * (2 * e) + r /\ (b # 0 => r < 2 * e)
  BY <1>4 DEF LongDivision
<1>8. divisor_wide' = e \div 2
  BY <1>7 DEF DivIterate
<1>9. r < p
  <2>1. q * (2 * e) \in Nat
    BY <1>2, <1>4
  <2>. QED  BY <2>1, <1>2, <1>7
<1>10. (DiffNegative <=> r < e) /\ (~DiffNegative => diff_wide = r - e)
  BY <1>5, <1>7, <1>9, DiffSign
<1>11. quotient' = (2 * q + quotient_bit) % p
  BY DEF DivIterate
<1>12. dividend_wide' = IF DiffNegative THEN r ELSE diff_wide
  BY DEF DivIterate
<1>13. CASE b # 0
  <2>1. CASE r < e
    <3>1. quotient_bit = 0 /\ dividend_wide' = r
      BY <2>1, <1>10, <1>12 DEF quotient_bit
    <3>2. quotient' = 2 * q /\ a = (2 * q) * e + r
      <4>. HIDE DEF e, q, r, p
      <4>. QED  BY <2>1, <3>1, <1>2, <1>4, <1>7, <1>11, <1>13, Subtract
    <3>. QED  BY <2>1, <3>1, <3>2, <1>6, <1>8, <1>13 DEF LongDivision
  <2>2. CASE ~(r < e)
    <3>1. quotient_bit = 1 /\ dividend_wide' = r - e
      BY <2>2, <1>10, <1>12 DEF quotient_bit
    <3>2. quotient' = 2 * q + 1 /\ a = (2 * q + 1) * e + (r - e) /\ r - e < e
      <4>. HIDE DEF e, q, r, p
      <4>1. r >= e
        BY <2>2, <1>2, <1>4
      <4>. QED  BY <4>1, <3>1, <1>2, <1>4, <1>7, <1>11, <1>13, Subtract
    <3>. QED  BY <3>1, <3>2, <1>6, <1>8, <1>13 DEF LongDivision
  <2>. QED  BY <2>1, <2>2
<1>14. CASE b = 0
  <2>1. e = 0
    BY <1>3, <1>14
  <2>2. quotient_bit = 1 /\ dividend_wide' = r
    BY <2>1, <1>2, <1>10, <1>12 DEF quotient_bit
  <2>3. q = Pow2[Iterations - cnt] - 1
    BY <1>14 DEF LongDivision
  <2>4. /\ Iterations - cnt \in 0 .. XLEN /\ Iterations - cnt' = (Iterations - cnt) + 1
        /\ Iterations - cnt' \in 1 .. XLEN /\ XLEN \in 0 .. XLEN
        /\ Iterations - cnt' \in 0 .. XLEN /\ (Iterations - cnt') - 1 = Iterations - cnt
    BY <1>1, <1>6, WidthAssumption DEF Iterations
  <2>5. Pow2[Iterations - cnt'] = 2 * Pow2[Iterations - cnt]
    BY <2>4, PowFacts
  <2>6. Pow2[Iterations - cnt'] <= p
    BY <2>4, PowGrows
  <2>7. 2 * q + 1 = Pow2[Iterations - cnt'] - 1 /\ 2 * q + 1 \in 0 .. p - 1
    BY <2>3, <2>5, <2>6, <1>2, <2>4, PowFacts
  <2>8. quotient' = Pow2[Iterations - cnt'] - 1
    <3>. HIDE DEF q, p
    <3>. QED  BY <2>2, <2>7, <1>2, <1>11, ModSmall
  <2>9. a = quotient' * e + r
    <3>1. quotient' \in Nat
      BY <2>7, <2>8
    <3>2. q * (2 * e) = 0 /\ quotient' * e = 0
      BY <3>1, <2>1, <1>2
    <3>. QED  BY <3>2, <1>2, <1>7
  <2>. QED  BY <2>2, <2>8, <2>9, <1>6, <1>8, <1>14 DEF LongDivision
<1>. QED  BY <1>13, <1>14

-------------------------------------------------------------------------------
(* What the datapath computes                                                *)

\* Two's complement: the signed value and its absolute value.
LEMMA SignedFacts ==
  ASSUME NEW x \in Word
  PROVE  /\ Signed(x) \in Int /\ AbsInt(Signed(x)) = Abs(TRUE, x)
         /\ Msb(x) <=> Signed(x) < 0
         /\ Msb(x) => Neg(x) = Pow2[XLEN] - x /\ x # 0
         /\ Abs(TRUE, x) = 0 <=> x = 0
         /\ Abs(FALSE, x) = x
<1>. DEFINE p == Pow2[XLEN]
            h == Pow2[XLEN - 1]
<1>1. p \in Nat \ {0} /\ h \in Nat \ {0} /\ x \in 0 .. p - 1
  BY PowFacts DEF Word
<1>2. Msb(x) <=> x >= h
  BY DEF Msb
<1>3. Neg(x) = (p - x) % p
  BY DEF Neg
<1>4. Signed(x) = IF Msb(x) THEN x - p ELSE x
  BY DEF Signed
<1>. HIDE DEF p, h
<1>5. Msb(x) => x # 0 /\ p - x \in 0 .. p - 1
  BY <1>1, <1>2
<1>6. Msb(x) => Neg(x) = p - x
  BY <1>1, <1>3, <1>5, ModSmall
<1>7. Abs(TRUE, x) = (IF Msb(x) THEN Neg(x) ELSE x) /\ Abs(FALSE, x) = x
  BY DEF Abs
<1>8. CASE Msb(x)
  <2>1. /\ Signed(x) = x - p /\ Neg(x) = p - x /\ x # 0
        /\ Abs(TRUE, x) = p - x
    BY <1>4, <1>5, <1>6, <1>7, <1>8
  <2>2. Signed(x) \in Int /\ Signed(x) < 0
    BY <2>1, <1>1
  <2>3. AbsInt(Signed(x)) = p - x
    BY <2>1, <2>2, <1>1 DEF AbsInt
  <2>4. Abs(TRUE, x) # 0 /\ x # 0
    <3>1. p - x # 0
      BY <1>1
    <3>. QED  BY <2>1, <3>1
  <2>. QED  BY <1>7, <1>8, <2>1, <2>2, <2>3, <2>4 DEF p
<1>9. CASE ~Msb(x)
  <2>1. Signed(x) = x /\ Abs(TRUE, x) = x
    BY <1>4, <1>7, <1>9
  <2>2. Signed(x) \in Int /\ ~(Signed(x) < 0)
    BY <2>1, <1>1
  <2>3. AbsInt(Signed(x)) = x
    BY <2>1, <2>2 DEF AbsInt
  <2>. QED  BY <1>7, <1>9, <2>1, <2>2, <2>3
<1>. QED  BY <1>8, <1>9

\* A negated word is the wrapped negative number.
LEMMA NegWraps ==
  ASSUME NEW x \in Word
  PROVE  Wrap(x) = x /\ Wrap(-x) = Neg(x) /\ Wrap(-1) = Pow2[XLEN] - 1
<1>. DEFINE p == Pow2[XLEN]
<1>1. p \in Nat \ {0} /\ x \in 0 .. p - 1
  BY PowFacts DEF Word
<1>2. Wrap(x) = x % p /\ Wrap(-x) = (-x) % p /\ Neg(x) = (p - x) % p /\ Wrap(-1) = (-1) % p
  BY DEF Wrap, Neg
<1>. HIDE DEF p
<1>3. -x \in Int /\ 1 \in Int /\ -x + 1 * p = p - x
  BY <1>1
<1>4. (p - x) % p = (-x) % p
  BY <1>1, <1>3, ModShift
<1>5. -1 \in Int /\ -1 + 1 * p \in 0 .. p - 1 /\ -1 + 1 * p = p - 1
  BY <1>1
<1>6. (-1) % p = (-1 + 1 * p) % p /\ (-1 + 1 * p) % p = -1 + 1 * p
  BY <1>1, <1>3, <1>5, ModShift, ModSmall
<1>. QED  BY <1>1, <1>2, <1>4, <1>5, <1>6, ModSmall DEF p

\* The multiplier computes the four products.
LEMMA MulRight ==
  ASSUME NEW op \in MulOp, NEW a \in Word, NEW b \in Word
  PROVE  mul_result(op, a, b) = Expected(op, a, b)
<1>. DEFINE p == Pow2[XLEN]
<1>1. /\ p \in Nat \ {0} /\ a \in 0 .. p - 1 /\ b \in 0 .. p - 1
      /\ Signed(a) \in Int /\ Signed(b) \in Int
  BY PowFacts, SignedFacts DEF Word
<1>2. mul_result_wide(op, a, b) = (mul_op_a(op, a) * mul_op_b(op, b)) % (p * p)
  BY PowFacts DEF mul_result_wide
<1>3. \E s, t \in {0, -1} : Signed(a) = a + s * p /\ Signed(b) = b + t * p
  <2>1. \A x \in 0 .. p - 1 : Signed(x) = x + 0 * p \/ Signed(x) = x + (-1) * p
    BY <1>1 DEF Signed
  <2>. QED  BY <2>1, <1>1
<1>4. /\ mul_result("MUL", a, b) = mul_result_wide("MUL", a, b) % p
      /\ op # "MUL" => mul_result(op, a, b) = mul_result_wide(op, a, b) \div p
  BY DEF mul_result
<1>5. \A x \in Int : Wrap(x) = x % p
  BY DEF Wrap
<1>. HIDE DEF p
<1>6. CASE op = "MUL"
  <2>1. PICK s \in {0, -1}, t \in {0, -1} : Signed(a) = a + s * p /\ Signed(b) = b + t * p
    BY <1>3
  <2>2. /\ Signed(a) * Signed(b) = a * b + (s * b + t * a + s * t * p) * p
        /\ s * b + t * a + s * t * p \in Int /\ a * b \in Int
    BY <1>1, <2>1
  <2>3. (Signed(a) * Signed(b)) % p = (a * b) % p
    <3>. DEFINE ab == a * b
                k  == s * b + t * a + s * t * p
    <3>1. ab \in Int /\ k \in Int /\ Signed(a) * Signed(b) = ab + k * p
      BY <2>2
    <3>. HIDE DEF ab, k
    <3>2. (ab + k * p) % p = ab % p
      BY <3>1, <1>1, ModShift
    <3>. QED  BY <3>1, <3>2 DEF ab
  <2>4. Signed(a) * Signed(b) \in Int
    BY <1>1
  <2>5. mul_result_wide(op, a, b) = (Signed(a) * Signed(b)) % (p * p)
    BY <1>2, <1>6 DEF mul_op_a, mul_op_b
  <2>6. mul_result(op, a, b) = (a * b) % p
    BY <1>1, <1>4, <1>6, <2>3, <2>4, <2>5, ModHalves
  <2>. QED  BY <1>5, <1>6, <2>2, <2>6 DEF Expected
<1>7. CASE op = "MULH"
  <2>1. Signed(a) * Signed(b) \in Int
    BY <1>1
  <2>2. mul_result_wide(op, a, b) = (Signed(a) * Signed(b)) % (p * p)
    BY <1>2, <1>7 DEF mul_op_a, mul_op_b
  <2>3. mul_result(op, a, b) = ((Signed(a) * Signed(b)) \div p) % p
    BY <1>1, <1>4, <1>7, <2>1, <2>2, ModHalves
  <2>. QED  BY <1>7, <2>3 DEF Expected, Wrap, p
<1>8. CASE op = "MULHSU"
  <2>1. Signed(a) * b \in Int
    BY <1>1
  <2>2. mul_result_wide(op, a, b) = (Signed(a) * b) % (p * p)
    BY <1>2, <1>8 DEF mul_op_a, mul_op_b
  <2>3. mul_result(op, a, b) = ((Signed(a) * b) \div p) % p
    BY <1>1, <1>4, <1>8, <2>1, <2>2, ModHalves
  <2>. QED  BY <1>8, <2>3 DEF Expected, Wrap, p
<1>9. CASE op = "MULHU"
  <2>1. a * b \in 0 .. (p * p) - 1 /\ p * p \in Nat \ {0}
    <3>1. a * b <= (p - 1) * b /\ (p - 1) * b <= (p - 1) * p /\ a * b >= 0
      BY <1>1
    <3>2. (p - 1) * p = p * p - p
      BY <1>1
    <3>. QED  BY <3>1, <3>2, <1>1
  <2>2. mul_result_wide(op, a, b) = (a * b) % (p * p)
    BY <1>2, <1>9 DEF mul_op_a, mul_op_b
  <2>3. (a * b) % (p * p) = a * b
    BY <2>1, ModSmall
  <2>4. mul_result(op, a, b) = (a * b) \div p
    BY <1>4, <1>9, <2>2, <2>3
  <2>. QED  BY <1>9, <2>4 DEF Expected, p
<1>. QED  BY <1>6, <1>7, <1>8, <1>9 DEF MulOp

\* Quotient and remainder of absolute values.
LEMMA MagnitudeRight ==
  ASSUME NEW a \in Word, NEW b \in Word, NEW q \in Word, NEW r \in Nat, NEW d,
         LongDivision(a, b, 1, q, r, d)
  PROVE  /\ b # 0 => q = a \div b /\ r = a % b
         /\ b = 0 => q = Pow2[XLEN] - 1 /\ r = a
         /\ r \in Word /\ a = q * b + r
<1>1. 1 - 1 = 0 /\ Pow2[0] = 1 /\ Iterations - 1 = XLEN
  BY WidthAssumption, PowAssumption DEF Iterations
<1>2. a \in Nat /\ b \in Nat /\ q \in Nat
  BY PowFacts DEF Word
<1>3. b * Pow2[1 - 1] = b
  BY <1>1, <1>2
<1>4. a = q * b + r /\ (b # 0 => r < b) /\ (b = 0 => q = Pow2[XLEN] - 1)
  BY <1>1, <1>3 DEF LongDivision
<1>5. ASSUME b # 0 PROVE q = a \div b /\ r = a % b
  <2>1. b \in Nat \ {0} /\ r \in 0 .. b - 1 /\ q \in Int /\ a \in Int
    BY <1>2, <1>4, <1>5
  <2>. QED  BY <2>1, <1>4, DivModUnique
<1>6. b = 0 => r = a
  <2>1. q * 0 = 0
    BY <1>2
  <2>. QED  BY <2>1, <1>2, <1>4
<1>7. r <= a
  <2>1. q * b \in Nat
    BY <1>2
  <2>. QED  BY <2>1, <1>2, <1>4
<1>. QED  BY <1>2, <1>4, <1>5, <1>6, <1>7, PowFacts DEF Word

\* The four divisions, from quotient and remainder of the absolute values: the
\* signs are put back as the M extension wants, but for a negative number by zero.
LEMMA SignsRight ==
  ASSUME NEW op \in DivOp, NEW a \in Word, NEW b \in Word, NEW q \in Word, NEW r \in Nat, NEW d,
         LongDivision(Abs(Signs(op), a), Abs(Signs(op), b), 1, q, r, d),
         ~(op = "DIV" /\ b = 0 /\ Msb(a))
  PROVE  LET v == IF op \in DivQuotientOp THEN q ELSE r
         IN  (IF sign_res(op, a, b) THEN Neg(v) ELSE v) = Expected(op, a, b)
<1>. DEFINE p == Pow2[XLEN]
            x == Signed(a)
            y == Signed(b)
<1>1. CASE op = "DIVU"
  <2>1. Abs(Signs(op), a) = a /\ Abs(Signs(op), b) = b /\ ~sign_res(op, a, b) /\ op \in DivQuotientOp
    BY <1>1 DEF Abs, Signs, sign_res, DivQuotientOp
  <2>2. (b # 0 => q = a \div b) /\ (b = 0 => q = p - 1)
    BY <2>1, MagnitudeRight
  <2>3. q = Expected(op, a, b)
    BY <2>2, <1>1, NegWraps DEF Expected
  <2>. QED  BY <2>1, <2>3
<1>2. CASE op = "REMU"
  <2>1. Abs(Signs(op), a) = a /\ Abs(Signs(op), b) = b /\ ~sign_res(op, a, b) /\ op \notin DivQuotientOp
    BY <1>2 DEF Abs, Signs, sign_res, DivQuotientOp
  <2>2. (b # 0 => r = a % b) /\ (b = 0 => r = a)
    BY <2>1, MagnitudeRight
  <2>3. r = Expected(op, a, b)
    BY <2>2, <1>2 DEF Expected
  <2>. QED  BY <2>1, <2>3
<1>3. /\ x \in Int /\ AbsInt(x) = Abs(TRUE, a) /\ (Msb(a) <=> x < 0) /\ (Abs(TRUE, a) = 0 <=> a = 0)
      /\ y \in Int /\ AbsInt(y) = Abs(TRUE, b) /\ (Msb(b) <=> y < 0) /\ (Abs(TRUE, b) = 0 <=> b = 0)
      /\ Abs(TRUE, a) \in Word /\ Abs(TRUE, b) \in Word
      /\ Msb(b) => b # 0
      /\ Msb(a) => Neg(a) = p - a
  BY SignedFacts, NegWord
<1>4. ~(x < 0) => x = AbsInt(x)
  BY <1>3 DEF AbsInt
<1>5. /\ x < 0 => x = -AbsInt(x)
      /\ ~(x < 0) => x = AbsInt(x)
      /\ y < 0 => y = -AbsInt(y)
      /\ ~(y < 0) => y = AbsInt(y)
      /\ AbsInt(x) \in Int /\ AbsInt(y) \in Int
  BY <1>3 DEF AbsInt
<1>6. CASE op = "DIV"
  <2>1. Signs(op) = TRUE /\ op \in DivQuotientOp /\ (sign_res(op, a, b) <=> (Msb(a) # Msb(b)))
    BY <1>6 DEF Signs, sign_res, DivQuotientOp
  <2>2. LongDivision(Abs(TRUE, a), Abs(TRUE, b), 1, q, r, d)
    BY <2>1
  <2>5. /\ Abs(TRUE, b) # 0 => /\ q = Abs(TRUE, a) \div Abs(TRUE, b)
                               /\ r = Abs(TRUE, a) % Abs(TRUE, b)
        /\ Abs(TRUE, b) = 0 => q = Pow2[XLEN] - 1 /\ r = Abs(TRUE, a)
        /\ r \in Word /\ Abs(TRUE, a) = q * Abs(TRUE, b) + r
    <3>1. Abs(TRUE, a) \in Word /\ Abs(TRUE, b) \in Word
      BY <1>3
    <3>. QED  BY <2>2, <3>1, MagnitudeRight, Zenon
  <2>3. CASE b # 0
    <3>1. q = AbsInt(x) \div AbsInt(y)
      <4>1. Abs(TRUE, b) # 0
        BY <1>3, <2>3
      <4>2. q = Abs(TRUE, a) \div Abs(TRUE, b)
        BY <2>5, <4>1
      <4>. QED  BY <4>2, <1>3
    <3>2. TruncDiv(x, y) = IF (x < 0) = (y < 0) THEN q ELSE -q
      BY <3>1 DEF TruncDiv
    <3>3. Expected(op, a, b) = Wrap(TruncDiv(x, y))
      BY <1>6, <2>3 DEF Expected
    <3>4. Wrap(q) = q /\ Wrap(-q) = Neg(q)
      BY NegWraps
    <3>5. (Msb(a) # Msb(b)) <=> ~((x < 0) = (y < 0))
      BY <1>3 DEF Msb
    <3>. QED  BY <2>1, <3>2, <3>3, <3>4, <3>5
  <2>4. CASE b = 0
    <3>1. ~sign_res(op, a, b)
      <4>1. ~Msb(a) /\ ~Msb(b)
        BY <2>4, <1>3, <1>6
      <4>. QED  BY <2>1, <4>1 DEF Msb
    <3>2. q = p - 1
      BY <2>5, <2>4, <1>3
    <3>3. Expected(op, a, b) = Wrap(-1)
      BY <1>6, <2>4 DEF Expected
    <3>. QED  BY <2>1, <3>1, <3>2, <3>3, NegWraps
  <2>. QED  BY <2>3, <2>4
<1>7. CASE op = "REM"
  <2>1. Signs(op) = TRUE /\ op \notin DivQuotientOp /\ (sign_res(op, a, b) <=> Msb(a))
    BY <1>7 DEF Signs, sign_res, DivQuotientOp
  <2>2. LongDivision(Abs(TRUE, a), Abs(TRUE, b), 1, q, r, d)
    BY <2>1
  <2>5. /\ Abs(TRUE, b) # 0 => /\ q = Abs(TRUE, a) \div Abs(TRUE, b)
                               /\ r = Abs(TRUE, a) % Abs(TRUE, b)
        /\ Abs(TRUE, b) = 0 => q = Pow2[XLEN] - 1 /\ r = Abs(TRUE, a)
        /\ r \in Word /\ Abs(TRUE, a) = q * Abs(TRUE, b) + r
    <3>1. Abs(TRUE, a) \in Word /\ Abs(TRUE, b) \in Word
      BY <1>3
    <3>. QED  BY <2>2, <3>1, MagnitudeRight, Zenon
  <2>3. CASE b # 0
    <3>1. r \in Word /\ q = AbsInt(x) \div AbsInt(y) /\ AbsInt(x) = q * AbsInt(y) + r
      <4>1. Abs(TRUE, b) # 0
        BY <1>3, <2>3
      <4>2. q = Abs(TRUE, a) \div Abs(TRUE, b)
        BY <2>5, <4>1
      <4>. QED  BY <2>5, <4>2, <1>3
    <3>3. TruncDiv(x, y) = IF (x < 0) = (y < 0) THEN q ELSE -q
      BY <3>1 DEF TruncDiv
    <3>4. Expected(op, a, b) = Wrap(x - y * TruncDiv(x, y))
      BY <1>7, <2>3 DEF Expected
    <3>5. q \in Int /\ r \in Int
      BY <3>1, PowFacts DEF Word
    <3>6. x - y * TruncDiv(x, y) = IF x < 0 THEN -r ELSE r
      <4>. DEFINE u == AbsInt(x)
                  v == AbsInt(y)
      <4>5. u \in Int /\ v \in Int /\ u = q * v + r
        BY <3>1, <1>5
      <4>1. CASE x < 0 /\ y < 0
        <5>1. TruncDiv(x, y) = q /\ x = -u /\ y = -v
          BY <4>1, <3>3, <1>5
        <5>2. (-u) - (-v) * q = -r
          <6>. HIDE DEF u, v
          <6>. QED  BY <4>5, <3>5
        <5>. QED  BY <4>1, <5>1, <5>2
      <4>2. CASE x < 0 /\ ~(y < 0)
        <5>1. TruncDiv(x, y) = -q /\ x = -u /\ y = v
          BY <4>2, <3>3, <1>5
        <5>2. (-u) - v * (-q) = -r
          <6>. HIDE DEF u, v
          <6>. QED  BY <4>5, <3>5
        <5>. QED  BY <4>2, <5>1, <5>2
      <4>3. CASE ~(x < 0) /\ y < 0
        <5>1. TruncDiv(x, y) = -q /\ x = u /\ y = -v
          BY <4>3, <3>3, <1>5
        <5>2. u - (-v) * (-q) = r
          <6>. HIDE DEF u, v
          <6>. QED  BY <4>5, <3>5
        <5>. QED  BY <4>3, <5>1, <5>2
      <4>4. CASE ~(x < 0) /\ ~(y < 0)
        <5>1. TruncDiv(x, y) = q /\ x = u /\ y = v
          BY <4>4, <3>3, <1>5
        <5>2. u - v * q = r
          <6>. HIDE DEF u, v
          <6>. QED  BY <4>5, <3>5
        <5>. QED  BY <4>4, <5>1, <5>2
      <4>. QED  BY <4>1, <4>2, <4>3, <4>4
    <3>7. Wrap(r) = r /\ Wrap(-r) = Neg(r)
      BY <3>1, NegWraps
    <3>. QED  BY <2>1, <3>4, <3>6, <3>7, <1>3
  <2>4. CASE b = 0
    <3>1. r = Abs(TRUE, a)
      BY <2>5, <2>4, <1>3
    <3>2. Expected(op, a, b) = a
      BY <1>7, <2>4 DEF Expected
    <3>3. CASE Msb(a)
      <4>1. r = p - a /\ a \in 0 .. p - 1 /\ p \in Nat \ {0}
        BY <3>1, <3>3, <1>3, PowFacts DEF Abs, Word
      <4>2. Neg(r) = (p - r) % p
        BY DEF Neg
      <4>3. Neg(r) = a
        <5>. HIDE DEF p
        <5>1. p - r = a
          BY <4>1
        <5>. QED  BY <4>1, <4>2, <5>1, ModSmall
      <4>. QED  BY <2>1, <3>2, <3>3, <4>3
    <3>4. CASE ~Msb(a)
      BY <2>1, <3>1, <3>2, <3>4 DEF Abs
    <3>. QED  BY <3>3, <3>4
  <2>. QED  BY <2>3, <2>4
<1>. QED  BY <1>1, <1>2, <1>6, <1>7 DEF DivOp

-------------------------------------------------------------------------------
(* The steps                                                                 *)

Quiet == ~mul_valid /\ ~div_valid

\* What holds before an operation enters, and while one iterates.
LEMMA Places ==
  ASSUME DueOnce
  PROVE  /\ busy => Quiet /\ job.due /\ job.op \notin MulOp
         /\ \A out \in BOOLEAN : ready_in(out) => /\ ~busy
                                                  /\ ~(mul_valid /\ ~out)
                                                  /\ ~(div_valid /\ ~out)
         /\ ~(mul_valid /\ div_valid)
  BY DEF DueOnce, Quiet, ready_in, mul_ready_in, div_ready_in

\* Nothing has been computed at first.
LEMMA InitHolds == Init => IInv
<1>. SUFFICES ASSUME Init PROVE IInv
  OBVIOUS
<1>1. TypeOK
  <2>1. 0 \in Word /\ 0 \in WideWord /\ 0 \in 0 .. XLEN + 1 /\ "MUL" \in Op
    BY PowFacts, WidthAssumption DEF Word, WideWord, Op, MulOp
  <2>. QED  BY <2>1 DEF Init, TypeOK, Job
<1>2. ~busy /\ ~valid_out
  BY DEF Init, busy, valid_out
<1>3. DueOnce
  BY DEF Init, busy, DueOnce
<1>. QED  BY <1>1, <1>2, <1>3 DEF IInv, FlagsOfJob, DivisionInvariant, ResultRight

\* The divider's registers keep their widths.
LEMMA DivTyped ==
  ASSUME TypeOK, NEW enter \in BOOLEAN, NEW op \in Op, NEW a \in Word, NEW b \in Word,
         NEW out \in BOOLEAN, IdivTick(enter, op, a, b, out)
  PROVE  /\ cnt' \in 0 .. XLEN + 1
         /\ dividend_wide' \in WideWord /\ divisor_wide' \in WideWord
         /\ quotient' \in Word
         /\ sign_res_reg' \in BOOLEAN /\ is_res_quotient_reg' \in BOOLEAN
         /\ div_valid' \in BOOLEAN /\ div_res' \in Word
<1>. DEFINE p == Pow2[XLEN]
            w == Pow2[2 * XLEN]
<1>1. p \in Nat \ {0} /\ w \in Nat \ {0} /\ Word = 0 .. p - 1 /\ WideWord = 0 .. w - 1
  BY PowFacts DEF Word, WideWord
<1>2. Word \subseteq WideWord
  <2>1. \A x \in Nat \ {0} : x <= x * x
    OBVIOUS
  <2>. QED  BY <1>1, <2>1, PowFacts DEF Word, WideWord
<1>3. CASE enter /\ DivLoad(op, a, b)
  <2>1. Abs(Signs(op), a) \in Word /\ Abs(Signs(op), b) \in Word
    BY AbsWord
  <2>2. Abs(Signs(op), b) * Pow2[XLEN - 1] \in WideWord
    <3>1. XLEN - 1 \in 0 .. XLEN - 1
      BY WidthAssumption
    <3>2. Abs(Signs(op), b) * Pow2[XLEN - 1] <= Pow2[2 * XLEN - 1]
      BY <2>1, <3>1, DivisorBound
    <3>3. \A z \in Word : z * Pow2[XLEN - 1] \in Nat
      BY PowFacts DEF Word
    <3>4. Pow2[2 * XLEN - 1] < w /\ Pow2[2 * XLEN - 1] \in Nat
      BY PowFacts
    <3>5. Abs(Signs(op), b) * Pow2[XLEN - 1] \in Nat
      BY <2>1, <3>3
    <3>. QED  BY <1>1, <3>2, <3>4, <3>5
  <2>3. 0 \in Word /\ Iterations \in 0 .. XLEN + 1
    BY <1>1, WidthAssumption DEF Iterations
  <2>4. dividend_wide' \in WideWord /\ divisor_wide' \in WideWord
    BY <1>2, <1>3, <2>1, <2>2 DEF DivLoad
  <2>5. cnt' \in 0 .. XLEN + 1 /\ quotient' \in Word
    BY <1>3, <2>3 DEF DivLoad
  <2>6. sign_res_reg' \in BOOLEAN /\ is_res_quotient_reg' \in BOOLEAN
    BY <1>3 DEF DivLoad, sign_res, Msb
  <2>7. div_valid' \in BOOLEAN /\ div_res' \in Word
    BY <1>3 DEF DivLoad, TypeOK
  <2>. QED  BY <2>4, <2>5, <2>6, <2>7
<1>4. CASE ~enter /\ busy /\ DivIterate(out)
  <2>1. cnt' \in 0 .. XLEN + 1
    <3>1. cnt \in 0 .. XLEN + 1 /\ cnt # 0 /\ cnt' = cnt - 1
      BY <1>4 DEF DivIterate, TypeOK, busy
    <3>. QED  BY <3>1, WidthAssumption
  <2>2. quotient' \in Word
    <3>1. quotient \in Int /\ quotient_bit \in Int
      BY <1>1 DEF TypeOK, quotient_bit
    <3>2. quotient' = (2 * quotient + quotient_bit) % p
      BY <1>4 DEF DivIterate
    <3>. QED  BY <1>1, <3>1, <3>2
  <2>3. divisor_wide' \in WideWord
    <3>1. divisor_wide' = divisor_wide \div 2 /\ divisor_wide \in WideWord
      BY <1>4 DEF DivIterate, TypeOK
    <3>. QED  BY <1>1, <3>1
  <2>4. dividend_wide' \in WideWord
    <3>1. dividend_wide \in WideWord /\ divisor_wide \in WideWord
      BY DEF TypeOK
    <3>2. diff_wide \in WideWord
      <4>1. dividend_wide - divisor_wide \in Int
        BY <1>1, <3>1
      <4>. QED  BY <1>1, <4>1 DEF diff_wide
    <3>. QED  BY <1>4, <3>1, <3>2 DEF DivIterate
  <2>5. result \in Word
    <3>1. remainder \in Word
      <4>1. dividend_wide \in Int
        BY <1>1 DEF TypeOK
      <4>. QED  BY <1>1, <4>1 DEF remainder
    <3>2. abs_result \in Word
      BY <3>1 DEF abs_result, TypeOK
    <3>. QED  BY <3>2, NegWord DEF result
  <2>6. div_valid' \in BOOLEAN /\ div_res' \in Word
    BY <1>4, <2>5 DEF DivIterate, TypeOK
  <2>7. sign_res_reg' \in BOOLEAN /\ is_res_quotient_reg' \in BOOLEAN
    BY <1>4 DEF DivIterate, TypeOK
  <2>. QED  BY <2>1, <2>2, <2>3, <2>4, <2>6, <2>7
<1>5. CASE ~enter /\ ~busy /\ DivIdle(out)
  BY <1>5 DEF DivIdle, TypeOK
<1>. QED  BY <1>3, <1>4, <1>5 DEF IdivTick

\* An operation enters.
LEMMA EnterHolds ==
  ASSUME IInv, NEW op \in Op, NEW a \in Word, NEW b \in Word, NEW out \in BOOLEAN,
         Enter(op, a, b, out)
  PROVE  IInv'
<1>. USE DEF IInv
<1>1. ready_in(out) /\ ~busy /\ ~(mul_valid /\ ~out) /\ ~(div_valid /\ ~out)
  BY Places DEF Enter
<1>2. job' = [op |-> op, a |-> a, b |-> b, due |-> TRUE]
  BY DEF Enter
<1>3. job'.op = op /\ job'.a = a /\ job'.b = b /\ job'.due = TRUE
  BY <1>2
<1>4. /\ mul_valid' = (op \in MulOp)
      /\ mul_res' = IF op \in MulOp THEN mul_result(op, a, b) ELSE mul_res
  BY <1>1 DEF Enter, ImulTick
<1>5. TypeOK'
  <2>1. mul_valid' \in BOOLEAN /\ mul_res' \in Word
    BY <1>4, MulWord DEF TypeOK
  <2>2. job' \in Job
    BY <1>2 DEF Job
  <2>3. (op \in DivOp) \in BOOLEAN /\ IdivTick(op \in DivOp, op, a, b, out)
    BY DEF Enter
  <2>. QED  BY <2>1, <2>2, <2>3, DivTyped DEF TypeOK
<1>6. CASE op \in MulOp
  <2>1. op \notin DivOp
    BY <1>6 DEF MulOp, DivOp
  <2>2. DivIdle(out)
    BY <1>1, <2>1 DEF Enter, IdivTick
  <2>3. ~busy' /\ div_valid' = FALSE
    BY <1>1, <2>2 DEF DivIdle, busy
  <2>4. DueOnce'
    BY <1>3, <1>4, <1>6, <2>3 DEF DueOnce
  <2>5. mul_res' = Expected(op, a, b)
    BY <1>4, <1>6, MulRight
  <2>6. ResultRight'
    BY <1>3, <1>4, <1>6, <2>5 DEF ResultRight, res_out
  <2>. QED  BY <1>5, <2>3, <2>4, <2>6 DEF FlagsOfJob, DivisionInvariant
<1>7. CASE op \notin MulOp
  <2>1. op \in DivOp
    BY <1>7 DEF Op
  <2>2. DivLoad(op, a, b)
    BY <2>1 DEF Enter, IdivTick
  <2>3. cnt' = XLEN + 1 /\ busy' /\ ~div_valid' /\ ~mul_valid'
    <3>1. cnt' = XLEN + 1 /\ div_valid' = FALSE
      BY <2>2 DEF DivLoad, Iterations
    <3>2. cnt' # 0
      BY <3>1, WidthAssumption
    <3>. QED  BY <1>4, <1>7, <3>1, <3>2 DEF busy
  <2>4. DueOnce'
    BY <1>3, <1>7, <2>3 DEF DueOnce
  <2>5. FlagsOfJob'
    BY <1>3, <2>1, <2>2 DEF FlagsOfJob, DivLoad
  <2>6. DivisionInvariant'
    <3>1. Abs(Signs(op), a) \in Word /\ Abs(Signs(op), b) \in Word
      BY AbsWord
    <3>2. LongDivision(Abs(Signs(op), a), Abs(Signs(op), b), cnt', quotient',
                       dividend_wide', divisor_wide')
      BY <2>2, <2>3, <3>1, LoadDivides DEF DivLoad
    <3>. QED  BY <1>3, <3>2 DEF DivisionInvariant, LongDivision
  <2>7. ResultRight'
    BY <2>3 DEF ResultRight, valid_out
  <2>. QED  BY <1>5, <2>4, <2>5, <2>6, <2>7
<1>. QED  BY <1>6, <1>7

\* Nothing enters: the divider iterates, finishes or is idle.
LEMMA PassHolds ==
  ASSUME IInv, NEW out \in BOOLEAN, Pass(out)
  PROVE  IInv'
<1>. USE DEF IInv
<1>. DEFINE a == Abs(Signs(job.op), job.a)
            b == Abs(Signs(job.op), job.b)
<1>1. /\ job.op \in Op /\ job.a \in Word /\ job.b \in Word /\ job.due \in BOOLEAN
      /\ job' \in Job
      /\ job'.op = job.op /\ job'.a = job.a /\ job'.b = job.b
      /\ job'.due = (job.due /\ ~(valid_out /\ out))
  BY DEF Pass, TypeOK, Job
<1>2. mul_valid' = (mul_valid /\ ~out) /\ mul_res' = mul_res
  BY DEF Pass, ImulTick, TypeOK
<1>3. a \in Word /\ b \in Word
  BY <1>1, AbsWord
<1>4. TypeOK'
  <2>1. "DIV" \in Op /\ 0 \in Word
    BY PowFacts DEF Op, DivOp, Word
  <2>2. IdivTick(FALSE, "DIV", 0, 0, out)
    BY DEF Pass
  <2>. QED  BY <1>1, <1>2, <2>1, <2>2, DivTyped DEF TypeOK
<1>5. CASE busy
  <2>1. /\ ~mul_valid /\ ~div_valid /\ job.due /\ job.op \notin MulOp
        /\ DivIterate(out) /\ cnt \in 1 .. XLEN + 1
    BY <1>5, Places DEF Pass, IdivTick, TypeOK, Quiet, busy
  <2>2. ~valid_out /\ job'.due = TRUE /\ ~mul_valid'
    BY <1>1, <1>2, <2>1 DEF valid_out
  <2>3. LongDivision(a, b, cnt, quotient, dividend_wide, divisor_wide)
    BY <1>5 DEF DivisionInvariant, LongDivision
  <2>4. /\ cnt' = cnt - 1 /\ (cnt = 1 => div_valid' /\ div_res' = result)
        /\ cnt # 1 => ~div_valid'
    BY <2>1 DEF DivIterate
  <2>5. CASE cnt = 1
    <3>1. ~busy' /\ div_valid'
      <4>1. cnt' = 0
        BY <2>4, <2>5
      <4>. QED  BY <2>4, <2>5, <4>1 DEF busy
    <3>2. DueOnce'
      BY <1>1, <2>1, <2>2, <3>1 DEF DueOnce
    <3>3. ASSUME ~NegativeByZero PROVE result = Expected(job.op, job.a, job.b)
      <4>1. /\ job.op \in DivOp /\ sign_res_reg = sign_res(job.op, job.a, job.b)
            /\ is_res_quotient_reg = (job.op \in DivQuotientOp)
        BY <1>5 DEF FlagsOfJob
      <4>2. quotient \in Word /\ dividend_wide \in Nat
        BY PowFacts DEF TypeOK, WideWord
      <4>3. LongDivision(a, b, 1, quotient, dividend_wide, divisor_wide)
        BY <2>3, <2>5
      <4>4. dividend_wide \in Word
        BY <1>3, <4>2, <4>3, MagnitudeRight
      <4>5. remainder = dividend_wide
        <5>1. Pow2[XLEN] \in Nat \ {0} /\ dividend_wide \in 0 .. Pow2[XLEN] - 1
          BY <4>4, PowFacts DEF Word
        <5>. QED  BY <5>1, ModSmall DEF remainder
      <4>6. ~(job.op = "DIV" /\ job.b = 0 /\ Msb(job.a))
        BY <3>3 DEF NegativeByZero
      <4>7. LET v == IF job.op \in DivQuotientOp THEN quotient ELSE dividend_wide
            IN  (IF sign_res(job.op, job.a, job.b) THEN Neg(v) ELSE v)
                  = Expected(job.op, job.a, job.b)
        BY <1>1, <4>1, <4>2, <4>3, <4>6, SignsRight
      <4>. QED  BY <4>1, <4>5, <4>7 DEF result, abs_result
    <3>4. NegativeByZero' = NegativeByZero
      BY <1>1 DEF NegativeByZero
    <3>5. ResultRight'
      BY <1>1, <2>2, <2>4, <2>5, <3>1, <3>3, <3>4 DEF ResultRight, res_out
    <3>. QED  BY <1>4, <3>1, <3>2, <3>5 DEF FlagsOfJob, DivisionInvariant
  <2>6. CASE cnt # 1
    <3>1. cnt \in 2 .. XLEN + 1 /\ busy' /\ ~div_valid'
      <4>1. cnt \in 2 .. XLEN + 1
        BY <2>1, <2>6, WidthAssumption
      <4>2. cnt' # 0
        BY <2>4, <4>1, WidthAssumption
      <4>. QED  BY <2>4, <2>6, <4>1, <4>2 DEF busy
    <3>2. DueOnce'
      BY <1>1, <2>1, <2>2, <3>1 DEF DueOnce
    <3>3. FlagsOfJob'
      BY <1>1, <1>5, <2>1 DEF FlagsOfJob, DivIterate
    <3>4. LongDivision(a, b, cnt', quotient', dividend_wide', divisor_wide')
      BY <1>3, <2>1, <2>3, <3>1, IterateDivides
    <3>5. DivisionInvariant'
      BY <1>1, <3>4 DEF DivisionInvariant, LongDivision
    <3>6. ResultRight'
      BY <2>2, <3>1 DEF ResultRight, valid_out
    <3>. QED  BY <1>4, <3>2, <3>3, <3>5, <3>6
  <2>. QED  BY <2>5, <2>6
<1>6. CASE ~busy
  <2>1. DivIdle(out)
    BY <1>6 DEF Pass, IdivTick
  <2>2. ~busy' /\ div_valid' = (div_valid /\ ~out) /\ div_res' = div_res
    BY <1>6, <2>1 DEF DivIdle, busy
  <2>3. DueOnce'
    BY <1>1, <1>2, <1>6, <2>2 DEF DueOnce, valid_out
  <2>4. ResultRight'
    <3>1. NegativeByZero' = NegativeByZero
      BY <1>1 DEF NegativeByZero
    <3>2. valid_out' => valid_out /\ res_out' = res_out
      BY <1>2, <2>2 DEF valid_out, res_out, TypeOK
    <3>. QED  BY <1>1, <3>1, <3>2 DEF ResultRight
  <2>. QED  BY <1>4, <2>2, <2>3, <2>4 DEF FlagsOfJob, DivisionInvariant
<1>. QED  BY <1>5, <1>6

\* A reset forgets the operation.
LEMMA ResetHolds == IInv /\ Reset => IInv'
<1>. SUFFICES ASSUME IInv, Reset PROVE IInv'
  OBVIOUS
<1>1. TypeOK'
  <2>1. 0 \in Word /\ 0 \in 0 .. XLEN + 1
    BY PowFacts, WidthAssumption DEF Word
  <2>2. job' \in Job
    BY DEF IInv, Reset, TypeOK, Job
  <2>. QED  BY <2>1, <2>2 DEF IInv, Reset, TypeOK
<1>2. ~busy' /\ ~valid_out' /\ ~mul_valid' /\ ~div_valid' /\ job'.due = FALSE
  BY DEF IInv, TypeOK, Job, Reset, busy, valid_out
<1>3. DueOnce'
  BY <1>2 DEF DueOnce
<1>. QED  BY <1>1, <1>2, <1>3 DEF IInv, FlagsOfJob, DivisionInvariant, ResultRight

\* Every step keeps the inductive invariant.
LEMMA StepHolds == IInv /\ [Next]_vars => IInv'
<1>. SUFFICES ASSUME IInv, [Next]_vars PROVE IInv'
  OBVIOUS
<1>1. ASSUME NEW op \in Op, NEW a \in Operand, NEW b \in Operand, NEW out \in BOOLEAN,
             Enter(op, a, b, out)
      PROVE  IInv'
  BY <1>1, EnterHolds, OperandAssumption
<1>2. ASSUME NEW out \in BOOLEAN, Pass(out) PROVE IInv'
  BY <1>2, PassHolds
<1>3. CASE Reset
  BY <1>3, ResetHolds
<1>4. CASE UNCHANGED vars
  BY <1>4 DEF vars, IInv, TypeOK, DueOnce, FlagsOfJob, DivisionInvariant, ResultRight,
              busy, valid_out, res_out, NegativeByZero
<1>. QED  BY <1>1, <1>2, <1>3, <1>4 DEF Next

-------------------------------------------------------------------------------
(* The theorems                                                              *)

\* The inductive invariant holds in every reachable state.
LEMMA InductiveInvariant == Spec => []IInv
BY InitHolds, StepHolds, PTL DEF Spec

\* Type correctness at every width: no register ever holds more than its bits.
THEOREM TypeCorrect == Spec => []TypeOK
BY InductiveInvariant, PTL DEF IInv

\* At every width the divider's registers keep the invariant of long division from
\* the cycle the operands enter to the cycle the result is stored.
THEOREM DivisionInvariantAlways == Spec => []DivisionInvariant
BY InductiveInvariant, PTL DEF IInv

\* At every width, an operation that entered is answered by one unit only, once.
THEOREM DueOnceAlways == Spec => []DueOnce
BY InductiveInvariant, PTL DEF IInv

\* At every width, for all operands, every result the unit offers is the one the
\* M extension defines for the operation, but DIV of a negative number by zero.
THEOREM ResultRightAlways == Spec => []ResultRight
BY InductiveInvariant, PTL DEF IInv

-------------------------------------------------------------------------------
(* The units of ExecStage                                                    *)

\* ExecStage's results are those of the M extension.
LEMMA ExecResult ==
  ASSUME NEW op \in Exec!MduOp, NEW a \in Word, NEW b \in Word
  PROVE  /\ Exec!ImduRes(op, a, b) = Expected(op, a, b)
         /\ op \in Op /\ (op \in MulOp <=> op = "MUL") /\ (op \in DivOp <=> op # "MUL")
<1>1. op \in {"MUL", "DIVU", "REMU"}
  BY DEF Exec!MduOp
<1>2. Wrap(-1) = Pow2[XLEN] - 1
  BY NegWraps
<1>3. Exec!ImduRes(op, a, b) = Expected(op, a, b)
  BY <1>1, <1>2 DEF Exec!ImduRes, Expected, Wrap
<1>. QED  BY <1>1, <1>3 DEF Op, MulOp, DivOp

\* The operands enter: from outside, the unit of their kind has the result at once.
LEMMA EnterFromOutside ==
  ASSUME IInv, NEW op \in Op, NEW a \in Word, NEW b \in Word, NEW out \in BOOLEAN,
         Enter(op, a, b, out)
  PROVE  /\ cnt = 0 /\ (~mul_valid \/ out) /\ (~div_valid \/ out)
         /\ mul_valid' = (op \in MulOp)
         /\ mul_res' = IF op \in MulOp THEN Expected(op, a, b) ELSE mul_res
         /\ cnt' = IF op \in DivOp THEN XLEN + 1 ELSE 0
         /\ div_valid' = FALSE
         /\ kept_res' = IF op \in DivOp THEN Expected(op, a, b) ELSE kept_res
<1>1. job'.op = op /\ job'.a = a /\ job'.b = b
  BY DEF Enter
<1>2. /\ ready_in(out) /\ ~busy /\ cnt = 0
      /\ ~(mul_valid /\ ~out) /\ ~(div_valid /\ ~out)
      /\ mul_valid \in BOOLEAN /\ div_valid \in BOOLEAN
  BY Places DEF IInv, Enter, busy, TypeOK
<1>3. /\ mul_valid' = (op \in MulOp)
      /\ mul_res' = IF op \in MulOp THEN Expected(op, a, b) ELSE mul_res
  <2>1. op \in MulOp => mul_result(op, a, b) = Expected(op, a, b)
    BY MulRight
  <2>. QED  BY <1>2, <2>1 DEF Enter, ImulTick
<1>4. /\ cnt' = IF op \in DivOp THEN XLEN + 1 ELSE 0
      /\ div_valid' = FALSE
      /\ kept_res' = IF op \in DivOp THEN Expected(op, a, b) ELSE kept_res
  <2>1. CASE op \in DivOp
    <3>1. cnt' = XLEN + 1 /\ div_valid' = FALSE
      BY <2>1 DEF Enter, IdivTick, DivLoad, Iterations
    <3>2. busy'
      BY <3>1, WidthAssumption DEF busy
    <3>. QED  BY <1>1, <2>1, <3>1, <3>2 DEF kept_res
  <2>2. CASE op \notin DivOp
    <3>1. /\ cnt' = cnt /\ div_valid' = (div_valid /\ ~out) /\ div_res' = div_res
      BY <1>2, <2>2 DEF Enter, IdivTick, DivIdle
    <3>2. ~busy'
      BY <1>2, <3>1 DEF busy
    <3>. QED  BY <1>2, <2>2, <3>1, <3>2 DEF kept_res
  <2>. QED  BY <2>1, <2>2
<1>. QED  BY <1>2, <1>3, <1>4

\* A cycle in which nothing enters: the last of the iterations stores the result
\* that was promised when the operands entered.
LEMMA PassFromOutside ==
  ASSUME IInv, job.op # "DIV", NEW out \in BOOLEAN, Pass(out)
  PROVE  /\ mul_valid' = (mul_valid /\ ~out) /\ mul_res' = mul_res
         /\ cnt' = IF cnt > 0 THEN cnt - 1 ELSE 0
         /\ div_valid' = (cnt = 1 \/ (div_valid /\ ~out))
         /\ kept_res' = kept_res
<1>1. job'.op = job.op /\ job'.a = job.a /\ job'.b = job.b
  BY DEF IInv, Pass, TypeOK, Job
<1>2. /\ mul_valid \in BOOLEAN /\ div_valid \in BOOLEAN /\ cnt \in 0 .. XLEN + 1
      /\ XLEN \in Nat
  BY WidthAssumption DEF IInv, TypeOK
<1>3. mul_valid' = (mul_valid /\ ~out) /\ mul_res' = mul_res
  BY DEF Pass, ImulTick
<1>4. CASE busy
  <2>1. /\ cnt' = cnt - 1 /\ cnt # 0 /\ ~mul_valid
        /\ div_valid' = (cnt = 1 \/ (div_valid /\ ~out))
    BY <1>4, Places DEF IInv, Quiet, Pass, IdivTick, DivIterate, busy
  <2>2. cnt' = IF cnt > 0 THEN cnt - 1 ELSE 0
    BY <1>2, <2>1
  <2>3. kept_res = Expected(job.op, job.a, job.b)
    BY <1>4 DEF kept_res
  <2>4. CASE cnt = 1
    <3>1. cnt' = 0
      BY <2>1, <2>4
    <3>2. ~busy' /\ ~mul_valid'
      BY <1>3, <2>1, <3>1 DEF busy
    <3>3. div_valid' = TRUE
      BY <2>1, <2>4
    <3>4. ResultRight' /\ ~NegativeByZero'
      BY <1>1, PassHolds DEF IInv, NegativeByZero
    <3>5. kept_res' = Expected(job.op, job.a, job.b)
      BY <1>1, <3>2, <3>3, <3>4 DEF ResultRight, valid_out, res_out, kept_res
    <3>. QED  BY <1>3, <2>1, <2>2, <2>3, <3>5
  <2>5. CASE cnt # 1
    <3>1. busy'
      BY <1>2, <2>1, <2>5 DEF busy
    <3>2. kept_res' = Expected(job.op, job.a, job.b)
      BY <1>1, <3>1 DEF kept_res
    <3>. QED  BY <1>3, <2>1, <2>2, <2>3, <3>2
  <2>. QED  BY <2>4, <2>5
<1>5. CASE ~busy
  <2>1. /\ cnt = 0 /\ cnt' = cnt /\ div_valid' = (div_valid /\ ~out) /\ div_res' = div_res
    BY <1>5 DEF Pass, IdivTick, DivIdle, busy
  <2>2. ~busy'
    BY <2>1 DEF busy
  <2>. QED  BY <1>3, <1>5, <2>1, <2>2 DEF kept_res
<1>. QED  BY <1>4, <1>5

\* The operands enter a unit of ExecStage.
LEMMA EnterIsExecStep ==
  ASSUME IInv, NEW op \in Exec!MduOp, NEW a \in Word, NEW b \in Word, NEW out \in BOOLEAN,
         Enter(op, a, b, out)
  PROVE  ExecUnitStep
<1>1. /\ op \in Op /\ (op \in MulOp <=> op = "MUL") /\ (op \in DivOp <=> op # "MUL")
      /\ Exec!ImduRes(op, a, b) = Expected(op, a, b)
  BY ExecResult
<1>2. job'.op = op /\ job'.a = a /\ job'.b = b
  BY DEF Enter
<1>3. /\ cnt = 0 /\ (~mul_valid \/ out) /\ (~div_valid \/ out)
      /\ mul_valid' = (op \in MulOp)
      /\ mul_res' = IF op \in MulOp THEN Expected(op, a, b) ELSE mul_res
      /\ cnt' = IF op \in DivOp THEN XLEN + 1 ELSE 0
      /\ div_valid' = FALSE
      /\ kept_res' = IF op \in DivOp THEN Expected(op, a, b) ELSE kept_res
  BY <1>1, EnterFromOutside
<1>4. Exec!MulReadyIn(out) /\ Exec!DivReadyIn(out)
  BY <1>3 DEF Exec!MulReadyIn, Exec!DivReadyIn
<1>5. Exec!ImulTick(op \in MulOp, op, a, b, out)
  BY <1>1, <1>3 DEF Exec!ImulTick
<1>6. Exec!IdivTick(op \in DivOp, op, a, b, out)
  <2>1. (op \notin DivOp /\ (cnt = 1 \/ (div_valid /\ ~out))) = FALSE
    BY <1>3
  <2>2. /\ cnt' = IF op \in DivOp THEN XLEN + 1 ELSE IF cnt > 0 THEN cnt - 1 ELSE 0
        /\ kept_res' = IF op \in DivOp THEN Exec!ImduRes(op, a, b) ELSE kept_res
    BY <1>1, <1>3
  <2>. QED  BY <1>3, <2>1, <2>2 DEF Exec!IdivTick
<1>7. /\ TRUE => Exec!MulReadyIn(out) /\ Exec!DivReadyIn(out)
      /\ Exec!ImulTick(TRUE /\ job'.op \in MulOp, job'.op, job'.a, job'.b, out)
      /\ Exec!IdivTick(TRUE /\ job'.op \in DivOp, job'.op, job'.a, job'.b, out)
  BY <1>2, <1>4, <1>5, <1>6
<1>. QED  BY <1>7 DEF ExecUnitStep

\* A cycle in which nothing enters is one of ExecStage's units.
LEMMA PassIsExecStep ==
  ASSUME IInv, job.op \in Exec!MduOp, NEW out \in BOOLEAN, Pass(out)
  PROVE  ExecUnitStep
<1>1. job.op # "DIV"
  BY DEF Exec!MduOp
<1>2. /\ mul_valid' = (mul_valid /\ ~out) /\ mul_res' = mul_res
      /\ cnt' = IF cnt > 0 THEN cnt - 1 ELSE 0
      /\ div_valid' = (cnt = 1 \/ (div_valid /\ ~out))
      /\ kept_res' = kept_res
  BY <1>1, PassFromOutside
<1>3. Exec!ImulTick(FALSE, job'.op, job'.a, job'.b, out)
  BY <1>2 DEF Exec!ImulTick
<1>4. Exec!IdivTick(FALSE, job'.op, job'.a, job'.b, out)
  BY <1>2 DEF Exec!IdivTick
<1>5. /\ FALSE => Exec!MulReadyIn(out) /\ Exec!DivReadyIn(out)
      /\ Exec!ImulTick(FALSE /\ job'.op \in MulOp, job'.op, job'.a, job'.b, out)
      /\ Exec!IdivTick(FALSE /\ job'.op \in DivOp, job'.op, job'.a, job'.b, out)
  BY <1>3, <1>4
<1>. QED  BY <1>5 DEF ExecUnitStep

\* At every width, the shift-and-subtract divider and the multiplier behave as the
\* units that the pipeline's model has in their place, for the operations it has.
THEOREM ExecUnitImplemented == Spec => ImplementsExecUnit
<1>. DEFINE UnitStep == job.op \in Exec!MduOp /\ job'.op \in Exec!MduOp
                          => ExecUnitStep \/ ExecUnitReset
<1>1. IInv /\ [Next]_vars => [UnitStep]_vars
  <2>. SUFFICES ASSUME IInv, Next, job.op \in Exec!MduOp, job'.op \in Exec!MduOp
                PROVE  ExecUnitStep \/ ExecUnitReset
    OBVIOUS
  <2>1. ASSUME NEW op \in Op, NEW a \in Operand, NEW b \in Operand, NEW out \in BOOLEAN,
               Enter(op, a, b, out)
        PROVE  ExecUnitStep
    <3>1. op \in Exec!MduOp /\ a \in Word /\ b \in Word
      BY <2>1, OperandAssumption DEF Enter
    <3>. QED  BY <2>1, <3>1, EnterIsExecStep
  <2>2. ASSUME NEW out \in BOOLEAN, Pass(out) PROVE ExecUnitStep
    BY <2>2, PassIsExecStep
  <2>3. CASE Reset
    BY <2>3 DEF Reset, ExecUnitReset
  <2>. QED  BY <2>1, <2>2, <2>3 DEF Next
<1>2. Spec => [][UnitStep]_vars
  BY <1>1, InductiveInvariant, PTL DEF Spec
<1>. QED  BY <1>2 DEF ImplementsExecUnit

===============================================================================
