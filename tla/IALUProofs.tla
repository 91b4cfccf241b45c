------------------------------ MODULE IALUProofs ------------------------------
(***************************************************************************)
(* For every width and all operands: the results of IALU, and the branches  *)
(* it decides, are those of the RISC-V I extension.                         *)
(***************************************************************************)
EXTENDS IALU, TLAPS

\* Quotient and remainder move with a multiple of the divisor.
LEMMA DivShift ==
  ASSUME NEW x \in Int, NEW k \in Int, NEW d \in Nat \ {0}
  PROVE  (x - k * d) \div d = (x \div d) - k /\ (x - k * d) % d = x % d
<1>. DEFINE q == x \div d  m == x % d  y == x - k * d  p == y \div d  n == y % d
<1>1. q \in Int /\ m \in 0 .. d - 1 /\ x = d * q + m
  OBVIOUS
<1>2. y \in Int /\ p \in Int /\ n \in 0 .. d - 1 /\ y = d * p + n
  OBVIOUS
<1>3. y = x - k * d
  OBVIOUS
<1>. HIDE DEF q, m, p, n, y
<1>. DEFINE e == p + k - q
<1>4. e \in Int /\ d * e = m - n
  BY <1>1, <1>2, <1>3
<1>5. CASE e >= 1
  <2>1. d * e >= d
    BY <1>4, <1>5
  <2>. QED  BY <1>1, <1>2, <1>4, <2>1
<1>6. CASE e <= -1
  <2>1. d * e <= -d
    BY <1>4, <1>6
  <2>. QED  BY <1>1, <1>2, <1>4, <2>1
<1>7. CASE e = 0
  <2>1. p = q - k
    BY <1>1, <1>2, <1>7
  <2>2. n = m
    BY <1>1, <1>2, <1>4, <1>7
  <2>. QED  BY <2>1, <2>2 DEF p, q, n, m, y
<1>. QED  BY <1>4, <1>5, <1>6, <1>7

\* The words, and the change of sign half way through them.
LEMMA WordSize ==
  /\ Pow2[XLEN] \in Nat \ {0} /\ Pow2[XLEN - 1] \in Nat \ {0}
  /\ Pow2[XLEN] = 2 * Pow2[XLEN - 1]
  /\ Word = 0 .. Pow2[XLEN] - 1 /\ 0 \in Word /\ 1 \in Word
<1>1. XLEN - 1 \in 0 .. XLEN /\ 1 \in 0 .. XLEN /\ XLEN \in 0 .. XLEN
  BY WidthAssumption
<1>2. Pow2[XLEN] \in Nat \ {0} /\ Pow2[XLEN - 1] \in Nat \ {0}
  BY <1>1, PowAssumption
<1>3. (XLEN - 1) + 1 = XLEN /\ (XLEN - 1) + 1 <= XLEN
  BY WidthAssumption
<1>4. Pow2[(XLEN - 1) + 1] = Pow2[XLEN - 1] * Pow2[1]
  BY <1>1, <1>3, PowAssumption
<1>5. Pow2[XLEN] = 2 * Pow2[XLEN - 1]
  BY <1>2, <1>3, <1>4, PowAssumption
<1>. QED  BY <1>2, <1>5 DEF Word

\* The subtracter at its width: the borrow is the unsigned order, and the low bits
\* are the sum or the difference.
LEMMA SubtracterRight ==
  ASSUME NEW op \in Op, NEW a \in Word, NEW b \in Word
  PROVE  /\ op # "ADD" => (carry_out(op, a, b) <=> a < b)
         /\ sumsub_res(op, a, b) = Wrap(IF op = "ADD" THEN a + b ELSE a - b)
<1>. DEFINE n == Pow2[XLEN]
            w == 2 * n
            x == IF op = "ADD" THEN a + b ELSE a - b
<1>1. n \in Nat \ {0} /\ a \in 0 .. n - 1 /\ b \in 0 .. n - 1
  BY WordSize
<1>2. sumsub_res(op, a, b) = (x % w) % n /\ (carry_out(op, a, b) <=> x % w >= n)
  BY DEF sumsub_wide, sumsub_res, carry_out
<1>3. x \in Int /\ -n < x /\ x < w /\ w \in Nat \ {0} /\ w = 2 * n
  BY <1>1
<1>4. x >= 0 => op = "ADD" \/ ~(a < b)
  BY <1>1
<1>5. x < 0 => op # "ADD" /\ a < b
  BY <1>1
<1>6. op # "ADD" /\ ~(a < b) => x < n
  BY <1>1
<1>. HIDE DEF n, w, x
<1>7. CASE x >= 0
  <2>1. x % w = x
    BY <1>3, <1>7
  <2>. QED  BY <1>1, <1>2, <1>3, <1>4, <1>6, <1>7, <2>1 DEF Wrap, n, x
<1>8. CASE x < 0
  <2>1. -1 \in Int /\ -2 \in Int
    OBVIOUS
  <2>2. (x - (-1) * w) % w = x % w /\ (x - (-2) * n) % n = x % n
    BY <1>1, <1>3, <2>1, DivShift
  <2>3. x - (-1) * w = x + w /\ x - (-2) * n = x + w
    BY <1>1, <1>3
  <2>4. (x + w) % w = x + w /\ x + w >= n
    BY <1>1, <1>3, <1>8
  <2>5. sumsub_res(op, a, b) = x % n /\ carry_out(op, a, b)
    BY <1>2, <2>2, <2>3, <2>4
  <2>. QED  BY <1>5, <1>8, <2>5 DEF Wrap, n, x
<1>. QED  BY <1>3, <1>7, <1>8

\* The borrow and the two signs decide the order of the operands, signed or not.
LEMMA OrderRight ==
  ASSUME NEW op \in {"LT", "GE", "SLT", "LTU", "GEU", "SLTU"}, NEW a \in Word, NEW b \in Word
  PROVE  lt_res(op, a, b) <=> Less(op, a, b)
<1>1. carry_out(op, a, b) <=> a < b
  BY SubtracterRight DEF Op
<1>2. a \in 0 .. Pow2[XLEN] - 1 /\ b \in 0 .. Pow2[XLEN] - 1 /\ Pow2[XLEN] = 2 * Pow2[XLEN - 1] /\ Pow2[XLEN - 1] \in Nat
  BY WordSize
<1>3. CASE op \in {"LT", "GE", "SLT"}
  BY <1>1, <1>2, <1>3 DEF lt_res, sign_eq, is_op_signed, Less, Signed, Msb
<1>4. CASE op \in {"LTU", "GEU", "SLTU"}
  BY <1>1, <1>2, <1>4 DEF lt_res, sign_eq, is_op_signed, Less, Signed, Msb
<1>. QED  BY <1>3, <1>4

\* A shift to the right stays a word, and the one that fills with the sign divides
\* the signed number, rounding down.
LEMMA ShiftRight ==
  ASSUME NEW a \in Word, NEW b \in Word
  PROVE  /\ a \div Pow2[shift(b)] \in Word
         /\ shift_res("SRA", a, b) = Wrap(Signed(a) \div Pow2[shift(b)])
         /\ shift_res("SRA", a, b) \in Word
<1>. DEFINE n == Pow2[XLEN]
            s == shift(b)
            p == Pow2[s]
            r == Pow2[XLEN - s]
            q == a \div p
<1>1. n \in Nat \ {0} /\ a \in 0 .. n - 1 /\ b \in Nat
  BY WordSize
<1>2. s \in 0 .. XLEN /\ XLEN - s \in 0 .. XLEN /\ s + (XLEN - s) = XLEN
  BY <1>1, WidthAssumption DEF shift
<1>3. p \in Nat \ {0} /\ r \in Nat \ {0}
  BY <1>2, PowAssumption
<1>4. n = p * r
  <2>1. Pow2[s + (XLEN - s)] = Pow2[s] * Pow2[XLEN - s]
    <3>. HIDE DEF s
    <3>. QED  BY <1>2, PowAssumption, WidthAssumption
  <2>. QED  BY <1>2, <2>1
<1>. HIDE DEF n, s, p, r
<1>5. q \in Int /\ 0 <= a - p * q /\ a - p * q < p
  BY <1>1, <1>3
<1>. HIDE DEF q
<1>6. q \in Int /\ r \in Int /\ a \in Int
  BY <1>1, <1>3, <1>5
<1>7. q < r
  <2>1. CASE q >= r
    <3>1. p * q >= p * r
      BY <1>3, <1>5, <2>1
    <3>. QED  BY <1>1, <1>3, <1>4, <1>5, <3>1
  <2>. QED  BY <1>6, <2>1
<1>8. q >= 0
  <2>1. CASE q <= -1
    <3>1. p * q <= -p
      BY <1>3, <1>5, <2>1
    <3>. QED  BY <1>1, <1>3, <1>5, <3>1
  <2>. QED  BY <1>6, <2>1
<1>9. r <= n
  BY <1>3, <1>4
<1>10. q \in Word
  BY <1>1, <1>3, <1>5, <1>7, <1>8, <1>9, WordSize DEF n
<1>11. shift_res("SRA", a, b) = q + (IF Msb(a) THEN n - r ELSE 0)
  BY DEF shift_res, n, r, p, q, s
<1>12. CASE Msb(a)
  <2>1. (a - r * p) \div p = q - r
    <3>1. (a - r * p) \div p = (a \div p) - r
      BY <1>3, <1>6, DivShift
    <3>. QED  BY <3>1 DEF q
  <2>2. Signed(a) = a - r * p
    BY <1>1, <1>3, <1>4, <1>12 DEF Signed, n
  <2>3. -1 \in Int /\ q - r \in Int
    BY <1>3, <1>5
  <2>4. ((q - r) - (-1) * n) % n = (q - r) % n
    BY <1>1, <2>3, DivShift
  <2>5. (q - r) - (-1) * n = q + (n - r) /\ q + (n - r) \in 0 .. n - 1
    BY <1>1, <1>3, <1>5, <1>7, <1>8, <1>9
  <2>6. (q + (n - r)) % n = q + (n - r)
    BY <1>1, <2>5
  <2>7. Wrap(Signed(a) \div p) = q + (n - r)
    BY <2>1, <2>2, <2>4, <2>5, <2>6 DEF Wrap, n
  <2>. QED  BY <1>10, <1>11, <1>12, <2>5, <2>7, WordSize DEF n, p, q, s
<1>13. CASE ~Msb(a)
  <2>1. q % n = q /\ q + 0 = q
    <3>1. q \in 0 .. n - 1
      BY <1>10, WordSize DEF n
    <3>. QED  BY <1>1, <3>1
  <2>2. Wrap(Signed(a) \div p) = q
    BY <1>13, <2>1 DEF Wrap, Signed, n, q
  <2>. QED  BY <1>10, <1>11, <1>13, <2>1, <2>2 DEF p, q, s
<1>. QED  BY <1>12, <1>13

LEMMA WrapIsWord == ASSUME NEW x \in Int PROVE Wrap(x) \in Word
BY WordSize DEF Wrap

\* The datapath computes what is expected, and a word.
LEMMA DatapathRight ==
  ASSUME NEW op \in Op, NEW a \in Word, NEW b \in Word
  PROVE  /\ m_res(op, a, b) = Expected(op, a, b) /\ m_res(op, a, b) \in Word
         /\ m_branch_en(op, a, b) <=> Taken(op, a, b)
<1>1. a \in Int /\ b \in Int /\ a + b \in Int /\ a - b \in Int /\ 0 \in Word /\ 1 \in Word
  BY WordSize
<1>2. CASE op \in {"ADD", "SUB"}
  BY <1>1, <1>2, SubtracterRight, WrapIsWord DEF m_res, Expected, m_branch_en, Taken
<1>3. CASE op \in {"AND", "XOR", "OR"}
  BY <1>3, GatesAssumption DEF m_res, bitop_res, Expected, m_branch_en, Taken
<1>4. CASE op \in {"SLT", "SLTU"}
  BY <1>1, <1>4, OrderRight DEF m_res, Expected, m_branch_en, Taken
<1>5. CASE op = "SLL"
  <2>1. shift_res(op, a, b) = Wrap(a * Pow2[shift(b)])
    BY <1>5 DEF shift_res, Wrap
  <2>2. shift(b) \in 0 .. XLEN
    BY <1>1, WidthAssumption DEF shift
  <2>3. Pow2[shift(b)] \in Int
    BY <2>2, PowAssumption
  <2>4. a * Pow2[shift(b)] \in Int
    BY <1>1, <2>3
  <2>5. Wrap(a * Pow2[shift(b)]) \in Word
    BY <2>4, WrapIsWord
  <2>. QED  BY <1>5, <2>1, <2>5 DEF m_res, Expected, m_branch_en, Taken
<1>6. CASE op = "SRL"
  BY <1>6, ShiftRight DEF m_res, shift_res, Expected, m_branch_en, Taken
<1>7. CASE op = "SRA"
  BY <1>7, ShiftRight DEF m_res, Expected, m_branch_en, Taken
<1>8. CASE op \in {"LT", "LTU", "GE", "GEU"}
  BY <1>8, OrderRight DEF m_res, Expected, m_branch_en, Taken
<1>9. CASE op \in {"EQ", "NEQ"}
  BY <1>9, GatesAssumption DEF m_res, Expected, m_branch_en, neq_res, bitop_res, Taken
<1>10. CASE op = "ARG2"
  BY <1>10 DEF m_res, Expected, m_branch_en, Taken
<1>. QED  BY <1>2, <1>3, <1>4, <1>5, <1>6, <1>7, <1>8, <1>9, <1>10 DEF Op

-------------------------------------------------------------------------------

IInv == TypeOK /\ ResultRight /\ BranchRight

LEMMA InitInv == Init => IInv
<1>. SUFFICES ASSUME Init PROVE IInv
  OBVIOUS
<1>1. 0 \in Word /\ "ADD" \in Op
  BY WordSize DEF Op
<1>2. job \in Job /\ ~job.due
  BY <1>1 DEF Init, Job
<1>3. TypeOK
  BY <1>1, <1>2 DEF Init, TypeOK
<1>. QED  BY <1>2, <1>3 DEF Init, IInv, ResultRight, BranchRight

LEMMA NextInv == IInv /\ [Next]_vars => IInv'
<1>. SUFFICES ASSUME IInv, [Next]_vars PROVE IInv'
  OBVIOUS
<1>1. ASSUME NEW op \in Op, NEW a \in Operand, NEW b \in Operand, NEW out \in BOOLEAN, Enter(op, a, b, out)
      PROVE  IInv'
  <2>1. a \in Word /\ b \in Word
    BY OperandAssumption
  <2>2. /\ m_res(op, a, b) = Expected(op, a, b) /\ m_res(op, a, b) \in Word
        /\ m_branch_en(op, a, b) <=> Taken(op, a, b)
    BY <2>1, DatapathRight
  <2>3. m_branch_en(op, a, b) \in BOOLEAN
    BY DEF m_branch_en
  <2>4. TypeOK'
    BY <1>1, <2>1, <2>2, <2>3 DEF Enter, TypeOK, Job
  <2>5. job'.op = op /\ job'.a = a /\ job'.b = b /\ job'.due
    BY <1>1 DEF Enter
  <2>6. ResultRight'
    BY <1>1, <2>2, <2>5 DEF Enter, ResultRight
  <2>7. BranchRight'
    BY <1>1, <2>2, <2>5 DEF Enter, BranchRight
  <2>. QED  BY <2>4, <2>6, <2>7 DEF IInv
<1>2. CASE Leave
  BY <1>2 DEF Leave, IInv, TypeOK, Job, ResultRight, BranchRight
<1>3. CASE Reset
  BY <1>3, WordSize DEF Reset, IInv, TypeOK, Job, ResultRight, BranchRight
<1>4. CASE UNCHANGED vars
  BY <1>4 DEF vars, IInv, TypeOK, ResultRight, BranchRight, Expected, Taken, Less
<1>. QED  BY <1>1, <1>2, <1>3, <1>4 DEF Next

\* The registers of IALU keep their types, its results and its branches are right,
\* at every width and for all operands.
THEOREM UnitRight == Spec => []IInv
<1>. QED  BY InitInv, NextInv, PTL DEF Spec

\* At every width, the results of all seventeen operations are the RISC-V ones.
THEOREM ResultRightAlways == Spec => []ResultRight
<1>1. IInv => ResultRight
  BY DEF IInv
<1>. QED  BY <1>1, UnitRight, PTL

\* At every width, a branch is taken exactly when its comparison holds.
THEOREM BranchRightAlways == Spec => []BranchRight
<1>1. IInv => BranchRight
  BY DEF IInv
<1>. QED  BY <1>1, UnitRight, PTL

-------------------------------------------------------------------------------
(* The unit of ExecStage                                                     *)

\* ExecStage's results and branches are those of the I extension.
LEMMA ExecResult ==
  ASSUME NEW op \in Exec!IaluOp, NEW a \in Word, NEW b \in Word
  PROVE  /\ Exec!IaluRes(op, a, b) = Expected(op, a, b)
         /\ Exec!IaluBranchEn(op, a, b) = Taken(op, a, b)
<1>1. op \in {"ADD", "SUB", "SLTU", "EQ", "NEQ", "LTU", "GEU"}
  BY DEF Exec!IaluOp
<1>2. 1 % Pow2[XLEN] = 1
  <2>1. Pow2[XLEN] \in Nat \ {0} /\ 1 \in 0 .. Pow2[XLEN] - 1
    BY WordSize
  <2>. QED  BY <2>1
<1>3. Exec!IaluRes(op, a, b) = Expected(op, a, b)
  BY <1>1, <1>2 DEF Exec!IaluRes, Exec!Plus, Exec!Minus, Expected, Wrap, Less
<1>4. Exec!IaluBranchEn(op, a, b) = Taken(op, a, b)
  BY <1>1 DEF Exec!IaluBranchEn, Taken, Less
<1>. QED  BY <1>3, <1>4

\* At every width, IALU with its one subtracter behaves as the unit that the
\* pipeline's model has in its place.
THEOREM ExecUnitImplemented == Spec => ImplementsExecUnit
<1>. DEFINE UnitStep == job'.op \in Exec!IaluOp => ExecUnitStep \/ ExecUnitReset
<1>1. IInv /\ [Next]_vars => [UnitStep]_vars
  <2>. SUFFICES ASSUME IInv, Next, job'.op \in Exec!IaluOp
                PROVE  ExecUnitStep \/ ExecUnitReset
    OBVIOUS
  <2>1. ASSUME NEW op \in Op, NEW a \in Operand, NEW b \in Operand, NEW out \in BOOLEAN,
               Enter(op, a, b, out)
        PROVE  ExecUnitStep
    <3>1. a \in Word /\ b \in Word
      BY OperandAssumption
    <3>2. job'.op = op /\ job'.a = a /\ job'.b = b
      BY <2>1 DEF Enter
    <3>3. /\ m_res(op, a, b) = Exec!IaluRes(op, a, b)
          /\ m_branch_en(op, a, b) = Exec!IaluBranchEn(op, a, b)
      <4>1. m_branch_en(op, a, b) = Taken(op, a, b)
        BY <3>1, DatapathRight DEF m_branch_en, Taken
      <4>. QED  BY <3>1, <3>2, <4>1, DatapathRight, ExecResult
    <3>4. Exec!AluReadyIn(out)
      BY <2>1 DEF Enter, ready_in, Exec!AluReadyIn
    <3>5. Exec!IaluTick(TRUE, job'.op, job'.a, job'.b, out)
      BY <2>1, <3>2, <3>3 DEF Enter, Exec!IaluTick
    <3>6. /\ TRUE => Exec!AluReadyIn(out)
          /\ Exec!IaluTick(TRUE, job'.op, job'.a, job'.b, out)
      BY <3>4, <3>5
    <3>. QED  BY <3>6 DEF ExecUnitStep
  <2>2. CASE Leave
    <3>1. branch_en => valid_out
      BY DEF IInv, ResultRight, BranchRight
    <3>2. Exec!IaluTick(FALSE, job'.op, job'.a, job'.b, TRUE)
      BY <2>2, <3>1 DEF Leave, IInv, TypeOK, Exec!IaluTick
    <3>3. /\ FALSE => Exec!AluReadyIn(TRUE)
          /\ Exec!IaluTick(FALSE, job'.op, job'.a, job'.b, TRUE)
      BY <3>2
    <3>. QED  BY <3>3 DEF ExecUnitStep
  <2>3. CASE Reset
    BY <2>3 DEF Reset, ExecUnitReset
  <2>. QED  BY <2>1, <2>2, <2>3 DEF Next
<1>2. Spec => [][UnitStep]_vars
  BY <1>1, UnitRight, PTL DEF Spec
<1>. QED  BY <1>2 DEF ImplementsExecUnit

===============================================================================
