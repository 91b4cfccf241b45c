--------------------------------- MODULE IMDU ---------------------------------
(***************************************************************************)
(* The multiply and divide unit of arx_core/src/IMDU.sv with its datapath:  *)
(* the one-cycle multiplier IMUL and the shift-and-subtract divider IDIV.   *)
(* ExecStage takes its results as given; here they are computed, register   *)
(* by register, at any width XLEN.                                          *)
(*                                                                          *)
(* A word is a number below 2^XLEN, a double word one below 2^(2 XLEN).     *)
(* The stage that uses the unit is free: it offers any operation or none    *)
(* and takes or refuses the result in any cycle.                            *)
(***************************************************************************)
EXTENDS Integers

CONSTANTS
  XLEN,      \* 32 in the code
  Pow2,      \* the powers of two; a constant because a recursive
             \* definition cannot be reasoned about for every XLEN
  Operand    \* the operands that are offered

ASSUME WidthAssumption == XLEN \in Nat \ {0}
ASSUME PowAssumption ==
  /\ Pow2 \in [0 .. 2 * XLEN -> Nat \ {0}]
  /\ Pow2[0] = 1 /\ Pow2[1] = 2
  /\ \A m, n \in 0 .. XLEN : Pow2[m + n] = Pow2[m] * Pow2[n]

Word     == 0 .. Pow2[XLEN] - 1
WideWord == 0 .. Pow2[2 * XLEN] - 1

\* the value of Pow2 at a given width
PowersOfTwo == [n \in 0 .. 2 * XLEN |-> 2 ^ n]

ASSUME OperandAssumption == Operand \subseteq Word

DivQuotientOp == {"DIV", "DIVU"}
DivOp    == {"DIV", "DIVU", "REM", "REMU"}
MulOp    == {"MUL", "MULH", "MULHSU", "MULHU"}
Op       == MulOp \cup DivOp

VARIABLES
  mul_valid, mul_res,                       \* IMUL's result register
  cnt, dividend_wide, divisor_wide, quotient,
  sign_res_reg, is_res_quotient_reg,
  div_valid, div_res,                       \* IDIV's result register
  job       \* history: the operation entered last, and whether its result is due

vars == <<mul_valid, mul_res, cnt, dividend_wide, divisor_wide, quotient,
          sign_res_reg, is_res_quotient_reg, div_valid, div_res, job>>

Job == [op : Op, a : Word, b : Word, due : BOOLEAN]

\* the widths of the registers
TypeOK ==
  /\ mul_valid \in BOOLEAN /\ mul_res \in Word
  /\ cnt \in 0 .. XLEN + 1
  /\ dividend_wide \in WideWord /\ divisor_wide \in WideWord
  /\ quotient \in Word
  /\ sign_res_reg \in BOOLEAN /\ is_res_quotient_reg \in BOOLEAN
  /\ div_valid \in BOOLEAN /\ div_res \in Word
  /\ job \in Job

-------------------------------------------------------------------------------
(* Two's complement                                                          *)

Msb(x)    == x >= Pow2[XLEN - 1]
Neg(x)    == (Pow2[XLEN] - x) % Pow2[XLEN]
Signed(x) == IF Msb(x) THEN x - Pow2[XLEN] ELSE x
Abs(signed, x) == IF signed /\ Msb(x) THEN Neg(x) ELSE x

(* IMUL: both operands are extended by a bit, the sign where it counts       *)

mul_op_a(op, a) == IF op \in {"MUL", "MULH", "MULHSU"} THEN Signed(a) ELSE a

mul_op_b(op, b) == IF op \in {"MUL", "MULH"} THEN Signed(b) ELSE b

mul_result_wide(op, a, b) == (mul_op_a(op, a) * mul_op_b(op, b)) % Pow2[2 * XLEN]

\* mutant: the high half is not taken
mul_result_low(op, a, b) ==
  IF op = "MUL" THEN mul_result_wide(op, a, b) % Pow2[XLEN] ELSE mul_result_wide(op, a, b)

mul_result(op, a, b) ==
  IF op = "MUL" THEN mul_result_wide(op, a, b) % Pow2[XLEN]
                ELSE mul_result_wide(op, a, b) \div Pow2[XLEN]

(* IDIV: works on absolute values and negates what comes out                 *)

Signs(op) == op \in {"DIV", "REM"}    \* sign_arg_1, sign_arg_2 are looked at

\* mutant: the sign of the remainder is that of the quotient
sign_res_quotient(op, a, b) == Signs(op) /\ Msb(a) # Msb(b)

sign_res(op, a, b) ==
  \/ op = "DIV" /\ Msb(a) # Msb(b)
  \/ op = "REM" /\ Msb(a)

remainder  == dividend_wide % Pow2[XLEN]
abs_result == IF is_res_quotient_reg THEN quotient ELSE remainder
result     == IF sign_res_reg THEN Neg(abs_result) ELSE abs_result

diff_wide    == (dividend_wide - divisor_wide) % Pow2[2 * XLEN]
DiffNegative == diff_wide >= Pow2[2 * XLEN - 1]

\* mutant: the quotient bit is the sign of the difference
quotient_bit_inverted == IF DiffNegative THEN 1 ELSE 0

quotient_bit == IF DiffNegative THEN 0 ELSE 1

busy == cnt # 0

mul_ready_in(out) == ~mul_valid \/ out
div_ready_in(out) == ~busy /\ (~div_valid \/ out)

\* mutant: a running division does not keep the next operation out
ready_in_not_busy(out) == mul_ready_in(out) /\ (~div_valid \/ out)

ready_in(out) == mul_ready_in(out) /\ div_ready_in(out)

valid_out == mul_valid \/ div_valid
res_out   == IF mul_valid THEN mul_res ELSE IF div_valid THEN div_res ELSE 0

-------------------------------------------------------------------------------
(* A clock edge                                                              *)

ImulTick(enter, op, a, b, out) ==
  /\ mul_valid' = (enter \/ (mul_valid /\ ~out))
  /\ mul_res'   = IF enter THEN mul_result(op, a, b) ELSE mul_res

\* mutant: one iteration fewer
IterationsShort == XLEN

Iterations == XLEN + 1

DivLoad(op, a, b) ==
  /\ cnt' = Iterations
  /\ quotient' = 0
  /\ dividend_wide' = Abs(Signs(op), a)
  /\ divisor_wide'  = Abs(Signs(op), b) * Pow2[XLEN - 1]
  /\ sign_res_reg'  = sign_res(op, a, b)
  /\ is_res_quotient_reg' = (op \in DivQuotientOp)
  /\ div_valid' = FALSE
  /\ UNCHANGED div_res

\* the last busy cycle stores the result; what it subtracts is never used
DivIterate(out) ==
  /\ cnt' = cnt - 1
  /\ divisor_wide' = divisor_wide \div 2
  /\ quotient' = (2 * quotient + quotient_bit) % Pow2[XLEN]
  /\ dividend_wide' = IF DiffNegative THEN dividend_wide ELSE diff_wide
  /\ div_valid' = (cnt = 1 \/ (div_valid /\ ~out))
  /\ div_res'   = IF cnt = 1 THEN result ELSE div_res
  /\ UNCHANGED <<sign_res_reg, is_res_quotient_reg>>

DivIdle(out) ==
  /\ div_valid' = (div_valid /\ ~out)
  /\ UNCHANGED <<cnt, quotient, dividend_wide, divisor_wide, sign_res_reg,
                 is_res_quotient_reg, div_res>>

IdivTick(enter, op, a, b, out) ==
  \/ enter /\ DivLoad(op, a, b)
  \/ ~enter /\ busy /\ DivIterate(out)
  \/ ~enter /\ ~busy /\ DivIdle(out)

\* an operation enters the unit of its kind
Enter(op, a, b, out) ==
  /\ ready_in(out)
  /\ ImulTick(op \in MulOp, op, a, b, out)
  /\ IdivTick(op \in DivOp, op, a, b, out)
  /\ job' = [op |-> op, a |-> a, b |-> b, due |-> TRUE]

\* nothing is offered, or the unit refuses it
Pass(out) ==
  /\ ImulTick(FALSE, "MUL", 0, 0, out)
  /\ IdivTick(FALSE, "DIV", 0, 0, out)
  /\ job' = [job EXCEPT !.due = job.due /\ ~(valid_out /\ out)]

\* arstn low; the datapath of the divider is not reset
Reset ==
  /\ mul_valid' = FALSE /\ mul_res' = 0
  /\ cnt' = 0 /\ div_valid' = FALSE /\ div_res' = 0
  /\ job' = [job EXCEPT !.due = FALSE]
  /\ UNCHANGED <<quotient, dividend_wide, divisor_wide, sign_res_reg,
                 is_res_quotient_reg>>

Init ==
  /\ mul_valid = FALSE /\ mul_res = 0
  /\ cnt = 0 /\ dividend_wide = 0 /\ divisor_wide = 0 /\ quotient = 0
  /\ sign_res_reg = FALSE /\ is_res_quotient_reg = FALSE
  /\ div_valid = FALSE /\ div_res = 0
  /\ job = [op |-> "MUL", a |-> 0, b |-> 0, due |-> FALSE]

Next ==
  \/ \E op \in Op, a, b \in Operand, out \in BOOLEAN : Enter(op, a, b, out)
  \/ \E out \in BOOLEAN : Pass(out)
  \/ Reset

Spec == Init /\ [][Next]_vars

-------------------------------------------------------------------------------
(* What the unit promises                                                    *)

Wrap(x)    == x % Pow2[XLEN]
AbsInt(x)  == IF x < 0 THEN -x ELSE x

\* division rounds towards zero
TruncDiv(x, y) ==
  LET q == AbsInt(x) \div AbsInt(y) IN IF (x < 0) = (y < 0) THEN q ELSE -q

\* the results the RISC-V M extension defines, as IMDU_tb.sv:110-146 expects them
Expected(op, a, b) ==
  LET x == Signed(a)
      y == Signed(b)
  IN CASE op = "MUL"    -> Wrap(a * b)
       [] op = "MULH"   -> Wrap((x * y) \div Pow2[XLEN])
       [] op = "MULHSU" -> Wrap((x * b) \div Pow2[XLEN])
       [] op = "MULHU"  -> (a * b) \div Pow2[XLEN]
       [] op = "DIVU"   -> IF b = 0 THEN Wrap(-1) ELSE a \div b
       [] op = "REMU"   -> IF b = 0 THEN a ELSE a % b
       [] op = "DIV"    -> IF b = 0 THEN Wrap(-1) ELSE Wrap(TruncDiv(x, y))
       [] op = "REM"    -> IF b = 0 THEN a ELSE Wrap(x - y * TruncDiv(x, y))

NegativeByZero == job.op = "DIV" /\ job.b = 0 /\ Msb(job.a)

\* A result that is offered is that of the operation that entered last, for all
\* eight operations and every sign, the most negative number, overflow and zero
\* included; only the quotient of a negative number by zero is excepted, which
\* DivByZeroIsMinusOne is about.
ResultRight ==
  valid_out /\ ~NegativeByZero => res_out = Expected(job.op, job.a, job.b)

\* The operation whose result is due is in exactly one place, IMUL's register, the
\* divider's counter or the divider's register: none is lost or answered twice when
\* a new one enters in the cycle in which the old result leaves.
DueOnce ==
  LET at == {p \in {"mul", "iterating", "div"} :
               \/ p = "mul" /\ mul_valid
               \/ p = "iterating" /\ busy
               \/ p = "div" /\ div_valid}
  IN  \/ at = {} /\ ~job.due
      \/ \E p \in {"mul", "iterating", "div"} :
           at = {p} /\ job.due /\ ((p = "mul") <=> job.op \in MulOp)

\* While IDIV runs, dividend = quotient * divisor + rest, with the divisor at the
\* place the counter says and the rest below it: the invariant of long division,
\* on the registers at their widths (IDIV.sv:107-144).
DivisionInvariant ==
  LET a == Abs(Signs(job.op), job.a)
      b == Abs(Signs(job.op), job.b)
  IN
  busy =>
    /\ divisor_wide = (b * Pow2[cnt - 1]) \div 2
    /\ a = quotient * (b * Pow2[cnt - 1]) + dividend_wide
    /\ b # 0 => dividend_wide < b * Pow2[cnt - 1]
    /\ b = 0 => quotient = Pow2[Iterations - cnt] - 1

\* The result of a division from the cycle its operands enter: IDIV's register holds
\* that of an earlier one until the last iteration.
kept_res == IF busy THEN Expected(job.op, job.a, job.b) ELSE div_res

\* What ExecStage takes for granted: its units know the result when the operands
\* enter, and only keep count of the cycles.
Exec == INSTANCE ExecStage WITH
  WordSize <- Pow2[XLEN], NumRegs <- 1, DivTicks <- XLEN + 1,
  div_cnt <- cnt,
  div_res <- kept_res,
  ex_insn <- 0, ex_pc <- 0, ex_rs1 <- 0, ex_rs2 <- 0,
  alu_valid <- FALSE, branch_en <- FALSE, ialu_res <- 0

ExecUnitStep ==
  \E enter, out \in BOOLEAN :
    /\ enter => Exec!MulReadyIn(out) /\ Exec!DivReadyIn(out)
    /\ Exec!ImulTick(enter /\ job'.op \in MulOp, job'.op, job'.a, job'.b, out)
    /\ Exec!IdivTick(enter /\ job'.op \in DivOp, job'.op, job'.a, job'.b, out)

ExecUnitReset ==
  /\ ~mul_valid' /\ mul_res' = 0
  /\ cnt' = 0 /\ ~div_valid' /\ div_res' = 0

\* Every step of IMDU is a step of the unit that the processor's model assumes in
\* ExecStage: the same cycles of refusing and offering, and the result that
\* ExecStage computed when the operands entered, for the operations it has.
ImplementsExecUnit ==
  [][job.op \in Exec!MduOp /\ job'.op \in Exec!MduOp => ExecUnitStep \/ ExecUnitReset]_vars

\* What the testbench says of DIV (IMDU_tb.sv:131): a division by zero gives -1.
DivByZeroIsMinusOne ==
  valid_out /\ job.op = "DIV" /\ job.b = 0 => res_out = Wrap(-1)

===============================================================================
