--------------------------------- MODULE IALU ---------------------------------
(***************************************************************************)
(* The arithmetic and logic unit of arx_core/src/IALU.sv with its one        *)
(* subtracter that all comparisons share.  ExecStage takes the results of     *)
(* unsigned operations as given; here all seventeen are computed, with their  *)
(* signs, at any width XLEN.                                                 *)
(*                                                                          *)
(* A word is a number below 2^XLEN.  The bitwise gates are constants of the   *)
(* module: all that the unit relies on is that the exclusive or of equal      *)
(* words, and of no others, is zero.                                         *)
(***************************************************************************)
EXTENDS Integers

CONSTANTS
  XLEN,                        \* 32 in the code
  Pow2,                        \* the powers of two
  WordAnd(_, _), WordOr(_, _), WordXor(_, _),
  Operand                      \* the operands that are offered

ASSUME WidthAssumption == XLEN \in Nat \ {0}
ASSUME PowAssumption ==
  /\ \A n \in 0 .. XLEN : Pow2[n] \in Nat \ {0}
  /\ Pow2[0] = 1 /\ Pow2[1] = 2
  /\ \A m, n \in 0 .. XLEN : m + n <= XLEN => Pow2[m + n] = Pow2[m] * Pow2[n]

Word == 0 .. Pow2[XLEN] - 1

ASSUME OperandAssumption == Operand \subseteq Word
ASSUME GatesAssumption ==
  \A a, b \in Word :
    /\ WordAnd(a, b) \in Word /\ WordOr(a, b) \in Word /\ WordXor(a, b) \in Word
    /\ WordXor(a, b) = 0 <=> a = b

Op == {"ADD", "SUB", "XOR", "OR", "AND", "EQ", "NEQ", "LT", "LTU", "GE", "GEU",
       "SLT", "SLTU", "SLL", "SRL", "SRA", "ARG2"}

VARIABLES
  valid_out, res, branch_en,   \* the result register
  job       \* history: the operation entered last, and whether its result is due

vars == <<valid_out, res, branch_en, job>>

Job == [op : Op, a : Word, b : Word, due : BOOLEAN]

TypeOK ==
  /\ valid_out \in BOOLEAN /\ res \in Word /\ branch_en \in BOOLEAN
  /\ job \in Job

-------------------------------------------------------------------------------
(* The datapath                                                              *)

Msb(x) == x >= Pow2[XLEN - 1]

\* mutant: the comparison of the branch BGEU is forgotten
is_op_signed_geu(op) == op \notin {"LTU", "SLTU"}

is_op_signed(op) == op \notin {"LTU", "GEU", "SLTU"}

\* one bit wider than a word
sumsub_wide(op, a, b) == (IF op = "ADD" THEN a + b ELSE a - b) % (2 * Pow2[XLEN])

sumsub_res(op, a, b) == sumsub_wide(op, a, b) % Pow2[XLEN]
carry_out(op, a, b)  == sumsub_wide(op, a, b) >= Pow2[XLEN]

sign_eq(a, b) == Msb(a) = Msb(b)

bitop_res(op, a, b) ==
  CASE op = "AND" -> WordAnd(a, b)
    [] op = "OR"  -> WordOr(a, b)
    [] OTHER      -> WordXor(a, b)

\* the low log2(XLEN) bits; XLEN is a power of two
shift(b) == b % XLEN

shift_res(op, a, b) ==
  LET s == shift(b)
  IN  CASE op = "SLL" -> (a * Pow2[s]) % Pow2[XLEN]
        [] op = "SRL" -> a \div Pow2[s]
        [] OTHER      -> a \div Pow2[s] + (IF Msb(a) THEN Pow2[XLEN] - Pow2[XLEN - s] ELSE 0)

neq_res(op, a, b) == bitop_res(op, a, b) # 0

\* mutant: the borrow decides signed comparisons too
lt_res_unsigned(op, a, b) == carry_out(op, a, b)

lt_res(op, a, b) == IF sign_eq(a, b) THEN carry_out(op, a, b) ELSE Msb(a) = is_op_signed(op)

m_res(op, a, b) ==
  CASE op \in {"ADD", "SUB"}        -> sumsub_res(op, a, b)
    [] op \in {"AND", "XOR", "OR"}  -> bitop_res(op, a, b)
    [] op \in {"SLL", "SRL", "SRA"} -> shift_res(op, a, b)
    [] op \in {"SLTU", "SLT"}       -> IF lt_res(op, a, b) THEN 1 ELSE 0
    [] OTHER                        -> b

m_branch_en(op, a, b) ==
  \/ op = "EQ" /\ ~neq_res(op, a, b)
  \/ op = "NEQ" /\ neq_res(op, a, b)
  \/ op \in {"LTU", "LT"} /\ lt_res(op, a, b)
  \/ op \in {"GEU", "GE"} /\ ~lt_res(op, a, b)

-------------------------------------------------------------------------------
(* A clock edge                                                              *)

ready_in(out) == ~valid_out \/ out

Enter(op, a, b, out) ==
  /\ ready_in(out)
  /\ valid_out' = TRUE
  /\ res' = m_res(op, a, b)
  /\ branch_en' = m_branch_en(op, a, b)
  /\ job' = [op |-> op, a |-> a, b |-> b, due |-> TRUE]

\* mutant: the branch stays taken when its result has left
LeaveKeepBranch ==
  /\ valid_out' = FALSE
  /\ job' = [job EXCEPT !.due = FALSE]
  /\ UNCHANGED <<res, branch_en>>

\* the result leaves and none follows it
Leave ==
  /\ valid_out' = FALSE /\ branch_en' = FALSE
  /\ job' = [job EXCEPT !.due = FALSE]
  /\ UNCHANGED res

\* arstn low
Reset ==
  /\ valid_out' = FALSE /\ res' = 0 /\ branch_en' = FALSE
  /\ job' = [job EXCEPT !.due = FALSE]

Init ==
  /\ valid_out = FALSE /\ res = 0 /\ branch_en = FALSE
  /\ job = [op |-> "ADD", a |-> 0, b |-> 0, due |-> FALSE]

Next ==
  \/ \E op \in Op, a, b \in Operand, out \in BOOLEAN : Enter(op, a, b, out)
  \/ Leave
  \/ Reset

Spec == Init /\ [][Next]_vars

-------------------------------------------------------------------------------
(* What the unit promises                                                    *)

Wrap(x)   == x % Pow2[XLEN]
Signed(x) == IF Msb(x) THEN x - Pow2[XLEN] ELSE x

Less(op, a, b) == IF op \in {"LT", "GE", "SLT"} THEN Signed(a) < Signed(b) ELSE a < b

\* the results of the RISC-V I extension; a branch has none that is used
Expected(op, a, b) ==
  CASE op = "ADD" -> Wrap(a + b)
    [] op = "SUB" -> Wrap(a - b)
    [] op = "AND" -> WordAnd(a, b)
    [] op = "OR"  -> WordOr(a, b)
    [] op = "XOR" -> WordXor(a, b)
    [] op \in {"SLT", "SLTU"} -> IF Less(op, a, b) THEN 1 ELSE 0
    [] op = "SLL" -> Wrap(a * Pow2[shift(b)])
    [] op = "SRL" -> a \div Pow2[shift(b)]
    [] op = "SRA" -> Wrap(Signed(a) \div Pow2[shift(b)])
    [] OTHER      -> b

Taken(op, a, b) ==
  \/ op = "EQ" /\ a = b
  \/ op = "NEQ" /\ a # b
  \/ op \in {"LT", "LTU"} /\ Less(op, a, b)
  \/ op \in {"GE", "GEU"} /\ ~Less(op, a, b)

\* A result that is due is offered, and it is that of the operation that entered
\* last, of all seventeen and for every sign: the one subtracter and the signs of
\* the operands decide all six orderings.
ResultRight ==
  job.due => valid_out /\ res = Expected(job.op, job.a, job.b)

\* A branch is taken exactly when its comparison holds and its result has not
\* left: the stage redirects the fetch on this bit.
BranchRight ==
  branch_en <=> job.due /\ Taken(job.op, job.a, job.b)

\* What ExecStage takes for granted of the unit.
Exec == INSTANCE ExecStage WITH
  WordSize <- Pow2[XLEN], NumRegs <- 1, DivTicks <- 1,
  alu_valid <- valid_out, ialu_res <- res,
  ex_insn <- 0, ex_pc <- 0, ex_rs1 <- 0, ex_rs2 <- 0,
  mul_valid <- FALSE, mul_res <- 0, div_cnt <- 0, div_valid <- FALSE, div_res <- 0

ExecUnitStep ==
  \E enter, out \in BOOLEAN :
    /\ enter => Exec!AluReadyIn(out)
    /\ Exec!IaluTick(enter, job'.op, job'.a, job'.b, out)

ExecUnitReset == ~valid_out' /\ res' = 0 /\ ~branch_en'

\* Every step of IALU is a step of the unit that the processor's model assumes in
\* ExecStage, for the operations it has: the cycles in which it refuses and offers,
\* its results and its branches.
ImplementsExecUnit ==
  [][job'.op \in Exec!IaluOp => ExecUnitStep \/ ExecUnitReset]_vars

===============================================================================
