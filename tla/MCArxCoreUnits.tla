----------------------------- MODULE MCArxCoreUnits -----------------------------
(***************************************************************************)
(* ArxCoreUnits for TLC: small programs of MCArxCore, on the real units.    *)
(***************************************************************************)
EXTENDS ArxCoreUnits, Bitwise

PowersOfTwo  == [n \in 0 .. 2 * XLEN |-> 2 ^ n]
BitAnd(a, b) == a & b
BitOr(a, b)  == a | b
BitXor(a, b) == a ^^ b

\* for its programs alone: it is given none
MC == INSTANCE MCArxCore WITH
  WordSize <- Pow2[XLEN], DivTicks <- XLEN + 1, div_cnt <- cnt,
  Programs <- {}, DebugAccesses <- {}

\* those that multiply or divide: the units then pass instructions to each other
SmallPrograms == {p \in MC!AllSmallPrograms : \E a \in Word : MC!MduEn(p[a])}
NoDebugger    == MC!NoDebugger

===============================================================================
