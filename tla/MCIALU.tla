-------------------------------- MODULE MCIALU --------------------------------
(***************************************************************************)
(* IALU for TLC at a small width.                                           *)
(***************************************************************************)
EXTENDS IALU, Bitwise

PowersOfTwo == [n \in 0 .. XLEN |-> 2 ^ n]
BitAnd(a, b) == a & b
BitOr(a, b)  == a | b
BitXor(a, b) == a ^^ b

\* every word of four bits at a boundary: around zero, and around the change of sign
Boundaries == {0, 1, 2, 7, 8, 9, 15}

===============================================================================
