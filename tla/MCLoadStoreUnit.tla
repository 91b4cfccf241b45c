---------------------------- MODULE MCLoadStoreUnit ----------------------------
(***************************************************************************)
(* LoadStoreUnit for TLC: one bit stands for a byte, and a stored word has    *)
(* one byte set, so that every lane is told from the others.                 *)
(***************************************************************************)
EXTENDS LoadStoreUnit

OneLane == {[i \in 0 .. 3 |-> IF i = k THEN 1 ELSE 0] : k \in 0 .. 3}

===============================================================================
