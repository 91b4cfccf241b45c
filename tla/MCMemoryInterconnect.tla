------------------------ MODULE MCMemoryInterconnect ------------------------
(***************************************************************************)
(* MemoryInterconnect for TLC: what the two masters ask for.                 *)
(***************************************************************************)
EXTENDS MemoryInterconnect

Read(s, a)     == [req |-> TRUE, to |-> s, addr |-> a, we |-> FALSE, data |-> 0]
Write(s, a, v) == [req |-> TRUE, to |-> s, addr |-> a, we |-> TRUE, data |-> v]

\* master 1 uses every memory, master 2 fetches; they meet in all but the peripherals
DataAndFetch ==
  <<{Read("rom", 1), Read("ram", 0), Read("ram", 1), Write("ram", 0, 1), Write("ram", 1, 0),
     Read("periph", 0), Read("periph", 1), Write("periph", 0, 1), Read("bad", 0)},
    {Read("rom", 0), Read("rom", 1), Read("ram", 0), Read("bad", 0)}>>

ZeroAndOne == {[a \in Addr |-> a]}

===============================================================================
