----------------------------- MODULE MCDebugSystem -----------------------------
(***************************************************************************)
(* DebugSystem for TLC: what the hosts ask for.                            *)
(***************************************************************************)
EXTENDS DebugSystem

Ask(cmd, data)  == [cmd |-> cmd, data |-> data]
At(a, rest)     == <<0, 0, 0, a>> \o rest

\* the program memory: reads and writes, one of them across the end of the
\* memory, an empty write, the longest of each, and packets too short for their
\* command or unknown
ProgRequests ==
  {Ask(2, At(1, <<2>>)), Ask(3, At(1, <<2, 1>>)), Ask(3, At(0, <<>>)),
   Ask(2, At(1, <<ByteSize - 1>>)), Ask(3, At(0, [i \in 1 .. ByteSize - 5 |-> i % 3])),
   Ask(2, At(1, <<>>)), Ask(3, <<0>>), Ask(8, <<>>)}

\* the commands that move the core, and the data memory while it is halted
DataRequests ==
  {Ask(0, <<>>), Ask(1, <<>>), Ask(6, <<>>), Ask(7, <<>>),
   Ask(4, At(1, <<2>>)), Ask(5, At(0, <<1>>)), Ask(5, At(1, <<2, 1>>)), Ask(5, At(1, <<>>)),
   Ask(4, At(0, <<>>)), Ask(5, <<>>)}

\* packets that may be damaged at any byte
NoisyRequests ==
  {Ask(0, <<>>), Ask(2, At(1, <<1>>)), Ask(3, At(1, <<2>>))}

\* a read of no bytes, which the tool refuses to send and the unit accepts
EmptyReadRequests ==
  {Ask(2, At(1, <<2>>)), Ask(2, At(0, <<0>>)), Ask(3, At(0, <<1>>))}

Sessions3 ==
  {[requests |-> ProgRequests, noise |-> {}],
   [requests |-> DataRequests, noise |-> {}],
   [requests |-> NoisyRequests, noise |-> {1, 2, 3, 8}]}

EmptyReadSession == {[requests |-> EmptyReadRequests, noise |-> {}]}

===============================================================================
