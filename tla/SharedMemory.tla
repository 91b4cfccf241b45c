----------------------------- MODULE SharedMemory -----------------------------
(***************************************************************************)
(* What the two masters of the memory interconnect may rely on, and all that *)
(* ArxCore and the debug unit assume of their memories: in every cycle some  *)
(* of the requests are accepted, at most one for each memory; a held request *)
(* is accepted after at most MaxWait refusals; an accepted request is        *)
(* answered, to its master alone, in the next cycle.                         *)
(***************************************************************************)
EXTENDS Naturals

CONSTANTS Addr, Value,
          BadData,      \* what a read of no memory returns
          MaxWait

Masters == {1, 2}
Slaves  == {"rom", "ram", "periph"}
Regions == Slaves \cup {"bad"}

\* the wires of a master
Request == [req : BOOLEAN, to : Regions, addr : Addr, we : BOOLEAN, data : Value]

VARIABLES
  req,            \* the masters' wires in this cycle
  rom, ram,       \* contents of the two memories
  out_1, timer,   \* the registers of the peripherals
  ack, data,      \* the answers in this cycle
  wait            \* refusals of the request a master is holding

sharedVars == <<req, rom, ram, out_1, timer, ack, data, wait>>

\* The peripherals are read in the cycle of the answer; address 0 is the output
\* register, the timer is at another address.
PeriphRead(a) == CASE a = 0 -> out_1' [] a = 1 -> timer' [] OTHER -> 0

ReadData(r) ==
  CASE r.to = "rom" -> rom[r.addr]
    [] r.to = "ram" -> ram[r.addr]
    [] OTHER        -> BadData

Answered(acc, m) ==
  /\ req[m].to # "periph" => data'[m] = ReadData(req[m])
  /\ req[m].to = "periph" => data'[m] = PeriphRead(req[m].addr)

\* a master that goes on asking the same memory after a refusal
Holds(m) == req[m].req /\ req'[m].req /\ req'[m].to = req[m].to

Written(acc, s, a) == {m \in acc : req[m].we /\ req[m].to = s /\ req[m].addr = a}

Cycle(acc) ==
  /\ \A m \in acc : req[m].req
  /\ \A m \in Masters \ acc : req[m].req => wait[m] < MaxWait
  /\ \A m, n \in acc : m # n => req[m].to # req[n].to \/ req[m].to = "bad"
  /\ ack' = [m \in Masters |-> m \in acc]
  /\ data' \in [Masters -> Value]
  /\ \A m \in acc : ~req[m].we => Answered(acc, m)
  /\ wait' = [m \in Masters |-> IF Holds(m) /\ m \notin acc THEN wait[m] + 1 ELSE 0]
  /\ \A a \in Addr :
       /\ \A m \in Written(acc, "ram", a) : ram'[a] = req[m].data
       /\ Written(acc, "ram", a) = {} => ram'[a] = ram[a]
  /\ \A m \in Written(acc, "periph", 0) : out_1' = req[m].data
  /\ Written(acc, "periph", 0) = {} => out_1' = out_1
  /\ UNCHANGED rom

\* the board is reset: every request is forgotten, the memories keep their words
ResetCycle ==
  /\ ack' = [m \in Masters |-> FALSE]
  /\ data' \in [Masters -> Value]
  /\ wait' = [m \in Masters |-> 0]
  /\ UNCHANGED <<rom, ram>>

SharedInit ==
  /\ ack = [m \in Masters |-> FALSE]
  /\ wait = [m \in Masters |-> 0]

SharedNext == ResetCycle \/ \E acc \in SUBSET Masters : Cycle(acc)

SharedSpec == SharedInit /\ [][SharedNext]_sharedVars

===============================================================================
