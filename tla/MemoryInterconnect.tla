-------------------------- MODULE MemoryInterconnect --------------------------
(***************************************************************************)
(* MemoryInterconnect.sv with its arbiters, ports and memories: master 1 is  *)
(* the data port of the processor (or the debugger's), master 2 its fetch    *)
(* port.  Each memory has an arbiter of its own; the answers are routed back *)
(* by the region each master asked for in the cycle before.                  *)
(*                                                                          *)
(* clk_en is high: the clock is not stopped by sw[3].                        *)
(***************************************************************************)
EXTENDS Naturals

CONSTANTS
  Addr, Value, BadData,
  Contents,       \* what the memories may hold at power-up
  Requests        \* what each master may put on its wires

Masters == {1, 2}
Slaves  == {"rom", "ram", "periph"}
Regions == Slaves \cup {"bad"}

Request == [req : BOOLEAN, to : Regions, addr : Addr, we : BOOLEAN, data : Value]

\* The fetch port writes nothing (top.sv:114-118), nothing writes the ROM through
\* the interconnect, and programs do not run from the peripherals.
ASSUME InterconnectAssumption ==
  /\ Addr \subseteq Nat /\ Value \subseteq Nat
  /\ {0, 1} \subseteq Value /\ BadData \in Value /\ 0 \in Addr
  /\ Contents \subseteq [Addr -> Value]
  /\ Requests \in [Masters -> SUBSET Request]
  /\ \A r \in Requests[2] : ~r.we /\ r.to # "periph"
  /\ \A r \in Requests[1] : r.to = "rom" => ~r.we

VARIABLES
  req,               \* the wires of the masters
  selected_master,   \* RamArbiter2to1, one for each memory
  rom_state,         \* RomPort
  port_ack,          \* RamPort of the RAM and of the peripherals
  req_delay,         \* the region a master asked for in the cycle before
  rom, ram, rom_q, ram_q, out_1, timer,
  wait               \* history: refusals of the request a master is holding

interVars == <<req, selected_master, rom_state, port_ack, req_delay>>
memoryVars == <<rom, ram, rom_q, ram_q, out_1, timer>>
vars == <<interVars, memoryVars, wait>>

TypeOK ==
  /\ req \in [Masters -> Request]
  /\ selected_master \in [Slaves -> Masters]
  /\ rom_state \in {"S_IDLE", "S_WAIT_DATA"}
  /\ port_ack \in [{"ram", "periph"} -> BOOLEAN]
  /\ req_delay \in [Masters -> Regions \cup {"none"}]
  /\ rom \in [Addr -> Value] /\ ram \in [Addr -> Value]
  /\ rom_q \in Value /\ ram_q \in Value /\ out_1 \in Value /\ timer \in {0, 1}
  /\ wait \in [Masters -> Nat]

-------------------------------------------------------------------------------
(* The wires                                                                 *)

Other(m) == 3 - m

Asks(m, s) == req[m].req /\ req[m].to = s

SlaveAck(s) == IF s = "rom" THEN rom_state = "S_WAIT_DATA" ELSE port_ack[s]

\* mutant: the arbiter keeps its master as long as that one asks
NextMasterGreedy(s) ==
  CASE Asks(1, s) /\ ~Asks(2, s) -> 1
    [] ~Asks(1, s) /\ Asks(2, s) -> 2
    [] OTHER                     -> selected_master[s]

next_master(s) ==
  CASE Asks(1, s) /\ ~Asks(2, s)  -> 1
    [] ~Asks(1, s) /\ Asks(2, s)  -> 2
    [] Asks(1, s) /\ Asks(2, s)   -> IF SlaveAck(s) THEN Other(selected_master[s])
                                                    ELSE selected_master[s]
    [] ~Asks(1, s) /\ ~Asks(2, s) -> selected_master[s]

slave_req(s) == Asks(next_master(s), s)
slave_in(s)  == req[next_master(s)]

arb_master_ack(m, s) == selected_master[s] = m /\ SlaveAck(s)

\* the peripherals answer combinationally, to the address of this cycle
PeriphQ == LET a == slave_in("periph").addr
           IN  CASE a = 0 -> out_1 [] a = 1 -> timer [] OTHER -> 0

slave_data(s) == CASE s = "rom" -> rom_q [] s = "ram" -> ram_q [] s = "periph" -> PeriphQ

\* mutant: the answer is routed by the region asked for now
RouteNow(m) == IF req[m].req THEN req[m].to ELSE "none"

Route(m) == req_delay[m]

master_ack(m) ==
  \/ Route(m) \in Slaves /\ arb_master_ack(m, Route(m))
  \/ Route(m) = "bad"

master_data(m) ==
  CASE Route(m) \in Slaves -> IF selected_master[Route(m)] = m
                              THEN slave_data(Route(m)) ELSE 0
    [] Route(m) = "bad"    -> BadData
    [] OTHER               -> 0

-------------------------------------------------------------------------------
(* One clock edge                                                            *)

ArbiterTick ==
  /\ selected_master' = [s \in Slaves |-> next_master(s)]

RomPortTick ==
  rom_state' = CASE rom_state = "S_IDLE" /\ slave_req("rom")       -> "S_WAIT_DATA"
                 [] rom_state = "S_WAIT_DATA" /\ ~slave_req("rom") -> "S_IDLE"
                 [] OTHER                                          -> rom_state

RamPortTick == port_ack' = [s \in {"ram", "periph"} |-> slave_req(s)]

DelayTick ==
  req_delay' = [m \in Masters |-> IF req[m].req THEN req[m].to ELSE "none"]

\* synchronous memories; q after a write is not used by anyone
MemoriesTick ==
  LET in(s) == slave_in(s)
  IN  /\ rom_q' = rom[in("rom").addr]
      /\ ram' = IF slave_req("ram") /\ in("ram").we
                THEN [ram EXCEPT ![in("ram").addr] = in("ram").data] ELSE ram
      /\ ram_q' = ram[in("ram").addr]
      /\ UNCHANGED rom

PeriphOut ==
  LET in == slave_in("periph")
  IN  out_1' = IF slave_req("periph") /\ in.we /\ in.addr = 0 THEN in.data ELSE out_1

\* mutant: the counter is wider than its register
TimerTickWide == timer' = timer + 1

TimerTick == timer' = (timer + 1) % 2

Accepted(m) == req[m].req /\ (req[m].to = "bad" \/ next_master(req[m].to) = m)

\* The memory stage and the copier keep their address while the answer is there
\* (MemStage.sv:163-168, DebugMemoryCopier.sv:130-157): the peripherals' answer
\* depends on it.
MasterTick(next) ==
  /\ req' = next
  /\ \A m \in Masters : Accepted(m) /\ req[m].to = "periph" =>
       next[m] = [req[m] EXCEPT !.req = FALSE]

Holds(m) == req[m].req /\ req'[m].req /\ req'[m].to = req[m].to

Waiting == wait' = [m \in Masters |-> IF Holds(m) /\ ~Accepted(m) THEN wait[m] + 1 ELSE 0]

Tick(next) ==
  /\ MasterTick(next)
  /\ ArbiterTick /\ RomPortTick /\ RamPortTick /\ DelayTick
  /\ MemoriesTick /\ PeriphOut /\ TimerTick
  /\ Waiting

\* what a master may drive: its requests, or the wires it had, without a request
Wires(m) == Requests[m] \cup {[req[m] EXCEPT !.req = FALSE]}

RunTick == \E next1 \in Wires(1), next2 \in Wires(2) :
             Tick([m \in Masters |-> IF m = 1 THEN next1 ELSE next2])

\* arstn low resets everything but the memories; the processor and the debug unit
\* ask for nothing when it goes up.
ResetTick ==
  /\ req' = [m \in Masters |-> [req[m] EXCEPT !.req = FALSE]]
  /\ selected_master' = [s \in Slaves |-> 1]
  /\ rom_state' = "S_IDLE"
  /\ port_ack' = [s \in {"ram", "periph"} |-> FALSE]
  /\ req_delay' = [m \in Masters |-> "none"]
  /\ out_1' = 0 /\ timer' = 0
  /\ UNCHANGED <<rom, ram, rom_q, ram_q>>
  /\ wait' = [m \in Masters |-> 0]

Next == RunTick \/ ResetTick

Init ==
  /\ req = [m \in Masters |->
             [req |-> FALSE, to |-> "rom", addr |-> 0, we |-> FALSE, data |-> 0]]
  /\ selected_master = [s \in Slaves |-> 1]
  /\ rom_state = "S_IDLE"
  /\ port_ack = [s \in {"ram", "periph"} |-> FALSE]
  /\ req_delay = [m \in Masters |-> "none"]
  /\ rom \in Contents /\ ram \in Contents
  /\ rom_q = 0 /\ ram_q = 0 /\ out_1 = 0 /\ timer = 0
  /\ wait = [m \in Masters |-> 0]

Spec == Init /\ [][Next]_vars

-------------------------------------------------------------------------------
(* Properties                                                                *)

\* No master is refused twice in a row by the same memory: a refused one sees the
\* answer of the other, and the arbiter turns to it (RamArbiter2to1.sv:42).
RefusedIsNext ==
  \A m \in Masters : wait[m] > 0 =>
    /\ wait[m] = 1
    /\ req[m].req /\ req[m].to \in Slaves
    /\ SlaveAck(req[m].to) /\ selected_master[req[m].to] = Other(m)

Shared == INSTANCE SharedMemory
          WITH ack <- [m \in Masters |-> master_ack(m)],
               data <- [m \in Masters |-> master_data(m)],
               MaxWait <- 1

\* The arbiters, the ports and the delayed routing together behave as memories
\* that answer every accepted request, to its master, in the next cycle.
ImplementsSharedMemory == Shared!SharedSpec

===============================================================================
