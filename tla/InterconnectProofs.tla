-------------------------- MODULE InterconnectProofs --------------------------
(***************************************************************************)
(* The memory interconnect is typed, never refuses a master twice, and       *)
(* implements SharedMemory, for every address space, set of words and set of *)
(* requests.                                                                 *)
(***************************************************************************)
EXTENDS MemoryInterconnect, TLAPS

\* The wires of the next cycle are requests of their masters.
LEMMA WiresTyped ==
  ASSUME TypeOK, NEW next1 \in Wires(1), NEW next2 \in Wires(2)
  PROVE  [m \in Masters |-> IF m = 1 THEN next1 ELSE next2] \in [Masters -> Request]
<1>1. Wires(1) \subseteq Request /\ Wires(2) \subseteq Request
  BY InterconnectAssumption DEF TypeOK, Wires, Request, Masters
<1>. QED  BY <1>1

\* The arbiters always point at a master.
LEMMA MastersTyped ==
  ASSUME TypeOK, NEW s \in Slaves
  PROVE  next_master(s) \in Masters
<1>1. selected_master[s] \in Masters
  BY DEF TypeOK
<1>2. Other(selected_master[s]) \in Masters
  BY <1>1 DEF Other, Masters
<1>3. 1 \in Masters /\ 2 \in Masters
  BY DEF Masters
<1>. QED  BY <1>1, <1>2, <1>3 DEF next_master

LEMMA InTyped ==
  ASSUME TypeOK, NEW s \in Slaves
  PROVE  /\ slave_in(s) \in Request
         /\ slave_in(s).addr \in Addr /\ slave_in(s).data \in Value
BY MastersTyped DEF slave_in, TypeOK, Request

ReadsOK == \A m \in Masters : master_data(m) \in Value

LEMMA ReadsTyped == TypeOK => ReadsOK
<1>. SUFFICES ASSUME TypeOK PROVE ReadsOK
  OBVIOUS
<1>1. PeriphQ \in Value
  BY InterconnectAssumption DEF TypeOK, PeriphQ
<1>2. \A s \in Slaves : slave_data(s) \in Value
  BY <1>1 DEF TypeOK, slave_data, Slaves
<1>3. 0 \in Value /\ BadData \in Value
  BY InterconnectAssumption
<1>. QED  BY <1>1, <1>2, <1>3 DEF ReadsOK, master_data

LEMMA InitTyped == Init => TypeOK
<1>. SUFFICES ASSUME Init PROVE TypeOK
  OBVIOUS
<1>1. Contents \subseteq [Addr -> Value] /\ 0 \in Value /\ 0 \in Addr
  BY InterconnectAssumption
<1>. QED  BY <1>1 DEF Init, TypeOK, Request, Regions, Slaves, Masters

LEMMA RunTyped == TypeOK /\ RunTick => TypeOK'
<1>. SUFFICES ASSUME TypeOK, RunTick PROVE TypeOK'
  OBVIOUS
<1>1. PICK next1 \in Wires(1), next2 \in Wires(2) :
        Tick([m \in Masters |-> IF m = 1 THEN next1 ELSE next2])
  BY DEF RunTick
<1>2. req' \in [Masters -> Request]
  BY <1>1, WiresTyped DEF Tick, MasterTick
<1>3. selected_master' \in [Slaves -> Masters]
  BY <1>1, MastersTyped DEF Tick, ArbiterTick
<1>4. rom_state' \in {"S_IDLE", "S_WAIT_DATA"}
  BY <1>1 DEF Tick, RomPortTick, TypeOK
<1>5. port_ack' \in [{"ram", "periph"} -> BOOLEAN]
  <2>1. \A s \in {"ram", "periph"} : slave_req(s) \in BOOLEAN
    BY MastersTyped DEF slave_req, Asks, TypeOK, Request, Slaves
  <2>. QED  BY <1>1, <2>1 DEF Tick, RamPortTick
<1>6. req_delay' \in [Masters -> Regions \cup {"none"}]
  BY <1>1 DEF Tick, DelayTick, TypeOK, Request
<1>7. /\ rom' \in [Addr -> Value] /\ ram' \in [Addr -> Value]
      /\ rom_q' \in Value /\ ram_q' \in Value /\ out_1' \in Value /\ timer' \in {0, 1}
  <2>1. "rom" \in Slaves /\ "ram" \in Slaves /\ "periph" \in Slaves
    BY DEF Slaves
  <2>. QED  BY <1>1, <2>1, InTyped DEF Tick, MemoriesTick, PeriphOut, TimerTick, TypeOK
<1>8. wait' \in [Masters -> Nat]
  BY <1>1 DEF Tick, Waiting, TypeOK
<1>. QED  BY <1>2, <1>3, <1>4, <1>5, <1>6, <1>7, <1>8 DEF TypeOK

LEMMA ResetTyped == TypeOK /\ ResetTick => TypeOK'
<1>. SUFFICES ASSUME TypeOK, ResetTick PROVE TypeOK'
  OBVIOUS
<1>1. 0 \in Value
  BY InterconnectAssumption
<1>2. req' \in [Masters -> Request]
  BY DEF ResetTick, TypeOK, Request
<1>. QED  BY <1>1, <1>2 DEF ResetTick, TypeOK, Masters, Slaves

LEMMA StepTyped == TypeOK /\ [Next]_vars => TypeOK'
<1>1. TypeOK /\ UNCHANGED vars => TypeOK'
  BY DEF TypeOK, vars, interVars, memoryVars
<1>. QED  BY <1>1, RunTyped, ResetTyped DEF Next

\* Type correctness of the interconnect and its memories.
THEOREM TypeCorrect == Spec => []TypeOK
BY InitTyped, StepTyped, PTL DEF Spec

-------------------------------------------------------------------------------
(* After a refusal the arbiter turns to the refused master.                  *)

\* A refused request lost to the other master, which was let through.
LEMMA RefusedLost ==
  ASSUME TypeOK, NEW m \in Masters, req[m].req, ~Accepted(m)
  PROVE  /\ req[m].to \in Slaves
         /\ next_master(req[m].to) = Other(m)
         /\ slave_req(req[m].to)
<1>1. req[m].to \in Slaves
  BY DEF TypeOK, Request, Regions, Accepted
<1>2. next_master(req[m].to) # m
  BY DEF Accepted
<1>3. next_master(req[m].to) = Other(m)
  BY <1>1, <1>2, MastersTyped DEF Masters, Other
<1>4. Asks(1, req[m].to) /\ Asks(2, req[m].to)
  BY <1>1, <1>2 DEF next_master, Asks, Masters
<1>. QED  BY <1>1, <1>3, <1>4 DEF slave_req, Other, Masters

\* A master that sees the other's answer is let through.
LEMMA TurnTaken ==
  ASSUME TypeOK, NEW m \in Masters, req[m].req, req[m].to \in Slaves,
         SlaveAck(req[m].to), selected_master[req[m].to] = Other(m)
  PROVE  Accepted(m)
BY DEF Accepted, next_master, Asks, Other, Masters

LEMMA RefusedStep == TypeOK /\ RefusedIsNext /\ [Next]_vars => RefusedIsNext'
<1>1. ASSUME TypeOK, RefusedIsNext, RunTick PROVE RefusedIsNext'
  <2>. SUFFICES ASSUME NEW m \in Masters, wait'[m] > 0
                PROVE  /\ wait'[m] = 1
                       /\ req'[m].req /\ req'[m].to \in Slaves
                       /\ SlaveAck(req[m].to)' /\ selected_master'[req'[m].to] = Other(m)
    BY DEF RefusedIsNext
  <2>1. Holds(m) /\ ~Accepted(m) /\ wait'[m] = wait[m] + 1
    BY <1>1 DEF RunTick, Tick, Waiting, TypeOK
  <2>2. wait[m] = 0
    <3>1. ~(wait[m] > 0)
      BY <1>1, <2>1, TurnTaken DEF RefusedIsNext
    <3>. QED  BY <1>1, <3>1 DEF TypeOK
  <2>3. req[m].req /\ req'[m].req /\ req'[m].to = req[m].to
    BY <2>1 DEF Holds
  <2>4. /\ req[m].to \in Slaves
        /\ next_master(req[m].to) = Other(m)
        /\ slave_req(req[m].to)
    BY <1>1, <2>1, <2>3, RefusedLost
  <2>5. selected_master'[req[m].to] = Other(m)
    BY <1>1, <2>4 DEF RunTick, Tick, ArbiterTick
  <2>6. SlaveAck(req[m].to)'
    <3>1. CASE req[m].to = "rom"
      BY <1>1, <2>3, <2>4, <3>1
         DEF RunTick, Tick, RomPortTick, SlaveAck, TypeOK
    <3>2. CASE req[m].to \in {"ram", "periph"}
      BY <1>1, <2>3, <2>4, <3>2 DEF RunTick, Tick, RamPortTick, SlaveAck
    <3>. QED  BY <2>4, <3>1, <3>2 DEF Slaves
  <2>. QED  BY <2>1, <2>2, <2>3, <2>4, <2>5, <2>6
<1>2. ASSUME ResetTick PROVE RefusedIsNext'
  BY <1>2 DEF ResetTick, RefusedIsNext
<1>3. ASSUME RefusedIsNext, UNCHANGED vars PROVE RefusedIsNext'
  BY <1>3 DEF RefusedIsNext, vars, interVars, memoryVars, SlaveAck
<1>. QED  BY <1>1, <1>2, <1>3 DEF Next

LEMMA InvStep ==
  /\ Init => TypeOK /\ RefusedIsNext
  /\ TypeOK /\ RefusedIsNext /\ [Next]_vars => (TypeOK /\ RefusedIsNext)'
<1>1. Init => RefusedIsNext
  BY DEF Init, RefusedIsNext
<1>. QED  BY <1>1, InitTyped, StepTyped, RefusedStep

\* No master is refused twice in a row by the same memory.
THEOREM RefusedIsNextAlways == Spec => []RefusedIsNext
BY InvStep, PTL DEF Spec

-------------------------------------------------------------------------------
(* The refinement of SharedMemory: the accepted requests are the ones the    *)
(* arbiters let through.                                                     *)

AcceptedSet == {m \in Masters : Accepted(m)}

\* Only master 1 uses the peripherals.
FetchAvoidsPeriph == req[2].to # "periph"

LEMMA FetchStep == /\ Init => FetchAvoidsPeriph
                   /\ TypeOK /\ FetchAvoidsPeriph /\ [Next]_vars => FetchAvoidsPeriph'
<1>1. Init => FetchAvoidsPeriph
  BY DEF Init, FetchAvoidsPeriph, Masters
<1>2. ASSUME TypeOK, FetchAvoidsPeriph PROVE \A r \in Wires(2) : r.to # "periph"
  BY <1>2, InterconnectAssumption DEF Wires, TypeOK, Request, FetchAvoidsPeriph, Masters
<1>3. ASSUME TypeOK, FetchAvoidsPeriph, RunTick PROVE FetchAvoidsPeriph'
  BY <1>2, <1>3 DEF RunTick, Tick, MasterTick, FetchAvoidsPeriph, Masters
<1>4. ASSUME TypeOK, FetchAvoidsPeriph, ResetTick PROVE FetchAvoidsPeriph'
  BY <1>4 DEF ResetTick, FetchAvoidsPeriph, TypeOK, Request, Masters
<1>5. ASSUME FetchAvoidsPeriph, UNCHANGED vars PROVE FetchAvoidsPeriph'
  BY <1>5 DEF FetchAvoidsPeriph, vars, interVars
<1>. QED  BY <1>1, <1>3, <1>4, <1>5 DEF Next

\* A port answers in the next cycle what it is asked in this one.
LEMMA PortsAnswer ==
  ASSUME TypeOK, RunTick, NEW s \in Slaves
  PROVE  /\ SlaveAck(s)' <=> slave_req(s)
         /\ selected_master'[s] = next_master(s)
<1>1. selected_master'[s] = next_master(s)
  BY DEF RunTick, Tick, ArbiterTick
<1>2. CASE s = "rom"
  BY <1>1, <1>2 DEF RunTick, Tick, RomPortTick, SlaveAck, TypeOK
<1>3. CASE s \in {"ram", "periph"}
  BY <1>1, <1>3 DEF RunTick, Tick, RamPortTick, SlaveAck
<1>. QED  BY <1>2, <1>3 DEF Slaves

\* An answer is seen in the next cycle by the masters that were let through, and
\* by no other.
LEMMA AckedAreAccepted ==
  ASSUME TypeOK, RunTick, NEW m \in Masters
  PROVE  master_ack(m)' <=> m \in AcceptedSet
<1>. SUFFICES ASSUME NEW s \in Regions, s = req[m].to
              PROVE  master_ack(m)' <=> m \in AcceptedSet
  BY DEF TypeOK, Request
<1>1. req_delay'[m] = IF req[m].req THEN s ELSE "none"
  BY DEF RunTick, Tick, DelayTick
<1>2. CASE ~req[m].req
  BY <1>1, <1>2 DEF master_ack, Route, Slaves, AcceptedSet, Accepted
<1>3. CASE req[m].req /\ s = "bad"
  BY <1>1, <1>3 DEF master_ack, Route, AcceptedSet, Accepted
<1>4. CASE req[m].req /\ s \in Slaves
  <2>1. req_delay'[m] = s /\ s # "bad"
    BY <1>1, <1>4 DEF Slaves
  <2>2. master_ack(m)' <=> selected_master'[s] = m /\ SlaveAck(s)'
    BY <1>4, <2>1 DEF master_ack, Route, arb_master_ack
  <2>3. master_ack(m)' <=> next_master(s) = m /\ slave_req(s)
    BY <1>4, <2>2, PortsAnswer
  <2>4. next_master(s) = m => slave_req(s)
    BY <1>4 DEF slave_req, Asks
  <2>5. m \in AcceptedSet <=> next_master(s) = m
    BY <1>4, <2>1 DEF AcceptedSet, Accepted
  <2>. QED  BY <2>3, <2>4, <2>5
<1>. QED  BY <1>2, <1>3, <1>4 DEF Regions

\* A read that was let through is answered with the word it asked for.
LEMMA AnswersAreRight ==
  ASSUME TypeOK, FetchAvoidsPeriph, RunTick, NEW m \in AcceptedSet
  PROVE  /\ req[m].to = "bad" => master_data(m)' = BadData
         /\ req[m].to = "rom" => master_data(m)' = rom[req[m].addr]
         /\ req[m].to = "ram" => master_data(m)' = ram[req[m].addr]
         /\ req[m].to = "periph" =>
              master_data(m)' = CASE req[m].addr = 0 -> out_1'
                                  [] req[m].addr = 1 -> timer'
                                  [] OTHER -> 0
<1>1. m \in Masters /\ req[m].req
  BY DEF AcceptedSet, Accepted
<1>2. req_delay'[m] = req[m].to
  BY <1>1 DEF RunTick, Tick, DelayTick
<1>3. ASSUME req[m].to = "bad" PROVE master_data(m)' = BadData
  BY <1>2, <1>3 DEF master_data, Route, Slaves
<1>4. ASSUME NEW s \in Slaves, req[m].to = s
      PROVE  /\ slave_in(s) = req[m] /\ selected_master'[s] = m
             /\ master_data(m)' = slave_data(s)'
  <2>1. next_master(s) = m
    BY <1>4 DEF AcceptedSet, Accepted, Slaves
  <2>2. slave_in(s) = req[m] /\ selected_master'[s] = m
    BY <2>1, PortsAnswer DEF slave_in
  <2>3. req_delay'[m] = s
    BY <1>2, <1>4
  <2>4. master_data(m)' = slave_data(s)'
    BY <2>2, <2>3 DEF master_data, Route, slave_data, Slaves
  <2>. QED  BY <2>2, <2>4
<1>5. ASSUME req[m].to = "rom" PROVE master_data(m)' = rom[req[m].addr]
  <2>1. slave_in("rom") = req[m] /\ master_data(m)' = slave_data("rom")'
    BY <1>4, <1>5 DEF Slaves
  <2>. QED  BY <2>1 DEF slave_data, RunTick, Tick, MemoriesTick, PeriphOut, TimerTick
<1>6. ASSUME req[m].to = "ram" PROVE master_data(m)' = ram[req[m].addr]
  <2>1. slave_in("ram") = req[m] /\ master_data(m)' = slave_data("ram")'
    BY <1>4, <1>6 DEF Slaves
  <2>. QED  BY <2>1 DEF slave_data, RunTick, Tick, MemoriesTick, PeriphOut, TimerTick
<1>7. ASSUME req[m].to = "periph"
      PROVE  master_data(m)' = CASE req[m].addr = 0 -> out_1'
                                 [] req[m].addr = 1 -> timer'
                                 [] OTHER -> 0
  <2>1. m = 1
    BY <1>1, <1>7 DEF Masters, FetchAvoidsPeriph
  <2>2. selected_master'["periph"] = 1 /\ master_data(m)' = slave_data("periph")'
    BY <1>4, <1>7, <2>1 DEF Slaves
  <2>3. req'[1] = [req[1] EXCEPT !.req = FALSE]
    BY <1>1, <1>7, <2>1 DEF RunTick, Tick, MasterTick, AcceptedSet
  <2>4. req'[1].addr = req[1].addr /\ ~Asks(1, "periph")'
    BY <1>1, <2>1, <2>3 DEF TypeOK, Request, Asks
  <2>5. FetchAvoidsPeriph'
    BY FetchStep DEF Next
  <2>6. ~Asks(2, "periph")'
    BY <2>5 DEF FetchAvoidsPeriph, Asks
  <2>7. next_master("periph")' = 1
    BY <2>2, <2>4, <2>6 DEF next_master
  <2>8. slave_in("periph")'.addr = req[m].addr
    BY <2>1, <2>4, <2>7 DEF slave_in
  <2>. QED  BY <2>2, <2>8 DEF slave_data, PeriphQ
<1>. QED  BY <1>3, <1>5, <1>6, <1>7

\* The arbiters let at most one request through to a memory.
LEMMA OneForEach ==
  ASSUME TypeOK, NEW m \in AcceptedSet, NEW n \in AcceptedSet, m # n
  PROVE  req[m].to # req[n].to \/ req[m].to = "bad"
BY DEF AcceptedSet, Accepted

\* What the arbiter of a memory let through is what it passes on.
LEMMA WritesPass ==
  ASSUME TypeOK, NEW s \in Slaves
  PROVE  /\ slave_req(s) => next_master(s) \in AcceptedSet /\ slave_in(s).to = s
         /\ \A m \in AcceptedSet :
              req[m].to = s => slave_req(s) /\ slave_in(s) = req[m] /\ next_master(s) = m
<1>1. next_master(s) \in Masters
  BY MastersTyped
<1>2. s # "bad"
  BY DEF Slaves
<1>. QED  BY <1>1, <1>2 DEF AcceptedSet, Accepted, slave_req, slave_in, Asks

\* The memories take the writes that were let through, and no others.
LEMMA MemoriesFollow ==
  ASSUME TypeOK, RunTick
  PROVE  /\ \A a \in Addr :
              /\ \A m \in Shared!Written(AcceptedSet, "ram", a) : ram'[a] = req[m].data
              /\ Shared!Written(AcceptedSet, "ram", a) = {} => ram'[a] = ram[a]
         /\ \A m \in Shared!Written(AcceptedSet, "periph", 0) : out_1' = req[m].data
         /\ Shared!Written(AcceptedSet, "periph", 0) = {} => out_1' = out_1
<1>1. \A s \in Slaves, a \in Addr :
        /\ \A m \in Shared!Written(AcceptedSet, s, a) :
              slave_req(s) /\ slave_in(s).we /\ slave_in(s).addr = a
                /\ slave_in(s).data = req[m].data
        /\ Shared!Written(AcceptedSet, s, a) = {} =>
              ~(slave_req(s) /\ slave_in(s).we /\ slave_in(s).addr = a)
  <2>. SUFFICES ASSUME NEW s \in Slaves, NEW a \in Addr
                PROVE  /\ \A m \in Shared!Written(AcceptedSet, s, a) :
                             slave_req(s) /\ slave_in(s).we /\ slave_in(s).addr = a
                               /\ slave_in(s).data = req[m].data
                       /\ Shared!Written(AcceptedSet, s, a) = {} =>
                             ~(slave_req(s) /\ slave_in(s).we /\ slave_in(s).addr = a)
    OBVIOUS
  <2>1. \A m \in Shared!Written(AcceptedSet, s, a) :
          slave_req(s) /\ slave_in(s).we /\ slave_in(s).addr = a
            /\ slave_in(s).data = req[m].data
    BY WritesPass DEF Shared!Written
  <2>2. slave_req(s) /\ slave_in(s).we /\ slave_in(s).addr = a
          => next_master(s) \in Shared!Written(AcceptedSet, s, a)
    BY WritesPass DEF Shared!Written, slave_in
  <2>. QED  BY <2>1, <2>2
<1>2. "ram" \in Slaves /\ "periph" \in Slaves /\ 0 \in Addr
  BY InterconnectAssumption DEF Slaves
<1>3. /\ ram' = IF slave_req("ram") /\ slave_in("ram").we
                 THEN [ram EXCEPT ![slave_in("ram").addr] = slave_in("ram").data] ELSE ram
      /\ out_1' = IF slave_req("periph") /\ slave_in("periph").we
                        /\ slave_in("periph").addr = 0
                   THEN slave_in("periph").data ELSE out_1
  BY DEF RunTick, Tick, MemoriesTick, PeriphOut, TimerTick
<1>4. ram \in [Addr -> Value]
  BY DEF TypeOK
<1>5. ASSUME NEW a \in Addr
      PROVE  /\ \A m \in Shared!Written(AcceptedSet, "ram", a) : ram'[a] = req[m].data
             /\ Shared!Written(AcceptedSet, "ram", a) = {} => ram'[a] = ram[a]
  BY <1>1, <1>2, <1>3, <1>4
<1>6. /\ \A m \in Shared!Written(AcceptedSet, "periph", 0) : out_1' = req[m].data
      /\ Shared!Written(AcceptedSet, "periph", 0) = {} => out_1' = out_1
  BY <1>1, <1>2, <1>3
<1>. QED  BY <1>5, <1>6

SharedAck  == [m \in Masters |-> master_ack(m)]
SharedData == [m \in Masters |-> master_data(m)]

LEMMA CycleFollows ==
  ASSUME TypeOK, RefusedIsNext, FetchAvoidsPeriph, RunTick
  PROVE  Shared!Cycle(AcceptedSet)
<1>0. Shared!Masters = Masters
  BY DEF Shared!Masters, Masters
<1>1. \A m \in AcceptedSet : req[m].req
  BY DEF AcceptedSet, Accepted
<1>2. \A m \in Masters \ AcceptedSet : req[m].req => wait[m] < 1
  <2>. SUFFICES ASSUME NEW m \in Masters, ~Accepted(m), req[m].req PROVE wait[m] < 1
    BY DEF AcceptedSet
  <2>1. ~(wait[m] > 0)
    BY TurnTaken DEF RefusedIsNext
  <2>. QED  BY <2>1 DEF TypeOK
<1>3. \A m, n \in AcceptedSet : m # n => req[m].to # req[n].to \/ req[m].to = "bad"
  BY OneForEach
<1>4. SharedAck' = [m \in Masters |-> m \in AcceptedSet]
  <2>1. \A m \in Masters : master_ack(m)' <=> m \in AcceptedSet
    BY AckedAreAccepted
  <2>2. \A m \in Masters : master_ack(m)' \in BOOLEAN
    BY DEF master_ack
  <2>3. \A m \in Masters : master_ack(m)' = (m \in AcceptedSet)
    BY <2>1, <2>2
  <2>. QED  BY <2>3 DEF SharedAck
<1>5. SharedData' \in [Masters -> Value]
  <2>1. TypeOK'
    BY RunTyped
  <2>2. ReadsOK'
    BY <2>1, ReadsTyped, PTL
  <2>. QED  BY <2>2 DEF ReadsOK, SharedData
<1>6. \A m \in AcceptedSet : ~req[m].we => Shared!Answered(AcceptedSet, m)
  <2>. SUFFICES ASSUME NEW m \in AcceptedSet PROVE Shared!Answered(AcceptedSet, m)
    OBVIOUS
  <2>1. SharedData'[m] = master_data(m)'
    BY DEF SharedData, AcceptedSet
  <2>2. req[m].to \in Regions
    BY DEF TypeOK, Request, AcceptedSet
  <2>3. ASSUME req[m].to # "periph" PROVE SharedData'[m] = Shared!ReadData(req[m])
    BY <2>1, <2>2, <2>3, AnswersAreRight DEF Shared!ReadData, Regions, Slaves
  <2>4. ASSUME req[m].to = "periph" PROVE SharedData'[m] = Shared!PeriphRead(req[m].addr)
    BY <2>1, <2>4, AnswersAreRight DEF Shared!PeriphRead
  <2>. QED  BY <2>3, <2>4 DEF Shared!Answered, SharedData
<1>7. wait' = [m \in Masters |-> IF Shared!Holds(m) /\ m \notin AcceptedSet THEN wait[m] + 1 ELSE 0]
  BY DEF RunTick, Tick, Waiting, Holds, Shared!Holds, AcceptedSet
<1>8. UNCHANGED rom
  BY DEF RunTick, Tick, MemoriesTick, PeriphOut, TimerTick
<1>. QED  BY <1>0, <1>1, <1>2, <1>3, <1>4, <1>5, <1>6, <1>7, <1>8, MemoriesFollow
          DEF Shared!Cycle, SharedAck, SharedData

LEMMA ResetFollows ==
  ASSUME TypeOK, ResetTick
  PROVE  Shared!ResetCycle
<1>1. \A m \in Masters : ~master_ack(m)'
  BY DEF ResetTick, master_ack, Route, Slaves
<1>2. ReadsOK'
  <2>1. TypeOK'
    BY ResetTyped
  <2>. QED  BY <2>1, ReadsTyped, PTL
<1>3. wait' = [m \in Masters |-> 0] /\ UNCHANGED <<rom, ram>>
  BY DEF ResetTick
<1>4. Shared!Masters = Masters
  BY DEF Shared!Masters, Masters
<1>5. \A m \in Masters : master_ack(m)' = FALSE
  BY <1>1 DEF master_ack
<1>. QED  BY <1>2, <1>3, <1>4, <1>5 DEF Shared!ResetCycle, ReadsOK

\* The interconnect implements the memories its masters assume: every accepted
\* request is answered in the next cycle, to its master alone, with the right
\* word, and no request is refused twice.
THEOREM ImplementsShared == Spec => ImplementsSharedMemory
<1>. DEFINE Inv == TypeOK /\ RefusedIsNext /\ FetchAvoidsPeriph
<1>1. Init => Inv
  BY InvStep, FetchStep
<1>2. Inv /\ [Next]_vars => Inv'
  BY InvStep, FetchStep
<1>3. Init => Shared!SharedInit
  <2>. SUFFICES ASSUME Init PROVE Shared!SharedInit
    OBVIOUS
  <2>1. \A m \in Masters : master_ack(m) = FALSE
    BY DEF Init, master_ack, Route, Slaves
  <2>. QED  BY <2>1 DEF Init, Shared!SharedInit, Shared!Masters, Masters
<1>4. Inv /\ [Next]_vars => [Shared!SharedNext]_(Shared!sharedVars)
  <2>. SUFFICES ASSUME Inv, [Next]_vars PROVE [Shared!SharedNext]_(Shared!sharedVars)
    OBVIOUS
  <2>1. CASE RunTick
    <3>1. AcceptedSet \in SUBSET Shared!Masters
      BY DEF AcceptedSet, Shared!Masters, Masters
    <3>. QED  BY <2>1, <3>1, CycleFollows DEF Shared!SharedNext
  <2>2. CASE ResetTick
    BY <2>2, ResetFollows DEF Shared!SharedNext
  <2>3. CASE UNCHANGED vars
    <3>1. \A m \in Masters : master_ack(m)' = master_ack(m) /\ master_data(m)' = master_data(m)
      BY <2>3 DEF vars, interVars, memoryVars, master_ack, master_data, Route, arb_master_ack,
                  SlaveAck, slave_data, PeriphQ, slave_in, next_master, Asks
    <3>. QED  BY <2>3, <3>1 DEF vars, interVars, memoryVars, Shared!sharedVars
  <2>. QED  BY <2>1, <2>2, <2>3 DEF Next
<1>. QED  BY <1>1, <1>2, <1>3, <1>4, PTL DEF Spec, Shared!SharedSpec, ImplementsSharedMemory

===============================================================================
