------------------------------ MODULE ArxCoreLive ------------------------------
(***************************************************************************)
(* Liveness of the processor.  The clock is explicit here: a processor that  *)
(* is stuck still sees its clock tick, and nobody owes it a resume or a      *)
(* reset.  Without the variable clock, fairness of RunTick would oblige the  *)
(* environment to pull a stuck processor out by an input.  Liveness is       *)
(* checked by TLC only, on the programs of MCArxCore.                        *)
(***************************************************************************)
EXTENDS MCArxCore

VARIABLE clock

liveVars == <<vars, clock>>

Edge == RunTick /\ clock' = ~clock

\* The clock of the board never stops; there is no reset.
LiveSpec == Init /\ clock = FALSE /\ [][Edge]_liveVars /\ WF_liveVars(Edge)

\* A halt request ends in a halted processor unless it is withdrawn, whatever
\* the fetch and the memory stage were waiting for (InsnFetch.sv:120-122,
\* MemStage.sv:175).
HaltHappens == halt_req_in ~> (m_is_halted \/ ~halt_req_in)

\* A processor that is not being halted keeps retiring instructions: the decoder
\* never waits for a counter that nobody will decrease.
Retires == []<>(wb_valid \/ halt_req_in)

===============================================================================
