-------------------------------- MODULE ArxCore --------------------------------
(***************************************************************************)
(* The processor (arx_core/src/ArxCore.sv): five stages wired together, the *)
(* halt register, and the mux that gives the data memory to the debugger    *)
(* while the processor is halted.  One step is one clock edge: every        *)
(* register takes its next value at once, computed from the old ones.       *)
(*                                                                          *)
(* Around it, the memories as MemoryInterconnect offers them: a request is  *)
(* accepted in the cycle it is made or, when another master holds the       *)
(* memory, up to MaxWait cycles later; a write is done at the acceptance    *)
(* and the answer is there in the next cycle.                               *)
(***************************************************************************)
EXTENDS InsnFetch, InsnDecodeStage, ExecStage, MemStage, WriteBackStage

CONSTANTS
  Programs,        \* contents of the instruction memory to start from
  DebugAccesses,   \* what the debug port may ask for in a cycle
  MaxWait,         \* how long the memories let a request wait
  MayHalt,         \* whether anyone asks the processor to halt
  MayReset         \* whether it is reset

NoAccess == [req |-> FALSE, we |-> FALSE, addr |-> 0, data |-> 0]

ASSUME CoreAssumption ==
  /\ Programs \subseteq [Word -> Insn]
  /\ DebugAccesses \subseteq [req : BOOLEAN, we : BOOLEAN, addr : Word, data : Word]
  /\ MaxWait \in Nat
  /\ MayHalt \in BOOLEAN /\ MayReset \in BOOLEAN

VARIABLES
  halt_req_in,
  halted,
  rom, rom_ack, rom_data, rom_wait,
  ram, ram_ack, ram_data, ram_wait,
  ram_owner     \* history: the port whose request ram_ack answers

coreVars == <<halt_req_in, halted>>
romVars  == <<rom_ack, rom_data, rom_wait>>
ramVars  == <<ram, ram_ack, ram_data, ram_wait, ram_owner>>

vars == <<fetchVars, decodeVars, execVars, memVars, wbVars, coreVars, rom, romVars, ramVars>>

TypeOK ==
  /\ FetchTypeOK /\ DecodeTypeOK /\ ExecTypeOK /\ MemTypeOK /\ WbTypeOK
  /\ halt_req_in \in BOOLEAN /\ halted \in BOOLEAN
  /\ rom \in [Word -> Insn]
  /\ rom_ack \in BOOLEAN /\ rom_data \in Insn /\ rom_wait \in 0 .. MaxWait
  /\ ram \in [Word -> Word]
  /\ ram_ack \in BOOLEAN /\ ram_data \in Word /\ ram_wait \in 0 .. MaxWait
  /\ ram_owner \in {"core", "debug"}

-------------------------------------------------------------------------------
(* The wires between the stages                                              *)

m_is_halted ==
  /\ FetchHaltAck(halt_req_in)
  /\ MemHaltAck(halt_req_in)

mem_ready_in == MemReadyIn(halt_req_in)
ex_valid_out == ExecValidOut(halt_req_in)
ex_ready_in  == ExecReadyIn(mem_ready_in, halt_req_in)
ex_pc_we_out == PcWeOut(mem_ready_in, halt_req_in)    \* fs_pc_we_in, id_flush_in
id_valid_out == DecodeValidOut(ex_pc_we_out, halt_req_in)
id_ready_in  == DecodeReadyIn(ex_ready_in, ex_pc_we_out, halt_req_in)
fs_valid_out == FetchValidOut(rom_ack, ex_pc_we_out, id_ready_in, halt_req_in)
mem_ack_in   == ram_ack /\ ~m_is_halted

rom_req  == RomReq(rom_ack, ex_pc_we_out, id_ready_in)
rom_addr == RomAddr(rom_ack, ex_pc_we_out, PcBranchOut, id_ready_in)

\* the RAM port: the debugger's while halted, the memory stage's otherwise
RamPort(dbg) ==
  IF m_is_halted THEN dbg
  ELSE [req |-> CpuReq(mem_ack_in), we |-> MemWrite(mem_insn),
        addr |-> mem_alu, data |-> mem_rs2]

-------------------------------------------------------------------------------
(* The memories                                                              *)

RomTick(req, addr) ==
  IF req
  THEN \/ rom_ack' = TRUE /\ rom_data' = rom[addr] /\ rom_wait' = 0
       \/ /\ rom_wait < MaxWait
          /\ rom_wait' = rom_wait + 1 /\ rom_ack' = FALSE /\ UNCHANGED rom_data
  ELSE rom_ack' = FALSE /\ rom_wait' = 0 /\ UNCHANGED rom_data

RamTick(port) ==
  IF port.req
  THEN \/ /\ ram' = IF port.we THEN [ram EXCEPT ![port.addr] = port.data] ELSE ram
          /\ ram_ack' = TRUE /\ ram_data' = ram[port.addr] /\ ram_wait' = 0
          /\ ram_owner' = IF m_is_halted THEN "debug" ELSE "core"
       \/ /\ ram_wait < MaxWait
          /\ ram_wait' = ram_wait + 1 /\ ram_ack' = FALSE
          /\ UNCHANGED <<ram, ram_data, ram_owner>>
  ELSE ram_ack' = FALSE /\ ram_wait' = 0 /\ UNCHANGED <<ram, ram_data, ram_owner>>

-------------------------------------------------------------------------------
(* One clock edge                                                            *)

\* mutant: the request is reported instead of the acknowledgement
HaltControlEarly(halt_req, resume_req) ==
  /\ halt_req_in' = IF halt_req THEN TRUE
                    ELSE IF resume_req THEN FALSE ELSE halt_req_in
  /\ halted' = halt_req_in

HaltControl(halt_req, resume_req) ==
  /\ halt_req_in' = IF halt_req THEN TRUE
                    ELSE IF resume_req THEN FALSE ELSE halt_req_in
  /\ halted' = m_is_halted

\* all of the processor but its execution stage
AroundExec(halt_req, resume_req, dbg) ==
  /\ HaltControl(halt_req, resume_req)
  /\ FetchTick(rom_ack, rom_data, ex_pc_we_out, PcBranchOut, id_ready_in)
  /\ DecodeTick(fs_valid_out, pc, FetchInsnOut(rom_data), ex_ready_in,
                ex_pc_we_out, halt_req_in, WbRegWrite, WbRd, wb_res)
  /\ MemTick(ex_valid_out, ex_insn, AluOut, ex_rs2, mem_ack_in, ram_data, halt_req_in)
  /\ WbTick(MemValidOut(halt_req_in), mem_insn, MemResult)
  /\ RomTick(rom_req, rom_addr)
  /\ RamTick(RamPort(dbg))
  /\ UNCHANGED rom

Tick(halt_req, resume_req, dbg) ==
  /\ AroundExec(halt_req, resume_req, dbg)
  /\ ExecTick(id_valid_out, m_insn, m_pc, regs[m_insn.rs1], regs[m_insn.rs2],
              mem_ready_in, halt_req_in)

\* core_reset_n low.  halted is not reset, and neither are the memories, which
\* see no request from the processor meanwhile (top.sv:103, top.sv:153).
AroundExecReset ==
  /\ MayReset
  /\ FetchReset /\ DecodeReset /\ MemReset /\ WbReset
  /\ halt_req_in' = FALSE
  /\ UNCHANGED halted
  /\ RomTick(FALSE, pc)
  /\ RamTick(NoAccess)
  /\ UNCHANGED rom

ResetTick == AroundExecReset /\ ExecReset

\* the mux hides the debug port from a processor that is not halted
DebugInputs == IF m_is_halted THEN DebugAccesses ELSE {NoAccess}

RunTick == \E halt_req \in {FALSE, MayHalt}, resume_req \in BOOLEAN, dbg \in DebugInputs :
             Tick(halt_req, resume_req, dbg)

Next == RunTick \/ ResetTick

Init ==
  /\ cur_state = "IDLE" /\ pc = 0 /\ insn_buf = ZeroInsn
  /\ pc_we_buf = FALSE /\ pc_in_buf = 0
  /\ m_valid = FALSE /\ m_pc = 0 /\ m_insn = ZeroInsn
  /\ m_used_reg = [r \in Reg |-> 0] /\ regs = [r \in Reg |-> 0]
  /\ ex_insn = ZeroInsn /\ ex_pc = 0 /\ ex_rs1 = 0 /\ ex_rs2 = 0
  /\ alu_valid = FALSE /\ branch_en = FALSE /\ ialu_res = 0
  /\ mul_valid = FALSE /\ mul_res = 0
  /\ div_cnt = 0 /\ div_valid = FALSE /\ div_res = 0
  /\ mem_valid = FALSE /\ mem_insn = ZeroInsn /\ mem_alu = 0 /\ mem_rs2 = 0
  /\ mem_request = FALSE /\ mem_data_valid = FALSE /\ mem_data = 0
  /\ wb_valid = FALSE /\ wb_insn = ZeroInsn /\ wb_res = 0
  /\ halt_req_in = FALSE /\ halted \in BOOLEAN
  /\ rom \in Programs
  /\ rom_ack = FALSE /\ rom_data = ZeroInsn /\ rom_wait = 0
  /\ ram = [a \in Word |-> 0]
  /\ ram_ack = FALSE /\ ram_data = 0 /\ ram_wait = 0 /\ ram_owner = "core"

Spec == Init /\ [][Next]_vars

-------------------------------------------------------------------------------
(* In flight: issued by the decoder, not yet written back.                   *)

ExBusy == alu_valid \/ mul_valid \/ div_valid \/ div_cnt > 0

ExWrites(r)  == ExBusy /\ RegWrite(ex_insn) /\ ex_insn.rd = r
MemWrites(r) == mem_valid /\ RegWrite(mem_insn) /\ mem_insn.rd = r
WbWrites(r)  == WbRegWrite /\ WbRd = r

Count(b) == IF b THEN 1 ELSE 0

\* The scoreboard counts exactly the writes in flight: the two bit counters of
\* InsnDecodeStage.sv:177-199 never wrap and never leak, through flushes, halts
\* and an issue and a write-back of the same register at the same edge.
ScoreboardExact ==
  \A r \in Reg :
    m_used_reg[r] = Count(ExWrites(r)) + Count(MemWrites(r)) + Count(WbWrites(r))

\* The execution stage holds one instruction: the valid bits of IALU, IMUL and
\* IDIV exclude each other and agree with the latched enables, so the result mux
\* and pc_we_out (ExecStage.sv:200-210) speak of the instruction in the stage.
ExecHoldsOne ==
  /\ Count(alu_valid) + Count(mul_valid) + Count(div_valid) + Count(div_cnt > 0) <= 1
  /\ alu_valid => AluEn(ex_insn)
  /\ mul_valid \/ div_valid \/ div_cnt > 0 => MduEn(ex_insn)
  /\ branch_en => alu_valid

\* A redirection is never lost or overwritten: while one waits in pc_we_buf the
\* fetch stage is still waiting for the answer it will throw away
\* (InsnFetch.sv:120-135 looks only at pc_we), and nothing that could redirect
\* again is behind it.
RedirectKept ==
  pc_we_buf => /\ cur_state = "FETCH"
               /\ ~m_valid /\ ~ExBusy

-------------------------------------------------------------------------------
(* The architectural state: the write-backs and the store still in flight    *)
(* applied to the register file and the memory; the next instruction is the  *)
(* oldest one not yet in the memory stage.                                   *)

ArchPc ==
  CASE ExBusy               -> ex_pc
    [] ~ExBusy /\ m_valid   -> m_pc
    [] OTHER                -> IF pc_we_buf THEN pc_in_buf ELSE pc

ArchMem ==
  IF mem_valid /\ mem_request /\ MemWrite(mem_insn)
  THEN [ram EXCEPT ![mem_alu] = mem_rs2] ELSE ram

WithWrite(f, b, r, v) == IF b /\ r # 0 THEN [f EXCEPT ![r] = v] ELSE f

MemPending == IF mem_request THEN ram[mem_alu] ELSE MemResult

ArchRegs ==
  WithWrite(WithWrite(regs, WbRegWrite, WbRd, wb_res),
            mem_valid /\ RegWrite(mem_insn), mem_insn.rd, MemPending)

Riscv == INSTANCE RiscvIsa
         WITH irom <- rom, ipc <- ArchPc, iregs <- ArchRegs, imem <- ArchMem,
              ihalted <- m_is_halted

\* The pipeline implements the instruction set: every edge either leaves the
\* architectural state alone or executes the next instruction of the program;
\* wrong-path instructions, waiting memories, halts and resumes are invisible.
ImplementsIsa == Riscv!Spec

\* An instruction leaves the decoder with the operands the program gives it,
\* although up to three writes may be in flight (InsnDecodeStage.sv:250-252).
OperandsCurrent ==
  Issue(ex_ready_in, ex_pc_we_out, halt_req_in) =>
    \A r \in {m_insn.rs1, m_insn.rs2} :
      /\ regs[r] = ArchRegs[r]
      /\ ~ExWrites(r) /\ ~MemWrites(r) /\ ~WbWrites(r)

-------------------------------------------------------------------------------
(* Halting                                                                   *)

\* What the debugger reads in halted is true as long as the halt is requested,
\* although halted is a cycle late and survives a reset: the debug unit touches
\* the data memory on the strength of it (DebugModule.sv:340, ArxCore.sv:512).
HaltedIsTrue == halted /\ halt_req_in => m_is_halted

\* The two users of the data memory never see each other's answers, also across
\* the edge where the mux of ArxCore.sv:518-543 changes hands.
AnswersReachTheirOwner ==
  ram_ack => /\ mem_request /\ ~m_is_halted => ram_owner = "core"
             /\ m_is_halted => ram_owner = "debug"

\* While the processor is halted no instruction moves from the decoder on and its
\* registers stay.  The data memory is what the program has made of it, with no
\* store still to come (MemStage.sv:175), and only writes of the debug port change it.
HaltFreezes ==
  [][m_is_halted /\ halt_req_in' /\ ~(cur_state' = "IDLE") =>
       /\ UNCHANGED <<cur_state, pc, insn_buf, m_valid, m_insn, ex_insn, mem_valid, mem_request>>
       /\ ArchRegs' = ArchRegs
       /\ ArchMem = ram
       /\ ram' # ram => \E dbg \in DebugAccesses :
            dbg.req /\ dbg.we /\ ram' = [ram EXCEPT ![dbg.addr] = dbg.data]]_vars

\* The memory interface keeps a request until it is answered: a request that was
\* not accepted is repeated with the same address (InsnFetch.sv:177-194).
FetchRequestHeld ==
  [][rom_req /\ ~rom_ack' /\ cur_state' # "IDLE" => rom_req' /\ rom_addr' = rom_addr]_vars

===============================================================================
