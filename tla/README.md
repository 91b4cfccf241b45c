# Formal models of FPGALearning

TLA+ models, TLC runs and TLAPS proofs for the RISC-V system in `src/Calc2`: the five-stage
processor `arx_core`, its arithmetic units, the memory interconnect, the debug unit behind the
UART and the host tool that drives it; and for the compiler `src/AntlrTestProj` together with the
stack processor it generates code for.

Run a configuration with `tlc -config X.cfg M` (`PROJECT.json`, "runs", says which module goes with
which file) and check a proof module with `tlapm M.tla`.

## 1. The system

The repository is a collection of FPGA projects. Calc2 holds two systems: the RISC-V processor with its debug
unit, and an older stack processor, the target of the compiler AntlrTestProj. The other projects are their
ancestors or exercises.

| Component | State it keeps | Operations | Interacts with |
|---|---|---|---|
| arx_core pipeline (`arx_core/src`) | pc, a request to the ROM, a buffered redirection; a decoded instruction and a counter of writes in flight per register; the stage registers and valid bits of EX, MEM, WB; the halt request | one clock edge; halt, resume, reset | fetches and loads/stores through the interconnect; halted and inspected by the debug unit |
| IALU, IMDU (IMUL, IDIV) | result registers; the divider's dividend, divisor, quotient, counter | operation in, result out, both with valid/ready | the execution stage |
| LoadStoreUnit, ByteToWordAddrConverter | none (lanes) | loads and stores of bytes, half words and words; the debugger's bytes | memory stage, debugger, RAM with byte enables |
| Memory interconnect | for each slave: the master favoured last (`RamArbiter2to1`), a pending answer (`RomPort`, `RamPort`); the region each master asked for | request, grant, answer | two masters (data/debug port, fetch port), four regions |
| Peripherals, Timer, mmio | output register, timer, RAM | word access | interconnect |
| Debug unit (`src/DebugModule`) | parser state and packet, packet buffer, two copiers (program and data memory), dispatch and send state, timeout and reset counters | bytes from the UART, clock edges | UART, host, both memories, the core's halt and reset |
| ValidReadyDelay | pause counter | one byte out | debug unit, UART |
| Host tool (`tools/uart_debug.py`) | packet id, last answers | send a packet, read its answer | the line |
| Parser of AntlrTestProj (`MyLanguageParser.cpp`) | the position in the tokens, the tree being built | one function for each rule of the grammar | the visitor walks its tree |
| Compiler of AntlrTestProj (`MyVisitor.h`, `VariableAllocator`, `CodeGenerator`, `Assembler.h`) | blocks of variables and free slots of the globals and of the function; the program, its labels, the positions still to be patched; the label counter | one method for each rule; resolving the labels; saving `output.mif` and `output.hex` | its files are loaded into the stack processor's program memory |
| Stack processor of Calc2 (`Processor.sv` and its stages) | pc, previous pc, sp, fp, the decoded instruction, two operand registers, an FSM; data memory and output port | fetch, load B, load A, store; halt, resume | the memories; the debugger that halts it |
| UartMemInit, the stack processor of Calc, TrafficLight, small exercises | see `PROJECT.json` | | not modelled |

What is hard in it:

* *Interleaving in a pipeline without forwarding.* Up to three writes of one register are in flight; an
  issue and a write-back of one register meet at one edge; a division keeps EX busy while everything
  else wants to move; a branch resolves while a fetch has not been answered yet.
* *Handshakes over memories that answer late.* A fetch request, once made, must be held; the answer to a
  fetch made on the wrong path must be thrown away exactly once; a memory access must be made once.
* *Halting at any moment.* The halt is acknowledged when fetch and memory have drained, `halted` is
  registered a cycle later, and the data memory changes hands with it.
* *Two masters of several memories.* Refusals, answers that come a cycle later, and the two masters'
  answers coming from different memories at the same time.
* *A byte protocol.* Packets damaged, too short, of the wrong length; state of an earlier packet showing
  in a later answer; a timeout that must not fire on a slow but intact packet.
* *A compiler without checks.* Slots of closed blocks are used again in the order of an unordered_map; frame sizes and labels
  are patched into the program after the fact; nothing looks at the generated program before it runs.
* *Arithmetic at the edges.* Signs, the most negative number, division by zero, lanes and sign extension.

What makes each component correct is the list of properties in section 4.

## 2. Modules

    RiscvIsa <---- implemented by ----  ArxCore = InsnFetch + InsnDecodeStage + ExecStage
                                                  + MemStage + WriteBackStage  (over ArxTypes)
    ExecStage's units <-- implemented by -- IMDU, IALU
    ArxCore <---- implemented by ----  ArxCoreUnits = ArxCore's other stages + IALU + IMDU
    ArxCore's memories <-- assumed from --- SharedMemory <-- implemented by -- MemoryInterconnect
    ByteMemory <---- implemented by ----  LoadStoreUnit
    LanguageMeaning <-- compared with ---  Toolchain = MyLanguageParser + MyVisitor + StackProcessor
                                           MyVisitor = VariableAllocator + CodeGenerator (Assembler)
    DebugService <-- implemented by -- DebugSystem = DebugModule + UART, halt control, memories, host
                                       DebugModule = PacketParser + PacketBuffer + DebugMemoryCopier

**Core.** One TLA+ step of `ArxCore` is one clock edge. Each stage is a module with the source file's
registers as variables, its `assign`s as operators with the same names, and one `...Tick` operator with the
next values; `ArxCore` wires them as `ArxCore.sv` does. Inputs (halt, resume, the debug port, how late a memory
answers, reset) are chosen freely in every step. An instruction is a record of fields; addresses are
words. `RiscvIsa` is the abstract machine: pc, registers, memory, one instruction per step.
`ArxCoreLive` adds an explicit clock.

**Units.** `IMDU` and `IALU` have the datapath bit for bit, as arithmetic on numbers below 2^XLEN. The powers of two
are a constant (`Pow2`) with the two laws that are used, because a recursive definition cannot be
reasoned about for every XLEN; the bitwise gates of `IALU` are constants too.

**The whole processor.** `ExecStage` has units that know their result as soon as the operands enter, so that `ArxCore` can be checked
with many programs, halts and memories. `ArxCoreUnits` puts the real ones in their place: its registers are those of the pipeline, of `IALU`
and of `IMDU`, its edge is `ArxCore`'s `AroundExec` (all but the execution stage) with the stage's four latches and a step of each unit,
wired as `ExecStage.sv` wires them. It instantiates `ArxCore` twice: as `Pipe` on its own registers, for the wires and the other stages, and
as `Core`, the processor it implements, where only `div_res` is mapped: it is the result promised while a division runs (`kept_res` of IMDU), and
IDIV's register otherwise. The modules of the proofs are what it instantiates, so that their theorems can be cited.

**Memory.** `SharedMemory` says what a master may rely on: an accepted request is answered in the next
cycle, to its master alone, and a held request is refused at most once. `MemoryInterconnect` models
`MemoryInterconnect.sv`, `RamArbiter2to1.sv`, the ports, the memories and the peripherals. `LoadStoreUnit`
has the lanes; its abstract counterpart is a memory of bytes.

**Debug.** `PacketParser`, `PacketBuffer`, `DebugMemoryCopier` (once for each memory) and `DebugModule` follow
the source files; `DebugSystem` closes them with the UART's pace, the halt control as the core offers it, the memories
and the host. What the host may send is a session: a set of requests and whether the line may damage a byte; the run starts
with any of three sessions. `DebugService` is what the tool may take the unit for: a request under way or none, two memories, whether the core is
halted, and one step, `Serve`, in which all that the request asks for is done and the answer is there. A request of the service is under way
from its first byte until its answer is taken (`Request`); the memories and the halt are the host's own account of them while a request is being
served, and the unit's when it has been (`Memory`, `CoreHalted`).

**Compiler.** `MyLanguage` has the tokens and the tree's nodes, `MyLanguageParser` an operator for each rule function, from a position in the
tokens to a position and a tree. The parser calls itself through one recursive function over rules and positions, and the loop of a left
recursive rule is a recursive function over positions. `VariableAllocator`,
`Assembler` and `CodeGenerator` have an operator for each method. `MyVisitor` is a state machine: the C++ call stack is the variable
`work`, and one action runs a visit method up to its next nested visit, leaving the visits and the rest of the method on `work`. `StackProcessor`
has one step for each state of the FSM of `Processor.sv`. `Toolchain` is `main()`: parse, compile, save, and then run the image on the
processor, which a debugger may halt and resume. The trees in play are the nodes of a constant set `Nodes`, of which `WellFormed` says what
the accessors of `MyLanguageParser.h` deliver; powers of two and Verilog's `&`, `|` and `^` are constants as in the units, so that no module
the proofs reach declares a RECURSIVE operator. `LanguageMeaning` says independently of all that what a program means: an
interpreter with scopes of names, the static errors, and the text of a tree. It is what the runs compare with, not a model of code.

The `MC...` modules only give constants their values, and hold what an instance is compared with.

## 3. Bounds

| Run | Bounds | Why they are enough |
|---|---|---|
| core_isa, core_live | words 0..7, registers x0..x2, `DivTicks` 2 (33 in the code), `MaxWait` 1; in core_isa the debugger has one read of word 2 | all hazards need at most three instructions in flight and one register with three writers; a division that outlives the fetch and memory waits needs two ticks; the interconnect refuses at most once (proved), so one cycle of waiting is the worst that happens; one access of the debugger beside one of the core is every case of the shared port |
| core_units | words 0..3 (XLEN 2, so a division of three ticks), two registers, 488 programs, no halts, memories that answer at once, resets anywhere | every order of three instructions out of ten kinds, a multiplication or a division among them, and every pair of operands a program of three can make; halts and late memories are in core_isa and, with the real units, in the proof |
| interconnect | two addresses, two values, nine requests of the data port and four of the fetch port | every region, reads and writes, and the two masters in the same or different memories |
| imdu | XLEN 2, every operand, every history | the most negative number, -1 and 0 exist at two bits; the proofs cover every width |
| ialu | XLEN 4, seven operands | the words around zero and around the sign change |
| load_store | bytes of one bit, one word, stored words with one byte set | every offset, operation and lane; the proofs cover the rest |
| compiler, compiler_xor | words of 16 bits (`ImmBits` 6 in place of 22), a program memory of 120 words (8192 in the code); 420 sources, at most 40 statements | 16 bits keep every field of an instruction, an address above the frames at 1024 and the output port's address bit; the sources have every pair of operators on both sides, every statement in another, three variables freed together, recursion four deep, every static error, and texts with one token missing; 120 words are passed by one of them |
| debug, debug_empty_read | `ByteSize` 12 (values of a byte, and so the longest packet), `MemSize` 2, `TIMEOUT_TICKS` 3, `RESET_TICKS` 2, `NUM_TICKS` 1, `NumIds` 2, `MaxGap` 1 | a byte must hold eight commands and a length above the header's; addresses wrap, so the copier meets the end of the memory; `MaxGap + 1 < TIMEOUT_TICKS` is the code's own relation between the host's write and the timeout |

## 4. What the runs show

* **core_isa** The pipeline implements the instruction set (`ImplementsIsa`): for programs full of dependences,
  branches in each other's shadow, adjacent memory accesses and divisions, every edge leaves the architectural
  state alone or executes the next instruction, with halts, resumes and resets anywhere. On the way: the scoreboard is
  exact (`ScoreboardExact`), operands are current although nothing is forwarded (`OperandsCurrent`), EX holds one
  instruction (`ExecHoldsOne`), no redirection is lost (`RedirectKept`). The core and the debugger never take each
  other's answers (`AnswersReachTheirOwner`); `halted` is true when the debug unit reads it (`HaltedIsTrue`); a halted core
  does not move, no store of its program is still under way, and its memory changes only by writes of the debug port (`HaltFreezes`; the debugger
  of the run only reads, so there the memory stays as it is, and the writes are left to the proof); a fetch request is held until it is answered (`FetchRequestHeld`).
* **core_units** The pipeline with the real units does, cycle by cycle, what `ArxCore` does (`ImplementsCore`), for all small programs that multiply or divide, and so
  the instruction set (`ImplementsIsa`): an iteration too few is a pipeline that moves too early, a wrong quotient bit an instruction that
  computes something else.
* **core_live** Every halt request is acknowledged or withdrawn; the processor keeps retiring instructions.
* **interconnect** The interconnect implements `SharedMemory`; nobody is refused twice.
* **imdu, ialu** Every result is the RISC-V one, once, and the units are those `ExecStage` assumes (`ImplementsExecUnit`).
* **imdu_div_zero** (a violation) `DIV` of a negative number by zero gives 1, not -1.
* **load_store** All accesses together are one little-endian memory of bytes. Every access is compared with its own
  request, which the abstract memory sees: a store to other bytes than those asked for is not a store. A
  misaligned access is one of the aligned block its address is in, as the code drops the low bits.
* **debug** Three sessions. Program memory: every sequence of reads, writes, the longest, empty, too short and unknown packets. Data
  memory: HALT, RESUME, RESET, GET_STATE, reads and writes of a halted core whose port is sometimes refused. Noise: packets with
  a damaged byte. Every packet is answered once with its own id, status and bytes (`ResponseRight`, `Answered`), the memories hold what
  answered writes put there and nothing else (`WritesExact`), the host's picture of the core is right (`HaltKnown`), and a
  damaged packet leaves the unit in step with the host (`InSync`). All that the host sees is one request at a time, done at once, in order and only
  when asked for (`ImplementsService`): no step of the unit changes what a finished answer says, the memories or the halt behind the host's back.
* **debug_empty_read** (a violation) A READ of zero bytes is answered with the length of the read before it.

* **compiler** From the text to the printed words. The parser rebuilds the tree a text was written from and rejects exactly the texts
  that have none (`ParsesBack`). While the visitor works, live variables never share a slot, in whatever order a block's slots are freed
  (`SlotsDisjoint`). Of the image: the processor takes from a word the constant, or the immediate, the operation, the operands and the
  destination that the listing shows, except for the operands of a jump (below); every reference holds its label's address; and every slot reached through fp lies in the frame its function takes (`ImageRight`). While it runs, no pop meets an empty
  operand stack, the stack stays below the globals and no unwritten word is read (`StackDiscipline`). A program is refused
  exactly when it is in error or too large; any other prints the words it means and no others, however often it is halted, and
  reaches the end of main (`OutputRight`, `Ends`).
* **compiler_xor** (a violation) The operators `|` and `^` print the bitwise AND.

The violations are real disagreements in the code; `PROJECT.json`, "findings", quotes the lines.

One more disagreement has no run of its own, because `ImageRight` says exactly what it is. Of the sixteen addressing modes that the
listing names (`addrModeName`, Assembler.h:25-42) fifteen are as FetchStage.sv decodes them. The sixteenth is 0b1011, the mode of every `ajmp`:
Assembler.h:37 lists it as "stack, imm -> pc", while FetchStage.sv:103-107 takes A from the immediate and B, the address of the jump, from the
stack, which is also what its name in the assembler says (`IMM_STACK_PC`, Assembler.h:267). The word is right and only the listing is
wrong: it exchanges the operands. `ImageRight` requires of each jump that the listing shows the two operands exchanged, and of every other
word that it shows them as they are; the theorem proves it for every program.

## 5. Fairness

* The core: `LiveSpec` has weak fairness of `Edge`, the clock edge, which is always enabled because it always changes the
  variable `clock`. So nothing obliges the environment to resume, reset or answer; a late memory is bounded by `MaxWait`, which is
  what the interconnect is proved to give. The board's clock does not stop: there is no other assumption.
* The compiler: weak fairness of the visitor, of saving, and of the processor's steps and its resumption. main() is one sequential
  thread, the memories answer every request, and whoever halts the processor lets it go on. Parsing needs no fairness: `Ends` speaks of
  sources that have been parsed. Halting is not fair and may happen after every instruction.
* The debug system: weak fairness of `Tick` and of the host's reading of a complete answer. A `Tick` that changes no variable does
  not count, so a UART that never takes the waiting byte and a pipeline that never drains are excluded: the first is the vendored
  core's business, the second is what core_live shows (`HaltHappens`). The host is under no obligation to send.

## 6. What is proved

The theorems hold for every value of the constants, from the assumptions named next to the constants.

* **Core, safety** (`ArxCoreProofs`). Type correctness, then one inductive invariant `Inv`: the scoreboard equals
  the writes in EX, MEM and WB; EX holds one instruction; a buffered redirection excludes anything behind it that could redirect; a fetch in
  state IDLE has nothing behind it (`FetchStarts`); an open memory request belongs to a valid instruction without data
  (`RequestOpen`), whose answer the RAM holds. None of the safety properties is inductive alone: the scoreboard needs that EX
  holds one instruction, the redirection needs that the decoder is empty, the ownership of answers needs the open requests. Each
  part has its own step lemma. From `Inv` follow ScoreboardExact, ExecHoldsOne, RedirectKept, AnswersReachTheirOwner, HaltedIsTrue,
  OperandsCurrent, HaltFreezes and FetchRequestHeld, for every word size, register count, division latency, program, memory delay and
  set of accesses the debugger may make.
* **Core, refinement** (`ArxCoreProofs`). `Spec => ImplementsIsa`: the pipeline implements `RiscvIsa` for the same constants. To `Inv` the
  proof adds the data (`DataInv`): each stage holds the instruction of its address (`StagesHoldProgram`), the addresses of fetch, decode and EX
  follow each other unless a redirection waits (`StraightLine`), the units hold the results on the operands the program gives
  (`UnitsCompute`), the memory has done what it acknowledges (`MemoryAnswers`). An instruction happens in the tick in which it leaves EX:
  `ArchPcMoves`, `ArchRegsMove` and `ArchMemMoves` say that this tick, and no other, moves the program's pc, registers and memory; `LeaveExecutes`
  compares the move with the instruction set, opcode by opcode. Everything else is a stutter, a reset, or the debugger's write while halted.
* **Interconnect** (`InterconnectProofs`). Type correctness, that nobody is refused twice, and that it implements `SharedMemory` with `MaxWait` 1:
  every step maps to a step of it, answer by answer.
* **IMDU** (`IMDUProofs`). The invariant of long division (dividend = quotient * shifted divisor + rest, the rest below the divisor, the divisor's
  place given by the counter) is inductive with the register widths; from it, the uniqueness of quotient and remainder and the treatment of
  signs, every result at every width is the M extension's, `DIV` of a negative number by zero excepted.
* **IALU** (`IALUProofs`). The borrow of the one subtracter is the unsigned order, with the two signs it is the signed order; arithmetic shift is division of the
  signed number rounding down; every result and branch is right at every width. Assumed: the exclusive or of two words is zero exactly
  when they are equal.
* **LoadStoreUnit** (`LoadStoreProofs`). The words with their lanes implement `ByteMemory`, for bytes of any size and any number of words.

* **Debug unit** (`DebugSystemProofs`). The invariant follows one packet: `PacketShape` (how much of it is sent), `Arriving` (the parser holds as
  many fields as bytes have come, or has seen the damage and waits), `Held` (served, or answered so far as `Answering` says), `Complete`. `InSync`
  alone is not inductive. While the rest of a damaged packet comes in, the timeout counter never exceeds the cycles since the last byte, so
  that MaxGap + 1 < TIMEOUT_TICKS keeps the unit from answering too early and from reading the packet's rest as a command; the length
  the host reads from the answer is the one the sender counts to, so that neither stops before the other. `Known` adds the halt request,
  and follows it through CMD_HALT, CMD_RESUME and CMD_RESET. From the invariant follow TypeOK, `InSync` and `HaltKnown` for every byte and
  memory size, every session and every pace of the line and the memories. To it `Copies` adds the bytes: the buffer has the packet as it was
  sent (`Buffered`), a command is served or refused for what its packet says (`Dispatched`), a copier has fetched the packet's address
  and has the byte of its turn on the read port (`CopierFollows`), a memory is as the bytes copied so far leave it, the last one for an
  address winning where a write wraps onto itself (`Holds`); with it `WritesExact`. `Answers` adds the way back: the payload has the bytes the copier
  has read (`Reads`), the registers are those of this packet once its service is done (`HeaderRight`), the host has them in order
  (`Sent`); with it `ResponseRight`, for the sessions without a read of no bytes (`NoEmptyRead`: the tool sends none, and run
  debug_empty_read shows what one gets). That a copier's counters do not wrap before they end follows from the packet's length being a byte.
  For the same sessions `ImplementsService`: in the two moments in which the host looks, before it asks and when its answer is there, the
  memories and the halt are what the service has (`Seen`, from the invariants); the clock edge that completes the answer is `Serve`
  (`TickServes`), every other one a stutter (`TickStep`). The service adds the whole address and the byte's number before it wraps, the copiers
  wrap on the way (`SameCell`), and it refuses a packet from its own reading of the commands' lengths (`SameStatus`).
* **Compiler** (`ToolchainProofs`). `SlotsDisjoint`, `ImageRight` and `TypeOK`, for every set of well-formed parse trees, every order of an
  unordered_map, every width of the immediates and every depth of the memory. The inductive invariant has four layers.
  - `AllocatorsOK`: `SlotsDisjoint` with the shapes (`mAllocators` and each scope's blocks are sequences, a block maps finitely many names to
    numbers). Its three parts need each other: a slot taken from the free list is new to the live variables only because free slots are not live,
    and stays off the list only because the list has no slot twice.
  - `VisitorInv`: where the visitor is (`Starting`, `InGlobals`, `InFunction`, `Between`) with what is still on `work`, the C++ call stack:
    everything above the mark `callMain` or `funcEnd` is work inside the globals or the function (`Inner`), everything below it a function
    not yet visited (`Outer`). `ImageRight` speaks of a finished program and says nothing while it grows, so the generator has an invariant
    for each place. Words are well-formed (`CodeWord`); a position that refers to a label holds 0 until it is patched and no position refers
    to two (`RefsOK`), else patching one would undo another; the function being compiled begins with its prologue and reaches through fp only slots
    below `firstFree`, which only grows (`FunctionOpen`), so the maximum taken when the function ends covers the slots of blocks
    long closed; the functions before it are complete (`FunctionsClosed`). Slots wait on `work` for their values to be computed, so `Inner` bounds
    the slots of pending stores too. Each action of the visitor has its lemma.
  - `ToolInv`: the image that runs is the compiled program, whichever file it comes from; that the four bytes of `saveHex` make up the word again
    needs words of at most 32 bits (`WordAssumption`). `ListedDecoded` compares `disasm` with `FetchStage` field by field, signs included, and
    `ModesAgree` the two tables of addressing modes line by line, with the jump as the one exception.
  - `CpuTypeOK`: what is decoded has a mode of the table and an immediate that is a word; every operand, result and address is a word. `TypeOK`
    alone is not inductive: it says nothing of the decoded instruction, of whose immediate and sources the next operand is made.
  Assumed: `NodesAssumption` (trees are as the grammar's contexts type them), `InputsAssumption` (a tree the parser delivers is one of them), the
  two laws of `Pow2`, `WordAssumption`. TLC evaluates all of them in run compiler, and has checked `ToolInv` and `CpuTypeOK` on its states.
* **Units under the pipeline** (`IMDUProofs`, `IALUProofs`). `ImplementsExecUnit`: every step of the iterating divider, of the multiplier and of the ALU
  with its one subtracter is a step of the one-line unit that `ExecStage` has in its place, at every width: it refuses and offers in the same
  cycles, and the result is the one `ExecStage` computed when the operands entered. It needs `ResultRight` as an invariant (the result that comes out
  is the one that was due) and, for the divider, `DivisionInvariant`. It covers the operations that `ExecStage` has.
* **The whole processor** (`ArxCoreUnitsProofs`). `Spec => ImplementsCore` and `Spec => ImplementsIsa`: from the program down to the registers of
  the subtracter, the multiplier and the divider, at every width. The theorems of the parts are stated for units that are offered anything; this
  proof shows that they fit together. (1) `MduAssumptions`, `AluAssumptions`, `ProcessorAssumptions`: the constants satisfy what the parts assume. (2)
  `AroundSame`: the two processors differ in `div_res` alone, the result mux reads it only when `div_valid` is high, and then no division runs
  (`Places`, from IMDU's invariant), so everything around the execution stage moves alike. (3) `AluStep`, `MduStep`: the stage offers words (from the
  processor's type invariant) and operations the unit has, and only the operations for which the unit's results are those of `ExecStage`: DIV is
  not among them, so the quotient of run imdu_div_zero does not come into it. (4) The invariant `Inv` joins the type invariant of `ArxCore` under the
  mapping with the inductive invariants of both units; `StepImplements` keeps it. `ImplementsIsa` follows with the theorem of `ArxCoreProofs`.
  Assumed: XLEN and NumRegs are positive, the laws of `Pow2`, of the gates, and the types of the environment's constants; TLC evaluates them in core_units.

Only model-checked, and why:

* `ParsesBack`: the parser is a recursive function and texts are made by one; comparing them is an induction over trees, whose theorems the
  provers cannot instantiate.
* `StackDiscipline` and `OutputRight`: that the code of a statement does what the statement means is an induction over trees too. `StackDiscipline`
  is moreover not true of every program: recursion deep enough runs the stack into the globals, and how deep a program recurses is part of its
  meaning.
* All liveness (`Ends`, `Answered` and those of core_live): TLAPS does not reason about fairness and ENABLED here.

## 7. Not modelled

* `clk_en` (switch sw[3]) is always 1, and nobody presses the board's buttons while the debug unit works.
* In ArxCore: signed and bitwise operations, shifts and byte accesses (the units have them), the bit layout of instructions
  (`InsnDecoder.sv`), instructions of two sizes. The core in DebugSystem is its halt control only: it does not write the data memory while it runs.
* A line that loses bytes; the host's two-second timeout, an order of magnitude above any answer's time; the tool's command
  line and files.
* The lexer, the ANTLR runtime and its recovery from syntax errors: a source is a sequence of tokens, and the model stops at the first error,
  where the code goes on with what the runtime has put together. Sources the language gives no meaning to: `var x = x`
  in an inner block (the inner x is the new slot, MyVisitor.h:246), a function called like a generated label (`L0`, one table for both,
  LabelGenerator.h:14), a number that `stoul` refuses (MyVisitor.h:547). The trace that the visitor prints. Division by zero delivers
  one of two words; no source of the runs divides by zero.
* The waits of the stack processor for its memories and the debugger's accesses to its data memory.
* CoreMark, Dhrystone and the vendored cores are not the repository's own logic.
* The components `PROJECT.json` lists as not modelled, each with its reason.

## 8. What could come next

1. **Components.** The memory loader `UartMemInit` with the host's write-then-verify protocol; TrafficLightControl; the stack processor of
   Calc, the ancestor of `StackProcessor`.
2. **Abstract specifications.** `InsnDecoder`'s immediates against the instruction formats.
3. **Proofs.** That the visitor leaves the frame pointer and the stack as it found them, statement by statement.
4. **The whole board.** `ArxCoreUnits` with `MemoryInterconnect` in place of the memories and `DebugSystem` in place of the debug port.
