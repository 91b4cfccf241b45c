----------------------------- MODULE Toolchain ------------------------------
(***************************************************************************)
(* From source text to printed words: main() of AntlrTestProj.cpp parses   *)
(* the tokens, lets the visitor compile the tree and saves the program;    *)
(* the program is loaded into the memory of the stack processor, which a   *)
(* debugger may halt and resume while it runs.                             *)
(***************************************************************************)
EXTENDS MyVisitor, MyLanguageParser, SequencesExt

CONSTANTS
    Inputs,     \* sources: [tree, text, error, output], what a text means;
                \* a text with a syntax error has no tree: <<>>
    Depth,      \* the depth of the program memory, 8192 in the code
    WordAnd(_, _), WordOr(_, _), WordXor(_, _)      \* of the processor
ASSUME InputsAssumption ==
    \A i \in Inputs : LET r == Prog(i.text) IN r.ok => r.tree \in Programs
\* A word has four bytes at most.
ASSUME WordAssumption == (Pow2[WordBits] - 1) \div 2^16 < 2^16

VARIABLES
    input,      \* the source being compiled, and what it means
    phase,      \* "parse", "reported" a syntax error, "visit", "run" or "error"
    tree,       \* the tree the parser has built
    rom, cur_state, pc, ppc, sp, fp, insn, reg_a, reg_b, ram, printed

CPU == INSTANCE StackProcessor

cpuVars == <<cur_state, pc, ppc, sp, fp, insn, reg_a, reg_b, ram, printed>>
vars == <<input, phase, tree, rom, visitorVars, cpuVars>>

Init ==
    /\ input \in Inputs
    /\ phase = "parse"
    /\ tree = <<>>
    /\ rom = <<>>
    /\ VisitorInit
    /\ CPU!CpuInit

Parse ==
    /\ phase = "parse"
    /\ LET r == Prog(input.text)
       IN  /\ r.ok
           /\ tree' = r.tree
           /\ VisitAll(r.tree)
    /\ phase' = "visit"
    /\ UNCHANGED <<input, rom, cpuVars>>

\* The code goes on with the tree that ANTLR's recovery has put together;
\* the model stops here.
SyntaxError ==
    /\ phase = "parse"
    /\ ~Prog(input.text).ok
    /\ phase' = "reported"
    /\ UNCHANGED <<input, tree, rom, visitorVars, cpuVars>>

Compile ==
    /\ phase = "visit"
    /\ VisitorStep
    /\ UNCHANGED <<input, phase, tree, rom, cpuVars>>

\* saveMif: one word for each address.
Mif(program) == program

\* saveHex: the four bytes of a word from the lowest, and the words a loader puts
\* together from them.
Hex(program) ==
    [p \in DOMAIN program |->
        <<program[p] % 256, (program[p] \div 2^8) % 256,
          (program[p] \div 2^16) % 256, (program[p] \div 2^24) % 256>>]
FromHex(bytes) ==
    [p \in DOMAIN bytes |->
        bytes[p][1] + bytes[p][2] * 2^8 + bytes[p][3] * 2^16 + bytes[p][4] * 2^24]

TooLarge == Len(mCodeGen.program) > Depth

\* Both files are saved; the processor may be started from either.
Save ==
    /\ phase = "visit" /\ status = "compiled"
    /\ ~TooLarge
    /\ rom' \in {Mif(mCodeGen.program), FromHex(Hex(mCodeGen.program))}
    /\ phase' = "run"
    /\ UNCHANGED <<input, tree, visitorVars, cpuVars>>

\* A throw of the visitor or of saveMif, caught by main: no file is saved.
Catch ==
    /\ phase = "visit"
    /\ status = "failed" \/ (status = "compiled" /\ TooLarge)
    /\ phase' = "error"
    /\ UNCHANGED <<input, tree, rom, visitorVars, cpuVars>>

ResumeCpu ==
    /\ phase = "run"
    /\ CPU!Resume
    /\ UNCHANGED <<input, phase, tree, rom, visitorVars>>

RunCpu ==
    /\ phase = "run"
    /\ CPU!CpuStep
    /\ UNCHANGED <<input, phase, tree, rom, visitorVars>>

Next == Parse \/ SyntaxError \/ Compile \/ Save \/ Catch \/ ResumeCpu \/ RunCpu

\* The visitor goes on while it has something to do, the processor's memories
\* answer every request, and whoever halts the processor lets it go on.
Fairness == WF_vars(Compile \/ Save \/ Catch \/ ResumeCpu \/ RunCpu)

Spec == Init /\ [][Next]_vars /\ Fairness

-----------------------------------------------------------------------------
TypeOK ==
    /\ phase \in {"parse", "reported", "visit", "run", "error"}
    /\ status \in {"idle", "visiting", "compiled", "failed"}
    /\ counter \in Nat
    /\ \A i \in DOMAIN mCodeGen.program : mCodeGen.program[i] \in CPU!Word
    /\ cur_state \in {"S_HALT", "S_FETCH", "S_LOAD_B", "S_LOAD_A", "S_STORE"}
    /\ {pc, ppc, sp, fp, reg_a, reg_b} \subseteq CPU!Word
    /\ \A a \in DOMAIN ram : a \in CPU!Word /\ ram[a] \in CPU!Word
    /\ printed \in Seq(CPU!Word)

\* The parser builds the tree the text was written from, and reports exactly
\* the texts that no tree has: precedences, the nesting on the left, the
\* dangling else and the loop over statements are as in MyLanguage.g4.
ParsesBack ==
    /\ phase \in {"visit", "run", "error"} => tree = input.tree
    /\ phase = "reported" <=> phase # "parse" /\ input.tree = <<>>

-----------------------------------------------------------------------------
\* The image that is about to be started.
Started == phase = "run" /\ cur_state = "S_HALT" /\ pc = 0
Position == 0..Len(rom) - 1

\* Where the code of the function that begins at p ends.
FunctionStarts == {p \in Position : rom[p + 1] = Lppc}
FunctionEnd(p) ==
    LET later == {q \in FunctionStarts : q > p}
    IN  IF later = {} THEN Len(rom) ELSE CHOOSE q \in later : \A r \in later : q <= r

Exchanged(mode) == [a |-> mode.b, b |-> mode.a, dst |-> mode.dst]

ListedRight(word) ==
    LET shown == Disasm(word)
        done == CPU!Decode(word)
    IN  /\ shown.isConst = done.const
        /\ shown.imm % Pow2[WordBits] = done.imm
        /\ ~shown.isConst =>
             /\ shown.alu # "out_of_range" /\ OpAlu[shown.alu] = done.alu
             /\ shown.mode = IF done.mode.dst = "PC" THEN Exchanged(done.mode) ELSE done.mode

\* Of the image: the listing shows of a word the constant, or the immediate,
\* the operation, the operands and the destination that the processor makes of
\* it, but of every jump it shows the operands in the wrong order: 0b1011 is
\* "stack, imm -> pc" in Assembler.h:37, where FetchStage.sv:103-107 has A
\* from the immediate and the address B from the stack.  Every position that
\* refers to a label holds its address; and every slot that a function's code
\* reaches through fp lies in the frame that its prologue takes and its
\* epilogue gives back.
ImageRight ==
    Started =>
        /\ \A p \in Position : ListedRight(rom[p + 1])
        /\ \A l \in DOMAIN mCodeGen.refs : \A k \in DOMAIN mCodeGen.refs[l] :
             rom[mCodeGen.refs[l][k] + 1] = mCodeGen.labels[l]
        /\ \A p \in FunctionStarts :
             LET frame == Disasm(rom[p + 2]).imm
                 end == FunctionEnd(p)
             IN  /\ rom[p + 2] = Addfp(frame)
                 /\ rom[end - 1] = Addfp(-frame)
                 /\ \A q \in p..end - 1 :
                      rom[q + 1] >= FlagBit
                        /\ Disasm(rom[q + 1]).mode.b = "FP_IMM"
                      => -Disasm(rom[q + 1]).imm \in 0..frame - 1

\* While a program runs, the operand stack never runs empty under a pop nor
\* into the globals above it, and no word is read that was never written.
StackDiscipline ==
    phase = "run" =>
        /\ sp <= 200
        /\ cur_state = "S_LOAD_B" /\ insn.mode.b = "STACK" => sp > 0
        /\ cur_state = "S_LOAD_A" /\ insn.mode.a = "STACK" => sp > 0
        /\ cur_state = "S_LOAD_A" /\ insn.mode.a = "ADDR" => reg_b \in DOMAIN ram

\* The loop behind the call of main.
AtEndLoop == phase = "run" /\ cur_state = "S_FETCH" /\ pc = mCodeGen.labels["L0"]

\* A program is refused exactly when it is in error (or too large for the
\* memory); otherwise the processor prints the words the program means, in
\* order, and no others, however often it is halted, and comes to the end of
\* main with all of them printed and its operand stack empty.
OutputRight ==
    /\ phase = "error" => input.error \/ TooLarge
    /\ phase = "run" => ~input.error /\ IsPrefix(printed, input.output)
    /\ AtEndLoop => printed = input.output /\ sp = 0

\* Every source that has been parsed is refused, or its program comes to the
\* end of main.
Ends == phase = "visit" ~> phase = "error" \/ AtEndLoop
=============================================================================
