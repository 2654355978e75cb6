# A verification of the MIPS pipeline simulator

The repository (`src/Simulator`) is a simulator of a five-stage MIPS pipeline in
C. It reads an assembly file with a Flex lexer and a Bison parser, links the
labels, and clocks IF, ID, Ex, Mem and WB until a `syscall` reaches WB, writing an
HTML trace of every cycle. It is one thread, and deterministic once the file is
chosen. What is hard in it is the concurrency it simulates (five instructions in
flight, with stalls, flushes and forwarding to make that invisible), the buffers
that grow while they are in use (instructions, data, the lexer's input), and
the two table-driven automata in front. The freedom the models explore is the
input: programs, token sequences, texts and sequences of memory accesses.

## Inventory

| Component | State | Operations | What makes it correct |
|---|---|---|---|
| Lexer (`mips_lexer.l`, `mips_lexer.c`) | input buffer, automaton state, start condition, location | `yylex`, `yy_get_next_buffer`, the actions of 82 rules | the tokens of the whole text, wherever the buffer ends; the right line |
| Parser (`mips_parser.y`, `mips_parser.c`) | LR stack, lookahead, error status; segment, two addresses, list of instructions | `yyparse`, one action per rule, error recovery | accepts the language, gives every operand and label its meaning, reports every wrong line once |
| Symbol table (`symbol_table.c`) | array of 1000 entries | add, has, lookup | a label has one address |
| Linker (`pipeline.c`) | the parsed list | `InitMemory`, `LinkMIPSProgram` | every label operand becomes the label's address, or the process ends |
| Instruction memory (`instr_memory.c`) | `instrs`, `buf_size` | fetch; write with growth | the program where it was written, nops elsewhere |
| Data memory (`data_memory.c`) | two buffers that grow towards each other | load, store, `AdjustBuffers` | one byte per address, whatever the growth |
| Pipeline (`update.c`, `pipeline.h`) | `if_stage` ... `wb_stage` | `UpdatePipelineState`: write back, the five `ComputeNext...Stage`, `HandleHazards`, store all | every instruction sees what its predecessors did; exactly the wrong-path instructions are cancelled |
| Simulation loop (`pipeline.c`) | `nr_cycles`, `nr_instr_retired`, `found_syscall` | `InitPipeline`, `RunProgram`, `GetCPI` | ends when and only when the program does; counts every instruction once |
| ALU (`update.c`, `ComputeNextMemStage`) | none | one case per instruction, range check | the MIPS result on words, for values stored signed or unsigned |
| Instructions (`instructions.c`) | none | constructors, category, registers read and written | agrees with what the stages read and write |
| Register file (`register_file.c`) | `contents` | read, write | zero stays 0; values fit 32 bits |
| Trace printing, command line | none of the machine's | output | not modelled |

`main` calls `InitPipeline` and then `RunProgram`. `InitPipeline` calls the parser,
which calls the lexer for every token and fills the symbol table, the data memory
and the list of instructions; the linker writes that list to the instruction memory.
`RunProgram` calls `UpdatePipelineState` once per cycle; that reads and writes the
register file and both memories. The stages share their state through globals, read
at the start of a cycle and replaced at its end. Failure is always the same: a
message and `exit` (or an assertion), in the middle of whatever was being done.
There is no concurrency, no time-out and no persistence, so crashes, restarts and
lost messages are not faults this code can meet.

The behaviours that are hard to test are in `PROJECT.json` under `hazards`, each
with the properties about it.

## Modules

| Module | Models |
|---|---|
| `MachineWords` | register and byte ranges, C's bitwise operators on them (`utils.c`) |
| `Instructions` | `instructions.h`, `instructions.c` |
| `InstrMemory` | address check and fetch of `instr_memory.c` |
| `ByteMemory` | loads and stores of `data_memory.c` on one byte per address, most significant first |
| `Alu` | the switch and the range check of `ComputeNextMemStage` |
| `Pipeline` | `update.c`, `InitPipeline` and `RunProgram`, the register file |
| `PipelineHazards` | the properties of stalls, flushes, forwarding and throughput; `HazardsResolved`, the programs whose hazards `HandleHazards` resolves; `SelfContained`, those that control does not leave |
| `SequentialMips` | abstract: one instruction at a time |
| `PipelineRefinement` | the refinement mapping from `Pipeline` to `SequentialMips`; `CompletesInOrder`, what is left of it for control alone |
| `SegmentMemory` | abstract: what a load returns and what a store changes |
| `DataMemory` | the two buffers of `data_memory.c` and their growth; the mapping to `SegmentMemory` |
| `SymbolTable` | `symbol_table.c` |
| `ParserTables` | the tables and constants of `mips_parser.c` |
| `ParserStacks` | the stacks of states that the tables allow; the facts about the tables that the proofs use |
| `Parser` | `yyparse` with its error recovery, the actions of all rules |
| `Loader` | `InitMemory`, `LinkMIPSProgram`, growth of the instruction buffer, start of the pipeline |
| `AssemblyLanguage` | reference: which token sequences are programs, and the image a program means |
| `LoaderCorrectness` | the properties of `Loader` against `AssemblyLanguage` |
| `LexicalRules` | the 82 rules: the text each matches, the token it returns |
| `TokenStream` | abstract: the tokens of a text read at once, for any lexical rules |
| `LexerTables` | the tables of `mips_lexer.c` |
| `LexerAutomaton` | what a state of those tables stands for in terms of the rules; the facts about the tables that the proofs use |
| `Lexer` | `yylex` over a buffer that holds a part of the file; the mapping to `TokenStream` |
| `MCPipeline`, `MCTraces`, `MCAlu`, `MCDataMemory`, `MCLabelLoads`, `MCLoader`, `MCLexer` | what TLC checks |
| `PipelineProofs`, `RefinementProofs`, `ThroughputProofs` | theorems about `Pipeline` and the lemmas they rest on |
| `AluProofs`, `ByteMemoryProofs`, `DataMemoryProofs`, `LoaderProofs`, `LexerProofs` | the same about the ALU (as `MCAlu` drives it), the two memories, the parser and the linker, the lexer |

Variables have the names of the C code's globals and locals.

**Pipeline.** `Tick` is one complete turn of the loop in `RunProgram`. Its
definitions follow the order of `UpdatePipelineState`: `UpdatedRegisters` is the
register file after `UpdateRegisterFile`; `ComputedIF` ... `ComputedWB` are what the
`ComputeNext` functions return; `FlushedID` ... are the values after the first part of
`HandleHazards`, `ForwardedFromMem` and `ForwardedFromEx` after the second and third,
and `NextIF` ... after the stall. `Abort` is a turn that an error ends; `CycleError`
lists the errors in the order in which the functions meet them. The process exits, so
what such a turn has written cannot be seen any more and the state stays that of the
turn before. `instrs` never changes: only the linker writes it. `SequentialMips` shares
the ALU and the byte memory with the pipeline, but says on its own, from the
instruction formats, which registers an instruction reads and writes, how wide it
accesses memory and where control goes. The mapping completes an instruction when it
leaves Mem: its store is done then, and its result, though still in WB, is what all
later instructions read. `SeqContents` is therefore the register file after the pending
write, `SeqPC` the address of the oldest instruction that is still in Mem, Ex, ID or IF,
and `SeqRetired` counts the instruction in WB already.

**Data memory.** `Store` is `WriteToDataMemory` with its call of `AdjustBuffers`,
`Load` is `ReadFromDataMemory`; `LoadOutside` is a load that finds its bytes in
neither buffer and returns whatever lies there. `Fail` ends the process. The mapping
reads an address from the data buffer if that reaches so far, else from the stack
buffer, else as 0.

**Parser and loader.** A step of `Parser` is one turn of the automaton: reading a
token, a shift, one reduction with its action, the report of a syntax error, or one
step of the recovery. `Decision` looks up `yypact`, `yytable` and the default
reductions exactly as `yybackup` does. Each group of grammar rules with one kind of
action is one `Reduce...` action. `Loader` adds the steps around the parser: what
`InitMemory` does when it returns, `LinkInstr` for one turn of the loop in
`LinkMIPSProgram`, and `StartPipeline`. `status` says how the parser ended, `phase` how
the process did. `AssemblyLanguage` is written without a parser: a statement is a line
(or a label on a line of its own and what follows), a set of shapes says which
statements there are, and a fold over them gives code, bytes and labels.

**Lexer.** `MatchByte` is one byte of the loop `yy_match`; `RescanByte`, `Resume` and
`TryNULTrans` are `yy_get_previous_state` and `yy_try_NUL_trans`; `BackUp`, `DoAction`,
`ReallyNUL`, `ContinueScan`, `LastMatch` and `EndOfFile` are the cases behind
`yy_find_action`, the last four with `yy_get_next_buffer`. A text is a sequence of
characters in the lexer's modules, and becomes a string only in the value of a token.

**Composition.** The parts meet at what one hands to the next, each checked on its
own side: the lexer implements `TokenStream`, whose tokens are the `source` of
`Parser`; the loader produces `Image(Meaning(...))` of `AssemblyLanguage`; the
pipeline starts from such an image. `MCTraces` puts the three references
together: it takes the texts of `Tests/*.s`, applies `LexicalRules` and
`AssemblyLanguage`, and runs `Pipeline` on the result, so that the whole way from
the text to the registers is compared with the repository's reference traces.
What one part assumes of what the one before it hands over is settled too.
`SourcesAssumption` of `Parser` says that the type of an instruction goes with its
token and that registers have numbers: `LexedAssumption` of `MCTraces` states it of the
tokens the lexical rules return. `Assembled`, which the theorems about the pipeline
assume of a program, is proved of everything the loader loads. `ProgramsAssumption`,
what else the pipeline needs of a program, is evaluated for the programs of the runs.

## What the models abstract

* A byte has `ByteBits` bits, 8 in the code; half words, words, sign bits, masks
  and shift counts follow from it. TLC uses 1, 2 or 3, the proofs any number.
  `lui` shifts by a half word.
* The address space is shrunk, in the order of the code: text, then data and
  stack. Instructions stay four bytes apart.
* Loads and stores take their address from a label (`LinkMIPSProgram` sets rs to
  zero for all of them), so the programs of the pipeline runs contain no other form.
* In `Pipeline` and `Parser` the data memory is one byte per address. `DataMemory`
  shows that this is what the buffers implement.
* Sizes of buffers are integers without an upper bound; the code's `int` would
  overflow only at 2 GB.
* Shift counts outside 0 .. 63 are undefined in C; the model takes the count
  modulo 64, which is what the compiled shift does on x86.
* `nr_cycles` is bounded by `MaxCycles`: `Tick` and `Abort` stop there. `yynerrs` is
  bounded by `MaxErrors`: the count stays there while the parser goes on.
* Labels are names without a length. The code copies them into arrays of 100
  characters; longer ones are left out. A label that is a null pointer is the empty
  name. The value on the parser's stack is a name or a number; of a location only the
  first line is kept in the parser, as nothing reads the rest but messages.
* In texts `"\f"` stands for the byte 0 and `"\r"` for the bytes above 127 (the
  language gives neither character another meaning). Numbers do not overflow.
  `yy_hold_char`, which the lexer puts in place of the byte behind `yytext` and back
  again before it looks at it, has no part in the model. Input comes by the `fread`
  branch of `YY_INPUT`.
* The wording of messages is left out, but the tokens that the message of a syntax
  error names as expected are modelled.

## Runs

But for the accesses to the data memory, which come in any order, all models are
deterministic for a given input; a run explores a set of inputs. Deadlock is not
checked because behaviours do come to an end: finished, failed, or at `MaxCycles`.

| Run | Inputs and bounds | Shows |
|---|---|---|
| `hazards` | a register set-up, every body of 3 out of 21 instructions, an end; 45 cycles | `TypeOK`, `WriteBackNeverFails`, `LoadUseInterlock`, `JumpShadowEmpty`, `FillBound` for every program; `CPIBound` for those that control does not leave (`SelfContained`); `CompletesInOrder` for those with no jump and no load with its use behind a branch: instructions reach WB along the path of control; `FinishesAsSequential` (liveness) for those with `HazardsResolved` that end within 10 instructions |
| `refinement` | bodies of 4 out of 13 with `HazardsResolved`; 22 cycles | `OperandsFresh`, and `ImplementsSequential`: every step of the pipeline is a step of the sequential machine or a stutter |
| `traces` | the texts of the seven programs of `Tests/`, as written and with four nops behind every instruction; 90 cycles | `FollowsTrace`: fetches and retired counts of every cycle as in `Traces/*.html`; `EndsWithTraceRegisters` |
| `alu` | all pairs of register values of a 4-bit word | `ComputesMIPSWord`, `BranchComparesWords`, `OnlySumsFail` |
| `memory` | sequences of any length of 11 accesses, with buffers that begin with 6 bytes | `TypeOK`, and `ImplementsMemory`: the two buffers are one memory |
| `loader` | all pairs of 34 lines before the entry point, and every line with one token left out or replaced; a table of 2 labels, an instruction buffer of 1 | `AcceptsTheLanguage`, `LoadsTheProgram`, `LoadsWhatLinks`, `ReportsEachWrongLine`, `NamesExpectedTokens`, `TablesConsistent`, `HoldsLinkedProgram`, `LoadsAssembled`, `TypeOK`; `EndsUnlessDerailed` (liveness) |
| `lexer` | 3449 texts: all short ones over two sets of characters, every fixed text of the rules cut short and going on, lines of a program; a buffer of 2 bytes that grows, reads of 3 | `ImplementsTokenStream`, `NothingLost`, `LocatesTheText`, `EndsWhereTheFileEnds`, `TypeOK`; `ReachesEndOfFile` (liveness) |
| `same_operand` | violation of `OneRegisterOneValue` | an instruction that reads one register twice sees two values of it |
| `branch_shadow` | violation of `TakenBranchRedirects` | a taken branch is lost when a jump, a load and its use, or an overflow stands behind it |
| `byte_store` | violation of `StoresTakeLowBytes` | storing a byte of a larger value fails an assertion |
| `memory_reads` | violation of `LoadsFromBuffers` | a load that is wider than the constant its label names reads outside of both buffers |
| `parser_recovery` | violation of `ParsingReturns` | a syntax error in the middle of a line is reported for ever |

Why the bounds are enough:

* **Pipeline.** A hazard involves the instructions in ID, Ex, Mem and WB, four in a
  row, so bodies of 4 with their set-up and end contain every combination of kinds;
  forwarding and flushing look no further. The alphabet has one instruction of each
  kind that hazards tell apart: results from an immediate, from two registers and from
  a load; stores; jumps and both branches, backwards into the body, to its last
  instruction and out of it; a syscall in the middle. `hazards` adds what the code
  resolves wrongly or what ends the process: register zero as a destination, a register
  read twice, underflow, a byte store of a larger value, an unaligned load, a pseudo
  instruction, jumps into the data segment, behind whose label there are 24 addresses to
  fetch nops from, more than `CPIBound` would allow. Three registers are enough for two operands
  from two different stages and the register zero. 22 cycles let the straight programs
  end and the loops go round several times; `StepsAssumption` makes TLC check that 45
  cycles suffice for 10 instructions.
* **ALU.** A word of 4 bits has every relation of sign, overflow and shift count
  that the ALU's cases distinguish.
* **Data memory.** The first buffers have 6 bytes, which as in the code (10) is no
  multiple of a word: a word straddles the end of the data buffer. Growth makes it one
  of 14 or 16 bytes, depending on whether a byte or more is stored; another word
  straddles the end at 14 and makes it one of 32. The other accesses lie within it,
  behind it, in the stack buffer, and at both ends of the address space, where some are
  refused. `SegmentMemory` has its own idea of which accesses are in the memory; the last
  byte, which `data_memory.c:31` refuses though it is in the segment, is not in
  question, as a refused access ends the process.
* **Loader.** The lines have every form of the grammar, both segments, definitions
  before and after their use, labels defined twice and never, operands in the wrong
  place, numbers that do not fit, registers that do not exist, and lines that are cut
  short. What the parser carries from one line to the next (segment, addresses, table,
  error status, a label that waits for its statement) is seen by the line after, so two
  lines and the entry point suffice. One damaged token per line reaches every error
  entry of the tables that a single error can reach. A table of 2 entries and a buffer
  of 1 are full and enlarged at once. The stack's bound of 13
  entries (`TypeOK`), far below `YYINITDEPTH`, needs no bound on the input: it is proved.
* **Lexer.** With a buffer of 2 bytes and reads of 3, every token of more than a
  byte meets the end of the buffer, in every place, and makes it grow; longer texts
  repeat what is done for one token.

`HazardsResolved` is the hypothesis under which the pipeline is equivalent to the
sequential machine. Each of its five parts is there because the code does not resolve
that hazard: results for register zero (they are forwarded), one register read twice
(only one operand is forwarded), a jump second behind a branch, a load and its use
behind a branch, and a store behind a syscall (it is done in the last cycle). The
second, third and fourth contradict a comment in the source; `same_operand` and
`branch_shadow` are about them, and they are listed under `findings`.

`KeepsApart` is the hypothesis under which the two buffers are one memory: the data
buffer does not grow into the stack buffer, and the stack buffer is not enlarged
(the code copies the old bytes to the wrong offset then, `data_memory.c:78`). A
program does not break it: its stores go to labels. One of the data segment names the
first byte of a constant, so that a store reaches at most three bytes past the data, and
only data reaching up to the stack would break it; a store to a label of an instruction
is refused.

`EndsUnlessDerailed` excludes programs with a token that no statement has in that
place; those are what `parser_recovery` is about. In the sources of `loader` no byte
is zero or above 127, so no end of the file stands within a file; what the parser is
told about such bytes is checked by `EndsWhereTheFileEnds`.

Fairness: `FairSpec` of `Pipeline`, `Loader` and `Lexer` adds `WF_vars(Next)`. Each of
them is sequential code, a loop without waiting: `RunProgram` takes the next turn as
long as no syscall was found, `yyparse` and `LinkMIPSProgram` run until they return,
and the parser calls the lexer until it gets the end of the file. Nothing else is
assumed.

## Theorems

| Module | Theorem | Statement |
|---|---|---|
| `PipelineProofs` | `Typing` | `Spec => []TypeOK` |
| | `WriteBackSafe` | `Spec => []WriteBackNeverFails` |
| | `Interlocked` | `Spec => []LoadUseInterlock` |
| | `JumpShadow` | `Spec => []JumpShadowEmpty` |
| | `FillBounded` | `Spec => []FillBound` |
| | `Forwarding` | `Spec => []OperandsFresh`, if no program writes register zero or reads a register twice in one instruction |
| `RefinementProofs` | `Implementation` | `Spec => ImplementsSequential`, if every program has `HazardsResolved` and is `Assembled` |
| | `ControlPath` | `Spec => []CompletesInOrder`, if every program is `Assembled` |
| `ThroughputProofs` | `Throughput` | `Spec => []CPIBound`, if those programs that are `SelfContained` start at one of their instructions |
| `AluProofs` | `BranchesCompare` | `Spec => []BranchComparesWords` |
| `DataMemoryProofs` | `BuffersTyped` | `BoundedSpec => []TypeOK` |
| | `BuffersImplementMemory` | `BoundedSpec => ImplementsMemory` |
| `LoaderProofs` | `ProgramIsLinked` | `Spec => []HoldsLinkedProgram` |
| | `TablesAgree` | `Spec => []TablesConsistent` |
| | `LoaderTyping` | `Spec => []TypeOK` |
| | `LoadedIsAssembled` | `Spec => []LoadsAssembled` |
| `LexerProofs` | `NothingIsLost` | `Spec => []NothingLost` |
| | `ImplementsTheStream` | `Spec => ImplementsTokenStream` |
| | `EndsOnlyThere` | `Spec => []EndsWhereTheFileEnds` |
| | `LocatesIt` | `Spec => []LocatesTheText` |
| | `TypeCorrect` | `Spec => []TypeOK` |

They hold for every value of the constants: any set of well formed programs of any
length, any sources and files of any length, any number of registers, byte size, memory
layout, size of the first buffers, of a read and of the symbol table. The assumptions are
named in the modules that declare the constants (`ByteAssumption`, `RegistersAssumption`,
`TextAssumption`, `DataAssumption`, `BuffersAssumption`, `InstrBufAssumption`,
`ElementsAssumption`, `SourcesAssumption`, `MaxCyclesAssumption`, `ProgramsAssumption`,
`FilesAssumption`, `BufferAssumption`). Those of `ParserStacks` (`StacksClosed`,
`RecoversInOnePlace`, `OperandsInPlace`, `EndsInPlace`, `TablesAssumption`) and of
`LexerAutomaton` have no parameter at all: they are facts about the tables as they stand
in `mips_parser.c` and `mips_lexer.c`, which TLC computes and a prover need not. TLC
evaluates all assumptions in the runs.

**Pipeline.** `TypeOK` is inductive: the result of the ALU was checked in the cycle
that put it into Mem, and a load returns a value that fits because its bytes are bytes
(`ReadInRange`, `LoadInRange`, `StoreKeepsBytes` of `ByteMemoryProofs`); forwarding
moves only values of that kind. `WriteBackSafe` follows from it. `LoadUseInterlock` and
`JumpShadowEmpty` are inductive because they say of Ex and Mem what the step that filled
them has just decided. `FillBound` is not: `Filling` adds which stages only nops have
reached in the first four cycles. `OperandsFresh` needs `StagesForwardable`: the
instructions in flight come from the program, so that its hypothesis holds of them. Its
step (`FreshTick`) compares, operand by operand, the value that the forwarding selects
with the value that the register has for the instruction in Ex one cycle later.

**Refinement.** A turn in which Mem holds an instruction of the program maps to that
instruction in `SequentialMips`, one in which it holds a bubble to a stutter, and an
abort to a stutter. For this the mapped pc must be that instruction's address, and the
mapped successor that of the next one in flight: `Consecutive` says that behind each
instruction stands the one control goes to after it, bubbles left out, and
`BranchFollowed` that no bubble stands directly behind a branch, so that a taken branch
finds its own successors to cancel. The values come from `MemFresh`: what Mem holds was
computed from the registers as they are when everything ahead of it is done, which is
`OperandsFresh` one cycle later. `SyscallShadow` keeps a store out of the last cycle.
`Implementation` shows that the conjunction (`RefinementInv`) is kept and that each of
the steps maps as described. Both hypotheses are about programs only. The parts of
`HazardsResolved` are the cases the code does not resolve (see above); each is used:
the first two by `FreshTick`, the next two by `ShadowClear`, the last by
`TickSyscallShadow`. `Assembled` says that each instruction is the only one of its line
and has the registers of its format: the address of an instruction in flight is found
by its line, and the pipeline must read the registers that the format names. It is not
an assumption about unknown programs: `LoadedIsAssembled` proves
it of everything the parser and the linker load.

`ControlPath` needs less, as it is about control only: `NoJumpInShadow` and
`NoLoadUseInShadow`, which `CompletesInOrder` names, while the values may be wrong and an
error may end the program. `ControlInv` joins `Consecutive` and `BranchFollowed` with two
facts about what the stages carry along: `ImmediateKept`, that Ex has the immediate of its
instruction, and `BranchKept`, that Mem has the target of its branch and a zero flag that
tells what WB will see of it.

**Throughput.** `CPIBound` is not inductive, as a stall or a flush spends cycles that
some later instruction must pay for. `Account` counts `ToRetire`, how far the oldest
instruction in flight is from WB, as already spent. A turn moves the oldest instruction
on, because a stall holds only ID and a flush cancels only what is younger than the
branch; or it retires one, and then the next oldest is at most four cycles away,
because the fetch is in the program (`Fetching`, `TargetsIn`). The hypothesis excludes
programs that run off their end, where nothing retires at all.

**ALU.** A branch subtracts. The difference of two values of the same reading lies
strictly between `-WordSize` and `WordSize`, and a multiple of `WordSize` in there is 0
(`SameRemainder`), so equal words are the same integer.

**Data memory.** The invariant is `TypeOK` with `Apart`: the data buffer ends before
the stack buffer begins. Without it the mapping is not a function of the bytes, since an
address in both buffers has two of them. Every step of `BoundedNext` keeps it
(`KeepsApart` is about the sizes after the step). A store maps to the abstract store
because a growth copies the old bytes to their old addresses and fills with zeros, which
is what the mapping reads between the buffers; a load maps to the abstract load because
the bytes it reads are those the mapping gives for its addresses.

**Loader.** `HoldsLinkedProgram` needs that the buffer is a sequence, `linked` a
number, and that nothing is linked before linking begins (`LinkInv`); the parser's
steps leave all three alone, and while the linker runs the parsed instructions and the
table do not change. `TablesConsistent` needs that both lists are sequences and that the
data address is never below its segment (`TablesInv`). That a label is added only when the
search has not found it then keeps labels apart: no address is negative, so the search
never mistakes an address for `INVALID_ADDRESS`.

**Parser.** `TypeOK` of `Loader` is about an automaton whose stack grows, shrinks by
the length of a rule, and is cut back by errors. `Viable` is the set of all sequences of
states the tables allow, 118 of them, as no rule of the grammar is nested; the longest
has 13. `StacksClosed` says that it is closed under shift, reduction and cutting back,
and that a rule's symbols are on the stack when it is reduced. `AutomatonInv` adds what
the values are: below an action stand numbers where it takes a number, and the opcode of
an instruction and its registers stand at the depths where the action looks for them
(`OperandsInPlace`), so that every instruction it builds is one of `Instr`. `GoodRecovery` carries this over the
error recovery, whose stack is a cut of the old one with the error token on it, in the
only place that takes it (`RecoversInOnePlace`). `LoaderInv` joins it with `LinkInv` and
`TablesInv`: a linked operand is an address of the table and hence a number.

**Loaded programs.** `LoadsAssembled` says two things of what is loaded. That each
instruction has its registers is `OperandsInv`: the type on the stack begins with the
token of its rule (`WrittenAs`), the rule reads as many registers as that token announces,
and `OperandsValid` has refused the rest; the base register of a load comes from the
linker (`LinkedOperands`). That no two have one line is a matter of three actors: the
lexer's lines grow only at the end of a line, the automaton may still hold an opcode while
later tokens are read, and the list is extended only when the rule is reduced.
`Ahead` relates them: every opcode on the stack, and every one to come unless the
automaton is in one of the states behind an instruction (`AfterInstr`), stands on a later
line than the last instruction; and from those states only the end of a line is shifted
(`EndsInPlace`). It is false while the parser recovers from an error, since that cuts the
stack in the middle of a line, so `LinesInv` claims it only as long as `yynerrs` is 0;
`EndsInv` then shows that a program is accepted only with `yynerrs` 0, by following the
two states of the end of the program back to the reduction that tests the counter
(rule 2), and `AcceptedInv` that only an accepted program is linked.

**Lexer.** The invariant `LexerInv` has two parts. `BufferInv` says that the buffer holds
the bytes of the file from the present token on, wherever it stands in the buffer, and
what the two flags about the end of the file imply. `ScanInv` says for each place where
`yylex` goes on what the state of the automaton knows: it is the state of the text from
the beginning of the token to the present byte, and `accepted` is the longest prefix some
rule matches so far (`Scanning`), or the end of the buffer was met (`MetNUL`), or the
longest match of the whole rest of the file has been found (`Decided`), or the text is to
be scanned again up to a byte already seen (`Rescanning`). The state of a text is
`StateOf`: a text that is short or begins a fixed text of the rules (`Stems`) has a state
of its own, and of any longer one the automaton knows only the kind (`Kind`: a number, a
label, a comment, ...). Both are closed under one more character, which is a finite fact
about the tables for the stems and the kinds, and a lemma about the rules for texts of any
length (what a number and one more digit is). `Alive` then is kept by prefixes, so that
nothing longer can match once the automaton has jammed, and the longest match in the
buffer is the one in the file. Every step therefore maps to returning or skipping the
longest match in `TokenStream`, or to a stutter (`QuietSteps`). `OutputInv` carries the
location along; it needs that the line ends in a piece of text are those in its two parts.

What is only model-checked, and why:

* All liveness, which is out of the prover's reach: `FinishesAsSequential`,
  `EndsUnlessDerailed`, `ReachesEndOfFile`.
* `AcceptsTheLanguage`, `LoadsTheProgram`, `LoadsWhatLinks`, `ReportsEachWrongLine`,
  `NamesExpectedTokens`: they compare the automaton with `AssemblyLanguage`, whose
  division into statements and whose meaning are folds over the tokens. What such a fold
  yields for a source of any length, and for one token more, is an induction over data,
  which the provers cannot do.
* `ComputesMIPSWord` and `OnlySumsFail`: they rest on what the bits of a number and
  powers of two amount to for every word size, which is a recursive function and needs
  induction over data. In `BranchComparesWords` no bits occur.
* The traces, which are particular programs.
* That `SourcesAssumption` holds of what the lexer returns: it is a property of the lexical
  rules one by one (`LexedAssumption`).

## Not modelled

* Trace printing and the command line: they read the state and change none of it.
* In `mips_lexer.c`, what nothing calls: `yyunput`, `input`, the stack of buffers, the
  scanning of strings and bytes; the interactive branch of `YY_INPUT`.
* In `mips_parser.c`, the growth of the stacks beyond `YYINITDEPTH`, which they never
  reach, and the debugging output.
* `InitRegisterFile` and `CompareInstrs`, which nothing calls.
* Failing allocations.
