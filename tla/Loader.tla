------------------------------- MODULE Loader -------------------------------
(***************************************************************************)
(* InitPipeline up to the first cycle (pipeline.c): InitMemory has the     *)
(* program parsed, LinkMIPSProgram replaces the labels of the parsed       *)
(* instructions by addresses and writes them one by one to the growing     *)
(* buffer of instr_memory.c, and the program counter gets the address of   *)
(* the entry point.                                                        *)
(***************************************************************************)
EXTENDS Parser

CONSTANT InitialInstrBufSize   \* 10 in the code

ASSUME InstrBufAssumption == InitialInstrBufSize \in Nat \ {0}

VARIABLES
  instrs,      \* the instruction memory: the buffer of instr_memory.c
  linked,      \* how many instructions LinkMIPSProgram has linked
  pc,          \* the program counter, DONT_CARE before it is set
  phase        \* "parsing", "linking", "loaded", or how the process ended

vars == <<parserVars, instrs, linked, pc, phase>>

-----------------------------------------------------------------------------
\* InitInstrMemory and the part of a new buffer that is not written.
Nops(n) == [k \in 1 .. n |-> Bubble]

\* Mutant: the new buffer is one instruction too short.
MutantBufSize(buffer, address) ==
  IF InstrIndex(address) <= Len(buffer) THEN Len(buffer) ELSE InstrIndex(address) - 1

\* The size the buffer needs to have for an instruction at the address.
BufSize(buffer, address) ==
  IF InstrIndex(address) <= Len(buffer) THEN Len(buffer) ELSE 2 * InstrIndex(address)

WriteToInstrMemory(buffer, address, instr) ==
  [k \in 1 .. BufSize(buffer, address) |->
     IF k = InstrIndex(address) THEN instr
     ELSE IF k \in DOMAIN buffer THEN buffer[k]
     ELSE Bubble]

-----------------------------------------------------------------------------
(* LinkMIPSProgram.                                                        *)

\* Mutant: a jump keeps the operand it was parsed with.
MutantNeedsLinking(type) == type \in Loads \cup Stores \cup Branches

\* The instruction types whose operand is looked up.
NeedsLinking(type) == type \in Loads \cup Stores \cup Branches \cup {"J"}

\* Looking up the operand ends the process: strcmp with a null pointer, or the
\* assertion in LookupInSymbolTable.
LinkFailure(parsed) ==
  IF ~NeedsLinking(parsed.instr.type) THEN "none"
  ELSE IF parsed.label = NO_LABEL THEN "crash"
  ELSE IF ~SymbolTableHasSymbol(elements, parsed.label) THEN "assertion"
  ELSE "none"

\* Mutant: only the immediate is filled in.
MutantLinkedInstr(parsed) ==
  IF NeedsLinking(parsed.instr.type)
    THEN [parsed.instr EXCEPT !.imm = LookupInSymbolTable(elements, parsed.label)]
    ELSE parsed.instr

\* A load or store from a label has no base register: rs becomes register zero.
LinkedInstr(parsed) ==
  LET address == LookupInSymbolTable(elements, parsed.label)
  IN  IF parsed.instr.type \in Loads \cup Stores
        THEN [parsed.instr EXCEPT !.rs = ZERO, !.imm = address]
      ELSE IF NeedsLinking(parsed.instr.type) THEN [parsed.instr EXCEPT !.imm = address]
      ELSE parsed.instr

-----------------------------------------------------------------------------
Init ==
  /\ ParserInit
  /\ instrs = Nops(InitialInstrBufSize)
  /\ linked = 0
  /\ pc = DONT_CARE
  /\ phase = "parsing"

Parse ==
  /\ phase = "parsing"
  /\ ParserNext
  /\ UNCHANGED <<instrs, linked, pc, phase>>

\* The process ends after a call of the parser that does not return, or that
\* returns 1.
ParsingEnds ==
  /\ phase = "parsing"
  /\ status \in {"failed", "assertion", "runtime_error"}
  /\ phase' = status
  /\ UNCHANGED <<parserVars, instrs, linked, pc>>

\* LinkMIPSProgram begins; a program needs an entry point.
BeginLinking ==
  /\ phase = "parsing"
  /\ status = "accepted"
  /\ phase' = IF SymbolTableHasSymbol(elements, "__start") THEN "linking" ELSE "static_error"
  /\ UNCHANGED <<parserVars, instrs, linked, pc>>

\* One turn of its loop.
LinkInstr ==
  LET parsed == instr_buf[linked + 1]
      address == TextSegStart + 4 * linked
  IN  /\ phase = "linking"
      /\ linked < Len(instr_buf)
      /\ IF LinkFailure(parsed) # "none"
           THEN /\ phase' = LinkFailure(parsed)
                /\ UNCHANGED <<instrs, linked>>
         ELSE IF ~ValidInstrAddress(address)
           THEN /\ phase' = "runtime_error"
                /\ UNCHANGED <<instrs, linked>>
         ELSE /\ instrs' = WriteToInstrMemory(instrs, address, LinkedInstr(parsed))
              /\ linked' = linked + 1
              /\ UNCHANGED phase
      /\ UNCHANGED <<parserVars, pc>>

\* InitPipeline sets the program counter and fetches the first instruction.
StartPipeline ==
  LET start == LookupInSymbolTable(elements, "__start")
  IN  /\ phase = "linking"
      /\ linked = Len(instr_buf)
      /\ pc' = start
      /\ phase' = IF ValidInstrAddress(start) THEN "loaded" ELSE "runtime_error"
      /\ UNCHANGED <<parserVars, instrs, linked>>

Next == Parse \/ ParsingEnds \/ BeginLinking \/ LinkInstr \/ StartPipeline

Spec == Init /\ [][Next]_vars

\* The process is a loop without pauses: a step that can be taken is taken.
FairSpec == Spec /\ WF_vars(Next)

-----------------------------------------------------------------------------
(* Invariants of the parser and the linker.                                *)

\* The parser's stack is a path of the automaton and far from YYINITDEPTH, the
\* addresses follow what was parsed, and the tables hold what fits into them
\* (mips_parser.c, symbol_table.c, instr_memory.c).
TypeOK ==
  /\ next \in 0 .. Len(source)
  /\ \A k \in DOMAIN stack : stack[k].state \in DOMAIN yypact
  /\ Len(stack) \in 1 .. 13
  /\ yyerrstatus \in 0 .. 3
  /\ yynerrs \in 0 .. MaxErrors
  /\ cur_segment \in {"TEXT", "DATA"}
  /\ cur_data_addr \in Nat
  /\ \A k \in DOMAIN instr_buf : instr_buf[k].instr \in Instr
  /\ data_mem \in [MemoryAddresses -> Byte]
  /\ Len(elements) \in 0 .. MaxElements
  /\ \A k \in DOMAIN instrs : instrs[k] \in Instr
  /\ linked \in 0 .. Len(instr_buf)
  /\ pc \in Nat \cup {DONT_CARE}
  /\ status \in {"parsing", "accepted", "failed", "assertion", "runtime_error"}
  /\ phase \in {"parsing", "linking", "loaded", "failed", "static_error", "assertion",
                "crash", "runtime_error"}

\* While the parser runs, the tables agree with the places it has reached: the
\* next instruction stands right after those collected, no label is defined
\* twice, and each has the address of something already parsed or of what is
\* parsed next, in one of the segments, though cur_segment, the address counters
\* and the table are changed by different rules (mips_parser.c,
\* AddParsedInstrToBack, AddParsedDataToBack; symbol_table.c, AddToSymbolTable).
TablesConsistent ==
  /\ cur_instr_addr = TextSegStart + 4 * Len(instr_buf)
  /\ Len(elements) <= MaxElements
  /\ \A j, k \in DOMAIN elements : elements[j].symbol = elements[k].symbol => j = k
  /\ \A k \in DOMAIN elements :
       elements[k].address
         \in (TextSegStart .. cur_instr_addr) \cup (DataSegStart .. cur_data_addr)

\* However often the buffer grows, it holds the linked instructions at their
\* places and nops behind them, and the label table they were linked with is
\* the one the parser left (pipeline.c, LinkMIPSProgram; instr_memory.c,
\* WriteToInstrMemory).
HoldsLinkedProgram ==
  /\ linked <= Len(instrs)
  /\ \A k \in 1 .. linked : instrs[k] = LinkedInstr(instr_buf[k])
  /\ \A k \in linked + 1 .. Len(instrs) : instrs[k] = Bubble

\* In a loaded program no two instructions have one line, and each has the
\* registers its type reads and writes; a load gets its rs from the linker
\* (mips_parser.c, rules 32 to 41; pipeline.c, LinkMIPSProgram).
LoadsAssembled == phase = "loaded" => Assembled(SubSeq(instrs, 1, linked))
=============================================================================
