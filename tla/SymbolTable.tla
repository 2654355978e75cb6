---------------------------- MODULE SymbolTable ----------------------------
(***************************************************************************)
(* The table of labels (symbol_table.c): an array of symbols with their    *)
(* addresses, searched from its beginning.                                 *)
(***************************************************************************)
EXTENDS Integers, Sequences

CONSTANT MaxElements   \* MAX_ELEMENTS, 1000 in the code

ASSUME ElementsAssumption == MaxElements \in Nat \ {0}

INVALID_KEY == 0       \* -1 in the code, whose keys begin with 0
INVALID_ADDRESS == -1

\* Mutant: the last element is not compared.
MutantKeys(elements, symbol) == {e \in 1 .. Len(elements) - 1 : elements[e].symbol = symbol}

\* The places of a symbol.  There is one at most (TablesConsistent).
Keys(elements, symbol) == {e \in DOMAIN elements : elements[e].symbol = symbol}

DoLinearSearch(elements, symbol) ==
  IF Keys(elements, symbol) = {} THEN INVALID_KEY
  ELSE CHOOSE e \in Keys(elements, symbol) : \A k \in Keys(elements, symbol) : e <= k

SymbolTableHasSymbol(elements, symbol) ==
  DoLinearSearch(elements, symbol) # INVALID_KEY

\* An assertion of AddSymbolToArray or AddToSymbolTable fails: the table is
\* full, or the symbol has an address.
AddFails(elements, symbol) ==
  IF SymbolTableHasSymbol(elements, symbol)
    THEN elements[DoLinearSearch(elements, symbol)].address # INVALID_ADDRESS
    ELSE Len(elements) = MaxElements

AddToSymbolTable(elements, symbol, address) ==
  IF SymbolTableHasSymbol(elements, symbol)
    THEN [elements EXCEPT ![DoLinearSearch(elements, symbol)].address = address]
    ELSE Append(elements, [symbol |-> symbol, address |-> address])

LookupInSymbolTable(elements, symbol) ==
  elements[DoLinearSearch(elements, symbol)].address
=============================================================================
