-------------------------------- MODULE Bind --------------------------------
(***************************************************************************)
(* Which host function an imported symbol runs.  hle_bind writes a trap    *)
(* address into every lazy symbol pointer: HLE_TRAP_BASE + 4 * id, the id  *)
(* being the symbol's index in hle_table or, for a symbol the table lacks, *)
(* the next number after the table.  When the guest branches to a trap,    *)
(* sosetta_hle_call chooses the function by the same number, after the two *)
(* return traps, which are fixed numbers.  The two traps that              *)
(* dyld_func_lookup hands out are fixed numbers as well.                   *)
(***************************************************************************)
EXTENDS Integers, Sequences, FiniteSets

CONSTANTS
  hle_table,    \* the names of the table, in order
  Unknown,      \* symbols the table lacks
  Pointers,     \* the number of symbol pointers of an image
  TrapSlots,    \* HLE_TRAP_SIZE / 4
  PTHREAD_RET, BSEARCH_RET,    \* ids of the return traps
  HEADER_TRAP, NAME_TRAP       \* ids of the traps of dyld_func_lookup

Known   == {hle_table[i] : i \in 1 .. Len(hle_table)}
TableN  == Len(hle_table)
Ids     == 0 .. TrapSlots - 1

\* An indirect symbol marked local or absolute is left as it is.
LOCAL_SYM == "local"
Symbols   == Known \cup Unknown \cup {LOCAL_SYM}

\* The two functions of the image that dyld_func_lookup can find.
HEADER_FN == "__dyld_get_image_header"
NAME_FN   == "__dyld_get_image_name"

ASSUME BindAssumption ==
  /\ hle_table \in Seq(STRING) /\ TableN > 0
  /\ Unknown \subseteq STRING
  /\ Known \cap Unknown = {} /\ LOCAL_SYM \notin Known \cup Unknown
  /\ Pointers \in Nat
  /\ TrapSlots \in Nat /\ TableN <= TrapSlots
  /\ {PTHREAD_RET, BSEARCH_RET, HEADER_TRAP, NAME_TRAP} \subseteq Ids
  /\ PTHREAD_RET # BSEARCH_RET
  /\ TableN <= PTHREAD_RET /\ TableN <= BSEARCH_RET

UNBOUND == -1

VARIABLES
  imports,   \* the symbol of each pointer, in the image
  next,      \* the pointer to be bound
  pointer,   \* the id of the trap written into each, or UNBOUND
  hle_ids_used,
  result     \* 1 while binding, 0 when done, -1 when hle_bind failed

bindVars == <<imports, next, pointer, hle_ids_used, result>>

BindTypeOK ==
  /\ imports \in [1 .. Pointers -> Symbols]
  /\ next \in 1 .. Pointers + 1
  /\ pointer \in [1 .. Pointers -> Ids \cup {UNBOUND}]
  /\ hle_ids_used \in TableN .. TrapSlots
  /\ result \in {1, 0, -1}

BindInit ==
  /\ imports \in [1 .. Pointers -> Symbols]
  /\ next = 1
  /\ pointer = [i \in 1 .. Pointers |-> UNBOUND]
  /\ hle_ids_used = TableN
  /\ result = 1

-----------------------------------------------------------------------------
\* The index of the first entry with that name.
Indices(name) == {i \in 1 .. TableN : hle_table[i] = name}

\* Mutant: the position in the table, counted from 1.
HleLookup_FromOne(name) ==
  CHOOSE i \in Indices(name) : \A j \in Indices(name) : i <= j

HleLookup(name) ==
  (CHOOSE i \in Indices(name) : \A j \in Indices(name) : i <= j) - 1

\* Mutant: a local symbol ends the section.
BindLocal_Ends ==
  /\ imports[next] = LOCAL_SYM
  /\ next' = Pointers + 1
  /\ UNCHANGED <<imports, pointer, hle_ids_used, result>>

\* A local symbol is skipped.
BindLocal ==
  /\ imports[next] = LOCAL_SYM
  /\ next' = next + 1
  /\ UNCHANGED <<imports, pointer, hle_ids_used, result>>

\* A symbol of the table; the limit is tested whether or not an id was taken.
BindKnown ==
  /\ imports[next] \in Known
  /\ hle_ids_used < TrapSlots
  /\ pointer' = [pointer EXCEPT ![next] = HleLookup(imports[next])]
  /\ next' = next + 1
  /\ UNCHANGED <<imports, hle_ids_used, result>>

\* Mutant: the next id is not moved on, all unknown symbols share it.
BindUnknown_SharesId ==
  /\ imports[next] \in Unknown
  /\ hle_ids_used + 1 < TrapSlots
  /\ pointer' = [pointer EXCEPT ![next] = hle_ids_used]
  /\ next' = next + 1
  /\ UNCHANGED <<imports, hle_ids_used, result>>

\* Any other takes the next id: a new one for each pointer, even of one symbol.
BindUnknown ==
  /\ imports[next] \in Unknown
  /\ hle_ids_used + 1 < TrapSlots
  /\ pointer' = [pointer EXCEPT ![next] = hle_ids_used]
  /\ hle_ids_used' = hle_ids_used + 1
  /\ next' = next + 1
  /\ UNCHANGED <<imports, result>>

\* The trap region is full: the id is taken, the rest stays unbound.
BindFails ==
  /\ imports[next] \in Unknown
  /\ hle_ids_used + 1 >= TrapSlots
  /\ hle_ids_used' = hle_ids_used + 1
  /\ result' = -1
  /\ UNCHANGED <<imports, next, pointer>>

BindPointer ==
  /\ result = 1 /\ next <= Pointers
  /\ BindLocal \/ BindKnown \/ BindUnknown \/ BindFails

BindDone ==
  /\ result = 1 /\ next > Pointers
  /\ result' = 0
  /\ UNCHANGED <<imports, next, pointer, hle_ids_used>>

BindNext == BindPointer \/ BindDone

BindSpec == BindInit /\ [][BindNext]_bindVars /\ WF_bindVars(BindNext)

-----------------------------------------------------------------------------
NO_FUNCTION == "no implementation"
PTHREAD_FN  == "the return trap of pthread_create"
BSEARCH_FN  == "the return trap of bsearch"

\* The function sosetta_hle_call runs for a trap.
Runs(id) ==
  CASE id = PTHREAD_RET -> PTHREAD_FN
    [] id = BSEARCH_RET -> BSEARCH_FN
    [] id < TableN -> hle_table[id + 1]
    [] OTHER -> NO_FUNCTION

\* The trap dyld_func_lookup gives the guest for a name.
DyldFuncLookup(name) == IF name = HEADER_FN THEN HEADER_TRAP ELSE NAME_TRAP

(***************************************************************************)
(* Properties.                                                             *)
(***************************************************************************)

\* The ids handed out have not come to the return traps.
BelowReturnTraps == hle_ids_used <= PTHREAD_RET /\ hle_ids_used <= BSEARCH_RET

\* While they have not, a bound import runs the function of its own name; one
\* the table lacks runs nothing, and never a return trap, whose slot may belong
\* to a call under way.
ImportsRunTheirOwn ==
  BelowReturnTraps => \A i \in 1 .. Pointers : pointer[i] # UNBOUND =>
    Runs(pointer[i]) = IF imports[i] \in Known THEN imports[i] ELSE NO_FUNCTION

\* The trap of an unknown symbol is its pointer's alone: the id in the trace
\* names one import.
UnknownTrapsDiffer ==
  \A i, j \in 1 .. Pointers :
    i # j /\ imports[i] \in Unknown /\ pointer[i] # UNBOUND => pointer[i] # pointer[j]

\* Every trap handed out lies in the trap region, and those of unknown symbols apart.
TrapsWhole == BindTypeOK /\ UnknownTrapsDiffer

\* The binding ends, and when it succeeds leaves only local symbols unbound.
AllBound ==
  <>(result # 1 /\ (result = 0 => \A i \in 1 .. Pointers :
                      imports[i] # LOCAL_SYM => pointer[i] # UNBOUND))
=============================================================================
