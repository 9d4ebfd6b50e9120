------------------------------ MODULE FuncSim ------------------------------
(***************************************************************************)
(* The functional simulator (func_sim/func_sim.cpp) with its instruction   *)
(* memory (instr_memory.h), its exception driver and the debugger that     *)
(* drives it (export/gdb/gdb_wrapper.cpp).  The guest may overwrite its    *)
(* own code, and so may the debugger between two runs.                     *)
(*                                                                         *)
(* A word of memory is an instruction [op, arg].  Addresses count          *)
(* instructions and form a ring.  A condition is a free choice.            *)
(***************************************************************************)
EXTENDS InstrCache, Integers

CONSTANTS
    Size,           \* addresses are 0 .. Size - 1
    Words,          \* the words that are written to memory; memory is filled with nops
    StoreWords,     \* the words that a store of the guest writes
    Vector,         \* the address of the exception handler
    ISAs,           \* "mips" with delay slots, "mars" without them, "riscv"
    kernel_results, \* what the kernel makes of a system call
    NopLimit,       \* 10 in update_and_check_nop_counter
    Runs,           \* bound: the arguments of run
    MaxEdits        \* bound: writes to memory

ASSUME FuncSimAssumption ==
    /\ Size \in Nat \ {0} /\ Vector \in 1..(Size - 1)
    /\ NopLimit \in Nat /\ Runs \subseteq Nat /\ MaxEdits \in Nat
    /\ NoKey = 0 \* Key{} is address 0
    /\ kernel_results \subseteq {"NO_TRAP", "HALT", "SYSCALL", "UNSUPPORTED_SYSCALL", "BadInteraction"}

Address == 0..(Size - 1)
After(a, n) == (a + n) % Size
Nop == [op |-> "nop", arg |-> 0]
Word == Words \cup StoreWords \cup {Nop}
Decoded == [pc : Address, word : Word, slots : {0, 1}, target : Address]

ASSUME WordAssumption ==
    /\ \A w \in Words \cup StoreWords : w.op \in STRING /\ w.arg \in Address
    /\ NoObject \notin Decoded

VARIABLES
    isa, hooked,      \* the template argument; HookedDriver wraps the driver
    memory,           \* address -> word
    cache,            \* instr_cache
    pc,               \* the array of pending addresses; two of its eight are ever used
    delayed_slots,
    nops_in_a_row,
    epc, tvec,        \* the registers of the driver
    asked, executed,  \* the argument of run and its loop counter
    running,
    instr,            \* the last executed instruction
    result,           \* what the last run returned or threw
    edits             \* writes to memory so far

vars == <<isa, hooked, memory, cache, pc, delayed_slots, nops_in_a_row, epc, tvec,
          asked, executed, running, instr, result, edits>>

(* Instructions *)

is_jump(w) == w.op \in {"j", "b", "eret"}

\* BaseMIPSInstr::init: every jump has a slot, but not in MARS and not eret.
slots_of(w) == IF isa = "mips" /\ is_jump(w) /\ w.op # "eret" THEN 1 ELSE 0

\* A decoded instruction: the targets of branches are relative to its address.
create_instr(w, a) ==
    [pc |-> a, word |-> w, slots |-> slots_of(w),
     target |-> IF w.op = "b" THEN After(a, w.arg) ELSE w.arg]

\* InstrMemoryCached::fetch_instr: [cache, instr].
\* (Mutant: a decoded instruction is not compared with the bytes.)
is_same_word_assumed(c, a) == found(c, a)
is_hit(c, a) == found(c, a) /\ value(c, a).word = memory[a]
fetch_instr(c, a) ==
    IF is_hit(c, a) THEN [cache |-> touched(c, a), instr |-> value(c, a)]
    ELSE LET i == create_instr(memory[a], a) IN
         [cache |-> IF a = 0 THEN erased(c, a) ELSE updated(erased(c, a), a, i), instr |-> i]

\* check_halt_trap
halts(a, new_PC) == IF new_PC = 0 \/ new_PC = a THEN "HALT" ELSE "NO_TRAP"

\* execute: what an instruction may do, as [new_PC, trap].
fall_through(i) == After(i.pc, 1 + i.slots)
outcomes(i) ==
    LET goes(a) == [new_PC |-> a, trap |-> halts(i.pc, a)]
        raises(t) == [new_PC |-> fall_through(i), trap |-> t]
    IN  CASE i.word.op = "j"    -> {goes(i.target)}
          [] i.word.op = "b"    -> {goes(i.target), raises("NO_TRAP")}
          [] i.word.op = "eret" -> {goes(epc)}
          [] i.word.op = "teq"  -> {raises("EXPLICIT_TRAP"), raises("NO_TRAP")}
          [] i.word.op = "syscall" -> {raises("SYSCALL")}
          [] OTHER -> {raises("NO_TRAP")}

\* load_store: sw writes one of StoreWords, or, when no more edits are allowed,
\* the word that is there.
memories(i) ==
    IF i.word.op = "sw" /\ edits < MaxEdits
    THEN {[memory EXCEPT ![i.word.arg] = w] : w \in StoreWords} ELSE {memory}

\* update_pc for instruction i that continues at new_PC.
update_pc(i, new_PC) ==
    LET p == IF i.slots > 0 THEN <<After(pc[1], 1), new_PC>> ELSE <<new_PC, pc[2]>>
    IN  IF delayed_slots > 0 THEN [pc |-> <<p[2], p[2]>>, slots |-> delayed_slots - 1]
        ELSE [pc |-> p, slots |-> i.slots]

\* (Mutant: set_target forgets the pending jump only half.)
set_target_keeps_slot(c, a) == [c EXCEPT !.pc[1] = a]
set_target(c, a) == [c EXCEPT !.pc[1] = a, !.slots = 0]

(* Drivers: DriverMIPS32 and DriverRISCV32, alone or hooked *)

is_vectored(t) == t \notin {"NO_TRAP", "HALT"}
trap_vector == IF isa = "riscv" THEN tvec ELSE Vector
driver_result(t) == IF ~is_vectored(t) THEN t
                    ELSE IF isa = "riscv" /\ tvec = 0 THEN "HALT" ELSE "NO_TRAP"
handle_trap(t) == IF hooked THEN t ELSE driver_result(t)

-----------------------------------------------------------------------------

Init ==
    /\ isa \in ISAs /\ hooked \in BOOLEAN
    /\ memory = [a \in Address |-> Nop]
    /\ cache = empty_cache
    /\ pc = <<0, 0>> /\ delayed_slots = 0 /\ nops_in_a_row = 0
    /\ epc = 0 /\ tvec = 0
    /\ asked = 0 /\ executed = 0 /\ running = FALSE
    /\ instr = [pc |-> 0, new_PC |-> 0, slots |-> 0, jumps |-> FALSE, word |-> Nop, vector |-> -1]
    /\ result = "none" /\ edits = 0

\* GDBSim::resume and the beginning of FuncSim::run.
\* (Mutant: run does not restart the count of nops.)
nops_kept == nops_in_a_row
nops_at_first == 0
Run(n) ==
    /\ ~running
    /\ running' = TRUE /\ asked' = n /\ executed' = 0
    /\ nops_in_a_row' = nops_at_first
    /\ result' = "none"
    /\ UNCHANGED <<isa, hooked, memory, cache, pc, delayed_slots, epc, tvec, instr, edits>>

\* The end of run: it returns r or throws it.
Returned(r) == running' = FALSE /\ result' = r

Goes(c) == pc' = c.pc /\ delayed_slots' = c.slots

\* One turn of the loop of run: step, kernel and driver.
Step ==
    /\ running /\ executed < asked
    /\ executed' = executed + 1
    /\ LET f == fetch_instr(cache, pc[1])
           i == f.instr
           nops == IF i.word = Nop THEN nops_in_a_row + 1 ELSE 0
       IN
       /\ cache' = f.cache
       /\ memory' \in memories(i)
       /\ edits' = edits + (IF memory' = memory THEN 0 ELSE 1)
       /\ nops_in_a_row' = nops
       /\ \E o \in outcomes(i) :
          \E t \in IF o.trap = "SYSCALL" THEN kernel_results ELSE {o.trap} :
          LET c == update_pc(i, o.new_PC)
              stays == nops > NopLimit \/ t = "BadInteraction" \/ ~is_vectored(t)
          IN
          /\ instr' = [pc |-> i.pc, new_PC |-> o.new_PC, slots |-> i.slots,
                       jumps |-> is_jump(i.word), word |-> i.word,
                       vector |-> IF stays THEN -1 ELSE trap_vector]
          /\ tvec' = IF i.word.op = "csrw" THEN Vector ELSE tvec
          /\ IF stays THEN Goes(c) /\ UNCHANGED epc
             ELSE Goes(set_target(c, trap_vector)) /\ epc' = i.pc
          /\ IF nops > NopLimit THEN Returned("BearingLost")
             ELSE IF t = "BadInteraction" THEN Returned(t)
             ELSE IF handle_trap(t) # "NO_TRAP" THEN Returned(handle_trap(t))
             ELSE UNCHANGED <<running, result>>
    /\ UNCHANGED <<isa, hooked, asked>>

RunEnds ==
    /\ running /\ executed = asked
    /\ Returned("BREAKPOINT")
    /\ UNCHANGED <<isa, hooked, memory, cache, pc, delayed_slots, nops_in_a_row, epc, tvec,
                   asked, executed, instr, edits>>

\* GDBSim::memory_write and write_register of the program counter.
MemoryWrite(a, w) ==
    /\ ~running /\ edits < MaxEdits /\ memory[a] # w
    /\ memory' = [memory EXCEPT ![a] = w]
    /\ edits' = edits + 1
    /\ UNCHANGED <<isa, hooked, cache, pc, delayed_slots, nops_in_a_row, epc, tvec,
                   asked, executed, running, instr, result>>
WritePC(a) ==
    /\ ~running
    /\ Goes(set_target([pc |-> pc, slots |-> delayed_slots], a))
    /\ UNCHANGED <<isa, hooked, memory, cache, nops_in_a_row, epc, tvec,
                   asked, executed, running, instr, result, edits>>

Next ==
    \/ \E n \in Runs : Run(n)
    \/ Step
    \/ RunEnds
    \/ \E a \in Address, w \in Words : MemoryWrite(a, w)
    \/ \E a \in Address : WritePC(a)

Spec == Init /\ [][Next]_vars

-----------------------------------------------------------------------------
(* Properties *)

\* The instruction that is executed is the one in memory at that moment: a
\* decoded instruction that was cached before a store of the guest or a write
\* of the debugger is never used.
FetchesPresentBytes ==
    [][executed' = executed + 1 => instr'.pc = pc[1] /\ instr'.word = memory[pc[1]]]_vars

\* The hash table, the keys and the arena of the cache agree: every object is
\* found under the key of its place and under no other, so none is destroyed
\* twice or lost, and it was decoded for that address.
CacheAgrees ==
    /\ \A k \in DOMAIN cache.pointers : cache.keys[cache.pointers[k]] = k
    /\ \A i \in Place : cache.storage[i] # NoObject =>
          /\ cache.keys[i] \in DOMAIN cache.pointers
          /\ cache.pointers[cache.keys[i]] = i
          /\ cache.storage[i] = create_instr(cache.storage[i].word, cache.keys[i])
    /\ \A i \in Place : cache.storage[i] = NoObject => cache.keys[i] = NoKey

\* No decoded instruction is given up while its successor has a place: one that
\* leaves the cache makes room for an instruction that was not there, in a cache
\* that was full.  The place of a stale instruction is the next one to be used.
EvictsOnlyWhenFull ==
    [][\A k \in DOMAIN cache.pointers \ DOMAIN cache'.pointers :
          ~found(cache, pc[1]) /\ \A i \in Place : cache.storage[i] # NoObject]_vars

\* The array of pending addresses, shifted by hand, is the pair of addresses of
\* an architecture with delay slots, whatever traps and debuggers do between a
\* jump and its slot.
D == INSTANCE DelayedPC WITH
        pc <- pc[1], slot <- delayed_slots > 0,
        npc <- IF delayed_slots > 0 THEN pc[2] ELSE After(pc[1], 1)
ImplementsDelayedPC == [][D!Next]_(D!vars)

\* A run ends for a reason of its own.  It gives up only if it has executed more
\* than NopLimit instructions itself: a debugger that steps through nops in short
\* runs never loses its bearings.  Without hooks a trap that has a handler never
\* ends a run, and with hooks no run goes on after it.
EndsForAReason ==
    /\ result = "BearingLost" => executed > NopLimit
    /\ ~hooked => result \notin {"EXPLICIT_TRAP", "SYSCALL"}
    /\ hooked /\ running /\ executed > 0 => instr.vector = -1
=============================================================================
