----------------------------- MODULE Writeback -----------------------------
(***************************************************************************)
(* The writeback stage (modules/writeback/writeback.cpp): it retires       *)
(* instructions, compares them with the checker, lets the kernel and the   *)
(* exception driver handle traps and redirects fetch after them.           *)
(***************************************************************************)
EXTENDS Pipeline, Checker

CONSTANTS
    kernel_results, \* the traps that Kernel::execute may return for a syscall
    v0,             \* the register in which the kernel returns a value
    epc,            \* the register in which the driver leaves the trapped pc
    handler,        \* the address of the exception handler
    is_hooked,      \* HookedDriver wraps the driver (enable_driver_hooks)
    DEADLOCK        \* bubbles in a row that make writeback give up: 100

ASSUME WritebackAssumption ==
    /\ {v0, epc} \subseteq Regs \cup {"zero"}
    /\ handler \in Addr
    /\ is_hooked \in BOOLEAN
    /\ DEADLOCK \in Nat

VARIABLES
    checker,
    instrs_to_run,
    executed_instrs,
    idle,            \* cycles since last_writeback_cycle
    next_PC,
    retired,         \* instructions retired in this cycle
    thrown           \* the exception that ended the simulation, if any

writebackVars == <<checker, instrs_to_run, executed_instrs, idle, next_PC, retired, thrown>>

\* read_instructions: the ports that hold one, in the order they are read.
read_instruction(p) == IF is_ready(p) THEN <<p>> ELSE <<>>
retire_ports ==
    read_instruction("BRANCH_2_WRITEBACK") \o read_instruction("MEMORY_2_WRITEBACK")
    \o read_instruction("EXECUTE_2_WRITEBACK")
writeback_trap == is_ready("WRITEBACK_2_ALL_FLUSH")

\* set_writeback_target
redirect(cond, w, t) ==
    IF cond THEN w ++ <<"WRITEBACK_2_ALL_FLUSH", TRUE>> ++ <<"WRITEBACK_2_FETCH_TARGET", t>> ELSE w

\* Traps that DriverMIPS32 sends to the handler, and what handle_trap returns.
is_vectored(trap) == trap \notin {"NO_TRAP", "HALT"}
handle_trap(trap) == IF is_vectored(trap) /\ ~is_hooked THEN "NO_TRAP" ELSE trap

\* The register files after the kernel and the driver.
kernel_writes(f, in, trap) ==
    written(f, IF in.trap = "SYSCALL" /\ trap = "NO_TRAP" THEN v0 ELSE "zero",
            Mix(in.pc, 0, 0, 3), FALSE)
driver_writes(f, in, trap) ==
    written(f, IF is_vectored(trap) THEN epc ELSE "zero", Mix(in.pc, 0, 0, 4), FALSE)
system_writes(f, in, trap) == driver_writes(kernel_writes(f, in, trap), in, trap)

\* writeback_instruction_system: in is retired, trap is its trap after the kernel.
redirects(w, in, trap) ==
    redirect(in.trap = "SYSCALL" \/ handle_trap(trap) # "NO_TRAP",
             redirect(is_vectored(trap), w, Target(handler, 0)), get_actual_target(in))
checker_system(c, in, trap) ==
    LET d == [c EXCEPT !.rf = system_writes(@, in, trap)] IN
    IF in.trap # "SYSCALL" /\ handle_trap(trap) # "NO_TRAP"
    THEN checker_at(d, get_actual_target(in))
    ELSE IF is_vectored(trap) THEN checker_at(d, Target(handler, 0)) ELSE d
\* (Mutant: the handler does not become the next pc.)
next_PC_of_instr(in, trap) == in.new_pc
next_PC_after(in, trap) ==
    IF is_vectored(trap) /\ in.trap # "SYSCALL" /\ handle_trap(trap) = "NO_TRAP"
    THEN handler ELSE in.new_pc
\* (Mutant: the limit is compared with >.)
halt_trap_late(trap) ==
    IF executed_instrs + 1 > instrs_to_run THEN "BREAKPOINT" ELSE handle_trap(trap)
halt_trap(trap) ==
    IF executed_instrs + 1 >= instrs_to_run THEN "BREAKPOINT" ELSE handle_trap(trap)

WritebackInstr ==
    /\ ~writeback_trap
    /\ retired < Len(retire_ports)
    /\ LET in == read(retire_ports[retired + 1])
           f  == checker_read(checker, prog[checker.pc], in.bp)
       IN
       \E r \in checker_results(checker, f, in) :
       IF is_same_checker(r, in)
       THEN \E trap \in IF in.trap = "SYSCALL" THEN kernel_results ELSE {in.trap} :
            /\ rf' = system_writes(write_dst(rf, in), in, trap)
            /\ checker' = checker_system(checker_done(checker, r), in, trap)
            /\ executed_instrs' = executed_instrs + 1
            /\ idle' = 0
            /\ next_PC' = next_PC_after(in, trap)
            /\ retired' = retired + 1
            /\ wire' = redirects(wire ++ <<"WRITEBACK_2_EXECUTE_BYPASS", in.v_dst>>
                                      ++ <<"WRITEBACK_2_CORE_HALT", halt_trap(trap)>>, in, trap)
            /\ UNCHANGED <<prog, instrs_to_run, thrown>>
       ELSE /\ rf' = write_dst(rf, in)
            /\ wire' = wire ++ <<"WRITEBACK_2_EXECUTE_BYPASS", in.v_dst>>
            /\ thrown' = "CheckerMismatch"
            /\ UNCHANGED <<prog, checker, instrs_to_run, executed_instrs, idle, next_PC, retired>>

\* writeback_bubble
WritebackBubble ==
    /\ writeback_trap \/ retire_ports = <<>>
    /\ thrown' = IF idle >= DEADLOCK THEN "Deadlock" ELSE thrown
    /\ UNCHANGED <<wire, rf, prog, checker, instrs_to_run, executed_instrs, idle, next_PC, retired>>

WritebackClock == WritebackInstr \/ WritebackBubble
=============================================================================
