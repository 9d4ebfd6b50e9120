------------------------------ MODULE PerfSim ------------------------------
(***************************************************************************)
(* The performance simulator (modules/core/perf_sim.cpp): run clocks the   *)
(* six stages in a fixed order, cycle after cycle, until writeback reports *)
(* a trap.  phase is the stage that clock_tree calls next.  The checker    *)
(* knows the program order; what it accepts is what a processor without a  *)
(* pipeline would do.                                                      *)
(***************************************************************************)
EXTENDS Fetch, Decode, Execute, Mem, Branch, Writeback, Functions

CONSTANTS
    InstrsToRun, \* the argument of run
    Calls,       \* bound: calls of run
    InitRF,      \* the register values that were set before run
    InitTags     \* the lines that are in the cache before run

ASSUME RunAssumption ==
    /\ InstrsToRun \in Nat
    /\ Calls \in Nat \ {0}
    /\ InitRF \in [Regs -> 0..(Modulus - 1)]
    /\ IsFiniteSet(InitTags)

VARIABLES
    calls,       \* calls of run so far
    phase,
    current_trap \* what run returns, NO_TRAP while it runs

stageVars == <<wire, rf, prog, fetchVars, board, flush_expiration_latency, memory, writebackVars>>
vars == <<stageVars, calls, phase, current_trap>>

\* After set_kernel, load and set_pc( 0): writeback has sent the first target.
Init ==
    /\ wire = redirect(TRUE, [p \in Ports |-> <<>>], Target(0, 0))
    /\ rf = InitRF
    /\ prog = [a \in Addr |-> Unread]
    /\ btb = <<>>
    /\ tags = InitTags
    /\ is_wrong_path = FALSE
    /\ board = EmptyBoard
    /\ flush_expiration_latency = 0
    /\ memory = 0
    /\ checker = [pc |-> 0, seq |-> 0, rf |-> InitRF, memory |-> 0]
    /\ instrs_to_run = InstrsToRun
    /\ executed_instrs = 0
    /\ idle = 0
    /\ next_PC = 0
    /\ retired = 0
    /\ thrown = "none"
    /\ calls = 1
    /\ phase = "fetch"
    /\ current_trap = "NO_TRAP"

\* clock_tree calls stage p when it is its turn and goes on to stage q.
turn(p, q) ==
    /\ thrown = "none"
    /\ current_trap = "NO_TRAP"
    /\ phase = p
    /\ phase' = q
    /\ UNCHANGED <<calls, current_trap>>

fetch_clock ==
    /\ turn("fetch", "decode")
    /\ FetchClock
    /\ UNCHANGED <<board, flush_expiration_latency, memory, writebackVars>>
decode_clock ==
    /\ turn("decode", "execute")
    /\ DecodeClock
    /\ UNCHANGED <<fetchVars, flush_expiration_latency, memory, writebackVars>>
execute_clock ==
    /\ turn("execute", "mem")
    /\ ExecuteClock
    /\ UNCHANGED <<fetchVars, board, memory, writebackVars>>
mem_clock ==
    /\ turn("mem", "branch")
    /\ MemClock
    /\ UNCHANGED <<fetchVars, board, flush_expiration_latency, writebackVars>>
branch_clock ==
    /\ turn("branch", "writeback")
    /\ BranchClock
    /\ UNCHANGED <<fetchVars, board, flush_expiration_latency, memory, writebackVars>>
writeback_clock ==
    /\ WritebackClock
    /\ turn("writeback", IF ~writeback_trap /\ retired' < Len(retire_ports)
                         THEN "writeback" ELSE "core")
    /\ UNCHANGED <<fetchVars, board, flush_expiration_latency, memory>>

\* The end of a cycle: the core looks at the halt port.
core_clock ==
    /\ thrown = "none"
    /\ current_trap = "NO_TRAP"
    /\ phase = "core"
    /\ phase' = "fetch"
    /\ current_trap' = IF is_ready("WRITEBACK_2_CORE_HALT")
                       THEN read("WRITEBACK_2_CORE_HALT") ELSE current_trap
    /\ tick
    /\ idle' = idle + 1
    /\ retired' = 0
    /\ UNCHANGED <<calls, rf, prog, fetchVars, board, flush_expiration_latency, memory,
                   checker, instrs_to_run, executed_instrs, next_PC, thrown>>

clock ==
    \/ fetch_clock \/ decode_clock \/ execute_clock \/ mem_clock
    \/ branch_clock \/ writeback_clock \/ core_clock

\* run has returned and is called again: the pipeline goes on where it stopped.
run ==
    /\ thrown = "none"
    /\ current_trap # "NO_TRAP"
    /\ calls < Calls
    /\ calls' = calls + 1
    /\ current_trap' = "NO_TRAP"
    /\ instrs_to_run' = InstrsToRun
    /\ UNCHANGED <<wire, rf, prog, fetchVars, board, flush_expiration_latency, memory, phase,
                   checker, executed_instrs, idle, next_PC, retired, thrown>>

\* An exception has left run, or it is not called any more.
Done ==
    /\ thrown # "none" \/ (current_trap # "NO_TRAP" /\ calls = Calls)
    /\ UNCHANGED vars

Next == clock \/ run \/ Done

Spec == Init /\ [][Next]_vars

\* run is a loop: it keeps clocking.
FairSpec == Spec /\ WF_vars(clock)

-----------------------------------------------------------------------------
(* Properties *)

\* Every retired instruction is the one that the functional simulator executes
\* next, with the results it computes: Checker::check never throws.
RetiresInProgramOrder == thrown # "CheckerMismatch"

\* No stage writes a port more often in a cycle than Port::BW allows; above all
\* the long ALU and the simple one never send to writeback together.
NoPortClash == ~port_clash

\* writeback_bubble never gives up on a program that makes progress.
NoDeadlock == thrown # "Deadlock"

\* The memory is what the retired stores have made it, but for the one store
\* that has left the memory stage, and that one is the next instruction of the
\* checker: no store is performed for an instruction that a flush takes back.
coming(p) == {e.data : e \in {x \in Range(wire[p]) : x.left = 1}}
StoresRetire ==
    phase = "core" =>
        LET retiring == IF coming("WRITEBACK_2_ALL_FLUSH") = {}
                        THEN {in \in coming("MEMORY_2_WRITEBACK") : is_store(in.code)} ELSE {}
        IN  IF retiring = {} THEN memory = checker.memory
            ELSE \A in \in retiring :
                    in.pc = checker.pc /\ in.seq = checker.seq /\ memory = in.v_src[2]

\* Where the scoreboard should see an instruction that waits for execute, is in
\* the long ALU, or is on its way to memory, branch or writeback.
ready_at(p, stage) == IF is_ready(p) THEN {[in |-> read(p), stage |-> stage]} ELSE {}
in_long_alu ==
    {[in |-> e.data, stage |-> last_execution_stage - e.left] :
        e \in {x \in Range(wire["EXECUTE_2_EXECUTE_LONG_LATENCY"]) :
                  flush_expiration_latency <= x.left + 1}}
in_flight ==
    ready_at("DECODE_2_EXECUTE", 0) \cup in_long_alu
    \cup ready_at("EXECUTE_2_MEMORY", MEM_OR_BRANCH_STAGE)
    \cup ready_at("EXECUTE_2_BRANCH", MEM_OR_BRANCH_STAGE)
    \cup UNION {ready_at(p, WB_STAGE) :
                  p \in {"EXECUTE_2_WRITEBACK", "MEMORY_2_WRITEBACK", "BRANCH_2_WRITEBACK"}}

\* When decode has done its part of a cycle without a flush, the scoreboard has
\* every register at the stage of the youngest instruction in flight that
\* writes it, and in the register file if there is none.
ScoreboardFollows ==
    phase = "execute" /\ ~is_flush =>
        \A r \in Regs :
            LET writers == {w \in in_flight : r \in Range(w.in.code.dst)}
            IN  board.reg[r].current.value =
                  IF writers = {} THEN IN_RF_STAGE
                  ELSE (CHOOSE w \in writers : \A x \in writers : x.in.seq <= w.in.seq).stage

\* The line of a pending miss is not in the cache: the tag array is never told
\* to write a line that it has.
MissIsAbsent ==
    LET p == "LONG_LATENCY_PC_HOLDER" IN
    wire[p] # <<>> /\ phase = "fetch" => Line(wire[p][1].data.address) \notin tags

\* The first run( n) stops after n instructions, or one more: the core sees the halt of
\* the n-th one a cycle later, when writeback may have retired its successor.
StopsInTime == executed_instrs <= instrs_to_run + 1

\* What get_pc says when run has returned is where the functional simulator
\* goes on, after a trap, a syscall and a redirection too.
ResumesWhereStopped == current_trap # "NO_TRAP" => next_PC = checker.pc

\* run returns, with a trap and not by an exception.
RunReturns == <>(current_trap # "NO_TRAP")
=============================================================================
