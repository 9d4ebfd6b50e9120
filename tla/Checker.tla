------------------------------ MODULE Checker ------------------------------
(***************************************************************************)
(* The checker of the writeback stage: a functional simulator that         *)
(* executes the program one instruction at a time, in order, on registers  *)
(* and a memory of its own (modules/writeback/checker/checker.cpp,         *)
(* func_sim/func_sim.cpp).  It defines what the pipeline must retire.      *)
(* A checker is [pc, seq, rf, memory].                                     *)
(***************************************************************************)
EXTENDS Instruction

\* FuncSim::set_target
checker_at(c, t) == [c EXCEPT !.pc = t.address, !.seq = t.seq]

\* FuncSim::step, up to execution, for the instruction i at its pc.
checker_read(c, i, bp) ==
    [fetched(c.pc, c.seq, i, bp) EXCEPT
        !.v_src = <<read_source(c.rf, i.src[1]), read_source(c.rf, i.src[2])>>]

\* The results a step may have.  Free outcomes are those of the pipeline when
\* it executed the same instruction with the same operands.
checker_results(c, f, in) ==
    {loaded(executed_as(f, o), c.memory) :
        o \in IF f.pc = in.pc /\ f.v_src = in.v_src
              THEN {[taken |-> in.taken, new_pc |-> in.new_pc, trap |-> in.trap]}
              ELSE outcomes(f)}

checker_done(c, f) ==
    [pc |-> f.new_pc, seq |-> c.seq + 1, rf |-> write_dst(c.rf, f), memory |-> stored(f, c.memory)]

\* is_same_checker
is_same_checker(f, in) ==
    /\ f.pc = in.pc
    /\ f.seq = in.seq
    /\ \A k \in 1..2 : f.code.dst[k] # "zero" => f.v_dst[k] = in.v_dst[k]
=============================================================================
