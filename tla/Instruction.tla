--------------------------- MODULE Instruction ---------------------------
(***************************************************************************)
(* Instructions as the stages see them: class Operation and Datapath       *)
(* (func_sim/operation.h), PerfInstr (modules/core/perf_instr.h) and the   *)
(* register file (func_sim/rf/rf.h).                                       *)
(*                                                                         *)
(* What an ALU computes is abstracted to Mix: a result is a number that    *)
(* depends on the address, on both operands and on the destination, so     *)
(* that a wrong operand gives a wrong result.  Whether a branch is taken,  *)
(* where an indirect jump goes and whether a conditional trap fires is     *)
(* chosen by execute.                                                      *)
(***************************************************************************)
EXTENDS Integers, Sequences, TLC

CONSTANTS
    Regs,            \* the registers that an instruction can name, zero excepted
    CodeSize,        \* the program occupies addresses 0 .. CodeSize - 1
    long_alu_latency \* config::long_alu_latency

ASSUME CodeAssumption == CodeSize \in Nat \ {0} /\ "zero" \notin Regs
ASSUME LongAssumption == long_alu_latency \in 2..63

Addr == 0..(CodeSize - 1)

\* NO_VAL32 as an address: far away from the program.
Junk == 1000

\* The address n instructions after a.  The program is laid out as a ring.
After(a, n) == IF a = Junk THEN Junk ELSE (a + n) % CodeSize

(* Static instructions: [op, src, dst, target, trap].  target is what the   *)
(* decoder knows (Junk for an indirect jump), trap what execute raises.     *)

is_direct_jump(i) == i.op = "OUT_J_JUMP"
is_common_branch(i) == i.op = "OUT_BRANCH"
is_likely_branch(i) == i.op = "OUT_BRANCH_LIKELY"
is_branch(i) == is_common_branch(i) \/ is_likely_branch(i)
is_indirect_jump(i) == i.op = "OUT_R_JUMP"
is_jump(i) == is_direct_jump(i) \/ is_branch(i) \/ is_indirect_jump(i)
is_partial_load(i) == i.op = "OUT_PARTIAL_LOAD"
is_load(i) == i.op = "OUT_LOAD" \/ is_partial_load(i)
is_store(i) == i.op = "OUT_STORE"
is_explicit_trap(i) == i.op = "OUT_TRAP"
is_conditional_move(i) == i.op = "OUT_R_CONDM"
is_accumulation(i) == i.op = "OUT_R_ACCUM"
is_long_arithmetic(i) == i.op = "OUT_DIVMULT" \/ is_accumulation(i)

\* What an instruction writes may depend on the register it overwrites.
is_bypassible(i) ==
    ~is_conditional_move(i) /\ ~is_partial_load(i) /\ ~is_accumulation(i)
is_mem_stage_required(i) == is_load(i) \/ is_store(i) \/ is_explicit_trap(i)
is_branch_stage_required(i) == is_jump(i)

Nop == [op |-> "OUT_ARITHM", src |-> <<"zero", "zero">>, dst |-> <<"zero", "zero">>,
        target |-> Junk, trap |-> "NO_TRAP"]

-----------------------------------------------------------------------------
(* Values *)

Modulus == 61
Garbage == Modulus \* NO_VAL32 as data: what an operand or a result holds at first
Mix(pc, a, b, k) == (5 * pc + 7 * a + 11 * b + 13 * k + 3) % Modulus

\* RF::write with a mask or an accumulation: the old value takes part.
Merged(old, v) == (17 * old + 3 * v + 1) % Modulus

read_source(f, r) == IF r = "zero" THEN 0 ELSE f[r]

\* RF::write_dst: both destinations, the second after the first.
written(f, r, v, merge) ==
    IF r = "zero" THEN f ELSE [f EXCEPT ![r] = IF merge THEN Merged(@, v) ELSE v]
write_dst(f, in) ==
    written(written(f, in.code.dst[1], in.v_dst[1], ~is_bypassible(in.code)),
            in.code.dst[2], in.v_dst[2], is_accumulation(in.code))

-----------------------------------------------------------------------------
(* Dynamic instructions *)

\* A fetched instruction: nothing is read, executed or loaded yet.
fetched(pc, seq, i, bp) ==
    [pc |-> pc, seq |-> seq, code |-> i, bp |-> bp,
     v_src |-> <<Garbage, Garbage>>, v_dst |-> <<Garbage, Garbage>>,
     taken |-> FALSE, new_pc |-> After(pc, 1), trap |-> "NO_TRAP"]

is_taken(in) == is_direct_jump(in.code) \/ is_indirect_jump(in.code) \/ in.taken

\* Where the instruction may go, whether it traps: (taken, new_pc, trap).
outcomes(in) ==
    LET i == in.code IN
    {o \in [taken : BOOLEAN, new_pc : Addr \cup {After(in.pc, 1)}, trap : {"NO_TRAP", i.trap}] :
        /\ ~is_branch(i) => o.taken = (is_direct_jump(i) \/ is_indirect_jump(i))
        /\ ~is_indirect_jump(i) =>
             o.new_pc = IF o.taken THEN i.target ELSE After(in.pc, 1)
        /\ ~is_explicit_trap(i) => o.trap = i.trap}

\* Datapath::execute.  A load has no result before the memory stage.
executed_as(in, o) ==
    [in EXCEPT !.taken = o.taken, !.new_pc = o.new_pc, !.trap = o.trap,
               !.v_dst = IF is_load(in.code) THEN @
                         ELSE <<Mix(in.pc, in.v_src[1], in.v_src[2], 1),
                                Mix(in.pc, in.v_src[1], in.v_src[2], 2)>>]

\* FuncMemory::load_store on a memory of one cell.
loaded(in, m) ==
    IF is_load(in.code) THEN [in EXCEPT !.v_dst[1] = Mix(in.pc, in.v_src[1], m, 1)] ELSE in
stored(in, m) == IF is_store(in.code) THEN in.v_src[2] ELSE m

\* Targets: the address to fetch and the number of the instruction there.
Target(a, seq) == [address |-> a, seq |-> seq]
get_predicted_target(in) == Target(in.bp.target, in.seq + 1)
get_actual_target(in) == Target(in.new_pc, in.seq + 1)
get_actual_decoded_target(in) == Target(in.code.target, in.seq + 1)

\* What a jump tells the branch predictor.
get_bp_upd(in) ==
    [pc |-> in.pc, target |-> IF is_indirect_jump(in.code) THEN in.new_pc ELSE in.code.target]
=============================================================================
