---------------------------- MODULE DataBypass ----------------------------
(***************************************************************************)
(* The bypassing unit of the decode stage: a scoreboard that follows every *)
(* register from the instruction that produces it to the register file     *)
(* (modules/decode/bypass/data_bypass.h, data_bypass_interface.h).  A      *)
(* board is [reg, operation_latency].                                      *)
(***************************************************************************)
EXTENDS Instruction

MEM_OR_BRANCH_STAGE == 253
WB_STAGE == 254
IN_RF_STAGE == 255
last_execution_stage == long_alu_latency - 1

\* RegisterStage: where the value is, and from which port it can be taken.
Stage(value, direction) == [value |-> value, direction |-> direction]
first_execution_stage == Stage(0, 0)
mem_stage == Stage(MEM_OR_BRANCH_STAGE, 2)
writeback_stage == Stage(WB_STAGE, 3)
branch_stage == Stage(MEM_OR_BRANCH_STAGE, 4)

\* RegisterInfo; ready is the stage that completes the value.
Untraced ==
    [current |-> Stage(IN_RF_STAGE, 0), ready |-> IN_RF_STAGE,
     next |-> Stage(IN_RF_STAGE, 0), is_bypassible |-> FALSE, is_traced |-> FALSE]

EmptyBoard == [reg |-> [r \in Regs |-> Untraced], operation_latency |-> 0]

entry(b, r) == IF r = "zero" THEN Untraced ELSE b.reg[r]
is_in_RF(b, r) == entry(b, r).current.value = IN_RF_STAGE
can_bypass(b, r) == entry(b, r).is_bypassible

get_instruction_latency(i) ==
    IF is_mem_stage_required(i) \/ is_branch_stage_required(i) THEN 2
    ELSE IF is_long_arithmetic(i) THEN long_alu_latency ELSE 1

\* (Mutant: writeback_busy without the structural hazard.)
writeback_never_busy(b, i) == FALSE

\* The writeback stage takes one instruction in a cycle.
writeback_busy(b, i) ==
    get_instruction_latency(i) < b.operation_latency /\ 1 < b.operation_latency
is_stall(b, i) ==
    \/ \E k \in 1..2 : ~is_in_RF(b, i.src[k]) /\ ~can_bypass(b, i.src[k])
    \/ writeback_busy(b, i)

\* (Mutant: no special case for the end of the long ALU.)
bypass_direction_simple(b, r) == entry(b, r).current.direction

\* BypassCommand::get_bypass_direction
bypass_direction(b, r) ==
    IF entry(b, r).current.value = last_execution_stage THEN 1
    ELSE entry(b, r).current.direction

\* set_next_stage_after_first_execution_stage
next_stage(i) ==
    CASE is_long_arithmetic(i) -> Stage(1, 0)
      [] is_branch_stage_required(i) -> branch_stage
      [] is_mem_stage_required(i) -> mem_stage
      [] OTHER -> writeback_stage

ready_stage(i) ==
    CASE ~is_bypassible(i) -> IN_RF_STAGE
      [] is_bypassible(i) /\ is_long_arithmetic(i) -> last_execution_stage
      [] is_bypassible(i) /\ (is_jump(i) \/ is_load(i)) -> MEM_OR_BRANCH_STAGE
      [] OTHER -> 0

trace_new_dst_register(b, i, r) ==
    IF r = "zero" THEN b
    ELSE [b EXCEPT !.reg[r] =
            [current |-> first_execution_stage, ready |-> ready_stage(i),
             next |-> next_stage(i), is_bypassible |-> ready_stage(i) = 0,
             is_traced |-> TRUE]]

\* The second destination keeps the is_bypassible flag it finds.
trace_new_dst2_register(b, i, r) ==
    IF r = "zero" THEN b
    ELSE [b EXCEPT !.reg[r] =
            [current |-> first_execution_stage, ready |-> IN_RF_STAGE,
             next |-> next_stage(i), is_bypassible |-> @.is_bypassible,
             is_traced |-> TRUE]]

trace_new_instr(b, i) ==
    trace_new_dst2_register(
        trace_new_dst_register(
            [b EXCEPT !.operation_latency = get_instruction_latency(i)], i, i.dst[1]),
        i, i.dst[2])

\* One cycle further.
moved(e) ==
    LET s == CASE e.current.value = 0 -> e.next
               [] e.current.value \in {last_execution_stage, MEM_OR_BRANCH_STAGE} -> writeback_stage
               [] OTHER -> Stage(e.current.value + 1, e.current.direction)
    IN  [e EXCEPT !.current = s, !.is_bypassible = @ \/ s.value = e.ready]
updated(e) ==
    IF ~e.is_traced THEN e
    ELSE IF e.current.value = WB_STAGE THEN Untraced ELSE moved(e)
update(b) ==
    [reg |-> [r \in Regs |-> updated(b.reg[r])],
     operation_latency |-> IF b.operation_latency = 0 THEN 0 ELSE b.operation_latency - 1]

handle_flush(b) == EmptyBoard
=============================================================================
