------------------------------ MODULE Execute ------------------------------
(***************************************************************************)
(* The execute stage (modules/execute/execute.cpp): operands from the      *)
(* bypasses, execution, and the long ALU, which is a port that holds an    *)
(* instruction for long_alu_latency - 1 cycles and which no flush reaches. *)
(***************************************************************************)
EXTENDS Pipeline

VARIABLE flush_expiration_latency

is_flush == is_ready("BRANCH_2_ALL_FLUSH") \/ is_ready("WRITEBACK_2_ALL_FLUSH")

\* clock_saved_flush, save_flush and has_flush_expired.
clocked_flush ==
    IF flush_expiration_latency = 0 THEN 0 ELSE flush_expiration_latency - 1
\* (Mutant: the flush expires one cycle early.)
saved_flush_short == long_alu_latency - 2
saved_flush == long_alu_latency - 1

\* The instruction that leaves the long ALU, unless a flush has killed it.
long_completion(w) ==
    IF ~is_ready("EXECUTE_2_EXECUTE_LONG_LATENCY") \/ clocked_flush # 0 THEN w
    ELSE LET in == read("EXECUTE_2_EXECUTE_LONG_LATENCY")
         IN  w ++ <<"EXECUTE_COMPLEX_ALU_2_EXECUTE_BYPASS", in.v_dst>>
               ++ <<"EXECUTE_2_WRITEBACK", in>>

bypass_port == <<"EXECUTE_2_EXECUTE_BYPASS", "EXECUTE_COMPLEX_ALU_2_EXECUTE_BYPASS",
                 "MEMORY_2_EXECUTE_BYPASS", "WRITEBACK_2_EXECUTE_BYPASS",
                 "BRANCH_2_EXECUTE_BYPASS">>

\* The operand by the command of decode; a bypass that is silent gives zero.
bypassed(in, k, command) ==
    IF ~is_ready(command) THEN in.v_src[k]
    ELSE LET p == bypass_port[read(command) + 1]
         IN  IF is_ready(p) THEN read_last(p)[1] ELSE 0

\* Where the executed instruction goes.
next_port(i) ==
    CASE is_jump(i) -> "EXECUTE_2_BRANCH"
      [] is_mem_stage_required(i) -> "EXECUTE_2_MEMORY"
      [] OTHER -> "EXECUTE_2_WRITEBACK"
routed(w, in) ==
    IF is_long_arithmetic(in.code) THEN w ++ <<"EXECUTE_2_EXECUTE_LONG_LATENCY", in>>
    ELSE w ++ <<"EXECUTE_2_EXECUTE_BYPASS", in.v_dst>> ++ <<next_port(in.code), in>>

ExecuteFlush ==
    /\ is_flush
    /\ flush_expiration_latency' = saved_flush
    /\ UNCHANGED <<wire, rf, prog>>

ExecuteBubble ==
    /\ ~is_flush
    /\ ~is_ready("DECODE_2_EXECUTE")
    /\ flush_expiration_latency' = clocked_flush
    /\ wire' = long_completion(wire)
    /\ UNCHANGED <<rf, prog>>

ExecuteInstr ==
    /\ ~is_flush
    /\ is_ready("DECODE_2_EXECUTE")
    /\ flush_expiration_latency' = clocked_flush
    /\ LET d  == read("DECODE_2_EXECUTE")
           in == [d EXCEPT !.v_src = <<bypassed(d, 1, "DECODE_2_EXECUTE_SRC1_COMMAND"),
                                       bypassed(d, 2, "DECODE_2_EXECUTE_SRC2_COMMAND")>>]
       IN  \E o \in outcomes(in) : wire' = routed(long_completion(wire), executed_as(in, o))
    /\ UNCHANGED <<rf, prog>>

ExecuteClock == ExecuteFlush \/ ExecuteBubble \/ ExecuteInstr
=============================================================================
