-------------------------------- MODULE Mem --------------------------------
(***************************************************************************)
(* The memory stage (modules/mem/mem.cpp).  The data memory is one cell.   *)
(***************************************************************************)
EXTENDS Pipeline

VARIABLE memory

\* (Mutant: the flush of the branch stage is ignored.)
mem_flush_by_trap == is_ready("WRITEBACK_2_ALL_FLUSH")
mem_flush == is_ready("BRANCH_2_ALL_FLUSH") \/ is_ready("WRITEBACK_2_ALL_FLUSH")

\* A flush, or nothing to process.
MemIdle ==
    /\ mem_flush \/ ~is_ready("EXECUTE_2_MEMORY")
    /\ UNCHANGED <<wire, rf, prog, memory>>

MemInstr ==
    /\ ~mem_flush
    /\ is_ready("EXECUTE_2_MEMORY")
    /\ LET in == loaded(read("EXECUTE_2_MEMORY"), memory) IN
       /\ memory' = stored(in, memory)
       /\ wire' = wire ++ <<"MEMORY_2_EXECUTE_BYPASS", in.v_dst>> ++ <<"MEMORY_2_WRITEBACK", in>>
    /\ UNCHANGED <<rf, prog>>

MemClock == MemIdle \/ MemInstr
=============================================================================
