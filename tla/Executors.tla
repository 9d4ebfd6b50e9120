----------------------------- MODULE Executors -----------------------------
(***************************************************************************)
(* Entries of the tables that the decoders look instructions up in         *)
(* (MIPSTableEntry, RISCVTableEntry): the class of the operation           *)
(* (func_sim/operation.h), by which pipeline and simulator decide what to  *)
(* do with an instruction, and its executor (func_sim/alu.h), which is what*)
(* the instruction does.  Executors are told apart by the parts of the     *)
(* instruction that they read and write, not by what they compute.         *)
(***************************************************************************)
EXTENDS Integers, Sequences, TLC

\* Classes of operations
Branches == {"OUT_BRANCH", "OUT_BRANCH_LIKELY"}
Jumps    == Branches \cup {"OUT_J_JUMP", "OUT_R_JUMP"}
Loads    == {"OUT_LOAD", "OUT_LOADU", "OUT_PARTIAL_LOAD"}
Accesses == Loads \cup {"OUT_STORE"}
Accumulations == {"OUT_R_ACCUM", "OUT_R_SUBTR"}

\* PerfInstr::is_bypassible: classes whose result goes to younger instructions before it is written.
Bypassible(class) == class \notin {"OUT_R_CONDM", "OUT_PARTIAL_LOAD"} \cup Accumulations

effect(does, reads, results, uses_imm) ==
    [does |-> does, reads |-> reads, results |-> results, uses_imm |-> uses_imm, masks |-> FALSE]

masked(e) == [e EXCEPT !.masks = TRUE]

\* load_addr and store_addr, aligned or not; a store takes its value from v_src[1].
addressing ==
       ("load_addr"      :> effect("address", 1, 0, TRUE))
    @@ ("load_addr_part" :> masked(effect("address", 1, 0, TRUE)))
    @@ ("store_addr"     :> effect("address", 2, 0, TRUE))

\* Arithmetic, shifts, logic and bit manipulation
computing ==
       ("upper_immediate" :> effect("result", 0, 1, TRUE))
    @@ ("unary"           :> effect("result", 1, 1, FALSE))
    @@ ("with_imm"        :> effect("result", 1, 1, TRUE))
    @@ ("binary"          :> effect("result", 2, 1, FALSE))
    @@ ("movz_movn"       :> masked(effect("result", 2, 1, FALSE)))
    @@ ("mult_div"        :> effect("result", 2, 2, FALSE))
    @@ ("csrrw"           :> effect("result", 2, 2, FALSE))
    @@ ("csrrs"           :> masked(effect("result", 2, 2, FALSE)))
    @@ ("csrrwi"          :> effect("result", 2, 2, TRUE))
    @@ ("do_nothing"      :> effect("result", 0, 0, FALSE))

\* branch and jump, with predicates of one or two operands, with or without a link
jumping ==
       ("branch_1"          :> effect("to target", 1, 0, FALSE))
    @@ ("branch_2"          :> effect("to target", 2, 0, FALSE))
    @@ ("branch_and_link"   :> effect("to target", 1, 1, FALSE))
    @@ ("j"                 :> effect("to target", 0, 0, FALSE))
    @@ ("jump_and_link_j"   :> effect("to target", 0, 1, FALSE))
    @@ ("jr"                :> effect("to register", 1, 0, FALSE))
    @@ ("jump_and_link_jr"  :> effect("to register", 1, 1, FALSE))
    @@ ("jump_and_link_riscv_jr" :> effect("to register", 1, 1, TRUE))
    @@ ("eret"              :> effect("to register", 2, 1, FALSE))

trapping ==
       ("trap"       :> effect("trap", 2, 0, FALSE))
    @@ ("trap_imm"   :> effect("trap", 1, 0, TRUE))
    @@ ("syscall"    :> effect("trap", 0, 0, FALSE))
    @@ ("breakpoint" :> effect("trap", 0, 0, FALSE))
    @@ ("unknown_instruction" :> effect("unknown", 0, 0, FALSE))

effects == addressing @@ computing @@ jumping @@ trapping

\* bits: the registers that the executor needs (64 if it is instantiated for uint64).
entry(executor, operation, mem_size, imm_type, src, dst, supported) ==
    [executor |-> executor, operation |-> operation, mem_size |-> mem_size, imm_type |-> imm_type,
     src |-> src, dst |-> dst, supported |-> supported, bits |-> 32]

wide(e) == [e EXCEPT !.bits = 64]

\* The same entry, but for the names and what is computed, under several keys.
rows(keys, e) == [k \in keys |-> e]

\* The executor is replaced if the version of the instruction set has no such instruction.
init(e, version) ==
    [e EXCEPT !.executor = IF version \in e.supported THEN @ ELSE "unknown_instruction"]
=============================================================================
