------------------------------ MODULE Branch ------------------------------
(***************************************************************************)
(* The branch stage (modules/branch/branch.cpp, branch.h): it compares     *)
(* every executed jump with its prediction and flushes what is younger.    *)
(***************************************************************************)
EXTENDS Pipeline

\* (Mutant: the predicted target is not compared.)
is_direction_misprediction(in) ==
    \/ ~in.bp.is_hit /\ is_taken(in) # is_likely_branch(in.code)
    \/ in.bp.is_hit /\ in.bp.is_taken # is_taken(in)

\* Branch::is_misprediction
is_branch_misprediction(in) ==
    \/ /\ ~in.bp.is_hit
       /\ \/ is_common_branch(in.code) /\ is_taken(in)
          \/ is_likely_branch(in.code) /\ ~is_taken(in)
          \/ is_indirect_jump(in.code)
    \/ in.bp.is_hit /\ in.bp.is_taken # is_taken(in)
    \/ (in.bp.is_taken \/ is_indirect_jump(in.code)) /\ in.bp.target # in.new_pc

branch_flush == is_ready("BRANCH_2_ALL_FLUSH") \/ is_ready("WRITEBACK_2_ALL_FLUSH")

\* The writes on a misprediction.
flush_all(w, in) ==
    w ++ <<"BRANCH_2_ALL_FLUSH", TRUE>> ++ <<"BRANCH_2_BYPASSING_UNIT_FLUSH_NOTIFY", TRUE>>
      ++ <<"BRANCH_2_FETCH_TARGET", get_actual_target(in)>>

BranchIdle ==
    /\ branch_flush \/ ~is_ready("EXECUTE_2_BRANCH")
    /\ UNCHANGED <<wire, rf, prog>>

BranchInstr ==
    /\ ~branch_flush
    /\ is_ready("EXECUTE_2_BRANCH")
    /\ LET in == read("EXECUTE_2_BRANCH")
           w  == wire ++ <<"BRANCH_2_FETCH", get_bp_upd(in)>>
       IN  wire' = (IF is_branch_misprediction(in) THEN flush_all(w, in) ELSE w)
                   ++ <<"BRANCH_2_EXECUTE_BYPASS", in.v_dst>> ++ <<"BRANCH_2_WRITEBACK", in>>
    /\ UNCHANGED <<rf, prog>>

BranchClock == BranchIdle \/ BranchInstr
=============================================================================
