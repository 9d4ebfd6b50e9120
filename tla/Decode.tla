------------------------------ MODULE Decode ------------------------------
(***************************************************************************)
(* The decode stage (modules/decode/decode.cpp): it corrects the fetch     *)
(* stage, waits for operands, reads the register file and tells execute    *)
(* which operands to take from the bypasses.                               *)
(***************************************************************************)
EXTENDS Pipeline, DataBypass

VARIABLE board \* the scoreboard of the bypassing unit

\* is_misprediction: what decode can know to be wrong.
is_misprediction(in) ==
    \/ (is_direct_jump(in.code) \/ is_indirect_jump(in.code)) /\ ~in.bp.is_taken
    \/ is_likely_branch(in.code) /\ ~in.bp.is_hit
    \/ /\ is_direct_jump(in.code) \/ is_branch(in.code)
       /\ in.bp.target # in.code.target
       /\ in.bp.is_taken

has_trap == is_ready("WRITEBACK_2_ALL_FLUSH")
has_flush == is_ready("BRANCH_2_ALL_FLUSH") \/ is_ready("DECODE_2_FETCH_FLUSH")

\* The scoreboard at the beginning of every cycle.
traced_board ==
    IF is_ready("DECODE_2_BYPASSING_UNIT_NOTIFY")
    THEN trace_new_instr(update(board), read("DECODE_2_BYPASSING_UNIT_NOTIFY"))
    ELSE update(board)
board_now ==
    IF is_ready("BRANCH_2_BYPASSING_UNIT_FLUSH_NOTIFY") \/ has_trap
    THEN handle_flush(traced_board) ELSE traced_board

\* read_instr: an instruction that waits comes before a fetched one.
from_stall == is_ready("DECODE_2_DECODE")
has_instr == from_stall \/ is_ready("FETCH_2_DECODE")
read_instr == IF from_stall THEN read("DECODE_2_DECODE") ELSE read("FETCH_2_DECODE")

\* The writes on a misprediction.
handle_misprediction(w, in, stall) ==
    IF ~is_misprediction(in) THEN w
    ELSE LET u == write_if(~stall, w ++ <<"DECODE_2_FETCH", get_bp_upd(in)>>,
                           <<"DECODE_2_FETCH_FLUSH", TRUE>>)
         IN  write_if(~from_stall, u, <<"DECODE_2_FETCH_TARGET", get_actual_decoded_target(in)>>)

DecodeFlush ==
    /\ has_flush \/ has_trap
    /\ board' = board_now
    /\ UNCHANGED <<wire, rf, prog>>

DecodeBubble ==
    /\ ~has_flush /\ ~has_trap
    /\ ~has_instr
    /\ board' = board_now
    /\ UNCHANGED <<wire, rf, prog>>

\* Data hazard: the instruction comes back in the next cycle.
DecodeStall ==
    /\ ~has_flush /\ ~has_trap
    /\ has_instr
    /\ is_stall(board_now, read_instr.code)
    /\ board' = board_now
    /\ wire' = handle_misprediction(wire, read_instr, TRUE)
               ++ <<"DECODE_2_FETCH_STALL", TRUE>> ++ <<"DECODE_2_DECODE", read_instr>>
    /\ UNCHANGED <<rf, prog>>

\* An operand that is in the register file is read now; another one gets a
\* command for execute.
operand(in, k) ==
    IF is_in_RF(board_now, in.code.src[k]) THEN read_source(rf, in.code.src[k]) ELSE in.v_src[k]
command(w, in, k, port) ==
    LET r == in.code.src[k] IN
    write_if(~is_in_RF(board_now, r) /\ can_bypass(board_now, r), w,
             <<port, bypass_direction(board_now, r)>>)

DecodeIssue ==
    /\ ~has_flush /\ ~has_trap
    /\ has_instr
    /\ ~is_stall(board_now, read_instr.code)
    /\ board' = board_now
    /\ LET in == [read_instr EXCEPT !.v_src = <<operand(read_instr, 1), operand(read_instr, 2)>>]
           w1 == handle_misprediction(wire, in, FALSE)
           w2 == command(w1, in, 1, "DECODE_2_EXECUTE_SRC1_COMMAND")
           w3 == command(w2, in, 2, "DECODE_2_EXECUTE_SRC2_COMMAND")
       IN  wire' = w3 ++ <<"DECODE_2_BYPASSING_UNIT_NOTIFY", in.code>> ++ <<"DECODE_2_EXECUTE", in>>
    /\ UNCHANGED <<rf, prog>>

DecodeClock == DecodeFlush \/ DecodeBubble \/ DecodeStall \/ DecodeIssue
=============================================================================
