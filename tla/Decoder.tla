------------------------------ MODULE Decoder ------------------------------
(***************************************************************************)
(* The immediates and the targets of decoded instructions:                 *)
(* risc_v/riscv_decoder.h and RISCVInstr::init_target, and                 *)
(* mips/mips_instr_decode.h and BaseMIPSInstr::init_target.  The raw       *)
(* instruction is a word of 32 bits (Words), and so is a register (RV32    *)
(* and MIPS32).  A type of immediate is a string; the letters of MIPS,     *)
(* which clash with those of RISC-V, have the prefix "mips_".              *)
(***************************************************************************)
EXTENDS Integers, Sequences, Words

RLEN == 32

\* The bits hi..lo of a word, moved down: the masks of the code are intervals.
apply_mask(x, hi, lo) == right(x \cap (lo .. hi), lo)

\* Pieces <<hi, lo, shamt>> of a word, each put at its place.
gathered(x, pieces) == UNION {left(apply_mask(x, p[1], p[2]), p[3], RLEN) : p \in pieces}

I_imm(raw)    == apply_mask(raw, 31, 20)

S_imm(raw)    == gathered(raw, {<<11, 7, 0>>, <<31, 25, 5>>})

U_imm(raw)    == apply_mask(raw, 31, 12)

csr_imm(raw)  == apply_mask(raw, 19, 15)

CI_imm_1(raw) == apply_mask(raw, 12, 12)

CI_imm_2(raw) == apply_mask(raw, 6, 2)

CSS_imm(raw)  == apply_mask(raw, 12, 7)

CIW_imm(raw)  == apply_mask(raw, 12, 5)

CL_imm_1(raw) == apply_mask(raw, 12, 10)

CL_imm_2(raw) == apply_mask(raw, 6, 5)

CJ_imm(raw)   == apply_mask(raw, 12, 2)

get_B_immediate(raw) == gathered(raw, {<<11, 8, 1>>, <<30, 25, 5>>, <<7, 7, 11>>, <<31, 31, 12>>})

get_J_immediate(raw) == gathered(raw, {<<30, 21, 1>>, <<20, 20, 11>>, <<19, 12, 12>>, <<31, 31, 20>>})

get_C_LWSP_immediate(raw) == left(CI_imm_1(raw), 5, RLEN) \cup gathered(CI_imm_2(raw), {<<4, 2, 2>>, <<1, 0, 6>>})

get_C_LDSP_immediate(raw) == left(CI_imm_1(raw), 5, RLEN) \cup gathered(CI_imm_2(raw), {<<4, 3, 3>>, <<2, 0, 6>>})

get_C_LQSP_immediate(raw) == left(CI_imm_1(raw), 5, RLEN) \cup gathered(CI_imm_2(raw), {<<4, 4, 4>>, <<3, 0, 6>>})

get_C_SWSP_immediate(raw) == gathered(CSS_imm(raw), {<<5, 2, 2>>, <<1, 0, 6>>})

get_C_SDSP_immediate(raw) == gathered(CSS_imm(raw), {<<5, 3, 3>>, <<2, 0, 6>>})

get_C_SQSP_immediate(raw) == gathered(CSS_imm(raw), {<<5, 4, 4>>, <<3, 0, 6>>})

get_C_LW_immediate(raw) == gathered(CL_imm_2(raw), {<<1, 1, 2>>, <<0, 0, 6>>}) \cup gathered(CL_imm_1(raw), {<<2, 0, 3>>})

get_C_LD_immediate(raw) == gathered(CL_imm_1(raw), {<<2, 0, 3>>}) \cup gathered(CL_imm_2(raw), {<<1, 0, 6>>})

get_C_LQ_immediate(raw) == gathered(CL_imm_1(raw), {<<2, 1, 4>>, <<0, 0, 8>>}) \cup gathered(CL_imm_2(raw), {<<1, 0, 6>>})

get_C_I_immediate(raw) == left(CI_imm_1(raw), 5, RLEN) \cup CI_imm_2(raw)

\* Mutant: bits 6 and 7 of the offset change places.
get_C_J_immediate_swapped(raw) ==
    gathered(CJ_imm(raw), {<<10, 10, 11>>, <<9, 9, 4>>, <<8, 7, 8>>, <<6, 6, 10>>,
                           <<5, 4, 6>>, <<3, 1, 1>>, <<0, 0, 5>>})

get_C_J_immediate(raw) ==
    gathered(CJ_imm(raw), {<<10, 10, 11>>, <<9, 9, 4>>, <<8, 7, 8>>, <<6, 6, 10>>,
                           <<5, 5, 6>>, <<4, 4, 7>>, <<3, 1, 1>>, <<0, 0, 5>>})

get_C_B_immediate(raw) ==
    gathered(CL_imm_1(raw), {<<2, 2, 8>>, <<1, 0, 3>>})
        \cup gathered(CI_imm_2(raw), {<<4, 3, 6>>, <<2, 1, 1>>, <<0, 0, 5>>})

get_C_ADDI4SPN_immediate(raw) == gathered(CIW_imm(raw), {<<7, 6, 4>>, <<5, 2, 6>>, <<1, 1, 2>>, <<0, 0, 3>>})

get_C_ADDI16SP_immediate(raw) ==
    left(CI_imm_1(raw), 9, RLEN)
        \cup gathered(CI_imm_2(raw), {<<4, 4, 4>>, <<3, 3, 6>>, <<2, 1, 7>>, <<0, 0, 5>>})

get_immediate_value(type, raw) ==
    CASE type = "I"          -> I_imm(raw)
      [] type = "5"          -> I_imm(raw) \cap bitmask(5, RLEN)
      [] type = "6"          -> I_imm(raw) \cap bitmask(6, RLEN)
      [] type = "7"          -> I_imm(raw) \cap bitmask(7, RLEN)
      [] type = "B"          -> get_B_immediate(raw)
      [] type = "S"          -> S_imm(raw)
      [] type = "U"          -> U_imm(raw)
      [] type = "J"          -> get_J_immediate(raw)
      [] type = "C"          -> csr_imm(raw)
      [] type = "C_LWSP"     -> get_C_LWSP_immediate(raw)
      [] type = "C_LDSP"     -> get_C_LDSP_immediate(raw)
      [] type = "C_LQSP"     -> get_C_LQSP_immediate(raw)
      [] type = "C_SWSP"     -> get_C_SWSP_immediate(raw)
      [] type = "C_SDSP"     -> get_C_SDSP_immediate(raw)
      [] type = "C_SQSP"     -> get_C_SQSP_immediate(raw)
      [] type = "C_LW"       -> get_C_LW_immediate(raw)
      [] type = "C_LD"       -> get_C_LD_immediate(raw)
      [] type = "C_LQ"       -> get_C_LQ_immediate(raw)
      [] type = "C_J"        -> get_C_J_immediate(raw)
      [] type = "C_B"        -> get_C_B_immediate(raw)
      [] type = "C_ADDI4SPN" -> get_C_ADDI4SPN_immediate(raw)
      [] type = "C_ADDI16SP" -> get_C_ADDI16SP_immediate(raw)
      [] type \in {"C_S", "C_I"} -> get_C_I_immediate(raw)
      [] type = "mips_S"     -> apply_mask(raw, 10, 6)
      [] type = "mips_J"     -> apply_mask(raw, 25, 0)
      [] type \in {"mips_I", "mips_L"} -> apply_mask(raw, 15, 0)

\* The width at which an immediate is sign extended.
extended_from(type) ==
    CASE type \in {"I", "B", "S", "C_J"} -> 12
      [] type \in {"U", "J"}             -> 20
      [] type = "C_I"                    -> 6
      [] type = "C_B"                    -> 9
      [] type = "C_ADDI16SP"             -> 10
      [] type = "mips_I"                 -> 16
      [] OTHER                           -> RLEN

get_immediate(type, value) ==
    IF type \in {"5", "6", "7"} THEN value \cap bitmask(log_bitwidth(RLEN), RLEN)
    ELSE sign_extension(value, extended_from(type), RLEN)

v_imm(type, raw) == get_immediate(type, get_immediate_value(type, raw))

\* Types of the immediates of branches (c.j and c.jal are OUT_BRANCH) and of direct jumps.
is_branch(type) == type \in {"B", "C_B", "C_J", "mips_I"}

is_direct_jump(type) == type \in {"J", "mips_J"}

\* init_target: the distance from the instruction to its target; of a direct
\* jump of MIPS, which stays in the region of its PC, the place in the region.
target_offset(type, imm) ==
    CASE type \in {"B", "C_B", "C_J"} -> signed(sign_extension(imm, 12, RLEN), RLEN)
      [] type = "J"                   -> signed(sign_extension(imm, 20, RLEN), RLEN)
      [] type = "mips_I"              -> 4 + signed(left(imm, 2, RLEN), RLEN)
      [] type = "mips_J"              -> unsigned(left(imm, 2, RLEN) \ (28 .. 31))
=============================================================================
