----------------------------- MODULE MIPSInstr -----------------------------
(***************************************************************************)
(* The decoder of MIPS instructions: mips/mips_instr.cpp,                  *)
(* mips_instr_decode.h, mips_version.h and mips_register.  The raw         *)
(* instruction is a word of 32 bits (Words).  Keys of the tables are those *)
(* of the code; consecutive entries that differ in name and arithmetic only*)
(* are one row.                                                            *)
(***************************************************************************)
EXTENDS Executors, Decoder

\* mips_version.h
MIPS_64_Instr  == {"v64", "mars64"}
MIPS_32_Instr  == MIPS_64_Instr \cup {"v32", "mars"}
MIPS_V_Instr   == MIPS_64_Instr \cup {"V"}
MIPS_IV_Instr  == MIPS_V_Instr \cup {"IV"}
MIPS_III_Instr == MIPS_IV_Instr \cup {"III"}
MIPS_II_Instr  == MIPS_III_Instr \cup MIPS_32_Instr \cup {"II"}
MIPS_I_Instr   == MIPS_II_Instr \cup {"I"}

Versions == MIPS_I_Instr

RegisterUInt(version) == IF version \in {"III", "IV", "V", "v64", "mars64"} THEN 64 ELSE 32

-----------------------------------------------------------------------------
\* Tables

unknown_entry == entry("unknown_instruction", "OUT_ARITHM", 0, "N", << >>, << "ZERO" >>, MIPS_I_Instr)
instr_nop     == entry("do_nothing", "OUT_ARITHM", 0, "N", << >>, << "ZERO" >>, MIPS_I_Instr)

plain_entry(executor, operation, src, dst, supported) == entry(executor, operation, 0, "N", src, dst, supported)
rs_rt_rd(executor, supported) == plain_entry(executor, "OUT_ARITHM", << "RS", "RT" >>, << "RD" >>, supported)
hi_lo(operation, supported)   == plain_entry("mult_div", operation, << "RS", "RT" >>, << "LO", "HI" >>, supported)

shift(supported)  == entry("with_imm", "OUT_ARITHM", 0, "S", << "RT" >>, << "RD" >>, supported)
shiftv(supported) == plain_entry("binary", "OUT_ARITHM", << "RT", "RS" >>, << "RD" >>, supported)

isaMapR ==
       rows({\h0, \h2, \h3}, shift(MIPS_I_Instr))
    @@ rows({\h4, \h6, \h7}, shiftv(MIPS_I_Instr))
    @@ rows({\h8}, plain_entry("jr", "OUT_R_JUMP", << "RS" >>, << "ZERO" >>, MIPS_I_Instr))
    @@ rows({\h9}, plain_entry("jump_and_link_jr", "OUT_R_JUMP", << "RS" >>, << "RD" >>, MIPS_I_Instr))
    @@ rows({\hA, \hB}, plain_entry("movz_movn", "OUT_R_CONDM", << "RS", "RT" >>, << "RD" >>, MIPS_IV_Instr \cup MIPS_32_Instr))
    @@ rows({\hC}, plain_entry("syscall", "OUT_SYSCALL", << >>, << "ZERO" >>, MIPS_I_Instr))
    @@ rows({\hD}, plain_entry("breakpoint", "OUT_BREAK", << >>, << "ZERO" >>, MIPS_I_Instr))
    @@ rows({\h10}, plain_entry("unary", "OUT_ARITHM", << "HI" >>, << "RD" >>, MIPS_I_Instr))
    @@ rows({\h11}, plain_entry("unary", "OUT_ARITHM", << "RS" >>, << "HI" >>, MIPS_I_Instr))
    @@ rows({\h12}, plain_entry("unary", "OUT_ARITHM", << "LO" >>, << "RD" >>, MIPS_I_Instr))
    @@ rows({\h13}, plain_entry("unary", "OUT_ARITHM", << "RS" >>, << "LO" >>, MIPS_I_Instr))
    @@ rows({\h14, \h16, \h17}, wide(shiftv(MIPS_III_Instr)))
    @@ rows(\h18 .. \h1B, hi_lo("OUT_DIVMULT", MIPS_I_Instr))
    @@ rows(\h1C .. \h1F, wide(hi_lo("OUT_DIVMULT", MIPS_III_Instr)))
    @@ rows((\h20 .. \h27) \cup {\h2A, \h2B}, rs_rt_rd("binary", MIPS_I_Instr))
    @@ rows(\h2C .. \h2F, wide(rs_rt_rd("binary", MIPS_III_Instr)))
    @@ rows((\h30 .. \h34) \cup {\h36}, plain_entry("trap", "OUT_TRAP", << "RS", "RT" >>, << "ZERO" >>, MIPS_II_Instr))
    @@ rows({\h38, \h3A, \h3B, \h3C, \h3E, \h3F}, wide(shift(MIPS_III_Instr)))

isaMapRI ==
    LET ri(executor, operation, dst, supported) == entry(executor, operation, 0, "I", << "RS" >>, << dst >>, supported)
    IN     rows({\h0, \h1}, ri("branch_1", "OUT_BRANCH", "ZERO", MIPS_I_Instr))
        @@ rows({\h2, \h3}, ri("branch_1", "OUT_BRANCH_LIKELY", "ZERO", MIPS_II_Instr))
        @@ rows((\h8 .. \hC) \cup {\hE}, ri("trap_imm", "OUT_TRAP", "ZERO", MIPS_II_Instr))
        @@ rows({\h10, \h11}, ri("branch_and_link", "OUT_BRANCH", "RA", MIPS_I_Instr))
        @@ rows({\h12, \h13}, ri("branch_and_link", "OUT_BRANCH_LIKELY", "RA", MIPS_II_Instr))

with_imm(imm_type, supported) == entry("with_imm", "OUT_ARITHM", 0, imm_type, << "RS" >>, << "RT" >>, supported)
branch(executor, operation, src, supported) == entry(executor, operation, 0, "I", src, << "ZERO" >>, supported)

jumps_and_immediates ==
       rows({\h2}, entry("j", "OUT_J_JUMP", 0, "J", << >>, << "ZERO" >>, MIPS_I_Instr))
    @@ rows({\h3}, entry("jump_and_link_j", "OUT_J_JUMP", 0, "J", << >>, << "RA" >>, MIPS_I_Instr))
    @@ rows({\h4, \h5}, branch("branch_2", "OUT_BRANCH", << "RS", "RT" >>, MIPS_I_Instr))
    @@ rows({\h6, \h7}, branch("branch_1", "OUT_BRANCH", << "RS" >>, MIPS_I_Instr))
    @@ rows(\h8 .. \hB, with_imm("I", MIPS_I_Instr))
    @@ rows(\hC .. \hE, with_imm("L", MIPS_I_Instr))
    @@ rows({\hF}, entry("upper_immediate", "OUT_ARITHM", 0, "I", << >>, << "RT" >>, MIPS_I_Instr))
    @@ rows({\h14, \h15}, branch("branch_2", "OUT_BRANCH_LIKELY", << "RS", "RT" >>, MIPS_II_Instr))
    @@ rows({\h16, \h17}, branch("branch_1", "OUT_BRANCH_LIKELY", << "RS", "RT" >>, MIPS_II_Instr))
    @@ rows({\h18, \h19}, wide(with_imm("I", MIPS_III_Instr)))

load(executor, operation, size, supported) == entry(executor, operation, size, "I", << "RS" >>, << "RT" >>, supported)
store(size, supported) == entry("store_addr", "OUT_STORE", size, "I", << "RS", "RT" >>, << "ZERO" >>, supported)
cop1(operation, size, supported) == entry("unknown_instruction", operation, size, "I", << "RS" >>, << "FT" >>, supported)

\* lwl and lwr; the mutant lets younger instructions have the loaded word.
partial_loads_bypassed == rows({\h22, \h26}, load("load_addr_part", "OUT_LOAD", 4, MIPS_I_Instr))
partial_loads == rows({\h22, \h26}, load("load_addr_part", "OUT_PARTIAL_LOAD", 4, MIPS_I_Instr))

loads_and_stores ==
       rows({\h1A, \h1B}, load("load_addr", "OUT_LOAD", 8, MIPS_III_Instr))
    @@ rows({\h20}, load("load_addr", "OUT_LOAD", 1, MIPS_I_Instr))
    @@ rows({\h21}, load("load_addr", "OUT_LOAD", 2, MIPS_I_Instr))
    @@ rows({\h23}, load("load_addr", "OUT_LOAD", 4, MIPS_I_Instr))
    @@ rows({\h24}, load("load_addr", "OUT_LOADU", 1, MIPS_I_Instr))
    @@ rows({\h25}, load("load_addr", "OUT_LOADU", 2, MIPS_I_Instr))
    @@ rows({\h27}, load("load_addr", "OUT_LOADU", 4, MIPS_I_Instr))
    @@ rows({\h28}, store(1, MIPS_I_Instr))
    @@ rows({\h29}, store(2, MIPS_I_Instr))
    @@ rows({\h2A, \h2B, \h2E}, store(4, MIPS_I_Instr))
    @@ rows({\h2C, \h2D, \h3F}, store(8, MIPS_III_Instr))
    @@ rows({\h30}, load("load_addr", "OUT_LOAD", 2, MIPS_I_Instr))
    @@ rows({\h31}, cop1("OUT_LOAD", 4, MIPS_I_Instr))
    @@ rows({\h35}, cop1("OUT_LOAD", 8, MIPS_II_Instr))
    @@ rows({\h37}, load("load_addr", "OUT_LOAD", 8, MIPS_III_Instr))
    @@ rows({\h38}, store(2, MIPS_I_Instr))
    @@ rows({\h39}, cop1("OUT_STORE", 4, MIPS_I_Instr))
    @@ rows({\h3D}, cop1("OUT_STORE", 8, MIPS_II_Instr))

isaMapIJ == jumps_and_immediates @@ partial_loads @@ loads_and_stores

isaMapMIPS32 ==
       rows({\h0, \h1}, hi_lo("OUT_R_ACCUM", MIPS_32_Instr))
    @@ rows({\h2}, rs_rt_rd("mult_div", MIPS_32_Instr))
    @@ rows({\h4, \h5}, hi_lo("OUT_R_SUBTR", MIPS_32_Instr))
    @@ rows({\h20, \h21}, plain_entry("unary", "OUT_ARITHM", << "RS" >>, << "RD" >>, MIPS_32_Instr))
    @@ rows({\h24, \h25}, wide(plain_entry("unary", "OUT_ARITHM", << "RS" >>, << "RD" >>, MIPS_64_Instr)))

isaMapCOP0_rs ==
       rows({\h0}, plain_entry("unary", "OUT_ARITHM", << "CP0_RD" >>, << "RT" >>, MIPS_I_Instr))
    @@ rows({\h4}, plain_entry("unary", "OUT_ARITHM", << "RT" >>, << "CP0_RD" >>, MIPS_I_Instr))

isaMapCOP0_funct == rows({\h18}, plain_entry("eret", "OUT_R_JUMP", << "EPC", "SR" >>, << "SR" >>, MIPS_I_Instr))

\* No instruction of the floating point unit has an executor, whatever version introduced it.
fpu(src, dst) == plain_entry("unknown_instruction", "OUT_FPU", src, << dst >>, MIPS_I_Instr)

isaMapCOP1 == rows({\h0, \h1, \h2}, fpu(<< "FS" >>, "RT")) @@ rows({\h4, \h5, \h6}, fpu(<< "RT" >>, "FS"))

formatted ==
       rows(\h0 .. \h3, fpu(<< "FS", "FT" >>, "FD"))
    @@ rows((\h4 .. \hF) \cup {\h15, \h16, \h24, \h25}, fpu(<< "FS" >>, "FD"))
    @@ rows({\h12, \h13}, fpu(<< "FS", "RT" >>, "FD"))
    @@ rows(\h30 .. \h3F, fpu(<< "FS", "FT" >>, "FCSR"))

isaMapCOP1_s == formatted @@ rows({\h21}, fpu(<< "FS" >>, "FD"))
isaMapCOP1_d == formatted @@ rows({\h20}, fpu(<< "FS" >>, "FD"))
isaMapCOP1_l == rows({\h20, \h21}, fpu(<< "FS" >>, "FD"))
isaMapCOP1_w == rows({\h20, \h21}, fpu(<< "FS" >>, "FD"))

isaMapCOP1I == rows(\h0 .. \h3, entry("unknown_instruction", "OUT_BRANCH", 0, "I", << "FCSR" >>, << "ZERO" >>, MIPS_I_Instr))

isaMapCOP1X ==
    LET indexed(operation, size) ==
            entry("unknown_instruction", operation, size, "N", << "RS", "RT" >>, << "FD" >>, MIPS_IV_Instr)
    IN     rows({\h0}, indexed("OUT_LOAD", 4)) @@ rows({\h1}, indexed("OUT_LOAD", 8))
        @@ rows({\h8}, indexed("OUT_STORE", 4)) @@ rows({\h9}, indexed("OUT_STORE", 8))
        @@ rows({\h20, \h21, \h28, \h29, \h30, \h31, \h38, \h39}, fpu(<< "FR", "FS", "FT" >>, "FD"))

isaMapMOVCI   == rows({\h0, \h1}, fpu(<< "RS", "FCSR" >>, "RD"))
isaMapMOVCF_d == rows({\h0, \h1}, fpu(<< "FS", "FCSR" >>, "FD"))
isaMapMOVCF_s == rows({\h0, \h1}, fpu(<< "FS", "FCSR" >>, "FD"))

-----------------------------------------------------------------------------
\* MIPSInstrDecoder: the fields of an instruction

field(raw, hi, lo) == unsigned(apply_mask(raw, hi, lo))
funct(raw)  == field(raw, 5, 0)
rd(raw)     == field(raw, 15, 11)
rt(raw)     == field(raw, 20, 16)
rs(raw)     == field(raw, 25, 21)
opcode(raw) == field(raw, 31, 26)

\* mips_register.def: indices in the register file
MIPS_REG_ra           == 31
MIPS_REG_hi           == 32
MIPS_REG_lo           == 33
MIPS_CP0_REG_Context0 == 34
MIPS_CP0_REG_SR       == 46
MIPS_CP0_REG_EPC      == 48
MIPS_CP1_REG_f0       == 66

get_register(raw, type) ==
    CASE type = "ZERO"   -> 0
      [] type = "HI"     -> MIPS_REG_hi
      [] type = "LO"     -> MIPS_REG_lo
      [] type = "RA"     -> MIPS_REG_ra
      [] type = "RS"     -> rs(raw)
      [] type = "RT"     -> rt(raw)
      [] type = "RD"     -> rd(raw)
      [] type = "CP0_RD" -> MIPS_CP0_REG_Context0 + rd(raw)
      [] type = "SR"     -> MIPS_CP0_REG_SR
      [] type = "EPC"    -> MIPS_CP0_REG_EPC
      [] type = "FD"     -> MIPS_CP1_REG_f0 + field(raw, 10, 6)
      [] type = "FS"     -> MIPS_CP1_REG_f0 + rd(raw)
      [] type = "FT"     -> MIPS_CP1_REG_f0 + rt(raw)
      [] type = "FR"     -> MIPS_CP1_REG_f0 + rs(raw)
      [] type = "FCSR"   -> MIPS_CP1_REG_f0 + 31

found(table, key) == IF key \in DOMAIN table THEN table[key] ELSE unknown_entry

get_opcode_special_entry(raw) ==
    IF funct(raw) = \h1 THEN found(isaMapMOVCI, rt(raw)) ELSE found(isaMapR, funct(raw))

get_COP1_s_entry(raw) ==
    IF funct(raw) = \h11 THEN found(isaMapMOVCF_s, rt(raw)) ELSE found(isaMapCOP1_s, funct(raw))

get_COP1_d_entry(raw) ==
    IF funct(raw) = \h11 THEN found(isaMapMOVCF_d, rt(raw)) ELSE found(isaMapCOP1_d, funct(raw))

get_cp0_entry(raw) ==
    IF funct(raw) = \h0 THEN found(isaMapCOP0_rs, rs(raw)) ELSE found(isaMapCOP0_funct, funct(raw))

get_cp1_entry(raw) ==
    CASE rs(raw) = \h8  -> found(isaMapCOP1I, rt(raw))
      [] rs(raw) = \h10 -> get_COP1_s_entry(raw)
      [] rs(raw) = \h11 -> get_COP1_d_entry(raw)
      [] rs(raw) = \h14 -> found(isaMapCOP1_w, funct(raw))
      [] rs(raw) = \h15 -> found(isaMapCOP1_l, funct(raw))
      [] OTHER          -> found(isaMapCOP1, rs(raw))

get_table_entry(raw) ==
    IF raw = {} THEN instr_nop
    ELSE CASE opcode(raw) = \h0  -> get_opcode_special_entry(raw)
           [] opcode(raw) = \h1  -> found(isaMapRI, rt(raw))
           [] opcode(raw) = \h10 -> get_cp0_entry(raw)
           [] opcode(raw) = \h11 -> get_cp1_entry(raw)
           [] opcode(raw) = \h13 -> found(isaMapCOP1X, funct(raw))
           [] opcode(raw) = \h1C -> found(isaMapMIPS32, funct(raw))
           [] OTHER              -> found(isaMapIJ, opcode(raw))

\* init: every jump but eret has a delay slot, unless the simulator mimics MARS.
delayed_slots(e, version) ==
    IF e.operation \in Jumps /\ version \notin {"mars", "mars64"} /\ (e.src = << >> \/ e.src[1] # "EPC") THEN 1 ELSE 0

\* BaseMIPSInstr: the decoded instruction; regs are the registers of its destinations.
BaseMIPSInstr(raw, version) ==
    LET e == get_table_entry(raw)
    IN  init(e, version)
        @@ [name |-> "", registers |-> RegisterUInt(version), delayed_slots |-> delayed_slots(e, version),
            regs |-> [i \in DOMAIN e.dst |-> get_register(raw, e.dst[i])]]
=============================================================================
