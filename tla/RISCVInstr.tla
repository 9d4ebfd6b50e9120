----------------------------- MODULE RISCVInstr -----------------------------
(***************************************************************************)
(* The table of RISC-V instructions (risc_v/riscv_instr.cpp).  Which words *)
(* stand for which instruction is known to riscv.opcode.gen.h only, which  *)
(* is generated from another repository: an instruction is its mnemonic.   *)
(* Entries that differ in mnemonic and arithmetic only are one row.        *)
(***************************************************************************)
EXTENDS Executors

\* RISCVTableEntry::bit_width of the mnemonics that are not for every register
bit_width(name) ==
    CASE name \in {"ld", "sd", "addiw", "slliw", "srliw", "sraiw", "addw", "subw", "sllw", "sraw", "srlw",
                   "c_ldsp", "c_ld", "c_sdsp", "c_sd", "c_addiw", "c_addw", "c_subw"} -> {64, 128}
      [] name \in {"addid", "sllid", "srlid", "sraid", "c_lqsp", "c_lq", "c_sqsp", "c_sq"} -> {128}
      [] name \in {"c_addi4spn", "slo", "sro", "orn", "sbinv", "sbext", "pack", "packu", "xnor", "bfp", "grev", "pcnt",
                   "clz", "ctz", "rol", "ror", "clmul", "max", "maxu", "min", "minu", "gorc", "gorci", "rori", "shfl",
                   "sloi", "sroi"} -> {32, 64}
      [] name = "c_jal" -> {32}
      [] OTHER -> {32, 64, 128}

invalid_instr == entry("unknown_instruction", "OUT_ARITHM", 0, " ", << "ZERO", "ZERO" >>, << "ZERO" >>, {32, 64, 128})

\* Rows of the table: every mnemonic is for the widths above.
desc(names, executor, type, imm_type, src, dst, mem_size) ==
    [name \in names |-> entry(executor, type, mem_size, imm_type, src, dst, bit_width(name))]

arithm(names, executor, imm_type, src, dst) == desc(names, executor, "OUT_ARITHM", imm_type, src, << dst >>, 0)

base_jumps ==
       desc({"jal"}, "jump_and_link_j", "OUT_J_JUMP", "J", << "ZERO", "ZERO" >>, << "RD" >>, 0)
    @@ desc({"jalr"}, "jump_and_link_riscv_jr", "OUT_R_JUMP", "I", << "RS1", "ZERO" >>, << "RD" >>, 0)
    @@ desc({"beq", "bne", "blt", "bge", "bltu", "bgeu"}, "branch_2", "OUT_BRANCH", "B", << "RS1", "RS2" >>, << "ZERO" >>, 0)

base_load(name, type, size) == desc({name}, "load_addr", type, "I", << "RS1", "ZERO" >>, << "RD" >>, size)
base_store(name, size) == desc({name}, "store_addr", "OUT_STORE", "S", << "RS1", "RS2" >>, << "ZERO" >>, size)

base_accesses ==
       base_load("lb", "OUT_LOAD", 1) @@ base_load("lh", "OUT_LOAD", 2) @@ base_load("lw", "OUT_LOAD", 4)
    @@ base_load("ld", "OUT_LOAD", 8) @@ base_load("lbu", "OUT_LOADU", 1) @@ base_load("lhu", "OUT_LOADU", 2)
    @@ base_load("lwu", "OUT_LOADU", 4)
    @@ base_store("sb", 1) @@ base_store("sh", 2) @@ base_store("sw", 4) @@ base_store("sd", 8)

base_arithmetic ==
       arithm({"lui", "auipc"}, "upper_immediate", "U", << "ZERO", "ZERO" >>, "RD")
    @@ arithm({"addi", "addiw", "slti", "sltiu", "xori", "ori", "andi"}, "with_imm", "I", << "RS1", "ZERO" >>, "RD")
    @@ arithm({"slli", "srli", "srai"}, "with_imm", "7", << "RS1", "ZERO" >>, "RD")
    @@ arithm({"slliw", "srliw", "sraiw"}, "with_imm", "5", << "RS1", "ZERO" >>, "RD")
    @@ [name \in {"addid"} |-> wide(arithm({name}, "with_imm", "I", << "RS1", "ZERO" >>, "RD")[name])]
    @@ [name \in {"sllid", "srlid", "sraid"} |-> wide(arithm({name}, "with_imm", "6", << "RS1", "ZERO" >>, "RD")[name])]
    @@ arithm({"add", "sub", "sll", "sra", "srl", "addw", "subw", "sllw", "sraw", "srlw", "slt", "sltu", "and", "xor", "or"},
              "binary", " ", << "RS1", "RS2" >>, "RD")

system ==
       desc({"ecall"}, "syscall", "OUT_TRAP", " ", << "ZERO", "ZERO" >>, << "ZERO" >>, 0)
    @@ desc({"ebreak"}, "breakpoint", "OUT_TRAP", " ", << "ZERO", "ZERO" >>, << "ZERO" >>, 0)
    @@ desc({"sret"}, "jump_and_link_riscv_jr", "OUT_R_JUMP", " ", << "SEPC", "ZERO" >>, << "ZERO" >>, 0)
    @@ desc({"mret"}, "jump_and_link_riscv_jr", "OUT_R_JUMP", " ", << "MEPC", "ZERO" >>, << "ZERO" >>, 0)
    @@ desc({"csrrw"}, "csrrw", "OUT_ARITHM", " ", << "RS1", "CSR" >>, << "CSR", "RD" >>, 0)
    @@ desc({"csrrs"}, "csrrs", "OUT_ARITHM", " ", << "RS1", "CSR" >>, << "CSR", "RD" >>, 0)
    @@ desc({"csrrwi"}, "csrrwi", "OUT_ARITHM", "C", << "ZERO", "CSR" >>, << "CSR", "RD" >>, 0)
    @@ desc({"fence", "fence_i"}, "load_addr", "OUT_LOAD", "I", << "RS1", "ZERO" >>, << "ZERO" >>, 0)

multiplication ==
    arithm({"mul", "mulh", "mulhsu", "mulhu", "div", "divu", "rem", "remu"}, "binary", " ", << "RS1", "RS2" >>, "RD")

compressed_jumps ==
       desc({"c_j"}, "jump_and_link_j", "OUT_BRANCH", "C_J", << "ZERO", "ZERO" >>, << "ZERO" >>, 0)
    @@ desc({"c_jal"}, "jump_and_link_j", "OUT_BRANCH", "C_J", << "ZERO", "ZERO" >>, << "RA" >>, 0)
    @@ desc({"c_jr"}, "jump_and_link_riscv_jr", "OUT_BRANCH", " ", << "RD", "ZERO" >>, << "ZERO" >>, 0)
    @@ desc({"c_jalr"}, "jump_and_link_riscv_jr", "OUT_BRANCH", " ", << "RD", "ZERO" >>, << "RA" >>, 0)
    @@ desc({"c_beqz", "c_bnez"}, "branch_2", "OUT_BRANCH", "C_B", << "RS1_3BIT", "ZERO" >>, << "ZERO" >>, 0)

c_load(name, imm_type, src, dst, size) == desc({name}, "load_addr", "OUT_LOAD", imm_type, << src, "ZERO" >>, << dst >>, size)
c_store(name, imm_type, src, size) == desc({name}, "store_addr", "OUT_STORE", imm_type, src, << "ZERO" >>, size)

compressed_accesses ==
       c_load("c_lwsp", "C_LWSP", "SP", "RD", 4) @@ c_load("c_ldsp", "C_LDSP", "SP", "RD", 8)
    @@ c_load("c_lqsp", "C_LQSP", "SP", "RD", 16)
    @@ c_load("c_lw", "C_LW", "RS1_3BIT", "RD_3BIT", 4) @@ c_load("c_ld", "C_LD", "RS1_3BIT", "RD_3BIT", 8)
    @@ c_load("c_lq", "C_LQ", "RS1_3BIT", "RD_3BIT", 16)
    @@ c_store("c_swsp", "C_SWSP", << "SP", "RS2_CMP" >>, 4) @@ c_store("c_sdsp", "C_SDSP", << "SP", "RS2_CMP" >>, 8)
    @@ c_store("c_sqsp", "C_SQSP", << "SP", "RS2_CMP" >>, 16)
    @@ c_store("c_sw", "C_LW", << "RS1_3BIT", "RS2_3BIT" >>, 4) @@ c_store("c_sd", "C_LD", << "RS1_3BIT", "RS2_3BIT" >>, 8)
    @@ c_store("c_sq", "C_LQ", << "RS1_3BIT", "RS2_3BIT" >>, 16)

compressed_arithmetic ==
       arithm({"c_nop"}, "binary", " ", << "ZERO", "ZERO" >>, "ZERO")
    @@ arithm({"c_addi16sp"}, "with_imm", "C_ADDI16SP", << "SP", "ZERO" >>, "SP")
    @@ arithm({"c_addi", "c_addiw"}, "with_imm", "C_I", << "RD", "ZERO" >>, "RD")
    @@ arithm({"c_srli", "c_srai"}, "with_imm", "C_S", << "RS1_3BIT", "ZERO" >>, "RS1_3BIT")
    @@ arithm({"c_slli"}, "with_imm", "C_S", << "RD", "ZERO" >>, "RD")
    @@ arithm({"c_addi4spn"}, "with_imm", "C_ADDI4SPN", << "SP", "ZERO" >>, "RD_3BIT")
    @@ arithm({"c_li"}, "with_imm", "C_I", << "ZERO", "ZERO" >>, "RD")
    @@ arithm({"c_lui"}, "upper_immediate", "C_I", << "ZERO", "ZERO" >>, "RD")
    @@ arithm({"c_andi"}, "with_imm", "C_I", << "RS1_3BIT", "ZERO" >>, "RS1_3BIT")
    @@ arithm({"c_sub", "c_addw", "c_subw", "c_xor", "c_or", "c_and"}, "binary", " ", << "RS1_3BIT", "RS2_3BIT" >>, "RS1_3BIT")
    @@ arithm({"c_mv"}, "binary", " ", << "ZERO", "RS2_CMP" >>, "RD")
    @@ arithm({"c_add"}, "binary", " ", << "RD", "RS2_CMP" >>, "RD")
    @@ desc({"c_ebreak"}, "breakpoint", "OUT_BREAK", " ", << "ZERO", "ZERO" >>, << "ZERO" >>, 0)

bit_manipulation ==
       arithm({"slo", "sro", "orn", "sbinv", "sbext", "pack", "packu", "xnor", "bfp", "grev", "rol", "ror", "clmul",
               "max", "maxu", "min", "minu", "gorc", "unshfl", "shfl"}, "binary", " ", << "RS1", "RS2" >>, "RD")
    @@ arithm({"pcnt"}, "unary", " ", << "RS1", "RS2" >>, "RD")
    @@ arithm({"clz", "ctz"}, "unary", " ", << "RS1", "ZERO" >>, "RD")
    @@ arithm({"gorci", "rori", "sloi", "sroi"}, "with_imm", "7", << "RS1", "ZERO" >>, "RD")

cmd_desc ==
    base_jumps @@ base_accesses @@ base_arithmetic @@ system @@ multiplication
        @@ compressed_jumps @@ compressed_accesses @@ compressed_arithmetic @@ bit_manipulation

\* check_mask_and_type: a word that registers of this width do not have is not found.
find_entry(name, width) ==
    IF name \in DOMAIN cmd_desc /\ width \in bit_width(name) THEN cmd_desc[name] ELSE invalid_instr

\* RISCVInstr: the decoded instruction
RISCVInstr(name, width) ==
    find_entry(name, width) @@ [name |-> name, registers |-> width, delayed_slots |-> 0, regs |-> << >>]
=============================================================================
