------------------------------ MODULE MCArith ------------------------------
(***************************************************************************)
(* Registers of eight bits, words of four: every value of the first operand*)
(* and edge values of the second; every single bit and every pair of bits  *)
(* of an instruction word, and words with one zero.                        *)
(***************************************************************************)
EXTENDS Arith

AllWords == SUBSET all_ones(XLEN)

\* 0, 1, 2, 3, 7, 8, 9, 16, 85, 127, 128, 129, 170, 240, 248, 254 and 255: the edges of both widths.
EdgeWords == {word(v, XLEN) : v \in {0, 1, 2, 3, 7, 8, 9, 16, 85, 127, 128, 129, 170, 240, 248, 254, 255}}

SmallWords == {word(v, XLEN) : v \in 0 .. XLEN - 1}

ByAmount == {"sll", "srl", "sra", "slo", "sro", "rol", "ror", "grev", "gorc", "shfl", "unshfl", "sbinv", "sbext"}

ByNumber == {"add", "sub", "addw", "subw", "clmul", "pack", "packu", "mul", "mulhu", "mulh", "mulhsu",
             "div", "divu", "rem", "remu", "mips_div", "mips_divu", "movn", "movz",
             "and", "or", "xor", "nor", "orn", "xnor", "slt", "sltu", "max", "maxu", "min", "minu"}

Unary == {"clz", "clo", "ctz", "pcnt", "csrrw", "csrrs"}

AllOperands ==
    [op \in ByAmount \cup ByNumber \cup Unary |->
        CASE op \in ByAmount -> AllWords \X SmallWords
          [] op \in ByNumber -> AllWords \X EdgeWords
          [] op \in Unary    -> AllWords \X {{}}]

MACFactors == {word(v, WORD) : v \in {0, 1, 7, 8, 15}}

AllRaws == {{i, j} : i, j \in 0 .. 31} \cup {(0 .. 31) \ {i} : i \in 0 .. 31} \cup {{}, 0 .. 31}

\* Words of MIPS: every opcode, and every further key that the decoder looks at for it.
Encoded(o, s, t, d, f) == left(word(o, 6), 26, 32) \cup left(word(s, 5), 21, 32) \cup left(word(t, 5), 16, 32)
                              \cup left(word(d, 5), 11, 32) \cup word(f, 6)
AllMIPS ==
    {Encoded(o, 9, 2, 14, 0) : o \in 0 .. 63}
    \cup {Encoded(o, 9, t, d, f) : o \in {0, 19, 28}, t \in {0, 1, 2}, d \in {0, 14}, f \in 0 .. 63}
    \cup {Encoded(1, 9, t, 14, 0) : t \in 0 .. 31}
    \cup {Encoded(16, s, 2, d, f) : s \in 0 .. 31, d \in {0, 14}, f \in {0, 2, 24}}
    \cup {Encoded(17, s, t, 14, f) : s \in 0 .. 31, t \in 0 .. 4, f \in {0, 3, 17, 32, 33, 48}}
    \cup {Encoded(17, s, 3, 14, f) : s \in {16, 17}, f \in 0 .. 63}
    \cup {{}}

(***************************************************************************)
(* Where the instruction sets put an immediate: for every bit of it, from  *)
(* bit 0 on, the bit of the instruction, or -1 for none.                   *)
(***************************************************************************)
Layout ==
    [I |-> [k \in 0 .. 11 |-> 20 + k],
     S |-> [k \in 0 .. 11 |-> IF k < 5 THEN 7 + k ELSE 20 + k],
     B |-> << -1, 8, 9, 10, 11, 25, 26, 27, 28, 29, 30, 7, 31 >>,
     U |-> [k \in 0 .. 19 |-> 12 + k],
     J |-> << -1, 21, 22, 23, 24, 25, 26, 27, 28, 29, 30, 20, 12, 13, 14, 15, 16, 17, 18, 19, 31 >>,
     C |-> [k \in 0 .. 4 |-> 15 + k],
     C_LWSP |-> << -1, -1, 4, 5, 6, 12, 2, 3 >>,
     C_LDSP |-> << -1, -1, -1, 5, 6, 12, 2, 3, 4 >>,
     C_LQSP |-> << -1, -1, -1, -1, 6, 12, 2, 3, 4, 5 >>,
     C_SWSP |-> << -1, -1, 9, 10, 11, 12, 7, 8 >>,
     C_SDSP |-> << -1, -1, -1, 10, 11, 12, 7, 8, 9 >>,
     C_SQSP |-> << -1, -1, -1, -1, 11, 12, 7, 8, 9, 10 >>,
     C_LW |-> << -1, -1, 6, 10, 11, 12, 5 >>,
     C_LD |-> << -1, -1, -1, 10, 11, 12, 5, 6 >>,
     C_LQ |-> << -1, -1, -1, -1, 11, 12, 5, 6, 10 >>,
     C_I |-> << 2, 3, 4, 5, 6, 12 >>,
     C_S |-> << 2, 3, 4, 5, 6, 12 >>,
     C_J |-> << -1, 3, 4, 5, 11, 2, 7, 6, 9, 10, 8, 12 >>,
     C_B |-> << -1, 3, 4, 10, 11, 2, 5, 6, 12 >>,
     C_ADDI4SPN |-> << -1, -1, 6, 5, 11, 12, 7, 8, 9, 10 >>,
     C_ADDI16SP |-> << -1, -1, -1, -1, 6, 2, 5, 3, 4, 12 >>,
     mips_S |-> [k \in 0 .. 4 |-> 6 + k],
     mips_J |-> [k \in 0 .. 25 |-> k],
     mips_I |-> [k \in 0 .. 15 |-> k],
     mips_L |-> [k \in 0 .. 15 |-> k]]

Signed == {"I", "S", "B", "U", "J", "C_I", "C_J", "C_B", "C_ADDI16SP", "mips_I"}

\* Shift amounts have as many bits as a register needs.
Amount == {"5", "6", "7"}

\* The bits of an immediate, from 0 on, and the number it stands for.
Immediate(type, raw) ==
    IF type \in Amount THEN unsigned({k \in 0 .. 4 : 20 + k \in raw})
    ELSE LET l    == Layout[type]
             base == Min(DOMAIN l)
             top  == Max(DOMAIN l) - base
             bits == {k \in 0 .. top : l[k + base] \in raw}
         IN  unsigned(bits \ {top}) + (IF top \notin bits THEN 0 ELSE IF type \in Signed THEN -(2 ^ top) ELSE 2 ^ top)

Near(type, distance) ==
    CASE type = "B" -> distance \in -(2 ^ 11) .. 2 ^ 11 - 1
      [] type = "J" -> -(2 ^ 19) <= distance /\ distance < 2 ^ 19
      [] OTHER      -> TRUE

(***************************************************************************)
(* Every immediate is put together from the bits and extended with the     *)
(* sign that the instruction set gives it, and a branch or direct jump     *)
(* goes where it says.  Branches and jumps of RISC-V only if they stay     *)
(* within half of their reach: get_immediate and init_target extend the    *)
(* sign from bit 11 of 13 and from bit 19 of 21.                           *)
(***************************************************************************)
ImmediatesDecode ==
    decoded.op = "decode" =>
        LET type == decoded.type
            isa  == Immediate(type, decoded.raw)
        IN  Near(type, isa) =>
                /\ signed(decoded.v_imm, RLEN) = isa
                /\ type \in {"B", "C_B", "C_J", "J"} => target_offset(type, decoded.v_imm) = isa
                /\ type = "mips_I" => target_offset(type, decoded.v_imm) = 4 + 4 * isa
                /\ type = "mips_J" => target_offset(type, decoded.v_imm) = 4 * isa
=============================================================================
