------------------------------- MODULE Arith -------------------------------
(***************************************************************************)
(* What single instructions compute (func_sim/alu.h and multiplication.h), *)
(* write to the registers (func_sim/rf/rf.h), carry as immediates (Decoder)*)
(* and are for the rest of the simulator (MIPSInstr, RISCVInstr).  A       *)
(* behaviour is one decoded instruction, or one executed instruction, or   *)
(* any run of multiplications that accumulate in HI and LO.                *)
(* A word of 32 bits has WORD bits here, a register XLEN: the instances of *)
(* the templates for uint32 in a simulator of 64-bit registers.            *)
(***************************************************************************)
EXTENDS ALU, MIPSInstr, RISCVInstr

CONSTANTS
    WORD,       \* bits of a uint32
    Operands,   \* op -> the pairs of operands it is executed on
    Factors,    \* the operands of the multiplications that accumulate
    Raws,       \* the instruction words whose immediates are decoded
    MIPSRaws    \* the instruction words of MIPS that are looked up

ASSUME WordAssumption == WORD \in Nat /\ WORD < XLEN

VARIABLES
    rf,       \* RF::array: the registers that an instruction writes
    instr,    \* the executed instruction: operation, width, operands, trap
    decoded,  \* the decoded instruction: raw bytes and type of immediate
    sum       \* the sum of the products since the last mult, not in the code

vars == << rf, instr, decoded, sum >>

NoInstr == [op |-> "none"]

NO_VAL32 == all_ones(WORD)

-----------------------------------------------------------------------------
\* The register file

write_masked(regs, num, val, mask) ==
    IF num = "zero" THEN regs ELSE [regs EXCEPT ![num] = (@ \ mask) \cup (val \cap mask)]

\* Mutant: a borrow also when the operands are equal.
accumulate_borrowing(regs, num, val, accumulation) ==
    LET x == unsigned(narrow_cast(regs[num], WORD))
        y == unsigned(narrow_cast(val, WORD))
    IN  CASE accumulation = 1  -> << word(x + y, WORD), unsigned(all_ones(WORD)) - x < y >>
          [] accumulation = -1 -> << word(x - y, WORD), x <= y >>
          [] OTHER             -> << val, FALSE >>

\* The new value and whether it carries, both of 32 bits.
accumulate(regs, num, val, accumulation) ==
    LET x == unsigned(narrow_cast(regs[num], WORD))
        y == unsigned(narrow_cast(val, WORD))
    IN  CASE accumulation = 1  -> << word(x + y, WORD), unsigned(all_ones(WORD)) - x < y >>
          [] accumulation = -1 -> << word(x - y, WORD), x < y >>
          [] OTHER             -> << val, FALSE >>

carry(regs, mask, accumulation) ==
    write_masked(regs, "hi", accumulate(regs, "hi", {0}, accumulation)[1], mask)

write(regs, num, val, mask, accumulation) ==
    IF num = "zero" THEN regs
    ELSE LET a == accumulate(regs, num, val, accumulation)
         IN  write_masked(IF num = "lo" /\ a[2] THEN carry(regs, mask, accumulation) ELSE regs, num, a[1], mask)

write_dst(regs, dst, v_dst, mask, accumulation) ==
    write(write(regs, dst[1], v_dst[1], mask, accumulation), dst[2], v_dst[2], all_ones(XLEN), accumulation)

-----------------------------------------------------------------------------
\* ALU: what an executor leaves in v_dst, mask and trap.

plain(value) == [v_dst |-> << value, NO_VAL32 >>, mask |-> all_ones(XLEN), trap |-> "NO_TRAP"]

two(values) == [plain({}) EXCEPT !.v_dst = values]

checked(value, overflow) ==
    IF overflow THEN [plain(NO_VAL32) EXCEPT !.trap = "INTEGER_OVERFLOW"] ELSE plain(value)

moved(x, condition) == IF condition THEN plain(x) ELSE [plain(x) EXCEPT !.mask = {}]

executed(op, n, x, y) ==
    LET s  == shamt_v_src2(y, n)
        a  == narrow_cast(x, n)
        b  == narrow_cast(y, n)
    IN  CASE op = "add"    -> checked(addition(x, y, n), test_addition_overflow(x, y, n))
          [] op = "sub"    -> checked(subtraction(x, y, n), test_subtraction_overflow(x, y, n))
          [] op = "addw"   -> plain(riscv_addition(x, y, n))
          [] op = "subw"   -> plain(riscv_subtraction(x, y, n))
          [] op = "sll"    -> plain(sll(x, s, n))
          [] op = "srl"    -> plain(srl(x, s, n))
          [] op = "sra"    -> plain(sra(x, s, n))
          [] op = "slo"    -> plain(slo(x, s, n))
          [] op = "sro"    -> plain(sro(x, s))
          [] op = "rol"    -> plain(circ_ls(x, s, XLEN))
          [] op = "ror"    -> plain(circ_rs(x, s, XLEN))
          [] op = "grev"   -> plain(gen_reverse(x, s))
          [] op = "gorc"   -> plain(gen_or_combine(x, s))
          [] op = "shfl"   -> plain(riscv_shfl(x, y))
          [] op = "unshfl" -> plain(riscv_unshfl(x, y))
          [] op = "clmul"  -> plain(clmul(x, y, n))
          [] op = "pack"   -> plain(pack(x, y, n))
          [] op = "packu"  -> plain(packu(x, y, n))
          [] op = "sbinv"  -> plain(sbinv(x, y, n))
          [] op = "sbext"  -> plain(sbext(x, y, n))
          [] op = "clz"    -> plain(word(count_leading_zeroes(a, n), XLEN))
          [] op = "clo"    -> plain(word(count_leading_ones(a, n), XLEN))
          [] op = "ctz"    -> plain(word(count_trailing_zeroes(a, n), XLEN))
          [] op = "pcnt"   -> plain(word(Cardinality(x), n))
          [] op = "and"    -> plain(x \cap y)
          [] op = "or"     -> plain(x \cup y)
          [] op = "xor"    -> plain(xor(x, y))
          [] op = "nor"    -> plain(invert(x \cup y, XLEN))
          [] op = "orn"    -> plain(x \cup invert(y, XLEN))
          [] op = "xnor"   -> plain(xor(x, invert(y, XLEN)))
          [] op = "max"    -> plain(IF lt(x, y) THEN y ELSE x)
          [] op = "maxu"   -> plain(IF ltu(x, y) THEN y ELSE x)
          [] op = "min"    -> plain(IF lt(x, y) THEN x ELSE y)
          [] op = "minu"   -> plain(IF ltu(x, y) THEN x ELSE y)
          [] op = "slt"    -> plain(IF lt(x, y) THEN {0} ELSE {})
          [] op = "sltu"   -> plain(IF ltu(x, y) THEN {0} ELSE {})
          [] op = "mul"    -> plain(riscv_multiplication_low(x, y, n))
          [] op = "mulhu"  -> plain(riscv_multiplication_high_uu(x, y, n))
          [] op = "mulh"   -> plain(riscv_multiplication_high_ss(x, y, n))
          [] op = "mulhsu" -> plain(riscv_multiplication_high_su(x, y, n))
          [] op = "div"    -> plain(riscv_division(signed(a, n), signed(b, n), n))
          [] op = "divu"   -> plain(riscv_division(unsigned(a), unsigned(b), n))
          [] op = "rem"    -> plain(riscv_remainder(signed(a, n), signed(b, n), n))
          [] op = "remu"   -> plain(riscv_remainder(unsigned(a), unsigned(b), n))
          [] op = "mips_div"  -> two(mips_division(signed(a, n), signed(b, n), n))
          [] op = "mips_divu" -> two(mips_division(unsigned(a), unsigned(b), n))
          [] op = "movn"   -> moved(x, y # {})
          [] op = "movz"   -> moved(x, y = {})
          [] op = "csrrw"  -> two(<< x, y >>)
          [] op = "csrrs"  -> [two(<< all_ones(XLEN), y >>) EXCEPT !.mask = x]

dst(op) == CASE op \in {"mips_div", "mips_divu"} -> << "lo", "hi" >>
             [] op \in {"csrrw", "csrrs"}        -> << "csr", "rd" >>
             [] OTHER                            -> << "rd", "zero" >>

\* Operations that are instantiated for uint32 as well.
Narrow == {"add", "sub", "addw", "subw", "sll", "srl", "sra", "clz", "clo", "mips_div", "mips_divu"}

widths(op) == {XLEN} \cup IF op \in Narrow THEN {WORD} ELSE {}

-----------------------------------------------------------------------------
Init ==
    /\ rf \in {[rd |-> {0, 2}, lo |-> {}, hi |-> {}, csr |-> c] : c \in {{}, {1, 2}}}
    /\ instr = NoInstr
    /\ decoded = NoInstr
    /\ sum = 0

Execute(op) ==
    /\ instr = NoInstr /\ decoded = NoInstr /\ sum = 0
    /\ \E n \in widths(op), pair \in Operands[op] :
         LET x == pair[1]
             y == IF op \in {"csrrw", "csrrs"} THEN rf.csr ELSE pair[2]
             e == executed(op, n, x, y)
         IN  /\ instr' = [op |-> op, n |-> n, x |-> x, y |-> y, trap |-> e.trap]
             /\ rf' = write_dst(rf, dst(op), e.v_dst, e.mask, 0)
    /\ UNCHANGED << decoded, sum >>

\* mult, madd and msub, signed or not
Accumulate(accumulation, is_signed) ==
    /\ instr = NoInstr /\ decoded = NoInstr
    /\ \E x, y \in Factors :
         LET a == IF is_signed THEN signed(x, WORD) ELSE unsigned(x)
             b == IF is_signed THEN signed(y, WORD) ELSE unsigned(y)
         IN  /\ rf' = write_dst(rf, << "lo", "hi" >>, mips_multiplication(a, b, WORD), all_ones(XLEN), accumulation)
             /\ sum' = (CASE accumulation = 0  -> a * b
                          [] accumulation = 1  -> sum + a * b
                          [] accumulation = -1 -> sum - a * b) % 2 ^ (2 * WORD)
    /\ UNCHANGED << instr, decoded >>

Decode(type) ==
    /\ instr = NoInstr /\ decoded = NoInstr /\ sum = 0
    /\ \E raw \in Raws : decoded' = [op |-> "decode", type |-> type, raw |-> raw, v_imm |-> v_imm(type, raw)]
    /\ UNCHANGED << rf, instr, sum >>

DecodeMIPS(version) ==
    /\ instr = NoInstr /\ decoded = NoInstr /\ sum = 0
    /\ \E raw \in MIPSRaws : decoded' = [op |-> "lookup"] @@ BaseMIPSInstr(raw, version)
    /\ UNCHANGED << rf, instr, sum >>

DecodeRISCV(width) ==
    /\ instr = NoInstr /\ decoded = NoInstr /\ sum = 0
    /\ \E name \in DOMAIN cmd_desc \cup {"unknown"} : decoded' = [op |-> "lookup"] @@ RISCVInstr(name, width)
    /\ UNCHANGED << rf, instr, sum >>

Types == {"I", "5", "6", "7", "B", "S", "U", "J", "C", "C_LWSP", "C_LDSP", "C_LQSP", "C_SWSP", "C_SDSP", "C_SQSP",
          "C_LW", "C_LD", "C_LQ", "C_I", "C_S", "C_J", "C_B", "C_ADDI4SPN", "C_ADDI16SP",
          "mips_S", "mips_J", "mips_I", "mips_L"}

Next == \/ \E op \in DOMAIN Operands : Execute(op)
        \/ \E accumulation \in {-1, 0, 1}, is_signed \in BOOLEAN : Accumulate(accumulation, is_signed)
        \/ \E type \in Types : Decode(type)
        \/ \E version \in Versions : DecodeMIPS(version)
        \/ \E width \in {32, 64, 128} : DecodeRISCV(width)

Spec == Init /\ [][Next]_vars
-----------------------------------------------------------------------------
\* Properties

(***************************************************************************)
(* However often products are added to and subtracted from HI and LO, the  *)
(* pair holds their sum: the carry that RF::write passes from LO to HI     *)
(* before it writes HI neither gets lost nor counts twice (rf.h).          *)
(***************************************************************************)
AccumulatesExactly ==
    instr = NoInstr => unsigned(rf.hi) * 2 ^ WORD + unsigned(rf.lo) = sum

Is(ops) == instr.op \in ops

\* r is the remainder that goes with the quotient q of a by b, rounded to zero.
Divides(a, b, q, r) == a = b * q + r /\ magnitude(r) < magnitude(b) /\ (r = 0 \/ (r < 0) = (a < 0))

AddsExactly(x, y, n) ==
    LET exact == IF instr.op = "add" THEN signed(x, XLEN) + signed(y, XLEN) ELSE signed(x, XLEN) - signed(y, XLEN)
        least == -(2 ^ (n - 1))
        missed == \/ instr.op = "add" /\ signed(x, XLEN) = least /\ signed(y, XLEN) = least
                  \/ instr.op = "sub" /\ x = {} /\ signed(y, XLEN) = least
    IN  IF least <= exact /\ exact < -least THEN instr.trap = "NO_TRAP" /\ rf.rd = word(exact, n)
        ELSE missed \/ instr.trap = "INTEGER_OVERFLOW"

\* The order of two words, told by the highest bit in which they differ.
Precedes(op, x, y) ==
    x # y /\ LET top == Max(xor(x, y)) IN (top \in y) = (top # XLEN - 1 \/ op = "sltu")
Bounds(op, v, x, y) ==
    LET order == IF op \in {"minu", "maxu"} THEN "sltu" ELSE "slt"
    IN  /\ v \in {x, y}
        /\ \A z \in {x, y} : IF op \in {"min", "minu"} THEN ~Precedes(order, z, v) ELSE ~Precedes(order, v, z)

DividesExactly(op, a, b, n) ==
    LET q == IF op = "mips_div" THEN signed(rf.lo, n) ELSE signed(rf.rd, n)
        r == IF op = "mips_div" THEN signed(rf.hi, n) ELSE signed(rf.rd, n)
        overflow == a = -(2 ^ (n - 1)) /\ b = -1
    IN  CASE b = 0 -> \/ op = "mips_div"
                      \/ op = "div" /\ q = -1
                      \/ op = "rem" /\ r = a
          [] overflow -> \/ op = "mips_div"
                         \/ op = "div" /\ q = a
                         \/ op = "rem" /\ r = 0
          [] OTHER -> CASE op = "div" -> Divides(a, b, q, a - b * q)
                        [] op = "rem" -> r = remainder(a, b) /\ Divides(a, b, quotient(a, b), r)
                        [] op = "mips_div" -> Divides(a, b, q, r)

(***************************************************************************)
(* Sums, products, quotients, remainders and comparisons are those of the  *)
(* numbers that the registers stand for. The upper half of a product,      *)
(* which the code puts together from products of halves and then negates,  *)
(* is that of the true product for every sign. An addition or subtraction  *)
(* of operands of its width traps exactly if the result does not fit, but  *)
(* for the two cases that test_addition_overflow and                       *)
(* test_subtraction_overflow miss because one of the values is 0: twice    *)
(* the least number, and 0 minus it.                                       *)
(***************************************************************************)
ArithmeticIsExact ==
    instr # NoInstr =>
        LET x == instr.x
            y == instr.y
            n == instr.n
            fits(v) == v = sign_extension(v, n, XLEN)
        IN  /\ Is({"add", "sub"}) /\ fits(x) /\ fits(y) => AddsExactly(x, y, n)
            /\ Is({"slt", "sltu"}) => Precedes(instr.op, x, y) = (rf.rd = {0})
            /\ Is({"min", "minu", "max", "maxu"}) => Bounds(instr.op, rf.rd, x, y)
            /\ Is({"addw"}) => signed(rf.rd, XLEN) = signed(word(signed(x, XLEN) + signed(y, XLEN), n), n)
            /\ Is({"subw"}) => signed(rf.rd, XLEN) = signed(word(signed(x, XLEN) - signed(y, XLEN), n), n)
            /\ Is({"mul"})    => rf.rd = word(signed(x, n) * signed(y, n), n)
            /\ Is({"mulhu"})  => unsigned(rf.rd) = (unsigned(x) * unsigned(y)) \div 2 ^ n
            /\ Is({"mulh"})   => signed(rf.rd, n) = (signed(x, n) * signed(y, n)) \div 2 ^ n
            /\ Is({"mulhsu"}) => signed(rf.rd, n) = (signed(x, n) * unsigned(y)) \div 2 ^ n
            /\ Is({"div", "rem", "mips_div"}) =>
                 DividesExactly(instr.op, signed(narrow_cast(x, n), n), signed(narrow_cast(y, n), n), n)
            /\ Is({"divu"}) /\ y # {} => unsigned(rf.rd) = unsigned(x) \div unsigned(y)
            /\ Is({"remu"}) /\ y # {} => unsigned(rf.rd) = unsigned(x) % unsigned(y)

\* The index that a permutation with control k gives to index i.
xor_index(i, k) == unsigned(xor(word(i, XLEN), word(k, XLEN)))

(***************************************************************************)
(* Shifts multiply and divide by powers of two, rounding down, and extend  *)
(* the sign of a 32-bit result; rotations and the permutations that the    *)
(* code performs level by level bring every bit where the definition of    *)
(* the instruction wants it; unshfl undoes shfl; a carry-less product has  *)
(* the parity of the pairs of ones in every place; csrrs sets the bits of   *)
(* the mask in the control register and returns what it held; and counts   *)
(* of a word by halves, as for 128 bits, agree with those of the word.     *)
(***************************************************************************)
BitsArePlaced ==
    instr # NoInstr =>
        LET x == instr.x
            y == instr.y
            n == instr.n
            s == shamt_v_src2(y, n)
            a == narrow_cast(x, n)
            half == n \div 2
        IN  /\ Is({"sll"}) => signed(rf.rd, XLEN) = signed(word(unsigned(a) * 2 ^ s, n), n)
            /\ Is({"srl"}) => signed(rf.rd, XLEN) = signed(word(unsigned(a) \div 2 ^ s, n), n)
            /\ Is({"sra"}) => signed(rf.rd, XLEN) = signed(a, n) \div 2 ^ s
            /\ Is({"slo"}) => rf.rd = word((unsigned(x) + 1) * 2 ^ s - 1, n)
            /\ Is({"sro"}) => unsigned(rf.rd) = 2 ^ n - 1 - ((2 ^ n - 1 - unsigned(x)) \div 2 ^ s)
            /\ Is({"rol"}) => rf.rd = {(b + s) % n : b \in x}
            /\ Is({"ror"}) => rf.rd = {(b + n - s) % n : b \in x}
            /\ Is({"grev"}) => rf.rd = {xor_index(b, s) : b \in x}
            /\ Is({"gorc"}) => rf.rd = {xor_index(b, k) : b \in x, k \in {unsigned(t) : t \in SUBSET word(s, n)}}
            /\ Is({"shfl"}) => riscv_unshfl(rf.rd, y) = x
            /\ Is({"unshfl"}) => riscv_shfl(rf.rd, y) = x
            /\ Is({"shfl"}) /\ all_ones(log_bitwidth(n) - 1) \subseteq y =>
                 rf.rd = {IF b < half THEN 2 * b ELSE 2 * (b - half) + 1 : b \in x}
            /\ Is({"clmul"}) =>
                 rf.rd = {k \in all_ones(n) : Cardinality({i \in x : k - i \in y}) % 2 = 1}
            /\ Is({"pack"})  => unsigned(rf.rd) = (unsigned(x) % 2 ^ half) + (unsigned(y) % 2 ^ half) * 2 ^ half
            /\ Is({"packu"}) => unsigned(rf.rd) = (unsigned(x) \div 2 ^ half) + (unsigned(y) \div 2 ^ half) * 2 ^ half
            /\ Is({"sbinv"}) => (s \in rf.rd) # (s \in x) /\ rf.rd \ {s} = x \ {s}
            /\ Is({"csrrs"}) => rf.rd = y /\ rf.csr = x \cup y
            /\ Is({"clz"}) => unsigned(rf.rd) = count_leading_zeroes_by_halves(a, n)
            /\ Is({"clo"}) => unsigned(rf.rd) = count_leading_ones_by_halves(a, n)
            /\ Is({"ctz"}) => unsigned(rf.rd) = count_trailing_zeroes_by_halves(a, n)

\* RISC-V: jumps to a register that are classed as branches, and an instruction that sets
\* bits of a register and is classed as arithmetic.
RegisterBranches == {"c_jr", "c_jalr"}
MaskedArithmetic == {"csrrs"}

\* The stages that the class of an instruction sends it through do what its executor needs.
GoesWhereNeeded(in, e) ==
    /\ (e.does = "address") = (in.operation \in Accesses)
    /\ (e.does = "trap") = (in.operation \in {"OUT_TRAP", "OUT_SYSCALL", "OUT_BREAK"})
    /\ (e.does \in {"to target", "to register"}) = (in.operation \in Jumps)
    /\ in.operation \in Branches \cup {"OUT_J_JUMP"} /\ in.name \notin RegisterBranches =>
         e.does = "to target" /\ in.imm_type \in {"I", "J", "B", "C_B", "C_J"}
    /\ in.operation = "OUT_R_JUMP" => e.does = "to register"
    /\ in.delayed_slots > 0 => in.operation \in Jumps /\ in.executor # "eret"

\* What it reads and writes is what the scoreboard and the register file are told.
NamesItsRegisters(in, e) ==
    /\ e.reads <= Len(in.src)
    /\ e.results = 0 /\ in.operation \notin Loads => in.dst = << "ZERO" >>
    /\ Len(in.dst) = 2 => e.results = 2
    /\ in.operation \in Accumulations \cup {"OUT_DIVMULT"} => in.dst = << "LO", "HI" >> /\ e.results = 2
    /\ \A i \in DOMAIN in.regs : in.regs[i] \in {MIPS_REG_lo, MIPS_REG_hi} => in.dst[i] \in {"LO", "HI"}
    /\ e.masks => ~Bypassible(in.operation) \/ in.name \in MaskedArithmetic
    /\ e.uses_imm => in.imm_type \notin {"N", " "} \/ in.executor = "jump_and_link_riscv_jr"

FitsInRegisters(in) == in.bits <= in.registers /\ 8 * in.mem_size <= in.registers

(***************************************************************************)
(* Whatever word is decoded for whatever version, the row it is found in   *)
(* agrees with itself: an instruction that the simulator executes has the  *)
(* class that its executor needs.  Addresses are computed exactly for loads*)
(* and stores, targets for jumps; branches and direct jumps go where the   *)
(* decode stage expects them; results have a destination, the two of a     *)
(* multiplication LO before HI, as RF::write_dst needs them to carry; what *)
(* is merged with the old value of a register is not bypassed; and no      *)
(* version executes what its registers are too small for.  Exceptions, as  *)
(* the tables have them: c.jr and c.jalr are branches, csrrs is bypassed,  *)
(* fences are loads of no bytes.                                           *)
(***************************************************************************)
ClassFitsExecutor ==
    decoded.op = "lookup" /\ decoded.executor # "unknown_instruction" =>
        LET e == effects[decoded.executor]
        IN  /\ GoesWhereNeeded(decoded, e)
            /\ NamesItsRegisters(decoded, e)
            /\ FitsInRegisters(decoded)
            /\ (decoded.mem_size = 0) = (e.does # "address" \/ decoded.name \in {"fence", "fence_i"})
=============================================================================
