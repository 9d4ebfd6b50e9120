-------------------------------- MODULE ALU --------------------------------
(***************************************************************************)
(* The arithmetic of src/simulator/func_sim: alu.h, alu_primitives.h and   *)
(* multiplication.h.  An operator returns the value an instruction leaves  *)
(* in v_dst; its argument n is the bit width of the type T of the C++      *)
(* template, at most XLEN, the width of a register.                        *)
(***************************************************************************)
EXTENDS Integers, FiniteSets, SequencesExt, Words

CONSTANT XLEN  \* 32, 64 or 128

ASSUME XLENAssumption == XLEN \in Nat \ {0, 1} /\ \E k \in 1 .. XLEN : 2 ^ k = XLEN

shamt_v_src2(y, n) == unsigned(narrow_cast(y, log_bitwidth(n)))

-----------------------------------------------------------------------------
\* Addition

addition(x, y, n) == word(unsigned(narrow_cast(x, n)) + unsigned(narrow_cast(y, n)), n)

subtraction(x, y, n) == word(unsigned(narrow_cast(x, n)) - unsigned(narrow_cast(y, n)), n)

riscv_addition(x, y, n) == sign_extension(addition(x, y, n), n, XLEN)

riscv_subtraction(x, y, n) == sign_extension(subtraction(x, y, n), n, XLEN)

lt(x, y) == signed(x, XLEN) < signed(y, XLEN)

ltu(x, y) == unsigned(x) < unsigned(y)

is_negative(x, w) == w - 1 \in x

is_positive(x, w) == ~is_negative(x, w) /\ x # {}

\* The operands are tested at the width of a register, the result at that of T.
test_addition_overflow(x, y, n) ==
    LET result == addition(x, y, n)
    IN  \/ is_positive(x, XLEN) /\ is_positive(y, XLEN) /\ is_negative(result, n)
        \/ is_negative(x, XLEN) /\ is_negative(y, XLEN) /\ is_positive(result, n)

test_subtraction_overflow(x, y, n) ==
    LET result == subtraction(x, y, n)
    IN  \/ is_positive(x, XLEN) /\ is_negative(y, XLEN) /\ is_negative(result, n)
        \/ is_negative(x, XLEN) /\ is_positive(y, XLEN) /\ is_positive(result, n)

-----------------------------------------------------------------------------
\* Shifts

sll(x, s, n) == sign_extension(left(narrow_cast(x, n), s, XLEN), n, XLEN)

srl(x, s, n) == sign_extension(right(narrow_cast(x, n), s), n, XLEN)

arithmetic_rs(x, s, w) == IF x \cap msb_set(w) = {} THEN right(x, s) ELSE ones_rs(x, s, w)

sra(x, s, n) == arithmetic_rs(sign_extension(x, n, XLEN), s, XLEN)

slo(x, s, n) == ones_ls(sign_extension(x, n, XLEN), s, XLEN)

sro(x, s) == ones_rs(x, s, XLEN)

circ_ls(x, s, w) ==
    IF s \in {0, w} THEN x ELSE left(x, s, w) \cup right(x, w - s)

circ_rs(x, s, w) == circ_ls(x, w - s, w)

-----------------------------------------------------------------------------
\* Counts.  A word of 128 bits is counted by halves.

count_leading_zeroes(x, w) == IF x = {} THEN w ELSE w - 1 - Max(x)

count_leading_ones(x, w) == count_leading_zeroes(invert(x, w), w)

count_trailing_zeroes(x, w) == IF x = {} THEN w ELSE Min(x)

count_leading_zeroes_by_halves(x, w) ==
    LET u == unpack_to(x, w)
    IN  IF u[2] = {} THEN count_leading_zeroes(u[1], w \div 2) + w \div 2
        ELSE count_leading_zeroes(u[2], w \div 2)

count_leading_ones_by_halves(x, w) ==
    LET u == unpack_to(x, w)
    IN  IF u[2] = all_ones(w \div 2) THEN count_leading_ones(u[1], w \div 2) + w \div 2
        ELSE count_leading_ones(u[2], w \div 2)

count_trailing_zeroes_by_halves(x, w) ==
    LET u == unpack_to(x, w)
    IN  IF u[1] = {} THEN count_trailing_zeroes(u[2], w \div 2) + w \div 2
        ELSE count_trailing_zeroes(u[1], w \div 2)

-----------------------------------------------------------------------------
\* Permutations of bits, level by level

interleaved_mask(density) == {i \in all_ones(XLEN) : (i \div 2 ^ density) % 2 = 0}

shuffle_mask(density, shift) == {i \in all_ones(XLEN) : (i \div 2 ^ density) % 4 = shift}

swapped(x, level) ==
    LET even == interleaved_mask(level)
    IN  left(x \cap even, 2 ^ level, XLEN) \cup right(x \ even, 2 ^ level)

levels(count) == [i \in 1 .. count |-> i - 1]

gen_reverse(x, shamt) ==
    LET step(v, i) == IF (shamt \div 2 ^ i) % 2 = 1 THEN swapped(v, i) ELSE v
    IN  FoldLeft(step, x, levels(log_bitwidth(XLEN)))

gen_or_combine(x, shamt) ==
    LET step(v, i) == IF (shamt \div 2 ^ i) % 2 = 1 THEN v \cup swapped(v, i) ELSE v
    IN  FoldLeft(step, x, levels(log_bitwidth(XLEN)))

bit_shuffle(x, level) ==
    LET maskL == shuffle_mask(level, 2)
        maskR == shuffle_mask(level, 1)
        shamt == 2 ^ level
    IN  (x \ (maskL \cup maskR)) \cup (left(x, shamt, XLEN) \cap maskL) \cup (right(x, shamt) \cap maskR)

shuffled(x, y, order) ==
    LET step(v, i) == IF i \in y THEN bit_shuffle(v, i) ELSE v
    IN  FoldLeft(step, x, order)

riscv_unshfl(x, y) == shuffled(x, y, levels(log_bitwidth(XLEN) - 1))

\* Mutant: shuffles in the order of unshfl.
riscv_shfl_ascending(x, y) == shuffled(x, y, levels(log_bitwidth(XLEN) - 1))

riscv_shfl(x, y) == shuffled(x, y, Reverse(levels(log_bitwidth(XLEN) - 1)))

clmul(x, y, n) ==
    LET step(v, i) == IF i \in y THEN xor(v, left(x, i, XLEN)) ELSE v
    IN  FoldLeft(step, {}, levels(n))

pack(x, y, n) == (x \cap bitmask(n \div 2, n)) \cup left(y, n \div 2, XLEN)

packu(x, y, n) == right(x, n \div 2) \cup (y \cap left(bitmask(n \div 2, n), n \div 2, XLEN))

sbinv(x, y, n) == xor(x, left({0}, shamt_v_src2(y, n), n))

sbext(x, y, n) == right(x, shamt_v_src2(y, n)) \cap {0}

-----------------------------------------------------------------------------
\* Multiplication and division

is_signed_division_overflow(x, y, n) == y = -1 /\ x = -(2 ^ (n - 1))

\* C++ division rounds towards zero.
magnitude(a) == IF a < 0 THEN -a ELSE a

quotient(a, b) ==
    LET q == magnitude(a) \div magnitude(b) IN IF (a < 0) = (b < 0) THEN q ELSE -q

remainder(a, b) == a - b * quotient(a, b)

\* lo and hi of a product of two numbers of width n
mips_multiplication(a, b, n) == << word(a * b, n), word((a * b) \div 2 ^ n, n) >>

mips_division(a, b, n) ==
    IF b = 0 \/ is_signed_division_overflow(a, b, n) THEN << {}, {} >>
    ELSE << word(quotient(a, b), n), word(remainder(a, b), n) >>

riscv_multiplication_low(x, y, n) == word(unsigned(x) * unsigned(y), n)

\* Mutant: the carry of the low halves is forgotten.
riscv_multiplication_high_uu_no_carry(x, y, n) ==
    LET half  == n \div 2
        x1 == unsigned(right(x, half))
        x0 == unsigned(narrow_cast(x, half))
        y1 == unsigned(right(y, half))
        y0 == unsigned(narrow_cast(y, half))
    IN  word((x1 * y1) + ((x0 * y1) \div 2 ^ half) + ((x1 * y0) \div 2 ^ half), n)

riscv_multiplication_high_uu(x, y, n) ==
    LET half  == n \div 2
        x1 == unsigned(right(x, half))
        x0 == unsigned(narrow_cast(x, half))
        y1 == unsigned(right(y, half))
        y0 == unsigned(narrow_cast(y, half))
        low_part  == (((x0 * y0) \div 2 ^ half) + ((x0 * y1) % 2 ^ half) + ((x1 * y0) % 2 ^ half)) \div 2 ^ half
        high_part == (x1 * y1) + ((x0 * y1) \div 2 ^ half) + ((x1 * y0) \div 2 ^ half)
    IN  word(high_part + low_part, n)

absolute(x, n) == IF is_negative(x, n) THEN invert(word(unsigned(x) - 1, n), n) ELSE x

\* The upper half of minus a double word: its lower half may pass on a carry.
negated_high(hi, lo, n) ==
    IF lo = {} THEN word(unsigned(invert(hi, n)) + 1, n) ELSE invert(hi, n)

riscv_multiplication_high_ss(x, y, n) ==
    LET hi_abs == riscv_multiplication_high_uu(absolute(x, n), absolute(y, n), n)
        lo_abs == riscv_multiplication_low(absolute(x, n), absolute(y, n), n)
    IN  IF is_negative(x, n) # is_negative(y, n) THEN negated_high(hi_abs, lo_abs, n) ELSE hi_abs

riscv_multiplication_high_su(x, y, n) ==
    LET hi_abs == riscv_multiplication_high_uu(absolute(x, n), y, n)
        lo_abs == riscv_multiplication_low(absolute(x, n), y, n)
    IN  IF is_negative(x, n) THEN negated_high(hi_abs, lo_abs, n) ELSE hi_abs

riscv_division(a, b, n) ==
    IF b = 0 THEN all_ones(n)
    ELSE IF is_signed_division_overflow(a, b, n) THEN msb_set(n)
    ELSE word(quotient(a, b), n)

riscv_remainder(a, b, n) ==
    IF b = 0 THEN word(a, n)
    ELSE IF is_signed_division_overflow(a, b, n) THEN {}
    ELSE word(remainder(a, b), n)
=============================================================================
