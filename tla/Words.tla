------------------------------- MODULE Words -------------------------------
(***************************************************************************)
(* Machine words (src/simulator/infra/macro.h).  A word is the set of the  *)
(* positions of its ones, so that & | ^ ~ << >> are operations on sets and *)
(* a word of any width fits in TLC; the last argument w of an operator is  *)
(* the width of the C++ type it is instantiated with.                      *)
(***************************************************************************)
LOCAL INSTANCE Integers
LOCAL INSTANCE FiniteSetsExt

all_ones(w) == 0 .. w - 1

msb_set(w) == {w - 1}

log_bitwidth(w) == CHOOSE k \in 0 .. w : 2 ^ k = w

invert(x, w) == all_ones(w) \ x

xor(x, y) == SymDiff(x, y)

left(x, n, w) == {b + n : b \in x} \cap all_ones(w)

right(x, n) == {b - n : b \in {c \in x : c >= n}}

\* The number a word stands for, without and with a sign.
unsigned(x) == MapThenSumSet(LAMBDA b : 2 ^ b, x)

signed(x, w) == IF w - 1 \in x THEN -1 - unsigned(invert(x, w)) ELSE unsigned(x)

\* The word of width w that a number is reduced to.
word(n, w) == {b \in all_ones(w) : (n \div 2 ^ b) % 2 = 1}

narrow_cast(x, w) == x \cap all_ones(w)

ones_ls(x, n, w) == invert(left(invert(x, w), n, w), w)

ones_rs(x, n, w) == invert(right(invert(x, w), n), w)

bitmask(n, w) == IF n = w THEN all_ones(w) ELSE ones_ls({}, n, w)

\* x - 2^k: the borrow runs up to the first one at or above k.
minus_bit(x, k, w) ==
    LET above == {b \in x : b >= k}
    IN  IF above = {} THEN x \cup (k .. w - 1)
        ELSE (x \ {Min(above)}) \cup (k .. Min(above) - 1)

sign_extension(x, n, w) ==
    IF n >= w THEN x
    ELSE IF n = 0 THEN {}
    ELSE minus_bit(xor(x \cap bitmask(n, w), {n - 1}), n - 1, w)

\* Cuts a word into its lower and its upper half.
unpack_to(x, w) == << narrow_cast(x, w \div 2), right(x, w \div 2) >>
=============================================================================
