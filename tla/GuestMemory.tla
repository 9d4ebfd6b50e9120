---------------------------- MODULE GuestMemory ----------------------------
(***************************************************************************)
(* Guest memory: HierarchiedMemory (memory/hierarchied_memory.cpp), whose  *)
(* sets and pages are allocated when they are written first, PlainMemory   *)
(* (plain_memory.cpp), FuncMemoryReplicant, which writes every replica,    *)
(* and loads and stores of instructions (memory.h, infra/endian.h).  The   *)
(* primary is hierarchied; the replica is plain and may be added late.     *)
(***************************************************************************)
EXTENDS Integers, Sequences

CONSTANTS
    set_bits, page_bits, offset_bits,
    Addresses, \* bound for 2^64: effective addresses wrap here
    Radix,     \* bound for 256: a byte is a digit of this base
    Width,     \* bytes of a register
    Stored     \* the values that instructions store

\* 1 << n, and the weight of the digit k of an integer
pow2[n \in Nat] == IF n = 0 THEN 1 ELSE 2 * pow2[n - 1]
weight[k \in Nat] == IF k = 0 THEN 1 ELSE Radix * weight[k - 1]

Byte == 0..(Radix - 1)
set_cnt == pow2[set_bits]
page_cnt == pow2[page_bits]
page_size == pow2[offset_bits]
set_size == pow2[page_bits + offset_bits]
Limit == pow2[set_bits + page_bits + offset_bits] \* addr_mask + 1, arena.size()
Sets == 0..(set_cnt - 1)
Pages == 0..(page_cnt - 1)

ASSUME GuestMemoryAssumption ==
    /\ {set_bits, page_bits, offset_bits} \subseteq Nat
    /\ Width = 4 \* swl and swr are about words
    /\ Addresses \in Nat /\ Addresses > Limit + Width /\ Addresses % Width = 0
    /\ Radix \in Nat \ {0, 1} /\ Stored \subseteq 0..(weight[Width] - 1)

None == <<>> \* an empty vector: no set, no page, no replica

VARIABLES
    memory,  \* the primary: set -> page -> offset -> byte
    arena,   \* the replica
    outcome  \* "ok" or the exception of the last operation

vars == <<memory, arena, outcome>>

(* HierarchiedMemory *)

get_set(a) == (a \div set_size) % set_cnt
get_page(a) == (a \div page_size) % page_cnt
get_offset(a) == a % page_size
get_addr(s, p, o) == s * set_size + p * page_size + o

check(m, a) == m[get_set(a)] # None /\ m[get_set(a)][get_page(a)] # None
check_and_read_byte(m, a) ==
    IF check(m, a) THEN m[get_set(a)][get_page(a)][get_offset(a)] ELSE 0

fresh_set == [p \in Pages |-> None]
fresh_page == [o \in 0..(page_size - 1) |-> 0]

\* (Mutant: a page is allocated again when it is there.)
alloc_always(m, a) ==
    [m EXCEPT ![get_set(a)] =
        [(IF @ = None THEN fresh_set ELSE @) EXCEPT ![get_page(a)] = fresh_page]]
alloc(m, a) ==
    LET set == IF m[get_set(a)] = None THEN fresh_set ELSE m[get_set(a)]
        page == IF set[get_page(a)] = None THEN fresh_page ELSE set[get_page(a)]
    IN  [m EXCEPT ![get_set(a)] = [set EXCEPT ![get_page(a)] = page]]

alloc_and_write_byte(m, a, b) ==
    [alloc(m, a) EXCEPT ![get_set(a)][get_page(a)][get_offset(a)] = b]

\* The checks of memcpy_host_to_guest, the same in both memories.
in_range(dst, size) == size <= Limit /\ dst <= Limit /\ dst <= Limit - size

copied(m, dst, data) ==
    LET f[k \in 0..Len(data)] ==
            IF k = 0 THEN m ELSE alloc_and_write_byte(f[k - 1], dst + k - 1, data[k])
    IN  f[Len(data)]

\* memcpy_guest_to_host: a read that runs past the end wraps.
guest_to_host(m, src, size) == [k \in 1..size |-> check_and_read_byte(m, src + k - 1)]

string_end(m, a) ==
    LET ends(n) == n = Limit \/ check_and_read_byte(m, a + n) = 0
    IN  CHOOSE n \in 0..Limit : ends(n) /\ \A k \in 0..(n - 1) : ~ends(k)
\* (Mutant: the terminating zero is counted.)
strlen_with_zero(m, a) == string_end(m, a) + 1
strlen(m, a) == string_end(m, a)

(* PlainMemory *)

plain_copied(r, dst, data) ==
    [a \in DOMAIN r |-> IF a \in dst..(dst + Len(data) - 1) THEN data[a - dst + 1] ELSE r[a]]
plain_strlen(r, a) ==
    LET ends(n) == a + n = Limit \/ r[a + n] = 0
    IN  CHOOSE n \in 0..(Limit - a) : ends(n) /\ \A k \in 0..(n - 1) : ~ends(k)

\* HierarchiedMemory::duplicate_to a plain memory, page by page.
\* (Mutant: the first page of a set is taken for all of them.)
duplicated_first_page(m, r) ==
    [a \in DOMAIN r |-> IF m[get_set(a)] # None /\ m[get_set(a)][0] # None
                        THEN m[get_set(a)][0][get_offset(a)] ELSE r[a]]
duplicated(m, r) ==
    [a \in DOMAIN r |->
        IF \E s \in Sets : m[s] # None /\ \E p \in Pages : m[s][p] # None /\
              \E o \in 0..(page_size - 1) : a = get_addr(s, p, o)
        THEN check_and_read_byte(m, a) ELSE r[a]]

(* Integers in memory: digits of base Radix, the least one first or last *)

digit(v, k) == (v \div weight[k]) % Radix
unpack_array(e, v, size) ==
    [k \in 1..size |-> digit(v, IF e = "little" THEN k - 1 ELSE size - k)]
pack_array(e, data) ==
    LET place(k) == IF e = "little" THEN k - 1 ELSE Len(data) - k
        sum[k \in 0..Len(data)] == IF k = 0 THEN 0 ELSE sum[k - 1] + data[k] * weight[place(k)]
    IN  sum[Len(data)]

\* Values a and b combined: the digits of a in mask, those of b elsewhere.
combined(a, b, mask) ==
    pack_array("little", [k \in 1..Width |-> IF k - 1 \in mask THEN digit(a, k - 1) ELSE digit(b, k - 1)])

(* Instructions: ALU::load_addr_*, store_addr_*.  An access is [addr, size, mask]. *)

whole(a, size) == [addr |-> a, size |-> size, mask |-> 0..(size - 1)]
right32(a) == [addr |-> a, size |-> Width, mask |-> 0..(Width - 1 - (a % Width))]
\* (Mutant: the mask of the left part is one byte short.)
left32_short(a) ==
    [addr |-> (a - 3) % Addresses, size |-> Width, mask |-> (Width - (a % Width))..(Width - 1)]
left32(a) ==
    [addr |-> (a - 3) % Addresses, size |-> Width, mask |-> (Width - 1 - (a % Width))..(Width - 1)]

\* ReadableMemory::read of a register, and load, which masks what the access wants.
read(m, e, a) == pack_array(e, guest_to_host(m, a, Width))
\* (Mutant: the loaded value is not masked.)
load_unmasked(m, e, x) == read(m, e, x.addr)
load(m, e, x) == read(m, e, x.addr) % weight[x.size]

\* FuncMemory::store: the bytes that are written at x.addr.
stored_bytes(m, e, x, v) ==
    IF 0..(x.size - 1) \subseteq x.mask THEN unpack_array(e, v, x.size)
    ELSE unpack_array(e, combined(v, read(m, e, x.addr), x.mask), Width)

-----------------------------------------------------------------------------

Init ==
    /\ memory = [s \in Sets |-> None]
    /\ arena = None
    /\ outcome = "ok"

\* FuncMemoryReplicant::memcpy_host_to_guest.  A replica throws when the
\* primary does, because they have one size.
Copy(dst, data) ==
    IF in_range(dst, Len(data))
    THEN /\ memory' = copied(memory, dst, data)
         /\ arena' = IF arena = None THEN arena ELSE plain_copied(arena, dst, data)
         /\ outcome' = "ok"
    ELSE UNCHANGED <<memory, arena>> /\ outcome' = "OutOfRange"

Store(e, x, v) ==
    IF x.addr = 0 THEN UNCHANGED <<memory, arena>> /\ outcome' = "StoreToZero"
    ELSE Copy(x.addr, stored_bytes(memory, e, x, v))

\* memset copies the bytes that precede one out of range.
Memset(a, b, size) ==
    LET n == IF a + size <= Limit THEN size ELSE IF a > Limit THEN 0 ELSE Limit - a
        data == [k \in 1..n |-> b]
    IN  /\ memory' = copied(memory, a, data)
        /\ arena' = IF arena = None THEN arena ELSE plain_copied(arena, a, data)
        /\ outcome' = IF n < size THEN "OutOfRange" ELSE "ok"

\* add_replica: a fresh plain memory, to which the primary is duplicated.
AddReplica ==
    /\ arena = None
    /\ arena' = duplicated(memory, [a \in 0..(Limit - 1) |-> 0])
    /\ outcome' = "ok"
    /\ UNCHANGED memory

Accesses(a) == {whole(a, 1), whole(a, 2), whole(a, 4), right32(a), left32(a)}
Near == 0..(Limit + 1)

Next ==
    \/ \E a \in Near, e \in {"little", "big"} : \E x \in Accesses(a), v \in Stored : Store(e, x, v)
    \/ \E a \in Near, b \in Byte, size \in 0..2 : Memset(a, b, size)
    \/ AddReplica

Spec == Init /\ [][Next]_vars

-----------------------------------------------------------------------------
(* Properties *)

Bytes == [a \in 0..(Limit - 1) |-> check_and_read_byte(memory, a)]
Values == 0..(weight[Width] - 1)

\* Sets and pages that appear on demand are an array of bytes: a copy to a range
\* that lies in it changes that range and no other byte, and any other copy is
\* refused, wherever it starts.
CopyIsExact ==
    \A dst \in 0..(Addresses - 1), size \in {1, 2, 4} :
        /\ in_range(dst, size) <=> dst + size <= Limit
        /\ in_range(dst, size) =>
            \A data \in [1..size -> Byte] :
                LET m == copied(memory, dst, data) IN
                \A a \in 0..(Limit - 1) :
                    check_and_read_byte(m, a) =
                        IF a \in dst..(dst + size - 1) THEN data[a - dst + 1] ELSE Bytes[a]

\* The replica holds the bytes of the primary, whenever it was added.
ReplicaAgrees == arena # None => \A a \in 0..(Limit - 1) : arena[a] = Bytes[a]

\* Both memories find the same end of every string that ends inside them.
SameStrings ==
    arena # None =>
        \A a \in 0..(Limit - 1) : (\E z \in a..(Limit - 1) : Bytes[z] = 0) =>
            strlen(memory, a) = plain_strlen(arena, a)

\* What an access stores is what the same access loads.  With big endian this
\* holds for whole registers only.
After(e, x, v) == copied(memory, x.addr, stored_bytes(memory, e, x, v))
LoadReturnsStore ==
    \A a \in 1..(Limit - Width), e \in {"little", "big"}, size \in {1, 2, 4}, v \in Values :
        e = "little" \/ size = Width =>
            load(After(e, whole(a, size), v), e, whole(a, size)) = v % weight[size]

\* swl at a + 3 and swr at a write the unaligned word at a, and nothing else,
\* in memory of little endian.
UnalignedPair ==
    \A a \in 1..(Limit - Width), v \in Values :
        LET l == left32(a + 3)
            m == After("little", l, v)
            n == copied(m, a, stored_bytes(m, "little", right32(a), v))
        IN  \A b \in 0..(Limit - 1) :
                check_and_read_byte(n, b) =
                    IF b \in a..(a + 3) THEN digit(v, b - a) ELSE Bytes[b]
=============================================================================
