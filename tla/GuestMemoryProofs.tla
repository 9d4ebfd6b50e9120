------------------------- MODULE GuestMemoryProofs -------------------------
(***************************************************************************)
(* Proofs about GuestMemory, for every geometry of the memory, every radix *)
(* of a byte and every register of four bytes.                             *)
(***************************************************************************)
EXTENDS GuestMemory, NatMinimum

(* Powers *)

Solves(f, c, k) ==
    /\ f \in [Nat -> Nat] /\ f[0] = 1
    /\ \A n \in Nat : n < k => f[n + 1] = c * f[n]

\* The powers of c up to the k-th exist.
LEMMA PowersUpTo ==
    ASSUME NEW c \in Nat
    PROVE  \A k \in Nat : \E f : Solves(f, c, k)
<1> DEFINE S == {k \in Nat : \E f : Solves(f, c, k)}
<1>1. 0 \in S
  <2>1. Solves([n \in Nat |-> 1], c, 0)
    BY DEF Solves
  <2> QED
    BY <2>1
<1>2. ASSUME NEW k \in Nat, k \in S PROVE k + 1 \in S
  <2>1. PICK f : Solves(f, c, k)
    BY <1>2
  <2> DEFINE g == [f EXCEPT ![k + 1] = c * f[k]]
  <2>2. c * f[k] \in Nat /\ f \in [Nat -> Nat]
    BY <2>1 DEF Solves
  <2>3. g \in [Nat -> Nat] /\ g[0] = 1
    BY <2>1, <2>2 DEF Solves
  <2>4. ASSUME NEW n \in Nat, n < k + 1 PROVE g[n + 1] = c * g[n]
    <3>1. g[n] = f[n]
      BY <2>2, <2>4
    <3>2. CASE n = k
      BY <2>2, <3>1, <3>2
    <3>3. CASE n < k
      BY <2>1, <2>2, <3>1, <3>3 DEF Solves
    <3> QED
      BY <2>4, <3>2, <3>3
  <2> HIDE DEF g
  <2>5. Solves(g, c, k + 1)
    BY <2>3, <2>4 DEF Solves
  <2> QED
    BY <2>5
<1> HIDE DEF S
<1>3. Nat \subseteq S
  BY <1>1, <1>2, NatSetInduction
<1> QED
  BY <1>3 DEF S

\* They are determined.
LEMMA PowersUnique ==
    ASSUME NEW c \in Nat, NEW k \in Nat, NEW f, NEW g, Solves(f, c, k), Solves(g, c, k)
    PROVE  f[k] = g[k]
<1> DEFINE S == {n \in Nat : n <= k => f[n] = g[n]}
<1>1. 0 \in S
  BY DEF Solves
<1>2. ASSUME NEW n \in Nat, n \in S PROVE n + 1 \in S
  BY <1>2 DEF Solves
<1> HIDE DEF S
<1>3. Nat \subseteq S
  BY <1>1, <1>2, NatSetInduction
<1> QED
  BY <1>3 DEF S

Powers(c, f) == f = [n \in Nat |-> IF n = 0 THEN 1 ELSE c * f[n - 1]]

\* The function of all powers exists and is one of numbers.
LEMMA PowersExist ==
    ASSUME NEW c \in Nat
    PROVE  \E f : Powers(c, f) /\ f \in [Nat -> Nat]
<1> DEFINE h(n) == CHOOSE f : Solves(f, c, n)
           f == [n \in Nat |-> h(n)[n]]
<1>1. \A n \in Nat : Solves(h(n), c, n)
  BY PowersUpTo
<1> HIDE DEF h
<1>2. f \in [Nat -> Nat]
  BY <1>1 DEF Solves
<1>3. f[0] = 1
  BY <1>1 DEF Solves
<1>4. ASSUME NEW n \in Nat PROVE f[n + 1] = c * f[n]
  <2>1. Solves(h(n + 1), c, n + 1) /\ Solves(h(n), c, n)
    BY <1>1
  <2>2. Solves(h(n + 1), c, n)
    BY <2>1 DEF Solves
  <2>3. h(n + 1)[n] = h(n)[n]
    BY <2>1, <2>2, PowersUnique
  <2>4. h(n + 1)[n + 1] = c * h(n + 1)[n]
    BY <2>1 DEF Solves
  <2> QED
    BY <2>3, <2>4
<1>5. ASSUME NEW n \in Nat PROVE f[n] = IF n = 0 THEN 1 ELSE c * f[n - 1]
  <2> HIDE DEF f
  <2>1. CASE n = 0
    BY <1>3, <2>1
  <2>2. CASE n # 0
    <3>1. n - 1 \in Nat /\ (n - 1) + 1 = n
      BY <2>2
    <3> QED
      BY <1>4, <2>2, <3>1
  <2> QED
    BY <2>1, <2>2
<1> HIDE DEF f
<1>6. Powers(c, f)
  BY <1>2, <1>5 DEF Powers
<1> QED
  BY <1>2, <1>6

\* What is needed of any function of powers.
LEMMA PowerFacts ==
    ASSUME NEW c \in Nat \ {0}, NEW f, Powers(c, f)
    PROVE  /\ f[0] = 1 /\ \A n \in Nat : f[n + 1] = c * f[n]
           /\ \A n \in Nat : f[n] \in Nat \ {0}
           /\ \A n, k \in Nat : f[n + k] = f[n] * f[k]
<1>1. f[0] = 1
  BY DEF Powers
<1>2. ASSUME NEW n \in Nat PROVE f[n + 1] = c * f[n]
  <2>1. n + 1 \in Nat /\ n + 1 # 0 /\ (n + 1) - 1 = n
    OBVIOUS
  <2> DEFINE g == [i \in Nat |-> IF i = 0 THEN 1 ELSE c * f[i - 1]]
  <2>2. f = g
    BY DEF Powers
  <2>3. g[n + 1] = c * f[n]
    BY <2>1
  <2> HIDE DEF g
  <2> QED
    BY <2>2, <2>3
<1>3. \A n \in Nat : f[n] \in Nat \ {0}
  <2> DEFINE S == {n \in Nat : f[n] \in Nat \ {0}}
  <2>1. 0 \in S
    BY <1>1
  <2>2. ASSUME NEW n \in Nat, n \in S PROVE n + 1 \in S
    BY <1>2, <2>2
  <2> HIDE DEF S
  <2>3. Nat \subseteq S
    BY <2>1, <2>2, NatSetInduction
  <2> QED
    BY <2>3 DEF S
<1>4. ASSUME NEW n \in Nat PROVE \A k \in Nat : f[n + k] = f[n] * f[k]
  <2> DEFINE S == {k \in Nat : f[n + k] = f[n] * f[k]}
  <2>1. 0 \in S
    BY <1>1, <1>3
  <2>2. ASSUME NEW k \in Nat, k \in S PROVE k + 1 \in S
    <3>1. f[n + k] = f[n] * f[k] /\ f[n] \in Nat /\ f[k] \in Nat
      BY <1>3, <2>2
    <3>2. f[k + 1] = c * f[k] /\ f[(n + k) + 1] = c * f[n + k]
      BY <1>2
    <3>3. n + (k + 1) = (n + k) + 1
      OBVIOUS
    <3>4. \A x, y \in Nat : c * (x * y) = x * (c * y)
      OBVIOUS
    <3> QED
      BY <3>1, <3>2, <3>3, <3>4
  <2> HIDE DEF S
  <2>3. Nat \subseteq S
    BY <2>1, <2>2, NatSetInduction
  <2> QED
    BY <2>3 DEF S
<1> QED
  BY <1>1, <1>2, <1>3, <1>4

LEMMA Constants ==
    /\ set_bits \in Nat /\ page_bits \in Nat /\ offset_bits \in Nat
    /\ Width = 4 /\ Addresses \in Nat /\ Addresses > Limit + Width
    /\ Radix \in Nat \ {0, 1}
BY GuestMemoryAssumption

LEMMA Pow2 == Powers(2, pow2)
<1>1. \E f : Powers(2, f)
  BY PowersExist
<1>2. pow2 = CHOOSE f : Powers(2, f)
  BY DEF pow2, Powers
<1> QED
  BY <1>1, <1>2

LEMMA Weight == Powers(Radix, weight)
<1>1. \E f : Powers(Radix, f)
  BY PowersExist, Constants
<1>2. weight = CHOOSE f : Powers(Radix, f)
  BY DEF weight, Powers
<1> QED
  BY <1>1, <1>2

(* The geometry of HierarchiedMemory *)

Offsets == 0..(page_size - 1)

LEMMA Geometry ==
    /\ set_cnt \in Nat \ {0} /\ page_cnt \in Nat \ {0} /\ page_size \in Nat \ {0}
    /\ set_size = page_cnt * page_size /\ set_size \in Nat \ {0}
    /\ Limit = set_cnt * set_size /\ Limit \in Nat \ {0}
<1>1. /\ \A n \in Nat : pow2[n] \in Nat \ {0}
      /\ \A n, k \in Nat : pow2[n + k] = pow2[n] * pow2[k]
  BY Pow2, PowerFacts
<1>2. page_bits + offset_bits \in Nat
  BY Constants
<1>3. set_bits + page_bits + offset_bits = set_bits + (page_bits + offset_bits)
      /\ set_bits + page_bits + offset_bits \in Nat
  BY Constants
<1>4. Limit = set_cnt * set_size /\ set_size = page_cnt * page_size
  BY <1>1, <1>2, <1>3, Constants DEF Limit, set_cnt, set_size, page_cnt, page_size
<1> QED
  BY <1>1, <1>2, <1>3, <1>4, Constants DEF Limit, set_cnt, set_size, page_cnt, page_size

\* Division with a remainder, and that it is unique.
LEMMA Division ==
    ASSUME NEW a \in Nat, NEW d \in Nat \ {0}
    PROVE  a = d * (a \div d) + (a % d) /\ a % d \in 0..(d - 1) /\ a \div d \in Nat
<1>1. a = d * (a \div d) + (a % d)
  OBVIOUS
<1>2. a % d \in 0..(d - 1)
  OBVIOUS
<1>3. a \div d \in Nat
  OBVIOUS
<1> QED
  BY <1>1, <1>2, <1>3

LEMMA DivisionUnique ==
    ASSUME NEW d \in Nat \ {0}, NEW q \in Int, NEW r \in 0..(d - 1), NEW a \in Int, a = d * q + r
    PROVE  a \div d = q /\ a % d = r
OBVIOUS

\* An address of the memory is its set, its page and its offset, and these are its own.
LEMMA AddressParts ==
    /\ \A a \in Nat : get_set(a) \in Sets /\ get_page(a) \in Pages /\ get_offset(a) \in Offsets
    /\ \A a \in 0..(Limit - 1) : get_addr(get_set(a), get_page(a), get_offset(a)) = a
    /\ \A s \in Sets, p \in Pages, o \in Offsets :
           /\ get_addr(s, p, o) \in Nat
           /\ get_set(get_addr(s, p, o)) = s /\ get_page(get_addr(s, p, o)) = p
           /\ get_offset(get_addr(s, p, o)) = o
<1>1. ASSUME NEW a \in Nat
      PROVE  get_set(a) \in Sets /\ get_page(a) \in Pages /\ get_offset(a) \in Offsets
  <2>1. a \div set_size \in Nat /\ a \div page_size \in Nat
    BY Division, Geometry
  <2> QED
    BY <2>1, Division, Geometry DEF get_set, get_page, get_offset, Sets, Pages, Offsets
<1>2. ASSUME NEW a \in 0..(Limit - 1)
      PROVE  get_addr(get_set(a), get_page(a), get_offset(a)) = a
  <2> DEFINE q == a \div page_size
             t == a \div set_size
             w == a % set_size
             v == w \div page_size
             o == w % page_size
  <2>1. a \in Nat /\ a < set_cnt * set_size
    BY Geometry
  <2>2. a = set_size * t + w /\ w \in 0..(set_size - 1) /\ t \in Nat
    BY <2>1, Division, Geometry
  <2>3. w = page_size * v + o /\ o \in 0..(page_size - 1) /\ v \in Nat
    <3>1. w \in Nat
      BY <2>2, Geometry
    <3> HIDE DEF w
    <3> QED
      BY <3>1, Division, Geometry
  <2>4. get_set(a) = t % set_cnt /\ get_page(a) = q % page_cnt /\ get_offset(a) = a % page_size
    BY DEF get_set, get_page, get_offset
  <2> HIDE DEF q, t, w, v, o
  <2>5. t < set_cnt
    <3>1. SUFFICES ASSUME t >= set_cnt PROVE FALSE
      BY <2>2, Geometry
    <3>2. set_size * t >= set_size * set_cnt
      BY <2>2, <3>1, Geometry
    <3> QED
      BY <2>1, <2>2, <3>2, Geometry
  <2>6. v < page_cnt
    <3>1. SUFFICES ASSUME v >= page_cnt PROVE FALSE
      BY <2>3, Geometry
    <3>2. page_size * v >= page_size * page_cnt
      BY <2>3, <3>1, Geometry
    <3> QED
      BY <2>2, <2>3, <3>2, Geometry
  <2>7. a = page_size * (page_cnt * t + v) + o
    <3>1. (page_cnt * page_size) * t = page_size * (page_cnt * t)
      BY <2>2, Geometry
    <3>2. page_cnt * t \in Nat
      BY <2>2, Geometry
    <3>3. page_size * (page_cnt * t + v) = page_size * (page_cnt * t) + page_size * v
      BY <2>3, <3>2, Geometry
    <3> QED
      BY <2>2, <2>3, <3>1, <3>3, Geometry
  <2>8. q = page_cnt * t + v /\ a % page_size = o
    <3> DEFINE k == page_cnt * t + v
    <3>1. k \in Int /\ page_size \in Nat \ {0}
      BY <2>2, <2>3, Geometry
    <3>2. a = page_size * k + o /\ a \in Int /\ o \in 0..(page_size - 1)
      BY <2>1, <2>3, <2>7
    <3> HIDE DEF k
    <3>3. a \div page_size = k /\ a % page_size = o
      BY <3>1, <3>2, DivisionUnique
    <3> QED
      BY <3>3 DEF k, q
  <2>9. q % page_cnt = v
    BY <2>2, <2>3, <2>6, <2>8, DivisionUnique, Geometry
  <2>10. t % set_cnt = t
    BY <2>2, <2>5, Geometry
  <2>11. get_set(a) = t /\ get_page(a) = v /\ get_offset(a) = o
    BY <2>4, <2>8, <2>9, <2>10
  <2>12. get_addr(t, v, o) = a
    BY <2>2, <2>3, Geometry DEF get_addr
  <2> QED
    BY <2>11, <2>12
<1>3. ASSUME NEW s \in Sets, NEW p \in Pages, NEW o \in Offsets
      PROVE  /\ get_addr(s, p, o) \in Nat
             /\ get_set(get_addr(s, p, o)) = s /\ get_page(get_addr(s, p, o)) = p
             /\ get_offset(get_addr(s, p, o)) = o
  <2> DEFINE a == get_addr(s, p, o)
             w == p * page_size + o
  <2>1. s \in Nat /\ s < set_cnt /\ p \in Nat /\ p < page_cnt /\ o \in Nat /\ o < page_size
    BY Geometry DEF Sets, Pages, Offsets
  <2>2. w \in Nat /\ w < set_size
    <3>1. p + 1 <= page_cnt /\ p + 1 \in Nat
      BY <2>1, Geometry
    <3>2. (p + 1) * page_size <= page_cnt * page_size
      BY <3>1, Geometry
    <3>3. (p + 1) * page_size = p * page_size + page_size /\ p * page_size \in Nat
      BY <2>1, Geometry
    <3> QED
      BY <2>1, <3>2, <3>3, Geometry
  <2>3. a = set_size * s + w /\ a \in Nat
    BY <2>1, <2>2, Geometry DEF get_addr
  <2>4. a = page_size * (page_cnt * s + p) + o /\ page_cnt * s + p \in Nat
    <3>1. (page_cnt * page_size) * s = page_size * (page_cnt * s)
      BY <2>1, Geometry
    <3>2. page_cnt * s \in Nat
      BY <2>1, Geometry
    <3>3. page_size * (page_cnt * s + p) = page_size * (page_cnt * s) + page_size * p
      BY <2>1, <3>2, Geometry
    <3> QED
      BY <2>1, <2>3, <3>1, <3>2, <3>3, Geometry
  <2>5. get_set(a) = (a \div set_size) % set_cnt /\ get_page(a) = (a \div page_size) % page_cnt
        /\ get_offset(a) = a % page_size
    BY DEF get_set, get_page, get_offset
  <2> HIDE DEF a, w
  <2>6. a \div set_size = s
    BY <2>1, <2>2, <2>3, DivisionUnique, Geometry
  <2>7. s % set_cnt = s
    BY <2>1, Geometry
  <2>8. a \div page_size = page_cnt * s + p /\ a % page_size = o
    BY <2>1, <2>3, <2>4, DivisionUnique, Geometry
  <2>9. (page_cnt * s + p) % page_cnt = p
    <3> DEFINE k == page_cnt * s + p
    <3>1. k \in Int /\ page_cnt \in Nat \ {0}
      BY <2>4, Geometry
    <3>2. k = page_cnt * s + p /\ p \in 0..(page_cnt - 1) /\ s \in Int
      BY <2>1, Geometry
    <3> HIDE DEF k
    <3>3. k % page_cnt = p
      BY <3>1, <3>2, DivisionUnique
    <3> QED
      BY <3>3 DEF k
  <2> QED
    BY <2>3, <2>5, <2>6, <2>7, <2>8, <2>9 DEF a
<1> QED
  BY <1>1, <1>2, <1>3

(* Sets and pages on demand *)

Page == [Offsets -> Byte]
Set == [Pages -> {None} \cup Page]
Memory == [Sets -> {None} \cup Set]

\* An empty vector is neither a set nor a page.
LEMMA NotEmpty == None \notin Page /\ None \notin Set /\ 0 \in Byte
<1>1. 0 \in Offsets /\ 0 \in Pages
  BY Geometry DEF Offsets, Pages
<1>2. DOMAIN None = {}
  BY DEF None
<1>3. ASSUME None \in Page PROVE FALSE
  <2>1. DOMAIN None = Offsets
    BY <1>3 DEF Page
  <2> QED
    BY <1>1, <1>2, <2>1
<1>4. ASSUME None \in Set PROVE FALSE
  <2>1. DOMAIN None = Pages
    BY <1>4 DEF Set
  <2> QED
    BY <1>1, <1>2, <2>1
<1> QED
  BY <1>3, <1>4, Constants DEF Byte

Same(a, c) == get_set(c) = get_set(a) /\ get_page(c) = get_page(a) /\ get_offset(c) = get_offset(a)

\* alloc_and_write_byte writes one byte, whether or not its page was there.
LEMMA ByteWritten ==
    ASSUME NEW m \in Memory, NEW a \in Nat, NEW b \in Byte
    PROVE  /\ alloc_and_write_byte(m, a, b) \in Memory
           /\ \A c \in Nat : check_and_read_byte(alloc_and_write_byte(m, a, b), c) =
                  IF Same(a, c) THEN b ELSE check_and_read_byte(m, c)
<1> DEFINE s == get_set(a)
           p == get_page(a)
           o == get_offset(a)
           u == IF m[s] = None THEN fresh_set ELSE m[s]
           g == IF u[p] = None THEN fresh_page ELSE u[p]
           h == [g EXCEPT ![o] = b]
           v == [u EXCEPT ![p] = h]
           n == [m EXCEPT ![s] = v]
<1>1. s \in Sets /\ p \in Pages /\ o \in Offsets
  BY AddressParts
<1> HIDE DEF s, p, o
<1>2. u \in Set
  <2>1. fresh_set \in Set
    BY DEF fresh_set, Set
  <2> QED
    BY <1>1, <2>1 DEF Memory
<1> HIDE DEF u
<1>3. g \in Page
  <2>1. fresh_page \in Page
    BY NotEmpty DEF fresh_page, Page, Offsets
  <2> QED
    BY <1>1, <1>2, <2>1 DEF Set
<1>4. alloc(m, a) = [m EXCEPT ![s] = [u EXCEPT ![p] = g]]
  BY DEF alloc, s, p, u
<1> HIDE DEF g
<1>5. alloc_and_write_byte(m, a, b) = n
  <2> DEFINE w == [u EXCEPT ![p] = g]
             x == [m EXCEPT ![s] = w]
  <2>1. w[p] = g /\ [w EXCEPT ![p] = h] = v
    BY <1>1, <1>2 DEF Set
  <2>2. x[s] = w /\ [x EXCEPT ![s] = v] = n
    BY <1>1 DEF Memory
  <2>3. alloc_and_write_byte(m, a, b) = [x EXCEPT ![s] = [x[s] EXCEPT ![p] = [x[s][p] EXCEPT ![o] = b]]]
    BY <1>4 DEF alloc_and_write_byte, s, p, o
  <2> HIDE DEF w, x, v, n
  <2> QED
    BY <2>1, <2>2, <2>3 DEF v
<1>6. h \in Page /\ \A i \in Offsets : h[i] = IF i = o THEN b ELSE g[i]
  BY <1>1, <1>3 DEF Page
<1> HIDE DEF h
<1>7. v \in Set /\ v # None /\ h # None /\ \A i \in Pages : v[i] = IF i = p THEN h ELSE u[i]
  BY <1>1, <1>2, <1>6, NotEmpty DEF Set
<1> HIDE DEF v
<1>8. n \in Memory /\ \A i \in Sets : n[i] = IF i = s THEN v ELSE m[i]
  BY <1>1, <1>7 DEF Memory
<1> HIDE DEF n
<1>9. ASSUME NEW c \in Nat
      PROVE  check_and_read_byte(n, c) = IF Same(a, c) THEN b ELSE check_and_read_byte(m, c)
  <2> DEFINE i == get_set(c)
             j == get_page(c)
             k == get_offset(c)
  <2>1. i \in Sets /\ j \in Pages /\ k \in Offsets
    BY AddressParts
  <2>2. \A z : check_and_read_byte(z, c) = IF z[i] # None /\ z[i][j] # None THEN z[i][j][k] ELSE 0
    BY DEF check_and_read_byte, check
  <2>3. Same(a, c) <=> i = s /\ j = p /\ k = o
    BY DEF Same, s, p, o
  <2> HIDE DEF i, j, k
  <2>4. CASE i # s
    BY <1>8, <2>1, <2>2, <2>3, <2>4
  <2>5. CASE i = s /\ j # p
    <3>1. n[i] = v /\ v[j] = u[j]
      BY <1>7, <1>8, <2>1, <2>5
    <3>2. CASE m[s] = None
      <4>1. u[j] = None
        BY <2>1, <3>2 DEF u, fresh_set
      <4> QED
        BY <2>2, <2>3, <2>5, <3>1, <3>2, <4>1
    <3>3. CASE m[s] # None
      <4>1. u = m[s]
        BY <3>3 DEF u
      <4> QED
        BY <1>7, <2>2, <2>3, <2>5, <3>1, <3>3, <4>1
    <3> QED
      BY <3>2, <3>3
  <2>6. CASE i = s /\ j = p
    <3>1. n[i] = v /\ v[j] = h /\ check_and_read_byte(n, c) = h[k]
      BY <1>7, <1>8, <2>1, <2>2, <2>6
    <3>2. h[k] = IF k = o THEN b ELSE g[k]
      BY <1>6, <2>1
    <3>3. g[k] = check_and_read_byte(m, c)
      <4>1. CASE u[p] = None
        <5>1. g[k] = 0
          BY <2>1, <4>1 DEF g, fresh_page, Offsets
        <5>2. m[s] = None \/ m[s][p] = None
          BY <4>1 DEF u
        <5> QED
          BY <2>2, <2>6, <5>1, <5>2
      <4>2. CASE u[p] # None
        <5>1. m[s] # None
          BY <1>1, <4>2 DEF u, fresh_set
        <5>2. u = m[s] /\ g = m[s][p]
          BY <4>2, <5>1 DEF u, g
        <5> QED
          BY <2>2, <2>6, <4>2, <5>1, <5>2
      <4> QED
        BY <4>1, <4>2
    <3> QED
      BY <2>3, <2>6, <3>1, <3>2, <3>3
  <2> QED
    BY <2>4, <2>5, <2>6
<1> QED
  BY <1>5, <1>8, <1>9

\* What is read is a byte.
LEMMA ByteRead ==
    ASSUME NEW m \in Memory, NEW a \in Nat
    PROVE  check_and_read_byte(m, a) \in Byte
BY AddressParts, NotEmpty DEF check_and_read_byte, check, Memory, Set, Page

\* Addresses of the memory are told apart by their parts.
LEMMA SameIsEqual ==
    ASSUME NEW a \in 0..(Limit - 1), NEW c \in 0..(Limit - 1)
    PROVE  Same(a, c) <=> a = c
BY AddressParts DEF Same

(* memcpy_host_to_guest *)

\* A copy is byte after byte.
LEMMA CopiedSteps ==
    ASSUME NEW m, NEW dst, NEW data \in Seq(Byte)
    PROVE  \E f : /\ f[0] = m /\ copied(m, dst, data) = f[Len(data)]
                  /\ \A k \in 1..Len(data) :
                         f[k] = alloc_and_write_byte(f[k - 1], dst + k - 1, data[k])
<1> DEFINE N == Len(data)
           D == 0..N
           W(f, k) == alloc_and_write_byte(f[k - 1], dst + k - 1, data[k])
           Eq(f) == f = [k \in D |-> IF k = 0 THEN m ELSE W(f, k)]
           UpTo(f, k) == /\ f = [i \in D |-> f[i]] /\ f[0] = m
                         /\ \A i \in D : i # 0 /\ i <= k => f[i] = W(f, i)
           S == {k \in Nat : \E f : UpTo(f, k)}
<1>1. N \in Nat
  OBVIOUS
<1>2. copied(m, dst, data) = (CHOOSE f : Eq(f))[N]
  BY DEF copied
<1> HIDE DEF N
<1>3. 0 \in S
  <2> DEFINE g == [i \in D |-> m]
  <2>1. UpTo(g, 0)
    BY <1>1
  <2> HIDE DEF UpTo, g
  <2> QED
    BY <2>1
<1>4. ASSUME NEW k \in Nat, k \in S PROVE k + 1 \in S
  <2> HIDE DEF UpTo, W
  <2>1. PICK f : UpTo(f, k)
    BY <1>4
  <2> DEFINE g == [i \in D |-> IF i = k + 1 THEN W(f, i) ELSE f[i]]
  <2>2. g = [i \in D |-> g[i]]
    OBVIOUS
  <2>3. g[0] = m
    BY <1>1, <2>1 DEF UpTo
  <2>4. ASSUME NEW i \in D, i # 0, i <= k + 1 PROVE g[i] = W(g, i)
    <3>1. i - 1 \in D /\ i - 1 # k + 1
      BY <1>1, <2>4
    <3>2. g[i - 1] = f[i - 1]
      BY <3>1
    <3> HIDE DEF D
    <3>3. g[i] = IF i = k + 1 THEN W(f, i) ELSE f[i]
      BY <2>4
    <3> HIDE DEF g
    <3>4. W(g, i) = W(f, i)
      BY <3>2 DEF W
    <3>5. CASE i = k + 1
      BY <3>3, <3>4, <3>5
    <3>6. CASE i # k + 1
      <4>1. i <= k
        BY <1>1, <2>4, <3>6 DEF D
      <4>2. f[i] = W(f, i)
        BY <2>1, <2>4, <4>1 DEF UpTo
      <4> QED
        BY <3>3, <3>4, <3>6, <4>2
    <3> QED
      BY <3>5, <3>6
  <2> HIDE DEF g, D
  <2>5. UpTo(g, k + 1)
    BY <2>2, <2>3, <2>4 DEF UpTo
  <2> QED
    BY <2>5
<1> HIDE DEF S
<1>5. N \in S
  BY <1>1, <1>3, <1>4, NatSetInduction
<1>6. PICK f : UpTo(f, N)
  <2> HIDE DEF UpTo
  <2> QED
    BY <1>5 DEF S
<1>7. Eq(f)
  <2> HIDE DEF W
  <2>1. \A i \in D : f[i] = IF i = 0 THEN m ELSE W(f, i)
    BY <1>1, <1>6
  <2> HIDE DEF D
  <2> QED
    BY <1>6, <2>1
<1> DEFINE h == CHOOSE g : Eq(g)
<1>8. Eq(h)
  <2> HIDE DEF Eq
  <2> QED
    BY <1>7
<1> HIDE DEF h
<1>9. h[0] = m /\ \A k \in 1..N : h[k] = W(h, k)
  <2> DEFINE F == [k \in D |-> IF k = 0 THEN m ELSE W(h, k)]
  <2> HIDE DEF W
  <2>1. \A k \in D : F[k] = IF k = 0 THEN m ELSE W(h, k)
    OBVIOUS
  <2>2. h = F
    BY <1>8
  <2> HIDE DEF F
  <2> QED
    BY <1>1, <2>1, <2>2
<1>10. copied(m, dst, data) = h[N]
  BY <1>2 DEF h
<1> QED
  BY <1>9, <1>10 DEF N

\* A copy to a range inside the memory writes this range and nothing else.
LEMMA Copied ==
    ASSUME NEW m \in Memory, NEW dst \in Nat, NEW data \in Seq(Byte),
           Len(data) # 0 => dst + Len(data) <= Limit
    PROVE  /\ copied(m, dst, data) \in Memory
           /\ \A a \in 0..(Limit - 1) : check_and_read_byte(copied(m, dst, data), a) =
                  IF a \in dst..(dst + Len(data) - 1) THEN data[a - dst + 1]
                  ELSE check_and_read_byte(m, a)
<1> DEFINE N == Len(data)
           Good(x, k) == /\ x \in Memory
                         /\ \A a \in 0..(Limit - 1) : check_and_read_byte(x, a) =
                                IF a \in dst..(dst + k - 1) THEN data[a - dst + 1]
                                ELSE check_and_read_byte(m, a)
<1>1. PICK f : /\ f[0] = m /\ copied(m, dst, data) = f[N]
               /\ \A k \in 1..N : f[k] = alloc_and_write_byte(f[k - 1], dst + k - 1, data[k])
  BY CopiedSteps
<1>2. N \in Nat /\ (N # 0 => dst + N <= Limit) /\ Limit \in Nat
  BY Geometry
<1>3. \A k \in 1..N : data[k] \in Byte
  OBVIOUS
<1> DEFINE S == {k \in Nat : k <= N => Good(f[k], k)}
<1> HIDE DEF N
<1>4. 0 \in S
  <2>1. Good(m, 0)
    BY <1>2
  <2> HIDE DEF Good
  <2> QED
    BY <1>1, <2>1
<1>5. ASSUME NEW k \in Nat, k \in S PROVE k + 1 \in S
  <2> SUFFICES ASSUME k + 1 <= N PROVE Good(f[k + 1], k + 1)
    OBVIOUS
  <2>1. Good(f[k], k)
    BY <1>2, <1>5
  <2> DEFINE x == f[k]
             y == f[k + 1]
             b == data[k + 1]
  <2>2. b \in Byte
    BY <1>2, <1>3
  <2>3. dst + k \in 0..(Limit - 1) /\ dst + k \in Nat
    BY <1>2
  <2>4. y = alloc_and_write_byte(x, dst + k, b)
    <3>1. k + 1 \in 1..N /\ (k + 1) - 1 = k /\ dst + (k + 1) - 1 = dst + k
      BY <1>2
    <3>2. f[k + 1] = alloc_and_write_byte(f[(k + 1) - 1], dst + (k + 1) - 1, data[k + 1])
      BY <1>1, <3>1
    <3> QED
      BY <3>1, <3>2
  <2> HIDE DEF x, y, b
  <2>5. x \in Memory
    BY <2>1 DEF x
  <2>6. y \in Memory /\ \A c \in Nat : check_and_read_byte(y, c) =
            IF Same(dst + k, c) THEN b ELSE check_and_read_byte(x, c)
    BY <2>2, <2>3, <2>4, <2>5, ByteWritten
  <2>7. ASSUME NEW a \in 0..(Limit - 1)
        PROVE  check_and_read_byte(y, a) =
                   IF a \in dst..(dst + (k + 1) - 1) THEN data[a - dst + 1]
                   ELSE check_and_read_byte(m, a)
    <3>1. a \in Nat /\ (Same(dst + k, a) <=> dst + k = a)
      BY <1>2, <2>3, SameIsEqual
    <3>2. check_and_read_byte(y, a) = IF dst + k = a THEN b ELSE check_and_read_byte(x, a)
      BY <2>6, <3>1
    <3>3. check_and_read_byte(x, a) = IF a \in dst..(dst + k - 1) THEN data[a - dst + 1]
                                      ELSE check_and_read_byte(m, a)
      BY <2>1 DEF x
    <3>4. CASE dst + k = a
      <4>1. a - dst + 1 = k + 1 /\ a \in dst..(dst + (k + 1) - 1)
        BY <3>4
      <4>2. data[a - dst + 1] = b
        BY <4>1 DEF b
      <4> QED
        BY <3>2, <3>4, <4>1, <4>2
    <3>5. CASE dst + k # a
      <4>1. a \in dst..(dst + k - 1) <=> a \in dst..(dst + (k + 1) - 1)
        BY <1>2, <3>5
      <4> QED
        BY <3>2, <3>3, <3>5, <4>1
    <3> QED
      BY <3>4, <3>5
  <2>8. Good(y, k + 1)
    BY <2>6, <2>7
  <2> HIDE DEF Good
  <2> QED
    BY <2>8 DEF y
<1> HIDE DEF S
<1>6. N \in S
  BY <1>2, <1>4, <1>5, NatSetInduction
<1>7. Good(f[N], N)
  BY <1>2, <1>6 DEF S
<1> QED
  BY <1>1, <1>7 DEF N

(* Integers in memory *)

Horner(a, b, c, d) == a + Radix * (b + Radix * (c + Radix * d))

LEMMA Weights ==
    /\ weight[0] = 1 /\ weight[1] = Radix /\ weight[2] = Radix * Radix
    /\ weight[3] = Radix * (Radix * Radix) /\ weight[4] = Radix * (Radix * (Radix * Radix))
    /\ \A k \in Nat : weight[k] \in Nat \ {0}
<1>1. /\ weight[0] = 1 /\ \A n \in Nat : weight[n + 1] = Radix * weight[n]
      /\ \A n \in Nat : weight[n] \in Nat \ {0}
  <2>1. Radix \in Nat \ {0}
    BY Constants
  <2> QED
    BY <2>1, Weight, PowerFacts
<1>2. weight[0 + 1] = Radix * weight[0] /\ weight[1 + 1] = Radix * weight[1]
      /\ weight[2 + 1] = Radix * weight[2] /\ weight[3 + 1] = Radix * weight[3]
  BY <1>1
<1>3. weight[1] = Radix * weight[0] /\ weight[2] = Radix * weight[1]
      /\ weight[3] = Radix * weight[2] /\ weight[4] = Radix * weight[3]
  BY <1>2
<1>4. weight[1] = Radix
  BY <1>1, <1>3, Constants
<1> QED
  BY <1>1, <1>3, <1>4

LEMMA BytesAreNumbers == Byte \subseteq Nat
BY Constants DEF Byte

LEMMA DigitIsByte ==
    ASSUME NEW v \in Nat, NEW k \in Nat
    PROVE  digit(v, k) \in Byte
<1>1. v \div weight[k] \in Nat
  BY Weights, Division
<1> QED
  BY <1>1, Division, Constants DEF digit, Byte

LEMMA Unpacked ==
    ASSUME NEW e, NEW v \in Nat, NEW size \in 1..4
    PROVE  /\ unpack_array(e, v, size) \in Seq(Byte) /\ Len(unpack_array(e, v, size)) = size
           /\ \A k \in 1..size : unpack_array(e, v, size)[k] =
                  digit(v, IF e = "little" THEN k - 1 ELSE size - k)
<1> DEFINE g(k) == digit(v, IF e = "little" THEN k - 1 ELSE size - k)
<1>1. \A k \in 1..size : g(k) \in Byte
  <2> TAKE k \in 1..size
  <2>1. (IF e = "little" THEN k - 1 ELSE size - k) \in Nat
    OBVIOUS
  <2> QED
    BY <2>1, DigitIsByte
<1>2. unpack_array(e, v, size) = [k \in 1..size |-> g(k)]
  BY DEF unpack_array
<1> HIDE DEF g
<1>3. [k \in 1..size |-> g(k)] \in Seq(Byte) /\ Len([k \in 1..size |-> g(k)]) = size
  BY <1>1
<1> QED
  BY <1>2, <1>3 DEF g

LEMMA UnpackedLittle ==
    ASSUME NEW v
    PROVE  \A k \in 1..4 : unpack_array("little", v, 4)[k] = digit(v, k - 1)
BY DEF unpack_array

\* pack_array of a register is the sum of its four digits.
LEMMA Packed ==
    ASSUME NEW e, NEW data \in Seq(Byte), Len(data) = 4
    PROVE  pack_array(e, data) =
               IF e = "little" THEN Horner(data[1], data[2], data[3], data[4])
               ELSE Horner(data[4], data[3], data[2], data[1])
<1> DEFINE place(k) == IF e = "little" THEN k - 1 ELSE 4 - k
           x(k) == data[k] * weight[place(k)]
           Eq(f) == f = [k \in 0..4 |-> IF k = 0 THEN 0 ELSE f[k - 1] + x(k)]
           w == [k \in 0..4 |-> IF k = 0 THEN 0 ELSE IF k = 1 THEN 0 + x(1) ELSE
                                IF k = 2 THEN (0 + x(1)) + x(2) ELSE
                                IF k = 3 THEN ((0 + x(1)) + x(2)) + x(3) ELSE
                                (((0 + x(1)) + x(2)) + x(3)) + x(4)]
           s == CHOOSE f : Eq(f)
<1>1. pack_array(e, data) = s[4]
  BY DEF pack_array
<1>2. \A k \in 1..4 : data[k] \in Nat
  <2>1. \A k \in 1..4 : data[k] \in Byte
    OBVIOUS
  <2> QED
    BY <2>1, BytesAreNumbers
<1>3. /\ place(1) \in Nat /\ place(2) \in Nat /\ place(3) \in Nat /\ place(4) \in Nat
      /\ e = "little" => place(1) = 0 /\ place(2) = 1 /\ place(3) = 2 /\ place(4) = 3
      /\ e # "little" => place(1) = 3 /\ place(2) = 2 /\ place(3) = 1 /\ place(4) = 0
  OBVIOUS
<1> HIDE DEF place
<1>4. x(1) \in Nat /\ x(2) \in Nat /\ x(3) \in Nat /\ x(4) \in Nat
  <2>1. \A i, j \in Nat : i * j \in Nat
    OBVIOUS
  <2>2. \A k \in 1..4 : place(k) \in Nat => x(k) \in Nat
    BY <1>2, <2>1, Weights
  <2> HIDE DEF x
  <2> QED
    BY <1>3, <2>2
<1>5. Eq(w)
  <2> HIDE DEF x
  <2>1. ASSUME NEW k \in 0..4 PROVE w[k] = IF k = 0 THEN 0 ELSE w[k - 1] + x(k)
    <3>1. k \in {0, 1, 2, 3, 4}
      OBVIOUS
    <3>2. w[0] = 0 /\ w[1] = 0 + x(1) /\ w[2] = (0 + x(1)) + x(2)
          /\ w[3] = ((0 + x(1)) + x(2)) + x(3) /\ w[4] = (((0 + x(1)) + x(2)) + x(3)) + x(4)
      OBVIOUS
    <3> HIDE DEF w
    <3> QED
      BY <3>1, <3>2
  <2>2. w = [k \in 0..4 |-> w[k]]
    OBVIOUS
  <2> HIDE DEF w
  <2> QED
    BY <2>1, <2>2
<1>6. Eq(s)
  <2> HIDE DEF Eq, w
  <2> QED
    BY <1>5
<1>7. s[4] = (((0 + x(1)) + x(2)) + x(3)) + x(4)
  <2> HIDE DEF x, s
  <2> DEFINE F == [k \in 0..4 |-> IF k = 0 THEN 0 ELSE s[k - 1] + x(k)]
  <2>1. /\ F[0] = 0 /\ F[1] = s[0] + x(1) /\ F[2] = s[1] + x(2)
        /\ F[3] = s[2] + x(3) /\ F[4] = s[3] + x(4)
    OBVIOUS
  <2>2. s = F
    BY <1>6
  <2> HIDE DEF F
  <2> QED
    BY <2>1, <2>2
<1> HIDE DEF s
<1> DEFINE a == data[1]
           b == data[2]
           c == data[3]
           d == data[4]
<1>8. a \in Nat /\ b \in Nat /\ c \in Nat /\ d \in Nat
  BY <1>2
<1>9. \A t \in Nat : t * 1 = t /\ 0 + t = t
  OBVIOUS
<1>10. ASSUME NEW i \in Nat, NEW j \in Nat, NEW k \in Nat, NEW l \in Nat
       PROVE  i + Radix * (j + Radix * (k + Radix * l)) =
                  ((i + j * Radix) + k * (Radix * Radix)) + l * (Radix * (Radix * Radix))
  <2> DEFINE R == Radix
  <2>1. R \in Nat
    BY Constants
  <2> HIDE DEF R
  <2>2. R * (k + R * l) = k * R + l * (R * R)
    BY <2>1
  <2>3. R * (k * R) = k * (R * R) /\ R * (l * (R * R)) = l * (R * (R * R))
    BY <2>1
  <2>4. k * R \in Nat /\ l * (R * R) \in Nat /\ R * R \in Nat
    BY <2>1
  <2>5. R * (j + (k * R + l * (R * R))) = R * j + (R * (k * R) + R * (l * (R * R)))
    BY <2>1, <2>4
  <2>6. j * R \in Nat /\ k * (R * R) \in Nat /\ l * (R * (R * R)) \in Nat /\ R * j = j * R
    BY <2>1, <2>4
  <2>7. i + R * (j + R * (k + R * l)) = ((i + j * R) + k * (R * R)) + l * (R * (R * R))
    BY <2>2, <2>3, <2>5, <2>6
  <2> QED
    BY <2>7 DEF R
<1>11. CASE e = "little"
  <2>1. x(1) = a /\ x(2) = b * Radix /\ x(3) = c * (Radix * Radix)
        /\ x(4) = d * (Radix * (Radix * Radix))
    <3>1. x(1) = a * weight[0] /\ x(2) = b * weight[1] /\ x(3) = c * weight[2]
          /\ x(4) = d * weight[3]
      BY <1>3, <1>11
    <3> HIDE DEF x, a, b, c, d
    <3> QED
      BY <1>8, <1>9, <3>1, Weights
  <2> HIDE DEF x, a, b, c, d
  <2>2. s[4] = ((a + b * Radix) + c * (Radix * Radix)) + d * (Radix * (Radix * Radix))
    BY <1>7, <1>8, <1>9, <2>1
  <2>3. s[4] = Horner(a, b, c, d)
    BY <1>8, <1>10, <2>2 DEF Horner
  <2> QED
    BY <1>1, <1>11, <2>3 DEF a, b, c, d
<1>12. CASE e # "little"
  <2>1. x(4) = d /\ x(3) = c * Radix /\ x(2) = b * (Radix * Radix)
        /\ x(1) = a * (Radix * (Radix * Radix))
    <3>1. x(4) = d * weight[0] /\ x(3) = c * weight[1] /\ x(2) = b * weight[2]
          /\ x(1) = a * weight[3]
      BY <1>3, <1>12
    <3> HIDE DEF x, a, b, c, d
    <3> QED
      BY <1>8, <1>9, <3>1, Weights
  <2>2. s[4] = ((x(4) + x(3)) + x(2)) + x(1)
    <3> HIDE DEF x
    <3> QED
      BY <1>4, <1>7
  <2> HIDE DEF x, a, b, c, d
  <2>3. s[4] = ((d + c * Radix) + b * (Radix * Radix)) + a * (Radix * (Radix * Radix))
    BY <2>1, <2>2
  <2>4. s[4] = Horner(d, c, b, a)
    BY <1>8, <1>10, <2>3 DEF Horner
  <2> QED
    BY <1>1, <1>12, <2>4 DEF a, b, c, d
<1> QED
  BY <1>11, <1>12

LEMMA DigitBelow ==
    ASSUME NEW R \in Nat \ {0}, NEW w \in Nat \ {0}, NEW d \in 0..(R - 1), NEW e \in 0..(w - 1)
    PROVE  d + R * e \in 0..(R * w - 1)
<1>1. e \in Nat /\ e + 1 <= w
  OBVIOUS
<1>2. R * (e + 1) <= R * w
  BY <1>1
<1>3. R * (e + 1) = R * e + R /\ R * e \in Nat /\ R * w \in Nat
  BY <1>1
<1> QED
  BY <1>2, <1>3

\* The digits of a sum of four digits, and its remainders.
LEMMA HornerDigits ==
    ASSUME NEW a \in Byte, NEW b \in Byte, NEW c \in Byte, NEW d \in Byte
    PROVE  LET h == Horner(a, b, c, d) IN
           /\ h \in 0..(weight[4] - 1)
           /\ digit(h, 0) = a /\ digit(h, 1) = b /\ digit(h, 2) = c /\ digit(h, 3) = d
           /\ h % weight[1] = a /\ h % weight[2] = a + Radix * b /\ h % weight[4] = h
<1> DEFINE R == Radix
           z == c + R * d
           y == b + R * z
           h == a + R * y
           i == a + R * b
           j == a + R * (b + R * c)
<1>1. /\ R \in Nat \ {0} /\ R * R \in Nat \ {0} /\ R * (R * R) \in Nat \ {0}
      /\ R * (R * (R * R)) \in Nat \ {0}
  BY Constants
<1>2. a \in 0..(R - 1) /\ b \in 0..(R - 1) /\ c \in 0..(R - 1) /\ d \in 0..(R - 1)
  BY DEF Byte
<1> SUFFICES /\ h \in 0..(R * (R * (R * R)) - 1)
             /\ (h \div 1) % R = a /\ (h \div R) % R = b /\ (h \div (R * R)) % R = c
             /\ (h \div (R * (R * R))) % R = d
             /\ h % R = a /\ h % (R * R) = i /\ h % (R * (R * (R * R))) = h
  BY Weights DEF Horner, digit
<1> HIDE DEF R
<1>3. z \in 0..(R * R - 1) /\ z \in Nat
  BY <1>1, <1>2, DigitBelow
<1> HIDE DEF z
<1>4. y \in 0..(R * (R * R) - 1) /\ y \in Nat
  BY <1>1, <1>2, <1>3, DigitBelow
<1> HIDE DEF y
<1>5. h \in 0..(R * (R * (R * R)) - 1) /\ h \in Nat
  BY <1>1, <1>2, <1>4, DigitBelow
<1>6. i \in 0..(R * R - 1) /\ b + R * c \in 0..(R * R - 1)
  BY <1>1, <1>2, DigitBelow
<1>7. j \in 0..(R * (R * R) - 1)
  BY <1>1, <1>2, <1>6, DigitBelow
<1>8. h = R * y + a /\ y = R * z + b /\ z = R * d + c
  BY <1>1, <1>2, <1>3, <1>4 DEF h, y, z
<1>9. h = (R * R) * z + i
  <2>1. R * (b + R * z) = R * b + (R * R) * z
    BY <1>1, <1>2, <1>3
  <2>2. R * b \in Nat /\ (R * R) * z \in Nat
    BY <1>1, <1>2, <1>3
  <2> QED
    BY <1>2, <2>1, <2>2 DEF h, y, i
<1>10. h = (R * (R * R)) * d + j
  <2>1. R * (c + R * d) = R * c + (R * R) * d /\ R * c \in Nat /\ (R * R) * d \in Nat
    BY <1>1, <1>2
  <2>2. b + (R * c + (R * R) * d) = (b + R * c) + (R * R) * d
    BY <1>2, <2>1
  <2>3. R * ((b + R * c) + (R * R) * d) = R * (b + R * c) + R * ((R * R) * d)
    BY <1>1, <1>2, <2>1
  <2>4. R * ((R * R) * d) = (R * (R * R)) * d
    BY <1>1, <1>2
  <2>5. R * (b + R * c) \in Nat /\ (R * (R * R)) * d \in Nat
    BY <1>1, <1>2, <2>1
  <2> QED
    BY <1>2, <2>1, <2>2, <2>3, <2>4, <2>5 DEF h, y, z, j
<1>11. h \div R = y /\ h % R = a
  <2>1. h = R * y + a /\ h \in Int /\ y \in Int
    BY <1>4, <1>5, <1>8
  <2> HIDE DEF h
  <2> QED
    BY <1>1, <1>2, <2>1, DivisionUnique
<1>12. y % R = b /\ z % R = c /\ d % R = d
  <2>1. y % R = b
    <3>1. y = R * z + b /\ y \in Int /\ z \in Int
      BY <1>3, <1>4, <1>8
    <3> QED
      BY <1>1, <1>2, <3>1, DivisionUnique
  <2>2. z % R = c
    <3>1. z = R * d + c /\ z \in Int /\ d \in Int
      BY <1>2, <1>3, <1>8
    <3> QED
      BY <1>1, <1>2, <3>1, DivisionUnique
  <2>3. d % R = d
    BY <1>1, <1>2
  <2> QED
    BY <2>1, <2>2, <2>3
<1>13. h \div (R * R) = z /\ h % (R * R) = i
  <2> DEFINE w == R * R
  <2>1. w \in Nat \ {0} /\ i \in 0..(w - 1) /\ h = w * z + i /\ z \in Int /\ h \in Int
    BY <1>1, <1>3, <1>5, <1>6, <1>9
  <2> HIDE DEF w, i, h
  <2>2. h \div w = z /\ h % w = i
    BY <2>1, DivisionUnique
  <2> QED
    BY <2>2 DEF w
<1>14. h \div (R * (R * R)) = d
  <2> DEFINE w == R * (R * R)
  <2>1. w \in Nat \ {0} /\ j \in 0..(w - 1) /\ h = w * d + j /\ d \in Int /\ h \in Int
    BY <1>1, <1>2, <1>5, <1>7, <1>10
  <2> HIDE DEF w, j, h
  <2>2. h \div w = d
    BY <2>1, DivisionUnique
  <2> QED
    BY <2>2 DEF w
<1>15. h % (R * (R * (R * R))) = h
  <2> DEFINE w == R * (R * (R * R))
  <2>1. w \in Nat \ {0} /\ h \in 0..(w - 1)
    BY <1>1, <1>5
  <2> HIDE DEF w, h
  <2>2. h % w = h
    BY <2>1
  <2> QED
    BY <2>2 DEF w
<1>16. (h \div 1) % R = a
  <2>1. h \div 1 = h
    BY <1>5
  <2> QED
    BY <1>11, <2>1
<1> HIDE DEF h, i
<1> QED
  BY <1>5, <1>11, <1>12, <1>13, <1>14, <1>15, <1>16

\* Every value of a register is the sum of its four digits.
LEMMA HornerOfDigits ==
    ASSUME NEW v \in 0..(weight[4] - 1)
    PROVE  v = Horner(digit(v, 0), digit(v, 1), digit(v, 2), digit(v, 3))
<1> DEFINE R == Radix
           q == v \div R
           s == q \div R
           t == s \div R
           a == v % R
           b == q % R
           c == s % R
<1>1. R \in Nat \ {0}
  BY Constants
<1>2. v \in Nat /\ v < R * (R * (R * R))
  BY Weights
<1> HIDE DEF R
<1>3. v = R * q + a /\ a \in 0..(R - 1) /\ q \in Nat
  BY <1>1, <1>2, Division
<1> HIDE DEF q, a
<1>4. q = R * s + b /\ b \in 0..(R - 1) /\ s \in Nat
  BY <1>1, <1>3, Division
<1> HIDE DEF s, b
<1>5. s = R * t + c /\ c \in 0..(R - 1) /\ t \in Nat
  BY <1>1, <1>4, Division
<1> HIDE DEF t, c
<1>6. q < R * (R * R)
  <2>1. SUFFICES ASSUME q >= R * (R * R) PROVE FALSE
    BY <1>1, <1>3
  <2>2. R * q >= R * (R * (R * R))
    <3> DEFINE w == R * (R * R)
    <3>1. w \in Nat /\ q >= w
      BY <1>1, <2>1
    <3> HIDE DEF w
    <3>2. R * q >= R * w
      BY <1>1, <1>3, <3>1
    <3> QED
      BY <3>2 DEF w
  <2>3. R * q \in Nat /\ R * (R * (R * R)) \in Nat
    BY <1>1, <1>3
  <2> QED
    BY <1>2, <1>3, <2>2, <2>3
<1>7. s < R * R
  <2>1. SUFFICES ASSUME s >= R * R PROVE FALSE
    BY <1>1, <1>4
  <2>2. R * s >= R * (R * R)
    <3> DEFINE w == R * R
    <3>1. w \in Nat /\ s >= w
      BY <1>1, <2>1
    <3> HIDE DEF w
    <3>2. R * s >= R * w
      BY <1>1, <1>4, <3>1
    <3> QED
      BY <3>2 DEF w
  <2>3. R * s \in Nat /\ R * (R * R) \in Nat
    BY <1>1, <1>4
  <2> QED
    BY <1>4, <1>6, <2>2, <2>3
<1>8. t < R
  <2>1. SUFFICES ASSUME t >= R PROVE FALSE
    BY <1>1, <1>5
  <2>2. R * t >= R * R
    BY <1>1, <1>5, <2>1
  <2>3. R * t \in Nat /\ R * R \in Nat
    BY <1>1, <1>5
  <2> QED
    BY <1>5, <1>7, <2>2, <2>3
<1>9. v = a + R * (b + R * (c + R * t))
  <2>1. c + R * t = s
    BY <1>1, <1>5
  <2>2. b + R * s = q
    BY <1>1, <1>4
  <2>3. a + R * q = v
    BY <1>1, <1>3
  <2> QED
    BY <2>1, <2>2, <2>3
<1>10. a \in Byte /\ b \in Byte /\ c \in Byte /\ t \in Byte
  BY <1>1, <1>3, <1>4, <1>5, <1>8 DEF Byte, R
<1>11. v = Horner(a, b, c, t)
  BY <1>9 DEF Horner, R
<1>12. digit(v, 0) = a /\ digit(v, 1) = b /\ digit(v, 2) = c /\ digit(v, 3) = t
  BY <1>10, <1>11, HornerDigits
<1> QED
  BY <1>11, <1>12

(* Loads and stores *)

\* What memcpy_guest_to_host returns.
LEMMA HostBytes ==
    ASSUME NEW m \in Memory, NEW a \in Nat
    PROVE  /\ guest_to_host(m, a, Width) \in Seq(Byte) /\ Len(guest_to_host(m, a, Width)) = 4
           /\ \A k \in 1..4 : guest_to_host(m, a, Width)[k] = check_and_read_byte(m, a + k - 1)
<1> DEFINE g(k) == check_and_read_byte(m, a + k - 1)
<1>1. \A k \in 1..4 : g(k) \in Byte
  <2> TAKE k \in 1..4
  <2>1. a + k - 1 \in Nat
    OBVIOUS
  <2> QED
    BY <2>1, ByteRead
<1>2. guest_to_host(m, a, Width) = [k \in 1..4 |-> g(k)]
  BY Constants DEF guest_to_host
<1> HIDE DEF g
<1>3. [k \in 1..4 |-> g(k)] \in Seq(Byte) /\ Len([k \in 1..4 |-> g(k)]) = 4
  BY <1>1
<1> QED
  BY <1>2, <1>3 DEF g

\* read of a register.
LEMMA RegisterRead ==
    ASSUME NEW m \in Memory, NEW a \in Nat, NEW e
    PROVE  LET g(k) == check_and_read_byte(m, a + k) IN
           /\ g(0) \in Byte /\ g(1) \in Byte /\ g(2) \in Byte /\ g(3) \in Byte
           /\ read(m, e, a) = IF e = "little" THEN Horner(g(0), g(1), g(2), g(3))
                              ELSE Horner(g(3), g(2), g(1), g(0))
<1> DEFINE g(k) == check_and_read_byte(m, a + k)
           x == guest_to_host(m, a, Width)
<1>1. g(0) \in Byte /\ g(1) \in Byte /\ g(2) \in Byte /\ g(3) \in Byte
  <2>1. a + 0 \in Nat /\ a + 1 \in Nat /\ a + 2 \in Nat /\ a + 3 \in Nat
    OBVIOUS
  <2> QED
    BY <2>1, ByteRead
<1>2. x \in Seq(Byte) /\ Len(x) = 4 /\ \A k \in 1..4 : x[k] = check_and_read_byte(m, a + k - 1)
  BY HostBytes
<1>3. x[1] = g(0) /\ x[2] = g(1) /\ x[3] = g(2) /\ x[4] = g(3)
  <2>1. a + 1 - 1 = a + 0 /\ a + 2 - 1 = a + 1 /\ a + 3 - 1 = a + 2 /\ a + 4 - 1 = a + 3
    OBVIOUS
  <2>2. /\ x[1] = check_and_read_byte(m, a + 1 - 1) /\ x[2] = check_and_read_byte(m, a + 2 - 1)
        /\ x[3] = check_and_read_byte(m, a + 3 - 1) /\ x[4] = check_and_read_byte(m, a + 4 - 1)
    BY <1>2
  <2> QED
    BY <2>1, <2>2
<1>4. read(m, e, a) = pack_array(e, x)
  BY DEF read
<1> HIDE DEF x, g
<1>5. read(m, e, a) = IF e = "little" THEN Horner(g(0), g(1), g(2), g(3))
                      ELSE Horner(g(3), g(2), g(1), g(0))
  BY <1>2, <1>3, <1>4, Packed
<1> QED
  BY <1>1, <1>5 DEF g

LEMMA Combined ==
    ASSUME NEW u \in Nat, NEW v \in Nat, NEW mask
    PROVE  /\ combined(u, v, mask) \in Nat
           /\ \A k \in 0..3 : /\ k \in mask => digit(combined(u, v, mask), k) = digit(u, k)
                              /\ k \notin mask => digit(combined(u, v, mask), k) = digit(v, k)
<1> DEFINE c(k) == IF k \in mask THEN digit(u, k) ELSE digit(v, k)
           d(k) == IF k - 1 \in mask THEN digit(u, k - 1) ELSE digit(v, k - 1)
           x == [k \in 1..4 |-> d(k)]
<1>1. \A k \in 0..3 : c(k) \in Byte
  BY DigitIsByte
<1>2. combined(u, v, mask) = pack_array("little", x)
  BY Constants DEF combined
<1>3. \A k \in 1..4 : d(k) \in Byte
  <2> TAKE k \in 1..4
  <2>1. k - 1 \in Nat
    OBVIOUS
  <2> QED
    BY <2>1, DigitIsByte
<1>4. d(1) = c(0) /\ d(2) = c(1) /\ d(3) = c(2) /\ d(4) = c(3)
  <2>1. 1 - 1 = 0 /\ 2 - 1 = 1 /\ 3 - 1 = 2 /\ 4 - 1 = 3
    OBVIOUS
  <2> QED
    BY <2>1
<1> HIDE DEF c, d
<1>5. x \in Seq(Byte) /\ Len(x) = 4 /\ x[1] = c(0) /\ x[2] = c(1) /\ x[3] = c(2) /\ x[4] = c(3)
  BY <1>3, <1>4
<1> HIDE DEF x
<1>6. combined(u, v, mask) = Horner(c(0), c(1), c(2), c(3))
  BY <1>2, <1>5, Packed
<1> DEFINE h == Horner(c(0), c(1), c(2), c(3))
<1>7. h \in 0..(weight[4] - 1)
      /\ digit(h, 0) = c(0) /\ digit(h, 1) = c(1) /\ digit(h, 2) = c(2) /\ digit(h, 3) = c(3)
  BY <1>1, HornerDigits
<1> HIDE DEF h
<1>8. h \in Nat
  BY <1>7, Weights
<1>9. \A k \in 0..3 : digit(h, k) = c(k)
  <2>1. \A k \in 0..3 : k \in {0, 1, 2, 3}
    OBVIOUS
  <2> QED
    BY <1>7, <2>1
<1> QED
  BY <1>6, <1>8, <1>9 DEF h, c

Access(x) == x.addr \in Nat /\ x.size \in {1, 2, 4} /\ (0..(x.size - 1) \subseteq x.mask \/ x.size = 4)

\* What store writes is a sequence of bytes.
LEMMA StoredBytes ==
    ASSUME NEW m \in Memory, NEW e, NEW x, Access(x), NEW v \in Nat
    PROVE  stored_bytes(m, e, x, v) \in Seq(Byte) /\ Len(stored_bytes(m, e, x, v)) = x.size
<1>1. CASE 0..(x.size - 1) \subseteq x.mask
  <2>1. x.size \in 1..4
    BY DEF Access
  <2>2. stored_bytes(m, e, x, v) = unpack_array(e, v, x.size)
    BY <1>1 DEF stored_bytes
  <2> DEFINE n == x.size
  <2> HIDE DEF n
  <2>3. unpack_array(e, v, n) \in Seq(Byte) /\ Len(unpack_array(e, v, n)) = n
    BY <2>1, Unpacked DEF n
  <2> QED
    BY <2>2, <2>3 DEF n
<1>2. CASE ~ (0..(x.size - 1) \subseteq x.mask)
  <2> DEFINE r == read(m, e, x.addr)
             c == combined(v, r, x.mask)
  <2>1. stored_bytes(m, e, x, v) = unpack_array(e, c, 4) /\ x.size = 4
    BY <1>2, Constants DEF stored_bytes, Access
  <2>2. r \in Nat
    <3>1. \A h : h \in 0..(weight[4] - 1) => h \in Nat
      BY Weights
    <3>2. r \in 0..(weight[4] - 1)
      BY RegisterRead, HornerDigits DEF Access
    <3> QED
      BY <3>1, <3>2
  <2> HIDE DEF r
  <2>3. c \in Nat
    BY <2>2, Combined
  <2> HIDE DEF c
  <2> QED
    BY <2>1, <2>3, Unpacked
<1> QED
  BY <1>1, <1>2

LEMMA Masked ==
    ASSUME NEW m \in Memory, NEW a \in Nat, NEW s, NEW v \in Nat
    PROVE  \A k \in 1..4 : unpack_array("little", combined(v, read(m, "little", a), s), 4)[k] =
               IF k - 1 \in s THEN digit(v, k - 1) ELSE check_and_read_byte(m, a + (k - 1))
<1> SUFFICES ASSUME NEW k \in 1..4
             PROVE  unpack_array("little", combined(v, read(m, "little", a), s), 4)[k] =
               IF k - 1 \in s THEN digit(v, k - 1) ELSE check_and_read_byte(m, a + (k - 1))
  OBVIOUS
<1> DEFINE r == read(m, "little", a)
           c == combined(v, r, s)
           g(i) == check_and_read_byte(m, a + i)
<1>1. r = Horner(g(0), g(1), g(2), g(3))
      /\ g(0) \in Byte /\ g(1) \in Byte /\ g(2) \in Byte /\ g(3) \in Byte
  BY RegisterRead
<1> HIDE DEF r, g
<1>2. r \in 0..(weight[4] - 1)
      /\ digit(r, 0) = g(0) /\ digit(r, 1) = g(1) /\ digit(r, 2) = g(2) /\ digit(r, 3) = g(3)
  BY <1>1, HornerDigits
<1>3. r \in Nat
  BY <1>2, Weights
<1>4. k - 1 \in 0..3 /\ k - 1 \in {0, 1, 2, 3}
  OBVIOUS
<1>5. digit(r, k - 1) = g(k - 1)
  BY <1>2, <1>4
<1>6. /\ k - 1 \in s => digit(c, k - 1) = digit(v, k - 1)
      /\ k - 1 \notin s => digit(c, k - 1) = digit(r, k - 1)
  BY <1>3, <1>4, Combined
<1> HIDE DEF c
<1>7. unpack_array("little", c, 4)[k] = digit(c, k - 1)
  BY UnpackedLittle
<1> QED
  BY <1>5, <1>6, <1>7 DEF c, r, g

\* In memory of little endian, an access of a register changes the bytes of its mask.
LEMMA StoredMask ==
    ASSUME NEW m \in Memory, NEW x, x.addr \in Nat, x.size = 4, NEW v \in Nat
    PROVE  \A k \in 1..4 : stored_bytes(m, "little", x, v)[k] =
               IF k - 1 \in x.mask THEN digit(v, k - 1) ELSE check_and_read_byte(m, x.addr + (k - 1))
<1> SUFFICES ASSUME NEW k \in 1..4
             PROVE  stored_bytes(m, "little", x, v)[k] =
               IF k - 1 \in x.mask THEN digit(v, k - 1) ELSE check_and_read_byte(m, x.addr + (k - 1))
  OBVIOUS
<1>1. CASE 0..3 \subseteq x.mask
  <2>1. stored_bytes(m, "little", x, v) = unpack_array("little", v, 4)
    BY <1>1 DEF stored_bytes
  <2>2. unpack_array("little", v, 4)[k] = digit(v, k - 1)
    BY UnpackedLittle
  <2>3. k - 1 \in x.mask
    BY <1>1
  <2> QED
    BY <2>1, <2>2, <2>3
<1>2. CASE ~ (0..3 \subseteq x.mask)
  <2>1. stored_bytes(m, "little", x, v) =
            unpack_array("little", combined(v, read(m, "little", x.addr), x.mask), 4)
    BY <1>2, Constants DEF stored_bytes
  <2> QED
    BY <2>1, Masked
<1> QED
  BY <1>1, <1>2

-----------------------------------------------------------------------------
(* The inductive invariant: the primary has the shape of its vectors, and a *)
(* replica has the size and the bytes of the primary.                      *)

ReplicaOK ==
    arena # None => /\ arena \in [0..(Limit - 1) -> Byte]
                    /\ \A a \in 0..(Limit - 1) : arena[a] = check_and_read_byte(memory, a)
IInv == memory \in Memory /\ ReplicaOK

LEMMA BytesAre == \A a \in 0..(Limit - 1) : Bytes[a] = check_and_read_byte(memory, a)
BY DEF Bytes

LEMMA InitInv == Init => IInv
BY DEF Init, IInv, ReplicaOK, Memory

\* A copy to the primary and to the replica.
LEMMA CopyInv ==
    ASSUME IInv, NEW dst \in Nat, NEW data \in Seq(Byte),
           Len(data) # 0 => dst + Len(data) <= Limit,
           memory' = copied(memory, dst, data),
           arena' = IF arena = None THEN arena ELSE plain_copied(arena, dst, data)
    PROVE  IInv'
<1> DEFINE D == 0..(Limit - 1)
           last == dst + Len(data) - 1
           m == copied(memory, dst, data)
<1>1. memory \in Memory
  BY DEF IInv
<1>2. m \in Memory /\ \A a \in D : check_and_read_byte(m, a) =
          IF a \in dst..last THEN data[a - dst + 1] ELSE check_and_read_byte(memory, a)
  BY <1>1, Copied
<1> HIDE DEF m
<1>3. memory' = m
  BY DEF m
<1>4. ASSUME arena' # None
      PROVE  arena' \in [D -> Byte] /\ \A a \in D : arena'[a] = check_and_read_byte(m, a)
  <2>1. arena # None /\ arena' = plain_copied(arena, dst, data)
    BY <1>4
  <2>2. arena \in [D -> Byte] /\ \A a \in D : arena[a] = check_and_read_byte(memory, a)
    BY <2>1 DEF IInv, ReplicaOK
  <2>3. ASSUME NEW a \in D, a \in dst..last PROVE data[a - dst + 1] \in Byte
    <3>1. a - dst + 1 \in 1..Len(data)
      BY <2>3, Geometry
    <3> QED
      BY <3>1
  <2>4. arena' = [a \in D |-> IF a \in dst..last THEN data[a - dst + 1] ELSE arena[a]]
    BY <2>1, <2>2 DEF plain_copied
  <2> HIDE DEF D, last
  <2>5. arena' \in [D -> Byte]
    BY <2>2, <2>3, <2>4
  <2>6. \A a \in D : arena'[a] = IF a \in dst..last THEN data[a - dst + 1] ELSE arena[a]
    BY <2>4
  <2> QED
    BY <1>2, <2>2, <2>5, <2>6
<1> QED
  BY <1>2, <1>3, <1>4 DEF IInv, ReplicaOK

\* The conditions of in_range say that the range lies in the memory.
LEMMA Ranges ==
    ASSUME NEW dst \in Nat, NEW size \in Nat
    PROVE  in_range(dst, size) <=> dst + size <= Limit
BY Geometry DEF in_range

LEMMA AccessesAre ==
    ASSUME NEW a \in Nat, NEW x \in Accesses(a)
    PROVE  Access(x)
<1>1. a % 4 \in 0..3 /\ (a - 3) % Addresses \in Nat
  <2>1. Addresses \in Nat \ {0} /\ a - 3 \in Int
    BY Constants, Geometry
  <2>2. \A i \in Int : i % Addresses \in Nat
    BY <2>1
  <2> QED
    BY <2>1, <2>2
<1>2. x \in {whole(a, 1), whole(a, 2), whole(a, 4)} \/ x = right32(a) \/ x = left32(a)
  BY DEF Accesses
<1>3. CASE x \in {whole(a, 1), whole(a, 2), whole(a, 4)}
  BY <1>3 DEF whole, Access
<1>4. CASE x = right32(a)
  BY <1>4, Constants DEF right32, Access
<1>5. CASE x = left32(a)
  <2>1. x.addr = (a - 3) % Addresses /\ x.size = 4
    BY <1>5, Constants DEF left32
  <2> QED
    BY <1>1, <2>1 DEF Access
<1> QED
  BY <1>2, <1>3, <1>4, <1>5

LEMMA StoreInv ==
    ASSUME IInv, NEW e, NEW x, Access(x), NEW v \in Nat, Store(e, x, v)
    PROVE  IInv'
<1> DEFINE data == stored_bytes(memory, e, x, v)
<1>1. data \in Seq(Byte) /\ Len(data) \in Nat /\ x.addr \in Nat
  <2>1. memory \in Memory
    BY DEF IInv
  <2>2. data \in Seq(Byte) /\ x.addr \in Nat
    BY <2>1, StoredBytes DEF Access
  <2> HIDE DEF data
  <2> QED
    BY <2>2
<1>2. CASE UNCHANGED <<memory, arena>>
  BY <1>2 DEF IInv, ReplicaOK
<1>3. CASE /\ in_range(x.addr, Len(data)) /\ memory' = copied(memory, x.addr, data)
           /\ arena' = IF arena = None THEN arena ELSE plain_copied(arena, x.addr, data)
  <2> HIDE DEF data
  <2>1. x.addr + Len(data) <= Limit
    BY <1>1, <1>3, Ranges
  <2> QED
    BY <1>1, <1>3, <2>1, CopyInv
<1> QED
  BY <1>2, <1>3 DEF Store, Copy

LEMMA MemsetInv ==
    ASSUME IInv, NEW a \in Nat, NEW b \in Byte, NEW size \in Nat, Memset(a, b, size)
    PROVE  IInv'
<1> DEFINE n == IF a + size <= Limit THEN size ELSE IF a > Limit THEN 0 ELSE Limit - a
           data == [k \in 1..n |-> b]
<1>1. n \in Nat /\ (a + n <= Limit \/ n = 0)
  BY Geometry
<1>2. /\ memory' = copied(memory, a, data)
      /\ arena' = IF arena = None THEN arena ELSE plain_copied(arena, a, data)
  BY DEF Memset
<1> HIDE DEF n
<1>3. data \in Seq(Byte) /\ Len(data) = n
  BY <1>1
<1> HIDE DEF data
<1> QED
  BY <1>1, <1>2, <1>3, CopyInv

\* A page that was never written reads as the zeros of a fresh replica.
LEMMA AddReplicaInv ==
    ASSUME IInv, AddReplica
    PROVE  IInv'
<1> DEFINE D == 0..(Limit - 1)
           z == [a \in D |-> 0]
           There(a) == \E s \in Sets : memory[s] # None /\ \E p \in Pages : memory[s][p] # None /\
                          \E o \in 0..(page_size - 1) : a = get_addr(s, p, o)
<1>1. memory \in Memory
  BY DEF IInv
<1>2. memory' = memory /\ arena' = duplicated(memory, z)
  BY DEF AddReplica
<1>3. duplicated(memory, z) = [a \in D |-> IF There(a) THEN check_and_read_byte(memory, a) ELSE 0]
  BY DEF duplicated
<1>4. ASSUME NEW a \in D, ~There(a) PROVE check_and_read_byte(memory, a) = 0
  <2>1. /\ get_set(a) \in Sets /\ get_page(a) \in Pages /\ get_offset(a) \in 0..(page_size - 1)
        /\ a = get_addr(get_set(a), get_page(a), get_offset(a))
    BY AddressParts, Geometry DEF Offsets
  <2>2. ~check(memory, a)
    BY <1>4, <2>1 DEF check
  <2> QED
    BY <2>2 DEF check_and_read_byte
<1>5. \A a \in D : check_and_read_byte(memory, a) \in Byte
  BY <1>1, ByteRead, Geometry
<1> HIDE DEF There, D
<1>6. arena' = [a \in D |-> check_and_read_byte(memory, a)]
  BY <1>2, <1>3, <1>4
<1>7. arena' \in [D -> Byte] /\ \A a \in D : arena'[a] = check_and_read_byte(memory, a)
  BY <1>5, <1>6
<1> QED
  BY <1>1, <1>2, <1>7 DEF IInv, ReplicaOK, D

LEMMA StepInv == IInv /\ [Next]_vars => IInv'
<1> SUFFICES ASSUME IInv, [Next]_vars PROVE IInv'
  OBVIOUS
<1>1. CASE UNCHANGED vars
  BY <1>1 DEF vars, IInv, ReplicaOK
<1>2. ASSUME NEW a \in Near, NEW e \in {"little", "big"}, NEW x \in Accesses(a), NEW v \in Stored,
             Store(e, x, v)
      PROVE  IInv'
  <2>1. a \in Nat /\ v \in Nat
    <3>1. \A i : i \in 0..(weight[Width] - 1) => i \in Nat
      BY Weights, Constants
    <3> QED
      BY <3>1, GuestMemoryAssumption, Geometry DEF Near
  <2> QED
    BY <1>2, <2>1, AccessesAre, StoreInv
<1>3. ASSUME NEW a \in Near, NEW b \in Byte, NEW size \in 0..2, Memset(a, b, size)
      PROVE  IInv'
  <2>1. a \in Nat /\ size \in Nat
    BY Geometry DEF Near
  <2> QED
    BY <1>3, <2>1, MemsetInv
<1>4. CASE AddReplica
  BY <1>4, AddReplicaInv
<1> QED
  BY <1>1, <1>2, <1>3, <1>4 DEF Next

LEMMA Always == Spec => []IInv
BY InitInv, StepInv, PTL DEF Spec

\* For every geometry and every byte: FuncMemoryReplicant keeps the replica and
\* the primary equal, and duplicate_to makes them so.
THEOREM MemoryReplicaAgrees == Spec => []ReplicaAgrees
<1>1. IInv => ReplicaAgrees
  BY BytesAre DEF IInv, ReplicaOK, ReplicaAgrees
<1> QED
  BY <1>1, Always, PTL

\* For every geometry and every byte: memcpy_host_to_guest on sets and pages
\* allocated on demand is a copy to an array, and refuses exactly what lies outside.
THEOREM MemoryCopyIsExact == Spec => []CopyIsExact
<1>1. IInv => CopyIsExact
  <2> SUFFICES ASSUME IInv, NEW dst \in 0..(Addresses - 1), NEW size \in {1, 2, 4}
               PROVE  /\ in_range(dst, size) <=> dst + size <= Limit
                      /\ in_range(dst, size) =>
                          \A data \in [1..size -> Byte] :
                              \A a \in 0..(Limit - 1) :
                                  check_and_read_byte(copied(memory, dst, data), a) =
                                      IF a \in dst..(dst + size - 1) THEN data[a - dst + 1] ELSE Bytes[a]
    BY DEF CopyIsExact
  <2>1. dst \in Nat /\ size \in Nat
    BY Constants
  <2>2. in_range(dst, size) <=> dst + size <= Limit
    BY <2>1, Ranges
  <2>3. ASSUME dst + size <= Limit, NEW data \in [1..size -> Byte], NEW a \in 0..(Limit - 1)
        PROVE  check_and_read_byte(copied(memory, dst, data), a) =
                   IF a \in dst..(dst + size - 1) THEN data[a - dst + 1] ELSE Bytes[a]
    <3>1. data \in Seq(Byte) /\ Len(data) = size
      BY <2>1
    <3>2. memory \in Memory
      BY DEF IInv
    <3>3. check_and_read_byte(copied(memory, dst, data), a) =
              IF a \in dst..(dst + Len(data) - 1) THEN data[a - dst + 1]
              ELSE check_and_read_byte(memory, a)
      BY <2>1, <2>3, <3>1, <3>2, Copied
    <3> QED
      BY <3>1, <3>3, BytesAre
  <2> QED
    BY <2>2, <2>3
<1> QED
  BY <1>1, Always, PTL

\* The bytes of an access after it is stored.
LEMMA StoredAt ==
    ASSUME NEW m \in Memory, NEW e, NEW x, Access(x), NEW v \in Nat, x.addr + x.size <= Limit
    PROVE  LET data == stored_bytes(m, e, x, v)
               n == copied(m, x.addr, data)
           IN  /\ n \in Memory
               /\ \A a \in 0..(Limit - 1) : check_and_read_byte(n, a) =
                      IF a \in x.addr..(x.addr + x.size - 1) THEN data[a - x.addr + 1]
                      ELSE check_and_read_byte(m, a)
<1> DEFINE data == stored_bytes(m, e, x, v)
           d == x.addr
<1>1. data \in Seq(Byte) /\ Len(data) = x.size /\ d \in Nat
  BY StoredBytes DEF Access
<1> HIDE DEF data, d
<1>2. d + Len(data) <= Limit
  BY <1>1 DEF d
<1>3. /\ copied(m, d, data) \in Memory
      /\ \A a \in 0..(Limit - 1) : check_and_read_byte(copied(m, d, data), a) =
             IF a \in d..(d + Len(data) - 1) THEN data[a - d + 1]
             ELSE check_and_read_byte(m, a)
  BY <1>1, <1>2, Copied
<1> QED
  BY <1>1, <1>3 DEF data, d

\* The low digits of a value are its remainder.
LEMMA Remainders ==
    ASSUME NEW v \in Values, NEW a \in Byte, NEW b \in Byte, NEW c \in Byte, NEW d \in Byte,
           NEW size \in {1, 2, 4},
           a = digit(v, 0), size # 1 => b = digit(v, 1),
           size = 4 => c = digit(v, 2) /\ d = digit(v, 3)
    PROVE  Horner(a, b, c, d) % weight[size] = v % weight[size]
<1>1. v \in 0..(weight[4] - 1) /\ v \in Nat
  BY Constants, Weights DEF Values
<1> DEFINE i == digit(v, 0)
           j == digit(v, 1)
           k == digit(v, 2)
           l == digit(v, 3)
<1>2. i \in Byte /\ j \in Byte /\ k \in Byte /\ l \in Byte
  BY <1>1, DigitIsByte
<1>3. v = Horner(i, j, k, l)
  BY <1>1, HornerOfDigits
<1> HIDE DEF i, j, k, l
<1>4. v % weight[1] = i /\ v % weight[2] = i + Radix * j
  BY <1>2, <1>3, HornerDigits
<1>5. Horner(a, b, c, d) % weight[1] = a /\ Horner(a, b, c, d) % weight[2] = a + Radix * b
  BY HornerDigits
<1>6. CASE size = 1
  BY <1>4, <1>5, <1>6 DEF i
<1>7. CASE size = 2
  BY <1>4, <1>5, <1>7 DEF i, j
<1>8. CASE size = 4
  BY <1>3, <1>8 DEF i, j, k, l
<1> QED
  BY <1>6, <1>7, <1>8

\* For every geometry, every byte and every value: a load returns what the same
\* access stored, of any size in little endian and of a register in big endian.
THEOREM MemoryLoadReturnsStore == Spec => []LoadReturnsStore
<1>1. IInv => LoadReturnsStore
  <2> SUFFICES ASSUME IInv, NEW a \in 1..(Limit - Width), NEW e \in {"little", "big"},
                      NEW size \in {1, 2, 4}, NEW v \in Values, e = "little" \/ size = Width
               PROVE  load(After(e, whole(a, size), v), e, whole(a, size)) = v % weight[size]
    BY DEF LoadReturnsStore
  <2> DEFINE x == whole(a, size)
             data == stored_bytes(memory, e, x, v)
             n == copied(memory, x.addr, data)
             g(k) == check_and_read_byte(n, a + k)
  <2>1. memory \in Memory /\ v \in Nat /\ a \in Nat /\ a + 4 <= Limit /\ size \in 1..4
    <3>1. \A i : i \in 0..(weight[4] - 1) => i \in Nat
      BY Weights
    <3> QED
      BY <3>1, Constants, Geometry DEF IInv, Values
  <2>2. x.addr = a /\ x.size = size /\ Access(x) /\ x.addr + x.size <= Limit
        /\ 0..(x.size - 1) \subseteq x.mask
    BY <2>1, Geometry DEF whole, Access
  <2>3. data = unpack_array(e, v, size)
    BY <2>2 DEF stored_bytes
  <2>4. load(After(e, x, v), e, x) = read(n, e, a) % weight[size]
    BY <2>2 DEF load, After
  <2> HIDE DEF x
  <2>5. n \in Memory /\ \A b \in 0..(Limit - 1) : check_and_read_byte(n, b) =
            IF b \in a..(a + size - 1) THEN data[b - a + 1] ELSE check_and_read_byte(memory, b)
    BY <2>1, <2>2, StoredAt
  <2> HIDE DEF n, data
  <2>6. ASSUME NEW k \in 0..3, k < size PROVE g(k) = data[k + 1]
    <3>1. a + k \in 0..(Limit - 1) /\ a + k \in a..(a + size - 1) /\ (a + k) - a + 1 = k + 1
      BY <2>1, <2>6, Geometry
    <3> QED
      BY <2>5, <3>1
  <2>7. /\ g(0) \in Byte /\ g(1) \in Byte /\ g(2) \in Byte /\ g(3) \in Byte
        /\ read(n, e, a) = IF e = "little" THEN Horner(g(0), g(1), g(2), g(3))
                           ELSE Horner(g(3), g(2), g(1), g(0))
    BY <2>1, <2>5, RegisterRead
  <2> HIDE DEF g
  <2>8. \A k \in 1..size : data[k] = digit(v, IF e = "little" THEN k - 1 ELSE size - k)
    BY <2>3 DEF unpack_array
  <2>9. CASE e = "little"
    <3>1. g(0) = digit(v, 0)
      BY <2>1, <2>6, <2>8, <2>9
    <3>2. size # 1 => g(1) = digit(v, 1)
      BY <2>1, <2>6, <2>8, <2>9
    <3>3. size = 4 => g(2) = digit(v, 2) /\ g(3) = digit(v, 3)
      BY <2>1, <2>6, <2>8, <2>9
    <3>4. read(n, e, a) % weight[size] = v % weight[size]
      BY <2>7, <2>9, <3>1, <3>2, <3>3, Remainders
    <3> QED
      BY <2>4, <3>4 DEF x
  <2>10. CASE e # "little" /\ size = 4
    <3>1. g(3) = digit(v, 0) /\ g(2) = digit(v, 1) /\ g(1) = digit(v, 2) /\ g(0) = digit(v, 3)
      BY <2>1, <2>6, <2>8, <2>10
    <3>2. read(n, e, a) % weight[size] = v % weight[size]
      BY <2>7, <2>10, <3>1, Remainders
    <3> QED
      BY <2>4, <3>2 DEF x
  <2> QED
    BY <2>9, <2>10, Constants
<1> QED
  BY <1>1, Always, PTL

\* An access of a register in memory of little endian writes the bytes of its mask.
LEMMA MaskWritten ==
    ASSUME NEW m \in Memory, NEW a \in Nat, a + 4 <= Limit, NEW x, x.addr = a, x.size = 4,
           NEW v \in Nat
    PROVE  LET n == copied(m, a, stored_bytes(m, "little", x, v)) IN
           /\ n \in Memory
           /\ \A b \in 0..(Limit - 1) : check_and_read_byte(n, b) =
                  IF b \in a..(a + 3) /\ b - a \in x.mask THEN digit(v, b - a)
                  ELSE check_and_read_byte(m, b)
<1> DEFINE y == stored_bytes(m, "little", x, v)
           n == copied(m, a, y)
<1>1. Access(x) /\ x.addr + x.size <= Limit
  BY DEF Access
<1>2. n \in Memory /\ \A b \in 0..(Limit - 1) : check_and_read_byte(n, b) =
          IF b \in a..(a + 4 - 1) THEN y[b - a + 1] ELSE check_and_read_byte(m, b)
  BY <1>1, StoredAt
<1>3. \A k \in 1..4 : y[k] =
          IF k - 1 \in x.mask THEN digit(v, k - 1) ELSE check_and_read_byte(m, a + (k - 1))
  BY StoredMask
<1> HIDE DEF y, n
<1>4. ASSUME NEW b \in 0..(Limit - 1)
      PROVE  check_and_read_byte(n, b) =
                 IF b \in a..(a + 3) /\ b - a \in x.mask THEN digit(v, b - a)
                 ELSE check_and_read_byte(m, b)
  <2>1. b \in a..(a + 3) <=> b \in a..(a + 4 - 1)
    OBVIOUS
  <2>2. CASE b \in a..(a + 3)
    <3>1. b - a + 1 \in 1..4 /\ (b - a + 1) - 1 = b - a /\ a + (b - a) = b
      BY <2>2, Geometry
    <3>2. y[b - a + 1] = IF b - a \in x.mask THEN digit(v, b - a) ELSE check_and_read_byte(m, b)
      BY <1>3, <3>1
    <3> QED
      BY <1>2, <2>1, <2>2, <3>2
  <2>3. CASE b \notin a..(a + 3)
    BY <1>2, <2>1, <2>3
  <2> QED
    BY <2>2, <2>3
<1> QED
  BY <1>2, <1>4 DEF y, n

\* Two such accesses.
LEMMA PairWritten ==
    ASSUME NEW m \in Memory, NEW a \in Nat, a + 4 <= Limit, NEW v \in Nat,
           NEW l, l.addr = a, l.size = 4, NEW r, r.addr = a, r.size = 4
    PROVE  LET h == copied(m, a, stored_bytes(m, "little", l, v))
               n == copied(h, a, stored_bytes(h, "little", r, v))
           IN  \A b \in 0..(Limit - 1) : check_and_read_byte(n, b) =
                  IF b \in a..(a + 3) /\ (b - a \in l.mask \/ b - a \in r.mask) THEN digit(v, b - a)
                  ELSE check_and_read_byte(m, b)
<1> DEFINE h == copied(m, a, stored_bytes(m, "little", l, v))
           n == copied(h, a, stored_bytes(h, "little", r, v))
<1>1. h \in Memory
  BY MaskWritten
<1>2. \A b \in 0..(Limit - 1) : check_and_read_byte(h, b) =
          IF b \in a..(a + 3) /\ b - a \in l.mask THEN digit(v, b - a) ELSE check_and_read_byte(m, b)
  BY MaskWritten
<1> HIDE DEF h
<1>3. \A b \in 0..(Limit - 1) : check_and_read_byte(n, b) =
          IF b \in a..(a + 3) /\ b - a \in r.mask THEN digit(v, b - a) ELSE check_and_read_byte(h, b)
  BY <1>1, MaskWritten
<1> HIDE DEF n
<1>4. \A b \in 0..(Limit - 1) : check_and_read_byte(n, b) =
          IF b \in a..(a + 3) /\ (b - a \in l.mask \/ b - a \in r.mask) THEN digit(v, b - a)
          ELSE check_and_read_byte(m, b)
  BY <1>2, <1>3
<1> QED
  BY <1>4 DEF h, n

\* For every geometry, every byte and every value: swl and swr write an
\* unaligned word, each its part of it, and leave the other bytes alone.
THEOREM MemoryUnalignedPair == Spec => []UnalignedPair
<1>1. IInv => UnalignedPair
  <2> SUFFICES ASSUME IInv, NEW a \in 1..(Limit - Width), NEW v \in Values
               PROVE  LET l == left32(a + 3)
                          m == After("little", l, v)
                          n == copied(m, a, stored_bytes(m, "little", right32(a), v))
                      IN  \A b \in 0..(Limit - 1) :
                              check_and_read_byte(n, b) =
                                  IF b \in a..(a + 3) THEN digit(v, b - a) ELSE Bytes[b]
    BY DEF UnalignedPair
  <2> DEFINE l == left32(a + 3)
             r == right32(a)
             m == copied(memory, a, stored_bytes(memory, "little", l, v))
             n == copied(m, a, stored_bytes(m, "little", r, v))
  <2>1. memory \in Memory /\ v \in Nat /\ a \in Nat /\ a + 4 <= Limit /\ Limit \in Nat
    <3>1. \A i : i \in 0..(weight[4] - 1) => i \in Nat
      BY Weights
    <3> QED
      BY <3>1, Constants, Geometry DEF IInv, Values
  <2>2. l.addr = a /\ l.size = 4 /\ l.mask = (3 - ((a + 3) % 4))..3
    <3>1. (a + 3 - 3) % Addresses = a
      BY <2>1, Constants
    <3> QED
      BY <2>1, <3>1, Constants DEF left32
  <2>3. r.addr = a /\ r.size = 4 /\ r.mask = 0..(3 - (a % 4))
    BY Constants DEF right32
  <2>4. \A b \in a..(a + 3) : b - a \in l.mask \/ b - a \in r.mask
    BY <2>1, <2>2, <2>3
  <2>5. After("little", l, v) = m
    BY <2>2 DEF After
  <2> HIDE DEF l, r
  <2>6. \A b \in 0..(Limit - 1) : check_and_read_byte(n, b) =
            IF b \in a..(a + 3) /\ (b - a \in l.mask \/ b - a \in r.mask) THEN digit(v, b - a)
            ELSE check_and_read_byte(memory, b)
    <3>1. memory \in Memory /\ v \in Nat /\ a \in Nat /\ a + 4 <= Limit
      BY <2>1
    <3>2. l.addr = a /\ l.size = 4 /\ r.addr = a /\ r.size = 4
      BY <2>2, <2>3
    <3> QED
      BY <3>1, <3>2, PairWritten
  <2> HIDE DEF n
  <2>7. \A b \in 0..(Limit - 1) : check_and_read_byte(n, b) =
            IF b \in a..(a + 3) THEN digit(v, b - a) ELSE Bytes[b]
    BY <2>4, <2>6, BytesAre
  <2> QED
    BY <2>5, <2>7 DEF l, r, n
<1> QED
  BY <1>1, Always, PTL

\* For every geometry and every byte: strlen of both memories finds the first
\* zero at or after an address, when there is one before the end.
THEOREM MemorySameStrings == Spec => []SameStrings
<1>1. IInv => SameStrings
  <2> SUFFICES ASSUME IInv, arena # None, NEW a \in 0..(Limit - 1), NEW z \in a..(Limit - 1), Bytes[z] = 0
               PROVE  strlen(memory, a) = plain_strlen(arena, a)
    BY DEF SameStrings
  <2> DEFINE g(i) == check_and_read_byte(memory, i)
             Z == {n \in Nat : a + n < Limit /\ g(a + n) = 0}
             E(n) == n = Limit \/ g(a + n) = 0
             F(n) == a + n = Limit \/ arena[a + n] = 0
             P(n) == E(n) /\ \A k \in 0..(n - 1) : ~E(k)
             Q(n) == F(n) /\ \A k \in 0..(n - 1) : ~F(k)
  <2>1. a \in Nat /\ Limit \in Nat
    BY Geometry
  <2>2. \A i \in 0..(Limit - 1) : arena[i] = g(i) /\ Bytes[i] = g(i)
    BY BytesAre DEF IInv, ReplicaOK
  <2>3. z - a \in Z
    <3>1. z \in 0..(Limit - 1) /\ z - a \in Nat /\ a + (z - a) = z
      BY <2>1
    <3> QED
      BY <2>1, <2>2, <3>1
  <2>4. strlen(memory, a) = CHOOSE n \in 0..Limit : P(n)
    BY DEF strlen, string_end
  <2>5. plain_strlen(arena, a) = CHOOSE n \in 0..(Limit - a) : Q(n)
    BY DEF plain_strlen
  <2> HIDE DEF g
  <2>6. PICK n \in Z : \A k \in Z : n <= k
    <3> HIDE DEF Z
    <3>1. Z # {}
      BY <2>3
    <3>2. Z \subseteq Nat
      BY DEF Z
    <3> QED
      BY <3>1, <3>2, NatMin
  <2>7. n \in Nat /\ a + n < Limit /\ g(a + n) = 0
    BY <2>6
  <2>8. ASSUME NEW k \in Nat, k < n PROVE g(a + k) # 0 /\ arena[a + k] # 0 /\ k # Limit /\ a + k # Limit
    <3>1. a + k < Limit /\ a + k \in 0..(Limit - 1)
      BY <2>1, <2>7, <2>8
    <3>2. k \notin Z
      BY <2>6, <2>7, <2>8
    <3>3. g(a + k) # 0
      BY <2>8, <3>1, <3>2
    <3> QED
      BY <2>1, <2>2, <3>1, <3>3
  <2>9. n \in 0..Limit /\ n \in 0..(Limit - a) /\ arena[a + n] = 0
    <3>1. a + n \in 0..(Limit - 1)
      BY <2>1, <2>7
    <3> QED
      BY <2>1, <2>2, <2>7, <3>1
  <2>10. P(n) /\ \A i \in 0..Limit : P(i) => i = n
    <3>1. P(n)
      BY <2>7, <2>8
    <3>2. ASSUME NEW i \in 0..Limit, P(i) PROVE i = n
      <4>1. i \in Nat
        BY <2>1
      <4>2. ~(n < i)
        <5>1. SUFFICES ASSUME n < i PROVE FALSE
          OBVIOUS
        <5>2. n \in 0..(i - 1)
          BY <2>7, <4>1, <5>1
        <5> QED
          BY <2>7, <3>2, <5>2
      <4>3. ~(i < n)
        BY <2>8, <3>2, <4>1
      <4> QED
        BY <2>7, <4>1, <4>2, <4>3
    <3> QED
      BY <3>1, <3>2
  <2>11. Q(n) /\ \A i \in 0..(Limit - a) : Q(i) => i = n
    <3>1. Q(n)
      BY <2>7, <2>8, <2>9
    <3>2. ASSUME NEW i \in 0..(Limit - a), Q(i) PROVE i = n
      <4>1. i \in Nat
        BY <2>1
      <4>2. ~(n < i)
        <5>1. SUFFICES ASSUME n < i PROVE FALSE
          OBVIOUS
        <5>2. n \in 0..(i - 1)
          BY <2>7, <4>1, <5>1
        <5> QED
          BY <2>9, <3>2, <5>2
      <4>3. ~(i < n)
        BY <2>8, <3>2, <4>1
      <4> QED
        BY <2>7, <4>1, <4>2, <4>3
    <3> QED
      BY <3>1, <3>2
  <2> HIDE DEF P, Q
  <2>12. (CHOOSE i \in 0..Limit : P(i)) = n
    BY <2>9, <2>10
  <2>13. (CHOOSE i \in 0..(Limit - a) : Q(i)) = n
    BY <2>9, <2>11
  <2> QED
    BY <2>4, <2>5, <2>12, <2>13
<1> QED
  BY <1>1, Always, PTL
=============================================================================
