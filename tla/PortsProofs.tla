---------------------------- MODULE PortsProofs ----------------------------
(***************************************************************************)
(* Proofs about Ports for every set of readers, latency and bandwidth.     *)
(* First the ring buffer, then the state of one reader, then the theorems. *)
(***************************************************************************)
EXTENDS Ports, NatMinimum

\* n taken around a ring of c slots, for n that laps it at most once.
Wrap(c, n) == IF n < c THEN n ELSE n - c

\* Wrap is the remainder.
LEMMA ModWrap ==
    ASSUME NEW c \in Nat \ {0}, NEW n \in Nat, n < 2 * c
    PROVE  n % c = Wrap(c, n) /\ Wrap(c, n) \in 0..(c - 1)
  BY SMT DEF Wrap

\* The ring as every operation finds it when it does not overflow.
RingOK(q) ==
    /\ q.capacity \in Nat \ {0}
    /\ q.arena \in [0..(q.capacity - 1) -> Item \cup {NoItem}]
    /\ q.p_front \in 0..(q.capacity - 1)
    /\ q.occupied \in 0..q.capacity
    /\ q.p_back = Slot(q, q.occupied)

\* A position is the front pointer plus the offset, wrapped once.
LEMMA SlotValue ==
    ASSUME NEW q, q.capacity \in Nat \ {0}, q.p_front \in 0..(q.capacity - 1),
           NEW i \in 0..q.capacity
    PROVE  /\ Slot(q, i) = Wrap(q.capacity, q.p_front + i)
           /\ Slot(q, i) \in 0..(q.capacity - 1)
<1>1. ASSUME NEW c \in Nat \ {0}, NEW f \in 0..(c - 1), NEW k \in 0..c
      PROVE  (f + k) % c = Wrap(c, f + k) /\ (f + k) % c \in 0..(c - 1)
  <2>1. f + k \in Nat /\ f + k < 2 * c
    OBVIOUS
  <2> QED
    BY <2>1, ModWrap
<1> QED
  BY <1>1 DEF Slot

\* emplace into a ring with room keeps the ring and appends x.
LEMMA EmplaceRing ==
    ASSUME NEW q, RingOK(q), q.occupied < q.capacity, NEW x \in Item,
           NEW p, p = emplace(q, x)
    PROVE  /\ RingOK(p)
           /\ p.occupied = q.occupied + 1
           /\ p.capacity = q.capacity
           /\ Entry(p, q.occupied) = x
           /\ \A i \in 0..(q.occupied - 1) : Entry(p, i) = Entry(q, i)
<1> DEFINE c == q.capacity
           f == q.p_front
           o == q.occupied
<1>1. /\ p.capacity = c /\ p.p_front = f /\ p.occupied = o + 1
      /\ p.arena = [q.arena EXCEPT ![q.p_back] = x]
      /\ p.p_back = IF q.p_back + 1 = c THEN 0 ELSE q.p_back + 1
  BY DEF emplace, advance_ptr
<1>2. /\ c \in Nat \ {0} /\ f \in 0..(c - 1) /\ o \in 0..(c - 1)
      /\ q.capacity = c /\ q.p_front = f /\ q.occupied = o
      /\ q.arena \in [0..(c - 1) -> Item \cup {NoItem}]
      /\ q.p_back = Slot(q, o)
  BY DEF RingOK
<1> HIDE DEF c, f, o
<1>3. ASSUME NEW i \in 0..c
      PROVE  /\ Slot(q, i) = Wrap(c, f + i) /\ Slot(q, i) \in 0..(c - 1)
             /\ Slot(p, i) = Slot(q, i)
  <2>1. Slot(q, i) = Wrap(c, f + i) /\ Slot(q, i) \in 0..(c - 1)
    BY <1>2, SlotValue
  <2>2. Slot(p, i) = Wrap(c, f + i)
    <3>1. /\ p.capacity \in Nat \ {0} /\ p.p_front \in 0..(p.capacity - 1)
          /\ i \in 0..p.capacity
      BY <1>1, <1>2
    <3>2. Slot(p, i) = Wrap(p.capacity, p.p_front + i)
      BY <3>1, SlotValue
    <3> QED
      BY <1>1, <3>2
  <2> QED
    BY <2>1, <2>2
<1>4. q.p_back = Wrap(c, f + o) /\ q.p_back \in 0..(c - 1)
  BY <1>2, <1>3
<1>5. p.p_back = Slot(p, o + 1)
  <2>1. Slot(p, o + 1) = Wrap(c, f + (o + 1))
    BY <1>2, <1>3
  <2>2. ASSUME NEW b, b = Wrap(c, f + o)
        PROVE  (IF b + 1 = c THEN 0 ELSE b + 1) = Wrap(c, f + (o + 1))
    BY <1>2, <2>2 DEF Wrap
  <2> QED
    BY <1>1, <1>4, <2>1, <2>2
<1>6. RingOK(p)
  <2>1. p.arena \in [0..(c - 1) -> Item \cup {NoItem}]
    BY <1>1, <1>2, <1>4
  <2> QED
    BY <1>1, <1>2, <1>5, <2>1 DEF RingOK
<1>7. Entry(p, o) = x
  <2>1. Slot(p, o) = q.p_back
    BY <1>2, <1>3
  <2> QED
    BY <1>1, <1>2, <1>4, <2>1 DEF Entry
<1>8. ASSUME NEW i \in 0..(o - 1) PROVE Entry(p, i) = Entry(q, i)
  <2>0. i \in 0..c
    BY <1>2
  <2>1. Slot(q, i) = Wrap(c, f + i) /\ Slot(q, i) \in 0..(c - 1) /\ Slot(p, i) = Slot(q, i)
    BY <1>3, <2>0
  <2>2. Slot(q, i) # q.p_back
    BY <1>2, <1>4, <2>1 DEF Wrap
  <2> QED
    BY <1>1, <1>2, <2>1, <2>2 DEF Entry
<1> QED
  BY <1>1, <1>2, <1>6, <1>7, <1>8

\* drop keeps the ring and moves every remaining object n places forward.
LEMMA DropRing ==
    ASSUME NEW q, RingOK(q), NEW n \in 0..q.occupied, NEW p, p = drop(q, n)
    PROVE  /\ RingOK(p)
           /\ p.occupied = q.occupied - n
           /\ p.capacity = q.capacity
           /\ \A i \in 0..(p.occupied - 1) : Entry(p, i) = Entry(q, i + n)
<1> DEFINE c == q.capacity
           f == q.p_front
           o == q.occupied
           g == Slot(q, n)
<1>1. /\ p.capacity = c /\ p.p_front = g /\ p.occupied = o - n /\ p.p_back = q.p_back
      /\ p.arena = [k \in 0..(c - 1) |->
                     IF \E i \in 0..(n - 1) : k = Slot(q, i) THEN NoItem ELSE q.arena[k]]
  BY DEF drop
<1>2. /\ c \in Nat \ {0} /\ f \in 0..(c - 1) /\ o \in 0..c /\ n \in 0..o
      /\ q.capacity = c /\ q.p_front = f /\ q.occupied = o
      /\ q.arena \in [0..(c - 1) -> Item \cup {NoItem}]
      /\ q.p_back = Slot(q, o)
  BY DEF RingOK
<1> HIDE DEF c, f, o
<1>3. \A i \in 0..c : Slot(q, i) = Wrap(c, f + i) /\ Slot(q, i) \in 0..(c - 1)
  BY <1>2, SlotValue
<1>4. g = Wrap(c, f + n) /\ g \in 0..(c - 1)
  BY <1>2, <1>3
<1> HIDE DEF g
<1>5. ASSUME NEW i \in 0..(o - n)
      PROVE  Slot(p, i) = Slot(q, i + n) /\ i + n \in 0..c
  <2>0. i \in 0..c
    BY <1>2
  <2>1. Slot(p, i) = Wrap(c, g + i)
    <3>1. /\ p.capacity \in Nat \ {0} /\ p.p_front \in 0..(p.capacity - 1)
          /\ i \in 0..p.capacity
      BY <1>1, <1>2, <1>4, <2>0
    <3>2. Slot(p, i) = Wrap(p.capacity, p.p_front + i)
      BY <3>1, SlotValue
    <3> QED
      BY <1>1, <3>2
  <2>2. i + n \in 0..c
    BY <1>2
  <2>3. Slot(q, i + n) = Wrap(c, f + (i + n))
    BY <1>3, <2>2
  <2> QED
    BY <1>2, <1>4, <2>1, <2>2, <2>3 DEF Wrap
<1>6. RingOK(p)
  <2>1. p.p_back = Slot(p, p.occupied)
    BY <1>1, <1>2, <1>5
  <2>2. p.arena \in [0..(c - 1) -> Item \cup {NoItem}]
    BY <1>1, <1>2
  <2> QED
    BY <1>1, <1>2, <1>4, <2>1, <2>2 DEF RingOK
<1>7. ASSUME NEW i \in 0..(o - n - 1) PROVE Entry(p, i) = Entry(q, i + n)
  <2>0. i \in 0..(o - n) /\ i + n \in 0..c
    BY <1>2
  <2>1. /\ Slot(p, i) = Slot(q, i + n) /\ Slot(q, i + n) \in 0..(c - 1)
        /\ Slot(q, i + n) = Wrap(c, f + (i + n))
    BY <1>3, <1>5, <2>0
  <2>2. ASSUME NEW k \in 0..(n - 1) PROVE Slot(q, i + n) # Slot(q, k)
    <3>1. Slot(q, k) = Wrap(c, f + k)
      BY <1>2, <1>3
    <3> QED
      BY <1>2, <2>1, <3>1 DEF Wrap
  <2> QED
    BY <1>1, <2>1, <2>2 DEF Entry
<1> QED
  BY <1>1, <1>2, <1>6, <1>7

-----------------------------------------------------------------------------
(* Cleanup and the type invariant.  Nothing here needs the client to respect *)
(* the bandwidth: pointers stay in the arena even when the ring overflows.   *)

\* cleanup_stale_data pops the stale objects in front and stops at the first
\* one that is not stale.
LEMMA StaleCount ==
    ASSUME NEW q, q.occupied \in Nat
    PROVE  /\ stale_count(q) \in 0..q.occupied
           /\ \A i \in 0..(stale_count(q) - 1) : Stale(q, i)
           /\ stale_count(q) < q.occupied => ~Stale(q, stale_count(q))
<1> DEFINE T == {n \in 0..q.occupied : n = q.occupied \/ ~Stale(q, n)}
<1>1. T \subseteq Nat /\ q.occupied \in T
  OBVIOUS
<1>2. PICK m \in T : \A y \in T : m <= y
  BY <1>1, NatMin
<1>3. /\ m \in 0..q.occupied
      /\ m < q.occupied => ~Stale(q, m)
  BY <1>2
<1>4. ASSUME NEW i \in 0..(m - 1) PROVE Stale(q, i)
  <2>1. i \in 0..q.occupied /\ ~(m <= i)
    BY <1>3
  <2> QED
    BY <1>2, <2>1
<1> QED
  BY <1>3, <1>4 DEF stale_count

\* The size that init gives to a queue.
LEMMA QueueSize ==
    ASSUME NEW r \in Readers
    PROVE  queue_size(r) \in Nat \ {0} /\ Lat[r] \in Nat
<1>1. Lat[r] \in Nat /\ BW \in Nat \ {0}
  BY LatAssumption, BWAssumption
<1>2. ASSUME NEW l \in Nat, NEW b \in Nat \ {0} PROVE (l + 1) * b \in Nat \ {0}
  OBVIOUS
<1> QED
  BY <1>1, <1>2 DEF queue_size

\* drop and emplace keep the type of a queue, full or not.
LEMMA DropType ==
    ASSUME NEW q, NEW size \in Nat \ {0}, QueueType(q, size), NEW n \in 0..q.occupied
    PROVE  QueueType(drop(q, n), size)
<1> DEFINE p == drop(q, n)
<1>1. /\ p.capacity = size /\ p.p_front = Slot(q, n)
      /\ p.occupied = q.occupied - n /\ p.p_back = q.p_back
      /\ p.arena = [k \in 0..(size - 1) |->
                     IF \E i \in 0..(n - 1) : k = Slot(q, i) THEN NoItem ELSE q.arena[k]]
  BY DEF drop, QueueType
<1>2. Slot(q, n) \in 0..(size - 1)
  <2>1. ASSUME NEW k \in Nat PROVE k % size \in 0..(size - 1)
    OBVIOUS
  <2>2. q.p_front + n \in Nat /\ q.capacity = size
    BY DEF QueueType
  <2> QED
    BY <2>1, <2>2 DEF Slot
<1>3. p.occupied \in Nat
  BY <1>1 DEF QueueType
<1>4. p.arena \in [0..(size - 1) -> Item \cup {NoItem}]
  BY <1>1 DEF QueueType
<1> HIDE DEF p
<1>5. QueueType(p, size)
  BY <1>1, <1>2, <1>3, <1>4 DEF QueueType
<1> QED
  BY <1>5 DEF p

\* emplace keeps the type of a queue, even when it overwrites a live object.
LEMMA EmplaceType ==
    ASSUME NEW q, NEW size \in Nat \ {0}, QueueType(q, size), NEW x \in Item
    PROVE  QueueType(emplace(q, x), size)
<1>1. advance_ptr(q, q.p_back) \in 0..(size - 1)
  BY DEF advance_ptr, QueueType
<1> QED
  BY <1>1 DEF emplace, QueueType

\* cleanup_stale_data keeps the type of a queue.
LEMMA CleanupType ==
    ASSUME NEW q, NEW size \in Nat \ {0}, QueueType(q, size)
    PROVE  QueueType(cleanup_stale_data(q), size)
<1>1. stale_count(q) \in 0..q.occupied
  BY StaleCount DEF QueueType
<1> QED
  BY <1>1, DropType DEF cleanup_stale_data

\* Every call and the clock keep the types of all variables.
LEMMA TypeStep == TypeOK /\ [Next]_vars => TypeOK'
<1> SUFFICES ASSUME TypeOK, [Next]_vars PROVE TypeOK'
  OBVIOUS
<1> USE BoundAssumption
<1>1. CASE Tick
  BY <1>1, QueueSize DEF Tick, TypeOK, QueueType, Item
<1>2. CASE WriteOverload
  BY <1>2 DEF WriteOverload, TypeOK, QueueType, Item, next_write_counter
<1>3. ASSUME NEW d \in Data, Write(d) PROVE TypeOK'
  <2>1. ASSUME NEW r \in Readers PROVE QueueType(queue'[r], queue_size(r))
    <3>1. [data |-> d, due |-> cycle + Lat[r]] \in Item
      BY QueueSize DEF Item, TypeOK
    <3>2. QueueType(cleanup_stale_data(queue[r]), queue_size(r))
      BY QueueSize, CleanupType DEF TypeOK
    <3>3. QueueType(emplaceData(queue[r], r, d), queue_size(r))
      BY <3>1, <3>2, QueueSize, EmplaceType DEF emplaceData
    <3> QED
      BY <1>3, <3>3 DEF Write
  <2>2. DOMAIN queue' = Readers
    BY <1>3 DEF Write
  <2> QED
    BY <1>3, <2>1, <2>2 DEF Write, TypeOK, QueueType, Item, next_write_counter
<1>4. ASSUME NEW r \in Readers, IsReady(r) \/ ReadNothing(r) PROVE TypeOK'
  <2>1. queue' = [queue EXCEPT ![r] = cleanup_stale_data(queue[r])]
    BY <1>4 DEF IsReady, ReadNothing
  <2>2. QueueType(cleanup_stale_data(queue[r]), queue_size(r))
    BY QueueSize, CleanupType DEF TypeOK
  <2>3. \A s \in Readers : QueueType(queue'[s], queue_size(s))
    BY <2>1, <2>2 DEF TypeOK
  <2> QED
    BY <1>4, <2>1, <2>3 DEF IsReady, ReadNothing, TypeOK, QueueType, Item
<1>5. ASSUME NEW r \in Readers, Read(r) PROVE TypeOK'
  <2> DEFINE q == cleanup_stale_data(queue[r])
  <2>1. queue' = [queue EXCEPT ![r] = pop(q)] /\ ~empty(q)
    BY <1>5 DEF Read, ReadyFront
  <2>2. QueueType(q, queue_size(r))
    BY QueueSize, CleanupType DEF TypeOK
  <2> HIDE DEF q
  <2>3. 1 \in 0..q.occupied
    BY <2>1, <2>2 DEF QueueType, empty
  <2>4. QueueType(pop(q), queue_size(r))
    BY <2>2, <2>3, QueueSize, DropType DEF pop
  <2>5. \A s \in Readers : QueueType(queue'[s], queue_size(s))
    BY <2>1, <2>4 DEF TypeOK
  <2> QED
    BY <1>5, <2>1, <2>5 DEF Read, TypeOK, QueueType, Item
<1>6. CASE UNCHANGED vars
  BY <1>6 DEF vars, TypeOK, QueueType, Item
<1> QED
  BY <1>1, <1>2, <1>3, <1>4, <1>5, <1>6 DEF Next

\* Whatever its clients do, a port keeps its pointers inside the arena and its
\* counters in their ranges (TypeOK of module Ports).
THEOREM PortsTypeOK == Spec => []TypeOK
<1>1. Init => TypeOK
  <2> SUFFICES ASSUME Init PROVE TypeOK
    OBVIOUS
  <2>1. ASSUME NEW r \in Readers PROVE QueueType(queue[r], queue_size(r))
    BY QueueSize DEF Init, resize, QueueType
  <2> QED
    BY <2>1, BoundAssumption DEF Init, TypeOK
<1> QED
  BY <1>1, TypeStep, PTL DEF Spec

-----------------------------------------------------------------------------
(* Room for everything in flight.  Good is the inductive invariant of one    *)
(* reader of latency l in cycle c after w writes: NoOverwrite alone is not   *)
(* inductive, it needs to know how many objects each cycle contributed.      *)

InLine(q, l, c, w) ==
    \A i \in 0..(q.occupied - 1) :
        /\ Entry(q, i) \in Item
        /\ Entry(q, i).due <= c + l
        /\ i < q.occupied - w => Entry(q, i).due < c + l

Spaced(q) ==
    \A i, j \in 0..(q.occupied - 1) : i <= j =>
        /\ Entry(q, i).due <= Entry(q, j).due
        /\ j - i + 1 <= (Entry(q, j).due - Entry(q, i).due + 1) * BW

Good(q, l, c, w) ==
    /\ RingOK(q)
    /\ q.capacity = (l + 1) * BW
    /\ InLine(q, l, c, w)
    /\ Spaced(q)

\* Dropping objects from the front keeps the rest as it was.
LEMMA GoodDrop ==
    ASSUME NEW q, NEW l \in Nat, NEW c \in Nat, NEW w \in Nat, Good(q, l, c, w),
           NEW n \in 0..q.occupied, NEW p, p = drop(q, n)
    PROVE  Good(p, l, c, w) /\ p.occupied = q.occupied - n
           /\ \A i \in 0..(p.occupied - 1) : Entry(p, i) = Entry(q, i + n)
<1>1. /\ RingOK(p) /\ p.occupied = q.occupied - n /\ p.capacity = q.capacity
      /\ \A i \in 0..(p.occupied - 1) : Entry(p, i) = Entry(q, i + n)
  BY DropRing DEF Good
<1>2. q.occupied \in Nat
  BY DEF Good, RingOK
<1>3. \A i \in 0..(p.occupied - 1) : i + n \in 0..(q.occupied - 1)
  BY <1>1, <1>2
<1>4. InLine(p, l, c, w)
  <2> SUFFICES ASSUME NEW i \in 0..(p.occupied - 1)
               PROVE  /\ Entry(p, i) \in Item
                      /\ Entry(p, i).due <= c + l
                      /\ i < p.occupied - w => Entry(p, i).due < c + l
    BY DEF InLine
  <2>1. Entry(p, i) = Entry(q, i + n) /\ i + n \in 0..(q.occupied - 1)
    BY <1>1, <1>3
  <2>2. i < p.occupied - w => i + n < q.occupied - w
    BY <1>1, <1>2
  <2> QED
    BY <2>1, <2>2 DEF Good, InLine
<1>5. Spaced(p)
  <2> SUFFICES ASSUME NEW i \in 0..(p.occupied - 1), NEW j \in 0..(p.occupied - 1), i <= j
               PROVE  /\ Entry(p, i).due <= Entry(p, j).due
                      /\ j - i + 1 <= (Entry(p, j).due - Entry(p, i).due + 1) * BW
    BY DEF Spaced
  <2>1. /\ Entry(p, i) = Entry(q, i + n) /\ i + n \in 0..(q.occupied - 1)
        /\ Entry(p, j) = Entry(q, j + n) /\ j + n \in 0..(q.occupied - 1)
    BY <1>1, <1>3
  <2>2. i + n <= j + n /\ (j + n) - (i + n) + 1 = j - i + 1
    BY <1>1
  <2> QED
    BY <2>1, <2>2 DEF Good, Spaced
<1> QED
  BY <1>1, <1>4, <1>5 DEF Good

\* With w < BW writes so far in the cycle and nothing stale, there is room for
\* one more, and emplacing it keeps the invariant for w + 1.
LEMMA GoodEmplace ==
    ASSUME NEW q, NEW l \in Nat, NEW c \in Nat, NEW w \in Nat, Good(q, l, c, w),
           w < BW, q.occupied > 0 => Entry(q, 0).due >= c,
           NEW d \in Data, NEW x, x = [data |-> d, due |-> c + l],
           NEW p, p = emplace(q, x)
    PROVE  Good(p, l, c, w + 1)
<1> USE BWAssumption
<1> DEFINE o == q.occupied
<1>1. o \in Nat /\ o <= q.capacity /\ q.capacity = (l + 1) * BW
  BY DEF Good, RingOK
<1>2. x \in Item /\ x.due = c + l
  BY DEF Item
<1>3. \A i \in 0..(o - 1) : Entry(q, i).due \in Nat
  BY DEF Good, InLine, Item
<1>4. ASSUME NEW i \in 0..(o - 1)
      PROVE  o - i + 1 <= (c + l - Entry(q, i).due + 1) * BW
  <2> DEFINE k == o - 1 - w
             a == Entry(q, i).due
  <2>1. a \in Nat /\ a <= c + l
    BY <1>3 DEF Good, InLine
  <2> SUFFICES o - i + 1 <= (c + l - a + 1) * BW
    OBVIOUS
  <2>2. CASE i > k
    <3>1. o - i + 1 <= BW
      BY <1>1, <2>2
    <3>2. c + l - a + 1 >= 1
      BY <2>1
    <3>3. ASSUME NEW y \in Int, y >= 1 PROVE BW <= y * BW
      BY <3>3
    <3> HIDE DEF a
    <3>4. c + l - a + 1 \in Int
      BY <2>1
    <3>5. BW <= (c + l - a + 1) * BW
      BY <3>2, <3>3, <3>4
    <3>6. (c + l - a + 1) * BW \in Int
      BY <3>4
    <3> QED
      BY <1>1, <3>1, <3>5, <3>6
  <2>3. CASE i <= k
    <3> DEFINE b == Entry(q, k).due
    <3>1. k \in 0..(o - 1) /\ k < o - w
      BY <1>1, <2>3
    <3>2. b \in Nat /\ b < c + l
      BY <1>3, <3>1 DEF Good, InLine
    <3>3. k - i + 1 <= (b - a + 1) * BW /\ a <= b
      BY <2>3, <3>1 DEF Good, Spaced
    <3> HIDE DEF a, b
    <3>4. (c + l - a + 1) * BW >= (b - a + 1) * BW + BW
      <4>1. ASSUME NEW y \in Int, NEW z \in Int, y < z PROVE z * BW >= y * BW + BW
        BY <4>1
      <4>2. b - a + 1 < c + l - a + 1
        BY <2>1, <3>2
      <4> QED
        BY <2>1, <3>2, <4>1, <4>2
    <3>5. o - i + 1 <= (k - i + 1) + BW
      BY <1>1
    <3>6. (b - a + 1) * BW \in Int /\ (c + l - a + 1) * BW \in Int
      BY <2>1, <3>2
    <3> QED
      BY <1>1, <3>1, <3>3, <3>4, <3>5, <3>6
  <2> QED
    BY <1>1, <2>2, <2>3
<1>5. o < q.capacity
  <2>1. CASE o = 0
    BY <1>1, <2>1, (l + 1) * BW > 0
  <2>2. CASE o > 0
    <3> DEFINE a == Entry(q, 0).due
    <3>1. a \in Nat /\ a >= c /\ o + 1 <= (c + l - a + 1) * BW
      BY <1>1, <1>3, <1>4, <2>2
    <3> HIDE DEF a
    <3>2. (c + l - a + 1) * BW <= (l + 1) * BW
      <4>1. ASSUME NEW y \in Int, NEW z \in Int, y <= z PROVE y * BW <= z * BW
        BY <4>1
      <4> QED
        BY <3>1, <4>1
    <3> QED
      BY <1>1, <3>1, <3>2
  <2> QED
    BY <1>1, <2>1, <2>2
<1>6. /\ RingOK(p) /\ p.occupied = o + 1 /\ p.capacity = q.capacity
      /\ Entry(p, o) = x
      /\ \A i \in 0..(o - 1) : Entry(p, i) = Entry(q, i)
  BY <1>2, <1>5, EmplaceRing DEF Good
<1> HIDE DEF o
<1>7. InLine(p, l, c, w + 1)
  <2> SUFFICES ASSUME NEW i \in 0..(p.occupied - 1)
               PROVE  /\ Entry(p, i) \in Item
                      /\ Entry(p, i).due <= c + l
                      /\ i < p.occupied - (w + 1) => Entry(p, i).due < c + l
    BY DEF InLine
  <2>1. CASE i = o
    BY <1>1, <1>2, <1>6, <2>1
  <2>2. CASE i # o
    <3>1. i \in 0..(o - 1) /\ Entry(p, i) = Entry(q, i)
      BY <1>1, <1>6, <2>2
    <3>2. i < p.occupied - (w + 1) => i < o - w
      BY <1>1, <1>6
    <3> QED
      BY <3>1, <3>2 DEF Good, InLine, o
  <2> QED
    BY <2>1, <2>2
<1>8. Spaced(p)
  <2> SUFFICES ASSUME NEW i \in 0..(p.occupied - 1), NEW j \in 0..(p.occupied - 1), i <= j
               PROVE  /\ Entry(p, i).due <= Entry(p, j).due
                      /\ j - i + 1 <= (Entry(p, j).due - Entry(p, i).due + 1) * BW
    BY DEF Spaced
  <2>1. CASE j # o
    <3>1. /\ i \in 0..(o - 1) /\ Entry(p, i) = Entry(q, i)
          /\ j \in 0..(o - 1) /\ Entry(p, j) = Entry(q, j)
      BY <1>1, <1>6, <2>1
    <3> QED
      BY <3>1 DEF Good, Spaced, o
  <2>2. CASE j = o /\ i # o
    <3>1. i \in 0..(o - 1) /\ Entry(p, i) = Entry(q, i) /\ Entry(p, j) = x
      BY <1>1, <1>6, <2>2
    <3>2. Entry(q, i).due <= c + l
      BY <3>1 DEF Good, InLine, o
    <3>3. o - i + 1 <= (c + l - Entry(q, i).due + 1) * BW
      BY <1>4, <3>1
    <3>4. j - i + 1 = o - i + 1
      BY <2>2
    <3>5. Entry(p, j).due = c + l /\ Entry(p, i).due = Entry(q, i).due
      BY <1>2, <3>1
    <3>6. j - i + 1 <= (Entry(p, j).due - Entry(p, i).due + 1) * BW
      <4>1. ASSUME NEW e \in Nat, NEW g \in Nat, g = c + l
            PROVE  (g - e + 1) * BW = (c + l - e + 1) * BW
        BY <4>1
      <4>2. Entry(q, i).due \in Nat
        BY <1>3, <3>1
      <4>3. (Entry(p, j).due - Entry(q, i).due + 1) * BW
              = (c + l - Entry(q, i).due + 1) * BW
        BY <3>5, <4>1, <4>2
      <4> QED
        BY <3>3, <3>4, <3>5, <4>3
    <3> QED
      BY <3>2, <3>5, <3>6
  <2>3. CASE j = o /\ i = o
    <3>1. Entry(p, i) = x /\ Entry(p, j) = x
      BY <1>6, <2>3
    <3>2. j - i + 1 = 1 /\ x.due - x.due + 1 = 1 /\ 1 * BW = BW
      BY <1>1, <1>2, <2>3
    <3> QED
      BY <1>1, <1>2, <3>1, <3>2
  <2> QED
    BY <2>1, <2>2, <2>3
<1> QED
  BY <1>1, <1>6, <1>7, <1>8 DEF Good

\* A tick opens a cycle without writes.
LEMMA GoodTick ==
    ASSUME NEW q, NEW l \in Nat, NEW c \in Nat, NEW w \in Nat, Good(q, l, c, w)
    PROVE  Good(q, l, c + 1, 0)
<1>1. InLine(q, l, c + 1, 0)
  <2> SUFFICES ASSUME NEW i \in 0..(q.occupied - 1)
               PROVE  Entry(q, i) \in Item /\ Entry(q, i).due < c + 1 + l
    BY DEF InLine, Item
  <2>1. Entry(q, i) \in Item /\ Entry(q, i).due <= c + l /\ Entry(q, i).due \in Nat
    BY DEF Good, InLine, Item
  <2> QED
    BY <2>1
<1> QED
  BY <1>1 DEF Good

\* After the cleanup nothing in the queue is stale.
LEMMA GoodCleanup ==
    ASSUME NEW q, NEW l \in Nat, cycle \in Nat, NEW w \in Nat, Good(q, l, cycle, w),
           NEW p, p = cleanup_stale_data(q)
    PROVE  Good(p, l, cycle, w) /\ (p.occupied > 0 => Entry(p, 0).due >= cycle)
<1> DEFINE n == stale_count(q)
<1>1. q.occupied \in Nat
  BY DEF Good, RingOK
<1>2. n \in 0..q.occupied /\ (n < q.occupied => ~Stale(q, n))
  BY <1>1, StaleCount
<1>3. p = drop(q, n)
  BY DEF cleanup_stale_data
<1> HIDE DEF n
<1>4. /\ Good(p, l, cycle, w) /\ p.occupied = q.occupied - n
      /\ \A i \in 0..(p.occupied - 1) : Entry(p, i) = Entry(q, i + n)
  BY <1>2, <1>3, GoodDrop
<1>5. ASSUME p.occupied > 0 PROVE Entry(p, 0).due >= cycle
  <2>1. n < q.occupied /\ 0 \in 0..(p.occupied - 1) /\ 0 + n = n
    BY <1>1, <1>2, <1>4, <1>5
  <2>2. Entry(p, 0) = Entry(q, n) /\ ~(Entry(q, n).due < cycle)
    BY <1>2, <1>4, <2>1 DEF Stale
  <2>3. Entry(p, 0).due \in Nat
    BY <1>4, <2>1 DEF Good, InLine, Item
  <2> QED
    BY <2>2, <2>3
<1> QED
  BY <1>4, <1>5

\* The inductive invariant of the port.
IInv == TypeOK /\ \A r \in Readers : Good(queue[r], Lat[r], cycle, writes)

\* Empty queues satisfy the inductive invariant.
LEMMA IInvInit == Init => IInv
<1> SUFFICES ASSUME Init PROVE IInv
  OBVIOUS
<1>1. TypeOK
  <2>1. ASSUME NEW r \in Readers PROVE QueueType(queue[r], queue_size(r))
    BY QueueSize DEF Init, resize, QueueType
  <2> QED
    BY <2>1, BoundAssumption DEF Init, TypeOK
<1>2. ASSUME NEW r \in Readers PROVE Good(queue[r], Lat[r], cycle, writes)
  <2> DEFINE q == queue[r]
  <2>1. q.capacity = queue_size(r) /\ q.p_front = 0 /\ q.p_back = 0 /\ q.occupied = 0
        /\ q.arena = [k \in 0..(queue_size(r) - 1) |-> NoItem]
    BY DEF Init, resize
  <2> HIDE DEF q
  <2>2. RingOK(q)
    <3>1. Slot(q, 0) = 0
      <4>1. ASSUME NEW s \in Nat \ {0} PROVE (0 + 0) % s = 0
        OBVIOUS
      <4> QED
        BY <2>1, <4>1, QueueSize DEF Slot
    <3> QED
      BY <2>1, <3>1, QueueSize DEF RingOK
  <2> QED
    BY <2>1, <2>2 DEF Good, InLine, Spaced, queue_size, q
<1> QED
  BY <1>1, <1>2 DEF IInv

\* A step of a client that writes at most BW times in a cycle keeps it.
LEMMA IInvStep ==
    ASSUME ClientMax <= BW
    PROVE  IInv /\ [Next]_vars => IInv'
<1> SUFFICES ASSUME IInv, [Next]_vars PROVE IInv'
  OBVIOUS
<1> USE BWAssumption, BoundAssumption
<1>0. TypeOK' /\ cycle \in Nat /\ writes \in Nat
  BY TypeStep DEF IInv, TypeOK
<1> SUFFICES ASSUME NEW r \in Readers PROVE Good(queue'[r], Lat[r], cycle', writes')
  BY <1>0 DEF IInv
<1> DEFINE q == cleanup_stale_data(queue[r])
<1>a. Lat[r] \in Nat /\ Good(queue[r], Lat[r], cycle, writes)
  BY QueueSize DEF IInv
<1>b. /\ Good(q, Lat[r], cycle, writes)
      /\ q.occupied > 0 => Entry(q, 0).due >= cycle
  BY <1>0, <1>a, GoodCleanup
<1> HIDE DEF q
<1>1. CASE Tick
  BY <1>0, <1>a, <1>1, GoodTick DEF Tick
<1>2. CASE WriteOverload
  BY <1>a, <1>2 DEF WriteOverload
<1>3. ASSUME NEW d \in Data, Write(d)
      PROVE  Good(queue'[r], Lat[r], cycle', writes')
  <2>1. writes < BW
    BY <1>0, <1>3 DEF Write, IInv, TypeOK
  <2>2. queue'[r] = emplace(q, [data |-> d, due |-> cycle + Lat[r]])
    BY <1>3 DEF Write, emplaceData, q
  <2>3. Good(queue'[r], Lat[r], cycle, writes + 1)
    BY <1>0, <1>a, <1>b, <2>1, <2>2, GoodEmplace
  <2> QED
    BY <1>3, <2>3 DEF Write
<1>4. ASSUME NEW s \in Readers, IsReady(s) \/ ReadNothing(s)
      PROVE  Good(queue'[r], Lat[r], cycle', writes')
  <2>1. queue' = [queue EXCEPT ![s] = cleanup_stale_data(queue[s])]
        /\ cycle' = cycle /\ writes' = writes /\ DOMAIN queue = Readers
    BY <1>4 DEF IsReady, ReadNothing, IInv, TypeOK
  <2>2. queue'[r] = q \/ queue'[r] = queue[r]
    BY <2>1 DEF q
  <2> QED
    BY <1>a, <1>b, <2>1, <2>2
<1>5. ASSUME NEW s \in Readers, Read(s)
      PROVE  Good(queue'[r], Lat[r], cycle', writes')
  <2>1. queue' = [queue EXCEPT ![s] = pop(cleanup_stale_data(queue[s]))]
        /\ cycle' = cycle /\ writes' = writes /\ DOMAIN queue = Readers
        /\ ~empty(cleanup_stale_data(queue[s]))
    BY <1>5 DEF Read, ReadyFront, IInv, TypeOK
  <2>2. CASE s # r
    BY <1>a, <2>1, <2>2
  <2>3. CASE s = r
    <3>1. queue'[r] = drop(q, 1) /\ q.occupied # 0
      BY <2>1, <2>3 DEF q, pop, empty
    <3>2. 1 \in 0..q.occupied
      BY <1>b, <3>1 DEF Good, RingOK
    <3>3. Good(queue'[r], Lat[r], cycle, writes)
      BY <1>0, <1>a, <1>b, <3>1, <3>2, GoodDrop
    <3> QED
      BY <2>1, <3>3
  <2> QED
    BY <2>2, <2>3
<1>6. CASE UNCHANGED vars
  BY <1>a, <1>6 DEF vars
<1> QED
  BY <1>1, <1>2, <1>3, <1>4, <1>5, <1>6 DEF Next

\* When no client writes more than BW times in a cycle, emplace never runs over
\* a live object: the size (latency + 1) * bandwidth that ReadPort::init gives
\* the ring is enough, for every latency, bandwidth and number of readers.
THEOREM PortsNoOverwrite ==
    ASSUME ClientMax <= BW
    PROVE  Spec => []NoOverwrite
<1>1. Init => IInv
  BY IInvInit
<1>2. IInv /\ [Next]_vars => IInv'
  BY IInvStep
<1>3. IInv => NoOverwrite
  BY DEF IInv, Good, RingOK, NoOverwrite
<1> QED
  BY <1>1, <1>2, <1>3, PTL DEF Spec

\* ... and what is in flight stays constructed, in the order of its cycle, within
\* the latency, with at most BW objects for each cycle it spans (InFlight).
THEOREM PortsInFlight ==
    ASSUME ClientMax <= BW
    PROVE  Spec => []InFlight
<1>1. Init => IInv
  BY IInvInit
<1>2. IInv /\ [Next]_vars => IInv'
  BY IInvStep
<1>3. IInv => InFlight
  BY DEF IInv, Good, InLine, Spaced, InFlight
<1> QED
  BY <1>1, <1>2, <1>3, PTL DEF Spec

-----------------------------------------------------------------------------
(* The port implements the delay line *)

\* The first n objects of a queue are stale in cycle c and the others are not.
Split(q, c, n) ==
    /\ n \in 0..q.occupied
    /\ \A i \in 0..(q.occupied - 1) : Entry(q, i) \in Item
    /\ \A i \in 0..(n - 1) : Entry(q, i).due < c
    /\ \A i \in n..(q.occupied - 1) : Entry(q, i).due >= c

\* What the promise sees of it.
Line(q, n) == [i \in 1..(q.occupied - n) |-> Entry(q, n + i - 1)]

\* The objects lie in the order of their cycle, so every queue is split.
LEMMA SplitExists ==
    ASSUME NEW q, NEW l \in Nat, NEW c \in Nat, NEW w \in Nat, Good(q, l, c, w), NEW b \in Nat
    PROVE  \E n \in 0..q.occupied : Split(q, b, n)
<1> DEFINE o == q.occupied
           T == {n \in 0..o : n = o \/ Entry(q, n).due >= b}
<1>1. o \in Nat /\ \A i \in 0..(o - 1) : Entry(q, i) \in Item /\ Entry(q, i).due \in Nat
  BY DEF Good, RingOK, InLine, Item
<1>2. \A i, j \in 0..(o - 1) : i <= j => Entry(q, i).due <= Entry(q, j).due
  BY DEF Good, Spaced
<1>3. T \subseteq Nat /\ o \in T
  BY <1>1
<1>4. PICK m \in T : \A y \in T : m <= y
  BY <1>3, NatMin
<1>5. m \in 0..o /\ (m < o => Entry(q, m).due >= b)
  BY <1>4
<1>6. ASSUME NEW i \in 0..(m - 1) PROVE Entry(q, i).due < b
  <2>1. i \in 0..(o - 1) /\ i \in 0..o /\ ~(m <= i) /\ i # o
    BY <1>1, <1>5
  <2>2. ~(Entry(q, i).due >= b) /\ Entry(q, i).due \in Nat
    BY <1>1, <1>4, <2>1
  <2> QED
    BY <2>2
<1>7. ASSUME NEW i \in m..(o - 1) PROVE Entry(q, i).due >= b
  <2>1. m < o /\ m \in 0..(o - 1) /\ i \in 0..(o - 1) /\ m <= i
    BY <1>1, <1>5
  <2>2. Entry(q, m).due \in Nat /\ Entry(q, i).due \in Nat /\ Entry(q, m).due <= Entry(q, i).due
    BY <1>1, <1>2, <2>1
  <2> QED
    BY <1>5, <2>1, <2>2
<1> QED
  BY <1>1, <1>5, <1>6, <1>7 DEF Split

\* cleanup_stale_data stops where the queue is split.
LEMMA SplitIsStale ==
    ASSUME NEW q, q.occupied \in Nat, NEW c \in Nat, NEW n, Split(q, c, n)
    PROVE  n = CHOOSE m \in 0..q.occupied : /\ \A i \in 0..(m - 1) : Entry(q, i).due < c
                                            /\ m < q.occupied => ~(Entry(q, m).due < c)
<1> DEFINE o == q.occupied
           Q(m) == /\ \A i \in 0..(m - 1) : Entry(q, i).due < c
                   /\ m < q.occupied => ~(Entry(q, m).due < c)
<1>1. /\ n \in 0..o /\ o \in Nat
      /\ \A i \in 0..(o - 1) : Entry(q, i).due \in Nat
      /\ \A i \in 0..(n - 1) : Entry(q, i).due < c
      /\ \A i \in n..(o - 1) : Entry(q, i).due >= c
  BY DEF Split, Item
<1>2. Q(n)
  <2>1. ASSUME n < o PROVE ~(Entry(q, n).due < c)
    <3>1. n \in n..(o - 1) /\ n \in 0..(o - 1)
      BY <1>1, <2>1
    <3>2. Entry(q, n).due \in Nat /\ Entry(q, n).due >= c
      BY <1>1, <3>1
    <3> QED
      BY <3>2
  <2> QED
    BY <1>1, <2>1
<1>3. ASSUME NEW m \in 0..o, Q(m) PROVE m = n
  <2>1. ASSUME m < n PROVE FALSE
    <3>1. m \in 0..(n - 1) /\ m < o
      BY <1>1, <2>1
    <3> QED
      BY <1>1, <1>3, <3>1
  <2>2. ASSUME n < m PROVE FALSE
    <3>1. n \in 0..(m - 1) /\ n \in n..(o - 1) /\ n \in 0..(o - 1)
      BY <1>1, <2>2
    <3>2. Entry(q, n).due < c /\ Entry(q, n).due >= c /\ Entry(q, n).due \in Nat
      BY <1>1, <1>3, <3>1
    <3> QED
      BY <3>2
  <2> QED
    BY <1>1, <2>1, <2>2
<1> HIDE DEF Q
<1>4. n = CHOOSE m \in 0..o : Q(m)
  BY <1>1, <1>2, <1>3
<1> QED
  BY <1>4 DEF Q

\* A line is a sequence of objects.
LEMMA LineIs ==
    ASSUME NEW q, q.occupied \in Nat, NEW c \in Nat, NEW n, Split(q, c, n)
    PROVE  /\ Line(q, n) \in Seq(Item) /\ Len(Line(q, n)) = q.occupied - n
           /\ \A i \in 1..(q.occupied - n) : Line(q, n)[i] = Entry(q, n + i - 1)
<1>1. n \in 0..q.occupied /\ \A i \in 0..(q.occupied - 1) : Entry(q, i) \in Item
  BY DEF Split
<1>2. ASSUME NEW i \in 1..(q.occupied - n) PROVE Entry(q, n + i - 1) \in Item
  <2>1. n + i - 1 \in 0..(q.occupied - 1)
    BY <1>1
  <2> QED
    BY <1>1, <2>1
<1>3. q.occupied - n \in Nat
  BY <1>1
<1> QED
  BY <1>2, <1>3 DEF Line

\* Sequences with the same elements are the same.
LEMMA SameSeq ==
    ASSUME NEW S, NEW s \in Seq(S), NEW t \in Seq(S), Len(s) = Len(t),
           \A i \in 1..Len(s) : s[i] = t[i]
    PROVE  s = t
<1>1. s = [i \in 1..Len(s) |-> s[i]]
  OBVIOUS
<1>2. t = [i \in 1..Len(s) |-> t[i]]
  OBVIOUS
<1> QED
  BY <1>1, <1>2

\* The cleanup changes nothing that the promise sees.
LEMMA CleanLine ==
    ASSUME NEW q, RingOK(q), NEW c \in Nat, NEW n, Split(q, c, n), NEW p, p = drop(q, n)
    PROVE  Split(p, c, 0) /\ Line(p, 0) = Line(q, n) /\ RingOK(p)
<1> DEFINE o == q.occupied
<1>0. o \in Nat
  BY DEF RingOK
<1>1. /\ n \in 0..o /\ \A i \in 0..(o - 1) : Entry(q, i) \in Item
      /\ \A i \in n..(o - 1) : Entry(q, i).due >= c
  BY DEF Split
<1>2. RingOK(p) /\ p.occupied = o - n /\ \A i \in 0..(p.occupied - 1) : Entry(p, i) = Entry(q, i + n)
  BY <1>1, DropRing
<1> HIDE DEF o
<1>3. ASSUME NEW i \in 0..(p.occupied - 1)
      PROVE  Entry(p, i) \in Item /\ Entry(p, i).due >= c
  <2>1. i + n \in 0..(o - 1) /\ i + n \in n..(o - 1)
    BY <1>0, <1>1, <1>2
  <2> QED
    BY <1>1, <1>2, <2>1
<1>4. p.occupied \in Nat /\ Split(p, c, 0)
  BY <1>0, <1>1, <1>2, <1>3 DEF Split
<1>5. /\ Line(p, 0) \in Seq(Item) /\ Len(Line(p, 0)) = p.occupied - 0
      /\ \A i \in 1..(p.occupied - 0) : Line(p, 0)[i] = Entry(p, 0 + i - 1)
  BY <1>4, LineIs
<1>6. /\ Line(q, n) \in Seq(Item) /\ Len(Line(q, n)) = o - n
      /\ \A i \in 1..(o - n) : Line(q, n)[i] = Entry(q, n + i - 1)
  BY <1>0, LineIs DEF o
<1>7. ASSUME NEW i \in 1..(o - n) PROVE Line(p, 0)[i] = Line(q, n)[i]
  <2>1. i \in 1..(p.occupied - 0) /\ i - 1 \in 0..(p.occupied - 1) /\ 0 + i - 1 = i - 1 /\ (i - 1) + n = n + i - 1
    BY <1>0, <1>1, <1>2
  <2> QED
    BY <1>2, <1>5, <1>6, <2>1
<1>8. Len(Line(p, 0)) = o - n
  BY <1>0, <1>1, <1>2, <1>5
<1> QED
  BY <1>2, <1>4, <1>5, <1>6, <1>7, <1>8, SameSeq

\* emplace appends to the line.
LEMMA EmplacedLine ==
    ASSUME NEW q, RingOK(q), q.occupied < q.capacity, NEW c \in Nat, Split(q, c, 0),
           NEW x \in Item, x.due >= c, NEW p, p = emplace(q, x)
    PROVE  Split(p, c, 0) /\ Line(p, 0) = Append(Line(q, 0), x)
<1> DEFINE o == q.occupied
<1>0. o \in Nat
  BY DEF RingOK
<1>1. \A i \in 0..(o - 1) : Entry(q, i) \in Item /\ Entry(q, i).due >= c
  BY DEF Split
<1>2. /\ p.occupied = o + 1 /\ Entry(p, o) = x
      /\ \A i \in 0..(o - 1) : Entry(p, i) = Entry(q, i)
  BY EmplaceRing
<1>6. /\ Line(q, 0) \in Seq(Item) /\ Len(Line(q, 0)) = o - 0
      /\ \A i \in 1..(o - 0) : Line(q, 0)[i] = Entry(q, 0 + i - 1)
  BY <1>0, LineIs
<1> HIDE DEF o
<1>3. ASSUME NEW i \in 0..(p.occupied - 1)
      PROVE  Entry(p, i) \in Item /\ Entry(p, i).due >= c
  <2>1. i \in 0..(o - 1) \/ i = o
    BY <1>0, <1>2
  <2> QED
    BY <1>1, <1>2, <2>1
<1>4. p.occupied \in Nat /\ Split(p, c, 0)
  BY <1>0, <1>2, <1>3 DEF Split
<1>5. /\ Line(p, 0) \in Seq(Item) /\ Len(Line(p, 0)) = p.occupied - 0
      /\ \A i \in 1..(p.occupied - 0) : Line(p, 0)[i] = Entry(p, 0 + i - 1)
  BY <1>4, LineIs
<1> DEFINE s == Line(q, 0)
           t == Append(s, x)
<1>7. s \in Seq(Item) /\ Len(s) = o /\ \A i \in 1..o : s[i] = Entry(q, i - 1)
  BY <1>0, <1>6
<1> HIDE DEF s
<1>8. /\ t \in Seq(Item) /\ Len(t) = o + 1 /\ t[o + 1] = x
      /\ \A i \in 1..o : t[i] = s[i]
  BY <1>0, <1>7
<1> HIDE DEF t
<1>9. ASSUME NEW i \in 1..(o + 1) PROVE Line(p, 0)[i] = t[i]
  <2>1. i \in 1..(p.occupied - 0) /\ 0 + i - 1 = i - 1 /\ i - 1 \in 0..o
    BY <1>0, <1>2
  <2>2. Line(p, 0)[i] = Entry(p, i - 1)
    BY <1>5, <2>1
  <2>3. CASE i = o + 1
    BY <1>0, <1>2, <1>8, <2>2, <2>3
  <2>4. CASE i # o + 1
    <3>1. i \in 1..o /\ i - 1 \in 0..(o - 1)
      BY <1>0, <2>4
    <3> QED
      BY <1>2, <1>7, <1>8, <2>2, <3>1
  <2> QED
    BY <2>3, <2>4
<1>10. Len(Line(p, 0)) = o + 1
  BY <1>0, <1>2, <1>5
<1>11. Line(p, 0) = t
  BY <1>5, <1>8, <1>9, <1>10, SameSeq
<1> QED
  BY <1>4, <1>11 DEF t, s

\* pop takes the head of the line.
LEMMA PoppedLine ==
    ASSUME NEW q, RingOK(q), NEW c \in Nat, Split(q, c, 0), q.occupied # 0, NEW p, p = drop(q, 1)
    PROVE  /\ Split(p, c, 0) /\ Line(p, 0) = Tail(Line(q, 0))
           /\ Line(q, 0) # <<>> /\ Head(Line(q, 0)) = Entry(q, 0)
<1> DEFINE o == q.occupied
           s == Line(q, 0)
<1>0. o \in Nat /\ o >= 1
  BY DEF RingOK
<1>1. \A i \in 0..(o - 1) : Entry(q, i) \in Item /\ Entry(q, i).due >= c
  BY DEF Split
<1>2. p.occupied = o - 1 /\ \A i \in 0..(p.occupied - 1) : Entry(p, i) = Entry(q, i + 1)
  BY <1>0, DropRing
<1>6. /\ s \in Seq(Item) /\ Len(s) = o - 0
      /\ \A i \in 1..(o - 0) : s[i] = Entry(q, 0 + i - 1)
  BY <1>0, LineIs
<1> HIDE DEF o
<1>3. ASSUME NEW i \in 0..(p.occupied - 1)
      PROVE  Entry(p, i) \in Item /\ Entry(p, i).due >= c
  <2>1. i + 1 \in 0..(o - 1)
    BY <1>0, <1>2
  <2> QED
    BY <1>1, <1>2, <2>1
<1>4. p.occupied \in Nat /\ Split(p, c, 0)
  BY <1>0, <1>2, <1>3 DEF Split
<1>5. /\ Line(p, 0) \in Seq(Item) /\ Len(Line(p, 0)) = p.occupied - 0
      /\ \A i \in 1..(p.occupied - 0) : Line(p, 0)[i] = Entry(p, 0 + i - 1)
  BY <1>4, LineIs
<1> HIDE DEF s
<1>7. s \in Seq(Item) /\ Len(s) = o /\ \A i \in 1..o : s[i] = Entry(q, i - 1)
  BY <1>0, <1>6
<1>8. /\ s # <<>> /\ Head(s) = Entry(q, 0)
      /\ Tail(s) \in Seq(Item) /\ Len(Tail(s)) = o - 1
      /\ \A i \in 1..(o - 1) : Tail(s)[i] = s[i + 1]
  BY <1>0, <1>7
<1>9. ASSUME NEW i \in 1..(o - 1) PROVE Line(p, 0)[i] = Tail(s)[i]
  <2>1. /\ i \in 1..(p.occupied - 0) /\ 0 + i - 1 = i - 1 /\ i - 1 \in 0..(p.occupied - 1)
        /\ (i - 1) + 1 = i /\ i + 1 \in 1..o /\ (i + 1) - 1 = i
    BY <1>0, <1>2
  <2>2. Line(p, 0)[i] = Entry(q, i)
    BY <1>2, <1>5, <2>1
  <2>3. Tail(s)[i] = Entry(q, i)
    BY <1>7, <1>8, <2>1
  <2> QED
    BY <2>2, <2>3
<1>10. Len(Line(p, 0)) = o - 1
  BY <1>0, <1>2, <1>5
<1>11. Line(p, 0) = Tail(s)
  BY <1>5, <1>8, <1>9, <1>10, SameSeq
<1> QED
  BY <1>4, <1>8, <1>11 DEF s

\* The clock takes from the line what was due in the cycle that ends.
LEMMA TickedLine ==
    ASSUME NEW q, q.occupied \in Nat, cycle \in Nat,
           NEW n, Split(q, cycle, n), NEW m, Split(q, cycle + 1, m)
    PROVE  Line(q, m) = Abs!Later(Line(q, n))
<1> DEFINE o == q.occupied
           k == m - n
           s == Line(q, n)
           L == Len(s)
           Q(j) == /\ \A i \in 1..j : s[i].due <= cycle
                   /\ j < L => s[j + 1].due > cycle
<1>1. /\ n \in 0..o /\ m \in 0..o /\ o \in Nat
      /\ \A i \in 0..(o - 1) : Entry(q, i) \in Item /\ Entry(q, i).due \in Nat
  BY DEF Split, Item
<1>2. /\ \A i \in 0..(n - 1) : Entry(q, i).due < cycle
      /\ \A i \in n..(o - 1) : Entry(q, i).due >= cycle
      /\ \A i \in 0..(m - 1) : Entry(q, i).due < cycle + 1
      /\ \A i \in m..(o - 1) : Entry(q, i).due >= cycle + 1
  BY DEF Split
<1>3. n <= m
  <2> SUFFICES ASSUME m < n PROVE FALSE
    BY <1>1
  <2>1. m \in 0..(n - 1) /\ m \in m..(o - 1) /\ m \in 0..(o - 1)
    BY <1>1
  <2>2. Entry(q, m).due < cycle /\ Entry(q, m).due >= cycle + 1 /\ Entry(q, m).due \in Nat
    BY <1>1, <1>2, <2>1
  <2> QED
    BY <2>2
<1>4. s \in Seq(Item) /\ L = o - n /\ \A i \in 1..L : s[i] = Entry(q, n + i - 1)
  BY LineIs
<1>5. /\ Line(q, m) \in Seq(Item) /\ Len(Line(q, m)) = o - m
      /\ \A i \in 1..(o - m) : Line(q, m)[i] = Entry(q, m + i - 1)
  BY <1>1, LineIs
<1> HIDE DEF o, s, L
<1>6. k \in 0..L
  BY <1>1, <1>3, <1>4
<1>7. Q(k)
  <2>1. ASSUME NEW i \in 1..k PROVE s[i].due <= cycle
    <3>1. i \in 1..L /\ n + i - 1 \in 0..(m - 1) /\ n + i - 1 \in 0..(o - 1)
      BY <1>1, <1>3, <1>4
    <3>2. Entry(q, n + i - 1).due < cycle + 1 /\ Entry(q, n + i - 1).due \in Nat
      BY <1>1, <1>2, <3>1
    <3> QED
      BY <1>4, <3>1, <3>2
  <2>2. ASSUME k < L PROVE s[k + 1].due > cycle
    <3>1. k + 1 \in 1..L /\ n + (k + 1) - 1 = m /\ m \in m..(o - 1) /\ m \in 0..(o - 1)
      BY <1>1, <1>3, <1>4, <2>2
    <3>2. Entry(q, m).due >= cycle + 1 /\ Entry(q, m).due \in Nat
      BY <1>1, <1>2, <3>1
    <3>3. s[k + 1] = Entry(q, m)
      BY <1>4, <3>1
    <3> QED
      BY <3>2, <3>3
  <2> QED
    BY <2>1, <2>2
<1>8. ASSUME NEW i \in 1..L PROVE s[i].due \in Nat
  <2>1. n + i - 1 \in 0..(o - 1)
    BY <1>1, <1>4
  <2> QED
    BY <1>1, <1>4, <2>1
<1>9. ASSUME NEW j \in 0..L, Q(j) PROVE j = k
  <2>0. L \in Nat
    BY <1>1, <1>4
  <2>1. ASSUME j < k PROVE FALSE
    <3>1. j + 1 \in 1..k /\ j < L /\ j + 1 \in 1..L
      BY <1>6, <2>0, <2>1
    <3>2. s[j + 1].due <= cycle /\ s[j + 1].due > cycle /\ s[j + 1].due \in Nat
      BY <1>7, <1>8, <1>9, <3>1
    <3> QED
      BY <3>2
  <2>2. ASSUME k < j PROVE FALSE
    <3>1. k + 1 \in 1..j /\ k < L /\ k + 1 \in 1..L
      BY <1>6, <2>0, <2>2
    <3>2. s[k + 1].due <= cycle /\ s[k + 1].due > cycle /\ s[k + 1].due \in Nat
      BY <1>7, <1>8, <1>9, <3>1
    <3> QED
      BY <3>2
  <2> QED
    BY <1>6, <2>0, <2>1, <2>2
<1> HIDE DEF Q, k
<1>10. k = CHOOSE j \in 0..L : Q(j)
  BY <1>6, <1>7, <1>9
<1>11. Abs!Later(s) = SubSeq(s, k + 1, L)
  BY <1>10 DEF Abs!Later, Q, L
<1> DEFINE t == SubSeq(s, k + 1, L)
<1>12. /\ t \in Seq(Item) /\ Len(t) = o - m
       /\ \A i \in 1..(o - m) : t[i] = s[k + i]
  <2>1. L - k = o - m /\ L \in Nat /\ L = Len(s) /\ s \in Seq(Item)
    BY <1>1, <1>3, <1>4 DEF k, L
  <2>2. t \in Seq(Item) /\ Len(t) = L - k /\ \A i \in 1..(L - k) : t[i] = s[k + i]
    BY <1>6, <2>1
  <2> QED
    BY <2>1, <2>2
<1>13. ASSUME NEW i \in 1..(o - m) PROVE Line(q, m)[i] = t[i]
  <2>0. m \in Nat /\ n \in Nat /\ o \in Nat /\ i \in Nat /\ n <= m /\ 1 <= i /\ i <= o - m /\ L = o - n
    BY <1>1, <1>3, <1>4
  <2>1. k + i \in 1..L /\ n + (k + i) - 1 = m + i - 1
    BY <2>0 DEF k
  <2> QED
    BY <1>4, <1>5, <1>12, <2>1
<1> HIDE DEF t
<1>14. Line(q, m) = t
  BY <1>5, <1>12, <1>13, SameSeq
<1> QED
  BY <1>11, <1>14 DEF t, s

\* is_ready looks at the front of the cleaned queue, the promise at the head.
LEMMA ReadyLine ==
    ASSUME NEW q, RingOK(q), cycle \in Nat, Split(q, cycle, 0)
    PROVE  /\ ReadyFront(q) <=> Line(q, 0) # <<>> /\ Head(Line(q, 0)).due = cycle
           /\ ReadyFront(q) => Head(Line(q, 0)) = front(q)
<1>1. front(q) = Entry(q, 0)
  <2>1. q.p_front \in 0..(q.capacity - 1) /\ q.capacity \in Nat \ {0}
    BY DEF RingOK
  <2>2. Slot(q, 0) = Wrap(q.capacity, q.p_front + 0)
    BY <2>1, SlotValue
  <2>3. ASSUME NEW c \in Nat \ {0}, NEW f \in 0..(c - 1) PROVE Wrap(c, f + 0) = f
    BY DEF Wrap
  <2>4. Slot(q, 0) = q.p_front
    BY <2>1, <2>2, <2>3
  <2> QED
    BY <2>4 DEF front, Entry
<1>2. CASE q.occupied = 0
  <2>1. Line(q, 0) \in Seq(Item) /\ Len(Line(q, 0)) = q.occupied - 0
    BY LineIs DEF RingOK
  <2>2. Line(q, 0) = <<>>
    BY <1>2, <2>1
  <2> QED
    BY <1>2, <2>2 DEF ReadyFront, empty
<1>3. CASE q.occupied # 0
  <2>1. Line(q, 0) # <<>> /\ Head(Line(q, 0)) = Entry(q, 0)
    BY <1>3, PoppedLine
  <2> QED
    BY <1>1, <1>3, <2>1 DEF ReadyFront, empty
<1> QED
  BY <1>2, <1>3

\* The line of a reader is what its queue holds behind the stale objects, which
\* are those that the cleanup takes away.
LEMMA LiveIs ==
    ASSUME IInv, NEW r \in Readers
    PROVE  /\ RingOK(queue[r]) /\ cycle \in Nat
           /\ \E n \in 0..queue[r].occupied :
                /\ Split(queue[r], cycle, n) /\ LiveLine(r) = Line(queue[r], n)
                /\ cleanup_stale_data(queue[r]) = drop(queue[r], n)
<1> DEFINE q == queue[r]
<1>1. Good(q, Lat[r], cycle, writes) /\ Lat[r] \in Nat /\ cycle \in Nat /\ writes \in Nat
  BY QueueSize, BoundAssumption DEF IInv, TypeOK
<1>2. RingOK(q) /\ q.occupied \in Nat
  BY <1>1 DEF Good, RingOK
<1>3. PICK n \in 0..q.occupied : Split(q, cycle, n)
  BY <1>1, SplitExists
<1>4. n = stale_count(q)
  BY <1>1, <1>2, <1>3, SplitIsStale DEF stale_count, Stale
<1>5. LiveLine(r) = Line(q, n) /\ cleanup_stale_data(q) = drop(q, n)
  BY <1>4 DEF LiveLine, Line, cleanup_stale_data
<1> QED
  BY <1>1, <1>2, <1>3, <1>5

\* The same after a step, for whatever split there is.
LEMMA LiveAfter ==
    ASSUME NEW r \in Readers, queue'[r].occupied \in Nat, cycle' \in Nat,
           NEW n, Split(queue'[r], cycle', n)
    PROVE  LiveLine(r)' = Line(queue'[r], n)
<1>1. n = stale_count(queue[r])'
  BY SplitIsStale DEF stale_count, Stale
<1> QED
  BY <1>1 DEF LiveLine, Line

\* The cleanup of a reader leaves its line alone, and so does a step that does not
\* touch its queue.
LEMMA LineKept ==
    ASSUME IInv, NEW r \in Readers, cycle' = cycle,
           queue'[r] = queue[r] \/ queue'[r] = cleanup_stale_data(queue[r])
    PROVE  LiveLine(r)' = LiveLine(r)
<1>1. PICK n \in 0..queue[r].occupied :
         /\ Split(queue[r], cycle, n) /\ LiveLine(r) = Line(queue[r], n)
         /\ cleanup_stale_data(queue[r]) = drop(queue[r], n)
  BY LiveIs
<1>2. RingOK(queue[r]) /\ cycle \in Nat /\ queue[r].occupied \in Nat
  BY LiveIs DEF RingOK
<1>3. CASE queue'[r] = queue[r]
  BY <1>1, <1>2, <1>3, LiveAfter
<1>4. CASE queue'[r] = cleanup_stale_data(queue[r])
  <2>1. Split(queue'[r], cycle, 0) /\ Line(queue'[r], 0) = Line(queue[r], n) /\ RingOK(queue'[r])
    BY <1>1, <1>2, <1>4, CleanLine
  <2>2. queue'[r].occupied \in Nat
    BY <2>1 DEF RingOK
  <2> QED
    BY <1>1, <1>2, <2>1, <2>2, LiveAfter
<1> QED
  BY <1>3, <1>4

\* What a call finds after its cleanup.
LEMMA Cleaned ==
    ASSUME IInv, NEW r \in Readers, NEW q, q = cleanup_stale_data(queue[r])
    PROVE  /\ Split(q, cycle, 0) /\ Line(q, 0) = LiveLine(r) /\ RingOK(q)
           /\ ReadyFront(q) <=> Abs!Ready(r)
           /\ ReadyFront(q) => Head(LiveLine(r)) = front(q)
<1>1. PICK n \in 0..queue[r].occupied :
         /\ Split(queue[r], cycle, n) /\ LiveLine(r) = Line(queue[r], n)
         /\ cleanup_stale_data(queue[r]) = drop(queue[r], n)
  BY LiveIs
<1>2. RingOK(queue[r]) /\ cycle \in Nat
  BY LiveIs
<1>3. Split(q, cycle, 0) /\ Line(q, 0) = LiveLine(r) /\ RingOK(q)
  BY <1>1, <1>2, CleanLine
<1>4. /\ ReadyFront(q) <=> Line(q, 0) # <<>> /\ Head(Line(q, 0)).due = cycle
      /\ ReadyFront(q) => Head(Line(q, 0)) = front(q)
  BY <1>2, <1>3, ReadyLine
<1>5. Abs!Ready(r) <=> LiveLine(r) # <<>> /\ Head(LiveLine(r)).due = cycle
  BY DEF Abs!Ready
<1> QED
  BY <1>3, <1>4, <1>5

\* The write counter is behind the accepted writes of the cycle only when these
\* use up the bandwidth: a refusal is never too early.
RInv == IInv /\ (last_cycle = cycle => write_counter <= writes \/ writes >= BW)

\* Both parts are inductive.
LEMMA RInvStep ==
    ASSUME ClientMax <= BW, RInv, [Next]_vars
    PROVE  RInv' /\ cycle \in Nat /\ writes \in Nat /\ write_counter \in Nat
<1> USE BWAssumption, BoundAssumption
<1>1. IInv' /\ cycle \in Nat /\ writes \in Nat /\ write_counter \in Nat /\ last_cycle \in 0..cycle
  BY IInvStep DEF RInv, IInv, TypeOK
<1>2. last_cycle' = cycle' => write_counter' <= writes' \/ writes' >= BW
  <2>1. CASE Tick
    BY <1>1, <2>1 DEF Tick
  <2>2. CASE WriteOverload
    BY <1>1, <2>2 DEF WriteOverload, overloaded, next_write_counter, RInv
  <2>3. ASSUME NEW d \in Data, Write(d) PROVE write_counter' <= writes' \/ writes' >= BW
    BY <1>1, <2>3 DEF Write, next_write_counter, RInv
  <2>4. ASSUME NEW r \in Readers, IsReady(r) \/ Read(r) \/ ReadNothing(r)
        PROVE  UNCHANGED <<cycle, write_counter, last_cycle, writes>>
    BY <2>4 DEF IsReady, Read, ReadNothing
  <2>5. CASE UNCHANGED vars
    BY <1>1, <2>5 DEF vars, RInv
  <2> QED
    BY <2>1, <2>2, <2>3, <2>4, <2>5 DEF Next, RInv
<1> QED
  BY <1>1, <1>2 DEF RInv

\* Every step is a step of the delay line.
LEMMA StepIsDelay ==
    ASSUME ClientMax <= BW, RInv, Next
    PROVE  Abs!Next
<1> USE BWAssumption, BoundAssumption
<1>1. /\ IInv /\ RInv' /\ IInv' /\ cycle \in Nat /\ writes \in Nat /\ write_counter \in Nat
      /\ writes <= ClientMax /\ DOMAIN queue = Readers
  BY RInvStep DEF RInv, IInv, TypeOK
<1> DEFINE line == [r \in Readers |-> LiveLine(r)]
<1>2. CASE Tick
  <2>1. ASSUME NEW r \in Readers PROVE LiveLine(r)' = Abs!Later(LiveLine(r))
    <3>1. PICK n \in 0..queue[r].occupied : Split(queue[r], cycle, n) /\ LiveLine(r) = Line(queue[r], n)
      BY <1>1, LiveIs
    <3>2. Good(queue[r], Lat[r], cycle, writes) /\ Lat[r] \in Nat /\ cycle + 1 \in Nat
      BY <1>1, QueueSize DEF IInv
    <3>3. PICK m \in 0..queue[r].occupied : Split(queue[r], cycle + 1, m)
      BY <1>1, <3>2, SplitExists
    <3>4. queue[r].occupied \in Nat /\ queue'[r] = queue[r] /\ cycle' = cycle + 1
      BY <1>2, <3>2 DEF Tick, Good, RingOK
    <3>5. LiveLine(r)' = Line(queue[r], m)
      BY <3>2, <3>3, <3>4, LiveAfter
    <3>6. Line(queue[r], m) = Abs!Later(Line(queue[r], n))
      BY <1>1, <3>1, <3>3, <3>4, TickedLine
    <3> QED
      BY <3>1, <3>5, <3>6
  <2>2. line' = [r \in Readers |-> Abs!Later(line[r])]
    BY <2>1
  <2> QED
    BY <1>2, <2>2 DEF Tick, Abs!Next, Abs!Tick
<1>3. CASE WriteOverload
  <2>1. writes >= BW
    BY <1>1, <1>3 DEF WriteOverload, overloaded, next_write_counter, RInv
  <2>2. ASSUME NEW r \in Readers PROVE LiveLine(r)' = LiveLine(r)
    BY <1>1, <1>3, LineKept DEF WriteOverload
  <2>3. line' = line
    BY <2>2
  <2> QED
    BY <1>3, <2>1, <2>3 DEF WriteOverload, Abs!Next, Abs!WriteOverload
<1>4. ASSUME NEW d \in Data, Write(d) PROVE Abs!Next
  <2>1. ASSUME NEW r \in Readers
        PROVE  LiveLine(r)' = Append(LiveLine(r), [data |-> d, due |-> cycle + Lat[r]])
    <3> DEFINE q == cleanup_stale_data(queue[r])
               x == [data |-> d, due |-> cycle + Lat[r]]
               p == emplace(q, x)
    <3>1. Split(q, cycle, 0) /\ Line(q, 0) = LiveLine(r) /\ RingOK(q)
      BY <1>1, Cleaned
    <3>2. queue'[r] = p /\ cycle' = cycle
      BY <1>4 DEF Write, emplaceData
    <3>3. x \in Item /\ x.due >= cycle
      BY <1>1, QueueSize DEF Item
    <3>4. RingOK(p) /\ p.occupied = q.occupied + 1 /\ p.capacity = q.capacity
      <4>1. RingOK(queue'[r])
        BY <1>1 DEF IInv, Good
      <4> QED
        BY <3>2, <4>1 DEF emplace
    <3>5. q.occupied < q.capacity /\ p.occupied \in Nat
      BY <3>1, <3>4 DEF RingOK
    <3> HIDE DEF q, x
    <3>6. Split(p, cycle, 0) /\ Line(p, 0) = Append(Line(q, 0), x)
      BY <1>1, <3>1, <3>3, <3>5, EmplacedLine
    <3> HIDE DEF p
    <3>7. LiveLine(r)' = Line(p, 0)
      BY <1>1, <3>2, <3>5, <3>6, LiveAfter
    <3> QED
      BY <3>1, <3>6, <3>7 DEF x
  <2>2. line' = [r \in Readers |-> Append(line[r], [data |-> d, due |-> cycle + Lat[r]])]
    BY <2>1
  <2>3. writes < BW
    BY <1>1, <1>4 DEF Write
  <2> QED
    BY <1>4, <2>2, <2>3 DEF Write, Abs!Next, Abs!Write
<1>5. ASSUME NEW r \in Readers, IsReady(r) \/ ReadNothing(r) PROVE Abs!Next
  <2>1. /\ queue' = [queue EXCEPT ![r] = cleanup_stale_data(queue[r])]
        /\ cycle' = cycle /\ writes' = writes
    BY <1>5 DEF IsReady, ReadNothing
  <2>2. ASSUME NEW s \in Readers PROVE LiveLine(s)' = LiveLine(s)
    <3>1. queue'[s] = queue[s] \/ queue'[s] = cleanup_stale_data(queue[s])
      BY <1>1, <2>1
    <3> QED
      BY <1>1, <2>1, <3>1, LineKept
  <2>3. line' = line
    BY <2>2
  <2>4. ReadyFront(cleanup_stale_data(queue[r])) <=> Abs!Ready(r)
    BY <1>1, Cleaned
  <2>5. CASE IsReady(r)
    BY <2>1, <2>3, <2>4, <2>5 DEF IsReady, Abs!Next, Abs!IsReady
  <2>6. CASE ReadNothing(r)
    BY <2>1, <2>3, <2>4, <2>6 DEF ReadNothing, Abs!Next, Abs!ReadNothing
  <2> QED
    BY <1>5, <2>5, <2>6
<1>6. ASSUME NEW r \in Readers, Read(r) PROVE Abs!Next
  <2> DEFINE q == cleanup_stale_data(queue[r])
  <2>1. /\ queue' = [queue EXCEPT ![r] = drop(q, 1)] /\ ReadyFront(q)
        /\ cycle' = cycle /\ writes' = writes /\ ret' = front(q).data
    BY <1>6 DEF Read, pop
  <2>2. /\ Split(q, cycle, 0) /\ Line(q, 0) = LiveLine(r) /\ RingOK(q)
        /\ Abs!Ready(r) /\ Head(LiveLine(r)) = front(q)
    BY <1>1, <2>1, Cleaned
  <2> HIDE DEF q
  <2>3. q.occupied # 0 /\ 1 \in 0..q.occupied
    BY <2>1, <2>2 DEF ReadyFront, empty, RingOK
  <2>4. LiveLine(r)' = Tail(LiveLine(r))
    <3> DEFINE p == drop(q, 1)
    <3>1. Split(p, cycle, 0) /\ Line(p, 0) = Tail(Line(q, 0))
      BY <1>1, <2>2, <2>3, PoppedLine
    <3>2. RingOK(p)
      BY <2>2, <2>3, DropRing
    <3>3. queue'[r] = p
      BY <1>1, <2>1
    <3> HIDE DEF p
    <3>4. p.occupied \in Nat
      BY <3>2 DEF RingOK
    <3>5. LiveLine(r)' = Line(p, 0)
      BY <1>1, <2>1, <3>1, <3>3, <3>4, LiveAfter
    <3> QED
      BY <2>2, <3>1, <3>5
  <2>5. ASSUME NEW s \in Readers, s # r PROVE LiveLine(s)' = LiveLine(s)
    <3>1. queue'[s] = queue[s]
      BY <1>1, <2>1, <2>5
    <3> QED
      BY <1>1, <2>1, <3>1, LineKept
  <2>6. line' = [line EXCEPT ![r] = Tail(line[r])]
    BY <2>4, <2>5
  <2> QED
    BY <2>1, <2>2, <2>6 DEF Abs!Next, Abs!Read
<1> QED
  BY <1>2, <1>3, <1>4, <1>5, <1>6 DEF Next

\* For every set of readers, latency and bandwidth: with a client that respects
\* the bandwidth, write, is_ready and read of a port behave as a line that delays
\* each datum by its latency (ImplementsDelayLine).
THEOREM PortsDelayLine ==
    ASSUME ClientMax <= BW
    PROVE  Spec => ImplementsDelayLine
<1>1. ASSUME Init PROVE RInv /\ Abs!Init
  <2>1. RInv
    BY <1>1, IInvInit DEF RInv, Init
  <2>2. ASSUME NEW r \in Readers PROVE LiveLine(r) = <<>>
    <3>1. PICK n \in 0..queue[r].occupied : Split(queue[r], cycle, n) /\ LiveLine(r) = Line(queue[r], n)
      BY <2>1, LiveIs DEF RInv
    <3>2. queue[r].occupied = 0 /\ cycle \in Nat
      BY <1>1 DEF Init, resize
    <3>3. Line(queue[r], n) \in Seq(Item) /\ Len(Line(queue[r], n)) = 0
      BY <3>1, <3>2, LineIs
    <3> QED
      BY <3>1, <3>3
  <2>3. [r \in Readers |-> LiveLine(r)] = [r \in Readers |-> <<>>]
    BY <2>2
  <2> QED
    BY <1>1, <2>1, <2>3 DEF Init, Abs!Init
<1>2. ASSUME RInv, [Next]_vars PROVE RInv' /\ [Abs!Next]_(Abs!vars)
  <2>1. RInv'
    BY <1>2, RInvStep
  <2>2. CASE Next
    BY <1>2, <2>1, <2>2, StepIsDelay
  <2>3. CASE UNCHANGED vars
    <3>1. ASSUME NEW r \in Readers PROVE LiveLine(r)' = LiveLine(r)
      BY <1>2, <2>3, LineKept DEF vars, RInv
    <3>2. [r \in Readers |-> LiveLine(r)]' = [r \in Readers |-> LiveLine(r)]
      BY <3>1
    <3> QED
      BY <2>1, <2>3, <3>2 DEF vars, Abs!vars
  <2> QED
    BY <1>2, <2>1, <2>2, <2>3
<1> QED
  BY <1>1, <1>2, PTL DEF Spec, ImplementsDelayLine, Abs!Spec
=============================================================================
