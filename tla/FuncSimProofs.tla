--------------------------- MODULE FuncSimProofs ---------------------------
(***************************************************************************)
(* Proofs about FuncSim for every program, every size of the memory and    *)
(* every capacity of the instruction cache.  First the LRU list, then the  *)
(* cache as a value, then the program counter and the simulator.           *)
(***************************************************************************)
EXTENDS FuncSim, TLAPS

(* The LRU list *)

\* A list of all places, each once.
Perm(list) ==
    /\ list \in [1..CAPACITY -> Place]
    /\ \A j, k \in 1..CAPACITY : list[j] = list[k] => j = k
    /\ \A w \in Place : \E k \in 1..CAPACITY : list[k] = w

\* The places of set E are the last ones of the list.
AtEnd(list, E) ==
    \A j, k \in 1..CAPACITY : j < k /\ list[j] \in E => list[k] \in E

\* LRU finds every way in its list.
LEMMA PlaceInList ==
    ASSUME NEW list, Perm(list), NEW w \in Place
    PROVE  R!place(list, w) \in 1..CAPACITY /\ list[R!place(list, w)] = w
  BY DEF R!place, Perm

\* LRU::touch moves a place to the head; free places stay behind.
LEMMA TouchList ==
    ASSUME NEW list, Perm(list), NEW w \in Place, NEW E, AtEnd(list, E)
    PROVE  Perm(R!lru_touch(list, w)) /\ AtEnd(R!lru_touch(list, w), E \ {w})
<1> DEFINE p == R!place(list, w)
           t == R!lru_touch(list, w)
<1>1. p \in 1..CAPACITY /\ list[p] = w
  BY PlaceInList
<1>2. t = [k \in 1..CAPACITY |->
             IF k = 1 THEN w ELSE IF k <= p THEN list[k - 1] ELSE list[k]]
  BY DEF R!lru_touch
<1>3. CAPACITY \in Nat /\ CAPACITY >= 1
  BY CapacityAssumption
<1> HIDE DEF p, t
<1>4. t \in [1..CAPACITY -> Place]
  BY <1>1, <1>2, <1>3 DEF Perm
<1>5. ASSUME NEW j \in 1..CAPACITY, NEW k \in 1..CAPACITY, t[j] = t[k] PROVE j = k
  BY <1>1, <1>2, <1>3, <1>5 DEF Perm
<1>6. ASSUME NEW v \in Place PROVE \E k \in 1..CAPACITY : t[k] = v
  <2>1. PICK k \in 1..CAPACITY : list[k] = v
    BY DEF Perm
  <2>2. CASE k > p
    BY <1>1, <1>2, <1>3, <2>1, <2>2
  <2>3. CASE k = p
    BY <1>1, <1>2, <1>3, <2>1, <2>3
  <2>4. CASE k < p
    <3>1. k + 1 \in 1..CAPACITY /\ k + 1 # 1 /\ k + 1 <= p /\ (k + 1) - 1 = k
      BY <1>1, <1>3, <2>4
    <3> QED
      BY <1>2, <2>1, <3>1
  <2> QED
    BY <1>1, <1>3, <2>2, <2>3, <2>4
<1>7. AtEnd(t, E \ {w})
  <2> SUFFICES ASSUME NEW j \in 1..CAPACITY, NEW k \in 1..CAPACITY, j < k, t[j] \in E, t[j] # w
               PROVE  t[k] \in E /\ t[k] # w
    BY DEF AtEnd
  <2>1. t[k] # w
    <3>1. t[1] = w /\ k # 1 /\ 1 \in 1..CAPACITY
      BY <1>2, <1>3
    <3> QED
      BY <1>5, <3>1
  <2>2. PICK i \in 1..CAPACITY : t[j] = list[i] /\ i < k /\ i <= j
    BY <1>1, <1>2, <1>3
  <2>3. PICK l \in 1..CAPACITY : t[k] = list[l] /\ (l = k \/ (l = k - 1 /\ k <= p))
    BY <1>1, <1>2, <1>3
  <2>4. i < l \/ i = l
    BY <2>2, <2>3
  <2> QED
    BY <2>1, <2>2, <2>3, <2>4 DEF AtEnd
<1> QED
  BY <1>4, <1>5, <1>6, <1>7 DEF Perm, t

\* LRU::set_to_erase moves a place to the end, where the free places are.
LEMMA EraseList ==
    ASSUME NEW list, Perm(list), NEW w \in Place, NEW E, AtEnd(list, E)
    PROVE  /\ Perm(set_to_erase(list, w)) /\ AtEnd(set_to_erase(list, w), E \cup {w})
           /\ set_to_erase(list, w)[CAPACITY] = w
<1> DEFINE p == R!place(list, w)
           t == set_to_erase(list, w)
<1>1. p \in 1..CAPACITY /\ list[p] = w
  BY PlaceInList
<1>2. t = [k \in 1..CAPACITY |->
             IF k = CAPACITY THEN w ELSE IF k >= p THEN list[k + 1] ELSE list[k]]
  BY DEF set_to_erase
<1>3. CAPACITY \in Nat /\ CAPACITY >= 1
  BY CapacityAssumption
<1> HIDE DEF p, t
<1>4. t \in [1..CAPACITY -> Place]
  BY <1>1, <1>2, <1>3 DEF Perm
<1>5. ASSUME NEW j \in 1..CAPACITY, NEW k \in 1..CAPACITY, t[j] = t[k] PROVE j = k
  BY <1>1, <1>2, <1>3, <1>5 DEF Perm
<1>6. ASSUME NEW v \in Place PROVE \E k \in 1..CAPACITY : t[k] = v
  <2>1. PICK k \in 1..CAPACITY : list[k] = v
    BY DEF Perm
  <2>2. CASE k < p
    BY <1>1, <1>2, <1>3, <2>1, <2>2
  <2>3. CASE k = p
    BY <1>1, <1>2, <1>3, <2>1, <2>3
  <2>4. CASE k > p
    <3>1. k - 1 \in 1..CAPACITY /\ k - 1 # CAPACITY /\ k - 1 >= p /\ (k - 1) + 1 = k
      BY <1>1, <1>3, <2>4
    <3> QED
      BY <1>2, <2>1, <3>1
  <2> QED
    BY <1>1, <1>3, <2>2, <2>3, <2>4
<1>7. t[CAPACITY] = w
  BY <1>2, <1>3
<1>8. AtEnd(t, E \cup {w})
  <2> SUFFICES ASSUME NEW j \in 1..CAPACITY, NEW k \in 1..CAPACITY, j < k, t[j] \in E \cup {w},
                      k # CAPACITY
               PROVE  t[k] \in E
    BY <1>7 DEF AtEnd
  <2>1. t[j] # w
    BY <1>3, <1>5, <1>7
  <2>2. PICK i \in 1..CAPACITY : t[j] = list[i] /\ (i = j \/ (i = j + 1 /\ j >= p))
    BY <1>1, <1>2, <1>3
  <2>3. PICK l \in 1..CAPACITY : t[k] = list[l] /\ (l = k \/ l = k + 1) /\ (k >= p => l = k + 1)
    BY <1>1, <1>2, <1>3
  <2>4. i < l
    BY <1>1, <2>2, <2>3
  <2> QED
    BY <2>1, <2>2, <2>3, <2>4 DEF AtEnd
<1> QED
  BY <1>4, <1>5, <1>6, <1>7, <1>8 DEF Perm, t

-----------------------------------------------------------------------------
(* The cache of decoded instructions *)

\* The parts of a cache have their types, and no key is 0.
CacheType(c) ==
    /\ c = [pointers |-> c.pointers, keys |-> c.keys, storage |-> c.storage, list |-> c.list]
    /\ c.pointers = [k \in DOMAIN c.pointers |-> c.pointers[k]]
    /\ DOMAIN c.pointers \subseteq Address \ {0}
    /\ \A k \in DOMAIN c.pointers : c.pointers[k] \in Place
    /\ c.keys \in [Place -> Address]
    /\ c.storage \in [Place -> Decoded \cup {NoObject}]
    /\ Perm(c.list)

\* CacheAgrees of module FuncSim, for any cache.
Agrees(c) ==
    /\ \A k \in DOMAIN c.pointers : c.keys[c.pointers[k]] = k
    /\ \A i \in Place : c.storage[i] # NoObject =>
          /\ c.keys[i] \in DOMAIN c.pointers
          /\ c.pointers[c.keys[i]] = i
          /\ c.storage[i] = create_instr(c.storage[i].word, c.keys[i])
    /\ \A i \in Place : c.storage[i] = NoObject => c.keys[i] = NoKey

Free(c) == {i \in Place : c.storage[i] = NoObject}

\* ... and the free places are the next victims.
CacheOK(c) == CacheType(c) /\ Agrees(c) /\ AtEnd(c.list, Free(c))

\* A place is one of 0 .. CAPACITY - 1, which are those of LRU.
LEMMA Numbers ==
    /\ CAPACITY \in Nat /\ CAPACITY >= 1 /\ CAPACITY \in 1..CAPACITY
    /\ Size \in Nat /\ Size > 1 /\ NoKey = 0 /\ 0 \in Address
  BY CapacityAssumption, FuncSimAssumption DEF Address

\* The decoder makes an instruction of the word and its address.
LEMMA Created ==
    ASSUME NEW w \in Word, NEW a \in Address
    PROVE  /\ create_instr(w, a) \in Decoded /\ create_instr(w, a) # NoObject
           /\ create_instr(w, a).pc = a /\ create_instr(w, a).word = w
           /\ create_instr(w, a).slots = slots_of(w)
<1>1. After(a, w.arg) \in Address /\ w.arg \in Address
  <2>1. w.arg \in Address
    BY WordAssumption, Numbers DEF Word, Nop
  <2>2. ASSUME NEW n \in Nat PROVE n % Size \in 0..(Size - 1)
    BY Numbers
  <2> QED
    BY <2>1, <2>2, Numbers DEF After, Address
<1>2. slots_of(w) \in {0, 1}
  BY DEF slots_of
<1> QED
  BY <1>1, <1>2, WordAssumption DEF create_instr, Decoded

\* A key and its place belong together.
LEMMA FoundPlace ==
    ASSUME NEW c, CacheType(c), Agrees(c), NEW k \in DOMAIN c.pointers
    PROVE  /\ k \in Address \ {0} /\ c.pointers[k] \in Place
           /\ c.keys[c.pointers[k]] = k
           /\ c.storage[c.pointers[k]] # NoObject
           /\ c.storage[c.pointers[k]] = create_instr(c.storage[c.pointers[k]].word, k)
  BY Numbers DEF CacheType, Agrees

\* InstrCache::touch
LEMMA TouchedOK ==
    ASSUME NEW c, CacheOK(c), NEW a, found(c, a)
    PROVE  CacheOK(touched(c, a)) /\ touched(c, a).pointers = c.pointers
<1> DEFINE i == c.pointers[a]
           p == touched(c, a)
<1>1. i \in Place /\ i \notin Free(c)
  BY FoundPlace DEF CacheOK, found, Free
<1>2. Perm(R!lru_touch(c.list, i)) /\ AtEnd(R!lru_touch(c.list, i), Free(c) \ {i})
  BY <1>1, TouchList DEF CacheOK, CacheType
<1>3. /\ p = [pointers |-> p.pointers, keys |-> p.keys, storage |-> p.storage, list |-> p.list]
      /\ p.pointers = c.pointers /\ p.keys = c.keys /\ p.storage = c.storage
      /\ p.list = R!lru_touch(c.list, i)
  BY DEF touched, CacheOK, CacheType
<1>4. Free(p) = Free(c) \ {i}
  BY <1>1, <1>3 DEF Free
<1> HIDE DEF p, i
<1>5. CacheOK(p)
  BY <1>2, <1>3, <1>4 DEF CacheOK, CacheType, Agrees
<1> QED
  BY <1>3, <1>5 DEF p

\* InstrCache::erase: the place of the key is the next victim.
LEMMA ErasedOK ==
    ASSUME NEW c, CacheOK(c), NEW a
    PROVE  /\ CacheOK(erased(c, a))
           /\ DOMAIN erased(c, a).pointers = DOMAIN c.pointers \ {a}
           /\ found(c, a) => /\ erased(c, a).list[CAPACITY] = c.pointers[a]
                             /\ erased(c, a).storage[c.pointers[a]] = NoObject
<1>1. CASE ~found(c, a)
  BY <1>1 DEF erased, found
<1>2. CASE found(c, a)
  <2> DEFINE i == c.pointers[a]
             p == erased(c, a)
             l == set_to_erase(c.list, i)
  <2>1. /\ a \in Address \ {0} /\ i \in Place /\ c.keys[i] = a
    BY <1>2, FoundPlace DEF CacheOK, found
  <2>2. Perm(l) /\ AtEnd(l, Free(c) \cup {i}) /\ l[CAPACITY] = i
    BY <2>1, EraseList DEF CacheOK, CacheType
  <2>3. /\ p = [pointers |-> p.pointers, keys |-> p.keys, storage |-> p.storage, list |-> p.list]
        /\ p.pointers = [k \in DOMAIN c.pointers \ {a} |-> c.pointers[k]]
        /\ p.keys = [c.keys EXCEPT ![i] = NoKey]
        /\ p.storage = [c.storage EXCEPT ![i] = NoObject]
        /\ p.list = l
    BY <1>2 DEF erased, CacheOK, CacheType
  <2> HIDE DEF i, p, l
  <2>4. Free(p) = Free(c) \cup {i}
    BY <2>1, <2>3 DEF Free, CacheOK, CacheType
  <2>5. CacheType(p)
    BY <2>1, <2>2, <2>3, Numbers DEF CacheOK, CacheType
  <2>6. Agrees(p)
    <3>1. ASSUME NEW k \in DOMAIN p.pointers PROVE p.keys[p.pointers[k]] = k
      BY <2>1, <2>3, FoundPlace DEF CacheOK, CacheType
    <3>2. ASSUME NEW j \in Place, p.storage[j] # NoObject
          PROVE  /\ p.keys[j] \in DOMAIN p.pointers
                 /\ p.pointers[p.keys[j]] = j
                 /\ p.storage[j] = create_instr(p.storage[j].word, p.keys[j])
      <4>1. j # i /\ p.storage[j] = c.storage[j] /\ p.keys[j] = c.keys[j]
        BY <2>1, <2>3, <3>2 DEF CacheOK, CacheType
      <4>2. /\ c.keys[j] \in DOMAIN c.pointers /\ c.pointers[c.keys[j]] = j
            /\ c.storage[j] = create_instr(c.storage[j].word, c.keys[j])
        BY <3>2, <4>1 DEF CacheOK, Agrees
      <4>3. c.keys[j] # a
        BY <4>1, <4>2 DEF i
      <4> QED
        BY <2>3, <4>1, <4>2, <4>3
    <3>3. ASSUME NEW j \in Place, p.storage[j] = NoObject PROVE p.keys[j] = NoKey
      BY <2>1, <2>3, <3>3 DEF CacheOK, CacheType, Agrees
    <3> QED
      BY <3>1, <3>2, <3>3 DEF Agrees
  <2> QED
    BY <2>1, <2>2, <2>3, <2>4, <2>5, <2>6 DEF CacheOK, CacheType, p, i
<1> QED
  BY <1>1, <1>2

\* An object is constructed in a free place that was the last victim.
LEMMA EmplacedOK ==
    ASSUME NEW c, CacheType(c), Agrees(c), NEW i \in Place, c.storage[i] = NoObject,
           AtEnd(c.list, Free(c) \ {i}),
           NEW a \in Address \ {0}, ~found(c, a), NEW w \in Word
    PROVE  /\ CacheOK(emplaced(c, i, a, create_instr(w, a)))
           /\ DOMAIN emplaced(c, i, a, create_instr(w, a)).pointers = DOMAIN c.pointers \cup {a}
<1> DEFINE v == create_instr(w, a)
           p == emplaced(c, i, a, v)
           l == R!lru_touch(c.list, i)
<1>1. Perm(l) /\ AtEnd(l, (Free(c) \ {i}) \ {i})
  BY TouchList DEF CacheType
<1>2. v \in Decoded /\ v # NoObject /\ v = create_instr(v.word, a)
  BY Created
<1> HIDE DEF v
<1>3. /\ p = [pointers |-> p.pointers, keys |-> p.keys, storage |-> p.storage, list |-> p.list]
      /\ p.pointers = [k \in DOMAIN c.pointers \cup {a} |-> IF k = a THEN i ELSE c.pointers[k]]
      /\ p.keys = [c.keys EXCEPT ![i] = a]
      /\ p.storage = [c.storage EXCEPT ![i] = v]
      /\ p.list = l
  <2> DEFINE x == [k \in DOMAIN c.pointers \cup {a} |-> IF k = a THEN i ELSE c.pointers[k]]
  <2>1. p = [c EXCEPT !.storage[i] = v, !.keys[i] = a, !.pointers = x, !.list = l]
    BY DEF emplaced
  <2> HIDE DEF x, l, p
  <2>2. /\ p = [pointers |-> p.pointers, keys |-> p.keys, storage |-> p.storage, list |-> p.list]
        /\ p.pointers = x /\ p.keys = [c.keys EXCEPT ![i] = a]
        /\ p.storage = [c.storage EXCEPT ![i] = v] /\ p.list = l
    BY <2>1 DEF CacheType
  <2> QED
    BY <2>2 DEF x
<1>4. a \notin DOMAIN c.pointers /\ c.keys[i] = 0
  BY Numbers DEF found, Agrees
<1> HIDE DEF p, l
<1>5. Free(p) = (Free(c) \ {i}) \ {i}
  BY <1>2, <1>3 DEF Free, CacheType
<1>6. CacheType(p)
  BY <1>1, <1>2, <1>3 DEF CacheType
<1>7. Agrees(p)
  <2>1. ASSUME NEW k \in DOMAIN p.pointers PROVE p.keys[p.pointers[k]] = k
    <3>1. CASE k = a
      BY <1>3, <3>1 DEF CacheType
    <3>2. CASE k # a
      <4>1. k \in DOMAIN c.pointers /\ p.pointers[k] = c.pointers[k]
        BY <1>3, <3>2
      <4>2. c.pointers[k] \in Place /\ c.keys[c.pointers[k]] = k /\ c.pointers[k] # i
        BY <4>1, FoundPlace
      <4> QED
        BY <1>3, <4>1, <4>2 DEF CacheType
    <3> QED
      BY <3>1, <3>2
  <2>2. ASSUME NEW j \in Place, p.storage[j] # NoObject
        PROVE  /\ p.keys[j] \in DOMAIN p.pointers
               /\ p.pointers[p.keys[j]] = j
               /\ p.storage[j] = create_instr(p.storage[j].word, p.keys[j])
    <3>1. CASE j = i
      BY <1>2, <1>3, <3>1 DEF CacheType
    <3>2. CASE j # i
      <4>1. p.storage[j] = c.storage[j] /\ p.keys[j] = c.keys[j]
        BY <1>3, <3>2 DEF CacheType
      <4>2. /\ c.keys[j] \in DOMAIN c.pointers /\ c.pointers[c.keys[j]] = j
            /\ c.storage[j] = create_instr(c.storage[j].word, c.keys[j])
        BY <2>2, <4>1 DEF Agrees
      <4> QED
        BY <1>3, <1>4, <4>1, <4>2
    <3> QED
      BY <3>1, <3>2
  <2>3. ASSUME NEW j \in Place, p.storage[j] = NoObject PROVE p.keys[j] = NoKey
    BY <1>2, <1>3, <2>3 DEF CacheType, Agrees
  <2> QED
    BY <2>1, <2>2, <2>3 DEF Agrees
<1> QED
  BY <1>1, <1>3, <1>5, <1>6, <1>7 DEF CacheOK, p, v

\* InstrCache::allocate: only the key of the victim goes, and only when no
\* place is free.
LEMMA AllocatedOK ==
    ASSUME NEW c, CacheOK(c), NEW a \in Address \ {0}, ~found(c, a), NEW w \in Word
    PROVE  /\ CacheOK(allocated(c, a, create_instr(w, a)))
           /\ DOMAIN c.pointers \ DOMAIN allocated(c, a, create_instr(w, a)).pointers # {}
                => c.storage[c.list[CAPACITY]] # NoObject /\ Free(c) = {}
<1> DEFINE v == create_instr(w, a)
           i == R!lru_victim(c.list)
           d == [c EXCEPT !.list = R!lru_touch(@, i)]
           e == erased(d, c.keys[i])
           p == allocated(c, a, v)
<1>1. p = emplaced(e, i, a, v)
  BY DEF allocated
<1>2. i = c.list[CAPACITY] /\ i \in Place
  BY Numbers DEF R!lru_victim, CacheOK, CacheType, Perm
<1>3. Perm(R!lru_touch(c.list, i)) /\ AtEnd(R!lru_touch(c.list, i), Free(c) \ {i})
  BY <1>2, TouchList DEF CacheOK, CacheType
<1>4. /\ d = [pointers |-> d.pointers, keys |-> d.keys, storage |-> d.storage, list |-> d.list]
      /\ d.pointers = c.pointers /\ d.keys = c.keys /\ d.storage = c.storage
      /\ d.list = R!lru_touch(c.list, i)
  BY DEF CacheOK, CacheType
<1> HIDE DEF v, p, d, i
<1>5. CacheType(d) /\ Agrees(d) /\ Free(d) = Free(c) /\ AtEnd(d.list, Free(d) \ {i})
  BY <1>3, <1>4 DEF CacheOK, CacheType, Agrees, Free
<1>6. CASE c.storage[i] = NoObject
  <2>1. e = d
    BY <1>2, <1>4, <1>6, Numbers DEF CacheOK, CacheType, Agrees, erased, found
  <2>2. ~found(d, a) /\ d.storage[i] = NoObject
    BY <1>4, <1>6 DEF found
  <2>3. CacheOK(p) /\ DOMAIN p.pointers = DOMAIN c.pointers \cup {a}
    BY <1>1, <1>2, <1>4, <1>5, <2>1, <2>2, EmplacedOK DEF v
  <2> QED
    BY <2>3 DEF p, v
<1>7. CASE c.storage[i] # NoObject
  <2>1. c.keys[i] \in DOMAIN c.pointers /\ c.pointers[c.keys[i]] = i
    BY <1>2, <1>7 DEF CacheOK, Agrees
  <2>2. CacheOK(d)
    <3>1. Free(d) = Free(d) \ {i}
      BY <1>4, <1>7 DEF Free
    <3> QED
      BY <1>5, <3>1 DEF CacheOK
  <2>3. /\ CacheOK(e) /\ DOMAIN e.pointers = DOMAIN c.pointers \ {c.keys[i]}
        /\ e.storage[i] = NoObject
    BY <1>4, <2>1, <2>2, ErasedOK DEF found
  <2>4. Free(c) = {}
    <3>1. ASSUME NEW x \in Free(c) PROVE FALSE
      <4>1. PICK m \in 1..CAPACITY : c.list[m] = x
        BY DEF CacheOK, CacheType, Perm, Free
      <4>2. m < CAPACITY
        BY <1>2, <1>7, <4>1, Numbers DEF Free
      <4>3. c.list[CAPACITY] \in Free(c)
        BY <4>1, <4>2, Numbers DEF CacheOK, AtEnd
      <4> QED
        BY <1>2, <1>7, <4>3 DEF Free
    <3> QED
      BY <3>1
  <2>5. AtEnd(e.list, Free(e) \ {i})
    <3>1. \A x \in Place : x # i => e.storage[x] = c.storage[x]
      BY <1>2, <1>4, <2>1 DEF erased, found, CacheOK, CacheType
    <3>2. Free(e) = {i}
      BY <1>2, <2>3, <2>4, <3>1 DEF Free
    <3> QED
      BY <3>2 DEF AtEnd
  <2>6. ~found(e, a)
    BY <2>3 DEF found
  <2>7. CacheOK(p)
    BY <1>1, <1>2, <2>3, <2>5, <2>6, EmplacedOK DEF v, CacheOK
  <2> QED
    BY <1>2, <1>7, <2>4, <2>7 DEF p, v
<1> QED
  BY <1>6, <1>7

\* InstrMemoryCached::fetch_instr gives the instruction of the present bytes and
\* keeps the cache in order.
LEMMA FetchOK ==
    ASSUME NEW c, CacheOK(c), NEW a \in Address, memory \in [Address -> Word],
           NEW f, f = fetch_instr(c, a)
    PROVE  /\ CacheOK(f.cache)
           /\ f.instr = create_instr(memory[a], a)
           /\ DOMAIN c.pointers \ DOMAIN f.cache.pointers # {} => ~found(c, a) /\ Free(c) = {}
<1> DEFINE i == create_instr(memory[a], a)
           e == erased(c, a)
<1>1. memory[a] \in Word
  OBVIOUS
<1>2. CASE is_hit(c, a)
  <2>1. f.cache = touched(c, a) /\ f.instr = value(c, a)
    BY <1>2 DEF fetch_instr
  <2>2. found(c, a) /\ value(c, a).word = memory[a]
    BY <1>2 DEF is_hit
  <2>3. value(c, a) = create_instr(value(c, a).word, a)
    BY <2>2, FoundPlace DEF CacheOK, found, value
  <2> QED
    BY <2>1, <2>2, <2>3, TouchedOK
<1>3. CASE ~is_hit(c, a)
  <2>1. f.cache = (IF a = 0 THEN e ELSE updated(e, a, i)) /\ f.instr = i
    BY <1>3 DEF fetch_instr
  <2>2. /\ CacheOK(e) /\ DOMAIN e.pointers = DOMAIN c.pointers \ {a} /\ ~found(e, a)
        /\ found(c, a) => e.storage[e.list[CAPACITY]] = NoObject
    BY ErasedOK DEF found
  <2> HIDE DEF i, e
  <2>3. CASE a = 0
    <3>1. a \notin DOMAIN c.pointers
      BY <2>3 DEF CacheOK, CacheType
    <3> QED
      BY <2>1, <2>2, <2>3, <3>1 DEF i
  <2>4. CASE a # 0
    <3>1. f.cache = allocated(e, a, i)
      BY <2>1, <2>2, <2>4 DEF updated
    <3>2. /\ CacheOK(f.cache)
          /\ DOMAIN e.pointers \ DOMAIN f.cache.pointers # {} =>
                e.storage[e.list[CAPACITY]] # NoObject /\ Free(e) = {}
      BY <1>1, <2>2, <2>4, <3>1, AllocatedOK DEF i
    <3>3. ~found(c, a) => e = c
      BY DEF e, erased
    <3>4. a \in DOMAIN f.cache.pointers
      BY <3>1 DEF allocated, emplaced, erased, CacheOK, CacheType
    <3> QED
      BY <2>1, <2>2, <3>2, <3>3, <3>4 DEF i
  <2> QED
    BY <2>3, <2>4
<1> QED
  BY <1>2, <1>3

-----------------------------------------------------------------------------
(* The simulator *)

Types ==
    /\ memory \in [Address -> Word]
    /\ pc \in Address \X Address
    /\ delayed_slots \in {0, 1}
    /\ epc \in Address /\ tvec \in {0, Vector}
    /\ executed \in Nat /\ nops_in_a_row \in Nat

\* The inductive invariant.  EndsForAReason needs that a run counts no nop that
\* it has not executed.
IInv ==
    /\ Types
    /\ CacheOK(cache)
    /\ running => nops_in_a_row <= executed
    /\ EndsForAReason

\* The ring of addresses is closed.
LEMMA Ring ==
    ASSUME NEW a \in Address, NEW n \in Nat
    PROVE  After(a, n) \in Address
<1>1. ASSUME NEW m \in Nat PROVE m % Size \in 0..(Size - 1)
  BY Numbers
<1>2. a + n \in Nat
  BY Numbers DEF Address
<1> QED
  BY <1>1, <1>2 DEF After, Address

\* Instruction::execute continues at an address, and only a jump leaves the path.
LEMMA Outcome ==
    ASSUME Types, NEW i \in Decoded, NEW o \in outcomes(i)
    PROVE  /\ o.new_PC \in Address
           /\ ~is_jump(i.word) => o.new_PC = fall_through(i)
           /\ o.trap \in {"NO_TRAP", "HALT", "EXPLICIT_TRAP", "SYSCALL"}
<1>1. fall_through(i) \in Address
  <2>1. i.pc \in Address /\ 1 + i.slots \in Nat
    BY DEF Decoded
  <2> QED
    BY <2>1, Ring DEF fall_through
<1>2. i.target \in Address /\ epc \in Address
  BY DEF Decoded, Types
<1>3. CASE i.word.op = "j"
  BY <1>2, <1>3 DEF outcomes, is_jump, halts
<1>4. CASE i.word.op = "b"
  BY <1>1, <1>2, <1>4 DEF outcomes, is_jump, halts
<1>5. CASE i.word.op = "eret"
  BY <1>2, <1>5 DEF outcomes, is_jump, halts
<1>6. CASE i.word.op \notin {"j", "b", "eret"}
  BY <1>1, <1>6 DEF outcomes
<1> QED
  BY <1>3, <1>4, <1>5, <1>6

\* update_pc keeps two addresses and at most one pending slot.
LEMMA UpdatedPC ==
    ASSUME Types, NEW i \in Decoded, NEW a \in Address, NEW c, c = update_pc(i, a)
    PROVE  /\ c.pc \in Address \X Address /\ c.slots \in {0, 1}
           /\ delayed_slots > 0 => c.slots = 0 /\ (i.slots = 0 => c.pc[1] = pc[2])
           /\ delayed_slots = 0 /\ i.slots = 0 => c.slots = 0 /\ c.pc[1] = a
           /\ delayed_slots = 0 /\ i.slots = 1 => c.slots = 1 /\ c.pc = <<After(pc[1], 1), a>>
<1>1. i.slots \in {0, 1} /\ After(pc[1], 1) \in Address /\ pc[1] \in Address /\ pc[2] \in Address
  BY Ring DEF Types, Decoded
<1>2. CASE delayed_slots = 0
  BY <1>1, <1>2 DEF update_pc
<1>3. CASE delayed_slots = 1
  BY <1>1, <1>3 DEF update_pc
<1> QED
  BY <1>2, <1>3 DEF Types

\* What a turn of the loop of run does, with the choices it makes named.
Turn(i, o, t) ==
    LET c == update_pc(i, o.new_PC)
        nops == IF i.word = Nop THEN nops_in_a_row + 1 ELSE 0
        stays == nops > NopLimit \/ t = "BadInteraction" \/ ~is_vectored(t)
    IN
    /\ nops_in_a_row' = nops
    /\ instr' = [pc |-> i.pc, new_PC |-> o.new_PC, slots |-> i.slots,
                 jumps |-> is_jump(i.word), word |-> i.word,
                 vector |-> IF stays THEN -1 ELSE trap_vector]
    /\ tvec' = IF i.word.op = "csrw" THEN Vector ELSE tvec
    /\ IF stays THEN Goes(c) /\ UNCHANGED epc
       ELSE Goes(set_target(c, trap_vector)) /\ epc' = i.pc
    /\ IF nops > NopLimit THEN Returned("BearingLost")
       ELSE IF t = "BadInteraction" THEN Returned(t)
       ELSE IF handle_trap(t) # "NO_TRAP" THEN Returned(handle_trap(t))
       ELSE UNCHANGED <<running, result>>

\* Every Step is such a turn for the instruction in memory.
LEMMA StepIsTurn ==
    ASSUME Types, CacheOK(cache), Step
    PROVE  \E i, o, t :
              /\ i \in Decoded /\ o \in outcomes(i)
              /\ i = create_instr(memory[pc[1]], pc[1])
              /\ running /\ executed' = executed + 1
              /\ memory' \in memories(i)
              /\ Turn(i, o, t) /\ t # "BearingLost"
              /\ isa' = isa /\ hooked' = hooked
              /\ CacheOK(cache')
              /\ DOMAIN cache.pointers \ DOMAIN cache'.pointers # {} =>
                    ~found(cache, pc[1]) /\ Free(cache) = {}
<1> DEFINE f == fetch_instr(cache, pc[1])
           i == f.instr
<1>1. pc[1] \in Address /\ memory \in [Address -> Word]
  BY DEF Types
<1>2. /\ CacheOK(f.cache) /\ i = create_instr(memory[pc[1]], pc[1])
      /\ DOMAIN cache.pointers \ DOMAIN f.cache.pointers # {} => ~found(cache, pc[1]) /\ Free(cache) = {}
  BY <1>1, FetchOK
<1>3. i \in Decoded
  BY <1>1, <1>2, Created
<1>4. \E o \in outcomes(i) : \E t \in IF o.trap = "SYSCALL" THEN kernel_results ELSE {o.trap} :
         Turn(i, o, t)
  BY DEF Step, Turn
<1>5. \E o \in outcomes(i) : \E t : Turn(i, o, t) /\ t # "BearingLost"
  BY <1>3, <1>4, Outcome, FuncSimAssumption
<1>6. /\ cache' = f.cache /\ memory' \in memories(i) /\ running /\ executed' = executed + 1
      /\ isa' = isa /\ hooked' = hooked
  BY DEF Step
<1> HIDE DEF f, i
<1> QED
  BY <1>2, <1>3, <1>5, <1>6

\* What a cache holds was decoded for one architecture, which does not change.
LEMMA CacheKept ==
    ASSUME isa' = isa, CacheOK(cache')
    PROVE  CacheOK(cache)'
  BY DEF CacheOK, CacheType, Agrees, Free, create_instr, slots_of

\* The simulator as the debugger finds it.
LEMMA InitOK == Init => IInv
<1> SUFFICES ASSUME Init PROVE IInv
  OBVIOUS
<1>1. Types
  BY Numbers DEF Init, Types, Word
<1>2. CacheOK(cache)
  <2>1. cache = empty_cache
    BY DEF Init
  <2>2. Perm(empty_cache.list)
    <3> DEFINE l == empty_cache.list
    <3>1. l = [k \in 1..CAPACITY |-> CAPACITY - k]
      BY DEF empty_cache
    <3> HIDE DEF l
    <3>2. ASSUME NEW w \in Place PROVE \E k \in 1..CAPACITY : l[k] = w
      <4>1. CAPACITY - w \in 1..CAPACITY /\ CAPACITY - (CAPACITY - w) = w
        BY Numbers DEF Place
      <4> QED
        BY <3>1, <4>1
    <3>3. l \in [1..CAPACITY -> Place] /\ \A j, k \in 1..CAPACITY : l[j] = l[k] => j = k
      BY <3>1, Numbers DEF Place
    <3> QED
      BY <3>2, <3>3 DEF Perm, l
  <2>3. CacheType(empty_cache)
    <3>1. /\ empty_cache.pointers = [k \in {} |-> 0]
          /\ empty_cache.keys = [i \in Place |-> NoKey]
          /\ empty_cache.storage = [i \in Place |-> NoObject]
          /\ empty_cache = [pointers |-> empty_cache.pointers, keys |-> empty_cache.keys,
                            storage |-> empty_cache.storage, list |-> empty_cache.list]
      BY DEF empty_cache
    <3>2. DOMAIN empty_cache.pointers = {}
      BY <3>1
    <3> QED
      BY <2>2, <3>1, <3>2, Numbers DEF CacheType
  <2>4. Agrees(empty_cache)
    BY DEF Agrees, empty_cache
  <2>5. AtEnd(empty_cache.list, Free(empty_cache))
    <3>1. Free(empty_cache) = Place
      BY DEF Free, empty_cache
    <3> QED
      BY <2>2, <3>1 DEF AtEnd, Perm
  <2> QED
    BY <2>1, <2>3, <2>4, <2>5 DEF CacheOK
<1>3. EndsForAReason
  BY DEF Init, EndsForAReason
<1> QED
  BY <1>1, <1>2, <1>3 DEF IInv, Init

\* A turn of the loop keeps the invariant.
LEMMA StepOK == ASSUME IInv, Step PROVE IInv'
<1>1. PICK i, o, t :
         /\ i \in Decoded /\ o \in outcomes(i)
         /\ running /\ executed' = executed + 1
         /\ memory' \in memories(i)
         /\ Turn(i, o, t) /\ t # "BearingLost"
         /\ isa' = isa /\ hooked' = hooked
         /\ CacheOK(cache')
  BY StepIsTurn DEF IInv
<1> DEFINE nops == IF i.word = Nop THEN nops_in_a_row + 1 ELSE 0
           stays == nops > NopLimit \/ t = "BadInteraction" \/ ~is_vectored(t)
           c == update_pc(i, o.new_PC)
<1>2. o.new_PC \in Address /\ i.word \in Word /\ i.pc \in Address
  BY <1>1, Outcome DEF IInv, Decoded
<1>3. c.pc \in Address \X Address /\ c.slots \in {0, 1}
  BY <1>1, <1>2, UpdatedPC DEF IInv
<1>4. trap_vector \in Address /\ Vector \in Address
  BY FuncSimAssumption DEF trap_vector, IInv, Types, Address
<1>5. nops \in Nat /\ nops <= executed + 1 /\ nops_in_a_row' = nops
  BY <1>1 DEF IInv, Types, Turn
<1>6. Types'
  <2>1. memory' \in [Address -> Word]
    <3>1. i.word.arg \in Address
      BY <1>2, WordAssumption, Numbers DEF Word, Nop
    <3> QED
      BY <1>1, <3>1 DEF memories, IInv, Types, Word
  <2>2. pc' \in Address \X Address /\ delayed_slots' \in {0, 1}
    <3>1. CASE stays
      BY <1>1, <1>3, <3>1 DEF Turn, Goes
    <3>2. CASE ~stays
      <4>1. pc' = [c.pc EXCEPT ![1] = trap_vector] /\ delayed_slots' = 0
        BY <1>1, <3>2 DEF Turn, Goes, set_target, update_pc
      <4> HIDE DEF c
      <4> QED
        BY <1>3, <1>4, <4>1
    <3> QED
      BY <3>1, <3>2
  <2>3. epc' \in Address /\ tvec' \in {0, Vector}
    BY <1>1, <1>2 DEF Turn, IInv, Types
  <2>4. executed' \in Nat
    BY <1>1 DEF IInv, Types
  <2> QED
    BY <1>5, <2>1, <2>2, <2>3, <2>4 DEF Types
<1>7. CacheOK(cache)'
  BY <1>1, CacheKept
<1>8. nops_in_a_row' <= executed'
  BY <1>1, <1>5
<1> HIDE DEF nops
<1>9. EndsForAReason'
  <2>1. result = "BearingLost" => executed > NopLimit
    BY DEF IInv, EndsForAReason
  <2>2. CASE nops > NopLimit
    <3>1. result' = "BearingLost" /\ ~running'
      BY <1>1, <2>2 DEF Turn, Returned, nops
    <3>2. executed' > NopLimit
      BY <1>1, <1>5, <2>2, FuncSimAssumption DEF IInv, Types
    <3> QED
      BY <3>1, <3>2 DEF EndsForAReason
  <2>3. CASE ~(nops > NopLimit) /\ t = "BadInteraction"
    <3>1. result' = "BadInteraction" /\ ~running'
      BY <1>1, <2>3 DEF Turn, Returned, nops
    <3> QED
      BY <3>1 DEF EndsForAReason
  <2>4. CASE ~(nops > NopLimit) /\ t # "BadInteraction" /\ handle_trap(t) # "NO_TRAP"
    <3>1. result' = handle_trap(t) /\ ~running'
      BY <1>1, <2>4 DEF Turn, Returned, nops
    <3>2. ~hooked => handle_trap(t) = "HALT"
      BY <2>4 DEF handle_trap, driver_result, is_vectored
    <3>3. hooked => result' = t
      BY <3>1 DEF handle_trap
    <3> QED
      BY <1>1, <3>1, <3>2, <3>3 DEF EndsForAReason
  <2>5. CASE ~(nops > NopLimit) /\ t # "BadInteraction" /\ handle_trap(t) = "NO_TRAP"
    <3>1. result' = result /\ running' = running
      BY <1>1, <2>5 DEF Turn, nops
    <3>2. hooked => instr'.vector = -1
      BY <1>1, <2>5 DEF Turn, handle_trap, is_vectored, nops
    <3>3. executed > NopLimit => executed' > NopLimit
      BY <1>1, FuncSimAssumption DEF IInv, Types
    <3> QED
      BY <1>1, <2>1, <3>1, <3>2, <3>3 DEF EndsForAReason, IInv
  <2> QED
    BY <2>2, <2>3, <2>4, <2>5
<1> QED
  BY <1>6, <1>7, <1>8, <1>9 DEF IInv

\* So does everything the debugger does between two runs.
LEMMA NextOK == IInv /\ [Next]_vars => IInv'
<1> SUFFICES ASSUME IInv, [Next]_vars PROVE IInv'
  OBVIOUS
<1>1. ASSUME NEW n \in Runs, Run(n) PROVE IInv'
  <2>1. Types' /\ (running => nops_in_a_row <= executed)' /\ EndsForAReason'
    BY <1>1 DEF Run, nops_at_first, IInv, Types, EndsForAReason
  <2>2. CacheOK(cache)'
    BY <1>1, CacheKept DEF Run, IInv
  <2> QED
    BY <2>1, <2>2 DEF IInv
<1>2. CASE Step
  BY <1>2, StepOK
<1>3. CASE RunEnds
  <2>1. Types' /\ (running => nops_in_a_row <= executed)' /\ EndsForAReason'
    BY <1>3 DEF RunEnds, Returned, IInv, Types, EndsForAReason
  <2>2. CacheOK(cache)'
    BY <1>3, CacheKept DEF RunEnds, IInv
  <2> QED
    BY <2>1, <2>2 DEF IInv
<1>4. ASSUME NEW a \in Address, NEW w \in Words, MemoryWrite(a, w) PROVE IInv'
  <2>1. Types' /\ (running => nops_in_a_row <= executed)' /\ EndsForAReason'
    BY <1>4 DEF MemoryWrite, IInv, Types, EndsForAReason, Word
  <2>2. CacheOK(cache)'
    BY <1>4, CacheKept DEF MemoryWrite, IInv
  <2> QED
    BY <2>1, <2>2 DEF IInv
<1>5. ASSUME NEW a \in Address, WritePC(a) PROVE IInv'
  <2>1. pc' = [pc EXCEPT ![1] = a] /\ delayed_slots' = 0
    BY <1>5 DEF WritePC, Goes, set_target
  <2>2. Types' /\ (running => nops_in_a_row <= executed)' /\ EndsForAReason'
    BY <1>5, <2>1 DEF WritePC, IInv, Types, EndsForAReason
  <2>3. CacheOK(cache)'
    BY <1>5, CacheKept DEF WritePC, IInv
  <2> QED
    BY <2>2, <2>3 DEF IInv
<1>6. CASE UNCHANGED vars
  <2>1. Types' /\ (running => nops_in_a_row <= executed)' /\ EndsForAReason'
    BY <1>6 DEF vars, IInv, Types, EndsForAReason
  <2>2. CacheOK(cache)'
    BY <1>6, CacheKept DEF vars, IInv
  <2> QED
    BY <2>1, <2>2 DEF IInv
<1> QED
  BY <1>1, <1>2, <1>3, <1>4, <1>5, <1>6 DEF Next

\* The inductive invariant holds always.
LEMMA Always == Spec => []IInv
  BY InitOK, NextOK, PTL DEF Spec

\* The hash table, the keys and the arena of the instruction cache agree, for
\* every capacity and program: no decoded instruction is lost, destroyed twice or
\* found under another address (CacheAgrees).
THEOREM FuncSimCacheAgrees == Spec => []CacheAgrees
<1>1. IInv => CacheAgrees
  BY DEF IInv, CacheOK, Agrees, CacheAgrees
<1> QED
  BY <1>1, Always, PTL

\* FuncSim::run gives up only after more than NopLimit nops of its own, a trap
\* with a handler ends it if and only if hooks are on (EndsForAReason).
THEOREM FuncSimEndsForAReason == Spec => []EndsForAReason
<1>1. IInv => EndsForAReason
  BY DEF IInv
<1> QED
  BY <1>1, Always, PTL
\* A turn of run executes the word that is in memory at that moment, whatever
\* stores and the debugger wrote since it was decoded (FetchesPresentBytes).
THEOREM FuncSimFetchesPresentBytes == Spec => FetchesPresentBytes
<1>1. ASSUME IInv, [Next]_vars
      PROVE  [executed' = executed + 1 => instr'.pc = pc[1] /\ instr'.word = memory[pc[1]]]_vars
  <2> SUFFICES ASSUME executed' = executed + 1
               PROVE  instr'.pc = pc[1] /\ instr'.word = memory[pc[1]]
    OBVIOUS
  <2>1. executed \in Nat
    BY <1>1 DEF IInv, Types
  <2>2. Step
    BY <1>1, <2>1 DEF Next, Run, RunEnds, MemoryWrite, WritePC, vars
  <2>3. PICK i, o, t : i = create_instr(memory[pc[1]], pc[1]) /\ Turn(i, o, t)
    BY <1>1, <2>2, StepIsTurn DEF IInv
  <2>4. i.pc = pc[1] /\ i.word = memory[pc[1]]
    BY <2>3 DEF create_instr
  <2> QED
    BY <2>3, <2>4 DEF Turn
<1> QED
  BY <1>1, Always, PTL DEF Spec, FetchesPresentBytes

\* InstrCache gives up a decoded instruction only for one that was not there, and
\* only when no place was free (EvictsOnlyWhenFull).
THEOREM FuncSimEvictsOnlyWhenFull == Spec => EvictsOnlyWhenFull
<1>1. ASSUME IInv, [Next]_vars
      PROVE  [\A k \in DOMAIN cache.pointers \ DOMAIN cache'.pointers :
                ~found(cache, pc[1]) /\ \A i \in Place : cache.storage[i] # NoObject]_vars
  <2>1. CASE Step
    <3>1. DOMAIN cache.pointers \ DOMAIN cache'.pointers # {} =>
             ~found(cache, pc[1]) /\ Free(cache) = {}
      BY <1>1, <2>1, StepIsTurn DEF IInv
    <3> QED
      BY <3>1 DEF Free
  <2>2. CASE ~Step
    <3>1. cache' = cache
      BY <1>1, <2>2 DEF Next, Run, RunEnds, MemoryWrite, WritePC, vars
    <3> QED
      BY <3>1
  <2> QED
    BY <2>1, <2>2
<1> QED
  BY <1>1, Always, PTL DEF Spec, EvictsOnlyWhenFull

-----------------------------------------------------------------------------
(* Delay slots: FuncSim implements DelayedPC *)

npc == IF delayed_slots > 0 THEN pc[2] ELSE After(pc[1], 1)

\* The pair of addresses when the array of pending ones goes to a without a slot.
LEMMA GoesTo ==
    ASSUME pc' \in Address \X Address, delayed_slots' = 0
    PROVE  D!GoTo(pc'[1])
  BY DEF D!GoTo, D!Following, After

\* A turn of run is one instruction of a processor with delay slots.
LEMMA TurnIsExecute == ASSUME IInv, IInv', Step PROVE D!Execute
<1>1. PICK i, o, t :
         /\ i \in Decoded /\ o \in outcomes(i)
         /\ i = create_instr(memory[pc[1]], pc[1])
         /\ running /\ Turn(i, o, t)
  BY StepIsTurn DEF IInv
<1> DEFINE nops == IF i.word = Nop THEN nops_in_a_row + 1 ELSE 0
           stays == nops > NopLimit \/ t = "BadInteraction" \/ ~is_vectored(t)
           c == update_pc(i, o.new_PC)
<1>2. /\ o.new_PC \in Address
      /\ ~is_jump(i.word) => o.new_PC = fall_through(i)
  BY <1>1, Outcome DEF IInv
<1>3. /\ i.pc = pc[1] /\ i.slots \in {0, 1} /\ (~is_jump(i.word) => i.slots = 0)
  BY <1>1 DEF create_instr, slots_of
<1>4. /\ pc' \in Address \X Address /\ pc \in Address \X Address
      /\ delayed_slots \in {0, 1}
  BY DEF IInv, Types
<1>5. /\ instr'.pc = pc[1] /\ instr'.new_PC = o.new_PC /\ instr'.slots = i.slots
      /\ instr'.jumps = is_jump(i.word)
      /\ instr'.vector = IF stays THEN -1 ELSE trap_vector
  BY <1>1, <1>3 DEF Turn
<1>6. CASE ~stays
  <2>1. delayed_slots' = 0 /\ pc'[1] = trap_vector
    BY <1>1, <1>6, <1>2, UpdatedPC DEF Turn, Goes, set_target, update_pc, IInv
  <2>2. trap_vector # -1
    BY FuncSimAssumption DEF trap_vector, IInv, Types
  <2> QED
    BY <1>1, <1>4, <1>5, <1>6, <2>1, <2>2, GoesTo DEF D!Execute
<1>7. CASE stays
  <2>1. pc' = c.pc /\ delayed_slots' = c.slots
    BY <1>1, <1>7 DEF Turn, Goes
  <2>2. /\ delayed_slots > 0 => c.slots = 0 /\ (i.slots = 0 => c.pc[1] = pc[2])
        /\ delayed_slots = 0 /\ i.slots = 0 => c.slots = 0 /\ c.pc[1] = o.new_PC
        /\ delayed_slots = 0 /\ i.slots = 1 =>
              c.slots = 1 /\ c.pc = <<After(pc[1], 1), o.new_PC>>
    BY <1>1, <1>2, UpdatedPC DEF IInv
  <2> HIDE DEF c, stays
  <2>3. CASE ~is_jump(i.word)
    <3>1. o.new_PC = After(pc[1], 1)
      BY <1>2, <1>3, <2>3 DEF fall_through
    <3>2. delayed_slots' = 0 /\ pc'[1] = npc
      BY <1>3, <1>4, <2>1, <2>2, <2>3, <3>1 DEF npc
    <3> QED
      BY <1>1, <1>4, <1>5, <1>7, <2>3, <3>2, GoesTo DEF D!Execute, npc
  <2>4. CASE is_jump(i.word) /\ delayed_slots = 0 /\ i.slots = 0
    <3>1. delayed_slots' = 0 /\ pc'[1] = instr'.new_PC
      BY <1>5, <2>1, <2>2, <2>4
    <3> QED
      BY <1>1, <1>4, <1>5, <1>7, <2>4, <3>1, GoesTo DEF D!Execute
  <2>5. CASE is_jump(i.word) /\ delayed_slots = 0 /\ i.slots = 1
    <3>1. delayed_slots' = 1 /\ pc'[1] = After(pc[1], 1) /\ pc'[2] = instr'.new_PC
      BY <1>5, <2>1, <2>2, <2>5
    <3> QED
      BY <1>1, <1>5, <1>7, <2>5, <3>1 DEF D!Execute
  <2>6. CASE is_jump(i.word) /\ delayed_slots = 1
    <3>1. delayed_slots' = 0 /\ pc'[1] \in D!Address
      BY <1>4, <2>1, <2>2, <2>6 DEF Address, D!Address
    <3> QED
      BY <1>1, <1>4, <1>5, <1>7, <2>6, <3>1, GoesTo DEF D!Execute
  <2> QED
    BY <1>3, <1>4, <2>3, <2>4, <2>5, <2>6
<1> QED
  BY <1>6, <1>7

\* FuncSim::update_pc and set_target implement the program counter of an
\* architecture with delay slots, for every program, memory size and every
\* interleaving of traps, hooks and debugger (ImplementsDelayedPC).
THEOREM FuncSimDelaySlots == Spec => ImplementsDelayedPC
<1>1. ASSUME IInv, IInv', [Next]_vars PROVE [D!Next]_(D!vars)
  <2>1. ASSUME NEW n \in Runs, Run(n) PROVE D!Next
    BY <2>1 DEF Run, D!Next, D!StartOrStop
  <2>2. CASE Step
    BY <1>1, <2>2, TurnIsExecute DEF D!Next
  <2>3. CASE RunEnds
    BY <2>3 DEF RunEnds, Returned, D!Next, D!StartOrStop
  <2>4. ASSUME NEW a \in Address, NEW w \in Words, MemoryWrite(a, w) PROVE UNCHANGED D!vars
    BY <2>4 DEF MemoryWrite, D!vars
  <2>5. ASSUME NEW a \in Address, WritePC(a) PROVE D!Next
    <3>1. pc' = [pc EXCEPT ![1] = a] /\ delayed_slots' = 0 /\ ~running
          /\ UNCHANGED <<instr, running>>
      BY <2>5 DEF WritePC, Goes, set_target
    <3>2. pc'[1] = a /\ pc' \in Address \X Address /\ a \in D!Address
      BY <1>1, <3>1 DEF IInv, Types, Address, D!Address
    <3> QED
      BY <3>1, <3>2, GoesTo DEF D!Next, D!Move
  <2>6. CASE UNCHANGED vars
    BY <2>6 DEF vars, D!vars
  <2> QED
    BY <1>1, <2>1, <2>2, <2>3, <2>4, <2>5, <2>6 DEF Next
<1> QED
  BY <1>1, Always, PTL DEF Spec, ImplementsDelayedPC
=============================================================================
