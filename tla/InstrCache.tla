---------------------------- MODULE InstrCache ----------------------------
(***************************************************************************)
(* The cache of decoded instructions (infra/instrcache/instr_cache.h): a   *)
(* hash table from keys to places, an arena of CAPACITY places whose       *)
(* objects are constructed and destroyed by hand (infra/arena.h), the key  *)
(* of every place and the LRU list of places.  A cache is                  *)
(* [pointers, keys, storage, list].                                        *)
(***************************************************************************)
EXTENDS Naturals, Sequences

CONSTANTS
    CAPACITY,
    NoKey,    \* Key{}, the key of a place that is free
    NoObject  \* a place of the arena without an object

ASSUME CapacityAssumption == CAPACITY \in Nat \ {0}

R == INSTANCE Replacement WITH ways <- CAPACITY, Policies <- {"LRU"}

Place == 0..(CAPACITY - 1)

\* The constructor touches every place in turn: place 0 is the first victim.
empty_cache ==
    [pointers |-> [k \in {} |-> 0],
     keys     |-> [i \in Place |-> NoKey],
     storage  |-> [i \in Place |-> NoObject],
     list     |-> [k \in 1..CAPACITY |-> CAPACITY - k]]

found(c, key) == key \in DOMAIN c.pointers
value(c, key) == c.storage[c.pointers[key]]

touched(c, key) == [c EXCEPT !.list = R!lru_touch(@, c.pointers[key])]

\* LRU::set_to_erase: the way goes to the end of the list.
set_to_erase(list, w) ==
    [k \in 1..CAPACITY |->
        IF k = CAPACITY THEN w ELSE IF k >= R!place(list, w) THEN list[k + 1] ELSE list[k]]

\* (Mutant: the place of an erased key keeps its rank in the list.)
erased_in_place(c, key) ==
    IF ~found(c, key) THEN c
    ELSE LET i == c.pointers[key] IN
         [c EXCEPT !.storage[i] = NoObject, !.keys[i] = NoKey,
                   !.pointers = [k \in DOMAIN @ \ {key} |-> @[k]]]
erased(c, key) ==
    IF ~found(c, key) THEN c
    ELSE LET i == c.pointers[key] IN
         [c EXCEPT !.storage[i] = NoObject, !.keys[i] = NoKey,
                   !.pointers = [k \in DOMAIN @ \ {key} |-> @[k]],
                   !.list = set_to_erase(@, i)]

\* Construction in place i, after its owner has been erased.
emplaced(c, i, key, v) ==
    [c EXCEPT !.storage[i] = v, !.keys[i] = key,
              !.pointers = [k \in DOMAIN @ \cup {key} |-> IF k = key THEN i ELSE @[k]],
              !.list = R!lru_touch(@, i)]

\* (Mutant: the instruction that held the place stays in the hash table.)
allocated_over(c, key, v) == emplaced(c, R!lru_victim(c.list), key, v)
\* LRU::update names the last place and touches it.
allocated(c, key, v) ==
    LET i == R!lru_victim(c.list)
        d == [c EXCEPT !.list = R!lru_touch(@, i)]
    IN  emplaced(erased(d, c.keys[i]), i, key, v)

updated(c, key, v) == IF found(c, key) THEN touched(c, key) ELSE allocated(c, key, v)
=============================================================================
