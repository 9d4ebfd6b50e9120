---------------------------- MODULE PortQueue ----------------------------
(***************************************************************************)
(* The ring buffer behind every read port: class PortQueue of              *)
(* src/simulator/infra/ports/port_queue/port_queue.h, as operators on a    *)
(* record with the fields of the class.  A slot of the arena that holds no *)
(* constructed object holds NoItem; emplace constructs, pop destroys.      *)
(* Nothing here looks at full(): in the code emplace does not either.      *)
(***************************************************************************)
EXTENDS Naturals

CONSTANT NoItem \* what an arena slot holds when no object lives in it

\* resize: empty queue over a freshly allocated arena of the given size.
resize(size) ==
    [arena    |-> [k \in 0..(size - 1) |-> NoItem],
     p_front  |-> 0,
     p_back   |-> 0,
     occupied |-> 0,
     capacity |-> size]

\* The slot of the i-th object counted from the front.
Slot(q, i) == (q.p_front + i) % q.capacity
Entry(q, i) == q.arena[Slot(q, i)]

empty(q) == q.occupied = 0
front(q) == q.arena[q.p_front]

\* Two ways to get the wrap wrong: run past the arena, or stay at its end.
advance_ptr_unwrapped(q, p) == p + 1
advance_ptr_saturating(q, p) == IF p + 1 = q.capacity THEN p ELSE p + 1
advance_ptr(q, p) == IF p + 1 = q.capacity THEN 0 ELSE p + 1

\* emplace: construct x at p_back.  It overwrites whatever lives there.
emplace(q, x) ==
    [arena    |-> [q.arena EXCEPT ![q.p_back] = x],
     p_front  |-> q.p_front,
     p_back   |-> advance_ptr(q, q.p_back),
     occupied |-> q.occupied + 1,
     capacity |-> q.capacity]

\* n consecutive calls of pop: the first n objects are destroyed.
drop(q, n) ==
    [arena    |-> [k \in 0..(q.capacity - 1) |->
                     IF \E i \in 0..(n - 1) : k = Slot(q, i) THEN NoItem ELSE q.arena[k]],
     p_front  |-> Slot(q, n),
     p_back   |-> q.p_back,
     occupied |-> q.occupied - n,
     capacity |-> q.capacity]

pop(q) == drop(q, 1)
=============================================================================
