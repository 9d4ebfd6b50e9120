------------------------------- MODULE Ports -------------------------------
(***************************************************************************)
(* One key of the port map: a WritePort, its bandwidth and every ReadPort  *)
(* connected to it (src/simulator/infra/ports/ports.h).  Callers write,    *)
(* poll and read in any order within a cycle; Tick is the clock that the   *)
(* core passes to all of them.                                             *)
(***************************************************************************)
EXTENDS PortQueue, Sequences

CONSTANTS
    Readers,   \* the read ports connected to the write port (its fanout)
    Lat,       \* Lat[r]: the latency of reader r
    BW,        \* the bandwidth of the write port
    Data,      \* the values that travel
    ClientMax, \* how many writes the client has accepted in one cycle, at most
    Refusals,  \* bound: how many refused writes of one cycle are modelled
    MaxCycle   \* bound: the last modelled cycle

ASSUME BWAssumption == BW \in Nat \ {0}
ASSUME LatAssumption == Lat \in [Readers -> Nat]
ASSUME BoundAssumption == ClientMax \in Nat /\ Refusals \in Nat /\ MaxCycle \in Nat
ASSUME DataAssumption == NoItem \notin [data : Data, due : Nat]

VARIABLES
    cycle,         \* the cycle every caller passes
    queue,         \* queue[r]: the PortQueue of reader r
    write_counter, \* BasicWritePort::write_counter
    last_cycle,    \* Port::last_cycle of the write port
    writes,        \* write calls accepted in this cycle (what the client did)
    ret            \* outcome of the latest call

vars == <<cycle, queue, write_counter, last_cycle, writes, ret>>

Item == [data : Data, due : Nat]

\* ReadPort::init.  "+1 to handle reads-after-writes".
queue_size_exact(r) == Lat[r] * BW
queue_size(r) == (Lat[r] + 1) * BW

Init ==
    /\ cycle = 0
    /\ queue = [r \in Readers |-> resize(queue_size(r))]
    /\ write_counter = 0
    /\ last_cycle = 0
    /\ writes = 0
    /\ ret = "none"

\* cleanup_stale_data: pop while the object in front is older than the cycle.
Stale(q, i) == Entry(q, i).due < cycle
stale_count(q) ==
    CHOOSE n \in 0..q.occupied :
        /\ \A i \in 0..(n - 1) : Stale(q, i)
        /\ n < q.occupied => ~Stale(q, n)
cleanup_nothing(q) == q
cleanup_stale_data(q) == drop(q, stale_count(q))

ReadyFront(q) == ~empty(q) /\ front(q).due = cycle

\* increment_write_counter: the value the counter takes, and its check.
next_write_counter == IF last_cycle = cycle THEN write_counter + 1 ELSE 0
overloaded == next_write_counter > BW

emplaceData(q, r, d) ==
    emplace(cleanup_stale_data(q), [data |-> d, due |-> cycle + Lat[r]])

\* WritePort::write, accepted: every reader gets a copy.
Write(d) ==
    /\ writes < ClientMax
    /\ ~overloaded
    /\ queue' = [r \in Readers |-> emplaceData(queue[r], r, d)]
    /\ write_counter' = next_write_counter
    /\ last_cycle' = cycle
    /\ writes' = writes + 1
    /\ ret' = "ok"
    /\ UNCHANGED cycle

\* WritePort::write, refused: the counter has moved when PortError is thrown.
WriteOverload ==
    /\ overloaded
    /\ next_write_counter <= BW + Refusals
    /\ write_counter' = next_write_counter
    /\ last_cycle' = cycle
    /\ ret' = "PortError"
    /\ UNCHANGED <<cycle, queue, writes>>

\* ReadPort::is_ready.
IsReady(r) ==
    LET q == cleanup_stale_data(queue[r]) IN
    /\ queue' = [queue EXCEPT ![r] = q]
    /\ ret' = IF ReadyFront(q) THEN "ready" ELSE "not ready"
    /\ UNCHANGED <<cycle, write_counter, last_cycle, writes>>

\* ReadPort::read of a ready port: pop_front.
Read(r) ==
    LET q == cleanup_stale_data(queue[r]) IN
    /\ ReadyFront(q)
    /\ queue' = [queue EXCEPT ![r] = pop(q)]
    /\ ret' = front(q).data
    /\ UNCHANGED <<cycle, write_counter, last_cycle, writes>>

\* ReadPort::read of a port that is not ready throws, after the cleanup.
ReadNothing(r) ==
    LET q == cleanup_stale_data(queue[r]) IN
    /\ ~ReadyFront(q)
    /\ queue' = [queue EXCEPT ![r] = q]
    /\ ret' = "PortError"
    /\ UNCHANGED <<cycle, write_counter, last_cycle, writes>>

Tick ==
    /\ cycle < MaxCycle
    /\ cycle' = cycle + 1
    /\ writes' = 0
    /\ ret' = "none"
    /\ UNCHANGED <<queue, write_counter, last_cycle>>

Next ==
    \/ Tick
    \/ WriteOverload
    \/ \E d \in Data : Write(d)
    \/ \E r \in Readers : IsReady(r) \/ Read(r) \/ ReadNothing(r)

Spec == Init /\ [][Next]_vars

-----------------------------------------------------------------------------
(* Properties *)

QueueType(q, size) ==
    /\ q.capacity = size
    /\ q.arena \in [0..(size - 1) -> Item \cup {NoItem}]
    /\ q.p_front \in 0..(size - 1)
    /\ q.p_back \in 0..(size - 1)
    /\ q.occupied \in Nat

\* The type of every variable; p_front and p_back stay inside the arena.
TypeOK ==
    /\ cycle \in 0..MaxCycle
    /\ DOMAIN queue = Readers
    /\ \A r \in Readers : QueueType(queue[r], queue_size(r))
    /\ write_counter \in Nat
    /\ last_cycle \in 0..cycle
    /\ writes \in 0..ClientMax

\* emplace never constructs over a live object: the ring holds everything that
\* can be in flight at once, the reads-after-writes of the last cycle included.
NoOverwrite == \A r \in Readers : queue[r].occupied <= queue[r].capacity

\* What is in flight lies in the order of its cycle and not beyond the latency,
\* every object counted by occupied is a constructed one, and every run of
\* objects is bounded by BW for each cycle it spans.
InFlight ==
    \A r \in Readers : LET q == queue[r] IN
        /\ \A i \in 0..(q.occupied - 1) :
             Entry(q, i) \in Item /\ Entry(q, i).due <= cycle + Lat[r]
        /\ \A i, j \in 0..(q.occupied - 1) : i <= j =>
             /\ Entry(q, i).due <= Entry(q, j).due
             /\ j - i + 1 <= (Entry(q, j).due - Entry(q, i).due + 1) * BW

\* The queue as the promise sees it: what is stale can no longer be read.
LiveLine(r) ==
    LET q == queue[r]
        n == stale_count(q)
    IN  [i \in 1..(q.occupied - n) |-> Entry(q, n + i - 1)]

Abs == INSTANCE DelayLine WITH line <- [r \in Readers |-> LiveLine(r)]

\* The ring buffer, its lazy cleanup and the write counter implement the
\* promise of a port, for a client that respects the bandwidth.
ImplementsDelayLine == Abs!Spec

\* The unit test "Ports: overload bandwidth": a write beyond the bandwidth of
\* a cycle is refused with PortError.
OverloadThrows == [][writes' > writes => writes' <= BW]_vars
=============================================================================
