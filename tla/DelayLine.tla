---------------------------- MODULE DelayLine ----------------------------
(***************************************************************************)
(* What a port promises to the modules it connects: one write port feeds   *)
(* every reader an own FIFO.  A datum written in cycle c can be read by    *)
(* reader r in cycle c + Lat[r], in that cycle only and once; what is not  *)
(* read then is lost.  At most BW writes are accepted in a cycle and one   *)
(* more is an error ("Ports: overload bandwidth" in                        *)
(* src/simulator/infra/ports/t/unit_test.cpp).  There is no buffer here    *)
(* and therefore nothing to overflow.                                      *)
(***************************************************************************)
EXTENDS Naturals, Sequences

CONSTANTS Readers, Lat, BW, Data, MaxCycle

VARIABLES
    cycle,  \* the current cycle
    writes, \* writes accepted in this cycle
    line,   \* line[r]: what r has not read yet, oldest first
    ret     \* the outcome of the latest call

vars == <<cycle, writes, line, ret>>

Init ==
    /\ cycle = 0
    /\ writes = 0
    /\ line = [r \in Readers |-> <<>>]
    /\ ret = "none"

Ready(r) == line[r] # <<>> /\ Head(line[r]).due = cycle

Write(d) ==
    /\ writes < BW
    /\ line' = [r \in Readers |-> Append(line[r], [data |-> d, due |-> cycle + Lat[r]])]
    /\ writes' = writes + 1
    /\ ret' = "ok"
    /\ UNCHANGED cycle

WriteOverload ==
    /\ writes >= BW
    /\ ret' = "PortError"
    /\ UNCHANGED <<cycle, writes, line>>

IsReady(r) ==
    /\ ret' = IF Ready(r) THEN "ready" ELSE "not ready"
    /\ UNCHANGED <<cycle, writes, line>>

Read(r) ==
    /\ Ready(r)
    /\ ret' = Head(line[r]).data
    /\ line' = [line EXCEPT ![r] = Tail(@)]
    /\ UNCHANGED <<cycle, writes>>

ReadNothing(r) ==
    /\ ~Ready(r)
    /\ ret' = "PortError"
    /\ UNCHANGED <<cycle, writes, line>>

\* What is not read in its cycle is lost; the rest is due later.
Later(s) ==
    LET n == CHOOSE n \in 0..Len(s) : /\ \A i \in 1..n : s[i].due <= cycle
                                      /\ n < Len(s) => s[n + 1].due > cycle
    IN  SubSeq(s, n + 1, Len(s))

Tick ==
    /\ cycle < MaxCycle
    /\ cycle' = cycle + 1
    /\ writes' = 0
    /\ line' = [r \in Readers |-> Later(line[r])]
    /\ ret' = "none"

Next ==
    \/ Tick
    \/ WriteOverload
    \/ \E d \in Data : Write(d)
    \/ \E r \in Readers : IsReady(r) \/ Read(r) \/ ReadNothing(r)

Spec == Init /\ [][Next]_vars
=============================================================================
