--------------------------- MODULE PerfSimProofs ---------------------------
(***************************************************************************)
(* Proofs about the pipeline: the miss of the fetch stage, the structural  *)
(* hazards that the bypassing unit keeps away from writeback, the end of   *)
(* run, the order of the instructions in flight and the scoreboard of the  *)
(* bypassing unit.                                                         *)
(***************************************************************************)
EXTENDS PerfSim, NatMinimum, SequenceTheorems, TLAPS

-----------------------------------------------------------------------------
(* Wires *)

Packets(D) == [left : Nat, data : D]

\* The wires are sequences of packets, whatever the stages send.
IsWire(w) == \E D : w \in [Ports -> Seq(Packets(D))]

\* What travels on one port, and what a write adds.
OnWire(s) == \E D : s \in Seq(Packets(D))
sent(p, s, d) == Append(s, [left |-> latency(p), data |-> d])

\* Packets on a port, oldest first.
Ordered(s) == \A j, k \in 1..Len(s) : j < k => s[j].left <= s[k].left
Strict(s) == \A j, k \in 1..Len(s) : j < k => s[j].left < s[k].left
\* Nothing on the port has so many cycles to go.
Below(s, n) == \A k \in 1..Len(s) : s[k].left < n

LEMMA Latencies ==
    /\ \A p \in Ports : latency(p) \in Nat /\ latency(p) >= 1
    /\ \A p \in Ports : p # "EXECUTE_2_EXECUTE_LONG_LATENCY" /\ p # "LONG_LATENCY_PC_HOLDER"
                        => latency(p) = 1
    /\ latency("EXECUTE_2_EXECUTE_LONG_LATENCY") = long_alu_latency - 1
    /\ latency("LONG_LATENCY_PC_HOLDER") = LONG_LATENCY
BY LongAssumption, LatencyAssumption DEF latency

LEMMA PacketsOf ==
    ASSUME NEW D, NEW s \in Seq(Packets(D))
    PROVE  /\ Len(s) \in Nat
           /\ \A k \in 1..Len(s) : s[k] \in Packets(D) /\ s[k].left \in Nat
<1>1. Len(s) \in Nat /\ \A k \in 1..Len(s) : s[k] \in Packets(D)
  OBVIOUS
<1>2. \A e \in Packets(D) : e.left \in Nat
  BY DEF Packets
<1> QED
  BY <1>1, <1>2

LEMMA OnPort ==
    ASSUME NEW w, IsWire(w), NEW q \in Ports
    PROVE  OnWire(w[q])
<1>1. PICK D : w \in [Ports -> Seq(Packets(D))]
  BY DEF IsWire
<1> QED
  BY <1>1 DEF OnWire

LEMMA Written ==
    ASSUME NEW w, IsWire(w), NEW p \in Ports, NEW d
    PROVE  /\ IsWire(w ++ <<p, d>>)
           /\ (w ++ <<p, d>>)[p] = sent(p, w[p], d)
           /\ \A q \in Ports : q # p => (w ++ <<p, d>>)[q] = w[q]
<1> DEFINE v == w ++ <<p, d>>
           e == [left |-> latency(p), data |-> d]
<1>1. PICK D : w \in [Ports -> Seq(Packets(D))]
  BY DEF IsWire
<1>2. v = [w EXCEPT ![p] = Append(w[p], e)]
  BY DEF ++, basic_write
<1>3. latency(p) \in Nat
  BY Latencies
<1>4. e \in Packets(D \cup {d})
  BY <1>3 DEF Packets
<1>5. ASSUME NEW s \in Seq(Packets(D)) PROVE s \in Seq(Packets(D \cup {d}))
  <2>1. Packets(D) \subseteq Packets(D \cup {d})
    BY DEF Packets
  <2> QED
    BY <2>1, SeqMonotonic
<1>6. w \in [Ports -> Seq(Packets(D \cup {d}))]
  BY <1>1, <1>5
<1> HIDE DEF e, v
<1>7. Append(w[p], e) \in Seq(Packets(D \cup {d}))
  <2>1. w[p] \in Seq(Packets(D \cup {d}))
    BY <1>6
  <2> QED
    BY <1>4, <2>1, AppendProperties
<1>8. v \in [Ports -> Seq(Packets(D \cup {d}))]
  BY <1>2, <1>6, <1>7
<1>9. v[p] = Append(w[p], e) /\ \A q \in Ports : q # p => v[q] = w[q]
  BY <1>1, <1>2
<1> QED
  BY <1>8, <1>9 DEF IsWire, v, e, sent

\* Facts about the packets of a port after a write.
LEMMA WrittenPort ==
    ASSUME NEW D, NEW s \in Seq(Packets(D)), NEW n \in Nat, NEW d
    PROVE  LET t == Append(s, [left |-> n, data |-> d])
           IN  /\ Len(t) = Len(s) + 1 /\ t # <<>>
               /\ t[Len(t)].left = n /\ t[Len(t)].data = d
               /\ \A k \in 1..Len(s) : t[k] = s[k]
               /\ Below(s, n + 1) /\ Ordered(s) => Ordered(t)
               /\ Below(s, n) /\ Strict(s) => Strict(t)
               /\ Below(s, n + 1) => Below(t, n + 1)
<1> DEFINE e == [left |-> n, data |-> d]
           t == Append(s, e)
<1>1. e.left = n /\ e.data = d
  OBVIOUS
<1> HIDE DEF e
<1>2. /\ Len(t) = Len(s) + 1 /\ t # <<>> /\ Len(s) \in Nat
      /\ t[Len(s) + 1] = e
      /\ \A k \in 1..Len(s) : t[k] = s[k]
  OBVIOUS
<1>3. \A k \in 1..Len(s) : s[k].left \in Nat
  BY PacketsOf
<1> HIDE DEF t
<1>4. Below(s, n) => Below(s, n + 1)
  BY <1>2, <1>3 DEF Below
<1>5. Below(s, n + 1) /\ Ordered(s) => Ordered(t)
  BY <1>1, <1>2, <1>3 DEF Below, Ordered
<1>6. ASSUME Below(s, n), Strict(s), NEW j \in 1..Len(t), NEW k \in 1..Len(t), j < k
      PROVE  t[j].left < t[k].left
  <2>1. j \in 1..Len(s) /\ t[j] = s[j]
    BY <1>2, <1>6
  <2>2. CASE k \in 1..Len(s)
    BY <1>2, <1>6, <2>1, <2>2 DEF Strict
  <2>3. CASE k = Len(s) + 1
    BY <1>1, <1>2, <1>6, <2>1, <2>3 DEF Below
  <2> QED
    BY <1>2, <2>2, <2>3
<1>7. Below(s, n + 1) => Below(t, n + 1)
  BY <1>1, <1>2, <1>3 DEF Below
<1> QED
  BY <1>1, <1>2, <1>4, <1>5, <1>6, <1>7 DEF t, e, Strict

\* The packets of a port in the next cycle: the ones with no cycle to go are
\* gone, the others come closer.
LEMMA Ticked ==
    ASSUME NEW D, NEW s \in Seq(Packets(D)), Ordered(s)
    PROVE  /\ in_transit(s) \in Seq(Packets(D))
           /\ \E n \in 0..Len(s) :
                 /\ \A k \in 1..n : s[k].left = 0
                 /\ \A k \in (n + 1)..Len(s) : s[k].left > 0
                 /\ Len(in_transit(s)) = Len(s) - n
                 /\ \A k \in 1..(Len(s) - n) :
                       /\ in_transit(s)[k].left = s[n + k].left - 1
                       /\ in_transit(s)[k].data = s[n + k].data
<1> DEFINE Zero(n) == /\ \A k \in 1..n : s[k].left = 0
                      /\ n < Len(s) => s[n + 1].left > 0
           n == arrived(s)
           t == in_transit(s)
<1>1. Len(s) \in Nat /\ \A k \in 1..Len(s) : s[k] \in Packets(D) /\ s[k].left \in Nat
  BY PacketsOf
<1>2. \E m \in 0..Len(s) : Zero(m)
  <2> DEFINE T == {m \in 0..Len(s) : m < Len(s) => s[m + 1].left > 0}
  <2>1. Len(s) \in T
    BY <1>1
  <2>2. PICK m \in T : \A x \in T : m <= x
    <3>1. T \subseteq Nat /\ T # {}
      BY <1>1, <2>1
    <3> QED
      BY <3>1, NatMin
  <2>3. ASSUME NEW k \in 1..m PROVE s[k].left = 0
    <3>1. k - 1 \in 0..Len(s) /\ ~(m <= k - 1) /\ k - 1 < Len(s) /\ (k - 1) + 1 = k
      BY <1>1
    <3>2. k - 1 \notin T
      BY <2>2, <3>1
    <3>3. ~(s[k].left > 0)
      BY <3>1, <3>2
    <3>4. s[k].left \in Nat
      BY <1>1, <3>1
    <3> QED
      BY <3>3, <3>4
  <2> QED
    BY <2>2, <2>3
<1>3. n \in 0..Len(s) /\ Zero(n)
  BY <1>2 DEF arrived
<1>4. t = [k \in 1..(Len(s) - n) |-> [s[n + k] EXCEPT !.left = s[n + k].left - 1]]
  BY DEF in_transit
<1> HIDE DEF n, t
<1>5. ASSUME NEW k \in (n + 1)..Len(s) PROVE s[k].left > 0
  <2>1. n + 1 \in 1..Len(s) /\ k \in 1..Len(s) /\ n < Len(s)
    BY <1>1, <1>3
  <2>2. s[n + 1].left > 0
    BY <1>3, <2>1
  <2>3. s[n + 1].left <= s[k].left
    BY <1>1, <2>1 DEF Ordered
  <2> QED
    BY <1>1, <2>1, <2>2, <2>3
<1>6. ASSUME NEW k \in 1..(Len(s) - n)
      PROVE  /\ t[k] \in Packets(D)
             /\ t[k].left = s[n + k].left - 1 /\ t[k].data = s[n + k].data
  <2>1. n + k \in (n + 1)..Len(s) /\ n + k \in 1..Len(s)
    BY <1>1, <1>3
  <2>2. s[n + k] \in Packets(D) /\ s[n + k].left \in Nat /\ s[n + k].left > 0
    BY <1>1, <1>5, <2>1
  <2>3. s[n + k].left - 1 \in Nat
    BY <2>2
  <2>4. t[k] = [s[n + k] EXCEPT !.left = s[n + k].left - 1]
    BY <1>4
  <2> QED
    BY <2>2, <2>3, <2>4 DEF Packets
<1>7. t \in Seq(Packets(D)) /\ Len(t) = Len(s) - n
  <2>1. Len(s) - n \in Nat
    BY <1>1, <1>3
  <2>2. t \in [1..(Len(s) - n) -> Packets(D)]
    BY <1>4, <1>6
  <2> QED
    BY <2>1, <2>2
<1> QED
  BY <1>3, <1>5, <1>6, <1>7 DEF t

Ready(s) == s # <<>> /\ s[1].left = 0
\* The port delivers something in the next cycle, namely its last packet.
Arrives(s) == s # <<>> /\ s[Len(s)].left = 1
arriving(s) == s[Len(s)].data

\* Instructions travel to decode and execute.
IsInstr(in) ==
    \E pc, seq, code, bp, v_src, v_dst, taken, new_pc, trap :
        in = [pc |-> pc, seq |-> seq, code |-> code, bp |-> bp, v_src |-> v_src,
              v_dst |-> v_dst, taken |-> taken, new_pc |-> new_pc, trap |-> trap]
InstrPorts == {"FETCH_2_DECODE", "DECODE_2_DECODE", "DECODE_2_EXECUTE"}
Fits(p, d) == p \in InstrPorts => IsInstr(d)
PortFits(p, s) == \A k \in 1..Len(s) : Fits(p, s[k].data)

PortOK(p, s) == Ordered(s) /\ Below(s, latency(p) + 1) /\ PortFits(p, s)

\* v is w after at most one write to each of the ports Q.
Sends(p, s, t) == \E d : Fits(p, d) /\ t = sent(p, s, d)
Adds(w, v, Q) ==
    IsWire(v) /\ \A q \in Ports : v[q] = w[q] \/ (q \in Q /\ Sends(q, w[q], v[q]))

\* Later writes of a cycle do not change what is read in it.
Later(w, v) ==
    IsWire(v) /\ \A q \in Ports : /\ PortOK(q, w[q]) => PortOK(q, v[q])
                                  /\ Ready(v[q]) <=> Ready(w[q])
                                  /\ Ready(w[q]) => v[q][1] = w[q][1]

LEMMA AddsNothing ==
    ASSUME NEW w, IsWire(w), NEW Q
    PROVE  Adds(w, w, Q)
BY DEF Adds

LEMMA AddsOne ==
    ASSUME NEW u, IsWire(u), NEW w, IsWire(w), NEW Q, Adds(u, w, Q), NEW p \in Ports, p \notin Q,
           NEW d, Fits(p, d)
    PROVE  IsWire(w ++ <<p, d>>) /\ Adds(u, w ++ <<p, d>>, Q \cup {p})
<1> DEFINE v == w ++ <<p, d>>
<1>1. /\ IsWire(v) /\ v[p] = sent(p, w[p], d)
      /\ \A q \in Ports : q # p => v[q] = w[q]
  BY Written
<1> HIDE DEF v
<1>2. w[p] = u[p]
  BY DEF Adds
<1>3. Sends(p, u[p], v[p])
  BY <1>1, <1>2 DEF Sends
<1>4. ASSUME NEW q \in Ports, q # p PROVE v[q] = u[q] \/ (q \in Q /\ Sends(q, u[q], v[q]))
  BY <1>1, <1>4 DEF Adds
<1>5. Adds(u, v, Q \cup {p})
  BY <1>1, <1>3, <1>4 DEF Adds
<1> QED
  BY <1>1, <1>5 DEF v

LEMMA AddsMore ==
    ASSUME NEW u, NEW w, NEW Q, NEW R, Adds(u, w, Q), Q \subseteq R
    PROVE  Adds(u, w, R)
BY DEF Adds

\* What a write does to a port.
LEMMA Sent ==
    ASSUME NEW s, OnWire(s), NEW p \in Ports, NEW d, Fits(p, d)
    PROVE  /\ PortOK(p, s) => PortOK(p, sent(p, s, d))
           /\ Ready(sent(p, s, d)) <=> Ready(s)
           /\ Ready(s) => sent(p, s, d)[1] = s[1]
           /\ Below(s, latency(p)) /\ Strict(s) => Strict(sent(p, s, d))
           /\ Len(sent(p, s, d)) = Len(s) + 1 /\ Len(s) \in Nat /\ sent(p, s, d) # <<>>
           /\ \A k \in 1..Len(s) : sent(p, s, d)[k] = s[k]
           /\ sent(p, s, d)[Len(s) + 1].left = latency(p)
           /\ arriving(sent(p, s, d)) = d
           /\ latency(p) = 1 => Arrives(sent(p, s, d))
<1> DEFINE t == sent(p, s, d)
<1>1. latency(p) \in Nat /\ latency(p) >= 1
  BY Latencies
<1>2. PICK D : s \in Seq(Packets(D))
  BY DEF OnWire
<1>3. /\ Len(t) = Len(s) + 1 /\ t # <<>>
      /\ t[Len(t)].left = latency(p) /\ t[Len(t)].data = d
      /\ \A k \in 1..Len(s) : t[k] = s[k]
      /\ Below(s, latency(p) + 1) /\ Ordered(s) => Ordered(t)
      /\ Below(s, latency(p)) /\ Strict(s) => Strict(t)
      /\ Below(s, latency(p) + 1) => Below(t, latency(p) + 1)
  BY <1>1, <1>2, WrittenPort DEF sent
<1>4. Len(s) \in Nat
  BY <1>2, PacketsOf
<1> HIDE DEF t
<1>5. PortFits(p, s) => PortFits(p, t)
  BY <1>3, <1>4 DEF PortFits
<1>6. CASE s = <<>>
  <2>1. Len(s) = 0 /\ Len(t) = 1
    BY <1>3, <1>6
  <2>2. ~Ready(t) /\ ~Ready(s)
    BY <1>1, <1>3, <1>6, <2>1 DEF Ready
  <2> QED
    BY <1>3, <1>4, <1>5, <2>2 DEF PortOK, Arrives, arriving, t
<1>7. CASE s # <<>>
  <2>1. 1 \in 1..Len(s)
    BY <1>2, <1>4, <1>7
  <2>2. t[1] = s[1]
    BY <1>3, <2>1
  <2> QED
    BY <1>3, <1>4, <1>5, <1>7, <2>2 DEF PortOK, Arrives, arriving, Ready, t
<1> QED
  BY <1>6, <1>7

LEMMA AddsLater ==
    ASSUME NEW w, IsWire(w), NEW v, NEW Q, Adds(w, v, Q)
    PROVE  Later(w, v)
<1>1. ASSUME NEW q \in Ports
      PROVE  /\ PortOK(q, w[q]) => PortOK(q, v[q])
             /\ Ready(v[q]) <=> Ready(w[q])
             /\ Ready(w[q]) => v[q][1] = w[q][1]
  <2>1. CASE v[q] = w[q]
    BY <2>1
  <2>2. CASE Sends(q, w[q], v[q])
    <3>1. PICK d : Fits(q, d) /\ v[q] = sent(q, w[q], d)
      BY <2>2 DEF Sends
    <3>2. OnWire(w[q])
      BY OnPort
    <3> QED
      BY <3>1, <3>2, Sent
  <2> QED
    BY <2>1, <2>2 DEF Adds
<1> QED
  BY <1>1 DEF Later, Adds

LEMMA LaterLater ==
    ASSUME NEW u, NEW w, NEW v, Later(u, w), Later(w, v)
    PROVE  Later(u, v)
<1>1. ASSUME NEW q \in Ports
      PROVE  /\ PortOK(q, u[q]) => PortOK(q, v[q])
             /\ Ready(v[q]) <=> Ready(u[q])
             /\ Ready(u[q]) => v[q][1] = u[q][1]
  BY DEF Later
<1> QED
  BY <1>1 DEF Later

-----------------------------------------------------------------------------
(* What the stages write *)

LEMMA FetchWires ==
    ASSUME IsWire(wire), FetchClock
    PROVE  Adds(wire, wire', fetch_ports)
<1> DEFINE H == "HIT_OR_MISS"
           L == "LONG_LATENCY_PC_HOLDER"
<1> USE DEF Ports, fetch_ports
<1>1. CASE FetchInMiss
  <2> DEFINE w1 == save_flush(wire)
  <2>1. IsWire(w1) /\ Adds(wire, w1, {"TARGET"})
    <3>1. CASE save_flush_ports = <<>>
      BY <3>1, AddsNothing DEF save_flush
    <3>2. CASE save_flush_ports # <<>>
      <4> DEFINE d == read(save_flush_ports[1])
      <4>1. w1 = wire ++ <<"TARGET", d>>
        BY <3>2 DEF save_flush
      <4> HIDE DEF d, w1
      <4>2. Adds(wire, wire, {}) /\ {} \cup {"TARGET"} = {"TARGET"}
        BY AddsNothing
      <4>3. Fits("TARGET", d)
        BY DEF Fits, InstrPorts
      <4> QED
        BY <4>1, <4>2, <4>3, AddsOne
    <3> QED
      BY <3>1, <3>2
  <2>2. ASSUME NEW p \in {H, "HOLD_PC"}, NEW d, wire' = w1 ++ <<p, d>>
        PROVE  Adds(wire, wire', fetch_ports)
    <3>1. /\ p \in Ports /\ p \notin {"TARGET"} /\ {"TARGET"} \cup {p} \subseteq fetch_ports
          /\ Fits(p, d)
      BY DEF Fits, InstrPorts
    <3> HIDE DEF w1, Ports, fetch_ports
    <3> QED
      BY <2>1, <2>2, <3>1, AddsOne, AddsMore
  <2> QED
    BY <1>1, <2>2 DEF FetchInMiss
<1>2. CASE FetchBubble
  BY <1>2, AddsNothing DEF FetchBubble
<1>3. CASE FetchMiss
  <2>1. PICK t : wire' = wire ++ <<H, FALSE>> ++ <<L, t>>
    BY <1>3 DEF FetchMiss
  <2>4. Fits(H, FALSE) /\ Fits(L, t)
    BY DEF Fits, InstrPorts
  <2>2. IsWire(wire ++ <<H, FALSE>>) /\ Adds(wire, wire ++ <<H, FALSE>>, {} \cup {H})
    BY <2>4, AddsNothing, AddsOne
  <2>3. L \in Ports /\ L \notin {} \cup {H} /\ ({} \cup {H}) \cup {L} \subseteq fetch_ports
    OBVIOUS
  <2> HIDE DEF Ports, fetch_ports
  <2> QED
    BY <2>1, <2>2, <2>3, <2>4, AddsOne, AddsMore
<1>4. CASE FetchHit
  <2>1. PICK t, u, in :
           /\ IsInstr(in)
           /\ wire' = wire ++ <<"HOLD_PC", t>> ++ <<"TARGET", u>> ++ <<"FETCH_2_DECODE", in>>
    <3>1. PICK t, seq, i, bp :
            LET in == fetched(t.address, seq, i, bp) IN
            wire' = wire ++ <<"HOLD_PC", t>> ++ <<"TARGET", get_predicted_target(in)>>
                         ++ <<"FETCH_2_DECODE", in>>
      BY <1>4 DEF FetchHit
    <3>2. IsInstr(fetched(t.address, seq, i, bp))
      BY DEF IsInstr, fetched
    <3> QED
      BY <3>1, <3>2
  <2> DEFINE w1 == wire ++ <<"HOLD_PC", t>>
             w2 == w1 ++ <<"TARGET", u>>
             Q1 == {"HOLD_PC"}
             Q2 == {"HOLD_PC", "TARGET"}
  <2>2. /\ {} \cup {"HOLD_PC"} = Q1 /\ Q1 \cup {"TARGET"} = Q2 /\ "TARGET" \notin Q1
        /\ "FETCH_2_DECODE" \notin Q2 /\ Q2 \cup {"FETCH_2_DECODE"} \subseteq fetch_ports
        /\ "HOLD_PC" \in Ports /\ "TARGET" \in Ports /\ "FETCH_2_DECODE" \in Ports
        /\ Fits("HOLD_PC", t) /\ Fits("TARGET", u) /\ Fits("FETCH_2_DECODE", in)
    BY <2>1 DEF Fits, InstrPorts
  <2> HIDE DEF Ports, fetch_ports, Q1, Q2
  <2>3. IsWire(w1) /\ Adds(wire, w1, Q1)
    BY <2>2, AddsNothing, AddsOne
  <2> HIDE DEF w1
  <2>4. IsWire(w2) /\ Adds(wire, w2, Q2)
    BY <2>2, <2>3, AddsOne
  <2>5. wire' = w2 ++ <<"FETCH_2_DECODE", in>>
    BY <2>1 DEF w1
  <2> HIDE DEF w2
  <2> QED
    BY <2>2, <2>4, <2>5, AddsOne, AddsMore
<1> QED
  BY <1>1, <1>2, <1>3, <1>4 DEF FetchClock

LEMMA AddsNext ==
    ASSUME NEW u, IsWire(u), NEW w, IsWire(w), NEW Q, Adds(u, w, Q), NEW R, Q \subseteq R,
           NEW p \in R, p \in Ports, p \notin Q, NEW d, Fits(p, d), NEW cond
    PROVE  /\ IsWire(w ++ <<p, d>>) /\ Adds(u, w ++ <<p, d>>, R)
           /\ IsWire(write_if(cond, w, <<p, d>>)) /\ Adds(u, write_if(cond, w, <<p, d>>), R)
<1>1. IsWire(w ++ <<p, d>>) /\ Adds(u, w ++ <<p, d>>, Q \cup {p})
  BY AddsOne
<1>2. Q \cup {p} \subseteq R
  OBVIOUS
<1>3. Adds(u, w ++ <<p, d>>, R) /\ Adds(u, w, R)
  BY <1>1, <1>2, AddsMore
<1>4. CASE cond
  BY <1>1, <1>3, <1>4 DEF write_if
<1>5. CASE ~cond
  BY <1>1, <1>3, <1>5 DEF write_if
<1> QED
  BY <1>1, <1>3, <1>4, <1>5

LEMMA MispredictionWires ==
    ASSUME IsWire(wire), NEW in, NEW stall
    PROVE  /\ IsWire(handle_misprediction(wire, in, stall))
           /\ Adds(wire, handle_misprediction(wire, in, stall),
                   {"DECODE_2_FETCH", "DECODE_2_FETCH_FLUSH", "DECODE_2_FETCH_TARGET"})
<1> DEFINE Q1 == {"DECODE_2_FETCH"}
           Q2 == {"DECODE_2_FETCH", "DECODE_2_FETCH_FLUSH"}
           Q3 == {"DECODE_2_FETCH", "DECODE_2_FETCH_FLUSH", "DECODE_2_FETCH_TARGET"}
           w1 == wire ++ <<"DECODE_2_FETCH", get_bp_upd(in)>>
           w2 == write_if(~stall, w1, <<"DECODE_2_FETCH_FLUSH", TRUE>>)
           w3 == write_if(~from_stall, w2,
                          <<"DECODE_2_FETCH_TARGET", get_actual_decoded_target(in)>>)
<1>1. /\ Q1 \subseteq Q2 /\ Q2 \subseteq Q3 /\ {} \subseteq Q1
      /\ "DECODE_2_FETCH" \in Q1 /\ "DECODE_2_FETCH_FLUSH" \in Q2 \ Q1
      /\ "DECODE_2_FETCH_TARGET" \in Q3 \ Q2 /\ Q3 \subseteq Ports /\ "DECODE_2_FETCH" \notin {}
      /\ \A p \in Q3 : \A d : Fits(p, d)
  BY DEF Ports, decode_ports, Fits, InstrPorts
<1> HIDE DEF Q1, Q2, Q3
<1>2. Adds(wire, wire, {}) /\ Adds(wire, wire, Q3)
  BY AddsNothing
<1>3. IsWire(w1) /\ Adds(wire, w1, Q1)
  BY <1>1, <1>2, AddsNext
<1> HIDE DEF w1
<1>4. IsWire(w2) /\ Adds(wire, w2, Q2)
  BY <1>1, <1>3, AddsNext
<1> HIDE DEF w2
<1>5. IsWire(w3) /\ Adds(wire, w3, Q3)
  BY <1>1, <1>4, AddsNext
<1>6. CASE is_misprediction(in)
  <2>1. handle_misprediction(wire, in, stall) = w3
    BY <1>6 DEF handle_misprediction, w1, w2
  <2> QED
    BY <1>5, <2>1 DEF Q3
<1>7. CASE ~is_misprediction(in)
  <2>1. handle_misprediction(wire, in, stall) = wire
    BY <1>7 DEF handle_misprediction
  <2> QED
    BY <1>2, <2>1 DEF Q3
<1> QED
  BY <1>6, <1>7

LEMMA ReadInstr ==
    ASSUME IsWire(wire), \A p \in Ports : PortFits(p, wire[p]), NEW p \in InstrPorts, is_ready(p)
    PROVE  IsInstr(read(p))
<1>1. p \in Ports
  BY DEF InstrPorts, Ports, fetch_ports, decode_ports
<1>2. OnWire(wire[p]) /\ wire[p] # <<>>
  BY <1>1, OnPort DEF is_ready
<1>3. 1 \in 1..Len(wire[p])
  BY <1>2 DEF OnWire
<1> QED
  BY <1>1, <1>3 DEF PortFits, Fits, read

LEMMA CodeKept ==
    ASSUME NEW in, IsInstr(in), NEW x
    PROVE  IsInstr([in EXCEPT !.v_src = x]) /\ [in EXCEPT !.v_src = x].code = in.code
<1>1. PICK pc, seq, code, bp, v_src, v_dst, taken, new_pc, trap :
        in = [pc |-> pc, seq |-> seq, code |-> code, bp |-> bp, v_src |-> v_src,
              v_dst |-> v_dst, taken |-> taken, new_pc |-> new_pc, trap |-> trap]
  BY DEF IsInstr
<1>2. [in EXCEPT !.v_src = x] =
        [pc |-> pc, seq |-> seq, code |-> code, bp |-> bp, v_src |-> x,
         v_dst |-> v_dst, taken |-> taken, new_pc |-> new_pc, trap |-> trap]
  BY <1>1
<1>3. IsInstr([in EXCEPT !.v_src = x])
  <2> DEFINE e == [in EXCEPT !.v_src = x]
  <2>1. e = [pc |-> pc, seq |-> seq, code |-> code, bp |-> bp, v_src |-> x,
             v_dst |-> v_dst, taken |-> taken, new_pc |-> new_pc, trap |-> trap]
    BY <1>2
  <2> HIDE DEF e
  <2>2. IsInstr(e)
    BY <2>1 DEF IsInstr
  <2> QED
    BY <2>2 DEF e
<1>4. [in EXCEPT !.v_src = x].code = code /\ in.code = code
  BY <1>1, <1>2
<1> QED
  BY <1>3, <1>4

\* Decode sends an instruction and tells the bypassing unit, or does neither.
LEMMA DecodeWires ==
    ASSUME IsWire(wire), \A p \in Ports : PortFits(p, wire[p]), DecodeClock
    PROVE  LET X == "DECODE_2_EXECUTE"
               N == "DECODE_2_BYPASSING_UNIT_NOTIFY"
           IN  /\ Adds(wire, wire', decode_ports)
               /\ \/ wire'[X] = wire[X] /\ wire'[N] = wire[N]
                  \/ /\ DecodeIssue
                     /\ \E in : /\ in.code = read_instr.code
                                /\ wire'[X] = sent(X, wire[X], in)
                                /\ wire'[N] = sent(N, wire[N], in.code)
<1> DEFINE X == "DECODE_2_EXECUTE"
           N == "DECODE_2_BYPASSING_UNIT_NOTIFY"
           Q == {"DECODE_2_FETCH", "DECODE_2_FETCH_FLUSH", "DECODE_2_FETCH_TARGET"}
<1>4. ASSUME has_instr PROVE IsInstr(read_instr)
  <2>1. "DECODE_2_DECODE" \in InstrPorts /\ "FETCH_2_DECODE" \in InstrPorts
    BY DEF InstrPorts
  <2> QED
    BY <1>4, <2>1, ReadInstr DEF has_instr, read_instr, from_stall
<1>1. CASE DecodeFlush \/ DecodeBubble
  BY <1>1, AddsNothing DEF DecodeFlush, DecodeBubble
<1>2. CASE DecodeStall
  <2> DEFINE w == handle_misprediction(wire, read_instr, TRUE)
             Q4 == Q \cup {"DECODE_2_FETCH_STALL"}
             v == w ++ <<"DECODE_2_FETCH_STALL", TRUE>>
  <2>1. wire' = v ++ <<"DECODE_2_DECODE", read_instr>>
    BY <1>2 DEF DecodeStall
  <2>2. IsWire(w) /\ Adds(wire, w, Q)
    BY MispredictionWires
  <2>3. /\ Q \subseteq Q4 /\ "DECODE_2_FETCH_STALL" \in Q4 \ Q /\ Q4 \subseteq decode_ports
        /\ "DECODE_2_DECODE" \in decode_ports \ Q4 /\ decode_ports \subseteq Ports
        /\ Fits("DECODE_2_FETCH_STALL", TRUE) /\ Fits("DECODE_2_DECODE", read_instr)
    BY <1>2, <1>4 DEF decode_ports, Ports, Fits, InstrPorts, DecodeStall
  <2>4. X \in Ports \ Q4 /\ N \in Ports \ Q4 /\ X # "DECODE_2_DECODE" /\ N # "DECODE_2_DECODE"
    BY DEF decode_ports, Ports
  <2> HIDE DEF w, Q, Q4, X, N
  <2>5. IsWire(v) /\ Adds(wire, v, Q4)
    BY <2>2, <2>3, AddsNext
  <2> HIDE DEF v
  <2>6. Adds(wire, wire', decode_ports)
    BY <2>1, <2>3, <2>5, AddsNext
  <2>7. v[X] = wire[X] /\ v[N] = wire[N]
    BY <2>4, <2>5 DEF Adds
  <2>8. wire'[X] = v[X] /\ wire'[N] = v[N]
    BY <2>1, <2>3, <2>4, <2>5, Written
  <2> QED
    BY <2>6, <2>7, <2>8 DEF X, N
<1>3. CASE DecodeIssue
  <2> DEFINE in == [read_instr EXCEPT !.v_src = <<operand(read_instr, 1), operand(read_instr, 2)>>]
             Q4 == Q \cup {"DECODE_2_EXECUTE_SRC1_COMMAND"}
             Q5 == Q4 \cup {"DECODE_2_EXECUTE_SRC2_COMMAND"}
             Q6 == Q5 \cup {N}
             w1 == handle_misprediction(wire, in, FALSE)
             w2 == command(w1, in, 1, "DECODE_2_EXECUTE_SRC1_COMMAND")
             w3 == command(w2, in, 2, "DECODE_2_EXECUTE_SRC2_COMMAND")
             w4 == w3 ++ <<N, in.code>>
  <2>1. in.code = read_instr.code /\ IsInstr(in)
    BY <1>3, <1>4, CodeKept DEF DecodeIssue
  <2>2. wire' = w4 ++ <<X, in>>
    BY <1>3 DEF DecodeIssue
  <2>3. IsWire(w1) /\ Adds(wire, w1, Q)
    BY MispredictionWires
  <2>4. /\ Q \subseteq Q4 /\ Q4 \subseteq Q5 /\ Q5 \subseteq Q6 /\ Q6 \subseteq decode_ports
        /\ decode_ports \subseteq Ports
        /\ "DECODE_2_EXECUTE_SRC1_COMMAND" \in Q4 \ Q
        /\ "DECODE_2_EXECUTE_SRC2_COMMAND" \in Q5 \ Q4
        /\ N \in Q6 \ Q5 /\ X \in decode_ports \ Q6 /\ X # N
    BY DEF decode_ports, Ports
  <2>5. /\ \A d : Fits("DECODE_2_EXECUTE_SRC1_COMMAND", d)
        /\ \A d : Fits("DECODE_2_EXECUTE_SRC2_COMMAND", d)
        /\ \A d : Fits(N, d)
        /\ Fits(X, in)
    BY <2>1 DEF Fits, InstrPorts
  <2> HIDE DEF in, Q, Q4, Q5, Q6, X, N, w1
  <2>6. IsWire(w2) /\ Adds(wire, w2, Q4)
    BY <2>3, <2>4, <2>5, AddsNext DEF command
  <2> HIDE DEF w2
  <2>7. IsWire(w3) /\ Adds(wire, w3, Q5)
    BY <2>4, <2>5, <2>6, AddsNext DEF command
  <2> HIDE DEF w3
  <2>8. IsWire(w4) /\ Adds(wire, w4, Q6) /\ w4[N] = sent(N, w3[N], in.code)
    BY <2>4, <2>5, <2>7, AddsNext, Written
  <2>9. w3[N] = wire[N] /\ w4[X] = wire[X]
    BY <2>4, <2>7, <2>8 DEF Adds
  <2> HIDE DEF w4
  <2>10. Adds(wire, wire', decode_ports)
    BY <2>2, <2>4, <2>5, <2>8, AddsNext
  <2>11. X \in Ports /\ N \in Ports /\ N # X
    BY <2>4
  <2>12. wire'[X] = sent(X, w4[X], in) /\ wire'[N] = w4[N]
    BY <2>2, <2>8, <2>11, Written
  <2> QED
    BY <1>3, <2>1, <2>8, <2>9, <2>10, <2>12 DEF X, N
<1> QED
  BY <1>1, <1>2, <1>3 DEF DecodeClock

LEMMA ExecutedKept ==
    ASSUME NEW in, IsInstr(in), NEW o
    PROVE  executed_as(in, o).code = in.code
<1>1. PICK pc, seq, code, bp, v_src, v_dst, taken, new_pc, trap :
        in = [pc |-> pc, seq |-> seq, code |-> code, bp |-> bp, v_src |-> v_src,
              v_dst |-> v_dst, taken |-> taken, new_pc |-> new_pc, trap |-> trap]
  BY DEF IsInstr
<1> DEFINE dst == IF is_load(in.code) THEN in.v_dst
                  ELSE <<Mix(in.pc, in.v_src[1], in.v_src[2], 1),
                         Mix(in.pc, in.v_src[1], in.v_src[2], 2)>>
<1>2. executed_as(in, o) =
        [in EXCEPT !.taken = o.taken, !.new_pc = o.new_pc, !.trap = o.trap, !.v_dst = dst]
  BY DEF executed_as
<1> HIDE DEF dst
<1>3. executed_as(in, o) =
        [pc |-> pc, seq |-> seq, code |-> code, bp |-> bp, v_src |-> v_src,
         v_dst |-> dst, taken |-> o.taken, new_pc |-> o.new_pc, trap |-> o.trap]
  BY <1>1, <1>2
<1> QED
  BY <1>1, <1>3

\* The instruction in the long ALU leaves it in this cycle.
completes == is_ready("EXECUTE_2_EXECUTE_LONG_LATENCY") /\ clocked_flush = 0

LEMMA CompletionWires ==
    ASSUME IsWire(wire)
    PROVE  /\ IsWire(long_completion(wire))
           /\ ~completes => long_completion(wire) = wire
           /\ Adds(wire, long_completion(wire),
                   {"EXECUTE_COMPLEX_ALU_2_EXECUTE_BYPASS", "EXECUTE_2_WRITEBACK"})
<1> DEFINE c == "EXECUTE_COMPLEX_ALU_2_EXECUTE_BYPASS"
           e == "EXECUTE_2_WRITEBACK"
           in == read("EXECUTE_2_EXECUTE_LONG_LATENCY")
           w == wire ++ <<c, in.v_dst>>
           v == w ++ <<e, in>>
<1>1. /\ c \in {c} \ {} /\ {} \subseteq {c} /\ {c} \subseteq {c, e} /\ e \in {c, e} \ {c}
      /\ c \in Ports /\ e \in Ports
      /\ Fits(c, in.v_dst) /\ Fits(e, in)
  BY DEF Ports, execute_ports, Fits, InstrPorts
<1> HIDE DEF c, e, in
<1>2. Adds(wire, wire, {}) /\ Adds(wire, wire, {c, e})
  BY AddsNothing
<1>3. IsWire(w) /\ Adds(wire, w, {c})
  BY <1>1, <1>2, AddsNext
<1> HIDE DEF w
<1>4. IsWire(v) /\ Adds(wire, v, {c, e})
  BY <1>1, <1>3, AddsNext
<1>5. CASE completes
  <2>1. long_completion(wire) = v
    BY <1>5 DEF completes, long_completion, w, c, e, in
  <2> QED
    BY <1>4, <1>5, <2>1 DEF c, e
<1>6. CASE ~completes
  <2>1. long_completion(wire) = wire
    BY <1>6 DEF completes, long_completion
  <2> QED
    BY <1>2, <2>1 DEF c, e
<1> QED
  BY <1>5, <1>6

\* By class, the latency that the bypassing unit expects and the way taken.
LEMMA Classes ==
    ASSUME NEW i
    PROVE  /\ is_long_arithmetic(i) => get_instruction_latency(i) = long_alu_latency
           /\ ~is_long_arithmetic(i) /\ is_jump(i) =>
                 next_port(i) = "EXECUTE_2_BRANCH" /\ get_instruction_latency(i) = 2
           /\ ~is_long_arithmetic(i) /\ ~is_jump(i) /\ is_mem_stage_required(i) =>
                 next_port(i) = "EXECUTE_2_MEMORY" /\ get_instruction_latency(i) = 2
           /\ ~is_long_arithmetic(i) /\ ~is_jump(i) /\ ~is_mem_stage_required(i) =>
                 next_port(i) = "EXECUTE_2_WRITEBACK" /\ get_instruction_latency(i) = 1
<1> USE DEF get_instruction_latency, is_branch_stage_required, next_port
<1>1. CASE is_long_arithmetic(i)
  <2>1. ~is_jump(i) /\ ~is_mem_stage_required(i)
    BY <1>1 DEF is_long_arithmetic, is_accumulation, is_jump, is_direct_jump, is_branch,
       is_common_branch, is_likely_branch, is_indirect_jump, is_mem_stage_required, is_load,
       is_partial_load, is_store, is_explicit_trap
  <2> QED
    BY <1>1, <2>1
<1>2. CASE ~is_long_arithmetic(i) /\ is_jump(i)
  <2>1. ~is_mem_stage_required(i)
    BY <1>2 DEF is_jump, is_direct_jump, is_branch, is_common_branch, is_likely_branch,
       is_indirect_jump, is_mem_stage_required, is_load, is_partial_load, is_store,
       is_explicit_trap
  <2> QED
    BY <1>2, <2>1
<1>3. CASE ~is_long_arithmetic(i) /\ ~is_jump(i) /\ is_mem_stage_required(i)
  BY <1>3
<1>4. CASE ~is_long_arithmetic(i) /\ ~is_jump(i) /\ ~is_mem_stage_required(i)
  BY <1>4
<1> QED
  BY <1>1, <1>2, <1>3, <1>4

\* Execute sends the instruction that it reads one way, and the one that
\* leaves the long ALU to writeback.  Unless both are due there at once, no port
\* is written twice.
LEMMA ExecuteWires ==
    ASSUME IsWire(wire), \A p \in Ports : PortFits(p, wire[p]), ExecuteClock,
           ~is_flush /\ is_ready("DECODE_2_EXECUTE")
           /\ get_instruction_latency(read("DECODE_2_EXECUTE").code) = 1 => ~completes
    PROVE  LET A == "EXECUTE_2_EXECUTE_LONG_LATENCY"
               B == "EXECUTE_2_BRANCH"
               M == "EXECUTE_2_MEMORY"
               E == "EXECUTE_2_WRITEBACK"
               ex == is_ready("DECODE_2_EXECUTE")
               lat == get_instruction_latency(read("DECODE_2_EXECUTE").code)
           IN  /\ Adds(wire, wire', execute_ports)
               /\ is_flush => wire' = wire /\ flush_expiration_latency' = saved_flush
               /\ ~is_flush => flush_expiration_latency' = clocked_flush
               /\ wire'[E] = wire[E] \/ completes \/ (ex /\ lat = 1)
               /\ wire'[B] = wire[B] \/ (wire'[M] = wire[M] /\ ex /\ lat = 2)
               /\ wire'[M] = wire[M] \/ (wire'[B] = wire[B] /\ ex /\ lat = 2)
               /\ \/ wire'[A] = wire[A]
                  \/ /\ ex /\ lat = long_alu_latency /\ wire'[B] = wire[B] /\ wire'[M] = wire[M]
                     /\ \E d : wire'[A] = sent(A, wire[A], d)
<1> DEFINE A == "EXECUTE_2_EXECUTE_LONG_LATENCY"
           B == "EXECUTE_2_BRANCH"
           M == "EXECUTE_2_MEMORY"
           E == "EXECUTE_2_WRITEBACK"
           Y == "EXECUTE_2_EXECUTE_BYPASS"
           C == "EXECUTE_COMPLEX_ALU_2_EXECUTE_BYPASS"
           ex == is_ready("DECODE_2_EXECUTE")
           lat == get_instruction_latency(read("DECODE_2_EXECUTE").code)
           w == long_completion(wire)
<1>1. CASE ExecuteFlush
  BY <1>1, AddsNothing DEF ExecuteFlush
<1>2. /\ IsWire(w) /\ Adds(wire, w, {C, E}) /\ (~completes => w = wire)
  BY CompletionWires
<1>3. /\ A \in Ports /\ B \in Ports /\ M \in Ports /\ E \in Ports /\ Y \in Ports /\ C \in Ports
      /\ {C, E} \subseteq execute_ports
      /\ \A p \in execute_ports : p \in Ports /\ \A d : Fits(p, d)
  BY DEF Ports, execute_ports, Fits, InstrPorts
<1>4. w[A] = wire[A] /\ w[B] = wire[B] /\ w[M] = wire[M]
  <2>1. A \notin {C, E} /\ B \notin {C, E} /\ M \notin {C, E}
    OBVIOUS
  <2> HIDE DEF A, B, M, C, E, w
  <2> QED
    BY <1>2, <1>3, <2>1 DEF Adds
<1>5. w[E] = wire[E] \/ completes
  BY <1>2
<1>6. CASE ExecuteBubble
  <2>1. wire' = w /\ ~is_flush /\ flush_expiration_latency' = clocked_flush
    BY <1>6 DEF ExecuteBubble
  <2> HIDE DEF w
  <2>2. Adds(wire, wire', execute_ports)
    BY <1>2, <1>3, <2>1, AddsMore
  <2> QED
    BY <1>4, <1>5, <2>1, <2>2
<1>7. CASE ExecuteInstr
  <2>1. PICK in : in.code = read("DECODE_2_EXECUTE").code /\ wire' = routed(w, in)
    <3> DEFINE d == read("DECODE_2_EXECUTE")
               x == <<bypassed(d, 1, "DECODE_2_EXECUTE_SRC1_COMMAND"),
                      bypassed(d, 2, "DECODE_2_EXECUTE_SRC2_COMMAND")>>
               in == [d EXCEPT !.v_src = x]
    <3>1. IsInstr(d)
      BY <1>7, ReadInstr DEF ExecuteInstr, InstrPorts
    <3>2. PICK o : wire' = routed(w, executed_as(in, o))
      BY <1>7 DEF ExecuteInstr
    <3> HIDE DEF d, x
    <3>3. IsInstr(in) /\ in.code = d.code
      BY <3>1, CodeKept
    <3> HIDE DEF in
    <3>4. executed_as(in, o).code = in.code
      BY <3>3, ExecutedKept
    <3> QED
      BY <3>2, <3>3, <3>4 DEF d
  <2>2. ~is_flush /\ ex /\ flush_expiration_latency' = clocked_flush
    BY <1>7 DEF ExecuteInstr
  <2> DEFINE i == in.code
  <2>3. lat = get_instruction_latency(i)
    BY <2>1
  <2>4. CASE is_long_arithmetic(i)
    <3>1. wire' = w ++ <<A, in>> /\ lat = long_alu_latency
      BY <2>1, <2>3, <2>4, Classes DEF routed
    <3>2. A \in execute_ports \ {C, E} /\ A # B /\ A # M /\ A # E
      BY DEF execute_ports
    <3> HIDE DEF w, A, B, M, C, E, ex, lat
    <3>3. Adds(wire, wire', execute_ports)
      BY <1>2, <1>3, <3>1, <3>2, AddsNext
    <3>4. wire'[A] = sent(A, w[A], in) /\ wire'[B] = w[B] /\ wire'[M] = w[M] /\ wire'[E] = w[E]
      BY <1>2, <1>3, <3>1, <3>2, Written
    <3>5. wire'[A] = sent(A, wire[A], in) /\ wire'[B] = wire[B] /\ wire'[M] = wire[M]
          /\ (wire'[E] = wire[E] \/ completes)
      BY <1>4, <1>5, <3>4
    <3> QED
      BY <2>2, <3>1, <3>3, <3>5 DEF A, B, M, E, ex, lat
  <2>5. CASE ~is_long_arithmetic(i)
    <3> DEFINE p == next_port(i)
               v == w ++ <<Y, in.v_dst>>
    <3>1. wire' = v ++ <<p, in>>
      BY <2>1, <2>5 DEF routed
    <3>2. \/ p = B /\ lat = 2
          \/ p = M /\ lat = 2
          \/ p = E /\ lat = 1
      BY <2>3, <2>5, Classes
    <3>3. /\ {C, E} \subseteq {C, E, Y} /\ {C, E, Y} \subseteq execute_ports
          /\ Y \in execute_ports /\ Y \in {C, E, Y} \ {C, E}
          /\ A \notin {C, E, Y} /\ B \in execute_ports \ {C, E, Y} /\ M \in execute_ports \ {C, E, Y}
          /\ E \in execute_ports \ {Y}
          /\ A # B /\ A # M /\ A # E /\ B # M /\ B # E /\ M # E
          /\ Y # A /\ Y # B /\ Y # M /\ Y # E
      BY DEF execute_ports
    <3> HIDE DEF w, A, B, M, C, E, Y, ex, lat, p
    <3>7. Y \in Ports /\ Fits(Y, in.v_dst) /\ Y \in {C, E, Y} /\ Y \notin {C, E}
      BY <1>3, <3>3
    <3>8. IsWire(v) /\ Adds(wire, v, {C, E, Y})
      BY <1>2, <3>3, <3>7, AddsNext
    <3>9. v[A] = w[A] /\ v[B] = w[B] /\ v[M] = w[M] /\ v[E] = w[E]
      BY <1>2, <1>3, <3>3, <3>7, Written
    <3>4. /\ IsWire(v) /\ Adds(wire, v, {C, E, Y})
          /\ v[A] = w[A] /\ v[B] = w[B] /\ v[M] = w[M] /\ v[E] = w[E]
      BY <3>8, <3>9
    <3> HIDE DEF v
    <3>5. CASE (p = B \/ p = M) /\ lat = 2
      <4>1. p \in execute_ports \ {C, E, Y} /\ p # A /\ p # E /\ p \in Ports /\ Fits(p, in)
        BY <1>3, <3>3, <3>5
      <4>2. Adds(wire, wire', execute_ports)
        BY <3>1, <3>3, <3>4, <4>1, AddsNext
      <4>3. /\ wire'[A] = v[A] /\ wire'[E] = v[E]
            /\ (p # B => wire'[B] = v[B]) /\ (p # M => wire'[M] = v[M])
        BY <1>3, <3>1, <3>4, <4>1, Written
      <4>4. /\ wire'[A] = wire[A] /\ (wire'[E] = wire[E] \/ completes)
            /\ (wire'[B] = wire[B] \/ wire'[M] = wire[M])
        BY <1>4, <1>5, <3>3, <3>4, <3>5, <4>3
      <4> QED
        BY <2>2, <3>5, <4>2, <4>4 DEF A, B, M, E, ex, lat
    <3>6. CASE p = E /\ lat = 1
      <4>1. w = wire
        BY <1>2, <2>2, <3>6 DEF ex, lat
      <4>2. Adds(wire, wire, {}) /\ {} \subseteq {Y} /\ Y \in {Y} /\ Y \notin {} /\ {Y} \subseteq execute_ports
        BY <3>3, AddsNothing
      <4>3. Adds(wire, v, {Y})
        BY <1>3, <3>3, <4>1, <4>2, AddsNext DEF v
      <4>4. Adds(wire, wire', execute_ports)
        BY <1>3, <3>1, <3>3, <3>4, <3>6, <4>2, <4>3, AddsNext
      <4>5. wire'[A] = v[A] /\ wire'[B] = v[B] /\ wire'[M] = v[M]
        BY <1>3, <3>1, <3>3, <3>4, <3>6, Written
      <4> QED
        BY <1>4, <2>2, <3>4, <3>6, <4>4, <4>5 DEF A, B, M, E, ex, lat
    <3> QED
      BY <3>2, <3>5, <3>6
  <2> QED
    BY <2>4, <2>5
<1> QED
  BY <1>1, <1>6, <1>7 DEF ExecuteClock

LEMMA MemWires ==
    ASSUME IsWire(wire), MemClock
    PROVE  /\ Adds(wire, wire', mem_ports)
           /\ \/ wire'["MEMORY_2_WRITEBACK"] = wire["MEMORY_2_WRITEBACK"]
              \/ ~is_flush /\ is_ready("EXECUTE_2_MEMORY")
<1>1. CASE MemIdle
  BY <1>1, AddsNothing DEF MemIdle
<1>2. CASE MemInstr
  <2> DEFINE Y == "MEMORY_2_EXECUTE_BYPASS"
             W == "MEMORY_2_WRITEBACK"
  <2>1. PICK d, in : wire' = wire ++ <<Y, d>> ++ <<W, in>>
    BY <1>2 DEF MemInstr
  <2>2. ~is_flush /\ is_ready("EXECUTE_2_MEMORY")
    BY <1>2 DEF MemInstr, mem_flush, is_flush
  <2> DEFINE w == wire ++ <<Y, d>>
  <2>3. /\ {} \subseteq {Y} /\ Y \in {Y} \ {} /\ {Y} \subseteq mem_ports /\ W \in mem_ports \ {Y}
        /\ Y \in Ports /\ W \in Ports /\ Fits(Y, d) /\ Fits(W, in)
    BY DEF mem_ports, Ports, Fits, InstrPorts
  <2> HIDE DEF Y, W
  <2>4. Adds(wire, wire, {})
    BY AddsNothing
  <2>5. IsWire(w) /\ Adds(wire, w, {Y})
    BY <2>3, <2>4, AddsNext
  <2>6. wire' = w ++ <<W, in>>
    BY <2>1
  <2> HIDE DEF w
  <2>7. Adds(wire, wire', mem_ports)
    BY <2>3, <2>5, <2>6, AddsNext
  <2> QED
    BY <2>2, <2>7
<1> QED
  BY <1>1, <1>2 DEF MemClock

LEMMA FlushWires ==
    ASSUME NEW u, IsWire(u), NEW w, IsWire(w), NEW in, Adds(u, w, {"BRANCH_2_FETCH"})
    PROVE  LET F == "BRANCH_2_ALL_FLUSH"
               G == "BRANCH_2_BYPASSING_UNIT_FLUSH_NOTIFY"
               v == flush_all(w, in)
           IN  /\ IsWire(v) /\ v[F] = sent(F, u[F], TRUE) /\ v[G] = sent(G, u[G], TRUE)
               /\ Adds(u, v, {"BRANCH_2_FETCH", F, G, "BRANCH_2_FETCH_TARGET"})
<1> DEFINE P == "BRANCH_2_FETCH"
           F == "BRANCH_2_ALL_FLUSH"
           G == "BRANCH_2_BYPASSING_UNIT_FLUSH_NOTIFY"
           T == "BRANCH_2_FETCH_TARGET"
           t == get_actual_target(in)
           on == TRUE
           w1 == w ++ <<F, on>>
           w2 == w1 ++ <<G, on>>
           w3 == w2 ++ <<T, t>>
<1>1. flush_all(w, in) = w3
  BY DEF flush_all
<1>2. /\ {P} \subseteq {P, F} /\ {P, F} \subseteq {P, F, G} /\ {P, F, G} \subseteq {P, F, G, T}
      /\ F \in {P, F} \ {P} /\ G \in {P, F, G} \ {P, F} /\ T \in {P, F, G, T} \ {P, F, G}
      /\ F \in Ports /\ G \in Ports /\ T \in Ports
      /\ F # G /\ F # T /\ G # T /\ F # P /\ G # P
      /\ \A d : Fits(F, d) /\ Fits(G, d) /\ Fits(T, d)
  BY DEF Ports, branch_ports, Fits, InstrPorts
<1>0. Adds(u, w, {P})
  OBVIOUS
<1> HIDE DEF P, F, G, T, t, on
<1>3. IsWire(w1) /\ Adds(u, w1, {P, F})
  BY <1>0, <1>2, AddsNext
<1>9. F \notin {P} /\ G \notin {P}
  BY <1>2
<1>10. w[F] = u[F] /\ w[G] = u[G]
  BY <1>0, <1>2, <1>9 DEF Adds
<1>4. w1[F] = sent(F, w[F], on) /\ w1[G] = w[G]
  BY <1>2, Written
<1> HIDE DEF w1
<1>5. IsWire(w2) /\ Adds(u, w2, {P, F, G})
  BY <1>2, <1>3, AddsNext
<1>6. w2[F] = w1[F] /\ w2[G] = sent(G, w1[G], on)
  BY <1>2, <1>3, Written
<1> HIDE DEF w2
<1>7. IsWire(w3) /\ Adds(u, w3, {P, F, G, T})
  BY <1>2, <1>5, AddsNext
<1>8. w3[F] = w2[F] /\ w3[G] = w2[G]
  BY <1>2, <1>5, Written
<1> QED
  BY <1>1, <1>4, <1>6, <1>7, <1>8, <1>10 DEF P, F, G, T, on

\* The branch stage flushes the stages and the scoreboard together.
LEMMA BranchWires ==
    ASSUME IsWire(wire), BranchClock
    PROVE  LET F == "BRANCH_2_ALL_FLUSH"
               G == "BRANCH_2_BYPASSING_UNIT_FLUSH_NOTIFY"
           IN  /\ Adds(wire, wire', branch_ports)
               /\ \/ wire'["BRANCH_2_WRITEBACK"] = wire["BRANCH_2_WRITEBACK"]
                  \/ ~is_flush /\ is_ready("EXECUTE_2_BRANCH")
               /\ \/ wire'[F] = wire[F] /\ wire'[G] = wire[G]
                  \/ wire'[F] = sent(F, wire[F], TRUE) /\ wire'[G] = sent(G, wire[G], TRUE)
<1> DEFINE P == "BRANCH_2_FETCH"
           F == "BRANCH_2_ALL_FLUSH"
           G == "BRANCH_2_BYPASSING_UNIT_FLUSH_NOTIFY"
           T == "BRANCH_2_FETCH_TARGET"
           Y == "BRANCH_2_EXECUTE_BYPASS"
           W == "BRANCH_2_WRITEBACK"
<1>1. CASE BranchIdle
  BY <1>1, AddsNothing DEF BranchIdle
<1>2. CASE BranchInstr
  <2> DEFINE in == read("EXECUTE_2_BRANCH")
             w == wire ++ <<P, get_bp_upd(in)>>
             v == IF is_branch_misprediction(in) THEN flush_all(w, in) ELSE w
             v1 == v ++ <<Y, in.v_dst>>
             Q == {P, F, G, T}
  <2>1. wire' = v1 ++ <<W, in>> /\ ~is_flush /\ is_ready("EXECUTE_2_BRANCH")
    BY <1>2 DEF BranchInstr, branch_flush, is_flush
  <2>2. /\ {} \subseteq {P} /\ P \in {P} \ {} /\ P \in Ports /\ {P} \subseteq Q
        /\ Q \subseteq Q \cup {Y} /\ Y \in (Q \cup {Y}) \ Q /\ Q \cup {Y} \subseteq branch_ports
        /\ W \in branch_ports \ (Q \cup {Y})
        /\ Y \in Ports /\ W \in Ports /\ F \in Ports /\ G \in Ports /\ F \notin {P} /\ G \notin {P}
        /\ F # Y /\ G # Y /\ F # W /\ G # W
        /\ \A d : Fits(P, d) /\ Fits(Y, d) /\ Fits(W, d)
    BY DEF Ports, branch_ports, Fits, InstrPorts
  <2>3. Adds(wire, wire, {})
    BY AddsNothing
  <2> HIDE DEF in
  <2>4. IsWire(w) /\ Adds(wire, w, {P})
    <3> HIDE DEF P, F, G, T, Y, W, Q
    <3> QED
      BY <2>2, <2>3, AddsNext
  <2> HIDE DEF w
  <2>5. /\ IsWire(v) /\ Adds(wire, v, Q)
        /\ \/ v[F] = wire[F] /\ v[G] = wire[G]
           \/ v[F] = sent(F, wire[F], TRUE) /\ v[G] = sent(G, wire[G], TRUE)
    <3>1. CASE is_branch_misprediction(in)
      BY <2>4, <3>1, FlushWires
    <3>2. CASE ~is_branch_misprediction(in)
      <4>1. v = w
        BY <3>2
      <4> HIDE DEF P, F, G, T, Q, v
      <4>2. w[F] = wire[F] /\ w[G] = wire[G]
        BY <2>2, <2>4 DEF Adds
      <4>3. Adds(wire, w, Q)
        BY <2>2, <2>4, AddsMore
      <4> QED
        BY <2>4, <4>1, <4>2, <4>3
    <3> QED
      BY <3>1, <3>2
  <2> HIDE DEF P, F, G, T, Y, W, Q, v
  <2>6. IsWire(v1) /\ Adds(wire, v1, Q \cup {Y})
    BY <2>2, <2>5, AddsNext
  <2>7. v1[F] = v[F] /\ v1[G] = v[G]
    BY <2>2, <2>5, Written
  <2> HIDE DEF v1
  <2>8. Adds(wire, wire', branch_ports)
    BY <2>1, <2>2, <2>6, AddsNext
  <2>9. wire'[F] = v1[F] /\ wire'[G] = v1[G]
    BY <2>1, <2>2, <2>6, Written
  <2> QED
    BY <2>1, <2>5, <2>7, <2>8, <2>9 DEF F, G
<1> QED
  BY <1>1, <1>2 DEF BranchClock

\* set_writeback_target writes two ports of its own.
LEMMA RedirectWires ==
    ASSUME NEW u, IsWire(u), NEW w, IsWire(w), NEW Q, NEW R, NEW cond, NEW t,
           Q \subseteq R, "WRITEBACK_2_ALL_FLUSH" \in R, "WRITEBACK_2_FETCH_TARGET" \in R
    PROVE  /\ IsWire(redirect(cond, w, t)) /\ Later(w, redirect(cond, w, t))
           /\ \A q \in Ports : q \notin {"WRITEBACK_2_ALL_FLUSH", "WRITEBACK_2_FETCH_TARGET"}
                               => redirect(cond, w, t)[q] = w[q]
           /\ /\ Adds(u, w, Q) /\ "WRITEBACK_2_ALL_FLUSH" \notin Q
              /\ "WRITEBACK_2_FETCH_TARGET" \notin Q
              => Adds(u, redirect(cond, w, t), R)
<1> DEFINE F == "WRITEBACK_2_ALL_FLUSH"
           T == "WRITEBACK_2_FETCH_TARGET"
           on == TRUE
           w1 == w ++ <<F, on>>
           w2 == w1 ++ <<T, t>>
<1>1. cond => redirect(cond, w, t) = w2
  BY DEF redirect
<1>2. ~cond => redirect(cond, w, t) = w
  BY DEF redirect
<1>3. /\ F \in Ports /\ T \in Ports /\ F # T /\ Fits(F, on) /\ Fits(T, t) /\ {F, T} \subseteq R
      /\ {} \subseteq {F} /\ F \in {F} \ {} /\ {F} \subseteq {F, T} /\ T \in {F, T} \ {F}
      /\ Q \subseteq Q \cup {F} /\ F \in Q \cup {F}
  BY DEF Ports, writeback_ports, Fits, InstrPorts
<1>4. F \in R /\ T \in R
  OBVIOUS
<1> HIDE DEF F, T, on
<1>14. Adds(w, w, {})
  BY AddsNothing
<1>5. IsWire(w1) /\ Adds(w, w1, {F})
  BY <1>3, <1>14, AddsNext
<1>6. Adds(u, w, Q) /\ F \notin Q => Adds(u, w1, Q \cup {F})
  BY <1>3, AddsNext
<1> HIDE DEF w1
<1>7. IsWire(w2) /\ Adds(w, w2, {F, T})
  BY <1>3, <1>5, AddsNext
<1>8. Adds(u, w, Q) /\ F \notin Q /\ T \notin Q => Adds(u, w2, R)
  <2>1. Q \cup {F} \subseteq R /\ (T \notin Q => T \notin Q \cup {F})
    BY <1>3, <1>4
  <2> QED
    BY <1>3, <1>4, <1>5, <1>6, <2>1, AddsNext
<1> HIDE DEF w2
<1>9. Later(w, w2) /\ Later(w, w) /\ Adds(w, w, {})
  BY <1>7, AddsLater, AddsNothing
<1>10. \A q \in Ports : q \notin {F, T} => w2[q] = w[q]
  BY <1>7 DEF Adds
<1>11. Adds(u, w, Q) => Adds(u, w, R)
  BY AddsMore
<1>12. CASE cond
  <2>1. redirect(cond, w, t) = w2
    BY <1>1, <1>12
  <2> QED
    BY <1>7, <1>8, <1>9, <1>10, <2>1 DEF F, T
<1>13. CASE ~cond
  <2>1. redirect(cond, w, t) = w
    BY <1>2, <1>13
  <2> QED
    BY <1>9, <1>11, <2>1
<1> QED
  BY <1>12, <1>13

LEMMA RedirectLater ==
    ASSUME NEW w, IsWire(w), NEW cond, NEW t
    PROVE  /\ IsWire(redirect(cond, w, t)) /\ Later(w, redirect(cond, w, t))
           /\ \A q \in Ports : q \notin {"WRITEBACK_2_ALL_FLUSH", "WRITEBACK_2_FETCH_TARGET"}
                               => redirect(cond, w, t)[q] = w[q]
           /\ Adds(w, redirect(cond, w, t), {"WRITEBACK_2_ALL_FLUSH", "WRITEBACK_2_FETCH_TARGET"})
<1> DEFINE R == {"WRITEBACK_2_ALL_FLUSH", "WRITEBACK_2_FETCH_TARGET"}
<1>1. {} \subseteq R /\ "WRITEBACK_2_ALL_FLUSH" \in R /\ "WRITEBACK_2_FETCH_TARGET" \in R
  OBVIOUS
<1> HIDE DEF R
<1>2. Adds(w, w, {})
  BY AddsNothing
<1>3. Adds(w, redirect(cond, w, t), R)
  BY <1>1, <1>2, RedirectWires
<1>4. ASSUME NEW q \in Ports, q \notin R PROVE redirect(cond, w, t)[q] = w[q]
  BY <1>3, <1>4 DEF Adds
<1>5. Later(w, redirect(cond, w, t)) /\ IsWire(redirect(cond, w, t))
  BY <1>3, AddsLater DEF Adds
<1> QED
  BY <1>3, <1>4, <1>5 DEF R

\* The driver and writeback do not both redirect fetch after a trap: the hooks
\* are off, and the kernel does not answer a syscall with another trap.
OneRedirect == ~is_hooked /\ kernel_results \subseteq {"NO_TRAP", "HALT"}

\* Writeback retires an instruction and reports it to the core, gives up, or
\* does nothing.
LEMMA WritebackWires ==
    ASSUME IsWire(wire), WritebackClock
    PROVE  LET h == "WRITEBACK_2_CORE_HALT"
           IN  /\ Later(wire, wire')
               /\ \A p \in Ports : p \notin writeback_ports => wire'[p] = wire[p]
               /\ instrs_to_run' = instrs_to_run
               /\ \/ /\ wire' = wire /\ (writeback_trap \/ retire_ports = <<>>)
                     /\ executed_instrs' = executed_instrs /\ retired' = retired
                  \/ /\ ~writeback_trap /\ retired < Len(retire_ports) /\ wire'[h] = wire[h]
                     /\ executed_instrs' = executed_instrs /\ retired' = retired
                     /\ thrown' = "CheckerMismatch" /\ Adds(wire, wire', writeback_ports)
                  \/ /\ ~writeback_trap /\ retired < Len(retire_ports)
                     /\ \E trap : wire'[h] = sent(h, wire[h], halt_trap(trap))
                     /\ executed_instrs' = executed_instrs + 1 /\ retired' = retired + 1
                     /\ thrown' = thrown
                     /\ OneRedirect => Adds(wire, wire', writeback_ports)
<1> DEFINE Y == "WRITEBACK_2_EXECUTE_BYPASS"
           h == "WRITEBACK_2_CORE_HALT"
           F == "WRITEBACK_2_ALL_FLUSH"
           T == "WRITEBACK_2_FETCH_TARGET"
           W == writeback_ports
<1>1. /\ Y \in Ports /\ h \in Ports /\ Y # h /\ F \in W /\ T \in W
      /\ {} \subseteq {Y} /\ Y \in {Y} \ {} /\ {Y} \subseteq {Y, h} /\ h \in {Y, h} \ {Y}
      /\ {Y} \subseteq W /\ {Y, h} \subseteq W /\ {Y, h} \cup {F, T} = W
      /\ h \notin {F, T} /\ F \notin {Y, h} /\ T \notin {Y, h} /\ h \in W /\ Y \in W
      /\ \A d : Fits(Y, d) /\ Fits(h, d)
  BY DEF Ports, writeback_ports, Fits, InstrPorts
<1>2. Later(wire, wire) /\ Adds(wire, wire, {})
  BY AddsNothing, AddsLater
<1>3. CASE WritebackBubble
  BY <1>2, <1>3 DEF WritebackBubble
<1>4. ASSUME NEW in, wire' = wire ++ <<Y, in.v_dst>>
      PROVE  /\ Later(wire, wire') /\ wire'[h] = wire[h] /\ Adds(wire, wire', W)
             /\ \A p \in Ports : p \notin W => wire'[p] = wire[p]
  <2> HIDE DEF Y, h, F, T, W
  <2>1. IsWire(wire') /\ Adds(wire, wire', {Y})
    BY <1>1, <1>2, <1>4, AddsNext
  <2>2. Adds(wire, wire', W)
    BY <1>1, <2>1, AddsMore
  <2>3. wire'[h] = wire[h]
    BY <1>1, <1>4, Written
  <2>4. Later(wire, wire')
    BY <2>1, AddsLater
  <2> QED
    BY <2>2, <2>3, <2>4 DEF Adds
<1>5. ASSUME NEW in, NEW trap, in.trap = "SYSCALL" => trap \in kernel_results,
             in.trap # "SYSCALL" => trap = in.trap,
             wire' = redirects(wire ++ <<Y, in.v_dst>> ++ <<h, halt_trap(trap)>>, in, trap)
      PROVE  /\ Later(wire, wire') /\ wire'[h] = sent(h, wire[h], halt_trap(trap))
             /\ OneRedirect => Adds(wire, wire', W)
             /\ \A p \in Ports : p \notin W => wire'[p] = wire[p]
  <2> DEFINE w1 == wire ++ <<Y, in.v_dst>>
             w2 == w1 ++ <<h, halt_trap(trap)>>
             a == is_vectored(trap)
             b == in.trap = "SYSCALL" \/ handle_trap(trap) # "NO_TRAP"
             x == Target(handler, 0)
             y == get_actual_target(in)
             w3 == redirect(a, w2, x)
             w4 == redirect(b, w3, y)
  <2>1. wire' = w4
    BY <1>5 DEF redirects
  <2>2. OneRedirect => ~a \/ ~b
    BY <1>5 DEF OneRedirect, is_vectored, handle_trap
  <2>3. (~b => w4 = w3) /\ (~a => w3 = w2)
    BY DEF redirect
  <2> HIDE DEF a, b, x, y, Y, h, F, T, W
  <2>4. IsWire(w1) /\ Adds(wire, w1, {Y}) /\ w1[h] = wire[h]
    <3>1. IsWire(w1) /\ Adds(wire, w1, {Y})
      BY <1>1, <1>2, AddsNext
    <3>2. w1[h] = wire[h]
      BY <1>1, Written
    <3> QED
      BY <3>1, <3>2
  <2> HIDE DEF w1
  <2>5. IsWire(w2) /\ Adds(wire, w2, {Y, h}) /\ w2[h] = sent(h, w1[h], halt_trap(trap))
    <3>1. IsWire(w2) /\ Adds(wire, w2, {Y, h})
      BY <1>1, <2>4, AddsNext
    <3>2. w2[h] = sent(h, w1[h], halt_trap(trap))
      BY <1>1, <2>4, Written
    <3> QED
      BY <3>1, <3>2
  <2> HIDE DEF w2
  <2>6. /\ IsWire(w3) /\ Later(w2, w3) /\ Adds(wire, w3, W)
        /\ \A q \in Ports : q \notin {F, T} => w3[q] = w2[q]
    BY <1>1, <2>5, RedirectWires DEF F, T
  <2> HIDE DEF w3
  <2>7. /\ IsWire(w4) /\ Later(w3, w4)
        /\ Adds(wire, w2, {Y, h}) => Adds(wire, redirect(b, w2, y), W)
        /\ \A q \in Ports : q \notin {F, T} => w4[q] = w3[q]
    <3>1. Adds(wire, w2, {Y, h}) => Adds(wire, redirect(b, w2, y), W)
      BY <1>1, <2>5, RedirectWires DEF F, T
    <3>2. {Y, h} \subseteq W /\ IsWire(w3)
      BY <1>1, <2>6
    <3>3. IsWire(w4) /\ Later(w3, w4) /\ \A q \in Ports : q \notin {F, T} => w4[q] = w3[q]
      BY <3>2, RedirectLater DEF F, T
    <3> QED
      BY <3>1, <3>3
  <2>8. OneRedirect => Adds(wire, w4, W)
    BY <2>2, <2>3, <2>5, <2>6, <2>7
  <2> HIDE DEF w4
  <2>9. Later(wire, w4)
    BY <2>5, <2>6, <2>7, AddsLater, LaterLater
  <2>10. w4[h] = sent(h, wire[h], halt_trap(trap))
    BY <1>1, <2>4, <2>5, <2>6, <2>7
  <2>11. ASSUME NEW p \in Ports, p \notin W PROVE w4[p] = wire[p]
    <3>1. p \notin {F, T} /\ p \notin {Y, h}
      BY <1>1, <2>11
    <3>2. w4[p] = w2[p]
      BY <2>6, <2>7, <3>1
    <3>3. w2[p] = wire[p]
      BY <2>5, <3>1 DEF Adds
    <3> QED
      BY <3>2, <3>3
  <2> QED
    BY <2>1, <2>8, <2>9, <2>10, <2>11
<1>6. CASE WritebackInstr
  <2> DEFINE in == read(retire_ports[retired + 1])
  <2>1. \/ /\ \E trap \in IF in.trap = "SYSCALL" THEN kernel_results ELSE {in.trap} :
                 wire' = redirects(wire ++ <<Y, in.v_dst>> ++ <<h, halt_trap(trap)>>, in, trap)
           /\ executed_instrs' = executed_instrs + 1 /\ retired' = retired + 1
           /\ thrown' = thrown /\ instrs_to_run' = instrs_to_run
        \/ /\ wire' = wire ++ <<Y, in.v_dst>>
           /\ executed_instrs' = executed_instrs /\ retired' = retired
           /\ thrown' = "CheckerMismatch" /\ instrs_to_run' = instrs_to_run
    BY <1>6, Zenon DEF WritebackInstr
  <2>2. ~writeback_trap /\ retired < Len(retire_ports)
    BY <1>6 DEF WritebackInstr
  <2> HIDE DEF in
  <2>3. CASE wire' = wire ++ <<Y, in.v_dst>> /\ executed_instrs' = executed_instrs
             /\ retired' = retired /\ thrown' = "CheckerMismatch" /\ instrs_to_run' = instrs_to_run
    <3>1. /\ Later(wire, wire') /\ wire'[h] = wire[h] /\ Adds(wire, wire', W)
          /\ \A p \in Ports : p \notin W => wire'[p] = wire[p]
      BY <1>4, <2>3
    <3> QED
      BY <2>2, <2>3, <3>1
  <2>4. ASSUME NEW trap \in IF in.trap = "SYSCALL" THEN kernel_results ELSE {in.trap},
               wire' = redirects(wire ++ <<Y, in.v_dst>> ++ <<h, halt_trap(trap)>>, in, trap)
        PROVE  /\ Later(wire, wire') /\ wire'[h] = sent(h, wire[h], halt_trap(trap))
               /\ OneRedirect => Adds(wire, wire', W)
               /\ \A p \in Ports : p \notin W => wire'[p] = wire[p]
    <3>1. (in.trap = "SYSCALL" => trap \in kernel_results) /\ (in.trap # "SYSCALL" => trap = in.trap)
      OBVIOUS
    <3> QED
      BY <1>5, <2>4, <3>1
  <2> QED
    BY <2>1, <2>2, <2>3, <2>4
<1> QED
  BY <1>3, <1>6 DEF WritebackClock

-----------------------------------------------------------------------------
(* The next cycle *)

\* What was written with latency 1 arrives, and alone if no other packet was
\* due with it.
LEMMA NextCycle ==
    ASSUME NEW s, OnWire(s), Ordered(s)
    PROVE  LET t == in_transit(s) IN
           /\ OnWire(t) /\ Ordered(t) /\ (Strict(s) => Strict(t)) /\ (s = <<>> => t = <<>>)
           /\ \A n \in Nat : Below(s, n + 1) => Below(t, n)
           /\ \A k \in 1..Len(t) : \E j \in 1..Len(s) :
                 s[j].left = t[k].left + 1 /\ s[j].data = t[k].data
           /\ Below(s, 2) => /\ Ready(t) <=> Arrives(s)
                             /\ t = <<>> <=> ~Arrives(s)
                             /\ Strict(s) /\ Arrives(s) => t[1].data = arriving(s)
<1>1. PICK D : s \in Seq(Packets(D))
  BY DEF OnWire
<1> DEFINE t == in_transit(s)
<1>2. /\ t \in Seq(Packets(D)) /\ \E n \in 0..Len(s) :
                 /\ \A k \in 1..n : s[k].left = 0
                 /\ \A k \in (n + 1)..Len(s) : s[k].left > 0
                 /\ Len(t) = Len(s) - n
                 /\ \A k \in 1..(Len(s) - n) :
                       /\ t[k].left = s[n + k].left - 1
                       /\ t[k].data = s[n + k].data
  BY <1>1, Ticked
<1>3. /\ Len(s) \in Nat /\ (s = <<>> <=> Len(s) = 0) /\ Len(t) \in Nat /\ (t = <<>> <=> Len(t) = 0)
      /\ \A k \in 1..Len(s) : s[k].left \in Nat
      /\ \A k \in 1..Len(t) : t[k].left \in Nat
  BY <1>1, <1>2, PacketsOf
<1>4. OnWire(t)
  BY <1>2 DEF OnWire
<1> HIDE DEF t
<1>5. PICK n \in 0..Len(s) :
                 /\ \A k \in 1..n : s[k].left = 0
                 /\ \A k \in (n + 1)..Len(s) : s[k].left > 0
                 /\ Len(t) = Len(s) - n
                 /\ \A k \in 1..(Len(s) - n) :
                       /\ t[k].left = s[n + k].left - 1
                       /\ t[k].data = s[n + k].data
  BY <1>2
<1>6. ASSUME NEW k \in 1..Len(t)
      PROVE  /\ n + k \in 1..Len(s) /\ s[n + k].left = t[k].left + 1 /\ s[n + k].data = t[k].data
  <2>1. n + k \in 1..Len(s) /\ k \in 1..(Len(s) - n)
    BY <1>3, <1>5
  <2>2. t[k].left = s[n + k].left - 1 /\ t[k].data = s[n + k].data /\ s[n + k].left \in Nat
    BY <1>3, <1>5, <2>1
  <2> QED
    BY <2>1, <2>2
<1>7. \A k \in 1..Len(t) : \E j \in 1..Len(s) : s[j].left = t[k].left + 1 /\ s[j].data = t[k].data
  BY <1>6
<1>8. Ordered(t)
  <2> SUFFICES ASSUME NEW j \in 1..Len(t), NEW k \in 1..Len(t), j < k
               PROVE  t[j].left <= t[k].left
    BY DEF Ordered
  <2>1. s[n + j].left <= s[n + k].left
    <3>1. n \in Nat /\ j \in Nat /\ k \in Nat
      BY <1>3, <1>5
    <3>2. n + j \in 1..Len(s) /\ n + k \in 1..Len(s) /\ n + j < n + k
      BY <1>6, <3>1
    <3>3. \A x, y \in 1..Len(s) : x < y => s[x].left <= s[y].left
      BY DEF Ordered
    <3> QED
      BY <3>2, <3>3
  <2>2. s[n + j].left = t[j].left + 1 /\ s[n + k].left = t[k].left + 1
    BY <1>6
  <2>3. t[j].left \in Nat /\ t[k].left \in Nat
    BY <1>3
  <2>4. t[j].left + 1 <= t[k].left + 1
    BY <2>1, <2>2
  <2> QED
    BY <2>3, <2>4
<1>9. ASSUME Strict(s) PROVE Strict(t)
  <2> SUFFICES ASSUME NEW j \in 1..Len(t), NEW k \in 1..Len(t), j < k
               PROVE  t[j].left < t[k].left
    BY DEF Strict
  <2>1. s[n + j].left < s[n + k].left
    <3>1. n \in Nat /\ j \in Nat /\ k \in Nat
      BY <1>3, <1>5
    <3>2. n + j \in 1..Len(s) /\ n + k \in 1..Len(s) /\ n + j < n + k
      BY <1>6, <3>1
    <3>3. \A x, y \in 1..Len(s) : x < y => s[x].left < s[y].left
      BY <1>9 DEF Strict
    <3> QED
      BY <3>2, <3>3
  <2>2. s[n + j].left = t[j].left + 1 /\ s[n + k].left = t[k].left + 1
    BY <1>6
  <2>3. t[j].left \in Nat /\ t[k].left \in Nat
    BY <1>3
  <2>4. t[j].left + 1 < t[k].left + 1
    BY <2>1, <2>2
  <2> QED
    BY <2>3, <2>4
<1>10. s = <<>> => t = <<>>
  BY <1>3, <1>5
<1>11. ASSUME NEW m \in Nat, Below(s, m + 1) PROVE Below(t, m)
  <2> SUFFICES ASSUME NEW k \in 1..Len(t) PROVE t[k].left < m
    BY DEF Below
  <2>1. s[n + k].left < m + 1
    BY <1>6, <1>11 DEF Below
  <2> QED
    BY <1>3, <1>6, <2>1
<1>12. ASSUME Below(s, 2)
       PROVE  /\ Ready(t) <=> Arrives(s)
              /\ t = <<>> <=> ~Arrives(s)
              /\ Strict(s) /\ Arrives(s) => t[1].data = arriving(s)
  <2>1. CASE Len(s) = n
    <3>1. t = <<>> /\ ~Ready(t)
      BY <1>3, <1>5, <2>1 DEF Ready
    <3>2. ~Arrives(s)
      BY <1>3, <1>5, <2>1 DEF Arrives
    <3> QED
      BY <3>1, <3>2
  <2>2. CASE n < Len(s)
    <3>1. t # <<>> /\ 1 \in 1..Len(t) /\ s # <<>> /\ Len(s) \in (n + 1)..Len(s) /\ Len(s) \in 1..Len(s)
      BY <1>3, <1>5, <2>2
    <3>2. s[Len(s)].left > 0 /\ s[Len(s)].left < 2 /\ s[Len(s)].left \in Nat
      BY <1>3, <1>5, <1>12, <3>1 DEF Below
    <3>3. Arrives(s)
      BY <3>1, <3>2 DEF Arrives
    <3>4. s[n + 1].left = t[1].left + 1 /\ n + 1 \in 1..Len(s) /\ t[1].left \in Nat
          /\ s[n + 1].data = t[1].data
      BY <1>3, <1>6, <3>1
    <3>5. s[n + 1].left < 2
      BY <1>12, <3>4 DEF Below
    <3>6. t[1].left = 0 /\ s[n + 1].left = 1
      BY <3>4, <3>5
    <3>7. Strict(s) => n + 1 = Len(s)
      BY <1>3, <3>1, <3>2, <3>3, <3>4, <3>6 DEF Strict, Arrives
    <3> QED
      BY <3>1, <3>3, <3>4, <3>6, <3>7 DEF Ready, arriving
  <2> QED
    BY <1>3, <2>1, <2>2
<1> QED
  BY <1>4, <1>7, <1>8, <1>9, <1>10, <1>11, <1>12 DEF t

-----------------------------------------------------------------------------
(* The wires in the course of a cycle *)

Phases == {"fetch", "decode", "execute", "mem", "branch", "writeback", "core"}

\* Nothing has been written to these ports in this cycle.
Unwritten(w, Q) == \A p \in Q : Below(w[p], latency(p))

\* Packets stay in order, a port is written only by its stage, and only once
\* in a cycle; writeback is left for later.
Wires ==
    /\ IsWire(wire)
    /\ \A p \in Ports : PortOK(p, wire[p])
    /\ \A p \in Ports : p \notin writeback_ports => Strict(wire[p])
    /\ phase \in Phases
    /\ phase = "fetch" => Unwritten(wire, fetch_ports)
    /\ phase \in {"fetch", "decode"} => Unwritten(wire, decode_ports)
    /\ phase \in {"fetch", "decode", "execute"} => Unwritten(wire, execute_ports)
    /\ phase \in {"fetch", "decode", "execute", "mem"} => Unwritten(wire, mem_ports)
    /\ phase \in {"fetch", "decode", "execute", "mem", "branch"} => Unwritten(wire, branch_ports)

LEMMA PortGroups ==
    /\ fetch_ports \subseteq Ports /\ decode_ports \subseteq Ports /\ execute_ports \subseteq Ports
    /\ mem_ports \subseteq Ports /\ branch_ports \subseteq Ports /\ writeback_ports \subseteq Ports
    /\ \A p \in Ports :
          /\ p \in fetch_ports => p \notin decode_ports /\ p \notin execute_ports /\ p \notin mem_ports
                                  /\ p \notin branch_ports /\ p \notin writeback_ports
          /\ p \in decode_ports => p \notin execute_ports /\ p \notin mem_ports
                                   /\ p \notin branch_ports /\ p \notin writeback_ports
          /\ p \in execute_ports => p \notin mem_ports /\ p \notin branch_ports
                                    /\ p \notin writeback_ports
          /\ p \in mem_ports => p \notin branch_ports /\ p \notin writeback_ports
          /\ p \in branch_ports => p \notin writeback_ports
BY DEF Ports, fetch_ports, decode_ports, execute_ports, mem_ports, branch_ports, writeback_ports

\* A stage that writes its ports at most once.
LEMMA StageWires ==
    ASSUME IsWire(wire), \A p \in Ports : PortOK(p, wire[p]),
           \A p \in Ports : p \notin writeback_ports => Strict(wire[p]),
           NEW Q \in SUBSET Ports, Adds(wire, wire', Q), Unwritten(wire, Q)
    PROVE  /\ IsWire(wire') /\ Later(wire, wire')
           /\ \A p \in Ports : PortOK(p, wire'[p])
           /\ \A p \in Ports : p \notin writeback_ports => Strict(wire'[p])
           /\ \A p \in Ports : p \notin Q => wire'[p] = wire[p]
<1>1. IsWire(wire') /\ Later(wire, wire')
  BY AddsLater DEF Adds
<1>2. \A p \in Ports : PortOK(p, wire'[p])
  BY <1>1 DEF Later
<1>3. \A p \in Ports : p \notin Q => wire'[p] = wire[p]
  BY DEF Adds
<1>4. ASSUME NEW p \in Ports, p \notin writeback_ports PROVE Strict(wire'[p])
  <2>1. CASE wire'[p] = wire[p]
    BY <1>4, <2>1
  <2>2. CASE p \in Q /\ Sends(p, wire[p], wire'[p])
    <3>1. PICK d : Fits(p, d) /\ wire'[p] = sent(p, wire[p], d)
      BY <2>2 DEF Sends
    <3>2. OnWire(wire[p]) /\ Strict(wire[p]) /\ Below(wire[p], latency(p))
      BY <1>4, <2>2, OnPort DEF Unwritten
    <3> QED
      BY <3>1, <3>2, Sent
  <2> QED
    BY <2>1, <2>2 DEF Adds
<1> QED
  BY <1>1, <1>2, <1>3, <1>4

\* Ports that no stage has written in a cycle are left alone by the others.
LEMMA StillUnwritten ==
    ASSUME NEW w, NEW v, NEW Q, \A p \in Ports : p \notin Q => v[p] = w[p],
           NEW R \in SUBSET Ports, \A p \in R : p \notin Q, Unwritten(w, R)
    PROVE  Unwritten(v, R)
BY DEF Unwritten

\* What can be read does not change before the next cycle.
LEMMA SameReads ==
    ASSUME Later(wire, wire'), NEW p \in Ports
    PROVE  (is_ready(p)' <=> is_ready(p)) /\ (is_ready(p) => read(p)' = read(p))
<1>1. /\ Ready(wire'[p]) <=> Ready(wire[p])
      /\ Ready(wire[p]) => wire'[p][1] = wire[p][1]
  BY DEF Later
<1>2. is_ready(p)' <=> Ready(wire'[p])
  BY DEF is_ready, Ready
<1>3. is_ready(p) <=> Ready(wire[p])
  BY DEF is_ready, Ready
<1>4. read(p)' = wire'[p][1].data /\ read(p) = wire[p][1].data
  BY DEF read
<1> QED
  BY <1>1, <1>2, <1>3, <1>4

LEMMA NotArriving ==
    ASSUME NEW s, OnWire(s), Below(s, 1)
    PROVE  ~Arrives(s)
<1>1. PICK D : s \in Seq(Packets(D))
  BY DEF OnWire
<1>2. s # <<>> => Len(s) \in 1..Len(s)
  BY <1>1
<1> QED
  BY <1>2 DEF Below, Arrives

-----------------------------------------------------------------------------
(* The time table of the pipeline *)

\* An instruction is in the memory or in the branch stage, or in execute.
busy == is_ready("EXECUTE_2_MEMORY") \/ is_ready("EXECUTE_2_BRANCH")
issued == is_ready("DECODE_2_EXECUTE")
issued_latency == get_instruction_latency(read("DECODE_2_EXECUTE").code)
long_alu == wire["EXECUTE_2_EXECUTE_LONG_LATENCY"]
\* The instruction k in the long ALU is not killed by a flush.
lives(k) == flush_expiration_latency <= long_alu[k].left + 1

\* At most one instruction is in each of these places, and the parts of
\* the pipeline that must act together hear the same.
Exclusive ==
    /\ ~(is_ready("EXECUTE_2_MEMORY") /\ is_ready("EXECUTE_2_BRANCH"))
    /\ ~(is_ready("BRANCH_2_WRITEBACK") /\ is_ready("MEMORY_2_WRITEBACK"))
    /\ ~(is_ready("BRANCH_2_WRITEBACK") /\ is_ready("EXECUTE_2_WRITEBACK"))
    /\ ~(is_ready("MEMORY_2_WRITEBACK") /\ is_ready("EXECUTE_2_WRITEBACK"))
    /\ is_ready("BRANCH_2_ALL_FLUSH") <=> is_ready("BRANCH_2_BYPASSING_UNIT_FLUSH_NOTIFY")
    /\ issued <=> is_ready("DECODE_2_BYPASSING_UNIT_NOTIFY")
    /\ issued => read("DECODE_2_BYPASSING_UNIT_NOTIFY") = read("DECODE_2_EXECUTE").code

\* operation_latency covers the way of every older instruction to writeback;
\* decode has not counted this cycle yet if m is 2.
Covered(m) ==
    /\ \A k \in 1..Len(long_alu) :
          lives(k) => long_alu[k].left + m <= board.operation_latency
    /\ busy => m <= board.operation_latency

\* The issued instruction does not catch up with an older one.
Behind ==
    /\ busy /\ issued => issued_latency > 1
    /\ \A k \in 1..Len(long_alu) :
          lives(k) => ~busy /\ (issued => long_alu[k].left + 1 < issued_latency)

Scheduled ==
    ~is_flush =>
        /\ phase \in {"fetch", "decode", "execute"} => Behind
        /\ phase \in {"fetch", "decode"} => Covered(2)
        /\ phase = "execute" => Covered(1) /\ (issued => board.operation_latency = issued_latency)

\* What decode has issued in this cycle.
Issued ==
    LET X == wire["DECODE_2_EXECUTE"]
        N == wire["DECODE_2_BYPASSING_UNIT_NOTIFY"]
    IN  phase \notin {"fetch", "decode"} =>
            /\ Arrives(X) <=> Arrives(N)
            /\ Arrives(X) => /\ arriving(X).code = arriving(N)
                             /\ board.operation_latency <= get_instruction_latency(arriving(X).code)

\* What execute has sent in this cycle.
Executed ==
    phase \in {"mem", "branch", "writeback", "core"} =>
        /\ ~(Arrives(wire["EXECUTE_2_MEMORY"]) /\ Arrives(wire["EXECUTE_2_BRANCH"]))
        /\ Arrives(wire["EXECUTE_2_MEMORY"]) \/ Arrives(wire["EXECUTE_2_BRANCH"])
             => 2 <= board.operation_latency
        /\ Arrives(wire["EXECUTE_2_WRITEBACK"]) => ~busy
        /\ \A k \in 1..Len(long_alu) :
              long_alu[k].left >= 1 /\ flush_expiration_latency <= long_alu[k].left =>
                 /\ ~Arrives(wire["EXECUTE_2_MEMORY"]) /\ ~Arrives(wire["EXECUTE_2_BRANCH"])
                 /\ long_alu[k].left + 1 <= board.operation_latency

\* What the memory and the branch stage have sent.
MemSends ==
    phase \in {"branch", "writeback", "core"} =>
        (Arrives(wire["MEMORY_2_WRITEBACK"]) => is_ready("EXECUTE_2_MEMORY"))
BranchSends ==
    phase \in {"writeback", "core"} =>
        /\ Arrives(wire["BRANCH_2_WRITEBACK"]) => is_ready("EXECUTE_2_BRANCH")
        /\ Arrives(wire["BRANCH_2_ALL_FLUSH"])
             <=> Arrives(wire["BRANCH_2_BYPASSING_UNIT_FLUSH_NOTIFY"])

Timing == /\ board.operation_latency \in Nat /\ flush_expiration_latency \in Nat
          /\ Exclusive /\ Scheduled /\ Issued /\ Executed /\ MemSends /\ BranchSends
Pipe == Wires /\ Timing

\* These ports are named below.
LEMMA NamedPorts ==
    /\ "DECODE_2_EXECUTE" \in decode_ports /\ "DECODE_2_BYPASSING_UNIT_NOTIFY" \in decode_ports
    /\ "EXECUTE_2_EXECUTE_LONG_LATENCY" \in execute_ports /\ "EXECUTE_2_MEMORY" \in execute_ports
    /\ "EXECUTE_2_BRANCH" \in execute_ports /\ "EXECUTE_2_WRITEBACK" \in execute_ports
    /\ "MEMORY_2_WRITEBACK" \in mem_ports
    /\ "BRANCH_2_WRITEBACK" \in branch_ports /\ "BRANCH_2_ALL_FLUSH" \in branch_ports
    /\ "BRANCH_2_BYPASSING_UNIT_FLUSH_NOTIFY" \in branch_ports
    /\ "WRITEBACK_2_ALL_FLUSH" \in writeback_ports /\ "WRITEBACK_2_CORE_HALT" \in writeback_ports
BY DEF decode_ports, execute_ports, mem_ports, branch_ports, writeback_ports

\* Within a cycle nothing changes about who reads what.
LEMMA SameCycle ==
    ASSUME Later(wire, wire')
    PROVE  /\ busy' <=> busy
           /\ issued' <=> issued
           /\ issued => issued_latency' = issued_latency
           /\ is_flush' <=> is_flush
           /\ is_ready("EXECUTE_2_MEMORY")' <=> is_ready("EXECUTE_2_MEMORY")
           /\ is_ready("EXECUTE_2_BRANCH")' <=> is_ready("EXECUTE_2_BRANCH")
           /\ Exclusive => Exclusive'
<1> DEFINE X == "DECODE_2_EXECUTE"
           N == "DECODE_2_BYPASSING_UNIT_NOTIFY"
           M == "EXECUTE_2_MEMORY"
           B == "EXECUTE_2_BRANCH"
           E == "EXECUTE_2_WRITEBACK"
           MW == "MEMORY_2_WRITEBACK"
           BW == "BRANCH_2_WRITEBACK"
           F == "BRANCH_2_ALL_FLUSH"
           G == "BRANCH_2_BYPASSING_UNIT_FLUSH_NOTIFY"
           V == "WRITEBACK_2_ALL_FLUSH"
<1>1. /\ X \in Ports /\ N \in Ports /\ M \in Ports /\ B \in Ports /\ E \in Ports
      /\ MW \in Ports /\ BW \in Ports /\ F \in Ports /\ G \in Ports /\ V \in Ports
  BY NamedPorts, PortGroups
<1>2. /\ (is_ready(X)' <=> is_ready(X)) /\ (is_ready(X) => read(X)' = read(X))
      /\ (is_ready(N)' <=> is_ready(N)) /\ (is_ready(N) => read(N)' = read(N))
  BY <1>1, SameReads
<1>3. /\ (is_ready(M)' <=> is_ready(M)) /\ (is_ready(B)' <=> is_ready(B))
      /\ (is_ready(E)' <=> is_ready(E)) /\ (is_ready(MW)' <=> is_ready(MW))
      /\ (is_ready(BW)' <=> is_ready(BW)) /\ (is_ready(F)' <=> is_ready(F))
      /\ (is_ready(G)' <=> is_ready(G)) /\ (is_ready(V)' <=> is_ready(V))
  BY <1>1, SameReads
<1>4. busy' <=> busy
  BY <1>3 DEF busy
<1>5. issued' <=> issued
  BY <1>2 DEF issued
<1>6. issued => issued_latency' = issued_latency
  BY <1>2 DEF issued, issued_latency
<1>7. is_flush' <=> is_flush
  BY <1>3 DEF is_flush
<1>8. ASSUME Exclusive PROVE Exclusive'
  BY <1>2, <1>3, <1>5, <1>8 DEF Exclusive, issued
<1> QED
  BY <1>3, <1>4, <1>5, <1>6, <1>7, <1>8

\* The wires after each stage.
LEMMA WiresAfter ==
    ASSUME Wires, NEW Q \in SUBSET Ports, NEW q \in Phases, phase' = q,
           \/ phase = "fetch" /\ q = "decode" /\ Q = fetch_ports
           \/ phase = "decode" /\ q = "execute" /\ Q = decode_ports
           \/ phase = "execute" /\ q = "mem" /\ Q = execute_ports
           \/ phase = "mem" /\ q = "branch" /\ Q = mem_ports
           \/ phase = "branch" /\ q = "writeback" /\ Q = branch_ports,
           Adds(wire, wire', Q)
    PROVE  /\ Wires' /\ Later(wire, wire')
           /\ \A p \in Ports : p \notin Q => wire'[p] = wire[p]
<1>1. Unwritten(wire, Q)
  BY DEF Wires
<1>2. /\ IsWire(wire') /\ Later(wire, wire')
      /\ \A p \in Ports : PortOK(p, wire'[p])
      /\ \A p \in Ports : p \notin writeback_ports => Strict(wire'[p])
      /\ \A p \in Ports : p \notin Q => wire'[p] = wire[p]
  <2>1. /\ IsWire(wire) /\ \A p \in Ports : PortOK(p, wire[p])
        /\ \A p \in Ports : p \notin writeback_ports => Strict(wire[p])
    BY DEF Wires
  <2> QED
    BY <1>1, <2>1, StageWires
<1>3. ASSUME NEW R \in {decode_ports, execute_ports, mem_ports, branch_ports},
             Unwritten(wire, R), \A p \in R : p \notin Q
      PROVE  Unwritten(wire', R)
  BY <1>2, <1>3, PortGroups, StillUnwritten
<1>4. CASE phase = "fetch" /\ q = "decode" /\ Q = fetch_ports
  <2>1. /\ Unwritten(wire', decode_ports) /\ Unwritten(wire', execute_ports)
        /\ Unwritten(wire', mem_ports) /\ Unwritten(wire', branch_ports)
    BY <1>3, <1>4, PortGroups DEF Wires
  <2> QED
    BY <1>2, <1>4, <2>1 DEF Wires
<1>5. CASE phase = "decode" /\ q = "execute" /\ Q = decode_ports
  <2>1. /\ Unwritten(wire', execute_ports)
        /\ Unwritten(wire', mem_ports) /\ Unwritten(wire', branch_ports)
    BY <1>3, <1>5, PortGroups DEF Wires
  <2> QED
    BY <1>2, <1>5, <2>1 DEF Wires
<1>6. CASE phase = "execute" /\ q = "mem" /\ Q = execute_ports
  <2>1. Unwritten(wire', mem_ports) /\ Unwritten(wire', branch_ports)
    BY <1>3, <1>6, PortGroups DEF Wires
  <2> QED
    BY <1>2, <1>6, <2>1 DEF Wires
<1>7. CASE phase = "mem" /\ q = "branch" /\ Q = mem_ports
  <2>1. Unwritten(wire', branch_ports)
    BY <1>3, <1>7, PortGroups DEF Wires
  <2> QED
    BY <1>2, <1>7, <2>1 DEF Wires
<1>8. CASE phase = "branch" /\ q = "writeback" /\ Q = branch_ports
  BY <1>2, <1>8 DEF Wires
<1> QED
  BY <1>4, <1>5, <1>6, <1>7, <1>8

\* A stage that does not write the ports of execute leaves the time table.
LEMMA ScheduleKept ==
    ASSUME Later(wire, wire'), board' = board,
           flush_expiration_latency' = flush_expiration_latency,
           wire'["EXECUTE_2_EXECUTE_LONG_LATENCY"] = wire["EXECUTE_2_EXECUTE_LONG_LATENCY"]
    PROVE  (Behind => Behind') /\ \A m \in Nat : Covered(m) => Covered(m)'
<1>1. /\ busy' <=> busy
      /\ issued' <=> issued
      /\ issued => issued_latency' = issued_latency
  BY SameCycle
<1>2. long_alu' = long_alu
  BY DEF long_alu
<1>3. ASSUME NEW k PROVE lives(k)' <=> lives(k)
  BY <1>2 DEF lives
<1>4. Behind => Behind'
  BY <1>1, <1>2, <1>3 DEF Behind
<1>5. ASSUME NEW m \in Nat PROVE Covered(m) => Covered(m)'
  BY <1>1, <1>2, <1>3 DEF Covered
<1> QED
  BY <1>4, <1>5

LEMMA PipeFetch ==
    ASSUME Pipe, fetch_clock
    PROVE  Pipe'
<1>1. phase = "fetch" /\ phase' = "decode" /\ FetchClock /\ board' = board
      /\ flush_expiration_latency' = flush_expiration_latency
  BY DEF fetch_clock, turn
<1>2. Adds(wire, wire', fetch_ports)
  BY <1>1, FetchWires DEF Pipe, Wires
<1>3. /\ Wires' /\ Later(wire, wire')
      /\ \A p \in Ports : p \notin fetch_ports => wire'[p] = wire[p]
  <2>1. fetch_ports \in SUBSET Ports /\ "decode" \in Phases
    BY PortGroups DEF Phases
  <2> QED
    BY <1>1, <1>2, <2>1, WiresAfter DEF Pipe
<1>4. wire'["EXECUTE_2_EXECUTE_LONG_LATENCY"] = wire["EXECUTE_2_EXECUTE_LONG_LATENCY"]
  BY <1>3, NamedPorts, PortGroups
<1>5. (is_flush' <=> is_flush) /\ Exclusive'
  BY <1>3, SameCycle DEF Pipe, Timing
<1>6. (Behind => Behind') /\ (Covered(2) => Covered(2)')
  BY <1>1, <1>3, <1>4, ScheduleKept
<1>7. Scheduled'
  BY <1>1, <1>5, <1>6 DEF Pipe, Timing, Scheduled
<1>8. Issued' /\ Executed' /\ MemSends' /\ BranchSends'
  BY <1>1 DEF Issued, Executed, MemSends, BranchSends
<1> QED
  BY <1>1, <1>3, <1>5, <1>7, <1>8 DEF Pipe, Timing

\* What the scoreboard counts as the way of the youngest instruction.
LEMMA TracedLatency ==
    ASSUME NEW b, NEW R, NEW n, b = [reg |-> R, operation_latency |-> n], NEW i
    PROVE  trace_new_instr(b, i).operation_latency = get_instruction_latency(i)
<1> DEFINE l == get_instruction_latency(i)
           b1 == [b EXCEPT !.operation_latency = l]
           b2 == trace_new_dst_register(b1, i, i.dst[1])
           b3 == trace_new_dst2_register(b2, i, i.dst[2])
<1>1. trace_new_instr(b, i) = b3
  BY DEF trace_new_instr
<1> HIDE DEF l
<1>2. b1 = [reg |-> R, operation_latency |-> l]
  OBVIOUS
<1> HIDE DEF b1
<1>3. \E R1 : b2 = [reg |-> R1, operation_latency |-> l]
  <2>1. CASE i.dst[1] = "zero"
    BY <1>2, <2>1 DEF trace_new_dst_register
  <2>2. CASE i.dst[1] # "zero"
    <3> DEFINE e == [current |-> first_execution_stage, ready |-> ready_stage(i),
                     next |-> next_stage(i), is_bypassible |-> ready_stage(i) = 0,
                     is_traced |-> TRUE]
    <3>1. b2 = [b1 EXCEPT !.reg[i.dst[1]] = e]
      BY <2>2 DEF trace_new_dst_register
    <3> HIDE DEF e, b2
    <3> QED
      BY <1>2, <3>1
  <2> QED
    BY <2>1, <2>2
<1>4. PICK R1 : b2 = [reg |-> R1, operation_latency |-> l]
  BY <1>3
<1> HIDE DEF b2
<1>5. \E R2 : b3 = [reg |-> R2, operation_latency |-> l]
  <2>1. CASE i.dst[2] = "zero"
    BY <1>4, <2>1 DEF trace_new_dst2_register
  <2>2. CASE i.dst[2] # "zero"
    <3> DEFINE e == [current |-> first_execution_stage, ready |-> IN_RF_STAGE,
                     next |-> next_stage(i), is_bypassible |-> b2.reg[i.dst[2]].is_bypassible,
                     is_traced |-> TRUE]
    <3>1. b3 = [b2 EXCEPT !.reg[i.dst[2]] = e]
      BY <2>2 DEF trace_new_dst2_register
    <3> HIDE DEF e, b3
    <3> QED
      BY <1>4, <3>1
  <2> QED
    BY <2>1, <2>2
<1> HIDE DEF b3
<1> QED
  BY <1>1, <1>5 DEF l

LEMMA CountedLatency ==
    LET n == board.operation_latency
        N == "DECODE_2_BYPASSING_UNIT_NOTIFY"
        m == board_now.operation_latency
    IN  /\ is_ready("BRANCH_2_BYPASSING_UNIT_FLUSH_NOTIFY") \/ has_trap => m = 0
        /\ ~(is_ready("BRANCH_2_BYPASSING_UNIT_FLUSH_NOTIFY") \/ has_trap) =>
              m = IF is_ready(N) THEN get_instruction_latency(read(N))
                  ELSE IF n = 0 THEN 0 ELSE n - 1
<1> DEFINE N == "DECODE_2_BYPASSING_UNIT_NOTIFY"
           i == read(N)
           R == [r \in Regs |-> updated(board.reg[r])]
           n == IF board.operation_latency = 0 THEN 0 ELSE board.operation_latency - 1
<1>1. update(board) = [reg |-> R, operation_latency |-> n]
  BY DEF update
<1>2. handle_flush(traced_board).operation_latency = 0
  BY DEF handle_flush, EmptyBoard
<1> HIDE DEF R, n
<1>3. trace_new_instr(update(board), i).operation_latency = get_instruction_latency(i)
  BY <1>1, TracedLatency
<1>4. update(board).operation_latency = n
  BY <1>1
<1>5. traced_board.operation_latency = IF is_ready(N) THEN get_instruction_latency(i) ELSE n
  BY <1>3, <1>4 DEF traced_board
<1> QED
  BY <1>2, <1>5 DEF board_now, n

LEMMA LatencyRange ==
    ASSUME NEW i
    PROVE  get_instruction_latency(i) \in Nat /\ get_instruction_latency(i) >= 1
BY LongAssumption DEF get_instruction_latency

LEMMA PipeDecode ==
    ASSUME Pipe, decode_clock
    PROVE  Pipe'
<1> DEFINE X == "DECODE_2_EXECUTE"
           N == "DECODE_2_BYPASSING_UNIT_NOTIFY"
           G == "BRANCH_2_BYPASSING_UNIT_FLUSH_NOTIFY"
           n == board.operation_latency
           m == board_now.operation_latency
<1>1. phase = "decode" /\ phase' = "execute" /\ DecodeClock
      /\ flush_expiration_latency' = flush_expiration_latency
  BY DEF decode_clock, turn
<1>2. board' = board_now
  BY <1>1 DEF DecodeClock, DecodeFlush, DecodeBubble, DecodeStall, DecodeIssue
<1>3. /\ Adds(wire, wire', decode_ports)
      /\ \/ wire'[X] = wire[X] /\ wire'[N] = wire[N]
         \/ /\ DecodeIssue
            /\ \E in : /\ in.code = read_instr.code
                       /\ wire'[X] = sent(X, wire[X], in)
                       /\ wire'[N] = sent(N, wire[N], in.code)
  <2>1. IsWire(wire) /\ \A p \in Ports : PortFits(p, wire[p])
    BY DEF Pipe, Wires, PortOK
  <2> QED
    BY <1>1, <2>1, DecodeWires
<1>4. /\ Wires' /\ Later(wire, wire')
      /\ \A p \in Ports : p \notin decode_ports => wire'[p] = wire[p]
  <2>1. decode_ports \in SUBSET Ports /\ "execute" \in Phases
    BY PortGroups DEF Phases
  <2> QED
    BY <1>1, <1>3, <2>1, WiresAfter DEF Pipe
<1>5. long_alu' = long_alu
  BY <1>4, NamedPorts, PortGroups DEF long_alu
<1>6. /\ (busy' <=> busy) /\ (issued' <=> issued) /\ (issued => issued_latency' = issued_latency)
      /\ (is_flush' <=> is_flush) /\ Exclusive'
  BY <1>4, SameCycle DEF Pipe, Timing
<1>7. n \in Nat /\ m \in Nat
      /\ (~is_flush => m = IF issued THEN issued_latency ELSE IF n = 0 THEN 0 ELSE n - 1)
  <2>1. n \in Nat /\ Exclusive
    BY DEF Pipe, Timing
  <2>2. is_flush <=> is_ready(G) \/ has_trap
    BY <2>1 DEF Exclusive, is_flush, has_trap
  <2>3. issued <=> is_ready(N)
    BY <2>1 DEF Exclusive
  <2>4. issued => get_instruction_latency(read(N)) = issued_latency
    BY <2>1 DEF Exclusive, issued_latency
  <2>5. issued_latency \in Nat
    BY LatencyRange DEF issued_latency
  <2> HIDE DEF n, m
  <2>6. /\ is_flush => m = 0
        /\ ~is_flush => m = IF is_ready(N) THEN get_instruction_latency(read(N))
                            ELSE IF n = 0 THEN 0 ELSE n - 1
    BY <2>2, CountedLatency DEF n, m
  <2> QED
    BY <2>1, <2>3, <2>4, <2>5, <2>6
<1>8. ~is_flush => Behind /\ Covered(2)
  BY <1>1 DEF Pipe, Timing, Scheduled
<1>9. Wires
  BY DEF Pipe
<1>10. \A k \in 1..Len(long_alu) : long_alu[k].left \in Nat
  <2>1. OnWire(long_alu)
    BY <1>9, OnPort, NamedPorts, PortGroups DEF Wires, long_alu
  <2> QED
    BY <2>1, PacketsOf DEF OnWire
<1>11. Scheduled'
  <2> SUFFICES ASSUME ~is_flush
               PROVE  Behind' /\ Covered(1)' /\ (issued => board'.operation_latency = issued_latency)
    BY <1>1, <1>6 DEF Scheduled
  <2>1. Behind /\ Covered(2)
    BY <1>8
  <2>2. \A k : lives(k)' <=> lives(k)
    BY <1>1, <1>5 DEF lives
  <2>3. Behind'
    BY <1>5, <1>6, <2>1, <2>2 DEF Behind
  <2>4. ASSUME NEW k \in 1..Len(long_alu), lives(k) PROVE long_alu[k].left + 1 <= m
    <3>1. long_alu[k].left \in Nat /\ long_alu[k].left + 2 <= n
          /\ (issued => long_alu[k].left + 1 < issued_latency)
      BY <1>10, <2>1, <2>4 DEF Behind, Covered
    <3>2. issued => m = issued_latency
      BY <1>7
    <3>3. ~issued => m = IF n = 0 THEN 0 ELSE n - 1
      BY <1>7
    <3>4. issued_latency \in Nat
      BY LatencyRange DEF issued_latency
    <3> HIDE DEF n, m
    <3> QED
      BY <1>7, <3>1, <3>2, <3>3, <3>4
  <2>5. ASSUME busy PROVE 1 <= m
    <3>1. 2 <= n /\ (issued => issued_latency > 1)
      BY <2>1, <2>5 DEF Behind, Covered
    <3>2. (issued => m = issued_latency) /\ (~issued => m = IF n = 0 THEN 0 ELSE n - 1)
      BY <1>7
    <3>4. issued_latency \in Nat
      BY LatencyRange DEF issued_latency
    <3> HIDE DEF n, m
    <3> QED
      BY <1>7, <3>1, <3>2, <3>4
  <2>6. board'.operation_latency = m
    BY <1>2
  <2>7. issued => m = issued_latency
    BY <1>7
  <2> HIDE DEF n, m
  <2>8. Covered(1)'
    BY <1>5, <1>6, <2>2, <2>4, <2>5, <2>6 DEF Covered
  <2> QED
    BY <2>3, <2>6, <2>7, <2>8
<1>12. Issued'
  <2>1. /\ OnWire(wire[X]) /\ Below(wire[X], 1) /\ OnWire(wire[N]) /\ Below(wire[N], 1)
        /\ X \in Ports /\ N \in Ports /\ latency(X) = 1 /\ latency(N) = 1
    <3>1. X \in decode_ports /\ N \in decode_ports /\ X \in Ports /\ N \in Ports
      BY NamedPorts, PortGroups
    <3>2. latency(X) = 1 /\ latency(N) = 1
      BY <3>1, Latencies
    <3>3. Unwritten(wire, decode_ports) /\ IsWire(wire)
      BY <1>1, <1>9 DEF Wires
    <3>4. Below(wire[X], 1) /\ Below(wire[N], 1)
      BY <3>1, <3>2, <3>3 DEF Unwritten
    <3> QED
      BY <3>1, <3>2, <3>3, <3>4, OnPort
  <2>2. CASE wire'[X] = wire[X] /\ wire'[N] = wire[N]
    <3>1. ~Arrives(wire'[X]) /\ ~Arrives(wire'[N])
      BY <2>1, <2>2, NotArriving
    <3> QED
      BY <3>1 DEF Issued
  <2>3. ASSUME DecodeIssue, NEW in, in.code = read_instr.code,
               wire'[X] = sent(X, wire[X], in), wire'[N] = sent(N, wire[N], in.code)
        PROVE  Issued'
    <3>1. Fits(N, in.code)
      BY DEF Fits, InstrPorts
    <3>2. Arrives(wire'[N]) /\ arriving(wire'[N]) = in.code
      BY <2>1, <2>3, <3>1, Sent
    <3>3. Arrives(wire'[X]) /\ arriving(wire'[X]) = in
      <4>1. PICK D : wire[X] \in Seq(Packets(D))
        BY <2>1 DEF OnWire
      <4>2. wire'[X] = Append(wire[X], [left |-> 1, data |-> in])
        BY <2>1, <2>3 DEF sent
      <4> QED
        BY <4>1, <4>2, WrittenPort DEF Arrives, arriving
    <3>4. ~is_stall(board_now, in.code)
      BY <2>3 DEF DecodeIssue
    <3>5. ~writeback_busy(board_now, in.code)
      BY <3>4 DEF is_stall
    <3>6. ~(get_instruction_latency(in.code) < m /\ 1 < m)
      BY <3>5 DEF writeback_busy
    <3>7. m <= get_instruction_latency(in.code)
      <4> DEFINE l == get_instruction_latency(in.code)
      <4>1. l \in Nat /\ l >= 1
        BY LatencyRange
      <4> HIDE DEF l, m
      <4> QED
        BY <1>7, <3>6, <4>1 DEF l
    <3>8. board'.operation_latency <= get_instruction_latency(in.code)
      BY <1>2, <3>7
    <3> QED
      BY <3>2, <3>3, <3>8 DEF Issued
  <2> QED
    BY <1>3, <2>2, <2>3
<1>13. Executed' /\ MemSends' /\ BranchSends'
  BY <1>1 DEF Executed, MemSends, BranchSends
<1>14. board'.operation_latency \in Nat /\ flush_expiration_latency' \in Nat
  BY <1>1, <1>2, <1>7 DEF Pipe, Timing
<1> QED
  BY <1>4, <1>6, <1>11, <1>12, <1>13, <1>14 DEF Pipe, Timing

LEMMA PipeExecute ==
    ASSUME Pipe, execute_clock
    PROVE  Pipe' /\ Adds(wire, wire', execute_ports)
<1> DEFINE A == "EXECUTE_2_EXECUTE_LONG_LATENCY"
           B == "EXECUTE_2_BRANCH"
           M == "EXECUTE_2_MEMORY"
           E == "EXECUTE_2_WRITEBACK"
           op == board.operation_latency
           f == flush_expiration_latency
<1>1. phase = "execute" /\ phase' = "mem" /\ ExecuteClock /\ board' = board
  BY DEF execute_clock, turn
<1>2. Wires /\ Exclusive /\ Scheduled /\ Issued /\ op \in Nat /\ f \in Nat
  BY DEF Pipe, Timing
<1>3. ~is_flush => Behind /\ Covered(1) /\ (issued => op = issued_latency)
  BY <1>1, <1>2 DEF Scheduled
<1>4. /\ A \in Ports /\ B \in Ports /\ M \in Ports /\ E \in Ports
      /\ A \in execute_ports /\ B \in execute_ports /\ M \in execute_ports /\ E \in execute_ports
  BY NamedPorts, PortGroups
<1>5. /\ latency(A) = long_alu_latency - 1 /\ latency(B) = 1 /\ latency(M) = 1 /\ latency(E) = 1
  BY <1>4, Latencies
<1>6. /\ Below(long_alu, long_alu_latency - 1) /\ Below(wire[B], 1) /\ Below(wire[M], 1)
      /\ Below(wire[E], 1)
      /\ OnWire(long_alu) /\ OnWire(wire[B]) /\ OnWire(wire[M]) /\ OnWire(wire[E])
  <2>1. Unwritten(wire, execute_ports) /\ IsWire(wire)
    BY <1>1, <1>2 DEF Wires
  <2> QED
    BY <1>4, <1>5, <2>1, OnPort DEF Unwritten, long_alu
<1>7. /\ Len(long_alu) \in Nat
      /\ \A k \in 1..Len(long_alu) : long_alu[k].left \in Nat /\ long_alu[k].left < long_alu_latency - 1
  BY <1>6, PacketsOf DEF OnWire, Below
<1>8. ASSUME completes PROVE 1 \in 1..Len(long_alu) /\ long_alu[1].left = 0 /\ lives(1)
  <2>1. long_alu # <<>> /\ long_alu[1].left = 0 /\ clocked_flush = 0
    BY <1>8 DEF completes, is_ready, long_alu
  <2>2. 1 \in 1..Len(long_alu)
    BY <1>6, <2>1 DEF OnWire
  <2>3. f <= 1
    BY <1>2, <2>1 DEF clocked_flush
  <2> QED
    BY <2>1, <2>2, <2>3 DEF lives
<1>9. ~is_flush /\ issued /\ issued_latency = 1 => ~completes
  BY <1>3, <1>7, <1>8 DEF Behind
<1>10. /\ Adds(wire, wire', execute_ports)
       /\ is_flush => wire' = wire /\ flush_expiration_latency' = saved_flush
       /\ ~is_flush => flush_expiration_latency' = clocked_flush
       /\ wire'[E] = wire[E] \/ completes \/ (issued /\ issued_latency = 1)
       /\ wire'[B] = wire[B] \/ (wire'[M] = wire[M] /\ issued /\ issued_latency = 2)
       /\ wire'[M] = wire[M] \/ (wire'[B] = wire[B] /\ issued /\ issued_latency = 2)
       /\ \/ wire'[A] = wire[A]
          \/ /\ issued /\ issued_latency = long_alu_latency
             /\ wire'[B] = wire[B] /\ wire'[M] = wire[M]
             /\ \E d : wire'[A] = sent(A, wire[A], d)
  <2>1. IsWire(wire) /\ \A p \in Ports : PortFits(p, wire[p])
    BY <1>2 DEF Wires, PortOK
  <2>2. ~is_flush /\ is_ready("DECODE_2_EXECUTE")
        /\ get_instruction_latency(read("DECODE_2_EXECUTE").code) = 1 => ~completes
    BY <1>9 DEF issued, issued_latency
  <2> QED
    BY <1>1, <2>1, <2>2, ExecuteWires DEF issued, issued_latency
<1>11. /\ Wires' /\ Later(wire, wire')
       /\ \A p \in Ports : p \notin execute_ports => wire'[p] = wire[p]
  <2>1. execute_ports \in SUBSET Ports /\ "mem" \in Phases
    BY PortGroups DEF Phases
  <2> QED
    BY <1>1, <1>2, <1>10, <2>1, WiresAfter
<1>12. (busy' <=> busy) /\ Exclusive'
  BY <1>2, <1>11, SameCycle
<1>13. ~Arrives(wire[B]) /\ ~Arrives(wire[M]) /\ ~Arrives(wire[E])
  BY <1>6, NotArriving
<1>14. issued_latency \in Nat /\ long_alu_latency \in Nat
  BY LatencyRange, LongAssumption DEF issued_latency
<1>15. ASSUME NEW k \in 1..Len(long_alu')
       PROVE  \/ k \in 1..Len(long_alu) /\ long_alu'[k] = long_alu[k]
              \/ /\ long_alu'[k].left = long_alu_latency - 1
                 /\ issued /\ issued_latency = long_alu_latency
                 /\ wire'[B] = wire[B] /\ wire'[M] = wire[M]
  <2>1. CASE wire'[A] = wire[A]
    BY <2>1 DEF long_alu
  <2>2. ASSUME NEW d, wire'[A] = sent(A, wire[A], d), issued, issued_latency = long_alu_latency,
               wire'[B] = wire[B], wire'[M] = wire[M]
        PROVE  \/ k \in 1..Len(long_alu) /\ long_alu'[k] = long_alu[k]
               \/ long_alu'[k].left = long_alu_latency - 1
    <3>1. Fits(A, d)
      BY DEF Fits, InstrPorts
    <3>2. /\ Len(long_alu') = Len(long_alu) + 1
          /\ \A j \in 1..Len(long_alu) : long_alu'[j] = long_alu[j]
          /\ long_alu'[Len(long_alu) + 1].left = latency(A)
      <4>1. OnWire(wire[A]) /\ A \in Ports
        BY <1>4, <1>6 DEF long_alu
      <4>2. wire'[A] = sent(A, wire[A], d)
        BY <2>2
      <4> HIDE DEF A
      <4> QED
        BY <3>1, <4>1, <4>2, Sent DEF long_alu, A
    <3>3. Len(long_alu) \in Nat /\ latency(A) = long_alu_latency - 1
      BY <1>5, <1>7
    <3>4. k \in 1..Len(long_alu) \/ k = Len(long_alu) + 1
      BY <3>2, <3>3
    <3> QED
      BY <3>2, <3>3, <3>4
  <2> QED
    BY <1>10, <2>1, <2>2
<1>16. Executed'
  <2>1. CASE is_flush
    <3>1. wire' = wire /\ flush_expiration_latency' = long_alu_latency - 1 /\ long_alu' = long_alu
      BY <1>10, <2>1 DEF saved_flush, long_alu
    <3>2. ~Arrives(wire'[B]) /\ ~Arrives(wire'[M]) /\ ~Arrives(wire'[E])
      BY <1>13, <3>1
    <3>3. \A k \in 1..Len(long_alu') : ~(flush_expiration_latency' <= long_alu'[k].left)
      BY <1>7, <1>14, <3>1
    <3> QED
      BY <3>2, <3>3 DEF Executed
  <2>2. CASE ~is_flush
    <3>1. Behind /\ Covered(1) /\ (issued => op = issued_latency)
      BY <1>3, <2>2
    <3>2. ~(Arrives(wire'[M]) /\ Arrives(wire'[B]))
      BY <1>10, <1>13
    <3>3. Arrives(wire'[M]) \/ Arrives(wire'[B]) => issued /\ issued_latency = 2
      BY <1>10, <1>13
    <3>4. Arrives(wire'[M]) \/ Arrives(wire'[B]) => 2 <= board'.operation_latency
      BY <1>1, <3>1, <3>3
    <3>5. Arrives(wire'[E]) => ~busy
      <4>1. completes => ~busy
        BY <1>8, <3>1 DEF Behind
      <4>2. issued /\ issued_latency = 1 => ~busy
        BY <3>1 DEF Behind
      <4> QED
        BY <1>10, <1>13, <4>1, <4>2
    <3>6. ASSUME NEW k \in 1..Len(long_alu'), long_alu'[k].left >= 1,
                 flush_expiration_latency' <= long_alu'[k].left
          PROVE  /\ ~Arrives(wire'[M]) /\ ~Arrives(wire'[B])
                 /\ long_alu'[k].left + 1 <= op
      <4>1. CASE k \in 1..Len(long_alu) /\ long_alu'[k] = long_alu[k]
        <5>1. long_alu[k].left \in Nat /\ long_alu[k].left >= 1
          BY <1>7, <3>6, <4>1
        <5>2. flush_expiration_latency' = clocked_flush
          BY <1>10, <2>2
        <5>3. lives(k)
          BY <1>2, <3>6, <4>1, <5>1, <5>2 DEF lives, clocked_flush
        <5>4. (issued => long_alu[k].left + 1 < issued_latency) /\ long_alu[k].left + 1 <= op
          BY <3>1, <4>1, <5>3 DEF Behind, Covered
        <5>5. ~(issued /\ issued_latency = 2)
          BY <5>1, <5>4
        <5> QED
          BY <3>3, <4>1, <5>4, <5>5
      <4>2. CASE /\ long_alu'[k].left = long_alu_latency - 1
                 /\ issued /\ issued_latency = long_alu_latency
                 /\ wire'[B] = wire[B] /\ wire'[M] = wire[M]
        BY <1>13, <1>14, <3>1, <4>2
      <4> QED
        BY <1>15, <4>1, <4>2
    <3>7. busy' <=> busy
      BY <1>12
    <3>8. op = board'.operation_latency
      BY <1>1
    <3> HIDE DEF op
    <3> QED
      BY <3>2, <3>4, <3>5, <3>6, <3>7, <3>8 DEF Executed
  <2> QED
    BY <2>1, <2>2
<1>17. Issued'
  <2>1. /\ wire'["DECODE_2_EXECUTE"] = wire["DECODE_2_EXECUTE"]
        /\ wire'["DECODE_2_BYPASSING_UNIT_NOTIFY"] = wire["DECODE_2_BYPASSING_UNIT_NOTIFY"]
    BY <1>11, NamedPorts, PortGroups
  <2> QED
    BY <1>1, <1>2, <2>1 DEF Issued
<1>18. Scheduled' /\ MemSends' /\ BranchSends'
  BY <1>1 DEF Scheduled, MemSends, BranchSends
<1>19. flush_expiration_latency' \in Nat
  BY <1>2, <1>10, LongAssumption DEF saved_flush, clocked_flush
<1> QED
  BY <1>1, <1>2, <1>10, <1>11, <1>12, <1>16, <1>17, <1>18, <1>19 DEF Pipe, Timing

\* The stages after execute leave what decode and execute have sent.
LEMMA SentKept ==
    ASSUME Later(wire, wire'), Issued, Executed, board' = board,
           flush_expiration_latency' = flush_expiration_latency,
           \A p \in Ports : p \in decode_ports \cup execute_ports => wire'[p] = wire[p],
           phase \in {"mem", "branch", "writeback", "core"},
           phase' \in {"mem", "branch", "writeback", "core"}
    PROVE  Issued' /\ Executed'
<1>1. /\ wire'["DECODE_2_EXECUTE"] = wire["DECODE_2_EXECUTE"]
      /\ wire'["DECODE_2_BYPASSING_UNIT_NOTIFY"] = wire["DECODE_2_BYPASSING_UNIT_NOTIFY"]
      /\ long_alu' = long_alu
      /\ wire'["EXECUTE_2_MEMORY"] = wire["EXECUTE_2_MEMORY"]
      /\ wire'["EXECUTE_2_BRANCH"] = wire["EXECUTE_2_BRANCH"]
      /\ wire'["EXECUTE_2_WRITEBACK"] = wire["EXECUTE_2_WRITEBACK"]
  BY NamedPorts, PortGroups DEF long_alu
<1>2. busy' <=> busy
  BY SameCycle
<1>3. Issued'
  BY <1>1 DEF Issued
<1>4. Executed'
  BY <1>1, <1>2 DEF Executed
<1> QED
  BY <1>3, <1>4

LEMMA PipeMem ==
    ASSUME Pipe, mem_clock
    PROVE  Pipe'
<1> DEFINE W == "MEMORY_2_WRITEBACK"
<1>1. phase = "mem" /\ phase' = "branch" /\ MemClock /\ board' = board
      /\ flush_expiration_latency' = flush_expiration_latency
  BY DEF mem_clock, turn
<1>2. Wires /\ Exclusive /\ Issued /\ Executed
  BY DEF Pipe, Timing
<1>3. Adds(wire, wire', mem_ports) /\ (wire'[W] = wire[W] \/ is_ready("EXECUTE_2_MEMORY"))
  BY <1>1, <1>2, MemWires DEF Wires
<1>4. /\ Wires' /\ Later(wire, wire')
      /\ \A p \in Ports : p \notin mem_ports => wire'[p] = wire[p]
  <2>1. mem_ports \in SUBSET Ports /\ "branch" \in Phases
    BY PortGroups DEF Phases
  <2> QED
    BY <1>1, <1>2, <1>3, <2>1, WiresAfter
<1>5. Issued' /\ Executed'
  <2>1. \A p \in Ports : p \in decode_ports \cup execute_ports => wire'[p] = wire[p]
    BY <1>4, PortGroups
  <2> QED
    BY <1>1, <1>2, <1>4, <2>1, SentKept
<1>6. Exclusive' /\ (is_ready("EXECUTE_2_MEMORY")' <=> is_ready("EXECUTE_2_MEMORY"))
  BY <1>2, <1>4, SameCycle
<1>7. ~Arrives(wire[W])
  <2>1. W \in mem_ports /\ W \in Ports
    BY NamedPorts, PortGroups
  <2>2. latency(W) = 1
    BY <2>1, Latencies
  <2>3. OnWire(wire[W]) /\ Below(wire[W], 1)
    BY <1>1, <1>2, <2>1, <2>2, OnPort DEF Wires, Unwritten
  <2> QED
    BY <2>3, NotArriving
<1>8. MemSends'
  BY <1>3, <1>6, <1>7 DEF MemSends
<1>9. Scheduled' /\ BranchSends'
  BY <1>1 DEF Scheduled, BranchSends
<1> QED
  BY <1>1, <1>4, <1>5, <1>6, <1>8, <1>9 DEF Pipe, Timing

LEMMA PipeBranch ==
    ASSUME Pipe, branch_clock
    PROVE  Pipe'
<1> DEFINE W == "BRANCH_2_WRITEBACK"
           F == "BRANCH_2_ALL_FLUSH"
           G == "BRANCH_2_BYPASSING_UNIT_FLUSH_NOTIFY"
           on == TRUE
<1>1. phase = "branch" /\ phase' = "writeback" /\ BranchClock /\ board' = board
      /\ flush_expiration_latency' = flush_expiration_latency
  BY DEF branch_clock, turn
<1>2. Wires /\ Exclusive /\ Issued /\ Executed /\ MemSends
  BY DEF Pipe, Timing
<1>3. /\ Adds(wire, wire', branch_ports) /\ (wire'[W] = wire[W] \/ is_ready("EXECUTE_2_BRANCH"))
      /\ \/ wire'[F] = wire[F] /\ wire'[G] = wire[G]
         \/ wire'[F] = sent(F, wire[F], on) /\ wire'[G] = sent(G, wire[G], on)
  BY <1>1, <1>2, BranchWires DEF Wires
<1>4. /\ Wires' /\ Later(wire, wire')
      /\ \A p \in Ports : p \notin branch_ports => wire'[p] = wire[p]
  <2>1. branch_ports \in SUBSET Ports /\ "writeback" \in Phases
    BY PortGroups DEF Phases
  <2> QED
    BY <1>1, <1>2, <1>3, <2>1, WiresAfter
<1>5. Issued' /\ Executed'
  <2>1. \A p \in Ports : p \in decode_ports \cup execute_ports => wire'[p] = wire[p]
    BY <1>4, PortGroups
  <2> QED
    BY <1>1, <1>2, <1>4, <2>1, SentKept
<1>6. /\ Exclusive' /\ (is_ready("EXECUTE_2_MEMORY")' <=> is_ready("EXECUTE_2_MEMORY"))
      /\ is_ready("EXECUTE_2_BRANCH")' <=> is_ready("EXECUTE_2_BRANCH")
  BY <1>2, <1>4, SameCycle
<1>7. MemSends'
  <2>1. wire'["MEMORY_2_WRITEBACK"] = wire["MEMORY_2_WRITEBACK"]
    BY <1>4, NamedPorts, PortGroups
  <2> QED
    BY <1>1, <1>2, <1>6, <2>1 DEF MemSends
<1>8. /\ W \in Ports /\ F \in Ports /\ G \in Ports
      /\ latency(W) = 1 /\ latency(F) = 1 /\ latency(G) = 1
      /\ OnWire(wire[W]) /\ OnWire(wire[F]) /\ OnWire(wire[G])
      /\ ~Arrives(wire[W]) /\ ~Arrives(wire[F]) /\ ~Arrives(wire[G])
  <2>1. /\ W \in Ports /\ F \in Ports /\ G \in Ports
        /\ W \in branch_ports /\ F \in branch_ports /\ G \in branch_ports
    BY NamedPorts, PortGroups
  <2>2. latency(W) = 1 /\ latency(F) = 1 /\ latency(G) = 1
    BY <2>1, Latencies
  <2>3. /\ OnWire(wire[W]) /\ OnWire(wire[F]) /\ OnWire(wire[G])
        /\ Below(wire[W], 1) /\ Below(wire[F], 1) /\ Below(wire[G], 1)
    BY <1>1, <1>2, <2>1, <2>2, OnPort DEF Wires, Unwritten
  <2> QED
    BY <2>1, <2>2, <2>3, NotArriving
<1>9. Arrives(wire'[F]) <=> Arrives(wire'[G])
  <2>1. CASE wire'[F] = wire[F] /\ wire'[G] = wire[G]
    BY <1>8, <2>1
  <2>2. CASE wire'[F] = sent(F, wire[F], on) /\ wire'[G] = sent(G, wire[G], on)
    <3>1. Fits(F, on) /\ Fits(G, on)
      BY DEF Fits, InstrPorts
    <3> HIDE DEF on
    <3>2. Arrives(wire'[F]) /\ Arrives(wire'[G])
      BY <1>8, <2>2, <3>1, Sent
    <3> QED
      BY <3>2
  <2> QED
    BY <1>3, <2>1, <2>2
<1>10. BranchSends'
  BY <1>3, <1>6, <1>8, <1>9 DEF BranchSends
<1>11. Scheduled'
  BY <1>1 DEF Scheduled
<1> QED
  BY <1>1, <1>4, <1>5, <1>6, <1>7, <1>10, <1>11 DEF Pipe, Timing

LEMMA PipeWriteback ==
    ASSUME Pipe, writeback_clock
    PROVE  Pipe'
<1>1. /\ phase = "writeback" /\ phase' \in {"writeback", "core"} /\ WritebackClock
      /\ board' = board /\ flush_expiration_latency' = flush_expiration_latency
  BY DEF writeback_clock, turn
<1>2. Wires /\ Exclusive /\ Issued /\ Executed /\ MemSends /\ BranchSends
  BY DEF Pipe, Timing
<1>3. Later(wire, wire') /\ \A p \in Ports : p \notin writeback_ports => wire'[p] = wire[p]
  BY <1>1, <1>2, WritebackWires DEF Wires
<1>4. Wires'
  <2>1. IsWire(wire') /\ \A p \in Ports : PortOK(p, wire'[p])
    BY <1>2, <1>3 DEF Later, Wires
  <2>2. \A p \in Ports : p \notin writeback_ports => Strict(wire'[p])
    BY <1>2, <1>3 DEF Wires
  <2> QED
    BY <1>1, <2>1, <2>2 DEF Wires, Phases
<1>5. Issued' /\ Executed'
  <2>1. \A p \in Ports : p \in decode_ports \cup execute_ports => wire'[p] = wire[p]
    BY <1>3, PortGroups
  <2> QED
    BY <1>1, <1>2, <1>3, <2>1, SentKept
<1>6. /\ Exclusive' /\ (is_ready("EXECUTE_2_MEMORY")' <=> is_ready("EXECUTE_2_MEMORY"))
      /\ is_ready("EXECUTE_2_BRANCH")' <=> is_ready("EXECUTE_2_BRANCH")
  BY <1>2, <1>3, SameCycle
<1>7. /\ wire'["MEMORY_2_WRITEBACK"] = wire["MEMORY_2_WRITEBACK"]
      /\ wire'["BRANCH_2_WRITEBACK"] = wire["BRANCH_2_WRITEBACK"]
      /\ wire'["BRANCH_2_ALL_FLUSH"] = wire["BRANCH_2_ALL_FLUSH"]
      /\ wire'["BRANCH_2_BYPASSING_UNIT_FLUSH_NOTIFY"] = wire["BRANCH_2_BYPASSING_UNIT_FLUSH_NOTIFY"]
  BY <1>3, NamedPorts, PortGroups
<1>8. MemSends' /\ BranchSends'
  BY <1>1, <1>2, <1>6, <1>7 DEF MemSends, BranchSends
<1>9. Scheduled'
  BY <1>1 DEF Scheduled
<1> QED
  BY <1>1, <1>4, <1>5, <1>6, <1>8, <1>9 DEF Pipe, Timing

\* The wires at the beginning of a cycle.
LEMMA TickWires ==
    ASSUME Wires, tick
    PROVE  /\ IsWire(wire')
           /\ \A p \in Ports : wire'[p] = in_transit(wire[p])
           /\ \A p \in Ports : PortOK(p, wire'[p]) /\ Below(wire'[p], latency(p))
           /\ \A p \in Ports : Strict(wire[p]) => Strict(wire'[p])
<1>1. IsWire(wire) /\ \A p \in Ports : PortOK(p, wire[p])
  BY DEF Wires
<1>2. PICK D : wire \in [Ports -> Seq(Packets(D))]
  BY <1>1 DEF IsWire
<1>3. wire' = [p \in Ports |-> in_transit(wire[p])]
  BY DEF tick
<1>4. ASSUME NEW p \in Ports
      PROVE  /\ in_transit(wire[p]) \in Seq(Packets(D))
             /\ PortOK(p, in_transit(wire[p])) /\ Below(in_transit(wire[p]), latency(p))
             /\ Strict(wire[p]) => Strict(in_transit(wire[p]))
  <2> DEFINE s == wire[p]
             t == in_transit(s)
  <2>1. s \in Seq(Packets(D)) /\ Ordered(s) /\ Below(s, latency(p) + 1) /\ PortFits(p, s)
    BY <1>1, <1>2 DEF PortOK
  <2> HIDE DEF s
  <2>2. t \in Seq(Packets(D))
    BY <2>1, Ticked
  <2>3. OnWire(s)
    BY <2>1 DEF OnWire
  <2>4. /\ Ordered(t) /\ (Strict(s) => Strict(t))
        /\ \A n \in Nat : Below(s, n + 1) => Below(t, n)
        /\ \A k \in 1..Len(t) : \E j \in 1..Len(s) :
              s[j].left = t[k].left + 1 /\ s[j].data = t[k].data
    BY <2>1, <2>3, NextCycle
  <2> HIDE DEF t
  <2>5. latency(p) \in Nat
    BY Latencies
  <2>6. Below(t, latency(p))
    BY <2>1, <2>4, <2>5
  <2>7. Below(t, latency(p) + 1)
    <3>1. \A k \in 1..Len(t) : t[k].left \in Nat
      BY <2>2, PacketsOf
    <3> QED
      BY <2>5, <2>6, <3>1 DEF Below
  <2>8. PortFits(p, t)
    BY <2>1, <2>4 DEF PortFits
  <2> QED
    BY <2>2, <2>4, <2>6, <2>7, <2>8 DEF PortOK, s, t
<1>5. IsWire(wire')
  BY <1>3, <1>4 DEF IsWire
<1>6. \A p \in Ports : wire'[p] = in_transit(wire[p])
  BY <1>3
<1> QED
  BY <1>4, <1>5, <1>6

LEMMA TickReads ==
    ASSUME Wires, tick, NEW p \in Ports, p # "EXECUTE_2_EXECUTE_LONG_LATENCY",
           p # "LONG_LATENCY_PC_HOLDER"
    PROVE  /\ is_ready(p)' <=> Arrives(wire[p])
           /\ Strict(wire[p]) /\ Arrives(wire[p]) => read(p)' = arriving(wire[p])
<1> DEFINE s == wire[p]
           t == in_transit(s)
<1>1. latency(p) = 1
  BY Latencies
<1>2. OnWire(s) /\ Ordered(s) /\ Below(s, 2)
  BY <1>1, OnPort DEF Wires, PortOK
<1>3. /\ Ready(t) <=> Arrives(s)
      /\ Strict(s) /\ Arrives(s) => t[1].data = arriving(s)
  BY <1>2, NextCycle
<1>4. wire'[p] = t
  BY TickWires
<1>5. is_ready(p)' <=> Ready(t)
  BY <1>4 DEF is_ready, Ready
<1>6. read(p)' = t[1].data
  BY <1>4 DEF read
<1> QED
  BY <1>3, <1>5, <1>6

LEMMA PipeCore ==
    ASSUME Pipe, core_clock
    PROVE  Pipe'
<1> DEFINE X == "DECODE_2_EXECUTE"
           N == "DECODE_2_BYPASSING_UNIT_NOTIFY"
           A == "EXECUTE_2_EXECUTE_LONG_LATENCY"
           B == "EXECUTE_2_BRANCH"
           M == "EXECUTE_2_MEMORY"
           E == "EXECUTE_2_WRITEBACK"
           MW == "MEMORY_2_WRITEBACK"
           BW == "BRANCH_2_WRITEBACK"
           F == "BRANCH_2_ALL_FLUSH"
           G == "BRANCH_2_BYPASSING_UNIT_FLUSH_NOTIFY"
           op == board.operation_latency
           f == flush_expiration_latency
<1>1. /\ phase = "core" /\ phase' = "fetch" /\ tick
      /\ board' = board /\ flush_expiration_latency' = flush_expiration_latency
  BY DEF core_clock
<1>2. /\ Wires /\ Exclusive /\ Issued /\ Executed /\ MemSends /\ BranchSends
      /\ op \in Nat /\ f \in Nat
  BY DEF Pipe, Timing
<1>3. Wires'
  <2>1. /\ IsWire(wire') /\ \A p \in Ports : PortOK(p, wire'[p]) /\ Below(wire'[p], latency(p))
        /\ \A p \in Ports : Strict(wire[p]) => Strict(wire'[p])
    BY <1>1, <1>2, TickWires
  <2>2. \A p \in Ports : p \notin writeback_ports => Strict(wire'[p])
    BY <1>2, <2>1 DEF Wires
  <2>3. /\ Unwritten(wire', fetch_ports) /\ Unwritten(wire', decode_ports)
        /\ Unwritten(wire', execute_ports) /\ Unwritten(wire', mem_ports)
        /\ Unwritten(wire', branch_ports)
    BY <2>1, PortGroups DEF Unwritten
  <2> QED
    BY <1>1, <2>1, <2>2, <2>3 DEF Wires, Phases
<1>4. /\ X \in Ports /\ N \in Ports /\ A \in Ports /\ B \in Ports /\ M \in Ports /\ E \in Ports
      /\ MW \in Ports /\ BW \in Ports /\ F \in Ports /\ G \in Ports
  BY NamedPorts, PortGroups
<1>5. /\ (is_ready(M)' <=> Arrives(wire[M])) /\ (is_ready(B)' <=> Arrives(wire[B]))
      /\ (is_ready(E)' <=> Arrives(wire[E])) /\ (is_ready(MW)' <=> Arrives(wire[MW]))
      /\ (is_ready(BW)' <=> Arrives(wire[BW])) /\ (is_ready(F)' <=> Arrives(wire[F]))
      /\ (is_ready(G)' <=> Arrives(wire[G]))
  BY <1>1, <1>2, <1>4, TickReads
<1>6. /\ (is_ready(X)' <=> Arrives(wire[X])) /\ (is_ready(N)' <=> Arrives(wire[N]))
      /\ Arrives(wire[X]) => read(X)' = arriving(wire[X])
      /\ Arrives(wire[N]) => read(N)' = arriving(wire[N])
  <2>1. Strict(wire[X]) /\ Strict(wire[N])
    BY <1>2, <1>4, NamedPorts, PortGroups DEF Wires
  <2> QED
    BY <1>1, <1>2, <1>4, <2>1, TickReads
<1>7. /\ issued' <=> Arrives(wire[X])
      /\ busy' <=> Arrives(wire[M]) \/ Arrives(wire[B])
  BY <1>5, <1>6 DEF issued, busy
<1>8. ~(Arrives(wire[M]) /\ Arrives(wire[B])) /\ (Arrives(wire[E]) => ~busy)
      /\ (Arrives(wire[M]) \/ Arrives(wire[B]) => 2 <= op)
  BY <1>1, <1>2 DEF Executed
<1>9. (Arrives(wire[MW]) => is_ready(M)) /\ (Arrives(wire[BW]) => is_ready(B))
      /\ (Arrives(wire[F]) <=> Arrives(wire[G]))
  BY <1>1, <1>2 DEF MemSends, BranchSends
<1>10. /\ Arrives(wire[X]) <=> Arrives(wire[N])
       /\ Arrives(wire[X]) => /\ arriving(wire[X]).code = arriving(wire[N])
                              /\ op <= get_instruction_latency(arriving(wire[X]).code)
  BY <1>1, <1>2 DEF Issued
<1>11. Exclusive'
  <2>1. ~(is_ready(M) /\ is_ready(B))
    BY <1>2 DEF Exclusive
  <2>2. /\ ~(Arrives(wire[BW]) /\ Arrives(wire[MW])) /\ ~(Arrives(wire[BW]) /\ Arrives(wire[E]))
        /\ ~(Arrives(wire[MW]) /\ Arrives(wire[E]))
    BY <1>8, <1>9, <2>1 DEF busy
  <2>3. /\ ~(is_ready(M)' /\ is_ready(B)')
        /\ ~(is_ready(BW)' /\ is_ready(MW)') /\ ~(is_ready(BW)' /\ is_ready(E)')
        /\ ~(is_ready(MW)' /\ is_ready(E)') /\ (is_ready(F)' <=> is_ready(G)')
    BY <1>5, <1>8, <1>9, <2>2
  <2>4. (issued' <=> is_ready(N)') /\ (issued' => read(N)' = read(X)'.code)
    BY <1>6, <1>7, <1>10
  <2> QED
    BY <2>3, <2>4 DEF Exclusive
<1>12. issued' => op <= issued_latency'
  BY <1>6, <1>7, <1>10 DEF issued_latency
<1>13. issued_latency' \in Nat
  BY LatencyRange DEF issued_latency
<1>14. ASSUME NEW k \in 1..Len(long_alu'), lives(k)'
       PROVE  /\ ~busy' /\ long_alu'[k].left \in Nat /\ long_alu'[k].left + 2 <= op
  <2>1. long_alu' = in_transit(long_alu)
    BY <1>1, <1>2, <1>4, TickWires DEF long_alu
  <2>2. OnWire(long_alu) /\ Ordered(long_alu)
    BY <1>2, <1>4, OnPort DEF Wires, PortOK, long_alu
  <2>3. PICK j \in 1..Len(long_alu) : long_alu[j].left = long_alu'[k].left + 1
    BY <2>1, <2>2, NextCycle
  <2>4. long_alu'[k].left \in Nat
    <3>1. OnWire(long_alu')
      BY <2>1, <2>2, NextCycle
    <3> QED
      BY <3>1, PacketsOf DEF OnWire
  <2>5. f <= long_alu[j].left /\ long_alu[j].left >= 1
    BY <1>1, <1>14, <2>3, <2>4 DEF lives
  <2>6. ~Arrives(wire[M]) /\ ~Arrives(wire[B]) /\ long_alu[j].left + 1 <= op
    BY <1>1, <1>2, <2>5 DEF Executed
  <2> QED
    BY <1>7, <2>3, <2>4, <2>6
<1>15. Behind'
  <2>1. busy' /\ issued' => issued_latency' > 1
    BY <1>2, <1>7, <1>8, <1>12, <1>13
  <2>2. ASSUME NEW k \in 1..Len(long_alu'), lives(k)'
        PROVE  ~busy' /\ (issued' => long_alu'[k].left + 1 < issued_latency')
    <3>1. ~busy' /\ long_alu'[k].left \in Nat /\ long_alu'[k].left + 2 <= op
      BY <1>14, <2>2
    <3> QED
      BY <1>2, <1>12, <1>13, <3>1
  <2> QED
    BY <2>1, <2>2 DEF Behind
<1>16. Covered(2)'
  <2>1. board'.operation_latency = op
    BY <1>1
  <2> HIDE DEF op
  <2> QED
    BY <1>7, <1>8, <1>14, <2>1 DEF Covered
<1>17. Scheduled'
  BY <1>1, <1>15, <1>16 DEF Scheduled
<1>18. Issued' /\ Executed' /\ MemSends' /\ BranchSends'
  BY <1>1 DEF Issued, Executed, MemSends, BranchSends
<1> QED
  BY <1>1, <1>2, <1>3, <1>11, <1>17, <1>18 DEF Pipe, Timing

LEMMA InitWires ==
    ASSUME Init
    PROVE  /\ Wires /\ \A p \in Ports : ~is_ready(p)
           /\ \A p \in Ports : p \notin {"WRITEBACK_2_ALL_FLUSH", "WRITEBACK_2_FETCH_TARGET"}
                               => wire[p] = <<>>
           /\ \A p \in Ports : Strict(wire[p])
<1> DEFINE e == [p \in Ports |-> <<>>]
           t == Target(0, 0)
           on == TRUE
<1>1. wire = redirect(on, e, t) /\ phase = "fetch"
  BY DEF Init
<1>2. IsWire(e)
  <2>1. <<>> \in Seq(Packets({}))
    OBVIOUS
  <2> QED
    BY <2>1 DEF IsWire
<1>3. \A p \in Ports : e[p] = <<>>
  OBVIOUS
<1> HIDE DEF e, t, on
<1>4. /\ IsWire(wire) /\ Later(e, wire)
      /\ \A q \in Ports : q \notin {"WRITEBACK_2_ALL_FLUSH", "WRITEBACK_2_FETCH_TARGET"}
                          => wire[q] = e[q]
  BY <1>1, <1>2, RedirectLater
<1>5. \A n : Below(<<>>, n)
  BY DEF Below
<1>6. Ordered(<<>>) /\ Strict(<<>>) /\ ~Ready(<<>>) /\ \A p : PortFits(p, <<>>)
  BY DEF Ordered, Strict, Ready, PortFits
<1>7. \A p \in Ports : PortOK(p, wire[p])
  BY <1>3, <1>4, <1>5, <1>6 DEF Later, PortOK
<1>8. \A p \in Ports : ~is_ready(p)
  BY <1>3, <1>4, <1>6 DEF Later, Ready, is_ready
<1>9. \A p \in Ports : p \notin writeback_ports => wire[p] = <<>>
  <2>1. \A p \in Ports : p \notin writeback_ports
                         => p \notin {"WRITEBACK_2_ALL_FLUSH", "WRITEBACK_2_FETCH_TARGET"}
    BY DEF writeback_ports
  <2> QED
    BY <1>3, <1>4, <2>1
<1>10. \A p \in Ports : p \notin writeback_ports => Strict(wire[p]) /\ Below(wire[p], latency(p))
  BY <1>5, <1>6, <1>9
<1>11. /\ Unwritten(wire, fetch_ports) /\ Unwritten(wire, decode_ports)
       /\ Unwritten(wire, execute_ports) /\ Unwritten(wire, mem_ports)
       /\ Unwritten(wire, branch_ports)
  BY <1>10, PortGroups DEF Unwritten
<1>12. Wires
  BY <1>1, <1>4, <1>7, <1>10, <1>11 DEF Wires, Phases
<1>13. ASSUME NEW p \in Ports PROVE Strict(wire[p])
  <2> DEFINE R == {"WRITEBACK_2_ALL_FLUSH", "WRITEBACK_2_FETCH_TARGET"}
  <2>1. Adds(e, wire, R)
    BY <1>1, <1>2, RedirectLater
  <2> HIDE DEF R
  <2>2. CASE wire[p] = e[p]
    BY <1>3, <1>6, <2>2
  <2>3. CASE Sends(p, e[p], wire[p])
    <3>1. PICK d : Fits(p, d) /\ wire[p] = sent(p, e[p], d)
      BY <2>3 DEF Sends
    <3>2. OnWire(e[p]) /\ Strict(e[p]) /\ Below(e[p], latency(p))
      BY <1>2, <1>3, <1>5, <1>6, OnPort
    <3> QED
      BY <3>1, <3>2, Sent
  <2> QED
    BY <2>1, <2>2, <2>3 DEF Adds
<1> QED
  BY <1>3, <1>4, <1>8, <1>12, <1>13

LEMMA InitPipe ==
    ASSUME Init
    PROVE  Pipe
<1>1. Wires /\ \A p \in Ports : ~is_ready(p)
  BY InitWires
<1>2. phase = "fetch" /\ board = EmptyBoard /\ flush_expiration_latency = 0
  BY DEF Init
<1>3. board.operation_latency = 0
  BY <1>2 DEF EmptyBoard
<1>4. ~busy /\ ~issued /\ ~is_flush /\ Exclusive
  <2>1. /\ ~is_ready("EXECUTE_2_MEMORY") /\ ~is_ready("EXECUTE_2_BRANCH")
        /\ ~is_ready("DECODE_2_EXECUTE") /\ ~is_ready("DECODE_2_BYPASSING_UNIT_NOTIFY")
        /\ ~is_ready("BRANCH_2_WRITEBACK") /\ ~is_ready("MEMORY_2_WRITEBACK")
        /\ ~is_ready("EXECUTE_2_WRITEBACK") /\ ~is_ready("BRANCH_2_ALL_FLUSH")
        /\ ~is_ready("BRANCH_2_BYPASSING_UNIT_FLUSH_NOTIFY") /\ ~is_ready("WRITEBACK_2_ALL_FLUSH")
    BY <1>1, NamedPorts, PortGroups
  <2> QED
    BY <2>1 DEF busy, issued, is_flush, Exclusive
<1>5. Len(long_alu) = 0
  <2>1. "EXECUTE_2_EXECUTE_LONG_LATENCY" \in Ports
    BY NamedPorts, PortGroups
  <2>2. long_alu = <<>>
    BY <2>1, InitWires DEF long_alu
  <2> QED
    BY <2>2
<1>6. Behind /\ Covered(2)
  BY <1>4, <1>5 DEF Behind, Covered
<1>7. Scheduled /\ Issued /\ Executed /\ MemSends /\ BranchSends
  BY <1>2, <1>6 DEF Scheduled, Issued, Executed, MemSends, BranchSends
<1> QED
  BY <1>1, <1>2, <1>3, <1>4, <1>7 DEF Pipe, Timing

\* Steps that do not clock a stage.
LEMMA PipeStutters ==
    ASSUME Pipe, UNCHANGED <<wire, board, flush_expiration_latency, phase>>
    PROVE  Pipe'
<1>1. Wires'
  BY DEF Pipe, Wires
<1>2. Timing'
  <2>1. Exclusive'
    BY DEF Pipe, Timing, Exclusive, issued, is_ready, read
  <2>2. (busy' <=> busy) /\ (issued' <=> issued) /\ issued_latency' = issued_latency
        /\ (is_flush' <=> is_flush) /\ long_alu' = long_alu /\ (\A k : lives(k)' <=> lives(k))
    BY DEF busy, issued, issued_latency, is_flush, is_ready, read, long_alu, lives
  <2>3. (Behind => Behind') /\ (Covered(1) => Covered(1)') /\ (Covered(2) => Covered(2)')
    BY <2>2 DEF Behind, Covered
  <2>4. Scheduled'
    BY <2>2, <2>3 DEF Pipe, Timing, Scheduled
  <2>5. Issued'
    BY DEF Pipe, Timing, Issued
  <2>6. Executed'
    BY <2>2 DEF Pipe, Timing, Executed
  <2>7. MemSends' /\ BranchSends'
    BY DEF Pipe, Timing, MemSends, BranchSends, is_ready
  <2> QED
    BY <2>1, <2>4, <2>5, <2>6, <2>7 DEF Pipe, Timing
<1> QED
  BY <1>1, <1>2 DEF Pipe

LEMMA PipeStep ==
    ASSUME Pipe, [Next]_vars
    PROVE  Pipe'
<1>1. CASE clock
  BY <1>1, PipeFetch, PipeDecode, PipeExecute, PipeMem, PipeBranch, PipeWriteback, PipeCore DEF clock
<1>2. CASE run
  BY <1>2, PipeStutters DEF run
<1>3. CASE Done \/ UNCHANGED vars
  BY <1>3, PipeStutters DEF Done, vars, stageVars
<1> QED
  BY <1>1, <1>2, <1>3 DEF Next

LEMMA PipeAlways == Spec => []Pipe
<1>1. Init => Pipe
  BY InitPipe
<1>2. Pipe /\ [Next]_vars => Pipe'
  BY PipeStep
<1> QED
  BY <1>1, <1>2, PTL DEF Spec

\* read_instructions finds at most one port with an instruction.
OneRetires == Len(retire_ports) <= 1

LEMMA RetireOne ==
    ASSUME Exclusive
    PROVE  OneRetires /\ Len(retire_ports) \in Nat
<1> DEFINE B == "BRANCH_2_WRITEBACK"
           M == "MEMORY_2_WRITEBACK"
           E == "EXECUTE_2_WRITEBACK"
<1>1. retire_ports = read_instruction(B) \o read_instruction(M) \o read_instruction(E)
  BY DEF retire_ports
<1>2. /\ ~(is_ready(B) /\ is_ready(M)) /\ ~(is_ready(B) /\ is_ready(E))
      /\ ~(is_ready(M) /\ is_ready(E))
  BY DEF Exclusive
<1>3. \A p : read_instruction(p) = IF is_ready(p) THEN <<p>> ELSE <<>>
  BY DEF read_instruction
<1> HIDE DEF B, M, E
<1>4. CASE is_ready(B)
  <2>1. retire_ports = <<B>> \o <<>> \o <<>>
    BY <1>1, <1>2, <1>3, <1>4
  <2> QED
    BY <2>1 DEF OneRetires
<1>5. CASE ~is_ready(B) /\ is_ready(M)
  <2>1. retire_ports = <<>> \o <<M>> \o <<>>
    BY <1>1, <1>2, <1>3, <1>5
  <2> QED
    BY <2>1 DEF OneRetires
<1>6. CASE ~is_ready(B) /\ ~is_ready(M) /\ is_ready(E)
  <2>1. retire_ports = <<>> \o <<>> \o <<E>>
    BY <1>1, <1>2, <1>3, <1>6
  <2> QED
    BY <2>1 DEF OneRetires
<1>7. CASE ~is_ready(B) /\ ~is_ready(M) /\ ~is_ready(E)
  <2>1. retire_ports = <<>> \o <<>> \o <<>>
    BY <1>1, <1>2, <1>3, <1>7
  <2> QED
    BY <2>1 DEF OneRetires
<1> QED
  BY <1>4, <1>5, <1>6, <1>7

\* Writeback never receives two instructions in a cycle, whatever the
\* latencies: an instruction that decode lets pass does not catch up with one
\* in the long ALU, in the memory or in the branch stage, and a flush leaves
\* none of them behind.
THEOREM PerfSimOneRetires == Spec => []OneRetires
<1>1. Pipe => OneRetires
  BY RetireOne DEF Pipe, Timing
<1> QED
  BY <1>1, PipeAlways, PTL

-----------------------------------------------------------------------------
(* The miss of the fetch stage *)

LEMMA FetchMissWires ==
    ASSUME IsWire(wire), FetchClock
    PROVE  LET H == "HIT_OR_MISS"
               L == "LONG_LATENCY_PC_HOLDER"
           IN  \/ wire'[H] = wire[H] /\ wire'[L] = wire[L] /\ (is_ready(H) => is_ready(L))
               \/ /\ wire'[L] = wire[L] /\ tags' = tags
                  /\ wire'[H] = sent(H, wire[H], FALSE)
               \/ /\ ~is_ready(H) /\ wire'[H] = sent(H, wire[H], FALSE)
                  /\ \E t : wire'[L] = sent(L, wire[L], t) /\ Line(t.address) \notin tags'
<1> DEFINE H == "HIT_OR_MISS"
           L == "LONG_LATENCY_PC_HOLDER"
           P == "HOLD_PC"
           T == "TARGET"
           D == "FETCH_2_DECODE"
           off == FALSE
<1>1. /\ H \in Ports /\ L \in Ports /\ P \in Ports /\ T \in Ports /\ D \in Ports
      /\ H # L /\ H # P /\ H # T /\ H # D /\ L # P /\ L # T /\ L # D
  BY DEF Ports, fetch_ports
<1>2. CASE FetchInMiss
  <2> DEFINE w == save_flush(wire)
  <2>1. IsWire(w) /\ w[H] = wire[H] /\ w[L] = wire[L]
    <3>1. CASE save_flush_ports = <<>>
      BY <3>1 DEF save_flush
    <3>2. CASE save_flush_ports # <<>>
      <4> DEFINE d == read(save_flush_ports[1])
      <4>1. w = wire ++ <<T, d>>
        BY <3>2 DEF save_flush
      <4> HIDE DEF d, w, H, L, P, T, D
      <4> QED
        BY <1>1, <4>1, Written
    <3> QED
      BY <3>1, <3>2
  <2>2. CASE is_ready(L)
    <3>1. PICK t : wire' = w ++ <<P, t>>
      BY <1>2, <2>2 DEF FetchInMiss
    <3> HIDE DEF w, H, L, P, T, D
    <3>2. wire'[H] = w[H] /\ wire'[L] = w[L]
      BY <1>1, <2>1, <3>1, Written
    <3> QED
      BY <2>1, <2>2, <3>2 DEF H, L
  <2>3. CASE ~is_ready(L)
    <3>1. wire' = w ++ <<H, off>> /\ tags' = tags
      BY <1>2, <2>3 DEF FetchInMiss
    <3> HIDE DEF w, H, L, P, T, D, off
    <3>2. wire'[H] = sent(H, w[H], off) /\ wire'[L] = w[L]
      BY <1>1, <2>1, <3>1, Written
    <3>3. wire'[H] = sent(H, wire[H], off) /\ wire'[L] = wire[L] /\ tags' = tags
      BY <2>1, <3>1, <3>2
    <3> QED
      BY <3>3 DEF H, L, off
  <2> QED
    BY <2>2, <2>3
<1>3. CASE FetchBubble
  BY <1>3 DEF FetchBubble
<1>4. CASE FetchMiss
  <2> DEFINE t == get_target
             w == wire ++ <<H, off>>
  <2>1. wire' = w ++ <<L, t>> /\ Line(t.address) \notin tags' /\ ~is_ready(H)
    BY <1>4 DEF FetchMiss
  <2> HIDE DEF t, H, L, P, T, D, off
  <2>2. IsWire(w) /\ w[H] = sent(H, wire[H], off) /\ w[L] = wire[L]
    BY <1>1, Written
  <2> HIDE DEF w
  <2>3. wire'[H] = w[H] /\ wire'[L] = sent(L, w[L], t)
    BY <1>1, <2>1, <2>2, Written
  <2>4. wire'[H] = sent(H, wire[H], off) /\ wire'[L] = sent(L, wire[L], t)
    BY <2>2, <2>3
  <2> QED
    BY <2>1, <2>4 DEF H, L, off
<1>5. CASE FetchHit
  <2>1. PICK t, u, in : wire' = wire ++ <<P, t>> ++ <<T, u>> ++ <<D, in>>
    BY <1>5 DEF FetchHit
  <2>2. ~is_ready(H)
    BY <1>5 DEF FetchHit
  <2> DEFINE w1 == wire ++ <<P, t>>
             w2 == w1 ++ <<T, u>>
  <2>3. wire' = w2 ++ <<D, in>>
    BY <2>1
  <2> HIDE DEF H, L, P, T, D
  <2>4. IsWire(w1) /\ w1[H] = wire[H] /\ w1[L] = wire[L]
    BY <1>1, Written
  <2> HIDE DEF w1
  <2>5. IsWire(w2) /\ w2[H] = w1[H] /\ w2[L] = w1[L]
    BY <1>1, <2>4, Written
  <2> HIDE DEF w2
  <2>6. wire'[H] = w2[H] /\ wire'[L] = w2[L]
    BY <1>1, <2>3, <2>5, Written
  <2> QED
    BY <2>2, <2>4, <2>5, <2>6 DEF H, L
<1> QED
  BY <1>2, <1>3, <1>4, <1>5 DEF FetchClock

\* While a miss is served, its line is not in the cache and HIT_OR_MISS keeps
\* the fetch stage waiting; the last packet of HIT_OR_MISS and the address
\* arrive together.
MissHeld ==
    LET h == wire["HIT_OR_MISS"]
        l == wire["LONG_LATENCY_PC_HOLDER"]
    IN  l # <<>> =>
            /\ Len(l) = 1
            /\ phase = "fetch" => h # <<>> /\ Line(l[1].data.address) \notin tags
            /\ phase # "fetch" =>
                  l[1].left = 0 \/ (Arrives(h) /\ Line(l[1].data.address) \notin tags)

LEMMA MissPorts ==
    /\ "HIT_OR_MISS" \in fetch_ports /\ "LONG_LATENCY_PC_HOLDER" \in fetch_ports
    /\ "HIT_OR_MISS" \in Ports /\ "LONG_LATENCY_PC_HOLDER" \in Ports
    /\ latency("HIT_OR_MISS") = 1 /\ latency("LONG_LATENCY_PC_HOLDER") \in Nat
    /\ \A d : Fits("HIT_OR_MISS", d) /\ Fits("LONG_LATENCY_PC_HOLDER", d)
<1>1. /\ "HIT_OR_MISS" \in fetch_ports /\ "LONG_LATENCY_PC_HOLDER" \in fetch_ports
      /\ "HIT_OR_MISS" \in Ports /\ "LONG_LATENCY_PC_HOLDER" \in Ports
  BY DEF fetch_ports, Ports
<1> QED
  BY <1>1, Latencies DEF Fits, InstrPorts

LEMMA MissFetch ==
    ASSUME Pipe, MissHeld, fetch_clock
    PROVE  MissHeld'
<1> DEFINE H == "HIT_OR_MISS"
           L == "LONG_LATENCY_PC_HOLDER"
           h == wire[H]
           l == wire[L]
           off == FALSE
<1>1. phase = "fetch" /\ phase' = "decode" /\ FetchClock
  BY DEF fetch_clock, turn
<1>2. IsWire(wire) /\ OnWire(h) /\ OnWire(l) /\ Below(h, 1)
  BY <1>1, MissPorts, OnPort DEF Pipe, Wires, Unwritten
<1>3. ~is_ready(H) => h = <<>>
  <2>1. h # <<>> => 1 \in 1..Len(h) /\ h[1].left \in Nat
    <3>1. h # <<>> => 1 \in 1..Len(h)
      BY <1>2 DEF OnWire
    <3> QED
      BY <1>2, <3>1, PacketsOf DEF OnWire
  <2> QED
    BY <1>2, <2>1 DEF Below, is_ready
<1>4. ~is_ready(H) => l = <<>>
  BY <1>1, <1>3 DEF MissHeld
<1>5. l # <<>> => Len(l) = 1 /\ Line(l[1].data.address) \notin tags
  BY <1>1 DEF MissHeld
<1>6. \/ wire'[H] = h /\ wire'[L] = l /\ (is_ready(H) => is_ready(L))
      \/ /\ wire'[L] = l /\ tags' = tags
         /\ wire'[H] = sent(H, h, off)
      \/ /\ ~is_ready(H) /\ wire'[H] = sent(H, h, off)
         /\ \E t : wire'[L] = sent(L, l, t) /\ Line(t.address) \notin tags'
  BY <1>1, <1>2, FetchMissWires
<1>7. wire'[H] = sent(H, h, off) => Arrives(wire'[H])
  <2> HIDE DEF off
  <2> QED
    BY <1>2, MissPorts, Sent
<1>8. SUFFICES ASSUME wire'[L] # <<>>
               PROVE  /\ Len(wire'[L]) = 1
                      /\ \/ wire'[L][1].left = 0
                         \/ Arrives(wire'[H]) /\ Line(wire'[L][1].data.address) \notin tags'
  BY <1>1 DEF MissHeld
<1> HIDE DEF off
<1>9. CASE wire'[H] = h /\ wire'[L] = l /\ (is_ready(H) => is_ready(L))
  BY <1>4, <1>5, <1>8, <1>9 DEF is_ready
<1>10. CASE wire'[L] = l /\ tags' = tags /\ wire'[H] = sent(H, h, off)
  BY <1>5, <1>7, <1>8, <1>10
<1>11. ASSUME ~is_ready(H), wire'[H] = sent(H, h, off),
              NEW t, wire'[L] = sent(L, l, t), Line(t.address) \notin tags'
       PROVE  Len(wire'[L]) = 1 /\ Arrives(wire'[H]) /\ Line(wire'[L][1].data.address) \notin tags'
  <2>1. l = <<>> /\ Len(l) = 0
    BY <1>4, <1>11
  <2>2. wire'[L] = <<[left |-> latency(L), data |-> t]>>
    BY <1>11, <2>1 DEF sent
  <2>3. Len(wire'[L]) = 1 /\ wire'[L][1].data = t
    BY <2>2
  <2> QED
    BY <1>7, <1>11, <2>3
<1> QED
  BY <1>6, <1>9, <1>10, <1>11

\* The stages between fetch and writeback do not write the ports of those two.
LEMMA OtherPorts ==
    ASSUME Pipe, decode_clock \/ execute_clock \/ mem_clock \/ branch_clock
    PROVE  /\ Later(wire, wire')
           /\ \A p \in Ports : p \in fetch_ports \cup writeback_ports => wire'[p] = wire[p]
<1>1. IsWire(wire) /\ \A p \in Ports : PortFits(p, wire[p])
  BY DEF Pipe, Wires, PortOK
<1>2. ASSUME NEW Q \in {decode_ports, execute_ports, mem_ports, branch_ports},
             Adds(wire, wire', Q)
      PROVE  /\ Later(wire, wire')
             /\ \A p \in Ports : p \in fetch_ports \cup writeback_ports => wire'[p] = wire[p]
  <2>1. \A p \in Ports : p \in fetch_ports \cup writeback_ports => p \notin Q
    BY PortGroups
  <2>2. Later(wire, wire')
    BY <1>1, <1>2, AddsLater
  <2> QED
    BY <1>2, <2>1, <2>2 DEF Adds
<1>3. CASE decode_clock
  <2>1. Adds(wire, wire', decode_ports)
    BY <1>1, <1>3, DecodeWires DEF decode_clock
  <2> QED
    BY <1>2, <2>1
<1>4. CASE execute_clock
  BY <1>2, <1>4, PipeExecute
<1>5. CASE mem_clock
  <2>1. Adds(wire, wire', mem_ports)
    BY <1>1, <1>5, MemWires DEF mem_clock
  <2> QED
    BY <1>2, <2>1
<1>6. CASE branch_clock
  <2>1. Adds(wire, wire', branch_ports)
    BY <1>1, <1>6, BranchWires DEF branch_clock
  <2> QED
    BY <1>2, <2>1
<1> QED
  BY <1>3, <1>4, <1>5, <1>6

LEMMA MissCore ==
    ASSUME Pipe, MissHeld, core_clock
    PROVE  MissHeld'
<1> DEFINE H == "HIT_OR_MISS"
           L == "LONG_LATENCY_PC_HOLDER"
           h == wire[H]
           l == wire[L]
           t == in_transit(l)
<1>1. phase = "core" /\ phase' = "fetch" /\ tick /\ tags' = tags
  BY DEF core_clock, fetchVars
<1>2. Wires
  BY DEF Pipe
<1>3. /\ OnWire(h) /\ OnWire(l) /\ Ordered(h) /\ Ordered(l) /\ Below(h, 2)
  BY <1>2, MissPorts, OnPort DEF Wires, PortOK
<1>4. wire'[H] = in_transit(h) /\ wire'[L] = t
  BY <1>1, <1>2, MissPorts, TickWires
<1>5. in_transit(h) = <<>> <=> ~Arrives(h)
  BY <1>3, NextCycle
<1>6. SUFFICES ASSUME t # <<>>
               PROVE  Len(t) = 1 /\ Arrives(h) /\ Line(t[1].data.address) \notin tags
  BY <1>1, <1>4, <1>5 DEF MissHeld
<1>7. PICK D : l \in Seq(Packets(D))
  BY <1>3 DEF OnWire
<1> HIDE DEF l
<1>8. PICK n \in 0..Len(l) :
          /\ \A k \in 1..n : l[k].left = 0
          /\ \A k \in (n + 1)..Len(l) : l[k].left > 0
          /\ Len(t) = Len(l) - n
          /\ \A k \in 1..(Len(l) - n) : t[k].data = l[n + k].data
  BY <1>3, <1>7, Ticked
<1>9. t \in Seq(Packets(D)) /\ Len(l) \in Nat /\ Len(t) \in Nat /\ Len(t) # 0
  <2>1. t \in Seq(Packets(D)) /\ Len(l) \in Nat
    BY <1>3, <1>7, Ticked
  <2> HIDE DEF t
  <2> QED
    BY <1>6, <2>1
<1>10. l # <<>> => Len(l) = 1 /\ (l[1].left = 0 \/ (Arrives(h) /\ Line(l[1].data.address) \notin tags))
  BY <1>1 DEF MissHeld, l
<1> HIDE DEF t
<1>11. l # <<>>
  BY <1>8, <1>9
<1>12. Len(l) = 1 /\ n = 0 /\ Len(t) = 1
  <2>1. Len(l) = 1
    BY <1>10, <1>11
  <2>2. Len(t) = Len(l) - n /\ Len(t) # 0 /\ n \in 0..Len(l)
    BY <1>8, <1>9
  <2> QED
    BY <2>1, <2>2
<1>13. l[1].left > 0 /\ t[1].data = l[1].data
  BY <1>8, <1>12
<1> QED
  BY <1>10, <1>11, <1>12, <1>13

LEMMA MissInit ==
    ASSUME Init
    PROVE  MissHeld
<1>1. wire["LONG_LATENCY_PC_HOLDER"] = <<>>
  BY InitWires, MissPorts
<1> QED
  BY <1>1 DEF MissHeld

LEMMA MissStep ==
    ASSUME Pipe, MissHeld, [Next]_vars
    PROVE  MissHeld'
<1> DEFINE H == "HIT_OR_MISS"
           L == "LONG_LATENCY_PC_HOLDER"
<1>1. ASSUME wire'[H] = wire[H], wire'[L] = wire[L], tags' = tags, phase' = "fetch" <=> phase = "fetch"
      PROVE  MissHeld'
  BY <1>1 DEF MissHeld
<1>2. CASE decode_clock \/ execute_clock \/ mem_clock \/ branch_clock
  <2>1. wire'[H] = wire[H] /\ wire'[L] = wire[L]
    BY <1>2, OtherPorts, MissPorts
  <2>2. tags' = tags /\ phase' # "fetch" /\ phase # "fetch"
    BY <1>2 DEF decode_clock, execute_clock, mem_clock, branch_clock, turn, fetchVars
  <2> QED
    BY <1>1, <2>1, <2>2
<1>3. CASE writeback_clock
  <2>1. wire'[H] = wire[H] /\ wire'[L] = wire[L]
    <3>1. IsWire(wire) /\ WritebackClock
      BY <1>3 DEF Pipe, Wires, writeback_clock
    <3>2. \A p \in Ports : p \notin writeback_ports => wire'[p] = wire[p]
      BY <3>1, WritebackWires
    <3> QED
      BY <3>2, MissPorts, PortGroups
  <2>2. tags' = tags /\ phase' # "fetch" /\ phase # "fetch"
    BY <1>3 DEF writeback_clock, turn, fetchVars
  <2> QED
    BY <1>1, <2>1, <2>2
<1>4. CASE run
  BY <1>1, <1>4 DEF run, fetchVars
<1>5. CASE Done \/ UNCHANGED vars
  BY <1>1, <1>5 DEF Done, vars, stageVars, fetchVars
<1> QED
  BY <1>2, <1>3, <1>4, <1>5, MissFetch, MissCore DEF Next, clock

\* The fetch stage never asks the tag array to write a line that it has: the
\* line of a pending miss stays absent until the miss is served, although
\* prefetches, redirections and flushes arrive in between.  This holds for
\* every latency, cache, program and prefetch method.
THEOREM PerfSimMissIsAbsent == Spec => []MissIsAbsent
<1>1. Init => Pipe /\ MissHeld
  BY InitPipe, MissInit
<1>2. Pipe /\ MissHeld /\ [Next]_vars => (Pipe /\ MissHeld)'
  BY PipeStep, MissStep
<1>3. MissHeld => MissIsAbsent
  BY DEF MissHeld, MissIsAbsent
<1> QED
  BY <1>1, <1>2, <1>3, PTL DEF Spec

-----------------------------------------------------------------------------
(* Writeback and the end of run *)

\* At most one instruction is retired in a cycle, and it is reported once.
Retirement ==
    LET h == wire["WRITEBACK_2_CORE_HALT"]
    IN  /\ retired \in {0, 1}
        /\ phase # "core" => retired = 0
        /\ Strict(h)
        /\ retired = 0 => Below(h, 1)

LEMMA HaltPort ==
    /\ "WRITEBACK_2_CORE_HALT" \in Ports /\ "WRITEBACK_2_CORE_HALT" \in writeback_ports
    /\ "WRITEBACK_2_CORE_HALT" # "EXECUTE_2_EXECUTE_LONG_LATENCY"
    /\ "WRITEBACK_2_CORE_HALT" # "LONG_LATENCY_PC_HOLDER"
    /\ latency("WRITEBACK_2_CORE_HALT") = 1
    /\ \A d : Fits("WRITEBACK_2_CORE_HALT", d)
<1>1. "WRITEBACK_2_CORE_HALT" \in Ports /\ "WRITEBACK_2_CORE_HALT" \in writeback_ports
  BY NamedPorts, PortGroups
<1> QED
  BY <1>1, Latencies DEF Fits, InstrPorts

\* What the stages before writeback do to its state and its ports: nothing.
LEMMA BeforeWriteback ==
    ASSUME Pipe, fetch_clock \/ decode_clock \/ execute_clock \/ mem_clock \/ branch_clock
    PROVE  /\ Later(wire, wire')
           /\ \A p \in Ports : p \in writeback_ports => wire'[p] = wire[p]
           /\ retired' = retired /\ thrown' = thrown /\ executed_instrs' = executed_instrs
           /\ instrs_to_run' = instrs_to_run /\ calls' = calls /\ current_trap' = current_trap
           /\ phase # "core" /\ phase' # "core"
<1>1. CASE fetch_clock
  <2>1. IsWire(wire) /\ FetchClock
    BY <1>1 DEF Pipe, Wires, fetch_clock
  <2>2. Adds(wire, wire', fetch_ports)
    BY <2>1, FetchWires
  <2>3. Later(wire, wire')
    BY <2>1, <2>2, AddsLater
  <2>4. \A p \in Ports : p \in writeback_ports => wire'[p] = wire[p]
    BY <2>2, PortGroups DEF Adds
  <2> QED
    BY <1>1, <2>3, <2>4 DEF fetch_clock, turn, writebackVars
<1>2. CASE decode_clock \/ execute_clock \/ mem_clock \/ branch_clock
  <2>1. Later(wire, wire') /\ \A p \in Ports : p \in writeback_ports => wire'[p] = wire[p]
    BY <1>2, OtherPorts
  <2> QED
    BY <1>2, <2>1 DEF decode_clock, execute_clock, mem_clock, branch_clock, turn, writebackVars
<1> QED
  BY <1>1, <1>2

LEMMA RetirementWriteback ==
    ASSUME Pipe, Retirement, writeback_clock
    PROVE  Retirement'
<1> DEFINE h == "WRITEBACK_2_CORE_HALT"
<1>1. IsWire(wire) /\ WritebackClock /\ retired = 0
  BY DEF Pipe, Wires, writeback_clock, turn, Retirement
<1>2. /\ phase' = IF ~writeback_trap /\ retired' < Len(retire_ports) THEN "writeback" ELSE "core"
      /\ Strict(wire[h]) /\ Below(wire[h], 1) /\ OnWire(wire[h])
  BY <1>1, HaltPort, OnPort DEF writeback_clock, turn, Retirement
<1>3. Len(retire_ports) <= 1
  BY RetireOne DEF Pipe, Timing, OneRetires
<1>4. \/ wire'[h] = wire[h] /\ retired' = retired
      \/ /\ retired < Len(retire_ports) /\ retired' = retired + 1
         /\ \E trap : wire'[h] = sent(h, wire[h], halt_trap(trap))
  BY <1>1, WritebackWires
<1>5. CASE wire'[h] = wire[h] /\ retired' = retired
  BY <1>1, <1>2, <1>5 DEF Retirement
<1>6. ASSUME retired < Len(retire_ports), retired' = retired + 1,
             NEW trap, wire'[h] = sent(h, wire[h], halt_trap(trap))
      PROVE  Retirement'
  <2>1. retired' = 1
    BY <1>1, <1>6
  <2>2. Len(retire_ports) \in Nat
    BY RetireOne DEF Pipe, Timing
  <2>3. phase' = "core"
    BY <1>2, <1>3, <2>1, <2>2
  <2>4. Strict(wire'[h])
    BY <1>2, <1>6, HaltPort, Sent
  <2> QED
    BY <2>1, <2>3, <2>4 DEF Retirement
<1> QED
  BY <1>4, <1>5, <1>6

LEMMA RetirementStep ==
    ASSUME Pipe, Retirement, [Next]_vars
    PROVE  Retirement'
<1> DEFINE h == "WRITEBACK_2_CORE_HALT"
<1>1. CASE fetch_clock \/ decode_clock \/ execute_clock \/ mem_clock \/ branch_clock
  <2>1. wire'[h] = wire[h] /\ retired' = retired /\ phase # "core" /\ phase' # "core"
    BY <1>1, BeforeWriteback, HaltPort
  <2> QED
    BY <2>1 DEF Retirement
<1>2. CASE core_clock
  <2>1. tick /\ retired' = 0 /\ Wires
    BY <1>2 DEF core_clock, Pipe
  <2>2. Strict(wire'[h]) /\ Below(wire'[h], 1)
    BY <2>1, TickWires, HaltPort DEF Retirement
  <2> QED
    BY <2>1, <2>2 DEF Retirement
<1>3. CASE run
  BY <1>3 DEF run, Retirement
<1>4. CASE Done \/ UNCHANGED vars
  BY <1>4 DEF Done, vars, stageVars, writebackVars, Retirement
<1> QED
  BY <1>1, <1>2, <1>3, <1>4, RetirementWriteback DEF Next, clock

LEMMA RetirementInit ==
    ASSUME Init
    PROVE  Retirement
<1>1. wire["WRITEBACK_2_CORE_HALT"] = <<>> /\ Strict(wire["WRITEBACK_2_CORE_HALT"])
  BY InitWires, HaltPort
<1>2. Below(<<>>, 1)
  BY DEF Below
<1> QED
  BY <1>1, <1>2 DEF Retirement, Init

\* The core has read the end of run, or will read it at the end of this cycle.
stop == is_ready("WRITEBACK_2_CORE_HALT") /\ read("WRITEBACK_2_CORE_HALT") # "NO_TRAP"
stop_sent == /\ Arrives(wire["WRITEBACK_2_CORE_HALT"])
             /\ arriving(wire["WRITEBACK_2_CORE_HALT"]) # "NO_TRAP"

\* The n-th instruction is retired in the cycle before the core stops.
OnTime ==
    /\ executed_instrs \in Nat /\ instrs_to_run = InstrsToRun /\ calls = 1
    /\ executed_instrs <= InstrsToRun + 1
    /\ current_trap = "NO_TRAP" =>
          \/ executed_instrs < InstrsToRun
          \/ executed_instrs = InstrsToRun /\ (stop \/ (retired = 1 /\ stop_sent))
          \/ retired = 1 /\ stop

LEMMA OnTimeWriteback ==
    ASSUME Pipe, Retirement, OnTime, writeback_clock
    PROVE  OnTime'
<1> DEFINE h == "WRITEBACK_2_CORE_HALT"
           e == executed_instrs
           n == InstrsToRun
<1>1. /\ IsWire(wire) /\ WritebackClock /\ retired = 0 /\ current_trap = "NO_TRAP"
      /\ current_trap' = "NO_TRAP" /\ calls' = calls
  BY DEF Pipe, Wires, writeback_clock, turn, Retirement
<1>2. /\ Later(wire, wire') /\ instrs_to_run' = instrs_to_run
      /\ \/ wire'[h] = wire[h] /\ e' = e /\ retired' = retired
         \/ /\ e' = e + 1 /\ retired' = retired + 1
            /\ \E trap : wire'[h] = sent(h, wire[h], halt_trap(trap))
  BY <1>1, WritebackWires
<1>3. stop' <=> stop
  BY <1>2, SameReads, HaltPort DEF stop
<1>4. e \in Nat /\ n \in Nat /\ instrs_to_run = n /\ calls = 1 /\ (e < n \/ (e = n /\ stop))
  BY <1>1, RunAssumption DEF OnTime
<1>5. CASE wire'[h] = wire[h] /\ e' = e /\ retired' = retired
  BY <1>1, <1>2, <1>3, <1>4, <1>5 DEF OnTime
<1>6. ASSUME e' = e + 1, retired' = retired + 1,
             NEW trap, wire'[h] = sent(h, wire[h], halt_trap(trap))
      PROVE  OnTime'
  <2>1. Arrives(wire'[h]) /\ arriving(wire'[h]) = halt_trap(trap)
    BY <1>1, <1>6, HaltPort, OnPort, Sent
  <2>2. e + 1 = n => halt_trap(trap) = "BREAKPOINT"
    BY <1>4 DEF halt_trap
  <2>3. e + 1 = n => stop_sent'
    BY <2>1, <2>2 DEF stop_sent
  <2>4. retired' = 1 /\ instrs_to_run' = n /\ calls' = 1
    BY <1>1, <1>2, <1>4, <1>6
  <2>5. e' \in Nat /\ e' <= n + 1 /\ (e' < n \/ (e' = n /\ e + 1 = n) \/ stop)
    BY <1>4, <1>6
  <2> HIDE DEF e, n
  <2> QED
    BY <1>3, <2>3, <2>4, <2>5 DEF OnTime, e, n
<1> QED
  BY <1>2, <1>5, <1>6

LEMMA OnTimeStep ==
    ASSUME Calls = 1, Pipe, Retirement, OnTime, [Next]_vars
    PROVE  OnTime'
<1> DEFINE h == "WRITEBACK_2_CORE_HALT"
<1>1. CASE fetch_clock \/ decode_clock \/ execute_clock \/ mem_clock \/ branch_clock
  <2>1. /\ Later(wire, wire') /\ wire'[h] = wire[h] /\ retired' = retired
        /\ executed_instrs' = executed_instrs /\ instrs_to_run' = instrs_to_run
        /\ calls' = calls /\ current_trap' = current_trap
    BY <1>1, BeforeWriteback, HaltPort
  <2>2. (stop' <=> stop) /\ (stop_sent' <=> stop_sent)
    BY <2>1, SameReads, HaltPort DEF stop, stop_sent
  <2> QED
    BY <2>1, <2>2 DEF OnTime
<1>2. CASE core_clock
  <2>1. /\ tick /\ retired' = 0 /\ executed_instrs' = executed_instrs
        /\ instrs_to_run' = instrs_to_run /\ calls' = calls /\ current_trap = "NO_TRAP"
        /\ current_trap' = IF is_ready(h) THEN read(h) ELSE "NO_TRAP"
    BY <1>2 DEF core_clock
  <2>2. CASE stop
    <3>1. current_trap' # "NO_TRAP"
      BY <2>1, <2>2 DEF stop
    <3> QED
      BY <2>1, <3>1 DEF OnTime
  <2>3. CASE ~stop
    <3>1. Wires /\ Strict(wire[h])
      BY DEF Pipe, Retirement
    <3>2. stop_sent => stop'
      <4>1. /\ is_ready(h)' <=> Arrives(wire[h])
            /\ Strict(wire[h]) /\ Arrives(wire[h]) => read(h)' = arriving(wire[h])
        BY <2>1, <3>1, HaltPort, TickReads
      <4> QED
        BY <3>1, <4>1 DEF stop, stop_sent
    <3>3. executed_instrs < InstrsToRun \/ (executed_instrs = InstrsToRun /\ stop_sent)
      BY <2>1, <2>3 DEF OnTime
    <3> QED
      BY <2>1, <3>2, <3>3 DEF OnTime
  <2> QED
    BY <2>2, <2>3
<1>3. CASE run
  <2>1. calls < Calls /\ calls = 1
    BY <1>3 DEF run, OnTime
  <2> QED
    BY <2>1
<1>4. CASE Done \/ UNCHANGED vars
  <2>1. /\ wire' = wire /\ retired' = retired /\ executed_instrs' = executed_instrs
        /\ instrs_to_run' = instrs_to_run /\ calls' = calls /\ current_trap' = current_trap
    BY <1>4 DEF Done, vars, stageVars, writebackVars
  <2>2. (stop' <=> stop) /\ (stop_sent' <=> stop_sent)
    BY <2>1 DEF stop, stop_sent, is_ready, read
  <2> QED
    BY <2>1, <2>2 DEF OnTime
<1> QED
  BY <1>1, <1>2, <1>3, <1>4, OnTimeWriteback DEF Next, clock

\* The first run( n), for every positive n, retires n instructions or one more,
\* whatever the program, the latencies and the traps are: the limit is tested
\* by writeback and seen by the core a cycle later, and in that cycle writeback
\* retires one instruction at most.
THEOREM PerfSimStopsInTime ==
    ASSUME Calls = 1, InstrsToRun > 0
    PROVE  Spec => []StopsInTime
<1>1. Init => Pipe /\ Retirement /\ OnTime
  <2> SUFFICES ASSUME Init PROVE OnTime
    BY InitPipe, RetirementInit
  <2>1. executed_instrs = 0 /\ instrs_to_run = InstrsToRun /\ calls = 1
    BY DEF Init
  <2> QED
    BY <2>1, RunAssumption DEF OnTime
<1>2. Pipe /\ Retirement /\ OnTime /\ [Next]_vars => (Pipe /\ Retirement /\ OnTime)'
  BY PipeStep, RetirementStep, OnTimeStep
<1>3. OnTime => StopsInTime
  BY DEF OnTime, StopsInTime
<1> QED
  BY <1>1, <1>2, <1>3, PTL DEF Spec

-----------------------------------------------------------------------------
(* One write to a port in a cycle *)

\* Writeback writes its ports for the one instruction that it retires; before
\* that, only set_pc may have written two of them, in a cycle without one.
WrittenOnce ==
    \A p \in Ports : p \in writeback_ports =>
        /\ Strict(wire[p])
        /\ retired = 0 /\ thrown = "none" /\ retire_ports # <<>> => Below(wire[p], 1)

LEMMA SameRetirePorts ==
    ASSUME Later(wire, wire')
    PROVE  retire_ports' = retire_ports
<1>1. /\ "BRANCH_2_WRITEBACK" \in Ports /\ "MEMORY_2_WRITEBACK" \in Ports
      /\ "EXECUTE_2_WRITEBACK" \in Ports
  BY NamedPorts, PortGroups
<1>2. /\ is_ready("BRANCH_2_WRITEBACK")' <=> is_ready("BRANCH_2_WRITEBACK")
      /\ is_ready("MEMORY_2_WRITEBACK")' <=> is_ready("MEMORY_2_WRITEBACK")
      /\ is_ready("EXECUTE_2_WRITEBACK")' <=> is_ready("EXECUTE_2_WRITEBACK")
  BY <1>1, SameReads
<1>3. /\ read_instruction("BRANCH_2_WRITEBACK")' = read_instruction("BRANCH_2_WRITEBACK")
      /\ read_instruction("MEMORY_2_WRITEBACK")' = read_instruction("MEMORY_2_WRITEBACK")
      /\ read_instruction("EXECUTE_2_WRITEBACK")' = read_instruction("EXECUTE_2_WRITEBACK")
  BY <1>2 DEF read_instruction
<1> QED
  BY <1>3 DEF retire_ports

LEMMA WritebackPorts ==
    ASSUME NEW p \in Ports, p \in writeback_ports
    PROVE  latency(p) = 1
BY Latencies DEF writeback_ports

LEMMA WrittenOnceWriteback ==
    ASSUME OneRedirect, Pipe, Retirement, WrittenOnce, writeback_clock
    PROVE  WrittenOnce'
<1>1. IsWire(wire) /\ WritebackClock /\ retired = 0 /\ thrown = "none"
  BY DEF Pipe, Wires, writeback_clock, turn, Retirement
<1>2. /\ Later(wire, wire')
      /\ \/ wire' = wire /\ retired' = retired
         \/ /\ retired < Len(retire_ports)
            /\ thrown' = "CheckerMismatch" /\ Adds(wire, wire', writeback_ports)
         \/ /\ retired < Len(retire_ports)
            /\ retired' = retired + 1 /\ Adds(wire, wire', writeback_ports)
  BY <1>1, WritebackWires
<1>3. retire_ports' = retire_ports
  BY <1>2, SameRetirePorts
<1>4. CASE wire' = wire /\ retired' = retired
  BY <1>1, <1>3, <1>4 DEF WrittenOnce
<1>5. CASE /\ retired < Len(retire_ports) /\ (thrown' # "none" \/ retired' # 0)
           /\ Adds(wire, wire', writeback_ports)
  <2>1. retire_ports # <<>>
    BY <1>1, <1>5
  <2>2. ASSUME NEW p \in Ports, p \in writeback_ports PROVE Strict(wire'[p])
    <3>1. Strict(wire[p]) /\ Below(wire[p], latency(p)) /\ OnWire(wire[p])
      BY <1>1, <2>1, <2>2, WritebackPorts, OnPort DEF WrittenOnce
    <3>2. CASE wire'[p] = wire[p]
      BY <3>1, <3>2
    <3>3. CASE Sends(p, wire[p], wire'[p])
      <4>1. PICK d : Fits(p, d) /\ wire'[p] = sent(p, wire[p], d)
        BY <3>3 DEF Sends
      <4> QED
        BY <3>1, <4>1, Sent
    <3> QED
      BY <1>5, <3>2, <3>3 DEF Adds
  <2> QED
    BY <1>5, <2>2 DEF WrittenOnce
<1>6. (thrown' = "CheckerMismatch" => thrown' # "none") /\ (retired' = retired + 1 => retired' # 0)
  BY <1>1
<1> QED
  BY <1>2, <1>4, <1>5, <1>6

LEMMA WrittenOnceStep ==
    ASSUME OneRedirect, Pipe, Retirement, WrittenOnce, [Next]_vars
    PROVE  WrittenOnce'
<1>1. CASE fetch_clock \/ decode_clock \/ execute_clock \/ mem_clock \/ branch_clock
  <2>1. /\ Later(wire, wire') /\ retired' = retired /\ thrown' = thrown
        /\ \A p \in Ports : p \in writeback_ports => wire'[p] = wire[p]
    BY <1>1, BeforeWriteback
  <2>2. retire_ports' = retire_ports
    BY <2>1, SameRetirePorts
  <2> QED
    BY <2>1, <2>2 DEF WrittenOnce
<1>2. CASE core_clock
  <2>1. tick /\ Wires
    BY <1>2 DEF core_clock, Pipe
  <2>2. ASSUME NEW p \in Ports, p \in writeback_ports
        PROVE  Strict(wire'[p]) /\ Below(wire'[p], 1)
    <3>1. Strict(wire[p]) /\ latency(p) = 1
      BY <2>2, WritebackPorts DEF WrittenOnce
    <3> QED
      BY <2>1, <3>1, TickWires
  <2> QED
    BY <2>2 DEF WrittenOnce
<1>3. ASSUME wire' = wire, retired' = retired, thrown' = thrown PROVE WrittenOnce'
  BY <1>3 DEF WrittenOnce, retire_ports, read_instruction, is_ready
<1>4. CASE run
  BY <1>3, <1>4 DEF run
<1>5. CASE Done \/ UNCHANGED vars
  BY <1>3, <1>5 DEF Done, vars, stageVars, writebackVars
<1> QED
  BY <1>1, <1>2, <1>4, <1>5, WrittenOnceWriteback DEF Next, clock

LEMMA WrittenOnceInit ==
    ASSUME Init
    PROVE  WrittenOnce
<1>1. /\ ~is_ready("BRANCH_2_WRITEBACK") /\ ~is_ready("MEMORY_2_WRITEBACK")
      /\ ~is_ready("EXECUTE_2_WRITEBACK")
  BY InitWires, NamedPorts, PortGroups
<1>2. retire_ports = <<>> \o <<>> \o <<>>
  BY <1>1 DEF retire_ports, read_instruction
<1>3. retire_ports = <<>>
  BY <1>2
<1> QED
  BY <1>3, InitWires DEF WrittenOnce

LEMMA NoClash ==
    ASSUME Wires, WrittenOnce
    PROVE  NoPortClash
<1> SUFFICES ASSUME NEW p \in Ports, NEW j \in DOMAIN wire[p], NEW k \in DOMAIN wire[p],
                    j # k, wire[p][j].left = wire[p][k].left
             PROVE  FALSE
  BY DEF NoPortClash, port_clash
<1>1. Strict(wire[p]) /\ OnWire(wire[p])
  BY OnPort DEF Wires, WrittenOnce
<1> DEFINE s == wire[p]
<1>2. PICK D : s \in Seq(Packets(D))
  BY <1>1 DEF OnWire
<1> HIDE DEF s
<1>3. DOMAIN s = 1..Len(s) /\ Len(s) \in Nat
  BY <1>2
<1>4. \A m \in 1..Len(s) : s[m].left \in Nat
  BY <1>2, PacketsOf
<1>5. j \in 1..Len(s) /\ k \in 1..Len(s) /\ j \in Nat /\ k \in Nat /\ s[j].left = s[k].left
  BY <1>3 DEF s
<1>6. Strict(s)
  BY <1>1 DEF s
<1>7. s[j].left \in Nat /\ s[k].left \in Nat
  BY <1>4, <1>5
<1>8. j < k => s[j].left < s[k].left
  BY <1>5, <1>6 DEF Strict
<1>9. k < j => s[k].left < s[j].left
  BY <1>5, <1>6 DEF Strict
<1> QED
  BY <1>5, <1>7, <1>8, <1>9

\* No port is written twice in a cycle, for every latency of the long ALU and
\* of a miss and every program: the long ALU and the simple one never send
\* to writeback together, and only one instruction is retired.  The driver
\* hooks are off and the kernel answers a syscall with no trap or a halt;
\* otherwise writeback does redirect fetch twice.
THEOREM PerfSimNoPortClash ==
    ASSUME OneRedirect
    PROVE  Spec => []NoPortClash
<1>1. Init => Pipe /\ Retirement /\ WrittenOnce
  BY InitPipe, RetirementInit, WrittenOnceInit
<1>2. Pipe /\ Retirement /\ WrittenOnce /\ [Next]_vars => (Pipe /\ Retirement /\ WrittenOnce)'
  BY PipeStep, RetirementStep, WrittenOnceStep
<1>3. Pipe /\ WrittenOnce => NoPortClash
  BY NoClash DEF Pipe
<1> QED
  BY <1>1, <1>2, <1>3, PTL DEF Spec

-----------------------------------------------------------------------------
(* What the stages send *)

\* Two and three writes to different ports.
LEMMA WrittenTwice ==
    ASSUME NEW w, IsWire(w), NEW p \in Ports, NEW d, NEW q \in Ports, NEW e, p # q
    PROVE  LET v == w ++ <<p, d>> ++ <<q, e>>
           IN  /\ IsWire(v) /\ v[p] = sent(p, w[p], d) /\ v[q] = sent(q, w[q], e)
               /\ \A r \in Ports : r # p /\ r # q => v[r] = w[r]
<1> DEFINE u == w ++ <<p, d>>
           v == u ++ <<q, e>>
<1>1. IsWire(u) /\ u[p] = sent(p, w[p], d) /\ \A r \in Ports : r # p => u[r] = w[r]
  BY Written
<1> HIDE DEF u
<1>2. IsWire(v) /\ v[q] = sent(q, u[q], e) /\ \A r \in Ports : r # q => v[r] = u[r]
  BY <1>1, Written
<1> HIDE DEF v
<1>3. /\ IsWire(v) /\ v[p] = sent(p, w[p], d) /\ v[q] = sent(q, w[q], e)
      /\ \A r \in Ports : r # p /\ r # q => v[r] = w[r]
  BY <1>1, <1>2
<1> QED
  BY <1>3 DEF v, u

LEMMA WrittenThrice ==
    ASSUME NEW w, IsWire(w), NEW p \in Ports, NEW d, NEW q \in Ports, NEW e, NEW r \in Ports, NEW f,
           p # q, p # r, q # r
    PROVE  LET v == w ++ <<p, d>> ++ <<q, e>> ++ <<r, f>>
           IN  /\ IsWire(v) /\ v[p] = sent(p, w[p], d) /\ v[q] = sent(q, w[q], e)
               /\ v[r] = sent(r, w[r], f)
               /\ \A t \in Ports : t # p /\ t # q /\ t # r => v[t] = w[t]
<1> DEFINE u == w ++ <<p, d>> ++ <<q, e>>
           v == u ++ <<r, f>>
<1>1. /\ IsWire(u) /\ u[p] = sent(p, w[p], d) /\ u[q] = sent(q, w[q], e)
      /\ \A t \in Ports : t # p /\ t # q => u[t] = w[t]
  BY WrittenTwice
<1> HIDE DEF u
<1>2. IsWire(v) /\ v[r] = sent(r, u[r], f) /\ \A t \in Ports : t # r => v[t] = u[t]
  BY <1>1, Written
<1> HIDE DEF v
<1>3. /\ IsWire(v) /\ v[p] = sent(p, w[p], d) /\ v[q] = sent(q, w[q], e)
      /\ v[r] = sent(r, w[r], f)
      /\ \A t \in Ports : t # p /\ t # q /\ t # r => v[t] = w[t]
  BY <1>1, <1>2
<1> QED
  BY <1>3 DEF v, u

\* The instructions of a program.
Codes == Alphabet \cup {Nop}
\* An instruction with its number.
Known(in) == IsInstr(in) /\ in.seq \in Int /\ in.code \in Codes
\* a is b at a later stage.
Same(a, b) == IsInstr(a) /\ a.seq = b.seq /\ a.code = b.code

LEMMA InstrKept ==
    ASSUME NEW in, IsInstr(in)
    PROVE  /\ \A x : Same([in EXCEPT !.v_src = x], in)
           /\ \A o : Same(executed_as(in, o), in)
           /\ \A m : Same(loaded(in, m), in)
<1>1. PICK pc, seq, code, bp, v_src, v_dst, taken, new_pc, trap :
        in = [pc |-> pc, seq |-> seq, code |-> code, bp |-> bp, v_src |-> v_src,
              v_dst |-> v_dst, taken |-> taken, new_pc |-> new_pc, trap |-> trap]
  BY DEF IsInstr
<1>2. ASSUME NEW x PROVE Same([in EXCEPT !.v_src = x], in)
  <2>1. [in EXCEPT !.v_src = x] =
          [pc |-> pc, seq |-> seq, code |-> code, bp |-> bp, v_src |-> x,
           v_dst |-> v_dst, taken |-> taken, new_pc |-> new_pc, trap |-> trap]
    BY <1>1
  <2>2. IsInstr([in EXCEPT !.v_src = x])
    BY CodeKept
  <2> QED
    BY <1>1, <2>1, <2>2 DEF Same
<1>3. ASSUME NEW o PROVE Same(executed_as(in, o), in)
  <2> DEFINE dst == IF is_load(in.code) THEN in.v_dst
                    ELSE <<Mix(in.pc, in.v_src[1], in.v_src[2], 1),
                           Mix(in.pc, in.v_src[1], in.v_src[2], 2)>>
  <2>1. executed_as(in, o) =
          [in EXCEPT !.taken = o.taken, !.new_pc = o.new_pc, !.trap = o.trap, !.v_dst = dst]
    BY DEF executed_as
  <2> HIDE DEF dst
  <2>2. executed_as(in, o) =
          [pc |-> pc, seq |-> seq, code |-> code, bp |-> bp, v_src |-> v_src,
           v_dst |-> dst, taken |-> o.taken, new_pc |-> o.new_pc, trap |-> o.trap]
    BY <1>1, <2>1
  <2>3. IsInstr(executed_as(in, o))
    BY <2>2 DEF IsInstr
  <2> QED
    BY <1>1, <2>2, <2>3 DEF Same
<1>4. ASSUME NEW m PROVE Same(loaded(in, m), in)
  <2>1. CASE ~is_load(in.code)
    BY <2>1 DEF loaded, Same
  <2>2. CASE is_load(in.code)
    <3> DEFINE dst == [in.v_dst EXCEPT ![1] = Mix(in.pc, in.v_src[1], m, 1)]
    <3>1. loaded(in, m) = [in EXCEPT !.v_dst = dst]
      BY <1>1, <2>2 DEF loaded
    <3> HIDE DEF dst
    <3>2. loaded(in, m) =
            [pc |-> pc, seq |-> seq, code |-> code, bp |-> bp, v_src |-> v_src,
             v_dst |-> dst, taken |-> taken, new_pc |-> new_pc, trap |-> trap]
      BY <1>1, <3>1
    <3>3. IsInstr(loaded(in, m))
      BY <3>2 DEF IsInstr
    <3> QED
      BY <1>1, <3>2, <3>3 DEF Same
  <2> QED
    BY <2>1, <2>2
<1> QED
  BY <1>2, <1>3, <1>4

LEMMA FirstOfTwo ==
    ASSUME NEW D, NEW s \in Seq(D), NEW t \in Seq(D)
    PROVE  /\ s \o t \in Seq(D)
           /\ s = <<>> => s \o t = t
           /\ s # <<>> => s \o t # <<>> /\ (s \o t)[1] = s[1]
<1>1. /\ s \o t \in Seq(D) /\ Len(s \o t) = Len(s) + Len(t) /\ Len(s) \in Nat /\ Len(t) \in Nat
      /\ \A i \in 1 .. Len(s) + Len(t) : (s \o t)[i] = IF i <= Len(s) THEN s[i] ELSE t[i - Len(s)]
  BY ConcatProperties, LenProperties
<1>2. s = <<>> => s \o t = t
  BY ConcatEmptySeq
<1>3. ASSUME s # <<>> PROVE s \o t # <<>> /\ (s \o t)[1] = s[1]
  <2>1. Len(s) >= 1
    BY <1>1, <1>3, EmptySeq
  <2> QED
    BY <1>1, <2>1, EmptySeq
<1> QED
  BY <1>1, <1>2, <1>3

\* The port that get_target and save_flush take a target from.
LEMMA TargetPorts ==
    /\ target_ports # <<>> =>
          /\ target_ports[1] \in {"WRITEBACK_2_FETCH_TARGET", "BRANCH_2_FETCH_TARGET",
                                  "DECODE_2_FETCH_TARGET", "TARGET", "HOLD_PC"}
          /\ is_ready(target_ports[1])
          /\ target_ports[1] = "TARGET" => ~is_ready("DECODE_2_FETCH_TARGET")
          /\ target_ports[1] = "HOLD_PC" =>
                /\ is_stalled \/ ~is_ready("TARGET")
                /\ ~is_ready("DECODE_2_FETCH_TARGET")
    /\ save_flush_ports # <<>> =>
          /\ save_flush_ports[1] \in {"WRITEBACK_2_FETCH_TARGET", "BRANCH_2_FETCH_TARGET",
                                      "DECODE_2_FETCH_TARGET", "TARGET"}
          /\ is_ready(save_flush_ports[1])
<1> DEFINE a == "WRITEBACK_2_FETCH_TARGET"
           b == "BRANCH_2_FETCH_TARGET"
           c == "DECODE_2_FETCH_TARGET"
           d == "TARGET"
           e == "HOLD_PC"
<1>1. a # b /\ a # c /\ a # d /\ a # e /\ b # c /\ b # d /\ b # e /\ c # d /\ c # e /\ d # e
  OBVIOUS
<1> HIDE DEF a, b, c, d, e
<1>2. \A p : offered(p) = IF is_ready(p) THEN <<p>> ELSE <<>>
  BY DEF offered
<1>3. predicted = IF is_stalled \/ ~is_ready(d) THEN <<>> ELSE <<d>>
  BY <1>2 DEF predicted, d
<1>4. target_ports = offered(a) \o offered(b) \o offered(c) \o predicted \o offered(e)
  BY DEF target_ports, a, b, c, e
<1>5. save_flush_ports = offered(b) \o offered(c) \o offered(d) \o offered(a)
  BY DEF save_flush_ports, a, b, c, d
<1> DEFINE D == {a, b, c, d, e}
           s1 == offered(a) \o offered(b)
           s2 == s1 \o offered(c)
           s3 == s2 \o predicted
           u1 == offered(b) \o offered(c)
           u2 == u1 \o offered(d)
<1>6. /\ offered(a) \in Seq(D) /\ offered(b) \in Seq(D) /\ offered(c) \in Seq(D)
      /\ offered(d) \in Seq(D) /\ offered(e) \in Seq(D) /\ predicted \in Seq(D)
  <2>1. \A p \in D : <<>> \in Seq(D) /\ <<p>> \in Seq(D)
    OBVIOUS
  <2>2. a \in D /\ b \in D /\ c \in D /\ d \in D /\ e \in D
    OBVIOUS
  <2> HIDE DEF D
  <2> QED
    BY <1>2, <1>3, <2>1, <2>2
<1>7. \A p : (offered(p) = <<>> <=> ~is_ready(p)) /\ (is_ready(p) => offered(p)[1] = p)
  BY <1>2
<1>8. (predicted = <<>> <=> (is_stalled \/ ~is_ready(d))) /\ (predicted # <<>> => predicted[1] = d)
  BY <1>3
<1> HIDE DEF D
<1>9. ASSUME NEW s \in Seq(D), NEW t \in Seq(D), NEW A, s # <<>> => s[1] \in A,
             t # <<>> => t[1] \in A
      PROVE  /\ s \o t \in Seq(D)
             /\ s \o t # <<>> => (s \o t)[1] \in A
             /\ s # <<>> \/ t # <<>> => s \o t # <<>>
             /\ s # <<>> => (s \o t)[1] = s[1]
  <2>1. /\ s \o t \in Seq(D)
        /\ s = <<>> => s \o t = t
        /\ s # <<>> => s \o t # <<>> /\ (s \o t)[1] = s[1]
    BY FirstOfTwo
  <2> DEFINE u == s \o t
  <2>2. u \in Seq(D) /\ (s = <<>> => u = t) /\ (s # <<>> => u # <<>> /\ u[1] = s[1])
    BY <2>1
  <2> HIDE DEF u
  <2>3. u \in Seq(D) /\ (u # <<>> => u[1] \in A) /\ (s # <<>> \/ t # <<>> => u # <<>>)
        /\ (s # <<>> => u[1] = s[1])
    BY <1>9, <2>2
  <2> QED
    BY <2>3 DEF u
<1> DEFINE on == {p \in D : is_ready(p)}
<1>10. /\ \A p \in D : offered(p) # <<>> => offered(p)[1] \in on
       /\ predicted # <<>> => predicted[1] \in on
       /\ a \in D /\ b \in D /\ c \in D /\ d \in D /\ e \in D
       /\ \A p \in on : is_ready(p)
  BY <1>7, <1>8 DEF D
<1> HIDE DEF on
<1>11. s1 \in Seq(D) /\ (s1 # <<>> => s1[1] \in on) /\ (s1 # <<>> => s1[1] \in {a, b})
  <2>1. (offered(a) # <<>> => offered(a)[1] \in {a, b}) /\ (offered(b) # <<>> => offered(b)[1] \in {a, b})
    BY <1>7
  <2> QED
    BY <1>6, <1>9, <1>10, <2>1
<1>12. u1 \in Seq(D) /\ (u1 # <<>> => u1[1] \in on) /\ (u1 # <<>> => u1[1] \in {a, b, c, d})
  <2>1. /\ offered(b) # <<>> => offered(b)[1] \in {a, b, c, d}
        /\ offered(c) # <<>> => offered(c)[1] \in {a, b, c, d}
    BY <1>7
  <2> QED
    BY <1>6, <1>9, <1>10, <2>1
<1> HIDE DEF s1, u1
<1>13. /\ s2 \in Seq(D) /\ (s2 # <<>> => s2[1] \in on) /\ (s2 # <<>> => s2[1] \in {a, b, c})
       /\ is_ready(c) => s2 # <<>>
  <2>1. /\ s1 # <<>> => s1[1] \in {a, b, c}
        /\ offered(c) # <<>> => offered(c)[1] \in {a, b, c}
    BY <1>7, <1>11
  <2> QED
    BY <1>6, <1>7, <1>9, <1>10, <1>11, <2>1
<1>14. u2 \in Seq(D) /\ (u2 # <<>> => u2[1] \in on) /\ (u2 # <<>> => u2[1] \in {a, b, c, d})
  <2>1. offered(d) # <<>> => offered(d)[1] \in {a, b, c, d}
    BY <1>7
  <2> QED
    BY <1>6, <1>9, <1>10, <1>12, <2>1
<1> HIDE DEF s2, u2
<1>15. /\ s3 \in Seq(D) /\ (s3 # <<>> => s3[1] \in on) /\ (s3 # <<>> => s3[1] \in {a, b, c, d})
       /\ s3 # <<>> /\ s3[1] = d => ~is_ready(c)
       /\ s3 = <<>> => ~is_ready(c) /\ (is_stalled \/ ~is_ready(d))
  <2>1. /\ s2 # <<>> => s2[1] \in {a, b, c, d}
        /\ predicted # <<>> => predicted[1] \in {a, b, c, d}
    BY <1>8, <1>13
  <2>2. /\ s3 \in Seq(D) /\ (s3 # <<>> => s3[1] \in on) /\ (s3 # <<>> => s3[1] \in {a, b, c, d})
        /\ s2 # <<>> \/ predicted # <<>> => s3 # <<>>
        /\ s2 # <<>> => s3[1] = s2[1]
    BY <1>6, <1>9, <1>10, <1>13, <2>1
  <2> QED
    BY <1>1, <1>8, <1>13, <2>2
<1> HIDE DEF s3
<1>16. target_ports = s3 \o offered(e) /\ save_flush_ports = u2 \o offered(a)
  BY <1>4, <1>5 DEF s1, s2, s3, u1, u2
<1>17. /\ target_ports # <<>> => target_ports[1] \in {a, b, c, d, e} /\ target_ports[1] \in on
       /\ s3 # <<>> => target_ports[1] = s3[1]
  <2>1. /\ s3 # <<>> => s3[1] \in {a, b, c, d, e}
        /\ offered(e) # <<>> => offered(e)[1] \in {a, b, c, d, e}
    BY <1>7, <1>15
  <2> QED
    BY <1>6, <1>9, <1>10, <1>15, <1>16, <2>1
<1>18. save_flush_ports # <<>> =>
            save_flush_ports[1] \in {a, b, c, d} /\ save_flush_ports[1] \in on
  <2>1. offered(a) # <<>> => offered(a)[1] \in {a, b, c, d}
    BY <1>7
  <2> QED
    BY <1>6, <1>9, <1>10, <1>14, <1>16, <2>1
<1>19. /\ target_ports # <<>> =>
            /\ target_ports[1] \in {a, b, c, d, e} /\ is_ready(target_ports[1])
            /\ target_ports[1] = d => ~is_ready(c)
            /\ target_ports[1] = e => (is_stalled \/ ~is_ready(d)) /\ ~is_ready(c)
       /\ save_flush_ports # <<>> =>
            save_flush_ports[1] \in {a, b, c, d} /\ is_ready(save_flush_ports[1])
  BY <1>1, <1>10, <1>15, <1>17, <1>18
<1> QED
  BY <1>19 DEF a, b, c, d, e

LEMMA FetchPorts ==
    /\ {"HOLD_PC", "TARGET", "HIT_OR_MISS", "LONG_LATENCY_PC_HOLDER", "FETCH_2_DECODE"} \subseteq Ports
    /\ {"WRITEBACK_2_FETCH_TARGET", "BRANCH_2_FETCH_TARGET", "DECODE_2_FETCH_TARGET"} \subseteq Ports
  BY DEF Ports, fetch_ports, decode_ports, branch_ports, writeback_ports

Programs == [Addr -> Codes \cup {Unread}]

\* What fetch sends: in a miss the saved target and then the missing address;
\* on a hit the target, the next one and the instruction.
LEMMA FetchSends ==
    ASSUME IsWire(wire), prog \in Programs, FetchClock
    PROVE  LET H == "HIT_OR_MISS"
               L == "LONG_LATENCY_PC_HOLDER"
               O == "HOLD_PC"
               T == "TARGET"
               F == "FETCH_2_DECODE"
           IN  /\ prog' \in Programs
               /\ \/ /\ is_ready(H) /\ wire'[F] = wire[F] /\ wire'[L] = wire[L]
                     /\ \/ wire'[T] = wire[T]
                        \/ /\ save_flush_ports # <<>>
                           /\ wire'[T] = sent(T, wire[T], read(save_flush_ports[1]))
                     /\ wire'[O] = wire[O] \/ (is_ready(L) /\ wire'[O] = sent(O, wire[O], read(L)))
                  \/ wire' = wire
                  \/ /\ ~is_ready(H) /\ target_ports # <<>> /\ wire'[F] = wire[F]
                     /\ wire'[T] = wire[T] /\ wire'[O] = wire[O]
                     /\ wire'[L] = sent(L, wire[L], get_target)
                  \/ /\ ~is_ready(H) /\ target_ports # <<>> /\ wire'[L] = wire[L] /\ wire'[H] = wire[H]
                     /\ wire'[O] = sent(O, wire[O], get_target)
                     /\ \E in, t : /\ IsInstr(in) /\ in.seq = get_target.seq /\ in.code \in Codes
                                   /\ t.seq = get_target.seq + 1
                                   /\ wire'[T] = sent(T, wire[T], t)
                                   /\ wire'[F] = sent(F, wire[F], in)
<1> DEFINE H == "HIT_OR_MISS"
           L == "LONG_LATENCY_PC_HOLDER"
           O == "HOLD_PC"
           T == "TARGET"
           F == "FETCH_2_DECODE"
<1>0. /\ H \in Ports /\ L \in Ports /\ O \in Ports /\ T \in Ports /\ F \in Ports
      /\ H # L /\ H # O /\ H # T /\ H # F /\ L # O /\ L # T /\ L # F /\ O # T /\ O # F /\ T # F
  BY FetchPorts
<1>1. CASE FetchInMiss
  <2> DEFINE v == save_flush(wire)
             x == read(save_flush_ports[1])
             no == FALSE
  <2>1. /\ is_ready(H) /\ prog' = prog
        /\ IF is_ready(L) THEN wire' = v ++ <<O, read(L)>> ELSE wire' = v ++ <<H, no>>
    BY <1>1 DEF FetchInMiss
  <2>2. v = wire \/ (save_flush_ports # <<>> /\ v = wire ++ <<T, x>>)
    BY DEF save_flush
  <2> HIDE DEF H, L, O, T, F, v, x, no
  <2>3. /\ IsWire(v) /\ v[F] = wire[F] /\ v[L] = wire[L] /\ v[O] = wire[O]
        /\ v[T] = wire[T] \/ (save_flush_ports # <<>> /\ v[T] = sent(T, wire[T], x))
    BY <1>0, <2>2, Written
  <2>4. /\ wire'[F] = v[F] /\ wire'[L] = v[L] /\ wire'[T] = v[T]
        /\ wire'[O] = v[O] \/ (is_ready(L) /\ wire'[O] = sent(O, v[O], read(L)))
    BY <1>0, <2>1, <2>3, Written
  <2>5. /\ wire'[F] = wire[F] /\ wire'[L] = wire[L]
        /\ wire'[T] = wire[T] \/ (save_flush_ports # <<>> /\ wire'[T] = sent(T, wire[T], x))
        /\ wire'[O] = wire[O] \/ (is_ready(L) /\ wire'[O] = sent(O, wire[O], read(L)))
    BY <2>3, <2>4
  <2> QED
    BY <2>1, <2>5 DEF H, L, O, T, F, x
<1>2. CASE FetchBubble
  BY <1>2 DEF FetchBubble
<1>3. CASE FetchMiss
  <2> DEFINE no == FALSE
             x == get_target
  <2>1. ~is_ready(H) /\ target_ports # <<>> /\ prog' = prog /\ wire' = wire ++ <<H, no>> ++ <<L, x>>
    BY <1>3 DEF FetchMiss
  <2> HIDE DEF H, L, O, T, F, no, x
  <2>2. /\ wire'[L] = sent(L, wire[L], x)
        /\ wire'[F] = wire[F] /\ wire'[T] = wire[T] /\ wire'[O] = wire[O]
    BY <1>0, <2>1, WrittenTwice
  <2> QED
    BY <2>1, <2>2 DEF H, L, O, T, F, x
<1>4. CASE FetchHit
  <2> DEFINE x == get_target
             pc == x.address
  <2>1. PICK bp, i :
            /\ i \in fetch_instr(pc)
            /\ prog' = IF pc = Junk THEN prog ELSE [prog EXCEPT ![pc] = i]
            /\ wire' = wire ++ <<O, x>>
                            ++ <<T, get_predicted_target(fetched(pc, x.seq, i, bp))>>
                            ++ <<F, fetched(pc, x.seq, i, bp)>>
    BY <1>4 DEF FetchHit
  <2> DEFINE in == fetched(pc, x.seq, i, bp)
             t == get_predicted_target(in)
  <2>2. ~is_ready(H) /\ target_ports # <<>>
    BY <1>4 DEF FetchHit
  <2>3. i \in Codes
    <3>1. fetch_instr(pc) \subseteq Codes
      BY DEF fetch_instr, Codes, Programs
    <3> QED
      BY <2>1, <3>1
  <2>4. IsInstr(in) /\ in.seq = x.seq /\ in.code = i
    BY DEF IsInstr, fetched
  <2>5. t.seq = x.seq + 1
    BY <2>4 DEF get_predicted_target, Target
  <2>6. prog' \in Programs
    BY <2>1, <2>3 DEF Programs
  <2>7. wire' = wire ++ <<O, x>> ++ <<T, t>> ++ <<F, in>>
    BY <2>1
  <2> HIDE DEF H, L, O, T, F, x, in, t
  <2>8. /\ wire'[O] = sent(O, wire[O], x) /\ wire'[T] = sent(T, wire[T], t)
        /\ wire'[F] = sent(F, wire[F], in) /\ wire'[L] = wire[L] /\ wire'[H] = wire[H]
    BY <1>0, <2>7, WrittenThrice
  <2> QED
    BY <2>2, <2>3, <2>4, <2>5, <2>6, <2>8 DEF H, L, O, T, F, x
<1> QED
  BY <1>1, <1>2, <1>3, <1>4 DEF FetchClock

LEMMA DecodePorts ==
    {"DECODE_2_FETCH", "DECODE_2_FETCH_FLUSH", "DECODE_2_FETCH_TARGET", "DECODE_2_FETCH_STALL",
     "DECODE_2_DECODE", "DECODE_2_EXECUTE_SRC1_COMMAND", "DECODE_2_EXECUTE_SRC2_COMMAND",
     "DECODE_2_BYPASSING_UNIT_NOTIFY", "DECODE_2_EXECUTE"} \subseteq Ports
  BY DEF Ports, decode_ports

\* A misprediction that decode finds: fetch is sent the target behind the
\* instruction, and flushed as soon as the instruction is issued.
LEMMA MispredictionSends ==
    ASSUME IsWire(wire), NEW in, NEW stall \in BOOLEAN
    PROVE  LET G == "DECODE_2_FETCH_FLUSH"
               T == "DECODE_2_FETCH_TARGET"
               w == handle_misprediction(wire, in, stall)
           IN  /\ IsWire(w)
               /\ \A q \in Ports : q \notin {"DECODE_2_FETCH", G, T} => w[q] = wire[q]
               /\ \/ w[T] = wire[T]
                  \/ /\ \E t : t.seq = in.seq + 1 /\ w[T] = sent(T, wire[T], t)
                     /\ ~stall => w[G] = sent(G, wire[G], TRUE)
<1> DEFINE G == "DECODE_2_FETCH_FLUSH"
           T == "DECODE_2_FETCH_TARGET"
           P == "DECODE_2_FETCH"
           on == TRUE
           a == get_bp_upd(in)
           t == get_actual_decoded_target(in)
           w1 == wire ++ <<P, a>>
           w2 == write_if(~stall, w1, <<G, on>>)
           w3 == write_if(~from_stall, w2, <<T, t>>)
           w == handle_misprediction(wire, in, stall)
<1>1. w = IF ~is_misprediction(in) THEN wire ELSE w3
  BY DEF handle_misprediction
<1>2. P \in Ports /\ G \in Ports /\ T \in Ports /\ P # G /\ P # T /\ G # T
  BY DecodePorts
<1>3. t.seq = in.seq + 1
  BY DEF get_actual_decoded_target, Target
<1> HIDE DEF G, T, P, on, a, t, w
<1>4. IsWire(w1) /\ \A q \in Ports : q # P => w1[q] = wire[q]
  BY <1>2, Written
<1> HIDE DEF w1
<1>5. /\ IsWire(w2) /\ \A q \in Ports : q # G => w2[q] = w1[q]
      /\ ~stall => w2[G] = sent(G, w1[G], on)
  BY <1>2, <1>4, Written DEF write_if
<1> HIDE DEF w2
<1>6. /\ IsWire(w3) /\ \A q \in Ports : q # T => w3[q] = w2[q]
      /\ w3[T] = w2[T] \/ w3[T] = sent(T, w2[T], t)
  BY <1>2, <1>5, Written DEF write_if
<1> HIDE DEF w3
<1>7. /\ IsWire(w) /\ \A q \in Ports : q # P /\ q # G /\ q # T => w[q] = wire[q]
      /\ \/ w[T] = wire[T]
         \/ /\ w[T] = sent(T, wire[T], t)
            /\ ~stall => w[G] = sent(G, wire[G], on)
  BY <1>1, <1>2, <1>4, <1>5, <1>6
<1> QED
  BY <1>3, <1>7 DEF G, T, P, on, w

\* There is an instruction to decode and no flush forbids it.
decoding == ~is_flush /\ ~is_ready("DECODE_2_FETCH_FLUSH") /\ has_instr

decoded == [read_instr EXCEPT !.v_src = <<operand(read_instr, 1), operand(read_instr, 2)>>]

\* The command for the operand k, if there is one.
commanded(k) == ~is_in_RF(board_now, read_instr.code.src[k]) /\ can_bypass(board_now, read_instr.code.src[k])
CommandSent(C, k) ==
    wire'[C] = IF commanded(k)
               THEN sent(C, wire[C], bypass_direction(board_now, read_instr.code.src[k])) ELSE wire[C]

\* Decode keeps the instruction or issues it.
LEMMA DecodeSends ==
    ASSUME IsWire(wire), \A p \in Ports : PortFits(p, wire[p]), DecodeClock
    PROVE  LET D == "DECODE_2_DECODE"
               S == "DECODE_2_FETCH_STALL"
               X == "DECODE_2_EXECUTE"
               G == "DECODE_2_FETCH_FLUSH"
               T == "DECODE_2_FETCH_TARGET"
               C == "DECODE_2_EXECUTE_SRC1_COMMAND"
               B == "DECODE_2_EXECUTE_SRC2_COMMAND"
           IN  /\ board' = board_now /\ prog' = prog /\ rf' = rf
               /\ \/ wire' = wire
                  \/ /\ decoding /\ wire'[X] = wire[X]
                     /\ wire'[D] = sent(D, wire[D], read_instr)
                     /\ wire'[S] = sent(S, wire[S], TRUE)
                     /\ wire'[C] = wire[C] /\ wire'[B] = wire[B]
                     /\ \/ wire'[T] = wire[T]
                        \/ \E t : t.seq = read_instr.seq + 1 /\ wire'[T] = sent(T, wire[T], t)
                  \/ /\ decoding /\ wire'[D] = wire[D] /\ wire'[S] = wire[S]
                     /\ ~is_stall(board_now, read_instr.code)
                     /\ Same(decoded, read_instr) /\ wire'[X] = sent(X, wire[X], decoded)
                     /\ CommandSent(C, 1) /\ CommandSent(B, 2)
                     /\ \/ wire'[T] = wire[T]
                        \/ /\ \E t : t.seq = read_instr.seq + 1 /\ wire'[T] = sent(T, wire[T], t)
                           /\ wire'[G] = sent(G, wire[G], TRUE)
<1> DEFINE D == "DECODE_2_DECODE"
           S == "DECODE_2_FETCH_STALL"
           X == "DECODE_2_EXECUTE"
           N == "DECODE_2_BYPASSING_UNIT_NOTIFY"
           G == "DECODE_2_FETCH_FLUSH"
           T == "DECODE_2_FETCH_TARGET"
           P == "DECODE_2_FETCH"
           C == "DECODE_2_EXECUTE_SRC1_COMMAND"
           B == "DECODE_2_EXECUTE_SRC2_COMMAND"
           on == TRUE
<1>0. /\ D \in Ports /\ S \in Ports /\ X \in Ports /\ N \in Ports /\ G \in Ports /\ T \in Ports
      /\ C \in Ports /\ B \in Ports
      /\ {D, S, X, N, C, B} \cap {P, G, T} = {}
      /\ D # S /\ D # X /\ D # N /\ D # C /\ D # B /\ S # X /\ S # N /\ S # C /\ S # B
      /\ X # N /\ X # C /\ X # B /\ N # C /\ N # B /\ C # B
      /\ G # D /\ G # S /\ G # X /\ G # N /\ G # C /\ G # B
      /\ T # D /\ T # S /\ T # X /\ T # N /\ T # C /\ T # B
  BY DecodePorts
<1>1. board' = board_now /\ prog' = prog /\ rf' = rf
  BY DEF DecodeClock, DecodeFlush, DecodeBubble, DecodeStall, DecodeIssue
<1>2. CASE DecodeFlush \/ DecodeBubble
  BY <1>1, <1>2 DEF DecodeFlush, DecodeBubble
<1>3. CASE DecodeStall
  <2> DEFINE w == handle_misprediction(wire, read_instr, TRUE)
             in == read_instr
  <2>1. decoding /\ wire' = w ++ <<S, on>> ++ <<D, in>>
    BY <1>3 DEF DecodeStall, decoding, has_flush, has_trap, is_flush
  <2>2. /\ IsWire(w) /\ \A q \in Ports : q \notin {P, G, T} => w[q] = wire[q]
        /\ w[T] = wire[T] \/ (\E t : t.seq = in.seq + 1 /\ w[T] = sent(T, wire[T], t))
    BY MispredictionSends
  <2> HIDE DEF D, S, X, N, G, T, P, C, B, on, w, in
  <2>3. /\ wire'[S] = sent(S, w[S], on) /\ wire'[D] = sent(D, w[D], in)
        /\ \A r \in Ports : r # S /\ r # D => wire'[r] = w[r]
    BY <1>0, <2>1, <2>2, WrittenTwice
  <2>4. w[S] = wire[S] /\ w[D] = wire[D] /\ w[X] = wire[X] /\ w[C] = wire[C] /\ w[B] = wire[B]
    BY <1>0, <2>2
  <2>5. /\ wire'[X] = wire[X] /\ wire'[D] = sent(D, wire[D], in) /\ wire'[S] = sent(S, wire[S], on)
        /\ wire'[C] = wire[C] /\ wire'[B] = wire[B] /\ wire'[T] = w[T]
    BY <1>0, <2>3, <2>4
  <2>6. wire'[T] = wire[T] \/ (\E t : t.seq = in.seq + 1 /\ wire'[T] = sent(T, wire[T], t))
    BY <2>2, <2>5
  <2> QED
    BY <1>1, <2>1, <2>5, <2>6 DEF D, S, X, G, T, C, B, on, in
<1>4. CASE DecodeIssue
  <2> DEFINE w1 == handle_misprediction(wire, decoded, FALSE)
             w2 == command(w1, decoded, 1, C)
             w3 == command(w2, decoded, 2, B)
             i == decoded.code
             dir(k) == bypass_direction(board_now, read_instr.code.src[k])
  <2>1. /\ decoding /\ ~is_stall(board_now, read_instr.code)
        /\ wire' = w3 ++ <<N, i>> ++ <<X, decoded>>
    BY <1>4 DEF DecodeIssue, decoded, decoding, has_flush, has_trap, is_flush
  <2>2. IsInstr(read_instr)
    BY <2>1, ReadInstr DEF decoding, has_instr, from_stall, read_instr, InstrPorts
  <2>3. Same(decoded, read_instr)
    BY <2>2, InstrKept DEF decoded
  <2>4. decoded.seq = read_instr.seq /\ decoded.code = read_instr.code
    BY <2>3 DEF Same
  <2>5. /\ IsWire(w1) /\ \A q \in Ports : q \notin {P, G, T} => w1[q] = wire[q]
        /\ \/ w1[T] = wire[T]
           \/ /\ \E t : t.seq = decoded.seq + 1 /\ w1[T] = sent(T, wire[T], t)
              /\ w1[G] = sent(G, wire[G], on)
    BY MispredictionSends
  <2>6. /\ w2 = write_if(commanded(1), w1, <<C, dir(1)>>)
        /\ w3 = write_if(commanded(2), w2, <<B, dir(2)>>)
    BY <2>4 DEF command, commanded
  <2> HIDE DEF D, S, X, N, G, T, P, C, B, on, w1, w2, w3, i, dir
  <2>7. /\ IsWire(w2) /\ \A q \in Ports : q # C => w2[q] = w1[q]
        /\ w2[C] = IF commanded(1) THEN sent(C, w1[C], dir(1)) ELSE w1[C]
    BY <1>0, <2>5, <2>6, Written DEF write_if
  <2>8. /\ IsWire(w3) /\ \A q \in Ports : q # B => w3[q] = w2[q]
        /\ w3[B] = IF commanded(2) THEN sent(B, w2[B], dir(2)) ELSE w2[B]
    <3>1. IsWire(w2) /\ B \in Ports /\ w3 = write_if(commanded(2), w2, <<B, dir(2)>>)
      BY <1>0, <2>6, <2>7
    <3> QED
      BY <3>1, Written DEF write_if
  <2>9. /\ wire'[X] = sent(X, w3[X], decoded)
        /\ \A r \in Ports : r # X /\ r # N => wire'[r] = w3[r]
    BY <1>0, <2>1, <2>8, WrittenTwice
  <2>10. /\ w1[S] = wire[S] /\ w1[D] = wire[D] /\ w1[X] = wire[X] /\ w1[C] = wire[C]
         /\ w1[B] = wire[B]
    BY <1>0, <2>5
  <2>11. /\ wire'[X] = sent(X, wire[X], decoded) /\ wire'[D] = wire[D] /\ wire'[S] = wire[S]
         /\ wire'[T] = w1[T] /\ wire'[G] = w1[G]
         /\ wire'[C] = IF commanded(1) THEN sent(C, wire[C], dir(1)) ELSE wire[C]
         /\ wire'[B] = IF commanded(2) THEN sent(B, wire[B], dir(2)) ELSE wire[B]
    BY <1>0, <2>7, <2>8, <2>9, <2>10
  <2>12. \/ wire'[T] = wire[T]
         \/ /\ \E t : t.seq = read_instr.seq + 1 /\ wire'[T] = sent(T, wire[T], t)
            /\ wire'[G] = sent(G, wire[G], on)
    BY <2>4, <2>5, <2>11
  <2>13. CommandSent(C, 1) /\ CommandSent(B, 2)
    BY <2>11 DEF CommandSent, dir
  <2> QED
    BY <1>1, <2>1, <2>3, <2>11, <2>12, <2>13 DEF D, S, X, G, T, C, B, on
<1> QED
  BY <1>2, <1>3, <1>4 DEF DecodeClock

LEMMA ExecutePorts ==
    {"EXECUTE_2_EXECUTE_LONG_LATENCY", "EXECUTE_2_EXECUTE_BYPASS",
     "EXECUTE_COMPLEX_ALU_2_EXECUTE_BYPASS", "EXECUTE_2_MEMORY", "EXECUTE_2_BRANCH",
     "EXECUTE_2_WRITEBACK", "DECODE_2_EXECUTE"} \subseteq Ports
  BY DEF Ports, execute_ports, decode_ports

\* The issued instruction goes to port p without the long ALU.
goes(p) ==
    /\ is_ready("DECODE_2_EXECUTE") /\ ~is_long_arithmetic(read("DECODE_2_EXECUTE").code)
    /\ next_port(read("DECODE_2_EXECUTE").code) = p
\* The issued instruction goes to the long ALU.
goes_long == is_ready("DECODE_2_EXECUTE") /\ is_long_arithmetic(read("DECODE_2_EXECUTE").code)

\* What execute sends to the next stages, with the bypasses.
LEMMA ExecuteSends ==
    ASSUME IsWire(wire), \A p \in Ports : PortFits(p, wire[p]), ExecuteClock,
           ~is_flush /\ is_ready("DECODE_2_EXECUTE")
           /\ get_instruction_latency(read("DECODE_2_EXECUTE").code) = 1 => ~completes
    PROVE  LET A == "EXECUTE_2_EXECUTE_LONG_LATENCY"
               B == "EXECUTE_2_BRANCH"
               M == "EXECUTE_2_MEMORY"
               E == "EXECUTE_2_WRITEBACK"
               Y == "EXECUTE_2_EXECUTE_BYPASS"
               C == "EXECUTE_COMPLEX_ALU_2_EXECUTE_BYPASS"
               d == read("DECODE_2_EXECUTE")
           IN  /\ prog' = prog /\ rf' = rf
               /\ \/ is_flush /\ wire' = wire /\ flush_expiration_latency' = saved_flush
                  \/ /\ ~is_flush /\ flush_expiration_latency' = clocked_flush
                     /\ \E x :
                        /\ is_ready("DECODE_2_EXECUTE") => Same(x, d)
                        /\ wire'[A] = IF goes_long THEN sent(A, wire[A], x) ELSE wire[A]
                        /\ wire'[B] = IF goes(B) THEN sent(B, wire[B], x) ELSE wire[B]
                        /\ wire'[M] = IF goes(M) THEN sent(M, wire[M], x) ELSE wire[M]
                        /\ wire'[E] = IF completes THEN sent(E, wire[E], read(A))
                                      ELSE IF goes(E) THEN sent(E, wire[E], x) ELSE wire[E]
                        /\ goes(E) => ~completes
                        /\ wire'[Y] = IF is_ready("DECODE_2_EXECUTE") /\ ~goes_long
                                      THEN sent(Y, wire[Y], x.v_dst) ELSE wire[Y]
                        /\ wire'[C] = IF completes THEN sent(C, wire[C], read(A).v_dst) ELSE wire[C]
<1> DEFINE A == "EXECUTE_2_EXECUTE_LONG_LATENCY"
           B == "EXECUTE_2_BRANCH"
           M == "EXECUTE_2_MEMORY"
           E == "EXECUTE_2_WRITEBACK"
           Y == "EXECUTE_2_EXECUTE_BYPASS"
           C == "EXECUTE_COMPLEX_ALU_2_EXECUTE_BYPASS"
           X == "DECODE_2_EXECUTE"
           d == read(X)
           w == long_completion(wire)
<1>0. /\ A \in Ports /\ B \in Ports /\ M \in Ports /\ E \in Ports /\ Y \in Ports /\ C \in Ports
      /\ X \in Ports
      /\ A # B /\ A # M /\ A # E /\ A # Y /\ A # C /\ B # M /\ B # E /\ B # Y /\ B # C
      /\ M # E /\ M # Y /\ M # C /\ E # Y /\ E # C /\ Y # C
  BY ExecutePorts
<1>1. prog' = prog /\ rf' = rf
  BY DEF ExecuteClock, ExecuteFlush, ExecuteBubble, ExecuteInstr
<1>2. CASE ExecuteFlush
  BY <1>1, <1>2 DEF ExecuteFlush
<1>3. /\ IsWire(w) /\ w[A] = wire[A] /\ w[B] = wire[B] /\ w[M] = wire[M] /\ w[Y] = wire[Y]
      /\ w[E] = IF completes THEN sent(E, wire[E], read(A)) ELSE wire[E]
      /\ w[C] = IF completes THEN sent(C, wire[C], read(A).v_dst) ELSE wire[C]
  <2> DEFINE a == read(A)
             b == a.v_dst
  <2>1. w = IF completes THEN wire ++ <<C, b>> ++ <<E, a>> ELSE wire
    BY DEF long_completion, completes
  <2> HIDE DEF A, B, M, E, Y, C, w, a, b
  <2>2. CASE completes
    <3>1. w = wire ++ <<C, b>> ++ <<E, a>>
      BY <2>1, <2>2
    <3>2. /\ IsWire(w) /\ w[C] = sent(C, wire[C], b) /\ w[E] = sent(E, wire[E], a)
          /\ \A r \in Ports : r # C /\ r # E => w[r] = wire[r]
      BY <1>0, <3>1, WrittenTwice
    <3> QED
      BY <1>0, <2>2, <3>2 DEF a, b
  <2>3. CASE ~completes
    BY <2>1, <2>3
  <2> QED
    BY <2>2, <2>3
<1>4. CASE ExecuteBubble
  <2>1. ~is_flush /\ ~is_ready(X) /\ flush_expiration_latency' = clocked_flush /\ wire' = w
    BY <1>4 DEF ExecuteBubble
  <2>2. ~goes_long /\ \A p : ~goes(p)
    BY <2>1 DEF goes_long, goes
  <2> HIDE DEF w, A, B, M, E, Y, C, X, d
  <2> QED
    BY <1>1, <1>3, <2>1, <2>2 DEF A, B, M, E, Y, C, X
<1>5. CASE ExecuteInstr
  <2>1. ~is_flush /\ is_ready(X) /\ flush_expiration_latency' = clocked_flush
    BY <1>5 DEF ExecuteInstr
  <2>2. PICK x : Same(x, d) /\ wire' = routed(w, x)
    <3> DEFINE u == <<bypassed(d, 1, "DECODE_2_EXECUTE_SRC1_COMMAND"),
                      bypassed(d, 2, "DECODE_2_EXECUTE_SRC2_COMMAND")>>
               in == [d EXCEPT !.v_src = u]
    <3>1. IsInstr(d)
      BY <2>1, <1>0, ReadInstr DEF InstrPorts
    <3>2. PICK o : wire' = routed(w, executed_as(in, o))
      BY <1>5 DEF ExecuteInstr
    <3> HIDE DEF u, d, w
    <3>3. Same(in, d)
      BY <3>1, InstrKept
    <3> HIDE DEF in
    <3>4. Same(executed_as(in, o), in)
      BY <3>3, InstrKept DEF Same
    <3>5. Same(executed_as(in, o), d)
      BY <3>3, <3>4 DEF Same
    <3> QED
      BY <3>2, <3>5
  <2>3. x.code = d.code
    BY <2>2 DEF Same
  <2>4. CASE is_long_arithmetic(d.code)
    <3>1. wire' = w ++ <<A, x>>
      BY <2>2, <2>3, <2>4 DEF routed
    <3>2. goes_long /\ \A p : ~goes(p)
      BY <2>1, <2>4 DEF goes_long, goes
    <3> HIDE DEF w, A, B, M, E, Y, C, X, d
    <3>3. wire'[A] = sent(A, w[A], x) /\ \A r \in Ports : r # A => wire'[r] = w[r]
      BY <1>0, <1>3, <3>1, Written
    <3>4. /\ wire'[A] = sent(A, wire[A], x) /\ wire'[B] = wire[B] /\ wire'[M] = wire[M]
          /\ wire'[Y] = wire[Y] /\ wire'[E] = w[E] /\ wire'[C] = w[C]
      BY <1>0, <1>3, <3>3
    <3> QED
      BY <1>1, <1>3, <2>1, <2>2, <3>2, <3>4 DEF A, B, M, E, Y, C, X, d
  <2>5. CASE ~is_long_arithmetic(d.code)
    <3> DEFINE p == next_port(d.code)
               v == x.v_dst
    <3>1. wire' = w ++ <<Y, v>> ++ <<p, x>>
      BY <2>2, <2>3, <2>5 DEF routed
    <3>2. ~goes_long /\ \A q : goes(q) <=> q = p
      BY <2>1, <2>5 DEF goes_long, goes
    <3>3. p \in {B, M, E} /\ (p = E => get_instruction_latency(d.code) = 1)
      BY <2>5, Classes
    <3>4. p = E => ~completes
      BY <2>1, <3>3
    <3> HIDE DEF w, A, B, M, E, Y, C, X, d, p, v
    <3>5. /\ wire'[Y] = sent(Y, w[Y], v) /\ wire'[p] = sent(p, w[p], x)
          /\ \A r \in Ports : r # Y /\ r # p => wire'[r] = w[r]
      BY <1>0, <1>3, <3>1, <3>3, WrittenTwice
    <3>6. /\ wire'[A] = wire[A] /\ wire'[Y] = sent(Y, wire[Y], v) /\ wire'[C] = w[C]
          /\ wire'[B] = IF p = B THEN sent(B, wire[B], x) ELSE wire[B]
          /\ wire'[M] = IF p = M THEN sent(M, wire[M], x) ELSE wire[M]
          /\ wire'[E] = IF p = E THEN sent(E, w[E], x) ELSE w[E]
      BY <1>0, <1>3, <3>3, <3>5
    <3>7. wire'[E] = IF completes THEN sent(E, wire[E], read(A))
                     ELSE IF p = E THEN sent(E, wire[E], x) ELSE wire[E]
      BY <1>3, <3>4, <3>6
    <3>8. wire'[C] = IF completes THEN sent(C, wire[C], read(A).v_dst) ELSE wire[C]
      BY <1>3, <3>6
    <3>9. (goes(B) <=> p = B) /\ (goes(M) <=> p = M) /\ (goes(E) <=> p = E)
      BY <3>2
    <3> QED
      BY <1>1, <2>1, <2>2, <3>2, <3>4, <3>6, <3>7, <3>8, <3>9 DEF A, B, M, E, Y, C, X, d, v
  <2> QED
    BY <2>4, <2>5
<1> QED
  BY <1>2, <1>4, <1>5 DEF ExecuteClock

\* The memory stage passes its instruction on.
LEMMA MemoryStageSends ==
    ASSUME IsWire(wire), MemClock, is_ready("EXECUTE_2_MEMORY") => IsInstr(read("EXECUTE_2_MEMORY"))
    PROVE  LET W == "MEMORY_2_WRITEBACK"
               Y == "MEMORY_2_EXECUTE_BYPASS"
           IN  /\ prog' = prog /\ rf' = rf
               /\ \/ wire' = wire /\ (is_flush \/ ~is_ready("EXECUTE_2_MEMORY"))
                  \/ /\ ~is_flush /\ is_ready("EXECUTE_2_MEMORY")
                     /\ \E x : /\ Same(x, read("EXECUTE_2_MEMORY"))
                               /\ wire'[W] = sent(W, wire[W], x)
                               /\ wire'[Y] = sent(Y, wire[Y], x.v_dst)
<1> DEFINE W == "MEMORY_2_WRITEBACK"
           Y == "MEMORY_2_EXECUTE_BYPASS"
<1>0. W \in Ports /\ Y \in Ports /\ W # Y
  BY DEF Ports, mem_ports
<1>1. CASE MemIdle
  BY <1>1 DEF MemIdle, mem_flush, is_flush
<1>2. CASE MemInstr
  <2> DEFINE in == read("EXECUTE_2_MEMORY")
             x == loaded(in, memory)
             v == x.v_dst
  <2>1. /\ ~is_flush /\ is_ready("EXECUTE_2_MEMORY") /\ prog' = prog /\ rf' = rf
        /\ wire' = wire ++ <<Y, v>> ++ <<W, x>>
    BY <1>2 DEF MemInstr, mem_flush, is_flush
  <2>2. Same(x, in)
    BY <2>1, InstrKept
  <2> HIDE DEF W, Y, x, v
  <2>3. wire'[W] = sent(W, wire[W], x) /\ wire'[Y] = sent(Y, wire[Y], v)
    BY <1>0, <2>1, WrittenTwice
  <2> QED
    BY <2>1, <2>2, <2>3 DEF W, Y, v
<1> QED
  BY <1>1, <1>2 DEF MemClock

\* The branch stage passes its instruction on and may redirect fetch, which it
\* never does without a flush.
LEMMA BranchStageSends ==
    ASSUME IsWire(wire), BranchClock
    PROVE  LET W == "BRANCH_2_WRITEBACK"
               Y == "BRANCH_2_EXECUTE_BYPASS"
               F == "BRANCH_2_ALL_FLUSH"
               T == "BRANCH_2_FETCH_TARGET"
               in == read("EXECUTE_2_BRANCH")
           IN  /\ prog' = prog /\ rf' = rf
               /\ \/ wire' = wire /\ (is_flush \/ ~is_ready("EXECUTE_2_BRANCH"))
                  \/ /\ ~is_flush /\ is_ready("EXECUTE_2_BRANCH")
                     /\ wire'[W] = sent(W, wire[W], in)
                     /\ wire'[Y] = sent(Y, wire[Y], in.v_dst)
                     /\ \/ wire'[T] = wire[T]
                        \/ /\ wire'[F] = sent(F, wire[F], TRUE)
                           /\ \E t : t.seq = in.seq + 1 /\ wire'[T] = sent(T, wire[T], t)
<1> DEFINE W == "BRANCH_2_WRITEBACK"
           Y == "BRANCH_2_EXECUTE_BYPASS"
           F == "BRANCH_2_ALL_FLUSH"
           N == "BRANCH_2_BYPASSING_UNIT_FLUSH_NOTIFY"
           T == "BRANCH_2_FETCH_TARGET"
           P == "BRANCH_2_FETCH"
           in == read("EXECUTE_2_BRANCH")
<1>0. /\ W \in Ports /\ Y \in Ports /\ F \in Ports /\ N \in Ports /\ T \in Ports /\ P \in Ports
      /\ W # Y /\ W # F /\ W # N /\ W # T /\ W # P /\ Y # F /\ Y # N /\ Y # T /\ Y # P
      /\ F # N /\ F # T /\ F # P /\ N # T /\ N # P /\ T # P
  BY DEF Ports, branch_ports
<1>1. CASE BranchIdle
  BY <1>1 DEF BranchIdle, branch_flush, is_flush
<1>2. CASE BranchInstr
  <2> DEFINE on == TRUE
             a == get_bp_upd(in)
             t == get_actual_target(in)
             v == in.v_dst
             w == wire ++ <<P, a>>
             u == IF is_branch_misprediction(in) THEN flush_all(w, in) ELSE w
  <2>1. /\ ~is_flush /\ is_ready("EXECUTE_2_BRANCH") /\ prog' = prog /\ rf' = rf
        /\ wire' = u ++ <<Y, v>> ++ <<W, in>>
    BY <1>2 DEF BranchInstr, branch_flush, is_flush
  <2>2. u = IF is_branch_misprediction(in) THEN w ++ <<F, on>> ++ <<N, on>> ++ <<T, t>> ELSE w
    BY DEF flush_all
  <2>3. t.seq = in.seq + 1
    BY DEF get_actual_target, Target
  <2> HIDE DEF W, Y, F, N, T, P, in, on, a, t, v, u
  <2>4. IsWire(w) /\ \A q \in Ports : q # P => w[q] = wire[q]
    BY <1>0, Written
  <2> HIDE DEF w
  <2>5. /\ IsWire(u) /\ u[W] = wire[W] /\ u[Y] = wire[Y]
        /\ \/ u[T] = wire[T]
           \/ u[F] = sent(F, wire[F], on) /\ u[T] = sent(T, wire[T], t)
    <3>1. CASE is_branch_misprediction(in)
      <4>1. u = w ++ <<F, on>> ++ <<N, on>> ++ <<T, t>>
        BY <2>2, <3>1
      <4>2. /\ IsWire(u) /\ u[F] = sent(F, w[F], on) /\ u[T] = sent(T, w[T], t)
            /\ \A q \in Ports : q # F /\ q # N /\ q # T => u[q] = w[q]
        BY <1>0, <2>4, <4>1, WrittenThrice
      <4> QED
        BY <1>0, <2>4, <4>2
    <3>2. CASE ~is_branch_misprediction(in)
      BY <1>0, <2>2, <2>4, <3>2
    <3> QED
      BY <3>1, <3>2
  <2>6. /\ wire'[Y] = sent(Y, u[Y], v) /\ wire'[W] = sent(W, u[W], in)
        /\ \A q \in Ports : q # Y /\ q # W => wire'[q] = u[q]
    BY <1>0, <2>1, <2>5, WrittenTwice
  <2>7. /\ wire'[Y] = sent(Y, wire[Y], v) /\ wire'[W] = sent(W, wire[W], in)
        /\ \/ wire'[T] = wire[T]
           \/ wire'[F] = sent(F, wire[F], on) /\ wire'[T] = sent(T, wire[T], t)
    BY <1>0, <2>5, <2>6
  <2> QED
    BY <2>1, <2>3, <2>7 DEF W, Y, F, T, in, on, v
<1> QED
  BY <1>1, <1>2 DEF BranchClock

\* Writeback redirects fetch together with a flush.
Redirected(w) ==
    LET T == w["WRITEBACK_2_FETCH_TARGET"]
    IN  /\ Arrives(T) => Arrives(w["WRITEBACK_2_ALL_FLUSH"])
        /\ \A k \in 1..Len(T) : T[k].data.seq \in Int

LEMMA RedirectSends ==
    ASSUME NEW w, IsWire(w), Redirected(w), NEW cond \in BOOLEAN, NEW t, t.seq \in Int
    PROVE  LET v == redirect(cond, w, t)
           IN  /\ IsWire(v) /\ Redirected(v)
               /\ \A q \in Ports : q # "WRITEBACK_2_ALL_FLUSH" /\ q # "WRITEBACK_2_FETCH_TARGET"
                                   => v[q] = w[q]
               /\ cond \/ Arrives(w["WRITEBACK_2_ALL_FLUSH"]) => Arrives(v["WRITEBACK_2_ALL_FLUSH"])
<1> DEFINE F == "WRITEBACK_2_ALL_FLUSH"
           T == "WRITEBACK_2_FETCH_TARGET"
           on == TRUE
           v == redirect(cond, w, t)
<1>0. F \in Ports /\ T \in Ports /\ F # T /\ latency(F) = 1 /\ Fits(F, on) /\ Fits(T, t)
  BY Latencies DEF Ports, writeback_ports, Fits, InstrPorts
<1>1. v = IF cond THEN w ++ <<F, on>> ++ <<T, t>> ELSE w
  BY DEF redirect
<1>2. CASE ~cond
  <2>1. v = w
    BY <1>1, <1>2
  <2> HIDE DEF v
  <2>2. IsWire(v) /\ Redirected(v) /\ (\A q \in Ports : v[q] = w[q]) /\ v[F] = w[F]
    BY <2>1
  <2> QED
    BY <1>2, <2>2 DEF v
<1>3. CASE cond
  <2>1. v = w ++ <<F, on>> ++ <<T, t>>
    BY <1>1, <1>3
  <2>2. Redirected(w)
    OBVIOUS
  <2> HIDE DEF v, F, T, on
  <2>3. /\ IsWire(v) /\ v[F] = sent(F, w[F], on) /\ v[T] = sent(T, w[T], t)
        /\ \A q \in Ports : q # F /\ q # T => v[q] = w[q]
    BY <1>0, <2>1, WrittenTwice
  <2>4. OnWire(w[F]) /\ OnWire(w[T])
    BY <1>0, OnPort
  <2>5. Arrives(v[F])
    BY <1>0, <2>3, <2>4, Sent
  <2>6. /\ Len(v[T]) = Len(w[T]) + 1 /\ Len(w[T]) \in Nat
        /\ \A k \in 1..Len(w[T]) : v[T][k] = w[T][k]
        /\ arriving(v[T]) = t
    BY <1>0, <2>3, <2>4, Sent
  <2>7. \A k \in 1..Len(v[T]) : v[T][k].data.seq \in Int
    BY <2>2, <2>6 DEF Redirected, arriving, T
  <2>8. Redirected(v)
    BY <2>5, <2>7 DEF Redirected, F, T
  <2> QED
    BY <2>3, <2>5, <2>8 DEF v, F, T
<1> QED
  BY <1>2, <1>3

\* What writeback sends and writes.
LEMMA WritebackStageSends ==
    ASSUME IsWire(wire), WritebackClock, Redirected(wire),
           ~writeback_trap /\ retired < Len(retire_ports)
              => read(retire_ports[retired + 1]).seq \in Int
    PROVE  LET Y == "WRITEBACK_2_EXECUTE_BYPASS"
               in == read(retire_ports[retired + 1])
           IN  /\ prog' = prog /\ Redirected(wire')
               /\ \/ wire' = wire /\ rf' = rf /\ (writeback_trap \/ retire_ports = <<>>)
                  \/ /\ ~writeback_trap /\ retired < Len(retire_ports)
                     /\ wire'[Y] = sent(Y, wire[Y], in.v_dst)
                     /\ rf' = write_dst(rf, in) \/ Arrives(wire'["WRITEBACK_2_ALL_FLUSH"])
<1> DEFINE Y == "WRITEBACK_2_EXECUTE_BYPASS"
           h == "WRITEBACK_2_CORE_HALT"
           F == "WRITEBACK_2_ALL_FLUSH"
           T == "WRITEBACK_2_FETCH_TARGET"
           in == read(retire_ports[retired + 1])
           v == in.v_dst
<1>0. Y \in Ports /\ h \in Ports /\ Y # h /\ F \in Ports /\ T \in Ports
      /\ Y # F /\ Y # T /\ h # F /\ h # T
  BY DEF Ports, writeback_ports
<1>1. CASE WritebackBubble
  BY <1>1 DEF WritebackBubble
<1>2. CASE WritebackInstr
  <2>1. ~writeback_trap /\ retired < Len(retire_ports) /\ prog' = prog
    BY <1>2 DEF WritebackInstr
  <2>2. in.seq \in Int
    BY <2>1
  <2>3. \/ rf' = write_dst(rf, in) /\ wire' = wire ++ <<Y, v>>
        \/ \E trap : /\ rf' = system_writes(write_dst(rf, in), in, trap)
                     /\ wire' = redirects(wire ++ <<Y, v>> ++ <<h, halt_trap(trap)>>, in, trap)
    BY <1>2 DEF WritebackInstr
  <2>4. CASE rf' = write_dst(rf, in) /\ wire' = wire ++ <<Y, v>>
    <3> HIDE DEF Y, h, F, T, in, v
    <3>1. wire'[Y] = sent(Y, wire[Y], v) /\ wire'[F] = wire[F] /\ wire'[T] = wire[T]
      BY <1>0, <2>4, Written
    <3>2. Redirected(wire')
      BY <3>1 DEF Redirected, F, T
    <3> QED
      BY <2>1, <2>4, <3>1, <3>2 DEF Y, in, v
  <2>5. ASSUME NEW trap, rf' = system_writes(write_dst(rf, in), in, trap),
               wire' = redirects(wire ++ <<Y, v>> ++ <<h, halt_trap(trap)>>, in, trap)
        PROVE  /\ wire'[Y] = sent(Y, wire[Y], v) /\ Redirected(wire')
               /\ rf' = write_dst(rf, in) \/ Arrives(wire'[F])
    <3> DEFINE e == halt_trap(trap)
               a == is_vectored(trap)
               b == in.trap = "SYSCALL" \/ handle_trap(trap) # "NO_TRAP"
               x == Target(handler, 0)
               y == get_actual_target(in)
               w == wire ++ <<Y, v>> ++ <<h, e>>
               u == redirect(a, w, x)
    <3>1. wire' = redirect(b, u, y)
      BY <2>5 DEF redirects
    <3>2. x.seq \in Int /\ y.seq \in Int
      BY <2>2 DEF Target, get_actual_target
    <3>3. ~a /\ ~b => rf' = write_dst(rf, in)
      BY <2>5 DEF system_writes, driver_writes, kernel_writes, written
    <3>4. a \in BOOLEAN /\ b \in BOOLEAN
      BY DEF is_vectored
    <3> HIDE DEF Y, h, F, T, in, v, e, a, b, x, y
    <3>5. /\ IsWire(w) /\ w[Y] = sent(Y, wire[Y], v) /\ w[F] = wire[F] /\ w[T] = wire[T]
      BY <1>0, WrittenTwice
    <3>6. Redirected(w)
      BY <3>5 DEF Redirected, F, T
    <3> HIDE DEF w
    <3>7. /\ IsWire(u) /\ Redirected(u) /\ u[Y] = w[Y] /\ (a => Arrives(u[F]))
      BY <1>0, <3>2, <3>4, <3>5, <3>6, RedirectSends DEF F, T
    <3> HIDE DEF u
    <3>8. /\ Redirected(wire') /\ wire'[Y] = u[Y] /\ (b \/ Arrives(u[F]) => Arrives(wire'[F]))
      BY <1>0, <3>1, <3>2, <3>4, <3>7, RedirectSends DEF F, T
    <3> QED
      BY <3>3, <3>5, <3>7, <3>8
  <2> QED
    BY <2>1, <2>3, <2>4, <2>5
<1> QED
  BY <1>1, <1>2 DEF WritebackClock

-----------------------------------------------------------------------------
(* What travels on the ports *)

CodePorts ==
    {"FETCH_2_DECODE", "DECODE_2_DECODE", "DECODE_2_EXECUTE", "EXECUTE_2_EXECUTE_LONG_LATENCY",
     "EXECUTE_2_MEMORY", "EXECUTE_2_BRANCH", "EXECUTE_2_WRITEBACK", "MEMORY_2_WRITEBACK",
     "BRANCH_2_WRITEBACK"}
SeqPorts ==
    {"HOLD_PC", "TARGET", "LONG_LATENCY_PC_HOLDER", "DECODE_2_FETCH_TARGET",
     "BRANCH_2_FETCH_TARGET"}
Suits(p, d) == (p \in CodePorts => Known(d)) /\ (p \in SeqPorts => d.seq \in Int)
PortSuits(p, s) == \A k \in 1..Len(s) : Suits(p, s[k].data)

\* Instructions are those of the program, and instructions and targets are
\* numbered.
Carried ==
    /\ prog \in Programs
    /\ Redirected(wire)
    /\ \A p \in Ports : PortSuits(p, wire[p])

LEMMA FirstPacket ==
    ASSUME NEW s, OnWire(s), s # <<>>
    PROVE  1 \in 1..Len(s) /\ Len(s) \in 1..Len(s)
  BY DEF OnWire

LEMMA CarriedRead ==
    ASSUME IsWire(wire), Carried, NEW p \in Ports, is_ready(p)
    PROVE  /\ p \in CodePorts => Known(read(p))
           /\ p \in SeqPorts \cup {"WRITEBACK_2_FETCH_TARGET"} => read(p).seq \in Int
<1>1. OnWire(wire[p]) /\ wire[p] # <<>>
  BY OnPort DEF is_ready
<1>2. 1 \in 1..Len(wire[p])
  BY <1>1, FirstPacket
<1>3. Suits(p, wire[p][1].data)
  BY <1>2 DEF Carried, PortSuits
<1>4. p = "WRITEBACK_2_FETCH_TARGET" => wire[p][1].data.seq \in Int
  BY <1>2 DEF Carried, Redirected
<1> QED
  BY <1>3, <1>4 DEF Suits, read

LEMMA SuitsSent ==
    ASSUME NEW p \in Ports, NEW s, OnWire(s), PortSuits(p, s), NEW d, Suits(p, d)
    PROVE  PortSuits(p, sent(p, s, d))
<1>1. PICK D : s \in Seq(Packets(D))
  BY DEF OnWire
<1>2. latency(p) \in Nat
  BY Latencies
<1> DEFINE t == Append(s, [left |-> latency(p), data |-> d])
<1>3. Len(t) = Len(s) + 1 /\ t[Len(t)].data = d /\ \A k \in 1..Len(s) : t[k] = s[k]
  BY <1>1, <1>2, WrittenPort
<1>4. Len(s) \in Nat
  BY <1>1
<1>5. t = sent(p, s, d)
  BY DEF sent
<1> HIDE DEF t
<1>6. PortSuits(p, t)
  BY <1>3, <1>4 DEF PortSuits
<1> QED
  BY <1>5, <1>6

\* The ports of a stage, and the others, after the stage was clocked.
StageWrites(Q) ==
    Later(wire, wire') /\ \A p \in Ports : p \notin Q => wire'[p] = wire[p]

LEMMA StagePorts ==
    ASSUME Pipe
    PROVE  /\ fetch_clock => StageWrites(fetch_ports) /\ phase = "fetch" /\ phase' = "decode"
           /\ decode_clock => StageWrites(decode_ports) /\ phase = "decode" /\ phase' = "execute"
           /\ execute_clock => StageWrites(execute_ports) /\ phase = "execute" /\ phase' = "mem"
           /\ mem_clock => StageWrites(mem_ports) /\ phase = "mem" /\ phase' = "branch"
           /\ branch_clock => StageWrites(branch_ports) /\ phase = "branch" /\ phase' = "writeback"
           /\ writeback_clock => /\ StageWrites(writeback_ports) /\ phase = "writeback"
                                 /\ phase' \in {"writeback", "core"}
<1>1. IsWire(wire) /\ \A p \in Ports : PortFits(p, wire[p])
  BY DEF Pipe, Wires, PortOK
<1>2. \A Q : Adds(wire, wire', Q) => StageWrites(Q)
  <2> SUFFICES ASSUME NEW Q, Adds(wire, wire', Q) PROVE StageWrites(Q)
    OBVIOUS
  <2>1. Later(wire, wire')
    BY <1>1, AddsLater
  <2> QED
    BY <2>1 DEF Adds, StageWrites
<1>3. fetch_clock => StageWrites(fetch_ports) /\ phase = "fetch" /\ phase' = "decode"
  BY <1>1, <1>2, FetchWires DEF fetch_clock, turn
<1>4. decode_clock => StageWrites(decode_ports) /\ phase = "decode" /\ phase' = "execute"
  BY <1>1, <1>2, DecodeWires DEF decode_clock, turn
<1>5. execute_clock => StageWrites(execute_ports) /\ phase = "execute" /\ phase' = "mem"
  BY <1>1, <1>2, PipeExecute DEF execute_clock, turn
<1>6. mem_clock => StageWrites(mem_ports) /\ phase = "mem" /\ phase' = "branch"
  BY <1>1, <1>2, MemWires DEF mem_clock, turn
<1>7. branch_clock => StageWrites(branch_ports) /\ phase = "branch" /\ phase' = "writeback"
  BY <1>1, <1>2, BranchWires DEF branch_clock, turn
<1>8. writeback_clock => /\ StageWrites(writeback_ports) /\ phase = "writeback"
                         /\ phase' \in {"writeback", "core"}
  BY <1>1, WritebackWires DEF writeback_clock, turn, StageWrites
<1> QED
  BY <1>3, <1>4, <1>5, <1>6, <1>7, <1>8

\* The simple and the long ALU do not send to writeback together.
LEMMA NoCatchUp ==
    ASSUME Pipe, phase = "execute"
    PROVE  ~is_flush /\ is_ready("DECODE_2_EXECUTE")
           /\ get_instruction_latency(read("DECODE_2_EXECUTE").code) = 1 => ~completes
<1> SUFFICES ASSUME ~is_flush, issued, issued_latency = 1, completes PROVE FALSE
  BY DEF issued, issued_latency
<1>1. /\ IsWire(wire) /\ Behind /\ flush_expiration_latency \in Nat
  BY DEF Pipe, Wires, Timing, Scheduled
<1>2. long_alu # <<>> /\ long_alu[1].left = 0 /\ clocked_flush = 0
  BY DEF completes, is_ready, long_alu
<1>3. OnWire(long_alu)
  BY <1>1, OnPort, ExecutePorts DEF long_alu
<1>4. 1 \in 1..Len(long_alu)
  BY <1>2, <1>3, FirstPacket
<1>5. lives(1)
  BY <1>1, <1>2 DEF clocked_flush, lives
<1> QED
  BY <1>1, <1>2, <1>4, <1>5 DEF Behind

\* The ports of the other stages keep what they carry.
LEMMA CarriedKept ==
    ASSUME IsWire(wire), Carried, NEW Q, StageWrites(Q), prog' \in Programs,
           "WRITEBACK_2_FETCH_TARGET" \notin Q, "WRITEBACK_2_ALL_FLUSH" \notin Q,
           \A p \in Ports : p \in Q /\ p \in CodePorts \cup SeqPorts => PortSuits(p, wire'[p])
    PROVE  Carried'
<1>1. "WRITEBACK_2_FETCH_TARGET" \in Ports /\ "WRITEBACK_2_ALL_FLUSH" \in Ports
  BY DEF Ports, writeback_ports
<1>2. ASSUME NEW p \in Ports PROVE PortSuits(p, wire'[p])
  <2>1. CASE p \notin Q
    BY <2>1 DEF StageWrites, Carried
  <2>2. CASE p \in Q /\ p \in CodePorts \cup SeqPorts
    BY <2>2
  <2>3. CASE p \notin CodePorts \cup SeqPorts
    BY <2>3 DEF PortSuits, Suits
  <2> QED
    BY <2>1, <2>2, <2>3
<1>3. Redirected(wire')
  BY <1>1 DEF StageWrites, Carried, Redirected
<1> QED
  BY <1>2, <1>3 DEF Carried

LEMMA PortSuitsNow ==
    ASSUME IsWire(wire), Carried, NEW p \in Ports, NEW v, NEW d,
           v = wire[p] \/ (v = sent(p, wire[p], d) /\ Suits(p, d))
    PROVE  PortSuits(p, v)
<1>1. OnWire(wire[p]) /\ PortSuits(p, wire[p])
  BY OnPort DEF Carried
<1> QED
  BY <1>1, SuitsSent

LEMMA CarriedFetch ==
    ASSUME Pipe, Carried, fetch_clock
    PROVE  Carried'
<1> DEFINE H == "HIT_OR_MISS"
           L == "LONG_LATENCY_PC_HOLDER"
           O == "HOLD_PC"
           T == "TARGET"
           F == "FETCH_2_DECODE"
<1>1. IsWire(wire) /\ FetchClock /\ StageWrites(fetch_ports) /\ prog \in Programs
  BY StagePorts DEF Pipe, Wires, fetch_clock, Carried
<1>2. /\ L \in Ports /\ O \in Ports /\ T \in Ports /\ F \in Ports
      /\ \A p \in fetch_ports : p \in CodePorts \cup SeqPorts => p \in {L, O, T, F}
      /\ "WRITEBACK_2_FETCH_TARGET" \notin fetch_ports /\ "WRITEBACK_2_ALL_FLUSH" \notin fetch_ports
  BY FetchPorts DEF fetch_ports, CodePorts, SeqPorts
<1>3. /\ \A d : Suits(L, d) <=> d.seq \in Int
      /\ \A d : Suits(O, d) <=> d.seq \in Int
      /\ \A d : Suits(T, d) <=> d.seq \in Int
      /\ \A d : Suits(F, d) <=> Known(d)
  BY DEF Suits, CodePorts, SeqPorts
<1>4. target_ports # <<>> => get_target.seq \in Int
  BY <1>1, TargetPorts, CarriedRead, FetchPorts DEF get_target, SeqPorts
<1>5. save_flush_ports # <<>> => read(save_flush_ports[1]).seq \in Int
  BY <1>1, TargetPorts, CarriedRead, FetchPorts DEF SeqPorts
<1>6. is_ready(L) => read(L).seq \in Int
  BY <1>1, <1>2, CarriedRead DEF SeqPorts
<1>7. prog' \in Programs
  BY <1>1, FetchSends
<1>8. /\ \E d : wire'[L] = wire[L] \/ (wire'[L] = sent(L, wire[L], d) /\ d.seq \in Int)
      /\ \E d : wire'[O] = wire[O] \/ (wire'[O] = sent(O, wire[O], d) /\ d.seq \in Int)
      /\ \E d : wire'[T] = wire[T] \/ (wire'[T] = sent(T, wire[T], d) /\ d.seq \in Int)
      /\ \E d : wire'[F] = wire[F] \/ (wire'[F] = sent(F, wire[F], d) /\ Known(d))
  <2>1. ASSUME NEW in, NEW t, IsInstr(in), in.seq = get_target.seq, in.code \in Codes,
               t.seq = get_target.seq + 1, get_target.seq \in Int
        PROVE  Known(in) /\ t.seq \in Int
    BY <2>1 DEF Known
  <2> HIDE DEF L, O, T, F, H
  <2> QED
    BY <1>1, <1>4, <1>5, <1>6, <2>1, FetchSends DEF L, O, T, F, H
<1> HIDE DEF L, O, T, F
<1>9. ASSUME NEW p \in {L, O, T, F} PROVE PortSuits(p, wire'[p])
  <2>1. p \in Ports
    BY <1>2
  <2>2. PICK d : wire'[p] = wire[p] \/ (wire'[p] = sent(p, wire[p], d) /\ Suits(p, d))
    BY <1>3, <1>8
  <2> QED
    BY <1>1, <2>1, <2>2, PortSuitsNow
<1> QED
  BY <1>1, <1>2, <1>7, <1>9, CarriedKept

LEMMA CarriedDecode ==
    ASSUME Pipe, Carried, decode_clock
    PROVE  Carried'
<1> DEFINE D == "DECODE_2_DECODE"
           X == "DECODE_2_EXECUTE"
           T == "DECODE_2_FETCH_TARGET"
<1>1. /\ IsWire(wire) /\ DecodeClock /\ StageWrites(decode_ports) /\ prog \in Programs
      /\ \A p \in Ports : PortFits(p, wire[p])
  BY StagePorts DEF Pipe, Wires, decode_clock, Carried, PortOK
<1>2. /\ D \in Ports /\ X \in Ports /\ T \in Ports
      /\ \A p \in decode_ports : p \in CodePorts \cup SeqPorts => p \in {D, X, T}
      /\ "WRITEBACK_2_FETCH_TARGET" \notin decode_ports /\ "WRITEBACK_2_ALL_FLUSH" \notin decode_ports
  BY DecodePorts DEF decode_ports, CodePorts, SeqPorts
<1>3. /\ \A d : Suits(T, d) <=> d.seq \in Int
      /\ \A d : Suits(D, d) <=> Known(d)
      /\ \A d : Suits(X, d) <=> Known(d)
  BY DEF Suits, CodePorts, SeqPorts
<1>4. decoding => Known(read_instr)
  BY <1>1, <1>2, CarriedRead, FetchPorts DEF decoding, has_instr, read_instr, from_stall, CodePorts
<1>5. decoding => \A in : Same(in, read_instr) => Known(in)
  BY <1>4 DEF Same, Known
<1>6. decoding => \A t : t.seq = read_instr.seq + 1 => t.seq \in Int
  BY <1>4 DEF Known
<1>7. /\ \E d : wire'[T] = wire[T] \/ (wire'[T] = sent(T, wire[T], d) /\ d.seq \in Int)
      /\ \E d : wire'[D] = wire[D] \/ (wire'[D] = sent(D, wire[D], d) /\ Known(d))
      /\ \E d : wire'[X] = wire[X] \/ (wire'[X] = sent(X, wire[X], d) /\ Known(d))
  BY <1>1, <1>4, <1>5, <1>6, DecodeSends
<1>8. prog' \in Programs
  BY <1>1, DecodeSends
<1> HIDE DEF D, X, T
<1>9. ASSUME NEW p \in {D, X, T} PROVE PortSuits(p, wire'[p])
  <2>1. p \in Ports
    BY <1>2
  <2>2. PICK d : wire'[p] = wire[p] \/ (wire'[p] = sent(p, wire[p], d) /\ Suits(p, d))
    BY <1>3, <1>7
  <2> QED
    BY <1>1, <2>1, <2>2, PortSuitsNow
<1> QED
  BY <1>1, <1>2, <1>8, <1>9, CarriedKept

LEMMA CarriedExecute ==
    ASSUME Pipe, Carried, execute_clock
    PROVE  Carried'
<1> DEFINE A == "EXECUTE_2_EXECUTE_LONG_LATENCY"
           B == "EXECUTE_2_BRANCH"
           M == "EXECUTE_2_MEMORY"
           E == "EXECUTE_2_WRITEBACK"
           X == "DECODE_2_EXECUTE"
<1>1. /\ IsWire(wire) /\ ExecuteClock /\ StageWrites(execute_ports) /\ prog \in Programs
      /\ \A p \in Ports : PortFits(p, wire[p])
  BY StagePorts DEF Pipe, Wires, execute_clock, Carried, PortOK
<1>2. /\ A \in Ports /\ B \in Ports /\ M \in Ports /\ E \in Ports /\ X \in Ports
      /\ \A p \in execute_ports : p \in CodePorts \cup SeqPorts => p \in {A, B, M, E}
      /\ "WRITEBACK_2_FETCH_TARGET" \notin execute_ports /\ "WRITEBACK_2_ALL_FLUSH" \notin execute_ports
  BY ExecutePorts DEF execute_ports, CodePorts, SeqPorts
<1>3. {A, B, M, E, X} \subseteq CodePorts /\ {A, B, M, E, X} \cap SeqPorts = {}
  BY DEF CodePorts, SeqPorts
<1>4. ~is_flush /\ is_ready(X) /\ get_instruction_latency(read(X).code) = 1 => ~completes
  BY NoCatchUp, StagePorts
<1>5. is_ready(X) => Known(read(X))
  BY <1>1, <1>2, <1>3, CarriedRead
<1>6. completes => Known(read(A))
  BY <1>1, <1>2, <1>3, CarriedRead DEF completes
<1>7. is_ready(X) => \A in : Same(in, read(X)) => Known(in)
  BY <1>5 DEF Same, Known
<1>8. (goes_long => is_ready(X)) /\ \A p : goes(p) => is_ready(X)
  BY DEF goes_long, goes
<1>9. prog' \in Programs
  BY <1>1, <1>4, ExecuteSends
<1>10. \A p \in {A, B, M, E} :
          \E d : wire'[p] = wire[p] \/ (wire'[p] = sent(p, wire[p], d) /\ Known(d))
  BY <1>1, <1>4, <1>6, <1>7, <1>8, ExecuteSends
<1> HIDE DEF A, B, M, E, X
<1>11. ASSUME NEW p \in {A, B, M, E} PROVE PortSuits(p, wire'[p])
  <2>1. p \in Ports
    BY <1>2
  <2>2. PICK d : wire'[p] = wire[p] \/ (wire'[p] = sent(p, wire[p], d) /\ Known(d))
    BY <1>10
  <2>3. Known(d) => Suits(p, d)
    BY <1>3 DEF Suits
  <2> QED
    BY <1>1, <2>1, <2>2, <2>3, PortSuitsNow
<1> QED
  BY <1>1, <1>2, <1>9, <1>11, CarriedKept

LEMMA CarriedMem ==
    ASSUME Pipe, Carried, mem_clock
    PROVE  Carried'
<1> DEFINE W == "MEMORY_2_WRITEBACK"
           M == "EXECUTE_2_MEMORY"
<1>1. IsWire(wire) /\ MemClock /\ StageWrites(mem_ports) /\ prog \in Programs
  BY StagePorts DEF Pipe, Wires, mem_clock, Carried
<1>2. /\ W \in Ports /\ M \in Ports
      /\ \A p \in mem_ports : p \in CodePorts \cup SeqPorts => p = W
      /\ "WRITEBACK_2_FETCH_TARGET" \notin mem_ports /\ "WRITEBACK_2_ALL_FLUSH" \notin mem_ports
  BY DEF Ports, mem_ports, execute_ports, CodePorts, SeqPorts
<1>3. is_ready(M) => Known(read(M))
  BY <1>1, <1>2, CarriedRead DEF CodePorts
<1>4. is_ready(M) => IsInstr(read(M)) /\ \A in : Same(in, read(M)) => Known(in)
  BY <1>3 DEF Same, Known
<1>5. /\ prog' \in Programs
      /\ \E d : wire'[W] = wire[W] \/ (wire'[W] = sent(W, wire[W], d) /\ Known(d))
  BY <1>1, <1>4, MemoryStageSends
<1>6. \A d : Known(d) => Suits(W, d)
  BY DEF Suits, CodePorts, SeqPorts
<1>7. PortSuits(W, wire'[W])
  BY <1>1, <1>2, <1>5, <1>6, PortSuitsNow
<1> QED
  BY <1>1, <1>2, <1>5, <1>7, CarriedKept

LEMMA CarriedBranch ==
    ASSUME Pipe, Carried, branch_clock
    PROVE  Carried'
<1> DEFINE W == "BRANCH_2_WRITEBACK"
           T == "BRANCH_2_FETCH_TARGET"
           B == "EXECUTE_2_BRANCH"
<1>1. IsWire(wire) /\ BranchClock /\ StageWrites(branch_ports) /\ prog \in Programs
  BY StagePorts DEF Pipe, Wires, branch_clock, Carried
<1>2. /\ W \in Ports /\ T \in Ports /\ B \in Ports
      /\ \A p \in branch_ports : p \in CodePorts \cup SeqPorts => p \in {W, T}
      /\ "WRITEBACK_2_FETCH_TARGET" \notin branch_ports /\ "WRITEBACK_2_ALL_FLUSH" \notin branch_ports
  BY DEF Ports, branch_ports, execute_ports, CodePorts, SeqPorts
<1>3. is_ready(B) => Known(read(B))
  BY <1>1, <1>2, CarriedRead DEF CodePorts
<1>4. is_ready(B) => \A t : t.seq = read(B).seq + 1 => t.seq \in Int
  BY <1>3 DEF Known
<1>5. prog' \in Programs
  BY <1>1, BranchStageSends
<1>6. \E d : wire'[W] = wire[W] \/ (wire'[W] = sent(W, wire[W], d) /\ Known(d))
  BY <1>1, <1>3, BranchStageSends
<1>7. \E d : wire'[T] = wire[T] \/ (wire'[T] = sent(T, wire[T], d) /\ d.seq \in Int)
  BY <1>1, <1>4, BranchStageSends
<1>8. (\A d : Known(d) => Suits(W, d)) /\ (\A d : d.seq \in Int => Suits(T, d))
  BY DEF Suits, CodePorts, SeqPorts
<1>9. PortSuits(W, wire'[W]) /\ PortSuits(T, wire'[T])
  BY <1>1, <1>2, <1>6, <1>7, <1>8, PortSuitsNow
<1> QED
  BY <1>1, <1>2, <1>5, <1>9, CarriedKept

\* The only instruction that writeback retires in a cycle.
LEMMA RetiredPort ==
    ASSUME Exclusive, retire_ports # <<>>
    PROVE  /\ retire_ports[1] \in {"BRANCH_2_WRITEBACK", "MEMORY_2_WRITEBACK", "EXECUTE_2_WRITEBACK"}
           /\ is_ready(retire_ports[1]) /\ Len(retire_ports) = 1
<1> DEFINE B == "BRANCH_2_WRITEBACK"
           M == "MEMORY_2_WRITEBACK"
           E == "EXECUTE_2_WRITEBACK"
<1>1. retire_ports = read_instruction(B) \o read_instruction(M) \o read_instruction(E)
  BY DEF retire_ports
<1>2. /\ ~(is_ready(B) /\ is_ready(M)) /\ ~(is_ready(B) /\ is_ready(E))
      /\ ~(is_ready(M) /\ is_ready(E))
  BY DEF Exclusive
<1>3. \A p : read_instruction(p) = IF is_ready(p) THEN <<p>> ELSE <<>>
  BY DEF read_instruction
<1> HIDE DEF B, M, E
<1>4. \/ is_ready(B) /\ retire_ports = <<B>> \o <<>> \o <<>>
      \/ is_ready(M) /\ retire_ports = <<>> \o <<M>> \o <<>>
      \/ is_ready(E) /\ retire_ports = <<>> \o <<>> \o <<E>>
      \/ retire_ports = <<>> \o <<>> \o <<>>
  BY <1>1, <1>2, <1>3
<1>5. /\ <<B>> \o <<>> \o <<>> = <<B>> /\ <<>> \o <<M>> \o <<>> = <<M>>
      /\ <<>> \o <<>> \o <<E>> = <<E>> /\ <<>> \o <<>> \o <<>> = <<>>
  OBVIOUS
<1>6. \E p \in {B, M, E} : is_ready(p) /\ retire_ports = <<p>>
  BY <1>4, <1>5
<1> QED
  BY <1>6 DEF B, M, E

LEMMA CarriedWriteback ==
    ASSUME Pipe, Retirement, Carried, writeback_clock
    PROVE  Carried'
<1>1. /\ IsWire(wire) /\ WritebackClock /\ StageWrites(writeback_ports) /\ Redirected(wire)
      /\ prog \in Programs /\ phase = "writeback" /\ Exclusive
  BY StagePorts DEF Pipe, Wires, writeback_clock, Carried, Timing
<1>2. retired = 0
  BY <1>1 DEF Retirement
<1>3. /\ {"BRANCH_2_WRITEBACK", "MEMORY_2_WRITEBACK", "EXECUTE_2_WRITEBACK"} \subseteq CodePorts
      /\ {"BRANCH_2_WRITEBACK", "MEMORY_2_WRITEBACK", "EXECUTE_2_WRITEBACK"} \subseteq Ports
      /\ \A p \in writeback_ports : p \notin CodePorts /\ p \notin SeqPorts
  BY DEF CodePorts, Ports, execute_ports, mem_ports, branch_ports, writeback_ports, SeqPorts
<1>4. retired < Len(retire_ports) => read(retire_ports[retired + 1]).seq \in Int
  <2> SUFFICES ASSUME retired < Len(retire_ports) PROVE read(retire_ports[1]).seq \in Int
    BY <1>2
  <2>1. retire_ports # <<>>
    BY <1>2
  <2>2. retire_ports[1] \in CodePorts /\ retire_ports[1] \in Ports /\ is_ready(retire_ports[1])
    BY <1>1, <1>3, <2>1, RetiredPort
  <2>3. Known(read(retire_ports[1]))
    BY <1>1, <2>2, CarriedRead
  <2> QED
    BY <2>3 DEF Known
<1>5. prog' = prog /\ Redirected(wire')
  BY <1>1, <1>4, WritebackStageSends
<1>6. ASSUME NEW p \in Ports PROVE PortSuits(p, wire'[p])
  <2>1. CASE p \notin writeback_ports
    BY <1>1, <2>1 DEF StageWrites, Carried
  <2>2. CASE p \in writeback_ports
    BY <1>3, <2>2 DEF PortSuits, Suits
  <2> QED
    BY <2>1, <2>2
<1> QED
  BY <1>1, <1>5, <1>6 DEF Carried

\* A packet of the next cycle was on the port in this one.
LEMMA TickPackets ==
    ASSUME Wires, tick, NEW p \in Ports
    PROVE  \A k \in 1..Len(wire'[p]) : \E j \in 1..Len(wire[p]) :
              wire[p][j].left = wire'[p][k].left + 1 /\ wire[p][j].data = wire'[p][k].data
<1>1. OnWire(wire[p]) /\ Ordered(wire[p])
  BY OnPort DEF Wires, PortOK
<1>2. wire'[p] = in_transit(wire[p])
  BY TickWires
<1> QED
  BY <1>1, <1>2, NextCycle

LEMMA CarriedCore ==
    ASSUME Pipe, Carried, core_clock
    PROVE  Carried'
<1>1. Wires /\ tick /\ prog' = prog
  BY DEF Pipe, core_clock
<1>2. ASSUME NEW p \in Ports PROVE PortSuits(p, wire'[p])
  <2>1. PortSuits(p, wire[p])
    BY DEF Carried
  <2> QED
    BY <1>1, <2>1, TickPackets DEF PortSuits
<1>3. Redirected(wire')
  <2> DEFINE T == "WRITEBACK_2_FETCH_TARGET"
  <2>1. T \in Ports /\ latency(T) = 1
    BY Latencies DEF Ports, writeback_ports
  <2>2. OnWire(wire'[T]) /\ Below(wire'[T], 1)
    <3>1. IsWire(wire') /\ Below(wire'[T], latency(T))
      BY <1>1, <2>1, TickWires
    <3> QED
      BY <2>1, <3>1, OnPort
  <2>3. ~Arrives(wire'[T])
    BY <2>2, NotArriving
  <2>4. \A k \in 1..Len(wire[T]) : wire[T][k].data.seq \in Int
    BY DEF Carried, Redirected
  <2>5. \A k \in 1..Len(wire'[T]) : wire'[T][k].data.seq \in Int
    BY <1>1, <2>1, <2>4, TickPackets
  <2> QED
    BY <2>3, <2>5 DEF Redirected
<1> QED
  BY <1>1, <1>2, <1>3 DEF Carried

LEMMA CarriedInit ==
    ASSUME Init
    PROVE  Carried
<1> DEFINE T == "WRITEBACK_2_FETCH_TARGET"
           F == "WRITEBACK_2_ALL_FLUSH"
           t == Target(0, 0)
           on == TRUE
           none == [p \in Ports |-> <<>>]
<1>1. wire = none ++ <<F, on>> ++ <<T, t>> /\ prog = [a \in Addr |-> Unread]
  BY DEF Init, redirect
<1>2. prog \in Programs
  BY <1>1 DEF Programs
<1>3. F \in Ports /\ T \in Ports /\ F # T /\ T \notin CodePorts \cup SeqPorts
      /\ F \notin CodePorts \cup SeqPorts /\ latency(T) = 1 /\ latency(F) = 1
      /\ Fits(F, on) /\ Fits(T, t)
  BY Latencies DEF Ports, writeback_ports, CodePorts, SeqPorts, Fits, InstrPorts
<1>4. t.seq = 0
  BY DEF Target
<1>5. /\ IsWire(none) /\ \A p \in Ports : none[p] = <<>>
  <2>1. none \in [Ports -> Seq(Packets({}))]
    OBVIOUS
  <2> QED
    BY <2>1 DEF IsWire
<1> HIDE DEF T, F, t, on, none
<1>6. /\ wire[F] = sent(F, <<>>, on) /\ wire[T] = sent(T, <<>>, t)
      /\ \A p \in Ports : p # F /\ p # T => wire[p] = <<>>
  <2> DEFINE v == none ++ <<F, on>>
  <2>1. IsWire(v) /\ v[F] = sent(F, none[F], on) /\ \A p \in Ports : p # F => v[p] = none[p]
    BY <1>3, <1>5, Written
  <2>2. wire = v ++ <<T, t>>
    BY <1>1
  <2> HIDE DEF v
  <2>3. wire[T] = sent(T, v[T], t) /\ \A p \in Ports : p # T => wire[p] = v[p]
    BY <1>3, <2>1, <2>2, Written
  <2> QED
    BY <1>3, <1>5, <2>1, <2>3
<1>7. OnWire(<<>>) /\ Len(<<>>) = 0
  <2>1. <<>> \in Seq(Packets({})) /\ Len(<<>>) = 0
    OBVIOUS
  <2> QED
    BY <2>1 DEF OnWire
<1>8. Arrives(wire[F]) /\ Len(wire[T]) = 1 /\ arriving(wire[T]) = t
  <2>1. /\ Arrives(sent(F, <<>>, on)) /\ Len(sent(T, <<>>, t)) = 0 + 1
        /\ arriving(sent(T, <<>>, t)) = t
    BY <1>3, <1>7, Sent
  <2> QED
    BY <1>6, <2>1
<1>9. Redirected(wire)
  BY <1>4, <1>8 DEF Redirected, arriving, T, F
<1>10. ASSUME NEW p \in Ports PROVE PortSuits(p, wire[p])
  <2>1. CASE p = F \/ p = T
    BY <1>3, <2>1 DEF PortSuits, Suits
  <2>2. CASE p # F /\ p # T
    BY <1>6, <1>7, <2>2 DEF PortSuits
  <2> QED
    BY <2>1, <2>2
<1> QED
  BY <1>2, <1>9, <1>10 DEF Carried

LEMMA CarriedStep ==
    ASSUME Pipe, Retirement, Carried, [Next]_vars
    PROVE  Carried'
<1>1. CASE clock
  BY <1>1, CarriedFetch, CarriedDecode, CarriedExecute, CarriedMem, CarriedBranch, CarriedWriteback,
     CarriedCore DEF clock
<1>2. CASE run \/ Done \/ UNCHANGED vars
  <2>1. wire' = wire /\ prog' = prog
    BY <1>2 DEF run, Done, vars, stageVars
  <2> QED
    BY <2>1 DEF Carried, Redirected
<1> QED
  BY <1>1, <1>2 DEF Next

-----------------------------------------------------------------------------
(* The instructions in flight *)

LatePhases == {"mem", "branch", "writeback", "core"}

\* The instruction k is in the long ALU in this cycle and no flush has killed
\* it.  Execute counts the flush down and lets instructions in.
in_alu(k) ==
    /\ long_alu[k].left < last_execution_stage
    /\ flush_expiration_latency <= long_alu[k].left + (IF phase \in LatePhases THEN 0 ELSE 1)

\* in is the instruction i with number n.
Is(in, n, i) == in.seq = n /\ in.code = i

FliesFrom(p, n, i) == is_ready(p) /\ Is(read(p), n, i)
Sending(p, n, i) == Arrives(wire[p]) /\ Is(arriving(wire[p]), n, i)

\* The instruction i with number n is at stage s, in this cycle.
InExecute(n, i, s) ==
    \/ s = 0 /\ FliesFrom("DECODE_2_EXECUTE", n, i)
    \/ \E k \in 1..Len(long_alu) :
          /\ in_alu(k) /\ s = last_execution_stage - long_alu[k].left
          /\ Is(long_alu[k].data, n, i)
Flies(n, i, s) ==
    \/ InExecute(n, i, s)
    \/ /\ s = MEM_OR_BRANCH_STAGE
       /\ FliesFrom("EXECUTE_2_MEMORY", n, i) \/ FliesFrom("EXECUTE_2_BRANCH", n, i)
    \/ /\ s = WB_STAGE
       /\ \/ FliesFrom("EXECUTE_2_WRITEBACK", n, i)
          \/ FliesFrom("MEMORY_2_WRITEBACK", n, i)
          \/ FliesFrom("BRANCH_2_WRITEBACK", n, i)

\* Execute has sent it to stage s of the next cycle.
LeavesTo(n, i, s) ==
    \/ \E k \in 1..Len(long_alu) :
          /\ long_alu[k].left >= 1 /\ flush_expiration_latency <= long_alu[k].left
          /\ s = last_execution_stage - long_alu[k].left + 1
          /\ Is(long_alu[k].data, n, i)
    \/ s = MEM_OR_BRANCH_STAGE
       /\ (Sending("EXECUTE_2_MEMORY", n, i) \/ Sending("EXECUTE_2_BRANCH", n, i))
    \/ s = WB_STAGE /\ Sending("EXECUTE_2_WRITEBACK", n, i)

\* Where the bypassing unit expects the instruction in the next cycle.
moves_to(s, i) ==
    IF s = 0 THEN next_stage(i).value
    ELSE IF s \in {last_execution_stage, MEM_OR_BRANCH_STAGE} THEN WB_STAGE ELSE s + 1

\* Every stage passes its instructions on, and on a flush none.
Moves ==
    /\ phase \in LatePhases =>
          \A n, i, s : LeavesTo(n, i, s) <=>
              ~is_flush /\ \E r : InExecute(n, i, r) /\ s = moves_to(r, i)
    /\ phase \in {"branch", "writeback", "core"} =>
          \A n, i : Sending("MEMORY_2_WRITEBACK", n, i)
                        <=> ~is_flush /\ FliesFrom("EXECUTE_2_MEMORY", n, i)
    /\ phase \in {"writeback", "core"} =>
          \A n, i : Sending("BRANCH_2_WRITEBACK", n, i)
                        <=> ~is_flush /\ FliesFrom("EXECUTE_2_BRANCH", n, i)
    /\ flush_expiration_latency <= last_execution_stage

LEMMA StageNumbers ==
    /\ last_execution_stage \in Nat /\ last_execution_stage >= 1 /\ last_execution_stage <= 62
    /\ last_execution_stage = long_alu_latency - 1
    /\ MEM_OR_BRANCH_STAGE = 253 /\ WB_STAGE = 254 /\ IN_RF_STAGE = 255
  BY LongAssumption DEF last_execution_stage, MEM_OR_BRANCH_STAGE, WB_STAGE, IN_RF_STAGE

\* The first stage by class.
LEMMA NextStage ==
    ASSUME NEW i
    PROVE  /\ is_long_arithmetic(i) => next_stage(i) = Stage(1, 0)
           /\ ~is_long_arithmetic(i) /\ next_port(i) = "EXECUTE_2_BRANCH" => next_stage(i) = branch_stage
           /\ ~is_long_arithmetic(i) /\ next_port(i) = "EXECUTE_2_MEMORY" => next_stage(i) = mem_stage
           /\ ~is_long_arithmetic(i) /\ next_port(i) = "EXECUTE_2_WRITEBACK"
                 => next_stage(i) = writeback_stage
           /\ next_port(i) \in {"EXECUTE_2_BRANCH", "EXECUTE_2_MEMORY", "EXECUTE_2_WRITEBACK"}
           /\ is_long_arithmetic(i) => next_stage(i).value = 1
           /\ ~is_long_arithmetic(i) =>
                 next_stage(i).value = IF next_port(i) = "EXECUTE_2_WRITEBACK" THEN WB_STAGE
                                       ELSE MEM_OR_BRANCH_STAGE
<1>1. is_long_arithmetic(i) => ~is_branch_stage_required(i) /\ ~is_mem_stage_required(i)
  BY DEF is_long_arithmetic, is_accumulation, is_branch_stage_required, is_jump, is_direct_jump,
     is_branch, is_common_branch, is_likely_branch, is_indirect_jump, is_mem_stage_required, is_load,
     is_partial_load, is_store, is_explicit_trap
<1>2. is_jump(i) => ~is_mem_stage_required(i)
  BY DEF is_jump, is_direct_jump, is_branch, is_common_branch, is_likely_branch,
       is_indirect_jump, is_mem_stage_required, is_load, is_partial_load, is_store,
       is_explicit_trap
<1>3. /\ is_jump(i) => next_port(i) = "EXECUTE_2_BRANCH"
      /\ is_mem_stage_required(i) => next_port(i) = "EXECUTE_2_MEMORY"
      /\ ~is_jump(i) /\ ~is_mem_stage_required(i) => next_port(i) = "EXECUTE_2_WRITEBACK"
  BY <1>2 DEF next_port
<1>4. /\ is_long_arithmetic(i) => next_stage(i) = Stage(1, 0)
      /\ ~is_long_arithmetic(i) /\ is_jump(i) => next_stage(i) = branch_stage
      /\ ~is_long_arithmetic(i) /\ is_mem_stage_required(i) => next_stage(i) = mem_stage
      /\ ~is_long_arithmetic(i) /\ ~is_jump(i) /\ ~is_mem_stage_required(i)
            => next_stage(i) = writeback_stage
  BY <1>1, <1>2 DEF next_stage, is_branch_stage_required
<1>5. /\ Stage(1, 0).value = 1 /\ branch_stage.value = MEM_OR_BRANCH_STAGE
      /\ mem_stage.value = MEM_OR_BRANCH_STAGE /\ writeback_stage.value = WB_STAGE
  BY DEF Stage, branch_stage, mem_stage, writeback_stage
<1> QED
  BY <1>3, <1>4, <1>5

\* What has cycles to go comes one closer.
LEMMA NextPackets ==
    ASSUME NEW s, OnWire(s), Ordered(s)
    PROVE  \A j \in 1..Len(s) : s[j].left >= 1 =>
              \E k \in 1..Len(in_transit(s)) :
                 s[j].left = in_transit(s)[k].left + 1 /\ s[j].data = in_transit(s)[k].data
<1>1. PICK D : s \in Seq(Packets(D))
  BY DEF OnWire
<1> DEFINE t == in_transit(s)
<1>2. \E n \in 0..Len(s) :
                 /\ \A k \in 1..n : s[k].left = 0
                 /\ \A k \in (n + 1)..Len(s) : s[k].left > 0
                 /\ Len(t) = Len(s) - n
                 /\ \A k \in 1..(Len(s) - n) :
                       /\ t[k].left = s[n + k].left - 1
                       /\ t[k].data = s[n + k].data
  BY <1>1, Ticked
<1>3. Len(s) \in Nat /\ \A k \in 1..Len(s) : s[k].left \in Nat
  BY <1>1, PacketsOf
<1> HIDE DEF t
<1>4. PICK n \in 0..Len(s) :
                 /\ \A k \in 1..n : s[k].left = 0
                 /\ Len(t) = Len(s) - n
                 /\ \A k \in 1..(Len(s) - n) :
                       /\ t[k].left = s[n + k].left - 1
                       /\ t[k].data = s[n + k].data
  BY <1>2
<1>5. ASSUME NEW j \in 1..Len(s), s[j].left >= 1
      PROVE  \E k \in 1..Len(t) : s[j].left = t[k].left + 1 /\ s[j].data = t[k].data
  <2>1. j \notin 1..n
    BY <1>4, <1>5
  <2>2. j - n \in 1..(Len(s) - n) /\ n + (j - n) = j
    BY <1>3, <2>1
  <2>3. t[j - n].left = s[j].left - 1 /\ t[j - n].data = s[j].data
    BY <1>4, <2>2
  <2>4. j - n \in 1..Len(t) /\ s[j].left \in Nat
    BY <1>3, <1>4, <2>2
  <2>5. s[j].left = t[j - n].left + 1
    BY <2>3, <2>4
  <2> QED
    BY <2>3, <2>4, <2>5
<1> QED
  BY <1>5 DEF t

LEMMA AluPackets ==
    ASSUME Pipe
    PROVE  /\ OnWire(long_alu) /\ Strict(long_alu) /\ Len(long_alu) \in Nat
           /\ \A k \in 1..Len(long_alu) :
                 long_alu[k].left \in Nat /\ long_alu[k].left <= last_execution_stage
           /\ phase \notin LatePhases =>
                 \A k \in 1..Len(long_alu) : long_alu[k].left < last_execution_stage
<1> DEFINE A == "EXECUTE_2_EXECUTE_LONG_LATENCY"
<1>1. A \in Ports /\ A \notin writeback_ports /\ A \in execute_ports
  BY NamedPorts, PortGroups
<1>2. latency(A) = last_execution_stage /\ last_execution_stage \in Nat
  BY Latencies, StageNumbers
<1>3. /\ IsWire(wire) /\ PortOK(A, wire[A]) /\ Strict(wire[A]) /\ phase \in Phases
      /\ phase \in {"fetch", "decode", "execute"} => Below(wire[A], latency(A))
  BY <1>1 DEF Pipe, Wires, Unwritten
<1>4. OnWire(long_alu) /\ Strict(long_alu) /\ Below(long_alu, last_execution_stage + 1)
      /\ (phase \notin LatePhases => Below(long_alu, last_execution_stage))
  BY <1>1, <1>2, <1>3, OnPort DEF long_alu, PortOK, Phases, LatePhases
<1>5. Len(long_alu) \in Nat /\ \A k \in 1..Len(long_alu) : long_alu[k].left \in Nat
  BY <1>4, PacketsOf DEF OnWire
<1> QED
  BY <1>2, <1>4, <1>5 DEF Below

\* What execute does to the long ALU.
LEMMA ExecuteAlu ==
    ASSUME Pipe, execute_clock, ~is_flush
    PROVE  /\ flush_expiration_latency' = clocked_flush /\ flush_expiration_latency \in Nat
           /\ \A k \in 1..Len(long_alu) : long_alu'[k] = long_alu[k]
           /\ ~goes_long => Len(long_alu') = Len(long_alu)
           /\ goes_long => /\ Len(long_alu') = Len(long_alu) + 1
                           /\ long_alu'[Len(long_alu) + 1].left = last_execution_stage
                           /\ Same(long_alu'[Len(long_alu) + 1].data, read("DECODE_2_EXECUTE"))
<1> DEFINE A == "EXECUTE_2_EXECUTE_LONG_LATENCY"
           X == "DECODE_2_EXECUTE"
<1>1. /\ IsWire(wire) /\ ExecuteClock /\ \A p \in Ports : PortFits(p, wire[p])
      /\ flush_expiration_latency \in Nat
  BY DEF Pipe, Wires, Timing, execute_clock, PortOK
<1>2. ~is_flush /\ is_ready(X) /\ get_instruction_latency(read(X).code) = 1 => ~completes
  BY NoCatchUp, StagePorts
<1>3. flush_expiration_latency' = clocked_flush
      /\ \E x : /\ is_ready(X) => Same(x, read(X))
                /\ wire'[A] = IF goes_long THEN sent(A, wire[A], x) ELSE wire[A]
  BY <1>1, <1>2, ExecuteSends
<1>4. A \in Ports /\ (\A d : Fits(A, d)) /\ latency(A) = last_execution_stage
  BY NamedPorts, PortGroups, Latencies, StageNumbers DEF Fits, InstrPorts
<1>5. OnWire(wire[A]) /\ Len(wire[A]) \in Nat
  BY AluPackets DEF long_alu
<1>6. goes_long => is_ready(X)
  BY DEF goes_long
<1> HIDE DEF A, X
<1>7. PICK x : /\ is_ready(X) => Same(x, read(X))
               /\ wire'[A] = IF goes_long THEN sent(A, wire[A], x) ELSE wire[A]
  BY <1>3
<1>8. /\ Len(sent(A, wire[A], x)) = Len(wire[A]) + 1
      /\ \A k \in 1..Len(wire[A]) : sent(A, wire[A], x)[k] = wire[A][k]
      /\ sent(A, wire[A], x)[Len(wire[A]) + 1].left = last_execution_stage
      /\ sent(A, wire[A], x)[Len(sent(A, wire[A], x))].data = x
  BY <1>4, <1>5, Sent DEF arriving
<1>9. CASE goes_long
  <2>1. wire'[A] = sent(A, wire[A], x) /\ Same(x, read(X))
    BY <1>6, <1>7, <1>9
  <2>2. /\ Len(wire'[A]) = Len(wire[A]) + 1
        /\ \A k \in 1..Len(wire[A]) : wire'[A][k] = wire[A][k]
        /\ wire'[A][Len(wire[A]) + 1].left = last_execution_stage
        /\ wire'[A][Len(wire[A]) + 1].data = x
    BY <1>8, <2>1
  <2> QED
    BY <1>1, <1>3, <1>9, <2>1, <2>2 DEF long_alu, A, X
<1>10. CASE ~goes_long
  BY <1>1, <1>3, <1>7, <1>10 DEF long_alu, A
<1> QED
  BY <1>9, <1>10

\* The instructions in the long ALU, in a cycle without a flush.
LEMMA SameAlu ==
    ASSUME Pipe, ~is_flush, phase' \in Phases,
           \/ execute_clock
           \/ /\ long_alu' = long_alu /\ flush_expiration_latency' = flush_expiration_latency
              /\ phase \in LatePhases <=> phase' \in LatePhases
    PROVE  \A n, i, s :
              (\E k \in 1..Len(long_alu) :
                  /\ in_alu(k) /\ s = last_execution_stage - long_alu[k].left
                  /\ Is(long_alu[k].data, n, i))'
              <=> \E k \in 1..Len(long_alu) :
                  /\ in_alu(k) /\ s = last_execution_stage - long_alu[k].left
                  /\ Is(long_alu[k].data, n, i)
<1>1. CASE execute_clock
  <2>1. /\ flush_expiration_latency' = clocked_flush /\ flush_expiration_latency \in Nat
        /\ \A k \in 1..Len(long_alu) : long_alu'[k] = long_alu[k]
        /\ Len(long_alu') = Len(long_alu) \/
           (Len(long_alu') = Len(long_alu) + 1
            /\ long_alu'[Len(long_alu) + 1].left = last_execution_stage)
    BY <1>1, ExecuteAlu
  <2>2. phase \notin LatePhases /\ phase' \in LatePhases
    BY <1>1, StagePorts DEF LatePhases
  <2>3. /\ Len(long_alu) \in Nat /\ last_execution_stage \in Nat
        /\ \A k \in 1..Len(long_alu) : long_alu[k].left \in Nat
    BY AluPackets, StageNumbers
  <2>4. \A k \in 1..Len(long_alu) : in_alu(k)' <=> in_alu(k)
    BY <2>1, <2>2, <2>3 DEF in_alu, clocked_flush, last_execution_stage
  <2>5. \A k \in 1..Len(long_alu') : in_alu(k)' => k \in 1..Len(long_alu)
    <3> SUFFICES ASSUME NEW k \in 1..Len(long_alu'), in_alu(k)', k \notin 1..Len(long_alu) PROVE FALSE
      OBVIOUS
    <3>1. k = Len(long_alu) + 1 /\ long_alu'[k].left = last_execution_stage
      BY <2>1, <2>3
    <3>2. long_alu'[k].left < last_execution_stage
      BY DEF in_alu, last_execution_stage
    <3> QED
      BY <2>3, <3>1, <3>2
  <2>6. 1..Len(long_alu) \subseteq 1..Len(long_alu')
    BY <2>1, <2>3
  <2> QED
    BY <2>1, <2>4, <2>5, <2>6 DEF Is, last_execution_stage
<1>2. CASE /\ long_alu' = long_alu /\ flush_expiration_latency' = flush_expiration_latency
           /\ phase \in LatePhases <=> phase' \in LatePhases
  BY <1>2 DEF in_alu, Is, last_execution_stage
<1> QED
  BY <1>1, <1>2

FlightPorts ==
    {"DECODE_2_EXECUTE", "EXECUTE_2_MEMORY", "EXECUTE_2_BRANCH", "EXECUTE_2_WRITEBACK",
     "MEMORY_2_WRITEBACK", "BRANCH_2_WRITEBACK"}

LEMMA FlightPortsAre ==
    /\ FlightPorts \subseteq Ports
    /\ \A p \in FlightPorts : /\ p \notin writeback_ports /\ latency(p) = 1 /\ p \notin fetch_ports
                              /\ p # "EXECUTE_2_EXECUTE_LONG_LATENCY" /\ p # "LONG_LATENCY_PC_HOLDER"
<1>1. FlightPorts \subseteq Ports
  BY DEF FlightPorts, Ports, decode_ports, execute_ports, mem_ports, branch_ports
<1>2. \A p \in FlightPorts : /\ p \notin writeback_ports /\ p \notin fetch_ports
                             /\ p # "EXECUTE_2_EXECUTE_LONG_LATENCY" /\ p # "LONG_LATENCY_PC_HOLDER"
  BY DEF FlightPorts, writeback_ports, fetch_ports
<1> QED
  BY <1>1, <1>2, Latencies

\* A stage that is clocked, other than the core.
stage_clock ==
    fetch_clock \/ decode_clock \/ execute_clock \/ mem_clock \/ branch_clock \/ writeback_clock

LEMMA StageClock ==
    ASSUME Pipe, stage_clock
    PROVE  /\ Later(wire, wire') /\ phase' \in Phases
           /\ \/ execute_clock
              \/ /\ long_alu' = long_alu /\ flush_expiration_latency' = flush_expiration_latency
                 /\ phase \in LatePhases <=> phase' \in LatePhases
<1> DEFINE A == "EXECUTE_2_EXECUTE_LONG_LATENCY"
<1>1. A \in Ports /\ A \notin fetch_ports /\ A \notin decode_ports /\ A \notin mem_ports
      /\ A \notin branch_ports /\ A \notin writeback_ports
  BY NamedPorts, PortGroups
<1>2. \A Q : StageWrites(Q) /\ A \notin Q => Later(wire, wire') /\ long_alu' = long_alu
  BY <1>1 DEF StageWrites, long_alu
<1>3. \A Q : StageWrites(Q) => Later(wire, wire')
  BY DEF StageWrites
<1>4. CASE fetch_clock
  BY <1>1, <1>2, <1>4, StagePorts DEF fetch_clock, Phases, LatePhases
<1>5. CASE decode_clock
  BY <1>1, <1>2, <1>5, StagePorts DEF decode_clock, Phases, LatePhases
<1>6. CASE execute_clock
  BY <1>3, <1>6, StagePorts DEF Phases
<1>7. CASE mem_clock
  BY <1>1, <1>2, <1>7, StagePorts DEF mem_clock, Phases, LatePhases
<1>8. CASE branch_clock
  BY <1>1, <1>2, <1>8, StagePorts DEF branch_clock, Phases, LatePhases
<1>9. CASE writeback_clock
  BY <1>1, <1>2, <1>9, StagePorts DEF writeback_clock, Phases, LatePhases
<1> QED
  BY <1>4, <1>5, <1>6, <1>7, <1>8, <1>9 DEF stage_clock

\* Within a cycle without a flush every instruction stays where it is.
LEMMA SameFlight ==
    ASSUME Pipe, stage_clock
    PROVE  /\ is_flush' <=> is_flush
           /\ \A p \in FlightPorts : \A n, i : FliesFrom(p, n, i)' <=> FliesFrom(p, n, i)
           /\ ~is_flush => \A n, i, s : /\ InExecute(n, i, s)' <=> InExecute(n, i, s)
                                        /\ Flies(n, i, s)' <=> Flies(n, i, s)
<1>1. Later(wire, wire') /\ phase' \in Phases
  BY StageClock
<1>2. is_flush' <=> is_flush
  BY <1>1, SameCycle
<1>3. ASSUME NEW p \in FlightPorts, NEW n, NEW i PROVE FliesFrom(p, n, i)' <=> FliesFrom(p, n, i)
  <2>1. p \in Ports
    BY FlightPortsAre
  <2>2. (is_ready(p)' <=> is_ready(p)) /\ (is_ready(p) => read(p)' = read(p))
    BY <1>1, <2>1, SameReads
  <2> QED
    BY <2>2 DEF FliesFrom, Is
<1>4. ASSUME ~is_flush, NEW n, NEW i, NEW s
      PROVE  /\ InExecute(n, i, s)' <=> InExecute(n, i, s)
             /\ Flies(n, i, s)' <=> Flies(n, i, s)
  <2> DEFINE alu == \E k \in 1..Len(long_alu) :
                  /\ in_alu(k) /\ s = last_execution_stage - long_alu[k].left
                  /\ Is(long_alu[k].data, n, i)
  <2>1. alu' <=> alu
    BY <1>1, <1>4, StageClock, SameAlu
  <2>2. /\ FliesFrom("DECODE_2_EXECUTE", n, i)' <=> FliesFrom("DECODE_2_EXECUTE", n, i)
        /\ FliesFrom("EXECUTE_2_MEMORY", n, i)' <=> FliesFrom("EXECUTE_2_MEMORY", n, i)
        /\ FliesFrom("EXECUTE_2_BRANCH", n, i)' <=> FliesFrom("EXECUTE_2_BRANCH", n, i)
        /\ FliesFrom("EXECUTE_2_WRITEBACK", n, i)' <=> FliesFrom("EXECUTE_2_WRITEBACK", n, i)
        /\ FliesFrom("MEMORY_2_WRITEBACK", n, i)' <=> FliesFrom("MEMORY_2_WRITEBACK", n, i)
        /\ FliesFrom("BRANCH_2_WRITEBACK", n, i)' <=> FliesFrom("BRANCH_2_WRITEBACK", n, i)
    BY <1>3 DEF FlightPorts
  <2>3. InExecute(n, i, s) <=> (s = 0 /\ FliesFrom("DECODE_2_EXECUTE", n, i)) \/ alu
    BY DEF InExecute
  <2>4. InExecute(n, i, s)' <=> (s = 0 /\ FliesFrom("DECODE_2_EXECUTE", n, i)') \/ alu'
    BY DEF InExecute
  <2> HIDE DEF alu
  <2>5. InExecute(n, i, s)' <=> InExecute(n, i, s)
    BY <2>1, <2>2, <2>3, <2>4
  <2> QED
    BY <2>2, <2>5 DEF Flies, MEM_OR_BRANCH_STAGE, WB_STAGE
<1> QED
  BY <1>2, <1>3, <1>4

\* What a port that was not written yet sends on.
LEMMA SendingNow ==
    ASSUME NEW s, OnWire(s), Below(s, 1), NEW p \in FlightPorts, NEW c \in BOOLEAN, NEW x, NEW v,
           v = IF c THEN sent(p, s, x) ELSE s, p \in InstrPorts /\ c => IsInstr(x)
    PROVE  (Arrives(v) <=> c) /\ (c => arriving(v) = x)
<1>1. p \in Ports /\ latency(p) = 1
  BY FlightPortsAre
<1>2. c => Arrives(sent(p, s, x)) /\ arriving(sent(p, s, x)) = x
  BY <1>1, Sent DEF Fits
<1>3. ~Arrives(s)
  BY NotArriving
<1> QED
  BY <1>2, <1>3

\* What execute has sent to the other stages.
LEMMA ExecuteTo ==
    ASSUME Pipe, execute_clock, ~is_flush, NEW n, NEW i
    PROVE  LET X == "DECODE_2_EXECUTE"
               M == "EXECUTE_2_MEMORY"
               B == "EXECUTE_2_BRANCH"
               E == "EXECUTE_2_WRITEBACK"
           IN  /\ Sending(M, n, i)' <=> goes(M) /\ FliesFrom(X, n, i)
               /\ Sending(B, n, i)' <=> goes(B) /\ FliesFrom(X, n, i)
               /\ Sending(E, n, i)' <=> \/ completes /\ Is(read("EXECUTE_2_EXECUTE_LONG_LATENCY"), n, i)
                                        \/ goes(E) /\ FliesFrom(X, n, i)
<1> DEFINE A == "EXECUTE_2_EXECUTE_LONG_LATENCY"
           X == "DECODE_2_EXECUTE"
           M == "EXECUTE_2_MEMORY"
           B == "EXECUTE_2_BRANCH"
           E == "EXECUTE_2_WRITEBACK"
<1>1. /\ IsWire(wire) /\ ExecuteClock /\ \A p \in Ports : PortFits(p, wire[p])
  BY DEF Pipe, Wires, execute_clock, PortOK
<1>2. ~is_flush /\ is_ready(X) /\ get_instruction_latency(read(X).code) = 1 => ~completes
  BY NoCatchUp, StagePorts
<1>3. \E x : /\ is_ready(X) => Same(x, read(X))
             /\ wire'[B] = IF goes(B) THEN sent(B, wire[B], x) ELSE wire[B]
             /\ wire'[M] = IF goes(M) THEN sent(M, wire[M], x) ELSE wire[M]
             /\ wire'[E] = IF completes THEN sent(E, wire[E], read(A))
                           ELSE IF goes(E) THEN sent(E, wire[E], x) ELSE wire[E]
             /\ goes(E) => ~completes
  BY <1>1, <1>2, ExecuteSends
<1>4. {M, B, E} \subseteq FlightPorts /\ {M, B, E} \cap InstrPorts = {} /\ {M, B, E} \subseteq execute_ports
  BY DEF FlightPorts, InstrPorts, execute_ports
<1>5. \A p \in {M, B, E} : OnWire(wire[p]) /\ Below(wire[p], 1)
  <2>1. Unwritten(wire, execute_ports)
    BY StagePorts DEF Pipe, Wires
  <2> QED
    BY <1>1, <1>4, <2>1, FlightPortsAre, OnPort DEF Unwritten
<1>6. /\ \A p \in {M, B, E} : goes(p) \in BOOLEAN /\ (goes(p) => is_ready(X))
      /\ completes \in BOOLEAN
  BY DEF goes, completes, is_ready
<1> HIDE DEF A, X, M, B, E
<1>7. PICK x :
             /\ is_ready(X) => Same(x, read(X))
             /\ wire'[B] = IF goes(B) THEN sent(B, wire[B], x) ELSE wire[B]
             /\ wire'[M] = IF goes(M) THEN sent(M, wire[M], x) ELSE wire[M]
             /\ wire'[E] = IF completes THEN sent(E, wire[E], read(A))
                           ELSE IF goes(E) THEN sent(E, wire[E], x) ELSE wire[E]
             /\ goes(E) => ~completes
  BY <1>3
<1>8. is_ready(X) => (Is(x, n, i) <=> FliesFrom(X, n, i))
  BY <1>7 DEF Same, Is, FliesFrom
<1>9. /\ (Arrives(wire'[M]) <=> goes(M)) /\ (goes(M) => arriving(wire'[M]) = x)
      /\ (Arrives(wire'[B]) <=> goes(B)) /\ (goes(B) => arriving(wire'[B]) = x)
  BY <1>4, <1>5, <1>6, <1>7, SendingNow
<1>10. /\ Arrives(wire'[E]) <=> completes \/ goes(E)
       /\ completes => arriving(wire'[E]) = read(A)
       /\ ~completes /\ goes(E) => arriving(wire'[E]) = x
  <2>1. CASE completes
    <3>1. wire'[E] = IF completes THEN sent(E, wire[E], read(A)) ELSE wire[E]
      BY <1>7, <2>1
    <3>2. E \in FlightPorts /\ E \notin InstrPorts /\ OnWire(wire[E]) /\ Below(wire[E], 1)
      BY <1>4, <1>5
    <3>3. (Arrives(wire'[E]) <=> completes) /\ (completes => arriving(wire'[E]) = read(A))
      BY <1>6, <3>1, <3>2, SendingNow
    <3> QED
      BY <2>1, <3>3
  <2>2. CASE ~completes
    <3>1. wire'[E] = IF goes(E) THEN sent(E, wire[E], x) ELSE wire[E]
      BY <1>7, <2>2
    <3> QED
      BY <1>4, <1>5, <1>6, <2>2, <3>1, SendingNow
  <2> QED
    BY <2>1, <2>2
<1>11. \A p \in {M, B, E} : Sending(p, n, i)' <=> Arrives(wire'[p]) /\ Is(arriving(wire'[p]), n, i)
  BY DEF Sending, Is, arriving, Arrives
<1>12. (Sending(M, n, i)' <=> goes(M) /\ FliesFrom(X, n, i))
       /\ (Sending(B, n, i)' <=> goes(B) /\ FliesFrom(X, n, i))
  BY <1>6, <1>8, <1>9, <1>11
<1>13. Sending(E, n, i)' <=> (completes /\ Is(read(A), n, i)) \/ (goes(E) /\ FliesFrom(X, n, i))
  BY <1>6, <1>7, <1>8, <1>10, <1>11
<1> QED
  BY <1>12, <1>13 DEF A, X, M, B, E

LEMMA MovesExecute ==
    ASSUME Pipe, Moves, execute_clock, NEW n, NEW i, NEW s
    PROVE  LeavesTo(n, i, s)' <=> ~is_flush /\ \E r : InExecute(n, i, r) /\ s = moves_to(r, i)
<1> DEFINE A == "EXECUTE_2_EXECUTE_LONG_LATENCY"
           X == "DECODE_2_EXECUTE"
           M == "EXECUTE_2_MEMORY"
           B == "EXECUTE_2_BRANCH"
           E == "EXECUTE_2_WRITEBACK"
           last == last_execution_stage
           f == flush_expiration_latency
           staying == \E k \in 1..Len(long_alu) :
              /\ long_alu[k].left >= 1 /\ f <= long_alu[k].left
              /\ s = last - long_alu[k].left + 1
              /\ Is(long_alu[k].data, n, i)
<1>1. LeavesTo(n, i, s)' <=> \/ staying'
                             \/ s = 253 /\ (Sending(M, n, i)' \/ Sending(B, n, i)')
                             \/ s = 254 /\ Sending(E, n, i)'
  BY DEF LeavesTo, MEM_OR_BRANCH_STAGE, WB_STAGE
<1>2. /\ Len(long_alu) \in Nat /\ f \in Nat /\ OnWire(long_alu) /\ Strict(long_alu)
      /\ \A k \in 1..Len(long_alu) : long_alu[k].left \in Nat /\ long_alu[k].left < last
  BY AluPackets, StagePorts DEF Pipe, Timing, LatePhases
<1>3. last \in Nat /\ last >= 1 /\ last <= 62 /\ last' = last
  BY StageNumbers DEF last_execution_stage
<1>4. f <= last
  BY DEF Moves
<1>5. phase \notin LatePhases /\ phase' \in LatePhases
  BY StagePorts DEF LatePhases
<1>6. CASE is_flush
  <2>1. wire' = wire /\ f' = last
    <3>1. ExecuteClock
      BY DEF execute_clock
    <3>2. wire' = wire /\ f' = saved_flush
      BY <1>6, <3>1 DEF ExecuteClock, ExecuteFlush, ExecuteBubble, ExecuteInstr
    <3> QED
      BY <3>2 DEF saved_flush, last_execution_stage
  <2>2. ~staying'
    BY <1>2, <1>3, <2>1 DEF long_alu
  <2>3. \A p \in {M, B, E} : ~Arrives(wire'[p])
    <3>1. Unwritten(wire, execute_ports) /\ IsWire(wire)
      BY StagePorts DEF Pipe, Wires
    <3>2. {M, B, E} \subseteq execute_ports /\ {M, B, E} \subseteq FlightPorts
      BY DEF execute_ports, FlightPorts
    <3> QED
      BY <2>1, <3>1, <3>2, FlightPortsAre, OnPort, NotArriving DEF Unwritten
  <2>4. \A p \in {M, B, E} : ~Sending(p, n, i)'
    BY <2>3 DEF Sending
  <2> QED
    BY <1>1, <1>6, <2>2, <2>4
<1>7. CASE ~is_flush
  <2>1. /\ f' = clocked_flush
        /\ \A k \in 1..Len(long_alu) : long_alu'[k] = long_alu[k]
        /\ ~goes_long => Len(long_alu') = Len(long_alu)
        /\ goes_long => /\ Len(long_alu') = Len(long_alu) + 1
                        /\ long_alu'[Len(long_alu) + 1].left = last
                        /\ Same(long_alu'[Len(long_alu) + 1].data, read(X))
    BY <1>7, ExecuteAlu
  <2>2. /\ Sending(M, n, i)' <=> goes(M) /\ FliesFrom(X, n, i)
        /\ Sending(B, n, i)' <=> goes(B) /\ FliesFrom(X, n, i)
        /\ Sending(E, n, i)' <=> \/ completes /\ Is(read(A), n, i)
                                 \/ goes(E) /\ FliesFrom(X, n, i)
    BY <1>7, ExecuteTo
  <2>3. f' \in Nat /\ f' <= last /\ \A m \in Nat : f' <= m <=> f <= m + 1
    BY <1>2, <1>3, <1>4, <2>1 DEF clocked_flush
  <2> DEFINE old == \E k \in 1..Len(long_alu) :
                       /\ in_alu(k) /\ long_alu[k].left >= 1
                       /\ s = last - long_alu[k].left + 1 /\ Is(long_alu[k].data, n, i)
             new == goes_long /\ FliesFrom(X, n, i) /\ s = 1
             out == completes /\ Is(read(A), n, i) /\ s = 254
             short == \/ (goes(M) \/ goes(B)) /\ FliesFrom(X, n, i) /\ s = 253
                      \/ goes(E) /\ FliesFrom(X, n, i) /\ s = 254
  <2>4. \A k \in 1..Len(long_alu) : in_alu(k) <=> f' <= long_alu[k].left
    BY <1>2, <1>5, <2>3 DEF in_alu
  <2>5. staying' <=> old \/ new
    <3> DEFINE at(k) == /\ long_alu'[k].left >= 1 /\ f' <= long_alu'[k].left
                        /\ s = last - long_alu'[k].left + 1 /\ Is(long_alu'[k].data, n, i)
    <3>1. staying' <=> \E k \in 1..Len(long_alu') : at(k)
      BY <1>3 DEF Is
    <3>2. \A k \in 1..Len(long_alu) :
             at(k) <=> /\ in_alu(k) /\ long_alu[k].left >= 1
                       /\ s = last - long_alu[k].left + 1 /\ Is(long_alu[k].data, n, i)
      BY <2>1, <2>4
    <3>3. goes_long => (at(Len(long_alu) + 1) <=> new)
      <4> SUFFICES ASSUME goes_long PROVE at(Len(long_alu) + 1) <=> new
        OBVIOUS
      <4> DEFINE k == Len(long_alu) + 1
      <4>1. long_alu'[k].left = last /\ Same(long_alu'[k].data, read(X)) /\ is_ready(X)
        BY <2>1 DEF goes_long
      <4>2. Is(long_alu'[k].data, n, i) <=> FliesFrom(X, n, i)
        BY <4>1 DEF Same, Is, FliesFrom
      <4> HIDE DEF k
      <4>3. at(k) <=> s = 1 /\ Is(long_alu'[k].data, n, i)
        BY <1>3, <2>3, <4>1
      <4> QED
        BY <4>2, <4>3 DEF k
    <3> HIDE DEF at
    <3>4. CASE goes_long
      <4>1. 1..Len(long_alu') = 1..Len(long_alu) \cup {Len(long_alu) + 1}
        BY <1>2, <2>1, <3>4
      <4> QED
        BY <3>1, <3>2, <3>3, <3>4, <4>1
    <3>5. CASE ~goes_long
      BY <2>1, <3>1, <3>2, <3>5
    <3> QED
      BY <3>4, <3>5
  <2>6. LeavesTo(n, i, s)' <=> old \/ new \/ out \/ short
    <3> HIDE DEF old, new, staying
    <3> QED
      BY <1>1, <2>2, <2>5
  <2>7. out <=> \E k \in 1..Len(long_alu) :
                   in_alu(k) /\ long_alu[k].left = 0 /\ s = 254 /\ Is(long_alu[k].data, n, i)
    <3>1. ASSUME completes
          PROVE  1 \in 1..Len(long_alu) /\ long_alu[1].left = 0 /\ in_alu(1) /\ read(A) = long_alu[1].data
      <4>1. long_alu # <<>> /\ long_alu[1].left = 0 /\ clocked_flush = 0
        BY <3>1 DEF completes, is_ready, long_alu
      <4>2. 1 \in 1..Len(long_alu)
        BY <1>2, <4>1, FirstPacket
      <4> QED
        BY <2>1, <2>4, <4>1, <4>2 DEF read, long_alu
    <3>2. ASSUME NEW k \in 1..Len(long_alu), in_alu(k), long_alu[k].left = 0
          PROVE  completes /\ read(A) = long_alu[k].data
      <4>1. 1 \in 1..Len(long_alu)
        BY <1>2
      <4>2. k = 1
        <5>1. 1 < k => long_alu[1].left < long_alu[k].left
          BY <1>2, <4>1 DEF Strict
        <5> QED
          BY <1>2, <3>2, <4>1, <5>1
      <4>3. f' = 0 /\ wire[A] # <<>>
        BY <1>2, <2>3, <2>4, <3>2 DEF long_alu
      <4> QED
        BY <2>1, <3>2, <4>2, <4>3 DEF completes, is_ready, read, long_alu
    <3> QED
      BY <3>1, <3>2
  <2>8. FliesFrom(X, n, i) /\ s = next_stage(i).value <=> new \/ short
    <3> SUFFICES ASSUME FliesFrom(X, n, i) PROVE s = next_stage(i).value <=> new \/ short
      OBVIOUS
    <3>1. is_ready(X) /\ read(X).code = i
      BY DEF FliesFrom, Is
    <3>2. (goes_long <=> is_long_arithmetic(i))
          /\ \A p : goes(p) <=> ~is_long_arithmetic(i) /\ next_port(i) = p
      BY <3>1 DEF goes_long, goes
    <3>3. next_port(i) \in {B, M, E}
      BY NextStage
    <3>4. is_long_arithmetic(i) => next_stage(i).value = 1
      BY NextStage
    <3>5. ~is_long_arithmetic(i) => next_stage(i).value = IF next_port(i) = E THEN 254 ELSE 253
      BY NextStage DEF WB_STAGE, MEM_OR_BRANCH_STAGE
    <3>6. B # M /\ B # E /\ M # E
      OBVIOUS
    <3> HIDE DEF B, M, E, X
    <3>7. CASE is_long_arithmetic(i)
      BY <3>2, <3>4, <3>7
    <3>8. CASE ~is_long_arithmetic(i)
      BY <3>2, <3>3, <3>5, <3>6, <3>8
    <3> QED
      BY <3>7, <3>8
  <2>9. (\E k \in 1..Len(long_alu) :
            in_alu(k) /\ s = moves_to(last - long_alu[k].left, i) /\ Is(long_alu[k].data, n, i))
        <=> old \/ out
    <3>1. ASSUME NEW k \in 1..Len(long_alu)
          PROVE  moves_to(last - long_alu[k].left, i)
                   = IF long_alu[k].left = 0 THEN 254 ELSE last - long_alu[k].left + 1
      <4>1. long_alu[k].left \in Nat /\ long_alu[k].left < last
        BY <1>2
      <4> QED
        BY <1>3, <4>1 DEF moves_to, WB_STAGE, MEM_OR_BRANCH_STAGE
    <3> HIDE DEF out
    <3> QED
      BY <1>2, <2>7, <3>1
  <2>10. (\E r : InExecute(n, i, r) /\ s = moves_to(r, i))
         <=> \/ FliesFrom(X, n, i) /\ s = moves_to(0, i)
             \/ \E k \in 1..Len(long_alu) :
                   in_alu(k) /\ s = moves_to(last - long_alu[k].left, i) /\ Is(long_alu[k].data, n, i)
    BY DEF InExecute
  <2>11. moves_to(0, i) = next_stage(i).value
    BY DEF moves_to
  <2> HIDE DEF old, new, out, short
  <2> QED
    BY <1>7, <2>6, <2>8, <2>9, <2>10, <2>11
<1> QED
  BY <1>6, <1>7

\* The memory and the branch stage pass their instruction on.
LEMMA MovesMem ==
    ASSUME Pipe, Carried, mem_clock, NEW n, NEW i
    PROVE  Sending("MEMORY_2_WRITEBACK", n, i)' <=> ~is_flush /\ FliesFrom("EXECUTE_2_MEMORY", n, i)
<1> DEFINE W == "MEMORY_2_WRITEBACK"
           M == "EXECUTE_2_MEMORY"
           c == ~is_flush /\ is_ready(M)
<1>1. W \in FlightPorts /\ W \notin InstrPorts /\ W \in mem_ports /\ M \in CodePorts /\ M \in FlightPorts
  BY DEF FlightPorts, InstrPorts, mem_ports, CodePorts
<1>2. IsWire(wire) /\ MemClock /\ Unwritten(wire, mem_ports)
  BY StagePorts DEF Pipe, Wires, mem_clock
<1>3. OnWire(wire[W]) /\ Below(wire[W], 1)
  BY <1>1, <1>2, FlightPortsAre, OnPort DEF Unwritten
<1>4. is_ready(M) => IsInstr(read(M))
  BY <1>1, <1>2, FlightPortsAre, CarriedRead DEF Known
<1>5. \/ wire' = wire /\ ~c
      \/ c /\ \E x : Same(x, read(M)) /\ wire'[W] = sent(W, wire[W], x)
  BY <1>2, <1>4, MemoryStageSends
<1>6. c \in BOOLEAN
  BY DEF is_ready
<1>7. Sending(W, n, i)' <=> Arrives(wire'[W]) /\ Is(arriving(wire'[W]), n, i)
  BY DEF Sending, Is, arriving, Arrives
<1>8. ~is_flush /\ FliesFrom(M, n, i) <=> c /\ Is(read(M), n, i)
  BY DEF FliesFrom
<1> HIDE DEF W, M, c
<1>9. PICK x : (c => Same(x, read(M))) /\ wire'[W] = IF c THEN sent(W, wire[W], x) ELSE wire[W]
  BY <1>5
<1>10. (Arrives(wire'[W]) <=> c) /\ (c => arriving(wire'[W]) = x)
  BY <1>1, <1>3, <1>6, <1>9, SendingNow
<1>11. Sending(W, n, i)' <=> c /\ Is(read(M), n, i)
  BY <1>7, <1>9, <1>10 DEF Same, Is
<1> QED
  BY <1>8, <1>11 DEF W, M

LEMMA MovesBranch ==
    ASSUME Pipe, branch_clock, NEW n, NEW i
    PROVE  Sending("BRANCH_2_WRITEBACK", n, i)' <=> ~is_flush /\ FliesFrom("EXECUTE_2_BRANCH", n, i)
<1> DEFINE W == "BRANCH_2_WRITEBACK"
           B == "EXECUTE_2_BRANCH"
           c == ~is_flush /\ is_ready(B)
<1>1. W \in FlightPorts /\ W \notin InstrPorts /\ W \in branch_ports
  BY DEF FlightPorts, InstrPorts, branch_ports
<1>2. IsWire(wire) /\ BranchClock /\ Unwritten(wire, branch_ports)
  BY StagePorts DEF Pipe, Wires, branch_clock
<1>3. OnWire(wire[W]) /\ Below(wire[W], 1)
  BY <1>1, <1>2, FlightPortsAre, OnPort DEF Unwritten
<1>4. \/ wire' = wire /\ ~c
      \/ c /\ wire'[W] = sent(W, wire[W], read(B))
  BY <1>2, BranchStageSends
<1>5. c \in BOOLEAN
  BY DEF is_ready
<1>6. Sending(W, n, i)' <=> Arrives(wire'[W]) /\ Is(arriving(wire'[W]), n, i)
  BY DEF Sending, Is, arriving, Arrives
<1>7. ~is_flush /\ FliesFrom(B, n, i) <=> c /\ Is(read(B), n, i)
  BY DEF FliesFrom
<1> HIDE DEF W, B, c
<1>8. wire'[W] = IF c THEN sent(W, wire[W], read(B)) ELSE wire[W]
  BY <1>4
<1>9. (Arrives(wire'[W]) <=> c) /\ (c => arriving(wire'[W]) = read(B))
  BY <1>1, <1>3, <1>5, <1>8, SendingNow
<1>10. Sending(W, n, i)' <=> c /\ Is(read(B), n, i)
  BY <1>6, <1>9 DEF Is
<1> QED
  BY <1>7, <1>10 DEF W, B

\* What was sent stays sent.
LEMMA SendingKept ==
    ASSUME NEW p, wire'[p] = wire[p], NEW n, NEW i
    PROVE  Sending(p, n, i)' <=> Sending(p, n, i)
  BY DEF Sending, Is, arriving, Arrives

LEMMA MovesStage ==
    ASSUME Pipe, Carried, Moves, stage_clock
    PROVE  Moves'
<1> DEFINE A == "EXECUTE_2_EXECUTE_LONG_LATENCY"
           M == "EXECUTE_2_MEMORY"
           B == "EXECUTE_2_BRANCH"
           E == "EXECUTE_2_WRITEBACK"
           MW == "MEMORY_2_WRITEBACK"
           BW == "BRANCH_2_WRITEBACK"
<1>1. /\ is_flush' <=> is_flush
      /\ \A n, i : FliesFrom(M, n, i)' <=> FliesFrom(M, n, i)
      /\ \A n, i : FliesFrom(B, n, i)' <=> FliesFrom(B, n, i)
      /\ ~is_flush => \A n, i, s : InExecute(n, i, s)' <=> InExecute(n, i, s)
  BY SameFlight DEF FlightPorts
<1>2. /\ {A, M, B, E, MW, BW} \subseteq Ports
      /\ {A, M, B, E} \cap (mem_ports \cup branch_ports \cup writeback_ports) = {}
      /\ MW \notin branch_ports \cup writeback_ports /\ BW \notin writeback_ports
  BY ExecutePorts, FlightPortsAre DEF mem_ports, branch_ports, writeback_ports, FlightPorts
<1>3. ASSUME mem_clock \/ branch_clock \/ writeback_clock
      PROVE  \A n, i, s : LeavesTo(n, i, s)' <=> LeavesTo(n, i, s)
  <2>1. \A p \in {A, M, B, E} : wire'[p] = wire[p]
    BY <1>2, <1>3, StagePorts DEF StageWrites
  <2>2. flush_expiration_latency' = flush_expiration_latency /\ long_alu' = long_alu
    BY <1>3, <2>1 DEF mem_clock, branch_clock, writeback_clock, long_alu
  <2>3. \A n, i : /\ Sending(M, n, i)' <=> Sending(M, n, i)
                  /\ Sending(B, n, i)' <=> Sending(B, n, i)
                  /\ Sending(E, n, i)' <=> Sending(E, n, i)
    BY <2>1, SendingKept
  <2> QED
    BY <2>2, <2>3 DEF LeavesTo, MEM_OR_BRANCH_STAGE, WB_STAGE, last_execution_stage, Is
<1>4. flush_expiration_latency' <= last_execution_stage
  <2>1. CASE execute_clock
    <3>1. CASE is_flush
      <4>1. ExecuteClock
        BY <2>1 DEF execute_clock
      <4>2. flush_expiration_latency' = saved_flush
        BY <3>1, <4>1 DEF ExecuteClock, ExecuteFlush, ExecuteBubble, ExecuteInstr
      <4> QED
        BY <4>2, StageNumbers DEF saved_flush
    <3>2. CASE ~is_flush
      <4>1. flush_expiration_latency' = clocked_flush /\ flush_expiration_latency \in Nat
            /\ flush_expiration_latency <= last_execution_stage
        BY <2>1, <3>2, ExecuteAlu DEF Moves
      <4> QED
        BY <4>1, StageNumbers DEF clocked_flush
    <3> QED
      BY <3>1, <3>2
  <2>2. CASE ~execute_clock
    BY <2>2, StageClock DEF Moves
  <2> QED
    BY <2>1, <2>2
<1>5. phase' \in LatePhases =>
          \A n, i, s : LeavesTo(n, i, s)' <=>
              ~is_flush' /\ \E r : InExecute(n, i, r)' /\ s = moves_to(r, i)
  <2> SUFFICES ASSUME phase' \in LatePhases, NEW n, NEW i, NEW s
               PROVE  LeavesTo(n, i, s)' <=>
                         ~is_flush' /\ \E r : InExecute(n, i, r)' /\ s = moves_to(r, i)
    OBVIOUS
  <2>1. LeavesTo(n, i, s)' <=> ~is_flush /\ \E r : InExecute(n, i, r) /\ s = moves_to(r, i)
    <3>1. CASE execute_clock
      BY <3>1, MovesExecute
    <3>2. CASE mem_clock \/ branch_clock \/ writeback_clock
      <4>1. phase \in LatePhases
        BY <3>2, StagePorts DEF LatePhases
      <4> QED
        BY <1>3, <3>2, <4>1 DEF Moves
    <3>3. CASE fetch_clock \/ decode_clock
      BY <3>3, StagePorts DEF LatePhases
    <3> QED
      BY <3>1, <3>2, <3>3 DEF stage_clock
  <2> QED
    BY <1>1, <2>1
<1>6. phase' \in {"branch", "writeback", "core"} =>
          \A n, i : Sending(MW, n, i)' <=> ~is_flush' /\ FliesFrom(M, n, i)'
  <2> SUFFICES ASSUME phase' \in {"branch", "writeback", "core"}, NEW n, NEW i
               PROVE  Sending(MW, n, i)' <=> ~is_flush /\ FliesFrom(M, n, i)
    BY <1>1
  <2>1. CASE mem_clock
    BY <2>1, MovesMem
  <2>2. CASE branch_clock \/ writeback_clock
    <3>1. wire'[MW] = wire[MW] /\ phase \in {"branch", "writeback", "core"}
      BY <1>2, <2>2, StagePorts DEF StageWrites
    <3>2. Sending(MW, n, i)' <=> Sending(MW, n, i)
      BY <3>1, SendingKept
    <3> QED
      BY <3>1, <3>2 DEF Moves
  <2>3. CASE fetch_clock \/ decode_clock \/ execute_clock
    BY <2>3, StagePorts
  <2> QED
    BY <2>1, <2>2, <2>3 DEF stage_clock
<1>7. phase' \in {"writeback", "core"} =>
          \A n, i : Sending(BW, n, i)' <=> ~is_flush' /\ FliesFrom(B, n, i)'
  <2> SUFFICES ASSUME phase' \in {"writeback", "core"}, NEW n, NEW i
               PROVE  Sending(BW, n, i)' <=> ~is_flush /\ FliesFrom(B, n, i)
    BY <1>1
  <2>1. CASE branch_clock
    BY <2>1, MovesBranch
  <2>2. CASE writeback_clock
    <3>1. wire'[BW] = wire[BW] /\ phase \in {"writeback", "core"}
      BY <1>2, <2>2, StagePorts DEF StageWrites
    <3>2. Sending(BW, n, i)' <=> Sending(BW, n, i)
      BY <3>1, SendingKept
    <3> QED
      BY <3>1, <3>2 DEF Moves
  <2>3. CASE fetch_clock \/ decode_clock \/ execute_clock \/ mem_clock
    BY <2>3, StagePorts
  <2> QED
    BY <2>1, <2>2, <2>3 DEF stage_clock
<1> QED
  BY <1>4, <1>5, <1>6, <1>7 DEF Moves, last_execution_stage, moves_to, MEM_OR_BRANCH_STAGE, WB_STAGE

LEMMA MovesStep ==
    ASSUME Pipe, Carried, Moves, [Next]_vars
    PROVE  Moves'
<1>1. CASE stage_clock
  BY <1>1, MovesStage
<1>2. CASE core_clock
  <2>1. phase' = "fetch" /\ flush_expiration_latency' = flush_expiration_latency
    BY <1>2 DEF core_clock
  <2> QED
    BY <2>1 DEF Moves, LatePhases, last_execution_stage
<1>3. CASE run \/ Done \/ UNCHANGED vars
  <2>1. wire' = wire /\ phase' = phase /\ flush_expiration_latency' = flush_expiration_latency
    BY <1>3 DEF run, Done, vars, stageVars
  <2>2. long_alu' = long_alu /\ (is_flush' <=> is_flush)
    BY <2>1 DEF long_alu, is_flush, is_ready
  <2>3. \A p, n, i : /\ Sending(p, n, i)' <=> Sending(p, n, i)
                     /\ FliesFrom(p, n, i)' <=> FliesFrom(p, n, i)
    BY <2>1 DEF Sending, FliesFrom, Is, arriving, Arrives, is_ready, read
  <2>4. \A n, i, s : /\ LeavesTo(n, i, s)' <=> LeavesTo(n, i, s)
                     /\ InExecute(n, i, s)' <=> InExecute(n, i, s)
    BY <2>1, <2>2, <2>3 DEF LeavesTo, InExecute, in_alu, Is, last_execution_stage,
       MEM_OR_BRANCH_STAGE, WB_STAGE
  <2> QED
    BY <2>1, <2>2, <2>3, <2>4 DEF Moves, last_execution_stage, moves_to, MEM_OR_BRANCH_STAGE, WB_STAGE
<1> QED
  BY <1>1, <1>2, <1>3 DEF Next, clock, stage_clock

LEMMA MovesInit ==
    ASSUME Init
    PROVE  Moves
<1>1. phase = "fetch" /\ flush_expiration_latency = 0
  BY DEF Init
<1> QED
  BY <1>1, StageNumbers DEF Moves, LatePhases

\* Where execute can have an instruction.
LEMMA ExecuteStages ==
    ASSUME Pipe, NEW n, NEW i, NEW s, InExecute(n, i, s)
    PROVE  s \in 0..last_execution_stage
<1>1. /\ last_execution_stage \in Nat
      /\ \A k \in 1..Len(long_alu) : long_alu[k].left \in Nat
  BY AluPackets, StageNumbers
<1> QED
  BY <1>1 DEF InExecute, in_alu

LEMMA FlightStages ==
    ASSUME Pipe, NEW n, NEW i, NEW s, Flies(n, i, s)
    PROVE  s \in 0..last_execution_stage \/ s = MEM_OR_BRANCH_STAGE \/ s = WB_STAGE
  BY ExecuteStages DEF Flies

\* The next cycle: a new instruction, and the others one stage further.
LEMMA NextFlight ==
    ASSUME Pipe, Moves, core_clock, NEW n, NEW i, NEW s
    PROVE  Flies(n, i, s)' <=>
              \/ s = 0 /\ Sending("DECODE_2_EXECUTE", n, i)
              \/ ~is_flush /\ \E r : Flies(n, i, r) /\ r # WB_STAGE /\ s = moves_to(r, i)
<1> DEFINE X == "DECODE_2_EXECUTE"
           M == "EXECUTE_2_MEMORY"
           B == "EXECUTE_2_BRANCH"
           E == "EXECUTE_2_WRITEBACK"
           MW == "MEMORY_2_WRITEBACK"
           BW == "BRANCH_2_WRITEBACK"
           A == "EXECUTE_2_EXECUTE_LONG_LATENCY"
           last == last_execution_stage
           f == flush_expiration_latency
           alu == \E k \in 1..Len(long_alu) :
              /\ in_alu(k) /\ s = last - long_alu[k].left /\ Is(long_alu[k].data, n, i)
           staying == \E k \in 1..Len(long_alu) :
              /\ long_alu[k].left >= 1 /\ f <= long_alu[k].left
              /\ s = last - long_alu[k].left + 1 /\ Is(long_alu[k].data, n, i)
<1>1. /\ Wires /\ tick /\ phase = "core" /\ phase' = "fetch" /\ f' = f
      /\ last \in Nat /\ last >= 1 /\ last <= 62 /\ last' = last /\ f \in Nat
  BY StageNumbers DEF Pipe, Timing, core_clock, last_execution_stage
<1>2. ASSUME NEW p \in FlightPorts PROVE FliesFrom(p, n, i)' <=> Sending(p, n, i)
  <2>1. p \in Ports /\ p \notin writeback_ports /\ p # "EXECUTE_2_EXECUTE_LONG_LATENCY"
        /\ p # "LONG_LATENCY_PC_HOLDER"
    BY FlightPortsAre
  <2>2. Strict(wire[p])
    BY <1>1, <2>1 DEF Wires
  <2>3. (is_ready(p)' <=> Arrives(wire[p])) /\ (Arrives(wire[p]) => read(p)' = arriving(wire[p]))
    BY <1>1, <2>1, <2>2, TickReads
  <2> QED
    BY <2>3 DEF FliesFrom, Sending, Is
<1>3. alu' <=> staying
  <2>1. A \in Ports /\ phase' \notin LatePhases
    BY <1>1, NamedPorts, PortGroups DEF LatePhases
  <2>2. \A k \in 1..Len(long_alu') : \E j \in 1..Len(long_alu) :
              long_alu[j].left = long_alu'[k].left + 1 /\ long_alu[j].data = long_alu'[k].data
    BY <1>1, <2>1, TickPackets DEF long_alu
  <2>3. \A j \in 1..Len(long_alu) : long_alu[j].left >= 1 => \E k \in 1..Len(long_alu') :
              long_alu[j].left = long_alu'[k].left + 1 /\ long_alu[j].data = long_alu'[k].data
    <3>1. OnWire(wire[A]) /\ Ordered(wire[A]) /\ wire'[A] = in_transit(wire[A])
      BY <1>1, <2>1, TickWires, OnPort DEF Wires, PortOK
    <3> QED
      BY <3>1, NextPackets DEF long_alu
  <2>4. \A j \in 1..Len(long_alu) : long_alu[j].left \in Nat /\ long_alu[j].left <= last
    BY AluPackets
  <2>5. \A k \in 1..Len(long_alu') : long_alu'[k].left \in Nat
    <3>1. IsWire(wire')
      BY <1>1, TickWires
    <3>2. OnWire(long_alu')
      BY <2>1, <3>1, OnPort DEF long_alu
    <3> QED
      BY <3>2, PacketsOf DEF OnWire
  <2>6. \A k \in 1..Len(long_alu') :
           in_alu(k)' <=> long_alu'[k].left < last /\ f <= long_alu'[k].left + 1
    BY <1>1, <2>1 DEF in_alu
  <2>7. alu' <=> \E k \in 1..Len(long_alu') : in_alu(k)'
                    /\ s = last - long_alu'[k].left /\ Is(long_alu'[k].data, n, i)
    BY <1>1 DEF Is
  <2>8. ASSUME alu' PROVE staying
    <3>1. PICK k \in 1..Len(long_alu') : in_alu(k)'
                    /\ s = last - long_alu'[k].left /\ Is(long_alu'[k].data, n, i)
      BY <2>7, <2>8
    <3>2. PICK j \in 1..Len(long_alu) :
              long_alu[j].left = long_alu'[k].left + 1 /\ long_alu[j].data = long_alu'[k].data
      BY <2>2
    <3> QED
      BY <1>1, <2>4, <2>5, <2>6, <3>1, <3>2
  <2>9. ASSUME staying PROVE alu'
    <3>1. PICK j \in 1..Len(long_alu) :
              /\ long_alu[j].left >= 1 /\ f <= long_alu[j].left
              /\ s = last - long_alu[j].left + 1 /\ Is(long_alu[j].data, n, i)
      BY <2>9
    <3>2. PICK k \in 1..Len(long_alu') :
              long_alu[j].left = long_alu'[k].left + 1 /\ long_alu[j].data = long_alu'[k].data
      BY <2>3, <3>1
    <3>3. Is(long_alu'[k].data, n, i)
      BY <3>1, <3>2
    <3>4. s = last - long_alu'[k].left
      BY <1>1, <2>4, <2>5, <3>1, <3>2
    <3>5. long_alu'[k].left < last /\ f <= long_alu'[k].left + 1
      BY <1>1, <2>4, <2>5, <3>1, <3>2
    <3>6. in_alu(k)'
      BY <2>6, <3>5
    <3> QED
      BY <2>7, <3>3, <3>4, <3>6
  <2> QED
    BY <2>8, <2>9
<1>4. Flies(n, i, s)' <=>
         \/ s = 0 /\ Sending(X, n, i)
         \/ LeavesTo(n, i, s)
         \/ s = WB_STAGE /\ (Sending(MW, n, i) \/ Sending(BW, n, i))
  <2>1. /\ FliesFrom(X, n, i)' <=> Sending(X, n, i)
        /\ FliesFrom(M, n, i)' <=> Sending(M, n, i)
        /\ FliesFrom(B, n, i)' <=> Sending(B, n, i)
        /\ FliesFrom(E, n, i)' <=> Sending(E, n, i)
        /\ FliesFrom(MW, n, i)' <=> Sending(MW, n, i)
        /\ FliesFrom(BW, n, i)' <=> Sending(BW, n, i)
    BY <1>2 DEF FlightPorts
  <2>2. Flies(n, i, s)' <=>
           \/ s = 0 /\ FliesFrom(X, n, i)'
           \/ alu'
           \/ s = MEM_OR_BRANCH_STAGE /\ (FliesFrom(M, n, i)' \/ FliesFrom(B, n, i)')
           \/ s = WB_STAGE /\ (FliesFrom(E, n, i)' \/ FliesFrom(MW, n, i)' \/ FliesFrom(BW, n, i)')
    BY DEF Flies, InExecute, MEM_OR_BRANCH_STAGE, WB_STAGE
  <2>3. LeavesTo(n, i, s) <=>
           \/ staying
           \/ s = MEM_OR_BRANCH_STAGE /\ (Sending(M, n, i) \/ Sending(B, n, i))
           \/ s = WB_STAGE /\ Sending(E, n, i)
    BY DEF LeavesTo
  <2> HIDE DEF alu, staying
  <2> QED
    BY <1>3, <2>1, <2>2, <2>3
<1>5. /\ LeavesTo(n, i, s) <=> ~is_flush /\ \E r : InExecute(n, i, r) /\ s = moves_to(r, i)
      /\ Sending(MW, n, i) <=> ~is_flush /\ FliesFrom(M, n, i)
      /\ Sending(BW, n, i) <=> ~is_flush /\ FliesFrom(B, n, i)
  BY <1>1 DEF Moves, LatePhases
<1>6. (\E r : Flies(n, i, r) /\ r # WB_STAGE /\ s = moves_to(r, i))
      <=> \/ \E r : InExecute(n, i, r) /\ s = moves_to(r, i)
          \/ s = WB_STAGE /\ (FliesFrom(M, n, i) \/ FliesFrom(B, n, i))
  <2>1. \A r : InExecute(n, i, r) => r # WB_STAGE
    BY <1>1, ExecuteStages, StageNumbers
  <2>2. moves_to(MEM_OR_BRANCH_STAGE, i) = WB_STAGE /\ MEM_OR_BRANCH_STAGE # WB_STAGE
    BY DEF moves_to, MEM_OR_BRANCH_STAGE, WB_STAGE
  <2> QED
    BY <2>1, <2>2 DEF Flies
<1> QED
  BY <1>4, <1>5, <1>6

-----------------------------------------------------------------------------
(* The order of the instructions *)

\* Older than n is everything in flight, and what decode works on too.
Young(n) == \A m, j, s : Flies(m, j, s) => m < n
Follows(n) == Young(n) /\ (decoding => read_instr.seq < n)
Waits(n) == Young(n) /\ (is_ready("DECODE_2_DECODE") => read("DECODE_2_DECODE").seq < n)

\* Decode stalls fetch when it keeps an instruction; a target comes with a
\* flush or, from decode, with a stall; with a fetched instruction comes the
\* next target, and no miss.
Answers ==
    /\ is_ready("DECODE_2_DECODE") <=> is_ready("DECODE_2_FETCH_STALL")
    /\ is_ready("DECODE_2_FETCH_TARGET") => is_ready("DECODE_2_DECODE") \/ is_ready("DECODE_2_FETCH_FLUSH")
    /\ is_ready("BRANCH_2_FETCH_TARGET") => is_ready("BRANCH_2_ALL_FLUSH")
    /\ is_ready("WRITEBACK_2_FETCH_TARGET") => is_ready("WRITEBACK_2_ALL_FLUSH")
    /\ is_ready("FETCH_2_DECODE") => /\ is_ready("TARGET") /\ ~is_ready("HIT_OR_MISS")
                                     /\ read("FETCH_2_DECODE").seq < read("TARGET").seq

\* What decode has sent: the instruction, one way, and a target behind it.
Decodes ==
    LET X == wire["DECODE_2_EXECUTE"]
        D == wire["DECODE_2_DECODE"]
        T == wire["DECODE_2_FETCH_TARGET"]
    IN  phase \notin {"fetch", "decode"} =>
            /\ Arrives(X) => decoding /\ arriving(X).seq = read_instr.seq
            /\ Arrives(D) => decoding /\ arriving(D).seq = read_instr.seq /\ ~Arrives(X)
            /\ Arrives(D) <=> Arrives(wire["DECODE_2_FETCH_STALL"])
            /\ Arrives(T) => /\ decoding /\ arriving(T).seq = read_instr.seq + 1
                             /\ Arrives(D) \/ Arrives(wire["DECODE_2_FETCH_FLUSH"])

\* What fetch has sent.
Fetches ==
    LET F == wire["FETCH_2_DECODE"]
        T == wire["TARGET"]
        L == wire["LONG_LATENCY_PC_HOLDER"]
    IN  phase # "fetch" =>
            /\ Arrives(F) => Arrives(T) /\ arriving(F).seq < arriving(T).seq
                             /\ ~Arrives(wire["HIT_OR_MISS"])
            /\ ~is_flush =>
                  /\ \A p \in {"HOLD_PC", "TARGET", "FETCH_2_DECODE"} :
                        Arrives(wire[p]) => Follows(arriving(wire[p]).seq)
                  /\ \A k \in 1..Len(L) : L[k].left >= 1 => Follows(L[k].data.seq)

\* What fetch may take next.
Offers ==
    LET L == wire["LONG_LATENCY_PC_HOLDER"]
    IN  phase = "fetch" /\ ~is_flush =>
            /\ \A p \in {"HOLD_PC", "TARGET", "DECODE_2_FETCH_TARGET"} :
                  is_ready(p) => Waits(read(p).seq)
            /\ \A k \in 1..Len(L) : Waits(L[k].data.seq)

\* The branch stage redirects fetch with a flush.
BranchTarget ==
    phase \in {"writeback", "core"} =>
        (Arrives(wire["BRANCH_2_FETCH_TARGET"]) => Arrives(wire["BRANCH_2_ALL_FLUSH"]))

\* What is about to be decoded is younger than what is in flight.
Decodable ==
    ~is_flush => \A p \in {"DECODE_2_DECODE", "FETCH_2_DECODE"} : is_ready(p) => Young(read(p).seq)

\* Instructions in flight keep the program order.
InOrder ==
    ~is_flush => \A n, i, r, m, j, s : Flies(n, i, r) /\ Flies(m, j, s) /\ r < s => m < n

\* Instructions in flight do not catch up with older ones.
Apart ==
    ~is_flush => \A n, i, r, m, j, s :
        Flies(n, i, r) /\ Flies(m, j, s) /\ r < s /\ s # WB_STAGE => moves_to(r, i) < moves_to(s, j)
EarlyApart == phase \notin LatePhases => Apart

OrderPorts ==
    {"FETCH_2_DECODE", "DECODE_2_DECODE", "DECODE_2_FETCH_FLUSH", "DECODE_2_FETCH_STALL",
     "DECODE_2_FETCH_TARGET", "BRANCH_2_FETCH_TARGET", "BRANCH_2_ALL_FLUSH", "HOLD_PC",
     "WRITEBACK_2_FETCH_TARGET", "WRITEBACK_2_ALL_FLUSH", "TARGET", "HIT_OR_MISS"}

LEMMA OrderPortsAre ==
    /\ OrderPorts \subseteq Ports
    /\ \A p \in OrderPorts : latency(p) = 1 /\ p # "EXECUTE_2_EXECUTE_LONG_LATENCY"
                             /\ p # "LONG_LATENCY_PC_HOLDER"
    /\ \A p \in OrderPorts :
          p \in writeback_ports => p \in {"WRITEBACK_2_FETCH_TARGET", "WRITEBACK_2_ALL_FLUSH"}
<1>1. OrderPorts \subseteq Ports
  BY DEF OrderPorts, Ports, fetch_ports, decode_ports, branch_ports, writeback_ports
<1>2. \A p \in OrderPorts : p # "EXECUTE_2_EXECUTE_LONG_LATENCY" /\ p # "LONG_LATENCY_PC_HOLDER"
  BY DEF OrderPorts
<1>3. \A p \in OrderPorts :
          p \in writeback_ports => p \in {"WRITEBACK_2_FETCH_TARGET", "WRITEBACK_2_ALL_FLUSH"}
  BY DEF OrderPorts, writeback_ports
<1> QED
  BY <1>1, <1>2, <1>3, Latencies

LEMMA SameDecoding ==
    ASSUME Pipe, stage_clock
    PROVE  /\ is_flush' <=> is_flush
           /\ \A p \in OrderPorts : (is_ready(p)' <=> is_ready(p)) /\ (is_ready(p) => read(p)' = read(p))
           /\ decoding' <=> decoding
           /\ decoding => read_instr' = read_instr
           /\ ~is_flush => \A n : (Young(n)' <=> Young(n)) /\ (Follows(n)' <=> Follows(n))
<1>1. Later(wire, wire') /\ (is_flush' <=> is_flush)
  BY StageClock, SameFlight
<1>2. \A p \in OrderPorts : (is_ready(p)' <=> is_ready(p)) /\ (is_ready(p) => read(p)' = read(p))
  BY <1>1, OrderPortsAre, SameReads
<1>3. /\ is_ready("DECODE_2_DECODE")' <=> is_ready("DECODE_2_DECODE")
      /\ is_ready("DECODE_2_DECODE") => read("DECODE_2_DECODE")' = read("DECODE_2_DECODE")
      /\ is_ready("FETCH_2_DECODE")' <=> is_ready("FETCH_2_DECODE")
      /\ is_ready("FETCH_2_DECODE") => read("FETCH_2_DECODE")' = read("FETCH_2_DECODE")
      /\ is_ready("DECODE_2_FETCH_FLUSH")' <=> is_ready("DECODE_2_FETCH_FLUSH")
  BY <1>2 DEF OrderPorts
<1>4. decoding' <=> decoding
  BY <1>1, <1>3 DEF decoding, has_instr, from_stall
<1>5. decoding => read_instr' = read_instr
  BY <1>3 DEF decoding, has_instr, from_stall, read_instr
<1>6. ASSUME ~is_flush, NEW n PROVE (Young(n)' <=> Young(n)) /\ (Follows(n)' <=> Follows(n))
  <2>1. \A m, j, s : Flies(m, j, s)' <=> Flies(m, j, s)
    BY <1>6, SameFlight
  <2>2. Young(n)' <=> Young(n)
    BY <2>1 DEF Young
  <2> QED
    BY <1>4, <1>5, <2>2 DEF Follows
<1> QED
  BY <1>1, <1>2, <1>4, <1>5, <1>6

\* Two instructions are never at the same stage.
LEMMA FlightUnique ==
    ASSUME Pipe, NEW n, NEW i, NEW m, NEW j, NEW s, Flies(n, i, s), Flies(m, j, s)
    PROVE  n = m /\ i = j
<1>1. /\ last_execution_stage \in Nat /\ last_execution_stage <= 62 /\ Len(long_alu) \in Nat
      /\ \A k \in 1..Len(long_alu) : long_alu[k].left \in Nat
      /\ \A h, k \in 1..Len(long_alu) : h < k => long_alu[h].left < long_alu[k].left
  BY AluPackets, StageNumbers DEF Strict
<1>2. MEM_OR_BRANCH_STAGE = 253 /\ WB_STAGE = 254
  BY StageNumbers
<1>3. Exclusive
  BY DEF Pipe, Timing
<1>4. CASE s = 0
  <2>1. \A a, b : Flies(a, b, s) => FliesFrom("DECODE_2_EXECUTE", a, b)
    BY <1>1, <1>2, <1>4 DEF Flies, InExecute, in_alu
  <2> QED
    BY <2>1 DEF FliesFrom, Is
<1>5. CASE s \in 1..last_execution_stage
  <2>1. \A a, b : Flies(a, b, s) => \E k \in 1..Len(long_alu) :
           long_alu[k].left = last_execution_stage - s /\ Is(long_alu[k].data, a, b)
    <3> SUFFICES ASSUME NEW a, NEW b, Flies(a, b, s)
                 PROVE  \E k \in 1..Len(long_alu) :
                           long_alu[k].left = last_execution_stage - s /\ Is(long_alu[k].data, a, b)
      OBVIOUS
    <3>1. s # 0 /\ s # 253 /\ s # 254 /\ s \in Int
      BY <1>1, <1>5
    <3>2. InExecute(a, b, s)
      BY <1>2, <3>1 DEF Flies
    <3>3. PICK k \in 1..Len(long_alu) :
             s = last_execution_stage - long_alu[k].left /\ Is(long_alu[k].data, a, b)
      BY <3>1, <3>2 DEF InExecute
    <3> QED
      BY <1>1, <3>1, <3>3
  <2>2. PICK k \in 1..Len(long_alu) :
           long_alu[k].left = last_execution_stage - s /\ Is(long_alu[k].data, n, i)
    BY <2>1
  <2>3. PICK h \in 1..Len(long_alu) :
           long_alu[h].left = last_execution_stage - s /\ Is(long_alu[h].data, m, j)
    BY <2>1
  <2>4. h = k
    BY <1>1, <2>2, <2>3
  <2> QED
    BY <2>2, <2>3, <2>4 DEF Is
<1>6. CASE s = MEM_OR_BRANCH_STAGE
  <2>1. \A a, b : ~InExecute(a, b, s)
    BY <1>1, <1>2, <1>6, ExecuteStages
  <2>2. \A a, b : Flies(a, b, s) =>
           FliesFrom("EXECUTE_2_MEMORY", a, b) \/ FliesFrom("EXECUTE_2_BRANCH", a, b)
    BY <1>2, <1>6, <2>1 DEF Flies
  <2> QED
    BY <1>3, <2>2 DEF FliesFrom, Is, Exclusive
<1>7. CASE s = WB_STAGE
  <2>1. \A a, b : ~InExecute(a, b, s)
    BY <1>1, <1>2, <1>7, ExecuteStages
  <2>2. \A a, b : Flies(a, b, s) => \/ FliesFrom("EXECUTE_2_WRITEBACK", a, b)
                                    \/ FliesFrom("MEMORY_2_WRITEBACK", a, b)
                                    \/ FliesFrom("BRANCH_2_WRITEBACK", a, b)
    BY <1>2, <1>7, <2>1 DEF Flies
  <2> QED
    BY <1>3, <2>2 DEF FliesFrom, Is, Exclusive
<1> QED
  BY <1>1, <1>4, <1>5, <1>6, <1>7, FlightStages

LEMMA ApartEarly ==
    ASSUME Pipe
    PROVE  EarlyApart
<1> DEFINE last == last_execution_stage
           X == "DECODE_2_EXECUTE"
<1> SUFFICES ASSUME phase \notin LatePhases, ~is_flush, NEW n, NEW i, NEW r, NEW m, NEW j, NEW s,
                    Flies(n, i, r), Flies(m, j, s), r < s, s # WB_STAGE
             PROVE  moves_to(r, i) < moves_to(s, j)
  BY DEF EarlyApart, Apart
<1>1. last \in Nat /\ last >= 1 /\ last <= 62 /\ MEM_OR_BRANCH_STAGE = 253 /\ WB_STAGE = 254
  BY StageNumbers
<1>2. r \in 0..last \/ r = 253 \/ r = 254
  BY <1>1, FlightStages
<1>3. s \in 0..last \/ s = 253
  BY <1>1, FlightStages
<1>4. Behind
  BY DEF Pipe, Wires, Timing, Scheduled, Phases, LatePhases
<1>5. \A k \in 1..Len(long_alu) : long_alu[k].left \in Nat /\ long_alu[k].left < last
  BY AluPackets
<1>6. r \in 0..last
  BY <1>1, <1>2, <1>3
<1>7. s = 253 => busy
  <2> SUFFICES ASSUME s = 253 PROVE busy
    OBVIOUS
  <2>1. ~InExecute(m, j, s)
    BY <1>1, ExecuteStages
  <2> QED
    BY <1>1, <2>1 DEF Flies, FliesFrom, busy
<1>8. \A a, b, t : Flies(a, b, t) /\ t \in 1..last =>
         \E k \in 1..Len(long_alu) : lives(k) /\ long_alu[k].left = last - t
  <2> SUFFICES ASSUME NEW a, NEW b, NEW t, Flies(a, b, t), t \in 1..last
               PROVE  \E k \in 1..Len(long_alu) : lives(k) /\ long_alu[k].left = last - t
    OBVIOUS
  <2>1. t # 0 /\ t # 253 /\ t # 254 /\ t \in Int
    BY <1>1
  <2>2. InExecute(a, b, t)
    BY <1>1, <2>1 DEF Flies
  <2>3. PICK k \in 1..Len(long_alu) : in_alu(k) /\ t = last - long_alu[k].left
    BY <2>1, <2>2 DEF InExecute
  <2>4. lives(k)
    BY <2>3 DEF lives, in_alu
  <2> QED
    BY <1>1, <1>5, <2>1, <2>3, <2>4
<1>9. CASE r = 0
  <2>1. FliesFrom(X, n, i)
    BY <1>1, <1>5, <1>9 DEF Flies, InExecute
  <2>2. issued /\ issued_latency = get_instruction_latency(i)
    BY <2>1 DEF FliesFrom, Is, issued, issued_latency
  <2>3. moves_to(r, i) = next_stage(i).value
    BY <1>9 DEF moves_to
  <2>4. get_instruction_latency(i) > 1 => next_stage(i).value \in {1, 253}
    BY <1>1, NextStage, Classes
  <2>5. get_instruction_latency(i) > 2 => next_stage(i).value = 1
    BY <1>1, NextStage, Classes
  <2>6. CASE s = 253
    <3>1. moves_to(s, j) = 254
      BY <1>1, <2>6 DEF moves_to
    <3>2. issued_latency > 1
      BY <1>4, <1>7, <2>2, <2>6 DEF Behind
    <3> QED
      BY <2>2, <2>3, <2>4, <3>1, <3>2
  <2>7. CASE s \in 1..last
    <3>1. PICK k \in 1..Len(long_alu) : lives(k) /\ long_alu[k].left = last - s
      BY <1>8, <2>7
    <3>2. last - s + 1 < issued_latency
      BY <1>4, <2>2, <3>1 DEF Behind
    <3>3. issued_latency \in Nat
      BY LatencyRange DEF issued_latency
    <3>4. CASE s = last
      <4>1. moves_to(s, j) = 254
        BY <1>1, <3>4 DEF moves_to
      <4>2. issued_latency > 1
        BY <1>1, <3>2, <3>3, <3>4
      <4> QED
        BY <2>2, <2>3, <2>4, <4>1, <4>2
    <3>5. CASE s # last
      <4>1. moves_to(s, j) = s + 1 /\ s \in Nat /\ s >= 1
        BY <1>1, <2>7, <3>5 DEF moves_to
      <4>2. issued_latency > 2
        BY <1>1, <2>7, <3>2, <3>3, <3>5
      <4> QED
        BY <2>2, <2>3, <2>5, <4>1, <4>2
    <3> QED
      BY <3>4, <3>5
  <2> QED
    BY <1>1, <1>3, <1>9, <2>6, <2>7
<1>10. CASE r # 0
  <2>1. r \in 1..last /\ r \in Nat
    BY <1>1, <1>6, <1>10
  <2>2. ~busy
    BY <1>4, <1>8, <2>1 DEF Behind
  <2>3. s \in 1..last /\ r # last
    BY <1>1, <1>3, <1>7, <2>1, <2>2
  <2>4. moves_to(r, i) = r + 1
    BY <1>1, <2>1, <2>3 DEF moves_to
  <2>5. moves_to(s, j) = IF s = last THEN 254 ELSE s + 1
    BY <1>1, <2>3 DEF moves_to
  <2> QED
    BY <1>1, <2>1, <2>3, <2>4, <2>5
<1> QED
  BY <1>9, <1>10

\* The order of the flight within a cycle.
LEMMA OrderKept ==
    ASSUME Pipe, stage_clock
    PROVE  (InOrder => InOrder') /\ (Apart => Apart') /\ (Answers => Answers')
           /\ (Decodable => Decodable')
<1>1. (is_flush' <=> is_flush) /\ (~is_flush => \A n, i, s : Flies(n, i, s)' <=> Flies(n, i, s))
  BY SameFlight
<1>2. InOrder => InOrder'
  BY <1>1 DEF InOrder
<1>3. Apart => Apart'
  BY <1>1 DEF Apart, moves_to, last_execution_stage, MEM_OR_BRANCH_STAGE, WB_STAGE
<1>4. /\ \A p \in OrderPorts : (is_ready(p)' <=> is_ready(p)) /\ (is_ready(p) => read(p)' = read(p))
      /\ ~is_flush => \A n : Young(n)' <=> Young(n)
  BY SameDecoding
<1>5. Answers => Answers'
  <2> SUFFICES ASSUME Answers PROVE Answers'
    OBVIOUS
  <2> DEFINE same(p) == (is_ready(p)' <=> is_ready(p)) /\ (is_ready(p) => read(p)' = read(p))
  <2>1. /\ same("DECODE_2_DECODE") /\ same("DECODE_2_FETCH_STALL") /\ same("DECODE_2_FETCH_TARGET")
        /\ same("DECODE_2_FETCH_FLUSH") /\ same("BRANCH_2_FETCH_TARGET")
        /\ same("BRANCH_2_ALL_FLUSH") /\ same("WRITEBACK_2_FETCH_TARGET")
        /\ same("WRITEBACK_2_ALL_FLUSH") /\ same("FETCH_2_DECODE") /\ same("TARGET")
        /\ same("HIT_OR_MISS")
    BY <1>4 DEF OrderPorts
  <2> QED
    BY <2>1 DEF Answers
<1>6. Decodable => Decodable'
  <2> SUFFICES ASSUME Decodable, ~is_flush', NEW p \in {"DECODE_2_DECODE", "FETCH_2_DECODE"}, is_ready(p)'
               PROVE  Young(read(p).seq)'
    BY DEF Decodable
  <2>1. p \in OrderPorts
    BY DEF OrderPorts
  <2>2. is_ready(p) /\ read(p)' = read(p) /\ ~is_flush
    BY <1>1, <1>4, <2>1
  <2>3. Young(read(p).seq)
    BY <2>2 DEF Decodable
  <2> QED
    BY <1>1, <2>2, <2>3 DEF Young
<1> QED
  BY <1>2, <1>3, <1>5, <1>6

\* A port that was not written yet.
LEMMA ArrivesNow ==
    ASSUME NEW p \in Ports, latency(p) = 1, OnWire(wire[p]), Below(wire[p], 1)
    PROVE  /\ wire'[p] = wire[p] => ~Arrives(wire'[p])
           /\ \A d : Fits(p, d) /\ wire'[p] = sent(p, wire[p], d)
                     => Arrives(wire'[p]) /\ arriving(wire'[p]) = d
<1>1. ~Arrives(wire[p])
  BY NotArriving
<1>2. \A d : Fits(p, d) => Arrives(sent(p, wire[p], d)) /\ arriving(sent(p, wire[p], d)) = d
  BY Sent
<1> QED
  BY <1>1, <1>2

LEMMA DecodesDecode ==
    ASSUME Pipe, Carried, decode_clock
    PROVE  Decodes'
<1> DEFINE D == "DECODE_2_DECODE"
           S == "DECODE_2_FETCH_STALL"
           X == "DECODE_2_EXECUTE"
           G == "DECODE_2_FETCH_FLUSH"
           T == "DECODE_2_FETCH_TARGET"
           on == TRUE
<1>1. /\ IsWire(wire) /\ DecodeClock /\ Unwritten(wire, decode_ports) /\ phase' = "execute"
      /\ \A p \in Ports : PortFits(p, wire[p])
  BY StagePorts DEF Pipe, Wires, decode_clock, PortOK
<1>2. /\ {D, S, X, G, T} \subseteq decode_ports /\ {D, S, X, G, T} \subseteq Ports
      /\ (\A d : Fits(T, d)) /\ Fits(S, on) /\ Fits(G, on)
  BY DecodePorts DEF decode_ports, Fits, InstrPorts
<1>3. \A p \in {D, S, X, G, T} : latency(p) = 1
  BY <1>2, Latencies
<1>4. \A p \in {D, S, X, G, T} : OnWire(wire[p]) /\ Below(wire[p], 1)
  BY <1>1, <1>2, <1>3, OnPort DEF Unwritten
<1>5. stage_clock
  BY DEF stage_clock
<1>6. (decoding' <=> decoding) /\ (decoding => read_instr' = read_instr)
  BY <1>5, SameDecoding
<1>7. decoding => Fits(D, read_instr)
  <2>1. is_ready(D) => IsInstr(read(D))
    BY <1>1, ReadInstr DEF InstrPorts
  <2>2. is_ready("FETCH_2_DECODE") => IsInstr(read("FETCH_2_DECODE"))
    BY <1>1, ReadInstr DEF InstrPorts
  <2> QED
    BY <2>1, <2>2 DEF Fits, decoding, has_instr, read_instr, from_stall
<1>8. \/ wire' = wire
      \/ /\ decoding /\ wire'[X] = wire[X]
         /\ wire'[D] = sent(D, wire[D], read_instr)
         /\ wire'[S] = sent(S, wire[S], on)
         /\ \/ wire'[T] = wire[T]
            \/ \E t : t.seq = read_instr.seq + 1 /\ wire'[T] = sent(T, wire[T], t)
      \/ /\ decoding /\ wire'[D] = wire[D] /\ wire'[S] = wire[S]
         /\ Same(decoded, read_instr) /\ wire'[X] = sent(X, wire[X], decoded)
         /\ \/ wire'[T] = wire[T]
            \/ /\ \E t : t.seq = read_instr.seq + 1 /\ wire'[T] = sent(T, wire[T], t)
               /\ wire'[G] = sent(G, wire[G], on)
  BY <1>1, DecodeSends
<1>9. Decodes' <=>
         /\ Arrives(wire'[X]) => decoding' /\ arriving(wire'[X]).seq = read_instr'.seq
         /\ Arrives(wire'[D]) => decoding' /\ arriving(wire'[D]).seq = read_instr'.seq
                                 /\ ~Arrives(wire'[X])
         /\ Arrives(wire'[D]) <=> Arrives(wire'[S])
         /\ Arrives(wire'[T]) => /\ decoding' /\ arriving(wire'[T]).seq = read_instr'.seq + 1
                                 /\ Arrives(wire'[D]) \/ Arrives(wire'[G])
  BY <1>1 DEF Decodes, Arrives, arriving
<1>10. Same(decoded, read_instr) => Fits(X, decoded) /\ decoded.seq = read_instr.seq
  BY DEF Same, Fits
<1> HIDE DEF D, S, X, G, T, on
<1> DEFINE goal == /\ Arrives(wire'[X]) => decoding /\ arriving(wire'[X]).seq = read_instr.seq
                   /\ Arrives(wire'[D]) => decoding /\ arriving(wire'[D]).seq = read_instr.seq
                                           /\ ~Arrives(wire'[X])
                   /\ Arrives(wire'[D]) <=> Arrives(wire'[S])
                   /\ Arrives(wire'[T]) => /\ decoding /\ arriving(wire'[T]).seq = read_instr.seq + 1
                                           /\ Arrives(wire'[D]) \/ Arrives(wire'[G])
<1>11. CASE wire' = wire
  <2>1. \A p \in {D, S, X, G, T} : ~Arrives(wire'[p])
    BY <1>2, <1>3, <1>4, <1>11, ArrivesNow
  <2>2. goal
    BY <2>1
  <2> QED
    BY <1>6, <1>9, <2>2
<1>12. CASE /\ decoding /\ wire'[X] = wire[X]
            /\ wire'[D] = sent(D, wire[D], read_instr)
            /\ wire'[S] = sent(S, wire[S], on)
            /\ \/ wire'[T] = wire[T]
               \/ \E t : t.seq = read_instr.seq + 1 /\ wire'[T] = sent(T, wire[T], t)
  <2>1. ~Arrives(wire'[X]) /\ Arrives(wire'[D]) /\ arriving(wire'[D]) = read_instr /\ Arrives(wire'[S])
    BY <1>2, <1>3, <1>4, <1>7, <1>12, ArrivesNow
  <2>2. Arrives(wire'[T]) => arriving(wire'[T]).seq = read_instr.seq + 1
    BY <1>2, <1>3, <1>4, <1>12, ArrivesNow
  <2>3. goal
    BY <1>12, <2>1, <2>2
  <2> QED
    BY <1>6, <1>9, <2>3
<1>13. CASE /\ decoding /\ wire'[D] = wire[D] /\ wire'[S] = wire[S]
            /\ Same(decoded, read_instr) /\ wire'[X] = sent(X, wire[X], decoded)
            /\ \/ wire'[T] = wire[T]
               \/ /\ \E t : t.seq = read_instr.seq + 1 /\ wire'[T] = sent(T, wire[T], t)
                  /\ wire'[G] = sent(G, wire[G], on)
  <2>1. ~Arrives(wire'[D]) /\ ~Arrives(wire'[S])
    BY <1>2, <1>3, <1>4, <1>13, ArrivesNow
  <2>2. arriving(wire'[X]).seq = read_instr.seq
    BY <1>2, <1>3, <1>4, <1>10, <1>13, ArrivesNow
  <2>3. Arrives(wire'[T]) => arriving(wire'[T]).seq = read_instr.seq + 1 /\ Arrives(wire'[G])
    BY <1>2, <1>3, <1>4, <1>13, ArrivesNow
  <2>4. goal
    BY <1>13, <2>1, <2>2, <2>3
  <2> QED
    BY <1>6, <1>9, <2>4
<1> QED
  BY <1>8, <1>11, <1>12, <1>13

\* A target that waits follows the instruction that decode works on, unless
\* that one has just been fetched.
LEMMA WaitsFollows ==
    ASSUME NEW n, Waits(n), decoding => is_ready("DECODE_2_DECODE")
    PROVE  Follows(n)
  BY DEF Waits, Follows, read_instr, from_stall

\* The target that fetch takes.
LEMMA FetchTarget ==
    ASSUME Answers, Offers, phase = "fetch", ~is_flush, target_ports # <<>>
    PROVE  Follows(get_target.seq)
<1> DEFINE p == target_ports[1]
           D == "DECODE_2_DECODE"
           F == "FETCH_2_DECODE"
<1>1. /\ p \in {"WRITEBACK_2_FETCH_TARGET", "BRANCH_2_FETCH_TARGET",
                "DECODE_2_FETCH_TARGET", "TARGET", "HOLD_PC"}
      /\ is_ready(p)
      /\ p = "HOLD_PC" => is_stalled \/ ~is_ready("TARGET")
  BY TargetPorts
<1>2. get_target = read(p)
  BY DEF get_target
<1> HIDE DEF p
<1>3. p \in {"DECODE_2_FETCH_TARGET", "TARGET", "HOLD_PC"}
  BY <1>1 DEF Answers, is_flush
<1>4. Waits(read(p).seq)
  BY <1>1, <1>3 DEF Offers
<1>5. CASE decoding => is_ready(D)
  BY <1>2, <1>4, <1>5, WaitsFollows
<1>6. CASE decoding /\ ~is_ready(D)
  <2>1. is_ready(F) /\ read_instr = read(F) /\ ~is_ready("DECODE_2_FETCH_FLUSH")
    BY <1>6 DEF decoding, has_instr, from_stall, read_instr
  <2>2. is_ready("TARGET") /\ read(F).seq < read("TARGET").seq /\ ~is_stalled
        /\ ~is_ready("DECODE_2_FETCH_TARGET")
    BY <1>6, <2>1 DEF Answers, is_stalled
  <2>3. p = "TARGET"
    BY <1>1, <1>3, <2>2
  <2> QED
    BY <1>2, <1>4, <2>1, <2>2, <2>3 DEF Follows, Waits
<1> QED
  BY <1>5, <1>6

\* While a miss is served decode has no instruction but one that it keeps.
LEMMA MissFollows ==
    ASSUME Answers, Offers, phase = "fetch", ~is_flush, is_ready("HIT_OR_MISS")
    PROVE  /\ \A n : Waits(n) => Follows(n)
           /\ save_flush_ports # <<>> => Follows(read(save_flush_ports[1]).seq)
<1>1. decoding => is_ready("DECODE_2_DECODE")
  BY DEF Answers, decoding, has_instr, from_stall
<1>2. \A n : Waits(n) => Follows(n)
  BY <1>1, WaitsFollows
<1>3. ASSUME save_flush_ports # <<>> PROVE Follows(read(save_flush_ports[1]).seq)
  <2> DEFINE p == save_flush_ports[1]
  <2>1. /\ p \in {"WRITEBACK_2_FETCH_TARGET", "BRANCH_2_FETCH_TARGET",
                  "DECODE_2_FETCH_TARGET", "TARGET"}
        /\ is_ready(p)
    BY <1>3, TargetPorts
  <2> HIDE DEF p
  <2>2. p \in {"DECODE_2_FETCH_TARGET", "TARGET"}
    BY <2>1 DEF Answers, is_flush
  <2>3. Waits(read(p).seq)
    BY <2>1, <2>2 DEF Offers
  <2>4. Follows(read(p).seq)
    BY <1>2, <2>3
  <2> QED
    BY <2>4 DEF p
<1> QED
  BY <1>2, <1>3

\* The missing address is held as long as the fetch stage waits.
LEMMA HeldInMiss ==
    ASSUME Pipe, MissHeld, phase = "fetch", wire["LONG_LATENCY_PC_HOLDER"] # <<>>
    PROVE  is_ready("HIT_OR_MISS")
<1> DEFINE h == wire["HIT_OR_MISS"]
<1>1. h # <<>>
  BY DEF MissHeld
<1>2. OnWire(h) /\ Below(h, 1)
  BY MissPorts, OnPort DEF Pipe, Wires, Unwritten
<1>3. Len(h) \in Nat /\ 1 \in 1..Len(h) /\ h[1].left \in Nat
  BY <1>1, <1>2, FirstPacket, PacketsOf DEF OnWire
<1> QED
  BY <1>1, <1>2, <1>3 DEF Below, is_ready

\* Instructions in flight are those of the program, with their numbers.
LEMMA FlightKnown ==
    ASSUME Pipe, Carried
    PROVE  /\ \A n, i, s : Flies(n, i, s) => n \in Int /\ i \in Codes
           /\ decoding => Known(read_instr)
<1>1. IsWire(wire)
  BY DEF Pipe, Wires
<1>2. ASSUME NEW p \in FlightPorts, NEW n, NEW i, FliesFrom(p, n, i) PROVE n \in Int /\ i \in Codes
  <2>1. p \in Ports /\ p \in CodePorts
    BY FlightPortsAre DEF FlightPorts, CodePorts
  <2>2. Known(read(p)) /\ Is(read(p), n, i)
    BY <1>1, <1>2, <2>1, CarriedRead DEF FliesFrom
  <2> QED
    BY <2>2 DEF Known, Is
<1>3. \A k \in 1..Len(long_alu) : Known(long_alu[k].data)
  <2>1. "EXECUTE_2_EXECUTE_LONG_LATENCY" \in Ports /\ "EXECUTE_2_EXECUTE_LONG_LATENCY" \in CodePorts
    BY ExecutePorts DEF CodePorts
  <2> QED
    BY <2>1 DEF Carried, PortSuits, Suits, long_alu
<1>4. ASSUME NEW n, NEW i, NEW s, Flies(n, i, s) PROVE n \in Int /\ i \in Codes
  <2>1. (\E p \in FlightPorts : FliesFrom(p, n, i)) \/ \E k \in 1..Len(long_alu) : Is(long_alu[k].data, n, i)
    BY <1>4 DEF Flies, InExecute, FlightPorts
  <2> QED
    BY <1>2, <1>3, <2>1 DEF Known, Is
<1>5. decoding => Known(read_instr)
  <2>1. /\ "DECODE_2_DECODE" \in Ports /\ "FETCH_2_DECODE" \in Ports
        /\ "DECODE_2_DECODE" \in CodePorts /\ "FETCH_2_DECODE" \in CodePorts
    BY DecodePorts, FetchPorts DEF CodePorts
  <2>2. /\ is_ready("DECODE_2_DECODE") => Known(read("DECODE_2_DECODE"))
        /\ is_ready("FETCH_2_DECODE") => Known(read("FETCH_2_DECODE"))
    BY <1>1, <2>1, CarriedRead
  <2> QED
    BY <2>2 DEF decoding, has_instr, read_instr, from_stall
<1> QED
  BY <1>4, <1>5

LEMMA FollowsMore ==
    ASSUME Pipe, Carried, NEW n \in Int, Follows(n)
    PROVE  Follows(n + 1)
  BY FlightKnown DEF Follows, Young, Known

LEMMA FetchesFetch ==
    ASSUME Pipe, Carried, MissHeld, Answers, Offers, fetch_clock
    PROVE  Fetches'
<1> DEFINE H == "HIT_OR_MISS"
           L == "LONG_LATENCY_PC_HOLDER"
           O == "HOLD_PC"
           T == "TARGET"
           F == "FETCH_2_DECODE"
<1>1. /\ IsWire(wire) /\ FetchClock /\ Unwritten(wire, fetch_ports) /\ prog \in Programs
      /\ phase = "fetch" /\ phase' = "decode"
  BY StagePorts DEF Pipe, Wires, fetch_clock, Carried
<1>2. /\ {H, O, T, F} \subseteq Ports /\ {H, O, T, F} \subseteq fetch_ports /\ L \in Ports
      /\ (\A d : Fits(O, d) /\ Fits(T, d) /\ Fits(L, d)) /\ (\A d : IsInstr(d) => Fits(F, d))
  BY FetchPorts DEF fetch_ports, Fits, InstrPorts
<1>3. \A p \in {H, O, T, F} : latency(p) = 1 /\ OnWire(wire[p]) /\ Below(wire[p], 1)
  <2>1. \A p \in {H, O, T, F} : latency(p) = 1
    BY <1>2, Latencies
  <2> QED
    BY <1>1, <1>2, <2>1, OnPort DEF Unwritten
<1>4. OnWire(wire[L]) /\ Len(wire[L]) \in Nat /\ (is_ready(L) => 1 \in 1..Len(wire[L]))
  BY <1>1, <1>2, OnPort, FirstPacket, PacketsOf DEF OnWire, is_ready
<1>5. wire[L] # <<>> => is_ready(H)
  BY <1>1, HeldInMiss
<1>6. stage_clock
  BY DEF stage_clock
<1>7. (is_flush' <=> is_flush) /\ (~is_flush => \A n : Follows(n)' <=> Follows(n))
  BY <1>6, SameDecoding
<1>8. ~is_flush => \A k \in 1..Len(wire[L]) : Waits(wire[L][k].data.seq)
  BY <1>1 DEF Offers
<1>9. ~is_flush /\ target_ports # <<>> => Follows(get_target.seq)
  BY <1>1, FetchTarget
<1>10. ~is_flush /\ is_ready(H) => /\ \A n : Waits(n) => Follows(n)
                                   /\ save_flush_ports # <<>> => Follows(read(save_flush_ports[1]).seq)
  BY <1>1, MissFollows
<1>11. ~is_ready(H) /\ target_ports # <<>> => get_target.seq \in Int
  <2>1. target_ports # <<>> => /\ target_ports[1] \in Ports /\ is_ready(target_ports[1])
           /\ target_ports[1] \in SeqPorts \cup {"WRITEBACK_2_FETCH_TARGET"}
    BY TargetPorts, FetchPorts DEF SeqPorts
  <2> QED
    BY <1>1, <2>1, CarriedRead DEF get_target
<1>12. is_ready(L) => read(L) = wire[L][1].data
  BY DEF read
<1>13. \/ /\ is_ready(H) /\ wire'[F] = wire[F] /\ wire'[L] = wire[L]
          /\ \/ wire'[T] = wire[T]
             \/ /\ save_flush_ports # <<>>
                /\ wire'[T] = sent(T, wire[T], read(save_flush_ports[1]))
          /\ wire'[O] = wire[O] \/ (is_ready(L) /\ wire'[O] = sent(O, wire[O], read(L)))
       \/ wire' = wire
       \/ /\ ~is_ready(H) /\ target_ports # <<>> /\ wire'[F] = wire[F]
          /\ wire'[T] = wire[T] /\ wire'[O] = wire[O]
          /\ wire'[L] = sent(L, wire[L], get_target)
       \/ /\ ~is_ready(H) /\ target_ports # <<>> /\ wire'[L] = wire[L] /\ wire'[H] = wire[H]
          /\ wire'[O] = sent(O, wire[O], get_target)
          /\ \E in, t : /\ IsInstr(in) /\ in.seq = get_target.seq
                        /\ t.seq = get_target.seq + 1
                        /\ wire'[T] = sent(T, wire[T], t)
                        /\ wire'[F] = sent(F, wire[F], in)
  BY <1>1, FetchSends
<1> DEFINE goal ==
          /\ Arrives(wire'[F]) => Arrives(wire'[T]) /\ arriving(wire'[F]).seq < arriving(wire'[T]).seq
                                  /\ ~Arrives(wire'[H])
          /\ ~is_flush =>
                /\ Arrives(wire'[O]) => Follows(arriving(wire'[O]).seq)
                /\ Arrives(wire'[T]) => Follows(arriving(wire'[T]).seq)
                /\ Arrives(wire'[F]) => Follows(arriving(wire'[F]).seq)
                /\ \A k \in 1..Len(wire'[L]) : wire'[L][k].left >= 1 => Follows(wire'[L][k].data.seq)
<1>14. goal => Fetches'
  <2> SUFFICES ASSUME goal PROVE Fetches'
    OBVIOUS
  <2>1. ASSUME ~is_flush', NEW p \in {O, T, F}, Arrives(wire'[p])
        PROVE  Follows(arriving(wire'[p]).seq)
    BY <1>7, <2>1
  <2>2. ASSUME ~is_flush', NEW k \in 1..Len(wire'[L]), wire'[L][k].left >= 1
        PROVE  Follows(wire'[L][k].data.seq)
    BY <1>7, <2>2
  <2>3. ASSUME ~is_flush', NEW p \in {O, T, F}, Arrives(wire'[p])
        PROVE  Follows(arriving(wire[p]).seq)'
    <3>1. PICK n : n = arriving(wire'[p]).seq
      OBVIOUS
    <3>2. Follows(n)'
      BY <1>7, <2>1, <2>3, <3>1
    <3> QED
      BY <3>1, <3>2 DEF Follows, Young, arriving
  <2>4. ASSUME ~is_flush', NEW k \in 1..Len(wire'[L]), wire'[L][k].left >= 1
        PROVE  Follows(wire[L][k].data.seq)'
    <3>1. PICK n : n = wire'[L][k].data.seq
      OBVIOUS
    <3>2. Follows(n)'
      BY <1>7, <2>2, <2>4, <3>1
    <3> QED
      BY <3>1, <3>2 DEF Follows, Young
  <2> QED
    BY <2>3, <2>4 DEF Fetches, Arrives, arriving
<1> HIDE DEF H, L, O, T, F
<1>15. ASSUME wire'[L] = wire[L], ~is_flush
       PROVE  \A k \in 1..Len(wire'[L]) : Follows(wire'[L][k].data.seq)
  <2> SUFFICES ASSUME NEW k \in 1..Len(wire[L]) PROVE Follows(wire[L][k].data.seq)
    BY <1>15
  <2>1. wire[L] # <<>>
    BY <1>4
  <2> QED
    BY <1>5, <1>8, <1>10, <1>15, <2>1
<1>16. CASE /\ is_ready(H) /\ wire'[F] = wire[F] /\ wire'[L] = wire[L]
            /\ \/ wire'[T] = wire[T]
               \/ /\ save_flush_ports # <<>>
                  /\ wire'[T] = sent(T, wire[T], read(save_flush_ports[1]))
            /\ wire'[O] = wire[O] \/ (is_ready(L) /\ wire'[O] = sent(O, wire[O], read(L)))
  <2>1. ~Arrives(wire'[F])
    BY <1>2, <1>3, <1>16, ArrivesNow
  <2>2. Arrives(wire'[T]) => save_flush_ports # <<>> /\ arriving(wire'[T]) = read(save_flush_ports[1])
    BY <1>2, <1>3, <1>16, ArrivesNow
  <2>3. Arrives(wire'[O]) => is_ready(L) /\ arriving(wire'[O]) = read(L)
    BY <1>2, <1>3, <1>16, ArrivesNow
  <2>4. ~is_flush /\ is_ready(L) => Follows(read(L).seq)
    BY <1>4, <1>8, <1>10, <1>12, <1>16
  <2>5. goal
    BY <1>10, <1>15, <1>16, <2>1, <2>2, <2>3, <2>4
  <2> QED
    BY <1>14, <2>5
<1>17. CASE wire' = wire
  <2>1. ~Arrives(wire'[F]) /\ ~Arrives(wire'[T]) /\ ~Arrives(wire'[O])
    BY <1>2, <1>3, <1>17, ArrivesNow
  <2>2. goal
    BY <1>15, <1>17, <2>1
  <2> QED
    BY <1>14, <2>2
<1>18. CASE /\ ~is_ready(H) /\ target_ports # <<>> /\ wire'[F] = wire[F]
            /\ wire'[T] = wire[T] /\ wire'[O] = wire[O]
            /\ wire'[L] = sent(L, wire[L], get_target)
  <2>1. ~Arrives(wire'[F]) /\ ~Arrives(wire'[T]) /\ ~Arrives(wire'[O])
    BY <1>2, <1>3, <1>18, ArrivesNow
  <2>2. wire[L] = <<>> /\ Len(wire[L]) = 0
    BY <1>5, <1>18
  <2>3. Len(wire'[L]) = 1 /\ arriving(wire'[L]) = get_target
    <3>1. /\ Len(sent(L, wire[L], get_target)) = Len(wire[L]) + 1
          /\ arriving(sent(L, wire[L], get_target)) = get_target
      BY <1>2, <1>4, Sent
    <3> QED
      BY <1>18, <2>2, <3>1
  <2>4. \A k \in 1..Len(wire'[L]) : wire'[L][k].data = get_target
    BY <2>3 DEF arriving
  <2>5. goal
    BY <1>9, <1>18, <2>1, <2>4
  <2> QED
    BY <1>14, <2>5
<1>19. CASE /\ ~is_ready(H) /\ target_ports # <<>> /\ wire'[L] = wire[L] /\ wire'[H] = wire[H]
            /\ wire'[O] = sent(O, wire[O], get_target)
            /\ \E in, t : /\ IsInstr(in) /\ in.seq = get_target.seq
                          /\ t.seq = get_target.seq + 1
                          /\ wire'[T] = sent(T, wire[T], t)
                          /\ wire'[F] = sent(F, wire[F], in)
  <2>1. PICK in, t : /\ IsInstr(in) /\ in.seq = get_target.seq
                     /\ t.seq = get_target.seq + 1
                     /\ wire'[T] = sent(T, wire[T], t)
                     /\ wire'[F] = sent(F, wire[F], in)
    BY <1>19
  <2>2. /\ ~Arrives(wire'[H]) /\ arriving(wire'[F]) = in
        /\ Arrives(wire'[T]) /\ arriving(wire'[T]) = t /\ arriving(wire'[O]) = get_target
    BY <1>2, <1>3, <1>19, <2>1, ArrivesNow
  <2>3. get_target.seq \in Int
    BY <1>11, <1>19
  <2>4. ~is_flush => Follows(get_target.seq)
    BY <1>9, <1>19
  <2>5. ~is_flush => Follows(get_target.seq + 1)
    BY <2>3, <2>4, FollowsMore
  <2>6. goal
    BY <1>15, <1>19, <2>1, <2>2, <2>3, <2>4, <2>5
  <2> QED
    BY <1>14, <2>6
<1> QED
  BY <1>13, <1>16, <1>17, <1>18, <1>19

LEMMA FetchesKept ==
    ASSUME Pipe, Fetches, stage_clock, ~fetch_clock
    PROVE  Fetches'
<1> DEFINE H == "HIT_OR_MISS"
           L == "LONG_LATENCY_PC_HOLDER"
           O == "HOLD_PC"
           T == "TARGET"
           F == "FETCH_2_DECODE"
<1>1. phase # "fetch"
  BY StagePorts DEF stage_clock
<1>2. \A p \in {H, L, O, T, F} : wire'[p] = wire[p]
  <2>1. {H, L, O, T, F} \subseteq Ports /\ {H, L, O, T, F} \subseteq fetch_ports
    BY FetchPorts DEF fetch_ports
  <2>2. \A p \in {H, L, O, T, F} : p \notin decode_ports /\ p \notin execute_ports /\ p \notin mem_ports
                                  /\ p \notin branch_ports /\ p \notin writeback_ports
    BY <2>1, PortGroups
  <2> QED
    BY <2>1, <2>2, StagePorts DEF StageWrites, stage_clock
<1>3. (is_flush' <=> is_flush) /\ (~is_flush => \A n : Follows(n)' <=> Follows(n))
  BY SameDecoding
<1>4. \A p \in {H, O, T, F} : (Arrives(wire'[p]) <=> Arrives(wire[p])) /\ arriving(wire'[p]) = arriving(wire[p])
  BY <1>2
<1>5. ASSUME ~is_flush', NEW p \in {O, T, F}, Arrives(wire'[p])
      PROVE  Follows(arriving(wire[p]).seq)'
  <2>1. Follows(arriving(wire[p]).seq)
    BY <1>1, <1>3, <1>4, <1>5 DEF Fetches
  <2>2. PICK n : n = arriving(wire[p]).seq
    OBVIOUS
  <2>3. Follows(n)'
    BY <1>3, <1>5, <2>1, <2>2
  <2>4. arriving(wire'[p]).seq = n
    BY <1>4, <2>2
  <2> QED
    BY <2>3, <2>4 DEF Follows, Young, arriving
<1>6. ASSUME ~is_flush', NEW k \in 1..Len(wire'[L]), wire'[L][k].left >= 1
      PROVE  Follows(wire[L][k].data.seq)'
  <2>1. wire'[L] = wire[L]
    BY <1>2
  <2>2. Follows(wire[L][k].data.seq)
    BY <1>1, <1>3, <1>6, <2>1 DEF Fetches
  <2>3. PICK n : n = wire[L][k].data.seq
    OBVIOUS
  <2>4. Follows(n)'
    BY <1>3, <1>6, <2>2, <2>3
  <2> QED
    BY <2>1, <2>3, <2>4 DEF Follows, Young
<1>7. Arrives(wire'[F]) => Arrives(wire'[T]) /\ arriving(wire'[F]).seq < arriving(wire'[T]).seq
                           /\ ~Arrives(wire'[H])
  BY <1>1, <1>4 DEF Fetches
<1> QED
  BY <1>5, <1>6, <1>7 DEF Fetches, Arrives, arriving

LEMMA DecodesKept ==
    ASSUME Pipe, Decodes, stage_clock, ~decode_clock
    PROVE  Decodes'
<1> DEFINE D == "DECODE_2_DECODE"
           S == "DECODE_2_FETCH_STALL"
           X == "DECODE_2_EXECUTE"
           G == "DECODE_2_FETCH_FLUSH"
           T == "DECODE_2_FETCH_TARGET"
<1>1. CASE fetch_clock
  BY <1>1, StagePorts DEF Decodes
<1>2. CASE ~fetch_clock
  <2>1. phase \notin {"fetch", "decode"}
    BY <1>2, StagePorts DEF stage_clock
  <2>2. \A p \in {D, S, X, G, T} : wire'[p] = wire[p]
    <3>1. {D, S, X, G, T} \subseteq Ports /\ {D, S, X, G, T} \subseteq decode_ports
      BY DecodePorts DEF decode_ports
    <3>2. \A p \in {D, S, X, G, T} : p \notin execute_ports /\ p \notin mem_ports
                                     /\ p \notin branch_ports /\ p \notin writeback_ports
      BY <3>1, PortGroups
    <3> QED
      BY <1>2, <3>1, <3>2, StagePorts DEF StageWrites, stage_clock
  <2>3. (decoding' <=> decoding) /\ (decoding => read_instr' = read_instr)
    BY SameDecoding
  <2> QED
    BY <2>1, <2>2, <2>3 DEF Decodes, Arrives, arriving
<1> QED
  BY <1>1, <1>2

LEMMA BranchTargetStage ==
    ASSUME Pipe, BranchTarget, stage_clock
    PROVE  BranchTarget'
<1> DEFINE F == "BRANCH_2_ALL_FLUSH"
           T == "BRANCH_2_FETCH_TARGET"
           on == TRUE
<1>1. /\ F \in branch_ports /\ T \in branch_ports /\ F \in Ports /\ T \in Ports
      /\ latency(F) = 1 /\ latency(T) = 1 /\ Fits(F, on) /\ (\A d : Fits(T, d))
      /\ F \notin writeback_ports /\ T \notin writeback_ports
  BY Latencies, PortGroups DEF branch_ports, Ports, Fits, InstrPorts
<1>2. CASE fetch_clock \/ decode_clock \/ execute_clock \/ mem_clock
  BY <1>2, StagePorts DEF BranchTarget
<1>3. CASE branch_clock
  <2>1. IsWire(wire) /\ BranchClock /\ Unwritten(wire, branch_ports)
    BY <1>3, StagePorts DEF Pipe, Wires, branch_clock
  <2>2. OnWire(wire[F]) /\ OnWire(wire[T]) /\ Below(wire[F], 1) /\ Below(wire[T], 1)
    BY <1>1, <2>1, OnPort DEF Unwritten
  <2>3. wire'[T] = wire[T] \/ wire'[F] = sent(F, wire[F], on)
    BY <2>1, BranchStageSends
  <2> HIDE DEF F, T, on
  <2>4. Arrives(wire'[T]) => Arrives(wire'[F])
    BY <1>1, <2>2, <2>3, ArrivesNow
  <2> QED
    BY <2>4 DEF BranchTarget, Arrives, F, T
<1>4. CASE writeback_clock
  <2>1. wire'[F] = wire[F] /\ wire'[T] = wire[T] /\ phase = "writeback"
    BY <1>1, <1>4, StagePorts DEF StageWrites
  <2> QED
    BY <2>1 DEF BranchTarget, Arrives
<1> QED
  BY <1>2, <1>3, <1>4 DEF stage_clock

LEMMA CoreReads ==
    ASSUME Pipe, core_clock
    PROVE  /\ \A p \in OrderPorts : is_ready(p)' <=> Arrives(wire[p])
           /\ \A p \in OrderPorts : p \notin writeback_ports /\ Arrives(wire[p])
                                    => read(p)' = arriving(wire[p])
<1>1. Wires /\ tick
  BY DEF Pipe, core_clock
<1>2. \A p \in Ports : p \notin writeback_ports => Strict(wire[p])
  BY <1>1 DEF Wires
<1> QED
  BY <1>1, <1>2, OrderPortsAre, TickReads

\* What is younger than the flight of the next cycle.
LEMMA NextYoung ==
    ASSUME Pipe, Moves, Decodes, core_clock, NEW n, ~is_flush => Young(n),
           Arrives(wire["DECODE_2_EXECUTE"]) => read_instr.seq < n
    PROVE  Young(n)'
<1> SUFFICES ASSUME NEW m, NEW j, NEW s, Flies(m, j, s)' PROVE m < n
  BY DEF Young
<1>1. Sending("DECODE_2_EXECUTE", m, j) \/ (~is_flush /\ \E r : Flies(m, j, r))
  BY NextFlight
<1>2. phase = "core"
  BY DEF core_clock
<1> QED
  BY <1>1, <1>2 DEF Young, Sending, Is, Decodes

LEMMA AnswersCore ==
    ASSUME Pipe, Carried, Decodes, Fetches, BranchTarget, core_clock
    PROVE  Answers'
<1>1. phase = "core"
  BY DEF core_clock
<1>2. /\ is_ready("DECODE_2_DECODE")' <=> Arrives(wire["DECODE_2_DECODE"])
      /\ is_ready("DECODE_2_FETCH_STALL")' <=> Arrives(wire["DECODE_2_FETCH_STALL"])
      /\ is_ready("DECODE_2_FETCH_TARGET")' <=> Arrives(wire["DECODE_2_FETCH_TARGET"])
      /\ is_ready("DECODE_2_FETCH_FLUSH")' <=> Arrives(wire["DECODE_2_FETCH_FLUSH"])
      /\ is_ready("BRANCH_2_FETCH_TARGET")' <=> Arrives(wire["BRANCH_2_FETCH_TARGET"])
      /\ is_ready("BRANCH_2_ALL_FLUSH")' <=> Arrives(wire["BRANCH_2_ALL_FLUSH"])
      /\ is_ready("WRITEBACK_2_FETCH_TARGET")' <=> Arrives(wire["WRITEBACK_2_FETCH_TARGET"])
      /\ is_ready("WRITEBACK_2_ALL_FLUSH")' <=> Arrives(wire["WRITEBACK_2_ALL_FLUSH"])
      /\ is_ready("FETCH_2_DECODE")' <=> Arrives(wire["FETCH_2_DECODE"])
      /\ is_ready("TARGET")' <=> Arrives(wire["TARGET"])
      /\ is_ready("HIT_OR_MISS")' <=> Arrives(wire["HIT_OR_MISS"])
  BY CoreReads DEF OrderPorts
<1>3. /\ Arrives(wire["FETCH_2_DECODE"]) => read("FETCH_2_DECODE")' = arriving(wire["FETCH_2_DECODE"])
      /\ Arrives(wire["TARGET"]) => read("TARGET")' = arriving(wire["TARGET"])
  BY CoreReads DEF OrderPorts, writeback_ports
<1>4. /\ Arrives(wire["DECODE_2_DECODE"]) <=> Arrives(wire["DECODE_2_FETCH_STALL"])
      /\ Arrives(wire["DECODE_2_FETCH_TARGET"])
            => Arrives(wire["DECODE_2_DECODE"]) \/ Arrives(wire["DECODE_2_FETCH_FLUSH"])
  BY <1>1 DEF Decodes
<1>5. /\ Arrives(wire["BRANCH_2_FETCH_TARGET"]) => Arrives(wire["BRANCH_2_ALL_FLUSH"])
      /\ Arrives(wire["WRITEBACK_2_FETCH_TARGET"]) => Arrives(wire["WRITEBACK_2_ALL_FLUSH"])
  BY <1>1 DEF BranchTarget, Carried, Redirected
<1>6. Arrives(wire["FETCH_2_DECODE"]) =>
         /\ Arrives(wire["TARGET"]) /\ ~Arrives(wire["HIT_OR_MISS"])
         /\ arriving(wire["FETCH_2_DECODE"]).seq < arriving(wire["TARGET"]).seq
  BY <1>1 DEF Fetches
<1> QED
  BY <1>2, <1>3, <1>4, <1>5, <1>6 DEF Answers

LEMMA OffersCore ==
    ASSUME Pipe, Carried, Moves, Decodes, Fetches, Decodable, core_clock
    PROVE  Offers' /\ Decodable'
<1> DEFINE X == "DECODE_2_EXECUTE"
           D == "DECODE_2_DECODE"
           T == "DECODE_2_FETCH_TARGET"
           F == "FETCH_2_DECODE"
           L == "LONG_LATENCY_PC_HOLDER"
<1>1. phase = "core" /\ Wires /\ tick
  BY DEF core_clock, Pipe
<1>2. /\ Arrives(wire[X]) => decoding
      /\ Arrives(wire[D]) => decoding /\ arriving(wire[D]).seq = read_instr.seq /\ ~Arrives(wire[X])
      /\ Arrives(wire[T]) => decoding /\ arriving(wire[T]).seq = read_instr.seq + 1
  BY <1>1 DEF Decodes
<1>3. decoding => ~is_flush
  BY DEF decoding
<1>4. /\ is_ready(D)' <=> Arrives(wire[D])
      /\ Arrives(wire[D]) => read(D)' = arriving(wire[D])
  BY CoreReads DEF OrderPorts, writeback_ports
<1>5. decoding => Young(read_instr.seq) /\ read_instr.seq \in Int
  <2>1. decoding => Young(read_instr.seq)
    BY DEF decoding, has_instr, from_stall, read_instr, Decodable
  <2> QED
    BY <2>1, FlightKnown DEF Known
<1>6. ASSUME NEW n, ~is_flush => Follows(n) PROVE Waits(n)' /\ Young(n)'
  <2>1. Young(n)'
    BY <1>2, <1>3, <1>6, NextYoung DEF Follows
  <2>2. is_ready(D)' => read(D)'.seq < n
    BY <1>2, <1>3, <1>4, <1>6 DEF Follows
  <2> QED
    BY <2>1, <2>2 DEF Waits
<1>7. decoding => Follows(read_instr.seq + 1)
  BY <1>5, FlightKnown DEF Follows, Young
<1>8. ASSUME NEW p \in {"HOLD_PC", "TARGET", "DECODE_2_FETCH_TARGET"}, is_ready(p)'
      PROVE  Waits(read(p).seq)'
  <2>1. p \in OrderPorts /\ p \notin writeback_ports
    BY DEF OrderPorts, writeback_ports
  <2>2. Arrives(wire[p]) /\ read(p)' = arriving(wire[p])
    BY <1>8, <2>1, CoreReads
  <2>3. ~is_flush => Follows(arriving(wire[p]).seq)
    BY <1>1, <1>2, <1>7, <2>2 DEF Fetches
  <2>4. PICK n : n = arriving(wire[p]).seq
    OBVIOUS
  <2>5. Waits(n)' /\ read(p)'.seq = n
    BY <1>6, <2>2, <2>3, <2>4
  <2> QED
    BY <2>5 DEF Waits, Young
<1>9. ASSUME NEW k \in 1..Len(wire'[L]) PROVE Waits(wire[L][k].data.seq)'
  <2>1. L \in Ports
    BY FetchPorts
  <2>2. PICK j \in 1..Len(wire[L]) :
           wire[L][j].left = wire'[L][k].left + 1 /\ wire[L][j].data = wire'[L][k].data
    BY <1>1, <2>1, TickPackets
  <2>3. wire'[L][k].left \in Nat
    <3>1. IsWire(wire')
      BY <1>1, TickWires
    <3>2. OnWire(wire'[L])
      BY <2>1, <3>1, OnPort
    <3> QED
      BY <3>2, PacketsOf DEF OnWire
  <2>4. ~is_flush => Follows(wire[L][j].data.seq)
    <3>1. wire[L][j].left >= 1
      BY <2>2, <2>3
    <3>2. ~is_flush => \A h \in 1..Len(wire[L]) : wire[L][h].left >= 1 => Follows(wire[L][h].data.seq)
      BY <1>1 DEF Fetches
    <3> QED
      BY <3>1, <3>2
  <2>5. PICK n : n = wire[L][j].data.seq
    OBVIOUS
  <2>6. Waits(n)' /\ wire'[L][k].data.seq = n
    BY <1>6, <2>2, <2>4, <2>5
  <2> QED
    BY <2>6 DEF Waits, Young
<1>10. Offers'
  BY <1>8, <1>9 DEF Offers
<1>11. ASSUME is_ready(D)' PROVE Young(read(D).seq)'
  <2>1. PICK n : n = read_instr.seq
    OBVIOUS
  <2>2. Young(n)'
    BY <1>2, <1>4, <1>5, <1>11, <2>1, NextYoung
  <2>3. read(D)'.seq = n
    BY <1>2, <1>4, <1>11, <2>1
  <2> QED
    BY <2>2, <2>3 DEF Young
<1>12. ASSUME is_ready(F)' PROVE Young(read(F).seq)'
  <2>1. F \in OrderPorts /\ F \notin writeback_ports
    BY DEF OrderPorts, writeback_ports
  <2>2. Arrives(wire[F]) /\ read(F)' = arriving(wire[F])
    BY <1>12, <2>1, CoreReads
  <2>3. ~is_flush => Follows(arriving(wire[F]).seq)
    BY <1>1, <2>2 DEF Fetches
  <2>4. PICK n : n = arriving(wire[F]).seq
    OBVIOUS
  <2>5. Young(n)' /\ read(F)'.seq = n
    BY <1>6, <2>2, <2>3, <2>4
  <2> QED
    BY <2>5 DEF Young
<1>13. Decodable'
  BY <1>11, <1>12 DEF Decodable
<1> QED
  BY <1>10, <1>13

LEMMA InOrderCore ==
    ASSUME Pipe, Carried, Moves, Decodes, Decodable, InOrder, Apart, core_clock
    PROVE  InOrder'
<1> SUFFICES ASSUME NEW n, NEW i, NEW r, NEW m, NEW j, NEW s, Flies(n, i, r)', Flies(m, j, s)', r < s
             PROVE  m < n
  BY DEF InOrder
<1> DEFINE X == "DECODE_2_EXECUTE"
<1>1. phase = "core"
  BY DEF core_clock
<1>2. \/ r = 0 /\ Sending(X, n, i)
      \/ ~is_flush /\ \E a : Flies(n, i, a) /\ a # WB_STAGE /\ r = moves_to(a, i)
  BY NextFlight
<1>3. \/ s = 0 /\ Sending(X, m, j)
      \/ ~is_flush /\ \E b : Flies(m, j, b) /\ b # WB_STAGE /\ s = moves_to(b, j)
  BY NextFlight
<1>4. \A a, b, t : Sending(X, a, b) /\ ~is_flush /\ (\E c : Flies(m, t, c)) => m < a
  <2>1. \A a, b : Sending(X, a, b) => decoding /\ a = read_instr.seq
    BY <1>1 DEF Sending, Is, Decodes
  <2>2. decoding => Young(read_instr.seq)
    BY DEF decoding, has_instr, from_stall, read_instr, Decodable
  <2> QED
    BY <2>1, <2>2 DEF Young
<1>5. CASE r = 0 /\ Sending(X, n, i)
  BY <1>3, <1>4, <1>5
<1>6. CASE ~is_flush /\ \E a : Flies(n, i, a) /\ a # WB_STAGE /\ r = moves_to(a, i)
  <2>1. PICK a : Flies(n, i, a) /\ a # WB_STAGE /\ r = moves_to(a, i)
    BY <1>6
  <2>2. a \in 0..253
    BY <2>1, FlightStages, StageNumbers
  <2>3. r \in Nat
    <3>1. next_stage(i).value \in Nat
      BY NextStage, StageNumbers
    <3> QED
      BY <2>1, <2>2, <3>1, StageNumbers DEF moves_to
  <2>4. PICK b : Flies(m, j, b) /\ b # WB_STAGE /\ s = moves_to(b, j)
    BY <1>3, <2>3
  <2>5. b \in 0..253
    BY <2>4, FlightStages, StageNumbers
  <2>6. a # b
    BY <2>1, <2>3, <2>4, FlightUnique
  <2>7. ~(b < a)
    BY <1>6, <2>1, <2>3, <2>4 DEF Apart
  <2>8. a < b
    BY <2>2, <2>5, <2>6, <2>7
  <2> QED
    BY <1>6, <2>1, <2>4, <2>8 DEF InOrder
<1> QED
  BY <1>2, <1>5, <1>6

\* The order of instructions and targets.
Order ==
    Answers /\ Decodes /\ Fetches /\ Offers /\ BranchTarget /\ Decodable /\ InOrder /\ Apart

LEMMA OrderStep ==
    ASSUME Pipe, MissHeld, Carried, Moves, Order, [Next]_vars, EarlyApart'
    PROVE  Order'
<1>1. CASE stage_clock
  <2>1. Answers' /\ Decodable' /\ InOrder' /\ Apart' /\ BranchTarget'
    BY <1>1, OrderKept, BranchTargetStage DEF Order
  <2>2. Decodes'
    BY <1>1, DecodesDecode, DecodesKept DEF Order
  <2>3. Fetches'
    BY <1>1, FetchesFetch, FetchesKept DEF Order
  <2>4. Offers'
    <3>1. phase' # "fetch"
      BY <1>1, StagePorts DEF stage_clock
    <3> QED
      BY <3>1 DEF Offers
  <2> QED
    BY <2>1, <2>2, <2>3, <2>4 DEF Order
<1>2. CASE core_clock
  <2>1. phase' = "fetch"
    BY <1>2 DEF core_clock
  <2>2. Answers' /\ Offers' /\ Decodable' /\ InOrder'
    BY <1>2, AnswersCore, OffersCore, InOrderCore DEF Order
  <2>3. Apart'
    BY <2>1 DEF EarlyApart, LatePhases
  <2>4. Decodes' /\ Fetches' /\ BranchTarget'
    BY <2>1 DEF Decodes, Fetches, BranchTarget
  <2> QED
    BY <2>2, <2>3, <2>4 DEF Order
<1>3. CASE run \/ Done \/ UNCHANGED vars
  <2>1. wire' = wire /\ phase' = phase /\ flush_expiration_latency' = flush_expiration_latency
    BY <1>3 DEF run, Done, vars, stageVars
  <2>2. long_alu' = long_alu /\ (is_flush' <=> is_flush)
        /\ \A p : (is_ready(p)' <=> is_ready(p)) /\ read(p)' = read(p)
    BY <2>1 DEF long_alu, is_flush, is_ready, read
  <2>3. \A n, i, s : Flies(n, i, s)' <=> Flies(n, i, s)
    BY <2>1, <2>2 DEF Flies, InExecute, FliesFrom, in_alu, Is, last_execution_stage,
       MEM_OR_BRANCH_STAGE, WB_STAGE
  <2>4. (decoding' <=> decoding) /\ read_instr' = read_instr
    BY <2>2 DEF decoding, has_instr, from_stall, read_instr
  <2>5. Answers' <=> Answers
    BY <2>2 DEF Answers
  <2>6. Decodes' <=> Decodes
    BY <2>1, <2>4 DEF Decodes, Arrives, arriving
  <2>7. Fetches' <=> Fetches
    BY <2>1, <2>2, <2>3, <2>4 DEF Fetches, Arrives, arriving, Follows, Young
  <2>8. Offers' <=> Offers
    BY <2>1, <2>2, <2>3 DEF Offers, Waits, Young
  <2>9. BranchTarget' <=> BranchTarget
    BY <2>1 DEF BranchTarget, Arrives
  <2>10. Decodable' <=> Decodable
    BY <2>2, <2>3 DEF Decodable, Young
  <2>11. InOrder' <=> InOrder
    BY <2>2, <2>3 DEF InOrder
  <2>12. Apart' <=> Apart
    BY <2>2, <2>3 DEF Apart, moves_to, last_execution_stage, MEM_OR_BRANCH_STAGE, WB_STAGE
  <2> QED
    BY <2>5, <2>6, <2>7, <2>8, <2>9, <2>10, <2>11, <2>12 DEF Order
<1> QED
  BY <1>1, <1>2, <1>3 DEF Next, clock, stage_clock

\* At the beginning there is nothing in the pipeline.
LEMMA NothingFlies ==
    ASSUME Init
    PROVE  \A n, i, s : ~Flies(n, i, s)
<1>1. /\ \A p \in Ports : ~is_ready(p)
      /\ \A p \in Ports : p \notin {"WRITEBACK_2_ALL_FLUSH", "WRITEBACK_2_FETCH_TARGET"}
                          => wire[p] = <<>>
  BY InitWires
<1>2. \A p \in FlightPorts : \A n, i : ~FliesFrom(p, n, i)
  BY <1>1, FlightPortsAre DEF FliesFrom
<1>3. Len(long_alu) = 0
  <2>1. long_alu = <<>>
    BY <1>1, ExecutePorts DEF long_alu
  <2> QED
    BY <2>1
<1> QED
  BY <1>2, <1>3 DEF Flies, InExecute, FlightPorts

LEMMA OrderInit ==
    ASSUME Init
    PROVE  Order
<1>1. phase = "fetch"
  BY DEF Init
<1>2. \A n, i, s : ~Flies(n, i, s)
  BY NothingFlies
<1>3. /\ \A p \in Ports : ~is_ready(p)
      /\ \A p \in Ports : p \notin {"WRITEBACK_2_ALL_FLUSH", "WRITEBACK_2_FETCH_TARGET"}
                          => wire[p] = <<>>
  BY InitWires
<1>4. \A p \in OrderPorts : ~is_ready(p)
  BY <1>3, OrderPortsAre
<1>5. Answers /\ Decodable
  BY <1>4 DEF Answers, Decodable, OrderPorts
<1>6. Decodes /\ Fetches /\ BranchTarget
  BY <1>1 DEF Decodes, Fetches, BranchTarget
<1>7. Offers
  <2>1. wire["LONG_LATENCY_PC_HOLDER"] = <<>>
    BY <1>3, FetchPorts
  <2>2. Len(wire["LONG_LATENCY_PC_HOLDER"]) = 0
    BY <2>1
  <2> QED
    BY <1>4, <2>2 DEF Offers, OrderPorts
<1>8. InOrder /\ Apart
  BY <1>2 DEF InOrder, Apart
<1> QED
  BY <1>5, <1>6, <1>7, <1>8 DEF Order

-----------------------------------------------------------------------------
(* The scoreboard *)

writes(i, r) == i.dst[1] = r \/ i.dst[2] = r

IsEntry(e) ==
    \E current, ready, next, bypassible : \E traced \in BOOLEAN :
        e = [current |-> current, ready |-> ready, next |-> next,
             is_bypassible |-> bypassible, is_traced |-> traced]

\* e is where the last instruction in flight that writes r is.
Shown(e, r) ==
    /\ \A n, i, s : Flies(n, i, s) /\ writes(i, r) => e.current.value <= s
    /\ e.current.value # IN_RF_STAGE =>
          \E n, i, s : Flies(n, i, s) /\ writes(i, r) /\ s = e.current.value
    /\ e.is_traced = (e.current.value # IN_RF_STAGE)
    /\ e.current.value = 0 => \A n, i : Flies(n, i, 0) => e.next = next_stage(i)
Shows(b) == \A r \in Regs : IsEntry(b.reg[r]) /\ Shown(b.reg[r], r)

\* Decode brings the scoreboard up to date in every cycle.
Shadow ==
    /\ phase \in {"fetch", "decode"} /\ ~is_flush => Shows(traced_board)
    /\ phase \notin {"fetch", "decode"} =>
          /\ is_flush => \A r \in Regs : board.reg[r] = Untraced
          /\ ~is_flush => Shows(board)

\* The entry of a register that the new instruction writes.
NewEntry(e, i) ==
    IsEntry(e) /\ e.current = first_execution_stage /\ e.next = next_stage(i) /\ e.is_traced = TRUE

IsBoard(b) == \E n, R : b = [reg |-> [q \in Regs |-> R[q]], operation_latency |-> n]

LEMMA TracedDst ==
    ASSUME NEW b, IsBoard(b), NEW i, NEW d
    PROVE  LET c == trace_new_dst_register(b, i, d)
           IN  /\ IsBoard(c)
               /\ \A r \in Regs : /\ d = r => NewEntry(c.reg[r], i)
                                  /\ d # r => c.reg[r] = b.reg[r]
<1> DEFINE c == trace_new_dst_register(b, i, d)
           e == [current |-> first_execution_stage, ready |-> ready_stage(i),
                 next |-> next_stage(i), is_bypassible |-> ready_stage(i) = 0,
                 is_traced |-> TRUE]
<1>1. PICK n, R : b = [reg |-> [q \in Regs |-> R[q]], operation_latency |-> n]
  BY DEF IsBoard
<1>2. NewEntry(e, i)
  BY DEF NewEntry, IsEntry
<1>3. "zero" \notin Regs
  BY CodeAssumption
<1>4. c = IF d = "zero" THEN b ELSE [b EXCEPT !.reg[d] = e]
  BY DEF trace_new_dst_register
<1> HIDE DEF c, e
<1>5. CASE d = "zero"
  BY <1>1, <1>3, <1>4, <1>5 DEF c
<1>6. CASE d # "zero"
  <2> DEFINE S == [q \in Regs |-> IF q = d THEN e ELSE R[q]]
  <2>1. c = [reg |-> S, operation_latency |-> n]
    <3>1. c = [b EXCEPT !.reg[d] = e]
      BY <1>4, <1>6
    <3>2. c = [reg |-> [[q \in Regs |-> R[q]] EXCEPT ![d] = e], operation_latency |-> n]
      BY <1>1, <3>1
    <3>3. [[q \in Regs |-> R[q]] EXCEPT ![d] = e] = S
      OBVIOUS
    <3> QED
      BY <3>2, <3>3
  <2>2. S = [q \in Regs |-> S[q]]
    OBVIOUS
  <2>3. IsBoard(c)
    <3>1. c = [reg |-> [q \in Regs |-> S[q]], operation_latency |-> n]
      BY <2>1, <2>2
    <3> HIDE DEF S
    <3> QED
      BY <3>1 DEF IsBoard
  <2>4. \A r \in Regs : c.reg[r] = IF r = d THEN e ELSE b.reg[r]
    BY <1>1, <2>1
  <2> QED
    BY <1>2, <2>3, <2>4 DEF c
<1> QED
  BY <1>5, <1>6

LEMMA TracedDst2 ==
    ASSUME NEW b, IsBoard(b), NEW i, NEW d
    PROVE  LET c == trace_new_dst2_register(b, i, d)
           IN  \A r \in Regs : /\ d = r => NewEntry(c.reg[r], i)
                               /\ d # r => c.reg[r] = b.reg[r]
<1> DEFINE c == trace_new_dst2_register(b, i, d)
           e(f) == [current |-> first_execution_stage, ready |-> IN_RF_STAGE,
                    next |-> next_stage(i), is_bypassible |-> f.is_bypassible, is_traced |-> TRUE]
<1>1. PICK n, R : b = [reg |-> [q \in Regs |-> R[q]], operation_latency |-> n]
  BY DEF IsBoard
<1>2. \A f : NewEntry(e(f), i)
  BY DEF NewEntry, IsEntry
<1>3. "zero" \notin Regs
  BY CodeAssumption
<1>4. CASE d = "zero"
  <2>1. c = b
    BY <1>4 DEF trace_new_dst2_register
  <2> HIDE DEF c, e
  <2>2. \A r \in Regs : d # r
    BY <1>3, <1>4
  <2> QED
    BY <2>1, <2>2 DEF c
<1>5. CASE d # "zero"
  <2>1. c = [reg |-> [[q \in Regs |-> R[q]] EXCEPT ![d] = e(@)], operation_latency |-> n]
    BY <1>1, <1>5 DEF trace_new_dst2_register
  <2> HIDE DEF c, e
  <2>2. \A r \in Regs : c.reg[r] = IF r = d THEN e(R[d]) ELSE b.reg[r]
    BY <1>1, <2>1
  <2>3. \A r \in Regs : /\ d = r => NewEntry(c.reg[r], i)
                        /\ d # r => c.reg[r] = b.reg[r]
    BY <1>2, <2>2
  <2> QED
    BY <2>3 DEF c
<1> QED
  BY <1>4, <1>5

LEMMA TracedInstr ==
    ASSUME NEW b, IsBoard(b), NEW i
    PROVE  \A r \in Regs :
              /\ writes(i, r) => NewEntry(trace_new_instr(b, i).reg[r], i)
              /\ ~writes(i, r) => trace_new_instr(b, i).reg[r] = b.reg[r]
<1> DEFINE a == [b EXCEPT !.operation_latency = get_instruction_latency(i)]
           c == trace_new_dst_register(a, i, i.dst[1])
<1>1. PICK n, R : b = [reg |-> [q \in Regs |-> R[q]], operation_latency |-> n]
  BY DEF IsBoard
<1>2. a = [reg |-> [q \in Regs |-> R[q]], operation_latency |-> get_instruction_latency(i)]
  <2> DEFINE F == [q \in Regs |-> R[q]]
             g == get_instruction_latency(i)
  <2>1. b = [reg |-> F, operation_latency |-> n]
    BY <1>1
  <2> HIDE DEF F, g
  <2>2. [b EXCEPT !.operation_latency = g] = [reg |-> F, operation_latency |-> g]
    BY <2>1
  <2> QED
    BY <2>2 DEF F, g
<1>3. IsBoard(a) /\ a.reg = b.reg
  BY <1>1, <1>2 DEF IsBoard
<1>4. trace_new_instr(b, i) = trace_new_dst2_register(c, i, i.dst[2])
  BY DEF trace_new_instr
<1> HIDE DEF a
<1>5. /\ IsBoard(c)
      /\ \A r \in Regs : /\ i.dst[1] = r => NewEntry(c.reg[r], i)
                         /\ i.dst[1] # r => c.reg[r] = b.reg[r]
  BY <1>3, TracedDst
<1> HIDE DEF c
<1> DEFINE d == trace_new_dst2_register(c, i, i.dst[2])
<1>6. \A r \in Regs : /\ i.dst[2] = r => NewEntry(d.reg[r], i)
                      /\ i.dst[2] # r => d.reg[r] = c.reg[r]
  <2>1. IsBoard(c)
    BY <1>5
  <2> DEFINE x == i.dst[2]
  <2> HIDE DEF x
  <2>2. \A r \in Regs : /\ x = r => NewEntry(trace_new_dst2_register(c, i, x).reg[r], i)
                        /\ x # r => trace_new_dst2_register(c, i, x).reg[r] = c.reg[r]
    BY <2>1, TracedDst2
  <2> QED
    BY <2>2 DEF x
<1>7. trace_new_instr(b, i) = d
  BY <1>4
<1> HIDE DEF d
<1>8. ASSUME NEW r \in Regs
      PROVE  (writes(i, r) => NewEntry(d.reg[r], i)) /\ (~writes(i, r) => d.reg[r] = b.reg[r])
  <2>1. CASE i.dst[2] = r
    BY <1>6, <2>1 DEF writes
  <2>2. CASE i.dst[2] # r
    <3>1. d.reg[r] = c.reg[r]
      BY <1>6, <2>2
    <3> QED
      BY <1>5, <2>2, <3>1 DEF writes
  <2> QED
    BY <2>1, <2>2
<1> QED
  BY <1>7, <1>8

\* The stage of an entry one cycle later.
LEMMA UpdatedEntry ==
    ASSUME NEW e, IsEntry(e)
    PROVE  /\ IsEntry(updated(e))
           /\ ~e.is_traced => updated(e) = e
           /\ e.is_traced /\ e.current.value = WB_STAGE => updated(e) = Untraced
           /\ e.is_traced /\ e.current.value # WB_STAGE =>
                 /\ updated(e).is_traced = TRUE
                 /\ updated(e).current.value =
                       IF e.current.value = 0 THEN e.next.value
                       ELSE IF e.current.value \in {last_execution_stage, MEM_OR_BRANCH_STAGE}
                            THEN WB_STAGE ELSE e.current.value + 1
<1>1. PICK a, b, c, d : \E t \in BOOLEAN :
         e = [current |-> a, ready |-> b, next |-> c, is_bypassible |-> d, is_traced |-> t]
  BY DEF IsEntry
<1>2. PICK t \in BOOLEAN :
         e = [current |-> a, ready |-> b, next |-> c, is_bypassible |-> d, is_traced |-> t]
  BY <1>1
<1> DEFINE s == CASE e.current.value = 0 -> e.next
                  [] e.current.value \in {last_execution_stage, MEM_OR_BRANCH_STAGE} -> writeback_stage
                  [] OTHER -> Stage(e.current.value + 1, e.current.direction)
           f == e.is_bypassible \/ s.value = e.ready
<1>3. moved(e) = [e EXCEPT !.current = s, !.is_bypassible = f]
  BY DEF moved
<1>4. 0 \notin {last_execution_stage, MEM_OR_BRANCH_STAGE}
  BY StageNumbers
<1>5. s.value = IF e.current.value = 0 THEN e.next.value
                ELSE IF e.current.value \in {last_execution_stage, MEM_OR_BRANCH_STAGE}
                     THEN WB_STAGE ELSE e.current.value + 1
  <2>1. CASE e.current.value = 0
    BY <1>4, <2>1
  <2>2. CASE e.current.value \in {last_execution_stage, MEM_OR_BRANCH_STAGE}
    <3>1. s = writeback_stage
      BY <1>4, <2>2
    <3> QED
      BY <1>4, <2>2, <3>1 DEF writeback_stage, Stage
  <2>3. CASE e.current.value # 0 /\ e.current.value \notin {last_execution_stage, MEM_OR_BRANCH_STAGE}
    BY <2>3 DEF Stage
  <2> QED
    BY <2>1, <2>2, <2>3
<1>6. moved(e) = [current |-> s, ready |-> b, next |-> c, is_bypassible |-> f, is_traced |-> t]
  <2>1. PICK x, y : x = s /\ y = f
    OBVIOUS
  <2>2. moved(e) = [e EXCEPT !.current = x, !.is_bypassible = y]
    BY <1>3, <2>1
  <2> HIDE DEF s, f
  <2>3. moved(e) = [current |-> x, ready |-> b, next |-> c, is_bypassible |-> y, is_traced |-> t]
    BY <1>2, <2>2
  <2> QED
    BY <2>1, <2>3
<1> HIDE DEF s, f
<1>7. IsEntry(moved(e)) /\ moved(e).current = s /\ moved(e).is_traced = t
  <2>1. PICK x, y : x = s /\ y = f
    OBVIOUS
  <2>2. moved(e) = [current |-> x, ready |-> b, next |-> c, is_bypassible |-> y, is_traced |-> t]
    BY <1>6, <2>1
  <2>3. IsEntry(moved(e))
    BY <2>2 DEF IsEntry
  <2>4. moved(e).current = x /\ moved(e).is_traced = t
    BY <2>2
  <2> QED
    BY <2>1, <2>3, <2>4
<1>8. IsEntry(Untraced)
  BY DEF IsEntry, Untraced
<1>9. e.is_traced = t
  BY <1>2
<1>10. CASE ~t
  BY <1>9, <1>10 DEF updated
<1>11. CASE t
  <2>1. t = TRUE
    BY <1>11
  <2>2. e.is_traced
    BY <1>9, <1>11
  <2>3. updated(e) = IF e.current.value = WB_STAGE THEN Untraced ELSE moved(e)
    BY <2>2 DEF updated
  <2> QED
    BY <1>5, <1>7, <1>8, <2>1, <2>2, <2>3
<1> QED
  BY <1>10, <1>11

\* An entry that no new instruction takes over follows its instruction.
LEMMA ShownNext ==
    ASSUME Pipe, Moves, Apart, core_clock, ~is_flush, NEW r, NEW e, IsEntry(e), Shown(e, r),
           \A n, i : Sending("DECODE_2_EXECUTE", n, i) => ~writes(i, r),
           NEW u, u = updated(e)
    PROVE  Shown(u, r)'
<1>0. PICK v : v = e.current.value
  OBVIOUS
<1>1. /\ \A n, i, s : Flies(n, i, s) /\ writes(i, r) => v <= s
      /\ v # 255 => \E n, i : Flies(n, i, v) /\ writes(i, r)
      /\ e.is_traced = (v # 255)
      /\ v = 0 => \A n, i : Flies(n, i, 0) => e.next = next_stage(i)
  BY <1>0 DEF Shown, IN_RF_STAGE
<1>11. (v = 255 => e.is_traced = FALSE) /\ (v # 255 => e.is_traced = TRUE)
  BY <1>1
<1>2. \A n, i, s : Flies(n, i, s)' /\ writes(i, r) =>
         \E t : Flies(n, i, t) /\ t # 254 /\ s = moves_to(t, i)
  BY NextFlight DEF WB_STAGE
<1>3. \A n, i, t : Flies(n, i, t) /\ t # 254 => Flies(n, i, moves_to(t, i))'
  BY NextFlight DEF WB_STAGE
<1>4. \A n, i, t : Flies(n, i, t) => t \in 0..62 \/ t = 253 \/ t = 254
  BY FlightStages, StageNumbers
<1>5. Shown(u, r)' <=>
         /\ \A n, i, s : Flies(n, i, s)' /\ writes(i, r) => u.current.value <= s
         /\ u.current.value # 255 =>
              \E n, i, s : Flies(n, i, s)' /\ writes(i, r) /\ s = u.current.value
         /\ u.is_traced = (u.current.value # 255)
         /\ u.current.value = 0 => \A n, i : Flies(n, i, 0)' => u.next = next_stage(i)
  BY DEF Shown, IN_RF_STAGE
<1>6. /\ v = 255 => u = e
      /\ v = 254 => u = Untraced
      /\ v # 255 /\ v # 254 =>
            /\ u.is_traced = TRUE
            /\ u.current.value = IF v = 0 THEN e.next.value
                                 ELSE IF v \in {last_execution_stage, 253} THEN 254 ELSE v + 1
  <2>1. /\ ~e.is_traced => u = e
        /\ e.is_traced /\ v = 254 => u = Untraced
        /\ e.is_traced /\ v # 254 =>
              /\ u.is_traced = TRUE
              /\ u.current.value =
                    IF v = 0 THEN e.next.value
                    ELSE IF v \in {last_execution_stage, 253} THEN 254 ELSE v + 1
    BY <1>0, UpdatedEntry DEF WB_STAGE, MEM_OR_BRANCH_STAGE
  <2>2. CASE v = 255
    <3>1. ~e.is_traced
      BY <1>11, <2>2
    <3> QED
      BY <2>1, <2>2, <3>1
  <2>3. CASE v # 255
    <3>1. e.is_traced
      BY <1>11, <2>3
    <3> QED
      BY <2>1, <2>3, <3>1
  <2> QED
    BY <2>2, <2>3
<1>7. CASE v = 255
  <2>1. u = e
    BY <1>6, <1>7
  <2>2. ASSUME NEW n, NEW i, NEW s, Flies(n, i, s)', writes(i, r) PROVE FALSE
    <3>1. PICK t : Flies(n, i, t) /\ t # 254
      BY <1>2, <2>2
    <3>2. v <= t /\ (t \in 0..62 \/ t = 253)
      BY <1>1, <1>4, <2>2, <3>1
    <3> QED
      BY <1>7, <3>2
  <2>3. u.current.value = 255 /\ u.is_traced = FALSE
    BY <1>0, <1>11, <1>7, <2>1
  <2>4. u.is_traced = (u.current.value # 255)
    BY <2>3
  <2>5. u.current.value # 255 =>
              \E n, i, s : Flies(n, i, s)' /\ writes(i, r) /\ s = u.current.value
    BY <2>3
  <2>6. u.current.value = 0 => \A n, i : Flies(n, i, 0)' => u.next = next_stage(i)
    BY <2>3
  <2> QED
    BY <1>5, <2>2, <2>4, <2>5, <2>6
<1>8. CASE v = 254
  <2>1. u = Untraced
    BY <1>6, <1>8
  <2>2. u.current.value = 255 /\ u.is_traced = FALSE
    BY <2>1 DEF Untraced, Stage, IN_RF_STAGE
  <2>3. ASSUME NEW n, NEW i, NEW s, Flies(n, i, s)', writes(i, r) PROVE FALSE
    <3>1. PICK t : Flies(n, i, t) /\ t # 254
      BY <1>2, <2>3
    <3>2. v <= t /\ (t \in 0..62 \/ t = 253)
      BY <1>1, <1>4, <2>3, <3>1
    <3> QED
      BY <1>8, <3>2
  <2>4. u.is_traced = (u.current.value # 255)
    BY <2>2
  <2>5. u.current.value # 255 =>
              \E n, i, s : Flies(n, i, s)' /\ writes(i, r) /\ s = u.current.value
    BY <2>2
  <2>6. u.current.value = 0 => \A n, i : Flies(n, i, 0)' => u.next = next_stage(i)
    BY <2>2
  <2> QED
    BY <1>5, <2>3, <2>4, <2>5, <2>6
<1>9. CASE v # 255 /\ v # 254
  <2>1. PICK n, i : Flies(n, i, v) /\ writes(i, r)
    BY <1>1, <1>9
  <2>2. v \in 0..62 \/ v = 253
    BY <1>4, <1>9, <2>1
  <2>3. v = 0 => e.next = next_stage(i)
    BY <1>1, <2>1
  <2>4. u.is_traced = TRUE /\ u.current.value = moves_to(v, i)
    BY <1>6, <1>9, <2>3 DEF moves_to, WB_STAGE, MEM_OR_BRANCH_STAGE
  <2>5. moves_to(v, i) \in 1..254
    <3>1. next_stage(i).value \in 1..254
      BY NextStage, StageNumbers
    <3> QED
      BY <2>2, <3>1 DEF moves_to, WB_STAGE
  <2>6. \E m, j, s : Flies(m, j, s)' /\ writes(j, r) /\ s = u.current.value
    <3>1. PICK x : x = moves_to(v, i)
      OBVIOUS
    <3>2. Flies(n, i, x)' /\ u.current.value = x
      BY <1>3, <1>9, <2>1, <2>4, <3>1
    <3> QED
      BY <2>1, <3>2
  <2>7. ASSUME NEW m, NEW j, NEW s, Flies(m, j, s)', writes(j, r) PROVE u.current.value <= s
    <3>1. PICK t : Flies(m, j, t) /\ t # 254 /\ s = moves_to(t, j)
      BY <1>2, <2>7
    <3>2. v <= t
      BY <1>1, <2>7, <3>1
    <3>3. CASE v = t
      <4>1. i = j
        BY <2>1, <3>1, <3>3, FlightUnique
      <4> QED
        BY <2>4, <2>5, <3>1, <3>3, <4>1
    <3>4. CASE v # t
      <4>1. v < t
        BY <1>4, <2>2, <3>1, <3>2, <3>4
      <4>2. moves_to(v, i) < moves_to(t, j)
        BY <2>1, <3>1, <4>1 DEF Apart, WB_STAGE
      <4>3. moves_to(t, j) \in Int
        <5>1. next_stage(j).value \in Int
          BY NextStage, StageNumbers
        <5> QED
          BY <1>4, <3>1, <5>1 DEF moves_to, WB_STAGE
      <4> QED
        BY <2>4, <2>5, <3>1, <4>2, <4>3
    <3> QED
      BY <3>3, <3>4
  <2>8. u.current.value # 255 /\ u.current.value # 0
    BY <2>4, <2>5
  <2> QED
    BY <1>5, <2>4, <2>6, <2>7, <2>8
<1> QED
  BY <1>7, <1>8, <1>9

LEMMA TracedEntry ==
    ASSUME NEW b, NEW q \in BOOLEAN, NEW i, NEW c,
           c = IF q THEN trace_new_instr(update(b), i) ELSE update(b)
    PROVE  \A r \in Regs : /\ q /\ writes(i, r) => NewEntry(c.reg[r], i)
                           /\ ~(q /\ writes(i, r)) => c.reg[r] = updated(b.reg[r])
<1> DEFINE R == [r \in Regs |-> updated(b.reg[r])]
           n == IF b.operation_latency = 0 THEN 0 ELSE b.operation_latency - 1
<1>1. update(b) = [reg |-> R, operation_latency |-> n]
  BY DEF update
<1>2. R = [r \in Regs |-> R[r]] /\ \A r \in Regs : R[r] = updated(b.reg[r])
  OBVIOUS
<1> HIDE DEF R, n
<1>3. IsBoard(update(b))
  BY <1>1, <1>2 DEF IsBoard
<1>4. \A r \in Regs : update(b).reg[r] = updated(b.reg[r])
  <2>1. update(b).reg = R
    BY <1>1
  <2>2. \A r \in Regs : R[r] = updated(b.reg[r])
    BY <1>2
  <2> QED
    BY <2>1, <2>2
<1>5. CASE q
  BY <1>3, <1>4, <1>5, TracedInstr
<1>6. CASE ~q
  BY <1>4, <1>6
<1> QED
  BY <1>5, <1>6

\* Nothing in flight, nothing in the scoreboard.
LEMMA ShownEmpty ==
    ASSUME NEW r, \A n, i, s : Flies(n, i, s) => ~writes(i, r)
    PROVE  IsEntry(Untraced) /\ updated(Untraced) = Untraced /\ Shown(Untraced, r)
<1>1. IsEntry(Untraced)
  BY DEF IsEntry, Untraced
<1>2. Untraced.current.value = 255 /\ Untraced.is_traced = FALSE
  BY DEF Untraced, Stage, IN_RF_STAGE
<1>3. updated(Untraced) = Untraced
  BY <1>2 DEF updated
<1>4. Untraced.is_traced = (Untraced.current.value # IN_RF_STAGE)
  BY <1>2 DEF IN_RF_STAGE
<1>5. Untraced.current.value # 0 /\ ~(Untraced.current.value # IN_RF_STAGE)
  BY <1>2 DEF IN_RF_STAGE
<1>6. PICK e : e = Untraced
  OBVIOUS
<1>7. Shown(e, r)
  <2>1. e.is_traced = (e.current.value # IN_RF_STAGE)
    BY <1>4, <1>6
  <2>2. e.current.value # 0 /\ ~(e.current.value # IN_RF_STAGE)
    BY <1>5, <1>6
  <2>3. \A n, i, s : ~(Flies(n, i, s) /\ writes(i, r))
    OBVIOUS
  <2> QED
    BY <2>1, <2>2, <2>3 DEF Shown
<1> QED
  BY <1>1, <1>3, <1>6, <1>7

\* A new instruction takes its registers over, the others move on.
LEMMA ShadowCore ==
    ASSUME Pipe, Moves, Decodes, Apart, Shadow, core_clock
    PROVE  Shadow'
<1> DEFINE X == "DECODE_2_EXECUTE"
           N == "DECODE_2_BYPASSING_UNIT_NOTIFY"
<1>1. phase = "core" /\ phase' = "fetch" /\ board' = board /\ tick /\ Wires /\ Issued
  BY DEF core_clock, Pipe, Timing
<1>2. /\ Arrives(wire[X]) <=> Arrives(wire[N])
      /\ Arrives(wire[X]) => arriving(wire[X]).code = arriving(wire[N])
  BY <1>1 DEF Issued
<1>3. (is_ready(N)' <=> Arrives(wire[N])) /\ (Arrives(wire[N]) => read(N)' = arriving(wire[N]))
  <2>1. N \in Ports /\ N \notin writeback_ports
    BY NamedPorts, PortGroups
  <2>2. Strict(wire[N])
    BY <1>1, <2>1 DEF Wires
  <2> QED
    BY <1>1, <2>1, <2>2, TickReads
<1>4. PICK q \in BOOLEAN : q <=> Arrives(wire[X])
  OBVIOUS
<1>5. PICK c, n, b : c = arriving(wire[X]).code /\ n = arriving(wire[X]).seq /\ b = board
  OBVIOUS
<1>6. PICK t : t = traced_board'
  OBVIOUS
<1>7. t = IF q THEN trace_new_instr(update(b), c) ELSE update(b)
  <2>1. q <=> is_ready(N)'
    BY <1>2, <1>3, <1>4
  <2>2. q => read(N)' = c
    BY <1>2, <1>3, <1>4, <1>5
  <2>3. t = IF is_ready(N)' THEN trace_new_instr(update(board'), read(N)') ELSE update(board')
    BY <1>6 DEF traced_board
  <2>4. b = board'
    BY <1>1, <1>5
  <2> QED
    BY <2>1, <2>2, <2>3, <2>4
<1>8. \A r \in Regs : /\ q /\ writes(c, r) => NewEntry(t.reg[r], c)
                      /\ ~(q /\ writes(c, r)) => t.reg[r] = updated(b.reg[r])
  BY <1>7, TracedEntry
<1>9. \A m, i : Sending(X, m, i) <=> q /\ m = n /\ i = c
  BY <1>4, <1>5 DEF Sending, Is
<1>10. /\ is_flush => \A r \in Regs : b.reg[r] = Untraced
       /\ ~is_flush => Shows(b)
  BY <1>1, <1>5 DEF Shadow
<1>11. \A m, i, s : Flies(m, i, s)' =>
          \/ s = 0 /\ q /\ m = n /\ i = c
          \/ ~is_flush /\ s \in Int /\ s > 0
  <2> SUFFICES ASSUME NEW m, NEW i, NEW s, Flies(m, i, s)'
               PROVE  \/ s = 0 /\ q /\ m = n /\ i = c
                      \/ ~is_flush /\ s \in Int /\ s > 0
    OBVIOUS
  <2>1. CASE s = 0 /\ Sending(X, m, i)
    BY <1>9, <2>1
  <2>2. CASE ~is_flush /\ \E r : Flies(m, i, r) /\ r # WB_STAGE /\ s = moves_to(r, i)
    <3>1. PICK r : Flies(m, i, r) /\ s = moves_to(r, i)
      BY <2>2
    <3>2. r \in 0..62 \/ r = 253 \/ r = 254
      BY <3>1, FlightStages, StageNumbers
    <3>3. next_stage(i).value \in 1..254
      BY NextStage, StageNumbers
    <3> QED
      BY <2>2, <3>1, <3>2, <3>3, StageNumbers DEF moves_to
  <2> QED
    BY <2>1, <2>2, NextFlight
<1>12. q => ~is_flush
  BY <1>1, <1>4 DEF Decodes, decoding, is_flush, has_flush, has_trap
<1>13. ASSUME NEW r \in Regs, NEW u, u = t.reg[r] PROVE IsEntry(u) /\ Shown(u, r)'
  <2>1. CASE q /\ writes(c, r)
    <3>1. /\ IsEntry(u) /\ u.current.value = 0 /\ u.next = next_stage(c) /\ u.is_traced = TRUE
      BY <1>8, <1>13, <2>1 DEF NewEntry, first_execution_stage, Stage
    <3>2. Flies(n, c, 0)'
      BY <1>9, <2>1, NextFlight
    <3>3. u.is_traced = (u.current.value # 255)
      <4>1. u.current.value # 255
        BY <3>1
      <4> QED
        BY <3>1, <4>1
    <3>4. \A m, i, s : Flies(m, i, s)' => u.current.value <= s
      BY <1>11, <3>1
    <3>5. \A m, i : Flies(m, i, 0)' => u.next = next_stage(i)
      BY <1>11, <3>1
    <3>6. \E m, i, s : Flies(m, i, s)' /\ writes(i, r) /\ s = u.current.value
      BY <2>1, <3>1, <3>2
    <3> QED
      BY <3>1, <3>3, <3>4, <3>5, <3>6 DEF Shown, IN_RF_STAGE
  <2>2. CASE ~(q /\ writes(c, r)) /\ ~is_flush
    <3>1. PICK e : e = b.reg[r]
      OBVIOUS
    <3>2. IsEntry(e) /\ Shown(e, r) /\ u = updated(e)
      BY <1>8, <1>10, <1>13, <2>2, <3>1 DEF Shows
    <3>3. \A m, i : Sending(X, m, i) => ~writes(i, r)
      BY <1>9, <2>2
    <3>4. Shown(u, r)'
      BY <2>2, <3>2, <3>3, ShownNext
    <3> QED
      BY <3>2, <3>4, UpdatedEntry
  <2>3. CASE is_flush
    <3>1. u = updated(Untraced)
      BY <1>8, <1>10, <1>12, <1>13, <2>3
    <3>2. Untraced.is_traced = FALSE /\ Untraced.current.value = 255
      BY DEF Untraced, Stage, IN_RF_STAGE
    <3>3. u = Untraced
      BY <3>1, <3>2 DEF updated
    <3>4. IsEntry(u) /\ u.is_traced = FALSE /\ u.current.value = 255
      <4>1. IsEntry(u)
        BY <3>3 DEF IsEntry, Untraced
      <4> QED
        BY <3>2, <3>3, <4>1
    <3>5. u.is_traced = (u.current.value # 255)
      BY <3>4
    <3>6. \A m, i, s : ~(Flies(m, i, s)' /\ writes(i, r))
      BY <1>11, <1>12, <2>3
    <3>7. u.current.value # 0 /\ ~(u.current.value # 255)
      BY <3>4
    <3> QED
      BY <3>4, <3>5, <3>6, <3>7 DEF Shown, IN_RF_STAGE
  <2> QED
    BY <2>1, <2>2, <2>3
<1>14. Shows(traced_board)'
  <2> SUFFICES ASSUME NEW r \in Regs
               PROVE  IsEntry(traced_board'.reg[r]) /\ Shown(traced_board.reg[r], r)'
    BY DEF Shows
  <2>1. PICK u : u = t.reg[r]
    OBVIOUS
  <2>2. IsEntry(u) /\ Shown(u, r)'
    BY <1>13, <2>1
  <2>3. u = traced_board'.reg[r]
    BY <1>6, <2>1
  <2>4. Shown(traced_board.reg[r], r)'
    BY <2>2, <2>3 DEF Shown
  <2> QED
    BY <2>2, <2>3, <2>4
<1> QED
  BY <1>1, <1>14 DEF Shadow


\* Decode writes back the scoreboard that it has brought up to date.
LEMMA ShadowDecode ==
    ASSUME Pipe, Carried, Shadow, decode_clock
    PROVE  Shadow'
<1>1. /\ phase = "decode" /\ phase' = "execute" /\ DecodeClock /\ IsWire(wire) /\ Exclusive
      /\ \A p \in Ports : PortFits(p, wire[p])
  BY DEF decode_clock, turn, Pipe, Timing, Wires, PortOK
<1>2. board' = board_now
  BY <1>1, DecodeSends
<1>3. /\ is_flush' <=> is_flush
      /\ ~is_flush => \A n, i, s : Flies(n, i, s)' <=> Flies(n, i, s)
  <2>1. stage_clock
    BY DEF stage_clock
  <2> QED
    BY <2>1, SameFlight
<1>4. is_flush <=> is_ready("BRANCH_2_BYPASSING_UNIT_FLUSH_NOTIFY") \/ has_trap
  BY <1>1 DEF Exclusive, is_flush, has_trap
<1>5. is_flush => \A r \in Regs : board'.reg[r] = Untraced
  <2>1. is_flush => board' = EmptyBoard
    BY <1>2, <1>4 DEF board_now, handle_flush
  <2> QED
    BY <2>1 DEF EmptyBoard
<1>6. ASSUME ~is_flush PROVE Shows(board)'
  <2>1. board' = traced_board
    BY <1>2, <1>4, <1>6 DEF board_now
  <2>2. Shows(traced_board)
    BY <1>1, <1>6 DEF Shadow
  <2>3. PICK b : b = traced_board
    OBVIOUS
  <2>4. b = board'
    BY <2>1, <2>3
  <2>5. ASSUME NEW r \in Regs PROVE IsEntry(b.reg[r]) /\ Shown(b.reg[r], r)'
    <3>1. PICK e : e = b.reg[r]
      OBVIOUS
    <3>2. IsEntry(e) /\ Shown(e, r)
      BY <2>2, <2>3, <3>1 DEF Shows
    <3>3. Shown(e, r)'
      BY <1>3, <1>6, <3>2 DEF Shown, IN_RF_STAGE
    <3> QED
      BY <3>1, <3>2, <3>3
  <2> SUFFICES ASSUME NEW r \in Regs
               PROVE  IsEntry(board'.reg[r]) /\ Shown(board.reg[r], r)'
    BY DEF Shows
  <2>6. PICK e : e = b.reg[r]
    OBVIOUS
  <2>7. IsEntry(e) /\ Shown(e, r)'
    BY <2>5, <2>6
  <2>8. e = board'.reg[r]
    BY <2>4, <2>6
  <2>9. Shown(board.reg[r], r)'
    BY <2>7, <2>8 DEF Shown
  <2> QED
    BY <2>7, <2>8, <2>9
<1> QED
  BY <1>1, <1>3, <1>5, <1>6 DEF Shadow

\* The other stages leave the scoreboard alone.
LEMMA ShadowStage ==
    ASSUME Pipe, Shadow, stage_clock, ~decode_clock
    PROVE  Shadow'
<1>1. /\ is_flush' <=> is_flush
      /\ ~is_flush => \A n, i, s : Flies(n, i, s)' <=> Flies(n, i, s)
  BY SameFlight
<1>2. /\ board' = board
      /\ \/ phase = "fetch" /\ phase' = "decode"
         \/ phase \notin {"fetch", "decode"} /\ phase' \notin {"fetch", "decode"}
  <2>1. phase' \in Phases
    BY StageClock
  <2> QED
    BY <2>1 DEF stage_clock, fetch_clock, execute_clock, mem_clock, branch_clock, writeback_clock, turn
<1>3. traced_board' = traced_board
  <2>1. "DECODE_2_BYPASSING_UNIT_NOTIFY" \in Ports
    BY NamedPorts, PortGroups
  <2>2. Later(wire, wire')
    BY StageClock
  <2> QED
    BY <1>2, <2>1, <2>2, SameReads DEF traced_board
<1>4. ASSUME ~is_flush, NEW e, NEW r, Shown(e, r) PROVE Shown(e, r)'
  BY <1>1, <1>4 DEF Shown, IN_RF_STAGE
<1>5. ASSUME ~is_flush, Shows(board) PROVE Shows(board)'
  <2> SUFFICES ASSUME NEW r \in Regs
               PROVE  IsEntry(board'.reg[r]) /\ Shown(board.reg[r], r)'
    BY DEF Shows
  <2>1. PICK e : e = board.reg[r]
    OBVIOUS
  <2>2. IsEntry(e) /\ Shown(e, r)
    BY <1>5, <2>1 DEF Shows
  <2>3. Shown(e, r)' /\ e = board'.reg[r]
    BY <1>2, <1>4, <1>5, <2>1, <2>2
  <2>4. Shown(board.reg[r], r)'
    BY <2>3 DEF Shown
  <2> QED
    BY <2>2, <2>3, <2>4
<1>6. ASSUME ~is_flush, Shows(traced_board) PROVE Shows(traced_board)'
  <2> SUFFICES ASSUME NEW r \in Regs
               PROVE  IsEntry(traced_board'.reg[r]) /\ Shown(traced_board.reg[r], r)'
    BY DEF Shows
  <2>1. PICK e : e = traced_board.reg[r]
    OBVIOUS
  <2>2. IsEntry(e) /\ Shown(e, r)
    BY <1>6, <2>1 DEF Shows
  <2>3. Shown(e, r)' /\ e = traced_board'.reg[r]
    BY <1>3, <1>4, <1>6, <2>1, <2>2
  <2>4. Shown(traced_board.reg[r], r)'
    BY <2>3 DEF Shown
  <2> QED
    BY <2>2, <2>3, <2>4
<1> QED
  BY <1>1, <1>2, <1>5, <1>6 DEF Shadow


LEMMA ShadowStep ==
    ASSUME Pipe, Carried, Moves, Order, Shadow, [Next]_vars
    PROVE  Shadow'
<1>1. CASE stage_clock
  BY <1>1, ShadowDecode, ShadowStage
<1>2. CASE core_clock
  BY <1>2, ShadowCore DEF Order
<1>3. CASE run \/ Done \/ UNCHANGED vars
  <2>1. /\ wire' = wire /\ phase' = phase /\ board' = board
        /\ flush_expiration_latency' = flush_expiration_latency
    BY <1>3 DEF run, Done, vars, stageVars
  <2>2. long_alu' = long_alu /\ (is_flush' <=> is_flush) /\ traced_board' = traced_board
        /\ \A p : (is_ready(p)' <=> is_ready(p)) /\ read(p)' = read(p)
    BY <2>1 DEF long_alu, is_flush, is_ready, read, traced_board
  <2>3. \A n, i, s : Flies(n, i, s)' <=> Flies(n, i, s)
    BY <2>1, <2>2 DEF Flies, InExecute, FliesFrom, in_alu, Is, last_execution_stage,
       MEM_OR_BRANCH_STAGE, WB_STAGE
  <2>4. Shows(board)' <=> Shows(board)
    BY <2>1, <2>3 DEF Shows, Shown, IN_RF_STAGE
  <2>5. Shows(traced_board)' <=> Shows(traced_board)
    BY <2>2, <2>3 DEF Shows, Shown, IN_RF_STAGE
  <2> QED
    BY <2>1, <2>2, <2>4, <2>5 DEF Shadow
<1> QED
  BY <1>1, <1>2, <1>3 DEF Next, clock, stage_clock

LEMMA ShadowInit ==
    ASSUME Init
    PROVE  Shadow
<1>1. phase = "fetch" /\ board = EmptyBoard
  BY DEF Init
<1>2. \A n, i, s : ~Flies(n, i, s)
  BY NothingFlies
<1>3. ~is_ready("DECODE_2_BYPASSING_UNIT_NOTIFY")
  BY InitWires, NamedPorts, PortGroups
<1>4. PICK b : b = traced_board
  OBVIOUS
<1>5. b = update(EmptyBoard)
  BY <1>1, <1>3, <1>4 DEF traced_board
<1>6. \A r \in Regs : b.reg[r] = updated(Untraced)
  <2> DEFINE f == [r \in Regs |-> updated(EmptyBoard.reg[r])]
  <2>1. b.reg = f
    BY <1>5 DEF update
  <2>2. \A r \in Regs : EmptyBoard.reg[r] = Untraced
    BY DEF EmptyBoard
  <2> QED
    BY <2>1, <2>2
<1>7. ASSUME NEW r \in Regs PROVE IsEntry(b.reg[r]) /\ Shown(b.reg[r], r)
  BY <1>2, <1>6, ShownEmpty
<1>8. Shows(b)
  BY <1>7 DEF Shows
<1> QED
  BY <1>1, <1>4, <1>8 DEF Shadow


\* What ScoreboardFollows looks at is the flight.
LEMMA InFlight ==
    ASSUME Pipe, phase = "execute"
    PROVE  /\ \A w \in in_flight : Flies(w.in.seq, w.in.code, w.stage)
           /\ \A n, i, s : Flies(n, i, s) =>
                 \E w \in in_flight : w.in.seq = n /\ w.in.code = i /\ w.stage = s
<1> DEFINE last == last_execution_stage
           record(d, s) == [in |-> d, stage |-> s]
           X == "DECODE_2_EXECUTE"
           M == "EXECUTE_2_MEMORY"
           B == "EXECUTE_2_BRANCH"
           E == "EXECUTE_2_WRITEBACK"
           MW == "MEMORY_2_WRITEBACK"
           BW == "BRANCH_2_WRITEBACK"
<1>1. /\ OnWire(long_alu)
      /\ \A k \in 1..Len(long_alu) : long_alu[k].left \in Nat /\ long_alu[k].left < last
  BY AluPackets DEF LatePhases
<1>2. \A k \in 1..Len(long_alu) : in_alu(k) <=> flush_expiration_latency <= long_alu[k].left + 1
  BY <1>1 DEF in_alu, LatePhases
<1>3. \A w : w \in in_long_alu <=>
         \E k \in 1..Len(long_alu) : in_alu(k) /\ w = record(long_alu[k].data, last - long_alu[k].left)
  <2>1. Range(long_alu) = {long_alu[k] : k \in 1..Len(long_alu)}
    <3>1. PICK D : long_alu \in Seq(Packets(D))
      BY <1>1 DEF OnWire
    <3>2. DOMAIN long_alu = 1..Len(long_alu)
      BY <3>1
    <3> QED
      BY <3>2 DEF Range
  <2>2. in_long_alu = {record(e.data, last - e.left) :
           e \in {x \in Range(long_alu) : flush_expiration_latency <= x.left + 1}}
    BY DEF in_long_alu, long_alu
  <2> HIDE DEF record, last
  <2> QED
    BY <1>2, <2>1, <2>2
<1>4. \A w : w \in in_flight <=>
         \/ is_ready(X) /\ w = record(read(X), 0)
         \/ w \in in_long_alu
         \/ is_ready(M) /\ w = record(read(M), MEM_OR_BRANCH_STAGE)
         \/ is_ready(B) /\ w = record(read(B), MEM_OR_BRANCH_STAGE)
         \/ is_ready(E) /\ w = record(read(E), WB_STAGE)
         \/ is_ready(MW) /\ w = record(read(MW), WB_STAGE)
         \/ is_ready(BW) /\ w = record(read(BW), WB_STAGE)
  <2>1. \A p, s, w : w \in ready_at(p, s) <=> is_ready(p) /\ w = record(read(p), s)
    BY DEF ready_at
  <2>2. \A w : w \in UNION {ready_at(p, WB_STAGE) : p \in {E, MW, BW}}
               <=> w \in ready_at(E, WB_STAGE) \/ w \in ready_at(MW, WB_STAGE) \/ w \in ready_at(BW, WB_STAGE)
    <3> HIDE DEF E, MW, BW
    <3> QED
      OBVIOUS
  <2>3. \A w : w \in in_flight <=>
           \/ w \in ready_at(X, 0)
           \/ w \in in_long_alu
           \/ w \in ready_at(M, MEM_OR_BRANCH_STAGE)
           \/ w \in ready_at(B, MEM_OR_BRANCH_STAGE)
           \/ w \in UNION {ready_at(p, WB_STAGE) : p \in {E, MW, BW}}
    BY DEF in_flight
  <2> HIDE DEF record
  <2> QED
    BY <2>1, <2>2, <2>3
<1>5. \A d, s : record(d, s).in = d /\ record(d, s).stage = s
  OBVIOUS
<1> HIDE DEF record, last
<1>6. ASSUME NEW w \in in_flight PROVE Flies(w.in.seq, w.in.code, w.stage)
  <2>1. CASE w \in in_long_alu
    <3>1. PICK k \in 1..Len(long_alu) : in_alu(k) /\ w = record(long_alu[k].data, last - long_alu[k].left)
      BY <1>3, <2>1
    <3>2. w.in = long_alu[k].data /\ w.stage = last - long_alu[k].left
      BY <1>5, <3>1
    <3> QED
      BY <3>1, <3>2 DEF Flies, InExecute, Is, last
  <2>2. CASE w \notin in_long_alu
    <3>1. \/ is_ready(X) /\ w.in = read(X) /\ w.stage = 0
          \/ is_ready(M) /\ w.in = read(M) /\ w.stage = MEM_OR_BRANCH_STAGE
          \/ is_ready(B) /\ w.in = read(B) /\ w.stage = MEM_OR_BRANCH_STAGE
          \/ is_ready(E) /\ w.in = read(E) /\ w.stage = WB_STAGE
          \/ is_ready(MW) /\ w.in = read(MW) /\ w.stage = WB_STAGE
          \/ is_ready(BW) /\ w.in = read(BW) /\ w.stage = WB_STAGE
      BY <1>4, <1>5, <1>6, <2>2
    <3> QED
      BY <3>1 DEF Flies, InExecute, FliesFrom, Is
  <2> QED
    BY <2>1, <2>2
<1>7. ASSUME NEW n, NEW i, NEW s, Flies(n, i, s)
      PROVE  \E w \in in_flight : w.in.seq = n /\ w.in.code = i /\ w.stage = s
  <2>1. CASE \E k \in 1..Len(long_alu) :
               in_alu(k) /\ s = last - long_alu[k].left /\ Is(long_alu[k].data, n, i)
    <3>1. PICK k \in 1..Len(long_alu) :
               in_alu(k) /\ s = last - long_alu[k].left /\ Is(long_alu[k].data, n, i)
      BY <2>1
    <3>2. PICK w : w = record(long_alu[k].data, last - long_alu[k].left)
      OBVIOUS
    <3>3. w \in in_flight
      BY <1>3, <1>4, <3>1, <3>2
    <3>4. w.in = long_alu[k].data /\ w.stage = s
      BY <1>5, <3>1, <3>2
    <3> QED
      BY <3>1, <3>3, <3>4 DEF Is
  <2>2. ASSUME NEW d, Is(d, n, i), record(d, s) \in in_flight
        PROVE  \E w \in in_flight : w.in.seq = n /\ w.in.code = i /\ w.stage = s
    <3>1. PICK w : w = record(d, s)
      OBVIOUS
    <3>2. w.in = d /\ w.stage = s /\ w \in in_flight
      BY <1>5, <2>2, <3>1
    <3> QED
      BY <2>2, <3>2 DEF Is
  <2>3. CASE \/ s = 0 /\ FliesFrom(X, n, i)
             \/ s = MEM_OR_BRANCH_STAGE /\ (FliesFrom(M, n, i) \/ FliesFrom(B, n, i))
             \/ s = WB_STAGE /\ (FliesFrom(E, n, i) \/ FliesFrom(MW, n, i) \/ FliesFrom(BW, n, i))
    <3>1. \E d : Is(d, n, i) /\ record(d, s) \in in_flight
      BY <1>4, <2>3 DEF FliesFrom
    <3> QED
      BY <2>2, <3>1
  <2> QED
    BY <1>7, <2>1, <2>3 DEF Flies, InExecute, last
<1> QED
  BY <1>6, <1>7

\* The destinations of an instruction.
LEMMA Destinations ==
    ASSUME NEW i \in Codes, NEW r
    PROVE  r \in Range(i.dst) <=> writes(i, r)
<1>1. i.dst \in (Regs \cup {"zero"}) \X (Regs \cup {"zero"})
  <2>1. CASE i \in Alphabet
    BY <2>1, FetchAssumption
  <2>2. CASE i = Nop
    BY <2>2 DEF Nop
  <2> QED
    BY <2>1, <2>2 DEF Codes
<1>2. PICK a, b \in Regs \cup {"zero"} : i.dst = <<a, b>>
  BY <1>1
<1>3. Range(i.dst) = {a, b}
  <2>1. DOMAIN <<a, b>> = {1, 2}
    OBVIOUS
  <2> QED
    BY <1>2, <2>1 DEF Range
<1> QED
  BY <1>2, <1>3 DEF writes


LEMMA Follow ==
    ASSUME Pipe, Carried, InOrder, Shadow
    PROVE  ScoreboardFollows
<1> SUFFICES ASSUME phase = "execute", ~is_flush, NEW r \in Regs
             PROVE  LET writers == {w \in in_flight : r \in Range(w.in.code.dst)}
                    IN  board.reg[r].current.value =
                          IF writers = {} THEN IN_RF_STAGE
                          ELSE (CHOOSE w \in writers : \A x \in writers : x.in.seq <= w.in.seq).stage
  BY DEF ScoreboardFollows
<1> DEFINE W == {w \in in_flight : r \in Range(w.in.code.dst)}
<1>1. PICK e, v : e = board.reg[r] /\ v = e.current.value
  OBVIOUS
<1>2. Shown(e, r)
  BY <1>1 DEF Shadow, Shows
<1>3. /\ \A n, i, s : Flies(n, i, s) /\ writes(i, r) => v <= s
      /\ v # 255 => \E n, i, s : Flies(n, i, s) /\ writes(i, r) /\ s = v
  BY <1>1, <1>2 DEF Shown, IN_RF_STAGE
<1>4. \A n, i, s : Flies(n, i, s) => n \in Int /\ i \in Codes /\ s \in 0..254
  BY FlightKnown, FlightStages, StageNumbers
<1>5. \A w \in W : /\ Flies(w.in.seq, w.in.code, w.stage) /\ writes(w.in.code, r)
                   /\ v <= w.stage /\ w.in.seq \in Int /\ w.stage \in 0..254
  BY <1>3, <1>4, InFlight, Destinations
<1>6. CASE v = 255
  <2>1. W = {}
    BY <1>5, <1>6
  <2> HIDE DEF W
  <2>2. v = IF W = {} THEN IN_RF_STAGE ELSE (CHOOSE w \in W : \A x \in W : x.in.seq <= w.in.seq).stage
    BY <1>6, <2>1 DEF IN_RF_STAGE
  <2> QED
    BY <1>1, <2>2 DEF W
<1>7. CASE v # 255
  <2>1. PICK n, i : Flies(n, i, v) /\ writes(i, r)
    BY <1>3, <1>7
  <2>2. PICK y \in in_flight : y.in.seq = n /\ y.in.code = i /\ y.stage = v
    BY <2>1, InFlight
  <2>3. y \in W
    BY <1>4, <2>1, <2>2, Destinations
  <2> HIDE DEF W
  <2>4. \A x \in W : v < x.stage => x.in.seq < n
    BY <1>5, <2>1 DEF InOrder
  <2>5. \A x \in W : x.stage = v => x.in.seq = n
    BY <1>5, <2>1, FlightUnique
  <2>6. v \in 0..254 /\ n \in Int
    BY <1>4, <2>1
  <2>7. \A x \in W : x.in.seq <= y.in.seq
    BY <1>5, <2>2, <2>4, <2>5, <2>6
  <2>8. ASSUME NEW w \in W, \A x \in W : x.in.seq <= w.in.seq PROVE w.stage = v
    <3>1. n <= w.in.seq
      BY <2>2, <2>3, <2>8
    <3>2. ~(v < w.stage)
      BY <1>5, <2>4, <2>6, <3>1
    <3>3. v <= w.stage /\ w.stage \in 0..254
      BY <1>5
    <3> QED
      BY <2>6, <3>2, <3>3
  <2> DEFINE c == CHOOSE w \in W : \A x \in W : x.in.seq <= w.in.seq
  <2>9. c.stage = v
    <3>1. \E w \in W : \A x \in W : x.in.seq <= w.in.seq
      BY <2>3, <2>7
    <3>2. c \in W /\ \A x \in W : x.in.seq <= c.in.seq
      BY <3>1
    <3> HIDE DEF c
    <3> QED
      BY <2>8, <3>2
  <2>10. v = IF W = {} THEN IN_RF_STAGE ELSE c.stage
    BY <2>3, <2>9
  <2> QED
    BY <1>1, <2>10 DEF W
<1> QED
  BY <1>6, <1>7

\* What the pipeline keeps from cycle to cycle.
Flight == Pipe /\ MissHeld /\ Retirement /\ Carried /\ Moves /\ Order /\ Shadow

LEMMA FlightAlways == Spec => []Flight
<1>1. Pipe => EarlyApart
  BY ApartEarly
<1>2. Spec => []Pipe
  BY PipeAlways
<1>3. Spec => []EarlyApart
  BY <1>1, <1>2, PTL
<1>4. Init => Flight
  BY InitPipe, MissInit, RetirementInit, CarriedInit, MovesInit, OrderInit, ShadowInit DEF Flight
<1>5. Flight /\ [Next]_vars /\ EarlyApart' => Flight'
  BY PipeStep, MissStep, RetirementStep, CarriedStep, MovesStep, OrderStep, ShadowStep DEF Flight
<1> QED
  BY <1>3, <1>4, <1>5, PTL DEF Spec

\* Instructions in flight keep the program order from execute to writeback,
\* for every program and every latency: of two stages the later one has the
\* older instruction, the long ALU included.
THEOREM PerfSimInOrder == Spec => []InOrder
<1>1. Flight => InOrder
  BY DEF Flight, Order
<1> QED
  BY <1>1, FlightAlways, PTL

\* After every decode without a flush the scoreboard of the bypassing unit has
\* each register at the stage of the youngest instruction in flight that
\* writes it, and in the register file if there is none.
THEOREM PerfSimScoreboard == Spec => []ScoreboardFollows
<1>1. Flight => ScoreboardFollows
  BY Follow DEF Flight, Order
<1> QED
  BY <1>1, FlightAlways, PTL
=============================================================================
