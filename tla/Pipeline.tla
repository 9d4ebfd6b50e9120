----------------------------- MODULE Pipeline -----------------------------
(***************************************************************************)
(* What the stages of the pipeline share: the ports between them, the      *)
(* register file and the program.  A port is what module DelayLine         *)
(* promises: a datum written in a cycle can be read after the latency of   *)
(* the port, in that cycle only, by every reader.  wire[p] holds what      *)
(* travels on p, oldest first; left counts the cycles to go.               *)
(***************************************************************************)
EXTENDS Instruction

CONSTANT LONG_LATENCY \* Port::LONG_LATENCY: the time of an instruction cache miss

ASSUME LatencyAssumption == LONG_LATENCY \in Nat \ {0}

VARIABLES
    wire, \* wire[p]: what travels on port p
    rf,   \* the register file: decode reads it, writeback writes it
    prog  \* the program; an address that was never fetched holds Unread

Unread == [Nop EXCEPT !.op = "OUT_UNKNOWN"]

\* The ports, by the stage that writes them.
fetch_ports ==
    {"HOLD_PC", "TARGET", "HIT_OR_MISS", "LONG_LATENCY_PC_HOLDER", "FETCH_2_DECODE"}
decode_ports ==
    {"DECODE_2_FETCH", "DECODE_2_FETCH_FLUSH", "DECODE_2_FETCH_TARGET", "DECODE_2_FETCH_STALL",
     "DECODE_2_DECODE", "DECODE_2_EXECUTE_SRC1_COMMAND", "DECODE_2_EXECUTE_SRC2_COMMAND",
     "DECODE_2_BYPASSING_UNIT_NOTIFY", "DECODE_2_EXECUTE"}
execute_ports ==
    {"EXECUTE_2_EXECUTE_LONG_LATENCY", "EXECUTE_2_EXECUTE_BYPASS",
     "EXECUTE_COMPLEX_ALU_2_EXECUTE_BYPASS", "EXECUTE_2_MEMORY", "EXECUTE_2_BRANCH",
     "EXECUTE_2_WRITEBACK"}
mem_ports == {"MEMORY_2_EXECUTE_BYPASS", "MEMORY_2_WRITEBACK"}
branch_ports ==
    {"BRANCH_2_FETCH", "BRANCH_2_ALL_FLUSH", "BRANCH_2_BYPASSING_UNIT_FLUSH_NOTIFY",
     "BRANCH_2_FETCH_TARGET", "BRANCH_2_EXECUTE_BYPASS", "BRANCH_2_WRITEBACK"}
writeback_ports ==
    {"WRITEBACK_2_EXECUTE_BYPASS", "WRITEBACK_2_CORE_HALT", "WRITEBACK_2_ALL_FLUSH",
     "WRITEBACK_2_FETCH_TARGET"}
Ports == fetch_ports \cup decode_ports \cup execute_ports \cup mem_ports \cup branch_ports
         \cup writeback_ports

latency(p) ==
    CASE p = "EXECUTE_2_EXECUTE_LONG_LATENCY" -> long_alu_latency - 1
      [] p = "LONG_LATENCY_PC_HOLDER" -> LONG_LATENCY
      [] OTHER -> 1

is_ready(p) == wire[p] # <<>> /\ wire[p][1].left = 0
read(p) == wire[p][1].data

\* while ( port->is_ready( cycle)) data = port->read( cycle): the last one.
read_last(p) ==
    LET here == SelectSeq(wire[p], LAMBDA e : e.left = 0) IN here[Len(here)].data

\* The wires w after data is written to port p; m is the pair of both.
basic_write(w, p, data) == [w EXCEPT ![p] = Append(@, [left |-> latency(p), data |-> data])]
w ++ m == basic_write(w, m[1], m[2])

\* The write m, if the condition holds.
write_if(cond, w, m) == IF cond THEN w ++ m ELSE w

\* The next cycle: what nobody read is lost, the rest comes one cycle closer.
arrived(s) ==
    CHOOSE n \in 0..Len(s) :
        /\ \A k \in 1..n : s[k].left = 0
        /\ n < Len(s) => s[n + 1].left > 0
in_transit(s) ==
    LET n == arrived(s) IN [k \in 1..(Len(s) - n) |-> [s[n + k] EXCEPT !.left = @ - 1]]
tick ==
    wire' = [p \in Ports |-> in_transit(wire[p])]

\* Two data written to the same port in the same cycle: more than Port::BW.
port_clash == \E p \in Ports : \E j, k \in DOMAIN wire[p] :
                 j # k /\ wire[p][j].left = wire[p][k].left
=============================================================================
