----------------------------- MODULE Predictor -----------------------------
(***************************************************************************)
(* The branch predictor: BP of modules/fetch/bpu/bpu.cpp over the entries  *)
(* of bpentry.h, in all six modes.  Its branch target buffer is one set of *)
(* a tag array, TagSet, next to which every way has a direction and a      *)
(* target.  The fetch stage asks get_bp_info of any address at any time;   *)
(* the branch stage sends updates.                                         *)
(***************************************************************************)
EXTENDS Integers, Sequences

CONSTANTS
    ways, Policies, Tags, NoTag, \* of TagSet; a tag stands for a branch at address 16 * tag
    Modes,    \* the modes that are created
    DEPTH,    \* of BPEntryAdaptive: 2 in the code
    Targets,  \* the targets of updates
    Window    \* bound: the outcomes of a branch that the properties look at

ASSUME PredictorAssumption ==
    /\ Modes \subseteq {"always_taken", "always_not_taken", "backward_jumps",
                        "saturating_one_bit", "saturating_two_bits", "adaptive_two_levels"}
    /\ DEPTH \in Nat \ {0} /\ Window \in Nat /\ Window > 3
    /\ Tags \subseteq Nat /\ Targets \subseteq Nat /\ NoTag \notin Tags
    /\ ways \in Nat \ {0} /\ Policies \subseteq {"LRU", "pseudo-LRU"}
    /\ "pseudo-LRU" \in Policies => \E k \in 0..ways : 2^k = ways

VARIABLES
    policy, tags, lookup_helper, replacement_info, accesses, \* of TagSet
    mode,
    directions, \* way -> entry
    targets,    \* way -> address
    history     \* tag in the buffer -> [outcomes, target] since it entered

btb == <<policy, tags, lookup_helper, replacement_info, accesses>>
vars == <<btb, mode, directions, targets, history>>

B == INSTANCE TagSet WITH Careful <- TRUE

address(t) == 16 * t

(* BPEntryTwoBit::State *)

default_value == 1 \* WNT
two_bit_update(v, taken) ==
    IF taken THEN (IF v < 3 THEN v + 1 ELSE 3) ELSE (IF v > 0 THEN v - 1 ELSE 0)
two_bit_is_taken(v) == v >= 2

(* Entries: their state, is_taken, update and reset *)

\* The number of patterns of k outcomes, bitmask( k) + 1.
patterns[k \in 0..DEPTH] == IF k = 0 THEN 1 ELSE 2 * patterns[k - 1]

reset ==
    CASE mode = "saturating_one_bit"  -> 0
      [] mode = "saturating_two_bits" -> default_value
      [] mode = "adaptive_two_levels" ->
            [state_table |-> [p \in 0..(patterns[DEPTH] - 1) |-> default_value], pattern |-> 0]
      [] OTHER -> 0

entry_is_taken(e, PC, target) ==
    CASE mode = "always_taken"        -> TRUE
      [] mode = "always_not_taken"    -> FALSE
      [] mode = "backward_jumps"      -> target < PC
      [] mode = "saturating_one_bit"  -> e = 1
      [] mode = "saturating_two_bits" -> two_bit_is_taken(e)
      [] mode = "adaptive_two_levels" -> two_bit_is_taken(e.state_table[e.pattern])

pattern_update(p, taken) == ((2 * p) % patterns[DEPTH]) + (IF taken THEN 1 ELSE 0)

\* (Mutant: the state after the new pattern is updated, not the one it was predicted with.)
entry_update_late(e, taken) ==
    CASE mode = "saturating_one_bit"  -> IF taken THEN 1 ELSE 0
      [] mode = "saturating_two_bits" -> two_bit_update(e, taken)
      [] mode = "adaptive_two_levels" ->
            LET p == pattern_update(e.pattern, taken) IN
            [state_table |-> [e.state_table EXCEPT ![p] = two_bit_update(@, taken)], pattern |-> p]
      [] OTHER -> e
entry_update(e, taken) ==
    CASE mode = "saturating_one_bit"  -> IF taken THEN 1 ELSE 0
      [] mode = "saturating_two_bits" -> two_bit_update(e, taken)
      [] mode = "adaptive_two_levels" ->
            [state_table |-> [e.state_table EXCEPT ![e.pattern] = two_bit_update(@, taken)],
             pattern |-> pattern_update(e.pattern, taken)]
      [] OTHER -> e

(* BP: predictions do not touch the replacement information *)

is_hit(t) == B!read_no_touch(t)
is_taken(t) ==
    is_hit(t) /\ entry_is_taken(directions[lookup_helper[t]], address(t), targets[lookup_helper[t]])

\* (Mutant: the target of a hit is given whatever the direction.)
get_target_of_hit(t) == IF is_hit(t) THEN targets[lookup_helper[t]] ELSE address(t) + 4
get_target(t) == IF is_taken(t) THEN targets[lookup_helper[t]] ELSE address(t) + 4

get_bp_info(t) ==
    IF is_hit(t) THEN [is_taken |-> is_taken(t), target |-> get_target(t), is_hit |-> TRUE]
    ELSE [is_taken |-> FALSE, target |-> address(t) + 4, is_hit |-> FALSE]

-----------------------------------------------------------------------------

Init ==
    /\ B!Init
    /\ mode \in Modes
    /\ directions = [w \in 0..(ways - 1) |-> reset]
    /\ targets = [w \in 0..(ways - 1) |-> 0]
    /\ history = [t \in {} |-> <<>>]

entry_on_miss(w) == reset

Latest(s) == SubSeq(s, IF Len(s) > Window THEN Len(s) - Window + 1 ELSE 1, Len(s))

update(t, taken, target) ==
    LET w == IF is_hit(t) THEN lookup_helper[t] ELSE B!victim(policy, replacement_info)
        e == IF is_hit(t) THEN directions[w] ELSE entry_on_miss(w)
        h == IF is_hit(t) THEN history[t].outcomes ELSE <<>>
        held == {tags[v] : v \in (0..(ways - 1)) \ {w}} \ {NoTag}
    IN
    /\ IF is_hit(t) THEN B!Read(t) ELSE B!Write(t)
    /\ directions' = [directions EXCEPT ![w] = entry_update(e, taken)]
    /\ targets' = [targets EXCEPT ![w] = target]
    /\ history' = [x \in held \union {t} |->
          IF x = t THEN [outcomes |-> Latest(Append(h, taken)), target |-> target] ELSE history[x]]
    /\ UNCHANGED mode

Next == \E t \in Tags, taken \in BOOLEAN, target \in Targets : update(t, taken, target)

Spec == Init /\ [][Next]_vars

-----------------------------------------------------------------------------
(* Properties *)

\* The outcomes of a branch at which the depth ones before were those it has now;
\* before a branch entered the buffer it counts as not taken.
Alike(outcomes, depth) ==
    LET n == Len(outcomes)
        at(i) == IF i < 1 THEN FALSE ELSE outcomes[i]
    IN  {i \in 1..n : (n < Window \/ i > depth) /\ \A k \in 1..depth : at(i - k) = at(n + 1 - k)}

\* N are the last members of S.
Newest(N, S) == N \subseteq S /\ \A x \in S : x \in N \/ \A y \in N : x < y

\* The prediction for a branch in the buffer is a matter of its own outcomes
\* since it entered: one bit repeats the last one; two bits, and in the adaptive
\* mode two bits for what followed the same pattern, repeat what happened twice in
\* a row, or once if nothing else is known, and need two outcomes to be turned
\* when three went one way.
PredictsOwnHistory ==
    \A t \in DOMAIN history :
        LET outcomes == history[t].outcomes
            all == Len(outcomes) < Window
            S == Alike(outcomes, IF mode = "adaptive_two_levels" THEN DEPTH ELSE 0)
        IN  /\ is_hit(t)
            /\ mode = "saturating_one_bit" => is_taken(t) = outcomes[Len(outcomes)]
            /\ mode \in {"saturating_two_bits", "adaptive_two_levels"} =>
                 /\ all /\ S = {} => ~is_taken(t)
                 /\ all => \A i \in S : S = {i} => is_taken(t) = outcomes[i]
                 /\ \A i, j \in S : i < j /\ outcomes[i] = outcomes[j] =>
                       /\ Newest({i, j}, S) => is_taken(t) = outcomes[j]
                       /\ \A k, l \in S :
                             j < k /\ k < l /\ Newest({i, j, k, l}, S) /\ outcomes[j] = outcomes[k]
                               => is_taken(t) = outcomes[k]

\* What the fetch stage gets is coherent: the address that follows unless the
\* branch is predicted taken, and then the target of the last update of this
\* very branch; the unconditional modes and backward_jumps go by that target.
CoherentPrediction ==
    \A t \in Tags :
        LET i == get_bp_info(t) IN
        /\ i.is_hit = (t \in DOMAIN history)
        /\ i.target = IF i.is_taken THEN history[t].target ELSE address(t) + 4
        /\ i.is_hit /\ mode = "backward_jumps" => i.is_taken = (history[t].target < address(t))

=============================================================================
