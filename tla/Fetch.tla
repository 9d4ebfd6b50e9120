------------------------------- MODULE Fetch -------------------------------
(***************************************************************************)
(* The fetch stage (modules/fetch/fetch.cpp) with its branch predictor and *)
(* the tags of its instruction cache.  The predictor is abstracted to a    *)
(* map from trained jumps to targets: the direction it predicts for them   *)
(* and the entry it evicts are free, which covers every bp-mode and every  *)
(* replacement policy.  The tags are a set of lines with a free victim.    *)
(***************************************************************************)
EXTENDS Pipeline, FiniteSets

CONSTANTS
    Alphabet,        \* the static instructions that a program is made of
    ProgramLength,   \* bound: instructions of a program that are not Nop
    prefetch_method, \* "no-prefetch", "next-line" or "wrong-path"
    line_size,       \* instructions in a line of the instruction cache
    fetchahead,      \* distance from the end of a line that triggers a prefetch
    CacheLines,      \* capacity of the instruction cache, in lines
    BTBSize          \* capacity of the branch target buffer

ASSUME FetchAssumption ==
    /\ prefetch_method \in {"no-prefetch", "next-line", "wrong-path"}
    /\ {ProgramLength, line_size, CacheLines, BTBSize} \subseteq Nat \ {0}
    /\ fetchahead \in 0..line_size
    /\ \A i \in Alphabet : i.dst \in (Regs \cup {"zero"}) \X (Regs \cup {"zero"})

VARIABLES
    btb,          \* pc -> target of every jump that the predictor knows
    tags,         \* the lines in the instruction cache
    is_wrong_path

fetchVars == <<btb, tags, is_wrong_path>>

Line(a) == a \div line_size

\* What a full or a conflicting set makes room with: at most one old entry.
evictions(entries, capacity) ==
    {v \in SUBSET entries : Cardinality(v) <= 1 /\ Cardinality(entries \ v) < capacity}

\* (Mutant: the line is not written.)
tags_unchanged(t, l) == {t}

\* CacheTagArray::write of a line that is not there.
tags_with(t, l) == {(t \ v) \cup {l} : v \in evictions(t, CacheLines)}

\* BP::update
btb_with(b, u) ==
    {[p \in (DOMAIN b \ v) \cup {u.pc} |-> IF p = u.pc THEN u.target ELSE b[p]] :
        v \in IF u.pc \in DOMAIN b THEN {{}} ELSE evictions(DOMAIN b, BTBSize)}

\* clock_bp: the update of the branch stage, then the one of decode.
btb_after(bs, p) ==
    IF is_ready(p) THEN UNION {btb_with(b, read(p)) : b \in bs} ELSE bs
clock_bp == btb' \in btb_after(btb_after({btb}, "BRANCH_2_FETCH"), "DECODE_2_FETCH")

\* BaseBP::get_bp_info, by the predictor as clock_bp leaves it.
get_bp_info(pc) ==
    LET known == pc \in DOMAIN btb'
    IN  {[is_hit |-> known, is_taken |-> t, target |-> IF t THEN btb'[pc] ELSE After(pc, 1)] :
            t \in IF known THEN BOOLEAN ELSE {FALSE}}

\* get_target: the ports that offer a target, by priority.
is_stalled == is_ready("DECODE_2_FETCH_STALL")
offered(p) == IF is_ready(p) THEN <<p>> ELSE <<>>
predicted == IF is_stalled THEN <<>> ELSE offered("TARGET")
\* (Mutant: the held address is forgotten.)
target_ports_without_hold ==
    offered("WRITEBACK_2_FETCH_TARGET") \o offered("BRANCH_2_FETCH_TARGET")
    \o offered("DECODE_2_FETCH_TARGET") \o predicted
target_ports ==
    offered("WRITEBACK_2_FETCH_TARGET") \o offered("BRANCH_2_FETCH_TARGET")
    \o offered("DECODE_2_FETCH_TARGET") \o predicted \o offered("HOLD_PC")
get_target == read(target_ports[1])

\* A misprediction found by decode brings the other path into the cache.
on_wrong_path == prefetch_method = "wrong-path" /\ target_ports[1] = "DECODE_2_FETCH_TARGET"
get_target_tags ==
    IF on_wrong_path /\ Line(get_target.address) \notin tags
    THEN tags_with(tags, Line(get_target.address)) ELSE {tags}
set_wrong_path ==
    is_wrong_path' = IF prefetch_method # "wrong-path" THEN is_wrong_path
                     ELSE target_ports # <<>> /\ on_wrong_path

\* save_flush: what must be fetched when the miss is over.
save_flush_ports ==
    offered("BRANCH_2_FETCH_TARGET") \o offered("DECODE_2_FETCH_TARGET")
    \o offered("TARGET") \o offered("WRITEBACK_2_FETCH_TARGET")
\* (Mutant: only the target of decode is saved.)
save_decode_flush(w) ==
    IF is_ready("DECODE_2_FETCH_TARGET")
    THEN w ++ <<"TARGET", read("DECODE_2_FETCH_TARGET")>> ELSE w
save_flush(w) ==
    IF save_flush_ports = <<>> THEN w ELSE w ++ <<"TARGET", read(save_flush_ports[1])>>

\* The instruction at an address, chosen when it is fetched for the first time.
fetch_instr(pc) ==
    CASE pc = Junk -> {Nop}
      [] pc \in Addr /\ prog[pc] # Unread -> {prog[pc]}
      [] OTHER -> IF Cardinality({a \in Addr : prog[a] # Unread}) < ProgramLength
                  THEN Alphabet ELSE {Nop}

\* prefetch_next_line
next_line(a) == Line(After(a, line_size))
prefetch_tags(t, a) ==
    IF /\ prefetch_method # "no-prefetch" /\ ~is_wrong_path'
       /\ a % line_size >= line_size - fetchahead
       /\ next_line(a) \notin t
    THEN tags_with(t, next_line(a)) ELSE {t}

-----------------------------------------------------------------------------

\* A miss is served: the flush is saved and the line comes or does not.
FetchInMiss ==
    /\ is_ready("HIT_OR_MISS")
    /\ clock_bp
    /\ IF is_ready("LONG_LATENCY_PC_HOLDER")
       THEN LET t == read("LONG_LATENCY_PC_HOLDER") IN
            /\ tags' \in tags_with(tags, Line(t.address))
            /\ wire' = save_flush(wire) ++ <<"HOLD_PC", t>>
       ELSE /\ wire' = save_flush(wire) ++ <<"HIT_OR_MISS", FALSE>>
            /\ UNCHANGED tags
    /\ UNCHANGED <<rf, prog, is_wrong_path>>

\* Nothing to fetch.
FetchBubble ==
    /\ ~is_ready("HIT_OR_MISS")
    /\ target_ports = <<>>
    /\ clock_bp
    /\ set_wrong_path
    /\ UNCHANGED <<wire, rf, prog, tags>>

\* (Mutant: the lookup precedes the prefetch of the wrong path.)
FetchMissStale ==
    /\ ~is_ready("HIT_OR_MISS")
    /\ target_ports # <<>>
    /\ clock_bp
    /\ set_wrong_path
    /\ tags' \in get_target_tags
    /\ Line(get_target.address) \notin tags
    /\ wire' = wire ++ <<"HIT_OR_MISS", FALSE>> ++ <<"LONG_LATENCY_PC_HOLDER", get_target>>
    /\ UNCHANGED <<rf, prog>>

\* The target is not in the cache.
FetchMiss ==
    /\ ~is_ready("HIT_OR_MISS")
    /\ target_ports # <<>>
    /\ clock_bp
    /\ set_wrong_path
    /\ tags' \in get_target_tags
    /\ Line(get_target.address) \notin tags'
    /\ wire' = wire ++ <<"HIT_OR_MISS", FALSE>> ++ <<"LONG_LATENCY_PC_HOLDER", get_target>>
    /\ UNCHANGED <<rf, prog>>

\* The target is in the cache: fetch, predict, send to decode, prefetch.
FetchHit ==
    /\ ~is_ready("HIT_OR_MISS")
    /\ target_ports # <<>>
    /\ clock_bp
    /\ set_wrong_path
    /\ LET pc == get_target.address IN
       \E t \in get_target_tags :
       /\ Line(pc) \in t
       /\ tags' \in prefetch_tags(t, pc)
       /\ \E bp \in get_bp_info(pc) :
          \E i \in fetch_instr(pc) :
             LET in == fetched(pc, get_target.seq, i, bp) IN
             /\ prog' = IF pc = Junk THEN prog ELSE [prog EXCEPT ![pc] = i]
             /\ wire' = wire ++ <<"HOLD_PC", get_target>>
                             ++ <<"TARGET", get_predicted_target(in)>>
                             ++ <<"FETCH_2_DECODE", in>>
    /\ UNCHANGED rf

FetchClock == FetchInMiss \/ FetchBubble \/ FetchMiss \/ FetchHit
=============================================================================
