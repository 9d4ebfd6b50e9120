------------------------------- MODULE TagSet -------------------------------
(***************************************************************************)
(* One set of SimpleCacheTagArray (infra/cache/cache_tag_array.cpp): the   *)
(* tags of its ways, the hash table that finds them and the replacement    *)
(* information.  The sets of an array do not share state, so one stands    *)
(* for all of them.  The instruction cache, the branch predictor and the   *)
(* cache runner write a tag after a read has missed it.                    *)
(***************************************************************************)
EXTENDS Replacement, FiniteSets

CONSTANTS
    Tags,   \* the tags of the addresses that map to the set
    NoTag,  \* the tag of a way that is not valid
    Careful \* callers write a tag only after they have missed it

ASSUME TagAssumption == NoTag \notin Tags /\ Careful \in BOOLEAN

VARIABLES
    policy,           \* the policy the set was created with
    tags,             \* tags[w]: the tag in way w
    lookup_helper,    \* tag -> way
    replacement_info,
    accesses          \* the ways used by the last reads that hit and writes, latest first

vars == <<policy, tags, lookup_helper, replacement_info, accesses>>

\* As many accesses as a victim must be away from, under pseudo-LRU: the nodes
\* between the root and the first leaf, log2( ways) of them.
Depth == Cardinality(path[inner])
Latest(s) == SubSeq(s, 1, IF Len(s) < Depth THEN Len(s) ELSE Depth)

Init ==
    /\ policy \in Policies
    /\ tags = [w \in Way |-> NoTag]
    /\ lookup_helper = [t \in {} |-> 0]
    /\ replacement_info = replacement_at_first(policy)
    /\ accesses = <<>>

read_no_touch(t) == t \in DOMAIN lookup_helper

\* read: a hit touches the way.  A miss and read_no_touch change nothing.
Read(t) ==
    /\ read_no_touch(t)
    /\ replacement_info' = touch(policy, replacement_info, lookup_helper[t])
    /\ accesses' = Latest(<<lookup_helper[t]>> \o accesses)
    /\ UNCHANGED <<policy, tags, lookup_helper>>

\* erase and emplace of the hash table; emplace keeps an entry that is there.
erased(table, t) == [x \in DOMAIN table \ {t} |-> table[x]]
emplaced(table, t, w) ==
    [x \in DOMAIN table \cup {t} |-> IF x \in DOMAIN table THEN table[x] ELSE w]

\* (Mutant: the tag of the victim stays in the hash table.)
lookup_without_erase(table, old, t, w) == emplaced(table, t, w)
lookup_after(table, old, t, w) ==
    emplaced(IF old # NoTag THEN erased(table, old) ELSE table, t, w)

Write(t) ==
    LET w == victim(policy, replacement_info) IN
    /\ Careful => ~read_no_touch(t)
    /\ lookup_helper' = lookup_after(lookup_helper, tags[w], t, w)
    /\ tags' = [tags EXCEPT ![w] = t]
    /\ replacement_info' = touch(policy, replacement_info, w)
    /\ accesses' = Latest(<<w>> \o accesses)
    /\ UNCHANGED policy

Next == \E t \in Tags : Read(t) \/ Write(t)

Spec == Init /\ [][Next]_vars

-----------------------------------------------------------------------------
(* Properties *)

\* The types of the variables.
TypeOK ==
    /\ policy \in Policies
    /\ tags \in [Way -> Tags \cup {NoTag}]
    /\ lookup_helper \in [DOMAIN lookup_helper -> Way]
    /\ DOMAIN lookup_helper \subseteq Tags
    /\ replacement_info \in IF policy = "LRU" THEN [1..ways -> Way]
                           ELSE [0..(inner - 1) -> {"Left", "Right"}]
    /\ accesses \in Seq(Way)

\* The hash table finds every tag in the way that holds it, and nothing else;
\* no tag is in two ways.
LookupFindsTags ==
    /\ DOMAIN lookup_helper = {tags[w] : w \in Way} \ {NoTag}
    /\ \A w \in Way : tags[w] # NoTag => lookup_helper[tags[w]] = w

\* The next victim is none of the ways of the last log2( ways) accesses.
VictimIsNotRecent == \A k \in 1..Len(accesses) : accesses[k] # victim(policy, replacement_info)

\* The tags at the head of the list of LRU, up to the first way that is not valid.
Filled ==
    CHOOSE n \in 0..ways :
        /\ \A k \in 1..n : tags[replacement_info[k]] # NoTag
        /\ n < ways => tags[replacement_info[n + 1]] = NoTag
Recency == IF policy = "LRU" THEN [k \in 1..Filled |-> tags[replacement_info[k]]] ELSE <<>>

Abs == INSTANCE LRUSet WITH recent <- Recency

\* With LRU the array, the hash table and the list hold the last used tags:
\* every hit is a use and every write an insertion, which fills ways that were
\* never written before anything is evicted.
ImplementsLRUSet ==
    /\ policy = "LRU" => Abs!Init
    /\ [][policy = "LRU" => Abs!Next]_vars
=============================================================================
