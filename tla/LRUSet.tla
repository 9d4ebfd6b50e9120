------------------------------- MODULE LRUSet -------------------------------
(***************************************************************************)
(* What a set of a cache with the LRU policy promises: it holds the tags   *)
(* that were used last, as many as it has ways.                            *)
(***************************************************************************)
EXTENDS Naturals, Sequences

CONSTANTS ways, Tags

VARIABLE recent \* the tags of the set, the one used last first

Init == recent = <<>>

Held == {recent[k] : k \in 1..Len(recent)}

\* A hit makes the tag the most recent one.
Use(t) ==
    \E k \in 1..Len(recent) :
        /\ recent[k] = t
        /\ recent' = <<t>> \o SubSeq(recent, 1, k - 1) \o SubSeq(recent, k + 1, Len(recent))

\* A tag that is not held comes in; a full set gives up the oldest one.
Insert(t) ==
    /\ t \notin Held
    /\ recent' = IF Len(recent) = ways
                 THEN <<t>> \o SubSeq(recent, 1, ways - 1) ELSE <<t>> \o recent

Next == \E t \in Tags : Use(t) \/ Insert(t)

Spec == Init /\ [][Next]_recent
=============================================================================
