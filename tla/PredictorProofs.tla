-------------------------- MODULE PredictorProofs --------------------------
(***************************************************************************)
(* Proofs about Predictor, for every number of ways, either replacement    *)
(* policy, every mode and every set of branches.  What the buffer needs of *)
(* its tag array is what TagSetProofs shows of one whose callers are       *)
(* careful.  What an entry has learned is related to the outcomes of its   *)
(* branch by their positions in the window.                                *)
(***************************************************************************)
EXTENDS Predictor, NatMinimum, SequenceTheorems, TLAPS

P == INSTANCE TagSetProofs WITH Careful <- TRUE

LEMMA ArrayAssumptions == P!WaysAssumption /\ P!PolicyAssumption /\ P!TagAssumption
BY PredictorAssumption DEF P!WaysAssumption, P!PolicyAssumption, P!TagAssumption

(* B and P are instances of the same module. *)

LEMMA SameWays == B!Way = P!Way /\ B!Way = 0..(ways - 1) /\ B!inner = P!inner
BY DEF B!Way, P!Way, B!inner, P!inner

LEMMA SameTree == B!path = P!path /\ \A n : B!parent(n) = P!parent(n)
BY DEF B!path, P!path, B!parent, P!parent

LEMMA SameListTouch == \A x, w : B!lru_touch(x, w) = P!lru_touch(x, w)
BY DEF B!lru_touch, P!lru_touch, B!place, P!place

LEMMA SameTreeTouch == \A x, w : B!plru_touch(x, w) = P!plru_touch(x, w)
BY SameWays, SameTree
   DEF B!plru_touch, P!plru_touch, B!get_direction_to_prev_node, P!get_direction_to_prev_node,
       B!parent, P!parent

LEMMA SameTouch == \A p, x, w : B!touch(p, x, w) = P!touch(p, x, w)
BY SameListTouch, SameTreeTouch DEF B!touch, P!touch

LEMMA SameVictim == \A p, x : B!victim(p, x) = P!victim(p, x)
BY DEF B!victim, P!victim, B!lru_victim, P!lru_victim, B!plru_victim, P!plru_victim,
       B!inner, P!inner, B!get_next_node, P!get_next_node

LEMMA SameCardinality == \A S : B!Cardinality(S) = P!Cardinality(S)
BY DEF B!Cardinality, P!Cardinality, B!IsFiniteSet, P!IsFiniteSet

LEMMA SameLatest == \A s : B!Latest(s) = P!Latest(s)
BY SameWays, SameTree, SameCardinality DEF B!Latest, P!Latest, B!Depth, P!Depth

LEMMA SameInit == B!Init => P!Init
BY DEF B!Init, P!Init, B!Way, P!Way, B!replacement_at_first, P!replacement_at_first,
       B!lru_list_at_first, P!lru_list_at_first, B!nodes_at_first, P!nodes_at_first,
       B!inner, P!inner

LEMMA SameRead == \A t : B!Read(t) => P!Read(t)
BY SameTouch, SameLatest DEF B!Read, P!Read, B!read_no_touch, P!read_no_touch

LEMMA SameWrite == \A t : B!Write(t) => P!Write(t)
BY SameTouch, SameLatest, SameVictim
   DEF B!Write, P!Write, B!read_no_touch, P!read_no_touch, B!lookup_after, P!lookup_after,
       B!emplaced, P!emplaced, B!erased, P!erased

(* The tag array keeps its invariant. *)

LEMMA ArrayInit == B!Init => P!IInv
BY SameInit, P!InitInv, ArrayAssumptions

LEMMA ArrayRead ==
    ASSUME P!IInv, NEW t \in Tags, B!Read(t)
    PROVE  P!IInv'
BY SameRead, P!ReadInv, ArrayAssumptions

LEMMA ArrayWrite ==
    ASSUME P!IInv, NEW t \in Tags, B!Write(t)
    PROVE  P!IInv'
BY SameWrite, P!WriteInv, ArrayAssumptions

LEMMA ArrayVictim ==
    ASSUME P!IInv
    PROVE  B!victim(policy, replacement_info) \in 0..(ways - 1)
BY SameWays, SameVictim, P!VictimIsWay, ArrayAssumptions DEF P!IInv, P!Types

\* The part of it that the buffer relies on.
LEMMA ArrayFacts ==
    ASSUME P!IInv
    PROVE  /\ tags \in [0..(ways - 1) -> Tags \cup {NoTag}]
           /\ DOMAIN lookup_helper = {tags[w] : w \in 0..(ways - 1)} \ {NoTag}
           /\ \A w \in 0..(ways - 1) : tags[w] # NoTag => lookup_helper[tags[w]] = w
BY SameWays DEF P!IInv, P!Types, P!TypeOK, P!LookupFindsTags

-----------------------------------------------------------------------------
(* The inductive invariant: the tag array is one whose hash table finds its *)
(* tags, and every way that holds a branch holds the target of its last    *)
(* update.                                                                 *)

Way == 0..(ways - 1)

OwnTargets ==
    /\ targets \in [Way -> Targets \cup {0}]
    /\ DOMAIN history = DOMAIN lookup_helper
    /\ \A t \in DOMAIN history : history[t].target = targets[lookup_helper[t]]

IInv == P!IInv /\ OwnTargets

LEMMA InitInv == Init => IInv
<1> SUFFICES ASSUME Init PROVE IInv
  OBVIOUS
<1>1. P!IInv
  BY ArrayInit DEF Init
<1>2. lookup_helper = [t \in {} |-> 0]
  BY DEF Init, B!Init
<1> QED
  BY <1>1, <1>2 DEF Init, IInv, OwnTargets, Way

\* Where an update leaves the branches: t in way w, the branch that was there
\* out of the buffer, and the others in their ways.
LEMMA Placed ==
    ASSUME IInv, NEW t \in Tags, NEW taken \in BOOLEAN, NEW target \in Targets,
           update(t, taken, target)
    PROVE  LET w == IF is_hit(t) THEN lookup_helper[t] ELSE B!victim(policy, replacement_info)
               held == {tags[v] : v \in Way \ {w}} \ {NoTag}
           IN  /\ P!IInv'
               /\ w \in Way /\ lookup_helper'[t] = w
               /\ DOMAIN lookup_helper' = held \union {t}
               /\ \A x \in held : x # t =>
                     /\ lookup_helper'[x] = lookup_helper[x] /\ lookup_helper[x] \in Way \ {w}
                     /\ x \in DOMAIN history
<1> DEFINE w == IF is_hit(t) THEN lookup_helper[t] ELSE B!victim(policy, replacement_info)
           held == {tags[v] : v \in Way \ {w}} \ {NoTag}
<1>1. /\ tags \in [Way -> Tags \cup {NoTag}]
      /\ DOMAIN lookup_helper = {tags[v] : v \in Way} \ {NoTag}
      /\ \A v \in Way : tags[v] # NoTag => lookup_helper[tags[v]] = v
  BY ArrayFacts DEF IInv, Way
<1>2. t # NoTag
  BY PredictorAssumption
<1>3. P!IInv'
  <2>1. B!Read(t) \/ B!Write(t)
    BY DEF update
  <2> QED
    BY <2>1, ArrayRead, ArrayWrite DEF IInv
<1>4. /\ DOMAIN lookup_helper' = {tags'[v] : v \in Way} \ {NoTag}
      /\ \A v \in Way : tags'[v] # NoTag => lookup_helper'[tags'[v]] = v
  BY <1>3, SameWays DEF P!IInv, P!LookupFindsTags, Way
<1>5. w \in Way /\ tags' = [tags EXCEPT ![w] = t]
  <2>1. CASE is_hit(t)
    <3>1. PICK v \in Way : tags[v] = t
      BY <1>1, <2>1 DEF is_hit, B!read_no_touch
    <3>2. w = v
      BY <1>1, <1>2, <2>1, <3>1
    <3>3. tags' = tags
      BY <2>1 DEF update, B!Read
    <3> HIDE DEF w
    <3> QED
      BY <1>1, <3>1, <3>2, <3>3
  <2>2. CASE ~is_hit(t)
    <3>1. w \in Way
      BY <2>2, ArrayVictim DEF IInv, Way
    <3>2. tags' = [tags EXCEPT ![B!victim(policy, replacement_info)] = t]
      BY <2>2 DEF update, B!Write
    <3> QED
      BY <2>2, <3>1, <3>2
  <2> QED
    BY <2>1, <2>2
<1> HIDE DEF w
<1>6. DOMAIN lookup_helper' = held \union {t}
  <2>1. ASSUME NEW x \in held \union {t} PROVE x \in DOMAIN lookup_helper'
    BY <1>1, <1>2, <1>4, <1>5
  <2>2. ASSUME NEW x \in DOMAIN lookup_helper' PROVE x \in held \union {t}
    BY <1>1, <1>4, <1>5
  <2> QED
    BY <2>1, <2>2
<1>7. lookup_helper'[t] = w
  BY <1>1, <1>2, <1>4, <1>5
<1>8. ASSUME NEW x \in held, x # t
      PROVE  /\ lookup_helper'[x] = lookup_helper[x] /\ lookup_helper[x] \in Way \ {w}
             /\ x \in DOMAIN history
  <2>1. PICK v \in Way \ {w} : tags[v] = x /\ x # NoTag
    OBVIOUS
  <2>2. lookup_helper[x] = v /\ x \in DOMAIN lookup_helper
    BY <1>1, <2>1
  <2>3. tags'[v] = x
    BY <1>1, <1>5, <2>1
  <2>4. lookup_helper'[x] = v
    BY <1>4, <2>1, <2>3
  <2> QED
    BY <2>1, <2>2, <2>4 DEF IInv, OwnTargets
<1> HIDE DEF held
<1> QED
  BY <1>3, <1>5, <1>6, <1>7, <1>8 DEF w, held

\* update writes the target of the way that holds the branch from now on; the
\* other branches keep their ways, and the one that was there is forgotten.
LEMMA UpdateInv ==
    ASSUME IInv, NEW t \in Tags, NEW taken \in BOOLEAN, NEW target \in Targets,
           update(t, taken, target)
    PROVE  IInv'
<1> DEFINE w == IF is_hit(t) THEN lookup_helper[t] ELSE B!victim(policy, replacement_info)
           held == {tags[v] : v \in Way \ {w}} \ {NoTag}
<1>1. /\ P!IInv'
      /\ w \in Way /\ lookup_helper'[t] = w
      /\ DOMAIN lookup_helper' = held \union {t}
      /\ \A x \in held : x # t =>
            /\ lookup_helper'[x] = lookup_helper[x] /\ lookup_helper[x] \in Way \ {w}
            /\ x \in DOMAIN history
  BY Placed
<1>2. /\ targets' = [targets EXCEPT ![w] = target]
      /\ DOMAIN history' = held \union {t}
      /\ history'[t].target = target
      /\ \A x \in held : x # t => history'[x] = history[x]
  <2> DEFINE h == IF is_hit(t) THEN history[t].outcomes ELSE <<>>
             r == [outcomes |-> Latest(Append(h, taken)), target |-> target]
  <2>1. /\ targets' = [targets EXCEPT ![w] = target]
        /\ history' = [x \in held \union {t} |-> IF x = t THEN r ELSE history[x]]
    BY DEF update, Way
  <2>2. r.target = target
    OBVIOUS
  <2> HIDE DEF r, held, w
  <2> QED
    BY <2>1, <2>2
<1> HIDE DEF w, held
<1>3. /\ targets \in [Way -> Targets \cup {0}]
      /\ \A x \in DOMAIN history : history[x].target = targets[lookup_helper[x]]
  BY DEF IInv, OwnTargets
<1>4. ASSUME NEW x \in held, x # t
      PROVE  history'[x].target = targets'[lookup_helper'[x]]
  <2>1. targets'[lookup_helper'[x]] = targets[lookup_helper[x]]
    BY <1>1, <1>2, <1>3, <1>4
  <2> QED
    BY <1>1, <1>2, <1>3, <1>4, <2>1
<1>5. history'[t].target = targets'[lookup_helper'[t]]
  BY <1>1, <1>2, <1>3
<1>6. targets' \in [Way -> Targets \cup {0}]
  BY <1>1, <1>2, <1>3
<1>7. OwnTargets'
  BY <1>1, <1>2, <1>4, <1>5, <1>6 DEF OwnTargets, Way
<1> QED
  BY <1>1, <1>7 DEF IInv

LEMMA StepInv == IInv /\ [Next]_vars => IInv'
<1> SUFFICES ASSUME IInv, [Next]_vars PROVE IInv'
  OBVIOUS
<1>1. CASE Next
  BY <1>1, UpdateInv DEF Next
<1>2. CASE UNCHANGED vars
  <2>1. UNCHANGED <<policy, tags, lookup_helper, replacement_info, accesses, targets, history>>
    BY <1>2 DEF vars, btb
  <2>2. P!IInv'
    BY <2>1 DEF IInv, P!IInv, P!Types, P!TypeOK, P!LookupFindsTags
  <2> QED
    BY <2>1, <2>2 DEF IInv, OwnTargets, Way
<1> QED
  BY <1>1, <1>2

\* For every number of ways, replacement policy and mode, and whatever the branch
\* stage reports: get_bp_info predicts the address that follows, or the target of
\* the last update of this very branch, never that of a branch it has replaced.
THEOREM PredictorCoherent == Spec => []CoherentPrediction
<1>1. IInv => CoherentPrediction
  <2> SUFFICES ASSUME IInv, NEW t \in Tags
               PROVE  /\ get_bp_info(t).is_hit = (t \in DOMAIN history)
                      /\ get_bp_info(t).target =
                             IF get_bp_info(t).is_taken THEN history[t].target ELSE address(t) + 4
                      /\ get_bp_info(t).is_hit /\ mode = "backward_jumps" =>
                             get_bp_info(t).is_taken = (history[t].target < address(t))
    BY DEF CoherentPrediction
  <2> DEFINE g == targets[lookup_helper[t]]
  <2>1. is_hit(t) <=> t \in DOMAIN history
    BY DEF IInv, OwnTargets, is_hit, B!read_no_touch
  <2>2. CASE ~is_hit(t)
    <3>1. get_bp_info(t) = [is_taken |-> FALSE, target |-> address(t) + 4, is_hit |-> FALSE]
      BY <2>2 DEF get_bp_info
    <3>2. /\ get_bp_info(t).is_hit = FALSE
          /\ get_bp_info(t).is_taken = FALSE /\ get_bp_info(t).target = address(t) + 4
      BY <3>1
    <3>3. (t \in DOMAIN history) = FALSE
      BY <2>1, <2>2
    <3> QED
      BY <3>2, <3>3
  <2>3. CASE is_hit(t)
    <3>1. get_bp_info(t) = [is_taken |-> is_taken(t), target |-> get_target(t), is_hit |-> TRUE]
      BY <2>3 DEF get_bp_info
    <3>2. history[t].target = g
      BY <2>1, <2>3 DEF IInv, OwnTargets
    <3>3. get_target(t) = IF is_taken(t) THEN g ELSE address(t) + 4
      BY DEF get_target
    <3>4. mode = "backward_jumps" => is_taken(t) = (g < address(t))
      BY <2>3 DEF is_taken, entry_is_taken
    <3>5. /\ get_bp_info(t).is_hit = TRUE
          /\ get_bp_info(t).is_taken = is_taken(t) /\ get_bp_info(t).target = get_target(t)
      BY <3>1
    <3> HIDE DEF g
    <3> QED
      BY <2>1, <2>3, <3>2, <3>3, <3>4, <3>5
  <2> QED
    BY <2>2, <2>3
<1> QED
  BY <1>1, InitInv, StepInv, PTL DEF Spec

-----------------------------------------------------------------------------
(* Patterns of outcomes and their numbers *)

\* patterns is defined by recursion: there is such a function, up to any k.
LEMMA PatternsExist ==
    \A n \in Nat : \E g : g = [k \in 0..n |-> IF k = 0 THEN 1 ELSE 2 * g[k - 1]]
<1> DEFINE Good(n, g) == g = [k \in 0..n |-> IF k = 0 THEN 1 ELSE 2 * g[k - 1]]
           S == {n \in Nat : \E g : Good(n, g)}
<1>1. 0 \in S
  <2> DEFINE start == [k \in 0..0 |-> 1]
  <2>1. Good(0, start)
    OBVIOUS
  <2> QED
    BY <2>1
<1>2. ASSUME NEW n \in Nat, n \in S PROVE n + 1 \in S
  <2>1. PICK g : Good(n, g)
    BY <1>2
  <2> DEFINE f == [k \in 0..(n + 1) |-> IF k = n + 1 THEN 2 * g[n] ELSE g[k]]
  <2>2. \A k \in 0..n : g[k] = IF k = 0 THEN 1 ELSE 2 * g[k - 1]
    BY <2>1
  <2>3. \A k \in 0..(n + 1) : f[k] = IF k = 0 THEN 1 ELSE 2 * f[k - 1]
    BY <2>2
  <2>4. f = [k \in 0..(n + 1) |-> f[k]]
    OBVIOUS
  <2> HIDE DEF f
  <2>5. Good(n + 1, f)
    BY <2>3, <2>4
  <2> HIDE DEF Good
  <2>6. \E h : Good(n + 1, h)
    BY <2>5
  <2> QED
    BY <2>6
<1> QED
  BY <1>1, <1>2, NatSetInduction

LEMMA PatternNumbers ==
    /\ patterns[0] = 1
    /\ \A k \in 1..DEPTH : patterns[k] = 2 * patterns[k - 1]
    /\ \A k \in 0..DEPTH : patterns[k] \in Nat \ {0}
<1>1. DEPTH \in Nat
  BY PredictorAssumption
<1>2. patterns = [k \in 0..DEPTH |-> IF k = 0 THEN 1 ELSE 2 * patterns[k - 1]]
  BY <1>1, PatternsExist DEF patterns
<1>3. \A k \in 0..DEPTH : patterns[k] = IF k = 0 THEN 1 ELSE 2 * patterns[k - 1]
  BY <1>2
<1> DEFINE S == {n \in Nat : n <= DEPTH => patterns[n] \in Nat \ {0}}
<1>4. 0 \in S
  BY <1>1, <1>3
<1>5. ASSUME NEW n \in Nat, n \in S PROVE n + 1 \in S
  BY <1>1, <1>3, <1>5
<1>6. Nat \subseteq S
  BY <1>4, <1>5, NatSetInduction
<1> QED
  BY <1>1, <1>3, <1>6

\* The outcomes of a pattern, the latest first.
Bits == [1..DEPTH -> BOOLEAN]

\* r[k] is the number of the k latest outcomes of h.
Chain(r, h) ==
    /\ r \in [0..DEPTH -> Nat] /\ r[0] = 0
    /\ \A k \in 1..DEPTH : r[k] = r[k - 1] + (IF h[k] THEN patterns[k - 1] ELSE 0)
Encodes(p, h) == \E r : Chain(r, h) /\ r[DEPTH] = p

LEMMA ChainBounded ==
    ASSUME NEW h \in Bits, NEW r, Chain(r, h)
    PROVE  \A k \in 0..DEPTH : r[k] < patterns[k]
<1>1. DEPTH \in Nat
  BY PredictorAssumption
<1> DEFINE S == {n \in Nat : n <= DEPTH => r[n] < patterns[n]}
<1>2. 0 \in S
  BY PatternNumbers DEF Chain
<1>3. ASSUME NEW n \in Nat, n \in S, n + 1 <= DEPTH PROVE r[n + 1] < patterns[n + 1]
  <2>1. n + 1 \in 1..DEPTH /\ n \in 0..DEPTH
    BY <1>1, <1>3
  <2>2. /\ patterns[n + 1] = 2 * patterns[n] /\ patterns[n] \in Nat
        /\ r[n + 1] = r[n] + (IF h[n + 1] THEN patterns[n] ELSE 0) /\ r[n] \in Nat
    BY <2>1, PatternNumbers DEF Chain
  <2>3. r[n] < patterns[n]
    BY <1>3, <2>1
  <2> QED
    BY <2>2, <2>3
<1>4. \A n \in Nat : n \in S => n + 1 \in S
  BY <1>3
<1> HIDE DEF S
<1>5. Nat \subseteq S
  BY <1>2, <1>4, NatSetInduction
<1> QED
  BY <1>1, <1>5 DEF S

LEMMA NumberInTable ==
    ASSUME NEW h \in Bits, NEW p, Encodes(p, h)
    PROVE  p \in 0..(patterns[DEPTH] - 1)
<1>1. PICK r : Chain(r, h) /\ r[DEPTH] = p
  BY DEF Encodes
<1>2. DEPTH \in 0..DEPTH
  BY PredictorAssumption
<1>3. p \in Nat /\ p < patterns[DEPTH] /\ patterns[DEPTH] \in Nat
  BY <1>1, <1>2, ChainBounded, PatternNumbers DEF Chain
<1> QED
  BY <1>3

\* A number has the bits of one pattern only.
LEMMA OneBits ==
    ASSUME NEW h \in Bits, NEW g \in Bits, NEW p, Encodes(p, h), Encodes(p, g)
    PROVE  h = g
<1>1. DEPTH \in Nat
  BY PredictorAssumption
<1>2. PICK r : Chain(r, h) /\ r[DEPTH] = p
  BY DEF Encodes
<1>3. PICK s : Chain(s, g) /\ s[DEPTH] = p
  BY DEF Encodes
<1>4. ASSUME NEW k \in 1..DEPTH, r[k] = s[k] PROVE r[k - 1] = s[k - 1] /\ h[k] = g[k]
  <2>1. k - 1 \in 0..DEPTH
    BY <1>1
  <2>2. /\ r[k - 1] \in Nat /\ s[k - 1] \in Nat /\ patterns[k - 1] \in Nat
        /\ r[k - 1] < patterns[k - 1] /\ s[k - 1] < patterns[k - 1]
    BY <1>2, <1>3, <2>1, ChainBounded, PatternNumbers DEF Chain
  <2>3. h[k] \in BOOLEAN /\ g[k] \in BOOLEAN
    BY DEF Bits
  <2> DEFINE M == patterns[k - 1]
             x == IF h[k] THEN M ELSE 0
             y == IF g[k] THEN M ELSE 0
  <2>4. (x = 0 \/ x = M) /\ (y = 0 \/ y = M)
    OBVIOUS
  <2>5. r[k] = r[k - 1] + x /\ s[k] = s[k - 1] + y
    BY <1>2, <1>3 DEF Chain
  <2> DEFINE a == r[k - 1]
             c == s[k - 1]
  <2>6. a \in Nat /\ c \in Nat /\ M \in Nat /\ a < M /\ c < M
    BY <2>2
  <2>7. r[k] = s[k]
    BY <1>4
  <2>8. r[k] = a + x /\ s[k] = c + y
    BY <2>5
  <2> HIDE DEF x, y, M, a, c
  <2>9. a + x = c + y
    BY <2>7, <2>8
  <2>10. x \in Nat /\ y \in Nat
    BY <2>4, <2>6
  <2>11. x = y /\ a = c
    BY <2>4, <2>6, <2>9, <2>10
  <2>12. M # 0
    BY <2>6
  <2>13. h[k] <=> g[k]
    BY <2>11, <2>12 DEF x, y
  <2> QED
    BY <2>3, <2>11, <2>13 DEF a, c
<1> DEFINE S == {n \in Nat : n <= DEPTH => r[DEPTH - n] = s[DEPTH - n]}
<1>5. 0 \in S
  BY <1>1, <1>2, <1>3
<1>6. ASSUME NEW n \in Nat, n \in S, n + 1 <= DEPTH PROVE r[DEPTH - (n + 1)] = s[DEPTH - (n + 1)]
  <2>1. DEPTH - n \in 1..DEPTH /\ r[DEPTH - n] = s[DEPTH - n]
    BY <1>1, <1>6
  <2>2. r[(DEPTH - n) - 1] = s[(DEPTH - n) - 1]
    BY <1>4, <2>1
  <2>3. (DEPTH - n) - 1 = DEPTH - (n + 1)
    BY <1>1
  <2> QED
    BY <2>2, <2>3
<1>7. \A n \in Nat : n \in S
  <2>1. \A n \in Nat : n \in S => n + 1 \in S
    BY <1>6
  <2> HIDE DEF S
  <2> QED
    BY <1>5, <2>1, NatSetInduction
<1>8. \A k \in 1..DEPTH : r[k] = s[k]
  <2> TAKE k \in 1..DEPTH
  <2>1. DEPTH - k \in S /\ DEPTH - (DEPTH - k) = k /\ DEPTH - k <= DEPTH
    BY <1>1, <1>7
  <2> QED
    BY <2>1
<1>9. \A k \in 1..DEPTH : h[k] = g[k]
  BY <1>4, <1>8
<1> QED
  <2>1. h = [k \in 1..DEPTH |-> h[k]] /\ g = [k \in 1..DEPTH |-> g[k]]
    BY DEF Bits
  <2> QED
    BY <1>9, <2>1

\* A pattern has one number only.
LEMMA OneNumber ==
    ASSUME NEW h \in Bits, NEW p, NEW q, Encodes(p, h), Encodes(q, h)
    PROVE  p = q
<1>1. DEPTH \in Nat
  BY PredictorAssumption
<1>2. PICK r : Chain(r, h) /\ r[DEPTH] = p
  BY DEF Encodes
<1>3. PICK s : Chain(s, h) /\ s[DEPTH] = q
  BY DEF Encodes
<1> DEFINE S == {n \in Nat : n <= DEPTH => r[n] = s[n]}
<1>4. 0 \in S
  BY <1>2, <1>3 DEF Chain
<1>5. ASSUME NEW n \in Nat, n \in S, n + 1 <= DEPTH PROVE r[n + 1] = s[n + 1]
  <2>1. n + 1 \in 1..DEPTH /\ (n + 1) - 1 = n /\ r[n] = s[n]
    BY <1>1, <1>5
  <2> QED
    BY <1>2, <1>3, <2>1 DEF Chain
<1>6. \A n \in Nat : n \in S => n + 1 \in S
  BY <1>5
<1> HIDE DEF S
<1>7. Nat \subseteq S
  BY <1>4, <1>6, NatSetInduction
<1> QED
  BY <1>1, <1>2, <1>3, <1>7 DEF S

\* An outcome enters the pattern and the oldest one leaves it.
Entered(h, b) == [k \in 1..DEPTH |-> IF k = 1 THEN b ELSE h[k - 1]]

LEMMA PatternUpdate ==
    ASSUME NEW h \in Bits, NEW p, Encodes(p, h), NEW b \in BOOLEAN
    PROVE  Entered(h, b) \in Bits /\ Encodes(pattern_update(p, b), Entered(h, b))
<1>1. DEPTH \in Nat \ {0}
  BY PredictorAssumption
<1>2. PICK r : Chain(r, h) /\ r[DEPTH] = p
  BY DEF Encodes
<1> DEFINE t == IF b THEN 1 ELSE 0
           g == Entered(h, b)
           s == [k \in 0..DEPTH |-> IF k = 0 THEN 0 ELSE 2 * r[k - 1] + t]
<1>3. g \in Bits
  BY <1>1 DEF Bits, Entered
<1>4. \A k \in 0..DEPTH : r[k] \in Nat /\ r[k] < patterns[k] /\ patterns[k] \in Nat
  BY <1>2, ChainBounded, PatternNumbers DEF Chain
<1>5. s \in [0..DEPTH -> Nat] /\ s[0] = 0
  BY <1>1, <1>4
<1>6. ASSUME NEW k \in 1..DEPTH PROVE s[k] = s[k - 1] + (IF g[k] THEN patterns[k - 1] ELSE 0)
  <2>1. CASE k = 1
    <3>1. s[1] = 2 * r[0] + t /\ s[0] = 0 /\ g[1] = b /\ r[0] = 0 /\ patterns[0] = 1
      BY <1>1, <1>2, PatternNumbers DEF Chain, Entered
    <3> HIDE DEF s, g
    <3> QED
      BY <2>1, <3>1
  <2>2. CASE k # 1
    <3>1. k - 1 \in 1..DEPTH /\ k - 1 \in 0..DEPTH /\ (k - 1) - 1 \in 0..DEPTH
      BY <1>1, <2>2
    <3>2. s[k] = 2 * r[k - 1] + t /\ s[k - 1] = 2 * r[(k - 1) - 1] + t /\ g[k] = h[k - 1]
      BY <1>1, <2>2, <3>1 DEF Entered
    <3>3. r[k - 1] = r[(k - 1) - 1] + (IF h[k - 1] THEN patterns[(k - 1) - 1] ELSE 0)
      BY <1>2, <3>1 DEF Chain
    <3>4. patterns[k - 1] = 2 * patterns[(k - 1) - 1]
      BY <3>1, PatternNumbers
    <3>5. r[k - 1] \in Nat /\ r[(k - 1) - 1] \in Nat /\ patterns[(k - 1) - 1] \in Nat
      BY <1>4, <3>1
    <3> HIDE DEF s, g
    <3> QED
      BY <3>2, <3>3, <3>4, <3>5
  <2> QED
    BY <2>1, <2>2
<1>7. Chain(s, g)
  <2> HIDE DEF s, g
  <2> QED
    BY <1>5, <1>6 DEF Chain
<1>8. s[DEPTH] = pattern_update(p, b)
  <2> DEFINE M == patterns[DEPTH]
             x == 2 * r[DEPTH - 1]
  <2>1. DEPTH \in 1..DEPTH /\ DEPTH - 1 \in 0..DEPTH /\ DEPTH \in 0..DEPTH
    BY <1>1
  <2>2. M = 2 * patterns[DEPTH - 1] /\ p = r[DEPTH - 1] + (IF h[DEPTH] THEN patterns[DEPTH - 1] ELSE 0)
    BY <1>2, <2>1, PatternNumbers DEF Chain
  <2>3. r[DEPTH - 1] \in Nat /\ patterns[DEPTH - 1] \in Nat /\ r[DEPTH - 1] < patterns[DEPTH - 1]
    BY <1>4, <2>1
  <2>4. x \in Nat /\ M \in Nat /\ x < M /\ (2 * p = x \/ 2 * p = x + M)
    BY <2>2, <2>3
  <2>5. s[DEPTH] = x + t
    BY <1>1, <2>1
  <2> HIDE DEF M, x, s
  <2>6. x % M = x /\ (x + M) % M = x
    BY <2>4
  <2>7. (2 * p) % M = x
    BY <2>4, <2>6
  <2> QED
    BY <2>5, <2>7 DEF pattern_update, M
<1> HIDE DEF s, g
<1>9. Encodes(pattern_update(p, b), g)
  BY <1>7, <1>8 DEF Encodes
<1> QED
  BY <1>3, <1>9 DEF g

-----------------------------------------------------------------------------
(* Counters of two bits *)

\* v is the counter of the outcomes o at the positions S, the latest of those it
\* has seen, or all of them.
Counter(v, S, o, all) ==
    /\ v \in 0..3
    /\ all /\ S = {} => v = 1
    /\ all => \A i \in S : S = {i} => v = IF o[i] THEN 2 ELSE 0
    /\ \A i \in S : (\A x \in S : x <= i) => v # IF o[i] THEN 0 ELSE 3
    /\ \A i, j \in S :
          i < j /\ (\A x \in S : x <= i \/ x = j) /\ o[i] = o[j]
            => v \in IF o[j] THEN 2..3 ELSE 0..1
    /\ \A i, j, k \in S :
          /\ i < j /\ j < k /\ (\A x \in S : x <= i \/ x = j \/ x = k)
          /\ o[i] = o[j] /\ o[j] = o[k]
          => v = IF o[k] THEN 3 ELSE 0
    /\ \A i, j, k, l \in S :
          /\ i < j /\ j < k /\ k < l /\ (\A x \in S : x <= i \/ x = j \/ x = k \/ x = l)
          /\ o[i] = o[j] /\ o[j] = o[k]
          => v \in IF o[k] THEN 2..3 ELSE 0..1

\* The next outcome b, at position m.
LEMMA CounterUpdate ==
    ASSUME NEW S \in SUBSET Int, NEW o, NEW v, NEW all \in BOOLEAN, Counter(v, S, o, all),
           \A x \in S : o[x] \in BOOLEAN,
           NEW m \in Int, \A x \in S : x < m,
           NEW a, NEW b \in BOOLEAN, a[m] = b, \A x \in S : a[x] = o[x]
    PROVE  Counter(two_bit_update(v, b), S \cup {m}, a, all)
<1> DEFINE u == two_bit_update(v, b)
           T == S \cup {m}
<1>1. v \in 0..3 /\ m \in T /\ S \subseteq T
  BY DEF Counter
<1>2. u = IF b THEN (IF v < 3 THEN v + 1 ELSE 3) ELSE (IF v > 0 THEN v - 1 ELSE 0)
  BY DEF two_bit_update
<1>3. /\ u \in 0..3
      /\ b => u \in 1..3 /\ (v \in 1..3 => u \in 2..3) /\ (v \in 2..3 => u = 3)
      /\ ~b => u \in 0..2 /\ (v \in 0..2 => u \in 0..1) /\ (v \in 0..1 => u = 0)
      /\ v = 1 => u = IF b THEN 2 ELSE 0
      /\ v = 3 => u \in 2..3
      /\ v = 0 => u \in 0..1
  BY <1>1, <1>2
<1>4. \A x \in T : x < m \/ x = m
  OBVIOUS
<1>5. \A x \in T : (\A y \in T : y <= x) => x = m
  BY <1>1, <1>4
<1>6. \A x \in T : x < m => x \in S
  BY <1>4
<1> HIDE DEF u, T
<1>7. all => \A i \in T : T = {i} => u = IF a[i] THEN 2 ELSE 0
  <2> SUFFICES ASSUME all, NEW i \in T, T = {i} PROVE u = IF a[i] THEN 2 ELSE 0
    OBVIOUS
  <2>1. i = m
    BY <1>1
  <2>2. S = {}
    BY <1>1, <2>1
  <2>3. v = 1
    BY <2>2 DEF Counter
  <2> QED
    BY <1>3, <2>1, <2>3
<1>8. \A i \in T : (\A x \in T : x <= i) => u # IF a[i] THEN 0 ELSE 3
  BY <1>3, <1>5
<1>9. ASSUME NEW i \in T, NEW j \in T, i < j, \A x \in T : x <= i \/ x = j, a[i] = a[j]
      PROVE  u \in IF a[j] THEN 2..3 ELSE 0..1
  <2>1. j = m /\ i \in S
    BY <1>1, <1>4, <1>6, <1>9
  <2>2. \A x \in S : x <= i
    BY <1>1, <1>9, <2>1
  <2>3. v # IF o[i] THEN 0 ELSE 3
    BY <2>1, <2>2 DEF Counter
  <2>4. o[i] = b /\ a[j] = b
    BY <1>9, <2>1
  <2> QED
    BY <1>1, <1>3, <2>3, <2>4
<1>10. ASSUME NEW i \in T, NEW j \in T, NEW k \in T, i < j, j < k,
              \A x \in T : x <= i \/ x = j \/ x = k, a[i] = a[j], a[j] = a[k]
       PROVE  u = IF a[k] THEN 3 ELSE 0
  <2>1. k = m /\ i \in S /\ j \in S
    BY <1>1, <1>4, <1>6, <1>10
  <2>2. \A x \in S : x <= i \/ x = j
    BY <1>1, <1>10, <2>1
  <2>3. o[i] = b /\ o[j] = b /\ a[k] = b
    BY <1>10, <2>1
  <2>4. v \in IF o[j] THEN 2..3 ELSE 0..1
    BY <1>10, <2>1, <2>2, <2>3 DEF Counter
  <2> QED
    BY <1>3, <2>3, <2>4
<1>11. ASSUME NEW i \in T, NEW j \in T, NEW k \in T, NEW l \in T, i < j, j < k, k < l,
              \A x \in T : x <= i \/ x = j \/ x = k \/ x = l, a[i] = a[j], a[j] = a[k]
       PROVE  u \in IF a[k] THEN 2..3 ELSE 0..1
  <2>1. l = m /\ i \in S /\ j \in S /\ k \in S
    BY <1>1, <1>4, <1>6, <1>11
  <2>2. \A x \in S : x <= i \/ x = j \/ x = k
    BY <1>1, <1>11, <2>1
  <2>3. o[i] = o[j] /\ o[j] = o[k] /\ a[k] = o[k]
    BY <1>11, <2>1
  <2>4. v = IF o[k] THEN 3 ELSE 0
    BY <1>11, <2>1, <2>2, <2>3 DEF Counter
  <2> QED
    BY <1>3, <2>3, <2>4
<1>12. T # {}
  BY <1>1
<1>13. Counter(u, T, a, all)
  BY <1>3, <1>7, <1>8, <1>9, <1>10, <1>11, <1>12 DEF Counter
<1> QED
  BY <1>13 DEF u, T

\* T are the places in S from some one on, c places further down.
Slid(S, o, T, a, c) ==
    /\ \A x \in T : x + c \in S /\ a[x] = o[x + c]
    /\ \A x \in T : \A y \in S : x + c < y => y - c \in T
Whole(S, T, c) == \A y \in S : y - c \in T

\* What remains in the window.
LEMMA CounterKept ==
    ASSUME NEW S \in SUBSET Int, NEW o, NEW v, NEW all \in BOOLEAN, Counter(v, S, o, all),
           NEW T \in SUBSET Int, NEW a, NEW c \in Int, NEW all2 \in BOOLEAN,
           Slid(S, o, T, a, c), all2 => all /\ Whole(S, T, c)
    PROVE  Counter(v, T, a, all2)
<1>1. \A y \in S : (y - c) + c = y
  OBVIOUS
<1>2. \A x \in T, y \in S : y <= x + c \/ y - c \in T
  BY DEF Slid
<1>3. /\ \A x \in T : x + c \in S /\ a[x] = o[x + c]
      /\ all2 => \A y \in S : y - c \in T
  BY DEF Slid, Whole
<1>4. all2 /\ T = {} => v = 1
  BY <1>3 DEF Counter
<1>5. all2 => \A i \in T : T = {i} => v = IF a[i] THEN 2 ELSE 0
  <2> SUFFICES ASSUME all2, NEW i \in T, T = {i} PROVE v = IF a[i] THEN 2 ELSE 0
    OBVIOUS
  <2>1. i + c \in S /\ a[i] = o[i + c]
    BY <1>3
  <2>2. S = {i + c}
    BY <1>1, <1>3, <2>1
  <2> QED
    BY <2>1, <2>2 DEF Counter
<1>6. \A i \in T : (\A x \in T : x <= i) => v # IF a[i] THEN 0 ELSE 3
  <2> SUFFICES ASSUME NEW i \in T, \A x \in T : x <= i PROVE v # IF a[i] THEN 0 ELSE 3
    OBVIOUS
  <2>1. i + c \in S /\ a[i] = o[i + c]
    BY <1>3
  <2>2. \A y \in S : y <= i + c
    BY <1>1, <1>2
  <2> QED
    BY <2>1, <2>2 DEF Counter
<1>7. ASSUME NEW i \in T, NEW j \in T, i < j, \A x \in T : x <= i \/ x = j, a[i] = a[j]
      PROVE  v \in IF a[j] THEN 2..3 ELSE 0..1
  <2>1. /\ i + c \in S /\ j + c \in S /\ i + c < j + c
        /\ a[i] = o[i + c] /\ a[j] = o[j + c]
    BY <1>7, <1>3
  <2>2. \A y \in S : y <= i + c \/ y = j + c
    BY <1>1, <1>2, <1>7
  <2>3. o[i + c] = o[j + c]
    BY <1>7, <2>1
  <2> QED
    BY <2>1, <2>2, <2>3 DEF Counter
<1>8. ASSUME NEW i \in T, NEW j \in T, NEW k \in T, i < j, j < k,
             \A x \in T : x <= i \/ x = j \/ x = k, a[i] = a[j], a[j] = a[k]
      PROVE  v = IF a[k] THEN 3 ELSE 0
  <2>1. /\ i + c \in S /\ j + c \in S /\ k + c \in S /\ i + c < j + c /\ j + c < k + c
        /\ a[i] = o[i + c] /\ a[j] = o[j + c] /\ a[k] = o[k + c]
    BY <1>8, <1>3
  <2>2. \A y \in S : y <= i + c \/ y = j + c \/ y = k + c
    <3> TAKE y \in S
    <3>1. CASE y <= i + c
      BY <3>1
    <3>2. CASE y - c \in T
      <4>1. y - c <= i \/ y - c = j \/ y - c = k
        BY <1>8, <3>2
      <4> QED
        BY <1>1, <4>1
    <3> QED
      BY <1>2, <3>1, <3>2
  <2>3. o[i + c] = o[j + c] /\ o[j + c] = o[k + c]
    BY <1>8, <2>1
  <2> QED
    BY <2>1, <2>2, <2>3 DEF Counter
<1>9. ASSUME NEW i \in T, NEW j \in T, NEW k \in T, NEW l \in T, i < j, j < k, k < l,
             \A x \in T : x <= i \/ x = j \/ x = k \/ x = l, a[i] = a[j], a[j] = a[k]
      PROVE  v \in IF a[k] THEN 2..3 ELSE 0..1
  <2>1. /\ i + c \in S /\ j + c \in S /\ k + c \in S /\ l + c \in S
        /\ i + c < j + c /\ j + c < k + c /\ k + c < l + c
        /\ a[i] = o[i + c] /\ a[j] = o[j + c] /\ a[k] = o[k + c]
    BY <1>9, <1>3
  <2>2. \A y \in S : y <= i + c \/ y = j + c \/ y = k + c \/ y = l + c
    <3> TAKE y \in S
    <3>1. CASE y <= i + c
      BY <3>1
    <3>2. CASE y - c \in T
      <4>1. y - c <= i \/ y - c = j \/ y - c = k \/ y - c = l
        BY <1>9, <3>2
      <4> QED
        BY <1>1, <4>1
    <3> QED
      BY <1>2, <3>1, <3>2
  <2>3. o[i + c] = o[j + c] /\ o[j + c] = o[k + c]
    BY <1>9, <2>1
  <2>4. \A x, y, z, w \in S :
           /\ x < y /\ y < z /\ z < w /\ (\A q \in S : q <= x \/ q = y \/ q = z \/ q = w)
           /\ o[x] = o[y] /\ o[y] = o[z]
           => v \in IF o[z] THEN 2..3 ELSE 0..1
    BY DEF Counter
  <2>5. v \in IF o[k + c] THEN 2..3 ELSE 0..1
    BY <2>1, <2>2, <2>3, <2>4
  <2> QED
    BY <2>1, <2>5
<1>10. v \in 0..3
  BY DEF Counter
<1> QED
  BY <1>4, <1>5, <1>6, <1>7, <1>8, <1>9, <1>10 DEF Counter

\* What a counter predicts.
LEMMA CounterPredicts ==
    ASSUME NEW S \in SUBSET Int, NEW o, NEW v, NEW all \in BOOLEAN, Counter(v, S, o, all),
           \A x \in S : o[x] \in BOOLEAN
    PROVE  /\ all /\ S = {} => ~two_bit_is_taken(v)
           /\ all => \A i \in S : S = {i} => two_bit_is_taken(v) = o[i]
           /\ \A i, j \in S :
                 i < j /\ Newest({i, j}, S) /\ o[i] = o[j] => two_bit_is_taken(v) = o[j]
           /\ \A i, j, k, l \in S :
                 /\ i < j /\ j < k /\ k < l /\ Newest({i, j, k, l}, S)
                 /\ o[i] = o[j] /\ o[j] = o[k]
                 => two_bit_is_taken(v) = o[k]
<1>1. two_bit_is_taken(v) = (v >= 2) /\ v \in 0..3
  BY DEF two_bit_is_taken, Counter
<1>2. \A x \in S : (v \in IF o[x] THEN 2..3 ELSE 0..1) => two_bit_is_taken(v) = o[x]
  BY <1>1
<1>3. all /\ S = {} => ~two_bit_is_taken(v)
  <2>1. all /\ S = {} => v = 1
    BY DEF Counter
  <2> QED
    BY <2>1 DEF two_bit_is_taken
<1>4. ASSUME all, NEW i \in S, S = {i} PROVE two_bit_is_taken(v) = o[i]
  <2>1. v = IF o[i] THEN 2 ELSE 0
    BY <1>4 DEF Counter
  <2> QED
    BY <1>2, <2>1
<1>5. ASSUME NEW i \in S, NEW j \in S, i < j, Newest({i, j}, S), o[i] = o[j]
      PROVE  two_bit_is_taken(v) = o[j]
  <2>1. \A x \in S : x <= i \/ x = j
    BY <1>5 DEF Newest
  <2>2. v \in IF o[j] THEN 2..3 ELSE 0..1
    BY <1>5, <2>1 DEF Counter
  <2> QED
    BY <1>2, <2>2
<1>6. ASSUME NEW i \in S, NEW j \in S, NEW k \in S, NEW l \in S, i < j, j < k, k < l,
             Newest({i, j, k, l}, S), o[i] = o[j], o[j] = o[k]
      PROVE  two_bit_is_taken(v) = o[k]
  <2>1. \A x \in S : x <= i \/ x = j \/ x = k \/ x = l
    BY <1>6 DEF Newest
  <2>2. v \in IF o[k] THEN 2..3 ELSE 0..1
    BY <1>6, <2>1 DEF Counter
  <2> QED
    BY <1>2, <2>2
<1> QED
  BY <1>3, <1>4, <1>5, <1>6

-----------------------------------------------------------------------------
(* The outcomes in the window, and the entries that have seen them *)

Outcomes == {o \in Seq(BOOLEAN) : Len(o) <= Window}
bit(o, i) == IF i < 1 THEN FALSE ELSE o[i]

\* How far the window moves when an outcome is added.
moved(o) == IF Len(o) = Window THEN 1 ELSE 0

LEMMA LatestOutcomes ==
    ASSUME NEW o \in Outcomes, NEW b \in BOOLEAN
    PROVE  LET u == Latest(Append(o, b)) IN
           /\ u \in Outcomes /\ Len(u) = Len(o) + 1 - moved(o)
           /\ \A i \in 1..Len(u) : u[i] = IF i + moved(o) = Len(o) + 1 THEN b ELSE o[i + moved(o)]
<1> DEFINE s == Append(o, b)
           u == Latest(s)
           n == Len(o)
           c == moved(o)
<1>1. n \in Nat /\ n <= Window /\ Window \in Nat /\ Window > 3 /\ o \in Seq(BOOLEAN)
  BY PredictorAssumption DEF Outcomes
<1>2. s \in Seq(BOOLEAN) /\ Len(s) = n + 1 /\ \A i \in 1..(n + 1) : s[i] = IF i = n + 1 THEN b ELSE o[i]
  BY <1>1
<1>3. c \in 0..1 /\ (IF Len(s) > Window THEN Len(s) - Window + 1 ELSE 1) = c + 1
  BY <1>1, <1>2 DEF moved
<1>4. u = SubSeq(s, c + 1, n + 1)
  BY <1>2, <1>3 DEF Latest
<1> HIDE DEF s, u
<1>5. u \in Seq(BOOLEAN) /\ Len(u) = n + 1 - c /\ \A i \in 1..(n + 1 - c) : u[i] = s[i + c]
  <2>1. c + 1 \in 1..(Len(s) + 1) /\ n + 1 \in (c + 1) - 1..Len(s) /\ (n + 1) - (c + 1) + 1 = n + 1 - c
    BY <1>1, <1>2, <1>3
  <2>2. /\ SubSeq(s, c + 1, n + 1) \in Seq(BOOLEAN)
        /\ Len(SubSeq(s, c + 1, n + 1)) = (n + 1) - (c + 1) + 1
        /\ \A i \in 1..((n + 1) - (c + 1) + 1) : SubSeq(s, c + 1, n + 1)[i] = s[(c + 1) + i - 1]
    BY <1>1, <1>2, <1>3, <2>1, SubSeqProperties
  <2>3. \A i \in 1..(n + 1 - c) : (c + 1) + i - 1 = i + c
    BY <1>1, <1>3
  <2> QED
    BY <1>4, <2>1, <2>2, <2>3
<1>6. Len(u) <= Window
  BY <1>1, <1>5 DEF moved
<1>7. \A i \in 1..(n + 1 - c) : i + c \in 1..(n + 1)
  BY <1>1, <1>3
<1>8. u \in Outcomes /\ \A i \in 1..Len(u) : u[i] = IF i + c = n + 1 THEN b ELSE o[i + c]
  BY <1>2, <1>5, <1>6, <1>7 DEF Outcomes
<1> QED
  BY <1>5, <1>8 DEF u, s

\* Where the d outcomes before were those of h.
Following(o, d, h) ==
    {i \in 1..Len(o) : (Len(o) < Window \/ i > d) /\ \A k \in 1..d : bit(o, i - k) = h[k]}
\* The last d outcomes, as far as the window shows them, are those of h.
Now(o, d, h) == \A k \in 1..d : Len(o) < Window \/ k <= Len(o) => h[k] = bit(o, Len(o) + 1 - k)

\* With the next outcome the window moves, and of all patterns the present one has
\* one place more.
LEMMA FollowingNext ==
    ASSUME NEW o \in Outcomes, NEW b \in BOOLEAN, NEW d \in Nat, NEW h
    PROVE  LET u == Latest(Append(o, b)) IN
           \A i \in 1..Len(u) :
              Len(u) < Window \/ i > d =>
                (i \in Following(u, d, h) <=>
                    \/ i + moved(o) \in Following(o, d, h)
                    \/ i + moved(o) = Len(o) + 1 /\ \A k \in 1..d : h[k] = bit(o, Len(o) + 1 - k))
<1> DEFINE u == Latest(Append(o, b))
           n == Len(o)
           c == moved(o)
<1>1. n \in Nat /\ n <= Window /\ Window \in Nat
  BY PredictorAssumption DEF Outcomes
<1>2. /\ Len(u) = n + 1 - c
      /\ \A i \in 1..Len(u) : u[i] = IF i + c = n + 1 THEN b ELSE o[i + c]
  BY LatestOutcomes
<1>3. c \in 0..1 /\ (c = 1 <=> n = Window)
  BY <1>1 DEF moved
<1> HIDE DEF u, c, n
<1> SUFFICES ASSUME NEW i \in 1..Len(u), Len(u) < Window \/ i > d
             PROVE  i \in Following(u, d, h) <=>
                      \/ i + c \in Following(o, d, h)
                      \/ i + c = n + 1 /\ \A k \in 1..d : h[k] = bit(o, n + 1 - k)
  BY DEF u, c, n
<1>4. \A k \in 1..d : bit(u, i - k) = bit(o, i + c - k)
  <2> TAKE k \in 1..d
  <2>1. CASE i - k < 1
    <3>1. c = 0
      BY <1>1, <1>2, <1>3, <2>1
    <3>2. i + c - k = i - k
      BY <3>1
    <3> QED
      BY <2>1, <3>2 DEF bit
  <2>2. CASE ~(i - k < 1)
    <3>1. i - k \in 1..Len(u) /\ (i - k) + c # n + 1 /\ (i - k) + c = i + c - k /\ ~(i + c - k < 1)
      BY <1>1, <1>2, <1>3, <2>2
    <3>2. u[i - k] = o[i + c - k]
      BY <1>2, <3>1
    <3> QED
      BY <2>2, <3>1, <3>2 DEF bit
  <2> QED
    BY <2>1, <2>2
<1>5. i \in Following(u, d, h) <=> \A k \in 1..d : bit(o, i + c - k) = h[k]
  BY <1>4 DEF Following
<1> DEFINE j == i + c
           Suits(m) == \A k \in 1..d : bit(o, m - k) = h[k]
<1>6. j \in Int /\ (j \in Following(o, d, h) <=> j \in 1..n /\ (n < Window \/ j > d) /\ Suits(j))
  BY <1>1, <1>3 DEF Following, n
<1>7. i \in Following(u, d, h) <=> Suits(j)
  BY <1>3, <1>5
<1>8. Suits(n + 1) <=> \A k \in 1..d : h[k] = bit(o, n + 1 - k)
  BY <1>1
<1> HIDE DEF Suits
<1>9. CASE j = n + 1
  <2>1. j \notin Following(o, d, h)
    BY <1>1, <1>9, <1>6
  <2> QED
    BY <1>9, <1>7, <1>8, <2>1
<1>10. CASE j # n + 1
  <2>1. j \in 1..n /\ (n < Window \/ j > d)
    BY <1>1, <1>2, <1>3, <1>10
  <2> QED
    BY <1>10, <1>6, <1>7, <2>1
<1> QED
  BY <1>9, <1>10

\* A counter of what followed one pattern counts the next outcome if that is the
\* pattern now.
LEMMA CounterNext ==
    ASSUME NEW o \in Outcomes, NEW b \in BOOLEAN, NEW d \in Nat, NEW h, NEW v,
           Counter(v, Following(o, d, h), o, Len(o) < Window)
    PROVE  LET u == Latest(Append(o, b)) IN
           Counter(IF Now(o, d, h) THEN two_bit_update(v, b) ELSE v,
                   Following(u, d, h), u, Len(u) < Window)
<1> DEFINE u == Latest(Append(o, b))
           a == Append(o, b)
           n == Len(o)
           c == moved(o)
           S == Following(o, d, h)
           T == Following(u, d, h)
           S2 == IF Now(o, d, h) THEN S \cup {n + 1} ELSE S
           w == IF Now(o, d, h) THEN two_bit_update(v, b) ELSE v
           Here == \A k \in 1..d : h[k] = bit(o, n + 1 - k)
<1>1. n \in Nat /\ n <= Window /\ Window \in Nat /\ o \in Seq(BOOLEAN)
  BY PredictorAssumption DEF Outcomes
<1>2. /\ u \in Outcomes /\ Len(u) = n + 1 - c
      /\ \A i \in 1..Len(u) : u[i] = IF i + c = n + 1 THEN b ELSE o[i + c]
  BY LatestOutcomes
<1>3. c \in 0..1 /\ (c = 1 <=> n = Window)
  BY <1>1 DEF moved
<1>4. /\ a[n + 1] = b /\ \A i \in 1..n : a[i] = o[i] /\ o[i] \in BOOLEAN
  BY <1>1
<1>5. S \in SUBSET (1..n) /\ T \in SUBSET (1..Len(u))
  BY DEF Following
<1>6. \A i \in T : Len(u) < Window \/ i > d
  BY DEF Following
<1>7. \A i \in 1..Len(u) : Len(u) < Window \/ i > d =>
          (i \in T <=> i + c \in S \/ (i + c = n + 1 /\ Here))
  BY FollowingNext
<1>8. n < Window \/ n > d => (Now(o, d, h) <=> Here)
  <2> SUFFICES ASSUME n < Window \/ n > d PROVE Now(o, d, h) <=> Here
    OBVIOUS
  <2>1. \A k \in 1..d : Len(o) < Window \/ k <= Len(o)
    BY <1>1
  <2> QED
    BY <2>1 DEF Now
<1> HIDE DEF u, a, c, S, T, Here
<1>9. \A i \in 1..Len(u) : Len(u) < Window \/ i > d => (i \in T <=> i + c \in S2)
  <2> TAKE i \in 1..Len(u)
  <2> HAVE Len(u) < Window \/ i > d
  <2>1. i + c = n + 1 => (Now(o, d, h) <=> Here)
    BY <1>1, <1>2, <1>3, <1>8
  <2> QED
    BY <1>7, <2>1
<1>10. Counter(w, S2, a, n < Window)
  <2>1. Counter(v, S, o, n < Window)
    BY DEF S
  <2>2. \A x \in S : x < n + 1 /\ a[x] = o[x] /\ o[x] \in BOOLEAN
    BY <1>1, <1>4, <1>5
  <2>3. S \in SUBSET Int /\ n + 1 \in Int /\ (n < Window) \in BOOLEAN
    BY <1>1, <1>5
  <2>4. CASE Now(o, d, h)
    <3>1. Counter(two_bit_update(v, b), S \cup {n + 1}, a, n < Window)
      BY <1>4, <2>1, <2>2, <2>3, CounterUpdate
    <3> QED
      BY <2>4, <3>1
  <2>5. CASE ~Now(o, d, h)
    <3> DEFINE all == n < Window
    <3>1. Counter(v, S, o, all) /\ all \in BOOLEAN
      BY <2>1
    <3> HIDE DEF all
    <3>2. Slid(S, o, S, a, 0) /\ Whole(S, S, 0)
      BY <2>2, <2>3 DEF Slid, Whole
    <3>3. Counter(v, S, a, all)
      BY <2>3, <3>1, <3>2, CounterKept
    <3> QED
      BY <2>5, <3>3 DEF all
  <2> QED
    BY <2>4, <2>5
<1>11. S2 \in SUBSET (1..(n + 1)) /\ \A y \in S2 : y \in 1..(n + 1)
  <2>1. \A y \in S : y \in 1..n
    BY <1>5
  <2>2. \A y \in S2 : y \in S \/ y = n + 1
    OBVIOUS
  <2>3. \A y \in S2 : y \in 1..(n + 1)
    BY <1>1, <2>1, <2>2
  <2> HIDE DEF S2
  <2> QED
    BY <2>3
<1> HIDE DEF S2, w
<1>12. \A x \in T : x + c \in S2 /\ u[x] = a[x + c]
  <2> TAKE x \in T
  <2>1. x \in 1..Len(u) /\ x + c \in S2
    BY <1>5, <1>6, <1>9
  <2>2. u[x] = IF x + c = n + 1 THEN b ELSE o[x + c]
    BY <1>2, <2>1
  <2>3. x + c # n + 1 => x + c \in 1..n
    <3> DEFINE y == x + c
    <3>1. y \in 1..(n + 1)
      BY <1>11, <2>1
    <3> HIDE DEF y
    <3>2. y # n + 1 => y \in 1..n
      BY <1>1, <3>1
    <3> QED
      BY <3>2 DEF y
  <2> QED
    BY <1>4, <2>1, <2>2, <2>3
<1>13. \A y \in S2 : y - c \in Int /\ (y - c) + c = y /\ y - c <= Len(u)
  BY <1>1, <1>2, <1>3, <1>11
<1>14. \A x \in T : \A y \in S2 : x + c < y => y - c \in T
  <2> TAKE x \in T
  <2> TAKE y \in S2
  <2> HAVE x + c < y
  <2>1. x \in 1..Len(u) /\ (Len(u) < Window \/ x > d)
    BY <1>5, <1>6
  <2>2. y - c \in 1..Len(u) /\ x < y - c
    BY <1>1, <1>2, <1>3, <1>11, <1>13, <2>1
  <2>3. Len(u) < Window \/ y - c > d
    BY <2>1, <2>2
  <2> QED
    BY <1>9, <1>13, <2>2, <2>3
<1>15. Len(u) < Window => n < Window /\ \A y \in S2 : y - c \in T
  <2> SUFFICES ASSUME Len(u) < Window PROVE n < Window /\ \A y \in S2 : y - c \in T
    OBVIOUS
  <2>1. c = 0 /\ n < Window /\ Len(u) = n + 1
    BY <1>1, <1>2, <1>3
  <2>2. \A y \in S2 : y - c \in 1..Len(u)
    BY <1>1, <1>11, <2>1
  <2> QED
    BY <1>9, <1>13, <2>1, <2>2
<1>16. Counter(w, T, u, Len(u) < Window)
  <2>1. S2 \in SUBSET Int /\ T \in SUBSET Int /\ c \in Int
    BY <1>1, <1>2, <1>3, <1>5, <1>11
  <2> DEFINE all == n < Window
             all2 == Len(u) < Window
  <2>2. all \in BOOLEAN /\ all2 \in BOOLEAN /\ Counter(w, S2, a, all)
    BY <1>10
  <2>3. Slid(S2, a, T, u, c) /\ (all2 => all /\ Whole(S2, T, c))
    BY <1>12, <1>14, <1>15 DEF Slid, Whole
  <2> HIDE DEF all, all2
  <2>4. Counter(w, T, u, all2)
    BY <2>1, <2>2, <2>3, CounterKept
  <2> QED
    BY <2>4 DEF all2
<1> QED
  BY <1>16 DEF w, T, u

\* The table of an adaptive entry has a counter for every pattern.
Table == [0..(patterns[DEPTH] - 1) -> 0..3]
Adapted(T, p, o) ==
    /\ T \in Table
    /\ \E h \in Bits : Encodes(p, h) /\ Now(o, DEPTH, h)
    /\ \A q, h : h \in Bits /\ Encodes(q, h)
                   => Counter(T[q], Following(o, DEPTH, h), o, Len(o) < Window)

\* What the entry of a branch with these outcomes is.
Learned(e, o) ==
    /\ mode = "saturating_one_bit" /\ Len(o) > 0 => e = IF o[Len(o)] THEN 1 ELSE 0
    /\ mode = "saturating_two_bits" => Counter(e, Following(o, 0, <<>>), o, Len(o) < Window)
    /\ mode = "adaptive_two_levels" =>
          \E T, p : e = [state_table |-> T, pattern |-> p] /\ Adapted(T, p, o)

LEMMA CounterNew ==
    ASSUME NEW d, NEW h
    PROVE  Counter(1, Following(<<>>, d, h), <<>>, Len(<<>>) < Window)
<1>1. Following(<<>>, d, h) = {}
  BY DEF Following
<1> QED
  BY <1>1 DEF Counter

\* An entry that has been reset has learned nothing.
LEMMA LearnedReset == Learned(reset, <<>>)
<1>1. Window \in Nat /\ Window > 3 /\ DEPTH \in Nat \ {0}
  BY PredictorAssumption
<1>2. mode = "saturating_one_bit" /\ Len(<<>>) > 0 => reset = IF <<>>[Len(<<>>)] THEN 1 ELSE 0
  OBVIOUS
<1>3. ASSUME mode = "saturating_two_bits"
      PROVE  Counter(reset, Following(<<>>, 0, <<>>), <<>>, Len(<<>>) < Window)
  <2>1. reset = 1
    BY <1>3 DEF reset, default_value
  <2> QED
    BY <2>1, CounterNew
<1>4. ASSUME mode = "adaptive_two_levels"
      PROVE  \E T, p : reset = [state_table |-> T, pattern |-> p] /\ Adapted(T, p, <<>>)
  <2> DEFINE T == [q \in 0..(patterns[DEPTH] - 1) |-> 1]
             h == [k \in 1..DEPTH |-> FALSE]
             r == [k \in 0..DEPTH |-> 0]
  <2>1. reset = [state_table |-> T, pattern |-> 0]
    BY <1>4 DEF reset, default_value
  <2>2. T \in Table
    BY DEF Table
  <2>3. h \in Bits /\ Chain(r, h) /\ r[DEPTH] = 0
    BY <1>1 DEF Bits, Chain
  <2>4. Encodes(0, h)
    <3> HIDE DEF r, h
    <3> QED
      BY <2>3 DEF Encodes
  <2>5. Now(<<>>, DEPTH, h)
    <3>1. \A k \in 1..DEPTH : h[k] = FALSE /\ 0 + 1 - k < 1
      BY <1>1
    <3>2. \A k \in 1..DEPTH : bit(<<>>, Len(<<>>) + 1 - k) = FALSE
      BY <3>1 DEF bit
    <3> HIDE DEF h
    <3> QED
      BY <3>1, <3>2 DEF Now
  <2>6. ASSUME NEW q, NEW g \in Bits, Encodes(q, g)
        PROVE  Counter(T[q], Following(<<>>, DEPTH, g), <<>>, Len(<<>>) < Window)
    <3>1. T[q] = 1
      BY <2>6, NumberInTable
    <3> QED
      BY <3>1, CounterNew
  <2> HIDE DEF T, h
  <2>7. Adapted(T, 0, <<>>)
    BY <2>2, <2>3, <2>4, <2>5, <2>6 DEF Adapted
  <2> QED
    BY <2>1, <2>7
<1> QED
  BY <1>2, <1>3, <1>4 DEF Learned

\* Two patterns with the same number are one.
LEMMA NowOne ==
    ASSUME NEW o \in Outcomes, NEW h \in Bits, NEW g \in Bits,
           Now(o, DEPTH, h), Now(o, DEPTH, g), Len(o) < Window \/ DEPTH <= Len(o)
    PROVE  h = g
<1>1. DEPTH \in Nat /\ Len(o) \in Nat
  BY PredictorAssumption DEF Outcomes
<1>2. \A k \in 1..DEPTH : Len(o) < Window \/ k <= Len(o)
  BY <1>1
<1>3. \A k \in 1..DEPTH : h[k] = g[k]
  BY <1>2 DEF Now
<1>4. h = [k \in 1..DEPTH |-> h[k]] /\ g = [k \in 1..DEPTH |-> g[k]]
  BY DEF Bits
<1> QED
  BY <1>3, <1>4

\* The table counts an outcome for the pattern it came after, and for no other.
LEMMA AdaptedUpdate ==
    ASSUME NEW o \in Outcomes, NEW b \in BOOLEAN, NEW T, NEW p, Adapted(T, p, o)
    PROVE  Adapted([T EXCEPT ![p] = two_bit_update(T[p], b)], pattern_update(p, b),
                   Latest(Append(o, b)))
<1> DEFINE u == Latest(Append(o, b))
           c == moved(o)
           n == Len(o)
           U == [T EXCEPT ![p] = two_bit_update(T[p], b)]
<1>1. n \in Nat /\ n <= Window /\ Window \in Nat /\ DEPTH \in Nat \ {0}
  BY PredictorAssumption DEF Outcomes
<1>2. PICK h \in Bits : Encodes(p, h) /\ Now(o, DEPTH, h)
  BY DEF Adapted
<1>3. T \in Table /\ p \in 0..(patterns[DEPTH] - 1)
  BY <1>2, NumberInTable DEF Adapted
<1>4. U \in Table
  <2>1. T[p] \in 0..3
    BY <1>3 DEF Table
  <2>2. two_bit_update(T[p], b) \in 0..3
    BY <2>1 DEF two_bit_update
  <2> QED
    BY <1>3, <2>2 DEF Table
<1>5. /\ Len(u) = n + 1 - c
      /\ \A i \in 1..Len(u) : u[i] = IF i + c = n + 1 THEN b ELSE o[i + c]
  BY LatestOutcomes
<1>6. c \in 0..1 /\ (c = 1 <=> n = Window)
  BY <1>1 DEF moved
<1>7. Entered(h, b) \in Bits /\ Encodes(pattern_update(p, b), Entered(h, b))
  BY <1>2, PatternUpdate
<1>8. Now(u, DEPTH, Entered(h, b))
  <2> HIDE DEF u, c, n
  <2> SUFFICES ASSUME NEW k \in 1..DEPTH, Len(u) < Window \/ k <= Len(u)
               PROVE  Entered(h, b)[k] = bit(u, Len(u) + 1 - k)
    BY DEF Now
  <2>1. CASE k = 1
    <3>1. Entered(h, b)[k] = b
      BY <1>1, <2>1 DEF Entered
    <3>2. Len(u) + 1 - k = Len(u) /\ Len(u) \in 1..Len(u)
      BY <1>1, <1>5, <1>6, <2>1, PredictorAssumption
    <3>3. u[Len(u)] = b
      BY <1>1, <1>5, <1>6, <3>2
    <3>4. ~(Len(u) < 1)
      BY <3>2
    <3>5. bit(u, Len(u)) = b
      BY <3>3, <3>4 DEF bit
    <3> QED
      BY <3>1, <3>2, <3>5
  <2>2. CASE k # 1
    <3>1. k - 1 \in 1..DEPTH /\ Entered(h, b)[k] = h[k - 1]
      BY <1>1, <2>2 DEF Entered
    <3>2. n < Window \/ k - 1 <= n
      BY <1>1, <1>5, <1>6
    <3>3. h[k - 1] = bit(o, n + 1 - (k - 1))
      BY <1>2, <3>1, <3>2 DEF Now, n
    <3> DEFINE i == Len(u) + 1 - k
    <3>4. i \in Int /\ i <= n /\ i + c = n + 1 - (k - 1)
      BY <1>1, <1>5, <1>6, <2>2
    <3>5. i < 1 => c = 0
      BY <1>1, <1>5, <1>6
    <3>6. i >= 1 => i \in 1..Len(u) /\ i + c # n + 1
      BY <1>1, <1>5, <1>6, <2>2
    <3> HIDE DEF i
    <3>7. bit(u, i) = bit(o, i + c)
      <4>1. CASE i < 1
        BY <3>4, <3>5, <4>1 DEF bit
      <4>2. CASE ~(i < 1)
        <5>1. u[i] = o[i + c] /\ ~(i + c < 1)
          BY <1>5, <1>6, <3>4, <3>6, <4>2
        <5> QED
          BY <4>2, <5>1 DEF bit
      <4> QED
        BY <4>1, <4>2
    <3> QED
      BY <3>1, <3>3, <3>4, <3>7 DEF i
  <2> QED
    BY <2>1, <2>2
<1>9. ASSUME NEW q, NEW g, g \in Bits, Encodes(q, g)
      PROVE  Counter(U[q], Following(u, DEPTH, g), u, Len(u) < Window)
  <2>1. q \in 0..(patterns[DEPTH] - 1)
    BY <1>9, NumberInTable
  <2>2. Counter(T[q], Following(o, DEPTH, g), o, n < Window)
    BY <1>9 DEF Adapted
  <2>3. Counter(IF Now(o, DEPTH, g) THEN two_bit_update(T[q], b) ELSE T[q],
                Following(u, DEPTH, g), u, Len(u) < Window)
    BY <1>1, <2>2, CounterNext
  <2>4. CASE q = p
    <3>1. g = h
      BY <1>2, <1>9, <2>4, OneBits
    <3>2. Now(o, DEPTH, g)
      BY <1>2, <3>1
    <3>3. U[q] = two_bit_update(T[q], b)
      BY <1>3, <2>4 DEF Table
    <3> QED
      BY <2>3, <3>2, <3>3
  <2>5. CASE q # p /\ (n < Window \/ DEPTH <= n)
    <3>1. g # h
      BY <1>2, <1>9, <2>5, OneNumber
    <3>2. ~Now(o, DEPTH, g)
      BY <1>2, <1>9, <2>5, <3>1, NowOne
    <3>3. U[q] = T[q]
      BY <1>3, <2>1, <2>5 DEF Table
    <3> QED
      BY <2>3, <3>2, <3>3
  <2>6. CASE ~(n < Window \/ DEPTH <= n)
    <3>1. Len(u) = Window /\ Window < DEPTH
      BY <1>1, <1>5, <1>6, <2>6
    <3>2. Following(u, DEPTH, g) = {}
      BY <1>1, <3>1 DEF Following
    <3>3. U[q] \in 0..3 /\ ~(Len(u) < Window)
      BY <1>1, <1>4, <2>1, <3>1 DEF Table
    <3> HIDE DEF u, U
    <3> QED
      BY <3>2, <3>3 DEF Counter
  <2> QED
    BY <2>4, <2>5, <2>6
<1> HIDE DEF U, u
<1>10. Adapted(U, pattern_update(p, b), u)
  BY <1>4, <1>7, <1>8, <1>9 DEF Adapted
<1> QED
  BY <1>10 DEF U, u

\* An entry learns each outcome of its branch.
LEMMA LearnedUpdate ==
    ASSUME NEW o \in Outcomes, NEW b \in BOOLEAN, NEW e, Learned(e, o)
    PROVE  Learned(entry_update(e, b), Latest(Append(o, b)))
<1> DEFINE u == Latest(Append(o, b))
<1>1. Len(o) \in Nat /\ Len(o) <= Window /\ Window \in Nat /\ Window > 3
  BY PredictorAssumption DEF Outcomes
<1>2. /\ Len(u) = Len(o) + 1 - moved(o)
      /\ \A i \in 1..Len(u) : u[i] = IF i + moved(o) = Len(o) + 1 THEN b ELSE o[i + moved(o)]
  BY LatestOutcomes
<1>3. ASSUME mode = "saturating_one_bit" PROVE entry_update(e, b) = IF u[Len(u)] THEN 1 ELSE 0
  <2>1. Len(u) \in 1..Len(u) /\ Len(u) + moved(o) = Len(o) + 1
    BY <1>1, <1>2 DEF moved
  <2>2. u[Len(u)] = b
    BY <1>2, <2>1
  <2> QED
    BY <1>3, <2>2 DEF entry_update
<1>4. ASSUME mode = "saturating_two_bits"
      PROVE  Counter(entry_update(e, b), Following(u, 0, <<>>), u, Len(u) < Window)
  <2>1. Counter(e, Following(o, 0, <<>>), o, Len(o) < Window)
    BY <1>4 DEF Learned
  <2>2. Now(o, 0, <<>>)
    BY DEF Now
  <2>3. Counter(two_bit_update(e, b), Following(u, 0, <<>>), u, Len(u) < Window)
    BY <2>1, <2>2, CounterNext
  <2>4. entry_update(e, b) = two_bit_update(e, b)
    BY <1>4 DEF entry_update
  <2> QED
    BY <2>3, <2>4
<1>5. ASSUME mode = "adaptive_two_levels"
      PROVE  \E T, p : entry_update(e, b) = [state_table |-> T, pattern |-> p] /\ Adapted(T, p, u)
  <2>1. PICK T, p : e = [state_table |-> T, pattern |-> p] /\ Adapted(T, p, o)
    BY <1>5 DEF Learned
  <2> DEFINE U == [T EXCEPT ![p] = two_bit_update(T[p], b)]
  <2>2. Adapted(U, pattern_update(p, b), u)
    BY <2>1, AdaptedUpdate
  <2>3. entry_update(e, b) = [state_table |-> U, pattern |-> pattern_update(p, b)]
    <3>1. e.state_table = T /\ e.pattern = p
      BY <2>1
    <3>2. entry_update(e, b) =
             [state_table |-> [e.state_table EXCEPT ![e.pattern] = two_bit_update(@, b)],
              pattern |-> pattern_update(e.pattern, b)]
      BY <1>5 DEF entry_update
    <3> QED
      BY <3>1, <3>2
  <2> HIDE DEF U, u
  <2> QED
    BY <2>2, <2>3
<1> HIDE DEF u
<1>6. Learned(entry_update(e, b), u)
  BY <1>3, <1>4, <1>5 DEF Learned
<1> QED
  BY <1>6 DEF u

-----------------------------------------------------------------------------
(* Every branch in the buffer has an entry that has seen its outcomes. *)

OwnEntries ==
    /\ directions = [w \in Way |-> directions[w]]
    /\ \A t \in DOMAIN history :
          /\ history[t].outcomes \in Outcomes /\ Len(history[t].outcomes) > 0
          /\ Learned(directions[lookup_helper[t]], history[t].outcomes)

LEMMA EntriesInit == Init => OwnEntries
<1> SUFFICES ASSUME Init PROVE OwnEntries
  OBVIOUS
<1>1. directions = [w \in Way |-> directions[w]]
  BY DEF Init, Way
<1>2. DOMAIN history = {}
  BY DEF Init
<1> QED
  BY <1>1, <1>2 DEF OwnEntries

\* A branch that enters the buffer starts with an entry that is reset and with
\* no outcomes; the others keep both.
LEMMA EntriesUpdate ==
    ASSUME IInv, OwnEntries, NEW t \in Tags, NEW taken \in BOOLEAN, NEW target \in Targets,
           update(t, taken, target)
    PROVE  OwnEntries'
<1> DEFINE w == IF is_hit(t) THEN lookup_helper[t] ELSE B!victim(policy, replacement_info)
           e == IF is_hit(t) THEN directions[w] ELSE entry_on_miss(w)
           h == IF is_hit(t) THEN history[t].outcomes ELSE <<>>
           held == {tags[v] : v \in Way \ {w}} \ {NoTag}
           u == Latest(Append(h, taken))
<1>1. /\ P!IInv'
      /\ w \in Way /\ lookup_helper'[t] = w
      /\ DOMAIN lookup_helper' = held \union {t}
      /\ \A x \in held : x # t =>
            /\ lookup_helper'[x] = lookup_helper[x] /\ lookup_helper[x] \in Way \ {w}
            /\ x \in DOMAIN history
  BY Placed
<1>2. /\ directions' = [directions EXCEPT ![w] = entry_update(e, taken)]
      /\ history' = [x \in held \union {t} |->
                        IF x = t THEN [outcomes |-> u, target |-> target] ELSE history[x]]
      /\ mode' = mode
  BY DEF update, Way
<1>3. h \in Outcomes /\ Learned(e, h)
  <2>1. CASE is_hit(t)
    <3>1. t \in DOMAIN history
      BY <2>1 DEF IInv, OwnTargets, is_hit, B!read_no_touch
    <3> QED
      BY <2>1, <3>1 DEF OwnEntries
  <2>2. CASE ~is_hit(t)
    <3>1. h = <<>> /\ e = reset
      BY <2>2 DEF entry_on_miss
    <3>2. <<>> \in Outcomes
      BY PredictorAssumption DEF Outcomes
    <3> QED
      BY <3>1, <3>2, LearnedReset
  <2> QED
    BY <2>1, <2>2
<1> HIDE DEF w, e, h, held
<1>4. u \in Outcomes /\ Len(u) > 0 /\ Learned(entry_update(e, taken), u)
  <2>1. u \in Outcomes /\ Len(u) = Len(h) + 1 - moved(h)
    BY <1>3, LatestOutcomes
  <2>2. Len(u) > 0
    BY <1>3, <2>1, PredictorAssumption DEF moved, Outcomes
  <2> QED
    BY <1>3, <2>1, <2>2, LearnedUpdate
<1> HIDE DEF u
<1>5. /\ directions' = [v \in Way |-> directions'[v]]
      /\ directions'[w] = entry_update(e, taken)
      /\ \A v \in Way \ {w} : directions'[v] = directions[v]
  BY <1>1, <1>2 DEF OwnEntries
<1>6. /\ DOMAIN history' = held \union {t} /\ history'[t].outcomes = u
      /\ \A x \in held : x # t => history'[x] = history[x]
  <2> DEFINE r == [outcomes |-> u, target |-> target]
  <2>1. history' = [x \in held \union {t} |-> IF x = t THEN r ELSE history[x]] /\ r.outcomes = u
    BY <1>2
  <2> HIDE DEF r
  <2> QED
    BY <2>1
<1>7. \A x, o : Learned(x, o)' <=> Learned(x, o)
  BY <1>2 DEF Learned
<1>8. ASSUME NEW x \in held \union {t}
      PROVE  /\ history'[x].outcomes \in Outcomes /\ Len(history'[x].outcomes) > 0
             /\ Learned(directions'[lookup_helper'[x]], history'[x].outcomes)
  <2>1. CASE x = t
    BY <1>1, <1>4, <1>5, <1>6, <2>1
  <2>2. CASE x # t
    <3>1. /\ x \in held /\ x \in DOMAIN history /\ history'[x] = history[x]
          /\ lookup_helper'[x] = lookup_helper[x] /\ lookup_helper[x] \in Way \ {w}
      BY <1>1, <1>6, <2>2
    <3>2. directions'[lookup_helper'[x]] = directions[lookup_helper[x]]
      BY <1>5, <3>1
    <3> QED
      BY <3>1, <3>2 DEF OwnEntries
  <2> QED
    BY <2>1, <2>2
<1> QED
  BY <1>5, <1>6, <1>7, <1>8 DEF OwnEntries, Way, Learned

LEMMA EntriesStep == IInv /\ OwnEntries /\ [Next]_vars => OwnEntries'
<1> SUFFICES ASSUME IInv, OwnEntries, [Next]_vars PROVE OwnEntries'
  OBVIOUS
<1>1. CASE Next
  BY <1>1, EntriesUpdate DEF Next
<1>2. CASE UNCHANGED vars
  BY <1>2 DEF vars, btb, OwnEntries, Learned
<1> QED
  BY <1>1, <1>2

\* What an entry that has seen these outcomes predicts in the adaptive mode: the
\* places that count are those that the property looks at.
LEMMA AlikeFollows ==
    ASSUME NEW o \in Outcomes, NEW d \in Nat, NEW h, Now(o, d, h)
    PROVE  Alike(o, d) = IF Len(o) < Window \/ d < Len(o) THEN Following(o, d, h) ELSE {}
<1>1. Len(o) \in Nat /\ Len(o) <= Window /\ Window \in Nat
  BY PredictorAssumption DEF Outcomes
<1>2. Alike(o, d) = {i \in 1..Len(o) : /\ Len(o) < Window \/ i > d
                                       /\ \A k \in 1..d : bit(o, i - k) = bit(o, Len(o) + 1 - k)}
  BY DEF Alike, bit
<1>3. CASE Len(o) < Window \/ d < Len(o)
  <2>1. \A k \in 1..d : h[k] = bit(o, Len(o) + 1 - k)
    BY <1>1, <1>3 DEF Now
  <2> QED
    BY <1>2, <1>3, <2>1 DEF Following
<1>4. CASE ~(Len(o) < Window \/ d < Len(o))
  BY <1>1, <1>2, <1>4
<1> QED
  BY <1>3, <1>4

\* For every number of ways, replacement policy, mode and depth of the adaptive
\* table, whatever the branch stage reports: the direction that is predicted for a
\* branch is a matter of its own outcomes since it entered the buffer.
THEOREM PredictorOwnHistory == Spec => []PredictsOwnHistory
<1>1. IInv /\ OwnEntries => PredictsOwnHistory
  <2> SUFFICES ASSUME IInv, OwnEntries, NEW t \in DOMAIN history
               PROVE  LET o == history[t].outcomes
                          all == Len(o) < Window
                          S == Alike(o, IF mode = "adaptive_two_levels" THEN DEPTH ELSE 0)
                      IN  /\ is_hit(t)
                          /\ mode = "saturating_one_bit" => is_taken(t) = o[Len(o)]
                          /\ mode \in {"saturating_two_bits", "adaptive_two_levels"} =>
                               /\ all /\ S = {} => ~is_taken(t)
                               /\ all => \A i \in S : S = {i} => is_taken(t) = o[i]
                               /\ \A i, j \in S : i < j /\ o[i] = o[j] =>
                                     /\ Newest({i, j}, S) => is_taken(t) = o[j]
                                     /\ \A k, l \in S :
                                           j < k /\ k < l /\ Newest({i, j, k, l}, S) /\ o[j] = o[k]
                                             => is_taken(t) = o[k]
    BY DEF PredictsOwnHistory
  <2> DEFINE o == history[t].outcomes
             all == Len(o) < Window
             e == directions[lookup_helper[t]]
             Says(v, S) ==
                /\ all /\ S = {} => ~two_bit_is_taken(v)
                /\ all => \A i \in S : S = {i} => two_bit_is_taken(v) = o[i]
                /\ \A i, j \in S :
                      i < j /\ Newest({i, j}, S) /\ o[i] = o[j] => two_bit_is_taken(v) = o[j]
                /\ \A i, j, k, l \in S :
                      /\ i < j /\ j < k /\ k < l /\ Newest({i, j, k, l}, S)
                      /\ o[i] = o[j] /\ o[j] = o[k]
                      => two_bit_is_taken(v) = o[k]
             Agrees(S) ==
                /\ all /\ S = {} => ~is_taken(t)
                /\ all => \A i \in S : S = {i} => is_taken(t) = o[i]
                /\ \A i, j \in S : i < j /\ o[i] = o[j] =>
                      /\ Newest({i, j}, S) => is_taken(t) = o[j]
                      /\ \A k, l \in S :
                            j < k /\ k < l /\ Newest({i, j, k, l}, S) /\ o[j] = o[k]
                              => is_taken(t) = o[k]
             TakenBy(v) == (is_taken(t) <=> two_bit_is_taken(v)) /\ two_bit_is_taken(v) \in BOOLEAN
  <2>1. is_hit(t)
    BY DEF IInv, OwnTargets, is_hit, B!read_no_touch
  <2>2. o \in Outcomes /\ Len(o) > 0 /\ Learned(e, o)
    BY DEF OwnEntries
  <2>3. Len(o) \in Nat /\ o \in Seq(BOOLEAN)
    BY <2>2 DEF Outcomes
  <2>4. is_taken(t) <=> entry_is_taken(e, address(t), targets[lookup_helper[t]])
    BY <2>1 DEF is_taken
  <2>5. ASSUME NEW d \in Nat, NEW h, NEW v, Now(o, d, h), Counter(v, Following(o, d, h), o, all)
        PROVE  Says(v, Alike(o, d))
    <3>1. Following(o, d, h) \in SUBSET Int /\ \A x \in Following(o, d, h) : o[x] \in BOOLEAN
      BY <2>3 DEF Following
    <3>2. CASE all \/ d < Len(o)
      <4>1. Alike(o, d) = Following(o, d, h)
        BY <2>2, <2>5, <3>2, AlikeFollows
      <4>2. all \in BOOLEAN /\ Counter(v, Following(o, d, h), o, all)
        BY <2>5
      <4> HIDE DEF all, o
      <4>3. Says(v, Following(o, d, h))
        BY <3>1, <4>2, CounterPredicts
      <4> QED
        BY <4>1, <4>3
    <3>3. CASE ~(all \/ d < Len(o))
      <4>1. Alike(o, d) = {}
        BY <2>2, <2>5, <3>3, AlikeFollows
      <4> HIDE DEF all, o
      <4> QED
        BY <3>3, <4>1
    <3> QED
      BY <3>2, <3>3
  <2>6. ASSUME mode = "saturating_one_bit" PROVE is_taken(t) = o[Len(o)]
    <3>1. e = IF o[Len(o)] THEN 1 ELSE 0
      BY <2>2, <2>6 DEF Learned
    <3>2. is_taken(t) <=> e = 1
      BY <2>4, <2>6 DEF entry_is_taken
    <3>3. o[Len(o)] \in BOOLEAN
      BY <2>2, <2>3
    <3>4. is_taken(t) \in BOOLEAN
      BY DEF is_taken, is_hit, B!read_no_touch
    <3> HIDE DEF e, o
    <3> QED
      BY <3>1, <3>2, <3>3, <3>4
  <2>7. ASSUME mode = "saturating_two_bits" PROVE Says(e, Alike(o, 0)) /\ TakenBy(e)
    <3>1. Counter(e, Following(o, 0, <<>>), o, all) /\ Now(o, 0, <<>>)
      BY <2>2, <2>7 DEF Learned, Now
    <3>2. Says(e, Alike(o, 0))
      <4> HIDE DEF Says, o, all, e
      <4> QED
        BY <2>5, <3>1
    <3> HIDE DEF Says
    <3> QED
      BY <2>4, <2>7, <3>2 DEF entry_is_taken, two_bit_is_taken
  <2>8. ASSUME mode = "adaptive_two_levels" PROVE \E v : Says(v, Alike(o, DEPTH)) /\ TakenBy(v)
    <3>1. PICK T, p : e = [state_table |-> T, pattern |-> p] /\ Adapted(T, p, o)
      BY <2>2, <2>8 DEF Learned
    <3>2. PICK h \in Bits : Encodes(p, h) /\ Now(o, DEPTH, h)
      BY <3>1 DEF Adapted
    <3>3. Counter(T[p], Following(o, DEPTH, h), o, all)
      BY <3>1, <3>2 DEF Adapted
    <3>4. Says(T[p], Alike(o, DEPTH))
      <4>1. DEPTH \in Nat
        BY PredictorAssumption
      <4> HIDE DEF Says, o, all, e
      <4> QED
        BY <2>5, <3>2, <3>3, <4>1
    <3>5. e.state_table[e.pattern] = T[p]
      BY <3>1
    <3>6. TakenBy(T[p])
      BY <2>4, <2>8, <3>5 DEF entry_is_taken, two_bit_is_taken
    <3> HIDE DEF Says, TakenBy
    <3> QED
      BY <3>4, <3>6
  <2>9. ASSUME NEW v, NEW S, Says(v, S), TakenBy(v) PROVE Agrees(S)
    <3>1. is_taken(t) \in BOOLEAN
      BY DEF is_taken, is_hit, B!read_no_touch
    <3>2. is_taken(t) = two_bit_is_taken(v)
      BY <2>9, <3>1
    <3> HIDE DEF o, all
    <3> QED
      BY <2>9, <3>2
  <2> HIDE DEF o, all, e, Says, TakenBy, Agrees
  <2>10. mode \in {"saturating_two_bits", "adaptive_two_levels"} =>
            \E v : Says(v, Alike(o, IF mode = "adaptive_two_levels" THEN DEPTH ELSE 0)) /\ TakenBy(v)
    BY <2>7, <2>8
  <2>11. mode \in {"saturating_two_bits", "adaptive_two_levels"} =>
            Agrees(Alike(o, IF mode = "adaptive_two_levels" THEN DEPTH ELSE 0))
    BY <2>9, <2>10
  <2> QED
    BY <2>1, <2>6, <2>11 DEF o, all, Agrees
<1> QED
  BY <1>1, InitInv, StepInv, EntriesInit, EntriesStep, PTL DEF Spec
=============================================================================
