---------------------------- MODULE Replacement ----------------------------
(***************************************************************************)
(* The replacement policies of a cache set (infra/replacement/             *)
(* cache_replacement.cpp) as operators: LRU keeps a list of ways, the most *)
(* recent one first; PseudoLRU keeps a direction in every inner node of a  *)
(* binary tree whose leaves are the ways.  Nodes are numbered as in a heap *)
(* and way w is leaf w + inner.                                            *)
(***************************************************************************)
EXTENDS Naturals, Sequences

CONSTANTS
    ways,    \* the number of ways of the set
    Policies \* the policies a set may be created with

ASSUME WaysAssumption == ways \in Nat \ {0}

\* create_cache_replacement; PseudoLRU refuses a number of ways that is no
\* power of two.
ASSUME PolicyAssumption ==
    /\ Policies \subseteq {"LRU", "pseudo-LRU"}
    /\ "pseudo-LRU" \in Policies => \E k \in 0..ways : 2^k = ways

Way == 0..(ways - 1)

(* LRU *)

lru_list_at_first == [k \in 1..ways |-> ways - k]

\* (Mutant: a touch leaves the list as it is.)
lru_untouched(list, w) == list

\* splice to the head: what was before w moves one place back.
place(list, w) == CHOOSE k \in 1..ways : list[k] = w
lru_touch(list, w) ==
    [k \in 1..ways |->
        IF k = 1 THEN w ELSE IF k <= place(list, w) THEN list[k - 1] ELSE list[k]]

lru_victim(list) == list[ways]

(* PseudoLRU *)

inner == ways - 1
nodes_at_first == [n \in 0..(inner - 1) |-> "Left"]

parent(n) == (n - 1) \div 2
get_direction_to_prev_node(n) == IF n % 2 # 0 THEN "Left" ELSE "Right"
get_next_node(nodes, n) == 2 * n + (IF nodes[n] = "Left" THEN 1 ELSE 2)

\* The nodes on the way from n up to the root, the root excepted.
path[n \in 0..(2 * ways)] == IF n = 0 THEN {} ELSE {n} \cup path[parent(n)]

\* (Mutant: only the last parent is turned away.)
plru_touch_leaf(nodes, w) ==
    [n \in DOMAIN nodes |->
        IF n = parent(w + inner) /\ nodes[n] = get_direction_to_prev_node(w + inner)
        THEN (IF nodes[n] = "Left" THEN "Right" ELSE "Left") ELSE nodes[n]]

\* Every node above the way that points to it is reversed.
plru_touch(nodes, w) ==
    [n \in DOMAIN nodes |->
        IF \E c \in path[w + inner] : parent(c) = n /\ nodes[n] = get_direction_to_prev_node(c)
        THEN (IF nodes[n] = "Left" THEN "Right" ELSE "Left") ELSE nodes[n]]

plru_victim(nodes) ==
    LET walk[n \in 0..(2 * ways)] == IF n < inner THEN walk[get_next_node(nodes, n)] ELSE n
    IN  walk[0] - inner

(* CacheReplacement: state, touch and update, which is the victim and its touch *)

replacement_at_first(policy) == IF policy = "LRU" THEN lru_list_at_first ELSE nodes_at_first
touch(policy, info, w) == IF policy = "LRU" THEN lru_touch(info, w) ELSE plru_touch(info, w)
victim(policy, info) == IF policy = "LRU" THEN lru_victim(info) ELSE plru_victim(info)
=============================================================================
