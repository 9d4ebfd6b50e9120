------------------------------ MODULE MCTagSet ------------------------------
(* Instances of TagSet for TLC. *)
EXTENDS TagSet

Both == {"LRU", "pseudo-LRU"}
Five == {"a", "b", "c", "d", "e"}
=============================================================================
