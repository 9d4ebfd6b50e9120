------------------------------ MODULE MCPorts ------------------------------
(* Instances of Ports for TLC: one reader a cycle away, one two cycles away. *)
EXTENDS Ports, TLC

CONSTANTS near, far

MCReaders == {near, far}
MCLat == (near :> 1) @@ (far :> 2)
MCData == {"a", "b"}
MCNoItem == [data |-> "destroyed", due |-> 0]
=============================================================================
