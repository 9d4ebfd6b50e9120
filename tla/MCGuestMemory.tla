--------------------------- MODULE MCGuestMemory ---------------------------
(* The instance of GuestMemory for TLC: eight bytes of one bit. *)
EXTENDS GuestMemory

Three == {0, 5, 15}
=============================================================================
