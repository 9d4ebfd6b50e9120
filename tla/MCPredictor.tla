---------------------------- MODULE MCPredictor ----------------------------
(* The instance of Predictor for TLC: two ways, three branches.              *)
EXTENDS Predictor

AllModes == {"always_taken", "always_not_taken", "backward_jumps",
             "saturating_one_bit", "saturating_two_bits", "adaptive_two_levels"}
=============================================================================
