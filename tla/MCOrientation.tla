---------------------------- MODULE MCOrientation ----------------------------
(***************************************************************************)
(* Blocks of 3 cells per axis with component indices 0..1, and every      *)
(* signed permutation of the three axes as the caller's orientation.      *)
(***************************************************************************)
EXTENDS Orientation
=============================================================================
