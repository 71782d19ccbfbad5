----------------------------- MODULE MCPackIndex -----------------------------
(***************************************************************************)
(* Every shape with component extents up to 2 and region extents up to 3,  *)
(* and regions starting at cell 0 or 1 on each axis.                       *)
(***************************************************************************)
EXTENDS PackIndex
=============================================================================
