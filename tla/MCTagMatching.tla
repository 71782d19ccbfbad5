---------------------------- MODULE MCTagMatching ----------------------------
(***************************************************************************)
(* Three meshes of blocks on two ranks r0 and r1.                         *)
(***************************************************************************)
EXTENDS TagMatching, TLC

Ch(s, d, o) == [src |-> s, dst |-> d, off |-> o]

(* Fan: b1 (r0, lid 0) neighbours b2 (r1, lid 0) and b3 (r1, lid 1).      *)
FanBlocks == {"b1", "b2", "b3"}
FanRank == [b \in FanBlocks |-> IF b = "b1" THEN "r0" ELSE "r1"]
FanLid == [b \in FanBlocks |-> IF b = "b3" THEN 1 ELSE 0]
FanChannels == {Ch("b1", "b2", 1), Ch("b1", "b3", 1), Ch("b2", "b1", -1), Ch("b3", "b1", -1)}

(* Periodic pair: a mesh two blocks wide, periodic in x, one block per    *)
(* rank: b1 is b2's neighbour on both sides, and the other way round.     *)
PairBlocks == {"b1", "b2"}
PairRank == [b \in PairBlocks |-> IF b = "b1" THEN "r0" ELSE "r1"]
PairLid == [b \in PairBlocks |-> 0]
PairChannels == {Ch("b1", "b2", 1), Ch("b1", "b2", -1), Ch("b2", "b1", 1), Ch("b2", "b1", -1)}

(* Many blocks per rank: a0 and a512 on r0 with lids 0 and 512, c0 and c1 *)
(* on r1 with lids 0 and 1; a512 neighbours c0, a0 neighbours c1.         *)
WideBlocks == {"a0", "a512", "c0", "c1"}
WideRank == [b \in WideBlocks |-> IF b \in {"a0", "a512"} THEN "r0" ELSE "r1"]
WideLid == ("a0" :> 0) @@ ("a512" :> 512) @@ ("c0" :> 0) @@ ("c1" :> 1)
WideChannels == {Ch("a512", "c0", 1), Ch("a0", "c1", 1)}
=============================================================================
