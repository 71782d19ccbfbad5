-------------------------- MODULE MCSparseExchange --------------------------
(***************************************************************************)
(* Three blocks in a row, b1 - b2 - b3: b1 and b2 on rank r0 exchange      *)
(* through a shared local buffer, b2 and b3 across ranks r0 and r1 over   *)
(* MPI.  b2 receives from b1 first, then from b3.  Each rank's pool has   *)
(* one chunk per CommBuffer object of the rank, so Get never runs dry.    *)
(***************************************************************************)
EXTENDS SparseExchange, TLC

CONSTANTS b1, b2, b3, r0, r1, x1, x2, x3, x4, y1, y2

MCBlocks == {b1, b2, b3}
MCRankOf == [b \in MCBlocks |-> IF b = b3 THEN r1 ELSE r0]
MCChannels == {<<b1, b2>>, <<b2, b1>>, <<b2, b3>>, <<b3, b2>>}
MCRecvOrder == [b \in MCBlocks |->
                  CASE b = b1 -> << <<b2, b1>> >>
                    [] b = b2 -> << <<b1, b2>>, <<b3, b2>> >>
                    [] b = b3 -> << <<b2, b3>> >>]
MCChunksOf == [r \in {r0, r1} |-> IF r = r0 THEN {x1, x2, x3, x4} ELSE {y1, y2}]

ChunkSymmetry == Permutations({x1, x2, x3, x4}) \cup Permutations({y1, y2})

(* Two blocks on different ranks, b1 on r0 and b3 on r1, exchanging over *)
(* MPI in both directions; each pool holds the two chunks its rank's      *)
(* send and receive objects need.                                          *)
PairBlocks == {b1, b3}
PairRankOf == [b \in PairBlocks |-> IF b = b3 THEN r1 ELSE r0]
PairChannels == {<<b1, b3>>, <<b3, b1>>}
PairRecvOrder == [b \in PairBlocks |-> IF b = b1 THEN << <<b3, b1>> >> ELSE << <<b1, b3>> >>]
PairChunksOf == [r \in {r0, r1} |-> IF r = r0 THEN {x1, x2} ELSE {y1, y2}]
(* Only b1's field is allocated at the start: b3's is allocated by       *)
(* AllocateSparse when b1's first non-null message arrives, so b3's next   *)
(* SendBoundaryBuffers meets a field that was re-allocated since the cache *)
(* was built.                                                              *)
PairInitAlloc == {b1}
PairSymmetry == Permutations({x1, x2}) \cup Permutations({y1, y2})

(* The variables that guards read.  ghost, sentVal and content are only    *)
(* written from one another and never tested by an action, so runs whose *)
(* properties do not mention them may identify states that differ there. *)
ControlView == <<pc, cycle, alloc, gen, bstate, bchunk, free, lastSend, pending,
                 [c \in Channels |-> [i \in DOMAIN wire[c] |-> <<wire[c][i].kind, wire[c][i].cycle>>]],
                 posted, rcvCycle, sendCache, recvCache>>
=============================================================================
