---------------------------- MODULE TagMatching ----------------------------
(***************************************************************************)
(* The MPI tags of the non-local boundary buffers built by                 *)
(* BuildSparseBoundaryBuffers (src/src/bvals/cc/sparse_bvals_cc_in_one.cpp *)
(* lines 89-118), and how MPI matches the messages sent under them.       *)
(*                                                                         *)
(* The send buffer of a channel carries tag 512 * (receiver's lid) +       *)
(* (sender's lid), computed on the sender's rank; the mirrored receive     *)
(* buffer carries 512 * (its own lid) + (neighbour's lid), computed on    *)
(* the receiver's rank.  A lid is a block's index on its own rank.  MPI   *)
(* matches a message with a posted receive of the same source rank, tag   *)
(* and communicator (one per variable), the oldest message with the       *)
(* oldest receive (non-overtaking).  The order in which each rank sends   *)
(* and posts its receives is its neighbour iteration order, which is not  *)
(* in the tree: every order is explored.  One cycle of one variable.      *)
(***************************************************************************)
EXTENDS Integers, Sequences, FiniteSets

CONSTANTS
  Blocks,    \* the mesh blocks
  RankOf,    \* block -> its rank
  Lid,       \* block -> its local index on its rank
  Channels,  \* the non-local channels: [src, dst, off] records
  None

ASSUME \A c \in Channels : RankOf[c.src] # RankOf[c.dst]

(* Mutant: the sender's own lid in both places.                          *)
SendTagSelf(c) == 512 * Lid[c.src] + Lid[c.src]

(* Line 90, on the sender: tag = 512 * nb.snb.lid + pmb->lid.             *)
SendTag(c) == 512 * Lid[c.dst] + Lid[c.src]

(* Line 114, on the receiver (pmb is the receiver, nb the sender):         *)
(* tag_r = 512 * pmb->lid + nb.snb.lid.                                   *)
RecvTag(c) == 512 * Lid[c.dst] + Lid[c.src]

(* What MPI matches on: source rank, destination rank, tag.               *)
SendKey(c) == <<RankOf[c.src], RankOf[c.dst], SendTag(c)>>
RecvKey(c) == <<RankOf[c.src], RankOf[c.dst], RecvTag(c)>>
Keys == {SendKey(c) : c \in Channels} \cup {RecvKey(c) : c \in Channels}

VARIABLES
  sendq,   \* key -> the channels whose Isend is not yet matched, in order
  recvq,   \* key -> the receive buffers whose Irecv is posted, in order
  sent,    \* the channels whose send buffer has called Isend
  posted,  \* the channels whose receive buffer has posted its Irecv
  got      \* receive buffer -> the channel whose message it received

vars == <<sendq, recvq, sent, posted, got>>

TypeOK ==
  /\ sendq \in [Keys -> Seq(Channels)]
  /\ recvq \in [Keys -> Seq(Channels)]
  /\ sent \subseteq Channels /\ posted \subseteq Channels
  /\ got \in [Channels -> Channels \cup {None}]

Init ==
  /\ sendq = [k \in Keys |-> <<>>]
  /\ recvq = [k \in Keys |-> <<>>]
  /\ sent = {} /\ posted = {}
  /\ got = [c \in Channels |-> None]

(* CommBuffer::Send of a channel's send buffer: an Isend under its tag.   *)
Isend(c) ==
  /\ c \notin sent
  /\ sent' = sent \cup {c}
  /\ sendq' = [sendq EXCEPT ![SendKey(c)] = Append(@, c)]
  /\ UNCHANGED <<recvq, posted, got>>

(* CommBuffer::TryReceive of a receive buffer: its Irecv under tag_r.     *)
Irecv(c) ==
  /\ c \notin posted
  /\ posted' = posted \cup {c}
  /\ recvq' = [recvq EXCEPT ![RecvKey(c)] = Append(@, c)]
  /\ UNCHANGED <<sendq, sent, got>>

(* MPI matches the oldest message and the oldest receive of a key.        *)
Match(k) ==
  /\ sendq[k] # <<>> /\ recvq[k] # <<>>
  /\ got' = [got EXCEPT ![Head(recvq[k])] = Head(sendq[k])]
  /\ sendq' = [sendq EXCEPT ![k] = Tail(@)]
  /\ recvq' = [recvq EXCEPT ![k] = Tail(@)]
  /\ UNCHANGED <<sent, posted>>

Delivered == \A c \in Channels : got[c] # None

Terminated == Delivered /\ UNCHANGED vars

Next ==
  \/ \E c \in Channels : Isend(c) \/ Irecv(c)
  \/ \E k \in Keys : Match(k)
  \/ Terminated

(* The task driver re-invokes the send and receive steps until they       *)
(* complete, and MPI progresses every matchable pair.                     *)
Fairness ==
  /\ \A c \in Channels : WF_vars(Isend(c)) /\ WF_vars(Irecv(c))
  /\ \A k \in Keys : WF_vars(Match(k))

Spec == Init /\ [][Next]_vars /\ Fairness
-----------------------------------------------------------------------------
(* Spec 4.4 (Send): the tag identifies the channel.  Whatever order the    *)
(* ranks send and post in, every receive buffer is matched with the       *)
(* message of its own channel, never with another channel's.              *)
DeliveredToOwnBuffer ==
  \A c \in Channels : got[c] \in {None, c}

(* The exchange over MPI implements the per-channel delivery the         *)
(* exchange relies on: every match hands a receive buffer the message of  *)
(* its own channel, and every buffer eventually gets it.  This needs the   *)
(* tag of a send to equal the tag_r of its own receive buffer, and to     *)
(* differ from the tag of every other channel between the same ranks.    *)
(* The refinement mapping: a message is in flight while it is sent and no *)
(* buffer has taken it; a receive waits while it is posted and unfilled;  *)
(* a channel is delivered when its buffer holds its own message.          *)
Taken == {got[r] : r \in Channels} \ {None}

Abstract == INSTANCE ChannelDelivery
              WITH inflight  <- sent \ Taken,
                   waiting   <- {c \in posted : got[c] = None},
                   delivered <- {c \in Channels : got[c] = c}

ImplementsChannelDelivery == Abstract!Spec
=============================================================================
