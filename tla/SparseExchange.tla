--------------------------- MODULE SparseExchange ---------------------------
(***************************************************************************)
(* The sparse-aware cell-centred boundary exchange of                      *)
(* src/src/bvals/cc/sparse_bvals_cc_in_one.cpp: the four task steps        *)
(* BuildSparseBoundaryBuffers, SendBoundaryBuffers,                        *)
(* ReceiveBoundaryBuffers and SetBoundaries, run by every MeshData         *)
(* partition (here: one block per partition) over several cycles, with    *)
(* the CommBuffer state machine, the per-rank buffer pool and the MPI      *)
(* transport they use.  CommBuffer, the pool and MPI are not part of the   *)
(* source tree; they are modelled from the spec (sections 4.3, 4.4, 6).    *)
(*                                                                         *)
(* Data is abstracted to its origin: the boundary data block b packs in    *)
(* cycle n is the value <<b, n>>; a null message stands for zeros.         *)
(* Field storage is abstracted to an allocation generation per block, so  *)
(* a write into a deallocated array is visible as a write to an old        *)
(* generation.                                                             *)
(***************************************************************************)
EXTENDS Integers, Sequences, FiniteSets, Functions

CONSTANTS
  Blocks,        \* mesh blocks; each one is its own MeshData partition
  RankOf,        \* [Blocks -> ranks]: the rank owning each block
  Channels,      \* ordered pairs <<sender, receiver>> of neighbouring blocks
  RecvOrder,     \* [Blocks -> Seq(Channels)]: IterateBoundaries order of the
                 \* channels a block receives on
  ChunksOf,      \* [ranks -> set]: the chunks of the rank's buffer pool
  SparseEnabled, \* Globals::sparse_config.enabled
  Eager,         \* TRUE: an Isend may complete before the matching Irecv
  MaxCycle,      \* number of exchange cycles each block runs
  InitAlloc,     \* the blocks whose sparse field is allocated at the start
  NoChunk,       \* the empty buffer of an inactive CommBuffer
  NoCache,       \* a BufferCache_t of size 0 (never built)
  Zero,          \* boundary data that is all zero (a null message)
  Garbage        \* memory that holds no boundary data of this exchange

Ranks == DOMAIN ChunksOf
Chunks == UNION {ChunksOf[r] : r \in Ranks}
Sender(c) == c[1]
Receiver(c) == c[2]
OutOf(b) == {c \in Channels : Sender(c) = b}
Into(b) == {c \in Channels : Receiver(c) = b}
Local(c) == RankOf[Sender(c)] = RankOf[Receiver(c)]
NonLocal == {c \in Channels : ~Local(c)}

ASSUME /\ Channels \subseteq Blocks \X Blocks
       /\ \A c \in Channels : Sender(c) # Receiver(c)
       /\ \A b \in Blocks : Len(RecvOrder[b]) = Cardinality(Into(b))
                            /\ Range(RecvOrder[b]) = Into(b)
       /\ MaxCycle \in Nat \ {0}
       /\ InitAlloc \subseteq Blocks
       /\ ~SparseEnabled => InitAlloc = Blocks   \* dense fields are always allocated

(* A CommBuffer object.  BuildSparseBoundaryBuffers stores one object per *)
(* SendKey; for a non-local neighbour it also stores the mirrored receive  *)
(* object under ReceiveKey.  A local channel has a single object that the  *)
(* sender and the receiver share through boundary_comm_map.               *)
SendObj(c) == <<c, "send">>
RecvObj(c) == IF Local(c) THEN <<c, "send">> ELSE <<c, "recv">>
Objs == {SendObj(c) : c \in Channels} \cup {RecvObj(c) : c \in Channels}
ObjRank(o) == IF o[2] = "send" THEN RankOf[Sender(o[1])] ELSE RankOf[Receiver(o[1])]

BufferStates == {"stale", "sending", "sending_null", "received", "received_null"}
Received == {"received", "received_null"}
NoVar == 0                       \* bnd_info.var of size 0
Val(b, n) == <<b, n>>            \* the boundary data block b packs in cycle n
Values == {Val(b, n) : b \in Blocks, n \in 1..MaxCycle} \cup {Zero, Garbage}
CacheEntry == [buf : Chunks \cup {NoChunk}, allocated : BOOLEAN, var : 0..MaxCycle + 1]
Msg == [chunk : Chunks \cup {NoChunk}, kind : {"data", "null"}, cycle : 0..MaxCycle]

VARIABLES
  pc,         \* [Blocks -> step]: the task of the block's partition to run next
  cycle,      \* [Blocks -> 1..MaxCycle]: the exchange cycle of the partition
  alloc,      \* [Blocks -> BOOLEAN]: v->IsAllocated() for the sparse field
  gen,        \* [Blocks -> Nat]: the allocation generation of the field
  bstate,     \* [Objs -> BufferStates]: CommBuffer::GetState()
  bchunk,     \* [Objs -> chunk]: CommBuffer::buffer(), NoChunk when inactive
  free,       \* [Ranks -> SUBSET Chunks]: free list of the rank's pool
  content,    \* [Chunks -> Values]: what a chunk's memory holds
  lastSend,   \* [Channels -> Msg]: the last Send/SendNull on the channel
  pending,    \* [Channels -> BOOLEAN]: a non-local Isend still reading lastSend.chunk
  wire,       \* [Channels -> Seq]: messages the transport carries, in order
  posted,     \* [Channels -> BOOLEAN]: the receiver has an Irecv posted
  rcvCycle,   \* [Channels -> Nat]: cycle of the message a receive object holds
  sendCache,  \* [Blocks -> cache]: md->send_bnd_info_h
  recvCache,  \* [Blocks -> cache]: md->recv_bnd_info_h
  ghost,      \* [Channels -> [gen, val]]: the receiver's ghost zone of the channel
  sentVal     \* [Channels -> [1..MaxCycle -> Values]]: history, what was sent

vars == <<pc, cycle, alloc, gen, bstate, bchunk, free, content, lastSend,
          pending, wire, posted, rcvCycle, sendCache, recvCache, ghost, sentVal>>
bufVars == <<bstate, bchunk, free, content, lastSend, pending, wire, posted, rcvCycle>>

TypeOK ==
  /\ pc \in [Blocks -> {"Build", "Send", "Recv", "Set", "Idle", "Done"}]
  /\ cycle \in [Blocks -> 1..MaxCycle]
  /\ alloc \in [Blocks -> BOOLEAN]
  /\ gen \in [Blocks -> 0..MaxCycle + 1]
  /\ bstate \in [Objs -> BufferStates]
  /\ bchunk \in [Objs -> Chunks \cup {NoChunk}]
  /\ free \in [Ranks -> SUBSET Chunks]
  /\ content \in [Chunks -> Values]
  /\ lastSend \in [Channels -> Msg]
  /\ pending \in [Channels -> BOOLEAN]
  /\ wire \in [Channels -> Seq([kind : {"data", "null"}, val : Values, cycle : 1..MaxCycle])]
  /\ posted \in [Channels -> BOOLEAN]
  /\ rcvCycle \in [Channels -> 0..MaxCycle]
  /\ \A b \in Blocks : sendCache[b] \in {NoCache} \cup [OutOf(b) -> CacheEntry]
  /\ \A b \in Blocks : recvCache[b] \in {NoCache} \cup [Into(b) -> CacheEntry]
  /\ ghost \in [Channels -> [gen : 0..MaxCycle + 1, val : Values]]
  /\ sentVal \in [Channels -> [1..MaxCycle -> Values \cup {Garbage}]]

-----------------------------------------------------------------------------
(***************************************************************************)
(* CommBuffer and pool operations (spec section 4.3, 4.4).                 *)
(***************************************************************************)

(* IsAvailableForWrite: a local buffer must have been staled by its       *)
(* receiver; a non-local send buffer must have its previous Isend done.   *)
IsAvailableForWrite(c) ==
  IF Local(c) THEN bstate[SendObj(c)] = "stale" ELSE ~pending[c]

(* TryReceive succeeds now: already received, or the sender's state / the *)
(* next message on the wire is there to be taken.                         *)
CanReceive(c) ==
  \/ bstate[RecvObj(c)] \in Received
  \/ Local(c) /\ bstate[SendObj(c)] \in {"sending", "sending_null"}
  \/ ~Local(c) /\ wire[c] # <<>>

(* The state a successful TryReceive leaves: both-type buffers turn       *)
(* sending into received; a receiver takes the kind of the next message.  *)
ReceivedState(c) ==
  IF bstate[RecvObj(c)] \in Received THEN bstate[RecvObj(c)]
  ELSE IF Local(c)
       THEN IF bstate[SendObj(c)] = "sending" THEN "received" ELSE "received_null"
       ELSE IF Head(wire[c]).kind = "data" THEN "received" ELSE "received_null"

(* What the receiver reads from a chunk: an empty buffer holds no data.   *)
Read(ch) == IF ch = NoChunk THEN Garbage ELSE content[ch]

-----------------------------------------------------------------------------
Init ==
  /\ pc = [b \in Blocks |-> "Build"]
  /\ cycle = [b \in Blocks |-> 1]
  /\ alloc = [b \in Blocks |-> b \in InitAlloc]
  /\ gen = [b \in Blocks |-> IF alloc[b] THEN 1 ELSE 0]
  /\ bstate = [o \in Objs |-> "stale"]
  /\ bchunk = [o \in Objs |-> NoChunk]
  /\ free = ChunksOf
  /\ content = [ch \in Chunks |-> Garbage]
  /\ lastSend = [c \in Channels |-> [chunk |-> NoChunk, kind |-> "null", cycle |-> 0]]
  /\ pending = [c \in Channels |-> FALSE]
  /\ wire = [c \in Channels |-> <<>>]
  /\ posted = [c \in Channels |-> FALSE]
  /\ rcvCycle = [c \in Channels |-> 0]
  /\ sendCache = [b \in Blocks |-> NoCache]
  /\ recvCache = [b \in Blocks |-> NoCache]
  /\ ghost = [c \in Channels |-> [gen |-> gen[Receiver(c)], val |-> Zero]]
  /\ sentVal = [c \in Channels |-> [n \in 1..MaxCycle |-> Garbage]]

-----------------------------------------------------------------------------
(***************************************************************************)
(* BuildSparseBoundaryBuffers: creates the pool and the CommBuffers of the *)
(* partition (all stale and inactive) and clears the fast-access vectors.  *)
(***************************************************************************)
BuildSparseBoundaryBuffers(b) ==
  /\ pc[b] = "Build"
  /\ pc' = [pc EXCEPT ![b] = "Send"]
  /\ UNCHANGED <<cycle, alloc, gen, bufVars, sendCache, recvCache, ghost, sentVal>>

(* Every partition of the rank has built its buffers: the comment at line  *)
(* 47 makes the send and receive steps wait for all of them.              *)
RankBuilt(b) == \A b2 \in Blocks : RankOf[b2] = RankOf[b] => pc[b2] # "Build"

(* The send buffers buf.Allocate() must draw a chunk for: the inactive     *)
(* ones, when the field is allocated (Allocate is a no-op when active).   *)
SendAllocNeed(b) ==
  IF alloc[b] THEN {c \in OutOf(b) : bchunk[SendObj(c)] = NoChunk} ELSE {}

(* Mutant: the rebuild test only notices a cache that was never built.    *)
SendNeedsRebuildOnlyNew(b, chunk1) == sendCache[b] = NoCache

(* Rebuild test of SendBoundaryBuffers: the cache was never built, or a    *)
(* cached buffer is not the resource the CommBuffer now holds.            *)
SendNeedsRebuild(b, chunk1) ==
  \/ sendCache[b] = NoCache
  \/ \E c \in OutOf(b) : sendCache[b][c].buf # chunk1[SendObj(c)]

(* BndInfo::Sender for every outgoing channel of the block.               *)
SendCacheFor(b, chunk1) ==
  [c \in OutOf(b) |->
     [buf |-> IF alloc[b] THEN chunk1[SendObj(c)] ELSE NoChunk,
      allocated |-> alloc[b],
      var |-> IF alloc[b] THEN gen[b] ELSE NoVar]]

(***************************************************************************)
(* SendBoundaryBuffers: Allocate/Free every send buffer to match the       *)
(* field, then return incomplete if some buffer is not available for       *)
(* write; otherwise rebuild the cache if needed, pack every allocated      *)
(* channel (a cache pointing at an old allocation packs stale memory),     *)
(* and Send, or SendNull when sparse and nothing exceeds the threshold.    *)
(***************************************************************************)
SendBoundaryBuffers(b) ==
  /\ pc[b] = "Send"
  /\ RankBuilt(b)
  /\ LET out == OutOf(b)
         r == RankOf[b]
         need == SendAllocNeed(b)
         held == {bchunk[SendObj(c)] : c \in out} \ {NoChunk}
     IN \E get \in Injection(need, free[r]) :
        LET chunk1 == [o \in Objs |->
                         IF o \notin {SendObj(c) : c \in out} THEN bchunk[o]
                         ELSE IF ~alloc[b] THEN NoChunk
                         ELSE IF o[1] \in need THEN get[o[1]] ELSE bchunk[o]]
            free1 == [free EXCEPT ![r] = IF alloc[b] THEN @ \ Range(get) ELSE @ \cup held]
        IN /\ bchunk' = chunk1
           /\ free' = free1
           /\ IF \E c \in out : ~IsAvailableForWrite(c)
              THEN UNCHANGED <<pc, bstate, content, lastSend, pending, sendCache, sentVal>>
              ELSE
                LET cache1 == IF SendNeedsRebuild(b, chunk1) THEN SendCacheFor(b, chunk1)
                              ELSE sendCache[b]
                    packed(ch) == {c \in out : cache1[c].allocated /\ cache1[c].buf = ch}
                IN \E nonzero \in [out -> BOOLEAN] :
                   LET data(c) == ~SparseEnabled \/ (cache1[c].allocated /\ nonzero[c])
                   IN /\ sendCache' = [sendCache EXCEPT ![b] = cache1]
                      /\ content' = [ch \in Chunks |->
                            IF packed(ch) = {} THEN content[ch]
                            ELSE IF \A c \in packed(ch) : cache1[c].var = gen[b] /\ alloc[b]
                                 THEN Val(b, cycle[b]) ELSE Garbage]
                      /\ bstate' = [o \in Objs |->
                            IF o \in {SendObj(c) : c \in out}
                            THEN IF data(o[1]) THEN "sending" ELSE "sending_null"
                            ELSE bstate[o]]
                      /\ lastSend' = [c \in Channels |->
                            IF c \notin out THEN lastSend[c]
                            ELSE [chunk |-> IF data(c) THEN chunk1[SendObj(c)] ELSE NoChunk,
                                  kind |-> IF data(c) THEN "data" ELSE "null",
                                  cycle |-> cycle[b]]]
                      /\ pending' = [c \in Channels |-> IF c \in out /\ ~Local(c) THEN TRUE
                                                        ELSE pending[c]]
                      /\ sentVal' = [c \in Channels |->
                            IF c \notin out THEN sentVal[c]
                            ELSE [sentVal[c] EXCEPT ![cycle[b]] =
                                    IF data(c) THEN Val(b, cycle[b]) ELSE Zero]]
                      /\ pc' = [pc EXCEPT ![b] = "Recv"]
  /\ UNCHANGED <<cycle, alloc, gen, wire, posted, rcvCycle, recvCache, ghost>>

(***************************************************************************)
(* ReceiveBoundaryBuffers: polls the incoming channels in order with      *)
(* all_received = all_received && buf.TryReceive(), so the channels after *)
(* the first one that has not arrived are not polled in this pass.  A     *)
(* non-local receiver posts its Irecv (allocating a chunk) when first     *)
(* polled.  With sparse enabled, a channel in state received allocates    *)
(* the field (AllocateSparse), whose new storage starts zeroed.           *)
(***************************************************************************)
FirstNotReceived(b) ==
  LET order == RecvOrder[b]
      missing == {i \in 1..Len(order) : ~CanReceive(order[i])}
  IN IF missing = {} THEN Len(order) + 1
     ELSE CHOOSE i \in missing : \A j \in missing : i <= j

ReceiveBoundaryBuffers(b) ==
  /\ pc[b] = "Recv"
  /\ RankBuilt(b)
  /\ LET order == RecvOrder[b]
         k == FirstNotReceived(b)
         taken == {order[i] : i \in 1..k - 1}
         arriving == {c \in taken : bstate[RecvObj(c)] \notin Received}
         polled == IF k <= Len(order) THEN taken \cup {order[k]} ELSE taken
         posting == {c \in polled \cap NonLocal : ~posted[c] /\ c \notin arriving}
         need == {c \in (arriving \cup posting) \cap NonLocal : bchunk[RecvObj(c)] = NoChunk}
         r == RankOf[b]
     IN \E get \in Injection(need, free[r]) :
        LET chunk1 == [o \in Objs |-> IF o[2] = "recv" /\ o[1] \in need THEN get[o[1]]
                                      ELSE bchunk[o]]
            state1 == [o \in Objs |-> IF o \in {RecvObj(c) : c \in arriving}
                                      THEN ReceivedState(o[1]) ELSE bstate[o]]
            landed == {c \in arriving \cap NonLocal : Head(wire[c]).kind = "data"}
            newly == SparseEnabled /\ ~alloc[b]
                       /\ \E c \in Into(b) : state1[RecvObj(c)] = "received"
        IN /\ bchunk' = chunk1
           /\ free' = [free EXCEPT ![r] = @ \ Range(get)]
           /\ bstate' = state1
           /\ content' = [ch \in Chunks |->
                 IF \E c \in landed : chunk1[RecvObj(c)] = ch
                 THEN Head(wire[CHOOSE c \in landed : chunk1[RecvObj(c)] = ch]).val
                 ELSE content[ch]]
           /\ wire' = [c \in Channels |-> IF c \in arriving /\ ~Local(c) THEN Tail(wire[c])
                                          ELSE wire[c]]
           /\ rcvCycle' = [c \in Channels |->
                 IF c \in arriving /\ ~Local(c) THEN Head(wire[c]).cycle ELSE rcvCycle[c]]
           /\ posted' = [c \in Channels |->
                 IF c \in arriving THEN FALSE ELSE IF c \in posting THEN TRUE ELSE posted[c]]
           /\ alloc' = [alloc EXCEPT ![b] = @ \/ newly]
           /\ gen' = [gen EXCEPT ![b] = IF newly THEN @ + 1 ELSE @]
           /\ ghost' = [c \in Channels |-> IF newly /\ c \in Into(b)
                                           THEN [gen |-> gen[b] + 1, val |-> Zero]
                                           ELSE ghost[c]]
           /\ pc' = [pc EXCEPT ![b] = IF k = Len(order) + 1 THEN "Set" ELSE "Recv"]
  /\ UNCHANGED <<cycle, lastSend, pending, sendCache, recvCache, sentVal>>

(* Rebuild test of SetBoundaries: no cache, a buffer resource changed, or  *)
(* a channel's received/received_null state disagrees with the cached     *)
(* allocated flag.  The field's allocation itself is not compared.        *)
RecvNeedsRebuild(b) ==
  \/ recvCache[b] = NoCache
  \/ \E c \in Into(b) :
       LET e == recvCache[b][c] IN
       \/ e.buf # bchunk[RecvObj(c)]
       \/ bstate[RecvObj(c)] = "received" /\ ~e.allocated
       \/ bstate[RecvObj(c)] = "received_null" /\ e.allocated

(* Mutant: the Setter cache points at the buffer stored under the send    *)
(* key of the channel instead of its receive key.                         *)
RecvCacheForSendKey(b) ==
  [c \in Into(b) |->
     [buf |-> bchunk[SendObj(c)],
      allocated |-> bstate[RecvObj(c)] = "received",
      var |-> IF alloc[b] THEN gen[b] ELSE NoVar]]

(* BndInfo::Setter for every incoming channel, allocated iff received.    *)
RecvCacheFor(b) ==
  [c \in Into(b) |->
     [buf |-> bchunk[RecvObj(c)],
      allocated |-> bstate[RecvObj(c)] = "received",
      var |-> IF alloc[b] THEN gen[b] ELSE NoVar]]

(* Mutant: Stale() is called on the objects under the send key of every    *)
(* incoming channel, so a non-local receive object is never staled.       *)
StaledSendKey(b) ==
  [o \in Objs |-> IF o \in {SendObj(c) : c \in Into(b)} THEN "stale" ELSE bstate[o]]

(* buf.Stale() on every incoming channel.                                 *)
StaledStates(b) ==
  [o \in Objs |-> IF o \in {RecvObj(c) : c \in Into(b)} THEN "stale" ELSE bstate[o]]

(* Mutant: the last cycle is recognised one cycle late.                   *)
AfterSetLate(b) == IF cycle[b] > MaxCycle THEN "Done" ELSE "Idle"

(* The driver ends the block's exchanges after MaxCycle cycles.           *)
AfterSet(b) == IF cycle[b] = MaxCycle THEN "Done" ELSE "Idle"

(***************************************************************************)
(* SetBoundaries: rebuild the cache if needed, unpack every channel the    *)
(* cache marks allocated into the cached field array, zero-fill the       *)
(* others whose cached array is not empty, then stale all the buffers.    *)
(* A write lands in the ghost zone only if the cached array is the        *)
(* field's current allocation.                                             *)
(***************************************************************************)
SetBoundaries(b) ==
  /\ pc[b] = "Set"
  /\ LET cache1 == IF RecvNeedsRebuild(b) THEN RecvCacheFor(b) ELSE recvCache[b]
         writes(c) == cache1[c].allocated \/ cache1[c].var # NoVar
         lands(c) == writes(c) /\ alloc[b] /\ cache1[c].var = gen[b]
     IN /\ recvCache' = [recvCache EXCEPT ![b] = cache1]
        /\ ghost' = [c \in Channels |->
              IF c \in Into(b) /\ lands(c)
              THEN [gen |-> gen[b],
                    val |-> IF cache1[c].allocated THEN Read(cache1[c].buf) ELSE Zero]
              ELSE ghost[c]]
  /\ bstate' = StaledStates(b)
  /\ pc' = [pc EXCEPT ![b] = AfterSet(b)]
  /\ UNCHANGED <<cycle, alloc, gen, bchunk, free, content, lastSend, pending, wire,
                 posted, rcvCycle, sendCache, sentVal>>

(* The driver starts the next cycle of the partition's task list once    *)
(* every partition of the rank has finished the current cycle's task      *)
(* region; partitions on other ranks may lag behind.                      *)
RegionDone(b) ==
  \A b2 \in Blocks : RankOf[b2] = RankOf[b] =>
     pc[b2] \in {"Idle", "Done"} \/ cycle[b2] > cycle[b]

StartCycle(b) ==
  /\ pc[b] = "Idle"
  /\ RegionDone(b)
  /\ pc' = [pc EXCEPT ![b] = "Send"]
  /\ cycle' = [cycle EXCEPT ![b] = @ + 1]
  /\ UNCHANGED <<alloc, gen, bufVars, sendCache, recvCache, ghost, sentVal>>

(* Between cycles the field provider may deallocate a sparse field.       *)
Deallocate(b) ==
  /\ SparseEnabled
  /\ pc[b] = "Idle"
  /\ alloc[b]
  /\ alloc' = [alloc EXCEPT ![b] = FALSE]
  /\ UNCHANGED <<pc, cycle, gen, bufVars, sendCache, recvCache, ghost, sentVal>>

(* What a completed Isend delivers: the chunk's memory at the time the    *)
(* transport reads it, or nothing for a null message.                     *)
Payload(c) ==
  IF lastSend[c].kind = "data" THEN Read(lastSend[c].chunk) ELSE Zero

(* MPI progress: a pending Isend is read and completes; without eager     *)
(* delivery it needs the matching Irecv.  Messages keep their order.      *)
Transmit(c) ==
  /\ pending[c]
  /\ Eager \/ posted[c]
  /\ wire' = [wire EXCEPT ![c] = Append(@, [kind |-> lastSend[c].kind,
                                             val |-> Payload(c),
                                             cycle |-> lastSend[c].cycle])]
  /\ pending' = [pending EXCEPT ![c] = FALSE]
  /\ UNCHANGED <<pc, cycle, alloc, gen, bstate, bchunk, free, content, lastSend,
                 posted, rcvCycle, sendCache, recvCache, ghost, sentVal>>

Finished == \A b \in Blocks : pc[b] = "Done"

(* All partitions have run their cycles; the model stops.                *)
Terminated == Finished /\ UNCHANGED vars

(* The steps of one partition's task list; its pc enables at most one.   *)
PartitionStep(b) ==
  \/ BuildSparseBoundaryBuffers(b)
  \/ SendBoundaryBuffers(b)
  \/ ReceiveBoundaryBuffers(b)
  \/ SetBoundaries(b)
  \/ StartCycle(b)

Next ==
  \/ \E b \in Blocks : PartitionStep(b) \/ Deallocate(b)
  \/ \E c \in NonLocal : Transmit(c)
  \/ Terminated

(* The task driver re-invokes every incomplete step of every partition    *)
(* and moves on to the next cycle; MPI makes progress on every pending    *)
(* request.  Deallocation is the field provider's choice and gets no      *)
(* fairness.                                                              *)
Fairness ==
  /\ \A b \in Blocks : WF_vars(PartitionStep(b))
  /\ \A c \in NonLocal : WF_vars(Transmit(c))

Spec == Init /\ [][Next]_vars /\ Fairness
-----------------------------------------------------------------------------
(***************************************************************************)
(* Properties.                                                             *)
(***************************************************************************)

(* End-to-end exchange (spec section 8): once a block has run             *)
(* SetBoundaries for a cycle and its field is allocated, the ghost zone of *)
(* every incoming channel, in the field's current storage, holds what the  *)
(* neighbour sent in that cycle: its packed data, or zeros for a null      *)
(* message.  Broken by a send buffer overwritten or freed before the      *)
(* receiver unpacked it, or by an unpack into a stale array.              *)
GhostCorrect ==
  \A c \in Channels :
    LET r == Receiver(c) IN
    pc[r] \in {"Idle", "Done"} /\ alloc[r] =>
      ghost[c] = [gen |-> gen[r], val |-> sentVal[c][cycle[r]]]

(* Memory the transport or a local receiver still has to read stays with   *)
(* its channel: while a non-local Isend of data is pending, or a local     *)
(* buffer holds sent or received data that SetBoundaries has not staled,   *)
(* the send buffer still owns the chunk the data was packed into (it was  *)
(* neither freed to the pool nor replaced).                               *)
DataInFlight(c) ==
  /\ lastSend[c].kind = "data"
  /\ IF Local(c) THEN bstate[SendObj(c)] \in {"sending", "received"} ELSE pending[c]

InFlightDataOwned ==
  \A c \in Channels : DataInFlight(c) => bchunk[SendObj(c)] = lastSend[c].chunk

(* When a partition unpacks, every incoming channel holds the message its *)
(* sender sent in the receiver's own cycle: no message is lost, taken     *)
(* twice, or taken a cycle early or late.                                 *)
ReceivedCycle(c) == IF Local(c) THEN lastSend[c].cycle ELSE rcvCycle[c]

MessagesMatchCycle ==
  \A b \in Blocks : pc[b] = "Set" => \A c \in Into(b) : ReceivedCycle(c) = cycle[b]

(* Every SendBoundaryBuffers that sends packs from a cache that describes *)
(* the field as it is: the cached allocated flag is the field's, and an   *)
(* allocated entry names the field's current storage and the chunk the    *)
(* buffer holds.                                                          *)
SendCacheMatchesField ==
  [][\A b \in Blocks :
       pc[b] = "Send" /\ pc'[b] = "Recv" =>
         \A c \in OutOf(b) :
           LET e == sendCache'[b][c] IN
           /\ e.allocated = alloc[b]
           /\ e.allocated => e.var = gen[b] /\ e.buf = bchunk'[SendObj(c)]]_vars

(* Every SetBoundaries unpacks a received channel into the field's current *)
(* storage from the buffer that holds the message, and writes into no     *)
(* array other than the current one.                                      *)
RecvCacheMatchesField ==
  [][\A b \in Blocks :
       pc[b] = "Set" /\ pc'[b] # "Set" =>
         \A c \in Into(b) :
           LET e == recvCache'[b][c] IN
           /\ e.var \in {NoVar, gen[b]}
           /\ bstate[RecvObj(c)] = "received" =>
                e.allocated /\ e.var = gen[b] /\ e.buf = bchunk[RecvObj(c)]]_vars

(* Every partition eventually completes all its exchange cycles and the   *)
(* transport is left empty: no step waits forever on a buffer that is     *)
(* never staled or a message that is never sent, and no message sent is   *)
(* left undelivered or unconsumed by ReceiveBoundaryBuffers.              *)
ExchangesComplete ==
  <>(Finished /\ \A c \in NonLocal : wire[c] = <<>> /\ ~pending[c])
=============================================================================
