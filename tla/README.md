# TLA+ models of Parthenon's sparse boundary exchange

This directory holds TLA+ models of the sparse-aware, cell-centred boundary exchange in
`src/src/bvals/cc/sparse_bvals_cc_in_one.cpp`, of its MPI tags, of the relative orientation
of blocks across a seam (`src/src/mesh/forest/relative_orientation.hpp`) and of package
registration and resolution (`src/src/interface/state_descriptor.cpp`), together with the
TLC configurations that check them. `PROJECT.json` lists the components, the runs, the mutants, the map from each
definition to the source lines it models, the findings and the hazards.

## The system

Per spec section 4.5, the exchange is four task steps. The task driver runs them for every
mesh partition (`MeshData`), once per cycle, and re-invokes a step that returns `incomplete`.

| Step | Source lines | What it does |
|------|--------------|--------------|
| `BuildSparseBoundaryBuffers` | 43-124 | Creates one `CommBuffer` per channel under its SendKey. A non-local channel gets a mirrored receive buffer under its ReceiveKey; a local channel uses one buffer shared by sender and receiver. It also sets up the pools and clears the per-partition fast-access vectors. |
| `SendBoundaryBuffers` | 126-277 | For each outgoing channel, `Allocate()` or `Free()` the buffer to match the field's allocation. Then return `incomplete` if any buffer was not `IsAvailableForWrite()`. Otherwise, rebuild `send_bnd_info` if a buffer resource changed, pack, and `Send()`, or `SendNull()` when sparse is on and nothing exceeds the threshold. |
| `ReceiveBoundaryBuffers` | 279-315 | Polls the incoming buffers in order with `all_received = all_received && buf.TryReceive()`. When a channel is `received` and the field is unallocated, it calls `AllocateSparse`. |
| `SetBoundaries` | 317-446 | Rebuilds `recv_bnd_info` if a buffer resource changed or a received state disagrees with the cached `allocated` flag. Then it unpacks, zero-fills, and calls `Stale()` on every incoming buffer. |

Some collaborators are not under `src/`: `CommBuffer`, the buffer pool `buf_pool_t`, MPI, the
task driver and the field provider (allocation). They are modelled from the spec (sections
4.3, 4.4 and 6), and `PROJECT.json` marks them `spec_modelled`.

How the parts interact:
- A local channel's single buffer is a handshake. The sender may write again only after the
  receiver's `Stale()`.
- A non-local channel goes through MPI. The sender may write again only once its Isend has
  completed. A later poll of the receiver takes the message.
- Under sparse communication, a deallocated field frees its send buffers. A non-null message
  received by an unallocated field allocates it.
- Both steps cache descriptors (`BndInfo`) that point at field arrays and buffers. The caches
  are rebuilt only when the rebuild tests above notice a change.

## Modules

### `SparseExchange.tla`: the four steps, CommBuffer, pool, MPI and driver

Constants:
- blocks (one per partition), each block's rank, the channels, and each block's receive order;
- each rank's pool chunks;
- `SparseEnabled`;
- `Eager`: whether an Isend can complete before its Irecv is posted;
- `MaxCycle`, and `InitAlloc`.

Data is abstracted to its origin. Block `b` packs `Val(b, n)` in cycle `n`, a null message
stands for zeros, and `Garbage` is memory without data of this exchange. Field storage is
abstracted to an allocation generation `gen`: a cache entry whose `var` is an older
generation writes into a freed array.

| Variable | Code |
|----------|------|
| `pc`, `cycle` | position of each partition in its task list and cycle (driver) |
| `alloc`, `gen` | `v->IsAllocated()` and the identity of the field's array |
| `bstate`, `bchunk` | `CommBuffer::GetState()` and `buffer()` for each buffer object |
| `free`, `content` | the pool's free list and what each chunk holds |
| `lastSend`, `pending`, `wire`, `posted`, `rcvCycle` | the last send, an incomplete Isend, per-channel FIFO messages, a posted Irecv, the cycle of the message a receive buffer holds |
| `sendCache`, `recvCache` | `send_bnd_info_h`, `recv_bnd_info_h` |
| `ghost`, `sentVal` | the receiver's ghost zone, and a history of what was sent (both write-only) |

Actions:
- One action per step: `BuildSparseBoundaryBuffers`, `SendBoundaryBuffers`,
  `ReceiveBoundaryBuffers`, `SetBoundaries`.
- Each models its whole function, including the early return of `SendBoundaryBuffers`. That
  return happens after the `Allocate`/`Free` loop, exactly as in the code.
- Helpers carry the source's sub-steps: `SendAllocNeed`, `SendNeedsRebuild`, `SendCacheFor`,
  `FirstNotReceived` (the short-circuit `&&`), `RecvNeedsRebuild`, `RecvCacheFor`,
  `StaledStates`.

Environment actions:
- `StartCycle`: the driver. A partition starts its next cycle only when every partition of its
  rank has finished the current task region (`RegionDone`); other ranks may lag.
- `Deallocate`: the field provider frees a sparse field between cycles.
- `Transmit`: MPI completes an Isend, eagerly or against a posted Irecv.
- `Terminated`: stuttering once every partition is done.

`MCSparseExchange.tla` instantiates two topologies with model values:
- **Row**: b1 - b2 - b3, with b1 and b2 on rank r0 (a local channel) and b3 on rank r1 (MPI).
  b2 receives from b1 first, then from b3.
- **Pair**: b1 on r0 and b3 on r1, exchanging over MPI.

Each pool holds exactly one chunk per buffer object of its rank. Allocate is a no-op on an
active buffer, so `Get` never runs dry, as in the code, whose pool grows on demand.
`ChunkSymmetry` and `PairSymmetry` permute the interchangeable chunks of a rank.

### `PackIndex.tla`: the index arithmetic of the pack, unpack and zero-fill kernels

One BndInfo of any bounded shape: the extents `Nu, Nt, Nv, Nk, Nj, Ni` and the first cells
`sk, sj, si`.
- `Decompose` is the split of the flat thread index (lines 239-244, 410-415, 424-429).
- `BufIndex` is the buffer slot (247-249).
- `PackRead` is `var(u,t,v,k,j,i)` (246) and `UnpackWrite` is `var(t,u,v,k,j,i)` (419, 430).
- The actions `Pack`, `Unpack` and `ZeroFill` are the three kernels.

The source field holds its own address at every element, so a misplaced value is visible. A
write outside the receiver's array is undefined behaviour; the model records it in `stray`
instead of choosing its effect. `MCPackIndex.tla` leaves the bounds to the configurations.

### `Orientation.tla`: `RelativeOrientation`

Variables `dir_connection`, `dir_flip`, `ncells` are the struct's members; `Init` is the
default constructor (lines 37-39).
- `SetDirection` is lines 41-44. `SetAxis` is a caller that sets each axis of a signed
  permutation, kept in the history variable `target`, in any order. `AssignNCells` is the
  caller's write of the public `ncells`.
- `Spatial` is the loop of `Transform` (57-62) and `Transform` the whole function (52-67):
  the element direction and the transformed `tuvkji`.
- `MCOrientation.tla`: blocks of 3 cells per axis, component indices 0..1, all 48 signed
  permutations.

### `StateDescriptor.tla`: registration and `CreateResolvedStateDescriptor`

Names are strings, so that `MakeVarLabel` (`base + "_" + id`) can meet a name a user gives.
Metadata is abstracted to role, Sparse, WithFluxes, flux name, the registering package, the
product of the shape (`size`) and a set of other flags.
- Each package's descriptor is a record of `metadataMap_`, `sparsePoolMap_`,
  `allocControllerReverseMap_` and `allocControllerMap_` (a bag of <<controller, variable>>
  label pairs).
- `AddFieldImpl` (265-309, recursive for the flux field), `AddSparsePoolImpl` (311-338) and
  its id loop `AddPoolFields` are operators on a descriptor. `Register` applies one of the
  application's registrations (`Calls`); a throw of `AddSparsePoolImpl` is caught by the
  caller. `Add` is `Packages_t::Add`.
- The resolution is one action per loop iteration: `StartResolve` (the package iteration
  order is any order: `packages_` is an unordered map), `Categorize` (one `field_dict` entry,
  with the provider call it makes: `AddPrivate`, `AddProvides`), `NextPackage`,
  `CheckRequires`, `CheckOverridable` (one name, `AddOverridable`) and `Invert`
  (`InvertControllerMap`). A throw ends the resolution (`phase = "thrown"`).
- Swarms: a descriptor also holds `swarmMetadataMap_` (`swarms`) and the value names of
  `swarmValueMetadataMap_` (`svals`). `AddSwarmValue` (247-263) throws for a missing swarm
  or a repeated value; `AddSwarm` (header, not in the tree) returns false for an existing
  swarm. The two `DependencyTracker`s are one set of tracker variables over `<<kind, name>>`
  entries (`Dict`). `InTurn` keeps the code's order: a package's fields before its swarms
  (lines 452-453), and the field tracker's checks before the swarm tracker's (468-477). The
  provider calls dispatch by kind to `FieldProvider` or `SwarmProvider`: `AddSwarm_`
  (231-241) and `SwarmAddOverridable` (217-228).
- The queries of the resolved descriptor: `VariableNames(q)` is `GetVariableNames` (491-569)
  and `PackDimension(q)` is `GetPackDimension` (570-599), each asked once per request of
  `Queries`. `GetVariableNames` is an operator built from its loops (`ByName`, `ByFlags`,
  `PoolLabels`) and the `names.count(name) == 0` guard (`PushNew`). The unordered maps are
  walked in an arbitrary fixed order. `GetPackDimension` looks up `metadataMap_[VarID(name)]`:
  `operator[]` inserts a `DefaultMeta` for a missing key, so this query changes the state.
  `resolved` keeps the descriptor as `Invert` produced it, and `answer` holds the last answer.
  `MatchFlags` takes the flags as all-required; `MetadataUtils` is not in the tree.
- `MCStateDescriptor.tla`: packages A and B with registrations of every role, a field with
  fluxes, a controller shared by two fields, private pools of one name in both packages and a
  field both register as overridable. Every subset of the registrations, every order, and
  every package iteration order are explored. Dense fields are scalars and pools hold
  3-vectors, all flagged `Independent`. Four swarm registrations cover the swarm roles:
  A provides `p` with values x and y, and B requires `p`; B has a private `q`; A registers
  `r` as overridable. `RolesQueries` asks for `u, w, u` by name together
  with the `Independent` flag, and for the private pool `A::s` by name with id 1 only.

### `TagMatching.tla` and `ChannelDelivery.tla`: tags and MPI matching

`SendTag` is line 90 (`512 * nb.snb.lid + pmb->lid`, on the sender) and `RecvTag` line 114
(on the receiver). MPI is a FIFO per (source rank, destination rank, tag); `Match` pairs the
oldest message with the oldest posted receive. Each rank's send and post order is its
neighbour iteration order, which is not in the tree, so every order is explored.
`ChannelDelivery` is the abstract promise: a channel's message reaches that channel's buffer.
Its state is three sets: `inflight`, `waiting` and `delivered`. `TagMatching` instantiates it
`WITH` a refinement mapping and checks `Abstract!Spec` as a property:
- `inflight` maps to the sent messages that no buffer has taken;
- `waiting` maps to the posted receives that are still unfilled;
- `delivered` maps to the buffers that hold their own channel's message.

A match that hands a buffer another channel's message moves a message out of `inflight` and
a buffer out of `waiting` without delivering either, so it is no step of the abstract spec.
- `MCTagMatching.tla`: Fan (b1 on r0 next to b2, b3 on r1), Pair (a periodic mesh two blocks
  wide, one block per rank) and Wide (lids 0 and 512 on r0, 0 and 1 on r1).

## Properties

Invariants:
- `TypeOK`.
- `GhostCorrect`, end to end: after `SetBoundaries`, every ghost zone of an allocated field, in
  its current storage, holds what the neighbour sent in the same cycle.
- `MessagesMatchCycle`: when a partition unpacks, each incoming channel holds the message of
  the receiver's own cycle.
- `InFlightDataOwned`: memory still to be read by MPI or by a local receiver stays owned by its
  send buffer.

Action properties:
- `SendCacheMatchesField`: every packing send uses a cache that describes the field as it is.
- `RecvCacheMatchesField`: every unpack writes only into the field's current array, from the
  buffer that holds the message.

Index arithmetic (`PackIndex`):
- `PackRowMajor`: the pack fills every slot once, in the row-major order of spec 4.5. It is
  checked against a reference rank that counts the lexicographically smaller elements.
- `RoundTrip`: packing then unpacking reproduces the field and writes nowhere else.

Orientation, resolution and tags:
- `TransformMatchesOrientation`: the index on axis `a` reappears on axis `conn[a]`, reflected
  exactly when the axis was set reversed (spec section 3, Orientation).
- `ResolvedHonoursRoles`: a resolution that returns holds every private field and swarm under
  `package::name`, every provided one with its provider's metadata, and every required and
  overridable one. A private swarm keeps all its package's values, and a provided swarm has
  exactly its provider's values.
- `ControllerMapInverse`: `allocControllerMap_` is exactly the inverse of
  `allocControllerReverseMap_`, each variable listed once.
- `DescriptorConsistent`: no two variables of a descriptor share a label (`LabelsUnique`), and a
  registered pool has a field for each of its ids (`PoolsComplete`). This is the consistency
  the comment at line 330 asks for.
- `NamesAsDocumented` (action property): each answer of `GetVariableNames`/`GetPackDimension`
  lists exactly the requested fields and pools present in the state it was asked of, then the
  ones the flags pick up. Each name appears once, and the requested ones come first. This is
  the comment at lines 484-490, checked against a set-based reference.
- `PackDimensionOfVariables` (action property): `GetPackDimension` returns the sum of the
  shapes of the variables it lists, and leaves the descriptor unchanged.
- `DeliveredToOwnBuffer`: no receive buffer is matched with another channel's message.
- `ImplementsChannelDelivery`: refinement of `ChannelDelivery`, liveness included.

Liveness:
- `ExchangesComplete`: every partition finishes all its cycles and nothing is left in the
  transport.

## Runs

| Run | Config | Checks | Shows |
|-----|--------|--------|-------|
| `dense` | `MCSparseExchange_dense.cfg` | TypeOK, GhostCorrect, MessagesMatchCycle | Row, sparse off, eager MPI, 3 cycles: the exchange is correct across local and remote channels, with the receive short-circuit. |
| `sparse_live` | `MCSparseExchange_live.cfg` | MessagesMatchCycle, SendCacheMatchesField, ExchangesComplete | Pair, sparse on, rendezvous MPI, 2 cycles, deallocation at any cycle boundary, no symmetry. b3 starts unallocated, so `AllocateSparse` in its first receive re-allocates the field before its second send. The send cache is rebuilt when the allocation changes, and every exchange completes (3,126 states). |
| `inflight_free` | `MCSparseExchange_inflight.cfg` | InFlightDataOwned (violation) | Row, sparse on, 2 cycles. |
| `pack_layout` | `MCPackIndex.cfg` | TypeOK, PackRowMajor | Every shape with component extents up to 2, cell extents up to 3 and starts 0..1. |
| `pack_roundtrip` | `MCPackIndex_roundtrip.cfg` | RoundTrip (violation) | Same shapes. |
| `recv_cache_stale` | `MCSparseExchange_recvcache.cfg` | RecvCacheMatchesField (violation) | Row, sparse on, 2 cycles. |
| `orient_flip` | `MCOrientation_flip.cfg` | TransformMatchesOrientation (violation) | Already the identity orientation mirrors every axis. |
| `sd_resolve` | `MCStateDescriptor.cfg` | ResolvedHonoursRoles, ControllerMapInverse, NamesAsDocumented | The resolution contract over all subsets and orders of the role registrations, followed by every order of the queries; with the four swarm registrations (349,120 states). |
| `sd_pools` | `MCStateDescriptor_pools.cfg` | DescriptorConsistent (violation) | Pool `x` with ids 0 and 1, and dense `x_1`, in either order. |
| `sd_packdim` | `MCStateDescriptor_packdim.cfg` | PackDimensionOfVariables (violation) | The role registrations and `RolesQueries`. |
| `tag_fan` | `MCTagMatching.cfg` | ImplementsChannelDelivery | Fan: unique tags, every send/post order (625 states). |
| `tag_periodic` | `MCTagMatching_periodic.cfg` | DeliveredToOwnBuffer (violation) | Pair: four channels under one tag. |

Each property of a passing run has a mutant in `PROJECT.json`: an operator in
`SparseExchange.tla` that changes one definition the way a plausible bug would. Under the
run's configuration, TLC finds the property violated.
- Stale under the send key instead of the receive key.
- Build the Setter cache from the send-key buffer.
- A rebuild test that only notices a missing cache.
- An off-by-one end of the last cycle.
- A private copy added without the package prefix (`AddPrivateUnprefixed`).
- A swarm added without its values (`AddSwarmNoValues`).
- `InvertControllerMap` replacing a controller's vector instead of appending to it.
- The sender's own lid used twice in the tag (`SendTagSelf`).
- `GetVariableNames` pushing a name without the `names.count` guard (`PushNewAlways`).

**Bounds.**
- Three cycles are the fewest in which a buffer is written, handed over and reused twice.
- With sparse on, two cycles let a field be deallocated after the first and re-allocated in
  the second, which is the case the caches get wrong.
- The row is the smallest topology with a partition that has both a local and a remote
  neighbour, so it covers the receive order and the region barrier. The pair keeps the
  sparse runs fast.
- Orientation: 3 cells per axis is the least in which a reflection moves an interior cell;
  all 48 signed permutations include the cyclic ones.
- StateDescriptor: two packages are the fewest in which roles conflict and iteration order
  matters; one shared controller and one double overridable reach every branch of the
  tracker.
- Tags: the Fan is the smallest mesh in which one rank sends two channels to another rank.
- Queries: one request names a field twice and also matches it by flag, which exercises every
  deduplicating guard. The other picks one id out of a pool of two, which exercises the
  `sparse_ids` filter. Pools of 3-vectors make a shape visible in the dimension.
- `sparse_live` starts with only b1 allocated (`PairInitAlloc`). With both allocated, the
  only re-allocation would come after the last send, and no send would ever meet a
  re-allocated field.
- The eager run (`dense`) and the rendezvous run (`sparse_live`) together take both branches
  of `Transmit`.

**Fairness.** The task driver re-invokes every incomplete step, so there is weak fairness per
partition on its task list (`PartitionStep`; its `pc` enables at most one step). MPI
progresses every pending request, so there is weak fairness on `Transmit`. Deallocation is the
provider's choice and gets no fairness. In `TagMatching` the driver re-invokes the send and
receive steps until they complete (weak fairness on `Isend`, `Irecv`), and MPI progresses a
matchable pair (`Match`).

## Findings

1. **Freed while in flight** (run `inflight_free`).
   - `SendBoundaryBuffers` calls `buf.Free()` for a deallocated field (line 154) before the
     `other_communication_unfinished` return (line 168).
   - In the trace, b3's data Isend to b2 is still pending (b2 has not posted its Irecv). b3's
     field is then deallocated, and b3's next `SendBoundaryBuffers` returns the chunk to the
     pool.
   - This contradicts spec 4.4: `IsAvailableForWrite` exists to protect memory the transport
     may still be reading.
   - It assumes `CommBuffer::Free` does not check the state itself. That code is not in the
     tree.
2. **Unpack into a freed array** (run `recv_cache_stale`).
   - b1 receives data in cycle 1, and its field is then deallocated.
   - In cycle 2, the data from b2 arrives in the same local buffer, and `AllocateSparse`
     creates a new array.
   - `SetBoundaries` sees the same buffer and a `received` state whose cached `allocated` is
     true, so it does not rebuild (lines 329-346). It unpacks into the old array, and the new
     field's ghost zone stays zero.

3. **Tensor indices swapped on unpack** (run `pack_roundtrip`).
   - The pack reads `var(u,t,...)` and the unpack writes `var(t,u,...)`.
   - For `Nu = 1, Nt = 2`, the unpack writes index 1 on an axis of extent 1 and never writes
     `var(0,1,...)`.
   - This breaks the round trip that spec section 8 requires. The TODOs at lines 237 and 408
     already doubt this indexing.
   - The finding assumes `BndInfo` sets `Nu` to the extent of `var`'s first index, as the pack
     kernel's read implies. `BndInfo` is not in the tree.

4. **Orientation flips the wrong axes** (run `orient_flip`).
   - Line 59 keeps an axis when `dir_flip` is true and reflects it (`ncells - i`) when false,
     so the default, unreversed orientation mirrors every axis.
   - The loop also reads input axis `dir_connection[dir]` for output axis `dir`, and applies
     `dir_flip[dir]` to it. That is the inverse of the origin-to-neighbour sense of
     SetDirection, which the element direction at line 64 follows.
   - With the flip corrected, TLC still finds the property violated by a transposition whose
     two flips differ.
5. **Pool `x` and field `x_1` leave the descriptor inconsistent** (run `sd_pools`).
   - With the pool first (TLC's trace), `AddFieldImpl` checks `FieldPresent("x_1")` at line
     273. That looks for the dense `VarID("x_1")`, so `x_1` is accepted and two variables
     carry the label `x_1`.
   - With `x_1` first, `AddSparsePoolImpl` inserts the pool at line 321 and then adds one
     field per id. Id 1 fails and line 332 throws, leaving the pool and the field for id 0.
   - The comment at lines 330-331 says the throw avoids an inconsistent descriptor. A caller
     that catches it has one.
   - Both cases assume that `VarID` equality compares base name and sparse id.
6. **Two channels under one tag** (run `tag_periodic`).
   - The tag depends only on the two blocks' lids. Blocks that neighbour on two sides (a
     periodic mesh two blocks wide) send two channels under one tag on one communicator.
   - MPI matches by posting order, so when a rank sends in a different order from the one
     its peer posts in, the +x message lands in the -x buffer. Spec 4.4 calls two channel
     keys under one tag a design error.

7. **GetPackDimension miscounts sparse fields and inserts phantom fields** (run `sd_packdim`).
   - Line 577 looks up `metadataMap_[VarID(name)]` for each listed name. For a sparse field the
     name is the label `A::s_1`, whose dense `VarID` is not in the map.
   - `operator[]` inserts a default `Metadata`, whose empty shape counts 1. A pool of
     3-vectors with ids 0 and 1 therefore gives dimension 2 instead of 6.
   - The descriptor is left with dense fields `A::s_0` and `A::s_1`, which `FieldPresent` and
     later registrations then see.
   - This finding assumes the same `VarID` equality as finding 5.

Checked outside the run list (it is capped); each is a property of the modules, and TLC
finds it violated with the constants named:
- `ElementFollowsAxes` (MCOrientation constants): for a cyclic permutation, line 64 reports
  element direction `dir_connection[iel]` while the index loop carries axis `iel` to the
  axis `d` with `dir_connection[d] = iel`.
- `OverridableFromRegistrant` (`Calls <- OverrideCalls`): A requires sparse `x`, B registers
  it overridable; with A first, `AddOverridable` (lines 172-183) takes A's pool.
- Swarms have the same problem. A requires swarm `r` with value x, and B registers `r` as
  overridable with values x and y. With A first in iteration order,
  `SwarmProvider::AddOverridable` (lines 219-226) copies only A's value x.
- `DeliveredToOwnBuffer` with the Wide constants: lids 512 -> 0 and 0 -> 1 share tag 512.
- `ImplementsChannelDelivery` with the Pair constants: the mismatched match is no step of
  `ChannelDelivery`.

## Not modelled

Assumptions for code not in the tree: `VarID` compares base name and sparse id;
`FieldPresent`/`SparseBaseNamePresent` look up `VarID(name)` and the pool map; a flux field's
metadata has the default role Provides; `GetSparsePool` of a missing pool fails.

Left out:
- `RelativeOrientation::Transform(LogicalLocation)` and `TransformBack`: declared, no body.
- `FlagsPresent` and `operator<<` are a read-only query and formatting. The boundary-function
  lists that resolution concatenates (lines 455-463) are read by no property. Swarm value
  metadata (the `Particle` flag) is abstracted away.
- `LogicalLocation` and the neighbour finder: only their tests are in the tree.
- `Restrict`, which only transforms data.
- The data-parallel kernels' per-element work.
- Pool growth past the chunks the buffers need.
- A liveness run on the row topology, which is too slow without symmetry.
