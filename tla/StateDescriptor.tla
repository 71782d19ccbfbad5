--------------------------- MODULE StateDescriptor ---------------------------
(***************************************************************************)
(* Field registration and package resolution of                           *)
(* src/src/interface/state_descriptor.cpp.                                 *)
(*                                                                         *)
(* Each package owns a StateDescriptor into which the application adds    *)
(* dense fields (AddFieldImpl) and sparse pools (AddSparsePoolImpl); the  *)
(* packages are added to a Packages_t.  CreateResolvedStateDescriptor then *)
(* walks the packages, sorts every field by its role (Private, Provides,  *)
(* Requires, Overridable) in a DependencyTracker, adds the private and     *)
(* provided ones to a new descriptor, checks the required ones, adds the  *)
(* overridable ones nobody provides, and inverts the controller map.      *)
(*                                                                         *)
(* Names are strings, as in the code, so that a label built by            *)
(* MakeVarLabel (base + "_" + id) can meet a name given by the user.       *)
(* Metadata is abstracted to the role, the Sparse and WithFluxes flags,   *)
(* the flux name, the package that registered it (owner), the product of  *)
(* its shape (size) and the other flags it carries.  A swarm is its      *)
(* metadata and the names of its values; the boundary functions are not  *)
(* modelled.                                                              *)
(***************************************************************************)
EXTENDS Integers, FiniteSets, FiniteSetsExt, Sequences, SequencesExt, Bags, TLC

CONSTANTS
  Pkgs,    \* the labels of the packages' StateDescriptors
  Calls,   \* the registrations the application may make, each at most once
  NoId,    \* InvalidSparseID: the sparse id of a dense field
  Queries  \* the queries made of the resolved state, each at most once per kind

Roles == {"Private", "Provides", "Requires", "Overridable"}

(* A registration: AddField(base, metadata, controller) when kind is      *)
(* "field", AddSparsePool(SparsePool(base, metadata, ids, controller))    *)
(* when kind is "pool" (ctrl "" for no controller), AddSwarm(base,        *)
(* metadata) then AddSwarmValue for each of values when kind is "swarm".  *)
ASSUME \A c \in Calls :
  /\ c.pkg \in Pkgs /\ c.kind \in {"field", "pool", "swarm"} /\ c.role \in Roles
  /\ c.sparse = (c.kind = "pool") /\ c.flux \in BOOLEAN
  /\ c.size \in Nat \ {0} /\ c.flags \subseteq STRING

internal_varname_seperator == "::"
internal_fluxname == "bnd_flux"

(* MakeVarLabel, and VarID::label(): a VarID is <<base_name, sparse_id>>. *)
Label(vid) ==
  IF vid[2] = NoId THEN vid[1] ELSE vid[1] \o "_" \o ToString(vid[2])

EmptyFn == [x \in {} |-> NoId]

(* A StateDescriptor: metadataMap_, sparsePoolMap_,                       *)
(* allocControllerReverseMap_ (VarID -> controlling VarID) and            *)
(* allocControllerMap_ (a bag of <<controller label, variable label>>;    *)
(* the order of each controller's vector is abstracted), swarmMetadataMap_ *)
(* and swarmValueMetadataMap_ (a set of <<swarm, value>>; the values'     *)
(* metadata is abstracted).                                               *)
EmptyDescriptor == [meta |-> EmptyFn, pools |-> EmptyFn, rev |-> EmptyFn,
                    ctrl |-> EmptyBag, swarms |-> EmptyFn, svals |-> {}]

FieldPresent(D, name) == <<name, NoId>> \in DOMAIN D.meta
SparseBaseNamePresent(D, name) == name \in DOMAIN D.pools

MetaOf(c) == [role |-> c.role, sparse |-> c.sparse, flux |-> c.flux,
              fluxName |-> "", owner |-> c.pkg, size |-> c.size, flags |-> c.flags]

(* The metadata AddFieldImpl builds for the flux field of a WithFluxes    *)
(* field: OneCopy, Flux, the Sparse flag and the shape of the field; no  *)
(* role flag, so the default role (Provides).                             *)
FluxMeta(m) == [role |-> "Provides", sparse |-> m.sparse, flux |-> FALSE,
                fluxName |-> "", owner |-> m.owner, size |-> m.size,
                flags |-> {"OneCopy", "Flux"}]

(* AddFieldImpl(vid, m, control_vid): FALSE if a dense field or a sparse  *)
(* pool already has the label; otherwise add the flux field first (its    *)
(* result ignored), then the metadata and the controller entry.           *)
RECURSIVE AddFieldImpl(_, _, _, _)
AddFieldImpl(D, vid, m, cvid) ==
  IF FieldPresent(D, Label(vid)) \/ SparseBaseNamePresent(D, Label(vid))
  THEN [ok |-> FALSE, d |-> D]
  ELSE LET fId == <<internal_fluxname \o internal_varname_seperator \o vid[1], vid[2]>>
           withFlux == m.flux /\ m.fluxName = ""
           D1 == IF withFlux THEN AddFieldImpl(D, fId, FluxMeta(m), cvid).d ELSE D
           m1 == IF withFlux THEN [m EXCEPT !.fluxName = Label(fId)] ELSE m
       IN [ok |-> TRUE,
           d |-> [D1 EXCEPT !.meta = @ @@ (vid :> m1), !.rev = @ @@ (vid :> cvid)]]

(* The loop of AddSparsePoolImpl over the pool's ids, in ascending order  *)
(* (pool() is an ordered map): a field that cannot be added throws, with  *)
(* the fields added so far left in place.                                 *)
RECURSIVE AddPoolFields(_, _, _, _)
AddPoolFields(D, pool, cb, ids) ==
  IF ids = {} THEN [ok |-> TRUE, threw |-> FALSE, d |-> D]
  ELSE LET i == Min(ids)
           r == AddFieldImpl(D, <<pool.base, i>>, pool.meta, <<cb, i>>)
       IN IF r.ok THEN AddPoolFields(r.d, pool, cb, ids \ {i})
          ELSE [ok |-> FALSE, threw |-> TRUE, d |-> D]

(* AddSparsePoolImpl(pool): FALSE for an empty pool or a taken name;      *)
(* otherwise register the pool, then add one field per id.                *)
AddSparsePoolImpl(D, pool) ==
  IF pool.ids = {} \/ FieldPresent(D, pool.base) \/ SparseBaseNamePresent(D, pool.base)
  THEN [ok |-> FALSE, threw |-> FALSE, d |-> D]
  ELSE AddPoolFields([D EXCEPT !.pools = @ @@ (pool.base :> pool)], pool,
                     IF pool.ctrl = "" THEN pool.base ELSE pool.ctrl, pool.ids)

PoolOf(c) == [base |-> c.base, ids |-> c.ids, meta |-> MetaOf(c), ctrl |-> c.ctrl]

SwarmPresent(D, name) == name \in DOMAIN D.swarms
SwarmValues(D, swarm) == {x[2] : x \in {y \in D.svals : y[1] = swarm}}

(* AddSwarm(name, m): FALSE if the swarm exists, otherwise inserted.      *)
AddSwarm(D, name, m) ==
  IF SwarmPresent(D, name) THEN [ok |-> FALSE, d |-> D]
  ELSE [ok |-> TRUE, d |-> [D EXCEPT !.swarms = @ @@ (name :> m)]]

(* AddSwarmValue(value_name, swarm_name, m): throws if the swarm does not *)
(* exist or already has the value.                                        *)
AddSwarmValue(D, value, swarm) ==
  IF ~SwarmPresent(D, swarm) \/ <<swarm, value>> \in D.svals
  THEN [ok |-> FALSE, d |-> D]
  ELSE [ok |-> TRUE, d |-> [D EXCEPT !.svals = @ \cup {<<swarm, value>>}]]

(* AddSwarmValue for each of a set of values, in one fixed order; the     *)
(* first throw ends the loop with the values before it added.             *)
RECURSIVE AddSwarmValues(_, _, _)
AddSwarmValues(D, values, swarm) ==
  IF values = {} THEN [ok |-> TRUE, d |-> D]
  ELSE LET v == CHOOSE x \in values : TRUE
           r == AddSwarmValue(D, v, swarm)
       IN IF r.ok THEN AddSwarmValues(r.d, values \ {v}, swarm) ELSE r
-----------------------------------------------------------------------------
(* The queries GetVariableNames and GetPackDimension: a request is a      *)
(* sequence of names, a flag collection (empty: none) and a set of sparse *)
(* ids (empty: all).                                                      *)

(* MetadataUtils::MatchFlags of a collection of flags that must all be    *)
(* set.                                                                   *)
MatchFlags(flags, m) == flags \subseteq m.flags

(* Mutant: a name is pushed onto names_vec whether or not it is there.   *)
PushNewAlways(names, n) == Append(names, n)

(* The names.count(name) == 0 guard before each push_back.                *)
PushNew(names, n) == IF n \in ToSet(names) THEN names ELSE Append(names, n)

(* The labels of a pool's ids that sparse_ids selects, in id order.       *)
PoolLabels(D, b, ids) ==
  LET sel == SetToSortSeq({i \in D.pools[b].ids : ids = {} \/ i \in ids}, <)
  IN [k \in DOMAIN sel |-> Label(<<b, sel[k]>>)]

(* The first loop: a present dense field by its name, a pool by its ids.  *)
ByName(D, n, ids) ==
  IF FieldPresent(D, n) THEN <<n>>
  ELSE IF SparseBaseNamePresent(D, n) THEN PoolLabels(D, n, ids) ELSE <<>>

(* The loops over metadataMap_ (non-sparse fields) and sparsePoolMap_     *)
(* when flags is not empty; the maps are unordered, any order will do.    *)
ByFlags(D, flags, ids) ==
  IF flags = {} THEN <<>>
  ELSE SetToSeq({Label(v) : v \in {v \in DOMAIN D.meta :
                                     MatchFlags(flags, D.meta[v]) /\ ~D.meta[v].sparse}})
       \o FlattenSeq(LET ps == SetToSeq({b \in DOMAIN D.pools :
                                           MatchFlags(flags, D.pools[b].meta)})
                     IN [k \in DOMAIN ps |-> PoolLabels(D, ps[k], ids)])

GetVariableNames(D, q) ==
  FoldLeft(PushNew, <<>>,
           FlattenSeq([k \in DOMAIN q.names |-> ByName(D, q.names[k], q.ids)])
             \o ByFlags(D, q.flags, q.ids))

(* The PARTHENON_THROW for a name whose dense field is marked Sparse.     *)
NamesThrow(D, q) ==
  \E k \in DOMAIN q.names :
    FieldPresent(D, q.names[k]) /\ D.meta[<<q.names[k], NoId>>].sparse

(* A default-constructed Metadata: no flags, empty shape.                 *)
DefaultMeta == [role |-> "Provides", sparse |-> FALSE, flux |-> FALSE,
                fluxName |-> "", owner |-> "", size |-> 1, flags |-> {}]

(* GetPackDimension: metadataMap_[VarID(name)] for each returned name;    *)
(* operator[] inserts a default Metadata for a key it does not hold, and  *)
(* an empty shape accumulates to 1.                                       *)
GetPackDimension(D, q) ==
  LET names == GetVariableNames(D, q)
      new == {<<names[k], NoId>> : k \in DOMAIN names} \ DOMAIN D.meta
      D1 == [D EXCEPT !.meta = @ @@ [v \in new |-> DefaultMeta]]
  IN [names |-> names, d |-> D1,
      dim |-> FoldLeft(LAMBDA a, n : a + D1.meta[<<n, NoId>>].size, 0, names)]
-----------------------------------------------------------------------------
VARIABLES
  pkg,       \* package label -> its StateDescriptor
  made,      \* the registrations made so far
  caught,    \* registrations that threw and that the caller caught
  added,     \* Packages_t::packages_
  state,     \* the resolved StateDescriptor
  phase,     \* where CreateResolvedStateDescriptor is
  order,     \* the iteration order of packages_.AllPackages()
  cur,       \* the index in order of the package being categorized
  catDone,   \* the entries of that package's field_dict already categorized
  provided,  \* field_tracker.provided_vars
  depends,   \* field_tracker.depends_vars
  ovCount,   \* field_tracker.overridable_vars
  ovMeta,    \* field_tracker.overridable_meta (at most one entry per name)
  ovDone,    \* the overridable_vars already treated by CheckOverridable
  resolved,  \* the resolved state as CreateResolvedStateDescriptor returned it
  asked,     \* the queries made of it so far, with their kind
  answer     \* the last query and what it returned

vars == <<pkg, made, caught, added, state, phase, order, cur, catDone,
          provided, depends, ovCount, ovMeta, ovDone, resolved, asked, answer>>
trackerVars == <<provided, depends, ovCount, ovMeta, ovDone>>
queryVars == <<resolved, asked, answer>>

NoAnswer == [op |-> "none", q |-> <<>>, names |-> <<>>, dim |-> 0]

Init ==
  /\ pkg = [p \in Pkgs |-> EmptyDescriptor]
  /\ made = {} /\ caught = {} /\ added = {}
  /\ state = EmptyDescriptor
  /\ phase = "register"
  /\ order = <<>> /\ cur = 1 /\ catDone = {}
  /\ provided = {} /\ depends = {} /\ ovCount = EmptyFn /\ ovMeta = EmptyFn
  /\ ovDone = {}
  /\ resolved = EmptyDescriptor /\ asked = {} /\ answer = NoAnswer

(* The application registers a field, a pool or a swarm with a package.  *)
(* A FALSE result is returned to the caller; a throw of AddSparsePoolImpl *)
(* or AddSwarmValue is caught by the caller, who carries on.              *)
Register(c) ==
  /\ phase = "register"
  /\ c \notin made
  /\ LET r == IF c.kind = "field"
              THEN AddFieldImpl(pkg[c.pkg], <<c.base, NoId>>, MetaOf(c), <<c.ctrl, NoId>>)
              ELSE IF c.kind = "pool" THEN AddSparsePoolImpl(pkg[c.pkg], PoolOf(c))
              ELSE LET a == AddSwarm(pkg[c.pkg], c.base, MetaOf(c)).d
                       v == AddSwarmValues(a, c.values, c.base)
                   IN [ok |-> v.ok, threw |-> ~v.ok, d |-> v.d]
     IN /\ pkg' = [pkg EXCEPT ![c.pkg] = r.d]
        /\ caught' = IF c.kind # "field" /\ r.threw THEN caught \cup {c} ELSE caught
  /\ made' = made \cup {c}
  /\ UNCHANGED <<added, state, phase, order, cur, catDone, trackerVars, queryVars>>

(* Packages_t::Add: a name may be added once; a second Add throws.        *)
Add(p) ==
  /\ phase = "register"
  /\ IF p \in added THEN phase' = "thrown" ELSE phase' = phase
  /\ added' = added \cup {p}
  /\ UNCHANGED <<pkg, made, caught, state, order, cur, catDone, trackerVars,
                 queryVars>>
-----------------------------------------------------------------------------
(* The field_dict of a package in CreateResolvedStateDescriptor: the      *)
(* labels of its dense fields and the base names of its sparse pools,     *)
(* with the metadata (a pool's shared metadata) each is categorized by.   *)
FieldDict(p) ==
  {Label(v) : v \in {v \in DOMAIN pkg[p].meta : ~pkg[p].meta[v].sparse}}
    \cup DOMAIN pkg[p].pools
DictMeta(p, n) ==
  IF n \in DOMAIN pkg[p].pools THEN pkg[p].pools[n].meta ELSE pkg[p].meta[<<n, NoId>>]

(* The entries the two trackers categorize: field_dict, then AllSwarms(). *)
Dict(p) == {<<"field", n>> : n \in FieldDict(p)} \cup {<<"swarm", n>> : n \in DOMAIN pkg[p].swarms}
EntryMeta(p, e) == IF e[1] = "field" THEN DictMeta(p, e[2]) ELSE pkg[p].swarms[e[2]]

(* CategorizeCollection of the swarms comes after that of field_dict, and *)
(* the swarm tracker's CheckOverridable after the field tracker's.        *)
InTurn(e, pending) == e[1] = "field" \/ \A f \in pending : f[1] = "swarm"

(* GetFieldController(base): the VarID that controls the dense field.    *)
GetFieldController(p, n) == pkg[p].rev[<<n, NoId>>]

(* Apply a descriptor operation to the resolved state: a FALSE result     *)
(* fails the PARTHENON_REQUIRE_THROWS of the provider.                    *)
Apply(r) ==
  /\ state' = r.d
  /\ phase' = IF r.ok THEN phase ELSE "thrown"

(* Mutant: the private copy keeps the base name, without the package.    *)
AddPrivateUnprefixed(p, n, m) ==
  IF m.sparse THEN AddSparsePoolImpl(state, pkg[p].pools[n])
  ELSE AddFieldImpl(state, <<n, NoId>>, m, GetFieldController(p, n))

(* FieldProvider::AddPrivate: the field or a copy of the pool under       *)
(* package::base.                                                         *)
AddPrivate(p, n, m) ==
  LET new == p \o internal_varname_seperator \o n
  IN IF m.sparse THEN AddSparsePoolImpl(state, [pkg[p].pools[n] EXCEPT !.base = new])
     ELSE AddFieldImpl(state, <<new, NoId>>, m, GetFieldController(p, n))

(* FieldProvider::AddProvides: the field or the pool under its own name.  *)
AddProvides(p, n, m) ==
  IF m.sparse THEN AddSparsePoolImpl(state, pkg[p].pools[n])
  ELSE AddFieldImpl(state, <<n, NoId>>, m, GetFieldController(p, n))

(* FieldProvider::AddOverridable: the first package in iteration order   *)
(* that has a pool or a dense field of that name supplies the pool; a     *)
(* dense field comes from the first package with a dense field of that    *)
(* name, with the metadata of the first overridable registration.         *)
AddOverridable(n, m) ==
  LET found == {i \in 1..Len(order) : SparseBaseNamePresent(pkg[order[i]], n)
                                      \/ FieldPresent(pkg[order[i]], n)}
      dense == {i \in 1..Len(order) : FieldPresent(pkg[order[i]], n)}
      q == order[Min(found)]
  IN IF found = {} THEN [ok |-> FALSE, d |-> state]
     ELSE IF m.sparse
          THEN IF n \in DOMAIN pkg[q].pools
               THEN AddSparsePoolImpl(state, pkg[q].pools[n])
               ELSE [ok |-> FALSE, d |-> state]
          ELSE IF dense = {} THEN [ok |-> FALSE, d |-> state]
               ELSE AddFieldImpl(state, <<n, NoId>>, m,
                                 GetFieldController(order[Min(dense)], n))

(* Mutant: a swarm is added without its values.                          *)
AddSwarmNoValues(D, p, swarm, name, m) ==
  AddSwarm(D, name, [m EXCEPT !.flags = @ \cup {"Swarm"}])

(* SwarmProvider::AddSwarm_: the swarm, marked Swarm, whatever AddSwarm   *)
(* returns, then each value the package registered on it.                 *)
AddSwarm_(D, p, swarm, name, m) ==
  AddSwarmValues(AddSwarm(D, name, [m EXCEPT !.flags = @ \cup {"Swarm"}]).d,
                 SwarmValues(pkg[p], swarm), name)

(* SwarmProvider::AddOverridable: the swarm with the overridable          *)
(* metadata, then the values of the first package, in iteration order,    *)
(* that has a swarm of that name.                                         *)
SwarmAddOverridable(n, m) ==
  LET D1 == AddSwarm(state, n, m).d
      found == {i \in 1..Len(order) : SwarmPresent(pkg[order[i]], n)}
  IN IF found = {} THEN [ok |-> TRUE, d |-> D1]
     ELSE AddSwarmValues(D1, SwarmValues(pkg[order[Min(found)]], n), n)

(* The VariableProvider calls of Categorize and CheckOverridable, to the  *)
(* FieldProvider or the SwarmProvider of the entry's tracker.             *)
ProvidePrivate(p, e, m) ==
  IF e[1] = "field" THEN AddPrivate(p, e[2], m)
  ELSE AddSwarm_(state, p, e[2], p \o internal_varname_seperator \o e[2], m)
ProvideProvides(p, e, m) ==
  IF e[1] = "field" THEN AddProvides(p, e[2], m) ELSE AddSwarm_(state, p, e[2], e[2], m)
ProvideOverridable(e, m) ==
  IF e[1] = "field" THEN AddOverridable(e[2], m) ELSE SwarmAddOverridable(e[2], m)

(* Mutant: each controller's vector is replaced, not appended to, so it   *)
(* keeps one of the variables it controls.                                *)
InvertControllerMapOverwrite(D) ==
  LET Pair(v) == <<Label(D.rev[v]), Label(v)>>
      conts == {Label(D.rev[v]) : v \in DOMAIN D.rev}
      last(c) == CHOOSE v \in DOMAIN D.rev : Label(D.rev[v]) = c
  IN [D EXCEPT !.ctrl = SetToBag({Pair(last(c)) : c \in conts})]

(* InvertControllerMap appends every variable of allocControllerReverseMap_ *)
(* to the vector of its controller, keeping what the map already holds.   *)
InvertControllerMap(D) ==
  LET Pair(v) == <<Label(D.rev[v]), Label(v)>>
  IN [D EXCEPT !.ctrl =
        @ (+) [x \in {Pair(v) : v \in DOMAIN D.rev} |->
                 Cardinality({v \in DOMAIN D.rev : Pair(v) = x})]]

(* CreateResolvedStateDescriptor begins: a new descriptor and trackers,   *)
(* the packages in the iteration order of their unordered map.            *)
StartResolve ==
  /\ phase = "register"
  /\ order' \in SetToSeqs(added)
  /\ phase' = "categorize"
  /\ UNCHANGED <<pkg, made, caught, added, state, cur, catDone, trackerVars,
                 queryVars>>

(* DependencyTracker::Categorize of one entry of the current package, by *)
(* the field or the swarm tracker, with the provider call it makes.  The  *)
(* trackers are one set of variables over <<kind, name>> entries.          *)
Categorize ==
  /\ phase = "categorize"
  /\ cur <= Len(order)
  /\ LET p == order[cur] IN
     \E n \in Dict(p) \ catDone :
       LET m == EntryMeta(p, n) IN
       /\ InTurn(n, Dict(p) \ catDone)
       /\ catDone' = catDone \cup {n}
       /\ \/ /\ m.role = "Private"
             /\ Apply(ProvidePrivate(p, n, m))
             /\ UNCHANGED trackerVars
          \/ /\ m.role = "Provides"
             /\ n \in provided
             /\ phase' = "thrown"
             /\ UNCHANGED <<state, trackerVars>>
          \/ /\ m.role = "Provides"
             /\ n \notin provided
             /\ provided' = provided \cup {n}
             /\ Apply(ProvideProvides(p, n, m))
             /\ UNCHANGED <<depends, ovCount, ovMeta, ovDone>>
          \/ /\ m.role = "Requires"
             /\ depends' = depends \cup {n}
             /\ UNCHANGED <<state, phase, provided, ovCount, ovMeta, ovDone>>
          \/ /\ m.role = "Overridable"
             /\ ovMeta' = IF n \in DOMAIN ovMeta THEN ovMeta ELSE ovMeta @@ (n :> m)
             \* overridable_meta[n] only ever holds one entry, so the count is
             \* raised by every package that registers n as overridable
             /\ ovCount' = IF n \in DOMAIN ovCount THEN [ovCount EXCEPT ![n] = @ + 1]
                           ELSE ovCount @@ (n :> 1)
             /\ UNCHANGED <<state, phase, provided, depends, ovDone>>
  /\ UNCHANGED <<pkg, made, caught, added, order, cur, queryVars>>

(* The end of the body of the loop over the packages.                     *)
NextPackage ==
  /\ phase = "categorize"
  /\ cur <= Len(order)
  /\ Dict(order[cur]) \subseteq catDone
  /\ cur' = cur + 1
  /\ catDone' = {}
  /\ UNCHANGED <<pkg, made, caught, added, state, phase, order, trackerVars,
                 queryVars>>

(* DependencyTracker::CheckRequires of the field, then the swarm tracker. *)
CheckRequires ==
  /\ phase = "categorize"
  /\ cur > Len(order)
  /\ phase' = IF \E v \in depends : v \notin provided /\ v \notin DOMAIN ovCount
              THEN "thrown" ELSE "overridable"
  /\ UNCHANGED <<pkg, made, caught, added, state, order, cur, catDone, trackerVars,
                 queryVars>>

(* One iteration of DependencyTracker::CheckOverridable.                  *)
CheckOverridable ==
  /\ phase = "overridable"
  /\ \E n \in DOMAIN ovCount \ ovDone :
       /\ InTurn(n, DOMAIN ovCount \ ovDone)
       /\ ovDone' = ovDone \cup {n}
       /\ IF n \in provided THEN UNCHANGED <<state, phase>>
          ELSE Apply(ProvideOverridable(n, ovMeta[n]))
  /\ UNCHANGED <<pkg, made, caught, added, order, cur, catDone,
                 provided, depends, ovCount, ovMeta, queryVars>>

(* The last step of CreateResolvedStateDescriptor.                        *)
Invert ==
  /\ phase = "overridable"
  /\ ovDone = DOMAIN ovCount
  /\ state' = InvertControllerMap(state)
  /\ resolved' = state'
  /\ phase' = "done"
  /\ UNCHANGED <<pkg, made, caught, added, order, cur, catDone, trackerVars,
                 asked, answer>>

(* GetVariableNames(requested_names, flags, sparse_ids) of the resolved   *)
(* state.                                                                 *)
VariableNames(q) ==
  /\ phase = "done"
  /\ <<"names", q>> \notin asked
  /\ asked' = asked \cup {<<"names", q>>}
  /\ IF NamesThrow(state, q)
     THEN phase' = "thrown" /\ UNCHANGED answer
     ELSE /\ answer' = [op |-> "names", q |-> q, names |-> GetVariableNames(state, q),
                        dim |-> 0]
          /\ UNCHANGED phase
  /\ UNCHANGED <<pkg, made, caught, added, state, order, cur, catDone, trackerVars,
                 resolved>>

(* GetPackDimension(req_names, flags, sparse_ids) of the resolved state.  *)
PackDimension(q) ==
  /\ phase = "done"
  /\ <<"dim", q>> \notin asked
  /\ asked' = asked \cup {<<"dim", q>>}
  /\ IF NamesThrow(state, q)
     THEN phase' = "thrown" /\ UNCHANGED <<state, answer>>
     ELSE LET r == GetPackDimension(state, q) IN
          /\ state' = r.d
          /\ answer' = [op |-> "dim", q |-> q, names |-> r.names, dim |-> r.dim]
          /\ UNCHANGED phase
  /\ UNCHANGED <<pkg, made, caught, added, order, cur, catDone, trackerVars,
                 resolved>>

Terminated ==
  /\ \/ phase = "thrown"
     \/ phase = "done" /\ asked = {"names", "dim"} \X Queries
  /\ UNCHANGED vars

Next ==
  \/ \E c \in Calls : Register(c)
  \/ \E p \in Pkgs : Add(p)
  \/ StartResolve \/ Categorize \/ NextPackage \/ CheckRequires
  \/ CheckOverridable \/ Invert
  \/ \E q \in Queries : VariableNames(q) \/ PackDimension(q)
  \/ Terminated

Spec == Init /\ [][Next]_vars
-----------------------------------------------------------------------------
Present(D, n) == FieldPresent(D, n) \/ SparseBaseNamePresent(D, n)
Owner(D, n) ==
  IF n \in DOMAIN D.pools THEN D.pools[n].meta.owner ELSE D.meta[<<n, NoId>>].owner
Descriptors == {pkg[p] : p \in Pkgs} \cup {state}

(* The contract of CreateResolvedStateDescriptor: when it returns, every  *)
(* private field of every package is in the resolved state under          *)
(* package::name, every provided one under its name with its provider's   *)
(* metadata, and every required or overridable one is there too.         *)
(* A private or provided swarm carries every value its package gave it,  *)
(* a provided one exactly those.                                          *)
ResolvedHonoursRoles ==
  phase = "done" =>
    \A p \in added : \A e \in Dict(p) :
      LET n == e[2]
          role == EntryMeta(p, e).role
          priv == p \o internal_varname_seperator \o n
      IN IF e[1] = "field"
         THEN /\ role = "Private" => Present(state, priv)
              /\ role = "Provides" => Present(state, n) /\ Owner(state, n) = p
              /\ role \in {"Requires", "Overridable"} => Present(state, n)
         ELSE /\ role = "Private" =>
                   SwarmPresent(state, priv) /\ SwarmValues(pkg[p], n) \subseteq SwarmValues(state, priv)
              /\ role = "Provides" =>
                   /\ SwarmPresent(state, n) /\ state.swarms[n].owner = p
                   /\ SwarmValues(state, n) = SwarmValues(pkg[p], n)
              /\ role \in {"Requires", "Overridable"} => SwarmPresent(state, n)

(* InvertControllerMap gives allocControllerMap_ as the exact inverse of   *)
(* allocControllerReverseMap_: every variable appears once, in the vector  *)
(* of the variable that controls it, and nowhere else.                    *)
ControllerMapInverse ==
  phase = "done" =>
    state.ctrl = SetToBag({<<Label(state.rev[v]), Label(v)>> : v \in DOMAIN state.rev})

(* No two variables of a descriptor share a label: GetVariableNames,       *)
(* GetPackDimension and the controller map all go by label.               *)
LabelsUnique ==
  \A D \in Descriptors : \A v, w \in DOMAIN D.meta : v # w => Label(v) # Label(w)

(* The comment at line 330: a sparse pool in sparsePoolMap_ has a field   *)
(* for every one of its ids, so the descriptor is never left inconsistent. *)
PoolsComplete ==
  \A D \in Descriptors : \A b \in DOMAIN D.pools :
    \A i \in D.pools[b].ids : <<b, i>> \in DOMAIN D.meta

(* The comment at line 330 asks that a registration never leave the      *)
(* StateDescriptor inconsistent: labels unique and pools complete.        *)
DescriptorConsistent == LabelsUnique /\ PoolsComplete

(* The names GetVariableNames(requested_names, flags, sparse_ids) should  *)
(* return, as its comment at lines 484-490 lists them.                    *)
Selected(D, b, ids) == {Label(<<b, i>>) : i \in {i \in D.pools[b].ids : ids = {} \/ i \in ids}}
RequestedNames(D, q) ==
  {n \in ToSet(q.names) : FieldPresent(D, n)}
    \cup UNION {Selected(D, b, q.ids) : b \in ToSet(q.names) \cap DOMAIN D.pools}
FlaggedNames(D, q) ==
  IF q.flags = {} THEN {}
  ELSE {Label(v) : v \in {v \in DOMAIN D.meta :
                           ~D.meta[v].sparse /\ MatchFlags(q.flags, D.meta[v])}}
         \cup UNION {Selected(D, b, q.ids) :
                       b \in {b \in DOMAIN D.pools : MatchFlags(q.flags, D.pools[b].meta)}}
Documented(D, a) ==
  LET s == a.names IN
  /\ IsInjective(s)
  /\ ToSet(s) = RequestedNames(D, a.q) \cup FlaggedNames(D, a.q)
  /\ \A i, j \in DOMAIN s :
       i < j /\ s[j] \in RequestedNames(D, a.q) => s[i] \in RequestedNames(D, a.q)

(* Every answer of GetVariableNames and GetPackDimension lists, once      *)
(* each, the requested fields and pools present in the state it was asked *)
(* of, then the ones the flags pick up, and nothing else.                 *)
NamesAsDocumented == [][answer' # answer => Documented(state, answer')]_vars

(* GetPackDimension is the total length of the variables it packs: the   *)
(* sum of the shapes of the variables GetVariableNames returns, and it    *)
(* leaves the descriptor as it found it.                                  *)
SizeOfLabel(D, n) == D.meta[CHOOSE v \in DOMAIN D.meta : Label(v) = n].size
PackDimensionOfVariables ==
  [][answer'.op = "dim" /\ answer' # answer =>
       /\ answer'.dim = FoldLeft(LAMBDA x, n : x + SizeOfLabel(state, n), 0, answer'.names)
       /\ state'.meta = state.meta]_vars

(* An overridable field nobody provides enters the resolved state with    *)
(* the metadata of a package that registered it as overridable.          *)
OverridableFromRegistrant ==
  phase = "done" =>
    \A e \in {e \in DOMAIN ovMeta \ provided : e[1] = "field"} :
      LET q == Owner(state, e[2])
      IN e[2] \in FieldDict(q) /\ DictMeta(q, e[2]).role = "Overridable"
=============================================================================
