-------------------------- MODULE MCStateDescriptor --------------------------
(***************************************************************************)
(* Two packages A and B and small sets of registrations.                  *)
(***************************************************************************)
EXTENDS StateDescriptor

(* Dense fields are scalars tagged Independent; pools hold vectors of 3. *)
Field(p, b, r, f, c) ==
  [pkg |-> p, kind |-> "field", base |-> b, role |-> r, sparse |-> FALSE,
   flux |-> f, ids |-> {}, ctrl |-> c, size |-> 1, flags |-> {"Independent"},
   values |-> {}]
Pool(p, b, r, ids) ==
  [pkg |-> p, kind |-> "pool", base |-> b, role |-> r, sparse |-> TRUE,
   flux |-> FALSE, ids |-> ids, ctrl |-> "", size |-> 3, flags |-> {"Independent"},
   values |-> {}]
Swarm(p, b, r, vals) ==
  [pkg |-> p, kind |-> "swarm", base |-> b, role |-> r, sparse |-> FALSE,
   flux |-> FALSE, ids |-> {}, ctrl |-> "", size |-> 1, flags |-> {}, values |-> vals]

(* Every role; a field with fluxes; a controller shared by two fields;    *)
(* private pools of one name in both packages; a field both packages      *)
(* register as overridable; a requirement of B provided by A.             *)
MCPkgs == {"A", "B"}
MCNoId == -1
RolesCalls ==
  {Field("A", "u", "Provides", TRUE, "u"), Field("B", "u", "Requires", FALSE, "u"),
   Field("B", "v", "Provides", FALSE, "u"),
   Pool("A", "s", "Private", {0, 1}), Pool("B", "s", "Private", {1}),
   Field("A", "w", "Overridable", FALSE, "w"), Field("B", "w", "Overridable", FALSE, "w"),
   Swarm("A", "p", "Provides", {"x", "y"}), Swarm("B", "p", "Requires", {"x"}),
   Swarm("B", "q", "Private", {"x"}), Swarm("A", "r", "Overridable", {"x"})}

(* A request by name with a repeat and by flag, all ids; and the private *)
(* pool of A by name, id 1 only.                                          *)
RolesQueries ==
  {[names |-> <<"u", "w", "u">>, flags |-> {"Independent"}, ids |-> {}],
   [names |-> <<"A::s">>, flags |-> {}, ids |-> {1}]}

NoQueries == {}

(* A pool x with id 1 and a dense field named x_1, its label.             *)
CollideCalls == {Pool("A", "x", "Provides", {0, 1}), Field("A", "x_1", "Provides", FALSE, "x_1")}

(* A sparse pool x that A requires and B registers as overridable.        *)
OverrideCalls == {Pool("A", "x", "Requires", {0}), Pool("B", "x", "Overridable", {1})}
=============================================================================
