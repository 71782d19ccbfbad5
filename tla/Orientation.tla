----------------------------- MODULE Orientation -----------------------------
(***************************************************************************)
(* RelativeOrientation of src/src/mesh/forest/relative_orientation.hpp:    *)
(* how the frame of a block maps onto the frame of a neighbour across a    *)
(* seam.  dir_connection[origin] is the neighbour axis that axis origin    *)
(* maps to, dir_flip[origin] whether it is reversed (SetDirection), and    *)
(* Transform carries the indices <<t, u, v, k, j, i>> of an element, and   *)
(* the direction iel of a face or edge element, into the neighbour frame.  *)
(*                                                                         *)
(* A caller builds an orientation from the default one: SetDirection for  *)
(* each axis of a chosen signed permutation, and ncells assigned.  The     *)
(* signed permutation the caller means is the history variable target.    *)
(***************************************************************************)
EXTENDS Integers, FiniteSets, Functions

CONSTANTS
  NCells,    \* the value the caller assigns to ncells
  MaxComp    \* largest component index t, u, v transformed

ASSUME NCells \in Nat \ {0} /\ MaxComp \in Nat

Dirs == 0..2

(* The signed permutations of the three axes: the orientations of a seam. *)
SignedPerms == [conn : Bijection(Dirs, Dirs),
                flip : [Dirs -> BOOLEAN]]

(* The index 6-tuples of the elements of a block: components, then the    *)
(* cells 0..NCells-1 on k, j, i.  Tuples are indexed 0..5 as in the code. *)
Elems == {x \in [0..5 -> 0..NCells - 1 \cup 0..MaxComp] :
             \A d \in Dirs : x[3 + d] < NCells /\ x[d] <= MaxComp}

VARIABLES
  dir_connection,  \* std::array<int, 3>
  dir_flip,        \* std::array<bool, 3>
  ncells,          \* int
  target,          \* the signed permutation the caller sets (history)
  done             \* the origins SetDirection was called for

vars == <<dir_connection, dir_flip, ncells, target, done>>

TypeOK ==
  /\ dir_connection \in [Dirs -> Dirs]
  /\ dir_flip \in [Dirs -> BOOLEAN]
  /\ ncells \in {-1, NCells}
  /\ target \in SignedPerms
  /\ done \subseteq Dirs

(* The default constructor: identity connection, no flips, ncells -1.     *)
Init ==
  /\ dir_connection = [d \in Dirs |-> d]
  /\ dir_flip = [d \in Dirs |-> FALSE]
  /\ ncells = -1
  /\ target \in SignedPerms
  /\ done = {}

(* SetDirection(origin, neighbor, reversed).                              *)
SetDirection(origin, neighbor, reversed) ==
  /\ dir_connection' = [dir_connection EXCEPT ![origin] = neighbor]
  /\ dir_flip' = [dir_flip EXCEPT ![origin] = reversed]

(* The caller sets the axes of its orientation one at a time, any order.  *)
SetAxis(origin) ==
  /\ origin \notin done
  /\ SetDirection(origin, target.conn[origin], target.flip[origin])
  /\ done' = done \cup {origin}
  /\ UNCHANGED <<ncells, target>>

(* The caller assigns the public member ncells.                           *)
AssignNCells ==
  /\ ncells = -1
  /\ ncells' = NCells
  /\ UNCHANGED <<dir_connection, dir_flip, target, done>>

Built == done = Dirs /\ ncells = NCells

Finished == Built /\ UNCHANGED vars

Next == (\E o \in Dirs : SetAxis(o)) \/ AssignNCells \/ Finished

Spec == Init /\ [][Next]_vars
-----------------------------------------------------------------------------
(* The loop of Transform over dir: output axis dir reads input axis       *)
(* dir_connection[dir], kept as is when dir_flip[dir] and reflected to     *)
(* ncells - i otherwise; the components pass through.                     *)
Spatial(conn, flip, n, in) ==
  [d \in Dirs |-> IF flip[d] THEN in[3 + conn[d]] ELSE n - in[3 + conn[d]]]

(* Transform(tt, iel, tuvkji_in): the element direction, then the indices. *)
Transform(tt, iel, in) ==
  LET s == Spatial(dir_connection, dir_flip, ncells, in)
  IN [el |-> IF tt \in {"Face", "Edge"} THEN dir_connection[iel] ELSE 0,
      idx |-> [d \in 0..5 |-> IF d < 3 THEN in[d] ELSE s[d - 3]]]
-----------------------------------------------------------------------------
(* Spec section 3: axis origin maps to neighbour axis dir_connection[origin] *)
(* and is reflected exactly when dir_flip[origin].  The index a cell has on  *)
(* its axis a reappears on neighbour axis conn[a], reflected to ncells - i  *)
(* when, and only when, the axis was set reversed.                         *)
TransformMatchesOrientation ==
  Built =>
    \A x \in Elems : \A a \in Dirs :
      Transform("Cell", 0, x).idx[3 + target.conn[a]] =
        IF target.flip[a] THEN NCells - x[3 + a] ELSE x[3 + a]

(* A face or edge element keeps its position in the frame: the direction   *)
(* Transform reports for element iel is the neighbour axis onto which the  *)
(* indices of input axis iel are carried by the same Transform.            *)
ElementFollowsAxes ==
  Built =>
    \A iel \in Dirs : \A tt \in {"Face", "Edge"} :
      LET e == Transform(tt, iel, [d \in 0..5 |-> 0]).el
      IN dir_connection[e] = iel
=============================================================================
