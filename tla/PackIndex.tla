------------------------------ MODULE PackIndex ------------------------------
(***************************************************************************)
(* The index arithmetic of the boundary kernels of                        *)
(* src/src/bvals/cc/sparse_bvals_cc_in_one.cpp: the pack kernel of         *)
(* SendBoundaryBuffers, which copies a field's boundary region into a     *)
(* flat buffer, and the unpack and zero-fill kernels of SetBoundaries,    *)
(* which copy a buffer back into a field's ghost region or zero it.       *)
(*                                                                         *)
(* One channel, one BndInfo: the extents Nu, Nt, Nv of the component and   *)
(* tensor axes and Nk, Nj, Ni of the region, and the region's first cell  *)
(* sk, sj, si.  An array element is addressed by the 6-tuple of indices   *)
(* var(a, b, c, k, j, i) takes.  The source field holds at every element  *)
(* its own address, so a value that lands anywhere else is detected.      *)
(***************************************************************************)
EXTENDS Integers, FiniteSets

CONSTANTS
  MaxComp,    \* largest extent of the component/tensor axes Nu, Nt, Nv
  MaxCells,   \* largest extent of the spatial axes Nk, Nj, Ni
  MaxStart,   \* largest first cell sk, sj, si of the region
  Zero,       \* 0.0
  Garbage     \* memory no kernel of this exchange has written

ASSUME MaxComp \in Nat \ {0} /\ MaxCells \in Nat \ {0} /\ MaxStart \in Nat

Extents == [Nu : 1..MaxComp, Nt : 1..MaxComp, Nv : 1..MaxComp,
            Nk : 1..MaxCells, Nj : 1..MaxCells, Ni : 1..MaxCells]
Starts == [sk : 0..MaxStart, sj : 0..MaxStart, si : 0..MaxStart]

(* The elements of the field the BndInfo describes: every component and   *)
(* the cells sk..ek, sj..ej, si..ei, with e = s + N - 1.                  *)
Region(e, s) ==
  (0..e.Nu - 1) \X (0..e.Nt - 1) \X (0..e.Nv - 1)
    \X (s.sk..s.sk + e.Nk - 1) \X (s.sj..s.sj + e.Nj - 1) \X (s.si..s.si + e.Ni - 1)

(* NuNtNvNkNjNi: the number of elements, and of buffer slots, per channel. *)
Size(e) == e.Nu * e.Nt * e.Nv * e.Nk * e.Nj * e.Ni

(* The flat thread index idx of the TeamThreadRange split into u, t, v,   *)
(* k, j, i, identical in the pack, unpack and zero-fill kernels.          *)
Decompose(idx, e, s) ==
  LET NjNi == e.Nj * e.Ni
      NkNjNi == e.Nk * NjNi
      NvNkNjNi == e.Nv * NkNjNi
      NtNvNkNjNi == e.Nt * NvNkNjNi
  IN [u |-> idx \div NtNvNkNjNi,
      t |-> (idx % NtNvNkNjNi) \div NvNkNjNi,
      v |-> (idx % NvNkNjNi) \div NkNjNi,
      k |-> (idx % NkNjNi) \div NjNi + s.sk,
      j |-> (idx % NjNi) \div e.Ni + s.sj,
      i |-> (idx % e.Ni) + s.si]

(* Mutant: the start offset of the innermost axis is forgotten.           *)
BufIndexNoOffset(p, e, s) ==
  p.i + e.Ni * (p.j - s.sj + e.Nj * (p.k - s.sk + e.Nk * (p.v + e.Nv * (p.t + e.Nt * p.u))))

(* Mutant: the outermost axis is scaled by the wrong extent.              *)
BufIndexWrongRadix(p, e, s) ==
  p.i - s.si + e.Ni * (p.j - s.sj + e.Nj * (p.k - s.sk + e.Nk * (p.v + e.Nv * (p.t + e.Nu * p.u))))

(* The buffer slot both kernels use for the element of thread p.          *)
BufIndex(p, e, s) ==
  p.i - s.si + e.Ni * (p.j - s.sj + e.Nj * (p.k - s.sk + e.Nk * (p.v + e.Nv * (p.t + e.Nt * p.u))))

(* The element the pack kernel reads: var(u, t, v, k, j, i).              *)
PackRead(p) == <<p.u, p.t, p.v, p.k, p.j, p.i>>

(* The element the unpack and zero-fill kernels write: var(t, u, v, k, j, i). *)
UnpackWrite(p) == <<p.t, p.u, p.v, p.k, p.j, p.i>>

Threads(e, s) == {Decompose(idx, e, s) : idx \in 0..Size(e) - 1}

Values == UNION {Region(e, s) : e \in Extents, s \in Starts} \cup {Zero, Garbage}

VARIABLES
  ext,     \* the extents of the BndInfo
  start,   \* the first cell of the region
  src,     \* the sender's field: every element holds its own address
  buf,     \* the communication buffer: slot -> value
  dst,     \* the receiver's field over the same region
  stray,   \* elements written outside the receiver's array (undefined behaviour)
  phase    \* "init", "packed", "unpacked" or "zeroed"

vars == <<ext, start, src, buf, dst, stray, phase>>

TypeOK ==
  /\ ext \in Extents
  /\ start \in Starts
  /\ src = [x \in Region(ext, start) |-> x]
  /\ DOMAIN buf \subseteq 0..Size(ext) - 1
  /\ \A x \in DOMAIN buf : buf[x] \in Values
  /\ dst \in [Region(ext, start) -> Values]
  /\ \A x \in stray : x \in Nat \X Nat \X Nat \X Nat \X Nat \X Nat
  /\ phase \in {"init", "packed", "unpacked", "zeroed"}

Init ==
  /\ ext \in Extents
  /\ start \in Starts
  /\ src = [x \in Region(ext, start) |-> x]
  /\ buf = [x \in {} |-> Garbage]
  /\ dst = [x \in Region(ext, start) |-> Garbage]
  /\ stray = {}
  /\ phase = "init"

(* The pack kernel of SendBoundaryBuffers for an allocated channel: each  *)
(* thread copies var(u, t, v, k, j, i) into its buffer slot.              *)
Pack ==
  /\ phase = "init"
  /\ LET writes == {<<BufIndex(p, ext, start), PackRead(p)>> : p \in Threads(ext, start)}
     IN buf' = [x \in {w[1] : w \in writes} |-> src[(CHOOSE w \in writes : w[1] = x)[2]]]
  /\ phase' = "packed"
  /\ UNCHANGED <<ext, start, src, dst, stray>>

(* Writes of a kernel into the receiver's array, val giving each thread's *)
(* value: those inside the array land, the others are recorded as stray.  *)
Store(val) ==
  /\ dst' = [x \in Region(ext, start) |->
               IF \E p \in Threads(ext, start) : UnpackWrite(p) = x
               THEN val[CHOOSE p \in Threads(ext, start) : UnpackWrite(p) = x]
               ELSE dst[x]]
  /\ stray' = {UnpackWrite(p) : p \in Threads(ext, start)} \ Region(ext, start)

(* The unpack kernel of SetBoundaries for an allocated (received) entry:  *)
(* each thread copies its buffer slot into var(t, u, v, k, j, i).         *)
Unpack ==
  /\ phase = "packed"
  /\ Store([p \in Threads(ext, start) |-> buf[BufIndex(p, ext, start)]])
  /\ phase' = "unpacked"
  /\ UNCHANGED <<ext, start, src, buf>>

(* The zero-fill kernel of SetBoundaries for a received_null entry whose  *)
(* cached array is not empty.                                             *)
ZeroFill ==
  /\ phase = "init"
  /\ Store([p \in Threads(ext, start) |-> Zero])
  /\ phase' = "zeroed"
  /\ UNCHANGED <<ext, start, src, buf>>

Done == phase \in {"unpacked", "zeroed"} /\ UNCHANGED vars

Next == Pack \/ Unpack \/ ZeroFill \/ Done

Spec == Init /\ [][Next]_vars
-----------------------------------------------------------------------------
(* Reference order of spec section 4.5: row-major, the innermost spatial  *)
(* axis fastest, then the other spatial axes, then the component axes.    *)
LexLess(a, b) == \E d \in 1..6 : a[d] < b[d] /\ \A c \in 1..d - 1 : a[c] = b[c]
RowMajorRank(x, e, s) == Cardinality({y \in Region(e, s) : LexLess(y, x)})

(* The pack kernel fills every buffer slot exactly once, in row-major      *)
(* order of the field's elements (u outermost, i innermost): the layout a *)
(* receiver on any rank decodes.                                          *)
PackRowMajor ==
  phase = "packed" =>
    /\ DOMAIN buf = 0..Size(ext) - 1
    /\ \A x \in Region(ext, start) : buf[RowMajorRank(x, ext, start)] = src[x]

(* Packing a field's region and unpacking the buffer into another array   *)
(* of the same shape reproduces the field exactly, writing nowhere else   *)
(* (spec section 8, round-trip packing).                                  *)
RoundTrip ==
  phase = "unpacked" => stray = {} /\ dst = src
=============================================================================
