-------------------------------- MODULE Grid --------------------------------
(***************************************************************************)
(* The index arithmetic of a kernel launch: what a launch asks of the      *)
(* device, and the ids a work item computes from the ids the device gives  *)
(* it (runtime-amd/src/module/grid.rs, args.rs and the checks of mod.rs).  *)
(*                                                                         *)
(* A grid is a sequence of one to three axes.  An axis is a range with an  *)
(* end that counts or does not; a range without a start starts at zero.    *)
(* Sizes, ids and points are sequences with one number for each axis.      *)
(***************************************************************************)
EXTENDS Integers, Sequences, Functions

CONSTANTS
  Max32,    \* the largest u32: grid numbers wrap, or are refused, above it
  Max16,    \* the largest u16: the numbers within a workgroup
  IsaInfo   \* the limits of the device: wgDim and gridDim for each of the
            \* three axes, wgLen and gridLen for their products

ASSUME GridAssumption ==
  /\ Max32 \in Nat \ {0} /\ Max16 \in 1 .. Max32
  /\ IsaInfo \in [wgDim : [1 .. 3 -> Nat], wgLen : Nat, gridDim : [1 .. 3 -> Nat], gridLen : Nat]

Max64 == (Max32 + 1) * (Max32 + 1) - 1

Axes == [lo : 0 .. Max32, hi : 0 .. Max32, incl : BOOLEAN]

-----------------------------------------------------------------------------
(* Numbers and axis-wise arithmetic. *)

Wrap(n) == n % (Max32 + 1)

Add(a, b) == [i \in DOMAIN a |-> Wrap(a[i] + b[i])]
Mul(a, b) == [i \in DOMAIN a |-> Wrap(a[i] * b[i])]

(* Dim1D and Dim2D become a Dim3D with axes of length one. *)
Pad(n) == [i \in 1 .. 3 |-> IF i \in DOMAIN n THEN n[i] ELSE 1]

Product(n) == LET p == Pad(n) IN p[1] * p[2] * p[3]

(* The axes in the other order. *)
Transpose(n) == [i \in DOMAIN n |-> n[Len(n) - i + 1]]

(* A bug: the strides of the axes are swapped. *)
Mutant_Linear(p, size) ==
  LET At(s, i) == IF i \in DOMAIN s THEN s[i] ELSE 0
  IN  (At(p, 3) * At(size, 1) + At(p, 2)) * At(size, 2) + p[1]

(* The number of a point in a box of this size, x fastest. *)
Linear(p, size) ==
  LET At(s, i) == IF i \in DOMAIN s THEN s[i] ELSE 0
  IN  (At(p, 3) * At(size, 2) + At(p, 2)) * At(size, 1) + p[1]

-----------------------------------------------------------------------------
(* Ranges. *)

Start(g) == [i \in DOMAIN g |-> g[i].lo]

(* A bug: an end that counts is taken for one that does not. *)
Mutant_End(g) == [i \in DOMAIN g |-> g[i].hi]

(* saturating_add: the end of a range that counts Max32 cannot be said. *)
End(g) ==
  [i \in DOMAIN g |-> IF g[i].incl /\ g[i].hi < Max32 THEN g[i].hi + 1 ELSE g[i].hi]

Underflows(a) == a.hi < a.lo
Overflows(a) == a.incl /\ a.hi - a.lo = Max32

(* len of a grid whose checked_len is no error. *)
Extent(g) == [i \in DOMAIN g |-> g[i].hi - g[i].lo + (IF g[i].incl THEN 1 ELSE 0)]

(* The error of checked_len is the one of the first axis that has any. *)
LenError(g) ==
  LET bad == {i \in DOMAIN g : Underflows(g[i]) \/ Overflows(g[i])}
  IN  IF \E i \in bad : Underflows(g[i]) /\ \A j \in bad : i <= j
      THEN "Underflow" ELSE "Overflow"

-----------------------------------------------------------------------------
(* The launch. *)

(* The grid rounded up to whole workgroups, before the check that it fits. *)
RoundUp(n, wg) == [i \in DOMAIN n |-> ((n[i] - 1) \div wg[i] + 1) * wg[i]]

Beyond(n, limits) == \E i \in 1 .. 3 : n[i] > limits[i]

(* What the call answers to a grid and a workgroup: "Ok" or the error. *)
Verdict(g, wg) ==
  LET w == Pad(wg)
      n == Pad(Extent(g))
  IN  IF \E i \in DOMAIN g : Underflows(g[i]) \/ Overflows(g[i]) THEN LenError(g)
      ELSE IF \E i \in 1 .. 3 : w[i] = 0 \/ n[i] = 0 THEN "ZeroGridLaunchAxis"
      ELSE IF Beyond(w, IsaInfo.wgDim)     THEN "KernelWorkgroupDimTooLarge"
      ELSE IF Product(w) > Max32           THEN "Overflow"
      ELSE IF Product(w) > IsaInfo.wgLen   THEN "KernelWorkgroupLenTooLarge"
      ELSE IF Beyond(n, IsaInfo.gridDim)   THEN "LaunchGridDimTooLarge"
      ELSE IF Product(n) > Max64           THEN "Overflow"
      ELSE IF Product(n) > IsaInfo.gridLen THEN "LaunchGridLenTooLarge"
      ELSE IF \E i \in 1 .. 3 : RoundUp(n, w)[i] > Max32 THEN "Overflow"
      ELSE "Ok"

-----------------------------------------------------------------------------
(* The ids a work item computes. *)

WorkgroupIdx(wg, group) == Mul(group, wg)

GridId(g, wg, group, item) == Add(Add(WorkgroupIdx(wg, group), item), Start(g))

(* A work item of the rounded up part of the grid. *)
GridOob(g, wg, group, item) ==
  \E i \in DOMAIN g : GridId(g, wg, group, item)[i] >= End(g)[i]

GlobalLinearId(g, wg, group, item) == Wrap(Linear(GridId(g, wg, group, item), End(g)))

WorkitemLinearId(wg, item) == Linear(item, wg) % (Max16 + 1)

(* VectorParams::new, and its transposition, which keeps grid and wg_size. *)
VectorParams(g, wg, group, item) ==
  [gid     |-> GlobalLinearId(g, wg, group, item),
   wg_idx  |-> WorkgroupIdx(wg, group),
   grid_id |-> GridId(g, wg, group, item),
   wi      |-> item,
   wg_id   |-> group,
   wi_lid  |-> WorkitemLinearId(wg, item)]

TransposeParams(g, wg, vp) ==
  VectorParams(g, wg, Transpose(vp.wg_id), Transpose(vp.wi))

IsWi0(vp) == \A i \in DOMAIN vp.wi : vp.wi[i] = 0
=============================================================================
