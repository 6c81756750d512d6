------------------------------ MODULE Workgroup ------------------------------
(***************************************************************************)
(* One kernel launch: the check of its grid, the work items that run, and  *)
(* the local memory (LDS) of one of its workgroups                         *)
(* (runtime-amd/src/lds.rs on top of grid.rs and args.rs).                 *)
(*                                                                         *)
(* A kernel borrows one LDS object with lds! and uses it one time after    *)
(* the other.  The object is an array with one slot for each work item; a  *)
(* slot holds the number of the use that wrote it, 0 when it holds         *)
(* nothing.  All work items go through the same uses, as barriers require, *)
(* each at its own pace: an item stands for a wavefront of its own.        *)
(***************************************************************************)
EXTENDS Grid, FiniteSets

CONSTANTS
  Launches    \* what may be launched: the grid, the size of the workgroup,
              \* the size of the LDS array, and the sequence of its uses

(* A use: with_singleton, with_mut or with_shared and then init; whether   *)
(* the value is read; and whether it is a second init within the with_     *)
(* call of the use before.                                                 *)
Uses == [kind : {"Singleton", "Unique", "Shared"}, reads : BOOLEAN, again : BOOLEAN]

ASSUME WorkgroupAssumption ==
  \A l \in Launches :
    /\ l.grid \in Seq(Axes) /\ Len(l.grid) \in 1 .. 3
    /\ DOMAIN l.wg = DOMAIN l.grid /\ DOMAIN l.array = DOMAIN l.grid
    /\ l.wg \in Seq(0 .. Max16) /\ l.array \in Seq(Nat)
    /\ l.uses \in Seq(Uses)
    /\ \A n \in DOMAIN l.uses :
         l.uses[n].again => n > 1 /\ l.uses[n].kind = l.uses[n - 1].kind

VARIABLES
  launch,     \* the launch
  phase,      \* "call", what the call answered, or "group"
  group,      \* the workgroup whose LDS is followed
  pc, use,    \* of each of its work items: where it is, in which use
  slots       \* its LDS

vars == <<launch, phase, group, pc, use, slots>>

-----------------------------------------------------------------------------
(* The ids the device gives to the workgroups and work items of a launch. *)

Box(n) ==
  CASE Len(n) = 1 -> {<<x>> : x \in 0 .. n[1] - 1}
    [] Len(n) = 2 -> {<<x, y>> : x \in 0 .. n[1] - 1, y \in 0 .. n[2] - 1}
    [] OTHER -> {<<x, y, z>> : x \in 0 .. n[1] - 1, y \in 0 .. n[2] - 1, z \in 0 .. n[3] - 1}

Groups(l) ==
  LET n == RoundUp(Extent(l.grid), l.wg)
  IN  Box([i \in DOMAIN n |-> n[i] \div l.wg[i]])

Workitems(l) == Box(l.wg)

(* The VectorParams of an item, and whether the kernel sees it at all. *)
Params(l, g, item) == VectorParams(l.grid, l.wg, g, item)
Runs(l, g, item) == ~GridOob(l.grid, l.wg, g, item)

Items == Workitems(launch)
Item0 == [i \in DOMAIN launch.wg |-> 0]

(* Indexing the array with the id of the item does not panic. *)
InArray(item) == \A i \in DOMAIN item : item[i] < launch.array[i]

-----------------------------------------------------------------------------
Init ==
  /\ launch \in Launches
  /\ phase = "call" /\ group = << >>
  /\ pc = << >> /\ use = << >> /\ slots = << >>

Call ==
  /\ phase = "call"
  /\ phase' = Verdict(launch.grid, launch.wg)
  /\ UNCHANGED <<launch, group, pc, use, slots>>

(* The device runs all groups; only groups that use LDS are followed. *)
RunGroup ==
  /\ phase = "Ok" /\ launch.uses # << >>
  /\ \E g \in Groups(launch) : group' = g
  /\ phase' = "group"
  /\ pc' = [i \in Items |-> "start"]
  /\ use' = [i \in Items |-> 1]
  /\ slots' = [i \in Items |-> 0]
  /\ UNCHANGED launch

-----------------------------------------------------------------------------
(* The steps of a work item. *)

At(i, label) == phase = "group" /\ i \in Items /\ pc[i] = label
To(i, label) == pc' = [pc EXCEPT ![i] = label]
Cur(i) == launch.uses[use[i]]
Unmoved == UNCHANGED <<launch, phase, group>>

(* VectorParams::new_internal: an extra work item ends at once. *)
Enter(i) ==
  /\ At(i, "start")
  /\ To(i, IF Runs(launch, group, i) THEN "with" ELSE "ended")
  /\ Unmoved /\ UNCHANGED <<use, slots>>

(* A bug: a borrow that was used before is used again without a barrier. *)
Mutant_With(i) ==
  /\ At(i, "with") /\ use[i] <= Len(launch.uses)
  /\ To(i, "init")
  /\ Unmoved /\ UNCHANGED <<use, slots>>

(* with_singleton, with_mut, with_shared: mark_used waits for the other    *)
(* items unless the borrow was never used.                                 *)
With(i) ==
  /\ At(i, "with") /\ use[i] <= Len(launch.uses)
  /\ To(i, IF use[i] = 1 \/ Cur(i).again THEN "init" ELSE "mark_barrier")
  /\ Unmoved /\ UNCHANGED <<use, slots>>

Return(i) ==
  /\ At(i, "with") /\ use[i] > Len(launch.uses)
  /\ To(i, "ended")
  /\ Unmoved /\ UNCHANGED <<use, slots>>

(* Singleton::init_with waits; then the first item writes the value.  The  *)
(* value is the whole array.                                               *)
InitSingleton(i) ==
  /\ At(i, "init") /\ Cur(i).kind = "Singleton"
  /\ To(i, "init_barrier")
  /\ Unmoved /\ UNCHANGED <<use, slots>>

UncheckedInit(i) ==
  /\ At(i, "write")
  /\ slots' = IF IsWi0(Params(launch, group, i)) THEN [j \in Items |-> use[i]] ELSE slots
  /\ To(i, "held")
  /\ Unmoved /\ UNCHANGED use

(* init_with of Unique and Shared: the item writes its own slot, without a *)
(* barrier.  An item that is not in the array panics and is masked off.    *)
InitOwn(i) ==
  /\ At(i, "init") /\ Cur(i).kind # "Singleton"
  /\ IF InArray(i)
     THEN slots' = [slots EXCEPT ![i] = use[i]] /\ To(i, "held")
     ELSE To(i, "ended") /\ UNCHANGED slots
  /\ Unmoved /\ UNCHANGED use

(* A bug: a Slice is read without waiting for the others to write. *)
Mutant_Deref(i) ==
  /\ At(i, "held") /\ Cur(i).reads
  /\ To(i, "reads")
  /\ Unmoved /\ UNCHANGED <<use, slots>>

(* Deref: the first one of a Slice waits. *)
Deref(i) ==
  /\ At(i, "held") /\ Cur(i).reads
  /\ To(i, IF Cur(i).kind = "Shared" THEN "first_barrier" ELSE "reads")
  /\ Unmoved /\ UNCHANGED <<use, slots>>

(* The value goes out of scope.  A Mut drops its slot at once; a Ref and a *)
(* Slice wait first, and then the first item drops the value of a Ref and  *)
(* each item its slot of a Slice.                                          *)
OutOfScope(i) == At(i, "reads") \/ (At(i, "held") /\ ~Cur(i).reads)

(* A bug: only the first item, which drops the value, waits before it. *)
Mutant_DropWaits(i) ==
  /\ OutOfScope(i) /\ Cur(i).kind # "Unique"
  /\ To(i, IF Cur(i).kind = "Shared" \/ IsWi0(Params(launch, group, i))
           THEN "drop_barrier" ELSE "drop")
  /\ Unmoved /\ UNCHANGED <<use, slots>>

DropMut(i) ==
  /\ OutOfScope(i) /\ Cur(i).kind = "Unique"
  /\ slots' = [slots EXCEPT ![i] = 0]
  /\ use' = [use EXCEPT ![i] = @ + 1] /\ To(i, "with")
  /\ Unmoved

DropWaits(i) ==
  /\ OutOfScope(i) /\ Cur(i).kind # "Unique"
  /\ To(i, "drop_barrier")
  /\ Unmoved /\ UNCHANGED <<use, slots>>

DropAfter(i) ==
  /\ At(i, "drop")
  /\ slots' = CASE Cur(i).kind = "Shared" -> [slots EXCEPT ![i] = 0]
                [] Cur(i).kind = "Singleton" /\ IsWi0(Params(launch, group, i)) ->
                     [j \in Items |-> 0]
                [] OTHER -> slots
  /\ use' = [use EXCEPT ![i] = @ + 1] /\ To(i, "with")
  /\ Unmoved

-----------------------------------------------------------------------------
(* workgroup_barrier, as the device does it: an item that has ended is not *)
(* waited for.                                                             *)
Barriers == [mark_barrier |-> "init", init_barrier |-> "write",
             first_barrier |-> "reads", drop_barrier |-> "drop"]

Waiting(i) == pc[i] \in DOMAIN Barriers

Barrier ==
  /\ phase = "group"
  /\ \E i \in Items : Waiting(i)
  /\ \A i \in Items : Waiting(i) \/ pc[i] = "ended"
  /\ pc' = [i \in Items |-> IF Waiting(i) THEN Barriers[pc[i]] ELSE pc[i]]
  /\ Unmoved /\ UNCHANGED <<use, slots>>

-----------------------------------------------------------------------------
Next ==
  \/ Call \/ RunGroup \/ Barrier
  \/ \E i \in Items :
       \/ Enter(i) \/ With(i) \/ Return(i)
       \/ InitSingleton(i) \/ UncheckedInit(i) \/ InitOwn(i)
       \/ Deref(i) \/ DropMut(i) \/ DropWaits(i) \/ DropAfter(i)

Spec == Init /\ [][Next]_vars

-----------------------------------------------------------------------------
(* Properties of the ids. *)

(* No number of the launch wraps, and the range's end can be said. *)
Unwrapped(l) ==
  \A i \in DOMAIN l.grid :
    /\ l.grid[i].incl => l.grid[i].hi < Max32
    /\ l.grid[i].lo + RoundUp(Extent(l.grid), l.wg)[i] <= Max32 + 1

Points(l) ==
  {p \in Box([i \in DOMAIN l.grid |-> l.grid[i].hi + 1]) :
     \A i \in DOMAIN p :
       /\ p[i] >= l.grid[i].lo
       /\ p[i] < l.grid[i].hi \/ (l.grid[i].incl /\ p[i] = l.grid[i].hi)}

Running(l) == {w \in Groups(l) \X Workitems(l) : Runs(l, w[1], w[2])}

(* An accepted launch runs one work item for each point of the range it    *)
(* was asked for and no other, and no group runs without its first item,   *)
(* which alone writes a singleton (grid_id, grid_oob, new_internal, the    *)
(* rounding of the launch).                                                *)
PointsOnce ==
  phase = "Ok" /\ Unwrapped(launch) =>
    LET run == Running(launch)
        at  == [w \in run |-> GridId(launch.grid, launch.wg, w[1], w[2])]
    IN  /\ IsInjective(at) /\ Range(at) = Points(launch)
        /\ \A w \in run : Runs(launch, w[1], Item0)

(* The linear ids of the work items are distinct, over the grid and within *)
(* a group, as long as the box from zero to the end can be counted; and    *)
(* the transposed parameters of an item of a square launch are those of    *)
(* one that runs (global_linear_id, workitem_linear_id, transpose).        *)
IdsDistinct ==
  phase = "Ok" /\ Unwrapped(launch) =>
    LET run == Running(launch)
        vp  == [w \in run |-> Params(launch, w[1], w[2])]
        turned == [w \in run |-> TransposeParams(launch.grid, launch.wg, vp[w])]
    IN  /\ Product(End(launch.grid)) <= Max32 + 1 =>
             IsInjective([w \in run |-> vp[w].gid])
        /\ \A v, w \in run : v[1] = w[1] /\ vp[v].wi_lid = vp[w].wi_lid => v = w
        /\ launch.grid = Transpose(launch.grid) /\ launch.wg = Transpose(launch.wg) =>
             Range(turned) = Range(vp)

-----------------------------------------------------------------------------
(* Properties of the LDS. *)

(* The slots an item may hold a reference to. *)
Holds(i) ==
  IF pc[i] \notin {"held", "reads", "first_barrier"} THEN {}
  ELSE IF Cur(i).kind = "Singleton" \/ (Cur(i).kind = "Shared" /\ pc[i] = "reads") THEN Items
  ELSE {i}

(* A value in the LDS is never overwritten, only dropped, and dropped only *)
(* while no other item may still look at it (the barriers of mark_used and *)
(* of the drops of Ref and Slice).                                         *)
NoClobber ==
  [][\A s \in DOMAIN slots :
       slots[s] # 0 /\ slots'[s] # slots[s] =>
         /\ slots'[s] = 0
         /\ \A j \in Items : s \in Holds(j) => pc'[j] # pc[j]]_vars

(* An item that reads its Mut or a Slice finds the values of this use: its *)
(* own, and those of all items that take part (the first barrier of a      *)
(* Slice).  Not so the slots of items that were masked off.                *)
ReadsLive ==
  phase = "group" =>
    \A i \in Items : pc[i] = "reads" /\ Cur(i).kind # "Singleton" =>
      \A j \in Holds(i) : pc[j] # "ended" => slots[j] = use[i]

(* Items that wait, wait at the same barrier of the same use; and when all *)
(* have ended, every value that was written has been dropped.              *)
BarriersMatch ==
  phase = "group" =>
    /\ \A i, j \in Items : Waiting(i) /\ Waiting(j) => pc[i] = pc[j] /\ use[i] = use[j]
    /\ (\A i \in Items : pc[i] = "ended") => \A i \in Items : slots[i] = 0

(* What lds.rs says of safe code: a Singleton too is there to read.        *)
SingletonReadsLive ==
  phase = "group" =>
    \A i \in Items : pc[i] = "reads" /\ Cur(i).kind = "Singleton" =>
      \A j \in Items : slots[j] = use[i]
=============================================================================
