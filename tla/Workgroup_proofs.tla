--------------------------- MODULE Workgroup_proofs ---------------------------
(***************************************************************************)
(* A workgroup, for every launch: the ids of its items and their slots, in *)
(* any grid of any device, and its LDS, for any shape of the group, any    *)
(* sequence of uses and any items that are masked off.                     *)
(*                                                                         *)
(* Ids: rounding the grid up to whole groups loses no point, and a point   *)
(* is group * size + id on each axis by itself; so the points of a grid    *)
(* and its items are the same as often as each other, axis by axis.        *)
(*                                                                         *)
(* LDS: between two steps of a use there is a gate when the code has a     *)
(* barrier there; items that have not ended have passed the same gates     *)
(* (Together), because a step that is not the barrier's passes none. So    *)
(* while an item may look at values of others, all items are in that use,  *)
(* and the next use of another kind is behind a gate.                      *)
(*                                                                         *)
(* Signal: the value is one of those seen since the caller began to wait,  *)
(* and of a launch that counts down it says how many operations are to     *)
(* come.                                                                   *)
(***************************************************************************)
EXTENDS DeviceSignals, SequenceTheorems, FiniteSetTheorems, TLAPS

(* There is a barrier between step k and step k + 1 of use u.              *)
Gate(u, k) ==
  LET now == launch.uses[u]
  IN  CASE k = 0 -> u > 1 /\ ~now.again
        [] k = 1 -> now.kind = "Singleton"
        [] k = 2 -> now.kind = "Shared" /\ now.reads
        [] k = 3 -> now.kind # "Unique"

Stage ==
  [start |-> 0, with |-> 0, mark_barrier |-> 0, init |-> 1, init_barrier |-> 1,
   write |-> 2, held |-> 2, first_barrier |-> 2, reads |-> 3, drop_barrier |-> 3,
   drop |-> 4, ended |-> 0]

Passed(i, u, k) == use[i] > u \/ (use[i] = u /\ Stage[pc[i]] > k)

Live(i) == pc[i] # "ended"
InUse(i) == pc[i] \notin {"start", "with", "ended"}
Holding(i) == pc[i] \in {"held", "reads", "first_barrier", "drop_barrier", "drop"}

GroupType ==
  /\ pc \in [Items -> DOMAIN Stage]
  /\ use \in [Items -> 1 .. Len(launch.uses) + 1]
  /\ slots \in [Items -> 0 .. Len(launch.uses)]

(* Where an item is, its use has what brought it there.                    *)
PcOK ==
  \A i \in Items :
    /\ InUse(i) => use[i] \in DOMAIN launch.uses
    /\ Waiting(i) => Gate(use[i], Stage[pc[i]])
    /\ pc[i] = "start" => use[i] = 1
    /\ pc[i] = "write" => Cur(i).kind = "Singleton"
    /\ pc[i] = "reads" => Cur(i).reads
    /\ pc[i] = "drop" => Cur(i).kind # "Unique"

(* All items that have not ended have passed the same barriers.            *)
Together ==
  \A i, j \in Items : Live(i) /\ Live(j) =>
    \A u \in DOMAIN launch.uses, k \in 0 .. 3 : Gate(u, k) /\ Passed(i, u, k) => Passed(j, u, k)

(* A slot has a value while its item holds one there, or while the first   *)
(* item holds one in all of them.                                          *)
SlotsOK ==
  \A s \in Items :
    /\ Holding(s) /\ Cur(s).kind # "Singleton" => slots[s] = use[s]
    /\ slots[s] # 0 =>
         \/ Holding(s) /\ Cur(s).kind # "Singleton"
         \/ Item0 \in Items /\ Holding(Item0) /\ Cur(Item0).kind = "Singleton"

GroupInv == GroupType /\ PcOK /\ Together /\ SlotsOK

IInv ==
  /\ launch \in Launches
  /\ phase = "group" => GroupInv
  /\ phase # "group" => slots = << >>

-----------------------------------------------------------------------------
(* The items of a workgroup.                                               *)

LEMMA MaxType == Max32 \in Nat \ {0} /\ Max16 \in Nat /\ Max16 <= Max32
BY GridAssumption

LEMMA UsesType ==
  ASSUME launch \in Launches
  PROVE  /\ launch.uses \in Seq(Uses) /\ Len(launch.uses) \in Nat
         /\ DOMAIN launch.uses = 1 .. Len(launch.uses)
         /\ \A n \in DOMAIN launch.uses :
              /\ launch.uses[n] \in Uses
              /\ launch.uses[n].again =>
                   n > 1 /\ n - 1 \in DOMAIN launch.uses
                     /\ launch.uses[n].kind = launch.uses[n - 1].kind
BY WorkgroupAssumption

(* A sequence of one to three numbers is the tuple of them.                *)
LEMMA TupleIs ==
  ASSUME NEW p \in Seq(Nat)
  PROVE  /\ Len(p) = 1 => p = <<p[1]>> /\ p[1] \in Nat
         /\ Len(p) = 2 => p = <<p[1], p[2]>> /\ p[1] \in Nat /\ p[2] \in Nat
         /\ Len(p) = 3 =>
              p = <<p[1], p[2], p[3]>> /\ p[1] \in Nat /\ p[2] \in Nat /\ p[3] \in Nat
<1>1. p \in [1 .. Len(p) -> Nat]
  BY LenProperties
<1>2. Len(p) = 1 => p = <<p[1]>> /\ p[1] \in Nat
  BY <1>1
<1>3. ASSUME Len(p) = 2 PROVE p = <<p[1], p[2]>> /\ p[1] \in Nat /\ p[2] \in Nat
  <2>1. p[1] \in Nat /\ p[2] \in Nat
    BY <1>1, <1>3
  <2> QED BY <1>1, <1>3, <2>1
<1>4. ASSUME Len(p) = 3
      PROVE  p = <<p[1], p[2], p[3]>> /\ p[1] \in Nat /\ p[2] \in Nat /\ p[3] \in Nat
  <2>1. p[1] \in Nat /\ p[2] \in Nat /\ p[3] \in Nat
    BY <1>1, <1>4
  <2> QED BY <1>1, <1>4, <2>1
<1> QED BY <1>2, <1>3, <1>4

(* A point of a box has a number for each axis, below the size of the axis.*)
LEMMA BoxIs ==
  ASSUME NEW n \in Seq(Int), Len(n) \in 1 .. 3, NEW p
  PROVE  p \in Box(n) <=> /\ p \in Seq(Nat) /\ Len(p) = Len(n)
                          /\ \A i \in 1 .. Len(n) : p[i] \in 0 .. n[i] - 1
<1>1. CASE Len(n) = 1
  <2>1. Box(n) = {<<x>> : x \in 0 .. n[1] - 1}
    BY <1>1 DEF Box
  <2>2. ASSUME NEW x \in 0 .. n[1] - 1, p = <<x>>
        PROVE  p \in Seq(Nat) /\ Len(p) = 1 /\ p[1] = x
    BY <2>2
  <2> QED BY <1>1, <2>1, <2>2, TupleIs
<1>2. CASE Len(n) = 2
  <2>1. Box(n) = {<<x, y>> : x \in 0 .. n[1] - 1, y \in 0 .. n[2] - 1}
    BY <1>2 DEF Box
  <2>2. ASSUME NEW x \in 0 .. n[1] - 1, NEW y \in 0 .. n[2] - 1, p = <<x, y>>
        PROVE  p \in Seq(Nat) /\ Len(p) = 2 /\ p[1] = x /\ p[2] = y
    BY <2>2
  <2> QED BY <1>2, <2>1, <2>2, TupleIs
<1>3. CASE Len(n) = 3
  <2>1. Box(n) = {<<x, y, z>> : x \in 0 .. n[1] - 1, y \in 0 .. n[2] - 1, z \in 0 .. n[3] - 1}
    BY <1>3 DEF Box
  <2>2. ASSUME NEW x \in 0 .. n[1] - 1, NEW y \in 0 .. n[2] - 1, NEW z \in 0 .. n[3] - 1,
               p = <<x, y, z>>
        PROVE  p \in Seq(Nat) /\ Len(p) = 3 /\ p[1] = x /\ p[2] = y /\ p[3] = z
    BY <2>2
  <2> QED BY <1>3, <2>1, <2>2, TupleIs
<1> QED BY <1>1, <1>2, <1>3

LEMMA WgType ==
  ASSUME launch \in Launches
  PROVE  /\ launch.wg \in Seq(Nat) /\ launch.wg \in Seq(Int) /\ Len(launch.wg) \in 1 .. 3
         /\ DOMAIN launch.wg = 1 .. Len(launch.wg) /\ Len(launch.wg) = Len(launch.grid)
<1>1. /\ launch.wg \in Seq(0 .. Max16) /\ launch.grid \in Seq(Axes)
      /\ DOMAIN launch.wg = DOMAIN launch.grid /\ Len(launch.grid) \in 1 .. 3
  BY WorkgroupAssumption
<1>2. 0 .. Max16 \subseteq Nat /\ 0 .. Max16 \subseteq Int
  BY MaxType
<1>3. launch.wg \in Seq(Nat) /\ launch.wg \in Seq(Int)
  BY <1>1, <1>2, SeqMonotonic
<1> QED BY <1>1, <1>3

(* The first item is there if any is, and knows that it is the first.      *)
LEMMA FirstItem ==
  ASSUME launch \in Launches, NEW i \in Items
  PROVE  /\ Item0 \in Items
         /\ IsWi0(Params(launch, group, i)) <=> i = Item0
<1>1. /\ i \in Seq(Nat) /\ Len(i) = Len(launch.wg)
      /\ \A k \in 1 .. Len(launch.wg) : i[k] \in 0 .. launch.wg[k] - 1
  BY WgType, BoxIs DEF Items, Workitems
<1>2. Item0 \in Seq(Nat) /\ Len(Item0) = Len(launch.wg)
  BY WgType DEF Item0
<1>3. \A k \in 1 .. Len(launch.wg) : Item0[k] \in 0 .. launch.wg[k] - 1
  BY <1>1, WgType DEF Item0
<1>4. Item0 \in Items
  BY <1>2, <1>3, WgType, BoxIs DEF Items, Workitems
<1>5. Params(launch, group, i).wi = i
  BY DEF Params, VectorParams
<1>6. (\A k \in DOMAIN i : i[k] = 0) <=> i = Item0
  BY <1>1, WgType DEF Item0
<1> QED BY <1>4, <1>5, <1>6 DEF IsWi0
-----------------------------------------------------------------------------
(* What having passed the same barriers comes to.                          *)

(* The facts of one item.                                                  *)
LEMMA ItemIs ==
  ASSUME IInv, phase = "group", NEW i \in Items
  PROVE  /\ pc[i] \in DOMAIN Stage /\ use[i] \in 1 .. Len(launch.uses) + 1
         /\ Stage[pc[i]] \in 0 .. 4
         /\ InUse(i) => use[i] \in DOMAIN launch.uses
         /\ Len(launch.uses) \in Nat /\ DOMAIN launch.uses = 1 .. Len(launch.uses)
BY UsesType DEF IInv, GroupInv, GroupType, PcOK, Stage

(* While an item may have a value in all slots, no other holds one of its  *)
(* own: the others are in the same use, or have come past its end and no   *)
(* further than to the start of the next.                                  *)
LEMMA SingletonAlone ==
  ASSUME IInv, phase = "group", NEW i \in Items, NEW j \in Items,
         Live(i), InUse(j), Cur(j).kind = "Singleton", Stage[pc[j]] >= 2
  PROVE  /\ use[i] = use[j] \/ (use[i] = use[j] + 1 /\ pc[j] = "drop" /\ Stage[pc[i]] <= 1)
         /\ use[i] = use[j] => Stage[pc[i]] >= 2
         /\ Stage[pc[i]] >= 1 /\ use[i] # use[j] => Cur(i).kind = "Singleton"
<1> DEFINE v == use[j]
<1>1. /\ v \in DOMAIN launch.uses /\ Live(j)
      /\ DOMAIN launch.uses = 1 .. Len(launch.uses) /\ Len(launch.uses) \in Nat
      /\ use[i] \in 1 .. Len(launch.uses) + 1
      /\ Stage[pc[i]] \in 0 .. 4 /\ Stage[pc[j]] \in 0 .. 4
  BY ItemIs DEF InUse, Live
<1>2. \A u \in DOMAIN launch.uses, k \in 0 .. 3 :
        Gate(u, k) => (Passed(i, u, k) <=> Passed(j, u, k))
  BY <1>1 DEF IInv, GroupInv, Together
<1>3. Gate(v, 1) /\ Gate(v, 3) /\ Passed(j, v, 1)
  BY <1>1 DEF Gate, Cur, Passed
<1>4. use[i] > v \/ (use[i] = v /\ Stage[pc[i]] >= 2)
  BY <1>1, <1>2, <1>3 DEF Passed
<1>5. ASSUME use[i] > v
      PROVE  use[i] = v + 1 /\ pc[j] = "drop" /\ Stage[pc[i]] <= 1
             /\ (Stage[pc[i]] >= 1 => Cur(i).kind = "Singleton")
  <2>1. v + 1 \in DOMAIN launch.uses =>
          IF launch.uses[v + 1].again THEN Gate(v + 1, 1) ELSE Gate(v + 1, 0)
    BY <1>1, UsesType DEF IInv, Gate, Cur
  <2>2. ~Passed(j, v + 1, 0) /\ ~Passed(j, v + 1, 1)
    BY <1>1 DEF Passed
  <2>3. Stage[pc[j]] > 3
    BY <1>1, <1>2, <1>3, <1>5 DEF Passed
  <2>4. pc[j] = "drop"
    BY <2>3, <1>1, ItemIs DEF Stage
  <2>5. ASSUME use[i] > v + 1 PROVE FALSE
    <3>1. v + 1 \in DOMAIN launch.uses /\ Passed(i, v + 1, 0) /\ Passed(i, v + 1, 1)
      BY <1>1, <2>5 DEF Passed
    <3> QED BY <3>1, <2>1, <2>2, <1>2
  <2>6. use[i] = v + 1
    BY <2>5, <1>1, <1>5
  <2>7. ASSUME Stage[pc[i]] > 1 PROVE FALSE
    <3>1. v + 1 \in DOMAIN launch.uses
      BY <2>6, <2>7, ItemIs DEF InUse, Stage
    <3>2. Passed(i, v + 1, 0) /\ Passed(i, v + 1, 1)
      BY <1>1, <2>6, <2>7 DEF Passed
    <3> QED BY <3>1, <3>2, <2>1, <2>2, <1>2
  <2>8. ASSUME Stage[pc[i]] >= 1 PROVE Cur(i).kind = "Singleton"
    <3>1. v + 1 \in DOMAIN launch.uses
      BY <2>6, <2>8, ItemIs DEF InUse, Stage
    <3>2. Passed(i, v + 1, 0)
      BY <1>1, <2>6, <2>8 DEF Passed
    <3>3. launch.uses[v + 1].again
      BY <3>1, <3>2, <2>1, <2>2, <1>2
    <3> QED BY <3>1, <3>3, <2>6, <1>1, UsesType DEF IInv, Cur
  <2> QED BY <2>4, <2>6, <2>7, <2>8, <1>1
<1> QED BY <1>1, <1>4, <1>5
(* While an item reads a Slice, all the others are there or at its end.    *)
LEMMA SharedTogether ==
  ASSUME IInv, phase = "group", NEW i \in Items, NEW j \in Items,
         Live(i), pc[j] = "reads", Cur(j).kind = "Shared"
  PROVE  use[i] = use[j] /\ pc[i] \in {"reads", "drop_barrier"}
<1> DEFINE v == use[j]
<1>1. /\ v \in DOMAIN launch.uses /\ Live(j)
      /\ DOMAIN launch.uses = 1 .. Len(launch.uses) /\ Len(launch.uses) \in Nat
      /\ use[i] \in 1 .. Len(launch.uses) + 1 /\ Stage[pc[i]] \in 0 .. 4 /\ Stage[pc[j]] = 3
  BY ItemIs DEF InUse, Live, Stage
<1>2. \A u \in DOMAIN launch.uses, k \in 0 .. 3 :
        Gate(u, k) => (Passed(i, u, k) <=> Passed(j, u, k))
  BY <1>1 DEF IInv, GroupInv, Together
<1>3. Gate(v, 2) /\ Gate(v, 3)
  <2>1. Cur(j).reads
    BY DEF IInv, GroupInv, PcOK
  <2> QED BY <2>1 DEF Gate, Cur
<1>4. Passed(j, v, 2) /\ ~Passed(j, v, 3)
  BY <1>1 DEF Passed
<1>5. Passed(i, v, 2) /\ ~Passed(i, v, 3)
  BY <1>1, <1>2, <1>3, <1>4
<1>6. use[i] = v /\ Stage[pc[i]] = 3
  BY <1>1, <1>5 DEF Passed
<1> QED BY <1>6, ItemIs DEF Stage

-----------------------------------------------------------------------------
(* The steps.                                                              *)

(* A step of one item that passes no gate keeps the items together.        *)
LEMMA TogetherKept ==
  ASSUME IInv, phase = "group", NEW i \in Items, Live(i), launch' = launch,
         \A j \in Items \ {i} : pc'[j] = pc[j] /\ use'[j] = use[j],
         Live(i)' => \A u \in DOMAIN launch.uses, k \in 0 .. 3 :
                       Gate(u, k) => (Passed(i, u, k)' <=> Passed(i, u, k))
  PROVE  Together'
<1>1. Items' = Items /\ \A u, k : Gate(u, k)' <=> Gate(u, k)
  BY DEF Items, Gate
<1>2. \A j \in Items \ {i} : /\ Live(j)' <=> Live(j)
                             /\ \A u, k : Passed(j, u, k)' <=> Passed(j, u, k)
  BY DEF Live, Passed
<1>3. Together
  BY DEF IInv, GroupInv
<1> SUFFICES ASSUME NEW a \in Items, NEW b \in Items, Live(a)', Live(b)',
                    NEW u \in DOMAIN launch.uses, NEW k \in 0 .. 3, Gate(u, k),
                    Passed(a, u, k)'
             PROVE  Passed(b, u, k)'
  BY <1>1 DEF Together
<1>4. Live(a) /\ Live(b) /\ Passed(a, u, k)
  BY <1>2
<1>5. Passed(b, u, k)
  BY <1>3, <1>4 DEF Together
<1> QED BY <1>2, <1>5

(* What does not depend on the step.                                       *)
LEMMA SameLaunch ==
  ASSUME launch' = launch
  PROVE  Items' = Items /\ Item0' = Item0 /\ \A u, k : Gate(u, k)' <=> Gate(u, k)
BY DEF Items, Item0, Gate

LEMMA StageIs ==
  /\ DOMAIN Stage = {"start", "with", "mark_barrier", "init", "init_barrier", "write", "held",
                     "first_barrier", "reads", "drop_barrier", "drop", "ended"}
  /\ DOMAIN Barriers = {"mark_barrier", "init_barrier", "first_barrier", "drop_barrier"}
  /\ \A l \in {"start", "with", "mark_barrier", "ended"} : Stage[l] = 0
  /\ \A l \in {"init", "init_barrier"} : Stage[l] = 1
  /\ \A l \in {"write", "held", "first_barrier"} : Stage[l] = 2
  /\ \A l \in {"reads", "drop_barrier"} : Stage[l] = 3
  /\ Stage["drop"] = 4
BY DEF Stage, Barriers

(* Steps that only move an item, past no gate, and do not end its hold.    *)
LEMMA MoveKeeps ==
  ASSUME IInv, phase = "group", NEW i \in Items, NEW l \in DOMAIN Stage,
         Live(i), launch' = launch, pc' = [pc EXCEPT ![i] = l], use' = use, slots' = slots,
         l # "ended" => \A k \in 0 .. 3 : use[i] \in DOMAIN launch.uses /\ Gate(use[i], k)
                                          => (Stage[l] > k <=> Stage[pc[i]] > k),
         Holding(i) => l \in {"held", "reads", "first_barrier", "drop_barrier", "drop"},
         Cur(i).kind # "Singleton" /\ ~Holding(i) =>
           l \notin {"held", "reads", "first_barrier", "drop_barrier", "drop"},
         l \notin {"start", "with", "ended"} => use[i] \in DOMAIN launch.uses,
         l \in DOMAIN Barriers => Gate(use[i], Stage[l]),
         l # "start",
         l = "write" => Cur(i).kind = "Singleton",
         l = "reads" => Cur(i).reads,
         l = "drop" => Cur(i).kind # "Unique"
  PROVE  GroupInv'
<1> USE SameLaunch
<1>1. GroupType /\ PcOK /\ SlotsOK
  BY DEF IInv, GroupInv
<1>2. /\ pc'[i] = l /\ \A j \in Items : use'[j] = use[j] /\ Cur(j)' = Cur(j)
      /\ \A j \in Items \ {i} : pc'[j] = pc[j]
  BY <1>1 DEF GroupType, Cur
<1>3. GroupType'
  BY <1>1 DEF GroupType
<1>4. PcOK'
  BY <1>1, <1>2 DEF PcOK, InUse, Waiting
<1>5. Together'
  <2>1. \A u \in DOMAIN launch.uses, k \in 0 .. 3 :
          Gate(u, k) /\ Live(i)' => (Passed(i, u, k)' <=> Passed(i, u, k))
    BY <1>2 DEF Passed, Live
  <2> QED BY <1>2, <2>1, TogetherKept
<1>6. SlotsOK'
  BY <1>1, <1>2 DEF SlotsOK, Holding
<1> QED BY <1>3, <1>4, <1>5, <1>6 DEF GroupInv

(* The gates of a use.                                                     *)
LEMMA GateIs ==
  ASSUME NEW u
  PROVE  /\ Gate(u, 0) = (u > 1 /\ ~launch.uses[u].again)
         /\ Gate(u, 1) = (launch.uses[u].kind = "Singleton")
         /\ Gate(u, 2) = (launch.uses[u].kind = "Shared" /\ launch.uses[u].reads)
         /\ Gate(u, 3) = (launch.uses[u].kind # "Unique")
BY DEF Gate

LEMMA EnterKeeps == ASSUME IInv, NEW i \in Items, Enter(i) PROVE GroupInv'
<1>1. /\ phase = "group" /\ pc[i] = "start" /\ Live(i) /\ ~Holding(i)
      /\ launch' = launch /\ use' = use /\ slots' = slots
      /\ \/ pc' = [pc EXCEPT ![i] = "with"]
         \/ pc' = [pc EXCEPT ![i] = "ended"]
  BY DEF Enter, At, To, Unmoved, Live, Holding
<1>2. CASE pc' = [pc EXCEPT ![i] = "with"]
  BY <1>1, <1>2, MoveKeeps, StageIs
<1>3. CASE pc' = [pc EXCEPT ![i] = "ended"]
  BY <1>1, <1>3, MoveKeeps, StageIs
<1> QED BY <1>1, <1>2, <1>3

LEMMA WithKeeps == ASSUME IInv, NEW i \in Items, With(i) PROVE GroupInv'
<1>1. /\ phase = "group" /\ pc[i] = "with" /\ Live(i) /\ ~Holding(i)
      /\ launch' = launch /\ use' = use /\ slots' = slots /\ use[i] \in DOMAIN launch.uses
  BY ItemIs DEF With, At, To, Unmoved, Live, Holding
<1>2. \/ Gate(use[i], 0) /\ pc' = [pc EXCEPT ![i] = "mark_barrier"]
      \/ ~Gate(use[i], 0) /\ pc' = [pc EXCEPT ![i] = "init"]
  <2>1. launch.uses[use[i]].again \in BOOLEAN /\ use[i] \in Nat /\ use[i] >= 1
    BY <1>1, UsesType, ItemIs DEF IInv, Uses
  <2>2. Gate(use[i], 0) = ~(use[i] = 1 \/ Cur(i).again)
    BY <2>1, GateIs DEF Cur
  <2> QED BY <2>2 DEF With, To
<1> QED BY <1>1, <1>2, MoveKeeps, StageIs

LEMMA ReturnKeeps == ASSUME IInv, NEW i \in Items, Return(i) PROVE GroupInv'
<1>1. /\ phase = "group" /\ pc[i] = "with" /\ Live(i) /\ ~Holding(i)
      /\ launch' = launch /\ use' = use /\ slots' = slots
      /\ pc' = [pc EXCEPT ![i] = "ended"]
  BY DEF Return, At, To, Unmoved, Live, Holding
<1> QED BY <1>1, MoveKeeps, StageIs

LEMMA InitSingletonKeeps == ASSUME IInv, NEW i \in Items, InitSingleton(i) PROVE GroupInv'
<1>1. /\ phase = "group" /\ pc[i] = "init" /\ Live(i) /\ ~Holding(i)
      /\ launch' = launch /\ use' = use /\ slots' = slots /\ use[i] \in DOMAIN launch.uses
      /\ pc' = [pc EXCEPT ![i] = "init_barrier"] /\ Gate(use[i], 1)
  BY ItemIs, GateIs DEF InitSingleton, At, To, Unmoved, Live, Holding, InUse, Cur
<1> QED BY <1>1, MoveKeeps, StageIs

LEMMA DerefKeeps == ASSUME IInv, NEW i \in Items, Deref(i) PROVE GroupInv'
<1>1. /\ phase = "group" /\ pc[i] = "held" /\ Live(i) /\ Holding(i) /\ Cur(i).reads
      /\ launch' = launch /\ use' = use /\ slots' = slots /\ use[i] \in DOMAIN launch.uses
  BY ItemIs DEF Deref, At, To, Unmoved, Live, Holding, InUse
<1>2. \/ Gate(use[i], 2) /\ pc' = [pc EXCEPT ![i] = "first_barrier"]
      \/ ~Gate(use[i], 2) /\ pc' = [pc EXCEPT ![i] = "reads"]
  <2>1. launch.uses[use[i]].reads
    BY <1>1 DEF Cur
  <2> QED BY <1>1, <2>1, GateIs DEF Deref, To, Cur
<1> QED BY <1>1, <1>2, MoveKeeps, StageIs

LEMMA DropWaitsKeeps == ASSUME IInv, NEW i \in Items, DropWaits(i) PROVE GroupInv'
<1>1. /\ phase = "group" /\ pc[i] \in {"held", "reads"} /\ Live(i) /\ Holding(i)
      /\ launch' = launch /\ use' = use /\ slots' = slots /\ use[i] \in DOMAIN launch.uses
      /\ pc' = [pc EXCEPT ![i] = "drop_barrier"] /\ Cur(i).kind # "Unique"
      /\ pc[i] = "held" => ~Cur(i).reads
  BY ItemIs DEF DropWaits, OutOfScope, At, To, Unmoved, Live, Holding, InUse
<1>2. Gate(use[i], 3) /\ (pc[i] = "held" => ~Gate(use[i], 2))
  BY <1>1, GateIs DEF Cur
<1>3. CASE pc[i] = "held"
  <2>1. \A k \in 0 .. 3 : Gate(use[i], k) => (Stage["drop_barrier"] > k <=> Stage[pc[i]] > k)
    BY <1>2, <1>3, StageIs
  <2> QED BY <1>1, <1>2, <1>3, <2>1, MoveKeeps, StageIs
<1>4. CASE pc[i] = "reads"
  BY <1>1, <1>2, <1>4, MoveKeeps, StageIs
<1> QED BY <1>1, <1>3, <1>4

(* A step of one item that stays in its use or goes to the next: all that  *)
(* is left to say is what happens to the slots.                            *)
LEMMA OthersKeep ==
  ASSUME IInv, phase = "group", NEW i \in Items, Live(i), launch' = launch,
         \A j \in Items \ {i} : pc'[j] = pc[j] /\ use'[j] = use[j]
  PROVE  /\ Items' = Items /\ Item0' = Item0
         /\ \A j \in Items \ {i} : /\ Holding(j)' <=> Holding(j)
                                   /\ Cur(j)' = Cur(j)
BY SameLaunch DEF Holding, Cur

LEMMA UncheckedInitKeeps == ASSUME IInv, NEW i \in Items, UncheckedInit(i) PROVE GroupInv'
<1>1. /\ phase = "group" /\ pc[i] = "write" /\ Live(i) /\ ~Holding(i) /\ InUse(i)
      /\ launch' = launch /\ use' = use /\ use[i] \in DOMAIN launch.uses
      /\ pc' = [pc EXCEPT ![i] = "held"]
      /\ slots' = IF i = Item0 THEN [j \in Items |-> use[i]] ELSE slots
      /\ Item0 \in Items /\ launch \in Launches
  BY ItemIs, FirstItem DEF UncheckedInit, At, To, Unmoved, Live, Holding, InUse, IInv
<1>2. GroupType /\ PcOK /\ SlotsOK /\ Cur(i).kind = "Singleton"
  BY <1>1 DEF IInv, GroupInv, PcOK
<1>3. CASE i # Item0
  BY <1>1, <1>2, <1>3, MoveKeeps, StageIs
<1>4. CASE i = Item0
  <2>1. /\ pc'[i] = "held" /\ \A j \in Items : use'[j] = use[j] /\ Cur(j)' = Cur(j)
        /\ \A j \in Items \ {i} : pc'[j] = pc[j]
    BY <1>1, <1>2 DEF GroupType, Cur
  <2>2. GroupType'
    BY <1>1, <1>2, <1>4, SameLaunch, StageIs, UsesType DEF GroupType
  <2>3. PcOK'
    BY <1>1, <1>2, <2>1, SameLaunch, StageIs DEF PcOK, InUse, Waiting
  <2>4. Together'
    <3>1. \A u \in DOMAIN launch.uses, k \in 0 .. 3 : Passed(i, u, k)' <=> Passed(i, u, k)
      BY <1>1, <2>1, StageIs DEF Passed
    <3> QED BY <1>1, <2>1, <3>1, TogetherKept
  <2>5. ASSUME NEW j \in Items, Holding(j) PROVE Cur(j).kind = "Singleton"
    <3>1. Live(j) /\ Stage[pc[j]] >= 2
      BY <2>5, StageIs DEF Holding, Live
    <3>2. /\ use[j] = use[i] \/ use[j] = use[i] + 1
          /\ Stage[pc[j]] >= 1 /\ use[j] # use[i] => Cur(j).kind = "Singleton"
      BY <1>1, <1>2, <3>1, StageIs, SingletonAlone
    <3> QED BY <1>2, <3>1, <3>2, ItemIs, <1>1 DEF Cur
  <2>6. SlotsOK'
    BY <1>1, <1>2, <1>4, <2>1, <2>5, OthersKeep DEF SlotsOK, Holding
  <2> QED BY <2>2, <2>3, <2>4, <2>6 DEF GroupInv
<1> QED BY <1>3, <1>4

LEMMA InitOwnKeeps == ASSUME IInv, NEW i \in Items, InitOwn(i) PROVE GroupInv'
<1>1. /\ phase = "group" /\ pc[i] = "init" /\ Live(i) /\ ~Holding(i) /\ InUse(i)
      /\ launch' = launch /\ use' = use /\ use[i] \in DOMAIN launch.uses
      /\ Cur(i).kind # "Singleton"
      /\ \/ slots' = [slots EXCEPT ![i] = use[i]] /\ pc' = [pc EXCEPT ![i] = "held"]
         \/ slots' = slots /\ pc' = [pc EXCEPT ![i] = "ended"]
      /\ launch \in Launches
  BY ItemIs DEF InitOwn, At, To, Unmoved, Live, Holding, InUse, IInv
<1>2. GroupType /\ PcOK /\ SlotsOK /\ ~Gate(use[i], 1)
  BY <1>1, GateIs DEF IInv, GroupInv, Cur
<1>3. CASE slots' = slots /\ pc' = [pc EXCEPT ![i] = "ended"]
  BY <1>1, <1>3, MoveKeeps, StageIs
<1>4. CASE slots' = [slots EXCEPT ![i] = use[i]] /\ pc' = [pc EXCEPT ![i] = "held"]
  <2>1. /\ pc'[i] = "held" /\ \A j \in Items : use'[j] = use[j] /\ Cur(j)' = Cur(j)
        /\ \A j \in Items \ {i} : pc'[j] = pc[j] /\ slots'[j] = slots[j]
        /\ slots'[i] = use[i]
    BY <1>1, <1>2, <1>4 DEF GroupType, Cur
  <2>2. GroupType'
    <3>1. use[i] \in 0 .. Len(launch.uses)
      BY <1>1, UsesType
    <3> QED BY <1>1, <1>2, <1>4, <3>1, SameLaunch, StageIs DEF GroupType
  <2>3. PcOK'
    BY <1>1, <1>2, <2>1, SameLaunch, StageIs DEF PcOK, InUse, Waiting
  <2>4. Together'
    <3>1. \A u \in DOMAIN launch.uses, k \in 0 .. 3 :
            Gate(u, k) => (Passed(i, u, k)' <=> Passed(i, u, k))
      BY <1>1, <1>2, <2>1, StageIs DEF Passed
    <3> QED BY <1>1, <2>1, <3>1, TogetherKept
  <2>5. SlotsOK'
    BY <1>1, <1>2, <2>1, OthersKeep DEF SlotsOK, Holding
  <2> QED BY <2>2, <2>3, <2>4, <2>5 DEF GroupInv
<1> QED BY <1>1, <1>3, <1>4

(* The end of a use: no gate is behind the last stage of a use that the    *)
(* item is not past.                                                       *)
LEMMA NextUse ==
  ASSUME IInv, phase = "group", NEW i \in Items, Live(i), InUse(i), launch' = launch,
         pc' = [pc EXCEPT ![i] = "with"], use' = [use EXCEPT ![i] = @ + 1],
         \A k \in 0 .. 3 : Gate(use[i], k) => Stage[pc[i]] > k
  PROVE  /\ pc'[i] = "with" /\ use'[i] = use[i] + 1
         /\ \A j \in Items \ {i} : pc'[j] = pc[j] /\ use'[j] = use[j] /\ Cur(j)' = Cur(j)
         /\ pc' \in [Items -> DOMAIN Stage]
         /\ use' \in [Items -> 1 .. Len(launch.uses) + 1]
         /\ PcOK' /\ Together'
<1>1. GroupType /\ PcOK
  BY DEF IInv, GroupInv
<1>2. /\ pc'[i] = "with" /\ use'[i] = use[i] + 1
      /\ \A j \in Items \ {i} : pc'[j] = pc[j] /\ use'[j] = use[j] /\ Cur(j)' = Cur(j)
  BY <1>1 DEF GroupType, Cur
<1>3. use[i] \in DOMAIN launch.uses /\ use[i] + 1 \in 1 .. Len(launch.uses) + 1
  BY ItemIs
<1>4. pc' \in [Items -> DOMAIN Stage] /\ use' \in [Items -> 1 .. Len(launch.uses) + 1]
  BY <1>1, <1>3, StageIs DEF GroupType
<1>5. PcOK'
  BY <1>1, <1>2, SameLaunch, StageIs DEF PcOK, InUse, Waiting
<1>6. \A u \in DOMAIN launch.uses, k \in 0 .. 3 :
        Gate(u, k) => (Passed(i, u, k)' <=> Passed(i, u, k))
  BY <1>2, ItemIs, StageIs DEF Passed
<1>7. Together'
  BY <1>2, <1>6, TogetherKept
<1> QED BY <1>2, <1>4, <1>5, <1>7

LEMMA DropMutKeeps == ASSUME IInv, NEW i \in Items, DropMut(i) PROVE GroupInv'
<1>1. /\ phase = "group" /\ pc[i] \in {"held", "reads"} /\ Live(i) /\ Holding(i) /\ InUse(i)
      /\ launch' = launch /\ Cur(i).kind = "Unique" /\ slots' = [slots EXCEPT ![i] = 0]
      /\ pc' = [pc EXCEPT ![i] = "with"] /\ use' = [use EXCEPT ![i] = @ + 1]
  BY DEF DropMut, OutOfScope, At, To, Unmoved, Live, Holding, InUse
<1>2. \A k \in 0 .. 3 : Gate(use[i], k) => Stage[pc[i]] > k
  <2>1. ~Gate(use[i], 1) /\ ~Gate(use[i], 2) /\ ~Gate(use[i], 3)
    BY <1>1, GateIs DEF Cur
  <2>2. Stage[pc[i]] \in {2, 3}
    BY <1>1, StageIs
  <2> QED BY <2>1, <2>2
<1>3. GroupType /\ SlotsOK
  BY <1>1 DEF IInv, GroupInv
<1>4. /\ pc'[i] = "with" /\ use'[i] = use[i] + 1
      /\ \A j \in Items \ {i} : pc'[j] = pc[j] /\ use'[j] = use[j] /\ Cur(j)' = Cur(j)
      /\ pc' \in [Items -> DOMAIN Stage] /\ use' \in [Items -> 1 .. Len(launch.uses) + 1]
      /\ PcOK' /\ Together'
  BY <1>1, <1>2, NextUse
<1>5. GroupType'
  BY <1>1, <1>3, <1>4, SameLaunch, UsesType DEF GroupType, IInv
<1>6. slots'[i] = 0 /\ \A j \in Items \ {i} : slots'[j] = slots[j]
  BY <1>1, <1>3 DEF GroupType
<1>7. SlotsOK'
  BY <1>1, <1>3, <1>4, <1>6, SameLaunch DEF SlotsOK, Holding
<1> QED BY <1>4, <1>5, <1>7 DEF GroupInv

LEMMA DropAfterKeeps == ASSUME IInv, NEW i \in Items, DropAfter(i) PROVE GroupInv'
<1>1. /\ phase = "group" /\ pc[i] = "drop" /\ Live(i) /\ Holding(i) /\ InUse(i)
      /\ launch' = launch /\ launch \in Launches
      /\ pc' = [pc EXCEPT ![i] = "with"] /\ use' = [use EXCEPT ![i] = @ + 1]
      /\ IsWi0(Params(launch, group, i)) <=> i = Item0
      /\ Item0 \in Items
  BY FirstItem DEF DropAfter, At, To, Unmoved, Live, Holding, InUse, IInv
<1>2. \A k \in 0 .. 3 : Gate(use[i], k) => Stage[pc[i]] > k
  BY <1>1, StageIs
<1>3. GroupType /\ SlotsOK
  BY <1>1 DEF IInv, GroupInv
<1>4. /\ pc'[i] = "with" /\ use'[i] = use[i] + 1
      /\ \A j \in Items \ {i} : pc'[j] = pc[j] /\ use'[j] = use[j] /\ Cur(j)' = Cur(j)
      /\ pc' \in [Items -> DOMAIN Stage] /\ use' \in [Items -> 1 .. Len(launch.uses) + 1]
      /\ PcOK' /\ Together'
  BY <1>1, <1>2, NextUse
<1>5. Cur(i).kind \in {"Singleton", "Shared"}
  <2>1. Cur(i).kind # "Unique"
    BY <1>1 DEF IInv, GroupInv, PcOK
  <2>2. Cur(i) \in Uses
    BY <1>1, ItemIs, UsesType DEF Cur
  <2> QED BY <2>1, <2>2 DEF Uses
<1>6. CASE Cur(i).kind = "Shared"
  <2>1. slots' = [slots EXCEPT ![i] = 0]
    BY <1>6 DEF DropAfter
  <2>2. slots'[i] = 0 /\ \A j \in Items \ {i} : slots'[j] = slots[j]
    BY <2>1, <1>3 DEF GroupType
  <2>3. GroupType'
    <3>1. 0 \in 0 .. Len(launch.uses)
      BY <1>1, UsesType
    <3> QED BY <1>1, <1>3, <1>4, <2>1, <3>1, SameLaunch DEF GroupType
  <2>4. SlotsOK'
    BY <1>1, <1>3, <1>4, <1>6, <2>2, SameLaunch DEF SlotsOK, Holding
  <2> QED BY <1>4, <2>3, <2>4 DEF GroupInv
<1>7. CASE Cur(i).kind = "Singleton" /\ i # Item0
  <2>1. slots' = slots
    BY <1>1, <1>7 DEF DropAfter
  <2>2. GroupType'
    BY <1>1, <1>3, <1>4, <2>1, SameLaunch DEF GroupType
  <2>3. SlotsOK'
    BY <1>1, <1>3, <1>4, <1>7, <2>1, SameLaunch DEF SlotsOK, Holding
  <2> QED BY <1>4, <2>2, <2>3 DEF GroupInv
<1>8. CASE Cur(i).kind = "Singleton" /\ i = Item0
  <2>1. slots' = [j \in Items |-> 0]
    BY <1>1, <1>8 DEF DropAfter
  <2>2. GroupType'
    BY <1>1, <1>3, <1>4, <2>1, SameLaunch, UsesType DEF GroupType
  <2>3. ASSUME NEW j \in Items, Holding(j), Cur(j).kind # "Singleton" PROVE FALSE
    <3>1. Live(j) /\ Stage[pc[j]] >= 2
      BY <2>3, StageIs DEF Holding, Live
    <3>2. /\ use[j] = use[i] \/ use[j] = use[i] + 1
          /\ Stage[pc[j]] >= 1 /\ use[j] # use[i] => Cur(j).kind = "Singleton"
      BY <1>1, <1>8, <3>1, StageIs, SingletonAlone
    <3> QED BY <1>8, <2>3, <3>1, <3>2, ItemIs, <1>1 DEF Cur
  <2>4. SlotsOK'
    BY <1>1, <1>3, <1>4, <2>1, <2>3, SameLaunch DEF SlotsOK, Holding
  <2> QED BY <1>4, <2>2, <2>4 DEF GroupInv
<1> QED BY <1>5, <1>6, <1>7, <1>8

(* Items that wait have passed the same gates of the use that is furthest, *)
(* so the barrier they wait at is the same one.                            *)
LEMMA SameBarrier ==
  ASSUME IInv, phase = "group", NEW i \in Items, NEW j \in Items, Waiting(i), Waiting(j)
  PROVE  pc[i] = pc[j] /\ use[i] = use[j]
<1>1. ASSUME NEW a \in Items, NEW b \in Items, Waiting(a), Waiting(b)
      PROVE  ~(use[b] > use[a]) /\ (use[a] = use[b] => ~(Stage[pc[b]] > Stage[pc[a]]))
  <2>1. /\ Live(a) /\ Live(b) /\ Gate(use[a], Stage[pc[a]])
        /\ Stage[pc[a]] \in 0 .. 3 /\ pc[a] \in DOMAIN Barriers
    BY <1>1, StageIs DEF Waiting, Live, IInv, GroupInv, PcOK
  <2>2. use[a] \in DOMAIN launch.uses /\ use[a] \in Nat /\ use[b] \in Nat /\ Stage[pc[b]] \in Nat
    BY <2>1, ItemIs, StageIs DEF InUse
  <2>3. ~Passed(a, use[a], Stage[pc[a]])
    BY <2>1, <2>2 DEF Passed
  <2>4. ~Passed(b, use[a], Stage[pc[a]])
    BY <2>1, <2>2, <2>3 DEF IInv, GroupInv, Together
  <2> QED BY <2>4 DEF Passed
<1>2. use[i] = use[j] /\ Stage[pc[i]] = Stage[pc[j]]
  BY <1>1, ItemIs
<1>3. \A l, m \in DOMAIN Barriers : Stage[l] = Stage[m] => l = m
  BY StageIs
<1> QED BY <1>2, <1>3 DEF Waiting

LEMMA BarrierKeeps == ASSUME IInv, Barrier PROVE GroupInv'
<1>1. /\ phase = "group" /\ launch' = launch /\ use' = use /\ slots' = slots
      /\ pc' = [i \in Items |-> IF Waiting(i) THEN Barriers[pc[i]] ELSE pc[i]]
      /\ \A i \in Items : Waiting(i) \/ pc[i] = "ended"
  BY DEF Barrier, Unmoved
<1>2. GroupType /\ PcOK /\ SlotsOK
  BY <1>1 DEF IInv, GroupInv
<1>3. Items' = Items /\ Item0' = Item0 /\ \A u, k : Gate(u, k)' <=> Gate(u, k)
  BY <1>1, SameLaunch
<1>4. \A i \in Items : use'[i] = use[i] /\ Cur(i)' = Cur(i)
  BY <1>1 DEF Cur
<1>5. /\ Barriers["mark_barrier"] = "init" /\ Barriers["init_barrier"] = "write"
      /\ Barriers["first_barrier"] = "reads" /\ Barriers["drop_barrier"] = "drop"
  BY DEF Barriers
<1>6. \A i \in Items :
        \/ pc[i] = "ended" /\ pc'[i] = "ended"
        \/ pc[i] = "mark_barrier" /\ pc'[i] = "init" /\ use[i] \in DOMAIN launch.uses
        \/ pc[i] = "init_barrier" /\ pc'[i] = "write" /\ use[i] \in DOMAIN launch.uses
        \/ pc[i] = "first_barrier" /\ pc'[i] = "reads" /\ use[i] \in DOMAIN launch.uses
        \/ pc[i] = "drop_barrier" /\ pc'[i] = "drop" /\ use[i] \in DOMAIN launch.uses
  BY <1>1, <1>2, <1>5, StageIs DEF Waiting, PcOK, InUse
<1>7. GroupType'
  <2>1. \A i \in Items : (IF Waiting(i) THEN Barriers[pc[i]] ELSE pc[i]) \in DOMAIN Stage
    BY <1>1, <1>2, <1>5, StageIs DEF Waiting, GroupType
  <2> QED BY <1>1, <1>2, <1>3, <2>1 DEF GroupType
<1>8. PcOK'
  <2>1. \A i \in Items : /\ pc[i] = "init_barrier" => Gate(use[i], 1)
                         /\ pc[i] = "first_barrier" => Gate(use[i], 2)
                         /\ pc[i] = "drop_barrier" => Gate(use[i], 3)
    BY <1>2, StageIs DEF PcOK, Waiting
  <2>2. \A i \in Items : /\ pc'[i] = "write" => Cur(i).kind = "Singleton"
                         /\ pc'[i] = "reads" => Cur(i).reads
                         /\ pc'[i] = "drop" => Cur(i).kind # "Unique"
    BY <2>1, <1>6, GateIs DEF Cur
  <2>3. \A i \in Items : /\ ~Waiting(i)' /\ pc'[i] # "start"
                         /\ InUse(i)' => use[i] \in DOMAIN launch.uses
    BY <1>6, StageIs DEF Waiting, InUse
  <2> QED BY <1>1, <1>3, <1>4, <2>2, <2>3 DEF PcOK
<1>9. Together'
  <2> SUFFICES ASSUME NEW i \in Items, NEW j \in Items, Live(i)', Live(j)',
                      NEW u \in DOMAIN launch.uses, NEW k \in 0 .. 3, Gate(u, k), Passed(i, u, k)'
               PROVE  Passed(j, u, k)'
    BY <1>1, <1>3 DEF Together
  <2>1. Waiting(i) /\ Waiting(j)
    BY <1>1, <1>6 DEF Live
  <2>2. pc[i] = pc[j] /\ use[i] = use[j]
    BY <1>1, <2>1, SameBarrier
  <2>3. pc'[i] = pc'[j]
    BY <1>1, <2>1, <2>2
  <2> QED BY <1>4, <2>2, <2>3 DEF Passed
<1>10. \A i \in Items : Holding(i)' <=> Holding(i)
  BY <1>6 DEF Holding
<1>11. SlotsOK'
  BY <1>1, <1>2, <1>3, <1>4, <1>10 DEF SlotsOK
<1> QED BY <1>7, <1>8, <1>9, <1>11 DEF GroupInv

LEMMA RunGroupKeeps == ASSUME IInv, RunGroup PROVE GroupInv'
<1>1. /\ launch' = launch /\ launch \in Launches /\ launch.uses # << >>
      /\ pc' = [i \in Items |-> "start"] /\ use' = [i \in Items |-> 1]
      /\ slots' = [i \in Items |-> 0]
  BY DEF RunGroup, IInv
<1>2. Items' = Items /\ Item0' = Item0
  BY <1>1, SameLaunch
<1>3. /\ 1 \in 1 .. Len(launch.uses) + 1 /\ 0 \in 0 .. Len(launch.uses)
      /\ DOMAIN launch.uses = 1 .. Len(launch.uses)
  BY <1>1, UsesType
<1>4. \A i \in Items : pc'[i] = "start" /\ use'[i] = 1 /\ slots'[i] = 0
  BY <1>1
<1>5. GroupType'
  BY <1>1, <1>2, <1>3, StageIs DEF GroupType
<1>6. PcOK'
  BY <1>2, <1>4, StageIs DEF PcOK, InUse, Waiting
<1>7. Together'
  BY <1>2, <1>4 DEF Together, Passed
<1>8. SlotsOK'
  BY <1>2, <1>4 DEF SlotsOK, Holding
<1> QED BY <1>5, <1>6, <1>7, <1>8 DEF GroupInv

LEMMA StutterKeeps == ASSUME IInv, UNCHANGED vars PROVE IInv'
<1>1. /\ launch' = launch /\ phase' = phase /\ pc' = pc /\ use' = use /\ slots' = slots
  BY DEF vars
<1>2. Items' = Items /\ Item0' = Item0 /\ \A u, k : Gate(u, k)' <=> Gate(u, k)
  BY <1>1, SameLaunch
<1> QED BY <1>1, <1>2 DEF IInv, GroupInv, GroupType, PcOK, Together, SlotsOK, Live, InUse,
       Holding, Passed, Waiting, Cur

(* Each step keeps the invariant.                                          *)
LEMMA NextIInv == ASSUME IInv, [Next]_vars PROVE IInv'
<1>1. CASE Call
  <2>1. phase' # "group" /\ slots' = slots /\ launch' = launch /\ phase # "group"
    BY <1>1 DEF Call, Verdict, LenError
  <2> QED BY <2>1 DEF IInv
<1>2. CASE RunGroup
  BY <1>2, RunGroupKeeps DEF RunGroup, IInv
<1>3. CASE Barrier
  BY <1>3, BarrierKeeps DEF Barrier, Unmoved, IInv
<1>4. ASSUME NEW i \in Items,
             \/ Enter(i) \/ With(i) \/ Return(i)
             \/ InitSingleton(i) \/ UncheckedInit(i) \/ InitOwn(i)
             \/ Deref(i) \/ DropMut(i) \/ DropWaits(i) \/ DropAfter(i)
      PROVE  IInv'
  <2>1. phase = "group" /\ launch' = launch /\ phase' = phase
    BY <1>4 DEF Enter, With, Return, InitSingleton, UncheckedInit, InitOwn, Deref, DropMut,
                DropWaits, DropAfter, OutOfScope, At, Unmoved
  <2>2. GroupInv'
    BY <1>4, EnterKeeps, WithKeeps, ReturnKeeps, InitSingletonKeeps, UncheckedInitKeeps,
       InitOwnKeeps, DerefKeeps, DropMutKeeps, DropWaitsKeeps, DropAfterKeeps
  <2> QED BY <2>1, <2>2 DEF IInv
<1>5. CASE UNCHANGED vars
  BY <1>5, StutterKeeps
<1> QED BY <1>1, <1>2, <1>3, <1>4, <1>5 DEF Next

LEMMA InitIInv == Init => IInv
BY DEF Init, IInv

(* Of the steps of the signals, only the one that starts a kernel without  *)
(* LDS changes anything of the group: the phase.                           *)
LEMMA GroupStep == ASSUME [SignalsNext]_<<vars, signalVars>> PROVE [Next]_vars \/ Accepted
BY DEF SignalsNext, signalVars, vars, Device, Waiter, ZeroDep, Atomic, UpdateMbox, PeerOp,
       BeginWait, HostWait, LookAt, Interrupted, Answers, Sporadic

LEMMA AcceptedKeeps == ASSUME IInv, Accepted PROVE IInv'
BY DEF Accepted, IInv

LEMMA Invariance == Spec \/ SignalsSpec => []IInv
<1>1. IInv /\ [SignalsNext]_<<vars, signalVars>> => IInv'
  BY GroupStep, NextIInv, AcceptedKeeps
<1>2. SignalsInit => IInv
  BY InitIInv DEF SignalsInit
<1> QED BY <1>1, <1>2, InitIInv, NextIInv, PTL DEF Spec, SignalsSpec

-----------------------------------------------------------------------------
(* Items that wait do so at the same barrier of the same use, whatever the *)
(* group and the uses are, so no barrier mixes items that are at different *)
(* places of the code; and an LDS that all items have left is empty        *)
(* (mark_used, init_with and the drops of Singleton and Shared).           *)
LEMMA BarriersMatchStep == ASSUME IInv PROVE BarriersMatch
<1> SUFFICES ASSUME phase = "group"
             PROVE  /\ \A i, j \in Items : Waiting(i) /\ Waiting(j) =>
                         pc[i] = pc[j] /\ use[i] = use[j]
                    /\ (\A i \in Items : pc[i] = "ended") => \A i \in Items : slots[i] = 0
  BY DEF BarriersMatch
<1>1. (\A i \in Items : pc[i] = "ended") => \A i \in Items : slots[i] = 0
  BY DEF IInv, GroupInv, SlotsOK, Holding
<1> QED BY <1>1, SameBarrier

THEOREM BarriersAgree == Spec \/ SignalsSpec => []BarriersMatch
BY Invariance, BarriersMatchStep, PTL

(* An item that reads its Mut finds its own value of this use; one that    *)
(* reads a Slice finds those of all items that have not been masked off    *)
(* (the first barrier of a Slice and the drops of the use before).         *)
LEMMA ReadsLiveStep == ASSUME IInv PROVE ReadsLive
<1> SUFFICES ASSUME phase = "group", NEW i \in Items, pc[i] = "reads",
                    Cur(i).kind # "Singleton", NEW j \in Holds(i), pc[j] # "ended"
             PROVE  slots[j] = use[i]
  BY DEF ReadsLive
<1>1. SlotsOK
  BY DEF IInv, GroupInv
<1>2. CASE Cur(i).kind = "Shared"
  <2>1. j \in Items /\ Live(j)
    BY <1>2 DEF Holds, Live
  <2>2. use[j] = use[i] /\ pc[j] \in {"reads", "drop_barrier"}
    BY <1>2, <2>1, SharedTogether
  <2>3. Holding(j) /\ Cur(j) = Cur(i)
    BY <2>2 DEF Holding, Cur
  <2> QED BY <1>1, <1>2, <2>1, <2>2, <2>3 DEF SlotsOK
<1>3. CASE Cur(i).kind # "Shared"
  <2>1. j = i /\ Holding(i)
    BY <1>3 DEF Holds, Holding
  <2> QED BY <1>1, <2>1 DEF SlotsOK
<1> QED BY <1>2, <1>3

THEOREM ReadsFindValues == Spec \/ SignalsSpec => []ReadsLive
BY Invariance, ReadsLiveStep, PTL

(* An item that holds a reference to the slot of another holds a Singleton *)
(* or reads a Slice.                                                       *)
LEMMA HoldsIs ==
  ASSUME NEW j \in Items, NEW s \in Holds(j)
  PROVE  /\ s \in Items /\ pc[j] \in {"held", "reads", "first_barrier"}
         /\ \/ Cur(j).kind = "Singleton"
            \/ Cur(j).kind = "Shared" /\ pc[j] = "reads"
            \/ s = j
BY DEF Holds

LEMMA WriteClobbersNot ==
  ASSUME IInv, NEW i \in Items, UncheckedInit(i), NEW s \in Items, slots[s] # 0
  PROVE  slots'[s] = slots[s]
<1>1. /\ phase = "group" /\ pc[i] = "write" /\ Live(i) /\ InUse(i) /\ ~Holding(i)
      /\ launch \in Launches /\ use[i] \in DOMAIN launch.uses
      /\ i # Item0 => slots' = slots
  BY ItemIs, FirstItem DEF UncheckedInit, At, Live, InUse, Holding, IInv
<1>2. SlotsOK /\ Cur(i).kind = "Singleton"
  BY <1>1 DEF IInv, GroupInv, PcOK
<1>3. ASSUME i = Item0 PROVE FALSE
  <2>1. Holding(s) /\ Cur(s).kind # "Singleton"
    BY <1>1, <1>2, <1>3 DEF SlotsOK
  <2>2. Live(s) /\ Stage[pc[s]] >= 2
    BY <2>1, StageIs DEF Holding, Live
  <2>3. /\ use[s] = use[i] \/ use[s] = use[i] + 1
        /\ Stage[pc[s]] >= 1 /\ use[s] # use[i] => Cur(s).kind = "Singleton"
    BY <1>1, <1>2, <2>2, StageIs, SingletonAlone
  <2> QED BY <1>2, <2>1, <2>2, <2>3, ItemIs, <1>1 DEF Cur
<1> QED BY <1>1, <1>3

LEMMA InitClobbersNot ==
  ASSUME IInv, NEW i \in Items, InitOwn(i), NEW s \in Items, slots[s] # 0
  PROVE  slots'[s] = slots[s]
<1>1. /\ phase = "group" /\ pc[i] = "init" /\ Live(i) /\ ~Holding(i)
      /\ Cur(i).kind # "Singleton" /\ use[i] \in DOMAIN launch.uses
      /\ slots' = slots \/ slots' = [slots EXCEPT ![i] = use[i]]
  BY ItemIs DEF InitOwn, At, Live, Holding, InUse
<1>2. GroupType /\ SlotsOK
  BY <1>1 DEF IInv, GroupInv
<1>3. ASSUME s = i PROVE FALSE
  <2>1. Item0 \in Items /\ Holding(Item0) /\ Cur(Item0).kind = "Singleton"
    BY <1>1, <1>2, <1>3 DEF SlotsOK
  <2>2. InUse(Item0) /\ Stage[pc[Item0]] >= 2
    BY <2>1, StageIs DEF Holding, InUse
  <2>3. /\ use[i] = use[Item0] => Stage[pc[i]] >= 2
        /\ Stage[pc[i]] >= 1 /\ use[i] # use[Item0] => Cur(i).kind = "Singleton"
    BY <1>1, <2>1, <2>2, SingletonAlone
  <2> QED BY <1>1, <2>3, StageIs
<1> QED BY <1>1, <1>2, <1>3 DEF GroupType

LEMMA DropMutClobbersNot ==
  ASSUME IInv, NEW i \in Items, DropMut(i), NEW s \in Items, slots'[s] # slots[s]
  PROVE  slots'[s] = 0 /\ \A j \in Items : s \in Holds(j) => pc'[j] # pc[j]
<1>1. /\ phase = "group" /\ pc[i] \in {"held", "reads"} /\ Live(i) /\ Cur(i).kind = "Unique"
      /\ slots' = [slots EXCEPT ![i] = 0] /\ pc' = [pc EXCEPT ![i] = "with"]
  BY DEF DropMut, OutOfScope, At, To, Live
<1>2. GroupType
  BY <1>1 DEF IInv, GroupInv
<1>3. s = i /\ slots'[s] = 0 /\ pc'[i] # pc[i]
  BY <1>1, <1>2 DEF GroupType
<1>4. ASSUME NEW j \in Items, s \in Holds(j), j # i PROVE FALSE
  <2>1. /\ pc[j] \in {"held", "reads", "first_barrier"}
        /\ Cur(j).kind = "Singleton" \/ (Cur(j).kind = "Shared" /\ pc[j] = "reads")
    BY <1>3, <1>4, HoldsIs
  <2>2. CASE Cur(j).kind = "Singleton"
    <3>1. InUse(j) /\ Stage[pc[j]] >= 2 /\ Stage[pc[i]] >= 1
      BY <1>1, <2>1, StageIs DEF InUse
    <3>2. use[i] # use[j] => Cur(i).kind = "Singleton"
      BY <1>1, <2>2, <3>1, SingletonAlone
    <3> QED BY <1>1, <2>2, <3>2 DEF Cur
  <2>3. CASE Cur(j).kind = "Shared" /\ pc[j] = "reads"
    <3>1. use[i] = use[j]
      BY <1>1, <2>3, SharedTogether
    <3> QED BY <1>1, <2>3, <3>1 DEF Cur
  <2> QED BY <2>1, <2>2, <2>3
<1> QED BY <1>3, <1>4

LEMMA DropAfterClobbersNot ==
  ASSUME IInv, NEW i \in Items, DropAfter(i), NEW s \in Items, slots'[s] # slots[s]
  PROVE  slots'[s] = 0 /\ \A j \in Items : s \in Holds(j) => pc'[j] # pc[j]
<1>1. /\ phase = "group" /\ pc[i] = "drop" /\ Live(i) /\ InUse(i) /\ pc'[i] # pc[i]
      /\ \/ Cur(i).kind = "Shared" /\ slots' = [slots EXCEPT ![i] = 0]
         \/ Cur(i).kind = "Singleton" /\ slots' = [j \in Items |-> 0]
         \/ slots' = slots
  BY DEF DropAfter, At, To, Live, InUse, IInv, GroupInv, GroupType
<1>2. GroupType
  BY <1>1 DEF IInv, GroupInv
<1>3. slots'[s] = 0
  BY <1>1, <1>2 DEF GroupType
<1>4. CASE Cur(i).kind = "Shared" /\ slots' = [slots EXCEPT ![i] = 0]
  <2>1. s = i
    BY <1>2, <1>4 DEF GroupType
  <2>2. ASSUME NEW j \in Items, s \in Holds(j), j # i PROVE FALSE
    <3>1. /\ pc[j] \in {"held", "reads", "first_barrier"}
          /\ Cur(j).kind = "Singleton" \/ (Cur(j).kind = "Shared" /\ pc[j] = "reads")
      BY <2>1, <2>2, HoldsIs
    <3>2. CASE Cur(j).kind = "Singleton"
      <4>1. InUse(j) /\ Stage[pc[j]] >= 2 /\ Stage[pc[i]] >= 1
        BY <1>1, <3>1, StageIs DEF InUse
      <4>2. use[i] # use[j] => Cur(i).kind = "Singleton"
        BY <1>1, <3>2, <4>1, SingletonAlone
      <4> QED BY <1>4, <3>2, <4>2 DEF Cur
    <3>3. CASE Cur(j).kind = "Shared" /\ pc[j] = "reads"
      <4>1. pc[i] \in {"reads", "drop_barrier"}
        BY <1>1, <3>3, SharedTogether
      <4> QED BY <1>1, <4>1
    <3> QED BY <3>1, <3>2, <3>3
  <2> QED BY <1>1, <1>3, <2>2
<1>5. CASE Cur(i).kind = "Singleton" /\ slots' = [j \in Items |-> 0]
  <2>1. ASSUME NEW j \in Items, s \in Holds(j), j # i PROVE FALSE
    <3>1. Live(j) /\ pc[j] \in {"held", "reads", "first_barrier"}
      BY <2>1, HoldsIs DEF Live
    <3>2. Stage[pc[i]] = 4 /\ Stage[pc[j]] \in {2, 3}
      BY <1>1, <3>1, StageIs
    <3>3. use[j] = use[i]
      BY <1>1, <1>5, <3>1, <3>2, SingletonAlone
    <3>4. Gate(use[i], 3) /\ Passed(i, use[i], 3) /\ use[i] \in DOMAIN launch.uses
      <4>1. Gate(use[i], 3)
        BY <1>5, GateIs DEF Cur
      <4> QED BY <1>1, <3>2, <4>1, ItemIs DEF Passed
    <3>5. Passed(j, use[i], 3)
      BY <1>1, <3>1, <3>4 DEF IInv, GroupInv, Together
    <3> QED BY <3>2, <3>3, <3>4, <3>5, <1>1, ItemIs DEF Passed
  <2> QED BY <1>1, <1>3, <2>1
<1> QED BY <1>1, <1>4, <1>5

LEMMA NoClobberStep ==
  ASSUME IInv, [Next]_vars, NEW s \in DOMAIN slots, slots[s] # 0, slots'[s] # slots[s]
  PROVE  slots'[s] = 0 /\ \A j \in Items : s \in Holds(j) => pc'[j] # pc[j]
<1>1. phase = "group" /\ s \in Items
  <2>1. phase # "group" => DOMAIN slots = {}
    BY DEF IInv
  <2> QED BY <2>1 DEF IInv, GroupInv, GroupType
<1>2. PICK i \in Items : UncheckedInit(i) \/ InitOwn(i) \/ DropMut(i) \/ DropAfter(i)
  BY <1>1 DEF Next, vars, Call, RunGroup, Barrier, Enter, With, Return, InitSingleton, Deref,
              DropWaits, Unmoved
<1> QED BY <1>1, <1>2, WriteClobbersNot, InitClobbersNot, DropMutClobbersNot,
           DropAfterClobbersNot

(* No step overwrites a value of the LDS, and a step drops one only when   *)
(* no other item may hold a reference to it: what init_with and the drops  *)
(* of Singleton, Mut and Slice do without any lock, relying on barriers.   *)
THEOREM ValuesStay == Spec \/ SignalsSpec => NoClobber
<1>1. ASSUME IInv, [Next]_vars
      PROVE  [\A s \in DOMAIN slots :
                slots[s] # 0 /\ slots'[s] # slots[s] =>
                  /\ slots'[s] = 0
                  /\ \A j \in Items : s \in Holds(j) => pc'[j] # pc[j]]_vars
  BY <1>1, NoClobberStep
<1>2. ASSUME IInv, [SignalsNext]_<<vars, signalVars>>
      PROVE  [\A s \in DOMAIN slots :
                slots[s] # 0 /\ slots'[s] # slots[s] =>
                  /\ slots'[s] = 0
                  /\ \A j \in Items : s \in Holds(j) => pc'[j] # pc[j]]_vars
  <2>1. CASE Accepted
    BY <2>1 DEF Accepted
  <2> QED BY <1>1, <1>2, <2>1, GroupStep
<1> QED BY <1>1, <1>2, Invariance, PTL DEF Spec, SignalsSpec, NoClobber

-----------------------------------------------------------------------------
(* Arithmetic with a side that is not a literal.                           *)

LEMMA ProductType == ASSUME NEW a \in Nat, NEW b \in Nat PROVE a * b \in Nat
OBVIOUS

LEMMA ProductGrows ==
  ASSUME NEW a \in Nat, NEW b \in Nat, NEW w \in Nat, a <= b
  PROVE  a * w <= b * w
<1>1. b - a \in Nat /\ (b - a) * w \in Nat
  BY ProductType
<1>2. b * w = a * w + (b - a) * w
  OBVIOUS
<1> QED BY <1>1, <1>2, ProductType

(* One more than a number on the left is one side more in the product.     *)
LEMMA ProductNext ==
  ASSUME NEW a \in Nat, NEW b \in Nat, NEW w \in Nat, a < b
  PROVE  a * w + w <= b * w
<1>1. (a + 1) * w <= b * w
  BY ProductGrows
<1>2. (a + 1) * w = a * w + w
  OBVIOUS
<1> QED BY <1>1, <1>2

(* A number has one quotient and one remainder.                            *)
LEMMA OneQuotient ==
  ASSUME NEW w \in Nat \ {0}, NEW a \in Nat, NEW b \in Nat,
         NEW r \in 0 .. w - 1, NEW s \in 0 .. w - 1, a * w + r = b * w + s
  PROVE  a = b /\ r = s
<1>1. a * w \in Nat /\ b * w \in Nat
  BY ProductType
<1>2. ~(a < b)
  BY <1>1, ProductNext
<1>3. ~(b < a)
  BY <1>1, ProductNext
<1>4. a = b
  BY <1>2, <1>3
<1> QED BY <1>1, <1>4

LEMMA Quotient ==
  ASSUME NEW w \in Nat \ {0}, NEW x \in Nat
  PROVE  /\ x \div w \in Nat /\ x % w \in 0 .. w - 1
         /\ (x \div w) * w + (x % w) = x
<1>1. x \div w \in Int /\ x % w \in 0 .. w - 1 /\ x = w * (x \div w) + (x % w)
  OBVIOUS
<1>2. ASSUME x \div w < 0 PROVE FALSE
  <2>1. w * (x \div w) <= -w
    BY <1>1, <1>2
  <2> QED BY <1>1, <2>1
<1> QED BY <1>1, <1>2

(* A smaller number has no larger quotient.                                *)
LEMMA QuotientGrows ==
  ASSUME NEW w \in Nat \ {0}, NEW x \in Nat, NEW y \in Nat, x <= y
  PROVE  x \div w <= y \div w
<1> DEFINE q == x \div w  r == y \div w
<1>1. /\ q \in Nat /\ r \in Nat /\ x % w \in 0 .. w - 1 /\ y % w \in 0 .. w - 1
      /\ q * w + (x % w) = x /\ r * w + (y % w) = y /\ q * w \in Nat /\ r * w \in Nat
  BY Quotient, ProductType
<1>2. ASSUME r < q PROVE FALSE
  <2>1. r * w + w <= q * w
    BY <1>1, <1>2, ProductNext
  <2> QED BY <1>1, <2>1
<1> QED BY <1>1, <1>2

LEMMA WrapNot == ASSUME NEW x \in 0 .. Max32 PROVE Wrap(x) = x
BY MaxType DEF Wrap

-----------------------------------------------------------------------------
(* The axes of a launch that was accepted.                                 *)

Fits ==
  launch \in Launches /\ Verdict(launch.grid, launch.wg) = "Ok" /\ Unwrapped(launch)

GridAxes == 1 .. Len(launch.grid)
Origin(i) == launch.grid[i].lo
Size(i) == Extent(launch.grid)[i]
Side(i) == launch.wg[i]
Count(i) == (Size(i) - 1) \div Side(i) + 1

LEMMA GridType ==
  ASSUME launch \in Launches
  PROVE  /\ launch.grid \in Seq(Axes) /\ Len(launch.grid) \in 1 .. 3
         /\ DOMAIN launch.grid = GridAxes /\ DOMAIN launch.wg = GridAxes
         /\ launch.wg \in Seq(0 .. Max16) /\ GridAxes \subseteq 1 .. 3
<1>1. /\ launch.grid \in Seq(Axes) /\ Len(launch.grid) \in 1 .. 3
      /\ DOMAIN launch.wg = DOMAIN launch.grid /\ launch.wg \in Seq(0 .. Max16)
  BY WorkgroupAssumption
<1>2. DOMAIN launch.grid = GridAxes
  BY <1>1 DEF GridAxes
<1>3. GridAxes \subseteq 1 .. 3
  <2>1. \A n \in 1 .. 3 : 1 .. n \subseteq 1 .. 3
    OBVIOUS
  <2> QED BY <1>1, <2>1 DEF GridAxes
<1> QED BY <1>1, <1>2, <1>3

LEMMA AxisType ==
  ASSUME launch \in Launches, NEW i \in GridAxes
  PROVE  /\ Origin(i) \in 0 .. Max32 /\ launch.grid[i].hi \in 0 .. Max32
         /\ launch.grid[i].incl \in BOOLEAN
         /\ Side(i) \in 0 .. Max16 /\ Size(i) \in Int
         /\ Size(i) = launch.grid[i].hi - Origin(i) + (IF launch.grid[i].incl THEN 1 ELSE 0)
<1>1. launch.grid[i] \in Axes /\ Side(i) \in 0 .. Max16
  <2>1. /\ launch.grid \in [1 .. Len(launch.grid) -> Axes]
        /\ launch.wg \in [1 .. Len(launch.wg) -> 0 .. Max16]
        /\ DOMAIN launch.wg = GridAxes
    BY GridType, LenProperties
  <2> QED BY <2>1 DEF GridAxes, Side
<1>2. /\ launch.grid[i].lo \in 0 .. Max32 /\ launch.grid[i].hi \in 0 .. Max32
      /\ launch.grid[i].incl \in BOOLEAN
  BY <1>1 DEF Axes
<1>3. Size(i) = launch.grid[i].hi - Origin(i) + (IF launch.grid[i].incl THEN 1 ELSE 0)
  BY GridType DEF Size, Extent, Origin
<1> QED BY <1>1, <1>2, <1>3, MaxType DEF Origin

(* What the call checks, and what follows for each axis.                   *)
LEMMA VerdictIs ==
  ASSUME launch \in Launches, Verdict(launch.grid, launch.wg) = "Ok"
  PROVE  /\ \A i \in GridAxes :
              /\ ~Underflows(launch.grid[i]) /\ ~Overflows(launch.grid[i])
              /\ Side(i) # 0 /\ Size(i) # 0
         /\ ~(Product(launch.wg) > IsaInfo.wgLen)
<1> DEFINE w == Pad(launch.wg)
           n == Pad(Extent(launch.grid))
<1>1. /\ ~\E i \in DOMAIN launch.grid : Underflows(launch.grid[i]) \/ Overflows(launch.grid[i])
      /\ ~\E i \in 1 .. 3 : w[i] = 0 \/ n[i] = 0
      /\ ~(Product(w) > IsaInfo.wgLen)
  BY DEF Verdict, LenError
<1>2. Pad(w) = w
  BY DEF Pad
<1>3. Product(w) = Product(launch.wg)
  BY <1>2 DEF Product
<1>4. \A i \in GridAxes : w[i] = Side(i) /\ n[i] = Size(i)
  BY GridType DEF Pad, Side, Size, Extent
<1> QED BY <1>1, <1>3, <1>4, GridType

LEMMA AxisIs ==
  ASSUME Fits, NEW i \in GridAxes
  PROVE  /\ Origin(i) \in Nat /\ Size(i) \in Nat \ {0} /\ Side(i) \in Nat \ {0}
         /\ Count(i) \in Nat \ {0}
         /\ Size(i) <= Count(i) * Side(i) /\ Count(i) * Side(i) \in Nat
         /\ Origin(i) + Count(i) * Side(i) <= Max32 + 1
         /\ End(launch.grid)[i] = Origin(i) + Size(i)
         /\ RoundUp(Extent(launch.grid), launch.wg)[i] = Count(i) * Side(i)
<1>1. /\ launch \in Launches /\ Verdict(launch.grid, launch.wg) = "Ok" /\ Unwrapped(launch)
      /\ DOMAIN launch.grid = GridAxes
  BY GridType DEF Fits
<1>2. /\ Origin(i) \in 0 .. Max32 /\ launch.grid[i].hi \in 0 .. Max32
      /\ launch.grid[i].incl \in BOOLEAN
      /\ Side(i) \in 0 .. Max16 /\ Size(i) \in Int
      /\ Size(i) = launch.grid[i].hi - Origin(i) + (IF launch.grid[i].incl THEN 1 ELSE 0)
  BY <1>1, AxisType
<1>3. ~(launch.grid[i].hi < Origin(i)) /\ Side(i) # 0 /\ Size(i) # 0
  BY <1>1, VerdictIs DEF Underflows, Origin
<1>4. Origin(i) \in Nat /\ Size(i) \in Nat \ {0} /\ Side(i) \in Nat \ {0}
  BY <1>2, <1>3, MaxType
<1>5. Count(i) \in Nat \ {0} /\ Size(i) <= Count(i) * Side(i) /\ Count(i) * Side(i) \in Nat
  <2> DEFINE q == (Size(i) - 1) \div Side(i)
             r == (Size(i) - 1) % Side(i)
  <2>1. q \in Nat /\ r \in 0 .. Side(i) - 1 /\ q * Side(i) + r = Size(i) - 1
    <3>1. Size(i) - 1 \in Nat
      BY <1>4
    <3> QED BY <1>4, <3>1, Quotient
  <2>2. (q + 1) * Side(i) = q * Side(i) + Side(i) /\ q * Side(i) \in Nat
    BY <1>4, <2>1, ProductType
  <2>3. Count(i) = q + 1
    BY DEF Count
  <2> HIDE DEF q, r
  <2> QED BY <1>4, <2>1, <2>2, <2>3
<1>6. RoundUp(Extent(launch.grid), launch.wg)[i] = Count(i) * Side(i)
  BY <1>1 DEF RoundUp, Extent, Count, Size, Side
<1>7. Origin(i) + Count(i) * Side(i) <= Max32 + 1
  BY <1>1, <1>6 DEF Unwrapped, Origin
<1>8. End(launch.grid)[i] = Origin(i) + Size(i)
  <2>1. launch.grid[i].incl => launch.grid[i].hi < Max32
    BY <1>1 DEF Unwrapped
  <2>2. End(launch.grid)[i] = IF launch.grid[i].incl /\ launch.grid[i].hi < Max32
                              THEN launch.grid[i].hi + 1 ELSE launch.grid[i].hi
    BY <1>1 DEF End
  <2> QED BY <1>2, <2>1, <2>2, MaxType
<1> QED BY <1>4, <1>5, <1>6, <1>7, <1>8

(* A sequence of as many numbers as there are axes.                        *)
LEMMA PointType ==
  ASSUME launch \in Launches, NEW p, p = [i \in GridAxes |-> p[i]], \A i \in GridAxes : p[i] \in Nat
  PROVE  p \in Seq(Nat) /\ Len(p) = Len(launch.grid) /\ DOMAIN p = GridAxes
<1>1. Len(launch.grid) \in Nat
  BY GridType
<1> QED BY <1>1 DEF GridAxes

LEMMA GroupsAre ==
  ASSUME Fits, NEW a
  PROVE  a \in Groups(launch) <=> /\ a \in Seq(Nat) /\ Len(a) = Len(launch.grid)
                                  /\ \A i \in GridAxes : a[i] \in 0 .. Count(i) - 1
<1> DEFINE r == RoundUp(Extent(launch.grid), launch.wg)
           n == [i \in DOMAIN r |-> r[i] \div launch.wg[i]]
<1>1. launch \in Launches /\ DOMAIN launch.grid = GridAxes /\ Len(launch.grid) \in 1 .. 3
  BY GridType DEF Fits
<1>2. DOMAIN r = GridAxes
  BY <1>1 DEF RoundUp, Extent
<1>3. \A i \in GridAxes : n[i] = Count(i) /\ n[i] \in Nat
  <2> SUFFICES ASSUME NEW i \in GridAxes
               PROVE  n[i] = Count(i) /\ n[i] \in Nat
    OBVIOUS
  <2>1. /\ Count(i) \in Nat /\ Side(i) \in Nat \ {0} /\ Count(i) * Side(i) \in Nat
        /\ r[i] = Count(i) * Side(i)
    BY AxisIs
  <2>2. (Count(i) * Side(i)) \div Side(i) = Count(i)
    <3> DEFINE x == Count(i) * Side(i)
    <3>1. x \div Side(i) \in Nat /\ x % Side(i) \in 0 .. Side(i) - 1
          /\ (x \div Side(i)) * Side(i) + (x % Side(i)) = x
      BY <2>1, Quotient
    <3>2. 0 \in 0 .. Side(i) - 1 /\ Count(i) * Side(i) + 0 = x
      BY <2>1
    <3> HIDE DEF x
    <3>3. (x \div Side(i)) * Side(i) + (x % Side(i)) = Count(i) * Side(i) + 0
      BY <3>1, <3>2
    <3>4. x \div Side(i) = Count(i)
      BY <2>1, <3>1, <3>2, <3>3, OneQuotient
    <3> QED BY <3>4 DEF x
  <2> QED BY <1>2, <2>1, <2>2 DEF Side
<1>4. n = [i \in GridAxes |-> n[i]]
  BY <1>2
<1>5. Groups(launch) = Box(n)
  BY DEF Groups
<1> HIDE DEF n
<1>6. n \in Seq(Nat) /\ Len(n) = Len(launch.grid)
  BY <1>1, <1>3, <1>4, PointType
<1>7. n \in Seq(Int)
  <2>1. Nat \subseteq Int
    OBVIOUS
  <2> QED BY <1>6, <2>1, SeqMonotonic
<1>8. a \in Box(n) <=> /\ a \in Seq(Nat) /\ Len(a) = Len(n)
                       /\ \A i \in 1 .. Len(n) : a[i] \in 0 .. n[i] - 1
  BY <1>1, <1>6, <1>7, BoxIs
<1> QED BY <1>3, <1>5, <1>6, <1>8 DEF GridAxes

LEMMA ItemsAre ==
  ASSUME launch \in Launches, NEW b
  PROVE  b \in Workitems(launch) <=> /\ b \in Seq(Nat) /\ Len(b) = Len(launch.grid)
                                     /\ \A i \in GridAxes : b[i] \in 0 .. Side(i) - 1
<1>1. launch.wg \in Seq(Int) /\ Len(launch.wg) \in 1 .. 3 /\ Len(launch.wg) = Len(launch.grid)
  BY WgType
<1> QED BY <1>1, BoxIs DEF Workitems, Side, GridAxes

(* The place of an item on an axis, from the start of the grid.            *)
Place(a, b, i) == a[i] * Side(i) + b[i]

LEMMA PlaceIs ==
  ASSUME Fits, NEW a \in Groups(launch), NEW b \in Workitems(launch), NEW i \in GridAxes
  PROVE  /\ a[i] \in Nat /\ b[i] \in 0 .. Side(i) - 1 /\ a[i] * Side(i) \in Nat
         /\ Side(i) \in Nat \ {0} /\ Origin(i) \in Nat
         /\ Place(a, b, i) \in 0 .. Count(i) * Side(i) - 1
         /\ Place(a, b, i) + Origin(i) \in 0 .. Max32
<1>1. /\ a[i] \in 0 .. Count(i) - 1 /\ b[i] \in 0 .. Side(i) - 1
  BY GroupsAre, ItemsAre DEF Fits
<1>2. /\ Side(i) \in Nat \ {0} /\ Count(i) \in Nat \ {0} /\ Origin(i) \in Nat
      /\ Count(i) * Side(i) \in Nat /\ Origin(i) + Count(i) * Side(i) <= Max32 + 1
  BY AxisIs
<1>3. a[i] \in Nat /\ a[i] < Count(i)
  BY <1>1, <1>2
<1>4. a[i] * Side(i) \in Nat
  BY <1>2, <1>3, ProductType
<1>5. a[i] * Side(i) + Side(i) <= Count(i) * Side(i)
  BY <1>2, <1>3, ProductNext
<1>6. Place(a, b, i) \in 0 .. Count(i) * Side(i) - 1
  BY <1>1, <1>2, <1>4, <1>5 DEF Place
<1> QED BY <1>1, <1>2, <1>3, <1>4, <1>6, MaxType

(* Nothing wraps in the ids of an accepted launch.                         *)
LEMMA GridIdIs ==
  ASSUME Fits, NEW a \in Groups(launch), NEW b \in Workitems(launch)
  PROVE  /\ GridId(launch.grid, launch.wg, a, b) = [i \in GridAxes |-> Place(a, b, i) + Origin(i)]
         /\ Runs(launch, a, b) <=> \A i \in GridAxes : Place(a, b, i) < Size(i)
<1>1. /\ launch \in Launches /\ DOMAIN launch.grid = GridAxes /\ DOMAIN launch.wg = GridAxes
  BY GridType DEF Fits
<1>2. DOMAIN a = GridAxes /\ DOMAIN b = GridAxes
  BY <1>1, GroupsAre, ItemsAre DEF GridAxes
<1>3. WorkgroupIdx(launch.wg, a) = [i \in GridAxes |-> a[i] * Side(i)]
  <2>1. \A i \in GridAxes : Wrap(a[i] * Side(i)) = a[i] * Side(i)
    <3> SUFFICES ASSUME NEW i \in GridAxes PROVE Wrap(a[i] * Side(i)) = a[i] * Side(i)
      OBVIOUS
    <3>1. a[i] * Side(i) \in 0 .. Max32
      BY PlaceIs, MaxType DEF Place
    <3> QED BY <3>1, WrapNot
  <2> QED BY <1>2, <2>1 DEF WorkgroupIdx, Mul, Side
<1>4. Add(WorkgroupIdx(launch.wg, a), b) = [i \in GridAxes |-> Place(a, b, i)]
  <2>1. \A i \in GridAxes : Wrap(a[i] * Side(i) + b[i]) = a[i] * Side(i) + b[i]
    <3> SUFFICES ASSUME NEW i \in GridAxes
                 PROVE  Wrap(a[i] * Side(i) + b[i]) = a[i] * Side(i) + b[i]
      OBVIOUS
    <3>1. a[i] * Side(i) + b[i] \in 0 .. Max32
      BY PlaceIs, MaxType DEF Place
    <3> QED BY <3>1, WrapNot
  <2> QED BY <1>2, <1>3, <2>1 DEF Add, Place
<1>5. GridId(launch.grid, launch.wg, a, b) = [i \in GridAxes |-> Place(a, b, i) + Origin(i)]
  <2>1. \A i \in GridAxes : Wrap(Place(a, b, i) + Origin(i)) = Place(a, b, i) + Origin(i)
    BY PlaceIs, WrapNot
  <2> QED BY <1>1, <1>4, <2>1 DEF GridId, Add, Start, Origin
<1>6. \A i \in GridAxes :
        (GridId(launch.grid, launch.wg, a, b)[i] >= End(launch.grid)[i]) <=>
          ~(Place(a, b, i) < Size(i))
  BY <1>5, AxisIs, PlaceIs
<1>7. Runs(launch, a, b) <=> \A i \in GridAxes : Place(a, b, i) < Size(i)
  BY <1>1, <1>6 DEF Runs, GridOob
<1> QED BY <1>5, <1>7

(* Items at the same places are the same item of the same group.           *)
LEMMA PlacesApart ==
  ASSUME Fits, NEW a \in Groups(launch), NEW b \in Workitems(launch),
         NEW c \in Groups(launch), NEW d \in Workitems(launch),
         \A i \in GridAxes : Place(a, b, i) = Place(c, d, i)
  PROVE  a = c /\ b = d
<1>1. launch \in Launches
  BY DEF Fits
<1>2. /\ a \in Seq(Nat) /\ b \in Seq(Nat) /\ c \in Seq(Nat) /\ d \in Seq(Nat)
      /\ Len(a) = Len(launch.grid) /\ Len(b) = Len(launch.grid)
      /\ Len(c) = Len(launch.grid) /\ Len(d) = Len(launch.grid)
  BY <1>1, GroupsAre, ItemsAre
<1>3. ASSUME NEW i \in GridAxes PROVE a[i] = c[i] /\ b[i] = d[i]
  <2>1. /\ Side(i) \in Nat \ {0} /\ a[i] \in Nat /\ c[i] \in Nat
        /\ b[i] \in 0 .. Side(i) - 1 /\ d[i] \in 0 .. Side(i) - 1
    BY PlaceIs
  <2>2. a[i] * Side(i) + b[i] = c[i] * Side(i) + d[i]
    BY DEF Place
  <2> QED BY <2>1, <2>2, OneQuotient
<1>4. a = c
  BY <1>2, <1>3, SeqEqual DEF GridAxes
<1>5. b = d
  BY <1>2, <1>3, SeqEqual DEF GridAxes
<1> QED BY <1>4, <1>5

LEMMA PointsAre ==
  ASSUME Fits, NEW p
  PROVE  p \in Points(launch) <=>
           /\ p \in Seq(Nat) /\ Len(p) = Len(launch.grid)
           /\ \A i \in GridAxes : Origin(i) <= p[i] /\ p[i] < Origin(i) + Size(i)
<1> DEFINE n == [i \in DOMAIN launch.grid |-> launch.grid[i].hi + 1]
<1>1. launch \in Launches /\ DOMAIN launch.grid = GridAxes /\ Len(launch.grid) \in 1 .. 3
  BY GridType DEF Fits
<1>2. n = [i \in GridAxes |-> n[i]] /\ \A i \in GridAxes : n[i] = launch.grid[i].hi + 1
  BY <1>1
<1>3. \A i \in GridAxes : n[i] \in Nat
  BY <1>1, <1>2, AxisType, MaxType
<1>4. Points(launch) =
        {q \in Box(n) : \A i \in DOMAIN q :
           /\ q[i] >= launch.grid[i].lo
           /\ q[i] < launch.grid[i].hi \/ (launch.grid[i].incl /\ q[i] = launch.grid[i].hi)}
  BY DEF Points
<1> HIDE DEF n
<1>5. n \in Seq(Nat) /\ Len(n) = Len(launch.grid)
  BY <1>1, <1>2, <1>3, PointType
<1>6. n \in Seq(Int)
  <2>1. Nat \subseteq Int
    OBVIOUS
  <2> QED BY <1>5, <2>1, SeqMonotonic
<1>7. p \in Box(n) <=> /\ p \in Seq(Nat) /\ Len(p) = Len(launch.grid)
                       /\ \A i \in GridAxes : p[i] \in 0 .. n[i] - 1
  BY <1>1, <1>5, <1>6, BoxIs DEF GridAxes
<1>8. ASSUME NEW i \in GridAxes, p[i] \in Nat
      PROVE  (/\ p[i] \in 0 .. n[i] - 1 /\ p[i] >= launch.grid[i].lo
              /\ p[i] < launch.grid[i].hi \/ (launch.grid[i].incl /\ p[i] = launch.grid[i].hi))
             <=> Origin(i) <= p[i] /\ p[i] < Origin(i) + Size(i)
  BY <1>1, <1>2, <1>8, AxisType DEF Origin
<1>9. p \in Seq(Nat) /\ Len(p) = Len(launch.grid) =>
        DOMAIN p = GridAxes /\ \A i \in GridAxes : p[i] \in Nat
  <2> SUFFICES ASSUME p \in Seq(Nat), Len(p) = Len(launch.grid)
               PROVE  DOMAIN p = GridAxes /\ \A i \in GridAxes : p[i] \in Nat
    OBVIOUS
  <2>1. p \in [1 .. Len(p) -> Nat]
    BY LenProperties
  <2> QED BY <2>1 DEF GridAxes
<1>10. p \in Points(launch) <=>
         /\ p \in Box(n)
         /\ \A i \in DOMAIN p :
              /\ p[i] >= launch.grid[i].lo
              /\ p[i] < launch.grid[i].hi \/ (launch.grid[i].incl /\ p[i] = launch.grid[i].hi)
  BY <1>4
<1> QED BY <1>7, <1>8, <1>9, <1>10

(* The group and the item at a point.                                      *)
LEMMA PointReached ==
  ASSUME Fits, NEW p \in Points(launch)
  PROVE  \E a \in Groups(launch), b \in Workitems(launch) :
           /\ Runs(launch, a, b) /\ GridId(launch.grid, launch.wg, a, b) = p
<1> DEFINE x(i) == p[i] - Origin(i)
           a == [i \in GridAxes |-> x(i) \div Side(i)]
           b == [i \in GridAxes |-> x(i) % Side(i)]
<1>1. launch \in Launches
  BY DEF Fits
<1>2. /\ p \in Seq(Nat) /\ Len(p) = Len(launch.grid) /\ DOMAIN p = GridAxes
      /\ \A i \in GridAxes : Origin(i) <= p[i] /\ p[i] < Origin(i) + Size(i)
  BY PointsAre DEF GridAxes
<1>3. ASSUME NEW i \in GridAxes
      PROVE  /\ a[i] \in 0 .. Count(i) - 1 /\ b[i] \in 0 .. Side(i) - 1
             /\ Place(a, b, i) = x(i) /\ x(i) < Size(i) /\ x(i) + Origin(i) = p[i]
  <2>1. /\ Origin(i) \in Nat /\ Size(i) \in Nat \ {0} /\ Side(i) \in Nat \ {0}
        /\ Size(i) - 1 \in Nat
    BY AxisIs
  <2>2. p[i] \in Nat
    <3>1. p \in [1 .. Len(p) -> Nat]
      BY <1>2, LenProperties
    <3> QED BY <1>2, <3>1 DEF GridAxes
  <2>3. x(i) \in Nat /\ x(i) <= Size(i) - 1 /\ x(i) + Origin(i) = p[i]
    BY <1>2, <2>1, <2>2
  <2>4. /\ a[i] = x(i) \div Side(i) /\ b[i] = x(i) % Side(i)
    OBVIOUS
  <2> HIDE DEF x, a, b
  <2>5. /\ a[i] \in Nat /\ b[i] \in 0 .. Side(i) - 1
        /\ a[i] * Side(i) + b[i] = x(i)
    BY <2>1, <2>3, <2>4, Quotient
  <2>6. a[i] <= (Size(i) - 1) \div Side(i) /\ (Size(i) - 1) \div Side(i) \in Nat
    <3>1. x(i) \div Side(i) <= (Size(i) - 1) \div Side(i)
      BY <2>1, <2>3, QuotientGrows
    <3>2. (Size(i) - 1) \div Side(i) \in Nat
      BY <2>1, Quotient
    <3> QED BY <2>4, <3>1, <3>2
  <2>7. a[i] \in 0 .. Count(i) - 1
    BY <2>5, <2>6 DEF Count
  <2> QED BY <2>1, <2>3, <2>5, <2>7 DEF Place
<1>4. a = [i \in GridAxes |-> a[i]] /\ b = [i \in GridAxes |-> b[i]]
  OBVIOUS
<1> HIDE DEF x, a, b
<1>5. \A i \in GridAxes : a[i] \in Nat /\ b[i] \in Nat
  BY <1>3, AxisIs
<1>6. /\ a \in Seq(Nat) /\ Len(a) = Len(launch.grid)
      /\ b \in Seq(Nat) /\ Len(b) = Len(launch.grid)
  BY <1>1, <1>4, <1>5, PointType
<1>7. a \in Groups(launch) /\ b \in Workitems(launch)
  BY <1>1, <1>3, <1>6, GroupsAre, ItemsAre
<1>8. Runs(launch, a, b)
  BY <1>3, <1>7, GridIdIs
<1>9. GridId(launch.grid, launch.wg, a, b) = p
  <2>1. p = [i \in GridAxes |-> p[i]]
    BY <1>2
  <2>2. GridId(launch.grid, launch.wg, a, b) = [i \in GridAxes |-> Place(a, b, i) + Origin(i)]
    BY <1>7, GridIdIs
  <2> QED BY <1>3, <2>1, <2>2
<1> QED BY <1>7, <1>8, <1>9

(* What has been accepted is the launch that the check was about.          *)
AcceptInv == launch \in Launches /\ (phase = "Ok" => Verdict(launch.grid, launch.wg) = "Ok")

LEMMA Acceptance == Spec \/ SignalsSpec => []AcceptInv
<1>1. Init => AcceptInv
  BY DEF Init, AcceptInv
<1>2. ASSUME AcceptInv, [Next]_vars PROVE AcceptInv'
  BY <1>2 DEF AcceptInv, Next, vars, Call, RunGroup, Barrier, Enter, With, Return,
              InitSingleton, UncheckedInit, InitOwn, Deref, DropMut, DropWaits, DropAfter,
              OutOfScope, Unmoved
<1>3. AcceptInv /\ [SignalsNext]_<<vars, signalVars>> => AcceptInv'
  <2>1. ASSUME AcceptInv, Accepted PROVE AcceptInv'
    BY <2>1 DEF Accepted, AcceptInv
  <2> QED BY <1>2, <2>1, GroupStep
<1>4. SignalsInit => AcceptInv
  BY <1>1 DEF SignalsInit
<1> QED BY <1>1, <1>2, <1>3, <1>4, PTL DEF Spec, SignalsSpec

(* An accepted launch, of any size on any number of axes, runs one work    *)
(* item for each point of its range and no other, and each group that runs *)
(* at all runs its first item, which alone writes a singleton (grid_id,    *)
(* grid_oob, VectorParams::new_internal and the rounding of the launch).   *)
LEMMA PointsOnceStep == ASSUME AcceptInv PROVE PointsOnce
<1> SUFFICES ASSUME phase = "Ok", Unwrapped(launch)
             PROVE  LET run == Running(launch)
                        at  == [w \in run |-> GridId(launch.grid, launch.wg, w[1], w[2])]
                    IN  /\ IsInjective(at) /\ Range(at) = Points(launch)
                        /\ \A w \in run : Runs(launch, w[1], Item0)
  BY DEF PointsOnce
<1> DEFINE run == Running(launch)
           at  == [w \in run |-> GridId(launch.grid, launch.wg, w[1], w[2])]
<1>1. Fits
  BY DEF Fits, AcceptInv
<1>2. ASSUME NEW w \in run
      PROVE  /\ w[1] \in Groups(launch) /\ w[2] \in Workitems(launch) /\ w = <<w[1], w[2]>>
             /\ Runs(launch, w[1], w[2])
  BY DEF Running
<1>3. IsInjective(at)
  <2> SUFFICES ASSUME NEW v \in run, NEW w \in run, at[v] = at[w] PROVE v = w
    BY DEF IsInjective
  <2>1. /\ at[v] = [i \in GridAxes |-> Place(v[1], v[2], i) + Origin(i)]
        /\ at[w] = [i \in GridAxes |-> Place(w[1], w[2], i) + Origin(i)]
    BY <1>1, <1>2, GridIdIs
  <2>2. \A i \in GridAxes : Place(v[1], v[2], i) + Origin(i) = Place(w[1], w[2], i) + Origin(i)
    BY <2>1
  <2>3. \A i \in GridAxes : /\ Place(v[1], v[2], i) \in Int /\ Place(w[1], w[2], i) \in Int
                            /\ Origin(i) \in Int
    BY <1>1, <1>2, PlaceIs
  <2>4. \A i \in GridAxes : Place(v[1], v[2], i) = Place(w[1], w[2], i)
    <3> SUFFICES ASSUME NEW i \in GridAxes PROVE Place(v[1], v[2], i) = Place(w[1], w[2], i)
      OBVIOUS
    <3>1. Place(v[1], v[2], i) + Origin(i) = Place(w[1], w[2], i) + Origin(i)
      BY <2>2
    <3>2. /\ Place(v[1], v[2], i) \in Int /\ Place(w[1], w[2], i) \in Int
          /\ Origin(i) \in Int
      BY <2>3
    <3>3. \A x, y, z \in Int : x + z = y + z => x = y
      OBVIOUS
    <3> QED BY <3>1, <3>2, <3>3
  <2>5. v[1] = w[1] /\ v[2] = w[2]
    BY <1>1, <1>2, <2>4, PlacesApart
  <2> QED BY <1>2, <2>5
<1>4. ASSUME NEW w \in run PROVE at[w] \in Points(launch)
  <2>1. at[w] = [i \in GridAxes |-> Place(w[1], w[2], i) + Origin(i)]
    BY <1>1, <1>2, GridIdIs
  <2>2. \A i \in GridAxes : /\ at[w][i] \in Nat
                            /\ Origin(i) <= at[w][i] /\ at[w][i] < Origin(i) + Size(i)
    <3> SUFFICES ASSUME NEW i \in GridAxes
                 PROVE  /\ at[w][i] \in Nat
                        /\ Origin(i) <= at[w][i] /\ at[w][i] < Origin(i) + Size(i)
      OBVIOUS
    <3>1. at[w][i] = Place(w[1], w[2], i) + Origin(i)
      BY <2>1
    <3>2. /\ Origin(i) \in Nat /\ Size(i) \in Nat /\ Place(w[1], w[2], i) \in Nat
          /\ Place(w[1], w[2], i) < Size(i)
      <4>1. Place(w[1], w[2], i) \in 0 .. Count(i) * Side(i) - 1 /\ Count(i) * Side(i) \in Nat
        BY <1>1, <1>2, AxisIs, PlaceIs
      <4>2. Origin(i) \in Nat /\ Size(i) \in Nat
        BY <1>1, AxisIs
      <4>3. Place(w[1], w[2], i) < Size(i)
        BY <1>1, <1>2, GridIdIs
      <4>4. Place(w[1], w[2], i) \in Nat
        BY <4>1
      <4> QED BY <4>2, <4>3, <4>4
    <3> HIDE DEF at
    <3> QED BY <3>1, <3>2
  <2> HIDE DEF at
  <2>3. at[w] = [i \in GridAxes |-> at[w][i]]
    BY <2>1
  <2>4. at[w] \in Seq(Nat) /\ Len(at[w]) = Len(launch.grid)
    BY <1>1, <2>2, <2>3, PointType DEF Fits
  <2> QED BY <1>1, <2>2, <2>4, PointsAre
<1>5. ASSUME NEW p \in Points(launch) PROVE \E w \in run : at[w] = p
  <2>1. PICK a \in Groups(launch), b \in Workitems(launch) :
          Runs(launch, a, b) /\ GridId(launch.grid, launch.wg, a, b) = p
    BY <1>1, PointReached
  <2>2. <<a, b>> \in run /\ at[<<a, b>>] = p
    BY <2>1 DEF Running
  <2> QED BY <2>2
<1>6. Range(at) = Points(launch)
  BY <1>4, <1>5 DEF Range
<1>7. ASSUME NEW w \in run PROVE Runs(launch, w[1], Item0)
  <2>1. Item0 \in Workitems(launch) /\ \A i \in GridAxes : Item0[i] = 0
    <3>1. Item0 = [i \in GridAxes |-> 0]
      BY <1>1, GridType DEF Item0, Fits
    <3>2. \A i \in GridAxes : Item0[i] \in Nat /\ Item0[i] \in 0 .. Side(i) - 1
      BY <1>1, <3>1, AxisIs
    <3>3. Item0 = [i \in GridAxes |-> Item0[i]]
      BY <3>1
    <3>4. Item0 \in Seq(Nat) /\ Len(Item0) = Len(launch.grid)
      BY <1>1, <3>2, <3>3, PointType DEF Fits
    <3> QED BY <1>1, <3>1, <3>2, <3>4, ItemsAre DEF Fits
  <2>2. \A i \in GridAxes : Place(w[1], Item0, i) < Size(i)
    <3> SUFFICES ASSUME NEW i \in GridAxes PROVE Place(w[1], Item0, i) < Size(i)
      OBVIOUS
    <3>1. Place(w[1], w[2], i) < Size(i)
      BY <1>1, <1>2, GridIdIs
    <3>2. /\ w[1][i] * Side(i) \in Nat /\ w[2][i] \in 0 .. Side(i) - 1
          /\ Side(i) \in Nat /\ Size(i) \in Nat
      BY <1>1, <1>2, PlaceIs, AxisIs
    <3> QED BY <2>1, <3>1, <3>2 DEF Place
  <2> QED BY <1>1, <1>2, <2>1, <2>2, GridIdIs
<1> QED BY <1>3, <1>6, <1>7

THEOREM EveryPointOnce == Spec \/ SignalsSpec => []PointsOnce
BY Acceptance, PointsOnceStep, PTL

-----------------------------------------------------------------------------
(* The numbers of the points of a box.                                     *)

LEMMA Below ==
  ASSUME NEW m \in Nat, NEW n \in Nat, NEW a \in 0 .. m - 1, NEW b \in 0 .. n - 1
  PROVE  a * n + b \in 0 .. m * n - 1
<1>1. a * n \in Nat /\ m * n \in Nat
  BY ProductType
<1>2. a * n + n <= m * n
  BY ProductNext
<1> QED BY <1>1, <1>2

(* The axes of a grid, as a set.                                           *)
AxisSets == {1 .. 1, 1 .. 2, 1 .. 3}

LEMMA ProductIs ==
  ASSUME NEW n, DOMAIN n \in AxisSets, \A i \in DOMAIN n : n[i] \in Nat
  PROVE  Product(n) \in Nat
<1> DEFINE p == Pad(n)
<1>1. p[1] \in Nat /\ p[2] \in Nat /\ p[3] \in Nat
  BY DEF Pad
<1>2. Product(n) = p[1] * p[2] * p[3]
  BY DEF Product
<1> HIDE DEF p
<1>3. p[1] * p[2] \in Nat
  BY <1>1, ProductType
<1> QED BY <1>1, <1>2, <1>3, ProductType

(* What the number of a point comes to, on one to three axes.              *)
LEMMA LinearIs ==
  ASSUME NEW p, NEW n, DOMAIN p = DOMAIN n, DOMAIN n \in AxisSets,
         \A i \in DOMAIN n : n[i] \in Nat /\ p[i] \in 0 .. n[i] - 1
  PROVE  /\ DOMAIN n = 1 .. 1 => Linear(p, n) = p[1] /\ Product(n) = n[1]
         /\ DOMAIN n = 1 .. 2 => Linear(p, n) = p[2] * n[1] + p[1] /\ Product(n) = n[2] * n[1]
         /\ DOMAIN n = 1 .. 3 => Linear(p, n) = (p[3] * n[2] + p[2]) * n[1] + p[1]
                                 /\ Product(n) = (n[3] * n[2]) * n[1]
<1>1. CASE DOMAIN n = 1 .. 1
  <2>1. n[1] \in Nat /\ p[1] \in Nat
    BY <1>1
  <2>2. Linear(p, n) = (0 * 0 + 0) * n[1] + p[1]
    BY <1>1 DEF Linear
  <2>3. Product(n) = n[1] * 1 * 1
    BY <1>1 DEF Product, Pad
  <2>4. 2 \in 1 .. 2 /\ 2 \in 1 .. 3 /\ 2 \notin 1 .. 1
    OBVIOUS
  <2> QED BY <1>1, <2>1, <2>2, <2>3, <2>4
<1>2. CASE DOMAIN n = 1 .. 2
  <2>1. n[1] \in Nat /\ p[1] \in Nat /\ n[2] \in Nat /\ p[2] \in Nat
    BY <1>2
  <2>2. Linear(p, n) = (0 * n[2] + p[2]) * n[1] + p[1]
    BY <1>2 DEF Linear
  <2>3. Product(n) = n[1] * n[2] * 1
    BY <1>2 DEF Product, Pad
  <2>4. 0 * n[2] + p[2] = p[2] /\ n[1] * n[2] * 1 = n[2] * n[1]
    BY <2>1
  <2>5. 2 \notin 1 .. 1 /\ 2 \in 1 .. 2 /\ 3 \in 1 .. 3 /\ 3 \notin 1 .. 2
    OBVIOUS
  <2> QED BY <1>2, <2>2, <2>3, <2>4, <2>5
<1>3. CASE DOMAIN n = 1 .. 3
  <2>1. n[1] \in Nat /\ n[2] \in Nat /\ n[3] \in Nat
    BY <1>3
  <2>2. Linear(p, n) = (p[3] * n[2] + p[2]) * n[1] + p[1]
    BY <1>3 DEF Linear
  <2>3. Product(n) = n[1] * n[2] * n[3]
    BY <1>3 DEF Product, Pad
  <2>4. n[1] * n[2] * n[3] = (n[3] * n[2]) * n[1]
    BY <2>1
  <2>5. 3 \in 1 .. 3 /\ 3 \notin 1 .. 1 /\ 3 \notin 1 .. 2
    OBVIOUS
  <2> QED BY <1>3, <2>2, <2>3, <2>4, <2>5
<1> QED BY <1>1, <1>2, <1>3 DEF AxisSets

(* Each point of a box has a number of its own, below their number.        *)
LEMMA LinearBelow ==
  ASSUME NEW p, NEW n, DOMAIN p = DOMAIN n, DOMAIN n \in AxisSets,
         \A i \in DOMAIN n : n[i] \in Nat /\ p[i] \in 0 .. n[i] - 1
  PROVE  Linear(p, n) \in 0 .. Product(n) - 1
<1>1. CASE DOMAIN n = 1 .. 1
  <2>1. Linear(p, n) = p[1] /\ Product(n) = n[1]
    BY <1>1, LinearIs
  <2> QED BY <1>1, <2>1
<1>2. CASE DOMAIN n = 1 .. 2
  <2>1. n[1] \in Nat /\ p[1] \in 0 .. n[1] - 1 /\ n[2] \in Nat /\ p[2] \in 0 .. n[2] - 1
    BY <1>2
  <2>2. Linear(p, n) = p[2] * n[1] + p[1] /\ Product(n) = n[2] * n[1]
    BY <1>2, LinearIs
  <2> QED BY <2>1, <2>2, Below
<1>3. CASE DOMAIN n = 1 .. 3
  <2>1. /\ n[1] \in Nat /\ p[1] \in 0 .. n[1] - 1 /\ n[2] \in Nat /\ p[2] \in 0 .. n[2] - 1
        /\ n[3] \in Nat /\ p[3] \in 0 .. n[3] - 1
    BY <1>3
  <2>2. p[3] * n[2] + p[2] \in 0 .. n[3] * n[2] - 1 /\ n[3] * n[2] \in Nat
    BY <2>1, Below, ProductType
  <2>3. (p[3] * n[2] + p[2]) * n[1] + p[1] \in 0 .. (n[3] * n[2]) * n[1] - 1
    BY <2>1, <2>2, Below
  <2>4. Linear(p, n) = (p[3] * n[2] + p[2]) * n[1] + p[1] /\ Product(n) = (n[3] * n[2]) * n[1]
    BY <1>3, LinearIs
  <2> QED BY <2>3, <2>4
<1> QED BY <1>1, <1>2, <1>3 DEF AxisSets

LEMMA LinearApart ==
  ASSUME NEW p, NEW q, NEW n, DOMAIN p = DOMAIN n, DOMAIN q = DOMAIN n, DOMAIN n \in AxisSets,
         \A i \in DOMAIN n : n[i] \in Nat /\ p[i] \in 0 .. n[i] - 1,
         \A i \in DOMAIN n : n[i] \in Nat /\ q[i] \in 0 .. n[i] - 1,
         Linear(p, n) = Linear(q, n)
  PROVE  \A i \in DOMAIN n : p[i] = q[i]
<1>1. CASE DOMAIN n = 1 .. 1
  <2>1. Linear(p, n) = p[1] /\ Linear(q, n) = q[1]
    BY <1>1, LinearIs
  <2>2. \A i \in 1 .. 1 : i = 1
    OBVIOUS
  <2> QED BY <1>1, <2>1, <2>2
<1>2. CASE DOMAIN n = 1 .. 2
  <2>1. /\ n[1] \in Nat \ {0} /\ p[1] \in 0 .. n[1] - 1 /\ q[1] \in 0 .. n[1] - 1
        /\ p[2] \in Nat /\ q[2] \in Nat
    BY <1>2
  <2>2. Linear(p, n) = p[2] * n[1] + p[1] /\ Linear(q, n) = q[2] * n[1] + q[1]
    BY <1>2, LinearIs
  <2>3. p[2] * n[1] + p[1] = q[2] * n[1] + q[1]
    BY <2>2
  <2>4. p[2] = q[2]
    BY ONLY <2>1, <2>3, OneQuotient
  <2>5. p[1] = q[1]
    BY ONLY <2>1, <2>3, <2>4, ProductType
  <2> QED BY <1>2, <2>4, <2>5
<1>3. CASE DOMAIN n = 1 .. 3
  <2> DEFINE x == p[3] * n[2] + p[2]
             y == q[3] * n[2] + q[2]
  <2>1. /\ n[1] \in Nat \ {0} /\ p[1] \in 0 .. n[1] - 1 /\ q[1] \in 0 .. n[1] - 1
        /\ n[2] \in Nat \ {0} /\ p[2] \in 0 .. n[2] - 1 /\ q[2] \in 0 .. n[2] - 1
        /\ p[3] \in Nat /\ q[3] \in Nat
    BY <1>3
  <2>2. Linear(p, n) = x * n[1] + p[1] /\ Linear(q, n) = y * n[1] + q[1]
    BY <1>3, LinearIs
  <2>3. x \in Nat /\ y \in Nat
    <3>1. p[3] * n[2] \in Nat /\ q[3] * n[2] \in Nat
      BY ONLY <2>1, ProductType
    <3> QED BY ONLY <2>1, <3>1
  <2> HIDE DEF x, y
  <2>4. x * n[1] + p[1] = y * n[1] + q[1]
    BY <2>2
  <2>5. x = y /\ p[1] = q[1]
    BY ONLY <2>1, <2>3, <2>4, OneQuotient
  <2>6. p[3] * n[2] + p[2] = q[3] * n[2] + q[2]
    BY <2>5 DEF x, y
  <2>7. p[3] = q[3] /\ p[2] = q[2]
    BY ONLY <2>1, <2>6, OneQuotient
  <2> QED BY <1>3, <2>5, <2>7
<1> QED BY <1>1, <1>2, <1>3 DEF AxisSets

(* The end of an accepted launch, and the points below it.                 *)
LEMMA EndIs ==
  ASSUME Fits, NEW a \in Groups(launch), NEW b \in Workitems(launch), Runs(launch, a, b)
  PROVE  /\ DOMAIN End(launch.grid) = GridAxes
         /\ DOMAIN GridId(launch.grid, launch.wg, a, b) = GridAxes
         /\ \A i \in GridAxes :
              /\ End(launch.grid)[i] \in Nat
              /\ GridId(launch.grid, launch.wg, a, b)[i] \in 0 .. End(launch.grid)[i] - 1
<1>1. DOMAIN launch.grid = GridAxes
  BY GridType DEF Fits
<1>2. GridId(launch.grid, launch.wg, a, b) = [i \in GridAxes |-> Place(a, b, i) + Origin(i)]
  BY GridIdIs
<1>3. ASSUME NEW i \in GridAxes
      PROVE  /\ End(launch.grid)[i] \in Nat
             /\ Place(a, b, i) + Origin(i) \in 0 .. End(launch.grid)[i] - 1
  <2>1. Origin(i) \in Nat /\ Size(i) \in Nat /\ End(launch.grid)[i] = Origin(i) + Size(i)
    BY AxisIs
  <2>2. Place(a, b, i) \in 0 .. Count(i) * Side(i) - 1 /\ Count(i) * Side(i) \in Nat
    BY PlaceIs, AxisIs
  <2>3. Place(a, b, i) \in Nat
    BY <2>2
  <2>4. Place(a, b, i) < Size(i)
    BY GridIdIs
  <2> QED BY <2>1, <2>3, <2>4
<1>4. DOMAIN End(launch.grid) = GridAxes
  BY <1>1 DEF End
<1> QED BY <1>2, <1>3, <1>4

LEMMA AxesAre == ASSUME launch \in Launches PROVE GridAxes \in AxisSets
<1>1. Len(launch.grid) \in 1 .. 3
  BY GridType
<1>2. \A d \in 1 .. 3 : d = 1 \/ d = 2 \/ d = 3
  OBVIOUS
<1> QED BY <1>1, <1>2 DEF GridAxes, AxisSets

(* The linear ids over the grid are distinct, as long as the box from zero *)
(* to the end can be counted.                                              *)
LEMMA GlobalIds ==
  ASSUME Fits, Product(End(launch.grid)) <= Max32 + 1,
         NEW a \in Groups(launch), NEW b \in Workitems(launch), Runs(launch, a, b),
         NEW c \in Groups(launch), NEW d \in Workitems(launch), Runs(launch, c, d),
         GlobalLinearId(launch.grid, launch.wg, a, b) =
           GlobalLinearId(launch.grid, launch.wg, c, d)
  PROVE  a = c /\ b = d
<1> DEFINE p == GridId(launch.grid, launch.wg, a, b)
           q == GridId(launch.grid, launch.wg, c, d)
           n == End(launch.grid)
<1>1. GridAxes \in AxisSets
  BY AxesAre DEF Fits
<1>2. /\ DOMAIN n = GridAxes /\ DOMAIN p = GridAxes /\ DOMAIN q = GridAxes
      /\ \A i \in GridAxes : n[i] \in Nat /\ p[i] \in 0 .. n[i] - 1
      /\ \A i \in GridAxes : n[i] \in Nat /\ q[i] \in 0 .. n[i] - 1
  BY EndIs
<1>3. Wrap(Linear(p, n)) = Wrap(Linear(q, n)) /\ Product(n) <= Max32 + 1
  BY DEF GlobalLinearId
<1>4. /\ p = [i \in GridAxes |-> Place(a, b, i) + Origin(i)]
      /\ q = [i \in GridAxes |-> Place(c, d, i) + Origin(i)]
  BY GridIdIs
<1> HIDE DEF p, q, n
<1>5. Linear(p, n) \in 0 .. Product(n) - 1 /\ Linear(q, n) \in 0 .. Product(n) - 1
  BY <1>1, <1>2, LinearBelow
<1>6. Product(n) \in Int
  BY <1>1, <1>2, ProductIs
<1>7. Linear(p, n) \in 0 .. Max32 /\ Linear(q, n) \in 0 .. Max32
  BY <1>3, <1>5, <1>6, MaxType
<1>8. Linear(p, n) = Linear(q, n)
  BY <1>3, <1>7, WrapNot
<1>9. \A i \in GridAxes : p[i] = q[i]
  BY <1>1, <1>2, <1>8, LinearApart
<1>10. \A i \in GridAxes : Place(a, b, i) = Place(c, d, i)
  <2> SUFFICES ASSUME NEW i \in GridAxes PROVE Place(a, b, i) = Place(c, d, i)
    OBVIOUS
  <2>1. Place(a, b, i) + Origin(i) = Place(c, d, i) + Origin(i)
    BY <1>4, <1>9
  <2>2. Place(a, b, i) \in Int /\ Place(c, d, i) \in Int /\ Origin(i) \in Int
    BY PlaceIs
  <2>3. \A x, y, z \in Int : x + z = y + z => x = y
    OBVIOUS
  <2> QED BY <2>1, <2>2, <2>3
<1> QED BY <1>10, PlacesApart

(* Those within a group are distinct when the device allows no group that  *)
(* has more items than the type of the id has numbers.                     *)
LEMMA LocalIds ==
  ASSUME Fits, IsaInfo.wgLen <= Max16 + 1,
         NEW b \in Workitems(launch), NEW d \in Workitems(launch),
         WorkitemLinearId(launch.wg, b) = WorkitemLinearId(launch.wg, d)
  PROVE  b = d
<1> DEFINE n == launch.wg
<1>1. GridAxes \in AxisSets /\ DOMAIN n = GridAxes
  BY AxesAre, GridType DEF Fits
<1>2. /\ b \in Seq(Nat) /\ d \in Seq(Nat)
      /\ Len(b) = Len(launch.grid) /\ Len(d) = Len(launch.grid)
      /\ \A i \in GridAxes : n[i] \in Nat /\ b[i] \in 0 .. n[i] - 1
      /\ \A i \in GridAxes : n[i] \in Nat /\ d[i] \in 0 .. n[i] - 1
  BY ItemsAre, AxisIs DEF Fits, Side
<1>3. ~(Product(n) > IsaInfo.wgLen) /\ IsaInfo.wgLen \in Nat
  BY VerdictIs, GridAssumption DEF Fits
<1>4. Linear(b, n) % (Max16 + 1) = Linear(d, n) % (Max16 + 1)
  BY DEF WorkitemLinearId
<1>5. DOMAIN b = GridAxes /\ DOMAIN d = GridAxes
  BY <1>2 DEF GridAxes
<1> HIDE DEF n
<1>6. Linear(b, n) \in 0 .. Product(n) - 1 /\ Linear(d, n) \in 0 .. Product(n) - 1
  BY <1>1, <1>2, <1>5, LinearBelow
<1>7. Product(n) \in Int
  BY <1>1, <1>2, ProductIs
<1>8. Linear(b, n) \in 0 .. Max16 /\ Linear(d, n) \in 0 .. Max16
  BY <1>3, <1>6, <1>7, MaxType
<1>9. Linear(b, n) = Linear(d, n)
  BY <1>4, <1>8, MaxType
<1>10. \A i \in GridAxes : b[i] = d[i]
  <2>1. DOMAIN n \in AxisSets /\ DOMAIN b = DOMAIN n /\ DOMAIN d = DOMAIN n
    BY <1>1, <1>5
  <2>2. \A i \in DOMAIN n : n[i] \in Nat /\ b[i] \in 0 .. n[i] - 1
    BY <1>1, <1>2
  <2>3. \A i \in DOMAIN n : n[i] \in Nat /\ d[i] \in 0 .. n[i] - 1
    BY <1>1, <1>2
  <2>4. \A i \in DOMAIN n : b[i] = d[i]
    BY ONLY <1>9, <2>1, <2>2, <2>3, LinearApart
  <2> QED BY <1>1, <2>4
<1> QED BY <1>2, <1>10, SeqEqual DEF GridAxes

(* A launch that looks the same from the other side.                       *)
Square == launch.grid = Transpose(launch.grid) /\ launch.wg = Transpose(launch.wg)
Other(i) == Len(launch.grid) - i + 1

LEMMA OtherIs ==
  ASSUME launch \in Launches, NEW i \in GridAxes
  PROVE  Other(i) \in GridAxes /\ Other(Other(i)) = i
<1>1. Len(launch.grid) \in Nat /\ i \in 1 .. Len(launch.grid)
  BY GridType DEF GridAxes
<1> QED BY <1>1 DEF Other, GridAxes

LEMMA SquareIs ==
  ASSUME Fits, Square, NEW i \in GridAxes
  PROVE  /\ Side(Other(i)) = Side(i) /\ Size(Other(i)) = Size(i) /\ Count(Other(i)) = Count(i)
<1>1. /\ launch \in Launches /\ DOMAIN launch.grid = GridAxes /\ DOMAIN launch.wg = GridAxes
      /\ Len(launch.wg) = Len(launch.grid) /\ Other(i) \in GridAxes
  BY GridType, WgType, OtherIs DEF Fits
<1>2. launch.grid[i] = launch.grid[Other(i)] /\ launch.wg[i] = launch.wg[Other(i)]
  BY <1>1 DEF Square, Transpose, Other
<1>3. Side(Other(i)) = Side(i) /\ Size(Other(i)) = Size(i)
  BY <1>1, <1>2 DEF Side, Size, Extent
<1> QED BY <1>3 DEF Count

(* The numbers of a point in the other order.                              *)
LEMMA TransposeIs ==
  ASSUME launch \in Launches, NEW a \in Seq(Nat), Len(a) = Len(launch.grid)
  PROVE  /\ Transpose(a) \in Seq(Nat) /\ Len(Transpose(a)) = Len(launch.grid)
         /\ \A i \in GridAxes : Transpose(a)[i] = a[Other(i)]
         /\ Transpose(Transpose(a)) = a
<1> DEFINE t == Transpose(a)
           u == Transpose(t)
<1>1. a \in [GridAxes -> Nat]
  <2>1. a \in [1 .. Len(a) -> Nat]
    BY LenProperties
  <2> QED BY <2>1 DEF GridAxes
<1>2. t = [i \in GridAxes |-> t[i]] /\ \A i \in GridAxes : t[i] = a[Other(i)]
  BY <1>1 DEF Transpose, Other
<1> HIDE DEF t
<1>3. \A i \in GridAxes : t[i] \in Nat
  BY <1>1, <1>2, OtherIs
<1>4. t \in Seq(Nat) /\ Len(t) = Len(launch.grid) /\ DOMAIN t = GridAxes
  BY <1>2, <1>3, PointType
<1>5. \A i \in GridAxes : u[i] = t[Other(i)]
  BY <1>4 DEF Transpose, Other
<1>6. u = [i \in GridAxes |-> u[i]]
  BY <1>4 DEF Transpose
<1> HIDE DEF u
<1>7. \A i \in GridAxes : u[i] = a[i]
  BY <1>2, <1>5, OtherIs
<1>8. u = a
  BY <1>1, <1>6, <1>7
<1> QED BY <1>2, <1>4, <1>8 DEF t, u

LEMMA TransposeRuns ==
  ASSUME Fits, Square, NEW a \in Groups(launch), NEW b \in Workitems(launch),
         Runs(launch, a, b)
  PROVE  /\ Transpose(a) \in Groups(launch) /\ Transpose(b) \in Workitems(launch)
         /\ Runs(launch, Transpose(a), Transpose(b))
<1>1. launch \in Launches
  BY DEF Fits
<1>2. /\ a \in Seq(Nat) /\ Len(a) = Len(launch.grid)
      /\ \A i \in GridAxes : a[i] \in 0 .. Count(i) - 1
      /\ b \in Seq(Nat) /\ Len(b) = Len(launch.grid)
      /\ \A i \in GridAxes : b[i] \in 0 .. Side(i) - 1
  BY <1>1, GroupsAre, ItemsAre
<1>3. /\ Transpose(a) \in Seq(Nat) /\ Len(Transpose(a)) = Len(launch.grid)
      /\ Transpose(b) \in Seq(Nat) /\ Len(Transpose(b)) = Len(launch.grid)
      /\ \A i \in GridAxes : Transpose(a)[i] = a[Other(i)] /\ Transpose(b)[i] = b[Other(i)]
  BY <1>1, <1>2, TransposeIs
<1>4. \A i \in GridAxes : /\ Transpose(a)[i] \in 0 .. Count(i) - 1
                          /\ Transpose(b)[i] \in 0 .. Side(i) - 1
  BY <1>1, <1>2, <1>3, OtherIs, SquareIs
<1>5. Transpose(a) \in Groups(launch)
  BY <1>3, <1>4, GroupsAre
<1>6. Transpose(b) \in Workitems(launch)
  BY <1>1, <1>3, <1>4, ItemsAre
<1>7. \A i \in GridAxes : Place(Transpose(a), Transpose(b), i) = Place(a, b, Other(i))
  BY <1>3, SquareIs DEF Place
<1>8. \A i \in GridAxes : Place(a, b, i) < Size(i)
  BY GridIdIs
<1>9. \A i \in GridAxes : Place(Transpose(a), Transpose(b), i) < Size(i)
  <2> SUFFICES ASSUME NEW i \in GridAxes
               PROVE  Place(Transpose(a), Transpose(b), i) < Size(i)
    OBVIOUS
  <2>1. Other(i) \in GridAxes /\ Size(Other(i)) = Size(i)
    BY <1>1, OtherIs, SquareIs
  <2>2. Place(a, b, Other(i)) < Size(Other(i))
    BY <1>8, <2>1
  <2> QED BY <1>7, <2>1, <2>2
<1> QED BY <1>5, <1>6, <1>9, GridIdIs

(* The linear ids of the items of an accepted launch are distinct, over    *)
(* the grid as long as the box from zero to its end can be counted, and    *)
(* within a group as long as the device allows no group with more items    *)
(* than the u16 of the id has numbers, which the code does not check; and  *)
(* the transposed parameters of an item of a square launch are those of    *)
(* one that runs (global_linear_id, workitem_linear_id, transpose).        *)
LEMMA IdsDistinctStep == ASSUME AcceptInv, IsaInfo.wgLen <= Max16 + 1 PROVE IdsDistinct
<1> SUFFICES ASSUME phase = "Ok", Unwrapped(launch)
             PROVE  LET run == Running(launch)
                        vp  == [w \in run |-> Params(launch, w[1], w[2])]
                        turned == [w \in run |-> TransposeParams(launch.grid, launch.wg, vp[w])]
                    IN  /\ Product(End(launch.grid)) <= Max32 + 1 =>
                             IsInjective([w \in run |-> vp[w].gid])
                        /\ \A v, w \in run : v[1] = w[1] /\ vp[v].wi_lid = vp[w].wi_lid => v = w
                        /\ launch.grid = Transpose(launch.grid)
                             /\ launch.wg = Transpose(launch.wg) =>
                             Range(turned) = Range(vp)
  BY DEF IdsDistinct
<1> DEFINE run == Running(launch)
           vp  == [w \in run |-> Params(launch, w[1], w[2])]
           turned == [w \in run |-> TransposeParams(launch.grid, launch.wg, vp[w])]
           gid == [w \in run |-> vp[w].gid]
<1>1. Fits /\ launch \in Launches
  BY DEF Fits, AcceptInv
<1>2. ASSUME NEW w \in run
      PROVE  /\ w[1] \in Groups(launch) /\ w[2] \in Workitems(launch) /\ w = <<w[1], w[2]>>
             /\ Runs(launch, w[1], w[2])
             /\ vp[w].gid = GlobalLinearId(launch.grid, launch.wg, w[1], w[2])
             /\ vp[w].wi_lid = WorkitemLinearId(launch.wg, w[2])
             /\ turned[w] = VectorParams(launch.grid, launch.wg, Transpose(w[1]), Transpose(w[2]))
  BY DEF Running, Params, VectorParams, TransposeParams
<1>3. ASSUME Product(End(launch.grid)) <= Max32 + 1 PROVE IsInjective(gid)
  <2> SUFFICES ASSUME NEW v \in run, NEW w \in run, gid[v] = gid[w] PROVE v = w
    BY DEF IsInjective
  <2>1. GlobalLinearId(launch.grid, launch.wg, v[1], v[2]) =
          GlobalLinearId(launch.grid, launch.wg, w[1], w[2])
    BY <1>2
  <2>2. v[1] = w[1] /\ v[2] = w[2]
    BY <1>1, <1>2, <1>3, <2>1, GlobalIds
  <2> QED BY <1>2, <2>2
<1>4. ASSUME NEW v \in run, NEW w \in run, v[1] = w[1], vp[v].wi_lid = vp[w].wi_lid
      PROVE  v = w
  <2>1. v[2] = w[2]
    BY <1>1, <1>2, <1>4, LocalIds
  <2> QED BY <1>2, <1>4, <2>1
<1>5. ASSUME Square PROVE Range(turned) = Range(vp)
  <2>1. ASSUME NEW w \in run
        PROVE  \E v \in run : /\ turned[w] = vp[v] /\ turned[v] = vp[w]
    <3> DEFINE v == <<Transpose(w[1]), Transpose(w[2])>>
    <3>1. v \in run
      BY <1>1, <1>2, <1>5, TransposeRuns DEF Running
    <3>2. Transpose(v[1]) = w[1] /\ Transpose(v[2]) = w[2]
      BY <1>1, <1>2, GroupsAre, ItemsAre, TransposeIs
    <3>3. turned[w] = vp[v] /\ turned[v] = vp[w]
      BY <1>2, <3>1, <3>2 DEF Params
    <3> QED BY <3>1, <3>3
  <2> QED BY <2>1 DEF Range
<1> QED BY <1>3, <1>4, <1>5 DEF Square

THEOREM IdsApart ==
  ASSUME IsaInfo.wgLen <= Max16 + 1
  PROVE  Spec \/ SignalsSpec => []IdsDistinct
<1>1. AcceptInv => IdsDistinct
  BY IdsDistinctStep
<1> QED BY <1>1, Acceptance, PTL

-----------------------------------------------------------------------------
(* The items of an accepted launch can be counted.                         *)
LEMMA BoxFinite == ASSUME NEW n \in Seq(Int), Len(n) \in 1 .. 3 PROVE IsFiniteSet(Box(n))
<1> DEFINE X == 0 .. n[1] - 1
           Y == 0 .. n[2] - 1
           Z == 0 .. n[3] - 1
<1>1. n \in [1 .. Len(n) -> Int]
  BY LenProperties
<1>2. \A m \in Int : IsFiniteSet(0 .. m - 1)
  BY FS_Interval
<1>3. IsFiniteSet(X)
  BY <1>1, <1>2
<1>4. CASE Len(n) = 1
  <2> DEFINE f == [x \in X |-> <<x>>]
  <2>1. Box(n) = {<<x>> : x \in X}
    BY <1>4 DEF Box
  <2> HIDE DEF X
  <2>2. f \in Surjection(X, Box(n))
    BY <2>1 DEF Surjection
  <2> QED BY <1>3, <2>2, FS_Surjection
<1>5. ASSUME Len(n) \in 2 .. 3 PROVE IsFiniteSet(Y) /\ IsFiniteSet(X \X Y)
  <2>1. IsFiniteSet(Y)
    BY <1>1, <1>2, <1>5
  <2> QED BY <1>3, <2>1, FS_Product
<1>6. CASE Len(n) = 2
  <2>1. Box(n) = {<<x, y>> : x \in X, y \in Y}
    BY <1>6 DEF Box
  <2> HIDE DEF X, Y
  <2>2. Box(n) = X \X Y
    BY <2>1
  <2> QED BY <1>5, <1>6, <2>2
<1>7. CASE Len(n) = 3
  <2> DEFINE f == [p \in (X \X Y) \X Z |-> <<p[1][1], p[1][2], p[2]>>]
  <2>1. Box(n) = {<<x, y, z>> : x \in X, y \in Y, z \in Z}
    BY <1>7 DEF Box
  <2>2. IsFiniteSet(Z)
    BY <1>1, <1>2, <1>7
  <2>3. IsFiniteSet(X \X Y)
    BY <1>5, <1>7
  <2> HIDE DEF X, Y, Z
  <2>4. IsFiniteSet((X \X Y) \X Z)
    BY <2>2, <2>3, FS_Product
  <2>5. f \in [(X \X Y) \X Z -> Box(n)]
    BY <2>1
  <2>6. ASSUME NEW b \in Box(n) PROVE \E p \in (X \X Y) \X Z : f[p] = b
    <3>1. PICK x \in X, y \in Y, z \in Z : b = <<x, y, z>>
      BY <2>1
    <3>2. <<<<x, y>>, z>> \in (X \X Y) \X Z /\ f[<<<<x, y>>, z>>] = b
      BY <3>1
    <3> QED BY <3>2
  <2>7. f \in Surjection((X \X Y) \X Z, Box(n))
    BY <2>5, <2>6 DEF Surjection
  <2> QED BY <2>4, <2>7, FS_Surjection
<1> QED BY <1>4, <1>6, <1>7

LEMMA RunningFinite ==
  ASSUME launch \in Launches, Verdict(launch.grid, launch.wg) = "Ok"
  PROVE  IsFiniteSet(Running(launch))
<1> DEFINE n == RoundUp(Extent(launch.grid), launch.wg)
           m == [i \in DOMAIN n |-> n[i] \div launch.wg[i]]
<1>1. \A a \in Int, b \in Nat \ {0} : a \div b \in Int /\ a * b \in Int /\ a - 1 \in Int /\ a + 1 \in Int
  OBVIOUS
<1>2. DOMAIN n = GridAxes /\ Len(launch.grid) \in 1 .. 3
  BY GridType DEF RoundUp, Extent
<1>3. m \in [GridAxes -> Int]
  <2> SUFFICES ASSUME NEW i \in GridAxes PROVE n[i] \div launch.wg[i] \in Int
    BY <1>2
  <2>1. Size(i) \in Int /\ Side(i) \in Nat \ {0}
    BY AxisType, VerdictIs, MaxType
  <2>2. n[i] = Count(i) * Side(i)
    BY <1>2 DEF RoundUp, Count, Size, Side
  <2>3. Count(i) \in Int
    BY <1>1, <2>1 DEF Count
  <2>4. n[i] \in Int
    BY <1>1, <2>1, <2>2, <2>3
  <2> HIDE DEF n
  <2> QED BY <1>1, <2>1, <2>4 DEF Side
<1>4. m \in Seq(Int) /\ Len(m) \in 1 .. 3
  BY <1>2, <1>3 DEF GridAxes
<1>5. IsFiniteSet(Groups(launch))
  BY <1>4, BoxFinite DEF Groups
<1>6. IsFiniteSet(Workitems(launch))
  BY WgType, BoxFinite DEF Workitems
<1>7. IsFiniteSet(Groups(launch) \X Workitems(launch))
  BY <1>5, <1>6, FS_Product
<1>8. Running(launch) \in SUBSET (Groups(launch) \X Workitems(launch))
  BY DEF Running
<1> QED BY <1>7, <1>8, FS_Subset

(* Words and values are as many.                                           *)
LEMMA WordIs ==
  ASSUME NEW x \in Int
  PROVE  /\ Word(x) \in Words /\ Signed(x) \in Values
         /\ x \in 0 .. MaxValue => Signed(x) = x
<1>1. MaxValue \in Nat
  BY SignalsAssumption
<1>2. \A y \in Int, m \in Nat \ {0} : y % m \in 0 .. m - 1 /\ (y \in 0 .. m - 1 => y % m = y)
  OBVIOUS
<1>3. Word(x) \in Words /\ (x \in 0 .. MaxValue => Word(x) = x)
  BY <1>1, <1>2 DEF Word, Words
<1> QED BY <1>1, <1>3 DEF Signed, Values, Words

LEMMA AfterType ==
  ASSUME NEW op \in Operations, NEW old \in Values
  PROVE  After(op, old) \in Values
<1>1. MaxValue \in Nat /\ old \in Int /\ op.v \in Int /\ op.v \in Values
  BY SignalsAssumption DEF Values, Operations
<1>2. Word(old) \in Words /\ Word(op.v) \in Words
  BY <1>1, WordIs
<1>3. \A a, b \in Words : BitAnd(a, b) \in Int /\ BitOr(a, b) \in Int /\ BitXor(a, b) \in Int
  BY <1>1, SignalsAssumption DEF Words
<1>4. /\ Signed(old + op.v) \in Values /\ Signed(old - op.v) \in Values
      /\ Signed(BitAnd(Word(old), Word(op.v))) \in Values
      /\ Signed(BitOr(Word(old), Word(op.v))) \in Values
      /\ Signed(BitXor(Word(old), Word(op.v))) \in Values
  <2>1. \A x \in Int : Signed(x) \in Values
    BY WordIs
  <2> QED BY <1>1, <1>2, <1>3, <2>1
<1>5. op.f \in {"add", "sub", "and", "or", "xor", "swap", "store", "fetch_update", "min", "max"}
                 \cup Exchanges
  BY DEF Operations
<1> QED BY <1>1, <1>4, <1>5 DEF After

-----------------------------------------------------------------------------
(* What a wait answers.                                                    *)

Todo == {w \in DOMAIN item : item[w] = "todo"}

(* The signal of a launch that counts down says how many operations are    *)
(* to come; so it never comes back to zero, and once the caller has seen   *)
(* zero none is to come.                                                   *)
Counted ==
  /\ value = Cardinality(Todo)
  /\ 0 \in seen => Todo = {}

Began ==
  /\ WithSignals /\ value \in Values
  /\ item \in [Running(launch) -> {"todo", "owes", "done"}]
  /\ IsFiniteSet(Running(launch))
  /\ CountsDown => Counted

AnswerOK ==
  /\ answer[2] \in seen
  /\ ForZero /\ answer[1] => answer[2] = 0
  /\ ForZero /\ ~answer[1] => answer[2] < 0 \/ Wait.how = "wait_for_zero_timeout"
  /\ ~ForZero => answer[1] = Satisfied(Wait.cond, answer[2])

(* The value is one of those seen as long as the call has not returned.    *)
HostOK ==
  /\ seen \subseteq Values
  /\ host \in {"look", "asleep", "woke"} => value \in seen
  /\ host = "woke" => got \in seen
  /\ host = "answered" => AnswerOK

SignalInv ==
  /\ AcceptInv /\ peer \in Nat
  /\ IF phase = "signals" THEN Began /\ HostOK ELSE host = "idle" /\ seen = {}

LEMMA SignalsType ==
  ASSUME launch \in Launches, WithSignals
  PROVE  /\ launch.signals.start \in Values
         /\ launch.signals.peer \in Seq(Operations)
         /\ \A w \in Running(launch) : OpOf(w) \in Operations
         /\ Wait.cond \in Conditions
BY SignalsAssumption DEF WithSignals, OpOf, Wait

LEMMA ValuesType == MaxValue \in Nat /\ Values \subseteq Int
BY SignalsAssumption DEF Values

LEMMA SignalInit == SignalsInit => SignalInv
BY DEF SignalsInit, Init, SignalInv, AcceptInv

(* The steps without signals.                                              *)
LEMMA NextSignals ==
  ASSUME SignalInv, Next, UNCHANGED signalVars, AcceptInv'
  PROVE  SignalInv'
<1>1. phase # "signals" /\ phase' # "signals"
  <2>1. CASE Call
    BY <2>1 DEF Call, Verdict, LenError
  <2>2. CASE RunGroup
    BY <2>2 DEF RunGroup
  <2>3. CASE Barrier
    BY <2>3 DEF Barrier, Unmoved
  <2>4. ASSUME NEW i \in Items,
               \/ Enter(i) \/ With(i) \/ Return(i)
               \/ InitSingleton(i) \/ UncheckedInit(i) \/ InitOwn(i)
               \/ Deref(i) \/ DropMut(i) \/ DropWaits(i) \/ DropAfter(i)
        PROVE  phase = "group" /\ phase' = phase
    BY <2>4 DEF Enter, With, Return, InitSingleton, UncheckedInit, InitOwn, Deref, DropMut,
                DropWaits, DropAfter, OutOfScope, At, Unmoved
  <2> QED BY <2>1, <2>2, <2>3, <2>4 DEF Next
<1> QED BY <1>1 DEF SignalInv, signalVars

LEMMA AcceptedSignals == ASSUME SignalInv, Accepted, AcceptInv' PROVE SignalInv'
<1>1. /\ launch \in Launches /\ WithSignals /\ phase' = "signals" /\ launch' = launch
      /\ IsFiniteSet(Running(launch))
  BY RunningFinite DEF SignalInv, AcceptInv, Accepted
<1>2. host' = "idle" /\ seen' = {}
  BY DEF SignalInv, Accepted
<1>3. /\ item' = [w \in Running(launch) |-> "todo"] /\ value' = launch.signals.start
  BY DEF Accepted
<1>4. HostOK'
  BY <1>2 DEF HostOK
<1>5. Todo' = DOMAIN item'
  BY <1>3 DEF Todo
<1>6. CountsDown' => Counted'
  BY <1>1, <1>2, <1>3, <1>5 DEF CountsDown, Counted
<1>7. Began'
  BY <1>1, <1>3, <1>6, SignalsType DEF Began, WithSignals, SignalInv, Accepted
<1> QED BY <1>1, <1>4, <1>7 DEF SignalInv, Accepted

(* Steps of the signal's launch keep what does not change in them.         *)
LEMMA SameCount ==
  ASSUME launch' = launch, DOMAIN item' = DOMAIN item
  PROVE  CountsDown' <=> CountsDown
BY DEF CountsDown, OpOf

LEMMA SameAnswer ==
  ASSUME AnswerOK, answer' = answer, launch' = launch, seen \subseteq seen'
  PROVE  AnswerOK'
BY DEF AnswerOK, ForZero, Wait

(* An operation on the signal leaves a value that is seen.                 *)
LEMMA StoreKeeps ==
  ASSUME HostOK, NEW v \in Values, Store(v), UNCHANGED <<launch, host, got, answer>>
  PROVE  HostOK' /\ value' \in Values
<1>1. value' = v /\ seen' = seen \cup {v}
  BY DEF Store
<1>2. host = "answered" => AnswerOK'
  BY <1>1, SameAnswer DEF HostOK
<1> QED BY <1>1, <1>2 DEF HostOK

(* The operation of a work item: one less is to come, and if the items     *)
(* count down the value is one less too.                                   *)
LEMMA AtomicSignals ==
  ASSUME SignalInv, NEW w \in DOMAIN item, Atomic(w), AcceptInv'
  PROVE  SignalInv'
<1>1. /\ phase = "signals" /\ phase' = phase /\ launch' = launch /\ launch \in Launches
      /\ peer' = peer /\ peer \in Nat /\ Began /\ HostOK /\ item[w] = "todo"
  BY DEF Atomic, SignalInv, AcceptInv, vars
<1>2. item' \in [Running(launch) -> {"todo", "owes", "done"}] /\ DOMAIN item' = DOMAIN item
      /\ Todo' = Todo \ {w} /\ w \in Todo
  BY <1>1 DEF Atomic, Began, Todo
<1>3. OpOf(w) \in Operations /\ value \in Values
  BY <1>1, SignalsType DEF Began
<1>4. CASE Store(After(OpOf(w), value))
  <2>1. HostOK' /\ value' \in Values
    BY <1>1, <1>3, <1>4, AfterType, StoreKeeps DEF Atomic
  <2>2. ASSUME CountsDown PROVE Counted'
    <3>1. OpOf(w).f = "sub" /\ OpOf(w).v = 1
      BY <2>2 DEF CountsDown
    <3>2. value' = Signed(value - 1) /\ seen' = seen \cup {value'}
      BY <1>4, <3>1 DEF Store, After, Exchanges
    <3>3. IsFiniteSet(Todo) /\ value = Cardinality(Todo)
      <4>1. Todo \in SUBSET Running(launch)
        BY <1>1 DEF Began, Todo
      <4> QED BY <1>1, <2>2, <4>1, FS_Subset DEF Began, Counted
    <3>4. Cardinality(Todo') = value - 1 /\ IsFiniteSet(Todo')
      BY <1>2, <3>3, FS_RemoveElement
    <3>5. value \in 1 .. MaxValue
      <4>1. value \in Nat /\ value - 1 \in Nat
        BY <3>3, <3>4, FS_CardinalityType
      <4> QED BY <4>1, <1>3, ValuesType DEF Values
    <3>6. value' = value - 1
      BY <3>2, <3>5, ValuesType, WordIs
    <3>7. 0 \notin seen
      BY <1>1, <1>2, <2>2 DEF Began, Counted
    <3>8. 0 \in seen' => Todo' = {}
      BY <3>2, <3>4, <3>6, <3>7, FS_EmptySet
    <3> QED BY <3>4, <3>6, <3>8 DEF Counted
  <2>3. Began'
    BY <1>1, <1>2, <2>1, <2>2, SameCount DEF Began, WithSignals
  <2> QED BY <1>1, <2>1, <2>3 DEF SignalInv
<1>5. CASE OpOf(w).f = "compare_exchange_weak" /\ UNCHANGED <<value, seen>>
  <2>1. ~CountsDown
    BY <1>5 DEF CountsDown
  <2>2. Began'
    BY <1>1, <1>2, <1>5, <2>1, SameCount DEF Began, WithSignals
  <2>3. HostOK'
    BY <1>1, <1>5, SameAnswer DEF HostOK, Atomic
  <2> QED BY <1>1, <2>2, <2>3 DEF SignalInv
<1> QED BY <1>4, <1>5 DEF Atomic

LEMMA UpdateMboxSignals ==
  ASSUME SignalInv, NEW w \in DOMAIN item, UpdateMbox(w), AcceptInv'
  PROVE  SignalInv'
<1>1. /\ phase = "signals" /\ phase' = phase /\ launch' = launch /\ launch \in Launches
      /\ peer' = peer /\ peer \in Nat /\ Began /\ HostOK /\ item[w] = "owes"
  BY DEF UpdateMbox, SignalInv, AcceptInv, vars
<1>2. item' \in [Running(launch) -> {"todo", "owes", "done"}] /\ DOMAIN item' = DOMAIN item
      /\ Todo' = Todo
  BY <1>1 DEF UpdateMbox, Began, Todo
<1>3. Began'
  BY <1>1, <1>2, SameCount DEF Began, WithSignals, UpdateMbox, Counted
<1>4. HostOK'
  BY <1>1, SameAnswer DEF HostOK, UpdateMbox
<1> QED BY <1>1, <1>3, <1>4 DEF SignalInv

(* A launch that counts down has no operations of another thread.          *)
LEMMA PeerSignals == ASSUME SignalInv, PeerOp, AcceptInv' PROVE SignalInv'
<1>1. /\ phase = "signals" /\ phase' = phase /\ launch' = launch /\ launch \in Launches
      /\ peer \in Nat /\ peer' = peer + 1 /\ peer < Len(launch.signals.peer)
      /\ Began /\ HostOK /\ item' = item
  BY DEF PeerOp, SignalInv, AcceptInv, vars
<1> DEFINE op == launch.signals.peer[peer + 1]
<1>2. op \in Operations /\ launch.signals.peer # << >>
  BY <1>1, SignalsType DEF Began
<1>3. HostOK' /\ value' \in Values
  BY <1>1, <1>2, AfterType, StoreKeeps DEF PeerOp, Began
<1>4. ~CountsDown
  BY <1>2 DEF CountsDown
<1>5. Began'
  BY <1>1, <1>3, <1>4, SameCount DEF Began, WithSignals
<1> QED BY <1>1, <1>3, <1>5 DEF SignalInv

LEMMA SatisfiedType ==
  ASSUME NEW cond \in Conditions, NEW v
  PROVE  Satisfied(cond, v) \in BOOLEAN
<1>1. cond.is \in {"Equal", "NotEqual", "Less", "GreaterEqual"}
  BY DEF Conditions
<1>2. CASE cond.is = "Equal"
  BY <1>2 DEF Satisfied
<1>3. CASE cond.is = "NotEqual"
  BY <1>3 DEF Satisfied
<1>4. CASE cond.is = "Less"
  BY <1>4 DEF Satisfied
<1>5. CASE cond.is = "GreaterEqual"
  BY <1>5 DEF Satisfied
<1> QED BY <1>1, <1>2, <1>3, <1>4, <1>5

LEMMA AnswerIs ==
  ASSUME launch' = launch, NEW ok \in BOOLEAN, NEW v, answer' = <<ok, v>>, v \in seen',
         ForZero /\ ok => v = 0,
         ForZero /\ ~ok => v < 0 \/ Wait.how = "wait_for_zero_timeout",
         ~ForZero => ok = Satisfied(Wait.cond, v)
  PROVE  AnswerOK'
<1>1. answer'[1] = ok /\ answer'[2] = v
  OBVIOUS
<1>2. Wait' = Wait
  BY DEF Wait
<1>3. ForZero' <=> ForZero
  BY <1>2 DEF ForZero
<1> QED BY <1>1, <1>2, <1>3 DEF AnswerOK

(* The call begins with the value there is.                                *)
LEMMA SeenBegins ==
  ASSUME Began, launch' = launch, item' = item, value' = value, seen' = {value}
  PROVE  Began' /\ seen' \subseteq Values /\ value' \in seen'
<1>1. CountsDown => Counted'
  <2> SUFFICES ASSUME CountsDown PROVE Counted'
    OBVIOUS
  <2>1. Todo' = Todo /\ value = Cardinality(Todo)
    BY DEF Began, Counted, Todo
  <2>2. IsFiniteSet(Todo)
    <3>1. Todo \in SUBSET Running(launch)
      BY DEF Began, Todo
    <3> QED BY <3>1, FS_Subset DEF Began
  <2> QED BY <2>1, <2>2, FS_EmptySet DEF Counted
<1> QED BY <1>1, SameCount DEF Began, WithSignals

LEMMA BeginSignals ==
  ASSUME SignalInv, BeginWait \/ HostWait, AcceptInv'
  PROVE  SignalInv'
<1>1. /\ phase = "signals" /\ phase' = phase /\ launch' = launch /\ launch \in Launches
      /\ peer' = peer /\ peer \in Nat /\ Began /\ HostOK /\ value' = value /\ item' = item
      /\ got' = got /\ host \in {"idle", "answered"}
  BY DEF BeginWait, HostWait, Waits, SignalInv, AcceptInv, vars
<1>2. CASE UNCHANGED <<host, answer, seen>>
  <2>1. Began'
    BY <1>1, <1>2, SameCount DEF Began, WithSignals, Counted, Todo
  <2>2. HostOK'
    BY <1>1, <1>2, SameAnswer DEF HostOK
  <2> QED BY <1>1, <2>1, <2>2 DEF SignalInv
<1>3. CASE /\ seen' = {value}
           /\ \/ host' \in {"look", "panicked"}
              \/ host' = "answered" /\ answer' = <<TRUE, 0>> /\ value = 0
                   /\ Wait.how = "CompletionDep"
  <2>1. Began' /\ seen' \subseteq Values /\ value' \in seen'
    BY <1>1, <1>3, SeenBegins
  <2>2. host' = "answered" => AnswerOK'
    BY <1>1, <1>3, AnswerIs DEF ForZero
  <2>3. HostOK'
    BY <1>3, <2>1, <2>2 DEF HostOK
  <2> QED BY <1>1, <2>1, <2>3 DEF SignalInv
<1> QED BY <1>2, <1>3 DEF BeginWait, HostWait

(* What a wait answers when it returned.                                   *)
LEMMA AnswersSignals == ASSUME HostOK, Began, launch \in Launches, Answers PROVE HostOK'
<1>1. /\ seen' = seen /\ value' = value /\ got' = got /\ launch' = launch
      /\ value \in seen /\ got \in seen /\ seen \subseteq Values
  BY DEF Answers, HostOK, vars
<1>2. got \in Int
  BY <1>1, ValuesType
<1>3. Satisfied(Wait.cond, got) \in BOOLEAN
  BY SignalsType, SatisfiedType DEF Began
<1>4. ForZero => (Satisfied(Condition, got) <=> got < 1)
  BY DEF Condition, ZeroCondition, Satisfied
<1>5. ~ForZero => Condition = Wait.cond
  BY DEF Condition
<1>6. CASE ~Satisfied(Condition, got)
  <2>1. host' = "answered" => /\ answer' = <<FALSE, got>>
                              /\ ForZero => Wait.how = "wait_for_zero_timeout"
    BY <1>6 DEF Answers
  <2>2. ~ForZero => Satisfied(Wait.cond, got) = FALSE
    BY <1>3, <1>5, <1>6
  <2>3. host' = "answered" => AnswerOK'
    BY <1>1, <2>1, <2>2, AnswerIs
  <2>4. host' \in {"look", "answered"}
    BY <1>6 DEF Answers
  <2> QED BY <1>1, <2>3, <2>4 DEF HostOK
<1>7. CASE Satisfied(Condition, got)
  <2>1. answer' = <<~ForZero \/ got >= 0, got>> /\ host' \in {"panicked", "answered"}
    BY <1>7 DEF Answers
  <2>2. ~ForZero => Satisfied(Wait.cond, got) = TRUE
    BY <1>3, <1>5, <1>7
  <2>3. ForZero => got < 1
    BY <1>4, <1>7
  <2>4. AnswerOK'
    <3> DEFINE ok == ~ForZero \/ got >= 0
    <3>1. ForZero /\ ok => got = 0
      BY <1>2, <2>3
    <3>2. ForZero /\ ~ok => got < 0
      BY <1>2
    <3>3. ~ForZero => ok = Satisfied(Wait.cond, got)
      BY <2>2
    <3>4. answer' = <<ok, got>> /\ ok \in BOOLEAN
      BY <2>1
    <3> HIDE DEF ok
    <3> QED BY <1>1, <3>1, <3>2, <3>3, <3>4, AnswerIs
  <2> QED BY <1>1, <2>1, <2>4 DEF HostOK
<1> QED BY <1>6, <1>7

(* The other steps of the caller, and of the signals in the arguments.     *)
LEMMA HostSignals ==
  ASSUME SignalInv, ZeroDep \/ LookAt \/ Interrupted \/ Sporadic \/ Answers, AcceptInv'
  PROVE  SignalInv'
<1>1. /\ phase' = phase /\ launch' = launch /\ launch \in Launches
      /\ peer' = peer /\ peer \in Nat /\ value' = value /\ item' = item /\ seen' = seen
  BY DEF ZeroDep, LookAt, Interrupted, Sporadic, Answers, SignalInv, AcceptInv, vars
<1>2. phase = "signals" /\ Began /\ HostOK
  BY DEF ZeroDep, LookAt, Interrupted, Sporadic, Answers, SignalInv
<1>3. Began'
  BY <1>1, <1>2, SameCount DEF Began, WithSignals, Counted, Todo
<1>4. ASSUME ZeroDep PROVE HostOK'
  BY <1>1, <1>2, <1>4, SameAnswer DEF HostOK, ZeroDep
<1>5. ASSUME LookAt \/ Interrupted \/ Sporadic PROVE HostOK'
  BY <1>1, <1>2, <1>5 DEF HostOK, LookAt, Interrupted, Sporadic
<1>6. ASSUME Answers PROVE HostOK'
  BY <1>1, <1>2, <1>6, AnswersSignals
<1> QED BY <1>1, <1>2, <1>3, <1>4, <1>5, <1>6 DEF SignalInv

LEMMA StutterSignals ==
  ASSUME SignalInv, UNCHANGED <<vars, signalVars>>, AcceptInv'
  PROVE  SignalInv'
<1>1. /\ phase' = phase /\ launch' = launch /\ peer' = peer /\ value' = value /\ item' = item
      /\ seen' = seen /\ host' = host /\ got' = got /\ answer' = answer
  BY DEF vars, signalVars
<1>2. Began => Began'
  BY <1>1, SameCount DEF Began, WithSignals, Counted, Todo
<1>3. HostOK => HostOK'
  BY <1>1, SameAnswer DEF HostOK
<1> QED BY <1>1, <1>2, <1>3 DEF SignalInv

LEMMA SignalStep ==
  ASSUME SignalInv, [SignalsNext]_<<vars, signalVars>>, AcceptInv'
  PROVE  SignalInv'
BY NextSignals, AcceptedSignals, AtomicSignals, UpdateMboxSignals, PeerSignals, BeginSignals,
   HostSignals, StutterSignals DEF SignalsNext, Device, Waiter

(* What a wait answers was so at some time during it: an Ok of a wait for  *)
(* zero saw zero, an error of it a negative value or, with a timeout, any; *)
(* and a dereference, of a SignaledDeref or a CompletionDep, of a launch   *)
(* whose items count the signal down comes after all their operations      *)
(* (wait_for_zero, wait_for_condition, host_wait, fetch_sub).              *)
LEMMA AnswersTrueStep == ASSUME SignalInv PROVE AnswersTrue
<1> SUFFICES ASSUME host = "answered"
             PROVE  /\ AnswerOK
                    /\ CountsDown /\ ForZero /\ answer[1] =>
                         \A w \in DOMAIN item : item[w] # "todo"
  BY DEF AnswersTrue, AnswerOK
<1>1. Began /\ AnswerOK
  BY DEF SignalInv, HostOK
<1>2. CountsDown /\ ForZero /\ answer[1] => Todo = {}
  BY <1>1 DEF Began, Counted, AnswerOK
<1> QED BY <1>1, <1>2 DEF Todo

THEOREM AnswersAreTrue == SignalsSpec => []AnswersTrue
<1>1. SignalsInit => SignalInv
  BY SignalInit
<1>2. SignalInv /\ [SignalsNext]_<<vars, signalVars>> /\ AcceptInv' => SignalInv'
  BY SignalStep
<1>3. SignalInv => AnswersTrue
  BY AnswersTrueStep
<1> QED BY <1>1, <1>2, <1>3, Acceptance, PTL DEF SignalsSpec
=============================================================================
