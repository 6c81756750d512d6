--------------------------- MODULE Dispatch_proofs ---------------------------
(***************************************************************************)
(* Kernels run after what they depend on and their arguments and the       *)
(* signals they wait for outlive them, for every number of jobs and queues *)
(* and every size of the rings, the barrier packets and the pool.          *)
(*                                                                         *)
(* The argument: the kernel of a job is behind barriers that wait for all  *)
(* that the job depends on (CoverOK), a signal is 1 until its kernel has   *)
(* ended (SignalOK), since a barrier that decrements a stale one waits for *)
(* the kernel it is of (SlotOK), and completions are owned by one job each *)
(* (OwnOK).                                                                *)
(***************************************************************************)
EXTENDS Dispatch, FiniteSetTheorems, SequenceTheorems, TLAPS

Slot(q, i) == (first[q] + i - 1) % Size
IsKernel(q, i, j) == ring[q][i].kind = "kernel" /\ ring[q][i].job = j
Guards(q, i, k) == ring[q][i].kind = "barrier" /\ k \in ring[q][i].deps

(* A job that was never launched has no kernel.                            *)
StateOK ==
  \A j \in Jobs :
    /\ state[j] \in {"none", "args", "calling", "discarded"} => kernel[j] = "none"
    /\ state[j] = "none" => deps[j] = {}

(* A completion is owned by one job, for as long as that job is there.     *)
OwnOK ==
  \A j \in Jobs : \A k \in deps[j] :
    /\ state[k] \in {"moved", "dropping", "dropped"} /\ k # j
    /\ state[j] \notin {"dropped", "discarded"} => state[k] = "moved"
    /\ \A l \in Jobs : k \in deps[l] => l = j

(* A signal is 1 until its kernel has ended, and never after.              *)
SignalOK == \A j \in Jobs : IF kernel[j] = "done" THEN sig[j] <= 0 ELSE sig[j] = 1

(* The packets of a queue are those of its jobs, within its slots; the     *)
(* kernel of a job is its last, and a barrier of a job that never failed   *)
(* has the kernel, or the rest of the call, behind it.                     *)
InSlots ==
  \A q \in Queues : \A i \in 1 .. Len(ring[q]) :
    ring[q][i].kind # "gap" => i <= Size /\ on[ring[q][i].job] = q
KernelsQueued ==
  \A q \in Queues : \A i \in 1 .. Len(ring[q]) :
    ring[q][i].kind = "kernel" => kernel[ring[q][i].job] = "queued"
KernelsLast ==
  \A q \in Queues : \A i, n \in 1 .. Len(ring[q]) :
    ring[q][i].kind = "kernel" /\ ring[q][n].kind # "gap" /\ ring[q][n].job = ring[q][i].job => n <= i
BarrierDeps ==
  \A q \in Queues : \A i \in 1 .. Len(ring[q]) :
    ring[q][i].kind = "barrier" => ring[q][i].deps \subseteq deps[ring[q][i].job]
Held(j) == j \in failed \/ kernel[j] = "queued" \/ InCall(j, "enqueue")
BarriersHeld ==
  \A q \in Queues : \A i \in 1 .. Len(ring[q]) :
    ring[q][i].kind = "barrier" => Held(ring[q][i].job)
PacketsOK == InSlots /\ KernelsQueued /\ KernelsLast /\ BarrierDeps /\ BarriersHeld

(* What a job depends on has ended, or a barrier ahead of it waits for it, *)
(* or the call still has to enqueue one.                                   *)
CoverOK ==
  /\ \A j \in Jobs : InCall(j, "enqueue") =>
       /\ todo[j] \subseteq deps[j]
       /\ \A k \in deps[j] \ todo[j] :
            kernel[k] = "done" \/ \E n \in 1 .. Len(ring[on[j]]) : Guards(on[j], n, k)
  /\ \A q \in Queues : \A i \in 1 .. Len(ring[q]) : ring[q][i].kind = "kernel" =>
       \A k \in deps[ring[q][i].job] :
         kernel[k] = "done" \/ \E n \in 1 .. i - 1 : Guards(q, n, k)

(* The signal a slot holds is of a kernel that was in this slot, and that  *)
(* has started unless it is there still.                                   *)
SlotOK ==
  \A q \in Queues : \A s \in 0 .. Size - 1 : \A k \in Jobs : slotSignal[q][s] = k =>
    /\ on[k] = q /\ kernel[k] # "none"
    /\ kernel[k] = "queued" => \E i \in 1 .. Len(ring[q]) : IsKernel(q, i, k) /\ Slot(q, i) = s

(* While it is in flight a kernel's completion is held.                    *)
HeldOK ==
  \A j \in Jobs : InFlight(j) /\ panicked = {} => state[j] \in {"launched", "moved", "dropping"}

(* A block is one job's, and has its arguments once it is launched.        *)
BlockOK ==
  /\ \A j \in Jobs :
       /\ block[j] <= used
       /\ InCall(j, "enqueue") => block[j] # 0
       /\ state[j] \in {"launched", "moved", "dropping"} => block[j] # 0 /\ mem[block[j]] = j
  /\ \A i, j \in Jobs : block[i] = block[j] /\ block[i] # 0 => i = j

IInv ==
  /\ TypeOK /\ StateOK /\ OwnOK /\ SignalOK /\ PacketsOK /\ CoverOK /\ SlotOK /\ HeldOK
  /\ BlockOK /\ RunsAfterDeps

-----------------------------------------------------------------------------
(* Appending a packet to a ring, and taking the first one off.             *)
LEMMA RingAppend ==
  ASSUME ring \in [Queues -> Seq(Packet)], NEW q \in Queues, NEW p \in Packet,
         ring' = [ring EXCEPT ![q] = Append(@, p)]
  PROVE  /\ ring' \in [Queues -> Seq(Packet)]
         /\ \A r \in Queues : r # q => ring'[r] = ring[r]
         /\ Len(ring[q]) \in Nat /\ Len(ring'[q]) = Len(ring[q]) + 1
         /\ \A i \in 1 .. Len(ring[q]) : ring'[q][i] = ring[q][i]
         /\ ring'[q][Len(ring[q]) + 1] = p
         /\ \A i \in 1 .. Len(ring'[q]) : i \in 1 .. Len(ring[q]) \/ i = Len(ring[q]) + 1
<1>1. ring[q] \in Seq(Packet) /\ ring'[q] = Append(ring[q], p)
  OBVIOUS
<1> QED BY <1>1

LEMMA RingPop ==
  ASSUME ring \in [Queues -> Seq(Packet)], NEW q \in Queues, ring[q] # <<>>,
         ring' = [ring EXCEPT ![q] = Tail(@)]
  PROVE  /\ ring' \in [Queues -> Seq(Packet)]
         /\ \A r \in Queues : r # q => ring'[r] = ring[r]
         /\ Len(ring[q]) \in Nat \ {0} /\ Len(ring'[q]) = Len(ring[q]) - 1
         /\ ring[q][1] \in Packet
         /\ \A i \in 1 .. Len(ring'[q]) : /\ i + 1 \in 1 .. Len(ring[q])
                                          /\ ring'[q][i] = ring[q][i + 1]
<1>1. ring[q] \in Seq(Packet) /\ ring'[q] = Tail(ring[q])
  OBVIOUS
<1> QED BY <1>1

(* The slot of the packet at i, without the modulo.                        *)
LEMMA ModSize ==
  ASSUME NEW x \in Nat, x < 2 * Size
  PROVE  x % Size = IF x < Size THEN x ELSE x - Size
<1> DEFINE d == x \div Size
           m == x % Size
<1>0. Size \in Nat /\ Size > 0
  BY DispatchAssumption
<1>1. d \in Int
  BY <1>0
<1>2. m \in 0 .. Size - 1
  BY <1>0
<1>3. x = Size * d + m
  BY <1>0
<1>. HIDE DEF d, m
<1>4. CASE d >= 2
  <2>1. Size * d >= Size * 2
    BY <1>0, <1>1, <1>4
  <2> QED BY <1>0, <1>2, <1>3, <2>1
<1>5. CASE d <= -1
  <2>1. Size * d <= Size * (-1)
    BY <1>0, <1>1, <1>5
  <2> QED BY <1>0, <1>2, <1>3, <2>1
<1>6. CASE d = 0
  <2>1. x = m
    BY <1>0, <1>2, <1>3, <1>6
  <2> QED BY <1>0, <1>2, <2>1 DEF m
<1>7. CASE d = 1
  <2>1. x = Size + m
    BY <1>0, <1>2, <1>3, <1>7
  <2> QED BY <1>0, <1>2, <2>1 DEF m
<1> QED BY <1>1, <1>4, <1>5, <1>6, <1>7

LEMMA SlotIs ==
  ASSUME NEW f \in 0 .. Size - 1, NEW i \in 1 .. Size
  PROVE  (f + i - 1) % Size = IF f + i - 1 < Size THEN f + i - 1 ELSE f + i - 1 - Size
<1>1. Size \in Nat /\ f + i - 1 \in Nat /\ f + i - 1 < 2 * Size
  BY DispatchAssumption
<1> QED BY <1>1, ModSize

LEMMA SlotAfter ==
  ASSUME NEW f \in 0 .. Size - 1
  PROVE  (f + 1) % Size = IF f + 1 < Size THEN f + 1 ELSE f + 1 - Size
<1>1. Size \in Nat /\ f + 1 \in Nat /\ f + 1 < 2 * Size
  BY DispatchAssumption
<1> QED BY <1>1, ModSize

(* A packet keeps its slot when the one before it leaves the ring.         *)
LEMMA SlotKeeps ==
  ASSUME NEW f \in 0 .. Size - 1, NEW g \in 0 .. Size - 1, NEW i \in Nat, i >= 2, i <= Size,
         g = IF f + 1 < Size THEN f + 1 ELSE f + 1 - Size
  PROVE  (IF g + (i - 1) - 1 < Size THEN g + (i - 1) - 1 ELSE g + (i - 1) - 1 - Size)
           = (IF f + i - 1 < Size THEN f + i - 1 ELSE f + i - 1 - Size)
<1>0. Size \in Nat /\ Size > 0
  BY DispatchAssumption
<1>1. CASE f + 1 < Size
  BY <1>0, <1>1
<1>2. CASE f + 1 >= Size
  BY <1>0, <1>2
<1> QED BY <1>0, <1>1, <1>2

(* There is a next barrier packet as long as there is a dependency left.   *)
LEMMA BatchesEmpty ==
  ASSUME NEW j \in Jobs, todo[j] \subseteq Jobs, Batches(todo[j]) = {}
  PROVE  todo[j] = {}
<1> DEFINE D == todo[j]
           c == Cardinality(D)
<1>1. IsFiniteSet(D)
  BY DispatchAssumption, FS_Subset
<1>2. c \in Nat /\ ExistsBijection(1 .. c, D)
  BY <1>1, FS_CardinalityType
<1>3. PacketDeps \in Nat \ {0}
  BY DispatchAssumption
<1>4. CASE c < PacketDeps
  BY <1>4 DEF Batches
<1>5. CASE c >= PacketDeps
  <2>1. PICK f \in Bijection(1 .. c, D) : TRUE
    BY <1>2 DEF ExistsBijection
  <2> DEFINE T == {f[n] : n \in 1 .. PacketDeps}
             g == [n \in 1 .. PacketDeps |-> f[n]]
  <2>2. 1 .. PacketDeps \subseteq 1 .. c
    BY <1>2, <1>3, <1>5
  <2>3. f \in [1 .. c -> D] /\ \A m, n \in 1 .. c : f[m] = f[n] => m = n
    BY <2>1 DEF Bijection, Injection, IsInjective
  <2>4. g \in Bijection(1 .. PacketDeps, T)
    BY <2>2, <2>3 DEF Bijection, Injection, Surjection, IsInjective
  <2>5. Cardinality(T) = PacketDeps
    BY <1>3, <2>4, FS_CountingElements DEF ExistsBijection
  <2>6. T \in SUBSET D
    BY <2>2, <2>3
  <2> QED BY <2>5, <2>6 DEF Batches
<1> QED BY <1>2, <1>3, <1>4, <1>5

(* The rules for the state of one job that nobody owns, and for a job that *)
(* goes with the completions it owns.                                      *)
LEMMA OwnOne ==
  ASSUME TypeOK, OwnOK, NEW j \in Jobs, NEW x \in {"args", "calling", "launched", "dropping"},
         state[j] \in {"args", "calling", "launched"},
         state' = [state EXCEPT ![j] = x], deps' = deps
  PROVE  OwnOK'
<1>1. state \in [Jobs -> States] /\ deps \in [Jobs -> SUBSET Jobs]
  BY DEF TypeOK
<1>2. \A l \in Jobs : j \notin deps[l]
  BY DEF OwnOK
<1> QED BY <1>1, <1>2 DEF OwnOK

LEMMA OwnGoes ==
  ASSUME TypeOK, OwnOK, NEW j \in Jobs, NEW x \in {"dropped", "discarded"},
         \/ state[j] = "args" /\ x = "discarded"
         \/ state[j] = "dropping" /\ x = "dropped",
         state' = DropOwned([state EXCEPT ![j] = x], deps[j]), deps' = deps
  PROVE  OwnOK'
<1>1. state \in [Jobs -> States] /\ deps \in [Jobs -> SUBSET Jobs]
  BY DEF TypeOK
<1>2. \A k \in deps[j] : state[k] = "moved" /\ k # j /\ \A l \in Jobs : k \in deps[l] => l = j
  BY DEF OwnOK
<1>3. \A l \in Jobs : j \in deps[l] => x = "dropped" /\ state[l] \in {"dropped", "discarded"}
  BY DEF OwnOK
<1>4. \A k \in Jobs : state'[k] = IF k \in deps[j] THEN "dropping" ELSE IF k = j THEN x ELSE state[k]
  BY <1>1 DEF DropOwned
<1> SUFFICES ASSUME NEW l \in Jobs, NEW k \in deps[l]
             PROVE  /\ state'[k] \in {"moved", "dropping", "dropped"} /\ k # l
                    /\ state'[l] \notin {"dropped", "discarded"} => state'[k] = "moved"
                    /\ \A m \in Jobs : k \in deps[m] => m = l
  BY DEF OwnOK
<1>5. /\ state[k] \in {"moved", "dropping", "dropped"} /\ k # l
      /\ state[l] \notin {"dropped", "discarded"} => state[k] = "moved"
      /\ \A m \in Jobs : k \in deps[m] => m = l
  BY DEF OwnOK
<1>6. CASE k = j
  BY <1>2, <1>3, <1>4, <1>5, <1>6
<1>7. CASE k # j /\ k \in deps[j]
  <2>1. l = j /\ j \notin deps[j]
    BY <1>2, <1>7
  <2>2. state'[k] = "dropping" /\ state'[l] = x
    BY <1>1, <1>4, <1>7, <2>1
  <2> QED BY <1>5, <2>2
<1>8. CASE k # j /\ k \notin deps[j]
  BY <1>1, <1>2, <1>4, <1>5, <1>8
<1> QED BY <1>6, <1>7, <1>8

LEMMA OwnStep == IInv /\ Next => OwnOK'
<1> SUFFICES ASSUME IInv, Next PROVE OwnOK'
  OBVIOUS
<1>0. TypeOK /\ OwnOK /\ StateOK
  BY DEF IInv
<1>1. ASSUME NEW j \in Jobs, NEW D \in SUBSET Jobs, Build(j, D) PROVE OwnOK'
  <2>1. state \in [Jobs -> States] /\ deps \in [Jobs -> SUBSET Jobs]
    BY <1>0 DEF TypeOK
  <2>2. j \notin D /\ deps[j] = {} /\ \A l \in Jobs : j \notin deps[l] /\ D \cap deps[l] = {}
    BY <1>0, <1>1 DEF Build, OwnOK, StateOK
  <2>3. \A l \in Jobs : deps'[l] = IF l = j THEN D ELSE deps[l]
    BY <1>1, <2>1 DEF Build
  <2>4. \A l \in Jobs : state'[l] = IF l = j THEN "args" ELSE IF l \in D THEN "moved" ELSE state[l]
    BY <1>1 DEF Build
  <2>5. \A k \in D : state[k] = "launched"
    BY <1>1 DEF Build
  <2> SUFFICES ASSUME NEW l \in Jobs, NEW k \in deps'[l]
               PROVE  /\ state'[k] \in {"moved", "dropping", "dropped"} /\ k # l
                      /\ state'[l] \notin {"dropped", "discarded"} => state'[k] = "moved"
                      /\ \A m \in Jobs : k \in deps'[m] => m = l
    BY DEF OwnOK
  <2>6. CASE l = j
    BY <2>1, <2>2, <2>3, <2>4, <2>6
  <2>7. CASE l # j
    <3>1. /\ state[k] \in {"moved", "dropping", "dropped"} /\ k # l
          /\ state[l] \notin {"dropped", "discarded"} => state[k] = "moved"
          /\ \A m \in Jobs : k \in deps[m] => m = l
      BY <1>0, <2>3, <2>7 DEF OwnOK
    <3> QED BY <2>1, <2>2, <2>3, <2>4, <2>5, <2>7, <3>1
  <2> QED BY <2>6, <2>7
<1>2. ASSUME NEW j \in Jobs, Discard(j) PROVE OwnOK'
  BY <1>0, <1>2, OwnGoes DEF Discard
<1>3. ASSUME NEW j \in Jobs, DropStep(j) PROVE OwnOK'
  BY <1>0, <1>3, OwnGoes DEF DropStep, DropHost, DropDevice, DropPanics, DropArgs
<1>4. ASSUME NEW j \in Jobs, Call(j) \/ Drop(j) PROVE OwnOK'
  BY <1>0, <1>4, OwnOne DEF Call, Drop
<1>5. ASSUME NEW j \in Jobs, Refuse(j) \/ Oom(j) \/ EnqueueFails(j) \/ EnqueueKernel(j) PROVE OwnOK'
  BY <1>0, <1>5, OwnOne DEF Refuse, Oom, EnqueueFails, EnqueueKernel, InCall, Return
<1>6. CASE UNCHANGED <<state, deps>>
  BY <1>0, <1>6 DEF OwnOK
<1>7. ASSUME NEW j \in Jobs, Admit(j) \/ Alloc(j) \/ EnqueueBarrier(j) \/ FinishKernel(j)
      PROVE  UNCHANGED <<state, deps>>
  BY <1>7 DEF Admit, Alloc, EnqueueBarrier, FinishKernel
<1>8. ASSUME NEW q \in Queues, Agent(q) PROVE UNCHANGED <<state, deps>>
  BY <1>8 DEF Agent, StartKernel, CompleteBarrier
<1>9. Wash => UNCHANGED <<state, deps>>
  BY DEF Wash
<1> QED
  BY <1>1, <1>2, <1>3, <1>4, <1>5, <1>6, <1>7, <1>8, <1>9 DEF Next, CallStep

LEMMA TypeStep == IInv /\ Next => TypeOK'
<1> SUFFICES ASSUME IInv, Next PROVE TypeOK'
  OBVIOUS
<1>0. TypeOK /\ BlockOK /\ PacketsOK
  BY DEF IInv
<1>. USE DispatchAssumption DEF TypeOK, InCall, callVars, poolVars, queueVars, deviceVars
<1>1. ASSUME NEW j \in Jobs, NEW D \in SUBSET Jobs, Build(j, D) PROVE TypeOK'
  BY <1>0, <1>1 DEF Build, States
<1>2. ASSUME NEW j \in Jobs, Discard(j) \/ Call(j) \/ Drop(j) PROVE TypeOK'
  <2>1. state' \in [Jobs -> States]
    <3>1. CASE Discard(j)
      BY <1>0, <3>1 DEF Discard, DropOwned, States
    <3>2. CASE Call(j)
      BY <1>0, <3>2 DEF Call, States
    <3>3. CASE Drop(j)
      BY <1>0, <3>3 DEF Drop, States
    <3> QED BY <1>2, <3>1, <3>2, <3>3
  <2>2. CASE Call(j)
    BY <1>0, <2>1, <2>2 DEF Call
  <2>3. CASE Discard(j) \/ Drop(j)
    BY <1>0, <2>1, <2>3 DEF Discard, Drop
  <2> QED BY <1>2, <2>2, <2>3
<1>3. ASSUME NEW j \in Jobs, Refuse(j) \/ Admit(j) \/ Oom(j) PROVE TypeOK'
  <2>1. CASE Refuse(j) \/ Oom(j)
    <3>1. state' \in [Jobs -> States]
      BY <1>0, <2>1 DEF Refuse, Oom, Return, States
    <3> QED BY <1>0, <2>1, <3>1 DEF Refuse, Oom
  <2>2. CASE Admit(j)
    BY <1>0, <2>2 DEF Admit
  <2> QED BY <1>3, <2>1, <2>2
<1>4. ASSUME NEW j \in Jobs, Alloc(j) PROVE TypeOK'
  BY <1>0, <1>4 DEF Alloc, PoolFull, IterArgDeps, IterDeps
<1>5. ASSUME NEW j \in Jobs, EnqueueFails(j) PROVE TypeOK'
  <2>1. on[j] \in Queues /\ Gap(j) \in Packet
    BY <1>0 DEF Packet, Gap
  <2>2. ring' \in [Queues -> Seq(Packet)]
    BY <1>0, <1>5, <2>1, RingAppend DEF EnqueueFails
  <2>3. mem' \in [1 .. Blocks -> Jobs \cup {None}]
    BY <1>0, <1>5 DEF EnqueueFails
  <2> QED BY <1>0, <1>5, <2>2, <2>3 DEF EnqueueFails, Return, States
<1>6. ASSUME NEW j \in Jobs, EnqueueBarrier(j) PROVE TypeOK'
  <2>1. PICK B \in Batches(todo[j]) :
          /\ ring' = [ring EXCEPT ![on[j]] =
                        Append(@, [kind |-> "barrier", job |-> j, deps |-> B])]
          /\ todo' = [todo EXCEPT ![j] = @ \ B]
    BY <1>6 DEF EnqueueBarrier
  <2>2. on[j] \in Queues /\ [kind |-> "barrier", job |-> j, deps |-> B] \in Packet
    BY <1>0 DEF Packet, Batches
  <2>3. ring' \in [Queues -> Seq(Packet)]
    BY <1>0, <2>1, <2>2, RingAppend
  <2> QED BY <1>0, <1>6, <2>1, <2>3 DEF EnqueueBarrier
<1>7. ASSUME NEW j \in Jobs, EnqueueKernel(j) PROVE TypeOK'
  <2>1. on[j] \in Queues /\ [kind |-> "kernel", job |-> j, deps |-> {}] \in Packet
    BY <1>0 DEF Packet
  <2>2. ring' \in [Queues -> Seq(Packet)]
    BY <1>0, <1>7, <2>1, RingAppend DEF EnqueueKernel
  <2>3. mem' \in [1 .. Blocks -> Jobs \cup {None}]
    BY <1>0, <1>7 DEF EnqueueKernel
  <2>4. slotSignal' \in [Queues -> [0 .. Size - 1 -> Jobs \cup {None}]]
    BY <1>0, <1>7, <2>1 DEF EnqueueKernel
  <2> QED BY <1>0, <1>7, <2>2, <2>3, <2>4 DEF EnqueueKernel, States
<1>8. ASSUME NEW j \in Jobs, DropStep(j) PROVE TypeOK'
  <2>1. state' \in [Jobs -> States]
    BY <1>0, <1>8 DEF DropStep, DropHost, DropDevice, DropPanics, DropArgs, DropOwned, States
  <2>2. panicked' \subseteq Jobs
    BY <1>0, <1>8 DEF DropStep, DropHost, DropDevice, DropPanics
  <2>3. UNCHANGED <<deps, on, callVars, poolVars, queueVars, deviceVars>>
    BY <1>8 DEF DropStep, DropHost, DropDevice, DropPanics
  <2> QED BY <1>0, <2>1, <2>2, <2>3
<1>9. ASSUME Wash PROVE TypeOK'
  BY <1>0, <1>9 DEF Wash
<1>10. ASSUME NEW q \in Queues, Agent(q) PROVE TypeOK'
  <2>1. ring[q] # <<>> /\ Pop(q)
    BY <1>10 DEF Agent, StartKernel, CompleteBarrier
  <2>2. ring' \in [Queues -> Seq(Packet)] /\ Head1(q) \in Packet
    BY <1>0, <2>1, RingPop DEF Pop, Head1
  <2>3. first' \in [Queues -> 0 .. Size - 1]
    BY <1>0, <2>1 DEF Pop
  <2>4. kernel' \in [Jobs -> {"none", "queued", "running", "done"}]
    BY <1>0, <1>10, <2>2 DEF Agent, StartKernel, CompleteBarrier, Packet
  <2>5. sig' \in [Jobs -> Int]
    <3>1. CASE StartKernel(q)
      BY <1>0, <3>1 DEF StartKernel
    <3>2. CASE CompleteBarrier(q)
      <4>1. slotSignal[q][first[q]] \in Jobs \cup {None}
        BY <1>0
      <4>2. sig' = IF slotSignal[q][first[q]] = None THEN sig
                   ELSE [sig EXCEPT ![slotSignal[q][first[q]]] = @ - 1]
        BY <3>2 DEF CompleteBarrier
      <4> QED BY <1>0, <4>1, <4>2
    <3> QED BY <1>10, <3>1, <3>2 DEF Agent
  <2>6. UNCHANGED <<state, deps, on, callVars, poolVars, slotSignal, panicked>>
    BY <1>10 DEF Agent, StartKernel, CompleteBarrier
  <2> QED BY <1>0, <2>2, <2>3, <2>4, <2>5, <2>6
<1>11. ASSUME NEW j \in Jobs, FinishKernel(j) PROVE TypeOK'
  BY <1>0, <1>11 DEF FinishKernel
<1> QED
  BY <1>1, <1>2, <1>3, <1>4, <1>5, <1>6, <1>7, <1>8, <1>9, <1>10, <1>11 DEF Next, CallStep

LEMMA StateStep == IInv /\ Next => StateOK'
<1> SUFFICES ASSUME IInv, Next PROVE StateOK'
  OBVIOUS
<1>0. TypeOK /\ StateOK /\ PacketsOK /\ OwnOK
  BY DEF IInv
<1>1. state \in [Jobs -> States] /\ deps \in [Jobs -> SUBSET Jobs]
      /\ kernel \in [Jobs -> {"none", "queued", "running", "done"}]
  BY <1>0 DEF TypeOK
<1>2. ASSUME NEW j \in Jobs, NEW D \in SUBSET Jobs, Build(j, D) PROVE StateOK'
  BY <1>0, <1>1, <1>2 DEF Build, StateOK, deviceVars
<1>3. ASSUME NEW j \in Jobs, Discard(j) \/ DropStep(j) PROVE StateOK'
  BY <1>0, <1>1, <1>3 DEF Discard, DropStep, DropHost, DropDevice, DropPanics, DropArgs, DropOwned,
                          StateOK, deviceVars
<1>4. ASSUME NEW j \in Jobs, Call(j) \/ Drop(j) PROVE StateOK'
  BY <1>0, <1>1, <1>4 DEF Call, Drop, StateOK, deviceVars
<1>5. ASSUME NEW j \in Jobs, Refuse(j) \/ Oom(j) \/ EnqueueFails(j) \/ EnqueueKernel(j) PROVE StateOK'
  BY <1>0, <1>1, <1>5 DEF Refuse, Oom, EnqueueFails, EnqueueKernel, InCall, Return, StateOK, deviceVars
<1>6. ASSUME NEW q \in Queues, StartKernel(q) PROVE StateOK'
  <2>1. 1 \in 1 .. Len(ring[q]) /\ ring[q][1] \in Packet
    BY <1>0, <1>6, RingPop DEF StartKernel, Pop, TypeOK
  <2>2. Head1(q).job \in Jobs /\ kernel[Head1(q).job] = "queued"
    BY <1>0, <1>6, <2>1 DEF StartKernel, Head1, PacketsOK, KernelsQueued, Packet
  <2> QED BY <1>0, <1>1, <1>6, <2>2 DEF StartKernel, StateOK
<1>7. ASSUME NEW j \in Jobs, FinishKernel(j) PROVE StateOK'
  BY <1>0, <1>1, <1>7 DEF FinishKernel, StateOK
<1>8. CASE UNCHANGED <<state, deps, kernel>>
  BY <1>0, <1>8 DEF StateOK
<1>9. ASSUME NEW j \in Jobs, Admit(j) \/ Alloc(j) \/ EnqueueBarrier(j)
      PROVE  UNCHANGED <<state, deps, kernel>>
  BY <1>9 DEF Admit, Alloc, EnqueueBarrier, deviceVars
<1>10. ASSUME NEW q \in Queues, CompleteBarrier(q) PROVE UNCHANGED <<state, deps, kernel>>
  BY <1>10 DEF CompleteBarrier
<1>11. Wash => UNCHANGED <<state, deps, kernel>>
  BY DEF Wash, deviceVars
<1> QED
  BY <1>2, <1>3, <1>4, <1>5, <1>6, <1>7, <1>8, <1>9, <1>10, <1>11 DEF Next, CallStep, Agent

LEMMA SignalStep == IInv /\ Next => SignalOK'
<1> SUFFICES ASSUME IInv, Next PROVE SignalOK'
  OBVIOUS
<1>0. TypeOK /\ StateOK /\ PacketsOK /\ SlotOK /\ SignalOK
  BY DEF IInv
<1>1. /\ kernel \in [Jobs -> {"none", "queued", "running", "done"}] /\ sig \in [Jobs -> Int]
      /\ ring \in [Queues -> Seq(Packet)] /\ first \in [Queues -> 0 .. Size - 1]
      /\ slotSignal \in [Queues -> [0 .. Size - 1 -> Jobs \cup {None}]]
  BY <1>0 DEF TypeOK
<1>2. ASSUME NEW j \in Jobs, EnqueueKernel(j) PROVE SignalOK'
  BY <1>0, <1>1, <1>2 DEF EnqueueKernel, InCall, StateOK, SignalOK
<1>3. ASSUME NEW q \in Queues, StartKernel(q) PROVE SignalOK'
  <2>1. 1 \in 1 .. Len(ring[q]) /\ ring[q][1] \in Packet
    BY <1>1, <1>3, RingPop DEF StartKernel, Pop
  <2>2. Head1(q).job \in Jobs /\ kernel[Head1(q).job] = "queued"
    BY <1>0, <1>3, <2>1 DEF StartKernel, Head1, PacketsOK, KernelsQueued, Packet
  <2> QED BY <1>0, <1>1, <1>3, <2>2 DEF StartKernel, SignalOK
<1>4. ASSUME NEW q \in Queues, CompleteBarrier(q) PROVE SignalOK'
  <2> DEFINE held == slotSignal[q][first[q]]
  <2>1. sig' = IF held = None THEN sig ELSE [sig EXCEPT ![held] = @ - 1]
    BY <1>4 DEF CompleteBarrier
  <2>2. kernel' = kernel
    BY <1>4 DEF CompleteBarrier
  <2>3. CASE held = None
    BY <1>0, <2>1, <2>2, <2>3 DEF SignalOK
  <2>4. CASE held # None
    <3>1. held \in Jobs /\ first[q] \in 0 .. Size - 1
      <4>1. first[q] \in 0 .. Size - 1 /\ slotSignal[q] \in [0 .. Size - 1 -> Jobs \cup {None}]
        BY <1>1
      <4> QED BY <2>4, <4>1
    <3>2. /\ on[held] = q /\ kernel[held] # "none"
          /\ kernel[held] = "queued" =>
               \E i \in 1 .. Len(ring[q]) : IsKernel(q, i, held) /\ Slot(q, i) = first[q]
      BY <1>0, <3>1 DEF SlotOK
    <3>3. kernel[held] # "queued"
      <4>1. SUFFICES ASSUME NEW i \in 1 .. Len(ring[q]), IsKernel(q, i, held), Slot(q, i) = first[q]
                     PROVE  FALSE
        BY <3>2
      <4>2. i # 1
        BY <1>4, <4>1 DEF CompleteBarrier, Head1, IsKernel
      <4>3. i \in 1 .. Size
        <5>1. Len(ring[q]) \in Nat
          BY <1>1
        <5>2. i <= Size
          BY <1>0, <4>1 DEF PacketsOK, InSlots, IsKernel
        <5> QED BY <5>1, <5>2, DispatchAssumption
      <4>4. (first[q] + i - 1) % Size =
              IF first[q] + i - 1 < Size THEN first[q] + i - 1 ELSE first[q] + i - 1 - Size
        BY <3>1, <4>3, SlotIs
      <4> QED BY <3>1, <4>1, <4>2, <4>3, <4>4, DispatchAssumption DEF Slot
    <3>4. kernel[held] # "running"
      BY <1>4, <3>1, <3>2 DEF CompleteBarrier, BarrierReady, BarrierBit
    <3>5. kernel[held] = "done"
      BY <1>1, <3>1, <3>2, <3>3, <3>4
    <3> QED BY <1>0, <1>1, <2>1, <2>2, <2>4, <3>1, <3>5 DEF SignalOK
  <2> QED BY <2>3, <2>4
<1>5. ASSUME NEW j \in Jobs, FinishKernel(j) PROVE SignalOK'
  BY <1>0, <1>1, <1>5 DEF FinishKernel, SignalOK
<1>6. CASE UNCHANGED deviceVars
  BY <1>0, <1>6 DEF SignalOK, deviceVars
<1>7. ASSUME NEW j \in Jobs, \/ \E D \in SUBSET Jobs : Build(j, D)
                             \/ Discard(j) \/ Call(j) \/ Drop(j) \/ DropStep(j)
                             \/ Refuse(j) \/ Admit(j) \/ Oom(j) \/ Alloc(j)
                             \/ EnqueueFails(j) \/ EnqueueBarrier(j)
      PROVE  UNCHANGED deviceVars
  BY <1>7 DEF Build, Discard, Call, Drop, DropStep, DropHost, DropDevice, DropPanics,
              Refuse, Admit, Oom, Alloc, EnqueueFails, EnqueueBarrier
<1>8. Wash => UNCHANGED deviceVars
  BY DEF Wash
<1> QED
  BY <1>2, <1>3, <1>4, <1>5, <1>6, <1>7, <1>8 DEF Next, CallStep, Agent

LEMMA HeldStep == IInv /\ Next => HeldOK'
<1> SUFFICES ASSUME IInv, Next PROVE HeldOK'
  OBVIOUS
<1>0. TypeOK /\ StateOK /\ PacketsOK /\ SignalOK /\ HeldOK
  BY DEF IInv
<1>1. /\ state \in [Jobs -> States] /\ deps \in [Jobs -> SUBSET Jobs]
      /\ kernel \in [Jobs -> {"none", "queued", "running", "done"}]
  BY <1>0 DEF TypeOK
<1>2. \A j \in Jobs : InFlight(j) => state[j] \notin {"none", "args", "calling", "discarded"}
  BY <1>0 DEF StateOK, InFlight
<1>3. ASSUME NEW j \in Jobs, NEW D \in SUBSET Jobs, Build(j, D) PROVE HeldOK'
  BY <1>0, <1>1, <1>2, <1>3 DEF Build, HeldOK, InFlight, deviceVars
<1>4. ASSUME NEW j \in Jobs, Discard(j) PROVE HeldOK'
  BY <1>0, <1>1, <1>2, <1>4 DEF Discard, DropOwned, HeldOK, InFlight, deviceVars
<1>5. ASSUME NEW j \in Jobs, DropHost(j) \/ DropDevice(j) PROVE HeldOK'
  <2>1. kernel[j] = "done"
    BY <1>0, <1>5 DEF DropHost, DropDevice, HostWaitOver, SignalOK
  <2>2. /\ state' = DropOwned([state EXCEPT ![j] = "dropped"], deps[j])
        /\ kernel' = kernel /\ panicked' = panicked
    BY <1>5 DEF DropHost, DropDevice, DropArgs, deviceVars
  <2> QED BY <1>0, <1>1, <2>1, <2>2 DEF DropOwned, HeldOK, InFlight
<1>6. ASSUME NEW j \in Jobs, DropPanics(j) PROVE HeldOK'
  BY <1>6 DEF DropPanics, HeldOK
<1>7. ASSUME NEW j \in Jobs, Call(j) \/ Drop(j) PROVE HeldOK'
  BY <1>0, <1>1, <1>2, <1>7 DEF Call, Drop, HeldOK, InFlight, deviceVars
<1>8. ASSUME NEW j \in Jobs, Refuse(j) \/ Oom(j) \/ EnqueueFails(j) PROVE HeldOK'
  BY <1>0, <1>1, <1>2, <1>8 DEF Refuse, Oom, EnqueueFails, InCall, Return, HeldOK, InFlight, deviceVars
<1>9. ASSUME NEW j \in Jobs, EnqueueKernel(j) PROVE HeldOK'
  BY <1>0, <1>1, <1>9 DEF EnqueueKernel, HeldOK, InFlight
<1>10. ASSUME NEW q \in Queues, StartKernel(q) PROVE HeldOK'
  <2>1. 1 \in 1 .. Len(ring[q]) /\ ring[q][1] \in Packet
    BY <1>0, <1>10, RingPop DEF StartKernel, Pop, TypeOK
  <2>2. Head1(q).job \in Jobs /\ kernel[Head1(q).job] = "queued"
    BY <1>0, <1>10, <2>1 DEF StartKernel, Head1, PacketsOK, KernelsQueued, Packet
  <2> QED BY <1>0, <1>1, <1>10, <2>2 DEF StartKernel, HeldOK, InFlight
<1>11. ASSUME NEW j \in Jobs, FinishKernel(j) PROVE HeldOK'
  BY <1>0, <1>1, <1>11 DEF FinishKernel, HeldOK, InFlight
<1>12. CASE UNCHANGED <<state, kernel, panicked>>
  BY <1>0, <1>12 DEF HeldOK, InFlight
<1>13. ASSUME NEW j \in Jobs, Admit(j) \/ Alloc(j) \/ EnqueueBarrier(j)
       PROVE  UNCHANGED <<state, kernel, panicked>>
  BY <1>13 DEF Admit, Alloc, EnqueueBarrier, deviceVars
<1>14. ASSUME NEW q \in Queues, CompleteBarrier(q) PROVE UNCHANGED <<state, kernel, panicked>>
  BY <1>14 DEF CompleteBarrier
<1>15. Wash => UNCHANGED <<state, kernel, panicked>>
  BY DEF Wash, deviceVars
<1> QED
  BY <1>3, <1>4, <1>5, <1>6, <1>7, <1>8, <1>9, <1>10, <1>11, <1>12, <1>13, <1>14, <1>15
     DEF Next, CallStep, DropStep, Agent

LEMMA BlockStep == IInv /\ Next => BlockOK'
<1> SUFFICES ASSUME IInv, Next PROVE BlockOK'
  OBVIOUS
<1>0. TypeOK /\ OwnOK /\ BlockOK
  BY DEF IInv
<1>1. /\ state \in [Jobs -> States] /\ deps \in [Jobs -> SUBSET Jobs]
      /\ at \in [Jobs -> {"check", "alloc", "enqueue"}]
      /\ block \in [Jobs -> 0 .. Blocks] /\ used \in 0 .. Blocks /\ Blocks \in Nat
      /\ mem \in [1 .. Blocks -> Jobs \cup {None}]
  BY <1>0, DispatchAssumption DEF TypeOK
<1>2. ASSUME NEW j \in Jobs, NEW D \in SUBSET Jobs, Build(j, D) PROVE BlockOK'
  BY <1>0, <1>1, <1>2 DEF Build, BlockOK, InCall, callVars, poolVars
<1>3. ASSUME NEW j \in Jobs, Discard(j) \/ DropStep(j) PROVE BlockOK'
  <2>1. \A k \in deps[j] : state[k] = "moved"
    BY <1>0, <1>3 DEF OwnOK, Discard, DropStep, DropHost, DropDevice, DropPanics
  <2>2. UNCHANGED <<block, used, mem, at>>
    BY <1>3 DEF Discard, DropStep, DropHost, DropDevice, DropPanics, callVars, poolVars
  <2>3. PICK x \in {"dropped", "discarded"} : state' = DropOwned([state EXCEPT ![j] = x], deps[j])
    BY <1>3 DEF Discard, DropStep, DropHost, DropDevice, DropPanics, DropArgs
  <2>4. \A k \in Jobs : state'[k] = IF k \in deps[j] THEN "dropping" ELSE IF k = j THEN x ELSE state[k]
    BY <1>1, <2>3 DEF DropOwned
  <2> QED BY <1>0, <2>1, <2>2, <2>4 DEF BlockOK, InCall
<1>4. ASSUME NEW j \in Jobs, Call(j) \/ Drop(j) PROVE BlockOK'
  BY <1>0, <1>1, <1>4 DEF Call, Drop, BlockOK, InCall, callVars, poolVars
<1>5. ASSUME NEW j \in Jobs, Refuse(j) \/ Oom(j) PROVE BlockOK'
  BY <1>0, <1>1, <1>5 DEF Refuse, Oom, InCall, Return, BlockOK, callVars, poolVars
<1>6. ASSUME NEW j \in Jobs, Admit(j) PROVE BlockOK'
  BY <1>0, <1>1, <1>6 DEF Admit, BlockOK, InCall, poolVars
<1>7. ASSUME NEW j \in Jobs, Alloc(j) PROVE BlockOK'
  <2>1. state[j] = "calling" /\ state' = state /\ at' = [at EXCEPT ![j] = "enqueue"]
    BY <1>7 DEF Alloc, InCall
  <2>2. used' = used + 1 /\ block' = [block EXCEPT ![j] = used + 1] /\ mem' = mem
    BY <1>7 DEF Alloc
  <2> QED BY <1>0, <1>1, <2>1, <2>2 DEF BlockOK, InCall
<1>8. ASSUME NEW j \in Jobs, EnqueueFails(j) \/ EnqueueKernel(j) PROVE BlockOK'
  <2>1. InCall(j, "enqueue") /\ block[j] \in 1 .. Blocks
    BY <1>0, <1>1, <1>8 DEF EnqueueFails, EnqueueKernel, BlockOK
  <2>2. UNCHANGED <<block, used, at>>
    BY <1>8 DEF EnqueueFails, EnqueueKernel, callVars
  <2>3. CASE EnqueueFails(j)
    <3>1. mem' = mem \/ mem' = [mem EXCEPT ![block[j]] = j]
      BY <2>3 DEF EnqueueFails
    <3>2. state' = [state EXCEPT ![j] = "args"]
      BY <2>3 DEF EnqueueFails, Return
    <3> QED BY <1>0, <1>1, <2>1, <2>2, <3>1, <3>2 DEF BlockOK, InCall
  <2>4. CASE EnqueueKernel(j)
    <3>1. mem' = [mem EXCEPT ![block[j]] = j] /\ state' = [state EXCEPT ![j] = "launched"]
      BY <2>4 DEF EnqueueKernel
    <3> QED BY <1>0, <1>1, <2>1, <2>2, <3>1 DEF BlockOK, InCall
  <2> QED BY <1>8, <2>3, <2>4
<1>9. ASSUME Wash PROVE BlockOK'
  BY <1>0, <1>1, <1>9 DEF Wash, PoolUnused, BlockOK, InCall, callVars
<1>10. CASE UNCHANGED <<state, at, block, used, mem>>
  BY <1>0, <1>10 DEF BlockOK, InCall
<1>11. ASSUME NEW j \in Jobs, EnqueueBarrier(j) \/ FinishKernel(j)
       PROVE  UNCHANGED <<state, at, block, used, mem>>
  BY <1>11 DEF EnqueueBarrier, FinishKernel, callVars, poolVars
<1>12. ASSUME NEW q \in Queues, Agent(q) PROVE UNCHANGED <<state, at, block, used, mem>>
  BY <1>12 DEF Agent, StartKernel, CompleteBarrier, callVars, poolVars
<1> QED
  BY <1>2, <1>3, <1>4, <1>5, <1>6, <1>7, <1>8, <1>9, <1>10, <1>11, <1>12 DEF Next, CallStep

LEMMA RunsStep == IInv /\ Next => RunsAfterDeps'
<1> SUFFICES ASSUME IInv, Next PROVE RunsAfterDeps'
  OBVIOUS
<1>0. TypeOK /\ StateOK /\ PacketsOK /\ CoverOK /\ RunsAfterDeps
  BY DEF IInv
<1>1. /\ deps \in [Jobs -> SUBSET Jobs]
      /\ kernel \in [Jobs -> {"none", "queued", "running", "done"}]
  BY <1>0 DEF TypeOK
<1>2. ASSUME NEW j \in Jobs, NEW D \in SUBSET Jobs, Build(j, D) PROVE RunsAfterDeps'
  BY <1>0, <1>1, <1>2 DEF Build, StateOK, RunsAfterDeps, deviceVars
<1>3. ASSUME NEW j \in Jobs, EnqueueKernel(j) PROVE RunsAfterDeps'
  <2>1. kernel[j] = "none"
    BY <1>0, <1>3 DEF EnqueueKernel, InCall, StateOK
  <2>2. kernel' = [kernel EXCEPT ![j] = "queued"] /\ deps' = deps
    BY <1>3 DEF EnqueueKernel
  <2> QED BY <1>0, <1>1, <2>1, <2>2 DEF RunsAfterDeps
<1>4. ASSUME NEW q \in Queues, StartKernel(q) PROVE RunsAfterDeps'
  <2> DEFINE h == Head1(q).job
  <2>1. 1 \in 1 .. Len(ring[q]) /\ ring[q][1] \in Packet /\ ring[q][1].kind = "kernel"
    BY <1>0, <1>4, RingPop DEF StartKernel, Pop, TypeOK, Head1
  <2>2. h \in Jobs /\ kernel[h] = "queued"
    BY <1>0, <2>1 DEF Head1, PacketsOK, KernelsQueued, Packet
  <2>3. \A k \in deps[h] : kernel[k] = "done"
    BY <1>0, <2>1 DEF CoverOK, Head1
  <2>4. kernel' = [kernel EXCEPT ![h] = "running"] /\ deps' = deps
    BY <1>4 DEF StartKernel
  <2> QED BY <1>0, <1>1, <2>2, <2>3, <2>4 DEF RunsAfterDeps
<1>5. ASSUME NEW j \in Jobs, FinishKernel(j) PROVE RunsAfterDeps'
  BY <1>0, <1>1, <1>5 DEF FinishKernel, RunsAfterDeps
<1>6. CASE UNCHANGED <<deps, kernel>>
  BY <1>0, <1>6 DEF RunsAfterDeps
<1>7. ASSUME NEW j \in Jobs, \/ Discard(j) \/ Call(j) \/ Drop(j) \/ DropStep(j)
                             \/ Refuse(j) \/ Admit(j) \/ Oom(j) \/ Alloc(j)
                             \/ EnqueueFails(j) \/ EnqueueBarrier(j)
      PROVE  UNCHANGED <<deps, kernel>>
  BY <1>7 DEF Discard, Call, Drop, DropStep, DropHost, DropDevice, DropPanics, deviceVars,
              Refuse, Admit, Oom, Alloc, EnqueueFails, EnqueueBarrier
<1>8. ASSUME NEW q \in Queues, CompleteBarrier(q) PROVE UNCHANGED <<deps, kernel>>
  BY <1>8 DEF CompleteBarrier
<1>9. Wash => UNCHANGED <<deps, kernel>>
  BY DEF Wash, deviceVars
<1> QED
  BY <1>2, <1>3, <1>4, <1>5, <1>6, <1>7, <1>8, <1>9 DEF Next, CallStep, Agent

LEMMA SlotStep == IInv /\ Next => SlotOK'
<1> SUFFICES ASSUME IInv, Next PROVE SlotOK'
  OBVIOUS
<1>0. TypeOK /\ StateOK /\ PacketsOK /\ SlotOK
  BY DEF IInv
<1>1. /\ ring \in [Queues -> Seq(Packet)] /\ first \in [Queues -> 0 .. Size - 1]
      /\ slotSignal \in [Queues -> [0 .. Size - 1 -> Jobs \cup {None}]]
      /\ kernel \in [Jobs -> {"none", "queued", "running", "done"}]
      /\ on \in [Jobs -> Queues] /\ Size \in Nat \ {0}
  BY <1>0, DispatchAssumption DEF TypeOK
<1>2. ASSUME NEW j \in Jobs, EnqueueFails(j) \/ EnqueueBarrier(j) PROVE SlotOK'
  <2>1. PICK p \in Packet : ring' = [ring EXCEPT ![on[j]] = Append(@, p)]
    <3>1. CASE EnqueueFails(j)
      BY <3>1 DEF EnqueueFails, Gap, Packet
    <3>2. CASE EnqueueBarrier(j)
      <4>1. todo[j] \in SUBSET Jobs
        BY <1>0 DEF TypeOK
      <4> QED BY <3>2, <4>1 DEF EnqueueBarrier, Packet, Batches
    <3> QED BY <1>2, <3>1, <3>2
  <2>2. UNCHANGED <<on, first, slotSignal, kernel>>
    BY <1>2 DEF EnqueueFails, EnqueueBarrier, deviceVars
  <2>3. \A q \in Queues : /\ Len(ring[q]) \in Nat /\ Len(ring[q]) <= Len(ring'[q]) /\ Len(ring'[q]) \in Nat
                          /\ \A i \in 1 .. Len(ring[q]) : ring'[q][i] = ring[q][i]
    BY <1>1, <2>1, RingAppend
  <2> SUFFICES ASSUME NEW r \in Queues, NEW s \in 0 .. Size - 1, NEW k \in Jobs, slotSignal'[r][s] = k
               PROVE  /\ on'[k] = r /\ kernel'[k] # "none"
                      /\ kernel'[k] = "queued" =>
                           \E i \in 1 .. Len(ring'[r]) : IsKernel(r, i, k)' /\ Slot(r, i)' = s
    BY DEF SlotOK
  <2>4. /\ on[k] = r /\ kernel[k] # "none"
        /\ kernel[k] = "queued" => \E i \in 1 .. Len(ring[r]) : IsKernel(r, i, k) /\ Slot(r, i) = s
    BY <1>0, <2>2 DEF SlotOK
  <2>5. ASSUME kernel[k] = "queued"
        PROVE  \E i \in 1 .. Len(ring'[r]) : IsKernel(r, i, k)' /\ Slot(r, i)' = s
    <3>1. PICK i \in 1 .. Len(ring[r]) : IsKernel(r, i, k) /\ Slot(r, i) = s
      BY <2>4, <2>5
    <3>2. i \in 1 .. Len(ring'[r]) /\ IsKernel(r, i, k)' /\ Slot(r, i)' = s
      BY <2>2, <2>3, <3>1 DEF IsKernel, Slot
    <3> QED BY <3>2
  <2> QED BY <2>2, <2>4, <2>5
<1>3. ASSUME NEW j \in Jobs, EnqueueKernel(j) PROVE SlotOK'
  <2> DEFINE p == [kind |-> "kernel", job |-> j, deps |-> {}]
  <2>0. PICK q \in Queues, n \in Nat : q = on[j] /\ n = Len(ring[q]) + 1
    <3>1. on[j] \in Queues /\ Len(ring[on[j]]) + 1 \in Nat
      BY <1>1
    <3> QED BY <3>1
  <2>1. q = on[j] /\ n = Len(ring[q]) + 1 /\ p \in Packet /\ ring' = [ring EXCEPT ![q] = Append(@, p)]
    BY <1>1, <1>3, <2>0 DEF EnqueueKernel, Packet
  <2>2. /\ \A r \in Queues : r # q => ring'[r] = ring[r]
        /\ Len(ring[q]) \in Nat /\ Len(ring'[q]) = n /\ ring'[q][n] = p
        /\ \A i \in 1 .. Len(ring[q]) : ring'[q][i] = ring[q][i]
    BY <1>1, <2>1, RingAppend
  <2>3. /\ kernel[j] = "none" /\ kernel' = [kernel EXCEPT ![j] = "queued"]
        /\ on' = on /\ first' = first
        /\ slotSignal' = [slotSignal EXCEPT ![q][NextSlot(q)] = j]
    BY <1>0, <1>3, <2>1 DEF EnqueueKernel, InCall, StateOK
  <2>4. NextSlot(q) = Slot(q, n)
    BY <1>1, <2>1, <2>2 DEF NextSlot, Slot
  <2> SUFFICES ASSUME NEW r \in Queues, NEW s \in 0 .. Size - 1, NEW k \in Jobs, slotSignal'[r][s] = k
               PROVE  /\ on'[k] = r /\ kernel'[k] # "none"
                      /\ kernel'[k] = "queued" =>
                           \E i \in 1 .. Len(ring'[r]) : IsKernel(r, i, k)' /\ Slot(r, i)' = s
    BY DEF SlotOK
  <2>5. CASE r = q /\ s = NextSlot(q)
    <3>1. k = j /\ n \in 1 .. Len(ring'[r]) /\ ring'[r][n] = p
      BY <1>1, <2>1, <2>2, <2>3, <2>5
    <3>2. IsKernel(r, n, k)' /\ Slot(r, n)' = s
      BY <2>3, <2>4, <2>5, <3>1 DEF IsKernel, Slot
    <3> QED BY <1>1, <2>1, <2>3, <2>5, <3>1, <3>2
  <2>6. CASE ~(r = q /\ s = NextSlot(q))
    <3>1. slotSignal[r][s] = k
      BY <1>1, <2>1, <2>3, <2>6
    <3>2. /\ on[k] = r /\ kernel[k] # "none"
          /\ kernel[k] = "queued" => \E i \in 1 .. Len(ring[r]) : IsKernel(r, i, k) /\ Slot(r, i) = s
      BY <1>0, <3>1 DEF SlotOK
    <3>3. k # j /\ kernel'[k] = kernel[k]
      BY <1>1, <2>3, <3>2
    <3>4. ASSUME NEW i \in 1 .. Len(ring[r]) PROVE i \in 1 .. Len(ring'[r]) /\ ring'[r][i] = ring[r][i]
      <4>1. CASE r = q
        BY <2>1, <2>2, <3>4, <4>1
      <4>2. CASE r # q
        BY <2>2, <3>4, <4>2
      <4> QED BY <4>1, <4>2
    <3> QED BY <2>3, <3>2, <3>3, <3>4 DEF IsKernel, Slot
  <2> QED BY <2>5, <2>6
<1>4. ASSUME NEW q \in Queues, Agent(q) PROVE SlotOK'
  <2> DEFINE h == Head1(q)
  <2>1. ring[q] # <<>> /\ Pop(q)
    BY <1>4 DEF Agent, StartKernel, CompleteBarrier
  <2>2. /\ \A r \in Queues : r # q => ring'[r] = ring[r] /\ first'[r] = first[r]
        /\ Len(ring[q]) \in Nat \ {0} /\ Len(ring'[q]) = Len(ring[q]) - 1 /\ h \in Packet
        /\ \A i \in 1 .. Len(ring'[q]) : ring'[q][i] = ring[q][i + 1]
        /\ first'[q] = (first[q] + 1) % Size
    BY <1>1, <2>1, RingPop DEF Pop, Head1
  <2>3. on' = on /\ slotSignal' = slotSignal
    BY <1>4 DEF Agent, StartKernel, CompleteBarrier
  <2>4. /\ \A k \in Jobs : kernel'[k] = "none" => kernel[k] = "none"
        /\ \A k \in Jobs : kernel'[k] = "queued" => kernel[k] = "queued" /\ ~IsKernel(q, 1, k)
    <3>1. CASE StartKernel(q)
      <4>1. h.job \in Jobs /\ kernel' = [kernel EXCEPT ![h.job] = "running"]
        BY <2>2, <3>1 DEF StartKernel, Packet
      <4> QED BY <1>1, <4>1 DEF IsKernel, Head1
    <3>2. CASE CompleteBarrier(q)
      BY <3>2 DEF CompleteBarrier, IsKernel, Head1
    <3> QED BY <1>4, <3>1, <3>2 DEF Agent
  <2>5. ASSUME NEW i \in 2 .. Len(ring[q]), i <= Size PROVE Slot(q, i - 1)' = Slot(q, i)
    <3>1. first[q] \in 0 .. Size - 1 /\ first'[q] \in 0 .. Size - 1
      BY <1>1, <2>2
    <3>2. (first[q] + i - 1) % Size =
            IF first[q] + i - 1 < Size THEN first[q] + i - 1 ELSE first[q] + i - 1 - Size
      BY <1>1, <2>5, <3>1, SlotIs
    <3>3. (first'[q] + (i - 1) - 1) % Size =
            IF first'[q] + (i - 1) - 1 < Size THEN first'[q] + (i - 1) - 1
                                             ELSE first'[q] + (i - 1) - 1 - Size
      <4>1. i - 1 \in 1 .. Size
        BY <1>1, <2>2, <2>5
      <4> QED BY <3>1, <4>1, SlotIs
    <3>4. first'[q] = IF first[q] + 1 < Size THEN first[q] + 1 ELSE first[q] + 1 - Size
      <4>1. (first[q] + 1) % Size = IF first[q] + 1 < Size THEN first[q] + 1 ELSE first[q] + 1 - Size
        BY <3>1, SlotAfter
      <4> QED BY <2>2, <4>1
    <3>5. Slot(q, i) = IF first[q] + i - 1 < Size THEN first[q] + i - 1 ELSE first[q] + i - 1 - Size
      BY <3>2 DEF Slot
    <3>6. Slot(q, i - 1)' = IF first'[q] + (i - 1) - 1 < Size THEN first'[q] + (i - 1) - 1
                                                              ELSE first'[q] + (i - 1) - 1 - Size
      BY <3>3 DEF Slot
    <3>7. i \in Nat /\ i >= 2 /\ i <= Size /\ Size \in Nat
      BY <1>1, <2>2, <2>5
    <3>8. (IF first'[q] + (i - 1) - 1 < Size THEN first'[q] + (i - 1) - 1
                                             ELSE first'[q] + (i - 1) - 1 - Size)
            = (IF first[q] + i - 1 < Size THEN first[q] + i - 1 ELSE first[q] + i - 1 - Size)
      BY <3>1, <3>4, <3>7, SlotKeeps
    <3> QED BY <3>5, <3>6, <3>8
  <2> SUFFICES ASSUME NEW r \in Queues, NEW s \in 0 .. Size - 1, NEW k \in Jobs, slotSignal'[r][s] = k
               PROVE  /\ on'[k] = r /\ kernel'[k] # "none"
                      /\ kernel'[k] = "queued" =>
                           \E i \in 1 .. Len(ring'[r]) : IsKernel(r, i, k)' /\ Slot(r, i)' = s
    BY DEF SlotOK
  <2>6. /\ on[k] = r /\ kernel[k] # "none"
        /\ kernel[k] = "queued" => \E i \in 1 .. Len(ring[r]) : IsKernel(r, i, k) /\ Slot(r, i) = s
    BY <1>0, <2>3 DEF SlotOK
  <2>7. ASSUME kernel'[k] = "queued"
        PROVE  \E i \in 1 .. Len(ring'[r]) : IsKernel(r, i, k)' /\ Slot(r, i)' = s
    <3>1. PICK i \in 1 .. Len(ring[r]) : IsKernel(r, i, k) /\ Slot(r, i) = s
      BY <2>4, <2>6, <2>7
    <3>2. CASE r # q
      BY <2>2, <3>1, <3>2 DEF IsKernel, Slot
    <3>3. CASE r = q
      <4>1. i \in 2 .. Len(ring[q]) /\ i <= Size
        BY <1>0, <2>2, <2>4, <2>7, <3>1, <3>3 DEF PacketsOK, InSlots, IsKernel
      <4>2. i - 1 \in 1 .. Len(ring'[q]) /\ ring'[q][i - 1] = ring[q][i]
        BY <2>2, <4>1
      <4>3. Slot(q, i - 1)' = s
        BY <2>5, <3>1, <3>3, <4>1
      <4> QED BY <3>1, <3>3, <4>2, <4>3 DEF IsKernel
    <3> QED BY <3>2, <3>3
  <2> QED BY <2>3, <2>4, <2>6, <2>7
<1>5. ASSUME NEW j \in Jobs, FinishKernel(j) PROVE SlotOK'
  <2>1. /\ kernel' = [kernel EXCEPT ![j] = "done"] /\ UNCHANGED <<on, queueVars>>
    BY <1>5 DEF FinishKernel
  <2> SUFFICES ASSUME NEW r \in Queues, NEW s \in 0 .. Size - 1, NEW k \in Jobs, slotSignal'[r][s] = k
               PROVE  /\ on'[k] = r /\ kernel'[k] # "none"
                      /\ kernel'[k] = "queued" =>
                           \E i \in 1 .. Len(ring'[r]) : IsKernel(r, i, k)' /\ Slot(r, i)' = s
    BY DEF SlotOK
  <2>2. /\ on[k] = r /\ kernel[k] # "none"
        /\ kernel[k] = "queued" => \E i \in 1 .. Len(ring[r]) : IsKernel(r, i, k) /\ Slot(r, i) = s
    BY <1>0, <2>1 DEF SlotOK, queueVars
  <2>3. kernel'[k] # "none" /\ (kernel'[k] = "queued" => kernel[k] = "queued")
    BY <1>1, <2>1, <2>2
  <2> QED BY <2>1, <2>2, <2>3 DEF queueVars, IsKernel, Slot
<1>6. CASE UNCHANGED <<on, queueVars, kernel>>
  BY <1>0, <1>6 DEF SlotOK, IsKernel, Slot, queueVars
<1>7. ASSUME NEW j \in Jobs, \/ \E D \in SUBSET Jobs : Build(j, D)
                             \/ Discard(j) \/ Call(j) \/ Drop(j) \/ DropStep(j)
                             \/ Refuse(j) \/ Admit(j) \/ Oom(j) \/ Alloc(j)
      PROVE  UNCHANGED <<on, queueVars, kernel>>
  BY <1>7 DEF Build, Discard, Call, Drop, DropStep, DropHost, DropDevice, DropPanics, deviceVars,
              Refuse, Admit, Oom, Alloc
<1>8. Wash => UNCHANGED <<on, queueVars, kernel>>
  BY DEF Wash, deviceVars
<1> QED
  BY <1>2, <1>3, <1>4, <1>5, <1>6, <1>7, <1>8 DEF Next, CallStep

(* What a step must keep for the packets of the rings to mean the same.    *)
Keeps ==
  /\ UNCHANGED <<on, ring, failed>>
  /\ \A j \in Jobs :
       /\ state[j] = "calling" /\ at[j] = "enqueue" => state'[j] = "calling" /\ at'[j] = "enqueue"
       /\ deps[j] \subseteq deps'[j]
       /\ kernel[j] = "queued" => kernel'[j] = "queued" /\ deps'[j] = deps[j]
       /\ kernel[j] = "done" => kernel'[j] = "done"
       /\ state'[j] = "calling" /\ at'[j] = "enqueue" =>
            /\ state[j] = "calling" /\ deps'[j] = deps[j]
            /\ (at[j] = "enqueue" /\ todo'[j] = todo[j]) \/ todo'[j] = deps[j]

LEMMA QuietSteps ==
  ASSUME IInv, NEW j \in Jobs,
         \/ \E D \in SUBSET Jobs : Build(j, D)
         \/ Discard(j) \/ Call(j) \/ Drop(j) \/ DropStep(j)
         \/ Refuse(j) \/ Admit(j) \/ Oom(j) \/ Alloc(j) \/ FinishKernel(j)
  PROVE  Keeps
<1>0. TypeOK /\ StateOK /\ OwnOK
  BY DEF IInv
<1>1. /\ state \in [Jobs -> States] /\ deps \in [Jobs -> SUBSET Jobs]
      /\ at \in [Jobs -> {"check", "alloc", "enqueue"}] /\ todo \in [Jobs -> SUBSET Jobs]
      /\ kernel \in [Jobs -> {"none", "queued", "running", "done"}]
  BY <1>0 DEF TypeOK
<1>. USE DEF Keeps, callVars, poolVars, queueVars, deviceVars, InCall
<1>2. ASSUME NEW D \in SUBSET Jobs, Build(j, D) PROVE Keeps
  <2>1. /\ \A k \in Jobs : state'[k] = IF k = j THEN "args" ELSE IF k \in D THEN "moved" ELSE state[k]
        /\ state[j] = "none" /\ kernel[j] = "none" /\ deps[j] = {}
        /\ \A k \in D : state[k] = "launched"
    BY <1>0, <1>2 DEF Build, StateOK
  <2> QED BY <1>1, <1>2, <2>1 DEF Build
<1>3. ASSUME Discard(j) \/ DropStep(j) PROVE Keeps
  <2>1. \A k \in deps[j] : state[k] = "moved"
    BY <1>0, <1>3 DEF OwnOK, Discard, DropStep, DropHost, DropDevice, DropPanics
  <2>2. UNCHANGED <<deps, on, at, todo, failed, ring, kernel>>
    BY <1>3 DEF Discard, DropStep, DropHost, DropDevice, DropPanics
  <2>3. PICK x \in {"dropped", "discarded"} : state' = DropOwned([state EXCEPT ![j] = x], deps[j])
    BY <1>3 DEF Discard, DropStep, DropHost, DropDevice, DropPanics, DropArgs
  <2>4. state[j] # "calling"
    BY <1>3 DEF Discard, DropStep, DropHost, DropDevice, DropPanics
  <2>5. \A k \in Jobs : state'[k] = IF k \in deps[j] THEN "dropping" ELSE IF k = j THEN x ELSE state[k]
    BY <1>1, <2>3 DEF DropOwned
  <2> QED BY <1>1, <2>1, <2>2, <2>4, <2>5
<1>4. ASSUME Call(j) \/ Drop(j) PROVE Keeps
  BY <1>1, <1>4 DEF Call, Drop
<1>5. ASSUME Refuse(j) \/ Oom(j) PROVE Keeps
  BY <1>1, <1>5 DEF Refuse, Oom, Return
<1>6. ASSUME Admit(j) PROVE Keeps
  BY <1>1, <1>6 DEF Admit
<1>7. ASSUME Alloc(j) PROVE Keeps
  <2>1. IterArgDeps(j) = deps[j]
    BY <1>0, <1>1 DEF OwnOK, IterArgDeps, IterDeps
  <2> QED BY <1>1, <1>7, <2>1 DEF Alloc
<1>8. ASSUME FinishKernel(j) PROVE Keeps
  BY <1>1, <1>8 DEF FinishKernel
<1> QED BY <1>2, <1>3, <1>4, <1>5, <1>6, <1>7, <1>8

LEMMA QuietWash == Wash \/ UNCHANGED vars => Keeps
BY DEF Wash, Keeps, vars, callVars, poolVars, queueVars, deviceVars

LEMMA PacketsKept == TypeOK /\ PacketsOK /\ Keeps => PacketsOK'
<1> SUFFICES ASSUME TypeOK, PacketsOK, Keeps PROVE PacketsOK'
  OBVIOUS
<1>1. ring' = ring /\ on' = on
  BY DEF Keeps
<1>2. ASSUME NEW q \in Queues, NEW i \in 1 .. Len(ring[q]) PROVE ring[q][i].job \in Jobs
  <2>1. ring[q] \in Seq(Packet)
    BY DEF TypeOK
  <2>2. ring[q][i] \in Packet
    BY <2>1
  <2> QED BY <2>2 DEF Packet
<1>3. InSlots' /\ KernelsLast'
  BY <1>1 DEF PacketsOK, InSlots, KernelsLast
<1>4. KernelsQueued'
  BY <1>1, <1>2 DEF PacketsOK, KernelsQueued, Keeps
<1>5. BarrierDeps'
  <2> SUFFICES ASSUME NEW q \in Queues, NEW i \in 1 .. Len(ring[q]), ring[q][i].kind = "barrier"
               PROVE  ring[q][i].deps \subseteq deps'[ring[q][i].job]
    BY <1>1 DEF BarrierDeps
  <2>1. ring[q][i].deps \subseteq deps[ring[q][i].job]
    BY DEF PacketsOK, BarrierDeps
  <2>2. deps[ring[q][i].job] \subseteq deps'[ring[q][i].job]
    BY <1>2 DEF Keeps
  <2> QED BY <2>1, <2>2
<1>6. BarriersHeld'
  <2> SUFFICES ASSUME NEW q \in Queues, NEW i \in 1 .. Len(ring[q]), ring[q][i].kind = "barrier"
               PROVE  Held(ring[q][i].job)'
    BY <1>1 DEF BarriersHeld
  <2>1. PICK j \in Jobs : j = ring[q][i].job
    BY <1>2
  <2>2. Held(j)
    BY <2>1 DEF PacketsOK, BarriersHeld
  <2>3. Held(j)'
    BY <2>2 DEF Held, InCall, Keeps
  <2> QED BY <1>1, <2>1, <2>3 DEF Held, InCall
<1> QED BY <1>3, <1>4, <1>5, <1>6 DEF PacketsOK

LEMMA CoverKept == TypeOK /\ PacketsOK /\ CoverOK /\ Keeps => CoverOK'
<1> SUFFICES ASSUME TypeOK, PacketsOK, CoverOK, Keeps PROVE CoverOK'
  OBVIOUS
<1>1. /\ ring \in [Queues -> Seq(Packet)] /\ deps \in [Jobs -> SUBSET Jobs]
      /\ ring' = ring /\ on' = on
  BY DEF TypeOK, Keeps
<1>2. ASSUME NEW j \in Jobs, InCall(j, "enqueue")'
      PROVE  /\ todo'[j] \subseteq deps'[j]
             /\ \A k \in deps'[j] \ todo'[j] :
                  kernel'[k] = "done" \/ \E n \in 1 .. Len(ring'[on'[j]]) : Guards(on[j], n, k)'
  <2>1. /\ state[j] = "calling" /\ deps'[j] = deps[j]
        /\ (at[j] = "enqueue" /\ todo'[j] = todo[j]) \/ todo'[j] = deps[j]
    BY <1>2 DEF Keeps, InCall
  <2>2. CASE todo'[j] = deps[j]
    BY <2>1, <2>2
  <2>3. CASE at[j] = "enqueue" /\ todo'[j] = todo[j]
    <3>1. /\ todo[j] \subseteq deps[j]
          /\ \A k \in deps[j] \ todo[j] :
               kernel[k] = "done" \/ \E n \in 1 .. Len(ring[on[j]]) : Guards(on[j], n, k)
      BY <2>1, <2>3 DEF CoverOK, InCall
    <3>2. \A k \in deps[j] : kernel[k] = "done" => kernel'[k] = "done"
      BY <1>1 DEF Keeps
    <3> QED BY <1>1, <2>1, <2>3, <3>1, <3>2 DEF Guards
  <2> QED BY <2>1, <2>2, <2>3
<1>3. ASSUME NEW q \in Queues, NEW i \in 1 .. Len(ring[q]), ring[q][i].kind = "kernel",
             NEW k \in deps'[ring[q][i].job]
      PROVE  kernel'[k] = "done" \/ \E n \in 1 .. i - 1 : Guards(q, n, k)'
  <2>1. ring[q][i].job \in Jobs
    <3>1. ring[q] \in Seq(Packet)
      BY <1>1
    <3>2. ring[q][i] \in Packet
      BY <3>1
    <3> QED BY <3>2 DEF Packet
  <2>2. kernel[ring[q][i].job] = "queued"
    BY <1>3 DEF PacketsOK, KernelsQueued
  <2>3. k \in deps[ring[q][i].job] /\ k \in Jobs
    BY <1>1, <1>3, <2>1, <2>2 DEF Keeps
  <2>4. kernel[k] = "done" \/ \E n \in 1 .. i - 1 : Guards(q, n, k)
    BY <1>3, <2>3 DEF CoverOK
  <2>5. kernel[k] = "done" => kernel'[k] = "done"
    BY <2>3 DEF Keeps
  <2> QED BY <1>1, <2>4, <2>5 DEF Guards
<1> QED BY <1>1, <1>2, <1>3 DEF CoverOK

(* The packet p a call of j puts at the end, m + 1, of the ring of q, or   *)
(* the gap it leaves there.                                                *)
Appended(j, q, m, p) ==
  /\ q = on[j] /\ m = Len(ring[q]) /\ p.job = j
  /\ Len(ring'[q]) = m + 1 /\ ring'[q][m + 1] = p
  /\ \A r \in Queues : \A i \in 1 .. Len(ring[r]) :
       i \in 1 .. Len(ring'[r]) /\ ring'[r][i] = ring[r][i]
  /\ \A r \in Queues : \A i \in 1 .. Len(ring'[r]) :
       \/ r = q /\ i = m + 1 /\ ring'[r][i] = p
       \/ i \in 1 .. Len(ring[r]) /\ ring'[r][i] = ring[r][i]
  /\ p.kind # "gap" => m < Size
  /\ p.kind = "gap" => EnqueueFails(j)
  /\ p.kind = "kernel" => EnqueueKernel(j)
  /\ p.kind = "barrier" =>
       EnqueueBarrier(j) /\ p.deps \in Batches(todo[j]) /\ todo'[j] = todo[j] \ p.deps

LEMMA CallAppends ==
  ASSUME IInv, NEW j \in Jobs, EnqueueFails(j) \/ EnqueueBarrier(j) \/ EnqueueKernel(j)
  PROVE  \E q \in Queues, m \in Nat, p \in Packet : Appended(j, q, m, p)
<1>1. /\ ring \in [Queues -> Seq(Packet)] /\ on \in [Jobs -> Queues]
      /\ todo \in [Jobs -> SUBSET Jobs] /\ Size \in Nat \ {0}
  BY DispatchAssumption DEF IInv, TypeOK
<1>2. PICK q \in Queues, m \in Nat : q = on[j] /\ m = Len(ring[q])
  <2>1. on[j] \in Queues /\ Len(ring[on[j]]) \in Nat
    BY <1>1
  <2> QED BY <2>1
<1>3. PICK p \in Packet :
        /\ p.job = j /\ ring' = [ring EXCEPT ![q] = Append(@, p)]
        /\ p.kind # "gap" => m < Size
        /\ p.kind = "gap" => EnqueueFails(j)
        /\ p.kind = "kernel" => EnqueueKernel(j)
        /\ p.kind = "barrier" =>
             EnqueueBarrier(j) /\ p.deps \in Batches(todo[j]) /\ todo'[j] = todo[j] \ p.deps
  <2>1. CASE EnqueueFails(j)
    <3>1. ring' = [ring EXCEPT ![q] = Append(@, Gap(j))]
      BY <1>2, <2>1 DEF EnqueueFails
    <3>2. Gap(j) \in Packet /\ Gap(j).job = j /\ Gap(j).kind = "gap"
      BY DEF Gap, Packet
    <3> QED BY <2>1, <3>1, <3>2
  <2>2. CASE EnqueueBarrier(j)
    <3>1. PICK B \in Batches(todo[j]) :
            /\ ring' = [ring EXCEPT ![on[j]] = Append(@, [kind |-> "barrier", job |-> j, deps |-> B])]
            /\ todo' = [todo EXCEPT ![j] = @ \ B]
      BY <2>2 DEF EnqueueBarrier
    <3>2. B \subseteq Jobs /\ todo'[j] = todo[j] \ B
      BY <1>1, <3>1 DEF Batches
    <3>3. m < Size
      BY <1>1, <1>2, <2>2 DEF EnqueueBarrier, IsFull
    <3> DEFINE b == [kind |-> "barrier", job |-> j, deps |-> B]
    <3>4. b \in Packet /\ b.job = j /\ b.kind = "barrier" /\ b.deps = B
      BY <3>2 DEF Packet
    <3>5. ring' = [ring EXCEPT ![q] = Append(@, b)]
      BY <1>2, <3>1
    <3>. HIDE DEF b
    <3> QED BY <2>2, <3>1, <3>2, <3>3, <3>4, <3>5
  <2>3. CASE EnqueueKernel(j)
    <3>1. m < Size
      BY <1>1, <1>2, <2>3 DEF EnqueueKernel, IsFull
    <3> DEFINE b == [kind |-> "kernel", job |-> j, deps |-> {}]
    <3>2. b \in Packet /\ b.job = j /\ b.kind = "kernel"
      BY DEF Packet
    <3>3. ring' = [ring EXCEPT ![q] = Append(@, b)]
      BY <1>2, <2>3 DEF EnqueueKernel
    <3>. HIDE DEF b
    <3> QED BY <2>3, <3>1, <3>2, <3>3
  <2> QED BY <2>1, <2>2, <2>3
<1>4. /\ \A r \in Queues : r # q => ring'[r] = ring[r]
      /\ Len(ring'[q]) = m + 1 /\ ring'[q][m + 1] = p
      /\ \A i \in 1 .. m : ring'[q][i] = ring[q][i]
      /\ \A i \in 1 .. Len(ring'[q]) : i \in 1 .. m \/ i = m + 1
  BY <1>1, <1>2, <1>3, RingAppend
<1>5. \A r \in Queues : \A i \in 1 .. Len(ring[r]) :
        i \in 1 .. Len(ring'[r]) /\ ring'[r][i] = ring[r][i]
  BY <1>2, <1>4
<1>6. \A r \in Queues : \A i \in 1 .. Len(ring'[r]) :
        \/ r = q /\ i = m + 1 /\ ring'[r][i] = p
        \/ i \in 1 .. Len(ring[r]) /\ ring'[r][i] = ring[r][i]
  BY <1>2, <1>4
<1>7. Appended(j, q, m, p)
  BY <1>2, <1>3, <1>4, <1>5, <1>6 DEF Appended
<1> QED BY <1>7

(* An agent takes the first packet off its ring.                           *)
LEMMA AgentPops ==
  ASSUME IInv, NEW q \in Queues, Agent(q)
  PROVE  /\ Head1(q) \in Packet /\ 1 \in 1 .. Len(ring[q])
         /\ \A r \in Queues : \A i \in 1 .. Len(ring[r]) : ring[r][i] \in Packet
         /\ \A r \in Queues : \A i \in 1 .. Len(ring'[r]) :
              IF r = q THEN i + 1 \in 1 .. Len(ring[r]) /\ ring'[r][i] = ring[r][i + 1]
                       ELSE i \in 1 .. Len(ring[r]) /\ ring'[r][i] = ring[r][i]
         /\ \A r \in Queues : \A i \in 1 .. Len(ring[r]) :
              IF r = q THEN i = 1 \/ \E n \in 1 .. Len(ring'[r]) : n + 1 = i /\ ring'[r][n] = ring[r][i]
                       ELSE i \in 1 .. Len(ring'[r]) /\ ring'[r][i] = ring[r][i]
<1>1. ring \in [Queues -> Seq(Packet)] /\ ring[q] # <<>> /\ Pop(q)
  BY DEF IInv, TypeOK, Agent, StartKernel, CompleteBarrier
<1>2. /\ \A r \in Queues : r # q => ring'[r] = ring[r]
      /\ Len(ring[q]) \in Nat \ {0} /\ Len(ring'[q]) = Len(ring[q]) - 1 /\ Head1(q) \in Packet
      /\ \A i \in 1 .. Len(ring'[q]) : i + 1 \in 1 .. Len(ring[q]) /\ ring'[q][i] = ring[q][i + 1]
  BY <1>1, RingPop DEF Pop, Head1
<1>3. \A r \in Queues : \A i \in 1 .. Len(ring[r]) : ring[r][i] \in Packet
  BY <1>1
<1>4. ASSUME NEW i \in 1 .. Len(ring[q])
      PROVE  i = 1 \/ \E n \in 1 .. Len(ring'[q]) : n + 1 = i /\ ring'[q][n] = ring[q][i]
  <2>1. i = 1 \/ \E n \in 1 .. Len(ring'[q]) : n + 1 = i
    BY <1>2
  <2> QED BY <1>2, <2>1
<1> QED BY <1>2, <1>3, <1>4

LEMMA PacketsStep == IInv /\ Next => PacketsOK'
<1> SUFFICES ASSUME IInv, Next PROVE PacketsOK'
  OBVIOUS
<1>0. TypeOK /\ StateOK /\ CoverOK /\ InSlots /\ KernelsQueued /\ KernelsLast /\ BarrierDeps
      /\ BarriersHeld
  BY DEF IInv, PacketsOK
<1>1. /\ deps \in [Jobs -> SUBSET Jobs] /\ todo \in [Jobs -> SUBSET Jobs]
      /\ state \in [Jobs -> States] /\ kernel \in [Jobs -> {"none", "queued", "running", "done"}]
      /\ Size \in Nat \ {0}
  BY <1>0, DispatchAssumption DEF TypeOK
<1>2. \A q \in Queues : \A i \in 1 .. Len(ring[q]) : ring[q][i] \in Packet
  <2>1. ring \in [Queues -> Seq(Packet)]
    BY <1>0 DEF TypeOK
  <2> QED BY <2>1
<1>3. ASSUME NEW j \in Jobs, EnqueueFails(j) \/ EnqueueBarrier(j) \/ EnqueueKernel(j) PROVE PacketsOK'
  <2>0. PICK q \in Queues, m \in Nat, p \in Packet : Appended(j, q, m, p)
    BY <1>3, CallAppends
  <2>1. /\ q = on[j] /\ m = Len(ring[q]) /\ p.job = j
        /\ Len(ring'[q]) = m + 1
        /\ \A r \in Queues : \A i \in 1 .. Len(ring'[r]) :
             \/ r = q /\ i = m + 1 /\ ring'[r][i] = p
             \/ i \in 1 .. Len(ring[r]) /\ ring'[r][i] = ring[r][i]
        /\ p.kind # "gap" => m < Size
        /\ p.kind = "kernel" => EnqueueKernel(j)
        /\ p.kind = "barrier" => EnqueueBarrier(j) /\ p.deps \in Batches(todo[j])
    BY <2>0 DEF Appended
  <2>2. InCall(j, "enqueue") /\ kernel[j] = "none"
    BY <1>0, <1>3 DEF EnqueueFails, EnqueueBarrier, EnqueueKernel, InCall, StateOK
  <2>3. /\ on' = on /\ deps' = deps /\ at' = at
        /\ \A k \in Jobs : k # j => state'[k] = state[k] /\ kernel'[k] = kernel[k]
        /\ EnqueueFails(j) => failed' = failed \cup {j}
        /\ EnqueueBarrier(j) => failed' = failed /\ state' = state
        /\ EnqueueKernel(j) => failed' = failed /\ kernel'[j] = "queued"
    BY <1>1, <1>3 DEF EnqueueFails, EnqueueBarrier, EnqueueKernel, Return, callVars, deviceVars
  <2>4. ASSUME NEW r \in Queues, NEW i \in 1 .. Len(ring[r]), ring[r][i].kind = "kernel"
        PROVE  ring[r][i].job # j /\ kernel'[ring[r][i].job] = "queued"
    BY <1>0, <1>2, <2>2, <2>3, <2>4 DEF KernelsQueued, Packet
  <2>5. InSlots'
    <3> SUFFICES ASSUME NEW r \in Queues, NEW i \in 1 .. Len(ring'[r]), ring'[r][i].kind # "gap"
                 PROVE  i <= Size /\ on[ring'[r][i].job] = r
      BY <2>3 DEF InSlots
    <3>1. CASE r = q /\ i = m + 1 /\ ring'[r][i] = p
      BY <1>1, <2>1, <3>1
    <3>2. CASE i \in 1 .. Len(ring[r]) /\ ring'[r][i] = ring[r][i]
      BY <1>0, <3>2 DEF InSlots
    <3> QED BY <2>1, <3>1, <3>2
  <2>6. KernelsQueued'
    <3> SUFFICES ASSUME NEW r \in Queues, NEW i \in 1 .. Len(ring'[r]), ring'[r][i].kind = "kernel"
                 PROVE  kernel'[ring'[r][i].job] = "queued"
      BY DEF KernelsQueued
    <3>1. CASE ring'[r][i] = p
      BY <2>1, <2>3, <3>1
    <3>2. CASE i \in 1 .. Len(ring[r]) /\ ring'[r][i] = ring[r][i]
      BY <2>4, <3>2
    <3> QED BY <2>1, <3>1, <3>2
  <2>7. KernelsLast'
    <3> SUFFICES ASSUME NEW r \in Queues, NEW i \in 1 .. Len(ring'[r]), NEW n \in 1 .. Len(ring'[r]),
                        ring'[r][i].kind = "kernel", ring'[r][n].kind # "gap",
                        ring'[r][n].job = ring'[r][i].job
                 PROVE  n <= i
      BY DEF KernelsLast
    <3>1. CASE r = q /\ i = m + 1
      BY <2>1, <3>1
    <3>2. CASE i \in 1 .. Len(ring[r]) /\ ring'[r][i] = ring[r][i]
      <4>1. ring'[r][i].job # j
        BY <2>4, <3>2
      <4>2. n \in 1 .. Len(ring[r]) /\ ring'[r][n] = ring[r][n]
        BY <2>1, <4>1
      <4> QED BY <1>0, <3>2, <4>2 DEF KernelsLast
    <3> QED BY <2>1, <3>1, <3>2
  <2>8. BarrierDeps'
    <3> SUFFICES ASSUME NEW r \in Queues, NEW i \in 1 .. Len(ring'[r]), ring'[r][i].kind = "barrier"
                 PROVE  ring'[r][i].deps \subseteq deps[ring'[r][i].job]
      BY <2>3 DEF BarrierDeps
    <3>1. CASE ring'[r][i] = p
      BY <1>0, <2>1, <2>2, <3>1 DEF CoverOK, Batches
    <3>2. CASE i \in 1 .. Len(ring[r]) /\ ring'[r][i] = ring[r][i]
      BY <1>0, <3>2 DEF BarrierDeps
    <3> QED BY <2>1, <3>1, <3>2
  <2>9. ASSUME NEW k \in Jobs, Held(k) PROVE Held(k)'
    <3>1. CASE k = j
      BY <1>3, <2>2, <2>3, <3>1 DEF Held, InCall
    <3>2. CASE k # j
      BY <1>3, <2>3, <2>9, <3>2 DEF Held, InCall
    <3> QED BY <3>1, <3>2
  <2>10. BarriersHeld'
    <3> SUFFICES ASSUME NEW r \in Queues, NEW i \in 1 .. Len(ring'[r]), ring'[r][i].kind = "barrier",
                        NEW k, k = ring'[r][i].job
                 PROVE  Held(k)'
      BY DEF BarriersHeld, Held, InCall
    <3>1. CASE ring'[r][i] = p
      BY <2>1, <2>2, <2>9, <3>1 DEF Held
    <3>2. CASE i \in 1 .. Len(ring[r]) /\ ring'[r][i] = ring[r][i]
      <4>1. k \in Jobs /\ Held(k)
        BY <1>0, <1>2, <3>2 DEF BarriersHeld, Packet
      <4> QED BY <2>9, <4>1
    <3> QED BY <2>1, <3>1, <3>2
  <2> QED BY <2>5, <2>6, <2>7, <2>8, <2>10 DEF PacketsOK
<1>4. ASSUME NEW q \in Queues, Agent(q) PROVE PacketsOK'
  <2>1. /\ Head1(q) \in Packet /\ 1 \in 1 .. Len(ring[q])
        /\ \A r \in Queues : \A i \in 1 .. Len(ring'[r]) :
             IF r = q THEN i + 1 \in 1 .. Len(ring[r]) /\ ring'[r][i] = ring[r][i + 1]
                      ELSE i \in 1 .. Len(ring[r]) /\ ring'[r][i] = ring[r][i]
    BY <1>4, AgentPops
  <2>2. UNCHANGED <<on, deps, at, state, failed>>
    BY <1>4 DEF Agent, StartKernel, CompleteBarrier, callVars
  <2>3. ASSUME NEW r \in Queues, NEW i \in 1 .. Len(ring[r]), r # q \/ i > 1, ring[r][i].kind # "gap"
        PROVE  kernel'[ring[r][i].job] = kernel[ring[r][i].job]
    <3>1. CASE StartKernel(q)
      <4>1. ring[q][1].kind = "kernel" /\ ring[q][1].job \in Jobs
            /\ kernel' = [kernel EXCEPT ![ring[q][1].job] = "running"]
        BY <2>1, <3>1 DEF StartKernel, Head1, Packet
      <4>2. on[ring[q][1].job] = q /\ on[ring[r][i].job] = r
        BY <1>0, <2>1, <2>3, <4>1 DEF InSlots
      <4>3. r = q => ring[r][i].job # ring[q][1].job
        BY <1>0, <2>1, <2>3, <4>1 DEF KernelsLast
      <4>4. ring[r][i].job \in Jobs
        BY <1>2 DEF Packet
      <4> QED BY <1>1, <4>1, <4>2, <4>3, <4>4
    <3>2. CASE CompleteBarrier(q)
      BY <3>2 DEF CompleteBarrier
    <3> QED BY <1>4, <3>1, <3>2 DEF Agent
  <2>4. ASSUME NEW r \in Queues, NEW i \in 1 .. Len(ring'[r])
        PROVE  \E o \in 1 .. Len(ring[r]) :
                 /\ (r = q /\ o = i + 1) \/ (r # q /\ o = i)
                 /\ r # q \/ o > 1
                 /\ ring'[r][i] = ring[r][o]
    <3>1. CASE r = q
      <4>1. i + 1 \in 1 .. Len(ring[r]) /\ i + 1 > 1 /\ ring'[r][i] = ring[r][i + 1]
        BY <2>1, <3>1
      <4> QED BY <3>1, <4>1
    <3>2. CASE r # q
      BY <2>1, <3>2
    <3> QED BY <3>1, <3>2
  <2>5. InSlots'
    <3> SUFFICES ASSUME NEW r \in Queues, NEW i \in 1 .. Len(ring'[r]), ring'[r][i].kind # "gap"
                 PROVE  i <= Size /\ on[ring'[r][i].job] = r
      BY <2>2 DEF InSlots
    <3>1. PICK o \in 1 .. Len(ring[r]) :
                 /\ (r = q /\ o = i + 1) \/ (r # q /\ o = i)
                 /\ r # q \/ o > 1
                 /\ ring'[r][i] = ring[r][o]
      BY <2>4
    <3>2. o <= Size /\ on[ring[r][o].job] = r
      BY <1>0, <3>1 DEF InSlots
    <3>3. i \in Int /\ o \in Int /\ Size \in Int
      BY <1>1
    <3>4. o = i + 1 \/ o = i
      BY <3>1
    <3>5. i <= Size
      BY <3>2, <3>3, <3>4
    <3> QED BY <3>1, <3>2, <3>5
  <2>6. KernelsQueued'
    <3> SUFFICES ASSUME NEW r \in Queues, NEW i \in 1 .. Len(ring'[r]), ring'[r][i].kind = "kernel"
                 PROVE  kernel'[ring'[r][i].job] = "queued"
      BY DEF KernelsQueued
    <3>1. PICK o \in 1 .. Len(ring[r]) : (r # q \/ o > 1) /\ ring'[r][i] = ring[r][o]
      BY <2>4
    <3> QED BY <1>0, <2>3, <3>1 DEF KernelsQueued
  <2>7. KernelsLast'
    <3> SUFFICES ASSUME NEW r \in Queues, NEW i \in 1 .. Len(ring'[r]), NEW n \in 1 .. Len(ring'[r]),
                        ring'[r][i].kind = "kernel", ring'[r][n].kind # "gap",
                        ring'[r][n].job = ring'[r][i].job
                 PROVE  n <= i
      BY DEF KernelsLast
    <3>1. PICK o \in 1 .. Len(ring[r]) :
                 /\ (r = q /\ o = i + 1) \/ (r # q /\ o = i)
                 /\ r # q \/ o > 1
                 /\ ring'[r][i] = ring[r][o]
      BY <2>4
    <3>2. PICK w \in 1 .. Len(ring[r]) :
                 /\ (r = q /\ w = n + 1) \/ (r # q /\ w = n)
                 /\ r # q \/ w > 1
                 /\ ring'[r][n] = ring[r][w]
      BY <2>4
    <3>3. w <= o
      BY <1>0, <3>1, <3>2 DEF KernelsLast
    <3>4. i \in Int /\ n \in Int
      OBVIOUS
    <3>5. (o = i + 1 /\ w = n + 1) \/ (o = i /\ w = n)
      BY <3>1, <3>2
    <3> QED BY <3>3, <3>4, <3>5
  <2>8. BarrierDeps'
    <3> SUFFICES ASSUME NEW r \in Queues, NEW i \in 1 .. Len(ring'[r]), ring'[r][i].kind = "barrier"
                 PROVE  ring'[r][i].deps \subseteq deps[ring'[r][i].job]
      BY <2>2 DEF BarrierDeps
    <3>1. PICK o \in 1 .. Len(ring[r]) : ring'[r][i] = ring[r][o]
      BY <2>4
    <3> QED BY <1>0, <3>1 DEF BarrierDeps
  <2>9. BarriersHeld'
    <3> SUFFICES ASSUME NEW r \in Queues, NEW i \in 1 .. Len(ring'[r]), ring'[r][i].kind = "barrier",
                        NEW k, k = ring'[r][i].job
                 PROVE  Held(k)'
      BY DEF BarriersHeld, Held, InCall
    <3>1. PICK o \in 1 .. Len(ring[r]) : (r # q \/ o > 1) /\ ring'[r][i] = ring[r][o]
      BY <2>4
    <3>2. Held(k) /\ kernel'[k] = kernel[k]
      BY <1>0, <2>3, <3>1 DEF BarriersHeld
    <3> QED BY <2>2, <3>2 DEF Held, InCall
  <2> QED BY <2>5, <2>6, <2>7, <2>8, <2>9 DEF PacketsOK
<1>5. ASSUME Keeps PROVE PacketsOK'
  BY <1>5, PacketsKept DEF IInv
<1> QED
  BY <1>3, <1>4, <1>5, QuietSteps, QuietWash DEF Next, CallStep

LEMMA CoverStep == IInv /\ Next => CoverOK'
<1> SUFFICES ASSUME IInv, Next PROVE CoverOK'
  OBVIOUS
<1>0. TypeOK /\ StateOK /\ SignalOK /\ CoverOK /\ KernelsQueued
  BY DEF IInv, PacketsOK
<1>1. /\ deps \in [Jobs -> SUBSET Jobs] /\ todo \in [Jobs -> SUBSET Jobs] /\ on \in [Jobs -> Queues]
      /\ state \in [Jobs -> States] /\ kernel \in [Jobs -> {"none", "queued", "running", "done"}]
  BY <1>0, DispatchAssumption DEF TypeOK
<1>2. \A q \in Queues : \A i \in 1 .. Len(ring[q]) : ring[q][i] \in Packet
  <2>1. ring \in [Queues -> Seq(Packet)]
    BY <1>0 DEF TypeOK
  <2> QED BY <2>1
<1>3. \A j \in Jobs : InCall(j, "enqueue") =>
        /\ todo[j] \subseteq deps[j]
        /\ \A k \in deps[j] \ todo[j] :
             kernel[k] = "done" \/ \E n \in 1 .. Len(ring[on[j]]) : Guards(on[j], n, k)
  BY <1>0 DEF CoverOK
<1>4. \A q \in Queues : \A i \in 1 .. Len(ring[q]) : ring[q][i].kind = "kernel" =>
        \A k \in deps[ring[q][i].job] :
          kernel[k] = "done" \/ \E n \in 1 .. i - 1 : Guards(q, n, k)
  BY <1>0 DEF CoverOK
<1>5. ASSUME NEW j \in Jobs, EnqueueFails(j) \/ EnqueueBarrier(j) \/ EnqueueKernel(j) PROVE CoverOK'
  <2>0. PICK q \in Queues, m \in Nat, p \in Packet : Appended(j, q, m, p)
    BY <1>5, CallAppends
  <2>1. /\ q = on[j] /\ m = Len(ring[q]) /\ p.job = j
        /\ Len(ring'[q]) = m + 1 /\ ring'[q][m + 1] = p
        /\ \A r \in Queues : \A i \in 1 .. Len(ring[r]) :
             i \in 1 .. Len(ring'[r]) /\ ring'[r][i] = ring[r][i]
        /\ \A r \in Queues : \A i \in 1 .. Len(ring'[r]) :
             \/ r = q /\ i = m + 1 /\ ring'[r][i] = p
             \/ i \in 1 .. Len(ring[r]) /\ ring'[r][i] = ring[r][i]
        /\ p.kind = "gap" => EnqueueFails(j)
        /\ p.kind = "kernel" => EnqueueKernel(j)
        /\ p.kind = "barrier" => todo'[j] = todo[j] \ p.deps
    BY <2>0 DEF Appended
  <2>2. InCall(j, "enqueue") /\ kernel[j] = "none"
    BY <1>0, <1>5 DEF EnqueueFails, EnqueueBarrier, EnqueueKernel, InCall, StateOK
  <2>3. /\ on' = on /\ deps' = deps /\ at' = at
        /\ \A k \in Jobs : k # j => state'[k] = state[k] /\ todo'[k] = todo[k]
        /\ \A k \in Jobs : kernel[k] = "done" => kernel'[k] = "done"
        /\ state'[j] = "calling" => EnqueueBarrier(j)
    <3>1. /\ on' = on /\ deps' = deps /\ at' = at
          /\ \A k \in Jobs : k # j => state'[k] = state[k] /\ todo'[k] = todo[k]
      BY <1>1, <1>5 DEF EnqueueFails, EnqueueBarrier, EnqueueKernel, Return, callVars
    <3>2. \A k \in Jobs : kernel[k] = "done" => kernel'[k] = "done"
      BY <1>1, <1>5, <2>2 DEF EnqueueFails, EnqueueBarrier, EnqueueKernel, deviceVars
    <3>3. state'[j] = "calling" => EnqueueBarrier(j)
      <4>1. EnqueueFails(j) \/ EnqueueKernel(j) => state'[j] # "calling"
        BY <1>1 DEF EnqueueFails, EnqueueKernel, Return
      <4> QED BY <1>5, <4>1
    <3> QED BY <3>1, <3>2, <3>3
  <2>4. EnqueueBarrier(j) => p.kind = "barrier"
    <3>1. \A B \in Batches(todo[j]) :
            [kind |-> "barrier", job |-> j, deps |-> B].kind = "barrier"
      OBVIOUS
    <3>2. EnqueueBarrier(j) => state'[j] = "calling"
      BY <2>2 DEF EnqueueBarrier, InCall
    <3>3. EnqueueFails(j) \/ EnqueueKernel(j) => state'[j] # "calling"
      BY <1>1 DEF EnqueueFails, EnqueueKernel, Return
    <3>4. p.kind \in {"barrier", "kernel", "gap"}
      BY DEF Packet
    <3> QED BY <2>1, <3>2, <3>3, <3>4
  <2>5. ASSUME NEW r \in Queues, NEW n \in 1 .. Len(ring[r]), NEW k, Guards(r, n, k)
        PROVE  n \in 1 .. Len(ring'[r]) /\ Guards(r, n, k)'
    BY <2>1, <2>5 DEF Guards
  <2>6. ASSUME NEW l \in Jobs, InCall(l, "enqueue")'
        PROVE  /\ todo'[l] \subseteq deps[l]
               /\ \A k \in deps[l] \ todo'[l] :
                    kernel'[k] = "done" \/ \E n \in 1 .. Len(ring'[on[l]]) : Guards(on[l], n, k)'
    <3>1. InCall(l, "enqueue") /\ on[l] \in Queues
      BY <1>1, <2>2, <2>3, <2>6 DEF InCall
    <3>2. CASE l # j
      <4> SUFFICES ASSUME NEW k \in deps[l] \ todo[l]
                   PROVE  kernel'[k] = "done" \/ \E n \in 1 .. Len(ring'[on[l]]) : Guards(on[l], n, k)'
        BY <1>3, <2>3, <3>1, <3>2
      <4>1. kernel[k] = "done" \/ \E n \in 1 .. Len(ring[on[l]]) : Guards(on[l], n, k)
        BY <1>3, <3>1
      <4>2. k \in Jobs
        BY <1>1
      <4> QED BY <2>1, <2>3, <3>1, <4>1, <4>2 DEF Guards
    <3>3. CASE l = j
      <4>1. p.kind = "barrier" /\ todo'[j] = todo[j] \ p.deps
        BY <2>1, <2>3, <2>4, <2>6, <3>3 DEF InCall
      <4>2. todo'[l] \subseteq deps[l]
        BY <1>3, <3>1, <3>3, <4>1
      <4>3. ASSUME NEW k \in deps[j] \ todo'[j]
            PROVE  kernel'[k] = "done" \/ \E n \in 1 .. Len(ring'[q]) : Guards(q, n, k)'
        <5>1. k \in Jobs
          BY <1>1
        <5>2. CASE k \in p.deps
          <6>1. m + 1 \in 1 .. Len(ring'[q])
            BY <2>1
          <6> QED BY <2>1, <4>1, <5>2, <6>1 DEF Guards
        <5>3. CASE k \notin p.deps
          <6>1. k \in deps[j] \ todo[j]
            BY <4>1, <5>3
          <6>2. kernel[k] = "done" \/ \E n \in 1 .. Len(ring[q]) : Guards(q, n, k)
            BY <1>3, <2>1, <2>2, <6>1
          <6> QED BY <2>1, <2>3, <5>1, <6>2 DEF Guards
        <5> QED BY <5>2, <5>3
      <4> QED BY <2>1, <2>3, <3>3, <4>2, <4>3 DEF Guards
    <3> QED BY <3>2, <3>3
  <2>7. ASSUME NEW r \in Queues, NEW i \in 1 .. Len(ring'[r]), ring'[r][i].kind = "kernel",
               NEW k \in deps[ring'[r][i].job]
        PROVE  kernel'[k] = "done" \/ \E n \in 1 .. i - 1 : Guards(r, n, k)'
    <3>1. CASE r = q /\ i = m + 1 /\ ring'[r][i] = p
      <4>1. EnqueueKernel(j) /\ k \in deps[j] /\ k \in Jobs
        BY <1>1, <2>1, <2>7, <3>1
      <4>2. todo[j] = {}
        <5>1. Batches(todo[j]) = {} /\ todo[j] \subseteq Jobs
          BY <1>1, <4>1 DEF EnqueueKernel
        <5> QED BY <5>1, BatchesEmpty
      <4>3. kernel[k] = "done" \/ \E n \in 1 .. Len(ring[q]) : Guards(q, n, k)
        BY <1>3, <2>1, <2>2, <4>1, <4>2
      <4>4. 1 .. Len(ring[q]) = 1 .. i - 1
        BY <2>1, <3>1
      <4> QED BY <2>1, <2>3, <3>1, <4>1, <4>3, <4>4 DEF Guards
    <3>2. CASE i \in 1 .. Len(ring[r]) /\ ring'[r][i] = ring[r][i]
      <4>1. k \in deps[ring[r][i].job] /\ ring[r][i].kind = "kernel" /\ k \in Jobs
        BY <1>1, <1>2, <2>7, <3>2 DEF Packet
      <4>2. kernel[k] = "done" \/ \E n \in 1 .. i - 1 : Guards(r, n, k)
        BY <1>4, <3>2, <4>1
      <4>3. \A n \in 1 .. i - 1 : n \in 1 .. Len(ring[r])
        BY <3>2
      <4> QED BY <2>1, <2>3, <4>1, <4>2, <4>3 DEF Guards
    <3> QED BY <2>1, <3>1, <3>2
  <2> QED BY <2>3, <2>6, <2>7 DEF CoverOK
<1>6. ASSUME NEW q \in Queues, Agent(q) PROVE CoverOK'
  <2>1. /\ Head1(q) \in Packet /\ 1 \in 1 .. Len(ring[q])
        /\ \A r \in Queues : \A i \in 1 .. Len(ring'[r]) :
             IF r = q THEN i + 1 \in 1 .. Len(ring[r]) /\ ring'[r][i] = ring[r][i + 1]
                      ELSE i \in 1 .. Len(ring[r]) /\ ring'[r][i] = ring[r][i]
        /\ \A r \in Queues : \A i \in 1 .. Len(ring[r]) :
             IF r = q THEN i = 1 \/ \E n \in 1 .. Len(ring'[r]) : n + 1 = i /\ ring'[r][n] = ring[r][i]
                      ELSE i \in 1 .. Len(ring'[r]) /\ ring'[r][i] = ring[r][i]
    BY <1>6, AgentPops
  <2>2. UNCHANGED <<on, deps, at, state, todo>>
    BY <1>6 DEF Agent, StartKernel, CompleteBarrier, callVars
  <2>3. ASSUME NEW k \in Jobs, kernel[k] = "done" PROVE kernel'[k] = "done"
    <3>1. CASE StartKernel(q)
      <4>1. /\ kernel[ring[q][1].job] = "queued"
            /\ kernel' = [kernel EXCEPT ![ring[q][1].job] = "running"]
        BY <1>0, <2>1, <3>1 DEF StartKernel, Head1, KernelsQueued
      <4> QED BY <1>1, <2>3, <4>1
    <3>2. CASE CompleteBarrier(q)
      BY <2>3, <3>2 DEF CompleteBarrier
    <3> QED BY <1>6, <3>1, <3>2 DEF Agent
  <2>4. ASSUME NEW r \in Queues, NEW n \in 1 .. Len(ring[r]), NEW k \in Jobs, Guards(r, n, k)
        PROVE  \/ kernel'[k] = "done"
               \/ \E w \in 1 .. Len(ring'[r]) :
                    /\ r = q => w + 1 = n
                    /\ r # q => w = n
                    /\ Guards(r, w, k)'
    <3>1. CASE r = q /\ n = 1
      <4>1. CompleteBarrier(q) /\ k \in Head1(q).deps
        BY <1>6, <2>4, <3>1 DEF Agent, StartKernel, Head1, Guards
      <4>2. sig[k] = 0
        BY <4>1 DEF CompleteBarrier
      <4>3. kernel[k] = "done"
        BY <1>0, <4>2 DEF SignalOK
      <4> QED BY <2>3, <4>3
    <3>2. CASE r = q /\ n # 1
      <4>1. PICK w \in 1 .. Len(ring'[r]) : w + 1 = n /\ ring'[r][w] = ring[r][n]
        BY <2>1, <3>2
      <4>2. Guards(r, w, k)'
        BY <2>4, <4>1 DEF Guards
      <4> QED BY <3>2, <4>1, <4>2
    <3>3. CASE r # q
      <4>1. n \in 1 .. Len(ring'[r]) /\ ring'[r][n] = ring[r][n]
        BY <2>1, <3>3
      <4>2. Guards(r, n, k)'
        BY <2>4, <4>1 DEF Guards
      <4> QED BY <3>3, <4>1, <4>2
    <3> QED BY <3>1, <3>2, <3>3
  <2>5. ASSUME NEW l \in Jobs, InCall(l, "enqueue")'
        PROVE  /\ todo'[l] \subseteq deps[l]
               /\ \A k \in deps[l] \ todo'[l] :
                    kernel'[k] = "done" \/ \E n \in 1 .. Len(ring'[on[l]]) : Guards(on[l], n, k)'
    <3>1. InCall(l, "enqueue") /\ todo' = todo /\ on[l] \in Queues
      BY <1>1, <2>2, <2>5 DEF InCall
    <3>2. ASSUME NEW k \in deps[l] \ todo[l]
          PROVE  kernel'[k] = "done" \/ \E n \in 1 .. Len(ring'[on[l]]) : Guards(on[l], n, k)'
      <4>1. kernel[k] = "done" \/ \E n \in 1 .. Len(ring[on[l]]) : Guards(on[l], n, k)
        BY <1>3, <3>1
      <4>2. k \in Jobs
        BY <1>1
      <4>3. CASE kernel[k] = "done"
        BY <2>3, <4>2, <4>3
      <4>4. CASE \E n \in 1 .. Len(ring[on[l]]) : Guards(on[l], n, k)
        <5>1. PICK r \in Queues : r = on[l]
          BY <3>1
        <5>2. PICK n \in 1 .. Len(ring[r]) : Guards(r, n, k)
          BY <4>4, <5>1
        <5>3. kernel'[k] = "done" \/ \E w \in 1 .. Len(ring'[r]) : Guards(r, w, k)'
          BY <2>4, <4>2, <5>2
        <5> QED BY <2>2, <5>1, <5>3 DEF Guards
      <4> QED BY <4>1, <4>3, <4>4
    <3> QED BY <1>3, <3>1, <3>2
  <2>6. ASSUME NEW r \in Queues, NEW i \in 1 .. Len(ring'[r]), ring'[r][i].kind = "kernel",
               NEW k \in deps[ring'[r][i].job]
        PROVE  kernel'[k] = "done" \/ \E n \in 1 .. i - 1 : Guards(r, n, k)'
    <3>1. PICK o \in 1 .. Len(ring[r]) :
            /\ r = q => o = i + 1
            /\ r # q => o = i
            /\ ring'[r][i] = ring[r][o]
      <4>1. CASE r = q
        <5>1. i + 1 \in 1 .. Len(ring[r]) /\ ring'[r][i] = ring[r][i + 1]
          BY <2>1, <4>1
        <5> QED BY <4>1, <5>1
      <4>2. CASE r # q
        BY <2>1, <4>2
      <4> QED BY <4>1, <4>2
    <3>2. k \in deps[ring[r][o].job] /\ ring[r][o].kind = "kernel" /\ k \in Jobs
      <4>1. k \in deps[ring[r][o].job] /\ ring[r][o].kind = "kernel"
        BY <2>6, <3>1
      <4>2. ring[r][o].job \in Jobs
        BY <1>2 DEF Packet
      <4> QED BY <1>1, <4>1, <4>2
    <3>3. kernel[k] = "done" \/ \E n \in 1 .. o - 1 : Guards(r, n, k)
      BY <1>4, <3>2
    <3>4. CASE kernel[k] = "done"
      BY <2>3, <3>2, <3>4
    <3>5. CASE \E n \in 1 .. o - 1 : Guards(r, n, k)
      <4>1. PICK n \in 1 .. o - 1 : Guards(r, n, k)
        BY <3>5
      <4>2. n \in 1 .. Len(ring[r])
        OBVIOUS
      <4>3. \/ kernel'[k] = "done"
            \/ \E w \in 1 .. Len(ring'[r]) :
                 /\ r = q => w + 1 = n
                 /\ r # q => w = n
                 /\ Guards(r, w, k)'
        BY <2>4, <3>2, <4>1, <4>2
      <4>4. ASSUME NEW w \in 1 .. Len(ring'[r]), r = q => w + 1 = n, r # q => w = n
            PROVE  w \in 1 .. i - 1
        <5>1. i \in Int /\ o \in Int /\ n \in Int /\ w \in Int /\ 1 <= w /\ n <= o - 1
          OBVIOUS
        <5>2. (o = i + 1 /\ w + 1 = n) \/ (o = i /\ w = n)
          BY <3>1, <4>4
        <5> QED BY <5>1, <5>2
      <4> QED BY <4>3, <4>4
    <3> QED BY <3>3, <3>4, <3>5
  <2> QED BY <2>2, <2>5, <2>6 DEF CoverOK
<1>7. ASSUME Keeps PROVE CoverOK'
  BY <1>7, CoverKept DEF IInv
<1> QED
  BY <1>5, <1>6, <1>7, QuietSteps, QuietWash DEF Next, CallStep

-----------------------------------------------------------------------------
LEMMA InitIInv == Init => IInv
<1> SUFFICES ASSUME Init PROVE IInv
  OBVIOUS
<1>1. TypeOK
  BY DispatchAssumption DEF Init, TypeOK, States
<1>2. \A q \in Queues : Len(ring[q]) = 0
  BY DEF Init
<1>3. PacketsOK
  BY <1>2 DEF PacketsOK, InSlots, KernelsQueued, KernelsLast, BarrierDeps, BarriersHeld
<1>4. CoverOK
  BY <1>2 DEF Init, CoverOK, InCall
<1>5. SlotOK
  BY DispatchAssumption DEF Init, SlotOK
<1>6. StateOK /\ OwnOK /\ SignalOK /\ HeldOK /\ BlockOK /\ RunsAfterDeps
  BY DEF Init, StateOK, OwnOK, SignalOK, HeldOK, InFlight, BlockOK, InCall, RunsAfterDeps
<1> QED BY <1>1, <1>3, <1>4, <1>5, <1>6 DEF IInv

LEMMA NextIInv == IInv /\ [Next]_vars => IInv'
<1> SUFFICES ASSUME IInv, [Next]_vars PROVE IInv'
  OBVIOUS
<1>1. CASE Next
  BY <1>1, TypeStep, StateStep, OwnStep, SignalStep, PacketsStep, CoverStep, SlotStep, HeldStep,
     BlockStep, RunsStep DEF IInv
<1>2. CASE UNCHANGED vars
  <2>. USE <1>2 DEF vars, callVars, poolVars, queueVars, deviceVars, IInv
  <2>1. TypeOK'
    BY DEF TypeOK
  <2>2. StateOK' /\ OwnOK' /\ SignalOK' /\ RunsAfterDeps'
    BY DEF StateOK, OwnOK, SignalOK, RunsAfterDeps
  <2>3. PacketsOK' /\ CoverOK'
    BY PacketsKept, CoverKept, QuietWash
  <2>4. SlotOK'
    BY DEF SlotOK, IsKernel, Slot
  <2>5. HeldOK' /\ BlockOK'
    BY DEF HeldOK, InFlight, BlockOK, InCall
  <2> QED BY <2>1, <2>2, <2>3, <2>4, <2>5
<1> QED BY <1>1, <1>2

LEMMA Invariant == Spec => []IInv
BY InitIInv, NextIInv, PTL DEF Spec

(* A kernel starts only when the kernels it depends on are done, whatever  *)
(* the queues, although try_enqueue_barrier_and leaves stale completion    *)
(* signals behind.                                                         *)
THEOREM KernelsRunAfterDeps == Spec => []RunsAfterDeps
<1>1. IInv => RunsAfterDeps
  BY DEF IInv
<1> QED BY <1>1, Invariant, PTL

(* As long as the agent may read the arguments of a kernel, nobody drops   *)
(* them or gives their block away, unless a completion that the host       *)
(* cannot wait on was dropped too early.                                   *)
THEOREM ArgumentsOutliveKernels == Spec => []ArgsOutliveKernel
<1>1. IInv => ArgsOutliveKernel
  BY DEF IInv, HeldOK, BlockOK, ArgsOutliveKernel, ArgsThere
<1> QED BY <1>1, Invariant, PTL

(* A completion signal a barrier packet waits for exists until the barrier *)
(* is done: the completion is owned by the arguments of the call, which a  *)
(* call that succeeds keeps until its kernel, behind the barrier, has run. *)
THEOREM SignalsOutliveBarriers == Spec => []DepsOutliveBarrier
<1>1. ASSUME IInv PROVE DepsOutliveBarrier
  <2> SUFFICES ASSUME NEW q \in Queues, NEW i \in 1 .. Len(ring[q]), ring[q][i].kind = "barrier",
                      ring[q][i].job \notin failed, panicked = {}, NEW k \in ring[q][i].deps
               PROVE  state[k] # "dropped"
    BY DEF DepsOutliveBarrier
  <2>1. ring[q][i].job \in Jobs
    <3>1. ring[q] \in Seq(Packet)
      BY <1>1 DEF IInv, TypeOK
    <3>2. ring[q][i] \in Packet
      BY <3>1
    <3> QED BY <3>2 DEF Packet
  <2>2. PICK j \in Jobs : j = ring[q][i].job
    BY <2>1
  <2>3. k \in deps[j] /\ Held(j)
    BY <1>1, <2>2 DEF IInv, PacketsOK, BarrierDeps, BarriersHeld
  <2>4. state[j] \notin {"dropped", "discarded"}
    BY <1>1, <2>2, <2>3 DEF IInv, Held, HeldOK, InFlight, InCall
  <2>5. state[k] = "moved"
    BY <1>1, <2>3, <2>4 DEF IInv, OwnOK
  <2> QED BY <2>5
<1> QED BY <1>1, Invariant, PTL
=============================================================================
