------------------------------ MODULE Dispatch ------------------------------
(***************************************************************************)
(* Kernel invocations of runtime-amd: try_unchecked_call_async of Invoc    *)
(* and the drop of InvocCompletion (src/runtime-amd/src/module/mod.rs),    *)
(* with the argument pool, the rings and the agents they work on.          *)
(*                                                                         *)
(* A job is one value of the kernel's argument type A: it names its queue, *)
(* owns its completion signal, and owns the completions of the earlier     *)
(* invocations it depends on.  A call that fails returns it to the caller, *)
(* who may call again or drop it; a call that succeeds moves it to the     *)
(* argument pool, where the kernel reads it.                               *)
(*                                                                         *)
(* ArgsPool and RingQueue model the pool and the rings step by step.  Here *)
(* an allocation is one step and so is an enqueue, as those modules show   *)
(* they may be, and what they show to be wrong with the rings is kept: an  *)
(* index lost to Full stays behind as a gap, and a barrier enqueued without*)
(* a completion signal is processed with the signal its slot still holds.  *)
(***************************************************************************)
EXTENDS Integers, Sequences, FiniteSets

CONSTANTS
  Jobs,          \* the argument values of the program
  HostVisible,   \* those whose completion signal the host can wait on
  Queues,
  Placements,    \* which queue each job is for, a set of functions
  Size,          \* slots of a ring
  PacketDeps,    \* dependencies a barrier packet holds, 5 in AQL
  Blocks,        \* argument blocks the pool has room for
  MaxCalls,      \* bound: calls made in all
  None

ASSUME DispatchAssumption ==
  /\ HostVisible \subseteq Jobs /\ IsFiniteSet(Jobs)
  /\ Placements \subseteq [Jobs -> Queues] /\ Placements # {}
  /\ Size \in Nat \ {0} /\ PacketDeps \in Nat \ {0}
  /\ Blocks \in Nat /\ MaxCalls \in Nat
  /\ None \notin Jobs

VARIABLES
  state,      \* who has the job, see States
  deps,       \* the jobs whose completions the job owns
  on,         \* the queue of the job
  at,         \* where its call is
  todo,       \* dependencies without a barrier yet
  calls,      \* calls made so far
  block,      \* its block in the pool, 0 when it has none
  used,       \* blocks given out
  mem,        \* whose arguments are in each block
  ring,       \* the packets of each queue, from the read index on
  first,      \* the slot of the read index
  slotSignal, \* the completion signal field of each slot
  kernel,     \* what the agent does with the job's kernel
  sig,        \* the value of the job's completion signal
  barriers,   \* history: barrier packets enqueued for the job
  failed,     \* history: jobs with a call that found the queue full
  panicked    \* history: jobs whose completion was dropped too early

callVars == <<at, todo, calls, barriers, failed>>
poolVars == <<block, used, mem>>
queueVars == <<ring, first, slotSignal>>
deviceVars == <<kernel, sig>>
vars == <<state, deps, on, callVars, poolVars, queueVars, deviceVars, panicked>>

(* none: not built yet; args: with the caller; calling; launched: the      *)
(* caller has its InvocCompletion; moved: another job owns that; dropping, *)
(* dropped: the InvocCompletion goes and is gone; discarded: dropped       *)
(* without ever being launched.                                            *)
States == {"none", "args", "calling", "launched", "moved", "dropping", "dropped",
           "discarded"}
Packet == [kind : {"barrier", "kernel", "gap"}, job : Jobs, deps : SUBSET Jobs]

TypeOK ==
  /\ state \in [Jobs -> States]
  /\ deps \in [Jobs -> SUBSET Jobs]
  /\ on \in Placements
  /\ at \in [Jobs -> {"check", "alloc", "enqueue"}]
  /\ todo \in [Jobs -> SUBSET Jobs]
  /\ calls \in 0 .. MaxCalls
  /\ block \in [Jobs -> 0 .. Blocks] /\ used \in 0 .. Blocks
  /\ mem \in [1 .. Blocks -> Jobs \cup {None}]
  /\ ring \in [Queues -> Seq(Packet)]
  /\ first \in [Queues -> 0 .. Size - 1]
  /\ slotSignal \in [Queues -> [0 .. Size - 1 -> Jobs \cup {None}]]
  /\ kernel \in [Jobs -> {"none", "queued", "running", "done"}]
  /\ sig \in [Jobs -> Int]
  /\ barriers \in [Jobs -> Nat]
  /\ failed \subseteq Jobs /\ panicked \subseteq Jobs

Init ==
  /\ state = [j \in Jobs |-> "none"]
  /\ deps = [j \in Jobs |-> {}]
  /\ on \in Placements
  /\ at = [j \in Jobs |-> "check"]
  /\ todo = [j \in Jobs |-> {}]
  /\ calls = 0
  /\ block = [j \in Jobs |-> 0] /\ used = 0
  /\ mem = [b \in 1 .. Blocks |-> None]
  /\ ring = [q \in Queues |-> <<>>]
  /\ first = [q \in Queues |-> 0]
  /\ slotSignal = [q \in Queues |-> [s \in 0 .. Size - 1 |-> None]]
  /\ kernel = [j \in Jobs |-> "none"]
  /\ sig = [j \in Jobs |-> 1]
  /\ barriers = [j \in Jobs |-> 0]
  /\ failed = {} /\ panicked = {}

-----------------------------------------------------------------------------
(* The program: arguments are built from completions the program holds.    *)
Build(j, D) ==
  /\ state[j] = "none"
  /\ \A k \in D : state[k] = "launched"
  /\ state' = [k \in Jobs |-> IF k = j THEN "args" ELSE
                              IF k \in D THEN "moved" ELSE state[k]]
  /\ deps' = [deps EXCEPT ![j] = D]
  /\ UNCHANGED <<on, callVars, poolVars, queueVars, deviceVars, panicked>>

(* The owner of these completions goes: so do they.                        *)
DropOwned(st, D) == [k \in Jobs |-> IF k \in D THEN "dropping" ELSE st[k]]

(* The caller drops arguments it has; so does unchecked_call_async with    *)
(* those a failed call returned.                                           *)
Discard(j) ==
  /\ state[j] = "args"
  /\ state' = DropOwned([state EXCEPT ![j] = "discarded"], deps[j])
  /\ UNCHANGED <<deps, on, callVars, poolVars, queueVars, deviceVars, panicked>>

-----------------------------------------------------------------------------
(* try_unchecked_call_async                                                *)

Call(j) ==
  /\ state[j] = "args" /\ calls < MaxCalls
  /\ state' = [state EXCEPT ![j] = "calling"]
  /\ at' = [at EXCEPT ![j] = "check"]
  /\ calls' = calls + 1
  /\ UNCHANGED <<deps, on, todo, barriers, failed, poolVars, queueVars, deviceVars, panicked>>

(* "return args": the error goes to the caller, with the arguments.        *)
Return(j) == state' = [state EXCEPT ![j] = "args"]

InCall(j, step) == state[j] = "calling" /\ at[j] = step

(* A zero axis, a launch above the limits of the device, a grid that       *)
(* overflows when it is rounded up, or a compilation that fails.           *)
Refuse(j) ==
  /\ InCall(j, "check")
  /\ Return(j)
  /\ UNCHANGED <<deps, on, callVars, poolVars, queueVars, deviceVars, panicked>>

Admit(j) ==
  /\ InCall(j, "check")
  /\ at' = [at EXCEPT ![j] = "alloc"]
  /\ UNCHANGED <<state, deps, on, todo, calls, barriers, failed, poolVars, queueVars,
                 deviceVars, panicked>>

(* ArgsPool::alloc returns None.                                           *)
PoolFull == used = Blocks

(* Error::KernelArgsPoolOom                                                *)
Oom(j) ==
  /\ InCall(j, "alloc")
  /\ PoolFull
  /\ Return(j)
  /\ UNCHANGED <<deps, on, callVars, poolVars, queueVars, deviceVars, panicked>>

(* Deps::iter_deps of the arguments, which hold the completion signal too, *)
(* and Kernel::iter_arg_deps.                                              *)
IterDeps(j) == deps[j] \cup {j}
Mutant_IterArgDeps(j) == IterDeps(j)
IterArgDeps(j) == IterDeps(j) \ {j}

Alloc(j) ==
  /\ InCall(j, "alloc")
  /\ ~PoolFull
  /\ used' = used + 1
  /\ block' = [block EXCEPT ![j] = used + 1]
  /\ todo' = [todo EXCEPT ![j] = IterArgDeps(j)]
  /\ at' = [at EXCEPT ![j] = "enqueue"]
  /\ UNCHANGED <<state, deps, on, calls, barriers, failed, mem, queueVars, deviceVars, panicked>>

(* The last packet, with fewer dependencies than it could hold, forgotten. *)
Mutant_Batches(D) == {B \in SUBSET D : Cardinality(B) = PacketDeps}

(* The signals of the next barrier packet: as many as it holds, or all     *)
(* that are left.                                                          *)
Batches(D) ==
  {B \in SUBSET D : \/ Cardinality(B) = PacketDeps
                    \/ B = D /\ B # {} /\ Cardinality(B) < PacketDeps}

(* try_enqueue_packet has the index of the write and finds the ring full:  *)
(* the index is lost and the call is over.                                 *)
IsFull(q) == Len(ring[q]) >= Size
Gap(j) == [kind |-> "gap", job |-> j, deps |-> {}]

NextSlot(q) == (first[q] + Len(ring[q])) % Size

EnqueueFails(j) ==
  /\ InCall(j, "enqueue")
  /\ IsFull(on[j])
  /\ ring' = [ring EXCEPT ![on[j]] = Append(@, Gap(j))]
  /\ mem' = IF Batches(todo[j]) = {} THEN [mem EXCEPT ![block[j]] = j] ELSE mem
  /\ failed' = failed \cup {j}
  /\ Return(j)
  /\ UNCHANGED <<deps, on, at, todo, calls, barriers, block, used, first, slotSignal,
                 deviceVars, panicked>>

(* try_enqueue_barrier_and(deps, None): the completion field of the slot   *)
(* stays as it is.                                                         *)
EnqueueBarrier(j) ==
  /\ InCall(j, "enqueue")
  /\ ~IsFull(on[j])
  /\ \E B \in Batches(todo[j]) :
       /\ ring' = [ring EXCEPT ![on[j]] =
                     Append(@, [kind |-> "barrier", job |-> j, deps |-> B])]
       /\ todo' = [todo EXCEPT ![j] = @ \ B]
  /\ barriers' = [barriers EXCEPT ![j] = @ + 1]
  /\ UNCHANGED <<state, deps, on, at, calls, failed, poolVars, first, slotSignal,
                 deviceVars, panicked>>

(* The arguments are written to the block, and the dispatch is enqueued.   *)
EnqueueKernel(j) ==
  /\ InCall(j, "enqueue") /\ Batches(todo[j]) = {}
  /\ ~IsFull(on[j])
  /\ mem' = [mem EXCEPT ![block[j]] = j]
  /\ ring' = [ring EXCEPT ![on[j]] =
                Append(@, [kind |-> "kernel", job |-> j, deps |-> {}])]
  /\ slotSignal' = [slotSignal EXCEPT ![on[j]][NextSlot(on[j])] = j]
  /\ kernel' = [kernel EXCEPT ![j] = "queued"]
  /\ state' = [state EXCEPT ![j] = "launched"]
  /\ UNCHANGED <<deps, on, callVars, block, used, first, sig, panicked>>

CallStep(j) ==
  Refuse(j) \/ Admit(j) \/ Oom(j) \/ Alloc(j) \/ EnqueueFails(j) \/ EnqueueBarrier(j)
    \/ EnqueueKernel(j)

-----------------------------------------------------------------------------
(* InvocCompletion::drop, and the drop of the arguments after it.          *)

Drop(j) ==
  /\ state[j] = "launched"
  /\ state' = [state EXCEPT ![j] = "dropping"]
  /\ UNCHANGED <<deps, on, callVars, poolVars, queueVars, deviceVars, panicked>>

(* wait_for_zero loops until the signal is less than one: a negative value *)
(* is an error, which the drop logs.                                       *)
Mutant_HostWaitOver(j) == sig[j] = 0
Mutant_HostWaitEarly(j) == sig[j] <= 1
HostWaitOver(j) == sig[j] < 1

DropArgs(j) == state' = DropOwned([state EXCEPT ![j] = "dropped"], deps[j])

DropHost(j) ==
  /\ state[j] = "dropping" /\ j \in HostVisible
  /\ HostWaitOver(j)
  /\ DropArgs(j)
  /\ UNCHANGED <<deps, on, callVars, poolVars, queueVars, deviceVars, panicked>>

(* A signal the host cannot wait on is looked at once.                     *)
DropDevice(j) ==
  /\ state[j] = "dropping" /\ j \notin HostVisible
  /\ sig[j] = 0
  /\ DropArgs(j)
  /\ UNCHANGED <<deps, on, callVars, poolVars, queueVars, deviceVars, panicked>>

(* "fail loudly", or the warning when the thread is unwinding already.     *)
(* Leaving drop() by a panic does not keep the fields: they are dropped    *)
(* while the thread unwinds.                                               *)
DropPanics(j) ==
  /\ state[j] = "dropping" /\ j \notin HostVisible
  /\ sig[j] # 0
  /\ DropArgs(j)
  /\ panicked' = panicked \cup {j}
  /\ UNCHANGED <<deps, on, callVars, poolVars, queueVars, deviceVars>>

DropStep(j) == DropHost(j) \/ DropDevice(j) \/ DropPanics(j)

(* wash(&mut self): nobody holds the pool, neither an Invoc in a call nor  *)
(* an InvocCompletion.                                                     *)
PoolUnused == \A j \in Jobs : state[j] \notin {"calling", "launched", "moved", "dropping"}

Wash ==
  /\ used > 0 /\ PoolUnused
  /\ used' = 0
  /\ block' = [j \in Jobs |-> 0]
  /\ UNCHANGED <<state, deps, on, callVars, mem, queueVars, deviceVars, panicked>>

-----------------------------------------------------------------------------
(* The agents (external).                                                  *)

Head1(q) == ring[q][1]
Pop(q) ==
  /\ ring' = [ring EXCEPT ![q] = Tail(@)]
  /\ first' = [first EXCEPT ![q] = (@ + 1) % Size]

(* The header of a dispatch has no barrier bit ("ordered: false"): the     *)
(* kernel starts, the packet processor goes on.                            *)
StartKernel(q) ==
  /\ ring[q] # <<>> /\ Head1(q).kind = "kernel"
  /\ kernel' = [kernel EXCEPT ![Head1(q).job] = "running"]
  /\ Pop(q)
  /\ UNCHANGED <<state, deps, on, callVars, poolVars, slotSignal, sig, panicked>>

(* The header of a barrier has the barrier bit exactly when it was given   *)
(* no completion signal: it waits for every packet before it.              *)
Mutant_BarrierBit == FALSE
BarrierBit == TRUE

BarrierReady(q) ==
  BarrierBit => \A j \in Jobs : on[j] = q => kernel[j] # "running"

CompleteBarrier(q) ==
  /\ ring[q] # <<>> /\ Head1(q).kind = "barrier"
  /\ BarrierReady(q)
  /\ \A k \in Head1(q).deps : sig[k] = 0
  /\ LET held == slotSignal[q][first[q]]
     IN  sig' = IF held = None THEN sig ELSE [sig EXCEPT ![held] = @ - 1]
  /\ Pop(q)
  /\ UNCHANGED <<state, deps, on, callVars, poolVars, slotSignal, kernel, panicked>>

FinishKernel(j) ==
  /\ kernel[j] = "running"
  /\ kernel' = [kernel EXCEPT ![j] = "done"]
  /\ sig' = [sig EXCEPT ![j] = @ - 1]
  /\ UNCHANGED <<state, deps, on, callVars, poolVars, queueVars, panicked>>

Agent(q) == StartKernel(q) \/ CompleteBarrier(q)

-----------------------------------------------------------------------------
Next ==
  \/ \E j \in Jobs, D \in SUBSET Jobs : Build(j, D)
  \/ \E j \in Jobs : Discard(j) \/ Call(j) \/ CallStep(j) \/ Drop(j) \/ DropStep(j)
                        \/ FinishKernel(j)
  \/ \E q \in Queues : Agent(q)
  \/ Wash

Spec == Init /\ [][Next]_vars

(* Agents run, kernels end, calls and drops go on; what the program does   *)
(* between them is its own affair.                                         *)
FairSpec ==
  /\ Spec
  /\ \A j \in Jobs : /\ WF_vars(FinishKernel(j))
                      /\ WF_vars(CallStep(j))
                      /\ WF_vars(DropStep(j))
  /\ \A q \in Queues : WF_vars(Agent(q))

-----------------------------------------------------------------------------
(* Properties.                                                             *)

InFlight(j) == kernel[j] \in {"queued", "running"}
ArgsThere(j) == /\ state[j] \in {"launched", "moved", "dropping"}
                /\ block[j] # 0 /\ mem[block[j]] = j

(* A kernel starts only when the kernels it depends on are done, whatever  *)
(* the queues they are on, although stale completion signals are           *)
(* decremented a second time.                                              *)
RunsAfterDeps ==
  \A j \in Jobs : kernel[j] \in {"running", "done"} =>
    \A k \in deps[j] : kernel[k] = "done"

(* As long as the agent may read the arguments of a kernel nobody drops    *)
(* them or gives their block to another call, when the host can wait for   *)
(* the kernel.                                                             *)
ArgsOutliveKernel ==
  \A j \in Jobs : InFlight(j) /\ panicked = {} => ArgsThere(j)

(* The same of every kernel (module/mod.rs: "we can't safely run the       *)
(* argument drop code as the device could still be using it").             *)
ArgsNeverDroppedInFlight ==
  \A j \in Jobs : InFlight(j) => ArgsThere(j)

(* A completion signal a barrier packet waits for exists until the barrier *)
(* is done, unless the call it was for failed after it or something        *)
(* panicked.                                                               *)
DepsOutliveBarrier ==
  \A q \in Queues : \A i \in 1 .. Len(ring[q]) :
    ring[q][i].kind = "barrier" /\ ring[q][i].job \notin failed /\ panicked = {} =>
      \A k \in ring[q][i].deps : state[k] # "dropped"

(* A call that is made again because the pool was full does not enqueue    *)
(* the barriers of its dependencies again.                                 *)
BarriersOnce ==
  \A j \in Jobs : j \notin failed =>
    barriers[j] * PacketDeps < Cardinality(deps[j]) + PacketDeps

(* A block is used up for nothing only by a call that found the queue full *)
(* ("Do this first so errors won't waste args pool space").                *)
OnlyFullWastes ==
  used > Cardinality({j \in Jobs : block[j] # 0 /\ state[j] # "args"}) => failed # {}

(* Nothing in the rings is beyond help: a gap, or a barrier that waits for *)
(* a signal that was decremented too often.                                *)
Broken ==
  \E q \in Queues : \E i \in 1 .. Len(ring[q]) :
    \/ ring[q][i].kind = "gap"
    \/ \E k \in ring[q][i].deps : sig[k] < 0

(* Dependencies between the queues never block each other: what was        *)
(* launched ends, unless the rings are broken.                             *)
LaunchedEnds ==
  \A j \in Jobs : (kernel[j] = "queued") ~> (kernel[j] = "done" \/ Broken)

(* Dropping a completion ends, with the completions it owns, unless the    *)
(* rings are broken.                                                       *)
DropEnds ==
  \A j \in Jobs : (state[j] = "dropping") ~> (state[j] = "dropped" \/ Broken)
=============================================================================
