---------------------------- MODULE CodegenCache ----------------------------
(***************************************************************************)
(* WorkerTranslatorData::codegen_kernel of runtime-core                    *)
(* (src/runtime-core/src/codegen/worker/mod.rs): the cache of compiled     *)
(* kernels that the threads of the program share.                          *)
(*                                                                         *)
(* An entry is a crossbeam WaitGroup while its leader compiles and the     *)
(* product after that.  A wait group is released once all of its clones    *)
(* are dropped: the clone in the cache, which goes away when the entry is  *)
(* replaced or removed, and the clones the waiting threads took with them. *)
(* A group is named by its attempt number; each critical section of the    *)
(* RwLock is one step.                                                     *)
(***************************************************************************)
EXTENDS Integers

CONSTANTS
  Threads,
  Descs,      \* kernel descriptions, the keys of the cache
  None,       \* "no product"
  MayPanic,   \* the compiler may panic (it has unwraps and bug! calls)
  MaxCalls    \* bound: calls per thread

ASSUME CacheAssumption ==
  /\ MayPanic \in BOOLEAN
  /\ MaxCalls \in Nat
  /\ None \notin Nat
  /\ Descs # {}

VARIABLES
  cache,     \* desc -> absent, progress (a wait group) or done (a product)
  attempts,  \* wait groups created so far for each desc
  pc,        \* where each thread is inside codegen_kernel
  desc,      \* the argument of the call of each thread
  group,     \* the wait group each thread leads, holds or waits for
  outcome,   \* what the leader's compilation returned
  answer,    \* what the last call of each thread returned
  calls      \* calls each thread has made

threadVars == <<desc, outcome, answer, calls>>
vars == <<cache, attempts, pc, group, threadVars>>

Group == Nat
Absent == [state |-> "absent"]
InProgress(g) == [state |-> "progress", group |-> g]
Done(x) == [state |-> "done", product |-> x]

PCs == {"idle", "lookup", "cloned", "parked", "claim", "lead", "store", "dead"}

Entries ==
  {Absent} \cup {InProgress(g) : g \in Group} \cup {Done(x) : x \in Group}

TypeOK ==
  /\ cache \in [Descs -> Entries]
  /\ attempts \in [Descs -> Nat]
  /\ pc \in [Threads -> PCs]
  /\ desc \in [Threads -> Descs]
  /\ group \in [Threads -> Nat]
  /\ outcome \in [Threads -> Nat \cup {None}]
  /\ answer \in [Threads -> {<<>>} \cup Descs \X Nat]
  /\ calls \in [Threads -> 0 .. MaxCalls]

Init ==
  /\ cache = [d \in Descs |-> Absent]
  /\ attempts = [d \in Descs |-> 0]
  /\ pc = [t \in Threads |-> "idle"]
  /\ desc \in [Threads -> {CHOOSE d \in Descs : TRUE}]
  /\ group = [t \in Threads |-> 0]
  /\ outcome = [t \in Threads |-> None]
  /\ answer = [t \in Threads |-> <<>>]
  /\ calls = [t \in Threads |-> 0]

Entry(t) == cache[desc[t]]

Goto(t, where) == pc' = [pc EXCEPT ![t] = where]
Return(t, a) == Goto(t, "idle") /\ answer' = [answer EXCEPT ![t] = a]

Call(t, d) ==
  /\ pc[t] = "idle" /\ calls[t] < MaxCalls
  /\ desc' = [desc EXCEPT ![t] = d]
  /\ calls' = [calls EXCEPT ![t] = @ + 1]
  /\ Goto(t, "lookup")
  /\ UNCHANGED <<cache, attempts, group, outcome, answer>>

(* self.cache.read(): Done returns, InProgress clones the wait group, a    *)
(* missing entry sends the thread for the write lock.                      *)
LookupDone(t) ==
  /\ pc[t] = "lookup" /\ Entry(t).state = "done"
  /\ Return(t, <<desc[t], Entry(t).product>>)
  /\ UNCHANGED <<cache, attempts, group, desc, outcome, calls>>

LookupInProgress(t) ==
  /\ pc[t] = "lookup" /\ Entry(t).state = "progress"
  /\ group' = [group EXCEPT ![t] = Entry(t).group]
  /\ Goto(t, "cloned")
  /\ UNCHANGED <<cache, attempts, threadVars>>

LookupMiss(t) ==
  /\ pc[t] = "lookup" /\ Entry(t).state = "absent"
  /\ Goto(t, "claim")
  /\ UNCHANGED <<cache, attempts, group, threadVars>>

(* progress.wait(): the thread drops its clone, then sleeps until no clone *)
(* of the group is left, and looks again.                                  *)
Wait(t) ==
  /\ pc[t] = "cloned"
  /\ Goto(t, "parked")
  /\ UNCHANGED <<cache, attempts, group, threadVars>>

Holds(u, d, g) == pc[u] = "cloned" /\ desc[u] = d /\ group[u] = g

Released(d, g) ==
  /\ cache[d] # InProgress(g)
  /\ ~\E u \in Threads : Holds(u, d, g)

Wake(t) ==
  /\ pc[t] = "parked"
  /\ Released(desc[t], group[t])
  /\ Goto(t, "lookup")
  /\ UNCHANGED <<cache, attempts, group, threadVars>>

(* self.cache.write(), Entry::Occupied: somebody was faster.               *)
ClaimOccupied(t) ==
  /\ pc[t] = "claim" /\ Entry(t).state # "absent"
  /\ Goto(t, "lookup")
  /\ UNCHANGED <<cache, attempts, group, threadVars>>

Lead(t) ==
  LET g == attempts[desc[t]] + 1
  IN  /\ attempts' = [attempts EXCEPT ![desc[t]] = g]
      /\ cache' = [cache EXCEPT ![desc[t]] = InProgress(g)]
      /\ group' = [group EXCEPT ![t] = g]
      /\ Goto(t, "lead")
      /\ UNCHANGED threadVars

(* Entry::Vacant: the thread becomes the leader of a new wait group.       *)
Mutant_ClaimVacant(t) == pc[t] = "claim" /\ Lead(t)
ClaimVacant(t) == pc[t] = "claim" /\ Entry(t).state = "absent" /\ Lead(t)

(* initialize_sess(codegen_kernel_inner): the product of a group is named  *)
(* after the group; None is an Err.                                        *)
Generate(t) ==
  /\ pc[t] = "lead"
  /\ \E x \in {group[t], None} : outcome' = [outcome EXCEPT ![t] = x]
  /\ Goto(t, "store")
  /\ UNCHANGED <<cache, attempts, group, desc, answer, calls>>

(* A panic unwinds through codegen_kernel, which has no guard for it.      *)
Panic(t) ==
  /\ MayPanic /\ pc[t] = "lead"
  /\ Goto(t, "dead")
  /\ UNCHANGED <<cache, attempts, group, threadVars>>

(* self.cache.write(): the entry becomes the product, or is removed.       *)
Settled(x) == IF x = None THEN Absent ELSE Done(x)

Mutant_Store(t) ==
  /\ pc[t] = "store"
  /\ cache' = IF outcome[t] = None THEN cache
              ELSE [cache EXCEPT ![desc[t]] = Settled(outcome[t])]
  /\ Return(t, IF outcome[t] = None THEN <<>> ELSE <<desc[t], outcome[t]>>)
  /\ outcome' = [outcome EXCEPT ![t] = None]
  /\ UNCHANGED <<attempts, group, desc, calls>>

Store(t) ==
  /\ pc[t] = "store"
  /\ cache' = [cache EXCEPT ![desc[t]] = Settled(outcome[t])]
  /\ Return(t, IF outcome[t] = None THEN <<>> ELSE <<desc[t], outcome[t]>>)
  /\ outcome' = [outcome EXCEPT ![t] = None]
  /\ UNCHANGED <<attempts, group, desc, calls>>

Running(t) ==
  \/ LookupDone(t) \/ LookupInProgress(t) \/ LookupMiss(t)
  \/ Wait(t) \/ Wake(t) \/ ClaimOccupied(t) \/ ClaimVacant(t)
  \/ Generate(t) \/ Panic(t) \/ Store(t)

Next == \E t \in Threads : Running(t) \/ \E d \in Descs : Call(t, d)

Spec == Init /\ [][Next]_vars

(* A thread inside a call keeps running when it can.                       *)
FairSpec == Spec /\ \A t \in Threads : WF_vars(Running(t))

-----------------------------------------------------------------------------
(* Properties.                                                             *)

Leading(t) == pc[t] \in {"lead", "store", "dead"}

(* An entry in progress has exactly one leader, and a leader's entry stays *)
(* its own until it stores: nobody claims it, removes it or replaces it,   *)
(* so the get_mut(..).unwrap() of the leader finds its own group.          *)
LeaderOwnsEntry ==
  /\ \A t \in Threads : Leading(t) => Entry(t) = InProgress(group[t])
  /\ \A t, u \in Threads : Leading(t) /\ Leading(u) /\ desc[t] = desc[u] => t = u
  /\ \A d \in Descs : cache[d].state = "progress" =>
       \E t \in Threads : Leading(t) /\ desc[t] = d

(* A sleeping thread is always somebody's to wake: its entry is still led, *)
(* or a thread that can run holds the last clones of its group.  A panic   *)
(* that unwound out of codegen_kernel is the one way to lose the leader.   *)
WaitersHaveALeader ==
  \A t \in Threads : pc[t] = "parked" /\ ~Released(desc[t], group[t]) =>
    \E u \in Threads \ {t} :
      \/ Leading(u) /\ desc[u] = desc[t] /\ group[u] = group[t]
      \/ Holds(u, desc[t], group[t])

(* Every call returns, also when its leader fails ("we still need to       *)
(* unblock other threads"), unless a leader of the same kernel panicked.   *)
CallsReturn ==
  \A t \in Threads :
    (pc[t] = "lookup") ~>
      (pc[t] = "idle" \/ \E u \in Threads : pc[u] = "dead" /\ desc[u] = desc[t])

(* The cache is what CodegenMemo promises: a kernel has one product for as *)
(* long as the cache lives, a failure is not remembered, and whoever is    *)
(* given a product, first or last, is given that one.                      *)
Memo == INSTANCE CodegenMemo WITH
  Products <- Nat,
  memo     <- [d \in Descs |-> IF cache[d].state = "done" THEN cache[d].product ELSE None]

MemoSpec == Memo!Spec
=============================================================================
