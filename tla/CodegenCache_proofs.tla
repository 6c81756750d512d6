------------------------- MODULE CodegenCache_proofs -------------------------
(***************************************************************************)
(* The kernel cache implements CodegenMemo, for every number of threads,   *)
(* kernels and calls.  An entry in progress has exactly one leader and the *)
(* entry stays the leader's own (LeaderOwnsEntry), so the one step that    *)
(* makes a product, the leader's Store, finds no product before it; all    *)
(* other steps leave the products alone.                                   *)
(***************************************************************************)
EXTENDS CodegenCache, TLAPS

IInv == TypeOK /\ LeaderOwnsEntry

LEMMA InitIInv == Init => IInv
<1> SUFFICES ASSUME Init PROVE IInv
  OBVIOUS
<1>1. TypeOK
  BY CacheAssumption DEF Init, TypeOK, Entries, Group, PCs
<1>2. LeaderOwnsEntry
  BY DEF Init, LeaderOwnsEntry, Leading, Absent
<1> QED BY <1>1, <1>2 DEF IInv

(* The three kinds of entries are told apart by their state.               *)
LEMMA EntryKinds ==
  ASSUME NEW e \in Entries
  PROVE  /\ e.state = "absent" <=> e = Absent
         /\ e.state = "progress" => e.group \in Group /\ e = InProgress(e.group)
         /\ e.state = "done" => e.product \in Group /\ e = Done(e.product)
         /\ e.state \in {"absent", "progress", "done"}
BY DEF Entries, Absent, InProgress, Done

(* A wait group is told by its number.                                     *)
LEMMA GroupKinds ==
  ASSUME NEW g, NEW h
  PROVE  /\ InProgress(g).state = "progress" /\ InProgress(g) # Absent
         /\ InProgress(g) = InProgress(h) => g = h
<1>1. InProgress(g).state = "progress" /\ InProgress(g).group = g /\ InProgress(h).group = h
  BY DEF InProgress
<1> QED BY <1>1 DEF Absent

LEMMA NextIInv == IInv /\ [Next]_vars => IInv'
<1> SUFFICES ASSUME IInv, [Next]_vars PROVE IInv'
  OBVIOUS
<1>. USE CacheAssumption DEF IInv, TypeOK, LeaderOwnsEntry, Leading, Entry, Goto, Return,
         Group, PCs, threadVars
<1>1. ASSUME NEW t \in Threads, NEW d \in Descs, Call(t, d) PROVE IInv'
  BY <1>1 DEF Call
<1>2. ASSUME NEW t \in Threads, LookupDone(t) PROVE IInv'
  BY <1>2, EntryKinds DEF LookupDone
<1>3. ASSUME NEW t \in Threads, LookupInProgress(t) PROVE IInv'
  <2>1. cache[desc[t]] \in Entries /\ cache[desc[t]].group \in Nat
    BY <1>3, EntryKinds DEF LookupInProgress
  <2>2. group' \in [Threads -> Nat] /\ pc' \in [Threads -> PCs]
    BY <1>3, <2>1 DEF LookupInProgress
  <2>3. TypeOK'
    BY <1>3, <2>2 DEF LookupInProgress
  <2>4. \A u \in Threads : Leading(u)' <=> Leading(u)
    BY <1>3 DEF LookupInProgress
  <2>5. \A u \in Threads : Leading(u) => group'[u] = group[u]
    BY <1>3 DEF LookupInProgress
  <2>6. cache' = cache /\ desc' = desc
    BY <1>3 DEF LookupInProgress
  <2>. HIDE DEF Leading
  <2>7. LeaderOwnsEntry'
    BY <2>4, <2>5, <2>6
  <2> QED BY <2>3, <2>7
<1>4. ASSUME NEW t \in Threads, LookupMiss(t) PROVE IInv'
  BY <1>4 DEF LookupMiss
<1>5. ASSUME NEW t \in Threads, Wait(t) PROVE IInv'
  BY <1>5 DEF Wait
<1>6. ASSUME NEW t \in Threads, Wake(t) PROVE IInv'
  BY <1>6 DEF Wake
<1>7. ASSUME NEW t \in Threads, ClaimOccupied(t) PROVE IInv'
  BY <1>7 DEF ClaimOccupied
<1>8. ASSUME NEW t \in Threads, ClaimVacant(t) PROVE IInv'
  <2>1. Entry(t) = Absent
    BY <1>8, EntryKinds DEF ClaimVacant
  <2>2. ~Leading(t) /\ \A u \in Threads : Leading(u) => desc[u] # desc[t]
    BY <1>8, <2>1, GroupKinds DEF ClaimVacant
  <2>3. attempts[desc[t]] + 1 \in Nat
    OBVIOUS
  <2>4. TypeOK'
    BY <1>8, <2>3 DEF ClaimVacant, Lead, Entries
  <2>5. LeaderOwnsEntry'
    BY <1>8, <2>2, <2>3 DEF ClaimVacant, Lead, InProgress
  <2> QED BY <2>4, <2>5
<1>9. ASSUME NEW t \in Threads, Generate(t) PROVE IInv'
  BY <1>9 DEF Generate
<1>10. ASSUME NEW t \in Threads, Panic(t) PROVE IInv'
  BY <1>10 DEF Panic
<1>11. ASSUME NEW t \in Threads, Store(t) PROVE IInv'
  BY <1>11 DEF Store, Settled, Entries, InProgress, Absent, Done
<1>12. CASE UNCHANGED vars
  BY <1>12 DEF vars
<1> QED
  BY <1>1, <1>2, <1>3, <1>4, <1>5, <1>6, <1>7, <1>8, <1>9, <1>10, <1>11, <1>12
  DEF Next, Running

(* An entry in progress has exactly one leader, and it stays the leader's  *)
(* own until the leader stores, so get_mut(..).unwrap() finds it.          *)
THEOREM LeadersOwnTheirEntries == Spec => []LeaderOwnsEntry
<1>1. IInv => LeaderOwnsEntry
  BY DEF IInv
<1> QED BY <1>1, InitIInv, NextIInv, PTL DEF Spec

(* Nobody sleeps without somebody to wake it: a group that is not released *)
(* is led still, or a thread that can run holds it.                        *)
THEOREM SleepersAreWoken == Spec => []WaitersHaveALeader
<1>1. IInv => WaitersHaveALeader
  <2> SUFFICES ASSUME IInv, NEW t \in Threads, pc[t] = "parked", ~Released(desc[t], group[t])
               PROVE  \E u \in Threads \ {t} :
                        \/ Leading(u) /\ desc[u] = desc[t] /\ group[u] = group[t]
                        \/ Holds(u, desc[t], group[t])
    BY DEF WaitersHaveALeader
  <2>1. CASE cache[desc[t]] = InProgress(group[t])
    <3>1. desc[t] \in Descs /\ cache[desc[t]].state = "progress"
      BY <2>1, GroupKinds DEF IInv, TypeOK
    <3>2. PICK u \in Threads : Leading(u) /\ desc[u] = desc[t]
      BY <3>1 DEF IInv, LeaderOwnsEntry
    <3>3. cache[desc[t]] = InProgress(group[u])
      BY <3>2 DEF IInv, LeaderOwnsEntry, Entry
    <3>4. group[u] = group[t]
      BY <2>1, <3>3, GroupKinds
    <3> QED BY <3>2, <3>4 DEF Leading
  <2>2. CASE \E u \in Threads : Holds(u, desc[t], group[t])
    BY <2>2 DEF Holds
  <2> QED BY <2>1, <2>2 DEF Released
<1> QED BY <1>1, InitIInv, NextIInv, PTL DEF Spec

-----------------------------------------------------------------------------
(* The product of a description in CodegenMemo.                            *)
memo == [d \in Descs |-> IF cache[d].state = "done" THEN cache[d].product ELSE None]

LEMMA InitMemo == Init => Memo!Init
BY DEF Init, Memo!Init, Absent

(* Only the entry of d changes: the products change at d alone.            *)
LEMMA OneProduct ==
  ASSUME NEW d \in Descs, NEW e, cache \in [Descs -> Entries],
         cache' = [cache EXCEPT ![d] = e]
  PROVE  memo' = [memo EXCEPT ![d] = IF e.state = "done" THEN e.product ELSE None]
BY DEF memo

(* A step that leaves the answers and the products as they are.            *)
LEMMA Stutters ==
  ASSUME answer' = answer, memo' = memo
  PROVE  UNCHANGED Memo!vars
BY DEF Memo!vars, memo

LEMMA StepMemo == IInv /\ [Next]_vars => [Memo!Next]_Memo!vars
<1> SUFFICES ASSUME IInv, [Next]_vars PROVE Memo!Next \/ UNCHANGED Memo!vars
  OBVIOUS
<1>. USE CacheAssumption DEF IInv, TypeOK, Entry, Goto, Return, Group, threadVars
<1>1. ASSUME NEW t \in Threads, LookupDone(t) PROVE Memo!Recall(t, desc[t])
  <2>1. Entry(t).state = "done" /\ Entry(t).product \in Nat
    BY <1>1, EntryKinds DEF LookupDone
  <2> QED BY <1>1, <2>1 DEF LookupDone, Memo!Recall
<1>2. ASSUME NEW t \in Threads, Store(t), outcome[t] = None PROVE Memo!Fail(t)
  <2>1. desc[t] \in Descs /\ memo[desc[t]] = None
    BY <1>2, GroupKinds DEF Store, LeaderOwnsEntry, Leading, memo
  <2>2. memo' = [memo EXCEPT ![desc[t]] = None]
    <3>1. cache' = [cache EXCEPT ![desc[t]] = Absent] /\ Absent.state # "done"
      BY <1>2 DEF Store, Settled, Absent
    <3>2. cache \in [Descs -> Entries]
      OBVIOUS
    <3> QED BY <2>1, <3>1, <3>2, OneProduct
  <2>3. memo' = memo
    BY <2>1, <2>2 DEF memo
  <2> QED BY <1>2, <2>3 DEF Store, Memo!Fail, memo
<1>3. ASSUME NEW t \in Threads, Store(t), outcome[t] # None
      PROVE  \E d \in Descs : Memo!Succeed(t, d)
  <2>1. desc[t] \in Descs /\ memo[desc[t]] = None
    BY <1>3, GroupKinds DEF Store, LeaderOwnsEntry, Leading, memo
  <2>2. outcome[t] \in Nat
    BY <1>3
  <2>3. memo' = [memo EXCEPT ![desc[t]] = outcome[t]]
    <3>1. cache' = [cache EXCEPT ![desc[t]] = Done(outcome[t])]
      BY <1>3 DEF Store, Settled
    <3>2. Done(outcome[t]).state = "done" /\ Done(outcome[t]).product = outcome[t]
      BY DEF Done
    <3>3. cache \in [Descs -> Entries]
      OBVIOUS
    <3> QED BY <2>1, <3>1, <3>2, <3>3, OneProduct
  <2>4. memo'[desc[t]] = outcome[t]
    BY <2>1, <2>3 DEF memo
  <2>5. answer' = [answer EXCEPT ![t] = <<desc[t], memo'[desc[t]]>>]
    BY <1>3, <2>4 DEF Store
  <2>6. memo' = [memo EXCEPT ![desc[t]] = memo'[desc[t]]]
    BY <2>3, <2>4
  <2>7. PICK d \in Descs : d = desc[t]
    BY <2>1
  <2>8. Memo!Succeed(t, d)
    BY <2>1, <2>2, <2>4, <2>5, <2>6, <2>7 DEF Memo!Succeed, memo
  <2> QED BY <2>8
<1>4. ASSUME NEW t \in Threads, ClaimVacant(t) PROVE UNCHANGED Memo!vars
  <2>1. Entry(t).state = "absent"
    BY <1>4 DEF ClaimVacant
  <2> QED BY <1>4, <2>1, Stutters DEF ClaimVacant, Lead, InProgress, memo
<1>5. ASSUME NEW t \in Threads,
             \/ LookupInProgress(t) \/ LookupMiss(t) \/ Wait(t) \/ Wake(t)
             \/ ClaimOccupied(t) \/ Generate(t) \/ Panic(t) \/ \E d \in Descs : Call(t, d)
      PROVE  UNCHANGED Memo!vars
  BY <1>5, Stutters DEF LookupInProgress, LookupMiss, Wait, Wake, ClaimOccupied, Generate, Panic,
                        Call, memo
<1>6. CASE UNCHANGED vars
  BY <1>6, Stutters DEF vars, memo
<1>7. \A t \in Threads : desc[t] \in Descs
  OBVIOUS
<1> HIDE DEF IInv, TypeOK, Entry, Goto, Return, Group, threadVars
<1>8. CASE Next
  <2> SUFFICES ASSUME NEW t \in Threads, Running(t) \/ \E d \in Descs : Call(t, d)
               PROVE  Memo!Next \/ UNCHANGED Memo!vars
    BY <1>8 DEF Next
  <2>1. CASE LookupDone(t)
    BY <1>1, <1>7, <2>1 DEF Memo!Next
  <2>2. CASE Store(t) /\ outcome[t] = None
    BY <1>2, <2>2 DEF Memo!Next
  <2>3. CASE Store(t) /\ outcome[t] # None
    BY <1>3, <2>3 DEF Memo!Next
  <2>4. CASE ClaimVacant(t)
    BY <1>4, <2>4
  <2>5. CASE \/ LookupInProgress(t) \/ LookupMiss(t) \/ Wait(t) \/ Wake(t)
             \/ ClaimOccupied(t) \/ Generate(t) \/ Panic(t) \/ \E d \in Descs : Call(t, d)
    BY <1>5, <2>5
  <2> QED BY <2>1, <2>2, <2>3, <2>4, <2>5 DEF Running
<1> QED BY <1>6, <1>8

(* The cache implements its specification: one product per kernel for as   *)
(* long as the cache lives, failures are not remembered, and every answer  *)
(* is that product.                                                        *)
THEOREM ImplementsMemo == Spec => MemoSpec
<1>1. Spec => []IInv
  BY InitIInv, NextIInv, PTL DEF Spec
<1> QED BY <1>1, InitMemo, StepMemo, PTL DEF Spec, MemoSpec, Memo!Spec
=============================================================================
