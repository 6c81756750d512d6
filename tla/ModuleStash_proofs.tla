-------------------------- MODULE ModuleStash_proofs --------------------------
(***************************************************************************)
(* The counted pointer of a kernel function's ModuleData, for every number *)
(* of threads, heap addresses and calls: the counts are exact, and all     *)
(* callers have one object and none a freed one until drop() takes the     *)
(* pointer out of the static word.                                         *)
(***************************************************************************)
EXTENDS ModuleStash, FiniteSetTheorems, TLAPS

(* What a thread has at each place inside get_cache_data and drop().       *)
PcOK ==
  \A t \in Threads :
    /\ pc[t] \in {"load1", "take1", "alloc", "cas1", "load2", "take2", "cas2", "load3", "take3"}
         => held[t] = Null
    /\ pc[t] \in {"idle", "load1", "take1", "alloc", "panicked", "dropload", "dropcas"}
         => mine[t] = Null /\ owns[t] = 0
    /\ pc[t] \in {"cas1", "load2", "take2", "cas2"} => mine[t] # Null /\ owns[t] = 2
    /\ pc[t] \in {"load3", "take3"} => mine[t] # Null /\ owns[t] = 1
    /\ pc[t] \in {"take1", "load2", "take2", "cas2", "take3", "dropcas"} => seen[t] # Null

(* Until drop() takes it, the first pointer published is the only one: a   *)
(* thread that has seen one has seen that, and never finds none again.     *)
UntilDrop ==
  ~dropped =>
    /\ ~broken
    /\ \A t \in Threads :
         /\ pc[t] \notin {"cas2", "load3", "take3", "panicked"}
         /\ pc[t] \in {"take1", "load2", "take2"} => seen[t] = ptr
         /\ held[t] # Null => held[t] = ptr

IInv == TypeOK /\ PcOK /\ CountsExact /\ UntilDrop

(* The references of one thread.                                           *)
Own(t, o) == (IF held[t] = o THEN 1 ELSE 0) + (IF mine[t] = o THEN owns[t] ELSE 0)
RefTypes ==
  /\ held \in [Threads -> Objects \cup {Null}]
  /\ mine \in [Threads -> Objects \cup {Null}]
  /\ owns \in [Threads -> 0 .. 2]

(* Two sets of threads that differ in t at most.                           *)
LEMMA CountChange ==
  ASSUME NEW S \in SUBSET Threads, NEW T \in SUBSET Threads, NEW t \in Threads,
         \A u \in Threads \ {t} : u \in S <=> u \in T
  PROVE  /\ Cardinality(S) \in Nat
         /\ Cardinality(T) = Cardinality(S) - (IF t \in S THEN 1 ELSE 0)
                                            + (IF t \in T THEN 1 ELSE 0)
         /\ t \in S => Cardinality(S) >= 1
<1>1. IsFiniteSet(S) /\ IsFiniteSet(T)
  BY FS_Subset, StashAssumption
<1>2. Cardinality(S) \in Nat /\ Cardinality(T) \in Nat
  BY <1>1, FS_CardinalityType
<1>3. CASE t \in S /\ t \notin T
  <2>1. T = S \ {t}
    BY <1>3
  <2>2. Cardinality(T) = Cardinality(S) - 1
    BY <1>1, <1>3, <2>1, FS_RemoveElement
  <2> QED BY <1>2, <1>3, <2>2
<1>4. CASE t \in T /\ t \notin S
  <2>1. S = T \ {t}
    BY <1>4
  <2>2. Cardinality(S) = Cardinality(T) - 1
    BY <1>1, <1>4, <2>1, FS_RemoveElement
  <2> QED BY <1>2, <1>4, <2>2
<1>5. CASE t \in S <=> t \in T
  <2>1. S = T
    BY <1>5
  <2>2. t \in S => Cardinality(S) # 0
    BY <1>1, FS_EmptySet
  <2> QED BY <1>2, <1>5, <2>1, <2>2
<1>6. t \in S => Cardinality(S) # 0
  BY <1>1, FS_EmptySet
<1> QED BY <1>2, <1>3, <1>4, <1>5, <1>6

(* What one thread does to its references changes the sum by that.         *)
LEMMA RefsChange ==
  ASSUME RefTypes, RefTypes', NEW t \in Threads, NEW o \in Objects,
         \A u \in Threads \ {t} : held'[u] = held[u] /\ mine'[u] = mine[u] /\ owns'[u] = owns[u]
  PROVE  /\ Refs(o) \in Nat /\ Refs(o) >= Own(t, o)
         /\ Refs(o)' \in Nat /\ Refs(o)' = Refs(o) - Own(t, o) + Own(t, o)'
<1>1. /\ Holders(o) \in SUBSET Threads /\ Holders(o)' \in SUBSET Threads
      /\ Makers(o) \in SUBSET Threads /\ Makers(o)' \in SUBSET Threads
      /\ Double(o) \in SUBSET Threads /\ Double(o)' \in SUBSET Threads
  BY DEF Holders, Makers, Double
<1>2. /\ Cardinality(Holders(o)) \in Nat
      /\ Cardinality(Holders(o)') = Cardinality(Holders(o)) - (IF t \in Holders(o) THEN 1 ELSE 0)
                                        + (IF t \in Holders(o)' THEN 1 ELSE 0)
      /\ t \in Holders(o) => Cardinality(Holders(o)) >= 1
  <2>1. \A u \in Threads \ {t} : u \in Holders(o) <=> u \in Holders(o)'
    BY DEF Holders
  <2> HIDE DEF Holders
  <2> QED BY <1>1, <2>1, CountChange
<1>3. /\ Cardinality(Makers(o)) \in Nat
      /\ Cardinality(Makers(o)') = Cardinality(Makers(o)) - (IF t \in Makers(o) THEN 1 ELSE 0)
                                        + (IF t \in Makers(o)' THEN 1 ELSE 0)
      /\ t \in Makers(o) => Cardinality(Makers(o)) >= 1
  <2>1. \A u \in Threads \ {t} : u \in Makers(o) <=> u \in Makers(o)'
    BY DEF Makers
  <2> HIDE DEF Makers
  <2> QED BY <1>1, <2>1, CountChange
<1>4. /\ Cardinality(Double(o)) \in Nat
      /\ Cardinality(Double(o)') = Cardinality(Double(o)) - (IF t \in Double(o) THEN 1 ELSE 0)
                                        + (IF t \in Double(o)' THEN 1 ELSE 0)
      /\ t \in Double(o) => Cardinality(Double(o)) >= 1
  <2>1. \A u \in Threads \ {t} : u \in Double(o) <=> u \in Double(o)'
    BY DEF Double
  <2> HIDE DEF Double
  <2> QED BY <1>1, <2>1, CountChange
<1>5. owns[t] \in {0, 1, 2} /\ owns'[t] \in {0, 1, 2}
  BY DEF RefTypes
<1>6. Own(t, o) = (IF t \in Holders(o) THEN 1 ELSE 0) + (IF t \in Makers(o) THEN 1 ELSE 0)
                    + (IF t \in Double(o) THEN 1 ELSE 0)
  BY <1>5 DEF Own, Holders, Makers, Double
<1>7. Own(t, o)' = (IF t \in Holders(o)' THEN 1 ELSE 0) + (IF t \in Makers(o)' THEN 1 ELSE 0)
                     + (IF t \in Double(o)' THEN 1 ELSE 0)
  BY <1>5 DEF Own, Holders, Makers, Double
<1> QED BY <1>2, <1>3, <1>4, <1>6, <1>7 DEF Refs

(* So the counts stay exact when a step changes each by what it changes of *)
(* the references of its thread and of the static word.                    *)
LEMMA CountsKept ==
  ASSUME RefTypes, RefTypes', CountsExact, NEW t \in Threads,
         \A u \in Threads \ {t} : held'[u] = held[u] /\ mine'[u] = mine[u] /\ owns'[u] = owns[u],
         rc \in [Objects -> Nat], rc' \in [Objects -> Int],
         \A o \in Objects : rc'[o] = rc[o] - Word(o) - Own(t, o) + Word(o)' + Own(t, o)'
  PROVE  CountsExact' /\ rc' \in [Objects -> Nat]
<1>1. ASSUME NEW o \in Objects PROVE rc'[o] = Word(o)' + Refs(o)' /\ rc'[o] \in Nat
  <2>1. rc[o] = Word(o) + Refs(o)
    BY DEF CountsExact
  <2>2. /\ Refs(o) \in Nat
        /\ Refs(o)' \in Nat /\ Refs(o)' = Refs(o) - Own(t, o) + Own(t, o)'
    BY RefsChange
  <2>3. Own(t, o) \in Nat /\ Own(t, o)' \in Nat /\ Word(o) \in Nat /\ Word(o)' \in Nat
    BY DEF RefTypes, Own, Word
  <2> QED BY <2>1, <2>2, <2>3
<1>2. CountsExact'
  BY <1>1 DEF CountsExact
<1> QED BY <1>1, <1>2

(* Steps that touch no reference.                                          *)
LEMMA CountsUntouched ==
  ASSUME CountsExact, UNCHANGED <<ptr, rc, mine, owns, held>>
  PROVE  CountsExact'
<1>1. ASSUME NEW o \in Objects PROVE Word(o)' = Word(o) /\ Refs(o)' = Refs(o)
  <2>1. /\ Holders(o)' = Holders(o) /\ Makers(o)' = Makers(o)
        /\ Double(o)' = Double(o) /\ Word(o)' = Word(o)
    BY DEF Holders, Makers, Double, Word
  <2> QED BY <2>1 DEF Refs
<1> QED BY <1>1 DEF CountsExact

LEMMA InitIInv == Init => IInv
<1> SUFFICES ASSUME Init PROVE IInv
  OBVIOUS
<1>. USE StashAssumption DEF Init
<1>1. TypeOK
  <2>1. dropped \in BOOLEAN /\ broken \in BOOLEAN
    BY Zenon
  <2>2. calls \in [Threads -> 0 .. MaxCalls] /\ owns \in [Threads -> 0 .. 2]
    OBVIOUS
  <2>3. ptr \in Objects \cup {Null} /\ rc \in [Objects -> Nat] /\ pc \in [Threads -> PCs]
    BY DEF PCs
  <2> QED BY <2>1, <2>2, <2>3 DEF TypeOK
<1>2. /\ ~broken
      /\ \A t \in Threads : pc[t] = "idle" /\ held[t] = Null /\ mine[t] = Null /\ owns[t] = 0
  OBVIOUS
<1> HIDE DEF Init
<1>3. PcOK /\ UntilDrop
  BY <1>2 DEF PcOK, UntilDrop
<1> USE DEF Init
<1>4. ASSUME NEW o \in Objects PROVE Holders(o) = {} /\ Makers(o) = {} /\ Double(o) = {}
  BY DEF Holders, Makers, Double
<1>5. ASSUME NEW o \in Objects PROVE Refs(o) = 0 /\ Word(o) = 0
  BY <1>4, FS_EmptySet DEF Refs, Word
<1>6. CountsExact
  BY <1>5 DEF CountsExact
<1> QED BY <1>1, <1>3, <1>6 DEF IInv

LEMMA NextIInv == IInv /\ [Next]_vars => IInv'
<1> SUFFICES ASSUME IInv, [Next]_vars PROVE IInv'
  OBVIOUS
<1>. USE StashAssumption DEF IInv, RefTypes, TypeOK, PcOK, At, Goto
<1>1. ASSUME NEW t \in Threads, GetCacheData(t) PROVE IInv'
  <2>. USE <1>1 DEF GetCacheData, Begin, PCs
  <2>1. TypeOK' /\ PcOK'
    OBVIOUS
  <2>2. CountsExact'
    BY CountsUntouched
  <2>3. UntilDrop'
    BY DEF UntilDrop
  <2> QED BY <2>1, <2>2, <2>3
<1>2. ASSUME NEW t \in Threads, Drop(t) PROVE IInv'
  <2>. USE <1>2 DEF Drop, Begin, PCs
  <2>1. TypeOK' /\ PcOK'
    OBVIOUS
  <2>2. CountsExact'
    BY CountsUntouched
  <2>3. UntilDrop'
    BY DEF UntilDrop
  <2> QED BY <2>1, <2>2, <2>3
<1>3. ASSUME NEW t \in Threads, DropLoad(t) PROVE IInv'
  <2>. USE <1>3 DEF DropLoad, PCs
  <2>1. TypeOK' /\ PcOK'
    OBVIOUS
  <2>2. CountsExact'
    BY CountsUntouched
  <2>3. UntilDrop'
    BY DEF UntilDrop
  <2> QED BY <2>1, <2>2, <2>3
<1>4. ASSUME NEW t \in Threads, Release(t) PROVE IInv'
  <2>. USE <1>4 DEF Release, PCs
  <2>1. RefTypes' /\ rc' \in [Objects -> Int]
    OBVIOUS
  <2>2. \A u \in Threads \ {t} : held'[u] = held[u] /\ mine'[u] = mine[u] /\ owns'[u] = owns[u]
    OBVIOUS
  <2>3. \A o \in Objects : rc'[o] = rc[o] - Word(o) - Own(t, o) + Word(o)' + Own(t, o)'
    BY DEF Word, Own
  <2>4. CountsExact' /\ rc' \in [Objects -> Nat]
    BY <2>1, <2>2, <2>3, CountsKept
  <2>5. TypeOK'
    BY <2>4
  <2>7. PcOK'
    OBVIOUS
  <2>6. UntilDrop'
    BY DEF UntilDrop
  <2> QED BY <2>4, <2>5, <2>6, <2>7
<1>5. ASSUME NEW t \in Threads, UpgradeLoad(t) PROVE IInv'
  <2>. USE <1>5 DEF UpgradeLoad, OnNull, OnSome, PCs
  <2>1. RefTypes' /\ rc' \in [Objects -> Int]
    OBVIOUS
  <2>2. \A u \in Threads \ {t} : held'[u] = held[u] /\ mine'[u] = mine[u] /\ owns'[u] = owns[u]
    OBVIOUS
  <2>3. \A o \in Objects : rc'[o] = rc[o] - Word(o) - Own(t, o) + Word(o)' + Own(t, o)'
    BY DEF Word, Own
  <2>4. CountsExact' /\ rc' \in [Objects -> Nat]
    BY <2>1, <2>2, <2>3, CountsKept
  <2>5. TypeOK'
    BY <2>4
  <2>7. PcOK'
    OBVIOUS
  <2>6. UntilDrop'
    BY DEF UntilDrop
  <2> QED BY <2>4, <2>5, <2>6, <2>7
<1>6. ASSUME NEW t \in Threads, UpgradeTake(t) PROVE IInv'
  <2>. USE <1>6 DEF UpgradeTake, PCs
  <2>1. RefTypes' /\ rc' \in [Objects -> Int]
    OBVIOUS
  <2>2. \A u \in Threads \ {t} : held'[u] = held[u] /\ mine'[u] = mine[u] /\ owns'[u] = owns[u]
    OBVIOUS
  <2>3. \A o \in Objects : rc'[o] = rc[o] - Word(o) - Own(t, o) + Word(o)' + Own(t, o)'
    BY DEF Word, Own
  <2>4. CountsExact' /\ rc' \in [Objects -> Nat]
    BY <2>1, <2>2, <2>3, CountsKept
  <2>5. TypeOK'
    <3>1. broken' \in BOOLEAN
      BY Zenon
    <3>2. pc' \in [Threads -> PCs]
      OBVIOUS
    <3> QED BY <2>1, <2>4, <3>1, <3>2
  <2>7. PcOK'
    OBVIOUS
  <2>6. UntilDrop'
    <3> SUFFICES ASSUME ~dropped PROVE UntilDrop'
      BY DEF UntilDrop
    <3>1. seen[t] = ptr /\ ptr \in Objects /\ pc[t] # "take3"
      BY DEF UntilDrop
    <3>2. rc[ptr] = 1 + Refs(ptr) /\ Refs(ptr) \in Nat
      BY <2>1, <2>2, <3>1, RefsChange DEF CountsExact, Word
    <3>3. rc[seen[t]] # 0
      BY <3>1, <3>2
    <3>4. /\ held' = [held EXCEPT ![t] = ptr] /\ pc' = [pc EXCEPT ![t] = "idle"]
          /\ UNCHANGED <<ptr, seen, dropped, broken>>
      BY <3>1, <3>3
    <3>5. ~broken'
      BY <3>4 DEF UntilDrop
    <3> QED BY <3>4, <3>5 DEF UntilDrop
  <2> QED BY <2>4, <2>5, <2>6, <2>7
<1>7. ASSUME NEW t \in Threads, Allocate(t) PROVE IInv'
  <2>. USE <1>7 DEF Allocate, FreshCount, PCs
  <2>1. RefTypes' /\ rc' \in [Objects -> Int]
    OBVIOUS
  <2>2. \A u \in Threads \ {t} : held'[u] = held[u] /\ mine'[u] = mine[u] /\ owns'[u] = owns[u]
    OBVIOUS
  <2>3. \A o \in Objects : rc'[o] = rc[o] - Word(o) - Own(t, o) + Word(o)' + Own(t, o)'
    BY DEF Word, Own
  <2>4. CountsExact' /\ rc' \in [Objects -> Nat]
    BY <2>1, <2>2, <2>3, CountsKept
  <2>5. TypeOK'
    BY <2>4
  <2>7. PcOK'
    OBVIOUS
  <2>6. UntilDrop'
    BY DEF UntilDrop
  <2> QED BY <2>4, <2>5, <2>6, <2>7
<1>8. ASSUME NEW t \in Threads, PublishFirst(t) PROVE IInv'
  <2>. USE <1>8 DEF PublishFirst, Publish, PCs
  <2>1. RefTypes' /\ rc' \in [Objects -> Int]
    OBVIOUS
  <2>2. \A u \in Threads \ {t} : held'[u] = held[u] /\ mine'[u] = mine[u] /\ owns'[u] = owns[u]
    OBVIOUS
  <2>3. \A o \in Objects : rc'[o] = rc[o] - Word(o) - Own(t, o) + Word(o)' + Own(t, o)'
    BY DEF Word, Own
  <2>4. CountsExact' /\ rc' \in [Objects -> Nat]
    BY <2>1, <2>2, <2>3, CountsKept
  <2>5. TypeOK'
    BY <2>4
  <2>7. PcOK'
    OBVIOUS
  <2>6. UntilDrop'
    BY DEF UntilDrop
  <2> QED BY <2>4, <2>5, <2>6, <2>7
<1>9. ASSUME NEW t \in Threads, Replace(t) PROVE IInv'
  <2>. USE <1>9 DEF Replace, Publish, PCs
  <2>1. RefTypes' /\ rc' \in [Objects -> Int]
    OBVIOUS
  <2>2. \A u \in Threads \ {t} : held'[u] = held[u] /\ mine'[u] = mine[u] /\ owns'[u] = owns[u]
    OBVIOUS
  <2>3. \A o \in Objects : rc'[o] = rc[o] - Word(o) - Own(t, o) + Word(o)' + Own(t, o)'
    BY DEF Word, Own
  <2>4. CountsExact' /\ rc' \in [Objects -> Nat]
    BY <2>1, <2>2, <2>3, CountsKept
  <2>5. TypeOK'
    BY <2>4
  <2>7. PcOK'
    OBVIOUS
  <2>6. UntilDrop'
    BY DEF UntilDrop
  <2> QED BY <2>4, <2>5, <2>6, <2>7
<1>10. ASSUME NEW t \in Threads, DropExchange(t) PROVE IInv'
  <2>. USE <1>10 DEF DropExchange, PCs
  <2>1. RefTypes' /\ rc' \in [Objects -> Int]
    OBVIOUS
  <2>2. \A u \in Threads \ {t} : held'[u] = held[u] /\ mine'[u] = mine[u] /\ owns'[u] = owns[u]
    OBVIOUS
  <2>3. \A o \in Objects : rc'[o] = rc[o] - Word(o) - Own(t, o) + Word(o)' + Own(t, o)'
    BY DEF Word, Own
  <2>4. CountsExact' /\ rc' \in [Objects -> Nat]
    BY <2>1, <2>2, <2>3, CountsKept
  <2>5. TypeOK'
    BY <2>4
  <2>7. PcOK'
    OBVIOUS
  <2>6. UntilDrop'
    BY DEF UntilDrop
  <2> QED BY <2>4, <2>5, <2>6, <2>7
<1>11. CASE UNCHANGED vars
  BY <1>11, CountsUntouched DEF vars, UntilDrop
<1> HIDE DEF IInv
<1> QED
  BY <1>1, <1>2, <1>3, <1>4, <1>5, <1>6, <1>7, <1>8, <1>9, <1>10, <1>11 DEF Next, Step

-----------------------------------------------------------------------------
(* The strong count of every object is the number of references to it:     *)
(* whatever the interleaving of get_cache_data, drop() and releases,       *)
(* nothing is freed early, dropped twice or leaked.                        *)
THEOREM CountsAreExact == Spec => []CountsExact
<1>1. IInv => CountsExact
  BY DEF IInv
<1> QED BY <1>1, InitIInv, NextIInv, PTL DEF Spec

(* All the callers of a function share the published ModuleData, as long   *)
(* as no drop() took it.                                                   *)
THEOREM CallersShareOne == Spec => []OneModuleData
<1>1. IInv => OneModuleData
  BY DEF IInv, UntilDrop, OneModuleData
<1> QED BY <1>1, InitIInv, NextIInv, PTL DEF Spec

(* drop() alone makes upgrade() unsafe: until one has swapped the pointer  *)
(* out, no caller uses a freed object and no loser of the race to publish  *)
(* finds nothing ("someone beat us in setting context module data").       *)
THEOREM OnlyDropEndangers == Spec => [](~dropped => NoUseAfterFree /\ LoserFindsData)
<1>1. IInv => (~dropped => NoUseAfterFree /\ LoserFindsData)
  BY DEF IInv, UntilDrop, NoUseAfterFree, LoserFindsData
<1> QED BY <1>1, InitIInv, NextIInv, PTL DEF Spec
=============================================================================
