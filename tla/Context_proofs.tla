---------------------------- MODULE Context_proofs ----------------------------
(***************************************************************************)
(* Proofs about the Context: whatever the threads, the devices and the     *)
(* order of their calls, there is one Context with metadata loaded once,   *)
(* and the tables initialize_accel keeps in it and in the drivers agree.   *)
(***************************************************************************)
EXTENDS Context, FiniteSetTheorems, SequenceTheorems, TLAPS

(* Where a thread is without a handle; where it has one that is not yet    *)
(* the global; and the rest.                                               *)
Without == {"start", "again", "build"}
PCs == Without \cup {"install", "idle", "accel", "queued", "load", "write", "locked",
                     "crates", "codegen", "link"}

ContextRecord ==
  [next : Nat, table : Seq(Nat),
   translators : UNION {[S -> Nat \ {0}] : S \in SUBSET DOMAIN Devices},
   metadata : {0, 1}, readers : SUBSET Threads, writer : Threads \cup {None}]

(* Every state is of this type, and there is at most one Context.          *)
ContextTypeOK ==
  /\ pool \in BOOLEAN /\ CTX \in {0, 1}
  /\ contexts \in Seq(ContextRecord) /\ Len(contexts) <= 1
  /\ accels \in Seq([id : Nat, device : DOMAIN Devices, driver : Nat])
  /\ drivers \in Seq([context : {1}, desc : DOMAIN Devices, accels : Seq(Nat)])
  /\ pc \in [Threads -> PCs]
  /\ handle \in [Threads -> {0, 1}]
  /\ making \in [Threads -> Nat]
  /\ drops \in Nat

(* Nobody has a Context before the pool is built, and whoever is done with *)
(* Context::new has the global one.                                        *)
HandlesOK ==
  /\ ~pool => contexts = << >>
  /\ CTX = 1 => contexts # << >>
  /\ \A t \in Threads :
       /\ handle[t] = 0 <=> pc[t] \in Without
       /\ handle[t] = 1 => contexts # << >>
       /\ pc[t] \notin Without \cup {"install"} => CTX = 1

(* Ids are places, one higher than the code's, and a place has what was    *)
(* initialized under its id.                                               *)
PlacesOK ==
  /\ contexts = << >> => accels = << >> /\ drivers = << >>
  /\ \A a \in DOMAIN accels : accels[a].id = a - 1
  /\ \A c \in DOMAIN contexts :
       /\ contexts[c].next = Len(accels)
       /\ \A i \in DOMAIN contexts[c].table :
            i \in DOMAIN accels /\ contexts[c].table[i] \in {0, i}
       /\ \A a \in DOMAIN accels :
            accels[a].driver # 0 <=> a \in DOMAIN contexts[c].table /\ contexts[c].table[a] = a

(* What is being made has no driver, and nobody else makes it.             *)
MakingOK ==
  \A t \in Threads : pc[t] = "accel" =>
    /\ making[t] \in DOMAIN accels /\ accels[making[t]].driver = 0
    /\ \A u \in Threads \ {t} : pc[u] = "accel" => making[u] # making[t]

(* An accelerator with a driver has that of its target and is listed by    *)
(* it; a driver lists those that have it, each once and at least one; and  *)
(* the translators know every driver, by its target.                       *)
HaveOK(as, ds) ==
  \A a \in DOMAIN as : as[a].driver # 0 =>
    /\ as[a].driver \in DOMAIN ds
    /\ ds[as[a].driver].desc = Desc[as[a].device]
    /\ \E n \in DOMAIN ds[as[a].driver].accels : ds[as[a].driver].accels[n] = a

ListOK(as, ds) ==
  \A k \in DOMAIN ds :
    /\ ds[k].accels # << >>
    /\ \A n \in DOMAIN ds[k].accels :
         ds[k].accels[n] \in DOMAIN as /\ as[ds[k].accels[n]].driver = k
    /\ \A n, m \in DOMAIN ds[k].accels : ds[k].accels[m] = ds[k].accels[n] => m = n

NamesOK(ds, names) ==
  /\ \A k \in DOMAIN ds : ds[k].desc \in DOMAIN names /\ names[ds[k].desc] = k
  /\ \A d \in DOMAIN names : names[d] \in DOMAIN ds /\ ds[names[d]].desc = d

DriversOK ==
  /\ HaveOK(accels, drivers) /\ ListOK(accels, drivers)
  /\ \A c \in DOMAIN contexts : NamesOK(drivers, contexts[c].translators)

IInv == ContextTypeOK /\ HandlesOK /\ PlacesOK /\ MakingOK /\ DriversOK

-----------------------------------------------------------------------------
(* Targets: the one chosen for a device is its own, and a device runs what *)
(* is compiled for it.                                                     *)
LEMMA DescIs ==
  ASSUME NEW d \in DOMAIN Devices
  PROVE  Desc[d] \in DOMAIN Devices /\ Targets!SameDesc(Descs[Desc[d]], Descs[d])
<1>1. Targets!SameDesc(Descs[d], Descs[d])
  BY DEF Targets!SameDesc
<1>2. QED
  BY <1>1 DEF Desc

LEMMA RunsItsOwn ==
  ASSUME NEW d \in DOMAIN Devices
  PROVE  Targets!Runs(Devices[d], Descs[Desc[d]])
<1> DEFINE dev == Devices[d]
           own == Targets!DescOf(dev)
<1>1. /\ Descs[Desc[d]].target = own.target
      /\ Descs[Desc[d]].platform = own.platform
  BY DescIs DEF Targets!SameDesc, Descs
<1>2. CASE dev.platform = "amdgpu"
  <2>1. own = Targets!AmdDesc(dev)
    BY <1>2 DEF Targets!DescOf
  <2>2. own.target = Targets!AmdTarget(dev)
        /\ own.platform = [isa |-> dev.isa, has_pcie_large_bar |-> dev.large_bar]
    BY <2>1 DEF Targets!AmdDesc, Targets!HostDesc
  <2>3. Targets!AmdTarget(dev).arch = "amdgpu"
    BY DEF Targets!AmdTarget, Targets!Host
  <2>4. QED
    BY <1>1, <1>2, <2>2, <2>3 DEF Targets!Runs
<1>3. CASE dev.platform # "amdgpu"
  <2>1. own = Targets!VkDesc(dev)
    BY <1>3 DEF Targets!DescOf
  <2>2. own.target = Targets!VkTarget(dev)
    BY <2>1 DEF Targets!VkDesc, Targets!HostDesc
  <2>3. /\ Targets!VkTarget(dev).arch = "spirv64"
        /\ Targets!VkTarget(dev).features = Targets!VkFeatures(dev)
    BY DEF Targets!VkTarget, Targets!Host
  <2>4. ASSUME NEW n \in DOMAIN Targets!VkFeatures(dev), NEW m \in DOMAIN Targets!VkTable,
               Targets!VkFeatures(dev)[n][1] = Targets!VkTable[m][2]
        PROVE  Targets!VkTable[m][1] \in dev.enabled
    <3>1. DOMAIN Targets!VkTable = 1 .. 14
      BY DEF Targets!VkTable
    <3>2. Targets!VkTable[m][2] # "shader"
      BY <3>1 DEF Targets!VkTable
    <3>3. n # 0 /\ n \in DOMAIN Targets!VkTable /\ Targets!VkTable[n][1] \in dev.enabled
          /\ Targets!VkTable[n][2] = Targets!VkTable[m][2]
      BY <2>4, <3>2 DEF Targets!VkFeatures
    <3>4. n = m
      BY <3>1, <3>3 DEF Targets!VkTable
    <3>5. QED
      BY <3>3, <3>4
  <2>5. QED
    BY <1>1, <1>3, <2>2, <2>3, <2>4 DEF Targets!Runs, Targets!Range
<1>4. QED
  BY <1>2, <1>3

-----------------------------------------------------------------------------
(* The Context as a record of its type, and what replaces it.              *)
LEMMA TheContext ==
  ASSUME ContextTypeOK
  PROVE  /\ contexts # << >> => DOMAIN contexts = {1} /\ contexts[1] \in ContextRecord
         /\ \A c \in DOMAIN contexts : c = 1
<1>1. contexts \in Seq(ContextRecord) /\ Len(contexts) <= 1
  BY DEF ContextTypeOK
<1> HIDE DEF ContextRecord
<1>2. /\ Len(contexts) \in Nat /\ DOMAIN contexts = 1 .. Len(contexts)
      /\ contexts \in [1 .. Len(contexts) -> ContextRecord]
      /\ contexts # << >> => Len(contexts) \in Nat \ {0}
  BY <1>1, LenProperties, EmptySeq
<1>3. QED
  BY <1>1, <1>2

LEMMA Replaced ==
  ASSUME ContextTypeOK, contexts # << >>, NEW r \in ContextRecord,
         contexts' = [contexts EXCEPT ![1] = r]
  PROVE  /\ contexts' \in Seq(ContextRecord) /\ Len(contexts') <= 1
         /\ contexts' # << >> /\ DOMAIN contexts' = {1} /\ contexts'[1] = r
<1>1. contexts \in Seq(ContextRecord) /\ Len(contexts) <= 1 /\ DOMAIN contexts = {1}
  BY TheContext DEF ContextTypeOK
<1> HIDE DEF ContextRecord
<1>2. 1 \in 1 .. Len(contexts)
  BY <1>1, LenProperties
<1>3. contexts' \in Seq(ContextRecord) /\ Len(contexts') = Len(contexts)
  BY <1>1, <1>2, ExceptSeq
<1>4. DOMAIN contexts' = {1} /\ contexts'[1] = r
  BY <1>1
<1>5. QED
  BY <1>1, <1>2, <1>3, <1>4, EmptySeq

-----------------------------------------------------------------------------
(* The steps that leave the accelerators alone: what the Context says of   *)
(* them stays, and the places of the threads decide.                       *)
LEMMA RegistryKept ==
  ASSUME ContextTypeOK, PlacesOK, DriversOK, contexts # << >>, UNCHANGED <<accels, drivers>>,
         NEW r \in ContextRecord, contexts' = [contexts EXCEPT ![1] = r],
         r.next = contexts[1].next, r.table = contexts[1].table,
         r.translators = contexts[1].translators
  PROVE  PlacesOK' /\ DriversOK'
<1>1. /\ DOMAIN contexts = {1} /\ DOMAIN contexts' = {1} /\ contexts' # << >>
      /\ contexts'[1] = r
  BY TheContext, Replaced
<1> HIDE DEF ContextRecord
<1>2. PlacesOK'
  BY <1>1 DEF PlacesOK
<1>3. DriversOK'
  BY <1>1 DEF DriversOK, HaveOK, ListOK, NamesOK
<1>4. QED
  BY <1>2, <1>3

LEMMA SessionMoves ==
  ASSUME IInv, NEW t \in Threads, handle[t] = 1,
         NEW r \in ContextRecord, contexts' = [contexts EXCEPT ![1] = r],
         r.next = contexts[1].next, r.table = contexts[1].table,
         r.translators = contexts[1].translators,
         pc[t] \notin {"install", "accel"},
         NEW to \in PCs \ (Without \cup {"install", "accel"}), Goto(t, to),
         UNCHANGED <<pool, CTX, accels, drivers, handle, making, drops>>
  PROVE  IInv'
<1>1. ContextTypeOK /\ HandlesOK /\ PlacesOK /\ MakingOK /\ DriversOK
  BY DEF IInv
<1>2. contexts # << >> /\ CTX = 1
  BY <1>1 DEF HandlesOK, ContextTypeOK
<1>3. /\ contexts' \in Seq(ContextRecord) /\ Len(contexts') <= 1 /\ contexts' # << >>
  BY <1>1, <1>2, Replaced
<1>4. pc' \in [Threads -> PCs] /\ \A u \in Threads : pc'[u] = IF u = t THEN to ELSE pc[u]
  BY <1>1 DEF Goto, ContextTypeOK
<1>5. ContextTypeOK'
  BY <1>1, <1>3, <1>4 DEF ContextTypeOK
<1>6. HandlesOK'
  BY <1>1, <1>2, <1>3, <1>4 DEF HandlesOK
<1>7. MakingOK'
  BY <1>1, <1>4 DEF MakingOK
<1>8. QED
  BY <1>1, <1>2, <1>5, <1>6, <1>7, RegistryKept DEF IInv

LEMMA LocksAre ==
  ASSUME NEW r \in ContextRecord
  PROVE  /\ \A t \in Threads \cup {None} : [r EXCEPT !.writer = t] \in ContextRecord
         /\ \A ts \in SUBSET Threads : [r EXCEPT !.readers = ts] \in ContextRecord
         /\ r.readers \subseteq Threads
BY DEF ContextRecord

LEMMA LoadedIs ==
  ASSUME NEW r \in ContextRecord, NEW t \in Threads
  PROVE  /\ Loaded(r, t) \in ContextRecord
         /\ Loaded(r, t).next = r.next /\ Loaded(r, t).table = r.table
         /\ Loaded(r, t).translators = r.translators
<1> DEFINE m == IF Beaten(r) THEN r.metadata ELSE r.metadata + 1
<1>1. m \in {0, 1}
  BY DEF Beaten, ContextRecord
<1>2. Loaded(r, t) = [r EXCEPT !.writer = None, !.readers = {t}, !.metadata = m]
  BY DEF Loaded, ContextRecord
<1> HIDE DEF m
<1>3. QED
  BY <1>1, <1>2 DEF ContextRecord

LEMMA SessionKeeps ==
  ASSUME IInv, NEW t \in Threads, SessionStep(t)
  PROVE  IInv'
<1> DEFINE c == contexts[1]
<1>1. pc[t] \notin Without \cup {"install", "accel"}
  BY DEF SessionStep, LoadRead, LoadLock, Load, Writes, LoadFails, Ends, Moves, Without
<1>2. handle[t] = 1 /\ contexts # << >> /\ c \in ContextRecord
  BY <1>1, TheContext DEF IInv, ContextTypeOK, HandlesOK
<1>3. contexts = [contexts EXCEPT ![1] = c]
  BY <1>2, TheContext DEF IInv, ContextTypeOK
<1>4. PICK to \in PCs \ (Without \cup {"install", "accel"}) :
        Goto(t, to) /\ UNCHANGED <<pool, CTX, accels, drivers, handle, making, drops>>
  BY DEF SessionStep, LoadRead, LoadLock, Load, LoadFails, Ends, Moves, PCs, Without, contextVars
<1> DEFINE Same(r) == /\ r \in ContextRecord /\ contexts' = [contexts EXCEPT ![1] = r]
                      /\ r.next = c.next /\ r.table = c.table /\ r.translators = c.translators
<1>5. \E r : Same(r)
  <2>1. CASE UNCHANGED contexts
    <3>1. Same(c)
      BY <1>2, <1>3, <2>1
    <3>2. QED
      BY <3>1
  <2>2. CASE \E ts \in SUBSET Threads : contexts' = [contexts EXCEPT ![1].readers = ts]
    <3>1. PICK ts \in SUBSET Threads : contexts' = [contexts EXCEPT ![1].readers = ts]
      BY <2>2
    <3>2. Same([c EXCEPT !.readers = ts])
      BY <1>2, <3>1, LocksAre DEF ContextRecord
    <3>3. QED
      BY <3>2
  <2>3. CASE \E u \in Threads \cup {None} : contexts' = [contexts EXCEPT ![1].writer = u]
    <3>1. PICK u \in Threads \cup {None} : contexts' = [contexts EXCEPT ![1].writer = u]
      BY <2>3
    <3>2. Same([c EXCEPT !.writer = u])
      BY <1>2, <3>1, LocksAre DEF ContextRecord
    <3>3. QED
      BY <3>2
  <2>4. CASE Load(t)
    <3>1. contexts' = [contexts EXCEPT ![1] = Loaded(c, t)]
      BY <1>2, <2>4 DEF Load
    <3>2. Same(Loaded(c, t))
      BY <1>2, <3>1, LoadedIs
    <3>3. QED
      BY <3>2
  <2>5. CASE LoadRead(t)
    BY <1>2, <2>1, <2>2, <2>5, LocksAre DEF LoadRead
  <2>6. CASE LoadLock(t)
    BY <1>2, <2>3, <2>6 DEF LoadLock
  <2>7. CASE LoadFails(t)
    BY <1>2, <2>3, <2>7, TheContext DEF LoadFails, Unlocked, IInv
  <2>8. CASE Ends(t)
    BY <1>2, <2>2, <2>8, LocksAre DEF Ends
  <2>9. QED
    BY <2>1, <2>4, <2>5, <2>6, <2>7, <2>8 DEF SessionStep, Moves, contextVars
<1>6. QED
  BY <1>1, <1>2, <1>4, <1>5, SessionMoves

-----------------------------------------------------------------------------
(* Handles.                                                                *)
LEMMA AccelsSame ==
  ASSUME PlacesOK, DriversOK, UNCHANGED <<contexts, accels, drivers>>
  PROVE  PlacesOK' /\ DriversOK'
BY DEF PlacesOK, DriversOK, HaveOK, ListOK, NamesOK

LEMMA LookKeeps ==
  ASSUME IInv, NEW t \in Threads, Look(t)
  PROVE  IInv'
<1>1. ContextTypeOK /\ HandlesOK /\ MakingOK /\ Global \in {0, CTX}
  BY DEF IInv, Global
<1>2. CASE Global # 0
  <2>1. handle' = [handle EXCEPT ![t] = 1] /\ pc' = [pc EXCEPT ![t] = "idle"] /\ CTX = 1
    BY <1>1, <1>2 DEF Look, Take, Goto, ContextTypeOK
  <2>2. ContextTypeOK' /\ HandlesOK' /\ MakingOK'
    BY <1>1, <2>1 DEF Look, ContextTypeOK, HandlesOK, MakingOK, PCs, Without
  <2>3. QED
    BY <2>2, AccelsSame DEF IInv, Look
<1>3. CASE Global = 0
  <2>1. PICK to \in {"again", "build"} : pc' = [pc EXCEPT ![t] = to] /\ UNCHANGED handle
    BY <1>3 DEF Look, Goto
  <2>2. ContextTypeOK' /\ HandlesOK' /\ MakingOK'
    BY <1>1, <2>1 DEF Look, ContextTypeOK, HandlesOK, MakingOK, PCs, Without
  <2>3. QED
    BY <2>2, AccelsSame DEF IInv, Look
<1>4. QED
  BY <1>2, <1>3

LEMMA BuildFailsKeeps ==
  ASSUME IInv, NEW t \in Threads, BuildFails(t)
  PROVE  IInv'
<1>1. ContextTypeOK' /\ HandlesOK' /\ MakingOK'
  BY DEF IInv, BuildFails, Goto, ContextTypeOK, HandlesOK, MakingOK, PCs, Without
<1>2. QED
  BY <1>1, AccelsSame DEF IInv, BuildFails

LEMMA InstallKeeps ==
  ASSUME IInv, NEW t \in Threads, Install(t)
  PROVE  IInv'
<1>1. ContextTypeOK' /\ HandlesOK' /\ MakingOK'
  BY DEF IInv, Install, Goto, ContextTypeOK, HandlesOK, MakingOK, PCs, Without
<1>2. QED
  BY <1>1, AccelsSame DEF IInv, Install

LEMMA DropKeeps ==
  ASSUME IInv, NEW t \in Threads, Drop(t)
  PROVE  IInv'
<1>1. ContextTypeOK' /\ HandlesOK' /\ MakingOK'
  BY DEF IInv, Drop, Take, Goto, ContextTypeOK, HandlesOK, MakingOK, PCs, Without
<1>2. QED
  BY <1>1, AccelsSame DEF IInv, Drop

LEMMA BuildKeeps ==
  ASSUME IInv, NEW t \in Threads, Build(t)
  PROVE  IInv'
<1>1. contexts = << >> /\ accels = << >> /\ drivers = << >> /\ ~pool
  BY DEF IInv, Build, PoolTaken, HandlesOK, PlacesOK
<1>2. NewContext \in ContextRecord
  <2>1. << >> \in [{} -> Nat \ {0}]
    OBVIOUS
  <2>2. << >> \in UNION {[S -> Nat \ {0}] : S \in SUBSET DOMAIN Devices}
    BY <2>1
  <2>3. QED
    BY <2>2 DEF NewContext, ContextRecord
<1>3. contexts' = <<NewContext>> /\ DOMAIN contexts' = {1} /\ contexts'[1] = NewContext
  BY <1>1 DEF Build
<1>4. contexts' \in Seq(ContextRecord) /\ Len(contexts') <= 1
  BY <1>2, <1>3
<1>5. ContextTypeOK' /\ HandlesOK' /\ MakingOK'
  BY <1>1, <1>3, <1>4
     DEF IInv, Build, Take, Goto, ContextTypeOK, HandlesOK, MakingOK, PCs, Without
<1>6. PlacesOK' /\ DriversOK'
  <2>1. accels' = << >> /\ drivers' = << >>
    BY <1>1 DEF Build
  <2>2. PlacesOK'
    BY <1>3, <2>1 DEF NewContext, PlacesOK
  <2>3. DriversOK'
    BY <1>3, <2>1 DEF NewContext, DriversOK, HaveOK, ListOK, NamesOK
  <2>4. QED
    BY <2>2, <2>3
<1>7. QED
  BY <1>5, <1>6 DEF IInv

-----------------------------------------------------------------------------
(* Accelerators.                                                           *)
LEMMA NewAccelFailsKeeps ==
  ASSUME IInv, NEW t \in Threads, NewAccelFails(t)
  PROVE  IInv'
<1>1. ContextTypeOK' /\ HandlesOK' /\ MakingOK'
  BY DEF IInv, NewAccelFails, Goto, ContextTypeOK, HandlesOK, MakingOK, PCs, Without
<1>2. QED
  BY <1>1, AccelsSame DEF IInv, NewAccelFails

LEMMA TakeAccelIdKeeps ==
  ASSUME IInv, NEW t \in Threads, TakeAccelId(t, DOMAIN Devices)
  PROVE  IInv'
<1> DEFINE c == contexts[1]
           n == Len(accels)
           r == [c EXCEPT !.next = c.next + 1]
<1>1. ContextTypeOK /\ HandlesOK /\ PlacesOK /\ MakingOK /\ DriversOK
  BY DEF IInv
<1>2. handle[t] = 1 /\ contexts # << >> /\ c \in ContextRecord /\ CTX = 1
  BY <1>1, TheContext DEF ContextTypeOK, HandlesOK, TakeAccelId, Without
<1>3. n \in Nat /\ DOMAIN accels = 1 .. n /\ c.next = n
  BY <1>1, <1>2, TheContext, LenProperties DEF ContextTypeOK, PlacesOK
<1>4. PICK a : /\ a \in [id : Nat, device : DOMAIN Devices, driver : Nat]
               /\ a.id = n /\ a.driver = 0 /\ accels' = Append(accels, a)
  <2>1. PICK d \in DOMAIN Devices :
          accels' = Append(accels, [id |-> contexts[handle[t]].next, device |-> d, driver |-> 0])
    BY DEF TakeAccelId
  <2>2. QED
    BY <1>2, <1>3, <2>1
<1>5. /\ accels' \in Seq([id : Nat, device : DOMAIN Devices, driver : Nat])
      /\ Len(accels') = n + 1 /\ DOMAIN accels' = 1 .. n + 1
      /\ accels'[n + 1] = a /\ \A i \in DOMAIN accels : accels'[i] = accels[i]
  BY <1>1, <1>3, <1>4, AppendProperties, LenProperties DEF ContextTypeOK
<1>6. r \in ContextRecord /\ r.next = n + 1 /\ r.table = c.table /\ r.translators = c.translators
  <2>1. c.next + 1 \in Nat
    BY <1>3
  <2>2. r \in ContextRecord /\ r.next = c.next + 1
    BY <1>2, <2>1 DEF ContextRecord
  <2>3. r.table = c.table /\ r.translators = c.translators
    BY <1>2 DEF ContextRecord
  <2>4. QED
    BY <1>3, <2>2, <2>3
<1>7. contexts' = [contexts EXCEPT ![1] = r]
  BY <1>2 DEF TakeAccelId
<1>8. /\ contexts' \in Seq(ContextRecord) /\ Len(contexts') <= 1
      /\ contexts' # << >> /\ DOMAIN contexts' = {1} /\ contexts'[1] = r
  BY <1>1, <1>2, <1>6, <1>7, Replaced
<1>9. /\ pc' = [pc EXCEPT ![t] = "accel"] /\ making' = [making EXCEPT ![t] = n + 1]
      /\ pc[t] = "idle" /\ UNCHANGED <<pool, CTX, drivers, handle, drops>>
  BY DEF TakeAccelId, Goto
<1> HIDE DEF r, n
<1>10. ContextTypeOK'
  BY <1>1, <1>3, <1>5, <1>8, <1>9 DEF ContextTypeOK, PCs
<1>11. HandlesOK'
  BY <1>1, <1>2, <1>8, <1>9 DEF HandlesOK, ContextTypeOK, PCs, Without
<1>12. MakingOK'
  BY <1>1, <1>3, <1>4, <1>5, <1>9 DEF MakingOK, ContextTypeOK
<1>13. PlacesOK'
  BY <1>1, <1>2, <1>3, <1>4, <1>5, <1>6, <1>8, TheContext DEF PlacesOK
<1>14. DriversOK'
  <2>1. \A i \in DOMAIN accels' : accels'[i].driver # 0 =>
          i \in DOMAIN accels /\ accels'[i] = accels[i]
    BY <1>3, <1>4, <1>5
  <2>2. \A i \in DOMAIN accels : i \in DOMAIN accels' /\ accels'[i] = accels[i]
    BY <1>3, <1>5
  <2>3. DOMAIN contexts = {1} /\ contexts'[1].translators = contexts[1].translators
    BY <1>1, <1>2, <1>6, <1>8, TheContext
  <2>4. QED
    BY ONLY <1>1, <1>8, <1>9, <2>1, <2>2, <2>3 DEF DriversOK, HaveOK, ListOK, NamesOK
<1>15. QED
  BY <1>10, <1>11, <1>12, <1>13, <1>14 DEF IInv

LEMMA InsertedIs ==
  ASSUME NEW table \in Seq(Nat), NEW id \in Nat, NEW a \in Nat, id + 1 = a
  PROVE  LET T == Inserted(table, id, a)
         IN  /\ T \in Seq(Nat) /\ a \in DOMAIN T /\ T[a] = a /\ DOMAIN table \subseteq DOMAIN T
             /\ \A i \in DOMAIN T : i # a =>
                  /\ i \in DOMAIN table \/ i <= id
                  /\ i \in DOMAIN table => T[i] = table[i]
                  /\ i \notin DOMAIN table => T[i] = 0
<1> DEFINE n == IF id < Len(table) THEN Len(table) ELSE id + 1
           T == Inserted(table, id, a)
           at(i) == CASE i = id + 1 -> a
                      [] i # id + 1 /\ i \in DOMAIN table -> table[i]
                      [] OTHER -> 0
<1>1. DOMAIN table = 1 .. Len(table) /\ Len(table) \in Nat /\ \A i \in DOMAIN table : table[i] \in Nat
  BY LenProperties
<1>2. n \in Nat /\ id + 1 \in 1 .. n /\ 1 .. Len(table) \subseteq 1 .. n
  BY <1>1
<1>3. T = [i \in 1 .. n |-> at(i)]
  BY DEF Inserted
<1>4. \A i \in 1 .. n : at(i) = IF i = id + 1 THEN a ELSE IF i \in DOMAIN table THEN table[i] ELSE 0
  OBVIOUS
<1>5. \A i \in 1 .. n : at(i) \in Nat
  BY <1>1, <1>4
<1>6. \A i \in 1 .. n : i = id + 1 \/ i \in DOMAIN table \/ i <= id
  BY <1>1
<1> HIDE DEF n, at
<1>7. T \in [1 .. n -> Nat]
  BY <1>3, <1>5
<1>8. T \in Seq(Nat)
  BY <1>2, <1>7
<1>9. QED
  BY <1>1, <1>2, <1>3, <1>4, <1>6, <1>8

(* What the two ways of InitializeAccel have in common: the accelerator is *)
(* given the driver k and the Context becomes r.                           *)
Given(t, k, r) ==
  LET c == contexts[1]
      a == making[t]
      d == Desc[accels[a].device]
  IN  /\ r \in ContextRecord /\ r.next = c.next
      /\ r.table = Inserted(c.table, accels[a].id, a)
      /\ r.translators = [e \in DOMAIN c.translators \cup {d} |->
                             IF e = d THEN k ELSE c.translators[e]]
      /\ contexts' = [contexts EXCEPT ![1] = r]
      /\ accels' = [accels EXCEPT ![a].driver = k]
      /\ k \in Nat \ {0}

LEMMA GivenPlace ==
  ASSUME IInv, NEW t \in Threads, InitializeAccel(t),
         NEW k, NEW r, Given(t, k, r),
         drivers' \in Seq([context : {1}, desc : DOMAIN Devices, accels : Seq(Nat)])
  PROVE  ContextTypeOK' /\ HandlesOK' /\ PlacesOK' /\ MakingOK'
<1> DEFINE c == contexts[1]
           a == making[t]
<1>1. ContextTypeOK /\ HandlesOK /\ PlacesOK /\ MakingOK
  BY DEF IInv
<1>2. /\ pc[t] = "accel" /\ pc' = [pc EXCEPT ![t] = "idle"] /\ making' = [making EXCEPT ![t] = 0]
      /\ UNCHANGED <<pool, CTX, handle, drops>>
  BY DEF InitializeAccel, Goto
<1>3. /\ contexts # << >> /\ DOMAIN contexts = {1} /\ c \in ContextRecord /\ CTX = 1
      /\ handle[t] = 1
  BY <1>1, <1>2, TheContext DEF ContextTypeOK, HandlesOK, Without
<1>4. /\ contexts' \in Seq(ContextRecord) /\ Len(contexts') <= 1
      /\ contexts' # << >> /\ DOMAIN contexts' = {1} /\ contexts'[1] = r
  BY <1>1, <1>3, Replaced DEF Given
<1>5. a \in DOMAIN accels /\ accels[a].driver = 0 /\ accels[a].id = a - 1
  BY <1>1, <1>2 DEF MakingOK, PlacesOK
<1>6. /\ accels' \in Seq([id : Nat, device : DOMAIN Devices, driver : Nat])
      /\ Len(accels') = Len(accels) /\ DOMAIN accels' = DOMAIN accels
      /\ accels'[a].driver = k
      /\ \A i \in DOMAIN accels :
           /\ accels'[i].id = accels[i].id /\ accels'[i].device = accels[i].device
           /\ i # a => accels'[i] = accels[i]
  <2>1. DOMAIN accels = 1 .. Len(accels)
        /\ \A i \in DOMAIN accels : accels[i] \in [id : Nat, device : DOMAIN Devices, driver : Nat]
    BY <1>1, LenProperties DEF ContextTypeOK
  <2>2. accels' = [accels EXCEPT ![a] = [accels[a] EXCEPT !.driver = k]]
        /\ [accels[a] EXCEPT !.driver = k] \in [id : Nat, device : DOMAIN Devices, driver : Nat]
    BY <1>5, <2>1 DEF Given
  <2>3. accels' \in Seq([id : Nat, device : DOMAIN Devices, driver : Nat])
        /\ Len(accels') = Len(accels)
    BY <1>1, <1>5, <2>1, <2>2, ExceptSeq DEF ContextTypeOK
  <2>4. QED
    BY <1>5, <2>1, <2>2, <2>3
<1>7. ContextTypeOK'
  BY <1>1, <1>2, <1>4, <1>6 DEF ContextTypeOK, PCs
<1>8. HandlesOK'
  BY <1>1, <1>2, <1>3, <1>4 DEF HandlesOK, ContextTypeOK, PCs, Without
<1>9. MakingOK'
  <2>1. pc \in [Threads -> PCs] /\ making \in [Threads -> Nat]
    BY <1>1 DEF ContextTypeOK
  <2>2. \A u \in Threads : pc'[u] = "accel" =>
          u # t /\ pc[u] = "accel" /\ making'[u] = making[u] /\ making[u] # a
    BY <1>1, <1>2, <2>1 DEF MakingOK
  <2>3. QED
    BY ONLY <1>1, <1>6, <2>2 DEF MakingOK
<1>10. c.table \in Seq(Nat) /\ DOMAIN accels = 1 .. Len(accels) /\ Len(accels) \in Nat
       /\ DOMAIN c.table \subseteq DOMAIN accels
  BY <1>1, <1>3, LenProperties DEF ContextTypeOK, ContextRecord, PlacesOK
<1> DEFINE id == a - 1
<1>11. id \in Nat /\ a \in Nat /\ id + 1 = a /\ r.table = Inserted(c.table, id, a)
  <2>1. a \in 1 .. Len(accels)
    BY <1>5, <1>10
  <2>2. QED
    BY <1>5, <1>10, <2>1 DEF Given
<1> HIDE DEF a, c, id
<1>12. /\ r.table \in Seq(Nat) /\ a \in DOMAIN r.table /\ DOMAIN c.table \subseteq DOMAIN r.table
       /\ r.table[a] = a
  <2>0. c.table \in Seq(Nat) /\ id \in Nat /\ a \in Nat /\ id + 1 = a
    BY ONLY <1>10, <1>11
  <2>1. r.table \in Seq(Nat) /\ a \in DOMAIN r.table /\ DOMAIN c.table \subseteq DOMAIN r.table
    <3>1. /\ Inserted(c.table, id, a) \in Seq(Nat)
          /\ id + 1 \in DOMAIN Inserted(c.table, id, a)
          /\ DOMAIN c.table \subseteq DOMAIN Inserted(c.table, id, a)
      BY ONLY <2>0, InsertedIs
    <3>2. QED
      BY ONLY <1>11, <3>1
  <2>2. Inserted(c.table, id, a)[a] = a
    BY ONLY <1>10, <1>11, InsertedIs
  <2>3. QED
    BY <1>11, <2>1, <2>2
<1>13. \A i \in DOMAIN r.table : i # a => i \in DOMAIN c.table \/ i <= id
  BY ONLY <1>10, <1>11, InsertedIs
<1>14. /\ \A i \in DOMAIN c.table : i # a => r.table[i] = c.table[i]
       /\ \A i \in DOMAIN r.table : i # a /\ i \notin DOMAIN c.table => r.table[i] = 0
  <2>1. \A i \in DOMAIN c.table : i # a => r.table[i] = c.table[i]
    <3>1. \A i \in DOMAIN r.table : i # a /\ i \in DOMAIN c.table => r.table[i] = c.table[i]
      BY ONLY <1>10, <1>11, InsertedIs
    <3>2. QED
      BY ONLY <1>12, <3>1
  <2>2. \A i \in DOMAIN r.table : i # a /\ i \notin DOMAIN c.table => r.table[i] = 0
    BY ONLY <1>10, <1>11, InsertedIs
  <2>3. QED
    BY ONLY <2>1, <2>2
<1>15. \A i \in DOMAIN r.table : i \in DOMAIN accels
  <2>1. \A i \in DOMAIN r.table : i \in Nat \ {0}
    BY <1>12, LenProperties
  <2>2. QED
    BY <1>5, <1>10, <1>11, <1>13, <2>1
<1>16. PlacesOK'
  <2>1. r.next = c.next /\ k \in Nat \ {0}
    BY DEF Given, c
  <2>2. /\ c.next = Len(accels)
        /\ \A i \in DOMAIN c.table : c.table[i] \in {0, i}
        /\ \A i \in DOMAIN accels : accels[i].id = i - 1
        /\ \A i \in DOMAIN accels :
             accels[i].driver # 0 <=> i \in DOMAIN c.table /\ c.table[i] = i
    BY <1>1, <1>3 DEF PlacesOK, c
  <2>3. \A i \in DOMAIN r.table : i \in DOMAIN accels /\ r.table[i] \in {0, i}
    BY <1>12, <1>14, <1>15, <2>2
  <2>4. \A i \in DOMAIN accels :
          accels'[i].driver # 0 <=> i \in DOMAIN r.table /\ r.table[i] = i
    <3>1. \A i \in DOMAIN accels : i # 0
      BY <1>10
    <3>2. accels'[a].driver # 0
      BY <1>6, <2>1
    <3>3. \A i \in DOMAIN accels : i # a => accels'[i].driver = accels[i].driver
      BY <1>6
    <3>4. \A i \in DOMAIN accels : i # a =>
            ((i \in DOMAIN r.table /\ r.table[i] = i) <=> (i \in DOMAIN c.table /\ c.table[i] = i))
      BY <1>12, <1>14, <1>15, <3>1
    <3>5. \A i \in DOMAIN accels : i # a =>
            (accels'[i].driver # 0 <=> i \in DOMAIN r.table /\ r.table[i] = i)
      BY <2>2, <3>3, <3>4
    <3>6. QED
      BY <1>12, <3>2, <3>5
  <2>5. \A i \in DOMAIN accels' : accels'[i].id = i - 1
    BY <1>6, <2>2
  <2>6. r.next = Len(accels')
    BY <1>6, <2>1, <2>2
  <2>7. QED
    BY ONLY <1>4, <1>6, <2>3, <2>4, <2>5, <2>6 DEF PlacesOK
<1>17. QED
  BY <1>7, <1>8, <1>9, <1>16

LEMMA AppendIs ==
  ASSUME NEW l \in Seq(Nat), NEW a \in Nat
  PROVE  /\ Append(l, a) # << >>
         /\ \A n \in DOMAIN l : n \in DOMAIN Append(l, a) /\ Append(l, a)[n] = l[n]
         /\ \E m \in DOMAIN Append(l, a) \ DOMAIN l :
              DOMAIN Append(l, a) = DOMAIN l \cup {m} /\ Append(l, a)[m] = a
<1>1. /\ DOMAIN l = 1 .. Len(l) /\ Len(l) \in Nat
      /\ Append(l, a) \in Seq(Nat) /\ Append(l, a) # << >> /\ Len(Append(l, a)) = Len(l) + 1
      /\ \A n \in 1 .. Len(l) : Append(l, a)[n] = l[n]
      /\ Append(l, a)[Len(l) + 1] = a
  BY LenProperties, AppendProperties
<1>2. DOMAIN Append(l, a) = 1 .. Len(l) + 1
  BY <1>1, LenProperties
<1>3. Len(l) + 1 \in DOMAIN Append(l, a) \ DOMAIN l
      /\ DOMAIN Append(l, a) = DOMAIN l \cup {Len(l) + 1}
  BY <1>1, <1>2
<1>4. \A n \in DOMAIN l : n \in DOMAIN Append(l, a)
  BY <1>3
<1>5. QED
  BY <1>1, <1>3, <1>4

LEMMA AccelsAre ==
  ASSUME ContextTypeOK
  PROVE  \A i \in DOMAIN accels :
           i \in Nat /\ accels[i] \in [id : Nat, device : DOMAIN Devices, driver : Nat]
<1> DEFINE Accel == [id : Nat, device : DOMAIN Devices, driver : Nat]
<1>1. accels \in Seq(Accel)
  BY DEF ContextTypeOK
<1> HIDE DEF Accel
<1>2. \A i \in DOMAIN accels : i \in Nat /\ accels[i] \in Accel
  BY <1>1, LenProperties
<1>3. QED
  BY <1>2 DEF Accel

LEMMA DriversAre ==
  ASSUME ContextTypeOK
  PROVE  /\ Len(drivers) \in Nat /\ DOMAIN drivers = 1 .. Len(drivers)
         /\ \A k \in DOMAIN drivers :
              drivers[k] \in [context : {1}, desc : DOMAIN Devices, accels : Seq(Nat)]
<1> DEFINE Driver == [context : {1}, desc : DOMAIN Devices, accels : Seq(Nat)]
<1>1. drivers \in Seq(Driver)
  BY DEF ContextTypeOK
<1> HIDE DEF Driver
<1>2. /\ Len(drivers) \in Nat /\ DOMAIN drivers = 1 .. Len(drivers)
      /\ \A k \in DOMAIN drivers : drivers[k] \in Driver
  BY <1>1, LenProperties
<1>3. QED
  BY <1>2 DEF Driver

(* Drivers live as long as they are listed, so the translators' answer is  *)
(* what they have.                                                         *)
LEMMA DriverOfIs ==
  ASSUME ContextTypeOK, DriversOK, contexts # << >>, NEW d
  PROVE  LET names == contexts[1].translators
             k == DriverOf(names, d)
         IN  /\ d \in DOMAIN names => k = names[d] /\ k \in DOMAIN drivers
             /\ d \notin DOMAIN names => k = 0
<1> DEFINE names == contexts[1].translators
<1>1. ASSUME d \in DOMAIN names
      PROVE  names[d] \in DOMAIN drivers /\ DriverAlive(names[d])
  <2>1. names[d] \in DOMAIN drivers
    BY <1>1, TheContext DEF DriversOK, HaveOK, ListOK, NamesOK
  <2>2. PICK k \in DOMAIN drivers : k = names[d]
    BY <2>1
  <2>3. drivers[k] \in [context : {1}, desc : DOMAIN Devices, accels : Seq(Nat)]
    BY DriversAre
  <2>4. drivers[k].accels \in Seq(Nat) /\ drivers[k].accels # << >>
    BY <2>3 DEF DriversOK, HaveOK, ListOK, NamesOK
  <2>5. 1 \in DOMAIN drivers[k].accels
    BY <2>4, LenProperties, EmptySeq
  <2>6. \E a \in DOMAIN accels : accels[a].driver = k
    BY <2>5 DEF DriversOK, HaveOK, ListOK, NamesOK
  <2>7. QED
    BY <2>1, <2>2, <2>6 DEF DriverAlive
<1>2. QED
  BY <1>1 DEF DriverOf

LEMMA KnownDriver ==
  ASSUME ContextTypeOK, DriversOK, contexts # << >>,
         NEW a \in DOMAIN accels, accels[a].driver = 0,
         NEW k \in DOMAIN drivers,
         drivers' = [drivers EXCEPT ![k].accels = Append(@, a)]
  PROVE  /\ drivers' \in Seq([context : {1}, desc : DOMAIN Devices, accels : Seq(Nat)])
         /\ DOMAIN drivers' = DOMAIN drivers
         /\ \A q \in DOMAIN drivers : /\ drivers'[q].desc = drivers[q].desc
                                      /\ q # k => drivers'[q] = drivers[q]
         /\ drivers'[k].accels = Append(drivers[k].accels, a)
         /\ drivers[k].accels \in Seq(Nat) /\ a \in Nat
<1> DEFINE Driver == [context : {1}, desc : DOMAIN Devices, accels : Seq(Nat)]
           l == drivers[k].accels
           e == [drivers[k] EXCEPT !.accels = Append(l, a)]
<1>1. drivers \in Seq(Driver) /\ k \in 1 .. Len(drivers) /\ drivers[k] \in Driver
      /\ DOMAIN drivers = 1 .. Len(drivers)
  BY DriversAre DEF ContextTypeOK
<1>2. a \in Nat
  BY LenProperties DEF ContextTypeOK
<1>3. l \in Seq(Nat)
  BY <1>1
<1>4. Append(l, a) \in Seq(Nat)
  BY <1>2, <1>3
<1>5. e \in Driver /\ e.desc = drivers[k].desc /\ e.accels = Append(l, a)
  BY <1>1, <1>4
<1>6. drivers' = [drivers EXCEPT ![k] = e]
  OBVIOUS
<1> HIDE DEF e, Driver
<1>7. drivers' \in Seq(Driver) /\ Len(drivers') = Len(drivers)
  BY ONLY <1>1, <1>5, <1>6, ExceptSeq
<1>8. /\ DOMAIN drivers' = DOMAIN drivers
      /\ drivers'[k] = e /\ \A q \in DOMAIN drivers : q # k => drivers'[q] = drivers[q]
  BY <1>6
<1>9. QED
  BY <1>1, <1>2, <1>3, <1>5, <1>7, <1>8 DEF Driver

LEMMA NewDriver ==
  ASSUME ContextTypeOK, NEW a \in DOMAIN accels, NEW d \in DOMAIN Devices,
         drivers' = Append(drivers, [context |-> 1, desc |-> d, accels |-> <<a>>])
  PROVE  LET k == Len(drivers) + 1
         IN  /\ drivers' \in Seq([context : {1}, desc : DOMAIN Devices, accels : Seq(Nat)])
             /\ k \in Nat \ {0} /\ k \notin DOMAIN drivers
             /\ DOMAIN drivers' = DOMAIN drivers \cup {k}
             /\ \A q \in DOMAIN drivers : drivers'[q] = drivers[q]
             /\ drivers'[k] = [context |-> 1, desc |-> d, accels |-> <<a>>]
<1> DEFINE Driver == [context : {1}, desc : DOMAIN Devices, accels : Seq(Nat)]
           e == [context |-> 1, desc |-> d, accels |-> <<a>>]
<1>1. a \in Nat
  BY LenProperties DEF ContextTypeOK
<1>2. e \in Driver
  BY <1>1
<1>3. drivers \in Seq(Driver)
  BY DEF ContextTypeOK
<1> HIDE DEF Driver, e
<1>4. drivers' = Append(drivers, e)
  BY DEF e
<1>5. /\ drivers' \in Seq(Driver) /\ Len(drivers') = Len(drivers) + 1
      /\ \A q \in 1 .. Len(drivers) : drivers'[q] = drivers[q]
      /\ drivers'[Len(drivers) + 1] = e
  BY <1>2, <1>3, <1>4, AppendProperties
<1>6. /\ DOMAIN drivers = 1 .. Len(drivers) /\ DOMAIN drivers' = 1 .. Len(drivers')
      /\ Len(drivers) \in Nat
  BY <1>3, <1>5, LenProperties
<1>7. QED
  BY <1>5, <1>6 DEF Driver, e

(* An accelerator with the driver of its target: that is listed already,   *)
(* or it is new.                                                           *)
Driven(as, as2, a, k) ==
  /\ a \in DOMAIN as /\ as[a].driver = 0
  /\ DOMAIN as2 = DOMAIN as /\ as2[a].driver = k /\ as2[a].device = as[a].device
  /\ \A i \in DOMAIN as : i # a => as2[i] = as[i]

Listed(ds, ds2, k, a) ==
  /\ k \in DOMAIN ds /\ DOMAIN ds2 = DOMAIN ds /\ ds2[k].desc = ds[k].desc
  /\ \A q \in DOMAIN ds : q # k => ds2[q] = ds[q]
  /\ ds2[k].accels # << >>
  /\ \A n \in DOMAIN ds[k].accels : ds2[k].accels[n] = ds[k].accels[n]
  /\ \E m : /\ m \notin DOMAIN ds[k].accels
            /\ DOMAIN ds2[k].accels = DOMAIN ds[k].accels \cup {m} /\ ds2[k].accels[m] = a

LEMMA ListedKeeps ==
  ASSUME NEW as, NEW as2, NEW ds, NEW ds2, HaveOK(as, ds), ListOK(as, ds),
         NEW a, NEW k, Driven(as, as2, a, k), 0 \notin DOMAIN ds,
         Listed(ds, ds2, k, a), ds[k].desc = Desc[as[a].device]
  PROVE  HaveOK(as2, ds2) /\ ListOK(as2, ds2)
<1> DEFINE l == ds[k].accels
           l2 == ds2[k].accels
<1>1. /\ k \in DOMAIN ds /\ DOMAIN ds2 = DOMAIN ds /\ ds2[k].desc = ds[k].desc
      /\ \A q \in DOMAIN ds : q # k => ds2[q] = ds[q]
      /\ l2 # << >> /\ \A n \in DOMAIN l : l2[n] = l[n]
  BY DEF Listed
<1>2. PICK m : m \notin DOMAIN l /\ DOMAIN l2 = DOMAIN l \cup {m} /\ l2[m] = a
  BY DEF Listed
<1>3. l = ds[k].accels /\ l2 = ds2[k].accels
  OBVIOUS
<1> HIDE DEF l, l2
<1>4. ASSUME NEW i \in DOMAIN as2, as2[i].driver # 0
      PROVE  /\ as2[i].driver \in DOMAIN ds2
             /\ ds2[as2[i].driver].desc = Desc[as2[i].device]
             /\ \E n \in DOMAIN ds2[as2[i].driver].accels : ds2[as2[i].driver].accels[n] = i
  <2>1. CASE i = a
    BY <1>1, <1>2, <1>3, <2>1 DEF Driven
  <2>2. CASE i # a
    <3>1. i \in DOMAIN as /\ as2[i] = as[i]
      BY <2>2 DEF Driven
    <3>2. PICK q \in DOMAIN ds : /\ q = as[i].driver /\ ds[q].desc = Desc[as[i].device]
                                /\ \E n \in DOMAIN ds[q].accels : ds[q].accels[n] = i
      BY <1>4, <3>1 DEF HaveOK
    <3>3. PICK n \in DOMAIN ds[q].accels : ds[q].accels[n] = i
      BY <3>2
    <3>4. n \in DOMAIN ds2[q].accels /\ ds2[q].accels[n] = i
      BY ONLY <1>1, <1>2, <1>3, <3>3
    <3>5. QED
      BY ONLY <1>1, <3>1, <3>2, <3>4
  <2>3. QED
    BY <2>1, <2>2
<1>5. ASSUME NEW n \in DOMAIN l
      PROVE  l[n] # a /\ l[n] \in DOMAIN as /\ as[l[n]].driver = k
  <2>1. l[n] \in DOMAIN as /\ as[l[n]].driver = k
    BY <1>1, <1>3 DEF ListOK
  <2>2. as[a].driver # k
    BY <1>1 DEF Driven
  <2>3. QED
    BY <2>1, <2>2
<1>6. ASSUME NEW q \in DOMAIN ds2
      PROVE  /\ ds2[q].accels # << >>
             /\ \A n \in DOMAIN ds2[q].accels :
                  ds2[q].accels[n] \in DOMAIN as2 /\ as2[ds2[q].accels[n]].driver = q
             /\ \A n, j \in DOMAIN ds2[q].accels : ds2[q].accels[j] = ds2[q].accels[n] => j = n
  <2>1. CASE q = k
    <3>1. ASSUME NEW n \in DOMAIN l2
          PROVE  l2[n] \in DOMAIN as2 /\ as2[l2[n]].driver = k
      <4>1. CASE n = m
        BY <1>2, <4>1 DEF Driven
      <4>2. CASE n \in DOMAIN l
        <5>1. l2[n] = l[n] /\ l[n] # a /\ l[n] \in DOMAIN as /\ as[l[n]].driver = k
          BY <1>1, <1>5, <4>2
        <5>2. QED
          BY <5>1 DEF Driven
      <4>3. QED
        BY <1>2, <4>1, <4>2
    <3>2. \A n, j \in DOMAIN l : l[j] = l[n] => j = n
      BY <1>1, <1>3 DEF ListOK
    <3>3. ASSUME NEW n \in DOMAIN l2, NEW j \in DOMAIN l2, l2[j] = l2[n]
          PROVE  j = n
      <4>1. \A i \in DOMAIN l : l2[i] = l[i] /\ l2[i] # l2[m]
        BY <1>1, <1>2, <1>5
      <4>2. QED
        BY <1>1, <1>2, <3>2, <3>3, <4>1
    <3>4. QED
      BY <1>1, <1>3, <2>1, <3>1, <3>3
  <2>2. CASE q # k
    <3>1. ds2[q] = ds[q] /\ q \in DOMAIN ds /\ q # 0
      BY <1>1, <2>2
    <3>2. \A n \in DOMAIN ds[q].accels : ds[q].accels[n] \in DOMAIN as /\ as[ds[q].accels[n]].driver = q
      BY <3>1 DEF ListOK
    <3>3. \A n \in DOMAIN ds[q].accels : ds[q].accels[n] # a
      BY <3>1, <3>2 DEF Driven
    <3>4. \A n \in DOMAIN ds[q].accels :
            ds[q].accels[n] \in DOMAIN as2 /\ as2[ds[q].accels[n]].driver = q
      BY <3>2, <3>3 DEF Driven
    <3>5. /\ ds[q].accels # << >>
          /\ \A n, j \in DOMAIN ds[q].accels : ds[q].accels[j] = ds[q].accels[n] => j = n
      BY <3>1 DEF ListOK
    <3>6. QED
      BY <3>1, <3>4, <3>5
  <2>3. QED
    BY <2>1, <2>2
<1>7. QED
  BY <1>4, <1>6 DEF HaveOK, ListOK

LEMMA UnlistedKeeps ==
  ASSUME NEW as, NEW as2, NEW ds, NEW ds2, HaveOK(as, ds), ListOK(as, ds),
         NEW a, NEW k, k \notin DOMAIN ds, k # 0, Driven(as, as2, a, k), 0 \notin DOMAIN ds,
         DOMAIN ds2 = DOMAIN ds \cup {k}, \A q \in DOMAIN ds : ds2[q] = ds[q],
         ds2[k].desc = Desc[as[a].device], ds2[k].accels = <<a>>
  PROVE  HaveOK(as2, ds2) /\ ListOK(as2, ds2)
<1>1. <<a>> # << >> /\ DOMAIN <<a>> = {1} /\ <<a>>[1] = a
  OBVIOUS
<1>2. ASSUME NEW i \in DOMAIN as2, as2[i].driver # 0
      PROVE  /\ as2[i].driver \in DOMAIN ds2
             /\ ds2[as2[i].driver].desc = Desc[as2[i].device]
             /\ \E n \in DOMAIN ds2[as2[i].driver].accels : ds2[as2[i].driver].accels[n] = i
  <2>1. CASE i = a
    BY <1>1, <2>1 DEF Driven
  <2>2. CASE i # a
    <3>1. i \in DOMAIN as /\ as2[i] = as[i] /\ as[i].driver # 0
      BY <1>2, <2>2 DEF Driven
    <3>2. /\ as[i].driver \in DOMAIN ds /\ ds[as[i].driver].desc = Desc[as[i].device]
          /\ \E n \in DOMAIN ds[as[i].driver].accels : ds[as[i].driver].accels[n] = i
      BY <3>1 DEF HaveOK
    <3>3. QED
      BY <3>1, <3>2
  <2>3. QED
    BY <2>1, <2>2
<1>3. ASSUME NEW q \in DOMAIN ds2
      PROVE  /\ ds2[q].accels # << >>
             /\ \A n \in DOMAIN ds2[q].accels :
                  ds2[q].accels[n] \in DOMAIN as2 /\ as2[ds2[q].accels[n]].driver = q
             /\ \A n, j \in DOMAIN ds2[q].accels : ds2[q].accels[j] = ds2[q].accels[n] => j = n
  <2>1. CASE q = k
    <3>1. ds2[q].accels = <<a>> /\ a \in DOMAIN as2 /\ as2[a].driver = q
      BY <2>1 DEF Driven
    <3>2. QED
      BY <1>1, <3>1
  <2>2. CASE q # k
    <3>1. ds2[q] = ds[q] /\ q \in DOMAIN ds /\ q # 0
      BY <2>2
    <3>2. \A n \in DOMAIN ds[q].accels : ds[q].accels[n] \in DOMAIN as /\ as[ds[q].accels[n]].driver = q
      BY <3>1 DEF ListOK
    <3>3. \A n \in DOMAIN ds[q].accels : ds[q].accels[n] # a
      BY <3>1, <3>2 DEF Driven
    <3>4. \A n \in DOMAIN ds[q].accels :
            ds[q].accels[n] \in DOMAIN as2 /\ as2[ds[q].accels[n]].driver = q
      BY <3>2, <3>3 DEF Driven
    <3>5. /\ ds[q].accels # << >>
          /\ \A n, j \in DOMAIN ds[q].accels : ds[q].accels[j] = ds[q].accels[n] => j = n
      BY <3>1 DEF ListOK
    <3>6. QED
      BY <3>1, <3>4, <3>5
  <2>3. QED
    BY <2>1, <2>2
<1>4. QED
  BY <1>2, <1>3 DEF HaveOK, ListOK

LEMMA GivenDrives ==
  ASSUME ContextTypeOK, DriversOK, NEW t \in Threads, NEW k, NEW r, Given(t, k, r),
         contexts # << >>, making[t] \in DOMAIN accels, accels[making[t]].driver = 0
  PROVE  /\ Driven(accels, accels', making[t], k)
         /\ DOMAIN contexts' = {1} /\ contexts'[1] = r
         /\ 0 \notin DOMAIN drivers
         /\ HaveOK(accels, drivers) /\ ListOK(accels, drivers)
         /\ NamesOK(drivers, contexts[1].translators)
<1>1. accels' = [accels EXCEPT ![making[t]].driver = k]
  BY DEF Given
<1>2. \A i \in DOMAIN accels : accels[i] \in [id : Nat, device : DOMAIN Devices, driver : Nat]
  BY AccelsAre
<1>3. Driven(accels, accels', making[t], k)
  BY <1>1, <1>2 DEF Driven
<1>4. DOMAIN contexts' = {1} /\ contexts'[1] = r /\ DOMAIN contexts = {1}
  BY TheContext, Replaced DEF Given
<1>5. 0 \notin DOMAIN drivers
  BY DriversAre
<1>6. QED
  BY <1>3, <1>4, <1>5 DEF DriversOK

LEMMA KnownKeeps ==
  ASSUME IInv, NEW t \in Threads, InitializeAccel(t), contexts # << >>,
         NEW k \in DOMAIN drivers, NEW r, Given(t, k, r),
         NEW a, a = making[t], a \in DOMAIN accels, accels[a].driver = 0,
         NEW d, d = Desc[accels[a].device],
         d \in DOMAIN contexts[1].translators, k = contexts[1].translators[d],
         drivers' = [drivers EXCEPT ![k].accels = Append(@, a)]
  PROVE  IInv'
<1>1. ContextTypeOK /\ DriversOK
  BY DEF IInv
<1>2. /\ drivers' \in Seq([context : {1}, desc : DOMAIN Devices, accels : Seq(Nat)])
      /\ DOMAIN drivers' = DOMAIN drivers
      /\ \A q \in DOMAIN drivers :
           drivers'[q].desc = drivers[q].desc /\ (q # k => drivers'[q] = drivers[q])
      /\ drivers'[k].accels = Append(drivers[k].accels, a)
      /\ drivers[k].accels \in Seq(Nat) /\ a \in Nat
  BY <1>1, KnownDriver
<1>3. ContextTypeOK' /\ HandlesOK' /\ PlacesOK' /\ MakingOK'
  BY <1>2, GivenPlace
<1>4. /\ Driven(accels, accels', a, k) /\ DOMAIN contexts' = {1} /\ contexts'[1] = r
      /\ 0 \notin DOMAIN drivers
      /\ HaveOK(accels, drivers) /\ ListOK(accels, drivers)
      /\ NamesOK(drivers, contexts[1].translators)
  BY <1>1, GivenDrives
<1>5. drivers[k].desc = d
  BY <1>4 DEF NamesOK
<1>6. HaveOK(accels', drivers') /\ ListOK(accels', drivers')
  <2>1. Listed(drivers, drivers', k, a)
    <3> DEFINE l == drivers[k].accels
    <3>1. l \in Seq(Nat) /\ a \in Nat /\ drivers'[k].accels = Append(l, a)
      BY <1>2
    <3>2. /\ Append(l, a) # << >>
          /\ \A n \in DOMAIN l : Append(l, a)[n] = l[n]
      BY ONLY <3>1, AppendIs
    <3>3. \E m : m \notin DOMAIN l /\ DOMAIN Append(l, a) = DOMAIN l \cup {m} /\ Append(l, a)[m] = a
      BY ONLY <3>1, AppendIs
    <3>4. QED
      BY ONLY k \in DOMAIN drivers, <1>2, <3>1, <3>2, <3>3 DEF Listed
  <2>2. QED
    BY <1>4, <1>5, <2>1, ListedKeeps
<1>7. NamesOK(drivers', r.translators)
  <2> DEFINE names == contexts[1].translators
  <2>1. /\ DOMAIN r.translators = DOMAIN names /\ d \in DOMAIN names
        /\ \A e \in DOMAIN names : r.translators[e] = names[e]
    <3>1. r.translators = [e \in DOMAIN names \cup {d} |-> IF e = d THEN k ELSE names[e]]
      BY DEF Given
    <3>2. d \in DOMAIN names /\ k = names[d]
      OBVIOUS
    <3> HIDE DEF names
    <3>3. QED
      BY ONLY <3>1, <3>2
  <2> HIDE DEF names
  <2>2. NamesOK(drivers, names)
    BY <1>4 DEF names
  <2>3. \A q \in DOMAIN drivers' : drivers'[q].desc \in DOMAIN r.translators /\ r.translators[drivers'[q].desc] = q
    BY ONLY <1>2, <2>1, <2>2 DEF NamesOK
  <2>4. \A e \in DOMAIN r.translators : r.translators[e] \in DOMAIN drivers' /\ drivers'[r.translators[e]].desc = e
    BY ONLY <1>2, <2>1, <2>2 DEF NamesOK
  <2>5. QED
    BY <2>3, <2>4 DEF NamesOK
<1>8. QED
  BY <1>3, <1>4, <1>6, <1>7 DEF IInv, DriversOK

LEMMA UnknownKeeps ==
  ASSUME IInv, NEW t \in Threads, InitializeAccel(t), contexts # << >>,
         NEW k, k = Len(drivers) + 1, NEW r, Given(t, k, r),
         NEW a, a = making[t], a \in DOMAIN accels, accels[a].driver = 0,
         NEW d \in DOMAIN Devices, d = Desc[accels[a].device],
         d \notin DOMAIN contexts[1].translators,
         drivers' = Append(drivers, [context |-> 1, desc |-> d, accels |-> <<a>>])
  PROVE  IInv'
<1>1. ContextTypeOK /\ DriversOK
  BY DEF IInv
<1>2. /\ drivers' \in Seq([context : {1}, desc : DOMAIN Devices, accels : Seq(Nat)])
      /\ k \in Nat \ {0} /\ k \notin DOMAIN drivers
      /\ DOMAIN drivers' = DOMAIN drivers \cup {k}
      /\ \A q \in DOMAIN drivers : drivers'[q] = drivers[q]
      /\ drivers'[k] = [context |-> 1, desc |-> d, accels |-> <<a>>]
  BY <1>1, NewDriver
<1>3. ContextTypeOK' /\ HandlesOK' /\ PlacesOK' /\ MakingOK'
  BY <1>2, GivenPlace
<1>4. /\ Driven(accels, accels', a, k) /\ DOMAIN contexts' = {1} /\ contexts'[1] = r
      /\ 0 \notin DOMAIN drivers
      /\ HaveOK(accels, drivers) /\ ListOK(accels, drivers)
      /\ NamesOK(drivers, contexts[1].translators)
  BY <1>1, GivenDrives
<1>5. drivers'[k].desc = d /\ drivers'[k].accels = <<a>>
  BY <1>2
<1>6. HaveOK(accels', drivers') /\ ListOK(accels', drivers')
  BY ONLY d = Desc[accels[a].device], <1>2, <1>4, <1>5, UnlistedKeeps
<1>7. NamesOK(drivers', r.translators)
  <2> DEFINE names == contexts[1].translators
  <2>1. r.translators = [e \in DOMAIN names \cup {d} |-> IF e = d THEN k ELSE names[e]]
    BY DEF Given
  <2>2. /\ DOMAIN r.translators = DOMAIN names \cup {d} /\ r.translators[d] = k
        /\ \A e \in DOMAIN names : r.translators[e] = names[e]
    BY <2>1
  <2> HIDE DEF names
  <2>3. NamesOK(drivers, names)
    BY <1>4 DEF names
  <2>4. \A q \in DOMAIN drivers' : drivers'[q].desc \in DOMAIN r.translators /\ r.translators[drivers'[q].desc] = q
    BY ONLY <1>2, <1>5, <2>2, <2>3 DEF NamesOK
  <2>5. \A e \in DOMAIN r.translators : r.translators[e] \in DOMAIN drivers' /\ drivers'[r.translators[e]].desc = e
    BY ONLY <1>2, <1>5, <2>2, <2>3 DEF NamesOK
  <2>6. QED
    BY <2>4, <2>5 DEF NamesOK
<1>8. QED
  BY <1>3, <1>4, <1>6, <1>7 DEF IInv, DriversOK

LEMMA InitializeAccelKeeps ==
  ASSUME IInv, NEW t \in Threads, InitializeAccel(t)
  PROVE  IInv'
<1> DEFINE c == contexts[1]
           a == making[t]
           d == Desc[accels[a].device]
           known == DriverOf(c.translators, d)
           k == IF known # 0 THEN known ELSE Len(drivers) + 1
           names == [e \in DOMAIN c.translators \cup {d} |-> IF e = d THEN k ELSE c.translators[e]]
           r == [c EXCEPT !.translators = names, !.table = Inserted(c.table, accels[a].id, a)]
<1>1. ContextTypeOK /\ HandlesOK /\ PlacesOK /\ MakingOK /\ DriversOK
  BY DEF IInv
<1>2. pc[t] = "accel" /\ handle[t] = 1 /\ contexts # << >> /\ c \in ContextRecord
  BY <1>1, TheContext DEF InitializeAccel, HandlesOK, ContextTypeOK, Without
<1>3. a \in DOMAIN accels /\ accels[a].driver = 0 /\ accels[a].id = a - 1
  BY <1>1, <1>2 DEF MakingOK, PlacesOK
<1>4. d \in DOMAIN Devices /\ a \in Nat /\ accels[a].id \in Nat /\ (a - 1) + 1 = a
  BY <1>1, <1>3, AccelsAre, DescIs
<1>5. k \in Nat \ {0} /\ (known # 0 => known \in DOMAIN drivers)
      /\ (d \in DOMAIN c.translators <=> known # 0) /\ (known # 0 => known = c.translators[d])
  <2>1. /\ d \in DOMAIN c.translators => known = c.translators[d] /\ known \in DOMAIN drivers
        /\ d \notin DOMAIN c.translators => known = 0
    BY <1>1, <1>2, DriverOfIs
  <2>2. Len(drivers) + 1 \in Nat \ {0} /\ \A q \in DOMAIN drivers : q \in Nat \ {0}
    BY <1>1, DriversAre
  <2> HIDE DEF known, c, d
  <2>3. QED
    BY <2>1, <2>2
<1>6. /\ contexts' = [contexts EXCEPT ![1] = r] /\ accels' = [accels EXCEPT ![a].driver = k]
      /\ drivers' = IF known # 0
                    THEN [drivers EXCEPT ![k].accels = Append(@, a)]
                    ELSE Append(drivers, [context |-> 1, desc |-> d, accels |-> <<a>>])
  BY <1>2 DEF InitializeAccel
<1>7. /\ r \in ContextRecord /\ r.next = c.next /\ r.translators = names
      /\ r.table = Inserted(c.table, accels[a].id, a)
  <2> DEFINE T == Inserted(c.table, accels[a].id, a)
  <2>1. T \in Seq(Nat)
    <3>1. c.table \in Seq(Nat)
      BY <1>2 DEF ContextRecord
    <3>2. accels[a].id + 1 = a
      BY <1>3, <1>4
    <3>3. QED
      BY ONLY <1>4, <3>1, <3>2, InsertedIs
  <2>2. names \in UNION {[S -> Nat \ {0}] : S \in SUBSET DOMAIN Devices}
    <3>1. PICK S \in SUBSET DOMAIN Devices : c.translators \in [S -> Nat \ {0}]
      BY <1>2 DEF ContextRecord
    <3> HIDE DEF k, d, c
    <3>2. names \in [S \cup {d} -> Nat \ {0}]
      BY <1>5, <3>1
    <3>3. S \cup {d} \in SUBSET DOMAIN Devices
      BY <1>4
    <3> HIDE DEF names
    <3>4. QED
      BY <3>2, <3>3
  <2>3. r = [c EXCEPT !.translators = names, !.table = T]
    OBVIOUS
  <2> HIDE DEF names, T, c, r
  <2>4. /\ r \in ContextRecord /\ r.next = c.next /\ r.translators = names
        /\ r.table = T
    BY <1>2, <2>1, <2>2, <2>3 DEF ContextRecord
  <2>5. QED
    BY <2>4 DEF T
<1>8. Given(t, k, r)
  <2> HIDE DEF k, r
  <2>1. QED
    BY <1>5, <1>6, <1>7 DEF Given
<1>9. CASE known # 0
  <2>1. k = known /\ k \in DOMAIN drivers /\ d \in DOMAIN c.translators /\ k = c.translators[d]
        /\ drivers' = [drivers EXCEPT ![k].accels = Append(@, a)]
    BY <1>5, <1>6, <1>9
  <2> HIDE DEF k, r
  <2>2. QED
    BY <1>2, <1>3, <1>8, <2>1, KnownKeeps
<1>10. CASE known = 0
  <2>1. k = Len(drivers) + 1 /\ d \notin DOMAIN c.translators
        /\ drivers' = Append(drivers, [context |-> 1, desc |-> d, accels |-> <<a>>])
    BY <1>5, <1>6, <1>10
  <2> HIDE DEF k, r
  <2>2. QED
    BY <1>2, <1>3, <1>4, <1>8, <2>1, UnknownKeeps
<1>11. QED
  BY <1>9, <1>10

-----------------------------------------------------------------------------
LEMMA InitIInv == ContextInit => IInv
<1> SUFFICES ASSUME ContextInit PROVE IInv
  OBVIOUS
<1>1. contexts = << >> /\ accels = << >> /\ drivers = << >> /\ DOMAIN << >> = {}
  BY DEF ContextInit
<1>2. ContextTypeOK
  <2>1. \A S : << >> \in Seq(S) /\ Len(<< >>) = 0
    BY EmptySeq
  <2>2. 0 <= 1 /\ "start" \in PCs
    BY DEF PCs, Without
  <2>3. QED
    BY <1>1, <2>1, <2>2 DEF ContextInit, ContextTypeOK
<1>3. HandlesOK /\ MakingOK
  BY <1>1 DEF ContextInit, HandlesOK, MakingOK, Without
<1>4. PlacesOK /\ DriversOK
  BY <1>1 DEF PlacesOK, DriversOK, HaveOK, ListOK, NamesOK
<1>5. QED
  BY <1>2, <1>3, <1>4 DEF IInv

ContextNext == \E t \in Threads : ContextStep(t, DOMAIN Devices) \/ SessionStep(t)

LEMMA NextIInv == IInv /\ [ContextNext]_<<contextVars, pc>> => IInv'
<1>1. ASSUME IInv, NEW t \in Threads, ContextStep(t, DOMAIN Devices) PROVE IInv'
  BY <1>1, LookKeeps, BuildFailsKeeps, BuildKeeps, InstallKeeps, DropKeeps, TakeAccelIdKeeps,
     NewAccelFailsKeeps, InitializeAccelKeeps DEF ContextStep
<1>2. ASSUME IInv, UNCHANGED <<contextVars, pc>> PROVE IInv'
  BY <1>2 DEF contextVars, IInv, ContextTypeOK, HandlesOK, PlacesOK, MakingOK, DriversOK,
              HaveOK, ListOK, NamesOK
<1>3. QED
  BY <1>1, <1>2, SessionKeeps DEF ContextNext

THEOREM Invariance == ContextSpec => []IInv
<1>1. ContextInit => IInv
  BY InitIInv
<1>2. IInv /\ [ContextNext]_<<contextVars, pc>> => IInv'
  BY NextIInv
<1>3. QED
  BY <1>1, <1>2, PTL DEF ContextSpec, ContextNext

(* All handles name the Context that is or will be installed, and it is    *)
(* loaded once: the pool, which a process builds once, does what the       *)
(* initialization lock was meant to.                                       *)
THEOREM OneContextEver == ContextSpec => []OneContext
<1>1. IInv => OneContext
  <2> SUFFICES ASSUME IInv PROVE OneContext
    OBVIOUS
  <2>1. \A t, u \in Threads : handle[t] # 0 /\ handle[u] # 0 => handle[t] = handle[u]
    BY DEF IInv, ContextTypeOK
  <2>2. ASSUME NEW t \in Threads, pc[t] \notin {"start", "again", "build", "install"}
        PROVE  handle[t] = Global
    <3>1. handle[t] = 1 /\ CTX = 1
      BY <2>2 DEF IInv, ContextTypeOK, HandlesOK, Without
    <3>2. QED
      BY <3>1 DEF Global, Alive
  <2>3. \A c \in DOMAIN contexts : contexts[c].metadata <= 1
    <3>1. \A c \in DOMAIN contexts : contexts[c].metadata \in {0, 1}
      BY TheContext DEF IInv, ContextRecord
    <3>2. QED
      BY <3>1
  <2>4. QED
    BY <2>1, <2>2, <2>3 DEF OneContext
<1>2. QED
  BY Invariance, <1>1, PTL

(* The ids, the table, the drivers and the translators agree, and a device *)
(* runs what its driver compiles.                                          *)
THEOREM RegistryFits == ContextSpec => []RegistryAgrees
<1>1. IInv => RegistryAgrees
  <2> SUFFICES ASSUME IInv, NEW c \in DOMAIN contexts
               PROVE  LET at == contexts[c].table
                          there == {i \in DOMAIN at : at[i] # 0}
                          desc(i) == Desc[accels[at[i]].device]
                      IN  /\ \A i \in there : accels[at[i]].id = i - 1 /\ i <= contexts[c].next
                          /\ \A i, j \in there :
                               desc(i) = desc(j) <=> accels[at[i]].driver = accels[at[j]].driver
                          /\ \A i \in there :
                               LET k == accels[at[i]].driver
                               IN  /\ contexts[c].translators[desc(i)] = k
                                   /\ drivers[k].context = c /\ drivers[k].desc = desc(i)
                                   /\ Cardinality({n \in DOMAIN drivers[k].accels :
                                                     drivers[k].accels[n] = at[i]}) = 1
                                   /\ Targets!Runs(Devices[accels[at[i]].device],
                                                   Descs[drivers[k].desc])
                          /\ \A k \in DOMAIN drivers : drivers[k].context = c =>
                               Range(drivers[k].accels) \subseteq Registered(c)
    BY DEF RegistryAgrees
  <2> DEFINE at == contexts[c].table
             there == {i \in DOMAIN at : at[i] # 0}
             desc(i) == Desc[accels[at[i]].device]
  <2>1. c = 1 /\ contexts # << >> /\ ContextTypeOK /\ contexts[c] \in ContextRecord
    BY TheContext DEF IInv
  <2>2. ASSUME NEW i \in there
        PROVE  /\ at[i] = i /\ i \in DOMAIN accels /\ accels[i].id = i - 1 /\ i <= contexts[c].next
               /\ accels[i].driver # 0
    <3>1. at[i] = i /\ i \in DOMAIN accels
      BY DEF IInv, PlacesOK
    <3>2. accels[i].id = i - 1 /\ accels[i].driver # 0 /\ contexts[c].next = Len(accels)
      BY <3>1 DEF IInv, PlacesOK
    <3>3. i \in 1 .. Len(accels)
      BY <2>1, <3>1, LenProperties DEF ContextTypeOK
    <3>4. QED
      BY <3>1, <3>2, <3>3
  <2>3. ASSUME NEW i \in there
        PROVE  LET k == accels[at[i]].driver
               IN  /\ contexts[c].translators[desc(i)] = k
                   /\ drivers[k].context = c /\ drivers[k].desc = desc(i)
                   /\ Cardinality({n \in DOMAIN drivers[k].accels :
                                     drivers[k].accels[n] = at[i]}) = 1
                   /\ Targets!Runs(Devices[accels[at[i]].device], Descs[drivers[k].desc])
    <3> DEFINE k == accels[at[i]].driver
    <3>1. /\ k \in DOMAIN drivers /\ drivers[k].desc = desc(i)
          /\ \E n \in DOMAIN drivers[k].accels : drivers[k].accels[n] = at[i]
      BY <2>2 DEF IInv, DriversOK, HaveOK
    <3>2. contexts[c].translators[desc(i)] = k
      BY <3>1 DEF IInv, DriversOK, NamesOK
    <3>3. drivers[k].context = c
      BY <2>1, <3>1, DriversAre
    <3>4. PICK n \in DOMAIN drivers[k].accels : drivers[k].accels[n] = at[i]
      BY <3>1
    <3>5. \A n1, n2 \in DOMAIN drivers[k].accels :
            drivers[k].accels[n1] = drivers[k].accels[n2] => n1 = n2
      BY <3>1 DEF IInv, DriversOK, ListOK
    <3>6. {m \in DOMAIN drivers[k].accels : drivers[k].accels[m] = at[i]} = {n}
      BY <3>4, <3>5
    <3>7. Cardinality({m \in DOMAIN drivers[k].accels : drivers[k].accels[m] = at[i]}) = 1
      BY <3>6, FS_Singleton
    <3>8. accels[at[i]].device \in DOMAIN Devices
      BY <2>1, <2>2, AccelsAre
    <3>9. Targets!Runs(Devices[accels[at[i]].device], Descs[drivers[k].desc])
      BY <3>1, <3>8, RunsItsOwn
    <3>10. QED
      BY <3>1, <3>2, <3>3, <3>7, <3>9
  <2>4. ASSUME NEW i \in there, NEW j \in there
        PROVE  desc(i) = desc(j) <=> accels[at[i]].driver = accels[at[j]].driver
    BY <2>3
  <2>5. ASSUME NEW k \in DOMAIN drivers
        PROVE  Range(drivers[k].accels) \subseteq Registered(c)
    <3>1. ASSUME NEW n \in DOMAIN drivers[k].accels
          PROVE  drivers[k].accels[n] \in Registered(c)
      <4> DEFINE a == drivers[k].accels[n]
      <4>1. a \in DOMAIN accels /\ accels[a].driver = k
        BY DEF IInv, DriversOK, ListOK
      <4>2. k # 0 /\ a # 0
        BY <2>1, <4>1, DriversAre, LenProperties DEF ContextTypeOK
      <4>3. a \in DOMAIN at /\ at[a] = a
        BY <4>1, <4>2 DEF IInv, PlacesOK
      <4>4. QED
        BY <4>2, <4>3 DEF Registered
    <3>2. QED
      BY <3>1 DEF Range
  <2>6. QED
    BY <2>2, <2>3, <2>4, <2>5
<1>2. QED
  BY Invariance, <1>1, PTL
=============================================================================
