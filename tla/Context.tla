------------------------------- MODULE Context -------------------------------
(***************************************************************************)
(* The Context of a process and the accelerators registered in it          *)
(* (runtime-core/src/context.rs, with HsaAmdGpuAccel::new of runtime-amd   *)
(* and the drivers of codegen/worker/mod.rs).                              *)
(*                                                                         *)
(* A thread takes a handle with Context::new, makes accelerators with it,  *)
(* compiles (module Session) and may drop it again.  Accelerators are kept *)
(* by the Context's table and keep their driver, which keeps the Context:  *)
(* a Context with an accelerator is never freed.                           *)
(***************************************************************************)
EXTENDS Integers, Sequences, FiniteSets, SequencesExt

Targets == INSTANCE TargetDesc

CONSTANTS
  Threads,
  Devices,        \* of each device what its driver says of it
  MaxContexts,    \* bound: Contexts made
  MaxAccels,      \* bound: accelerators begun
  MaxDrops,       \* bound: handles given back
  None

ASSUME ContextAssumption ==
  /\ None \notin Threads
  /\ MaxContexts \in Nat /\ MaxAccels \in Nat /\ MaxDrops \in Nat

(* The target descriptions, and for each device one that has the same.     *)
Descs == [d \in DOMAIN Devices |-> Targets!DescOf(Devices[d])]
Desc == [d \in DOMAIN Devices |->
           CHOOSE e \in DOMAIN Devices : Targets!SameDesc(Descs[e], Descs[d])]

VARIABLES
  pool,       \* the global thread pool of the process is built
  CTX,        \* the Context the global weak reference names, 0 before that
  contexts,   \* what has been made: next_accel_id, accelerators, translators
              \* and the metadata with its lock
  accels,     \* what accelerators have been begun: id, device and driver
  drivers,    \* the codegen drivers, each with its list of accelerators
  pc,         \* where a thread is
  handle,     \* its Context, 0 when it has none
  making,     \* the accelerator it makes, 0 when it makes none
  drops

contextVars == <<pool, CTX, contexts, accels, drivers, handle, making, drops>>

-----------------------------------------------------------------------------
(* A Context as it is made: nothing is registered or loaded.  metadata is  *)
(* the number of times it was loaded; its lock has readers and one thread  *)
(* that keeps new readers out.                                             *)
NewContext ==
  [next |-> 0, table |-> << >>, translators |-> << >>,
   metadata |-> 0, readers |-> {}, writer |-> None]

Registered(c) == {contexts[c].table[i] : i \in DOMAIN contexts[c].table} \ {0}

Alive(c) == (\E t \in Threads : handle[t] = c) \/ Registered(c) # {}

(* Context::global, an upgrade of the weak reference. *)
Global == IF CTX # 0 /\ Alive(CTX) THEN CTX ELSE 0

ContextInit ==
  /\ pool = FALSE /\ CTX = 0
  /\ contexts = << >> /\ accels = << >> /\ drivers = << >>
  /\ pc = [t \in Threads |-> "start"]
  /\ handle = [t \in Threads |-> 0]
  /\ making = [t \in Threads |-> 0]
  /\ drops = 0

Goto(t, label) == pc' = [pc EXCEPT ![t] = label]
Take(t, c) == handle' = [handle EXCEPT ![t] = c]

-----------------------------------------------------------------------------
(* Context::new looks at the global twice, and means to hold a lock from   *)
(* before the second look on; "let _ =" drops the guard where it is made,  *)
(* so the lock keeps nobody out.                                           *)
Look(t) ==
  /\ pc[t] \in {"start", "again"}
  /\ IF Global # 0
     THEN Take(t, Global) /\ Goto(t, "idle")
     ELSE UNCHANGED handle /\ Goto(t, IF pc[t] = "start" THEN "again" ELSE "build")
  /\ UNCHANGED <<pool, CTX, contexts, accels, drivers, making, drops>>

(* A bug: a pool that is there already is no error. *)
Mutant_PoolTaken == FALSE

(* rayon builds one global pool in a process, for good: of two callers one *)
(* fails, and so does everyone after a pool that could not be built.       *)
PoolTaken == pool

BuildFails(t) ==
  /\ pc[t] = "build"
  /\ pool' = TRUE
  /\ Goto(t, "start")
  /\ UNCHANGED <<CTX, contexts, accels, drivers, handle, making, drops>>

Build(t) ==
  /\ pc[t] = "build" /\ ~PoolTaken /\ Len(contexts) < MaxContexts
  /\ pool' = TRUE
  /\ contexts' = Append(contexts, NewContext)
  /\ Take(t, Len(contexts) + 1)
  /\ Goto(t, "install")
  /\ UNCHANGED <<CTX, accels, drivers, making, drops>>

Install(t) ==
  /\ pc[t] = "install"
  /\ CTX' = handle[t]
  /\ Goto(t, "idle")
  /\ UNCHANGED <<pool, contexts, accels, drivers, handle, making, drops>>

(* The caller drops its handle. *)
Drop(t) ==
  /\ pc[t] = "idle" /\ drops < MaxDrops
  /\ drops' = drops + 1
  /\ Take(t, 0)
  /\ Goto(t, "start")
  /\ UNCHANGED <<pool, CTX, contexts, accels, drivers, making>>

-----------------------------------------------------------------------------
(* HsaAmdGpuAccel::new and VkAccel::new: an id first, then questions to the*)
(* driver that may fail, then initialize_accel.                            *)
TakeAccelId(t, devices) ==
  /\ pc[t] = "idle" /\ Len(accels) < MaxAccels
  /\ \E d \in devices :
       accels' = Append(accels, [id |-> contexts[handle[t]].next, device |-> d, driver |-> 0])
  /\ contexts' = [contexts EXCEPT ![handle[t]].next = @ + 1]
  /\ making' = [making EXCEPT ![t] = Len(accels) + 1]
  /\ Goto(t, "accel")
  /\ UNCHANGED <<pool, CTX, drivers, handle, drops>>

(* The id is not given back. *)
NewAccelFails(t) ==
  /\ pc[t] = "accel"
  /\ making' = [making EXCEPT ![t] = 0]
  /\ Goto(t, "idle")
  /\ UNCHANGED <<pool, CTX, contexts, accels, drivers, handle, drops>>

(* The table is an IndexVec: ids that failed or come later leave holes. *)
Inserted(table, id, a) ==
  [i \in 1 .. IF id < Len(table) THEN Len(table) ELSE id + 1 |->
     CASE i = id + 1 -> a
       [] i # id + 1 /\ i \in DOMAIN table -> table[i]
       [] OTHER -> 0]

DriverAlive(k) == \E a \in DOMAIN accels : accels[a].driver = k

(* A bug: every accelerator gets a driver of its own. *)
Mutant_DriverOf(translators, d) == 0

(* The driver the translators have for a description, while it lives. *)
DriverOf(translators, d) ==
  IF d \in DOMAIN translators /\ DriverAlive(translators[d]) THEN translators[d] ELSE 0

(* initialize_accel, under the lock of the registry: the accelerator gets  *)
(* the driver of its target or a new one, which lists it, and a place.     *)
InitializeAccel(t) ==
  /\ pc[t] = "accel" /\ Targets!Suits(Devices[accels[making[t]].device])
  /\ LET c == handle[t]
         a == making[t]
         d == Desc[accels[a].device]
         known == DriverOf(contexts[c].translators, d)
         k == IF known # 0 THEN known ELSE Len(drivers) + 1
     IN  /\ drivers' = IF known # 0
                       THEN [drivers EXCEPT ![k].accels = Append(@, a)]
                       ELSE Append(drivers, [context |-> c, desc |-> d, accels |-> <<a>>])
         /\ accels' = [accels EXCEPT ![a].driver = k]
         /\ contexts' = [contexts EXCEPT
              ![c].translators = [e \in DOMAIN @ \cup {d} |-> IF e = d THEN k ELSE @[e]],
              ![c].table = Inserted(@, accels[a].id, a)]
  /\ making' = [making EXCEPT ![t] = 0]
  /\ Goto(t, "idle")
  /\ UNCHANGED <<pool, CTX, handle, drops>>

ContextStep(t, devices) ==
  \/ Look(t) \/ BuildFails(t) \/ Build(t) \/ Install(t) \/ Drop(t)
  \/ TakeAccelId(t, devices) \/ NewAccelFails(t) \/ InitializeAccel(t)

-----------------------------------------------------------------------------
(* What a session does to its Context: module Session says when.  It loads *)
(* the metadata: a first look under the read lock, and if there is nothing *)
(* the write lock.                                                         *)
Lock(t) == contexts[handle[t]]

LoadRead(t) ==
  /\ pc[t] = "load" /\ Lock(t).writer = None
  /\ IF Lock(t).metadata # 0
     THEN /\ contexts' = [contexts EXCEPT ![handle[t]].readers = @ \cup {t}]
          /\ Goto(t, "crates")
     ELSE UNCHANGED contexts /\ Goto(t, "write")
  /\ UNCHANGED <<pool, CTX, accels, drivers, handle, making, drops>>

(* A writer first keeps new readers out, then waits for those inside. *)
LoadLock(t) ==
  /\ pc[t] = "write" /\ Lock(t).writer = None
  /\ contexts' = [contexts EXCEPT ![handle[t]].writer = t]
  /\ Goto(t, "locked")
  /\ UNCHANGED <<pool, CTX, accels, drivers, handle, making, drops>>

Writes(t) == pc[t] = "locked" /\ Lock(t).readers = {}

(* Somebody loaded while this thread waited. *)
Beaten(lock) == lock.metadata # 0

(* A bug: an error leaves the lock held. *)
Mutant_Unlocked(lock) == lock

Unlocked(lock) == [lock EXCEPT !.writer = None]

(* The write lock becomes a read lock at once, and the guard is kept until *)
(* the session ends.                                                       *)
Loaded(lock, t) ==
  [lock EXCEPT !.writer = None, !.readers = {t}, !.metadata = IF Beaten(lock) THEN @ ELSE @ + 1]

Load(t) ==
  /\ Writes(t)
  /\ contexts' = [contexts EXCEPT ![handle[t]] = Loaded(@, t)]
  /\ Goto(t, "crates")
  /\ UNCHANGED <<pool, CTX, accels, drivers, handle, making, drops>>

LoadFails(t) ==
  /\ Writes(t) /\ ~Beaten(Lock(t))
  /\ contexts' = [contexts EXCEPT ![handle[t]] = Unlocked(@)]
  /\ Goto(t, "idle")
  /\ UNCHANGED <<pool, CTX, accels, drivers, handle, making, drops>>

Ends(t) ==
  /\ pc[t] \in {"codegen", "link"}
  /\ contexts' = [contexts EXCEPT ![handle[t]].readers = @ \ {t}]
  /\ Goto(t, "idle")
  /\ UNCHANGED <<pool, CTX, accels, drivers, handle, making, drops>>

(* Its other steps leave the Context alone. *)
Moves(t, from, to) == pc[t] = from /\ Goto(t, to) /\ UNCHANGED contextVars

SessionStep(t) ==
  \/ LoadRead(t) \/ LoadLock(t) \/ Load(t) \/ LoadFails(t) \/ Ends(t)
  \/ \E step \in {<<"idle", "queued">>, <<"queued", "load">>, <<"crates", "codegen">>,
                  <<"codegen", "link">>} : Moves(t, step[1], step[2])

(* The Context with sessions that may do any of this at any time. *)
ContextSpec ==
  /\ ContextInit
  /\ [][\E t \in Threads : ContextStep(t, DOMAIN Devices) \/ SessionStep(t)]_<<contextVars, pc>>

-----------------------------------------------------------------------------
(* The steps from taking the initialization lock to installing the global  *)
(* are not excluded by the lock that was meant to, so two threads may be   *)
(* between the look and the install at the same time; still all handles    *)
(* there are name one Context, the one that is or will be installed, and   *)
(* its metadata, the one thing all sessions read, is loaded once.          *)
OneContext ==
  /\ \A t, u \in Threads : handle[t] # 0 /\ handle[u] # 0 => handle[t] = handle[u]
  /\ \A t \in Threads : pc[t] \notin {"start", "again", "build", "install"} => handle[t] = Global
  /\ \A c \in DOMAIN contexts : contexts[c].metadata <= 1

(* What initialize_accel leaves in four tables fits together, whatever     *)
(* ids failed and in whatever order the others arrive: an accelerator is   *)
(* found under its own id and no other, accelerators of one target share   *)
(* one driver and no others do, a driver lists each of its own once, and   *)
(* each of them can run what the driver compiles.                          *)
RegistryAgrees ==
  \A c \in DOMAIN contexts :
    LET at == contexts[c].table
        there == {i \in DOMAIN at : at[i] # 0}
        desc(i) == Desc[accels[at[i]].device]
    IN  /\ \A i \in there : accels[at[i]].id = i - 1 /\ i <= contexts[c].next
        /\ \A i, j \in there : desc(i) = desc(j) <=> accels[at[i]].driver = accels[at[j]].driver
        /\ \A i \in there :
             LET k == accels[at[i]].driver
             IN  /\ contexts[c].translators[desc(i)] = k
                 /\ drivers[k].context = c /\ drivers[k].desc = desc(i)
                 /\ Cardinality({n \in DOMAIN drivers[k].accels : drivers[k].accels[n] = at[i]}) = 1
                 /\ Targets!Runs(Devices[accels[at[i]].device], Descs[drivers[k].desc])
        /\ \A k \in DOMAIN drivers : drivers[k].context = c =>
             Range(drivers[k].accels) \subseteq Registered(c)
=============================================================================
