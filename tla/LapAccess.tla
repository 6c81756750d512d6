----------------------------- MODULE LapAccess -----------------------------
(***************************************************************************)
(* Memory of the host that devices may access: LapAlloc, its set of        *)
(* devices (Accessible), and the vectors, boxes and Arcs allocated with it *)
(* (src/runtime-amd/src/alloc).                                            *)
(*                                                                         *)
(* The driver keeps a list of the agents that may touch an allocation and  *)
(* replaces it whole; the allocator keeps one bit for each device it added *)
(* so as to give the next allocation, or the next list, to all of them.    *)
(* Vectors and boxes are changed through &mut and their operations are one *)
(* step.  An Arc is shared: threads add devices to it step by step, under  *)
(* its lock for the part that calls the driver.                            *)
(***************************************************************************)
EXTENDS Naturals, FiniteSets

CONSTANTS
  Devices,
  Vecs,       \* vectors (and boxes)
  Arcs,
  Threads,    \* those that share the Arcs
  Classes     \* access of devices to the pool by default, a set of functions

ASSUME LapAssumption ==
  /\ Classes \subseteq [Devices -> {"never", "disallowed", "allowed"}]
  /\ Vecs \cap Arcs = {}
  /\ Arcs # {} /\ Devices # {}

Objects == Vecs \cup Arcs

VARIABLES
  class,      \* the default access of each device
  alive,      \* devices the Context still finds
  has,        \* objects with an allocation
  bits,       \* the devices in the allocator of each object
  granted,    \* the agents the driver lets touch the allocation
  lock,       \* Arcs whose lock is held
  at,         \* where each thread is in grant_access
  obj, dev,   \* the Arc and the device of its call
  list,       \* the agents it gives to the driver
  oked,       \* history: devices that add_access said Ok for, once allocated
  failed      \* history: objects the driver refused a list for

memVars == <<has, bits, granted, failed>>
threadVars == <<lock, at, obj, dev, list>>
lapVars == <<class, alive, memVars, threadVars, oked>>

LapInit ==
  /\ class \in Classes /\ alive = Devices
  /\ has = {} /\ bits = [o \in Objects |-> {}] /\ granted = [o \in Objects |-> {}]
  /\ lock = {} /\ at = [t \in Threads |-> "idle"]
  /\ obj = [t \in Threads |-> CHOOSE a \in Arcs : TRUE]
  /\ dev = [t \in Threads |-> CHOOSE d \in Devices : TRUE]
  /\ list = [t \in Threads |-> {}]
  /\ oked = [o \in Objects |-> {}] /\ failed = {}

(* Accessible::agents: the devices of the bits that the Context finds.     *)
Agents(o) == bits[o] \cap alive

-----------------------------------------------------------------------------
(* Allocation.  The new memory is given to the agents of the allocator; if *)
(* the driver refuses, it is freed and the object is as before.            *)

Mutant_UpdateAccessGrants(o) == {}
UpdateAccessGrants(o) == Agents(o)

(* LapAlloc::alloc, or grow and shrink when they move.                     *)
Allocate(o) ==
  /\ o \in Vecs
  /\ has' = has \cup {o}
  /\ granted' = [granted EXCEPT ![o] = UpdateAccessGrants(o)]
  /\ UNCHANGED <<class, alive, bits, failed, threadVars, oked>>

(* A vector shrinks to nothing.                                            *)
Dealloc(o) ==
  /\ o \in Vecs \cap has
  /\ has' = has \ {o}
  /\ granted' = [granted EXCEPT ![o] = {}]
  /\ oked' = [oked EXCEPT ![o] = {}]
  /\ UNCHANGED <<class, alive, bits, failed, threadVars>>

(* A vector is cloned, or the allocator of an object for another one: its  *)
(* bits are read without the lock.  An Arc has its allocation from the     *)
(* start.                                                                  *)
CloneInto(o, p) ==
  /\ o \in Vecs \cup has /\ p \in Objects \ has /\ o # p
  /\ bits' = [bits EXCEPT ![p] = bits[o]]
  /\ has' = has \cup {p}
  /\ granted' = [granted EXCEPT ![p] = UpdateAccessGrants(o)]
  /\ oked' = [oked EXCEPT ![p] = IF {o, p} \subseteq Vecs THEN oked[o] ELSE {}]
  /\ UNCHANGED <<class, alive, failed, threadVars>>

-----------------------------------------------------------------------------
(* add_access of a vector or a box, grant_access of &mut LapAlloc.         *)

(* The list the driver is given: those there are, and the new one.         *)
Mutant_NewList(o, d) == {d}
NewList(o, d) == Agents(o) \cup {d}

VecAdd(o, d) ==
  /\ o \in Vecs \cap has /\ d \in alive
  /\ d \notin bits[o] /\ class[d] = "disallowed"
  /\ granted' = [granted EXCEPT ![o] = NewList(o, d)]
  /\ bits' = [bits EXCEPT ![o] = @ \cup {d}]
  /\ oked' = [oked EXCEPT ![o] = @ \cup {d}]
  /\ UNCHANGED <<class, alive, has, failed, threadVars>>

(* Ok without doing anything: the bit is there, the device needs no grant, *)
(* or there is no allocation yet.                                          *)
VecAddNothing(o, d) ==
  /\ o \in Vecs /\ d \in alive
  /\ d \in bits[o] \/ class[d] = "allowed" \/ (class[d] = "disallowed" /\ o \notin has)
  /\ oked' = IF o \in has THEN [oked EXCEPT ![o] = @ \cup {d}] ELSE oked
  /\ UNCHANGED <<class, alive, memVars, threadVars>>

-----------------------------------------------------------------------------
(* add_access of an Arc, grant_access of &LapAlloc.                        *)

At(t, step) == at[t] = step
Go(t, step) == at' = [at EXCEPT ![t] = step]
Ok(t) ==
  /\ Go(t, "idle")
  /\ oked' = [oked EXCEPT ![obj[t]] = @ \cup {dev[t]}]

Call(t, a, d) ==
  /\ At(t, "idle") /\ a \in has /\ d \in alive
  /\ obj' = [obj EXCEPT ![t] = a] /\ dev' = [dev EXCEPT ![t] = d]
  /\ Go(t, "look")
  /\ UNCHANGED <<class, alive, memVars, lock, list, oked>>

(* The bit is looked at without the lock.                                  *)
Known(t) ==
  /\ At(t, "look") /\ dev[t] \in bits[obj[t]]
  /\ Ok(t)
  /\ UNCHANGED <<class, alive, memVars, lock, obj, dev, list>>

Unknown(t) ==
  /\ At(t, "look") /\ dev[t] \notin bits[obj[t]]
  /\ Go(t, CASE class[dev[t]] = "never" -> "idle"     \* HsaError::General
             [] class[dev[t]] = "allowed" -> "allowed"
             [] OTHER -> "lock")
  /\ UNCHANGED <<class, alive, memVars, lock, obj, dev, list, oked>>

SetAllowed(t) ==
  /\ At(t, "allowed")
  /\ bits' = [bits EXCEPT ![obj[t]] = @ \cup {dev[t]}]
  /\ Ok(t)
  /\ UNCHANGED <<class, alive, has, granted, failed, lock, obj, dev, list>>

LockFree(a) == a \notin lock

Lock(t) ==
  /\ At(t, "lock") /\ LockFree(obj[t])
  /\ lock' = lock \cup {obj[t]}
  /\ Go(t, "set")
  /\ UNCHANGED <<class, alive, memVars, obj, dev, list, oked>>

(* "another thread beat us"                                                *)
Beaten(t) ==
  /\ At(t, "set") /\ dev[t] \in bits[obj[t]]
  /\ lock' = lock \ {obj[t]}
  /\ Ok(t)
  /\ UNCHANGED <<class, alive, memVars, obj, dev, list>>

SetBit(t) ==
  /\ At(t, "set") /\ dev[t] \notin bits[obj[t]]
  /\ bits' = [bits EXCEPT ![obj[t]] = @ \cup {dev[t]}]
  /\ Go(t, "list")
  /\ UNCHANGED <<class, alive, has, granted, failed, lock, obj, dev, list, oked>>

ListAgents(t) ==
  /\ At(t, "list")
  /\ list' = [list EXCEPT ![t] = Agents(obj[t])]
  /\ Go(t, "grant")
  /\ UNCHANGED <<class, alive, memVars, lock, obj, dev, oked>>

Grant(t) ==
  /\ At(t, "grant")
  /\ granted' = [granted EXCEPT ![obj[t]] = list[t]]
  /\ lock' = lock \ {obj[t]}
  /\ list' = [list EXCEPT ![t] = {}]
  /\ Ok(t)
  /\ UNCHANGED <<class, alive, has, bits, failed, obj, dev>>

(* "ensure other threads don't think we've successfully granted access"    *)
Mutant_Unset(t) == bits[obj[t]]
Unset(t) == bits[obj[t]] \ {dev[t]}

GrantFails(t) ==
  /\ At(t, "grant")
  /\ bits' = [bits EXCEPT ![obj[t]] = Unset(t)]
  /\ failed' = failed \cup {obj[t]}
  /\ lock' = lock \ {obj[t]}
  /\ list' = [list EXCEPT ![t] = {}]
  /\ Go(t, "idle")
  /\ UNCHANGED <<class, alive, has, granted, obj, dev, oked>>

Step(t) ==
  Known(t) \/ Unknown(t) \/ SetAllowed(t) \/ Lock(t) \/ Beaten(t) \/ SetBit(t)
    \/ ListAgents(t) \/ Grant(t) \/ GrantFails(t)

(* The last reference to an accelerator goes, when no call has one.        *)
DeviceGone(d) ==
  /\ d \in alive /\ \A t \in Threads : ~At(t, "idle") => dev[t] # d
  /\ alive' = alive \ {d}
  /\ UNCHANGED <<class, memVars, threadVars, oked>>

-----------------------------------------------------------------------------
LapNext ==
  \/ \E o \in Vecs : Allocate(o) \/ Dealloc(o)
  \/ \E o, p \in Objects : CloneInto(o, p)
  \/ \E o \in Vecs, d \in Devices : VecAdd(o, d) \/ VecAddNothing(o, d)
  \/ \E t \in Threads : Step(t) \/ (\E a \in Arcs, d \in Devices : Call(t, a, d))
  \/ \E d \in Devices : DeviceGone(d)

LapSpec == LapInit /\ [][LapNext]_lapVars

-----------------------------------------------------------------------------
(* Properties.                                                             *)

Allowed == {d \in Devices : class[d] = "allowed"}

LapTypeOK ==
  /\ class \in Classes /\ alive \subseteq Devices
  /\ has \subseteq Objects /\ failed \subseteq Arcs
  /\ bits \in [Objects -> SUBSET Devices] /\ granted \in [Objects -> SUBSET Devices]
  /\ at \in [Threads -> {"idle", "look", "allowed", "lock", "set", "list", "grant"}]
  /\ obj \in [Threads -> Arcs] /\ dev \in [Threads -> Devices]
  /\ list \in [Threads -> SUBSET Devices]
  /\ oked \in [Objects -> SUBSET Devices]
  /\ lock \subseteq Arcs

(* While nobody is between setting a bit and the driver's answer, the bits *)
(* of an allocator and the driver's list say the same of every device that *)
(* needs to be on the list, across moves, clones, races and refusals.      *)
BitsMatchGrants ==
  \A o \in has \ lock :
    /\ bits[o] \cap alive \subseteq granted[o] \cup Allowed
    /\ granted[o] \subseteq bits[o]

(* A device whose add_access returned Ok can use the memory as soon as no  *)
(* call is about it any more, and after every move, unless the driver      *)
(* refused a list of that Arc.                                             *)
AccessKept ==
  \A o \in has \ (lock \cup failed) :
    oked[o] \cap alive \subseteq granted[o] \cup Allowed

(* No operation on an object takes away the access of a device.            *)
NeverRevoked ==
  [][\A o \in has \cap has' : granted[o] \cap alive \subseteq granted'[o]]_lapVars

(* An Ok of add_access means that the device may use the memory: "ensure   *)
(* other threads don't think we've successfully granted access".           *)
OkMeansGranted ==
  \A a \in Arcs : oked[a] \cap alive \subseteq granted[a] \cup Allowed
=============================================================================
