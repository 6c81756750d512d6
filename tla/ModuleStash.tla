----------------------------- MODULE ModuleStash -----------------------------
(***************************************************************************)
(* ModuleContextData of runtime-core (src/runtime-core/src/context.rs):    *)
(* the static word in which every kernel function keeps a counted pointer  *)
(* to its ModuleData.  get_cache_data publishes the first ModuleData with  *)
(* a compare-exchange and every later caller takes a reference of its own; *)
(* drop() swaps the pointer out and gives its reference up.                *)
(*                                                                         *)
(* Objects are heap addresses: one that is freed is allocated again.  The  *)
(* process has one Context (the global worker pool is built only once), so *)
(* the context of a ModuleData is the caller's: upgrade() fails only on a  *)
(* null pointer.                                                           *)
(***************************************************************************)
EXTENDS Integers, FiniteSets

CONSTANTS
  Threads,
  Objects,    \* addresses a ModuleData can have
  Null,       \* the null pointer
  MayDrop,    \* some thread may call ModuleContextData::drop
  MaxCalls    \* bound: calls per thread

ASSUME StashAssumption ==
  /\ Null \notin Objects /\ MayDrop \in BOOLEAN
  /\ IsFiniteSet(Threads) /\ MaxCalls \in Nat

VARIABLES
  ptr,     \* the static word
  rc,      \* strong count of each object, 0 when it is free
  pc,      \* where each thread is
  seen,    \* the pointer each thread has loaded
  mine,    \* the object each thread has allocated and not published
  owns,    \* counts each thread owns in mine: data and data_ptr
  held,    \* the Arc<ModuleData> each thread got from its last call
  calls,   \* calls each thread has made
  dropped, \* history: a drop() has swapped a pointer out
  broken   \* a thread used or freed an object that was free

vars == <<ptr, rc, pc, seen, mine, owns, held, calls, dropped, broken>>

PCs == {"idle", "load1", "take1", "alloc", "cas1", "load2", "take2", "cas2",
        "load3", "take3", "panicked", "dropload", "dropcas"}

TypeOK ==
  /\ ptr \in Objects \cup {Null}
  /\ rc \in [Objects -> Nat]
  /\ pc \in [Threads -> PCs]
  /\ seen \in [Threads -> Objects \cup {Null}]
  /\ mine \in [Threads -> Objects \cup {Null}]
  /\ owns \in [Threads -> 0 .. 2]
  /\ held \in [Threads -> Objects \cup {Null}]
  /\ calls \in [Threads -> 0 .. MaxCalls]
  /\ dropped \in BOOLEAN
  /\ broken \in BOOLEAN

Init ==
  /\ ptr = Null
  /\ rc = [o \in Objects |-> 0]
  /\ pc = [t \in Threads |-> "idle"]
  /\ seen = [t \in Threads |-> Null]
  /\ mine = [t \in Threads |-> Null]
  /\ owns = [t \in Threads |-> 0]
  /\ held = [t \in Threads |-> Null]
  /\ calls = [t \in Threads |-> 0]
  /\ dropped = FALSE
  /\ broken = FALSE

(* Past a use after free the program has no behaviour to speak of.         *)
At(t, places) == ~broken /\ pc[t] \in places

Goto(t, where) == pc' = [pc EXCEPT ![t] = where]

Begin(t, where) ==
  /\ At(t, {"idle"}) /\ calls[t] < MaxCalls
  /\ calls' = [calls EXCEPT ![t] = @ + 1]
  /\ Goto(t, where)

(* get_cache_data by a thread that has no reference yet.                   *)
GetCacheData(t) ==
  /\ Begin(t, "load1")
  /\ held[t] = Null
  /\ UNCHANGED <<ptr, rc, seen, mine, owns, held, dropped, broken>>

(* The caller is done with its Arc<ModuleData>.                            *)
Release(t) ==
  /\ At(t, {"idle"}) /\ held[t] # Null
  /\ rc' = [rc EXCEPT ![held[t]] = @ - 1]
  /\ held' = [held EXCEPT ![t] = Null]
  /\ UNCHANGED <<ptr, pc, seen, mine, owns, calls, dropped, broken>>

(* upgrade(): the load of the pointer, and what the three callers do when  *)
(* it is null.                                                             *)
OnNull(t) == CASE pc[t] = "load1" -> "alloc"
               [] pc[t] = "load2" -> "cas2"
               [] pc[t] = "load3" -> "panicked"    \* expect("someone beat us ..")

OnSome(t) == CASE pc[t] = "load1" -> "take1"
               [] pc[t] = "load2" -> "take2"
               [] pc[t] = "load3" -> "take3"

UpgradeLoad(t) ==
  /\ At(t, {"load1", "load2", "load3"})
  /\ seen' = [seen EXCEPT ![t] = IF pc[t] = "load2" /\ ptr = Null THEN @ ELSE ptr]
  /\ Goto(t, IF ptr = Null THEN OnNull(t) ELSE OnSome(t))
  /\ IF pc[t] = "load3" /\ ptr = Null
     THEN /\ rc' = [rc EXCEPT ![mine[t]] = @ - owns[t]]     \* unwinding drops data
          /\ mine' = [mine EXCEPT ![t] = Null]
          /\ owns' = [owns EXCEPT ![t] = 0]
     ELSE UNCHANGED <<rc, mine, owns>>
  /\ UNCHANGED <<ptr, held, calls, dropped, broken>>

(* upgrade(): Arc::from_raw(ptr).clone().  The loser of a race also gives  *)
(* up the object it allocated.                                             *)
UpgradeTake(t) ==
  /\ At(t, {"take1", "take2", "take3"})
  /\ IF rc[seen[t]] = 0
     THEN /\ broken' = TRUE
          /\ UNCHANGED <<rc, pc, mine, owns, held>>
     ELSE /\ rc' = [o \in Objects |->
                      rc[o] + (IF o = seen[t] THEN 1 ELSE 0)
                            - (IF o = mine[t] THEN owns[t] ELSE 0)]
          /\ held' = [held EXCEPT ![t] = seen[t]]
          /\ mine' = [mine EXCEPT ![t] = Null]
          /\ owns' = [owns EXCEPT ![t] = 0]
          /\ Goto(t, "idle")
          /\ UNCHANGED broken
  /\ UNCHANGED <<ptr, seen, calls, dropped>>

(* Arc::new(data), and Arc::into_raw of a clone of it.                     *)
FreshCount == 2

Allocate(t) ==
  /\ At(t, {"alloc"})
  /\ \E o \in Objects :
       /\ rc[o] = 0
       /\ rc' = [rc EXCEPT ![o] = FreshCount]
       /\ mine' = [mine EXCEPT ![t] = o]
  /\ owns' = [owns EXCEPT ![t] = 2]
  /\ Goto(t, "cas1")
  /\ UNCHANGED <<ptr, seen, held, calls, dropped, broken>>

(* data_ptr's count becomes the one of the static word, data is returned.  *)
Publish(t) ==
  /\ ptr' = mine[t]
  /\ held' = [held EXCEPT ![t] = mine[t]]
  /\ mine' = [mine EXCEPT ![t] = Null]
  /\ owns' = [owns EXCEPT ![t] = 0]
  /\ Goto(t, "idle")

(* compare_exchange(0, data_usize)                                         *)
Mutant_PublishFirst(t) ==
  /\ At(t, {"cas1"})
  /\ Publish(t)
  /\ UNCHANGED <<rc, seen, calls, dropped, broken>>

PublishFirst(t) ==
  /\ At(t, {"cas1"})
  /\ IF ptr = Null
     THEN Publish(t) /\ UNCHANGED seen
     ELSE /\ seen' = [seen EXCEPT ![t] = ptr]
          /\ Goto(t, "load2")
          /\ UNCHANGED <<ptr, held, mine, owns>>
  /\ UNCHANGED <<rc, calls, dropped, broken>>

(* compare_exchange(actual_data_usize, data_usize): the pointer was not    *)
(* null and upgrade() failed, so it must have changed in between.          *)
Replace(t) ==
  /\ At(t, {"cas2"})
  /\ IF ptr = seen[t]
     THEN /\ Publish(t)
          /\ rc' = [rc EXCEPT ![seen[t]] = @ - 1]
     ELSE /\ rc' = [rc EXCEPT ![mine[t]] = @ - 1]           \* data_ptr
          /\ owns' = [owns EXCEPT ![t] = 1]
          /\ Goto(t, "load3")
          /\ UNCHANGED <<ptr, held, mine>>
  /\ UNCHANGED <<seen, calls, dropped, broken>>

(* ModuleContextData::drop                                                 *)
Drop(t) ==
  /\ MayDrop
  /\ Begin(t, "dropload")
  /\ UNCHANGED <<ptr, rc, seen, mine, owns, held, dropped, broken>>

DropLoad(t) ==
  /\ At(t, {"dropload"})
  /\ seen' = [seen EXCEPT ![t] = ptr]
  /\ Goto(t, IF ptr = Null THEN "idle" ELSE "dropcas")
  /\ UNCHANGED <<ptr, rc, mine, owns, held, calls, dropped, broken>>

Mutant_DropExchange(t) ==
  /\ At(t, {"dropcas"})
  /\ ptr' = Null
  /\ dropped' = TRUE
  /\ IF rc[seen[t]] = 0
     THEN broken' = TRUE /\ UNCHANGED rc
     ELSE rc' = [rc EXCEPT ![seen[t]] = @ - 1] /\ UNCHANGED broken
  /\ Goto(t, "idle")
  /\ UNCHANGED <<seen, mine, owns, held, calls>>

DropExchange(t) ==
  /\ At(t, {"dropcas"})
  /\ IF ptr = seen[t]
     THEN /\ ptr' = Null
          /\ rc' = [rc EXCEPT ![seen[t]] = @ - 1]
          /\ dropped' = TRUE
     ELSE UNCHANGED <<ptr, rc, dropped>>
  /\ Goto(t, "idle")
  /\ UNCHANGED <<seen, mine, owns, held, calls, broken>>

Step(t) ==
  \/ GetCacheData(t) \/ Release(t) \/ UpgradeLoad(t) \/ UpgradeTake(t)
  \/ Allocate(t) \/ PublishFirst(t) \/ Replace(t)
  \/ Drop(t) \/ DropLoad(t) \/ DropExchange(t)

Next == \E t \in Threads : Step(t)

Spec == Init /\ [][Next]_vars

-----------------------------------------------------------------------------
(* Properties.                                                             *)

(* The references to an object: the static word's, those the callers hold, *)
(* and those of threads inside get_cache_data, one or two.                 *)
Word(o) == IF ptr = o THEN 1 ELSE 0
Holders(o) == {t \in Threads : held[t] = o}
Makers(o) == {t \in Threads : mine[t] = o /\ owns[t] >= 1}
Double(o) == {t \in Threads : mine[t] = o /\ owns[t] = 2}
Refs(o) == Cardinality(Holders(o)) + Cardinality(Makers(o)) + Cardinality(Double(o))

(* The strong count of every object is the number of references to it:     *)
(* nothing is freed early, dropped twice or leaked.                        *)
CountsExact == \A o \in Objects : rc[o] = Word(o) + Refs(o)

(* All the callers of a function share one ModuleData, the published one,  *)
(* as long as no drop() took it.                                            *)
OneModuleData ==
  ~dropped => \A t \in Threads : held[t] # Null => held[t] = ptr

(* upgrade() turns a live pointer into a reference, also when drop() runs  *)
(* at the same time ("allowing for possible races in this process").       *)
NoUseAfterFree == ~broken

(* "someone beat us in setting context module data": then there is data.   *)
LoserFindsData == \A t \in Threads : pc[t] # "panicked"
=============================================================================
