------------------------------ MODULE ArgsPool ------------------------------
(***************************************************************************)
(* The pool of kernel argument blocks of runtime-amd                       *)
(* (src/runtime-amd/src/module/args_pool.rs): a bump allocator that any    *)
(* number of host threads share, without a lock, and that is reset as a    *)
(* whole.                                                                  *)
(*                                                                         *)
(* A block belongs to one kernel invocation: the device reads it until the *)
(* InvocCompletion of the invocation is dropped.  Every invocation and     *)
(* completion holds the pool (a clone of the Arc, or a borrow), and wash() *)
(* takes &mut self: it runs only when no one holds the pool.               *)
(***************************************************************************)
EXTENDS Integers, FiniteSets

CONSTANTS
  HostThreads,
  Base,        \* address of the arena
  Bytes,       \* size of the arena
  Align,       \* the alignment of every block, 128 in the code
  Sizes        \* sizes of the InvocArgs of the kernels

ASSUME PoolAssumption ==
  /\ Base \in Nat \ {0} /\ Bytes \in Nat
  /\ Align \in Nat \ {0}
  /\ Sizes \subseteq Nat \ {0} /\ Sizes # {}

(* ArgsPool::new: the arena for count calls of a kernel.                   *)
NewBytes(granule, each, count) ==
  IF each * count > granule THEN each * count ELSE granule

End == Base + Bytes

VARIABLES
  allocated,   \* the first address that is not given out
  pc,          \* where each thread is: idle, try
  seen,        \* the value of allocated each thread works with
  want,        \* the size each thread asks for
  live         \* blocks of invocations that are not over

poolVars == <<allocated, pc, seen, want, live>>

Address == Base .. End
Block == [start : Address, size : Sizes]

PoolTypeOK ==
  /\ allocated \in Address
  /\ pc \in [HostThreads -> {"idle", "try"}]
  /\ seen \in [HostThreads -> Address]
  /\ want \in [HostThreads -> Sizes]
  /\ live \subseteq Block

PoolInit ==
  /\ allocated = Base
  /\ pc = [t \in HostThreads |-> "idle"]
  /\ seen = [t \in HostThreads |-> Base]
  /\ want = [t \in HostThreads |-> CHOOSE s \in Sizes : TRUE]
  /\ live = {}

(* alignment_padding(allocated_start, layout.align())                      *)
Padding(a) == (Align - ((a - 1) % Align)) - 1

(* What a block of s bytes takes when the pool is filled up to a.          *)
AllocSize(a, s) == s + Padding(a)
NoRoom(a, s) == a + AllocSize(a, s) > End

(* alloc: the load of the pointer.                                         *)
Alloc(t, s) ==
  /\ pc[t] = "idle"
  /\ want' = [want EXCEPT ![t] = s]
  /\ seen' = [seen EXCEPT ![t] = allocated]
  /\ pc' = [pc EXCEPT ![t] = "try"]
  /\ UNCHANGED <<allocated, live>>

(* "no more space available, bail."                                        *)
Bail(t) ==
  /\ pc[t] = "try" /\ NoRoom(seen[t], want[t])
  /\ pc' = [pc EXCEPT ![t] = "idle"]
  /\ UNCHANGED <<allocated, seen, want, live>>

(* compare_exchange_weak, Ok                                               *)
Mutant_Exchange(t) ==
  /\ pc[t] = "try" /\ ~NoRoom(seen[t], want[t])
  /\ allocated' = seen[t] + AllocSize(seen[t], want[t])
  /\ live' = live \cup {[start |-> seen[t] + Padding(seen[t]), size |-> want[t]]}
  /\ pc' = [pc EXCEPT ![t] = "idle"]
  /\ UNCHANGED <<seen, want>>

Exchange(t) ==
  /\ pc[t] = "try" /\ ~NoRoom(seen[t], want[t])
  /\ allocated = seen[t]
  /\ allocated' = allocated + AllocSize(allocated, want[t])
  /\ live' = live \cup {[start |-> allocated + Padding(allocated), size |-> want[t]]}
  /\ pc' = [pc EXCEPT ![t] = "idle"]
  /\ UNCHANGED <<seen, want>>

(* compare_exchange_weak, Err: another thread was faster, or the exchange  *)
(* failed for no reason at all.                                            *)
Mutant_Retry(t) ==
  /\ pc[t] = "try" /\ ~NoRoom(seen[t], want[t])
  /\ seen' = [seen EXCEPT ![t] = @ + AllocSize(@, want[t])]
  /\ UNCHANGED <<allocated, pc, want, live>>

Retry(t) ==
  /\ pc[t] = "try" /\ ~NoRoom(seen[t], want[t])
  /\ seen' = [seen EXCEPT ![t] = allocated]
  /\ UNCHANGED <<allocated, pc, want, live>>

(* The InvocCompletion is dropped.  Dealloc of a pool block is a no-op.    *)
Finish(b) ==
  /\ b \in live
  /\ live' = live \ {b}
  /\ UNCHANGED <<allocated, pc, seen, want>>

Exclusive == live = {} /\ \A t \in HostThreads : pc[t] = "idle"

(* wash(&mut self)                                                         *)
Wash ==
  /\ Exclusive
  /\ allocated' = Base
  /\ UNCHANGED <<pc, seen, want, live>>

PoolNext ==
  \/ \E t \in HostThreads : \/ Bail(t) \/ Exchange(t) \/ Retry(t)
                            \/ \E s \in Sizes : Alloc(t, s)
  \/ \E b \in live : Finish(b)
  \/ Wash

PoolSpec == PoolInit /\ [][PoolNext]_poolVars

-----------------------------------------------------------------------------
(* Properties.                                                             *)

(* Blocks of invocations that are not over never share a byte.             *)
BlocksDisjoint ==
  \A b, c \in live :
    b # c => b.start + b.size <= c.start \/ c.start + c.size <= b.start

(* A block lies in the arena, at a multiple of the alignment: no two       *)
(* blocks share a cache line.                                              *)
BlocksPlaced ==
  \A b \in live : /\ b.start % Align = 0
                  /\ Base <= b.start /\ b.start + b.size <= End

(* alloc returns None only when there is no room, whatever the value it    *)
(* decided on: a thread with a stale pointer never reports a full pool     *)
(* that is not.                                                            *)
OutOfSpaceIsReal ==
  [][\A t \in HostThreads : pc[t] = "try" /\ pc'[t] = "idle" /\ live' = live =>
       NoRoom(allocated, want[t])]_poolVars

(* The inductive invariant: live blocks lie below the bump pointer, and a  *)
(* thread never works with a pointer ahead of it.                          *)
PoolInv ==
  /\ PoolTypeOK
  /\ BlocksDisjoint
  /\ \A b \in live : /\ b.start % Align = 0
                     /\ b.start + b.size <= allocated
  /\ \A t \in HostThreads : pc[t] = "try" => seen[t] <= allocated
=============================================================================
