---------------------------- MODULE MCRingQueue ----------------------------
(***************************************************************************)
(* RingQueue on small queues.                                              *)
(***************************************************************************)
EXTENDS RingQueue

CONSTANTS s1, s2

(* Calls whose completion field is always stored by the call.              *)
PlainRequests ==
  {[kind |-> "dispatch", completion |-> s1, zero_dim |-> FALSE],
   [kind |-> "dispatch", completion |-> NoSignal, zero_dim |-> FALSE],
   [kind |-> "dispatch", completion |-> s1, zero_dim |-> TRUE],
   [kind |-> "barrier_and", completion |-> s2, zero_dim |-> FALSE]}

(* A dispatch, and the barrier that carries its dependencies: the runtime  *)
(* passes no completion signal to that barrier.                            *)
InvocRequests ==
  {[kind |-> "dispatch", completion |-> s1, zero_dim |-> FALSE],
   [kind |-> "barrier_and", completion |-> NoSignal, zero_dim |-> FALSE]}

OneRequest ==
  {[kind |-> "dispatch", completion |-> s1, zero_dim |-> FALSE]}

TheSignals == {s1, s2}

(* new_queue and new_kernel_queue; new_kernel_multi_queue.                 *)
CreatedQueues ==
  {[hsa_type |-> "single", sync |-> FALSE], [hsa_type |-> "multi", sync |-> TRUE]}

(* new_kernel_multi_queue alone.                                           *)
KernelMultiQueue == {[hsa_type |-> "multi", sync |-> TRUE]}
=============================================================================
