---------------------------- MODULE MCSoftQueue ----------------------------
(***************************************************************************)
(* SoftQueue on a ring of two slots.                                       *)
(***************************************************************************)
EXTENDS SoftQueue

CONSTANTS s1, s2

TheSignals == {s1, s2}

(* new_soft with QueueType::Single.                                        *)
SoftQueues == {[hsa_type |-> "single", sync |-> FALSE]}

AgentRequests ==
  {[kind |-> "dispatch", completion |-> s1, zero_dim |-> FALSE],
   [kind |-> "dispatch", completion |-> NoSignal, zero_dim |-> FALSE],
   [kind |-> "dispatch", completion |-> s2, zero_dim |-> FALSE]}
=============================================================================
