---------------------------- MODULE PacketStream ----------------------------
(***************************************************************************)
(* What a queue promises to the callers of try_enqueue_*: every accepted   *)
(* packet has a place in one total order, and packets are handed to the    *)
(* agent in that order, each exactly once and exactly as it was asked for. *)
(* A place that nobody fills holds back everything behind it.              *)
(***************************************************************************)
EXTENDS Naturals, Sequences

CONSTANTS Place,    \* places in the order, a set of consecutive naturals from 0
          Payload   \* what a caller asks for

VARIABLES accepted, \* the accepted packets: a partial function Place -> Payload
          handed    \* what the agent received so far

Init == accepted = <<>> /\ handed = <<>>

Accept(i, r) ==
  /\ i \in Place \ DOMAIN accepted
  /\ accepted' = [j \in DOMAIN accepted \cup {i} |->
                    IF j = i THEN r ELSE accepted[j]]
  /\ UNCHANGED handed

Hand ==
  /\ Len(handed) \in DOMAIN accepted
  /\ handed' = Append(handed, accepted[Len(handed)])
  /\ UNCHANGED accepted

Next == (\E i \in Place, r \in Payload : Accept(i, r)) \/ Hand

Spec == Init /\ [][Next]_<<accepted, handed>>
=============================================================================
