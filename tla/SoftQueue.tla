------------------------------ MODULE SoftQueue ------------------------------
(***************************************************************************)
(* SoftQueue::process of hsa-rt: a queue whose packets are processed by    *)
(* host code, not by a packet processor.  The host thread waits on the     *)
(* doorbell, hands the packet at its read index to a closure, decrements   *)
(* the completion signal, stores an INVALID header and advances the read   *)
(* index.  It never looks at the header it finds.                          *)
(*                                                                         *)
(* The producers are agents, outside of this repository: they take the     *)
(* producer's steps of RingQueue, except that they wait for room where     *)
(* try_enqueue_packet returns Full.                                        *)
(***************************************************************************)
EXTENDS RingQueue

VARIABLES
  next,       \* process(): the local read_index
  completed   \* history: the signals process() decremented, in order

softVars == <<next, completed>>
allVars == <<vars, softVars>>

SoftSteps == {"ready", "wait", "process", "complete", "clear", "advance"}

SoftTypeOK ==
  /\ next \in 0 .. MaxIndex
  /\ read_index \in 0 .. MaxIndex
  /\ proc \in SoftSteps
  /\ ring \in [0 .. Size - 1 -> Packet]
  /\ fate \in [Index -> Fates]
  /\ completed \in Seq(Signals)

SoftInit == Init /\ next = 0 /\ completed = <<>>

HeldPacket == ring[Slot(next)]

(* The application calls process(): proc is "ready" outside of it.         *)
Enter ==
  /\ proc = "ready"
  /\ next' = read_index
  /\ proc' = "wait"
  /\ UNCHANGED <<queue, write_index, doorbell, ring, producerVars, historyVars,
                 read_index, awake, delivered, completed>>

(* wait_scacquire(GreaterEqual, read_index), and the test of its result.   *)
Mutant_DoorbellReached == doorbell > next
Mutant_DoorbellEarly == doorbell >= next - 1
DoorbellReached == doorbell >= next

SeeDoorbell ==
  /\ proc = "wait"
  /\ DoorbellReached
  /\ proc' = "process"
  /\ UNCHANGED <<queue, write_index, doorbell, ring, producerVars, historyVars,
                 read_index, awake, delivered, softVars>>

(* The slot given back as soon as the packet was handed out.               *)
Mutant_Process ==
  /\ proc = "process"
  /\ delivered' = Append(delivered, [body |-> HeldPacket.body, kind |-> HeldPacket.type,
                                     completion |-> HeldPacket.completion])
  /\ read_index' = next + 1
  /\ fate' = [fate EXCEPT ![next] = "taken"]
  /\ proc' = "complete"
  /\ UNCHANGED <<queue, write_index, doorbell, ring, producerVars, asked, awake, softVars>>

(* f(AgentPacket { sys: packet, .. })                                      *)
Process ==
  /\ proc = "process"
  /\ delivered' = Append(delivered, [body |-> HeldPacket.body, kind |-> HeldPacket.type,
                                     completion |-> HeldPacket.completion])
  /\ proc' = "complete"
  /\ UNCHANGED <<queue, write_index, doorbell, ring, producerVars, historyVars,
                 read_index, awake, softVars>>

(* SignalRef(packet.completion_signal).subtract_screlease(1)               *)
Complete ==
  /\ proc = "complete"
  /\ completed' = IF HeldPacket.completion = NoSignal THEN completed
                  ELSE Append(completed, HeldPacket.completion)
  /\ proc' = "clear"
  /\ UNCHANGED <<queue, write_index, doorbell, ring, producerVars, historyVars,
                 read_index, awake, delivered, next>>

(* packet_store_rel(packet, invalid_ty, ..): the slot is free to reuse.    *)
Clear ==
  /\ proc = "clear"
  /\ ring' = [ring EXCEPT ![Slot(next)].type = "invalid"]
  /\ fate' = [fate EXCEPT ![next] = "taken"]
  /\ proc' = "advance"
  /\ UNCHANGED <<queue, write_index, doorbell, producerVars, asked, read_index, awake,
                 delivered, softVars>>

(* store_read_index_screlease, and the verdict of the closure.             *)
StoreReadIndex ==
  /\ proc = "advance"
  /\ next' = next + 1
  /\ read_index' = next + 1
  /\ proc' \in {"wait", "ready"}
  /\ UNCHANGED <<queue, write_index, doorbell, ring, producerVars, historyVars, awake,
                 delivered, completed>>

Serving == SeeDoorbell \/ Process \/ Complete \/ Clear \/ StoreReadIndex

(* An agent's call (external): it waits while the queue is full.           *)
AgentCall(p) ==
  /\ Admit(p) \/ Invalidate(p) \/ Fill(p) \/ Publish(p) \/ RingDoorbell(p)
  /\ UNCHANGED softVars

AgentReserve(p, r) == Reserve(p, r) /\ UNCHANGED softVars

SoftNext ==
  \/ \E p \in Producers, r \in Requests : AgentReserve(p, r)
  \/ \E p \in Producers : AgentCall(p)
  \/ Enter
  \/ Serving

SoftSpec == SoftInit /\ [][SoftNext]_allVars

(* process() runs until its closure says Exit; nothing makes the           *)
(* application call it again.                                              *)
SoftFairSpec ==
  SoftSpec /\ WF_allVars(Serving) /\ \A p \in Producers : WF_allVars(AgentCall(p))

-----------------------------------------------------------------------------
(* Properties.                                                             *)

(* The closure gets the packets the agents wrote, in the order of their    *)
(* indices, whole, with the completion signal of the agent's request.      *)
ProcessedAsAsked ==
  \A k \in 1 .. Len(delivered) :
    delivered[k] = [body |-> k - 1, kind |-> asked[k - 1].kind,
                    completion |-> asked[k - 1].completion]

(* Every processed packet that has a completion signal decrements that     *)
(* signal, once, and in the order of processing.                           *)
CompletedOnce ==
  LET signalled == SelectSeq([k \in 1 .. Len(delivered) |-> delivered[k].completion],
                             LAMBDA s : s # NoSignal)
  IN  IF proc = "complete" /\ HeldPacket.completion # NoSignal
      THEN Append(completed, HeldPacket.completion) = signalled
      ELSE completed = signalled

(* While process() runs, an enqueued packet is processed.                  *)
ProcessedWhileServing ==
  \A i \in Index :
    (fate[i] = "published") ~> (fate[i] = "taken" \/ proc = "ready")

=============================================================================
