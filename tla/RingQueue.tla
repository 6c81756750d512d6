------------------------------ MODULE RingQueue ------------------------------
(***************************************************************************)
(* The user-mode AQL queue of hsa-rt (src/hsa-rt/src/queue.rs).            *)
(*                                                                         *)
(* Any number of host threads run RingQueue::try_enqueue_packet on one     *)
(* queue; the packet processor of the agent consumes the ring.  Every      *)
(* access of a producer to shared memory is a step of its own: the         *)
(* fetch-add of the write index, the load of the read index with the full  *)
(* check, the INVALID header store, the packet body, the final header      *)
(* store, the doorbell store.                                              *)
(*                                                                         *)
(* The packet processor is hardware.  It is modelled from what the code    *)
(* relies on: it is woken by a doorbell store, takes the packet at the     *)
(* read index once its header is not INVALID, stores INVALID back and then *)
(* advances the read index.  On a SINGLE queue it goes no further than the *)
(* doorbell value.                                                         *)
(***************************************************************************)
EXTENDS Integers, Sequences

CONSTANTS
  Producers,   \* host threads that share the queue
  Size,        \* hsa_queue_t.size, a power of two: & (Size - 1) is % Size
  Queues,      \* the kinds of queue the program creates, see Kind
  Requests,    \* the calls the threads make, a set of Request records
  NoSignal,    \* the null completion signal
  Signals,     \* the completion signals of the callers
  MaxIndex     \* bound: no call starts once MaxIndex indices are reserved

(* A queue as its constructor leaves it: the type hsa_queue_create was told*)
(* and whether the Rust type is Sync, so that threads may share it.        *)
Kind == [hsa_type : {"single", "multi"}, sync : BOOLEAN]

Kinds == {"dispatch", "barrier_and", "barrier_or"}

(* What the caller of one of the try_enqueue_* functions passes.  zero_dim *)
(* marks a dispatch with a zero workgroup or grid dimension.               *)
Request == [kind : Kinds, completion : Signals \cup {NoSignal},
            zero_dim : BOOLEAN]

ASSUME RingAssumption ==
  /\ Size \in Nat \ {0}
  /\ MaxIndex \in Nat \ {0}
  /\ Queues \subseteq Kind
  /\ Requests \subseteq Request
  /\ Requests # {}
  /\ NoSignal \notin Signals

Index == 0 .. MaxIndex - 1
Slot(i) == i % Size

(* What add_write_index_screlease(1) returns: the index before the add.    *)
Fetched(w) == w

(* The headers stored before and after the body is written.                *)
Mutant_OpeningHeader(r) == r.kind
OpeningHeader(r) == "invalid"
Mutant_ClosingHeader(r) == "dispatch"
ClosingHeader(r) == r.kind

(* The value stored to the doorbell.                                       *)
DoorbellValue(i) == i

AnyRequest == CHOOSE r \in Requests : TRUE

VARIABLES
  queue,        \* the Kind of the queue
  write_index,  \* hsa_queue's write index
  read_index,   \* hsa_queue's read index
  doorbell,     \* value of the doorbell signal, -1 before the first store
  awake,        \* the packet processor has a doorbell store to act on
  proc,         \* "ready", or "advance" between the INVALID store and the index
  ring,         \* the packet slots: header type, whose body, completion field
  pc,           \* where each thread is inside try_enqueue_packet
  idx,          \* the write index each thread reserved
  result,       \* what the last call of each thread returned
  asked,        \* history: the request an index was reserved for
  fate,         \* history: what became of an index
  delivered     \* history: the packets the processor took, in order

producerVars == <<pc, idx, result>>
historyVars == <<asked, fate>>
processorVars == <<read_index, awake, proc, delivered>>
vars == <<queue, write_index, doorbell, ring, producerVars, historyVars, processorVars>>

Fates == {"free", "reserved", "abandoned", "published", "taken"}
Results == {"none", "ok", "full", "bad_dims"}
PCs == {"idle", "reserved", "admitted", "invalidated", "filled", "published"}
Packet == [type : Kinds \cup {"invalid"}, body : Index \cup {-1},
           completion : Signals \cup {NoSignal}]

TypeOK ==
  /\ queue \in Queues
  /\ write_index \in 0 .. MaxIndex
  /\ read_index \in 0 .. MaxIndex
  /\ doorbell \in Index \cup {-1}
  /\ awake \in BOOLEAN
  /\ proc \in {"ready", "advance"}
  /\ ring \in [0 .. Size - 1 -> Packet]
  /\ pc \in [Producers -> PCs]
  /\ idx \in [Producers -> Index]
  /\ result \in [Producers -> Results]
  /\ asked \in [Index -> Requests]
  /\ fate \in [Index -> Fates]
  /\ delivered \in Seq([body : Index \cup {-1}, kind : Kinds,
                        completion : Signals \cup {NoSignal}])

Init ==
  /\ queue \in Queues
  /\ write_index = 0
  /\ read_index = 0
  /\ doorbell = -1
  /\ awake = FALSE
  /\ proc = "ready"
  /\ ring = [s \in 0 .. Size - 1 |->
               [type |-> "invalid", body |-> -1, completion |-> NoSignal]]
  /\ pc = [p \in Producers |-> "idle"]
  /\ idx = [p \in Producers |-> 0]
  /\ result = [p \in Producers |-> "none"]
  /\ asked = [i \in Index |-> AnyRequest]
  /\ fate = [i \in Index |-> "free"]
  /\ delivered = <<>>

-----------------------------------------------------------------------------
(* The producer: try_enqueue_kernel_dispatch, try_enqueue_barrier_and/or   *)
(* and the try_enqueue_packet they share.                                  *)

(* A queue that is not Sync is used by one thread at a time.               *)
MayEnter(p) ==
  /\ pc[p] = "idle"
  /\ queue.sync \/ \A q \in Producers : pc[q] = "idle"

(* DispatchPacket::check fails before an index is reserved.                *)
RejectDims(p, r) ==
  /\ MayEnter(p)
  /\ r.kind = "dispatch" /\ r.zero_dim
  /\ result' = [result EXCEPT ![p] = "bad_dims"]
  /\ UNCHANGED <<queue, write_index, doorbell, ring, pc, idx, historyVars,
                 processorVars>>

(* add_write_index_screlease(1): the index is this thread's from here on.  *)
Reserve(p, r) ==
  /\ MayEnter(p)
  /\ ~(r.kind = "dispatch" /\ r.zero_dim)
  /\ write_index < MaxIndex
  /\ write_index' = write_index + 1
  /\ idx' = [idx EXCEPT ![p] = Fetched(write_index)]
  /\ pc' = [pc EXCEPT ![p] = "reserved"]
  /\ asked' = [asked EXCEPT ![write_index] = r]
  /\ fate' = [fate EXCEPT ![write_index] = "reserved"]
  /\ result' = [result EXCEPT ![p] = "none"]
  /\ UNCHANGED <<queue, doorbell, ring, processorVars>>

(* The full check comes after the reservation.  An index that fails it is  *)
(* neither given back nor published.                                       *)
Mutant_IsFull(i) == i - read_index > Size
IsFull(i) == i - read_index >= Size

ReturnFull(p) ==
  /\ pc[p] = "reserved"
  /\ IsFull(idx[p])
  /\ pc' = [pc EXCEPT ![p] = "idle"]
  /\ result' = [result EXCEPT ![p] = "full"]
  /\ fate' = [fate EXCEPT ![idx[p]] = "abandoned"]
  /\ UNCHANGED <<queue, write_index, doorbell, ring, idx, asked, processorVars>>

Admit(p) ==
  /\ pc[p] = "reserved"
  /\ ~IsFull(idx[p])
  /\ pc' = [pc EXCEPT ![p] = "admitted"]
  /\ UNCHANGED <<queue, write_index, doorbell, ring, idx, result, historyVars,
                 processorVars>>

(* packet_store_rel(packet, invalid_ty, ..)                                *)
Invalidate(p) ==
  /\ pc[p] = "admitted"
  /\ ring' = [ring EXCEPT ![Slot(idx[p])].type = OpeningHeader(asked[idx[p]])]
  /\ pc' = [pc EXCEPT ![p] = "invalidated"]
  /\ UNCHANGED <<queue, write_index, doorbell, idx, result, historyVars, processorVars>>

(* The completion field a call leaves in its packet: a dispatch always     *)
(* stores the field, a barrier stores it only when it was given a signal.  *)
Stores(r) == r.kind = "dispatch" \/ r.completion # NoSignal

CompletionField(r, old) == IF Stores(r) THEN r.completion ELSE old

(* The body of the packet, plain stores.                                   *)
Fill(p) ==
  /\ pc[p] = "invalidated"
  /\ ring' = [ring EXCEPT ![Slot(idx[p])] =
                [type |-> @.type, body |-> idx[p],
                 completion |-> CompletionField(asked[idx[p]], @.completion)]]
  /\ pc' = [pc EXCEPT ![p] = "filled"]
  /\ UNCHANGED <<queue, write_index, doorbell, idx, result, historyVars, processorVars>>

(* packet_store_rel(packet, ty, ..): the packet becomes visible.           *)
Publish(p) ==
  /\ pc[p] = "filled"
  /\ ring' = [ring EXCEPT ![Slot(idx[p])].type = ClosingHeader(asked[idx[p]])]
  /\ pc' = [pc EXCEPT ![p] = "published"]
  /\ fate' = [fate EXCEPT ![idx[p]] = "published"]
  /\ UNCHANGED <<queue, write_index, doorbell, idx, result, asked, processorVars>>

(* A doorbell that is only ever raised: a late lower index does not ring.  *)
Mutant_RaiseDoorbell(p) ==
  /\ pc[p] = "published"
  /\ IF idx[p] > doorbell THEN doorbell' = idx[p] /\ awake' = TRUE
                          ELSE UNCHANGED <<doorbell, awake>>
  /\ pc' = [pc EXCEPT ![p] = "idle"]
  /\ result' = [result EXCEPT ![p] = "ok"]
  /\ UNCHANGED <<queue, write_index, ring, idx, historyVars, read_index, proc, delivered>>

(* doorbell_ref().store_screlease(write_index)                             *)
RingDoorbell(p) ==
  /\ pc[p] = "published"
  /\ doorbell' = DoorbellValue(idx[p])
  /\ awake' = TRUE
  /\ pc' = [pc EXCEPT ![p] = "idle"]
  /\ result' = [result EXCEPT ![p] = "ok"]
  /\ UNCHANGED <<queue, write_index, ring, idx, historyVars, read_index, proc, delivered>>

-----------------------------------------------------------------------------
(* The packet processor (external).                                        *)

HeadPacket == ring[Slot(read_index)]

CanTake ==
  /\ HeadPacket.type # "invalid"
  /\ queue.hsa_type = "single" => read_index <= doorbell

Take ==
  /\ awake /\ proc = "ready" /\ CanTake
  /\ delivered' = Append(delivered, [body |-> HeadPacket.body, kind |-> HeadPacket.type,
                                     completion |-> HeadPacket.completion])
  /\ ring' = [ring EXCEPT ![Slot(read_index)].type = "invalid"]
  /\ fate' = [fate EXCEPT ![read_index] = "taken"]
  /\ proc' = "advance"
  /\ UNCHANGED <<queue, write_index, doorbell, producerVars, asked, read_index, awake>>

Advance ==
  /\ proc = "advance"
  /\ read_index' = read_index + 1
  /\ proc' = "ready"
  /\ UNCHANGED <<queue, write_index, doorbell, ring, producerVars, historyVars, awake,
                 delivered>>

(* Nothing to take: the processor goes idle until the next doorbell store. *)
Sleep ==
  /\ awake /\ proc = "ready" /\ ~CanTake
  /\ awake' = FALSE
  /\ UNCHANGED <<queue, write_index, doorbell, ring, producerVars, historyVars,
                 read_index, proc, delivered>>

-----------------------------------------------------------------------------
InCall(p) ==
  ReturnFull(p) \/ Admit(p) \/ Invalidate(p) \/ Fill(p) \/ Publish(p)
    \/ RingDoorbell(p)

Processor == Take \/ Advance \/ Sleep

Next ==
  \/ \E p \in Producers, r \in Requests : RejectDims(p, r) \/ Reserve(p, r)
  \/ \E p \in Producers : InCall(p)
  \/ Processor

Spec == Init /\ [][Next]_vars

(* A thread inside a call keeps running, the processor keeps running; that *)
(* a thread makes another call is never assumed.                           *)
Fairness == WF_vars(Processor) /\ \A p \in Producers : WF_vars(InCall(p))

FairSpec == Spec /\ Fairness

-----------------------------------------------------------------------------
(* Properties.                                                             *)

Writing(p) == pc[p] \in {"admitted", "invalidated", "filled"}

(* Two threads never write the same slot, and no thread writes a slot that *)
(* still holds a packet the processor has not taken (queue.rs: the check   *)
(* of write_index - read_index against the packet count).                  *)
SlotExclusive ==
  \A p \in Producers : Writing(p) =>
    /\ \A q \in Producers \ {p} : Writing(q) => Slot(idx[p]) # Slot(idx[q])
    /\ \A i \in Index : fate[i] = "published" => Slot(i) # Slot(idx[p])

(* A published packet stays in its slot, whole, until the processor takes  *)
(* it: its header is valid and its body is the one written for it.         *)
PublishedIntact ==
  \A i \in Index : fate[i] = "published" =>
    /\ ring[Slot(i)].type = asked[i].kind
    /\ ring[Slot(i)].body = i

(* The processor gets the packets in index order, each once, and never one *)
(* that is half written.                                                   *)
InOrderOnce ==
  \A k \in 1 .. Len(delivered) : delivered[k].body = k - 1

(* The completion signal the processor decrements for a packet is the one  *)
(* its caller passed: none, when the caller passed none.                   *)
CompletionAsAsked ==
  \A k \in 1 .. Len(delivered) :
    delivered[k].completion = asked[k - 1].completion

(* The doorbell of a SINGLE queue never goes backwards (queue.rs: "must be *)
(* updated in a monotonically increasing fashion").                        *)
DoorbellMonotonic ==
  [][queue.hsa_type = "single" => doorbell' >= doorbell]_doorbell

(* A packet whose call published it is taken by the processor, unless an   *)
(* earlier index was abandoned by a call that returned Full.               *)
TakenUnlessGap ==
  \A i \in Index :
    (fate[i] = "published") ~>
      (fate[i] = "taken" \/ \E j \in 0 .. i - 1 : fate[j] = "abandoned")

(* The same without the proviso: Ok from try_enqueue_* means that the      *)
(* packet will be processed.                                               *)
AcceptedIsTaken ==
  \A i \in Index : (fate[i] = "published") ~> (fate[i] = "taken")

-----------------------------------------------------------------------------
(* The inductive invariant behind the safety properties above.             *)

(* Index up to which the processor has taken packets.                      *)
Taken == IF proc = "advance" THEN read_index + 1 ELSE read_index

(* A reserved index has one owner, and its fate follows the owner's step.  *)
OwnerInv ==
  \A p \in Producers :
    /\ pc[p] # "idle" => idx[p] < write_index
    /\ pc[p] \in {"reserved", "admitted", "invalidated", "filled"} =>
         fate[idx[p]] = "reserved"
    /\ \A q \in Producers \ {p} :
         pc[p] # "idle" /\ pc[q] # "idle" => idx[p] # idx[q]

(* Indices are handed out from below and taken from below.                 *)
IndexInv ==
  /\ Taken <= write_index
  /\ \A i \in Index : /\ fate[i] = "free" <=> i >= write_index
                      /\ fate[i] = "taken" <=> i < Taken

(* A packet being written or waiting lies inside the window of the ring.   *)
WindowInv ==
  /\ \A p \in Producers : Writing(p) => idx[p] < read_index + Size
  /\ \A i \in Index : fate[i] = "published" => i < read_index + Size

(* What the slots hold: every valid header belongs to a published packet.  *)
SlotInv ==
  /\ \A s \in 0 .. Size - 1 : ring[s].type # "invalid" =>
       \E i \in Index : fate[i] = "published" /\ Slot(i) = s
  /\ \A p \in Producers : pc[p] = "filled" => ring[Slot(idx[p])].body = idx[p]
  /\ PublishedIntact

(* The log of the processor is the prefix of the indices it has taken.     *)
LogInv ==
  /\ Len(delivered) = Taken
  /\ InOrderOnce

IInv == TypeOK /\ OwnerInv /\ IndexInv /\ WindowInv /\ SlotInv /\ LogInv

-----------------------------------------------------------------------------
(* What a caller asks of its packet.                                       *)
Ask(r) == [kind |-> r.kind, completion |-> r.completion]

(* A packet is accepted by the store of its header, and handed over when   *)
(* the processor takes it.                                                 *)
Accepted(i) == fate[i] \in {"published", "taken"}

accepted == [i \in {j \in Index : Accepted(j)} |-> Ask(asked[i])]
handed == [k \in 1 .. Len(delivered) |-> Ask(delivered[k])]

(* The queue keeps the promise of PacketStream: one order, each packet     *)
(* once and as it was asked for (queue.rs: try_enqueue_packet).            *)
Stream == INSTANCE PacketStream WITH
  Place <- Index, Payload <- {Ask(r) : r \in Requests}

StreamSpec == Stream!Spec

=============================================================================
