--------------------------- MODULE RingQueue_proofs ---------------------------
(***************************************************************************)
(* RingQueue is safe for every number of threads, ring size, kind of queue *)
(* and set of requests; SoftQueue, at the end, for one agent at a time.    *)
(* The argument: an index in the window                                    *)
(* read_index .. read_index + Size - 1 has its slot to itself              *)
(* (SlotInjective); the full check keeps every writer in the window, and   *)
(* an index is reserved once, so a writer is alone in its slot             *)
(* (WindowSeparatesWriters); hence a published packet stays as it is, and  *)
(* the valid header the processor finds at read_index is the packet of     *)
(* that index (TakeStep).  IInv collects these facts.                      *)
(***************************************************************************)
EXTENDS SoftQueue, TLAPS

(* The slot of an index is a slot of the ring: write_index & (size - 1).   *)
LEMMA SlotRange ==
  ASSUME NEW i \in Nat
  PROVE  Slot(i) \in 0 .. Size - 1
BY RingAssumption DEF Slot

(* Indices less than one ring apart have different slots.                  *)
LEMMA SlotInjective ==
  ASSUME NEW i \in Nat, NEW j \in Nat, NEW r \in Nat,
         r <= i, i < r + Size, r <= j, j < r + Size, Slot(i) = Slot(j)
  PROVE  i = j
<1> DEFINE a == i \div Size
           b == j \div Size
<1>0. Size \in Nat /\ Size > 0
  BY RingAssumption
<1>1. a \in Int /\ b \in Int
  BY <1>0
<1>2. i = Size * a + Slot(i) /\ j = Size * b + Slot(j)
  BY <1>0 DEF Slot
<1>3. i - j = Size * a - Size * b
  BY <1>0, <1>1, <1>2 DEF Slot
<1>. HIDE DEF a, b
<1>4. CASE a >= b + 1
  <2>1. Size * a >= Size * (b + 1)
    BY <1>0, <1>1, <1>4
  <2>2. Size * (b + 1) = Size * b + Size
    BY <1>0, <1>1
  <2> QED BY <1>0, <1>1, <1>3, <2>1, <2>2
<1>5. CASE b >= a + 1
  <2>1. Size * b >= Size * (a + 1)
    BY <1>0, <1>1, <1>5
  <2>2. Size * (a + 1) = Size * a + Size
    BY <1>0, <1>1
  <2> QED BY <1>0, <1>1, <1>3, <2>1, <2>2
<1>6. CASE a = b
  BY <1>3, <1>6, <1>0, <1>1
<1> QED BY <1>1, <1>4, <1>5, <1>6

-----------------------------------------------------------------------------
(* Two indices of the window never share a slot, so the invariant already  *)
(* separates the writers from each other and from the waiting packets.     *)
THEOREM WindowSeparatesWriters == IInv => SlotExclusive
<1> SUFFICES ASSUME IInv, NEW p \in Producers, Writing(p)
             PROVE  /\ \A q \in Producers \ {p} :
                         Writing(q) => Slot(idx[p]) # Slot(idx[q])
                    /\ \A i \in Index :
                         fate[i] = "published" => Slot(i) # Slot(idx[p])
  BY DEF SlotExclusive
<1>1. /\ read_index \in Nat /\ Size \in Nat
      /\ \A i \in Index : i \in Nat
  BY RingAssumption DEF IInv, TypeOK, Index
<1>2. ASSUME NEW q \in Producers, Writing(q)
      PROVE  /\ fate[idx[q]] = "reserved" /\ idx[q] \in Nat
             /\ read_index <= idx[q] /\ idx[q] < read_index + Size
  <2>1. fate[idx[q]] = "reserved" /\ idx[q] < read_index + Size
    BY <1>2 DEF IInv, OwnerInv, WindowInv, Writing
  <2>2. idx[q] \in Index /\ idx[q] \in Nat
    BY <1>1 DEF IInv, TypeOK
  <2>3. ~(idx[q] < Taken)
    BY <2>1, <2>2 DEF IInv, IndexInv
  <2> QED BY <2>1, <2>2, <2>3, <1>1 DEF Taken
<1>3. ASSUME NEW i \in Index, fate[i] = "published"
      PROVE  i \in Nat /\ read_index <= i /\ i < read_index + Size
  <2>1. i < read_index + Size
    BY <1>3 DEF IInv, WindowInv
  <2>2. ~(i < Taken)
    BY <1>3 DEF IInv, IndexInv
  <2>3. i \in Nat
    BY <1>1
  <2> QED BY <2>1, <2>2, <2>3, <1>1 DEF Taken
<1>4. ASSUME NEW q \in Producers \ {p}, Writing(q)
      PROVE  Slot(idx[p]) # Slot(idx[q])
  <2>1. idx[p] # idx[q]
    BY <1>4 DEF IInv, OwnerInv, Writing
  <2>2. /\ idx[p] \in Nat /\ idx[q] \in Nat
        /\ read_index <= idx[p] /\ idx[p] < read_index + Size
        /\ read_index <= idx[q] /\ idx[q] < read_index + Size
    BY <1>2, <1>4
  <2> QED BY <2>1, <2>2, <1>1, SlotInjective
<1>5. ASSUME NEW i \in Index, fate[i] = "published"
      PROVE  Slot(i) # Slot(idx[p])
  <2>1. i # idx[p]
    BY <1>2, <1>5
  <2>2. /\ i \in Nat /\ idx[p] \in Nat
        /\ read_index <= idx[p] /\ idx[p] < read_index + Size
        /\ read_index <= i /\ i < read_index + Size
    BY <1>2, <1>3, <1>5
  <2> QED BY <2>1, <2>2, <1>1, SlotInjective
<1> QED BY <1>4, <1>5

(* A new queue satisfies the invariant.                                    *)
LEMMA InitIInv == Init => IInv
<1> SUFFICES ASSUME Init PROVE IInv
  OBVIOUS
<1>1. AnyRequest \in Requests
  BY RingAssumption DEF AnyRequest
<1>2. ring \in [0 .. Size - 1 -> Packet]
  BY DEF Init, Packet
<1>3. asked \in [Index -> Requests] /\ fate \in [Index -> Fates]
  BY <1>1 DEF Init, Fates
<1>4. TypeOK
  <2>1. /\ queue \in Queues
        /\ write_index \in 0 .. MaxIndex /\ read_index \in 0 .. MaxIndex
        /\ doorbell \in Index \cup {-1}
    BY RingAssumption DEF Init
  <2>2. /\ awake \in BOOLEAN /\ proc \in {"ready", "advance"}
        /\ pc \in [Producers -> PCs] /\ result \in [Producers -> Results]
    BY DEF Init, PCs, Results
  <2>3. idx \in [Producers -> Index]
    BY RingAssumption DEF Init, Index
  <2>4. delivered \in Seq([body : Index \cup {-1}, kind : Kinds,
                           completion : Signals \cup {NoSignal}])
    BY DEF Init
  <2> QED BY <1>2, <1>3, <2>1, <2>2, <2>3, <2>4 DEF TypeOK
<1>5. OwnerInv /\ IndexInv /\ WindowInv /\ SlotInv /\ LogInv
  BY RingAssumption DEF Init, OwnerInv, IndexInv, WindowInv, SlotInv, LogInv,
     PublishedIntact, InOrderOnce, Writing, Taken, Index
<1> QED BY <1>4, <1>5 DEF IInv

(* A store to the type of a packet, and one to the rest of it.             *)
LEMMA PacketStores ==
  ASSUME ring \in [0 .. Size - 1 -> Packet], NEW s \in 0 .. Size - 1
  PROVE  /\ \A ty \in Kinds \cup {"invalid"} : [ring EXCEPT ![s].type = ty] \in [0 .. Size - 1 -> Packet]
         /\ \A b \in Index \cup {-1}, c \in Signals \cup {NoSignal} :
              [ring EXCEPT ![s] = [type |-> @.type, body |-> b, completion |-> c]]
                \in [0 .. Size - 1 -> Packet]
<1>1. ASSUME NEW ty \in Kinds \cup {"invalid"} PROVE [ring[s] EXCEPT !.type = ty] \in Packet
  BY DEF Packet
<1>2. ASSUME NEW b \in Index \cup {-1}, NEW c \in Signals \cup {NoSignal}
      PROVE  [type |-> ring[s].type, body |-> b, completion |-> c] \in Packet
  BY DEF Packet
<1> QED BY <1>1, <1>2

(* Types are preserved; the bound on the read index needs IndexInv.        *)
LEMMA TypeStep == IInv /\ [Next]_vars => TypeOK'
<1> SUFFICES ASSUME IInv, [Next]_vars PROVE TypeOK'
  OBVIOUS
<1>. USE DEF producerVars, historyVars, processorVars, OpeningHeader,
             ClosingHeader, DoorbellValue, Fetched
<1>1. TypeOK /\ \A i \in Index : i \in Nat
  BY RingAssumption DEF IInv, Index
<1>2. \A r \in Requests : /\ r.kind \in Kinds
                          /\ r.completion \in Signals \cup {NoSignal}
  BY RingAssumption DEF Request
<1>3. \A p \in Producers : Slot(idx[p]) \in 0 .. Size - 1
  BY <1>1, SlotRange DEF TypeOK
<1>4. ASSUME NEW p \in Producers, NEW r \in Requests, RejectDims(p, r)
      PROVE  TypeOK'
  BY <1>1, <1>4 DEF TypeOK, RejectDims, Results
<1>5. ASSUME NEW p \in Producers, NEW r \in Requests, Reserve(p, r)
      PROVE  TypeOK'
  <2>1. write_index \in Index /\ write_index + 1 \in 0 .. MaxIndex
    BY <1>1, <1>5, RingAssumption DEF TypeOK, Reserve, Index
  <2> QED BY <1>1, <1>5, <2>1 DEF TypeOK, Reserve, Results, PCs, Fates
<1>6. ASSUME NEW p \in Producers, ReturnFull(p)
      PROVE  TypeOK'
  BY <1>1, <1>6 DEF TypeOK, ReturnFull, Results, PCs, Fates
<1>7. ASSUME NEW p \in Producers, Admit(p)
      PROVE  TypeOK'
  BY <1>1, <1>7 DEF TypeOK, Admit, PCs
<1>8. ASSUME NEW p \in Producers, Invalidate(p)
      PROVE  TypeOK'
  <2>1. ring' \in [0 .. Size - 1 -> Packet]
    <3>1. ring' = [ring EXCEPT ![Slot(idx[p])].type = "invalid"]
      BY <1>8 DEF Invalidate
    <3> QED BY <1>1, <1>3, <3>1, PacketStores DEF TypeOK
  <2> QED BY <1>1, <1>8, <2>1 DEF TypeOK, Invalidate, PCs
<1>9. ASSUME NEW p \in Producers, Fill(p)
      PROVE  TypeOK'
  <2>1. ring' \in [0 .. Size - 1 -> Packet]
    <3> DEFINE s == Slot(idx[p])
               c == CompletionField(asked[idx[p]], ring[s].completion)
    <3>1. s \in 0 .. Size - 1 /\ idx[p] \in Index /\ asked[idx[p]] \in Requests /\ ring[s] \in Packet
      BY <1>1, <1>3 DEF TypeOK
    <3>2. c \in Signals \cup {NoSignal}
      BY <1>2, <3>1 DEF CompletionField, Stores, Packet
    <3>3. ring' = [ring EXCEPT ![s] = [type |-> @.type, body |-> idx[p], completion |-> c]]
      BY <1>1, <1>9, <3>1 DEF Fill, TypeOK
    <3>. HIDE DEF s, c
    <3> QED BY <1>1, <3>1, <3>2, <3>3, PacketStores DEF TypeOK
  <2> QED BY <1>1, <1>9, <2>1 DEF TypeOK, Fill, PCs
<1>10. ASSUME NEW p \in Producers, Publish(p)
       PROVE  TypeOK'
  <2>1. ring' \in [0 .. Size - 1 -> Packet]
    <3>1. ring' = [ring EXCEPT ![Slot(idx[p])].type = asked[idx[p]].kind]
      BY <1>10 DEF Publish
    <3>2. asked[idx[p]].kind \in Kinds
      BY <1>1, <1>2 DEF TypeOK
    <3> QED BY <1>1, <1>3, <3>1, <3>2, PacketStores DEF TypeOK
  <2> QED BY <1>1, <1>10, <2>1 DEF TypeOK, Publish, PCs, Fates
<1>11. ASSUME NEW p \in Producers, RingDoorbell(p)
       PROVE  TypeOK'
  BY <1>1, <1>11 DEF TypeOK, RingDoorbell, PCs, Results
<1>12. CASE Take
  <2>1. Slot(read_index) \in 0 .. Size - 1
    BY <1>1, SlotRange DEF TypeOK
  <2>2. HeadPacket \in Packet /\ HeadPacket.type # "invalid"
    BY <1>1, <1>12, <2>1 DEF TypeOK, Take, CanTake, HeadPacket
  <2>3. ring' \in [0 .. Size - 1 -> Packet]
    <3>1. ring' = [ring EXCEPT ![Slot(read_index)].type = "invalid"]
      BY <1>12 DEF Take
    <3> QED BY <1>1, <2>1, <3>1, PacketStores DEF TypeOK
  <2>4. [body |-> HeadPacket.body, kind |-> HeadPacket.type,
         completion |-> HeadPacket.completion]
          \in [body : Index \cup {-1}, kind : Kinds,
               completion : Signals \cup {NoSignal}]
    BY <2>2 DEF Packet
  <2>5. delivered' \in Seq([body : Index \cup {-1}, kind : Kinds,
                            completion : Signals \cup {NoSignal}])
    BY <1>1, <1>12, <2>4 DEF TypeOK, Take
  <2> QED BY <1>1, <1>12, <2>3, <2>5 DEF TypeOK, Take, Fates
<1>13. CASE Advance
  <2>1. read_index + 1 \in 0 .. MaxIndex
    BY <1>1, <1>13, RingAssumption DEF IInv, IndexInv, TypeOK, Advance, Taken
  <2> QED BY <1>1, <1>13, <2>1 DEF TypeOK, Advance
<1>14. CASE Sleep
  BY <1>1, <1>14 DEF TypeOK, Sleep
<1>15. CASE UNCHANGED vars
  BY <1>1, <1>15 DEF TypeOK, vars
<1> QED BY <1>4, <1>5, <1>6, <1>7, <1>8, <1>9, <1>10, <1>11, <1>12, <1>13,
           <1>14, <1>15 DEF Next, InCall, Processor

-----------------------------------------------------------------------------
(* One lemma per step that the safety invariant has to survive.            *)

(* add_write_index_screlease gives the thread an index that nobody has.    *)
LEMMA ReserveStep ==
  ASSUME IInv, NEW p \in Producers, NEW r \in Requests, Reserve(p, r), TypeOK'
  PROVE  IInv'
<1>. USE DEF producerVars, historyVars, processorVars, Fetched
<1>1. TypeOK /\ \A i \in Index : i \in Nat
  BY RingAssumption DEF IInv, Index
<1>2. /\ write_index \in Nat /\ write_index \in Index
      /\ fate[write_index] = "free"
  BY <1>1, RingAssumption DEF IInv, IndexInv, TypeOK, Reserve, Index
<1>3. OwnerInv'
  <2>1. \A q \in Producers \ {p} : pc'[q] = pc[q] /\ idx'[q] = idx[q]
    BY <1>1 DEF TypeOK, Reserve
  <2>2. /\ pc[p] = "idle" /\ pc'[p] = "reserved" /\ idx'[p] = write_index
        /\ fate'[write_index] = "reserved" /\ write_index' = write_index + 1
        /\ \A i \in Index : i # write_index => fate'[i] = fate[i]
    BY <1>1, <1>2 DEF TypeOK, Reserve, MayEnter
  <2>3. \A q \in Producers : pc[q] # "idle" =>
          idx[q] \in Index /\ idx[q] \in Nat /\ idx[q] < write_index
    BY <1>1 DEF IInv, OwnerInv, TypeOK
  <2>4. \A q \in Producers \ {p} :
          pc[q] # "idle" => idx[q] # write_index /\ idx[q] < write_index + 1
    BY <1>2, <2>3
  <2>5. ASSUME NEW q \in Producers
        PROVE  /\ pc'[q] # "idle" => idx'[q] < write_index'
               /\ pc'[q] \in {"reserved", "admitted", "invalidated", "filled"}
                    => fate'[idx'[q]] = "reserved"
    BY <1>2, <2>1, <2>2, <2>3, <2>4 DEF IInv, OwnerInv
  <2>6. ASSUME NEW q1 \in Producers, NEW q2 \in Producers \ {q1},
               pc'[q1] # "idle", pc'[q2] # "idle"
        PROVE  idx'[q1] # idx'[q2]
    BY <2>1, <2>2, <2>4, <2>6 DEF IInv, OwnerInv
  <2> QED BY <2>5, <2>6 DEF OwnerInv
<1>4. IndexInv'
  BY <1>1, <1>2 DEF IInv, IndexInv, TypeOK, Reserve, Taken
<1>5. WindowInv'
  BY <1>1, <1>2 DEF IInv, WindowInv, TypeOK, Reserve, Writing
<1>6. PublishedIntact'
  BY <1>1, <1>2 DEF IInv, SlotInv, PublishedIntact, TypeOK, Reserve
<1>7. SlotInv'
  BY <1>1, <1>2, <1>6 DEF IInv, SlotInv, TypeOK, Reserve
<1>8. LogInv'
  BY DEF IInv, LogInv, InOrderOnce, Taken, Reserve
<1> QED BY <1>3, <1>4, <1>5, <1>7, <1>8 DEF IInv

(* A thread that passes the full check is inside the window; one that      *)
(* fails it leaves its index behind and touches nothing.                   *)
LEMMA CheckStep ==
  ASSUME IInv, NEW p \in Producers, ReturnFull(p) \/ Admit(p), TypeOK'
  PROVE  IInv'
<1>. USE DEF producerVars, historyVars, processorVars
<1>1. TypeOK /\ (\A i \in Index : i \in Nat) /\ Size \in Nat
  BY RingAssumption DEF IInv, Index
<1>2. CASE ReturnFull(p)
  <2>1. idx[p] \in Index /\ fate[idx[p]] = "reserved"
    BY <1>1, <1>2 DEF IInv, OwnerInv, TypeOK, ReturnFull
  <2>2. OwnerInv'
    BY <1>1, <1>2, <2>1 DEF IInv, OwnerInv, TypeOK, ReturnFull
  <2>3. IndexInv'
    BY <1>1, <1>2, <2>1 DEF IInv, IndexInv, TypeOK, ReturnFull, Taken
  <2>4. WindowInv'
    BY <1>1, <1>2, <2>1 DEF IInv, WindowInv, TypeOK, ReturnFull, Writing
  <2>5. PublishedIntact'
    BY <1>1, <1>2, <2>1 DEF IInv, SlotInv, PublishedIntact, TypeOK, ReturnFull
  <2>6. SlotInv'
    BY <1>1, <1>2, <2>1, <2>5 DEF IInv, SlotInv, TypeOK, ReturnFull
  <2>7. LogInv'
    BY <1>2 DEF IInv, LogInv, InOrderOnce, Taken, ReturnFull
  <2> QED BY <2>2, <2>3, <2>4, <2>6, <2>7 DEF IInv
<1>3. CASE Admit(p)
  <2>1. idx[p] < read_index + Size
    <3>1. idx[p] \in Nat /\ read_index \in Nat /\ ~(idx[p] - read_index >= Size)
      BY <1>1, <1>3 DEF Admit, IsFull, TypeOK
    <3> QED BY <3>1, <1>1
  <2>2. OwnerInv'
    BY <1>1, <1>3 DEF IInv, OwnerInv, TypeOK, Admit
  <2>3. IndexInv' /\ LogInv'
    BY <1>3 DEF IInv, IndexInv, LogInv, InOrderOnce, Taken, Admit
  <2>4. WindowInv'
    BY <1>1, <1>3, <2>1 DEF IInv, WindowInv, TypeOK, Admit, Writing
  <2>5. SlotInv'
    BY <1>1, <1>3 DEF IInv, SlotInv, PublishedIntact, TypeOK, Admit
  <2> QED BY <2>2, <2>3, <2>4, <2>5 DEF IInv
<1> QED BY <1>2, <1>3

(* A step that writes the slot of the thread leaves all other slots alone, *)
(* and the window keeps every waiting packet out of that slot.             *)
LEMMA WriteStep ==
  ASSUME IInv, NEW p \in Producers, Invalidate(p) \/ Fill(p), TypeOK'
  PROVE  IInv'
<1>. USE DEF producerVars, historyVars, processorVars, OpeningHeader
<1>1. TypeOK /\ (\A i \in Index : i \in Nat) /\ Size \in Nat
  BY RingAssumption DEF IInv, Index
<1>2. /\ Writing(p) /\ idx[p] \in Index
      /\ \A q \in Producers : Slot(idx[q]) \in 0 .. Size - 1
  BY <1>1, SlotRange DEF Writing, Invalidate, Fill, TypeOK
<1>3. /\ \A q \in Producers \ {p} : Writing(q) => Slot(idx[p]) # Slot(idx[q])
      /\ \A i \in Index : fate[i] = "published" => Slot(i) # Slot(idx[p])
  BY <1>2, WindowSeparatesWriters DEF SlotExclusive
<1>4. /\ UNCHANGED <<idx, fate, asked, write_index, read_index, proc, delivered>>
      /\ \A s \in 0 .. Size - 1 : s # Slot(idx[p]) => ring'[s] = ring[s]
      /\ \A q \in Producers \ {p} : pc'[q] = pc[q]
  BY <1>1, <1>2 DEF Invalidate, Fill, TypeOK
<1>5. /\ ring'[Slot(idx[p])].type = "invalid"
      \/ ring'[Slot(idx[p])].type = ring[Slot(idx[p])].type
  BY <1>1, <1>2 DEF Invalidate, Fill, TypeOK, Packet
<1>6. /\ Writing(p)' /\ pc'[p] \in {"invalidated", "filled"}
      /\ pc'[p] = "filled" => ring'[Slot(idx[p])].body = idx[p]
  BY <1>1, <1>2 DEF Invalidate, Fill, TypeOK, Packet, Writing
<1>7. OwnerInv'
  <2>1. pc[p] \in {"admitted", "invalidated"}
    BY DEF Invalidate, Fill
  <2> QED BY <1>1, <1>4, <1>6, <2>1 DEF IInv, OwnerInv
<1>8. IndexInv' /\ LogInv'
  BY <1>4 DEF IInv, IndexInv, LogInv, InOrderOnce, Taken
<1>9. WindowInv'
  BY <1>2, <1>4 DEF IInv, WindowInv, Writing
<1>10. PublishedIntact'
  <2> SUFFICES ASSUME NEW i \in Index, fate[i] = "published"
               PROVE  ring'[Slot(i)].type = asked[i].kind /\ ring'[Slot(i)].body = i
    BY <1>4 DEF PublishedIntact
  <2>1. Slot(i) \in 0 .. Size - 1 /\ Slot(i) # Slot(idx[p])
    BY <1>1, <1>3, SlotRange
  <2> QED BY <1>4, <2>1 DEF IInv, SlotInv, PublishedIntact
<1>11. ASSUME NEW s \in 0 .. Size - 1, ring'[s].type # "invalid"
       PROVE  \E i \in Index : fate'[i] = "published" /\ Slot(i) = s
  <2>1. ring[s].type # "invalid"
    BY <1>4, <1>5, <1>11
  <2> QED BY <1>4, <2>1 DEF IInv, SlotInv
<1>12. ASSUME NEW q \in Producers, pc'[q] = "filled"
       PROVE  ring'[Slot(idx'[q])].body = idx'[q]
  <2>1. CASE q = p
    BY <1>4, <1>6, <1>12, <2>1
  <2>2. CASE q # p
    <3>1. pc[q] = "filled" /\ Writing(q)
      BY <1>4, <1>12, <2>2 DEF Writing
    <3>2. ring'[Slot(idx[q])] = ring[Slot(idx[q])]
      BY <1>2, <1>3, <1>4, <2>2, <3>1
    <3> QED BY <1>4, <3>1, <3>2 DEF IInv, SlotInv
  <2> QED BY <2>1, <2>2
<1>13. SlotInv'
  BY <1>10, <1>11, <1>12 DEF SlotInv
<1> QED BY <1>7, <1>8, <1>9, <1>13 DEF IInv

(* The final header store makes the thread's slot a waiting packet, and no *)
(* other slot changes.                                                     *)
LEMMA PublishStep ==
  ASSUME IInv, NEW p \in Producers, Publish(p), TypeOK'
  PROVE  IInv'
<1>. USE DEF producerVars, historyVars, processorVars, ClosingHeader
<1>1. TypeOK /\ (\A i \in Index : i \in Nat) /\ Size \in Nat
  BY RingAssumption DEF IInv, Index
<1>2. /\ Writing(p) /\ idx[p] \in Index
      /\ \A q \in Producers : Slot(idx[q]) \in 0 .. Size - 1
  BY <1>1, SlotRange DEF Writing, Publish, TypeOK
<1>3. /\ \A q \in Producers \ {p} : Writing(q) => Slot(idx[p]) # Slot(idx[q])
      /\ \A i \in Index : fate[i] = "published" => Slot(i) # Slot(idx[p])
  BY <1>2, WindowSeparatesWriters DEF SlotExclusive
<1>4. /\ UNCHANGED <<idx, asked, write_index, read_index, proc, delivered>>
      /\ \A s \in 0 .. Size - 1 : s # Slot(idx[p]) => ring'[s] = ring[s]
      /\ \A q \in Producers \ {p} : pc'[q] = pc[q]
      /\ \A i \in Index : i # idx[p] => fate'[i] = fate[i]
  BY <1>1, <1>2 DEF Publish, TypeOK
<1>5. /\ pc[p] = "filled" /\ pc'[p] = "published"
      /\ fate[idx[p]] = "reserved" /\ fate'[idx[p]] = "published"
      /\ ring[Slot(idx[p])].body = idx[p]
  BY <1>1, <1>2 DEF Publish, TypeOK, IInv, OwnerInv, SlotInv
<1>6. /\ ring'[Slot(idx[p])].type = asked[idx[p]].kind
      /\ ring'[Slot(idx[p])].body = idx[p]
  BY <1>1, <1>2, <1>5 DEF Publish, TypeOK, Packet
<1>7. OwnerInv'
  BY <1>1, <1>4, <1>5 DEF IInv, OwnerInv, TypeOK
<1>8. IndexInv' /\ LogInv'
  BY <1>4, <1>5 DEF IInv, IndexInv, LogInv, InOrderOnce, Taken
<1>9. WindowInv'
  BY <1>2, <1>4, <1>5 DEF IInv, WindowInv, Writing
<1>10. PublishedIntact'
  <2> SUFFICES ASSUME NEW i \in Index, fate'[i] = "published"
               PROVE  ring'[Slot(i)].type = asked[i].kind /\ ring'[Slot(i)].body = i
    BY <1>4 DEF PublishedIntact
  <2>1. CASE i = idx[p]
    BY <1>6, <2>1
  <2>2. CASE i # idx[p]
    <3>1. Slot(i) \in 0 .. Size - 1 /\ Slot(i) # Slot(idx[p]) /\ fate[i] = "published"
      BY <1>1, <1>3, <1>4, <2>2, SlotRange
    <3> QED BY <1>4, <3>1 DEF IInv, SlotInv, PublishedIntact
  <2> QED BY <2>1, <2>2
<1>11. ASSUME NEW s \in 0 .. Size - 1, ring'[s].type # "invalid"
       PROVE  \E i \in Index : fate'[i] = "published" /\ Slot(i) = s
  <2>1. CASE s = Slot(idx[p])
    BY <1>2, <1>5, <2>1
  <2>2. CASE s # Slot(idx[p])
    <3>1. PICK i \in Index : fate[i] = "published" /\ Slot(i) = s
      BY <1>4, <1>11, <2>2 DEF IInv, SlotInv
    <3> QED BY <1>4, <2>2, <3>1
  <2> QED BY <2>1, <2>2
<1>12. ASSUME NEW q \in Producers, pc'[q] = "filled"
       PROVE  ring'[Slot(idx'[q])].body = idx'[q]
  <2>1. q # p /\ pc[q] = "filled" /\ Writing(q)
    BY <1>4, <1>5, <1>12 DEF Writing
  <2>2. ring'[Slot(idx[q])] = ring[Slot(idx[q])]
    BY <1>2, <1>3, <1>4, <2>1
  <2> QED BY <1>4, <2>1, <2>2 DEF IInv, SlotInv
<1>13. SlotInv'
  BY <1>10, <1>11, <1>12 DEF SlotInv
<1> QED BY <1>7, <1>8, <1>9, <1>13 DEF IInv

(* After its packet is published a thread only stores the doorbell.        *)
LEMMA DoorbellStep ==
  ASSUME IInv, NEW p \in Producers, RingDoorbell(p), TypeOK'
  PROVE  IInv'
<1>. USE DEF producerVars, historyVars, processorVars
<1>1. TypeOK
  BY DEF IInv
<1>2. OwnerInv' /\ WindowInv'
  BY <1>1 DEF IInv, OwnerInv, WindowInv, Writing, TypeOK, RingDoorbell
<1>3. IndexInv' /\ LogInv'
  BY DEF IInv, IndexInv, LogInv, InOrderOnce, Taken, RingDoorbell
<1>4. SlotInv'
  BY <1>1 DEF IInv, SlotInv, PublishedIntact, TypeOK, RingDoorbell
<1> QED BY <1>2, <1>3, <1>4 DEF IInv

(* A valid header at the read index can only be the packet of that index.  *)
LEMMA TakeFacts ==
  ASSUME IInv, Take
  PROVE  /\ read_index \in Index /\ fate[read_index] = "published"
         /\ Slot(read_index) \in 0 .. Size - 1 /\ Taken = read_index /\ Taken' = read_index + 1
         /\ \A i \in Index : fate[i] = "published" =>
              i \in Nat /\ read_index <= i /\ i < read_index + Size
<1>1. /\ TypeOK /\ (\A i \in Index : i \in Nat) /\ Size \in Nat
      /\ read_index \in Nat /\ Size > 0
  BY RingAssumption DEF IInv, TypeOK, Index
<1>2. Slot(read_index) \in 0 .. Size - 1 /\ Taken = read_index /\ Taken' = read_index + 1
  BY <1>1, SlotRange DEF Take, Taken
<1>3. \A i \in Index : fate[i] = "published" =>
        i \in Nat /\ read_index <= i /\ i < read_index + Size
  BY <1>1, <1>2 DEF IInv, IndexInv, WindowInv
<1>4. PICK i \in Index : fate[i] = "published" /\ Slot(i) = Slot(read_index)
  BY <1>2 DEF IInv, SlotInv, Take, CanTake, HeadPacket
<1>5. i \in Nat /\ read_index <= i /\ i < read_index + Size
  BY <1>3, <1>4
<1>6. i = read_index
  BY <1>1, <1>4, <1>5, SlotInjective
<1> QED BY <1>2, <1>3, <1>4, <1>6

LEMMA TakeStep ==
  ASSUME IInv, Take, TypeOK'
  PROVE  IInv'
<1>. USE DEF producerVars, historyVars, processorVars
<1>1. /\ TypeOK /\ (\A i \in Index : i \in Nat) /\ Size \in Nat
      /\ read_index \in Nat /\ Size > 0
  BY RingAssumption DEF IInv, TypeOK, Index
<1>2. Slot(read_index) \in 0 .. Size - 1 /\ Taken = read_index /\ Taken' = read_index + 1
  BY TakeFacts
<1>3. \A i \in Index : fate[i] = "published" =>
        i \in Nat /\ read_index <= i /\ i < read_index + Size
  BY TakeFacts
<1>4. read_index \in Index /\ fate[read_index] = "published"
  BY TakeFacts
<1>5. \A i \in Index : fate[i] = "published" /\ i # read_index =>
        Slot(i) \in 0 .. Size - 1 /\ Slot(i) # Slot(read_index)
  <2> SUFFICES ASSUME NEW i \in Index, fate[i] = "published", i # read_index,
                      Slot(i) = Slot(read_index)
               PROVE  FALSE
    BY <1>1, SlotRange
  <2>1. i \in Nat /\ read_index <= i /\ i < read_index + Size
    BY <1>3
  <2> QED BY <1>1, <2>1, SlotInjective
<1>6. /\ UNCHANGED <<pc, idx, asked, write_index, read_index>>
      /\ \A s \in 0 .. Size - 1 : /\ ring'[s].body = ring[s].body
                                  /\ s # Slot(read_index) => ring'[s] = ring[s]
      /\ ring'[Slot(read_index)].type = "invalid"
      /\ fate'[read_index] = "taken"
      /\ \A i \in Index : i # read_index => fate'[i] = fate[i]
  <2>1. /\ UNCHANGED <<pc, idx, asked, write_index, read_index>>
        /\ fate' = [fate EXCEPT ![read_index] = "taken"]
        /\ ring' = [ring EXCEPT ![Slot(read_index)].type = "invalid"]
    BY DEF Take
  <2>2. /\ fate'[read_index] = "taken"
        /\ \A i \in Index : i # read_index => fate'[i] = fate[i]
    BY <1>1, <1>4, <2>1 DEF TypeOK
  <2>3. ring'[Slot(read_index)] = [ring[Slot(read_index)] EXCEPT !.type = "invalid"]
    BY <1>1, <1>2, <2>1 DEF TypeOK
  <2>4. /\ ring'[Slot(read_index)].type = "invalid"
        /\ ring'[Slot(read_index)].body = ring[Slot(read_index)].body
    BY <1>1, <1>2, <2>3 DEF TypeOK, Packet
  <2>5. \A s \in 0 .. Size - 1 : s # Slot(read_index) => ring'[s] = ring[s]
    BY <1>1, <2>1 DEF TypeOK
  <2> QED BY <2>1, <2>2, <2>4, <2>5
<1>7. OwnerInv'
  <2>1. \A i \in Index : i # read_index => fate'[i] = fate[i]
    BY <1>6
  <2>2. UNCHANGED <<pc, idx, write_index>> /\ \A p \in Producers : idx[p] \in Index
    BY <1>1, <1>6 DEF TypeOK
  <2> QED BY <1>4, <2>1, <2>2 DEF IInv, OwnerInv
<1>8. IndexInv'
  <2>1. read_index < write_index /\ write_index \in Nat
    BY <1>1, <1>4 DEF IInv, IndexInv, TypeOK
  <2>2. Taken' <= write_index'
    BY <1>1, <1>2, <1>6, <2>1
  <2>3. ASSUME NEW i \in Index
        PROVE  /\ fate'[i] = "free" <=> i >= write_index'
               /\ fate'[i] = "taken" <=> i < Taken'
    <3>1. CASE i = read_index
      BY <1>1, <1>2, <1>6, <2>1, <3>1
    <3>2. CASE i # read_index
      BY <1>1, <1>2, <1>6, <3>2 DEF IInv, IndexInv
    <3> QED BY <3>1, <3>2
  <2> QED BY <2>2, <2>3 DEF IndexInv
<1>9. WindowInv'
  BY <1>1, <1>4, <1>6 DEF IInv, WindowInv, Writing
<1>10. PublishedIntact'
  BY <1>4, <1>5, <1>6 DEF IInv, SlotInv, PublishedIntact
<1>11. ASSUME NEW s \in 0 .. Size - 1, ring'[s].type # "invalid"
       PROVE  \E i \in Index : fate'[i] = "published" /\ Slot(i) = s
  <2>1. s # Slot(read_index)
    BY <1>6, <1>11
  <2>2. PICK i \in Index : fate[i] = "published" /\ Slot(i) = s
    BY <1>6, <1>11, <2>1 DEF IInv, SlotInv
  <2> QED BY <1>6, <2>1, <2>2
<1>12. \A p \in Producers : pc'[p] = "filled" => ring'[Slot(idx'[p])].body = idx'[p]
  <2>1. \A p \in Producers : Slot(idx[p]) \in 0 .. Size - 1
    BY <1>1, SlotRange DEF TypeOK
  <2> QED BY <1>6, <2>1 DEF IInv, SlotInv
<1>13. SlotInv'
  BY <1>10, <1>11, <1>12 DEF SlotInv
<1>14. LogInv'
  <2> DEFINE D == [body : Index \cup {-1}, kind : Kinds,
                   completion : Signals \cup {NoSignal}]
             d == [body |-> HeadPacket.body, kind |-> HeadPacket.type,
                   completion |-> HeadPacket.completion]
  <2>1. /\ delivered' = Append(delivered, d) /\ delivered \in Seq(D)
        /\ Len(delivered) = read_index
    BY <1>1, <1>2 DEF Take, TypeOK, IInv, LogInv
  <2>2. d.body = read_index
    BY <1>4 DEF IInv, SlotInv, PublishedIntact, HeadPacket
  <2>. HIDE DEF d
  <2>3. Len(delivered') = Taken'
    BY <1>1, <1>2, <2>1
  <2>4. ASSUME NEW k \in 1 .. Len(delivered')
        PROVE  delivered'[k].body = k - 1
    <3>1. CASE k = read_index + 1
      BY <1>1, <2>1, <2>2, <3>1
    <3>2. CASE k # read_index + 1
      <4>1. k \in 1 .. Len(delivered) /\ delivered'[k] = delivered[k]
        BY <1>1, <2>1, <3>2
      <4> QED BY <4>1 DEF IInv, LogInv, InOrderOnce
    <3> QED BY <3>1, <3>2
  <2> QED BY <2>3, <2>4 DEF LogInv, InOrderOnce
<1> QED BY <1>7, <1>8, <1>9, <1>13, <1>14 DEF IInv

(* A rejected dispatch, the processor's index store and its sleep disturb  *)
(* nothing: the window only moves up.                                      *)
LEMMA IdleStep ==
  ASSUME IInv, TypeOK',
         \/ \E p \in Producers, r \in Requests : RejectDims(p, r)
         \/ Advance
         \/ Sleep
         \/ UNCHANGED vars
  PROVE  IInv'
<1>. USE DEF producerVars, historyVars, processorVars
<1>1. TypeOK /\ Size \in Nat /\ \A i \in Index : i \in Nat
  BY RingAssumption DEF IInv, Index
<1>2. /\ UNCHANGED <<pc, idx, asked, fate, ring, write_index, delivered, Taken>>
      /\ read_index' >= read_index
  <2>1. read_index \in Nat
    BY <1>1 DEF TypeOK
  <2>2. CASE \E p \in Producers, r \in Requests : RejectDims(p, r)
    BY <2>1, <2>2 DEF RejectDims, Taken
  <2>3. CASE Advance
    BY <2>1, <2>3 DEF Advance, Taken
  <2>4. CASE Sleep
    BY <2>1, <2>4 DEF Sleep, Taken
  <2>5. CASE UNCHANGED vars
    BY <2>1, <2>5 DEF vars, Taken
  <2> QED BY <2>2, <2>3, <2>4, <2>5
<1>3. OwnerInv' /\ IndexInv' /\ SlotInv' /\ LogInv'
  BY <1>2 DEF IInv, OwnerInv, IndexInv, SlotInv, LogInv, PublishedIntact,
     InOrderOnce
<1>4. WindowInv'
  <2>1. read_index \in Nat /\ read_index' \in Nat
    BY <1>1 DEF TypeOK
  <2>2. \A p \in Producers : idx[p] \in Nat
    BY <1>1 DEF TypeOK
  <2> QED BY <1>1, <1>2, <2>1, <2>2 DEF IInv, WindowInv, Writing
<1> QED BY <1>3, <1>4 DEF IInv

(* The invariant is inductive.                                             *)
LEMMA NextIInv == IInv /\ [Next]_vars => IInv'
<1> SUFFICES ASSUME IInv, [Next]_vars PROVE IInv'
  OBVIOUS
<1>1. TypeOK'
  BY TypeStep
<1>2. ASSUME NEW p \in Producers, NEW r \in Requests, Reserve(p, r)
      PROVE  IInv'
  BY <1>1, <1>2, ReserveStep
<1>3. ASSUME NEW p \in Producers, InCall(p)
      PROVE  IInv'
  BY <1>1, <1>3, CheckStep, WriteStep, PublishStep, DoorbellStep DEF InCall
<1>4. CASE Take
  BY <1>1, <1>4, TakeStep
<1>5. CASE \/ \E p \in Producers, r \in Requests : RejectDims(p, r)
           \/ Advance \/ Sleep \/ UNCHANGED vars
  BY <1>1, <1>5, IdleStep
<1> QED BY <1>2, <1>3, <1>4, <1>5 DEF Next, Processor

-----------------------------------------------------------------------------
(* The queue keeps its types for every number of threads, size and bound.  *)
THEOREM TypeCorrect == Spec => []TypeOK
<1>1. IInv => TypeOK
  BY DEF IInv
<1> QED BY <1>1, InitIInv, NextIInv, PTL DEF Spec

(* No thread ever writes a slot another thread writes, or one that holds a *)
(* packet the processor has yet to take.                                   *)
THEOREM SlotsAreExclusive == Spec => []SlotExclusive
BY InitIInv, NextIInv, WindowSeparatesWriters, PTL DEF Spec

(* Published packets wait untouched, and the processor sees them in index  *)
(* order, each exactly once.                                               *)
THEOREM PacketsAreSafe == Spec => [](PublishedIntact /\ InOrderOnce)
<1>1. IInv => PublishedIntact /\ InOrderOnce
  BY DEF IInv, SlotInv, LogInv
<1> QED BY <1>1, InitIInv, NextIInv, PTL DEF Spec

-----------------------------------------------------------------------------
(* What a packet holds is what its caller asked for, from the last plain   *)
(* store on until the processor has it.                                    *)
FilledAsked ==
  \A p \in Producers : pc[p] = "filled" /\ Stores(asked[idx[p]]) =>
    ring[Slot(idx[p])].completion = asked[idx[p]].completion

WaitingAsked ==
  \A i \in Index : fate[i] = "published" /\ Stores(asked[i]) =>
    ring[Slot(i)].completion = asked[i].completion

(* The processor gets the kind and the completion signal that the caller   *)
(* of that index passed, whoever else writes in the ring meanwhile; only a *)
(* barrier that was given no signal may leave an older one in its slot.    *)
PacketsAsAsked ==
  \A k \in 1 .. Len(delivered) :
    /\ delivered[k].kind = asked[k - 1].kind
    /\ Stores(asked[k - 1]) => delivered[k].completion = asked[k - 1].completion

AskedInv == FilledAsked /\ WaitingAsked /\ PacketsAsAsked

LEMMA InitAsked == Init => AskedInv
BY DEF Init, AskedInv, FilledAsked, WaitingAsked, PacketsAsAsked

(* Until the header store only the thread's own slot changes, and with the *)
(* body the completion field is there.                                     *)
LEMMA AskedStep == IInv /\ AskedInv /\ [Next]_vars => AskedInv'
<1> SUFFICES ASSUME IInv, AskedInv, [Next]_vars PROVE AskedInv'
  OBVIOUS
<1>. USE DEF producerVars, historyVars, processorVars
<1>1. /\ TypeOK /\ OwnerInv /\ IndexInv /\ SlotInv /\ LogInv
      /\ (\A i \in Index : i \in Nat /\ Slot(i) \in 0 .. Size - 1) /\ Size \in Nat \ {0}
      /\ \A p \in Producers : idx[p] \in Index /\ Slot(idx[p]) \in 0 .. Size - 1
  <2>1. Size \in Nat \ {0} /\ \A i \in Index : i \in Nat
    BY RingAssumption DEF Index
  <2>2. \A i \in Index : Slot(i) \in 0 .. Size - 1
    BY <2>1, SlotRange
  <2>3. \A p \in Producers : idx[p] \in Index
    BY DEF IInv, TypeOK
  <2> QED BY <2>1, <2>2, <2>3 DEF IInv
<1>2. /\ Len(delivered) \in Nat /\ write_index \in Nat
      /\ \A k \in 1 .. Len(delivered) : k - 1 \in Index /\ k - 1 < write_index
  <2>1. Len(delivered) = Taken /\ Taken <= write_index
    BY <1>1 DEF IndexInv, LogInv
  <2>2. write_index \in 0 .. MaxIndex /\ Taken \in Nat /\ MaxIndex \in Nat
    BY <1>1, RingAssumption DEF TypeOK, Taken
  <2> QED BY <2>1, <2>2 DEF Index
<1>3. ASSUME UNCHANGED <<asked, fate, ring, idx, delivered>>,
             \A p \in Producers : pc'[p] = "filled" => pc[p] = "filled"
      PROVE  AskedInv'
  BY <1>3 DEF AskedInv, FilledAsked, WaitingAsked, PacketsAsAsked
<1>4. ASSUME NEW p \in Producers, NEW r \in Requests, Reserve(p, r) PROVE AskedInv'
  <2>1. /\ write_index \in Index /\ fate[write_index] = "free"
        /\ UNCHANGED <<ring, delivered>>
        /\ \A i \in Index : i # write_index => asked'[i] = asked[i] /\ fate'[i] = fate[i]
        /\ fate'[write_index] = "reserved" /\ pc'[p] = "reserved"
        /\ \A q \in Producers \ {p} : pc'[q] = pc[q] /\ idx'[q] = idx[q]
    <3>1. write_index \in Index
      BY <1>1, <1>4, RingAssumption DEF Reserve, TypeOK, Index
    <3>2. fate[write_index] = "free"
      BY <1>2, <3>1, <1>1 DEF IndexInv
    <3>3. /\ asked' = [asked EXCEPT ![write_index] = r]
          /\ fate' = [fate EXCEPT ![write_index] = "reserved"]
          /\ pc' = [pc EXCEPT ![p] = "reserved"]
          /\ idx' = [idx EXCEPT ![p] = write_index]
          /\ UNCHANGED <<ring, delivered>>
      BY <1>4 DEF Reserve, Fetched
    <3> QED BY <1>1, <3>1, <3>2, <3>3 DEF TypeOK
  <2>2. \A q \in Producers : pc[q] = "filled" => idx[q] # write_index
    BY <1>1, <1>2 DEF OwnerInv
  <2>3. \A k \in 1 .. Len(delivered) : asked'[k - 1] = asked[k - 1]
    BY <1>2, <2>1
  <2>4. FilledAsked'
    BY <1>1, <2>1, <2>2 DEF AskedInv, FilledAsked
  <2>5. WaitingAsked'
    BY <1>1, <2>1 DEF AskedInv, WaitingAsked
  <2>6. PacketsAsAsked'
    BY <2>1, <2>3 DEF AskedInv, PacketsAsAsked
  <2> QED BY <2>4, <2>5, <2>6 DEF AskedInv
<1>5. ASSUME NEW p \in Producers, ReturnFull(p) PROVE AskedInv'
  <2>1. /\ UNCHANGED <<asked, ring, idx, delivered>>
        /\ \A i \in Index : fate'[i] = "published" => fate[i] = "published"
        /\ \A q \in Producers : pc'[q] = "filled" => pc[q] = "filled"
    BY <1>1, <1>5 DEF ReturnFull, TypeOK
  <2> QED BY <2>1 DEF AskedInv, FilledAsked, WaitingAsked, PacketsAsAsked
<1>6. ASSUME NEW p \in Producers, Admit(p) \/ RingDoorbell(p) PROVE AskedInv'
  <2>1. /\ UNCHANGED <<asked, fate, ring, idx, delivered>>
        /\ \A q \in Producers : pc'[q] = "filled" => pc[q] = "filled"
    BY <1>1, <1>6 DEF Admit, RingDoorbell, TypeOK
  <2> QED BY <1>3, <2>1
<1>7. ASSUME NEW p \in Producers, Invalidate(p) \/ Fill(p) PROVE AskedInv'
  <2>1. /\ Writing(p) /\ UNCHANGED <<asked, fate, idx, delivered>>
        /\ \A s \in 0 .. Size - 1 : s # Slot(idx[p]) => ring'[s] = ring[s]
        /\ \A q \in Producers \ {p} : pc'[q] = pc[q]
    BY <1>1, <1>7 DEF Invalidate, Fill, TypeOK, Writing
  <2>2. /\ \A q \in Producers \ {p} : Writing(q) => Slot(idx[p]) # Slot(idx[q])
        /\ \A i \in Index : fate[i] = "published" => Slot(i) # Slot(idx[p])
    BY <2>1, WindowSeparatesWriters DEF SlotExclusive
  <2>3. pc'[p] = "filled" /\ Stores(asked[idx[p]])
          => ring'[Slot(idx[p])].completion = asked[idx[p]].completion
    BY <1>1, <1>7 DEF Invalidate, Fill, TypeOK, CompletionField
  <2>4. \A q \in Producers \ {p} : pc'[q] = "filled" => ring'[Slot(idx[q])] = ring[Slot(idx[q])]
    BY <1>1, <2>1, <2>2 DEF Writing
  <2>5. \A i \in Index : fate[i] = "published" => ring'[Slot(i)] = ring[Slot(i)]
    BY <1>1, <2>1, <2>2
  <2> QED BY <2>1, <2>3, <2>4, <2>5 DEF AskedInv, FilledAsked, WaitingAsked, PacketsAsAsked
<1>8. ASSUME NEW p \in Producers, Publish(p) PROVE AskedInv'
  <2>1. /\ UNCHANGED <<asked, idx, delivered>>
        /\ \A s \in 0 .. Size - 1 : ring'[s].completion = ring[s].completion
        /\ pc[p] = "filled"
        /\ \A q \in Producers : pc'[q] = "filled" => pc[q] = "filled"
        /\ \A i \in Index : i # idx[p] => fate'[i] = fate[i]
    BY <1>1, <1>8 DEF Publish, TypeOK, Packet
  <2>2. FilledAsked'
    BY <1>1, <2>1 DEF AskedInv, FilledAsked
  <2>3. WaitingAsked'
    <3>1. ASSUME NEW i \in Index, fate'[i] = "published", Stores(asked[i])
          PROVE  ring[Slot(i)].completion = asked[i].completion
      <4>1. CASE i = idx[p]
        BY <2>1, <3>1, <4>1 DEF AskedInv, FilledAsked
      <4>2. CASE i # idx[p]
        BY <2>1, <3>1, <4>2 DEF AskedInv, WaitingAsked
      <4> QED BY <4>1, <4>2
    <3> QED BY <1>1, <2>1, <3>1 DEF WaitingAsked
  <2>4. PacketsAsAsked'
    BY <2>1 DEF AskedInv, PacketsAsAsked
  <2> QED BY <2>2, <2>3, <2>4 DEF AskedInv
<1>9. CASE Take
  <2>1. /\ fate[read_index] = "published" /\ read_index \in Index
        /\ Taken = read_index /\ read_index \in Nat
    BY <1>1, <1>9, TakeFacts
  <2>2. /\ UNCHANGED <<asked, pc, idx>>
        /\ \A i \in Index : fate'[i] = "published" => fate[i] = "published"
        /\ \A s \in 0 .. Size - 1 : ring'[s].completion = ring[s].completion
    BY <1>1, <1>9, <2>1 DEF Take, TypeOK, Packet
  <2>3. /\ HeadPacket.type = asked[read_index].kind
        /\ Stores(asked[read_index]) => HeadPacket.completion = asked[read_index].completion
    BY <1>1, <2>1 DEF AskedInv, WaitingAsked, SlotInv, PublishedIntact, HeadPacket
  <2>4. ASSUME NEW k \in 1 .. Len(delivered')
        PROVE  /\ delivered'[k].kind = asked[k - 1].kind
               /\ Stores(asked[k - 1]) => delivered'[k].completion = asked[k - 1].completion
    <3> DEFINE d == [body |-> HeadPacket.body, kind |-> HeadPacket.type,
                     completion |-> HeadPacket.completion]
    <3>1. /\ delivered' = Append(delivered, d) /\ Len(delivered) = read_index
          /\ d.kind = HeadPacket.type /\ d.completion = HeadPacket.completion
      BY <1>1, <1>9, <2>1 DEF Take, LogInv
    <3>2. \E D : delivered \in Seq(D) /\ d \in D
      <4>1. HeadPacket \in Packet /\ HeadPacket.type # "invalid"
        BY <1>1, <1>9, TakeFacts DEF TypeOK, HeadPacket, Take, CanTake
      <4>2. d \in [body : Index \cup {-1}, kind : Kinds, completion : Signals \cup {NoSignal}]
        BY <4>1 DEF Packet
      <4> QED BY <1>1, <4>2 DEF TypeOK
    <3>. HIDE DEF d
    <3>3. CASE k = read_index + 1
      BY <2>1, <2>3, <3>1, <3>2, <3>3
    <3>4. CASE k # read_index + 1
      <4>1. k \in 1 .. Len(delivered) /\ delivered'[k] = delivered[k]
        BY <2>1, <3>1, <3>2, <3>4
      <4> QED BY <4>1 DEF AskedInv, PacketsAsAsked
    <3> QED BY <3>3, <3>4
  <2> QED BY <1>1, <2>2, <2>4 DEF AskedInv, FilledAsked, WaitingAsked, PacketsAsAsked
<1>10. CASE Advance \/ Sleep \/ UNCHANGED vars
           \/ \E p \in Producers, r \in Requests : RejectDims(p, r)
  <2>1. UNCHANGED <<asked, fate, ring, idx, delivered, pc>>
    BY <1>10 DEF Advance, Sleep, vars, RejectDims
  <2> QED BY <1>3, <2>1
<1> QED
  BY <1>4, <1>5, <1>6, <1>7, <1>8, <1>9, <1>10 DEF Next, InCall, Processor

(* A packet is handed over as it was asked for, but for the signal of a    *)
(* barrier that was given none (if let Some(signal) = completion).         *)
THEOREM DeliveredAsAsked == Spec => []PacketsAsAsked
<1>1. IInv /\ AskedInv => PacketsAsAsked
  BY DEF AskedInv
<1> QED BY <1>1, InitIInv, NextIInv, InitAsked, AskedStep, PTL DEF Spec

-----------------------------------------------------------------------------
(* The refinement: the store of the header is Accept, the take is Hand.    *)

LEMMA InitStream == Init => Stream!Init
<1> SUFFICES ASSUME Init PROVE accepted = <<>> /\ handed = <<>>
  BY DEF Stream!Init
<1>1. {j \in Index : Accepted(j)} = {}
  BY DEF Init, Accepted
<1>2. accepted = <<>>
  BY <1>1 DEF accepted
<1>3. handed = <<>>
  BY DEF Init, handed
<1> QED BY <1>2, <1>3

(* Steps that accept nothing and hand over nothing.                        *)
LEMMA StreamStutters ==
  ASSUME UNCHANGED delivered,
         \A i \in Index : Accepted(i)' <=> Accepted(i),
         \A i \in Index : Accepted(i) => asked'[i] = asked[i]
  PROVE  accepted' = accepted /\ handed' = handed
<1>1. {j \in Index : Accepted(j)}' = {j \in Index : Accepted(j)}
  OBVIOUS
<1>2. accepted' = accepted
  BY <1>1 DEF accepted
<1> QED BY <1>2 DEF handed

LEMMA PublishAccepts ==
  ASSUME IInv, NEW p \in Producers, Publish(p)
  PROVE  \E i \in Index, r \in {Ask(q) : q \in Requests} : Stream!Accept(i, r)
<1>1. /\ idx[p] \in Index /\ asked \in [Index -> Requests] /\ fate \in [Index -> Fates]
      /\ fate[idx[p]] = "reserved"
  BY DEF IInv, TypeOK, OwnerInv, Publish
<1>2. /\ fate' = [fate EXCEPT ![idx[p]] = "published"]
      /\ asked' = asked /\ delivered' = delivered
  BY DEF Publish, processorVars
<1>3. /\ ~Accepted(idx[p])
      /\ \A i \in Index : Accepted(i)' <=> (i = idx[p] \/ Accepted(i))
  <2>1. \A i \in Index : fate'[i] = IF i = idx[p] THEN "published" ELSE fate[i]
    BY <1>1, <1>2
  <2> QED BY <1>1, <2>1 DEF Accepted
<1>4. {j \in Index : Accepted(j)}' = {j \in Index : Accepted(j)} \cup {idx[p]}
  BY <1>1, <1>3
<1>5. DOMAIN accepted = {j \in Index : Accepted(j)} /\ idx[p] \notin DOMAIN accepted
  BY <1>3 DEF accepted
<1>6. accepted' = [j \in DOMAIN accepted \cup {idx[p]} |->
                     IF j = idx[p] THEN Ask(asked[idx[p]]) ELSE accepted[j]]
  BY <1>2, <1>4, <1>5 DEF accepted
<1>7. handed' = handed
  BY <1>2 DEF handed
<1>8. Stream!Accept(idx[p], Ask(asked[idx[p]]))
  BY <1>1, <1>5, <1>6, <1>7 DEF Stream!Accept
<1> QED BY <1>1, <1>8

LEMMA TakeHands ==
  ASSUME IInv, AskedInv, \A r \in Requests : Stores(r), Take
  PROVE  Stream!Hand
<1>1. /\ read_index \in Index /\ fate[read_index] = "published" /\ Taken = read_index
      /\ read_index \in Nat /\ fate \in [Index -> Fates]
      /\ Len(delivered) = read_index /\ asked[read_index] \in Requests
  BY TakeFacts DEF IInv, TypeOK, LogInv
<1> DEFINE d == [body |-> HeadPacket.body, kind |-> HeadPacket.type,
                 completion |-> HeadPacket.completion]
           D == [body : Index \cup {-1}, kind : Kinds, completion : Signals \cup {NoSignal}]
<1>2. /\ delivered' = Append(delivered, d) /\ asked' = asked
      /\ fate' = [fate EXCEPT ![read_index] = "taken"]
  BY DEF Take
<1>3. delivered \in Seq(D) /\ d \in D
  <2>1. HeadPacket \in Packet /\ HeadPacket.type # "invalid"
    BY TakeFacts DEF IInv, TypeOK, HeadPacket, Take, CanTake
  <2> QED BY <2>1 DEF IInv, TypeOK, Packet
<1>4. Ask(d) = Ask(asked[read_index])
  <2>1. HeadPacket.type = asked[read_index].kind
    BY <1>1 DEF IInv, SlotInv, PublishedIntact, HeadPacket
  <2>2. HeadPacket.completion = asked[read_index].completion
    BY <1>1 DEF AskedInv, WaitingAsked, HeadPacket
  <2> QED BY <2>1, <2>2 DEF Ask
<1>. HIDE DEF d, D
<1>5. \A i \in Index : Accepted(i)' <=> Accepted(i)
  BY <1>1, <1>2 DEF Accepted
<1>6. {j \in Index : Accepted(j)}' = {j \in Index : Accepted(j)}
  BY <1>5
<1>7. accepted' = accepted
  BY <1>2, <1>6 DEF accepted
<1>8. Len(handed) \in DOMAIN accepted /\ accepted[Len(handed)] = Ask(d)
  <2>1. Len(handed) = read_index
    BY <1>1 DEF handed
  <2>2. read_index \in {j \in Index : Accepted(j)}
    BY <1>1 DEF Accepted
  <2> QED BY <1>4, <2>1, <2>2 DEF accepted
<1>9. handed' = Append(handed, Ask(d))
  <2>1. Len(delivered') = read_index + 1 /\ delivered'[read_index + 1] = d
        /\ \A k \in 1 .. read_index : delivered'[k] = delivered[k]
    BY <1>1, <1>2, <1>3
  <2>2. handed' = [k \in 1 .. read_index + 1 |-> Ask(delivered'[k])]
    BY <2>1 DEF handed
  <2>3. handed = [k \in 1 .. read_index |-> Ask(delivered[k])]
    BY <1>1 DEF handed
  <2>4. Append(handed, Ask(d)) = [k \in 1 .. read_index + 1 |->
                                    IF k = read_index + 1 THEN Ask(d) ELSE Ask(delivered[k])]
    BY <1>1, <2>3
  <2> QED BY <1>1, <2>1, <2>2, <2>4
<1> QED BY <1>7, <1>8, <1>9 DEF Stream!Hand

LEMMA StreamStep ==
  ASSUME IInv, AskedInv, \A r \in Requests : Stores(r), [Next]_vars
  PROVE  [Stream!Next]_<<accepted, handed>>
<1>. USE DEF producerVars, historyVars, processorVars
<1>1. /\ idx \in [Producers -> Index] /\ fate \in [Index -> Fates]
      /\ asked \in [Index -> Requests] /\ write_index \in 0 .. MaxIndex
  BY DEF IInv, TypeOK
<1>2. ASSUME NEW p \in Producers, NEW r \in Requests, Reserve(p, r)
      PROVE  UNCHANGED <<accepted, handed>>
  <2>1. write_index \in Index /\ fate[write_index] = "free"
    <3>1. write_index \in Index /\ write_index >= write_index
      BY <1>1, <1>2, RingAssumption DEF Reserve, Index
    <3> QED BY <3>1 DEF IInv, IndexInv
  <2>2. /\ \A i \in Index : i # write_index => fate'[i] = fate[i] /\ asked'[i] = asked[i]
        /\ fate'[write_index] = "reserved" /\ delivered' = delivered
    BY <1>1, <1>2, <2>1 DEF Reserve
  <2>3. \A i \in Index : (Accepted(i)' <=> Accepted(i)) /\ (Accepted(i) => asked'[i] = asked[i])
    BY <2>1, <2>2 DEF Accepted
  <2> QED BY <2>2, <2>3, StreamStutters
<1>3. ASSUME NEW p \in Producers, ReturnFull(p) PROVE UNCHANGED <<accepted, handed>>
  <2>1. fate[idx[p]] = "reserved" /\ idx[p] \in Index
    BY <1>1, <1>3 DEF IInv, OwnerInv, ReturnFull
  <2>2. /\ fate' = [fate EXCEPT ![idx[p]] = "abandoned"]
        /\ asked' = asked /\ delivered' = delivered
    BY <1>3 DEF ReturnFull
  <2>3. \A i \in Index : Accepted(i)' <=> Accepted(i)
    BY <1>1, <2>1, <2>2 DEF Accepted
  <2> QED BY <2>2, <2>3, StreamStutters
<1>4. ASSUME UNCHANGED <<fate, asked, delivered>> PROVE UNCHANGED <<accepted, handed>>
  BY <1>4, StreamStutters DEF Accepted
<1>5. ASSUME NEW p \in Producers, Admit(p) \/ Invalidate(p) \/ Fill(p) \/ RingDoorbell(p)
      PROVE  UNCHANGED <<accepted, handed>>
  <2>1. UNCHANGED <<fate, asked, delivered>>
    BY <1>5 DEF Admit, Invalidate, Fill, RingDoorbell
  <2> QED BY <1>4, <2>1
<1>6. ASSUME NEW p \in Producers, Publish(p) PROVE Stream!Next
  BY <1>6, PublishAccepts DEF Stream!Next
<1>7. CASE Take
  BY <1>7, TakeHands DEF Stream!Next
<1>8. CASE Advance \/ Sleep \/ UNCHANGED vars
           \/ \E p \in Producers, r \in Requests : RejectDims(p, r)
  <2>1. UNCHANGED <<fate, asked, delivered>>
    BY <1>8 DEF Advance, Sleep, vars, RejectDims
  <2> QED BY <1>4, <2>1
<1> QED
  BY <1>2, <1>3, <1>5, <1>6, <1>7, <1>8 DEF Next, InCall, Processor

(* The ring implements the stream of packets it promises to its callers,   *)
(* for any number of threads, slots and packets, as long as every barrier  *)
(* is given a completion signal; one without may hand over the signal that *)
(* an older packet left in its slot.                                       *)
THEOREM ImplementsStream ==
  ASSUME \A r \in Requests : Stores(r)
  PROVE  Spec => StreamSpec
<1>1. IInv /\ AskedInv /\ [Next]_vars => [Stream!Next]_<<accepted, handed>>
  BY StreamStep
<1> QED
  BY <1>1, InitIInv, NextIInv, InitAsked, AskedStep, InitStream, PTL
  DEF Spec, StreamSpec, Stream!Spec

-----------------------------------------------------------------------------
(* SoftQueue, of which one agent at a time is the producer.  process()     *)
(* never looks at a header: that the packet at its read index is whole     *)
(* follows from the doorbell, which the agent stores after its header, and *)
(* which says so because indices are published in their order.             *)

(* Below this index packets are done with.                                 *)
Cleared == IF proc = "advance" THEN next + 1 ELSE next

SoftTyped ==
  /\ queue \in Queues /\ write_index \in 0 .. MaxIndex
  /\ next \in 0 .. MaxIndex /\ read_index = next
  /\ doorbell \in Int /\ proc \in SoftSteps
  /\ ring \in [0 .. Size - 1 -> Packet]
  /\ pc \in [Producers -> PCs] /\ idx \in [Producers -> Index]
  /\ asked \in [Index -> Requests] /\ fate \in [Index -> Fates]
  /\ delivered \in Seq([body : Index \cup {-1}, kind : Kinds \cup {"invalid"},
                        completion : Signals \cup {NoSignal}])

(* The agent in a call has the last index, and the doorbell tells of those *)
(* before it.                                                              *)
OneAgent ==
  /\ \A p, q \in Producers : pc[p] # "idle" /\ pc[q] # "idle" => p = q
  /\ \A p \in Producers : pc[p] # "idle" =>
       idx[p] = write_index - 1 /\ doorbell = write_index - 2
  /\ (\A p \in Producers : pc[p] = "idle") => doorbell = write_index - 1

(* process() has come no further than the doorbell.                        *)
BehindDoorbell ==
  /\ Cleared <= doorbell + 1
  /\ proc \in {"process", "complete", "clear"} => next <= doorbell

Reserved(p) == pc[p] \in {"reserved", "admitted", "invalidated", "filled"}

(* What became of an index.                                                *)
SoftFate ==
  \A i \in Index :
    /\ fate[i] = "taken" <=> i < Cleared
    /\ fate[i] = "free" <=> i >= write_index
    /\ fate[i] = "reserved" <=> \E p \in Producers : Reserved(p) /\ idx[p] = i
    /\ fate[i] # "abandoned"

(* A published packet lies in its slot as its agent asked for it.          *)
SoftSlots ==
  /\ \A i \in Index : fate[i] = "published" =>
       /\ i < next + Size
       /\ ring[Slot(i)] = [type |-> asked[i].kind, body |-> i,
                           completion |-> asked[i].completion]
  /\ \A p \in Producers :
       /\ Writing(p) => idx[p] < next + Size
       /\ pc[p] = "filled" => /\ ring[Slot(idx[p])].body = idx[p]
                              /\ ring[Slot(idx[p])].completion = asked[idx[p]].completion

SoftLog ==
  /\ Len(delivered) = next + (IF proc \in {"complete", "clear", "advance"} THEN 1 ELSE 0)
  /\ ProcessedAsAsked

SoftInv ==
  SoftTyped /\ OneAgent /\ BehindDoorbell /\ SoftFate /\ SoftSlots /\ SoftLog

(* The agents write below the doorbell no more.                            *)
LEMMA SoftFacts ==
  ASSUME SoftInv
  PROVE  /\ Size \in Nat /\ Size > 0 /\ MaxIndex \in Nat
         /\ write_index \in Nat /\ write_index <= MaxIndex
         /\ next \in Nat /\ Cleared \in Nat /\ next <= Cleared /\ Cleared <= write_index
         /\ doorbell \in Int /\ doorbell < write_index
         /\ Len(delivered) \in Nat /\ Len(delivered) <= doorbell + 1
         /\ \A i \in Index : i \in Nat /\ i < MaxIndex
<1>1. /\ Size \in Nat /\ Size > 0 /\ MaxIndex \in Nat
      /\ write_index \in Nat /\ write_index <= MaxIndex
      /\ next \in Nat /\ doorbell \in Int
      /\ \A i \in Index : i \in Nat /\ i < MaxIndex
  BY RingAssumption DEF SoftInv, SoftTyped, Index
<1>2. doorbell < write_index
  BY <1>1 DEF SoftInv, OneAgent
<1>3. Cleared \in Nat /\ next <= Cleared /\ Cleared <= doorbell + 1
  BY <1>1 DEF SoftInv, BehindDoorbell, Cleared
<1>4. Len(delivered) \in Nat /\ Len(delivered) <= doorbell + 1
  BY <1>1, <1>3 DEF SoftInv, SoftLog, BehindDoorbell, Cleared
<1> QED BY <1>1, <1>2, <1>3, <1>4

(* Packets of one window of the ring do not share a slot.                  *)
LEMMA SoftApart ==
  ASSUME SoftInv, NEW i \in Index, NEW j \in Index, i # j,
         next <= i, i < next + Size, next <= j, j < next + Size
  PROVE  Slot(i) # Slot(j)
BY SoftFacts, SlotInjective

(* Whatever waits or is being written has not been cleared.                *)
LEMMA SoftWindow ==
  ASSUME SoftInv
  PROVE  /\ \A i \in Index : fate[i] = "published" =>
              next <= i /\ i < next + Size /\ Slot(i) \in 0 .. Size - 1
         /\ \A p \in Producers : pc[p] # "idle" =>
              /\ idx[p] \in Index /\ idx[p] \in Nat /\ Slot(idx[p]) \in 0 .. Size - 1
              /\ idx[p] = doorbell + 1 /\ next <= idx[p] /\ Cleared <= idx[p]
              /\ Reserved(p) => fate[idx[p]] = "reserved"
<1>1. ASSUME NEW i \in Index, fate[i] = "published"
      PROVE  next <= i /\ i < next + Size /\ Slot(i) \in 0 .. Size - 1
  <2>1. ~(i < Cleared) /\ i < next + Size
    BY <1>1 DEF SoftInv, SoftFate, SoftSlots
  <2>2. i \in Nat
    BY SoftFacts
  <2>3. next <= i
    BY <2>1, <2>2, SoftFacts
  <2> QED BY <2>1, <2>2, <2>3, SlotRange
<1>2. ASSUME NEW p \in Producers, pc[p] # "idle"
      PROVE  /\ idx[p] \in Index /\ idx[p] \in Nat /\ Slot(idx[p]) \in 0 .. Size - 1
             /\ idx[p] = doorbell + 1 /\ next <= idx[p] /\ Cleared <= idx[p]
             /\ Reserved(p) => fate[idx[p]] = "reserved"
  <2>1. idx[p] \in Index /\ idx[p] = doorbell + 1
    BY <1>2, SoftFacts DEF SoftInv, SoftTyped, OneAgent
  <2>2. idx[p] \in Nat
    BY <2>1, SoftFacts
  <2>3. Cleared <= idx[p] /\ next <= idx[p]
    BY <2>1, <2>2, SoftFacts DEF SoftInv, BehindDoorbell
  <2>4. Reserved(p) => fate[idx[p]] = "reserved"
    BY <2>1 DEF SoftInv, SoftFate
  <2> QED BY <2>1, <2>2, <2>3, <2>4, SlotRange
<1> QED BY <1>1, <1>2

(* A step of the agent leaves the log as it is.                            *)
LEMMA AgentKeepsLog ==
  ASSUME SoftInv, UNCHANGED <<next, proc, delivered>>,
         \A i \in Index : i < write_index => asked'[i] = asked[i]
  PROVE  SoftLog' /\ Cleared' = Cleared
<1>1. Cleared' = Cleared
  BY DEF Cleared
<1>2. ASSUME NEW k \in 1 .. Len(delivered)
      PROVE  asked'[k - 1] = asked[k - 1]
  <2>1. k - 1 \in Index /\ k - 1 < write_index
    BY SoftFacts DEF Index
  <2> QED BY <2>1
<1> QED BY <1>1, <1>2 DEF SoftInv, SoftLog, ProcessedAsAsked

LEMMA SoftInitInv ==
  ASSUME \A q \in Queues : ~q.sync PROVE SoftInit => SoftInv
<1> SUFFICES ASSUME SoftInit PROVE SoftInv
  OBVIOUS
<1>1. Init /\ next = 0 /\ IInv
  BY InitIInv DEF SoftInit
<1>2. SoftTyped
  <2>1. delivered \in Seq([body : Index \cup {-1}, kind : Kinds \cup {"invalid"},
                           completion : Signals \cup {NoSignal}])
    BY <1>1 DEF Init
  <2>2. TypeOK /\ read_index = next /\ next \in 0 .. MaxIndex /\ proc = "ready" /\ doorbell = -1
    BY <1>1, RingAssumption DEF IInv, Init
  <2>3. proc \in SoftSteps /\ doorbell \in Int
    BY <2>2 DEF SoftSteps
  <2> QED BY <2>1, <2>2, <2>3 DEF TypeOK, SoftTyped
<1>3. OneAgent /\ BehindDoorbell /\ SoftFate /\ SoftSlots
  BY <1>1, RingAssumption DEF Init, OneAgent, BehindDoorbell, SoftFate, SoftSlots, Cleared,
     Reserved, Writing, Index
<1>4. SoftLog
  BY <1>1 DEF Init, SoftLog, ProcessedAsAsked
<1> QED BY <1>2, <1>3, <1>4 DEF SoftInv

LEMMA AgentReserves ==
  ASSUME \A q \in Queues : ~q.sync, SoftInv,
         NEW p \in Producers, NEW r \in Requests, AgentReserve(p, r)
  PROVE  SoftInv'
<1>1. /\ \A q \in Producers : pc[q] = "idle"
      /\ write_index < MaxIndex /\ write_index' = write_index + 1
      /\ idx' = [idx EXCEPT ![p] = write_index] /\ pc' = [pc EXCEPT ![p] = "reserved"]
      /\ asked' = [asked EXCEPT ![write_index] = r]
      /\ fate' = [fate EXCEPT ![write_index] = "reserved"]
      /\ UNCHANGED <<queue, doorbell, ring, read_index, awake, proc, delivered, next, completed>>
  BY DEF AgentReserve, Reserve, MayEnter, Fetched, processorVars, softVars, SoftInv, SoftTyped
<1>2. write_index \in Index /\ doorbell = write_index - 1
  BY <1>1, SoftFacts DEF SoftInv, OneAgent, Index
<1>3. SoftTyped'
  BY <1>1, <1>2, SoftFacts DEF SoftInv, SoftTyped, PCs, Fates
<1>4. SoftLog' /\ Cleared' = Cleared
  BY <1>1, <1>2, SoftFacts, AgentKeepsLog DEF SoftInv, SoftTyped
<1>5. /\ pc'[p] = "reserved" /\ idx'[p] = write_index
      /\ \A q \in Producers \ {p} : pc'[q] = "idle"
      /\ fate'[write_index] = "reserved"
      /\ \A i \in Index \ {write_index} : fate'[i] = fate[i] /\ asked'[i] = asked[i]
  BY <1>1, <1>2 DEF SoftInv, SoftTyped
<1>6. OneAgent'
  BY <1>1, <1>2, <1>5, SoftFacts DEF OneAgent
<1>7. BehindDoorbell'
  BY <1>1, <1>4 DEF SoftInv, BehindDoorbell
<1>8. SoftFate'
  BY <1>1, <1>2, <1>4, <1>5, SoftFacts DEF SoftInv, SoftFate, Reserved
<1>9. SoftSlots'
  BY <1>1, <1>2, <1>5 DEF SoftInv, SoftSlots, Writing
<1> QED BY <1>3, <1>4, <1>6, <1>7, <1>8, <1>9 DEF SoftInv

(* Steps of the agent in its call: to the check, and into its slot.        *)
LEMMA AgentAdmits ==
  ASSUME SoftInv, NEW p \in Producers, Admit(p), UNCHANGED softVars
  PROVE  SoftInv'
<1>1. /\ pc[p] = "reserved" /\ idx[p] - next < Size /\ pc' = [pc EXCEPT ![p] = "admitted"]
      /\ UNCHANGED <<queue, write_index, doorbell, ring, idx, asked, fate, read_index, proc, delivered, next>>
  BY SoftFacts, SoftWindow DEF Admit, IsFull, historyVars, processorVars, softVars, SoftInv, SoftTyped
<1>2. /\ pc'[p] = "admitted"
      /\ \A q \in Producers \ {p} : pc'[q] = pc[q]
  BY <1>1 DEF SoftInv, SoftTyped
<1>3. SoftTyped'
  BY <1>1 DEF SoftInv, SoftTyped, PCs
<1>4. SoftLog' /\ Cleared' = Cleared
  BY <1>1, AgentKeepsLog
<1>5. OneAgent' /\ BehindDoorbell'
  BY <1>1, <1>2, <1>4 DEF SoftInv, OneAgent, BehindDoorbell
<1>6. SoftFate'
  BY <1>1, <1>2, <1>4 DEF SoftInv, SoftFate, Reserved
<1>7. SoftSlots'
  <2>1. idx[p] < next + Size
    BY <1>1, SoftFacts, SoftWindow
  <2> QED BY <1>1, <1>2, <2>1 DEF SoftInv, SoftSlots, Writing
<1> QED BY <1>3, <1>4, <1>5, <1>6, <1>7 DEF SoftInv

(* A step that stores to the agent's own slot, and to no header of a       *)
(* waiting packet.                                                         *)
LEMMA AgentWrites ==
  ASSUME SoftInv, NEW p \in Producers, Writing(p), NEW to \in {"invalidated", "filled"},
         pc' = [pc EXCEPT ![p] = to], ring' \in [0 .. Size - 1 -> Packet],
         \A s \in 0 .. Size - 1 : s # Slot(idx[p]) => ring'[s] = ring[s],
         to = "filled" => /\ ring'[Slot(idx[p])].body = idx[p]
                          /\ ring'[Slot(idx[p])].completion = asked[idx[p]].completion,
         UNCHANGED <<queue, write_index, doorbell, idx, asked, fate, read_index, proc, delivered, next>>
  PROVE  SoftInv'
<1>1. /\ pc'[p] = to /\ pc[p] # "idle"
      /\ \A q \in Producers \ {p} : pc'[q] = pc[q] /\ pc[q] = "idle"
  BY DEF SoftInv, SoftTyped, OneAgent, Writing
<1>2. SoftTyped'
  BY DEF SoftInv, SoftTyped, PCs
<1>3. SoftLog' /\ Cleared' = Cleared
  BY AgentKeepsLog
<1>4. OneAgent' /\ BehindDoorbell'
  BY <1>1, <1>3 DEF SoftInv, OneAgent, BehindDoorbell
<1>5. SoftFate'
  BY <1>1, <1>3 DEF SoftInv, SoftFate, Reserved, Writing
<1>6. SoftSlots'
  <2>1. idx[p] < next + Size
    BY DEF SoftInv, SoftSlots
  <2>2. ASSUME NEW i \in Index, fate[i] = "published"
        PROVE  ring'[Slot(i)] = ring[Slot(i)]
    <3>1. i # idx[p]
      BY <1>1, <2>2, SoftWindow DEF Reserved, Writing
    <3>2. Slot(i) # Slot(idx[p]) /\ Slot(i) \in 0 .. Size - 1
      BY <1>1, <2>1, <2>2, <3>1, SoftWindow, SoftApart
    <3> QED BY <3>2
  <2>3. \A i \in Index : fate[i] = "published" =>
          /\ i < next + Size
          /\ ring'[Slot(i)] = [type |-> asked[i].kind, body |-> i,
                               completion |-> asked[i].completion]
    BY <2>2 DEF SoftInv, SoftSlots
  <2> QED BY <1>1, <2>1, <2>3 DEF SoftSlots, Writing
<1> QED BY <1>2, <1>3, <1>4, <1>5, <1>6 DEF SoftInv

LEMMA AgentInvalidates ==
  ASSUME SoftInv, NEW p \in Producers, Invalidate(p), UNCHANGED softVars
  PROVE  SoftInv'
<1>1. Writing(p) /\ pc[p] # "idle" /\ Slot(idx[p]) \in 0 .. Size - 1
  BY SoftWindow DEF Invalidate, Writing
<1>2. ring' = [ring EXCEPT ![Slot(idx[p])].type = "invalid"]
  BY DEF Invalidate, OpeningHeader
<1>3. ring' \in [0 .. Size - 1 -> Packet]
  BY <1>1, <1>2, PacketStores DEF SoftInv, SoftTyped
<1>4. \A s \in 0 .. Size - 1 : s # Slot(idx[p]) => ring'[s] = ring[s]
  BY <1>2 DEF SoftInv, SoftTyped
<1> QED BY <1>1, <1>3, <1>4, AgentWrites DEF Invalidate, historyVars, processorVars, softVars

LEMMA AgentFills ==
  ASSUME \A r \in Requests : Stores(r), SoftInv, NEW p \in Producers, Fill(p), UNCHANGED softVars
  PROVE  SoftInv'
<1>1. /\ Writing(p) /\ pc[p] # "idle" /\ Slot(idx[p]) \in 0 .. Size - 1
      /\ idx[p] \in Index /\ asked[idx[p]] \in Requests
  BY SoftWindow DEF Fill, Writing, SoftInv, SoftTyped
<1>2. asked[idx[p]].completion \in Signals \cup {NoSignal}
  BY <1>1, RingAssumption DEF Request
<1>3. ring' = [ring EXCEPT ![Slot(idx[p])] =
                 [type |-> @.type, body |-> idx[p], completion |-> asked[idx[p]].completion]]
  BY <1>1 DEF Fill, CompletionField
<1>4. ring' \in [0 .. Size - 1 -> Packet]
  BY <1>1, <1>2, <1>3, PacketStores DEF SoftInv, SoftTyped
<1>5. /\ ring'[Slot(idx[p])].body = idx[p]
      /\ ring'[Slot(idx[p])].completion = asked[idx[p]].completion
      /\ \A s \in 0 .. Size - 1 : s # Slot(idx[p]) => ring'[s] = ring[s]
  BY <1>1, <1>3 DEF SoftInv, SoftTyped
<1> QED BY <1>1, <1>4, <1>5, AgentWrites DEF Fill, historyVars, processorVars, softVars

LEMMA AgentPublishes ==
  ASSUME SoftInv, NEW p \in Producers, Publish(p), UNCHANGED softVars
  PROVE  SoftInv'
<1> DEFINE j == idx[p]
<1>1. /\ pc[p] = "filled" /\ pc' = [pc EXCEPT ![p] = "published"]
      /\ ring' = [ring EXCEPT ![Slot(j)].type = asked[j].kind]
      /\ fate' = [fate EXCEPT ![j] = "published"]
      /\ UNCHANGED <<queue, write_index, doorbell, idx, asked, read_index, proc, delivered, next>>
  BY DEF Publish, ClosingHeader, processorVars, softVars
<1>2. /\ j \in Index /\ j \in Nat /\ Slot(j) \in 0 .. Size - 1 /\ j = doorbell + 1
      /\ Cleared <= j /\ fate[j] = "reserved"
  BY <1>1, SoftWindow DEF Reserved
<1> HIDE DEF j
<1>3. /\ pc'[p] = "published" /\ fate'[j] = "published"
      /\ \A q \in Producers \ {p} : pc'[q] = pc[q] /\ pc[q] = "idle"
      /\ \A i \in Index \ {j} : fate'[i] = fate[i]
  BY <1>1, <1>2 DEF SoftInv, SoftTyped, OneAgent
<1>4. asked[j] \in Requests /\ asked[j].kind \in Kinds
  BY <1>2, RingAssumption DEF SoftInv, SoftTyped, Request
<1>5. SoftTyped'
  <2>1. ring' \in [0 .. Size - 1 -> Packet]
    BY <1>1, <1>2, <1>4, PacketStores DEF SoftInv, SoftTyped
  <2> QED BY <1>1, <2>1 DEF SoftInv, SoftTyped, PCs, Fates
<1>6. SoftLog' /\ Cleared' = Cleared
  BY <1>1, AgentKeepsLog
<1>7. OneAgent' /\ BehindDoorbell'
  BY <1>1, <1>3, <1>6 DEF SoftInv, OneAgent, BehindDoorbell
<1>8. SoftFate'
  <2>1. ~(j < Cleared) /\ ~(j >= write_index)
    BY <1>2 DEF SoftInv, SoftFate
  <2>2. \A q \in Producers : ~Reserved(q)'
    BY <1>3 DEF Reserved
  <2>3. \A i \in Index : fate[i] = "reserved" => i = j
    BY <1>1, <1>3 DEF SoftInv, SoftFate, Reserved, j
  <2> QED BY <1>1, <1>3, <1>6, <2>1, <2>2, <2>3 DEF SoftInv, SoftFate
<1>9. SoftSlots'
  <2>1. /\ j < next + Size /\ ring[Slot(j)].body = j
        /\ ring[Slot(j)].completion = asked[j].completion
    BY <1>1 DEF SoftInv, SoftSlots, Writing, j
  <2>2. ring'[Slot(j)] = [type |-> asked[j].kind, body |-> j, completion |-> asked[j].completion]
    <3>1. ring[Slot(j)] \in Packet /\ ring'[Slot(j)] = [ring[Slot(j)] EXCEPT !.type = asked[j].kind]
      BY <1>1, <1>2 DEF SoftInv, SoftTyped
    <3> QED BY <2>1, <3>1 DEF Packet
  <2>3. ASSUME NEW i \in Index, i # j, fate[i] = "published"
        PROVE  ring'[Slot(i)] = ring[Slot(i)]
    <3>1. Slot(i) # Slot(j) /\ Slot(i) \in 0 .. Size - 1
      BY <1>1, <1>2, <2>1, <2>3, SoftWindow, SoftApart DEF j
    <3> QED BY <1>1, <1>2, <3>1 DEF SoftInv, SoftTyped
  <2>4. ASSUME NEW i \in Index, fate'[i] = "published"
        PROVE  /\ i < next + Size
               /\ ring'[Slot(i)] = [type |-> asked[i].kind, body |-> i,
                                    completion |-> asked[i].completion]
    <3>1. CASE i = j
      BY <2>1, <2>2, <3>1
    <3>2. CASE i # j
      BY <1>3, <2>3, <2>4, <3>2 DEF SoftInv, SoftSlots
    <3> QED BY <3>1, <3>2
  <2>5. \A q \in Producers : ~Writing(q)' /\ pc'[q] # "filled"
    BY <1>3 DEF Writing
  <2> QED BY <1>1, <2>4, <2>5 DEF SoftSlots
<1> QED BY <1>5, <1>6, <1>7, <1>8, <1>9 DEF SoftInv

LEMMA AgentRings ==
  ASSUME SoftInv, NEW p \in Producers, RingDoorbell(p), UNCHANGED softVars
  PROVE  SoftInv'
<1>1. /\ pc[p] = "published" /\ pc' = [pc EXCEPT ![p] = "idle"] /\ doorbell' = idx[p]
      /\ UNCHANGED <<queue, write_index, ring, idx, asked, fate, read_index, proc, delivered, next>>
  BY DEF RingDoorbell, DoorbellValue, historyVars, softVars
<1>2. idx[p] \in Nat /\ idx[p] = write_index - 1 /\ doorbell = write_index - 2
  BY <1>1, SoftWindow DEF SoftInv, OneAgent
<1>3. \A q \in Producers : pc'[q] = "idle" /\ (q # p => pc[q] = "idle")
  BY <1>1 DEF SoftInv, SoftTyped, OneAgent
<1>4. SoftTyped'
  BY <1>1, <1>2 DEF SoftInv, SoftTyped, PCs
<1>5. SoftLog' /\ Cleared' = Cleared
  BY <1>1, AgentKeepsLog
<1>6. OneAgent'
  BY <1>1, <1>2, <1>3 DEF OneAgent
<1>7. BehindDoorbell'
  BY <1>1, <1>2, <1>5, SoftFacts DEF SoftInv, BehindDoorbell
<1>8. SoftFate'
  BY <1>1, <1>3, <1>5 DEF SoftInv, SoftFate, Reserved
<1>9. SoftSlots'
  BY <1>1, <1>3 DEF SoftInv, SoftSlots, Writing
<1> QED BY <1>4, <1>5, <1>6, <1>7, <1>8, <1>9 DEF SoftInv

(* Steps of process().                                                     *)

(* It waits, begins to, or has waited.                                     *)
LEMMA ProcessWaits ==
  ASSUME SoftInv, Enter \/ SeeDoorbell PROVE SoftInv'
<1>1. /\ next' = next /\ proc \in {"ready", "wait"} /\ proc' \in {"wait", "process"}
      /\ proc' = "process" => next <= doorbell
      /\ UNCHANGED <<queue, write_index, doorbell, ring, pc, idx, asked, fate, read_index, delivered>>
  BY SoftFacts DEF Enter, SeeDoorbell, DoorbellReached, producerVars, historyVars, softVars,
     SoftInv, SoftTyped
<1>2. SoftTyped'
  BY <1>1 DEF SoftInv, SoftTyped, SoftSteps
<1>3. Cleared' = Cleared
  BY <1>1 DEF Cleared
<1>4. OneAgent' /\ BehindDoorbell'
  BY <1>1, <1>3 DEF SoftInv, OneAgent, BehindDoorbell
<1>5. SoftFate' /\ SoftSlots'
  BY <1>1, <1>3 DEF SoftInv, SoftFate, SoftSlots, Reserved, Writing
<1>6. SoftLog'
  BY <1>1 DEF SoftInv, SoftLog, ProcessedAsAsked
<1> QED BY <1>2, <1>4, <1>5, <1>6 DEF SoftInv

(* The doorbell was seen, so the packet at next is published.              *)
LEMMA NextIsPublished ==
  ASSUME SoftInv, proc \in {"process", "complete", "clear"}
  PROVE  /\ next \in Index /\ fate[next] = "published" /\ next < write_index
         /\ HeldPacket = [type |-> asked[next].kind, body |-> next,
                          completion |-> asked[next].completion]
<1>1. next <= doorbell /\ Cleared = next
  BY DEF SoftInv, BehindDoorbell, Cleared
<1>2. next \in Index /\ next < write_index
  BY <1>1, SoftFacts DEF Index
<1>3. fate[next] # "reserved"
  <2>1. \A p \in Producers : Reserved(p) => idx[p] # next
    BY <1>1, SoftFacts, SoftWindow DEF Reserved
  <2> QED BY <1>2, <2>1 DEF SoftInv, SoftFate
<1>4. fate[next] \notin {"taken", "free", "abandoned"}
  BY <1>1, <1>2, SoftFacts DEF SoftInv, SoftFate
<1>5. fate[next] = "published"
  BY <1>2, <1>3, <1>4 DEF SoftInv, SoftTyped, Fates
<1> QED BY <1>2, <1>5 DEF SoftInv, SoftSlots, HeldPacket

LEMMA ProcessHands == ASSUME SoftInv, Process PROVE SoftInv'
<1> DEFINE d == [body |-> HeldPacket.body, kind |-> HeldPacket.type,
                 completion |-> HeldPacket.completion]
<1>1. /\ proc = "process" /\ proc' = "complete" /\ delivered' = Append(delivered, d)
      /\ UNCHANGED <<queue, write_index, doorbell, ring, pc, idx, asked, fate, read_index, next>>
  BY DEF Process, producerVars, historyVars, softVars
<1>2. /\ next \in Index
      /\ d = [body |-> next, kind |-> asked[next].kind, completion |-> asked[next].completion]
  BY <1>1, NextIsPublished
<1>3. asked[next] \in Request
  BY <1>2, RingAssumption DEF SoftInv, SoftTyped
<1>4. d \in [body : Index \cup {-1}, kind : Kinds \cup {"invalid"}, completion : Signals \cup {NoSignal}]
  BY <1>2, <1>3 DEF Request
<1> HIDE DEF d
<1>5. Len(delivered) = next /\ next \in Nat
  BY <1>1, SoftFacts DEF SoftInv, SoftLog
<1>6. /\ Len(delivered') = next + 1 /\ delivered'[next + 1] = d
      /\ \A k \in 1 .. next : delivered'[k] = delivered[k]
  BY <1>1, <1>4, <1>5 DEF SoftInv, SoftTyped
<1>7. SoftTyped'
  BY <1>1, <1>4 DEF SoftInv, SoftTyped, SoftSteps
<1>8. Cleared' = Cleared
  BY <1>1 DEF Cleared
<1>9. OneAgent' /\ BehindDoorbell'
  BY <1>1, <1>8 DEF SoftInv, OneAgent, BehindDoorbell
<1>10. SoftFate' /\ SoftSlots'
  BY <1>1, <1>8 DEF SoftInv, SoftFate, SoftSlots, Reserved, Writing
<1>11. SoftLog'
  <2>1. ASSUME NEW k \in 1 .. Len(delivered')
        PROVE  delivered'[k] = [body |-> k - 1, kind |-> asked[k - 1].kind,
                                completion |-> asked[k - 1].completion]
    <3>1. CASE k = next + 1
      BY <1>2, <1>5, <1>6, <3>1
    <3>2. CASE k \in 1 .. next
      BY <1>5, <1>6, <3>2 DEF SoftInv, SoftLog, ProcessedAsAsked
    <3> QED BY <1>5, <1>6, <3>1, <3>2
  <2> QED BY <1>1, <1>6, <2>1 DEF SoftLog, ProcessedAsAsked
<1> QED BY <1>7, <1>9, <1>10, <1>11 DEF SoftInv

LEMMA ProcessCompletes == ASSUME SoftInv, Complete PROVE SoftInv'
<1>1. /\ proc = "complete" /\ proc' = "clear"
      /\ UNCHANGED <<queue, write_index, doorbell, ring, pc, idx, asked, fate, read_index, delivered, next>>
  BY DEF Complete, producerVars, historyVars
<1>2. SoftTyped'
  BY <1>1 DEF SoftInv, SoftTyped, SoftSteps
<1>3. Cleared' = Cleared
  BY <1>1 DEF Cleared
<1>4. OneAgent' /\ BehindDoorbell'
  BY <1>1, <1>3 DEF SoftInv, OneAgent, BehindDoorbell
<1>5. SoftFate' /\ SoftSlots'
  BY <1>1, <1>3 DEF SoftInv, SoftFate, SoftSlots, Reserved, Writing
<1>6. SoftLog'
  BY <1>1 DEF SoftInv, SoftLog, ProcessedAsAsked
<1> QED BY <1>2, <1>4, <1>5, <1>6 DEF SoftInv

LEMMA ProcessClears == ASSUME SoftInv, Clear PROVE SoftInv'
<1>1. /\ proc = "clear" /\ proc' = "advance"
      /\ ring' = [ring EXCEPT ![Slot(next)].type = "invalid"]
      /\ fate' = [fate EXCEPT ![next] = "taken"]
      /\ UNCHANGED <<queue, write_index, doorbell, pc, idx, asked, read_index, delivered, next>>
  BY DEF Clear, producerVars, softVars
<1>2. /\ next \in Index /\ next \in Nat /\ fate[next] = "published" /\ next < write_index
      /\ Slot(next) \in 0 .. Size - 1 /\ next <= doorbell
  BY <1>1, NextIsPublished, SoftFacts, SlotRange DEF SoftInv, BehindDoorbell
<1>3. Cleared = next /\ Cleared' = next + 1
  BY <1>1 DEF Cleared
<1>4. /\ fate'[next] = "taken"
      /\ \A i \in Index \ {next} : fate'[i] = fate[i]
  BY <1>1, <1>2 DEF SoftInv, SoftTyped
<1>5. SoftTyped'
  <2>1. ring' \in [0 .. Size - 1 -> Packet]
    BY <1>1, <1>2, PacketStores DEF SoftInv, SoftTyped
  <2> QED BY <1>1, <2>1 DEF SoftInv, SoftTyped, SoftSteps, Fates
<1>6. OneAgent' /\ BehindDoorbell'
  BY <1>1, <1>2, <1>3, SoftFacts DEF SoftInv, OneAgent, BehindDoorbell
<1>7. SoftFate'
  <2>1. \A q \in Producers : Reserved(q) => idx[q] # next
    BY <1>2, SoftWindow DEF Reserved
  <2>2. ASSUME NEW i \in Index
        PROVE  /\ fate'[i] = "taken" <=> i < next + 1
               /\ fate'[i] = "free" <=> i >= write_index
               /\ fate'[i] = "reserved" <=> \E q \in Producers : Reserved(q) /\ idx[q] = i
               /\ fate'[i] # "abandoned"
    <3>1. CASE i = next
      BY <1>2, <1>4, <2>1, <3>1, SoftFacts
    <3>2. CASE i # next
      <4>1. i \in Nat /\ (i < next + 1 <=> i < next)
        BY <1>2, <3>2, SoftFacts
      <4> QED BY <1>3, <1>4, <3>2, <4>1 DEF SoftInv, SoftFate
    <3> QED BY <3>1, <3>2
  <2> QED BY <1>1, <1>3, <2>2 DEF SoftFate, Reserved
<1>8. SoftSlots'
  <2>1. \A s \in 0 .. Size - 1 : /\ ring'[s].body = ring[s].body
                                 /\ ring'[s].completion = ring[s].completion
                                 /\ s # Slot(next) => ring'[s] = ring[s]
    BY <1>1, <1>2 DEF SoftInv, SoftTyped, Packet
  <2>2. ASSUME NEW i \in Index, fate'[i] = "published"
        PROVE  i < next + Size /\ ring'[Slot(i)] = ring[Slot(i)] /\ fate[i] = "published"
    <3>1. i # next /\ fate[i] = "published"
      BY <1>4, <2>2
    <3>2. next <= i /\ i < next + Size /\ Slot(i) \in 0 .. Size - 1
      BY <3>1, SoftWindow
    <3>3. next <= next /\ next < next + Size
      BY <1>2, SoftFacts
    <3>4. Slot(i) # Slot(next)
      BY <1>2, <3>1, <3>2, <3>3, SoftApart
    <3> QED BY <2>1, <3>1, <3>2, <3>4
  <2>3. ASSUME NEW q \in Producers, pc[q] = "filled"
        PROVE  /\ ring'[Slot(idx[q])].body = idx[q]
               /\ ring'[Slot(idx[q])].completion = asked[idx[q]].completion
    <3>1. Slot(idx[q]) \in 0 .. Size - 1
      BY <2>3, SoftWindow
    <3> QED BY <2>1, <2>3, <3>1 DEF SoftInv, SoftSlots
  <2> QED BY <1>1, <2>2, <2>3 DEF SoftInv, SoftSlots, Writing
<1>9. SoftLog'
  BY <1>1 DEF SoftInv, SoftLog, ProcessedAsAsked
<1> QED BY <1>5, <1>6, <1>7, <1>8, <1>9 DEF SoftInv

LEMMA ProcessAdvances == ASSUME SoftInv, StoreReadIndex PROVE SoftInv'
<1>1. /\ proc = "advance" /\ proc' \in {"wait", "ready"} /\ next' = next + 1 /\ read_index' = next + 1
      /\ UNCHANGED <<queue, write_index, doorbell, ring, pc, idx, asked, fate, delivered>>
  BY DEF StoreReadIndex, producerVars, historyVars
<1>2. Cleared = next + 1 /\ Cleared' = next + 1
  BY <1>1 DEF Cleared
<1>3. next \in Nat /\ next + 1 <= write_index /\ write_index <= MaxIndex /\ write_index \in Nat
  BY <1>2, SoftFacts
<1>4. SoftTyped'
  BY <1>1, <1>3, SoftFacts DEF SoftInv, SoftTyped, SoftSteps
<1>5. OneAgent' /\ BehindDoorbell'
  BY <1>1, <1>2 DEF SoftInv, OneAgent, BehindDoorbell
<1>6. SoftFate'
  BY <1>1, <1>2 DEF SoftInv, SoftFate, Reserved
<1>7. SoftSlots'
  <2>1. \A i \in Nat : i < next + Size => i < (next + 1) + Size
    BY <1>3, SoftFacts
  <2> QED BY <1>1, <2>1, SoftFacts, SoftWindow DEF SoftInv, SoftSlots, Writing
<1>8. SoftLog'
  BY <1>1, <1>3 DEF SoftInv, SoftLog, ProcessedAsAsked
<1> QED BY <1>4, <1>5, <1>6, <1>7, <1>8 DEF SoftInv

LEMMA SoftStutter == ASSUME SoftInv, UNCHANGED allVars PROVE SoftInv'
<1>1. UNCHANGED <<queue, write_index, doorbell, ring, pc, idx, asked, fate, read_index, proc, delivered, next>>
  BY DEF allVars, vars, softVars, producerVars, historyVars, processorVars
<1>2. SoftTyped' /\ Cleared' = Cleared
  BY <1>1 DEF SoftInv, SoftTyped, Cleared
<1>3. OneAgent' /\ BehindDoorbell'
  BY <1>1, <1>2 DEF SoftInv, OneAgent, BehindDoorbell
<1>4. SoftFate' /\ SoftSlots'
  BY <1>1, <1>2 DEF SoftInv, SoftFate, SoftSlots, Reserved, Writing
<1>5. SoftLog'
  BY <1>1 DEF SoftInv, SoftLog, ProcessedAsAsked
<1> QED BY <1>2, <1>3, <1>4, <1>5 DEF SoftInv

(* process() hands out the packets in the order of their indices, whole,   *)
(* each with what its agent asked for, although it never looks at the      *)
(* header: for a queue used by one agent at a time, whose packets store    *)
(* their completion field (the defect of CompletionAsAsked otherwise).     *)
THEOREM ProcessHandsWhatWasAsked ==
  ASSUME \A q \in Queues : ~q.sync, \A r \in Requests : Stores(r)
  PROVE  SoftSpec => []ProcessedAsAsked
<1>1. SoftInit => SoftInv
  BY SoftInitInv
<1>2. SoftInv /\ [SoftNext]_allVars => SoftInv'
  <2> SUFFICES ASSUME SoftInv, [SoftNext]_allVars PROVE SoftInv'
    OBVIOUS
  <2>1. ASSUME NEW p \in Producers, NEW r \in Requests, AgentReserve(p, r) PROVE SoftInv'
    BY <2>1, AgentReserves
  <2>2. ASSUME NEW p \in Producers, AgentCall(p) PROVE SoftInv'
    BY <2>2, AgentAdmits, AgentInvalidates, AgentFills, AgentPublishes, AgentRings DEF AgentCall
  <2>3. ASSUME Enter \/ Serving PROVE SoftInv'
    BY <2>3, ProcessWaits, ProcessHands, ProcessCompletes, ProcessClears, ProcessAdvances DEF Serving
  <2> QED BY <2>1, <2>2, <2>3, SoftStutter DEF SoftNext
<1>3. SoftInv => ProcessedAsAsked
  BY DEF SoftInv, SoftLog
<1> QED BY <1>1, <1>2, <1>3, PTL DEF SoftSpec
=============================================================================
