---------------------------- MODULE Memory_proofs ----------------------------
(***************************************************************************)
(* Proofs about the memory devices work on, for every value of the         *)
(* constants of its three modules.                                         *)
(*                                                                         *)
(* Transfers: signals count what is still to come, the memory of a copy    *)
(* outlives it and a finished copy implies its dependencies.               *)
(* LapAccess: who may use locally accessible memory.  What the bits say    *)
(* and what the driver's list says differ by the devices that a thread     *)
(* under the lock of an Arc has set the bit of and not yet been answered   *)
(* for, and by devices that need no grant.                                 *)
(* ArgsPool: blocks of kernel arguments.                                   *)
(***************************************************************************)
EXTENDS Transfers, LapAccess, ArgsPool, FiniteSetTheorems, TLAPS

Packet == [bar : Barriers, deps : SUBSET Signals, of : SUBSET Things]

(* A packet stands for dependencies of its barrier that no packet to come  *)
(* stands for, and waits for their signals.                                *)
PacketOK ==
  /\ packets \subseteq Packet /\ IsFiniteSet(packets)
  /\ \A p \in packets :
       /\ p.of # {} /\ p.of \subseteq after[p.bar] /\ p.of \cap todo[p.bar] = {}
       /\ p.deps = {signal[d] : d \in p.of}

(* A barrier shares its signal with nothing; copies may share theirs.      *)
SignalOK ==
  /\ \A c \in Copies : st[c] = "none" <=> signal[c] = None
  /\ \A b \in Barriers : bar[b] = "none" <=> signal[b] = None
  /\ \A x \in Things : /\ signal[x] # None => signal[x] \in made
                       /\ \A d \in after[x] : signal[d] # None
  /\ \A v \in Kept : kept[v] # None =>
       kept[v] \in made /\ \A b \in Barriers : signal[b] # kept[v]
  /\ \A b \in Barriers, x \in Things : signal[b] # None /\ signal[x] = signal[b] => x = b

(* Objects are given to calls from below, and copied when they have a      *)
(* transfer and are not empty.                                             *)
GivenFromBelow == \E k \in 0 .. MaxCopies : {c \in Copies : st[c] # "none"} = 1 .. k

DmaOK ==
  \A c \in Copies : /\ st[c] \in {"none", "next", "failed"} => dma[c] = "none"
                    /\ HasTransfer(c) => (dma[c] = "none" <=> c \in empty)

TodoOK ==
  \A b \in Barriers : /\ todo[b] \subseteq after[b]
                      /\ bar[b] = "none" => after[b] = {}

StageOK ==
  /\ GivenFromBelow /\ DmaOK /\ TodoOK
  /\ phase = "idle" => Group = {}

(* The program keeps what a live transfer depends on.                      *)
DepsLive ==
  \A c \in Copies : HasTransfer(c) \/ st[c] = "next" => after[c] \subseteq Owned

(* A copy that is over began when its dependencies were over, and their    *)
(* signals are not set again while its transfer lives.                     *)
DoneDeps ==
  panicked \/
  \A c \in Copies : HasTransfer(c) /\ dma[c] = "done" =>
    \A d \in after[c] : value[signal[d]] = 0

IInv ==
  TypeOK /\ PacketOK /\ SignalOK /\ StageOK /\ CountsAgree /\ MemoryOutlivesCopy
    /\ DepsLive /\ DoneDeps

-----------------------------------------------------------------------------
(* Minima, numbers of packets, numbers of copies.                          *)

LEMMA MinIs ==
  ASSUME NEW S, S \subseteq Nat, S # {}
  PROVE  Min(S) \in S /\ \A y \in S : Min(S) <= y
<1>1. PICK x \in S : \A y \in S : ~(<<y, x>> \in OpToRel(<, Nat))
  BY NatLessThanWellFounded, WFMin
<1>2. ASSUME NEW y \in S PROVE x <= y
  <2>1. x \in Nat /\ y \in Nat
    OBVIOUS
  <2>2. ~(y < x)
    BY <1>1, <2>1 DEF OpToRel
  <2> QED BY <2>1, <2>2
<1> QED BY <1>2 DEF Min

LEMMA NextIs ==
  ASSUME \E c \in Group : st[c] = "next"
  PROVE  Next1 \in Copies /\ st[Next1] = "next"
<1> DEFINE S == {c \in Group : st[c] = "next"}
<1>1. S \subseteq Nat /\ S # {}
  BY TransfersAssumption DEF Group, Copies
<1>2. Min(S) \in S
  BY <1>1, MinIs
<1> QED BY <1>2 DEF Next1, Group

LEMMA FreshIs ==
  ASSUME NEW v, Unmade(v) # {}
  PROVE  Fresh(v) \in Signals /\ Fresh(v) \notin made /\ Fresh(v) # None
<1>1. Unmade(v) \subseteq Signals
  BY TransfersAssumption DEF Unmade, OfKind
<1>2. Signals \subseteq Nat
  BY TransfersAssumption DEF Signals
<1>3. Fresh(v) \in Unmade(v)
  BY <1>1, <1>2, MinIs DEF Fresh
<1> QED BY <1>1, <1>3, TransfersAssumption DEF Unmade

LEMMA ThingsFinite == IsFiniteSet(Copies) /\ IsFiniteSet(Things)
<1>1. IsFiniteSet(Copies)
  BY TransfersAssumption, FS_Interval DEF Copies
<1> QED BY <1>1, TransfersAssumption, FS_Union DEF Things

(* A division is told by its remainder.                                    *)
LEMMA CeilZero == Ceil(0) = 0
BY TransfersAssumption DEF Ceil

LEMMA CeilNat == ASSUME NEW n \in Nat PROVE Ceil(n) \in Nat
BY TransfersAssumption DEF Ceil

LEMMA CeilFew ==
  ASSUME NEW n \in Nat, 0 < n, n < PacketDeps
  PROVE  Ceil(n) = 1
BY TransfersAssumption DEF Ceil

LEMMA CeilMore ==
  ASSUME NEW n \in Nat, PacketDeps <= n
  PROVE  Ceil(n) = 1 + Ceil(n - PacketDeps)
BY TransfersAssumption DEF Ceil

-----------------------------------------------------------------------------
(* What the invariant says of signals.                                     *)

LEMMA CountedFinite == \A s : IsFiniteSet(Counted(s)) /\ Cardinality(Counted(s)) \in Nat
<1> TAKE s
<1>1. Counted(s) \in SUBSET Copies
  BY DEF Counted
<1> QED BY <1>1, ThingsFinite, FS_Subset, FS_CardinalityType

LEMMA TodoFinite ==
  ASSUME NEW D \in SUBSET Things
  PROVE  IsFiniteSet(D) /\ Cardinality(D) \in Nat
BY ThingsFinite, FS_Subset, FS_CardinalityType

LEMMA PacketsFinite ==
  ASSUME IsFiniteSet(packets), NEW b
  PROVE  IsFiniteSet(PacketsOf(b)) /\ Cardinality(PacketsOf(b)) \in Nat
<1>1. PacketsOf(b) \in SUBSET packets
  BY DEF PacketsOf
<1> QED BY <1>1, FS_Subset, FS_CardinalityType

(* A signal counts the copies that are under way or to come.               *)
LEMMA CopyCounts ==
  ASSUME IInv, ~panicked, NEW c \in Copies, signal[c] # None,
         InFlight(c) \/ st[c] \in {"next", "failed"}
  PROVE  value[signal[c]] \in Nat /\ value[signal[c]] >= 1
<1>1. c \in Counted(signal[c])
  BY DEF Counted
<1>2. Cardinality(Counted(signal[c])) # 0
  BY <1>1, CountedFinite, FS_EmptySet
<1>3. value[signal[c]] = Cardinality(Counted(signal[c]))
  BY DEF IInv, CountsAgree
<1> QED BY <1>2, <1>3, CountedFinite

(* A signal counts the packets that are not over.                          *)
LEMMA PacketCounts ==
  ASSUME IInv, ~panicked, NEW p \in packets
  PROVE  /\ p.bar \in Barriers /\ signal[p.bar] \in Signals
         /\ value[signal[p.bar]] \in Nat /\ value[signal[p.bar]] >= 1
<1>1. p.bar \in Barriers /\ p \in PacketsOf(p.bar)
  BY DEF IInv, PacketOK, Packet, PacketsOf
<1>2. signal[p.bar] # None
  BY <1>1 DEF IInv, PacketOK, StageOK, TodoOK, SignalOK
<1>3. signal[p.bar] \in Signals
  BY <1>1, <1>2 DEF IInv, TypeOK, Things
<1>4. /\ Cardinality(PacketsOf(p.bar)) \in Nat
      /\ Cardinality(PacketsOf(p.bar)) # 0
  BY <1>1, PacketsFinite, FS_EmptySet DEF IInv, PacketOK
<1>5. Ceil(Cardinality(todo[p.bar])) \in Nat
  BY <1>1, TodoFinite, CeilNat DEF IInv, TypeOK
<1>6. value[signal[p.bar]] = Cardinality(PacketsOf(p.bar)) + Ceil(Cardinality(todo[p.bar]))
  BY <1>1, <1>2 DEF IInv, CountsAgree
<1> QED BY <1>1, <1>3, <1>4, <1>5, <1>6

-----------------------------------------------------------------------------
(* The program has made nothing yet.                                       *)
LEMMA InitIInv == Init => IInv
<1> SUFFICES ASSUME Init PROVE IInv
  OBVIOUS
<1>1. TypeOK
  <2>1. value \in [Signals -> Int] /\ made \subseteq Signals /\ empty \subseteq Copies
    BY DEF Init
  <2>2. kept \in [Kept -> Signals \cup {None}]
    BY DEF Init
  <2>3. st \in [Copies -> CopyStates] /\ dma \in [Copies -> {"none", "started", "done"}]
    BY DEF Init, CopyStates
  <2>4. after \in [Things -> SUBSET Things] /\ signal \in [Things -> Signals \cup {None}]
    BY DEF Init
  <2>5. todo \in [Barriers -> SUBSET Things]
    BY DEF Init
  <2>6. bar \in [Barriers -> {"none", "calling", "held", "failed"}]
    BY DEF Init
  <2> QED BY <2>1, <2>2, <2>3, <2>4, <2>5, <2>6 DEF Init, TypeOK
<1>2. PacketOK
  BY FS_EmptySet DEF Init, PacketOK
<1>3. SignalOK
  BY DEF Init, SignalOK, Things
<1>4. StageOK
  <2>1. {c \in Copies : st[c] # "none"} = 1 .. 0
    BY DEF Init
  <2>2. 0 \in 0 .. MaxCopies
    BY TransfersAssumption
  <2>3. \A c \in Copies : ~HasTransfer(c)
    BY DEF Init, HasTransfer
  <2>4. Group = {}
    BY DEF Init, Group
  <2> QED BY <2>1, <2>2, <2>3, <2>4 DEF Init, StageOK, GivenFromBelow, DmaOK, TodoOK, Things
<1>5. CountsAgree
  BY DEF Init, CountsAgree, Things
<1>6. MemoryOutlivesCopy /\ DepsLive /\ DoneDeps
  BY DEF Init, MemoryOutlivesCopy, DepsLive, DoneDeps, InFlight, HasTransfer
<1> QED BY <1>1, <1>2, <1>3, <1>4, <1>5, <1>6 DEF IInv

-----------------------------------------------------------------------------
(* A group is given to a call, with a signal that no transfer, no barrier  *)
(* and no copy under way has.                                              *)
LEMMA BeginStep ==
  ASSUME IInv, ~panicked, phase = "idle", NEW s \in Signals, NEW n \in 1 .. MaxCopies,
         NEW E, NEW D \in SUBSET Owned, Begin(s, n, E, D),
         \A x \in Things : signal[x] = s => x \in Copies /\ ~HasTransfer(x),
         s \in made', made \subseteq made', made' \subseteq Signals,
         kept' \in [Kept -> Signals \cup {None}],
         \A v \in Kept : kept'[v] = kept[v] \/ kept'[v] = s,
         UNCHANGED <<dma, packets, panicked, aborted, barVars>>
  PROVE  IInv'
<1> DEFINE old == {c \in Copies : st[c] # "none"}
           new == (Cardinality(old) + 1) .. (Cardinality(old) + n)
<1> USE DEF barVars
<1>1. PICK k \in 0 .. MaxCopies : old = 1 .. k
  BY DEF IInv, StageOK, GivenFromBelow
<1>2. Cardinality(old) = k
  <2>1. k \in Nat
    BY TransfersAssumption
  <2>2. Cardinality(1 .. k) = k
    BY <2>1, FS_Interval
  <2> QED BY <1>1, <2>2
<1>3. new = (k + 1) .. (k + n) /\ new \subseteq Copies
  BY <1>2 DEF Begin
<1>4. IsFiniteSet(new) /\ Cardinality(new) = n
  <2>1. k + 1 \in Int /\ k + n \in Int /\ n \in Nat /\ n >= 1
    BY TransfersAssumption
  <2> QED BY <1>3, <2>1, FS_Interval
<1>5. k + n \in 0 .. MaxCopies /\ old \cup new = 1 .. (k + n)
  <2>1. k \in Nat /\ n \in Nat /\ n >= 1
    BY TransfersAssumption
  <2>2. k + n \in Copies
    <3>1. k + n \in (k + 1) .. (k + n)
      BY <2>1
    <3> HIDE DEF new
    <3> QED BY <1>3, <3>1
  <2>3. (1 .. k) \cup ((k + 1) .. (k + n)) = 1 .. (k + n)
    BY <2>1
  <2>4. k + n \in 0 .. MaxCopies
    BY <2>1, <2>2, TransfersAssumption DEF Copies
  <2> HIDE DEF new, old
  <2> QED BY <1>1, <1>3, <2>3, <2>4
<1>6. \A c \in Copies : c \in new => st[c] = "none" /\ signal[c] = None
  <2>1. k \in Nat /\ (1 .. k) \cap ((k + 1) .. (k + n)) = {}
    BY TransfersAssumption
  <2>2. new \cap old = {}
    BY <1>1, <1>3, <2>1
  <2> QED BY <2>2 DEF IInv, SignalOK
<1>7. /\ value' = [value EXCEPT ![s] = n]
      /\ st' = [c \in Copies |-> IF c \in new THEN "next" ELSE
                   IF st[c] = "failed" /\ signal[c] = s THEN "gone" ELSE st[c]]
      /\ after' = [x \in Things |-> IF x \in new THEN D ELSE after[x]]
      /\ signal' = [x \in Things |-> IF x \in new THEN s ELSE signal[x]]
      /\ phase' = "copy"
  BY DEF Begin, SignalLen
<1>8. empty \subseteq empty' /\ empty' \subseteq empty \cup new
  BY DEF Begin
<1> HIDE DEF old, new
<1>9. \A b \in Barriers : b \in Things /\ b \notin Copies /\ b \notin new
  BY <1>3, TransfersAssumption DEF Things
<1>10. \A c \in Copies : HasTransfer(c)' <=> HasTransfer(c)
  BY <1>6, <1>7 DEF HasTransfer
<1>11. Owned' = Owned /\ Owned \subseteq Things
  BY <1>6, <1>7, <1>9 DEF Owned, Things
<1>12. \A x \in Things : signal[x] # None => x \notin new /\ signal'[x] = signal[x]
  BY <1>3, <1>6, <1>7
<1>13. \A d \in Owned : signal[d] # None /\ d \notin new
  BY <1>3, <1>6, <1>9, <1>11 DEF Owned, IInv, SignalOK, Things
<1>14. None \notin Signals /\ s # None
  BY TransfersAssumption
<1>20. TypeOK'
  BY <1>3, <1>7, <1>8, <1>11 DEF IInv, TypeOK, CopyStates, Things
<1>21. PacketOK'
  <2>1. ASSUME NEW p \in packets PROVE /\ p.bar \in Barriers
                                       /\ after'[p.bar] = after[p.bar]
                                       /\ \A d \in p.of : signal'[d] = signal[d]
    <3>1. p.bar \in Barriers /\ p.of \subseteq Things /\ p.of \subseteq after[p.bar]
      BY DEF IInv, PacketOK, Packet
    <3> QED BY <1>7, <1>9, <1>12, <3>1 DEF IInv, SignalOK
  <2> QED BY <2>1 DEF IInv, PacketOK
<1>22. SignalOK'
  <2>1. \A c \in Copies : c \in Things /\ (st'[c] = "none" <=> signal'[c] = None)
    BY <1>7, <1>14 DEF IInv, SignalOK, Things
  <2>2. \A b \in Barriers : signal'[b] = signal[b] /\ signal'[b] # s
    BY <1>7, <1>9
  <2>3. \A x \in Things : signal'[x] # None => signal'[x] \in made'
    BY <1>7 DEF IInv, SignalOK
  <2>4. ASSUME NEW x \in Things, NEW d \in after'[x] PROVE signal'[d] # None
    <3>1. CASE x \in new
      BY <1>7, <1>11, <1>12, <1>13, <3>1
    <3>2. CASE x \notin new
      BY <1>7, <1>12, <3>2 DEF IInv, SignalOK, TypeOK
    <3> QED BY <3>1, <3>2
  <2>5. \A v \in Kept : kept'[v] # None =>
          kept'[v] \in made' /\ \A b \in Barriers : signal'[b] # kept'[v]
    BY <2>2 DEF IInv, SignalOK
  <2>6. \A b \in Barriers, x \in Things :
          signal'[b] # None /\ signal'[x] = signal'[b] => x = b
    BY <1>7, <2>2 DEF IInv, SignalOK
  <2>7. \A b \in Barriers : bar'[b] = "none" <=> signal'[b] = None
    BY <2>2 DEF IInv, SignalOK
  <2> QED BY <2>1, <2>3, <2>4, <2>5, <2>6, <2>7 DEF SignalOK
<1>23. StageOK'
  <2>1. {c \in Copies : st'[c] # "none"} = 1 .. (k + n)
    <3>1. {c \in Copies : st'[c] # "none"} = old \cup new
      BY <1>3, <1>7 DEF old
    <3> QED BY <1>5, <3>1
  <2>2. \A c \in Copies : st'[c] \in {"none", "next", "failed"} => dma'[c] = "none"
    BY <1>6, <1>7 DEF IInv, StageOK, DmaOK
  <2>3. \A c \in Copies : HasTransfer(c)' => (dma'[c] = "none" <=> c \in empty')
    BY <1>6, <1>8, <1>10 DEF IInv, StageOK, DmaOK, HasTransfer
  <2>4. TodoOK'
    BY <1>7, <1>9 DEF IInv, StageOK, TodoOK
  <2>5. GivenFromBelow'
    BY <1>5, <2>1 DEF GivenFromBelow
  <2>6. DmaOK'
    BY <2>2, <2>3 DEF DmaOK
  <2>7. (phase = "idle" => Group = {})'
    BY <1>7
  <2> QED BY <2>4, <2>5, <2>6, <2>7 DEF StageOK
<1>24. CountsAgree'
  <2>1. Counted(s)' = new
    <3>1. \A c \in Copies : signal[c] = s => ~InFlight(c) /\ st[c] # "next"
      BY DEF IInv, MemoryOutlivesCopy, StageOK, Group, HasTransfer, Things
    <3> QED BY <1>3, <1>7, <3>1 DEF Counted, InFlight, Things
  <2>2. ASSUME NEW c \in Copies, signal'[c] # None
        PROVE  (value[signal[c]] = Cardinality(Counted(signal[c])))'
    <3>1. CASE signal'[c] = s
      <4>1. value'[s] = n
        BY <1>7 DEF IInv, TypeOK
      <4>2. Counted(signal[c])' = Counted(s)'
        BY <3>1 DEF Counted
      <4> QED BY <1>4, <2>1, <3>1, <4>1, <4>2
    <3>2. CASE signal'[c] # s
      <4>1. signal'[c] = signal[c] /\ signal[c] # s /\ signal[c] # None
        BY <1>7, <2>2, <3>2 DEF Things
      <4>2. Counted(signal[c])' = Counted(signal[c])
        BY <1>6, <1>7, <4>1 DEF Counted, InFlight, Things
      <4>3. value'[signal[c]] = value[signal[c]]
        BY <1>7, <4>1 DEF IInv, TypeOK, Things
      <4>4. value[signal[c]] = Cardinality(Counted(signal[c]))
        BY <4>1 DEF IInv, CountsAgree
      <4> QED BY <4>1, <4>2, <4>3, <4>4
    <3> QED BY <3>1, <3>2
  <2>3. ASSUME NEW b \in Barriers, signal'[b] # None
        PROVE  (value[signal[b]] = Cardinality(PacketsOf(b)) + Ceil(Cardinality(todo[b])))'
    <3>1. signal'[b] = signal[b] /\ signal[b] # s /\ signal[b] # None
      BY <1>7, <1>9, <2>3
    <3>2. value'[signal[b]] = value[signal[b]]
      BY <1>7, <1>9, <3>1 DEF IInv, TypeOK
    <3>3. PacketsOf(b)' = PacketsOf(b)
      BY DEF PacketsOf
    <3>4. value[signal[b]] = Cardinality(PacketsOf(b)) + Ceil(Cardinality(todo[b]))
      BY <3>1 DEF IInv, CountsAgree
    <3> QED BY <3>1, <3>2, <3>3, <3>4
  <2> QED BY <2>2, <2>3 DEF CountsAgree
<1>25. MemoryOutlivesCopy'
  BY <1>10 DEF IInv, MemoryOutlivesCopy, InFlight
<1>26. DepsLive'
  <2>1. ASSUME NEW c \in Copies, HasTransfer(c)' \/ st'[c] = "next"
        PROVE  after'[c] \subseteq Owned
    <3>1. CASE c \in new
      BY <1>7, <3>1 DEF Things
    <3>2. CASE c \notin new
      <4>1. after'[c] = after[c] /\ (HasTransfer(c) \/ st[c] = "next")
        BY <1>7, <1>10, <2>1, <3>2 DEF Things
      <4> QED BY <4>1 DEF IInv, DepsLive
    <3> QED BY <3>1, <3>2
  <2> QED BY <1>11, <2>1 DEF DepsLive
<1>27. DoneDeps'
  <2>1. ASSUME NEW c \in Copies, HasTransfer(c)', dma'[c] = "done", NEW d \in after'[c]
        PROVE  value'[signal'[d]] = 0
    <3>1. HasTransfer(c) /\ dma[c] = "done" /\ after'[c] = after[c]
      BY <1>6, <1>7, <1>10, <2>1 DEF HasTransfer, Things
    <3>2. d \in Owned /\ value[signal[d]] = 0
      BY <3>1 DEF IInv, DoneDeps, DepsLive
    <3>3. d \in Things /\ signal[d] # s
      BY <3>2, <1>11 DEF Owned, HasTransfer
    <3>4. signal'[d] = signal[d] /\ signal[d] \in Signals
      BY <1>12, <1>13, <3>2, <3>3 DEF IInv, TypeOK
    <3> QED BY <1>7, <3>2, <3>3, <3>4 DEF IInv, TypeOK
  <2> QED BY <2>1 DEF DoneDeps
<1> QED BY <1>20, <1>21, <1>22, <1>23, <1>24, <1>25, <1>26, <1>27 DEF IInv

(* A signal nobody has is one that no copy and no barrier has.             *)
LEMMA FreshFree ==
  ASSUME IInv, NEW v, Unmade(v) # {}
  PROVE  \A x \in Things : signal[x] # Fresh(v)
BY FreshIs DEF IInv, SignalOK

LEMMA MemcopyStep ==
  ASSUME IInv, NEW v \in Kept, NEW n \in 1 .. MaxCopies, NEW E, NEW D \in SUBSET Owned,
         Memcopy(v, n, E, D)
  PROVE  IInv'
<1>1. ~panicked /\ phase = "idle" /\ UNCHANGED <<dma, packets, panicked, aborted, barVars>>
  BY DEF Memcopy, Ready
<1>2. /\ made \subseteq Signals /\ kept \in [Kept -> Signals \cup {None}]
      /\ kept[v] \in Signals \cup {None}
  BY DEF IInv, TypeOK
<1>3. ASSUME NEW s \in Reset(kept[v]), Begin(s, n, E, D), UNCHANGED <<made, kept>>
      PROVE  IInv'
  <2>1. s = kept[v] /\ s # None /\ Unique(s)
    BY <1>3 DEF Reset
  <2>2. s \in Signals /\ s \in made /\ \A b \in Barriers : signal[b] # s
    BY <1>2, <2>1 DEF IInv, SignalOK
  <2>3. \A x \in Things : signal[x] = s => x \in Copies /\ ~HasTransfer(x)
    BY <2>1, <2>2 DEF Unique, Things
  <2> QED BY <1>1, <1>2, <1>3, <2>2, <2>3, BeginStep
<1>4. ASSUME Unmade(v) # {}, Begin(Fresh(v), n, E, D), made' = made \cup {Fresh(v)},
             kept' = [kept EXCEPT ![v] = Fresh(v)]
      PROVE  IInv'
  <2> DEFINE s == Fresh(v)
  <2>1. s \in Signals
    BY <1>4, FreshIs
  <2>2. \A x \in Things : signal[x] # s
    BY <1>4, FreshFree
  <2>3. /\ s \in made' /\ made \subseteq made' /\ made' \subseteq Signals
        /\ kept' \in [Kept -> Signals \cup {None}]
        /\ \A w \in Kept : kept'[w] = kept[w] \/ kept'[w] = s
    BY <1>2, <1>4, <2>1
  <2> HIDE DEF s
  <2>4. Begin(s, n, E, D)
    BY <1>4 DEF s
  <2> QED BY <1>1, <2>1, <2>2, <2>3, <2>4, BeginStep
<1> QED BY <1>3, <1>4 DEF Memcopy

LEMMA Memcopy2Step ==
  ASSUME IInv, NEW v \in New, NEW n \in 1 .. MaxCopies, NEW E, NEW D \in SUBSET Owned,
         Memcopy2(v, n, E, D)
  PROVE  IInv'
<1> DEFINE s == Fresh(v)
<1>1. ~panicked /\ phase = "idle" /\ UNCHANGED <<dma, packets, panicked, aborted, barVars>>
  BY DEF Memcopy2, Ready
<1>2. made \subseteq Signals /\ kept \in [Kept -> Signals \cup {None}]
  BY DEF IInv, TypeOK
<1>3. s \in Signals /\ Begin(s, n, E, D) /\ \A x \in Things : signal[x] # s
  BY FreshIs, FreshFree DEF Memcopy2
<1>4. /\ s \in made' /\ made \subseteq made' /\ made' \subseteq Signals
      /\ kept' \in [Kept -> Signals \cup {None}] /\ kept' = kept
  BY <1>2, <1>3 DEF Memcopy2
<1> HIDE DEF s
<1> QED BY <1>1, <1>3, <1>4, BeginStep

-----------------------------------------------------------------------------
(* What is left to show of a step that touches no barrier, no signal of a  *)
(* copy and no dependency: objects stay given, values count, the rest.     *)
LEMMA CopyStepOK ==
  ASSUME IInv,
         UNCHANGED <<packets, empty, after, signal, made, kept, barVars>>,
         TypeOK',
         \A c \in Copies : st'[c] = "none" <=> st[c] = "none",
         DmaOK', (phase = "idle" => Group = {})',
         panicked' \/ CountsAgree', MemoryOutlivesCopy', DepsLive', DoneDeps'
  PROVE  IInv'
<1> USE DEF barVars
<1>1. PacketOK'
  BY DEF IInv, PacketOK
<1>2. SignalOK'
  BY DEF IInv, SignalOK
<1>3. GivenFromBelow'
  BY DEF IInv, StageOK, GivenFromBelow
<1>4. TodoOK'
  BY DEF IInv, StageOK, TodoOK
<1>5. CountsAgree'
  BY DEF CountsAgree
<1> QED BY <1>1, <1>2, <1>3, <1>4, <1>5 DEF IInv, StageOK

(* A copy begins or fails to: what the signals count stays.                *)
LEMMA CountsKept ==
  ASSUME IInv, UNCHANGED <<value, signal, packets, todo, panicked>>,
         \A c \in Copies : (InFlight(c) \/ st[c] \in {"next", "failed"})' <=>
                         (InFlight(c) \/ st[c] \in {"next", "failed"})
  PROVE  CountsAgree'
<1>1. ASSUME NEW s PROVE Counted(s)' = Counted(s)
  BY DEF Counted
<1>2. \A b : PacketsOf(b)' = PacketsOf(b)
  BY DEF PacketsOf
<1> QED BY <1>1, <1>2 DEF IInv, CountsAgree

(* A copy is over, or has nothing to do: its signal counts one less.       *)
LEMMA CountsDown ==
  ASSUME IInv, ~panicked, UNCHANGED <<signal, packets, todo>>, NEW c \in Copies,
         signal[c] # None, InFlight(c) \/ st[c] \in {"next", "failed"},
         ~(InFlight(c) \/ st[c] \in {"next", "failed"})',
         \A e \in Copies \ {c} : (InFlight(e) \/ st[e] \in {"next", "failed"})' <=>
                               (InFlight(e) \/ st[e] \in {"next", "failed"}),
         value' = [value EXCEPT ![signal[c]] = @ - 1]
  PROVE  CountsAgree'
<1> DEFINE s == signal[c]
<1>1. c \in Counted(s)
  BY DEF Counted
<1>2. Counted(s)' = Counted(s) \ {c}
  BY DEF Counted
<1>3. ASSUME NEW r, r # s PROVE Counted(r)' = Counted(r)
  BY <1>3 DEF Counted
<1>4. Cardinality(Counted(s)') = Cardinality(Counted(s)) - 1
  BY <1>1, <1>2, CountedFinite, FS_RemoveElement
<1>5. \A b : PacketsOf(b)' = PacketsOf(b)
  BY DEF PacketsOf
<1>6. s \in Signals /\ \A e \in Copies : signal[e] # None => signal[e] \in Signals
  BY DEF IInv, TypeOK, Things
<1>7. value \in [Signals -> Int] /\ value[s] = Cardinality(Counted(s))
  BY DEF IInv, TypeOK, CountsAgree
<1>8. ASSUME NEW e \in Copies, signal[e] # None
      PROVE  value'[signal[e]] = Cardinality(Counted(signal[e])')
  <2>1. CASE signal[e] = s
    <3>1. value'[s] = value[s] - 1
      BY <1>6, <1>7
    <3>2. Counted(signal[e])' = Counted(s)'
      BY <2>1 DEF Counted
    <3> HIDE DEF s
    <3> QED BY <1>4, <1>7, <2>1, <3>1, <3>2
  <2>2. CASE signal[e] # s
    <3>1. value'[signal[e]] = value[signal[e]]
      BY <1>6, <1>7, <1>8, <2>2
    <3>2. value[signal[e]] = Cardinality(Counted(signal[e]))
      BY <1>8 DEF IInv, CountsAgree
    <3> QED BY <1>3, <2>2, <3>1, <3>2
  <2> QED BY <2>1, <2>2
<1>9. ASSUME NEW b \in Barriers, signal[b] # None
      PROVE  value'[signal[b]] = Cardinality(PacketsOf(b)') + Ceil(Cardinality(todo'[b]))
  <2>1. signal[b] # s /\ signal[b] \in Signals
    BY <1>9, TransfersAssumption DEF IInv, SignalOK, TypeOK, Things
  <2>2. value'[signal[b]] = value[signal[b]]
    BY <1>7, <2>1
  <2> QED BY <1>5, <1>9, <2>2 DEF IInv, CountsAgree
<1>10. ASSUME NEW e \in Copies, signal'[e] # None
       PROVE  (value[signal[e]] = Cardinality(Counted(signal[e])))'
  <2>1. Counted(signal[e])' = {x \in Copies : signal[x] = signal[e] /\
                                  (InFlight(x) \/ st[x] \in {"next", "failed"})'}
    BY DEF Counted
  <2> QED BY <1>8, <1>10
<1> QED BY <1>9, <1>10 DEF CountsAgree

(* A signal that counts something is none of those of a finished copy's    *)
(* dependencies.                                                           *)
LEMMA DepsStayZero ==
  ASSUME IInv, ~panicked, NEW s \in Signals, value[s] \in Nat, value[s] >= 1,
         value' = [value EXCEPT ![s] = @ - 1], UNCHANGED <<after, signal>>,
         \A c \in Copies : HasTransfer(c)' /\ dma'[c] = "done" =>
            \A d \in after[c] : value[signal[d]] = 0
  PROVE  DoneDeps'
<1>1. ASSUME NEW c \in Copies, HasTransfer(c)', dma'[c] = "done", NEW d \in after'[c]
      PROVE  value'[signal'[d]] = 0
  <2>1. d \in after[c] /\ value[signal[d]] = 0 /\ signal[d] # s
    BY <1>1
  <2>2. signal[d] \in Signals
    BY <2>1 DEF IInv, TypeOK, SignalOK, Things
  <2> QED BY <2>1, <2>2 DEF IInv, TypeOK
<1> QED BY <1>1 DEF DoneDeps

-----------------------------------------------------------------------------
(* The call of a group.                                                    *)

LEMMA CopyEmptyStep == ASSUME IInv, CopyEmpty PROVE IInv'
<1> DEFINE c == Next1
<1>1. c \in Copies /\ st[c] = "next" /\ c \in empty
  BY NextIs DEF CopyEmpty, Coming
<1>2. /\ value' = [value EXCEPT ![signal[c]] = @ - 1] /\ st' = [st EXCEPT ![c] = "made"]
      /\ UNCHANGED <<dma, packets, phase, empty, after, signal, made, kept, panicked, aborted, barVars>>
      /\ phase = "copy"
  BY DEF CopyEmpty, Coming
<1> HIDE DEF c
<1>3. signal[c] \in Signals /\ c \in Things /\ signal[c] # None /\ dma[c] = "none"
  BY <1>1, TransfersAssumption DEF IInv, TypeOK, SignalOK, StageOK, DmaOK, Things
<1>4. /\ \A e \in Copies \ {c} : st'[e] = st[e]
      /\ st'[c] = "made"
  BY <1>1, <1>2 DEF IInv, TypeOK
<1>5. TypeOK'
  BY <1>1, <1>2, <1>3 DEF IInv, TypeOK, CopyStates, barVars
<1>6. \A e \in Copies : st'[e] = "none" <=> st[e] = "none"
  BY <1>1, <1>4
<1>7. DmaOK'
  BY <1>1, <1>2, <1>3, <1>4 DEF IInv, StageOK, DmaOK, HasTransfer
<1>8. panicked' \/ CountsAgree'
  <2> SUFFICES ASSUME ~panicked PROVE CountsAgree'
    BY <1>2
  <2> QED BY <1>1, <1>2, <1>3, <1>4, CountsDown DEF InFlight, barVars
<1>9. MemoryOutlivesCopy'
  BY <1>1, <1>2, <1>3, <1>4 DEF IInv, MemoryOutlivesCopy, InFlight, HasTransfer
<1>10. DepsLive'
  <2>1. Owned' = Owned
    BY <1>1, <1>2, <1>4 DEF Owned, barVars
  <2> QED BY <1>1, <1>2, <1>4, <2>1 DEF IInv, DepsLive, HasTransfer
<1>11. DoneDeps'
  <2> SUFFICES ASSUME ~panicked PROVE DoneDeps'
    BY <1>2 DEF DoneDeps
  <2>1. value[signal[c]] \in Nat /\ value[signal[c]] >= 1
    BY <1>1, <1>3, CopyCounts
  <2>2. \A e \in Copies : HasTransfer(e)' /\ dma'[e] = "done" =>
          \A d \in after[e] : value[signal[d]] = 0
    BY <1>2, <1>3, <1>4 DEF IInv, DoneDeps, HasTransfer
  <2> QED BY <1>2, <1>3, <2>1, <2>2, DepsStayZero
<1> QED BY <1>2, <1>5, <1>6, <1>7, <1>8, <1>9, <1>10, <1>11, CopyStepOK

LEMMA CopyAsyncStep == ASSUME IInv, CopyAsync PROVE IInv'
<1> DEFINE c == Next1
<1>1. c \in Copies /\ st[c] = "next" /\ c \notin empty
  BY NextIs DEF CopyAsync, Coming
<1>2. /\ dma' = [dma EXCEPT ![c] = "started"] /\ st' = [st EXCEPT ![c] = "made"]
      /\ UNCHANGED <<value, packets, phase, empty, after, signal, made, kept, panicked, aborted, barVars>>
      /\ phase = "copy"
  BY DEF CopyAsync, Coming
<1> HIDE DEF c
<1>3. /\ \A e \in Copies \ {c} : st'[e] = st[e] /\ dma'[e] = dma[e]
      /\ st'[c] = "made" /\ dma'[c] = "started" /\ dma[c] = "none"
  BY <1>1, <1>2 DEF IInv, TypeOK, StageOK, DmaOK
<1>4. TypeOK'
  BY <1>1, <1>2 DEF IInv, TypeOK, CopyStates, barVars
<1>5. \A e \in Copies : st'[e] = "none" <=> st[e] = "none"
  BY <1>1, <1>3
<1>6. DmaOK'
  BY <1>1, <1>2, <1>3 DEF IInv, StageOK, DmaOK, HasTransfer
<1>7. CountsAgree'
  <2>1. \A e \in Copies : (InFlight(e) \/ st[e] \in {"next", "failed"})' <=>
                        (InFlight(e) \/ st[e] \in {"next", "failed"})
    BY <1>1, <1>3 DEF InFlight
  <2> QED BY <1>2, <2>1, CountsKept DEF barVars
<1>8. MemoryOutlivesCopy'
  BY <1>2, <1>3 DEF IInv, MemoryOutlivesCopy, InFlight, HasTransfer
<1>9. DepsLive'
  <2>1. Owned' = Owned
    BY <1>1, <1>2, <1>3 DEF Owned, barVars
  <2> QED BY <1>1, <1>2, <1>3, <2>1 DEF IInv, DepsLive, HasTransfer
<1>10. DoneDeps'
  BY <1>2, <1>3 DEF IInv, DoneDeps, HasTransfer
<1> QED BY <1>2, <1>4, <1>5, <1>6, <1>7, <1>8, <1>9, <1>10, CopyStepOK

LEMMA CopyFailsStep == ASSUME IInv, CopyFails PROVE IInv'
<1>1. /\ st' = [c \in Copies |-> IF st[c] = "next" THEN "failed" ELSE st[c]]
      /\ phase' = "fail"
      /\ UNCHANGED <<value, dma, packets, empty, after, signal, made, kept, panicked, aborted, barVars>>
  BY DEF CopyFails
<1>2. TypeOK'
  BY <1>1 DEF IInv, TypeOK, CopyStates, barVars
<1>3. \A e \in Copies :
       /\ st'[e] = "none" <=> st[e] = "none"
       /\ HasTransfer(e)' <=> HasTransfer(e)
       /\ st'[e] # "next"
       /\ st'[e] = "held" <=> st[e] = "held"
  BY <1>1 DEF HasTransfer
<1>4. DmaOK'
  BY <1>1, <1>3 DEF IInv, StageOK, DmaOK
<1>5. CountsAgree'
  <2>1. \A e \in Copies : (InFlight(e) \/ st[e] \in {"next", "failed"})' <=>
                        (InFlight(e) \/ st[e] \in {"next", "failed"})
    BY <1>1 DEF InFlight
  <2> QED BY <1>1, <2>1, CountsKept DEF barVars
<1>6. MemoryOutlivesCopy'
  BY <1>1, <1>3 DEF IInv, MemoryOutlivesCopy, InFlight
<1>7. DepsLive'
  <2>1. Owned' = Owned
    BY <1>1, <1>3 DEF Owned, barVars
  <2> QED BY <1>1, <1>3, <2>1 DEF IInv, DepsLive
<1>8. DoneDeps'
  BY <1>1, <1>3 DEF IInv, DoneDeps
<1> QED BY <1>1, <1>2, <1>3, <1>4, <1>5, <1>6, <1>7, <1>8, CopyStepOK

LEMMA ReturnStep == ASSUME IInv, Return PROVE IInv'
<1>1. /\ st' = [c \in Copies |-> IF st[c] = "made" THEN "held" ELSE st[c]]
      /\ phase' = "idle" /\ \A c \in Copies : st[c] # "next"
      /\ UNCHANGED <<value, dma, packets, empty, after, signal, made, kept, panicked, aborted, barVars>>
  BY DEF Return, Coming, Group
<1>2. TypeOK'
  BY <1>1 DEF IInv, TypeOK, CopyStates, barVars
<1>3. \A e \in Copies :
       /\ st'[e] = "none" <=> st[e] = "none"
       /\ HasTransfer(e)' <=> HasTransfer(e)
       /\ st'[e] \notin {"next", "made"}
       /\ st[e] = "held" => st'[e] = "held"
  BY <1>1 DEF HasTransfer
<1>4. DmaOK'
  BY <1>1, <1>3 DEF IInv, StageOK, DmaOK
<1>5. CountsAgree'
  <2>1. \A e \in Copies : (InFlight(e) \/ st[e] \in {"next", "failed"})' <=>
                        (InFlight(e) \/ st[e] \in {"next", "failed"})
    BY <1>1 DEF InFlight
  <2> QED BY <1>1, <2>1, CountsKept DEF barVars
<1>6. MemoryOutlivesCopy'
  BY <1>1, <1>3 DEF IInv, MemoryOutlivesCopy, InFlight
<1>7. DepsLive'
  <2>1. Owned \subseteq Owned'
    BY <1>1, <1>3 DEF Owned, barVars
  <2> QED BY <1>1, <1>3, <2>1 DEF IInv, DepsLive
<1>8. DoneDeps'
  BY <1>1, <1>3 DEF IInv, DoneDeps
<1>9. (phase = "idle" => Group = {})'
  BY <1>3 DEF Group
<1> QED BY <1>1, <1>2, <1>3, <1>4, <1>5, <1>6, <1>7, <1>8, <1>9, CopyStepOK

LEMMA ReturnErrStep == ASSUME IInv, ReturnErr PROVE IInv'
<1>1. UNCHANGED <<value, dma, packets, st, empty, after, signal, made, kept, panicked, aborted, barVars>>
  BY DEF ReturnErr
<1>2. TypeOK'
  BY <1>1 DEF IInv, TypeOK, barVars, ReturnErr
<1>3. DmaOK' /\ (phase = "idle" => Group = {})'
  BY <1>1 DEF IInv, StageOK, DmaOK, HasTransfer, ReturnErr, Group
<1>4. CountsAgree'
  BY <1>1, CountsKept DEF InFlight, barVars
<1>5. MemoryOutlivesCopy' /\ DoneDeps'
  BY <1>1 DEF IInv, MemoryOutlivesCopy, DoneDeps, HasTransfer, InFlight
<1>6. DepsLive'
  BY <1>1 DEF IInv, DepsLive, HasTransfer, Owned, barVars
<1> QED BY <1>1, <1>2, <1>3, <1>4, <1>5, <1>6, CopyStepOK

-----------------------------------------------------------------------------
(* Drops.                                                                  *)

LEMMA DropBegins == ASSUME IInv, NEW c \in Copies, Drop(c) PROVE IInv'
<1>1. /\ st[c] = "held" /\ ~Borrowed(c) /\ st' = [st EXCEPT ![c] = "dropping"]
      /\ UNCHANGED <<value, dma, packets, phase, empty, after, signal, made, kept, panicked, aborted, barVars>>
  BY DEF Drop
<1>2. TypeOK'
  BY <1>1 DEF IInv, TypeOK, CopyStates, barVars
<1>3. /\ st'[c] = "dropping"
      /\ \A e \in Copies \ {c} : st'[e] = st[e]
  BY <1>1 DEF IInv, TypeOK
<1>4. \A e \in Copies :
       /\ HasTransfer(e)' <=> HasTransfer(e)
       /\ st'[e] = "none" <=> st[e] = "none"
       /\ st'[e] = "next" <=> st[e] = "next"
       /\ st'[e] = "made" <=> st[e] = "made"
       /\ st'[e] = "failed" <=> st[e] = "failed"
  BY <1>1, <1>3 DEF HasTransfer
<1>5. DmaOK'
  BY <1>1, <1>4 DEF IInv, StageOK, DmaOK
<1>6. (phase = "idle" => Group = {})'
  BY <1>1, <1>4 DEF IInv, StageOK, Group
<1>7. CountsAgree'
  <2>1. \A e \in Copies : (InFlight(e) \/ st[e] \in {"next", "failed"})' <=>
                        (InFlight(e) \/ st[e] \in {"next", "failed"})
    BY <1>1, <1>4 DEF InFlight
  <2> QED BY <1>1, <2>1, CountsKept DEF barVars
<1>8. MemoryOutlivesCopy'
  BY <1>1, <1>4 DEF IInv, MemoryOutlivesCopy, InFlight
<1>9. DepsLive'
  <2>1. Owned \ {c} \subseteq Owned'
    BY <1>1, <1>3 DEF Owned, barVars
  <2>2. \A e \in Copies : HasTransfer(e) \/ st[e] = "next" => c \notin after[e]
    BY <1>1 DEF Borrowed
  <2> QED BY <1>1, <1>4, <2>1, <2>2 DEF IInv, DepsLive
<1>10. DoneDeps'
  BY <1>1, <1>4 DEF IInv, DoneDeps
<1>11. \A e \in Copies : st'[e] = "none" <=> st[e] = "none"
  BY <1>4
<1> QED BY <1>1, <1>2, <1>5, <1>6, <1>7, <1>8, <1>9, <1>10, <1>11, CopyStepOK

(* The memory of a copy may go when the copy is over, or a drop gave up.   *)
LEMMA Gone ==
  ASSUME IInv, NEW c \in Copies, st[c] \in {"dropping", "made"},
         st' = [st EXCEPT ![c] = "gone"],
         UNCHANGED <<value, dma, packets, phase, empty, after, signal, made, kept, barVars>>,
         panicked' \in BOOLEAN, aborted' \in BOOLEAN,
         panicked' \/ (panicked' = panicked /\ ~InFlight(c))
  PROVE  IInv'
<1>1. TypeOK'
  BY DEF IInv, TypeOK, CopyStates, barVars
<1>2. /\ st'[c] = "gone"
      /\ \A e \in Copies \ {c} : st'[e] = st[e]
  BY DEF IInv, TypeOK
<1>3. \A e \in Copies :
       /\ HasTransfer(e)' => HasTransfer(e)
       /\ e # c => (HasTransfer(e)' <=> HasTransfer(e))
       /\ st'[e] = "none" <=> st[e] = "none"
       /\ st'[e] = "next" <=> st[e] = "next"
       /\ st'[e] = "made" => st[e] = "made"
       /\ st'[e] = "failed" <=> st[e] = "failed"
  BY <1>2 DEF HasTransfer
<1>4. DmaOK'
  BY <1>3 DEF IInv, StageOK, DmaOK
<1>5. (phase = "idle" => Group = {})'
  BY <1>3 DEF IInv, StageOK, Group
<1>6. panicked' \/ CountsAgree'
  <2>1. \A e \in Copies : (InFlight(e) \/ st[e] \in {"next", "failed"})' <=>
                        (InFlight(e) \/ st[e] \in {"next", "failed"})
    BY <1>3 DEF InFlight
  <2> QED BY <2>1, CountsKept DEF barVars
<1>7. MemoryOutlivesCopy'
  BY <1>3 DEF IInv, MemoryOutlivesCopy, InFlight
<1>8. DepsLive'
  <2>1. Owned' = Owned
    BY <1>2 DEF Owned, barVars
  <2> QED BY <1>3, <2>1 DEF IInv, DepsLive
<1>9. DoneDeps'
  BY <1>3 DEF IInv, DoneDeps
<1>10. \A e \in Copies : st'[e] = "none" <=> st[e] = "none"
  BY <1>3
<1> QED BY <1>1, <1>4, <1>5, <1>6, <1>7, <1>8, <1>9, <1>10, CopyStepOK

LEMMA DropEndsStep == ASSUME IInv, NEW c \in Copies, DropEnds(c) PROVE IInv'
<1>1. st[c] \in {"dropping", "made"} /\ c \in Things /\ signal[c] # None
  BY DEF DropEnds, InDrop, IInv, SignalOK, Things
<1>2. value[signal[c]] < 1
  BY DEF DropEnds, WaitOver
<1>3. ASSUME ~panicked PROVE ~InFlight(c)
  BY <1>1, <1>2, <1>3, CopyCounts
<1>4. panicked \in BOOLEAN /\ aborted \in BOOLEAN
  BY DEF IInv, TypeOK
<1> QED BY <1>1, <1>3, <1>4, Gone DEF DropEnds

LEMMA DropPanicsStep == ASSUME IInv, NEW c \in Copies, DropPanics(c) PROVE IInv'
<1>1. st[c] \in {"dropping", "made"}
  BY DEF DropPanics, InDrop
<1>2. panicked' = TRUE /\ aborted' \in BOOLEAN
  BY DEF DropPanics
<1> QED BY <1>1, <1>2, Gone DEF DropPanics

-----------------------------------------------------------------------------
(* Barriers: a step that leaves the copies where they are.                 *)

LEMMA BarrierStepOK ==
  ASSUME IInv, UNCHANGED <<st, dma, empty, phase, panicked>>,
         TypeOK', PacketOK', SignalOK', TodoOK', CountsAgree', DepsLive', DoneDeps'
  PROVE  IInv'
<1>1. GivenFromBelow' /\ (phase = "idle" => Group = {})'
  BY DEF IInv, StageOK, GivenFromBelow, Group
<1>2. DmaOK' /\ MemoryOutlivesCopy'
  BY DEF IInv, StageOK, DmaOK, MemoryOutlivesCopy, HasTransfer, InFlight
<1> QED BY <1>1, <1>2 DEF IInv, StageOK

(* The signal of a barrier counts its packets before there are any.        *)
LEMMA BarrierMade ==
  ASSUME IInv, NEW b \in Barriers, NEW D \in SUBSET Owned, Barrier(b, D)
  PROVE  IInv'
<1> DEFINE f == Fresh("global")
<1>1. /\ bar[b] = "none" /\ D \subseteq Owned \ {b}
      /\ UNCHANGED <<dma, packets, st, phase, empty, kept, panicked, aborted>>
  BY DEF Barrier
<1>2. /\ value' = [value EXCEPT ![f] = Ceil(Cardinality(D))] /\ made' = made \cup {f}
      /\ signal' = [signal EXCEPT ![b] = f] /\ after' = [after EXCEPT ![b] = D]
      /\ todo' = [todo EXCEPT ![b] = D] /\ bar' = [bar EXCEPT ![b] = "calling"]
  BY DEF Barrier, PacketCount
<1>3. f \in Signals /\ f # None /\ f \notin made /\ \A x \in Things : signal[x] # f
  BY FreshIs, FreshFree DEF Barrier, IInv
<1> HIDE DEF f
<1>4. b \in Things /\ b \notin Copies /\ Copies \subseteq Things /\ Barriers \subseteq Things
  BY TransfersAssumption DEF Things
<1>5. D \subseteq Things /\ b \notin D /\ \A d \in D : signal[d] # None
  BY <1>1 DEF Owned, IInv, SignalOK, Things
<1>6. Cardinality(D) \in Nat /\ Ceil(Cardinality(D)) \in Nat
  BY <1>5, TodoFinite, CeilNat
<1>7. signal[b] = None /\ after[b] = {}
  BY <1>1 DEF IInv, SignalOK, StageOK, TodoOK
<1>8. /\ signal'[b] = f /\ after'[b] = D /\ todo'[b] = D /\ bar'[b] = "calling"
      /\ \A x \in Things : x # b => signal'[x] = signal[x] /\ after'[x] = after[x]
      /\ \A a \in Barriers : a # b => todo'[a] = todo[a] /\ bar'[a] = bar[a]
      /\ value'[f] = Ceil(Cardinality(D))
      /\ \A s \in Signals : s # f => value'[s] = value[s]
  BY <1>2, <1>3, <1>4 DEF IInv, TypeOK
<1>9. \A p \in packets : p.bar \in Barriers /\ p.bar # b
  BY <1>7 DEF IInv, PacketOK, Packet
<1>10. TypeOK'
  <2>1. value' \in [Signals -> Int] /\ made' \subseteq Signals
    BY <1>2, <1>3, <1>6 DEF IInv, TypeOK
  <2>2. after' \in [Things -> SUBSET Things] /\ signal' \in [Things -> Signals \cup {None}]
    BY <1>2, <1>3, <1>5 DEF IInv, TypeOK
  <2>3. /\ todo' \in [Barriers -> SUBSET Things]
        /\ bar' \in [Barriers -> {"none", "calling", "held", "failed"}]
    BY <1>2, <1>5 DEF IInv, TypeOK
  <2> QED BY <1>1, <2>1, <2>2, <2>3 DEF IInv, TypeOK
<1>11. PacketOK'
  <2>1. ASSUME NEW p \in packets PROVE /\ p.of \subseteq after'[p.bar]
                                       /\ p.of \cap todo'[p.bar] = {}
                                       /\ p.deps = {signal'[d] : d \in p.of}
    <3>1. /\ p.of \subseteq after[p.bar] /\ p.of \cap todo[p.bar] = {}
          /\ p.deps = {signal[d] : d \in p.of} /\ p.of \subseteq Things
      BY DEF IInv, PacketOK, Packet
    <3>2. b \notin p.of
      BY <1>4, <1>7, <1>9, <3>1 DEF IInv, SignalOK
    <3> QED BY <1>4, <1>8, <1>9, <3>1, <3>2
  <2> QED BY <1>1, <2>1 DEF IInv, PacketOK
<1>12. SignalOK'
  <2>1. \A c \in Copies : st'[c] = "none" <=> signal'[c] = None
    BY <1>1, <1>4, <1>8 DEF IInv, SignalOK
  <2>2. \A a \in Barriers : bar'[a] = "none" <=> signal'[a] = None
    BY <1>3, <1>4, <1>8 DEF IInv, SignalOK
  <2>3. ASSUME NEW x \in Things PROVE /\ signal'[x] # None => signal'[x] \in made'
                                      /\ \A d \in after'[x] : signal'[d] # None
    <3>1. signal'[x] # None => signal'[x] \in made'
      BY <1>2, <1>8 DEF IInv, SignalOK
    <3>2. \A d \in after[x] : d \in Things /\ d # b /\ signal[d] # None
      BY <1>7 DEF IInv, SignalOK, TypeOK
    <3> QED BY <1>3, <1>5, <1>8, <3>1, <3>2
  <2>4. \A v \in Kept : kept'[v] # None =>
          kept'[v] \in made' /\ \A a \in Barriers : signal'[a] # kept'[v]
    BY <1>1, <1>2, <1>3, <1>4, <1>8 DEF IInv, SignalOK
  <2>5. \A a \in Barriers, x \in Things :
          signal'[a] # None /\ signal'[x] = signal'[a] => x = a
    BY <1>3, <1>4, <1>8 DEF IInv, SignalOK
  <2> QED BY <2>1, <2>2, <2>3, <2>4, <2>5 DEF SignalOK
<1>13. TodoOK'
  BY <1>4, <1>8 DEF IInv, StageOK, TodoOK
<1>14. CountsAgree'
  <2> SUFFICES ASSUME ~panicked PROVE CountsAgree'
    BY <1>1 DEF CountsAgree
  <2>1. ASSUME NEW c \in Copies, signal'[c] # None
        PROVE  (value[signal[c]] = Cardinality(Counted(signal[c])))'
    <3>1. \A s : Counted(s)' = Counted(s)
      BY <1>1, <1>4, <1>8 DEF Counted, InFlight
    <3>2. signal'[c] = signal[c] /\ signal[c] \in Signals /\ signal[c] # f
      BY <1>3, <1>4, <1>8, <2>1 DEF IInv, TypeOK
    <3> QED BY <1>8, <3>1, <3>2, TransfersAssumption DEF IInv, CountsAgree
  <2>2. ASSUME NEW a \in Barriers, signal'[a] # None
        PROVE  (value[signal[a]] = Cardinality(PacketsOf(a)) + Ceil(Cardinality(todo[a])))'
    <3>1. PacketsOf(a)' = PacketsOf(a)
      BY <1>1 DEF PacketsOf
    <3>2. CASE a = b
      <4>1. PacketsOf(b) = {}
        BY <1>9 DEF PacketsOf
      <4>2. Cardinality(PacketsOf(b)') = 0
        BY <3>1, <3>2, <4>1, FS_EmptySet
      <4> QED BY <1>6, <1>8, <3>2, <4>2
    <3>3. CASE a # b
      <4>1. signal'[a] = signal[a] /\ signal[a] \in Signals /\ signal[a] # f /\ todo'[a] = todo[a]
        BY <1>3, <1>4, <1>8, <2>2, <3>3 DEF IInv, TypeOK
      <4> QED BY <1>8, <3>1, <4>1, TransfersAssumption DEF IInv, CountsAgree
    <3> QED BY <3>2, <3>3
  <2> QED BY <2>1, <2>2 DEF CountsAgree
<1>15. DepsLive'
  <2>1. Owned' = Owned
    <3>1. \A x \in Things : x \in Copies \/ (x \in Barriers /\ (bar'[x] = "held" <=> bar[x] = "held"))
      BY <1>1, <1>8 DEF Things
    <3> QED BY <1>1, <3>1 DEF Owned
  <2> QED BY <1>1, <1>4, <1>8, <2>1 DEF IInv, DepsLive, HasTransfer
<1>16. DoneDeps'
  <2>1. ASSUME ~panicked, NEW c \in Copies, HasTransfer(c)', dma'[c] = "done", NEW d \in after'[c]
        PROVE  value'[signal'[d]] = 0
    <3>1. HasTransfer(c) /\ dma[c] = "done" /\ d \in after[c] /\ c \in Things
      BY <1>1, <1>4, <1>8, <2>1 DEF HasTransfer
    <3>2. value[signal[d]] = 0 /\ signal[d] # None /\ d \in Things
      BY <2>1, <3>1 DEF IInv, DoneDeps, SignalOK, TypeOK
    <3>3. signal'[d] = signal[d] /\ signal[d] \in Signals /\ signal[d] # f
      BY <1>3, <1>7, <1>8, <3>2 DEF IInv, TypeOK
    <3> QED BY <1>8, <3>2, <3>3
  <2> QED BY <1>1, <2>1 DEF DoneDeps
<1> QED BY <1>1, <1>10, <1>11, <1>12, <1>13, <1>14, <1>15, <1>16, BarrierStepOK

(* A packet stands for dependencies that no other packet stands for, and   *)
(* what is left needs one packet less.                                     *)
LEMMA EnqueueStep == ASSUME IInv, NEW b \in Barriers, EnqueueBarrier(b) PROVE IInv'
<1>1. PICK B \in Batches(todo[b]) :
        /\ packets' = packets \cup {[bar |-> b, deps |-> {signal[d] : d \in B}, of |-> B]}
        /\ todo' = [todo EXCEPT ![b] = @ \ B]
  BY DEF EnqueueBarrier
<1> DEFINE p == [bar |-> b, deps |-> {signal[d] : d \in B}, of |-> B]
<1>2. UNCHANGED <<value, dma, st, phase, empty, after, signal, made, kept, panicked, aborted, bar>>
      /\ bar[b] = "calling"
  BY DEF EnqueueBarrier, hostVars
<1>3. todo[b] \in SUBSET Things /\ todo[b] \subseteq after[b]
  BY DEF IInv, TypeOK, StageOK, TodoOK
<1>4. B \subseteq todo[b] /\ (Cardinality(B) = PacketDeps
                             \/ (B = todo[b] /\ B # {} /\ Cardinality(B) < PacketDeps))
  BY <1>1 DEF Batches
<1>5. B # {}
  BY <1>4, FS_EmptySet, TransfersAssumption
<1>6. p.bar = b /\ p.of = B /\ p.deps = {signal[d] : d \in B}
  OBVIOUS
<1>7. p \notin packets
  BY <1>4, <1>5, <1>6 DEF IInv, PacketOK
<1>8. p \in Packet
  <2>1. b \in Things
    BY DEF Things
  <2>2. \A d \in B : signal[d] \in Signals
    BY <1>3, <1>4, <2>1 DEF IInv, SignalOK, TypeOK
  <2> QED BY <1>3, <1>4, <2>2 DEF Packet
<1>9. packets' = packets \cup {p}
  BY <1>1
<1> HIDE DEF p
<1>10. /\ todo'[b] = todo[b] \ B
       /\ \A a \in Barriers : todo'[a] \subseteq todo[a] /\ (a # b => todo'[a] = todo[a])
  BY <1>1 DEF IInv, TypeOK
<1>11. TypeOK'
  <2>1. todo' \in [Barriers -> SUBSET Things]
    BY <1>1, <1>3 DEF IInv, TypeOK
  <2> QED BY <1>2, <2>1 DEF IInv, TypeOK
<1>12. PacketOK'
  <2>1. packets' \subseteq Packet
    BY <1>8, <1>9 DEF IInv, PacketOK
  <2>2. IsFiniteSet(packets')
    BY <1>9, FS_AddElement DEF IInv, PacketOK
  <2>3. ASSUME NEW q \in packets'
        PROVE  /\ q.of # {} /\ q.of \subseteq after'[q.bar] /\ q.of \cap todo'[q.bar] = {}
               /\ q.deps = {signal'[d] : d \in q.of}
    <3>1. CASE q = p
      BY <1>2, <1>3, <1>4, <1>5, <1>6, <1>10, <3>1
    <3>2. CASE q \in packets
      <4>1. q.bar \in Barriers
        BY <3>2 DEF IInv, PacketOK, Packet
      <4> QED BY <1>2, <1>10, <3>2, <4>1 DEF IInv, PacketOK
    <3> QED BY <1>9, <3>1, <3>2
  <2> QED BY <2>1, <2>2, <2>3 DEF PacketOK
<1>13. SignalOK'
  BY <1>2 DEF IInv, SignalOK
<1>14. TodoOK'
  BY <1>2, <1>10 DEF IInv, StageOK, TodoOK
<1>15. CountsAgree'
  <2> SUFFICES ASSUME ~panicked PROVE CountsAgree'
    BY <1>2 DEF CountsAgree
  <2>1. ASSUME NEW c \in Copies, signal'[c] # None
        PROVE  (value[signal[c]] = Cardinality(Counted(signal[c])))'
    <3>1. \A s : Counted(s)' = Counted(s)
      BY <1>2 DEF Counted, InFlight
    <3> QED BY <1>2, <2>1, <3>1 DEF IInv, CountsAgree
  <2>2. ASSUME NEW a \in Barriers, signal'[a] # None
        PROVE  (value[signal[a]] = Cardinality(PacketsOf(a)) + Ceil(Cardinality(todo[a])))'
    <3>1. value[signal[a]] = Cardinality(PacketsOf(a)) + Ceil(Cardinality(todo[a]))
      BY <1>2, <2>2 DEF IInv, CountsAgree
    <3>2. CASE a # b
      <4>1. PacketsOf(a)' = PacketsOf(a)
        BY <1>6, <1>9, <3>2 DEF PacketsOf
      <4> QED BY <1>2, <1>10, <3>1, <3>2, <4>1
    <3>3. CASE a = b
      <4> DEFINE n == Cardinality(todo[b])
                 m == Cardinality(todo[b] \ B)
      <4>1. PacketsOf(b)' = PacketsOf(b) \cup {p} /\ p \notin PacketsOf(b)
        BY <1>6, <1>7, <1>9 DEF PacketsOf
      <4>2. Cardinality(PacketsOf(b)') = Cardinality(PacketsOf(b)) + 1
        BY <4>1, PacketsFinite, FS_AddElement DEF IInv, PacketOK
      <4>3. /\ n \in Nat /\ m \in Nat /\ Cardinality(B) \in Nat
            /\ m = n - Cardinality(B)
        <5>1. IsFiniteSet(todo[b]) /\ todo[b] \cap B = B
          BY <1>3, <1>4, TodoFinite
        <5>2. B \in SUBSET Things /\ todo[b] \ B \in SUBSET Things
          BY <1>3, <1>4
        <5> QED BY <1>3, <5>1, <5>2, TodoFinite, FS_Difference
      <4>4. Ceil(n) = 1 + Ceil(m)
        <5>1. CASE Cardinality(B) = PacketDeps
          <6>1. PacketDeps <= n /\ m = n - PacketDeps
            BY <4>3, <5>1, TransfersAssumption
          <6> HIDE DEF n, m
          <6> QED BY <4>3, <6>1, CeilMore
        <5>2. CASE B = todo[b] /\ Cardinality(B) < PacketDeps
          <6>1. m = 0 /\ n < PacketDeps /\ n # 0
            BY <1>3, <1>5, <4>3, <5>2, TodoFinite, FS_EmptySet
          <6> HIDE DEF n, m
          <6> QED BY <4>3, <6>1, CeilFew, CeilZero
        <5> QED BY <1>4, <5>1, <5>2
      <4>5. Ceil(m) \in Nat /\ Cardinality(PacketsOf(b)) \in Nat
        BY <4>3, CeilNat, PacketsFinite DEF IInv, PacketOK
      <4>6. value'[signal'[b]] = value[signal[b]] /\ Cardinality(todo'[b]) = m
        BY <1>2, <1>10
      <4>7. value[signal[b]] = Cardinality(PacketsOf(b)) + Ceil(n)
        BY <3>1, <3>3
      <4> HIDE DEF n, m
      <4> QED BY <3>3, <4>2, <4>4, <4>5, <4>6, <4>7
    <3> QED BY <3>2, <3>3
  <2> QED BY <2>1, <2>2 DEF CountsAgree
<1>16. DepsLive' /\ DoneDeps'
  BY <1>2 DEF IInv, DepsLive, DoneDeps, HasTransfer, Owned
<1> QED BY <1>2, <1>11, <1>12, <1>13, <1>14, <1>15, <1>16, BarrierStepOK

(* The call of a barrier fails or returns.                                 *)
LEMMA BarrierEnds ==
  ASSUME IInv, NEW b \in Barriers, BarrierFails(b) \/ BarrierReturns(b)
  PROVE  IInv'
<1>1. PICK r \in {"held", "failed"} : bar' = [bar EXCEPT ![b] = r]
  BY DEF BarrierFails, BarrierReturns
<1>2. /\ UNCHANGED <<value, dma, packets, todo, st, phase, empty, after, signal, made, kept, panicked, aborted>>
      /\ bar[b] = "calling"
  BY DEF BarrierFails, BarrierReturns, hostVars
<1>3. /\ bar'[b] = r
      /\ \A a \in Barriers : a # b => bar'[a] = bar[a]
      /\ \A a \in Barriers : bar'[a] = "none" <=> bar[a] = "none"
      /\ \A a \in Barriers : bar[a] = "held" => bar'[a] = "held"
  BY <1>1, <1>2 DEF IInv, TypeOK
<1>4. TypeOK'
  BY <1>1, <1>2 DEF IInv, TypeOK
<1>5. PacketOK'
  BY <1>2 DEF IInv, PacketOK
<1>6. SignalOK'
  BY <1>2, <1>3 DEF IInv, SignalOK
<1>7. TodoOK'
  BY <1>2, <1>3 DEF IInv, StageOK, TodoOK
<1>8. CountsAgree'
  BY <1>2, CountsKept DEF InFlight
<1>9. DepsLive'
  <2>1. Owned \subseteq Owned'
    BY <1>2, <1>3 DEF Owned, Things
  <2> QED BY <1>2, <2>1 DEF IInv, DepsLive, HasTransfer
<1>10. DoneDeps'
  BY <1>2 DEF IInv, DoneDeps, HasTransfer
<1> QED BY <1>2, <1>4, <1>5, <1>6, <1>7, <1>8, <1>9, <1>10, BarrierStepOK

-----------------------------------------------------------------------------
(* The DMA engine and the packet processor.                                *)

LEMMA FinishDmaStep == ASSUME IInv, NEW c \in Copies, FinishDma(c) PROVE IInv'
<1>1. /\ dma[c] = "started" /\ \A d \in after[c] : value[signal[d]] = 0
      /\ dma' = [dma EXCEPT ![c] = "done"] /\ value' = [value EXCEPT ![signal[c]] = @ - 1]
  BY DEF FinishDma, InFlight, DepSignals
<1>2. UNCHANGED <<packets, st, phase, empty, after, signal, made, kept, panicked, aborted, barVars>>
  BY DEF FinishDma, hostVars
<1>3. st[c] \notin {"none", "next", "failed"} /\ c \in Things
  BY <1>1 DEF IInv, StageOK, DmaOK, Things
<1>4. signal[c] # None /\ signal[c] \in Signals
  BY <1>3 DEF IInv, SignalOK, TypeOK
<1>5. /\ dma'[c] = "done"
      /\ \A e \in Copies \ {c} : dma'[e] = dma[e]
  BY <1>1 DEF IInv, TypeOK
<1>6. TypeOK'
  BY <1>1, <1>2, <1>4 DEF IInv, TypeOK, barVars
<1>7. DmaOK' /\ (phase = "idle" => Group = {})'
  BY <1>1, <1>2, <1>3, <1>5 DEF IInv, StageOK, DmaOK, HasTransfer, Group
<1>8. panicked' \/ CountsAgree'
  <2> SUFFICES ASSUME ~panicked PROVE CountsAgree'
    BY <1>2
  <2> QED BY <1>1, <1>2, <1>3, <1>4, <1>5, CountsDown DEF InFlight, barVars
<1>9. MemoryOutlivesCopy'
  BY <1>2, <1>5 DEF IInv, MemoryOutlivesCopy, InFlight, HasTransfer
<1>10. DepsLive'
  BY <1>2 DEF IInv, DepsLive, HasTransfer, Owned, barVars
<1>11. DoneDeps'
  <2> SUFFICES ASSUME ~panicked PROVE DoneDeps'
    BY <1>2 DEF DoneDeps
  <2>1. value[signal[c]] \in Nat /\ value[signal[c]] >= 1
    BY <1>1, <1>4, CopyCounts DEF InFlight
  <2>2. \A e \in Copies : HasTransfer(e)' /\ dma'[e] = "done" =>
          \A d \in after[e] : value[signal[d]] = 0
    BY <1>1, <1>2, <1>5 DEF IInv, DoneDeps, HasTransfer
  <2> QED BY <1>1, <1>2, <1>4, <2>1, <2>2, DepsStayZero
<1> QED BY <1>2, <1>6, <1>7, <1>8, <1>9, <1>10, <1>11, CopyStepOK

LEMMA FinishPacketStep == ASSUME IInv, FinishPacket PROVE IInv'
<1>1. PICK p \in packets : /\ packets' = packets \ {p}
                           /\ value' = [value EXCEPT ![signal[p.bar]] = @ - 1]
  BY DEF FinishPacket
<1> DEFINE s == signal[p.bar]
<1>2. UNCHANGED <<dma, st, phase, empty, after, signal, made, kept, panicked, aborted, bar, todo>>
  BY DEF FinishPacket, hostVars, barVars
<1>3. p.bar \in Barriers /\ p.bar \in Things /\ s # None
  BY DEF IInv, PacketOK, Packet, StageOK, TodoOK, SignalOK, Things
<1>4. s \in Signals
  BY <1>3 DEF IInv, TypeOK
<1>5. /\ value[s] \in Int /\ value'[s] = value[s] - 1
      /\ \A r \in Signals : r # s => value'[r] = value[r]
  BY <1>1, <1>4 DEF IInv, TypeOK
<1>6. TypeOK'
  BY <1>1, <1>2, <1>4 DEF IInv, TypeOK
<1>7. PacketOK'
  <2>1. IsFiniteSet(packets')
    BY <1>1, FS_RemoveElement DEF IInv, PacketOK
  <2> QED BY <1>1, <1>2, <2>1 DEF IInv, PacketOK
<1>8. SignalOK' /\ TodoOK'
  BY <1>2 DEF IInv, SignalOK, StageOK, TodoOK
<1>9. CountsAgree'
  <2> SUFFICES ASSUME ~panicked PROVE CountsAgree'
    BY <1>2 DEF CountsAgree
  <2>1. ASSUME NEW c \in Copies, signal'[c] # None
        PROVE  (value[signal[c]] = Cardinality(Counted(signal[c])))'
    <3>1. \A r : Counted(r)' = Counted(r)
      BY <1>2 DEF Counted, InFlight
    <3>2. c \in Things /\ signal[c] # None /\ signal[c] \in Signals /\ c # p.bar
      BY <1>2, <1>3, <2>1, TransfersAssumption DEF IInv, TypeOK, Things
    <3>3. signal[c] # s
      BY <1>3, <3>2 DEF IInv, SignalOK
    <3> QED BY <1>2, <1>5, <3>1, <3>2, <3>3 DEF IInv, CountsAgree
  <2>2. ASSUME NEW b \in Barriers, signal'[b] # None
        PROVE  (value[signal[b]] = Cardinality(PacketsOf(b)) + Ceil(Cardinality(todo[b])))'
    <3>1. /\ value[signal[b]] = Cardinality(PacketsOf(b)) + Ceil(Cardinality(todo[b]))
          /\ todo'[b] = todo[b] /\ signal'[b] = signal[b] /\ signal[b] # None
      BY <1>2, <2>2 DEF IInv, CountsAgree
    <3>2. CASE b = p.bar
      <4>1. PacketsOf(b)' = PacketsOf(b) \ {p} /\ p \in PacketsOf(b)
        BY <1>1, <3>2 DEF PacketsOf
      <4>2. /\ Cardinality(PacketsOf(b)') = Cardinality(PacketsOf(b)) - 1
            /\ Cardinality(PacketsOf(b)) \in Nat
        BY <4>1, PacketsFinite, FS_RemoveElement DEF IInv, PacketOK
      <4>3. Ceil(Cardinality(todo[b])) \in Nat
        BY TodoFinite, CeilNat DEF IInv, TypeOK
      <4> QED BY <1>5, <3>1, <3>2, <4>2, <4>3
    <3>3. CASE b # p.bar
      <4>1. PacketsOf(b)' = PacketsOf(b)
        BY <1>1, <3>3 DEF PacketsOf
      <4>2. signal[b] # s /\ signal[b] \in Signals
        BY <1>3, <3>1, <3>3 DEF IInv, SignalOK, TypeOK, Things
      <4> QED BY <1>5, <3>1, <4>1, <4>2
    <3> QED BY <3>2, <3>3
  <2> QED BY <2>1, <2>2 DEF CountsAgree
<1>10. DepsLive'
  BY <1>2 DEF IInv, DepsLive, HasTransfer, Owned
<1>11. DoneDeps'
  <2> SUFFICES ASSUME ~panicked PROVE DoneDeps'
    BY <1>2 DEF DoneDeps
  <2>1. value[s] \in Nat /\ value[s] >= 1
    BY PacketCounts
  <2>2. \A e \in Copies : HasTransfer(e)' /\ dma'[e] = "done" =>
          \A d \in after[e] : value[signal[d]] = 0
    BY <1>2 DEF IInv, DoneDeps, HasTransfer
  <2> HIDE DEF s
  <2>3. value' = [value EXCEPT ![s] = @ - 1]
    BY <1>1 DEF s
  <2> QED BY <1>2, <1>4, <2>1, <2>2, <2>3, DepsStayZero
<1> QED BY <1>2, <1>6, <1>7, <1>8, <1>9, <1>10, <1>11, BarrierStepOK

-----------------------------------------------------------------------------
LEMMA Stutter == ASSUME IInv, UNCHANGED vars PROVE IInv'
<1>1. UNCHANGED <<value, dma, packets, st, phase, empty, after, signal, made, kept, panicked, aborted, bar, todo>>
  BY DEF vars, hostVars, barVars
<1>2. TypeOK'
  BY <1>1 DEF IInv, TypeOK
<1>3. PacketOK' /\ SignalOK' /\ TodoOK'
  BY <1>1 DEF IInv, PacketOK, SignalOK, StageOK, TodoOK
<1>4. CountsAgree'
  BY <1>1, CountsKept DEF InFlight
<1>5. DepsLive' /\ DoneDeps'
  BY <1>1 DEF IInv, DepsLive, DoneDeps, HasTransfer, Owned
<1> QED BY <1>1, <1>2, <1>3, <1>4, <1>5, BarrierStepOK

LEMMA NextIInv == IInv /\ [Next]_vars => IInv'
<1> SUFFICES ASSUME IInv, [Next]_vars PROVE IInv'
  OBVIOUS
<1>1. ASSUME NEW n \in 1 .. MaxCopies, NEW D \in SUBSET Owned, NEW E \in SUBSET (1 .. n),
             \/ \E v \in Kept : Memcopy(v, n, E, D)
             \/ \E v \in New : Memcopy2(v, n, E, D)
      PROVE  IInv'
  BY <1>1, MemcopyStep, Memcopy2Step
<1>2. ASSUME NEW b \in Barriers, BarrierStep(b) \/ \E D \in SUBSET Owned : Barrier(b, D)
      PROVE  IInv'
  BY <1>2, EnqueueStep, BarrierEnds, BarrierMade DEF BarrierStep
<1>3. CASE CallStep
  BY <1>3, CopyEmptyStep, CopyAsyncStep, CopyFailsStep, ReturnStep, ReturnErrStep DEF CallStep
<1>4. ASSUME NEW c \in Copies, Drop(c) \/ DropStep(c) PROVE IInv'
  BY <1>4, DropBegins, DropEndsStep, DropPanicsStep DEF DropStep
<1>5. CASE Engine
  BY <1>5, FinishDmaStep, FinishPacketStep DEF Engine
<1>6. CASE UNCHANGED vars
  BY <1>6, Stutter
<1> QED BY <1>1, <1>2, <1>3, <1>4, <1>5, <1>6 DEF Next

LEMMA SpecIInv == Spec => []IInv
BY InitIInv, NextIInv, PTL DEF Spec

-----------------------------------------------------------------------------
(* The value of a signal is the number of copies, or of barrier packets,   *)
(* that will still count it down or never will because a call failed: what *)
(* memcopy and barrier_impl store in advance is what they then start, and  *)
(* no signal is stored to that a copy or a packet still counts down.       *)
THEOREM SignalsCountWork == Spec => []CountsAgree
BY SpecIInv, PTL DEF IInv

(* H2DMemoryTransfer::drop frees neither side of a copy that is not over.  *)
THEOREM MemoryIsFreedAfterCopies == Spec => []MemoryOutlivesCopy
BY SpecIInv, PTL DEF IInv

(* "self.transfer already depends on self.deps", of every transfer with    *)
(* something to copy: its zero signal implies those of its dependencies.   *)
THEOREM CopiesImplyTheirDeps == Spec => []CopyImpliesDeps
<1>1. IInv => CopyImpliesDeps
  <2> SUFFICES ASSUME IInv, ~panicked, NEW c \in Copies \ empty, HasTransfer(c),
                      value[signal[c]] = 0, NEW d \in after[c]
               PROVE  value[signal[d]] = 0
    BY DEF CopyImpliesDeps
  <2>1. signal[c] # None /\ dma[c] \in {"started", "done"}
    BY DEF IInv, SignalOK, HasTransfer, StageOK, DmaOK, TypeOK
  <2>2. ~InFlight(c)
    BY <2>1, CopyCounts
  <2> QED BY <2>1, <2>2 DEF IInv, DoneDeps, InFlight
<1> QED BY <1>1, SpecIInv, PTL

-----------------------------------------------------------------------------
(* What a signal waits for is not set again.                               *)

(* A program that keeps what a barrier waits for has it.                   *)
PendingKept == \A b \in Barriers : Pending(b) => after[b] \subseteq Owned

(* A packet is of a barrier, and waits for signals of its dependencies.    *)
LEMMA PacketIs ==
  ASSUME IInv, NEW p \in packets
  PROVE  /\ p.bar \in Barriers /\ Pending(p.bar)
         /\ p.of \subseteq after[p.bar] /\ p.deps = {signal[d] : d \in p.of}
BY DEF IInv, PacketOK, Packet, Pending

(* Only the program's own drop takes a held transfer away.                 *)
LEMMA OwnedStays ==
  ASSUME IInv, Next, NEW x \in Owned
  PROVE  x \in Owned' \/ (x \in Copies /\ Drop(x))
<1>1. x \in Things /\ (x \in Copies => st[x] = "held") /\ (x \notin Copies => bar[x] = "held")
  BY DEF Owned
<1>2. ASSUME NEW s, NEW n \in 1 .. MaxCopies, NEW E, NEW D, Begin(s, n, E, D), bar' = bar
      PROVE  x \in Owned'
  <2> DEFINE old == {c \in Copies : st[c] # "none"}
             new == (Cardinality(old) + 1) .. (Cardinality(old) + n)
  <2>1. PICK k \in 0 .. MaxCopies : old = 1 .. k
    BY DEF IInv, StageOK, GivenFromBelow
  <2>2. k \in Nat /\ Cardinality(1 .. k) = k
    BY TransfersAssumption, FS_Interval
  <2>3. x \in Copies => x \in 1 .. k
    BY <1>1, <2>1
  <2>4. x \in Copies => x \notin new
    <3>1. Cardinality(old) = k
      BY <2>1, <2>2
    <3> HIDE DEF old
    <3> QED BY <2>2, <2>3, <3>1
  <2>5. x \in Copies => st'[x] = "held"
    BY <1>1, <1>2, <2>4 DEF Begin
  <2> QED BY <1>1, <1>2, <2>5 DEF Owned
<1>3. ASSUME NEW n \in 1 .. MaxCopies, NEW D \in SUBSET Owned, NEW E \in SUBSET (1 .. n),
             \/ \E v \in Kept : Memcopy(v, n, E, D)
             \/ \E v \in New : Memcopy2(v, n, E, D)
      PROVE  x \in Owned'
  BY <1>2, <1>3 DEF Memcopy, Memcopy2, barVars
<1>4. ASSUME NEW b \in Barriers, BarrierStep(b) \/ \E D \in SUBSET Owned : Barrier(b, D)
      PROVE  x \in Owned'
  <2>1. st' = st /\ bar[b] # "held"
    BY <1>4 DEF BarrierStep, EnqueueBarrier, BarrierFails, BarrierReturns, Barrier, hostVars
  <2>2. x \notin Copies => bar'[x] = bar[x]
    BY <1>1, <1>4, <2>1 DEF BarrierStep, EnqueueBarrier, BarrierFails, BarrierReturns, Barrier,
                            IInv, TypeOK, Things
  <2> QED BY <1>1, <2>1, <2>2 DEF Owned
<1>5. ASSUME CallStep PROVE x \in Owned'
  <2>1. bar' = bar
    BY <1>5 DEF CallStep, CopyEmpty, CopyAsync, CopyFails, Return, ReturnErr, barVars
  <2>2. ASSUME x \in Copies, CopyEmpty \/ CopyAsync PROVE st'[x] = "held"
    <3>1. Next1 \in Copies /\ st[Next1] = "next" /\ st' = [st EXCEPT ![Next1] = "made"]
      BY <2>2, NextIs DEF CopyEmpty, CopyAsync, Coming
    <3> HIDE DEF Next1
    <3> QED BY <1>1, <2>2, <3>1 DEF IInv, TypeOK
  <2>3. ASSUME x \in Copies, CopyFails \/ Return \/ ReturnErr PROVE st'[x] = "held"
    BY <1>1, <2>3 DEF CopyFails, Return, ReturnErr
  <2> QED BY <1>1, <1>5, <2>1, <2>2, <2>3 DEF CallStep, Owned
<1>6. ASSUME NEW c \in Copies, Drop(c), ~(x \in Copies /\ Drop(x)) PROVE x \in Owned'
  BY <1>1, <1>6 DEF Drop, Owned, barVars, IInv, TypeOK
<1>7. ASSUME NEW c \in Copies, DropStep(c) PROVE x \in Owned'
  <2>1. st[c] # "held" /\ st' = [st EXCEPT ![c] = "gone"] /\ bar' = bar
    BY <1>7 DEF DropStep, DropEnds, DropPanics, InDrop, barVars
  <2> QED BY <1>1, <2>1 DEF Owned, IInv, TypeOK
<1>8. ASSUME Engine PROVE x \in Owned'
  BY <1>1, <1>8 DEF Engine, FinishPacket, FinishDma, hostVars, barVars, Owned
<1> QED BY <1>3, <1>4, <1>5, <1>6, <1>7, <1>8 DEF Next

(* A barrier becomes pending when its call begins, and with owned          *)
(* dependencies.                                                           *)
LEMMA PendingStays ==
  ASSUME IInv, Next, NEW b \in Barriers, Pending(b)'
  PROVE  \/ Pending(b) /\ after'[b] = after[b]
         \/ \E D \in SUBSET Owned : Barrier(b, D) /\ after'[b] \subseteq Owned
<1>1. b \in Things /\ b \notin Copies
  BY TransfersAssumption DEF Things
<1>2. ASSUME UNCHANGED <<bar, after>>, packets' \subseteq packets
      PROVE  Pending(b) /\ after'[b] = after[b]
  BY <1>2 DEF Pending
<1>3. ASSUME NEW s, NEW n \in 1 .. MaxCopies, NEW E, NEW D, Begin(s, n, E, D),
             UNCHANGED <<packets, bar>>
      PROVE  Pending(b) /\ after'[b] = after[b]
  <2>1. after'[b] = after[b]
    BY <1>1, <1>3 DEF Begin
  <2> QED BY <1>3, <2>1 DEF Pending
<1>4. ASSUME NEW n \in 1 .. MaxCopies, NEW D \in SUBSET Owned, NEW E \in SUBSET (1 .. n),
             \/ \E v \in Kept : Memcopy(v, n, E, D)
             \/ \E v \in New : Memcopy2(v, n, E, D)
      PROVE  Pending(b) /\ after'[b] = after[b]
  BY <1>3, <1>4 DEF Memcopy, Memcopy2, barVars
<1>5. ASSUME NEW a \in Barriers, EnqueueBarrier(a)
      PROVE  Pending(b) /\ after'[b] = after[b]
  <2>1. UNCHANGED <<bar, after>> /\ bar[a] = "calling"
    BY <1>5 DEF EnqueueBarrier, hostVars
  <2>2. \A p \in packets' : p \in packets \/ p.bar = a
    BY <1>5 DEF EnqueueBarrier
  <2> QED BY <2>1, <2>2 DEF Pending
<1>6. ASSUME NEW a \in Barriers, BarrierFails(a) \/ BarrierReturns(a)
      PROVE  Pending(b) /\ after'[b] = after[b]
  <2>1. UNCHANGED <<packets, after>> /\ (bar'[b] = "calling" => bar[b] = "calling")
    BY <1>6 DEF BarrierFails, BarrierReturns, hostVars, IInv, TypeOK
  <2> QED BY <2>1 DEF Pending
<1>7. ASSUME NEW a \in Barriers, NEW D \in SUBSET Owned, Barrier(a, D)
      PROVE  \/ Pending(b) /\ after'[b] = after[b]
             \/ Barrier(b, D) /\ after'[b] \subseteq Owned
  <2>1. CASE a = b
    <3>1. after'[b] = D
      BY <1>1, <1>7, <2>1 DEF Barrier, IInv, TypeOK
    <3> QED BY <1>7, <2>1, <3>1
  <2>2. CASE a # b
    <3>1. after'[b] = after[b] /\ bar'[b] = bar[b] /\ packets' = packets
      BY <1>1, <1>7, <2>2 DEF Barrier, IInv, TypeOK
    <3> QED BY <3>1 DEF Pending
  <2> QED BY <2>1, <2>2
<1>8. ASSUME CallStep \/ Engine \/ \E c \in Copies : Drop(c) \/ DropStep(c)
      PROVE  UNCHANGED <<bar, after>> /\ packets' \subseteq packets
  BY <1>8 DEF CallStep, CopyEmpty, CopyAsync, CopyFails, Return, ReturnErr, Drop, DropStep,
              DropEnds, DropPanics, Engine, FinishPacket, FinishDma, hostVars, barVars
<1> QED BY <1>2, <1>4, <1>5, <1>6, <1>7, <1>8 DEF Next, BarrierStep

LEMMA NextPendingKept ==
  ASSUME KeepDeps PROVE IInv /\ PendingKept /\ [Next]_vars => PendingKept'
<1> SUFFICES ASSUME IInv, PendingKept, [Next]_vars, NEW b \in Barriers, Pending(b)',
                    NEW d \in after'[b]
             PROVE  d \in Owned'
  BY DEF PendingKept
<1>1. CASE Next
  <2>1. d \in Owned
    BY <1>1, PendingStays DEF PendingKept
  <2>2. ASSUME d \in Copies, Drop(d) PROVE FALSE
    <3>1. packets' = packets /\ bar' = bar /\ after' = after /\ ~Borrowed(d)
      BY <2>2 DEF Drop, barVars
    <3>2. Pending(b)
      BY <3>1 DEF Pending
    <3> QED BY <2>2, <3>1, <3>2 DEF Borrowed
  <2> QED BY <1>1, <2>1, <2>2, OwnedStays
<1>2. CASE UNCHANGED vars
  <2>1. UNCHANGED <<bar, after, packets, st>>
    BY <1>2 DEF vars, hostVars, barVars
  <2> QED BY <2>1 DEF PendingKept, Pending, Owned
<1> QED BY <1>1, <1>2

(* A signal whose owners are gone is waited for by nothing.                *)
LEMMA NotWaitedFor ==
  ASSUME IInv, PendingKept, ~panicked, NEW s,
         \A x \in Things : signal[x] = s => x \in Copies /\ ~HasTransfer(x)
  PROVE  ~WaitedFor(s)
<1>1. ASSUME NEW d \in Owned PROVE signal[d] # s
  BY <1>1 DEF Owned, HasTransfer
<1>2. ASSUME NEW c \in Copies, InFlight(c) PROVE s \notin DepSignals(c)
  <2>1. after[c] \subseteq Owned
    BY <1>2 DEF IInv, MemoryOutlivesCopy, DepsLive
  <2> QED BY <1>1, <2>1 DEF DepSignals
<1>3. ASSUME NEW p \in packets PROVE s \notin p.deps
  <2>1. p.of \subseteq Owned /\ p.deps = {signal[d] : d \in p.of}
    BY PacketIs DEF PendingKept
  <2> QED BY <1>1, <2>1
<1> QED BY <1>2, <1>3 DEF WaitedFor

(* SignalFactory::reset and new store to a signal only when no copy and no *)
(* barrier packet waits for it, if the program keeps what its barriers     *)
(* wait for: "possibly while in use, breaking signal dependency chains".   *)
THEOREM NothingWaitsForAReset ==
  ASSUME KeepDeps PROVE Spec => NoResetInUse
<1> DEFINE A == \A s \in Signals : value'[s] > value[s] => ~WaitedFor(s)
<1>1. Init => PendingKept
  BY DEF Init, PendingKept, Pending
<1>2. IInv /\ PendingKept /\ [Next]_vars => [A]_vars
  <2> SUFFICES ASSUME IInv, PendingKept, Next, NEW s \in Signals, value'[s] > value[s]
               PROVE  ~WaitedFor(s)
    OBVIOUS
  <2>1. value \in [Signals -> Int]
    BY DEF IInv, TypeOK
  <2>2. ASSUME NEW r, value' = value \/ value' = [value EXCEPT ![r] = @ - 1] PROVE FALSE
    BY <2>1, <2>2
  <2>3. ASSUME NEW r, NEW n, value' = [value EXCEPT ![r] = n] PROVE r = s
    BY <2>1, <2>3
  <2>4. ASSUME NEW n \in 1 .. MaxCopies, NEW D \in SUBSET Owned, NEW E \in SUBSET (1 .. n),
               NEW v \in Kept, Memcopy(v, n, E, D)
        PROVE  ~WaitedFor(s)
    <3>1. CASE \E r \in Reset(kept[v]) : Begin(r, n, E, D)
      <4>1. s = kept[v] /\ s # None /\ Unique(s)
        BY <2>3, <3>1 DEF Reset, Begin
      <4> QED BY <2>4, <4>1, NotWaitedFor DEF Memcopy, Ready, IInv, SignalOK, Unique, Things
    <3>2. CASE Unmade(v) # {} /\ Begin(Fresh(v), n, E, D)
      <4>1. s = Fresh(v)
        BY <2>3, <3>2 DEF Begin
      <4> QED BY <2>4, <3>2, <4>1, FreshFree, NotWaitedFor DEF Memcopy, Ready
    <3> QED BY <2>4, <3>1, <3>2 DEF Memcopy
  <2>5. ASSUME NEW n \in 1 .. MaxCopies, NEW D \in SUBSET Owned, NEW E \in SUBSET (1 .. n),
               NEW v \in New, Memcopy2(v, n, E, D)
        PROVE  ~WaitedFor(s)
    <3>1. s = Fresh(v)
      BY <2>3, <2>5 DEF Memcopy2, Begin
    <3> QED BY <2>5, <3>1, FreshFree, NotWaitedFor DEF Memcopy2, Ready
  <2>6. ASSUME NEW b \in Barriers, NEW D \in SUBSET Owned, Barrier(b, D)
        PROVE  ~WaitedFor(s)
    <3>1. s = Fresh("global")
      BY <2>3, <2>6 DEF Barrier
    <3> QED BY <2>6, <3>1, FreshFree, NotWaitedFor DEF Barrier, Ready
  <2>7. ASSUME NEW b \in Barriers, BarrierStep(b) PROVE FALSE
    BY <2>2, <2>7 DEF BarrierStep, EnqueueBarrier, BarrierFails, BarrierReturns
  <2>8. ASSUME CallStep \/ Engine \/ \E c \in Copies : Drop(c) \/ DropStep(c) PROVE FALSE
    BY <2>2, <2>8 DEF CallStep, CopyEmpty, CopyAsync, CopyFails, Return, ReturnErr, Drop, DropStep,
                      DropEnds, DropPanics, Engine, FinishPacket, FinishDma
  <2> QED BY <2>4, <2>5, <2>6, <2>7, <2>8 DEF Next
<1>3. IInv /\ PendingKept /\ [Next]_vars => PendingKept'
  BY NextPendingKept
<1> QED BY <1>1, <1>2, <1>3, SpecIInv, PTL DEF Spec, NoResetInUse

-----------------------------------------------------------------------------
(* Locally accessible memory.                                              *)

Holding(t) == at[t] \in {"set", "list", "grant"}
Unanswered(t, o, d) == at[t] \in {"list", "grant"} /\ obj[t] = o /\ dev[t] = d

(* One thread at a time is under the lock of an Arc.                       *)
Mutex == \A t, u \in Threads : Holding(t) /\ Holding(u) /\ obj[t] = obj[u] => t = u

(* What a call has found out about its Arc and its device still holds.     *)
CallOK ==
  \A t \in Threads :
    /\ at[t] # "idle" => obj[t] \in has
    /\ at[t] = "allowed" => class[dev[t]] = "allowed"
    /\ at[t] \in {"list", "grant"} => dev[t] \in bits[obj[t]] \ granted[obj[t]]

(* The driver's list is never ahead of the bits, and behind them by the    *)
(* devices of calls that are not answered yet.                             *)
GrantsOK ==
  \A o \in has :
    /\ granted[o] \subseteq bits[o]
    /\ \A d \in bits[o] \cap alive :
         d \in granted[o] \cup Allowed \/ \E t \in Threads : Unanswered(t, o, d)

(* The list on its way to the driver has all the devices of the bits but   *)
(* those set since, which need no grant, and all that have a grant.        *)
ListOK ==
  \A t \in Threads : at[t] = "grant" =>
    /\ list[t] \subseteq bits[obj[t]]
    /\ bits[obj[t]] \cap alive \subseteq list[t] \cup Allowed
    /\ granted[obj[t]] \cap alive \subseteq list[t]

(* An Ok is the device's bit, until the driver refuses a list.             *)
OkedOK == \A o \in Objects \ failed : oked[o] \subseteq bits[o] \cup Allowed

(* The lock of an Arc is held by the thread that is under it.              *)
Locked == \A a \in Objects : a \in lock <=> \E t \in Threads : Holding(t) /\ obj[t] = a

LapIInv == LapTypeOK /\ Locked /\ Mutex /\ CallOK /\ GrantsOK /\ ListOK /\ OkedOK

LEMMA InitLapIInv == LapInit => LapIInv
<1> SUFFICES ASSUME LapInit PROVE LapIInv
  OBVIOUS
<1>1. LapTypeOK
  BY LapAssumption DEF LapInit, LapTypeOK, Objects
<1>2. Locked /\ Mutex /\ CallOK /\ GrantsOK /\ ListOK
  BY DEF LapInit, Locked, Mutex, CallOK, GrantsOK, ListOK, Holding
<1>3. OkedOK
  BY DEF LapInit, OkedOK
<1> QED BY <1>1, <1>2, <1>3 DEF LapIInv

LEMMA NextLapIInv == LapIInv /\ [LapNext]_lapVars => LapIInv'
<1> SUFFICES ASSUME LapIInv, [LapNext]_lapVars PROVE LapIInv'
  OBVIOUS
<1>. USE LapAssumption DEF LapIInv, memVars, threadVars
<1>1. ASSUME NEW o \in Vecs, Allocate(o) PROVE LapIInv'
  <2>. USE <1>1 DEF Allocate, UpdateAccessGrants, Agents, LapTypeOK, Objects
  <2>1. LapTypeOK' /\ Locked' /\ Mutex'
    BY DEF Locked, Holding, Mutex
  <2>2. CallOK'
    BY DEF CallOK, Mutex, Holding
  <2>3. GrantsOK'
    BY DEF GrantsOK, CallOK, ListOK, Unanswered, Allowed, Mutex, Holding
  <2>4. ListOK'
    BY DEF ListOK, CallOK, GrantsOK, Allowed, Mutex, Holding
  <2>5. OkedOK'
    BY DEF OkedOK, CallOK, Allowed
  <2> QED BY <2>1, <2>2, <2>3, <2>4, <2>5
<1>2. ASSUME NEW o \in Vecs, Dealloc(o) PROVE LapIInv'
  <2>. USE <1>2 DEF Dealloc, LapTypeOK, Objects
  <2>1. LapTypeOK' /\ Locked' /\ Mutex'
    BY DEF Locked, Holding, Mutex
  <2>2. CallOK'
    BY DEF CallOK, Mutex, Holding
  <2>3. GrantsOK'
    BY DEF GrantsOK, CallOK, ListOK, Unanswered, Allowed, Mutex, Holding
  <2>4. ListOK'
    BY DEF ListOK, CallOK, GrantsOK, Allowed, Mutex, Holding
  <2>5. OkedOK'
    BY DEF OkedOK, CallOK, Allowed
  <2> QED BY <2>1, <2>2, <2>3, <2>4, <2>5
<1>3. ASSUME NEW o \in Objects, NEW p \in Objects, CloneInto(o, p) PROVE LapIInv'
  <2>. USE <1>3 DEF CloneInto, UpdateAccessGrants, Agents, LapTypeOK, Objects
  <2>1. LapTypeOK' /\ Locked' /\ Mutex'
    BY DEF Locked, Holding, Mutex
  <2>2. CallOK'
    BY DEF CallOK, Mutex, Holding
  <2>3. GrantsOK'
    BY DEF GrantsOK, CallOK, ListOK, Unanswered, Allowed, Mutex, Holding
  <2>4. ListOK'
    BY DEF ListOK, CallOK, GrantsOK, Allowed, Mutex, Holding
  <2>5. OkedOK'
    BY DEF OkedOK, CallOK, Allowed
  <2> QED BY <2>1, <2>2, <2>3, <2>4, <2>5
<1>4. ASSUME NEW o \in Vecs, NEW d \in Devices, VecAdd(o, d) PROVE LapIInv'
  <2>. USE <1>4 DEF VecAdd, NewList, Agents, LapTypeOK, Objects
  <2>1. LapTypeOK' /\ Locked' /\ Mutex'
    BY DEF Locked, Holding, Mutex
  <2>2. CallOK'
    BY DEF CallOK, Mutex, Holding
  <2>3. GrantsOK'
    BY DEF GrantsOK, CallOK, ListOK, Unanswered, Allowed, Mutex, Holding
  <2>4. ListOK'
    BY DEF ListOK, CallOK, GrantsOK, Allowed, Mutex, Holding
  <2>5. OkedOK'
    BY DEF OkedOK, CallOK, Allowed
  <2> QED BY <2>1, <2>2, <2>3, <2>4, <2>5
<1>5. ASSUME NEW o \in Vecs, NEW d \in Devices, VecAddNothing(o, d) PROVE LapIInv'
  <2>. USE <1>5 DEF VecAddNothing, LapTypeOK, Objects
  <2>1. LapTypeOK' /\ Locked' /\ Mutex'
    BY DEF Locked, Holding, Mutex
  <2>2. CallOK'
    BY DEF CallOK, Mutex, Holding
  <2>3. GrantsOK'
    BY DEF GrantsOK, CallOK, ListOK, Unanswered, Allowed, Mutex, Holding
  <2>4. ListOK'
    BY DEF ListOK, CallOK, GrantsOK, Allowed, Mutex, Holding
  <2>5. OkedOK'
    BY DEF OkedOK, CallOK, Allowed
  <2> QED BY <2>1, <2>2, <2>3, <2>4, <2>5
<1>6. ASSUME NEW t \in Threads, NEW a \in Arcs, NEW d \in Devices, Call(t, a, d) PROVE LapIInv'
  <2>. USE <1>6 DEF Call, At, Go, LapTypeOK, Objects
  <2>1. LapTypeOK' /\ Locked' /\ Mutex'
    BY DEF Locked, Holding, Mutex
  <2>2. CallOK'
    BY DEF CallOK, Mutex, Holding
  <2>3. GrantsOK'
    BY DEF GrantsOK, CallOK, ListOK, Unanswered, Allowed, Mutex, Holding
  <2>4. ListOK'
    BY DEF ListOK, CallOK, GrantsOK, Allowed, Mutex, Holding
  <2>5. OkedOK'
    BY DEF OkedOK, CallOK, Allowed
  <2> QED BY <2>1, <2>2, <2>3, <2>4, <2>5
<1>7. ASSUME NEW t \in Threads, Known(t) PROVE LapIInv'
  <2>. USE <1>7 DEF Known, At, Go, Ok, LapTypeOK, Objects
  <2>1. LapTypeOK' /\ Locked' /\ Mutex'
    BY DEF Locked, Holding, Mutex
  <2>2. CallOK'
    BY DEF CallOK, Mutex, Holding
  <2>3. GrantsOK'
    BY DEF GrantsOK, CallOK, ListOK, Unanswered, Allowed, Mutex, Holding
  <2>4. ListOK'
    BY DEF ListOK, CallOK, GrantsOK, Allowed, Mutex, Holding
  <2>5. OkedOK'
    BY DEF OkedOK, CallOK, Allowed
  <2> QED BY <2>1, <2>2, <2>3, <2>4, <2>5
<1>8. ASSUME NEW t \in Threads, Unknown(t) PROVE LapIInv'
  <2>. USE <1>8 DEF Unknown, At, Go, LapTypeOK, Objects
  <2>1. LapTypeOK' /\ Locked' /\ Mutex'
    BY DEF Locked, Holding, Mutex
  <2>2. CallOK'
    BY DEF CallOK, Mutex, Holding
  <2>3. GrantsOK'
    BY DEF GrantsOK, CallOK, ListOK, Unanswered, Allowed, Mutex, Holding
  <2>4. ListOK'
    BY DEF ListOK, CallOK, GrantsOK, Allowed, Mutex, Holding
  <2>5. OkedOK'
    BY DEF OkedOK, CallOK, Allowed
  <2> QED BY <2>1, <2>2, <2>3, <2>4, <2>5
<1>9. ASSUME NEW t \in Threads, SetAllowed(t) PROVE LapIInv'
  <2>. USE <1>9 DEF SetAllowed, At, Go, Ok, LapTypeOK, Objects
  <2>1. LapTypeOK' /\ Locked' /\ Mutex'
    BY DEF Locked, Holding, Mutex
  <2>2. CallOK'
    BY DEF CallOK, Mutex, Holding
  <2>3. GrantsOK'
    BY DEF GrantsOK, CallOK, ListOK, Unanswered, Allowed, Mutex, Holding
  <2>4. ListOK'
    BY DEF ListOK, CallOK, GrantsOK, Allowed, Mutex, Holding
  <2>5. OkedOK'
    BY DEF OkedOK, CallOK, Allowed
  <2> QED BY <2>1, <2>2, <2>3, <2>4, <2>5
<1>10. ASSUME NEW t \in Threads, Lock(t) PROVE LapIInv'
  <2>. USE <1>10 DEF Lock, LockFree, At, Go, LapTypeOK, Objects
  <2>1. LapTypeOK' /\ Locked' /\ Mutex'
    BY DEF Locked, Holding, Mutex
  <2>2. CallOK'
    BY DEF CallOK, Mutex, Holding
  <2>3. GrantsOK'
    BY DEF GrantsOK, CallOK, ListOK, Unanswered, Allowed, Mutex, Holding
  <2>4. ListOK'
    BY DEF ListOK, CallOK, GrantsOK, Allowed, Mutex, Holding
  <2>5. OkedOK'
    BY DEF OkedOK, CallOK, Allowed
  <2> QED BY <2>1, <2>2, <2>3, <2>4, <2>5
<1>11. ASSUME NEW t \in Threads, Beaten(t) PROVE LapIInv'
  <2>. USE <1>11 DEF Beaten, At, Go, Ok, LapTypeOK, Objects
  <2>1. LapTypeOK' /\ Locked' /\ Mutex'
    BY DEF Locked, Holding, Mutex
  <2>2. CallOK'
    BY DEF CallOK, Mutex, Holding
  <2>3. GrantsOK'
    BY DEF GrantsOK, CallOK, ListOK, Unanswered, Allowed, Mutex, Holding
  <2>4. ListOK'
    BY DEF ListOK, CallOK, GrantsOK, Allowed, Mutex, Holding
  <2>5. OkedOK'
    BY DEF OkedOK, CallOK, Allowed
  <2> QED BY <2>1, <2>2, <2>3, <2>4, <2>5
<1>12. ASSUME NEW t \in Threads, SetBit(t) PROVE LapIInv'
  <2>. USE <1>12 DEF SetBit, At, Go, LapTypeOK, Objects
  <2>1. LapTypeOK' /\ Locked' /\ Mutex'
    BY DEF Locked, Holding, Mutex
  <2>2. CallOK'
    BY DEF CallOK, Mutex, Holding, GrantsOK
  <2>3. GrantsOK'
    BY DEF GrantsOK, CallOK, ListOK, Unanswered, Allowed, Mutex, Holding
  <2>4. ListOK'
    BY DEF ListOK, CallOK, GrantsOK, Allowed, Mutex, Holding
  <2>5. OkedOK'
    BY DEF OkedOK, CallOK, Allowed
  <2> QED BY <2>1, <2>2, <2>3, <2>4, <2>5
<1>13. ASSUME NEW t \in Threads, ListAgents(t) PROVE LapIInv'
  <2>. USE <1>13 DEF ListAgents, Agents, At, Go, LapTypeOK, Objects
  <2>1. LapTypeOK' /\ Locked' /\ Mutex'
    BY DEF Locked, Holding, Mutex
  <2>2. CallOK'
    BY DEF CallOK, Mutex, Holding
  <2>3. GrantsOK'
    BY DEF GrantsOK, CallOK, ListOK, Unanswered, Allowed, Mutex, Holding
  <2>4. ListOK'
    BY DEF ListOK, CallOK, GrantsOK, Allowed, Mutex, Holding
  <2>5. OkedOK'
    BY DEF OkedOK, CallOK, Allowed
  <2> QED BY <2>1, <2>2, <2>3, <2>4, <2>5
<1>14. ASSUME NEW t \in Threads, Grant(t) PROVE LapIInv'
  <2>. USE <1>14 DEF Grant, At, Go, Ok, LapTypeOK, Objects
  <2>1. LapTypeOK' /\ Locked' /\ Mutex'
    BY DEF Locked, Holding, Mutex
  <2>2. CallOK'
    BY DEF CallOK, Mutex, Holding
  <2>3. GrantsOK'
    BY DEF GrantsOK, CallOK, ListOK, Unanswered, Allowed, Mutex, Holding
  <2>4. ListOK'
    BY DEF ListOK, CallOK, GrantsOK, Allowed, Mutex, Holding
  <2>5. OkedOK'
    BY DEF OkedOK, CallOK, Allowed
  <2> QED BY <2>1, <2>2, <2>3, <2>4, <2>5
<1>15. ASSUME NEW t \in Threads, GrantFails(t) PROVE LapIInv'
  <2>. USE <1>15 DEF GrantFails, Unset, At, Go, LapTypeOK, Objects
  <2>1. LapTypeOK' /\ Locked' /\ Mutex'
    BY DEF Locked, Holding, Mutex
  <2>2. CallOK'
    BY DEF CallOK, Mutex, Holding
  <2>3. GrantsOK'
    BY DEF GrantsOK, CallOK, ListOK, Unanswered, Allowed, Mutex, Holding
  <2>4. ListOK'
    BY DEF ListOK, CallOK, GrantsOK, Allowed, Mutex, Holding
  <2>5. OkedOK'
    BY DEF OkedOK, CallOK, Allowed
  <2> QED BY <2>1, <2>2, <2>3, <2>4, <2>5
<1>16. ASSUME NEW d \in Devices, DeviceGone(d) PROVE LapIInv'
  <2>. USE <1>16 DEF DeviceGone, At, LapTypeOK, Objects
  <2>1. LapTypeOK' /\ Locked' /\ Mutex'
    BY DEF Locked, Holding, Mutex
  <2>2. CallOK'
    BY DEF CallOK, Mutex, Holding
  <2>3. GrantsOK'
    BY DEF GrantsOK, CallOK, ListOK, Unanswered, Allowed, Mutex, Holding
  <2>4. ListOK'
    BY DEF ListOK, CallOK, GrantsOK, Allowed, Mutex, Holding
  <2>5. OkedOK'
    BY DEF OkedOK, CallOK, Allowed
  <2> QED BY <2>1, <2>2, <2>3, <2>4, <2>5
<1>17. CASE UNCHANGED lapVars
  BY <1>17 DEF lapVars, LapTypeOK, Locked, Holding, Mutex, CallOK, GrantsOK, Unanswered, ListOK, OkedOK,
               Allowed
<1> HIDE DEF LapIInv
<1> QED
  <2>1. CASE \E t \in Threads : Step(t) \/ \E a \in Arcs, d \in Devices : Call(t, a, d)
    BY <2>1, <1>6, <1>7, <1>8, <1>9, <1>10, <1>11, <1>12, <1>13, <1>14, <1>15 DEF Step
  <2> QED
    BY <2>1, <1>1, <1>2, <1>3, <1>4, <1>5, <1>16, <1>17 DEF LapNext

-----------------------------------------------------------------------------
(* While nobody is between setting a bit and the driver's answer, the bits *)
(* of an allocator and the driver's list say the same of every device that *)
(* needs to be on the list.                                                *)
THEOREM BitsAgreeWithTheDriver == LapSpec => []BitsMatchGrants
<1>1. LapIInv => BitsMatchGrants
  <2> SUFFICES ASSUME LapIInv, NEW o \in has \ lock
               PROVE  bits[o] \cap alive \subseteq granted[o] \cup Allowed /\ granted[o] \subseteq bits[o]
    BY DEF BitsMatchGrants
  <2>1. \A t \in Threads, d \in Devices : ~Unanswered(t, o, d)
    BY DEF LapIInv, LapTypeOK, Locked, Unanswered, Holding
  <2> QED BY <2>1 DEF LapIInv, LapTypeOK, GrantsOK
<1> QED BY <1>1, InitLapIInv, NextLapIInv, PTL DEF LapSpec

(* A device whose add_access returned Ok can use the memory as soon as no  *)
(* call is about it any more, and after every move, unless the driver      *)
(* refused a list of that Arc.                                             *)
THEOREM AccessIsKept == LapSpec => []AccessKept
<1>1. LapIInv /\ BitsMatchGrants => AccessKept
  BY DEF LapIInv, LapTypeOK, OkedOK, BitsMatchGrants, AccessKept
<1> QED BY <1>1, BitsAgreeWithTheDriver, InitLapIInv, NextLapIInv, PTL DEF LapSpec

(* The list is replaced whole, and still no operation on an object takes   *)
(* away the access of a device.                                            *)
THEOREM AccessIsNeverRevoked == LapSpec => NeverRevoked
<1>1. LapIInv /\ [LapNext]_lapVars => [\A o \in has \cap has' : granted[o] \cap alive \subseteq granted'[o]]_lapVars
  <2> SUFFICES ASSUME LapIInv, LapNext, NEW o \in has, o \in has'
               PROVE  granted[o] \cap alive \subseteq granted'[o]
    OBVIOUS
  <2>. USE LapAssumption DEF memVars, threadVars, Objects
  <2>1. granted[o] \cap alive \subseteq bits[o] \cap alive /\ granted \in [Objects -> SUBSET Devices]
    BY DEF LapIInv, GrantsOK, LapTypeOK
  <2>2. ASSUME NEW v \in Vecs, Allocate(v) PROVE granted[o] \cap alive \subseteq granted'[o]
    BY <2>1, <2>2 DEF Allocate, UpdateAccessGrants, Agents
  <2>3. ASSUME NEW v \in Vecs, Dealloc(v) PROVE granted[o] \cap alive \subseteq granted'[o]
    BY <2>1, <2>3 DEF Dealloc
  <2>4. ASSUME NEW v \in Objects, NEW p \in Objects, CloneInto(v, p)
        PROVE  granted[o] \cap alive \subseteq granted'[o]
    BY <2>1, <2>4 DEF CloneInto
  <2>5. ASSUME NEW v \in Vecs, NEW d \in Devices, VecAdd(v, d)
        PROVE  granted[o] \cap alive \subseteq granted'[o]
    BY <2>1, <2>5 DEF VecAdd, NewList, Agents
  <2>6. ASSUME NEW t \in Threads, Grant(t) PROVE granted[o] \cap alive \subseteq granted'[o]
    BY <2>1, <2>6 DEF Grant, At, LapIInv, ListOK
  <2>7. CASE UNCHANGED granted
    BY <2>7
  <2>8. ASSUME NEW t \in Threads, Step(t) PROVE Grant(t) \/ UNCHANGED granted
    BY <2>8 DEF Step, Known, Unknown, SetAllowed, Lock, Beaten, SetBit, ListAgents, GrantFails
  <2> QED
    BY <2>2, <2>3, <2>4, <2>5, <2>6, <2>7, <2>8 DEF LapNext, VecAddNothing, Call, DeviceGone
<1> QED BY <1>1, InitLapIInv, NextLapIInv, PTL DEF LapSpec, NeverRevoked

-----------------------------------------------------------------------------
(* Argument blocks.                                                        *)

(* A multiple of the alignment has no remainder.                           *)
LEMMA MultipleAligned ==
  ASSUME NEW m \in Int
  PROVE  (Align * m) % Align = 0
<1> DEFINE x == Align * m
           q == x \div Align
           r == x % Align
<1>0. Align \in Nat /\ Align > 0
  BY PoolAssumption
<1>1. x \in Int /\ q \in Int /\ r \in Int
  BY <1>0
<1>2. x = Align * q + r /\ 0 <= r /\ r < Align
  BY <1>0, <1>1
<1>3. x = Align * m
  OBVIOUS
<1>. HIDE DEF x, q, r
<1>4. ASSUME m >= q + 1 PROVE FALSE
  <2>1. Align * m >= Align * (q + 1)
    BY <1>0, <1>1, <1>4
  <2>2. Align * (q + 1) = Align * q + Align
    BY <1>0, <1>1
  <2> QED BY <1>0, <1>1, <1>2, <1>3, <2>1, <2>2
<1>5. ASSUME q >= m + 1 PROVE FALSE
  <2>1. Align * q >= Align * (m + 1)
    BY <1>0, <1>1, <1>5
  <2>2. Align * (m + 1) = Align * m + Align
    BY <1>0, <1>1
  <2> QED BY <1>0, <1>1, <1>2, <1>3, <2>1, <2>2
<1>6. m = q
  BY <1>1, <1>4, <1>5
<1>7. r = 0
  BY <1>0, <1>1, <1>2, <1>3, <1>6
<1> QED BY <1>7 DEF r, x

(* alignment_padding leads to the next multiple of the alignment.          *)
LEMMA PaddingAligns ==
  ASSUME NEW a \in Nat \ {0}
  PROVE  /\ Padding(a) \in 0 .. Align - 1
         /\ (a + Padding(a)) % Align = 0
<1> DEFINE q == (a - 1) \div Align
           r == (a - 1) % Align
<1>0. Align \in Nat /\ Align > 0
  BY PoolAssumption
<1>1. q \in Int /\ r \in Int /\ 0 <= r /\ r < Align
  BY <1>0
<1>2. a - 1 = Align * q + r
  BY <1>0
<1>3. Padding(a) = (Align - r) - 1
  BY DEF Padding
<1>. HIDE DEF q, r
<1>4. Align * (q + 1) = Align * q + Align
  BY <1>0, <1>1
<1>5. a + Padding(a) = Align * (q + 1)
  BY <1>0, <1>1, <1>2, <1>3, <1>4
<1>6. (Align * (q + 1)) % Align = 0
  BY <1>1, MultipleAligned
<1> QED BY <1>0, <1>1, <1>3, <1>5, <1>6

(* A pool that has no room at an address has none at a later one: the next *)
(* multiple of the alignment only grows.                                   *)
LEMMA PaddingGrows ==
  ASSUME NEW a \in Nat \ {0}, NEW b \in Nat \ {0}, a <= b
  PROVE  a + Padding(a) <= b + Padding(b)
<1> DEFINE m == (a - 1) \div Align
           n == (b - 1) \div Align
           r == (a - 1) % Align
           s == (b - 1) % Align
<1>0. Align \in Nat /\ Align > 0
  BY PoolAssumption
<1>1. /\ m \in Int /\ r \in Int /\ 0 <= r /\ r < Align
      /\ n \in Int /\ s \in Int /\ 0 <= s /\ s < Align
  BY <1>0
<1>2. a - 1 = Align * m + r /\ b - 1 = Align * n + s
  BY <1>0
<1>3. Padding(a) = (Align - r) - 1 /\ Padding(b) = (Align - s) - 1
  BY DEF Padding
<1>. HIDE DEF m, n, r, s
<1>4. Align * m \in Int /\ Align * n \in Int
  BY <1>0, <1>1
<1>5. CASE m >= n + 1
  <2>1. Align * m >= Align * (n + 1)
    BY <1>0, <1>1, <1>5
  <2>2. Align * (n + 1) = Align * n + Align
    BY <1>0, <1>1
  <2>3. a - 1 > b - 1
    BY <1>0, <1>1, <1>2, <1>4, <2>1, <2>2
  <2> QED BY <2>3
<1>6. CASE m <= n
  <2>1. Align * m <= Align * n
    BY <1>0, <1>1, <1>6
  <2> QED BY <1>0, <1>1, <1>2, <1>3, <1>4, <2>1
<1> QED BY <1>1, <1>5, <1>6

(* Addresses and sizes of the pool are natural numbers.                    *)
LEMMA AddressIsPositive ==
  ASSUME NEW a \in Address
  PROVE  a \in Nat \ {0}
BY PoolAssumption DEF Address, End

-----------------------------------------------------------------------------
(* A new pool satisfies the invariant.                                     *)
LEMMA InitPoolInv == PoolInit => PoolInv
<1> SUFFICES ASSUME PoolInit PROVE PoolInv
  OBVIOUS
<1>1. Base \in Address
  BY PoolAssumption DEF Address, End
<1>2. PoolTypeOK
  BY <1>1, PoolAssumption DEF PoolInit, PoolTypeOK
<1> QED BY <1>2 DEF PoolInit, PoolInv, BlocksDisjoint

(* The exchange succeeds with the pointer the thread has loaded: the new   *)
(* block starts above every block that is live.                            *)
LEMMA ExchangeStep ==
  ASSUME PoolInv, NEW t \in HostThreads, Exchange(t)
  PROVE  PoolInv'
<1> DEFINE start == allocated + Padding(allocated)
           new == [start |-> start, size |-> want[t]]
<1>0. /\ allocated \in Nat \ {0} /\ allocated \in Address
      /\ want[t] \in Sizes /\ want[t] \in Nat
      /\ End \in Int /\ Base \in Nat
      /\ \A b \in live : /\ b.start \in Nat /\ b.size \in Nat
                         /\ b.start + b.size <= allocated
  <2>1. want[t] \in Sizes /\ allocated \in Address /\ live \subseteq Block
    BY DEF PoolInv, PoolTypeOK
  <2>2. want[t] \in Nat
    BY <2>1, PoolAssumption
  <2>3. End \in Int /\ Base \in Nat
    BY PoolAssumption DEF End
  <2>4. ASSUME NEW b \in live
        PROVE  b.start \in Nat /\ b.size \in Nat /\ b.start + b.size <= allocated
    <3>1. b.start \in Address /\ b.size \in Sizes
      BY <2>1 DEF Block
    <3> QED BY <3>1, AddressIsPositive, PoolAssumption DEF PoolInv
  <2> QED BY <2>1, <2>2, <2>3, <2>4, AddressIsPositive
<1>1. /\ Padding(allocated) \in Nat
      /\ start % Align = 0
  BY <1>0, PaddingAligns, PoolAssumption
<1>2. /\ allocated' = start + want[t]
      /\ start + want[t] <= End
  BY <1>0, <1>1 DEF Exchange, NoRoom, AllocSize
<1>3. live' = live \cup {new}
  BY DEF Exchange
<1>4. start \in Address /\ start \in Nat /\ allocated <= start
  BY <1>0, <1>1, <1>2, PoolAssumption DEF Address
<1>. HIDE DEF start
<1>5. new \in Block
  BY <1>0, <1>4 DEF Block
<1>6. PoolTypeOK'
  <2>1. allocated' \in Address
    BY <1>0, <1>2, <1>4 DEF Address
  <2>2. live' \subseteq Block
    BY <1>3, <1>5 DEF PoolInv, PoolTypeOK
  <2> QED BY <2>1, <2>2 DEF PoolInv, PoolTypeOK, Exchange
<1>7. BlocksDisjoint'
  <2> SUFFICES ASSUME NEW b \in live', NEW c \in live', b # c
               PROVE  b.start + b.size <= c.start \/ c.start + c.size <= b.start
    BY DEF BlocksDisjoint
  <2>1. CASE b \in live /\ c \in live
    BY <2>1 DEF PoolInv, BlocksDisjoint
  <2>2. CASE b = new /\ c \in live
    BY <2>2, <1>0, <1>4
  <2>3. CASE b \in live /\ c = new
    BY <2>3, <1>0, <1>4
  <2> QED BY <1>3, <2>1, <2>2, <2>3
<1>8. ASSUME NEW b \in live'
      PROVE  b.start % Align = 0 /\ b.start + b.size <= allocated'
  <2>1. CASE b \in live
    BY <2>1, <1>0, <1>2, <1>4 DEF PoolInv
  <2>2. CASE b = new
    BY <2>2, <1>0, <1>1, <1>2, <1>4
  <2> QED BY <1>3, <2>1, <2>2
<1>9. ASSUME NEW u \in HostThreads, pc'[u] = "try"
      PROVE  seen'[u] <= allocated'
  <2>1. seen'[u] = seen[u] /\ pc[u] = "try"
    BY <1>9 DEF Exchange, PoolInv, PoolTypeOK
  <2>2. seen[u] <= allocated /\ seen[u] \in Nat
    BY <2>1, AddressIsPositive DEF PoolInv, PoolTypeOK
  <2> QED BY <2>1, <2>2, <1>0, <1>2, <1>4
<1> QED BY <1>6, <1>7, <1>8, <1>9 DEF PoolInv

(* The other steps of a thread give nothing out.                           *)
LEMMA ThreadStep ==
  ASSUME PoolInv, NEW t \in HostThreads,
         Bail(t) \/ Retry(t) \/ \E s \in Sizes : Alloc(t, s)
  PROVE  PoolInv'
<1>0. allocated \in Int
  BY AddressIsPositive DEF PoolInv, PoolTypeOK
<1>1. live' = live /\ allocated' = allocated
  BY DEF Bail, Retry, Alloc
<1>2. PoolTypeOK'
  BY DEF PoolInv, PoolTypeOK, Bail, Retry, Alloc
<1>3. BlocksDisjoint'
  BY <1>1 DEF PoolInv, BlocksDisjoint
<1>4. ASSUME NEW u \in HostThreads, pc'[u] = "try"
      PROVE  seen'[u] <= allocated'
  BY <1>0, <1>1, <1>4 DEF PoolInv, PoolTypeOK, Bail, Retry, Alloc
<1> QED BY <1>1, <1>2, <1>3, <1>4 DEF PoolInv

(* The end of an invocation, and the reset of a pool that nobody holds.    *)
LEMMA ReleaseStep ==
  ASSUME PoolInv, Wash \/ \E b \in live : Finish(b)
  PROVE  PoolInv'
<1>1. CASE Wash
  <2>1. /\ live' = {} /\ allocated' = Base /\ pc' = pc
        /\ \A t \in HostThreads : pc[t] = "idle"
    BY <1>1 DEF Wash, Exclusive
  <2>2. PoolTypeOK'
    BY <1>1, <2>1, PoolAssumption DEF PoolInv, PoolTypeOK, Wash, Address, End
  <2>3. BlocksDisjoint'
    BY <2>1 DEF BlocksDisjoint
  <2> QED BY <2>1, <2>2, <2>3 DEF PoolInv
<1>2. CASE \E b \in live : Finish(b)
  <2>1. /\ live' \subseteq live
        /\ UNCHANGED <<allocated, pc, seen, want>>
    BY <1>2 DEF Finish
  <2>2. PoolTypeOK'
    BY <2>1 DEF PoolInv, PoolTypeOK
  <2>3. BlocksDisjoint'
    BY <2>1 DEF PoolInv, BlocksDisjoint
  <2> QED BY <2>1, <2>2, <2>3 DEF PoolInv
<1> QED BY <1>1, <1>2

(* The invariant is inductive.                                             *)
LEMMA NextPoolInv == PoolInv /\ [PoolNext]_poolVars => PoolInv'
<1> SUFFICES ASSUME PoolInv, [PoolNext]_poolVars PROVE PoolInv'
  OBVIOUS
<1>1. CASE \E t \in HostThreads : Exchange(t)
  BY <1>1, ExchangeStep
<1>2. CASE \E t \in HostThreads : Bail(t) \/ Retry(t) \/ \E s \in Sizes : Alloc(t, s)
  BY <1>2, ThreadStep
<1>3. CASE Wash \/ \E b \in live : Finish(b)
  BY <1>3, ReleaseStep
<1>4. CASE UNCHANGED poolVars
  BY <1>4 DEF poolVars, PoolInv, PoolTypeOK, BlocksDisjoint
<1> QED BY <1>1, <1>2, <1>3, <1>4 DEF PoolNext

-----------------------------------------------------------------------------
(* The invariant of the pool holds in every reachable state.               *)
THEOREM PoolInvariant == PoolSpec => []PoolInv
<1>1. PoolInit => PoolInv
  BY InitPoolInv
<1>2. PoolInv /\ [PoolNext]_poolVars => PoolInv'
  BY NextPoolInv
<1> QED BY <1>1, <1>2, PTL DEF PoolSpec

(* Two invocations that are not over never share a byte of the pool, and   *)
(* every block lies in the arena on a cache line of its own: the bump      *)
(* pointer without a lock is safe for any number of threads and sizes.     *)
THEOREM BlocksAreSafe == PoolSpec => [](BlocksDisjoint /\ BlocksPlaced)
<1>1. ASSUME PoolInv PROVE BlocksDisjoint /\ BlocksPlaced
  <2> SUFFICES ASSUME NEW b \in live
               PROVE  /\ b.start % Align = 0
                      /\ Base <= b.start /\ b.start + b.size <= End
    BY <1>1 DEF BlocksPlaced, PoolInv
  <2>1. b \in Block /\ b.start % Align = 0 /\ b.start + b.size <= allocated
    BY <1>1 DEF PoolInv, PoolTypeOK
  <2>2. /\ b.start \in Address /\ b.size \in Nat /\ allocated \in Address
        /\ Base \in Nat /\ End \in Nat
    <3>1. b.start \in Address /\ b.size \in Sizes /\ allocated \in Address
      BY <1>1, <2>1 DEF PoolInv, PoolTypeOK, Block
    <3>2. Base \in Nat /\ End \in Nat
      BY PoolAssumption DEF End
    <3> QED BY <3>1, <3>2, PoolAssumption
  <2> QED BY <2>1, <2>2 DEF Address
<1>2. PoolSpec => []PoolInv
  BY PoolInvariant
<1> QED BY <1>1, <1>2, PTL

(* alloc never reports a full pool that has room, although the address it  *)
(* decides on may be older than the pointer.                               *)
THEOREM NoneMeansNoRoom == PoolSpec => OutOfSpaceIsReal
<1>1. ASSUME PoolInv, [PoolNext]_poolVars
      PROVE  [\A t \in HostThreads : pc[t] = "try" /\ pc'[t] = "idle" /\ live' = live =>
                NoRoom(allocated, want[t])]_poolVars
  <2> SUFFICES ASSUME PoolNext, NEW t \in HostThreads,
                      pc[t] = "try", pc'[t] = "idle", live' = live
               PROVE  NoRoom(allocated, want[t])
    BY <1>1
  <2>0. /\ allocated \in Nat \ {0} /\ seen[t] \in Nat \ {0} /\ seen[t] <= allocated
        /\ want[t] \in Nat
    BY <1>1, PoolAssumption, AddressIsPositive DEF PoolInv, PoolTypeOK
  <2>1. CASE Bail(t)
    <3>1. NoRoom(seen[t], want[t])
      BY <2>1 DEF Bail
    <3>2. seen[t] + Padding(seen[t]) <= allocated + Padding(allocated)
      BY <2>0, PaddingGrows
    <3>3. /\ Padding(seen[t]) \in Int /\ Padding(allocated) \in Int /\ End \in Int
      BY <2>0, PaddingAligns, PoolAssumption DEF End
    <3> QED BY <2>0, <3>1, <3>2, <3>3 DEF NoRoom, AllocSize
  <2>2. CASE \E u \in HostThreads : Exchange(u)
    <3>1. PICK u \in HostThreads : Exchange(u)
      BY <2>2
    <3> DEFINE new == [start |-> allocated + Padding(allocated), size |-> want[u]]
    <3>2. new \in live /\ new.start + new.size <= allocated
      BY <1>1, <3>1 DEF Exchange, PoolInv
    <3>3. want[u] \in Sizes /\ Padding(allocated) \in Nat /\ want[u] > 0
      <4>1. want[u] \in Sizes
        BY <1>1 DEF PoolInv, PoolTypeOK
      <4>2. want[u] > 0
        <5>1. \A n \in Sizes : n \in Nat \ {0}
          BY PoolAssumption
        <5> QED BY ONLY <4>1, <5>1
      <4> QED BY <4>1, <4>2, <2>0, PaddingAligns, PoolAssumption
    <3>4. new.start = allocated + Padding(allocated) /\ new.size = want[u]
      OBVIOUS
    <3> HIDE DEF new
    <3>5. want[u] \in Nat
      BY <3>3, PoolAssumption
    <3> QED BY <2>0, <3>2, <3>3, <3>4, <3>5
  <2>3. CASE \E u \in HostThreads \ {t} : Bail(u)
    BY <1>1, <2>3 DEF Bail, PoolInv, PoolTypeOK
  <2>4. CASE \E u \in HostThreads : Retry(u) \/ \E s \in Sizes : Alloc(u, s)
    BY <1>1, <2>4 DEF Retry, Alloc, PoolInv, PoolTypeOK
  <2>5. CASE Wash \/ \E b \in live : Finish(b)
    BY <2>5 DEF Wash, Finish
  <2> QED BY <2>1, <2>2, <2>3, <2>4, <2>5 DEF PoolNext
<1>2. PoolSpec => []PoolInv
  BY PoolInvariant
<1> QED BY <1>1, <1>2, PTL DEF PoolSpec, OutOfSpaceIsReal
=============================================================================
