----------------------------- MODULE Transfers -----------------------------
(***************************************************************************)
(* Signals, host to device copies and dependency barriers of runtime-amd:  *)
(* SignalFactory::reset and the host's waits (signal/mod.rs), barrier_impl *)
(* (signal/deps.rs), H2DMemcpyGroup and H2DMemoryTransfer (mem.rs), and    *)
(* unchecked_async_copy_into of the accelerator (lib.rs).                  *)
(*                                                                         *)
(* A group of objects is copied with one signal, which counts the copies   *)
(* not over yet.  The signal is an Arc: the program keeps one in a         *)
(* variable it resets for the next group, and every transfer has a clone.  *)
(* The DMA engine and the packet processor count the signals down.         *)
(*                                                                         *)
(* Dependencies are shared with the program (references or Arcs): it does  *)
(* not drop a transfer that a live one depends on.                         *)
(***************************************************************************)
EXTENDS Integers, FiniteSets, FiniteSetsExt

CONSTANTS
  MaxCopies,    \* bound: objects copied in all
  MaxSignals,   \* bound: signals created in all
  HostSignals,  \* the signals made as GlobalSignal, the others as DeviceSignal
  Barriers,     \* barriers the program makes
  PacketDeps,   \* dependencies a barrier packet holds, 5 in AQL
  Kept,         \* the kinds of signal the program has a variable of
  New,          \* the kinds memcopy2 makes
  KeepDeps,     \* whether the program keeps what a barrier waits for
  None

Kinds == {"global", "device"}
Copies == 1 .. MaxCopies
Signals == 1 .. MaxSignals

ASSUME TransfersAssumption ==
  /\ MaxCopies \in Nat /\ MaxSignals \in Nat /\ HostSignals \subseteq Signals
  /\ PacketDeps \in Nat \ {0} /\ KeepDeps \in BOOLEAN
  /\ Kept \subseteq Kinds /\ New \subseteq Kinds
  /\ Barriers \cap Copies = {} /\ IsFiniteSet(Barriers) /\ None \notin Signals

VARIABLES
  value,     \* the value of each signal
  made,      \* the signals created
  kept,      \* the signal in each of the program's variables
  st,        \* where each object is, see CopyStates
  dma,       \* what the DMA engine does with it
  empty,     \* the objects with nothing to copy
  after,     \* what each copy, and each barrier, depends on
  signal,    \* the completion signal of each copy, and of each barrier
  phase,     \* of the one call in progress: idle, copy, or fail
  bar,       \* none, calling, held, or failed: the barriers
  todo,      \* dependencies of a barrier without a packet yet
  packets,   \* the barrier packets enqueued and not over
  panicked,  \* history: some drop panicked
  aborted    \* a panic while unwinding from another

hostVars == <<st, phase, empty, after, signal, made, kept, panicked, aborted>>
barVars == <<bar, todo>>
vars == <<value, dma, packets, hostVars, barVars>>

(* none: not given to a call; next: its call has not come to it; made: its *)
(* transfer is with the call; held: with the program; dropping, gone: its  *)
(* transfer is dropped; failed: its call failed at it, or before it came   *)
(* to it.                                                                  *)
CopyStates == {"none", "next", "made", "held", "dropping", "gone", "failed"}
Things == Copies \cup Barriers
OfKind(v) == IF v = "global" THEN HostSignals ELSE Signals \ HostSignals

Init ==
  /\ value = [s \in Signals |-> 0] /\ made = {}
  /\ kept = [v \in Kept |-> None]
  /\ st = [c \in Copies |-> "none"] /\ dma = [c \in Copies |-> "none"]
  /\ empty = {}
  /\ after = [x \in Things |-> {}] /\ signal = [x \in Things |-> None]
  /\ phase = "idle"
  /\ bar = [b \in Barriers |-> "none"] /\ todo = [b \in Barriers |-> {}]
  /\ packets = {}
  /\ panicked = FALSE /\ aborted = FALSE

-----------------------------------------------------------------------------
(* Signals.                                                                *)

Group == {c \in Copies : st[c] \in {"next", "made"}}
HasTransfer(c) == st[c] \in {"made", "held", "dropping"}
Owned == {x \in Things : IF x \in Copies THEN st[x] = "held"
                                         ELSE bar[x] = "held"}

(* Arc::get_mut: the program's variable is the only owner.                 *)
Mutant_Unique(s) == TRUE
Unique(s) == \A c \in Copies : HasTransfer(c) => signal[c] # s

Unmade(v) == OfKind(v) \ made
Fresh(v) == Min(Unmade(v))

(* A signal is waited for until it is less than one: a negative value is   *)
(* an error, and the wait is over.                                         *)
Mutant_WaitOver(s) == value[s] < 2
WaitOver(s) == value[s] < 1

-----------------------------------------------------------------------------
(* H2DMemcpyGroup::memcopy.                                                *)

Mutant_SignalLen(n) == IF n > 1 THEN n - 1 ELSE n
SignalLen(n) == n

(* reset stores the length of the group in the signal when the variable is *)
(* its only owner, and puts a new signal in the variable otherwise.        *)
Reset(s) ==
  IF s # None /\ Unique(s) THEN {s} ELSE {}

(* The objects of a group, given to memcopy with the signal s: what the    *)
(* signal counted before is forgotten.                                     *)
Begin(s, n, E, D) ==
  LET old == {c \in Copies : st[c] # "none"}
      new == (Cardinality(old) + 1) .. (Cardinality(old) + n)
  IN  /\ new \subseteq Copies
      /\ value' = [value EXCEPT ![s] = SignalLen(n)]
      /\ st' = [c \in Copies |-> IF c \in new THEN "next" ELSE
                                 IF st[c] = "failed" /\ signal[c] = s THEN "gone" ELSE st[c]]
      /\ empty' = empty \cup {c \in new : c - Cardinality(old) \in E}
      /\ after' = [x \in Things |-> IF x \in new THEN D ELSE after[x]]
      /\ signal' = [x \in Things |-> IF x \in new THEN s ELSE signal[x]]
      /\ phase' = "copy"

(* A program one of whose drops panicked starts nothing more.              *)
Ready == phase = "idle" /\ ~panicked /\ \A b \in Barriers : bar[b] # "calling"

(* memcopy with one of the program's variables.                            *)
Memcopy(v, n, E, D) ==
  /\ Ready /\ D \subseteq Owned
  /\ \/ \E s \in Reset(kept[v]) : Begin(s, n, E, D) /\ UNCHANGED <<made, kept>>
     \/ /\ Reset(kept[v]) = {} /\ Unmade(v) # {}
        /\ Begin(Fresh(v), n, E, D)
        /\ made' = made \cup {Fresh(v)}
        /\ kept' = [kept EXCEPT ![v] = Fresh(v)]
  /\ UNCHANGED <<dma, packets, panicked, aborted, barVars>>

(* memcopy2: "always creates a fresh signal", which only the transfers own *)
(* in the end.                                                             *)
Memcopy2(v, n, E, D) ==
  /\ Ready /\ D \subseteq Owned /\ Unmade(v) # {}
  /\ Begin(Fresh(v), n, E, D)
  /\ made' = made \cup {Fresh(v)}
  /\ UNCHANGED <<kept, dma, packets, panicked, aborted, barVars>>

-----------------------------------------------------------------------------
(* The objects of the group, one after the other.                          *)

Next1 == Min({c \in Group : st[c] = "next"})
Coming == phase = "copy" /\ \E c \in Group : st[c] = "next"

(* unchecked_async_copy_into when a side is empty: "nothing to do".        *)
CopyEmpty ==
  /\ Coming /\ Next1 \in empty
  /\ value' = [value EXCEPT ![signal[Next1]] = @ - 1]
  /\ st' = [st EXCEPT ![Next1] = "made"]
  /\ UNCHANGED <<dma, packets, phase, empty, after, signal, made, kept, panicked, aborted, barVars>>

(* async_copy, with the signals of the dependencies.                       *)
CopyAsync ==
  /\ Coming /\ Next1 \notin empty
  /\ dma' = [dma EXCEPT ![Next1] = "started"]
  /\ st' = [st EXCEPT ![Next1] = "made"]
  /\ UNCHANGED <<value, packets, phase, empty, after, signal, made, kept, panicked, aborted, barVars>>

(* The allocation on the device fails, or async_copy does: the error is    *)
(* returned once the transfers made before it are dropped.                 *)
CopyFails ==
  /\ Coming
  /\ st' = [c \in Copies |-> IF st[c] = "next" THEN "failed" ELSE st[c]]
  /\ phase' = "fail"
  /\ UNCHANGED <<value, dma, packets, empty, after, signal, made, kept, panicked, aborted, barVars>>

Return ==
  /\ phase = "copy" /\ ~Coming
  /\ st' = [c \in Copies |-> IF st[c] = "made" THEN "held" ELSE st[c]]
  /\ phase' = "idle"
  /\ UNCHANGED <<value, dma, packets, empty, after, signal, made, kept, panicked, aborted, barVars>>

ReturnErr ==
  /\ phase = "fail" /\ Group = {}
  /\ phase' = "idle"
  /\ UNCHANGED <<value, dma, packets, st, empty, after, signal, made, kept, panicked, aborted, barVars>>

-----------------------------------------------------------------------------
(* H2DMemoryTransfer::drop, after which its memory is freed.               *)

Pending(b) == bar[b] = "calling" \/ \E p \in packets : p.bar = b
Borrowed(c) ==
  \/ \E d \in Copies : (HasTransfer(d) \/ st[d] = "next") /\ c \in after[d]
  \/ \E b \in Barriers : (bar[b] = "calling" \/ (KeepDeps /\ Pending(b))) /\ c \in after[b]

Drop(c) ==
  /\ st[c] = "held" /\ ~Borrowed(c) /\ ~aborted
  /\ st' = [st EXCEPT ![c] = "dropping"]
  /\ UNCHANGED <<value, dma, packets, phase, empty, after, signal, made, kept, panicked, aborted, barVars>>

(* In a failed call the transfers are dropped in their order.              *)
InDrop(c) ==
  /\ ~aborted
  /\ \/ st[c] = "dropping"
     \/ phase = "fail" /\ st[c] = "made" /\ c = Min(Group)

(* The signal is zero, or the host can wait for it.                        *)
DropEnds(c) ==
  /\ InDrop(c)
  /\ IF signal[c] \in HostSignals THEN WaitOver(signal[c]) ELSE value[signal[c]] = 0
  /\ st' = [st EXCEPT ![c] = "gone"]
  /\ UNCHANGED <<value, dma, packets, phase, empty, after, signal, made, kept, panicked, aborted, barVars>>

(* assert_eq!(.., 0) of a signal the host cannot wait for: the fields are  *)
(* dropped all the same.  The second panic of a group aborts.              *)
DropPanics(c) ==
  /\ InDrop(c) /\ signal[c] \notin HostSignals /\ value[signal[c]] # 0
  /\ st' = [st EXCEPT ![c] = "gone"]
  /\ panicked' = TRUE
  /\ aborted' = (st[c] = "made" /\ Cardinality(Group) > 1)
  /\ UNCHANGED <<value, dma, packets, phase, empty, after, signal, made, kept, barVars>>

-----------------------------------------------------------------------------
(* Deps::barrier: packets of a few dependencies each, counted first and    *)
(* made after.                                                             *)

Ceil(n) == (n + PacketDeps - 1) \div PacketDeps
Mutant_PacketCount(D) == Cardinality(D) \div PacketDeps
PacketCount(D) == Ceil(Cardinality(D))

(* S::new(dev, 0), and the reset of a signal nobody else has.              *)
Barrier(b, D) ==
  /\ Ready /\ bar[b] = "none" /\ D \subseteq Owned \ {b} /\ Unmade("global") # {}
  /\ value' = [value EXCEPT ![Fresh("global")] = PacketCount(D)]
  /\ made' = made \cup {Fresh("global")}
  /\ signal' = [signal EXCEPT ![b] = Fresh("global")]
  /\ after' = [after EXCEPT ![b] = D]
  /\ todo' = [todo EXCEPT ![b] = D]
  /\ bar' = [bar EXCEPT ![b] = "calling"]
  /\ UNCHANGED <<dma, packets, st, phase, empty, kept, panicked, aborted>>

Batches(D) ==
  {B \in SUBSET D : \/ Cardinality(B) = PacketDeps
                    \/ B = D /\ B # {} /\ Cardinality(B) < PacketDeps}

EnqueueBarrier(b) ==
  /\ bar[b] = "calling" /\ ~aborted
  /\ \E B \in Batches(todo[b]) :
       /\ packets' = packets \cup {[bar |-> b, deps |-> {signal[d] : d \in B}, of |-> B]}
       /\ todo' = [todo EXCEPT ![b] = @ \ B]
  /\ UNCHANGED <<value, dma, hostVars, bar>>

(* The queue is full: the error drops the signal with the packets before   *)
(* it still waiting.                                                       *)
BarrierFails(b) ==
  /\ bar[b] = "calling" /\ todo[b] # {} /\ ~aborted
  /\ bar' = [bar EXCEPT ![b] = "failed"]
  /\ UNCHANGED <<value, dma, packets, hostVars, todo>>

BarrierReturns(b) ==
  /\ bar[b] = "calling" /\ todo[b] = {} /\ ~aborted
  /\ bar' = [bar EXCEPT ![b] = "held"]
  /\ UNCHANGED <<value, dma, packets, hostVars, todo>>

-----------------------------------------------------------------------------
(* The DMA engine and the packet processor (external).  Barriers that have *)
(* a completion signal have no barrier bit: they end in any order.         *)

InFlight(c) == dma[c] = "started"

(* The signals async_copy is given: those of the dependencies and of the   *)
(* object.                                                                 *)
Mutant_DepSignals(c) == {}
DepSignals(c) == {signal[d] : d \in after[c]}

FinishDma(c) ==
  /\ InFlight(c) /\ \A s \in DepSignals(c) : value[s] = 0
  /\ dma' = [dma EXCEPT ![c] = "done"]
  /\ value' = [value EXCEPT ![signal[c]] = @ - 1]
  /\ UNCHANGED <<packets, hostVars, barVars>>

FinishPacket ==
  /\ \E p \in packets :
       /\ \A s \in p.deps : value[s] = 0
       /\ packets' = packets \ {p}
       /\ value' = [value EXCEPT ![signal[p.bar]] = @ - 1]
  /\ UNCHANGED <<dma, hostVars, barVars>>

-----------------------------------------------------------------------------
CallStep == CopyEmpty \/ CopyAsync \/ CopyFails \/ Return \/ ReturnErr
DropStep(c) == DropEnds(c) \/ DropPanics(c)
BarrierStep(b) == EnqueueBarrier(b) \/ BarrierFails(b) \/ BarrierReturns(b)
Engine == FinishPacket \/ \E c \in Copies : FinishDma(c)

Next ==
  \/ \E n \in 1 .. MaxCopies, D \in SUBSET Owned : \E E \in SUBSET (1 .. n) :
       (\E v \in Kept : Memcopy(v, n, E, D)) \/ (\E v \in New : Memcopy2(v, n, E, D))
  \/ \E b \in Barriers : BarrierStep(b) \/ \E D \in SUBSET Owned : Barrier(b, D)
  \/ CallStep
  \/ \E c \in Copies : Drop(c) \/ DropStep(c)
  \/ Engine

Spec == Init /\ [][Next]_vars

(* Calls and drops that have begun go on, the engines work; the program    *)
(* need not call or drop anything.                                         *)
FairSpec ==
  /\ Spec
  /\ WF_vars(CallStep) /\ WF_vars(Engine)
  /\ \A c \in Copies : WF_vars(DropStep(c))
  /\ \A b \in Barriers : WF_vars(BarrierStep(b))

-----------------------------------------------------------------------------
TypeOK ==
  /\ value \in [Signals -> Int] /\ made \subseteq Signals
  /\ kept \in [Kept -> Signals \cup {None}]
  /\ st \in [Copies -> CopyStates]
  /\ dma \in [Copies -> {"none", "started", "done"}]
  /\ empty \subseteq Copies
  /\ after \in [Things -> SUBSET Things] /\ signal \in [Things -> Signals \cup {None}]
  /\ phase \in {"idle", "copy", "fail"}
  /\ bar \in [Barriers -> {"none", "calling", "held", "failed"}]
  /\ todo \in [Barriers -> SUBSET Things]
  /\ panicked \in BOOLEAN /\ aborted \in BOOLEAN

(* The copies that a signal still counts: under way, to come, or given up. *)
Counted(s) ==
  {c \in Copies : signal[c] = s /\ (InFlight(c) \/ st[c] \in {"next", "failed"})}

PacketsOf(b) == {p \in packets : p.bar = b}

(* A signal's value is the number of copies and packets that will still    *)
(* count it down, and of those that never will because their call failed:  *)
(* what a group or a barrier counts in advance is what it then starts.     *)
CountsAgree ==
  panicked \/
  /\ \A c \in Copies : signal[c] # None => value[signal[c]] = Cardinality(Counted(signal[c]))
  /\ \A b \in Barriers : signal[b] # None =>
       value[signal[b]] = Cardinality(PacketsOf(b)) + Ceil(Cardinality(todo[b]))

(* The source and the destination of a copy are not freed before it is     *)
(* over, as long as no drop had to give up waiting (it panics then).       *)
MemoryOutlivesCopy ==
  panicked \/
  \A c \in Copies : InFlight(c) => HasTransfer(c)

(* "self.transfer already depends on self.deps": when the signal of a      *)
(* transfer is zero, so are the signals of what it depends on.             *)
TransferImpliesDeps ==
  \A c \in Copies :
    HasTransfer(c) /\ value[signal[c]] = 0 => \A d \in after[c] : value[signal[d]] = 0

(* That holds of every transfer with something to copy.                    *)
CopyImpliesDeps ==
  panicked \/
  \A c \in Copies \ empty :
    HasTransfer(c) /\ st[c] # "made" /\ value[signal[c]] = 0 =>
      \A d \in after[c] : value[signal[d]] = 0

(* A signal that a copy or a barrier packet waits for is never set again   *)
(* ("possibly while in use, breaking signal dependency chains").           *)
WaitedFor(s) ==
  \/ \E c \in Copies : InFlight(c) /\ s \in DepSignals(c)
  \/ \E p \in packets : s \in p.deps
NoResetInUse == [][\A s \in Signals : value'[s] > value[s] => ~WaitedFor(s)]_vars

(* Every drop of a transfer ends, whatever the copy and its dependencies   *)
(* wait for, unless some call failed half way.                             *)
HalfWay == panicked \/ \E x \in Things : IF x \in Copies THEN st[x] = "failed" ELSE bar[x] = "failed"
DropsEnd == \A c \in Copies : st[c] = "dropping" ~> (st[c] = "gone" \/ HalfWay)
=============================================================================
