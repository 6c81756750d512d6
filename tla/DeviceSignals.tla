---------------------------- MODULE DeviceSignals ----------------------------
(***************************************************************************)
(* A kernel whose work items update a signal the host waits on             *)
(* (runtime-amd/src/signal/gpu.rs and mod.rs, hsa-rt/src/signal.rs).       *)
(*                                                                         *)
(* A launch with a record in "signals" has arguments, a completion signal, *)
(* a value the signal starts from, an operation for each work item that    *)
(* runs, operations of another host thread, and the way the host waits.    *)
(* The signals in the arguments are set to zero by the host, in any order. *)
(* The signal the items update is not the completion: what the processor   *)
(* does to that one is in module Dispatch.                                 *)
(***************************************************************************)
EXTENDS Workgroup

CONSTANTS
  MaxValue,     \* the largest value of a signal: an i64 of the code
  BitAnd(_, _), BitOr(_, _), BitXor(_, _),   \* of words
  DepsOf(_),    \* the signals that iter_deps finds in arguments
  None

(* Signal values are two's complement words.                               *)
Word(n) == n % (2 * MaxValue + 2)
Words == 0 .. 2 * MaxValue + 1
Signed(n) == IF Word(n) > MaxValue THEN Word(n) - (2 * MaxValue + 2) ELSE Word(n)
Values == -MaxValue - 1 .. MaxValue

(* Operations, and the conditions of a wait.                               *)
Exchanges == {"compare_and_swap", "compare_exchange", "compare_exchange_weak"}
Operations ==
  [f : {"add", "sub", "and", "or", "xor", "swap", "store", "fetch_update", "min", "max"}
         \cup Exchanges,
   v : Values, current : Values]
Conditions == [is : {"Equal", "NotEqual", "Less", "GreaterEqual"}, v : Values]

(* The operation of a work item, by the linear id of the item. *)
OpIn(l, w) == l.signals.ops[Params(l, w[1], w[2]).gid + 1]

ASSUME SignalsAssumption ==
  /\ MaxValue \in Nat
  /\ \A a, b \in Words : BitAnd(a, b) \in Words /\ BitOr(a, b) \in Words /\ BitXor(a, b) \in Words
  /\ \A l \in {k \in Launches : k.signals # None} :
       /\ l.signals.start \in Values
       /\ l.signals.peer \in Seq(Operations)
       /\ \A w \in Running(l) : OpIn(l, w) \in Operations
       /\ l.signals.wait.cond \in Conditions
       /\ l.signals.completion # "signal"

VARIABLES
  value,      \* the signal
  event,      \* the interrupt was delivered and not yet seen
  zeroed,     \* the signals of the arguments that are zero
  item,       \* of each work item: "todo", "owes" an interrupt, "done"
  peer,       \* operations the other host thread has made
  host,       \* where the waiting thread is
  got,        \* the value its wait returned
  answer,     \* what the call answered: <<ok, value>>
  waits,      \* calls it made
  seen        \* history: the values since that call began

signalVars == <<value, event, zeroed, item, peer, host, got, answer, waits, seen>>

-----------------------------------------------------------------------------
(* Operations on a signal: what they leave in it.                          *)
After(op, old) ==
  CASE op.f = "add" -> Signed(old + op.v)
    [] op.f = "sub" -> Signed(old - op.v)
    [] op.f = "and" -> Signed(BitAnd(Word(old), Word(op.v)))
    [] op.f = "or" -> Signed(BitOr(Word(old), Word(op.v)))
    [] op.f = "xor" -> Signed(BitXor(Word(old), Word(op.v)))
    [] op.f \in {"swap", "store"} -> op.v
    [] op.f \in Exchanges ->
         IF old = op.current THEN op.v ELSE old
    [] op.f = "fetch_update" -> IF old # op.current THEN op.v ELSE old
    [] op.f = "min" -> IF op.v < old THEN op.v ELSE old
    [] op.f = "max" -> IF op.v > old THEN op.v ELSE old

(* A bug: fetch_max tells the host when it changed nothing. *)
Mutant_Tells(op, old) ==
  CASE op.f \in Exchanges ->
         old = op.current
    [] op.f = "fetch_update" -> old # op.current
    [] op.f = "min" -> old > op.v
    [] op.f = "max" -> old > op.v
    [] OTHER -> TRUE

(* Whether the device's operation goes on to update the mailbox: those that*)
(* may leave the value alone do if they changed it; the closure given to   *)
(* fetch_update answers None for one value.                                *)
Tells(op, old) ==
  CASE op.f \in Exchanges ->
         old = op.current
    [] op.f = "fetch_update" -> old # op.current
    [] op.f = "min" -> old > op.v
    [] op.f = "max" -> old < op.v
    [] OTHER -> TRUE

-----------------------------------------------------------------------------
(* The conditions of a wait.                                               *)
Satisfied(cond, v) ==
  CASE cond.is = "Equal" -> v = cond.v
    [] cond.is = "NotEqual" -> v # cond.v
    [] cond.is = "Less" -> v < cond.v
    [] cond.is = "GreaterEqual" -> v >= cond.v

(* A bug: one outstanding operation is taken for none. *)
Mutant_ZeroCondition == [is |-> "Less", v |-> 2]

(* Zero, or an error. *)
ZeroCondition == [is |-> "Less", v |-> 1]

Wait == launch.signals.wait
ForZero == Wait.how # "wait_for_condition"
Condition == IF ForZero THEN ZeroCondition ELSE Wait.cond

-----------------------------------------------------------------------------
WithSignals == launch.signals # None

(* iter_arg_deps: the kernel's own completion is no dependency, whatever   *)
(* argument holds it.                                                      *)
WaitsFor(l) == DepsOf(l.signals.args) \ {l.signals.completion}

SignalsInit ==
  /\ Init
  /\ value = 0 /\ event = FALSE /\ zeroed = {}
  /\ item = << >> /\ peer = 0
  /\ host = "idle" /\ got = 0 /\ answer = None /\ waits = 0 /\ seen = {}

(* The launch was accepted; the caller waits.  The agent starts the kernel *)
(* when the signals of the dependency barriers are zero.                   *)
Accepted ==
  /\ phase = "Ok" /\ WithSignals
  /\ phase' = "signals"
  /\ value' = launch.signals.start
  /\ item' = [w \in Running(launch) |-> "todo"]
  /\ UNCHANGED <<launch, group, pc, use, slots, event, zeroed, peer, host, got, answer,
                 waits, seen>>

(* The host sets a signal of the arguments; the signal the kernel updates  *)
(* may be one of them.                                                     *)
ZeroDep ==
  /\ phase = "signals"
  /\ \E s \in DepsOf(launch.signals.args) \ (zeroed \cup {"signal"}) :
       zeroed' = zeroed \cup {s}
  /\ UNCHANGED <<vars, value, event, item, peer, host, got, answer, waits, seen>>

IsZero(s) == IF s = "signal" THEN value = 0 ELSE s \in zeroed
Started == \A s \in WaitsFor(launch) : IsZero(s)

OpOf(w) == OpIn(launch, w)

Store(v) == value' = v /\ seen' = seen \cup {v}

(* A work item's operation: the atomic first.  A weak exchange may fail    *)
(* although the value is the current one.                                  *)
Atomic(w) ==
  /\ phase = "signals" /\ w \in DOMAIN item /\ item[w] = "todo"
  /\ Started \/ \E u \in DOMAIN item : item[u] # "todo"
  /\ \/ /\ Store(After(OpOf(w), value))
        /\ item' = [item EXCEPT ![w] = IF Tells(OpOf(w), value) THEN "owes" ELSE "done"]
     \/ /\ OpOf(w).f = "compare_exchange_weak"
        /\ item' = [item EXCEPT ![w] = "done"]
        /\ UNCHANGED <<value, seen>>
  /\ UNCHANGED <<vars, event, zeroed, peer, host, got, answer, waits>>

(* update_mbox: the event id goes to the mailbox, if the signal has one,   *)
(* and the interrupt to the host.                                          *)
UpdateMbox(w) ==
  /\ phase = "signals" /\ w \in DOMAIN item /\ item[w] = "owes"
  /\ event' = (event \/ launch.signals.mailbox)
  /\ item' = [item EXCEPT ![w] = "done"]
  /\ UNCHANGED <<vars, value, zeroed, peer, host, got, answer, waits, seen>>

(* An operation of the other host thread, which goes through the HSA       *)
(* runtime: the runtime wakes the waiter.                                  *)
PeerOp ==
  /\ phase = "signals" /\ peer < Len(launch.signals.peer)
  /\ peer' = peer + 1
  /\ Store(After(launch.signals.peer[peer + 1], value))
  /\ event' = (event \/ launch.signals.mailbox)
  /\ UNCHANGED <<vars, zeroed, item, host, got, answer, waits>>

-----------------------------------------------------------------------------
(* The waiting thread.                                                     *)

Waits == phase = "signals" /\ host \in {"idle", "answered"} /\ waits < Wait.times

(* A plain wait, or the dereference of a SignaledDeref, which panics when  *)
(* the signal is not one the host can wait on.                             *)
BeginWait ==
  /\ Waits /\ Wait.how # "CompletionDep"
  /\ waits' = waits + 1
  /\ seen' = {value} /\ answer' = None
  /\ host' = IF launch.signals.mailbox THEN "look" ELSE "panicked"
  /\ UNCHANGED <<vars, value, event, zeroed, item, peer, got>>

(* The dereference of a CompletionDep: host_wait does not wait a second    *)
(* time, and of a signal the host cannot wait on it wants that it is zero. *)
HostWait ==
  /\ Waits /\ Wait.how = "CompletionDep"
  /\ waits' = waits + 1
  /\ IF waits > 0 THEN UNCHANGED <<host, answer, seen>>
     ELSE /\ seen' = {value}
          /\ answer' = IF ~launch.signals.mailbox /\ value = 0 THEN <<TRUE, 0>> ELSE None
          /\ host' = CASE launch.signals.mailbox -> "look"
                       [] ~launch.signals.mailbox /\ value = 0 -> "answered"
                       [] OTHER -> "panicked"
  /\ UNCHANGED <<vars, value, event, zeroed, item, peer, got>>

(* hsa_signal_wait: the value is looked at, and a thread that may block    *)
(* sleeps until the next event.                                            *)
LookAt ==
  /\ host = "look"
  /\ \/ Satisfied(Condition, value) /\ host' = "woke" /\ got' = value
     \/ ~Satisfied(Condition, value) /\ ~Wait.spin /\ host' = "asleep" /\ UNCHANGED got
  /\ UNCHANGED <<vars, value, event, zeroed, item, peer, answer, waits, seen>>

Interrupted ==
  /\ host = "asleep" /\ event
  /\ event' = FALSE /\ host' = "look"
  /\ UNCHANGED <<vars, value, zeroed, item, peer, got, answer, waits, seen>>

(* It may return at any time: the timeout is over, or for no reason.       *)
Sporadic ==
  /\ host \in {"look", "asleep"}
  /\ host' = "woke" /\ got' = value
  /\ UNCHANGED <<vars, value, event, zeroed, item, peer, answer, waits, seen>>

(* wait_for_zero asks again when the condition does not hold; the others   *)
(* answer the value as an error.  A timeout that does not fit 64 bits of   *)
(* nanoseconds is none.                                                    *)
Answers ==
  /\ host = "woke"
  /\ IF ~Satisfied(Condition, got)
     THEN IF ForZero /\ Wait.how # "wait_for_zero_timeout"
          THEN host' = "look" /\ UNCHANGED answer
          ELSE host' = "answered" /\ answer' = <<FALSE, got>>
     ELSE /\ answer' = <<~ForZero \/ got >= 0, got>>
          /\ host' = IF Wait.how \in {"SignaledDeref", "CompletionDep"} /\ got < 0
                     THEN "panicked" ELSE "answered"
  /\ UNCHANGED <<vars, value, event, zeroed, item, peer, got, waits, seen>>

-----------------------------------------------------------------------------
Device == \E w \in DOMAIN item : Atomic(w) \/ UpdateMbox(w)
Waiter == LookAt \/ Interrupted \/ Answers

SignalsNext ==
  \/ Next /\ UNCHANGED signalVars
  \/ Accepted \/ ZeroDep \/ Device \/ PeerOp \/ BeginWait \/ HostWait \/ Waiter \/ Sporadic

(* The device runs its items, the operating system its threads.  Nothing   *)
(* is promised about wakes for no reason.                                  *)
SignalsSpec ==
  /\ SignalsInit /\ [][SignalsNext]_<<vars, signalVars>>
  /\ WF_<<vars, signalVars>>(Device)
  /\ WF_<<vars, signalVars>>(Waiter)

-----------------------------------------------------------------------------
(* No wake-up is lost: a thread whose condition holds from some time on    *)
(* does not wait for ever, whichever operation of a work item or of        *)
(* another thread made it hold, and although each work item changes the    *)
(* value first and sends its interrupt later.                              *)
WaitsEnd ==
  (<>[](phase = "signals" /\ Satisfied(Condition, value)))
    => []<>(host \notin {"look", "asleep", "woke"})

(* What a wait answers was so at some time during it: an Ok of a wait for  *)
(* zero saw zero, an error of it a negative value or, with a timeout, any; *)
(* and a dereference, of a SignaledDeref or a CompletionDep, of a launch   *)
(* whose items count the signal down comes after all their operations.     *)
CountsDown ==
  /\ launch.signals.peer = << >>
  /\ launch.signals.start = Cardinality(DOMAIN item)
  /\ \A w \in DOMAIN item : OpOf(w).f = "sub" /\ OpOf(w).v = 1

AnswersTrue ==
  host = "answered" =>
    /\ answer[2] \in seen
    /\ ForZero /\ answer[1] => answer[2] = 0
    /\ ForZero /\ ~answer[1] => answer[2] < 0 \/ Wait.how = "wait_for_zero_timeout"
    /\ ~ForZero => answer[1] = Satisfied(Wait.cond, answer[2])
    /\ CountsDown /\ ForZero /\ answer[1] => \A w \in DOMAIN item : item[w] # "todo"
=============================================================================
