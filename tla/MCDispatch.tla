----------------------------- MODULE MCDispatch -----------------------------
(***************************************************************************)
(* Dispatch with three jobs: all on one queue, or one of them on another.  *)
(***************************************************************************)
EXTENDS Dispatch

CONSTANTS j1, j2, j3, q1, q2

ThreeJobs == {j1, j2, j3}
TwoQueues == {q1, q2}

(* DeviceSignal is the completion of j3, GlobalSignal that of the others.  *)
GlobalSignals == {j1, j2}

TwoPlacements == {[j \in ThreeJobs |-> q1],
                  [j \in ThreeJobs |-> IF j = j2 THEN q2 ELSE q1]}
=============================================================================
