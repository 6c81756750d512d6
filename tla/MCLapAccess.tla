---------------------------- MODULE MCLapAccess ----------------------------
(***************************************************************************)
(* LapAccess with two vectors, an Arc that two threads share, and two      *)
(* devices: both need a grant, or one of them does not or may not have it. *)
(***************************************************************************)
EXTENDS LapAccess

CONSTANTS d1, d2, v1, v2, a1, t1, t2

TwoDevices == {d1, d2}
TwoVecs == {v1, v2}
OneArc == {a1}
TwoThreads == {t1, t2}
ThreeClasses == {[d \in TwoDevices |-> IF d = d1 THEN "disallowed" ELSE c] :
                   c \in {"never", "disallowed", "allowed"}}
=============================================================================
