---------------------------- MODULE MCTransfers ----------------------------
(***************************************************************************)
(* Transfers with a few objects: the program has a GlobalSignal it uses    *)
(* again, and memcopy2 makes DeviceSignals.                                *)
(***************************************************************************)
EXTENDS Transfers

CONSTANTS b1

OneBarrier == {b1}
GlobalSignals == 1 .. 2
GlobalKind == {"global"}
DeviceKind == {"device"}
=============================================================================
