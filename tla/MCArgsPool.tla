----------------------------- MODULE MCArgsPool -----------------------------
(***************************************************************************)
(* ArgsPool with small addresses: blocks aligned to 4 stand for 128.       *)
(***************************************************************************)
EXTENDS ArgsPool

(* The arena of ArgsPool::new for three calls of a kernel whose arguments  *)
(* take 6 bytes.                                                           *)
BytesForCalls == NewBytes(4, 6, 3)
=============================================================================
