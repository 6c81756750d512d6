----------------------------- MODULE CodegenMemo -----------------------------
(***************************************************************************)
(* What the kernel codegen cache of runtime-core promises to its callers:  *)
(* a kernel description has at most one product for as long as the cache   *)
(* lives, and a call that succeeds returns that product.                   *)
(***************************************************************************)
CONSTANTS Threads, Descs, Products, None

VARIABLES
  memo,     \* the product of each description, None before the first success
  answer    \* what the last call of each thread returned: <<desc, product>>

vars == <<memo, answer>>

Init ==
  /\ memo = [d \in Descs |-> None]
  /\ answer = [t \in Threads |-> <<>>]

(* The first success for d: it is remembered and returned.                 *)
Succeed(t, d) ==
  /\ memo[d] = None /\ memo'[d] \in Products
  /\ memo' = [memo EXCEPT ![d] = memo'[d]]
  /\ answer' = [answer EXCEPT ![t] = <<d, memo'[d]>>]

Recall(t, d) ==
  /\ memo[d] # None
  /\ answer' = [answer EXCEPT ![t] = <<d, memo[d]>>]
  /\ UNCHANGED memo

(* A failure is returned, never remembered.                                *)
Fail(t) ==
  /\ answer' = [answer EXCEPT ![t] = <<>>]
  /\ UNCHANGED memo

Next ==
  \E t \in Threads :
    \/ Fail(t)
    \/ \E d \in Descs : Recall(t, d) \/ Succeed(t, d)

Spec == Init /\ [][Next]_vars
=============================================================================
