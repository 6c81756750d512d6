------------------------------ MODULE Collector ------------------------------
(***************************************************************************)
(* What is compiled for a kernel: the items its body reaches, with the     *)
(* stubs in the place of what a device cannot run                          *)
(* (runtime-core/src/codegen/worker/collector.rs and stubbing.rs, and the  *)
(* queries of worker/mod.rs that they override).                           *)
(*                                                                         *)
(* A program is a function from its monomorphic items to records:          *)
(*   kind     "Item" (a function), "Static", "Intrinsic", "Indirect" (the  *)
(*            shims of vtables and pointers, virtual calls, empty drop     *)
(*            glue) or "Shim" (every other shim)                           *)
(*   crates   the crates that name it: its own and those of its arguments  *)
(*   foreign  whether it is declared in an extern block                    *)
(*   mir      whether there is a body: for an intrinsic, a custom one      *)
(*   stub     what stands in for it, itself when nothing does              *)
(*   uses     what its body names, and how: "call", "reify" (its address   *)
(*            is taken) or "named" (the collector itself names it: a       *)
(*            constant, a method of a vtable, a lang item, a static)       *)
(***************************************************************************)
EXTENDS FiniteSetsExt

(* The query stubbed_instance: only plain functions are replaced. *)
Stubbed(p, i) == IF p[i].kind = "Item" THEN p[i].stub ELSE i

(* The name of an item in the compiled module. *)
Symbol(p, i) == Stubbed(p, i)

(* The body collected and compiled for an item: is_mir_available and       *)
(* optimized_mir replace a function once more.                             *)
Body(p, i) ==
  LET s == Stubbed(p, i)
  IN  IF p[i].kind = "Item" /\ ~p[s].mir THEN {} ELSE p[s].uses

(* A bug: a foreign function is left out before the stubber sees it. *)
Mutant_Output(p, i) ==
  IF p[i].kind \in {"Static", "Intrinsic"} THEN {i}
  ELSE {Stubbed(p, j) : j \in {k \in {i} : ~p[k].foreign}}

(* The closure output of collect_items_rec: statics and intrinsics as they *)
(* are, the stub of anything else unless it is foreign.                    *)
Output(p, i) ==
  IF p[i].kind \in {"Static", "Intrinsic"} THEN {i}
  ELSE {s \in {Stubbed(p, i)} : ~p[s].foreign}

(* visit_instance_use: the backend has its own code for intrinsics without *)
(* a custom body, and direct calls need no shim.                           *)
Skipped(p, u) ==
  /\ u.how # "named"
  /\ \/ p[u.item].kind = "Intrinsic" /\ ~p[u.item].mir
     \/ p[u.item].kind = "Indirect" /\ u.how = "call"

Neighbours(p, i) ==
  UNION {Output(p, u.item) : u \in {v \in Body(p, i) : ~Skipped(p, v)}}

RECURSIVE CollectItemsRec(_, _, _)
CollectItemsRec(p, visited, start) ==
  IF start \in visited THEN visited
  ELSE FoldSet(LAMBDA n, seen : CollectItemsRec(p, seen, n),
               visited \cup {start}, Neighbours(p, start))

(* collect_and_partition_mono_items: the one unit, with the linkage of its *)
(* items.  The root itself is collected as it is.                          *)
CodegenUnit(p, root) ==
  [i \in CollectItemsRec(p, {}, root) |-> IF i = root THEN "External" ELSE "Internal"]

-----------------------------------------------------------------------------
(* A program of Rust: stubs are plain functions that nothing replaces, an  *)
(* intrinsic is only called, and a body names only what the crates it is   *)
(* made from, or the crates they depend on, declare.                       *)
ProgramOK(p, Reaches(_)) ==
  \A i \in DOMAIN p :
    /\ p[i].stub \in DOMAIN p /\ p[p[i].stub].stub = p[i].stub
    /\ p[i].stub # i => p[i].kind = "Item" /\ p[p[i].stub].kind = "Item" /\ p[p[i].stub].mir
    /\ p[i].kind = "Item" => (p[i].mir <=> ~p[i].foreign)
    /\ \A u \in p[i].uses :
         /\ p[u.item].kind = "Intrinsic" => u.how = "call"
         /\ \A s \in {u.item, p[u.item].stub} : p[s].crates \subseteq Reaches(p[i].crates)

(* What a compiled module must define for a member: the symbols its body   *)
(* refers to, but for those another library or the backend provides.       *)
Undefined(p, members) ==
  {u.item : u \in {v \in UNION {Body(p, i) : i \in members} :
     /\ ~Skipped(p, v)
     /\ ~p[Stubbed(p, v.item)].foreign
     /\ \A i \in members : Symbol(p, i) # Symbol(p, v.item)}}
=============================================================================
