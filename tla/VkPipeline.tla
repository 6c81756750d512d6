------------------------------ MODULE VkPipeline ------------------------------
(***************************************************************************)
(* The pipeline layout a Vulkan kernel was compiled with, as the host asks *)
(* for it: StaticPipelineLayoutDesc, StaticDescSet and its iterator        *)
(* (runtime-vk/src/module.rs).                                             *)
(*                                                                         *)
(* The compiler gives a layout as a sequence of sets, each with its number *)
(* and its bindings, both in order and each number once; numbers may be    *)
(* left out.                                                               *)
(***************************************************************************)
EXTENDS Integers, SequencesExt

NoDesc == [binding |-> -1, desc |-> "none"]

OnePastLast(numbers, none) ==
  IF numbers = << >> THEN none ELSE numbers[Len(numbers)] + 1

NumbersOf(set) == [i \in DOMAIN set.bindings |-> set.bindings[i].binding]

NumSets(layout) == OnePastLast([i \in DOMAIN layout |-> layout[i].set], 0)

(* binary_search_by_key, by the number of a set. *)
SetNumbered(layout, set) == SelectInSeq(layout, LAMBDA s : s.set = set)

(* -1 stands for an answer of None. *)
NumBindingsInSet(layout, set) ==
  LET i == SetNumbered(layout, set)
  IN  IF i = 0 THEN -1 ELSE OnePastLast(NumbersOf(layout[i]), -1)

Descriptor(layout, set, binding) ==
  LET i == SetNumbered(layout, set)
      at == SelectInSeq(layout[i].bindings, LAMBDA b : b.binding = binding)
  IN  IF i = 0 THEN NoDesc ELSE IF at = 0 THEN NoDesc ELSE layout[i].bindings[at]

-----------------------------------------------------------------------------
(* The iterator over a set: what is left of the bindings, the number it is *)
(* at, the binding it has taken out and not yet reached, how many there    *)
(* are and what it has given.                                              *)
DescSetLen(set) == OnePastLast(NumbersOf(set), 0)

DescSetIter(set) ==
  [rest |-> set.bindings, last_binding_id |-> 0, len |-> DescSetLen(set),
   next_binding |-> << >>, given |-> << >>, done |-> FALSE]

SizeHint(it) == it.len - it.last_binding_id

(* A bug: a binding that has been taken out is given at once. *)
Mutant_Reached(it, next) == TRUE

Reached(it, next) == it.last_binding_id = next.binding

NextDesc(it) ==
  LET taken == IF it.next_binding = << >> /\ it.rest # << >>
               THEN [it EXCEPT !.next_binding = <<Head(it.rest)>>, !.rest = Tail(@)] ELSE it
      next == taken.next_binding[1]
      moved == [taken EXCEPT !.last_binding_id = @ + 1]
  IN  CASE taken.next_binding = << >> -> [taken EXCEPT !.done = TRUE]
        [] taken.next_binding # << >> /\ Reached(taken, next) ->
             [moved EXCEPT !.next_binding = << >>, !.given = Append(@, next)]
        [] OTHER -> [moved EXCEPT !.given = Append(@, NoDesc)]

(* The iterator after so many calls of next. *)
Walked(set, calls) == FoldLeft(LAMBDA it, n : NextDesc(it), DescSetIter(set),
                               [n \in 1 .. calls |-> n])

-----------------------------------------------------------------------------
(* Both ways of asking agree: the iterator gives, for each number up to the*)
(* last, what the question for that number answers, promises before each   *)
(* call as many as there are to come, and then ends.                       *)
WalksAsAsked(layout) ==
  \A i \in DOMAIN layout :
    LET set == layout[i]
        len == DescSetLen(set)
    IN  /\ set.set < NumSets(layout)
        /\ \A n \in 0 .. len :
             LET it == Walked(set, n)
             IN  /\ ~it.done /\ SizeHint(it) = len - n
                 /\ Len(it.given) = n
                 /\ \A b \in 1 .. n : it.given[b] = Descriptor(layout, set.set, b - 1)
        /\ Walked(set, len + 1).done
        /\ NumBindingsInSet(layout, set.set) \in {len, -1}
=============================================================================
