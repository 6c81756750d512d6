---------------------------- MODULE KernelSignals ----------------------------
(***************************************************************************)
(* What the arguments of a kernel make it wait for                         *)
(* (runtime-amd/src/signal/deps.rs and the derive macro), with the signals *)
(* and the waits of DeviceSignals, and the operations on words in bits.    *)
(***************************************************************************)
EXTENDS DeviceSignals, SequencesExt, Bitwise

WordAnd(a, b) == a & b
WordOr(a, b) == a | b
WordXor(a, b) == a ^^ b

-----------------------------------------------------------------------------
(* The signals a kernel's arguments make it wait for.  An argument is a    *)
(* kind with the values and the signal it holds.                           *)

(* Not looked into: numbers, atomics and vectors; raw pointers and their   *)
(* pointees; boxes of raw pools; queues and images.                        *)
Prims == {"number", "simd"}
Pointers == {"*const", "NonNull", "phantom"}
Handles == {"Queue", "Image"}
Opaque == Prims \cup Pointers \cup Handles \cup {"RawPoolBox"}

(* References, owners and aggregates pass on what they hold, in order.     *)
References == {"&", "Option"}
Tuples == {"Wrapping", "tuple"}
Aggregates == {"[T]", "Rc", "Box", "[T; C]"}
Lap == {"LocallyAccessiblePoolBox", "LapBox", "LapVec"}

(* A bug: the end of a range is forgotten. *)
Mutant_Bounds(v) == <<v.of[1]>>

(* The bounds a range has. *)
Bounds(v) == v.of

(* derive(GeobacterDeps): the fields without the attribute, by its one     *)
(* spelling, geobacter_amd(ignore_dep).                                    *)
ShouldIgnoreField(v) == v.attr = "ignore_dep"
StructFields(v) == SelectSeq(v.of, LAMBDA f : ~ShouldIgnoreField(f))

(* iter_deps, in the order of its calls of f.                              *)
RECURSIVE SignalsOf(_)
SignalsOf(v) ==
  LET all(s) == FlattenSeq([n \in DOMAIN s |-> SignalsOf(s[n])])
  IN  CASE v.kind \in Opaque -> << >>
        [] v.kind = "Signal" -> <<v.signal>>
        [] v.kind \in References \cup Tuples \cup Aggregates \cup Lap -> all(v.of)
        [] v.kind = "Range" -> all(Bounds(v))
        [] v.kind = "struct" -> all(StructFields(v))
        [] v.kind = "CompletionDep" -> <<v.signal>>
        [] v.kind = "SignaledDeref" -> Append(all(v.of), v.signal)

ArgDeps == [a \in {l.signals.args : l \in {k \in Launches : k.signals # None}} |->
              Range(SignalsOf(a))]
DepsIn(a) == ArgDeps[a]

-----------------------------------------------------------------------------
(* The values a work item can get at through references and owners, not    *)
(* through raw pointers, and not a completion's own.                       *)
RECURSIVE Reaches(_)
Reaches(v) ==
  IF v.kind \in Opaque THEN {v}
  ELSE {v} \cup UNION {Reaches(f) : f \in {g \in Range(v.of) : g.attr # "ignore_dep"}}

(* A work item that dereferences a SignaledDeref or a CompletionDep does   *)
(* not wait, so whatever value of that kind its arguments hold, at any     *)
(* depth, must be done when it runs; unless the program said to ignore it, *)
(* or its signal is the kernel's own completion, which iter_arg_deps skips *)
(* ("we'd never actually launch!"): such a value is dereferenced early.    *)
ArgumentsReady ==
  phase = "signals" /\ (\E w \in DOMAIN item : item[w] # "todo") =>
    \A v \in Reaches(launch.signals.args) :
      v.kind \in {"SignaledDeref", "CompletionDep"} =>
        v.signal \in zeroed \cup {launch.signals.completion}

(* What the test device_side_signals expects: a kernel whose program sets  *)
(* all other signals runs, although its arguments name the one it is to    *)
(* update, in a field marked geobacter_amd(ignore).  The derive macro      *)
(* knows ignore_dep only.                                                  *)
MarkedRuns ==
  [](phase = "signals" => <>(\E w \in DOMAIN item : item[w] # "todo"))
=============================================================================
