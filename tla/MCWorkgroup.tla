----------------------------- MODULE MCWorkgroup -----------------------------
(* Launches for TLC: every range of one axis, pairs of short ranges with   *)
(* workgroups of all small shapes, a few cubes, the groups with LDS, and   *)
(* kernels that update a signal.                                           *)
EXTENDS KernelSignals

MCIsa == [wgDim |-> <<4, 4, 3>>, wgLen |-> 8, gridDim |-> <<15, 15, 9>>, gridLen |-> 15]

R(lo, hi) == [lo |-> lo, hi |-> hi, incl |-> FALSE]
RI(lo, hi) == [lo |-> lo, hi |-> hi, incl |-> TRUE]
L(g, w, a, u) == [grid |-> g, wg |-> w, array |-> a, uses |-> u, signals |-> None]

Short == {R(0, 0), R(0, 3), R(1, 3), R(2, 1), R(5, 7), RI(0, 0), RI(1, 3), RI(13, 15), R(12, 15)}

OneAxis == {L(<<a>>, <<w>>, <<w>>, << >>) : a \in Axes, w \in 0 .. 5}
TwoAxes == {L(<<a, b>>, <<v, w>>, <<v, w>>, << >>) : a \in Short, b \in Short, v, w \in 1 .. 5}
ThreeAxes == {L(<<a, b, c>>, <<u, v, w>>, <<u, v, w>>, << >>) :
                a, b, c \in {R(0, 2), R(1, 3), RI(1, 1)}, u, v, w \in 1 .. 2}

U(k, r, again) == [kind |-> k, reads |-> r, again |-> again]
Programs ==
  {<<U(k, r, FALSE), U(k, s, TRUE), U(l, TRUE, FALSE)>> :
     k, l \in {"Singleton", "Unique", "Shared"}, r, s \in BOOLEAN}

Small == {[grid |-> <<R(1, 3)>>, wg |-> <<3>>, array |-> <<3>>],      \* one masked
          [grid |-> <<R(0, 3)>>, wg |-> <<3>>, array |-> <<2>>],      \* one killed
          [grid |-> <<R(1, 3), R(0, 2)>>, wg |-> <<2, 2>>, array |-> <<2, 2>>]}
WithLds == {L(s.grid, s.wg, s.array, u) : s \in Small, u \in Programs}

\* Operations on a signal, and ways to wait for it.
Op(f, v) == [f |-> f, v |-> v, current |-> 0]
If(f, c, v) == [f |-> f, v |-> v, current |-> c]
Dec == Op("sub", 1)
DeviceOps == {Op("add", -2), Op("and", 2), Op("or", -4), Op("xor", 3), Op("swap", 0), Op("store", -1),
              Op("min", 0), Op("max", 3), If("compare_and_swap", 2, 0), If("compare_exchange", 1, 0),
              If("compare_exchange_weak", 2, -1), If("fetch_update", 1, 0)}
HostOps == {<<Dec>>, <<Op("add", 3)>>, <<Op("swap", 0)>>, <<If("compare_and_swap", 1, 0)>>}

Way(how, times) == [how |-> how, times |-> times, spin |-> FALSE, cond |-> ZeroCondition]
Ways == {Way("wait_for_zero", 2), Way("wait_for_zero_timeout", 2), Way("SignaledDeref", 2)}
For(is, v) == [Way("wait_for_condition", 1) EXCEPT !.cond = [is |-> is, v |-> v]]
Waitings == {For("Equal", 1), For("NotEqual", 2), For("Less", -1), For("GreaterEqual", 3)}

\* Arguments: a struct of everything, and the one of the test.
Arg(kind, of, s) == [kind |-> kind, of |-> of, signal |-> s, attr |-> "none"]
Leaf(kind) == Arg(kind, << >>, "none")
Has(kind, of) == Arg(kind, of, "none")
Deref0(s, v) == Arg("SignaledDeref", <<v>>, s)
Marked(v, a) == [v EXCEPT !.attr = a]
None0 == Leaf("tuple")
Nested == Has("struct", <<
  Has("&", <<Has("[T]", <<Leaf("number"), Deref0("a", Has("LapVec", <<Leaf("simd")>>))>>)>>),
  Has("Range", <<Leaf("number"), Has("Option", <<Arg("CompletionDep", << >>, "b")>>)>>),
  Has("Rc", <<Has("Wrapping", <<Leaf("NonNull")>>)>>), Leaf("RawPoolBox"), Leaf("Queue"),
  Leaf("Image"), Leaf("phantom"), Leaf("*const"),
  Has("Box", <<Has("LapBox", <<Has("[T; C]", <<Has("Option", << >>)>>)>>)>>),
  Has("LocallyAccessiblePoolBox", <<Deref0("a", Leaf("number"))>>),
  Marked(Arg("Signal", << >>, "signal"), "ignore_dep")>>)
OfTest == Has("struct", <<Marked(Arg("Signal", << >>, "signal"), "ignore"), Arg("Signal", << >>, "a"),
                          Arg("Signal", << >>, "completion")>>)

K(ops, p, w, start, args, mailbox) ==
  [grid |-> <<R(0, 2)>>, wg |-> <<2>>, array |-> <<2>>, uses |-> << >>,
   signals |-> [ops |-> ops, peer |-> p, wait |-> w, start |-> start, args |-> args,
                mailbox |-> mailbox, completion |-> "completion"]]

\* The arguments hold the kernel's own completion.
Completes(k, s) == [k EXCEPT !.signals.completion = s]

Signalling ==
  {K(<<Dec, Dec>>, p, w, 2, Nested, TRUE) : p \in {<< >>, <<Op("add", -2)>>},
     w \in Ways \cup Waitings \cup {Way("CompletionDep", 2)}}
  \cup {K(<<Dec, Dec>>, << >>, [Way("wait_for_zero", 1) EXCEPT !.spin = TRUE], 2, a, TRUE) :
         a \in {None0, OfTest}}
  \cup {Completes(K(<<Dec, Dec>>, << >>, Way("wait_for_zero", 1), 2, Nested, TRUE), s) : s \in {"a", "b"}}
  \cup {K(<<Dec, Dec>>, << >>, Way(how, 1), 2, None0, FALSE) : how \in {"SignaledDeref", "CompletionDep"}}
  \cup {K(<<o, Dec>>, << >>, w, s, None0, TRUE) : o \in DeviceOps,
         w \in Ways \cup Waitings, s \in {1, 2}}
  \cup {K(<<Dec, Op("or", 0)>>, p, w, 2, None0, TRUE) : p \in HostOps, w \in Ways}

MCLaunches == OneAxis \cup TwoAxes \cup ThreeAxes \cup WithLds \cup Signalling
=============================================================================
