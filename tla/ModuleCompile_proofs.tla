------------------------- MODULE ModuleCompile_proofs -------------------------
(***************************************************************************)
(* The slow path of ModuleData::compile is under one lock also when a pool *)
(* worker compiles for the one that has it, the module of a device is      *)
(* created once, and a deadlock is for good: for every number of host      *)
(* threads, closures, workers, functions, devices and operations.          *)
(***************************************************************************)
EXTENDS ModuleCompile, SequenceTheorems, TLAPS

-----------------------------------------------------------------------------
(* Stacks.                                                                 *)

LEMMA FrameFacts ==
  /\ \A c \in Callers : Run(c) \in Frames /\ Run(c)[1] = "run" /\ Run(c)[2] = c
  /\ \A h \in Hosts : Scope(h) \in Frames /\ Scope(h)[1] = "scope" /\ Scope(h)[2] = h
  /\ \A c, d : Run(c) = Run(d) => c = d
  /\ \A c, h : Run(c) # Scope(h)
  /\ \A g, h : Scope(g) = Scope(h) => g = h
  BY DEF Run, Scope, Frames, Callers

(* A stack with one more on top, and with one less.                        *)
LEMMA AppendFacts ==
  ASSUME NEW S, NEW s \in Seq(S), NEW f \in S
  PROVE  /\ Append(s, f) \in Seq(S) /\ Len(Append(s, f)) = Len(s) + 1
         /\ Append(s, f)[Len(s) + 1] = f
         /\ \A i \in 1 .. Len(s) : Append(s, f)[i] = s[i]
  BY AppendProperties

LEMMA AppendDistinct ==
  ASSUME NEW S, NEW s \in Seq(S), NEW e \in S,
         \A i \in 1 .. Len(s) : s[i] # e,
         \A i, k \in 1 .. Len(s) : s[i] = s[k] => i = k
  PROVE  \A i, k \in 1 .. Len(Append(s, e)) : Append(s, e)[i] = Append(s, e)[k] => i = k
<1>. DEFINE t == Append(s, e)
<1>1. /\ Len(t) = Len(s) + 1 /\ t[Len(s) + 1] = e /\ Len(s) \in Nat
      /\ \A i \in 1 .. Len(s) : t[i] = s[i]
  BY AppendFacts, LenProperties
<1>. HIDE DEF t
<1>. SUFFICES ASSUME NEW i \in 1 .. Len(t), NEW k \in 1 .. Len(t), t[i] = t[k]
              PROVE  i = k
  BY DEF t
<1>2. CASE i \in 1 .. Len(s) /\ k \in 1 .. Len(s)
  BY <1>1, <1>2
<1>3. CASE i \in 1 .. Len(s) /\ k \notin 1 .. Len(s)
  BY <1>1, <1>3
<1>4. CASE i \notin 1 .. Len(s) /\ k \in 1 .. Len(s)
  BY <1>1, <1>4
<1>5. CASE i \notin 1 .. Len(s) /\ k \notin 1 .. Len(s)
  BY <1>1, <1>5
<1> QED BY <1>2, <1>3, <1>4, <1>5

LEMMA FrontFacts ==
  ASSUME NEW S, NEW s \in Seq(S), s # << >>
  PROVE  /\ Front(s) \in Seq(S) /\ Len(Front(s)) = Len(s) - 1
         /\ \A i \in 1 .. Len(s) - 1 : Front(s)[i] = s[i]
         /\ Len(s) \in 1 .. Len(s) /\ Last(s) = s[Len(s)]
<1>1. Len(s) \in Nat /\ Len(s) > 0
  BY EmptySeq, LenProperties
<1>2. Front(s) = SubSeq(s, 1, Len(s) - 1) /\ Last(s) = s[Len(s)]
  BY DEF Front, Last
<1>. DEFINE n == Len(s) - 1
<1>3. n \in Int /\ 1 \in Int /\ \A i \in 1 .. n : s[i] \in S
  BY <1>1, ElementOfSeq
<1>. HIDE DEF n
<1>4. /\ SubSeq(s, 1, n) \in Seq(S)
      /\ Len(SubSeq(s, 1, n)) = IF 1 <= n THEN n - 1 + 1 ELSE 0
      /\ \A i \in 1 .. n - 1 + 1 : SubSeq(s, 1, n)[i] = s[1 + i - 1]
  BY <1>3, SubSeqProperties
<1>5. n \in Nat /\ n + 1 = Len(s) /\ Front(s) = SubSeq(s, 1, n)
  BY <1>1, <1>2 DEF n
<1>6. Len(SubSeq(s, 1, n)) = n /\ \A i \in 1 .. n : SubSeq(s, 1, n)[i] = s[i]
  BY <1>4, <1>5
<1>7. Len(s) - 1 = n /\ Len(s) \in 1 .. Len(s)
  BY <1>5
<1> QED BY <1>2, <1>4, <1>5, <1>6, <1>7

StacksOK == stack \in [Workers -> Seq(Frames)]

(* Each is on one stack, once.                                             *)
Unique ==
  \A v, w \in Workers : \A i \in 1 .. Len(stack[v]), j \in 1 .. Len(stack[w]) :
    stack[v][i] = stack[w][j] => v = w /\ i = j

LEMMA Lengths ==
  ASSUME StacksOK, NEW w \in Workers
  PROVE  stack[w] \in Seq(Frames) /\ Len(stack[w]) \in Nat /\ DOMAIN stack[w] = 1 .. Len(stack[w])
  BY LenProperties DEF StacksOK

LEMMA AboveDef ==
  ASSUME NEW x, NEW y
  PROVE  y \in Above(x) <=>
           \E w \in Workers : \E i \in 2 .. Len(stack[w]) :
             stack[w][i - 1] = x /\ stack[w][i] = y
  BY DEF Above

(* What is pushed is on a stack, and nothing else changes.                 *)
LEMMA Pushes ==
  ASSUME StacksOK, NEW w \in Workers, NEW f \in Frames, Push(w, f)
  PROVE  /\ StacksOK'
         /\ \A x : Stacked(x)' <=> Stacked(x) \/ x = f
         /\ Unique /\ ~Stacked(f) => Unique'
         /\ \A x, y : y \in Above(x) => y \in Above(x)'
<1>. DEFINE s == stack[w]
<1>1. s \in Seq(Frames) /\ Len(s) \in Nat
  BY Lengths
<1>2. stack' = [stack EXCEPT ![w] = Append(s, f)]
  BY DEF Push
<1>3. /\ Append(s, f) \in Seq(Frames) /\ Len(Append(s, f)) = Len(s) + 1
      /\ Append(s, f)[Len(s) + 1] = f
      /\ \A i \in 1 .. Len(s) : Append(s, f)[i] = s[i]
  BY <1>1, AppendFacts
<1>. HIDE DEF s
<1>4. StacksOK'
  BY <1>2, <1>3 DEF StacksOK
<1>5. stack'[w] = Append(s, f) /\ \A v \in Workers \ {w} : stack'[v] = stack[v]
  BY <1>2 DEF StacksOK
<1>6. /\ stack'[w] \in Seq(Frames) /\ Len(stack'[w]) = Len(stack[w]) + 1
      /\ stack'[w][Len(stack[w]) + 1] = f
      /\ \A i \in 1 .. Len(stack[w]) : stack'[w][i] = stack[w][i]
  BY <1>3, <1>5 DEF s
<1>7. \A v \in Workers : Len(stack[v]) \in Nat /\ DOMAIN stack[v] = 1 .. Len(stack[v])
  BY Lengths
<1>8. \A v \in Workers : DOMAIN stack'[v] = 1 .. Len(stack'[v])
  BY <1>4, LenProperties DEF StacksOK
<1>9. \A x : Stacked(x)' <=> Stacked(x) \/ x = f
  <2>1. ASSUME NEW x, Stacked(x)' PROVE Stacked(x) \/ x = f
    <3>0. PICK v \in Workers : \E i \in 1 .. Len(stack'[v]) : stack'[v][i] = x
      BY <2>1, <1>8 DEF Stacked
    <3>1. PICK i \in 1 .. Len(stack'[v]) : stack'[v][i] = x
      BY <3>0
    <3>2. CASE v = w /\ i = Len(stack[w]) + 1
      BY <3>1, <3>2, <1>6
    <3>3. CASE ~(v = w /\ i = Len(stack[w]) + 1)
      <4>1. i \in 1 .. Len(stack[v]) /\ stack[v][i] = x
        BY <3>1, <3>3, <1>5, <1>6, <1>7
      <4> QED BY <4>1, <1>7 DEF Stacked
    <3> QED BY <3>2, <3>3
  <2>2. ASSUME NEW x, Stacked(x) PROVE Stacked(x)'
    <3>0. PICK v \in Workers : \E i \in 1 .. Len(stack[v]) : stack[v][i] = x
      BY <2>2, <1>7 DEF Stacked
    <3>1. PICK i \in 1 .. Len(stack[v]) : stack[v][i] = x
      BY <3>0
    <3>2. i \in 1 .. Len(stack'[v]) /\ stack'[v][i] = x
      BY <3>1, <1>5, <1>6, <1>7
    <3> QED BY <3>2, <1>8 DEF Stacked
  <2>3. Stacked(f)'
    <3>1. Len(stack[w]) + 1 \in 1 .. Len(stack'[w])
      BY <1>6, <1>7
    <3> QED BY <3>1, <1>6, <1>8 DEF Stacked
  <2> QED BY <2>1, <2>2, <2>3
<1>10. ASSUME Unique, ~Stacked(f) PROVE Unique'
  <2>. SUFFICES ASSUME NEW u \in Workers, NEW v \in Workers, NEW i \in 1 .. Len(stack'[u]),
                       NEW j \in 1 .. Len(stack'[v]), stack'[u][i] = stack'[v][j]
                PROVE  u = v /\ i = j
    BY DEF Unique
  <2>1. ASSUME NEW z \in Workers, NEW n \in 1 .. Len(stack'[z])
        PROVE  \/ z = w /\ n = Len(stack[w]) + 1 /\ stack'[z][n] = f
               \/ n \in 1 .. Len(stack[z]) /\ stack'[z][n] = stack[z][n] /\ stack'[z][n] # f
    <3>1. CASE z = w /\ n = Len(stack[w]) + 1
      BY <3>1, <1>6
    <3>2. CASE ~(z = w /\ n = Len(stack[w]) + 1)
      <4>1. n \in 1 .. Len(stack[z]) /\ stack'[z][n] = stack[z][n]
        <5>1. CASE z = w
          BY <5>1, <3>2, <1>6, <1>7
        <5>2. CASE z # w
          BY <5>2, <1>5
        <5> QED BY <5>1, <5>2
      <4> QED BY <4>1, <1>10, <1>7 DEF Stacked
    <3> QED BY <3>1, <3>2
  <2> QED BY <2>1, <1>10 DEF Unique
<1>11. ASSUME NEW x, NEW y, y \in Above(x) PROVE y \in Above(x)'
  <2>0. PICK v \in Workers : \E i \in 2 .. Len(stack[v]) : stack[v][i - 1] = x /\ stack[v][i] = y
    BY <1>11, AboveDef
  <2>1. PICK i \in 2 .. Len(stack[v]) : stack[v][i - 1] = x /\ stack[v][i] = y
    BY <2>0
  <2>2. i \in 2 .. Len(stack'[v]) /\ stack'[v][i - 1] = x /\ stack'[v][i] = y
    <3>1. CASE v = w
      <4>1. i \in 1 .. Len(stack[w]) /\ i - 1 \in 1 .. Len(stack[w]) /\ i \in 2 .. Len(stack'[w])
        BY <3>1, <1>6, <1>7
      <4> QED BY <3>1, <4>1, <2>1, <1>6
    <3>2. CASE v # w
      BY <3>2, <2>1, <1>5
    <3> QED BY <3>1, <3>2
  <2> QED BY <2>2 DEF Above
<1> QED BY <1>4, <1>9, <1>10, <1>11

(* What is popped is on no stack any more, and nothing else changes.       *)
LEMMA Pops ==
  ASSUME StacksOK, Unique, NEW f, Pop(f)
  PROVE  /\ StacksOK' /\ Unique'
         /\ \A x : Stacked(x)' => Stacked(x)
         /\ \A x : x # f /\ Stacked(x) => Stacked(x)'
         /\ (\E w \in Workers : OnTop(w, f)) => ~Stacked(f)'
         /\ \A x, y : y # f /\ y \in Above(x) => y \in Above(x)'
<1>1. \A v \in Workers : Len(stack[v]) \in Nat /\ DOMAIN stack[v] = 1 .. Len(stack[v])
  BY Lengths
<1>2. ASSUME NEW v \in Workers
      PROVE  /\ stack'[v] \in Seq(Frames) /\ Len(stack'[v]) <= Len(stack[v])
             /\ \A i \in 1 .. Len(stack'[v]) : stack'[v][i] = stack[v][i]
             /\ \A i \in 1 .. Len(stack[v]) : stack[v][i] # f => i <= Len(stack'[v])
             /\ OnTop(v, f) => /\ Len(stack[v]) \in 1 .. Len(stack[v])
                               /\ Len(stack'[v]) = Len(stack[v]) - 1
                               /\ stack[v][Len(stack[v])] = f
  <2>1. CASE OnTop(v, f)
    <3>1. stack'[v] = Front(stack[v]) /\ stack[v] # << >> /\ Last(stack[v]) = f
      BY <2>1 DEF Pop, OnTop
    <3>2. stack[v] \in Seq(Frames)
      BY DEF StacksOK
    <3>3. /\ Front(stack[v]) \in Seq(Frames) /\ Len(Front(stack[v])) = Len(stack[v]) - 1
          /\ \A i \in 1 .. Len(stack[v]) - 1 : Front(stack[v])[i] = stack[v][i]
          /\ Len(stack[v]) \in 1 .. Len(stack[v]) /\ Last(stack[v]) = stack[v][Len(stack[v])]
      BY <3>1, <3>2, FrontFacts
    <3> QED BY <3>1, <3>3, <1>1
  <2>2. CASE ~OnTop(v, f)
    BY <2>2, <1>1 DEF Pop, StacksOK
  <2> QED BY <2>1, <2>2
<1>3. StacksOK'
  BY <1>2 DEF Pop, StacksOK
<1>4. \A v \in Workers : Len(stack'[v]) \in Nat /\ DOMAIN stack'[v] = 1 .. Len(stack'[v])
  BY <1>3, LenProperties DEF StacksOK
<1>5. Unique'
  <2>1. \A v \in Workers : \A i \in 1 .. Len(stack'[v]) :
          i \in 1 .. Len(stack[v]) /\ stack'[v][i] = stack[v][i]
    BY <1>1, <1>2, <1>4
  <2> QED BY <2>1 DEF Unique
<1>6. ASSUME NEW x, Stacked(x)' PROVE Stacked(x)
  <2>0. PICK v \in Workers : \E i \in 1 .. Len(stack'[v]) : stack'[v][i] = x
    BY <1>6, <1>4 DEF Stacked
  <2>1. PICK i \in 1 .. Len(stack'[v]) : stack'[v][i] = x
    BY <2>0
  <2>2. i \in 1 .. Len(stack[v]) /\ stack[v][i] = x
    BY <2>1, <1>1, <1>2, <1>4
  <2> QED BY <2>2, <1>1 DEF Stacked
<1>7. ASSUME NEW x, x # f, Stacked(x) PROVE Stacked(x)'
  <2>0. PICK v \in Workers : \E i \in 1 .. Len(stack[v]) : stack[v][i] = x
    BY <1>7, <1>1 DEF Stacked
  <2>1. PICK i \in 1 .. Len(stack[v]) : stack[v][i] = x
    BY <2>0
  <2>2. i \in 1 .. Len(stack'[v]) /\ stack'[v][i] = x
    BY <2>1, <1>7, <1>1, <1>2, <1>4
  <2> QED BY <2>2, <1>4 DEF Stacked
<1>8. ASSUME NEW w \in Workers, OnTop(w, f), Stacked(f)' PROVE FALSE
  <2>0. PICK v \in Workers : \E i \in 1 .. Len(stack'[v]) : stack'[v][i] = f
    BY <1>8, <1>4 DEF Stacked
  <2>1. PICK i \in 1 .. Len(stack'[v]) : stack'[v][i] = f
    BY <2>0
  <2>2. i \in 1 .. Len(stack[v]) /\ stack[v][i] = f
    BY <2>1, <1>1, <1>2, <1>4
  <2>3. v = w /\ i = Len(stack[w])
    BY <2>2, <1>8, <1>2 DEF Unique
  <2> QED BY <2>1, <2>3, <1>8, <1>1, <1>2
<1>9. ASSUME NEW x, NEW y, y # f, y \in Above(x) PROVE y \in Above(x)'
  <2>0. PICK v \in Workers : \E i \in 2 .. Len(stack[v]) : stack[v][i - 1] = x /\ stack[v][i] = y
    BY <1>9, AboveDef
  <2>1. PICK i \in 2 .. Len(stack[v]) : stack[v][i - 1] = x /\ stack[v][i] = y
    BY <2>0
  <2>2. i \in 1 .. Len(stack[v])
    BY <2>1, <1>1
  <2>3. i <= Len(stack'[v])
    BY <2>1, <2>2, <1>9, <1>2
  <2>4. i \in 2 .. Len(stack'[v]) /\ i - 1 \in 1 .. Len(stack'[v]) /\ i \in 1 .. Len(stack'[v])
    BY <2>1, <2>3, <1>1, <1>4
  <2>5. stack'[v][i - 1] = x /\ stack'[v][i] = y
    BY <2>1, <2>4, <1>2
  <2> QED BY <2>4, <2>5 DEF Above
<1> QED BY <1>3, <1>5, <1>6, <1>7, <1>8, <1>9

(* What is on top has nothing above it.                                    *)
LEMMA Tops ==
  ASSUME StacksOK, Unique, NEW w \in Workers, NEW f, OnTop(w, f)
  PROVE  Stacked(f) /\ Above(f) = {}
<1>1. \A v \in Workers : Len(stack[v]) \in Nat /\ DOMAIN stack[v] = 1 .. Len(stack[v])
  BY Lengths
<1>2. Len(stack[w]) \in 1 .. Len(stack[w]) /\ stack[w][Len(stack[w])] = f
  BY FrontFacts DEF OnTop, StacksOK
<1>3. Stacked(f)
  BY <1>1, <1>2 DEF Stacked
<1>4. ASSUME NEW y \in Above(f) PROVE FALSE
  <2>0. PICK v \in Workers : \E i \in 2 .. Len(stack[v]) : stack[v][i - 1] = f
    BY AboveDef
  <2>1. PICK i \in 2 .. Len(stack[v]) : stack[v][i - 1] = f
    BY <2>0
  <2>2. i - 1 \in 1 .. Len(stack[v])
    BY <2>1, <1>1
  <2>3. v = w /\ i - 1 = Len(stack[w])
    BY <2>1, <2>2, <1>2 DEF Unique
  <2> QED BY <2>1, <2>3, <1>1
<1> QED BY <1>3, <1>4

-----------------------------------------------------------------------------
(* The inductive invariant.                                                *)

(* Who is inside ModuleData::compile has a description.                    *)
TaskOK == \A c \in Callers : pc[c] \notin {"idle", "ended"} => task[c] \in Desc

(* Who is in the slow path has the lock of the function, and nobody else.  *)
OwnerOK ==
  /\ \A c \in Callers : InCritical(c) => owner[Func(c)] = c
  /\ \A f \in Funcs : \A c \in Callers : owner[f] = c => InCritical(c) /\ Func(c) = f

(* Past the second look there is no module, and before the store a product.*)
EntryOK ==
  \A c \in Callers :
    /\ pc[c] \in {"codegen", "wait", "install"} => Entry(c) = None
    /\ pc[c] = "install" => product[Func(c)] \in Params

(* A caller has a session exactly while it waits for it.                   *)
WaitOK == \A c \in Callers : pc[c] = "wait" <=> session[c] # "none"

(* Who has the metadata lock is at the place where it is held.             *)
MetaOK ==
  \A c \in Callers :
    /\ metadata.writer = c <=> session[c] = "locked"
    /\ c \in metadata.readers <=> session[c] = "compile"

(* Each frame is on one stack, while what it stands for is running.        *)
FramesOK ==
  /\ Unique
  /\ \A h \in Hosts : Stacked(Scope(h)) => session[h] \notin {"none", "queued"}
  /\ \A h \in Hosts : Stacked(Run(h)) => session[h] \in Running
  /\ \A j \in Jobs : Stacked(Run(j)) => pc[j] \notin {"idle", "queued", "ended"}

(* The queue has each session and each closure that waits there once.      *)
QueueOK ==
  /\ \A i \in 1 .. Len(queue) :
       /\ queue[i] \in Hosts => session[queue[i]] = "queued"
       /\ queue[i] \in Jobs => pc[queue[i]] = "queued"
  /\ \A i, j \in 1 .. Len(queue) : queue[i] = queue[j] => i = j

IInv == TypeOK /\ TaskOK /\ OwnerOK /\ EntryOK /\ WaitOK /\ MetaOK /\ FramesOK /\ QueueOK

LEMMA InitIInv == Init => IInv
<1> SUFFICES ASSUME Init PROVE IInv
  OBVIOUS
<1>. USE DEF Init
<1>1. TypeOK
  <2>1. (CHOOSE v \in Params : TRUE) \in Params
    BY CompileAssumption
  <2>2. << >> \in Seq(Frames) /\ << >> \in Seq(Callers)
    BY EmptySeq
  <2> QED BY <2>1, <2>2 DEF TypeOK, PCs, SessionStates
<1>2. TaskOK /\ OwnerOK /\ EntryOK /\ WaitOK /\ MetaOK
  <2>1. \A c \in Callers : c # None
    BY CompileAssumption
  <2> QED BY <2>1 DEF TaskOK, OwnerOK, InCritical, EntryOK, WaitOK, MetaOK
<1>3. FramesOK
  <2>1. \A x : ~Stacked(x)
    BY EmptySeq DEF Stacked
  <2>2. Unique
    BY EmptySeq DEF Unique
  <2> QED BY <2>1, <2>2 DEF FramesOK
<1>4. QueueOK
  BY EmptySeq DEF QueueOK
<1> QED BY <1>1, <1>2, <1>3, <1>4 DEF IInv

-----------------------------------------------------------------------------
(* What a step does to the stacks, said of the frames that are on them.    *)

LEMMA StackSame ==
  ASSUME UNCHANGED stack
  PROVE  /\ StacksOK => StacksOK'
         /\ Unique => Unique'
         /\ \A x : Stacked(x)' <=> Stacked(x)
         /\ \A x : Above(x)' = Above(x)
<1>1. StacksOK => StacksOK'
  BY DEF StacksOK
<1>2. Unique => Unique'
  BY DEF Unique
<1>3. \A x : Stacked(x)' <=> Stacked(x)
  BY DEF Stacked
<1>4. \A x : Above(x)' = Above(x)
  BY DEF Above
<1> QED BY <1>1, <1>2, <1>3, <1>4

(* A host that leaves compile() leaves the stacks alone; a closure was on  *)
(* top and is gone.                                                        *)
LEMMA LeaveStack ==
  ASSUME StacksOK, Unique, NEW c \in Callers, NEW m, Runs(c), Leave(c, m)
  PROVE  /\ StacksOK' /\ Unique'
         /\ \A x : Stacked(x)' => Stacked(x)
         /\ c \in Jobs => ~Stacked(Run(c))'
<1>1. CASE c \in Hosts
  <2>1. UNCHANGED stack /\ c \notin Jobs
    BY <1>1, CompileAssumption DEF Leave
  <2> QED BY <2>1, StackSame
<1>2. CASE c \notin Hosts
  <2>1. Pop(Run(c)) /\ \E w \in Workers : OnTop(w, Run(c))
    BY <1>2 DEF Leave, Runs, Active
  <2> QED BY <2>1, Pops
<1> QED BY <1>1, <1>2

LEMMA LeaveTypes ==
  ASSUME TypeOK, NEW c \in Callers, NEW m \in Desc \cup {None}, Leave(c, m)
  PROVE  /\ pc' = [pc EXCEPT ![c] = IF c \in Hosts THEN "idle" ELSE "ended"]
         /\ pc' \in [Callers -> PCs]
         /\ task' = [task EXCEPT ![c] = None]
         /\ task' \in [Callers -> Desc \cup {None}]
         /\ module' \in [Hosts -> Desc \cup {None}]
<1>1. pc' = [pc EXCEPT ![c] = IF c \in Hosts THEN "idle" ELSE "ended"]
  BY DEF Leave, Goto
<1>2. pc' \in [Callers -> PCs]
  BY <1>1 DEF TypeOK, PCs
<1>3. task' = [task EXCEPT ![c] = None] /\ task' \in [Callers -> Desc \cup {None}]
  BY DEF Leave, TypeOK
<1>4. module' \in [Hosts -> Desc \cup {None}]
  BY DEF Leave, TypeOK
<1> QED BY <1>1, <1>2, <1>3, <1>4

(* The parts of the invariant that are about the pool stay when the places *)
(* of callers change between those where a closure runs.                   *)
LEMMA PoolSame ==
  ASSUME MetaOK, FramesOK, QueueOK, UNCHANGED <<metadata, session, stack, queue>>,
         \A c \in Callers : pc[c] = "queued" => pc'[c] = "queued",
         \A j \in Jobs : pc'[j] \in {"idle", "queued", "ended"} => pc'[j] = pc[j],
         queue \in Seq(Callers)
  PROVE  MetaOK' /\ FramesOK' /\ QueueOK'
<1>1. MetaOK'
  BY DEF MetaOK
<1>2. FramesOK'
  BY StackSame DEF FramesOK
<1>3. QueueOK'
  <2>1. \A i \in 1 .. Len(queue) : queue[i] \in Callers
    BY ElementOfSeq
  <2> QED BY <2>1 DEF QueueOK
<1> QED BY <1>1, <1>2, <1>3

(* The others stay when no call moves.                                     *)
LEMMA CallsSame ==
  ASSUME TaskOK, OwnerOK, EntryOK, UNCHANGED <<entries, owner, product, pc, task>>
  PROVE  TaskOK' /\ OwnerOK' /\ EntryOK'
<1>1. TaskOK'
  BY DEF TaskOK
<1>2. OwnerOK'
  BY DEF OwnerOK, InCritical, Func
<1>3. EntryOK'
  BY DEF EntryOK, Entry, Func
<1> QED BY <1>1, <1>2, <1>3

LEMMA FuncType ==
  ASSUME TypeOK, TaskOK, NEW c \in Callers, pc[c] \notin {"idle", "ended"}
  PROVE  task[c] \in Desc /\ Func(c) \in Funcs /\ task[c].accel \in Accels
  BY DEF TaskOK, Func, Desc

(* Giving the lock back and leaving compile() are one step.                *)
LEMMA Unlocks ==
  ASSUME TypeOK, TaskOK, OwnerOK, NEW c \in Callers, InCritical(c), Func(c) \in Funcs,
         owner' = [owner EXCEPT ![Func(c)] = None],
         pc' = [pc EXCEPT ![c] = IF c \in Hosts THEN "idle" ELSE "ended"],
         task' = [task EXCEPT ![c] = None]
  PROVE  OwnerOK'
<1>1. ASSUME NEW d \in Callers, InCritical(d)' PROVE owner'[Func(d)'] = d
  <2>1. d # c /\ InCritical(d) /\ Func(d)' = Func(d) /\ pc[d] \notin {"idle", "ended"}
    BY <1>1 DEF InCritical, Func, TypeOK
  <2>2. owner[Func(d)] = d /\ owner[Func(c)] = c /\ Func(d) \in Funcs
    BY <2>1, FuncType DEF OwnerOK
  <2> QED BY <2>1, <2>2 DEF TypeOK
<1>2. ASSUME NEW f \in Funcs, NEW d \in Callers, owner'[f] = d
      PROVE  InCritical(d)' /\ Func(d)' = f
  <2>1. f # Func(c) /\ owner[f] = d
    BY <1>2, CompileAssumption DEF TypeOK
  <2>2. InCritical(d) /\ Func(d) = f /\ d # c
    BY <2>1 DEF OwnerOK
  <2> QED BY <2>2 DEF InCritical, Func, TypeOK
<1> QED BY <1>1, <1>2 DEF OwnerOK

LEMMA LoadedType ==
  ASSUME TypeOK, NEW c \in Callers, task[c] \in Desc, Entry(c) # None
  PROVE  Loaded(c) \in Desc
<1>1. Entry(c) \in [params : Params, maker : Callers]
  BY DEF TypeOK, Entry, Func, Desc
<1>2. Entry(c).params \in Params
  BY <1>1
<1> QED BY <1>2 DEF Loaded, Desc

-----------------------------------------------------------------------------
(* Every step keeps the invariant: operations on handles.                  *)

LEMMA CompileStep ==
  ASSUME IInv, NEW h \in Hosts, Compile(h)
  PROVE  IInv'
<1>. USE DEF IInv, Compile, Operate, Goto, handleVars, poolVars, Callers
<1>1. HandleDesc(h) \in Desc
  BY DEF HandleDesc, Desc, TypeOK
<1>2. TypeOK'
  BY <1>1 DEF TypeOK, PCs
<1>3. TaskOK'
  BY <1>1 DEF TaskOK, TypeOK
<1>4. OwnerOK'
  BY DEF OwnerOK, InCritical, Func, TypeOK
<1>5. EntryOK'
  BY DEF EntryOK, Entry, Func, TypeOK
<1>6. WaitOK'
  BY DEF WaitOK, TypeOK
<1>7. MetaOK' /\ FramesOK' /\ QueueOK'
  BY PoolSame, CompileAssumption DEF TypeOK
<1> QED BY <1>2, <1>3, <1>4, <1>5, <1>6, <1>7

LEMMA CompileAsyncStep ==
  ASSUME IInv, NEW h \in Hosts, CompileAsync(h)
  PROVE  IInv'
<1>. USE DEF IInv
<1>. DEFINE j == CHOOSE k \in Jobs : pc[k] = "idle"
<1>1. j \in Jobs /\ j \in Callers /\ pc[j] = "idle" /\ j \notin Hosts
  BY CompileAssumption DEF CompileAsync, Callers
<1>2. /\ task' = [task EXCEPT ![j] = HandleDesc(h)] /\ pc' = [pc EXCEPT ![j] = "queued"]
      /\ queue' = Append(queue, j)
      /\ UNCHANGED <<entries, owner, product, handle, module, params, metadata, session, stack>>
  BY DEF CompileAsync, Goto
<1>. HIDE DEF j
<1>3. HandleDesc(h) \in Desc
  BY DEF HandleDesc, Desc, TypeOK
<1>4. /\ queue' \in Seq(Callers) /\ Len(queue') = Len(queue) + 1 /\ queue'[Len(queue) + 1] = j
      /\ \A i \in 1 .. Len(queue) : queue'[i] = queue[i] /\ queue[i] \in Callers
      /\ Len(queue) \in Nat
  BY <1>1, <1>2, AppendFacts, ElementOfSeq, LenProperties DEF TypeOK
<1>5. TypeOK'
  BY <1>1, <1>2, <1>3, <1>4 DEF TypeOK, PCs
<1>6. TaskOK'
  BY <1>1, <1>2, <1>3 DEF TaskOK, TypeOK
<1>7. OwnerOK'
  BY <1>1, <1>2 DEF OwnerOK, InCritical, Func, TypeOK
<1>8. EntryOK'
  BY <1>1, <1>2 DEF EntryOK, Entry, Func, TypeOK
<1>9. WaitOK' /\ MetaOK'
  BY <1>1, <1>2 DEF WaitOK, MetaOK, TypeOK
<1>10. FramesOK'
  BY <1>1, <1>2, StackSame DEF FramesOK, TypeOK, Callers
<1>11. QueueOK'
  <2>1. \A i \in 1 .. Len(queue) : queue[i] # j
    BY <1>1 DEF QueueOK
  <2>2. \A i \in 1 .. Len(queue') : i \in 1 .. Len(queue) \/ i = Len(queue) + 1
    BY <1>4
  <2>3. \A i \in 1 .. Len(queue') :
          /\ queue'[i] \in Hosts => session'[queue'[i]] = "queued"
          /\ queue'[i] \in Jobs => pc'[queue'[i]] = "queued"
    BY <1>1, <1>2, <1>4, <2>2 DEF QueueOK, TypeOK
  <2>4. \A i, k \in 1 .. Len(queue') : queue'[i] = queue'[k] => i = k
    <3>1. queue \in Seq(Callers) /\ \A i, k \in 1 .. Len(queue) : queue[i] = queue[k] => i = k
      BY DEF QueueOK, TypeOK
    <3>2. \A i, k \in 1 .. Len(Append(queue, j)) :
            Append(queue, j)[i] = Append(queue, j)[k] => i = k
      BY ONLY <1>1, <2>1, <3>1, AppendDistinct
    <3> QED BY <1>2, <3>2
  <2> QED BY <2>3, <2>4 DEF QueueOK
<1> QED BY <1>5, <1>6, <1>7, <1>8, <1>9, <1>10, <1>11

LEMMA DefineParamStep ==
  ASSUME IInv, NEW h \in Hosts, NEW v \in Params, DefineParam(h, v)
  PROVE  IInv'
<1>. USE DEF IInv, DefineParam, Operate, Redefine, poolVars
<1>1. TypeOK'
  BY DEF TypeOK
<1>2. TaskOK' /\ OwnerOK' /\ EntryOK'
  BY CallsSame
<1>3. WaitOK'
  BY DEF WaitOK
<1>4. MetaOK' /\ FramesOK' /\ QueueOK'
  BY PoolSame DEF TypeOK
<1> QED BY <1>1, <1>2, <1>3, <1>4

-----------------------------------------------------------------------------
(* A call to ModuleData::compile.                                          *)

LEMMA GetHitStep ==
  ASSUME IInv, NEW c \in Callers, GetHit(c)
  PROVE  IInv'
<1>. USE DEF IInv
<1>1. /\ pc[c] = "get" /\ Entry(c) # None /\ Runs(c) /\ Leave(c, Loaded(c))
      /\ UNCHANGED <<entries, owner, product, handle, params, ops, metadata, session, queue>>
  BY DEF GetHit
<1>2. task[c] \in Desc /\ Func(c) \in Funcs /\ task[c].accel \in Accels
  BY <1>1, FuncType
<1>3. Loaded(c) \in Desc
  BY <1>1, <1>2, LoadedType
<1>4. /\ pc' = [pc EXCEPT ![c] = IF c \in Hosts THEN "idle" ELSE "ended"]
      /\ pc' \in [Callers -> PCs]
      /\ task' = [task EXCEPT ![c] = None]
      /\ task' \in [Callers -> Desc \cup {None}]
      /\ module' \in [Hosts -> Desc \cup {None}]
  BY <1>1, <1>3, LeaveTypes
<1>5. /\ StacksOK' /\ Unique' /\ \A x : Stacked(x)' => Stacked(x)
      /\ c \in Jobs => ~Stacked(Run(c))'
  BY <1>1, LeaveStack DEF StacksOK, TypeOK, FramesOK
<1>6. TypeOK'
  BY <1>1, <1>4, <1>5 DEF TypeOK, StacksOK
<1>7. TaskOK'
  BY <1>4 DEF TaskOK, TypeOK
<1>8. OwnerOK'
  BY <1>1, <1>4 DEF OwnerOK, InCritical, Func, TypeOK
<1>9. EntryOK'
  BY <1>1, <1>4 DEF EntryOK, Entry, Func, TypeOK
<1>10. WaitOK' /\ MetaOK'
  BY <1>1, <1>4 DEF WaitOK, MetaOK, TypeOK
<1>11. FramesOK'
  BY <1>1, <1>4, <1>5, CompileAssumption DEF FramesOK, TypeOK, Callers
<1>12. QueueOK'
  BY <1>1, <1>4, ElementOfSeq DEF QueueOK, TypeOK
<1> QED BY <1>6, <1>7, <1>8, <1>9, <1>10, <1>11, <1>12

LEMMA GetMissStep ==
  ASSUME IInv, NEW c \in Callers, GetMiss(c)
  PROVE  IInv'
<1>. USE DEF IInv, GetMiss, Goto, handleVars, poolVars
<1>1. TypeOK'
  BY DEF TypeOK, PCs
<1>2. TaskOK'
  BY DEF TaskOK, TypeOK
<1>3. OwnerOK'
  BY DEF OwnerOK, InCritical, Func, TypeOK
<1>4. EntryOK'
  BY DEF EntryOK, Entry, Func, TypeOK
<1>5. WaitOK'
  BY DEF WaitOK, TypeOK
<1>6. MetaOK' /\ FramesOK' /\ QueueOK'
  BY PoolSame DEF TypeOK, Callers
<1> QED BY <1>1, <1>2, <1>3, <1>4, <1>5, <1>6

LEMMA LockStep ==
  ASSUME IInv, NEW c \in Callers, Lock(c)
  PROVE  IInv'
<1>. USE DEF IInv, Lock, Goto, handleVars, poolVars
<1>1. Func(c) \in Funcs /\ UNCHANGED task
  BY FuncType
<1>2. TypeOK'
  BY <1>1 DEF TypeOK, PCs
<1>3. TaskOK'
  BY DEF TaskOK, TypeOK
<1>4. OwnerOK'
  <2>1. \A d \in Callers : d # None
    BY CompileAssumption
  <2>2. \A d \in Callers : InCritical(d) => Func(d) # Func(c)
    BY <2>1 DEF OwnerOK
  <2> QED BY <1>1, <2>1, <2>2 DEF OwnerOK, InCritical, Func, TypeOK
<1>5. EntryOK'
  BY DEF EntryOK, Entry, Func, TypeOK
<1>6. WaitOK'
  BY DEF WaitOK, TypeOK
<1>7. MetaOK' /\ FramesOK' /\ QueueOK'
  BY PoolSame DEF TypeOK, Callers
<1> QED BY <1>2, <1>3, <1>4, <1>5, <1>6, <1>7

LEMMA RecheckMissStep ==
  ASSUME IInv, NEW c \in Callers, RecheckMiss(c)
  PROVE  IInv'
<1>. USE DEF IInv, RecheckMiss, Goto, handleVars, poolVars
<1>1. TypeOK'
  BY DEF TypeOK, PCs
<1>2. TaskOK'
  BY DEF TaskOK, TypeOK
<1>3. OwnerOK'
  BY DEF OwnerOK, InCritical, Func, TypeOK
<1>4. EntryOK'
  BY DEF EntryOK, Entry, Func, TypeOK
<1>5. WaitOK'
  BY DEF WaitOK, TypeOK
<1>6. MetaOK' /\ FramesOK' /\ QueueOK'
  BY PoolSame DEF TypeOK, Callers
<1> QED BY <1>1, <1>2, <1>3, <1>4, <1>5, <1>6

LEMMA CodegenCachedStep ==
  ASSUME IInv, NEW c \in Callers, CodegenCached(c)
  PROVE  IInv'
<1>. USE DEF IInv, CodegenCached, Goto, handleVars, poolVars
<1>1. Func(c) \in Funcs
  BY FuncType
<1>2. TypeOK'
  BY DEF TypeOK, PCs
<1>3. TaskOK'
  BY DEF TaskOK, TypeOK
<1>4. OwnerOK'
  BY DEF OwnerOK, InCritical, Func, TypeOK
<1>5. EntryOK'
  <2>1. product[Func(c)] \in Params
    BY <1>1 DEF TypeOK
  <2> QED BY <2>1 DEF EntryOK, Entry, Func, TypeOK
<1>6. WaitOK'
  BY DEF WaitOK, TypeOK
<1>7. MetaOK' /\ FramesOK' /\ QueueOK'
  BY PoolSame DEF TypeOK, Callers
<1> QED BY <1>2, <1>3, <1>4, <1>5, <1>6, <1>7

LEMMA RecheckHitStep ==
  ASSUME IInv, NEW c \in Callers, RecheckHit(c)
  PROVE  IInv'
<1>. USE DEF IInv
<1>1. /\ pc[c] = "recheck" /\ Entry(c) # None /\ Runs(c) /\ Leave(c, Loaded(c))
      /\ owner' = [owner EXCEPT ![Func(c)] = None]
      /\ UNCHANGED <<entries, product, handle, params, ops, metadata, session, queue>>
  BY DEF RecheckHit, Unlock
<1>2. task[c] \in Desc /\ Func(c) \in Funcs /\ task[c].accel \in Accels
  BY <1>1, FuncType
<1>3. Loaded(c) \in Desc
  BY <1>1, <1>2, LoadedType
<1>4. /\ pc' = [pc EXCEPT ![c] = IF c \in Hosts THEN "idle" ELSE "ended"]
      /\ pc' \in [Callers -> PCs]
      /\ task' = [task EXCEPT ![c] = None]
      /\ task' \in [Callers -> Desc \cup {None}]
      /\ module' \in [Hosts -> Desc \cup {None}]
  BY <1>1, <1>3, LeaveTypes
<1>5. /\ StacksOK' /\ Unique' /\ \A x : Stacked(x)' => Stacked(x)
      /\ c \in Jobs => ~Stacked(Run(c))'
  BY <1>1, LeaveStack DEF StacksOK, TypeOK, FramesOK
<1>6. TypeOK'
  BY <1>1, <1>2, <1>4, <1>5 DEF TypeOK, StacksOK
<1>7. TaskOK'
  BY <1>4 DEF TaskOK, TypeOK
<1>8. OwnerOK'
  BY <1>1, <1>2, <1>4, Unlocks DEF InCritical
<1>9. EntryOK'
  BY <1>1, <1>4 DEF EntryOK, Entry, Func, TypeOK
<1>10. WaitOK' /\ MetaOK'
  BY <1>1, <1>4 DEF WaitOK, MetaOK, TypeOK
<1>11. FramesOK'
  BY <1>1, <1>4, <1>5, CompileAssumption DEF FramesOK, TypeOK, Callers
<1>12. QueueOK'
  BY <1>1, <1>4, ElementOfSeq DEF QueueOK, TypeOK
<1> QED BY <1>6, <1>7, <1>8, <1>9, <1>10, <1>11, <1>12

LEMMA InjectSessionStep ==
  ASSUME IInv, NEW h \in Hosts, InjectSession(h)
  PROVE  IInv'
<1>. USE DEF IInv
<1>1. /\ pc[h] = "codegen" /\ h \in Callers /\ h \notin Jobs
      /\ pc' = [pc EXCEPT ![h] = "wait"] /\ session' = [session EXCEPT ![h] = "queued"]
      /\ queue' = Append(queue, h)
      /\ UNCHANGED <<entries, owner, product, task, handle, module, params, ops, metadata, stack>>
  BY CompileAssumption DEF InjectSession, Goto, Reach, Callers, handleVars
<1>2. /\ queue' \in Seq(Callers) /\ Len(queue') = Len(queue) + 1 /\ queue'[Len(queue) + 1] = h
      /\ \A i \in 1 .. Len(queue) : queue'[i] = queue[i] /\ queue[i] \in Callers
      /\ Len(queue) \in Nat
  BY <1>1, AppendFacts, ElementOfSeq, LenProperties DEF TypeOK
<1>3. session[h] = "none"
  BY <1>1 DEF WaitOK
<1>4. TypeOK'
  BY <1>1, <1>2 DEF TypeOK, PCs, SessionStates
<1>5. TaskOK'
  BY <1>1 DEF TaskOK, TypeOK
<1>6. OwnerOK'
  BY <1>1 DEF OwnerOK, InCritical, Func, TypeOK
<1>7. EntryOK'
  BY <1>1 DEF EntryOK, Entry, Func, TypeOK
<1>8. WaitOK' /\ MetaOK'
  BY <1>1, <1>3 DEF WaitOK, MetaOK, TypeOK
<1>9. FramesOK'
  BY <1>1, <1>3, StackSame DEF FramesOK, TypeOK, Callers, Running
<1>10. QueueOK'
  <2>1. \A i \in 1 .. Len(queue) : queue[i] # h
    BY <1>1, <1>3 DEF QueueOK
  <2>2. \A i \in 1 .. Len(queue') : i \in 1 .. Len(queue) \/ i = Len(queue) + 1
    BY <1>2
  <2>3. \A i \in 1 .. Len(queue') :
          /\ queue'[i] \in Hosts => session'[queue'[i]] = "queued"
          /\ queue'[i] \in Jobs => pc'[queue'[i]] = "queued"
    BY <1>1, <1>2, <2>1, <2>2 DEF QueueOK, TypeOK
  <2>4. \A i, k \in 1 .. Len(queue') : queue'[i] = queue'[k] => i = k
    <3>1. queue \in Seq(Callers) /\ \A i, k \in 1 .. Len(queue) : queue[i] = queue[k] => i = k
      BY DEF QueueOK, TypeOK
    <3>2. \A i, k \in 1 .. Len(Append(queue, h)) :
            Append(queue, h)[i] = Append(queue, h)[k] => i = k
      BY ONLY <1>1, <2>1, <3>1, AppendDistinct
    <3> QED BY <1>1, <3>2
  <2> QED BY <2>3, <2>4 DEF QueueOK
<1> QED BY <1>4, <1>5, <1>6, <1>7, <1>8, <1>9, <1>10

LEMMA InlineSessionStep ==
  ASSUME IInv, NEW j \in Jobs, InlineSession(j)
  PROVE  IInv'
<1>. USE DEF IInv, InlineSession, Goto, Reach, handleVars
<1>1. j \in Callers /\ j \notin Hosts /\ session[j] = "none"
  BY CompileAssumption DEF Callers, WaitOK
<1>2. TypeOK'
  BY <1>1 DEF TypeOK, PCs, SessionStates, Running
<1>3. TaskOK'
  BY <1>1 DEF TaskOK, TypeOK
<1>4. OwnerOK'
  BY <1>1 DEF OwnerOK, InCritical, Func, TypeOK
<1>5. EntryOK'
  BY <1>1 DEF EntryOK, Entry, Func, TypeOK
<1>6. WaitOK' /\ MetaOK'
  BY <1>1 DEF WaitOK, MetaOK, TypeOK
<1>7. FramesOK'
  BY <1>1, StackSame DEF FramesOK, TypeOK, Callers
<1>8. QueueOK'
  BY <1>1, ElementOfSeq DEF QueueOK, TypeOK
<1> QED BY <1>2, <1>3, <1>4, <1>5, <1>6, <1>7, <1>8

LEMMA SessionOverStep ==
  ASSUME IInv, NEW c \in Callers, SessionOver(c)
  PROVE  IInv'
<1>. USE DEF IInv
<1>1. /\ pc[c] = "wait" /\ Runs(c) /\ session[c] \in {"ok", "err"} /\ ~Stacked(Scope(c))
      /\ session' = [session EXCEPT ![c] = "none"]
      /\ UNCHANGED <<entries, handle, params, ops, metadata, queue>>
  BY DEF SessionOver, Over, Reach
<1>2. task[c] \in Desc /\ Func(c) \in Funcs
  BY <1>1, FuncType
<1>3. session' \in [Callers -> SessionStates]
  BY <1>1 DEF TypeOK, SessionStates
<1>4. c \in Hosts => ~Stacked(Run(c))
  BY <1>1 DEF FramesOK, Running
<1>5. MetaOK'
  BY <1>1 DEF MetaOK, TypeOK
<1>6. CASE session[c] = "ok"
  <2>1. /\ product' = [product EXCEPT ![Func(c)] = task[c].params]
        /\ pc' = [pc EXCEPT ![c] = "install"] /\ UNCHANGED <<owner, task, module, stack>>
    BY <1>6 DEF SessionOver, Goto
  <2>2. task[c].params \in Params
    BY <1>2 DEF Desc
  <2>3. TypeOK'
    BY <1>1, <1>3, <2>1, <2>2 DEF TypeOK, PCs
  <2>4. TaskOK'
    BY <1>1, <2>1 DEF TaskOK, TypeOK
  <2>5. OwnerOK'
    BY <1>1, <2>1 DEF OwnerOK, InCritical, Func, TypeOK
  <2>6. EntryOK'
    BY <1>1, <1>2, <2>1, <2>2 DEF EntryOK, Entry, Func, TypeOK
  <2>7. WaitOK'
    BY <1>1, <2>1 DEF WaitOK, TypeOK
  <2>8. FramesOK'
    <3>1. Unique' /\ \A x : Stacked(x)' <=> Stacked(x)
      BY <2>1, StackSame DEF FramesOK
    <3>2. \A h \in Hosts : Stacked(Scope(h)) => h # c /\ session'[h] = session[h]
      BY <1>1 DEF TypeOK, Callers
    <3>3. \A h \in Hosts : Stacked(Run(h)) => h # c /\ session'[h] = session[h]
      BY <1>1, <1>4 DEF TypeOK, Callers
    <3>4. \A j \in Jobs : Stacked(Run(j)) => pc'[j] \notin {"idle", "queued", "ended"}
      BY <2>1 DEF FramesOK, TypeOK, Callers
    <3> QED BY <3>1, <3>2, <3>3, <3>4 DEF FramesOK
  <2>9. QueueOK'
    <3>1. \A i \in 1 .. Len(queue) : queue[i] \in Callers
      BY ElementOfSeq DEF TypeOK
    <3>2. \A i \in 1 .. Len(queue) : queue[i] # c
      BY <1>1 DEF QueueOK, Callers
    <3>3. \A d \in Callers : d # c => session'[d] = session[d] /\ pc'[d] = pc[d]
      BY <1>1, <2>1 DEF TypeOK
    <3> QED BY <1>1, <3>1, <3>2, <3>3 DEF QueueOK
  <2> QED BY <1>5, <2>3, <2>4, <2>5, <2>6, <2>7, <2>8, <2>9
<1>7. CASE session[c] # "ok"
  <2>1. owner' = [owner EXCEPT ![Func(c)] = None] /\ Leave(c, None) /\ UNCHANGED product
    BY <1>7 DEF SessionOver, Unlock
  <2>2. /\ pc' = [pc EXCEPT ![c] = IF c \in Hosts THEN "idle" ELSE "ended"]
        /\ pc' \in [Callers -> PCs]
        /\ task' = [task EXCEPT ![c] = None]
        /\ task' \in [Callers -> Desc \cup {None}]
        /\ module' \in [Hosts -> Desc \cup {None}]
    BY <2>1, LeaveTypes
  <2>3. /\ StacksOK' /\ Unique' /\ \A x : Stacked(x)' => Stacked(x)
        /\ c \in Jobs => ~Stacked(Run(c))'
    BY <1>1, <2>1, LeaveStack DEF StacksOK, TypeOK, FramesOK
  <2>4. TypeOK'
    BY <1>1, <1>2, <1>3, <2>1, <2>2, <2>3 DEF TypeOK, StacksOK
  <2>5. TaskOK'
    BY <2>2 DEF TaskOK, TypeOK
  <2>6. OwnerOK'
    BY <1>1, <1>2, <2>1, <2>2, Unlocks DEF InCritical
  <2>7. EntryOK'
    BY <1>1, <2>1, <2>2 DEF EntryOK, Entry, Func, TypeOK
  <2>8. WaitOK'
    BY <1>1, <2>2 DEF WaitOK, TypeOK
  <2>9. FramesOK'
    BY <1>1, <1>4, <2>2, <2>3, CompileAssumption DEF FramesOK, TypeOK, Callers
  <2>10. QueueOK'
    BY <1>1, <2>2, ElementOfSeq DEF QueueOK, TypeOK
  <2> QED BY <1>5, <2>4, <2>5, <2>6, <2>7, <2>8, <2>9, <2>10
<1> QED BY <1>6, <1>7

LEMMA InstallStep ==
  ASSUME IInv, NEW c \in Callers, Install(c)
  PROVE  IInv'
<1>. USE DEF IInv
<1>1. /\ pc[c] = "install" /\ Runs(c)
      /\ owner' = [owner EXCEPT ![Func(c)] = None]
      /\ UNCHANGED <<product, handle, params, ops, metadata, session, queue>>
  BY DEF Install, Unlock
<1>2. task[c] \in Desc /\ Func(c) \in Funcs /\ task[c].accel \in Accels
  BY <1>1, FuncType
<1>3. product[Func(c)] \in Params
  BY <1>1 DEF EntryOK
<1>4. PICK m \in Desc \cup {None} :
        /\ Leave(c, m)
        /\ \/ entries' = [entries EXCEPT ![Func(c)][task[c].accel] =
                            [params |-> product[Func(c)], maker |-> c]]
           \/ UNCHANGED entries
  <2>1. [task[c] EXCEPT !.params = product[Func(c)]] \in Desc
    BY <1>2, <1>3 DEF Desc
  <2> QED BY <2>1 DEF Install
<1>5. /\ pc' = [pc EXCEPT ![c] = IF c \in Hosts THEN "idle" ELSE "ended"]
      /\ pc' \in [Callers -> PCs]
      /\ task' = [task EXCEPT ![c] = None]
      /\ task' \in [Callers -> Desc \cup {None}]
      /\ module' \in [Hosts -> Desc \cup {None}]
  BY <1>4, LeaveTypes
<1>6. /\ StacksOK' /\ Unique' /\ \A x : Stacked(x)' => Stacked(x)
      /\ c \in Jobs => ~Stacked(Run(c))'
  BY <1>1, <1>4, LeaveStack DEF StacksOK, TypeOK, FramesOK
<1>7. /\ entries' \in [Funcs -> [Accels -> [params : Params, maker : Callers] \cup {None}]]
      /\ \A f \in Funcs : f # Func(c) => entries'[f] = entries[f]
  <2>. DEFINE M == [params : Params, maker : Callers] \cup {None}
              new == [params |-> product[Func(c)], maker |-> c]
  <2>1. new \in M /\ entries \in [Funcs -> [Accels -> M]]
    BY <1>3 DEF TypeOK
  <2>2. \/ entries' = [entries EXCEPT ![Func(c)][task[c].accel] = new]
        \/ entries' = entries
    BY <1>4
  <2>. HIDE DEF M, new
  <2>3. entries' \in [Funcs -> [Accels -> M]]
    BY <1>2, <2>1, <2>2
  <2>4. \A f \in Funcs : f # Func(c) => entries'[f] = entries[f]
    BY <2>1, <2>2
  <2> QED BY <2>3, <2>4 DEF M
<1>8. TypeOK'
  BY <1>1, <1>2, <1>5, <1>6, <1>7 DEF TypeOK, StacksOK
<1>9. TaskOK'
  BY <1>5 DEF TaskOK, TypeOK
<1>10. OwnerOK'
  BY <1>1, <1>2, <1>5, Unlocks DEF InCritical
<1>11. EntryOK'
  <2>. SUFFICES ASSUME NEW d \in Callers, pc'[d] \in {"codegen", "wait", "install"}
                PROVE  Entry(d)' = None /\ (pc'[d] = "install" => product'[Func(d)'] \in Params)
    BY DEF EntryOK
  <2>1. d # c /\ pc[d] = pc'[d] /\ task'[d] = task[d]
    BY <1>5 DEF TypeOK
  <2>2. owner[Func(d)] = d /\ owner[Func(c)] = c
    BY <1>1, <2>1 DEF OwnerOK, InCritical
  <2>3. Func(d) \in Funcs /\ Func(d) # Func(c) /\ Func(d)' = Func(d)
    BY <2>1, <2>2, FuncType DEF Func
  <2>4. Entry(d)' = Entry(d)
    BY <1>7, <2>1, <2>3 DEF Entry
  <2> QED BY <1>1, <2>1, <2>3, <2>4 DEF EntryOK
<1>12. WaitOK' /\ MetaOK'
  BY <1>1, <1>5 DEF WaitOK, MetaOK, TypeOK
<1>13. FramesOK'
  BY <1>1, <1>5, <1>6, CompileAssumption DEF FramesOK, TypeOK, Callers
<1>14. QueueOK'
  BY <1>1, <1>5, ElementOfSeq DEF QueueOK, TypeOK
<1> QED BY <1>8, <1>9, <1>10, <1>11, <1>12, <1>13, <1>14

-----------------------------------------------------------------------------
(* A session, and the pool.                                                *)

(* A session goes from one place to another, and leaves the stack of its   *)
(* worker if it was a host's and is over.                                  *)
LEMMA SessionMoves ==
  ASSUME IInv, NEW c \in Callers, session[c] \in Running,
         NEW state \in Running \cup {"ok", "err"},
         session' = [session EXCEPT ![c] = state],
         UNCHANGED <<callVars, queue>>,
         \/ UNCHANGED stack /\ (c \in Jobs \/ state \in Running)
         \/ c \in Hosts /\ Active(c) /\ Pop(Run(c)),
         MetaOK',
         metadata' \in [loaded : BOOLEAN, readers : SUBSET Callers, writer : Callers \cup {None}]
  PROVE  IInv'
<1>. USE DEF IInv, callVars, handleVars
<1>1. /\ StacksOK' /\ Unique' /\ \A x : Stacked(x)' => Stacked(x)
      /\ c \in Hosts /\ Stacked(Run(c))' => state \in Running
  <2>1. StacksOK /\ Unique
    BY DEF TypeOK, FramesOK, StacksOK
  <2>2. CASE UNCHANGED stack /\ (c \in Jobs \/ state \in Running)
    BY <2>1, <2>2, StackSame, CompileAssumption
  <2>3. CASE c \in Hosts /\ Active(c) /\ Pop(Run(c))
    BY <2>1, <2>3, Pops DEF Active
  <2> QED BY <2>2, <2>3
<1>2. TypeOK'
  BY <1>1 DEF TypeOK, StacksOK, SessionStates
<1>3. TaskOK' /\ OwnerOK' /\ EntryOK'
  BY CallsSame
<1>4. WaitOK'
  BY DEF WaitOK, TypeOK, Running
<1>5. \A d \in Callers : d # c => session'[d] = session[d]
  BY DEF TypeOK
<1>6. session'[c] = state
  BY DEF TypeOK
<1>7. FramesOK'
  <2>1. \A h \in Hosts : Stacked(Scope(h))' => session'[h] \notin {"none", "queued"}
    BY <1>1, <1>5, <1>6 DEF FramesOK, Running, Callers
  <2>2. \A h \in Hosts : Stacked(Run(h))' => session'[h] \in Running
    BY <1>1, <1>5, <1>6 DEF FramesOK, Callers
  <2>3. \A j \in Jobs : Stacked(Run(j))' => pc'[j] \notin {"idle", "queued", "ended"}
    BY <1>1 DEF FramesOK
  <2> QED BY <1>1, <2>1, <2>2, <2>3 DEF FramesOK
<1>8. QueueOK'
  <2>1. \A i \in 1 .. Len(queue) : queue[i] \in Callers
    BY ElementOfSeq DEF TypeOK
  <2>2. \A i \in 1 .. Len(queue) : queue[i] \in Hosts => queue[i] # c
    BY DEF QueueOK, Running
  <2> QED BY <1>5, <2>1, <2>2 DEF QueueOK
<1> QED BY <1>2, <1>3, <1>4, <1>7, <1>8

LEMMA SessionStepStep ==
  ASSUME IInv, NEW c \in Callers, SessionStep(c)
  PROVE  IInv'
<1>. USE DEF IInv
<1>. DEFINE Metadata == [loaded : BOOLEAN, readers : SUBSET Callers, writer : Callers \cup {None}]
<1>0. metadata \in Metadata /\ c # None /\ \A d \in Callers : d # None
  BY CompileAssumption DEF TypeOK
<1>1. CASE LoadRead(c)
  <2>1. /\ session[c] = "load" /\ metadata.writer = None
        /\ UNCHANGED <<callVars, queue>> /\ UNCHANGED stack
    BY <1>1 DEF LoadRead, AtSession
  <2>2. CASE metadata.loaded
    <3>1. /\ metadata' = [metadata EXCEPT !.readers = @ \cup {c}]
          /\ session' = [session EXCEPT ![c] = "compile"]
      BY <1>1, <2>2 DEF LoadRead, Reach
    <3>2. metadata' \in Metadata
      BY <1>0, <3>1
    <3>3. MetaOK'
      BY <1>0, <2>1, <3>1 DEF MetaOK, TypeOK
    <3> QED BY <2>1, <3>1, <3>2, <3>3, SessionMoves DEF Running
  <2>3. CASE ~metadata.loaded
    <3>1. UNCHANGED metadata /\ session' = [session EXCEPT ![c] = "write"]
      BY <1>1, <2>3 DEF LoadRead, Reach
    <3>2. MetaOK'
      BY <1>0, <2>1, <3>1 DEF MetaOK, TypeOK
    <3> QED BY <1>0, <2>1, <3>1, <3>2, SessionMoves DEF Running
  <2> QED BY <2>2, <2>3
<1>2. CASE LoadLock(c)
  <2>1. /\ session[c] = "write" /\ metadata.writer = None
        /\ metadata' = [metadata EXCEPT !.writer = c]
        /\ session' = [session EXCEPT ![c] = "locked"]
        /\ UNCHANGED <<callVars, queue>> /\ UNCHANGED stack
    BY <1>2 DEF LoadLock, AtSession, Reach
  <2>2. metadata' \in Metadata
    BY <1>0, <2>1
  <2>3. MetaOK'
    BY <1>0, <2>1 DEF MetaOK, TypeOK
  <2> QED BY <2>1, <2>2, <2>3, SessionMoves DEF Running
<1>3. CASE Load(c)
  <2>1. /\ session[c] = "locked" /\ metadata.readers = {} /\ metadata.writer = c
        /\ metadata' = [loaded |-> TRUE, readers |-> {c}, writer |-> None]
        /\ session' = [session EXCEPT ![c] = "compile"]
        /\ UNCHANGED <<callVars, queue>> /\ UNCHANGED stack
    BY <1>3 DEF Load, AtSession, Reach, MetaOK
  <2>2. metadata' \in Metadata
    BY <1>0, <2>1
  <2>3. MetaOK'
    BY <1>0, <2>1 DEF MetaOK, TypeOK
  <2> QED BY <2>1, <2>2, <2>3, SessionMoves DEF Running
<1>4. CASE LoadFails(c)
  <2>1. /\ session[c] = "locked" /\ metadata.readers = {} /\ Active(c)
        /\ metadata' = [metadata EXCEPT !.writer = None]
        /\ Ends(c, "err")
    BY <1>4 DEF LoadFails, AtSession
  <2>2. metadata' \in Metadata
    BY <1>0, <2>1
  <2>3. /\ session' = [session EXCEPT ![c] = "err"] /\ UNCHANGED <<callVars, queue>>
        /\ IF c \in Hosts THEN Pop(Run(c)) ELSE UNCHANGED stack
    BY <2>1 DEF Ends, Reach
  <2>4. MetaOK'
    BY <1>0, <2>1, <2>3 DEF MetaOK, TypeOK
  <2> QED BY <2>1, <2>2, <2>3, <2>4, SessionMoves DEF Running, Callers
<1>5. CASE SessionEnds(c)
  <2>1. /\ session[c] = "compile" /\ Active(c)
        /\ metadata' = [metadata EXCEPT !.readers = @ \ {c}]
    BY <1>5 DEF SessionEnds, AtSession
  <2>2. PICK result \in {"ok", "err"} : Ends(c, result)
    BY <1>5 DEF SessionEnds
  <2>3. metadata' \in Metadata
    BY <1>0, <2>1
  <2>4. /\ session' = [session EXCEPT ![c] = result] /\ UNCHANGED <<callVars, queue>>
        /\ IF c \in Hosts THEN Pop(Run(c)) ELSE UNCHANGED stack
    BY <2>2 DEF Ends, Reach
  <2>5. MetaOK'
    BY <1>0, <2>1, <2>4 DEF MetaOK, TypeOK
  <2> QED BY <2>1, <2>3, <2>4, <2>5, SessionMoves DEF Running, Callers
<1> QED BY <1>1, <1>2, <1>3, <1>4, <1>5 DEF SessionStep

LEMMA TakeJobStep ==
  ASSUME IInv, NEW w \in Workers, TakeJob(w)
  PROVE  IInv'
<1>. USE DEF IInv
<1>. DEFINE c == Head(queue)
<1>1. queue \in Seq(Callers) /\ queue # << >> /\ queue' = Tail(queue)
  BY DEF TakeJob, TypeOK
<1>2. /\ c \in Callers /\ c = queue[1] /\ Len(queue) \in Nat /\ 1 \in 1 .. Len(queue)
      /\ queue' \in Seq(Callers) /\ Len(queue') = Len(queue) - 1
      /\ \A i \in 1 .. Len(queue') : queue'[i] = queue[i + 1] /\ i + 1 \in 1 .. Len(queue)
  <2>1. Len(queue) \in Nat /\ Len(queue) > 0
    BY <1>1, EmptySeq, LenProperties
  <2>2. /\ c = queue[1] /\ queue' \in Seq(Callers) /\ Len(queue') = Len(queue) - 1
        /\ \A i \in 1 .. Len(Tail(queue)) : Tail(queue)[i] = queue[i + 1]
    BY <1>1, HeadTailProperties
  <2>3. c \in Callers
    BY <1>1, HeadTailProperties
  <2> QED BY <1>1, <2>1, <2>2, <2>3
<1>3. UNCHANGED <<entries, owner, product, task, handle, module, params, ops, metadata>>
  BY DEF TakeJob, handleVars
<1>. HIDE DEF c
<1>4. /\ c \in Hosts => session[c] = "queued"
      /\ c \in Jobs => pc[c] = "queued" /\ session[c] = "none"
      /\ \A i \in 1 .. Len(queue') : queue'[i] # c
  <2>1. c \in Jobs => pc[c] = "queued"
    BY <1>2 DEF QueueOK
  <2>2. \A i \in 1 .. Len(queue') : i + 1 # 1
    BY <1>2
  <2> QED BY <1>2, <2>1, <2>2 DEF QueueOK, WaitOK
<1>5. /\ \A d \in Callers : d # c => session'[d] = session[d] /\ pc'[d] = pc[d]
      /\ c \in Hosts => Push(w, Scope(c)) /\ session'[c] = "spawned" /\ pc' = pc
      /\ c \notin Hosts => Push(w, Run(c)) /\ pc'[c] = "get" /\ session' = session
      /\ pc' \in [Callers -> PCs] /\ session' \in [Callers -> SessionStates]
  <2>1. CASE c \in Hosts
    <3>1. Push(w, Scope(c)) /\ session' = [session EXCEPT ![c] = "spawned"] /\ pc' = pc
      BY <2>1 DEF TakeJob, Reach, c
    <3> QED BY <1>2, <2>1, <3>1 DEF TypeOK, SessionStates
  <2>2. CASE c \notin Hosts
    <3>1. Push(w, Run(c)) /\ pc' = [pc EXCEPT ![c] = "get"] /\ session' = session
      BY <2>2 DEF TakeJob, Goto, c
    <3> QED BY <1>2, <2>2, <3>1 DEF TypeOK, PCs
  <2> QED BY <2>1, <2>2
<1>6. \E f \in Frames :
        /\ Push(w, f) /\ ~Stacked(f) /\ f = IF c \in Hosts THEN Scope(c) ELSE Run(c)
  <2>1. CASE c \in Hosts
    BY <1>4, <1>5, <2>1, FrameFacts DEF FramesOK
  <2>2. CASE c \notin Hosts
    BY <1>2, <1>4, <1>5, <2>2, FrameFacts DEF FramesOK, Callers
  <2> QED BY <2>1, <2>2
<1>7. PICK f \in Frames : /\ Push(w, f) /\ ~Stacked(f)
                          /\ f = IF c \in Hosts THEN Scope(c) ELSE Run(c)
  BY <1>6
<1>8. StacksOK' /\ Unique' /\ \A x : Stacked(x)' => Stacked(x) \/ x = f
  BY <1>7, Pushes DEF StacksOK, TypeOK, FramesOK
<1>9. TypeOK'
  BY <1>2, <1>3, <1>5, <1>8 DEF TypeOK, StacksOK
<1>10. \A d \in Callers : pc'[d] # pc[d] => d = c /\ pc[d] = "queued" /\ pc'[d] = "get"
  BY <1>2, <1>4, <1>5 DEF Callers
<1>11. TaskOK' /\ OwnerOK' /\ EntryOK'
  <2>1. TaskOK'
    BY <1>3, <1>10 DEF TaskOK
  <2>2. OwnerOK'
    BY <1>3, <1>10 DEF OwnerOK, InCritical, Func
  <2>3. EntryOK'
    BY <1>3, <1>10 DEF EntryOK, Entry, Func
  <2> QED BY <2>1, <2>2, <2>3
<1>12. \A d \in Callers : session'[d] # session[d] =>
                            d = c /\ session[d] = "queued" /\ session'[d] = "spawned"
  BY <1>2, <1>4, <1>5
<1>13. WaitOK'
  BY <1>10, <1>12 DEF WaitOK
<1>14. MetaOK'
  BY <1>3, <1>12 DEF MetaOK
<1>15. FramesOK'
  <2>1. \A h \in Hosts : Stacked(Scope(h))' => session'[h] \notin {"none", "queued"}
    <3>. SUFFICES ASSUME NEW h \in Hosts, Stacked(Scope(h))'
                  PROVE  session'[h] \notin {"none", "queued"}
      OBVIOUS
    <3>1. CASE Stacked(Scope(h))
      BY <3>1, <1>12 DEF FramesOK, Callers
    <3>2. CASE Scope(h) = f
      <4>1. h = c
        BY <3>2, <1>2, <1>7, FrameFacts
      <4> QED BY <4>1, <1>5
    <3> QED BY <3>1, <3>2, <1>8
  <2>2. \A h \in Hosts : Stacked(Run(h))' => session'[h] \in Running
    <3>. SUFFICES ASSUME NEW h \in Hosts, Stacked(Run(h))'
                  PROVE  session'[h] \in Running
      OBVIOUS
    <3>1. Run(h) # f
      BY <1>2, <1>7, FrameFacts
    <3> QED BY <3>1, <1>8, <1>12 DEF FramesOK, Running, Callers
  <2>3. \A j \in Jobs : Stacked(Run(j))' => pc'[j] \notin {"idle", "queued", "ended"}
    <3>. SUFFICES ASSUME NEW j \in Jobs, Stacked(Run(j))'
                  PROVE  pc'[j] \notin {"idle", "queued", "ended"}
      OBVIOUS
    <3>1. CASE Stacked(Run(j))
      BY <3>1, <1>10 DEF FramesOK, Callers
    <3>2. CASE Run(j) = f
      <4>1. j = c /\ c \notin Hosts
        BY <3>2, <1>2, <1>7, FrameFacts
      <4> QED BY <4>1, <1>5
    <3> QED BY <3>1, <3>2, <1>8
  <2> QED BY <1>8, <2>1, <2>2, <2>3 DEF FramesOK
<1>16. QueueOK'
  <2>1. \A i \in 1 .. Len(queue') : queue'[i] \in Callers
    BY <1>2, ElementOfSeq
  <2>2. \A i \in 1 .. Len(queue') :
          /\ queue'[i] \in Hosts => session'[queue'[i]] = "queued"
          /\ queue'[i] \in Jobs => pc'[queue'[i]] = "queued"
    <3>. SUFFICES ASSUME NEW i \in 1 .. Len(queue')
                  PROVE  /\ queue'[i] \in Hosts => session'[queue'[i]] = "queued"
                         /\ queue'[i] \in Jobs => pc'[queue'[i]] = "queued"
      OBVIOUS
    <3>1. queue'[i] = queue[i + 1] /\ i + 1 \in 1 .. Len(queue)
      BY <1>2
    <3>2. /\ queue'[i] \in Hosts => session[queue'[i]] = "queued"
          /\ queue'[i] \in Jobs => pc[queue'[i]] = "queued"
      BY <3>1 DEF QueueOK
    <3>3. queue'[i] \in Callers /\ queue'[i] # c
      BY <1>4, <2>1
    <3> QED BY <3>2, <3>3, <1>5
  <2>3. \A i, k \in 1 .. Len(queue') : queue'[i] = queue'[k] => i = k
    <3>. SUFFICES ASSUME NEW i \in 1 .. Len(queue'), NEW k \in 1 .. Len(queue'),
                         queue'[i] = queue'[k]
                  PROVE  i = k
      OBVIOUS
    <3>1. i + 1 = k + 1
      BY <1>2 DEF QueueOK
    <3> QED BY <3>1, <1>2
  <2> QED BY <2>2, <2>3 DEF QueueOK
<1> QED BY <1>9, <1>11, <1>13, <1>14, <1>15, <1>16

LEMMA StartSessionStep ==
  ASSUME IInv, NEW w \in Workers, NEW h \in Hosts, StartSession(w, h)
  PROVE  IInv'
<1>. USE DEF IInv
<1>1. /\ session[h] = "spawned" /\ Push(w, Run(h))
      /\ session' = [session EXCEPT ![h] = "load"]
      /\ UNCHANGED <<callVars, metadata, queue>>
      /\ h \in Callers /\ h \notin Jobs
  BY CompileAssumption DEF StartSession, Reach, Callers
<1>2. ~Stacked(Run(h))
  BY <1>1 DEF FramesOK, Running
<1>3. StacksOK' /\ Unique' /\ \A x : Stacked(x)' => Stacked(x) \/ x = Run(h)
  BY <1>1, <1>2, Pushes, FrameFacts DEF StacksOK, TypeOK, FramesOK
<1>4. TypeOK'
  BY <1>1, <1>3 DEF TypeOK, StacksOK, callVars, handleVars, SessionStates, Running
<1>5. TaskOK' /\ OwnerOK' /\ EntryOK'
  BY <1>1, CallsSame DEF callVars
<1>6. WaitOK' /\ MetaOK'
  BY <1>1 DEF WaitOK, MetaOK, TypeOK, callVars
<1>7. FramesOK'
  <2>1. \A d \in Callers : session'[d] = IF d = h THEN "load" ELSE session[d]
    BY <1>1 DEF TypeOK
  <2>2. \A g \in Hosts : Stacked(Scope(g))' => session'[g] \notin {"none", "queued"}
    BY <1>3, <2>1, FrameFacts DEF FramesOK, Callers
  <2>3. \A g \in Hosts : Stacked(Run(g))' => session'[g] \in Running
    BY <1>3, <2>1, FrameFacts DEF FramesOK, Callers, Running
  <2>4. \A j \in Jobs : Stacked(Run(j))' => pc'[j] \notin {"idle", "queued", "ended"}
    BY <1>1, <1>3, FrameFacts DEF FramesOK, Callers, callVars
  <2> QED BY <1>3, <2>2, <2>3, <2>4 DEF FramesOK
<1>8. QueueOK'
  <2>1. \A i \in 1 .. Len(queue) : queue[i] \in Callers
    BY ElementOfSeq DEF TypeOK
  <2>2. \A i \in 1 .. Len(queue) : queue[i] # h
    BY <1>1 DEF QueueOK
  <2> QED BY <1>1, <2>1, <2>2 DEF QueueOK, TypeOK, callVars
<1> QED BY <1>4, <1>5, <1>6, <1>7, <1>8

LEMMA CloseScopeStep ==
  ASSUME IInv, NEW w \in Workers, NEW h \in Hosts, CloseScope(w, h)
  PROVE  IInv'
<1>. USE DEF IInv
<1>1. Pop(Scope(h)) /\ UNCHANGED <<callVars, metadata, session, queue>>
  BY DEF CloseScope
<1>2. StacksOK' /\ Unique' /\ \A x : Stacked(x)' => Stacked(x)
  BY <1>1, Pops DEF StacksOK, TypeOK, FramesOK
<1>3. TypeOK'
  BY <1>1, <1>2 DEF TypeOK, StacksOK, callVars, handleVars
<1>4. TaskOK' /\ OwnerOK' /\ EntryOK'
  BY <1>1, CallsSame DEF callVars
<1>5. WaitOK' /\ MetaOK'
  BY <1>1 DEF WaitOK, MetaOK, callVars
<1>6. FramesOK'
  BY <1>1, <1>2 DEF FramesOK, callVars
<1>7. QueueOK'
  BY <1>1 DEF QueueOK, callVars
<1> QED BY <1>3, <1>4, <1>5, <1>6, <1>7

LEMMA CompilingStep ==
  ASSUME IInv, NEW c \in Callers, Compiling(c)
  PROVE  IInv'
BY GetHitStep, GetMissStep, LockStep, RecheckHitStep, RecheckMissStep, CodegenCachedStep,
   SessionOverStep, InstallStep DEF Compiling

LEMMA NextIInv == IInv /\ [Next]_vars => IInv'
<1>. SUFFICES ASSUME IInv, [Next]_vars PROVE IInv'
  OBVIOUS
<1>1. CASE \E h \in Hosts : \/ Compile(h) \/ CompileAsync(h) \/ HostStep(h)
                            \/ \E v \in Params : DefineParam(h, v)
  <2>1. PICK h \in Hosts : \/ Compile(h) \/ CompileAsync(h) \/ HostStep(h)
                           \/ \E v \in Params : DefineParam(h, v)
    BY <1>1
  <2>2. h \in Callers
    BY DEF Callers
  <2> QED BY <2>1, <2>2, CompileStep, CompileAsyncStep, DefineParamStep, CompilingStep,
             InjectSessionStep DEF HostStep
<1>2. CASE \E w \in Workers : WorkerStep(w)
  <2>1. PICK w \in Workers : WorkerStep(w)
    BY <1>2
  <2>2. \A j \in Jobs : j \in Callers
    BY DEF Callers
  <2> QED BY <2>1, <2>2, TakeJobStep, StartSessionStep, CloseScopeStep, CompilingStep,
             InlineSessionStep, SessionStepStep DEF WorkerStep
<1>3. CASE UNCHANGED vars
  <2>. USE <1>3 DEF vars, handleVars, poolVars, IInv
  <2>1. TypeOK'
    BY DEF TypeOK
  <2>2. TaskOK' /\ OwnerOK' /\ EntryOK'
    BY CallsSame
  <2>3. WaitOK' /\ MetaOK'
    BY DEF WaitOK, MetaOK
  <2>4. FramesOK'
    BY StackSame DEF FramesOK
  <2>5. QueueOK'
    BY DEF QueueOK
  <2> QED BY <2>1, <2>2, <2>3, <2>4, <2>5
<1> QED BY <1>1, <1>2, <1>3 DEF Next

-----------------------------------------------------------------------------
(* The slow path of ModuleData::compile (context.rs: entries is locked     *)
(* with upgradable_read) is for one caller at a time and function, and a   *)
(* session that runs has the lock of its function, whichever thread it is  *)
(* on.                                                                     *)
THEOREM SlowPathIsSerialized == Spec => []SlowPathSerialized
<1>1. IInv => SlowPathSerialized
  <2>. SUFFICES ASSUME IInv, NEW c \in Callers, NEW f \in Funcs
                PROVE  /\ InCritical(c) /\ Func(c) = f <=> owner[f] = c
                       /\ session[c] # "none" => owner[Func(c)] = c
    BY DEF SlowPathSerialized
  <2>1. InCritical(c) /\ Func(c) = f <=> owner[f] = c
    BY DEF IInv, OwnerOK
  <2>2. session[c] # "none" => owner[Func(c)] = c
    BY DEF IInv, OwnerOK, WaitOK, InCritical
  <2> QED BY <2>1, <2>2
<1> QED BY <1>1, InitIInv, NextIInv, PTL DEF Spec

LEMMA EntriesChange ==
  ASSUME IInv, [Next]_vars, NEW f \in Funcs, NEW a \in Accels, entries[f][a] # None
  PROVE  entries'[f][a] = entries[f][a]
<1>1. CASE UNCHANGED entries
  BY <1>1
<1>2. ASSUME NEW c \in Callers, Install(c) PROVE entries'[f][a] = entries[f][a]
  <2>1. pc[c] = "install" /\ task[c].accel \in Accels /\ Func(c) \in Funcs
    BY <1>2, FuncType DEF IInv, Install
  <2>2. entries[Func(c)][task[c].accel] = None
    BY <2>1 DEF IInv, EntryOK, Entry
  <2>3. CASE UNCHANGED entries
    BY <2>3
  <2>4. CASE entries' = [entries EXCEPT ![Func(c)][task[c].accel] =
                           [params |-> product[Func(c)], maker |-> c]]
    <3>. DEFINE new == [params |-> product[Func(c)], maker |-> c]
                M == [params : Params, maker : Callers] \cup {None}
    <3>1. entries' = [entries EXCEPT ![Func(c)][task[c].accel] = new]
      BY <2>4
    <3>2. entries \in [Funcs -> [Accels -> M]]
      BY DEF IInv, TypeOK
    <3>. HIDE DEF new, M
    <3>3. CASE f = Func(c) /\ a = task[c].accel
      BY <3>3, <2>2
    <3>4. CASE f # Func(c) \/ a # task[c].accel
      BY <3>1, <3>2, <3>4, <2>1
    <3> QED BY <3>3, <3>4
  <2> QED BY <1>2, <2>3, <2>4 DEF Install
<1>3. ASSUME Next PROVE UNCHANGED entries \/ \E c \in Callers : Install(c)
  BY <1>3 DEF Next, Compile, CompileAsync, DefineParam, HostStep, WorkerStep, Compiling, GetHit,
     GetMiss, Lock, RecheckHit, RecheckMiss, CodegenCached, InjectSession, InlineSession,
     SessionOver, SessionStep, LoadRead, LoadLock, Load, LoadFails, SessionEnds, Ends, TakeJob,
     StartSession, CloseScope, callVars, Callers
<1> QED BY <1>1, <1>2, <1>3 DEF vars

(* "someone beat us, don't create another platform module object": the     *)
(* module of a device is created once and never replaced, whoever waited   *)
(* for the lock.                                                           *)
THEOREM ModulesAreCreatedOnce == Spec => ModuleCreatedOnce
<1>. DEFINE Kept == \A f \in Funcs, a \in Accels :
                      entries[f][a] # None => entries'[f][a] = entries[f][a]
<1>1. IInv /\ [Next]_vars => [Kept]_vars
  BY EntriesChange
<1> QED BY <1>1, InitIInv, NextIInv, PTL DEF Spec, ModuleCreatedOnce

-----------------------------------------------------------------------------
(* What a step may change, by who takes it.                                *)

LEMMA Changes ==
  ASSUME [Next]_vars
  PROVE  /\ \/ UNCHANGED metadata
            \/ \E c \in Callers : SessionStep(c)
         /\ \/ UNCHANGED owner
            \/ \E c \in Callers : Lock(c) \/ RecheckHit(c) \/ SessionOver(c) \/ Install(c)
         /\ \/ UNCHANGED <<pc, task>>
            \/ \E h \in Hosts : Compile(h) \/ CompileAsync(h) \/ InjectSession(h)
            \/ \E c \in Callers : Compiling(c)
            \/ \E j \in Jobs : InlineSession(j)
            \/ \E w \in Workers : TakeJob(w)
         /\ \/ UNCHANGED session
            \/ \E h \in Hosts : InjectSession(h)
            \/ \E j \in Jobs : InlineSession(j)
            \/ \E c \in Callers : SessionOver(c) \/ SessionStep(c)
            \/ \E w \in Workers : TakeJob(w) \/ \E h \in Hosts : StartSession(w, h)
         /\ \/ UNCHANGED stack
            \/ \E c \in Callers : GetHit(c) \/ RecheckHit(c) \/ SessionOver(c) \/ Install(c)
            \/ \E c \in Callers : SessionStep(c)
            \/ \E w \in Workers : \/ TakeJob(w)
                                  \/ \E h \in Hosts : StartSession(w, h) \/ CloseScope(w, h)
<1>. USE DEF vars, handleVars, poolVars, callVars, Callers, HostStep, WorkerStep
<1>1. CASE UNCHANGED vars
  BY <1>1
<1>2. CASE \E h \in Hosts : Compile(h) \/ CompileAsync(h) \/ \E v \in Params : DefineParam(h, v)
  BY <1>2 DEF Compile, CompileAsync, DefineParam
<1>3. CASE \E c \in Callers : Compiling(c)
  BY <1>3 DEF Compiling, GetHit, GetMiss, Lock, RecheckHit, RecheckMiss, CodegenCached,
     SessionOver, Install
<1>4. CASE (\E h \in Hosts : InjectSession(h)) \/ (\E j \in Jobs : InlineSession(j))
  BY <1>4 DEF InjectSession, InlineSession
<1>5. CASE \E c \in Callers : SessionStep(c)
  BY <1>5 DEF SessionStep, LoadRead, LoadLock, Load, LoadFails, SessionEnds, Ends
<1>6. CASE \E w \in Workers : TakeJob(w) \/ \E h \in Hosts : StartSession(w, h) \/ CloseScope(w, h)
  BY <1>6 DEF TakeJob, StartSession, CloseScope
<1> QED BY <1>1, <1>2, <1>3, <1>4, <1>5, <1>6 DEF Next

(* A caller at a lock that is taken.                                       *)
Blocked(c) ==
  \/ pc[c] = "lock" /\ owner[Func(c)] # None
  \/ session[c] \in {"load", "write"} /\ metadata.writer # None
  \/ session[c] = "locked" /\ metadata.readers # {}

LEMMA BlockedStops ==
  ASSUME IInv, NEW c \in Callers, Blocked(c)
  PROVE  ~Compiling(c) /\ ~InlineSession(c) /\ ~SessionStep(c) /\ ~InLoop(c)
<1>1. session[c] # "none" => pc[c] = "wait"
  BY DEF IInv, WaitOK
<1>2. ~Compiling(c)
  BY <1>1 DEF Blocked, Compiling, GetHit, GetMiss, Lock, RecheckHit, RecheckMiss, CodegenCached,
     SessionOver, Over, Install
<1>3. ~InlineSession(c)
  BY <1>1 DEF Blocked, InlineSession
<1>4. ~SessionStep(c)
  BY <1>1 DEF Blocked, SessionStep, LoadRead, LoadLock, Load, LoadFails, SessionEnds, AtSession
<1>5. ~InLoop(c)
  BY <1>1 DEF Blocked, InLoop
<1> QED BY <1>2, <1>3, <1>4, <1>5

(* Who waits for a lock that is taken stays there.                         *)
LEMMA LockStays ==
  ASSUME IInv, [Next]_vars, NEW c \in Callers, pc[c] = "lock", owner[Func(c)] # None
  PROVE  pc'[c] = "lock" /\ Func(c)' = Func(c)
<1>. USE DEF Func
<1>1. CASE UNCHANGED <<pc, task>>
  BY <1>1
<1>2. ASSUME NEW h \in Hosts, Compile(h) PROVE pc'[c] = "lock" /\ Func(c)' = Func(c)
  BY <1>2 DEF Compile, Operate, Goto, IInv, TypeOK
<1>3. ASSUME NEW h \in Hosts, CompileAsync(h) PROVE pc'[c] = "lock" /\ Func(c)' = Func(c)
  <2>. DEFINE j == CHOOSE k \in Jobs : pc[k] = "idle"
  <2>1. pc[j] = "idle" /\ pc' = [pc EXCEPT ![j] = "queued"]
        /\ task' = [task EXCEPT ![j] = HandleDesc(h)]
    BY <1>3 DEF CompileAsync, Goto
  <2>. HIDE DEF j
  <2> QED BY <2>1 DEF IInv, TypeOK
<1>4. ASSUME NEW h \in Hosts, InjectSession(h) PROVE pc'[c] = "lock" /\ Func(c)' = Func(c)
  BY <1>4 DEF InjectSession, Goto, IInv, TypeOK
<1>5. ASSUME NEW d \in Callers, Compiling(d) PROVE pc'[c] = "lock" /\ Func(c)' = Func(c)
  <2>1. d # c
    BY <1>5, BlockedStops DEF Blocked
  <2>2. pc'[c] = pc[c] /\ task'[c] = task[c]
    BY <1>5, <2>1 DEF Compiling, GetHit, GetMiss, Lock, RecheckHit, RecheckMiss, CodegenCached,
       SessionOver, Install, Leave, Goto, IInv, TypeOK
  <2> QED BY <2>2
<1>6. ASSUME NEW j \in Jobs, InlineSession(j) PROVE pc'[c] = "lock" /\ Func(c)' = Func(c)
  BY <1>6 DEF InlineSession, Goto, IInv, TypeOK
<1>7. ASSUME NEW w \in Workers, TakeJob(w) PROVE pc'[c] = "lock" /\ Func(c)' = Func(c)
  <2>. DEFINE d == Head(queue)
  <2>1. d = queue[1] /\ 1 \in 1 .. Len(queue) /\ d \in Callers
    BY <1>7, EmptySeq, LenProperties, HeadTailProperties DEF TakeJob, IInv, TypeOK
  <2>2. d \in Jobs => pc[d] = "queued"
    BY <2>1 DEF IInv, QueueOK
  <2>3. UNCHANGED task /\ (UNCHANGED pc \/ (d \in Jobs /\ pc' = [pc EXCEPT ![d] = "get"]))
    BY <1>7, <2>1 DEF TakeJob, Goto, Callers
  <2>. HIDE DEF d
  <2> QED BY <2>2, <2>3 DEF IInv, TypeOK
<1> QED BY <1>1, <1>2, <1>3, <1>4, <1>5, <1>6, <1>7, Changes

(* Only its owner gives the lock of a ModuleData back.                     *)
LEMMA OwnerStays ==
  ASSUME IInv, [Next]_vars, NEW f \in Funcs, NEW d \in Callers, owner[f] = d, owner'[f] # d
  PROVE  /\ Runs(d)
         /\ \/ pc[d] \in {"recheck", "install"}
            \/ pc[d] = "wait" /\ session[d] \in {"ok", "err"} /\ ~Stacked(Scope(d))
<1>1. PICK c \in Callers : Lock(c) \/ RecheckHit(c) \/ SessionOver(c) \/ Install(c)
  BY Changes
<1>2. d # None
  BY CompileAssumption
<1>3. CASE Lock(c)
  BY <1>2, <1>3 DEF Lock, IInv, TypeOK
<1>4. CASE RecheckHit(c) \/ SessionOver(c) \/ Install(c)
  <2>1. UNCHANGED owner \/ owner' = [owner EXCEPT ![Func(c)] = None]
    BY <1>4 DEF RecheckHit, SessionOver, Install, Unlock
  <2>2. f = Func(c)
    BY <2>1 DEF IInv, TypeOK
  <2>3. InCritical(c)
    BY <1>4 DEF InCritical, RecheckHit, SessionOver, Over, Install
  <2>4. c = d
    BY <2>2, <2>3 DEF IInv, OwnerOK
  <2> QED BY <1>4, <2>4 DEF RecheckHit, SessionOver, Over, Install
<1> QED BY <1>1, <1>3, <1>4

(* A session that is blocked, or is in the queue, stays where it is; one   *)
(* that runs goes on itself.                                               *)
LEMMA SessionStays ==
  ASSUME IInv, [Next]_vars, NEW c \in Callers
  PROVE  /\ Blocked(c) => session'[c] = session[c]
         /\ session[c] \in Running => session'[c] \in Running \/ (Active(c) /\ ~Blocked(c))
         /\ session[c] = "queued" =>
              session'[c] = "queued" \/ \E w \in Workers : LooksForWork(w)
<1>. DEFINE Stays == /\ Blocked(c) => session'[c] = session[c]
                     /\ session[c] \in Running => session'[c] \in Running \/ (Active(c) /\ ~Blocked(c))
                     /\ session[c] = "queued" =>
                          session'[c] = "queued" \/ \E w \in Workers : LooksForWork(w)
<1>0. session[c] # "none" <=> pc[c] = "wait"
  BY DEF IInv, WaitOK
<1>1. CASE session'[c] = session[c]
  BY <1>1, Zenon
<1>2. ASSUME NEW h \in Hosts, InjectSession(h), session'[c] # session[c] PROVE Stays
  BY <1>0, <1>2 DEF InjectSession, Reach, Blocked, Running, IInv, TypeOK
<1>3. ASSUME NEW j \in Jobs, InlineSession(j), session'[c] # session[c] PROVE Stays
  BY <1>0, <1>3 DEF InlineSession, Reach, Blocked, Running, IInv, TypeOK
<1>4. ASSUME NEW d \in Callers, SessionOver(d), session'[c] # session[c] PROVE Stays
  <2>1. d = c /\ session[c] \in {"ok", "err"} /\ pc[c] = "wait"
    BY <1>4 DEF SessionOver, Over, Reach, IInv, TypeOK
  <2> QED BY <2>1 DEF Blocked, Running
<1>5. ASSUME NEW d \in Callers, SessionStep(d), session'[c] # session[c] PROVE Stays
  <2>1. d = c
    BY <1>5 DEF SessionStep, LoadRead, LoadLock, Load, LoadFails, SessionEnds, Ends, Reach,
       IInv, TypeOK
  <2>2. ~Blocked(c) /\ Active(c) /\ session[c] \in Running
    BY <1>5, <2>1, BlockedStops DEF SessionStep, LoadRead, LoadLock, Load, LoadFails,
       SessionEnds, AtSession, Running
  <2> QED BY <2>2 DEF Running
<1>6. ASSUME NEW w \in Workers, TakeJob(w), session'[c] # session[c] PROVE Stays
  <2>. DEFINE d == Head(queue)
  <2>1. d = queue[1] /\ 1 \in 1 .. Len(queue) /\ d \in Callers
    BY <1>6, EmptySeq, LenProperties, HeadTailProperties DEF TakeJob, IInv, TypeOK
  <2>2. d \in Hosts => session[d] = "queued"
    BY <2>1 DEF IInv, QueueOK
  <2>3. LooksForWork(w)
        /\ (UNCHANGED session \/ (d \in Hosts /\ session' = [session EXCEPT ![d] = "spawned"]))
    BY <1>6 DEF TakeJob, Reach
  <2>. HIDE DEF d
  <2>4. session[c] = "queued"
    BY <1>6, <2>2, <2>3 DEF IInv, TypeOK
  <2> QED BY <1>0, <2>3, <2>4 DEF Blocked, Running
<1>7. ASSUME NEW w \in Workers, NEW h \in Hosts, StartSession(w, h), session'[c] # session[c]
      PROVE  Stays
  <2>1. session[c] = "spawned"
    BY <1>7 DEF StartSession, Reach, IInv, TypeOK
  <2> QED BY <1>0, <2>1 DEF Blocked, Running
<1>. HIDE DEF Stays
<1>8. Stays
  BY <1>1, <1>2, <1>3, <1>4, <1>5, <1>6, <1>7, Changes DEF Stays
<1> QED BY <1>8 DEF Stays

(* Who has the metadata lock gives it back, when nobody is in its way.     *)
LEMMA MetadataStays ==
  ASSUME IInv, [Next]_vars, NEW d \in Callers
  PROVE  /\ metadata.writer = d => metadata'.writer = d \/ (Active(d) /\ ~Blocked(d))
         /\ d \in metadata.readers => d \in metadata'.readers \/ (Active(d) /\ ~Blocked(d))
<1>1. CASE UNCHANGED metadata
  BY <1>1, Zenon
<1>2. ASSUME NEW c \in Callers, SessionStep(c), UNCHANGED metadata => FALSE
      PROVE  /\ metadata.writer = d => metadata'.writer = d \/ (Active(d) /\ ~Blocked(d))
             /\ d \in metadata.readers => d \in metadata'.readers \/ (Active(d) /\ ~Blocked(d))
  <2>0. d # None /\ metadata \in [loaded : BOOLEAN, readers : SUBSET Callers,
                                  writer : Callers \cup {None}]
    BY CompileAssumption DEF IInv, TypeOK
  <2>1. ~Blocked(c) /\ Active(c)
    BY <1>2, BlockedStops DEF SessionStep, LoadRead, LoadLock, Load, LoadFails, SessionEnds,
       AtSession
  <2>2. CASE LoadRead(c) \/ LoadLock(c)
    <3>1. /\ metadata.writer = None
          /\ \/ metadata' = [metadata EXCEPT !.readers = @ \cup {c}]
             \/ metadata' = metadata
             \/ metadata' = [metadata EXCEPT !.writer = c]
      BY <2>2 DEF LoadRead, LoadLock
    <3>2. metadata.writer # d /\ (d \in metadata.readers => d \in metadata'.readers)
      BY <2>0, <3>1
    <3> QED BY <3>2, Zenon
  <2>3. CASE Load(c) \/ LoadFails(c)
    <3>1. metadata.readers = {} /\ metadata.writer = c
      BY <2>3 DEF Load, LoadFails, AtSession, IInv, MetaOK
    <3> QED BY <2>1, <3>1
  <2>4. CASE SessionEnds(c)
    <3>1. metadata' = [metadata EXCEPT !.readers = @ \ {c}]
      BY <2>4 DEF SessionEnds
    <3>2. metadata'.writer = metadata.writer
          /\ (d \in metadata.readers => d \in metadata'.readers \/ d = c)
      BY <2>0, <3>1
    <3> QED BY <2>1, <3>2, Zenon
  <2> QED BY <1>2, <2>2, <2>3, <2>4 DEF SessionStep
<1> QED BY <1>1, <1>2, Changes

(* Only a worker that looks for work, or opens a scope, takes something up;*)
(* what leaves a stack was on top and done.                                *)
LEMMA StackStays ==
  ASSUME IInv, [Next]_vars
  PROVE  \/ UNCHANGED stack
         \/ \E w \in Workers, f \in Frames :
              /\ Push(w, f)
              /\ \/ LooksForWork(w)
                 \/ \E h \in Hosts : OnTop(w, Scope(h)) /\ session[h] = "spawned"
         \/ \E w \in Workers, h \in Hosts :
              OnTop(w, Scope(h)) /\ session[h] \in {"ok", "err"} /\ Pop(Scope(h))
         \/ \E c \in Callers : Active(c) /\ ~Blocked(c) /\ Pop(Run(c))
<1>1. ASSUME NEW c \in Callers, GetHit(c) \/ RecheckHit(c) \/ SessionOver(c) \/ Install(c)
      PROVE  UNCHANGED stack \/ (Active(c) /\ ~Blocked(c) /\ Pop(Run(c)))
  <2>1. Runs(c) /\ (UNCHANGED stack \/ \E m : Leave(c, m))
    BY <1>1 DEF GetHit, RecheckHit, SessionOver, Over, Install
  <2>2. ~Blocked(c)
    BY <1>1, BlockedStops DEF Compiling
  <2>3. UNCHANGED stack \/ (c \notin Hosts /\ Pop(Run(c)))
    BY <2>1 DEF Leave
  <2> QED BY <2>1, <2>2, <2>3, Zenon DEF Runs
<1>2. ASSUME NEW c \in Callers, SessionStep(c)
      PROVE  UNCHANGED stack \/ (Active(c) /\ ~Blocked(c) /\ Pop(Run(c)))
  <2>1. ~Blocked(c)
    BY <1>2, BlockedStops
  <2>2. Active(c) /\ (UNCHANGED stack \/ Pop(Run(c)))
    BY <1>2 DEF SessionStep, LoadRead, LoadLock, Load, LoadFails, SessionEnds, Ends, AtSession
  <2> QED BY <2>1, <2>2, Zenon
<1>3. ASSUME NEW w \in Workers, TakeJob(w)
      PROVE  LooksForWork(w) /\ \E f \in Frames : Push(w, f)
  <2>1. Head(queue) \in Callers
    BY <1>3, HeadTailProperties DEF TakeJob, IInv, TypeOK
  <2> QED BY <1>3, <2>1, FrameFacts DEF TakeJob
<1>4. ASSUME NEW w \in Workers, NEW h \in Hosts, StartSession(w, h)
      PROVE  /\ Push(w, Run(h)) /\ Run(h) \in Frames
             /\ LooksForWork(w) \/ (OnTop(w, Scope(h)) /\ session[h] = "spawned")
  BY <1>4, FrameFacts DEF StartSession, Callers
<1>5. ASSUME NEW w \in Workers, NEW h \in Hosts, CloseScope(w, h)
      PROVE  OnTop(w, Scope(h)) /\ session[h] \in {"ok", "err"} /\ Pop(Scope(h))
  BY <1>5 DEF CloseScope
<1> QED BY <1>1, <1>2, <1>3, <1>4, <1>5, Changes

-----------------------------------------------------------------------------
(* Deadlocks.                                                              *)

LEMMA ActivityFacts ==
  /\ \A x \in Activities : \/ \E h \in Hosts : x = Host(h)
                           \/ \E h \in Hosts : x = Scope(h)
                           \/ \E c \in Callers : x = Run(c)
  /\ \A h : Host(h) \notin Frames /\ Host(h)[1] = "host" /\ Host(h)[2] = h
  /\ \A g, h : Host(g) = Host(h) => g = h
  /\ \A h, c : Host(h) # Run(c) /\ Host(h) # Scope(c)
  BY DEF Activities, Frames, Host, Scope, Run

(* WaitsFor, case by case.                                                 *)
HostsWait ==
  \A h \in Hosts : WaitsFor(Host(h)) =
    Above(Host(h)) \cup (Owners(h) \cup {y \in {Scope(h)} : Stacked(y)})
ScopesWait ==
  \A h \in Hosts : WaitsFor(Scope(h)) =
    Above(Scope(h)) \cup {y \in {Run(h)} : session[h] \in Running}
RunsWait ==
  \A c \in Callers : WaitsFor(Run(c)) = Above(Run(c)) \cup (Owners(c) \cup Holders(c))

LEMMA WaitsForDef == HostsWait /\ ScopesWait /\ RunsWait
<1>1. ASSUME NEW h \in Hosts
      PROVE  WaitsFor(Host(h)) =
               Above(Host(h)) \cup (Owners(h) \cup {y \in {Scope(h)} : Stacked(y)})
  <2>1. Host(h)[1] = "host" /\ Host(h)[2] = h
    BY ActivityFacts
  <2> QED BY <2>1 DEF WaitsFor
<1>2. ASSUME NEW h \in Hosts
      PROVE  WaitsFor(Scope(h)) = Above(Scope(h)) \cup {y \in {Run(h)} : session[h] \in Running}
  <2>1. Scope(h)[1] = "scope" /\ Scope(h)[2] = h
    BY FrameFacts
  <2> QED BY <2>1 DEF WaitsFor
<1>3. ASSUME NEW c \in Callers
      PROVE  WaitsFor(Run(c)) = Above(Run(c)) \cup (Owners(c) \cup Holders(c))
  <2>1. Run(c)[1] = "run" /\ Run(c)[2] = c
    BY FrameFacts
  <2> QED BY <2>1 DEF WaitsFor
<1> QED BY <1>1, <1>2, <1>3 DEF HostsWait, ScopesWait, RunsWait

LEMMA AboveHost ==
  ASSUME StacksOK, NEW h
  PROVE  Above(Host(h)) = {}
<1>. SUFFICES ASSUME NEW y \in Above(Host(h)) PROVE FALSE
  OBVIOUS
<1>0. PICK w \in Workers : \E i \in 2 .. Len(stack[w]) : stack[w][i - 1] = Host(h)
  BY AboveDef
<1>1. PICK i \in 2 .. Len(stack[w]) : stack[w][i - 1] = Host(h)
  BY <1>0
<1>2. i - 1 \in 1 .. Len(stack[w]) /\ stack[w] \in Seq(Frames)
  BY <1>1, Lengths
<1>3. stack[w][i - 1] \in Frames
  BY <1>2, ElementOfSeq
<1> QED BY <1>1, <1>3, ActivityFacts

(* Nobody in a deadlock can go on.                                         *)
LEMMA Frozen ==
  ASSUME IInv, NEW set, Deadlock(set)
  PROVE  /\ \A c \in Callers : Run(c) \in set /\ Active(c) => Blocked(c)
         /\ \A w \in Workers, h \in Hosts :
              OnTop(w, Scope(h)) /\ Scope(h) \in set => session[h] \in Running
         /\ \A h \in Hosts :
              Host(h) \in set => pc[h] = "lock" \/ Stacked(Scope(h)) \/ session[h] = "queued"
<1>0. StacksOK /\ Unique /\ \A d \in Callers : d # None
  BY CompileAssumption DEF IInv, TypeOK, FramesOK, StacksOK
<1>1. ASSUME NEW c \in Callers, Run(c) \in set, Active(c) PROVE Blocked(c)
  <2>1. WaitsFor(Run(c)) # {}
    BY <1>1, FrameFacts DEF Deadlock, Queued
  <2>2. Above(Run(c)) = {}
    BY <1>0, <1>1, Tops DEF Active
  <2>3. PICK y : y \in Owners(c) \cup Holders(c)
    BY <2>1, <2>2, WaitsForDef DEF RunsWait
  <2>4. CASE y \in Owners(c)
    BY <2>4, <1>0 DEF Owners, Blocked
  <2>5. CASE y \in Holders(c)
    <3>1. PICK e \in Callers : Awaited(c, e)
      BY <2>5 DEF Holders
    <3> QED BY <3>1, <1>0 DEF Awaited, Blocked
  <2> QED BY <2>3, <2>4, <2>5
<1>2. ASSUME NEW w \in Workers, NEW h \in Hosts, OnTop(w, Scope(h)), Scope(h) \in set
      PROVE  session[h] \in Running
  <2>1. WaitsFor(Scope(h)) # {}
    BY <1>2, FrameFacts DEF Deadlock, Queued
  <2>2. Above(Scope(h)) = {}
    BY <1>0, <1>2, Tops
  <2> QED BY <2>1, <2>2, WaitsForDef DEF ScopesWait
<1>3. ASSUME NEW h \in Hosts, Host(h) \in set
      PROVE  pc[h] = "lock" \/ Stacked(Scope(h)) \/ session[h] = "queued"
  <2>1. CASE Queued(Host(h))
    BY <2>1, ActivityFacts DEF Queued
  <2>2. CASE WaitsFor(Host(h)) # {}
    BY <2>2, <1>0, AboveHost, WaitsForDef DEF Owners, HostsWait
  <2> QED BY <1>3, <2>1, <2>2 DEF Deadlock
<1> QED BY <1>1, <1>2, <1>3

HostsStuck ==
  \A set : IInv /\ Deadlock(set) =>
    \A h \in Hosts :
      Host(h) \in set => pc[h] = "lock" \/ Stacked(Scope(h)) \/ session[h] = "queued"

LEMMA HostsAreStuck == HostsStuck
BY Frozen DEF HostsStuck

(* The stacks keep who is in a deadlock, and what is above.                *)
LEMMA FramesStay ==
  ASSUME IInv, [Next]_vars, NEW set, Deadlock(set)
  PROVE  /\ \A x, y : y \in set /\ y \in Above(x) => y \in Above(x)'
         /\ \A y \in set : Stacked(y) => Stacked(y)'
         /\ NoWorkerBut(set) => UNCHANGED stack /\ \A w \in Workers : ~LooksForWork(w)
<1>0. StacksOK /\ Unique
  BY DEF IInv, TypeOK, FramesOK, StacksOK
<1>1. ASSUME NEW w \in Workers, NoWorkerBut(set)
      PROVE  ~LooksForWork(w) /\ \A h \in Hosts : ~OnTop(w, Scope(h))
  <2>1. PICK c \in Callers : OnTop(w, Run(c)) /\ Run(c) \in set
    BY <1>1 DEF NoWorkerBut
  <2>2. \A d : OnTop(w, d) => d = Run(c)
    BY <2>1 DEF OnTop
  <2>3. stack[w] # << >>
    BY <2>1 DEF OnTop
  <2>4. \A h \in Hosts : ~OnTop(w, Scope(h))
    BY <2>2, FrameFacts
  <2>5. ASSUME NEW d \in Callers, OnTop(w, Run(d)) PROVE ~InLoop(d)
    <3>1. d = c
      BY <2>2, <2>5, FrameFacts
    <3>2. Blocked(c)
      BY <2>1, Frozen DEF Active
    <3> QED BY <3>1, <3>2, BlockedStops
  <2> QED BY <2>3, <2>4, <2>5 DEF LooksForWork
<1>2. CASE UNCHANGED stack
  BY <1>1, <1>2, StackSame
<1>3. ASSUME NEW w \in Workers, NEW f \in Frames, Push(w, f),
             LooksForWork(w) \/ \E h \in Hosts : OnTop(w, Scope(h))
      PROVE  /\ \A x, y : y \in set /\ y \in Above(x) => y \in Above(x)'
             /\ \A y \in set : Stacked(y) => Stacked(y)'
             /\ ~NoWorkerBut(set)
  <2>1. /\ \A x, y : y \in Above(x) => y \in Above(x)'
        /\ \A x : Stacked(x)' <=> Stacked(x) \/ x = f
    BY <1>0, <1>3, Pushes
  <2>2. ~NoWorkerBut(set)
    BY <1>1, <1>3
  <2> QED BY <2>1, <2>2
<1>4. ASSUME NEW f, f \notin set, Pop(f)
      PROVE  /\ \A x, y : y \in set /\ y \in Above(x) => y \in Above(x)'
             /\ \A y \in set : Stacked(y) => Stacked(y)'
  <2>1. /\ \A x : x # f /\ Stacked(x) => Stacked(x)'
        /\ \A x, y : y # f /\ y \in Above(x) => y \in Above(x)'
    BY <1>0, <1>4, Pops
  <2> QED BY <1>4, <2>1
<1>5. ASSUME NEW w \in Workers, NEW h \in Hosts, OnTop(w, Scope(h)),
             session[h] \in {"ok", "err"}
      PROVE  Scope(h) \notin set /\ ~NoWorkerBut(set)
  <2>1. session[h] \notin Running
    BY <1>5 DEF Running
  <2> QED BY <1>1, <1>5, <2>1, Frozen
<1>6. ASSUME NEW c \in Callers, Active(c), ~Blocked(c)
      PROVE  Run(c) \notin set /\ ~NoWorkerBut(set)
  <2>1. Run(c) \notin set
    BY <1>6, Frozen
  <2>2. PICK w \in Workers : OnTop(w, Run(c))
    BY <1>6 DEF Active
  <2>3. \A d \in Callers : OnTop(w, Run(d)) => d = c
    BY <2>2, FrameFacts DEF OnTop
  <2> QED BY <2>1, <2>3 DEF NoWorkerBut
<1>7. CASE \E w \in Workers, f \in Frames :
             /\ Push(w, f)
             /\ \/ LooksForWork(w)
                \/ \E h \in Hosts : OnTop(w, Scope(h)) /\ session[h] = "spawned"
  BY <1>3, <1>7
<1>8. CASE \E w \in Workers, h \in Hosts :
             OnTop(w, Scope(h)) /\ session[h] \in {"ok", "err"} /\ Pop(Scope(h))
  <2>1. PICK w \in Workers, h \in Hosts :
          OnTop(w, Scope(h)) /\ session[h] \in {"ok", "err"} /\ Pop(Scope(h))
    BY <1>8
  <2>2. Scope(h) \notin set /\ ~NoWorkerBut(set)
    BY <1>5, <2>1
  <2> QED BY <1>4, <2>1, <2>2
<1>9. CASE \E c \in Callers : Active(c) /\ ~Blocked(c) /\ Pop(Run(c))
  <2>1. PICK c \in Callers : Active(c) /\ ~Blocked(c) /\ Pop(Run(c))
    BY <1>9
  <2>2. Run(c) \notin set /\ ~NoWorkerBut(set)
    BY <1>6, <2>1
  <2> QED BY <1>4, <2>1, <2>2
<1> QED BY <1>2, <1>7, <1>8, <1>9, StackStays

(* Who waits for the lock of one in the deadlock goes on waiting for it.   *)
LEMMA OwnersStay ==
  ASSUME IInv, [Next]_vars, NEW set, Deadlock(set), NEW c \in Callers, NEW y \in set,
         y \in Owners(c)
  PROVE  y \in Owners(c)'
<1>1. PICK d \in Callers : y = Self(d) /\ pc[c] = "lock" /\ owner[Func(c)] = d
  BY DEF Owners
<1>2. d # None
  BY CompileAssumption
<1>3. pc'[c] = "lock" /\ Func(c)' = Func(c)
  BY <1>1, <1>2, LockStays
<1>4. Func(c) \in Funcs
  BY <1>1, FuncType DEF IInv
<1>5. InCritical(d) /\ (session[d] # "none" <=> pc[d] = "wait")
  BY <1>1, <1>4 DEF IInv, OwnerOK, WaitOK
<1>6. owner'[Func(c)] = d
  <2>. SUFFICES ASSUME owner'[Func(c)] # d PROVE FALSE
    OBVIOUS
  <2>1. /\ Runs(d)
        /\ \/ pc[d] \in {"recheck", "install"}
           \/ pc[d] = "wait" /\ session[d] \in {"ok", "err"} /\ ~Stacked(Scope(d))
    BY <1>1, <1>4, OwnerStays
  <2>2. CASE d \in Hosts
    <3>1. pc[d] = "lock" \/ Stacked(Scope(d)) \/ session[d] = "queued"
      BY <1>1, <2>2, Frozen DEF Self
    <3>2. Stacked(Scope(d)) => session[d] # "none"
      BY <2>2 DEF IInv, FramesOK
    <3> QED BY <1>5, <2>1, <3>1, <3>2
  <2>3. CASE d \notin Hosts
    <3>1. Blocked(d)
      BY <1>1, <2>1, <2>3, Frozen DEF Self, Runs
    <3> QED BY <1>5, <2>1, <3>1 DEF Blocked
  <2> QED BY <2>2, <2>3
<1> QED BY <1>1, <1>3, <1>6 DEF Owners

(* Who waits for the metadata lock of one in the deadlock, the same.       *)
LEMMA HoldersStay ==
  ASSUME IInv, IInv', [Next]_vars, NEW set, Deadlock(set), NEW c \in Callers, NEW y \in set,
         y \in Holders(c)
  PROVE  y \in Holders(c)'
<1>1. PICK d \in Callers : y = Run(d) /\ Awaited(c, d)
  BY DEF Holders
<1>2. Active(d) => Blocked(d)
  BY <1>1, Frozen
<1>3. Blocked(c)
  BY <1>1, CompileAssumption DEF Awaited, Blocked
<1>4. session'[c] = session[c]
  BY <1>3, SessionStays
<1>5. /\ metadata.writer = d => metadata'.writer = d
      /\ d \in metadata.readers => d \in metadata'.readers
  BY <1>2, MetadataStays
<1>6. Awaited(c, d)'
  BY <1>1, <1>4, <1>5 DEF Awaited
<1> QED BY <1>1, <1>6 DEF Holders

LEMMA DeadlockStays ==
  ASSUME IInv, IInv', [Next]_vars, NEW set, set \subseteq Activities, Deadlock(set)
  PROVE  Deadlock(set)'
<1>. SUFFICES ASSUME NEW x \in set
              PROVE  WaitsFor(x)' \cap set # {} \/ (Queued(x) /\ NoWorkerBut(set))'
  BY DEF Deadlock
<1>0. (HostsWait /\ ScopesWait /\ RunsWait)'
  BY WaitsForDef, PTL
<1>1. CASE Queued(x) /\ NoWorkerBut(set)
  <2>1. PICK h \in Hosts : x = Host(h) /\ session[h] = "queued"
    BY <1>1, ActivityFacts, FrameFacts DEF Queued
  <2>2. UNCHANGED stack /\ \A w \in Workers : ~LooksForWork(w)
    BY <1>1, FramesStay
  <2>3. session'[h] = "queued"
    BY <2>1, <2>2, SessionStays DEF Callers
  <2>4. NoWorkerBut(set)'
    BY <1>1, <2>2 DEF NoWorkerBut, OnTop
  <2>5. Queued(x)'
    BY <2>1, <2>3, ActivityFacts DEF Queued
  <2> QED BY <2>4, <2>5
<1>2. CASE WaitsFor(x) \cap set # {}
  <2>1. PICK y \in set : y \in WaitsFor(x)
    BY <1>2
  <2>2. y \in Above(x) => y \in Above(x)'
    BY FramesStay
  <2>3. CASE \E h \in Hosts : x = Host(h)
    <3>1. PICK h \in Hosts : x = Host(h)
      BY <2>3
    <3>2. WaitsFor(x)' = Above(x)' \cup (Owners(h)' \cup {z \in {Scope(h)} : Stacked(z)'})
      BY <1>0, <3>1 DEF HostsWait
    <3>3. y \in Above(x) \/ y \in Owners(h) \/ (y = Scope(h) /\ Stacked(y))
      BY <2>1, <3>1, WaitsForDef DEF HostsWait
    <3>4. y \in Owners(h) => y \in Owners(h)'
      BY OwnersStay DEF Callers
    <3>5. Stacked(y) => Stacked(y)'
      BY FramesStay
    <3> QED BY <2>2, <3>2, <3>3, <3>4, <3>5
  <2>4. CASE \E h \in Hosts : x = Scope(h)
    <3>1. PICK h \in Hosts : x = Scope(h)
      BY <2>4
    <3>2. WaitsFor(x)' = Above(x)' \cup {z \in {Run(h)} : session'[h] \in Running}
      BY <1>0, <3>1 DEF ScopesWait
    <3>3. y \in Above(x) \/ (y = Run(h) /\ session[h] \in Running)
      BY <2>1, <3>1, WaitsForDef DEF ScopesWait
    <3>4. y = Run(h) /\ session[h] \in Running => session'[h] \in Running
      BY Frozen, SessionStays DEF Callers
    <3> QED BY <2>2, <3>2, <3>3, <3>4
  <2>5. CASE \E c \in Callers : x = Run(c)
    <3>1. PICK c \in Callers : x = Run(c)
      BY <2>5
    <3>2. WaitsFor(x)' = Above(x)' \cup (Owners(c)' \cup Holders(c)')
      BY <1>0, <3>1 DEF RunsWait
    <3>3. y \in Above(x) \/ y \in Owners(c) \/ y \in Holders(c)
      BY <2>1, <3>1, WaitsForDef DEF RunsWait
    <3>4. /\ y \in Owners(c) => y \in Owners(c)'
          /\ y \in Holders(c) => y \in Holders(c)'
      BY OwnersStay, HoldersStay
    <3> QED BY <2>2, <3>2, <3>3, <3>4
  <2> QED BY <2>3, <2>4, <2>5, ActivityFacts
<1> QED BY <1>1, <1>2 DEF Deadlock

(* Who is in a deadlock waits, and it is a deadlock's to end.              *)
LEMMA DeadlockedStays ==
  ASSUME IInv, IInv', [Next]_vars, NEW h \in Hosts, Deadlocked(h)
  PROVE  Deadlocked(h)'
<1>0. HostsStuck'
  BY HostsAreStuck, PTL
<1>1. PICK set : set \subseteq Activities /\ Host(h) \in set /\ Deadlock(set)
  BY DEF Deadlocked
<1>2. Deadlock(set)'
  BY <1>1, DeadlockStays
<1>3. \A x \in set : WaitsFor(x)' # {} \/ Queued(x)'
  BY <1>2 DEF Deadlock
<1>4. pc'[h] \in {"lock", "wait"}
  <2>1. \/ pc'[h] = "lock" \/ Stacked(Scope(h))' \/ session'[h] = "queued"
    BY <1>0, <1>1, <1>2 DEF HostsStuck
  <2> QED BY <2>1 DEF IInv, FramesOK, WaitOK, Callers
<1> QED BY <1>1, <1>2, <1>3, <1>4 DEF Deadlocked

(* CompileReturnsOrDeadlock excuses a host that is in a deadlock for good: *)
(* once the locks of ModuleData and of the metadata (context.rs) and the   *)
(* stacks of the pool's workers make a circle, no step of anybody ends it. *)
THEOREM DeadlocksAreForGood ==
  Spec => [][\A h \in Hosts : Deadlocked(h) => Deadlocked(h)']_vars
<1>1. IInv /\ IInv' /\ [Next]_vars => [\A h \in Hosts : Deadlocked(h) => Deadlocked(h)']_vars
  BY DeadlockedStays
<1> QED BY <1>1, InitIInv, NextIInv, PTL DEF Spec
=============================================================================
