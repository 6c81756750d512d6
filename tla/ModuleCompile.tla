---------------------------- MODULE ModuleCompile ----------------------------
(***************************************************************************)
(* How a kernel function becomes a loaded module: FuncModule::compile,     *)
(* compile_async and the param setters (src/runtime-amd/src/module/mod.rs),*)
(* ModuleData::compile and the metadata lock of the Context                *)
(* (src/runtime-core/src/context.rs) and the pool on which initialize_sess *)
(* runs the compiler (src/runtime-core/src/codegen/worker/mod.rs).         *)
(*                                                                         *)
(* A kernel function has one ModuleData.  Those who call its compile() are *)
(* host threads, each with a FuncModule handle of its own, and the         *)
(* closures of compile_async, which workers of the pool run.  A host that  *)
(* must compile injects its session in the pool and blocks; a closure has  *)
(* its session on its worker's stack.  Blocking on a lock blocks the OS    *)
(* thread, whatever else is on its stack.  A session's steps on the        *)
(* metadata lock are those of module Context; the rest of it is a choice   *)
(* of success or failure.  The CodegenCache is one product per function    *)
(* here: the lock of ModuleData keeps two compilations of one function     *)
(* apart, and descriptions that differ in spec_params are one key.         *)
(*                                                                         *)
(* rayon is external: jobs from outside the pool are taken first in first  *)
(* out; scope() spawns the session in the deque of the worker that opened  *)
(* the scope, where another may steal it; and a worker that waits for a    *)
(* scope or a parallel loop runs whatever other job it finds meanwhile, on *)
(* top of what waits.                                                      *)
(***************************************************************************)
EXTENDS Integers, SequencesExt

CONSTANTS
  Hosts,      \* host threads; each owns one FuncModule
  Jobs,       \* closures of compile_async: a bound on how many are spawned
  Workers,    \* threads of the global rayon pool
  Funcs,      \* kernel functions
  Accels,     \* devices with the same target, so one CodegenDriver
  Params,     \* values of the spec_params of a FuncModule
  None,
  MaxOps      \* bound: operations per host thread

Callers == Hosts \cup Jobs
Desc == [func : Funcs, accel : Accels, params : Params]

ASSUME CompileAssumption ==
  /\ Hosts \cap Jobs = {}
  /\ None \notin Callers \cup Params \cup Desc
  /\ Params # {}

VARIABLES
  entries,   \* ModuleData::entries of each function: accel -> its module,
             \* None before it; one is known from another by who made it
  owner,     \* who has the upgradable read lock of each function's entries
  product,   \* the params of the product of each function, None before it
  metadata,  \* the Context's: loaded or not, and its lock, with readers and
             \* one who keeps new readers out
  handle,    \* FuncModule::{context_data, device} of each host
  module,    \* FuncModule::module_data of each host: a Desc or None
  params,    \* FuncModule::spec_params of each host
  pc,        \* where each caller is
  task,      \* the Desc each caller is compiling
  session,   \* how far the session of each caller is
  stack,     \* what each worker does, the last on top of the others
  queue,     \* the injector of the pool, first in first out
  ops        \* operations each host has started

handleVars == <<handle, module, params, ops>>
poolVars == <<metadata, session, stack, queue>>
vars == <<entries, owner, product, pc, task, handleVars, poolVars>>

PCs == {"idle", "queued", "get", "lock", "recheck", "codegen", "wait", "install", "ended"}
Running == {"load", "write", "locked", "compile"}
SessionStates == {"none", "queued", "spawned", "ok", "err"} \cup Running

(* What is on a worker's stack: the scope of a host, or what runs there for*)
(* a caller, the session of a host or all of a closure.                    *)
Scope(h) == <<"scope", h>>
Run(c) == <<"run", c>>
Frames == ({"scope"} \X Hosts) \cup ({"run"} \X Callers)

TypeOK ==
  /\ entries \in [Funcs -> [Accels -> [params : Params, maker : Callers] \cup {None}]]
  /\ owner \in [Funcs -> Callers \cup {None}]
  /\ product \in [Funcs -> Params \cup {None}]
  /\ metadata \in [loaded : BOOLEAN, readers : SUBSET Callers, writer : Callers \cup {None}]
  /\ handle \in [Hosts -> [func : Funcs, accel : Accels]]
  /\ module \in [Hosts -> Desc \cup {None}]
  /\ params \in [Hosts -> Params]
  /\ pc \in [Callers -> PCs]
  /\ task \in [Callers -> Desc \cup {None}]
  /\ session \in [Callers -> SessionStates]
  /\ stack \in [Workers -> Seq(Frames)]
  /\ queue \in Seq(Callers)

Init ==
  /\ entries = [f \in Funcs |-> [a \in Accels |-> None]]
  /\ owner = [f \in Funcs |-> None]
  /\ product = [f \in Funcs |-> None]
  /\ metadata = [loaded |-> FALSE, readers |-> {}, writer |-> None]
  /\ handle \in [Hosts -> [func : Funcs, accel : Accels]]
  /\ module = [h \in Hosts |-> None]
  /\ params = [h \in Hosts |-> CHOOSE v \in Params : TRUE]
  /\ pc = [c \in Callers |-> "idle"]
  /\ task = [c \in Callers |-> None]
  /\ session = [c \in Callers |-> "none"]
  /\ stack = [w \in Workers |-> << >>]
  /\ queue = << >>
  /\ ops = [h \in Hosts |-> 0]

Goto(c, where) == pc' = [pc EXCEPT ![c] = where]
Reach(c, state) == session' = [session EXCEPT ![c] = state]
HandleDesc(h) == [func |-> handle[h].func, accel |-> handle[h].accel, params |-> params[h]]
Operate(h) == /\ pc[h] = "idle" /\ ops[h] < MaxOps
              /\ ops' = [ops EXCEPT ![h] = @ + 1]

OnTop(w, frame) == stack[w] # << >> /\ Last(stack[w]) = frame
Push(w, frame) == stack' = [stack EXCEPT ![w] = Append(@, frame)]
Pop(frame) ==
  stack' = [w \in Workers |-> IF OnTop(w, frame) THEN Front(stack[w]) ELSE stack[w]]

Stacked(frame) == \E w \in Workers : \E i \in DOMAIN stack[w] : stack[w][i] = frame

(* A host is a thread of its own; what a worker runs goes on while nothing *)
(* is on top of it.                                                        *)
Active(c) == \E w \in Workers : OnTop(w, Run(c))
Runs(c) == c \in Hosts \/ Active(c)

-----------------------------------------------------------------------------
(* Operations on a FuncModule.                                             *)

(* compile_internal: a handle that has its module does nothing.            *)
Compile(h) ==
  /\ Operate(h)
  /\ module[h] = None
  /\ task' = [task EXCEPT ![h] = HandleDesc(h)]
  /\ Goto(h, "get")
  /\ UNCHANGED <<entries, owner, product, handle, module, params, poolVars>>

(* compile_async: spawn(move || context_data.compile(..)).                 *)
CompileAsync(h) ==
  /\ Operate(h)
  /\ module[h] = None
  /\ \E j \in Jobs : pc[j] = "idle"
  /\ LET j == CHOOSE k \in Jobs : pc[k] = "idle"
     IN  /\ task' = [task EXCEPT ![j] = HandleDesc(h)]
         /\ Goto(j, "queued")
         /\ queue' = Append(queue, j)
  /\ UNCHANGED <<entries, owner, product, handle, module, params, metadata, session, stack>>

(* The params of a handle are copied before they are written, so those of  *)
(* its clones stay what they were.                                         *)
Redefine(h, v) == params' = [params EXCEPT ![h] = v]

(* define_param, undefine_param, clear_params.                             *)
DefineParam(h, v) ==
  /\ Operate(h)
  /\ Redefine(h, v)
  /\ module' = [module EXCEPT ![h] = None]
  /\ UNCHANGED <<entries, owner, product, handle, pc, task, poolVars>>

-----------------------------------------------------------------------------
(* ModuleData::compile, run by a host for itself or by a worker for a      *)
(* closure.  A closure ignores the result; a host keeps a module.          *)

Func(c) == task[c].func
Entry(c) == entries[Func(c)][task[c].accel]

Leave(c, m) ==
  /\ task' = [task EXCEPT ![c] = None]
  /\ IF c \in Hosts
     THEN Goto(c, "idle") /\ module' = [module EXCEPT ![c] = m] /\ UNCHANGED stack
     ELSE Goto(c, "ended") /\ Pop(Run(c)) /\ UNCHANGED module

Unlock(c) == owner' = [owner EXCEPT ![Func(c)] = None]
Loaded(c) == [task[c] EXCEPT !.params = Entry(c).params]

(* self.get::<D>(accel_id, ..)                                             *)
GetHit(c) ==
  /\ pc[c] = "get" /\ Runs(c) /\ Entry(c) # None
  /\ Leave(c, Loaded(c))
  /\ UNCHANGED <<entries, owner, product, handle, params, ops, metadata, session, queue>>

GetMiss(c) ==
  /\ pc[c] = "get" /\ Runs(c) /\ Entry(c) = None
  /\ Goto(c, "lock")
  /\ UNCHANGED <<entries, owner, product, task, handleVars, poolVars>>

(* self.entries.upgradable_read(): one at a time.                          *)
Lock(c) ==
  /\ pc[c] = "lock" /\ Runs(c) /\ owner[Func(c)] = None
  /\ owner' = [owner EXCEPT ![Func(c)] = c]
  /\ Goto(c, "recheck")
  /\ UNCHANGED <<entries, product, task, handleVars, poolVars>>

(* Somebody may have loaded the module while this caller waited.           *)
RecheckHit(c) ==
  /\ pc[c] = "recheck" /\ Runs(c) /\ Entry(c) # None
  /\ Unlock(c)
  /\ Leave(c, Loaded(c))
  /\ UNCHANGED <<entries, product, handle, params, ops, metadata, session, queue>>

Mutant_RecheckMiss(c) ==
  /\ pc[c] = "recheck" /\ Runs(c)
  /\ Goto(c, "codegen")
  /\ UNCHANGED <<entries, owner, product, task, handleVars, poolVars>>

RecheckMiss(c) ==
  /\ pc[c] = "recheck" /\ Runs(c) /\ Entry(c) = None
  /\ Goto(c, "codegen")
  /\ UNCHANGED <<entries, owner, product, task, handleVars, poolVars>>

(* codegen.codegen(desc): a product of the cache needs no compiler.  Eq and*)
(* Hash of KernelDesc leave spec_params out, so any product will do.       *)
CodegenCached(c) ==
  /\ pc[c] = "codegen" /\ Runs(c) /\ product[Func(c)] # None
  /\ Goto(c, "install")
  /\ UNCHANGED <<entries, owner, product, task, handleVars, poolVars>>

(* initialize_sess off the pool: with_rustc_span_globals injects a job and *)
(* blocks.                                                                 *)
InjectSession(h) ==
  /\ pc[h] = "codegen" /\ product[Func(h)] = None
  /\ queue' = Append(queue, h)
  /\ Reach(h, "queued")
  /\ Goto(h, "wait")
  /\ UNCHANGED <<entries, owner, product, task, handleVars, metadata, stack>>

(* initialize_sess on the pool: f() right here.                            *)
InlineSession(j) ==
  /\ pc[j] = "codegen" /\ Runs(j) /\ product[Func(j)] = None
  /\ Reach(j, "load")
  /\ Goto(j, "wait")
  /\ UNCHANGED <<entries, owner, product, task, handleVars, metadata, stack, queue>>

(* The session is over, and the scope it was spawned in: out.unwrap().     *)
Over(c) ==
  /\ pc[c] = "wait" /\ Runs(c) /\ session[c] \in {"ok", "err"}
  /\ ~Stacked(Scope(c))

(* A bug: the lock is not given back after an error. *)
Mutant_SessionOver(c) ==
  /\ Over(c)
  /\ Reach(c, "none")
  /\ IF session[c] = "ok"
     THEN /\ product' = [product EXCEPT ![Func(c)] = task[c].params]
          /\ Goto(c, "install")
          /\ UNCHANGED <<owner, task, module, stack>>
     ELSE Leave(c, None) /\ UNCHANGED <<owner, product>>
  /\ UNCHANGED <<entries, handle, params, ops, metadata, queue>>

SessionOver(c) ==
  /\ Over(c)
  /\ Reach(c, "none")
  /\ IF session[c] = "ok"
     THEN /\ product' = [product EXCEPT ![Func(c)] = task[c].params]
          /\ Goto(c, "install")
          /\ UNCHANGED <<owner, task, module, stack>>
     ELSE /\ Unlock(c)           \* codegen(desc)? drops the guard
          /\ Leave(c, None)
          /\ UNCHANGED product
  /\ UNCHANGED <<entries, handle, params, ops, metadata, queue>>

(* The upgrade to a write lock, load_kernel and the store of the entry.    *)
(* Readers hold the lock for the length of one lookup, so this is a step.  *)
Install(c) ==
  /\ pc[c] = "install" /\ Runs(c)
  /\ Unlock(c)
  /\ \/ /\ entries' = [entries EXCEPT ![Func(c)][task[c].accel] =
                         [params |-> product[Func(c)], maker |-> c]]
        /\ Leave(c, [task[c] EXCEPT !.params = product[Func(c)]])
     \/ /\ Leave(c, None)        \* D::load_kernel(..)?
        /\ UNCHANGED entries
  /\ UNCHANGED <<product, handle, params, ops, metadata, session, queue>>

-----------------------------------------------------------------------------
(* A session, on whichever worker it is.  It loads the metadata: a look    *)
(* under the read lock, and if there is none the write lock.               *)
AtSession(c, state) == session[c] = state /\ Active(c)
callVars == <<entries, owner, product, pc, task, handleVars>>

LoadRead(c) ==
  /\ AtSession(c, "load") /\ metadata.writer = None
  /\ IF metadata.loaded
     THEN metadata' = [metadata EXCEPT !.readers = @ \cup {c}] /\ Reach(c, "compile")
     ELSE UNCHANGED metadata /\ Reach(c, "write")
  /\ UNCHANGED <<callVars, stack, queue>>

(* A writer first keeps new readers out, then waits for those inside.      *)
LoadLock(c) ==
  /\ AtSession(c, "write") /\ metadata.writer = None
  /\ metadata' = [metadata EXCEPT !.writer = c]
  /\ Reach(c, "locked")
  /\ UNCHANGED <<callVars, stack, queue>>

(* Somebody may have loaded meanwhile.  The write lock becomes a read lock,*)
(* whose guard is kept until the session ends.                             *)
Load(c) ==
  /\ AtSession(c, "locked") /\ metadata.readers = {}
  /\ metadata' = [loaded |-> TRUE, readers |-> {c}, writer |-> None]
  /\ Reach(c, "compile")
  /\ UNCHANGED <<callVars, stack, queue>>

(* What runs for a host is a job of its own; a closure goes on.            *)
Ends(c, result) ==
  /\ Reach(c, result)
  /\ IF c \in Hosts THEN Pop(Run(c)) ELSE UNCHANGED stack
  /\ UNCHANGED <<callVars, queue>>

LoadFails(c) ==
  /\ AtSession(c, "locked") /\ metadata.readers = {} /\ ~metadata.loaded
  /\ metadata' = [metadata EXCEPT !.writer = None]
  /\ Ends(c, "err")

SessionEnds(c) ==
  /\ AtSession(c, "compile")
  /\ metadata' = [metadata EXCEPT !.readers = @ \ {c}]
  /\ \E result \in {"ok", "err"} : Ends(c, result)

SessionStep(c) == LoadRead(c) \/ LoadLock(c) \/ Load(c) \/ LoadFails(c) \/ SessionEnds(c)

-----------------------------------------------------------------------------
(* The worker pool.                                                        *)

(* The parallel loops of a session: over the blobs of a file, with the     *)
(* write lock of the metadata held, and those of the compiler.             *)
InLoop(c) ==
  \/ session[c] = "locked" /\ metadata.readers = {} /\ ~metadata.loaded
  \/ session[c] = "compile"

(* A worker with nothing to do; one that waits for its scope while the     *)
(* session it spawned is with another worker; one that waits for a loop.   *)
LooksForWork(w) ==
  \/ stack[w] = << >>
  \/ \E h \in Hosts : OnTop(w, Scope(h)) /\ session[h] # "spawned"
  \/ \E c \in Callers : OnTop(w, Run(c)) /\ InLoop(c)

TakeJob(w) ==
  /\ LooksForWork(w) /\ queue # << >>
  /\ queue' = Tail(queue)
  /\ LET c == Head(queue)
     IN  IF c \in Hosts
         THEN Push(w, Scope(c)) /\ Reach(c, "spawned") /\ UNCHANGED pc
         ELSE Push(w, Run(c)) /\ Goto(c, "get") /\ UNCHANGED session
  /\ UNCHANGED <<entries, owner, product, task, handleVars, metadata>>

(* The worker pops the session it spawned, or another one steals it.       *)
StartSession(w, h) ==
  /\ session[h] = "spawned"
  /\ OnTop(w, Scope(h)) \/ LooksForWork(w)
  /\ Push(w, Run(h))
  /\ Reach(h, "load")
  /\ UNCHANGED <<callVars, metadata, queue>>

(* The end of rayon::scope: the host that waits for it may go on.          *)
CloseScope(w, h) ==
  /\ OnTop(w, Scope(h)) /\ session[h] \in {"ok", "err"}
  /\ Pop(Scope(h))
  /\ UNCHANGED <<callVars, metadata, session, queue>>

Compiling(c) ==
  \/ GetHit(c) \/ GetMiss(c) \/ Lock(c) \/ RecheckHit(c) \/ RecheckMiss(c)
  \/ CodegenCached(c) \/ SessionOver(c) \/ Install(c)

HostStep(h) == Compiling(h) \/ InjectSession(h)
WorkerStep(w) ==
  \/ TakeJob(w)
  \/ \E h \in Hosts : StartSession(w, h) \/ CloseScope(w, h)
  \/ \E j \in Jobs : OnTop(w, Run(j)) /\ (Compiling(j) \/ InlineSession(j))
  \/ \E c \in Callers : OnTop(w, Run(c)) /\ SessionStep(c)

Next ==
  \/ \E h \in Hosts : \/ Compile(h) \/ CompileAsync(h) \/ HostStep(h)
                      \/ \E v \in Params : DefineParam(h, v)
  \/ \E w \in Workers : WorkerStep(w)

Spec == Init /\ [][Next]_vars

(* Threads that can run do.  No more is needed: operations are bounded, so *)
(* nobody can take a lock from the others for ever.                        *)
FairSpec ==
  /\ Spec
  /\ \A h \in Hosts : WF_vars(HostStep(h))
  /\ \A w \in Workers : WF_vars(WorkerStep(w))

-----------------------------------------------------------------------------
(* Properties.                                                             *)

InCritical(c) == pc[c] \in {"recheck", "codegen", "wait", "install"}

(* The slow path of ModuleData::compile is serialized, across the threads  *)
(* of the pool that compile on behalf of others.                           *)
SlowPathSerialized ==
  \A c \in Callers : \A f \in Funcs :
    /\ InCritical(c) /\ Func(c) = f <=> owner[f] = c
    /\ session[c] # "none" => owner[Func(c)] = c

(* "someone beat us, don't create another platform module object": the     *)
(* module of a device is created once and never replaced.                  *)
ModuleCreatedOnce ==
  [][\A f \in Funcs, a \in Accels :
       entries[f][a] # None => entries'[f][a] = entries[f][a]]_vars

(* "(Re-)Define a specialization param ... If this function was already    *)
(* compiled, it will be compiled again", says the doc of define_param: the *)
(* module a handle holds was made with the handle's params.  It is not so: *)
(* entries is by device, and the product by target.                        *)
ParamsApply == \A h \in Hosts : module[h] # None => module[h].params = params[h]

(* Every compile() returns.                                                *)
CompileReturns == \A h \in Hosts : (pc[h] = "get") ~> (pc[h] = "idle")

(* Who cannot go on before whom: what is below another on a worker's stack;*)
(* a caller at the lock of a ModuleData before its owner; a session at the *)
(* metadata lock before those who have it; a host before its scope, and    *)
(* the scope before the session.                                           *)
Host(h) == <<"host", h>>
Activities == ({"host"} \X Hosts) \cup Frames
Self(c) == IF c \in Hosts THEN Host(c) ELSE Run(c)

Above(x) ==
  UNION {{stack[w][i] : i \in {n \in 2 .. Len(stack[w]) : stack[w][n - 1] = x}} : w \in Workers}

Owners(c) == {Self(d) : d \in {e \in Callers : pc[c] = "lock" /\ owner[Func(c)] = e}}
Awaited(c, d) ==
  \/ session[c] \in {"load", "write"} /\ metadata.writer = d
  \/ session[c] = "locked" /\ d \in metadata.readers
Holders(c) == {Run(d) : d \in {e \in Callers : Awaited(c, e)}}

WaitsFor(x) ==
  LET c == x[2]
  IN  Above(x) \cup
      CASE x[1] = "host"  -> Owners(c) \cup {y \in {Scope(c)} : Stacked(y)}
        [] x[1] = "scope" -> {y \in {Run(c)} : session[c] \in Running}
        [] x[1] = "run"   -> Owners(c) \cup Holders(c)

(* A session in the queue waits for any worker to take it.                 *)
Queued(x) == x[1] = "host" /\ session[x[2]] = "queued"
NoWorkerBut(set) == \A w \in Workers : \E c \in Callers : OnTop(w, Run(c)) /\ Run(c) \in set

Deadlock(set) ==
  \A x \in set : WaitsFor(x) \cap set # {} \/ (Queued(x) /\ NoWorkerBut(set))

(* A host waits, through whatever others, for what waits for itself.       *)
Deadlocked(h) ==
  /\ pc[h] \in {"lock", "wait"}
  /\ LET waiting == {x \in Activities : WaitsFor(x) # {} \/ Queued(x)}
     IN  \E set \in SUBSET waiting : Host(h) \in set /\ Deadlock(set)

(* Every compile() returns, unless it is part of a deadlock for good: the  *)
(* workers wait for the lock of a ModuleData that a host holds while it    *)
(* waits for the pool, or one of them has taken up, in a loop of the       *)
(* session that holds a lock, that of the ModuleData or the metadata's, a  *)
(* job that wants the same lock.                                           *)
CompileReturnsOrDeadlock ==
  \A h \in Hosts : [](pc[h] = "get" => <>(pc[h] = "idle" \/ []Deadlocked(h)))
=============================================================================
