------------------------------- MODULE Session -------------------------------
(***************************************************************************)
(* A codegen session: initialize_sess and codegen_kernel_inner of          *)
(* runtime-core/src/codegen/worker/mod.rs, on the Context it belongs to,   *)
(* the crates it loads and the items it collects.                          *)
(*                                                                         *)
(* The platform, AMD's or Vulkan's, comes in at its hooks: the intrinsics  *)
(* it has, the attributes it adds and what it does with the result.        *)
(* The cache that lets one thread per kernel get here is CodegenCache.     *)
(* rustc's queries, LLVM and the linker are external: they fail or not.    *)
(*                                                                         *)
(* A session is a job of the thread pool, and the caller waits for it.  A  *)
(* worker whose session waits for a parallel loop of its own looks for     *)
(* other jobs meanwhile, and may find the session of another caller: the   *)
(* first session then goes on when the second is over.                     *)
(***************************************************************************)
EXTENDS Context

Metadata == INSTANCE CrateMetadata
Collect == INSTANCE Collector
Paths == INSTANCE SearchPaths
Attr == INSTANCE Attributes
Spirv == INSTANCE SpirvTypes
Pipeline == INSTANCE VkPipeline

CONSTANTS
  Worlds,         \* by a name, the devices and the platform of the kernel, the files of
                  \* the process and where it looks for them, what the crates
                  \* depend on, which are compiler plugins, the items, the
                  \* kernel and its parameters
  MaxSessions     \* bound: sessions begun

VARIABLES
  world,      \* the name of the one there is
  built,      \* of each thread's session: its numbered crates
  unit,       \* its codegen unit
  above,      \* the session its worker has taken up meanwhile
  sessions,
  compiled    \* history: what each session answered

sessionVars == <<built, unit, above, sessions, compiled>>
vars == <<pool, CTX, contexts, accels, drivers, pc, handle, making, drops, world,
          built, unit, above, sessions, compiled>>

-----------------------------------------------------------------------------
(* The crates some crates depend on, themselves included, not only for     *)
(* macros.                                                                 *)
Reaches(deps, crates) ==
  LET direct(c) == {deps[c][n].crate : n \in {m \in DOMAIN deps[c] : ~deps[c][m].macros}}
      closed(s) == \A c \in s : direct(c) \subseteq s
  IN  CHOOSE s \in SUBSET DOMAIN deps :
        /\ crates \subseteq s /\ closed(s)
        /\ \A r \in SUBSET s : crates \subseteq r /\ closed(r) => r = s

ASSUME SessionAssumption ==
  /\ MaxSessions \in Nat
  /\ \A w \in Range(Worlds) :
       /\ Collect!ProgramOK(w.items, LAMBDA cs : Reaches(w.deps, cs))
       /\ w.root \in DOMAIN w.items
       /\ \A c \in DOMAIN w.deps : c \notin Reaches(w.deps,
            {w.deps[c][n].crate : n \in {m \in DOMAIN w.deps[c] : ~w.deps[c][m].macros}})

Init ==
  /\ ContextInit
  /\ world \in DOMAIN Worlds
  /\ built = [t \in Threads |-> None]
  /\ unit = [t \in Threads |-> << >>]
  /\ above = [t \in Threads |-> None]
  /\ sessions = 0
  /\ compiled = [t \in Threads |-> None]

-----------------------------------------------------------------------------
World == Worlds[world]

(* The session of a thread is where it is and nothing runs above it.       *)
At(t, label) == pc[t] = label /\ above[t] = None

(* with_rustc_span_globals: the caller puts the job in the pool's queue.   *)
StartSession(t) ==
  /\ Moves(t, "idle", "queued") /\ sessions < MaxSessions
  /\ \E a \in Registered(handle[t]) : Devices[accels[a].device].platform = World.platform
  /\ sessions' = sessions + 1
  /\ compiled' = [compiled EXCEPT ![t] = None]
  /\ UNCHANGED <<world, built, unit, above>>

(* The parallel loops: over the blobs of a file in context_metadata, with  *)
(* the write lock held, and those of the compiler.                         *)
InLoop(t) ==
  \/ above[t] = None /\ Writes(t) /\ Lock(t).metadata = 0
  \/ At(t, "codegen") \/ At(t, "link")

(* A worker takes the job, an idle one or one that is in such a loop.      *)
TakeJob(t) ==
  /\ Moves(t, "queued", "load")
  /\ \/ UNCHANGED above
     \/ \E u \in Threads \ {t} : InLoop(u) /\ above' = [above EXCEPT ![u] = t]
  /\ UNCHANGED <<world, built, unit, sessions, compiled>>

(* context_metadata looks through the directories of the libraries. *)
Written(paths) == [n \in DOMAIN paths |-> Paths!Written(paths[n])]
Searched(w) ==
  Paths!DylibSearchPaths(w.tokens, Written(w.library_path),
                         [n \in DOMAIN w.section |-> [w.section[n] EXCEPT !.paths = Written(@)]])

Files == [n \in DOMAIN Worlds |->
  LET w == Worlds[n] IN Paths!Files(w.exe, Searched(w), w.dirs, w.libs)]

Loads == [n \in DOMAIN Worlds |-> Metadata!Answers(Files[n]) = {}]

(* load, of the metadata of the Context. *)
ReadMetadata(t) == (LoadRead(t) \/ LoadLock(t)) /\ UNCHANGED <<world, sessionVars>>

LoadMetadata(t) ==
  /\ above[t] = None /\ Load(t)
  /\ Beaten(Lock(t)) \/ Loads[world]
  /\ UNCHANGED <<world, sessionVars>>

(* The answer, with what the session held given back. *)
Answer(t, what) ==
  /\ compiled' = [compiled EXCEPT ![t] = what]
  /\ built' = [built EXCEPT ![t] = None]
  /\ unit' = [unit EXCEPT ![t] = << >>]
  /\ above' = [u \in Threads |-> IF above[u] = t THEN None ELSE above[u]]
  /\ UNCHANGED <<world, sessions>>

MetadataFails(t) ==
  /\ above[t] = None /\ ~Loads[world]
  /\ LoadFails(t)
  /\ Answer(t, "LoadMetadata")

-----------------------------------------------------------------------------
(* build and set_crate_data: the crates of the executable in the order of  *)
(* a hash table, each after what it depends on.                            *)
Blobs == [n \in DOMAIN Worlds |->
  Metadata!NameToBlob(Metadata!Objects(Files[n]), Worlds[n].plugins)]

BuildIn(n, order) ==
  FoldLeft(LAMBDA b, c : IF b.failed THEN b
                         ELSE Metadata!BuildImpl(Blobs[n], Worlds[n].deps, b, c),
           Metadata!Built0, order)

Builds == [n \in DOMAIN Worlds |->
  {BuildIn(n, order) : order \in SetToSeqs(Metadata!RequiredNames(Blobs[n]))}]

BuildCrates(t) ==
  /\ At(t, "crates") /\ Moves(t, "crates", "codegen")
  /\ \E b \in Builds[world] : built' = [built EXCEPT ![t] = b]
  /\ UNCHANGED <<world, unit, above, sessions, compiled>>

Crates(b) == {b.out[n].crate : n \in DOMAIN b.out}

(* The items, with the bodies the intrinsics of this platform have: those  *)
(* any platform has, then those of the platform, then those of the kernel. *)
Intrinsics(platform) ==
  {"kernelInstance", "custom", "platform"}
    \cup IF platform = "amdgpu" THEN {"amdSuicide"} ELSE {"spirvSuicide"}

Programs == [n \in DOMAIN Worlds |->
  LET w == Worlds[n]
  IN  [i \in DOMAIN w.items |->
               IF w.items[i].kind = "Intrinsic"
               THEN [w.items[i] EXCEPT !.mir = i \in Intrinsics(w.platform)]
               ELSE w.items[i]]]

(* The crates that the parameters of the kernel and the kernel itself name.*)
Instances == [n \in DOMAIN Worlds |->
  LET w == Worlds[n] IN UNION {w.items[i].crates : i \in w.params \cup {w.root}}]

(* A crate was missing, or one of these instances is not of this program. *)
SessionFails(t) ==
  /\ At(t, "codegen")
  /\ Ends(t)
  /\ \/ built[t].failed /\ Answer(t, "LoadMetadata")
     \/ /\ ~built[t].failed
        /\ ~(Instances[world] \subseteq Crates(built[t]))
        /\ Answer(t, "ConvertKernelInstance")

(* The query fn_sig: the kernel's function, whatever its arguments, has    *)
(* the ABI of kernels.                                                     *)
IsRoot(w, i) == w.items[i].def = w.items[w.root].def

KernelAbi(w) == Descs[CHOOSE d \in w.devices : Devices[d].platform = w.platform].kernel_abi

Abi(w, i) == IF IsRoot(w, i) THEN KernelAbi(w) ELSE "Rust"

(* The queries of one item: item_attrs, and codegen_fn_attrs, which adds   *)
(* what the platform says to what rustc makes of the attributes.           *)
CodegenFnAttrs(w, i, given) ==
  LET item == w.items[i]
  IN  IF w.platform = "amdgpu" THEN Attr!AmdFnAttrs(IsRoot(w, i), w.kernel, item.adt, given)
      ELSE [attrs |-> Attr!VkFnAttrs(IsRoot(w, i), w.kernel, item.kind = "Static", item.adt, given,
                                     Spirv!Metadata(item.adt)),
            error |-> FALSE]

Answers(w, i, filtered) ==
  LET answer == CodegenFnAttrs(w, i, Attr!RustcAttrs(filtered.attrs))
  IN  [item_attrs |-> filtered.attrs, abi |-> Abi(w, i), attrs |-> answer.attrs,
       error |-> filtered.error \/ answer.error]

Queried(w, i) == Answers(w, i, Attr!ItemAttrs(w.platform, w.items[i].attrs))

(* init_root, the conditions and pre_codegen, then codegen_crate, which    *)
(* asks for the unit, and for the attributes of what is in it.             *)
Units == [n \in DOMAIN Worlds |->
  Collect!CodegenUnit(Programs[n], Worlds[n].root)]
Asked == [n \in DOMAIN Worlds |->
  [i \in DOMAIN Units[n] |-> Queried(Worlds[n], i)]]

CodegenCrate(t) ==
  /\ At(t, "codegen") /\ Moves(t, "codegen", "link") /\ ~built[t].failed
  /\ Instances[world] \subseteq Crates(built[t])
  /\ unit' = [unit EXCEPT ![t] = Units[world]]
  /\ UNCHANGED <<world, built, above, sessions, compiled>>

(* The platform, LLVM or the linker fail, at any point; the compiler does  *)
(* once an error was reported.                                             *)
CodegenFails(t) ==
  /\ At(t, "codegen") \/ At(t, "link")
  /\ ~built[t].failed
  /\ Ends(t)
  /\ Answer(t, "Codegen")

Reported(t) == \E i \in DOMAIN unit[t] : Asked[world][i].error

(* post_codegen of the driver data names the root's symbol as an entry.    *)
Entry == Collect!Symbol(Programs[world], World.root)
Exported(t) == {Collect!Symbol(Programs[world], i) :
                  i \in {j \in DOMAIN unit[t] : unit[t][j] = "External"}}

(* The linker's notes of a code object list the functions that are kernels.*)
Noted(t) == {Collect!Symbol(Programs[world], i) :
               i \in {j \in DOMAIN unit[t] : Asked[world][j].abi = "AmdGpuKernel"}}

(* post_codegen of runtime-amd looks the entry up in the notes. *)
PostCodegenAmd(t) ==
  /\ At(t, "link") /\ ~Reported(t) /\ World.platform = "amdgpu"
  /\ Ends(t)
  /\ Answer(t, IF Entry \in Noted(t) THEN "Ok" ELSE "MissingKernelMetadataNote")

(* post_codegen of runtime-vk takes the module as it is. *)
PostCodegenVk(t) ==
  /\ At(t, "link") /\ ~Reported(t) /\ World.platform = "spirv"
  /\ Ends(t)
  /\ Answer(t, "Ok")

Step(t) ==
  \/ ContextStep(t, World.devices) /\ UNCHANGED <<world, sessionVars>>
  \/ StartSession(t) \/ TakeJob(t) \/ ReadMetadata(t) \/ LoadMetadata(t) \/ MetadataFails(t)
  \/ BuildCrates(t) \/ SessionFails(t) \/ CodegenCrate(t) \/ CodegenFails(t)
  \/ PostCodegenAmd(t) \/ PostCodegenVk(t)

Next == \E t \in Threads : Step(t)

(* A session runs on: its thread takes the locks that are free and the     *)
(* compiler ends.  Whether a program asks for anything is its own affair.  *)
InSession(t) == pc[t] \in {"queued", "load", "write", "locked", "crates", "codegen", "link"}
Fairness == \A t \in Threads : WF_vars(InSession(t) /\ Step(t))

Spec == Init /\ [][Next]_vars /\ Fairness

-----------------------------------------------------------------------------
(* The crates a session works with, in whatever order the executable's     *)
(* crates come, whichever files their blobs are in and however the paths   *)
(* of these are written: exactly the crates of the executable and what     *)
(* they need, each once, after what it needs and under one number of its   *)
(* own, with a map that takes the position of each dependency to that      *)
(* dependency's number and keeps the place of those that are only for      *)
(* macros.  It fails exactly when one is in no file where the dynamic      *)
(* linker would look.                                                      *)
CratesIn(w, files) ==
  UNION {Metadata!BlobsOf(f) : f \in {g \in files : g.section /\ Metadata!Owner(g) \notin w.plugins}}

Linked(w) ==
  LET paths == Range(w.library_path)
                 \cup UNION {Range(e.paths) : e \in {d \in Range(w.section) : d.tag = "DT_RUNPATH"}}
      at(l) == \E p \in paths :
                 LET path == Paths!Means(w.tokens, p)
                 IN  path \in DOMAIN w.dirs /\ w.dirs[path] = l.dir
  IN  {w.exe} \cup {l \in Range(w.libs) : l.is_file /\ l.dll /\ ~l.rustup /\ at(l)}

Needed == [n \in DOMAIN Worlds |->
  Reaches(Worlds[n].deps, CratesIn(Worlds[n], {Worlds[n].exe}))]
Found == [n \in DOMAIN Worlds |-> CratesIn(Worlds[n], Linked(Worlds[n]))]

CratesResolve ==
  \A t \in Threads :
    LET b == built[t]
        needed == Needed[world]
        num(c) == CHOOSE n \in 1 .. Cardinality(needed) :
                    \E i \in DOMAIN b.out : b.out[i].crate = c /\ b.out[i].cnum = n
    IN  b # None =>
          /\ b.failed <=> ~(needed \subseteq Found[world])
          /\ ~b.failed =>
               /\ Crates(b) = needed /\ Len(b.out) = Cardinality(needed)
               /\ \A i \in DOMAIN b.out :
                    LET c == b.out[i].crate
                        ds == World.deps[c]
                    IN  /\ \A j \in DOMAIN b.out : b.out[j].cnum = num(c) => j = i
                        /\ b.out[i].cnum_map = <<num(c)>> \o
                             [n \in DOMAIN ds |-> IF ds[n].macros THEN num(c) ELSE num(ds[n].crate)]
                        /\ \A n \in DOMAIN ds : ~ds[n].macros =>
                             \E j \in 1 .. i - 1 : b.out[j].crate = ds[n].crate

(* The items a kernel names, over as many others as there are. *)
Reached == [n \in DOMAIN Worlds |->
  LET p == Programs[n]
      names == [i \in DOMAIN p |-> {Collect!Stubbed(p, v.item) : v \in Collect!Body(p, i)}]
      within[far \in 0 .. Cardinality(DOMAIN p)] ==
        IF far = 0 THEN {Worlds[n].root}
        ELSE LET near == within[far - 1] IN near \cup UNION {names[i] : i \in near}
  IN  within[Cardinality(DOMAIN p)]]

(* The unit stands on its own: whatever a member's body refers to has a    *)
(* definition in it, under a name no other member has, unless a library    *)
(* or the backend provides it; nothing is compiled that the kernel does    *)
(* not reach, no function is compiled that a stub stands in for, every     *)
(* crate named was loaded, and the kernel's entry alone is visible.        *)
UnitClosed ==
  \A t \in Threads :
    LET p == Programs[world]
        u == DOMAIN unit[t]
    IN  pc[t] = "link" =>
          /\ Collect!Undefined(p, u) = {}
          /\ \A i, j \in u : Collect!Symbol(p, i) = Collect!Symbol(p, j) => i = j
          /\ u \subseteq Reached[world]
          /\ \A i \in u \ {World.root} : Collect!Stubbed(p, i) = i
          /\ \A i \in u : p[i].crates \subseteq Crates(built[t])
          /\ Exported(t) = {Entry}

(* What a session that has reported no error compiles is what the source   *)
(* says for its platform: an item has the attributes whose conditions, read*)
(* as those of cfg, hold there, in their order, and no others; the entry   *)
(* is a kernel to the device, and nothing else is, but for other instances *)
(* of its function.                                                        *)
Meant(platform, attrs) ==
  FlattenSeq([n \in DOMAIN attrs |->
    CASE attrs[n].name # "geobacter_attr" -> <<attrs[n]>>
      [] attrs[n].name = "geobacter_attr" /\ Attr!Holds(platform, attrs[n].items[1]) ->
           <<attrs[n].items[2]>>
      [] OTHER -> << >>])

AttributesFit ==
  \A t \in Threads : pc[t] = "link" /\ ~Reported(t) =>
    LET p == World.items
        kernels == {i \in DOMAIN unit[t] : Asked[world][i].abi # "Rust"}
    IN  /\ \A i \in DOMAIN unit[t] :
             Asked[world][i].item_attrs = Meant(World.platform, p[i].attrs)
        /\ World.platform = "amdgpu" => Entry \in Noted(t)
        /\ World.root \in kernels /\ \A i \in kernels : p[i].def = p[World.root].def

(* What the host and the device both reach lies where both look: a static  *)
(* of a role that has an address space is in the space the target names    *)
(* for the role, unless the source placed it; the scalars and vectors in   *)
(* one that the host fills are, through whatever structs and arrays, at the*)
(* offsets and strides the host uses; its set and binding are in the layout*)
(* the kernel was compiled with; and the host finds the same bindings there*)
(* whether it asks for them by number or walks through a set.              *)
Roles ==
  [LdsArray |-> "local", SpirvInput |-> "input", SpirvShaderInput |-> "input",
   SpirvOutput |-> "output", SpirvShaderOutput |-> "output",
   SpirvUniformObject |-> "uniform", SpirvBufferObject |-> "buffer"]

StaticsPlaced ==
  \A t \in Threads : pc[t] = "link" /\ ~Reported(t) =>
    LET spaces == Descs[CHOOSE d \in World.devices : Devices[d].platform = World.platform]
                    .target.addr_spaces
    IN  \A i \in {j \in DOMAIN unit[t] : World.items[j].kind = "Static"} :
          LET item == World.items[i]
              attrs == Asked[world][i].attrs
              own == Attr!RustcAttrs(Asked[world][i].item_attrs).addr_space
          IN  /\ attrs.addr_space =
                   CASE own # {} -> own
                     [] own = {} /\ item.role \in DOMAIN Roles -> {spaces[Roles[item.role]].index}
                     [] OTHER -> {}
              /\ \A m \in attrs.spirv :
                   /\ Spirv!DevicePlaces(m.node) = Spirv!HostPlaces(item.adt)
                   /\ m.set # {} <=> item.role \in {"SpirvUniformObject", "SpirvBufferObject"}
                   /\ \A s \in m.set : \A b \in m.binding :
                        Pipeline!Descriptor(World.pipeline, s, b).desc = item.role
              /\ attrs.spirv # {} => Pipeline!WalksAsAsked(World.pipeline)

(* A worker is stuck: the session it took up needs the metadata lock, which*)
(* the session below it holds or keeps others from.                        *)
Stuck ==
  \E t \in Threads :
    /\ above[t] # None /\ pc[above[t]] \in {"load", "write", "locked"}
    /\ t \in Lock(t).readers \cup {Lock(t).writer}
    /\ Lock(t).writer # None

(* Sessions end with an answer, although the metadata lock is held for     *)
(* their whole length and a thread that found no metadata waits until all  *)
(* who did are done; the one thing that can keep a session from its end is *)
(* a worker that took up a session in a loop of the one that holds the     *)
(* lock.                                                                   *)
SessionsEndOrStuck ==
  (\A t \in Threads : []<>(~InSession(t))) \/ <>[]Stuck

(* That never happens: "XXX using .into_par_iter() causes a deadlock", says*)
(* context_metadata of its outer loop, which for that reason is not        *)
(* parallel; its inner loop, over the blobs of a file, still is.           *)
SessionsEnd == \A t \in Threads : []<>(~InSession(t))
=============================================================================
