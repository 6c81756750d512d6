----------------------------- MODULE MCSession -----------------------------
(* Processes for TLC: the devices there are, where the blobs of the crates *)
(* are, which crates depend on which, and the kernels.                     *)
EXTENDS Session

ok(c) == [crate |-> c, intact |-> TRUE]
Exe(bs, owner) == [src |-> "Mapped", section |-> TRUE, blobs |-> bs, owner |-> owner]
Lib(dir, bs, owner) ==
  [src |-> "SearchPaths", section |-> TRUE, blobs |-> bs, owner |-> owner,
   dir |-> dir, is_file |-> TRUE, dll |-> TRUE, rustup |-> FALSE]
CLib == [Lib("lib", << >>, 0) EXCEPT !.section = FALSE]

\* two GPUs of one kind, a third whose hash tables come in another order,
\* two Vulkan devices of one target, and one that lacks what is needed
Gpu(seed) ==
  [platform |-> "amdgpu", large_bar |-> TRUE, seed |-> seed,
   isa |-> [cpu |-> "gfx803", fast_f16 |-> TRUE,
            features |-> [xnack |-> "-", sramecc |-> "?", dpp |-> "-"]]]
Vulkan(enabled) == [platform |-> "spirv", enabled |-> enabled]
Int8 == {"variable_pointers", "shader_int8", "storage_uniform_8bit"}

Hardware ==
  [gpu1 |-> Gpu(0), gpu2 |-> Gpu(0), gpu3 |-> Gpu(1),
   vk1 |-> Vulkan(Int8),
   vk2 |-> Vulkan(Int8 \cup {"variable_pointers_storage_buffer", "storage_buffer_8bit"}),
   vk3 |-> Vulkan({"shader_int8"})]

dep(c) == [crate |-> c, macros |-> FALSE]
mac(c) == [crate |-> c, macros |-> TRUE]

\* app uses lib and rt; both use std; mac is only for macros; ext is a
\* library that app does not know.
Deps == [app |-> <<dep("lib"), mac("mac"), dep("rt")>>,
         lib |-> <<mac("mac"), dep("std")>>,
         rt  |-> <<dep("std")>>,
         std |-> << >>,
         mac |-> <<dep("std")>>,
         ext |-> <<dep("std")>>]

\* types: rustc puts the fields of a struct where it likes
Scalar == [kind |-> "scalar", is_adt |-> FALSE, lang |-> "none", attrs |-> << >>]
Struct(fields) ==
  [kind |-> "struct", fields |-> fields, is_adt |-> TRUE, lang |-> "none", attrs |-> << >>]
Array(stride, elem) ==
  [kind |-> "array", stride |-> stride, elem |-> elem, is_adt |-> FALSE, lang |-> "none",
   attrs |-> << >>]
field(offset, ty) == [offset |-> offset, ty |-> ty]
Vec == [Struct(<< >>) EXCEPT !.kind = "simd"]
Wrap(ty) == [Struct(<<field(0, ty)>>) EXCEPT !.kind = "transparent"]
Placed(lang, consts, ty) ==
  [consts |-> consts] @@ [Struct(<<field(0, ty)>>) EXCEPT !.lang = lang]

Light == Struct(<<field(16, Scalar), field(0, Wrap(Vec))>>)
Scene == Struct(<<field(64, Scalar), field(0, Array(32, Light)), field(80, Wrap(Array(4, Scalar)))>>)
LdsType ==
  [Struct(<<field(0, Scalar)>>) EXCEPT !.attrs =
     <<Attr!ListOf("geobacter", <<Attr!Word("other"),
         Attr!ListOf("amdgpu", <<Attr!NameValue("runtime_item", "lds_array")>>)>>)>>]

\* attributes with conditions, of a program that knows one platform
if(cond, a) == Attr!ListOf("geobacter_attr", <<cond, a>>)
on(platform) == Attr!NameValue("platform", platform)
no(cond) == Attr!ListOf("not", <<cond>>)
all(conds) == Attr!ListOf("all", conds)
any(conds) == Attr!ListOf("any", conds)
space(n) == Attr!NameValue("addr_space", n)
Inline == Attr!Word("inline")

of(kind, cs, uses) == [kind |-> kind, crates |-> cs, uses |-> uses]
fn(cs, uses) == of("Item", cs, uses)
decl(kind, cs, uses) ==
  [kind |-> kind, crates |-> cs, uses |-> uses, foreign |-> TRUE, mir |-> FALSE]
static(cs, role, ty) ==
  [kind |-> "Static", crates |-> cs, uses |-> {}, role |-> role, adt |-> ty]
with(it, attrs) == [attrs |-> attrs] @@ it
call(i) == [how |-> "call", item |-> i]
reify(i) == [how |-> "reify", item |-> i]
named(i) == [how |-> "named", item |-> i]

Stubs == [alloc |-> "allocStub", panic |-> "panicStub"]
Generic == [again |-> "kernel"]
Program(p) == [i \in DOMAIN p |->
  p[i] @@ [foreign |-> FALSE, mir |-> TRUE, attrs |-> << >>, adt |-> Scalar, role |-> "none",
           stub |-> IF i \in DOMAIN Stubs THEN Stubs[i] ELSE i,
           def |-> IF i \in DOMAIN Generic THEN Generic[i] ELSE i]]

\* A kernel that reaches each kind of item in each way, and itself, and the
\* statics of a platform.
Full(platform, statics) == Program(statics @@
  [kernel    |-> fn({"app"}, {call("map"), call("kernelInstance"), named("table"), named("panic")}
                                \cup {named(i) : i \in DOMAIN statics}),
   map       |-> with(fn({"lib", "app"}, {call("closure"), call("dropT"), call("virtual"), reify("shim")}),
                      <<if(no(no(all(<<on(platform), any(<<on(platform), no(on(platform))>>)>>))), Inline),
                        if(any(<< >>), space(1)), if(no(on(platform)), space(2))>>),
   closure   |-> fn({"app"}, {call("custom"), call("alloc"), call("again"), call("abs")}),
   again     |-> fn({"app"}, {call("kernel")}),
   kernelInstance |-> decl("Intrinsic", {"rt"}, {}),
   custom    |-> decl("Intrinsic", {"rt"}, {call("helper")}),
   helper    |-> fn({"rt"}, {}),
   table     |-> of("Static", {"lib"}, {named("entry"), call("dropNone")}),
   entry     |-> fn({"lib"}, {call("shim")}),
   shim      |-> of("Indirect", {"std"}, {call("target")}),
   target    |-> fn({"std"}, {}),
   virtual   |-> of("Indirect", {"std"}, {}),
   dropNone  |-> of("Indirect", {"std"}, {}),
   dropT     |-> of("Shim", {"std", "app"}, {call("dropNone"), call("panic")}),
   abs       |-> decl("Item", {"std"}, {}),
   alloc     |-> decl("Item", {"std"}, {}),
   panic     |-> fn({"std"}, {call("print")}),
   print     |-> fn({"std"}, {}),
   allocStub |-> fn({"rt"}, {}),
   panicStub |-> fn({"rt"}, {call("amdSuicide"), call("spirvSuicide"), call("abort")}),
   amdSuicide |-> decl("Intrinsic", {"rt"}, {}),
   spirvSuicide |-> decl("Intrinsic", {"rt"}, {}),
   abort     |-> decl("Intrinsic", {"rt"}, {}),
   extKernel |-> fn({"ext"}, {})])

OnAmd ==
  [tile |-> static({"app"}, "LdsArray", LdsType),
   placed |-> with(static({"app"}, "LdsArray", LdsType), <<if(on("amdgpu"), space(1))>>)]
OnVk ==
  [scene |-> static({"app"}, "SpirvUniformObject", Placed("SpirvUniformObject", <<0, 1>>, Scene)),
   out |-> static({"app"}, "SpirvBufferObject", Placed("SpirvBufferObject", <<2, 3>>, Array(4, Scalar))),
   id |-> with(static({"lib"}, "SpirvInput", Placed("SpirvInput", <<28>>, Wrap(Vec))),
               <<if(no(on("spirv")), space(1))>>)]

desc(binding, of_) == [binding |-> binding, desc |-> of_]
Pipe == <<[set |-> 0, bindings |-> <<desc(1, "SpirvUniformObject"), desc(2, "Sampler")>>],
          [set |-> 2, bindings |-> <<desc(0, "Sampler"), desc(3, "SpirvBufferObject")>>],
          [set |-> 3, bindings |-> << >>]>>

All == <<ok("app"), ok("lib"), ok("rt"), ok("std")>>

\* where libraries are looked for: $ORIGIN/../${LIB} and /$UNKNOWN/lib
name(n) == [var |-> "", name |-> n]
var(kind, n) == [var |-> kind, name |-> n]
Tokens == [ORIGIN |-> <<"/", "app">>, LIB |-> <<"lib64">>, PLATFORM |-> <<"x86_64">>]
LibPath == <<var("plain", "ORIGIN"), name("/"), name(".."), name("/"), var("braced", "LIB")>>
OddPath == <<name("/"), var("plain", "UNKNOWN"), name("-"), var("braced", "PLATFORM"), name("/"), name("lib")>>
Dirs == (<<"/", "app", "/", "..", "/", "lib64">> :> "lib")
          @@ (<<"/", "$", "UNKNOWN", "-", "x86_64", "/", "lib">> :> "odd")
          @@ (<<"/", "usr">> :> "elsewhere")
Dynamic(paths) == <<[tag |-> "DT_STRTAB", paths |-> << >>], [tag |-> "DT_RUNPATH", paths |-> paths],
                    [tag |-> "DT_NULL", paths |-> << >>]>>

\* what they have in common: a process with AMD's platform
Common ==
  [devices |-> {"gpu1", "gpu2"}, platform |-> "amdgpu", libs |-> << >>,
   tokens |-> Tokens, library_path |-> <<OddPath>>, section |-> Dynamic(<<LibPath>>), dirs |-> Dirs,
   deps |-> Deps, plugins |-> {"mac"}, root |-> "kernel", params |-> {},
   kernel |-> [max_vgpr_count |-> 64], pipeline |-> << >>]

Differing == <<
  \* everything in the executable, with libraries of C
  [devices |-> {"gpu1", "gpu3"}, exe |-> Exe(All, 1), libs |-> <<CLib>>],
  \* a shader; std in a library of its own, twice, and crates of the
  \* executable again; libraries that are not looked at
  [devices |-> {"vk1", "vk2"}, platform |-> "spirv", pipeline |-> Pipe, params |-> {"entry"},
   kernel |-> [exe_model |-> "GLCompute", workgroup_size |-> <<64, 1, 1>>],
   exe |-> Exe(<<ok("lib"), ok("app"), ok("ext")>>, 2),
   libs |-> <<Lib("lib", <<ok("std"), ok("rt")>>, 1), Lib("odd", <<ok("std")>>, 1),
              Lib("odd", <<ok("rt"), ok("lib"), ok("ext")>>, 1),
              Lib("elsewhere", <<[crate |-> "ext", intact |-> FALSE]>>, 1)>>],
  \* the program knows another platform than the one it is compiled for
  [devices |-> {"gpu1", "vk1"}, exe |-> Exe(All, 1)],
  \* a plugin with a crate nothing else has, but for a link
  [exe |-> Exe(<<ok("app"), ok("rt"), ok("lib")>>, 1),
   libs |-> <<Lib("lib", <<ok("mac"), ok("std")>>, 1),
              [Lib("lib", <<ok("std")>>, 1) EXCEPT !.is_file = FALSE]>>],
  \* a plugin and a library the program opened
  [devices |-> {"gpu1", "vk3"}, exe |-> Exe(<<ok("app")>>, 1), params |-> {"extKernel"},
   libs |-> <<Lib("odd", <<ok("mac")>>, 1), Lib("lib", <<ok("rt"), ok("std"), ok("lib")>>, 2),
              Lib("lib", <<ok("ext")>>, 1)>>],
  \* a library whose metadata does not inflate
  [exe |-> Exe(All, 1), libs |-> <<Lib("lib", <<[crate |-> "ext", intact |-> FALSE]>>, 1)>>]>>

WrittenFor == [n \in DOMAIN Differing |-> IF n \in {2, 3} THEN "spirv" ELSE "amdgpu"]

Processes == [n \in DOMAIN Differing |->
  Differing[n] @@ Common @@
    [items |-> Full(WrittenFor[n], IF WrittenFor[n] = "spirv" THEN OnVk ELSE OnAmd)]]
\* TLC works out a definition once, but not one that stands for a constant
MCWorlds == Processes
MCDevices == Hardware
=============================================================================
