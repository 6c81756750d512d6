------------------------------ MODULE TargetDesc ------------------------------
(***************************************************************************)
(* What a kernel is compiled for: the AcceleratorTargetDesc that           *)
(* runtime-core/src/lib.rs starts from the host and that the accelerators  *)
(* of runtime-amd and runtime-vk fill in (their init_target_desc).         *)
(*                                                                         *)
(* A device is a record of what its driver says of it:                     *)
(*   platform  "amdgpu" or "spirv"                                         *)
(*   isa       AMD: the cpu and the features of the name of the ISA, with  *)
(*             "+", "-" or something else after each; fast_f16             *)
(*   large_bar AMD: whether the host may be given access to its memory     *)
(*   enabled   Vulkan: the features the application enabled                *)
(*   seed      the order its hash tables come in                           *)
(***************************************************************************)
EXTENDS SequencesExt

(* external: what rustc knows of the machine the program runs on *)
Host ==
  [llvm_target |-> "x86_64-unknown-linux-gnu", arch |-> "x86_64", cpu |-> "x86-64",
   features |-> << >>, endian |-> "little", pointer_width |-> 64,
   trap_unreachable |-> TRUE, dynamic_linking |-> TRUE, panic_strategy |-> "Unwind",
   addr_spaces |-> [k \in {} |-> {}]]

(* AcceleratorTargetDesc::new: always from the host. *)
HostDesc(platform) ==
  [allow_indirect_function_calls |-> TRUE, kernel_abi |-> "C",
   host_target |-> Host, target |-> Host, platform |-> platform]

(* eq, and hash by the same five fields. *)
SameDesc(d, e) ==
  /\ d.allow_indirect_function_calls = e.allow_indirect_function_calls
  /\ d.kernel_abi = e.kernel_abi
  /\ d.host_target = e.host_target /\ d.target = e.target
  /\ d.platform = e.platform

-----------------------------------------------------------------------------
(* The closures insert_as: every address space can be reached through the  *)
(* flat one, and from the others nothing but the flat one.                 *)
AddrSpaces(flat, others) ==
  [kind \in {"Flat"} \cup DOMAIN others |->
     IF kind = "Flat" THEN [index |-> flat, shared_with |-> DOMAIN others]
                      ELSE [index |-> others[kind], shared_with |-> {"Flat"}]]

AmdSpaces ==
  AddrSpaces(0, [ReadWrite |-> 1, region |-> 2, local |-> 3, ReadOnly |-> 4,
                 Alloca |-> 5, constant32 |-> 6])

VkSpaces ==
  AddrSpaces(4, [ReadWrite |-> 4, region |-> 1, local |-> 3, ReadOnly |-> 4, Alloca |-> 0,
                 input |-> 5, output |-> 6, uniform |-> 7, buffer |-> 8, physBuffer |-> 9])

-----------------------------------------------------------------------------
(* The features of the name of the ISA, but for the weird ones, then those *)
(* a kernel needs: one that must be on, and those the name may refuse.     *)
AmdFeatures(dev) ==
  LET isa == dev.isa.features
      named == {f \in DOMAIN isa : isa[f] \in {"+", "-"}}
      wanted == {"dpp", "s-memrealtime"} \cup IF dev.isa.fast_f16 THEN {"16-bit-insts"} ELSE {}
  IN  [f \in named \cup {"code-object-v3"} \cup wanted |->
         f = "code-object-v3" \/ f \notin named \/ isa[f] = "+"]

(* One string, in the order of a hash table with a seed of its own. *)
InHashOrder(features, seed) ==
  LET order == IF seed = 0 THEN SetToSeq(DOMAIN features) ELSE Reverse(SetToSeq(DOMAIN features))
  IN  [n \in DOMAIN order |-> <<order[n], features[order[n]]>>]

(* init_target_desc of HsaAmdGpuAccel. *)
AmdTarget(dev) ==
  [Host EXCEPT !.llvm_target = "amdgcn-amd-amdhsa-amdgiz", !.arch = "amdgpu",
               !.cpu = dev.isa.cpu, !.features = InHashOrder(AmdFeatures(dev), dev.seed),
               !.panic_strategy = "Abort", !.addr_spaces = AmdSpaces]

AmdDesc(dev) ==
  [HostDesc([isa |-> dev.isa, has_pcie_large_bar |-> dev.large_bar]) EXCEPT
     !.kernel_abi = "AmdGpuKernel", !.target = AmdTarget(dev)]

-----------------------------------------------------------------------------
(* What the target claims for each feature the device has enabled, unless  *)
(* it has enabled what is more than that.                                  *)
VkTable == <<
  <<"variable_pointers", "variable-pointers", {}>>,
  <<"variable_pointers_storage_buffer", "variable-pointers-storage-buffer", {"variable_pointers"}>>,
  <<"shader_int8", "i8", {}>>,
  <<"shader_int16", "i16", {}>>,
  <<"shader_int64", "i64", {}>>,
  <<"shader_float16", "f16", {}>>,
  <<"shader_f3264", "f64", {}>>,
  <<"shader_buffer_int64_atomics", "i64-atomics", {}>>,
  <<"storage_uniform_8bit", "storage-uniform-i8-access", {}>>,
  <<"storage_buffer_8bit", "storage-buffer-i8-access", {"storage_uniform_8bit"}>>,
  <<"storage_uniform_16bit", "storage-uniform-i16-access", {}>>,
  <<"storage_buffer_16bit", "storage-buffer-i16-access", {"storage_uniform_16bit"}>>,
  <<"storage_input_output_16bit", "storage-input-output-i16-access", {}>>,
  <<"buffer_device_address", "physical-storage-buffer-addresses", {}>>>>

(* In the order of the table, whose rows are named by their place. *)
VkFeatures(dev) ==
  LET claimed == {n \in DOMAIN VkTable : /\ VkTable[n][1] \in dev.enabled
                                         /\ VkTable[n][3] \cap dev.enabled = {}}
  IN  [n \in {0} \cup claimed |-> <<IF n = 0 THEN "shader" ELSE VkTable[n][2], TRUE>>]

(* init_target_desc of VkAccel. *)
VkTarget(dev) ==
  [Host EXCEPT !.llvm_target = "spirv64-vulkan-unknown", !.arch = "spirv64", !.cpu = "",
               !.features = VkFeatures(dev), !.pointer_width = 64,
               !.trap_unreachable = FALSE, !.dynamic_linking = FALSE,
               !.panic_strategy = "Abort", !.addr_spaces = VkSpaces]

VkDesc(dev) ==
  [HostDesc("Vulkan") EXCEPT
     !.allow_indirect_function_calls = FALSE, !.kernel_abi = "SpirKernel",
     !.target = VkTarget(dev)]

DescOf(dev) == IF dev.platform = "amdgpu" THEN AmdDesc(dev) ELSE VkDesc(dev)

(* new_raw of VkAccel wants one feature; an AMD device needs a host node   *)
(* and its regions, which the caller of this module leaves to chance.      *)
Suits(dev) == dev.platform = "spirv" => "variable_pointers" \in dev.enabled

-----------------------------------------------------------------------------
(* What code for a target may use, a device can do: the ISA is its own, or *)
(* every feature claimed is one it has enabled.                            *)
Runs(dev, desc) ==
  IF dev.platform = "amdgpu"
  THEN desc.target.arch = "amdgpu" /\ desc.platform.isa = dev.isa
  ELSE /\ desc.target.arch = "spirv64"
       /\ \A n \in DOMAIN desc.target.features :
            \A row \in Range(VkTable) :
              desc.target.features[n][1] = row[2] => row[1] \in dev.enabled
=============================================================================
