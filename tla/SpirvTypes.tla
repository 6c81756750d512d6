------------------------------ MODULE SpirvTypes ------------------------------
(***************************************************************************)
(* What runtime-vk tells the SPIR-V backend of the statics it places: the  *)
(* layout of their types, and the binding of those the host provides       *)
(* (build_spirv_ty_metadata and build_spirv_metadata of                    *)
(* runtime-vk/src/codegen/mod.rs).                                         *)
(*                                                                         *)
(* A type as rustc has laid it out: "scalar", "simd", "transparent",       *)
(* "struct" (a tuple, too) with the offset of each field, or "array" with  *)
(* its stride.  adt says whether it is a struct of the program's, lang     *)
(* which lang item that is, consts its constant parameters.  Types whose   *)
(* layout has padded indices, and any other type, stop the compiler.       *)
(***************************************************************************)
EXTENDS SequencesExt

(* default_node *)
Node(members, elem) == [members |-> members, elem |-> elem, decorations |-> {}]
Leaf == Node(<< >>, {})

Decorated(node, name, words) ==
  [node EXCEPT !.decorations = @ \cup {[name |-> name, words |-> words]}]

(* A bug: the fields in the order they have in memory, with the offsets as *)
(* they were declared.                                                     *)
Mutant_Fields(ty) == SortSeq(ty.fields, LAMBDA f, g : f.offset < g.offset)

Fields(ty) == ty.fields

(* build_spirv_ty_metadata: a wrapper is its first field. *)
RECURSIVE TyMetadata(_)
TyMetadata(ty) ==
  CASE ty.kind \in {"scalar", "simd"} -> Leaf
    [] ty.kind = "transparent" -> TyMetadata(ty.fields[1].ty)
    [] ty.kind = "struct" ->
         Node([n \in DOMAIN ty.fields |->
                 [offset |-> Fields(ty)[n].offset, node |-> TyMetadata(ty.fields[n].ty)]], {})
    [] ty.kind = "array" ->
         Decorated(Node(<< >>, {TyMetadata(ty.elem)}), "ArrayStride", <<ty.stride>>)

(* build_spirv_metadata: only statics have more than their layout. *)
Metadata(ty) ==
  LET node == TyMetadata(ty)
      plain == [node |-> node, set |-> {}, binding |-> {}]
  IN  CASE ty.lang = "SpirvBuiltin" ->
             [plain EXCEPT !.node = Decorated(@, "BuiltIn", <<ty.consts[1]>>)]
        [] ty.lang \in {"SpirvUniformObject", "SpirvBufferObject"} ->
             [node |-> Decorated(node, "Block", << >>),
              set |-> {ty.consts[1]}, binding |-> {ty.consts[2]}]
        [] OTHER -> plain

-----------------------------------------------------------------------------
(* The scalars and vectors of a value, by the fields that lead to each: the*)
(* offset it has and the strides of the arrays it is in.                   *)
At(offset, strides) == [offset |-> offset, strides |-> strides]
Under(n, offset, places) ==
  {<<<<n>> \o p[1], At(offset + p[2].offset, p[2].strides)>> : p \in places}

(* On the host, where the rustc of the program laid it out. *)
RECURSIVE HostPlaces(_)
HostPlaces(ty) ==
  CASE ty.kind \in {"scalar", "simd"} -> {<<<< >>, At(0, << >>)>>}
    [] ty.kind = "transparent" -> HostPlaces(ty.fields[1].ty)
    [] ty.kind = "struct" ->
         UNION {Under(n, ty.fields[n].offset, HostPlaces(ty.fields[n].ty)) : n \in DOMAIN ty.fields}
    [] ty.kind = "array" ->
         {<<p[1], At(p[2].offset, <<ty.stride>> \o p[2].strides)>> : p \in HostPlaces(ty.elem)}

(* On the device, where the decorations put it. *)
RECURSIVE DevicePlaces(_)
DevicePlaces(node) ==
  CASE node.elem # {} ->
         LET stride == CHOOSE d \in node.decorations : d.name = "ArrayStride"
         IN  {<<p[1], At(p[2].offset, stride.words \o p[2].strides)>> :
                p \in DevicePlaces(CHOOSE e \in node.elem : TRUE)}
    [] node.elem = {} /\ node.members # << >> ->
         UNION {Under(n, node.members[n].offset, DevicePlaces(node.members[n].node)) :
                  n \in DOMAIN node.members}
    [] OTHER -> {<<<< >>, At(0, << >>)>>}
=============================================================================
