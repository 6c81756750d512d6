------------------------------ MODULE Attributes ------------------------------
(***************************************************************************)
(* The attributes of what is compiled for a device: the conditions of      *)
(* geobacter_attr (runtime-core/src/codegen/attrs.rs and the attrs.rs of   *)
(* the platforms), and what the platforms add to the attributes rustc      *)
(* gives a function or a static (codegen_fn_attrs).                        *)
(*                                                                         *)
(* An attribute is a meta item: a word, a name with a value, a list of     *)
(* items in brackets, or, inside a list only, a literal.  A message to the *)
(* user (span_err) is an error: the session it is reported in fails.       *)
(***************************************************************************)
EXTENDS SequencesExt

Word(n) == [form |-> "Word", name |-> n]
NameValue(n, v) == [form |-> "NameValue", name |-> n, value |-> v]
ListOf(n, items) == [form |-> "List", name |-> n, items |-> items]
Literal == [form |-> "Literal", name |-> ""]

(* What was read, which is nothing or one thing, and whether a message was *)
(* reported on the way.                                                    *)
Read(what) == [is |-> {what}, error |-> FALSE]
Error == [is |-> {}, error |-> TRUE]

(* ConditionItem of a platform: the one thing a condition may ask is the   *)
(* platform, and only for its own name; a word never parses.               *)
ParseItem(platform, item) ==
  IF item.form = "NameValue" /\ item.name = "platform" /\ item.value = platform
  THEN Read([op |-> "item", cond |-> "Platform"]) ELSE Error

(* A bug: a condition that is not true is taken as it stands. *)
Mutant_Negated(parsed) == parsed.is

Negated(parsed) == {[op |-> "not", of |-> e] : e \in parsed.is}

(* parse_from_attrs: any and all go on with what could be parsed. *)
RECURSIVE ParseFromAttrs(_, _)
ParseFromAttrs(platform, item) ==
  IF item.form # "List" THEN ParseItem(platform, item)
  ELSE
    LET subs == {ParseFromAttrs(platform, item.items[n]) : n \in DOMAIN item.items}
    IN  IF \E n \in DOMAIN item.items : item.items[n].form = "Literal" THEN Error
        ELSE IF item.name \in {"any", "all"}
        THEN [is |-> {[op |-> item.name, of |-> UNION {s.is : s \in subs}]},
              error |-> \E s \in subs : s.error]
        ELSE IF item.name = "not" /\ Len(item.items) = 1
        THEN LET s == ParseFromAttrs(platform, item.items[1])
             IN  [is |-> Negated(s), error |-> s.error]
        ELSE Error

RECURSIVE Eval(_, _)
Eval(expr, conds) ==
  CASE expr.op = "item" -> expr.cond \in conds
    [] expr.op = "not" -> ~Eval(expr.of, conds)
    [] expr.op = "all" -> \A e \in expr.of : Eval(e, conds)
    [] expr.op = "any" -> \E e \in expr.of : Eval(e, conds)

(* root_conditions of both platforms. *)
RootConditions == {"Platform"}

(* geobacter_cfg_attrs for one attribute: it stays, is replaced by what it *)
(* holds, or is left out.                                                  *)
Replaced(parsed, by) ==
  IF ~(\E e \in parsed.is : Eval(e, RootConditions)) THEN [parsed EXCEPT !.is = {}]
  ELSE IF by.form = "Literal" THEN Error ELSE [parsed EXCEPT !.is = {by}]

CfgAttr(platform, a) ==
  CASE a.name # "geobacter_attr" -> Read(a)
    [] a.name = "geobacter_attr" /\ (a.form # "List" \/ Len(a.items) # 2) -> Error
    [] OTHER -> IF a.items[1].form = "Literal" THEN Error
                ELSE Replaced(ParseFromAttrs(platform, a.items[1]), a.items[2])

(* The query item_attrs. *)
Kept(done) ==
  LET kept == SelectSeq(done, LAMBDA d : d.is # {})
  IN  [attrs |-> [n \in DOMAIN kept |-> CHOOSE a \in kept[n].is : TRUE],
       error |-> \E n \in DOMAIN done : done[n].error]

ItemAttrs(platform, attrs) == Kept([n \in DOMAIN attrs |-> CfgAttr(platform, attrs[n])])

(* geobacter_attrs: what is in the lists of the geobacter attributes that  *)
(* item_attrs leaves.                                                      *)
GeobacterAttrs(filtered) ==
  LET ours == {a \in Range(filtered.attrs) : a.name = "geobacter"}
  IN  [items |-> UNION {Range(a.items) : a \in {b \in ours : b.form = "List"}},
       error |-> filtered.error \/ \E a \in ours : a.form # "List"]

-----------------------------------------------------------------------------
(* external: what rustc makes of the attributes that are left.  An address *)
(* space is a set of at most one index.                                    *)
RustcAttrs(attrs) ==
  [addr_space |-> {attrs[n].value : n \in {m \in DOMAIN attrs : attrs[m].name = "addr_space"}},
   inline |-> IF \E n \in DOMAIN attrs : attrs[n].name = "inline" THEN "Hint" ELSE "None",
   num_vgpr |-> 0, spirv |-> {}]

(* A type that says it is an array in LDS. *)
IsLdsArray(items) ==
  \E i \in items :
    /\ i.form = "List" /\ i.name = "amdgpu"
    /\ \E n \in DOMAIN i.items :
         i.items[n].form = "NameValue" /\ i.items[n].name = "runtime_item"
           /\ i.items[n].value = "lds_array"

(* The level of optimization create_rustc_options asks for. *)
Optimize == "Aggressive"

(* codegen_fn_attrs of runtime-amd: the kernel gets its limit of registers,*)
(* everything else is inlined unless nothing is optimized, and a static    *)
(* whose type says so, and that is not placed yet, goes to LDS.            *)
AmdFnAttrs(root, kernel, adt, given) ==
  LET types == GeobacterAttrs(ItemAttrs("amdgpu", adt.attrs))
      asks == ~root /\ given.addr_space = {} /\ adt.is_adt
  IN  [attrs |->
         IF root THEN [given EXCEPT !.num_vgpr = kernel.max_vgpr_count]
         ELSE [given EXCEPT !.inline = IF Optimize # "No" THEN "Always" ELSE @,
                            !.addr_space = IF asks /\ IsLdsArray(types.items) THEN {3} ELSE @],
       error |-> asks /\ types.error]

-----------------------------------------------------------------------------
(* The lang items of runtime-vk, and the address space of each. *)
StorageClass ==
  [SpirvInput |-> 5, SpirvShaderInput |-> 5, SpirvOutput |-> 6, SpirvShaderOutput |-> 6,
   SpirvUniformObject |-> 7, SpirvBufferObject |-> 8]

(* codegen_fn_attrs of runtime-vk: the kernel gets its model and size, and *)
(* a static of one of the lang items its description and, unless it is     *)
(* placed already, its place; functions are left alone.                    *)
VkFnAttrs(root, kernel, static, adt, given, metadata) ==
  CASE root -> [given EXCEPT !.spirv = {[exe_model |-> kernel.exe_model,
                                         local_size |-> kernel.workgroup_size]}]
    [] ~root /\ static /\ adt.lang \in DOMAIN StorageClass ->
         [given EXCEPT !.spirv = {metadata},
                       !.addr_space = IF @ = {} THEN {StorageClass[adt.lang]} ELSE @]
    [] ~root /\ static /\ adt.lang \notin DOMAIN StorageClass -> [given EXCEPT !.spirv = {}]
    [] OTHER -> given

-----------------------------------------------------------------------------
(* What a condition says when it is read as one of cfg. *)
RECURSIVE Holds(_, _)
Holds(platform, item) ==
  CASE item.form # "List" -> item.name = "platform" /\ item.value = platform
    [] item.name = "not" -> ~Holds(platform, item.items[1])
    [] item.name = "all" -> \A n \in DOMAIN item.items : Holds(platform, item.items[n])
    [] item.name = "any" -> \E n \in DOMAIN item.items : Holds(platform, item.items[n])
=============================================================================
