----------------------------- MODULE SearchPaths -----------------------------
(***************************************************************************)
(* Where the runtime looks for the libraries a program is linked with      *)
(* (runtime-core/src/platform/unix.rs, and context_metadata of metadata.rs *)
(* which reads the directories).                                           *)
(*                                                                         *)
(* A path is a sequence of pieces: the signs in Signs, and names, which    *)
(* are what is between two signs.                                          *)
(***************************************************************************)
EXTENDS SequencesExt

Signs == {"$", "{", "}", "/", "-"}

(* The tag DT_NULL ends the dynamic section of the executable. *)
Entries(section) ==
  LET end == SelectInSeq(section, LAMBDA e : e.tag = "DT_NULL")
  IN  IF end = 0 THEN section ELSE SubSeq(section, 1, end - 1)

(* runpaths: the paths of the first DT_RUNPATH; there is nowhere to read   *)
(* them from without a table of strings.                                   *)
Runpaths(section) ==
  LET entries == Entries(section)
      at == SelectInSeq(entries, LAMBDA e : e.tag = "DT_RUNPATH")
  IN  IF at # 0 /\ \E n \in DOMAIN entries : entries[n].tag = "DT_STRTAB"
      THEN entries[at].paths ELSE << >>

(* What is between the dollars. *)
Split(path) ==
  FoldLeft(LAMBDA parts, x : IF x = "$" THEN Append(parts, << >>)
                             ELSE [parts EXCEPT ![Len(parts)] = Append(@, x)],
           <<<< >>>>, path)

(* The name at the start of a part, in brackets or up to the next sign,    *)
(* and what comes after it.                                                *)
NameOf(part) ==
  LET braced == part[1] = "{"
      s == IF braced THEN Tail(part) ELSE part
      end == SelectInSeq(s, LAMBDA x : IF braced THEN x = "}" ELSE x \in Signs)
  IN  IF end = 0 THEN [var |-> s, rest |-> << >>]
      ELSE [var |-> SubSeq(s, 1, end - 1),
            rest |-> SubSeq(s, IF braced THEN end + 1 ELSE end, Len(s))]

(* expand_dynamic_tokens: an unknown name stays; nothing after a dollar    *)
(* stops the path there.                                                   *)
ExpandDynamicTokens(tokens, path) ==
  LET parts == Split(path)
      expand(acc, part) ==
        LET n == NameOf(part)
        IN  IF acc.stopped \/ part = << >> THEN [acc EXCEPT !.stopped = TRUE]
            ELSE IF Len(n.var) = 1 /\ n.var[1] \in DOMAIN tokens
            THEN [acc EXCEPT !.out = @ \o tokens[n.var[1]] \o n.rest]
            ELSE [acc EXCEPT !.out = @ \o <<"$">> \o part]
  IN  FoldLeft(expand, [out |-> parts[1], stopped |-> FALSE], Tail(parts)).out

(* dylib_search_paths: LD_LIBRARY_PATH first. *)
DylibSearchPaths(tokens, library_path, section) ==
  LET paths == library_path \o Runpaths(section)
  IN  [n \in DOMAIN paths |-> ExpandDynamicTokens(tokens, paths[n])]

(* context_metadata: the executable, then the libraries in the directories *)
(* that can be read, each once, in the order of their paths; links and the *)
(* libraries of other toolchains are passed over.                          *)
Files(exe, paths, dirs, libs) ==
  LET read == {dirs[paths[n]] : n \in {m \in DOMAIN paths : paths[m] \in DOMAIN dirs}}
      taken(l) == l.dir \in read /\ l.is_file /\ l.dll /\ ~l.rustup
  IN  <<exe>> \o SelectSeq(libs, taken)

-----------------------------------------------------------------------------
(* A path as it is meant: pieces, and variables written with or without    *)
(* brackets; what is written, and what the dynamic linker takes it for.    *)
Written(meant) ==
  FlattenSeq([n \in DOMAIN meant |->
    CASE meant[n].var = "" -> <<meant[n].name>>
      [] meant[n].var = "plain" -> <<"$", meant[n].name>>
      [] OTHER -> <<"$", "{", meant[n].name, "}">>])

Means(tokens, meant) ==
  FlattenSeq([n \in DOMAIN meant |->
    IF meant[n].var # "" /\ meant[n].name \in DOMAIN tokens THEN tokens[meant[n].name]
    ELSE Written(<<meant[n]>>)])
=============================================================================
