---------------------------- MODULE CrateMetadata ----------------------------
(***************************************************************************)
(* How the runtime finds the Rust metadata of the running program and      *)
(* gives every crate a number (runtime-core/src/metadata.rs).              *)
(*                                                                         *)
(* A file is the executable ("Mapped") or a library in the search paths;   *)
(* its metadata section holds the blobs of several crates, one of which    *)
(* owns the file.  A crate is its CrateNameHash: two blobs of one crate    *)
(* have the same contents.                                                 *)
(***************************************************************************)
EXTENDS Integers, Sequences, FiniteSets, SequencesExt, TLC

(* Metadata::new of a file: what it answers.  A blob whose header is not   *)
(* there or whose contents do not inflate is not intact; in an ELF file    *)
(* the owner is the symbol at zero, and there must be one.                 *)
ReadFile(f) ==
  IF ~f.section THEN "SectionMissing"
  ELSE IF \E i \in DOMAIN f.blobs : ~f.blobs[i].intact THEN "Header"
  ELSE IF f.owner \notin DOMAIN f.blobs THEN "panic"
  ELSE "ok"

Owner(f) == f.blobs[f.owner].crate
BlobsOf(f) == {f.blobs[i].crate : i \in DOMAIN f.blobs}

(* A file without a section is no Rust library; any other failure is the   *)
(* failure of all.                                                         *)
Answers(files) == {ReadFile(files[i]) : i \in DOMAIN files} \ {"SectionMissing", "ok"}

(* context_metadata: the first file of each owner, the executable first.   *)
Objects(files) ==
  LET keep(kept, f) ==
        IF ReadFile(f) = "ok" /\ \A i \in DOMAIN kept : Owner(kept[i]) # Owner(f)
        THEN Append(kept, f) ELSE kept
  IN  FoldLeft(keep, << >>, files)

-----------------------------------------------------------------------------
(* CrateMetadataLoader::build.  The files of compiler plugins are passed   *)
(* over; of several blobs of a crate the first is taken.                   *)
Scanned(objects, plugins) == SelectSeq(objects, LAMBDA o : Owner(o) \notin plugins)

(* A bug: the last blob of a crate is taken. *)
Mutant_NameToBlob(objects, plugins) ==
  LET scanned == Scanned(objects, plugins)
      names == UNION {BlobsOf(scanned[i]) : i \in DOMAIN scanned}
  IN  [c \in names |->
         scanned[CHOOSE i \in DOMAIN scanned :
                   /\ c \in BlobsOf(scanned[i])
                   /\ \A j \in DOMAIN scanned : j > i => c \notin BlobsOf(scanned[j])]]

NameToBlob(objects, plugins) ==
  LET scanned == Scanned(objects, plugins)
      names == UNION {BlobsOf(scanned[i]) : i \in DOMAIN scanned}
  IN  [c \in names |-> scanned[SelectInSeq(scanned, LAMBDA o : c \in BlobsOf(o))]]

(* The crates whose blob is in the executable. *)
RequiredNames(blobs) == {c \in DOMAIN blobs : blobs[c].src = "Mapped"}

-----------------------------------------------------------------------------
(* What a loader has built: the numbers it gave, the crates that are       *)
(* ready, each with its map from the numbers of its own dependencies, and  *)
(* whether a crate was missing.  alloc_new_crate_num counts from one.      *)
Built0 == [nums |-> << >>, out |-> << >>, failed |-> FALSE]

NextCnum(b) == Cardinality(DOMAIN b.nums) + 1

(* process_crate_metadata of a crate that has no number. *)
Numbered(b, c) == [b EXCEPT !.nums = @ @@ (c :> NextCnum(b))]

(* build_impl: a crate is numbered, then the dependencies that have no     *)
(* number are built, then the crate is ready.  A dependency for macros     *)
(* only keeps its place in the map with the number of the crate itself.    *)
RECURSIVE BuildImpl(_, _, _, _)
BuildImpl(blobs, deps, b, c) ==
  IF c \notin DOMAIN blobs THEN [b EXCEPT !.failed = TRUE]
  ELSE IF c \in DOMAIN b.nums THEN b
  ELSE
    LET mapped(acc, num) == [acc EXCEPT !.map = Append(@, num)]
        dep(acc, d) ==
          CASE acc.b.failed -> acc
            [] ~acc.b.failed /\ d.macros -> mapped(acc, acc.b.nums[c])
            [] OTHER ->
                 LET built == BuildImpl(blobs, deps, acc.b, d.crate)
                 IN  IF built.failed THEN [acc EXCEPT !.b = built]
                     ELSE mapped([acc EXCEPT !.b = built], built.nums[d.crate])
        first == [b |-> Numbered(b, c), map |-> <<NextCnum(b)>>]
        all == FoldLeft(dep, first, deps[c])
    IN  IF all.b.failed THEN all.b
        ELSE [all.b EXCEPT !.out = Append(@, [crate |-> c, cnum |-> all.b.nums[c],
                                              cnum_map |-> all.map])]
=============================================================================
