----------------------------- MODULE OsfsExtent -----------------------------
(***************************************************************************)
(* The extent table of an osfs file (lab4/file.c): the sequence of runs    *)
(* [start, len] of physical blocks stored in the file's first block.       *)
(* A table is a sequence; hdr->count is its length.                        *)
(***************************************************************************)
EXTENDS Naturals, Sequences, FiniteSets

(* One struct osfs_extent. *)
Extent == [start : Nat, len : Nat]

(* The physical blocks of one extent, and of a whole table. *)
Run(e) == e.start .. (e.start + e.len - 1)
ExtentBlocks(exts) == UNION {Run(exts[i]) : i \in DOMAIN exts}

(* The places of a table: offset off in extent i, one for each mapped block. *)
Slots(exts) == UNION {{i} \X (0 .. (exts[i].len - 1)) : i \in DOMAIN exts}

(* osfs_extent_total_blocks: the sum of the lengths counts the places. *)
osfs_extent_total_blocks(exts) == Cardinality(Slots(exts))

(* The sum of the lengths of the extents before extent i. *)
BlocksBefore(exts, i) == Cardinality({s \in Slots(exts) : s[1] < i})

(***************************************************************************)
(* osfs_extent_lookup_block: the loop subtracts the lengths of the extents *)
(* it passes and stops at the extent that what is left of idx falls into.  *)
(* The result is the set of physical blocks that idx maps to; -ENOENT is   *)
(* the empty set.                                                          *)
(***************************************************************************)
osfs_extent_lookup_block(exts, idx) ==
  {exts[i].start + (idx - BlocksBefore(exts, i)) :
     i \in {j \in DOMAIN exts :
              BlocksBefore(exts, j) <= idx /\ idx < BlocksBefore(exts, j) + exts[j].len}}

(* Whether osfs_extent_append_block may grow the last extent by this block. *)
CanMerge(exts, block) ==
  /\ Len(exts) > 0
  /\ exts[Len(exts)].start + exts[Len(exts)].len = block

(* Mutant: the last extent grows and a new one is added as well. *)
osfs_extent_append_NoElse(exts, block) ==
  IF CanMerge(exts, block)
  THEN Append([exts EXCEPT ![Len(exts)].len = @ + 1], [start |-> block, len |-> 1])
  ELSE Append(exts, [start |-> block, len |-> 1])

(* osfs_extent_append_block on the table: grow the last extent or add one. *)
osfs_extent_append(exts, block) ==
  IF CanMerge(exts, block)
  THEN [exts EXCEPT ![Len(exts)].len = @ + 1]
  ELSE Append(exts, [start |-> block, len |-> 1])
=============================================================================
