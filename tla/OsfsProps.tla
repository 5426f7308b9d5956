------------------------------ MODULE OsfsProps ------------------------------
(***************************************************************************)
(* What must hold of the file system of module Osfs.                       *)
(***************************************************************************)
EXTENDS Osfs

(* Type of every variable. *)
DirEntry == [filename : Names, inode_no : Inodes]
BlockType == [kind : {"raw", "ext", "dir"}, bytes : [Offsets -> Bytes],
              exts : Seq(Extent), entries : Seq(DirEntry)]
InodeType == [i_mode : {"none", "dir", "reg"}, i_size : Nat, i_blocks : Nat, i_block : Blocks]
PCs == {"idle", "new_inode", "map", "copy", "read"}
Codes == {"none", "ok", "ENAMETOOLONG", "ENOSPC", "ENOMEM", "EEXIST", "EINVAL",
          "EFAULT", "EIO", "ENOENT", "EOPNOTSUPP"}
CallType == [pc : PCs, name : Names \cup {""}, ino : Inodes \cup {0}, via : DentryKinds, pos : Nat, rem : Nat,
             done : Nat, total : Nat, phys : Blocks, val : Bytes]

(* TypeOK: every variable of the mounted file system has its C type. *)
TypeOK ==
  /\ inode_bitmap \in SUBSET Inodes
  /\ block_bitmap \in SUBSET Blocks
  /\ nr_free_inodes \in 0 .. (U32 - 1)
  /\ nr_free_blocks \in 0 .. (U32 - 1)
  /\ inode_table \in [Inodes -> InodeType]
  /\ data_blocks \in [Blocks -> BlockType]
  /\ vinode \in [VfsInodes -> [i_size : Nat, i_blocks : Nat]]
  /\ dcache \in [Names -> Inodes \cup {0}]
  /\ call \in [Procs -> CallType]
  /\ ret \in Codes

(***************************************************************************)
(* TypeInv: TypeOK with what its induction needs: a call in progress works *)
(* on an inode, and no extent runs past the last block.                    *)
(***************************************************************************)
CallsTyped ==
  \A p \in Procs : call[p].pc # "idle" =>
    call[p].ino \in Inodes /\ (call[p].pc = "new_inode" => call[p].name \in Names)
RunsOnDisk == \A b \in Blocks : ExtentBlocks(data_blocks[b].exts) \subseteq Blocks
TypeInv == TypeOK /\ CallsTyped /\ RunsOnDisk

-----------------------------------------------------------------------------
(* The blocks of the root directory, of a file, and the files there are. *)
RootBlocks == IF root.i_blocks = 0 THEN {} ELSE {root.i_block}
Owned(f) == {inode_table[f].i_block} \cup ExtentBlocks(Table(f))
LiveFiles == {Dir[i].inode_no : i \in DOMAIN Dir}

(***************************************************************************)
(* FilesDisjoint: no block belongs to two files or to a file and the root  *)
(* directory, and no file owns block 0 (osfs_extent_ensure_table and       *)
(* osfs_extent_do_read take i_block = 0 for "no block").                   *)
(***************************************************************************)
FilesDisjoint ==
  /\ \A f \in LiveFiles : Owned(f) \cap RootBlocks = {} /\ 0 \notin Owned(f)
  /\ \A f, g \in LiveFiles : f # g => Owned(f) \cap Owned(g) = {}

(***************************************************************************)
(* ExtentsDisjoint: inside a file, the table's own block and the runs of   *)
(* its extents do not overlap, so no logical block shares its bytes with   *)
(* another one or with the table (osfs_extent_append_block).               *)
(***************************************************************************)
ExtentsDisjoint ==
  \A f \in LiveFiles :
    LET exts == Table(f) IN
    /\ inode_table[f].i_block \notin ExtentBlocks(exts)
    /\ \A i, j \in DOMAIN exts : i # j =>
         ExtentBlocks(<<exts[i]>>) \cap ExtentBlocks(<<exts[j]>>) = {}

(***************************************************************************)
(* BlocksAccounted: a block is marked in the bitmap exactly when the root  *)
(* or a file owns it, so no call leaks a block on an error path, and       *)
(* nr_free_blocks, which osfs_new_inode trusts, counts the clear bits.     *)
(***************************************************************************)
BlocksAccounted ==
  /\ block_bitmap = RootBlocks \cup UNION {Owned(f) : f \in LiveFiles}
  /\ nr_free_blocks = DATA_BLOCK_COUNT - Cardinality(block_bitmap)

(***************************************************************************)
(* InodesAccounted: an inode number in a directory entry or held by a      *)
(* create in progress is marked, no two entries share it, and              *)
(* nr_free_inodes counts the clear bits (inode 0 among them) although it   *)
(* is decremented twice and incremented in three places.                   *)
(***************************************************************************)
InodesAccounted ==
  /\ nr_free_inodes = INODE_COUNT - Cardinality(inode_bitmap)
  /\ LiveFiles \cup {ROOT_INODE} \subseteq inode_bitmap
  /\ ROOT_INODE \notin LiveFiles
  /\ Cardinality(LiveFiles) = Len(Dir)
  /\ \A p \in Procs : call[p].pc = "new_inode" =>
       call[p].ino \in inode_bitmap \ (LiveFiles \cup {ROOT_INODE})

(***************************************************************************)
(* DentriesPinned: every directory entry has one pinned dentry, for the    *)
(* inode of the entry, and there is no other: osfs_create undoes what it   *)
(* did for a name it refuses.  Whatever dentries are hashed and evicted    *)
(* meanwhile, a VFS inode belongs to a file that has an entry, so that its *)
(* i_private is not the osfs_inode of a number that is free again.         *)
(***************************************************************************)
DentriesPinned ==
  /\ \A n \in Names :
       {Dir[i].inode_no : i \in {j \in DOMAIN Dir : Dir[j].filename = n}} = {dcache[n]} \ {0}
  /\ \A v \in VfsInodes : vinode[v].i_blocks # 0 => v[1] \in LiveFiles \cup {ROOT_INODE}
  /\ \A p \in Procs : call[p].pc \in {"map", "copy", "read"} => call[p].via \in OpenVia(call[p].ino)

(***************************************************************************)
(* BlockCountsRight: i_blocks of a file is the table's block plus what the *)
(* extents map, although create, ensure_table and append_block update it,  *)
(* and no VFS inode counts more: stat reports too few at most.             *)
(***************************************************************************)
BlockCountsRight ==
  \A f \in LiveFiles :
    /\ inode_table[f].i_blocks = 1 + osfs_extent_total_blocks(Table(f))
    /\ \A via \in DentryKinds : vinode[<<f, via>>].i_blocks <= inode_table[f].i_blocks
    /\ Len(Table(f)) <= OSFS_MAX_EXTENTS

(***************************************************************************)
(* SizeMapped: every byte below i_size lies in a mapped block, so a read   *)
(* of it finds its block.  It holds when no write has length 0.            *)
(***************************************************************************)
SizeMapped ==
  \A f \in LiveFiles :
    inode_table[f].i_size <= BLOCK_SIZE * osfs_extent_total_blocks(Table(f))

(***************************************************************************)
(* HeldBlockValid: the physical block a writer computed before             *)
(* copy_from_user slept is still the one its logical block maps to when    *)
(* the copy runs, whatever other calls did meanwhile.                      *)
(***************************************************************************)
HeldBlockValid ==
  \A p \in Procs : call[p].pc = "copy" =>
    /\ call[p].ino \in LiveFiles
    /\ osfs_extent_lookup_block(Table(call[p].ino), LogicalBlock(call[p])) = {call[p].phys}

(***************************************************************************)
(* FsInv: what the properties above rest on, the inductive invariant of    *)
(* the file system.  RootInv: the root directory gets block 0 and has no   *)
(* entry before.  TablesInv: only a used block holds extents, and its      *)
(* magic is set.  CallsInv: what a call in progress knows is still so: a   *)
(* create's number and name are its own and no other create runs; a        *)
(* writer's count of mapped blocks (osfs_extent_ensure_block) is at most   *)
(* behind the table.                                                       *)
(***************************************************************************)
RootInv == root.i_block = 0 /\ (RootNeedsBlock => root.i_size = 0)
TablesInv ==
  \A b \in Blocks : \/ data_blocks[b].exts = << >>
                    \/ data_blocks[b].kind = "ext" /\ b \in block_bitmap
CreateOK(p) ==
  LET c == call[p] IN
  c.pc = "new_inode" =>
    /\ c.ino \in inode_bitmap \ (LiveFiles \cup {ROOT_INODE})
    /\ dcache[c.name] = 0 /\ ~RootNeedsBlock
FileCallOK(p) ==
  LET c == call[p] IN
  /\ c.pc \in {"map", "copy", "read"} => c.ino \in LiveFiles /\ c.via \in OpenVia(c.ino)
  /\ c.pc \in {"map", "copy"} => c.total <= osfs_extent_total_blocks(Table(c.ino))
  /\ c.pc = "copy" => osfs_extent_lookup_block(Table(c.ino), LogicalBlock(c)) = {c.phys}
CallsInv ==
  /\ \A p \in Procs : CreateOK(p) /\ FileCallOK(p)
  /\ \A p, q \in Procs : call[p].pc = "new_inode" /\ call[q].pc = "new_inode" => p = q
FsInv ==
  /\ RootInv /\ TablesInv /\ CallsInv
  /\ FilesDisjoint /\ ExtentsDisjoint /\ BlocksAccounted /\ BlockCountsRight
  /\ InodesAccounted /\ DentriesPinned /\ HeldBlockValid

(***************************************************************************)
(* NoInternalError: no call ends in the errors that mean a broken table:   *)
(* -EIO of a read whose block is not mapped, -ENOENT of the second lookup  *)
(* of a write, -EOPNOTSUPP that would fall back to the one-block code of   *)
(* osfs_read, -EEXIST of osfs_add_dir_entry for a name just found absent.  *)
(***************************************************************************)
NoInternalError == ret \notin {"EIO", "ENOENT", "EOPNOTSUPP", "EEXIST"}

(***************************************************************************)
(* SizesInv: what the last two properties rest on, besides FsInv, when no  *)
(* write has length 0: what a read in progress still has to copy was       *)
(* below i_size when it began, and its blocks stay mapped.                 *)
(***************************************************************************)
ReadsMapped ==
  \A p \in Procs : call[p].pc = "read" =>
    /\ call[p].rem > 0
    /\ call[p].pos + call[p].rem <= BLOCK_SIZE * osfs_extent_total_blocks(Table(call[p].ino))
SizesInv == SizeMapped /\ ReadsMapped /\ NoInternalError

(***************************************************************************)
(* MappingStable: a step never remaps a logical block that is mapped, nor  *)
(* unmaps it: tables only grow at their end.                               *)
(***************************************************************************)
MappingGrows ==
  \A f \in LiveFiles :
    LET exts == Table(f)
        new == Table(f)'
    IN  exts # new =>
          \A idx \in 0 .. (osfs_extent_total_blocks(exts) - 1) :
            osfs_extent_lookup_block(new, idx) = osfs_extent_lookup_block(exts, idx)
MappingStable == [][MappingGrows]_vars

(***************************************************************************)
(* CallsReturn: a handler that has started returns, whatever other calls   *)
(* do to the tables it walks.                                              *)
(***************************************************************************)
CallsReturn == \A p \in Procs : call[p].pc # "idle" ~> call[p].pc = "idle"

-----------------------------------------------------------------------------
(* Statements of the repository's comments that the code does not meet.    *)

(* osfs.h: i_size is the "File size in bytes": a VFS inode, which stat()   *)
(* reports, and the osfs inode, which osfs_read uses, agree.               *)
SizesAgree ==
  \A f \in LiveFiles : \A via \in OpenVia(f) : vinode[<<f, via>>].i_size = inode_table[f].i_size

(* The comment of osfs_read lists its results: a byte count, 0 at the end  *)
(* of the file, or -EFAULT.                                                *)
ReadResults == ret # "EIO"
=============================================================================
