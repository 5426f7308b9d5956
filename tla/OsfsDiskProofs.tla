--------------------------- MODULE OsfsDiskProofs ---------------------------
(***************************************************************************)
(* What a mounted osfs keeps true of its blocks, inode numbers, dentries   *)
(* and calls in progress, for any number of processes, names, inodes,      *)
(* blocks and extents.                                                     *)
(*                                                                         *)
(* FsInv is inductive together with TypeInv.  Most steps change nothing    *)
(* that it speaks of but the call of one process: they are Quiet, and one  *)
(* lemma serves them all.  The others are the root directory's first       *)
(* block, the three ends of a create that took an inode number, a block    *)
(* appended to a file, and the lookup and eviction of a VFS inode.         *)
(***************************************************************************)
EXTENDS OsfsProofs

(* The parts of FsInv, by what they speak of. *)
TableCounts ==
  \A f \in LiveFiles :
    /\ inode_table[f].i_blocks = 1 + osfs_extent_total_blocks(Table(f))
    /\ Len(Table(f)) <= OSFS_MAX_EXTENTS
DiskPart ==
  RootInv /\ TablesInv /\ FilesDisjoint /\ ExtentsDisjoint /\ BlocksAccounted /\ TableCounts
NamesPart ==
  /\ nr_free_inodes = INODE_COUNT - Cardinality(inode_bitmap)
  /\ LiveFiles \cup {ROOT_INODE} \subseteq inode_bitmap
  /\ ROOT_INODE \notin LiveFiles
  /\ Cardinality(LiveFiles) = Len(Dir)
  /\ \A n \in Names :
       {Dir[i].inode_no : i \in {j \in DOMAIN Dir : Dir[j].filename = n}} = {dcache[n]} \ {0}
VfsPart ==
  /\ \A v \in VfsInodes : vinode[v].i_blocks # 0 => v[1] \in LiveFiles \cup {ROOT_INODE}
  /\ \A f \in LiveFiles, via \in DentryKinds :
       vinode[<<f, via>>].i_blocks <= inode_table[f].i_blocks
CallsPart ==
  /\ \A p \in Procs : CreateOK(p) /\ FileCallOK(p)
  /\ \A p, q \in Procs : call[p].pc = "new_inode" /\ call[q].pc = "new_inode" => p = q

LEMMA FsInvParts == FsInv <=> DiskPart /\ NamesPart /\ VfsPart /\ CallsPart
<1>1. FsInv => DiskPart /\ NamesPart /\ VfsPart /\ CallsPart
  BY DEF FsInv, DiskPart, NamesPart, VfsPart, CallsPart, TableCounts, BlockCountsRight,
         InodesAccounted, DentriesPinned, CallsInv
<1>2. ASSUME DiskPart, NamesPart, VfsPart, CallsPart PROVE FsInv
  <2>1. BlockCountsRight
    BY <1>2 DEF DiskPart, VfsPart, TableCounts, BlockCountsRight
  <2>2. InodesAccounted
    BY <1>2 DEF NamesPart, CallsPart, CreateOK, InodesAccounted
  <2>3. DentriesPinned
    BY <1>2 DEF NamesPart, VfsPart, CallsPart, FileCallOK, DentriesPinned
  <2>4. HeldBlockValid
    BY <1>2 DEF CallsPart, FileCallOK, HeldBlockValid
  <2> QED
    BY <1>2, <2>1, <2>2, <2>3, <2>4 DEF FsInv, DiskPart, CallsPart, CallsInv
<1> QED
  BY <1>1, <1>2

(* The parts after a step make up FsInv after it.                          *)
LEMMA FsInvNext == DiskPart' /\ NamesPart' /\ VfsPart' /\ CallsPart' => FsInv'
BY FsInvParts, PTL

-----------------------------------------------------------------------------
(* A bitmap has as many clear bits as its counter says.                    *)
LEMMA BitmapsFinite ==
  ASSUME TypeInv
  PROVE  /\ IsFiniteSet(Blocks) /\ Cardinality(Blocks) = DATA_BLOCK_COUNT
         /\ IsFiniteSet(block_bitmap) /\ IsFiniteSet(inode_bitmap)
         /\ Cardinality(block_bitmap) \in 0 .. DATA_BLOCK_COUNT
         /\ Cardinality(inode_bitmap) \in 0 .. (INODE_COUNT - 1)
<1>1. DATA_BLOCK_COUNT \in Nat \ {0} /\ INODE_COUNT \in Nat \ {0}
  BY SizesAssumption DEF ROOT_INODE
<1>2. IsFiniteSet(Blocks) /\ Cardinality(Blocks) = DATA_BLOCK_COUNT
  <2>1. DATA_BLOCK_COUNT - 1 \in Int /\ 0 \in Int
    BY <1>1
  <2>2. (IF 0 > DATA_BLOCK_COUNT - 1 THEN 0 ELSE (DATA_BLOCK_COUNT - 1) - 0 + 1) = DATA_BLOCK_COUNT
    BY <1>1
  <2> QED
    BY <2>1, <2>2, FS_Interval DEF Blocks
<1>3. IsFiniteSet(Inodes) /\ Cardinality(Inodes) = INODE_COUNT - 1
  <2>1. INODE_COUNT - 1 \in Int /\ 1 \in Int
    BY <1>1
  <2>2. (IF 1 > INODE_COUNT - 1 THEN 0 ELSE (INODE_COUNT - 1) - 1 + 1) = INODE_COUNT - 1
    BY <1>1
  <2> QED
    BY <2>1, <2>2, FS_Interval DEF Inodes
<1>4. block_bitmap \in SUBSET Blocks /\ inode_bitmap \in SUBSET Inodes
  BY DEF TypeInv, TypeOK
<1>5. /\ IsFiniteSet(block_bitmap) /\ Cardinality(block_bitmap) <= DATA_BLOCK_COUNT
      /\ IsFiniteSet(inode_bitmap) /\ Cardinality(inode_bitmap) <= INODE_COUNT - 1
  BY <1>2, <1>3, <1>4, FS_Subset
<1>6. Cardinality(block_bitmap) \in Nat /\ Cardinality(inode_bitmap) \in Nat
  BY <1>5, FS_CardinalityType
<1> QED
  BY <1>1, <1>2, <1>5, <1>6

(* The counter of free blocks when a clear bit of the bitmap is set.       *)
LEMMA TakeBlock ==
  ASSUME TypeInv, NEW b \in Blocks \ block_bitmap,
         nr_free_blocks = DATA_BLOCK_COUNT - Cardinality(block_bitmap)
  PROVE  /\ Dec(nr_free_blocks) = DATA_BLOCK_COUNT - Cardinality(block_bitmap \cup {b})
         /\ nr_free_blocks # 0
<1>1. Cardinality(block_bitmap \cup {b}) = Cardinality(block_bitmap) + 1
  BY BitmapsFinite, FS_AddElement
<1>2. block_bitmap \cup {b} \in SUBSET Blocks
  BY DEF TypeInv, TypeOK
<1>3. Cardinality(block_bitmap \cup {b}) <= DATA_BLOCK_COUNT
  BY <1>2, BitmapsFinite, FS_Subset
<1>4. DATA_BLOCK_COUNT \in Nat /\ Cardinality(block_bitmap) \in Nat
  BY BitmapsFinite, SizesAssumption
<1> QED
  BY <1>1, <1>3, <1>4 DEF Dec

(* The counter of free inodes when a number is taken, and when it is given *)
(* back.  Osfs_create decrements it once more and undoes that.             *)
LEMMA TakeInode ==
  ASSUME TypeInv, NEW i \in Inodes \ inode_bitmap, nr_free_inodes # 0,
         nr_free_inodes = INODE_COUNT - Cardinality(inode_bitmap)
  PROVE  Dec(nr_free_inodes) = INODE_COUNT - Cardinality(inode_bitmap \cup {i})
<1>1. Cardinality(inode_bitmap \cup {i}) = Cardinality(inode_bitmap) + 1
  BY BitmapsFinite, FS_AddElement
<1>2. INODE_COUNT \in Nat /\ Cardinality(inode_bitmap) \in Nat
  BY BitmapsFinite, SizesAssumption
<1> QED
  BY <1>1, <1>2 DEF Dec

LEMMA IncDec ==
  ASSUME NEW n \in 0 .. (U32 - 1)
  PROVE  Inc(Dec(n)) = n
<1>1. U32 \in Nat /\ U32 > 1
  BY SizesAssumption DEF ROOT_INODE
<1> QED
  BY <1>1 DEF Inc, Dec

LEMMA GiveInodeBack ==
  ASSUME TypeInv, NEW i \in inode_bitmap,
         nr_free_inodes = INODE_COUNT - Cardinality(inode_bitmap)
  PROVE  Inc(Inc(Dec(nr_free_inodes))) = INODE_COUNT - Cardinality(inode_bitmap \ {i})
<1>1. Cardinality(inode_bitmap \ {i}) = Cardinality(inode_bitmap) - 1
  BY BitmapsFinite, FS_RemoveElement
<1>2. Cardinality(inode_bitmap \ {i}) \in Nat
  BY BitmapsFinite, FS_RemoveElement, FS_CardinalityType
<1>3. INODE_COUNT \in Nat /\ U32 \in Nat /\ U32 > INODE_COUNT /\ Cardinality(inode_bitmap) \in Nat
  BY BitmapsFinite, SizesAssumption
<1>4. nr_free_inodes < U32 - 1
  BY <1>1, <1>2, <1>3
<1>5. Inc(nr_free_inodes) = nr_free_inodes + 1
  BY <1>4 DEF Inc
<1>6. Inc(Dec(nr_free_inodes)) = nr_free_inodes
  BY IncDec DEF TypeInv, TypeOK
<1> QED
  BY <1>1, <1>3, <1>5, <1>6

-----------------------------------------------------------------------------
(* What FsInv says of one file.                                            *)
LEMMA LiveFile ==
  ASSUME TypeInv, FsInv, NEW f \in LiveFiles
  PROVE  /\ f \in Inodes /\ f # ROOT_INODE /\ f \in inode_bitmap
         /\ inode_table[f] \in InodeType
         /\ inode_table[f].i_block \in block_bitmap \ {0}
         /\ inode_table[f].i_block \in Blocks
         /\ ~NeedsTable(f)
         /\ Table(f) \in Seq(Extent)
         /\ osfs_extent_total_blocks(Table(f)) \in Nat
         /\ ExtentBlocks(Table(f)) \subseteq block_bitmap \ {0}
         /\ inode_table[f].i_block \notin ExtentBlocks(Table(f))
         /\ FormattedTable(inode_table[f].i_block) = Table(f)
<1> USE DEF FsInv
<1>1. f \in inode_bitmap /\ f # ROOT_INODE
  BY DEF InodesAccounted
<1>2. f \in Inodes
  BY <1>1 DEF TypeInv, TypeOK
<1>3. inode_table[f] \in InodeType /\ Table(f) \in Seq(Extent)
  BY <1>2, TableType
<1>4. inode_table[f].i_block \in Blocks
  BY <1>3 DEF InodeType
<1>5. Owned(f) \subseteq block_bitmap /\ 0 \notin Owned(f)
  BY DEF BlocksAccounted, FilesDisjoint
<1>6. /\ inode_table[f].i_block \in block_bitmap \ {0}
      /\ ExtentBlocks(Table(f)) \subseteq block_bitmap \ {0}
  BY <1>5 DEF Owned
<1>7. osfs_extent_total_blocks(Table(f)) \in Nat
  BY <1>3, TotalIsNat
<1>8. inode_table[f].i_blocks = 1 + osfs_extent_total_blocks(Table(f))
  BY DEF BlockCountsRight
<1>9. ~NeedsTable(f)
  BY <1>6, <1>7, <1>8 DEF NeedsTable
<1>10. FormattedTable(inode_table[f].i_block) = Table(f)
  <2>1. Len(Table(f)) <= OSFS_MAX_EXTENTS
    BY DEF BlockCountsRight
  <2>2. \/ Table(f) = << >>
        \/ data_blocks[inode_table[f].i_block].kind = "ext"
    BY <1>4 DEF TablesInv, Table
  <2> QED
    BY <2>1, <2>2 DEF FormattedTable, Table
<1>11. inode_table[f].i_block \notin ExtentBlocks(Table(f))
  BY DEF ExtentsDisjoint
<1> QED
  BY <1>1, <1>2, <1>3, <1>4, <1>6, <1>7, <1>9, <1>10, <1>11

(* A file that can be opened has an entry.                                 *)
LEMMA OpenIsLive ==
  ASSUME TypeInv, FsInv
  PROVE  OpenFiles \subseteq LiveFiles
<1> SUFFICES ASSUME NEW n \in Names, dcache[n] # 0
             PROVE  dcache[n] \in LiveFiles
  BY DEF OpenFiles
<1>1. {Dir[i].inode_no : i \in {j \in DOMAIN Dir : Dir[j].filename = n}} = {dcache[n]} \ {0}
  BY DEF FsInv, DentriesPinned
<1>2. PICK i \in DOMAIN Dir : Dir[i].inode_no = dcache[n]
  BY <1>1
<1> QED
  BY <1>2 DEF LiveFiles

(* A block that no file uses as its table, seen from any live file.        *)
LEMMA OtherBlocks ==
  ASSUME TypeInv, FsInv, NEW f \in LiveFiles, NEW g \in LiveFiles,
         NEW b \in ExtentBlocks(Table(f))
  PROVE  inode_table[g].i_block # b
<1>1. CASE f = g
  BY <1>1, LiveFile
<1>2. CASE f # g
  <2>1. Owned(f) \cap Owned(g) = {}
    BY <1>2 DEF FsInv, FilesDisjoint
  <2> QED
    BY <2>1 DEF Owned
<1> QED
  BY <1>1, <1>2

-----------------------------------------------------------------------------
(* The entries, the tables and the blocks of files, and the bitmap, stay.  *)
SameFiles ==
  /\ Dir' = Dir
  /\ inode_table'[ROOT_INODE] = inode_table[ROOT_INODE]
  /\ \A f \in LiveFiles :
       /\ inode_table'[f].i_block = inode_table[f].i_block
       /\ inode_table'[f].i_blocks = inode_table[f].i_blocks
       /\ Table(f)' = Table(f)
  /\ UNCHANGED blockVars
  /\ TablesInv'

LEMMA SameDisk ==
  ASSUME TypeInv, FsInv, SameFiles
  PROVE  DiskPart' /\ LiveFiles' = LiveFiles /\ (RootNeedsBlock' <=> RootNeedsBlock)
<1> USE DEF SameFiles
<1>1. DiskPart
  BY FsInvParts
<1>2. LiveFiles' = LiveFiles
  BY DEF LiveFiles
<1>3. root' = root /\ RootBlocks' = RootBlocks /\ (RootNeedsBlock' <=> RootNeedsBlock)
  BY DEF root, RootBlocks, RootNeedsBlock
<1>4. \A f \in LiveFiles : Owned(f)' = Owned(f)
  BY DEF Owned
<1>5. RootInv'
  BY <1>1, <1>3 DEF DiskPart, RootInv
<1>6. FilesDisjoint'
  BY <1>1, <1>2, <1>3, <1>4 DEF DiskPart, FilesDisjoint
<1>7. ExtentsDisjoint'
  BY <1>1, <1>2 DEF DiskPart, ExtentsDisjoint
<1>8. BlocksAccounted'
  <2>1. UNION {Owned(f)' : f \in LiveFiles} = UNION {Owned(f) : f \in LiveFiles}
    BY <1>4
  <2> QED
    BY <1>1, <1>2, <1>3, <2>1 DEF DiskPart, BlocksAccounted, blockVars
<1>9. TableCounts'
  BY <1>1, <1>2 DEF DiskPart, TableCounts
<1> QED
  BY <1>2, <1>3, <1>5, <1>6, <1>7, <1>8, <1>9 DEF DiskPart

(* Steps that change no file and neither names, numbers nor the block      *)
(* counts of VFS inodes.                                                   *)
Quiet ==
  /\ SameFiles
  /\ UNCHANGED <<inodeVars, dcache>>
  /\ \A v \in VfsInodes : vinode'[v].i_blocks = vinode[v].i_blocks

LEMMA SameNames ==
  ASSUME TypeInv, FsInv, SameFiles, UNCHANGED <<inodeVars, dcache>>
  PROVE  NamesPart'
<1>1. NamesPart /\ Dir' = Dir /\ LiveFiles' = LiveFiles
  BY FsInvParts, SameDisk DEF SameFiles
<1> QED
  BY <1>1 DEF NamesPart, inodeVars

LEMMA QuietKeeps ==
  ASSUME TypeInv, FsInv, Quiet
  PROVE  /\ DiskPart' /\ NamesPart' /\ VfsPart'
         /\ LiveFiles' = LiveFiles /\ (RootNeedsBlock' <=> RootNeedsBlock)
         /\ \A f \in LiveFiles : Table(f)' = Table(f) /\ OpenVia(f)' = OpenVia(f)
<1>1. SameFiles /\ UNCHANGED <<inodeVars, dcache>>
  BY DEF Quiet
<1>2. DiskPart' /\ NamesPart' /\ LiveFiles' = LiveFiles /\ (RootNeedsBlock' <=> RootNeedsBlock)
  BY <1>1, SameDisk, SameNames
<1>3. \A f \in LiveFiles, via \in DentryKinds : <<f, via>> \in VfsInodes
  BY LiveFile, VfsInodeTypes
<1>4. VfsPart'
  BY <1>2, <1>3, FsInvParts DEF VfsPart, Quiet, SameFiles
<1>5. \A f \in LiveFiles : Table(f)' = Table(f) /\ OpenVia(f)' = OpenVia(f)
  BY <1>1, <1>3 DEF Quiet, SameFiles, OpenVia
<1> QED
  BY <1>2, <1>4, <1>5

(* A call that a quiet step leaves alone knows what it knew.               *)
LEMMA QuietCall ==
  ASSUME TypeInv, FsInv, Quiet, NEW p \in Procs, call'[p] = call[p]
  PROVE  CreateOK(p)' /\ FileCallOK(p)'
<1>1. CreateOK(p) /\ FileCallOK(p)
  BY FsInvParts DEF CallsPart
<1>2. CreateOK(p)'
  BY <1>1, QuietKeeps DEF CreateOK, Quiet, inodeVars
<1>3. FileCallOK(p)'
  BY <1>1, QuietKeeps DEF FileCallOK, LogicalBlock
<1> QED
  BY <1>2, <1>3

(* Steps in which one process changes its call, and does not start a       *)
(* create.                                                                 *)
LEMMA OneCall ==
  ASSUME TypeInv, FsInv, NEW p \in Procs, NEW c, c.pc # "new_inode",
         call' = [call EXCEPT ![p] = c],
         FileCallOK(p)',
         \A q \in Procs : q # p => CreateOK(q)' /\ FileCallOK(q)'
  PROVE  CallsPart'
<1>1. call \in [Procs -> CallType]
  BY DEF TypeInv, TypeOK
<1>2. call'[p] = c /\ \A q \in Procs : q # p => call'[q] = call[q]
  BY <1>1
<1>3. CreateOK(p)'
  BY <1>2 DEF CreateOK
<1>4. ASSUME NEW q \in Procs, NEW r \in Procs, call'[q].pc = "new_inode", call'[r].pc = "new_inode"
      PROVE  q = r
  <2>1. call[q].pc = "new_inode" /\ call[r].pc = "new_inode"
    BY <1>2, <1>4
  <2> QED
    BY <2>1 DEF FsInv, CallsInv
<1> QED
  BY <1>3, <1>4 DEF CallsPart

LEMMA QuietOne ==
  ASSUME TypeInv, FsInv, Quiet, NEW p \in Procs, NEW c, c.pc # "new_inode",
         call' = [call EXCEPT ![p] = c],
         FileCallOK(p)'
  PROVE  FsInv'
<1>1. \A q \in Procs : q # p => call'[q] = call[q]
  BY DEF TypeInv, TypeOK
<1>2. \A q \in Procs : q # p => CreateOK(q)' /\ FileCallOK(q)'
  BY <1>1, QuietCall
<1>3. CallsPart'
  BY <1>2, OneCall
<1>4. DiskPart' /\ NamesPart' /\ VfsPart'
  BY QuietKeeps
<1> QED
  BY <1>3, <1>4, FsInvNext

(* A quiet step that ends its call, and one that changes no call.          *)
LEMMA QuietReturn ==
  ASSUME TypeInv, FsInv, Quiet, NEW p \in Procs, NEW code, Return(p, code)
  PROVE  FsInv'
<1>1. call' = [call EXCEPT ![p] = Idle] /\ Idle.pc = "idle"
  BY DEF Return, Idle
<1>2. call'[p] = Idle
  BY <1>1 DEF TypeInv, TypeOK
<1>3. FileCallOK(p)'
  BY <1>1, <1>2 DEF FileCallOK
<1> QED
  BY <1>1, <1>3, QuietOne

LEMMA QuietStill ==
  ASSUME TypeInv, FsInv, Quiet, UNCHANGED call
  PROVE  FsInv'
<1>1. \A q \in Procs : CreateOK(q)' /\ FileCallOK(q)'
  BY QuietCall
<1>2. CallsPart'
  BY <1>1, FsInvParts DEF CallsPart
<1> QED
  BY <1>2, QuietKeeps, FsInvNext

(* Steps that leave the file system alone. *)
LEMMA NothingChanged ==
  ASSUME TypeInv, FsInv, UNCHANGED fsVars
  PROVE  Quiet
<1>1. UNCHANGED <<inode_table, data_blocks, block_bitmap, vinode>>
  BY DEF fsVars, blockVars
<1>2. TablesInv'
  BY <1>1 DEF FsInv, TablesInv
<1>3. Dir' = Dir /\ \A f : Table(f)' = Table(f)
  BY <1>1 DEF Dir, root, Table
<1> QED
  BY <1>1, <1>2, <1>3 DEF Quiet, SameFiles, fsVars

(* A used block, not the root directory's, is rewritten: as the table of a *)
(* file with the extents it had, or as bytes.  Of the inodes, only sizes   *)
(* of files and numbers without an entry change.                           *)
LEMMA BlockWritten ==
  ASSUME TypeInv, FsInv, NEW b \in block_bitmap \ {0}, NEW new \in BlockType,
         data_blocks' = [data_blocks EXCEPT ![b] = new],
         new.exts = << >> \/ new.kind = "ext",
         new.exts = data_blocks[b].exts \/ \A f \in LiveFiles : inode_table[f].i_block # b,
         inode_table'[ROOT_INODE] = inode_table[ROOT_INODE],
         \A f \in LiveFiles : /\ inode_table'[f].i_block = inode_table[f].i_block
                              /\ inode_table'[f].i_blocks = inode_table[f].i_blocks,
         UNCHANGED blockVars
  PROVE  SameFiles
<1>1. data_blocks \in [Blocks -> BlockType] /\ b \in Blocks
  BY DEF TypeInv, TypeOK
<1>2. block_bitmap' = block_bitmap
  BY DEF blockVars
<1>3. root' = root /\ root.i_block = 0
  BY DEF root, FsInv, RootInv
<1>4. 0 \in Blocks
  BY SizesAssumption DEF Blocks
<1>5. data_blocks'[0] = data_blocks[0]
  BY <1>1, <1>4
<1>6. Dir' = Dir
  BY <1>3, <1>5 DEF Dir
<1>7. TablesInv'
  <2>1. SUFFICES ASSUME NEW d \in Blocks
                 PROVE  \/ data_blocks'[d].exts = << >>
                        \/ data_blocks'[d].kind = "ext" /\ d \in block_bitmap
    BY <1>2 DEF TablesInv, Blocks
  <2> QED
    BY <1>1 DEF FsInv, TablesInv
<1>8. ASSUME NEW f \in LiveFiles PROVE Table(f)' = Table(f)
  <2>1. Table(f)' = data_blocks'[inode_table[f].i_block].exts
    BY DEF Table
  <2>2. inode_table[f].i_block \in Blocks
    BY LiveFile
  <2> QED
    BY <1>1, <2>1, <2>2 DEF Table
<1> QED
  BY <1>6, <1>7, <1>8 DEF SameFiles

(* A call of a file operation after a step, told by what it works on.      *)
LEMMA FileCallNext ==
  ASSUME NEW p \in Procs, NEW c, NEW f, call'[p] = c, c.ino = f,
         f \in LiveFiles', c.via \in OpenVia(f)',
         c.pc \in {"map", "copy"} => c.total <= osfs_extent_total_blocks(Table(f)'),
         c.pc = "copy" => osfs_extent_lookup_block(Table(f)', LogicalBlock(c)) = {c.phys}
  PROVE  FileCallOK(p)'
BY DEF FileCallOK, Table, OpenVia, LogicalBlock

(* The file and the VFS inode that a call works on. *)
LEMMA FileCallNow ==
  ASSUME TypeInv, FsInv, NEW p \in Procs, call[p].pc \in {"map", "copy", "read"}
  PROVE  /\ call[p] \in CallType /\ LogicalBlock(call[p]) \in Nat
         /\ call[p].ino \in LiveFiles /\ call[p].via \in OpenVia(call[p].ino)
         /\ call[p].pc \in {"map", "copy"} =>
              call[p].total <= osfs_extent_total_blocks(Table(call[p].ino))
         /\ call[p].pc = "copy" =>
              osfs_extent_lookup_block(Table(call[p].ino), LogicalBlock(call[p])) = {call[p].phys}
BY CallTypeNow DEF FsInv, CallsInv, FileCallOK

-----------------------------------------------------------------------------
(* The quiet steps.  A call that ends without having changed anything:     *)
LEMMA DiskUnchangedReturn ==
  ASSUME TypeInv, FsInv, NEW p \in Procs, NEW code, UNCHANGED fsVars, Return(p, code)
  PROVE  FsInv'
BY NothingChanged, QuietReturn

LEMMA DiskReturns ==
  ASSUME TypeInv, FsInv, NEW p \in Procs,
         \/ \E n \in Names : CreateNameTooLong(p, n)
         \/ CreateNoMemory(p) \/ WriteHole(p) \/ WriteNoSpace(p)
  PROVE  FsInv'
BY DiskUnchangedReturn DEF CreateNameTooLong, CreateNoMemory, WriteHole, WriteNoSpace

(* The inode of a number without an entry is written. *)
LEMMA OtherInode ==
  ASSUME TypeInv, FsInv, NEW p \in Procs, call[p].pc = "new_inode", NEW new,
         inode_table' = [inode_table EXCEPT ![call[p].ino] = new],
         UNCHANGED <<blockVars, data_blocks>>
  PROVE  SameFiles
<1> DEFINE ino == call[p].ino
<1>1. ino \notin LiveFiles /\ ino # ROOT_INODE
  BY DEF FsInv, InodesAccounted
<1>2. inode_table \in [Inodes -> InodeType] /\ ROOT_INODE \in Inodes
  BY RootType DEF TypeInv, TypeOK
<1>3. inode_table'[ROOT_INODE] = inode_table[ROOT_INODE]
  BY <1>1, <1>2
<1>4. \A f \in LiveFiles : inode_table'[f] = inode_table[f]
  BY <1>1, <1>2, LiveFile
<1>5. Dir' = Dir /\ \A f \in LiveFiles : Table(f)' = Table(f)
  BY <1>3, <1>4 DEF Dir, root, Table
<1>6. TablesInv'
  BY DEF FsInv, TablesInv, blockVars
<1> QED
  BY <1>3, <1>4, <1>5, <1>6 DEF SameFiles

LEMMA DiskCreateNoBlock ==
  ASSUME TypeInv, FsInv, NEW p \in Procs, CreateNoBlock(p)
  PROVE  FsInv'
<1>1. SameFiles
  BY OtherInode DEF CreateNoBlock
<1>2. Quiet /\ Return(p, "ENOSPC")
  BY <1>1 DEF CreateNoBlock, Quiet
<1> QED
  BY <1>2, QuietReturn

LEMMA DiskWriteMapped ==
  ASSUME TypeInv, FsInv, NEW p \in Procs, WriteMapped(p)
  PROVE  FsInv'
<1>1. Quiet /\ call[p].pc = "map"
  BY NothingChanged DEF WriteMapped
<1>2. PICK phys \in osfs_extent_lookup_block(Table(call[p].ino), LogicalBlock(call[p])) :
        call' = [call EXCEPT ![p].pc = "copy", ![p].phys = phys]
  BY DEF WriteMapped
<1>3. PICK c : c = [call[p] EXCEPT !.pc = "copy", !.phys = phys]
  OBVIOUS
<1>4. PICK f \in LiveFiles : f = call[p].ino
  BY <1>1, FileCallNow
<1>5. call' = [call EXCEPT ![p] = c] /\ call'[p] = c
  BY <1>2, <1>3 DEF TypeInv, TypeOK
<1>6. /\ c.pc = "copy" /\ c.phys = phys /\ c.ino = f /\ c.via = call[p].via
      /\ c.total = call[p].total /\ LogicalBlock(c) = LogicalBlock(call[p])
  BY <1>1, <1>3, <1>4, FileCallNow DEF CallType, LogicalBlock
<1>7. /\ c.via \in OpenVia(f) /\ c.total <= osfs_extent_total_blocks(Table(f))
      /\ LogicalBlock(c) \in Nat
  BY <1>1, <1>4, <1>6, FileCallNow
<1>8. osfs_extent_lookup_block(Table(f), LogicalBlock(c)) = {c.phys}
  BY <1>2, <1>4, <1>6, <1>7, LiveFile, LookupMapped
<1>9. Table(f)' = Table(f) /\ OpenVia(f)' = OpenVia(f) /\ LiveFiles' = LiveFiles
  BY <1>1, QuietKeeps
<1>10. FileCallOK(p)'
  BY <1>5, <1>6, <1>7, <1>8, <1>9, FileCallNext
<1> QED
  BY <1>1, <1>5, <1>6, <1>10, QuietOne

LEMMA DiskReadStart ==
  ASSUME TypeInv, FsInv, NEW p \in Procs, NEW ino \in OpenFiles, NEW via \in OpenVia(ino),
         NEW pos, NEW len, ReadStart(p, ino, via, pos, len)
  PROVE  FsInv'
<1>1. Quiet
  BY NothingChanged DEF ReadStart
<1>2. ino \in LiveFiles
  BY OpenIsLive
<1>3. PICK c : c = [Idle EXCEPT !.pc = "read", !.ino = ino, !.via = via, !.pos = pos,
                                !.rem = Min({len, inode_table[ino].i_size - pos})]
  OBVIOUS
<1>4. call' = [call EXCEPT ![p] = c] /\ call'[p] = c
  BY <1>3 DEF ReadStart, TypeInv, TypeOK
<1>5. c.pc = "read" /\ c.ino = ino /\ c.via = via
  BY <1>3 DEF Idle
<1>6. OpenVia(ino)' = OpenVia(ino) /\ LiveFiles' = LiveFiles
  BY <1>1, <1>2, QuietKeeps
<1>7. FileCallOK(p)'
  BY <1>2, <1>4, <1>5, <1>6, FileCallNext
<1> QED
  BY <1>1, <1>4, <1>5, <1>7, QuietOne

LEMMA DiskReadBlock ==
  ASSUME TypeInv, FsInv, NEW p \in Procs, ReadBlock(p)
  PROVE  FsInv'
<1> DEFINE k == Chunk(call[p])
<1>1. Quiet /\ call[p].pc = "read"
  BY NothingChanged DEF ReadBlock
<1>2. \/ \E code : Return(p, code)
      \/ call' = [call EXCEPT ![p].pos = @ + k, ![p].rem = @ - k]
  BY DEF ReadBlock
<1>3. CASE call' = [call EXCEPT ![p].pos = @ + k, ![p].rem = @ - k]
  <2>1. PICK c : c = [call[p] EXCEPT !.pos = @ + k, !.rem = @ - k]
    OBVIOUS
  <2>2. PICK f \in LiveFiles : f = call[p].ino
    BY <1>1, FileCallNow
  <2>3. call' = [call EXCEPT ![p] = c] /\ call'[p] = c
    BY <1>3, <2>1 DEF TypeInv, TypeOK
  <2>4. c.pc = "read" /\ c.ino = f /\ c.via \in OpenVia(f)
    BY <1>1, <2>1, <2>2, FileCallNow DEF CallType
  <2>5. OpenVia(f)' = OpenVia(f) /\ LiveFiles' = LiveFiles
    BY <1>1, QuietKeeps
  <2>6. FileCallOK(p)'
    BY <2>3, <2>4, <2>5, FileCallNext
  <2> QED
    BY <1>1, <2>3, <2>4, <2>6, QuietOne
<1> QED
  BY <1>1, <1>2, <1>3, QuietReturn

(* The entry of a write to a file: its table stays as it is. *)
StartedWrite(f, via, pos, len, v) ==
  [Idle EXCEPT !.pc = "map", !.ino = f, !.via = via, !.pos = pos, !.rem = len,
               !.val = v, !.total = osfs_extent_total_blocks(Table(f))]

LEMMA QuietWriteStart ==
  ASSUME TypeInv, FsInv, NEW p \in Procs, NEW f \in LiveFiles, NEW via \in OpenVia(f),
         NEW pos, NEW len, NEW v, WriteStart(p, f, via, pos, len, v)
  PROVE  /\ Quiet
         /\ len = 0 => Return(p, "ok")
         /\ len # 0 => call' = [call EXCEPT ![p] = StartedWrite(f, via, pos, len, v)]
<1> DEFINE b == inode_table[f].i_block
           grows == len = 0 /\ pos > inode_table[f].i_size
<1>1. WithTable(f) = inode_table[f] /\ ~NeedsTable(f) /\ FormattedTable(b) = Table(f)
  BY LiveFile DEF WithTable
<1>2. /\ UNCHANGED <<blockVars, inodeVars, dcache>>
      /\ data_blocks' = [data_blocks EXCEPT ![b] = ExtentTable(Table(f))]
      /\ inode_table' = [inode_table EXCEPT ![f] =
                           IF grows THEN [inode_table[f] EXCEPT !.i_size = pos % U32]
                           ELSE inode_table[f]]
      /\ vinode' = [vinode EXCEPT ![<<f, via>>].i_size = IF grows THEN pos % U32 ELSE @,
                                  ![<<f, via>>].i_blocks = @]
  BY <1>1 DEF WriteStart, blockVars
<1>3. /\ len = 0 => Return(p, "ok")
      /\ len # 0 => call' = [call EXCEPT ![p] = StartedWrite(f, via, pos, len, v)]
  BY <1>1 DEF WriteStart, StartedWrite
<1>4. inode_table \in [Inodes -> InodeType] /\ f \in Inodes /\ f # ROOT_INODE
      /\ ROOT_INODE \in Inodes
  BY LiveFile, RootType DEF TypeInv, TypeOK
<1>5. /\ inode_table'[ROOT_INODE] = inode_table[ROOT_INODE]
      /\ \A g \in LiveFiles : /\ inode_table'[g].i_block = inode_table[g].i_block
                              /\ inode_table'[g].i_blocks = inode_table[g].i_blocks
  <2>1. inode_table[f] \in InodeType
    BY <1>4
  <2>2. inode_table'[f].i_block = inode_table[f].i_block
        /\ inode_table'[f].i_blocks = inode_table[f].i_blocks
    BY <1>2, <1>4, <2>1 DEF InodeType
  <2>3. \A g \in Inodes : g # f => inode_table'[g] = inode_table[g]
    BY <1>2, <1>4
  <2> QED
    BY <1>4, <2>2, <2>3, LiveFile
<1>6. SameFiles
  <2>1. b \in block_bitmap \ {0}
    BY LiveFile
  <2>2. ExtentTable(Table(f)) \in BlockType
    BY LiveFile, BlockTypes
  <2>3. ExtentTable(Table(f)).kind = "ext" /\ ExtentTable(Table(f)).exts = data_blocks[b].exts
    BY DEF ExtentTable, Block, Table
  <2> QED
    BY <1>2, <1>5, <2>1, <2>2, <2>3, BlockWritten
<1>7. \A u \in VfsInodes : vinode'[u].i_blocks = vinode[u].i_blocks
  <2>1. vinode \in [VfsInodes -> [i_size : Nat, i_blocks : Nat]]
    BY DEF TypeInv, TypeOK
  <2> QED
    BY <1>2, <2>1
<1> QED
  BY <1>2, <1>3, <1>6, <1>7 DEF Quiet

LEMMA DiskWriteStart ==
  ASSUME TypeInv, FsInv, NEW p \in Procs, NEW ino \in OpenFiles, NEW via \in OpenVia(ino),
         NEW pos, NEW len, NEW v, WriteStart(p, ino, via, pos, len, v)
  PROVE  FsInv'
<1>1. ino \in LiveFiles
  BY OpenIsLive
<1>2. Quiet
  BY <1>1, QuietWriteStart
<1>3. CASE len = 0
  BY <1>1, <1>2, <1>3, QuietWriteStart, QuietReturn
<1>4. CASE len # 0
  <2>1. PICK c : c = StartedWrite(ino, via, pos, len, v)
    OBVIOUS
  <2>2. call' = [call EXCEPT ![p] = c]
    BY <1>1, <1>4, <2>1, QuietWriteStart
  <2>3. call'[p] = c
    BY <2>2 DEF TypeInv, TypeOK
  <2>4. c.pc = "map" /\ c.ino = ino /\ c.via = via
        /\ c.total = osfs_extent_total_blocks(Table(ino))
    BY <2>1 DEF StartedWrite, Idle
  <2>5. Table(ino)' = Table(ino) /\ OpenVia(ino)' = OpenVia(ino) /\ LiveFiles' = LiveFiles
    BY <1>1, <1>2, QuietKeeps
  <2>6. c.total <= osfs_extent_total_blocks(Table(ino))
    BY <1>1, <2>4, LiveFile
  <2>7. FileCallOK(p)'
    BY <1>1, <2>3, <2>4, <2>5, <2>6, FileCallNext
  <2> QED
    BY <1>2, <2>2, <2>4, <2>7, QuietOne
<1> QED
  BY <1>3, <1>4

(* The copy of a chunk: a block of the file's runs gets other bytes. *)
LEMMA StoreKeeps ==
  ASSUME TypeInv, FsInv, NEW p \in Procs, call[p].pc = "copy", NEW k, Store(call[p], k),
         inode_table'[ROOT_INODE] = inode_table[ROOT_INODE],
         \A f \in LiveFiles : /\ inode_table'[f].i_block = inode_table[f].i_block
                              /\ inode_table'[f].i_blocks = inode_table[f].i_blocks,
         UNCHANGED blockVars
  PROVE  SameFiles
<1>1. PICK f \in LiveFiles : f = call[p].ino
  BY FileCallNow
<1>2. PICK b : b = call[p].phys
  OBVIOUS
<1>3. b \in osfs_extent_lookup_block(Table(f), LogicalBlock(call[p])) /\ LogicalBlock(call[p]) \in Nat
  BY <1>1, <1>2, FileCallNow
<1>4. b \in ExtentBlocks(Table(f))
  BY <1>3, LiveFile, LookupInRuns
<1>5. b \in block_bitmap \ {0}
  BY <1>4, LiveFile
<1>6. \A g \in LiveFiles : inode_table[g].i_block # b
  BY <1>4, OtherBlocks
<1>7. PICK new : data_blocks' = [data_blocks EXCEPT ![b] = new] /\ new.exts = << >>
  <2>1. PICK bytes : data_blocks' = [data_blocks EXCEPT ![b] = RawBlock(bytes)]
    BY <1>2 DEF Store
  <2>2. RawBlock(bytes).exts = << >>
    BY DEF RawBlock, Block
  <2> QED
    BY <2>1, <2>2
<1>8. new \in BlockType
  <2>1. data_blocks' \in [Blocks -> BlockType]
    BY FileCallNow, TypeStore
  <2>2. b \in Blocks /\ data_blocks \in [Blocks -> BlockType]
    BY <1>5 DEF TypeInv, TypeOK
  <2>3. data_blocks'[b] = new
    BY <1>7, <2>2
  <2> QED
    BY <2>1, <2>2, <2>3
<1> QED
  BY <1>5, <1>6, <1>7, <1>8, BlockWritten

(* The size of a file and of a VFS inode grow.                             *)
LEMMA GrowKeeps ==
  ASSUME TypeInv, FsInv, NEW f \in LiveFiles, NEW via \in DentryKinds, NEW end,
         GrowTo(f, via, end)
  PROVE  /\ inode_table'[ROOT_INODE] = inode_table[ROOT_INODE]
         /\ \A g \in LiveFiles : /\ inode_table'[g].i_block = inode_table[g].i_block
                                 /\ inode_table'[g].i_blocks = inode_table[g].i_blocks
         /\ \A u \in VfsInodes : vinode'[u].i_blocks = vinode[u].i_blocks
<1>1. inode_table \in [Inodes -> InodeType] /\ f \in Inodes /\ f # ROOT_INODE
      /\ ROOT_INODE \in Inodes /\ LiveFiles \subseteq Inodes
  BY LiveFile, RootType DEF TypeInv, TypeOK
<1>2. vinode \in [VfsInodes -> [i_size : Nat, i_blocks : Nat]]
  BY DEF TypeInv, TypeOK
<1>3. CASE end > inode_table[f].i_size
  <2>1. /\ inode_table' = [inode_table EXCEPT ![f].i_size = end % U32]
        /\ vinode' = [vinode EXCEPT ![<<f, via>>].i_size = end % U32]
    BY <1>3 DEF GrowTo
  <2>2. \A g \in Inodes : /\ inode_table'[g].i_block = inode_table[g].i_block
                          /\ inode_table'[g].i_blocks = inode_table[g].i_blocks
    BY <1>1, <2>1 DEF InodeType
  <2>3. \A u \in VfsInodes : vinode'[u].i_blocks = vinode[u].i_blocks
    BY <1>2, <2>1
  <2>4. inode_table'[ROOT_INODE] = inode_table[ROOT_INODE]
    BY <1>1, <2>1
  <2> QED
    BY <1>1, <2>2, <2>3, <2>4
<1>4. CASE ~(end > inode_table[f].i_size)
  BY <1>4 DEF GrowTo
<1> QED
  BY <1>3, <1>4

LEMMA QuietCopy ==
  ASSUME TypeInv, FsInv, NEW p \in Procs, WriteFault(p) \/ WriteCopy(p)
  PROVE  Quiet
<1> DEFINE k == Chunk(call[p])
<1>1. CASE WriteFault(p)
  <2>1. SameFiles
    BY <1>1, StoreKeeps DEF WriteFault
  <2> QED
    BY <1>1, <2>1 DEF WriteFault, Quiet
<1>2. CASE WriteCopy(p)
  <2>1. call[p].pc = "copy" /\ Store(call[p], k) /\ UNCHANGED <<inodeVars, blockVars, dcache>>
    BY <1>2 DEF WriteCopy
  <2>2. PICK f \in LiveFiles : f = call[p].ino
    BY <2>1, FileCallNow
  <2>3. call[p].via \in DentryKinds
    BY <2>1, FileCallNow DEF CallType
  <2>4. GrowTo(f, call[p].via, call[p].pos + k) \/ UNCHANGED <<inode_table, vinode>>
    BY <1>2, <2>2 DEF WriteCopy
  <2>5. CASE GrowTo(f, call[p].via, call[p].pos + k)
    BY <2>1, <2>3, <2>5, GrowKeeps, StoreKeeps DEF Quiet
  <2>6. CASE UNCHANGED <<inode_table, vinode>>
    BY <2>1, <2>6, StoreKeeps DEF Quiet
  <2> QED
    BY <2>4, <2>5, <2>6
<1> QED
  BY <1>1, <1>2

LEMMA DiskWriteFault ==
  ASSUME TypeInv, FsInv, NEW p \in Procs, WriteFault(p)
  PROVE  FsInv'
BY QuietCopy, QuietReturn DEF WriteFault

LEMMA DiskWriteCopy ==
  ASSUME TypeInv, FsInv, NEW p \in Procs, WriteCopy(p)
  PROVE  FsInv'
<1> DEFINE k == Chunk(call[p])
<1>1. call[p].pc = "copy" /\ Quiet
  BY QuietCopy DEF WriteCopy
<1>2. PICK f \in LiveFiles : f = call[p].ino
  BY <1>1, FileCallNow
<1>3. CASE call[p].rem = k
  <2>1. Return(p, "ok")
    BY <1>3 DEF WriteCopy
  <2> QED
    BY <1>1, <2>1, QuietReturn
<1>4. CASE call[p].rem # k
  <2>3. PICK c : c = [call[p] EXCEPT !.pc = "map", !.pos = @ + k, !.rem = @ - k,
                                     !.done = @ + k, !.phys = 0]
    OBVIOUS
  <2>4. call' = [call EXCEPT ![p] = c] /\ call'[p] = c
    BY <1>4, <2>3 DEF WriteCopy, TypeInv, TypeOK
  <2>5. /\ c.pc = "map" /\ c.ino = f /\ c.via \in OpenVia(f)
        /\ c.total <= osfs_extent_total_blocks(Table(f))
    BY <1>1, <1>2, <2>3, FileCallNow DEF CallType
  <2>6. Table(f)' = Table(f) /\ OpenVia(f)' = OpenVia(f) /\ LiveFiles' = LiveFiles
    BY <1>1, QuietKeeps
  <2>7. FileCallOK(p)'
    BY <2>4, <2>5, <2>6, FileCallNext
  <2> QED
    BY <1>1, <2>4, <2>5, <2>7, QuietOne
<1> QED
  BY <1>3, <1>4

LEMMA QuietReadShort ==
  ASSUME TypeInv, FsInv, NEW p \in Procs, NEW ino \in OpenFiles, NEW pos, NEW len,
         ReadShort(p, ino, pos, len)
  PROVE  Quiet
<1> DEFINE b == inode_table[ino].i_block
<1>1. ino \in LiveFiles
  BY OpenIsLive
<1>2. UNCHANGED <<inodeVars, blockVars, inode_table, vinode, dcache>>
  BY DEF ReadShort
<1>3. \/ UNCHANGED data_blocks
      \/ /\ data_blocks[b].kind # "ext"
         /\ data_blocks' = [data_blocks EXCEPT ![b] = ExtentTable(<< >>)]
  BY DEF ReadShort
<1>4. CASE UNCHANGED data_blocks
  BY <1>2, <1>4, NothingChanged DEF fsVars
<1>5. CASE /\ data_blocks[b].kind # "ext"
           /\ data_blocks' = [data_blocks EXCEPT ![b] = ExtentTable(<< >>)]
  <2>1. b \in block_bitmap \ {0} /\ b \in Blocks
    BY <1>1, LiveFile
  <2>2. data_blocks[b].exts = << >>
    BY <1>5, <2>1 DEF FsInv, TablesInv
  <2>3. ExtentTable(<< >>) \in BlockType /\ ExtentTable(<< >>).exts = << >>
    BY BlockTypes, EmptySeq DEF ExtentTable, Block
  <2>4. SameFiles
    BY <1>2, <1>5, <2>1, <2>2, <2>3, BlockWritten
  <2> QED
    BY <1>2, <2>4 DEF Quiet
<1> QED
  BY <1>3, <1>4, <1>5

LEMMA DiskReadShort ==
  ASSUME TypeInv, FsInv, NEW p \in Procs, NEW ino \in OpenFiles, NEW pos, NEW len,
         ReadShort(p, ino, pos, len)
  PROVE  FsInv'
<1>1. \E code : Return(p, code)
  BY DEF ReadShort
<1> QED
  BY <1>1, QuietReadShort, QuietReturn

LEMMA DiskTruncate ==
  ASSUME TypeInv, FsInv, NEW n \in Truncating, NEW via \in DentryKinds, Truncate(n, via)
  PROVE  FsInv'
<1>1. UNCHANGED <<inodeVars, blockVars, inode_table, data_blocks, dcache, call>>
  BY DEF Truncate
<1>2. vinode \in [VfsInodes -> [i_size : Nat, i_blocks : Nat]]
  BY DEF TypeInv, TypeOK
<1>3. \A u \in VfsInodes : vinode'[u].i_blocks = vinode[u].i_blocks
  BY <1>2 DEF Truncate
<1>4. SameFiles
  BY <1>1 DEF SameFiles, Dir, root, Table, FsInv, TablesInv, blockVars
<1> QED
  BY <1>1, <1>3, <1>4, QuietStill DEF Quiet

-----------------------------------------------------------------------------
(* A call of a file operation that a step of another process leaves alone: *)
(* tables may grow and VFS inodes come, as long as its own stays.          *)
LEMMA FileCallKept ==
  ASSUME TypeInv, FsInv, NEW q \in Procs, call'[q] = call[q],
         LiveFiles \subseteq LiveFiles',
         \A f \in LiveFiles :
           /\ osfs_extent_total_blocks(Table(f)) <= osfs_extent_total_blocks(Table(f)')
           /\ osfs_extent_total_blocks(Table(f)') \in Nat
           /\ \A idx \in Nat : idx < osfs_extent_total_blocks(Table(f)) =>
                osfs_extent_lookup_block(Table(f)', idx) = osfs_extent_lookup_block(Table(f), idx),
         \A f \in LiveFiles : \A via \in OpenVia(f) :
           call[q].ino = f /\ call[q].via = via => via \in OpenVia(f)'
  PROVE  FileCallOK(q)'
<1>1. CASE call[q].pc \notin {"map", "copy", "read"}
  BY <1>1 DEF FileCallOK
<1>2. CASE call[q].pc \in {"map", "copy", "read"}
  <2>1. PICK c : c = call[q]
    OBVIOUS
  <2>2. PICK f \in LiveFiles : f = c.ino
    BY <1>2, <2>1, FileCallNow
  <2>3. /\ c \in CallType /\ LogicalBlock(c) \in Nat /\ c.via \in OpenVia(f)
        /\ c.pc \in {"map", "copy"} => c.total <= osfs_extent_total_blocks(Table(f))
        /\ c.pc = "copy" => osfs_extent_lookup_block(Table(f), LogicalBlock(c)) = {c.phys}
    BY <1>2, <2>1, <2>2, FileCallNow
  <2>4. f \in LiveFiles' /\ c.via \in OpenVia(f)'
    BY <2>1, <2>2, <2>3
  <2>5. c.pc \in {"map", "copy"} => c.total <= osfs_extent_total_blocks(Table(f)')
    <3>1. c.total \in Nat /\ osfs_extent_total_blocks(Table(f)) \in Nat
      BY <2>3, LiveFile DEF CallType
    <3>2. /\ osfs_extent_total_blocks(Table(f)) <= osfs_extent_total_blocks(Table(f)')
          /\ osfs_extent_total_blocks(Table(f)') \in Nat
      OBVIOUS
    <3> QED
      BY <2>3, <3>1, <3>2
  <2>6. c.pc = "copy" => osfs_extent_lookup_block(Table(f)', LogicalBlock(c)) = {c.phys}
    <3>1. SUFFICES ASSUME c.pc = "copy"
                   PROVE  osfs_extent_lookup_block(Table(f)', LogicalBlock(c)) = {c.phys}
      OBVIOUS
    <3>2. osfs_extent_lookup_block(Table(f), LogicalBlock(c)) = {c.phys}
      BY <2>3, <3>1
    <3>3. LogicalBlock(c) < osfs_extent_total_blocks(Table(f))
      BY <2>3, <3>2, LiveFile, LookupMapped
    <3> QED
      BY <2>3, <3>2, <3>3
  <2> QED
    BY <2>1, <2>2, <2>4, <2>5, <2>6, FileCallNext
<1> QED
  BY <1>1, <1>2

(* The same when no table changes.                                         *)
LEMMA FileCallSame ==
  ASSUME TypeInv, FsInv, NEW q \in Procs, call'[q] = call[q],
         LiveFiles \subseteq LiveFiles',
         \A f \in LiveFiles : Table(f)' = Table(f),
         \A f \in LiveFiles : \A via \in OpenVia(f) :
           call[q].ino = f /\ call[q].via = via => via \in OpenVia(f)'
  PROVE  FileCallOK(q)'
<1>1. \A f \in LiveFiles : osfs_extent_total_blocks(Table(f)) \in Nat
  BY LiveFile
<1>2. \A f \in LiveFiles :
           /\ osfs_extent_total_blocks(Table(f)) <= osfs_extent_total_blocks(Table(f)')
           /\ osfs_extent_total_blocks(Table(f)') \in Nat
           /\ \A idx \in Nat : idx < osfs_extent_total_blocks(Table(f)) =>
                osfs_extent_lookup_block(Table(f)', idx) = osfs_extent_lookup_block(Table(f), idx)
  BY <1>1
<1> QED
  BY <1>2, FileCallKept

(* osfs_lookup builds a VFS inode, and one that no call works on is evicted. *)
LEMMA VfsStep ==
  ASSUME TypeInv, FsInv, VfsPart',
         UNCHANGED <<inodeVars, blockVars, inode_table, data_blocks, dcache, call>>,
         \A q \in Procs : \A f \in LiveFiles : \A via \in OpenVia(f) :
           call[q].ino = f /\ call[q].via = via => via \in OpenVia(f)'
  PROVE  FsInv'
<1>1. SameFiles
  BY DEF SameFiles, Dir, root, Table, FsInv, TablesInv, blockVars
<1>2. DiskPart' /\ NamesPart' /\ LiveFiles' = LiveFiles /\ (RootNeedsBlock' <=> RootNeedsBlock)
  BY <1>1, SameDisk, SameNames
<1>3. \A q \in Procs : FileCallOK(q)'
  BY <1>1, <1>2, FileCallSame DEF SameFiles
<1>4. \A q \in Procs : CreateOK(q)'
  BY <1>2 DEF FsInv, CallsInv, CreateOK, inodeVars
<1>5. CallsPart'
  BY <1>3, <1>4, FsInvParts DEF CallsPart
<1> QED
  BY <1>2, <1>5, FsInvNext

LEMMA DiskLookup ==
  ASSUME TypeInv, FsInv, NEW i \in DOMAIN Dir, Lookup(i)
  PROVE  FsInv'
<1>1. PICK f : f = Dir[i].inode_no
  OBVIOUS
<1> DEFINE v == <<f, "lookup">>
<1>2. f \in LiveFiles
  BY <1>1 DEF LiveFiles
<1>3. /\ v \in VfsInodes /\ vinode[v].i_blocks = 0
      /\ vinode' = [vinode EXCEPT ![v] = osfs_iget(f)]
      /\ UNCHANGED <<inodeVars, blockVars, inode_table, data_blocks, dcache, call>>
  BY <1>1 DEF Lookup
<1>4. /\ inode_table[f] \in InodeType
      /\ osfs_iget(f).i_blocks = inode_table[f].i_blocks /\ inode_table[f].i_blocks \in Nat
  BY <1>2, LiveFile DEF osfs_iget, VfsInode, InodeType
<1>5. vinode \in [VfsInodes -> [i_size : Nat, i_blocks : Nat]]
  BY DEF TypeInv, TypeOK
<1>6. LiveFiles' = LiveFiles
  BY <1>3 DEF LiveFiles, Dir, root
<1>7. \A u \in VfsInodes : vinode'[u] = IF u = v THEN osfs_iget(f) ELSE vinode[u]
  BY <1>3, <1>5
<1>8. \A g \in LiveFiles, via \in DentryKinds : <<g, via>> \in VfsInodes
  BY LiveFile, VfsInodeTypes
<1>9. VfsPart
  BY FsInvParts
<1>10. VfsPart'
  <2>1. \A u \in VfsInodes : vinode'[u].i_blocks # 0 => u[1] \in LiveFiles \cup {ROOT_INODE}
    BY <1>2, <1>7, <1>9 DEF VfsPart
  <2>2. ASSUME NEW g \in LiveFiles, NEW via \in DentryKinds
        PROVE  vinode'[<<g, via>>].i_blocks <= inode_table[g].i_blocks
    <3>1. CASE <<g, via>> = v
      <4>1. g = f
        BY <3>1
      <4> QED
        BY <1>3, <1>4, <1>7, <3>1, <4>1
    <3>2. CASE <<g, via>> # v
      BY <1>7, <1>8, <1>9, <3>2 DEF VfsPart
    <3> QED
      BY <3>1, <3>2
  <2> QED
    BY <1>3, <1>6, <2>1, <2>2 DEF VfsPart
<1>11. \A g \in LiveFiles : \A via \in OpenVia(g) : via \in OpenVia(g)'
  BY <1>3, <1>7, <1>8 DEF OpenVia
<1> QED
  BY <1>3, <1>10, <1>11, VfsStep

LEMMA DiskEvict ==
  ASSUME TypeInv, FsInv, NEW ino \in OpenFiles, Evict(ino)
  PROVE  FsInv'
<1> DEFINE v == <<ino, "lookup">>
<1>1. /\ v \in VfsInodes
      /\ \A p \in Procs : <<call[p].ino, call[p].via>> # v
      /\ vinode' = [vinode EXCEPT ![v] = VfsInode(0, 0)]
      /\ UNCHANGED <<inodeVars, blockVars, inode_table, data_blocks, dcache, call>>
  BY DEF Evict
<1>2. LiveFiles' = LiveFiles
  BY <1>1 DEF LiveFiles, Dir, root
<1>3. \A u \in VfsInodes : vinode'[u] = IF u = v THEN VfsInode(0, 0) ELSE vinode[u]
  BY <1>1 DEF TypeInv, TypeOK
<1>4. VfsInode(0, 0).i_blocks = 0
  BY DEF VfsInode
<1>5. \A g \in LiveFiles, via \in DentryKinds : <<g, via>> \in VfsInodes
  BY LiveFile, VfsInodeTypes
<1>6. VfsPart /\ \A g \in LiveFiles : inode_table[g].i_blocks \in Nat
  BY FsInvParts, LiveFile DEF InodeType
<1>7. VfsPart'
  <2>1. \A u \in VfsInodes : vinode'[u].i_blocks # 0 => u[1] \in LiveFiles \cup {ROOT_INODE}
    BY <1>3, <1>4, <1>6 DEF VfsPart
  <2>2. ASSUME NEW g \in LiveFiles, NEW via \in DentryKinds
        PROVE  vinode'[<<g, via>>].i_blocks <= inode_table[g].i_blocks
    <3>1. CASE <<g, via>> = v
      <4>1. vinode'[<<g, via>>].i_blocks = 0
        BY <1>1, <1>3, <1>4, <3>1
      <4> QED
        BY <1>6, <4>1
    <3>2. CASE <<g, via>> # v
      BY <1>3, <1>5, <1>6, <3>2 DEF VfsPart
    <3> QED
      BY <3>1, <3>2
  <2> QED
    BY <1>1, <1>2, <2>1, <2>2 DEF VfsPart
<1>8. ASSUME NEW q \in Procs, NEW f \in LiveFiles, NEW via \in OpenVia(f),
             call[q].ino = f, call[q].via = via
      PROVE  via \in OpenVia(f)'
  <2>1. <<f, via>> # v /\ <<f, via>> \in VfsInodes
    BY <1>1, <1>5, <1>8 DEF OpenVia
  <2> QED
    BY <1>3, <2>1 DEF OpenVia
<1> QED
  BY <1>1, <1>7, <1>8, VfsStep

-----------------------------------------------------------------------------
(* Before the root directory has its block there is nothing in the file    *)
(* system; the block it gets is block 0.                                   *)
LEMMA EmptyDisk ==
  ASSUME TypeInv, FsInv, RootNeedsBlock
  PROVE  /\ Dir = << >> /\ LiveFiles = {} /\ block_bitmap = {}
         /\ FreeBlocks # {} /\ Min(FreeBlocks) = 0 /\ root.i_size = 0
<1>1. root.i_size = 0
  BY DEF FsInv, RootInv
<1>2. Dir = << >> /\ LiveFiles = {}
  BY <1>1 DEF Dir, LiveFiles
<1>3. block_bitmap = {}
  BY <1>2 DEF FsInv, BlocksAccounted, RootBlocks, RootNeedsBlock
<1>4. FreeBlocks = Blocks /\ 0 \in Blocks /\ Blocks \in SUBSET Nat
  BY <1>3, SizesAssumption DEF FreeBlocks, Blocks
<1>5. Min(FreeBlocks) \in Nat /\ Min(FreeBlocks) <= 0
  BY <1>4, MinProperties
<1> QED
  BY <1>1, <1>2, <1>3, <1>4, <1>5

LEMMA GiveRoot ==
  ASSUME TypeInv, FsInv, GiveRootBlock, UNCHANGED data_blocks
  PROVE  /\ DiskPart' /\ VfsPart' /\ Dir' = Dir /\ LiveFiles' = LiveFiles
         /\ ~RootNeedsBlock'
         /\ \A q \in Procs : call'[q] = call[q] => FileCallOK(q)'
<1>1. CASE ~RootNeedsBlock
  <2>1. UNCHANGED <<blockVars, inode_table, vinode, data_blocks>>
    BY <1>1 DEF GiveRootBlock
  <2>2. SameFiles
    BY <2>1 DEF SameFiles, Dir, root, Table, FsInv, TablesInv, blockVars
  <2>3. DiskPart' /\ LiveFiles' = LiveFiles /\ ~RootNeedsBlock'
    BY <1>1, <2>2, SameDisk
  <2>4. VfsPart'
    BY <2>1, <2>3, FsInvParts DEF VfsPart
  <2>5. \A f \in LiveFiles : \A via \in OpenVia(f) : via \in OpenVia(f)'
    BY <2>1 DEF OpenVia
  <2> QED
    BY <2>2, <2>3, <2>4, <2>5, FileCallSame DEF SameFiles
<1>2. CASE RootNeedsBlock
  <2>1. /\ block_bitmap' = {0} /\ nr_free_blocks' = Dec(nr_free_blocks)
        /\ inode_table' = [inode_table EXCEPT ![ROOT_INODE].i_block = 0,
                                              ![ROOT_INODE].i_blocks = 1]
        /\ vinode' = [vinode EXCEPT ![RootVfsInode].i_blocks = 1]
    BY <1>2, EmptyDisk DEF GiveRootBlock
  <2>2. root' = [root EXCEPT !.i_block = 0, !.i_blocks = 1] /\ root \in InodeType
    BY <2>1, RootType DEF root, TypeInv, TypeOK
  <2>3. root'.i_size = 0 /\ root'.i_block = 0 /\ root'.i_blocks = 1
    BY <1>2, <2>2, EmptyDisk DEF InodeType
  <2>4. Dir' = << >> /\ LiveFiles' = {} /\ ~RootNeedsBlock'
    BY <2>3 DEF Dir, LiveFiles, RootNeedsBlock
  <2>5. RootInv'
    BY <2>3, <2>4 DEF RootInv
  <2>6. TablesInv'
    BY <1>2, <2>1, EmptyDisk DEF FsInv, TablesInv
  <2>7. FilesDisjoint' /\ ExtentsDisjoint' /\ TableCounts'
    BY <2>4 DEF FilesDisjoint, ExtentsDisjoint, TableCounts
  <2>8. BlocksAccounted'
    <3>1. RootBlocks' = {0}
      BY <2>3 DEF RootBlocks
    <3>2. 0 \in Blocks \ block_bitmap
      BY <1>2, EmptyDisk, SizesAssumption DEF Blocks
    <3>3. nr_free_blocks' = DATA_BLOCK_COUNT - Cardinality(block_bitmap')
      <4>1. block_bitmap' = block_bitmap \cup {0}
        BY <1>2, <2>1, EmptyDisk
      <4> QED
        BY <2>1, <3>2, <4>1, TakeBlock DEF FsInv, BlocksAccounted
    <3> QED
      BY <2>1, <2>4, <3>1, <3>3 DEF BlocksAccounted
  <2>9. VfsPart'
    <3>1. \A u \in VfsInodes : u # RootVfsInode => vinode'[u] = vinode[u]
      BY <2>1 DEF TypeInv, TypeOK
    <3>2. RootVfsInode[1] = ROOT_INODE
      BY DEF RootVfsInode
    <3>3. VfsPart
      BY FsInvParts
    <3> QED
      BY <1>2, <2>4, <3>1, <3>2, <3>3, EmptyDisk DEF VfsPart
  <2>10. ASSUME NEW q \in Procs, call'[q] = call[q] PROVE FileCallOK(q)'
    <3>1. call[q].pc \notin {"map", "copy", "read"}
      BY <1>2, EmptyDisk, FileCallNow
    <3> QED
      BY <2>10, <3>1 DEF FileCallOK
  <2> QED
    BY <1>2, <2>4, <2>5, <2>6, <2>7, <2>8, <2>9, <2>10, EmptyDisk DEF DiskPart
<1> QED
  BY <1>1, <1>2

(* While a create starts no other is in progress: the directory is locked. *)
LEMMA NoOtherCreate ==
  ASSUME NEW p \in Procs, NEW n \in Names, CanCreate(p, n)
  PROVE  \A q \in Procs : call[q].pc # "new_inode"
BY DEF CanCreate, DirLocked

LEMMA DiskCreateNoSpace ==
  ASSUME TypeInv, FsInv, NEW p \in Procs, NEW n \in Names, CreateNoSpace(p, n)
  PROVE  FsInv'
<1>1. CanCreate(p, n) /\ Return(p, "ENOSPC") /\ UNCHANGED <<inodeVars, data_blocks, dcache>>
  BY DEF CreateNoSpace
<1>2. CASE UNCHANGED <<blockVars, inode_table, vinode>>
  BY <1>1, <1>2, DiskUnchangedReturn DEF fsVars
<1>3. CASE GiveRootBlock
  <2>1. /\ DiskPart' /\ VfsPart' /\ Dir' = Dir /\ LiveFiles' = LiveFiles
        /\ \A q \in Procs : call'[q] = call[q] => FileCallOK(q)'
    BY <1>1, <1>3, GiveRoot
  <2>2. NamesPart'
    BY <1>1, <2>1, FsInvParts DEF NamesPart, inodeVars
  <2>3. call' = [call EXCEPT ![p] = Idle] /\ Idle.pc = "idle"
    BY <1>1 DEF Return, Idle
  <2>4. call'[p] = Idle /\ \A q \in Procs : q # p => call'[q] = call[q]
    BY <2>3 DEF TypeInv, TypeOK
  <2>5. FileCallOK(p)'
    BY <2>3, <2>4 DEF FileCallOK
  <2>6. \A q \in Procs : q # p => CreateOK(q)'
    BY <1>1, <2>4, NoOtherCreate DEF CreateOK
  <2>7. CallsPart'
    BY <2>1, <2>3, <2>4, <2>5, <2>6, OneCall
  <2> QED
    BY <2>1, <2>2, <2>7, FsInvNext
<1> QED
  BY <1>2, <1>3 DEF CreateNoSpace

LEMMA DiskCreateStart ==
  ASSUME TypeInv, FsInv, NEW p \in Procs, NEW n \in Names, CreateStart(p, n)
  PROVE  FsInv'
<1>1. /\ CanCreate(p, n) /\ GiveRootBlock /\ UNCHANGED <<data_blocks, dcache>>
      /\ nr_free_inodes # 0 /\ FreeInodes # {}
  BY DEF CreateStart
<1>2. PICK ino \in Inodes \ inode_bitmap : ino = Min(FreeInodes)
  BY <1>1, FirstFree
<1>3. PICK c : c = [Idle EXCEPT !.pc = "new_inode", !.name = n, !.ino = ino]
  OBVIOUS
<1>4. /\ inode_bitmap' = inode_bitmap \cup {ino}
      /\ nr_free_inodes' = Dec(nr_free_inodes)
      /\ call' = [call EXCEPT ![p] = c]
  BY <1>2, <1>3 DEF CreateStart
<1>5. c.pc = "new_inode" /\ c.name = n /\ c.ino = ino
  BY <1>3 DEF Idle
<1>6. call'[p] = c /\ \A q \in Procs : q # p => call'[q] = call[q]
  BY <1>4 DEF TypeInv, TypeOK
<1>7. /\ DiskPart' /\ VfsPart' /\ Dir' = Dir /\ LiveFiles' = LiveFiles /\ ~RootNeedsBlock'
      /\ \A q \in Procs : call'[q] = call[q] => FileCallOK(q)'
  BY <1>1, GiveRoot
<1>8. NamesPart
  BY FsInvParts
<1>9. NamesPart'
  <2>1. nr_free_inodes' = INODE_COUNT - Cardinality(inode_bitmap')
    BY <1>1, <1>4, <1>8, TakeInode DEF NamesPart
  <2> QED
    BY <1>1, <1>4, <1>7, <1>8, <2>1 DEF NamesPart
<1>10. CreateOK(p)'
  <2>1. ino \notin LiveFiles \cup {ROOT_INODE}
    BY <1>8 DEF NamesPart
  <2> QED
    BY <1>1, <1>4, <1>5, <1>6, <1>7, <2>1 DEF CreateOK, CanCreate
<1>11. \A q \in Procs : q # p => CreateOK(q)'
  BY <1>1, <1>6, NoOtherCreate DEF CreateOK
<1>12. FileCallOK(p)'
  BY <1>5, <1>6 DEF FileCallOK
<1>13. CallsPart'
  <2>1. \A q \in Procs : call'[q].pc = "new_inode" => q = p
    BY <1>1, <1>6, NoOtherCreate
  <2> QED
    BY <1>6, <1>7, <1>10, <1>11, <1>12, <2>1 DEF CallsPart
<1> QED
  BY <1>7, <1>9, <1>13, FsInvNext

(* The create that ends is the only one. *)
LEMMA OnlyCreate ==
  ASSUME FsInv, NEW p \in Procs, call[p].pc = "new_inode"
  PROVE  /\ \A q \in Procs : q # p => call[q].pc # "new_inode"
         /\ CreateOK(p)
BY DEF FsInv, CallsInv

LEMMA DiskCreateRollback ==
  ASSUME TypeInv, FsInv, NEW p \in Procs, CreateRollback(p)
  PROVE  FsInv'
<1>1. PICK c : c = call[p]
  OBVIOUS
<1>2. /\ call[p].pc = "new_inode"
      /\ inode_table' = [inode_table EXCEPT ![call[p].ino] =
                           OsfsInode("reg", 0, 1, Min(FreeBlocks))]
      /\ nr_free_blocks' = Inc(Dec(nr_free_blocks))
      /\ inode_bitmap' = inode_bitmap \ {c.ino}
      /\ nr_free_inodes' = Inc(Inc(Dec(nr_free_inodes)))
      /\ \E code : Return(p, code)
      /\ UNCHANGED <<block_bitmap, data_blocks, vinode, dcache>>
  BY <1>1 DEF CreateRollback
<1>3. UNCHANGED blockVars
  BY <1>2, IncDec DEF TypeInv, TypeOK, blockVars
<1>4. SameFiles
  BY <1>2, <1>3, OtherInode
<1>5. DiskPart' /\ LiveFiles' = LiveFiles /\ (RootNeedsBlock' <=> RootNeedsBlock)
  BY <1>4, SameDisk
<1>6. c.ino \in inode_bitmap \ (LiveFiles \cup {ROOT_INODE})
  BY <1>1, <1>2, OnlyCreate DEF CreateOK
<1>7. NamesPart /\ VfsPart
  BY FsInvParts
<1>8. NamesPart'
  <2>1. nr_free_inodes' = INODE_COUNT - Cardinality(inode_bitmap')
    BY <1>2, <1>6, <1>7, GiveInodeBack DEF NamesPart
  <2> QED
    BY <1>2, <1>4, <1>5, <1>6, <1>7, <2>1 DEF NamesPart, SameFiles
<1>9. VfsPart'
  BY <1>2, <1>4, <1>5, <1>7 DEF VfsPart, SameFiles
<1>10. call' = [call EXCEPT ![p] = Idle] /\ Idle.pc = "idle"
  BY <1>2 DEF Return, Idle
<1>11. call'[p] = Idle /\ \A q \in Procs : q # p => call'[q] = call[q]
  BY <1>10 DEF TypeInv, TypeOK
<1>12. FileCallOK(p)'
  BY <1>10, <1>11 DEF FileCallOK
<1>13. \A f \in LiveFiles : Table(f)' = Table(f) /\ OpenVia(f)' = OpenVia(f)
  BY <1>2, <1>4 DEF SameFiles, OpenVia
<1>14. \A q \in Procs : q # p => CreateOK(q)' /\ FileCallOK(q)'
  BY <1>2, <1>5, <1>11, <1>13, OnlyCreate, FileCallSame DEF CreateOK
<1>15. CallsPart'
  BY <1>10, <1>12, <1>14, OneCall
<1> QED
  BY <1>5, <1>8, <1>9, <1>15, FsInvNext

-----------------------------------------------------------------------------
(* A create that ends well: the directory and the file it adds.            *)
LEMMA CreatedFile ==
  ASSUME TypeInv, FsInv, NEW p \in Procs, CreateDone(p),
         NEW c, c = call[p], NEW b, b = Min(FreeBlocks)
  PROVE  /\ c.ino \in Inodes \ (LiveFiles \cup {ROOT_INODE}) /\ c.ino \in inode_bitmap
         /\ c.name \in Names /\ dcache[c.name] = 0
         /\ b \in Blocks \ block_bitmap /\ b # 0 /\ 0 \in block_bitmap
         /\ Dir \in Seq(DirEntry) /\ Dir' = Append(Dir, [filename |-> c.name, inode_no |-> c.ino])
         /\ LiveFiles' = LiveFiles \cup {c.ino}
         /\ root'.i_block = 0 /\ root'.i_blocks # 0 /\ root.i_blocks # 0
         /\ inode_table'[c.ino] = OsfsInode("reg", 0, 1, b) /\ Table(c.ino)' = << >>
         /\ \A g \in LiveFiles : inode_table'[g] = inode_table[g] /\ Table(g)' = Table(g)
         /\ TablesInv'
<1> DEFINE e == [filename |-> c.name, inode_no |-> c.ino]
           d == DirBlock(Append(Dir, e))
<1>1. call[p].pc = "new_inode" /\ FreeBlocks # {}
  BY DEF CreateDone
<1>2. c \in CallType /\ c.ino \in Inodes /\ c.name \in Names
  BY <1>1 DEF TypeInv, TypeOK, CallsTyped
<1>3. c.ino \in inode_bitmap \ (LiveFiles \cup {ROOT_INODE}) /\ dcache[c.name] = 0 /\ ~RootNeedsBlock
  BY <1>1, OnlyCreate DEF CreateOK
<1>4. b \in Blocks \ block_bitmap
  BY <1>1, FirstFree
<1>5. root.i_block = 0 /\ root.i_blocks # 0
  BY <1>3 DEF FsInv, RootInv, RootNeedsBlock
<1>6. 0 \in block_bitmap /\ b # 0
  <2>1. 0 \in RootBlocks
    BY <1>5 DEF RootBlocks
  <2> QED
    BY <1>4, <2>1 DEF FsInv, BlocksAccounted
<1>7. /\ inode_table' = [inode_table EXCEPT ![c.ino] = OsfsInode("reg", 0, 1, b),
                                            ![ROOT_INODE].i_size = root.i_size + 1]
      /\ data_blocks' = [data_blocks EXCEPT ![0] = d]
  BY <1>5 DEF CreateDone
<1>8. inode_table \in [Inodes -> InodeType] /\ ROOT_INODE \in Inodes /\ root \in InodeType
      /\ Dir \in Seq(DirEntry)
  BY RootType DEF TypeInv, TypeOK
<1>9. data_blocks \in [Blocks -> BlockType] /\ 0 \in Blocks
  BY <1>6 DEF TypeInv, TypeOK
<1>10. /\ inode_table'[c.ino] = OsfsInode("reg", 0, 1, b)
       /\ inode_table'[ROOT_INODE] = [root EXCEPT !.i_size = root.i_size + 1]
       /\ \A g \in Inodes : g # c.ino /\ g # ROOT_INODE => inode_table'[g] = inode_table[g]
  BY <1>2, <1>3, <1>7, <1>8 DEF root
<1>11. root' = [root EXCEPT !.i_size = root.i_size + 1]
  BY <1>10 DEF root
<1>12. /\ root'.i_size = root.i_size + 1 /\ root.i_size \in Nat
       /\ root'.i_block = 0 /\ root'.i_blocks # 0
  BY <1>5, <1>8, <1>11 DEF InodeType
<1>13. data_blocks'[0] = d /\ \A a \in Blocks : a # 0 => data_blocks'[a] = data_blocks[a]
  BY <1>7, <1>9
<1>14. d.entries = Append(Dir, e) /\ d.exts = << >>
  BY DEF DirBlock, Block
<1>15. Dir' = Append(Dir, e)
  BY <1>12, <1>13, <1>14 DEF Dir
<1>16. LiveFiles' = LiveFiles \cup {c.ino}
  <2>1. /\ Len(Dir') = Len(Dir) + 1 /\ Dir' \in Seq(DirEntry)
        /\ (\A i \in 1 .. Len(Dir) : Dir'[i] = Dir[i]) /\ Dir'[Len(Dir) + 1] = e
    <3>1. e \in DirEntry
      BY <1>2 DEF DirEntry
    <3> QED
      BY <1>8, <1>15, <3>1, AppendProperties
  <2>2. DOMAIN Dir = 1 .. Len(Dir) /\ DOMAIN Dir' = 1 .. (Len(Dir) + 1) /\ Len(Dir) \in Nat
    BY <1>8, <2>1, LenProperties
  <2>3. DOMAIN Dir' = DOMAIN Dir \cup {Len(Dir) + 1}
    BY <2>2
  <2>4. {Dir'[i].inode_no : i \in DOMAIN Dir'} = {Dir[i].inode_no : i \in DOMAIN Dir} \cup {e.inode_no}
    BY <2>1, <2>2, <2>3
  <2> QED
    BY <2>4 DEF LiveFiles
<1>17. \A g \in LiveFiles : inode_table'[g] = inode_table[g]
  BY <1>3, <1>10, LiveFile
<1>18. ASSUME NEW g \in LiveFiles PROVE Table(g)' = Table(g)
  <2>1. inode_table[g].i_block \in Blocks /\ inode_table[g].i_block # 0
    BY LiveFile
  <2> QED
    BY <1>13, <1>17, <2>1 DEF Table
<1>19. Table(c.ino)' = << >>
  <2>1. inode_table'[c.ino].i_block = b
    BY <1>10 DEF OsfsInode
  <2>2. data_blocks'[b].exts = << >>
    BY <1>4, <1>6, <1>13 DEF FsInv, TablesInv
  <2>3. Table(c.ino)' = data_blocks'[inode_table'[c.ino].i_block].exts
    BY DEF Table
  <2> QED
    BY <2>1, <2>2, <2>3
<1>20. TablesInv'
  <2>1. block_bitmap' = block_bitmap \cup {b}
    BY DEF CreateDone
  <2> QED
    BY <1>13, <1>14, <2>1 DEF FsInv, TablesInv, Blocks
<1> QED
  BY <1>2, <1>3, <1>4, <1>5, <1>6, <1>8, <1>10, <1>12, <1>15, <1>16, <1>17, <1>18, <1>19, <1>20

LEMMA EmptyTable ==
  osfs_extent_total_blocks(<< >>) = 0 /\ ExtentBlocks(<< >>) = {} /\ Len(<< >>) = 0
BY NoExtents, FS_EmptySet DEF osfs_extent_total_blocks

LEMMA DiskCreated ==
  ASSUME TypeInv, FsInv, NEW p \in Procs, CreateDone(p)
  PROVE  DiskPart'
<1>1. PICK c : c = call[p]
  OBVIOUS
<1>2. PICK b : b = Min(FreeBlocks)
  OBVIOUS
<1>3. PICK f : f = c.ino
  OBVIOUS
<1>4. /\ f \notin LiveFiles
      /\ b \in Blocks \ block_bitmap /\ b # 0 /\ 0 \in block_bitmap
      /\ LiveFiles' = LiveFiles \cup {f}
      /\ root'.i_block = 0 /\ root'.i_blocks # 0 /\ root.i_blocks # 0
      /\ inode_table'[f] = OsfsInode("reg", 0, 1, b) /\ Table(f)' = << >>
      /\ \A g \in LiveFiles : inode_table'[g] = inode_table[g] /\ Table(g)' = Table(g)
      /\ TablesInv'
  BY <1>1, <1>2, <1>3, CreatedFile
<1>5. /\ block_bitmap' = block_bitmap \cup {b}
      /\ nr_free_blocks' = Dec(nr_free_blocks)
  BY <1>2 DEF CreateDone
<1>6. inode_table'[f].i_block = b /\ inode_table'[f].i_blocks = 1
  BY <1>4 DEF OsfsInode
<1>7. Owned(f)' = {b} /\ \A g \in LiveFiles : Owned(g)' = Owned(g)
  BY <1>4, <1>6, EmptyTable DEF Owned
<1>8. DiskPart /\ RootInv /\ FilesDisjoint /\ ExtentsDisjoint /\ BlocksAccounted /\ TableCounts
  BY FsInvParts DEF DiskPart
<1>9. RootBlocks = {0} /\ RootBlocks' = {0}
  BY <1>4, <1>8 DEF RootBlocks, RootInv
<1>10. RootInv'
  BY <1>4 DEF RootInv, RootNeedsBlock
<1>11. \A g \in LiveFiles : Owned(g) \subseteq block_bitmap
  BY <1>8 DEF BlocksAccounted
<1>12. FilesDisjoint'
  <2>1. ASSUME NEW g \in LiveFiles \cup {f}
        PROVE  Owned(g)' \cap {0} = {} /\ 0 \notin Owned(g)'
    BY <1>4, <1>7, <1>8 DEF FilesDisjoint
  <2>2. ASSUME NEW g \in LiveFiles \cup {f}, NEW h \in LiveFiles \cup {f}, g # h
        PROVE  Owned(g)' \cap Owned(h)' = {}
    <3>1. CASE g \in LiveFiles /\ h \in LiveFiles
      BY <1>7, <1>8, <2>2, <3>1 DEF FilesDisjoint
    <3>2. CASE g = f /\ h \in LiveFiles
      BY <1>4, <1>7, <1>11, <3>2
    <3>3. CASE h = f /\ g \in LiveFiles
      BY <1>4, <1>7, <1>11, <3>3
    <3> QED
      BY <2>2, <3>1, <3>2, <3>3
  <2> QED
    BY <1>4, <1>9, <2>1, <2>2 DEF FilesDisjoint
<1>13. ExtentsDisjoint'
  <2>1. ASSUME NEW g \in LiveFiles
        PROVE  /\ inode_table'[g].i_block \notin ExtentBlocks(Table(g)')
               /\ RunsApart(Table(g)')
    BY <1>4, <1>8 DEF ExtentsDisjoint, RunsApart
  <2>2. inode_table'[f].i_block \notin ExtentBlocks(Table(f)') /\ RunsApart(Table(f)')
    BY <1>4, EmptyTable DEF RunsApart
  <2> QED
    BY <1>4, <2>1, <2>2 DEF ExtentsDisjoint, RunsApart
<1>14. BlocksAccounted'
  <2>1. UNION {Owned(g)' : g \in LiveFiles \cup {f}} = (UNION {Owned(g) : g \in LiveFiles}) \cup {b}
    BY <1>7
  <2>2. nr_free_blocks' = DATA_BLOCK_COUNT - Cardinality(block_bitmap')
    BY <1>4, <1>5, <1>8, TakeBlock DEF BlocksAccounted
  <2> QED
    BY <1>4, <1>5, <1>8, <1>9, <2>1, <2>2 DEF BlocksAccounted
<1>15. TableCounts'
  <2>1. /\ inode_table'[f].i_blocks = 1 + osfs_extent_total_blocks(Table(f)')
        /\ Len(Table(f)') <= OSFS_MAX_EXTENTS
    BY <1>4, <1>6, EmptyTable, SizesAssumption
  <2> QED
    BY <1>4, <1>8, <2>1 DEF TableCounts
<1> QED
  BY <1>4, <1>10, <1>12, <1>13, <1>14, <1>15 DEF DiskPart

LEMMA NamesCreated ==
  ASSUME TypeInv, FsInv, NEW p \in Procs, CreateDone(p)
  PROVE  NamesPart'
<1>1. PICK c : c = call[p]
  OBVIOUS
<1>2. PICK b : b = Min(FreeBlocks)
  OBVIOUS
<1>3. PICK f : f = c.ino
  OBVIOUS
<1> DEFINE e == [filename |-> c.name, inode_no |-> f]
<1>4. /\ f \in Inodes \ (LiveFiles \cup {ROOT_INODE}) /\ f \in inode_bitmap
      /\ c.name \in Names /\ dcache[c.name] = 0
      /\ Dir \in Seq(DirEntry) /\ Dir' = Append(Dir, e)
      /\ LiveFiles' = LiveFiles \cup {f}
  BY <1>1, <1>2, <1>3, CreatedFile
<1>5. /\ nr_free_inodes' = Inc(Dec(nr_free_inodes)) /\ inode_bitmap' = inode_bitmap
      /\ dcache' = [dcache EXCEPT ![c.name] = f]
  BY <1>1, <1>3 DEF CreateDone
<1>6. NamesPart
  BY FsInvParts
<1>7. nr_free_inodes' = nr_free_inodes
  BY <1>5, IncDec DEF TypeInv, TypeOK
<1>8. /\ Len(Dir') = Len(Dir) + 1 /\ Dir' \in Seq(DirEntry)
      /\ (\A i \in 1 .. Len(Dir) : Dir'[i] = Dir[i]) /\ Dir'[Len(Dir) + 1] = e
  <2>1. e \in DirEntry
    BY <1>4 DEF DirEntry
  <2> QED
    BY <1>4, <2>1, AppendProperties
<1>9. DOMAIN Dir = 1 .. Len(Dir) /\ DOMAIN Dir' = 1 .. (Len(Dir) + 1) /\ Len(Dir) \in Nat
  BY <1>4, <1>8, LenProperties
<1>10. Cardinality(LiveFiles') = Len(Dir')
  <2>1. IsFiniteSet(LiveFiles)
    BY <1>6, BitmapsFinite, FS_Subset DEF NamesPart
  <2>2. Cardinality(LiveFiles \cup {f}) = Cardinality(LiveFiles) + 1
    BY <1>4, <2>1, FS_AddElement
  <2> QED
    BY <1>4, <1>6, <1>8, <2>2 DEF NamesPart
<1>11. ASSUME NEW n \in Names
       PROVE  {Dir'[i].inode_no : i \in {j \in DOMAIN Dir' : Dir'[j].filename = n}} = {dcache'[n]} \ {0}
  <2> DEFINE old == {Dir[i].inode_no : i \in {j \in DOMAIN Dir : Dir[j].filename = n}}
             new == {Dir'[i].inode_no : i \in {j \in DOMAIN Dir' : Dir'[j].filename = n}}
  <2>1. old = {dcache[n]} \ {0}
    BY <1>6 DEF NamesPart
  <2>2. DOMAIN Dir' = DOMAIN Dir \cup {Len(Dir) + 1} /\ \A i \in DOMAIN Dir : Dir'[i] = Dir[i]
    BY <1>8, <1>9
  <2>3. e.filename = c.name /\ e.inode_no = f /\ f # 0
    BY <1>4 DEF Inodes
  <2>4. CASE n = c.name
    <3>1. new = old \cup {f}
      BY <1>8, <2>2, <2>3, <2>4
    <3>2. dcache'[n] = f
      BY <1>4, <1>5, <2>4 DEF TypeInv, TypeOK
    <3> QED
      BY <1>4, <2>1, <2>3, <2>4, <3>1, <3>2
  <2>5. CASE n # c.name
    <3>1. new = old
      BY <1>8, <2>2, <2>3, <2>5
    <3>2. dcache'[n] = dcache[n]
      BY <1>4, <1>5, <2>5 DEF TypeInv, TypeOK
    <3> QED
      BY <2>1, <3>1, <3>2
  <2> QED
    BY <2>4, <2>5
<1> QED
  BY <1>4, <1>5, <1>6, <1>7, <1>10, <1>11 DEF NamesPart

LEMMA DiskCreateDone ==
  ASSUME TypeInv, FsInv, NEW p \in Procs, CreateDone(p)
  PROVE  FsInv'
<1>1. PICK c : c = call[p]
  OBVIOUS
<1>2. PICK b : b = Min(FreeBlocks)
  OBVIOUS
<1>3. PICK f : f = c.ino
  OBVIOUS
<1>4. /\ f \in Inodes \ (LiveFiles \cup {ROOT_INODE})
      /\ LiveFiles' = LiveFiles \cup {f}
      /\ inode_table'[f] = OsfsInode("reg", 0, 1, b)
      /\ \A g \in LiveFiles : inode_table'[g] = inode_table[g] /\ Table(g)' = Table(g)
  BY <1>1, <1>2, <1>3, CreatedFile
<1>5. \A u \in VfsInodes :
        vinode'[u].i_blocks = IF u = <<f, "create">> THEN 1 ELSE vinode[u].i_blocks
  <2> DEFINE t == [vinode EXCEPT ![<<f, "create">>] = VfsInode(0, 1)]
  <2>1. vinode' = [t EXCEPT ![RootVfsInode].i_size = root.i_size + 1]
    BY <1>1, <1>3 DEF CreateDone
  <2>2. vinode \in [VfsInodes -> [i_size : Nat, i_blocks : Nat]]
    BY DEF TypeInv, TypeOK
  <2>3. VfsInode(0, 1) \in [i_size : Nat, i_blocks : Nat] /\ VfsInode(0, 1).i_blocks = 1
    BY DEF VfsInode
  <2>4. t \in [VfsInodes -> [i_size : Nat, i_blocks : Nat]]
    BY <2>2, <2>3
  <2>5. \A u \in VfsInodes : t[u] = IF u = <<f, "create">> THEN VfsInode(0, 1) ELSE vinode[u]
    BY <2>2
  <2> HIDE DEF t
  <2>6. \A u \in VfsInodes : vinode'[u].i_blocks = t[u].i_blocks
    BY <2>1, <2>4
  <2> QED
    BY <2>3, <2>5, <2>6
<1>6. \A g \in LiveFiles \cup {f}, via \in DentryKinds : <<g, via>> \in VfsInodes
  BY <1>4, LiveFile, VfsInodeTypes
<1>7. VfsPart
  BY FsInvParts
<1>8. VfsPart'
  <2>1. \A u \in VfsInodes : vinode'[u].i_blocks # 0 => u[1] \in LiveFiles' \cup {ROOT_INODE}
    BY <1>4, <1>5, <1>7 DEF VfsPart
  <2>2. ASSUME NEW g \in LiveFiles', NEW via \in DentryKinds
        PROVE  vinode'[<<g, via>>].i_blocks <= inode_table'[g].i_blocks
    <3>1. CASE g \in LiveFiles
      <4>1. <<g, via>> # <<f, "create">>
        BY <1>4, <3>1
      <4>2. vinode'[<<g, via>>].i_blocks = vinode[<<g, via>>].i_blocks
        BY <1>5, <1>6, <3>1, <4>1
      <4> QED
        BY <1>4, <1>7, <3>1, <4>2 DEF VfsPart
    <3>2. CASE g = f
      <4>1. inode_table'[g].i_blocks = 1
        BY <1>4, <3>2 DEF OsfsInode
      <4>2. vinode[<<g, via>>].i_blocks = 0
        BY <1>4, <1>6, <1>7, <3>2 DEF VfsPart
      <4>3. vinode'[<<g, via>>].i_blocks \in {0, 1}
        BY <1>5, <1>6, <3>2, <4>2
      <4> QED
        BY <4>1, <4>3
    <3> QED
      BY <1>4, <3>1, <3>2
  <2> QED
    BY <2>1, <2>2 DEF VfsPart
<1>9. call' = [call EXCEPT ![p] = Idle] /\ Idle.pc = "idle" /\ call[p].pc = "new_inode"
  BY DEF CreateDone, Return, Idle
<1>10. call'[p] = Idle /\ \A q \in Procs : q # p => call'[q] = call[q]
  BY <1>9 DEF TypeInv, TypeOK
<1>11. FileCallOK(p)'
  BY <1>9, <1>10 DEF FileCallOK
<1>12. ASSUME NEW g \in LiveFiles, NEW via \in OpenVia(g) PROVE via \in OpenVia(g)'
  <2>1. via \in DentryKinds /\ <<g, via>> \in VfsInodes /\ vinode[<<g, via>>].i_blocks # 0
    BY <1>6 DEF OpenVia
  <2>2. vinode'[<<g, via>>].i_blocks # 0
    BY <1>5, <2>1
  <2> QED
    BY <2>1, <2>2 DEF OpenVia
<1>13. \A q \in Procs : q # p => FileCallOK(q)'
  BY <1>4, <1>10, <1>12, FileCallSame
<1>14. \A q \in Procs : q # p => CreateOK(q)'
  BY <1>9, <1>10, OnlyCreate DEF CreateOK
<1>15. CallsPart'
  BY <1>9, <1>11, <1>13, <1>14, OneCall
<1> QED
  BY <1>8, <1>15, DiskCreated, NamesCreated, FsInvNext

-----------------------------------------------------------------------------
(* A block is appended to a file: what the file, the other files and the   *)
(* directory are afterwards.                                               *)
LEMMA AppendedBlock ==
  ASSUME TypeInv, FsInv, NEW p \in Procs, WriteAppend(p),
         NEW c, c = call[p], NEW f, f = c.ino, NEW b, b = Min(FreeBlocks),
         NEW exts, exts = Table(f), NEW new, new = osfs_extent_append(exts, b)
  PROVE  /\ f \in LiveFiles /\ c.pc = "map" /\ c.via \in OpenVia(f)
         /\ b \in Blocks \ block_bitmap /\ b \in Nat \ {0}
         /\ exts \in Seq(Extent) /\ new \in Seq(Extent)
         /\ Table(f)' = new /\ Len(new) <= OSFS_MAX_EXTENTS
         /\ Dir' = Dir /\ root' = root
         /\ inode_table'[f] = [inode_table[f] EXCEPT !.i_blocks = @ + 1]
         /\ \A g \in LiveFiles : g # f => inode_table'[g] = inode_table[g] /\ Table(g)' = Table(g)
         /\ TablesInv'
<1>1. /\ Unmapped(call[p]) /\ ~NoRoom(Table(f))
      /\ block_bitmap' = block_bitmap \cup {b}
      /\ data_blocks' = [data_blocks EXCEPT ![inode_table[f].i_block] = ExtentTable(new)]
      /\ inode_table' = [inode_table EXCEPT ![f].i_blocks = @ + 1]
  BY DEF WriteAppend
<1>2. f \in LiveFiles /\ c.pc = "map" /\ c.via \in OpenVia(f)
  BY <1>1, FileCallNow DEF Unmapped
<1>3. FreeBlocks # {} /\ (Len(exts) < OSFS_MAX_EXTENTS \/ CanMerge(exts, b))
  <2>1. Len(exts) \in Nat /\ OSFS_MAX_EXTENTS \in Nat
    BY <1>2, LiveFile, LenProperties, SizesAssumption
  <2> QED
    BY <1>1, <2>1 DEF NoRoom
<1>4. b \in Blocks \ block_bitmap /\ b \in Nat
  BY <1>3, FirstFree, SizesAssumption DEF Blocks
<1>5. exts \in Seq(Extent) /\ new \in Seq(Extent)
  BY <1>2, <1>4, LiveFile, AppendTable
<1>6. /\ f \in Inodes /\ f # ROOT_INODE
      /\ inode_table[f].i_block \in block_bitmap \ {0} /\ inode_table[f].i_block \in Blocks
  BY <1>2, LiveFile
<1>7. b # 0
  <2>1. ~RootNeedsBlock
    BY <1>2, EmptyDisk
  <2>2. 0 \in block_bitmap
    BY <2>1 DEF FsInv, RootInv, RootNeedsBlock, BlocksAccounted, RootBlocks
  <2> QED
    BY <1>4, <2>2
<1>8. Len(new) <= OSFS_MAX_EXTENTS
  <2>1. Len(exts) <= OSFS_MAX_EXTENTS
    BY <1>2 DEF FsInv, BlockCountsRight
  <2>2. Len(exts) \in Nat /\ OSFS_MAX_EXTENTS \in Nat
    BY <1>5, LenProperties, SizesAssumption
  <2>3. Len(new) = IF CanMerge(exts, b) THEN Len(exts) ELSE Len(exts) + 1
    BY <1>4, <1>5, AppendTable
  <2> QED
    BY <1>3, <2>1, <2>2, <2>3
<1>9. inode_table \in [Inodes -> InodeType] /\ data_blocks \in [Blocks -> BlockType]
      /\ ROOT_INODE \in Inodes /\ 0 \in Blocks
  BY RootType, SizesAssumption DEF TypeInv, TypeOK, Blocks
<1>10. /\ inode_table'[f] = [inode_table[f] EXCEPT !.i_blocks = @ + 1]
       /\ \A g \in Inodes : g # f => inode_table'[g] = inode_table[g]
  BY <1>1, <1>6, <1>9
<1>11. inode_table'[f].i_block = inode_table[f].i_block
  BY <1>6, <1>9, <1>10 DEF InodeType
<1>12. ExtentTable(new).exts = new /\ ExtentTable(new).kind = "ext"
  BY DEF ExtentTable, Block
<1>13. /\ data_blocks'[inode_table[f].i_block] = ExtentTable(new)
       /\ \A a \in Blocks : a # inode_table[f].i_block => data_blocks'[a] = data_blocks[a]
  BY <1>1, <1>6, <1>9
<1>14. Table(f)' = new
  <2>1. Table(f)' = data_blocks'[inode_table'[f].i_block].exts
    BY DEF Table
  <2> QED
    BY <1>11, <1>12, <1>13, <2>1
<1>15. root' = root /\ root.i_block = 0
  BY <1>6, <1>9, <1>10 DEF root, FsInv, RootInv
<1>16. Dir' = Dir
  BY <1>6, <1>9, <1>13, <1>15 DEF Dir
<1>17. ASSUME NEW g \in LiveFiles, g # f
       PROVE  inode_table'[g] = inode_table[g] /\ Table(g)' = Table(g)
  <2>1. g \in Inodes /\ inode_table[g].i_block \in Blocks
    BY LiveFile
  <2>2. inode_table[g].i_block # inode_table[f].i_block
    BY <1>2, <1>17 DEF FsInv, FilesDisjoint, Owned
  <2>3. inode_table'[g] = inode_table[g]
    BY <1>10, <1>17, <2>1
  <2>4. Table(g)' = data_blocks'[inode_table'[g].i_block].exts
    BY DEF Table
  <2> QED
    BY <1>13, <2>1, <2>2, <2>3, <2>4 DEF Table
<1>18. TablesInv'
  <2>1. SUFFICES ASSUME NEW d \in Blocks
                 PROVE  \/ data_blocks'[d].exts = << >>
                        \/ data_blocks'[d].kind = "ext" /\ d \in block_bitmap'
    BY DEF TablesInv, Blocks
  <2> QED
    BY <1>1, <1>6, <1>12, <1>13 DEF FsInv, TablesInv
<1> QED
  BY <1>2, <1>4, <1>5, <1>7, <1>8, <1>10, <1>14, <1>15, <1>16, <1>17, <1>18

(* The blocks of a file are its table's block and the blocks of its runs.  *)
LEMMA OwnedBlocks ==
  ASSUME NEW g
  PROVE  /\ Owned(g) = {inode_table[g].i_block} \cup ExtentBlocks(Table(g))
         /\ Owned(g)' = {inode_table'[g].i_block} \cup ExtentBlocks(Table(g)')
BY DEF Owned, Table

(* The blocks stay accounted for and apart when one is appended.           *)
LEMMA DiskAppended ==
  ASSUME TypeInv, FsInv, NEW p \in Procs, WriteAppend(p)
  PROVE  DiskPart'
<1>1. PICK c : c = call[p]
  OBVIOUS
<1>2. PICK f : f = c.ino
  OBVIOUS
<1>3. PICK b : b = Min(FreeBlocks)
  OBVIOUS
<1>4. PICK exts : exts = Table(f)
  OBVIOUS
<1>5. PICK new : new = osfs_extent_append(exts, b)
  OBVIOUS
<1>6. /\ f \in LiveFiles
      /\ b \in Blocks \ block_bitmap /\ b \in Nat \ {0}
      /\ exts \in Seq(Extent) /\ new \in Seq(Extent)
      /\ Table(f)' = new /\ Len(new) <= OSFS_MAX_EXTENTS
      /\ Dir' = Dir /\ root' = root
      /\ inode_table'[f] = [inode_table[f] EXCEPT !.i_blocks = @ + 1]
      /\ \A g \in LiveFiles : g # f => inode_table'[g] = inode_table[g] /\ Table(g)' = Table(g)
      /\ TablesInv'
  BY <1>1, <1>2, <1>3, <1>4, <1>5, AppendedBlock
<1>7. /\ block_bitmap' = block_bitmap \cup {b}
      /\ nr_free_blocks' = Dec(nr_free_blocks)
  BY <1>3 DEF WriteAppend
<1>8. LiveFiles' = LiveFiles
  BY <1>6 DEF LiveFiles
<1>9. RootBlocks' = RootBlocks /\ (RootNeedsBlock' <=> RootNeedsBlock)
  BY <1>6 DEF RootBlocks, RootNeedsBlock
<1>10. DiskPart /\ RootInv /\ FilesDisjoint /\ ExtentsDisjoint /\ BlocksAccounted /\ TableCounts
  BY FsInvParts DEF DiskPart
<1>11. /\ inode_table'[f].i_block = inode_table[f].i_block
       /\ inode_table'[f].i_blocks = inode_table[f].i_blocks + 1
       /\ inode_table[f].i_blocks \in Nat
  <2>1. inode_table[f] \in InodeType
    BY <1>6, LiveFile
  <2> QED
    BY <1>6, <2>1 DEF InodeType
<1>12. ExtentBlocks(new) = ExtentBlocks(exts) \cup {b}
  BY <1>5, <1>6, AppendTable
<1>13. Owned(f)' = Owned(f) \cup {b} /\ \A g \in LiveFiles : g # f => Owned(g)' = Owned(g)
  BY <1>4, <1>6, <1>11, <1>12, OwnedBlocks
<1>14. \A g \in LiveFiles : Owned(g) \subseteq block_bitmap
  BY <1>10 DEF BlocksAccounted
<1>15. RootInv'
  BY <1>6, <1>9, <1>10 DEF RootInv
<1>16. FilesDisjoint'
  <2>1. RootBlocks \subseteq block_bitmap
    BY <1>10 DEF BlocksAccounted
  <2>2. ASSUME NEW g \in LiveFiles
        PROVE  Owned(g)' \cap RootBlocks = {} /\ 0 \notin Owned(g)'
    BY <1>6, <1>10, <1>13, <2>1 DEF FilesDisjoint
  <2>3. ASSUME NEW g \in LiveFiles, NEW h \in LiveFiles, g # h
        PROVE  Owned(g)' \cap Owned(h)' = {}
    <3>1. Owned(g) \cap Owned(h) = {} /\ b \notin Owned(g) /\ b \notin Owned(h)
      BY <1>6, <1>10, <1>14, <2>3 DEF FilesDisjoint
    <3>2. CASE g # f /\ h # f
      BY <1>13, <3>1, <3>2
    <3>3. CASE g = f
      BY <1>13, <2>3, <3>1, <3>3
    <3>4. CASE h = f
      BY <1>13, <2>3, <3>1, <3>4
    <3> QED
      BY <3>2, <3>3, <3>4
  <2> QED
    BY <1>8, <1>9, <2>2, <2>3 DEF FilesDisjoint
<1>17. ExtentsDisjoint'
  <2>1. ASSUME NEW g \in LiveFiles
        PROVE  /\ inode_table'[g].i_block \notin ExtentBlocks(Table(g)')
               /\ RunsApart(Table(g)')
    <3>1. inode_table[g].i_block \notin ExtentBlocks(Table(g)) /\ RunsApart(Table(g))
      BY <1>10 DEF ExtentsDisjoint, RunsApart
    <3>2. CASE g # f
      BY <1>6, <3>1, <3>2
    <3>3. CASE g = f
      <4>1. inode_table[f].i_block \in Owned(f) /\ ExtentBlocks(exts) \subseteq Owned(f)
        BY <1>4, OwnedBlocks
      <4>2. inode_table[f].i_block # b /\ b \notin ExtentBlocks(exts)
        BY <1>6, <1>14, <4>1
      <4>3. RunsApart(new)
        BY <1>4, <1>5, <1>6, <3>1, <3>3, <4>2, AppendApart
      <4> QED
        BY <1>4, <1>6, <1>11, <1>12, <3>1, <3>3, <4>2, <4>3
    <3> QED
      BY <3>2, <3>3
  <2> QED
    BY <1>8, <2>1 DEF ExtentsDisjoint, RunsApart
<1>18. BlocksAccounted'
  <2>1. UNION {Owned(g)' : g \in LiveFiles} = (UNION {Owned(g) : g \in LiveFiles}) \cup {b}
    BY <1>6, <1>13
  <2>2. nr_free_blocks' = DATA_BLOCK_COUNT - Cardinality(block_bitmap')
    BY <1>6, <1>7, <1>10, TakeBlock DEF BlocksAccounted
  <2> QED
    BY <1>7, <1>8, <1>9, <1>10, <2>1, <2>2 DEF BlocksAccounted
<1>19. TableCounts'
  <2>1. ASSUME NEW g \in LiveFiles
        PROVE  /\ inode_table'[g].i_blocks = 1 + osfs_extent_total_blocks(Table(g)')
               /\ Len(Table(g)') <= OSFS_MAX_EXTENTS
    <3>1. /\ inode_table[g].i_blocks = 1 + osfs_extent_total_blocks(Table(g))
          /\ Len(Table(g)) <= OSFS_MAX_EXTENTS
      BY <1>10 DEF TableCounts
    <3>2. CASE g # f
      BY <1>6, <3>1, <3>2
    <3>3. CASE g = f
      <4>1. osfs_extent_total_blocks(new) = osfs_extent_total_blocks(exts) + 1
            /\ osfs_extent_total_blocks(exts) \in Nat
        BY <1>5, <1>6, AppendMaps, TotalIsNat
      <4>2. inode_table[f].i_blocks = 1 + osfs_extent_total_blocks(exts)
        BY <1>4, <3>1, <3>3
      <4>3. inode_table'[f].i_blocks = 1 + osfs_extent_total_blocks(new)
        BY <1>11, <4>1, <4>2
      <4> QED
        BY <1>6, <3>3, <4>3
    <3> QED
      BY <3>2, <3>3
  <2> QED
    BY <1>8, <2>1 DEF TableCounts
<1> QED
  BY <1>6, <1>15, <1>16, <1>17, <1>18, <1>19 DEF DiskPart

(* What the calls in progress know is still so when a block is appended.   *)
LEMMA DiskWriteAppend ==
  ASSUME TypeInv, FsInv, NEW p \in Procs, WriteAppend(p)
  PROVE  FsInv'
<1>1. PICK c : c = call[p]
  OBVIOUS
<1>2. PICK f : f = c.ino
  OBVIOUS
<1>3. PICK b : b = Min(FreeBlocks)
  OBVIOUS
<1>4. PICK exts : exts = Table(f)
  OBVIOUS
<1>5. PICK new : new = osfs_extent_append(exts, b)
  OBVIOUS
<1>6. /\ f \in LiveFiles /\ c.pc = "map" /\ c.via \in OpenVia(f)
      /\ b \in Nat
      /\ exts \in Seq(Extent) /\ new \in Seq(Extent)
      /\ Table(f)' = new
      /\ Dir' = Dir /\ root' = root
      /\ inode_table'[f] = [inode_table[f] EXCEPT !.i_blocks = @ + 1]
      /\ \A g \in LiveFiles : g # f => inode_table'[g] = inode_table[g] /\ Table(g)' = Table(g)
  BY <1>1, <1>2, <1>3, <1>4, <1>5, AppendedBlock
<1>7. LiveFiles' = LiveFiles /\ (RootNeedsBlock' <=> RootNeedsBlock)
  BY <1>6 DEF LiveFiles, RootNeedsBlock
<1>8. UNCHANGED <<inodeVars, dcache>>
  BY DEF WriteAppend
<1>9. NamesPart'
  <2>1. NamesPart
    BY FsInvParts
  <2>2. Dir' = Dir
    BY <1>6
  <2> QED
    BY <1>7, <1>8, <2>1, <2>2 DEF NamesPart, inodeVars
<1>10. inode_table[f].i_blocks \in Nat /\ inode_table'[f].i_blocks = inode_table[f].i_blocks + 1
  <2>1. inode_table[f] \in InodeType
    BY <1>6, LiveFile
  <2> QED
    BY <1>6, <2>1 DEF InodeType
<1> DEFINE v == <<f, c.via>>
<1>11. \A g \in LiveFiles, via \in DentryKinds : <<g, via>> \in VfsInodes
  BY LiveFile, VfsInodeTypes
<1>12. \A u \in VfsInodes :
         vinode'[u].i_blocks = IF u = v THEN inode_table[f].i_blocks + 1 ELSE vinode[u].i_blocks
  <2>1. vinode' = [vinode EXCEPT ![v].i_blocks = inode_table[f].i_blocks + 1]
    BY <1>1, <1>2 DEF WriteAppend
  <2>2. vinode \in [VfsInodes -> [i_size : Nat, i_blocks : Nat]]
    BY DEF TypeInv, TypeOK
  <2> HIDE DEF v
  <2> QED
    BY <2>1, <2>2
<1>13. VfsPart
  BY FsInvParts
<1>14. VfsPart'
  <2>1. ASSUME NEW u \in VfsInodes, vinode'[u].i_blocks # 0
        PROVE  u[1] \in LiveFiles \cup {ROOT_INODE}
    <3>1. CASE u = v
      BY <1>6, <3>1
    <3>2. CASE u # v
      BY <1>12, <1>13, <2>1, <3>2 DEF VfsPart
    <3> QED
      BY <3>1, <3>2
  <2>2. ASSUME NEW g \in LiveFiles, NEW via \in DentryKinds
        PROVE  vinode'[<<g, via>>].i_blocks <= inode_table'[g].i_blocks
    <3>1. <<g, via>> \in VfsInodes /\ vinode[<<g, via>>].i_blocks <= inode_table[g].i_blocks
      BY <1>11, <1>13 DEF VfsPart
    <3>2. vinode[<<g, via>>].i_blocks \in Nat
      BY <3>1 DEF TypeInv, TypeOK
    <3>3. CASE <<g, via>> = v
      <4>1. g = f
        BY <3>3
      <4>2. vinode'[<<g, via>>].i_blocks = inode_table[f].i_blocks + 1
        BY <1>12, <3>1, <3>3
      <4> QED
        BY <1>10, <4>1, <4>2
    <3>4. CASE <<g, via>> # v
      <4>1. vinode'[<<g, via>>].i_blocks = vinode[<<g, via>>].i_blocks
        BY <1>12, <3>1, <3>4
      <4>2. CASE g = f
        BY <1>10, <3>1, <3>2, <4>1, <4>2
      <4>3. CASE g # f
        BY <1>6, <3>1, <4>1, <4>3
      <4> QED
        BY <4>2, <4>3
    <3> QED
      BY <3>3, <3>4
  <2> QED
    BY <1>7, <2>1, <2>2 DEF VfsPart
<1>15. ASSUME NEW g \in LiveFiles, NEW via \in OpenVia(g) PROVE via \in OpenVia(g)'
  <2>1. via \in DentryKinds /\ <<g, via>> \in VfsInodes /\ vinode[<<g, via>>].i_blocks # 0
    BY <1>11 DEF OpenVia
  <2>2. vinode'[<<g, via>>].i_blocks # 0
    BY <1>10, <1>12, <2>1
  <2> QED
    BY <2>1, <2>2 DEF OpenVia
<1>16. /\ osfs_extent_total_blocks(new) = osfs_extent_total_blocks(exts) + 1
       /\ osfs_extent_total_blocks(exts) \in Nat
       /\ \A idx \in Nat : idx < osfs_extent_total_blocks(exts) =>
            osfs_extent_lookup_block(new, idx) = osfs_extent_lookup_block(exts, idx)
  BY <1>5, <1>6, AppendMaps, TotalIsNat
<1>17. ASSUME NEW g \in LiveFiles
       PROVE  /\ osfs_extent_total_blocks(Table(g)) <= osfs_extent_total_blocks(Table(g)')
              /\ osfs_extent_total_blocks(Table(g)') \in Nat
              /\ \A idx \in Nat : idx < osfs_extent_total_blocks(Table(g)) =>
                   osfs_extent_lookup_block(Table(g)', idx) = osfs_extent_lookup_block(Table(g), idx)
  <2>1. CASE g = f
    BY <1>4, <1>6, <1>16, <2>1
  <2>2. CASE g # f
    <3>1. osfs_extent_total_blocks(Table(g)) \in Nat
      BY LiveFile
    <3> QED
      BY <1>6, <2>2, <3>1
  <2> QED
    BY <2>1, <2>2
<1>18. \A q \in Procs : call'[q] = call[q] => FileCallOK(q)'
  BY <1>7, <1>15, <1>17, FileCallKept
<1>19. PICK d : /\ call' = [call EXCEPT ![p] = d] /\ d.pc # "new_inode"
                /\ \/ d.pc = "idle"
                   \/ /\ d.pc = "copy" /\ d.ino = f /\ d.via = c.via
                      /\ d.total = c.total + 1 /\ LogicalBlock(d) = LogicalBlock(c)
                      /\ d.phys \in osfs_extent_lookup_block(new, LogicalBlock(c))
  <2> DEFINE hits == osfs_extent_lookup_block(new, LogicalBlock(c))
  <2>1. CASE hits = {}
    <3>1. Return(p, "ENOENT")
      BY <1>1, <1>2, <1>3, <1>4, <1>5, <2>1 DEF WriteAppend
    <3>2. PICK d : d = Idle
      OBVIOUS
    <3>3. d.pc = "idle"
      BY <3>2 DEF Idle
    <3>4. call' = [call EXCEPT ![p] = d]
      BY <3>1, <3>2 DEF Return
    <3> QED
      BY <3>3, <3>4
  <2>2. CASE hits # {}
    <3>1. PICK phys \in hits :
            call' = [call EXCEPT ![p].pc = "copy", ![p].phys = phys, ![p].total = @ + 1]
      BY <1>1, <1>2, <1>3, <1>4, <1>5, <2>2 DEF WriteAppend
    <3>2. PICK d : d = [c EXCEPT !.pc = "copy", !.phys = phys, !.total = @ + 1]
      OBVIOUS
    <3>3. call' = [call EXCEPT ![p] = d]
      BY <1>1, <3>1, <3>2 DEF TypeInv, TypeOK
    <3>4. c \in CallType
      BY <1>1, <1>6, FileCallNow
    <3>5. /\ d.pc = "copy" /\ d.ino = f /\ d.via = c.via /\ d.phys = phys
          /\ d.total = c.total + 1 /\ d.pos = c.pos
      BY <1>2, <3>2, <3>4 DEF CallType
    <3>6. LogicalBlock(d) = LogicalBlock(c)
      BY <3>5 DEF LogicalBlock
    <3> QED
      BY <3>1, <3>3, <3>5, <3>6
  <2> QED
    BY <2>1, <2>2
<1>20. call'[p] = d /\ \A q \in Procs : q # p => call'[q] = call[q]
  BY <1>19 DEF TypeInv, TypeOK
<1>21. FileCallOK(p)'
  <2>1. CASE d.pc = "idle"
    BY <1>20, <2>1 DEF FileCallOK
  <2>2. CASE d.pc # "idle"
    <3>1. /\ d.pc = "copy" /\ d.ino = f /\ d.via = c.via
          /\ d.total = c.total + 1 /\ LogicalBlock(d) = LogicalBlock(c)
          /\ d.phys \in osfs_extent_lookup_block(new, LogicalBlock(c))
      BY <1>19, <2>2
    <3>2. c.total \in Nat /\ LogicalBlock(c) \in Nat /\ c.total <= osfs_extent_total_blocks(exts)
      BY <1>1, <1>2, <1>4, <1>6, FileCallNow DEF CallType
    <3>3. d.total <= osfs_extent_total_blocks(new)
      BY <1>16, <3>1, <3>2
    <3>4. osfs_extent_lookup_block(new, LogicalBlock(d)) = {d.phys}
      BY <1>6, <3>1, <3>2, LookupMapped
    <3>5. d.via \in OpenVia(f)'
      BY <1>6, <1>15, <3>1
    <3> QED
      BY <1>6, <1>7, <1>20, <3>1, <3>3, <3>4, <3>5, FileCallNext
  <2> QED
    BY <2>1, <2>2
<1>22. \A q \in Procs : q # p => CreateOK(q)'
  <2>1. \A q \in Procs : CreateOK(q)
    BY DEF FsInv, CallsInv
  <2> QED
    BY <1>7, <1>8, <1>20, <2>1 DEF CreateOK, inodeVars
<1>23. CallsPart'
  BY <1>18, <1>19, <1>20, <1>21, <1>22, OneCall
<1> QED
  BY <1>9, <1>14, <1>23, DiskAppended, FsInvNext

-----------------------------------------------------------------------------
LEMMA FsInvEmpty == Empty => FsInv
<1> SUFFICES ASSUME Empty PROVE FsInv
  OBVIOUS
<1> USE DEF Empty
<1>1. ROOT_INODE \in Inodes /\ ROOT_INODE = 1
  BY SizesAssumption DEF ROOT_INODE, Inodes
<1>2. root = OsfsInode("dir", 0, 0, 0)
  BY <1>1 DEF root
<1>3. root.i_size = 0 /\ root.i_blocks = 0 /\ root.i_block = 0
  BY <1>2 DEF OsfsInode
<1>4. Dir = << >> /\ LiveFiles = {} /\ RootBlocks = {}
  BY <1>3 DEF Dir, LiveFiles, RootBlocks
<1>5. Cardinality({ROOT_INODE}) = 1 /\ Cardinality({}) = 0
  BY FS_Singleton, FS_EmptySet
<1>6. INODE_COUNT \in Nat /\ DATA_BLOCK_COUNT \in Nat
  BY SizesAssumption
<1>7. \A q \in Procs : call[q].pc = "idle"
  OBVIOUS
<1>8. DiskPart
  <2>1. RootInv
    BY <1>3 DEF RootInv
  <2>2. TablesInv
    BY DEF TablesInv, RawBlock, Block
  <2>3. FilesDisjoint /\ ExtentsDisjoint /\ TableCounts
    BY <1>4 DEF FilesDisjoint, ExtentsDisjoint, TableCounts
  <2>4. BlocksAccounted
    BY <1>4, <1>5, <1>6 DEF BlocksAccounted
  <2> QED
    BY <2>1, <2>2, <2>3, <2>4 DEF DiskPart
<1>9. NamesPart
  BY <1>4, <1>5, <1>6 DEF NamesPart
<1>10. VfsPart
  BY <1>4 DEF VfsPart, VfsInode
<1>11. CallsPart
  BY <1>7 DEF CallsPart, CreateOK, FileCallOK
<1> QED
  BY <1>8, <1>9, <1>10, <1>11, FsInvParts

LEMMA FsInvInit == Init => FsInv
BY InitIsEmpty, FsInvEmpty

LEMMA FsInvStep == TypeInv /\ FsInv /\ [Next]_vars => FsInv'
<1> SUFFICES ASSUME TypeInv, FsInv, [Next]_vars PROVE FsInv'
  OBVIOUS
<1>1. ASSUME NEW p \in Procs, Call(p) PROVE FsInv'
  <2>1. ASSUME NEW n \in Names,
               CreateNameTooLong(p, n) \/ CreateNoSpace(p, n) \/ CreateStart(p, n)
        PROVE  FsInv'
    BY <2>1, DiskReturns, DiskCreateNoSpace, DiskCreateStart
  <2>2. ASSUME NEW ino \in OpenFiles, NEW pos \in Positions, NEW len \in Lens,
               \/ \E via \in OpenVia(ino) :
                    \/ \E v \in Vals : WriteStart(p, ino, via, pos, len, v)
                    \/ ReadStart(p, ino, via, pos, len)
               \/ ReadShort(p, ino, pos, len)
        PROVE  FsInv'
    BY <2>2, DiskWriteStart, DiskReadStart, DiskReadShort
  <2> QED
    BY <1>1, <2>1, <2>2 DEF Call
<1>2. ASSUME NEW p \in Procs, Continue(p) PROVE FsInv'
  <2>1. CASE CreateNoMemory(p) \/ CreateNoBlock(p) \/ CreateRollback(p) \/ CreateDone(p)
    BY <2>1, DiskReturns, DiskCreateNoBlock, DiskCreateRollback, DiskCreateDone
  <2>2. CASE WriteMapped(p) \/ WriteHole(p) \/ WriteNoSpace(p) \/ WriteAppend(p)
    BY <2>2, DiskReturns, DiskWriteMapped, DiskWriteAppend
  <2>3. CASE WriteCopy(p) \/ WriteFault(p) \/ ReadBlock(p)
    BY <2>3, DiskWriteCopy, DiskWriteFault, DiskReadBlock
  <2> QED
    BY <1>2, <2>1, <2>2, <2>3 DEF Continue
<1>3. ASSUME NEW i \in DOMAIN Dir, Lookup(i) PROVE FsInv'
  BY <1>3, DiskLookup
<1>4. ASSUME NEW ino \in OpenFiles, Evict(ino) PROVE FsInv'
  BY <1>4, DiskEvict
<1>5. ASSUME NEW n \in Truncating, NEW via \in DentryKinds, Truncate(n, via) PROVE FsInv'
  BY <1>5, DiskTruncate
<1>6. CASE UNCHANGED vars
  BY <1>6, NothingChanged, QuietStill DEF vars, fsVars, inodeVars, blockVars
<1> QED
  BY <1>1, <1>2, <1>3, <1>4, <1>5, <1>6 DEF Next

(* FsInv holds of every reachable state, whatever creates, writes, reads,  *)
(* lookups and evictions are interleaved and whichever of them fail.       *)
THEOREM FsCorrect == Spec => []FsInv
<1>1. TypeInv /\ FsInv /\ [Next]_vars => FsInv'
  BY FsInvStep
<1> QED
  BY <1>1, FsInvInit, TypeCorrect, PTL DEF Spec

(* No block belongs to two files, or to a file and the root directory.     *)
THEOREM FilesAreDisjoint == Spec => []FilesDisjoint
<1>1. FsInv => FilesDisjoint
  BY DEF FsInv
<1> QED
  BY <1>1, FsCorrect, PTL

(* No two logical blocks of a file share a block, and none is its table's. *)
THEOREM ExtentsAreDisjoint == Spec => []ExtentsDisjoint
<1>1. FsInv => ExtentsDisjoint
  BY DEF FsInv
<1> QED
  BY <1>1, FsCorrect, PTL

(* No error path of osfs leaks a block or marks a free one, and            *)
(* nr_free_blocks counts the clear bits.                                   *)
THEOREM BlocksAreAccounted == Spec => []BlocksAccounted
<1>1. FsInv => BlocksAccounted
  BY DEF FsInv
<1> QED
  BY <1>1, FsCorrect, PTL

(* i_blocks of an osfs inode is right, and no VFS inode counts more.       *)
THEOREM BlockCountsAreRight == Spec => []BlockCountsRight
<1>1. FsInv => BlockCountsRight
  BY DEF FsInv
<1> QED
  BY <1>1, FsCorrect, PTL

(* The inode numbers in use are marked, once each, and counted.            *)
THEOREM InodesAreAccounted == Spec => []InodesAccounted
<1>1. FsInv => InodesAccounted
  BY DEF FsInv
<1> QED
  BY <1>1, FsCorrect, PTL

(* Entries, pinned dentries and VFS inodes stay in step.                   *)
THEOREM DentriesArePinned == Spec => []DentriesPinned
<1>1. FsInv => DentriesPinned
  BY DEF FsInv
<1> QED
  BY <1>1, FsCorrect, PTL

(* The block a writer computed before it slept is its block when it wakes. *)
THEOREM HeldBlocksAreValid == Spec => []HeldBlockValid
<1>1. FsInv => HeldBlockValid
  BY DEF FsInv
<1> QED
  BY <1>1, FsCorrect, PTL

-----------------------------------------------------------------------------
(* The table of a file stays as it is unless a block is appended.          *)
SameTables == \A f \in LiveFiles : Table(f)' = Table(f)

LEMMA SameData ==
  ASSUME UNCHANGED <<inode_table, data_blocks>>
  PROVE  SameTables
BY DEF SameTables, Table

LEMMA SameTablesCreate ==
  ASSUME TypeInv, FsInv, NEW p \in Procs,
         \/ \E n \in Names : CreateNameTooLong(p, n) \/ CreateNoSpace(p, n) \/ CreateStart(p, n)
         \/ CreateNoMemory(p) \/ CreateNoBlock(p) \/ CreateRollback(p) \/ CreateDone(p)
  PROVE  SameTables
<1>1. ASSUME GiveRootBlock, UNCHANGED data_blocks PROVE SameTables
  <2>1. CASE RootNeedsBlock
    BY <2>1, EmptyDisk DEF SameTables
  <2>2. CASE ~RootNeedsBlock
    BY <1>1, <2>2, SameData DEF GiveRootBlock
  <2> QED
    BY <2>1, <2>2
<1>2. ASSUME NEW n \in Names,
             CreateNameTooLong(p, n) \/ CreateNoSpace(p, n) \/ CreateStart(p, n)
      PROVE  SameTables
  <2>1. CASE CreateNameTooLong(p, n)
    BY <2>1, SameData DEF CreateNameTooLong, fsVars
  <2>2. CASE CreateNoSpace(p, n)
    BY <1>1, <2>2, SameData DEF CreateNoSpace
  <2>3. CASE CreateStart(p, n)
    BY <1>1, <2>3 DEF CreateStart
  <2> QED
    BY <1>2, <2>1, <2>2, <2>3
<1>3. CASE CreateNoMemory(p)
  BY <1>3, SameData DEF CreateNoMemory, fsVars
<1>4. CASE CreateNoBlock(p)
  BY <1>4, OtherInode DEF CreateNoBlock, SameTables, SameFiles
<1>5. CASE CreateRollback(p)
  <2>1. UNCHANGED blockVars
    BY <1>5, IncDec DEF CreateRollback, TypeInv, TypeOK, blockVars
  <2>2. PICK new : inode_table' = [inode_table EXCEPT ![call[p].ino] = new]
    BY <1>5 DEF CreateRollback
  <2>3. call[p].pc = "new_inode" /\ UNCHANGED data_blocks
    BY <1>5 DEF CreateRollback
  <2> QED
    BY <2>1, <2>2, <2>3, OtherInode DEF SameTables, SameFiles
<1>6. CASE CreateDone(p)
  BY <1>6, CreatedFile DEF SameTables
<1> QED
  BY <1>2, <1>3, <1>4, <1>5, <1>6

LEMMA SameTablesFile ==
  ASSUME TypeInv, FsInv, NEW p \in Procs,
         \/ \E ino \in OpenFiles, pos \in Positions, len \in Lens :
              \/ \E via \in OpenVia(ino) :
                   \/ \E v \in Vals : WriteStart(p, ino, via, pos, len, v)
                   \/ ReadStart(p, ino, via, pos, len)
              \/ ReadShort(p, ino, pos, len)
         \/ WriteMapped(p) \/ WriteHole(p) \/ WriteNoSpace(p)
         \/ WriteCopy(p) \/ WriteFault(p) \/ ReadBlock(p)
  PROVE  SameTables
<1>1. Quiet => SameTables
  BY DEF Quiet, SameFiles, SameTables
<1>2. ASSUME NEW ino \in OpenFiles, NEW pos \in Positions, NEW len \in Lens,
             \/ \E via \in OpenVia(ino) :
                  \/ \E v \in Vals : WriteStart(p, ino, via, pos, len, v)
                  \/ ReadStart(p, ino, via, pos, len)
             \/ ReadShort(p, ino, pos, len)
      PROVE  SameTables
  <2>1. ASSUME NEW via \in OpenVia(ino), NEW v \in Vals, WriteStart(p, ino, via, pos, len, v)
        PROVE  SameTables
    BY <1>1, <2>1, OpenIsLive, QuietWriteStart
  <2>2. ASSUME NEW via \in OpenVia(ino), ReadStart(p, ino, via, pos, len)
        PROVE  SameTables
    BY <2>2, SameData DEF ReadStart, fsVars
  <2>3. ASSUME ReadShort(p, ino, pos, len) PROVE SameTables
    BY <1>1, <2>3, QuietReadShort
  <2> QED
    BY <1>2, <2>1, <2>2, <2>3
<1>3. CASE WriteMapped(p) \/ WriteHole(p) \/ WriteNoSpace(p) \/ ReadBlock(p)
  BY <1>3, SameData DEF WriteMapped, WriteHole, WriteNoSpace, ReadBlock, fsVars
<1>4. CASE WriteCopy(p) \/ WriteFault(p)
  BY <1>1, <1>4, QuietCopy
<1> QED
  BY <1>2, <1>3, <1>4

(* What one step of osfs does to the tables of files.                      *)
LEMMA TablesStep ==
  ASSUME TypeInv, FsInv, [Next]_vars
  PROVE  SameTables \/ \E p \in Procs : WriteAppend(p)
<1>1. ASSUME NEW p \in Procs, Call(p) PROVE SameTables
  BY <1>1, SameTablesCreate, SameTablesFile DEF Call
<1>2. ASSUME NEW p \in Procs, Continue(p) PROVE SameTables \/ WriteAppend(p)
  BY <1>2, SameTablesCreate, SameTablesFile DEF Continue
<1>3. ASSUME \/ \E i \in DOMAIN Dir : Lookup(i)
             \/ \E ino \in OpenFiles : Evict(ino)
             \/ \E n \in Truncating, via \in DentryKinds : Truncate(n, via)
             \/ UNCHANGED vars
      PROVE  SameTables
  BY <1>3, SameData DEF Lookup, Evict, Truncate, vars
<1> QED
  BY <1>1, <1>2, <1>3 DEF Next

LEMMA MappingAppended ==
  ASSUME TypeInv, FsInv, NEW p \in Procs, WriteAppend(p)
  PROVE  MappingGrows
<1>1. PICK c : c = call[p]
  OBVIOUS
<1>2. PICK f : f = c.ino
  OBVIOUS
<1>3. PICK b : b = Min(FreeBlocks)
  OBVIOUS
<1>4. PICK exts : exts = Table(f)
  OBVIOUS
<1>5. PICK new : new = osfs_extent_append(exts, b)
  OBVIOUS
<1>6. /\ f \in LiveFiles
      /\ b \in Nat
      /\ exts \in Seq(Extent) /\ new \in Seq(Extent)
      /\ Table(f)' = new
      /\ Dir' = Dir /\ root' = root
      /\ inode_table'[f] = [inode_table[f] EXCEPT !.i_blocks = @ + 1]
      /\ \A g \in LiveFiles : g # f => inode_table'[g] = inode_table[g] /\ Table(g)' = Table(g)
  BY <1>1, <1>2, <1>3, <1>4, <1>5, AppendedBlock
<1>7. /\ osfs_extent_total_blocks(exts) \in Nat
      /\ \A idx \in Nat : idx < osfs_extent_total_blocks(exts) =>
           osfs_extent_lookup_block(new, idx) = osfs_extent_lookup_block(exts, idx)
  BY <1>5, <1>6, AppendMaps, TotalIsNat
<1>8. \A idx \in 0 .. (osfs_extent_total_blocks(exts) - 1) :
        osfs_extent_lookup_block(new, idx) = osfs_extent_lookup_block(exts, idx)
  BY <1>7
<1> QED
  BY <1>4, <1>6, <1>8 DEF MappingGrows

LEMMA MappingGrowsStep ==
  ASSUME TypeInv, FsInv, [Next]_vars
  PROVE  MappingGrows
<1>1. SameTables => MappingGrows
  BY DEF SameTables, MappingGrows
<1> QED
  BY <1>1, MappingAppended, TablesStep

(* A logical block of a file that is mapped stays where it is for ever.    *)
THEOREM MappingIsStable == Spec => MappingStable
<1>1. TypeInv /\ FsInv /\ [Next]_vars => [MappingGrows]_vars
  BY MappingGrowsStep
<1> QED
  BY <1>1, TypeCorrect, FsCorrect, PTL DEF Spec, MappingStable

-----------------------------------------------------------------------------
(* Offsets and logical blocks.  The quotient and the remainder of a        *)
(* division, and the sizes that wrap around at 2^32.                       *)
LEMMA DivFacts ==
  ASSUME NEW n \in Nat, NEW m \in Nat \ {0}
  PROVE  n \div m \in Nat /\ n % m \in 0 .. (m - 1) /\ n = m * (n \div m) + (n % m)
OBVIOUS

LEMMA ModBelow ==
  ASSUME NEW n \in Nat, NEW m \in Nat \ {0}
  PROVE  n % m <= n
<1>1. n % m \in Nat /\ n \div m \in Nat /\ n = m * (n \div m) + (n % m)
  BY DivFacts
<1>2. ASSUME NEW q \in Nat, NEW r \in Nat, n = m * q + r PROVE r <= n
  BY <1>2
<1> QED
  BY <1>1, <1>2

LEMMA DivUnique ==
  ASSUME NEW m \in Nat \ {0}, NEW q \in Nat, NEW r \in 0 .. (m - 1)
  PROVE  (q * m + r) % m = r
OBVIOUS

LEMMA ModAdd ==
  ASSUME NEW n \in Nat, NEW k \in Nat, NEW m \in Nat \ {0}
  PROVE  (k * m + n) % m = n % m
<1>1. PICK q \in Nat : q = n \div m
  BY DivFacts
<1>2. PICK r \in 0 .. (m - 1) : r = n % m
  BY DivFacts
<1>3. n = m * q + r
  BY <1>1, <1>2, DivFacts
<1>4. PICK s \in Nat : s = k + q
  OBVIOUS
<1>5. k * m + n = s * m + r
  BY <1>3, <1>4
<1>6. (s * m + r) % m = r
  BY DivUnique
<1> QED
  BY <1>2, <1>5, <1>6

(* A byte below the end of the mapped blocks lies in a mapped block.       *)
LEMMA BlockBelow ==
  ASSUME NEW pos \in Nat, NEW m \in Nat \ {0}, NEW total \in Nat, pos < m * total
  PROVE  pos \div m < total
<1>1. PICK q \in Nat : q = pos \div m
  BY DivFacts
<1>2. PICK r \in 0 .. (m - 1) : r = pos % m
  BY DivFacts
<1>3. pos = m * q + r
  BY <1>1, <1>2, DivFacts
<1>4. SUFFICES ASSUME q >= total PROVE FALSE
  BY <1>1
<1>5. m * q >= m * total
  BY <1>4
<1> QED
  BY <1>3, <1>5

LEMMA EndSplit ==
  ASSUME NEW m \in Nat, NEW u \in Nat, NEW k \in Nat, NEW l \in Nat, NEW r \in Nat, NEW n \in Nat
  PROVE  (m * (u * k + l) + r) + n = (m * k) * u + (m * l + (r + n))
OBVIOUS

(* A write into a mapped block ends, modulo 2^32, in mapped blocks.        *)
LEMMA EndMapped ==
  ASSUME NEW pos \in Nat, NEW len \in Nat, NEW total \in Nat,
         len <= BLOCK_SIZE - (pos % BLOCK_SIZE),
         (pos \div BLOCK_SIZE) % U32 < total
  PROVE  (pos + len) % U32 <= BLOCK_SIZE * total
<1>1. BLOCK_SIZE \in Nat \ {0} /\ U32 \in Nat \ {0}
  BY SizesAssumption DEF ROOT_INODE
<1>2. PICK q \in Nat : q = pos \div BLOCK_SIZE
  BY <1>1, DivFacts
<1>3. PICK r \in 0 .. (BLOCK_SIZE - 1) : r = pos % BLOCK_SIZE
  BY <1>1, DivFacts
<1>4. pos = BLOCK_SIZE * q + r
  BY <1>1, <1>2, <1>3, DivFacts
<1>5. PICK k \in Nat : k = q \div U32
  BY <1>1, DivFacts
<1>6. PICK l \in Nat : l = q % U32
  BY <1>1, DivFacts
<1>7. q = U32 * k + l /\ l + 1 <= total
  <2>1. q = U32 * k + l
    BY <1>1, <1>5, <1>6, DivFacts
  <2>2. l < total
    BY <1>2, <1>6
  <2> QED
    BY <2>1, <2>2
<1>8. PICK e \in Nat : e = BLOCK_SIZE * l + (r + len)
  BY <1>1, <1>3
<1>9. PICK w \in Nat : w = BLOCK_SIZE * k
  BY <1>1
<1>10. pos + len = w * U32 + e
  <2>1. pos + len = (BLOCK_SIZE * (U32 * k + l) + r) + len
    BY <1>4, <1>7
  <2>2. r \in Nat
    BY <1>1
  <2>3. (BLOCK_SIZE * (U32 * k + l) + r) + len
          = (BLOCK_SIZE * k) * U32 + (BLOCK_SIZE * l + (r + len))
    BY <1>1, <2>2, EndSplit
  <2> QED
    BY <1>8, <1>9, <2>1, <2>3
<1>11. (pos + len) % U32 <= e
  <2>1. (w * U32 + e) % U32 = e % U32
    BY <1>1, ModAdd
  <2> QED
    BY <1>1, <1>10, <2>1, ModBelow
<1>12. e <= BLOCK_SIZE * (l + 1)
  BY <1>1, <1>3, <1>8
<1>13. BLOCK_SIZE * (l + 1) <= BLOCK_SIZE * total
  BY <1>1, <1>7
<1>14. (pos + len) % U32 \in Nat
  BY <1>1, DivFacts
<1>15. BLOCK_SIZE * total \in Nat /\ BLOCK_SIZE * (l + 1) \in Nat
  BY <1>1
<1> QED
  BY <1>11, <1>12, <1>13, <1>14, <1>15

(* The chunk of a call ends with its block.                                *)
LEMMA ChunkEnds ==
  ASSUME NEW c \in CallType
  PROVE  Chunk(c) <= BLOCK_SIZE - (c.pos % BLOCK_SIZE)
<1>1. c.rem \in Nat /\ c.pos \in Nat /\ BLOCK_SIZE \in Nat \ {0}
  BY SizesAssumption DEF CallType
<1>2. c.pos % BLOCK_SIZE \in 0 .. (BLOCK_SIZE - 1)
  BY <1>1, DivFacts
<1>3. {c.rem, BLOCK_SIZE - (c.pos % BLOCK_SIZE)} \in SUBSET Nat
  BY <1>1, <1>2
<1> QED
  BY <1>3, MinProperties DEF Chunk

-----------------------------------------------------------------------------
(* Of all steps, only the end of a create and the end of a write change    *)
(* which files there are and how long they are, if no write has length 0.  *)
SameSizes ==
  /\ LiveFiles' = LiveFiles
  /\ \A f \in LiveFiles : inode_table'[f].i_size = inode_table[f].i_size

LEMMA SameDirSizes ==
  ASSUME Dir' = Dir, UNCHANGED inode_table
  PROVE  SameSizes
BY DEF SameSizes, LiveFiles

LEMMA SameAllSizes ==
  ASSUME UNCHANGED <<inode_table, data_blocks>>
  PROVE  SameSizes
BY SameDirSizes DEF Dir, root

LEMMA CreateSizes ==
  ASSUME TypeInv, FsInv, NEW p \in Procs,
         \/ \E n \in Names : CreateNameTooLong(p, n) \/ CreateNoSpace(p, n) \/ CreateStart(p, n)
         \/ CreateNoMemory(p) \/ CreateNoBlock(p) \/ CreateRollback(p)
  PROVE  SameSizes
<1>1. ASSUME GiveRootBlock, UNCHANGED data_blocks PROVE SameSizes
  <2>1. CASE RootNeedsBlock
    BY <1>1, <2>1, GiveRoot, EmptyDisk DEF SameSizes
  <2>2. CASE ~RootNeedsBlock
    BY <1>1, <2>2, SameAllSizes DEF GiveRootBlock
  <2> QED
    BY <2>1, <2>2
<1>2. ASSUME NEW n \in Names,
             CreateNameTooLong(p, n) \/ CreateNoSpace(p, n) \/ CreateStart(p, n)
      PROVE  SameSizes
  <2>1. CASE CreateNameTooLong(p, n)
    BY <2>1, SameAllSizes DEF CreateNameTooLong, fsVars
  <2>2. CASE CreateNoSpace(p, n)
    BY <1>1, <2>2, SameAllSizes DEF CreateNoSpace
  <2>3. CASE CreateStart(p, n)
    BY <1>1, <2>3 DEF CreateStart
  <2> QED
    BY <1>2, <2>1, <2>2, <2>3
<1>3. CASE CreateNoMemory(p)
  BY <1>3, SameAllSizes DEF CreateNoMemory, fsVars
<1>4. ASSUME NEW new, call[p].pc = "new_inode", UNCHANGED <<blockVars, data_blocks>>,
             inode_table' = [inode_table EXCEPT ![call[p].ino] = new]
      PROVE  SameSizes
  <2>1. Dir' = Dir
    BY <1>4, OtherInode DEF SameFiles
  <2>2. call[p].ino \notin LiveFiles
    BY <1>4 DEF FsInv, InodesAccounted
  <2>3. \A f \in LiveFiles : inode_table'[f] = inode_table[f]
    BY <1>4, <2>2, LiveFile DEF TypeInv, TypeOK
  <2> QED
    BY <2>1, <2>3 DEF SameSizes, LiveFiles
<1>5. CASE CreateNoBlock(p)
  BY <1>4, <1>5 DEF CreateNoBlock
<1>6. CASE CreateRollback(p)
  <2>1. UNCHANGED blockVars
    BY <1>6, IncDec DEF CreateRollback, TypeInv, TypeOK, blockVars
  <2>2. PICK new : inode_table' = [inode_table EXCEPT ![call[p].ino] = new]
    BY <1>6 DEF CreateRollback
  <2>3. call[p].pc = "new_inode" /\ UNCHANGED data_blocks
    BY <1>6 DEF CreateRollback
  <2> QED
    BY <1>4, <2>1, <2>2, <2>3
<1> QED
  BY <1>2, <1>3, <1>5, <1>6

LEMMA FileSizes ==
  ASSUME TypeInv, FsInv, 0 \notin Lens, NEW p \in Procs,
         \/ \E ino \in OpenFiles, pos \in Positions, len \in Lens :
              \/ \E via \in OpenVia(ino) :
                   \/ \E v \in Vals : WriteStart(p, ino, via, pos, len, v)
                   \/ ReadStart(p, ino, via, pos, len)
              \/ ReadShort(p, ino, pos, len)
         \/ WriteMapped(p) \/ WriteHole(p) \/ WriteNoSpace(p) \/ WriteAppend(p)
         \/ WriteFault(p) \/ ReadBlock(p)
  PROVE  SameSizes
<1>1. Quiet => Dir' = Dir
  BY DEF Quiet, SameFiles
<1>2. ASSUME NEW ino \in OpenFiles, NEW pos \in Positions, NEW len \in Lens,
             \/ \E via \in OpenVia(ino) :
                  \/ \E v \in Vals : WriteStart(p, ino, via, pos, len, v)
                  \/ ReadStart(p, ino, via, pos, len)
             \/ ReadShort(p, ino, pos, len)
      PROVE  SameSizes
  <2>1. ASSUME NEW via \in OpenVia(ino), NEW v \in Vals, WriteStart(p, ino, via, pos, len, v)
        PROVE  SameSizes
    <3>1. ino \in LiveFiles /\ len # 0
      BY OpenIsLive
    <3>2. Quiet
      BY <2>1, <3>1, QuietWriteStart
    <3>3. WithTable(ino) = inode_table[ino] /\ ~NeedsTable(ino)
      BY <3>1, LiveFile DEF WithTable
    <3>4. inode_table' = [inode_table EXCEPT ![ino] = inode_table[ino]]
      BY <2>1, <3>1, <3>3 DEF WriteStart
    <3>5. UNCHANGED inode_table
      BY <3>4 DEF TypeInv, TypeOK
    <3> QED
      BY <1>1, <3>2, <3>5, SameDirSizes
  <2>2. ASSUME NEW via \in OpenVia(ino), ReadStart(p, ino, via, pos, len)
        PROVE  SameSizes
    BY <2>2, SameAllSizes DEF ReadStart, fsVars
  <2>3. ASSUME ReadShort(p, ino, pos, len) PROVE SameSizes
    <3>1. Quiet
      BY <2>3, QuietReadShort
    <3>2. UNCHANGED inode_table
      BY <2>3 DEF ReadShort
    <3> QED
      BY <1>1, <3>1, <3>2, SameDirSizes
  <2> QED
    BY <1>2, <2>1, <2>2, <2>3
<1>3. CASE WriteMapped(p) \/ WriteHole(p) \/ WriteNoSpace(p) \/ ReadBlock(p)
  BY <1>3, SameAllSizes DEF WriteMapped, WriteHole, WriteNoSpace, ReadBlock, fsVars
<1>4. CASE WriteFault(p)
  <2>1. Quiet
    BY <1>4, QuietCopy
  <2>2. UNCHANGED inode_table
    BY <1>4 DEF WriteFault
  <2> QED
    BY <1>1, <2>1, <2>2, SameDirSizes
<1>5. CASE WriteAppend(p)
  <2>1. PICK f : f = call[p].ino
    OBVIOUS
  <2>2. /\ f \in LiveFiles /\ Dir' = Dir
        /\ inode_table'[f] = [inode_table[f] EXCEPT !.i_blocks = @ + 1]
        /\ \A g \in LiveFiles : g # f => inode_table'[g] = inode_table[g]
    BY <1>5, <2>1, AppendedBlock
  <2>3. inode_table[f] \in InodeType
    BY <2>2, LiveFile
  <2>4. inode_table'[f].i_size = inode_table[f].i_size
    BY <2>2, <2>3 DEF InodeType
  <2> QED
    BY <2>2, <2>4 DEF SameSizes, LiveFiles
<1> QED
  BY <1>2, <1>3, <1>4, <1>5

LEMMA SizesOf ==
  ASSUME TypeInv, FsInv, 0 \notin Lens, [Next]_vars
  PROVE  SameSizes \/ \E p \in Procs : CreateDone(p) \/ WriteCopy(p)
<1>1. ASSUME NEW p \in Procs, Call(p) PROVE SameSizes
  BY <1>1, CreateSizes, FileSizes DEF Call
<1>2. ASSUME NEW p \in Procs, Continue(p) PROVE SameSizes \/ CreateDone(p) \/ WriteCopy(p)
  BY <1>2, CreateSizes, FileSizes DEF Continue
<1>3. ASSUME \/ \E i \in DOMAIN Dir : Lookup(i)
             \/ \E ino \in OpenFiles : Evict(ino)
             \/ \E n \in Truncating, via \in DentryKinds : Truncate(n, via)
             \/ UNCHANGED vars
      PROVE  SameSizes
  BY <1>3, SameAllSizes DEF Lookup, Evict, Truncate, vars
<1> QED
  BY <1>1, <1>2, <1>3 DEF Next

(* Tables only grow.                                                       *)
TotalsGrow ==
  \A f \in LiveFiles : /\ osfs_extent_total_blocks(Table(f)') \in Nat
                       /\ osfs_extent_total_blocks(Table(f)) <= osfs_extent_total_blocks(Table(f)')

LEMMA TotalsStep ==
  ASSUME TypeInv, FsInv, [Next]_vars
  PROVE  TotalsGrow
<1>0. \A f \in LiveFiles : osfs_extent_total_blocks(Table(f)) \in Nat
  BY LiveFile
<1>1. SameTables => TotalsGrow
  BY <1>0 DEF SameTables, TotalsGrow
<1>2. ASSUME NEW p \in Procs, WriteAppend(p) PROVE TotalsGrow
  <2>1. PICK c : c = call[p]
    OBVIOUS
  <2>2. PICK f : f = c.ino
    OBVIOUS
  <2>3. PICK b : b = Min(FreeBlocks)
    OBVIOUS
  <2>4. PICK exts : exts = Table(f)
    OBVIOUS
  <2>5. PICK new : new = osfs_extent_append(exts, b)
    OBVIOUS
  <2>6. /\ f \in LiveFiles /\ b \in Nat /\ exts \in Seq(Extent) /\ new \in Seq(Extent)
        /\ Table(f)' = new
        /\ Dir' = Dir /\ root' = root
        /\ inode_table'[f] = [inode_table[f] EXCEPT !.i_blocks = @ + 1]
        /\ \A g \in LiveFiles : g # f => inode_table'[g] = inode_table[g] /\ Table(g)' = Table(g)
    BY <1>2, <2>1, <2>2, <2>3, <2>4, <2>5, AppendedBlock
  <2>7. /\ osfs_extent_total_blocks(exts) \in Nat
        /\ osfs_extent_total_blocks(new) = osfs_extent_total_blocks(exts) + 1
    BY <2>5, <2>6, AppendMaps, TotalIsNat
  <2>8. ASSUME NEW g \in LiveFiles
        PROVE  /\ osfs_extent_total_blocks(Table(g)') \in Nat
               /\ osfs_extent_total_blocks(Table(g)) <= osfs_extent_total_blocks(Table(g)')
    <3>1. CASE g = f
      BY <2>4, <2>6, <2>7, <3>1
    <3>2. CASE g # f
      BY <1>0, <2>6, <3>2
    <3> QED
      BY <3>1, <3>2
  <2> QED
    BY <2>8 DEF TotalsGrow
<1> QED
  BY <1>1, <1>2, TablesStep

(* Every byte below i_size stays mapped.                                   *)
LEMMA SizeMappedCreate ==
  ASSUME TypeInv, FsInv, SizeMapped, NEW p \in Procs, CreateDone(p)
  PROVE  SizeMapped'
<1>1. PICK c : c = call[p]
  OBVIOUS
<1>2. PICK b : b = Min(FreeBlocks)
  OBVIOUS
<1>3. PICK f : f = c.ino
  OBVIOUS
<1>4. /\ f \notin LiveFiles
      /\ LiveFiles' = LiveFiles \cup {f}
      /\ inode_table'[f] = OsfsInode("reg", 0, 1, b) /\ Table(f)' = << >>
      /\ \A g \in LiveFiles : inode_table'[g] = inode_table[g] /\ Table(g)' = Table(g)
  BY <1>1, <1>2, <1>3, CreatedFile
<1>5. inode_table'[f].i_size = 0
  BY <1>4 DEF OsfsInode
<1>6. inode_table'[f].i_size <= BLOCK_SIZE * osfs_extent_total_blocks(Table(f)')
  BY <1>4, <1>5, EmptyTable, SizesAssumption
<1>7. \A g \in LiveFiles : inode_table'[g].i_size <= BLOCK_SIZE * osfs_extent_total_blocks(Table(g)')
  BY <1>4 DEF SizeMapped
<1> QED
  BY <1>4, <1>6, <1>7 DEF SizeMapped

LEMMA SizeMappedCopy ==
  ASSUME TypeInv, FsInv, SizeMapped, NEW p \in Procs, WriteCopy(p)
  PROVE  SizeMapped'
<1>1. PICK c : c = call[p]
  OBVIOUS
<1>2. PICK f \in LiveFiles : f = c.ino
  BY <1>1, FileCallNow DEF WriteCopy
<1>3. /\ LiveFiles' = LiveFiles
      /\ \A g \in LiveFiles : Table(g)' = Table(g)
  BY QuietCopy, QuietKeeps
<1>4. /\ c \in CallType /\ LogicalBlock(c) \in Nat
      /\ osfs_extent_lookup_block(Table(f), LogicalBlock(c)) = {c.phys}
  BY <1>1, <1>2, FileCallNow DEF WriteCopy
<1>5. LogicalBlock(c) < osfs_extent_total_blocks(Table(f))
  BY <1>2, <1>4, LiveFile, LookupMapped
<1>6. PICK end : end = c.pos + Chunk(c)
  OBVIOUS
<1>7. end % U32 <= BLOCK_SIZE * osfs_extent_total_blocks(Table(f))
  <2>1. c.pos \in Nat /\ Chunk(c) \in Nat /\ Chunk(c) <= BLOCK_SIZE - (c.pos % BLOCK_SIZE)
    BY <1>4, ChunkType, ChunkEnds DEF CallType
  <2>2. osfs_extent_total_blocks(Table(f)) \in Nat
    BY <1>2, LiveFile
  <2> QED
    BY <1>5, <1>6, <2>1, <2>2, EndMapped DEF LogicalBlock
<1>8. \/ UNCHANGED inode_table
      \/ inode_table' = [inode_table EXCEPT ![f].i_size = end % U32]
  BY <1>1, <1>2, <1>6 DEF WriteCopy, GrowTo
<1>9. ASSUME NEW g \in LiveFiles
      PROVE  inode_table'[g].i_size <= BLOCK_SIZE * osfs_extent_total_blocks(Table(g))
  <2>1. inode_table[g].i_size <= BLOCK_SIZE * osfs_extent_total_blocks(Table(g))
    BY DEF SizeMapped
  <2>2. inode_table \in [Inodes -> InodeType] /\ g \in Inodes
    BY LiveFile DEF TypeInv, TypeOK
  <2>3. \/ inode_table'[g].i_size = inode_table[g].i_size
        \/ g = f /\ inode_table'[g].i_size = end % U32
    BY <1>8, <2>2 DEF InodeType
  <2> QED
    BY <1>7, <2>1, <2>3
<1> QED
  BY <1>3, <1>9 DEF SizeMapped

LEMMA SizeMappedStep ==
  ASSUME TypeInv, FsInv, SizeMapped, 0 \notin Lens, [Next]_vars
  PROVE  SizeMapped'
<1>1. ASSUME SameSizes PROVE SizeMapped'
  <2>1. ASSUME NEW f \in LiveFiles
        PROVE  inode_table'[f].i_size <= BLOCK_SIZE * osfs_extent_total_blocks(Table(f)')
    <3>1. inode_table[f].i_size <= BLOCK_SIZE * osfs_extent_total_blocks(Table(f))
      BY DEF SizeMapped
    <3>2. PICK t \in Nat : t = osfs_extent_total_blocks(Table(f))
      BY LiveFile
    <3>3. PICK u \in Nat : u = osfs_extent_total_blocks(Table(f)') /\ t <= u
      BY <3>2, TotalsStep DEF TotalsGrow
    <3>4. BLOCK_SIZE * t <= BLOCK_SIZE * u /\ BLOCK_SIZE * t \in Nat /\ BLOCK_SIZE * u \in Nat
      BY <3>3, SizesAssumption
    <3>5. inode_table[f].i_size \in Nat
      BY LiveFile DEF InodeType
    <3> QED
      BY <1>1, <3>1, <3>2, <3>3, <3>4, <3>5 DEF SameSizes
  <2> QED
    BY <1>1, <2>1 DEF SameSizes, SizeMapped
<1> QED
  BY <1>1, SizesOf, SizeMappedCreate, SizeMappedCopy

-----------------------------------------------------------------------------
(* Of all steps, only the start and the blocks of a read change what a     *)
(* read in progress still has to copy.                                     *)
SameReads == \A q \in Procs : call'[q].pc = "read" => call'[q] = call[q]

LEMMA ReadsAfter ==
  ASSUME TypeInv, NEW p \in Procs, NEW c, c.pc # "read", call' = [call EXCEPT ![p] = c]
  PROVE  SameReads
<1>1. \A q \in Procs : call'[q] = IF q = p THEN c ELSE call[q]
  BY DEF TypeInv, TypeOK
<1> QED
  BY <1>1 DEF SameReads

LEMMA ReadsReturn ==
  ASSUME TypeInv, NEW p \in Procs, NEW code, Return(p, code)
  PROVE  SameReads
<1>1. PICK c : c = Idle
  OBVIOUS
<1>2. c.pc # "read" /\ call' = [call EXCEPT ![p] = c]
  BY <1>1 DEF Return, Idle
<1> QED
  BY <1>2, ReadsAfter

LEMMA CreateReads ==
  ASSUME TypeInv, NEW p \in Procs,
         \/ \E n \in Names : CreateNameTooLong(p, n) \/ CreateNoSpace(p, n) \/ CreateStart(p, n)
         \/ CreateNoMemory(p) \/ CreateNoBlock(p) \/ CreateRollback(p) \/ CreateDone(p)
  PROVE  SameReads
<1>1. ASSUME NEW n \in Names, CreateNameTooLong(p, n) \/ CreateNoSpace(p, n)
      PROVE  SameReads
  BY <1>1, ReadsReturn DEF CreateNameTooLong, CreateNoSpace
<1>2. ASSUME NEW n \in Names, CreateStart(p, n) PROVE SameReads
  <2>1. PICK c : c = [Idle EXCEPT !.pc = "new_inode", !.name = n, !.ino = Min(FreeInodes)]
    OBVIOUS
  <2>2. c.pc = "new_inode"
    BY <2>1 DEF Idle
  <2>3. call' = [call EXCEPT ![p] = c]
    BY <1>2, <2>1 DEF CreateStart
  <2> QED
    BY <2>2, <2>3, ReadsAfter
<1>3. CASE CreateNoMemory(p) \/ CreateNoBlock(p) \/ CreateRollback(p) \/ CreateDone(p)
  BY <1>3, ReadsReturn DEF CreateNoMemory, CreateNoBlock, CreateRollback, CreateDone
<1> QED
  BY <1>1, <1>2, <1>3

LEMMA WriteReads ==
  ASSUME TypeInv, FsInv, NEW p \in Procs,
         \/ \E ino \in OpenFiles, via \in DentryKinds, pos \in Positions, len \in Lens, v \in Vals :
              via \in OpenVia(ino) /\ WriteStart(p, ino, via, pos, len, v)
         \/ \E ino \in OpenFiles, pos \in Positions, len \in Lens : ReadShort(p, ino, pos, len)
         \/ WriteMapped(p) \/ WriteHole(p) \/ WriteNoSpace(p) \/ WriteAppend(p)
         \/ WriteFault(p) \/ WriteCopy(p)
  PROVE  SameReads
<1>1. ASSUME NEW ino \in OpenFiles, NEW via \in OpenVia(ino), NEW pos \in Positions,
             NEW len \in Lens, NEW v \in Vals, WriteStart(p, ino, via, pos, len, v)
      PROVE  SameReads
  <2>1. ino \in LiveFiles
    BY OpenIsLive
  <2>2. CASE len = 0
    BY <1>1, <2>1, <2>2, QuietWriteStart, ReadsReturn
  <2>3. CASE len # 0
    <3>1. PICK c : c = StartedWrite(ino, via, pos, len, v)
      OBVIOUS
    <3>2. call' = [call EXCEPT ![p] = c]
      BY <1>1, <2>1, <2>3, <3>1, QuietWriteStart
    <3>3. c.pc = "map"
      BY <3>1 DEF StartedWrite, Idle
    <3> QED
      BY <3>2, <3>3, ReadsAfter
  <2> QED
    BY <2>2, <2>3
<1>2. ASSUME NEW ino \in OpenFiles, NEW pos \in Positions, NEW len \in Lens,
             ReadShort(p, ino, pos, len)
      PROVE  SameReads
  <2>1. \E code : Return(p, code)
    BY <1>2 DEF ReadShort
  <2> QED
    BY <2>1, ReadsReturn
<1>3. CASE WriteHole(p) \/ WriteNoSpace(p) \/ WriteFault(p)
  BY <1>3, ReadsReturn DEF WriteHole, WriteNoSpace, WriteFault
<1>4. ASSUME NEW c, c.pc # "read", call' = [call EXCEPT ![p] = c] PROVE SameReads
  BY <1>4, ReadsAfter
<1>5. call[p].pc # "idle" => call[p] \in CallType
  BY CallTypeNow
<1>6. CASE WriteMapped(p)
  <2>1. PICK phys : call' = [call EXCEPT ![p].pc = "copy", ![p].phys = phys]
    BY <1>6 DEF WriteMapped
  <2>2. PICK c : c = [call[p] EXCEPT !.pc = "copy", !.phys = phys]
    OBVIOUS
  <2>3. c.pc = "copy"
    BY <1>5, <1>6, <2>2 DEF WriteMapped, CallType
  <2>4. call' = [call EXCEPT ![p] = c]
    BY <2>1, <2>2 DEF TypeInv, TypeOK
  <2> QED
    BY <2>3, <2>4, ReadsAfter
<1>7. CASE WriteAppend(p)
  <2>1. CASE Return(p, "ENOENT")
    BY <2>1, ReadsReturn
  <2>2. CASE ~Return(p, "ENOENT")
    <3>1. PICK phys : call' = [call EXCEPT ![p].pc = "copy", ![p].phys = phys, ![p].total = @ + 1]
      BY <1>7, <2>2 DEF WriteAppend
    <3>2. PICK c : c = [call[p] EXCEPT !.pc = "copy", !.phys = phys, !.total = @ + 1]
      OBVIOUS
    <3>3. c.pc = "copy"
      BY <1>5, <1>7, <3>2 DEF WriteAppend, Unmapped, CallType
    <3>4. call' = [call EXCEPT ![p] = c]
      BY <3>1, <3>2 DEF TypeInv, TypeOK
    <3> QED
      BY <3>3, <3>4, ReadsAfter
  <2> QED
    BY <2>1, <2>2
<1>8. CASE WriteCopy(p)
  <2> DEFINE k == Chunk(call[p])
  <2>1. CASE call[p].rem = k
    <3>1. Return(p, "ok")
      BY <1>8, <2>1 DEF WriteCopy
    <3> QED
      BY <3>1, ReadsReturn
  <2>2. CASE call[p].rem # k
    <3>1. PICK c : c = [call[p] EXCEPT !.pc = "map", !.pos = @ + k, !.rem = @ - k,
                                       !.done = @ + k, !.phys = 0]
      OBVIOUS
    <3>2. c.pc = "map"
      BY <1>5, <1>8, <3>1 DEF WriteCopy, CallType
    <3>3. call' = [call EXCEPT ![p] = c]
      BY <1>8, <2>2, <3>1 DEF WriteCopy, TypeInv, TypeOK
    <3> QED
      BY <3>2, <3>3, ReadsAfter
  <2> QED
    BY <2>1, <2>2
<1> QED
  BY <1>1, <1>2, <1>3, <1>6, <1>7, <1>8

(* What a read has left to copy, told by the file it works on.             *)
LEMMA ReadNext ==
  ASSUME NEW q \in Procs, NEW c, NEW f, call'[q] = c, c.ino = f, c.rem > 0,
         c.pos + c.rem <= BLOCK_SIZE * osfs_extent_total_blocks(Table(f)')
  PROVE  /\ call'[q].rem > 0
         /\ call'[q].pos + call'[q].rem
              <= BLOCK_SIZE * osfs_extent_total_blocks(Table(call[q].ino)')
BY DEF Table

LEMMA ReadsKept ==
  ASSUME TypeInv, FsInv, ReadsMapped, TotalsGrow,
         NEW q \in Procs, call'[q].pc = "read", call'[q] = call[q]
  PROVE  /\ call'[q].rem > 0
         /\ call'[q].pos + call'[q].rem
              <= BLOCK_SIZE * osfs_extent_total_blocks(Table(call[q].ino)')
<1>1. PICK c : c = call[q]
  OBVIOUS
<1>2. PICK f \in LiveFiles : f = c.ino
  BY <1>1, FileCallNow
<1>3. PICK t \in Nat : t = osfs_extent_total_blocks(Table(f))
  BY LiveFile
<1>4. PICK u \in Nat : u = osfs_extent_total_blocks(Table(f)') /\ t <= u
  BY <1>3 DEF TotalsGrow
<1>5. c.rem > 0 /\ c.pos + c.rem <= BLOCK_SIZE * t
  BY <1>1, <1>2, <1>3 DEF ReadsMapped
<1>6. BLOCK_SIZE * t <= BLOCK_SIZE * u /\ BLOCK_SIZE * t \in Nat /\ BLOCK_SIZE * u \in Nat
  BY <1>4, SizesAssumption
<1>7. c.pos \in Nat /\ c.rem \in Nat
  BY <1>1, FileCallNow DEF CallType
<1>8. c.pos + c.rem <= BLOCK_SIZE * u
  BY <1>5, <1>6, <1>7
<1> QED
  BY <1>1, <1>2, <1>4, <1>5, <1>8, ReadNext

LEMMA ReadsStarted ==
  ASSUME TypeInv, FsInv, SizeMapped, ReadsMapped, NEW p \in Procs,
         NEW ino \in OpenFiles, NEW via, NEW pos \in Positions, NEW len \in Lens,
         ReadStart(p, ino, via, pos, len)
  PROVE  ReadsMapped'
<1>1. PICK f \in LiveFiles : f = ino
  BY OpenIsLive
<1>2. PICK size \in Nat : size = inode_table[f].i_size
  BY LiveFile DEF InodeType
<1>3. PICK t \in Nat : t = osfs_extent_total_blocks(Table(f))
  BY LiveFile
<1>4. PICK rem : rem = Min({len, size - pos})
  OBVIOUS
<1>5. PICK c : c = [Idle EXCEPT !.pc = "read", !.ino = f, !.via = via, !.pos = pos, !.rem = rem]
  OBVIOUS
<1>6. /\ call' = [call EXCEPT ![p] = c]
      /\ UNCHANGED <<inode_table, data_blocks>>
      /\ pos < size /\ len > 0
  BY <1>1, <1>2, <1>4, <1>5 DEF ReadStart, fsVars
<1>7. c.ino = f /\ c.rem = rem /\ c.pos = pos
  BY <1>5 DEF Idle
<1>8. pos \in Nat /\ len \in Nat
  BY InputsAssumption
<1>9. {len, size - pos} \in SUBSET Nat
  BY <1>2, <1>6, <1>8
<1>10. rem \in {len, size - pos} /\ rem <= size - pos
  BY <1>4, <1>9, MinProperties
<1>11. size <= BLOCK_SIZE * t /\ BLOCK_SIZE * t \in Nat
  BY <1>2, <1>3, SizesAssumption DEF SizeMapped
<1>12. rem > 0 /\ pos + rem <= BLOCK_SIZE * t
  BY <1>2, <1>6, <1>8, <1>10, <1>11
<1>13. t = osfs_extent_total_blocks(Table(f)')
  BY <1>3, <1>6 DEF Table
<1>14. \A q \in Procs : call'[q] = IF q = p THEN c ELSE call[q]
  BY <1>6 DEF TypeInv, TypeOK
<1>15. TotalsGrow
  BY <1>3, <1>6, LiveFile DEF TotalsGrow, Table
<1>16. ASSUME NEW q \in Procs, call'[q].pc = "read"
       PROVE  /\ call'[q].rem > 0
              /\ call'[q].pos + call'[q].rem
                   <= BLOCK_SIZE * osfs_extent_total_blocks(Table(call[q].ino)')
  <2>1. CASE q = p
    BY <1>7, <1>12, <1>13, <1>14, <2>1, ReadNext
  <2>2. CASE q # p
    BY <1>14, <1>15, <1>16, <2>2, ReadsKept
  <2> QED
    BY <2>1, <2>2
<1> QED
  BY <1>16 DEF ReadsMapped

LEMMA ReadsGoOn ==
  ASSUME TypeInv, FsInv, ReadsMapped, NEW p \in Procs, ReadBlock(p)
  PROVE  ReadsMapped'
<1>1. PICK c : c = call[p]
  OBVIOUS
<1>2. PICK f \in LiveFiles : f = c.ino
  BY <1>1, FileCallNow DEF ReadBlock
<1>3. PICK t \in Nat : t = osfs_extent_total_blocks(Table(f))
  BY LiveFile
<1>4. PICK k : k = Chunk(c)
  OBVIOUS
<1>5. UNCHANGED <<inode_table, data_blocks>>
  BY DEF ReadBlock, fsVars
<1>6. TotalsGrow
  BY <1>5, LiveFile DEF TotalsGrow, Table
<1>7. ASSUME SameReads PROVE ReadsMapped'
  BY <1>6, <1>7, ReadsKept DEF SameReads, ReadsMapped
<1>8. c \in CallType /\ c.pos \in Nat /\ c.rem \in Nat /\ k \in Nat /\ k <= c.rem
  BY <1>1, <1>4, FileCallNow, ChunkType DEF ReadBlock, CallType
<1>9. ASSUME c.rem > k, call' = [call EXCEPT ![p].pos = @ + k, ![p].rem = @ - k]
      PROVE  ReadsMapped'
  <2>1. PICK d : d = [c EXCEPT !.pos = @ + k, !.rem = @ - k]
    OBVIOUS
  <2>2. d.pos = c.pos + k /\ d.rem = c.rem - k /\ d.ino = f
    BY <1>2, <1>8, <2>1 DEF CallType
  <2>3. \A q \in Procs : call'[q] = IF q = p THEN d ELSE call[q]
    BY <1>1, <1>9, <2>1 DEF TypeInv, TypeOK
  <2>4. c.pos + c.rem <= BLOCK_SIZE * t /\ BLOCK_SIZE * t \in Nat
    BY <1>1, <1>2, <1>3, SizesAssumption DEF ReadsMapped, ReadBlock
  <2>5. d.rem > 0 /\ d.pos + d.rem <= BLOCK_SIZE * t
    BY <1>8, <1>9, <2>2, <2>4
  <2>6. t = osfs_extent_total_blocks(Table(f)')
    BY <1>3, <1>5 DEF Table
  <2>7. ASSUME NEW q \in Procs, call'[q].pc = "read"
        PROVE  /\ call'[q].rem > 0
               /\ call'[q].pos + call'[q].rem
                    <= BLOCK_SIZE * osfs_extent_total_blocks(Table(call[q].ino)')
    <3>1. CASE q = p
      BY <2>2, <2>3, <2>5, <2>6, <3>1, ReadNext
    <3>2. CASE q # p
      BY <1>6, <2>3, <2>7, <3>2, ReadsKept
    <3> QED
      BY <3>1, <3>2
  <2> QED
    BY <2>7 DEF ReadsMapped
<1>10. \/ \E code : Return(p, code)
       \/ c.rem > k /\ call' = [call EXCEPT ![p].pos = @ + k, ![p].rem = @ - k]
  BY <1>1, <1>4 DEF ReadBlock
<1> QED
  BY <1>7, <1>9, <1>10, ReadsReturn

LEMMA ReadsMappedStep ==
  ASSUME TypeInv, FsInv, SizeMapped, ReadsMapped, [Next]_vars
  PROVE  ReadsMapped'
<1>1. ASSUME SameReads PROVE ReadsMapped'
  BY <1>1, TotalsStep, ReadsKept DEF SameReads, ReadsMapped
<1>2. ASSUME NEW p \in Procs, Call(p) PROVE ReadsMapped'
  <2>1. ASSUME NEW n \in Names,
               CreateNameTooLong(p, n) \/ CreateNoSpace(p, n) \/ CreateStart(p, n)
        PROVE  SameReads
    BY <2>1, CreateReads
  <2>2. ASSUME NEW ino \in OpenFiles, NEW pos \in Positions, NEW len \in Lens,
               NEW via \in OpenVia(ino), NEW v \in Vals, WriteStart(p, ino, via, pos, len, v)
        PROVE  SameReads
    <3>1. via \in DentryKinds
      BY DEF OpenVia
    <3> QED
      BY <2>2, <3>1, WriteReads
  <2>3. ASSUME NEW ino \in OpenFiles, NEW pos \in Positions, NEW len \in Lens,
               NEW via \in OpenVia(ino), ReadStart(p, ino, via, pos, len)
        PROVE  ReadsMapped'
    BY <2>3, ReadsStarted
  <2>4. ASSUME NEW ino \in OpenFiles, NEW pos \in Positions, NEW len \in Lens,
               ReadShort(p, ino, pos, len)
        PROVE  SameReads
    BY <2>4, WriteReads
  <2> QED
    BY <1>1, <1>2, <2>1, <2>2, <2>3, <2>4 DEF Call
<1>3. ASSUME NEW p \in Procs, Continue(p) PROVE ReadsMapped'
  BY <1>1, <1>3, CreateReads, WriteReads, ReadsGoOn DEF Continue
<1>4. ASSUME \/ \E i \in DOMAIN Dir : Lookup(i)
             \/ \E ino \in OpenFiles : Evict(ino)
             \/ \E n \in Truncating, via \in DentryKinds : Truncate(n, via)
             \/ UNCHANGED vars
      PROVE  SameReads
  BY <1>4 DEF Lookup, Evict, Truncate, vars, SameReads
<1> QED
  BY <1>1, <1>2, <1>3, <1>4 DEF Next

-----------------------------------------------------------------------------
(* The four errors that mean a broken table, one call at a time.           *)
LEMMA NoEexist ==
  ASSUME TypeInv, FsInv, NEW p \in Procs, CreateRollback(p)
  PROVE  ret' = "ENOSPC"
<1>1. PICK n : n = call[p].name
  OBVIOUS
<1>2. n \in Names /\ dcache[n] = 0
  BY <1>1 DEF CreateRollback, FsInv, CallsInv, CreateOK, TypeInv, CallsTyped
<1>3. {Dir[i].inode_no : i \in {j \in DOMAIN Dir : Dir[j].filename = n}} = {}
  BY <1>2 DEF FsInv, DentriesPinned
<1>4. ~ \E i \in DOMAIN Dir : Dir[i].filename = n
  BY <1>3
<1> QED
  BY <1>1, <1>4 DEF CreateRollback, Return, osfs_add_dir_entry

LEMMA NoEnoent ==
  ASSUME TypeInv, FsInv, NEW p \in Procs, WriteAppend(p)
  PROVE  ret' = "none"
<1>1. PICK c : c = call[p]
  OBVIOUS
<1>2. PICK f : f = c.ino
  OBVIOUS
<1>3. PICK b : b = Min(FreeBlocks)
  OBVIOUS
<1>4. PICK exts : exts = Table(f)
  OBVIOUS
<1>5. PICK new : new = osfs_extent_append(exts, b)
  OBVIOUS
<1>6. /\ f \in LiveFiles /\ b \in Nat /\ exts \in Seq(Extent) /\ new \in Seq(Extent)
      /\ Dir' = Dir /\ root' = root
      /\ inode_table'[f] = [inode_table[f] EXCEPT !.i_blocks = @ + 1]
  BY <1>1, <1>2, <1>3, <1>4, <1>5, AppendedBlock
<1>7. /\ osfs_extent_total_blocks(exts) \in Nat
      /\ osfs_extent_total_blocks(new) = osfs_extent_total_blocks(exts) + 1
  BY <1>5, <1>6, AppendMaps, TotalIsNat
<1>8. PICK lb \in Nat : lb = LogicalBlock(c)
  BY <1>1, FileCallNow DEF WriteAppend, Unmapped
<1>9. lb <= c.total /\ c.total <= osfs_extent_total_blocks(exts) /\ c.total \in Nat
  BY <1>1, <1>2, <1>4, <1>8, FileCallNow DEF WriteAppend, Unmapped, CallType
<1>10. osfs_extent_lookup_block(new, lb) # {}
  <2>1. lb < osfs_extent_total_blocks(new)
    BY <1>7, <1>9
  <2> QED
    BY <1>6, <2>1, LookupMapped
<1> QED
  BY <1>1, <1>2, <1>3, <1>4, <1>5, <1>8, <1>10 DEF WriteAppend, NoReturn

LEMMA NoEopnotsupp ==
  ASSUME TypeInv, FsInv, SizeMapped, NEW p \in Procs, NEW ino \in OpenFiles, NEW pos, NEW len,
         ReadShort(p, ino, pos, len)
  PROVE  ret' = "ok"
<1>1. PICK f \in LiveFiles : f = ino
  BY OpenIsLive
<1>2. PICK b \in Blocks : b = inode_table[f].i_block
  BY LiveFile
<1>3. ASSUME data_blocks[b].kind # "ext" PROVE inode_table[f].i_size = 0
  <2>1. Table(f) = << >>
    BY <1>2, <1>3 DEF FsInv, TablesInv, Table
  <2>2. osfs_extent_total_blocks(Table(f)) = 0
    BY <2>1, EmptyTable
  <2>3. inode_table[f].i_size <= BLOCK_SIZE * 0
    BY <2>2 DEF SizeMapped
  <2>4. inode_table[f].i_size \in Nat
    BY LiveFile DEF InodeType
  <2> QED
    BY <2>3, <2>4, SizesAssumption
<1> QED
  BY <1>1, <1>2, <1>3 DEF ReadShort, Return

LEMMA NoEio ==
  ASSUME TypeInv, FsInv, ReadsMapped, NEW p \in Procs, ReadBlock(p)
  PROVE  ret' \in {"none", "ok", "EFAULT"}
<1>1. PICK c : c = call[p]
  OBVIOUS
<1>2. PICK f \in LiveFiles : f = c.ino
  BY <1>1, FileCallNow DEF ReadBlock
<1>3. PICK t \in Nat : t = osfs_extent_total_blocks(Table(f))
  BY LiveFile
<1>4. c \in CallType /\ c.pos \in Nat /\ c.rem \in Nat /\ LogicalBlock(c) \in Nat
  BY <1>1, FileCallNow DEF ReadBlock, CallType
<1>5. c.rem > 0 /\ c.pos + c.rem <= BLOCK_SIZE * t /\ BLOCK_SIZE * t \in Nat
  BY <1>1, <1>2, <1>3, SizesAssumption DEF ReadsMapped, ReadBlock
<1>6. c.pos < BLOCK_SIZE * t
  BY <1>4, <1>5
<1>7. PICK q \in Nat : q = c.pos \div BLOCK_SIZE /\ q < t
  BY <1>3, <1>4, <1>6, BlockBelow, DivFacts, SizesAssumption
<1>8. LogicalBlock(c) < t
  <2>1. LogicalBlock(c) = q % U32 /\ U32 \in Nat \ {0}
    BY <1>7, SizesAssumption DEF LogicalBlock, ROOT_INODE
  <2>2. PICK r \in Nat : r = q % U32 /\ r <= q
    BY <2>1, ModBelow, DivFacts
  <2> QED
    BY <1>3, <1>7, <2>1, <2>2
<1>9. osfs_extent_lookup_block(Table(f), LogicalBlock(c)) # {}
  BY <1>3, <1>4, <1>8, LiveFile, LookupMapped
<1> QED
  BY <1>1, <1>2, <1>9 DEF ReadBlock, Return, NoReturn

LEMMA NoInternalErrorStep ==
  ASSUME TypeInv, FsInv, SizesInv, [Next]_vars
  PROVE  NoInternalError'
<1> USE DEF NoInternalError, SizesInv
<1>1. ASSUME NEW p \in Procs, Call(p) PROVE NoInternalError'
  <2>1. ASSUME NEW n \in Names,
               CreateNameTooLong(p, n) \/ CreateNoSpace(p, n) \/ CreateStart(p, n)
        PROVE  ret' \in {"ENAMETOOLONG", "ENOSPC", "none"}
    BY <2>1 DEF CreateNameTooLong, CreateNoSpace, CreateStart, Return, NoReturn
  <2>2. ASSUME NEW ino, NEW via, NEW pos, NEW len, NEW v,
               WriteStart(p, ino, via, pos, len, v) \/ ReadStart(p, ino, via, pos, len)
        PROVE  ret' \in {"none", "ok", "ENOSPC"}
    BY <2>2 DEF WriteStart, ReadStart, Return, NoReturn
  <2>3. ASSUME NEW ino \in OpenFiles, NEW pos \in Positions, NEW len \in Lens,
               ReadShort(p, ino, pos, len)
        PROVE  ret' = "ok"
    BY <2>3, NoEopnotsupp
  <2> QED
    BY <1>1, <2>1, <2>2, <2>3 DEF Call
<1>2. ASSUME NEW p \in Procs, Continue(p) PROVE NoInternalError'
  <2>1. ASSUME CreateNoMemory(p) \/ CreateNoBlock(p) \/ CreateDone(p)
        PROVE  ret' \in {"ENOMEM", "ENOSPC", "ok"}
    BY <2>1 DEF CreateNoMemory, CreateNoBlock, CreateDone, Return
  <2>2. ASSUME WriteMapped(p) \/ WriteHole(p) \/ WriteNoSpace(p) \/ WriteCopy(p) \/ WriteFault(p)
        PROVE  ret' \in {"none", "EINVAL", "ENOSPC", "ok", "EFAULT"}
    BY <2>2 DEF WriteMapped, WriteHole, WriteNoSpace, WriteCopy, WriteFault, Return, NoReturn
  <2> QED
    BY <1>2, <2>1, <2>2, NoEexist, NoEnoent, NoEio DEF Continue
<1>3. ASSUME \/ \E i \in DOMAIN Dir : Lookup(i)
             \/ \E ino \in OpenFiles : Evict(ino)
             \/ \E n \in Truncating, via \in DentryKinds : Truncate(n, via)
             \/ UNCHANGED vars
      PROVE  NoInternalError'
  BY <1>3 DEF Lookup, Evict, Truncate, vars, NoReturn
<1> QED
  BY <1>1, <1>2, <1>3 DEF Next

(***************************************************************************)
(* The sizes.  A mounted file system has no file, no read in progress and  *)
(* has returned nothing; and if no call writes 0 bytes, every step keeps   *)
(* SizesInv.  (osfs_extent_do_write sets i_size to the offset of a write   *)
(* of 0 bytes, which may lie past the mapped blocks.)                      *)
(***************************************************************************)
LEMMA SizesInvInit == Init => SizesInv
<1> SUFFICES ASSUME Init PROVE SizesInv
  OBVIOUS
<1>1. root.i_size = 0
  BY SizesAssumption DEF Init, OsfsInode, ROOT_INODE, Inodes, root
<1>2. LiveFiles = {}
  BY <1>1 DEF LiveFiles, Dir
<1>3. \A p \in Procs : call[p].pc = "idle"
  BY DEF Init, Idle
<1>4. ret = "none"
  BY DEF Init
<1> QED
  BY <1>2, <1>3, <1>4 DEF SizesInv, SizeMapped, ReadsMapped, NoInternalError

LEMMA SizesInvStep ==
  ASSUME 0 \notin Lens
  PROVE  TypeInv /\ FsInv /\ SizesInv /\ [Next]_vars => SizesInv'
<1> SUFFICES ASSUME TypeInv, FsInv, SizesInv, [Next]_vars PROVE SizesInv'
  OBVIOUS
<1>1. SizeMapped'
  BY SizeMappedStep DEF SizesInv
<1>2. ReadsMapped'
  BY ReadsMappedStep DEF SizesInv
<1>3. NoInternalError'
  BY NoInternalErrorStep
<1> QED
  BY <1>1, <1>2, <1>3 DEF SizesInv

(* Without writes of 0 bytes, every byte below i_size of a file lies in a  *)
(* mapped block, whoever else creates, writes and reads meanwhile.         *)
THEOREM SizesAreMapped ==
  ASSUME 0 \notin Lens
  PROVE  Spec => []SizeMapped
<1>1. TypeInv /\ FsInv /\ SizesInv /\ [Next]_vars => SizesInv'
  BY SizesInvStep
<1>2. SizesInv => SizeMapped
  BY DEF SizesInv
<1> QED
  BY <1>1, <1>2, SizesInvInit, TypeCorrect, FsCorrect, PTL DEF Spec

(* Then no call ends in one of the errors that mean a broken table or      *)
(* directory: a read finds its blocks, a write the block it appended, and  *)
(* osfs_create no second entry of the name it was called for.              *)
THEOREM NoInternalErrors ==
  ASSUME 0 \notin Lens
  PROVE  Spec => []NoInternalError
<1>1. TypeInv /\ FsInv /\ SizesInv /\ [Next]_vars => SizesInv'
  BY SizesInvStep
<1>2. SizesInv => NoInternalError
  BY DEF SizesInv
<1> QED
  BY <1>1, <1>2, SizesInvInit, TypeCorrect, FsCorrect, PTL DEF Spec
=============================================================================
