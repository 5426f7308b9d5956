-------------------------------- MODULE Osfs --------------------------------
(***************************************************************************)
(* osfs, the memory-based file system of lab4: one mounted superblock, its *)
(* bitmaps, counters, inode table and data blocks, and the handlers the    *)
(* VFS calls on it (osfs_create, osfs_write, osfs_read).                   *)
(*                                                                         *)
(* Grain.  The actions cut a handler where it may sleep, in new_inode() of *)
(* osfs_new_inode and in copy_from_user() and copy_to_user() of the file   *)
(* operations, and also between its entry and each block: every schedule   *)
(* of a kernel without preemption on one CPU is one of the model.  osfs    *)
(* takes no lock of its own; the VFS holds the directory's i_rwsem during  *)
(* osfs_create and nothing that orders two readers or writers with a       *)
(* struct file each.                                                       *)
(*                                                                         *)
(* File offsets are arguments of a call: the VFS passes any *ppos (lseek,  *)
(* pread, pwrite).  The only directory is the root: osfs_dir_inode_        *)
(* operations has no mkdir.  Its i_size is kept in units of                *)
(* sizeof(struct osfs_dir_entry).                                          *)
(***************************************************************************)
EXTENDS Naturals, FiniteSets, FiniteSetsExt, Sequences, OsfsExtent

CONSTANTS
  Procs,             \* processes that call into the file system
  Names,             \* file names in use
  LongNames,         \* those of MAX_FILENAME_LEN bytes or more
  INODE_COUNT,       \* inodes 0 .. INODE_COUNT - 1; inode 0 is never used
  DATA_BLOCK_COUNT,  \* data blocks 0 .. DATA_BLOCK_COUNT - 1
  BLOCK_SIZE,        \* bytes of a data block
  MAX_DIR_ENTRIES,   \* directory entries that fit a block
  OSFS_MAX_EXTENTS,  \* extents that fit a block
  U32,               \* modulus of uint32_t (2^32)
  Vals,              \* bytes users write
  Positions,         \* file offsets used in calls
  Lens,              \* lengths used in calls
  Truncating,        \* names that are opened with O_TRUNC
  DentryKinds        \* dentries files are opened through: "create", "lookup"

ROOT_INODE == 1
Inodes == 1 .. (INODE_COUNT - 1)
Blocks == 0 .. (DATA_BLOCK_COUNT - 1)
Offsets == 0 .. (BLOCK_SIZE - 1)
Bytes == Vals \cup {0}

(* The VFS inodes a file may have.  osfs_create instantiates a dentry that *)
(* osfs_lookup left out of the dcache, so the next open of the name comes  *)
(* to osfs_lookup again and osfs_iget builds a second VFS inode.           *)
VfsInodes == Inodes \X DentryKinds
RootVfsInode == <<ROOT_INODE, "create">>

ASSUME SizesAssumption ==
  /\ INODE_COUNT \in Nat /\ INODE_COUNT > ROOT_INODE
  /\ DATA_BLOCK_COUNT \in Nat \ {0}
  /\ BLOCK_SIZE \in Nat \ {0}
  /\ MAX_DIR_ENTRIES \in Nat
  /\ OSFS_MAX_EXTENTS \in Nat
  /\ U32 \in Nat /\ U32 > INODE_COUNT /\ U32 > DATA_BLOCK_COUNT

ASSUME InputsAssumption ==
  /\ LongNames \subseteq Names /\ Truncating \subseteq Names
  /\ Positions \subseteq Nat
  /\ Lens \subseteq Nat
  /\ Vals \subseteq Nat
  /\ "create" \in DentryKinds /\ DentryKinds \subseteq {"create", "lookup"}

VARIABLES
  inode_bitmap,     \* set of inode numbers whose bit is set
  block_bitmap,     \* set of block numbers whose bit is set
  nr_free_inodes,
  nr_free_blocks,
  inode_table,      \* struct osfs_inode of every inode number
  data_blocks,      \* contents of every data block
  vinode,           \* i_size and i_blocks of a VFS inode; i_blocks is 0 if
                    \* there is none
  dcache,           \* inode bound to the dentry osfs_create pinned, 0 for none
  call,             \* the call each process has in progress
  ret               \* what the handler that has just returned returned

vars == <<inode_bitmap, block_bitmap, nr_free_inodes, nr_free_blocks,
          inode_table, data_blocks, vinode, dcache, call, ret>>
inodeVars == <<inode_bitmap, nr_free_inodes>>
blockVars == <<block_bitmap, nr_free_blocks>>
fsVars == <<inodeVars, blockVars, inode_table, data_blocks, vinode, dcache>>

-----------------------------------------------------------------------------
(* Counters are uint32_t: they wrap. *)
Dec(n) == IF n = 0 THEN U32 - 1 ELSE n - 1
Inc(n) == IF n = U32 - 1 THEN 0 ELSE n + 1

(* What a block holds: user bytes, an extent table (magic set) or entries. *)
Block(kind, bytes, exts, entries) ==
  [kind |-> kind, bytes |-> bytes, exts |-> exts, entries |-> entries]
ZeroBytes == [o \in Offsets |-> 0]
RawBlock(bytes) == Block("raw", bytes, << >>, << >>)
ExtentTable(exts) == Block("ext", ZeroBytes, exts, << >>)
DirBlock(entries) == Block("dir", ZeroBytes, << >>, entries)

OsfsInode(mode, size, blocks, block) ==
  [i_mode |-> mode, i_size |-> size, i_blocks |-> blocks, i_block |-> block]
VfsInode(size, blocks) == [i_size |-> size, i_blocks |-> blocks]

Idle == [pc |-> "idle", name |-> "", ino |-> 0, via |-> "create", pos |-> 0, rem |-> 0,
         done |-> 0, total |-> 0, phys |-> 0, val |-> 0]

root == inode_table[ROOT_INODE]
FreeInodes == Inodes \ inode_bitmap

(* Mutants: the bit of a block is looked for one place too low; the search *)
(* goes one bit too far.                                                   *)
FreeBlocks_Shifted == Blocks \ {b + 1 : b \in block_bitmap}
FreeBlocks_OneMore == (0 .. DATA_BLOCK_COUNT) \ block_bitmap

(* The clear bits that osfs_alloc_data_block looks for. *)
FreeBlocks == Blocks \ block_bitmap

(* Mutant: the last entry of the directory is not seen. *)
Dir_Short == IF root.i_size = 0 THEN << >>
             ELSE SubSeq(data_blocks[root.i_block].entries, 1, root.i_size - 1)

(* The entries of the root directory: i_size says how many there are. *)
Dir == IF root.i_size = 0 THEN << >> ELSE data_blocks[root.i_block].entries

(* The extent table of a file; empty until the first call sets its magic. *)
Table(ino) == data_blocks[inode_table[ino].i_block].exts

(* Files, and the VFS inodes of file ino, that a process can have open. *)
OpenFiles == {dcache[n] : n \in Names} \ {0}
OpenVia(ino) == {via \in DentryKinds : vinode[<<ino, via>>].i_blocks # 0}

(* Mutant: creates in one directory are not serialised. *)
DirLocked_Never == FALSE

(* i_rwsem of the root directory is held exclusively during osfs_create. *)
DirLocked == \E q \in Procs : call[q].pc = "new_inode"

(* The handler of process p returns code. *)
Return(p, code) ==
  /\ call' = [call EXCEPT ![p] = Idle]
  /\ ret' = code

(* A step inside a handler: nothing is returned. *)
NoReturn == ret' = "none"

-----------------------------------------------------------------------------
(* osfs_fill_super: the state of a file system that has just been mounted. *)
Init ==
  /\ inode_bitmap = {ROOT_INODE}
  /\ block_bitmap = {}
  /\ nr_free_inodes = INODE_COUNT - 1
  /\ nr_free_blocks = DATA_BLOCK_COUNT
  /\ inode_table = [i \in Inodes |-> IF i = ROOT_INODE THEN OsfsInode("dir", 0, 0, 0)
                                                     ELSE OsfsInode("none", 0, 0, 0)]
  /\ data_blocks = [b \in Blocks |-> RawBlock(ZeroBytes)]
  /\ vinode = [v \in VfsInodes |-> VfsInode(0, 0)]
  /\ dcache = [n \in Names |-> 0]
  /\ call = [p \in Procs |-> Idle]
  /\ ret = "none"

-----------------------------------------------------------------------------
(* osfs_create up to new_inode().  The VFS calls it with the directory     *)
(* locked and a negative dentry.                                           *)
CanCreate(p, n) == call[p].pc = "idle" /\ ~DirLocked /\ dcache[n] = 0

CreateNameTooLong(p, n) ==
  /\ CanCreate(p, n)
  /\ n \in LongNames
  /\ Return(p, "ENAMETOOLONG")
  /\ UNCHANGED fsVars

(* Mutant: the directory's size is asked instead of its block count. *)
RootNeedsBlock_BySize == root.i_size = 0

(* The root directory gets its block with the first create. *)
RootNeedsBlock == root.i_blocks = 0

GiveRootBlock ==
  IF RootNeedsBlock
  THEN /\ block_bitmap' = block_bitmap \cup {Min(FreeBlocks)}
       /\ nr_free_blocks' = Dec(nr_free_blocks)
       /\ inode_table' = [inode_table EXCEPT ![ROOT_INODE].i_block = Min(FreeBlocks),
                                             ![ROOT_INODE].i_blocks = 1]
       /\ vinode' = [vinode EXCEPT ![RootVfsInode].i_blocks = 1]
  ELSE UNCHANGED <<blockVars, inode_table, vinode>>

(* osfs_new_inode gives up before it takes an inode number. *)
CreateNoSpace(p, n) ==
  /\ CanCreate(p, n)
  /\ n \notin LongNames
  /\ IF RootNeedsBlock /\ FreeBlocks = {}
     THEN UNCHANGED <<blockVars, inode_table, vinode>>
     ELSE /\ GiveRootBlock
          /\ nr_free_inodes = 0 \/ nr_free_blocks' = 0 \/ FreeInodes = {}
  /\ Return(p, "ENOSPC")
  /\ UNCHANGED <<inodeVars, data_blocks, dcache>>

(* osfs_get_free_inode has taken a number and new_inode() may now sleep. *)
CreateStart(p, n) ==
  /\ CanCreate(p, n)
  /\ n \notin LongNames
  /\ ~(RootNeedsBlock /\ FreeBlocks = {})
  /\ GiveRootBlock
  /\ nr_free_inodes # 0 /\ nr_free_blocks' # 0 /\ FreeInodes # {}
  /\ LET ino == Min(FreeInodes) IN
       /\ inode_bitmap' = inode_bitmap \cup {ino}
       /\ nr_free_inodes' = Dec(nr_free_inodes)
       /\ call' = [call EXCEPT ![p] = [Idle EXCEPT !.pc = "new_inode",
                                                   !.name = n, !.ino = ino]]
  /\ UNCHANGED <<data_blocks, dcache>>
  /\ NoReturn

(* Mutant: the counter is restored and the bit is not. *)
CreateNoMemory_Counted(p) ==
  /\ call[p].pc = "new_inode"
  /\ nr_free_inodes' = Inc(nr_free_inodes)
  /\ Return(p, "ENOMEM")
  /\ UNCHANGED <<blockVars, inode_bitmap, inode_table, data_blocks, vinode, dcache>>

(* new_inode() returned NULL; the inode number stays taken. *)
CreateNoMemory(p) ==
  /\ call[p].pc = "new_inode"
  /\ Return(p, "ENOMEM")
  /\ UNCHANGED fsVars

(* A writer took the last block while new_inode() slept. *)
CreateNoBlock(p) ==
  /\ call[p].pc = "new_inode"
  /\ FreeBlocks = {}
  /\ inode_table' = [inode_table EXCEPT ![call[p].ino] = OsfsInode("reg", 0, 1, 0)]
  /\ Return(p, "ENOSPC")
  /\ UNCHANGED <<inodeVars, blockVars, data_blocks, vinode, dcache>>

(* What osfs_add_dir_entry answers for a name. *)
osfs_add_dir_entry(n) ==
  CASE Len(Dir) >= MAX_DIR_ENTRIES -> "ENOSPC"
    [] \E i \in DOMAIN Dir : Dir[i].filename = n -> "EEXIST"
    [] OTHER -> "ok"

(* No entry for the new file: osfs_create frees its block and its number.  *)
(* osfs_new_inode decremented nr_free_inodes a second time and osfs_create *)
(* has undone that.                                                        *)
CreateRollback(p) ==
  LET c == call[p] IN
  /\ c.pc = "new_inode"
  /\ FreeBlocks # {}
  /\ osfs_add_dir_entry(c.name) # "ok"
  /\ inode_table' = [inode_table EXCEPT ![c.ino] =
                       OsfsInode("reg", 0, 1, Min(FreeBlocks))]
  /\ nr_free_blocks' = Inc(Dec(nr_free_blocks))
  /\ inode_bitmap' = inode_bitmap \ {c.ino}
  /\ nr_free_inodes' = Inc(Inc(Dec(nr_free_inodes)))
  /\ Return(p, osfs_add_dir_entry(c.name))
  /\ UNCHANGED <<block_bitmap, data_blocks, vinode, dcache>>

(* The file exists: its entry is written and its dentry pinned. *)
CreateDone(p) ==
  LET c == call[p]
      b == Min(FreeBlocks)
  IN
  /\ c.pc = "new_inode"
  /\ FreeBlocks # {}
  /\ osfs_add_dir_entry(c.name) = "ok"
  /\ block_bitmap' = block_bitmap \cup {b}
  /\ nr_free_blocks' = Dec(nr_free_blocks)
  /\ nr_free_inodes' = Inc(Dec(nr_free_inodes))
  /\ inode_table' = [inode_table EXCEPT ![c.ino] = OsfsInode("reg", 0, 1, b),
                                        ![ROOT_INODE].i_size = root.i_size + 1]
  /\ data_blocks' = [data_blocks EXCEPT ![root.i_block] =
                       DirBlock(Append(Dir, [filename |-> c.name, inode_no |-> c.ino]))]
  /\ vinode' = [vinode EXCEPT ![<<c.ino, "create">>] = VfsInode(0, 1),
                              ![RootVfsInode].i_size = root.i_size + 1]
  /\ dcache' = [dcache EXCEPT ![c.name] = c.ino]
  /\ Return(p, "ok")
  /\ UNCHANGED inode_bitmap

-----------------------------------------------------------------------------
(* osfs_extent_do_write. *)

(* osfs_extent_ensure_table takes a block for a file without a table and   *)
(* formats the table's block unless it already holds one.                  *)
NeedsTable(ino) == inode_table[ino].i_blocks = 0 \/ inode_table[ino].i_block = 0

WithTable(ino) ==
  IF NeedsTable(ino)
  THEN [inode_table[ino] EXCEPT !.i_block = Min(FreeBlocks), !.i_blocks = 1]
  ELSE inode_table[ino]

(* Mutant: a full table is formatted again. *)
FormattedTable_OffByOne(b) ==
  IF data_blocks[b].kind = "ext" /\ Len(data_blocks[b].exts) < OSFS_MAX_EXTENTS
  THEN data_blocks[b].exts
  ELSE << >>

(* The table in the block of a file when ensure_table returns. *)
FormattedTable(b) ==
  IF data_blocks[b].kind = "ext" /\ Len(data_blocks[b].exts) <= OSFS_MAX_EXTENTS
  THEN data_blocks[b].exts
  ELSE << >>

(* Entry of a write; a write of no bytes goes straight to the size update. *)
WriteStart(p, ino, via, pos, len, v) ==
  LET f == WithTable(ino)
      exts == FormattedTable(f.i_block)
      grows == len = 0 /\ pos > f.i_size
  IN
  /\ call[p].pc = "idle"
  /\ IF NeedsTable(ino) /\ FreeBlocks = {}
     THEN /\ Return(p, "ENOSPC")
          /\ UNCHANGED <<blockVars, inode_table, data_blocks, vinode>>
     ELSE /\ block_bitmap' = IF NeedsTable(ino) THEN block_bitmap \cup {f.i_block}
                                                ELSE block_bitmap
          /\ nr_free_blocks' = IF NeedsTable(ino) THEN Dec(nr_free_blocks)
                                                  ELSE nr_free_blocks
          /\ data_blocks' = [data_blocks EXCEPT ![f.i_block] = ExtentTable(exts)]
          /\ inode_table' = [inode_table EXCEPT ![ino] =
                               IF grows THEN [f EXCEPT !.i_size = pos % U32] ELSE f]
          /\ vinode' = [vinode EXCEPT
               ![<<ino, via>>].i_size = IF grows THEN pos % U32 ELSE @,
               ![<<ino, via>>].i_blocks = IF NeedsTable(ino) THEN 1 ELSE @]
          /\ IF len = 0
             THEN Return(p, "ok")
             ELSE /\ call' = [call EXCEPT ![p] =
                                [Idle EXCEPT !.pc = "map", !.ino = ino, !.via = via,
                                             !.pos = pos, !.rem = len, !.val = v,
                                             !.total = osfs_extent_total_blocks(exts)]]
                  /\ NoReturn
  /\ UNCHANGED <<inodeVars, dcache>>

(* A uint32_t, as osfs_inode->i_size: offsets of 2^32 blocks wrap around. *)
LogicalBlock(c) == (c.pos \div BLOCK_SIZE) % U32

(* The logical block is mapped: copy into it next. *)
WriteMapped(p) ==
  /\ call[p].pc = "map"
  /\ \E phys \in osfs_extent_lookup_block(Table(call[p].ino), LogicalBlock(call[p])) :
       call' = [call EXCEPT ![p].pc = "copy", ![p].phys = phys]
  /\ UNCHANGED fsVars
  /\ NoReturn

Unmapped(c) == c.pc = "map" /\ osfs_extent_lookup_block(Table(c.ino), LogicalBlock(c)) = {}

(* A write that would leave a whole block unmapped is refused. *)
WriteHole(p) ==
  /\ Unmapped(call[p])
  /\ LogicalBlock(call[p]) > call[p].total
  /\ Return(p, "EINVAL")
  /\ UNCHANGED fsVars

(* Mutant: the table is not asked whether it is full. *)
NoRoom_NoTableCheck(exts) == FreeBlocks = {}

(* osfs_extent_append_block has no room: no free block, or the table is    *)
(* full and the block it got, and frees again, does not extend the last    *)
(* extent.                                                                 *)
NoRoom(exts) ==
  FreeBlocks # {} => Len(exts) >= OSFS_MAX_EXTENTS /\ ~CanMerge(exts, Min(FreeBlocks))

WriteNoSpace(p) ==
  /\ Unmapped(call[p])
  /\ LogicalBlock(call[p]) <= call[p].total
  /\ NoRoom(Table(call[p].ino))
  /\ Return(p, "ENOSPC")
  /\ UNCHANGED fsVars

(* osfs_extent_append_block succeeds; the block is looked up again. *)
WriteAppend(p) ==
  LET c == call[p]
      b == Min(FreeBlocks)
      exts == osfs_extent_append(Table(c.ino), b)
      hits == osfs_extent_lookup_block(exts, LogicalBlock(c))
  IN
  /\ Unmapped(c)
  /\ LogicalBlock(c) <= c.total
  /\ ~NoRoom(Table(c.ino))
  /\ block_bitmap' = block_bitmap \cup {b}
  /\ nr_free_blocks' = Dec(nr_free_blocks)
  /\ data_blocks' = [data_blocks EXCEPT ![inode_table[c.ino].i_block] = ExtentTable(exts)]
  /\ inode_table' = [inode_table EXCEPT ![c.ino].i_blocks = @ + 1]
  /\ vinode' = [vinode EXCEPT ![<<c.ino, c.via>>].i_blocks =
                                inode_table[c.ino].i_blocks + 1]
  /\ IF hits = {}
     THEN Return(p, "ENOENT")
     ELSE /\ \E phys \in hits :
               call' = [call EXCEPT ![p].pc = "copy", ![p].phys = phys,
                                    ![p].total = @ + 1]
          /\ NoReturn
  /\ UNCHANGED <<inodeVars, dcache>>

(* Mutants: the chunk passes the end of the block, or stops short of it. *)
Chunk_WholeCall(c) == c.rem
Chunk_OffByOne(c) == Min({c.rem, BLOCK_SIZE - 1 - (c.pos % BLOCK_SIZE)})

(* Bytes of the current chunk: up to the end of the block or of the call. *)
Chunk(c) == Min({c.rem, BLOCK_SIZE - (c.pos % BLOCK_SIZE)})

(* Store bytes of the chunk: the first k from the user, the rest zero. *)
Store(c, k) ==
  LET off == c.pos % BLOCK_SIZE IN
  data_blocks' = [data_blocks EXCEPT ![c.phys] = RawBlock(
    [o \in Offsets |-> IF o < off \/ o >= off + Chunk(c) THEN data_blocks[c.phys].bytes[o]
                       ELSE IF o < off + k THEN c.val ELSE 0])]

(* osfs_inode->i_size and inode->i_size when a write ends at offset end. *)
GrowTo(ino, via, end) ==
  IF end > inode_table[ino].i_size
  THEN /\ inode_table' = [inode_table EXCEPT ![ino].i_size = end % U32]
       /\ vinode' = [vinode EXCEPT ![<<ino, via>>].i_size = end % U32]
  ELSE UNCHANGED <<inode_table, vinode>>

(* Mutant: the next chunk goes to the same block, without a lookup. *)
WriteCopy_SameBlock(p) ==
  LET c == call[p] IN
  /\ c.pc = "copy"
  /\ Store(c, Chunk(c))
  /\ IF c.rem = Chunk(c)
     THEN GrowTo(c.ino, c.via, c.pos + Chunk(c)) /\ Return(p, "ok")
     ELSE /\ call' = [call EXCEPT ![p].pos = @ + Chunk(c), ![p].rem = @ - Chunk(c),
                                  ![p].done = @ + Chunk(c)]
          /\ NoReturn /\ UNCHANGED <<inode_table, vinode>>
  /\ UNCHANGED <<inodeVars, blockVars, dcache>>

(* copy_from_user succeeds; after the last chunk the size is updated. *)
WriteCopy(p) ==
  LET c == call[p] IN
  /\ c.pc = "copy"
  /\ Store(c, Chunk(c))
  /\ IF c.rem = Chunk(c)
     THEN GrowTo(c.ino, c.via, c.pos + Chunk(c)) /\ Return(p, "ok")
     ELSE /\ call' = [call EXCEPT ![p].pc = "map", ![p].pos = @ + Chunk(c),
                                  ![p].rem = @ - Chunk(c), ![p].done = @ + Chunk(c),
                                  ![p].phys = 0]
          /\ NoReturn /\ UNCHANGED <<inode_table, vinode>>
  /\ UNCHANGED <<inodeVars, blockVars, dcache>>

(* copy_from_user faults after k bytes and zeroes the rest of the chunk. *)
WriteFault(p) ==
  LET c == call[p] IN
  /\ c.pc = "copy"
  /\ \E k \in 0 .. (Chunk(c) - 1) : Store(c, k)
  /\ Return(p, "EFAULT")
  /\ UNCHANGED <<inodeVars, blockVars, inode_table, vinode, dcache>>

-----------------------------------------------------------------------------
(* osfs_extent_do_read. *)

(* Reads that end at once; the first read of a new file formats its table. *)
(* EOPNOTSUPP would send osfs_read to the one-block code below it.         *)
ReadShort(p, ino, pos, len) ==
  LET f == inode_table[ino] IN
  /\ call[p].pc = "idle"
  /\ CASE NeedsTable(ino) ->
            Return(p, "ok") /\ UNCHANGED data_blocks
       [] ~NeedsTable(ino) /\ data_blocks[f.i_block].kind = "ext" ->
            /\ pos >= f.i_size \/ len = 0
            /\ Return(p, "ok")
            /\ UNCHANGED data_blocks
       [] ~NeedsTable(ino) /\ data_blocks[f.i_block].kind # "ext" ->
            /\ Return(p, IF f.i_size = 0 THEN "ok" ELSE "EOPNOTSUPP")
            /\ data_blocks' = IF f.i_size = 0
                 THEN [data_blocks EXCEPT ![f.i_block] = ExtentTable(<< >>)]
                 ELSE data_blocks
  /\ UNCHANGED <<inodeVars, blockVars, inode_table, vinode, dcache>>

(* A read of bytes below i_size starts its loop over the blocks. *)
ReadStart(p, ino, via, pos, len) ==
  LET f == inode_table[ino] IN
  /\ call[p].pc = "idle"
  /\ ~NeedsTable(ino) /\ data_blocks[f.i_block].kind = "ext"
  /\ pos < f.i_size /\ len > 0
  /\ call' = [call EXCEPT ![p] = [Idle EXCEPT !.pc = "read", !.ino = ino, !.via = via,
                                  !.pos = pos, !.rem = Min({len, f.i_size - pos})]]
  /\ UNCHANGED fsVars
  /\ NoReturn

(* One block of a read; copy_to_user may fault. *)
ReadBlock(p) ==
  LET c == call[p]
      hits == osfs_extent_lookup_block(Table(c.ino), LogicalBlock(c))
  IN
  /\ c.pc = "read"
  /\ IF hits = {}
     THEN Return(p, "EIO")
     ELSE \/ Return(p, "EFAULT")
          \/ c.rem = Chunk(c) /\ Return(p, "ok")
          \/ /\ c.rem > Chunk(c)
             /\ call' = [call EXCEPT ![p].pos = @ + Chunk(c), ![p].rem = @ - Chunk(c)]
             /\ NoReturn
  /\ UNCHANGED fsVars

-----------------------------------------------------------------------------
(* osfs_lookup of a name with an entry; osfs_iget copies the osfs inode.   *)
(* The VFS holds the directory's i_rwsem shared.                           *)
osfs_iget(ino) == VfsInode(inode_table[ino].i_size, inode_table[ino].i_blocks)

Lookup(i) ==
  LET v == <<Dir[i].inode_no, "lookup">> IN
  /\ v \in VfsInodes /\ vinode[v].i_blocks = 0
  /\ ~DirLocked
  /\ vinode' = [vinode EXCEPT ![v] = osfs_iget(Dir[i].inode_no)]
  /\ UNCHANGED <<inodeVars, blockVars, inode_table, data_blocks, dcache, call>>
  /\ NoReturn

(* The dentry that osfs_lookup hashed, unlike the one osfs_create pinned,  *)
(* may leave the dcache when the file is not open, and its inode with it.  *)
Evict(ino) ==
  LET v == <<ino, "lookup">> IN
  /\ v \in VfsInodes /\ vinode[v].i_blocks # 0
  /\ \A p \in Procs : <<call[p].ino, call[p].via>> # v
  /\ vinode' = [vinode EXCEPT ![v] = VfsInode(0, 0)]
  /\ UNCHANGED <<inodeVars, blockVars, inode_table, data_blocks, dcache, call>>
  /\ NoReturn

(* open(O_TRUNC): osfs has no setattr, so the VFS runs simple_setattr,     *)
(* which sets the size of the VFS inode and calls nothing in osfs.         *)
Truncate(n, via) ==
  LET v == <<dcache[n], via>> IN
  /\ v \in VfsInodes /\ vinode[v].i_size # 0
  /\ vinode' = [vinode EXCEPT ![v].i_size = 0]
  /\ UNCHANGED <<inodeVars, blockVars, inode_table, data_blocks, dcache, call>>
  /\ NoReturn

(* A call in progress goes on. *)
Continue(p) ==
  \/ CreateNoMemory(p) \/ CreateNoBlock(p) \/ CreateRollback(p) \/ CreateDone(p)
  \/ WriteMapped(p) \/ WriteHole(p) \/ WriteNoSpace(p) \/ WriteAppend(p)
  \/ WriteCopy(p) \/ WriteFault(p)
  \/ ReadBlock(p)

(* A process makes a call. *)
Call(p) ==
  \/ \E n \in Names : CreateNameTooLong(p, n) \/ CreateNoSpace(p, n) \/ CreateStart(p, n)
  \/ \E ino \in OpenFiles, pos \in Positions, len \in Lens :
       \/ \E via \in OpenVia(ino) :
            \/ \E v \in Vals : WriteStart(p, ino, via, pos, len, v)
            \/ ReadStart(p, ino, via, pos, len)
       \/ ReadShort(p, ino, pos, len)

Next ==
  \/ \E p \in Procs : Call(p) \/ Continue(p)
  \/ \E i \in DOMAIN Dir : Lookup(i)
  \/ \E ino \in OpenFiles : Evict(ino)
  \/ \E n \in Truncating, via \in DentryKinds : Truncate(n, via)

Spec == Init /\ [][Next]_vars

(* A handler that sleeps is woken and runs on. *)
FairSpec == Spec /\ \A p \in Procs : WF_vars(Continue(p))
=============================================================================
