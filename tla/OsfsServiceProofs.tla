-------------------------- MODULE OsfsServiceProofs --------------------------
(***************************************************************************)
(* What users of osfs rely on, for any number of processes, names, inodes, *)
(* blocks, extents and mounts: files keep their bytes, a mount finds a     *)
(* clean region, and a listing shows the directory.                        *)
(*                                                                         *)
(* Part 1: osfs implements OsfsFiles.  A step creates a file, stores a     *)
(* chunk, or is calm: it rewrites at most the block of a file's table, and *)
(* a table grows by a block that holds zeroes.  A calm step leaves the     *)
(* image of every file as it is, and at most begins or ends a write.  A    *)
(* chunk is stored in the block that the table of the call's own file maps *)
(* at the call's own position, although the copy may have slept.           *)
(*                                                                         *)
(* Part 2: MountedInv is inductive.  A step of a handler keeps it because  *)
(* FsInv does and because the directory only grows at its end;             *)
(* osfs_fill_super leaves an Empty file system, whatever the region held.  *)
(***************************************************************************)
EXTENDS OsfsRefinement, OsfsReaddir, OsfsDiskProofs

-----------------------------------------------------------------------------
(* Part 1: the bytes of a file change only by writes to it.                *)
-----------------------------------------------------------------------------
(* No name gets or loses its file, no block becomes free, and only the     *)
(* blocks of tables are rewritten.                                         *)
OnlyTables ==
  \A d \in Blocks : \/ data_blocks'[d] = data_blocks[d]
                    \/ \E f \in LiveFiles : d = inode_table[f].i_block
Calm ==
  /\ dcache' = dcache
  /\ block_bitmap \subseteq block_bitmap'
  /\ OnlyTables

LEMMA CalmData ==
  ASSUME UNCHANGED <<data_blocks, dcache>>, block_bitmap \subseteq block_bitmap'
  PROVE  Calm
BY DEF Calm, OnlyTables

(* A live file's table block is the only one that is rewritten.            *)
LEMMA TableRewritten ==
  ASSUME TypeInv, NEW f \in LiveFiles, NEW new,
         data_blocks' = [data_blocks EXCEPT ![inode_table[f].i_block] = new]
  PROVE  OnlyTables
<1>1. data_blocks \in [Blocks -> BlockType]
  BY DEF TypeInv, TypeOK
<1> QED
  BY <1>1 DEF OnlyTables

LEMMA CalmCreate ==
  ASSUME TypeInv, NEW p \in Procs,
         \/ \E n \in Names : CreateNameTooLong(p, n) \/ CreateNoSpace(p, n) \/ CreateStart(p, n)
         \/ CreateNoMemory(p) \/ CreateNoBlock(p) \/ CreateRollback(p)
  PROVE  Calm
<1>1. ASSUME GiveRootBlock PROVE block_bitmap \subseteq block_bitmap'
  BY <1>1 DEF GiveRootBlock, blockVars
<1>2. ASSUME NEW n \in Names,
             CreateNameTooLong(p, n) \/ CreateNoSpace(p, n) \/ CreateStart(p, n)
      PROVE  Calm
  <2>1. CASE CreateNameTooLong(p, n)
    BY <2>1, CalmData DEF CreateNameTooLong, fsVars, blockVars
  <2>2. CASE CreateNoSpace(p, n)
    BY <1>1, <2>2, CalmData DEF CreateNoSpace, blockVars
  <2>3. CASE CreateStart(p, n)
    BY <1>1, <2>3, CalmData DEF CreateStart
  <2> QED
    BY <1>2, <2>1, <2>2, <2>3
<1>3. CASE CreateNoMemory(p) \/ CreateNoBlock(p) \/ CreateRollback(p)
  BY <1>3, CalmData DEF CreateNoMemory, CreateNoBlock, CreateRollback, fsVars, blockVars
<1> QED
  BY <1>2, <1>3

LEMMA CalmWriteStart ==
  ASSUME TypeInv, FsInv, NEW p \in Procs, NEW ino \in OpenFiles, NEW via, NEW pos, NEW len, NEW v,
         WriteStart(p, ino, via, pos, len, v)
  PROVE  Calm
<1>1. ino \in LiveFiles
  BY OpenIsLive
<1>2. ~NeedsTable(ino) /\ WithTable(ino) = inode_table[ino]
  BY <1>1, LiveFile DEF WithTable
<1>3. /\ block_bitmap' = block_bitmap /\ dcache' = dcache
      /\ \E new : data_blocks' = [data_blocks EXCEPT ![inode_table[ino].i_block] = new]
  BY <1>2 DEF WriteStart
<1> QED
  BY <1>1, <1>3, TableRewritten DEF Calm

LEMMA CalmRead ==
  ASSUME TypeInv, FsInv, NEW p \in Procs, NEW ino \in OpenFiles, NEW pos, NEW len,
         ReadShort(p, ino, pos, len)
  PROVE  Calm
<1>1. ino \in LiveFiles
  BY OpenIsLive
<1>2. /\ block_bitmap' = block_bitmap /\ dcache' = dcache
      /\ \/ data_blocks' = data_blocks
         \/ \E new : data_blocks' = [data_blocks EXCEPT ![inode_table[ino].i_block] = new]
  BY DEF ReadShort, blockVars
<1> QED
  BY <1>1, <1>2, TableRewritten, CalmData DEF Calm

LEMMA CalmWrite ==
  ASSUME TypeInv, FsInv, NEW p \in Procs,
         \/ WriteMapped(p) \/ WriteHole(p) \/ WriteNoSpace(p) \/ WriteAppend(p) \/ ReadBlock(p)
  PROVE  Calm
<1>1. CASE WriteMapped(p) \/ WriteHole(p) \/ WriteNoSpace(p) \/ ReadBlock(p)
  BY <1>1, CalmData DEF WriteMapped, WriteHole, WriteNoSpace, ReadBlock, fsVars, blockVars
<1>2. CASE WriteAppend(p)
  <2>1. call[p].ino \in LiveFiles
    BY <1>2, FileCallNow DEF WriteAppend, Unmapped
  <2>2. /\ block_bitmap \subseteq block_bitmap' /\ dcache' = dcache
        /\ \E new : data_blocks' = [data_blocks EXCEPT ![inode_table[call[p].ino].i_block] = new]
    BY <1>2 DEF WriteAppend
  <2> QED
    BY <2>1, <2>2, TableRewritten DEF Calm
<1> QED
  BY <1>1, <1>2

(* What one step of osfs does to names and blocks.                         *)
LEMMA CalmStep ==
  ASSUME TypeInv, FsInv, [Next]_vars
  PROVE  Calm \/ \E p \in Procs : CreateDone(p) \/ WriteCopy(p) \/ WriteFault(p)
<1>1. ASSUME NEW p \in Procs, Call(p) PROVE Calm
  <2>1. ASSUME NEW ino \in OpenFiles, NEW pos \in Positions, NEW len \in Lens,
               \/ \E via \in OpenVia(ino) :
                    \/ \E v \in Vals : WriteStart(p, ino, via, pos, len, v)
                    \/ ReadStart(p, ino, via, pos, len)
               \/ ReadShort(p, ino, pos, len)
        PROVE  Calm
    <3>1. ASSUME NEW via \in OpenVia(ino), ReadStart(p, ino, via, pos, len)
          PROVE  Calm
      BY <3>1, CalmData DEF ReadStart, fsVars, blockVars
    <3> QED
      BY <2>1, <3>1, CalmWriteStart, CalmRead
  <2> QED
    BY <1>1, <2>1, CalmCreate DEF Call
<1>2. ASSUME NEW p \in Procs, Continue(p)
      PROVE  Calm \/ CreateDone(p) \/ WriteCopy(p) \/ WriteFault(p)
  BY <1>2, CalmCreate, CalmWrite DEF Continue
<1>3. ASSUME \/ \E i \in DOMAIN Dir : Lookup(i)
             \/ \E ino \in OpenFiles : Evict(ino)
             \/ \E n \in Truncating, via \in DentryKinds : Truncate(n, via)
             \/ UNCHANGED vars
      PROVE  Calm
  BY <1>3, CalmData DEF Lookup, Evict, Truncate, vars, blockVars
<1> QED
  BY <1>1, <1>2, <1>3 DEF Next

-----------------------------------------------------------------------------
(* Byte o of a block with bytes x once the first k bytes of the chunk of   *)
(* c are copied there and the rest of the chunk is cleared.                *)
ChunkByte(c, k, x, o) ==
  LET off == c.pos % BLOCK_SIZE IN
  IF o < off \/ o >= off + Chunk(c) THEN x[o] ELSE IF o < off + k THEN c.val ELSE 0

(* The first k bytes of the chunk of c are stored in block b of file f.    *)
IsStored(c, k, f, b) ==
  /\ c \in CallType /\ f \in LiveFiles
  /\ b \in ExtentBlocks(Table(f)) /\ b \in block_bitmap \ {0}
  /\ osfs_extent_lookup_block(Table(f), LogicalBlock(c)) = {b}
  /\ \A d \in Blocks : d # b => data_blocks'[d] = data_blocks[d]
  /\ \A o \in Offsets :
       data_blocks'[b].bytes[o] = ChunkByte(c, k, data_blocks[b].bytes, o)

(* A chunk is stored in the block that its file maps there.                *)
LEMMA ChunkStored ==
  ASSUME TypeInv, FsInv, NEW p \in Procs, NEW c, c = call[p], c.pc = "copy", NEW k, Store(c, k),
         NEW f, f = c.ino, NEW b, b = c.phys
  PROVE  IsStored(c, k, f, b)
<1>1. /\ c \in CallType /\ f \in LiveFiles /\ LogicalBlock(c) \in Nat
      /\ osfs_extent_lookup_block(Table(f), LogicalBlock(c)) = {b}
  BY FileCallNow
<1>2. b \in ExtentBlocks(Table(f))
  BY <1>1, LiveFile, LookupInRuns
<1>3. b \in block_bitmap \ {0}
  BY <1>1, <1>2, LiveFile
<1>4. data_blocks \in [Blocks -> BlockType] /\ b \in Blocks
  BY <1>3 DEF TypeInv, TypeOK
<1>5. PICK bytes :
        /\ bytes = [o \in Offsets |-> ChunkByte(c, k, data_blocks[b].bytes, o)]
        /\ data_blocks' = [data_blocks EXCEPT ![b] = RawBlock(bytes)]
  BY DEF Store, ChunkByte
<1>6. RawBlock(bytes).bytes = bytes
  BY DEF RawBlock, Block
<1>7. /\ \A d \in Blocks : d # b => data_blocks'[d] = data_blocks[d]
      /\ data_blocks'[b].bytes = bytes
  BY <1>4, <1>5, <1>6
<1> QED
  BY <1>1, <1>2, <1>3, <1>5, <1>7 DEF IsStored

(* Both ends of a chunk's copy store it.                                   *)
LEMMA CopyStores ==
  ASSUME NEW p \in Procs, WriteCopy(p) \/ WriteFault(p)
  PROVE  /\ call[p].pc = "copy" /\ \E k : Store(call[p], k)
         /\ UNCHANGED <<block_bitmap, dcache>>
BY DEF WriteCopy, WriteFault, blockVars

(* A block that is not in use holds zeroes.                                *)
LEMMA FreshStep ==
  ASSUME TypeInv, FsInv, BytesFresh, [Next]_vars
  PROVE  BytesFresh'
<1>1. ASSUME block_bitmap \subseteq block_bitmap',
             \A d \in Blocks \ block_bitmap : data_blocks'[d] = data_blocks[d]
      PROVE  BytesFresh'
  BY <1>1 DEF BytesFresh, FreeBlocks, Blocks, ZeroBytes, Offsets
<1>2. CASE Calm
  <2>1. \A f \in LiveFiles : inode_table[f].i_block \in block_bitmap
    BY LiveFile
  <2> QED
    BY <1>1, <1>2, <2>1 DEF Calm, OnlyTables
<1>3. ASSUME NEW p \in Procs, CreateDone(p) PROVE BytesFresh'
  <2>1. 0 \in block_bitmap /\ block_bitmap \subseteq block_bitmap' /\ root.i_block = 0
    BY <1>3, CreatedFile DEF CreateDone, FsInv, RootInv
  <2>2. \E new : data_blocks' = [data_blocks EXCEPT ![0] = new]
    BY <1>3, <2>1 DEF CreateDone
  <2>3. data_blocks \in [Blocks -> BlockType]
    BY DEF TypeInv, TypeOK
  <2> QED
    BY <1>1, <2>1, <2>2, <2>3
<1>4. ASSUME NEW p \in Procs, WriteCopy(p) \/ WriteFault(p) PROVE BytesFresh'
  <2>1. PICK k : call[p].pc = "copy" /\ Store(call[p], k) /\ block_bitmap' = block_bitmap
    BY <1>4, CopyStores
  <2> QED
    BY <1>1, <2>1, ChunkStored DEF IsStored
<1> QED
  BY <1>2, <1>3, <1>4, CalmStep

-----------------------------------------------------------------------------
(* Calls address bytes of the 2^32 blocks that a uint32_t can number.      *)
CallsInRange == \A pos \in Positions, len \in Lens : pos + len <= BLOCK_SIZE * U32

(* A step changes one call at most; a write in progress must fit then.     *)
LEMMA FitsAfter ==
  ASSUME TypeInv, \A q \in Procs : WriteFits(call[q]), NEW p \in Procs, NEW c, WriteFits(c),
         call' = [call EXCEPT ![p] = c]
  PROVE  \A q \in Procs : WriteFits(call'[q])
<1>1. \A q \in Procs : call'[q] = IF q = p THEN c ELSE call[q]
  BY DEF TypeInv, TypeOK
<1> QED
  BY <1>1

LEMMA FitsReturn ==
  ASSUME TypeInv, \A q \in Procs : WriteFits(call[q]), NEW p \in Procs, NEW code, Return(p, code)
  PROVE  \A q \in Procs : WriteFits(call'[q])
<1>1. PICK c : c = Idle
  OBVIOUS
<1>2. WriteFits(c) /\ call' = [call EXCEPT ![p] = c]
  BY <1>1 DEF Return, Idle, WriteFits
<1> QED
  BY <1>2, FitsAfter

LEMMA FitsCreate ==
  ASSUME TypeInv, \A q \in Procs : WriteFits(call[q]), NEW p \in Procs,
         \/ \E n \in Names : CreateNameTooLong(p, n) \/ CreateNoSpace(p, n) \/ CreateStart(p, n)
         \/ CreateNoMemory(p) \/ CreateNoBlock(p) \/ CreateRollback(p) \/ CreateDone(p)
  PROVE  \A q \in Procs : WriteFits(call'[q])
<1>1. ASSUME NEW n \in Names, CreateStart(p, n)
      PROVE  \A q \in Procs : WriteFits(call'[q])
  <2>1. PICK c : c = [Idle EXCEPT !.pc = "new_inode", !.name = n, !.ino = Min(FreeInodes)]
    OBVIOUS
  <2>2. WriteFits(c)
    BY <2>1 DEF Idle, WriteFits
  <2>3. call' = [call EXCEPT ![p] = c]
    BY <1>1, <2>1 DEF CreateStart
  <2> QED
    BY <2>2, <2>3, FitsAfter
<1>2. CASE \/ \E n \in Names : CreateNameTooLong(p, n) \/ CreateNoSpace(p, n)
           \/ CreateNoMemory(p) \/ CreateNoBlock(p) \/ CreateRollback(p) \/ CreateDone(p)
  BY <1>2, FitsReturn
     DEF CreateNameTooLong, CreateNoSpace, CreateNoMemory, CreateNoBlock, CreateRollback,
         CreateDone
<1> QED
  BY <1>1, <1>2

(* A call that goes on from map to copy writes what it had to write.       *)
LEMMA FitsCopy ==
  ASSUME TypeInv, \A q \in Procs : WriteFits(call[q]), NEW p \in Procs, call[p].pc = "map",
         NEW c, c.val = call[p].val, c.rem = call[p].rem, c.pos = call[p].pos,
         call' = [call EXCEPT ![p] = c]
  PROVE  \A q \in Procs : WriteFits(call'[q])
<1>1. WriteFits(c)
  BY DEF WriteFits
<1> QED
  BY <1>1, FitsAfter

LEMMA FitsMapped ==
  ASSUME TypeInv, \A q \in Procs : WriteFits(call[q]), NEW p \in Procs,
         WriteMapped(p) \/ WriteAppend(p)
  PROVE  \A q \in Procs : WriteFits(call'[q])
<1>1. call[p].pc = "map"
  BY DEF WriteMapped, WriteAppend, Unmapped
<1>2. call[p] \in CallType /\ call \in [Procs -> CallType]
  BY <1>1, CallTypeNow DEF TypeInv, TypeOK
<1>3. CASE \E phys : call' = [call EXCEPT ![p].pc = "copy", ![p].phys = phys]
  <2>1. PICK phys : call' = [call EXCEPT ![p].pc = "copy", ![p].phys = phys]
    BY <1>3
  <2>2. PICK c : c = [call[p] EXCEPT !.pc = "copy", !.phys = phys]
    OBVIOUS
  <2>3. c.val = call[p].val /\ c.rem = call[p].rem /\ c.pos = call[p].pos
    BY <1>2, <2>2 DEF CallType
  <2>4. call' = [call EXCEPT ![p] = c]
    BY <1>2, <2>1, <2>2
  <2> QED
    BY <1>1, <2>3, <2>4, FitsCopy
<1>4. CASE \E phys : call' = [call EXCEPT ![p].pc = "copy", ![p].phys = phys, ![p].total = @ + 1]
  <2>1. PICK phys : call' = [call EXCEPT ![p].pc = "copy", ![p].phys = phys, ![p].total = @ + 1]
    BY <1>4
  <2>2. PICK c : c = [call[p] EXCEPT !.pc = "copy", !.phys = phys, !.total = @ + 1]
    OBVIOUS
  <2>3. c.val = call[p].val /\ c.rem = call[p].rem /\ c.pos = call[p].pos
    BY <1>2, <2>2 DEF CallType
  <2>4. call' = [call EXCEPT ![p] = c]
    BY <1>2, <2>1, <2>2
  <2> QED
    BY <1>1, <2>3, <2>4, FitsCopy
<1>5. CASE \E code : Return(p, code)
  BY <1>5, FitsReturn
<1> QED
  BY <1>3, <1>4, <1>5 DEF WriteMapped, WriteAppend

(* A write that has copied a chunk goes on behind it.                      *)
LEMMA FitsWriteCopy ==
  ASSUME TypeInv, \A q \in Procs : WriteFits(call[q]), NEW p \in Procs, WriteCopy(p)
  PROVE  \A q \in Procs : WriteFits(call'[q])
<1>1. PICK c : c = call[p]
  OBVIOUS
<1>2. PICK k : k = Chunk(c)
  OBVIOUS
<1>3. c.pc = "copy" /\ c \in CallType /\ k \in Nat /\ k <= c.rem /\ WriteFits(c)
  BY <1>1, <1>2, CallTypeNow DEF WriteCopy
<1>4. CASE c.rem = k
  <2>1. Return(p, "ok")
    BY <1>1, <1>2, <1>4 DEF WriteCopy
  <2> QED
    BY <2>1, FitsReturn
<1>5. CASE c.rem # k
  <2>1. PICK d : d = [c EXCEPT !.pc = "map", !.pos = @ + k, !.rem = @ - k, !.done = @ + k,
                               !.phys = 0]
    OBVIOUS
  <2>2. call' = [call EXCEPT ![p] = d]
    BY <1>1, <1>2, <1>5, <2>1 DEF WriteCopy, TypeInv, TypeOK
  <2>3. d.val = c.val /\ d.rem = c.rem - k /\ d.pos = c.pos + k
    BY <1>3, <2>1 DEF CallType
  <2>4. c.pos \in Nat /\ c.rem \in Nat
    BY <1>3 DEF CallType
  <2>5. d.rem > 0 /\ d.pos + d.rem = c.pos + c.rem
    BY <1>3, <1>5, <2>3, <2>4
  <2>6. WriteFits(d)
    BY <1>3, <2>3, <2>5 DEF WriteFits
  <2> QED
    BY <2>2, <2>6, FitsAfter
<1> QED
  BY <1>4, <1>5

LEMMA FitsRead ==
  ASSUME TypeInv, \A q \in Procs : WriteFits(call[q]), NEW p \in Procs,
         \/ \E ino \in OpenFiles, pos \in Positions, len \in Lens :
              \/ \E via \in OpenVia(ino) : ReadStart(p, ino, via, pos, len)
              \/ ReadShort(p, ino, pos, len)
         \/ ReadBlock(p)
  PROVE  \A q \in Procs : WriteFits(call'[q])
<1>1. ASSUME NEW ino, NEW via, NEW pos, NEW len, ReadStart(p, ino, via, pos, len)
      PROVE  \A q \in Procs : WriteFits(call'[q])
  <2>1. PICK c : c = [Idle EXCEPT !.pc = "read", !.ino = ino, !.via = via, !.pos = pos,
                                  !.rem = Min({len, inode_table[ino].i_size - pos})]
    OBVIOUS
  <2>2. call' = [call EXCEPT ![p] = c]
    BY <1>1, <2>1 DEF ReadStart
  <2>3. WriteFits(c)
    BY <2>1 DEF Idle, WriteFits
  <2> QED
    BY <2>2, <2>3, FitsAfter
<1>2. ASSUME NEW ino, NEW pos, NEW len, ReadShort(p, ino, pos, len)
      PROVE  \A q \in Procs : WriteFits(call'[q])
  <2>1. \E code : Return(p, code)
    BY <1>2 DEF ReadShort
  <2> QED
    BY <2>1, FitsReturn
<1>3. CASE ReadBlock(p)
  <2> DEFINE k == Chunk(call[p])
  <2>1. CASE \E code : Return(p, code)
    BY <2>1, FitsReturn
  <2>2. CASE call' = [call EXCEPT ![p].pos = @ + k, ![p].rem = @ - k]
    <3>1. PICK c : c = [call[p] EXCEPT !.pos = @ + k, !.rem = @ - k]
      OBVIOUS
    <3>2. c.pc = "read"
      BY <1>3, <3>1, CallTypeNow DEF ReadBlock, CallType
    <3>3. call' = [call EXCEPT ![p] = c]
      BY <2>2, <3>1 DEF TypeInv, TypeOK
    <3>4. WriteFits(c)
      BY <3>2 DEF WriteFits
    <3> QED
      BY <3>3, <3>4, FitsAfter
  <2> QED
    BY <1>3, <2>1, <2>2 DEF ReadBlock
<1> QED
  BY <1>1, <1>2, <1>3

LEMMA FitsWriteStart ==
  ASSUME TypeInv, FsInv, CallsInRange, \A q \in Procs : WriteFits(call[q]), NEW p \in Procs,
         NEW ino \in OpenFiles, NEW via \in OpenVia(ino), NEW pos \in Positions, NEW len \in Lens,
         NEW v \in Vals, WriteStart(p, ino, via, pos, len, v)
  PROVE  \A q \in Procs : WriteFits(call'[q])
<1>1. ino \in LiveFiles
  BY OpenIsLive
<1>2. CASE len = 0
  BY <1>1, <1>2, QuietWriteStart, FitsReturn
<1>3. CASE len # 0
  <2>1. PICK c : c = StartedWrite(ino, via, pos, len, v)
    OBVIOUS
  <2>2. call' = [call EXCEPT ![p] = c]
    BY <1>1, <1>3, <2>1, QuietWriteStart
  <2>3. c.val = v /\ c.rem = len /\ c.pos = pos
    BY <2>1 DEF StartedWrite, Idle
  <2>4. len \in Nat
    BY InputsAssumption
  <2>5. WriteFits(c)
    BY <1>3, <2>3, <2>4 DEF CallsInRange, WriteFits
  <2> QED
    BY <2>2, <2>5, FitsAfter
<1> QED
  BY <1>2, <1>3

LEMMA FitsStep ==
  ASSUME TypeInv, FsInv, CallsInRange, \A q \in Procs : WriteFits(call[q]), [Next]_vars
  PROVE  \A q \in Procs : WriteFits(call'[q])
<1>1. ASSUME NEW p \in Procs, Call(p) PROVE \A q \in Procs : WriteFits(call'[q])
  BY <1>1, FitsCreate, FitsRead, FitsWriteStart DEF Call
<1>2. ASSUME NEW p \in Procs, Continue(p) PROVE \A q \in Procs : WriteFits(call'[q])
  <2>1. CASE WriteHole(p) \/ WriteNoSpace(p) \/ WriteFault(p)
    BY <2>1, FitsReturn DEF WriteHole, WriteNoSpace, WriteFault
  <2> QED
    BY <1>2, <2>1, FitsCreate, FitsRead, FitsMapped, FitsWriteCopy DEF Continue
<1>3. ASSUME \/ \E i \in DOMAIN Dir : Lookup(i)
             \/ \E ino \in OpenFiles : Evict(ino)
             \/ \E n \in Truncating, via \in DentryKinds : Truncate(n, via)
             \/ UNCHANGED vars
      PROVE  \A q \in Procs : WriteFits(call'[q])
  BY <1>3 DEF Lookup, Evict, Truncate, vars
<1> QED
  BY <1>1, <1>2, <1>3 DEF Next

LEMMA ImageInvInit == Init => ImageInv
<1> SUFFICES ASSUME Init PROVE ImageInv
  OBVIOUS
<1>1. BytesFresh
  BY DEF Init, BytesFresh, FreeBlocks, RawBlock, Block
<1>2. \A p \in Procs : WriteFits(call[p])
  BY DEF Init, Idle, WriteFits
<1> QED
  BY <1>1, <1>2 DEF ImageInv

LEMMA ImageInvStep ==
  ASSUME CallsInRange
  PROVE  TypeInv /\ FsInv /\ ImageInv /\ [Next]_vars => ImageInv'
BY FreshStep, FitsStep DEF ImageInv

-----------------------------------------------------------------------------
(* The byte at an offset, before and after a step, by what is mapped there. *)
LEMMA ByteIs ==
  ASSUME NEW f, NEW o
  PROVE  /\ osfs_extent_lookup_block(Table(f), o \div BLOCK_SIZE) = {} => ByteAt(f, o) = 0
         /\ \A b : osfs_extent_lookup_block(Table(f), o \div BLOCK_SIZE) = {b} =>
              ByteAt(f, o) = data_blocks[b].bytes[o % BLOCK_SIZE]
<1>1. \A b : (CHOOSE x \in {b} : TRUE) = b
  OBVIOUS
<1> QED
  BY <1>1 DEF ByteAt

LEMMA ByteWillBe ==
  ASSUME NEW f, NEW o
  PROVE  /\ osfs_extent_lookup_block(Table(f)', o \div BLOCK_SIZE) = {} => ByteAt(f, o)' = 0
         /\ \A b : osfs_extent_lookup_block(Table(f)', o \div BLOCK_SIZE) = {b} =>
              ByteAt(f, o)' = data_blocks'[b].bytes[o % BLOCK_SIZE]
<1>1. \A b : (CHOOSE x \in {b} : TRUE) = b
  OBVIOUS
<1> QED
  BY <1>1 DEF ByteAt

(* An offset of a live file is mapped to one of its blocks or to none.     *)
LEMMA MappedOrNot ==
  ASSUME TypeInv, FsInv, NEW f \in LiveFiles, NEW idx \in Nat
  PROVE  \/ osfs_extent_lookup_block(Table(f), idx) = {}
         \/ \E b \in ExtentBlocks(Table(f)) : osfs_extent_lookup_block(Table(f), idx) = {b}
<1>1. Table(f) \in Seq(Extent)
  BY LiveFile
<1> QED
  BY <1>1, LookupMapped, LookupInRuns

LEMMA OffsetFacts ==
  ASSUME NEW o \in Nat
  PROVE  /\ o \div BLOCK_SIZE \in Nat /\ o % BLOCK_SIZE \in Offsets
         /\ o = BLOCK_SIZE * (o \div BLOCK_SIZE) + (o % BLOCK_SIZE)
<1>1. BLOCK_SIZE \in Nat \ {0}
  BY SizesAssumption
<1> QED
  BY <1>1, DivFacts DEF Offsets

(* A file keeps its bytes when its table and the bytes of its blocks stay. *)
LEMMA BytesStay ==
  ASSUME TypeInv, FsInv, NEW f \in LiveFiles, Table(f)' = Table(f),
         \A b \in ExtentBlocks(Table(f)) : data_blocks'[b].bytes = data_blocks[b].bytes
  PROVE  \A o \in Nat : ByteAt(f, o)' = ByteAt(f, o)
<1> SUFFICES ASSUME NEW o \in Nat PROVE ByteAt(f, o)' = ByteAt(f, o)
  OBVIOUS
<1>1. o \div BLOCK_SIZE \in Nat
  BY OffsetFacts
<1>2. CASE osfs_extent_lookup_block(Table(f), o \div BLOCK_SIZE) = {}
  BY <1>2, ByteIs, ByteWillBe
<1>3. ASSUME NEW b \in ExtentBlocks(Table(f)),
             osfs_extent_lookup_block(Table(f), o \div BLOCK_SIZE) = {b}
      PROVE  ByteAt(f, o)' = ByteAt(f, o)
  BY <1>3, ByteIs, ByteWillBe
<1> QED
  BY <1>1, <1>2, <1>3, MappedOrNot

(* A name keeps its image when its file keeps size and bytes.              *)
LEMMA ImageStays ==
  ASSUME TypeInv, NEW n \in Names, dcache'[n] = dcache[n],
         dcache[n] # 0 =>
           /\ inode_table'[dcache[n]].i_size = inode_table[dcache[n]].i_size
           /\ \A o \in Nat : ByteAt(dcache[n], o)' = ByteAt(dcache[n], o)
  PROVE  FileImage(n)' = FileImage(n)
<1>1. CASE dcache[n] = 0
  BY <1>1 DEF FileImage
<1>2. CASE dcache[n] # 0
  <2>1. PICK f : f = dcache[n]
    OBVIOUS
  <2>2. Capacity \in Nat
    BY SizesAssumption DEF Capacity
  <2>3. [o \in 0 .. (Capacity - 1) |-> ByteAt(f, o)'] = [o \in 0 .. (Capacity - 1) |-> ByteAt(f, o)]
    BY <1>2, <2>1, <2>2
  <2>4. FileImage(n) = [exists |-> TRUE, size |-> inode_table[f].i_size,
                        bytes |-> [o \in 0 .. (Capacity - 1) |-> ByteAt(f, o)]]
    BY <1>2, <2>1 DEF FileImage
  <2>5. FileImage(n)' = [exists |-> TRUE, size |-> inode_table'[f].i_size,
                         bytes |-> [o \in 0 .. (Capacity - 1) |-> ByteAt(f, o)']]
    BY <1>2, <2>1 DEF FileImage, Capacity
  <2> QED
    BY <1>2, <2>1, <2>3, <2>4, <2>5
<1> QED
  BY <1>1, <1>2

-----------------------------------------------------------------------------
(* A file of a name is live, and a live file has one name.                 *)
LEMMA NamesOfFiles ==
  ASSUME TypeInv, FsInv
  PROVE  /\ \A n \in Names : dcache[n] # 0 => dcache[n] \in LiveFiles
         /\ \A f \in LiveFiles : \E n \in Names : dcache[n] = f
         /\ \A m, n \in Names : dcache[m] = dcache[n] /\ dcache[m] # 0 => m = n
<1> DEFINE ino == [i \in DOMAIN Dir |-> Dir[i].inode_no]
<1>1. Dir \in Seq(DirEntry) /\ DOMAIN Dir = 1 .. Len(Dir) /\ Len(Dir) \in Nat
  BY RootType, LenProperties
<1>2. \A i \in DOMAIN Dir : Dir[i].filename \in Names
  <2>1. \A i \in DOMAIN Dir : Dir[i] \in DirEntry
    BY <1>1, ElementOfSeq
  <2> QED
    BY <2>1 DEF DirEntry
<1>3. \A n \in Names :
        {Dir[i].inode_no : i \in {j \in DOMAIN Dir : Dir[j].filename = n}} = {dcache[n]} \ {0}
  BY DEF FsInv, DentriesPinned
<1>4. \A n \in Names : dcache[n] # 0 =>
        \E i \in DOMAIN Dir : Dir[i].filename = n /\ Dir[i].inode_no = dcache[n]
  BY <1>3
<1>5. \A n \in Names : dcache[n] # 0 => dcache[n] \in LiveFiles
  BY <1>4 DEF LiveFiles
<1>6. ASSUME NEW f \in LiveFiles PROVE \E n \in Names : dcache[n] = f
  <2>1. PICK i \in DOMAIN Dir : f = Dir[i].inode_no
    BY DEF LiveFiles
  <2>2. f \in {dcache[Dir[i].filename]} \ {0}
    BY <1>2, <1>3, <2>1
  <2> QED
    BY <1>2, <2>2
<1>7. \A i, j \in DOMAIN Dir : Dir[i].inode_no = Dir[j].inode_no => i = j
  <2>1. ino \in Surjection(DOMAIN Dir, LiveFiles)
    BY DEF Surjection, LiveFiles
  <2>2. IsFiniteSet(DOMAIN Dir) /\ Cardinality(DOMAIN Dir) = Len(Dir)
    BY <1>1, FS_Interval
  <2>3. Cardinality(LiveFiles) = Len(Dir)
    BY DEF FsInv, InodesAccounted
  <2> HIDE DEF ino
  <2>4. ino \in Injection(DOMAIN Dir, LiveFiles)
    BY <2>1, <2>2, <2>3, FS_SurjSameCardinalityImpliesInj
  <2>5. \A i, j \in DOMAIN Dir : ino[i] = ino[j] => i = j
    BY <2>4 DEF Injection, IsInjective
  <2> QED
    BY <2>5 DEF ino
<1>8. ASSUME NEW m \in Names, NEW n \in Names, dcache[m] = dcache[n], dcache[m] # 0
      PROVE  m = n
  <2>1. PICK i \in DOMAIN Dir : Dir[i].filename = m /\ Dir[i].inode_no = dcache[m]
    BY <1>4, <1>8
  <2>2. PICK j \in DOMAIN Dir : Dir[j].filename = n /\ Dir[j].inode_no = dcache[n]
    BY <1>4, <1>8
  <2> QED
    BY <1>7, <1>8, <2>1, <2>2
<1> QED
  BY <1>5, <1>6, <1>8

(* The bytes of a file do not change when a block is appended to it: the   *)
(* block holds zeroes.                                                     *)
LEMMA BytesAppended ==
  ASSUME TypeInv, FsInv, BytesFresh, OnlyTables, NEW p \in Procs, WriteAppend(p)
  PROVE  \A f \in LiveFiles : \A o \in Nat : ByteAt(f, o)' = ByteAt(f, o)
<1>1. PICK c : c = call[p]
  OBVIOUS
<1>2. PICK f : f = c.ino
  OBVIOUS
<1>3. PICK b : b = Min(FreeBlocks)
  OBVIOUS
<1>4. PICK exts : exts = Table(f)
  OBVIOUS
<1>5. PICK new : new = osfs_extent_append(exts, b)
  OBVIOUS
<1>6. /\ f \in LiveFiles
      /\ b \in Blocks \ block_bitmap /\ b \in Nat \ {0}
      /\ exts \in Seq(Extent) /\ new \in Seq(Extent)
      /\ Table(f)' = new /\ Len(new) <= OSFS_MAX_EXTENTS
      /\ Dir' = Dir /\ root' = root
      /\ inode_table'[f] = [inode_table[f] EXCEPT !.i_blocks = @ + 1]
      /\ \A g \in LiveFiles : g # f => inode_table'[g] = inode_table[g] /\ Table(g)' = Table(g)
      /\ TablesInv'
  BY <1>1, <1>2, <1>3, <1>4, <1>5, AppendedBlock
<1>7. \A g \in LiveFiles : \A d \in ExtentBlocks(Table(g)) : data_blocks'[d] = data_blocks[d]
  <2>1. \A g \in LiveFiles : \A d \in ExtentBlocks(Table(g)) :
          d \in Blocks /\ \A h \in LiveFiles : inode_table[h].i_block # d
    BY LiveFile, OtherBlocks DEF TypeInv, TypeOK
  <2> QED
    BY <2>1 DEF OnlyTables
<1>8. data_blocks'[b] = data_blocks[b] /\ data_blocks[b].bytes = ZeroBytes
  <2>1. \A g \in LiveFiles : inode_table[g].i_block # b
    BY <1>6, LiveFile
  <2> QED
    BY <1>6, <2>1 DEF OnlyTables, BytesFresh, FreeBlocks
<1>9. ASSUME NEW g \in LiveFiles, g # f PROVE \A o \in Nat : ByteAt(g, o)' = ByteAt(g, o)
  BY <1>6, <1>7, <1>9, BytesStay
<1>10. ASSUME NEW o \in Nat PROVE ByteAt(f, o)' = ByteAt(f, o)
  <2> DEFINE idx == o \div BLOCK_SIZE
             total == osfs_extent_total_blocks(exts)
  <2>1. idx \in Nat /\ o % BLOCK_SIZE \in Offsets
    BY OffsetFacts
  <2>2. total \in Nat /\ osfs_extent_total_blocks(new) = total + 1
    BY <1>5, <1>6, TotalIsNat, AppendMaps
  <2>3. CASE idx < total
    <3>1. osfs_extent_lookup_block(new, idx) = osfs_extent_lookup_block(exts, idx)
      BY <1>5, <1>6, <2>1, <2>3, AppendMaps
    <3>2. osfs_extent_lookup_block(exts, idx) # {}
      BY <1>6, <2>1, <2>3, LookupMapped
    <3>3. PICK d \in ExtentBlocks(exts) : osfs_extent_lookup_block(exts, idx) = {d}
      BY <1>4, <1>6, <2>1, <3>2, MappedOrNot
    <3>4. ByteAt(f, o) = data_blocks[d].bytes[o % BLOCK_SIZE]
      BY <1>4, <3>3, ByteIs
    <3>5. ByteAt(f, o)' = data_blocks'[d].bytes[o % BLOCK_SIZE]
      BY <1>6, <3>1, <3>3, ByteWillBe
    <3> QED
      BY <1>4, <1>6, <1>7, <3>4, <3>5
  <2>4. CASE ~(idx < total)
    <3>1. osfs_extent_lookup_block(exts, idx) = {}
      BY <1>6, <2>1, <2>4, LookupMapped
    <3>2. ByteAt(f, o) = 0
      BY <1>4, <3>1, ByteIs
    <3>3. CASE idx = total
      <4>1. osfs_extent_lookup_block(new, idx) = {b}
        BY <1>5, <1>6, <3>3, AppendLast
      <4>2. ByteAt(f, o)' = data_blocks'[b].bytes[o % BLOCK_SIZE]
        BY <1>6, <4>1, ByteWillBe
      <4> QED
        BY <1>8, <2>1, <3>2, <4>2 DEF ZeroBytes
    <3>4. CASE idx # total
      <4>1. ~(idx < total + 1)
        BY <2>1, <2>2, <2>4, <3>4
      <4>2. osfs_extent_lookup_block(new, idx) = {}
        BY <1>6, <2>1, <2>2, <4>1, LookupMapped
      <4> QED
        BY <1>6, <3>2, <4>2, ByteWillBe
    <3> QED
      BY <3>3, <3>4
  <2> QED
    BY <2>3, <2>4
<1> QED
  BY <1>9, <1>10

(* A calm step leaves the image of every file as it is.                    *)
LEMMA CalmImages ==
  ASSUME TypeInv, FsInv, BytesFresh, Calm, SameSizes, [Next]_vars
  PROVE  \A n \in Names : FileImage(n)' = FileImage(n)
<1>1. \A f \in LiveFiles : \A o \in Nat : ByteAt(f, o)' = ByteAt(f, o)
  <2>1. CASE SameTables
    <3>1. \A f \in LiveFiles : \A d \in ExtentBlocks(Table(f)) : data_blocks'[d] = data_blocks[d]
      <4>1. \A g \in LiveFiles : \A d \in ExtentBlocks(Table(g)) :
              d \in Blocks /\ \A h \in LiveFiles : inode_table[h].i_block # d
        BY LiveFile, OtherBlocks DEF TypeInv, TypeOK
      <4> QED
        BY <4>1 DEF Calm, OnlyTables
    <3> QED
      BY <2>1, <3>1, BytesStay DEF SameTables
  <2>2. CASE \E p \in Procs : WriteAppend(p)
    BY <2>2, BytesAppended DEF Calm
  <2> QED
    BY <2>1, <2>2, TablesStep
<1> QED
  BY <1>1, NamesOfFiles, ImageStays DEF Calm, SameSizes

-----------------------------------------------------------------------------
(* A new file is empty; the other files keep their images.                 *)
LEMMA CreatedImage ==
  ASSUME TypeInv, FsInv, NEW p \in Procs, CreateDone(p), NEW name, name = call[p].name
  PROVE  /\ name \in Names
         /\ FileImage(name) = Files!Absent /\ FileImage(name)' = Files!Empty
         /\ \A n \in Names : n # name => FileImage(n)' = FileImage(n)
<1>1. PICK c : c = call[p]
  OBVIOUS
<1>2. PICK b : b = Min(FreeBlocks)
  OBVIOUS
<1>3. /\ c.ino \in Inodes \ (LiveFiles \cup {ROOT_INODE}) /\ c.ino \in inode_bitmap
      /\ c.name \in Names /\ dcache[c.name] = 0
      /\ b \in Blocks \ block_bitmap /\ b # 0 /\ 0 \in block_bitmap
      /\ Dir \in Seq(DirEntry) /\ Dir' = Append(Dir, [filename |-> c.name, inode_no |-> c.ino])
      /\ LiveFiles' = LiveFiles \cup {c.ino}
      /\ root'.i_block = 0 /\ root'.i_blocks # 0 /\ root.i_blocks # 0
      /\ inode_table'[c.ino] = OsfsInode("reg", 0, 1, b) /\ Table(c.ino)' = << >>
      /\ \A g \in LiveFiles : inode_table'[g] = inode_table[g] /\ Table(g)' = Table(g)
      /\ TablesInv'
  BY <1>1, <1>2, CreatedFile
<1>4. PICK f \in Inodes : f = c.ino
  BY <1>3
<1>5. f # 0
  BY SizesAssumption DEF Inodes
<1>6. dcache' = [dcache EXCEPT ![name] = f]
  BY <1>1, <1>4 DEF CreateDone
<1>7. dcache'[name] = f /\ \A n \in Names : n # name => dcache'[n] = dcache[n]
  BY <1>1, <1>3, <1>6 DEF TypeInv, TypeOK
<1>8. FileImage(name) = Files!Absent
  BY <1>1, <1>3 DEF FileImage, Files!Absent
<1>9. FileImage(name)' = Files!Empty
  <2>1. inode_table'[f].i_size = 0
    BY <1>3, <1>4 DEF OsfsInode
  <2>2. \A o : osfs_extent_lookup_block(<< >>, o \div BLOCK_SIZE) = {}
    BY DEF osfs_extent_lookup_block
  <2>3. \A o : ByteAt(f, o)' = 0
    BY <1>3, <1>4, <2>2, ByteWillBe
  <2>4. FileImage(name)' = [exists |-> TRUE, size |-> inode_table'[f].i_size,
                            bytes |-> [o \in 0 .. (Capacity - 1) |-> ByteAt(f, o)']]
    BY <1>5, <1>7 DEF FileImage, Capacity
  <2>5. [o \in 0 .. (Capacity - 1) |-> ByteAt(f, o)'] = [o \in 0 .. (Capacity - 1) |-> 0]
    BY <2>3
  <2> QED
    BY <2>1, <2>4, <2>5 DEF Files!Empty, Files!File
<1>10. \A g \in LiveFiles : \A o \in Nat : ByteAt(g, o)' = ByteAt(g, o)
  <2>1. root.i_block = 0 /\ data_blocks \in [Blocks -> BlockType]
    BY DEF FsInv, RootInv, TypeInv, TypeOK
  <2>2. \A d \in Blocks : d # 0 => data_blocks'[d] = data_blocks[d]
    BY <2>1 DEF CreateDone
  <2>3. \A g \in LiveFiles : \A d \in ExtentBlocks(Table(g)) : d \in Blocks /\ d # 0
    BY LiveFile DEF TypeInv, TypeOK
  <2> QED
    BY <1>3, <2>2, <2>3, BytesStay
<1>11. ASSUME NEW n \in Names, n # name PROVE FileImage(n)' = FileImage(n)
  <2>1. dcache'[n] = dcache[n]
    BY <1>7, <1>11
  <2>2. dcache[n] # 0 => dcache[n] \in LiveFiles
    BY NamesOfFiles
  <2> QED
    BY <1>3, <1>10, <2>1, <2>2, ImageStays
<1> QED
  BY <1>1, <1>3, <1>8, <1>9, <1>11

-----------------------------------------------------------------------------
(* The writes in progress, as OsfsFiles sees them.                         *)
LEMMA NameIs ==
  ASSUME TypeInv, FsInv, NEW n \in Names, dcache[n] # 0
  PROVE  NameOf(dcache[n]) = n
BY NamesOfFiles DEF NameOf

LEMMA NameOfLive ==
  ASSUME TypeInv, FsInv, NEW f \in LiveFiles
  PROVE  f # 0 /\ NameOf(f) \in Names /\ dcache[NameOf(f)] = f
<1>1. f # 0
  BY LiveFile DEF Inodes
<1>2. \E n \in Names : dcache[n] = f
  BY NamesOfFiles
<1> QED
  BY <1>1, <1>2 DEF NameOf

(* A step that names nothing and changes the call of p to c.               *)
LEMMA WriteChanges ==
  ASSUME TypeInv, dcache' = dcache, NEW p \in Procs, NEW c, call' = [call EXCEPT ![p] = c]
  PROVE  Writes' = [Writes EXCEPT ![p] = WriteOf(c)]
<1>1. \A q \in Procs : call'[q] = IF q = p THEN c ELSE call[q]
  BY DEF TypeInv, TypeOK
<1>2. \A q \in Procs : WriteOf(call[q])' = WriteOf(call'[q])
  BY DEF WriteOf, NameOf
<1>3. \A q \in Procs : Writes'[q] = IF q = p THEN WriteOf(c) ELSE Writes[q]
  BY <1>1, <1>2 DEF Writes
<1> QED
  BY <1>3 DEF Writes

LEMMA WritesStay ==
  ASSUME dcache' = dcache, call' = call
  PROVE  Writes' = Writes
BY DEF Writes, WriteOf, NameOf

LEMMA NoWrite ==
  ASSUME NEW c, c.pc \notin {"map", "copy"}
  PROVE  WriteOf(c) = Files!NoRequest
BY DEF WriteOf, Files!NoRequest

(* A call that was not writing returns, and one that was ends its write.   *)
LEMMA WriteReturns ==
  ASSUME TypeInv, dcache' = dcache, NEW p \in Procs, NEW code, Return(p, code)
  PROVE  /\ Writes' = [Writes EXCEPT ![p] = Files!NoRequest]
         /\ call[p].pc \notin {"map", "copy"} => Writes' = Writes
<1>1. PICK c : c = Idle
  OBVIOUS
<1>2. call' = [call EXCEPT ![p] = c] /\ WriteOf(c) = Files!NoRequest
  BY <1>1, NoWrite DEF Return, Idle
<1>3. Writes' = [Writes EXCEPT ![p] = Files!NoRequest]
  BY <1>2, WriteChanges
<1>4. ASSUME call[p].pc \notin {"map", "copy"} PROVE Writes' = Writes
  <2>1. Writes[p] = Files!NoRequest
    BY <1>4, NoWrite DEF Writes
  <2> QED
    BY <1>3, <2>1 DEF Writes
<1> QED
  BY <1>3, <1>4

(* A call that writes belongs to a file that exists.                       *)
LEMMA WriterHasFile ==
  ASSUME TypeInv, FsInv, NEW p \in Procs, call[p].pc \in {"map", "copy"}, WriteFits(call[p])
  PROVE  /\ Writes[p] = Files!Request(NameOf(call[p].ino), call[p].pos, call[p].rem, call[p].val)
         /\ Files!InProgress(p) /\ NameOf(call[p].ino) \in Names
<1>1. call[p].ino \in LiveFiles /\ call[p].rem > 0
  BY FileCallNow DEF WriteFits
<1>2. Writes[p] = Files!Request(NameOf(call[p].ino), call[p].pos, call[p].rem, call[p].val)
  BY DEF Writes, WriteOf, Files!Request
<1>3. /\ NameOf(call[p].ino) \in Names
      /\ dcache[NameOf(call[p].ino)] = call[p].ino /\ call[p].ino # 0
  BY <1>1, NameOfLive
<1>4. FileImages[NameOf(call[p].ino)].exists
  BY <1>3 DEF FileImages, FileImage
<1>5. Writes[p].left # 0 /\ Files!NoRequest.left = 0 /\ Writes[p].name = NameOf(call[p].ino)
  BY <1>1, <1>2 DEF Files!Request, Files!NoRequest
<1> QED
  BY <1>2, <1>3, <1>4, <1>5 DEF Files!InProgress

(* What OsfsFiles says of a step that leaves the images alone.             *)
Begins(p, n, at, len, v) ==
  /\ Writes[p] = Files!NoRequest /\ FileImages[n].exists /\ len > 0
  /\ Writes' = [Writes EXCEPT ![p] = Files!Request(n, at, len, v)]
WritesOnly ==
  \/ Writes' = Writes
  \/ \E p \in Procs, n \in Names, at \in Positions, len \in Lens, v \in Vals :
       Begins(p, n, at, len, v)
  \/ \E p \in Procs :
       Files!InProgress(p) /\ Writes' = [Writes EXCEPT ![p] = Files!NoRequest]

(* The same call keeps its write, or was no write and is none.             *)
LEMMA WriteKept ==
  ASSUME TypeInv, dcache' = dcache, NEW p \in Procs, NEW c, call' = [call EXCEPT ![p] = c],
         WriteOf(c) = WriteOf(call[p])
  PROVE  Writes' = Writes
<1>1. Writes' = [Writes EXCEPT ![p] = Writes[p]]
  BY WriteChanges DEF Writes
<1> QED
  BY <1>1 DEF Writes

LEMMA StartIsBegin ==
  ASSUME TypeInv, FsInv, 0 \notin Lens, NEW p \in Procs, NEW ino \in OpenFiles,
         NEW via \in OpenVia(ino), NEW pos \in Positions, NEW len \in Lens, NEW v \in Vals,
         WriteStart(p, ino, via, pos, len, v)
  PROVE  WritesOnly
<1>1. ino \in LiveFiles /\ len \in Nat \ {0}
  BY OpenIsLive, InputsAssumption
<1>2. PICK c : c = StartedWrite(ino, via, pos, len, v)
  OBVIOUS
<1>3. call' = [call EXCEPT ![p] = c] /\ dcache' = dcache /\ call[p].pc = "idle"
  <2>1. dcache' = dcache /\ call[p].pc = "idle"
    BY DEF WriteStart
  <2>2. call' = [call EXCEPT ![p] = c]
    BY <1>1, <1>2, QuietWriteStart
  <2> QED
    BY <2>1, <2>2
<1>4. WriteOf(c) = Files!Request(NameOf(ino), pos, len, v)
  BY <1>2 DEF StartedWrite, Idle, WriteOf, Files!Request
<1>5. Writes' = [Writes EXCEPT ![p] = Files!Request(NameOf(ino), pos, len, v)]
  BY <1>3, <1>4, WriteChanges
<1>6. Writes[p] = Files!NoRequest
  BY <1>3, NoWrite DEF Writes
<1>7. NameOf(ino) \in Names /\ dcache[NameOf(ino)] = ino /\ ino # 0
  BY <1>1, NameOfLive
<1>8. FileImages[NameOf(ino)].exists
  BY <1>7 DEF FileImages, FileImage
<1>9. Begins(p, NameOf(ino), pos, len, v)
  BY <1>1, <1>5, <1>6, <1>8 DEF Begins
<1> QED
  BY <1>7, <1>9 DEF WritesOnly

LEMMA QuietCalls ==
  ASSUME TypeInv, FsInv, NEW p \in Procs,
         \/ \E n \in Names : CreateNameTooLong(p, n) \/ CreateNoSpace(p, n) \/ CreateStart(p, n)
         \/ CreateNoMemory(p) \/ CreateNoBlock(p) \/ CreateRollback(p)
         \/ \E ino, via, pos, len : ReadStart(p, ino, via, pos, len)
         \/ \E ino, pos, len : ReadShort(p, ino, pos, len)
         \/ ReadBlock(p)
  PROVE  Writes' = Writes
<1>1. ASSUME NEW n \in Names, CreateStart(p, n) PROVE Writes' = Writes
  <2>1. PICK c : c = [Idle EXCEPT !.pc = "new_inode", !.name = n, !.ino = Min(FreeInodes)]
    OBVIOUS
  <2>2. call' = [call EXCEPT ![p] = c] /\ dcache' = dcache /\ call[p].pc = "idle"
    BY <1>1, <2>1 DEF CreateStart, CanCreate
  <2>3. WriteOf(c) = WriteOf(call[p])
    BY <2>1, <2>2, NoWrite DEF Idle
  <2> QED
    BY <2>2, <2>3, WriteKept
<1>2. ASSUME NEW ino, NEW via, NEW pos, NEW len, ReadStart(p, ino, via, pos, len)
      PROVE  Writes' = Writes
  <2>1. PICK c : c = [Idle EXCEPT !.pc = "read", !.ino = ino, !.via = via, !.pos = pos,
                                  !.rem = Min({len, inode_table[ino].i_size - pos})]
    OBVIOUS
  <2>2. call' = [call EXCEPT ![p] = c] /\ dcache' = dcache /\ call[p].pc = "idle"
    BY <1>2, <2>1 DEF ReadStart, fsVars
  <2>3. WriteOf(c) = WriteOf(call[p])
    BY <2>1, <2>2, NoWrite DEF Idle
  <2> QED
    BY <2>2, <2>3, WriteKept
<1>3. CASE \/ \E n \in Names : CreateNameTooLong(p, n) \/ CreateNoSpace(p, n)
           \/ CreateNoMemory(p) \/ CreateNoBlock(p) \/ CreateRollback(p)
           \/ \E ino, pos, len : ReadShort(p, ino, pos, len)
  <2>1. /\ dcache' = dcache /\ call[p].pc \notin {"map", "copy"}
        /\ \E code : Return(p, code)
    BY <1>3 DEF CreateNameTooLong, CreateNoSpace, CreateNoMemory, CreateNoBlock, CreateRollback,
                ReadShort, CanCreate, fsVars
  <2> QED
    BY <2>1, WriteReturns
<1>4. CASE ReadBlock(p)
  <2> DEFINE k == Chunk(call[p])
  <2>1. dcache' = dcache /\ call[p].pc = "read"
    BY <1>4 DEF ReadBlock, fsVars
  <2>2. CASE \E code : Return(p, code)
    BY <2>1, <2>2, WriteReturns
  <2>3. CASE call' = [call EXCEPT ![p].pos = @ + k, ![p].rem = @ - k]
    <3>1. PICK c : c = [call[p] EXCEPT !.pos = @ + k, !.rem = @ - k]
      OBVIOUS
    <3>2. c.pc = "read" /\ call' = [call EXCEPT ![p] = c]
      BY <2>1, <2>3, <3>1, CallTypeNow DEF CallType, TypeInv, TypeOK
    <3>3. WriteOf(c) = WriteOf(call[p])
      BY <2>1, <3>2, NoWrite
    <3> QED
      BY <2>1, <3>2, <3>3, WriteKept
  <2> QED
    BY <1>4, <2>2, <2>3 DEF ReadBlock
<1> QED
  BY <1>1, <1>2, <1>3, <1>4

(* A write between two copies finds its next block, or ends.               *)
LEMMA MapOrRefuse ==
  ASSUME TypeInv, FsInv, NEW p \in Procs, WriteFits(call[p]),
         WriteMapped(p) \/ WriteHole(p) \/ WriteNoSpace(p) \/ WriteAppend(p)
  PROVE  WritesOnly
<1>1. call[p].pc = "map" /\ dcache' = dcache
  BY DEF WriteMapped, WriteHole, WriteNoSpace, WriteAppend, Unmapped, fsVars
<1>2. call[p] \in CallType /\ call \in [Procs -> CallType]
  BY <1>1, CallTypeNow DEF TypeInv, TypeOK
<1>3. ASSUME NEW c, call' = [call EXCEPT ![p] = c], c.pc = "copy", c.ino = call[p].ino,
             c.pos = call[p].pos, c.rem = call[p].rem, c.val = call[p].val
      PROVE  WritesOnly
  <2>1. WriteOf(c) = WriteOf(call[p])
    BY <1>1, <1>3 DEF WriteOf
  <2> QED
    BY <1>1, <1>3, <2>1, WriteKept DEF WritesOnly
<1>4. CASE \E phys : call' = [call EXCEPT ![p].pc = "copy", ![p].phys = phys]
  <2>1. PICK phys : call' = [call EXCEPT ![p].pc = "copy", ![p].phys = phys]
    BY <1>4
  <2>2. PICK c : c = [call[p] EXCEPT !.pc = "copy", !.phys = phys]
    OBVIOUS
  <2>3. /\ c.pc = "copy" /\ c.ino = call[p].ino /\ c.pos = call[p].pos
        /\ c.rem = call[p].rem /\ c.val = call[p].val
    BY <1>2, <2>2 DEF CallType
  <2>4. call' = [call EXCEPT ![p] = c]
    BY <1>2, <2>1, <2>2
  <2> QED
    BY <1>3, <2>3, <2>4
<1>5. CASE \E phys : call' = [call EXCEPT ![p].pc = "copy", ![p].phys = phys, ![p].total = @ + 1]
  <2>1. PICK phys : call' = [call EXCEPT ![p].pc = "copy", ![p].phys = phys, ![p].total = @ + 1]
    BY <1>5
  <2>2. PICK c : c = [call[p] EXCEPT !.pc = "copy", !.phys = phys, !.total = @ + 1]
    OBVIOUS
  <2>3. /\ c.pc = "copy" /\ c.ino = call[p].ino /\ c.pos = call[p].pos
        /\ c.rem = call[p].rem /\ c.val = call[p].val
    BY <1>2, <2>2 DEF CallType
  <2>4. call' = [call EXCEPT ![p] = c]
    BY <1>2, <2>1, <2>2
  <2> QED
    BY <1>3, <2>3, <2>4
<1>6. CASE \E code : Return(p, code)
  BY <1>1, <1>6, WriteReturns, WriterHasFile DEF WritesOnly
<1> QED
  BY <1>4, <1>5, <1>6 DEF WriteMapped, WriteHole, WriteNoSpace, WriteAppend

LEMMA CalmWrites ==
  ASSUME TypeInv, FsInv, ImageInv, 0 \notin Lens, [Next]_vars
  PROVE  WritesOnly \/ \E p \in Procs : CreateDone(p) \/ WriteCopy(p) \/ WriteFault(p)
<1>1. ASSUME NEW p \in Procs, Call(p) PROVE WritesOnly
  <2>1. ASSUME NEW ino \in OpenFiles, NEW pos \in Positions, NEW len \in Lens,
               \/ \E via \in OpenVia(ino) :
                    \/ \E v \in Vals : WriteStart(p, ino, via, pos, len, v)
                    \/ ReadStart(p, ino, via, pos, len)
               \/ ReadShort(p, ino, pos, len)
        PROVE  WritesOnly
    BY <2>1, StartIsBegin, QuietCalls DEF WritesOnly
  <2>2. ASSUME NEW n \in Names,
               CreateNameTooLong(p, n) \/ CreateNoSpace(p, n) \/ CreateStart(p, n)
        PROVE  WritesOnly
    BY <2>2, QuietCalls DEF WritesOnly
  <2> QED
    BY <1>1, <2>1, <2>2 DEF Call
<1>2. ASSUME NEW p \in Procs, Continue(p)
      PROVE  WritesOnly \/ CreateDone(p) \/ WriteCopy(p) \/ WriteFault(p)
  <2>1. CASE CreateNoMemory(p) \/ CreateNoBlock(p) \/ CreateRollback(p) \/ ReadBlock(p)
    BY <2>1, QuietCalls DEF WritesOnly
  <2>2. CASE WriteMapped(p) \/ WriteHole(p) \/ WriteNoSpace(p) \/ WriteAppend(p)
    BY <2>2, MapOrRefuse DEF ImageInv
  <2> QED
    BY <1>2, <2>1, <2>2 DEF Continue
<1>3. ASSUME \/ \E i \in DOMAIN Dir : Lookup(i)
             \/ \E ino \in OpenFiles : Evict(ino)
             \/ \E n \in Truncating, via \in DentryKinds : Truncate(n, via)
             \/ UNCHANGED vars
      PROVE  WritesOnly
  BY <1>3, WritesStay DEF Lookup, Evict, Truncate, vars, WritesOnly
<1> QED
  BY <1>1, <1>2, <1>3 DEF Next

(* The end of a create: a new name, and every write keeps its file.        *)
LEMMA CreatedWrites ==
  ASSUME TypeInv, FsInv, NEW p \in Procs, CreateDone(p)
  PROVE  Writes' = Writes
<1>1. PICK c : c = call[p]
  OBVIOUS
<1>2. /\ c.ino \in Inodes \ (LiveFiles \cup {ROOT_INODE})
      /\ c.name \in Names /\ dcache[c.name] = 0
  BY <1>1, CreatedFile
<1>3. \A n \in Names : dcache'[n] = IF n = c.name THEN c.ino ELSE dcache[n]
  BY <1>1, <1>2 DEF CreateDone, TypeInv, TypeOK
<1>4. ASSUME NEW f \in LiveFiles PROVE NameOf(f)' = NameOf(f)
  <2>1. \A n \in Names : dcache'[n] = f <=> dcache[n] = f
    BY <1>2, <1>3, NameOfLive
  <2> QED
    BY <2>1 DEF NameOf
<1>5. call' = [call EXCEPT ![p] = Idle] /\ c.pc = "new_inode"
  BY <1>1 DEF CreateDone, Return
<1>6. ASSUME NEW q \in Procs PROVE WriteOf(call[q])' = WriteOf(call[q])
  <2>1. CASE q = p
    <3>1. call'[q] = Idle /\ Idle.pc = "idle" /\ call[q].pc = "new_inode"
      BY <1>1, <1>5, <2>1 DEF TypeInv, TypeOK, Idle
    <3> QED
      BY <3>1 DEF WriteOf
  <2>2. CASE q # p
    <3>1. call'[q] = call[q]
      BY <1>5, <2>2 DEF TypeInv, TypeOK
    <3>2. CASE call[q].pc \in {"map", "copy"}
      <4>1. call[q].ino \in LiveFiles
        BY <3>2, FileCallNow
      <4>2. PICK f \in LiveFiles : f = call[q].ino
        BY <4>1
      <4>3. NameOf(f)' = NameOf(f)
        BY <1>4
      <4>4. NameOf(call[q].ino)' = NameOf(call[q].ino)
        BY <3>1, <4>2, <4>3 DEF NameOf
      <4> QED
        BY <3>1, <4>4 DEF WriteOf
    <3>3. CASE call[q].pc \notin {"map", "copy"}
      BY <3>1, <3>3 DEF WriteOf
    <3> QED
      BY <3>2, <3>3
  <2> QED
    BY <2>1, <2>2
<1> QED
  BY <1>6 DEF Writes

-----------------------------------------------------------------------------
(* Offsets of a block and of the chunk that begins at off in block l.      *)
LEMMA ChunkOffsets ==
  ASSUME NEW m \in Nat \ {0}, NEW i \in Nat, NEW l \in Nat, NEW r \in 0 .. (m - 1),
         NEW off \in 0 .. (m - 1), NEW n \in Nat, n <= m - off
  PROVE  /\ i < l => m * i + r < m * l + off
         /\ i > l => m * i + r >= (m * l + off) + n
         /\ i = l => /\ m * i + r < m * l + off <=> r < off
                     /\ \A k \in Nat : m * i + r >= (m * l + off) + k <=> r >= off + k
<1>1. ASSUME i < l PROVE m * i + r < m * l + off
  <2>1. m * (i + 1) <= m * l
    BY <1>1
  <2>2. m * (i + 1) = m * i + m
    OBVIOUS
  <2> QED
    BY <2>1, <2>2
<1>2. ASSUME i > l PROVE m * i + r >= (m * l + off) + n
  <2>1. m * (l + 1) <= m * i
    BY <1>2
  <2>2. m * (l + 1) = m * l + m
    OBVIOUS
  <2> QED
    BY <2>1, <2>2
<1>3. ASSUME i = l
      PROVE  /\ m * i + r < m * l + off <=> r < off
             /\ \A k \in Nat : m * i + r >= (m * l + off) + k <=> r >= off + k
  <2>1. PICK a \in Nat : a = m * l
    OBVIOUS
  <2>2. /\ a + r < a + off <=> r < off
        /\ \A k \in Nat : a + r >= (a + off) + k <=> r >= off + k
    OBVIOUS
  <2> QED
    BY <1>3, <2>1, <2>2
<1> QED
  BY <1>1, <1>2, <1>3

LEMMA DivBelow ==
  ASSUME NEW l \in Nat, NEW u \in Nat \ {0}, l < u
  PROVE  l % u = l
<1>1. l \in 0 .. (u - 1)
  OBVIOUS
<1>2. (0 * u + l) % u = l
  BY <1>1, DivUnique
<1> QED
  BY <1>2

(* Where the chunk of a write in progress lies.                            *)
LEMMA ChunkPlace ==
  ASSUME TypeInv, FsInv, NEW p \in Procs, NEW c, c = call[p], c.pc = "copy", WriteFits(c)
  PROVE  /\ c.pos \in Nat /\ Chunk(c) \in 1 .. BLOCK_SIZE
         /\ Chunk(c) <= BLOCK_SIZE - (c.pos % BLOCK_SIZE)
         /\ LogicalBlock(c) = c.pos \div BLOCK_SIZE
         /\ c.pos + Chunk(c) <= Capacity /\ c.pos \in 0 .. (Capacity - 1)
         /\ c.val \in Vals
<1>1. /\ c \in CallType /\ c.ino \in LiveFiles /\ LogicalBlock(c) \in Nat
      /\ osfs_extent_lookup_block(Table(c.ino), LogicalBlock(c)) = {c.phys}
  BY FileCallNow
<1>2. BLOCK_SIZE \in Nat \ {0} /\ U32 \in Nat \ {0} /\ DATA_BLOCK_COUNT \in Nat
  BY SizesAssumption DEF ROOT_INODE
<1>3. c.pos \in Nat /\ c.rem \in Nat
  BY <1>1 DEF CallType
<1>4. c.val \in Vals /\ c.rem > 0 /\ c.pos + c.rem <= BLOCK_SIZE * U32
  BY DEF WriteFits
<1>5. PICK l \in Nat : l = c.pos \div BLOCK_SIZE
  BY <1>2, <1>3, DivFacts
<1>6. PICK r \in 0 .. (BLOCK_SIZE - 1) : r = c.pos % BLOCK_SIZE
  BY <1>2, <1>3, DivFacts
<1>7. c.pos = BLOCK_SIZE * l + r
  BY <1>2, <1>3, <1>5, <1>6, DivFacts
<1>8. Chunk(c) \in Nat \ {0} /\ Chunk(c) <= BLOCK_SIZE - r
  <2>1. {c.rem, BLOCK_SIZE - r} \in SUBSET (Nat \ {0})
    BY <1>2, <1>3, <1>4
  <2>2. Chunk(c) \in {c.rem, BLOCK_SIZE - r} /\ Chunk(c) <= BLOCK_SIZE - r
    <3>1. {c.rem, BLOCK_SIZE - r} \in SUBSET Nat
      BY <2>1
    <3> QED
      BY <1>6, <3>1, MinProperties DEF Chunk
  <2> QED
    BY <2>1, <2>2
<1>9. l < U32
  <2>1. c.pos < BLOCK_SIZE * U32 /\ BLOCK_SIZE * U32 \in Nat
    BY <1>2, <1>3, <1>4
  <2> QED
    BY <1>2, <1>3, <1>5, <2>1, BlockBelow
<1>10. LogicalBlock(c) = l
  BY <1>2, <1>5, <1>9, DivBelow DEF LogicalBlock
<1>11. l < DATA_BLOCK_COUNT
  <2>1. PICK exts : exts = Table(c.ino)
    OBVIOUS
  <2>2. exts \in Seq(Extent) /\ ExtentBlocks(exts) \subseteq Blocks
    BY <1>1, <2>1, LiveFile DEF TypeInv, TypeOK
  <2>3. RunsApart(exts)
    BY <1>1, <2>1 DEF FsInv, ExtentsDisjoint, RunsApart
  <2>4. osfs_extent_total_blocks(exts) <= DATA_BLOCK_COUNT
    BY <2>2, <2>3, TotalBelow, BitmapsFinite
  <2>5. l < osfs_extent_total_blocks(exts) /\ osfs_extent_total_blocks(exts) \in Nat
    BY <1>1, <1>10, <2>1, <2>2, LookupMapped, TotalIsNat
  <2> QED
    BY <1>2, <2>4, <2>5
<1>12. BLOCK_SIZE * l + BLOCK_SIZE <= Capacity
  <2>1. BLOCK_SIZE * (l + 1) <= BLOCK_SIZE * DATA_BLOCK_COUNT
    BY <1>2, <1>11
  <2>2. BLOCK_SIZE * (l + 1) = BLOCK_SIZE * l + BLOCK_SIZE
    BY <1>2
  <2> QED
    BY <2>1, <2>2 DEF Capacity
<1>13. PICK a \in Nat : a = BLOCK_SIZE * l
  BY <1>2
<1>14. Capacity \in Nat /\ BLOCK_SIZE \in Nat
  BY <1>2 DEF Capacity
<1>15. c.pos + Chunk(c) <= Capacity /\ c.pos < Capacity
  BY <1>2, <1>6, <1>7, <1>8, <1>12, <1>13, <1>14
<1> QED
  BY <1>2, <1>3, <1>4, <1>5, <1>6, <1>8, <1>10, <1>14, <1>15

(* The first k bytes of the chunk of c are stored in file f and no other.  *)
BytesStored(c, k, f) ==
  /\ f \in LiveFiles
  /\ \A g \in LiveFiles : g # f => \A o \in Nat : ByteAt(g, o)' = ByteAt(g, o)
  /\ k \in Nat => \A o \in Nat :
       ByteAt(f, o)' = IF o < c.pos \/ o >= c.pos + Chunk(c) THEN ByteAt(f, o)
                       ELSE IF o < c.pos + k THEN c.val ELSE 0

(* What a stored chunk does to the bytes of files.                         *)
LEMMA StoredBytes ==
  ASSUME TypeInv, FsInv, NEW p \in Procs, NEW c, c = call[p], c.pc = "copy", WriteFits(c),
         NEW k, Store(c, k), SameTables, NEW f, f = c.ino, NEW b, b = c.phys
  PROVE  BytesStored(c, k, f)
<1>2. IsStored(c, k, f, b)
  BY ChunkStored
<1>3. /\ c \in CallType /\ f \in LiveFiles
      /\ b \in ExtentBlocks(Table(f)) /\ b \in block_bitmap \ {0}
      /\ osfs_extent_lookup_block(Table(f), LogicalBlock(c)) = {b}
      /\ \A d \in Blocks : d # b => data_blocks'[d] = data_blocks[d]
      /\ \A o \in Offsets :
           data_blocks'[b].bytes[o] = ChunkByte(c, k, data_blocks[b].bytes, o)
  BY <1>2 DEF IsStored
<1>4. \A g \in LiveFiles : ExtentBlocks(Table(g)) \subseteq Blocks /\ Table(g)' = Table(g)
  BY LiveFile DEF TypeInv, TypeOK, SameTables
<1>5. ASSUME NEW g \in LiveFiles, g # f
      PROVE  \A o \in Nat : ByteAt(g, o)' = ByteAt(g, o)
  <2>1. Owned(f) \cap Owned(g) = {}
    BY <1>3, <1>5 DEF FsInv, FilesDisjoint
  <2>2. b \notin ExtentBlocks(Table(g))
    BY <1>3, <2>1 DEF Owned
  <2> QED
    BY <1>3, <1>4, <2>2, BytesStay
<1>6. BLOCK_SIZE \in Nat \ {0}
  BY SizesAssumption
<1>7. /\ c.pos \in Nat /\ Chunk(c) \in 1 .. BLOCK_SIZE
      /\ Chunk(c) <= BLOCK_SIZE - (c.pos % BLOCK_SIZE)
      /\ LogicalBlock(c) = c.pos \div BLOCK_SIZE
  BY ChunkPlace
<1>8. PICK l \in Nat : l = c.pos \div BLOCK_SIZE
  BY <1>6, <1>7, DivFacts
<1>9. PICK off \in 0 .. (BLOCK_SIZE - 1) : off = c.pos % BLOCK_SIZE
  BY <1>6, <1>7, DivFacts
<1>10. PICK n \in Nat : n = Chunk(c)
  BY <1>7
<1>11. c.pos = BLOCK_SIZE * l + off /\ n <= BLOCK_SIZE - off
  BY <1>6, <1>7, <1>8, <1>9, <1>10, DivFacts
<1>12. ASSUME k \in Nat, NEW o \in Nat
       PROVE  ByteAt(f, o)' = IF o < c.pos \/ o >= c.pos + n THEN ByteAt(f, o)
                              ELSE IF o < c.pos + k THEN c.val ELSE 0
  <2>1. PICK i \in Nat : i = o \div BLOCK_SIZE
    BY <1>6, DivFacts
  <2>2. PICK r \in 0 .. (BLOCK_SIZE - 1) : r = o % BLOCK_SIZE
    BY <1>6, DivFacts
  <2>3. o = BLOCK_SIZE * i + r
    BY <1>6, <2>1, <2>2, DivFacts
  <2>4. /\ i < l => o < c.pos
        /\ i > l => o >= c.pos + n
        /\ i = l => /\ o < c.pos <=> r < off
                    /\ \A j \in Nat : o >= c.pos + j <=> r >= off + j
    BY <1>6, <1>11, <2>3, ChunkOffsets
  <2>5. CASE i = l
    <3>1. osfs_extent_lookup_block(Table(f), o \div BLOCK_SIZE) = {b}
      BY <1>3, <1>7, <1>8, <2>1, <2>5
    <3>2. ByteAt(f, o) = data_blocks[b].bytes[r] /\ ByteAt(f, o)' = data_blocks'[b].bytes[r]
      BY <1>3, <1>4, <2>2, <3>1, ByteIs, ByteWillBe
    <3>3. r \in Offsets
      BY DEF Offsets
    <3>4. data_blocks'[b].bytes[r] = IF r < off \/ r >= off + n THEN data_blocks[b].bytes[r]
                                     ELSE IF r < off + k THEN c.val ELSE 0
      BY <1>3, <1>9, <1>10, <3>3 DEF ChunkByte
    <3>5. /\ o < c.pos <=> r < off
          /\ o >= c.pos + n <=> r >= off + n
          /\ o < c.pos + k <=> r < off + k
      <4>1. k \in Nat /\ r \in Nat /\ off \in Nat
        BY <1>6, <1>12
      <4>2. o >= c.pos + k <=> r >= off + k
        BY <2>4, <2>5, <4>1
      <4>3. o < c.pos + k <=> r < off + k
        BY <1>7, <4>1, <4>2
      <4> QED
        BY <2>4, <2>5, <4>3
    <3> QED
      BY <3>2, <3>4, <3>5
  <2>6. CASE i # l
    <3>1. o < c.pos \/ o >= c.pos + n
      BY <2>4, <2>6
    <3>2. ASSUME NEW d \in ExtentBlocks(Table(f)), osfs_extent_lookup_block(Table(f), i) = {d}
          PROVE  d # b
      <4>1. RunsApart(Table(f)) /\ Table(f) \in Seq(Extent)
        BY <1>3, LiveFile DEF FsInv, ExtentsDisjoint, RunsApart
      <4>2. b \in osfs_extent_lookup_block(Table(f), l)
        BY <1>3, <1>7, <1>8
      <4> QED
        BY <2>6, <3>2, <4>1, <4>2, LookupInjective
    <3>3. ByteAt(f, o)' = ByteAt(f, o)
      <4>1. CASE osfs_extent_lookup_block(Table(f), i) = {}
        BY <1>3, <1>4, <2>1, <4>1, ByteIs, ByteWillBe
      <4>2. ASSUME NEW d \in ExtentBlocks(Table(f)), osfs_extent_lookup_block(Table(f), i) = {d}
            PROVE  ByteAt(f, o)' = ByteAt(f, o)
        <5>1. data_blocks'[d] = data_blocks[d]
          BY <1>3, <1>4, <3>2, <4>2
        <5> QED
          BY <1>3, <1>4, <2>1, <4>2, <5>1, ByteIs, ByteWillBe
      <4> QED
        BY <1>3, <4>1, <4>2, MappedOrNot
    <3> QED
      BY <3>1, <3>3
  <2> QED
    BY <2>5, <2>6
<1>13. k \in Nat => \A o \in Nat :
         ByteAt(f, o)' = IF o < c.pos \/ o >= c.pos + Chunk(c) THEN ByteAt(f, o)
                         ELSE IF o < c.pos + k THEN c.val ELSE 0
  BY <1>10, <1>12
<1> QED
  BY <1>3, <1>5, <1>13 DEF BytesStored

(* A chunk that WriteCopy or WriteFault stores, and the size afterwards.   *)
LEMMA ChunkWritten ==
  ASSUME TypeInv, FsInv, Capacity < U32, NEW p \in Procs, WriteCopy(p) \/ WriteFault(p),
         NEW c, c = call[p], WriteFits(c), NEW f, f = c.ino
  PROVE  /\ c.pc = "copy" /\ dcache' = dcache /\ SameTables
         /\ \A g \in LiveFiles : g # f => inode_table'[g].i_size = inode_table[g].i_size
         /\ WriteCopy(p) =>
              /\ Store(c, Chunk(c))
              /\ inode_table'[f].i_size =
                   IF c.rem = Chunk(c) /\ c.pos + Chunk(c) > inode_table[f].i_size
                   THEN c.pos + Chunk(c) ELSE inode_table[f].i_size
         /\ WriteFault(p) =>
              /\ \E k \in 0 .. (Chunk(c) - 1) : Store(c, k)
              /\ inode_table'[f].i_size = inode_table[f].i_size
<1>1. c.pc = "copy" /\ dcache' = dcache
  BY DEF WriteCopy, WriteFault
<1>2. SameTables
  BY SameTablesFile
<1>3. f \in LiveFiles
  BY <1>1, FileCallNow
<1>4. /\ Chunk(c) \in 1 .. BLOCK_SIZE /\ c.pos \in Nat /\ c.pos + Chunk(c) <= Capacity
  BY <1>1, ChunkPlace
<1>5. PICK n \in Nat : n = Chunk(c)
  BY <1>4
<1>6. PICK end \in Nat : end = c.pos + n
  BY <1>4, <1>5
<1>7. end % U32 = end
  <2>1. U32 \in Nat \ {0} /\ Capacity \in Nat
    BY SizesAssumption DEF ROOT_INODE, Capacity
  <2>2. end < U32
    BY <1>4, <1>5, <1>6, <2>1
  <2> QED
    BY <2>1, <2>2, DivBelow
<1>8. inode_table \in [Inodes -> InodeType] /\ LiveFiles \subseteq Inodes
  BY LiveFile DEF TypeInv, TypeOK
<1>9. ASSUME WriteFault(p)
      PROVE  inode_table' = inode_table /\ \E k \in 0 .. (n - 1) : Store(c, k)
  BY <1>5, <1>9 DEF WriteFault
<1>10. ASSUME WriteCopy(p)
       PROVE  /\ Store(c, n)
              /\ inode_table' = IF c.rem = n /\ end > inode_table[f].i_size
                                THEN [inode_table EXCEPT ![f].i_size = end]
                                ELSE inode_table
  <2>1. IF c.rem = n THEN GrowTo(f, c.via, end) ELSE inode_table' = inode_table
    BY <1>5, <1>6, <1>10 DEF WriteCopy
  <2>2. Store(c, n)
    BY <1>5, <1>10 DEF WriteCopy
  <2> QED
    BY <1>7, <2>1, <2>2 DEF GrowTo
<1>11. ASSUME WriteCopy(p)
       PROVE  /\ inode_table'[f].i_size = IF c.rem = n /\ end > inode_table[f].i_size
                                          THEN end ELSE inode_table[f].i_size
              /\ \A g \in LiveFiles : g # f => inode_table'[g].i_size = inode_table[g].i_size
  BY <1>3, <1>8, <1>10, <1>11 DEF InodeType
<1>12. ASSUME WriteCopy(p)
       PROVE  /\ Store(c, Chunk(c))
              /\ inode_table'[f].i_size =
                   IF c.rem = Chunk(c) /\ c.pos + Chunk(c) > inode_table[f].i_size
                   THEN c.pos + Chunk(c) ELSE inode_table[f].i_size
  BY <1>5, <1>6, <1>10, <1>11, <1>12
<1>13. ASSUME WriteFault(p)
       PROVE  /\ \E k \in 0 .. (Chunk(c) - 1) : Store(c, k)
              /\ \A g : inode_table'[g].i_size = inode_table[g].i_size
  BY <1>5, <1>9, <1>13
<1> QED
  BY <1>1, <1>2, <1>11, <1>12, <1>13

(* The image of a file is a record of its size and bytes.                  *)
LEMMA ImageOf ==
  ASSUME NEW n \in Names, NEW f, f = dcache[n], f # 0, dcache' = dcache
  PROVE  /\ FileImage(n) = Files!File(inode_table[f].i_size,
                                      [o \in 0 .. (Capacity - 1) |-> ByteAt(f, o)])
         /\ FileImage(n)' = Files!File(inode_table'[f].i_size,
                                       [o \in 0 .. (Capacity - 1) |-> ByteAt(f, o)'])
BY DEF FileImage, Capacity, Files!File

(* The chunk of a call is the share of its write.                          *)
LEMMA ChunkIsShare ==
  ASSUME TypeInv, FsInv, NEW p \in Procs, call[p].pc = "copy", WriteFits(call[p]),
         NEW w, w = Writes[p]
  PROVE  /\ Files!Share(w) = Chunk(call[p])
         /\ w.at = call[p].pos /\ w.left = call[p].rem /\ w.val = call[p].val
         /\ w.name = NameOf(call[p].ino)
<1>1. /\ w.at = call[p].pos /\ w.left = call[p].rem /\ w.val = call[p].val
      /\ w.name = NameOf(call[p].ino)
  <2>1. w = Files!Request(NameOf(call[p].ino), call[p].pos, call[p].rem, call[p].val)
    BY WriterHasFile
  <2> QED
    BY <2>1 DEF Files!Request
<1>2. PICK room \in Nat : room = BLOCK_SIZE - (call[p].pos % BLOCK_SIZE)
  <2>1. BLOCK_SIZE \in Nat \ {0} /\ call[p].pos \in Nat
    BY SizesAssumption, CallTypeNow DEF CallType
  <2>2. call[p].pos % BLOCK_SIZE \in 0 .. (BLOCK_SIZE - 1)
    BY <2>1, DivFacts
  <2> QED
    BY <2>1, <2>2
<1>3. PICK rem \in Nat : rem = call[p].rem
  BY CallTypeNow DEF CallType
<1>4. Min({rem, room}) = IF rem < room THEN rem ELSE room
  <2>1. {rem, room} \in SUBSET Nat
    OBVIOUS
  <2>2. /\ Min({rem, room}) \in {rem, room}
        /\ Min({rem, room}) <= rem /\ Min({rem, room}) <= room
    BY <2>1, MinProperties
  <2> QED
    BY <2>2
<1>5. Chunk(call[p]) = Min({rem, room})
  BY <1>2, <1>3 DEF Chunk
<1> QED
  BY <1>1, <1>2, <1>3, <1>4, <1>5 DEF Files!Share

(* A stored chunk changes the image of the writer's own file, where the    *)
(* call says, and no other image.                                          *)
LEMMA StoredImage ==
  ASSUME TypeInv, FsInv, Capacity < U32, NEW p \in Procs, WriteCopy(p) \/ WriteFault(p),
         WriteFits(call[p]), NEW c, c = call[p], NEW w, w = Writes[p],
         NEW k \in 0 .. Chunk(c), Store(c, k)
  PROVE  /\ FileImages' = [FileImages EXCEPT ![w.name] =
                             Files!File(inode_table'[c.ino].i_size,
                                        Files!Stored(FileImages[w.name].bytes, w, k))]
         /\ FileImages[w.name].size = inode_table[c.ino].i_size
<1>2. PICK f : f = c.ino
  OBVIOUS
<1>3. PICK b : b = c.phys
  OBVIOUS
<1>4. WriteFits(c)
  OBVIOUS
<1>5. /\ c.pc = "copy" /\ dcache' = dcache /\ SameTables
      /\ \A g \in LiveFiles : g # f => inode_table'[g].i_size = inode_table[g].i_size
  BY <1>2, <1>4, ChunkWritten
<1>6. /\ c.pos \in Nat /\ Chunk(c) \in Nat
  BY <1>4, <1>5, ChunkPlace
<1>7. k \in Nat
  BY <1>6
<1>8. /\ f \in LiveFiles
      /\ \A g \in LiveFiles : g # f => \A o \in Nat : ByteAt(g, o)' = ByteAt(g, o)
      /\ \A o \in Nat :
           ByteAt(f, o)' = IF o < c.pos \/ o >= c.pos + Chunk(c) THEN ByteAt(f, o)
                           ELSE IF o < c.pos + k THEN c.val ELSE 0
  <2>1. c.pc = "copy" /\ SameTables
    BY <1>5
  <2>2. BytesStored(c, k, f)
    BY <1>2, <1>3, <1>4, <2>1, StoredBytes
  <2> QED
    BY <1>7, <2>2 DEF BytesStored
<1>9. PICK n \in Names : n = NameOf(f) /\ dcache[n] = f
  BY <1>8, NameOfLive
<1>10. f # 0 /\ \A m \in Names : dcache[m] = f => m = n
  BY <1>8, <1>9, NameOfLive, NamesOfFiles
<1>11. ASSUME NEW m \in Names, m # n PROVE FileImage(m)' = FileImage(m)
  <2>1. dcache[m] # 0 => dcache[m] \in LiveFiles /\ dcache[m] # f
    BY <1>10, <1>11, NamesOfFiles
  <2> QED
    BY <1>5, <1>8, <2>1, ImageStays
<1>12. /\ Files!Share(w) = Chunk(c) /\ w.at = c.pos /\ w.val = c.val /\ w.name = n
  BY <1>2, <1>5, <1>9, ChunkIsShare
<1> DEFINE before == [o \in 0 .. (Capacity - 1) |-> ByteAt(f, o)]
           after == [o \in 0 .. (Capacity - 1) |-> ByteAt(f, o)']
<1>13. /\ FileImage(n) = Files!File(inode_table[f].i_size, before)
       /\ FileImage(n)' = Files!File(inode_table'[f].i_size, after)
  BY <1>5, <1>9, <1>10, ImageOf
<1>14. after = Files!Stored(before, w, k)
  <2>1. Capacity \in Nat
    BY SizesAssumption DEF Capacity
  <2>2. \A o \in 0 .. (Capacity - 1) : o \in Nat
    BY <2>1
  <2> QED
    BY <1>8, <1>12, <2>2 DEF Files!Stored
<1>15. FileImages[n].bytes = before /\ FileImages[n].size = inode_table[f].i_size
  BY <1>13 DEF FileImages, Files!File
<1> HIDE DEF before, after
<1>16. FileImages' = [FileImages EXCEPT ![n] = Files!File(inode_table'[f].i_size, after)]
  <2>1. \A m \in Names : FileImages'[m] = IF m = n THEN Files!File(inode_table'[f].i_size, after)
                                          ELSE FileImages[m]
    BY <1>11, <1>13 DEF FileImages
  <2> QED
    BY <2>1 DEF FileImages
<1> QED
  BY <1>2, <1>12, <1>14, <1>15, <1>16

(* Storing a chunk is the Write of the call that stores it.                *)
LEMMA CopyIsWrite ==
  ASSUME TypeInv, FsInv, Capacity < U32, NEW p \in Procs, WriteCopy(p), WriteFits(call[p])
  PROVE  Files!Write(p)
<1>1. PICK c : c = call[p]
  OBVIOUS
<1>2. PICK w : w = Writes[p]
  OBVIOUS
<1>3. PICK f : f = c.ino
  OBVIOUS
<1>4. /\ c.pc = "copy" /\ dcache' = dcache /\ Store(c, Chunk(c))
      /\ inode_table'[f].i_size =
           IF c.rem = Chunk(c) /\ c.pos + Chunk(c) > inode_table[f].i_size
           THEN c.pos + Chunk(c) ELSE inode_table[f].i_size
  BY <1>1, <1>3, ChunkWritten
<1>5. /\ c.pos + Chunk(c) <= Capacity /\ Chunk(c) \in 0 .. Chunk(c) /\ Chunk(c) \in Nat
      /\ c \in CallType
  BY <1>1, <1>4, ChunkPlace, FileCallNow
<1>6. /\ Files!Share(w) = Chunk(c)
      /\ w.at = c.pos /\ w.left = c.rem /\ w.val = c.val /\ w.name = NameOf(f)
  BY <1>1, <1>2, <1>3, <1>4, ChunkIsShare
<1>7. Files!InProgress(p)
  BY <1>1, <1>4, WriterHasFile
<1>8. /\ FileImages' = [FileImages EXCEPT ![w.name] =
                          Files!File(inode_table'[f].i_size,
                                     Files!Stored(FileImages[w.name].bytes, w, Chunk(c)))]
      /\ FileImages[w.name].size = inode_table[f].i_size
  BY <1>1, <1>2, <1>3, <1>4, <1>5, StoredImage
<1>9. Writes' = [Writes EXCEPT ![p] =
                   IF w.left = Files!Share(w) THEN Files!NoRequest
                   ELSE Files!Request(w.name, w.at + Files!Share(w), w.left - Files!Share(w), w.val)]
  <2>1. CASE c.rem = Chunk(c)
    <3>1. Return(p, "ok")
      BY <1>1, <2>1 DEF WriteCopy
    <3> QED
      BY <1>4, <1>6, <2>1, <3>1, WriteReturns
  <2>2. CASE c.rem # Chunk(c)
    <3>1. PICK k : k = Chunk(c)
      OBVIOUS
    <3>2. PICK d : d = [c EXCEPT !.pc = "map", !.pos = @ + k, !.rem = @ - k, !.done = @ + k,
                                 !.phys = 0]
      OBVIOUS
    <3>3. call' = [call EXCEPT ![p] = d]
      BY <1>1, <2>2, <3>1, <3>2 DEF WriteCopy, TypeInv, TypeOK
    <3>4. /\ d.pc = "map" /\ d.ino = f /\ d.pos = c.pos + k /\ d.rem = c.rem - k
          /\ d.val = c.val
      BY <1>3, <1>5, <3>2 DEF CallType
    <3>5. WriteOf(d) = Files!Request(NameOf(f), c.pos + k, c.rem - k, c.val)
      BY <3>4 DEF WriteOf, Files!Request
    <3>6. Writes' = [Writes EXCEPT ![p] = WriteOf(d)]
      BY <1>4, <3>3, WriteChanges
    <3> QED
      BY <1>6, <2>2, <3>1, <3>5, <3>6
  <2> QED
    BY <2>1, <2>2
<1>10. inode_table'[f].i_size =
         IF w.left = Files!Share(w) /\ w.at + Files!Share(w) > FileImages[w.name].size
         THEN w.at + Files!Share(w) ELSE FileImages[w.name].size
  BY <1>4, <1>6, <1>8
<1>11. FileImages' = [FileImages EXCEPT ![w.name] =
         Files!File(IF w.left = Files!Share(w) /\ w.at + Files!Share(w) > FileImages[w.name].size
                    THEN w.at + Files!Share(w) ELSE FileImages[w.name].size,
                    Files!Stored(FileImages[w.name].bytes, w, Files!Share(w)))]
  BY <1>6, <1>8, <1>10
<1>12. w.at + Files!Share(w) <= Capacity
  BY <1>5, <1>6
<1> QED
  BY <1>2, <1>7, <1>9, <1>11, <1>12 DEF Files!Write

LEMMA FaultIsFault ==
  ASSUME TypeInv, FsInv, Capacity < U32, NEW p \in Procs, WriteFault(p), WriteFits(call[p])
  PROVE  Files!Fault(p)
<1>1. PICK c : c = call[p]
  OBVIOUS
<1>2. PICK w : w = Writes[p]
  OBVIOUS
<1>3. PICK f : f = c.ino
  OBVIOUS
<1>4. /\ c.pc = "copy" /\ dcache' = dcache
      /\ \E k \in 0 .. (Chunk(c) - 1) : Store(c, k)
      /\ inode_table'[f].i_size = inode_table[f].i_size
  BY <1>1, <1>3, ChunkWritten
<1>5. PICK k \in 0 .. (Chunk(c) - 1) : Store(c, k)
  BY <1>4
<1>6. c.pos + Chunk(c) <= Capacity /\ Chunk(c) \in Nat /\ k \in 0 .. Chunk(c)
  BY <1>1, <1>4, <1>5, ChunkPlace
<1>7. /\ Files!Share(w) = Chunk(c) /\ w.at = c.pos /\ w.name = NameOf(f)
  BY <1>1, <1>2, <1>3, <1>4, ChunkIsShare
<1>8. Files!InProgress(p)
  BY <1>1, <1>4, WriterHasFile
<1>9. /\ FileImages' = [FileImages EXCEPT ![w.name] =
                          Files!File(inode_table'[f].i_size,
                                     Files!Stored(FileImages[w.name].bytes, w, k))]
      /\ FileImages[w.name].size = inode_table[f].i_size
  BY <1>1, <1>2, <1>3, <1>5, <1>6, StoredImage
<1>10. Writes' = [Writes EXCEPT ![p] = Files!NoRequest]
  BY <1>4, WriteReturns DEF WriteFault
<1>11. /\ w.at + Files!Share(w) <= Capacity /\ k \in 0 .. (Files!Share(w) - 1)
       /\ FileImages' = [FileImages EXCEPT ![w.name] =
            Files!File(FileImages[w.name].size, Files!Stored(FileImages[w.name].bytes, w, k))]
  BY <1>4, <1>6, <1>7, <1>9
<1> QED
  BY <1>2, <1>8, <1>10, <1>11 DEF Files!Fault

(* Every step of osfs is a step of OsfsFiles, or leaves it alone.          *)
LEMMA ImagesStep ==
  ASSUME TypeInv, FsInv, ImageInv, 0 \notin Lens, Capacity < U32, [Next]_vars
  PROVE  [Files!Next]_<<FileImages, Writes>>
<1>1. CASE Calm /\ SameSizes /\ WritesOnly
  <2>1. \A n \in Names : FileImage(n)' = FileImage(n)
    BY <1>1, CalmImages DEF ImageInv
  <2>2. FileImages' = FileImages
    BY <2>1 DEF FileImages
  <2>3. ASSUME NEW p \in Procs, NEW n \in Names, NEW at \in Positions, NEW len \in Lens,
               NEW v \in Vals, Begins(p, n, at, len, v)
        PROVE  Files!Next
    <3>1. Files!Begin(p, n, at, len, v)
      BY <2>2, <2>3 DEF Begins, Files!Begin
    <3> QED
      BY <3>1 DEF Files!Next
  <2>4. ASSUME NEW p \in Procs, Files!InProgress(p), Writes' = [Writes EXCEPT ![p] = Files!NoRequest]
        PROVE  Files!Next
    BY <2>2, <2>4 DEF Files!Next, Files!Refuse
  <2> QED
    BY <1>1, <2>2, <2>3, <2>4 DEF WritesOnly
<1>2. ASSUME NEW p \in Procs, CreateDone(p) PROVE Files!Next
  <2>1. PICK name : name = call[p].name
    OBVIOUS
  <2>2. /\ name \in Names
        /\ FileImage(name) = Files!Absent /\ FileImage(name)' = Files!Empty
        /\ \A n \in Names : n # name => FileImage(n)' = FileImage(n)
    BY <1>2, <2>1, CreatedImage
  <2>3. FileImages' = [FileImages EXCEPT ![name] = Files!Empty]
    BY <2>2 DEF FileImages
  <2>4. ~FileImages[name].exists
    BY <2>2 DEF FileImages, Files!Absent
  <2>5. Writes' = Writes
    BY <1>2, CreatedWrites
  <2> QED
    BY <2>2, <2>3, <2>4, <2>5 DEF Files!Next, Files!Create
<1>3. ASSUME NEW p \in Procs, WriteCopy(p) \/ WriteFault(p) PROVE Files!Next
  BY <1>3, CopyIsWrite, FaultIsFault DEF ImageInv, Files!Next
<1>4. ASSUME NEW p \in Procs, WriteFault(p) \/ WriteCopy(p) \/ CreateDone(p)
      PROVE  Files!Next
  BY <1>2, <1>3, <1>4
<1> QED
  BY <1>1, <1>4, CalmStep, CalmWrites, SizesOf

(* ImplementsFiles: osfs implements OsfsFiles, with the images of its      *)
(* files for file and what its calls have left for writing.  Excluded are  *)
(* writes of length 0, which may move i_size to their offset with no byte  *)
(* stored (osfs_extent_do_write), and calls past the last block that a     *)
(* uint32_t can number, where a write wraps around to the first blocks of  *)
(* its file.  The disk's blocks hold fewer bytes than i_size can count (20 *)
(* of them in osfs.h).                                                     *)
THEOREM FilesAreImplemented ==
  ASSUME 0 \notin Lens, Capacity < U32, CallsInRange
  PROVE  Spec => ImplementsFiles
<1>1. Init => Files!Init
  <2>1. Idle.pc = "idle"
    BY DEF Idle
  <2>2. Init => FileImages = [n \in Names |-> Files!Absent]
    BY DEF Init, FileImages, FileImage, Files!Absent
  <2>3. Init => Writes = [p \in Procs |-> Files!NoRequest]
    BY <2>1, NoWrite DEF Init, Writes
  <2> QED
    BY <2>2, <2>3 DEF Files!Init
<1>2. TypeInv /\ FsInv /\ ImageInv /\ [Next]_vars => [Files!Next]_<<FileImages, Writes>>
  BY ImagesStep
<1>3. Init => ImageInv
  BY ImageInvInit
<1>4. TypeInv /\ FsInv /\ ImageInv /\ [Next]_vars => ImageInv'
  BY ImageInvStep
<1>5. Spec => []TypeInv
  BY TypeCorrect DEF TypeInv
<1>6. Spec => []FsInv
  BY FsCorrect
<1> QED
  BY <1>1, <1>2, <1>3, <1>4, <1>5, <1>6, PTL DEF Spec, ImplementsFiles, Files!Spec

-----------------------------------------------------------------------------
(* Part 2: mounts and listings.                                            *)
-----------------------------------------------------------------------------
(* Of all steps, only the end of a create changes the directory: it adds   *)
(* an entry after the others.                                              *)
LEMMA DirCreate ==
  ASSUME TypeInv, FsInv, NEW p \in Procs,
         \/ \E n \in Names : CreateNameTooLong(p, n) \/ CreateNoSpace(p, n) \/ CreateStart(p, n)
         \/ CreateNoMemory(p) \/ CreateNoBlock(p) \/ CreateRollback(p)
  PROVE  Dir' = Dir
<1>1. ASSUME UNCHANGED <<inode_table, data_blocks>> PROVE Dir' = Dir
  BY <1>1 DEF Dir, root
<1>2. ASSUME NEW n \in Names,
             CreateNameTooLong(p, n) \/ CreateNoSpace(p, n) \/ CreateStart(p, n)
      PROVE  Dir' = Dir
  <2>1. CASE CreateNameTooLong(p, n)
    BY <1>1, <2>1 DEF CreateNameTooLong, fsVars
  <2>2. CASE CreateNoSpace(p, n)
    BY <1>1, <2>2, GiveRoot DEF CreateNoSpace
  <2>3. CASE CreateStart(p, n)
    BY <2>3, GiveRoot DEF CreateStart
  <2> QED
    BY <1>2, <2>1, <2>2, <2>3
<1>3. CASE CreateNoMemory(p)
  BY <1>1, <1>3 DEF CreateNoMemory, fsVars
<1>4. CASE CreateNoBlock(p)
  BY <1>4, OtherInode DEF CreateNoBlock, SameFiles
<1>5. CASE CreateRollback(p)
  <2>1. UNCHANGED blockVars
    BY <1>5, IncDec DEF CreateRollback, TypeInv, TypeOK, blockVars
  <2>2. PICK new : inode_table' = [inode_table EXCEPT ![call[p].ino] = new]
    BY <1>5 DEF CreateRollback
  <2>3. call[p].pc = "new_inode" /\ UNCHANGED data_blocks
    BY <1>5 DEF CreateRollback
  <2> QED
    BY <2>1, <2>2, <2>3, OtherInode DEF SameFiles
<1> QED
  BY <1>2, <1>3, <1>4, <1>5

LEMMA DirFile ==
  ASSUME TypeInv, FsInv, NEW p \in Procs,
         \/ \E ino \in OpenFiles, pos \in Positions, len \in Lens :
              \/ \E via \in OpenVia(ino) :
                   \/ \E v \in Vals : WriteStart(p, ino, via, pos, len, v)
                   \/ ReadStart(p, ino, via, pos, len)
              \/ ReadShort(p, ino, pos, len)
         \/ WriteMapped(p) \/ WriteHole(p) \/ WriteNoSpace(p) \/ WriteAppend(p)
         \/ WriteCopy(p) \/ WriteFault(p) \/ ReadBlock(p)
  PROVE  Dir' = Dir
<1>1. ASSUME UNCHANGED <<inode_table, data_blocks>> PROVE Dir' = Dir
  BY <1>1 DEF Dir, root
<1>2. Quiet => Dir' = Dir
  BY DEF Quiet, SameFiles
<1>3. ASSUME NEW ino \in OpenFiles, NEW pos \in Positions, NEW len \in Lens,
             \/ \E via \in OpenVia(ino) :
                  \/ \E v \in Vals : WriteStart(p, ino, via, pos, len, v)
                  \/ ReadStart(p, ino, via, pos, len)
             \/ ReadShort(p, ino, pos, len)
      PROVE  Dir' = Dir
  <2>1. ASSUME NEW via \in OpenVia(ino), NEW v \in Vals, WriteStart(p, ino, via, pos, len, v)
        PROVE  Quiet
    <3>1. PICK f \in LiveFiles : f = ino
      BY OpenIsLive
    <3> QED
      BY <2>1, <3>1, QuietWriteStart
  <2>2. ASSUME NEW via \in OpenVia(ino), ReadStart(p, ino, via, pos, len) PROVE Dir' = Dir
    BY <1>1, <2>2 DEF ReadStart, fsVars
  <2>3. ASSUME ReadShort(p, ino, pos, len) PROVE Quiet
    BY <2>3, QuietReadShort
  <2> QED
    BY <1>2, <1>3, <2>1, <2>2, <2>3
<1>4. CASE WriteMapped(p) \/ WriteHole(p) \/ WriteNoSpace(p) \/ ReadBlock(p)
  BY <1>1, <1>4 DEF WriteMapped, WriteHole, WriteNoSpace, ReadBlock, fsVars
<1>5. CASE WriteCopy(p) \/ WriteFault(p)
  BY <1>2, <1>5, QuietCopy
<1>6. CASE WriteAppend(p)
  <2>1. PICK c : c = call[p]
    OBVIOUS
  <2>2. PICK f : f = c.ino
    OBVIOUS
  <2>3. PICK b : b = Min(FreeBlocks)
    OBVIOUS
  <2>4. PICK exts : exts = Table(f)
    OBVIOUS
  <2>5. PICK new : new = osfs_extent_append(exts, b)
    OBVIOUS
  <2>6. /\ Dir' = Dir /\ root' = root
        /\ inode_table'[f] = [inode_table[f] EXCEPT !.i_blocks = @ + 1]
    BY <1>6, <2>1, <2>2, <2>3, <2>4, <2>5, AppendedBlock
  <2> QED
    BY <2>6
<1> QED
  BY <1>3, <1>4, <1>5, <1>6

LEMMA DirStep ==
  ASSUME TypeInv, FsInv, [Next]_vars
  PROVE  Dir' = Dir \/ \E e \in DirEntry : Dir' = Append(Dir, e)
<1>1. ASSUME NEW p \in Procs, Call(p) PROVE Dir' = Dir
  BY <1>1, DirCreate, DirFile DEF Call
<1>2. ASSUME NEW p \in Procs, Continue(p) PROVE Dir' = Dir \/ CreateDone(p)
  BY <1>2, DirCreate, DirFile DEF Continue
<1>3. ASSUME NEW p \in Procs, CreateDone(p) PROVE \E e \in DirEntry : Dir' = Append(Dir, e)
  <2>1. PICK c : c = call[p]
    OBVIOUS
  <2>2. PICK e : e = [filename |-> c.name, inode_no |-> c.ino]
    OBVIOUS
  <2>3. c.name \in Names /\ c.ino \in Inodes /\ Dir' = Append(Dir, e)
    BY <1>3, <2>1, <2>2, CreatedFile
  <2> QED
    BY <2>2, <2>3 DEF DirEntry
<1>4. ASSUME \/ \E i \in DOMAIN Dir : Lookup(i)
             \/ \E ino \in OpenFiles : Evict(ino)
             \/ \E n \in Truncating, via \in DentryKinds : Truncate(n, via)
             \/ UNCHANGED vars
      PROVE  Dir' = Dir
  BY <1>4 DEF Lookup, Evict, Truncate, vars, Dir, root
<1> QED
  BY <1>1, <1>2, <1>3, <1>4 DEF Next

-----------------------------------------------------------------------------
(* The listing as a sequence of names.                                     *)
Name == Names \cup {".", ".."}

LEMMA ListingType ==
  ASSUME TypeInv
  PROVE  /\ Dir \in Seq(DirEntry) /\ Len(Dir) \in Nat
         /\ EntryNames \in Seq(Name) /\ Len(EntryNames) = Len(Dir)
         /\ Dots \in Seq(Name) /\ Len(Dots) = 2
         /\ Listing \in Seq(Name) /\ Len(Listing) = Len(Dir) + 2
         /\ \A i \in 1 .. Len(Dir) : Listing[i + 2] = EntryNames[i]
         /\ Listing[1] = "." /\ Listing[2] = ".."
<1>1. Dir \in Seq(DirEntry) /\ Len(Dir) \in Nat /\ DOMAIN Dir = 1 .. Len(Dir)
  BY RootType, LenProperties
<1>2. \A i \in 1 .. Len(Dir) : Dir[i].filename \in Name
  <2>1. Dir \in [1 .. Len(Dir) -> DirEntry]
    BY <1>1, LenProperties
  <2> QED
    BY <2>1 DEF DirEntry, Name
<1>3. EntryNames \in Seq(Name) /\ Len(EntryNames) = Len(Dir)
  BY <1>1, <1>2 DEF EntryNames
<1>4. Dots \in Seq(Name) /\ Len(Dots) = 2 /\ Dots[1] = "." /\ Dots[2] = ".."
  BY DEF Dots, Name
<1>5. /\ Listing \in Seq(Name) /\ Len(Listing) = Len(Dir) + 2
      /\ \A i \in 1 .. 2 + Len(Dir) :
           Listing[i] = IF i <= 2 THEN Dots[i] ELSE EntryNames[i - 2]
  BY <1>1, <1>3, <1>4, ConcatProperties DEF Listing
<1>6. ASSUME NEW i \in 1 .. Len(Dir) PROVE Listing[i + 2] = EntryNames[i]
  <2>1. i + 2 \in 1 .. 2 + Len(Dir) /\ ~(i + 2 <= 2) /\ (i + 2) - 2 = i
    BY <1>1
  <2> QED
    BY <1>5, <2>1
<1>7. Listing[1] = "." /\ Listing[2] = ".."
  BY <1>1, <1>4, <1>5
<1> QED
  BY <1>1, <1>3, <1>4, <1>5, <1>6, <1>7

(* What a pass has returned up to an offset inside the listing stays what  *)
(* the listing has there when a create adds a name at the end.             *)
LEMMA ListingGrows ==
  ASSUME TypeInv, FsInv, [Next]_vars, NEW from \in Nat, NEW pos \in Nat, from <= pos,
         pos <= Len(Listing) \/ pos = from
  PROVE  /\ Len(Listing') \in Nat /\ Len(Listing) <= Len(Listing')
         /\ SubSeq(Listing', from + 1, pos) = SubSeq(Listing, from + 1, pos)
<1>0. /\ Dir \in Seq(DirEntry) /\ Len(Dir) \in Nat
      /\ Listing \in Seq(Name) /\ Len(Listing) = Len(Dir) + 2
  BY ListingType
<1>1. CASE Dir' = Dir
  BY <1>0, <1>1 DEF Listing, EntryNames
<1>2. ASSUME NEW e \in DirEntry, Dir' = Append(Dir, e)
      PROVE  /\ Len(Listing') \in Nat /\ Len(Listing) <= Len(Listing')
             /\ SubSeq(Listing', from + 1, pos) = SubSeq(Listing, from + 1, pos)
  <2>1. PICK new : new = e.filename
    OBVIOUS
  <2>2. new \in Name
    BY <2>1 DEF DirEntry, Name
  <2>3. EntryNames' = Append(EntryNames, new)
    <3>1. DOMAIN Dir = 1 .. Len(Dir)
      BY <1>0, LenProperties
    <3>2. /\ Append(Dir, e) \in Seq(DirEntry) /\ Len(Append(Dir, e)) = Len(Dir) + 1
          /\ \A i \in 1 .. Len(Dir) : Append(Dir, e)[i] = Dir[i]
          /\ Append(Dir, e)[Len(Dir) + 1] = e
      BY <1>0, AppendProperties
    <3>3. DOMAIN Append(Dir, e) = 1 .. Len(Dir) + 1
      BY <3>2, LenProperties
    <3>4. EntryNames' = [i \in 1 .. Len(Dir) + 1 |-> Append(Dir, e)[i].filename]
      BY <1>2, <3>3 DEF EntryNames
    <3>5. EntryNames = [i \in 1 .. Len(Dir) |-> Dir[i].filename]
      BY <3>1 DEF EntryNames
    <3>6. EntryNames \in Seq(Name) /\ Len(EntryNames) = Len(Dir)
      BY ListingType
    <3>7. EntryNames' \in Seq(Name) /\ Len(EntryNames') = Len(Dir) + 1
      <4>1. \A i \in 1 .. Len(Dir) + 1 : Append(Dir, e)[i].filename \in Name
        <5>1. Append(Dir, e) \in [1 .. Len(Dir) + 1 -> DirEntry]
          BY <3>2, LenProperties
        <5> QED
          BY <5>1 DEF DirEntry, Name
      <4> QED
        BY <1>0, <3>4, <4>1
    <3>8. /\ Append(EntryNames, new) \in Seq(Name) /\ Len(Append(EntryNames, new)) = Len(Dir) + 1
          /\ \A i \in 1 .. Len(Dir) : Append(EntryNames, new)[i] = EntryNames[i]
          /\ Append(EntryNames, new)[Len(Dir) + 1] = new
      BY <2>2, <3>6, AppendProperties
    <3>9. \A i \in 1 .. Len(Dir) + 1 : EntryNames'[i] = Append(EntryNames, new)[i]
      BY <1>0, <2>1, <3>2, <3>4, <3>5, <3>8
    <3> QED
      BY <3>7, <3>8, <3>9, SeqEqual
  <2>4. Listing' = Listing \o <<new>>
    <3>1. EntryNames \in Seq(Name) /\ Dots \in Seq(Name) /\ <<new>> \in Seq(Name)
      BY <2>2, ListingType
    <3>2. EntryNames' = EntryNames \o <<new>>
      BY <2>2, <2>3, <3>1, AppendIsConcat
    <3>3. Listing' = Dots \o (EntryNames \o <<new>>)
      BY <3>2 DEF Listing, Dots
    <3> QED
      BY <3>1, <3>3, ConcatAssociative DEF Listing
  <2>5. /\ <<new>> \in Seq(Name) /\ Len(<<new>>) = 1
        /\ Listing' \in Seq(Name) /\ Len(Listing') = Len(Listing) + 1
    BY <1>0, <2>2, <2>4, ConcatProperties
  <2>6. CASE pos = from
    BY <2>5, <2>6, <1>0, SubSeqEmpty
  <2>7. CASE pos # from /\ pos <= Len(Listing)
    <3>1. from + 1 \in 1 .. Len(Listing) /\ pos \in 1 .. Len(Listing)
      BY <1>0, <2>7
    <3> QED
      BY <1>0, <2>4, <2>5, <3>1, SubSeqOfConcat1
  <2> QED
    BY <2>6, <2>7
<1> QED
  BY <1>1, <1>2, DirStep

(* Names that the listing has from place pos on.                           *)
Follows(names, pos) ==
  /\ names \in Seq(Name) /\ Len(names) \in Nat
  /\ pos + Len(names) <= Len(Listing) \/ names = << >>
  /\ names = SubSeq(Listing, pos + 1, pos + Len(names))

LEMMA NoNames ==
  ASSUME NEW pos \in Nat
  PROVE  Follows(<< >>, pos)
<1>1. << >> \in Seq(Name) /\ Len(<< >>) = 0
  BY EmptySeq
<1>2. SubSeq(Listing, pos + 1, pos + 0) = << >>
  BY SubSeqEmpty
<1> QED
  BY <1>1, <1>2 DEF Follows

LEMMA NamesFollow ==
  ASSUME TypeInv, NEW pos \in Nat, NEW k \in Nat, pos + k <= Len(Listing)
  PROVE  LET names == SubSeq(Listing, pos + 1, pos + k) IN Follows(names, pos) /\ Len(names) = k
<1>1. PICK names : names = SubSeq(Listing, pos + 1, pos + k)
  OBVIOUS
<1>2. Listing \in [1 .. Len(Listing) -> Name] /\ Len(Listing) \in Nat
  BY ListingType, LenProperties
<1>3. \A i \in (pos + 1) .. (pos + k) : Listing[i] \in Name
  BY <1>2
<1>4. /\ SubSeq(Listing, pos + 1, pos + k) \in Seq(Name)
      /\ Len(SubSeq(Listing, pos + 1, pos + k))
           = IF pos + 1 <= pos + k THEN (pos + k) - (pos + 1) + 1 ELSE 0
  BY <1>3, SubSeqProperties
<1>5. names \in Seq(Name) /\ Len(names) = k
  BY <1>1, <1>4
<1> QED
  BY <1>1, <1>5 DEF Follows

(* Entries, from the third place of the listing on.                        *)
LEMMA EntriesFollow ==
  ASSUME TypeInv, NEW pos \in Nat, pos >= 2, NEW room \in Nat
  PROVE  /\ Follows(EmitEntries(pos, room), pos)
         /\ EmitEntries(pos, room) = << >> => room = 0 \/ pos >= Len(Listing)
<1>1. PICK n \in Nat : n = Len(Dir)
  BY ListingType
<1>2. /\ EntryNames \in Seq(Name) /\ Len(EntryNames) = n
      /\ Listing \in Seq(Name) /\ Len(Listing) = n + 2
      /\ \A i \in 1 .. n : Listing[i + 2] = EntryNames[i]
  BY <1>1, ListingType
<1>3. PICK last \in Nat : last = pos - 2 + room
  OBVIOUS
<1>4. PICK k : k = Min({last, n})
  OBVIOUS
<1>5. k \in {last, n} /\ k <= last /\ k <= n /\ k \in Nat
  <2>1. {last, n} \in SUBSET Nat
    OBVIOUS
  <2> QED
    BY <1>4, <2>1, MinProperties
<1>6. PICK es : es = EmitEntries(pos, room)
  OBVIOUS
<1>7. es = SubSeq(EntryNames, pos - 1, k)
  <2>1. ~(pos < 2)
    OBVIOUS
  <2> QED
    BY <1>1, <1>3, <1>4, <1>6, <2>1, Zenon DEF EmitEntries
<1>8. CASE k < pos - 1
  <2>1. es = << >>
    BY <1>5, <1>7, <1>8, SubSeqEmpty
  <2>2. room = 0 \/ pos >= Len(Listing)
    BY <1>2, <1>3, <1>5, <1>8
  <2> QED
    BY <1>6, <2>1, <2>2, NoNames
<1>9. CASE pos - 1 <= k
  <2>1. PICK m \in Nat : m = k + 2 - pos /\ m > 0
    BY <1>5, <1>9
  <2>2. PICK ls : ls = SubSeq(Listing, pos + 1, pos + m)
    OBVIOUS
  <2>3. EntryNames \in [1 .. n -> Name] /\ Listing \in [1 .. n + 2 -> Name]
    BY <1>2, LenProperties
  <2>4. \A i \in (pos - 1) .. k : EntryNames[i] \in Name
    BY <1>5, <2>3
  <2>5. /\ es \in Seq(Name) /\ Len(es) = m
        /\ \A i \in 1 .. m : es[i] = EntryNames[pos + i - 2]
    <3>1. /\ es \in Seq(Name) /\ Len(es) = k - (pos - 1) + 1
          /\ \A i \in 1 .. k - (pos - 1) + 1 : es[i] = EntryNames[(pos - 1) + i - 1]
      BY <1>5, <1>7, <1>9, <2>4, SubSeqProperties
    <3>2. k - (pos - 1) + 1 = m /\ \A i \in 1 .. m : (pos - 1) + i - 1 = pos + i - 2
      BY <1>5, <2>1
    <3> QED
      BY <3>1, <3>2
  <2>6. \A i \in (pos + 1) .. (pos + m) : Listing[i] \in Name
    BY <1>5, <2>1, <2>3
  <2>7. /\ ls \in Seq(Name) /\ Len(ls) = m
        /\ \A i \in 1 .. m : ls[i] = Listing[pos + i]
    <3>1. /\ ls \in Seq(Name)
          /\ Len(ls) = IF pos + 1 <= pos + m THEN (pos + m) - (pos + 1) + 1 ELSE 0
          /\ \A i \in 1 .. (pos + m) - (pos + 1) + 1 : ls[i] = Listing[(pos + 1) + i - 1]
      BY <2>2, <2>6, SubSeqProperties
    <3>2. /\ (pos + m) - (pos + 1) + 1 = m /\ pos + 1 <= pos + m
          /\ \A i \in 1 .. m : (pos + 1) + i - 1 = pos + i
      BY <2>1
    <3> QED
      BY <3>1, <3>2
  <2>8. ASSUME NEW i \in 1 .. m PROVE es[i] = ls[i]
    <3>1. PICK j \in 1 .. n : j = pos + i - 2 /\ j + 2 = pos + i
      BY <1>5, <2>1
    <3> QED
      BY <1>2, <2>5, <2>7, <3>1
  <2>9. es = ls
    BY <2>5, <2>7, <2>8, SeqEqual
  <2>10. Follows(es, pos)
    BY <1>2, <1>5, <2>1, <2>2, <2>5, <2>9 DEF Follows
  <2>11. es # << >>
    BY <2>1, <2>5, EmptySeq
  <2> QED
    BY <1>6, <2>10, <2>11
<1> QED
  BY <1>5, <1>8, <1>9

(* What one osfs_iterate returns: the names that follow ctx->pos; none at  *)
(* position 1 and past the last entry.                                     *)
LEMMA IterateReturns ==
  ASSUME TypeInv, NEW pos \in Nat, NEW room \in Nat \ {0}
  PROVE  /\ Follows(osfs_iterate(pos, room), pos)
         /\ osfs_iterate(pos, room) = << >> => pos = 1 \/ pos >= Len(Listing)
<1>1. PICK dots : dots = dir_emit_dots(pos, room)
  OBVIOUS
<1>2. PICK names : names = osfs_iterate(pos, room)
  OBVIOUS
<1>3. PICK es : es = EmitEntries(pos + Len(dots), room - Len(dots))
  OBVIOUS
<1>4. names = dots \o es
  BY <1>1, <1>2, <1>3 DEF osfs_iterate
<1>5. << >> \in Seq(Name) /\ Len(<< >>) = 0
  BY EmptySeq
<1>6. /\ Dots \in Seq(Name) /\ Len(Dots) = 2 /\ Listing \in Seq(Name)
      /\ Len(Listing) \in Nat /\ Len(Listing) >= 2
      /\ Dots[1] = "." /\ Dots[2] = ".." /\ Listing[1] = "." /\ Listing[2] = ".."
  BY ListingType DEF Dots
<1>7. CASE pos = 1
  <2>1. dots = << >>
    BY <1>1, <1>7 DEF dir_emit_dots
  <2>2. es = << >>
    BY <1>3, <1>5, <1>7, <2>1 DEF EmitEntries
  <2>3. names = << >>
    BY <1>4, <1>5, <2>1, <2>2, ConcatEmptySeq
  <2> QED
    BY <1>2, <1>7, <2>3, NoNames
<1>8. CASE pos >= 2
  <2>1. dots = << >>
    BY <1>1, <1>8 DEF dir_emit_dots
  <2>2. pos + Len(dots) = pos /\ room - Len(dots) = room
    BY <1>5, <2>1
  <2>3. Follows(es, pos) /\ (es = << >> => pos >= Len(Listing))
    BY <1>3, <1>8, <2>2, EntriesFollow
  <2>4. names = es
    BY <1>4, <2>1, <2>3, ConcatEmptySeq DEF Follows
  <2> QED
    BY <1>2, <2>3, <2>4
<1>9. CASE pos = 0
  <2>1. PICK k : k = Min({room, 2})
    OBVIOUS
  <2>2. k \in {room, 2} /\ k <= room /\ k <= 2
    <3>1. {room, 2} \in SUBSET Nat
      OBVIOUS
    <3> QED
      BY <2>1, <3>1, MinProperties
  <2>3. k \in 1 .. 2
    BY <2>2
  <2>4. dots = SubSeq(Dots, 1, k)
    BY <1>1, <1>9, <2>1 DEF dir_emit_dots
  <2>5. dots = SubSeq(Listing, 1, k) /\ Len(dots) = k /\ dots \in Seq(Name)
    <3>1. \A i \in 1 .. k : Dots[i] \in Name /\ Listing[i] \in Name /\ Dots[i] = Listing[i]
      BY <1>6, <2>3 DEF Name
    <3>2. /\ dots \in Seq(Name) /\ Len(dots) = k
          /\ \A i \in 1 .. k : dots[i] = Dots[i]
      BY <2>3, <2>4, <3>1, SubSeqProperties
    <3>3. PICK ls : ls = SubSeq(Listing, 1, k)
      OBVIOUS
    <3>4. /\ ls \in Seq(Name) /\ Len(ls) = k
          /\ \A i \in 1 .. k : ls[i] = Listing[i]
      BY <2>3, <3>1, <3>3, SubSeqProperties
    <3>5. dots = ls
      BY <3>1, <3>2, <3>4, SeqEqual
    <3> QED
      BY <3>2, <3>3, <3>5
  <2>6. CASE k = 1
    <3>1. es = << >>
      BY <1>3, <1>9, <2>5, <2>6 DEF EmitEntries
    <3>2. names = dots
      BY <1>4, <2>5, <3>1, ConcatEmptySeq
    <3>3. Follows(names, pos)
      BY <1>6, <1>9, <2>5, <2>6, <3>2 DEF Follows
    <3>4. names # << >>
      <4>1. Len(names) = 1
        BY <2>5, <2>6, <3>2
      <4> QED
        BY <4>1, <1>5
    <3> QED
      BY <1>2, <3>3, <3>4
  <2>7. CASE k = 2
    <3>1. PICK m \in Nat : m = room - 2
      BY <2>2, <2>7
    <3>2. es = EmitEntries(2, m)
      BY <1>3, <1>9, <2>5, <2>7, <3>1
    <3>3. /\ es \in Seq(Name) /\ Len(es) \in Nat
          /\ 2 + Len(es) <= Len(Listing) \/ es = << >>
          /\ es = SubSeq(Listing, 2 + 1, 2 + Len(es))
      <4>1. Follows(EmitEntries(2, m), 2)
        BY EntriesFollow
      <4> QED
        BY <3>2, <4>1 DEF Follows
    <3>4. 2 + Len(es) <= Len(Listing)
      BY <1>5, <1>6, <3>3
    <3>5. SubSeq(Listing, 1, 2) \o SubSeq(Listing, 2 + 1, 2 + Len(es))
            = SubSeq(Listing, 1, 2 + Len(es))
      <4>1. /\ 1 \in 1 .. Len(Listing) + 1 /\ 2 \in 1 - 1 .. Len(Listing)
            /\ 2 + Len(es) \in 2 .. Len(Listing)
        BY <1>6, <3>3, <3>4
      <4> QED
        BY <1>6, <4>1, ConcatAdjacentSubSeq
    <3>6. names = SubSeq(Listing, 1, 2 + Len(es))
      BY <1>4, <2>5, <2>7, <3>3, <3>5
    <3>7. names \in Seq(Name) /\ Len(names) = 2 + Len(es)
      BY <1>4, <2>5, <2>7, <3>3, ConcatProperties
    <3>8. Follows(names, pos)
      BY <1>9, <3>3, <3>4, <3>6, <3>7 DEF Follows
    <3>9. names # << >>
      BY <1>5, <3>3, <3>7
    <3> QED
      BY <1>2, <3>8, <3>9
  <2> QED
    BY <2>3, <2>6, <2>7
<1> QED
  BY <1>7, <1>8, <1>9

-----------------------------------------------------------------------------
(***************************************************************************)
(* MountedInv is inductive.                                                *)
(***************************************************************************)
allVars == <<vars, mountVars, filp>>

LEMMA MountedInvInit == MountedInit => MountedInv
<1> SUFFICES ASSUME MountedInit PROVE MountedInv
  OBVIOUS
<1>1. TypeInv /\ FsInv
  BY TypeInvInit, FsInvInit DEF MountedInit, MountInit
<1>2. MountLifetime
  BY DEF MountedInit, MountInit, MountLifetime, Mounted, Init, Idle
<1>3. filp = Closed
  BY DEF MountedInit
<1>4. PassInv /\ ListingExact
  BY <1>3, EmptySeq DEF PassInv, FilpType, Closed, ListingExact
<1> QED
  BY <1>1, <1>2, <1>4 DEF MountedInv

(* What osfs_fill_super leaves does not depend on what the region held.    *)
LEMMA FillsEmpty ==
  ASSUME TypeInv, MountLifetime, FillDone
  PROVE  Empty'
BY DEF FillDone, Memset, NoReturn, Empty, MountLifetime, Mounted, TypeInv, TypeOK

LEMMA EmptyNext == Empty' => TypeInv' /\ FsInv'
<1>1. Empty => TypeInv /\ FsInv
  BY TypeInvEmpty, FsInvEmpty
<1> QED
  BY <1>1, PTL

(* The handlers. *)
LEMMA MountedHandler ==
  ASSUME MountedInv, Mounted, Next, UNCHANGED <<mountVars, filp>>
  PROVE  MountedInv'
<1>1. TypeInv /\ FsInv /\ MountLifetime /\ PassInv /\ ListingExact
  BY DEF MountedInv
<1>2. TypeInv' /\ FsInv'
  BY <1>1, TypeInvNext, FsInvStep
<1>3. MountLifetime'
  BY <1>1 DEF MountLifetime, Mounted, mountVars
<1>4. filp' = filp /\ filp \in FilpType
  BY <1>1 DEF PassInv
<1>5. CASE ~filp.open
  BY <1>2, <1>3, <1>4, <1>5 DEF MountedInv, PassInv, ListingExact, Mounted
<1>6. CASE filp.open
  <2>1. /\ filp.from \in Nat /\ filp.pos \in Nat /\ filp.from <= filp.pos
        /\ filp.pos > Len(Listing) => filp.pos = filp.from
        /\ filp.got = SubSeq(Listing, filp.from + 1, filp.pos)
    BY <1>1, <1>6 DEF PassInv, FilpType, ListingExact
  <2>2. Len(Listing) \in Nat
    BY <1>1, ListingType
  <2>3. filp.pos <= Len(Listing) \/ filp.pos = filp.from
    BY <2>1, <2>2
  <2>4. /\ Len(Listing') \in Nat /\ Len(Listing) <= Len(Listing')
        /\ SubSeq(Listing', filp.from + 1, filp.pos) = SubSeq(Listing, filp.from + 1, filp.pos)
    BY <1>1, <2>1, <2>3, ListingGrows
  <2>5. PassInv'
    BY <1>4, <2>1, <2>2, <2>4 DEF PassInv
  <2>6. ListingExact'
    BY <1>4, <2>1, <2>4 DEF ListingExact
  <2> QED
    BY <1>2, <1>3, <2>5, <2>6 DEF MountedInv
<1> QED
  BY <1>5, <1>6

(* One getdents: what it adds to the names of the pass.                    *)
LEMMA GetdentsStep ==
  ASSUME TypeInv, PassInv, ListingExact, NEW room \in Rooms, Getdents(room), Listing' = Listing
  PROVE  PassInv' /\ ListingExact' /\ ListingStep
<1>1. PICK from \in Nat : from = filp.from
  BY DEF PassInv, FilpType
<1>2. PICK pos \in Nat : pos = filp.pos
  BY DEF PassInv, FilpType
<1>3. PICK names : names = osfs_iterate(pos, room)
  OBVIOUS
<1>4. PICK size \in Nat : size = Len(Listing)
  BY ListingType
<1>5. room \in Nat \ {0}
  BY ReaddirAssumption
<1>6. /\ names \in Seq(Name) /\ Len(names) \in Nat
      /\ pos + Len(names) <= size \/ names = << >>
      /\ names = SubSeq(Listing, pos + 1, pos + Len(names))
      /\ names = << >> => pos = 1 \/ pos >= size
  BY <1>3, <1>4, <1>5, IterateReturns DEF Follows
<1>7. /\ filp.open /\ from <= pos /\ (pos > size => pos = from)
      /\ filp.got = SubSeq(Listing, from + 1, pos) /\ filp.got \in Seq(Name)
      /\ filp \in FilpType
  BY <1>1, <1>2, <1>4 DEF Getdents, PassInv, FilpType, ListingExact, Name
<1>8. Listing \in Seq(Name)
  BY ListingType
<1>9. PICK res \in {"names", "EINVAL", "end"} :
        res = IF names # << >> THEN "names" ELSE IF pos = 1 THEN "EINVAL" ELSE "end"
  OBVIOUS
<1>10. filp' = [filp EXCEPT !.pos = @ + Len(names), !.got = @ \o names, !.res = res]
  BY <1>2, <1>3, <1>9 DEF Getdents
<1>11. /\ filp' \in FilpType /\ filp'.open /\ filp'.from = from
       /\ filp'.pos = pos + Len(names) /\ filp'.got = filp.got \o names /\ filp'.res = res
  <2>1. PICK got \in Seq(Name) : got = filp.got \o names
    BY <1>6, <1>7, ConcatProperties
  <2>2. PICK end \in Nat : end = pos + Len(names)
    BY <1>6
  <2>3. filp' = [filp EXCEPT !.pos = end, !.got = got, !.res = res]
    BY <1>2, <1>10, <2>1, <2>2
  <2>4. res \in {"none", "names", "EINVAL", "end"} /\ got \in Seq(Names \cup {".", ".."})
    BY <1>9, <2>1 DEF Name
  <2>5. filp' \in FilpType
    BY <1>7, <2>3, <2>4 DEF FilpType
  <2>6. /\ filp'.open = filp.open /\ filp'.from = filp.from
        /\ filp'.pos = end /\ filp'.got = got /\ filp'.res = res
    BY <1>7, <2>3 DEF FilpType
  <2> QED
    BY <1>1, <1>7, <2>1, <2>2, <2>5, <2>6
<1>12. CASE names = << >>
  <2>1. filp'.pos = pos /\ filp'.got = filp.got
    BY <1>2, <1>7, <1>11, <1>12, ConcatEmptySeq, EmptySeq
  <2>2. PassInv' /\ ListingExact'
    BY <1>4, <1>7, <1>11, <2>1 DEF PassInv, ListingExact
  <2>3. CASE pos = 1
    BY <1>2, <1>9, <1>11, <1>12, <2>1, <2>2, <2>3 DEF ListingStep
  <2>4. CASE pos # 1
    <3>1. pos >= size
      BY <1>6, <1>12, <2>4
    <3>2. filp.got = SubSeq(Listing, from + 1, size)
      <4>1. CASE pos = size
        BY <1>7, <4>1
      <4>2. CASE pos > size
        <5>1. pos = from /\ pos < from + 1 /\ size < from + 1
          BY <1>7, <4>2
        <5> QED
          BY <1>7, <5>1, SubSeqEmpty
      <4> QED
        BY <3>1, <4>1, <4>2
    <3>3. res = "end"
      BY <1>9, <1>12, <2>4
    <3> QED
      BY <1>4, <1>11, <2>1, <2>2, <3>2, <3>3 DEF ListingStep
  <2> QED
    BY <2>3, <2>4
<1>13. CASE names # << >>
  <2>1. pos + Len(names) <= size
    BY <1>6, <1>13
  <2>2. /\ from + 1 \in 1 .. Len(Listing) + 1
        /\ pos \in (from + 1) - 1 .. Len(Listing)
        /\ pos + Len(names) \in pos .. Len(Listing)
    BY <1>4, <1>6, <1>7, <2>1
  <2>3. filp.got \o names = SubSeq(Listing, from + 1, pos + Len(names))
    BY <1>6, <1>7, <1>8, <2>2, ConcatAdjacentSubSeq
  <2>4. PassInv' /\ ListingExact'
    BY <1>4, <1>6, <1>7, <1>11, <2>1, <2>3 DEF PassInv, ListingExact
  <2>5. res = "names"
    BY <1>9, <1>13
  <2> QED
    BY <1>11, <2>4, <2>5 DEF ListingStep
<1> QED
  BY <1>12, <1>13

(* The calls on the open directory. *)
LEMMA MountedReaddir ==
  ASSUME MountedInv, Mounted, ReaddirStep, UNCHANGED <<vars, mountVars>>
  PROVE  MountedInv' /\ ListingStep
<1>1. TypeInv /\ FsInv /\ MountLifetime /\ PassInv /\ ListingExact
  BY DEF MountedInv
<1>2. Dir' = Dir /\ Listing' = Listing
  BY DEF vars, Dir, root, Listing, EntryNames
<1>3. TypeInv'
  BY <1>1, TypeInvNext
<1>4. FsInv'
  BY <1>1, FsInvStep
<1>5. MountLifetime'
  BY <1>1 DEF MountLifetime, Mounted, mountVars, vars
<1>6. ASSUME NEW off \in Nat, filp' = OpenedAt(off)
      PROVE  PassInv' /\ ListingExact' /\ ListingStep
  <2>1. SubSeq(Listing, off + 1, off) = << >>
    BY SubSeqEmpty
  <2>2. << >> \in Seq(Names \cup {".", ".."})
    BY EmptySeq
  <2>3. /\ filp' \in FilpType /\ filp'.from = off /\ filp'.pos = off
        /\ filp'.got = << >> /\ filp'.res = "none"
    BY <1>6, <2>2 DEF OpenedAt, FilpType
  <2> QED
    BY <1>2, <2>1, <2>3 DEF PassInv, ListingExact, ListingStep
<1>7. ASSUME Opendir PROVE PassInv' /\ ListingExact' /\ ListingStep
  BY <1>6, <1>7 DEF Opendir
<1>8. ASSUME NEW off \in Seeks, Lseek(off) PROVE PassInv' /\ ListingExact' /\ ListingStep
  BY <1>6, <1>8, ReaddirAssumption DEF Lseek
<1>9. ASSUME Closedir PROVE PassInv' /\ ListingExact' /\ ListingStep
  <2>1. filp' = Closed
    BY <1>9 DEF Closedir
  <2>2. filp' \in FilpType /\ ~filp'.open /\ filp'.res = "none"
    BY <2>1, EmptySeq DEF Closed, FilpType
  <2> QED
    BY <2>2 DEF PassInv, ListingExact, ListingStep
<1>10. ASSUME NEW room \in Rooms, Getdents(room) PROVE PassInv' /\ ListingExact' /\ ListingStep
  BY <1>1, <1>2, <1>10, GetdentsStep
<1>11. PassInv' /\ ListingExact' /\ ListingStep
  BY <1>7, <1>8, <1>9, <1>10 DEF ReaddirStep
<1> QED
  BY <1>3, <1>4, <1>5, <1>11 DEF MountedInv

(* Loading, mounting and their opposites. *)
LEMMA MountedMount ==
  ASSUME MountedInv, ~filp.open, MountStep, UNCHANGED filp
  PROVE  MountedInv'
<1>1. TypeInv /\ MountLifetime /\ PassInv
  BY DEF MountedInv
<1>2. PassInv' /\ ListingExact'
  BY <1>1 DEF PassInv, ListingExact
<1>3. CASE FillDone
  <2>1. TypeInv' /\ FsInv'
    BY <1>1, <1>3, FillsEmpty, EmptyNext
  <2>2. MountLifetime'
    BY <1>1, <1>3 DEF FillDone, MountLifetime, Mounted
  <2> QED
    BY <1>2, <2>1, <2>2 DEF MountedInv
<1>4. CASE ~FillDone
  <2>1. UNCHANGED vars
    BY <1>4 DEF MountStep, osfs_init, osfs_exit, osfs_mount, FillNoRegion, FillNoInode, FillNoRoot,
                Umount, osfs_kill_superblock
  <2>2. TypeInv'
    BY <1>1, <2>1, TypeInvNext
  <2>3. Mounted => FsInv'
    BY <1>1, <2>1, FsInvStep DEF MountedInv
  <2>4. CASE osfs_init \/ osfs_exit
    <3>1. MountLifetime' /\ (Mounted' <=> Mounted)
      BY <1>1, <2>4 DEF osfs_init, osfs_exit, MountLifetime, Mounted, Pinned, vars
    <3> QED
      BY <1>2, <2>2, <2>3, <3>1 DEF MountedInv
  <2>5. CASE osfs_mount
    <3>1. MountLifetime' /\ ~Mounted'
      BY <1>1, <2>5 DEF osfs_mount, MountLifetime, Mounted, vars
    <3> QED
      BY <1>2, <2>2, <3>1 DEF MountedInv
  <2>6. CASE FillNoRegion \/ FillNoInode \/ FillNoRoot \/ Umount
    <3>1. MountLifetime' /\ ~Mounted'
      BY <1>1, <2>6 DEF FillNoRegion, FillNoInode, FillNoRoot, Umount, osfs_kill_superblock, Freed,
                        MountLifetime, Mounted, vars
    <3> QED
      BY <1>2, <2>2, <3>1 DEF MountedInv
  <2> QED
    BY <1>4, <2>4, <2>5, <2>6 DEF MountStep
<1> QED
  BY <1>3, <1>4

LEMMA MountedInvStep == MountedInv /\ [MountedNext]_allVars => MountedInv'
<1> SUFFICES ASSUME MountedInv, [MountedNext]_allVars PROVE MountedInv'
  OBVIOUS
<1>1. CASE Mounted /\ Next /\ UNCHANGED <<mountVars, filp>>
  BY <1>1, MountedHandler
<1>2. CASE Mounted /\ ReaddirStep /\ UNCHANGED <<vars, mountVars>>
  BY <1>2, MountedReaddir
<1>3. CASE ~filp.open /\ MountStep /\ UNCHANGED filp
  BY <1>3, MountedMount
<1>4. CASE UNCHANGED allVars
  <2>1. TypeInv /\ (Mounted => FsInv) /\ MountLifetime /\ PassInv /\ ListingExact
    BY DEF MountedInv
  <2>2. UNCHANGED <<vars, module, sb, s_fs_info, region, filp>>
    BY <1>4 DEF allVars, mountVars
  <2>3. TypeInv'
    BY <2>1, <2>2, TypeInvNext
  <2>4. Mounted' => FsInv'
    BY <2>1, <2>2, FsInvStep DEF Mounted
  <2>5. Dir' = Dir
    BY <2>2 DEF vars, Dir, root
  <2>6. MountLifetime'
    BY <2>1, <2>2 DEF MountLifetime, Mounted, vars
  <2>7. PassInv' /\ ListingExact'
    BY <2>1, <2>2, <2>5 DEF PassInv, ListingExact, Listing, EntryNames
  <2> QED
    BY <2>3, <2>4, <2>6, <2>7 DEF MountedInv
<1> QED
  BY <1>1, <1>2, <1>3, <1>4 DEF MountedNext

(* MountedInv holds of every reachable state, through every mount, failed  *)
(* mount, umount and listing.                                              *)
THEOREM MountedCorrect == MountedSpec => []MountedInv
BY MountedInvInit, MountedInvStep, PTL DEF MountedSpec, allVars

(* Handlers run only on a live region in a loaded module, and a region is  *)
(* never left behind.                                                      *)
THEOREM MountLifetimeHolds == MountedSpec => []MountLifetime
<1>1. MountedInv => MountLifetime
  BY DEF MountedInv
<1> QED
  BY <1>1, MountedCorrect, PTL

(* However often the file system was mounted before, its blocks, inode     *)
(* numbers and dentries are accounted for.                                 *)
THEOREM MountsAreConsistent == MountedSpec => []MountedConsistent
<1>1. MountedInv => MountedConsistent
  BY DEF MountedInv, MountedConsistent, FsInv
<1> QED
  BY <1>1, MountedCorrect, PTL

(* A listing returns each name once, at its place, whatever is created     *)
(* between two getdents.                                                   *)
THEOREM ListingIsExact == MountedSpec => []ListingExact
<1>1. MountedInv => ListingExact
  BY DEF MountedInv
<1> QED
  BY <1>1, MountedCorrect, PTL

(* A listing that reports the end has returned every name from where it    *)
(* began; only position 1 makes osfs_iterate fail.                         *)
THEOREM ListingIsComplete == MountedSpec => ListingComplete
<1>1. MountedInv /\ [MountedNext]_allVars => [filp' # filp => ListingStep]_allVars
  <2> SUFFICES ASSUME MountedInv, MountedNext, filp' # filp PROVE ListingStep
    OBVIOUS
  <2>1. Mounted /\ ReaddirStep /\ UNCHANGED <<vars, mountVars>>
    BY DEF MountedNext
  <2> QED
    BY <2>1, MountedReaddir
<1> QED
  BY <1>1, MountedCorrect, PTL DEF MountedSpec, ListingComplete, allVars
=============================================================================
