--------------------------- MODULE OsfsRefinement ---------------------------
(***************************************************************************)
(* osfs keeps the promise of OsfsFiles: the bytes of a file, found through *)
(* its extent table, change only by writes to that file.                   *)
(***************************************************************************)
EXTENDS OsfsProps

Capacity == BLOCK_SIZE * DATA_BLOCK_COUNT

(* The byte at offset o of a file: 0 while no block is mapped there. *)
ByteAt(f, o) ==
  LET hits == osfs_extent_lookup_block(Table(f), o \div BLOCK_SIZE) IN
  IF hits = {} THEN 0
  ELSE data_blocks[CHOOSE b \in hits : TRUE].bytes[o % BLOCK_SIZE]

FileImage(n) ==
  LET f == dcache[n] IN
  IF f = 0 THEN [exists |-> FALSE]
  ELSE [exists |-> TRUE, size |-> inode_table[f].i_size,
        bytes |-> [o \in 0 .. (Capacity - 1) |-> ByteAt(f, o)]]

FileImages == [n \in Names |-> FileImage(n)]

(* The name of a file: its dentry is pinned from its creation on. *)
NameOf(f) == CHOOSE n \in Names : dcache[n] = f

(* What the write of a call has left to store, and where. *)
WriteOf(c) ==
  IF c.pc \in {"map", "copy"}
  THEN [name |-> NameOf(c.ino), at |-> c.pos, left |-> c.rem, val |-> c.val]
  ELSE [left |-> 0]

Writes == [p \in Procs |-> WriteOf(call[p])]

Files == INSTANCE OsfsFiles WITH BlockSize <- BLOCK_SIZE, file <- FileImages,
                                 writing <- Writes

(***************************************************************************)
(* ImageInv: what the next property rests on, besides FsInv.  A block that *)
(* is not in use holds zeroes, for osfs_free_data_block gives back only    *)
(* blocks that were never written (osfs_extent_append_block zeroes none).  *)
(* A write in progress has bytes left, and those lie below the 2^32        *)
(* blocks that osfs_extent_ensure_block can number.                        *)
(***************************************************************************)
BytesFresh == \A b \in FreeBlocks : data_blocks[b].bytes = ZeroBytes
WriteFits(c) ==
  c.pc \in {"map", "copy"} =>
    c.val \in Vals /\ c.rem > 0 /\ c.pos + c.rem <= BLOCK_SIZE * U32
ImageInv == BytesFresh /\ \A p \in Procs : WriteFits(call[p])

(* ImplementsFiles: every behaviour of osfs is one of OsfsFiles.  A write  *)
(* stores bytes in the file it was called for and at its own offsets,      *)
(* whatever other calls do between two of its blocks; a block that joins a *)
(* file brings no old bytes with it, formatting a table and growing an     *)
(* extent lose nothing, a write that ends early leaves the size alone, and *)
(* no step of a read or a create stores anything in a file.  It holds when *)
(* no write has length 0 (osfs_extent_do_write, osfs_create).              *)
ImplementsFiles == Files!Spec
=============================================================================
