------------------------------ MODULE OsfsMount ------------------------------
(***************************************************************************)
(* The life of osfs around the handlers of module Osfs: the kernel module  *)
(* is loaded and unloaded (osfs_init, osfs_exit), mount_nodev has          *)
(* osfs_fill_super fill a superblock, and the last umount or a failed      *)
(* mount has osfs_kill_superblock take it down.                            *)
(*                                                                         *)
(* The variables of Osfs are the contents of the region that vmalloc       *)
(* returns; vmalloc does not clear it, so a new mount may find what the    *)
(* last one left.  There is one superblock at a time: two of them would    *)
(* share the module and nothing else.  osfs_kill_superblock evicts neither *)
(* dentries nor inodes; nobody can reach them afterwards.                  *)
(***************************************************************************)
EXTENDS OsfsProps

CONSTANT MaxMounts  \* mounts that are tried, at most

VARIABLES
  module,     \* whether the module is loaded and its file system registered
  sb,         \* the superblock: "none", "filling" or "mounted"
  s_fs_info,  \* whether sb->s_fs_info points to the region
  region,     \* "none", "live", "freed", "freed twice"
  root_inode, \* likewise, the VFS inode of the root directory
  mounts      \* mounts tried so far

mountVars == <<module, sb, s_fs_info, region, root_inode, mounts>>

Mounted == sb = "mounted"

MountInit ==
  /\ Init
  /\ module = FALSE
  /\ sb = "none" /\ s_fs_info = FALSE
  /\ region = "none" /\ root_inode = "none"
  /\ mounts = 0

-----------------------------------------------------------------------------
(* osfs_init: register_filesystem. *)
osfs_init ==
  /\ ~module /\ module' = TRUE
  /\ UNCHANGED <<vars, sb, s_fs_info, region, root_inode, mounts>>

(* Mutant: osfs_type has no owner. *)
Pinned_NoOwner == FALSE

(* osfs_type.owner: a superblock, being filled or mounted, pins the module. *)
Pinned == sb # "none"

(* osfs_exit: unregister_filesystem. *)
osfs_exit ==
  /\ module /\ ~Pinned
  /\ module' = FALSE
  /\ UNCHANGED <<vars, sb, s_fs_info, region, root_inode, mounts>>

(* osfs_mount: mount_nodev allocates a superblock and calls osfs_fill_super. *)
osfs_mount ==
  /\ module /\ sb = "none" /\ mounts < MaxMounts
  /\ sb' = "filling" /\ mounts' = mounts + 1
  /\ s_fs_info' = FALSE /\ region' = "none" /\ root_inode' = "none"
  /\ UNCHANGED <<vars, module>>

(* A region after one more vfree, an inode after one more iput. *)
Freed(r) == IF r = "live" THEN "freed" ELSE "freed twice"

(* osfs_kill_superblock, which also ends a failed mount: it frees the      *)
(* region if s_fs_info, as the mount left it, is set.                      *)
osfs_kill_superblock(info, r) ==
  /\ sb' = "none"
  /\ s_fs_info' = FALSE
  /\ region' = IF info THEN Freed(r) ELSE r
  /\ UNCHANGED <<vars, module, mounts>>

(* vmalloc failed: there is nothing to free. *)
FillNoRegion ==
  /\ sb = "filling"
  /\ osfs_kill_superblock(FALSE, "none") /\ UNCHANGED root_inode

(* new_inode() failed: osfs_fill_super frees the region and leaves         *)
(* s_fs_info, so that osfs_kill_superblock frees it again.                 *)
FillNoInode ==
  /\ sb = "filling"
  /\ osfs_kill_superblock(TRUE, Freed("live")) /\ UNCHANGED root_inode

(* d_make_root() failed and has put the inode: osfs_fill_super puts it     *)
(* again, and the region goes the same way.                                *)
FillNoRoot ==
  /\ sb = "filling"
  /\ root_inode' = Freed(Freed("live"))
  /\ osfs_kill_superblock(TRUE, Freed("live"))

(* Mutant: only the bitmaps are cleared. *)
Memset_BitmapsOnly ==
  /\ inode_bitmap' = {ROOT_INODE} /\ block_bitmap' = {}
  /\ inode_table' = [inode_table EXCEPT ![ROOT_INODE] = OsfsInode("dir", 0, 0, 0)]
  /\ UNCHANGED data_blocks

(* memset of the region, and the inode of the root directory. *)
Memset ==
  /\ inode_bitmap' = {ROOT_INODE} /\ block_bitmap' = {}
  /\ inode_table' = [i \in Inodes |-> IF i = ROOT_INODE THEN OsfsInode("dir", 0, 0, 0)
                                                       ELSE OsfsInode("none", 0, 0, 0)]
  /\ data_blocks' = [b \in Blocks |-> RawBlock(ZeroBytes)]

(* osfs_fill_super succeeds: a cleared region, and new VFS inodes. *)
FillDone ==
  /\ sb = "filling"
  /\ sb' = "mounted" /\ s_fs_info' = TRUE /\ region' = "live" /\ root_inode' = "live"
  /\ Memset
  /\ nr_free_inodes' = INODE_COUNT - 1 /\ nr_free_blocks' = DATA_BLOCK_COUNT
  /\ vinode' = [v \in VfsInodes |-> VfsInode(0, 0)]
  /\ dcache' = [n \in Names |-> 0]
  /\ UNCHANGED <<call, module, mounts>>
  /\ NoReturn

(* umount: no file is open and no call is in progress. *)
Umount ==
  /\ Mounted
  /\ \A p \in Procs : call[p].pc = "idle"
  /\ osfs_kill_superblock(s_fs_info, region) /\ UNCHANGED root_inode

MountStep ==
  \/ osfs_init \/ osfs_exit \/ osfs_mount
  \/ FillNoRegion \/ FillNoInode \/ FillNoRoot \/ FillDone
  \/ Umount

-----------------------------------------------------------------------------
(***************************************************************************)
(* MountLifetime: handlers run only on a mounted superblock whose region   *)
(* is live and in a module that is loaded, and once there is no superblock *)
(* the region has been freed, on the error paths of osfs_fill_super too.   *)
(***************************************************************************)
MountLifetime ==
  /\ sb # "none" => module
  /\ Mounted => s_fs_info /\ region = "live"
  /\ sb = "none" => region # "live"
  /\ \A p \in Procs : call[p].pc # "idle" => Mounted

(***************************************************************************)
(* MountedConsistent: nothing of an earlier mount comes back: blocks,      *)
(* inode numbers and dentries are accounted for from the first call on,    *)
(* although the region may hold the tables of the last mount when vmalloc  *)
(* returns it (osfs_fill_super).                                           *)
(***************************************************************************)
MountedConsistent ==
  Mounted => BlocksAccounted /\ InodesAccounted /\ DentriesPinned
=============================================================================
