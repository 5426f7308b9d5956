# TLA+ models of the NCKU operating-system labs

The repository holds four labs in C: a memory-based file system for the kernel
(`lab4`), two mailboxes between a sender and a receiver (`lab1`), threads that
count and multiply under locks and two kernel modules with a `/proc` file
(`lab3`), and a shell (`lab2`).  They are modelled here and checked with TLC; the
safety properties of osfs, of both mailboxes, of the counters, of the `/proc`
file and of the shell's descriptors and history are proved with TLAPS for every
size and every input.

## Inventory

| Part | State | Operations | What is hard | What makes it correct |
|---|---|---|---|---|
| osfs, `lab4` | superblock counters and bitmaps, inode table, data blocks, VFS inodes, dentries, open directory, the region | `osfs_create`, `osfs_write`, `osfs_read`, `osfs_lookup`, `osfs_iterate`, mount and unmount | handlers sleep in `new_inode` and in the user copies; nothing locks tables and bitmaps; six counters and copies of counters; error paths that undo; files with two VFS inodes | no block with two owners, counters agree with bitmaps, files keep their bytes, listings miss nothing |
| mailbox in shared memory, `lab1` | segment with `ready`, three semaphores, one slot; each process's `flag`, `created` | start, send, receive, cleanup | who creates, initialises and removes the segment; failures before the flag is set; programs started again | messages arrive once, whole, in order; the receiver removes the segment |
| mailbox in a message queue, `lab1` | System V queue | the same | polling on full and empty; queue removed under the peer | the same |
| counters, `lab3/1` | counter, lock word | `thread`, `main` | lost updates, spinning | main writes the total |
| matrices, `lab3/2` | three matrices, lock | `thread`, `thread1`, `thread2`, `main` | two threads add to the same entries | the product is written |
| `/proc/Mythread_info`, `lab3/3` | one kernel buffer, the entry in `/proc` | `Myread`, `Mywrite`, module load and unload; the programs 3_1 and 3_2 | unlocked sharing; copy, then clear; lengths read before they are used; an entry that outlives its module | readers get what was written for them, the buffer stays a string, programs end |
| shell, `lab2` | history ring, descriptors, a child, stdio's buffer, pipes, files | `read_line`, `split_line`, builtins, `redirection`, `spawn_proc`, `fork_cmd_node` | stages run one after the other over a bounded pipe; stdio buffers against `dup2`; failures on the way | output goes where it was sent; the shell is clean at its next prompt |

Interaction: the labs share no code.  osfs is called by the VFS (callbacks in
four operation tables) and calls it back; the two programs of `lab1` share a
segment or a queue and nothing else; the threads of `lab3/1` share two words;
the programs of `lab3/3` meet in the buffer of whichever module is loaded; the
shell and its children share descriptors, pipes and files.

## Modules

| Module | Models |
|---|---|
| `OsfsExtent` | the extent table of a file: lookup, append with merge, total (pure operators) |
| `Osfs` | the mounted file system and its handlers |
| `OsfsProps` | type invariant, invariants, action property and liveness of `Osfs`, and two statements of the repository's comments |
| `OsfsMount` | extends them: the kernel module, mounting and unmounting, the region and its error paths |
| `OsfsReaddir` | extends `OsfsMount`: an open directory and `osfs_iterate`; the whole of osfs |
| `OsfsFiles` | what osfs promises: independent files with a size and bytes, and writes bound to the file, position, length and byte they were called with |
| `OsfsRefinement` | `Osfs` implements `OsfsFiles` (mapping `FileImages` and `Writes`) |
| `OsfsProofs` | lemmas on extent tables; `TypeCorrect` |
| `OsfsDiskProofs` | the inductive invariant `FsInv`, the properties that follow from it, `MappingStable`, and `SizesInv` |
| `OsfsServiceProofs` | what osfs gives its users: `ImplementsFiles`, mounts and listings |
| `IpcInput` | what the sender makes of its input file |
| `IpcMailbox` | what a mailbox promises: a bounded FIFO that is not read past the exit message |
| `IpcShm`, `IpcShmProps` | `sender.c` and `receiver.c` on shared memory, and their properties |
| `IpcMsg` | `sender.c` and `receiver.c` on a message queue, and their properties |
| `CounterMain` | what `1_1.c` and `1_2.c` share: `main` and the load and store of `a = a + 1` |
| `SpinCounter`, `XchgCounter` | the counter under `pthread_spin_lock`, and under `xchg` |
| `CounterProofs` | theorems about them |
| `IpcShmProofs` | the segments: every safety property of `IpcShmProps` |
| `IpcMsgProofs` | every queue is a mailbox, and none is left |
| `MatMul` | the matrix programs of `lab3/2`, and the threads and mains of `lab3/3` |
| `ProcInfo` | extends `MatMul`: both kernel modules and what 3_1 and 3_2 do with `/proc` |
| `ProcInfoProofs` | the safety properties of the `/proc` file, and that what is printed is the product |
| `ShellLine` | a command line: splitting, the text of the builtins, and a function that runs a line stage after stage |
| `Shell` | the shell process, its child and the pipes, step by step |
| `ShellProofs` | its history, its descriptors and what its lines come to |
| `MCOsfs`, `MCOsfsMounted`, `MCIpcShm`, `MCIpcMsg`, `MCProcInfo`, `MCShell` | model values and inputs for TLC |

### osfs

`inode_bitmap`, `block_bitmap`, `nr_free_inodes`, `nr_free_blocks`,
`inode_table` and `data_blocks` are the fields of `osfs_sb_info`; `vinode` holds
the `i_size` and `i_blocks` that the VFS keeps in its own inode; `dcache` says
which names have an instantiated dentry; `call` is the stack frame of the handler
a process is in, and `ret` what the last handler returned.

A handler is cut into steps where it may sleep: in `new_inode()` and in
`copy_from_user`/`copy_to_user`.  It is cut between its entry and each block
too, which only adds schedules.  `osfs_create` is `CreateNameTooLong`,
`CreateNoSpace` or `CreateStart`, and after the sleep `CreateNoMemory`,
`CreateNoBlock`, `CreateRollback` or `CreateDone`.  `osfs_write` is `WriteStart`
and then, for each block, `WriteMapped`, `WriteHole`, `WriteNoSpace` or
`WriteAppend`, followed by `WriteCopy` or `WriteFault`.  `osfs_read` is
`ReadShort` or `ReadStart`, and `ReadBlock`.  A block holds user bytes, an extent
table (its magic is set) or directory entries.

What is abstracted: names, bytes and times; the directory's `i_size` counts
entries; `copy_to_user` has no observable data.  `BLOCK_SIZE` is the kernel's
1024 and a directory entry 260 bytes, so the code's `MAX_DIR_ENTRIES` is 3.
The branches at `dir.c:321-332` and the one-block code at `file.c:323-340` and
`file.c:374-419` are dead: the first because block 0 goes to the root directory
(`FilesDisjoint`), the others because `-EOPNOTSUPP` never comes
(`NoInternalError`).

*Lookup.*  `osfs_create` instantiates the dentry that `osfs_lookup` returned
unhashed, and pins it (`dir.c:375`).  The next open of the name comes to
`osfs_lookup` again, and `osfs_iget` builds a second VFS inode for the same
`osfs_inode`.  So `vinode` has two inodes for each file, named by the dentry they were
reached through (`DentryKinds`); the second may be evicted when the file is not open
(`Evict`) and is then read anew (`Lookup`).  Both share the extent table;
each has a size and a block count of its own.

*Mount.*  `OsfsMount` adds the module (`osfs_init`, `osfs_exit`), one superblock
and its region.  `FillNoRegion` (no memory for the region), `FillNoInode` (`new_inode`
fails) and `FillNoRoot` (`d_make_root` fails) are the error returns of
`osfs_fill_super`, each followed by `osfs_kill_superblock` as `mount_nodev` does
it; `FillDone` clears the region, which may hold what the last mount left.  In the last
two the region is freed twice, because `s_fs_info` still points to it
(`super.c:86`, `super.c:123`), and in `FillNoRoot` the root's inode is put twice, because
`d_make_root` has put it (`super.c:122`); the model shows both as `"freed twice"` and
goes on.  The branch at `super.c:101` is dead: the root's number is in the table.
`osfs_kill_superblock` does not call `generic_shutdown_super`: dentries
and VFS inodes are leaked, and nobody reaches them.

*Listing.*  `Getdents` is one call of `osfs_iterate` with room for some names.  It is
one step, since the VFS holds the directory's lock shared and creates take it
exclusively.  At position 1, which `lseek` or a buffer with room for "." alone
leads to, the code reads the entry before the first one: 260 bytes before a
data block, in inode 16 of the table, where the name is empty; `dir_emit` refuses
it with `-EINVAL`.

The VFS is modelled as osfs relies on it: the directory's `i_rwsem` is held
during a create, a name is created only if its dentry is negative, reads and
writes of one file may overlap (two descriptors), and `open(O_TRUNC)` runs
`simple_setattr`, because osfs has no `setattr` (`Truncate`).

### lab1

`key` is what `shmget`/`msgget` find, `seg`/`queue` the contents of every
segment or queue ever made, `addr` and `shmid` each process's attachment; `sent`
and `got` record what was stored in and taken from each.  A step is one system
call, semaphore operation or access to the shared fields, so a peer may run
between `memset`, `sem_init` and `ready = 1`, between `buffer` and `length`, and
between `mutex` and `full`.  `ShmgetFails` and `MsggetFails` are the exits
after a failed `ftok`, `shmget` or `msgget`; `Abandon` is the `goto cleanup` before
`mailbox.flag` is set: nothing is cleaned up.  A receiver that leaves that way never
removes its sender's queue.  `sem_destroy` does nothing to the
words on Linux.  `is_exit` reaches `mType` only, which nobody reads.  `ready` is
not `volatile`; the loops call `usleep`, which makes the compiler load it
again, and x86 keeps the order of the stores before it.

### lab3/1

`a = a + 1` is `Load` and `Store`; `CounterMain` is common to both programs.  In
`XchgCounter`, `eax` and the flags are private, so `mov` and `xchg` are one step,
and `sub` and `js` are one step.  `SpinCounter` is what `XchgCounter` is
shown to implement, and 1_1.c itself.

### lab3/2 and lab3/3

`MatMul` has the four matrix programs: `prog` says which one each process runs,
`pc[p][0]` is its main, `pc[p][1]` and `pc[p][2]` its threads, and `turn` the
turns of the three loops made so far, which `RowAt`, `ColAt` and `TermAt` take
apart again.  2_2 locks around each term, so its addition is `Lock`, `Load`,
`Store`, `Unlock`; the others work on entries of their own and add in one step.  2_1
writes each entry to its file as it has it; `ThreadPrint` writes them together, for no
other thread adds to them or prints.

`ProcInfo` has `kernel` (the module that is loaded), `entry` (whose entry `/proc`
has), the module's `buf`, and each thread's file offset and handler locals in `loc`.
`Myread` and `Mywrite` are cut at each access to `buf`: the length, the copy, the
terminator and the info line, the clearing; in `Myread` of 3_1 each line and the NUL
`sprintf` puts behind it, where the line of another process may be.  A text is so many equal
bytes.  `remove_proc_entry` and `proc_create` are operators of their own: the second
fails when the name is there or memory is out, at which 3_1's module is loaded all
the same and 3_2's is not.  `last` records which module was asked for last.  A
program of 3_2 that has no file writes its result and is killed by `fclose(NULL)`
(`3_2.c:209`, `Finish`).  The wrong module, a stale entry (opening it runs into freed memory and
kills the program), no entry, and two programs at once are all in the model.
Assumed: modules are loaded and unloaded while no program runs, as the make targets
do it; `malloc` returns fresh pages, which are zero, since nothing was freed
(`z` is never cleared, `2_2.c:101`); stdio asks for 1024 bytes
at a time, so one `Myread` returns the whole buffer.

### lab2

`ShellLine` is pure: `split_line` goes over the words, `RunLine` says what a
line comes to.  `Shell` is the process: `history` and `history_count`, descriptors 0
and 1 in `std`, the others in `fds`, the child it waits for, `pipes`, `files`,
`cwd`, and `pending`, the text in stdout's buffer.  A stage is `spawn_proc`, the
child's `redirection` and `execvp`, its reads and writes item by item, and
`waitpid` with the closing of the pipe.  The programs a child execs are outside:
`cat`, and two that write a text of two and of three items.  As the child
inherits the read end of the pipe it writes to, a write to a full pipe waits
and is not cut off by SIGPIPE.
Texts are sequences of words and newlines.  `stdout` writes whole lines at once and
the rest when `fgets` asks the terminal: what `echo -n` leaves appears on the
terminal although the line said `> f`.

## Runs

| Run | Bounds | Checks |
|---|---|---|
| `two` | 2 processes, 2 files, 7 blocks of 1 byte, 2 extents, 3 usable inodes | `FilesDisjoint`, `ExtentsDisjoint`, `BlocksAccounted`, `BlockCountsRight`, `HeldBlockValid`, `NoInternalError`, `MappingStable` |
| `one` | 2 processes, 3 names (one too long), 1 entry, 1 extent, 4 blocks of 2 bytes, both kinds of VFS inode, an offset of 2^32 blocks and a byte (`U32` = 16), from which a write wraps its block number and its size | `TypeInv`, `FsInv`, `InodesAccounted`, `DentriesPinned`, `SizeMapped` |
| `files` | 2 processes, 2 files, 5 blocks of 2 bytes, writes and reads that start inside a block and end in the next | `ImplementsFiles`, `CallsReturn` |
| `mounted` | 2 mounts, 1 process, 2 files, 4 blocks of 1 byte, both kinds of VFS inode, buffers for 1 to 3 names, `lseek` to 0, 1, 3, 5 | `MountLifetime`, `MountedConsistent`, `ListingExact`, `ListingComplete` |
| `xchg` | 5 rounds | `PrintsTotal`, `ImplementsSpinLock`, `Finishes` |
| `proc` | each program alone, and two of 3_1 or two of 3_2 with one thread; matrices of 2 by 2 and 2 by 1; a buffer of 6, greeting and info line of 2 bytes | `PrintsProduct`, `BufTerminated`, `HellosRead`, `ListsThreads`, `EntryServes`, `ProgramEnds` |
| `shell` | 3 lines of 23 kinds, a history of 2, pipes of 2 items, 3 file names of which one cannot be written, 2 directories | `RecordShowsLast`, `PromptClean`, `OutputsRight`, `LineEnds` |
| `shm` | two launches of each program, failures of `ftok`/`shmget`, `shmat`, `sem_init` and `fopen`, 3 segments; inputs with no line, an empty line, equal lines, lines after `EOF`, the text of the exit message | `TypeOK`, `TokensConserved`, `ReceiverCleansUp`, `NothingLeft`, `ImplementsMailbox`, `AllDelivered` |
| `msg` | the same inputs and launches over queues of 2 messages, failures of `ftok`/`msgget` and `fopen` | `NothingLeft`, `ImplementsMailbox`, `AllDelivered` |

Why these bounds are enough to matter: 7 blocks are the root's, two tables and
four data blocks, so that two files interleave their appends, break each
other's runs, need a third extent in a table of two and fill the disk.
One directory entry with two legal names makes the second create roll back
and inode numbers leak until none is left.  Two launches of each program are what
it takes to attach a segment that is about to be removed.  Two mounts are what it
takes to find an old region.  A buffer of 6 holds one greeting and its info
line and breaks the second; two rows and two terms give each thread one, so that a
wrong border loses or doubles one.  Three lines over a history of 2 wrap the ring; a
pipe of 2 fits one program's text and not the other's.
Two writers are
enough for stale state: every race of the code is between one sleeping handler
and what others did meanwhile.  Symmetry is used in safety runs only.
`CHECK_DEADLOCK FALSE` is given because the systems may stop: no name is left to
create, both programs have ended, main has written its result.

Properties worth a remark:
- `HeldBlockValid` and `MappingStable` say that the block number a writer
  computed before `copy_from_user` slept is still right after it.
- `BlocksAccounted` says that no error path leaks a block, including the one of
  `osfs_create` and the block `osfs_extent_append_block` frees again.
  Inode numbers do leak after `-ENOMEM` and `-ENOSPC`; `InodesAccounted` says
  only that the counter follows the bitmap.  It counts inode 0, which is never
  handed out, as free: the counter is 1 when no inode is left (`super.c:64`).
- `ImplementsFiles` and `SizeMapped` are stated for writes of at least one byte;
  the run `eio` shows what a write of none does.
- `ImplementsFiles` maps the call of each process to a write that is bound to the
  call's file, position, length and byte (`Writes`), so a byte that lands in another
  file, at another offset or twice is not a step of `OsfsFiles`.  It does
  not say that a write comes to its end: the disk may fill and a copy may fault.
- `MountLifetime` allows `"freed twice"` of a failed mount, which is what the code does.
- `NothingLeft` of the queue is stated of runs in which the receiver got a queue: when
  its `ftok` or `msgget` fails nobody removes the queue of its sender.
- `AllDelivered` is stated of behaviours in which nothing is started twice and
  no call fails; the same run also contains the others.
- `ImplementsMailbox` says nothing of messages that are never taken:
  a line with the exit text ends the receiver, and what follows is lost.
- `MountedConsistent` is `BlocksAccounted`, `InodesAccounted` and `DentriesPinned`
  with both kinds of VFS inode and after a second mount.
- `HellosRead` is stated for one program of 3_2 that has the file to itself and while
  no thread has initialised the lock the other held: each thread function
  has a `lock_initialized` of its own (`3_2.c:80`, `3_2.c:132`), so the second
  initialisation may let both in.  `ProgramEnds` holds even then.
- `ListsThreads` says of programs that share the buffer only how much they get: lines
  and the NULs behind them overwrite each other.
- `EntryServes` starts at an insmod of 3_2's module and ends when 3_1's is tried
  again.  It depends on `remove_proc_entry`: without it `proc_create` finds the entry of
  3_1's module, the load fails and the next program opens a stale entry.
- `ProgramEnds` leaves out 3_2 with 3_1's module: its `Mywrite` returns 0
  and stdio writes again for ever.
- `OutputsRight` compares each finished line with `RunLine`, a function written from
  the stages' meaning: all a stage writes goes to its file, its pipe or the
  terminal.  The shell does not do that for `echo -n a b > f`: `dup2` restores the
  terminal while `a b` is in stdio's buffer, so `f` stays empty and the words
  appear before the next prompt, although `shell.c:15` says that the output is
  redirected.  Lines whose redirected builtin leaves such a rest (`LeavesRest`) are
  left out of the property; one of them is in the run, and without the exclusion
  TLC reports it.  It is stated at the prompt; the shell also ends, on `exit`,
  on a builtin whose redirection fails (`shell.c:29`) and on a line that
  is nothing but a redirection (`strcmp` of a null pointer).
- `LineEnds` excludes the lines in which a stage writes more than a pipe
  holds: `three | cat` of the run does wait for ever.

Seven hazards of the code have no property, because the code runs into them: offsets of
2^32 blocks, the double `vfree` and `iput` of a failed mount, lines after an exit
message in the input, 3_2 with 3_1's module, two initialisations of 3_2's lock, a full pipe
between two stages, and `echo -n` with a redirection.  The models contain these
behaviours; the properties exclude them, each by a named condition or as said above.
For two more nothing could be stated: osfs on several CPUs, and the unbounded wait for
`ready` in a segment that nobody will initialise.

### What the code does and its comments do not say

| Run | Comment | What TLC finds |
|---|---|---|
| `sizes` | `osfs.h:60` "File size in bytes" | after `open(O_TRUNC)` the VFS inode says 0 and `osfs_read` still returns the old bytes; a later write changes neither size unless it ends past the stale one (`file.c:281-284`); a file's two VFS inodes differ in size |
| `eio` | `file.c:304-306`, the results of `osfs_read` | a write of no bytes past the end grows the file over unmapped blocks; reading there is `-EIO` |
| `shm_leak` | `sender.c:311` "If something failed early and we created the segment, clean up semaphores/segment." | a failed `sem_init` leaves the segment, never ready |

### Fairness

`FairSpec` of `Osfs` is weak fairness of `Continue(p)`: a handler that sleeps in
the user copy or in the allocator is woken and runs on.  No process has to make a
call.  Weak fairness of `Run(r)` in `lab1` says that a started program is
scheduled; `sem_wait` and the poll loops are guards, so a program that waits is
not forced on.  Nobody has to launch a program: `AllDelivered` starts from both
having been launched.  In `lab3/1` each thread and main are weakly fair: the
scheduler runs every thread.  That is enough even though neither lock is fair: the
other thread has at most `ITERS` rounds, after which the lock stays free.  In
`ProcInfo` mains and threads are weakly fair and nobody has to load a module or
start a program; a spinning thread gets its lock because the other threads make
finitely many turns.  In `Shell` the shell and its child are weakly fair; the user
need not type.

## Proofs

| Theorem | States | Assumes |
|---|---|---|
| `OsfsProofs!TypeCorrect` | `Spec => []TypeInv` of osfs | sizes, inputs |
| `OsfsDiskProofs!FsCorrect` | `Spec => []FsInv` | sizes, inputs |
| ... `FilesAreDisjoint`, `ExtentsAreDisjoint`, `BlocksAreAccounted`, `BlockCountsAreRight`, `InodesAreAccounted`, `DentriesArePinned`, `HeldBlocksAreValid` | the invariant of that name | sizes, inputs |
| ... `MappingIsStable` | `Spec => MappingStable`, an action property | sizes, inputs |
| ... `SizesAreMapped`, `NoInternalErrors` | `[]SizeMapped`, `[]NoInternalError` | and `0 \notin Lens` |
| `OsfsServiceProofs!FilesAreImplemented` | `Spec => ImplementsFiles` | and `0 \notin Lens`, `Capacity < U32`, `CallsInRange` |
| ... `MountLifetimeHolds`, `MountsAreConsistent`, `ListingIsExact` | the invariant of that name, of `MountedSpec` | sizes, inputs, `ReaddirAssumption` |
| ... `ListingIsComplete` | `MountedSpec => ListingComplete`, an action property | the same |
| `IpcShmProofs!ShmTypeCorrect`, `TokensAreConserved`, `ReceiverAlwaysCleansUp`, `NothingIsLeft` | the invariant of that name of `lab1` on a segment | `IpcAssumption` |
| ... `SegmentIsMailbox` | `Spec => ImplementsMailbox` | `IpcAssumption` |
| `IpcMsgProofs!QueueIsMailbox`, `NothingIsLeft` | the same of `lab1` on queues | `MsgAssumption` |
| `ProcInfoProofs!EntryAlwaysServes`, `BufferStaysTerminated`, `HellosAreRead`, `ThreadsAreListed` | the invariant of that name of `lab3/3` | `MatricesAssumption`, `BufferAssumption` |
| ... `ProductIsPrinted` | `Spec => []PrintsProduct` of `lab3/2` and `lab3/3` | and `matrix_row_x > 0` |
| `CounterProofs!TotalPrinted` | `Spec => []PrintsTotal` of `1_1.c` | `ItersAssumption` |
| ... `XchgIsSpinLock`, `XchgTotalPrinted` | `Spec => ImplementsSpinLock` and `Spec => []PrintsTotal` of `1_2.c` | `ItersAssumption` |
| `ShellProofs!RecordAlways`, `PromptIsClean` | `[]RecordShowsLast`, `[]PromptClean` | `SizesAssumption` of `Shell` |
| ... `OutputsAreRight` | `Spec => []OutputsRight` of `lab2` | and `WordsAssumption` |

Sizes and inputs are `SizesAssumption` and `InputsAssumption` of `Osfs`: there
is a root inode and at least one block of at least one byte, the counters fit a
`uint32_t`, and calls have natural offsets and lengths.  All assumptions are about constants, and every
run's values satisfy them.  TLC checked each inductive invariant before it was proved.

*osfs, types.*  `TypeOK` alone is not inductive: the physical block a writer takes
from a table must be a block of the disk, and a call in progress must work on a
real inode.  `TypeInv` adds `RunsOnDisk` and `CallsTyped`.  The lemmas on tables
say that a lookup returns only blocks of the table, at each place its own
(`LookupInjective`), and that an append adds the new block at the end and nothing
else, whether it merges or not.

*osfs, the disk.*  `FsInv` is the conjunction of the invariants with three more
parts, each needed by a step.  `RootInv`: the root directory gets block 0 before
any file, so that `i_block = 0` of a file means "no block" and the test of
`dir.c` on it is right.  `TablesInv`: a block that is not a table in use holds no
extents; otherwise formatting a new table at `file.c:149` could find old ones.
`CallsInv`: what a handler knew before it slept is still so.  The inode number of
a create belongs to no file and its name is still free, which rests on the VFS
holding the directory's lock: at most one create is in progress.  A writer's count
of mapped blocks may lag behind the table, never run ahead of it; a second writer of
the file may have appended meanwhile, and `osfs_extent_ensure_block` looks up
again.  Most steps are *quiet*: they leave the directory, the tables, the
owners of blocks and the calls of others alone, and one lemma (`QuietKeeps`) carries
the invariant over them.  What is left are `GiveRootBlock`, `CreateDone`
(a file with a block of its own), `CreateRollback` and `CreateNoBlock`
(which undo), and `WriteAppend`, where the smallest free block joins a table.

*osfs, sizes.*  `SizesInv` adds that what a read still has to copy was below
`i_size` and is mapped.  A write of length 0 breaks it, as the run `eio` shows, so
`0 \notin Lens` is a hypothesis of both theorems and not an assumption of the model.

*osfs, files.*  A step creates a file, stores a chunk, or is *calm*: names stay,
no block becomes free, and only blocks of tables are rewritten.  A calm step that
leaves all tables alone keeps every image, since a file's bytes are found through its
table in blocks that no table occupies.  The remaining calm step is
`WriteAppend`, which maps a block that was a hole of the image; the image keeps
its zeroes only if the new block holds zeroes.  `osfs_extent_append_block` does not
clear it, so this is part of the invariant (`BytesFresh`): a block not in use was
never written, as only unwritten blocks are given back.  `WriteFits` says that a
write in progress has bytes left, below the 2^32 blocks that can be numbered:
beyond them the block number wraps (`LogicalBlock`) and the write lands in the
file's first blocks, which is why `CallsInRange` is a hypothesis.  For a chunk, `ChunkOffsets`
shows by the division of offsets that the bytes that change are those of the
chunk, `LookupInjective` that no other logical block of the file uses that block, and
`FilesDisjoint` that no other file does.  On the side of the calls, `WriteStart` is a
`Begin` with the arguments of the call, `CopyIsWrite` and `FaultIsFault` show that what a
`WriteCopy` or `WriteFault` stores is the share of that request (`ChunkIsShare`, at
the block `HeldBlockValid` gives), and a handler that returns early is a
`Refuse` (`MapOrRefuse`); every other step leaves `Writes` alone, because names of live files
stay (`NameIs`).  `Capacity < U32` keeps `i_size` from
wrapping; the 20 blocks of `osfs.h` are far from it.  TLC checked `ImageInv` on the
bounds of `files` with offsets 0 and 1 and lengths 1 and 2 (1,710,566 states).

*osfs, mounts and listings.*  While no region is mounted there is nothing to say of
the file system; `osfs_fill_super` leaves it `Empty`, whatever the region
held, and `Empty` implies `FsInv`.  `MountedInv` therefore has `FsInv` while
mounted.  For the listing it has that what was given to the user is the part of
`Listing` between where the pass began and the position, and that the position
passes the last entry only in a pass that began there.  That stays true beside
creates because of all steps only `CreateDone` changes the directory, and appends to
it (`DirStep`).

*Shared memory.*  `ShmInv` has five parts.  `ProcsOK`: what a process may rely on at
each place; in particular the creator alone writes a segment before `ready` is
set, and everybody in the loop sees `ready`.  `BoxesOK`: in a ready segment one
token is in `empty`, in `full` or with a process, the mutex likewise, and the
slot holds the last text sent exactly if it was not taken.  `ExitOK`: while
the key leads to a segment whose exit message was taken, the receiver that took it is
on its way to remove that segment, so a second receiver cannot wait there.
`ReceiverCleansUp` is inductive with them.  `OnceOK` is what holds while no
program was started twice; `NothingLeft` needs it.  With `BoxesOK`, the step
that posts `full` is a `Put` of `IpcMailbox` and the read of the slot a `Take`.  TLC
checked `ShmInv` with three launches and six segments (183,295 states).

*Queues.*  That a queue is not read past its exit message is not inductive: it
depends on who may still find the queue.  `IInv` says that while the key leads
to a queue whose exit message was taken, the receiver that took it is about to
remove that queue, and that a queue yet to be made has given no message.  With
`Fifo` (what was sent is what was taken, then what waits) each `Send` is a `Put`
and each `Receive` a `Take`; every other step stutters.  The lemmas `JoinedPut`
and `JoinedTake` hold the arithmetic of the sequences.  `NothingLeft` adds
`OnceInv`: while nothing was started twice, a receiver that ended has no queue or one that
cannot be found any more; and once its queue cannot be found the sender has come
too, for a message was taken from it, and no queue is made again.

*The `/proc` file.*  `ProcInv` has three layers.  `Base` holds for any programs
at once: which places go together in a process (`PlacesOK`), that the entry does not
change under a program that runs, so a handler under way is one of the module
that is loaded (`FilesOK`), and that a writer between `copy_from_user` and
`scnprintf` has `len + n < BUFSIZE`.  The last is what `BufTerminated` needs: what a
writer puts into the buffer, at a length that is stale by then, ends before its last
byte.  Each step of a handler is reduced to one form, a thread goes from a place to a place
with new locals (`StepTo`, `MainTo`), and one lemma carries `Base` over that form.
`GreetsOK` follows one greeting through the buffer: at each place of the critical section
the buffer is empty, holds the greeting, or holds greeting and info line, and the lock
is held by the one thread that is in there.  Its hypothesis that no lock was
initialised while it was held is needed: the second thread's
`pthread_spin_init` frees a lock the first one holds.  A greeting of 3_2
that fills the buffer makes `fclose` call `Mywrite` once more; that call must find no
space, which is the second disjunct of the place `write`.  `ListsOK` says that a read gives no more than two
bytes, and for a program that is alone that the lines written so far are those of the threads below `n`, all that are alive and none
twice; it survives that threads end, because it asks for the lines of living
threads only; between a line and its NUL (the place `terminate`) the new line
counts already.  `EntryServes` follows from `EntryOwned`, the part of `Base` on whose entry
there is, and from `FilesOK`: no entry changes under a program that runs.  `OthersRest` gives the alone case: a process without a program never
moves.  TLC checked the parts of `ProcInv` on several lengths of buffer, greeting and
info line before they were proved.

*Matrices.*  `MatInv` says what is in `z` while threads add to it: every entry is the sum of
the terms whose turn some thread has made (`SumsOK`).  `Index` numbers the turns of the
three loops; by division with remainder each term of a thread's part has one turn
and each turn one term (`IndexUnique`, `TurnFacts`), and the parts of two threads have no term
in common (`PartsDiffer`) and leave none out (`PartsCover`), also when a half is
odd or empty.  A store therefore adds one new term to the sum of its entry
(`SumAdded`); in 2_2 that needs that the register still holds the entry, which is
what the spin lock is for (`LockOK`).  A thread that has left its loops has made
all its turns, so when the last one is joined `z` is `Product` (`AllAdded`).  What a
fold over a set gives is shown once (`SumFacts`) with a function that folds
every set of terms, built up by their number.  `matrix_row_x > 0` is needed only to tell a
written matrix from none.  TLC checked `MatInv` on matrices of 2 by 2 and of 3 by 3 terms.

*Counters.*  What one thread at a time gives both programs is `Counted`: what that
thread loaded is still in `a`, and `a` is the sum of the rounds finished.
`TotalPrinted` adds that a thread holds the spin lock exactly from `load` to
`unlock` and that there is at most one holder.  `XchgIsSpinLock` maps the holder set
to the threads whose `xchg` took the 1 and maps `js` forward or back; its
invariant says that the 1 is in the word or with one thread.  With that
`Counted` holds of `1_2.c` too (`XchgTotalPrinted`).

*Shell.*  `RecordInv` says that each of the last `MAX_RECORD_NUM` lines is in the slot of
its number; a new line takes the slot of the one that drops out, since lines less
than a turn apart have different slots (`SlotsDiffer`).  `CleanInv` says which
descriptors the shell holds at each place of a line: the read end of the pipe before
a stage, also both ends of the pipe after it while it waits, the two saved ones during
a builtin.  `StageClosed` carries it over the end of a stage, whether its fork
failed or its child was waited for.  Nothing is assumed of the line: the argument
needs only that a line with one stage is at its first.

*Outputs.*  `OutInv` follows a line through its stages.  Between two stages files,
directory, terminal and the next pipe are those of the reference after the same
stages (`Matches`).  While a child runs, the text it has written, what it has still
to write and what `cat` can still read make up the whole text of the stage, and the
shell is where the reference would be with only the written part (`Running`):
a read of `cat` moves an item from the last part to the middle one and a write moves
one to the first, whatever the size of the pipe.  Of `cat < f > f` that is true because
opening the output has emptied the file (`shell.c:38`).  A builtin's text is on the
terminal, or in the file, or still in stdio's buffer until the next prompt empties it
(`AtReference`); where part of the text of a redirected one is still there when the
terminal is back, the line is one of those the property leaves out (`LeavesRest`).  The reference is a recursive function: the steps of the
shell add one stage at a time to a run of it (`RunOneMore`), and a run is the only
one, since there is no least stage at which two differ (`RunIs`).
`WordsAssumption` says that words are strings and that the file names of the model
include those that lines redirect to.

Model-checked only:
- liveness: `CallsReturn`, `Finishes`, `AllDelivered`, `ProgramEnds`, `LineEnds`
  (fairness and `ENABLED` are beyond the proof system);
- the findings, which say what the code does not do.

## Not modelled

- osfs with preempted handlers or several CPUs.  `test_bit` and `set_bit` are
  separate and the tables have no lock, so there any two calls may take the
  same block; the code keeps no property there that could be stated.
- Two superblocks of osfs at once: they share the module and nothing else.
- Kills of the processes of `lab1`, `EINTR`, and errors of `sem_wait`/`sem_post`, of `shmdt`
  and of `shmctl`/`msgctl`.
- Missing or malformed input files of `lab3` (null `FILE` pointers), loading a
  module while a program has its file open.  `Myread` of 3_1 walks the threads without
  `rcu_read_lock`; that the task of a thread that ends is freed under it is left out.
- In `lab2`: the end of standard input (`read_line` returns a buffer that
  was never written and the loop goes on for ever, `command.c:21`), more than nine words
  (`split_line` writes past `args`), lines longer than the buffer, standard input that
  is not a terminal, and failures of `dup` and `pipe`.
- Build files, answers and input files.

## Plan

1. *Done:* `Osfs` with its properties, refinement, runs, and `TypeCorrect`.
2. *Done:* `lab3/1` with its theorems; `lab1` on both mechanisms; `ImplementsMailbox`
   of `IpcMsg` as a theorem.
3. *Done:* `OsfsReaddir`, `OsfsMount`, `MatMul`, `ProcInfo`, `Shell`.
4. *Done:* `FsInv` and what follows from it, `MappingStable`, `SizeMapped`,
   `NoInternalError`, `ImplementsFiles`.
5. *Done:* `MountLifetime`, `MountedConsistent`, `ListingExact`, `ListingComplete`.
6. *Done:* every safety property of both mailboxes.
7. *Done:* `EntryServes`, `BufTerminated`, `HellosRead`, `ListsThreads` of `ProcInfo`.
8. *Done:* `RecordShowsLast` and `PromptClean` of `Shell`, `PrintsTotal` of
   `XchgCounter`.
9. *Done:* `PrintsProduct`.
10. *Done:* `OutputsRight`.
