----------------------------- MODULE OsfsReaddir -----------------------------
(***************************************************************************)
(* Listing the root directory: getdents calls osfs_iterate, which goes on  *)
(* at ctx->pos, through an open file of the mounted osfs, while other      *)
(* processes create files and write them.                                  *)
(*                                                                         *)
(* A getdents is one step: the VFS holds the i_rwsem of the directory      *)
(* shared (iterate_shared), which keeps osfs_create out, and nothing else  *)
(* changes what osfs_iterate reads.                                        *)
(***************************************************************************)
EXTENDS OsfsMount

CONSTANTS
  Rooms,  \* numbers of names that fit the buffer of a getdents
  Seeks   \* offsets that lseek sets

ASSUME ReaddirAssumption == Rooms \subseteq Nat \ {0} /\ Seeks \subseteq Nat

VARIABLE filp  \* the open directory

(* from is where the pass began and got the names it has returned; res is  *)
(* the result of the last getdents.                                        *)
Closed == [open |-> FALSE, from |-> 0, pos |-> 0, got |-> << >>, res |-> "none"]
OpenedAt(off) == [open |-> TRUE, from |-> off, pos |-> off, got |-> << >>, res |-> "none"]

Dots == <<".", "..">>
EntryNames == [i \in DOMAIN Dir |-> Dir[i].filename]

(* dir_emit_dots, called when ctx->pos is 0. *)
dir_emit_dots(pos, room) == IF pos = 0 THEN SubSeq(Dots, 1, Min({room, 2})) ELSE << >>

(* Mutants: the index does not leave out the dots; it leaves out one of them. *)
EmitEntries_NoDots(pos, room) == SubSeq(EntryNames, pos + 1, Min({pos + room, Len(Dir)}))
EmitEntries_OneDot(pos, room) == SubSeq(EntryNames, pos, Min({pos - 1 + room, Len(Dir)}))

(* The loop from entry pos - 2.  Position 1 stands for the entry before    *)
(* the first block, in the unused half of a time of inode 16: its name is  *)
(* empty and dir_emit refuses it.                                          *)
EmitEntries(pos, room) ==
  IF pos < 2 THEN << >>
  ELSE SubSeq(EntryNames, pos - 1, Min({pos - 2 + room, Len(Dir)}))

(* The names that one call returns in a buffer with room for some. *)
osfs_iterate(pos, room) ==
  LET dots == dir_emit_dots(pos, room) IN
  dots \o EmitEntries(pos + Len(dots), room - Len(dots))

Getdents(room) ==
  LET names == osfs_iterate(filp.pos, room) IN
  /\ filp.open /\ ~DirLocked
  /\ filp' = [filp EXCEPT !.pos = @ + Len(names), !.got = @ \o names,
                          !.res = IF names # << >> THEN "names"
                                  ELSE IF filp.pos = 1 THEN "EINVAL" ELSE "end"]

Opendir == ~filp.open /\ filp' = OpenedAt(0)
Lseek(off) == filp.open /\ filp' = OpenedAt(off)
Closedir == filp.open /\ filp' = Closed

ReaddirStep ==
  \/ Opendir \/ Closedir
  \/ \E off \in Seeks : Lseek(off)
  \/ \E room \in Rooms : Getdents(room)

-----------------------------------------------------------------------------
MountedInit == MountInit /\ filp = Closed

MountedNext ==
  \/ Mounted /\ Next /\ UNCHANGED <<mountVars, filp>>
  \/ Mounted /\ ReaddirStep /\ UNCHANGED <<vars, mountVars>>
  \/ ~filp.open /\ MountStep /\ UNCHANGED filp

MountedSpec == MountedInit /\ [][MountedNext]_<<vars, mountVars, filp>>

-----------------------------------------------------------------------------
Listing == Dots \o EntryNames

(***************************************************************************)
(* ListingExact: what a pass has returned is what the directory, as it is  *)
(* now, has between the offset where the pass began and ctx->pos: creates  *)
(* between two getdents make no name come twice or be skipped.             *)
(***************************************************************************)
ListingExact == filp.open => filp.got = SubSeq(Listing, filp.from + 1, filp.pos)

(***************************************************************************)
(* MountedInv: what the mount and the listing rest on.  The contents of    *)
(* the region keep their types from one mount to the next and are          *)
(* consistent while it is mounted; an open directory has been read from    *)
(* where the pass began, and past the last entry only if it began there.   *)
(***************************************************************************)
FilpType ==
  [open : BOOLEAN, from : Nat, pos : Nat, got : Seq(Names \cup {".", ".."}),
   res : {"none", "names", "EINVAL", "end"}]
PassInv ==
  /\ filp \in FilpType
  /\ filp.open => /\ filp.from <= filp.pos
                  /\ filp.pos > Len(Listing) => filp.pos = filp.from
MountedInv ==
  /\ TypeInv /\ (Mounted => FsInv)
  /\ MountLifetime /\ PassInv /\ ListingExact

(***************************************************************************)
(* ListingComplete: a getdents that reports the end of the directory comes *)
(* after every name from the start of the pass on, those created during it *)
(* included; it fails only at position 1, which lseek or a buffer with     *)
(* room for "." alone leads to.                                            *)
(***************************************************************************)
ListingStep ==
  /\ filp'.res = "end" => filp'.got = SubSeq(Listing', filp'.from + 1, Len(Listing'))
  /\ filp'.res = "EINVAL" => filp.pos = 1 /\ filp'.pos = 1
ListingComplete == [][filp' # filp => ListingStep]_<<vars, mountVars, filp>>
=============================================================================
