----------------------------- MODULE OsfsFiles -----------------------------
(***************************************************************************)
(* What osfs promises of the files of its root directory: each name is     *)
(* absent or a file with a size and bytes of its own, and a write is bound *)
(* to the file, the position, the length and the byte it was called with.  *)
(* It stores its bytes in order, one block's share at a time; a share      *)
(* whose copy faults ends in zeroes, and only a write that has stored all  *)
(* its bytes grows its file, to its own end.                               *)
(***************************************************************************)
EXTENDS Naturals

CONSTANTS
  Procs,      \* processes that write
  Names,
  Capacity,   \* bytes that can be mapped for one file, at most
  BlockSize,
  Positions,  \* offsets writes start at
  Lens,       \* lengths of writes
  Vals        \* bytes users write

VARIABLES
  file,
  writing     \* the write each process has in progress: what is left of it

Bytes == Vals \cup {0}
Image == [0 .. (Capacity - 1) -> Bytes]

Absent == [exists |-> FALSE]
File(size, bytes) == [exists |-> TRUE, size |-> size, bytes |-> bytes]
Empty == File(0, [o \in 0 .. (Capacity - 1) |-> 0])

(* v is to be stored left times from offset at of the file called name. *)
Request(name, at, left, v) == [name |-> name, at |-> at, left |-> left, val |-> v]
NoRequest == [left |-> 0]

Init ==
  /\ file = [n \in Names |-> Absent]
  /\ writing = [p \in Procs |-> NoRequest]

Create(n) ==
  /\ ~file[n].exists
  /\ file' = [file EXCEPT ![n] = Empty]
  /\ UNCHANGED writing

Begin(p, n, at, len, v) ==
  /\ writing[p] = NoRequest
  /\ file[n].exists
  /\ len > 0
  /\ writing' = [writing EXCEPT ![p] = Request(n, at, len, v)]
  /\ UNCHANGED file

(* The share of a write that lies in the block of its next byte. *)
Share(w) ==
  LET room == BlockSize - (w.at % BlockSize) IN
  IF w.left < room THEN w.left ELSE room

(* bytes after the share of w: k times its byte, then zeroes. *)
Stored(bytes, w, k) ==
  [o \in DOMAIN bytes |-> IF o < w.at \/ o >= w.at + Share(w) THEN bytes[o]
                          ELSE IF o < w.at + k THEN w.val ELSE 0]

InProgress(p) == writing[p] # NoRequest /\ file[writing[p].name].exists

(* The next share is stored; after the last one the size reaches its end.  *)
Write(p) ==
  LET w == writing[p]
      f == file[w.name]
      end == w.at + Share(w)
      last == w.left = Share(w)
  IN
  /\ InProgress(p)
  /\ end <= Capacity
  /\ file' = [file EXCEPT ![w.name] =
                File(IF last /\ end > f.size THEN end ELSE f.size,
                     Stored(f.bytes, w, Share(w)))]
  /\ writing' = [writing EXCEPT ![p] =
                   IF last THEN NoRequest
                   ELSE Request(w.name, end, w.left - Share(w), w.val)]

(* The copy of a share faults after k bytes, and the write ends with it. *)
Fault(p) ==
  LET w == writing[p]
      f == file[w.name]
  IN
  /\ InProgress(p)
  /\ w.at + Share(w) <= Capacity
  /\ \E k \in 0 .. (Share(w) - 1) :
       file' = [file EXCEPT ![w.name] = File(f.size, Stored(f.bytes, w, k))]
  /\ writing' = [writing EXCEPT ![p] = NoRequest]

(* A write ends early, with no room for its next share or with a hole      *)
(* before it; what it stored stays, beyond the size or not.                *)
Refuse(p) ==
  /\ InProgress(p)
  /\ writing' = [writing EXCEPT ![p] = NoRequest]
  /\ UNCHANGED file

Next ==
  \/ \E n \in Names : Create(n)
  \/ \E p \in Procs :
       \/ \E n \in Names, at \in Positions, len \in Lens, v \in Vals : Begin(p, n, at, len, v)
       \/ Write(p) \/ Fault(p) \/ Refuse(p)

Spec == Init /\ [][Next]_<<file, writing>>
=============================================================================
