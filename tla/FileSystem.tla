----------------------------- MODULE FileSystem -----------------------------
(***************************************************************************)
(* The file system of HW4: files.c on bitmap.c on storage.c.  The program  *)
(* has one thread and its storage dies with it, so that each operation is  *)
(* one atomic action.                                                      *)
(*                                                                         *)
(* A disk block is seen through the part of the state its role gives it:   *)
(* `inode` (blocks 0 .. InodeBlocks - 1), `bitmap` (the next ones),        *)
(* `pointers` and `data` (the others).  NoSharing and MetadataSafe say     *)
(* that no block has two roles.  Three mistakes leave the program without  *)
(* a behaviour to model, and end it: `state` becomes "overrun" when it     *)
(* indexes a pointer block past its end, "lost" when it follows a pointer  *)
(* block that is not on the disk, and "clobbered" when it writes a file's  *)
(* bytes over the metadata.                                                *)
(*                                                                         *)
(* Callers read and write only files they created, and no offset past the  *)
(* PointersPerBlock * BlockSize bytes an inode can address.  Those of      *)
(* CarefulCallers fill neither the disk nor a file.                        *)
(***************************************************************************)
EXTENDS Integers, FiniteSets

CONSTANTS
  BlockSize,        \* bytes in a block (4096)
  NumBlocks,        \* NUM_BLOCKS (16384)
  InodeBlocks,      \* number_inode_blocks (8)
  InodesPerBlock,   \* inodes_per_block (128)
  BitmapBits,       \* bits in the bitmap's blocks (one block: 32768)
  PointersPerBlock, \* entries in a pointer_block_t (512)
  MaxFiles,         \* MAX_FILES (1024)
  MaxLength,        \* bound: the longest read or write
  Values,           \* what callers write: byte o of value v is <<v, o>>
  Junk,             \* a byte of the disk or of `block` never written
  CarefulCallers

FirstAllocatable == InodeBlocks + 1    \* the bitmap takes one block
Blocks   == 0 .. NumBlocks - 1
Bits     == FirstAllocatable .. BitmapBits - 1
Inodes   == 0 .. MaxFiles - 1
Entries  == 0 .. PointersPerBlock - 1
MaxSize  == PointersPerBlock * BlockSize
NoBlock  == -1                         \* bitmap_allocate_block() failed
Bytes    == (Values \X (0 .. MaxSize)) \cup {Junk}

\* The sizes of files.h and storage.h satisfy these: all inodes fit the
\* inode blocks, those ifile_create() accepts lie in the first block, and
\* the bitmap has a bit for every block, and more.
ASSUME DiskAssumption ==
  /\ BlockSize \in Nat \ {0}
  /\ PointersPerBlock \in Nat \ {0}
  /\ InodesPerBlock \in Nat \ {0}
  /\ InodeBlocks \in Nat \ {0}
  /\ InodeBlocks < InodesPerBlock
  /\ MaxFiles \in Nat
  /\ MaxFiles <= InodeBlocks * InodesPerBlock
  /\ NumBlocks \in Nat
  /\ FirstAllocatable < NumBlocks
  /\ BitmapBits \in Nat
  /\ NumBlocks <= BitmapBits
  /\ MaxLength \in Nat
  /\ CarefulCallers \in BOOLEAN

VARIABLES
  inode,      \* the inode table
  bitmap,     \* the bits that are set
  pointers,   \* the entries of each pointer block
  data,       \* the bytes of each data block
  reply,      \* what the last operation returned
  state       \* "running", "overrun", "lost" or "clobbered"

vars == <<inode, bitmap, pointers, data, reply, state>>

Done(bytes) == [code |-> 0, bytes |-> bytes]
Error       == [code |-> -1, bytes |-> <<>>]
Running     == state = "running"

\* The largest inode number ifile_create() accepts, files.c:63.
CreateLimit == InodeBlocks

-----------------------------------------------------------------------------
(* format() on storage from malloc(): inodes and bitmap zeroed.            *)
Init ==
  /\ inode = [n \in Inodes |-> [used |-> FALSE, size |-> 0, head |-> 0]]
  /\ bitmap = {}
  /\ pointers = [b \in Blocks |-> [e \in Entries |-> 0]]
  /\ data = [b \in Blocks |-> [i \in 0 .. BlockSize - 1 |-> Junk]]
  /\ reply = Done(<<>>)
  /\ state = "running"

\* The results of n successive calls of bitmap_allocate_block(): each takes
\* the first clear bit, on the disk or not, and -1 is for a full bitmap.
Allocations(n) ==
  LET Clear == Bits \ bitmap IN
  {f \in [1 .. n -> Clear \cup {NoBlock}] :
     \A i \in 1 .. n :
       LET taken == {f[j] : j \in 1 .. i - 1} IN
       IF f[i] = NoBlock
       THEN Clear \subseteq taken
       ELSE /\ f[i] \notin taken
            /\ \A b \in Clear \ taken : f[i] <= b}

\* Variant: the bit of the first block only.
SetFirst(f) ==
  bitmap' = bitmap \cup ({f[i] : i \in DOMAIN f \cap {1}} \ {NoBlock})

\* Variant: -1 is taken for a block.
SetAny(f) == bitmap' = bitmap \cup {f[i] : i \in DOMAIN f}

\* Variant: bitmap_deallocate_block() reaches the bitmap, and clears the bits
\* ifile_grow() gives it: indexes of entries, not blocks (files.c:116).
SetUndone(f) ==
  LET set == bitmap \cup ({f[i] : i \in DOMAIN f} \ {NoBlock}) IN
  bitmap' = IF \E i \in DOMAIN f : f[i] = NoBlock THEN set \ Entries ELSE set

Set(f) == bitmap' = bitmap \cup ({f[i] : i \in DOMAIN f} \ {NoBlock})
OnDisk(f) == \A i \in DOMAIN f : f[i] \in Blocks

-----------------------------------------------------------------------------
\* ifile_create() refuses what is past the number of inode blocks, files.c:63.
CreateFails(n) ==
  /\ Running
  /\ n > CreateLimit
  /\ reply' = Error
  /\ UNCHANGED <<inode, bitmap, pointers, data, state>>

\* ifile_create(): a pointer block, all zeroes but for the first entry.  A
\* pointer block that is not on the disk is lost.
Create(n) ==
  /\ Running
  /\ n <= CreateLimit
  /\ \E f \in Allocations(2) :
       /\ CarefulCallers => OnDisk(f)
       /\ inode' = [inode EXCEPT
                      ![n] = [used |-> TRUE, size |-> 0, head |-> f[1]]]
       /\ pointers' = [b \in Blocks |->
            IF b = f[1] THEN [e \in Entries |-> IF e = 0 THEN f[2] ELSE 0]
            ELSE pointers[b]]
       /\ Set(f)
  /\ reply' = Done(<<>>)
  /\ UNCHANGED <<data, state>>

\* Variant: the first new entry is skipped.
GrownLate(entry, current, last, f) ==
  [e \in Entries |->
     IF e \in current + 2 .. last THEN f[e - current] ELSE entry[e]]

\* ifile_grow() on the entries of a file of that size: entry e becomes f[e -
\* current], up to the first allocation that fails.  Then the new entries are
\* undone, and those after it left alone.  bitmap_deallocate_block() writes the
\* changed bitmap into block 0, over the inodes (bitmap.c:63), which
\* ifile_write() puts back (files.c:221): no bit is ever cleared.
Grown(entry, current, last, f) ==
  LET failed == {i \in DOMAIN f : f[i] = NoBlock}
  IN  [e \in Entries |->
         IF e \notin current + 1 .. last THEN entry[e]
         ELSE IF failed = {} THEN f[e - current]
         ELSE IF \E i \in failed : \A j \in failed : i <= j /\ e - current <= i
         THEN NoBlock
         ELSE entry[e]]

\* Variant: the last byte is left out.
StoredShort(entry, to, len, v) ==
  [b \in Blocks |-> [i \in 0 .. BlockSize - 1 |->
     IF \E e \in Entries : /\ entry[e] = b
                           /\ e * BlockSize + i \in to .. to + len - 2
     THEN LET e == CHOOSE e \in Entries :
                     /\ entry[e] = b
                     /\ e * BlockSize + i \in to .. to + len - 2
          IN  <<v, e * BlockSize + i>>
     ELSE data[b][i]]]

\* pointers_write(): the bytes of v through the entries.  Those of a block
\* that is not on the disk are lost.
Stored(entry, to, len, v) ==
  [b \in Blocks |-> [i \in 0 .. BlockSize - 1 |->
     IF \E e \in Entries : /\ entry[e] = b
                           /\ e * BlockSize + i \in to .. to + len - 1
     THEN LET e == CHOOSE e \in Entries :
                     /\ entry[e] = b
                     /\ e * BlockSize + i \in to .. to + len - 1
          IN  <<v, e * BlockSize + i>>
     ELSE data[b][i]]]

\* The entries looked up for these bytes, and those that hold one of them.
Looked(at, len)  == at \div BlockSize .. (at + len) \div BlockSize
Reached(at, len) == {o \div BlockSize : o \in at .. at + len - 1}

\* What goes wrong in ifile_write() with these entries, if anything.
Mistake(n, entry, to, len) ==
  IF inode[n].head \notin Blocks THEN "lost"
  ELSE IF ~(Looked(to, len) \subseteq Entries) THEN "overrun"
  ELSE IF \E e \in Reached(to, len) : entry[e] \in 0 .. FirstAllocatable - 1
  THEN "clobbered"
  ELSE "running"

EntriesOf(n) ==
  IF inode[n].head \in Blocks THEN pointers[inode[n].head]
  ELSE [e \in Entries |-> NoBlock]

\* ifile_write().
Write(n, to, len, v) ==
  LET size    == inode[n].size
      current == size \div BlockSize
      grows   == to + len > size
      last    == IF grows THEN (to + len) \div BlockSize ELSE current
  IN
  /\ Running
  /\ inode[n].used
  /\ to + len <= MaxSize
  /\ \E f \in Allocations(last - current) :
       LET entry == Grown(EntriesOf(n), current, last, f) IN
       /\ CarefulCallers => OnDisk(f) /\ last \in Entries
       /\ state' = Mistake(n, entry, to, len)
       /\ IF state' = "running"
          THEN /\ inode' = [inode EXCEPT
                              ![n].size = IF grows THEN to + len ELSE size]
               /\ Set(f)
               /\ pointers' = [pointers EXCEPT ![inode[n].head] = entry]
               /\ data' = Stored(entry, to, len, v)
               /\ reply' = Done(<<>>)
          ELSE UNCHANGED <<inode, bitmap, pointers, data, reply>>

\* pointers_read().  A block that is not on the disk leaves the local `block` as
\* the last one that could be read has left it, or uninitialized.
BytesRead(n, from, len) ==
  [o \in from .. from + len - 1 |->
     LET entry == EntriesOf(n)
         read  == {e \in from \div BlockSize .. o \div BlockSize :
                     entry[e] \in Blocks}
         last  == CHOOSE e \in read : \A d \in read : d <= e
     IN  IF read = {} THEN Junk ELSE data[entry[last]][o % BlockSize]]

\* ifile_read(), which reports a file that is too short and nothing else.
ReadFails(n, from, len) ==
  /\ Running
  /\ inode[n].used
  /\ from + len > inode[n].size
  /\ reply' = Error
  /\ UNCHANGED <<inode, bitmap, pointers, data, state>>

Read(n, from, len) ==
  /\ Running
  /\ inode[n].used
  /\ from + len <= inode[n].size
  /\ IF inode[n].head \in Blocks
     THEN /\ reply' = Done(BytesRead(n, from, len))
          /\ UNCHANGED state
     ELSE state' = "lost" /\ UNCHANGED reply
  /\ UNCHANGED <<inode, bitmap, pointers, data>>

Next ==
  \E n \in Inodes :
    \/ Create(n) \/ CreateFails(n)
    \/ \E at \in 0 .. MaxSize - 1, len \in 0 .. MaxLength :
         \/ Read(n, at, len) \/ ReadFails(n, at, len)
         \/ \E v \in Values : Write(n, at, len, v)

Spec == Init /\ [][Next]_vars

-----------------------------------------------------------------------------
(* What holds however the file system is used.                             *)

\* Every variable keeps its type.
TypeOK ==
  /\ inode \in [Inodes -> [used : BOOLEAN, size : 0 .. MaxSize,
                           head : Bits \cup {0, NoBlock}]]
  /\ bitmap \subseteq Bits
  /\ pointers \in [Blocks -> [Entries -> Bits \cup {0, NoBlock}]]
  /\ data \in [Blocks -> [0 .. BlockSize - 1 -> Bytes]]
  /\ reply.code \in {0, -1}
  /\ state \in {"running", "overrun", "lost", "clobbered"}

\* A slot is a place that names a block: the head of an inode (-1), or an
\* entry of its pointer block.
Slots == Entries \cup {-1}
Named(n, s) == IF s = -1 THEN inode[n].head ELSE EntriesOf(n)[s]

\* A block that was allocated is named by one slot only: no two files, and
\* no two places of a file, share it, and no pointer block is used as data.
NoSharing ==
  \A n, m \in Inodes : \A s, t \in Slots :
    /\ inode[n].used /\ inode[m].used
    /\ Named(n, s) = Named(m, t)
    /\ Named(n, s) \in Bits
    => n = m /\ s = t

\* A block a slot names is set in the bitmap: it will not be given away again.
NamedIsSet ==
  \A n \in Inodes, s \in Slots :
    inode[n].used /\ Named(n, s) \in Bits => Named(n, s) \in bitmap

\* Until the bitmap is full, the part of a file that holds its bytes names no
\* block of the inodes or of the bitmap, and ifile_grow() has not failed.
InFile(n) == {e \in Entries : e <= inode[n].size \div BlockSize}
MetadataSafe ==
  ~(Bits \subseteq bitmap) =>
     \A n \in Inodes : inode[n].used =>
        /\ inode[n].head >= FirstAllocatable
        /\ inode[n].head \in Blocks =>
             \A e \in InFile(n) : Named(n, e) >= FirstAllocatable

-----------------------------------------------------------------------------
(* What holds for careful callers: the files are those of FileStore.       *)

\* The byte at an offset of a file, if its block is on the disk.
ByteAt(n, o) ==
  LET b == EntriesOf(n)[o \div BlockSize]
  IN  IF b \in Blocks THEN data[b][o % BlockSize] ELSE Junk

FileView == [n \in Inodes |->
  [used |-> inode[n].used,
   size |-> inode[n].size,
   byte |-> [o \in 0 .. MaxSize - 1 |->
               IF inode[n].used /\ o < inode[n].size THEN ByteAt(n, o)
               ELSE Junk]]]

Store == INSTANCE FileStore WITH file <- FileView

\* The bytes read are those last written there, writes to one file leave the
\* others alone, and the codes returned are right.
StoreSpec == Store!Spec

\* Every block of a file is on the disk and nothing undefined is reached.
AlwaysDefined ==
  /\ Running
  /\ \A n \in Inodes : inode[n].used =>
       inode[n].head \in Blocks /\ \A e \in InFile(n) : Named(n, e) \in Blocks

\* A block that is set and that no slot names is lost for good.  Blocks are lost
\* when an inode that exists is created again, which abandons those it had,
\* and never otherwise, as long as no growth of a file fails.
BlocksOf(n) == IF inode[n].used THEN {Named(n, s) : s \in Slots} \cap Bits
               ELSE {}
Leaked == bitmap \ UNION {BlocksOf(n) : n \in Inodes}
OnlyRecreationLeaks ==
  [][LET again == {n \in Inodes : inode'[n].head # inode[n].head}
     IN  Leaked' = Leaked \cup UNION {BlocksOf(n) : n \in again}]_vars

-----------------------------------------------------------------------------
(* What the comments promise and the code does not do.                     *)

\* The bitmap functions allocate "only blocks from disk that are beyond" the
\* metadata (files.c:51): no file's bytes go there.
MetadataIntact == state # "clobbered"
=============================================================================
