-------------------------- MODULE FileSystemProofs --------------------------
(* Theorems about FileSystem, for every size of the disk, of its blocks and *)
(* of its inode table: those that hold however the file system is used, and *)
(* those of CarefulCallers.                                                 *)
EXTENDS FileSystem, TLAPS

\* The numbers that stand for no allocated block.
LEMMA BitsFacts ==
  /\ Bits \subseteq Nat
  /\ 0 \notin Bits /\ NoBlock \notin Bits
  /\ NoBlock \notin Blocks
  /\ FirstAllocatable \in Nat
  /\ \A b \in Bits : b >= FirstAllocatable
  /\ MaxSize \in Nat
  /\ \A b \in Blocks : b >= FirstAllocatable => b \in Bits
BY DiskAssumption DEF Bits, Blocks, NoBlock, FirstAllocatable, MaxSize

\* Blocks whose bit was clear, no two the same, and -1 only when all the
\* others together fill the bitmap.
Fresh(n, f) ==
  /\ f \in [1 .. n -> (Bits \ bitmap) \cup {NoBlock}]
  /\ \A i, j \in 1 .. n : f[i] # NoBlock /\ f[i] = f[j] => i = j
  /\ \A i \in 1 .. n : f[i] = NoBlock =>
       \A b \in Bits \ bitmap : \E j \in 1 .. n : f[j] = b

\* Successive calls of bitmap_allocate_block() return fresh blocks.
LEMMA AllocationsFresh ==
  ASSUME NEW n \in Int, NEW f \in Allocations(n)
  PROVE  Fresh(n, f)
<1> DEFINE taken(i) == {f[j] : j \in 1 .. i - 1}
<1>1. /\ f \in [1 .. n -> (Bits \ bitmap) \cup {NoBlock}]
      /\ \A i \in 1 .. n :
           IF f[i] = NoBlock THEN Bits \ bitmap \subseteq taken(i)
                             ELSE f[i] \notin taken(i)
  BY DEF Allocations
<1>2. ASSUME NEW i \in 1 .. n, NEW j \in 1 .. n, i < j, f[j] # NoBlock
      PROVE  f[i] # f[j]
  <2>1. f[i] \in taken(j)
    BY <1>2
  <2> QED
    BY <1>1, <1>2, <2>1
<1>3. ASSUME NEW i \in 1 .. n, NEW j \in 1 .. n, f[i] # NoBlock, f[i] = f[j]
      PROVE  i = j
  <2>1. ~(i < j) /\ ~(j < i)
    BY <1>2, <1>3
  <2> QED
    BY <2>1
<1>4. ASSUME NEW i \in 1 .. n, f[i] = NoBlock, NEW b \in Bits \ bitmap
      PROVE  \E j \in 1 .. n : f[j] = b
  <2>1. b \in taken(i)
    BY <1>1, <1>4
  <2> QED
    BY <2>1
<1> QED
  BY <1>1, <1>3, <1>4 DEF Fresh

-----------------------------------------------------------------------------
\* An inode in use has a pointer block, or failed to get one.
HeadAllocated ==
  \A n \in Inodes : inode[n].used => inode[n].head \in Bits \cup {NoBlock}

\* The part of the state that says which blocks are whose.
TableOK ==
  /\ inode \in [Inodes -> [used : BOOLEAN, size : 0 .. MaxSize,
                           head : Bits \cup {0, NoBlock}]]
  /\ bitmap \subseteq Bits
  /\ pointers \in [Blocks -> [Entries -> Bits \cup {0, NoBlock}]]
  /\ HeadAllocated

IInv == TableOK /\ NoSharing /\ NamedIsSet /\ MetadataSafe

\* A step that gives the slots of New blocks whose bit was clear, all
\* different, and leaves every other slot as it was or without a block,
\* shares no block.
LEMMA NamesStep ==
  ASSUME NoSharing, NamedIsSet, bitmap \subseteq bitmap',
         NEW New,
         \A n \in Inodes, s \in Slots :
           inode'[n].used /\ Named(n, s)' \in Bits =>
             IF <<n, s>> \in New THEN Named(n, s)' \in bitmap' \ bitmap
             ELSE inode[n].used /\ Named(n, s)' = Named(n, s),
         \A n, m \in Inodes : \A s, t \in Slots :
           /\ <<n, s>> \in New /\ <<m, t>> \in New
           /\ Named(n, s)' \in Bits /\ Named(n, s)' = Named(m, t)'
           => n = m /\ s = t
  PROVE  NoSharing' /\ NamedIsSet'
<1>1. NamedIsSet'
  BY DEF NamedIsSet
<1>2. ASSUME NEW n \in Inodes, NEW m \in Inodes,
             NEW s \in Slots, NEW t \in Slots,
             inode'[n].used, inode'[m].used,
             Named(n, s)' = Named(m, t)', Named(n, s)' \in Bits
      PROVE  n = m /\ s = t
  <2>1. CASE <<n, s>> \in New /\ <<m, t>> \in New
    BY <1>2, <2>1
  <2>2. CASE <<n, s>> \notin New /\ <<m, t>> \notin New
    BY <1>2, <2>2 DEF NoSharing
  <2>3. CASE <<n, s>> \in New /\ <<m, t>> \notin New
    BY <1>2, <2>3 DEF NamedIsSet
  <2>4. CASE <<n, s>> \notin New /\ <<m, t>> \in New
    BY <1>2, <2>4 DEF NamedIsSet
  <2> QED
    BY <2>1, <2>2, <2>3, <2>4
<1>3. NoSharing'
  BY <1>2 DEF NoSharing, Slots, Entries
<1> QED
  BY <1>1, <1>3

\* ifile_create() names two blocks that nobody named.
LEMMA CreateStep ==
  ASSUME IInv, NEW n \in Inodes, Create(n)
  PROVE  IInv'
<1> USE DEF IInv, TableOK
<1>1. PICK f \in Allocations(2) :
        /\ inode' = [inode EXCEPT
                       ![n] = [used |-> TRUE, size |-> 0, head |-> f[1]]]
        /\ pointers' = [b \in Blocks |->
             IF b = f[1] THEN [e \in Entries |-> IF e = 0 THEN f[2] ELSE 0]
             ELSE pointers[b]]
        /\ Set(f)
  BY DEF Create
<1>2. /\ f \in [1 .. 2 -> (Bits \ bitmap) \cup {NoBlock}]
      /\ f[1] # NoBlock => f[1] # f[2]
      /\ \A i \in 1 .. 2 :
           f[i] = NoBlock => Bits \subseteq bitmap \cup {f[1], f[2]}
  <2>1. Fresh(2, f)
    BY AllocationsFresh
  <2>2. f[1] # NoBlock => f[1] # f[2]
    BY <2>1 DEF Fresh
  <2> QED
    BY <2>1, <2>2 DEF Fresh
<1>3. bitmap' = bitmap \cup ({f[1], f[2]} \ {NoBlock})
  BY <1>1, <1>2 DEF Set
<1>4. /\ f[1] \in (Bits \ bitmap) \cup {NoBlock}
      /\ f[2] \in (Bits \ bitmap) \cup {NoBlock}
  BY <1>2
<1>5. TableOK'
  <2>1. inode' \in [Inodes -> [used : BOOLEAN, size : 0 .. MaxSize,
                               head : Bits \cup {0, NoBlock}]]
    BY <1>1, <1>4, BitsFacts
  <2>2. pointers' \in [Blocks -> [Entries -> Bits \cup {0, NoBlock}]]
    BY <1>1, <1>4
  <2>3. HeadAllocated'
    BY <1>1, <1>4 DEF HeadAllocated
  <2> QED
    BY <1>3, <1>4, <2>1, <2>2, <2>3
<1>6. ASSUME NEW m \in Inodes, m # n, inode[m].used
      PROVE  inode'[m] = inode[m] /\ EntriesOf(m)' = EntriesOf(m)
  <2>1. inode'[m] = inode[m]
    BY <1>1, <1>6
  <2>2. inode[m].head # f[1] \/ inode[m].head = NoBlock
    <3>1. inode[m].head \in Bits => inode[m].head \in bitmap
      BY <1>6 DEF NamedIsSet, Named, Slots
    <3> QED
      BY <1>4, <1>6, <3>1 DEF HeadAllocated
  <2> QED
    BY <1>1, <2>1, <2>2, BitsFacts DEF EntriesOf
<1>7. /\ inode'[n] = [used |-> TRUE, size |-> 0, head |-> f[1]]
      /\ \A e \in Entries :
           EntriesOf(n)'[e] = IF f[1] \notin Blocks THEN NoBlock
                              ELSE IF e = 0 THEN f[2] ELSE 0
  BY <1>1 DEF EntriesOf
<1>8. ASSUME NEW m \in Inodes, NEW s \in Slots
      PROVE  Named(m, s)' = IF m # n THEN (IF s = -1 THEN inode'[m].head
                                           ELSE EntriesOf(m)'[s])
                            ELSE IF s = -1 THEN f[1]
                            ELSE IF f[1] \notin Blocks THEN NoBlock
                            ELSE IF s = 0 THEN f[2] ELSE 0
  BY <1>7 DEF Named, Slots
<1>9. NoSharing' /\ NamedIsSet'
  <2> DEFINE New == {n} \X Slots
  <2>1. ASSUME NEW m \in Inodes, NEW s \in Slots,
               inode'[m].used, Named(m, s)' \in Bits
        PROVE  IF <<m, s>> \in New THEN Named(m, s)' \in bitmap' \ bitmap
               ELSE inode[m].used /\ Named(m, s)' = Named(m, s)
    <3>1. CASE m = n
      BY <1>3, <1>4, <1>8, <2>1, <3>1, BitsFacts
    <3>2. CASE m # n
      <4>1. inode[m].used
        BY <1>1, <2>1, <3>2
      <4> QED
        BY <1>6, <2>1, <3>2, <4>1 DEF Named
    <3> QED
      BY <3>1, <3>2
  <2>2. ASSUME NEW m \in Inodes, NEW p \in Inodes, NEW s \in Slots,
               NEW t \in Slots, <<m, s>> \in New, <<p, t>> \in New,
               Named(m, s)' \in Bits, Named(m, s)' = Named(p, t)'
        PROVE  m = p /\ s = t
    BY <1>2, <1>8, <2>2, BitsFacts DEF Slots
  <2>3. NoSharing /\ NamedIsSet /\ bitmap \subseteq bitmap'
    BY <1>3
  <2> HIDE DEF New
  <2> QED
    BY <2>1, <2>2, <2>3, NamesStep
<1>10. MetadataSafe'
  <2> SUFFICES ASSUME ~(Bits \subseteq bitmap'), NEW m \in Inodes,
                      inode'[m].used
               PROVE  /\ inode'[m].head >= FirstAllocatable
                      /\ inode'[m].head \in Blocks =>
                           \A e \in InFile(m)' :
                             Named(m, e)' >= FirstAllocatable
    BY DEF MetadataSafe
  <2>1. f[1] \in Bits /\ f[2] \in Bits
    BY <1>2, <1>3, <1>4
  <2>2. CASE m = n
    <3>1. InFile(m)' = {e \in Entries : e <= 0}
      <4>1. 0 \div BlockSize = 0
        BY DiskAssumption
      <4> QED
        BY <1>7, <2>2, <4>1 DEF InFile
    <3>2. \A e \in InFile(m)' : e = 0 /\ e \in Slots
      BY <3>1 DEF Entries, Slots
    <3>3. inode'[m].head = f[1]
      BY <1>7, <2>2
    <3>4. ASSUME f[1] \in Blocks, NEW e \in InFile(m)'
          PROVE  Named(m, e)' = f[2]
      BY <1>8, <2>2, <3>2, <3>4
    <3> QED
      BY <2>1, <3>3, <3>4, BitsFacts
  <2>3. CASE m # n
    <3>1. inode[m].used /\ ~(Bits \subseteq bitmap)
      BY <1>1, <1>3, <2>3
    <3>2. inode'[m] = inode[m] /\ EntriesOf(m)' = EntriesOf(m)
      BY <1>6, <2>3, <3>1
    <3> QED
      BY <3>1, <3>2 DEF MetadataSafe, InFile, Named
  <2> QED
    BY <2>2, <2>3
<1> QED
  BY <1>5, <1>9, <1>10

\* What ifile_grow() leaves in an entry: what it was, nothing, or one of the
\* new blocks, when all of them could be allocated.
LEMMA GrownEntry ==
  ASSUME NEW entry, NEW current \in Int, NEW last \in Int, NEW f,
         Fresh(last - current, f), NEW e \in Entries
  PROVE  \/ /\ e \in current + 1 .. last
            /\ e - current \in 1 .. last - current
            /\ \A i \in 1 .. last - current : f[i] # NoBlock
            /\ Grown(entry, current, last, f)[e] = f[e - current]
         \/ /\ e \in current + 1 .. last
            /\ \E i \in 1 .. last - current : f[i] = NoBlock
            /\ Grown(entry, current, last, f)[e] \in {entry[e], NoBlock}
         \/ /\ e \notin current + 1 .. last
            /\ Grown(entry, current, last, f)[e] = entry[e]
<1> DEFINE failed == {i \in DOMAIN f : f[i] = NoBlock}
<1>1. e \in Int
  BY DiskAssumption DEF Entries
<1>2. DOMAIN f = 1 .. last - current
  BY DEF Fresh
<1>3. Grown(entry, current, last, f)[e] =
        IF e \notin current + 1 .. last THEN entry[e]
        ELSE IF failed = {} THEN f[e - current]
        ELSE IF \E i \in failed : \A j \in failed : i <= j /\ e - current <= i
        THEN NoBlock
        ELSE entry[e]
  BY DEF Grown
<1>4. e \in current + 1 .. last => e - current \in 1 .. last - current
  BY <1>1
<1>5. CASE e \notin current + 1 .. last
  BY <1>3, <1>5
<1>6. CASE e \in current + 1 .. last /\ failed = {}
  BY <1>2, <1>3, <1>4, <1>6
<1>7. CASE e \in current + 1 .. last /\ failed # {}
  <2>1. \E i \in 1 .. last - current : f[i] = NoBlock
    BY <1>2, <1>7
  <2>2. Grown(entry, current, last, f)[e] \in {entry[e], NoBlock}
    BY <1>3, <1>7
  <2> QED
    BY <1>7, <2>1, <2>2
<1> QED
  BY <1>5, <1>6, <1>7

\* ifile_write() names blocks that nobody named, in the entries it adds.
LEMMA WriteStep ==
  ASSUME IInv, NEW n \in Inodes, NEW to \in Nat, NEW len \in Nat, NEW v,
         Write(n, to, len, v)
  PROVE  IInv'
<1> USE DEF IInv, TableOK
<1> DEFINE size    == inode[n].size
           head    == inode[n].head
           current == size \div BlockSize
           grows   == to + len > size
           last    == IF grows THEN (to + len) \div BlockSize ELSE current
<1>1. /\ size \in 0 .. MaxSize /\ size \in Nat /\ to + len \in Nat
      /\ current \in Int /\ last \in Int
  <2>1. size \in 0 .. MaxSize /\ size \in Nat
    BY BitsFacts
  <2>2. \A k \in Nat : k \div BlockSize \in Int
    BY DiskAssumption
  <2> QED
    BY <2>1, <2>2
<1>2. PICK f \in Allocations(last - current) :
        LET entry == Grown(EntriesOf(n), current, last, f) IN
        /\ state' = Mistake(n, entry, to, len)
        /\ IF state' = "running"
           THEN /\ inode' = [inode EXCEPT
                               ![n].size = IF grows THEN to + len ELSE size]
                /\ Set(f)
                /\ pointers' = [pointers EXCEPT ![head] = entry]
                /\ data' = Stored(entry, to, len, v)
                /\ reply' = Done(<<>>)
           ELSE UNCHANGED <<inode, bitmap, pointers, data, reply>>
  BY DEF Write
<1> DEFINE entry == Grown(EntriesOf(n), current, last, f)
<1>3. Fresh(last - current, f)
  BY <1>1, AllocationsFresh
<1>4. CASE state' # "running"
  <2>1. UNCHANGED <<inode, bitmap, pointers>>
    BY <1>2, <1>4
  <2> QED
    BY <2>1 DEF HeadAllocated, NoSharing, NamedIsSet, MetadataSafe, InFile,
       Named, EntriesOf
<1>5. CASE state' = "running"
  <2>1. /\ inode[n].used /\ to + len \in 0 .. MaxSize
        /\ head \in Blocks /\ head \in Bits
    BY <1>1, <1>2, <1>5, BitsFacts DEF Write, Mistake, HeadAllocated
  <2>2. /\ inode' = [inode EXCEPT
                       ![n].size = IF grows THEN to + len ELSE size]
        /\ Set(f)
        /\ pointers' = [pointers EXCEPT ![head] = entry]
    BY <1>2, <1>5
  <2>3. bitmap' = bitmap \cup
                    ({f[i] : i \in 1 .. last - current} \ {NoBlock})
    BY <1>3, <2>2 DEF Set, Fresh
  <2>4. /\ \A m \in Inodes : /\ inode'[m].used = inode[m].used
                             /\ inode'[m].head = inode[m].head
        /\ inode'[n].size = IF grows THEN to + len ELSE size
        /\ \A m \in Inodes : m # n => inode'[m] = inode[m]
    BY <2>2
  <2>5. ASSUME NEW m \in Inodes, m # n, inode[m].used
        PROVE  EntriesOf(m)' = EntriesOf(m)
    <3>1. inode[m].head # head
      <4>1. Named(m, -1) = inode[m].head /\ Named(n, -1) = head
        BY DEF Named
      <4> QED
        BY <2>1, <2>5, <4>1 DEF NoSharing, Slots
    <3> QED
      BY <2>2, <2>4, <3>1 DEF EntriesOf
  <2>6. EntriesOf(n) = pointers[head] /\ EntriesOf(n)' = entry
    BY <2>1, <2>2, <2>4 DEF EntriesOf
  <2>7. \A e \in Entries : EntriesOf(n)[e] \in Bits \cup {0, NoBlock}
    BY <2>1, <2>6
  <2>8. \A i \in 1 .. last - current : f[i] \in (Bits \ bitmap) \cup {NoBlock}
    BY <1>3 DEF Fresh
  <2>9. TableOK'
    <3>1. inode' \in [Inodes -> [used : BOOLEAN, size : 0 .. MaxSize,
                                 head : Bits \cup {0, NoBlock}]]
      BY <1>1, <2>1, <2>2
    <3>2. bitmap' \subseteq Bits
      BY <2>3, <2>8
    <3>3. entry \in [Entries -> Bits \cup {0, NoBlock}]
      <4>1. \A e \in Entries : entry[e] \in Bits \cup {0, NoBlock}
        BY <1>1, <1>3, <2>7, <2>8, GrownEntry
      <4>2. entry = [e \in Entries |-> entry[e]]
        BY DEF Grown
      <4> HIDE DEF entry
      <4> QED
        BY <4>1, <4>2
    <3>4. pointers' \in [Blocks -> [Entries -> Bits \cup {0, NoBlock}]]
      <4> HIDE DEF entry
      <4> QED
        BY <2>2, <3>3
    <3>5. HeadAllocated'
      BY <2>4 DEF HeadAllocated
    <3> QED
      BY <3>1, <3>2, <3>4, <3>5
  <2>10. NoSharing' /\ NamedIsSet'
    <3> DEFINE added == {e \in Entries :
                           /\ e \in current + 1 .. last
                           /\ \A i \in 1 .. last - current : f[i] # NoBlock}
               New == {n} \X added
    <3>1. ASSUME NEW e \in added
          PROVE  /\ Named(n, e)' = f[e - current]
                 /\ e - current \in 1 .. last - current
                 /\ f[e - current] \in Bits \ bitmap
      <4>1. e \in Entries /\ e # -1
        BY DEF Entries
      <4>2. Named(n, e)' = entry[e]
        BY <2>6, <4>1 DEF Named
      <4>3. entry[e] = f[e - current] /\ e - current \in 1 .. last - current
        BY <1>1, <1>3, <4>1, GrownEntry
      <4> QED
        BY <2>8, <4>2, <4>3
    <3>2. ASSUME NEW m \in Inodes, NEW s \in Slots, <<m, s>> \notin New,
                 inode'[m].used, Named(m, s)' \in Bits
          PROVE  inode[m].used /\ Named(m, s)' = Named(m, s)
      <4>1. inode[m].used
        BY <2>4, <3>2
      <4>2. CASE m # n
        BY <2>4, <2>5, <4>1, <4>2 DEF Named
      <4>3. CASE m = n /\ s = -1
        BY <2>4, <4>1, <4>3 DEF Named
      <4>4. CASE m = n /\ s # -1
        <5>1. s \in Entries /\ s \notin added
          BY <3>2, <4>4 DEF Slots
        <5>2. Named(n, s)' = entry[s] /\ Named(n, s) = EntriesOf(n)[s]
          BY <2>6, <4>4 DEF Named
        <5>3. entry[s] \in {EntriesOf(n)[s], NoBlock}
          BY <1>1, <1>3, <5>1, GrownEntry
        <5>4. entry[s] # NoBlock
          BY <3>2, <4>4, <5>2, BitsFacts
        <5> QED
          BY <4>1, <4>4, <5>2, <5>3, <5>4
      <4> QED
        BY <4>2, <4>3, <4>4
    <3>3. ASSUME NEW m \in Inodes, NEW s \in Slots,
                 inode'[m].used, Named(m, s)' \in Bits
          PROVE  IF <<m, s>> \in New THEN Named(m, s)' \in bitmap' \ bitmap
                 ELSE inode[m].used /\ Named(m, s)' = Named(m, s)
      <4>1. CASE <<m, s>> \in New
        <5>1. m = n /\ s \in added
          BY <4>1
        <5>2. Named(n, s)' \in bitmap' \ bitmap
          BY <2>3, <3>1, <5>1, BitsFacts
        <5> QED
          BY <4>1, <5>1, <5>2
      <4>2. CASE <<m, s>> \notin New
        BY <3>2, <3>3, <4>2
      <4> QED
        BY <4>1, <4>2
    <3>4. ASSUME NEW m \in Inodes, NEW p \in Inodes, NEW s \in Slots,
                 NEW t \in Slots, <<m, s>> \in New, <<p, t>> \in New,
                 Named(m, s)' \in Bits, Named(m, s)' = Named(p, t)'
          PROVE  m = p /\ s = t
      <4>1. m = n /\ p = n /\ s \in added /\ t \in added
        BY <3>4
      <4>2. f[s - current] = f[t - current] /\ f[s - current] # NoBlock
        BY <3>1, <3>4, <4>1, BitsFacts
      <4>3. s - current = t - current
        BY <1>3, <3>1, <4>1, <4>2 DEF Fresh
      <4> QED
        BY <1>1, <4>1, <4>3 DEF Entries
    <3>5. NoSharing /\ NamedIsSet /\ bitmap \subseteq bitmap'
      BY <2>3
    <3> HIDE DEF New
    <3> QED
      BY <3>3, <3>4, <3>5, NamesStep
  <2>11. MetadataSafe'
    <3> SUFFICES ASSUME ~(Bits \subseteq bitmap'), NEW m \in Inodes,
                        inode'[m].used
                 PROVE  /\ inode'[m].head >= FirstAllocatable
                        /\ inode'[m].head \in Blocks =>
                             \A e \in InFile(m)' :
                               Named(m, e)' >= FirstAllocatable
      BY DEF MetadataSafe
    <3>1. inode[m].used /\ ~(Bits \subseteq bitmap)
      BY <2>3, <2>4
    <3>2. inode'[m].head >= FirstAllocatable
      BY <2>4, <3>1 DEF MetadataSafe
    <3>3. CASE m # n
      BY <2>4, <2>5, <3>1, <3>3 DEF MetadataSafe, InFile, Named
    <3>4. CASE m = n
      <4>1. \A i \in 1 .. last - current : f[i] # NoBlock
        BY <1>3, <2>3, BitsFacts DEF Fresh
      <4>2. ASSUME NEW e \in InFile(n)' PROVE Named(n, e)' >= FirstAllocatable
        <5>1. e \in Entries /\ e # -1 /\ e \in Int /\ e <= last
          BY <1>1, <2>4 DEF InFile, Entries
        <5>2. Named(n, e)' = entry[e] /\ Named(n, e) = EntriesOf(n)[e]
          BY <2>6, <5>1 DEF Named
        <5>3. CASE e <= current
          <6>1. Named(n, e) >= FirstAllocatable
            BY <2>1, <3>1, <5>1, <5>3 DEF MetadataSafe, InFile
          <6>2. entry[e] = EntriesOf(n)[e]
            BY <1>1, <1>3, <5>1, <5>3, GrownEntry
          <6> QED
            BY <5>2, <6>1, <6>2
        <5>4. CASE e > current
          <6>1. /\ entry[e] = f[e - current]
                /\ e - current \in 1 .. last - current
            BY <1>1, <1>3, <4>1, <5>1, <5>4, GrownEntry
          <6> QED
            BY <2>8, <4>1, <5>2, <6>1, BitsFacts
        <5> QED
          BY <1>1, <5>1, <5>3, <5>4
      <4> QED
        BY <3>2, <3>4, <4>2
    <3> QED
      BY <3>3, <3>4
  <2> QED
    BY <2>9, <2>10, <2>11
<1> QED
  BY <1>4, <1>5

-----------------------------------------------------------------------------
\* No two slots ever name the same allocated block, every named block stays
\* set in the bitmap, and until the bitmap is full no file reaches the
\* metadata: the invariant is inductive.
THEOREM Invariant == Spec => []IInv
<1>1. Init => IInv
  <2> SUFFICES ASSUME Init PROVE IInv
    OBVIOUS
  <2>1. \A n \in Inodes : ~inode[n].used
    BY DEF Init
  <2>2. inode \in [Inodes -> [used : BOOLEAN, size : 0 .. MaxSize,
                              head : Bits \cup {0, NoBlock}]]
    BY BitsFacts DEF Init
  <2>3. bitmap \subseteq Bits
    BY DEF Init
  <2>4. pointers \in [Blocks -> [Entries -> Bits \cup {0, NoBlock}]]
    BY DEF Init
  <2> QED
    BY <2>1, <2>2, <2>3, <2>4
       DEF IInv, TableOK, HeadAllocated, NoSharing, NamedIsSet, MetadataSafe
<1>2. IInv /\ [Next]_vars => IInv'
  <2> SUFFICES ASSUME IInv, [Next]_vars PROVE IInv'
    OBVIOUS
  <2>1. ASSUME UNCHANGED <<inode, bitmap, pointers>> PROVE IInv'
    BY <2>1 DEF IInv, TableOK, HeadAllocated, NoSharing, NamedIsSet,
       MetadataSafe, InFile, Named, EntriesOf
  <2>2. ASSUME NEW n \in Inodes, Create(n) PROVE IInv'
    BY <2>2, CreateStep
  <2>3. ASSUME NEW n \in Inodes, CreateFails(n) PROVE IInv'
    BY <2>1, <2>3 DEF CreateFails
  <2>4. ASSUME NEW n \in Inodes, NEW at \in 0 .. MaxSize - 1,
               NEW len \in 0 .. MaxLength,
               Read(n, at, len) \/ ReadFails(n, at, len)
        PROVE  IInv'
    BY <2>1, <2>4 DEF Read, ReadFails
  <2>5. ASSUME NEW n \in Inodes, NEW at \in 0 .. MaxSize - 1,
               NEW len \in 0 .. MaxLength, NEW v \in Values,
               Write(n, at, len, v)
        PROVE  IInv'
    <3>1. at \in Nat /\ len \in Nat
      BY BitsFacts, DiskAssumption
    <3> QED
      BY <2>5, <3>1, WriteStep
  <2>6. CASE UNCHANGED vars
    BY <2>1, <2>6 DEF vars
  <2> QED
    BY <2>2, <2>3, <2>4, <2>5, <2>6 DEF Next
<1> QED
  BY <1>1, <1>2, PTL DEF Spec

\* Files do not share blocks, on a disk of any size, full or not.
THEOREM FilesApart == Spec => []NoSharing
<1>1. IInv => NoSharing
  BY DEF IInv
<1> QED
  BY <1>1, Invariant, PTL

\* A named block is never given away again.
THEOREM NamedStaySet == Spec => []NamedIsSet
<1>1. IInv => NamedIsSet
  BY DEF IInv
<1> QED
  BY <1>1, Invariant, PTL

\* Until the bitmap is full, the bytes of files stay off the metadata.
THEOREM MetadataApart == Spec => []MetadataSafe
<1>1. IInv => MetadataSafe
  BY DEF IInv
<1> QED
  BY <1>1, Invariant, PTL

-----------------------------------------------------------------------------
(* Offsets in a file as the number of a block and a place in it.           *)

LEMMA DivFacts ==
  ASSUME NEW k \in Nat
  PROVE  /\ k \div BlockSize \in Nat /\ k % BlockSize \in 0 .. BlockSize - 1
         /\ k = (k \div BlockSize) * BlockSize + (k % BlockSize)
<1>1. PICK q \in Int, r \in 0 .. BlockSize - 1 :
        q = k \div BlockSize /\ r = k % BlockSize /\ k = q * BlockSize + r
  BY DiskAssumption
<1>2. ASSUME q < 0 PROVE FALSE
  <2>1. PICK d \in Nat : q = -1 - d
    BY <1>2
  <2>2. PICK B \in Nat : B = BlockSize /\ B >= 1
    BY DiskAssumption
  <2>3. q * B = -B - d * B /\ d * B \in Nat
    BY <2>1, <2>2
  <2> QED
    BY <1>1, <2>2, <2>3
<1>3. q \in Nat
  BY <1>2
<1>4. k = (k \div BlockSize) * BlockSize + (k % BlockSize)
  BY <1>1
<1> QED
  BY <1>1, <1>3, <1>4, Zenon

LEMMA DivMono ==
  ASSUME NEW j \in Nat, NEW k \in Nat, j <= k
  PROVE  j \div BlockSize <= k \div BlockSize
<1> DEFINE p == j \div BlockSize
           q == k \div BlockSize
           r == j % BlockSize
           s == k % BlockSize
           B == BlockSize
<1>1. /\ p \in Nat /\ q \in Nat /\ B \in Nat /\ B >= 1
      /\ r \in 0 .. B - 1 /\ s \in 0 .. B - 1
      /\ j = p * B + r /\ k = q * B + s
  BY DivFacts, DiskAssumption
<1> HIDE DEF p, q, r, s, B
<1>2. ASSUME q < p PROVE FALSE
  <2>1. p = q + 1 + (p - q - 1) /\ p - q - 1 >= 0
    BY <1>1, <1>2
  <2> DEFINE d == p - q - 1
  <2>2. d \in Nat /\ p = q + 1 + d
    BY <1>1, <2>1
  <2> HIDE DEF d
  <2>3. p * B = q * B + B + d * B
    BY <1>1, <2>2
  <2>4. d * B >= 0 /\ d * B \in Int /\ q * B \in Int
    BY <1>1, <2>2
  <2> QED
    BY <1>1, <2>3, <2>4
<1>3. p <= q
  BY <1>1, <1>2
<1> QED
  BY <1>3 DEF p, q

\* Every byte keeps its type, whatever the callers do.
THEOREM TypeCorrect == Spec => []TypeOK
<1> DEFINE Rest ==
      /\ data \in [Blocks -> [0 .. BlockSize - 1 -> Bytes]]
      /\ reply.code \in {0, -1}
      /\ state \in {"running", "overrun", "lost", "clobbered"}
<1>1. Init => Rest
  BY DEF Init, Bytes, Done
<1>2. IInv /\ Rest /\ [Next]_vars => Rest'
  <2> SUFFICES ASSUME IInv, Rest, [Next]_vars PROVE Rest'
    OBVIOUS
  <2>1. ASSUME UNCHANGED <<data, state>>, reply' = reply \/ reply' = Error
               \/ \E bytes : reply' = Done(bytes)
        PROVE  Rest'
    BY <2>1 DEF Done, Error
  <2>2. ASSUME NEW n \in Inodes, Create(n) PROVE Rest'
    BY <2>1, <2>2 DEF Create
  <2>3. ASSUME NEW n \in Inodes, CreateFails(n) PROVE Rest'
    BY <2>1, <2>3 DEF CreateFails
  <2>4. ASSUME NEW n \in Inodes, NEW at, NEW len,
               Read(n, at, len) \/ ReadFails(n, at, len)
        PROVE  Rest'
    BY <2>1, <2>4 DEF Read, ReadFails, Done, Error
  <2>5. ASSUME NEW n \in Inodes, NEW to \in 0 .. MaxSize - 1,
               NEW len \in 0 .. MaxLength, NEW v \in Values,
               Write(n, to, len, v)
        PROVE  Rest'
    <3>1. ASSUME NEW entry, data' = Stored(entry, to, len, v),
                 to + len <= MaxSize
          PROVE  data' \in [Blocks -> [0 .. BlockSize - 1 -> Bytes]]
      <4> SUFFICES ASSUME NEW b \in Blocks, NEW i \in 0 .. BlockSize - 1
                   PROVE  Stored(entry, to, len, v)[b][i] \in Bytes
        BY <3>1 DEF Stored
      <4> DEFINE Written(e) == /\ entry[e] = b
                               /\ e * BlockSize + i \in to .. to + len - 1
                 e == CHOOSE e \in Entries : Written(e)
      <4>1. Stored(entry, to, len, v)[b][i] =
              IF \E x \in Entries : Written(x) THEN <<v, e * BlockSize + i>>
              ELSE data[b][i]
        BY DEF Stored
      <4>2. CASE \E x \in Entries : Written(x)
        <5>1. Written(e)
          BY <4>2
        <5> HIDE DEF e
        <5>2. e * BlockSize + i \in 0 .. MaxSize
          BY <3>1, <5>1, DiskAssumption, BitsFacts
        <5> QED
          BY <4>1, <4>2, <5>2 DEF Bytes
      <4>3. CASE ~\E x \in Entries : Written(x)
        BY <4>1, <4>3
      <4> QED
        BY <4>2, <4>3
    <3>2. \/ \E entry : /\ data' = Stored(entry, to, len, v)
                        /\ to + len <= MaxSize /\ reply' = Done(<<>>)
          \/ UNCHANGED <<data, reply>>
      BY <2>5, Zenon DEF Write
    <3>3. state' \in {"running", "overrun", "lost", "clobbered"}
      <4>1. \E entry : state' = Mistake(n, entry, to, len)
        BY <2>5, Zenon DEF Write
      <4> QED
        BY <4>1 DEF Mistake
    <3> QED
      BY <3>1, <3>2, <3>3 DEF Done
  <2>6. CASE UNCHANGED vars
    BY <2>1, <2>6 DEF vars
  <2> QED
    BY <2>2, <2>3, <2>4, <2>5, <2>6 DEF Next
<1>3. IInv /\ Rest => TypeOK
  BY DEF IInv, TableOK, TypeOK
<1> QED
  BY <1>1, <1>2, <1>3, Invariant, PTL DEF Spec

-----------------------------------------------------------------------------
(* What holds for careful callers.                                         *)

\* The number of the block where a file of this size ends.
LastBlock(n) == inode[n].size \div BlockSize

\* Every entry up to the end of the file has a block on the disk, and those
\* after it none.
Usable(n) ==
  /\ inode[n].head \in Blocks
  /\ LastBlock(n) \in Entries
  /\ \A e \in Entries :
       IF e <= LastBlock(n) THEN EntriesOf(n)[e] \in Bits \cap Blocks
       ELSE EntriesOf(n)[e] = 0

\* What was never written is unspecified: the blocks still to allocate, and
\* the bytes after the end of a file in the blocks it has.
BlankFree ==
  \A b \in Blocks \cap (Bits \ bitmap), i \in 0 .. BlockSize - 1 :
    data[b][i] = Junk
BlankEnd ==
  \A n \in Inodes, e \in Entries, i \in 0 .. BlockSize - 1 :
    /\ inode[n].used
    /\ e <= LastBlock(n)
    /\ inode[n].size <= e * BlockSize + i
    => data[EntriesOf(n)[e]][i] = Junk

CarefulInv ==
  /\ Running
  /\ \A n \in Inodes : inode[n].used => Usable(n)
  /\ BlankFree
  /\ BlankEnd

\* The entries and the size of an inode that gets new blocks f after its
\* current last one, up to a new last one.
NewLast(n, end) ==
  IF end > inode[n].size THEN end \div BlockSize ELSE LastBlock(n)
NewSize(n, end) == IF end > inode[n].size THEN end ELSE inode[n].size
Extended(n, last, f) ==
  [e \in Entries |-> IF e \in LastBlock(n) + 1 .. last
                     THEN f[e - LastBlock(n)] ELSE EntriesOf(n)[e]]

\* All that a write does, when every block it wants is there.
Writes(n, to, len, v, f) ==
  LET last  == NewLast(n, to + len)
      entry == Extended(n, last, f)
  IN  /\ inode[n].used
      /\ last \in Entries
      /\ f \in [1 .. last - LastBlock(n) -> (Bits \cap Blocks) \ bitmap]
      /\ inode' = [inode EXCEPT ![n].size = NewSize(n, to + len)]
      /\ bitmap' = bitmap \cup {f[i] : i \in 1 .. last - LastBlock(n)}
      /\ pointers' = [pointers EXCEPT ![inode[n].head] = entry]
      /\ data' = Stored(entry, to, len, v)
      /\ reply' = Done(<<>>)
      /\ state' = "running"

\* The place of a byte in a file, and the byte of a place.
LEMMA PlaceOf ==
  ASSUME NEW e \in Nat, NEW i \in 0 .. BlockSize - 1
  PROVE  /\ (e * BlockSize + i) \div BlockSize = e
         /\ (e * BlockSize + i) % BlockSize = i
         /\ e * BlockSize + i \in Nat
<1>1. PICK B \in Nat : B = BlockSize /\ B >= 1
  BY DiskAssumption
<1>2. e * B \in Nat /\ e * B + i \in Nat /\ i \in Nat
  BY <1>1
<1> DEFINE k == e * BlockSize + i
<1>3. k \in Nat
  BY <1>1, <1>2
<1>4. PICK q \in Nat, r \in 0 .. BlockSize - 1 :
        /\ q = k \div BlockSize /\ r = k % BlockSize
        /\ k = q * BlockSize + r
  <2> HIDE DEF k
  <2> QED
    BY <1>3, DivFacts
<1>5. q * B + r = e * B + i /\ r \in Nat /\ r < B /\ i < B
  BY <1>1, <1>4
<1>6. ASSUME NEW c \in Nat, NEW d \in Nat, NEW x \in 0 .. B - 1,
             NEW y \in 0 .. B - 1, c * B + x = d * B + y, c < d
      PROVE  FALSE
  <2>1. PICK g \in Nat : d = c + 1 + g
    <3>1. d - c - 1 \in Nat /\ d = c + 1 + (d - c - 1)
      BY <1>6
    <3> QED
      BY <3>1
  <2>2. d * B = c * B + B + g * B /\ g * B \in Nat /\ c * B \in Nat
    BY <1>1, <2>1
  <2> QED
    BY <1>1, <1>6, <2>2
<1>7. q = e
  BY <1>1, <1>5, <1>6
<1>8. r = i
  BY <1>1, <1>2, <1>5, <1>7
<1> QED
  BY <1>3, <1>4, <1>7, <1>8

\* A write of careful callers succeeds.
LEMMA CarefulWrite ==
  ASSUME CarefulCallers, IInv, CarefulInv,
         NEW n \in Inodes, NEW to \in Nat, NEW len \in Nat, NEW v,
         Write(n, to, len, v)
  PROVE  \E f : Writes(n, to, len, v, f)
<1> DEFINE size    == inode[n].size
           head    == inode[n].head
           current == size \div BlockSize
           grows   == to + len > size
           last    == IF grows THEN (to + len) \div BlockSize ELSE current
<1>1. /\ size \in Nat /\ to + len \in Nat /\ inode[n].used
      /\ current \in Entries /\ head \in Blocks /\ Usable(n)
      /\ current = LastBlock(n) /\ last = NewLast(n, to + len)
  BY BitsFacts DEF Write, CarefulInv, Usable, IInv, TableOK, LastBlock, NewLast
<1>2. PICK f \in Allocations(last - current) :
        LET entry == Grown(EntriesOf(n), current, last, f) IN
        /\ OnDisk(f) /\ last \in Entries
        /\ state' = Mistake(n, entry, to, len)
        /\ IF state' = "running"
           THEN /\ inode' = [inode EXCEPT
                               ![n].size = IF grows THEN to + len ELSE size]
                /\ Set(f)
                /\ pointers' = [pointers EXCEPT ![head] = entry]
                /\ data' = Stored(entry, to, len, v)
                /\ reply' = Done(<<>>)
           ELSE UNCHANGED <<inode, bitmap, pointers, data, reply>>
  BY DEF Write
<1> DEFINE entry == Grown(EntriesOf(n), current, last, f)
<1>3. /\ current \in Nat /\ last \in Nat /\ last \in Entries
      /\ Entries \subseteq Nat /\ PointersPerBlock \in Nat
  BY <1>1, <1>2, DiskAssumption DEF Entries
<1>4. /\ DOMAIN f = 1 .. last - current
      /\ f \in [1 .. last - current -> (Bits \cap Blocks) \ bitmap]
      /\ \A i \in 1 .. last - current : f[i] # NoBlock
  <2>1. Fresh(last - current, f)
    BY <1>3, AllocationsFresh
  <2>2. DOMAIN f = 1 .. last - current
    BY <2>1 DEF Fresh
  <2>3. \A i \in 1 .. last - current : f[i] \in Blocks
    BY <1>2, <2>2 DEF OnDisk
  <2> HIDE DEF last, current
  <2> QED
    BY <2>1, <2>2, <2>3, BitsFacts DEF Fresh
<1>5. entry = Extended(n, last, f)
  <2>1. {i \in DOMAIN f : f[i] = NoBlock} = {}
    BY <1>4
  <2>2. \A e \in Entries :
          entry[e] = IF e \notin current + 1 .. last THEN EntriesOf(n)[e]
                     ELSE f[e - current]
    BY <2>1 DEF Grown
  <2> QED
    BY <1>1, <2>2 DEF Grown, Extended
<1>6. (to + len) \div BlockSize <= last
  <2>1. CASE grows
    BY <1>3, <2>1
  <2>2. CASE ~grows
    BY <1>1, <2>2, DivMono
  <2> QED
    BY <2>1, <2>2
<1>7. ASSUME NEW e \in Entries, e <= last PROVE entry[e] \in Bits \cap Blocks
  <2>1. CASE e <= current
    <3>1. entry[e] = EntriesOf(n)[e]
      BY <1>1, <1>3, <1>5, <2>1 DEF Extended
    <3> QED
      BY <1>1, <2>1, <3>1 DEF Usable
  <2>2. CASE e > current
    <3>1. e \in current + 1 .. last /\ e - current \in 1 .. last - current
      BY <1>3, <1>7, <2>2
    <3>2. entry[e] = f[e - current]
      BY <1>1, <1>5, <3>1 DEF Extended
    <3> HIDE DEF current, last, entry
    <3> QED
      BY <1>4, <3>1, <3>2
  <2> QED
    BY <1>3, <1>7, <2>1, <2>2
<1>8. Mistake(n, entry, to, len) = "running"
  <2> HIDE DEF entry, current
  <2>1. /\ (to + len) \div BlockSize \in Nat /\ to \div BlockSize \in Nat
        /\ to \div BlockSize <= (to + len) \div BlockSize
    BY <1>1, DivFacts, DivMono
  <2>2. Looked(to, len) \subseteq Entries
    <3> HIDE DEF last
    <3> QED
      BY <1>3, <1>6, <2>1 DEF Looked, Entries
  <2>3. ASSUME NEW e \in Reached(to, len)
        PROVE  entry[e] \notin 0 .. FirstAllocatable - 1
    <3>1. PICK o \in to .. to + len - 1 : e = o \div BlockSize
      BY DEF Reached
    <3>2. o \in Nat /\ o <= to + len
      BY <1>1
    <3>3. e \in Nat /\ e <= (to + len) \div BlockSize
      BY <1>1, <3>1, <3>2, DivFacts, DivMono
    <3> HIDE DEF last
    <3>4. e \in Entries /\ e <= last
      BY <1>3, <1>6, <2>1, <3>3 DEF Entries
    <3>5. entry[e] \in Bits
      BY <1>7, <3>4
    <3> QED
      BY <3>5, BitsFacts
  <2> QED
    BY <1>1, <2>2, <2>3 DEF Mistake
<1>9. /\ state' = "running"
      /\ inode' = [inode EXCEPT
                     ![n].size = IF grows THEN to + len ELSE size]
      /\ Set(f)
      /\ pointers' = [pointers EXCEPT ![head] = entry]
      /\ data' = Stored(entry, to, len, v)
      /\ reply' = Done(<<>>)
  BY <1>2, <1>8, Zenon
<1>10. bitmap' = bitmap \cup {f[i] : i \in 1 .. last - current}
  BY <1>4, <1>9 DEF Set
<1>11. (IF grows THEN to + len ELSE size) = NewSize(n, to + len)
  BY DEF NewSize
<1> HIDE DEF entry, last, grows
<1> QED
  BY <1>1, <1>3, <1>4, <1>5, <1>9, <1>10, <1>11 DEF Writes

\* How far a write reaches.
LEMMA NewEnd ==
  ASSUME IInv, NEW n \in Inodes, NEW end \in 0 .. MaxSize
  PROVE  /\ inode[n].size \in Nat /\ inode[n].size \in 0 .. MaxSize
         /\ NewSize(n, end) \in Nat /\ NewSize(n, end) \in 0 .. MaxSize
         /\ end <= NewSize(n, end) /\ inode[n].size <= NewSize(n, end)
         /\ LastBlock(n) \in Nat /\ NewLast(n, end) \in Nat
         /\ NewLast(n, end) = NewSize(n, end) \div BlockSize
         /\ LastBlock(n) <= NewLast(n, end)
         /\ end \div BlockSize <= NewLast(n, end)
<1>1. inode[n].size \in Nat /\ inode[n].size \in 0 .. MaxSize /\ end \in Nat
  BY BitsFacts DEF IInv, TableOK
<1>2. /\ NewSize(n, end) \in Nat /\ NewSize(n, end) \in 0 .. MaxSize
      /\ end <= NewSize(n, end) /\ inode[n].size <= NewSize(n, end)
  BY <1>1 DEF NewSize
<1>3. NewLast(n, end) = NewSize(n, end) \div BlockSize
  BY DEF NewLast, NewSize, LastBlock
<1> QED
  BY <1>1, <1>2, <1>3, DivFacts, DivMono DEF LastBlock

\* The entries of the files once a write is done.
LEMMA WriteEntries ==
  ASSUME IInv, CarefulInv, IInv',
         NEW n \in Inodes, NEW to \in Nat, NEW len \in Nat, NEW v, NEW f,
         to + len <= MaxSize, Writes(n, to, len, v, f)
  PROVE  LET last == NewLast(n, to + len)
         IN  /\ \A m \in Inodes : inode'[m].used = inode[m].used
             /\ \A m \in Inodes : inode'[m].head = inode[m].head
             /\ \A m \in Inodes : m # n => inode'[m] = inode[m]
             /\ inode'[n].size = NewSize(n, to + len)
             /\ inode[n].used
             /\ EntriesOf(n)' = Extended(n, last, f)
             /\ \A m \in Inodes : m # n /\ inode[m].used =>
                  EntriesOf(m)' = EntriesOf(m)
             /\ \A e \in Entries : e <= LastBlock(n) =>
                  EntriesOf(n)'[e] = EntriesOf(n)[e]
             /\ \A e \in Entries : e > LastBlock(n) /\ e <= last =>
                  EntriesOf(n)'[e] \in (Bits \cap Blocks) \ bitmap
             /\ \A e \in Entries :
                  IF e <= last THEN EntriesOf(n)'[e] \in Bits \cap Blocks
                  ELSE EntriesOf(n)'[e] = 0
<1> DEFINE last == NewLast(n, to + len)
           entry == Extended(n, last, f)
           head == inode[n].head
<1>1. /\ inode[n].used
      /\ last \in Entries
      /\ f \in [1 .. last - LastBlock(n) -> (Bits \cap Blocks) \ bitmap]
      /\ inode' = [inode EXCEPT ![n].size = NewSize(n, to + len)]
      /\ pointers' = [pointers EXCEPT ![inode[n].head] = entry]
  BY DEF Writes
<1>2. Usable(n) /\ LastBlock(n) \in Nat /\ last \in Nat /\ Entries \subseteq Nat
      /\ LastBlock(n) <= last
  <2>1. to + len \in 0 .. MaxSize
    BY BitsFacts
  <2>2. Entries \subseteq Nat
    BY DiskAssumption DEF Entries
  <2> QED
    BY <1>1, <2>1, <2>2, NewEnd DEF CarefulInv
<1>3. /\ \A m \in Inodes : inode'[m].used = inode[m].used
      /\ \A m \in Inodes : inode'[m].head = inode[m].head
      /\ \A m \in Inodes : m # n => inode'[m] = inode[m]
      /\ inode'[n].size = NewSize(n, to + len)
  BY <1>1 DEF IInv, TableOK
<1>4. head \in Blocks /\ head \in Bits
  BY <1>1, <1>2, BitsFacts DEF Usable, IInv, TableOK, HeadAllocated
<1>5. EntriesOf(n)' = entry
  <2> HIDE DEF entry
  <2> QED
    BY <1>1, <1>3, <1>4 DEF EntriesOf, IInv, TableOK
<1>6. ASSUME NEW m \in Inodes, m # n, inode[m].used
      PROVE  EntriesOf(m)' = EntriesOf(m)
  <2>1. inode[m].head # head
    <3>1. Named(m, -1) = inode[m].head /\ Named(n, -1) = head
      BY DEF Named
    <3> QED
      BY <1>1, <1>4, <1>6, <3>1 DEF IInv, NoSharing, Slots
  <2> HIDE DEF entry
  <2> QED
    BY <1>1, <1>3, <2>1 DEF EntriesOf, IInv, TableOK
<1>7. ASSUME NEW e \in Entries, e <= LastBlock(n)
      PROVE  entry[e] = EntriesOf(n)[e]
  BY <1>2, <1>7 DEF Extended
<1>8. ASSUME NEW e \in Entries, e > LastBlock(n), e <= last
      PROVE  entry[e] \in (Bits \cap Blocks) \ bitmap
  <2>1. e \in LastBlock(n) + 1 .. last
        /\ e - LastBlock(n) \in 1 .. last - LastBlock(n)
    BY <1>2, <1>8
  <2>2. entry[e] = f[e - LastBlock(n)]
    BY <2>1 DEF Extended
  <2> HIDE DEF entry, last
  <2> QED
    BY <1>1, <2>1, <2>2
<1>9. ASSUME NEW e \in Entries, e > last PROVE entry[e] = 0
  <2>1. e \notin LastBlock(n) + 1 .. last /\ ~(e <= LastBlock(n))
    BY <1>2, <1>9
  <2> QED
    BY <1>2, <2>1 DEF Extended, Usable
<1>10. ASSUME NEW e \in Entries, e <= last PROVE entry[e] \in Bits \cap Blocks
  <2>1. CASE e <= LastBlock(n)
    BY <1>2, <1>7, <2>1 DEF Usable
  <2>2. CASE e > LastBlock(n)
    BY <1>8, <1>10, <2>2
  <2> QED
    BY <1>2, <2>1, <2>2
<1>11. \A e \in Entries : e <= last \/ e > last
  BY <1>2
<1>12. \A e \in Entries : IF e <= last THEN entry[e] \in Bits \cap Blocks
                          ELSE entry[e] = 0
  <2> HIDE DEF entry, last
  <2> QED
    BY <1>9, <1>10, <1>11
<1> HIDE DEF entry
<1> QED
  BY <1>1, <1>3, <1>5, <1>6, <1>7, <1>8, <1>12 DEF entry

\* A write changes the bytes it is given, each in the one place it has.
LEMMA ByteStored ==
  ASSUME IInv, CarefulInv, IInv',
         NEW n \in Inodes, NEW to \in Nat, NEW len \in Nat, NEW v, NEW f,
         to + len <= MaxSize, Writes(n, to, len, v, f),
         NEW b \in Blocks, NEW i \in 0 .. BlockSize - 1
  PROVE  /\ \A e \in Entries :
              /\ e <= NewLast(n, to + len)
              /\ EntriesOf(n)'[e] = b
              => data'[b][i] = IF e * BlockSize + i \in to .. to + len - 1
                               THEN <<v, e * BlockSize + i>>
                               ELSE data[b][i]
         /\ (\A e \in Entries : e <= NewLast(n, to + len) =>
               EntriesOf(n)'[e] # b)
              => data'[b][i] = data[b][i]
<1> DEFINE last == NewLast(n, to + len)
           entry == Extended(n, last, f)
           Holds(e) == /\ entry[e] = b
                       /\ e * BlockSize + i \in to .. to + len - 1
           h == CHOOSE e \in Entries : Holds(e)
<1>1. data'[b][i] = IF \E e \in Entries : Holds(e)
                    THEN <<v, h * BlockSize + i>>
                    ELSE data[b][i]
  BY DEF Writes, Stored
<1>2. EntriesOf(n)' = entry /\ inode'[n].used
  BY WriteEntries
<1>3. ASSUME NEW e \in Entries, Holds(e) PROVE e <= last /\ entry[e] \in Bits
  <2>1. e \in Nat
    BY DiskAssumption DEF Entries
  <2>2. PICK k \in Nat : k = e * BlockSize + i /\ k \div BlockSize = e
    BY <2>1, PlaceOf
  <2>3. k <= to + len /\ to + len \in Nat /\ to + len \in 0 .. MaxSize
    BY <1>3, <2>2
  <2>4. e <= (to + len) \div BlockSize
    BY <2>2, <2>3, DivMono
  <2>5. /\ (to + len) \div BlockSize <= last /\ last \in Nat
        /\ (to + len) \div BlockSize \in Nat
    BY <2>3, NewEnd, DivFacts
  <2>6. e <= last
    <3> HIDE DEF last
    <3> QED
      BY <2>1, <2>4, <2>5
  <2> QED
    BY <1>2, <2>6, WriteEntries
<1>4. ASSUME NEW x \in Entries, NEW y \in Entries, Holds(x), entry[y] = b
      PROVE  x = y
  <2>1. b \in Bits /\ x # -1 /\ y # -1 /\ x \in Slots /\ y \in Slots
    BY <1>3, <1>4, DiskAssumption DEF Slots, Entries
  <2>2. Named(n, x)' = b /\ Named(n, y)' = b
    BY <1>2, <1>4, <2>1 DEF Named
  <2> QED
    BY <1>2, <2>1, <2>2 DEF IInv, NoSharing
<1>5. ASSUME NEW e \in Entries, e <= last, entry[e] = b
      PROVE  data'[b][i] = IF e * BlockSize + i \in to .. to + len - 1
                           THEN <<v, e * BlockSize + i>> ELSE data[b][i]
  <2>1. CASE e * BlockSize + i \in to .. to + len - 1
    <3>1. Holds(e)
      BY <1>5, <2>1
    <3>2. Holds(h) /\ h \in Entries
      BY <3>1
    <3> HIDE DEF h
    <3>3. h = e
      BY <1>4, <1>5, <3>2
    <3> QED
      BY <1>1, <2>1, <3>1, <3>3
  <2>2. CASE e * BlockSize + i \notin to .. to + len - 1
    <3>1. ~\E x \in Entries : Holds(x)
      BY <1>4, <1>5, <2>2
    <3> QED
      BY <1>1, <2>2, <3>1
  <2> QED
    BY <2>1, <2>2
<1>6. ASSUME \A e \in Entries : e <= last => entry[e] # b
      PROVE  data'[b][i] = data[b][i]
  <2>1. ~\E x \in Entries : Holds(x)
    BY <1>3, <1>6
  <2> QED
    BY <1>1, <2>1
<1> HIDE DEF entry, last
<1> QED
  BY <1>2, <1>5, <1>6 DEF last

\* All that a creation does, when both blocks it wants are there.
Creates(n, h, b) ==
  /\ h \in (Bits \cap Blocks) \ bitmap
  /\ b \in (Bits \cap Blocks) \ bitmap
  /\ h # b
  /\ inode' = [inode EXCEPT ![n] = [used |-> TRUE, size |-> 0, head |-> h]]
  /\ pointers' = [c \in Blocks |->
       IF c = h THEN [e \in Entries |-> IF e = 0 THEN b ELSE 0]
       ELSE pointers[c]]
  /\ bitmap' = bitmap \cup {h, b}
  /\ reply' = Done(<<>>)
  /\ UNCHANGED <<data, state>>

\* Careful callers get both blocks.
LEMMA CarefulCreate ==
  ASSUME CarefulCallers, IInv, NEW n \in Inodes, Create(n)
  PROVE  \E h, b : Creates(n, h, b)
<1>1. PICK f \in Allocations(2) :
        /\ OnDisk(f)
        /\ inode' = [inode EXCEPT
                       ![n] = [used |-> TRUE, size |-> 0, head |-> f[1]]]
        /\ pointers' = [b \in Blocks |->
             IF b = f[1] THEN [e \in Entries |-> IF e = 0 THEN f[2] ELSE 0]
             ELSE pointers[b]]
        /\ Set(f)
  BY DEF Create
<1>2. Fresh(2, f)
  BY AllocationsFresh
<1>3. DOMAIN f = 1 .. 2 /\ 1 \in DOMAIN f /\ 2 \in DOMAIN f
  BY <1>2 DEF Fresh
<1>4. f[1] \in Blocks /\ f[2] \in Blocks
  BY <1>1, <1>3 DEF OnDisk
<1>5. /\ f[1] \in (Bits \cap Blocks) \ bitmap
      /\ f[2] \in (Bits \cap Blocks) \ bitmap
      /\ f[1] # f[2]
  BY <1>2, <1>4, BitsFacts DEF Fresh
<1>6. {f[i] : i \in DOMAIN f} \ {NoBlock} = {f[1], f[2]}
  BY <1>3, <1>5, BitsFacts
<1>7. bitmap' = bitmap \cup {f[1], f[2]}
  BY <1>1, <1>6 DEF Set
<1>8. reply' = Done(<<>>) /\ UNCHANGED <<data, state>>
  BY DEF Create
<1>9. Creates(n, f[1], f[2])
  BY <1>1, <1>5, <1>7, <1>8 DEF Creates
<1> QED
  BY <1>9

\* The entries of the files once a creation is done.
LEMMA CreateEntries ==
  ASSUME IInv, NEW n \in Inodes, NEW h, NEW b, Creates(n, h, b)
  PROVE  /\ inode'[n].used /\ inode'[n].size = 0 /\ inode'[n].head = h
         /\ \A e \in Entries : EntriesOf(n)'[e] = IF e = 0 THEN b ELSE 0
         /\ LastBlock(n)' = 0
         /\ \A m \in Inodes : m # n => inode'[m] = inode[m]
         /\ \A m \in Inodes : m # n /\ inode[m].used =>
              EntriesOf(m)' = EntriesOf(m)
<1>1. /\ inode'[n] = [used |-> TRUE, size |-> 0, head |-> h]
      /\ \A m \in Inodes : m # n => inode'[m] = inode[m]
  BY DEF Creates, IInv, TableOK
<1>2. \A e \in Entries : EntriesOf(n)'[e] = IF e = 0 THEN b ELSE 0
  BY <1>1 DEF EntriesOf, Creates
<1>3. LastBlock(n)' = 0
  <2>1. 0 \div BlockSize = 0
    BY DiskAssumption
  <2> QED
    BY <1>1, <2>1 DEF LastBlock
<1>4. ASSUME NEW m \in Inodes, m # n, inode[m].used
      PROVE  EntriesOf(m)' = EntriesOf(m)
  <2>1. inode[m].head \in Bits => inode[m].head \in bitmap
    BY <1>4 DEF IInv, NamedIsSet, Named, Slots
  <2>2. inode[m].head # h
    BY <2>1 DEF Creates
  <2> QED
    BY <1>1, <1>4, <2>2 DEF Creates, EntriesOf
<1> QED
  BY <1>1, <1>2, <1>3, <1>4

\* Creations keep what holds for careful callers.
LEMMA CarefulCreateStep ==
  ASSUME IInv, CarefulInv, NEW n \in Inodes, NEW h, NEW b, Creates(n, h, b)
  PROVE  CarefulInv'
<1>1. Running'
  BY DEF CarefulInv, Creates, Running
<1>0. /\ inode'[n].head = h
      /\ \A e \in Entries : EntriesOf(n)'[e] = IF e = 0 THEN b ELSE 0
      /\ LastBlock(n)' = 0
      /\ h \in Blocks /\ b \in (Bits \cap Blocks) \ bitmap
      /\ 0 \in Entries /\ Entries \subseteq Nat
  <2>1. /\ inode'[n].head = h
        /\ \A e \in Entries : EntriesOf(n)'[e] = IF e = 0 THEN b ELSE 0
        /\ LastBlock(n)' = 0
    BY CreateEntries
  <2>2. h \in Blocks /\ b \in (Bits \cap Blocks) \ bitmap
    BY DEF Creates
  <2> QED
    BY <2>1, <2>2, DiskAssumption DEF Entries
<1>2. ASSUME NEW m \in Inodes, inode'[m].used PROVE Usable(m)'
  <2>1. CASE m = n
    <3>1. inode'[m].head \in Blocks
      BY <1>0, <2>1
    <3>2. LastBlock(m)' = 0 /\ 0 \in Entries
      BY <1>0, <2>1
    <3>3. \A e \in Entries :
            IF e <= 0 THEN EntriesOf(m)'[e] \in Bits \cap Blocks
            ELSE EntriesOf(m)'[e] = 0
      <4>1. \A e \in Entries : e <= 0 <=> e = 0
        BY <1>0
      <4> QED
        BY <1>0, <2>1, <4>1
    <3> QED
      BY <3>1, <3>2, <3>3 DEF Usable
  <2>2. CASE m # n
    <3>1. inode[m].used /\ inode'[m] = inode[m] /\ EntriesOf(m)' = EntriesOf(m)
      BY <1>2, <2>2, CreateEntries
    <3> QED
      BY <3>1 DEF CarefulInv, Usable, LastBlock
  <2> QED
    BY <2>1, <2>2
<1>3. BlankFree'
  BY DEF CarefulInv, BlankFree, Creates
<1>4. ASSUME NEW m \in Inodes, NEW e \in Entries, NEW i \in 0 .. BlockSize - 1,
             inode'[m].used, e <= LastBlock(m)',
             inode'[m].size <= e * BlockSize + i
      PROVE  data'[EntriesOf(m)'[e]][i] = Junk
  <2>1. CASE m = n
    <3>1. e = 0
      BY <1>0, <1>4, <2>1
    <3>2. EntriesOf(m)'[e] = b
      BY <1>0, <2>1, <3>1
    <3> QED
      BY <3>2 DEF CarefulInv, BlankFree, Creates
  <2>2. CASE m # n
    <3>1. inode[m].used /\ inode'[m] = inode[m] /\ EntriesOf(m)' = EntriesOf(m)
      BY <1>4, <2>2, CreateEntries
    <3>2. data' = data
      BY DEF Creates
    <3> QED
      BY <1>4, <3>1, <3>2 DEF CarefulInv, BlankEnd, LastBlock
  <2> QED
    BY <2>1, <2>2
<1>5. BlankEnd'
  BY <1>4 DEF BlankEnd
<1> QED
  BY <1>1, <1>2, <1>3, <1>5 DEF CarefulInv

\* A write leaves the bytes of the other files alone.
LEMMA OthersKept ==
  ASSUME IInv, CarefulInv, IInv',
         NEW n \in Inodes, NEW to \in Nat, NEW len \in Nat, NEW v, NEW f,
         to + len <= MaxSize, Writes(n, to, len, v, f),
         NEW m \in Inodes, m # n, inode[m].used, NEW e \in Entries,
         EntriesOf(m)[e] \in Bits \cap Blocks, NEW i \in 0 .. BlockSize - 1
  PROVE  data'[EntriesOf(m)[e]][i] = data[EntriesOf(m)[e]][i]
<1> DEFINE b == EntriesOf(m)[e]
<1>1. /\ inode'[n].used /\ inode'[m].used
      /\ EntriesOf(m)' = EntriesOf(m)
  BY WriteEntries
<1>2. ASSUME NEW x \in Entries, EntriesOf(n)'[x] = b PROVE FALSE
  <2>1. x # -1 /\ x \in Slots /\ e # -1 /\ e \in Slots
    BY DiskAssumption DEF Entries, Slots
  <2>2. Named(n, x)' = b /\ Named(m, e)' = b
    BY <1>1, <1>2, <2>1 DEF Named
  <2> QED
    BY <1>1, <2>1, <2>2 DEF IInv, NoSharing
<1> HIDE DEF b
<1>3. b \in Blocks
  BY DEF b
<1>4. data'[b][i] = data[b][i]
  BY <1>2, <1>3, ByteStored
<1> QED
  BY <1>4 DEF b

\* So do writes.
LEMMA CarefulWriteStep ==
  ASSUME IInv, CarefulInv, IInv',
         NEW n \in Inodes, NEW to \in Nat, NEW len \in Nat, NEW v, NEW f,
         to + len <= MaxSize, Writes(n, to, len, v, f)
  PROVE  CarefulInv'
<1> DEFINE last == NewLast(n, to + len)
<1>1. Running'
  BY DEF Writes, Running
<1>2. to + len \in 0 .. MaxSize
  BY BitsFacts
<1>3. LastBlock(n)' = last /\ last \in Nat /\ last \in Entries
  <2>1. inode'[n].size = NewSize(n, to + len)
    BY WriteEntries
  <2>2. LastBlock(n)' = NewSize(n, to + len) \div BlockSize
    BY <2>1 DEF LastBlock
  <2>3. last \in Entries
    BY DEF Writes
  <2> QED
    BY <1>2, <2>2, <2>3, NewEnd
<1>4. ASSUME NEW m \in Inodes, inode'[m].used PROVE Usable(m)'
  <2>1. CASE m = n
    <3>1. inode'[m].head \in Blocks
      BY <2>1, WriteEntries DEF CarefulInv, Usable
    <3> HIDE DEF last
    <3>2. \A e \in Entries :
            IF e <= last THEN EntriesOf(m)'[e] \in Bits \cap Blocks
            ELSE EntriesOf(m)'[e] = 0
      BY <2>1, WriteEntries DEF last
    <3> QED
      BY <1>3, <2>1, <3>1, <3>2 DEF Usable
  <2>2. CASE m # n
    <3>1. inode[m].used /\ inode'[m] = inode[m] /\ EntriesOf(m)' = EntriesOf(m)
      BY <1>4, <2>2, WriteEntries
    <3> QED
      BY <3>1 DEF CarefulInv, Usable, LastBlock
  <2> QED
    BY <2>1, <2>2
<1>5. ASSUME NEW b \in Blocks \cap (Bits \ bitmap'),
             NEW i \in 0 .. BlockSize - 1
      PROVE  data'[b][i] = Junk
  <2>1. ASSUME NEW e \in Entries, EntriesOf(n)'[e] = b PROVE FALSE
    <3>1. inode'[n].used
      BY WriteEntries
    <3>2. e # -1 /\ e \in Slots
      BY DiskAssumption DEF Entries, Slots
    <3>3. Named(n, e)' = b
      BY <2>1, <3>2 DEF Named
    <3> QED
      BY <3>1, <3>2, <3>3 DEF IInv, NamedIsSet
  <2>2. data'[b][i] = data[b][i]
    BY <2>1, ByteStored
  <2>3. b \notin bitmap
    BY DEF Writes
  <2> QED
    BY <2>2, <2>3 DEF CarefulInv, BlankFree
<1>6. BlankFree'
  BY <1>5 DEF BlankFree
<1>7. ASSUME NEW m \in Inodes, NEW e \in Entries, NEW i \in 0 .. BlockSize - 1,
             inode'[m].used, e <= LastBlock(m)',
             inode'[m].size <= e * BlockSize + i
      PROVE  data'[EntriesOf(m)'[e]][i] = Junk
  <2> DEFINE b == EntriesOf(m)'[e]
  <2>1. b \in Bits \cap Blocks
    BY <1>4, <1>7 DEF Usable
  <2>2. e \in Nat /\ e # -1 /\ e \in Slots
    BY DiskAssumption DEF Entries, Slots
  <2>3. CASE m = n
    <3>1. e <= last /\ NewSize(n, to + len) <= e * BlockSize + i
      BY <1>3, <1>7, <2>3, WriteEntries
    <3>2. PICK k \in Nat : k = e * BlockSize + i
      BY <2>2, PlaceOf
    <3>3. k \notin to .. to + len - 1 /\ inode[n].size <= k
      <4> HIDE DEF last
      <4> QED
        BY <1>2, <3>1, <3>2, NewEnd
    <3>4. data'[b][i] = data[b][i]
      <4>1. data'[b][i] = IF k \in to .. to + len - 1
                          THEN <<v, k>> ELSE data[b][i]
        <5> HIDE DEF b
        <5>1. EntriesOf(n)'[e] = b
          BY <2>3 DEF b
        <5> QED
          BY <2>1, <3>1, <3>2, <5>1, ByteStored
      <4> QED
        BY <3>3, <4>1
    <3>5. CASE e <= LastBlock(n)
      <4>1. b = EntriesOf(n)[e]
        BY <2>3, <3>5, WriteEntries
      <4>2. inode[n].used
        BY WriteEntries
      <4> QED
        BY <3>2, <3>3, <3>4, <3>5, <4>1, <4>2 DEF CarefulInv, BlankEnd
    <3>6. CASE e > LastBlock(n)
      <4>1. b \in (Bits \cap Blocks) \ bitmap
        BY <2>3, <3>1, <3>6, WriteEntries
      <4> QED
        BY <3>4, <4>1 DEF CarefulInv, BlankFree
    <3>7. LastBlock(n) \in Nat
      BY <1>2, NewEnd
    <3> QED
      BY <2>2, <3>5, <3>6, <3>7
  <2>4. CASE m # n
    <3>1. inode[m].used /\ inode'[m] = inode[m] /\ EntriesOf(m)' = EntriesOf(m)
      BY <1>7, <2>4, WriteEntries
    <3>2. EntriesOf(m)[e] = b
      BY <3>1
    <3>3. data'[b][i] = data[b][i]
      <4> HIDE DEF b
      <4> QED
        BY <2>1, <2>4, <3>1, <3>2, OthersKept
    <3> QED
      BY <1>7, <3>1, <3>3 DEF CarefulInv, BlankEnd, LastBlock
  <2> QED
    BY <2>3, <2>4
<1>8. BlankEnd'
  BY <1>7 DEF BlankEnd
<1> QED
  BY <1>1, <1>4, <1>6, <1>8 DEF CarefulInv

\* What a step of careful callers does.
LEMMA CarefulSteps ==
  ASSUME CarefulCallers, IInv, CarefulInv, [Next]_vars
  PROVE  \/ \E n \in Inodes : \E h, b : Creates(n, h, b)
         \/ \E n \in Inodes, to \in 0 .. MaxSize - 1, len \in 0 .. MaxLength,
               v \in Values :
              to + len <= MaxSize /\ \E f : Writes(n, to, len, v, f)
         \/ \E n \in Inodes, at \in 0 .. MaxSize - 1, len \in 0 .. MaxLength :
              /\ inode[n].used
              /\ at + len <= inode[n].size
              /\ reply' = Done(BytesRead(n, at, len))
              /\ UNCHANGED <<inode, bitmap, pointers, data, state>>
         \/ /\ reply' = Error
            /\ UNCHANGED <<inode, bitmap, pointers, data, state>>
         \/ UNCHANGED vars
<1>1. ASSUME NEW n \in Inodes, Create(n) PROVE \E h, b : Creates(n, h, b)
  BY <1>1, CarefulCreate
<1>2. ASSUME NEW n \in Inodes, NEW to \in 0 .. MaxSize - 1,
             NEW len \in 0 .. MaxLength, NEW v \in Values, Write(n, to, len, v)
      PROVE  to + len <= MaxSize /\ \E f : Writes(n, to, len, v, f)
  <2>1. to \in Nat /\ len \in Nat
    BY BitsFacts, DiskAssumption
  <2>2. to + len <= MaxSize
    BY <1>2 DEF Write
  <2> QED
    BY <1>2, <2>1, <2>2, CarefulWrite
<1>3. ASSUME NEW n \in Inodes, NEW at \in 0 .. MaxSize - 1,
             NEW len \in 0 .. MaxLength, Read(n, at, len)
      PROVE  /\ inode[n].used
             /\ at + len <= inode[n].size
             /\ reply' = Done(BytesRead(n, at, len))
             /\ UNCHANGED <<inode, bitmap, pointers, data, state>>
  <2>1. inode[n].used /\ inode[n].head \in Blocks
    BY <1>3 DEF Read, CarefulInv, Usable
  <2> QED
    BY <1>3, <2>1, Zenon DEF Read
<1>4. ASSUME NEW n \in Inodes, NEW at, NEW len,
             CreateFails(n) \/ ReadFails(n, at, len)
      PROVE  /\ reply' = Error
             /\ UNCHANGED <<inode, bitmap, pointers, data, state>>
  BY <1>4 DEF CreateFails, ReadFails
<1>5. CASE UNCHANGED vars
  BY <1>5
<1>6. CASE Next
  <2>1. PICK n \in Inodes :
          \/ Create(n) \/ CreateFails(n)
          \/ \E at \in 0 .. MaxSize - 1, len \in 0 .. MaxLength :
               \/ Read(n, at, len) \/ ReadFails(n, at, len)
               \/ \E v \in Values : Write(n, at, len, v)
    BY <1>6 DEF Next
  <2>2. CASE Create(n)
    BY <1>1, <2>2
  <2>3. CASE CreateFails(n)
    BY <1>4, <2>3
  <2>4. ASSUME NEW at \in 0 .. MaxSize - 1, NEW len \in 0 .. MaxLength,
               Read(n, at, len)
        PROVE  \E m \in Inodes, from \in 0 .. MaxSize - 1,
                  length \in 0 .. MaxLength :
                 /\ inode[m].used
                 /\ from + length <= inode[m].size
                 /\ reply' = Done(BytesRead(m, from, length))
                 /\ UNCHANGED <<inode, bitmap, pointers, data, state>>
    BY <1>3, <2>4, Zenon
  <2>5. ASSUME NEW at \in 0 .. MaxSize - 1, NEW len \in 0 .. MaxLength,
               ReadFails(n, at, len)
        PROVE  reply' = Error
               /\ UNCHANGED <<inode, bitmap, pointers, data, state>>
    BY <1>4, <2>5
  <2>6. ASSUME NEW at \in 0 .. MaxSize - 1, NEW len \in 0 .. MaxLength,
               NEW v \in Values, Write(n, at, len, v)
        PROVE  \E m \in Inodes, to \in 0 .. MaxSize - 1,
                  length \in 0 .. MaxLength, w \in Values :
                 to + length <= MaxSize /\ \E f : Writes(m, to, length, w, f)
    BY <1>2, <2>6, Zenon
  <2> QED
    BY <2>1, <2>2, <2>3, <2>4, <2>5, <2>6, Zenon
<1> QED
  BY <1>5, <1>6

\* As long as callers fill neither the disk nor a file, every file keeps the
\* blocks it needs, and what nobody wrote stays unwritten: the invariant is
\* inductive, with the one that holds for all callers.
THEOREM CarefulInvariant == CarefulCallers => (Spec => []CarefulInv)
<1> SUFFICES ASSUME CarefulCallers PROVE Spec => []CarefulInv
  OBVIOUS
<1>1. Init => CarefulInv
  BY DEF Init, CarefulInv, Running, BlankFree, BlankEnd
<1>2. IInv /\ IInv' /\ CarefulInv /\ [Next]_vars => CarefulInv'
  <2> SUFFICES ASSUME IInv, IInv', CarefulInv, [Next]_vars PROVE CarefulInv'
    OBVIOUS
  <2>1. ASSUME UNCHANGED <<inode, bitmap, pointers, data, state>>
        PROVE  CarefulInv'
    BY <2>1 DEF CarefulInv, Running, Usable, BlankFree, BlankEnd, LastBlock,
       EntriesOf
  <2>2. ASSUME NEW n \in Inodes, NEW h, NEW b, Creates(n, h, b)
        PROVE  CarefulInv'
    BY <2>2, CarefulCreateStep
  <2>3. ASSUME NEW n \in Inodes, NEW to \in 0 .. MaxSize - 1,
               NEW len \in 0 .. MaxLength, NEW v \in Values, NEW f,
               to + len <= MaxSize, Writes(n, to, len, v, f)
        PROVE  CarefulInv'
    <3>1. to \in Nat /\ len \in Nat
      BY BitsFacts, DiskAssumption
    <3> QED
      BY <2>3, <3>1, CarefulWriteStep
  <2>4. CASE UNCHANGED vars
    BY <2>1, <2>4 DEF vars
  <2> QED
    BY <2>1, <2>2, <2>3, <2>4, CarefulSteps, Zenon
<1> QED
  BY <1>1, <1>2, Invariant, PTL DEF Spec

\* Careful callers never reach the places where ifile_write() and
\* pointers_read() do what C leaves undefined: no index past the end of a
\* pointer block, no block off the disk, no file's bytes over the metadata.
THEOREM NothingUndefined == CarefulCallers => (Spec => []AlwaysDefined)
<1> SUFFICES ASSUME CarefulCallers PROVE Spec => []AlwaysDefined
  OBVIOUS
<1>1. IInv /\ CarefulInv => AlwaysDefined
  <2> SUFFICES ASSUME IInv, CarefulInv PROVE AlwaysDefined
    OBVIOUS
  <2>1. \A n \in Inodes : inode[n].used => inode[n].head \in Blocks
    BY DEF CarefulInv, Usable
  <2>2. ASSUME NEW n \in Inodes, inode[n].used, NEW e \in InFile(n)
        PROVE  Named(n, e) \in Blocks
    <3>1. e \in Entries /\ e # -1 /\ e <= LastBlock(n)
      BY DiskAssumption DEF InFile, LastBlock, Entries
    <3> QED
      BY <2>2, <3>1 DEF CarefulInv, Usable, Named
  <2> QED
    BY <2>1, <2>2 DEF AlwaysDefined, CarefulInv
<1> QED
  BY <1>1, Invariant, CarefulInvariant, PTL

\* The blocks of a file are its pointer block and those of its entries.
BlocksListed ==
  \A n \in Inodes : \A x :
    x \in BlocksOf(n) <=>
      /\ inode[n].used
      /\ x \in Bits
      /\ x = inode[n].head \/ \E e \in Entries : x = EntriesOf(n)[e]

LEMMA BlocksAre == BlocksListed
<1> SUFFICES ASSUME NEW n \in Inodes, NEW x
             PROVE  x \in BlocksOf(n) <=>
                      /\ inode[n].used
                      /\ x \in Bits
                      /\ \/ x = inode[n].head
                         \/ \E e \in Entries : x = EntriesOf(n)[e]
  BY DEF BlocksListed
<1>1. \A e \in Entries : e # -1 /\ e \in Slots
  BY DiskAssumption DEF Entries, Slots
<1>2. \A s \in Slots : s = -1 \/ s \in Entries
  BY DEF Slots
<1>3. /\ -1 \in Slots /\ Named(n, -1) = inode[n].head
      /\ \A e \in Entries : Named(n, e) = EntriesOf(n)[e]
  BY <1>1 DEF Slots, Named
<1>4. x \in {Named(n, s) : s \in Slots} <=>
        x = inode[n].head \/ \E e \in Entries : x = EntriesOf(n)[e]
  BY <1>1, <1>2, <1>3
<1> QED
  BY <1>4 DEF BlocksOf

\* They are set, and no other file's.
LEMMA BlocksApart ==
  ASSUME IInv, NEW n \in Inodes, NEW x \in BlocksOf(n)
  PROVE  x \in bitmap /\ \A m \in Inodes : x \in BlocksOf(m) => m = n
<1>1. PICK s \in Slots : x = Named(n, s)
  BY DEF BlocksOf
<1>2. inode[n].used /\ x \in Bits
  BY DEF BlocksOf
<1>3. x \in bitmap
  BY <1>1, <1>2 DEF IInv, NamedIsSet
<1>4. ASSUME NEW m \in Inodes, x \in BlocksOf(m) PROVE m = n
  <2>1. PICK t \in Slots : x = Named(m, t)
    BY <1>4 DEF BlocksOf
  <2>2. inode[m].used
    BY <1>4 DEF BlocksOf
  <2> QED
    BY <1>1, <1>2, <2>1, <2>2 DEF IInv, NoSharing
<1> QED
  BY <1>3, <1>4

\* The leaked blocks after a step that sets the bits of New and changes the
\* blocks of one file only, which has New afterwards.
LEMMA LeakStep ==
  ASSUME IInv, NEW n \in Inodes, NEW New, NEW x,
         bitmap' = bitmap \cup New, New \cap bitmap = {},
         \A m \in Inodes : m # n => BlocksOf(m)' = BlocksOf(m),
         New \subseteq BlocksOf(n)'
  PROVE  /\ (BlocksOf(n)' = New) =>
              (x \in Leaked' <=> x \in Leaked \/ x \in BlocksOf(n))
         /\ (BlocksOf(n)' = BlocksOf(n) \cup New) =>
              (x \in Leaked' <=> x \in Leaked)
<1>1. x \in Leaked <=>
        x \in bitmap /\ \A m \in Inodes : x \notin BlocksOf(m)
  BY DEF Leaked
<1>2. x \in Leaked' <=>
        x \in bitmap' /\ \A m \in Inodes : x \notin BlocksOf(m)'
  BY DEF Leaked
<1>3. x \in New => x \notin Leaked' /\ x \notin bitmap
  BY <1>2
<1>4. x \in BlocksOf(n) => /\ x \in bitmap
                           /\ \A m \in Inodes : m # n => x \notin BlocksOf(m)
  BY BlocksApart
<1> QED
  BY <1>1, <1>2, <1>3, <1>4

\* ifile_create() on an inode that exists loses the blocks it had, and nothing
\* else that careful callers do loses any.
THEOREM LeaksByRecreation == CarefulCallers => (Spec => OnlyRecreationLeaks)
<1> SUFFICES ASSUME CarefulCallers PROVE Spec => OnlyRecreationLeaks
  OBVIOUS
<1> DEFINE again == {n \in Inodes : inode'[n].head # inode[n].head}
           Loses == Leaked' = Leaked \cup UNION {BlocksOf(n) : n \in again}
<1>1. IInv /\ IInv' /\ CarefulInv /\ [Next]_vars => Loses
  <2> SUFFICES ASSUME IInv, IInv', CarefulInv, [Next]_vars PROVE Loses
    OBVIOUS
  <2>1. ASSUME UNCHANGED <<inode, bitmap, pointers>> PROVE Loses
    <3>1. Leaked' = Leaked
      BY <2>1 DEF Leaked, BlocksOf, Named, EntriesOf
    <3>2. again = {}
      BY <2>1
    <3> HIDE DEF again
    <3> QED
      BY <3>1, <3>2
  <2>2. ASSUME NEW n \in Inodes, NEW h, NEW b, Creates(n, h, b) PROVE Loses
    <3>1. /\ h \in (Bits \cap Blocks) \ bitmap
          /\ b \in (Bits \cap Blocks) \ bitmap
          /\ bitmap' = bitmap \cup {h, b}
      BY <2>2 DEF Creates
    <3>2. /\ inode'[n].used /\ inode'[n].head = h
          /\ \A e \in Entries : EntriesOf(n)'[e] = IF e = 0 THEN b ELSE 0
          /\ \A m \in Inodes : m # n => inode'[m] = inode[m]
          /\ \A m \in Inodes : m # n /\ inode[m].used =>
               EntriesOf(m)' = EntriesOf(m)
      BY <2>2, CreateEntries
    <3>3. 0 \in Entries
      BY DiskAssumption DEF Entries
    <3>4. BlocksOf(n)' = {h, b}
      <4>1. \A x : x \in BlocksOf(n)' <=>
              /\ inode'[n].used
              /\ x \in Bits
              /\ x = inode'[n].head \/ \E e \in Entries : x = EntriesOf(n)'[e]
        <5>1. BlocksListed'
          BY BlocksAre, PTL
        <5> QED
          BY <5>1, Zenon DEF BlocksListed
      <4>2. \A x : x \in BlocksOf(n)' <=> x \in {h, b}
        BY <3>1, <3>2, <3>3, <4>1, BitsFacts
      <4> QED
        BY <4>2, Zenon
    <3>5. ASSUME NEW m \in Inodes, m # n PROVE BlocksOf(m)' = BlocksOf(m)
      BY <3>2, <3>5 DEF BlocksOf, Named
    <3>6. n \in again \/ BlocksOf(n) = {}
      <4>1. inode[n].used => inode[n].head # NoBlock
        BY BitsFacts DEF CarefulInv, Usable
      <4>2. inode[n].used => inode[n].head \in bitmap
        BY <4>1 DEF IInv, TableOK, HeadAllocated, NamedIsSet, Named, Slots
      <4> QED
        BY <3>1, <3>2, <4>2 DEF BlocksOf
    <3>7. \A m \in again : m = n
      BY <3>2
    <3>8. {h, b} \cap bitmap = {} /\ {h, b} \subseteq BlocksOf(n)'
      BY <3>1, <3>4
    <3>9. ASSUME NEW x
          PROVE  x \in Leaked' <=> x \in Leaked \/ x \in BlocksOf(n)
      BY <3>1, <3>4, <3>5, <3>8, LeakStep
    <3>10. again \subseteq Inodes
      OBVIOUS
    <3> HIDE DEF again
    <3>11. \A x : x \in UNION {BlocksOf(m) : m \in again} <=> x \in BlocksOf(n)
      BY <3>6, <3>7
    <3>12. \A x : x \in Leaked' <=>
                    x \in Leaked \cup UNION {BlocksOf(m) : m \in again}
      BY <3>9, <3>11
    <3> QED
      BY <3>12, Zenon DEF Leaked
  <2>3. ASSUME NEW n \in Inodes, NEW to \in 0 .. MaxSize - 1,
               NEW len \in 0 .. MaxLength, NEW v \in Values, NEW f,
               to + len <= MaxSize, Writes(n, to, len, v, f)
        PROVE  Loses
    <3>1. to \in Nat /\ len \in Nat /\ to + len \in 0 .. MaxSize
      BY <2>3, BitsFacts, DiskAssumption
    <3> DEFINE last == NewLast(n, to + len)
               New == {f[i] : i \in 1 .. last - LastBlock(n)}
    <3>2. /\ last \in Entries
          /\ f \in [1 .. last - LastBlock(n) -> (Bits \cap Blocks) \ bitmap]
          /\ bitmap' = bitmap \cup New
      BY <2>3 DEF Writes
    <3>3. /\ inode[n].used /\ inode'[n].used
          /\ \A m \in Inodes : inode'[m].head = inode[m].head
          /\ \A m \in Inodes : m # n => inode'[m] = inode[m]
          /\ \A m \in Inodes : m # n /\ inode[m].used =>
               EntriesOf(m)' = EntriesOf(m)
          /\ EntriesOf(n)' = Extended(n, last, f)
      BY <2>3, <3>1, WriteEntries
    <3>4. ASSUME NEW m \in Inodes, m # n PROVE BlocksOf(m)' = BlocksOf(m)
      BY <3>3, <3>4 DEF BlocksOf, Named
    <3>5. /\ LastBlock(n) \in Nat /\ last \in Nat /\ LastBlock(n) <= last
          /\ Entries \subseteq Nat
          /\ \A e \in 0 .. last : e \in Entries
      <4>1. /\ LastBlock(n) \in Nat /\ last \in Nat
            /\ LastBlock(n) <= last
        BY <3>1, NewEnd
      <4> HIDE DEF last
      <4> QED
        BY <3>2, <4>1, DiskAssumption DEF Entries
    <3> HIDE DEF last
    <3>6. ASSUME NEW e \in Entries
          PROVE  EntriesOf(n)'[e] = IF e \in LastBlock(n) + 1 .. last
                                    THEN f[e - LastBlock(n)]
                                    ELSE EntriesOf(n)[e]
      BY <3>3 DEF Extended
    <3>7. ASSUME NEW e \in LastBlock(n) + 1 .. last
          PROVE  /\ e \in Entries
                 /\ e - LastBlock(n) \in 1 .. last - LastBlock(n)
                 /\ EntriesOf(n)[e] = 0
      <4>1. e \in Entries /\ e - LastBlock(n) \in 1 .. last - LastBlock(n)
        BY <3>5
      <4>2. ~(e <= LastBlock(n))
        BY <3>5
      <4>3. EntriesOf(n)[e] = 0
        BY <3>3, <4>1, <4>2 DEF CarefulInv, Usable
      <4> QED
        BY <4>1, <4>3
    <3>8. ASSUME NEW i \in 1 .. last - LastBlock(n)
          PROVE  LastBlock(n) + i \in LastBlock(n) + 1 .. last
                 /\ (LastBlock(n) + i) - LastBlock(n) = i
      BY <3>5
    <3>9. /\ New \subseteq Bits /\ New \cap bitmap = {}
      BY <3>2
    <3>10. \A x : x \in New <=>
             \E e \in LastBlock(n) + 1 .. last : x = f[e - LastBlock(n)]
      BY <3>7, <3>8
    <3> HIDE DEF New
    <3>11. BlocksOf(n)' = BlocksOf(n) \cup New
      <4>1. \A x : x \in BlocksOf(n)' <=>
              /\ inode'[n].used
              /\ x \in Bits
              /\ x = inode'[n].head \/ \E e \in Entries : x = EntriesOf(n)'[e]
        <5>1. BlocksListed'
          BY BlocksAre, PTL
        <5> QED
          BY <5>1, Zenon DEF BlocksListed
      <4>2. \A x : x \in BlocksOf(n) <=>
              /\ inode[n].used
              /\ x \in Bits
              /\ x = inode[n].head \/ \E e \in Entries : x = EntriesOf(n)[e]
        BY BlocksAre, Zenon DEF BlocksListed
      <4>3. ASSUME NEW x \in Bits
            PROVE  (\E e \in Entries : x = EntriesOf(n)'[e]) <=>
                   (x \in New \/ \E e \in Entries : x = EntriesOf(n)[e])
        <5>1. ASSUME NEW e \in Entries, x = EntriesOf(n)'[e]
              PROVE  x \in New \/ \E d \in Entries : x = EntriesOf(n)[d]
          BY <3>6, <3>10, <5>1
        <5>2. ASSUME x \in New
              PROVE  \E e \in Entries : x = EntriesOf(n)'[e]
          BY <3>6, <3>7, <3>10, <5>2
        <5>3. ASSUME NEW e \in Entries, x = EntriesOf(n)[e]
              PROVE  x = EntriesOf(n)'[e]
          BY <3>6, <3>7, <5>3, BitsFacts
        <5> QED
          BY <5>1, <5>2, <5>3
      <4>4. \A x : x \in BlocksOf(n)' <=> x \in BlocksOf(n) \cup New
        BY <3>3, <3>9, <4>1, <4>2, <4>3
      <4> QED
        BY <4>4, Zenon
    <3>12. New \subseteq BlocksOf(n)'
      BY <3>11
    <3>13. ASSUME NEW x PROVE x \in Leaked' <=> x \in Leaked
      BY <3>2, <3>4, <3>9, <3>11, <3>12, LeakStep DEF New
    <3>14. Leaked' = Leaked
      BY <3>13, Zenon
    <3>15. again = {}
      BY <3>3
    <3> HIDE DEF again
    <3> QED
      BY <3>14, <3>15
  <2>4. CASE UNCHANGED vars
    BY <2>1, <2>4 DEF vars
  <2>5. ASSUME UNCHANGED <<inode, bitmap, pointers, data, state>>
        PROVE  Loses
    BY <2>1, <2>5
  <2> HIDE DEF Loses
  <2> QED
    BY <2>2, <2>3, <2>4, <2>5, CarefulSteps, Zenon
<1> QED
  BY <1>1, Invariant, CarefulInvariant, PTL DEF Spec, OnlyRecreationLeaks

-----------------------------------------------------------------------------
(* The files of careful callers are those of FileStore.                    *)

\* The byte at an offset, as FileView shows it.
ByteOf(n, o) ==
  IF inode[n].used /\ o < inode[n].size THEN ByteAt(n, o) ELSE Junk

FileOf(n) == [used |-> inode[n].used, size |-> inode[n].size,
              byte |-> [o \in 0 .. MaxSize - 1 |-> ByteOf(n, o)]]

ViewListed == FileView = [n \in Inodes |-> FileOf(n)]

LEMMA ViewIs == ViewListed
BY DEF ViewListed, FileView, FileOf, ByteOf

\* A file as FileStore has it after a write.
Written(old, to, len, v) ==
  [used |-> old.used,
   size |-> IF to + len > old.size THEN to + len ELSE old.size,
   byte |-> [o \in 0 .. MaxSize - 1 |->
               IF o \in to .. to + len - 1 THEN <<v, o>> ELSE old.byte[o]]]

\* Where a byte inside a file is.
LEMMA InsideFile ==
  ASSUME IInv, CarefulInv, NEW n \in Inodes, inode[n].used,
         NEW o \in Nat, o < inode[n].size
  PROVE  /\ o \div BlockSize \in Entries
         /\ o \div BlockSize <= LastBlock(n)
         /\ o % BlockSize \in 0 .. BlockSize - 1
         /\ EntriesOf(n)[o \div BlockSize] \in Bits \cap Blocks
         /\ ByteAt(n, o) = data[EntriesOf(n)[o \div BlockSize]][o % BlockSize]
<1>1. inode[n].size \in Nat /\ Usable(n) /\ LastBlock(n) \in Entries
  BY BitsFacts DEF IInv, TableOK, CarefulInv, Usable
<1>2. PICK q \in Nat : q = o \div BlockSize
  BY DivFacts
<1>3. q <= LastBlock(n)
  BY <1>1, <1>2, DivMono DEF LastBlock
<1>4. q \in Entries
  BY <1>1, <1>3, DiskAssumption DEF Entries
<1>5. EntriesOf(n)[q] \in Bits \cap Blocks
  BY <1>1, <1>3, <1>4 DEF Usable
<1> QED
  BY <1>2, <1>3, <1>4, <1>5, DivFacts DEF ByteAt

\* A read inside a file finds every block on the disk.
LEMMA ReadInside ==
  ASSUME IInv, CarefulInv, NEW n \in Inodes, inode[n].used,
         NEW at \in Nat, NEW len \in Nat, at + len <= inode[n].size
  PROVE  BytesRead(n, at, len) = [o \in at .. at + len - 1 |-> ByteAt(n, o)]
<1> SUFFICES ASSUME NEW o \in at .. at + len - 1
             PROVE  BytesRead(n, at, len)[o] = ByteAt(n, o)
  BY DEF BytesRead
<1>1. o \in Nat /\ at <= o /\ o < inode[n].size
  BY BitsFacts DEF IInv, TableOK
<1>2. PICK p \in Nat : p = at \div BlockSize
  BY DivFacts
<1>3. PICK q \in Nat : q = o \div BlockSize
  BY <1>1, DivFacts
<1>4. p <= q
  BY <1>1, <1>2, <1>3, DivMono
<1>5. EntriesOf(n)[q] \in Blocks
      /\ ByteAt(n, o) = data[EntriesOf(n)[q]][o % BlockSize]
  BY <1>1, <1>3, InsideFile
<1> DEFINE read == {e \in p .. q : EntriesOf(n)[e] \in Blocks}
<1>6. q \in read /\ \A d \in read : d <= q
  BY <1>4, <1>5
<1>7. (CHOOSE e \in read : \A d \in read : d <= e) = q
  BY <1>6
<1> QED
  BY <1>2, <1>3, <1>5, <1>6, <1>7 DEF BytesRead

\* The bytes of the file a write is for.
LEMMA ByteWritten ==
  ASSUME IInv, CarefulInv, IInv', CarefulInv',
         NEW n \in Inodes, NEW to \in Nat, NEW len \in Nat, NEW v, NEW f,
         to + len <= MaxSize, Writes(n, to, len, v, f),
         NEW o \in 0 .. MaxSize - 1
  PROVE  ByteOf(n, o)' = IF o \in to .. to + len - 1 THEN <<v, o>>
                         ELSE ByteOf(n, o)
<1> DEFINE end == to + len
<1>1. /\ end \in 0 .. MaxSize /\ o \in Nat /\ end \in Nat
  BY BitsFacts
<1>2. PICK s \in Nat : s = NewSize(n, end) /\ end <= s /\ inode[n].size <= s
  BY <1>1, NewEnd
<1>3. PICK z \in Nat : z = inode[n].size
  BY <1>1, NewEnd
<1>4. inode'[n].size = s /\ inode[n].used /\ inode'[n].used
  <2>1. inode'[n].size = NewSize(n, to + len)
    BY WriteEntries
  <2>2. inode[n].used /\ inode'[n].used
    BY WriteEntries
  <2> QED
    BY <1>2, <2>1, <2>2
<1>5. CASE o < s
  <2>1. PICK q \in Nat, r \in 0 .. BlockSize - 1 :
          /\ q = o \div BlockSize /\ r = o % BlockSize
          /\ o = q * BlockSize + r
    BY <1>1, DivFacts
  <2>2. q <= NewLast(n, end)
    BY <1>1, <1>2, <1>5, <2>1, NewEnd, DivMono
  <2>3. q \in Entries /\ NewLast(n, end) \in Nat /\ LastBlock(n) \in Nat
    <3>1. NewLast(n, end) \in Entries
      BY DEF Writes
    <3>2. NewLast(n, end) \in Nat /\ LastBlock(n) \in Nat
      BY <1>1, NewEnd
    <3> QED
      BY <2>2, <3>1, <3>2, DiskAssumption DEF Entries
  <2>4. PICK b : b = EntriesOf(n)'[q]
    OBVIOUS
  <2>5. b \in Bits \cap Blocks
    BY <2>2, <2>3, <2>4, WriteEntries
  <2>6. ByteOf(n, o)' = data'[b][r]
    BY <1>4, <1>5, <2>1, <2>4, <2>5 DEF ByteOf, ByteAt
  <2>7. data'[b][r] = IF o \in to .. end - 1 THEN <<v, o>> ELSE data[b][r]
    <3>1. data'[b][r] = IF q * BlockSize + r \in to .. to + len - 1
                        THEN <<v, q * BlockSize + r>> ELSE data[b][r]
      BY <2>2, <2>3, <2>4, <2>5, ByteStored
    <3> QED
      BY <2>1, <3>1
  <2>8. o \notin to .. end - 1 => data[b][r] = ByteOf(n, o)
    <3>1. CASE q <= LastBlock(n)
      <4>1. b = EntriesOf(n)[q]
        BY <2>3, <2>4, <3>1, WriteEntries
      <4>2. CASE o < z
        BY <1>3, <1>4, <2>1, <2>5, <4>1, <4>2 DEF ByteOf, ByteAt
      <4>3. CASE z <= o
        <5>1. data[b][r] = Junk
          BY <1>3, <1>4, <2>1, <2>3, <3>1, <4>1, <4>3 DEF CarefulInv, BlankEnd
        <5> QED
          BY <1>1, <1>3, <4>3, <5>1 DEF ByteOf
      <4> QED
        BY <1>1, <4>2, <4>3
    <3>2. CASE q > LastBlock(n)
      <4>1. b \in (Bits \cap Blocks) \ bitmap
        BY <2>2, <2>3, <2>4, <3>2, WriteEntries
      <4>2. data[b][r] = Junk
        BY <4>1 DEF CarefulInv, BlankFree
      <4>3. ~(o < z)
        <5>1. ASSUME o < z PROVE q <= LastBlock(n)
          BY <1>1, <1>3, <2>1, <5>1, DivMono DEF LastBlock
        <5> QED
          BY <2>3, <3>2, <5>1
      <4> QED
        BY <1>3, <4>2, <4>3 DEF ByteOf
    <3> QED
      BY <2>3, <3>1, <3>2
  <2> QED
    BY <2>6, <2>7, <2>8
<1>6. CASE s <= o
  <2>1. ~(o < s) /\ ~(o < inode[n].size) /\ o \notin to .. end - 1
    BY <1>1, <1>2, <1>3, <1>6
  <2> QED
    BY <1>4, <2>1 DEF ByteOf
<1> QED
  BY <1>1, <1>5, <1>6

\* A write is one of FileStore's.
LEMMA WriteView ==
  ASSUME IInv, CarefulInv, IInv', CarefulInv',
         NEW n \in Inodes, NEW to \in Nat, NEW len \in Nat, NEW v, NEW f,
         to + len <= MaxSize, Writes(n, to, len, v, f)
  PROVE  FileView' = [FileView EXCEPT ![n] = Written(FileView[n], to, len, v)]
<1>1. /\ \A m \in Inodes : inode'[m].used = inode[m].used
      /\ \A m \in Inodes : m # n => inode'[m] = inode[m]
      /\ inode'[n].size = NewSize(n, to + len)
      /\ \A m \in Inodes : m # n /\ inode[m].used =>
           EntriesOf(m)' = EntriesOf(m)
  BY WriteEntries
<1>2. ASSUME NEW m \in Inodes, m # n, NEW o \in 0 .. MaxSize - 1
      PROVE  ByteOf(m, o)' = ByteOf(m, o)
  <2>1. CASE inode[m].used /\ o < inode[m].size
    <3>1. o \in Nat
      BY BitsFacts
    <3>2. PICK q \in Entries, r \in 0 .. BlockSize - 1 :
            /\ q = o \div BlockSize /\ r = o % BlockSize
            /\ EntriesOf(m)[q] \in Bits \cap Blocks
            /\ ByteAt(m, o) = data[EntriesOf(m)[q]][r]
      BY <2>1, <3>1, InsideFile
    <3>3. ByteAt(m, o)' = data'[EntriesOf(m)[q]][r]
      BY <1>1, <1>2, <2>1, <3>2 DEF ByteAt
    <3>4. data'[EntriesOf(m)[q]][r] = data[EntriesOf(m)[q]][r]
      BY <1>2, <2>1, <3>2, OthersKept
    <3> QED
      BY <1>1, <1>2, <2>1, <3>2, <3>3, <3>4 DEF ByteOf
  <2>2. CASE ~(inode[m].used /\ o < inode[m].size)
    BY <1>1, <1>2, <2>2 DEF ByteOf
  <2> QED
    BY <2>1, <2>2
<1>3. FileView = [m \in Inodes |-> FileOf(m)]
  BY ViewIs DEF ViewListed
<1>4. FileView' = [m \in Inodes |-> FileOf(m)']
  <2>1. ViewListed'
    BY ViewIs, PTL
  <2> QED
    BY <2>1 DEF ViewListed
<1>5. ASSUME NEW m \in Inodes, m # n PROVE FileOf(m)' = FileOf(m)
  BY <1>1, <1>2, <1>5 DEF FileOf
<1>6. FileOf(n)' = Written(FileOf(n), to, len, v)
  <2>1. [o \in 0 .. MaxSize - 1 |-> ByteOf(n, o)'] =
          [o \in 0 .. MaxSize - 1 |->
             IF o \in to .. to + len - 1 THEN <<v, o>>
             ELSE FileOf(n).byte[o]]
    BY ByteWritten DEF FileOf
  <2> QED
    BY <1>1, <2>1 DEF FileOf, Written, NewSize
<1> QED
  BY <1>3, <1>4, <1>5, <1>6

\* So is a creation.
LEMMA CreateView ==
  ASSUME IInv, CarefulInv, NEW n \in Inodes, NEW h, NEW b, Creates(n, h, b)
  PROVE  FileView' = [FileView EXCEPT ![n] = Store!Empty]
<1>1. /\ inode'[n] = [used |-> TRUE, size |-> 0, head |-> h]
      /\ data' = data
  BY DEF Creates, IInv, TableOK
<1>2. /\ \A m \in Inodes : m # n => inode'[m] = inode[m]
      /\ \A m \in Inodes : m # n /\ inode[m].used =>
           EntriesOf(m)' = EntriesOf(m)
  BY CreateEntries
<1>3. FileView = [m \in Inodes |-> FileOf(m)]
  BY ViewIs DEF ViewListed
<1>4. FileView' = [m \in Inodes |-> FileOf(m)']
  <2>1. ViewListed'
    BY ViewIs, PTL
  <2> QED
    BY <2>1 DEF ViewListed
<1>5. ASSUME NEW m \in Inodes, m # n PROVE FileOf(m)' = FileOf(m)
  <2>1. \A o \in 0 .. MaxSize - 1 : ByteOf(m, o)' = ByteOf(m, o)
    BY <1>1, <1>2, <1>5 DEF ByteOf, ByteAt
  <2> QED
    BY <1>2, <1>5, <2>1 DEF FileOf
<1>6. FileOf(n)' = Store!Empty
  <2>1. \A o \in 0 .. MaxSize - 1 : ByteOf(n, o)' = Junk
    BY <1>1, BitsFacts DEF ByteOf
  <2>2. [o \in 0 .. MaxSize - 1 |-> ByteOf(n, o)'] =
          [o \in 0 .. MaxSize - 1 |-> Junk]
    BY <2>1
  <2>3. inode'[n].used = TRUE /\ inode'[n].size = 0
    BY <1>1
  <2> QED
    BY <2>2, <2>3, Zenon DEF FileOf, Store!Empty, Store!Offsets
<1> QED
  BY <1>3, <1>4, <1>5, <1>6

\* For callers that fill neither the disk nor a file, what ifile_read()
\* returns is what ifile_write() last put there: the blocks, the bitmap and
\* the pointer blocks of files.c implement the files of FileStore.
THEOREM FilesImplemented == CarefulCallers => (Spec => StoreSpec)
<1> SUFFICES ASSUME CarefulCallers PROVE Spec => StoreSpec
  OBVIOUS
<1>1. Init => Store!Init
  <2> SUFFICES ASSUME Init PROVE Store!Init
    OBVIOUS
  <2>1. FileView = [n \in Inodes |-> FileOf(n)]
    BY ViewIs DEF ViewListed
  <2>2. ASSUME NEW n \in Inodes PROVE FileOf(n) = Store!Unused
    <3>1. inode[n] = [used |-> FALSE, size |-> 0, head |-> 0]
      BY DEF Init
    <3> QED
      BY <3>1 DEF FileOf, ByteOf, Store!Unused, Store!Offsets
  <2>3. reply = Store!Done(<<>>)
    BY DEF Init, Done, Store!Done
  <2> QED
    BY <2>1, <2>2, <2>3 DEF Store!Init
<1>2. /\ IInv /\ IInv' /\ CarefulInv /\ CarefulInv' /\ [Next]_vars
      => [Store!Next]_<<FileView, reply>>
  <2> SUFFICES ASSUME IInv, IInv', CarefulInv, CarefulInv', [Next]_vars
               PROVE  [Store!Next]_<<FileView, reply>>
    OBVIOUS
  <2>1. ASSUME UNCHANGED <<inode, bitmap, pointers, data, state>>
        PROVE  FileView' = FileView
    BY <2>1 DEF FileView, ByteAt, EntriesOf
  <2>2. ASSUME NEW n \in Inodes, NEW h, NEW b, Creates(n, h, b)
        PROVE  Store!Next
    <3>1. FileView' = [FileView EXCEPT ![n] = Store!Empty]
      BY <2>2, CreateView
    <3>2. reply' = Store!Done(<<>>)
      BY <2>2 DEF Creates, Done, Store!Done
    <3> QED
      BY <3>1, <3>2 DEF Store!Next, Store!Create
  <2>3. ASSUME NEW n \in Inodes, NEW to \in 0 .. MaxSize - 1,
               NEW len \in 0 .. MaxLength, NEW v \in Values, NEW f,
               to + len <= MaxSize, Writes(n, to, len, v, f)
        PROVE  Store!Next
    <3>1. to \in Nat /\ len \in Nat
      BY BitsFacts, DiskAssumption
    <3>2. FileView' = [FileView EXCEPT
                         ![n] = Written(FileView[n], to, len, v)]
      BY <2>3, <3>1, WriteView
    <3>3. FileView[n].used
      BY <2>3 DEF FileView, Writes
    <3>4. reply' = Store!Done(<<>>)
      BY <2>3 DEF Writes, Done, Store!Done
    <3>5. Store!Write(n, to, len, v)
      BY <3>2, <3>3, <3>4 DEF Store!Write, Store!Offsets, Written
    <3> QED
      BY <3>5 DEF Store!Next, Store!Offsets, Store!Lengths
  <2>4. ASSUME NEW n \in Inodes, NEW at \in 0 .. MaxSize - 1,
               NEW len \in 0 .. MaxLength,
               inode[n].used, at + len <= inode[n].size,
               reply' = Done(BytesRead(n, at, len)),
               UNCHANGED <<inode, bitmap, pointers, data, state>>
        PROVE  Store!Next
    <3>1. FileView[n] = FileOf(n)
      BY ViewIs DEF ViewListed
    <3>2. /\ FileView[n].used /\ FileView[n].size = inode[n].size
          /\ FileView[n].byte = [o \in 0 .. MaxSize - 1 |-> ByteOf(n, o)]
      BY <2>4, <3>1 DEF FileOf
    <3>3. ASSUME NEW o \in at .. at + len - 1
          PROVE  ByteAt(n, o) = FileView[n].byte[o]
      <4>1. /\ inode[n].size \in Nat /\ inode[n].size <= MaxSize
            /\ at \in Nat /\ len \in Nat /\ MaxSize \in Nat
        BY BitsFacts, DiskAssumption DEF IInv, TableOK
      <4>2. o \in 0 .. MaxSize - 1 /\ o < inode[n].size
        BY <2>4, <4>1
      <4> QED
        BY <2>4, <3>2, <4>2 DEF ByteOf
    <3>4. BytesRead(n, at, len) =
            [o \in at .. at + len - 1 |-> FileView[n].byte[o]]
      <4>1. at \in Nat /\ len \in Nat
        BY BitsFacts, DiskAssumption
      <4>2. BytesRead(n, at, len) = [o \in at .. at + len - 1 |-> ByteAt(n, o)]
        BY <2>1, <2>4, <4>1, ReadInside
      <4> QED
        BY <3>3, <4>2
    <3>5. reply' = Store!Done([o \in at .. at + len - 1 |->
                                 FileView[n].byte[o]])
      BY <2>4, <3>4, Zenon DEF Done, Store!Done
    <3>6. Store!Read(n, at, len)
      BY <2>1, <2>4, <3>2, <3>5 DEF Store!Read
    <3> QED
      BY <3>6 DEF Store!Next, Store!Offsets, Store!Lengths
  <2>5. ASSUME reply' = Error,
               UNCHANGED <<inode, bitmap, pointers, data, state>>
        PROVE  Store!Next
    BY <2>1, <2>5 DEF Store!Next, Store!Fail, Store!Error, Error
  <2>6. CASE UNCHANGED vars
    BY <2>1, <2>6 DEF vars
  <2> QED
    BY <2>2, <2>3, <2>4, <2>5, <2>6, CarefulSteps, Zenon
<1>3. [Store!Next]_<<FileView, reply>> => [Store!Next]_(Store!vars)
  BY DEF Store!vars
<1> QED
  BY <1>1, <1>2, <1>3, Invariant, CarefulInvariant, PTL
     DEF Spec, StoreSpec, Store!Spec
=============================================================================
