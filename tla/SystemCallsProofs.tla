------------------------- MODULE SystemCallsProofs -------------------------
(***************************************************************************)
(* Proofs about the system calls (SystemCalls), for every size of memory,   *)
(* every program, every file system image and every argument: the checks of *)
(* user pointers, the descriptor table, the memory a program is started with, *)
(* its segments and its arguments, and that the descriptors implement streams *)
(* over the packed files (OpenFiles).                                       *)
(*                                                                          *)
(* The operators of the model fold over sequences.  The lemmas on folds give *)
(* the run of each fold (one value per element, each from the one before) and *)
(* every fact about a fold is shown along its run, by induction on the length. *)
(* The inductive invariant is CallsInv with MemoryInv.                      *)
(***************************************************************************)
EXTENDS SystemCalls, SequenceTheorems, WellFoundedInduction, TLAPS

\* The sizes of memory.
LEMMA Sizes ==
  /\ PageSize \in Nat \ {0} /\ WordSize \in Nat \ {0} /\ WordSize < AddressEnd
  /\ UserEnd \in Nat /\ AddressEnd \in Nat \ {0} /\ UserEnd < AddressEnd
  BY UserMemoryAssumption

----------------------------------------------------------------------------
(* Numbers.                                                                *)

\* A set of numbers has a least element, so that Min names one.
LEMMA Least ==
  ASSUME NEW S \in SUBSET Nat, S # {}
  PROVE  Min(S) \in S /\ \A x \in S : Min(S) <= x
<1> DEFINE R == OpToRel(<, Nat)
<1>1. IsWellFoundedOn(R, Nat)
  BY NatLessThanWellFounded
<1>2. \A x, y \in Nat : x < y => << x, y >> \in R
  BY DEF OpToRel
<1> HIDE DEF R
<1>3. PICK m \in S : \A y \in S : << y, m >> \notin R
  BY <1>1, WFMin
<1>4. m \in Nat /\ \A y \in S : y \in Nat /\ ~(y < m)
  BY <1>2, <1>3
<1>5. \A y \in S : m <= y
  BY <1>4
<1> QED BY <1>5, Zenon DEF Min

\* A number is its quotient and its remainder.
LEMMA Division ==
  ASSUME NEW a \in Nat, NEW d \in Nat \ {0}
  PROVE  /\ a \div d \in Nat /\ a % d \in 0..(d - 1)
         /\ a = d * (a \div d) + (a % d)
  OBVIOUS

\* The page of a higher address is not lower.
LEMMA PagesAscend ==
  ASSUME NEW a \in Nat, NEW b \in Nat, a <= b
  PROVE  PageOf(a) \in Nat /\ PageOf(b) \in Nat /\ PageOf(a) <= PageOf(b)
<1> DEFINE p == a \div PageSize
           q == b \div PageSize
           r == a % PageSize
           s == b % PageSize
<1>1. /\ p \in Nat /\ r \in 0..(PageSize - 1) /\ a = PageSize * p + r
      /\ q \in Nat /\ s \in 0..(PageSize - 1) /\ b = PageSize * q + s
  BY Division, Sizes
<1>2. PageOf(a) = p /\ PageOf(b) = q
  BY DEF PageOf
<1> HIDE DEF p, q, r, s
<1>3. ASSUME q < p PROVE FALSE
  <2>1. p - q - 1 \in Nat /\ PageSize \in Nat \ {0}
    BY <1>1, <1>3, Sizes
  <2>2. PageSize * (p - q - 1) \in Nat /\ PageSize * (p - q - 1) = PageSize * p - PageSize * q - PageSize
    BY <1>1, <2>1
  <2> QED BY <1>1, <2>1, <2>2
<1> QED BY <1>1, <1>2, <1>3

\* addr + len, taken modulo 2^32, is not less than addr only when it does not
\* wrap.
LEMMA NoWrap ==
  ASSUME NEW addr \in Addresses, NEW len \in Addresses, len # 0, (addr + len) % AddressEnd >= addr
  PROVE  addr + len < AddressEnd
<1>1. addr \in Nat /\ len \in Nat /\ addr < AddressEnd /\ len < AddressEnd /\ AddressEnd \in Nat \ {0}
  BY Sizes DEF Addresses
<1> DEFINE q == (addr + len) \div AddressEnd
           r == (addr + len) % AddressEnd
<1>2. addr + len \in Nat
  BY <1>1
<1>3. q \in Nat /\ r \in 0..(AddressEnd - 1) /\ addr + len = AddressEnd * q + r /\ r >= addr
  BY <1>1, <1>2, Division
<1> HIDE DEF q, r
<1>4. CASE q = 0
  BY <1>1, <1>3, <1>4
<1>5. CASE q # 0
  <2>1. q - 1 \in Nat
    BY <1>3, <1>5
  <2>2. AddressEnd * (q - 1) \in Nat /\ AddressEnd * q = AddressEnd * (q - 1) + AddressEnd
    <3>1. AddressEnd \in Nat /\ q \in Nat
      BY <1>1, <1>3
    <3>2. AddressEnd * (q - 1) \in Nat
      BY <2>1, <3>1
    <3>3. AddressEnd * q = AddressEnd * (q - 1) + AddressEnd
      BY <3>1
    <3> QED BY <3>2, <3>3
  <2> QED BY <1>1, <1>3, <2>2
<1> QED BY <1>4, <1>5

----------------------------------------------------------------------------
(* The checks of user pointers.                                            *)

\* A range that paging_user_range_valid accepts is the user's, every byte of it.
LEMMA RangeIsUsers ==
  ASSUME NEW s, NEW addr \in Addresses, NEW len \in Addresses, paging_user_range_valid(s, addr, len)
  PROVE  /\ addr..(addr + len - 1) \subseteq UserCells(s)
         /\ len # 0 => addr + len < AddressEnd
<1>1. addr \in Nat /\ len \in Nat
  BY Sizes DEF Addresses
<1>2. CASE len = 0
  BY <1>1, <1>2
<1>3. CASE len # 0
  <2>1. addr + len < AddressEnd
    BY <1>3, NoWrap DEF paging_user_range_valid
  <2>2. \A p \in PageOf(addr)..PageOf(addr + len - 1) : p \in s.user
    BY <1>3 DEF paging_user_range_valid
  <2> SUFFICES ASSUME NEW a \in addr..(addr + len - 1) PROVE a \in UserCells(s)
    BY <2>1
  <2>3. a \in Nat /\ addr <= a /\ a <= addr + len - 1 /\ addr + len - 1 \in Nat
    BY <1>1, <1>3
  <2>4. a \in Addresses
    BY <1>1, <2>1, <2>3, Sizes DEF Addresses
  <2>5. PageOf(a) \in PageOf(addr)..PageOf(addr + len - 1)
    <3>1. PageOf(addr) \in Nat /\ PageOf(a) \in Nat /\ PageOf(addr) <= PageOf(a)
      BY <1>1, <2>3, PagesAscend
    <3>2. PageOf(addr + len - 1) \in Nat /\ PageOf(a) <= PageOf(addr + len - 1)
      BY <1>1, <2>3, PagesAscend
    <3> QED BY <3>1, <3>2
  <2> QED BY <2>2, <2>4, <2>5 DEF UserCells
<1> QED BY <1>2, <1>3

\* paging_user_string_valid looks at no byte that is not the user's, whether the
\* string turns out to be valid or not.
LEMMA ScanIsUsers == ASSUME NEW s, NEW addr PROVE Scanned(s, addr) \subseteq UserCells(s)
<1>1. 0..(UserEnd - 1) \subseteq Addresses
  BY Sizes DEF Addresses
<1> QED BY <1>1 DEF Scanned, UserCells

\* Nor does exec_args_copy_from_user, whatever the vector and the pointers in it.
LEMMA ArgumentsAreUsers ==
  ASSUME NEW s, NEW argv \in Addresses, NEW room
  PROVE  ArgumentCells(s, argv, room) \subseteq UserCells(s)
<1> DEFINE n == Copies(s, argv, room)
           pointers == {i \in 0..n : i < EXEC_MAX_ARGS /\ PointerReadable(s, argv, i)}
           Word_(i) == {(PointerAddress(argv, i) + k) % AddressEnd : k \in 0..(WordSize - 1)}
<1>1. ASSUME NEW i \in pointers PROVE Word_(i) \subseteq UserCells(s)
  <2> DEFINE p == PointerAddress(argv, i)
  <2>1. p \in Addresses
    <3>1. i \in Nat /\ argv \in Nat
      BY Sizes DEF Addresses
    <3>2. argv + i * WordSize \in Nat
      BY <3>1, Sizes
    <3> QED BY <3>2, Division, Sizes DEF PointerAddress, Addresses
  <2>2. WordSize \in Addresses /\ WordSize # 0
    BY Sizes DEF Addresses
  <2>3. paging_user_range_valid(s, p, WordSize)
    BY DEF PointerReadable
  <2> HIDE DEF p
  <2>4. p..(p + WordSize - 1) \subseteq UserCells(s) /\ p + WordSize < AddressEnd
    BY <2>1, <2>2, <2>3, RangeIsUsers
  <2>5. \A k \in 0..(WordSize - 1) : (p + k) % AddressEnd \in UserCells(s)
    <3> TAKE k \in 0..(WordSize - 1)
    <3>1. p \in Nat /\ k \in Nat /\ p + k < AddressEnd /\ p + k \in p..(p + WordSize - 1)
      BY <2>1, <2>4, Sizes DEF Addresses
    <3>2. (p + k) % AddressEnd = p + k
      BY <3>1, Sizes
    <3> QED BY <2>4, <3>1, <3>2
  <2> QED BY <2>5 DEF p
<1>2. ArgumentCells(s, argv, room) \subseteq
        UNION {Word_(i) \union (IF PointerAt(s, argv, i) = NULL THEN {} ELSE Scanned(s, PointerAt(s, argv, i)))
               : i \in pointers}
  BY DEF ArgumentCells
<1> HIDE DEF pointers, n
<1> QED BY <1>1, <1>2, ScanIsUsers

----------------------------------------------------------------------------
(* Descriptors.                                                            *)

FileType == [used : BOOLEAN, entry : 0..Len(inputs), position : Nat, access : {0, READ, WRITE, READ_WRITE}]

\* The table of files is the one mkfs wrote, whatever is missing behind it.
TableKept ==
  /\ inputs \in Packings
  /\ image.file_count = Len(inputs)
  /\ image.files = [i \in DOMAIN inputs |-> create_file_entry(inputs, i)]

\* A descriptor in use leads to an entry of the table, and no further than the
\* end of its file.
DescriptorsSound ==
  /\ files \in [Fds -> FileType]
  /\ \A fd \in Fds : files[fd].used =>
       files[fd].entry # 0 /\ files[fd].position <= fs_file_size(image, files[fd].entry)

\* That a read stays in the buffer that was checked needs that it copies no more
\* than was asked for, which ReadCount takes from the size in the table and from
\* the position of the descriptor.
CallsInv == TableKept /\ DescriptorsSound /\ PointersChecked

\* The sizes in the table are sizes.
LEMMA SizesInTable ==
  ASSUME TableKept, NEW i \in 1..Len(inputs)
  PROVE  fs_file_size(image, i) \in Nat
<1>1. inputs \in Seq(Range(inputs)) /\ \A j \in DOMAIN inputs : inputs[j].bytes \in Seq(Nat)
  BY CallsAssumption DEF TableKept
<1>2. i \in DOMAIN inputs
  BY <1>1
<1>3. Len(inputs[i].bytes) \in Nat
  BY <1>1, <1>2
<1>4. image.files[i].size = Len(inputs[i].bytes)
  BY <1>2 DEF TableKept, create_file_entry
<1>5. CASE image.files_offset + i * EntrySize <= image.size
  BY <1>3, <1>4, <1>5 DEF fs_file_size, Entry
<1>6. CASE ~(image.files_offset + i * EntrySize <= image.size)
  <2>1. Entry(image, i) = [name |-> << >>, offset |-> 0, size |-> 0]
    BY <1>6 DEF Entry
  <2> QED BY <2>1 DEF fs_file_size
<1> QED BY <1>5, <1>6

\* fs_find returns an entry of the table or 0.
LEMMA FoundInTable ==
  ASSUME TableKept, NEW name
  PROVE  fs_find(image, name) \in 0..Len(inputs)
<1> DEFINE es == [i \in 1..image.file_count |-> Entry(image, i)]
           I == {i \in 1..Len(es) : es[i].name = name}
           n == SelectInSeq(es, LAMBDA e : e.name = name)
<1>1. Len(inputs) \in Nat /\ image.file_count = Len(inputs)
  <2>1. inputs \in Seq(Range(inputs))
    BY CallsAssumption DEF TableKept
  <2> QED BY <2>1 DEF TableKept
<1>2. Len(es) = Len(inputs)
  BY <1>1
<1>3. fs_find(image, name) = n
  BY DEF fs_find
<1>4. n = IF I # {} THEN Min(I) ELSE 0
  BY Zenon DEF SelectInSeq
<1> HIDE DEF es, n
<1>5. I \in SUBSET Nat /\ I \subseteq 1..Len(inputs)
  BY <1>1, <1>2
<1> HIDE DEF I
<1>6. CASE I # {}
  <2>1. Min(I) \in I
    BY <1>5, <1>6, Least
  <2>2. Min(I) \in 1..Len(inputs)
    BY <1>5, <2>1
  <2>3. 1..Len(inputs) \subseteq 0..Len(inputs)
    BY <1>1
  <2> QED BY <1>3, <1>4, <1>6, <2>2, <2>3
<1>7. CASE I = {}
  BY <1>1, <1>3, <1>4, <1>7
<1> QED BY <1>6, <1>7

\* What a read copies is no more than was asked for and than is left.
LEMMA ReadCountBounds ==
  ASSUME TableKept, DescriptorsSound, NEW fd \in Fds, files[fd].used, NEW count \in Nat
  PROVE  /\ ReadCount(fd, count) \in Nat /\ ReadCount(fd, count) <= count
         /\ files[fd].position + ReadCount(fd, count) <= fs_file_size(image, files[fd].entry)
<1> DEFINE left == fs_file_size(image, files[fd].entry) - files[fd].position
           S == {count, left}
<1>1. files[fd].entry \in 1..Len(inputs) /\ files[fd].position \in Nat
  BY DEF DescriptorsSound, FileType
<1>2. fs_file_size(image, files[fd].entry) \in Nat
  BY <1>1, SizesInTable
<1>3. left \in Nat
  BY <1>1, <1>2 DEF DescriptorsSound
<1>4. Min(S) \in S /\ \A x \in S : Min(S) <= x
  BY <1>3, Least
<1>5. ReadCount(fd, count) = Min(S)
  BY DEF ReadCount
<1> HIDE DEF S
<1>6. count \in S /\ left \in S /\ S \subseteq Nat
  BY <1>3 DEF S
<1>7. ReadCount(fd, count) \in Nat /\ ReadCount(fd, count) <= count /\ ReadCount(fd, count) <= left
  BY <1>4, <1>5, <1>6
<1> QED BY <1>1, <1>2, <1>7

\* Calls that leave the descriptors alone and access only what is the user's.
LEMMA QuietCall ==
  ASSUME CallsInv, inputs' = inputs, image' = image, files' = files,
         strayed' = strayed \/ \E cells : cells \subseteq UserCells(space) /\ Accesses(cells)
  PROVE  CallsInv'
<1>1. TableKept'
  BY DEF CallsInv, TableKept
<1>2. DescriptorsSound'
  BY DEF CallsInv, DescriptorsSound, FileType
<1>3. PointersChecked'
  BY DEF CallsInv, PointersChecked, Accesses
<1> QED BY <1>1, <1>2, <1>3 DEF CallsInv

\* open takes the lowest unused descriptor for an entry that was found.
LEMMA OpenStep ==
  ASSUME CallsInv, NEW path \in Paths, NEW access \in AccessArgs, sys_open(path, access)
  PROVE  CallsInv'
<1> DEFINE name == StringAt(space, path)
           i == fs_find(image, name)
           fd == process_open(i, access)
           free == {d \in Fds : ~files[d].used}
<1>1. inputs' = inputs /\ image' = image /\ TableKept
  BY DEF sys_open, CallsInv
<1>2. PointersChecked'
  <2>1. Scanned(space, path) \subseteq UserCells(space)
    BY ScanIsUsers
  <2> QED BY <2>1 DEF sys_open, CallsInv, PointersChecked, Accesses
<1>3. CASE files' = files
  BY <1>1, <1>2, <1>3 DEF CallsInv, TableKept, DescriptorsSound, FileType, PointersChecked
<1>4. CASE fd # -1 /\ files' = [files EXCEPT ![fd] = file_open(i, access)]
  <2>1. free # {} /\ access \in {READ, WRITE, READ_WRITE} /\ i # 0 /\ fd = Min(free)
    BY <1>4 DEF process_open
  <2>2. i \in 0..Len(inputs)
    BY <1>1, FoundInTable
  <2> HIDE DEF i, fd
  <2>3. fd \in Fds
    <3>1. free \in SUBSET Nat
      BY CallsAssumption DEF Fds
    <3>2. Min(free) \in free
      BY <2>1, <3>1, Least
    <3> QED BY <2>1, <3>2
  <2>4. file_open(i, access) \in FileType
    BY <2>1, <2>2 DEF file_open, FileType
  <2>5. 0 <= fs_file_size(image, i)
    <3>1. i \in 1..Len(inputs)
      BY <2>1, <2>2
    <3> QED BY <1>1, <3>1, SizesInTable
  <2>6. DescriptorsSound'
    <3>1. files' \in [Fds -> FileType] /\ FileType' = FileType
      BY <1>1, <1>4, <2>3, <2>4 DEF CallsInv, DescriptorsSound, FileType
    <3>2. ASSUME NEW d \in Fds, files'[d].used
          PROVE  files'[d].entry # 0 /\ files'[d].position <= fs_file_size(image, files'[d].entry)
      <4>1. CASE d = fd
        <5>1. files'[d] = file_open(i, access)
          BY <1>4, <2>3, <4>1 DEF CallsInv, DescriptorsSound
        <5> QED BY <2>1, <2>5, <5>1 DEF file_open
      <4>2. CASE d # fd
        <5>1. files'[d] = files[d]
          BY <1>4, <2>3, <4>2 DEF CallsInv, DescriptorsSound
        <5> QED BY <3>2, <5>1 DEF CallsInv, DescriptorsSound
      <4> QED BY <4>1, <4>2
    <3>3. \A e : fs_file_size(image', e) = fs_file_size(image, e)
      BY <1>1
    <3> QED BY <3>1, <3>2, <3>3, <1>1 DEF DescriptorsSound
  <2> QED BY <1>1, <1>2, <2>6 DEF CallsInv, TableKept
<1> QED BY <1>3, <1>4 DEF sys_open

\* read copies into the buffer that was checked, no more than was asked for, and
\* moves the descriptor no further than the end of the file.
LEMMA ReadStep ==
  ASSUME CallsInv, NEW fd \in FdArgs, NEW buffer \in Buffers, NEW count \in Counts, sys_read(fd, buffer, count)
  PROVE  CallsInv'
<1> DEFINE valid == buffer # NULL /\ paging_user_range_valid(space, buffer, count)
           ok == valid /\ Readable(fd)
           k == ReadCount(fd, count)
           fault == ok /\ k > 0 /\ fs_file_data(image, files[fd].entry) = 0
<1>1. inputs' = inputs /\ image' = image /\ TableKept /\ DescriptorsSound
  BY DEF sys_read, CallsInv
<1>2. buffer \in Addresses /\ count \in Addresses /\ buffer \in Nat /\ count \in Nat
  BY CallsAssumption, Sizes DEF Addresses
<1>3. CASE ok /\ ~fault
  <2>1. fd \in Fds /\ files[fd].used
    BY <1>3 DEF Readable, process_get_file
  <2>2. k \in Nat /\ k <= count /\ files[fd].position + k <= fs_file_size(image, files[fd].entry)
    BY <1>1, <1>2, <2>1, ReadCountBounds
  <2>3. files' = [files EXCEPT ![fd] = Advance(@, count, k)] /\ Accesses(buffer..(buffer + k - 1))
    BY <1>3 DEF sys_read
  <2>4. buffer..(buffer + count - 1) \subseteq UserCells(space)
    BY <1>2, <1>3, RangeIsUsers
  <2> HIDE DEF k
  <2>5. buffer..(buffer + k - 1) \subseteq UserCells(space)
    BY <1>2, <2>2, <2>4
  <2>6. PointersChecked'
    BY <2>3, <2>5 DEF CallsInv, PointersChecked, Accesses
  <2>7. files[fd] \in FileType /\ files \in [Fds -> FileType]
    BY <1>1, <2>1 DEF DescriptorsSound
  <2> DEFINE f == Advance(files[fd], count, k)
  <2>8. /\ f \in FileType /\ f.entry = files[fd].entry /\ f.position = files[fd].position + k
    <3> DEFINE g == files[fd]
    <3>1. /\ g.used \in BOOLEAN /\ g.entry \in 0..Len(inputs) /\ g.position \in Nat
          /\ g.access \in {0, READ, WRITE, READ_WRITE}
          /\ g = [used |-> g.used, entry |-> g.entry, position |-> g.position, access |-> g.access]
      BY <2>7 DEF FileType
    <3>2. f = [used |-> g.used, entry |-> g.entry, position |-> g.position + k, access |-> g.access]
      BY <3>1 DEF Advance
    <3> QED BY <2>2, <3>1, <3>2 DEF FileType
  <2>9. files' = [files EXCEPT ![fd] = f]
    BY <2>3
  <2> HIDE DEF f
  <2>10. DescriptorsSound'
    <3>1. files' \in [Fds -> FileType] /\ FileType' = FileType
      BY <1>1, <2>7, <2>8, <2>9 DEF FileType
    <3>2. ASSUME NEW d \in Fds, files'[d].used
          PROVE  files'[d].entry # 0 /\ files'[d].position <= fs_file_size(image, files'[d].entry)
      <4>1. CASE d = fd
        <5>1. files'[d] = f
          BY <2>7, <2>9, <4>1
        <5> QED BY <1>1, <2>1, <2>2, <2>8, <5>1 DEF DescriptorsSound
      <4>2. CASE d # fd
        <5>1. files'[d] = files[d]
          BY <2>7, <2>9, <4>2
        <5> QED BY <1>1, <3>2, <5>1 DEF DescriptorsSound
      <4> QED BY <4>1, <4>2
    <3> QED BY <1>1, <3>1, <3>2 DEF DescriptorsSound
  <2> QED BY <1>1, <2>6, <2>10 DEF CallsInv, TableKept
<1>4. CASE ~(ok /\ ~fault)
  <2>1. files' = files /\ Accesses({})
    BY <1>4 DEF sys_read
  <2> QED BY <1>1, <2>1, QuietCall
<1> QED BY <1>3, <1>4

\* close clears a descriptor.
LEMMA CloseStep ==
  ASSUME CallsInv, NEW fd \in FdArgs, sys_close(fd)
  PROVE  CallsInv'
<1>1. inputs' = inputs /\ image' = image /\ strayed' = strayed
  BY DEF sys_close
<1>2. CASE ~process_get_file(fd)
  <2>1. files' = files
    BY <1>2 DEF sys_close
  <2> QED BY <1>1, <2>1, QuietCall
<1>3. CASE process_get_file(fd)
  <2>1. files' = [files EXCEPT ![fd] = Unused] /\ fd \in Fds
    BY <1>3 DEF sys_close, process_close, process_get_file
  <2>2. files \in [Fds -> FileType]
    BY DEF CallsInv, DescriptorsSound
  <2>3. Unused \in FileType /\ ~Unused.used
    <3>1. Len(inputs) \in Nat
      <4>1. inputs \in Seq(Range(inputs))
        BY CallsAssumption DEF CallsInv, TableKept
      <4> QED BY <4>1
    <3> QED BY <3>1 DEF Unused, FileType
  <2>4. \A d \in Fds : files'[d] = IF d = fd THEN Unused ELSE files[d]
    BY <2>1, <2>2
  <2>5. files' \in [Fds -> FileType]
    BY <2>1, <2>2, <2>3
  <2>6. FileType' = FileType
    BY <1>1 DEF FileType
  <2>7. \A d \in Fds : files'[d].used =>
          files'[d].entry # 0 /\ files'[d].position <= fs_file_size(image, files'[d].entry)
    BY <2>3, <2>4 DEF CallsInv, DescriptorsSound
  <2>8. DescriptorsSound'
    BY <1>1, <2>5, <2>6, <2>7 DEF DescriptorsSound
  <2> QED BY <1>1, <2>8 DEF CallsInv, TableKept, PointersChecked
<1> QED BY <1>2, <1>3

\* write reads the buffer that was checked.
LEMMA WriteStep ==
  ASSUME CallsInv, NEW fd \in FdArgs, NEW buf \in Buffers, NEW len \in Counts, sys_write(fd, buf, len)
  PROVE  CallsInv'
<1> DEFINE ok == fd = 1 /\ paging_user_range_valid(space, buf, len)
           cells == IF ok THEN buf..(buf + len - 1) ELSE {}
<1>1. inputs' = inputs /\ image' = image /\ files' = files /\ Accesses(cells)
  BY DEF sys_write
<1>2. buf \in Addresses /\ len \in Addresses
  BY CallsAssumption
<1>3. cells \subseteq UserCells(space)
  BY <1>2, RangeIsUsers
<1> HIDE DEF cells
<1> QED BY <1>1, <1>3, QuietCall

\* exec looks only at the strings and the vector it has checked, and leaves the
\* descriptors to the new program.
LEMMA ExecStep ==
  ASSUME CallsInv, NEW path \in Paths, NEW argv \in Argvs, NEW room \in Rooms, NEW stack \in StackPages,
         NEW junk \in Junk, sys_exec(path, argv, room, stack, junk)
  PROVE  CallsInv'
<1> DEFINE touched == IF path = NULL THEN {}
                      ELSE Scanned(space, path) \union
                           (IF paging_user_string_valid(space, path) THEN ArgumentCells(space, argv, room) ELSE {})
<1>1. inputs' = inputs /\ image' = image /\ files' = files /\ Accesses(touched)
  BY DEF sys_exec
<1>2. touched \subseteq UserCells(space)
  <2>1. argv \in Addresses
    BY CallsAssumption
  <2>2. ArgumentCells(space, argv, room) \subseteq UserCells(space)
    BY <2>1, ArgumentsAreUsers
  <2> QED BY <2>2, ScanIsUsers
<1> HIDE DEF touched
<1> QED BY <1>1, <1>2, QuietCall

\* The invariant holds before the first program is started.
LEMMA CallsInvInit == CallsInit => CallsInv
<1> SUFFICES ASSUME CallsInit PROVE CallsInv
  OBVIOUS
<1>1. inputs \in Packings /\ strayed = FALSE /\ files = [fd \in Fds |-> Unused]
  BY DEF CallsInit
<1>2. PICK n \in Missing : image = Truncated(mkfs(inputs), mkfs(inputs).size - n)
  BY DEF CallsInit
<1>3. /\ image.file_count = Len(inputs)
      /\ image.files = [i \in DOMAIN inputs |-> create_file_entry(inputs, i)]
  BY <1>2 DEF Truncated, mkfs
<1>4. Len(inputs) \in Nat
  <2>1. inputs \in Seq(Range(inputs))
    BY <1>1, CallsAssumption
  <2> QED BY <2>1
<1>5. Unused \in FileType /\ ~Unused.used
  BY <1>4 DEF Unused, FileType
<1>6. files \in [Fds -> FileType] /\ \A fd \in Fds : files[fd] = Unused
  BY <1>1, <1>5
<1>7. DescriptorsSound
  BY <1>5, <1>6 DEF DescriptorsSound
<1> QED BY <1>1, <1>3, <1>7 DEF CallsInv, TableKept, PointersChecked

\* Every step preserves the invariant.
LEMMA CallsInvNext == CallsInv /\ [CallsNext]_vars => CallsInv'
<1> SUFFICES ASSUME CallsInv, [CallsNext]_vars PROVE CallsInv'
  OBVIOUS
<1>1. ASSUME NEW stack \in StackPages, NEW junk \in Junk, init_process_start(stack, junk) PROVE CallsInv'
  <2>1. inputs' = inputs /\ image' = image /\ files' = files /\ strayed' = strayed
    BY <1>1 DEF init_process_start
  <2> QED BY <2>1, QuietCall
<1>2. CASE UNCHANGED vars
  BY <1>2, QuietCall DEF vars
<1>3. CASE CallsNext
  BY <1>1, <1>3, ExecStep, OpenStep, ReadStep, WriteStep, CloseStep DEF CallsNext
<1> QED BY <1>2, <1>3

----------------------------------------------------------------------------
(* The theorems.                                                           *)

\* The invariant of pointers and descriptors holds after any sequence of calls.
THEOREM CallsInvariance == CallsSpec => []CallsInv
  BY CallsInvInit, CallsInvNext, PTL DEF CallsSpec

\* Whatever pointers, lengths and argument vectors a program passes, the kernel
\* accesses no byte for it that is not the program's: the checks of sys_open,
\* sys_read, sys_write and sys_exec cover everything that they then touch.
THEOREM PointersCheckedCorrect == CallsSpec => []PointersChecked
<1>1. CallsInv => PointersChecked
  BY DEF CallsInv
<1> QED BY <1>1, CallsInvariance, PTL

\* No sequence of opens, reads and closes leaves a descriptor that leads outside
\* the table of files, or beyond the end of its file.
THEOREM DescriptorsCorrect == CallsSpec => []DescriptorsSound
<1>1. CallsInv => DescriptorsSound
  BY DEF CallsInv
<1> QED BY <1>1, CallsInvariance, PTL

----------------------------------------------------------------------------
(* Loops: what a fold over a sequence computes, one element at a time.        *)

\* What holds at 0 and is inherited by the next number holds up to n: the set
\* S of the numbers at which it holds is all of them.
LEMMA UpTo ==
  ASSUME NEW n \in Nat, NEW S, 0 \in S, \A i \in 0..(n - 1) : i \in S => i + 1 \in S
  PROVE  \A i \in 0..n : i \in S
<1> DEFINE B == {i \in 0..n : i \notin S}
<1> SUFFICES ASSUME B # {} PROVE FALSE
  OBVIOUS
<1>1. B \in SUBSET Nat
  OBVIOUS
<1> DEFINE k == Min(B)
<1>2. k \in B /\ \A x \in B : k <= x
  BY <1>1, Least
<1>3. k \in 0..n /\ k \notin S
  BY <1>2
<1>4. \A x \in 0..n : x \notin S => k <= x
  BY <1>2
<1> HIDE DEF k, B
<1>5. k # 0
  BY <1>3
<1>6. k - 1 \in 0..(n - 1) /\ k - 1 \in 0..n /\ ~(k <= k - 1) /\ (k - 1) + 1 = k
  BY <1>3, <1>5
<1>7. k - 1 \in S
  BY <1>4, <1>6
<1> QED BY <1>3, <1>6, <1>7

\* One turn of a loop, by its kind; b is the file elf_load loads.
Turn(op, b, a, w) ==
  IF op = "load" THEN LoadHeader(b, a, w)
  ELSE IF op = "bytes" THEN a + Len(w.bytes)
  ELSE a + Len(w) + 1

\* The function that the loop over the first k elements of s is defined by, from b on.
IsFold(g, op, d, b, s, k) ==
  g = [q \in SUBSET (1..k) |-> IF q = {} THEN b
                               ELSE Turn(op, d, g[q \ {Max(q)}], s[Max(q)])]

\* There is one.
LEMMA FoldExists ==
  ASSUME NEW op, NEW d, NEW b, NEW s, NEW n \in Nat
  PROVE  \E g : IsFold(g, op, d, b, s, n)
<1> DEFINE S == {k \in 0..n : \E g : IsFold(g, op, d, b, s, k)}
<1>1. 0 \in S
  <2> DEFINE g == [q \in SUBSET (1..0) |-> b]
  <2>1. \A q \in SUBSET (1..0) : q = {}
    OBVIOUS
  <2>2. IsFold(g, op, d, b, s, 0)
    BY <2>1 DEF IsFold
  <2> QED BY <2>2
<1>2. ASSUME NEW k \in 0..(n - 1), k \in S PROVE k + 1 \in S
  <2>1. PICK g : IsFold(g, op, d, b, s, k)
    BY <1>2
  <2> DEFINE r == [q \in SUBSET (1..(k + 1)) |->
                     IF k + 1 \in q THEN Turn(op, d, g[q \ {k + 1}], s[k + 1]) ELSE g[q]]
  <2>2. ASSUME NEW q \in SUBSET (1..(k + 1))
        PROVE  r[q] = IF q = {} THEN b ELSE Turn(op, d, r[q \ {Max(q)}], s[Max(q)])
    <3>1. CASE k + 1 \in q
      <4>1. Max(q) = k + 1
        <5>1. \A y \in q : y \in Int /\ k + 1 >= y
          OBVIOUS
        <5>2. Max(q) \in q /\ \A y \in q : Max(q) >= y
          BY <3>1, <5>1, Zenon DEF Max
        <5>3. Max(q) \in Int /\ k + 1 \in Int /\ k + 1 >= Max(q) /\ Max(q) >= k + 1
          BY <3>1, <5>1, <5>2, Zenon
        <5> QED BY <5>3
      <4>2. q \ {k + 1} \in SUBSET (1..(k + 1)) /\ k + 1 \notin q \ {k + 1} /\ q # {}
        BY <3>1
      <4>3. r[q \ {k + 1}] = g[q \ {k + 1}]
        BY <4>2
      <4>4. r[q] = Turn(op, d, g[q \ {k + 1}], s[k + 1])
        BY <3>1
      <4> HIDE DEF r
      <4> QED BY <4>1, <4>2, <4>3, <4>4, Zenon
    <3>2. CASE k + 1 \notin q
      <4>1. q \in SUBSET (1..k) /\ q \ {Max(q)} \in SUBSET (1..(k + 1)) /\ k + 1 \notin q \ {Max(q)}
        <5>1. \A y \in q : y \in 1..(k + 1) /\ y # k + 1
          BY <3>2
        <5>2. \A y \in 1..(k + 1) : y # k + 1 => y \in 1..k
          OBVIOUS
        <5> QED BY <3>2, <5>1, <5>2
      <4>2. r[q] = g[q] /\ r[q \ {Max(q)}] = g[q \ {Max(q)}]
        BY <3>2, <4>1
      <4>3. g[q] = IF q = {} THEN b ELSE Turn(op, d, g[q \ {Max(q)}], s[Max(q)])
        BY <2>1, <4>1, Zenon DEF IsFold
      <4> HIDE DEF r
      <4> QED BY <4>2, <4>3, Zenon
    <3> QED BY <3>1, <3>2
  <2>3. r = [q \in SUBSET (1..(k + 1)) |-> r[q]]
    OBVIOUS
  <2> HIDE DEF r
  <2>4. IsFold(r, op, d, b, s, k + 1)
    BY <2>2, <2>3 DEF IsFold
  <2>5. k + 1 \in 0..n
    OBVIOUS
  <2> QED BY <2>4, <2>5
<1> HIDE DEF S
<1>3. \A i \in 0..n : i \in S
  BY <1>1, <1>2, UpTo
<1>4. n \in S
  BY <1>3
<1> QED BY <1>4 DEF S

\* The values it has along the elements of s.
LEMMA FoldSteps ==
  ASSUME NEW op, NEW d, NEW b, NEW s, NEW n \in Nat, NEW g, IsFold(g, op, d, b, s, n)
  PROVE  \E h : /\ h[0] = b
                /\ \A i \in 1..n : h[i] = Turn(op, d, h[i - 1], s[i])
                /\ h[n] = g[1..n]
<1> DEFINE h == [i \in 0..n |-> g[1..i]]
<1>1. ASSUME NEW i \in 1..n PROVE h[i] = Turn(op, d, h[i - 1], s[i])
  <2>1. Max(1..i) = i
    <3>1. i \in 1..i /\ \A y \in 1..i : i >= y
      OBVIOUS
    <3>2. Max(1..i) \in 1..i /\ \A y \in 1..i : Max(1..i) >= y
      BY <3>1, Zenon DEF Max
    <3> QED BY <3>1, <3>2
  <2>2. 1..i \in SUBSET (1..n) /\ 1..i # {} /\ (1..i) \ {i} = 1..(i - 1)
    OBVIOUS
  <2>3. h[i] = g[1..i] /\ h[i - 1] = g[1..(i - 1)]
    OBVIOUS
  <2>4. g[1..i] = Turn(op, d, g[(1..i) \ {Max(1..i)}], s[Max(1..i)])
    BY <2>2, Zenon DEF IsFold
  <2> HIDE DEF h
  <2> QED BY <2>1, <2>2, <2>3, <2>4, Zenon
<1>2. h[0] = b
  <2>1. 1..0 = {} /\ {} \in SUBSET (1..n)
    OBVIOUS
  <2>2. g[{}] = b
    BY <2>1, Zenon DEF IsFold
  <2> QED BY <2>1, <2>2
<1>3. h[n] = g[1..n]
  OBVIOUS
<1> HIDE DEF h
<1> QED BY <1>1, <1>2, <1>3

\* From b on, the headers s of the file c are gone through.
LoadAll(c, b, s) == FoldLeft(LAMBDA l, ph : LoadHeader(c, l, ph), b, s)
IsLoad(g, c, b, s, k) ==
  g = [q \in SUBSET (1..k) |-> IF q = {} THEN b ELSE LoadHeader(c, g[q \ {Max(q)}], s[Max(q)])]

\* h has what is loaded after each of them.
LoadRun(h, c, b, s) ==
  /\ h[0] = b
  /\ \A i \in 1..Len(s) : h[i] = LoadHeader(c, h[i - 1], s[i])
  /\ LoadAll(c, b, s) = h[Len(s)]

LEMMA LoadSteps ==
  ASSUME NEW c, NEW b, NEW A, NEW s \in Seq(A)
  PROVE  \E h : LoadRun(h, c, b, s)
<1> DEFINE n == Len(s)
           g == CHOOSE f : IsLoad(f, c, b, s, n)
<1>1. n \in Nat /\ DOMAIN s = 1..n
  OBVIOUS
<1>2. LoadAll(c, b, s) = g[1..n]
  BY <1>1, Zenon DEF LoadAll, FoldLeft, MapThenFoldSet, IsLoad
<1> PICK d : d = c
  OBVIOUS
<1>3. \A a, w : Turn("load", d, a, w) = LoadHeader(c, a, w)
  BY DEF Turn
<1> HIDE DEF n
<1>4. \A f : IsLoad(f, c, b, s, n) <=> IsFold(f, "load", d, b, s, n)
  BY <1>3 DEF IsLoad, IsFold
<1>5. IsFold(g, "load", d, b, s, n)
  BY <1>1, <1>4, FoldExists, Zenon
<1> HIDE DEF g
<1>6. PICK h : /\ h[0] = b
               /\ \A i \in 1..n : h[i] = Turn("load", d, h[i - 1], s[i])
               /\ h[n] = g[1..n]
  BY <1>1, <1>5, FoldSteps
<1>7. \A i \in 1..n : h[i] = LoadHeader(c, h[i - 1], s[i])
  BY <1>3, <1>6, Zenon
<1> QED BY <1>2, <1>6, <1>7 DEF n, LoadRun

\* The sizes of the files s are added to b.
BytesAll(b, s) == FoldLeft(LAMBDA sum, input : sum + Len(input.bytes), b, s)
IsBytes(g, b, s, k) ==
  g = [q \in SUBSET (1..k) |-> IF q = {} THEN b ELSE g[q \ {Max(q)}] + Len(s[Max(q)].bytes)]

\* h has the sum after each of them.
BytesRun(h, b, s) ==
  /\ h[0] = b
  /\ \A i \in 1..Len(s) : h[i] = h[i - 1] + Len(s[i].bytes)
  /\ BytesAll(b, s) = h[Len(s)]

LEMMA BytesSteps ==
  ASSUME NEW b, NEW A, NEW s \in Seq(A)
  PROVE  \E h : BytesRun(h, b, s)
<1> DEFINE n == Len(s)
           g == CHOOSE f : IsBytes(f, b, s, n)
<1>1. n \in Nat /\ DOMAIN s = 1..n
  OBVIOUS
<1>2. BytesAll(b, s) = g[1..n]
  BY <1>1, Zenon DEF BytesAll, FoldLeft, MapThenFoldSet, IsBytes
<1> PICK d : TRUE
  OBVIOUS
<1>3. \A a, w : Turn("bytes", d, a, w) = a + Len(w.bytes)
  BY DEF Turn
<1> HIDE DEF n
<1>4. \A f : IsBytes(f, b, s, n) <=> IsFold(f, "bytes", d, b, s, n)
  BY <1>3 DEF IsBytes, IsFold
<1>5. IsFold(g, "bytes", d, b, s, n)
  BY <1>1, <1>4, FoldExists, Zenon
<1> HIDE DEF g
<1>6. PICK h : /\ h[0] = b
               /\ \A i \in 1..n : h[i] = Turn("bytes", d, h[i - 1], s[i])
               /\ h[n] = g[1..n]
  BY <1>1, <1>5, FoldSteps
<1>7. \A i \in 1..n : h[i] = h[i - 1] + Len(s[i].bytes)
  BY <1>3, <1>6, Zenon
<1> QED BY <1>2, <1>6, <1>7 DEF n, BytesRun

\* The sizes of the strings s, each with its NUL, are added to b.
StringsAll(b, s) == FoldLeft(LAMBDA sum, a : sum + Len(a) + 1, b, s)
IsStrings(g, b, s, k) ==
  g = [q \in SUBSET (1..k) |-> IF q = {} THEN b ELSE g[q \ {Max(q)}] + Len(s[Max(q)]) + 1]

\* h has the sum after each of them.
StringsRun(h, b, s) ==
  /\ h[0] = b
  /\ \A i \in 1..Len(s) : h[i] = h[i - 1] + Len(s[i]) + 1
  /\ StringsAll(b, s) = h[Len(s)]

LEMMA StringsSteps ==
  ASSUME NEW b, NEW A, NEW s \in Seq(A)
  PROVE  \E h : StringsRun(h, b, s)
<1> DEFINE n == Len(s)
           g == CHOOSE f : IsStrings(f, b, s, n)
<1>1. n \in Nat /\ DOMAIN s = 1..n
  OBVIOUS
<1>2. StringsAll(b, s) = g[1..n]
  BY <1>1, Zenon DEF StringsAll, FoldLeft, MapThenFoldSet, IsStrings
<1> PICK d : TRUE
  OBVIOUS
<1>3. \A a, w : Turn("strings", d, a, w) = a + Len(w) + 1
  BY DEF Turn
<1> HIDE DEF n
<1>4. \A f : IsStrings(f, b, s, n) <=> IsFold(f, "strings", d, b, s, n)
  BY <1>3 DEF IsStrings, IsFold
<1>5. IsFold(g, "strings", d, b, s, n)
  BY <1>1, <1>4, FoldExists, Zenon
<1> HIDE DEF g
<1>6. PICK h : /\ h[0] = b
               /\ \A i \in 1..n : h[i] = Turn("strings", d, h[i - 1], s[i])
               /\ h[n] = g[1..n]
  BY <1>1, <1>5, FoldSteps
<1>7. \A i \in 1..n : h[i] = h[i - 1] + Len(s[i]) + 1
  BY <1>3, <1>6, Zenon
<1> QED BY <1>2, <1>6, <1>7 DEF n, StringsRun

----------------------------------------------------------------------------
(* Sums and concatenations.                                                 *)

\* What lies before each file, as one running sum.
LEMMA BytesSums ==
  ASSUME NEW A, NEW s \in Seq(A), \A i \in 1..Len(s) : Len(s[i].bytes) \in Nat
  PROVE  \E h : /\ h[0] = 0
                /\ \A i \in 1..Len(s) : h[i] = h[i - 1] + Len(s[i].bytes)
                /\ \A k \in 0..Len(s) : h[k] \in Nat /\ SizeBefore(s, k + 1) = h[k]
<1>1. PICK n \in Nat : n = Len(s)
  OBVIOUS
<1> DEFINE b == 0
<1> HIDE DEF b
<1>2a. PICK h : BytesRun(h, b, s)
  BY BytesSteps
<1>2. h[0] = b /\ \A i \in 1..n : h[i] = h[i - 1] + Len(s[i].bytes)
  BY <1>1, <1>2a, Zenon DEF BytesRun
<1>3. ASSUME NEW k \in 0..n PROVE SizeBefore(s, k + 1) = h[k]
  <2> DEFINE t == SubSeq(s, 1, k)
  <2>1. t \in Seq(A) /\ Len(t) = k /\ \A j \in 1..k : t[j] = s[j]
    BY <1>1
  <2>2. SizeBefore(s, k + 1) = BytesAll(b, t)
    <3>1. (k + 1) - 1 = k
      OBVIOUS
    <3> QED BY <3>1, Zenon DEF SizeBefore, BytesAll, b
  <2> HIDE DEF t
  <2>3a. PICK g : BytesRun(g, b, t)
    BY <2>1, BytesSteps
  <2>3. /\ g[0] = b
        /\ \A i \in 1..k : g[i] = g[i - 1] + Len(t[i].bytes)
        /\ BytesAll(b, t) = g[k]
    BY <2>1, <2>3a, Zenon DEF BytesRun
  <2> DEFINE G == {j \in 0..k : g[j] = h[j]}
  <2>4. 0 \in G
    BY <1>2, <2>3
  <2>5. ASSUME NEW j \in 0..(k - 1), j \in G PROVE j + 1 \in G
    <3>1. j + 1 \in 1..k /\ j + 1 \in 1..n /\ j + 1 \in 0..k /\ (j + 1) - 1 = j
      OBVIOUS
    <3>2. g[j + 1] = g[j] + Len(t[j + 1].bytes) /\ h[j + 1] = h[j] + Len(s[j + 1].bytes) /\ t[j + 1] = s[j + 1]
      BY <1>2, <2>1, <2>3, <3>1
    <3> QED BY <2>5, <3>1, <3>2
  <2> HIDE DEF G
  <2>6. k \in Nat /\ k \in 0..k
    OBVIOUS
  <2>7. \A j \in 0..k : j \in G
    BY <2>4, <2>5, <2>6, UpTo
  <2>8. k \in G
    BY <2>6, <2>7
  <2> QED BY <2>1, <2>2, <2>3, <2>8 DEF G
<1>4. \A k \in 0..n : h[k] \in Nat
  <2> DEFINE G == {k \in 0..n : h[k] \in Nat}
  <2>1. 0 \in G
    BY <1>2 DEF b
  <2>2. ASSUME NEW k \in 0..(n - 1), k \in G PROVE k + 1 \in G
    <3>1. k + 1 \in 1..n /\ k + 1 \in 0..n /\ (k + 1) - 1 = k
      OBVIOUS
    <3>2. h[k + 1] = h[k] + Len(s[k + 1].bytes) /\ Len(s[k + 1].bytes) \in Nat /\ h[k] \in Nat
      BY <1>1, <1>2, <2>2, <3>1
    <3> QED BY <3>1, <3>2
  <2> HIDE DEF G
  <2>3. \A k \in 0..n : k \in G
    BY <2>1, <2>2, UpTo
  <2> QED BY <2>3 DEF G
<1> QED BY <1>1, <1>2, <1>3, <1>4 DEF b

\* What the first arguments take, as one running sum.
LEMMA StringsSums ==
  ASSUME NEW A, NEW s \in Seq(A), \A i \in 1..Len(s) : Len(s[i]) \in Nat
  PROVE  \E h : /\ h[0] = 0
                /\ \A i \in 1..Len(s) : h[i] = h[i - 1] + Len(s[i]) + 1
                /\ \A k \in 0..Len(s) : h[k] \in Nat /\ StringsSize(s, k) = h[k]
<1>1. PICK n \in Nat : n = Len(s)
  OBVIOUS
<1> DEFINE b == 0
<1> HIDE DEF b
<1>2a. PICK h : StringsRun(h, b, s)
  BY StringsSteps
<1>2. h[0] = b /\ \A i \in 1..n : h[i] = h[i - 1] + Len(s[i]) + 1
  BY <1>1, <1>2a, Zenon DEF StringsRun
<1>3. ASSUME NEW k \in 0..n PROVE StringsSize(s, k) = h[k]
  <2> DEFINE t == SubSeq(s, 1, k)
  <2>1. t \in Seq(A) /\ Len(t) = k /\ \A j \in 1..k : t[j] = s[j]
    BY <1>1
  <2>2. StringsSize(s, k) = StringsAll(b, t)
    BY Zenon DEF StringsSize, StringsAll, b
  <2> HIDE DEF t
  <2>3a. PICK g : StringsRun(g, b, t)
    BY <2>1, StringsSteps
  <2>3. /\ g[0] = b
        /\ \A i \in 1..k : g[i] = g[i - 1] + Len(t[i]) + 1
        /\ StringsAll(b, t) = g[k]
    BY <2>1, <2>3a, Zenon DEF StringsRun
  <2> DEFINE G == {j \in 0..k : g[j] = h[j]}
  <2>4. 0 \in G
    BY <1>2, <2>3
  <2>5. ASSUME NEW j \in 0..(k - 1), j \in G PROVE j + 1 \in G
    <3>1. j + 1 \in 1..k /\ j + 1 \in 1..n /\ j + 1 \in 0..k /\ (j + 1) - 1 = j
      OBVIOUS
    <3>2. g[j + 1] = g[j] + Len(t[j + 1]) + 1 /\ h[j + 1] = h[j] + Len(s[j + 1]) + 1 /\ t[j + 1] = s[j + 1]
      BY <1>2, <2>1, <2>3, <3>1
    <3> QED BY <2>5, <3>1, <3>2
  <2> HIDE DEF G
  <2>6. k \in Nat /\ k \in 0..k
    OBVIOUS
  <2>7. \A j \in 0..k : j \in G
    BY <2>4, <2>5, <2>6, UpTo
  <2>8. k \in G
    BY <2>6, <2>7
  <2> QED BY <2>1, <2>2, <2>3, <2>8 DEF G
<1>4. \A k \in 0..n : h[k] \in Nat
  <2> DEFINE G == {k \in 0..n : h[k] \in Nat}
  <2>1. 0 \in G
    BY <1>2 DEF b
  <2>2. ASSUME NEW k \in 0..(n - 1), k \in G PROVE k + 1 \in G
    <3>1. k + 1 \in 1..n /\ k + 1 \in 0..n /\ (k + 1) - 1 = k
      OBVIOUS
    <3>2. h[k + 1] = h[k] + Len(s[k + 1]) + 1 /\ Len(s[k + 1]) \in Nat /\ h[k] \in Nat
      BY <1>1, <1>2, <2>2, <3>1
    <3> QED BY <3>1, <3>2
  <2> HIDE DEF G
  <2>3. \A k \in 0..n : k \in G
    BY <2>1, <2>2, UpTo
  <2> QED BY <2>3 DEF G
<1> QED BY <1>1, <1>2, <1>3, <1>4 DEF b

\* The function FlattenSeq is defined by, for the first k sequences.
IsFlat(f, ss, k) == f = [i \in 1..k |-> IF i = 1 THEN ss[i] ELSE f[i - 1] \o ss[i]]

LEMMA FlatExists ==
  ASSUME NEW ss, NEW n \in Nat
  PROVE  \E f : IsFlat(f, ss, n)
<1> DEFINE S == {k \in 0..n : \E f : IsFlat(f, ss, k)}
<1>1. 0 \in S
  <2> DEFINE f == [i \in 1..0 |-> i]
  <2>1. IsFlat(f, ss, 0)
    <3>1. \A i \in 1..0 : FALSE
      OBVIOUS
    <3> QED BY <3>1 DEF IsFlat
  <2> QED BY <2>1
<1>2. ASSUME NEW k \in 0..(n - 1), k \in S PROVE k + 1 \in S
  <2>1. PICK f : IsFlat(f, ss, k)
    BY <1>2
  <2> DEFINE r == [i \in 1..(k + 1) |-> IF i = k + 1 THEN (IF i = 1 THEN ss[i] ELSE f[k] \o ss[i]) ELSE f[i]]
  <2>2. ASSUME NEW i \in 1..(k + 1) PROVE r[i] = IF i = 1 THEN ss[i] ELSE r[i - 1] \o ss[i]
    <3>1. CASE i = 1
      <4>1. CASE k = 0
        BY <3>1, <4>1
      <4>2. CASE k # 0
        <5>1. i # k + 1 /\ i \in 1..k
          BY <3>1, <4>2
        <5>2. f[i] = ss[i]
          BY <2>1, <3>1, <5>1 DEF IsFlat
        <5> QED BY <3>1, <5>1, <5>2
      <4> QED BY <4>1, <4>2
    <3>2. CASE i # 1 /\ i = k + 1
      <4>1. i - 1 \in 1..(k + 1) /\ i - 1 # k + 1 /\ i - 1 = k
        BY <3>2
      <4>2. r[i - 1] = f[k] /\ r[i] = f[k] \o ss[i]
        BY <3>2, <4>1
      <4> HIDE DEF r
      <4> QED BY <3>2, <4>2
    <3>3. CASE i # 1 /\ i # k + 1
      <4>1. i - 1 \in 1..(k + 1) /\ i - 1 # k + 1 /\ i \in 1..k
        BY <3>3
      <4>2. r[i - 1] = f[i - 1] /\ r[i] = f[i]
        BY <3>3, <4>1
      <4>3. f[i] = f[i - 1] \o ss[i]
        BY <2>1, <3>3, <4>1 DEF IsFlat
      <4> HIDE DEF r
      <4> QED BY <3>3, <4>2, <4>3
    <3> QED BY <3>1, <3>2, <3>3
  <2>3. r = [i \in 1..(k + 1) |-> r[i]] /\ k + 1 \in 0..n
    OBVIOUS
  <2> HIDE DEF r
  <2>4. IsFlat(r, ss, k + 1)
    BY <2>2, <2>3 DEF IsFlat
  <2> QED BY <2>3, <2>4
<1> HIDE DEF S
<1>3. \A k \in 0..n : k \in S
  BY <1>1, <1>2, UpTo
<1>4. n \in S
  BY <1>3
<1> QED BY <1>4 DEF S

\* c is a followed by b.
Joined(c, a, b) ==
  /\ Len(c) = Len(a) + Len(b)
  /\ \A j \in 1..(Len(a) + Len(b)) : c[j] = IF j <= Len(a) THEN a[j] ELSE b[j - Len(a)]

LEMMA Concatenated ==
  ASSUME NEW V, NEW a \in Seq(V), NEW b \in Seq(V), NEW c, c = a \o b
  PROVE  c \in Seq(V) /\ Joined(c, a, b)
  BY ConcatProperties DEF Joined

\* Element j of sequence i is behind all of the sequences before it: o[i] is the
\* length of the first i.
FlatParts(c, n, ss, o) ==
  /\ Len(c) = o[n]
  /\ \A i \in 1..n : \A j \in 1..Len(ss[i]) : c[o[i - 1] + j] = ss[i][j]
  /\ \A i \in 0..n : o[i] \in 0..o[n]

LEMMA Flattened ==
  ASSUME NEW V, NEW n \in Nat, NEW ss \in Seq(Seq(V)), Len(ss) = n,
         NEW o, o[0] = 0, \A i \in 1..n : o[i] = o[i - 1] + Len(ss[i])
  PROVE  FlattenSeq(ss) \in Seq(V) /\ FlatParts(FlattenSeq(ss), n, ss, o)
<1>0. \A i \in 1..n : ss[i] \in Seq(V) /\ Len(ss[i]) \in Nat
  OBVIOUS
<1> DEFINE f == CHOOSE g : IsFlat(g, ss, n)
           Good(k, i) == \A j \in 1..Len(ss[i]) : o[i - 1] + j \in 1..o[k] /\ f[k][o[i - 1] + j] = ss[i][j]
           G == {k \in 1..n : /\ f[k] \in Seq(V) /\ Len(f[k]) = o[k] /\ o[k] \in Nat
                              /\ \A i \in 0..k : o[i] \in 0..o[k]
                              /\ \A i \in 1..k : Good(k, i)}
<1>1. IsFlat(f, ss, n)
  BY FlatExists, Zenon
<1>2. n # 0 => FlattenSeq(ss) = f[n]
  BY Zenon DEF FlattenSeq, IsFlat
<1> HIDE DEF f
<1>3. \A i \in 1..n : f[i] = IF i = 1 THEN ss[i] ELSE f[i - 1] \o ss[i]
  BY <1>1, Zenon DEF IsFlat
<1>4. ASSUME 1 \in 1..n PROVE 1 \in G
  <2>1. f[1] = ss[1] /\ o[1] = 0 + Len(ss[1]) /\ o[1 - 1] = 0
    BY <1>3, <1>4
  <2>2. f[1] \in Seq(V) /\ Len(f[1]) = o[1] /\ o[1] \in Nat
    BY <1>0, <1>4, <2>1
  <2>3. \A i \in 0..1 : o[i] \in 0..o[1]
    BY <2>2
  <2>4. \A i \in 1..1 : Good(1, i)
    BY <2>1, <2>2
  <2> QED BY <1>4, <2>2, <2>3, <2>4
<1>5. ASSUME NEW k \in 1..(n - 1), k \in G PROVE k + 1 \in G
  <2>1. k + 1 \in 1..n /\ k \in Nat /\ k + 1 # 1 /\ (k + 1) - 1 = k
    OBVIOUS
  <2>2. f[k + 1] = f[k] \o ss[k + 1] /\ o[k + 1] = o[k] + Len(ss[k + 1]) /\ ss[k + 1] \in Seq(V) /\ Len(ss[k + 1]) \in Nat
    BY <1>0, <1>3, <2>1
  <2>3. f[k] \in Seq(V) /\ Len(f[k]) = o[k] /\ o[k] \in Nat
    BY <1>5
  <2> PICK a, b, c : a = f[k] /\ b = ss[k + 1] /\ c = f[k + 1]
    OBVIOUS
  <2>4. /\ c = a \o b /\ a \in Seq(V) /\ b \in Seq(V) /\ Len(a) = o[k]
        /\ o[k + 1] = o[k] + Len(b) /\ Len(b) \in Nat
    BY <2>2, <2>3
  <2>3b. PICK x \in Nat, y \in Nat : x = o[k] /\ y = Len(b) /\ x = Len(a) /\ o[k + 1] = x + y
    BY <2>3, <2>4
  <2>5. /\ c \in Seq(V) /\ Len(c) = x + y
        /\ \A j \in 1..x : c[j] = a[j]
        /\ \A j \in 1..y : c[x + j] = b[j]
    <3>0. a \in Seq(V) /\ b \in Seq(V)
      BY <2>4
    <3>7. c \in Seq(V) /\ Joined(c, a, b)
      BY <2>4, <3>0, Concatenated
    <3>1. c \in Seq(V) /\ Len(c) = Len(a) + Len(b)
      BY <3>7 DEF Joined
    <3>2. \A j \in 1..(Len(a) + Len(b)) : c[j] = IF j <= Len(a) THEN a[j] ELSE b[j - Len(a)]
      BY <3>7, Zenon DEF Joined
    <3>4. \A j \in 1..y : x + j \in 1..(x + y) /\ ~(x + j <= x) /\ (x + j) - x = j
      OBVIOUS
    <3>5. \A j \in 1..x : j \in 1..(x + y) /\ j <= x
      OBVIOUS
    <3>6. \A j \in 1..(x + y) : c[j] = IF j <= x THEN a[j] ELSE b[j - x]
      BY <2>3b, <3>2
    <3>8. \A j \in 1..x : c[j] = a[j]
      BY <3>5, <3>6, Zenon
    <3>9. ASSUME NEW j \in 1..y PROVE c[x + j] = b[j]
      <4> PICK z : z = x + j
        OBVIOUS
      <4>1. z \in 1..(x + y) /\ ~(z <= x) /\ z - x = j
        BY <3>4
      <4>2. c[z] = b[z - x]
        BY <3>6, <4>1, Zenon
      <4> QED BY <4>1, <4>2
    <3> QED BY <2>3b, <3>1, <3>8, <3>9
  <2>6. \A i \in 0..(k + 1) : o[i] \in 0..(x + y)
    <3>1. \A i \in 0..k : o[i] \in 0..x
      BY <1>5, <2>3b
    <3>2. \A i \in 0..(k + 1) : i \in 0..k \/ i = k + 1
      OBVIOUS
    <3>3. \A z \in 0..x : z \in 0..(x + y)
      OBVIOUS
    <3>4. x + y \in 0..(x + y)
      OBVIOUS
    <3> QED BY <2>3b, <3>1, <3>2, <3>3, <3>4
  <2>7. ASSUME NEW i \in 1..(k + 1) PROVE Good(k + 1, i)
    <3>1. CASE i = k + 1
      <4>1. o[i - 1] = x /\ ss[i] = b /\ f[k + 1] = c
        BY <2>1, <2>3b, <3>1
      <4>2. \A j \in 1..y : x + j \in 1..(x + y) /\ c[x + j] = b[j]
        BY <2>5
      <4> QED BY <2>3b, <3>1, <4>1, <4>2
    <3>2. CASE i # k + 1
      <4>1. i \in 1..k
        BY <3>2
      <4>2. \A j \in 1..Len(ss[i]) : o[i - 1] + j \in 1..x /\ a[o[i - 1] + j] = ss[i][j]
        BY <1>5, <2>3b, <4>1
      <4>3. \A z \in 1..x : z \in 1..(x + y)
        OBVIOUS
      <4>4. \A z \in 1..x : z \in 1..(x + y) /\ c[z] = a[z]
        BY <2>5, <4>3, Zenon
      <4>5. \A j \in 1..Len(ss[i]) : o[i - 1] + j \in 1..(x + y) /\ c[o[i - 1] + j] = ss[i][j]
        BY <4>2, <4>4, Zenon
      <4> QED BY <2>3b, <4>5
    <3> QED BY <3>1, <3>2
  <2>8. f[k + 1] \in Seq(V) /\ Len(f[k + 1]) = o[k + 1] /\ o[k + 1] \in Nat
    <3>1. x + y \in Nat
      OBVIOUS
    <3>2. c \in Seq(V) /\ Len(c) = x + y
      BY <2>5, Zenon
    <3> QED BY <2>3b, <3>1, <3>2, Zenon
  <2>9. \A i \in 0..(k + 1) : o[i] \in 0..o[k + 1]
    BY <2>3b, <2>6
  <2> QED BY <2>1, <2>7, <2>8, <2>9
<1>6. CASE n = 0
  <2>1. FlattenSeq(ss) = ss
    BY <1>6, Zenon DEF FlattenSeq
  <2>2. ss = << >> /\ Len(ss) = 0
    BY <1>6
  <2>3. << >> \in Seq(V) /\ Len(<< >>) = 0
    OBVIOUS
  <2>4. \A i \in 0..n : i = 0
    BY <1>6
  <2>5. \A i \in 1..n : FALSE
    BY <1>6
  <2>6. o[0] \in 0..o[0]
    OBVIOUS
  <2> QED BY <1>6, <2>1, <2>2, <2>3, <2>4, <2>5, <2>6 DEF FlatParts
<1>7. CASE n # 0
  <2> DEFINE H == {i \in 0..n : i = 0 \/ i \in G}
  <2>1. \A i \in 0..(n - 1) : i \in H => i + 1 \in H
    <3> SUFFICES ASSUME NEW i \in 0..(n - 1), i \in H PROVE i + 1 \in H
      OBVIOUS
    <3>1. CASE i = 0
      <4>1. 1 \in 1..n /\ i + 1 = 1
        BY <1>7, <3>1
      <4> QED BY <1>4, <4>1
    <3>2. CASE i # 0
      <4>0. i \in 1..(n - 1) /\ i + 1 \in 0..n
        BY <3>2
      <4>1. i \in 1..(n - 1) /\ i \in G /\ i + 1 \in 0..n
        BY <3>2, <4>0, Zenon
      <4> HIDE DEF G
      <4>2. i + 1 \in G
        BY <1>5, <4>1, Zenon
      <4> QED BY <4>1, <4>2
    <3> QED BY <3>1, <3>2
  <2>2. 0 \in H
    OBVIOUS
  <2> HIDE DEF H
  <2>3. \A i \in 0..n : i \in H
    BY <2>1, <2>2, UpTo
  <2>4. n \in G
    <3>1. n \in H
      BY <2>3
    <3> QED BY <1>7, <3>1 DEF H
  <2>5. FlattenSeq(ss) = f[n]
    BY <1>2, <1>7
  <2> QED BY <2>4, <2>5 DEF FlatParts
<1> QED BY <1>6, <1>7

----------------------------------------------------------------------------
(* The image.                                                              *)

\* What is known of a packing.
LEMMA PackingFacts ==
  ASSUME NEW p \in Packings
  PROVE  /\ p \in Seq(Range(p)) /\ Len(p) \in Nat /\ DOMAIN p = 1..Len(p)
         /\ \A i \in 1..Len(p) : p[i].bytes \in Seq(Nat) /\ Len(p[i].bytes) \in Nat
<1>1. p \in Seq(Range(p)) /\ \A i \in DOMAIN p : p[i].bytes \in Seq(Nat)
  BY CallsAssumption
<1>2. Len(p) \in Nat /\ DOMAIN p = 1..Len(p)
  BY <1>1
<1> QED BY <1>1, <1>2

\* Where the parts of an image are: h[i] bytes of files lie before those of
\* file i + 1.
Layout(p, h) ==
  /\ DataOffset(p) = SuperblockSize + Len(p) * EntrySize
  /\ DataOffset(p) \in Nat
  /\ \A k \in 0..Len(p) : h[k] \in Nat /\ h[k] <= h[Len(p)]
  /\ \A i \in 1..Len(p) :
       /\ h[i] = h[i - 1] + Len(p[i].bytes)
       /\ EntryOffset(p, i) = DataOffset(p) + h[i - 1]
       /\ \A j \in 1..Len(p[i].bytes) : mkfs(p).cells[h[i - 1] + j] = p[i].bytes[j]
  /\ mkfs(p).size = DataOffset(p) + h[Len(p)]

\* An image that is smaller than 2^32 bytes is laid out so.
LEMMA LaidOut ==
  ASSUME NEW p \in Packings
  PROVE  \E h : Layout(p, h)
<1>1. /\ p \in Seq(Range(p)) /\ DOMAIN p = 1..Len(p)
      /\ \A i \in 1..Len(p) : p[i].bytes \in Seq(Nat) /\ Len(p[i].bytes) \in Nat
  BY PackingFacts
<1>2. PICK n \in Nat : n = Len(p)
  BY PackingFacts
<1>3. PICK h : /\ h[0] = 0
               /\ \A i \in 1..Len(p) : h[i] = h[i - 1] + Len(p[i].bytes)
               /\ \A k \in 0..Len(p) : h[k] \in Nat /\ SizeBefore(p, k + 1) = h[k]
  BY <1>1, BytesSums
<1>4. /\ h[0] = 0
      /\ \A i \in 1..n : h[i] = h[i - 1] + Len(p[i].bytes)
      /\ \A k \in 0..n : h[k] \in Nat /\ SizeBefore(p, k + 1) = h[k]
  BY <1>2, <1>3, Zenon
<1> DEFINE ss == [i \in 1..n |-> p[i].bytes]
<1>5. ss \in Seq(Seq(Nat)) /\ Len(ss) = n /\ \A i \in 1..n : ss[i] = p[i].bytes
  <2>1. \A i \in 1..n : p[i].bytes \in Seq(Nat)
    BY <1>1, <1>2
  <2> QED BY <2>1
<1>6. mkfs(p).cells = FlattenSeq(ss)
  BY <1>1, <1>2 DEF mkfs
<1> HIDE DEF ss
<1>7. /\ \A i \in 1..n : \A j \in 1..Len(ss[i]) : FlattenSeq(ss)[h[i - 1] + j] = ss[i][j]
      /\ \A i \in 0..n : h[i] \in 0..h[n]
  <2>1. \A i \in 1..n : h[i] = h[i - 1] + Len(ss[i])
    BY <1>4, <1>5
  <2>2. h[0] = 0
    BY <1>4
  <2>3. FlatParts(FlattenSeq(ss), n, ss, h)
    BY <1>5, <2>1, <2>2, Flattened
  <2> QED BY <2>3, Zenon DEF FlatParts
<1>8. PICK D \in Nat : D = SuperblockSize + n * EntrySize
  BY RamFsAssumption
<1>9. PICK w \in Nat \ {0} : w = Word
  BY RamFsAssumption
<1>10. D + h[n] < w /\ h[n] \in Nat /\ mkfs(p).size = D + h[n]
  <2>1. mkfs(p).size = D + SizeBefore(p, n + 1)
    BY <1>2, <1>8 DEF mkfs
  <2>2. n \in 0..n
    OBVIOUS
  <2>3. h[n] \in Nat /\ SizeBefore(p, n + 1) = h[n]
    BY <1>4, <2>2
  <2>4. mkfs(p).size < Word
    BY CallsAssumption
  <2> QED BY <1>9, <2>1, <2>3, <2>4
<1>11. DataOffset(p) = D
  <2>1. DataOffset(p) = D % w
    BY <1>2, <1>8, <1>9 DEF DataOffset
  <2>2. D < w
    BY <1>10
  <2> QED BY <2>1, <2>2
<1>12. ASSUME NEW i \in 1..n PROVE EntryOffset(p, i) = D + h[i - 1]
  <2>1. i - 1 \in 0..n /\ (i - 1) + 1 = i
    OBVIOUS
  <2>2. h[i - 1] \in 0..h[n] /\ SizeBefore(p, i) = h[i - 1]
    BY <1>4, <1>7, <2>1
  <2>3. PICK x \in Nat : x = h[i - 1] /\ D + x < w
    BY <1>10, <2>2
  <2>4. EntryOffset(p, i) = (D + x) % w
    BY <1>9, <1>11, <2>2, <2>3 DEF EntryOffset
  <2> QED BY <2>3, <2>4
<1>13. \A i \in 1..n : \A j \in 1..Len(p[i].bytes) : mkfs(p).cells[h[i - 1] + j] = p[i].bytes[j]
  BY <1>5, <1>6, <1>7
<1>14. \A k \in 0..n : h[k] \in Nat /\ h[k] <= h[n]
  BY <1>4, <1>7
<1>15. Layout(p, h)
  BY <1>2, <1>4, <1>8, <1>10, <1>11, <1>12, <1>13, <1>14 DEF Layout
<1> QED BY <1>15

\* The image the kernel was given: what mkfs packed, or its beginning.
ImageKept ==
  /\ inputs \in Packings
  /\ image = Truncated(mkfs(inputs), image.size)
  /\ image.size \in 0..mkfs(inputs).size

LEMMA ImageFields ==
  ASSUME ImageKept
  PROVE  /\ TableKept
         /\ image.files_offset = SuperblockSize /\ image.data_offset = DataOffset(inputs)
         /\ image.cells = mkfs(inputs).cells /\ image.size \in Nat
<1>1. image = [mkfs(inputs) EXCEPT !.size = image.size]
  BY DEF ImageKept, Truncated
<1>2. /\ image.file_count = mkfs(inputs).file_count /\ image.files = mkfs(inputs).files
      /\ image.files_offset = mkfs(inputs).files_offset /\ image.data_offset = mkfs(inputs).data_offset
      /\ image.cells = mkfs(inputs).cells
  BY <1>1 DEF mkfs
<1>3. image.size \in Nat
  BY DEF ImageKept
<1> QED BY <1>2, <1>3 DEF TableKept, mkfs, ImageKept

\* The file of an entry whose data fs_file_data finds is there as it was packed.
LEMMA FileBytes ==
  ASSUME ImageKept, NEW i \in 1..Len(inputs), fs_file_data(image, i) # 0
  PROVE  /\ fs_file_data(image, i) \in Nat /\ fs_file_size(image, i) = Len(inputs[i].bytes)
         /\ \A j \in 1..Len(inputs[i].bytes) : ByteAt(image, fs_file_data(image, i) + j - 1) = inputs[i].bytes[j]
<1>1. PICK p \in Packings : p = inputs
  BY DEF ImageKept
<1>2. PICK h : Layout(p, h)
  BY <1>1, LaidOut
<1>3. PICK n \in Nat : n = Len(p)
  BY <1>1, PackingFacts
<1>4. PICK m \in Nat : m = Len(p[i].bytes)
  BY <1>1, PackingFacts
<1>5. PICK D \in Nat : D = DataOffset(p)
  BY <1>2 DEF Layout
<1>6. PICK x \in Nat : x = h[i - 1]
  <2>1. i - 1 \in 0..n
    BY <1>1, <1>3
  <2> QED BY <1>2, <1>3, <2>1 DEF Layout
<1>7. PICK z \in Nat : z = image.size
  BY ImageFields
<1>8. EntryOffset(p, i) = D + x /\ \A j \in 1..m : mkfs(p).cells[x + j] = p[i].bytes[j]
  BY <1>1, <1>2, <1>4, <1>5, <1>6 DEF Layout
<1>9. Entry(image, i) = image.files[i]
  <2>1. CASE ~(image.files_offset + i * EntrySize <= image.size)
    <3>1. Entry(image, i) = [name |-> << >>, offset |-> 0, size |-> 0]
      BY <2>1 DEF Entry
    <3>2. fs_file_data(image, i) = 0
      BY <3>1 DEF fs_file_data
    <3> QED BY <3>2
  <2>2. CASE image.files_offset + i * EntrySize <= image.size
    BY <2>2 DEF Entry
  <2> QED BY <2>1, <2>2
<1>10. image.files[i].offset = D + x /\ image.files[i].size = m
  <2>1. i \in DOMAIN inputs /\ image.files = [j \in DOMAIN inputs |-> create_file_entry(inputs, j)]
    BY <1>1, ImageFields, PackingFacts DEF TableKept
  <2> QED BY <1>1, <1>4, <1>8, <2>1 DEF create_file_entry
<1>11. fs_file_data(image, i) = IF D + x > z \/ m > z - (D + x) THEN 0 ELSE D + x
  BY <1>7, <1>9, <1>10 DEF fs_file_data
<1>12. fs_file_data(image, i) = D + x /\ D + x + m <= z
  BY <1>11
<1>13. ASSUME NEW j \in 1..m PROVE ByteAt(image, D + x + j - 1) = p[i].bytes[j]
  <2>1. D + x + j - 1 >= D /\ D + x + j - 1 < z /\ (D + x + j - 1) - D + 1 = x + j
    BY <1>12
  <2>2. image.data_offset = D /\ image.cells = mkfs(p).cells
    BY <1>1, <1>5, ImageFields
  <2>3. ByteAt(image, D + x + j - 1) = image.cells[x + j]
    BY <1>7, <2>1, <2>2 DEF ByteAt
  <2> QED BY <1>8, <2>2, <2>3
<1>14. fs_file_size(image, i) = m
  BY <1>9, <1>10 DEF fs_file_size
<1> QED BY <1>1, <1>4, <1>12, <1>13, <1>14

----------------------------------------------------------------------------
(* Pages.                                                                  *)

LEMMA Multiples ==
  ASSUME NEW d \in Nat \ {0}, NEW x \in Nat, NEW y \in Nat
  PROVE  /\ d * x \in Nat /\ d * x = x * d
         /\ x < y => d * x + d <= d * y
         /\ x <= y => d * x <= d * y
         /\ d * x < d * y => x < y
<1>1. d * x \in Nat /\ d * x = x * d /\ d * y \in Nat
  OBVIOUS
<1>2. ASSUME NEW u \in Nat, NEW v \in Nat, u <= v PROVE d * u <= d * v
  <2>1. v - u \in Nat /\ d \in Nat
    BY <1>2
  <2>2. d * (v - u) \in Nat
    BY <2>1
  <2>3. d * (v - u) = d * v - d * u
    OBVIOUS
  <2>4. d * v \in Nat /\ d * u \in Nat
    OBVIOUS
  <2> QED BY <2>2, <2>3, <2>4
<1>3. ASSUME x < y PROVE d * x + d <= d * y
  <2>1. x + 1 \in Nat /\ x + 1 <= y
    BY <1>3
  <2>2. d * (x + 1) <= d * y
    BY <1>2, <2>1
  <2>3. d * (x + 1) = d * x + d
    OBVIOUS
  <2> QED BY <2>2, <2>3
<1>4. x <= y => d * x <= d * y
  BY <1>2
<1>5. d * x < d * y => x < y
  <2>1. y <= x => d * y <= d * x
    BY <1>2
  <2> QED BY <1>1, <2>1
<1> QED BY <1>1, <1>3, <1>4, <1>5

\* An address is in its page.
LEMMA PageFacts ==
  ASSUME NEW a \in Nat
  PROVE  /\ PageOf(a) \in Nat /\ a % PageSize \in 0..(PageSize - 1)
         /\ PageBase(a) = PageSize * PageOf(a) /\ PageBase(a) \in Nat
         /\ a = PageBase(a) + (a % PageSize)
<1>1. PICK d \in Nat \ {0} : d = PageSize
  BY Sizes
<1>2. PICK q \in Nat : q = a \div d
  BY <1>1, Division
<1>3. PICK r \in 0..(d - 1) : r = a % d
  BY <1>1, Division
<1>4. a = d * q + r
  BY <1>1, <1>2, <1>3, Division
<1>5. d * q \in Nat /\ d * q = q * d
  BY Multiples
<1>6. PageOf(a) = q /\ PageBase(a) = q * d
  BY <1>1, <1>2 DEF PageOf, PageBase
<1> QED BY <1>1, <1>3, <1>4, <1>5, <1>6

\* And in no other.
LEMMA PageUnique ==
  ASSUME NEW a \in Nat, NEW p \in Nat, PageSize * p <= a, a < PageSize * p + PageSize
  PROVE  PageOf(a) = p
<1>1. PICK d \in Nat \ {0} : d = PageSize
  BY Sizes
<1>2. PICK q \in Nat : q = PageOf(a)
  BY PageFacts
<1>3. PICK r \in 0..(d - 1) : r = a % d
  BY <1>1, PageFacts
<1>4. a = d * q + r
  BY <1>1, <1>2, <1>3, PageFacts
<1>5. d * q \in Nat /\ d * p \in Nat /\ (q < p => d * q + d <= d * p) /\ (p < q => d * p + d <= d * q)
  BY Multiples
<1>6. d * p <= a /\ a < d * p + d
  BY <1>1
<1>7. ~(q < p) /\ ~(p < q)
  BY <1>4, <1>5, <1>6
<1> QED BY <1>2, <1>7

\* The user half is made of whole pages and ends at least a page before the
\* end of memory.
LEMMA UserHalf ==
  /\ PageOf(UserEnd) \in Nat /\ UserEnd = PageSize * PageOf(UserEnd)
  /\ UserEnd + PageSize <= AddressEnd
<1>1. PICK d \in Nat \ {0} : d = PageSize
  BY Sizes
<1>2. UserEnd \in Nat /\ AddressEnd \in Nat /\ UserEnd < AddressEnd /\ UserEnd % d = 0 /\ AddressEnd % d = 0
  BY <1>1, UserMemoryAssumption
<1>7. ASSUME NEW a \in Nat, a % d = 0 PROVE PageOf(a) \in Nat /\ a = d * PageOf(a)
  <2>1. PageOf(a) \in Nat /\ PageBase(a) = d * PageOf(a) /\ PageBase(a) \in Nat /\ a = PageBase(a) + (a % d)
    BY <1>1, PageFacts
  <2> QED BY <1>7, <2>1
<1>3. PICK u \in Nat : u = PageOf(UserEnd) /\ UserEnd = d * u
  BY <1>2, <1>7
<1>4. PICK v \in Nat : v = PageOf(AddressEnd) /\ AddressEnd = d * v
  BY <1>2, <1>7
<1>5. u < v
  BY <1>2, <1>3, <1>4, Multiples
<1>6. d * u + d <= d * v
  BY <1>5, Multiples
<1> QED BY <1>1, <1>3, <1>4, <1>6

\* The pages of the user half.
UserPages == 0..(PageOf(UserEnd) - 1)

LEMMA InUserHalf ==
  ASSUME NEW p \in Nat, PageSize * p < UserEnd
  PROVE  p \in UserPages
<1>1. PICK d \in Nat \ {0} : d = PageSize
  BY Sizes
<1>2. PICK u \in Nat : u = PageOf(UserEnd) /\ UserEnd = d * u
  BY <1>1, UserHalf
<1>3. p < u
  BY <1>1, <1>2, Multiples
<1> QED BY <1>2, <1>3 DEF UserPages


\* The memory of a process.
Space == [user : SUBSET UserPages, cell : [Addresses -> Nat]]

LEMMA SpaceFields ==
  ASSUME NEW s \in Space
  PROVE  /\ s = [user |-> s.user, cell |-> s.cell]
         /\ s.user \subseteq UserPages /\ s.cell \in [Addresses -> Nat]
  BY DEF Space

----------------------------------------------------------------------------
(* One segment.                                                            *)

\* A header the linker may have written.
Linked(ph) ==
  /\ ph.load \in BOOLEAN
  /\ ph.offset \in Nat /\ ph.vaddr \in Nat /\ ph.filesz \in Nat /\ ph.memsz \in Nat
  /\ ph.vaddr + ph.memsz <= UserEnd

\* The end of a segment's pages, e of them from address 0 on, does not wrap.
LEMMA SegmentEndsAt ==
  ASSUME NEW ph, Linked(ph), NEW d, d = PageSize
  PROVE  \E e \in Nat : \E r \in 0..(d - 1) : /\ SegmentEnd(ph) = d * e
                                              /\ ph.vaddr + ph.memsz + d - 1 = d * e + r
<1>1. d \in Nat \ {0} /\ UserEnd \in Nat /\ AddressEnd \in Nat /\ UserEnd + d <= AddressEnd
  BY Sizes, UserHalf
<1>2. PICK x \in Nat : x = ph.vaddr + ph.memsz + d - 1 /\ x < AddressEnd
  BY <1>1 DEF Linked
<1>3. x % AddressEnd = x
  BY <1>1, <1>2
<1>4. SegmentEnd(ph) = PageBase(x)
  BY <1>2, <1>3 DEF SegmentEnd
<1>5. /\ PageOf(x) \in Nat /\ x % d \in 0..(d - 1)
      /\ PageBase(x) = d * PageOf(x) /\ x = PageBase(x) + (x % d)
  BY PageFacts
<1> QED BY <1>2, <1>4, <1>5

\* The loop maps no page that is not the segment's, and none of the kernel's.
LEMMA LoadedInSegment ==
  ASSUME NEW ph, Linked(ph)
  PROVE  LoadedPages(ph) \subseteq SegmentPages(ph) /\ LoadedPages(ph) \subseteq UserPages
<1> SUFFICES ASSUME NEW p \in LoadedPages(ph) PROVE p \in SegmentPages(ph) /\ p \in UserPages
  OBVIOUS
<1>1. PICK d \in Nat \ {0} : d = PageSize
  BY Sizes
<1>2. PICK e \in Nat : \E r \in 0..(d - 1) : SegmentEnd(ph) = d * e /\ ph.vaddr + ph.memsz + d - 1 = d * e + r
  BY <1>1, SegmentEndsAt
<1>3. PICK r \in 0..(d - 1) : SegmentEnd(ph) = d * e /\ ph.vaddr + ph.memsz + d - 1 = d * e + r
  BY <1>2
<1>4. PICK x \in Nat : x = ph.vaddr + ph.memsz /\ x <= UserEnd
  BY DEF Linked
<1>5. PICK s \in Nat : s = PageBase(ph.vaddr)
  BY PageFacts DEF Linked
<1>6. p \in Nat /\ p * d >= s /\ p * d < d * e
  BY <1>1, <1>3, <1>5 DEF LoadedPages
<1>7. d * p \in Nat /\ d * p = p * d /\ (d * p < d * e => p < e) /\ (p < e => d * p + d <= d * e) /\ d * e \in Nat
  BY <1>6, Multiples
<1>8. PICK a \in Nat : a = d * p
  BY <1>7
<1>9. s <= a /\ a <= x - 1
  BY <1>3, <1>4, <1>6, <1>7, <1>8
<1>10. PageOf(a) = p
  BY <1>1, <1>6, <1>8, PageUnique
<1>11. a \in PageBase(ph.vaddr)..(ph.vaddr + ph.memsz - 1)
  <2>1. a \in s..(x - 1)
    BY <1>9
  <2>2. ph.vaddr + ph.memsz - 1 = x - 1
    <3>1. PICK v \in Nat, m \in Nat : v = ph.vaddr /\ m = ph.memsz
      BY DEF Linked
    <3>2. v + m = x
      BY <1>4, <3>1, Zenon
    <3>3. v + m - 1 = x - 1
      BY <3>2
    <3> QED BY <3>1, <3>3, Zenon
  <2> QED BY <1>5, <2>1, <2>2, Zenon
<1>12. p \in UserPages
  BY <1>1, <1>4, <1>6, <1>8, <1>9, InUserHalf, Sizes
<1> QED BY <1>10, <1>11, <1>12 DEF SegmentPages

\* It maps the pages of all its bytes.
LEMMA SegmentLoaded ==
  ASSUME NEW ph, Linked(ph), NEW k \in 0..(ph.memsz - 1), NEW a, a = ph.vaddr + k
  PROVE  /\ a \in Nat /\ a \in Addresses
         /\ PageOf(a) \in LoadedPages(ph) /\ PageOf(a) \in SegmentPages(ph)
<1>1. PICK d \in Nat \ {0} : d = PageSize
  BY Sizes
<1>3. PICK e \in Nat : \E r \in 0..(d - 1) : SegmentEnd(ph) = d * e /\ ph.vaddr + ph.memsz + d - 1 = d * e + r
  BY <1>1, SegmentEndsAt
<1>4. PICK r \in 0..(d - 1) : SegmentEnd(ph) = d * e /\ ph.vaddr + ph.memsz + d - 1 = d * e + r
  BY <1>3
<1>5. PICK v \in Nat, m \in Nat : v = ph.vaddr /\ m = ph.memsz /\ v + m <= UserEnd
  BY DEF Linked
<1>6. a \in Nat /\ v <= a /\ a < v + m /\ a = v + k
  BY <1>5
<1>7. UserEnd < AddressEnd /\ UserEnd \in Nat /\ AddressEnd \in Nat
  BY Sizes
<1>8. a \in Addresses /\ a <= AddressEnd - 1 /\ AddressEnd - 1 \in Nat
  BY <1>5, <1>6, <1>7 DEF Addresses
<1>9. PICK p \in Nat : p = PageOf(a) /\ PageBase(a) = d * p /\ d * p <= a
  <2>1. PageOf(a) \in Nat /\ a % d \in 0..(d - 1) /\ PageBase(a) = d * PageOf(a) /\ PageBase(a) \in Nat
        /\ a = PageBase(a) + (a % d)
    BY <1>1, <1>6, PageFacts
  <2>2. PageBase(a) <= a
    BY <2>1, <1>6
  <2> QED BY <2>1, <2>2
<1>10. PICK q \in Nat : q = PageOf(v) /\ PageBase(v) = d * q /\ q <= p /\ d * q <= v
  <2>1. PageOf(v) \in Nat /\ v % d \in 0..(d - 1) /\ PageBase(v) = d * PageOf(v) /\ PageBase(v) \in Nat
        /\ v = PageBase(v) + (v % d)
    BY <1>1, PageFacts
  <2>2. PageBase(v) <= v
    BY <2>1
  <2>3. PageOf(v) <= PageOf(a)
    BY <1>6, PagesAscend
  <2> QED BY <1>9, <2>1, <2>2, <2>3
<1>11. p \in 0..PageOf(AddressEnd - 1)
  <2>1. PageOf(AddressEnd - 1) \in Nat /\ PageOf(a) <= PageOf(AddressEnd - 1)
    BY <1>6, <1>8, PagesAscend
  <2> QED BY <1>9, <2>1
<1>12. d * p \in Nat /\ d * e \in Nat /\ d * q \in Nat /\ d * p = p * d /\ d * q <= d * p
  BY <1>10, Multiples
<1>13. d * p < d * e
  BY <1>4, <1>5, <1>6, <1>9, <1>12
<1>14. p \in LoadedPages(ph)
  BY <1>1, <1>4, <1>5, <1>10, <1>11, <1>12, <1>13 DEF LoadedPages
<1>15. a \in PageBase(v)..(v + m - 1)
  BY <1>6, <1>10, <1>12
<1> QED BY <1>5, <1>6, <1>8, <1>9, <1>14, <1>15 DEF SegmentPages

\* The byte at offset k of a segment that starts on a page boundary is the
\* file's, or zero.
LEMMA ContentsRight ==
  ASSUME NEW b, NEW ph, Linked(ph), ph.vaddr % PageSize = 0, NEW k \in 0..(ph.memsz - 1), NEW a, a = ph.vaddr + k
  PROVE  PageContents(b, ph, PageBase(a))[a % PageSize] = IF k < ph.filesz THEN b[ph.offset + k + 1] ELSE 0
<1>1. PICK d \in Nat \ {0} : d = PageSize
  BY Sizes
<1>2. PICK v \in Nat, f \in Nat, o \in Nat : v = ph.vaddr /\ f = ph.filesz /\ o = ph.offset
  BY DEF Linked
<1>3. k \in Nat /\ a = v + k /\ a \in Nat
  BY <1>2 DEF Linked
<1>4. PageBase(v) = v
  <2>1. PageBase(v) \in Nat /\ v = PageBase(v) + (v % d) /\ v % d = 0
    BY <1>1, <1>2, PageFacts
  <2> QED BY <2>1
<1>5. PICK q \in Nat : q = PageBase(a)
  BY <1>3, PageFacts
<1>6. PICK j \in 0..(d - 1) : j = a % d /\ a = q + j
  <2>1. a % d \in 0..(d - 1) /\ a = PageBase(a) + (a % d)
    BY <1>1, <1>3, PageFacts
  <2> QED BY <1>5, <2>1
<1>7. v <= q
  <2>1. PageOf(v) \in Nat /\ PageOf(a) \in Nat /\ PageOf(v) <= PageOf(a)
    BY <1>3, PagesAscend
  <2>2. d * PageOf(v) <= d * PageOf(a)
    BY <2>1, Multiples
  <2>3. PageBase(v) = d * PageOf(v) /\ PageBase(a) = d * PageOf(a)
    BY <1>1, <1>3, PageFacts
  <2> QED BY <1>4, <1>5, <2>2, <2>3
<1>8. PICK co \in Nat : co = (q - v) + 0 /\ co + j = k
  BY <1>3, <1>6, <1>7
<1> DEFINE size == IF co >= f THEN 0 ELSE Min({f - co, d - 0})
<1>9. PageContents(b, ph, q)[j] = IF j >= 0 /\ j < 0 + size THEN b[o + co + (j - 0) + 1] ELSE 0
  <2>1. (IF q = PageBase(ph.vaddr) THEN ph.vaddr - PageBase(ph.vaddr) ELSE 0) = 0
    BY <1>2, <1>4
  <2> DEFINE po == IF q = PageBase(ph.vaddr) THEN ph.vaddr - PageBase(ph.vaddr) ELSE 0
             cof == (q - PageBase(ph.vaddr)) + po
             cs == IF cof >= ph.filesz THEN 0 ELSE Min({ph.filesz - cof, PageSize - po})
  <2>2. PageContents(b, ph, q) = [x \in 0..(PageSize - 1) |->
          IF x >= po /\ x < po + cs THEN b[ph.offset + cof + (x - po) + 1] ELSE 0]
    BY Zenon DEF PageContents
  <2>3. po = 0
    BY <2>1
  <2> HIDE DEF po
  <2>4. cof = co
    BY <1>2, <1>4, <1>8, <2>3
  <2> HIDE DEF cof
  <2>5. cs = size
    BY <1>1, <1>2, <2>3, <2>4
  <2> HIDE DEF cs, size
  <2> QED BY <1>1, <1>2, <2>2, <2>3, <2>4, <2>5
<1>10. j < size <=> k < f
  <2>1. CASE co >= f
    BY <1>8, <2>1
  <2>2. CASE ~(co >= f)
    <3> PICK S : S = {f - co, d - 0}
      OBVIOUS
    <3>1. S \in SUBSET Nat /\ S # {} /\ f - co \in S /\ d \in S /\ \A x \in S : x = f - co \/ x = d
      BY <2>2
    <3>2. Min(S) \in S /\ \A x \in S : Min(S) <= x
      BY <3>1, Least
    <3>3. size = Min(S)
      BY <2>2
    <3>4. PICK m \in Nat : m = Min(S)
      BY <3>1, <3>2
    <3>5. m <= f - co /\ m <= d /\ (m = f - co \/ m = d)
      BY <3>1, <3>2, <3>4
    <3> HIDE DEF size
    <3> QED BY <1>8, <2>2, <3>3, <3>4, <3>5
  <2> QED BY <2>1, <2>2
<1>11. o + co + (j - 0) + 1 = o + k + 1 /\ j >= 0 /\ 0 + size = size
  <2>1. size \in Nat
    <3>1. CASE co >= f
      BY <3>1
    <3>2. CASE ~(co >= f)
      <4> PICK S : S = {f - co, d - 0}
        OBVIOUS
      <4>1. S \in SUBSET Nat /\ S # {}
        BY <3>2
      <4>2. Min(S) \in S
        BY <4>1, Least
      <4>3. size = Min(S)
        BY <3>2
      <4> QED BY <4>1, <4>2, <4>3
    <3> QED BY <3>1, <3>2
  <2> HIDE DEF size
  <2> QED BY <1>8, <2>1
<1> HIDE DEF size
<1> QED BY <1>1, <1>2, <1>5, <1>6, <1>9, <1>10, <1>11


\* Whatever the segment, only bytes of the file are copied.
LEMMA ContentsInFile ==
  ASSUME NEW b \in Seq(Nat), NEW ph, Linked(ph), SegmentFits(ph, Len(b)), NEW a \in Addresses, PageOf(a) \in LoadedPages(ph)
  PROVE  PageContents(b, ph, PageBase(a))[a % PageSize] \in Nat
<1>1. PICK d \in Nat \ {0} : d = PageSize
  BY Sizes
<1>2. PICK v \in Nat, f \in Nat, o \in Nat, n \in Nat : v = ph.vaddr /\ f = ph.filesz /\ o = ph.offset /\ n = Len(b)
  BY DEF Linked
<1>3. o + f <= n
  BY <1>2 DEF SegmentFits
<1>4. PICK u \in Nat : u = PageBase(v) /\ v - u \in 0..(d - 1)
  <2>1. PageBase(v) \in Nat /\ v % d \in 0..(d - 1) /\ v = PageBase(v) + (v % d)
    BY <1>1, PageFacts
  <2> QED BY <2>1
<1>5. a \in Nat
  BY Sizes DEF Addresses
<1>6. PICK q \in Nat : q = PageBase(a) /\ q >= u
  <2>1. PageBase(a) \in Nat /\ PageBase(a) = PageSize * PageOf(a) /\ PageOf(a) \in Nat
    BY <1>5, PageFacts
  <2>2. PageOf(a) * PageSize >= PageBase(v)
    BY <1>2 DEF LoadedPages
  <2>3. PageOf(a) * PageSize = PageSize * PageOf(a)
    BY <2>1, Multiples, Sizes
  <2> QED BY <1>4, <2>1, <2>2, <2>3
<1>7. PICK j \in 0..(d - 1) : j = a % d
  BY <1>1, <1>5, PageFacts
<1> DEFINE po == IF q = PageBase(ph.vaddr) THEN ph.vaddr - PageBase(ph.vaddr) ELSE 0
           cof == (q - PageBase(ph.vaddr)) + po
           cs == IF cof >= ph.filesz THEN 0 ELSE Min({ph.filesz - cof, PageSize - po})
<1>8. PageContents(b, ph, q) = [x \in 0..(PageSize - 1) |->
        IF x >= po /\ x < po + cs THEN b[ph.offset + cof + (x - po) + 1] ELSE 0]
  BY Zenon DEF PageContents
<1>9. po \in 0..(d - 1)
  BY <1>2, <1>4
<1>10. cof = (q - u) + po
  BY <1>2, <1>4
<1> HIDE DEF po
<1>11. cof \in Nat
  BY <1>6, <1>9, <1>10
<1> HIDE DEF cof
<1>12. cs \in Nat /\ (cs # 0 => cs <= f - cof)
  <2>1. CASE cof >= f
    BY <1>2, <2>1
  <2>2. CASE ~(cof >= f)
    <3> PICK S : S = {f - cof, d - po}
      OBVIOUS
    <3>1. f - cof \in Nat /\ d - po \in Nat
      BY <1>9, <1>11, <2>2
    <3>2. S \in SUBSET Nat /\ S # {} /\ f - cof \in S
      BY <3>1
    <3>3. Min(S) \in S /\ \A x \in S : Min(S) <= x
      BY <3>2, Least
    <3>4. cs = Min(S)
      BY <1>1, <1>2, <2>2
    <3> HIDE DEF cs
    <3> QED BY <3>2, <3>3, <3>4
  <2> QED BY <2>1, <2>2
<1> HIDE DEF cs
<1>13. PICK y : y = PageContents(b, ph, q)[j] /\ y = IF j >= po /\ j < po + cs THEN b[o + cof + (j - po) + 1] ELSE 0
  BY <1>1, <1>2, <1>8
<1>14. CASE j >= po /\ j < po + cs
  <2>1. o + cof + (j - po) + 1 \in 1..n
    BY <1>3, <1>9, <1>11, <1>12, <1>14
  <2>2. y = b[o + cof + (j - po) + 1]
    BY <1>13, <1>14
  <2>3. y \in Nat
    BY <1>2, <2>1, <2>2
  <2> QED BY <1>1, <1>6, <1>7, <1>13, <2>3
<1>15. CASE ~(j >= po /\ j < po + cs)
  <2>1. y = 0
    BY <1>13, <1>15
  <2> QED BY <1>1, <1>6, <1>7, <1>13, <2>1
<1> QED BY <1>14, <1>15

\* So that a program's memory stays memory.
LEMMA SegmentTyped ==
  ASSUME NEW s \in Space, NEW b \in Seq(Nat), NEW ph, Linked(ph), SegmentFits(ph, Len(b))
  PROVE  LoadSegment(s, b, ph) \in Space
<1> DEFINE c == [a \in Addresses |->
                  IF PageOf(a) \in LoadedPages(ph) THEN PageContents(b, ph, PageBase(a))[a % PageSize] ELSE s.cell[a]]
<1>1. \A a \in Addresses : c[a] \in Nat
  <2> TAKE a \in Addresses
  <2>1. CASE PageOf(a) \in LoadedPages(ph)
    <3>1. PageContents(b, ph, PageBase(a))[a % PageSize] \in Nat
      BY <2>1, ContentsInFile
    <3> QED BY <2>1, <3>1
  <2>2. CASE PageOf(a) \notin LoadedPages(ph)
    BY <2>2, SpaceFields
  <2> QED BY <2>1, <2>2
<1>2. c \in [Addresses -> Nat]
  <2>1. c = [a \in Addresses |-> c[a]]
    OBVIOUS
  <2> HIDE DEF c
  <2> QED BY <1>1, <2>1
<1>3. s.user \union LoadedPages(ph) \subseteq UserPages
  BY LoadedInSegment, SpaceFields
<1>4. LoadSegment(s, b, ph) = [user |-> s.user \union LoadedPages(ph), cell |-> c]
  BY DEF LoadSegment
<1> HIDE DEF c
<1> QED BY <1>2, <1>3, <1>4 DEF Space

\* A segment that starts on a page boundary arrives.
LEMMA SegmentArrives ==
  ASSUME NEW s, NEW b, NEW ph, Linked(ph), ph.vaddr % PageSize = 0
  PROVE  Arrived(LoadSegment(s, b, ph), b, ph)
<1> SUFFICES ASSUME NEW k \in 0..(ph.memsz - 1)
             PROVE  /\ PageOf(ph.vaddr + k) \in LoadSegment(s, b, ph).user
                    /\ LoadSegment(s, b, ph).cell[ph.vaddr + k] = IF k < ph.filesz THEN b[ph.offset + k + 1] ELSE 0
  BY DEF Arrived
<1> PICK a : a = ph.vaddr + k
  OBVIOUS
<1>1. a \in Addresses /\ PageOf(a) \in LoadedPages(ph)
  BY SegmentLoaded
<1>2. PageContents(b, ph, PageBase(a))[a % PageSize] = IF k < ph.filesz THEN b[ph.offset + k + 1] ELSE 0
  BY ContentsRight
<1>3. PageOf(a) \in LoadSegment(s, b, ph).user
  BY <1>1 DEF LoadSegment
<1>4. LoadSegment(s, b, ph).cell[a] = PageContents(b, ph, PageBase(a))[a % PageSize]
  BY <1>1 DEF LoadSegment
<1> QED BY <1>2, <1>3, <1>4

\* And stays, when the pages of the next segment are others.
LEMMA SegmentStays ==
  ASSUME NEW s, NEW b, NEW ph, Linked(ph), NEW next, Linked(next), Arrived(s, b, ph),
         SegmentPages(ph) \intersect SegmentPages(next) = {}
  PROVE  Arrived(LoadSegment(s, b, next), b, ph)
<1> SUFFICES ASSUME NEW k \in 0..(ph.memsz - 1)
             PROVE  /\ PageOf(ph.vaddr + k) \in LoadSegment(s, b, next).user
                    /\ LoadSegment(s, b, next).cell[ph.vaddr + k] = IF k < ph.filesz THEN b[ph.offset + k + 1] ELSE 0
  BY DEF Arrived
<1> PICK a : a = ph.vaddr + k
  OBVIOUS
<1>1. a \in Addresses /\ PageOf(a) \in SegmentPages(ph)
  BY SegmentLoaded
<1>2. PageOf(a) \notin LoadedPages(next)
  BY <1>1, LoadedInSegment
<1>3. PageOf(a) \in s.user /\ s.cell[a] = IF k < ph.filesz THEN b[ph.offset + k + 1] ELSE 0
  BY DEF Arrived
<1>4. PageOf(a) \in LoadSegment(s, b, next).user
  BY <1>3 DEF LoadSegment
<1>5. LoadSegment(s, b, next).cell[a] = s.cell[a]
  BY <1>1, <1>2 DEF LoadSegment
<1> QED BY <1>3, <1>4, <1>5

----------------------------------------------------------------------------
(* The loop over the headers.                                              *)

\* A load so far.
Progress(l) == l = [ok |-> l.ok, space |-> l.space] /\ l.ok \in BOOLEAN

\* A header is skipped, its segment is loaded, or the load has failed.
Turned(r, l, b, ph) ==
  /\ ~ph.load => r.space = l.space
  /\ ph.load => r.space = LoadSegment(l.space, b, ph) /\ SegmentFits(ph, Len(b))

LEMMA LoadTurn ==
  ASSUME NEW b, NEW l, Progress(l), NEW ph, ph.load \in BOOLEAN, NEW r, r = LoadHeader(b, l, ph)
  PROVE  Progress(r) /\ (r.ok => l.ok /\ Turned(r, l, b, ph))
<1>1. CASE ~l.ok \/ ~ph.load
  <2>1. r = l
    BY <1>1 DEF LoadHeader
  <2> QED BY <1>1, <2>1 DEF Turned
<1>2. CASE l.ok /\ ph.load /\ SegmentFits(ph, Len(b))
  <2> PICK t : t = LoadSegment(l.space, b, ph)
    OBVIOUS
  <2>1. r = [l EXCEPT !.space = t]
    BY <1>2 DEF LoadHeader
  <2>2. r = [ok |-> l.ok, space |-> t]
    BY <2>1 DEF Progress
  <2> QED BY <1>2, <2>2 DEF Progress, Turned
<1>3. CASE l.ok /\ ph.load /\ ~SegmentFits(ph, Len(b))
  <2>1. r = [l EXCEPT !.ok = FALSE]
    BY <1>3 DEF LoadHeader
  <2>2. r = [ok |-> FALSE, space |-> l.space]
    BY <2>1 DEF Progress
  <2> QED BY <2>2 DEF Progress
<1> QED BY <1>1, <1>2, <1>3 DEF Progress

\* The segments the loader gets right.
Proper(phs, i) == Alone(phs, i) /\ phs[i].vaddr % PageSize = 0

\* What the load of the first i headers has made.
LoadedTo(l, b, phs, i) ==
  /\ l.space \in Space
  /\ \A k \in 1..i : Proper(phs, k) => Arrived(l.space, b, phs[k])

\* The next header adds its segment and spoils none before it.
LEMMA LoadNext ==
  ASSUME NEW b \in Seq(Nat), NEW n \in Nat, NEW phs, DOMAIN phs = 1..n, \A k \in 1..n : Linked(phs[k]),
         NEW i \in 0..(n - 1), NEW l, Progress(l), l.ok => LoadedTo(l, b, phs, i),
         NEW r, r = LoadHeader(b, l, phs[i + 1]), r.ok
  PROVE  LoadedTo(r, b, phs, i + 1)
<1>1. PICK j \in 1..n : j = i + 1
  OBVIOUS
<1>2. PICK ph : ph = phs[j]
  OBVIOUS
<1>3. Linked(ph) /\ ph.load \in BOOLEAN
  BY <1>2 DEF Linked
<1>4. /\ l.ok /\ (~ph.load => r.space = l.space)
      /\ ph.load => r.space = LoadSegment(l.space, b, ph) /\ SegmentFits(ph, Len(b))
  <2>1. r = LoadHeader(b, l, ph)
    BY <1>1, <1>2
  <2>2. l.ok /\ Turned(r, l, b, ph)
    BY <1>3, <2>1, LoadTurn
  <2> QED BY <2>2 DEF Turned
<1>5. LoadedTo(l, b, phs, i)
  BY <1>4
<1>6. r.space \in Space
  <2>1. CASE ~ph.load
    BY <1>4, <1>5, <2>1 DEF LoadedTo
  <2>2. CASE ph.load
    <3>1. l.space \in Space
      BY <1>5 DEF LoadedTo
    <3> QED BY <1>3, <1>4, <2>2, <3>1, SegmentTyped
  <2> QED BY <1>3, <2>1, <2>2
<1>7. ASSUME NEW k \in 1..(i + 1), Proper(phs, k) PROVE Arrived(r.space, b, phs[k])
  <2>1. CASE k = j
    <3>1. ph.load /\ ph.vaddr % PageSize = 0
      BY <1>2, <1>7, <2>1 DEF Proper, Alone
    <3>2. Arrived(LoadSegment(l.space, b, ph), b, ph)
      BY <1>3, <3>1, SegmentArrives
    <3> QED BY <1>2, <1>4, <2>1, <3>1, <3>2
  <2>2. CASE k # j
    <3>1. k \in 1..i /\ k \in 1..n
      BY <1>1, <2>2
    <3>2. Arrived(l.space, b, phs[k]) /\ Linked(phs[k])
      BY <1>5, <1>7, <3>1 DEF LoadedTo
    <3>3. CASE ~ph.load
      BY <1>4, <3>2, <3>3
    <3>4. CASE ph.load
      <4>1. SegmentPages(phs[k]) \intersect SegmentPages(ph) = {}
        BY <1>1, <1>2, <1>7, <2>2, <3>4 DEF Proper, Alone
      <4>2. Arrived(LoadSegment(l.space, b, ph), b, phs[k])
        BY <1>3, <3>2, <4>1, SegmentStays
      <4> QED BY <1>4, <3>4, <4>2
    <3> QED BY <1>3, <3>3, <3>4
  <2> QED BY <2>1, <2>2
<1> QED BY <1>6, <1>7 DEF LoadedTo

\* A load that succeeds fills user pages only, and its proper segments are there.
LEMMA LoadSucceeds ==
  ASSUME NEW b \in Seq(Nat), NEW n \in Nat, NEW A, NEW phs \in Seq(A), Len(phs) = n, \A k \in 1..n : Linked(phs[k]),
         NEW l, l = LoadAll(b, [ok |-> TRUE, space |-> EmptySpace], phs), l.ok
  PROVE  LoadedTo(l, b, phs, n)
<1>1. PICK first : first = [ok |-> TRUE, space |-> EmptySpace]
  OBVIOUS
<1>2. PICK h : LoadRun(h, b, first, phs)
  BY LoadSteps
<1>3. h[0] = first /\ (\A i \in 1..n : h[i] = LoadHeader(b, h[i - 1], phs[i])) /\ l = h[n]
  BY <1>1, <1>2, Zenon DEF LoadRun
<1> DEFINE G == {i \in 0..n : Progress(h[i]) /\ (h[i].ok => LoadedTo(h[i], b, phs, i))}
<1>4. 0 \in G
  <2>1. Progress(first) /\ first.space \in Space
    BY <1>1 DEF Progress, EmptySpace, Space
  <2>2. LoadedTo(first, b, phs, 0)
    <3>1. \A k \in 1..0 : FALSE
      OBVIOUS
    <3> QED BY <2>1, <3>1 DEF LoadedTo
  <2> QED BY <1>3, <2>1, <2>2
<1>5. ASSUME NEW i \in 0..(n - 1), i \in G PROVE i + 1 \in G
  <2>1. i + 1 \in 1..n /\ i + 1 \in 0..n /\ (i + 1) - 1 = i
    OBVIOUS
  <2> PICK x, r : x = h[i] /\ r = h[i + 1]
    OBVIOUS
  <2>2. Progress(x) /\ (x.ok => LoadedTo(x, b, phs, i))
    BY <1>5
  <2>3. r = LoadHeader(b, x, phs[i + 1])
    BY <1>3, <2>1
  <2>4. phs[i + 1].load \in BOOLEAN
    BY <2>1 DEF Linked
  <2>5. Progress(r)
    BY <2>2, <2>3, <2>4, LoadTurn
  <2>6. r.ok => LoadedTo(r, b, phs, i + 1)
    <3>1. DOMAIN phs = 1..n
      OBVIOUS
    <3> QED BY <2>2, <2>3, <3>1, LoadNext
  <2> QED BY <2>1, <2>5, <2>6
<1> HIDE DEF G
<1>6. \A i \in 0..n : i \in G
  BY <1>4, <1>5, UpTo
<1>7. n \in G
  BY <1>6
<1> QED BY <1>3, <1>7 DEF G


----------------------------------------------------------------------------
(* Copies and strings in the memory of a process.                           *)

\* A copy to addr changes the bytes there and no others.
StoredAt(t, s, addr, bs) ==
  /\ t.user = s.user
  /\ \A a \in Addresses : ~(a >= addr /\ a < addr + Len(bs)) => t.cell[a] = s.cell[a]
  /\ \A a \in Addresses : a >= addr /\ a < addr + Len(bs) => t.cell[a] = bs[a - addr + 1]

LEMMA Stores ==
  ASSUME NEW s \in Space, NEW addr \in Nat, NEW bs \in Seq(Nat), NEW t, t = Stored(s, addr, bs)
  PROVE  t \in Space /\ StoredAt(t, s, addr, bs)
<1> DEFINE c == [a \in Addresses |-> IF a >= addr /\ a < addr + Len(bs) THEN bs[a - addr + 1] ELSE s.cell[a]]
<1>1. s = [user |-> s.user, cell |-> s.cell] /\ s.user \subseteq UserPages /\ s.cell \in [Addresses -> Nat]
  BY SpaceFields
<1>2. t = [s EXCEPT !.cell = c]
  BY DEF Stored
<1>3. t = [user |-> s.user, cell |-> c]
  <2> HIDE DEF c
  <2> QED BY <1>1, <1>2
<1>4. ASSUME NEW a \in Addresses PROVE c[a] \in Nat
  <2>1. CASE a >= addr /\ a < addr + Len(bs)
    <3>1. a \in Int
      BY Sizes DEF Addresses
    <3>2. a - addr + 1 \in 1..Len(bs)
      BY <2>1, <3>1
    <3>3. c[a] = bs[a - addr + 1]
      BY <2>1
    <3> HIDE DEF c
    <3> QED BY <3>2, <3>3
  <2>2. CASE ~(a >= addr /\ a < addr + Len(bs))
    <3>1. c[a] = s.cell[a]
      BY <2>2
    <3> HIDE DEF c
    <3> QED BY <1>1, <3>1
  <2> QED BY <2>1, <2>2
<1>5. c \in [Addresses -> Nat]
  <2>1. c = [a \in Addresses |-> c[a]]
    OBVIOUS
  <2> HIDE DEF c
  <2> QED BY <1>4, <2>1
<1>6. StoredAt(t, s, addr, bs)
  <2>1. t.user = s.user /\ t.cell = c
    BY <1>3
  <2> QED BY <2>1 DEF StoredAt
<1> HIDE DEF c
<1> QED BY <1>1, <1>3, <1>5, <1>6 DEF Space

\* A string that was found valid is a sequence of bytes, up to its NUL.
LEMMA StringTyped ==
  ASSUME NEW s \in Space, NEW addr \in Nat, paging_user_string_valid(s, addr)
  PROVE  /\ Length(s, addr) \in Nat /\ addr + Length(s, addr) \in Addresses
         /\ StringAt(s, addr) \in Seq(Nat) /\ Len(StringAt(s, addr)) = Length(s, addr)
         /\ \A j \in 1..Length(s, addr) : StringAt(s, addr)[j] = s.cell[addr + j - 1] /\ s.cell[addr + j - 1] # NUL
         /\ s.cell[addr + Length(s, addr)] = NUL
<1>1. PICK z \in 0..(UserEnd - 1) : addr <= z /\ s.cell[z] = NUL
  BY DEF paging_user_string_valid, Scanned
<1>2. PICK e \in Nat : e = AddressEnd /\ UserEnd < e /\ UserEnd \in Nat
  BY Sizes
<1> PICK S : S = {a \in addr..(AddressEnd - 1) : s.cell[a] = NUL}
  OBVIOUS
<1>3. z \in S
  <2>1. z \in addr..(AddressEnd - 1)
    BY <1>1, <1>2
  <2> QED BY <1>1, <2>1
<1>4. S \in SUBSET Nat /\ S # {} /\ \A a \in S : a \in addr..(e - 1) /\ s.cell[a] = NUL
  BY <1>2, <1>3
<1>5. PICK m \in Nat : m = Min(S) /\ m \in S /\ \A x \in S : m <= x
  BY <1>4, Least
<1>6. m \in addr..(e - 1) /\ s.cell[m] = NUL
  BY <1>4, <1>5
<1>7. PICK L \in Nat : L = m - addr
  BY <1>6
<1>8. Length(s, addr) = L
  BY <1>5, <1>7 DEF Length
<1> DEFINE f == [k \in 1..L |-> s.cell[addr + k - 1]]
<1>9. f \in Seq(Nat) /\ Len(f) = L /\ \A j \in 1..L : f[j] = s.cell[addr + j - 1]
  <2>1. \A k \in 1..L : s.cell[addr + k - 1] \in Nat
    <3> TAKE k \in 1..L
    <3>1. addr + k - 1 \in Addresses
      BY <1>2, <1>6, <1>7 DEF Addresses
    <3> QED BY <3>1, SpaceFields
  <2> QED BY <2>1
<1>10. StringAt(s, addr) = SubSeq(f, 1, L)
  BY <1>8 DEF StringAt
<1> HIDE DEF f
<1>11. SubSeq(f, 1, L) \in Seq(Nat) /\ Len(SubSeq(f, 1, L)) = L /\ \A j \in 1..L : SubSeq(f, 1, L)[j] = f[j]
  BY <1>9
<1>12. \A j \in 1..L : s.cell[addr + j - 1] # NUL
  <2> TAKE j \in 1..L
  <2>1. addr + j - 1 \in addr..(AddressEnd - 1) /\ ~(m <= addr + j - 1)
    BY <1>2, <1>6, <1>7
  <2>2. addr + j - 1 \notin S
    BY <1>5, <2>1
  <2> QED BY <2>1, <2>2
<1>13. addr + L = m /\ addr + L \in Addresses
  BY <1>2, <1>6, <1>7 DEF Addresses
<1>14. \A j \in 1..L : StringAt(s, addr)[j] = s.cell[addr + j - 1]
  BY <1>9, <1>10, <1>11
<1> QED BY <1>6, <1>8, <1>10, <1>11, <1>12, <1>13, <1>14

\* What exec_args_copy_from_user has copied are strings, those of the vector.
LEMMA ArgumentsTyped ==
  ASSUME NEW s \in Space, NEW argv \in Addresses, NEW room, NEW args,
         args = exec_args_copy_from_user(s, argv, room).args
  PROVE  /\ args \in Seq(Seq(Nat)) /\ Len(args) = Copies(s, argv, room) /\ Copies(s, argv, room) \in Nat
         /\ \A i \in 0..(Len(args) - 1) :
              /\ PointerAt(s, argv, i) \in Nat /\ PointerAt(s, argv, i) # NULL
              /\ paging_user_string_valid(s, PointerAt(s, argv, i))
              /\ args[i + 1] = StringAt(s, PointerAt(s, argv, i))
<1> PICK S : S = {i \in 0..EXEC_MAX_ARGS : i = EXEC_MAX_ARGS \/ ~Copied(s, argv, i, room)}
  OBVIOUS
<1>1. PICK e \in Nat : e = EXEC_MAX_ARGS
  BY ExecArgsAssumption
<1>2. S \in SUBSET Nat /\ S # {}
  <2>1. e \in S
    BY <1>1
  <2> QED BY <1>1, <2>1
<1>3. PICK n \in Nat : n = Min(S) /\ n \in S /\ \A x \in S : n <= x
  BY <1>2, Least
<1>4. Copies(s, argv, room) = n /\ n <= e
  BY <1>1, <1>3 DEF Copies
<1>5. ASSUME NEW i \in 0..(n - 1) PROVE Copied(s, argv, i, room)
  <2>1. i \notin S
    BY <1>3
  <2>2. i \in 0..EXEC_MAX_ARGS /\ i # EXEC_MAX_ARGS
    BY <1>1, <1>4
  <2> QED BY <2>1, <2>2
<1>6. ASSUME NEW i \in 0..(n - 1)
      PROVE  /\ PointerAt(s, argv, i) \in Nat /\ PointerAt(s, argv, i) # NULL
             /\ paging_user_string_valid(s, PointerAt(s, argv, i))
  <2>1. PointerAddress(argv, i) \in Addresses
    <3>1. i \in Nat /\ argv \in Nat
      BY Sizes DEF Addresses
    <3>2. argv + i * WordSize \in Nat
      BY <3>1, Sizes
    <3> QED BY <3>2, Division, Sizes DEF PointerAddress, Addresses
  <2>2. PointerAt(s, argv, i) \in Nat
    BY <2>1, SpaceFields DEF PointerAt
  <2> QED BY <1>5, <2>2 DEF Copied
<1>7. args = [i \in 1..n |-> StringAt(s, PointerAt(s, argv, i - 1))]
  BY <1>4 DEF exec_args_copy_from_user
<1>8. \A i \in 1..n : StringAt(s, PointerAt(s, argv, i - 1)) \in Seq(Nat)
  <2> TAKE i \in 1..n
  <2>1. i - 1 \in 0..(n - 1)
    OBVIOUS
  <2> QED BY <1>6, <2>1, StringTyped
<1>9. args \in Seq(Seq(Nat)) /\ Len(args) = n
  BY <1>7, <1>8
<1>10. ASSUME NEW i \in 0..(n - 1) PROVE args[i + 1] = StringAt(s, PointerAt(s, argv, i))
  <2>1. i + 1 \in 1..n /\ (i + 1) - 1 = i
    OBVIOUS
  <2> QED BY <1>7, <2>1
<1> QED BY <1>4, <1>6, <1>9, <1>10


----------------------------------------------------------------------------
(* The stack exec_build_user_stack makes.                                   *)

\* The strings one after the other, each with its NUL: the first i take h[i].
StringsLaid(c, args, h) ==
  /\ Len(c) = h[Len(args)]
  /\ \A i \in 0..Len(args) : h[i] \in 0..h[Len(args)] /\ h[i] = StringsSize(args, i)
  /\ \A i \in 1..Len(args) :
       /\ h[i] = h[i - 1] + Len(args[i]) + 1
       /\ \A j \in 1..Len(args[i]) : c[h[i - 1] + j] = args[i][j]
       /\ c[h[i]] = NUL

LEMMA StringsFlat ==
  ASSUME NEW args \in Seq(Seq(Nat)), NEW c, c = FlattenSeq([i \in DOMAIN args |-> args[i] \o << NUL >>])
  PROVE  c \in Seq(Nat) /\ \E h : StringsLaid(c, args, h)
<1>1. PICK n \in Nat : n = Len(args) /\ DOMAIN args = 1..n
  OBVIOUS
<1>2. \A i \in 1..n : args[i] \in Seq(Nat) /\ Len(args[i]) \in Nat
  BY <1>1
<1>3. PICK h : /\ h[0] = 0
               /\ \A i \in 1..Len(args) : h[i] = h[i - 1] + Len(args[i]) + 1
               /\ \A k \in 0..Len(args) : h[k] \in Nat /\ StringsSize(args, k) = h[k]
  BY <1>1, <1>2, StringsSums
<1>4. /\ h[0] = 0
      /\ \A i \in 1..n : h[i] = h[i - 1] + Len(args[i]) + 1
      /\ \A k \in 0..n : h[k] \in Nat /\ StringsSize(args, k) = h[k]
  BY <1>1, <1>3, Zenon
<1> DEFINE ss == [i \in 1..n |-> args[i] \o << NUL >>]
<1>5. ASSUME NEW i \in 1..n
      PROVE  /\ ss[i] \in Seq(Nat) /\ Len(ss[i]) = Len(args[i]) + 1
             /\ \A j \in 1..Len(args[i]) : ss[i][j] = args[i][j]
             /\ ss[i][Len(args[i]) + 1] = NUL
  <2> PICK a, z, r : a = args[i] /\ z = << NUL >> /\ r = a \o z
    OBVIOUS
  <2>1. a \in Seq(Nat) /\ z \in Seq(Nat) /\ Len(z) = 1 /\ z[1] = NUL
    BY <1>2 DEF NUL
  <2>2. r \in Seq(Nat) /\ Joined(r, a, z)
    BY <2>1, Concatenated
  <2>3. PICK m \in Nat : m = Len(a)
    BY <2>1
  <2>4. Len(r) = m + 1 /\ \A j \in 1..(m + 1) : r[j] = IF j <= m THEN a[j] ELSE z[j - m]
    BY <2>1, <2>2, <2>3 DEF Joined
  <2>5. \A j \in 1..m : r[j] = a[j]
    BY <2>4
  <2>6. r[m + 1] = NUL
    <3>1. m + 1 \in 1..(m + 1) /\ ~(m + 1 <= m) /\ (m + 1) - m = 1
      OBVIOUS
    <3> QED BY <2>1, <2>4, <3>1
  <2>7. ss[i] = r
    OBVIOUS
  <2> HIDE DEF ss
  <2> QED BY <2>2, <2>3, <2>4, <2>5, <2>6, <2>7
<1>6. ss \in Seq(Seq(Nat)) /\ Len(ss) = n
  <2>1. \A i \in 1..n : args[i] \o << NUL >> \in Seq(Nat)
    <3> TAKE i \in 1..n
    <3>1. ss[i] = args[i] \o << NUL >>
      OBVIOUS
    <3>2. ss[i] \in Seq(Nat)
      BY <1>5
    <3> HIDE DEF ss
    <3> QED BY <3>1, <3>2, Zenon
  <2> QED BY <2>1
<1>7. c = FlattenSeq(ss)
  BY <1>1
<1> HIDE DEF ss
<1>8. c \in Seq(Nat) /\ FlatParts(c, n, ss, h)
  <2>1. \A i \in 1..n : h[i] = h[i - 1] + Len(ss[i])
    <3> TAKE i \in 1..n
    <3>1. i - 1 \in 0..n
      OBVIOUS
    <3>2. h[i - 1] \in Nat /\ Len(args[i]) \in Nat /\ Len(ss[i]) = Len(args[i]) + 1
      BY <1>2, <1>4, <1>5, <3>1
    <3> QED BY <1>4, <3>2
  <2>2. h[0] = 0
    BY <1>4
  <2>3. FlattenSeq(ss) \in Seq(Nat) /\ FlatParts(FlattenSeq(ss), n, ss, h)
    BY <1>6, <2>1, <2>2, Flattened
  <2> QED BY <1>7, <2>3
<1>9. /\ Len(c) = h[n]
      /\ \A i \in 1..n : \A j \in 1..Len(ss[i]) : c[h[i - 1] + j] = ss[i][j]
      /\ \A i \in 0..n : h[i] \in 0..h[n]
  BY <1>8, Zenon DEF FlatParts
<1>10. ASSUME NEW i \in 1..n
       PROVE  (\A j \in 1..Len(args[i]) : c[h[i - 1] + j] = args[i][j]) /\ c[h[i]] = NUL
  <2>1. PICK m \in Nat : m = Len(args[i])
    BY <1>2
  <2>2. \A j \in 1..(m + 1) : c[h[i - 1] + j] = ss[i][j]
    BY <1>5, <1>9, <2>1
  <2>3. \A j \in 1..m : c[h[i - 1] + j] = args[i][j]
    <3> TAKE j \in 1..m
    <3>1. j \in 1..(m + 1)
      OBVIOUS
    <3>2. ss[i][j] = args[i][j]
      BY <1>5, <2>1
    <3> QED BY <2>2, <3>1, <3>2, Zenon
  <2>4. c[h[i - 1] + (m + 1)] = NUL
    <3>1. m + 1 \in 1..(m + 1)
      OBVIOUS
    <3> QED BY <1>5, <2>1, <2>2, <3>1
  <2>5. h[i - 1] + (m + 1) = h[i]
    <3>1. i - 1 \in 0..n
      OBVIOUS
    <3>2. h[i - 1] \in Nat
      BY <1>4, <3>1
    <3> QED BY <1>4, <2>1, <3>2
  <2> QED BY <2>1, <2>3, <2>4, <2>5
<1>11. StringsLaid(c, args, h)
  BY <1>1, <1>4, <1>9, <1>10 DEF StringsLaid
<1> QED BY <1>8, <1>11

\* The vector of n pointers and a NULL: pointer i is at i words from its start.
LEMMA ArgvFlat ==
  ASSUME NEW args \in Seq(Seq(Nat)), NEW n \in Nat, n = Len(args), NEW low, NEW X \in Nat, X = StackStrings(args, low),
         \A i \in 0..n : StringsSize(args, i) \in Nat
  PROVE  /\ ArgvBytes(args, low) \in Seq(Nat)
         /\ Len(ArgvBytes(args, low)) = WordSize * (n + 1)
         /\ \A i \in 0..n : ArgvBytes(args, low)[WordSize * i + 1] = IF i = n THEN NULL ELSE X + StringsSize(args, i)
<1>1. PICK w \in Nat \ {0} : w = WordSize
  BY Sizes
<1>2. PICK N \in Nat : N = n + 1
  OBVIOUS
<1> DEFINE v(i) == IF i > n THEN NULL ELSE X + StringsSize(args, i - 1)
           ss == [i \in 1..N |-> WordBytes(v(i))]
           o == [i \in 0..N |-> w * i]
<1>3. ASSUME NEW i \in 1..N PROVE v(i) \in Nat
  <2>1. CASE i > n
    BY <2>1 DEF NULL
  <2>2. CASE ~(i > n)
    <3>1. i - 1 \in 0..n
      BY <1>2, <2>2
    <3>2. PICK x \in Nat : x = StringsSize(args, i - 1)
      BY <3>1
    <3>3. v(i) = X + x
      BY <2>2, <3>2
    <3> QED BY <3>3
  <2> QED BY <2>1, <2>2
<1> HIDE DEF v
<1>4. ASSUME NEW i \in 1..N PROVE WordBytes(v(i)) \in Seq(Nat) /\ Len(WordBytes(v(i))) = w /\ WordBytes(v(i))[1] = v(i)
  <2> PICK x \in Nat : x = v(i)
    BY <1>3
  <2>1. WordBytes(x) = [k \in 1..w |-> IF k = 1 THEN x ELSE 0]
    BY <1>1 DEF WordBytes
  <2>2. WordBytes(x) \in Seq(Nat) /\ Len(WordBytes(x)) = w /\ WordBytes(x)[1] = x
    BY <2>1
  <2> QED BY <2>2
<1>5. ss \in Seq(Seq(Nat)) /\ Len(ss) = N /\ \A i \in 1..N : ss[i] = WordBytes(v(i))
  BY <1>4
<1>6. ArgvBytes(args, low) = FlattenSeq(ss)
  BY <1>2 DEF ArgvBytes, v
<1>7. o[0] = 0 /\ \A i \in 1..N : o[i] = o[i - 1] + Len(ss[i])
  <2>1. o[0] = 0
    OBVIOUS
  <2>2. ASSUME NEW i \in 1..N PROVE o[i] = o[i - 1] + Len(ss[i])
    <3>1. o[i] = w * i /\ o[i - 1] = w * (i - 1)
      OBVIOUS
    <3>2. w * i = w * (i - 1) + w
      OBVIOUS
    <3> HIDE DEF o, ss
    <3> QED BY <1>4, <1>5, <3>1, <3>2
  <2> QED BY <2>1, <2>2
<1>8. \A i \in 0..N : o[i] = w * i
  OBVIOUS
<1> HIDE DEF ss, o
<1>9. FlattenSeq(ss) \in Seq(Nat) /\ FlatParts(FlattenSeq(ss), N, ss, o)
  BY <1>5, <1>7, Flattened
<1> PICK c : c = FlattenSeq(ss)
  OBVIOUS
<1>10. /\ c \in Seq(Nat) /\ Len(c) = o[N]
       /\ \A i \in 1..N : \A j \in 1..Len(ss[i]) : c[o[i - 1] + j] = ss[i][j]
  BY <1>9 DEF FlatParts
<1>11. ASSUME NEW i \in 0..n PROVE c[w * i + 1] = IF i = n THEN NULL ELSE X + StringsSize(args, i)
  <2>1. PICK k \in 1..N : k = i + 1
    BY <1>2
  <2>2. 1 \in 1..Len(ss[k]) /\ ss[k][1] = v(k)
    BY <1>4, <1>5
  <2>3. o[k - 1] = w * i
    BY <1>2, <1>8, <2>1
  <2>4. c[o[k - 1] + 1] = v(k)
    BY <1>10, <2>2
  <2>5. v(k) = IF i = n THEN NULL ELSE X + StringsSize(args, i)
    <3>1. k - 1 = i /\ (k > n <=> i = n)
      BY <2>1
    <3> QED BY <3>1 DEF v
  <2> QED BY <2>3, <2>4, <2>5
<1>12. Len(c) = w * N
  BY <1>8, <1>10
<1> QED BY <1>1, <1>2, <1>6, <1>10, <1>11, <1>12


\* Rounding down.
LEMMA Aligned ==
  ASSUME NEW y \in Nat
  PROVE  AlignDown(y) \in Nat /\ AlignDown(y) <= y /\ y < AlignDown(y) + StackAlign /\ AlignDown(y) % StackAlign = 0
<1>1. PICK d \in Nat \ {0} : d = StackAlign
  BY ExecArgsAssumption
<1>2. PICK q \in Nat : q = y \div d
  BY Division
<1>3. PICK r \in 0..(d - 1) : r = y % d
  BY Division
<1>4. y = d * q + r
  BY <1>2, <1>3, Division
<1>5. PICK z \in Nat : z = d * q /\ z = q * d
  BY Multiples
<1>6. AlignDown(y) = z
  BY <1>1, <1>2, <1>5 DEF AlignDown
<1>7. z % d = 0
  <2>1. PICK e \in Nat : e = z \div d
    BY Division
  <2>2. PICK t \in 0..(d - 1) : t = z % d
    BY Division
  <2>3. z = d * e + t
    BY <2>1, <2>2, Division
  <2>4. (e < q => d * e + d <= d * q) /\ (q < e => d * q + d <= d * e) /\ d * e \in Nat /\ d * q \in Nat
    BY Multiples
  <2>5. e = q
    BY <1>5, <2>3, <2>4
  <2>6. t = 0
    BY <1>5, <2>3, <2>4, <2>5
  <2> QED BY <2>2, <2>6
<1> QED BY <1>1, <1>3, <1>4, <1>5, <1>6, <1>7

\* What exec_build_user_stack leaves in memory t where there was s: at X the
\* strings, below them at A the vector, below that at E the count, all in one
\* page and nothing elsewhere.
StackLaid(t, s, args, page, h, X, A, E) ==
  /\ t \in Space /\ t.user = s.user
  /\ \A a \in Addresses : PageOf(a) # page => t.cell[a] = s.cell[a]
  /\ {X, A, E} \subseteq Nat
  /\ PageSize * page <= E /\ E + WordSize <= A /\ E = AlignDown(A - WordSize)
  /\ A + WordSize * (Len(args) + 1) = X /\ X + h[Len(args)] = PageSize * page + PageSize
  /\ \A i \in 0..Len(args) : h[i] \in 0..h[Len(args)]
  /\ h[Len(args)] = StringsSize(args, Len(args))
  /\ \A i \in 1..Len(args) :
       /\ h[i] = h[i - 1] + Len(args[i]) + 1
       /\ \A j \in 1..Len(args[i]) : t.cell[X + h[i - 1] + j - 1] = args[i][j]
       /\ t.cell[X + h[i] - 1] = NUL
  /\ \A i \in 0..Len(args) : t.cell[A + WordSize * i] = IF i = Len(args) THEN NULL ELSE X + h[i]
  /\ t.cell[E] = Len(args)

LEMMA StackBuilt ==
  ASSUME NEW s \in Space, NEW args \in Seq(Seq(Nat)), NEW page \in UserPages,
         NEW st, st = exec_build_user_stack(s, args, page * PageSize), st.ok
  PROVE  \E h, X, A : StackLaid(st.space, s, args, page, h, X, A, st.esp)
<1>1. PICK d \in Nat \ {0} : d = PageSize
  BY Sizes
<1>2. PICK w \in Nat \ {0} : w = WordSize
  BY Sizes
<1>3. PICK n \in Nat : n = Len(args)
  OBVIOUS
<1>4. page \in Nat /\ page < PageOf(UserEnd) /\ PageOf(UserEnd) \in Nat
  BY UserHalf DEF UserPages
<1>5. PICK low \in Nat : low = page * PageSize /\ low = d * page /\ low + d <= UserEnd /\ low + d < AddressEnd
  <2>1. d * page \in Nat /\ d * page = page * d /\ d * page + d <= d * PageOf(UserEnd)
    BY <1>4, Multiples
  <2> QED BY <1>1, <2>1, UserHalf, Sizes
<1> PICK c : c = FlattenSeq([i \in DOMAIN args |-> args[i] \o << NUL >>])
  OBVIOUS
<1>6. c \in Seq(Nat) /\ \E h : StringsLaid(c, args, h)
  BY StringsFlat
<1>7. PICK h : StringsLaid(c, args, h)
  BY <1>6
<1>8. /\ Len(c) = h[n]
      /\ \A i \in 0..n : h[i] \in 0..h[n] /\ h[i] = StringsSize(args, i)
      /\ \A i \in 1..n : /\ h[i] = h[i - 1] + Len(args[i]) + 1
                         /\ \A j \in 1..Len(args[i]) : c[h[i - 1] + j] = args[i][j]
                         /\ c[h[i]] = NUL
  BY <1>3, <1>7, Zenon DEF StringsLaid
<1>9. PICK T \in Nat : T = h[n] /\ T = Len(c) /\ T = StringsSize(args, n)
  <2>1. n \in 0..n /\ Len(c) \in Nat
    BY <1>6
  <2> QED BY <1>8, <2>1
<1>10. PICK V \in Nat : V = w * (n + 1) /\ V = (n + 1) * w
  <2>1. n + 1 \in Nat
    OBVIOUS
  <2> QED BY <2>1, Multiples
<1> DEFINE s1 == Stored(s, StackStrings(args, low), c)
           s2 == Stored(s1, StackArgv(args, low), ArgvBytes(args, low))
           s3 == Stored(s2, StackEsp(args, low), WordBytes(Len(args)))
<1>11. /\ w + V + T <= d /\ ~(StackEsp(args, low) < low)
       /\ st.space = s3 /\ st.esp = StackEsp(args, low)
  <2> DEFINE bad == WordSize + (Len(args) + 1) * WordSize + StringsSize(args, Len(args)) > PageSize
                    \/ StackEsp(args, low) < low
  <2>1. st = IF bad THEN [ok |-> FALSE, space |-> s, esp |-> 0] ELSE [ok |-> TRUE, space |-> s3, esp |-> StackEsp(args, low)]
    BY <1>5 DEF exec_build_user_stack
  <2> HIDE DEF s3
  <2>2. ~bad
    <3> HIDE DEF bad
    <3> QED BY <2>1
  <2>3. st.space = s3 /\ st.esp = StackEsp(args, low)
    <3> HIDE DEF bad
    <3> QED BY <2>1, <2>2
  <2>4. ~(w + V + T > d) /\ ~(StackEsp(args, low) < low)
    BY <1>1, <1>2, <1>3, <1>9, <1>10, <2>2
  <2>5. w + V + T <= d
    BY <2>4
  <2> QED BY <2>3, <2>4, <2>5
<1>12. PICK X \in Nat : X = StackStrings(args, low) /\ X + T = low + d
  <2>1. low + d - T \in Nat /\ (low + d - T) + T = low + d
    BY <1>11
  <2>2. StackStrings(args, low) = low + d - T
    BY <1>1, <1>3, <1>9, Zenon DEF StackStrings
  <2> QED BY <2>1, <2>2, Zenon
<1>13. PICK A \in Nat : A = StackArgv(args, low) /\ A + V = X /\ A - w \in Nat /\ A - w >= low
  <2>1. X - V \in Nat /\ X - V - w \in Nat /\ X - V - w >= low
    BY <1>11, <1>12
  <2> QED BY <1>2, <1>3, <1>10, <1>12, <2>1 DEF StackArgv
<1>14. PICK E \in Nat : E = StackEsp(args, low) /\ E = AlignDown(A - w) /\ E <= A - w /\ low <= E
  <2>1. AlignDown(A - w) \in Nat /\ AlignDown(A - w) <= A - w
    BY <1>13, Aligned
  <2>2. StackEsp(args, low) = AlignDown(A - w)
    BY <1>2, <1>13 DEF StackEsp
  <2> QED BY <1>11, <2>1, <2>2
<1>15. PICK g : g = ArgvBytes(args, low) /\ g \in Seq(Nat) /\ Len(g) = V
               /\ \A i \in 0..n : g[w * i + 1] = IF i = n THEN NULL ELSE X + h[i]
  <2>1. \A i \in 0..n : StringsSize(args, i) \in Nat
    <3> TAKE i \in 0..n
    <3>1. h[i] \in 0..T /\ h[i] = StringsSize(args, i)
      BY <1>8, <1>9, Zenon
    <3>2. 0..T \subseteq Nat
      OBVIOUS
    <3> QED BY <3>1, <3>2, Zenon
  <2>2. /\ ArgvBytes(args, low) \in Seq(Nat)
        /\ Len(ArgvBytes(args, low)) = WordSize * (n + 1)
        /\ \A i \in 0..n : ArgvBytes(args, low)[WordSize * i + 1] = IF i = n THEN NULL ELSE X + StringsSize(args, i)
    BY <1>3, <1>12, <2>1, ArgvFlat
  <2>3. \A i \in 0..n : StringsSize(args, i) = h[i]
    BY <1>8, Zenon
  <2>4. /\ Len(ArgvBytes(args, low)) = V
        /\ \A i \in 0..n : ArgvBytes(args, low)[w * i + 1] = IF i = n THEN NULL ELSE X + h[i]
    BY <1>2, <1>10, <2>2, <2>3, Zenon
  <2> QED BY <2>2, <2>4, Zenon
<1>16. PICK k : k = WordBytes(Len(args)) /\ k \in Seq(Nat) /\ Len(k) = w /\ k[1] = n
  <2>1. WordBytes(Len(args)) = [j \in 1..w |-> IF j = 1 THEN n ELSE 0]
    BY <1>2, <1>3 DEF WordBytes
  <2> QED BY <2>1
<1>17. PICK t1, t2, t3 : t1 = Stored(s, X, c) /\ t2 = Stored(t1, A, g) /\ t3 = Stored(t2, E, k) /\ t3 = st.space
  <2> PICK t1 : t1 = Stored(s, X, c)
    OBVIOUS
  <2>1. s1 = t1
    BY <1>12, Zenon
  <2> PICK t2 : t2 = Stored(t1, A, g)
    OBVIOUS
  <2> HIDE DEF s1
  <2>2. s2 = t2
    BY <1>13, <1>15, <2>1, Zenon
  <2> PICK t3 : t3 = Stored(t2, E, k)
    OBVIOUS
  <2> HIDE DEF s2
  <2>3. s3 = t3
    BY <1>14, <1>16, <2>2, Zenon
  <2> HIDE DEF s3
  <2>4. st.space = t3
    BY <1>11, <2>3, Zenon
  <2> QED BY <2>4, Zenon
<1> HIDE DEF s1, s2, s3
<1>18. t1 \in Space /\ StoredAt(t1, s, X, c)
  BY <1>6, <1>17, Stores
<1>19. t2 \in Space /\ StoredAt(t2, t1, A, g)
  BY <1>15, <1>17, <1>18, Stores
<1>20. t3 \in Space /\ StoredAt(t3, t2, E, k)
  BY <1>16, <1>17, <1>19, Stores
<1>21. t3.user = s.user
  BY <1>18, <1>19, <1>20 DEF StoredAt
<1>22. ASSUME NEW a \in Addresses
       PROVE  /\ a >= E /\ a < E + w => t3.cell[a] = k[a - E + 1]
              /\ a >= A /\ a < X => t3.cell[a] = g[a - A + 1]
              /\ a >= X /\ a < X + T => t3.cell[a] = c[a - X + 1]
              /\ ~(a >= E /\ a < X + T) => t3.cell[a] = s.cell[a]
  <2>1. a \in Nat
    BY Sizes DEF Addresses
  <2>2. /\ ~(a >= E /\ a < E + w) => t3.cell[a] = t2.cell[a]
        /\ a >= E /\ a < E + w => t3.cell[a] = k[a - E + 1]
    BY <1>16, <1>20 DEF StoredAt
  <2>3. /\ ~(a >= A /\ a < X) => t2.cell[a] = t1.cell[a]
        /\ a >= A /\ a < X => t2.cell[a] = g[a - A + 1]
    BY <1>13, <1>15, <1>19 DEF StoredAt
  <2>4. /\ ~(a >= X /\ a < X + T) => t1.cell[a] = s.cell[a]
        /\ a >= X /\ a < X + T => t1.cell[a] = c[a - X + 1]
    BY <1>9, <1>18 DEF StoredAt
  <2>5. E + w <= A /\ A <= X
    BY <1>13, <1>14
  <2>6. a >= A => ~(a >= E /\ a < E + w)
    BY <2>1, <2>5
  <2>7. a >= X => ~(a >= A /\ a < X) /\ a >= A
    BY <2>1, <2>5
  <2>8. ~(a >= E /\ a < X + T) => /\ ~(a >= E /\ a < E + w) /\ ~(a >= A /\ a < X) /\ ~(a >= X /\ a < X + T)
    BY <2>1, <2>5
  <2> QED BY <2>2, <2>3, <2>4, <2>6, <2>7, <2>8
<1>23. \A a \in Addresses : PageOf(a) # page => t3.cell[a] = s.cell[a]
  <2> SUFFICES ASSUME NEW a \in Addresses, a >= E /\ a < X + T PROVE PageOf(a) = page
    BY <1>22
  <2>1. a \in Nat
    BY Sizes DEF Addresses
  <2>2. PageSize * page <= a /\ a < PageSize * page + PageSize
    BY <1>1, <1>5, <1>12, <1>14, <2>1
  <2> QED BY <1>4, <2>1, <2>2, PageUnique
<1>24. \A a \in Nat : a < low + d => a \in Addresses
  BY <1>5, Sizes DEF Addresses
<1>25. ASSUME NEW i \in 1..n
       PROVE  /\ \A j \in 1..Len(args[i]) : t3.cell[X + h[i - 1] + j - 1] = args[i][j]
              /\ t3.cell[X + h[i] - 1] = NUL
  <2>1. PICK m \in Nat : m = Len(args[i])
    BY <1>3
  <2>2. i - 1 \in 0..n /\ i \in 0..n
    OBVIOUS
  <2>3. PICK p \in Nat : p = h[i - 1] /\ h[i] = p + m + 1 /\ p + m + 1 <= T
    <3>1. h[i - 1] \in 0..T /\ h[i] \in 0..T /\ h[i] = h[i - 1] + m + 1
      BY <1>8, <1>9, <2>1, <2>2, Zenon
    <3>2. PICK p \in 0..T, q \in 0..T : p = h[i - 1] /\ q = h[i]
      BY <3>1, Zenon
    <3>3. q = p + m + 1
      BY <3>1, <3>2, Zenon
    <3>4. p \in Nat /\ p + m + 1 <= T
      BY <3>3
    <3> QED BY <3>2, <3>3, <3>4, Zenon
  <2>4. ASSUME NEW j \in 1..m PROVE t3.cell[X + p + j - 1] = args[i][j]
    <3>0. p + m + 1 <= T
      BY <2>3
    <3>1. PICK a \in Nat : a = X + p + j - 1 /\ a >= X /\ a < X + T /\ a - X + 1 = p + j
      <4>1. X + p + j - 1 \in Nat /\ X + p + j - 1 >= X /\ X + p + j - 1 < X + T /\ (X + p + j - 1) - X + 1 = p + j
        BY <3>0
      <4> QED BY <4>1, Zenon
    <3>2. a \in Addresses
      BY <1>12, <1>24, <3>1
    <3>3. t3.cell[a] = c[p + j]
      BY <1>22, <3>1, <3>2
    <3>4. c[p + j] = args[i][j]
      BY <1>8, <2>1, <2>3
    <3> QED BY <3>1, <3>3, <3>4
  <2>5. t3.cell[X + h[i] - 1] = NUL
    <3>0. PICK q \in Nat : q = h[i] /\ q = p + m + 1 /\ q <= T
      BY <2>3
    <3>4. X + q - 1 \in Nat /\ X + q - 1 >= X /\ X + q - 1 < X + T /\ (X + q - 1) - X + 1 = q
      <4>1. p + m + 1 <= T
        BY <2>3
      <4> QED BY <3>0, <4>1
    <3>1. PICK a \in Nat : a = X + h[i] - 1 /\ a >= X /\ a < X + T /\ a - X + 1 = h[i]
      BY <3>0, <3>4, Zenon
    <3>2. a \in Addresses
      BY <1>12, <1>24, <3>1
    <3>3. t3.cell[a] = c[h[i]]
      BY <1>22, <3>1, <3>2
    <3> QED BY <1>8, <3>1, <3>3
  <2> QED BY <2>1, <2>3, <2>4, <2>5
<1>26. ASSUME NEW i \in 0..n PROVE t3.cell[A + w * i] = IF i = n THEN NULL ELSE X + h[i]
  <2>1. PICK p \in Nat : p = w * i /\ p < V
    <3>1. w * i \in Nat /\ (i < n + 1 => w * i + w <= w * (n + 1))
      BY Multiples
    <3> QED BY <1>10, <3>1
  <2>5. A + V = X /\ p < V
    BY <1>13, <2>1
  <2>6. A + p \in Nat /\ A + p >= A /\ A + p < X /\ (A + p) - A + 1 = p + 1
    BY <2>5
  <2>2. PICK a \in Nat : a = A + p /\ a >= A /\ a < X /\ a - A + 1 = p + 1
    BY <2>6, Zenon
  <2>3. a \in Addresses
    BY <1>12, <1>24, <2>2
  <2>4. t3.cell[a] = g[p + 1]
    BY <1>22, <2>2, <2>3
  <2> QED BY <1>15, <2>1, <2>2, <2>4
<1>27. t3.cell[E] = n
  <2>1. E \in Addresses
    BY <1>12, <1>13, <1>14, <1>24
  <2>2. E >= E /\ E < E + w /\ E - E + 1 = 1
    OBVIOUS
  <2>3. t3.cell[E] = k[1]
    BY <1>22, <2>1, <2>2
  <2> QED BY <1>16, <2>3
<1>28. E + w <= A /\ {X, A, E} \subseteq Nat /\ A + w * (n + 1) = X /\ X + h[n] = d * page + d
  <2>1. E + w <= A
    BY <1>13, <1>14
  <2>2. A + w * (n + 1) = X
    BY <1>10, <1>13, Zenon
  <2>3. X + h[n] = d * page + d
    BY <1>5, <1>9, <1>12, Zenon
  <2> QED BY <2>1, <2>2, <2>3
<1>29. StackLaid(t3, s, args, page, h, X, A, E)
  <2>1. /\ t3 \in Space /\ t3.user = s.user
        /\ \A a \in Addresses : PageOf(a) # page => t3.cell[a] = s.cell[a]
    BY <1>20, <1>21, <1>23, Zenon
  <2>2. /\ {X, A, E} \subseteq Nat
        /\ PageSize * page <= E /\ E + WordSize <= A /\ E = AlignDown(A - WordSize)
        /\ A + WordSize * (Len(args) + 1) = X /\ X + h[Len(args)] = PageSize * page + PageSize
    BY <1>1, <1>2, <1>3, <1>5, <1>14, <1>28, Zenon
  <2>3. \A i \in 0..Len(args) : h[i] \in 0..h[Len(args)]
    BY <1>3, <1>8, Zenon
  <2>7. h[Len(args)] = StringsSize(args, Len(args))
    BY <1>3, <1>9, Zenon
  <2>4. \A i \in 1..Len(args) :
          /\ h[i] = h[i - 1] + Len(args[i]) + 1
          /\ \A j \in 1..Len(args[i]) : t3.cell[X + h[i - 1] + j - 1] = args[i][j]
          /\ t3.cell[X + h[i] - 1] = NUL
    BY <1>3, <1>8, <1>25, Zenon
  <2>5. \A i \in 0..Len(args) : t3.cell[A + WordSize * i] = IF i = Len(args) THEN NULL ELSE X + h[i]
    BY <1>2, <1>3, <1>26, Zenon
  <2>6. t3.cell[E] = Len(args)
    BY <1>3, <1>27
  <2> QED BY <2>1, <2>2, <2>3, <2>4, <2>5, <2>6, <2>7, Zenon DEF StackLaid
<1> QED BY <1>11, <1>14, <1>17, <1>29


----------------------------------------------------------------------------
(* Starting a program.                                                     *)

\* What is loaded as entry i is what was packed as entry i.
LEMMA ProgramIs ==
  ASSUME ImageKept, NEW i \in 0..Len(inputs), Program(i) # << >>
  PROVE  i \in 1..Len(inputs) /\ Program(i) = inputs[i].bytes /\ inputs[i].bytes \in Seq(Nat)
<1>1. i # 0 /\ fs_file_data(image, i) # 0
  BY DEF Program
<1>2. i \in 1..Len(inputs)
  BY <1>1
<1>3. inputs[i].bytes \in Seq(Nat) /\ Len(inputs[i].bytes) \in Nat
  BY <1>2, PackingFacts DEF ImageKept
<1>4. PICK b \in Seq(Nat) : b = inputs[i].bytes
  BY <1>3
<1>5. PICK n \in Nat : n = Len(b)
  OBVIOUS
<1>6. PICK d : d = fs_file_data(image, i) /\ fs_file_size(image, i) = n /\ \A j \in 1..n : ByteAt(image, d + j - 1) = b[j]
  BY <1>1, <1>2, <1>4, <1>5, FileBytes
<1>7. Program(i) = [j \in 1..n |-> ByteAt(image, d + j - 1)]
  BY <1>1, <1>6 DEF Program, BytesAt
<1>8. b = [j \in 1..n |-> b[j]]
  BY <1>5
<1>9. Program(i) = b
  BY <1>6, <1>7, <1>8
<1> QED BY <1>2, <1>4, <1>9

\* Its segments are loaded.
LEMMA ElfLoads ==
  ASSUME inputs \in Packings, NEW i \in 1..Len(inputs), NEW b, b = inputs[i].bytes,
         NEW l, l = elf_load(b), l.ok
  PROVE  \E n \in Nat : DOMAIN Headers(b) = 1..n /\ (\A k \in 1..n : Linked(Headers(b)[k])) /\ LoadedTo(l, b, Headers(b), n)
<1>1. b \in Seq(Nat) /\ i \in DOMAIN inputs
  BY PackingFacts
<1>2. elf_validate(b)
  <2>1. CASE ~elf_validate(b)
    <3>1. l = [ok |-> FALSE, space |-> EmptySpace]
      BY <2>1 DEF elf_load
    <3> QED BY <3>1
  <2> QED BY <2>1
<1>3. l = LoadAll(b, [ok |-> TRUE, space |-> EmptySpace], Headers(b))
  BY <1>2, Zenon DEF elf_load, LoadAll
<1>4. PICK n \in Nat : n = ElfHeaders[b[1]].phnum
  BY <1>2, ElfAssumption DEF elf_validate
<1> PICK phs : phs = Headers(b)
  OBVIOUS
<1>5. phs = [k \in 1..n |-> phs[k]]
  BY <1>4 DEF Headers
<1>6. \A k \in 1..n : Linked(phs[k])
  <2> TAKE k \in 1..n
  <2>1. k \in DOMAIN Headers(inputs[i].bytes) /\ Headers(inputs[i].bytes)[k] = phs[k]
    BY <1>5
  <2>2. /\ phs[k].load \in BOOLEAN
        /\ {phs[k].offset, phs[k].vaddr, phs[k].filesz, phs[k].memsz} \subseteq Nat
        /\ phs[k].vaddr + phs[k].memsz <= UserEnd
    BY <1>1, <1>2, <2>1, ProgramsAssumption
  <2> QED BY <2>2 DEF Linked
<1> PICK A : A = {phs[k] : k \in 1..n}
  OBVIOUS
<1>7. phs \in Seq(A) /\ Len(phs) = n /\ DOMAIN phs = 1..n
  <2>1. \A k \in 1..n : phs[k] \in A
    OBVIOUS
  <2>2. phs \in [1..n -> A]
    BY <1>5, <2>1
  <2> QED BY <2>2
<1>8. LoadedTo(l, b, phs, n)
  BY <1>1, <1>3, <1>6, <1>7, LoadSucceeds
<1> QED BY <1>6, <1>7, <1>8

\* The stack page leaves the others alone.
LEMMA StackAdded ==
  ASSUME NEW s \in Space, NEW stack \in StackPages, NEW junk \in Junk, NEW t, t = WithStack(s, stack, junk)
  PROVE  /\ t \in Space /\ s.user \subseteq t.user /\ stack \in UserPages
         /\ \A a \in Addresses : PageOf(a) # stack => t.cell[a] = s.cell[a]
<1>1. stack \in UserPages /\ junk \in Nat
  BY CallsAssumption DEF UserPages
<1> DEFINE c == [a \in Addresses |-> IF PageOf(a) = stack THEN junk ELSE s.cell[a]]
<1>2. t = [user |-> s.user \union {stack}, cell |-> c]
  BY DEF WithStack
<1>3. c \in [Addresses -> Nat]
  BY <1>1, SpaceFields
<1>4. \A a \in Addresses : PageOf(a) # stack => c[a] = s.cell[a]
  OBVIOUS
<1>5. s.user \subseteq UserPages
  BY SpaceFields
<1> HIDE DEF c
<1>6. t.user = s.user \union {stack} /\ t.cell = c
  BY <1>2
<1> QED BY <1>1, <1>2, <1>3, <1>4, <1>5, <1>6 DEF Space

\* A started program: its file is loaded, its arguments are in the stack page.
Loaded(l, i, stack) ==
  /\ i \in 1..Len(inputs) /\ stack \notin l.space.user /\ l.space \in Space
  /\ \E n \in Nat : LET b == inputs[i].bytes IN
       DOMAIN Headers(b) = 1..n /\ (\A k \in 1..n : Linked(Headers(b)[k])) /\ LoadedTo(l, b, Headers(b), n)

LEMMA LoadedProgram ==
  ASSUME ImageKept, NEW i \in 0..Len(inputs), Program(i) # << >>, NEW l, l = elf_load(Program(i)), l.ok,
         NEW stack, stack \notin l.space.user
  PROVE  Loaded(l, i, stack)
<1>1. i \in 1..Len(inputs) /\ Program(i) = inputs[i].bytes
  BY ProgramIs
<1> PICK b : b = inputs[i].bytes
  OBVIOUS
<1>2. \E n \in Nat : DOMAIN Headers(b) = 1..n /\ (\A k \in 1..n : Linked(Headers(b)[k])) /\ LoadedTo(l, b, Headers(b), n)
  BY <1>1, ElfLoads DEF ImageKept
<1>3. l.space \in Space
  BY <1>2 DEF LoadedTo
<1> QED BY <1>1, <1>2, <1>3, Zenon DEF Loaded

\* What exec leaves behind when it succeeds.
LEMMA ExecStarts ==
  ASSUME ImageKept, space \in Space, NEW path \in Paths, NEW argv \in Argvs, NEW room \in Rooms,
         NEW stack \in StackPages, NEW junk \in Junk, sys_exec(path, argv, room, stack, junk), started' # << >>,
         NEW args, args = exec_args_copy_from_user(space, argv, room).args
  PROVE  /\ started' = << argv >> /\ exec_args_copy_from_user(space, argv, room).ok
         /\ args \in Seq(Seq(Nat))
         /\ \E l : /\ Loaded(l, running', stack)
                   /\ \E h, X, A : StackLaid(space', WithStack(l.space, stack, junk), args, stack, h, X, A, esp')
<1> DEFINE c == exec_args_copy_from_user(space, argv, room)
           i == fs_find(image, StringAt(space, path))
           l == elf_load(Program(i))
           st == exec_build_user_stack(WithStack(l.space, stack, junk), c.args, stack * PageSize)
           copied == paging_user_string_valid(space, path) /\ c.ok
           ok == copied /\ Program(i) # << >> /\ room > Len(c.args) /\ l.ok /\ stack \notin l.space.user /\ st.ok
<1>1. IF ok THEN space' = st.space /\ running' = i /\ esp' = st.esp /\ started' = << argv >>
            ELSE UNCHANGED << space, running, esp >> /\ started' = << >>
  BY DEF sys_exec
<1>2. ok /\ space' = st.space /\ running' = i /\ esp' = st.esp /\ started' = << argv >>
  <2> HIDE DEF ok, st, i
  <2> QED BY <1>1
<1>3. i \in 0..Len(inputs)
  BY ImageFields, FoundInTable
<1> PICK ii, ll : ii = i /\ ll = l
  OBVIOUS
<1>4. ll = elf_load(Program(ii)) /\ Program(ii) # << >> /\ ll.ok /\ stack \notin ll.space.user /\ ii \in 0..Len(inputs)
  BY <1>2, <1>3
<1>5. Loaded(ll, ii, stack) /\ ll.space \in Space
  <2>1. Loaded(ll, ii, stack)
    BY <1>4, LoadedProgram
  <2> QED BY <2>1 DEF Loaded
<1>6. argv \in Addresses
  BY CallsAssumption
<1>7. args \in Seq(Seq(Nat)) /\ args = c.args
  BY <1>6, ArgumentsTyped
<1>8. PICK t : t = WithStack(ll.space, stack, junk) /\ t \in Space /\ stack \in UserPages
  BY <1>5, StackAdded
<1>9. PICK sst : sst = exec_build_user_stack(t, args, stack * PageSize) /\ sst = st
  BY <1>7, <1>8
<1>10. sst.ok /\ space' = sst.space /\ esp' = sst.esp
  <2> HIDE DEF st, i, l
  <2> QED BY <1>2, <1>9
<1> HIDE DEF st, i, l, c
<1>11. \E h, X, A : StackLaid(sst.space, t, args, stack, h, X, A, sst.esp)
  BY <1>7, <1>8, <1>9, <1>10, StackBuilt
<1>12. \E h, X, A : StackLaid(space', WithStack(ll.space, stack, junk), args, stack, h, X, A, esp')
  BY <1>8, <1>10, <1>11, Zenon
<1>13. Loaded(ll, running', stack)
  BY <1>2, <1>5
<1> QED BY <1>2, <1>7, <1>12, <1>13 DEF c

\* init_process_start, when it does not halt.
LEMMA InitStarts ==
  ASSUME ImageKept, NEW stack \in StackPages, NEW junk \in Junk, init_process_start(stack, junk), ~halted'
  PROVE  \E l : /\ Loaded(l, running', stack) /\ space' = WithStack(l.space, stack, junk)
                /\ esp' = (stack + 1) * PageSize
<1> DEFINE i == fs_find(image, InitName)
           b == Program(i)
           ok == fs_mount(image) /\ b # << >> /\ elf_load(b).ok /\ stack \notin elf_load(b).space.user
<1>1. /\ halted' = ~ok
      /\ ok => space' = WithStack(elf_load(b).space, stack, junk) /\ running' = i /\ esp' = (stack + 1) * PageSize
  BY DEF init_process_start
<1>2. ok
  <2> HIDE DEF ok
  <2> QED BY <1>1
<1>3. i \in 0..Len(inputs)
  BY ImageFields, FoundInTable
<1> PICK ii, l : ii = i /\ l = elf_load(b)
  OBVIOUS
<1>4. l = elf_load(Program(ii)) /\ Program(ii) # << >> /\ l.ok /\ stack \notin l.space.user /\ ii \in 0..Len(inputs)
  BY <1>2, <1>3
<1>5. Loaded(l, ii, stack)
  BY <1>4, LoadedProgram
<1>6. space' = WithStack(l.space, stack, junk) /\ running' = ii /\ esp' = (stack + 1) * PageSize
  BY <1>1, <1>2
<1> HIDE DEF i, b
<1> QED BY <1>5, <1>6


----------------------------------------------------------------------------
(* Memory.                                                                 *)

LEMMA ElementOf == ASSUME NEW f \in Seq(Nat), NEW n, n = Len(f), NEW q \in 1..n PROVE f[q] \in Nat
  OBVIOUS

LEMMA SequenceOf == ASSUME NEW k \in Nat, NEW g \in [1..k -> Nat] PROVE g \in Seq(Nat) /\ Len(g) = k
  OBVIOUS

LEMMA Below ==
  ASSUME NEW e \in Nat, NEW v \in Nat, NEW a \in Nat, NEW m \in Nat, NEW x \in Nat, NEW y \in Nat, NEW u \in Nat,
         e + v <= a, a + m = x, x + y <= u
  PROVE  0 <= e /\ e <= u
  OBVIOUS

\* What a process's memory and registers are like.  That the program an exec has
\* started is all there is said of the state right after it, and before the
\* first program there is none.
MemoryInv ==
  /\ ImageKept /\ space \in Space
  /\ running \in 0..Len(inputs) /\ esp \in 0..UserEnd
  /\ started \in {<< >>} \union {<< a >> : a \in Argvs}
  /\ running = 0 => started = << >>
  /\ running # 0 => fs_mount(image)
  /\ strayed \in BOOLEAN /\ halted \in BOOLEAN
  /\ ProgramLoaded

\* Neither the stack page nor the arguments spoil a segment.
LEMMA StartedIsLoaded ==
  ASSUME NEW l, NEW i, NEW stack \in StackPages, NEW junk \in Junk, Loaded(l, i, stack), NEW t \in Space,
         (WithStack(l.space, stack, junk)).user \subseteq t.user,
         \A a \in Addresses : PageOf(a) # stack => t.cell[a] = (WithStack(l.space, stack, junk)).cell[a],
         NEW b, b = inputs[i].bytes, NEW k \in DOMAIN Headers(b), Proper(Headers(b), k)
  PROVE  Arrived(t, b, Headers(b)[k])
<1> PICK ph : ph = Headers(b)[k]
  OBVIOUS
<1>1. Linked(ph) /\ Arrived(l.space, b, ph) /\ l.space \in Space /\ stack \notin l.space.user
  BY DEF Loaded, LoadedTo
<1> SUFFICES ASSUME NEW j \in 0..(ph.memsz - 1)
             PROVE  /\ PageOf(ph.vaddr + j) \in t.user
                    /\ t.cell[ph.vaddr + j] = IF j < ph.filesz THEN b[ph.offset + j + 1] ELSE 0
  BY DEF Arrived
<1> PICK a : a = ph.vaddr + j
  OBVIOUS
<1>2. a \in Addresses
  BY <1>1, SegmentLoaded
<1>3. PageOf(a) \in l.space.user /\ l.space.cell[a] = IF j < ph.filesz THEN b[ph.offset + j + 1] ELSE 0
  BY <1>1 DEF Arrived
<1>4. PageOf(a) # stack
  BY <1>1, <1>3
<1> PICK w : w = WithStack(l.space, stack, junk)
  OBVIOUS
<1>5. l.space.user \subseteq w.user /\ w.cell[a] = l.space.cell[a]
  BY <1>1, <1>2, <1>4, StackAdded
<1>6. t.cell[a] = w.cell[a] /\ w.user \subseteq t.user
  BY <1>2, <1>4
<1> QED BY <1>3, <1>5, <1>6

\* The addresses a stack pointer can have.
LEMMA StackTop ==
  ASSUME NEW stack \in StackPages
  PROVE  /\ stack \in Nat /\ PageSize * stack \in Nat /\ (stack + 1) * PageSize = PageSize * stack + PageSize
         /\ PageSize * stack + PageSize <= UserEnd
<1>1. PICK d \in Nat \ {0} : d = PageSize
  BY Sizes
<1>2. PICK u \in Nat : u = PageOf(UserEnd) /\ UserEnd = d * u
  BY <1>1, UserHalf
<1>3. stack \in Nat /\ stack < u
  BY <1>2, CallsAssumption
<1>4. d * stack \in Nat /\ d * stack + d <= d * u
  BY <1>3, Multiples
<1>5. (stack + 1) * d = d * stack + d
  BY <1>3
<1> QED BY <1>1, <1>2, <1>3, <1>4, <1>5

\* An exec that succeeds starts a program that is all there.
LEMMA ExecMemory ==
  ASSUME MemoryInv, NEW path \in Paths, NEW argv \in Argvs, NEW room \in Rooms,
         NEW stack \in StackPages, NEW junk \in Junk, sys_exec(path, argv, room, stack, junk)
  PROVE  MemoryInv'
<1>1. inputs' = inputs /\ image' = image /\ halted' = halted /\ running # 0 /\ ImageKept /\ space \in Space /\ fs_mount(image)
  BY DEF sys_exec, Calling, MemoryInv
<1>2. ImageKept'
  BY <1>1 DEF ImageKept
<1>3. strayed' \in BOOLEAN /\ halted' \in BOOLEAN
  BY <1>1 DEF sys_exec, Accesses, MemoryInv
<1>4. CASE started' # << >>
  <2> PICK args : args = exec_args_copy_from_user(space, argv, room).args
    OBVIOUS
  <2>1. /\ started' = << argv >>
        /\ \E l : /\ Loaded(l, running', stack)
                  /\ \E h, X, A : StackLaid(space', WithStack(l.space, stack, junk), args, stack, h, X, A, esp')
    BY <1>1, <1>4, ExecStarts
  <2>2. PICK l : /\ Loaded(l, running', stack)
                 /\ \E h, X, A : StackLaid(space', WithStack(l.space, stack, junk), args, stack, h, X, A, esp')
    BY <2>1
  <2>3. PICK h, X, A : StackLaid(space', WithStack(l.space, stack, junk), args, stack, h, X, A, esp')
    BY <2>2
  <2> PICK w, t, e, i : w = WithStack(l.space, stack, junk) /\ t = space' /\ e = esp' /\ i = running'
    OBVIOUS
  <2>4. StackLaid(t, w, args, stack, h, X, A, e)
    BY <2>3
  <2>5. t \in Space /\ t.user = w.user /\ \A a \in Addresses : PageOf(a) # stack => t.cell[a] = w.cell[a]
    BY <2>4 DEF StackLaid
  <2>6. e \in 0..UserEnd
    <3>1. /\ X \in Nat /\ A \in Nat /\ e \in Nat /\ e + WordSize <= A /\ A + WordSize * (Len(args) + 1) = X
          /\ X + h[Len(args)] = PageSize * stack + PageSize
          /\ \A j \in 0..Len(args) : h[j] \in 0..h[Len(args)]
      BY <2>4 DEF StackLaid
    <3>2. args \in Seq(Seq(Nat))
      BY <1>1, <1>4, ExecStarts
    <3>3. PICK n \in Nat : n = Len(args)
      BY <3>2
    <3>4. PICK m \in Nat : m = WordSize * (n + 1)
      <4>1. n + 1 \in Nat
        OBVIOUS
      <4> QED BY <4>1, Sizes, Multiples
    <3>5. h[n] \in Nat
      <4>1. n \in 0..n
        OBVIOUS
      <4>2. h[n] \in 0..h[n]
        BY <3>1, <3>3, <4>1
      <4>3. h[n] \in Int /\ 0 <= h[n]
        <5>1. X + h[n] = PageSize * stack + PageSize
          BY <3>1, <3>3
        <5> QED BY <4>2
      <4> QED BY <4>3
    <3>6. PICK y \in Nat : y = h[n] /\ X + y <= UserEnd
      BY <3>1, <3>3, <3>5, StackTop
    <3>7. A + m = X /\ e + WordSize <= A /\ WordSize \in Nat /\ UserEnd \in Nat
      BY <3>1, <3>3, <3>4, Sizes
    <3>8. PICK v \in Nat : v = WordSize /\ e + v <= A /\ e \in Nat
      BY <3>1, <3>7
    <3>9. A + m = X /\ X + y <= UserEnd /\ UserEnd \in Nat
      BY <3>6, <3>7
    <3>10. X \in Nat /\ A \in Nat
      BY <3>1
    <3>11. 0 <= e /\ e <= UserEnd
      BY <3>8, <3>9, <3>10, Below
    <3> QED BY <3>8, <3>9, <3>11
  <2>7. i \in 1..Len(inputs)
    BY <2>2 DEF Loaded
  <2>8. ASSUME NEW b, b = inputs[i].bytes, NEW k \in DOMAIN Headers(b), Proper(Headers(b), k)
        PROVE  Arrived(t, b, Headers(b)[k])
    <3>1. Loaded(l, i, stack)
      BY <2>2
    <3>2. /\ (WithStack(l.space, stack, junk)).user \subseteq t.user
          /\ \A a \in Addresses : PageOf(a) # stack => t.cell[a] = (WithStack(l.space, stack, junk)).cell[a]
      BY <2>5
    <3> QED BY <2>5, <2>8, <3>1, <3>2, StartedIsLoaded
  <2>9. ProgramLoaded'
    <3> PICK b : b = inputs[i].bytes
      OBVIOUS
    <3>1. \A k \in DOMAIN Headers(b) : Proper(Headers(b), k) => Arrived(t, b, Headers(b)[k])
      BY <2>8
    <3>2. inputs'[running'].bytes = b /\ space' = t
      BY <1>1
    <3> QED BY <3>1, <3>2, Zenon DEF ProgramLoaded, Proper
  <2>10. running' \in 0..Len(inputs') /\ running' # 0
    BY <1>1, <2>7
  <2>11. esp' \in 0..UserEnd /\ space' \in Space
    BY <2>5, <2>6
  <2>12. started' \in {<< >>} \union {<< a >> : a \in Argvs}
    BY <2>1
  <2>13. fs_mount(image')
    BY <1>1
  <2> QED BY <1>2, <1>3, <2>9, <2>10, <2>11, <2>12, <2>13 DEF MemoryInv
<1>5. CASE started' = << >>
  <2>1. << argv >> # << >>
    OBVIOUS
  <2>2. space' = space /\ running' = running /\ esp' = esp
    BY <1>5, <2>1 DEF sys_exec
  <2>3. ProgramLoaded'
    BY <1>5 DEF ProgramLoaded
  <2> QED BY <1>1, <1>2, <1>3, <1>5, <2>2, <2>3 DEF MemoryInv
<1> QED BY <1>4, <1>5

\* So does the start of the first program.
LEMMA InitMemory ==
  ASSUME MemoryInv, NEW stack \in StackPages, NEW junk \in Junk, init_process_start(stack, junk)
  PROVE  MemoryInv'
<1>1. /\ inputs' = inputs /\ image' = image /\ strayed' = strayed /\ started' = started
      /\ running = 0 /\ ImageKept /\ started = << >> /\ strayed \in BOOLEAN
  BY DEF init_process_start, MemoryInv
<1>2. ImageKept' /\ ProgramLoaded' /\ halted' \in BOOLEAN
  BY <1>1 DEF ImageKept, ProgramLoaded, init_process_start
<1>3. CASE halted'
  <2>1. UNCHANGED << space, running, esp >>
    BY <1>3 DEF init_process_start
  <2> QED BY <1>1, <1>2, <2>1 DEF MemoryInv
<1>4. CASE ~halted'
  <2>1. PICK l : /\ Loaded(l, running', stack) /\ space' = WithStack(l.space, stack, junk)
                 /\ esp' = (stack + 1) * PageSize
    BY <1>1, <1>4, InitStarts
  <2>2. running' \in 1..Len(inputs) /\ l.space \in Space
    BY <2>1 DEF Loaded
  <2>3. space' \in Space
    BY <2>1, <2>2, StackAdded
  <2>4. esp' \in 0..UserEnd
    BY <2>1, StackTop, Sizes
  <2>5. fs_mount(image)
    BY <1>4 DEF init_process_start
  <2>6. running' \in 0..Len(inputs') /\ started' = << >> /\ fs_mount(image')
    BY <1>1, <2>2, <2>5
  <2> QED BY <1>1, <1>2, <2>3, <2>4, <2>6 DEF MemoryInv
<1> QED BY <1>3, <1>4

\* The k bytes that follow the first p of f.
Taken(bytes, f, p, k) ==
  /\ k \in Nat /\ bytes \in Seq(Nat) /\ Len(bytes) = k
  /\ \A j \in 1..k : p + j \in 1..Len(f) /\ bytes[j] = f[p + j]

\* What a read delivers are the packed bytes from the descriptor's position on.
LEMMA ReadBytes ==
  ASSUME ImageKept, DescriptorsSound, NEW fd \in Fds, files[fd].used, NEW count \in Nat,
         NEW k, k = ReadCount(fd, count), k = 0 \/ fs_file_data(image, files[fd].entry) # 0,
         NEW f, f = inputs[files[fd].entry].bytes,
         NEW bytes, bytes = BytesAt(image, fs_file_data(image, files[fd].entry) + files[fd].position, k)
  PROVE  Taken(bytes, f, files[fd].position, k)
<1>1. TableKept
  BY ImageFields
<1>2. files[fd].entry \in 1..Len(inputs) /\ files[fd].position \in Nat
  BY DEF DescriptorsSound, FileType
<1>3. PICK e \in 1..Len(inputs), p \in Nat : e = files[fd].entry /\ p = files[fd].position
  BY <1>2
<1>4. k \in Nat /\ p + k <= fs_file_size(image, e)
  BY <1>1, <1>3, ReadCountBounds
<1>5. f \in Seq(Nat) /\ Len(f) \in Nat
  BY <1>3, PackingFacts DEF ImageKept
<1>6. bytes = [j \in 1..k |-> ByteAt(image, fs_file_data(image, e) + p + j - 1)]
  BY <1>3 DEF BytesAt
<1>7. CASE k = 0
  <2>1. \A j \in 1..k : FALSE
    BY <1>7
  <2>3. bytes = [j \in 1..k |-> 0]
    BY <1>6, <2>1
  <2>2. bytes \in Seq(Nat) /\ Len(bytes) = k
    BY <1>4, <2>3
  <2> QED BY <1>4, <2>1, <2>2 DEF Taken
<1>8. CASE k # 0
  <2>1. fs_file_data(image, e) # 0
    BY <1>3, <1>8
  <2>2. PICK d \in Nat : /\ d = fs_file_data(image, e) /\ fs_file_size(image, e) = Len(f)
                         /\ \A j \in 1..Len(f) : ByteAt(image, d + j - 1) = f[j]
    BY <1>3, <2>1, FileBytes
  <2>3. PICK n \in Nat : n = Len(f) /\ p + k <= n
    BY <1>4, <1>5, <2>2
  <2>4. ASSUME NEW j \in 1..k PROVE p + j \in 1..n /\ ByteAt(image, d + p + j - 1) = f[p + j]
    <3>1. PICK q \in 1..n : q = p + j /\ d + p + j - 1 = d + q - 1
      BY <1>4, <2>3
    <3> QED BY <2>2, <2>3, <3>1
  <2>5. bytes = [j \in 1..k |-> f[p + j]]
    BY <1>6, <2>2, <2>4
  <2>6. \A j \in 1..k : f[p + j] \in Nat
    <3> TAKE j \in 1..k
    <3>1. p + j \in 1..n
      BY <2>4
    <3>2. PICK q \in 1..n : q = p + j
      BY <3>1
    <3>3. f[q] \in Nat
      BY <1>5, <2>3, ElementOf
    <3> QED BY <3>2, <3>3
  <2>7. bytes \in Seq(Nat) /\ Len(bytes) = k
    <3> PICK g : g = [j \in 1..k |-> f[p + j]]
      OBVIOUS
    <3>1. g \in [1..k -> Nat]
      BY <2>6
    <3>2. g \in Seq(Nat) /\ Len(g) = k
      BY <1>4, <3>1, SequenceOf
    <3> QED BY <2>5, <3>2
  <2> QED BY <1>3, <1>4, <2>3, <2>4, <2>5, <2>7 DEF Taken
<1> QED BY <1>7, <1>8

\* A read stores them.
LEMMA ReadMemory ==
  ASSUME MemoryInv, CallsInv, NEW fd \in FdArgs, NEW buffer \in Buffers, NEW count \in Counts, sys_read(fd, buffer, count)
  PROVE  MemoryInv'
<1> DEFINE valid == buffer # NULL /\ paging_user_range_valid(space, buffer, count)
           ok == valid /\ Readable(fd)
           k == ReadCount(fd, count)
           data == fs_file_data(image, files[fd].entry)
           bytes == BytesAt(image, data + files[fd].position, k)
           fault == ok /\ k > 0 /\ data = 0
<1>1. /\ inputs' = inputs /\ image' = image /\ running' = running /\ esp' = esp /\ started' = << >>
      /\ running # 0 /\ ImageKept /\ space \in Space /\ fs_mount(image)
  BY DEF sys_read, Calling, MemoryInv
<1>2. ImageKept' /\ ProgramLoaded'
  BY <1>1 DEF ImageKept, ProgramLoaded
<1>3. strayed' \in BOOLEAN /\ halted' \in BOOLEAN
  BY DEF sys_read, Accesses, MemoryInv
<1>4. space' \in Space
  <2>1. CASE ok /\ ~fault
    <3>1. space' = Stored(space, buffer, bytes)
      BY <2>1 DEF sys_read
    <3>2. buffer \in Nat /\ count \in Nat
      BY CallsAssumption, Sizes DEF Addresses
    <3>3. fd \in Fds /\ files[fd].used /\ DescriptorsSound /\ TableKept
      BY <2>1 DEF Readable, process_get_file, CallsInv
    <3>4. k \in Nat
      BY <3>2, <3>3, ReadCountBounds
    <3> PICK f, kk, bb : f = inputs[files[fd].entry].bytes /\ kk = k /\ bb = bytes
      OBVIOUS
    <3>5. kk = 0 \/ fs_file_data(image, files[fd].entry) # 0
      <4> HIDE DEF ok, k
      <4> QED BY <2>1, <3>4
    <3>6. kk = ReadCount(fd, count) /\ bb = BytesAt(image, fs_file_data(image, files[fd].entry) + files[fd].position, kk)
      OBVIOUS
    <3>7. bb \in Seq(Nat)
      <4>1. Taken(bb, f, files[fd].position, kk)
        BY <1>1, <3>2, <3>3, <3>5, <3>6, ReadBytes
      <4> QED BY <4>1 DEF Taken
    <3> HIDE DEF bytes
    <3> QED BY <1>1, <3>1, <3>2, <3>7, Stores
  <2>2. CASE ~(ok /\ ~fault)
    <3>1. space' = space
      BY <2>2 DEF sys_read
    <3> QED BY <1>1, <3>1
  <2> QED BY <2>1, <2>2
<1>5. running' \in 0..Len(inputs') /\ esp' \in 0..UserEnd /\ fs_mount(image')
  BY <1>1 DEF MemoryInv
<1> QED BY <1>1, <1>2, <1>3, <1>4, <1>5 DEF MemoryInv

\* The other calls do not touch memory.
LEMMA QuietMemory ==
  ASSUME MemoryInv, UNCHANGED << inputs, image, space, running, esp, halted >>, started' = << >> \/ started' = started,
         strayed' \in BOOLEAN
  PROVE  MemoryInv'
<1>1. ImageKept'
  BY DEF MemoryInv, ImageKept
<1>2. ProgramLoaded'
  BY DEF MemoryInv, ProgramLoaded
<1>3. fs_mount(image') = fs_mount(image)
  OBVIOUS
<1> QED BY <1>1, <1>2, <1>3 DEF MemoryInv

LEMMA MemoryInit == CallsInit => MemoryInv
<1> SUFFICES ASSUME CallsInit PROVE MemoryInv
  OBVIOUS
<1>1. /\ inputs \in Packings /\ space = EmptySpace /\ running = 0 /\ esp = 0 /\ started = << >>
      /\ strayed = FALSE /\ halted = FALSE
  BY DEF CallsInit
<1>2. PICK n \in Missing : n <= mkfs(inputs).size /\ image = Truncated(mkfs(inputs), mkfs(inputs).size - n)
  BY DEF CallsInit
<1>3. Len(inputs) \in Nat
  BY <1>1, PackingFacts
<1>4. PICK z \in Nat : z = mkfs(inputs).size
  <2>1. PICK p \in Packings : p = inputs
    BY <1>1
  <2>2. PICK h : Layout(p, h)
    BY LaidOut
  <2>3. DataOffset(p) \in Nat /\ mkfs(p).size = DataOffset(p) + h[Len(p)] /\ \A k \in 0..Len(p) : h[k] \in Nat
    BY <2>2 DEF Layout
  <2>4. Len(p) \in 0..Len(p)
    BY <1>3, <2>1
  <2> QED BY <2>1, <2>3, <2>4
<1>5. n \in Nat
  BY CallsAssumption
<1>6. image.size = z - n
  BY <1>2, <1>4 DEF Truncated, mkfs
<1>7. image.size \in 0..z
  BY <1>2, <1>4, <1>5, <1>6
<1>8. ImageKept
  BY <1>1, <1>2, <1>4, <1>6, <1>7 DEF ImageKept
<1>9. space \in Space
  BY <1>1 DEF EmptySpace, Space
<1>10. ProgramLoaded
  BY <1>1 DEF ProgramLoaded
<1>11. running \in 0..Len(inputs) /\ esp \in 0..UserEnd
  BY <1>1, <1>3, Sizes
<1> QED BY <1>1, <1>8, <1>9, <1>10, <1>11 DEF MemoryInv

LEMMA MemoryNext == CallsInv /\ MemoryInv /\ [CallsNext]_vars => MemoryInv'
<1> SUFFICES ASSUME CallsInv, MemoryInv, [CallsNext]_vars PROVE MemoryInv'
  OBVIOUS
<1>1. CASE UNCHANGED vars
  <2>1. strayed' \in BOOLEAN
    BY <1>1 DEF vars, MemoryInv
  <2> QED BY <1>1, <2>1, QuietMemory DEF vars
<1>2. ASSUME NEW path \in Paths, NEW access \in AccessArgs, sys_open(path, access) PROVE MemoryInv'
  <2>1. strayed' \in BOOLEAN
    BY <1>2 DEF sys_open, Accesses, MemoryInv
  <2>2. UNCHANGED << inputs, image, space, running, esp, halted >> /\ started' = << >>
    BY <1>2 DEF sys_open
  <2> QED BY <2>1, <2>2, QuietMemory
<1>3. ASSUME NEW fd \in FdArgs, sys_close(fd) PROVE MemoryInv'
  <2>1. strayed' \in BOOLEAN
    BY <1>3 DEF sys_close, MemoryInv
  <2>2. UNCHANGED << inputs, image, space, running, esp, halted >> /\ started' = << >>
    BY <1>3 DEF sys_close
  <2> QED BY <2>1, <2>2, QuietMemory
<1>4. ASSUME NEW fd \in FdArgs, NEW buf \in Buffers, NEW len \in Counts, sys_write(fd, buf, len) PROVE MemoryInv'
  <2>1. strayed' \in BOOLEAN
    BY <1>4 DEF sys_write, Accesses, MemoryInv
  <2>2. UNCHANGED << inputs, image, space, running, esp, halted >> /\ started' = << >>
    BY <1>4 DEF sys_write
  <2> QED BY <2>1, <2>2, QuietMemory
<1>5. CASE CallsNext
  BY <1>2, <1>3, <1>4, <1>5, ExecMemory, InitMemory, ReadMemory DEF CallsNext
<1> QED BY <1>1, <1>5

\* Everything has its type after any sequence of calls: in particular a program
\* is only ever given pages of the user half, its memory keeps its shape through
\* every load, copy and read, and the stack pointer it is started with is in the
\* user half.
THEOREM CallsTypeCorrect == CallsSpec => []CallsTypeOK
<1>1. CallsInv /\ MemoryInv => CallsTypeOK
  BY DEF CallsInv, MemoryInv, DescriptorsSound, FileType, CallsTypeOK, ImageKept, Space, UserPages
<1> QED BY <1>1, CallsInvInit, CallsInvNext, MemoryInit, MemoryNext, PTL DEF CallsSpec

\* When exec has started a program, whatever files mkfs packed and whatever the
\* program headers ask for, the segments that start on a page boundary and share
\* no page with another are in memory as they are in the packed file, followed
\* by zeroes; neither the stack nor the arguments have touched them.
THEOREM ProgramLoadedCorrect == CallsSpec => []ProgramLoaded
<1>1. MemoryInv => ProgramLoaded
  BY DEF MemoryInv
<1> QED BY <1>1, CallsInvInit, CallsInvNext, MemoryInit, MemoryNext, PTL DEF CallsSpec

----------------------------------------------------------------------------
(* The arguments of a program.                                             *)

\* A string is found where its bytes are and a NUL follows them.
HasString(t, addr, a, m) ==
  /\ addr + m < AddressEnd /\ t.cell[addr + m] = NUL
  /\ \A j \in 1..m : t.cell[addr + j - 1] = a[j] /\ a[j] # NUL

LEMMA StringIs ==
  ASSUME NEW t, NEW addr \in Nat, NEW a \in Seq(Nat), NEW m \in Nat, m = Len(a), HasString(t, addr, a, m)
  PROVE  Length(t, addr) = m /\ StringAt(t, addr) = a
<1>0. /\ addr + m < AddressEnd /\ t.cell[addr + m] = NUL
      /\ \A j \in 1..m : t.cell[addr + j - 1] = a[j] /\ a[j] # NUL
  BY Zenon DEF HasString
<1>1. PICK e \in Nat : e = AddressEnd
  BY Sizes
<1> PICK S : S = {x \in addr..(AddressEnd - 1) : t.cell[x] = NUL}
  OBVIOUS
<1>2. addr + m \in S
  <2>1. addr + m \in addr..(AddressEnd - 1)
    BY <1>0, <1>1
  <2> QED BY <1>0, <2>1
<1>3. \A x \in S : x \in Nat /\ addr + m <= x
  <2> TAKE x \in S
  <2>1. x \in Nat /\ addr <= x /\ t.cell[x] = NUL
    <3>1. x \in addr..(e - 1) /\ t.cell[x] = NUL
      BY <1>1
    <3> QED BY <3>1
  <2>2. CASE x < addr + m
    <3>3. PICK y \in Nat : y = x
      BY <2>1
    <3>4. addr <= y /\ y < addr + m
      BY <2>1, <2>2, <3>3
    <3>5. y - addr + 1 \in 1..m /\ addr + (y - addr + 1) - 1 = y
      BY <3>4
    <3>1. PICK j \in 1..m : addr + j - 1 = x
      BY <3>3, <3>5, Zenon
    <3>2. t.cell[addr + j - 1] = a[j] /\ a[j] # NUL
      BY <1>0
    <3> QED BY <2>1, <3>1, <3>2
  <2> QED BY <2>1, <2>2
<1>4. S \in SUBSET Nat /\ S # {}
  BY <1>2, <1>3
<1>5. Min(S) \in S /\ \A x \in S : Min(S) <= x
  BY <1>4, Least
<1>6. Min(S) = addr + m
  <2>1. PICK y \in Nat : y = Min(S) /\ y <= addr + m /\ addr + m <= y
    BY <1>2, <1>3, <1>5
  <2>2. y = addr + m
    BY <2>1
  <2> QED BY <2>1, <2>2
<1>7. Length(t, addr) = m
  BY <1>6 DEF Length
<1> PICK g : g = [k \in 1..m |-> t.cell[addr + k - 1]]
  OBVIOUS
<1>8. g = a
  <2>1. a = [k \in 1..m |-> a[k]]
    OBVIOUS
  <2> QED BY <1>0, <2>1
<1>9. StringAt(t, addr) = SubSeq(g, 1, m)
  BY <1>7 DEF StringAt
<1>10. SubSeq(a, 1, m) = a
  OBVIOUS
<1> QED BY <1>7, <1>8, <1>9, <1>10

LEMMA Unwrapped == ASSUME NEW z \in Nat, NEW e \in Nat \ {0}, z < e PROVE z % e = z
  OBVIOUS

\* What a program finds on its stack.
Delivered(t, args, page, A, E) ==
  LET n == Len(args)
      New(i) == PointerAt(t, A, i) IN
  /\ t.cell[E] = n /\ E % StackAlign = 0 /\ PageBase(E) = PageSize * page
  /\ E = AlignDown(A - WordSize)
  /\ A = PageSize * page + PageSize - StringsSize(args, n) - (n + 1) * WordSize
  /\ New(n) = NULL
  /\ \A i \in 0..(n - 1) :
       /\ New(i) >= A + (n + 1) * WordSize
       /\ New(i) + Length(t, New(i)) < PageSize * page + PageSize
       /\ StringAt(t, New(i)) = args[i + 1]

LEMMA StackDelivers ==
  ASSUME NEW t, NEW s, NEW args \in Seq(Seq(Nat)), NEW page \in StackPages, NEW h, NEW X, NEW A, NEW E,
         StackLaid(t, s, args, page, h, X, A, E),
         \A i \in 1..Len(args) : \A j \in 1..Len(args[i]) : args[i][j] # NUL
  PROVE  Delivered(t, args, page, A, E)
<1>1. PICK n \in Nat : n = Len(args)
  OBVIOUS
<1>2. PICK w \in Nat \ {0} : w = WordSize
  BY Sizes
<1>3. PICK low \in Nat, d \in Nat \ {0} : low = PageSize * page /\ d = PageSize /\ low + d < AddressEnd
  BY StackTop, Sizes
<1>4. /\ X \in Nat /\ A \in Nat /\ E \in Nat
      /\ low <= E /\ E + w <= A /\ E = AlignDown(A - w)
      /\ A + w * (n + 1) = X /\ X + h[n] = low + d
      /\ \A i \in 0..n : h[i] \in 0..h[n]
      /\ \A i \in 1..n : /\ h[i] = h[i - 1] + Len(args[i]) + 1
                         /\ \A j \in 1..Len(args[i]) : t.cell[X + h[i - 1] + j - 1] = args[i][j]
                         /\ t.cell[X + h[i] - 1] = NUL
      /\ \A i \in 0..n : t.cell[A + w * i] = IF i = n THEN NULL ELSE X + h[i]
      /\ t.cell[E] = n
  BY <1>1, <1>2, <1>3, Zenon DEF StackLaid
<1>5. PICK V \in Nat : V = w * (n + 1) /\ V = (n + 1) * w
  <2>1. n + 1 \in Nat
    OBVIOUS
  <2> QED BY <2>1, Multiples
<1>6. PICK T \in Nat : T = h[n]
  <2>1. n \in 0..n
    OBVIOUS
  <2>2. h[n] \in 0..h[n]
    BY <1>4, <2>1
  <2>3. h[n] \in Nat
    BY <2>2
  <2> QED BY <2>3
<1>7. /\ A + V = X /\ X + T = low + d /\ low <= E /\ E + w <= A
      /\ X \in Nat /\ A \in Nat /\ E \in Nat
  BY <1>4, <1>5, <1>6
<1>8. E % StackAlign = 0
  <2>1. PICK y \in Nat : y = A - w /\ E <= y
    BY <1>7
  <2>2. PICK z \in Nat \ {0} : z = StackAlign
    BY ExecArgsAssumption
  <2> QED BY <1>4, <2>1, <2>2, Aligned
<1>13. /\ E = AlignDown(A - WordSize)
       /\ A = PageSize * page + PageSize - StringsSize(args, n) - (n + 1) * WordSize
  <2>1. T = StringsSize(args, n)
    BY <1>1, <1>6, Zenon DEF StackLaid
  <2>2. A = low + d - T - V
    BY <1>7
  <2> QED BY <1>2, <1>3, <1>4, <1>5, <2>1, <2>2, Zenon
<1>9. PageBase(E) = PageSize * page
  <2>1. page \in Nat
    BY StackTop
  <2>2. PageSize * page <= E /\ E < PageSize * page + PageSize
    BY <1>3, <1>4, <1>7
  <2>3. PageOf(E) = page
    BY <1>4, <2>1, <2>2, PageUnique
  <2>4. PageBase(E) = PageSize * PageOf(E)
    BY <1>4, PageFacts
  <2> QED BY <2>3, <2>4
<1>10. ASSUME NEW i \in 0..n PROVE PointerAt(t, A, i) = IF i = n THEN NULL ELSE X + h[i]
  <2>1. PICK p \in Nat : p = w * i /\ p = i * w /\ p <= V
    <3>1. w * i \in Nat /\ w * i = i * w /\ (i <= n + 1 => w * i <= w * (n + 1))
      BY Multiples
    <3> QED BY <1>5, <3>1
  <2>2. PICK e \in Nat \ {0} : e = AddressEnd /\ low + d < e
    BY <1>3, Sizes
  <2>6. p <= V /\ low + d < e
    BY <2>1, <2>2
  <2>3. A + p \in Nat /\ A + p < e
    BY <1>7, <2>6
  <2>7. PICK z \in Nat : z = A + p /\ z < e
    BY <2>3
  <2>8. z % e = z
    BY <2>7, Unwrapped
  <2>4. (A + p) % e = A + p
    BY <2>7, <2>8, Zenon
  <2>5. PointerAt(t, A, i) = t.cell[A + p]
    BY <1>2, <2>1, <2>2, <2>4 DEF PointerAt, PointerAddress
  <2> QED BY <1>4, <2>1, <2>5
<1>11. ASSUME NEW i \in 0..(n - 1)
       PROVE  /\ PointerAt(t, A, i) >= A + (n + 1) * WordSize
              /\ PointerAt(t, A, i) + Length(t, PointerAt(t, A, i)) < PageSize * page + PageSize
              /\ StringAt(t, PointerAt(t, A, i)) = args[i + 1]
  <2>1. i \in 0..n /\ i # n /\ i + 1 \in 0..n /\ (i + 1) - 1 = i
    OBVIOUS
  <2>2. PICK k \in 1..n : k = i + 1
    OBVIOUS
  <2>3. PICK a \in Seq(Nat) : a = args[k]
    BY <1>1
  <2>4. PICK m \in Nat : m = Len(a)
    OBVIOUS
  <2>5. PICK p \in Nat, q \in Nat : p = h[i] /\ q = h[k] /\ q <= T
    <3>1. h[i] \in 0..T /\ h[k] \in 0..T
      BY <1>4, <1>6, <2>1, <2>2
    <3>2. 0..T \subseteq Nat
      OBVIOUS
    <3>3. \A x \in 0..T : x <= T
      OBVIOUS
    <3> QED BY <3>1, <3>2, <3>3, Zenon
  <2>6. q = p + m + 1
    BY <1>4, <2>1, <2>2, <2>3, <2>4, <2>5, Zenon
  <2>7. PICK x \in Nat : x = X + p
    BY <1>4
  <2>8. PointerAt(t, A, i) = x
    BY <1>10, <2>1, <2>5, <2>7
  <2>16. q <= T /\ q = p + m + 1 /\ x = X + p /\ X \in Nat /\ X + T = low + d
    BY <1>7, <2>5, <2>6, <2>7
  <2>9. x + m < low + d /\ x >= X /\ x + m = X + q - 1
    BY <2>16
  <2>10. \A j \in 1..m : t.cell[x + j - 1] = a[j] /\ a[j] # NUL
    <3> TAKE j \in 1..m
    <3>1. t.cell[X + h[k - 1] + j - 1] = args[k][j]
      BY <1>4, <2>3, <2>4, Zenon
    <3>2. k - 1 = i
      BY <2>2
    <3>3. a[j] # NUL
      BY <1>1, <2>3, <2>4
    <3> QED BY <2>3, <2>5, <2>7, <3>1, <3>2, <3>3, Zenon
  <2>11. t.cell[x + m] = NUL
    <3>1. t.cell[X + h[k] - 1] = NUL
      BY <1>4, Zenon
    <3> QED BY <2>5, <2>9, <3>1, Zenon
  <2>12. x + m < AddressEnd
    BY <1>3, <2>9, Sizes
  <2>13. Length(t, x) = m /\ StringAt(t, x) = a
    <3>1. HasString(t, x, a, m)
      BY <2>10, <2>11, <2>12, Zenon DEF HasString
    <3> QED BY <2>4, <3>1, StringIs
  <2>14. x >= A + (n + 1) * WordSize
    BY <1>2, <1>5, <1>7, <2>9
  <2>15. x + m < PageSize * page + PageSize
    BY <1>3, <2>9
  <2> QED BY <2>2, <2>3, <2>8, <2>13, <2>14, <2>15
<1>12. PointerAt(t, A, n) = NULL
  <2>1. n \in 0..n
    OBVIOUS
  <2> QED BY <1>10, <2>1
<1> QED BY <1>1, <1>4, <1>8, <1>9, <1>11, <1>12, <1>13, Zenon DEF Delivered

\* The same of memory t, stack pointer e and vector argv, the arguments being the
\* n elements of args.
ArgumentsMet(old, t, e, n, args, argv) ==
  /\ e % StackAlign = 0
  /\ PointerAt(space, old, n) = NULL /\ PointerAt(t, argv, n) = NULL
  /\ \A i \in 0..(n - 1) :
       /\ PointerAt(space, old, i) # NULL
       /\ PointerAt(t, argv, i) >= argv + (n + 1) * WordSize
       /\ PointerAt(t, argv, i) + Length(t, PointerAt(t, argv, i)) < PageBase(e) + PageSize
       /\ StringAt(t, PointerAt(t, argv, i)) = args[i + 1]

\* A sequence is the function of its elements.
LEMMA ElementsGiven ==
  ASSUME NEW S, NEW s \in Seq(S)
  PROVE  s = [i \in 1..Len(s) |-> s[i]]
  OBVIOUS

\* exec delivers what it was given.
LEMMA ExecDelivers ==
  ASSUME MemoryInv, NEW path \in Paths, NEW argv \in Argvs, NEW room \in Rooms,
         NEW stack \in StackPages, NEW junk \in Junk, sys_exec(path, argv, room, stack, junk), started' # << >>
  PROVE  DeliveredAt(ArgvPlace) /\ esp' = AlignDown(ArgvPlace - WordSize)
<1>1. ImageKept /\ space \in Space
  BY DEF MemoryInv
<1> PICK args : args = exec_args_copy_from_user(space, argv, room).args
  OBVIOUS
<1>2. /\ started' = << argv >> /\ exec_args_copy_from_user(space, argv, room).ok
      /\ args \in Seq(Seq(Nat))
      /\ \E l : /\ Loaded(l, running', stack)
                /\ \E h, X, A : StackLaid(space', WithStack(l.space, stack, junk), args, stack, h, X, A, esp')
  BY <1>1, ExecStarts
<1>3. PICK n \in Nat : n = Len(args)
  BY <1>2
<1>4. argv \in Addresses
  BY CallsAssumption
<1>5. /\ n = Copies(space, argv, room)
      /\ \A i \in 0..(n - 1) :
           /\ PointerAt(space, argv, i) \in Nat /\ PointerAt(space, argv, i) # NULL
           /\ paging_user_string_valid(space, PointerAt(space, argv, i))
           /\ args[i + 1] = StringAt(space, PointerAt(space, argv, i))
  BY <1>1, <1>3, <1>4, ArgumentsTyped
<1>6. PointerAt(space, argv, n) = NULL
  BY <1>2, <1>5 DEF exec_args_copy_from_user
<1>7. \A i \in 1..Len(args) : \A j \in 1..Len(args[i]) : args[i][j] # NUL
  <2> SUFFICES ASSUME NEW i \in 1..n, NEW j \in 1..Len(args[i]) PROVE args[i][j] # NUL
    BY <1>3
  <2>1. PICK k \in 0..(n - 1) : k + 1 = i
    <3>1. i - 1 \in 0..(n - 1) /\ (i - 1) + 1 = i
      OBVIOUS
    <3> QED BY <3>1, Zenon
  <2>2. PICK p \in Nat : p = PointerAt(space, argv, k) /\ paging_user_string_valid(space, p) /\ args[i] = StringAt(space, p)
    BY <1>5, <2>1
  <2>3. Len(args[i]) = Length(space, p) /\ \A x \in 1..Length(space, p) : args[i][x] # NUL
    <3>1. /\ Len(StringAt(space, p)) = Length(space, p)
          /\ \A y \in 1..Length(space, p) : StringAt(space, p)[y] = space.cell[p + y - 1] /\ space.cell[p + y - 1] # NUL
      BY <1>1, <2>2, StringTyped
    <3> QED BY <2>2, <3>1, Zenon
  <2> QED BY <2>3
<1>8. PICK l, h, X, A : StackLaid(space', WithStack(l.space, stack, junk), args, stack, h, X, A, esp')
  BY <1>2
<1> PICK t, e : t = space' /\ e = esp'
  OBVIOUS
<1>9. Delivered(t, args, stack, A, e)
  BY <1>2, <1>7, <1>8, StackDelivers
<1>10. /\ t.cell[e] = n /\ e % StackAlign = 0 /\ PageBase(e) = PageSize * stack
       /\ e = AlignDown(A - WordSize)
       /\ A = PageSize * stack + PageSize - StringsSize(args, n) - (n + 1) * WordSize
       /\ PointerAt(t, A, n) = NULL
       /\ \A i \in 0..(n - 1) :
            /\ PointerAt(t, A, i) >= A + (n + 1) * WordSize
            /\ PointerAt(t, A, i) + Length(t, PointerAt(t, A, i)) < PageSize * stack + PageSize
            /\ StringAt(t, PointerAt(t, A, i)) = args[i + 1]
  BY <1>3, <1>9, Zenon DEF Delivered
<1>11. started'[1] = argv
  BY <1>2
<1>12. OldArguments = args
  <2>1. \A i \in 1..n : StringAt(space, PointerAt(space, argv, i - 1)) = args[i]
    <3> TAKE i \in 1..n
    <3>1. i - 1 \in 0..(n - 1) /\ (i - 1) + 1 = i
      OBVIOUS
    <3> QED BY <1>5, <3>1, Zenon
  <2>2. OldArguments = [i \in 1..n |-> StringAt(space, PointerAt(space, argv, i - 1))]
    BY <1>10, <1>11, Zenon DEF OldArguments
  <2>3. OldArguments = [i \in 1..n |-> args[i]]
    BY <2>1, <2>2
  <2>4. PICK S, g : S = Seq(Nat) /\ args \in Seq(S) /\ g = OldArguments
    BY <1>2, Zenon
  <2>5. g = [i \in 1..n |-> args[i]]
    BY <2>3, <2>4, Zenon
  <2>6. args = [i \in 1..Len(args) |-> args[i]]
    BY <2>4, ElementsGiven, Zenon
  <2>7. g = args
    BY <1>3, <2>5, <2>6, Zenon
  <2> QED BY <2>4, <2>7, Zenon
<1>13. ArgvPlace = A
  <2>1. Len(OldArguments) = n
    BY <1>3, <1>12
  <2> QED BY <1>10, <1>12, <2>1, Zenon DEF ArgvPlace
<1>14. ArgumentsMet(argv, t, e, n, args, A)
  <2>1. \A i \in 0..(n - 1) :
          /\ PointerAt(space, argv, i) # NULL
          /\ PointerAt(t, A, i) >= A + (n + 1) * WordSize
          /\ PointerAt(t, A, i) + Length(t, PointerAt(t, A, i)) < PageBase(e) + PageSize
          /\ StringAt(t, PointerAt(t, A, i)) = args[i + 1]
    BY <1>5, <1>10, Zenon
  <2> QED BY <1>6, <1>10, <2>1, Zenon DEF ArgumentsMet
<1>15. ArgumentsMet(started'[1], space', esp', space'.cell[esp'], OldArguments, A)
  <2>1. n = space'.cell[esp']
    BY <1>10, Zenon
  <2> QED BY <1>11, <1>12, <1>14, <2>1, Zenon
<1>16. DeliveredAt(A)
  BY <1>15, Zenon DEF DeliveredAt, ArgumentsMet
<1>17. esp' = AlignDown(A - WordSize)
  BY <1>10
<1> QED BY <1>13, <1>16, <1>17, Zenon

\* After any sequence of calls, an exec that succeeds copies the arguments it was
\* given to the program it starts: strings equal to the old program's and the
\* vector of their addresses fill the stack page from its end, and their number
\* is at the last aligned address below, ESP.
THEOREM ArgumentsCorrect == CallsSpec => ArgumentsCopied
<1> DEFINE Copied_ == DeliveredAt(ArgvPlace) /\ esp' = AlignDown(ArgvPlace - WordSize)
<1>1. ASSUME CallsInv, MemoryInv, CallsNext, started' # << >> PROVE Copied_
  <2>1. ASSUME NEW stack \in StackPages, NEW junk \in Junk, init_process_start(stack, junk) PROVE FALSE
    <3>1. started' = started /\ running = 0
      BY <2>1 DEF init_process_start
    <3> QED BY <1>1, <3>1 DEF MemoryInv
  <2>2. ASSUME NEW path \in Paths, NEW access \in AccessArgs, sys_open(path, access) PROVE FALSE
    BY <1>1, <2>2 DEF sys_open
  <2>3. ASSUME NEW fd \in FdArgs, NEW buffer \in Buffers, NEW count \in Counts,
               sys_read(fd, buffer, count) \/ sys_write(fd, buffer, count)
        PROVE  FALSE
    BY <1>1, <2>3 DEF sys_read, sys_write
  <2>4. ASSUME NEW fd \in FdArgs, sys_close(fd) PROVE FALSE
    BY <1>1, <2>4 DEF sys_close
  <2> QED BY <1>1, <2>1, <2>2, <2>3, <2>4, ExecDelivers DEF CallsNext
<1>2. CallsInv /\ MemoryInv /\ [CallsNext]_vars => [started' # << >> => Copied_]_vars
  BY <1>1
<1> QED BY <1>2, CallsInvInit, CallsInvNext, MemoryInit, MemoryNext, PTL DEF CallsSpec, ArgumentsCopied

----------------------------------------------------------------------------
(* Files.                                                                  *)

\* In an image that was mounted the whole table is there.
LEMMA Mounted ==
  ASSUME ImageKept, fs_mount(image), NEW i \in 1..Len(inputs)
  PROVE  Entry(image, i).name = inputs[i].name /\ fs_file_size(image, i) = Len(inputs[i].bytes)
<1>1. PICK n \in Nat : n = Len(inputs) /\ DOMAIN inputs = 1..n
  BY PackingFacts DEF ImageKept
<1>2. PICK e \in Nat \ {0}, z \in Nat : e = EntrySize /\ z = image.size
  BY RamFsAssumption, ImageFields
<1>3. image.files_offset = SuperblockSize /\ SuperblockSize \in Nat
  BY RamFsAssumption, ImageFields
<1>4. PICK o \in Nat : o = SuperblockSize
  BY <1>3
<1>5. PICK d \in Nat : d = image.data_offset
  <2>1. PICK h : Layout(inputs, h)
    BY LaidOut DEF ImageKept
  <2> QED BY <2>1, ImageFields DEF Layout
<1>6. d >= o + n * e /\ d <= z
  BY <1>1, <1>2, <1>3, <1>4, <1>5, ImageFields DEF fs_mount, TableKept
<1>7. i \in Nat /\ i <= n
  BY <1>1
<1>8. e * i <= e * n /\ e * i = i * e /\ e * n = n * e
  BY <1>7, Multiples
<1>9. PICK x \in Int, y \in Int : x = i * e /\ y = n * e
  BY <1>7
<1>10. o + i * e <= z
  BY <1>6, <1>8, <1>9
<1>11. Entry(image, i) = image.files[i]
  BY <1>2, <1>3, <1>4, <1>10 DEF Entry
<1>12. image.files[i] = create_file_entry(inputs, i)
  BY <1>1, ImageFields DEF TableKept
<1> QED BY <1>11, <1>12 DEF create_file_entry, fs_file_size

\* fs_find finds what was packed under a name: the first of the files with it.
LEMMA Found ==
  ASSUME ImageKept, fs_mount(image), NEW name, NEW i, i = fs_find(image, name)
  PROVE  /\ i = 0 => name \notin DOMAIN Packed
         /\ i # 0 => /\ i \in 1..Len(inputs) /\ name \in DOMAIN Packed
                     /\ Packed[name] = inputs[i].bytes
<1> DEFINE es == [j \in 1..image.file_count |-> Entry(image, j)]
           I == {j \in 1..Len(es) : es[j].name = name}
           J == {j \in 1..Len(inputs) : inputs[j].name = name}
<1>1. PICK n \in Nat : n = Len(inputs) /\ DOMAIN inputs = 1..n /\ image.file_count = n
  BY PackingFacts, ImageFields DEF ImageKept, TableKept
<1>2. Len(es) = n /\ \A j \in 1..n : es[j] = Entry(image, j)
  BY <1>1
<1>3. i = IF I # {} THEN Min(I) ELSE 0
  BY Zenon DEF fs_find, SelectInSeq
<1>4. SelectInSeq(inputs, LAMBDA f : f.name = name) = IF J # {} THEN Min(J) ELSE 0
  BY Zenon DEF SelectInSeq
<1> HIDE DEF es
<1>5. I = J
  BY <1>1, <1>2, Mounted
<1> HIDE DEF I
<1>6. i = SelectInSeq(inputs, LAMBDA f : f.name = name)
  BY <1>3, <1>4, <1>5
<1>7. DOMAIN Packed = {inputs[j].name : j \in 1..n}
  BY <1>1 DEF Packed
<1>8. name \in DOMAIN Packed <=> J # {}
  BY <1>1, <1>7
<1>9. name \in DOMAIN Packed => Packed[name] = inputs[i].bytes
  BY <1>1, <1>6, <1>7 DEF Packed
<1>10. J \in SUBSET Nat
  BY <1>1
<1>11. J # {} => i \in J
  <2> HIDE DEF J
  <2> QED BY <1>3, <1>5, <1>10, Least
<1>12. J # {} => i \in 1..Len(inputs) /\ i # 0
  BY <1>1, <1>11
<1> HIDE DEF J
<1>13. J = {} => i = 0
  BY <1>3, <1>5
<1> QED BY <1>8, <1>9, <1>12, <1>13

\* Sequences are equal when their elements are.
LEMMA SameElements ==
  ASSUME NEW s \in Seq(Nat), NEW t \in Seq(Nat), Len(s) = Len(t), \A j \in 1..Len(s) : s[j] = t[j]
  PROVE  s = t
  OBVIOUS

\* A part of a sequence from p + 1 to n.
LEMMA Part ==
  ASSUME NEW b \in Seq(Nat), NEW p \in Nat, NEW n \in Nat, p <= n, n <= Len(b)
  PROVE  /\ SubSeq(b, p + 1, n) \in Seq(Nat) /\ Len(SubSeq(b, p + 1, n)) = n - p
         /\ \A j \in 1..(n - p) : SubSeq(b, p + 1, n)[j] = b[p + j]
<1>1. PICK m \in Nat : m = Len(b)
  OBVIOUS
<1>2. \A j \in (p + 1)..n : b[j] \in Nat
  BY <1>1, ElementOf
<1>3. PICK q \in Int : q = p + 1
  OBVIOUS
<1> PICK s : s = SubSeq(b, q, n)
  OBVIOUS
<1>4. /\ s \in Seq(Nat) /\ Len(s) = IF q <= n THEN n - q + 1 ELSE 0
      /\ \A j \in 1..(n - q + 1) : s[j] = b[q + j - 1]
  BY <1>2, <1>3, SubSeqProperties
<1>5. Len(s) = n - p
  BY <1>3, <1>4
<1>6. ASSUME NEW j \in 1..(n - p) PROVE s[j] = b[p + j]
  <2>1. j \in 1..(n - q + 1) /\ q + j - 1 = p + j
    BY <1>3
  <2> QED BY <1>4, <2>1
<1> QED BY <1>3, <1>4, <1>5, <1>6

\* s is split after its first k bytes, which are t; what follows are those of b
\* from p + k on.
Split(s, t, b, p, k) ==
  Len(s) = Len(b) - p /\ SubSeq(s, k + 1, Len(s)) = SubSeq(b, p + k + 1, Len(b)) /\ SubSeq(s, 1, k) = t

\* What is left of a sequence after its first p bytes, taken further by k.
LEMMA Further ==
  ASSUME NEW b \in Seq(Nat), NEW p \in Nat, NEW k \in Nat, p + k <= Len(b),
         NEW s, s = SubSeq(b, p + 1, Len(b)),
         NEW t, Taken(t, b, p, k)
  PROVE  Split(s, t, b, p, k)
<1>1. PICK m \in Nat : m = Len(b) /\ p + k <= m
  OBVIOUS
<1>2. s \in Seq(Nat) /\ Len(s) = m - p /\ \A j \in 1..(m - p) : s[j] = b[p + j]
  BY <1>1, Part
<1>3. PICK r \in Nat : r = m - p /\ k <= r
  <2>1. m - p \in Nat /\ k <= m - p
    BY <1>1
  <2> QED BY <2>1
<1> PICK u, v, w : u = SubSeq(s, k + 1, r) /\ v = SubSeq(b, (p + k) + 1, m) /\ w = SubSeq(s, 0 + 1, k)
  OBVIOUS
<1>4. u \in Seq(Nat) /\ Len(u) = r - k /\ \A j \in 1..(r - k) : u[j] = s[k + j]
  BY <1>2, <1>3, Part
<1>5. v \in Seq(Nat) /\ Len(v) = m - (p + k) /\ \A j \in 1..(m - (p + k)) : v[j] = b[(p + k) + j]
  <2>1. PICK q \in Nat : q = p + k /\ q <= m /\ m <= Len(b)
    BY <1>1
  <2>2. /\ SubSeq(b, q + 1, m) \in Seq(Nat) /\ Len(SubSeq(b, q + 1, m)) = m - q
        /\ \A j \in 1..(m - q) : SubSeq(b, q + 1, m)[j] = b[q + j]
    <3>1. b \in Seq(Nat) /\ q \in Nat /\ m \in Nat /\ q <= m /\ m <= Len(b)
      BY <2>1
    <3> QED BY ONLY <3>1, Part, Zenon
  <2> QED BY <2>1, <2>2, Zenon
<1>6. w \in Seq(Nat) /\ Len(w) = k - 0 /\ \A j \in 1..(k - 0) : w[j] = s[0 + j]
  <2>1. 0 \in Nat /\ 0 <= k /\ k <= Len(s)
    BY <1>2, <1>3
  <2> QED BY <1>2, <2>1, Part
<1>taken. t \in Seq(Nat) /\ Len(t) = k /\ \A j \in 1..k : t[j] = b[p + j]
  BY DEF Taken
<1>7. u = v
  <2>1. Len(u) = Len(v)
    BY <1>3, <1>4, <1>5
  <2>2. ASSUME NEW j \in 1..(r - k) PROVE u[j] = v[j]
    <3>1. k + j \in 1..(m - p) /\ p + (k + j) = (p + k) + j /\ j \in 1..(m - (p + k))
      BY <1>3
    <3> QED BY <1>2, <1>4, <1>5, <3>1
  <2> QED BY <1>4, <1>5, <2>1, <2>2, SameElements
<1>8. w = t
  <2>1. ASSUME NEW j \in 1..k PROVE w[j] = t[j]
    <3>1. j \in 1..(m - p) /\ 0 + j = j /\ j \in 1..(k - 0)
      BY <1>3
    <3> QED BY <1>2, <1>6, <1>taken, <3>1
  <2>2. Len(w) = k
    BY <1>6
  <2> QED BY <1>6, <1>taken, <2>1, <2>2, SameElements
<1>9. Len(s) = r /\ 0 + 1 = 1
  BY <1>2, <1>3
<1> QED BY <1>1, <1>3, <1>7, <1>8, <1>9 DEF Split

\* What a descriptor has left to deliver, as a function of the descriptor.
StreamIn(p, f) ==
  IF ~f.used THEN [open |-> FALSE, readable |-> FALSE, rest |-> << >>]
  ELSE [open     |-> TRUE,
        readable |-> f.access \in {READ, READ_WRITE},
        rest     |-> SubSeq(p[f.entry].bytes, f.position + 1, Len(p[f.entry].bytes))]

AllStreams == [fd \in Fds |-> Stream(fd)]

LEMMA StreamsAre ==
  /\ AllStreams = [fd \in Fds |-> StreamIn(inputs, files[fd])]
  /\ AllStreams' = [fd \in Fds |-> StreamIn(inputs', files'[fd])]
  BY DEF AllStreams, Stream, StreamIn

\* A change of one descriptor changes its stream and no other.
LEMMA StreamChanges ==
  ASSUME inputs' = inputs, DescriptorsSound, NEW d \in Fds, NEW f, files' = [files EXCEPT ![d] = f]
  PROVE  AllStreams' = [AllStreams EXCEPT ![d] = StreamIn(inputs, f)]
<1>1. files \in [Fds -> FileType]
  BY DEF DescriptorsSound
<1>2. \A e \in Fds : files'[e] = IF e = d THEN f ELSE files[e]
  BY <1>1
<1>3. AllStreams' = [e \in Fds |-> StreamIn(inputs, IF e = d THEN f ELSE files[e])]
  BY <1>2, StreamsAre
<1>4. [AllStreams EXCEPT ![d] = StreamIn(inputs, f)]
        = [e \in Fds |-> IF e = d THEN StreamIn(inputs, f) ELSE StreamIn(inputs, files[e])]
  BY StreamsAre
<1> QED BY <1>3, <1>4

PackedIn(p) ==
  [n \in {p[i].name : i \in DOMAIN p} |-> p[SelectInSeq(p, LAMBDA f : f.name = n)].bytes]

LEMMA PackedStays == ASSUME inputs' = inputs PROVE Packed' = Packed
<1>1. Packed = PackedIn(inputs)
  BY Zenon DEF Packed, PackedIn
<1>2. Packed' = PackedIn(inputs')
  BY Zenon DEF Packed, PackedIn, SelectInSeq
<1> QED BY <1>1, <1>2

LEMMA StreamsStay ==
  ASSUME inputs' = inputs, files' = files
  PROVE  AllStreams' = AllStreams /\ Packed' = Packed
<1>1. AllStreams' = AllStreams
  BY StreamsAre
<1> QED BY <1>1, PackedStays

\* A step of the specification of streams, or none.
StreamsStep == [Streams!Next]_(Streams!vars)

LEMMA StreamsOther ==
  ASSUME inputs' = inputs, files' = files, answer' = NoAnswer
  PROVE  StreamsStep
<1>1. AllStreams' = AllStreams /\ Packed' = Packed
  BY StreamsStay
<1>2. Streams!Other
  BY <1>1 DEF Streams!Other, AllStreams, NoAnswer
<1> QED BY <1>1, <1>2 DEF StreamsStep, Streams!Next

LEMMA StreamsStutter ==
  ASSUME inputs' = inputs, files' = files, answer' = answer
  PROVE  StreamsStep
<1>1. AllStreams' = AllStreams /\ Packed' = Packed
  BY StreamsStay
<1> QED BY <1>1 DEF StreamsStep, Streams!vars, AllStreams

\* close.
LEMMA CloseStreams ==
  ASSUME CallsInv, NEW fd \in FdArgs, sys_close(fd)
  PROVE  StreamsStep
<1>1. inputs' = inputs /\ DescriptorsSound /\ Packed' = Packed
  BY PackedStays DEF sys_close, CallsInv
<1>2. CASE process_get_file(fd)
  <2>1. fd \in Fds /\ files[fd].used
    BY <1>2 DEF process_get_file
  <2>2. files' = [files EXCEPT ![fd] = Unused] /\ answer' = << "close", fd, 0 >>
    BY <1>2 DEF sys_close, process_close
  <2>3. AllStreams' = [AllStreams EXCEPT ![fd] = StreamIn(inputs, Unused)]
    BY <1>1, <2>1, <2>2, StreamChanges
  <2>4. StreamIn(inputs, Unused) = Streams!Closed
    BY DEF StreamIn, Unused, Streams!Closed
  <2>5. AllStreams[fd].open
    BY <2>1, StreamsAre DEF StreamIn
  <2>6. Streams!Close(fd)
    BY <2>1, <2>2, <2>3, <2>4, <2>5 DEF Streams!Close, AllStreams
  <2> QED BY <1>1, <2>6 DEF StreamsStep, Streams!Next
<1>3. CASE ~process_get_file(fd)
  <2>1. files' = files /\ answer' = << "close", fd, -1 >>
    BY <1>3 DEF sys_close
  <2>2. AllStreams' = AllStreams
    BY <1>1, <2>1, StreamsStay
  <2>3. fd \notin Fds \/ ~AllStreams[fd].open
    BY <1>3, StreamsAre DEF StreamIn, process_get_file
  <2>4. Streams!CloseFails(fd)
    BY <2>1, <2>2, <2>3 DEF Streams!CloseFails, AllStreams
  <2> QED BY <1>1, <2>4 DEF StreamsStep, Streams!Next
<1> QED BY <1>2, <1>3

\* open.
LEMMA OpenStreams ==
  ASSUME CallsInv, MemoryInv, NEW path \in Paths, NEW access \in AccessArgs, sys_open(path, access)
  PROVE  StreamsStep
<1> PICK valid, name : valid = paging_user_string_valid(space, path) /\ name = StringAt(space, path)
  OBVIOUS
<1> PICK i : i = fs_find(image, name)
  OBVIOUS
<1> PICK fd : fd = process_open(i, access)
  OBVIOUS
<1> DEFINE free == {d \in Fds : ~files[d].used}
<1>1. /\ inputs' = inputs /\ DescriptorsSound /\ Packed' = Packed
      /\ ImageKept /\ fs_mount(image)
  BY PackedStays DEF sys_open, Calling, CallsInv, MemoryInv
<1>2. /\ files' = IF valid /\ fd # -1 THEN [files EXCEPT ![fd] = file_open(i, access)] ELSE files
      /\ answer' = IF ~valid \/ access \notin {READ, WRITE, READ_WRITE} THEN NoAnswer
                   ELSE << "open", name, fd >>
  BY DEF sys_open
<1>3. fd = IF free = {} \/ access \notin {READ, WRITE, READ_WRITE} \/ i = 0 THEN -1 ELSE Min(free)
  BY DEF process_open
<1>4. free # {} => Min(free) \in free /\ Min(free) # -1
  <2>1. free \in SUBSET Nat
    BY CallsAssumption DEF Fds
  <2> HIDE DEF free
  <2>2. free # {} => Min(free) \in free
    BY <2>1, Least
  <2> QED BY <2>1, <2>2
<1>5. /\ i = 0 => name \notin DOMAIN Packed
      /\ i # 0 => /\ i \in 1..Len(inputs) /\ name \in DOMAIN Packed /\ Packed[name] = inputs[i].bytes
  BY <1>1, Found
<1>6. CASE ~valid \/ access \notin {READ, WRITE, READ_WRITE}
  <2>1. files' = files /\ answer' = NoAnswer
    BY <1>2, <1>3, <1>6
  <2> QED BY <1>1, <2>1, StreamsOther
<1>7. CASE valid /\ access \in {READ, WRITE, READ_WRITE} /\ (free = {} \/ i = 0)
  <2>1. files' = files /\ answer' = << "open", name, -1 >>
    BY <1>2, <1>3, <1>7
  <2>2. AllStreams' = AllStreams
    BY <1>1, <2>1, StreamsStay
  <2>3. name \in DOMAIN Packed => \A d \in Fds : AllStreams[d].open
    <3>1. name \in DOMAIN Packed => free = {}
      BY <1>5, <1>7
    <3>2. free = {} => \A d \in Fds : files[d].used
      OBVIOUS
    <3> QED BY <3>1, <3>2, StreamsAre DEF StreamIn
  <2>4. Streams!OpenFails
    BY <2>1, <2>2, <2>3 DEF Streams!OpenFails, AllStreams
  <2> QED BY <1>1, <2>4 DEF StreamsStep, Streams!Next
<1>8. CASE valid /\ access \in {READ, WRITE, READ_WRITE} /\ free # {} /\ i # 0
  <2>1. fd \in Fds /\ ~files[fd].used /\ fd # -1
    BY <1>3, <1>4, <1>8
  <2>2. files' = [files EXCEPT ![fd] = file_open(i, access)] /\ answer' = << "open", name, fd >>
    BY <1>2, <1>8, <2>1
  <2> PICK f, r : f = file_open(i, access) /\ r = (access \in {READ, READ_WRITE})
    OBVIOUS
  <2>3. AllStreams' = [AllStreams EXCEPT ![fd] = StreamIn(inputs, f)]
    BY <1>1, <2>1, <2>2, StreamChanges
  <2>4. i \in 1..Len(inputs) /\ name \in DOMAIN Packed /\ Packed[name] = inputs[i].bytes
    BY <1>5, <1>8
  <2>5. SubSeq(inputs[i].bytes, 0 + 1, Len(inputs[i].bytes)) = inputs[i].bytes
    <3>1. inputs[i].bytes \in Seq(Nat)
      BY <1>1, <2>4, PackingFacts DEF ImageKept
    <3> PICK b \in Seq(Nat) : b = inputs[i].bytes
      BY <3>1
    <3>2. SubSeq(b, 1, Len(b)) = b
      BY SubSeqFull
    <3> QED BY <3>2
  <2>6. StreamIn(inputs, f) = [open |-> TRUE, readable |-> r, rest |-> Packed[name]]
    BY <2>4, <2>5 DEF StreamIn, file_open
  <2>7. ~AllStreams[fd].open /\ r \in BOOLEAN
    BY <2>1, StreamsAre DEF StreamIn
  <2>8. Streams!Open(name)
    BY <2>1, <2>2, <2>3, <2>6, <2>7, Zenon DEF Streams!Open, AllStreams
  <2> QED BY <1>1, <2>4, <2>8 DEF StreamsStep, Streams!Next
<1> QED BY <1>6, <1>7, <1>8

\* What a read takes off a stream.
LEMMA ReadCountIs ==
  ASSUME TableKept, DescriptorsSound, NEW fd \in Fds, files[fd].used, NEW count \in Nat,
         NEW left \in Nat, fs_file_size(image, files[fd].entry) - files[fd].position = left
  PROVE  ReadCount(fd, count) = IF count <= left THEN count ELSE left
<1> PICK S : S = {count, left}
  OBVIOUS
<1>1. S \in SUBSET Nat /\ S # {} /\ count \in S /\ left \in S
  OBVIOUS
<1>2. Min(S) \in S /\ \A x \in S : Min(S) <= x
  BY <1>1, Least
<1>3. ReadCount(fd, count) = Min(S)
  BY DEF ReadCount
<1>4. PICK m \in Nat : m = Min(S) /\ (m = count \/ m = left) /\ m <= count /\ m <= left
  BY <1>1, <1>2
<1> QED BY <1>3, <1>4

\* A read that succeeds.
LEMMA ReadDelivers ==
  ASSUME ImageKept, fs_mount(image), DescriptorsSound, inputs' = inputs,
         NEW fd \in Fds, Readable(fd), fd \in FdArgs, NEW count \in Nat, count \in Counts,
         NEW k, k = ReadCount(fd, count), k = 0 \/ fs_file_data(image, files[fd].entry) # 0,
         NEW bytes, bytes = BytesAt(image, fs_file_data(image, files[fd].entry) + files[fd].position, k),
         files' = [files EXCEPT ![fd] = Advance(files[fd], count, k)],
         answer' = << "read", fd, k, bytes >>
  PROVE  StreamsStep
<1>1. TableKept /\ files[fd].used /\ files[fd].access \in {READ, READ_WRITE} /\ Packed' = Packed
  BY ImageFields, PackedStays DEF Readable, process_get_file
<1>2. files[fd].entry \in 1..Len(inputs) /\ files[fd].position \in Nat
  BY <1>1 DEF DescriptorsSound, FileType
<1>3. PICK e \in 1..Len(inputs), p \in Nat : e = files[fd].entry /\ p = files[fd].position
  BY <1>2
<1>4. PICK b \in Seq(Nat) : b = inputs[e].bytes
  BY PackingFacts DEF ImageKept
<1>5. PICK m \in Nat : m = Len(b)
  OBVIOUS
<1>6. fs_file_size(image, e) = m
  BY <1>4, <1>5, Mounted
<1>7. k \in Nat /\ Taken(bytes, b, p, k)
  <2>1. files[fd].used /\ b = inputs[files[fd].entry].bytes
    BY <1>1, <1>3, <1>4
  <2>2. Taken(bytes, b, files[fd].position, k)
    BY <2>1, ReadBytes
  <2> QED BY <1>3, <2>2 DEF Taken
<1>8. p + k <= m
  BY <1>1, <1>3, <1>6, ReadCountBounds
<1>9. PICK s : s = SubSeq(b, p + 1, m)
  OBVIOUS
<1>10. Len(s) = m - p /\ SubSeq(s, k + 1, Len(s)) = SubSeq(b, p + k + 1, m) /\ SubSeq(s, 1, k) = bytes
  <2>1. b \in Seq(Nat) /\ p \in Nat /\ k \in Nat /\ p + k <= Len(b) /\ s = SubSeq(b, p + 1, Len(b))
        /\ Taken(bytes, b, p, k)
    BY <1>5, <1>7, <1>8, <1>9
  <2>2. Split(s, bytes, b, p, k)
    BY ONLY <2>1, Further
  <2> QED BY <1>5, <2>2 DEF Split
<1>11. k = IF count <= Len(s) THEN count ELSE Len(s)
  <2>1. PICK left \in Nat : left = m - p
    BY <1>7, <1>8
  <2>2. fs_file_size(image, files[fd].entry) - files[fd].position = left
    BY <1>3, <1>6, <2>1
  <2>3. k = IF count <= left THEN count ELSE left
    BY <1>1, <2>2, ReadCountIs
  <2> QED BY <1>10, <2>1, <2>3
<1>12. AllStreams[fd] = [open |-> TRUE, readable |-> TRUE, rest |-> s]
  <2>1. AllStreams[fd] = StreamIn(inputs, files[fd])
    BY StreamsAre
  <2> QED BY <1>1, <1>3, <1>4, <1>5, <1>9, <2>1 DEF StreamIn
<1> PICK f : f = Advance(files[fd], count, k)
  OBVIOUS
<1>13. f.used /\ f.access \in {READ, READ_WRITE} /\ f.entry = e /\ f.position = p + k
  <2>1. files[fd] \in FileType
    BY DEF DescriptorsSound
  <2> QED BY <1>1, <1>3, <2>1 DEF Advance, FileType
<1>14. StreamIn(inputs, f) = [open |-> TRUE, readable |-> TRUE, rest |-> SubSeq(s, k + 1, Len(s))]
  BY <1>4, <1>5, <1>10, <1>13 DEF StreamIn
<1>15. AllStreams' = [AllStreams EXCEPT ![fd] = StreamIn(inputs, f)]
  BY StreamChanges
<1>16. AllStreams' = [AllStreams EXCEPT ![fd].rest = SubSeq(s, k + 1, Len(s))]
  <2>1. [AllStreams EXCEPT ![fd].rest = SubSeq(s, k + 1, Len(s))]
          = [AllStreams EXCEPT ![fd] = [AllStreams[fd] EXCEPT !.rest = SubSeq(s, k + 1, Len(s))]]
    OBVIOUS
  <2>2. [AllStreams[fd] EXCEPT !.rest = SubSeq(s, k + 1, Len(s))] = StreamIn(inputs, f)
    <3> PICK u, a, T : u = SubSeq(s, k + 1, Len(s)) /\ a = AllStreams[fd] /\ T = TRUE
      OBVIOUS
    <3>1. StreamIn(inputs, f) = [open |-> T, readable |-> T, rest |-> u]
      BY <1>14
    <3>2. a = [open |-> T, readable |-> T, rest |-> s]
      BY <1>12
    <3>3. [a EXCEPT !.rest = u] = [open |-> T, readable |-> T, rest |-> u]
      BY ONLY <3>2
    <3> QED BY <3>1, <3>3
  <2> QED BY <1>15, <2>1, <2>2
<1>17. AllStreams[fd].rest = s /\ AllStreams[fd].open /\ AllStreams[fd].readable
  BY <1>12
<1>18. answer' = << "read", fd, k, SubSeq(s, 1, k) >>
  BY <1>10
<1>19. Streams!Read(fd, count)
  BY <1>11, <1>16, <1>17, <1>18, Zenon DEF Streams!Read, AllStreams
<1> QED BY <1>1, <1>19 DEF StreamsStep, Streams!Next

\* read.
LEMMA ReadStreams ==
  ASSUME CallsInv, MemoryInv, NEW fd \in FdArgs, NEW buffer \in Buffers, NEW count \in Counts,
         sys_read(fd, buffer, count)
  PROVE  StreamsStep
<1> PICK valid, k, data : /\ valid = (buffer # NULL /\ paging_user_range_valid(space, buffer, count))
                          /\ k = ReadCount(fd, count) /\ data = fs_file_data(image, files[fd].entry)
  OBVIOUS
<1> PICK ok, bytes : ok = (valid /\ Readable(fd)) /\ bytes = BytesAt(image, data + files[fd].position, k)
  OBVIOUS
<1> PICK fault : fault = (ok /\ k > 0 /\ data = 0)
  OBVIOUS
<1>1. /\ inputs' = inputs /\ DescriptorsSound /\ TableKept /\ Packed' = Packed
      /\ ImageKept /\ fs_mount(image)
  BY PackedStays DEF sys_read, Calling, CallsInv, MemoryInv
<1>2. /\ files' = IF ok /\ ~fault THEN [files EXCEPT ![fd] = Advance(@, count, k)] ELSE files
      /\ answer' = IF fault THEN answer
                   ELSE IF ~valid THEN NoAnswer
                   ELSE IF ~ok THEN << "read", fd, -1 >>
                   ELSE << "read", fd, k, bytes >>
  BY DEF sys_read
<1>3. count \in Nat
  BY CallsAssumption, Sizes DEF Addresses
<1>4. CASE fault
  BY <1>1, <1>2, <1>4, StreamsStutter
<1>5. CASE ~fault /\ ~valid
  <2>1. files' = files /\ answer' = NoAnswer
    BY <1>2, <1>5
  <2> QED BY <1>1, <2>1, StreamsOther
<1>6. CASE ~fault /\ valid /\ ~ok
  <2>1. files' = files /\ answer' = << "read", fd, -1 >> /\ ~Readable(fd)
    BY <1>2, <1>6
  <2>2. AllStreams' = AllStreams
    BY <1>1, <2>1, StreamsStay
  <2>3. fd \notin Fds \/ ~AllStreams[fd].open \/ ~AllStreams[fd].readable
    BY <2>1, StreamsAre DEF StreamIn, Readable, process_get_file
  <2>4. Streams!ReadFails(fd)
    BY <2>1, <2>2, <2>3 DEF Streams!ReadFails, AllStreams
  <2> QED BY <1>1, <2>4 DEF StreamsStep, Streams!Next
<1>7. CASE ~fault /\ valid /\ ok
  <2>1. fd \in Fds /\ Readable(fd) /\ files[fd].used
    BY <1>7 DEF Readable, process_get_file
  <2>2. files' = [files EXCEPT ![fd] = Advance(files[fd], count, k)] /\ answer' = << "read", fd, k, bytes >>
    BY <1>2, <1>7
  <2>3. k \in Nat
    BY <1>1, <1>3, <2>1, ReadCountBounds
  <2>4. k = 0 \/ fs_file_data(image, files[fd].entry) # 0
    <3>1. ~(k > 0 /\ data = 0)
      BY <1>7
    <3>2. k = 0 \/ k > 0
      BY ONLY <2>3
    <3> QED BY <3>1, <3>2
  <2> QED BY <1>1, <1>3, <2>1, <2>2, <2>4, ReadDelivers
<1> QED BY <1>4, <1>5, <1>6, <1>7

\* The descriptors of a process are streams over the files as they were packed:
\* whatever was packed and however much of the image is missing, through mkfs,
\* fs_mount, fs_find, file_read and the descriptor table, each descriptor
\* delivers the bytes of its file in order and each once.
THEOREM OpenFilesRefined == CallsSpec => ImplementsOpenFiles
<1>1. CallsInit => Streams!Init
  <2> SUFFICES ASSUME CallsInit PROVE Streams!Init
    OBVIOUS
  <2>1. files = [fd \in Fds |-> Unused] /\ answer = NoAnswer
    BY DEF CallsInit
  <2>2. AllStreams = [fd \in Fds |-> StreamIn(inputs, Unused)]
    BY <2>1, StreamsAre
  <2>3. StreamIn(inputs, Unused) = Streams!Closed
    BY DEF StreamIn, Unused, Streams!Closed
  <2> QED BY <2>1, <2>2, <2>3 DEF Streams!Init, AllStreams, NoAnswer
<1>2. CallsInv /\ MemoryInv /\ [CallsNext]_vars => StreamsStep
  <2> SUFFICES ASSUME CallsInv, MemoryInv, [CallsNext]_vars PROVE StreamsStep
    OBVIOUS
  <2>1. CASE UNCHANGED vars
    BY <2>1, StreamsStutter DEF vars
  <2>2. ASSUME NEW stack \in StackPages, NEW junk \in Junk, init_process_start(stack, junk) PROVE StreamsStep
    BY <2>2, StreamsStutter DEF init_process_start
  <2>3. ASSUME NEW path \in Paths, NEW argv \in Argvs, NEW room \in Rooms, NEW stack \in StackPages, NEW junk \in Junk,
               sys_exec(path, argv, room, stack, junk)
        PROVE  StreamsStep
    <3>1. inputs' = inputs /\ files' = files /\ answer' = NoAnswer
      BY <2>3, Zenon DEF sys_exec
    <3> QED BY <3>1, StreamsOther
  <2>4. ASSUME NEW fd \in FdArgs, NEW buf \in Buffers, NEW len \in Counts, sys_write(fd, buf, len) PROVE StreamsStep
    BY <2>4, StreamsOther DEF sys_write
  <2>5. CASE CallsNext
    BY <2>2, <2>3, <2>4, <2>5, OpenStreams, ReadStreams, CloseStreams DEF CallsNext
  <2> QED BY <2>1, <2>5
<1> QED BY <1>1, <1>2, CallsInvInit, CallsInvNext, MemoryInit, MemoryNext, PTL
        DEF CallsSpec, ImplementsOpenFiles, Streams!Spec, StreamsStep

=============================================================================
