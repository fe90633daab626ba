------------------------------- MODULE RamFs -------------------------------
(***************************************************************************)
(* The RAM file system: the image tools/mkfs.c packs on the build machine    *)
(* and what the kernel reads in it (kernel/fs/fs.c), as operators.          *)
(*                                                                         *)
(* An image is a superblock, a table of entries and the bytes of the files    *)
(* one after the other.  `cells' are the bytes from data_offset on, `size'    *)
(* is how much of the image the kernel was given: mkfs leaves a shorter one    *)
(* behind when it dies while it copies a file, or when the disk is full at    *)
(* its fclose.  Offsets are 32 bits wide (Word).  A name is the sequence of    *)
(* its characters; mkfs refuses one that does not fit its entry, as it does    *)
(* an input it cannot read, and then there is no image.                       *)
(***************************************************************************)
EXTENDS Integers, Sequences, SequencesExt

CONSTANTS
  SuperblockSize,   \* sizeof(struct fs_superblock)
  EntrySize,        \* sizeof(struct fs_file)
  Word              \* 2^32

ASSUME RamFsAssumption ==
  SuperblockSize \in Nat \ {0} /\ EntrySize \in Nat \ {0} /\ Word \in Nat \ {0}

\* What lies before input i among the files: the sizes of the earlier ones.
SizeBefore(inputs, i) ==
  LET Add(sum, input) == sum + Len(input.bytes) IN FoldLeft(Add, 0, SubSeq(inputs, 1, i - 1))

DataOffset(inputs) == (SuperblockSize + Len(inputs) * EntrySize) % Word

\* current_offset in mkfs when it comes to input i.
EntryOffset(inputs, i) == (DataOffset(inputs) + SizeBefore(inputs, i)) % Word

create_file_entry(inputs, i) ==
  [name |-> inputs[i].name, offset |-> EntryOffset(inputs, i), size |-> Len(inputs[i].bytes)]

\* mkfs: the complete image of the inputs, each a name and its bytes.
mkfs(inputs) ==
  [file_count   |-> Len(inputs),
   files_offset |-> SuperblockSize,
   data_offset  |-> DataOffset(inputs),
   files        |-> [i \in DOMAIN inputs |-> create_file_entry(inputs, i)],
   cells        |-> FlattenSeq([i \in DOMAIN inputs |-> inputs[i].bytes]),
   size         |-> SuperblockSize + Len(inputs) * EntrySize + SizeBefore(inputs, Len(inputs) + 1)]

\* The first n bytes of an image.
Truncated(image, n) == [image EXCEPT !.size = n]

\* fs_mount: the table of files must lie in the image, before the data.
fs_mount(image) ==
  /\ image.size >= SuperblockSize
  /\ image.files_offset <= image.size
  /\ image.file_count <= (image.size - image.files_offset) \div EntrySize
  /\ image.data_offset >= image.files_offset + image.file_count * EntrySize
  /\ image.data_offset <= image.size

\* Entry i of the table as it is in memory: what lies beyond the image is some
\* other memory, here zeroes.
Entry(image, i) ==
  IF image.files_offset + i * EntrySize <= image.size THEN image.files[i]
  ELSE [name |-> << >>, offset |-> 0, size |-> 0]

\* fs_find: the first entry with that name, 0 when there is none.
fs_find(image, name) ==
  SelectInSeq([i \in 1..image.file_count |-> Entry(image, i)], LAMBDA e : e.name = name)

\* fs_file_data: where the file starts in the image, 0 (NULL) when it is not
\* all there.
fs_file_data(image, i) ==
  LET e == Entry(image, i) IN
  IF e.offset > image.size \/ e.size > image.size - e.offset THEN 0 ELSE e.offset

fs_file_size(image, i) == Entry(image, i).size

\* The byte at offset k: a byte of a file, or else of the superblock, of the
\* table or of what follows the image.
ByteAt(image, k) ==
  IF k >= image.data_offset /\ k < image.size THEN image.cells[k - image.data_offset + 1] ELSE 0

\* The n bytes at offset k.
BytesAt(image, k, n) == [j \in 1..n |-> ByteAt(image, k + j - 1)]
============================================================================
