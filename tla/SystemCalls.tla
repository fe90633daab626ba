---------------------------- MODULE SystemCalls ----------------------------
(***************************************************************************)
(* One process and the system calls that concern its files and its program:   *)
(* open, read, close, write and exec (kernel/arch/x86/syscall.c) over the     *)
(* descriptor table (kernel/task/process.c), file.c, the RAM file system, the   *)
(* ELF loader and the argument passing of exec; and the start of the first     *)
(* program (kernel/task/init.c).                                            *)
(*                                                                         *)
(* syscall_stub disables interrupts, so a call is one action whichever thread  *)
(* of the process makes it.  A pointer a caller passes is any address in       *)
(* Paths, Argvs or Buffers.  Memory may run out in exec: of its allocations     *)
(* `room' succeed, first those of the copies of the arguments, then those of    *)
(* the new address space, taken as one (which of them failed and what is        *)
(* undone is in AddressSpace).  The stack page is one of the region's            *)
(* (AddressSpace says which) and is not cleared: it holds `junk'.              *)
(***************************************************************************)
EXTENDS RamFs, ElfLoader, ExecArgs

CONSTANTS
  Packings,       \* the lists of files mkfs may have been given
  Missing,        \* how many bytes may be missing at the end of the image
  InitName,       \* "/sbin/init"
  NumFiles,       \* PROCESS_MAX_FILES
  StackPages,     \* the pages of the user stack region
  Paths, Argvs, Buffers,        \* addresses passed to system calls
  FdArgs, AccessArgs, Counts,   \* their other arguments
  Rooms,          \* how many allocations may succeed in an exec
  Junk            \* what an uncleared page may hold

Fds == 0..(NumFiles - 1)
READ == 1
WRITE == 2
READ_WRITE == 3

ASSUME CallsAssumption ==
  /\ Word = AddressEnd /\ NumFiles \in Nat \ {0}
  /\ Paths \union Argvs \union Buffers \subseteq Addresses /\ AccessArgs \subseteq Nat /\ Counts \subseteq Addresses
  /\ StackPages \subseteq 0..(PageOf(UserEnd) - 1)
  /\ Junk \subseteq Nat /\ Missing \subseteq Nat
  /\ \A p \in Packings : p \in Seq(Range(p)) /\ \A i \in DOMAIN p : p[i].bytes \in Seq(Nat)
  /\ \A p \in Packings : mkfs(p).size < Word                    \* offsets in an image do not wrap

\* What a linker puts into program headers: user/user.ld places all segments in
\* the user half, which elf_load does not check.
ASSUME ProgramsAssumption ==
  \A p \in Packings : \A i \in DOMAIN p : elf_validate(p[i].bytes) =>
    \A k \in DOMAIN Headers(p[i].bytes) :
      LET ph == Headers(p[i].bytes)[k] IN
      /\ ph.load \in BOOLEAN
      /\ {ph.offset, ph.vaddr, ph.filesz, ph.memsz} \subseteq Nat /\ ph.vaddr + ph.memsz <= UserEnd

VARIABLES
  inputs,     \* what was packed
  image,      \* the module the boot loader handed over
  files,      \* process->files
  space,      \* the process's user memory
  running,    \* the entry of the program it runs, 0 before the first
  esp,        \* the stack pointer that program was started with
  started,    \* << argv >> when the last call was an exec that succeeded, else << >>
  answer,     \* the last call about files and what it returned
  strayed,    \* for some call the kernel accessed a byte that was not the user's
  halted      \* a failed ASSERT, a panic or a page fault in the kernel

vars == << inputs, image, files, space, running, esp, started, answer, strayed, halted >>

Unused == [used |-> FALSE, entry |-> 0, position |-> 0, access |-> 0]
NoAnswer == << "none" >>

\* The kernel accesses these bytes through a pointer it was given.
Accesses(cells) == strayed' = (strayed \/ ~(cells \subseteq UserCells(space)))

CallsInit ==
  /\ inputs \in Packings
  /\ \E n \in Missing : n <= mkfs(inputs).size /\ image = Truncated(mkfs(inputs), mkfs(inputs).size - n)
  /\ files = [fd \in Fds |-> Unused]
  /\ space = EmptySpace
  /\ running = 0 /\ esp = 0
  /\ started = << >> /\ answer = NoAnswer
  /\ strayed = FALSE /\ halted = FALSE

----------------------------------------------------------------------------
(* Starting programs.                                                      *)

\* A new stack page at the given address, uncleared.
WithStack(s, page, junk) ==
  [user |-> s.user \union {page},
   cell |-> [a \in Addresses |-> IF PageOf(a) = page THEN junk ELSE s.cell[a]]]

\* The bytes of the program in entry i, << >> when it cannot be used.
Program(i) ==
  IF i = 0 \/ fs_file_data(image, i) = 0 THEN << >>
  ELSE BytesAt(image, fs_file_data(image, i), fs_file_size(image, i))

\* init_process_start: mount, find and load init, or halt.
init_process_start(stack, junk) ==
  LET i == fs_find(image, InitName)
      b == Program(i)
      ok == fs_mount(image) /\ b # << >> /\ elf_load(b).ok /\ stack \notin elf_load(b).space.user IN
  /\ ~halted /\ running = 0
  /\ halted' = ~ok
  /\ IF ok
     THEN /\ space' = WithStack(elf_load(b).space, stack, junk)
          /\ running' = i
          /\ esp' = (stack + 1) * PageSize
     ELSE UNCHANGED << space, running, esp >>
  /\ UNCHANGED << inputs, image, files, started, answer, strayed >>

Calling == ~halted /\ running # 0

\* sys_exec, all of it: what fails leaves the process as it was, what succeeds
\* replaces its memory and leaves its descriptors.
sys_exec(path, argv, room, stack, junk) ==
  LET c == exec_args_copy_from_user(space, argv, room)
      i == fs_find(image, StringAt(space, path))
      l == elf_load(Program(i))
      st == exec_build_user_stack(WithStack(l.space, stack, junk), c.args, stack * PageSize)
      copied == paging_user_string_valid(space, path) /\ c.ok
      ok == copied /\ Program(i) # << >> /\ room > Len(c.args) /\ l.ok /\ stack \notin l.space.user /\ st.ok
      touched == IF path = NULL THEN {}
                 ELSE Scanned(space, path) \union
                      (IF paging_user_string_valid(space, path) THEN ArgumentCells(space, argv, room) ELSE {}) IN
  /\ Calling
  /\ IF ok
     THEN space' = st.space /\ running' = i /\ esp' = st.esp /\ started' = << argv >>
     ELSE UNCHANGED << space, running, esp >> /\ started' = << >>
  /\ Accesses(touched)
  /\ answer' = NoAnswer
  /\ UNCHANGED << inputs, image, files, halted >>

----------------------------------------------------------------------------
(* Files.                                                                  *)

file_open(i, access) == [used |-> TRUE, entry |-> i, position |-> 0, access |-> access]

\* Mutant: any slot will do, whether it is in use or not.
process_open_any(i, access) ==
  IF access \notin {READ, WRITE, READ_WRITE} \/ i = 0 THEN -1 ELSE 0

\* process_open: the lowest unused descriptor, -1 when there is none or
\* file_open refuses.
process_open(i, access) ==
  LET free == {fd \in Fds : ~files[fd].used} IN
  IF free = {} \/ access \notin {READ, WRITE, READ_WRITE} \/ i = 0 THEN -1 ELSE Min(free)

sys_open(path, access) ==
  LET valid == paging_user_string_valid(space, path)
      name == StringAt(space, path)
      i == fs_find(image, name)
      fd == process_open(i, access) IN
  /\ Calling
  /\ files' = IF valid /\ fd # -1 THEN [files EXCEPT ![fd] = file_open(i, access)] ELSE files
  /\ answer' = IF ~valid \/ access \notin {READ, WRITE, READ_WRITE} THEN NoAnswer
               ELSE << "open", name, fd >>
  /\ Accesses(IF path = NULL THEN {} ELSE Scanned(space, path))
  /\ started' = << >>
  /\ UNCHANGED << inputs, image, space, running, esp, halted >>

\* process_get_file: a descriptor in range and in use.
process_get_file(fd) == fd \in Fds /\ files[fd].used

\* file_read may read from it.
Readable(fd) == process_get_file(fd) /\ files[fd].access \in {READ, READ_WRITE}

\* How many bytes file_read copies: what is asked for or what remains.
ReadCount(fd, count) ==
  Min({count, fs_file_size(image, files[fd].entry) - files[fd].position})

\* Mutant: the descriptor moves on by what was asked for.
Advance_asked(f, count, k) == [f EXCEPT !.position = @ + count]

Advance(f, count, k) == [f EXCEPT !.position = @ + k]

\* sys_read, with process_read and file_read.  The data of a file that is not
\* all in the image is NULL, which file_read does not look at: the copy faults.
sys_read(fd, buffer, count) ==
  LET valid == buffer # NULL /\ paging_user_range_valid(space, buffer, count)
      ok == valid /\ Readable(fd)
      k == ReadCount(fd, count)
      data == fs_file_data(image, files[fd].entry)
      bytes == BytesAt(image, data + files[fd].position, k)
      fault == ok /\ k > 0 /\ data = 0 IN
  /\ Calling
  /\ halted' = fault
  /\ IF ok /\ ~fault
     THEN /\ files' = [files EXCEPT ![fd] = Advance(@, count, k)]
          /\ space' = Stored(space, buffer, bytes)
     ELSE UNCHANGED << files, space >>
  /\ answer' = IF fault THEN answer
               ELSE IF ~valid THEN NoAnswer
               ELSE IF ~ok THEN << "read", fd, -1 >>
               ELSE << "read", fd, k, bytes >>
  /\ Accesses(IF ok /\ ~fault THEN buffer..(buffer + k - 1) ELSE {})
  /\ started' = << >>
  /\ UNCHANGED << inputs, image, running, esp >>

process_close(f) == Unused

sys_close(fd) ==
  LET ok == process_get_file(fd) IN
  /\ Calling
  /\ files' = IF ok THEN [files EXCEPT ![fd] = process_close(@)] ELSE files
  /\ answer' = << "close", fd, IF ok THEN 0 ELSE -1 >>
  /\ started' = << >>
  /\ UNCHANGED << inputs, image, space, running, esp, strayed, halted >>

\* sys_write: to the console, through descriptor 1, open or not.
sys_write(fd, buf, len) ==
  LET ok == fd = 1 /\ paging_user_range_valid(space, buf, len) IN
  /\ Calling
  /\ Accesses(IF ok THEN buf..(buf + len - 1) ELSE {})
  /\ started' = << >> /\ answer' = NoAnswer
  /\ UNCHANGED << inputs, image, files, space, running, esp, halted >>

----------------------------------------------------------------------------
CallsNext ==
  \/ \E stack \in StackPages, junk \in Junk : init_process_start(stack, junk)
  \/ \E path \in Paths, argv \in Argvs, room \in Rooms,
        stack \in StackPages, junk \in Junk : sys_exec(path, argv, room, stack, junk)
  \/ \E path \in Paths, access \in AccessArgs : sys_open(path, access)
  \/ \E fd \in FdArgs, buffer \in Buffers, count \in Counts :
        sys_read(fd, buffer, count) \/ sys_write(fd, buffer, count)
  \/ \E fd \in FdArgs : sys_close(fd)

CallsSpec == CallsInit /\ [][CallsNext]_vars

----------------------------------------------------------------------------
(* Properties.                                                             *)

CallsTypeOK ==
  /\ inputs \in Packings
  /\ image.size \in 0..mkfs(inputs).size
  /\ files \in [Fds -> [used : BOOLEAN, entry : 0..Len(inputs), position : Nat, access : {0, READ, WRITE, READ_WRITE}]]
  /\ \A fd \in Fds : files[fd].used => files[fd].position <= fs_file_size(image, files[fd].entry)
  /\ space \in [user : SUBSET (0..(PageOf(UserEnd) - 1)), cell : [Addresses -> Nat]]
  /\ running \in 0..Len(inputs) /\ esp \in 0..UserEnd
  /\ started \in {<< >>} \union {<< a >> : a \in Argvs}
  /\ strayed \in BOOLEAN /\ halted \in BOOLEAN

\* The files as they were packed; the first of two with one name counts.
Packed ==
  [n \in {inputs[i].name : i \in DOMAIN inputs} |->
     inputs[SelectInSeq(inputs, LAMBDA f : f.name = n)].bytes]

\* What descriptor fd has left to deliver.
Stream(fd) ==
  IF ~files[fd].used THEN [open |-> FALSE, readable |-> FALSE, rest |-> << >>]
  ELSE [open     |-> TRUE,
        readable |-> files[fd].access \in {READ, READ_WRITE},
        rest     |-> LET b == inputs[files[fd].entry].bytes IN SubSeq(b, files[fd].position + 1, Len(b))]

Streams == INSTANCE OpenFiles WITH
  contents <- Packed,
  stream <- [fd \in Fds |-> Stream(fd)]

\* Whatever order the threads of a process open, read and close in, through
\* mkfs, fs_mount, fs_find, file_read and the descriptor table: every packed
\* file can be opened while a descriptor is free, and successive reads deliver
\* its packed bytes in order, each once, to whoever shares the descriptor.  A
\* file that was cut off halts the kernel at the first read but never delivers
\* anything else.
ImplementsOpenFiles == Streams!Spec

\* The kernel reads and writes only user pages on behalf of a call, with
\* whatever pointer, length and argument vector it was called.
PointersChecked == ~strayed

\* The pages of a segment, from the start of its first one.
SegmentPages(ph) == {PageOf(a) : a \in PageBase(ph.vaddr)..(ph.vaddr + ph.memsz - 1)}

\* A segment that shares no page with another.
Alone(phs, i) ==
  /\ phs[i].load
  /\ \A j \in DOMAIN phs : j # i /\ phs[j].load => SegmentPages(phs[i]) \intersect SegmentPages(phs[j]) = {}

\* Segment ph of the file b is in memory: each byte is the one the file has for
\* that address, or zero beyond the file's part.
Arrived(s, b, ph) ==
  \A k \in 0..(ph.memsz - 1) :
    /\ PageOf(ph.vaddr + k) \in s.user
    /\ s.cell[ph.vaddr + k] = IF k < ph.filesz THEN b[ph.offset + k + 1] ELSE 0

\* When exec has started a program, its segments that start on a page boundary
\* are in its memory as they are in its packed file: what mkfs packed on the build
\* machine arrives in the right place, and the arguments on the stack touch none
\* of it.
ProgramLoaded ==
  started # << >> =>
    LET b == inputs[running].bytes
        phs == Headers(b) IN
    \A i \in DOMAIN phs : Alone(phs, i) /\ phs[i].vaddr % PageSize = 0 => Arrived(space, b, phs[i])

\* The arguments of the old program, found from the argv it passed to exec and
\* the argc the new one finds at ESP.
OldArguments ==
  [i \in 1..space'.cell[esp'] |-> StringAt(space, PointerAt(space, started'[1], i - 1))]

\* The program that exec has started has the old program's arguments: ESP is
\* aligned, argc is there, and argv, NULL terminated, is at the given address and
\* leads to equal strings, further up in the stack page.
DeliveredAt(argv) ==
  LET old == started'[1]
      argc == space'.cell[esp']
      New(i) == PointerAt(space', argv, i) IN
  /\ esp' % StackAlign = 0
  /\ PointerAt(space, old, argc) = NULL /\ New(argc) = NULL
  /\ \A i \in 0..(argc - 1) :
       /\ PointerAt(space, old, i) # NULL
       /\ New(i) >= argv + (argc + 1) * WordSize
       /\ New(i) + Length(space', New(i)) < PageBase(esp') + PageSize
       /\ StringAt(space', New(i)) = OldArguments[i + 1]

\* Where argv is when it and the strings, one behind the other, fill the stack
\* page to its end.
ArgvPlace ==
  LET argc == Len(OldArguments) IN
  PageBase(esp') + PageSize - StringsSize(OldArguments, argc) - (argc + 1) * WordSize

\* Every exec that succeeds copies the arguments it was given, across the two
\* address spaces and the copies in between, and loses or mixes up none: they
\* fill the stack page of the program it starts from the top, and ESP is the
\* last aligned address that leaves room for argc below them.
ArgumentsCopied ==
  [][started' # << >> => DeliveredAt(ArgvPlace) /\ esp' = AlignDown(ArgvPlace - WordSize)]_vars

\* "argc must remain immediately above ESP, so leave the alignment padding below
\* argc" (syscall.c:171-172): the program finds argv right behind argc.
ArgumentsDelivered == [][started' # << >> => DeliveredAt(esp' + WordSize)]_vars
============================================================================
