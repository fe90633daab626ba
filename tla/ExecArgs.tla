------------------------------ MODULE ExecArgs -----------------------------
(***************************************************************************)
(* The arguments of exec on their way from the memory of the old program,    *)
(* through kernel copies (kernel/kernel/exec.c), to the stack of the new one   *)
(* (exec_build_user_stack in kernel/arch/x86/syscall.c).                    *)
(***************************************************************************)
EXTENDS UserMemory

CONSTANTS
  EXEC_MAX_ARGS,
  EXEC_MAX_ARG_LENGTH,
  StackAlign        \* 16: ESP is rounded down to a multiple of this

ASSUME ExecArgsAssumption ==
  /\ EXEC_MAX_ARGS \in Nat \ {0} /\ EXEC_MAX_ARG_LENGTH \in Nat \ {0}
  /\ StackAlign \in Nat \ {0} /\ PageSize % StackAlign = 0

\* &user_argv[i], and the pointer found there.
PointerAddress(argv, i) == (argv + i * WordSize) % AddressEnd
PointerAt(s, argv, i) == s.cell[PointerAddress(argv, i)]

PointerReadable(s, argv, i) == paging_user_range_valid(s, PointerAddress(argv, i), WordSize)

\* Argument i is there, is short enough and there is heap for its copy.
Copied(s, argv, i, heap) ==
  LET p == PointerAt(s, argv, i) IN
  /\ PointerReadable(s, argv, i) /\ p # NULL
  /\ paging_user_string_valid(s, p)
  /\ Length(s, p) < EXEC_MAX_ARG_LENGTH
  /\ i < heap

\* How many copies are made before the loop ends, for whatever reason.
Copies(s, argv, heap) ==
  Min({i \in 0..EXEC_MAX_ARGS : i = EXEC_MAX_ARGS \/ ~Copied(s, argv, i, heap)})

\* Mutant: the table may be full, without a NULL.
exec_args_copy_from_user_full(s, argv, heap) ==
  LET n == Copies(s, argv, heap) IN
  [ok   |-> argv # NULL /\ (n = EXEC_MAX_ARGS \/ (PointerReadable(s, argv, n) /\ PointerAt(s, argv, n) = NULL)),
   args |-> [i \in 1..n |-> StringAt(s, PointerAt(s, argv, i - 1))]]

\* exec_args_copy_from_user: the arguments, if a NULL ends them in time.  (The
\* copies of a vector that is refused are freed by exec_args_destroy.)
exec_args_copy_from_user(s, argv, heap) ==
  LET n == Copies(s, argv, heap) IN
  [ok   |-> argv # NULL /\ n < EXEC_MAX_ARGS /\ PointerReadable(s, argv, n) /\ PointerAt(s, argv, n) = NULL,
   args |-> [i \in 1..n |-> StringAt(s, PointerAt(s, argv, i - 1))]]

\* The user bytes the copying looks at.
ArgumentCells(s, argv, heap) ==
  LET n == Copies(s, argv, heap)
      pointers == {i \in 0..n : i < EXEC_MAX_ARGS /\ PointerReadable(s, argv, i)} IN
  IF argv = NULL THEN {}
  ELSE UNION {{(PointerAddress(argv, i) + k) % AddressEnd : k \in 0..(WordSize - 1)}
              \union (IF PointerAt(s, argv, i) = NULL THEN {} ELSE Scanned(s, PointerAt(s, argv, i)))
              : i \in pointers}

\* The space the first n arguments take, each with its NUL.
StringsSize(args, n) ==
  LET Add(sum, a) == sum + Len(a) + 1 IN FoldLeft(Add, 0, SubSeq(args, 1, n))

AlignDown(a) == (a \div StackAlign) * StackAlign

\* Where exec_build_user_stack puts things in the page at `low'.
StackStrings(args, low) == low + PageSize - StringsSize(args, Len(args))
StackArgv(args, low) == StackStrings(args, low) - (Len(args) + 1) * WordSize
StackEsp(args, low) == AlignDown(StackArgv(args, low) - WordSize)

\* The word w as WordSize bytes.
WordBytes(w) == [k \in 1..WordSize |-> IF k = 1 THEN w ELSE 0]

\* argv[] without its offset: the addresses of the strings, then NULL.
ArgvBytes(args, low) ==
  FlattenSeq([i \in 1..(Len(args) + 1) |->
    WordBytes(IF i > Len(args) THEN NULL ELSE StackStrings(args, low) + StringsSize(args, i - 1))])

\* exec_build_user_stack: strings, argv[] and argc, in this order, into the
\* page at low.
exec_build_user_stack(s, args, low) ==
  LET strings == FlattenSeq([i \in DOMAIN args |-> args[i] \o << NUL >>])
      s1 == Stored(s, StackStrings(args, low), strings)
      s2 == Stored(s1, StackArgv(args, low), ArgvBytes(args, low))
      s3 == Stored(s2, StackEsp(args, low), WordBytes(Len(args))) IN
  IF WordSize + (Len(args) + 1) * WordSize + StringsSize(args, Len(args)) > PageSize
     \/ StackEsp(args, low) < low
  THEN [ok |-> FALSE, space |-> s, esp |-> 0]
  ELSE [ok |-> TRUE, space |-> s3, esp |-> StackEsp(args, low)]
============================================================================
