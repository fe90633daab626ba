--------------------------- MODULE MCSystemCalls ---------------------------
(* Memory of eight pages of eight bytes: 0 is never mapped, programs are linked *)
(* at 1 and up, 5 is the stack region, 6 and 7 are the kernel.  Of the names 60  *)
(* is init, 61 a program of two segments, 59 a file that is no program (its     *)
(* header asks for more program headers than it has), or nothing.             *)
EXTENDS SystemCalls, TLC

MCInitName == << 60 >>

\* Files start with the keys of their headers.
MCElfHeaders ==
  100 :> [proper |-> TRUE, phentsize |-> 1, phoff |-> 1, phnum |-> 1] @@
  101 :> [proper |-> TRUE, phentsize |-> 1, phoff |-> 1, phnum |-> 3] @@
  102 :> [proper |-> TRUE, phentsize |-> 1, phoff |-> 1, phnum |-> 9]

MCProgramHeaders ==
  110 :> [load |-> TRUE,  offset |-> 2, vaddr |-> 16, filesz |-> 8,  memsz |-> 8] @@
  112 :> [load |-> FALSE, offset |-> 0, vaddr |-> 0,  filesz |-> 0,  memsz |-> 0] @@
  113 :> [load |-> TRUE,  offset |-> 1, vaddr |-> 8,  filesz |-> 10, memsz |-> 14] @@
  114 :> [load |-> TRUE,  offset |-> 2, vaddr |-> 26, filesz |-> 4,  memsz |-> 6]

\* init has at 16 and 18 the strings `path' and 59, at 20 the vector of both, at
\* 23 a byte that no NUL follows in its page.
init(path) == [name |-> << 60 >>, bytes |-> << 100, 110, path, 0, 59, 0, 16, 18, 0, 62 >>]
\* Read to 19, the bytes of data make a vector without an end.
data == [name |-> << 59 >>, bytes |-> << 102, 17, 17, 17, 62 >>]
hello == [name |-> << 61 >>, bytes |-> << 101, 112, 113, 114, 81, 82, 83, 84, 85, 86, 87 >>]

MCPackings == {<< init(60), data >>, << init(61), hello >>}
============================================================================
