--------------------------- MODULE MCKernelSpace ---------------------------
(* Tables of four entries, stacks of two pages: idle and one thread share the *)
(* first stack table, the next thread needs another, and so does the heap     *)
(* after four pages.  The runs are a page, two, and one that fits nowhere in   *)
(* the direct map.                                                          *)
EXTENDS KernelSpace

CONSTANTS t1, t2, p1, p2

MCThreads == {t1, t2}
MCProcesses == {p1, p2}
MCprocess == (t1 :> p1) @@ (t2 :> p2)
MCImagePages == 2..9
MCRunLengths == {1, 2, 15}
MCReservedCounts == {9, 12, 14}
============================================================================
