-------------------------- MODULE MCAddressSpace ---------------------------
(* Two threads of one process, beside a process that only takes frames; an    *)
(* image of one page, and one of two pages in two page tables, the second of  *)
(* which also covers the lowest stack page.                                *)
EXTENDS AddressSpace

CONSTANTS t1, t2, p1, p2

MCThreads == {t1, t2}
MCProcesses == {p1, p2}
MCprocess == [t \in MCThreads |-> p1]
MCImages == {<< 0 >>, << 1, 2 >>}
============================================================================
