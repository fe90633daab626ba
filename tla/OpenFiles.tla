----------------------------- MODULE OpenFiles -----------------------------
(***************************************************************************)
(* What a process may rely on when it opens, reads and closes files: a       *)
(* descriptor is a stream, and a read takes the next bytes off it.  There     *)
(* are no positions, offsets or images here.                               *)
(***************************************************************************)
EXTENDS Integers, Sequences

CONSTANTS
  Fds,        \* the descriptors of a process
  FdArgs,     \* what may be passed as a descriptor
  Counts      \* how many bytes may be asked for

VARIABLES
  contents,   \* the files there are: a function from names to byte sequences
  stream,     \* for each descriptor: closed, or what is left to read
  answer      \* the last call and what it returned

vars == << contents, stream, answer >>

Closed == [open |-> FALSE, readable |-> FALSE, rest |-> << >>]

Init ==
  /\ stream = [fd \in Fds |-> Closed]
  /\ answer = << "none" >>

\* A file that exists can be opened as long as a descriptor is free.
Open(name) ==
  \E fd \in Fds, readable \in BOOLEAN :
    /\ ~stream[fd].open
    /\ stream' = [stream EXCEPT ![fd] = [open |-> TRUE, readable |-> readable, rest |-> contents[name]]]
    /\ answer' = << "open", name, fd >>

\* It is refused otherwise, whatever the name asked for.
OpenFails ==
  /\ Len(answer') = 3 /\ answer'[1] = "open" /\ answer'[3] = -1
  /\ answer'[2] \in DOMAIN contents => \A fd \in Fds : stream[fd].open
  /\ UNCHANGED stream

\* A read delivers as many bytes as were asked for, or all that are left.
Read(fd, n) ==
  LET s == stream[fd].rest
      k == IF n <= Len(s) THEN n ELSE Len(s) IN
  /\ fd \in Fds /\ stream[fd].open /\ stream[fd].readable
  /\ stream' = [stream EXCEPT ![fd].rest = SubSeq(s, k + 1, Len(s))]
  /\ answer' = << "read", fd, k, SubSeq(s, 1, k) >>

ReadFails(fd) ==
  /\ fd \notin Fds \/ ~stream[fd].open \/ ~stream[fd].readable
  /\ answer' = << "read", fd, -1 >>
  /\ UNCHANGED stream

Close(fd) ==
  /\ fd \in Fds /\ stream[fd].open
  /\ stream' = [stream EXCEPT ![fd] = Closed]
  /\ answer' = << "close", fd, 0 >>

CloseFails(fd) ==
  /\ fd \notin Fds \/ ~stream[fd].open
  /\ answer' = << "close", fd, -1 >>
  /\ UNCHANGED stream

\* A call about something else, or with arguments that make no sense.
Other == answer' = << "none" >> /\ UNCHANGED stream

Next ==
  /\ \/ \E name \in DOMAIN contents : Open(name)
     \/ OpenFails
     \/ \E fd \in FdArgs : ReadFails(fd) \/ Close(fd) \/ CloseFails(fd)
     \/ \E fd \in FdArgs, n \in Counts : Read(fd, n)
     \/ Other
  /\ UNCHANGED contents

Spec == Init /\ [][Next]_vars
============================================================================
