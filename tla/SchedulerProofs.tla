-------------------------- MODULE SchedulerProofs --------------------------
(***************************************************************************)
(* Theorems about the scheduler for every set of threads, every process    *)
(* layout and every quantum, and lemmas about its sections and about the   *)
(* wait queues for the proofs of its clients.                              *)
(***************************************************************************)
EXTENDS WaitQueue, SequenceTheorems, FiniteSetTheorems, TLAPS

----------------------------------------------------------------------------
(* The sequences the scheduler builds.                                     *)

\* RemoveAt closes the gap and keeps the order.
LEMMA RemoveAtProperties ==
  ASSUME NEW S, NEW s \in Seq(S), NEW i \in 1..Len(s)
  PROVE  /\ RemoveAt(s, i) \in Seq(S)
         /\ Len(RemoveAt(s, i)) = Len(s) - 1
         /\ \A j \in 1..(Len(s) - 1) :
              RemoveAt(s, i)[j] = IF j < i THEN s[j] ELSE s[j + 1]
PROOF
  <1> DEFINE a == SubSeq(s, 1, i - 1)  b == SubSeq(s, i + 1, Len(s))
  <1>1. Len(s) \in Nat /\ i \in Nat /\ 1 <= i /\ i <= Len(s)
    BY LenProperties
  <1>2. /\ a \in Seq(S) /\ Len(a) = i - 1
        /\ \A j \in 1..(i - 1) : a[j] = s[j]
    BY <1>1, SubSeqProperties, ElementOfSeq
  <1>3. /\ b \in Seq(S) /\ Len(b) = Len(s) - i
        /\ \A j \in 1..(Len(s) - i) : b[j] = s[i + j]
    BY <1>1, SubSeqProperties, ElementOfSeq
  <1>4. RemoveAt(s, i) = a \o b
    BY DEF RemoveAt
  <1> HIDE DEF a, b
  <1>5. /\ a \o b \in Seq(S) /\ Len(a \o b) = Len(a) + Len(b)
        /\ \A j \in 1..(Len(a) + Len(b)) : (a \o b)[j] = IF j <= Len(a) THEN a[j] ELSE b[j - Len(a)]
    BY <1>2, <1>3, ConcatProperties
  <1>6. ASSUME NEW j \in 1..(Len(s) - 1)
        PROVE  (a \o b)[j] = IF j < i THEN s[j] ELSE s[j + 1]
    <2>1. (a \o b)[j] = IF j <= i - 1 THEN a[j] ELSE b[j - (i - 1)]
      BY <1>1, <1>2, <1>3, <1>5
    <2>2. CASE j < i
      BY <2>1, <2>2, <1>1, <1>2
    <2>3. CASE ~(j < i)
      <3>1. j - (i - 1) \in 1..(Len(s) - i) /\ i + (j - (i - 1)) = j + 1
        BY <2>3, <1>1
      <3>2. b[j - (i - 1)] = s[j + 1]
        BY <3>1, <1>3
      <3>3. ~(j <= i - 1)
        BY <2>3, <1>1
      <3> QED BY <2>1, <2>3, <3>2, <3>3
    <2> QED BY <2>2, <2>3
  <1>7. Len(a \o b) = Len(s) - 1
    BY <1>1, <1>2, <1>3, <1>5
  <1> QED BY <1>4, <1>5, <1>6, <1>7

\* The position of a linked thread is a position of it.
LEMMA PosProperties ==
  ASSUME NEW s, NEW t, Linked(s, t)
  PROVE  Pos(s, t) \in 1..Len(s) /\ s[Pos(s, t)] = t
PROOF
  BY DEF Linked, Pos

\* In a list without repetitions the position of a thread is the only one.
LEMMA PosUnique ==
  ASSUME NEW S, NEW s \in Seq(S), IsInjective(s), NEW i \in 1..Len(s)
  PROVE  Linked(s, s[i]) /\ Pos(s, s[i]) = i
PROOF
  <1>1. Linked(s, s[i])
    BY DEF Linked
  <1>2. Pos(s, s[i]) \in 1..Len(s) /\ s[Pos(s, s[i])] = s[i]
    BY <1>1, PosProperties
  <1> QED BY <1>1, <1>2, LenProperties DEF IsInjective

\* scheduler_remove takes out exactly the given thread.
LEMMA RemoveProperties ==
  ASSUME NEW S, NEW s \in Seq(S), IsInjective(s), NEW t
  PROVE  /\ scheduler_remove(s, t) \in Seq(S)
         /\ IsInjective(scheduler_remove(s, t))
         /\ \A u : Linked(scheduler_remove(s, t), u) <=> Linked(s, u) /\ u # t
PROOF
  <1>1. CASE ~Linked(s, t)
    BY <1>1 DEF scheduler_remove
  <1>2. CASE Linked(s, t)
    <2> DEFINE p == Pos(s, t)  r == RemoveAt(s, p)
    <2>1. p \in 1..Len(s) /\ s[p] = t /\ Len(s) \in Nat
      BY <1>2, PosProperties, LenProperties
    <2> HIDE DEF p
    <2>2. /\ r \in Seq(S) /\ Len(r) = Len(s) - 1
          /\ \A j \in 1..(Len(s) - 1) : r[j] = IF j < p THEN s[j] ELSE s[j + 1]
      BY <2>1, RemoveAtProperties
    <2>3. scheduler_remove(s, t) = r
      BY <1>2 DEF scheduler_remove, p
    <2> HIDE DEF r
    <2>4. \A i, j \in 1..Len(s) : s[i] = s[j] => i = j
      BY LenProperties DEF IsInjective
    <2>5. IsInjective(r)
      <3>1. DOMAIN r = 1..(Len(s) - 1)
        BY <2>2, LenProperties
      <3>2. SUFFICES ASSUME NEW i \in 1..(Len(s) - 1), NEW j \in 1..(Len(s) - 1), r[i] = r[j]
                     PROVE  i = j
        BY <3>1 DEF IsInjective
      <3>3. i \in 1..Len(s) /\ i + 1 \in 1..Len(s) /\ j \in 1..Len(s) /\ j + 1 \in 1..Len(s)
        BY <2>1
      <3> QED BY <2>1, <2>2, <2>4, <3>2, <3>3
    <2>6. ASSUME NEW u, Linked(r, u) PROVE Linked(s, u) /\ u # t
      <3>1. PICK j \in 1..(Len(s) - 1) : r[j] = u
        BY <2>6, <2>2 DEF Linked
      <3>2. j \in 1..Len(s) /\ j + 1 \in 1..Len(s)
        BY <2>1
      <3> QED BY <3>1, <3>2, <2>1, <2>2, <2>4 DEF Linked
    <2>7. ASSUME NEW u, Linked(s, u), u # t PROVE Linked(r, u)
      <3>1. PICK i \in 1..Len(s) : s[i] = u
        BY <2>7 DEF Linked
      <3>2. i # p
        BY <3>1, <2>1, <2>7
      <3>3. CASE i < p
        <4>1. i \in 1..(Len(s) - 1) /\ r[i] = u
          BY <3>1, <3>3, <2>1, <2>2
        <4> QED BY <4>1, <2>2 DEF Linked
      <3>4. CASE i > p
        <4>1. i - 1 \in 1..(Len(s) - 1) /\ ~(i - 1 < p) /\ (i - 1) + 1 = i
          BY <3>4, <2>1
        <4>2. r[i - 1] = u
          BY <3>1, <4>1, <2>2
        <4> QED BY <4>1, <4>2, <2>2 DEF Linked
      <3> QED BY <3>2, <3>3, <3>4, <2>1
    <2> QED BY <2>2, <2>3, <2>5, <2>6, <2>7
  <1> QED BY <1>1, <1>2

\* Concatenating two disjoint lists without repetitions yields another.
LEMMA ConcatDisjoint ==
  ASSUME NEW S, NEW a \in Seq(S), NEW b \in Seq(S), IsInjective(a), IsInjective(b),
         \A u : ~(Linked(a, u) /\ Linked(b, u))
  PROVE  /\ a \o b \in Seq(S)
         /\ IsInjective(a \o b)
         /\ \A u : Linked(a \o b, u) <=> Linked(a, u) \/ Linked(b, u)
PROOF
  <1> DEFINE c == a \o b
  <1>1. Len(a) \in Nat /\ Len(b) \in Nat /\ DOMAIN a = 1..Len(a) /\ DOMAIN b = 1..Len(b)
    BY LenProperties
  <1>2. /\ c \in Seq(S) /\ Len(c) = Len(a) + Len(b)
        /\ \A i \in 1..(Len(a) + Len(b)) : c[i] = IF i <= Len(a) THEN a[i] ELSE b[i - Len(a)]
    BY ConcatProperties
  <1>3. DOMAIN c = 1..(Len(a) + Len(b))
    BY <1>2, LenProperties
  <1> HIDE DEF c
  <1>4. IsInjective(c)
    <2>1. SUFFICES ASSUME NEW i \in 1..(Len(a) + Len(b)), NEW j \in 1..(Len(a) + Len(b)), c[i] = c[j]
                   PROVE  i = j
      BY <1>3 DEF IsInjective
    <2>2. CASE i <= Len(a) /\ j <= Len(a)
      BY <2>1, <2>2, <1>1, <1>2 DEF IsInjective
    <2>3. CASE i > Len(a) /\ j > Len(a)
      <3>1. i - Len(a) \in 1..Len(b) /\ j - Len(a) \in 1..Len(b)
        BY <2>3, <1>1
      <3>2. b[i - Len(a)] = b[j - Len(a)]
        BY <2>1, <2>3, <1>1, <1>2
      <3>3. i - Len(a) = j - Len(a)
        BY <3>1, <3>2, <1>1 DEF IsInjective
      <3> QED BY <3>3, <1>1
    <2>4. CASE i <= Len(a) /\ j > Len(a)
      <3>1. i \in 1..Len(a) /\ j - Len(a) \in 1..Len(b) /\ a[i] = b[j - Len(a)]
        BY <2>1, <2>4, <1>1, <1>2
      <3> QED BY <3>1 DEF Linked
    <2>5. CASE i > Len(a) /\ j <= Len(a)
      <3>1. j \in 1..Len(a) /\ i - Len(a) \in 1..Len(b) /\ a[j] = b[i - Len(a)]
        BY <2>1, <2>5, <1>1, <1>2
      <3> QED BY <3>1 DEF Linked
    <2> QED BY <2>2, <2>3, <2>4, <2>5, <1>1
  <1>5. ASSUME NEW u, Linked(c, u) PROVE Linked(a, u) \/ Linked(b, u)
    <2>1. PICK i \in 1..(Len(a) + Len(b)) : c[i] = u
      BY <1>5, <1>2 DEF Linked
    <2>2. CASE i <= Len(a)
      BY <2>1, <2>2, <1>1, <1>2 DEF Linked
    <2>3. CASE i > Len(a)
      <3>1. i - Len(a) \in 1..Len(b) /\ b[i - Len(a)] = u
        BY <2>1, <2>3, <1>1, <1>2
      <3> QED BY <3>1 DEF Linked
    <2> QED BY <2>2, <2>3, <1>1
  <1>6. ASSUME NEW u, Linked(a, u) PROVE Linked(c, u)
    <2>1. PICK i \in 1..Len(a) : a[i] = u
      BY <1>6 DEF Linked
    <2>2. i \in 1..(Len(a) + Len(b)) /\ c[i] = u
      BY <2>1, <1>1, <1>2
    <2> QED BY <2>2, <1>2 DEF Linked
  <1>7. ASSUME NEW u, Linked(b, u) PROVE Linked(c, u)
    <2>1. PICK i \in 1..Len(b) : b[i] = u
      BY <1>7 DEF Linked
    <2>2. /\ i + Len(a) \in 1..(Len(a) + Len(b)) /\ ~(i + Len(a) <= Len(a))
          /\ (i + Len(a)) - Len(a) = i
      BY <1>1
    <2>3. c[i + Len(a)] = u
      BY <2>1, <2>2, <1>2
    <2> QED BY <2>2, <2>3, <1>2 DEF Linked
  <1> QED BY <1>2, <1>4, <1>5, <1>6, <1>7 DEF c

\* A sequence of woken threads is a list of distinct blocked threads.
LEMMA WakeOrderProperties ==
  ASSUME NEW ws \in WakeOrders
  PROVE  /\ ws \in Seq(Threads)
         /\ IsInjective(ws)
         /\ \A u : Linked(ws, u) => u \in Threads /\ state[u] = "BLOCKED"
PROOF
  <1> DEFINE B == {t \in Threads : state[t] = "BLOCKED"}
  <1>1. PICK n \in 0..Cardinality(Threads) : ws \in [1..n -> B] /\ IsInjective(ws)
    BY DEF WakeOrders
  <1>2. n \in Nat
    OBVIOUS
  <1>3. ws \in Seq(B)
    BY <1>1, <1>2
  <1>4. ws \in Seq(Threads)
    BY <1>3, SeqMonotonic
  <1>5. ASSUME NEW u, Linked(ws, u) PROVE u \in B
    BY <1>3, <1>5, ElementOfSeq DEF Linked
  <1> QED BY <1>1, <1>4, <1>5

\* scheduler_next selects idle or a thread of the list.
LEMMA NextProperties ==
  ASSUME NEW rl \in Seq(Threads)
  PROVE  IF rl = << >> THEN scheduler_next(rl) = idle
                       ELSE scheduler_next(rl) \in Threads /\ Linked(rl, scheduler_next(rl))
PROOF
  <1>1. CASE rl = << >>
    BY <1>1 DEF scheduler_next
  <1>2. CASE rl # << >>
    <2>1. Len(rl) \in Nat /\ 1 \in 1..Len(rl)
      BY <1>2, EmptySeq
    <2>2. \E k \in 1..Len(rl) : scheduler_next(rl) = rl[k]
      <3>1. CASE ~Linked(rl, current)
        BY <1>2, <2>1, <3>1 DEF scheduler_next
      <3>2. CASE Linked(rl, current)
        <4> DEFINE i == Pos(rl, current)
        <4>1. i \in 1..Len(rl)
          BY <3>2, PosProperties
        <4>2. scheduler_next(rl) = IF i = Len(rl) THEN rl[1] ELSE rl[i + 1]
          BY <1>2, <3>2 DEF scheduler_next
        <4> HIDE DEF i
        <4>3. i # Len(rl) => i + 1 \in 1..Len(rl)
          BY <4>1, <2>1
        <4> QED BY <4>2, <4>3, <2>1
      <3> QED BY <3>1, <3>2
    <2> QED BY <1>2, <2>2, ElementOfSeq DEF Linked
  <1> QED BY <1>1, <1>2

----------------------------------------------------------------------------
(* The inductive invariant.                                                *)

\* idle is RUNNING whether or not it runs: scheduler_next() never demotes it.
\* Without this the switch from idle to a thread could not be shown to keep
\* idle out of the threads that are demoted.
IdleRunning == state[idle] = "RUNNING"

SchedInv == SchedTypeOK /\ ReadyListSound /\ OneRunning /\ ContextLoaded /\ IdleRunning

\* What a section must have established when it calls scheduler_switch with the
\* ready list rl and the thread states st: the list is sound, and the current
\* thread is in it exactly when it is still RUNNING.
SwitchReady(rl, st) ==
  /\ rl \in Seq(Threads) /\ IsInjective(rl)
  /\ st \in [AllThreads -> ThreadState] /\ st[idle] = "RUNNING"
  /\ \A u : Linked(rl, u) => st[u] \in {"READY", "RUNNING"}
  /\ \A u \in Threads : st[u] = "RUNNING" => u = current
  /\ current # idle => (Linked(rl, current) <=> st[current] = "RUNNING")

\* scheduler_switch leaves the scheduler in a state of the invariant.
LEMMA SwitchPreserves ==
  ASSUME SchedInv, NEW rl, NEW st, SwitchReady(rl, st), scheduler_switch(rl, st),
         iflag' \in [AllThreads -> BOOLEAN]
  PROVE  SchedInv'
PROOF
  <1> DEFINE n == scheduler_next(rl)  dm == demote(rl, st)
  <1>1. /\ ready_list' = rl /\ current' = n /\ state' = [dm EXCEPT ![n] = "RUNNING"]
        /\ quantum_remaining' = QUANTUM
        /\ tss_esp0' = IF n = current THEN tss_esp0 ELSE n
        /\ cr3' = IF n \in {current, idle} THEN cr3 ELSE process[n]
    BY DEF scheduler_switch, tss_set_kernel_stack, paging_load_directory
  <1>2. rl \in Seq(Threads) /\ IsInjective(rl)
    BY DEF SwitchReady
  <1>3. IF rl = << >> THEN n = idle ELSE n \in Threads /\ Linked(rl, n)
    BY <1>2, NextProperties
  <1>4. dm = IF rl # << >> /\ st[current] = "RUNNING" /\ current # idle
             THEN [st EXCEPT ![current] = "READY"] ELSE st
    BY DEF demote
  <1> HIDE DEF n, dm
  <1>5. /\ idle \notin Threads /\ current \in AllThreads /\ QUANTUM \in Nat \ {0}
        /\ n \in AllThreads /\ iflag' \in [AllThreads -> BOOLEAN]
    BY <1>3, ThreadsAssumption, QuantumAssumption DEF SchedInv, SchedTypeOK, AllThreads
  <1>6. dm \in [AllThreads -> ThreadState] /\ dm[idle] = "RUNNING"
    BY <1>4, <1>5 DEF SwitchReady, ThreadState
  <1>7. rl = << >> => \A u : ~Linked(rl, u)
    BY EmptySeq DEF Linked
  <1>8. \A u \in Threads : dm[u] # "RUNNING"
    <2> SUFFICES ASSUME NEW u \in Threads, dm[u] = "RUNNING" PROVE FALSE
      OBVIOUS
    <2>1. st[u] = "RUNNING" /\ u = current /\ current # idle
      BY <1>4, <1>5 DEF SwitchReady, AllThreads
    <2>2. rl # << >>
      BY <2>1, <1>7 DEF SwitchReady
    <2> QED BY <2>1, <2>2, <1>4, <1>5 DEF SwitchReady
  <1>9. \A u : Linked(rl, u) => u \in Threads /\ dm[u] \in {"READY", "RUNNING"}
    BY <1>2, <1>4, <1>5, ElementOfSeq DEF SwitchReady, Linked
  <1>10. /\ state' \in [AllThreads -> ThreadState]
         /\ \A u \in AllThreads : state'[u] = IF u = n THEN "RUNNING" ELSE dm[u]
    BY <1>1, <1>5, <1>6 DEF ThreadState
  <1>11. SchedTypeOK'
    BY <1>1, <1>2, <1>3, <1>5, <1>10, ProcessAssumption DEF SchedTypeOK, SchedInv, AllThreads
  <1>12. ReadyListSound'
    BY <1>1, <1>2, <1>9, <1>10 DEF ReadyListSound, Linked, AllThreads
  <1>13. OneRunning'
    BY <1>1, <1>3, <1>5, <1>8, <1>10 DEF OneRunning, AllThreads
  <1>14. ContextLoaded'
    BY <1>1, <1>5 DEF ContextLoaded, SchedInv
  <1>15. IdleRunning'
    BY <1>5, <1>6, <1>10 DEF IdleRunning, AllThreads
  <1> QED BY <1>11, <1>12, <1>13, <1>14, <1>15 DEF SchedInv

\* Waking threads keeps the list sound: they were BLOCKED, hence not in it.
LEMMA WakeSound ==
  ASSUME SchedInv, NEW ws \in WakeOrders
  PROVE  /\ ready_list \o ws \in Seq(Threads) /\ IsInjective(ready_list \o ws)
         /\ \A u : Linked(ready_list \o ws, u) <=> Linked(ready_list, u) \/ Linked(ws, u)
         /\ Woken(ws) \in [AllThreads -> ThreadState]
         /\ \A u \in AllThreads : Woken(ws)[u] = IF Linked(ws, u) THEN "READY" ELSE state[u]
         /\ \A u : Linked(ws, u) => u \in Threads /\ u # current /\ ~Linked(ready_list, u)
         /\ \A u : Linked(ready_list, u) => u \in Threads /\ state[u] \in {"READY", "RUNNING"}
PROOF
  <1>1. ws \in Seq(Threads) /\ IsInjective(ws) /\ \A u : Linked(ws, u) => u \in Threads /\ state[u] = "BLOCKED"
    BY WakeOrderProperties
  <1>2. ready_list \in Seq(Threads) /\ IsInjective(ready_list) /\ state \in [AllThreads -> ThreadState]
    BY DEF SchedInv, SchedTypeOK, ReadyListSound
  <1>3. \A u : Linked(ready_list, u) => u \in Threads /\ state[u] \in {"READY", "RUNNING"}
    BY <1>2, ElementOfSeq DEF SchedInv, ReadyListSound, Linked
  <1>4. \A u : ~(Linked(ready_list, u) /\ Linked(ws, u))
    BY <1>1, <1>3
  <1>5. \A u : Linked(ws, u) => u # current
    BY <1>1 DEF SchedInv, OneRunning
  <1>6. Woken(ws) \in [AllThreads -> ThreadState]
    BY <1>2 DEF Woken, ThreadState
  <1>7. \A u \in AllThreads : Woken(ws)[u] = IF Linked(ws, u) THEN "READY" ELSE state[u]
    BY DEF Woken
  <1>8. /\ ready_list \o ws \in Seq(Threads) /\ IsInjective(ready_list \o ws)
        /\ \A u : Linked(ready_list \o ws, u) <=> Linked(ready_list, u) \/ Linked(ws, u)
    BY <1>1, <1>2, <1>4, ConcatDisjoint
  <1> QED BY <1>1, <1>3, <1>4, <1>5, <1>6, <1>7, <1>8

\* The sections that call scheduler_switch establish its precondition: first
\* thread_yield and scheduler_tick, which change nothing before the call.
LEMMA YieldReady == SchedInv => SwitchReady(ready_list, state)
PROOF
  BY ElementOfSeq DEF SchedInv, SchedTypeOK, ReadyListSound, OneRunning, IdleRunning, SwitchReady, Linked

\* wait_queue_sleep and thread_block: the current thread has left the list.
LEMMA BlockReady ==
  ASSUME SchedInv, current # idle, NEW ws \in WakeOrders
  PROVE  SwitchReady(scheduler_remove(ready_list \o ws, current), [Woken(ws) EXCEPT ![current] = "BLOCKED"])
PROOF
  <1> DEFINE rl == scheduler_remove(ready_list \o ws, current)
             st == [Woken(ws) EXCEPT ![current] = "BLOCKED"]
  <1>1. /\ rl \in Seq(Threads) /\ IsInjective(rl)
        /\ \A u : Linked(rl, u) <=> Linked(ready_list \o ws, u) /\ u # current
    BY WakeSound, RemoveProperties
  <1>2. current \in Threads /\ idle \notin Threads /\ idle \in AllThreads /\ current \in AllThreads
    BY ThreadsAssumption DEF SchedInv, SchedTypeOK, AllThreads
  <1>3. /\ st \in [AllThreads -> ThreadState]
        /\ \A u \in AllThreads : st[u] = IF u = current THEN "BLOCKED"
                                       ELSE IF Linked(ws, u) THEN "READY" ELSE state[u]
    BY <1>2, WakeSound DEF ThreadState
  <1> HIDE DEF rl, st
  <1>4. st[idle] = "RUNNING"
    BY <1>2, <1>3, WakeSound DEF SchedInv, IdleRunning
  <1>5. \A u : Linked(rl, u) => st[u] \in {"READY", "RUNNING"}
    BY <1>1, <1>2, <1>3, WakeSound DEF AllThreads
  <1>6. \A u \in Threads : st[u] = "RUNNING" => u = current
    BY <1>2, <1>3 DEF SchedInv, OneRunning, AllThreads
  <1>7. ~Linked(rl, current) /\ st[current] # "RUNNING"
    BY <1>1, <1>2, <1>3
  <1>8. SwitchReady(rl, st)
    BY <1>1, <1>3, <1>4, <1>5, <1>6, <1>7 DEF SwitchReady
  <1> QED BY <1>8 DEF rl, st

\* thread_kill_current: likewise, and the joiners are woken after the removal.
LEMMA KillReady ==
  ASSUME SchedInv, current # idle, NEW ws \in WakeOrders
  PROVE  SwitchReady(scheduler_remove(ready_list, current) \o ws, [Woken(ws) EXCEPT ![current] = "TERMINATED"])
PROOF
  <1> DEFINE r == scheduler_remove(ready_list, current)
             rl == r \o ws
             st == [Woken(ws) EXCEPT ![current] = "TERMINATED"]
  <1>1. /\ r \in Seq(Threads) /\ IsInjective(r)
        /\ \A u : Linked(r, u) <=> Linked(ready_list, u) /\ u # current
    BY RemoveProperties DEF SchedInv, SchedTypeOK, ReadyListSound
  <1>2. current \in Threads /\ idle \notin Threads /\ idle \in AllThreads /\ current \in AllThreads
    BY ThreadsAssumption DEF SchedInv, SchedTypeOK, AllThreads
  <1>3. ws \in Seq(Threads) /\ IsInjective(ws)
    BY WakeOrderProperties
  <1>4. \A u : Linked(ws, u) => u \in Threads /\ u # current /\ ~Linked(ready_list, u)
    BY WakeSound
  <1> HIDE DEF r
  <1>5. /\ rl \in Seq(Threads) /\ IsInjective(rl)
        /\ \A u : Linked(rl, u) <=> Linked(r, u) \/ Linked(ws, u)
    <2>1. \A u : ~(Linked(r, u) /\ Linked(ws, u))
      BY <1>1, <1>4
    <2> QED BY <1>1, <1>3, <2>1, ConcatDisjoint
  <1>6. /\ st \in [AllThreads -> ThreadState]
        /\ \A u \in AllThreads : st[u] = IF u = current THEN "TERMINATED"
                                       ELSE IF Linked(ws, u) THEN "READY" ELSE state[u]
    BY <1>2, WakeSound DEF ThreadState
  <1> HIDE DEF rl, st
  <1>7. st[idle] = "RUNNING"
    BY <1>2, <1>4, <1>6 DEF SchedInv, IdleRunning
  <1>8. \A u : Linked(rl, u) => st[u] \in {"READY", "RUNNING"}
    BY <1>1, <1>2, <1>4, <1>5, <1>6, WakeSound DEF AllThreads
  <1>9. \A u \in Threads : st[u] = "RUNNING" => u = current
    BY <1>2, <1>6 DEF SchedInv, OneRunning, AllThreads
  <1>10. ~Linked(rl, current) /\ st[current] # "RUNNING"
    BY <1>1, <1>2, <1>4, <1>5, <1>6
  <1>11. SwitchReady(rl, st)
    BY <1>5, <1>6, <1>7, <1>8, <1>9, <1>10 DEF SwitchReady
  <1> QED BY <1>11 DEF rl, st, r

\* Boot establishes the invariant.
LEMMA InitInv == SchedInit => SchedInv
PROOF
  <1> SUFFICES ASSUME SchedInit PROVE SchedInv
    OBVIOUS
  <1>1. idle \in AllThreads /\ idle \notin Threads /\ QUANTUM \in Nat \ {0}
    BY ThreadsAssumption, QuantumAssumption DEF AllThreads
  <1>2. SchedTypeOK
    BY <1>1, EmptySeq DEF SchedInit, SchedTypeOK, ThreadState
  <1>3. ReadyListSound
    BY EmptySeq DEF SchedInit, ReadyListSound, IsInjective
  <1>4. OneRunning
    BY <1>1 DEF SchedInit, OneRunning, AllThreads
  <1>5. ContextLoaded /\ IdleRunning
    BY <1>1 DEF SchedInit, ContextLoaded, IdleRunning
  <1> QED BY <1>2, <1>3, <1>4, <1>5 DEF SchedInv

\* Every operation of the scheduler preserves the invariant.
LEMMA StepInv == SchedInv /\ [SchedNext]_schedVars => SchedInv'
PROOF
  <1> SUFFICES ASSUME SchedInv, [SchedNext]_schedVars PROVE SchedInv'
    OBVIOUS
  <1> USE DEF SchedInv
  <1>0. /\ idle \in AllThreads /\ idle \notin Threads /\ QUANTUM \in Nat \ {0}
        /\ current \in AllThreads /\ Threads \subseteq AllThreads
    BY ThreadsAssumption, QuantumAssumption DEF AllThreads, SchedTypeOK
  <1>1. CASE scheduler_enter_idle \/ interrupt_save \/ interrupt_restore
    BY <1>0, <1>1 DEF scheduler_enter_idle, interrupt_save, interrupt_restore, SchedTypeOK, ReadyListSound,
       OneRunning, ContextLoaded, IdleRunning, Linked
  <1>2. ASSUME NEW t \in Threads, thread_create(t) PROVE SchedInv'
    <2>1. /\ state' \in [AllThreads -> ThreadState]
          /\ \A u \in AllThreads : state'[u] = IF u = t THEN "READY" ELSE state[u]
      BY <1>0, <1>2 DEF thread_create, SchedTypeOK, ThreadState
    <2>2. \A i \in 1..Len(ready_list) : ready_list[i] \in AllThreads
      BY <1>0, ElementOfSeq DEF SchedTypeOK
    <2> QED BY <1>0, <1>2, <2>1, <2>2 DEF thread_create, SchedTypeOK, ReadyListSound, OneRunning,
               ContextLoaded, IdleRunning, Linked
  <1>3. ASSUME NEW t \in Threads, thread_add(t) PROVE SchedInv'
    <2>1. ready_list' = ready_list \o << t >>
      BY <1>3, AppendIsConcat DEF thread_add, scheduler_add, SchedTypeOK
    <2>2. << t >> \in Seq(Threads) /\ IsInjective(<< t >>) /\ \A u : Linked(<< t >>, u) <=> u = t
      BY <1>3 DEF IsInjective, Linked
    <2>3. /\ ready_list' \in Seq(Threads) /\ IsInjective(ready_list')
          /\ \A u : Linked(ready_list', u) <=> Linked(ready_list, u) \/ u = t
      <3>1. \A u : ~(Linked(ready_list, u) /\ Linked(<< t >>, u))
        BY <1>3, <2>2 DEF thread_add
      <3>2. ready_list \in Seq(Threads) /\ IsInjective(ready_list)
        BY DEF SchedTypeOK, ReadyListSound
      <3> QED BY <2>1, <2>2, <3>1, <3>2, ConcatDisjoint
    <2>4. SchedTypeOK'
      BY <1>3, <2>3 DEF thread_add, SchedTypeOK
    <2>5. ReadyListSound'
      <3>1. \A u : Linked(ready_list', u) => state[u] \in {"READY", "RUNNING"}
        BY <1>3, <2>3 DEF thread_add, ReadyListSound, Linked
      <3> QED BY <1>3, <2>3, <3>1 DEF thread_add, ReadyListSound, Linked
    <2> QED BY <1>3, <2>3, <2>4, <2>5 DEF thread_add, OneRunning, ContextLoaded, IdleRunning
  <1>4. ASSUME NEW ws \in WakeOrders, wake_section(ws) PROVE SchedInv'
    <2>1. ready_list' = ready_list \o ws /\ state' = Woken(ws) /\ UNCHANGED << current, quantum_remaining, cr3, tss_esp0 >>
      BY <1>4 DEF wake_section, thread_unblock
    <2>2. iflag' \in [AllThreads -> BOOLEAN]
      BY <1>0, <1>4 DEF wake_section, thread_unblock, SchedTypeOK
    <2>3. \A u : Linked(ready_list', u) => u \in AllThreads /\ state'[u] \in {"READY", "RUNNING"}
      BY <1>0, <2>1, WakeSound
    <2>4. SchedTypeOK'
      BY <2>1, <2>2, WakeSound DEF SchedTypeOK
    <2>5. ReadyListSound'
      BY <2>1, <2>3, WakeSound DEF ReadyListSound, Linked
    <2>6. OneRunning'
      BY <1>0, <2>1, WakeSound DEF OneRunning
    <2> QED BY <1>0, <2>1, <2>4, <2>5, <2>6, WakeSound DEF ContextLoaded, IdleRunning
  <1>5. CASE thread_yield
    BY <1>5, YieldReady, SwitchPreserves DEF thread_yield, SchedTypeOK
  <1>6. ASSUME NEW ws \in WakeOrders, block_section(ws) PROVE SchedInv'
    <2>1. iflag' \in [AllThreads -> BOOLEAN]
      BY <1>0, <1>6 DEF block_section, SchedTypeOK
    <2> QED BY <1>6, <2>1, BlockReady, SwitchPreserves DEF block_section, thread_block
  <1>7. ASSUME NEW ws \in WakeOrders, thread_kill_current(ws) PROVE SchedInv'
    BY <1>7, KillReady, SwitchPreserves DEF thread_kill_current, SchedTypeOK
  <1>8. CASE scheduler_tick
    <2>1. CASE quantum_remaining - 1 > 0
      <3>1. quantum_remaining' \in 1..QUANTUM
        BY <1>0, <1>8, <2>1 DEF scheduler_tick, SchedTypeOK
      <3> QED BY <1>8, <2>1, <3>1 DEF scheduler_tick, SchedTypeOK, ReadyListSound, OneRunning, ContextLoaded, IdleRunning
    <2>2. CASE ~(quantum_remaining - 1 > 0)
      BY <1>8, <2>2, YieldReady, SwitchPreserves DEF scheduler_tick, SchedTypeOK
    <2> QED BY <2>1, <2>2
  <1>9. CASE UNCHANGED schedVars
    BY <1>9 DEF schedVars, SchedTypeOK, ReadyListSound, OneRunning, ContextLoaded, IdleRunning, Linked
  <1> QED BY <1>1, <1>2, <1>3, <1>4, <1>5, <1>6, <1>7, <1>8, <1>9 DEF SchedNext

\* The invariant holds in every state of every run of the scheduler.
THEOREM SchedInvariance == SchedSafety => []SchedInv
PROOF
  BY InitInv, StepInv, PTL DEF SchedSafety

\* The state of the scheduler keeps its type; the quantum stays within 1..QUANTUM.
THEOREM SchedTypeCorrect == SchedSafety => []SchedTypeOK
PROOF
  <1>1. SchedInv => SchedTypeOK
    BY DEF SchedInv
  <1> QED BY <1>1, SchedInvariance, PTL

\* The ready list never holds a thread twice, nor one that is blocked or dead.
THEOREM ReadyListCorrect == SchedSafety => []ReadyListSound
PROOF
  <1>1. SchedInv => ReadyListSound
    BY DEF SchedInv
  <1> QED BY <1>1, SchedInvariance, PTL

\* Exactly the current thread is running, and it can be found in the list.
THEOREM OneRunningCorrect == SchedSafety => []OneRunning
PROOF
  <1>1. SchedInv => OneRunning
    BY DEF SchedInv
  <1> QED BY <1>1, SchedInvariance, PTL

\* The running thread's address space and kernel stack are the loaded ones.
THEOREM ContextCorrect == SchedSafety => []ContextLoaded
PROOF
  <1>1. SchedInv => ContextLoaded
    BY DEF SchedInv
  <1> QED BY <1>1, SchedInvariance, PTL

----------------------------------------------------------------------------
(* Round robin.                                                            *)

\* Positions after a removal: those beyond the removed thread move up by one.
LEMMA PosAfterRemove ==
  ASSUME NEW S, NEW s \in Seq(S), IsInjective(s), NEW t, NEW u,
         Linked(s, t), Linked(s, u), u # t
  PROVE  Pos(scheduler_remove(s, t), u) =
           IF Pos(s, u) < Pos(s, t) THEN Pos(s, u) ELSE Pos(s, u) - 1
PROOF
  <1> DEFINE p == Pos(s, t)  q == Pos(s, u)  r == scheduler_remove(s, t)
             k == IF q < p THEN q ELSE q - 1
  <1>1. p \in 1..Len(s) /\ s[p] = t /\ q \in 1..Len(s) /\ s[q] = u /\ Len(s) \in Nat
    BY PosProperties, LenProperties
  <1>2. p # q
    BY <1>1
  <1>3. r \in Seq(S) /\ IsInjective(r)
    BY RemoveProperties
  <1>4. /\ Len(r) = Len(s) - 1
        /\ \A j \in 1..(Len(s) - 1) : r[j] = IF j < p THEN s[j] ELSE s[j + 1]
    BY <1>1, RemoveAtProperties DEF scheduler_remove
  <1> HIDE DEF p, q, r
  <1>5. k \in 1..(Len(s) - 1) /\ (IF k < p THEN k ELSE k + 1) = q
    BY <1>1, <1>2
  <1>6. r[k] = u
    BY <1>1, <1>4, <1>5
  <1>7. Pos(r, u) = k
    <2> HIDE DEF k
    <2> QED BY <1>3, <1>4, <1>5, <1>6, PosUnique
  <1> QED BY <1>7 DEF p, q, r

\* Appending to the list moves nobody.
LEMMA PosAfterConcat ==
  ASSUME NEW S, NEW a \in Seq(S), NEW b \in Seq(S), IsInjective(a \o b), NEW u, Linked(a, u)
  PROVE  Linked(a \o b, u) /\ Pos(a \o b, u) = Pos(a, u)
PROOF
  <1> DEFINE q == Pos(a, u)
  <1>1. q \in 1..Len(a) /\ a[q] = u /\ Len(a) \in Nat /\ Len(b) \in Nat
    BY PosProperties, LenProperties
  <1> HIDE DEF q
  <1>2. a \o b \in Seq(S) /\ q \in 1..Len(a \o b) /\ (a \o b)[q] = u
    BY <1>1, ConcatProperties
  <1> QED BY <1>2, PosUnique DEF q

\* Where scheduler_next puts the cursor.
LEMMA CursorAfterSwitch ==
  ASSUME NEW rl \in Seq(Threads), IsInjective(rl), rl # << >>
  PROVE  LET n == scheduler_next(rl) IN
         /\ Linked(rl, n)
         /\ Pos(rl, n) = IF Linked(rl, current) /\ Pos(rl, current) # Len(rl)
                         THEN Pos(rl, current) + 1 ELSE 1
PROOF
  <1>1. Len(rl) \in Nat /\ 1 \in 1..Len(rl)
    BY EmptySeq
  <1>2. CASE Linked(rl, current) /\ Pos(rl, current) # Len(rl)
    <2>1. Pos(rl, current) \in 1..Len(rl)
      BY <1>2, PosProperties
    <2>2. Pos(rl, current) + 1 \in 1..Len(rl)
      BY <1>1, <1>2, <2>1
    <2> QED BY <1>2, <2>2, PosUnique DEF scheduler_next
  <1>3. CASE ~(Linked(rl, current) /\ Pos(rl, current) # Len(rl))
    BY <1>1, <1>3, PosUnique DEF scheduler_next
  <1> QED BY <1>2, <1>3

\* A thread that waits is not the one that runs, before and after the step.
LEMMA WaitingNotCurrent ==
  ASSUME SchedInv, NEW t \in Threads, Waiting(t)
  PROVE  t # current
PROOF
  BY DEF SchedInv, OneRunning, Waiting

\* A switch with the ready list unchanged (thread_yield, scheduler_tick).
LEMMA YieldCloser ==
  ASSUME SchedInv, SchedInv', scheduler_switch(ready_list, state),
         NEW t \in Threads, Waiting(t), Waiting(t)'
  PROVE  /\ Pos(ready_list', t) = Pos(ready_list, t)
         /\ Shorter(Pos(ready_list, t), Cursor, Pos(ready_list', t), Cursor')
PROOF
  <1> DEFINE i == Pos(ready_list, t)
  <1>1. /\ ready_list' = ready_list /\ current' = scheduler_next(ready_list)
        /\ ready_list \in Seq(Threads) /\ IsInjective(ready_list)
    BY DEF scheduler_switch, SchedInv, SchedTypeOK, ReadyListSound
  <1>2. Linked(ready_list, t) /\ i \in 1..Len(ready_list) /\ ready_list[i] = t /\ Len(ready_list) \in Nat
    BY <1>1, PosProperties, LenProperties DEF Waiting
  <1>3. ready_list # << >>
    BY <1>2, EmptySeq
  <1>4. /\ Linked(ready_list, current')
        /\ Pos(ready_list, current') = IF Linked(ready_list, current) /\ Pos(ready_list, current) # Len(ready_list)
                                       THEN Pos(ready_list, current) + 1 ELSE 1
    BY <1>1, <1>3, CursorAfterSwitch
  <1>5. Cursor' = Pos(ready_list, current')
    BY <1>1, <1>4 DEF Cursor
  <1>6. t # current /\ t # current'
    BY WaitingNotCurrent DEF SchedInv, OneRunning, Waiting
  <1>7. Cursor' # i
    BY <1>1, <1>2, <1>4, <1>5, <1>6, PosProperties
  <1>8. CASE Linked(ready_list, current)
    <2> DEFINE c == Pos(ready_list, current)
    <2>1. c \in 1..Len(ready_list) /\ ready_list[c] = current
      BY <1>8, PosProperties
    <2>2. Cursor = c /\ c # i
      BY <1>2, <1>6, <1>8, <2>1 DEF Cursor
    <2>3. Cursor' = IF c # Len(ready_list) THEN c + 1 ELSE 1
      BY <1>4, <1>5, <1>8
    <2> HIDE DEF c, i
    <2>4. Shorter(i, c, i, Cursor')
      BY <1>2, <1>7, <2>1, <2>2, <2>3 DEF Shorter
    <2> QED BY <1>1, <2>2, <2>4 DEF i
  <1>9. CASE ~Linked(ready_list, current)
    <2>1. Cursor = 0 /\ Cursor' = 1
      BY <1>4, <1>5, <1>9 DEF Cursor
    <2> HIDE DEF i
    <2>2. Shorter(i, 0, i, 1)
      BY <1>2, <1>7, <2>1 DEF Shorter
    <2> QED BY <1>1, <2>1, <2>2 DEF i
  <1> QED BY <1>8, <1>9

\* A switch out of a thread that leaves the list (it blocks or terminates):
\* pos(u) is where thread u stood before.
LEMMA LeaveCloser ==
  ASSUME SchedInv, SchedInv', current # idle, NEW rl \in Seq(Threads), IsInjective(rl),
         ~Linked(rl, current), ready_list' = rl, current' = scheduler_next(rl),
         NEW t \in Threads, Waiting(t), Waiting(t)',
         Pos(rl, t) = IF Pos(ready_list, t) < Pos(ready_list, current)
                      THEN Pos(ready_list, t) ELSE Pos(ready_list, t) - 1
  PROVE  /\ Pos(ready_list', t) <= Pos(ready_list, t)
         /\ Shorter(Pos(ready_list, t), Cursor, Pos(ready_list', t), Cursor')
PROOF
  <1> DEFINE i == Pos(ready_list, t)  c == Pos(ready_list, current)  j == Pos(rl, t)
  <1>1. /\ i \in 1..Len(ready_list) /\ ready_list[i] = t
        /\ c \in 1..Len(ready_list) /\ ready_list[c] = current
        /\ Len(ready_list) \in Nat /\ Cursor = c
    BY PosProperties, LenProperties DEF Waiting, SchedInv, SchedTypeOK, OneRunning, Cursor
  <1>2. t # current /\ t # current'
    BY WaitingNotCurrent DEF SchedInv, OneRunning, Waiting
  <1>3. Linked(rl, t) /\ j \in 1..Len(rl) /\ rl[j] = t /\ Len(rl) \in Nat
    BY PosProperties, LenProperties DEF Waiting
  <1>4. rl # << >>
    BY <1>3, EmptySeq
  <1>5. Linked(rl, current') /\ Pos(rl, current') = 1
    BY <1>4, CursorAfterSwitch
  <1>6. Cursor' = 1 /\ j # 1
    BY <1>2, <1>3, <1>5, PosProperties DEF Cursor
  <1>7. c # i
    BY <1>1, <1>2
  <1>8. j = IF i < c THEN i ELSE i - 1
    OBVIOUS
  <1> HIDE DEF i, c, j
  <1>9. j <= i /\ Shorter(i, c, j, 1)
    BY <1>1, <1>3, <1>6, <1>7, <1>8 DEF Shorter
  <1> QED BY <1>1, <1>6, <1>9 DEF i, j

\* thread_block and wait_queue_sleep shorten every wait.
LEMMA BlockCloser ==
  ASSUME SchedInv, SchedInv', NEW ws \in WakeOrders, thread_block(ws),
         NEW t \in Threads, Waiting(t), Waiting(t)'
  PROVE  /\ Pos(ready_list', t) <= Pos(ready_list, t)
         /\ Shorter(Pos(ready_list, t), Cursor, Pos(ready_list', t), Cursor')
PROOF
  <1> DEFINE w == ready_list \o ws  rl == scheduler_remove(w, current)
  <1>1. current # idle /\ ready_list' = rl /\ current' = scheduler_next(rl)
    BY DEF thread_block, scheduler_switch
  <1>2. /\ w \in Seq(Threads) /\ IsInjective(w) /\ ready_list \in Seq(Threads) /\ ws \in Seq(Threads)
        /\ Linked(ready_list, t) /\ Linked(ready_list, current) /\ t # current
    BY <1>1, WakeSound, WakeOrderProperties, WaitingNotCurrent
       DEF SchedInv, SchedTypeOK, OneRunning, Waiting
  <1>3. /\ Linked(w, t) /\ Pos(w, t) = Pos(ready_list, t)
        /\ Linked(w, current) /\ Pos(w, current) = Pos(ready_list, current)
    BY <1>2, PosAfterConcat
  <1> HIDE DEF w
  <1>4. rl \in Seq(Threads) /\ IsInjective(rl) /\ ~Linked(rl, current)
    BY <1>2, RemoveProperties
  <1>5. Pos(rl, t) = IF Pos(ready_list, t) < Pos(ready_list, current)
                     THEN Pos(ready_list, t) ELSE Pos(ready_list, t) - 1
    BY <1>2, <1>3, PosAfterRemove
  <1> HIDE DEF rl
  <1> QED BY <1>1, <1>4, <1>5, LeaveCloser

\* So does thread_kill_current.
LEMMA KillCloser ==
  ASSUME SchedInv, SchedInv', NEW ws \in WakeOrders, thread_kill_current(ws),
         NEW t \in Threads, Waiting(t), Waiting(t)'
  PROVE  /\ Pos(ready_list', t) <= Pos(ready_list, t)
         /\ Shorter(Pos(ready_list, t), Cursor, Pos(ready_list', t), Cursor')
PROOF
  <1> DEFINE r == scheduler_remove(ready_list, current)  rl == r \o ws
  <1>1. current # idle /\ ready_list' = rl /\ current' = scheduler_next(rl)
    BY DEF thread_kill_current, scheduler_switch
  <1>2. /\ ready_list \in Seq(Threads) /\ IsInjective(ready_list) /\ ws \in Seq(Threads) /\ IsInjective(ws)
        /\ Linked(ready_list, t) /\ Linked(ready_list, current) /\ t # current
    BY <1>1, WakeOrderProperties, WaitingNotCurrent
       DEF SchedInv, SchedTypeOK, ReadyListSound, OneRunning, Waiting
  <1>3. /\ r \in Seq(Threads) /\ IsInjective(r)
        /\ \A u : Linked(r, u) <=> Linked(ready_list, u) /\ u # current
    BY <1>2, RemoveProperties
  <1>4. Pos(r, t) = IF Pos(ready_list, t) < Pos(ready_list, current)
                    THEN Pos(ready_list, t) ELSE Pos(ready_list, t) - 1
    BY <1>2, PosAfterRemove
  <1> HIDE DEF r
  <1>5. \A u : ~(Linked(r, u) /\ Linked(ws, u))
    BY <1>3, WakeSound
  <1>6. /\ rl \in Seq(Threads) /\ IsInjective(rl)
        /\ \A u : Linked(rl, u) <=> Linked(r, u) \/ Linked(ws, u)
    BY <1>2, <1>3, <1>5, ConcatDisjoint
  <1>7. ~Linked(rl, current)
    BY <1>3, <1>6, WakeSound
  <1>8. Pos(rl, t) = Pos(r, t)
    BY <1>2, <1>3, <1>6, PosAfterConcat
  <1> HIDE DEF rl
  <1> QED BY <1>1, <1>4, <1>6, <1>7, <1>8, LeaveCloser

\* Every step of the scheduler obeys the round robin.
LEMMA RoundRobinByStep ==
  ASSUME SchedInv, [SchedNext]_schedVars
  PROVE  RoundRobinStep
PROOF
  <1>1. SchedInv'
    BY StepInv
  <1> SUFFICES ASSUME NEW t \in Threads, Waiting(t), Waiting(t)'
               PROVE  IF current' # current
                      THEN Shorter(Pos(ready_list, t), Cursor, Pos(ready_list', t), Cursor')
                      ELSE Pos(ready_list', t) <= Pos(ready_list, t)
    BY DEF RoundRobinStep
  <1>2. Pos(ready_list, t) \in Int
    BY PosProperties DEF Waiting
  <1>3. CASE ready_list' = ready_list /\ current' = current
    BY <1>2, <1>3
  <1>4. ASSUME NEW a \in Threads, thread_add(a)
        PROVE  current' = current /\ Pos(ready_list', t) = Pos(ready_list, t)
    <2>1. /\ ready_list' = ready_list \o << a >> /\ current' = current
          /\ ready_list \in Seq(Threads) /\ << a >> \in Seq(Threads)
      BY <1>4, AppendIsConcat DEF thread_add, scheduler_add, SchedInv, SchedTypeOK
    <2>2. IsInjective(ready_list \o << a >>)
      BY <1>1, <2>1 DEF SchedInv, ReadyListSound
    <2> QED BY <2>1, <2>2, PosAfterConcat DEF Waiting
  <1>5. ASSUME NEW ws \in WakeOrders, wake_section(ws)
        PROVE  current' = current /\ Pos(ready_list', t) = Pos(ready_list, t)
    BY <1>5, WakeSound, WakeOrderProperties, PosAfterConcat DEF wake_section, thread_unblock, Waiting, SchedInv, SchedTypeOK
  <1>6. CASE thread_yield
    BY <1>1, <1>2, <1>6, YieldCloser DEF thread_yield
  <1>7. ASSUME NEW ws \in WakeOrders, block_section(ws) \/ thread_kill_current(ws)
        PROVE  /\ Pos(ready_list', t) <= Pos(ready_list, t)
               /\ Shorter(Pos(ready_list, t), Cursor, Pos(ready_list', t), Cursor')
    BY <1>1, <1>7, BlockCloser, KillCloser DEF block_section
  <1>8. CASE scheduler_tick
    BY <1>1, <1>2, <1>3, <1>8, YieldCloser DEF scheduler_tick
  <1> QED BY <1>2, <1>3, <1>4, <1>5, <1>6, <1>7, <1>8
          DEF SchedNext, schedVars, scheduler_enter_idle, interrupt_save, interrupt_restore, thread_create

\* Round robin for every number of threads: no dispatch can let a waiting
\* thread fall back, so none is overtaken for ever.
THEOREM RoundRobinCorrect == SchedSafety => RoundRobin
PROOF
  <1>1. SchedInv /\ [SchedNext]_schedVars => [RoundRobinStep]_schedVars
    BY RoundRobinByStep
  <1> QED BY <1>1, SchedInvariance, PTL DEF SchedSafety, RoundRobin

\* No step takes another thread out of the ready list.
LEMMA LeavesByItselfByStep ==
  ASSUME SchedInv, [SchedNext]_schedVars
  PROVE  LeavesByItselfStep
PROOF
  <1> SUFFICES ASSUME NEW t \in Threads, Linked(ready_list, t), ~Linked(ready_list', t)
               PROVE  t = current /\ state'[t] \in {"BLOCKED", "TERMINATED"}
    BY DEF LeavesByItselfStep
  <1>0. ready_list \in Seq(Threads) /\ IsInjective(ready_list) /\ t \in AllThreads
    BY DEF SchedInv, SchedTypeOK, ReadyListSound, AllThreads
  <1>1. ASSUME NEW a \in Threads, thread_add(a) PROVE FALSE
    <2>1. /\ ready_list' = ready_list \o << a >> /\ << a >> \in Seq(Threads)
      BY <1>0, <1>1, AppendIsConcat DEF thread_add, scheduler_add
    <2>2. IsInjective(ready_list')
      BY StepInv DEF SchedInv, ReadyListSound
    <2> QED BY <1>0, <2>1, <2>2, PosAfterConcat
  <1>2. ASSUME NEW ws \in WakeOrders, wake_section(ws) PROVE FALSE
    BY <1>2, WakeSound DEF wake_section, thread_unblock
  <1>3. ASSUME NEW ws \in WakeOrders, block_section(ws) \/ thread_kill_current(ws)
        PROVE  t = current /\ ~Linked(ready_list', current) /\ current # idle
    <2>1. CASE block_section(ws)
      BY <2>1, WakeSound, RemoveProperties DEF block_section, thread_block, scheduler_switch
    <2>2. CASE thread_kill_current(ws)
      <3> DEFINE r == scheduler_remove(ready_list, current)
      <3>1. r \in Seq(Threads) /\ IsInjective(r) /\ \A u : Linked(r, u) <=> Linked(ready_list, u) /\ u # current
        BY <1>0, RemoveProperties
      <3>2. ready_list' = r \o ws /\ current # idle
        BY <2>2 DEF thread_kill_current, scheduler_switch
      <3> HIDE DEF r
      <3>3. \A u : ~(Linked(r, u) /\ Linked(ws, u))
        BY <3>1, WakeSound
      <3>4. \A u : Linked(r \o ws, u) <=> Linked(r, u) \/ Linked(ws, u)
        BY <3>1, <3>3, WakeOrderProperties, ConcatDisjoint
      <3> QED BY <3>1, <3>2, <3>4, WakeSound
    <2> QED BY <1>3, <2>1, <2>2
  <1>4. ASSUME NEW ws \in WakeOrders, block_section(ws) \/ thread_kill_current(ws)
        PROVE  state'[t] \in {"BLOCKED", "TERMINATED"}
    <2> DEFINE rl == ready_list'  n == scheduler_next(rl)
    <2>1. PICK x \in {"BLOCKED", "TERMINATED"} :
            state' = [demote(rl, [Woken(ws) EXCEPT ![current] = x]) EXCEPT ![n] = "RUNNING"]
      BY <1>4 DEF block_section, thread_block, thread_kill_current, scheduler_switch
    <2>2. n # t
      <3>1. ready_list' \in Seq(Threads)
        BY StepInv DEF SchedInv, SchedTypeOK
      <3> QED BY <3>1, NextProperties, ThreadsAssumption
    <2>3. t = current
      BY <1>3, <1>4
    <2>4. Woken(ws) \in [AllThreads -> ThreadState]
      BY WakeSound
    <2>5. [Woken(ws) EXCEPT ![current] = x][current] = x
      BY <1>0, <2>3, <2>4
    <2>6. demote(rl, [Woken(ws) EXCEPT ![current] = x]) = [Woken(ws) EXCEPT ![current] = x]
      BY <2>1, <2>5 DEF demote
    <2> HIDE DEF n, rl
    <2> QED BY <1>0, <2>1, <2>2, <2>3, <2>4, <2>6
  <1> QED BY <1>1, <1>2, <1>3, <1>4 DEF SchedNext, schedVars, scheduler_enter_idle, interrupt_save,
          interrupt_restore, thread_create, thread_yield, scheduler_tick, scheduler_switch

\* A thread leaves the ready list only by its own blocking or terminating.
THEOREM LeavesByItselfCorrect == SchedSafety => LeavesByItself
PROOF
  <1>1. SchedInv /\ [SchedNext]_schedVars => [LeavesByItselfStep]_schedVars
    BY LeavesByItselfByStep
  <1> QED BY <1>1, SchedInvariance, PTL DEF SchedSafety, LeavesByItself

----------------------------------------------------------------------------
(* For the clients: what a section does to the state of every thread.      *)

Active == {"READY", "RUNNING"}

\* The effect of a section that wakes the threads ws and, if it is not << >>,
\* puts the current thread into the state x[1]: of the other threads only those
\* that run or wait their turn may change, among these two states.
Effect(ws, x) ==
  \A u \in Threads :
    IF x # << >> /\ u = current THEN state'[u] = x[1]
    ELSE IF Linked(ws, u) \/ state[u] \in Active THEN state'[u] \in Active
    ELSE state'[u] = state[u]

\* A list of distinct blocked threads is an order in which they can be woken:
\* it is no longer than there are threads.
LEMMA IsWakeOrder ==
  ASSUME NEW ws \in Seq(Threads), IsInjective(ws),
         \A u : Linked(ws, u) => state[u] = "BLOCKED"
  PROVE  ws \in WakeOrders
PROOF
  <1> DEFINE n == Len(ws)  B == {t \in Threads : state[t] = "BLOCKED"}
  <1>1. n \in Nat /\ ws \in [1..n -> Threads]
    BY LenProperties
  <1>2. ws \in [1..n -> B]
    BY <1>1 DEF Linked
  <1>3. ws \in Injection(1..n, Threads)
    BY <1>1 DEF Injection
  <1>4. IsFiniteSet(1..n) /\ Cardinality(1..n) = n
    BY <1>1, FS_Interval
  <1>5. Cardinality(1..n) <= Cardinality(Threads)
    BY <1>3, FS_Injection, FiniteAssumption
  <1>6. Cardinality(Threads) \in Nat
    BY FS_CardinalityType, FiniteAssumption
  <1>7. n \in 0..Cardinality(Threads)
    <2> HIDE DEF n
    <2> QED BY <1>1, <1>4, <1>5, <1>6
  <1> HIDE DEF n
  <1> QED BY <1>2, <1>7 DEF WakeOrders

\* Waking nobody is one of them.
LEMMA EmptyWakeOrder == << >> \in WakeOrders /\ \A u : ~Linked(<< >>, u)
PROOF
  <1>1. << >> \in Seq(Threads) /\ Len(<< >>) = 0 /\ IsInjective(<< >>)
    BY EmptySeq DEF IsInjective
  <1>2. \A u : ~Linked(<< >>, u)
    BY <1>1 DEF Linked
  <1> QED BY <1>1, <1>2, IsWakeOrder

\* scheduler_switch changes no state but to demote the current thread and to
\* promote the next one.
LEMMA SwitchEffect ==
  ASSUME SchedInv, NEW rl, NEW st, SwitchReady(rl, st), scheduler_switch(rl, st)
  PROVE  \A u \in Threads : IF st[u] \in Active THEN state'[u] \in Active ELSE state'[u] = st[u]
PROOF
  <1> DEFINE n == scheduler_next(rl)  dm == demote(rl, st)
  <1>1. state' = [dm EXCEPT ![n] = "RUNNING"]
    BY DEF scheduler_switch
  <1>2. rl \in Seq(Threads) /\ st \in [AllThreads -> ThreadState] /\ \A u : Linked(rl, u) => st[u] \in Active
    BY DEF SwitchReady, Active
  <1>3. n \in Threads => st[n] \in Active
    <2>1. n \in Threads => Linked(rl, n)
      BY <1>2, NextProperties, ThreadsAssumption
    <2> QED BY <1>2, <2>1
  <1>4. dm = IF rl # << >> /\ st[current] = "RUNNING" /\ current # idle
             THEN [st EXCEPT ![current] = "READY"] ELSE st
    BY DEF demote
  <1> HIDE DEF n, dm
  <1>5. dm \in [AllThreads -> ThreadState]
    BY <1>2, <1>4 DEF ThreadState
  <1>6. \A u \in Threads : state'[u] = IF u = n THEN "RUNNING" ELSE dm[u]
    BY <1>1, <1>5 DEF AllThreads
  <1>7. \A u \in Threads : dm[u] = st[u] \/ (dm[u] = "READY" /\ st[u] = "RUNNING")
    BY <1>2, <1>4 DEF AllThreads
  <1> QED BY <1>3, <1>6, <1>7 DEF Active

\* thread_yield, and a tick whether or not it preempts.
LEMMA YieldEffect ==
  ASSUME SchedInv, thread_yield \/ scheduler_tick
  PROVE  /\ Effect(<< >>, << >>)
         /\ ready_list' = ready_list
PROOF
  <1>1. ready_list' = ready_list
    BY DEF thread_yield, scheduler_tick, scheduler_switch
  <1>2. CASE scheduler_switch(ready_list, state)
    <2>1. \A u \in Threads : IF state[u] \in Active THEN state'[u] \in Active ELSE state'[u] = state[u]
      BY <1>2, YieldReady, SwitchEffect
    <2> QED BY <1>1, <2>1, EmptyWakeOrder DEF Effect
  <1>3. CASE state' = state
    BY <1>1, <1>3, EmptyWakeOrder DEF Effect
  <1> QED BY <1>2, <1>3 DEF thread_yield, scheduler_tick

\* thread_block and wait_queue_sleep.
LEMMA BlockEffect ==
  ASSUME SchedInv, NEW ws \in WakeOrders, thread_block(ws)
  PROVE  /\ Effect(ws, << "BLOCKED" >>)
         /\ current \in Threads
         /\ \A u : Linked(ready_list', u) <=> (Linked(ready_list, u) \/ Linked(ws, u)) /\ u # current
PROOF
  <1> DEFINE st == [Woken(ws) EXCEPT ![current] = "BLOCKED"]
             rl == scheduler_remove(ready_list \o ws, current)
  <1>1. current # idle /\ scheduler_switch(rl, st) /\ ready_list' = rl
    BY DEF thread_block, scheduler_switch
  <1>2. current \in Threads /\ current \in AllThreads
    BY <1>1 DEF SchedInv, SchedTypeOK, AllThreads
  <1>3. \A u \in Threads : st[u] = IF u = current THEN "BLOCKED"
                                   ELSE IF Linked(ws, u) THEN "READY" ELSE state[u]
    BY <1>2, WakeSound DEF AllThreads
  <1>4. \A u \in Threads : IF st[u] \in Active THEN state'[u] \in Active ELSE state'[u] = st[u]
    BY <1>1, BlockReady, SwitchEffect
  <1>5. \A u : Linked(rl, u) <=> (Linked(ready_list, u) \/ Linked(ws, u)) /\ u # current
    BY WakeSound, RemoveProperties
  <1> HIDE DEF st, rl
  <1>6. << "BLOCKED" >> # << >> /\ << "BLOCKED" >>[1] = "BLOCKED"
    OBVIOUS
  <1> QED BY <1>1, <1>2, <1>3, <1>4, <1>5, <1>6 DEF Effect, Active

\* thread_kill_current.
LEMMA KillEffect ==
  ASSUME SchedInv, NEW ws \in WakeOrders, thread_kill_current(ws)
  PROVE  /\ Effect(ws, << "TERMINATED" >>)
         /\ current \in Threads
         /\ \A u : Linked(ready_list', u) <=> (Linked(ready_list, u) \/ Linked(ws, u)) /\ u # current
PROOF
  <1> DEFINE st == [Woken(ws) EXCEPT ![current] = "TERMINATED"]
             r == scheduler_remove(ready_list, current)
             rl == r \o ws
  <1>1. current # idle /\ scheduler_switch(rl, st) /\ ready_list' = rl
    BY DEF thread_kill_current, scheduler_switch
  <1>2. current \in Threads /\ current \in AllThreads
    BY <1>1 DEF SchedInv, SchedTypeOK, AllThreads
  <1>3. \A u \in Threads : st[u] = IF u = current THEN "TERMINATED"
                                   ELSE IF Linked(ws, u) THEN "READY" ELSE state[u]
    BY <1>2, WakeSound DEF AllThreads
  <1>4. \A u \in Threads : IF st[u] \in Active THEN state'[u] \in Active ELSE state'[u] = st[u]
    BY <1>1, KillReady, SwitchEffect
  <1>5. /\ r \in Seq(Threads) /\ IsInjective(r)
        /\ \A u : Linked(r, u) <=> Linked(ready_list, u) /\ u # current
    BY RemoveProperties DEF SchedInv, SchedTypeOK, ReadyListSound
  <1> HIDE DEF r
  <1>6. \A u : Linked(rl, u) <=> Linked(r, u) \/ Linked(ws, u)
    <2>1. \A u : ~(Linked(r, u) /\ Linked(ws, u))
      BY <1>5, WakeSound
    <2> QED BY <1>5, <2>1, WakeOrderProperties, ConcatDisjoint
  <1> HIDE DEF st, rl
  <1>7. << "TERMINATED" >> # << >> /\ << "TERMINATED" >>[1] = "TERMINATED"
    OBVIOUS
  <1>8. \A u : Linked(rl, u) <=> (Linked(ready_list, u) \/ Linked(ws, u)) /\ u # current
    BY <1>5, <1>6, WakeSound
  <1> QED BY <1>1, <1>2, <1>3, <1>4, <1>7, <1>8 DEF Effect, Active

\* thread_unblock.
LEMMA WakeEffect ==
  ASSUME SchedInv, NEW ws \in WakeOrders, thread_unblock(ws)
  PROVE  /\ Effect(ws, << >>)
         /\ \A u : Linked(ready_list', u) <=> Linked(ready_list, u) \/ Linked(ws, u)
PROOF
  <1>1. ready_list' = ready_list \o ws /\ state' = Woken(ws)
    BY DEF thread_unblock
  <1>2. \A u \in Threads : state'[u] = IF Linked(ws, u) THEN "READY" ELSE state[u]
    BY <1>1, WakeSound DEF AllThreads
  <1> QED BY <1>1, <1>2, WakeSound DEF Effect, Active

----------------------------------------------------------------------------
(* Wait queues.                                                            *)

\* wait_queue_remove and wait_queue_rest split a queue into its front and the
\* others.
LEMMA QueueSplit ==
  ASSUME NEW S, NEW q \in Seq(S), IsInjective(q)
  PROVE  /\ wait_queue_remove(q) \in Seq(S) /\ IsInjective(wait_queue_remove(q))
         /\ wait_queue_rest(q) \in Seq(S) /\ IsInjective(wait_queue_rest(q))
         /\ \A u : Linked(q, u) <=> Linked(wait_queue_remove(q), u) \/ Linked(wait_queue_rest(q), u)
         /\ \A u : ~(Linked(wait_queue_remove(q), u) /\ Linked(wait_queue_rest(q), u))
         /\ q # << >> => /\ Head(q) \in S /\ wait_queue_remove(q) = << Head(q) >>
                         /\ \A u : Linked(wait_queue_remove(q), u) <=> u = Head(q)
PROOF
  <1>1. CASE q = << >>
    <2>1. wait_queue_remove(q) = << >> /\ wait_queue_rest(q) = << >>
      BY <1>1 DEF wait_queue_remove, wait_queue_rest
    <2> QED BY <1>1, <2>1, EmptyWakeOrder
  <1>2. CASE q # << >>
    <2> DEFINE r == Tail(q)
    <2>1. /\ Len(q) \in Nat \ {0} /\ Head(q) \in S /\ Head(q) = q[1]
          /\ r \in Seq(S) /\ Len(r) = Len(q) - 1
          /\ \A i \in 1..Len(r) : r[i] = q[i + 1]
      BY <1>2, EmptySeq, HeadTailProperties, LenProperties
    <2>2. wait_queue_remove(q) = << Head(q) >> /\ wait_queue_rest(q) = r
      BY <1>2 DEF wait_queue_remove, wait_queue_rest
    <2>3. \A i, j \in 1..Len(q) : q[i] = q[j] => i = j
      BY LenProperties DEF IsInjective
    <2> HIDE DEF r
    <2>4. IsInjective(r)
      <3>1. DOMAIN r = 1..Len(r)
        BY <2>1, LenProperties
      <3>2. SUFFICES ASSUME NEW i \in 1..Len(r), NEW j \in 1..Len(r), r[i] = r[j] PROVE i = j
        BY <3>1 DEF IsInjective
      <3>3. i + 1 \in 1..Len(q) /\ j + 1 \in 1..Len(q) /\ q[i + 1] = q[j + 1]
        BY <2>1, <3>2
      <3> QED BY <2>3, <3>3
    <2>5. \A u : Linked(<< Head(q) >>, u) <=> u = Head(q)
      BY DEF Linked
    <2>6. IsInjective(<< Head(q) >>) /\ << Head(q) >> \in Seq(S)
      BY <2>1 DEF IsInjective
    <2>7. ASSUME NEW u, Linked(q, u) PROVE u = Head(q) \/ Linked(r, u)
      <3>1. PICK i \in 1..Len(q) : q[i] = u
        BY <2>7 DEF Linked
      <3>2. CASE i = 1
        BY <2>1, <3>1, <3>2
      <3>3. CASE i # 1
        <4>1. i - 1 \in 1..Len(r) /\ (i - 1) + 1 = i
          BY <2>1, <3>1, <3>3
        <4>2. r[i - 1] = u
          BY <2>1, <3>1, <4>1
        <4> QED BY <4>1, <4>2 DEF Linked
      <3> QED BY <3>2, <3>3
    <2>8. ASSUME NEW u, Linked(r, u) PROVE Linked(q, u) /\ u # Head(q)
      <3>1. PICK i \in 1..Len(r) : r[i] = u
        BY <2>8 DEF Linked
      <3>2. i + 1 \in 1..Len(q) /\ q[i + 1] = u /\ 1 \in 1..Len(q) /\ i + 1 # 1
        BY <2>1, <3>1
      <3> QED BY <2>1, <2>3, <3>2 DEF Linked
    <2>9. Linked(q, Head(q))
      BY <2>1 DEF Linked
    <2> QED BY <1>2, <2>1, <2>2, <2>4, <2>5, <2>6, <2>7, <2>8, <2>9
  <1> QED BY <1>1, <1>2

\* wait_queue_add appends a thread that is not in the queue.
LEMMA QueueAdd ==
  ASSUME NEW S, NEW q \in Seq(S), IsInjective(q), NEW t \in S, ~Linked(q, t)
  PROVE  /\ wait_queue_add(q, t) \in Seq(S) /\ IsInjective(wait_queue_add(q, t))
         /\ \A u : Linked(wait_queue_add(q, t), u) <=> Linked(q, u) \/ u = t
PROOF
  <1>1. wait_queue_add(q, t) = q \o << t >>
    BY AppendIsConcat DEF wait_queue_add
  <1>2. << t >> \in Seq(S) /\ IsInjective(<< t >>) /\ \A u : Linked(<< t >>, u) <=> u = t
    BY DEF IsInjective, Linked
  <1> DEFINE b == << t >>
  <1> HIDE DEF b
  <1>3. \A u : ~(Linked(q, u) /\ Linked(b, u))
    BY <1>2 DEF b
  <1>4. /\ q \o b \in Seq(S) /\ IsInjective(q \o b)
        /\ \A u : Linked(q \o b, u) <=> Linked(q, u) \/ Linked(b, u)
    BY <1>2, <1>3, ConcatDisjoint DEF b
  <1> QED BY <1>1, <1>2, <1>4 DEF b

\* interrupt_restore at the end of a section that slept: for the scheduler the
\* flag is set, cleared, or left as it is.
LEMMA SectionEndStep ==
  ASSUME SchedInv, current # idle, NEW b \in BOOLEAN, section_end(b)
  PROVE  [SchedNext]_schedVars
PROOF
  <1>1. current \in AllThreads /\ iflag \in [AllThreads -> BOOLEAN]
    BY DEF SchedInv, SchedTypeOK
  <1>2. /\ iflag' = [iflag EXCEPT ![current] = b]
        /\ UNCHANGED << ready_list, current, state, quantum_remaining, cr3, tss_esp0 >>
    BY DEF section_end
  <1>3. CASE iflag[current] = b
    <2>1. iflag' = iflag
      BY <1>1, <1>2, <1>3
    <2> QED BY <1>2, <2>1 DEF schedVars
  <1>4. CASE iflag[current] /\ b = FALSE
    BY <1>2, <1>4 DEF SchedNext, interrupt_save
  <1>5. CASE ~iflag[current] /\ b = TRUE
    BY <1>2, <1>5 DEF SchedNext, interrupt_restore
  <1>6. iflag[current] \in BOOLEAN
    BY <1>1
  <1> QED BY <1>3, <1>4, <1>5, <1>6

\* wait_queue_sleep is a section that blocks.
LEMMA SleepStep ==
  ASSUME SchedInv, NEW ws \in WakeOrders, wait_queue_sleep(ws)
  PROVE  SchedNext /\ thread_block(ws) /\ current \in Threads
PROOF
  BY BlockEffect DEF wait_queue_sleep, block_section, SchedNext

\* Threads taken off a queue of blocked threads can be woken.
LEMMA QueueWakeOrder ==
  ASSUME NEW q \in Seq(Threads), IsInjective(q), \A u : Linked(q, u) => state[u] = "BLOCKED"
  PROVE  q \in WakeOrders /\ wait_queue_remove(q) \in WakeOrders
PROOF
  BY QueueSplit, IsWakeOrder

\* A section that wakes the blocked threads ws, or nobody, is a step of the
\* scheduler that unblocks exactly these.
LEMMA WakeAllEffect ==
  ASSUME SchedInv, NEW ws \in WakeOrders, current # idle, wait_queue_wake_all(ws)
  PROVE  /\ [SchedNext]_schedVars
         /\ \A u \in Threads : state'[u] = "BLOCKED" <=> state[u] = "BLOCKED" /\ ~Linked(ws, u)
PROOF
  <1>1. CASE ws = << >>
    BY <1>1, EmptyWakeOrder DEF wait_queue_wake_all, schedVars
  <1>2. CASE ws # << >>
    <2>1. thread_unblock(ws) /\ iflag' = iflag
      BY <1>2 DEF wait_queue_wake_all
    <2>2. iflag \in [AllThreads -> BOOLEAN] /\ current \in AllThreads
      BY DEF SchedInv, SchedTypeOK
    <2>3. iflag[current] \in BOOLEAN /\ iflag' = [iflag EXCEPT ![current] = iflag[current]]
      BY <2>1, <2>2
    <2>4. wake_section(ws)
      BY <2>1, <2>3 DEF wake_section
    <2>5. SchedNext
      BY <1>2, <2>4 DEF SchedNext
    <2>6. Effect(ws, << >>)
      BY <2>1, WakeEffect
    <2>7. \A u : Linked(ws, u) => state[u] = "BLOCKED"
      BY WakeOrderProperties
    <2> QED BY <2>5, <2>6, <2>7 DEF Effect, Active
  <1> QED BY <1>1, <1>2

============================================================================
