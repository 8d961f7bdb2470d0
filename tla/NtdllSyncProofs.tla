--------------------------- MODULE NtdllSyncProofs --------------------------
(***************************************************************************)
(* Proofs about the locks, waits and wakes of ntdll (NtdllSync): the       *)
(* counts in an SRW lock and in a critical section are those of the        *)
(* threads that hold it and want it, so that no thread enters where it     *)
(* must not; a thread that a waker took from a queue is alerted, no thread *)
(* waits for a lock that is free with nobody to wake it, and a WakeAll     *)
(* reaches every thread that released its lock before it.                  *)
(***************************************************************************)
EXTENDS NtdllSync, FiniteSetTheorems, TLAPS

-----------------------------------------------------------------------------
(* The inductive invariant: the types, what the position of a thread in    *)
(* its call says about the lock that it holds, and the counts.             *)

\* Where a thread holds nothing, or may hold the critical section.
Without == InWait \cup {"add_exclusive", "get_exclusive", "get_shared", "try_exclusive", "try_shared",
                        "take_sem", "got", "unwait"}
Entering == {"try_enter", "spin", "enter"}

\* What a thread holds where it is, and that a sleep knows how to take its
\* lock again when its wait is over.
CallOK(t) ==
    /\ pc[t] \in InWait \cup InWake => addr[t] \in Addr
    /\ pc[t] \in Without => mode[t] = "none"
    /\ pc[t] \in Entering => mode[t] \in {"none", "crit"}
    /\ pc[t] = "release_exclusive" => mode[t] = "exclusive"
    /\ pc[t] = "release_shared" => mode[t] = "shared"
    /\ pc[t] \in {"leave", "leave_dec"} => mode[t] = "crit"
    /\ pc[t] = "sleep" => mode[t] # "none"
    /\ pc[t] \in {"idle", "cond_wake"} => ~Sleeping(t)
    /\ Sleeping(t) /\ pc[t] \in InWake => mode[t] = "none"
    /\ Sleeping(t) /\ pc[t] # "sleep" => want[t] # "none"
    /\ pc[t] \in InWait /\ addr[t] = "cond" => Sleeping(t)
    /\ pc[t] = "remove" => victim[t] \in Threads
    /\ pc[t] = "futex_wake" => woken[t] \in Threads
CallInv == \A t \in Threads : CallOK(t)

Owning == {t \in Threads : mode[t] \in {"shared", "exclusive"}}
Wanting == {t \in Threads : WantsExclusive(t)}
\* The SRW lock: SRWExclusion with one count of the holders.
SRWInv ==
    /\ \A t, u \in Threads : mode[t] = "exclusive" /\ mode[u] \in {"shared", "exclusive"} => t = u
    /\ exclusive <=> \E t \in Threads : mode[t] = "exclusive"
    /\ owners = Cardinality(Owning)
    /\ exclWaiters = Cardinality(Wanting)

\* The critical section is a token: a thread has it, or is about to raise
\* the semaphore, or the semaphore is raised.
Token(t) == HasCrit(t) \/ pc[t] = "unwait"
Inside(t) == mode[t] = "crit" /\ pc[t] # "leave_dec"
Waiting == {t \in Threads : WantsCrit(t)}
Depth ==
    IF \E t \in Threads : Inside(t) THEN recursion
    ELSE IF \E t \in Threads : HasCrit(t) THEN 1 ELSE 0
\* The critical section: CritExclusion, that a hand-over has someone to
\* hand to, and that the owner is a thread inside.
CritInv ==
    /\ \A t, u \in Threads : Token(t) /\ Token(u) => t = u
    /\ \A t \in Threads : Token(t) => semaphore = 0
    /\ lockCount + 1 = Cardinality(Waiting) + Depth
    /\ Waiting # {} => semaphore = 1 \/ \E t \in Threads : Token(t)
    /\ semaphore = 1 \/ (\E t \in Threads : pc[t] = "unwait") => Waiting # {}
    /\ \A t \in Threads : Inside(t) <=> owner = t
    /\ (\E t \in Threads : Inside(t)) => recursion > 0

LocksInv == TypeOK /\ CallInv /\ SRWInv /\ CritInv

-----------------------------------------------------------------------------
(* Steps.                                                                  *)

\* The actions that leave the three counted sets of threads alone ...
Walk(t) ==
    \/ Begin(t) \/ CondWake(t) \/ Sleep(t)
    \/ Wait(t) \/ AlertTake(t) \/ FutexWait(t) \/ Interrupt(t) \/ TimeOut(t) \/ LeaveWait(t) \/ Unqueue(t)
    \/ WakeLock(t) \/ ScanTake(t) \/ Remove(t) \/ ScanEnd(t) \/ Alert(t) \/ FutexWake(t) \/ AlertEnd(t)
\* ... those of the SRW lock, and those of the critical section.
SRWStep(t) ==
    \/ AddExclusive(t) \/ GetExclusive(t) \/ GetShared(t) \/ TryExclusive(t) \/ TryShared(t)
    \/ ReleaseExclusive(t) \/ ReleaseShared(t)
CritStep(t) ==
    \/ TryEnter(t) \/ Spin(t) \/ Enter(t) \/ TakeSem(t) \/ Got(t) \/ Leave(t) \/ LeaveDec(t) \/ UnWait(t)
Step(t) == Walk(t) \/ SRWStep(t) \/ CritStep(t)

LEMMA NextSteps == Next <=> \E t \in Threads : Step(t)
  BY DEF Next, Step, Walk, SRWStep, CritStep

\* The count of a set of threads that gains or loses one of them.
LEMMA CountChanges ==
  ASSUME NEW S \in SUBSET Threads
  PROVE  /\ Cardinality(S) \in Nat
         /\ Cardinality(S) = 0 <=> S = {}
         /\ \A t : t \notin S => Cardinality(S \cup {t}) = Cardinality(S) + 1
         /\ \A t \in S : Cardinality(S \ {t}) = Cardinality(S) - 1 /\ Cardinality(S) > 0
  <1>1. IsFiniteSet(S)
    BY NtdllAssumption, FS_Subset
  <1>2. Cardinality(S) \in Nat /\ (Cardinality(S) = 0 <=> S = {})
    BY <1>1, FS_CardinalityType, FS_EmptySet
  <1>3. \A t : t \notin S => Cardinality(S \cup {t}) = Cardinality(S) + 1
    BY <1>1, FS_AddElement
  <1>4. \A t \in S : Cardinality(S \ {t}) = Cardinality(S) - 1
    BY <1>1, FS_RemoveElement
  <1> QED
    BY <1>2, <1>3, <1>4

\* What the counts say to the thread that is about to lower one.
LEMMA CountsSay ==
  ASSUME LocksInv, NEW t \in Threads
  PROVE  /\ mode[t] \in {"shared", "exclusive"} => owners > 0
         /\ WantsExclusive(t) => exclWaiters > 0
         /\ WantsCrit(t) => lockCount >= 0
         /\ HasCrit(t) => lockCount >= 0
         /\ Inside(t) => owner = t /\ recursion > 0 /\ lockCount >= recursion - 1
  <1>1. Owning \in SUBSET Threads /\ Wanting \in SUBSET Threads /\ Waiting \in SUBSET Threads
    BY DEF Owning, Wanting, Waiting
  <1>2. Cardinality(Waiting) \in Nat /\ Depth \in Nat
    BY <1>1, CountChanges DEF LocksInv, TypeOK, Depth
  <1>3. mode[t] \in {"shared", "exclusive"} => owners > 0
    <2> HAVE mode[t] \in {"shared", "exclusive"}
    <2>1. t \in Owning
      BY DEF Owning
    <2> QED
      BY <1>1, <2>1, CountChanges DEF LocksInv, SRWInv
  <1>4. WantsExclusive(t) => exclWaiters > 0
    <2> HAVE WantsExclusive(t)
    <2>1. t \in Wanting
      BY DEF Wanting
    <2> QED
      BY <1>1, <2>1, CountChanges DEF LocksInv, SRWInv
  <1>5. WantsCrit(t) => lockCount >= 0
    <2> HAVE WantsCrit(t)
    <2>1. t \in Waiting
      BY DEF Waiting
    <2>2. Cardinality(Waiting) > 0
      BY <1>1, <2>1, CountChanges
    <2>3. lockCount + 1 = Cardinality(Waiting) + Depth /\ lockCount \in Int
      BY DEF LocksInv, CritInv, TypeOK
    <2> QED
      BY <1>2, <2>2, <2>3
  <1>6. Inside(t) => owner = t /\ recursion > 0 /\ lockCount >= recursion - 1
    <2> HAVE Inside(t)
    <2>1. Depth = recursion /\ owner = t /\ recursion > 0
      BY DEF Depth, LocksInv, CritInv
    <2>2. lockCount + 1 = Cardinality(Waiting) + Depth /\ lockCount \in Int /\ recursion \in Int
      BY DEF LocksInv, CritInv, TypeOK
    <2> QED
      BY <1>2, <2>1, <2>2
  <1>7. HasCrit(t) => lockCount >= 0
    <2> HAVE HasCrit(t)
    <2>1. Depth > 0
      BY DEF Depth, LocksInv, CritInv
    <2>2. lockCount + 1 = Cardinality(Waiting) + Depth /\ lockCount \in Int
      BY DEF LocksInv, CritInv, TypeOK
    <2> QED
      BY <1>2, <2>1, <2>2
  <1> QED
    BY <1>3, <1>4, <1>5, <1>6, <1>7

LEMMA UnlinkType ==
  ASSUME NEW s \in Seq(Threads), NEW u
  PROVE  Unlink(s, u) \in Seq(Threads)
  <1> DEFINE n == CHOOSE k \in 1..Len(s) : s[k] = u
             r == Unlink(s, u)
  <1>1. CASE s = <<>>
    <2>1. r = [k \in 1..0 |-> s[k]]
      BY <1>1 DEF Unlink
    <2> QED
      BY <2>1
  <1>2. CASE s # <<>>
    <2>1. Len(s) - 1 \in Nat
      BY <1>2
    <2>2. \A k \in 1..(Len(s) - 1) : s[k] \in Threads /\ s[k + 1] \in Threads
      BY <2>1
    <2>3. r \in [1..(Len(s) - 1) -> Threads]
      BY <2>2 DEF Unlink
    <2> QED
      BY <2>1, <2>3
  <1> QED
    BY <1>1, <1>2

\* The types in three parts: the words of the locks, the queues and what
\* their users share, and the locals of the calls.
WordTypes ==
    /\ exclWaiters \in Nat /\ exclusive \in BOOLEAN /\ owners \in Nat /\ cond \in Nat
    /\ lockCount \in Nat \cup {-1} /\ recursion \in Nat
    /\ owner \in Threads \cup {NoOne} /\ semaphore \in {0, 1}
QueueTypes ==
    /\ queue \in [Buckets -> Seq(Threads)] /\ qlock \in [Buckets -> Threads \cup {NoOne}]
    /\ entryAddr \in [Threads -> Addr \cup {"null"}]
    /\ alert \in [Threads -> BOOLEAN]
    /\ victim \in [Threads -> Threads \cup {NoOne}] /\ tids \in [Threads -> Seq(Threads)]
    /\ woken \in [Threads -> Threads \cup {NoOne}] /\ missed \in [Threads -> BOOLEAN]
Modes == {"none", "shared", "exclusive", "crit"}
LocalTypes ==
    /\ pc \in [Threads -> PCs] /\ op \in [Threads -> Op \cup {"none", "reacquire"}]
    /\ want \in [Threads -> Modes]
    /\ addr \in [Threads -> Addr \cup {"null"}] /\ cmp \in [Threads -> Seq(Nat)]
    /\ value \in [Threads -> Nat] /\ wakeAll \in [Threads -> BOOLEAN]

LEMMA TypeParts ==
  /\ TypeOK <=> WordTypes /\ QueueTypes /\ LocalTypes /\ mode \in [Threads -> Modes]
  /\ TypeOK' <=> WordTypes' /\ QueueTypes' /\ LocalTypes' /\ mode' \in [Threads -> Modes]
  BY DEF TypeOK, WordTypes, QueueTypes, LocalTypes, Modes

LEMMA GotoType ==
  ASSUME LocalTypes, NEW t \in Threads, NEW l \in PCs, Goto(t, l)
  PROVE  pc' \in [Threads -> PCs]
  BY DEF LocalTypes, Goto

LEMMA ReturnType ==
  ASSUME LocalTypes, NEW t \in Threads, Return(t)
  PROVE  LocalTypes'
  <1>1. "idle" \in PCs /\ "none" \in Modes /\ <<>> \in Seq(Nat)
    BY DEF PCs, Modes
  <1> QED
    BY <1>1 DEF LocalTypes, Return, Goto

LEMMA WaitOnType ==
  ASSUME LocalTypes, NEW t \in Threads, NEW a \in Addr, NEW v \in Seq(Nat), WaitOn(t, a, v)
  PROVE  LocalTypes'
  <1>1. "wait" \in PCs
    BY DEF PCs, InWait
  <1> QED
    BY <1>1 DEF LocalTypes, WaitOn, Goto

LEMMA WakeOnType ==
  ASSUME LocalTypes, NEW t \in Threads, NEW a \in Addr, NEW all \in BOOLEAN, WakeOn(t, a, all)
  PROVE  LocalTypes'
  <1>1. "wake" \in PCs
    BY DEF PCs, InWake
  <1> QED
    BY <1>1 DEF LocalTypes, WakeOn, Goto

LEMMA ReleasedType ==
  ASSUME LocalTypes, NEW t \in Threads, Released(t)
  PROVE  LocalTypes'
  <1>1. "cond" \in Addr /\ <<value[t]>> \in Seq(Nat)
    BY DEF Addr, LocalTypes
  <1> QED
    BY <1>1, ReturnType, WaitOnType DEF Released

LEMMA GoType ==
  ASSUME LocalTypes, NEW t \in Threads, NEW l \in PCs, Goto(t, l),
         UNCHANGED <<op, want, addr, cmp, value, wakeAll>>
  PROVE  LocalTypes'
  BY GotoType DEF LocalTypes

\* Where a thread goes on after RtlWaitOnAddress.
LEMMA WaitOverGoes ==
  ASSUME TypeOK, NEW t \in Threads, CallOK(t), pc[t] \in InWait, WaitOver(t)
  PROVE  /\ \E l \in {"get_exclusive", "get_shared", "take_sem", "add_exclusive", "try_enter", "enter"} :
               /\ Goto(t, l)
               /\ addr[t] = "owners" => l = "get_exclusive"
               /\ addr[t] = "srw" => l = "get_shared"
               /\ addr[t] = "sem" => l = "take_sem"
               /\ addr[t] = "cond" => l \in {"add_exclusive", "get_shared", "try_enter", "enter"}
         /\ op' = [op EXCEPT ![t] = IF addr[t] = "cond" THEN "reacquire" ELSE @]
         /\ missed' = [missed EXCEPT ![t] = @ /\ addr[t] # "cond"]
  <1>1. addr[t] \in Addr /\ (addr[t] = "cond" => want[t] \in {"shared", "exclusive", "crit"})
    BY DEF CallOK, TypeOK, Sleeping, InWait
  <1> QED
    BY <1>1 DEF WaitOver, FirstStep, Addr

\* The walk keeps the types.
LEMMA WalkType ==
  ASSUME LocksInv, NEW t \in Threads, Walk(t)
  PROVE  TypeOK'
  <1> USE DEF words, srw, crit, queues, waking
  <1>0. TypeOK /\ CallOK(t) /\ WordTypes /\ QueueTypes /\ LocalTypes /\ mode \in [Threads -> Modes]
    BY TypeParts DEF LocksInv, CallInv
  <1>1. CASE Begin(t)
    <2>1. PICK o \in Ops[t] : Allowed(t, o) /\ Goto(t, FirstStep(o, mode[t])) /\ op' = [op EXCEPT ![t] = o]
      BY <1>1 DEF Begin
    <2>2. o \in Op
      BY NtdllAssumption
    <2>3. FirstStep(o, mode[t]) \in PCs
      BY <2>2 DEF FirstStep, Op, PCs
    <2>4. LocalTypes'
      BY <1>0, <1>1, <2>1, <2>2, <2>3, GotoType DEF Begin, LocalTypes
    <2> QED
      BY <1>0, <1>1, <2>4, TypeParts DEF Begin, WordTypes, QueueTypes
  <1>2. CASE CondWake(t)
    <2>1. LocalTypes'
      BY <1>0, <1>2, WakeOnType DEF CondWake, Addr
    <2>2. missed' \in [Threads -> BOOLEAN]
      BY <1>2 DEF CondWake
    <2> QED
      BY <1>0, <1>2, <2>1, <2>2, TypeParts DEF CondWake, WordTypes, QueueTypes
  <1>3. CASE Sleep(t)
    <2>1. mode[t] \in Modes \ {"none"}
      BY <1>0, <1>3 DEF CallOK, Sleep
    <2>2. ReleaseStep(mode[t]) \in PCs
      BY <2>1 DEF ReleaseStep, Modes, PCs
    <2>3. pc' \in [Threads -> PCs]
      BY <1>0, <1>3, <2>2, GotoType DEF Sleep
    <2>4. LocalTypes'
      BY <1>0, <1>3, <2>1, <2>3 DEF Sleep, LocalTypes, WordTypes
    <2> QED
      BY <1>0, <1>3, <2>4, TypeParts DEF Sleep, WordTypes, QueueTypes
  <1>4. ASSUME pc[t] \in InWait, WaitOver(t), UNCHANGED <<want, addr, cmp, value, wakeAll>>
        PROVE  LocalTypes' /\ missed' \in [Threads -> BOOLEAN]
    <2>1. PICK l \in {"get_exclusive", "get_shared", "take_sem", "add_exclusive", "try_enter", "enter"} : Goto(t, l)
      BY <1>0, <1>4, WaitOverGoes
    <2>2. pc' \in [Threads -> PCs]
      BY <1>0, <2>1, GotoType DEF PCs
    <2>3. /\ op' = [op EXCEPT ![t] = IF addr[t] = "cond" THEN "reacquire" ELSE @]
          /\ missed' = [missed EXCEPT ![t] = @ /\ addr[t] # "cond"]
      BY <1>0, <1>4, WaitOverGoes
    <2>4. missed' \in [Threads -> BOOLEAN]
      BY <1>0, <2>3 DEF QueueTypes
    <2>5. op' \in [Threads -> Op \cup {"none", "reacquire"}]
      BY <1>0, <2>3 DEF LocalTypes
    <2> QED
      BY <1>0, <1>4, <2>2, <2>4, <2>5 DEF LocalTypes
  <1>5. CASE Wait(t)
    <2>1. CASE Value(addr[t]) # cmp[t]
      <3>1. LocalTypes' /\ missed' \in [Threads -> BOOLEAN]
        BY <1>4, <1>5, <2>1 DEF Wait, InWait
      <3> QED
        BY <1>0, <1>5, <2>1, <3>1, TypeParts DEF Wait, WordTypes, QueueTypes
    <2>2. CASE Value(addr[t]) = cmp[t]
      <3>1. "alert_take" \in PCs /\ addr[t] \in Addr /\ QueueOf[addr[t]] \in Buckets
        BY <1>0, <1>5, NtdllAssumption DEF PCs, InWait, CallOK, Wait
      <3>2. LocalTypes'
        BY <1>0, <1>5, <2>2, <3>1, GoType DEF Wait
      <3>3. Append(queue[QueueOf[addr[t]]], t) \in Seq(Threads)
        BY <1>0, <3>1 DEF QueueTypes
      <3>4. queue' \in [Buckets -> Seq(Threads)] /\ entryAddr' \in [Threads -> Addr \cup {"null"}]
        BY <1>0, <1>5, <2>2, <3>1, <3>3 DEF Wait, QueueTypes
      <3> QED
        BY <1>0, <1>5, <2>2, <3>2, <3>4, TypeParts DEF Wait, WordTypes, QueueTypes
    <2> QED
      BY <2>1, <2>2
  <1>6. CASE AlertTake(t)
    <2>1. LocalTypes'
      BY <1>0, <1>6, GoType DEF AlertTake, PCs, InWait
    <2> QED
      BY <1>0, <1>6, <2>1, TypeParts DEF AlertTake, WordTypes, QueueTypes
  <1>7. CASE FutexWait(t)
    <2>1. LocalTypes'
      BY <1>0, <1>7, GoType DEF FutexWait, PCs, InWait
    <2> QED
      BY <1>0, <1>7, <2>1, TypeParts DEF FutexWait, WordTypes, QueueTypes
  <1>8. CASE Interrupt(t)
    <2>1. LocalTypes'
      BY <1>0, <1>8, GoType DEF Interrupt, PCs, InWait
    <2> QED
      BY <1>0, <1>8, <2>1, TypeParts DEF Interrupt, WordTypes, QueueTypes
  <1>9. CASE TimeOut(t)
    <2>1. LocalTypes'
      BY <1>0, <1>9, GoType DEF TimeOut, PCs, InWait
    <2> QED
      BY <1>0, <1>9, <2>1, TypeParts DEF TimeOut, WordTypes, QueueTypes
  <1>10. CASE LeaveWait(t)
    <2>1. LocalTypes' /\ missed' \in [Threads -> BOOLEAN]
      <3>1. CASE entryAddr[t] = "null"
        BY <1>4, <1>10, <3>1 DEF LeaveWait, InWait
      <3>2. CASE entryAddr[t] # "null"
        <4>1. LocalTypes'
          BY <1>0, <1>10, <3>2, GoType DEF LeaveWait, PCs, InWait
        <4> QED
          BY <1>0, <1>10, <3>2, <4>1 DEF LeaveWait, QueueTypes
      <3> QED
        BY <3>1, <3>2
    <2> QED
      BY <1>0, <1>10, <2>1, TypeParts DEF LeaveWait, WordTypes, QueueTypes
  <1>11. CASE Unqueue(t)
    <2>1. LocalTypes' /\ missed' \in [Threads -> BOOLEAN]
      BY <1>4, <1>11 DEF Unqueue, InWait
    <2>2. queue' \in [Buckets -> Seq(Threads)] /\ entryAddr' \in [Threads -> Addr \cup {"null"}]
      <3>1. Unlink(queue[QueueOf[addr[t]]], t) \in Seq(Threads)
        BY <1>0, <1>11, NtdllAssumption, UnlinkType DEF Unqueue, QueueTypes, CallOK, InWait
      <3> QED
        BY <1>0, <1>11, <3>1 DEF Unqueue, QueueTypes
    <2> QED
      BY <1>0, <1>11, <2>1, <2>2, TypeParts DEF Unqueue, WordTypes, QueueTypes
  <1>12. CASE WakeLock(t)
    <2>1. LocalTypes'
      BY <1>0, <1>12, GoType DEF WakeLock, PCs, InWake
    <2> QED
      BY <1>0, <1>12, <2>1, TypeParts DEF WakeLock, WordTypes, QueueTypes
  <1>13. CASE ScanTake(t)
    <2>1. LocalTypes'
      BY <1>0, <1>13, GoType DEF ScanTake, PCs, InWake
    <2>2. Queue(t) \in Seq(Threads)
      BY <1>0, <1>13, NtdllAssumption DEF ScanTake, CallOK, InWake, Queue, QueueTypes
    <2>3. PICK k \in Matching(t) : /\ entryAddr' = [entryAddr EXCEPT ![Queue(t)[k]] = "null"]
                                   /\ victim' = [victim EXCEPT ![t] = Queue(t)[k]]
      BY <1>13 DEF ScanTake
    <2>4. Queue(t)[k] \in Threads
      BY <2>2, <2>3 DEF Matching
    <2>5. /\ entryAddr' \in [Threads -> Addr \cup {"null"}]
          /\ victim' \in [Threads -> Threads \cup {NoOne}]
      BY <1>0, <2>3, <2>4 DEF QueueTypes
    <2> QED
      BY <1>0, <1>13, <2>1, <2>5, TypeParts DEF ScanTake, WordTypes, QueueTypes
  <1>14. CASE Remove(t)
    <2>1. LocalTypes'
      BY <1>0, <1>14, GoType DEF Remove, PCs, InWake
    <2>2. victim[t] \in Threads /\ tids[t] \in Seq(Threads)
      BY <1>0, <1>14 DEF Remove, CallOK, QueueTypes
    <2>3. Append(tids[t], victim[t]) \in Seq(Threads)
      BY <2>2
    <2>4. /\ queue' \in [Buckets -> Seq(Threads)]
          /\ tids' \in [Threads -> Seq(Threads)]
          /\ victim' \in [Threads -> Threads \cup {NoOne}]
      BY <1>0, <1>14, <2>2, <2>3, UnlinkType DEF Remove, QueueTypes
    <2>5. qlock' \in [Buckets -> Threads \cup {NoOne}]
      BY <1>0, <1>14 DEF Remove, QueueTypes
    <2> QED
      BY <1>0, <1>14, <2>1, <2>4, <2>5, TypeParts DEF Remove, WordTypes, QueueTypes
  <1>15. CASE ScanEnd(t)
    <2>1. LocalTypes'
      BY <1>0, <1>15, GoType DEF ScanEnd, PCs, InWake
    <2> QED
      BY <1>0, <1>15, <2>1, TypeParts DEF ScanEnd, WordTypes, QueueTypes
  <1>16. CASE Alert(t)
    <2>1. LocalTypes'
      BY <1>0, <1>16, GotoType DEF Alert, PCs, InWake, LocalTypes
    <2>2. Head(tids[t]) \in Threads /\ Tail(tids[t]) \in Seq(Threads)
      BY <1>0, <1>16 DEF Alert, QueueTypes
    <2>3. /\ tids' \in [Threads -> Seq(Threads)]
          /\ alert' \in [Threads -> BOOLEAN]
          /\ woken' \in [Threads -> Threads \cup {NoOne}]
      BY <1>0, <1>16, <2>2 DEF Alert, QueueTypes
    <2> QED
      BY <1>0, <1>16, <2>1, <2>3, TypeParts DEF Alert, WordTypes, QueueTypes
  <1>17. CASE FutexWake(t)
    <2>1. "alert" \in PCs /\ "alert_take" \in PCs
      BY DEF PCs, InWake, InWait
    <2>2. pc' \in [Threads -> PCs]
      BY <1>0, <1>17, <2>1 DEF FutexWake, LocalTypes, CallOK
    <2> QED
      BY <1>0, <1>17, <2>2, TypeParts DEF FutexWake, WordTypes, QueueTypes, LocalTypes
  <1>18. CASE AlertEnd(t)
    <2>1. LocalTypes'
      BY <1>0, <1>18, GoType, ReleasedType DEF AlertEnd, PCs, InWake
    <2>2. /\ tids' \in [Threads -> Seq(Threads)]
          /\ victim' \in [Threads -> Threads \cup {NoOne}]
      <3>1. victim[t] # NoOne => <<victim[t]>> \in Seq(Threads)
        BY <1>0 DEF QueueTypes
      <3> QED
        BY <1>0, <1>18, <3>1 DEF AlertEnd, QueueTypes
    <2> QED
      BY <1>0, <1>18, <2>1, <2>2, TypeParts DEF AlertEnd, WordTypes, QueueTypes
  <1> QED
    BY <1>1, <1>2, <1>3, <1>5, <1>6, <1>7, <1>8, <1>9, <1>10, <1>11, <1>12, <1>13, <1>14, <1>15,
       <1>16, <1>17, <1>18 DEF Walk

LEMMA SRWType ==
  ASSUME LocksInv, NEW t \in Threads, SRWStep(t)
  PROVE  TypeOK'
  <1> USE DEF words, srw, crit, queues, waking
  <1>0. TypeOK /\ CallOK(t) /\ WordTypes /\ QueueTypes /\ LocalTypes /\ mode \in [Threads -> Modes]
    BY TypeParts DEF LocksInv, CallInv
  <1>01. {"owners", "srw", "cond", "sem"} \subseteq Addr /\ <<owners>> \in Seq(Nat) /\ Value("srw") \in Seq(Nat)
    BY <1>0 DEF Addr, Value, WordTypes, Bit
  <1>1. CASE AddExclusive(t)
    <2>1. LocalTypes'
      BY <1>0, <1>01, <1>1, GoType DEF AddExclusive, PCs
    <2>2. WordTypes' /\ mode' \in [Threads -> Modes]
      BY <1>0, <1>1, CountsSay DEF AddExclusive, WordTypes, Hold, Modes
    <2> QED
      BY <1>0, <1>1, <2>1, <2>2, TypeParts DEF AddExclusive, QueueTypes
  <1>2. CASE GetExclusive(t)
    <2>1. LocalTypes'
      BY <1>0, <1>01, <1>2, ReturnType, WaitOnType DEF GetExclusive, PCs
    <2>2. WordTypes' /\ mode' \in [Threads -> Modes]
      <3>1. CASE owners = 0
        BY <1>0, <1>2, <3>1, CountsSay DEF GetExclusive, WordTypes, Hold, Modes, WantsExclusive
      <3>2. CASE owners # 0
        BY <1>0, <1>2, <3>2 DEF GetExclusive, WordTypes
      <3> QED
        BY <3>1, <3>2
    <2> QED
      BY <1>0, <1>2, <2>1, <2>2, TypeParts DEF GetExclusive, QueueTypes
  <1>3. CASE GetShared(t)
    <2>1. LocalTypes'
      BY <1>0, <1>01, <1>3, ReturnType, WaitOnType DEF GetShared, PCs
    <2>2. WordTypes' /\ mode' \in [Threads -> Modes]
      BY <1>0, <1>3, CountsSay DEF GetShared, WordTypes, Hold, Modes
    <2> QED
      BY <1>0, <1>3, <2>1, <2>2, TypeParts DEF GetShared, QueueTypes
  <1>4. CASE TryExclusive(t)
    <2>1. LocalTypes'
      BY <1>0, <1>01, <1>4, ReturnType DEF TryExclusive, PCs
    <2>2. WordTypes' /\ mode' \in [Threads -> Modes]
      <3>1. CASE owners = 0
        BY <1>0, <1>4, <3>1, CountsSay DEF TryExclusive, WordTypes, Hold, Modes
      <3>2. CASE owners # 0
        BY <1>0, <1>4, <3>2 DEF TryExclusive, WordTypes
      <3> QED
        BY <3>1, <3>2
    <2> QED
      BY <1>0, <1>4, <2>1, <2>2, TypeParts DEF TryExclusive, QueueTypes
  <1>5. CASE TryShared(t)
    <2>1. LocalTypes'
      BY <1>0, <1>01, <1>5, ReturnType DEF TryShared, PCs
    <2>2. WordTypes' /\ mode' \in [Threads -> Modes]
      BY <1>0, <1>5, CountsSay DEF TryShared, WordTypes, Hold, Modes
    <2> QED
      BY <1>0, <1>5, <2>1, <2>2, TypeParts DEF TryShared, QueueTypes
  <1>6. CASE ReleaseExclusive(t)
    <2>1. LocalTypes'
      BY <1>0, <1>01, <1>6, WakeOnType DEF ReleaseExclusive, PCs
    <2>2. WordTypes' /\ mode' \in [Threads -> Modes]
      BY <1>0, <1>6, CountsSay DEF ReleaseExclusive, WordTypes, Hold, Modes
    <2> QED
      BY <1>0, <1>6, <2>1, <2>2, TypeParts DEF ReleaseExclusive, QueueTypes
  <1>7. CASE ReleaseShared(t)
    <2>1. LocalTypes'
      BY <1>0, <1>01, <1>7, WakeOnType, ReleasedType DEF ReleaseShared, PCs
    <2>2. WordTypes' /\ mode' \in [Threads -> Modes]
      BY <1>0, <1>7, CountsSay DEF ReleaseShared, WordTypes, Hold, Modes, CallOK
    <2> QED
      BY <1>0, <1>7, <2>1, <2>2, TypeParts DEF ReleaseShared, QueueTypes
  <1> QED
    BY <1>1, <1>2, <1>3, <1>4, <1>5, <1>6, <1>7 DEF SRWStep

LEMMA CritType ==
  ASSUME LocksInv, NEW t \in Threads, CritStep(t)
  PROVE  TypeOK'
  <1> USE DEF words, srw, crit, queues, waking
  <1>0. TypeOK /\ CallOK(t) /\ WordTypes /\ QueueTypes /\ LocalTypes /\ mode \in [Threads -> Modes]
    BY TypeParts DEF LocksInv, CallInv
  <1>01. {"owners", "srw", "cond", "sem"} \subseteq Addr /\ <<0>> \in Seq(Nat)
    BY DEF Addr
  <1>1. CASE TryEnter(t)
    <2>1. LocalTypes'
      BY <1>0, <1>01, <1>1, GoType, ReturnType DEF TryEnter, PCs
    <2>2. WordTypes' /\ mode' \in [Threads -> Modes]
      BY <1>0, <1>1, CountsSay DEF TryEnter, WordTypes, Hold, Modes
    <2> QED
      BY <1>0, <1>1, <2>1, <2>2, TypeParts DEF TryEnter, QueueTypes
  <1>2. CASE Spin(t)
    <2>1. LocalTypes'
      BY <1>0, <1>01, <1>2, GoType DEF Spin, PCs
    <2>2. WordTypes' /\ mode' \in [Threads -> Modes]
      BY <1>0, <1>2, CountsSay DEF Spin, WordTypes, Hold, Modes
    <2> QED
      BY <1>0, <1>2, <2>1, <2>2, TypeParts DEF Spin, QueueTypes
  <1>3. CASE Enter(t)
    <2>1. LocalTypes'
      BY <1>0, <1>01, <1>3, GoType, ReturnType DEF Enter, PCs
    <2>2. WordTypes' /\ mode' \in [Threads -> Modes]
      BY <1>0, <1>3, CountsSay DEF Enter, WordTypes, Hold, Modes
    <2> QED
      BY <1>0, <1>3, <2>1, <2>2, TypeParts DEF Enter, QueueTypes
  <1>4. CASE TakeSem(t)
    <2>1. LocalTypes'
      BY <1>0, <1>01, <1>4, GoType, WaitOnType DEF TakeSem, PCs
    <2>2. WordTypes' /\ mode' \in [Threads -> Modes]
      BY <1>0, <1>4, CountsSay DEF TakeSem, WordTypes, Hold, Modes
    <2> QED
      BY <1>0, <1>4, <2>1, <2>2, TypeParts DEF TakeSem, QueueTypes
  <1>5. CASE Got(t)
    <2>1. LocalTypes'
      BY <1>0, <1>01, <1>5, ReturnType DEF Got, PCs
    <2>2. WordTypes' /\ mode' \in [Threads -> Modes]
      BY <1>0, <1>5, CountsSay DEF Got, WordTypes, Hold, Modes
    <2> QED
      BY <1>0, <1>5, <2>1, <2>2, TypeParts DEF Got, QueueTypes
  <1>6. CASE Leave(t)
    <2>1. LocalTypes'
      BY <1>0, <1>01, <1>6, GoType, ReturnType DEF Leave, PCs
    <2>2. WordTypes' /\ mode' \in [Threads -> Modes]
      BY <1>0, <1>6, CountsSay DEF Leave, WordTypes, Hold, Modes, CallOK, Inside
    <2> QED
      BY <1>0, <1>6, <2>1, <2>2, TypeParts DEF Leave, QueueTypes
  <1>7. CASE LeaveDec(t)
    <2>1. LocalTypes'
      BY <1>0, <1>01, <1>7, GoType, ReleasedType DEF LeaveDec, PCs
    <2>2. WordTypes' /\ mode' \in [Threads -> Modes]
      BY <1>0, <1>7, CountsSay DEF LeaveDec, WordTypes, Hold, Modes, CallOK, HasCrit
    <2> QED
      BY <1>0, <1>7, <2>1, <2>2, TypeParts DEF LeaveDec, QueueTypes
  <1>8. CASE UnWait(t)
    <2>1. LocalTypes'
      BY <1>0, <1>01, <1>8, WakeOnType DEF UnWait, PCs
    <2>2. WordTypes' /\ mode' \in [Threads -> Modes]
      BY <1>0, <1>8, CountsSay DEF UnWait, WordTypes, Hold, Modes
    <2> QED
      BY <1>0, <1>8, <2>1, <2>2, TypeParts DEF UnWait, QueueTypes
  <1> QED
    BY <1>1, <1>2, <1>3, <1>4, <1>5, <1>6, <1>7, <1>8 DEF CritStep

-----------------------------------------------------------------------------
(* What a step leaves alone.                                               *)

\* The locals of the other threads; a futex wake moves a thread on.
OthersStay(t) ==
    \A u \in Threads \ {t} :
        /\ mode'[u] = mode[u] /\ addr'[u] = addr[u] /\ op'[u] = op[u] /\ want'[u] = want[u]
        /\ cmp'[u] = cmp[u] /\ value'[u] = value[u] /\ wakeAll'[u] = wakeAll[u]
        /\ victim'[u] = victim[u] /\ tids'[u] = tids[u] /\ woken'[u] = woken[u]
        /\ pc'[u] = pc[u] \/ (pc[u] = "asleep" /\ pc'[u] = "alert_take")

LEMMA WalkOthers ==
  ASSUME TypeOK, NEW t \in Threads, CallOK(t), Walk(t)
  PROVE  OthersStay(t)
  <1> USE DEF TypeOK, OthersStay, words, srw, crit, queues, waking
  <1>1. CASE Begin(t)
    BY <1>1 DEF Begin, Goto
  <1>2. CASE CondWake(t)
    BY <1>2 DEF CondWake, WakeOn, Goto
  <1>3. CASE Sleep(t)
    BY <1>3 DEF Sleep, Goto
  <1>4. CASE Wait(t)
    BY <1>4 DEF Wait, WaitOver, Goto
  <1>5. CASE AlertTake(t)
    BY <1>5 DEF AlertTake, Goto
  <1>6. CASE FutexWait(t)
    BY <1>6 DEF FutexWait, Goto
  <1>7. CASE Interrupt(t)
    BY <1>7 DEF Interrupt, Goto
  <1>8. CASE TimeOut(t)
    BY <1>8 DEF TimeOut, Goto
  <1>9. CASE LeaveWait(t)
    BY <1>9 DEF LeaveWait, WaitOver, Goto
  <1>10. CASE Unqueue(t)
    BY <1>10 DEF Unqueue, WaitOver, Goto
  <1>11. CASE WakeLock(t)
    BY <1>11 DEF WakeLock, Goto
  <1>12. CASE ScanTake(t)
    BY <1>12 DEF ScanTake, Goto
  <1>13. CASE Remove(t)
    BY <1>13 DEF Remove, Goto
  <1>14. CASE ScanEnd(t)
    BY <1>14 DEF ScanEnd, Goto
  <1>15. CASE Alert(t)
    BY <1>15 DEF Alert, Goto
  <1>16. CASE FutexWake(t)
    BY <1>16 DEF FutexWake, CallOK
  <1>17. CASE AlertEnd(t)
    BY <1>17 DEF AlertEnd, Released, WaitOn, Return, Goto
  <1> QED
    BY <1>1, <1>2, <1>3, <1>4, <1>5, <1>6, <1>7, <1>8, <1>9, <1>10, <1>11, <1>12, <1>13, <1>14, <1>15, <1>16, <1>17 DEF Walk

LEMMA SRWOthers ==
  ASSUME TypeOK, NEW t \in Threads, CallOK(t), SRWStep(t)
  PROVE  OthersStay(t)
  <1> USE DEF TypeOK, OthersStay, words, srw, crit, queues, waking
  <1>1. CASE AddExclusive(t)
    BY <1>1 DEF AddExclusive, Goto
  <1>2. CASE GetExclusive(t)
    BY <1>2 DEF GetExclusive, Hold, Return, WaitOn, Goto
  <1>3. CASE GetShared(t)
    BY <1>3 DEF GetShared, Hold, Return, WaitOn, Goto
  <1>4. CASE TryExclusive(t)
    BY <1>4 DEF TryExclusive, Hold, Return, Goto
  <1>5. CASE TryShared(t)
    BY <1>5 DEF TryShared, Hold, Return, Goto
  <1>6. CASE ReleaseExclusive(t)
    BY <1>6 DEF ReleaseExclusive, Hold, WakeOn, Goto
  <1>7. CASE ReleaseShared(t)
    BY <1>7 DEF ReleaseShared, Hold, WakeOn, Released, WaitOn, Return, Goto
  <1> QED
    BY <1>1, <1>2, <1>3, <1>4, <1>5, <1>6, <1>7 DEF SRWStep

LEMMA CritOthers ==
  ASSUME TypeOK, NEW t \in Threads, CallOK(t), CritStep(t)
  PROVE  OthersStay(t)
  <1> USE DEF TypeOK, OthersStay, words, srw, crit, queues, waking
  <1>1. CASE TryEnter(t)
    BY <1>1 DEF TryEnter, Return, Goto
  <1>2. CASE Spin(t)
    BY <1>2 DEF Spin, Goto
  <1>3. CASE Enter(t)
    BY <1>3 DEF Enter, Return, Goto
  <1>4. CASE TakeSem(t)
    BY <1>4 DEF TakeSem, WaitOn, Goto
  <1>5. CASE Got(t)
    BY <1>5 DEF Got, Hold, Return, Goto
  <1>6. CASE Leave(t)
    BY <1>6 DEF Leave, Return, Goto
  <1>7. CASE LeaveDec(t)
    BY <1>7 DEF LeaveDec, Hold, Released, WaitOn, Return, Goto
  <1>8. CASE UnWait(t)
    BY <1>8 DEF UnWait, WakeOn, Goto
  <1> QED
    BY <1>1, <1>2, <1>3, <1>4, <1>5, <1>6, <1>7, <1>8 DEF CritStep

-----------------------------------------------------------------------------
(* Where a thread is.                                                      *)

LEMMA CallOthers ==
  ASSUME NEW t \in Threads, OthersStay(t), NEW u \in Threads \ {t}, CallOK(u)
  PROVE  CallOK(u)'
  BY DEF OthersStay, CallOK, Sleeping, InWait, InWake, Without, Entering

\* An idle thread, a thread that starts to wait and one that starts to wake.
LEMMA ReturnCall ==
  ASSUME TypeOK, NEW t \in Threads, Return(t)
  PROVE  CallOK(t)'
  <1>1. pc'[t] = "idle" /\ op'[t] = "none"
    BY DEF Return, Goto, TypeOK
  <1> QED
    BY <1>1 DEF CallOK, Sleeping, InWait, InWake, Without, Entering

LEMMA WaitOnCall ==
  ASSUME TypeOK, NEW t \in Threads, CallOK(t), NEW a \in Addr, NEW v, WaitOn(t, a, v),
         pc[t] # "sleep", mode'[t] = "none", a = "cond" => Sleeping(t)
  PROVE  CallOK(t)'
  <1>1. pc'[t] = "wait" /\ op'[t] = op[t] /\ want'[t] = want[t] /\ addr'[t] = a
    BY DEF WaitOn, Goto, TypeOK
  <1> QED
    BY <1>1 DEF CallOK, Sleeping, InWait, InWake, Without, Entering

LEMMA WakeOnCall ==
  ASSUME TypeOK, NEW t \in Threads, CallOK(t), NEW a \in Addr, NEW all, WakeOn(t, a, all),
         pc[t] # "sleep", Sleeping(t) => mode'[t] = "none"
  PROVE  CallOK(t)'
  <1>1. pc'[t] = "wake" /\ op'[t] = op[t] /\ want'[t] = want[t] /\ addr'[t] = a
    BY DEF WakeOn, Goto, TypeOK
  <1> QED
    BY <1>1 DEF CallOK, Sleeping, InWait, InWake, Without, Entering

LEMMA ReleasedCall ==
  ASSUME TypeOK, NEW t \in Threads, CallOK(t), Released(t), pc[t] # "sleep", Sleeping(t) => mode'[t] = "none"
  PROVE  CallOK(t)'
  BY ReturnCall, WaitOnCall DEF Released, Addr

LEMMA WaitOverCall ==
  ASSUME TypeOK, NEW t \in Threads, CallOK(t), pc[t] \in InWait, WaitOver(t), UNCHANGED <<mode, want, addr>>
  PROVE  CallOK(t)'
  <1>1. PICK l \in {"get_exclusive", "get_shared", "take_sem", "add_exclusive", "try_enter", "enter"} : Goto(t, l)
    BY WaitOverGoes
  <1>2. pc'[t] = l /\ (op'[t] = "reacquire" \/ op'[t] = op[t])
    <2>1. op' = [op EXCEPT ![t] = IF addr[t] = "cond" THEN "reacquire" ELSE @]
      BY WaitOverGoes
    <2> QED
      BY <1>1, <2>1 DEF Goto, TypeOK
  <1>3. mode[t] = "none"
    BY DEF CallOK, Without
  <1> QED
    BY <1>1, <1>2, <1>3 DEF CallOK, Sleeping, InWait, InWake, Without, Entering

LEMMA WalkCall ==
  ASSUME LocksInv, NEW t \in Threads, CallOK(t), Walk(t)
  PROVE  CallOK(t)'
  <1> USE DEF words, srw, crit, queues, waking
  <1>0. TypeOK /\ pc \in [Threads -> PCs] /\ mode \in [Threads -> Modes]
    BY DEF LocksInv, TypeOK, Modes
  <1>1. CASE Begin(t)
    <2>1. PICK o \in Ops[t] : Allowed(t, o) /\ Goto(t, FirstStep(o, mode[t])) /\ op' = [op EXCEPT ![t] = o]
      BY <1>1 DEF Begin
    <2>2. o \in Op /\ pc'[t] = FirstStep(o, mode[t]) /\ op'[t] = o
      BY <1>0, <2>1, NtdllAssumption DEF Goto, TypeOK
    <2>3. mode'[t] = mode[t] /\ mode[t] \in Modes
      BY <1>0, <1>1 DEF Begin
    <2>4. CASE o \in {"acquire_exclusive", "acquire_shared", "try_exclusive", "try_shared"}
      BY <2>1, <2>2, <2>3, <2>4 DEF FirstStep, Allowed, CallOK, Sleeping, InWait, InWake, Without, Entering
    <2>5. CASE o = "release"
      BY <2>1, <2>2, <2>3, <2>5 DEF FirstStep, Allowed, CallOK, Sleeping, InWait, InWake, Without, Entering
    <2>6. CASE o \in {"enter", "try_enter"}
      BY <2>1, <2>2, <2>3, <2>6 DEF FirstStep, Allowed, CallOK, Sleeping, InWait, InWake, Without, Entering
    <2>7. CASE o \in {"leave", "sleep", "sleep_timed", "wake", "wake_all"}
      BY <2>1, <2>2, <2>3, <2>7 DEF FirstStep, Allowed, CallOK, Sleeping, InWait, InWake, Without, Entering
    <2> QED
      BY <2>2, <2>4, <2>5, <2>6, <2>7 DEF Op
  <1>2. CASE CondWake(t)
    BY <1>2, <1>0, WakeOnCall DEF CondWake, CallOK, Addr
  <1>3. CASE Sleep(t)
    <2>1. mode[t] \in Modes \ {"none"}
      BY <1>0, <1>3 DEF CallOK, Sleep
    <2>2. pc'[t] = ReleaseStep(mode[t]) /\ want'[t] = mode[t] /\ mode'[t] = mode[t] /\ op'[t] = op[t]
      BY <1>0, <1>3 DEF Sleep, Goto, TypeOK
    <2> QED
      BY <2>1, <2>2 DEF ReleaseStep, Modes, CallOK, Sleeping, InWait, InWake, Without, Entering
  <1>4. CASE Wait(t)
    <2>1. CASE Value(addr[t]) # cmp[t]
      BY <1>0, <1>4, <2>1, WaitOverCall DEF Wait, InWait
    <2>2. CASE Value(addr[t]) = cmp[t]
      <3>1. pc'[t] = "alert_take" /\ UNCHANGED <<op, mode, want, addr>>
        BY <1>0, <1>4, <2>2 DEF Wait, Goto
      <3> QED
        BY <1>4, <3>1 DEF Wait, CallOK, Sleeping, InWait, InWake, Without, Entering
    <2> QED
      BY <2>1, <2>2
  <1>5. CASE AlertTake(t)
    BY <1>5, <1>0 DEF AlertTake, Goto, LocksInv, TypeOK, CallOK, Sleeping, InWait, InWake, Without, Entering
  <1>6. CASE FutexWait(t)
    BY <1>6, <1>0 DEF FutexWait, Goto, LocksInv, TypeOK, CallOK, Sleeping, InWait, InWake, Without, Entering
  <1>7. CASE Interrupt(t)
    BY <1>7, <1>0 DEF Interrupt, Goto, LocksInv, TypeOK, CallOK, Sleeping, InWait, InWake, Without, Entering
  <1>8. CASE TimeOut(t)
    BY <1>8, <1>0 DEF TimeOut, Goto, LocksInv, TypeOK, CallOK, Sleeping, InWait, InWake, Without, Entering
  <1>9. CASE LeaveWait(t)
    <2>1. CASE entryAddr[t] = "null"
      BY <1>0, <1>9, <2>1, WaitOverCall DEF LeaveWait, InWait
    <2>2. CASE entryAddr[t] # "null"
      <3>1. pc'[t] = "unqueue" /\ UNCHANGED <<op, mode, want, addr>>
        BY <1>0, <1>9, <2>2 DEF LeaveWait, Goto
      <3> QED
        BY <1>9, <3>1 DEF LeaveWait, CallOK, Sleeping, InWait, InWake, Without, Entering
    <2> QED
      BY <2>1, <2>2
  <1>10. CASE Unqueue(t)
    BY <1>10, <1>0, WaitOverCall DEF Unqueue, InWait
  <1>11. CASE WakeLock(t)
    BY <1>11, <1>0 DEF WakeLock, Goto, LocksInv, TypeOK, CallOK, Sleeping, InWait, InWake, Without, Entering
  <1>12. CASE ScanTake(t)
    <2>1. pc'[t] = "remove" /\ UNCHANGED <<op, mode, want, addr>>
      BY <1>0, <1>12 DEF ScanTake, Goto
    <2>2. addr[t] \in Addr /\ Queue(t) \in Seq(Threads)
      BY <1>0, <1>12, NtdllAssumption DEF ScanTake, CallOK, InWake, Queue, TypeOK
    <2>3. \A k \in Matching(t) : Queue(t)[k] \in Threads
      BY <2>2 DEF Matching
    <2>4. victim'[t] \in Threads
      BY <1>0, <1>12, <2>3 DEF ScanTake, TypeOK
    <2> QED
      BY <1>12, <2>1, <2>4 DEF ScanTake, CallOK, Sleeping, InWait, InWake, Without, Entering
  <1>13. CASE Remove(t)
    BY <1>13, <1>0 DEF Remove, Goto, LocksInv, TypeOK, CallOK, Sleeping, InWait, InWake, Without, Entering
  <1>14. CASE ScanEnd(t)
    BY <1>14, <1>0 DEF ScanEnd, Goto, LocksInv, TypeOK, CallOK, Sleeping, InWait, InWake, Without, Entering
  <1>15. CASE Alert(t)
    <2>1. UNCHANGED <<op, mode, want, addr, victim>>
      BY <1>15 DEF Alert
    <2>2. Head(tids[t]) \in Threads
      BY <1>0, <1>15 DEF Alert, TypeOK
    <2>3. pc'[t] = "alert" \/ (pc'[t] = "futex_wake" /\ woken'[t] \in Threads)
      BY <1>0, <1>15, <2>2 DEF Alert, Goto, TypeOK
    <2> QED
      BY <1>15, <2>1, <2>3 DEF Alert, CallOK, Sleeping, InWait, InWake, Without, Entering
  <1>16. CASE FutexWake(t)
    BY <1>16, <1>0 DEF FutexWake, CallOK, LocksInv, TypeOK, CallOK, Sleeping, InWait, InWake, Without, Entering
  <1>17. CASE AlertEnd(t)
    <2>1. CASE victim[t] # NoOne
      <3>1. pc'[t] = "scan" /\ UNCHANGED <<op, mode, want, addr>>
        BY <1>0, <1>17, <2>1 DEF AlertEnd, Goto
      <3> QED
        BY <1>17, <3>1 DEF AlertEnd, CallOK, Sleeping, InWait, InWake, Without, Entering
    <2>2. CASE victim[t] = NoOne
      BY <1>0, <1>17, <2>2, ReleasedCall DEF AlertEnd, CallOK, InWake
    <2> QED
      BY <2>1, <2>2
  <1> QED
    BY <1>1, <1>2, <1>3, <1>4, <1>5, <1>6, <1>7, <1>8, <1>9, <1>10, <1>11, <1>12, <1>13, <1>14, <1>15, <1>16, <1>17 DEF Walk

LEMMA SRWCall ==
  ASSUME LocksInv, NEW t \in Threads, CallOK(t), SRWStep(t)
  PROVE  CallOK(t)'
  <1> USE DEF words, srw, crit, queues, waking
  <1>0. TypeOK /\ pc \in [Threads -> PCs] /\ mode \in [Threads -> Modes]
    BY DEF LocksInv, TypeOK, Modes
  <1>1. CASE AddExclusive(t)
    BY <1>1, <1>0 DEF AddExclusive, Goto, LocksInv, TypeOK, CallOK, Sleeping, InWait, InWake, Without, Entering
  <1>2. CASE GetExclusive(t)
    BY <1>2, <1>0, ReturnCall, WaitOnCall DEF GetExclusive, Addr, CallOK, Without
  <1>3. CASE GetShared(t)
    BY <1>3, <1>0, ReturnCall, WaitOnCall DEF GetShared, Addr, CallOK, Without
  <1>4. CASE TryExclusive(t)
    BY <1>4, <1>0, ReturnCall DEF TryExclusive
  <1>5. CASE TryShared(t)
    BY <1>5, <1>0, ReturnCall DEF TryShared
  <1>6. CASE ReleaseExclusive(t)
    BY <1>6, <1>0, WakeOnCall DEF ReleaseExclusive, Addr, Hold
  <1>7. CASE ReleaseShared(t)
    BY <1>7, <1>0, WakeOnCall, ReleasedCall DEF ReleaseShared, Addr, Hold
  <1> QED
    BY <1>1, <1>2, <1>3, <1>4, <1>5, <1>6, <1>7 DEF SRWStep

LEMMA CritCall ==
  ASSUME LocksInv, NEW t \in Threads, CallOK(t), CritStep(t)
  PROVE  CallOK(t)'
  <1> USE DEF words, srw, crit, queues, waking
  <1>0. TypeOK /\ pc \in [Threads -> PCs] /\ mode \in [Threads -> Modes]
    BY DEF LocksInv, TypeOK, Modes
  <1>1. CASE TryEnter(t)
    <2>1. lockCount = -1 \/ owner # t => mode[t] = "none"
      BY <1>0, <1>1, CountsSay DEF LocksInv, CritInv, Inside, HasCrit, TryEnter, CallOK, Entering
    <2>2. CASE Return(t)
      BY <1>0, <2>2, ReturnCall
    <2>3. CASE ~Return(t)
      <3>1. UNCHANGED <<op, mode, want>>
        BY <1>1, <2>3 DEF TryEnter
      <3>2. (pc'[t] = "got" /\ lockCount = -1) \/ pc'[t] = "spin"
        BY <1>0, <1>1, <2>3 DEF TryEnter, Goto
      <3> QED
        BY <1>1, <2>1, <3>1, <3>2 DEF TryEnter, CallOK, Sleeping, InWait, InWake, Without, Entering
    <2> QED
      BY <2>2, <2>3
  <1>2. CASE Spin(t)
    <2>1. lockCount = -1 \/ owner # t => mode[t] = "none"
      BY <1>0, <1>2, CountsSay DEF LocksInv, CritInv, Inside, HasCrit, Spin, CallOK, Entering
    <2>2. UNCHANGED <<op, mode, want>>
      BY <1>2 DEF Spin
    <2>3. (pc'[t] = "got" /\ lockCount = -1) \/ pc'[t] = "enter"
      BY <1>0, <1>2 DEF Spin, Goto
    <2> QED
      BY <1>2, <2>1, <2>2, <2>3 DEF Spin, CallOK, Sleeping, InWait, InWake, Without, Entering
  <1>3. CASE Enter(t)
    <2>1. lockCount = -1 \/ owner # t => mode[t] = "none"
      BY <1>0, <1>3, CountsSay DEF LocksInv, CritInv, Inside, HasCrit, Enter, CallOK, Entering
    <2>2. CASE lockCount # -1 /\ owner = t
      BY <1>0, <1>3, <2>2, ReturnCall DEF Enter
    <2>3. CASE lockCount = -1 \/ owner # t
      <3>1. UNCHANGED <<op, mode, want>> /\ pc'[t] \in {"got", "take_sem"}
        BY <1>0, <1>3, <2>3 DEF Enter, Goto
      <3> QED
        BY <1>3, <2>1, <2>3, <3>1 DEF Enter, CallOK, Sleeping, InWait, InWake, Without, Entering
    <2> QED
      BY <2>2, <2>3
  <1>4. CASE TakeSem(t)
    <2>1. CASE semaphore = 1
      <3>1. UNCHANGED <<op, mode, want>> /\ pc'[t] = "got"
        BY <1>0, <1>4, <2>1 DEF TakeSem, Goto
      <3> QED
        BY <1>4, <3>1 DEF TakeSem, CallOK, Sleeping, InWait, InWake, Without, Entering
    <2>2. CASE semaphore # 1
      BY <1>0, <1>4, <2>2, WaitOnCall DEF TakeSem, Addr, CallOK, Without
    <2> QED
      BY <2>1, <2>2
  <1>5. CASE Got(t)
    BY <1>5, <1>0, ReturnCall DEF Got
  <1>6. CASE Leave(t)
    BY <1>6, <1>0 DEF Leave, Return, Goto, LocksInv, TypeOK, CallOK, Sleeping, InWait, InWake, Without, Entering
  <1>7. CASE LeaveDec(t)
    <2>1. mode'[t] = "none"
      BY <1>0, <1>7 DEF LeaveDec, Hold
    <2>2. CASE lockCount > 0
      <3>1. UNCHANGED <<op, want>> /\ pc'[t] = "unwait"
        BY <1>0, <1>7, <2>2 DEF LeaveDec, Goto
      <3> QED
        BY <1>7, <2>1, <3>1 DEF LeaveDec, CallOK, Sleeping, InWait, InWake, Without, Entering
    <2>3. CASE ~(lockCount > 0)
      BY <1>0, <1>7, <2>1, <2>3, ReleasedCall DEF LeaveDec
    <2> QED
      BY <2>2, <2>3
  <1>8. CASE UnWait(t)
    BY <1>8, <1>0, WakeOnCall DEF UnWait, Addr, CallOK, Without
  <1> QED
    BY <1>1, <1>2, <1>3, <1>4, <1>5, <1>6, <1>7, <1>8 DEF CritStep

-----------------------------------------------------------------------------
(* The counts.                                                             *)

\* What the counts and the token see of where a thread is.
CritSeen(u) ==
    /\ WantsCrit(u)' <=> WantsCrit(u)
    /\ \A l \in {"got", "unwait", "leave_dec"} : pc'[u] = l <=> pc[u] = l
SameAsSeen(u) == CritSeen(u) /\ (WantsExclusive(u)' <=> WantsExclusive(u))

LEMMA OthersSeen ==
  ASSUME NEW t \in Threads, OthersStay(t), NEW u \in Threads \ {t}
  PROVE  SameAsSeen(u) /\ mode'[u] = mode[u]
  BY DEF OthersStay, SameAsSeen, CritSeen, WantsExclusive, WantsCrit, InWait

LEMMA WaitOverSeen ==
  ASSUME TypeOK, NEW t \in Threads, CallOK(t), pc[t] \in InWait, WaitOver(t), UNCHANGED addr
  PROVE  SameAsSeen(t)
  <1>1. PICK l \in {"get_exclusive", "get_shared", "take_sem", "add_exclusive", "try_enter", "enter"} :
               /\ Goto(t, l)
               /\ addr[t] = "owners" => l = "get_exclusive"
               /\ addr[t] = "srw" => l = "get_shared"
               /\ addr[t] = "sem" => l = "take_sem"
               /\ addr[t] = "cond" => l \in {"add_exclusive", "get_shared", "try_enter", "enter"}
    BY WaitOverGoes
  <1>2. pc'[t] = l /\ addr'[t] = addr[t] /\ addr[t] \in Addr
    BY <1>1 DEF Goto, TypeOK, CallOK
  <1> QED
    BY <1>1, <1>2 DEF SameAsSeen, CritSeen, WantsExclusive, WantsCrit, InWait, Addr

LEMMA WalkSeen ==
  ASSUME TypeOK, NEW t \in Threads, CallOK(t), Walk(t)
  PROVE  SameAsSeen(t) /\ UNCHANGED <<srw, crit, mode>>
  <1> USE DEF words, srw, crit, queues, waking
  <1>1. CASE Begin(t)
    <2>1. PICK o \in Ops[t] : Goto(t, FirstStep(o, mode[t]))
      BY <1>1 DEF Begin
    <2>2. o \in Op /\ pc'[t] = FirstStep(o, mode[t])
      BY <2>1, NtdllAssumption DEF Goto, TypeOK
    <2>3. pc'[t] \notin InWait \cup {"get_exclusive", "take_sem", "got", "unwait", "leave_dec"}
      BY <2>2 DEF FirstStep, Op, InWait
    <2> QED
      BY <1>1, <2>3 DEF Begin, SameAsSeen, CritSeen, WantsExclusive, WantsCrit, InWait, InWake
  <1>2. CASE CondWake(t)
    BY <1>2 DEF CondWake, WakeOn, Goto, TypeOK, SameAsSeen, CritSeen, WantsExclusive, WantsCrit, InWait, InWake
  <1>3. CASE Sleep(t)
    <2>1. mode[t] \in {"shared", "exclusive", "crit"}
      BY <1>3 DEF CallOK, Sleep, TypeOK
    <2>2. pc'[t] \in {"release_exclusive", "release_shared", "leave"}
      BY <1>3, <2>1 DEF Sleep, Goto, ReleaseStep, TypeOK
    <2> QED
      BY <1>3, <2>2 DEF Sleep, SameAsSeen, CritSeen, WantsExclusive, WantsCrit, InWait, InWake
  <1>4. CASE Wait(t)
    <2>1. CASE Value(addr[t]) # cmp[t]
      BY <1>4, <2>1, WaitOverSeen DEF Wait, InWait
    <2>2. CASE Value(addr[t]) = cmp[t]
      <3>1. pc'[t] = "alert_take" /\ addr'[t] = addr[t]
        BY <1>4, <2>2 DEF Wait, Goto, TypeOK
      <3> QED
        BY <1>4, <3>1 DEF Wait, SameAsSeen, CritSeen, WantsExclusive, WantsCrit, InWait, InWake
    <2> QED
      BY <2>1, <2>2
  <1>5. CASE AlertTake(t)
    BY <1>5 DEF AlertTake, Goto, TypeOK, SameAsSeen, CritSeen, WantsExclusive, WantsCrit, InWait, InWake
  <1>6. CASE FutexWait(t)
    BY <1>6 DEF FutexWait, Goto, TypeOK, SameAsSeen, CritSeen, WantsExclusive, WantsCrit, InWait, InWake
  <1>7. CASE Interrupt(t)
    BY <1>7 DEF Interrupt, Goto, TypeOK, SameAsSeen, CritSeen, WantsExclusive, WantsCrit, InWait, InWake
  <1>8. CASE TimeOut(t)
    BY <1>8 DEF TimeOut, Goto, TypeOK, SameAsSeen, CritSeen, WantsExclusive, WantsCrit, InWait, InWake
  <1>9. CASE LeaveWait(t)
    <2>1. CASE entryAddr[t] = "null"
      BY <1>9, <2>1, WaitOverSeen DEF LeaveWait, InWait
    <2>2. CASE entryAddr[t] # "null"
      <3>1. pc'[t] = "unqueue" /\ addr'[t] = addr[t]
        BY <1>9, <2>2 DEF LeaveWait, Goto, TypeOK
      <3> QED
        BY <1>9, <3>1 DEF LeaveWait, SameAsSeen, CritSeen, WantsExclusive, WantsCrit, InWait, InWake
    <2> QED
      BY <2>1, <2>2
  <1>10. CASE Unqueue(t)
    BY <1>10, WaitOverSeen DEF Unqueue, InWait
  <1>11. CASE WakeLock(t)
    BY <1>11 DEF WakeLock, Goto, TypeOK, SameAsSeen, CritSeen, WantsExclusive, WantsCrit, InWait, InWake
  <1>12. CASE ScanTake(t)
    BY <1>12 DEF ScanTake, Goto, TypeOK, SameAsSeen, CritSeen, WantsExclusive, WantsCrit, InWait, InWake
  <1>13. CASE Remove(t)
    BY <1>13 DEF Remove, Goto, TypeOK, SameAsSeen, CritSeen, WantsExclusive, WantsCrit, InWait, InWake
  <1>14. CASE ScanEnd(t)
    BY <1>14 DEF ScanEnd, Goto, TypeOK, SameAsSeen, CritSeen, WantsExclusive, WantsCrit, InWait, InWake
  <1>15. CASE Alert(t)
    <2>1. pc'[t] \in {"alert", "futex_wake"}
      BY <1>15 DEF Alert, Goto, TypeOK
    <2> QED
      BY <1>15, <2>1 DEF Alert, SameAsSeen, CritSeen, WantsExclusive, WantsCrit, InWait, InWake
  <1>16. CASE FutexWake(t)
    <2>1. pc'[t] = "alert"
      BY <1>16 DEF FutexWake, TypeOK
    <2> QED
      BY <1>16, <2>1 DEF FutexWake, SameAsSeen, CritSeen, WantsExclusive, WantsCrit, InWait, InWake
  <1>17. CASE AlertEnd(t)
    <2>1. pc'[t] \in {"scan", "idle"} \/ (pc'[t] = "wait" /\ addr'[t] = "cond")
      BY <1>17 DEF AlertEnd, Released, WaitOn, Return, Goto, TypeOK
    <2> QED
      BY <1>17, <2>1 DEF AlertEnd, SameAsSeen, CritSeen, WantsExclusive, WantsCrit, InWait, InWake
  <1> QED
    BY <1>1, <1>2, <1>3, <1>4, <1>5, <1>6, <1>7, <1>8, <1>9, <1>10, <1>11, <1>12, <1>13, <1>14, <1>15, <1>16, <1>17 DEF Walk

\* Nothing that the invariants of the locks speak of changes.
LEMMA SRWKept ==
  ASSUME SRWInv, UNCHANGED srw,
         \A u \in Threads : /\ WantsExclusive(u)' <=> WantsExclusive(u)
                            /\ \A m \in {"shared", "exclusive"} : mode'[u] = m <=> mode[u] = m
  PROVE  SRWInv'
  <1>1. Owning' = Owning /\ Wanting' = Wanting
    BY DEF Owning, Wanting
  <1> QED
    BY <1>1 DEF SRWInv, srw

LEMMA CritKept ==
  ASSUME CritInv, UNCHANGED crit,
         \A u \in Threads : CritSeen(u) /\ (mode'[u] = "crit" <=> mode[u] = "crit")
  PROVE  CritInv'
  <1>1. Waiting' = Waiting
    BY DEF Waiting, CritSeen
  <1>2. \A u \in Threads : /\ HasCrit(u)' <=> HasCrit(u)
                           /\ Inside(u)' <=> Inside(u)
                           /\ Token(u)' <=> Token(u)
                           /\ (pc[u] = "unwait")' <=> pc[u] = "unwait"
    BY DEF CritSeen, HasCrit, Inside, Token
  <1>3. Depth' = Depth
    BY <1>2 DEF Depth, crit
  <1> QED
    BY <1>1, <1>2, <1>3 DEF CritInv, crit

LEMMA WalkLocks ==
  ASSUME LocksInv, NEW t \in Threads, Walk(t)
  PROVE  SRWInv' /\ CritInv'
  <1>1. TypeOK /\ CallOK(t) /\ SRWInv /\ CritInv
    BY DEF LocksInv, CallInv
  <1>2. \A u \in Threads : SameAsSeen(u)
    BY <1>1, WalkSeen, OthersSeen, WalkOthers
  <1>3. UNCHANGED <<srw, crit, mode>>
    BY <1>1, WalkSeen
  <1> QED
    BY <1>1, <1>2, <1>3, SRWKept, CritKept DEF SameAsSeen

LEMMA SRWSeen ==
  ASSUME TypeOK, NEW t \in Threads, CallOK(t), SRWStep(t)
  PROVE  CritSeen(t) /\ (mode'[t] = "crit" <=> mode[t] = "crit") /\ UNCHANGED crit
  <1> USE DEF words, srw, crit, queues, waking, TypeOK, CritSeen, WantsCrit, InWait, InWake, CallOK, Without
  <1>1. CASE AddExclusive(t)
    BY <1>1 DEF AddExclusive, Goto
  <1>2. CASE GetExclusive(t)
    BY <1>2 DEF GetExclusive, Hold, Return, WaitOn, Goto
  <1>3. CASE GetShared(t)
    BY <1>3 DEF GetShared, Hold, Return, WaitOn, Goto
  <1>4. CASE TryExclusive(t)
    BY <1>4 DEF TryExclusive, Hold, Return, Goto
  <1>5. CASE TryShared(t)
    BY <1>5 DEF TryShared, Hold, Return, Goto
  <1>6. CASE ReleaseExclusive(t)
    BY <1>6 DEF ReleaseExclusive, Hold, WakeOn, Goto
  <1>7. CASE ReleaseShared(t)
    BY <1>7 DEF ReleaseShared, Hold, WakeOn, Released, WaitOn, Return, Goto, Sleeping
  <1> QED
    BY <1>1, <1>2, <1>3, <1>4, <1>5, <1>6, <1>7 DEF SRWStep

LEMMA CritNotSeen ==
  ASSUME TypeOK, NEW t \in Threads, CallOK(t), CritStep(t)
  PROVE  /\ WantsExclusive(t)' <=> WantsExclusive(t)
         /\ \A m \in {"shared", "exclusive"} : mode'[t] = m <=> mode[t] = m
         /\ UNCHANGED srw
  <1> USE DEF words, srw, crit, queues, waking, TypeOK, WantsExclusive, InWait, InWake, CallOK, Without
  <1>1. CASE TryEnter(t)
    BY <1>1 DEF TryEnter, Return, Goto
  <1>2. CASE Spin(t)
    BY <1>2 DEF Spin, Goto
  <1>3. CASE Enter(t)
    BY <1>3 DEF Enter, Return, Goto
  <1>4. CASE TakeSem(t)
    BY <1>4 DEF TakeSem, WaitOn, Goto
  <1>5. CASE Got(t)
    BY <1>5 DEF Got, Hold, Return, Goto
  <1>6. CASE Leave(t)
    BY <1>6 DEF Leave, Return, Goto
  <1>7. CASE LeaveDec(t)
    BY <1>7 DEF LeaveDec, Hold, Released, WaitOn, Return, Goto, Sleeping
  <1>8. CASE UnWait(t)
    BY <1>8 DEF UnWait, WakeOn, Goto
  <1> QED
    BY <1>1, <1>2, <1>3, <1>4, <1>5, <1>6, <1>7, <1>8 DEF CritStep

\* A thread takes the SRW lock, or leaves it; others do not move.
LEMMA OwningGrows ==
  ASSUME TypeOK, NEW t \in Threads, OthersStay(t)
  PROVE  /\ mode[t] = "none" /\ mode'[t] \in {"shared", "exclusive"} => t \notin Owning /\ Owning' = Owning \cup {t}
         /\ mode[t] \in {"shared", "exclusive"} /\ mode'[t] = "none" => t \in Owning /\ Owning' = Owning \ {t}
         /\ mode'[t] = mode[t] => Owning' = Owning
  BY DEF Owning, OthersStay

LEMMA WantingGrows ==
  ASSUME TypeOK, NEW t \in Threads, OthersStay(t)
  PROVE  /\ ~WantsExclusive(t) /\ WantsExclusive(t)' => t \notin Wanting /\ Wanting' = Wanting \cup {t}
         /\ WantsExclusive(t) /\ ~WantsExclusive(t)' => t \in Wanting /\ Wanting' = Wanting \ {t}
         /\ (WantsExclusive(t)' <=> WantsExclusive(t)) => Wanting' = Wanting
  <1>1. \A u \in Threads \ {t} : WantsExclusive(u)' <=> WantsExclusive(u)
    BY OthersSeen DEF SameAsSeen
  <1> QED
    BY <1>1 DEF Wanting

LEMMA SRWLocks ==
  ASSUME LocksInv, NEW t \in Threads, SRWStep(t)
  PROVE  SRWInv' /\ CritInv'
  <1>1. TypeOK /\ CallOK(t) /\ SRWInv /\ CritInv
    BY DEF LocksInv, CallInv
  <1>2. OthersStay(t)
    BY <1>1, SRWOthers
  <1>3. CritInv'
    BY <1>1, <1>2, SRWSeen, OthersSeen, CritKept DEF SameAsSeen
  <1>4. \A u \in Threads \ {t} : mode'[u] = mode[u]
    BY <1>2 DEF OthersStay
  <1>5. Owning \in SUBSET Threads /\ Wanting \in SUBSET Threads
    BY DEF Owning, Wanting
  <1>6. \A u \in Threads : mode[u] \in Modes
    BY <1>1 DEF TypeOK, Modes
  <1>7. owners \in Nat /\ exclWaiters \in Nat
    BY <1>1 DEF TypeOK
  \* what each action does to the holders and to those who want the lock
  <1>8. ASSUME UNCHANGED <<owners, exclusive>>, mode'[t] = mode[t],
               exclWaiters' = Cardinality(Wanting')
        PROVE  SRWInv'
    <2>1. Owning' = Owning
      BY <1>1, <1>2, <1>8, OwningGrows
    <2> QED
      BY <1>1, <1>4, <1>8, <2>1 DEF SRWInv
  <1>9. ASSUME mode[t] = "none", mode'[t] = "exclusive", owners = 0, owners' = 1, exclusive' = TRUE,
               exclWaiters' = Cardinality(Wanting')
        PROVE  SRWInv'
    <2>1. Owning = {}
      BY <1>1, <1>5, <1>9, CountChanges DEF SRWInv
    <2>2. Owning' = Owning \cup {t} /\ t \notin Owning
      BY <1>1, <1>2, <1>9, OwningGrows
    <2>3. Cardinality(Owning') = 1
      BY <2>1, <2>2, FS_Singleton
    <2>4. \A u \in Threads : mode'[u] \in {"shared", "exclusive"} => u = t
      BY <2>1, <2>2 DEF Owning
    <2> QED
      BY <1>9, <2>3, <2>4 DEF SRWInv
  <1>10. ASSUME mode[t] = "none", mode'[t] = "shared", owners' = owners + 1, UNCHANGED exclusive, ~exclusive,
                exclWaiters' = Cardinality(Wanting')
         PROVE  SRWInv'
    <2>1. Owning' = Owning \cup {t} /\ t \notin Owning
      BY <1>1, <1>2, <1>10, OwningGrows
    <2>2. Cardinality(Owning') = Cardinality(Owning) + 1
      BY <1>5, <2>1, CountChanges
    <2>3. \A u \in Threads : mode'[u] # "exclusive"
      BY <1>1, <1>4, <1>10 DEF SRWInv
    <2> QED
      BY <1>1, <1>10, <2>2, <2>3 DEF SRWInv
  <1>11. ASSUME mode[t] = "exclusive", mode'[t] = "none", owners' = 0, exclusive' = FALSE,
                exclWaiters' = Cardinality(Wanting')
         PROVE  SRWInv'
    <2>1. \A u \in Threads : mode'[u] \notin {"shared", "exclusive"}
      BY <1>1, <1>4, <1>11 DEF SRWInv
    <2>2. Owning' = {}
      BY <2>1 DEF Owning
    <2>3. Cardinality(Owning') = 0
      BY <2>2, FS_EmptySet
    <2> QED
      BY <1>11, <2>1, <2>3 DEF SRWInv
  <1>12. ASSUME mode[t] = "shared", mode'[t] = "none", owners' = owners - 1, UNCHANGED exclusive,
                exclWaiters' = Cardinality(Wanting')
         PROVE  SRWInv'
    <2>1. Owning' = Owning \ {t} /\ t \in Owning
      BY <1>1, <1>2, <1>12, OwningGrows
    <2>2. Cardinality(Owning') = Cardinality(Owning) - 1
      BY <1>5, <2>1, CountChanges
    <2>3. \A u \in Threads : mode'[u] = "exclusive" <=> mode[u] = "exclusive"
      BY <1>4, <1>12
    <2>4. \A u \in Threads : mode'[u] = "shared" => mode[u] = "shared"
      BY <1>4, <1>12
    <2> QED
      BY <1>1, <1>12, <2>2, <2>3, <2>4 DEF SRWInv
  <1>13. ASSUME UNCHANGED exclWaiters, WantsExclusive(t)' <=> WantsExclusive(t)
         PROVE  exclWaiters' = Cardinality(Wanting')
    BY <1>1, <1>2, <1>13, WantingGrows DEF SRWInv
  \* the actions
  <1> USE DEF InWait, InWake, Without
  <1>14. CASE AddExclusive(t)
    <2>1. ~WantsExclusive(t) /\ WantsExclusive(t)' /\ mode'[t] = mode[t] /\ UNCHANGED <<owners, exclusive>>
      BY <1>1, <1>14 DEF AddExclusive, Goto, WantsExclusive, TypeOK
    <2>2. exclWaiters' = Cardinality(Wanting')
      BY <1>1, <1>2, <1>5, <1>14, <2>1, WantingGrows, CountChanges DEF AddExclusive, SRWInv
    <2> QED
      BY <1>3, <1>8, <2>1, <2>2
  <1>15. CASE GetExclusive(t)
    <2>1. mode[t] = "none" /\ WantsExclusive(t)
      BY <1>1, <1>15 DEF CallOK, GetExclusive, WantsExclusive
    <2>2. CASE owners = 0
      <3>1. /\ mode'[t] = "exclusive" /\ owners' = 1 /\ exclusive' = TRUE
            /\ exclWaiters' = exclWaiters - 1 /\ pc'[t] = "idle"
        BY <1>1, <1>15, <2>2 DEF GetExclusive, Hold, Return, Goto, TypeOK
      <3>2. ~WantsExclusive(t)'
        BY <3>1 DEF WantsExclusive
      <3>3. exclWaiters' = Cardinality(Wanting')
        BY <1>1, <1>2, <1>5, <2>1, <3>1, <3>2, WantingGrows, CountChanges DEF SRWInv
      <3> QED
        BY <1>3, <1>9, <2>1, <2>2, <3>1, <3>3
    <2>3. CASE owners # 0
      <3>1. UNCHANGED <<exclWaiters, exclusive, owners, mode>> /\ pc'[t] = "wait" /\ addr'[t] = "owners"
        BY <1>1, <1>15, <2>3 DEF GetExclusive, WaitOn, Goto, TypeOK, srw
      <3>2. WantsExclusive(t)'
        BY <3>1 DEF WantsExclusive
      <3> QED
        BY <1>3, <1>8, <1>13, <2>1, <3>1, <3>2
    <2> QED
      BY <2>2, <2>3
  <1>16. ASSUME mode[t] = "none", UNCHANGED <<exclWaiters, exclusive>>, WantsExclusive(t)' <=> WantsExclusive(t),
                \/ ~exclusive /\ owners' = owners + 1 /\ mode'[t] = "shared"
                \/ owners' = owners /\ mode'[t] = mode[t]
         PROVE  SRWInv'
    BY <1>8, <1>10, <1>13, <1>16
  <1>17. CASE GetShared(t)
    <2>1. mode[t] = "none" /\ ~WantsExclusive(t)
      BY <1>1, <1>17 DEF CallOK, GetShared, WantsExclusive
    <2>2. pc'[t] = "idle" \/ (pc'[t] = "wait" /\ addr'[t] = "srw")
      BY <1>1, <1>17 DEF GetShared, WaitOn, Return, Goto, TypeOK
    <2>3. ~WantsExclusive(t)'
      BY <2>2 DEF WantsExclusive
    <2>4. \/ ~exclusive /\ owners' = owners + 1 /\ mode'[t] = "shared"
          \/ owners' = owners /\ mode'[t] = mode[t]
      BY <1>1, <1>17 DEF GetShared, Hold, TypeOK
    <2> QED
      BY <1>3, <1>16, <1>17, <2>1, <2>3, <2>4 DEF GetShared
  <1>18. CASE TryShared(t)
    <2>1. mode[t] = "none" /\ ~WantsExclusive(t)
      BY <1>1, <1>18 DEF CallOK, TryShared, WantsExclusive
    <2>2. ~WantsExclusive(t)'
      BY <1>1, <1>18 DEF TryShared, Return, Goto, TypeOK, WantsExclusive
    <2>3. \/ ~exclusive /\ owners' = owners + 1 /\ mode'[t] = "shared"
          \/ owners' = owners /\ mode'[t] = mode[t]
      BY <1>1, <1>18 DEF TryShared, Hold, TypeOK
    <2> QED
      BY <1>3, <1>16, <1>18, <2>1, <2>2, <2>3 DEF TryShared
  <1>19. CASE TryExclusive(t)
    <2>1. mode[t] = "none" /\ ~WantsExclusive(t)
      BY <1>1, <1>19 DEF CallOK, TryExclusive, WantsExclusive
    <2>2. ~WantsExclusive(t)' /\ UNCHANGED exclWaiters
      BY <1>1, <1>19 DEF TryExclusive, Return, Goto, TypeOK, WantsExclusive
    <2>3. exclWaiters' = Cardinality(Wanting')
      BY <1>13, <2>1, <2>2
    <2>4. \/ owners = 0 /\ owners' = 1 /\ exclusive' = TRUE /\ mode'[t] = "exclusive"
          \/ UNCHANGED <<owners, exclusive>> /\ mode'[t] = mode[t]
      BY <1>1, <1>19 DEF TryExclusive, Hold, TypeOK
    <2> QED
      BY <1>3, <1>8, <1>9, <2>1, <2>3, <2>4
  <1>20. CASE ReleaseExclusive(t)
    <2>1. mode[t] = "exclusive" /\ ~WantsExclusive(t)
      BY <1>1, <1>20 DEF CallOK, ReleaseExclusive, WantsExclusive
    <2>2. ~WantsExclusive(t)' /\ UNCHANGED exclWaiters
      BY <1>1, <1>20 DEF ReleaseExclusive, WakeOn, Goto, TypeOK, WantsExclusive
    <2>3. owners' = 0 /\ exclusive' = FALSE /\ mode'[t] = "none"
      BY <1>1, <1>20 DEF ReleaseExclusive, Hold, TypeOK
    <2> QED
      BY <1>3, <1>11, <1>13, <2>1, <2>2, <2>3
  <1>21. CASE ReleaseShared(t)
    <2>1. mode[t] = "shared" /\ ~WantsExclusive(t)
      BY <1>1, <1>21 DEF CallOK, ReleaseShared, WantsExclusive
    <2>2. pc'[t] \in {"wake", "idle"} \/ (pc'[t] = "wait" /\ addr'[t] = "cond")
      BY <1>1, <1>21 DEF ReleaseShared, WakeOn, Released, WaitOn, Return, Goto, TypeOK
    <2>3. ~WantsExclusive(t)'
      BY <2>2 DEF WantsExclusive
    <2>4. owners' = owners - 1 /\ mode'[t] = "none" /\ UNCHANGED <<exclWaiters, exclusive>>
      BY <1>1, <1>21 DEF ReleaseShared, Hold, TypeOK
    <2> QED
      BY <1>3, <1>12, <1>13, <2>1, <2>3, <2>4
  <1> QED
    BY <1>3, <1>14, <1>15, <1>17, <1>18, <1>19, <1>20, <1>21 DEF SRWStep

LEMMA WaitingGrows ==
  ASSUME TypeOK, NEW t \in Threads, OthersStay(t)
  PROVE  /\ ~WantsCrit(t) /\ WantsCrit(t)' => t \notin Waiting /\ Waiting' = Waiting \cup {t}
         /\ WantsCrit(t) /\ ~WantsCrit(t)' => t \in Waiting /\ Waiting' = Waiting \ {t}
         /\ (WantsCrit(t)' <=> WantsCrit(t)) => Waiting' = Waiting
  <1>1. \A u \in Threads \ {t} : WantsCrit(u)' <=> WantsCrit(u)
    BY OthersSeen DEF SameAsSeen, CritSeen
  <1> QED
    BY <1>1 DEF Waiting

LEMMA CritOthersSeen ==
  ASSUME NEW t \in Threads, OthersStay(t), NEW u \in Threads \ {t}
  PROVE  /\ HasCrit(u)' <=> HasCrit(u)
         /\ Inside(u)' <=> Inside(u)
         /\ Token(u)' <=> Token(u)
         /\ (pc[u] = "unwait")' <=> pc[u] = "unwait"
  BY OthersSeen DEF SameAsSeen, CritSeen, HasCrit, Inside, Token

\* The depth, when at most t has the critical section.
LEMMA DepthOf ==
  ASSUME NEW t \in Threads
  PROVE  /\ (\A u \in Threads \ {t} : ~HasCrit(u)) =>
               Depth = IF Inside(t) THEN recursion ELSE IF HasCrit(t) THEN 1 ELSE 0
         /\ (\A u \in Threads \ {t} : ~HasCrit(u)') =>
               Depth' = IF Inside(t)' THEN recursion' ELSE IF HasCrit(t)' THEN 1 ELSE 0
  <1>1. \A u \in Threads : (Inside(u) => HasCrit(u)) /\ (Inside(u)' => HasCrit(u)')
    BY DEF Inside, HasCrit
  <1> QED
    BY <1>1 DEF Depth

\* A free critical section: no token anywhere.
LEMMA FreeCrit ==
  ASSUME LocksInv, lockCount = -1
  PROVE  Waiting = {} /\ Depth = 0 /\ semaphore = 0 /\ \A u \in Threads : ~Token(u)
  <1>1. Waiting \in SUBSET Threads
    BY DEF Waiting
  <1>2. Cardinality(Waiting) \in Nat /\ Depth \in Nat /\ lockCount + 1 = Cardinality(Waiting) + Depth
    BY <1>1, CountChanges DEF LocksInv, CritInv, TypeOK, Depth
  <1>3. Waiting = {} /\ Depth = 0
    <2>1. Cardinality(Waiting) = 0 /\ Depth = 0
      BY <1>2
    <2> QED
      BY <1>1, <2>1, CountChanges
  <1>4. \A u \in Threads : ~HasCrit(u)
    BY <1>3 DEF Depth, LocksInv, CritInv
  <1> QED
    BY <1>3, <1>4 DEF LocksInv, CritInv, TypeOK, Token

LEMMA CritLocks ==
  ASSUME LocksInv, NEW t \in Threads, CritStep(t)
  PROVE  SRWInv' /\ CritInv'
  <1>1. TypeOK /\ CallOK(t) /\ SRWInv /\ CritInv
    BY DEF LocksInv, CallInv
  <1>2. OthersStay(t)
    BY <1>1, CritOthers
  <1>3. SRWInv'
    BY <1>1, <1>2, CritNotSeen, OthersSeen, SRWKept DEF SameAsSeen
  <1>4. \A u \in Threads \ {t} : /\ HasCrit(u)' <=> HasCrit(u)
                                 /\ Inside(u)' <=> Inside(u)
                                 /\ Token(u)' <=> Token(u)
                                 /\ (pc[u] = "unwait")' <=> pc[u] = "unwait"
    BY <1>2, CritOthersSeen
  <1>5. Waiting \in SUBSET Threads /\ Cardinality(Waiting) \in Nat
    BY CountChanges DEF Waiting
  <1>6. /\ \A u \in Threads : Inside(u) => HasCrit(u)
        /\ \A u \in Threads : HasCrit(u) => Token(u)
        /\ lockCount \in Int /\ recursion \in Nat
    BY <1>1 DEF Inside, HasCrit, Token, TypeOK
  <1>7. NoOne \notin Threads
    BY NtdllAssumption
  \* what the actions do to the token
  <1>8. ASSUME UNCHANGED crit, CritSeen(t), mode'[t] = mode[t]
        PROVE  CritInv'
    BY <1>1, <1>2, <1>8, OthersSeen, CritKept DEF SameAsSeen
  <1>9. ASSUME lockCount = -1, lockCount' = 0, UNCHANGED <<recursion, owner, semaphore>>,
               HasCrit(t)', ~Inside(t)', pc'[t] # "unwait", ~WantsCrit(t), ~WantsCrit(t)'
        PROVE  CritInv'
    <2>1. Waiting = {} /\ Depth = 0 /\ semaphore = 0 /\ \A u \in Threads : ~Token(u)
      BY <1>9, FreeCrit
    <2>2. Waiting' = {}
      BY <1>1, <1>2, <1>9, <2>1, WaitingGrows
    <2>3. Depth' = 1
      BY <1>4, <1>6, <1>9, <2>1, DepthOf
    <2>4. \A u \in Threads : (Token(u)' => u = t) /\ ~Inside(u)' /\ pc'[u] # "unwait"
      BY <1>4, <1>6, <1>9, <2>1 DEF Token
    <2>5. \A u \in Threads : owner # u
      BY <1>1, <1>6, <2>1 DEF CritInv
    <2>6. lockCount' + 1 = Cardinality(Waiting') + Depth'
      BY <1>9, <2>2, <2>3, FS_EmptySet
    <2> QED
      BY <1>9, <2>1, <2>2, <2>4, <2>5, <2>6 DEF CritInv
  <1>10. ASSUME Inside(t), Inside(t)', UNCHANGED <<owner, semaphore>>, WantsCrit(t)' <=> WantsCrit(t),
                pc'[t] # "unwait", NEW d \in Int, recursion' = recursion + d, lockCount' = lockCount + d,
                recursion' > 0
         PROVE  CritInv'
    <2>1. \A u \in Threads : Token(u) => u = t
      BY <1>1, <1>6, <1>10 DEF CritInv
    <2>2. \A u \in Threads : Token(u)' <=> Token(u)
      BY <1>4, <1>6, <1>10 DEF Token, Inside, HasCrit
    <2>3. Depth = recursion /\ Depth' = recursion'
      BY <1>10 DEF Depth
    <2>4. Waiting' = Waiting
      BY <1>1, <1>2, <1>10, WaitingGrows
    <2>5. lockCount' + 1 = Cardinality(Waiting') + Depth'
      BY <1>1, <1>5, <1>6, <1>10, <2>3, <2>4 DEF CritInv
    <2>6. \A u \in Threads : Inside(u)' <=> owner' = u
      BY <1>1, <1>4, <1>10 DEF CritInv
    <2>7. \A u \in Threads : pc'[u] = "unwait" => pc[u] = "unwait"
      BY <1>4, <1>10
    <2> QED
      BY <1>1, <1>10, <2>2, <2>4, <2>5, <2>6, <2>7 DEF CritInv
  <1> USE DEF InWait, InWake, Without
  <1>11. CASE TryEnter(t)
    <2>1. ~WantsCrit(t) /\ pc[t] = "try_enter"
      BY <1>11 DEF TryEnter, WantsCrit
    <2>2. CASE lockCount = -1
      <3>1. /\ lockCount' = 0 /\ pc'[t] = "got" /\ UNCHANGED <<recursion, owner, semaphore, mode>>
        BY <1>1, <1>11, <2>2 DEF TryEnter, Goto, TypeOK
      <3>2. mode[t] # "crit"
        BY <2>2, FreeCrit DEF Token, HasCrit
      <3> QED
        BY <1>3, <1>9, <2>1, <2>2, <3>1, <3>2 DEF HasCrit, Inside, WantsCrit
    <2>3. CASE lockCount # -1 /\ owner = t
      <3>1. /\ lockCount' = lockCount + 1 /\ recursion' = recursion + 1 /\ pc'[t] = "idle"
            /\ UNCHANGED <<owner, semaphore, mode>>
        BY <1>1, <1>11, <2>3 DEF TryEnter, Return, Goto, TypeOK
      <3>2. Inside(t)
        BY <1>1, <2>3 DEF CritInv
      <3> QED
        BY <1>3, <1>6, <1>10, <2>1, <3>1, <3>2 DEF Inside, WantsCrit
    <2>4. CASE lockCount # -1 /\ owner # t
      <3>1. UNCHANGED crit /\ UNCHANGED mode /\ pc'[t] \in {"idle", "spin"}
        BY <1>1, <1>11, <2>4 DEF TryEnter, Return, Goto, TypeOK, crit
      <3> QED
        BY <1>3, <1>8, <2>1, <3>1 DEF CritSeen, WantsCrit
    <2> QED
      BY <2>2, <2>3, <2>4
  <1>12. CASE Spin(t)
    <2>1. ~WantsCrit(t) /\ pc[t] = "spin"
      BY <1>12 DEF Spin, WantsCrit
    <2>2. CASE lockCount = -1 /\ lockCount' = 0 /\ Goto(t, "got")
      <3>1. pc'[t] = "got" /\ UNCHANGED <<recursion, owner, semaphore, mode>>
        BY <1>1, <1>12, <2>2 DEF Spin, Goto, TypeOK
      <3>2. mode[t] # "crit"
        BY <2>2, FreeCrit DEF Token, HasCrit
      <3> QED
        BY <1>3, <1>9, <2>1, <2>2, <3>1, <3>2 DEF HasCrit, Inside, WantsCrit
    <2>3. CASE UNCHANGED lockCount /\ Goto(t, "enter")
      <3>1. UNCHANGED crit /\ UNCHANGED mode /\ pc'[t] = "enter"
        BY <1>1, <1>12, <2>3 DEF Spin, Goto, TypeOK, crit
      <3> QED
        BY <1>3, <1>8, <2>1, <3>1 DEF CritSeen, WantsCrit
    <2> QED
      BY <1>12, <2>2, <2>3 DEF Spin
  <1>13. CASE Enter(t)
    <2>1. ~WantsCrit(t) /\ pc[t] = "enter"
      BY <1>13 DEF Enter, WantsCrit
    <2>2. CASE lockCount = -1
      <3>1. /\ lockCount' = 0 /\ pc'[t] = "got" /\ UNCHANGED <<recursion, owner, semaphore, mode>>
        BY <1>1, <1>13, <2>2 DEF Enter, Goto, TypeOK
      <3>2. mode[t] # "crit"
        BY <2>2, FreeCrit DEF Token, HasCrit
      <3> QED
        BY <1>3, <1>9, <2>1, <2>2, <3>1, <3>2 DEF HasCrit, Inside, WantsCrit
    <2>3. CASE lockCount # -1 /\ owner = t
      <3>1. /\ lockCount' = lockCount + 1 /\ recursion' = recursion + 1 /\ pc'[t] = "idle"
            /\ UNCHANGED <<owner, semaphore, mode>>
        BY <1>1, <1>13, <2>3 DEF Enter, Return, Goto, TypeOK
      <3>2. Inside(t)
        BY <1>1, <2>3 DEF CritInv
      <3> QED
        BY <1>3, <1>6, <1>10, <2>1, <3>1, <3>2 DEF Inside, WantsCrit
    <2>4. CASE lockCount # -1 /\ owner # t
      <3>1. /\ lockCount' = lockCount + 1 /\ pc'[t] = "take_sem"
            /\ UNCHANGED <<recursion, owner, semaphore, mode>>
        BY <1>1, <1>13, <2>4 DEF Enter, Goto, TypeOK
      <3>2. \A u \in Threads : /\ HasCrit(u)' <=> HasCrit(u)
                               /\ Inside(u)' <=> Inside(u)
                               /\ Token(u)' <=> Token(u)
                               /\ pc'[u] = "unwait" <=> pc[u] = "unwait"
        BY <1>4, <2>1, <3>1 DEF HasCrit, Inside, Token
      <3>3. Depth' = Depth
        BY <3>1, <3>2 DEF Depth
      <3>4. Waiting' = Waiting \cup {t} /\ t \notin Waiting
        BY <1>1, <1>2, <2>1, <3>1, WaitingGrows DEF WantsCrit
      <3>5. Cardinality(Waiting') = Cardinality(Waiting) + 1
        BY <1>5, <3>4, CountChanges
      <3>6. Depth \in Nat
        BY <1>6 DEF Depth
      <3>7. lockCount' + 1 = Cardinality(Waiting') + Depth'
        BY <1>1, <1>5, <1>6, <3>1, <3>3, <3>5, <3>6 DEF CritInv
      <3>8. semaphore = 1 \/ \E u \in Threads : Token(u)
        <4>1. CASE Waiting = {}
          <5>1. Cardinality(Waiting) = 0 /\ lockCount + 1 = Cardinality(Waiting) + Depth
            BY <1>1, <4>1, FS_EmptySet DEF CritInv
          <5>2. Depth # 0
            BY <1>6, <2>4, <3>6, <5>1
          <5> QED
            BY <1>6, <5>2 DEF Depth
        <4>2. CASE Waiting # {}
          BY <1>1, <4>2 DEF CritInv
        <4> QED
          BY <4>1, <4>2
      <3>9. CritInv'
        BY <1>1, <3>1, <3>2, <3>4, <3>7, <3>8 DEF CritInv
      <3> QED
        BY <1>3, <3>9
    <2> QED
      BY <2>2, <2>3, <2>4
  <1>14. CASE TakeSem(t)
    <2>1. WantsCrit(t) /\ pc[t] = "take_sem" /\ mode[t] = "none"
      BY <1>1, <1>14 DEF TakeSem, WantsCrit, CallOK
    <2>2. CASE semaphore = 1
      <3>1. /\ semaphore' = 0 /\ pc'[t] = "got" /\ UNCHANGED <<lockCount, recursion, owner, mode>>
        BY <1>1, <1>14, <2>2 DEF TakeSem, Goto, TypeOK
      <3>2. \A u \in Threads : ~Token(u)
        BY <1>1, <2>2 DEF CritInv
      <3>3. /\ HasCrit(t)' /\ ~Inside(t)' /\ ~WantsCrit(t)' /\ Token(t)'
        BY <2>1, <3>1 DEF HasCrit, Inside, WantsCrit, Token
      <3>4. Depth = 0 /\ Depth' = 1
        BY <1>4, <1>6, <3>2, <3>3, DepthOf
      <3>5. Waiting' = Waiting \ {t} /\ t \in Waiting
        BY <1>1, <1>2, <2>1, <3>3, WaitingGrows
      <3>6. Cardinality(Waiting') = Cardinality(Waiting) - 1
        BY <1>5, <3>5, CountChanges
      <3>7. lockCount' + 1 = Cardinality(Waiting') + Depth'
        BY <1>1, <1>5, <1>6, <3>1, <3>4, <3>6 DEF CritInv
      <3>8. \A u \in Threads : (Token(u)' => u = t) /\ ~Inside(u)' /\ pc'[u] # "unwait"
        BY <1>4, <1>6, <3>1, <3>2, <3>3 DEF Token
      <3>9. \A u \in Threads : owner # u
        BY <1>1, <1>6, <3>2 DEF CritInv
      <3>10. CritInv'
        BY <3>1, <3>3, <3>7, <3>8, <3>9 DEF CritInv
      <3> QED
        BY <1>3, <3>10
    <2>3. CASE semaphore # 1
      <3>1. UNCHANGED crit /\ UNCHANGED mode /\ pc'[t] = "wait" /\ addr'[t] = "sem"
        BY <1>1, <1>14, <2>3 DEF TakeSem, WaitOn, Goto, TypeOK, crit
      <3> QED
        BY <1>3, <1>8, <2>1, <3>1 DEF CritSeen, WantsCrit
    <2> QED
      BY <2>2, <2>3
  <1>15. CASE Got(t)
    <2>1. ~WantsCrit(t) /\ pc[t] = "got" /\ mode[t] = "none" /\ Token(t) /\ ~Inside(t) /\ HasCrit(t)
      BY <1>1, <1>15 DEF Got, WantsCrit, CallOK, Token, HasCrit, Inside
    <2>2. /\ owner' = t /\ recursion' = 1 /\ mode'[t] = "crit" /\ pc'[t] = "idle"
          /\ UNCHANGED <<lockCount, semaphore>>
      BY <1>1, <1>15 DEF Got, Hold, Return, Goto, TypeOK
    <2>3. \A u \in Threads : Token(u) => u = t
      BY <1>1, <2>1 DEF CritInv
    <2>4. /\ HasCrit(t)' /\ Inside(t)' /\ ~WantsCrit(t)' /\ Token(t)'
      BY <2>2 DEF HasCrit, Inside, WantsCrit, Token
    <2>5. Depth = 1 /\ Depth' = 1
      BY <1>4, <1>6, <2>1, <2>2, <2>3, <2>4, DepthOf
    <2>6. Waiting' = Waiting
      BY <1>1, <1>2, <2>1, <2>4, WaitingGrows
    <2>7. \A u \in Threads : (Token(u)' <=> u = t) /\ (Inside(u)' <=> u = t) /\ pc'[u] # "unwait"
      BY <1>4, <1>6, <2>2, <2>3, <2>4 DEF Token
    <2>8. CritInv'
      BY <1>1, <2>1, <2>2, <2>5, <2>6, <2>7 DEF CritInv
    <2> QED
      BY <1>3, <2>8
  <1>16. CASE Leave(t)
    <2>1. ~WantsCrit(t) /\ pc[t] = "leave" /\ mode[t] = "crit" /\ Token(t) /\ Inside(t) /\ HasCrit(t)
      BY <1>1, <1>16 DEF Leave, WantsCrit, CallOK, Token, HasCrit, Inside
    <2>2. CASE recursion > 1
      <3>1. /\ lockCount' = lockCount + (-1) /\ recursion' = recursion + (-1) /\ pc'[t] = "idle" /\ recursion' > 0
            /\ UNCHANGED <<owner, semaphore, mode>>
        BY <1>1, <1>6, <1>16, <2>2 DEF Leave, Return, Goto, TypeOK
      <3> QED
        BY <1>3, <1>6, <1>10, <2>1, <3>1 DEF Inside, WantsCrit
    <2>3. CASE ~(recursion > 1)
      <3>1. owner' = NoOne /\ pc'[t] = "leave_dec" /\ UNCHANGED <<lockCount, semaphore, mode>>
        BY <1>1, <1>16, <2>3 DEF Leave, Goto, TypeOK
      <3>2. recursion = 1
        BY <1>1, <1>6, <2>1, <2>3 DEF CritInv
      <3>3. \A u \in Threads : Token(u) => u = t
        BY <1>1, <2>1 DEF CritInv
      <3>4. /\ HasCrit(t)' /\ ~Inside(t)' /\ ~WantsCrit(t)' /\ Token(t)'
        BY <2>1, <3>1 DEF HasCrit, Inside, WantsCrit, Token
      <3>5. Depth = 1 /\ Depth' = 1
        BY <1>4, <1>6, <2>1, <3>2, <3>3, <3>4, DepthOf
      <3>6. Waiting' = Waiting
        BY <1>1, <1>2, <2>1, <3>4, WaitingGrows
      <3>7. \A u \in Threads : (Token(u)' <=> u = t) /\ ~Inside(u)' /\ pc'[u] # "unwait"
        BY <1>4, <1>6, <3>1, <3>3, <3>4 DEF Token
      <3>8. CritInv'
        BY <1>1, <1>7, <2>1, <3>1, <3>5, <3>6, <3>7 DEF CritInv
      <3> QED
        BY <1>3, <3>8
    <2> QED
      BY <2>2, <2>3
  <1>17. CASE LeaveDec(t)
    <2>1. ~WantsCrit(t) /\ pc[t] = "leave_dec" /\ mode[t] = "crit" /\ Token(t) /\ ~Inside(t) /\ HasCrit(t)
      BY <1>1, <1>17 DEF LeaveDec, WantsCrit, CallOK, Token, HasCrit, Inside
    <2>2. lockCount' = lockCount - 1 /\ mode'[t] = "none" /\ UNCHANGED <<recursion, owner, semaphore>>
      BY <1>1, <1>17 DEF LeaveDec, Hold, TypeOK
    <2>3. IF lockCount > 0 THEN pc'[t] = "unwait" ELSE pc'[t] = "idle" \/ (pc'[t] = "wait" /\ addr'[t] = "cond")
      BY <1>1, <1>17 DEF LeaveDec, Released, WaitOn, Return, Goto, TypeOK
    <2>4. ~HasCrit(t)' /\ ~Inside(t)' /\ ~WantsCrit(t)'
      BY <2>2, <2>3 DEF HasCrit, Inside, WantsCrit
    <2>5. \A u \in Threads : Token(u) => u = t
      BY <1>1, <2>1 DEF CritInv
    <2>6. Depth = 1 /\ Depth' = 0
      BY <1>4, <1>6, <2>1, <2>4, <2>5, DepthOf
    <2>7. Waiting' = Waiting
      BY <1>1, <1>2, <2>1, <2>4, WaitingGrows
    <2>8. lockCount = Cardinality(Waiting) /\ (Waiting = {} <=> ~(lockCount > 0))
      BY <1>1, <1>5, <1>6, <2>6, CountChanges DEF CritInv
    <2>9. lockCount' + 1 = Cardinality(Waiting') + Depth'
      BY <1>5, <2>2, <2>6, <2>7, <2>8
    <2>10. \A u \in Threads : (Token(u)' => u = t) /\ ~Inside(u)' /\ (pc'[u] = "unwait" => u = t)
      BY <1>4, <1>6, <2>4, <2>5 DEF Token
    <2>11. \A u \in Threads : owner # u
      BY <1>1, <1>6, <2>1, <2>5 DEF CritInv
    <2>12. (Waiting # {} => Token(t)') /\ (pc'[t] = "unwait" => Waiting # {}) /\ semaphore = 0
      BY <1>1, <2>1, <2>3, <2>8 DEF Token, CritInv
    <2>13. CritInv'
      BY <2>2, <2>7, <2>9, <2>10, <2>11, <2>12 DEF CritInv
    <2> QED
      BY <1>3, <2>13
  <1>18. CASE UnWait(t)
    <2>1. ~WantsCrit(t) /\ pc[t] = "unwait" /\ mode[t] = "none" /\ Token(t) /\ ~Inside(t) /\ ~HasCrit(t)
      BY <1>1, <1>18 DEF UnWait, WantsCrit, CallOK, Token, HasCrit, Inside
    <2>2. semaphore' = 1 /\ pc'[t] = "wake" /\ UNCHANGED <<lockCount, recursion, owner, mode>>
      BY <1>1, <1>18 DEF UnWait, WakeOn, Goto, TypeOK
    <2>3. ~HasCrit(t)' /\ ~Inside(t)' /\ ~WantsCrit(t)' /\ ~Token(t)'
      BY <2>1, <2>2 DEF HasCrit, Inside, WantsCrit, Token
    <2>4. \A u \in Threads : Token(u) => u = t
      BY <1>1, <2>1 DEF CritInv
    <2>5. Depth = 0 /\ Depth' = 0
      BY <1>4, <1>6, <2>1, <2>3, <2>4, DepthOf
    <2>6. Waiting' = Waiting /\ Waiting # {}
      BY <1>1, <1>2, <2>1, <2>3, WaitingGrows DEF CritInv
    <2>7. \A u \in Threads : ~Token(u)' /\ ~Inside(u)'
      BY <1>4, <1>6, <2>3, <2>4
    <2>8. \A u \in Threads : owner # u
      BY <1>1, <1>6, <2>1, <2>4 DEF CritInv
    <2>9. CritInv'
      BY <1>1, <2>2, <2>5, <2>6, <2>7, <2>8 DEF CritInv
    <2> QED
      BY <1>3, <2>9
  <1> QED
    BY <1>11, <1>12, <1>13, <1>14, <1>15, <1>16, <1>17, <1>18 DEF CritStep

-----------------------------------------------------------------------------
(* The theorems about the locks.                                           *)

LEMMA InitLocks == Init => LocksInv
  <1> SUFFICES ASSUME Init PROVE LocksInv
    OBVIOUS
  <1>1. TypeOK
    <2>1. WordTypes
      BY DEF Init, WordTypes
    <2>2. QueueTypes
      BY DEF Init, QueueTypes
    <2>3. LocalTypes /\ mode \in [Threads -> Modes]
      BY DEF Init, LocalTypes, PCs, Modes
    <2> QED
      BY <2>1, <2>2, <2>3, TypeParts
  <1>2. \A t \in Threads : pc[t] = "idle" /\ op[t] = "none" /\ mode[t] = "none"
    BY DEF Init
  <1>3. CallInv
    BY <1>2 DEF CallInv, CallOK, Sleeping, InWait, InWake, Without, Entering
  <1>4. Owning = {} /\ Wanting = {} /\ Waiting = {}
    BY <1>2 DEF Owning, Wanting, Waiting, WantsExclusive, WantsCrit, InWait
  <1>5. \A t \in Threads : ~HasCrit(t) /\ ~Token(t) /\ ~Inside(t) /\ pc[t] # "unwait"
    BY <1>2 DEF HasCrit, Token, Inside
  <1>6. SRWInv
    BY <1>2, <1>4, FS_EmptySet DEF SRWInv, Init
  <1>7. Depth = 0
    BY <1>5 DEF Depth
  <1>8. CritInv
    BY <1>4, <1>5, <1>7, FS_EmptySet, NtdllAssumption DEF CritInv, Init
  <1> QED
    BY <1>1, <1>3, <1>6, <1>8 DEF LocksInv

LEMMA StepOthers ==
  ASSUME TypeOK, NEW t \in Threads, CallOK(t), Step(t)
  PROVE  OthersStay(t)
  BY WalkOthers, SRWOthers, CritOthers DEF Step

LEMMA StepLocks ==
  ASSUME LocksInv, NEW t \in Threads, Step(t)
  PROVE  LocksInv'
  <1>1. TypeOK /\ CallInv /\ CallOK(t)
    BY DEF LocksInv, CallInv
  <1>2. TypeOK'
    BY WalkType, SRWType, CritType DEF Step
  <1>3. CallOK(t)'
    BY <1>1, WalkCall, SRWCall, CritCall DEF Step
  <1>4. \A u \in Threads \ {t} : CallOK(u)'
    BY <1>1, StepOthers, CallOthers DEF CallInv
  <1>5. CallInv'
    BY <1>3, <1>4 DEF CallInv
  <1>6. SRWInv' /\ CritInv'
    BY WalkLocks, SRWLocks, CritLocks DEF Step
  <1> QED
    BY <1>2, <1>5, <1>6 DEF LocksInv

LEMMA StutterLocks ==
  ASSUME LocksInv, UNCHANGED vars
  PROVE  LocksInv'
  <1> USE DEF vars, words, srw, crit, queues, waking
  <1>1. TypeOK'
    BY DEF LocksInv, TypeOK
  <1>2. CallInv'
    BY DEF LocksInv, CallInv, CallOK, Sleeping
  <1>3. \A u \in Threads : SameAsSeen(u)
    BY DEF SameAsSeen, CritSeen, WantsExclusive, WantsCrit
  <1>4. SRWInv' /\ CritInv'
    BY <1>3, SRWKept, CritKept DEF LocksInv, SameAsSeen
  <1> QED
    BY <1>1, <1>2, <1>4 DEF LocksInv

\* The inductive invariant of the locks holds in every reachable state.
LEMMA AlwaysLocks == Spec => []LocksInv
  <1>1. Init => LocksInv
    BY InitLocks
  <1>2. LocksInv /\ [Next]_vars => LocksInv'
    <2> SUFFICES ASSUME LocksInv, [Next]_vars PROVE LocksInv'
      OBVIOUS
    <2>1. CASE Next
      BY <2>1, NextSteps, StepLocks
    <2>2. CASE UNCHANGED vars
      BY <2>2, StutterLocks
    <2> QED
      BY <2>1, <2>2
  <1> QED
    BY <1>1, <1>2, PTL DEF Spec

\* No count of an SRW lock falls below zero and none of a critical section
\* below -1, whatever calls the threads make, and the queues and the locals
\* of RtlWaitOnAddress and RtlWakeAddress* keep their types.
THEOREM NtdllTypes == Spec => []TypeOK
  <1>1. LocksInv => TypeOK
    BY DEF LocksInv
  <1> QED
    BY <1>1, AlwaysLocks, PTL

LEMMA SRWFromCounts ==
  ASSUME LocksInv
  PROVE  SRWExclusion
  <1>1. TypeOK /\ SRWInv
    BY DEF LocksInv
  <1>2. Holders("shared") \in SUBSET Threads /\ Holders("exclusive") \in SUBSET Threads
    BY DEF Holders
  <1>3. CASE Holders("exclusive") = {}
    <2>1. Owning = Holders("shared")
      BY <1>3 DEF Owning, Holders
    <2>2. Cardinality(Holders("exclusive")) = 0 /\ Cardinality(Holders("shared")) \in Nat
      BY <1>2, <1>3, CountChanges
    <2>3. owners = Cardinality(Holders("shared")) + Cardinality(Holders("exclusive"))
      BY <1>1, <2>1, <2>2 DEF SRWInv
    <2>4. exclusive <=> Holders("exclusive") # {}
      BY <1>1, <1>3 DEF SRWInv, Holders
    <2> QED
      BY <1>1, <1>3, <2>3, <2>4 DEF SRWInv, SRWExclusion, Wanting
  <1>4. CASE Holders("exclusive") # {}
    <2>1. PICK t \in Threads : mode[t] = "exclusive"
      BY <1>4 DEF Holders
    <2>2. \A u \in Threads : mode[u] \in {"shared", "exclusive"} => u = t
      BY <1>1, <2>1 DEF SRWInv
    <2>3. Holders("exclusive") = {t} /\ Owning = {t} /\ Holders("shared") = {}
      BY <2>1, <2>2 DEF Holders, Owning
    <2>4. Cardinality(Holders("exclusive")) = 1 /\ owners = 1 /\ Cardinality(Holders("shared")) = 0
      BY <1>1, <2>3, FS_Singleton, FS_EmptySet DEF SRWInv
    <2>5. exclusive
      BY <1>1, <2>1 DEF SRWInv
    <2> QED
      BY <1>1, <1>4, <2>3, <2>4, <2>5 DEF SRWInv, SRWExclusion, Wanting
  <1> QED
    BY <1>3, <1>4

\* An SRW lock is never held exclusively by one thread and in any way by
\* another, for any number of threads that acquire, try, release and sleep,
\* and its word counts the holders and the exclusive waiters exactly: the
\* compare-and-swap loops of RtlAcquireSRWLock*, the decrements and the
\* stores of RtlReleaseSRWLock* never disagree about who is inside.
THEOREM SRWLocksExclude == Spec => []SRWExclusion
  <1>1. LocksInv => SRWExclusion
    BY SRWFromCounts
  <1> QED
    BY <1>1, AlwaysLocks, PTL

LEMMA CritFromToken ==
  ASSUME LocksInv
  PROVE  CritExclusion
  <1> DEFINE inside == {t \in Threads : HasCrit(t)}
             handing == {t \in Threads : pc[t] = "unwait"}
             levels == IF \E t \in Threads : mode[t] = "crit" /\ pc[t] # "leave_dec" THEN recursion ELSE 1
  <1>1. TypeOK /\ CallInv /\ CritInv
    BY DEF LocksInv
  <1>2. \A t \in Threads : ~(HasCrit(t) /\ pc[t] = "unwait")
    BY <1>1 DEF CallInv, CallOK, Without, HasCrit
  <1>3. semaphore \in {0, 1} /\ Cardinality({}) = 0
    BY <1>1, FS_EmptySet DEF TypeOK
  <1>4. /\ Cardinality(inside) + Cardinality(handing) + semaphore <= 1
        /\ Waiting # {} => Cardinality(inside) + Cardinality(handing) + semaphore = 1
    <2>1. CASE \E t \in Threads : Token(t)
      <3>1. PICK t \in Threads : Token(t)
        BY <2>1
      <3>2. \A u \in Threads : Token(u) => u = t
        BY <1>1, <3>1 DEF CritInv
      <3>3. semaphore = 0
        BY <1>1, <3>1 DEF CritInv
      <3>4. CASE HasCrit(t)
        <4>1. inside = {t} /\ handing = {}
          BY <1>2, <3>2, <3>4 DEF Token
        <4>2. Cardinality(inside) = 1 /\ Cardinality(handing) = 0
          BY <1>3, <4>1, FS_Singleton
        <4> QED
          BY <3>3, <4>2
      <3>5. CASE ~HasCrit(t)
        <4>1. inside = {} /\ handing = {t}
          BY <3>1, <3>2, <3>5 DEF Token
        <4>2. Cardinality(inside) = 0 /\ Cardinality(handing) = 1
          BY <1>3, <4>1, FS_Singleton
        <4> QED
          BY <3>3, <4>2
      <3> QED
        BY <3>4, <3>5
    <2>2. CASE ~\E t \in Threads : Token(t)
      <3>1. inside = {} /\ handing = {}
        BY <2>2 DEF Token
      <3>2. Waiting # {} => semaphore = 1
        BY <1>1, <2>2 DEF CritInv
      <3>3. Cardinality(inside) = 0 /\ Cardinality(handing) = 0
        BY <1>3, <3>1
      <3> QED
        BY <1>3, <3>2, <3>3
    <2> QED
      BY <2>1, <2>2
  <1>5. Depth = IF inside = {} THEN 0 ELSE levels
    <2>1. \A t \in Threads : Inside(t) => HasCrit(t)
      BY DEF Inside, HasCrit
    <2> QED
      BY <2>1 DEF Depth, Inside
  <1>6. lockCount + 1 = Cardinality(Waiting) + (IF inside = {} THEN 0 ELSE levels)
    BY <1>1, <1>5 DEF CritInv
  <1>7. \A t \in Threads : mode[t] = "crit" /\ pc[t] # "leave_dec" => owner = t
    BY <1>1 DEF CritInv, Inside
  <1> HIDE DEF inside, handing, levels
  <1>8. /\ Cardinality(inside) + Cardinality(handing) + semaphore <= 1
        /\ lockCount + 1 = Cardinality(Waiting) + (IF inside = {} THEN 0 ELSE levels)
        /\ Waiting # {} => Cardinality(inside) + Cardinality(handing) + semaphore = 1
        /\ \A t \in Threads : mode[t] = "crit" /\ pc[t] # "leave_dec" => owner = t
    BY <1>4, <1>6, <1>7
  <1> QED
    BY <1>8 DEF inside, handing, levels, Waiting, CritExclusion

\* At most one thread is inside a critical section, for any number of
\* threads, and LockCount and LockSemaphore account for everyone: a thread
\* that waits has someone inside, a hand-over under way or the semaphore
\* raised, although RtlLeaveCriticalSection clears the owner before it
\* decrements the count and raises the semaphore after it.
THEOREM CritSectionsExclude == Spec => []CritExclusion
  <1>1. LocksInv => CritExclusion
    BY CritFromToken
  <1> QED
    BY <1>1, AlwaysLocks, PTL

-----------------------------------------------------------------------------
(* The inductive invariant of the wakes: who is in the queues, who holds   *)
(* their spinlocks, who is about to be alerted, what a waiter compares.    *)

Among(u, s) == \E k \in 1..Len(s) : s[k] = u

\* A waker between two of its steps: it holds the spinlock of its queue while
\* it scans, and while it alerts because its array is full.
WakerOK(t) ==
    /\ victim[t] # NoOne => pc[t] \in {"remove", "alert", "futex_wake"} /\ (wakeAll[t] \/ pc[t] = "remove")
    /\ pc[t] = "remove" =>
          /\ Among(victim[t], Queue(t))
          /\ entryAddr[victim[t]] # "null" => QueueOf[entryAddr[victim[t]]] # QueueOf[addr[t]]
    /\ \A q \in Buckets : qlock[q] = t <=>
          /\ pc[t] \in InWake /\ q = QueueOf[addr[t]]
          /\ pc[t] \in {"scan", "remove"} \/ victim[t] # NoOne
    /\ pc[t] \in {"scan", "remove"} /\ ~wakeAll[t] => tids[t] = <<>>
    /\ tids[t] # <<>> => pc[t] \in {"scan", "remove", "alert", "futex_wake"}

\* An entry that has its address is in the queue of that address, and its
\* thread is in RtlWaitOnAddress.
Waits == {"alert_take", "futex", "asleep", "leave_wait", "unqueue"}
EntryOK(u) ==
    entryAddr[u] # "null" => pc[u] \in Waits /\ addr[u] = entryAddr[u] /\ Among(u, queue[QueueOf[entryAddr[u]]])

\* AlertsArrive, from the time the thread is in the queue.
Resting == {"alert_take", "futex", "asleep"}
Picked(t, u) == victim[t] = u \/ Among(u, tids[t])
AlertOK(u) ==
    /\ pc[u] \in Resting /\ entryAddr[u] = "null" /\ ~alert[u] => \E t \in Threads : Picked(t, u)
    /\ pc[u] = "asleep" /\ alert[u] => \E t \in Threads : pc[t] = "futex_wake" /\ woken[t] = u

\* A thread that is about to compare saw its lock taken; a sleep read the
\* condition variable before the wake that it may miss.
CmpOK(t) == pc[t] = "wait" =>
    /\ addr[t] = "owners" => cmp[t] # <<0>>
    /\ addr[t] = "srw" => cmp[t][1] # 0 \/ cmp[t][2] # 0
    /\ addr[t] = "sem" => cmp[t] = <<0>>
    /\ addr[t] = "cond" => cmp[t] = <<value[t]>>
SleepPath == {"sleep", "release_exclusive", "release_shared", "leave", "leave_dec", "unwait"} \cup InWake
MissedOK(t) ==
    /\ Sleeping(t) => pc[t] \in SleepPath \/ (pc[t] \in InWait /\ addr[t] = "cond")
    /\ Sleeping(t) /\ pc[t] # "sleep" => value[t] <= cond
    /\ missed[t] => Sleeping(t) /\ mode[t] = "none" /\ value[t] < cond

QueueInv == \A t \in Threads : WakerOK(t) /\ EntryOK(t)
AlertInv == \A t \in Threads : AlertOK(t)
StaleInv == \A t \in Threads : CmpOK(t) /\ MissedOK(t)

-----------------------------------------------------------------------------
(* The queues.                                                             *)

LEMMA AppendAmong ==
  ASSUME NEW s \in Seq(Threads), NEW t \in Threads
  PROVE  /\ Among(t, Append(s, t))
         /\ \A u : Among(u, s) => Among(u, Append(s, t))
  <1>1. Len(Append(s, t)) = Len(s) + 1 /\ Len(s) \in Nat
    OBVIOUS
  <1>2. Append(s, t)[Len(s) + 1] = t
    OBVIOUS
  <1>3. \A k \in 1..Len(s) : Append(s, t)[k] = s[k]
    OBVIOUS
  <1> QED
    BY <1>1, <1>2, <1>3 DEF Among

\* list_remove takes no other entry out.
LEMMA UnlinkAmong ==
  ASSUME NEW s \in Seq(Threads), NEW u, Among(u, s), NEW v, v # u, Among(v, s)
  PROVE  Among(v, Unlink(s, u))
  <1> DEFINE n == CHOOSE k \in 1..Len(s) : s[k] = u
             r == Unlink(s, u)
  <1>1. n \in 1..Len(s) /\ s[n] = u
    BY DEF Among
  <1>2. PICK k \in 1..Len(s) : s[k] = v
    BY DEF Among
  <1>3. k # n
    BY <1>1, <1>2
  <1>4. r \in Seq(Threads)
    BY UnlinkType
  <1>5. Len(s) \in Nat \ {0} /\ r = [j \in 1..(Len(s) - 1) |-> IF j < n THEN s[j] ELSE s[j + 1]]
    BY <1>1 DEF Unlink
  <1>6. DOMAIN r = 1..(Len(s) - 1)
    BY <1>5
  <1>7. Len(r) = Len(s) - 1
    BY <1>4, <1>5, <1>6
  <1> HIDE DEF n, r
  <1>8. CASE k < n
    <2>1. k \in 1..(Len(s) - 1) /\ r[k] = s[k]
      BY <1>1, <1>2, <1>5, <1>8
    <2> QED
      BY <1>2, <1>7, <2>1 DEF Among, r
  <1>9. CASE k > n
    <2>1. k - 1 \in 1..(Len(s) - 1) /\ ~(k - 1 < n) /\ (k - 1) + 1 = k
      BY <1>1, <1>2, <1>5, <1>9
    <2>2. r[k - 1] = s[k]
      BY <1>5, <2>1
    <2> QED
      BY <1>2, <1>7, <2>1, <2>2 DEF Among, r
  <1> QED
    BY <1>1, <1>2, <1>3, <1>8, <1>9

\* What a step of t does to the queues, as the other threads see it: it takes
\* only free spinlocks, and touches the list and enters its own entry only
\* where the spinlock is free or its own.
QueueFrame(t) ==
    /\ \A q \in Buckets : qlock'[q] = qlock[q] \/ (qlock[q] \in {NoOne, t} /\ qlock'[q] \in {NoOne, t})
    /\ \A q \in Buckets : queue'[q] = queue[q] \/ qlock[q] \in {NoOne, t}
    /\ \A u \in Threads \ {t} : entryAddr'[u] \in {entryAddr[u], "null"}
    /\ \/ entryAddr'[t] \in {entryAddr[t], "null"}
       \/ entryAddr'[t] = addr[t] /\ qlock[QueueOf[addr[t]]] = NoOne
    /\ \A u \in Threads \ {t} : entryAddr'[u] # "null" /\ Among(u, queue[QueueOf[entryAddr[u]]]) =>
          Among(u, queue'[QueueOf[entryAddr[u]]])

\* The steps of a waiter that leave the queues alone.
Rest(t) == AlertTake(t) \/ FutexWait(t) \/ Interrupt(t) \/ TimeOut(t) \/ LeaveWait(t)
Caller(t) == Begin(t) \/ CondWake(t) \/ Sleep(t) \/ SRWStep(t) \/ CritStep(t)
\* Those of RtlWaitOnAddress and RtlWakeAddress* on a queue.
QueueStep(t) ==
    \/ Wait(t) \/ Unqueue(t) \/ WakeLock(t) \/ ScanTake(t) \/ Remove(t) \/ ScanEnd(t)
Alerting(t) == Alert(t) \/ FutexWake(t) \/ AlertEnd(t)

LEMMA StepKinds ==
  ASSUME NEW t
  PROVE  Step(t) <=> Caller(t) \/ Rest(t) \/ QueueStep(t) \/ Alerting(t)
  BY DEF Step, Walk, Caller, Rest, QueueStep, Alerting

LEMMA CallerQuiet ==
  ASSUME NEW t, Caller(t)
  PROVE  UNCHANGED <<queue, qlock, entryAddr, alert, victim, tids, woken>>
  <1> USE DEF words, srw, crit, queues, waking
  <1>1. CASE SRWStep(t)
    BY <1>1 DEF SRWStep, AddExclusive, GetExclusive, GetShared, TryExclusive, TryShared, ReleaseExclusive,
                ReleaseShared
  <1>2. CASE CritStep(t)
    BY <1>2 DEF CritStep, TryEnter, Spin, Enter, TakeSem, Got, Leave, LeaveDec, UnWait
  <1> QED
    BY <1>1, <1>2 DEF Caller, Begin, CondWake, Sleep

LEMMA RestQuiet ==
  ASSUME NEW t, Rest(t)
  PROVE  UNCHANGED <<queue, qlock, entryAddr, victim, tids, woken, mode, cond, addr, want, wakeAll, cmp, value>>
  BY DEF Rest, AlertTake, FutexWait, Interrupt, TimeOut, LeaveWait, queues, waking, words

LEMMA AlertingQuiet ==
  ASSUME NEW t, Alerting(t)
  PROVE  UNCHANGED <<words, queue, qlock, entryAddr, mode, missed>>
  BY DEF Alerting, Alert, FutexWake, AlertEnd, queues

\* A thread in RtlWaitOnAddress or RtlWakeAddress* has a queue.
LEMMA QueueType ==
  ASSUME TypeOK, NEW t \in Threads, CallOK(t), pc[t] \in InWait \cup InWake
  PROVE  addr[t] \in Addr /\ QueueOf[addr[t]] \in Buckets /\ Queue(t) \in Seq(Threads)
  BY NtdllAssumption DEF CallOK, Queue, TypeOK

LEMMA StepQueueFrame ==
  ASSUME LocksInv, QueueInv, NEW t \in Threads, Step(t)
  PROVE  QueueFrame(t)
  <1>0. TypeOK /\ CallOK(t) /\ WakerOK(t) /\ EntryOK(t)
    BY DEF LocksInv, CallInv, QueueInv
  <1>1. CASE UNCHANGED queues
    BY <1>0, <1>1 DEF QueueFrame, queues
  <1>2. CASE Wait(t)
    <2>1. CASE UNCHANGED <<queue, entryAddr>>
      BY <1>1, <1>2, <2>1 DEF Wait, queues
    <2>2. CASE ~UNCHANGED <<queue, entryAddr>>
      <3>1. /\ queue' = [queue EXCEPT ![QueueOf[addr[t]]] = Append(@, t)]
            /\ entryAddr' = [entryAddr EXCEPT ![t] = addr[t]]
            /\ UNCHANGED qlock /\ qlock[QueueOf[addr[t]]] = NoOne
        BY <1>2, <2>2 DEF Wait, Unlocked
      <3>2. QueueOf[addr[t]] \in Buckets /\ Queue(t) \in Seq(Threads)
        BY <1>0, <1>2, QueueType DEF Wait, InWait
      <3>3. \A u, q : Among(u, queue[q]) => Among(u, queue'[q])
        <4> SUFFICES ASSUME NEW u, NEW q, Among(u, queue[q]) PROVE Among(u, queue'[q])
          OBVIOUS
        <4>1. CASE q = QueueOf[addr[t]]
          <5>1. queue'[q] = Append(Queue(t), t) /\ queue[q] = Queue(t)
            BY <1>0, <3>1, <3>2, <4>1 DEF TypeOK, Queue
          <5> QED
            BY <3>2, <5>1, AppendAmong
        <4>2. CASE q # QueueOf[addr[t]]
          BY <1>0, <3>1, <4>2 DEF TypeOK
        <4> QED
          BY <4>1, <4>2
      <3>4. \A q \in Buckets : queue'[q] = queue[q] \/ qlock[q] = NoOne
        BY <1>0, <3>1 DEF TypeOK
      <3>5. /\ \A u \in Threads \ {t} : entryAddr'[u] = entryAddr[u]
            /\ entryAddr'[t] = addr[t]
        BY <1>0, <3>1 DEF TypeOK
      <3> QED
        BY <3>1, <3>3, <3>4, <3>5 DEF QueueFrame
    <2> QED
      BY <2>1, <2>2
  <1>3. CASE Unqueue(t)
    <2>1. CASE UNCHANGED <<queue, entryAddr>>
      BY <1>1, <1>3, <2>1 DEF Unqueue, queues
    <2>2. CASE ~UNCHANGED <<queue, entryAddr>>
      <3>1. /\ queue' = [queue EXCEPT ![QueueOf[addr[t]]] = Unlink(@, t)]
            /\ entryAddr' = [entryAddr EXCEPT ![t] = "null"] /\ entryAddr[t] # "null"
            /\ UNCHANGED qlock /\ qlock[QueueOf[addr[t]]] = NoOne
        BY <1>3, <2>2 DEF Unqueue, Unlocked
      <3>2. QueueOf[addr[t]] \in Buckets /\ Queue(t) \in Seq(Threads) /\ Among(t, Queue(t))
        BY <1>0, <1>3, <3>1, QueueType DEF Unqueue, InWait, EntryOK, Queue
      <3>3. \A u, q : u # t /\ Among(u, queue[q]) => Among(u, queue'[q])
        <4> SUFFICES ASSUME NEW u, NEW q, u # t, Among(u, queue[q]) PROVE Among(u, queue'[q])
          OBVIOUS
        <4>1. CASE q = QueueOf[addr[t]]
          <5>1. queue'[q] = Unlink(Queue(t), t) /\ queue[q] = Queue(t)
            BY <1>0, <3>1, <3>2, <4>1 DEF TypeOK, Queue
          <5> QED
            BY <3>2, <5>1, UnlinkAmong
        <4>2. CASE q # QueueOf[addr[t]]
          BY <1>0, <3>1, <4>2 DEF TypeOK
        <4> QED
          BY <4>1, <4>2
      <3>4. \A q \in Buckets : queue'[q] = queue[q] \/ qlock[q] = NoOne
        BY <1>0, <3>1 DEF TypeOK
      <3>5. /\ \A u \in Threads \ {t} : entryAddr'[u] = entryAddr[u]
            /\ entryAddr'[t] = "null"
        BY <1>0, <3>1 DEF TypeOK
      <3> QED
        BY <3>1, <3>3, <3>4, <3>5 DEF QueueFrame
    <2> QED
      BY <2>1, <2>2
  <1>4. CASE WakeLock(t)
    <2>1. UNCHANGED <<queue, entryAddr>> /\ qlock' = [qlock EXCEPT ![QueueOf[addr[t]]] = t]
      BY <1>4 DEF WakeLock
    <2>2. qlock[QueueOf[addr[t]]] = NoOne
      BY <1>4 DEF WakeLock, Unlocked
    <2>3. \A q \in Buckets : qlock'[q] = qlock[q] \/ (qlock[q] = NoOne /\ qlock'[q] = t)
      BY <1>0, <2>1, <2>2 DEF TypeOK
    <2> QED
      BY <2>1, <2>3 DEF QueueFrame
  <1>5. CASE ScanTake(t)
    <2>1. PICK k \in Matching(t) : entryAddr' = [entryAddr EXCEPT ![Queue(t)[k]] = "null"]
      BY <1>5 DEF ScanTake
    <2>2. UNCHANGED <<queue, qlock>>
      BY <1>5 DEF ScanTake
    <2>3. \A u \in Threads : entryAddr'[u] \in {entryAddr[u], "null"}
      BY <1>0, <2>1 DEF TypeOK
    <2> QED
      BY <2>2, <2>3 DEF QueueFrame
  <1>6. CASE Remove(t)
    <2>1. pc[t] = "remove" /\ UNCHANGED entryAddr
      BY <1>6 DEF Remove
    <2>2. /\ QueueOf[addr[t]] \in Buckets /\ Queue(t) \in Seq(Threads) /\ Among(victim[t], Queue(t))
          /\ qlock[QueueOf[addr[t]]] = t
      BY <1>0, <2>1, QueueType DEF InWake, WakerOK
    <2>3. /\ queue' = [queue EXCEPT ![QueueOf[addr[t]]] = Unlink(@, victim[t])]
          /\ qlock' = [qlock EXCEPT ![QueueOf[addr[t]]] = IF wakeAll[t] THEN @ ELSE NoOne]
      BY <1>6 DEF Remove
    <2>4. \A q \in Buckets : /\ queue'[q] = queue[q] \/ qlock[q] = t
                             /\ qlock'[q] = qlock[q] \/ (qlock[q] = t /\ qlock'[q] = NoOne)
      BY <1>0, <2>2, <2>3 DEF TypeOK
    <2>5. ASSUME NEW u \in Threads, entryAddr[u] # "null", Among(u, queue[QueueOf[entryAddr[u]]])
          PROVE  Among(u, queue'[QueueOf[entryAddr[u]]])
      <3>1. CASE QueueOf[entryAddr[u]] = QueueOf[addr[t]]
        <4>1. u # victim[t]
          BY <1>0, <2>1, <2>5, <3>1 DEF WakerOK
        <4>2. /\ queue'[QueueOf[entryAddr[u]]] = Unlink(Queue(t), victim[t])
              /\ queue[QueueOf[entryAddr[u]]] = Queue(t)
          BY <1>0, <2>2, <2>3, <3>1 DEF TypeOK, Queue
        <4> QED
          BY <2>2, <2>5, <4>1, <4>2, UnlinkAmong
      <3>2. CASE QueueOf[entryAddr[u]] # QueueOf[addr[t]]
        BY <1>0, <2>3, <2>5, <3>2 DEF TypeOK
      <3> QED
        BY <3>1, <3>2
    <2> QED
      BY <2>1, <2>4, <2>5 DEF QueueFrame
  <1>7. CASE ScanEnd(t)
    <2>1. UNCHANGED <<queue, entryAddr>> /\ qlock' = [qlock EXCEPT ![QueueOf[addr[t]]] = NoOne]
      BY <1>7 DEF ScanEnd
    <2>2. qlock[QueueOf[addr[t]]] = t
      BY <1>0, <1>7, QueueType DEF ScanEnd, WakerOK, InWake
    <2>3. \A q \in Buckets : qlock'[q] = qlock[q] \/ (qlock[q] = t /\ qlock'[q] = NoOne)
      BY <1>0, <2>1, <2>2 DEF TypeOK
    <2> QED
      BY <2>1, <2>3 DEF QueueFrame
  <1>8. CASE Caller(t) \/ Rest(t) \/ Alerting(t)
    BY <1>1, <1>8, CallerQuiet, RestQuiet, AlertingQuiet DEF queues
  <1> QED
    BY <1>2, <1>3, <1>4, <1>5, <1>6, <1>7, <1>8, StepKinds DEF QueueStep

\* A waker that does not move keeps what it knows about its queue ...
LEMMA WakerOthers ==
  ASSUME LocksInv, QueueInv, NEW t \in Threads, OthersStay(t), QueueFrame(t), NEW u \in Threads \ {t}
  PROVE  WakerOK(u)'
  <1>1. TypeOK /\ CallOK(u) /\ WakerOK(u) /\ NoOne \notin Threads
    BY NtdllAssumption DEF LocksInv, CallInv, QueueInv
  <1>2. /\ addr'[u] = addr[u] /\ wakeAll'[u] = wakeAll[u] /\ victim'[u] = victim[u] /\ tids'[u] = tids[u]
        /\ pc'[u] = pc[u] \/ (pc[u] = "asleep" /\ pc'[u] = "alert_take")
    BY DEF OthersStay
  <1>3. pc[u] \in InWake \/ pc'[u] \in InWake => pc'[u] = pc[u]
    BY <1>2 DEF InWake
  <1>4. \A q \in Buckets : qlock'[q] = u <=> qlock[q] = u
    BY <1>1 DEF QueueFrame
  <1>5. ASSUME pc'[u] = "remove"
        PROVE  /\ Among(victim[u], queue'[QueueOf[addr[u]]])
               /\ entryAddr'[victim[u]] # "null" => QueueOf[entryAddr'[victim[u]]] # QueueOf[addr[u]]
    <2>1. pc[u] = "remove"
      BY <1>3, <1>5 DEF InWake
    <2>2. QueueOf[addr[u]] \in Buckets /\ qlock[QueueOf[addr[u]]] = u /\ victim[u] \in Threads
      BY <1>1, <2>1, QueueType DEF WakerOK, InWake, CallOK
    <2>3. queue'[QueueOf[addr[u]]] = queue[QueueOf[addr[u]]]
      BY <1>1, <2>2 DEF QueueFrame
    <2>4. /\ Among(victim[u], queue[QueueOf[addr[u]]])
          /\ entryAddr[victim[u]] # "null" => QueueOf[entryAddr[victim[u]]] # QueueOf[addr[u]]
      BY <1>1, <2>1 DEF WakerOK, Queue
    <2>5. \/ entryAddr'[victim[u]] \in {entryAddr[victim[u]], "null"}
          \/ victim[u] = t /\ entryAddr'[t] = addr[t] /\ qlock[QueueOf[addr[t]]] = NoOne
      BY <2>2 DEF QueueFrame
    <2> QED
      BY <1>1, <2>2, <2>3, <2>4, <2>5
  <1>6. victim'[u] # NoOne => pc'[u] \in {"remove", "alert", "futex_wake"} /\ (wakeAll'[u] \/ pc'[u] = "remove")
    BY <1>1, <1>2 DEF WakerOK
  <1>7. \A q \in Buckets : qlock'[q] = u <=>
          /\ pc'[u] \in InWake /\ q = QueueOf[addr'[u]]
          /\ pc'[u] \in {"scan", "remove"} \/ victim'[u] # NoOne
    BY <1>1, <1>2, <1>3, <1>4 DEF WakerOK, InWake
  <1>8. /\ pc'[u] \in {"scan", "remove"} /\ ~wakeAll'[u] => tids'[u] = <<>>
        /\ tids'[u] # <<>> => pc'[u] \in {"scan", "remove", "alert", "futex_wake"}
    BY <1>1, <1>2 DEF WakerOK
  <1> QED
    BY <1>2, <1>5, <1>6, <1>7, <1>8 DEF WakerOK, Queue

\* ... and an entry that is not picked stays in its queue.
LEMMA EntryOthers ==
  ASSUME TypeOK, NEW t \in Threads, OthersStay(t), QueueFrame(t), NEW u \in Threads \ {t}, EntryOK(u)
  PROVE  EntryOK(u)'
  <1> SUFFICES ASSUME entryAddr'[u] # "null"
               PROVE  /\ pc'[u] \in Waits /\ addr'[u] = entryAddr'[u]
                      /\ Among(u, queue'[QueueOf[entryAddr'[u]]])
    BY DEF EntryOK
  <1>1. entryAddr'[u] = entryAddr[u]
    BY DEF QueueFrame
  <1>2. pc[u] \in Waits /\ addr[u] = entryAddr[u] /\ Among(u, queue[QueueOf[entryAddr[u]]])
    BY <1>1 DEF EntryOK
  <1>3. Among(u, queue'[QueueOf[entryAddr[u]]])
    BY <1>1, <1>2 DEF QueueFrame
  <1> QED
    BY <1>1, <1>2, <1>3 DEF OthersStay, Waits

\* Where a call that is not in a wait or a wake goes.
LEMMA CallerGoes ==
  ASSUME TypeOK, NEW t \in Threads, CallOK(t), Caller(t)
  PROVE  /\ pc[t] \notin InWait \cup InWake
         /\ pc'[t] \notin Waits \cup {"scan", "remove", "alert", "futex_wake"}
  <1> USE DEF TypeOK, InWait, InWake, Waits
  <1>1. CASE Begin(t)
    <2>1. PICK o \in Ops[t] : Goto(t, FirstStep(o, mode[t]))
      BY <1>1 DEF Begin
    <2>2. o \in Op /\ pc'[t] = FirstStep(o, mode[t])
      BY <2>1, NtdllAssumption DEF Goto
    <2> QED
      BY <1>1, <2>2 DEF Begin, FirstStep, Op
  <1>2. CASE CondWake(t)
    BY <1>2 DEF CondWake, WakeOn, Goto
  <1>3. CASE Sleep(t)
    <2>1. mode[t] \in {"shared", "exclusive", "crit"}
      BY <1>3 DEF CallOK, Sleep
    <2> QED
      BY <1>3, <2>1 DEF Sleep, Goto, ReleaseStep
  <1>4. CASE SRWStep(t)
    <2>1. CASE AddExclusive(t)
      BY <2>1 DEF AddExclusive, Goto
    <2>2. CASE GetExclusive(t) \/ GetShared(t) \/ TryExclusive(t) \/ TryShared(t)
      BY <2>2 DEF GetExclusive, GetShared, TryExclusive, TryShared, Return, WaitOn, Goto
    <2>3. CASE ReleaseExclusive(t) \/ ReleaseShared(t)
      BY <2>3 DEF ReleaseExclusive, ReleaseShared, Released, Return, WaitOn, WakeOn, Goto
    <2> QED
      BY <1>4, <2>1, <2>2, <2>3 DEF SRWStep
  <1>5. CASE CritStep(t)
    <2>1. CASE TryEnter(t)
      BY <2>1 DEF TryEnter, Return, Goto
    <2>2. CASE Spin(t) \/ Enter(t)
      BY <2>2 DEF Spin, Enter, Return, Goto
    <2>3. CASE TakeSem(t) \/ Got(t) \/ Leave(t)
      BY <2>3 DEF TakeSem, Got, Leave, Return, WaitOn, Goto
    <2>4. CASE LeaveDec(t) \/ UnWait(t)
      BY <2>4 DEF LeaveDec, UnWait, Released, Return, WaitOn, WakeOn, Goto
    <2> QED
      BY <1>5, <2>1, <2>2, <2>3, <2>4 DEF CritStep
  <1> QED
    BY <1>1, <1>2, <1>3, <1>4, <1>5 DEF Caller

LEMMA WaitOverAway ==
  ASSUME TypeOK, NEW t \in Threads, CallOK(t), pc[t] \in InWait, WaitOver(t)
  PROVE  pc'[t] \notin InWait \cup InWake \cup {"sleep"}
  <1>1. PICK l \in {"get_exclusive", "get_shared", "take_sem", "add_exclusive", "try_enter", "enter"} : Goto(t, l)
    BY WaitOverGoes
  <1> QED
    BY <1>1 DEF Goto, TypeOK, InWait, InWake

\* A thread that is not waking has picked nobody and holds no spinlock.
LEMMA NotWaking ==
  ASSUME NEW t \in Threads, WakerOK(t), pc[t] \notin {"scan", "remove", "alert", "futex_wake"},
         UNCHANGED <<qlock, victim, tids>>, pc'[t] \notin {"scan", "remove"}
  PROVE  WakerOK(t)'
  <1>1. victim[t] = NoOne /\ tids[t] = <<>> /\ \A q \in Buckets : qlock[q] # t
    BY DEF WakerOK
  <1> QED
    BY <1>1 DEF WakerOK

LEMMA RestGoes ==
  ASSUME TypeOK, NEW t \in Threads, CallOK(t), Rest(t)
  PROVE  /\ pc[t] \in Waits /\ pc'[t] \notin InWake
         /\ pc'[t] \in Waits \/ (entryAddr[t] = "null" /\ pc'[t] \notin InWait)
  <1> USE DEF TypeOK, InWait, InWake, Waits
  <1>1. CASE LeaveWait(t)
    <2>1. CASE entryAddr[t] = "null"
      BY <1>1, <2>1, WaitOverAway DEF LeaveWait
    <2>2. CASE entryAddr[t] # "null"
      BY <1>1, <2>2 DEF LeaveWait, Goto
    <2> QED
      BY <2>1, <2>2
  <1> QED
    BY <1>1 DEF Rest, AlertTake, FutexWait, Interrupt, TimeOut, Goto

LEMMA StepWaker ==
  ASSUME LocksInv, QueueInv, NEW t \in Threads, Step(t)
  PROVE  WakerOK(t)'
  <1>0. TypeOK /\ CallOK(t) /\ WakerOK(t) /\ EntryOK(t) /\ NoOne \notin Threads
    BY NtdllAssumption DEF LocksInv, CallInv, QueueInv
  <1>1. CASE Caller(t)
    BY <1>0, <1>1, CallerQuiet, CallerGoes, NotWaking DEF InWake
  <1>2. CASE Rest(t)
    BY <1>0, <1>2, RestQuiet, RestGoes, NotWaking DEF InWake, Waits
  <1>3. CASE Wait(t)
    <2>1. pc[t] = "wait" /\ UNCHANGED <<qlock, victim, tids>>
      BY <1>3 DEF Wait, waking
    <2>2. pc'[t] \notin {"scan", "remove"}
      <3>1. CASE Value(addr[t]) # cmp[t]
        BY <1>0, <1>3, <3>1, WaitOverAway DEF Wait, InWait, InWake
      <3>2. CASE Value(addr[t]) = cmp[t]
        BY <1>0, <1>3, <3>2 DEF Wait, Goto, TypeOK
      <3> QED
        BY <3>1, <3>2
    <2> QED
      BY <1>0, <2>1, <2>2, NotWaking
  <1>4. CASE Unqueue(t)
    <2>1. pc[t] = "unqueue" /\ UNCHANGED <<qlock, victim, tids>>
      BY <1>4 DEF Unqueue, waking
    <2>2. pc'[t] \notin {"scan", "remove"}
      BY <1>0, <1>4, WaitOverAway DEF Unqueue, InWait, InWake
    <2> QED
      BY <1>0, <2>1, <2>2, NotWaking
  <1>5. CASE WakeLock(t)
    <2>1. /\ pc[t] = "wake" /\ pc'[t] = "scan" /\ UNCHANGED <<addr, victim, tids>>
          /\ qlock' = [qlock EXCEPT ![QueueOf[addr[t]]] = t]
      BY <1>0, <1>5 DEF WakeLock, waking, Goto, TypeOK
    <2>2. victim[t] = NoOne /\ tids[t] = <<>> /\ \A q \in Buckets : qlock[q] # t
      BY <1>0, <2>1 DEF WakerOK
    <2>3. \A q \in Buckets : qlock'[q] = t <=> q = QueueOf[addr[t]]
      BY <1>0, <2>1, <2>2 DEF TypeOK
    <2> QED
      BY <2>1, <2>2, <2>3 DEF WakerOK, InWake
  <1>6. CASE ScanTake(t)
    <2>1. pc[t] = "scan" /\ pc'[t] = "remove" /\ UNCHANGED <<addr, tids, qlock, queue, wakeAll>>
      BY <1>0, <1>6 DEF ScanTake, Goto, TypeOK
    <2>2. Queue(t) \in Seq(Threads)
      BY <1>0, <2>1, QueueType DEF InWake
    <2>3. PICK k \in Matching(t) : /\ entryAddr' = [entryAddr EXCEPT ![Queue(t)[k]] = "null"]
                                   /\ victim' = [victim EXCEPT ![t] = Queue(t)[k]]
      BY <1>6 DEF ScanTake
    <2>4. k \in 1..Len(Queue(t)) /\ Queue(t)[k] \in Threads
      BY <2>2 DEF Matching
    <2>5. /\ victim'[t] = Queue(t)[k] /\ entryAddr'[victim'[t]] = "null"
      BY <1>0, <2>3, <2>4 DEF TypeOK
    <2>6. Among(victim'[t], Queue(t))
      BY <2>4, <2>5 DEF Among
    <2>7. \A q \in Buckets : qlock[q] = t <=> q = QueueOf[addr[t]]
      BY <1>0, <2>1 DEF WakerOK, InWake
    <2>8. ~wakeAll[t] => tids[t] = <<>>
      BY <1>0, <2>1 DEF WakerOK
    <2> QED
      BY <2>1, <2>5, <2>6, <2>7, <2>8 DEF WakerOK, InWake, Queue
  <1>7. CASE Remove(t)
    <2> DEFINE full == Len(tids[t]) = MaxTids
    <2>1. pc[t] = "remove" /\ UNCHANGED <<addr, entryAddr, wakeAll>>
      BY <1>7 DEF Remove
    <2>2. pc'[t] = IF wakeAll[t] /\ ~full THEN "scan" ELSE "alert"
      BY <1>0, <1>7 DEF Remove, Goto, TypeOK
    <2>3. victim'[t] = IF full THEN victim[t] ELSE NoOne
      BY <1>0, <1>7 DEF Remove, TypeOK
    <2>4. QueueOf[addr[t]] \in Buckets /\ \A q \in Buckets : qlock[q] = t <=> q = QueueOf[addr[t]]
      BY <1>0, <2>1, QueueType DEF WakerOK, InWake
    <2>5. \A q \in Buckets : qlock'[q] = t <=> q = QueueOf[addr[t]] /\ wakeAll[t]
      BY <1>0, <1>7, <2>4 DEF Remove, TypeOK
    <2>6. ~wakeAll[t] => ~full
      BY <1>0, <2>1, NtdllAssumption DEF WakerOK
    <2>7. victim[t] \in Threads
      BY <1>0, <2>1 DEF CallOK
    <2> HIDE DEF full
    <2> QED
      BY <1>0, <2>1, <2>2, <2>3, <2>5, <2>6, <2>7 DEF WakerOK, InWake
  <1>8. CASE ScanEnd(t)
    <2>1. /\ pc[t] = "scan" /\ pc'[t] = "alert" /\ UNCHANGED <<addr, victim, tids>>
          /\ qlock' = [qlock EXCEPT ![QueueOf[addr[t]]] = NoOne]
      BY <1>0, <1>8 DEF ScanEnd, waking, Goto, TypeOK
    <2>2. victim[t] = NoOne /\ \A q \in Buckets : qlock[q] = t => q = QueueOf[addr[t]]
      BY <1>0, <2>1 DEF WakerOK
    <2>3. \A q \in Buckets : qlock'[q] # t
      BY <1>0, <2>1, <2>2 DEF TypeOK
    <2> QED
      BY <2>1, <2>2, <2>3 DEF WakerOK
  <1>9. CASE Alert(t) \/ FutexWake(t)
    <2>1. pc[t] \in {"alert", "futex_wake"} /\ UNCHANGED <<addr, qlock, victim, wakeAll>>
      BY <1>9 DEF Alert, FutexWake, queues
    <2>2. pc'[t] \in {"alert", "futex_wake"}
      BY <1>0, <1>9 DEF Alert, FutexWake, Goto, TypeOK
    <2> QED
      BY <1>0, <2>1, <2>2 DEF WakerOK, InWake
  <1>10. CASE AlertEnd(t)
    <2>1. pc[t] = "alert" /\ tids[t] = <<>> /\ UNCHANGED qlock
      BY <1>10 DEF AlertEnd, queues
    <2>2. CASE victim[t] # NoOne
      <3>1. pc'[t] = "scan" /\ victim'[t] = NoOne /\ UNCHANGED <<addr, wakeAll>>
        BY <1>0, <1>10, <2>2 DEF AlertEnd, Goto, TypeOK
      <3>2. wakeAll[t] /\ \A q \in Buckets : qlock[q] = t <=> q = QueueOf[addr[t]]
        BY <1>0, <2>1, <2>2 DEF WakerOK, InWake
      <3> QED
        BY <2>1, <3>1, <3>2 DEF WakerOK, InWake
    <2>3. CASE victim[t] = NoOne
      <3>1. pc'[t] \in {"idle", "wait"} /\ UNCHANGED <<tids, victim>>
        BY <1>0, <1>10, <2>3 DEF AlertEnd, Released, Return, WaitOn, Goto, TypeOK
      <3>2. \A q \in Buckets : qlock[q] # t
        BY <1>0, <2>1, <2>3 DEF WakerOK
      <3> QED
        BY <2>1, <2>3, <3>1, <3>2 DEF WakerOK, InWake
    <2> QED
      BY <2>2, <2>3
  <1> QED
    BY <1>1, <1>2, <1>3, <1>4, <1>5, <1>6, <1>7, <1>8, <1>9, <1>10, StepKinds DEF QueueStep, Alerting

LEMMA StepEntry ==
  ASSUME LocksInv, QueueInv, NEW t \in Threads, Step(t)
  PROVE  EntryOK(t)'
  <1>0. TypeOK /\ CallOK(t) /\ WakerOK(t) /\ EntryOK(t)
    BY DEF LocksInv, CallInv, QueueInv
  <1>1. ASSUME entryAddr'[t] = "null" PROVE EntryOK(t)'
    BY <1>1 DEF EntryOK
  <1>2. CASE Caller(t)
    BY <1>0, <1>1, <1>2, CallerQuiet, CallerGoes DEF EntryOK, InWait, Waits
  <1>3. CASE Rest(t)
    BY <1>0, <1>3, RestQuiet, RestGoes DEF EntryOK
  <1>4. CASE Wait(t)
    <2>1. entryAddr[t] = "null"
      BY <1>0, <1>4 DEF EntryOK, Wait, Waits
    <2>2. CASE UNCHANGED entryAddr
      BY <1>1, <2>1, <2>2
    <2>3. CASE ~UNCHANGED entryAddr
      <3>1. /\ queue' = [queue EXCEPT ![QueueOf[addr[t]]] = Append(@, t)]
            /\ entryAddr' = [entryAddr EXCEPT ![t] = addr[t]]
            /\ pc'[t] = "alert_take" /\ UNCHANGED addr
        BY <1>0, <1>4, <2>3 DEF Wait, Goto, TypeOK
      <3>2. QueueOf[addr[t]] \in Buckets /\ queue[QueueOf[addr[t]]] \in Seq(Threads)
        BY <1>0, <1>4, QueueType DEF Wait, InWait, Queue
      <3>3. queue'[QueueOf[addr[t]]] = Append(queue[QueueOf[addr[t]]], t) /\ entryAddr'[t] = addr[t]
        BY <1>0, <3>1, <3>2 DEF TypeOK
      <3>4. Among(t, queue'[QueueOf[addr[t]]])
        BY <3>2, <3>3, AppendAmong
      <3> QED
        BY <3>1, <3>3, <3>4 DEF EntryOK, Waits
    <2> QED
      BY <2>2, <2>3
  <1>5. CASE Unqueue(t)
    BY <1>0, <1>1, <1>5 DEF Unqueue, TypeOK
  <1>6. CASE WakeLock(t) \/ ScanTake(t) \/ Remove(t) \/ ScanEnd(t) \/ Alerting(t)
    <2>1. entryAddr[t] = "null"
      BY <1>0, <1>6 DEF EntryOK, WakeLock, ScanTake, Remove, ScanEnd, Alerting, Alert, FutexWake, AlertEnd, Waits
    <2>2. entryAddr'[t] = "null"
      BY <1>0, <1>6, <2>1 DEF WakeLock, ScanTake, Remove, ScanEnd, Alerting, Alert, FutexWake, AlertEnd, queues, TypeOK
    <2> QED
      BY <1>1, <2>2
  <1> QED
    BY <1>2, <1>3, <1>4, <1>5, <1>6, StepKinds DEF QueueStep

LEMMA StepQueueInv ==
  ASSUME LocksInv, QueueInv, NEW t \in Threads, Step(t)
  PROVE  QueueInv'
  <1>1. TypeOK /\ CallOK(t) /\ OthersStay(t) /\ QueueFrame(t)
    BY StepOthers, StepQueueFrame DEF LocksInv, CallInv
  <1>2. \A u \in Threads \ {t} : WakerOK(u)' /\ EntryOK(u)'
    BY <1>1, WakerOthers, EntryOthers DEF QueueInv
  <1> QED
    BY <1>2, StepWaker, StepEntry DEF QueueInv

-----------------------------------------------------------------------------
(* The alerts.                                                             *)

LEMMA OthersRest ==
  ASSUME NEW t \in Threads, OthersStay(t), NEW u \in Threads \ {t}
  PROVE  /\ pc'[u] \in Resting <=> pc[u] \in Resting
         /\ pc'[u] = "asleep" => pc[u] = "asleep"
         /\ pc'[u] = "futex_wake" <=> pc[u] = "futex_wake"
         /\ woken'[u] = woken[u]
         /\ \A v : Picked(u, v)' <=> Picked(u, v)
  BY DEF OthersStay, Resting, Picked

\* A step that drops nobody who is picked and wakes nobody.
LEMMA AlertKept ==
  ASSUME AlertInv, NEW t \in Threads, OthersStay(t), pc[t] # "futex_wake", AlertOK(t)',
         \A u \in Threads \ {t} : Picked(t, u) => Picked(t, u)',
         \A u \in Threads \ {t} : /\ alert'[u] = alert[u]
                                  /\ entryAddr'[u] = entryAddr[u] \/ Picked(t, u)'
  PROVE  AlertInv'
  <1> SUFFICES ASSUME NEW u \in Threads \ {t} PROVE AlertOK(u)'
    BY DEF AlertInv
  <1>1. AlertOK(u)
    BY DEF AlertInv
  <1>2. ASSUME pc'[u] \in Resting, entryAddr'[u] = "null", ~alert'[u]
        PROVE  \E v \in Threads : Picked(v, u)'
    <2>1. CASE Picked(t, u)'
      BY <2>1
    <2>2. CASE ~Picked(t, u)'
      <3>1. pc[u] \in Resting /\ entryAddr[u] = "null" /\ ~alert[u]
        BY <1>2, <2>2, OthersRest
      <3>2. PICK v \in Threads : Picked(v, u)
        BY <1>1, <3>1 DEF AlertOK
      <3> QED
        BY <3>2, OthersRest
    <2> QED
      BY <2>1, <2>2
  <1>3. ASSUME pc'[u] = "asleep", alert'[u]
        PROVE  \E v \in Threads : pc'[v] = "futex_wake" /\ woken'[v] = u
    <2>1. pc[u] = "asleep" /\ alert[u]
      BY <1>3, OthersRest
    <2>2. PICK v \in Threads : pc[v] = "futex_wake" /\ woken[v] = u
      BY <1>1, <2>1 DEF AlertOK
    <2> QED
      BY <2>2, OthersRest
  <1> QED
    BY <1>2, <1>3 DEF AlertOK

LEMMA StepAlertInv ==
  ASSUME LocksInv, QueueInv, AlertInv, NEW t \in Threads, Step(t)
  PROVE  AlertInv'
  <1>0. TypeOK /\ CallOK(t) /\ WakerOK(t) /\ EntryOK(t) /\ AlertOK(t) /\ NoOne \notin Threads
    BY NtdllAssumption DEF LocksInv, CallInv, QueueInv, AlertInv
  <1>01. OthersStay(t)
    BY <1>0, StepOthers
  <1>02. ASSUME pc'[t] \notin Resting PROVE AlertOK(t)'
    BY <1>02 DEF AlertOK, Resting
  <1>1. CASE Caller(t)
    <2>1. UNCHANGED <<entryAddr, alert, victim, tids>>
      BY <1>1, CallerQuiet
    <2>2. pc[t] # "futex_wake" /\ pc'[t] \notin Resting
      BY <1>0, <1>1, CallerGoes DEF Waits, Resting, InWake
    <2>3. \A u : Picked(t, u) => Picked(t, u)'
      BY <2>1 DEF Picked
    <2> QED
      BY <1>01, <1>02, <2>1, <2>2, <2>3, AlertKept
  <1>2. CASE Rest(t)
    <2>1. UNCHANGED <<entryAddr, victim, tids>>
      BY <1>2, RestQuiet
    <2>2. \A u : Picked(t, u) => Picked(t, u)'
      BY <2>1 DEF Picked
    <2>3. pc[t] # "futex_wake" /\ \A u \in Threads \ {t} : alert'[u] = alert[u]
      BY <1>0, <1>2 DEF Rest, AlertTake, FutexWait, Interrupt, TimeOut, LeaveWait, TypeOK
    <2>4. AlertOK(t)'
      <3>1. CASE LeaveWait(t)
        <4>1. pc'[t] \notin Resting
          <5>1. CASE entryAddr[t] = "null"
            BY <1>0, <3>1, <5>1, WaitOverAway DEF LeaveWait, InWait, Resting
          <5>2. CASE entryAddr[t] # "null"
            BY <1>0, <3>1, <5>2 DEF LeaveWait, Goto, TypeOK, Resting
          <5> QED
            BY <5>1, <5>2
        <4> QED
          BY <1>02, <4>1
      <3>2. CASE TimeOut(t)
        BY <1>0, <1>02, <3>2 DEF TimeOut, Goto, TypeOK, Resting
      <3>3. CASE AlertTake(t)
        <4>1. CASE alert[t]
          BY <1>0, <1>02, <3>3, <4>1 DEF AlertTake, Goto, TypeOK, Resting
        <4>2. CASE ~alert[t]
          <5>1. pc'[t] = "futex" /\ pc[t] \in Resting
            BY <1>0, <3>3, <4>2 DEF AlertTake, Goto, TypeOK, Resting
          <5>2. entryAddr[t] = "null" => \E v \in Threads : Picked(v, t)
            BY <1>0, <4>2, <5>1 DEF AlertOK
          <5>3. entryAddr[t] = "null" => \E v \in Threads : Picked(v, t)'
            BY <1>01, <2>2, <5>2, OthersRest DEF Picked
          <5> QED
            BY <2>1, <5>1, <5>3 DEF AlertOK
        <4> QED
          BY <4>1, <4>2
      <3>4. CASE FutexWait(t) \/ Interrupt(t)
        <4>1. /\ pc[t] \in Resting /\ UNCHANGED alert
              /\ pc'[t] = "alert_take" \/ (pc'[t] = "asleep" /\ ~alert[t])
          BY <1>0, <3>4 DEF FutexWait, Interrupt, Goto, TypeOK, Resting
        <4>2. entryAddr[t] = "null" /\ ~alert[t] => \E v \in Threads : Picked(v, t)
          BY <1>0, <4>1 DEF AlertOK
        <4>3. entryAddr[t] = "null" /\ ~alert[t] => \E v \in Threads : Picked(v, t)'
          BY <1>01, <2>2, <4>2, OthersRest DEF Picked
        <4> QED
          BY <2>1, <4>1, <4>3 DEF AlertOK
      <3> QED
        BY <1>2, <3>1, <3>2, <3>3, <3>4 DEF Rest
    <2> QED
      BY <1>01, <2>1, <2>2, <2>3, <2>4, AlertKept
  <1>3. CASE Wait(t) \/ Unqueue(t)
    <2>1. pc[t] # "futex_wake" /\ UNCHANGED <<alert, victim, tids>>
      BY <1>3 DEF Wait, Unqueue, waking
    <2>2. \A u : Picked(t, u) => Picked(t, u)'
      BY <2>1 DEF Picked
    <2>3. \A u \in Threads \ {t} : entryAddr'[u] = entryAddr[u]
      BY <1>0, <1>3 DEF Wait, Unqueue, TypeOK
    <2>4. AlertOK(t)'
      <3>1. CASE WaitOver(t)
        BY <1>0, <1>02, <1>3, <3>1, WaitOverAway DEF Wait, Unqueue, InWait, Resting
      <3>2. CASE ~WaitOver(t)
        <4>1. pc'[t] = "alert_take" /\ entryAddr'[t] = addr[t] /\ addr[t] \in Addr
          BY <1>0, <1>3, <3>2, QueueType DEF Wait, Unqueue, Goto, TypeOK, InWait
        <4> QED
          BY <4>1 DEF AlertOK, Addr
      <3> QED
        BY <3>1, <3>2
    <2> QED
      BY <1>01, <2>1, <2>2, <2>3, <2>4, AlertKept
  <1>4. CASE WakeLock(t) \/ ScanEnd(t)
    <2>1. UNCHANGED <<entryAddr, alert, victim, tids>> /\ pc[t] # "futex_wake"
      BY <1>4 DEF WakeLock, ScanEnd, waking
    <2>2. pc'[t] \notin Resting
      BY <1>0, <1>4 DEF WakeLock, ScanEnd, Goto, TypeOK, Resting
    <2>3. \A u : Picked(t, u) => Picked(t, u)'
      BY <2>1 DEF Picked
    <2> QED
      BY <1>01, <1>02, <2>1, <2>2, <2>3, AlertKept
  <1>5. CASE ScanTake(t)
    <2>1. pc[t] = "scan" /\ pc'[t] = "remove" /\ UNCHANGED <<alert, tids>>
      BY <1>0, <1>5 DEF ScanTake, Goto, TypeOK
    <2>2. PICK k \in Matching(t) : /\ entryAddr' = [entryAddr EXCEPT ![Queue(t)[k]] = "null"]
                                   /\ victim' = [victim EXCEPT ![t] = Queue(t)[k]]
      BY <1>5 DEF ScanTake
    <2>3. victim[t] = NoOne /\ victim'[t] = Queue(t)[k]
      BY <1>0, <2>1, <2>2 DEF WakerOK, TypeOK
    <2>4. \A u \in Threads : Picked(t, u) => Picked(t, u)'
      BY <1>0, <2>1, <2>3 DEF Picked
    <2>5. \A u \in Threads : entryAddr'[u] = entryAddr[u] \/ Picked(t, u)'
      BY <1>0, <2>2, <2>3 DEF Picked, TypeOK
    <2>6. pc'[t] \notin Resting
      BY <2>1 DEF Resting
    <2> QED
      BY <1>01, <1>02, <2>1, <2>4, <2>5, <2>6, AlertKept
  <1>6. CASE Remove(t)
    <2>1. pc[t] = "remove" /\ UNCHANGED <<alert, entryAddr>>
      BY <1>6 DEF Remove
    <2>2. pc'[t] \notin Resting
      BY <1>0, <1>6 DEF Remove, Goto, TypeOK, Resting
    <2>3. victim[t] \in Threads /\ tids[t] \in Seq(Threads)
      BY <1>0, <2>1 DEF CallOK, TypeOK
    <2>4. \/ victim'[t] = victim[t] /\ tids'[t] = tids[t]
          \/ tids'[t] = Append(tids[t], victim[t])
      BY <1>0, <1>6 DEF Remove, TypeOK
    <2>5. \A u \in Threads : Picked(t, u) => Picked(t, u)'
      <3>1. CASE victim'[t] = victim[t] /\ tids'[t] = tids[t]
        BY <3>1 DEF Picked
      <3>2. CASE tids'[t] = Append(tids[t], victim[t])
        BY <2>3, <3>2, AppendAmong DEF Picked
      <3> QED
        BY <2>4, <3>1, <3>2
    <2> QED
      BY <1>01, <1>02, <2>1, <2>2, <2>5, AlertKept
  <1>7. CASE AlertEnd(t)
    <2>1. pc[t] = "alert" /\ tids[t] = <<>> /\ UNCHANGED <<alert, entryAddr>>
      BY <1>7 DEF AlertEnd, queues
    <2>2. pc'[t] \notin Resting
      BY <1>0, <1>7 DEF AlertEnd, Released, Return, WaitOn, Goto, TypeOK, Resting
    <2>3. \/ victim[t] # NoOne /\ tids'[t] = <<victim[t]>>
          \/ UNCHANGED <<victim, tids>>
      BY <1>0, <1>7 DEF AlertEnd, TypeOK
    <2>4. \A u \in Threads : Picked(t, u) => Picked(t, u)'
      <3>1. \A u : ~Among(u, <<>>) /\ Among(u, <<u>>)
        BY DEF Among
      <3> QED
        BY <2>1, <2>3, <3>1 DEF Picked
    <2> QED
      BY <1>01, <1>02, <2>1, <2>2, <2>4, AlertKept
  <1>8. CASE Alert(t)
    <2> DEFINE w == Head(tids[t])
    <2>1. tids[t] \in Seq(Threads) /\ tids[t] # <<>> /\ w \in Threads
      BY <1>0, <1>8 DEF Alert, TypeOK
    <2>2. /\ pc[t] = "alert" /\ UNCHANGED <<entryAddr, victim>> /\ tids'[t] = Tail(tids[t])
          /\ alert'[w] /\ \A u \in Threads : u # w => alert'[u] = alert[u]
      BY <1>0, <1>8, <2>1 DEF Alert, TypeOK, queues
    <2>3. \/ alert[w] /\ pc'[t] = "alert"
          \/ pc'[t] = "futex_wake" /\ woken'[t] = w
      BY <1>0, <1>8 DEF Alert, Goto, TypeOK
    <2> HIDE DEF w
    <2>4. \A u : u # w /\ Among(u, tids[t]) => Among(u, tids'[t])
      <3> SUFFICES ASSUME NEW u, u # w, Among(u, tids[t]) PROVE Among(u, tids'[t])
        OBVIOUS
      <3>1. PICK k \in 1..Len(tids[t]) : tids[t][k] = u
        BY DEF Among
      <3>2. k # 1
        BY <2>1, <3>1 DEF w
      <3>3. k - 1 \in 1..Len(tids'[t]) /\ tids'[t][k - 1] = tids[t][k]
        BY <2>1, <2>2, <3>1, <3>2
      <3> QED
        BY <3>1, <3>3 DEF Among
    <2> SUFFICES ASSUME NEW u \in Threads \ {t} PROVE AlertOK(u)'
      BY <1>02, <2>3 DEF AlertInv, Resting
    <2>5. AlertOK(u)
      BY DEF AlertInv
    <2>6. ASSUME pc'[u] \in Resting, entryAddr'[u] = "null", ~alert'[u]
          PROVE  \E v \in Threads : Picked(v, u)'
      <3>1. pc[u] \in Resting /\ entryAddr[u] = "null" /\ ~alert[u] /\ u # w
        BY <1>01, <2>2, <2>6, OthersRest
      <3>2. PICK v \in Threads : Picked(v, u)
        BY <2>5, <3>1 DEF AlertOK
      <3>3. CASE v = t
        BY <2>2, <2>4, <3>1, <3>2, <3>3 DEF Picked
      <3>4. CASE v # t
        BY <1>01, <3>2, <3>4, OthersRest
      <3> QED
        BY <3>3, <3>4
    <2>7. ASSUME pc'[u] = "asleep", alert'[u]
          PROVE  \E v \in Threads : pc'[v] = "futex_wake" /\ woken'[v] = u
      <3>1. CASE alert[u]
        <4>1. PICK v \in Threads : pc[v] = "futex_wake" /\ woken[v] = u
          BY <1>01, <2>5, <2>7, <3>1, OthersRest DEF AlertOK
        <4> QED
          BY <1>01, <2>2, <4>1, OthersRest
      <3>2. CASE ~alert[u]
        BY <2>2, <2>3, <2>7, <3>2
      <3> QED
        BY <3>1, <3>2
    <2> QED
      BY <2>6, <2>7 DEF AlertOK
  <1>9. CASE FutexWake(t)
    <2>1. pc[t] = "futex_wake" /\ UNCHANGED <<entryAddr, alert, victim, tids>> /\ woken[t] \in Threads
      BY <1>0, <1>9 DEF FutexWake, queues, CallOK
    <2>2. pc'[t] = "alert" /\ pc'[woken[t]] # "asleep"
      BY <1>0, <1>9, <2>1 DEF FutexWake, TypeOK
    <2> SUFFICES ASSUME NEW u \in Threads \ {t} PROVE AlertOK(u)'
      BY <1>02, <2>2 DEF AlertInv, Resting
    <2>3. AlertOK(u)
      BY DEF AlertInv
    <2>4. ASSUME pc'[u] \in Resting, entryAddr'[u] = "null", ~alert'[u]
          PROVE  \E v \in Threads : Picked(v, u)'
      <3>1. PICK v \in Threads : Picked(v, u)
        BY <1>01, <2>1, <2>3, <2>4, OthersRest DEF AlertOK
      <3> QED
        BY <2>1, <3>1 DEF Picked
    <2>5. ASSUME pc'[u] = "asleep", alert'[u]
          PROVE  \E v \in Threads : pc'[v] = "futex_wake" /\ woken'[v] = u
      <3>1. PICK v \in Threads : pc[v] = "futex_wake" /\ woken[v] = u
        BY <1>01, <2>1, <2>3, <2>5, OthersRest DEF AlertOK
      <3>2. v # t
        BY <2>2, <2>5, <3>1
      <3> QED
        BY <1>01, <3>1, <3>2, OthersRest
    <2> QED
      BY <2>4, <2>5 DEF AlertOK
  <1> QED
    BY <1>1, <1>2, <1>3, <1>4, <1>5, <1>6, <1>7, <1>8, <1>9, StepKinds DEF QueueStep, Alerting

-----------------------------------------------------------------------------
(* What a waiter compares.                                                 *)

LEMMA StepCmp ==
  ASSUME TypeOK, NEW t \in Threads, CallOK(t), Step(t), pc'[t] = "wait"
  PROVE  CmpOK(t)'
  <1> USE DEF TypeOK
  <1>1. ASSUME NEW a \in Addr, NEW v, WaitOn(t, a, v),
               /\ a = "owners" => v # << 0 >>
               /\ a = "srw" => v[1] # 0 \/ v[2] # 0
               /\ a = "sem" => v = << 0 >>
               /\ a = "cond" => v = <<value[t]>>
        PROVE  CmpOK(t)'
    <2>1. addr'[t] = a /\ cmp'[t] = v /\ value'[t] = value[t]
      BY <1>1 DEF WaitOn
    <2> QED
      BY <1>1, <2>1 DEF CmpOK
  <1>2. ASSUME Released(t) PROVE CmpOK(t)'
    <2>1. WaitOn(t, "cond", <<value[t]>>)
      BY <1>2 DEF Released, Return, Goto
    <2> QED
      BY <1>1, <2>1 DEF Addr
  <1>3. CASE Walk(t)
    <2>1. CASE AlertEnd(t)
      BY <1>2, <2>1 DEF AlertEnd, Goto
    <2>2. CASE Wait(t) \/ LeaveWait(t) \/ Unqueue(t)
      <3>1. ~WaitOver(t)
        BY <2>2, WaitOverAway DEF Wait, LeaveWait, Unqueue, InWait
      <3> QED
        BY <2>2, <3>1 DEF Wait, LeaveWait, Unqueue, Goto
    <2>3. CASE AlertTake(t) \/ FutexWait(t) \/ Interrupt(t) \/ TimeOut(t)
      BY <2>3 DEF AlertTake, FutexWait, Interrupt, TimeOut, Goto
    <2>4. CASE WakeLock(t) \/ ScanTake(t) \/ Remove(t) \/ ScanEnd(t) \/ Alert(t) \/ FutexWake(t) \/ CondWake(t)
      BY <2>4 DEF WakeLock, ScanTake, Remove, ScanEnd, Alert, FutexWake, CondWake, WakeOn, Goto
    <2>5. CASE Begin(t) \/ Sleep(t)
      <3>1. CASE Begin(t)
        <4>1. PICK o \in Ops[t] : Goto(t, FirstStep(o, mode[t]))
          BY <3>1 DEF Begin
        <4>2. o \in Op /\ pc'[t] = FirstStep(o, mode[t])
          BY <4>1, NtdllAssumption DEF Goto
        <4> QED
          BY <4>2 DEF FirstStep, Op
      <3>2. CASE Sleep(t)
        <4>1. mode[t] \in {"shared", "exclusive", "crit"}
          BY <3>2 DEF CallOK, Sleep
        <4> QED
          BY <3>2, <4>1 DEF Sleep, Goto, ReleaseStep
      <3> QED
        BY <2>5, <3>1, <3>2
    <2> QED
      BY <1>3, <2>1, <2>2, <2>3, <2>4, <2>5 DEF Walk
  <1>4. CASE SRWStep(t)
    <2>1. CASE GetExclusive(t)
      <3>1. owners # 0 /\ WaitOn(t, "owners", <<owners>>)
        BY <2>1 DEF GetExclusive, Return, Goto
      <3>2. <<owners>> # <<0>>
        BY <3>1
      <3> QED
        BY <1>1, <3>1, <3>2 DEF Addr
    <2>2. CASE GetShared(t)
      <3>1. (exclWaiters # 0 \/ exclusive) /\ WaitOn(t, "srw", Value("srw"))
        BY <2>2 DEF GetShared, Return, Goto
      <3>2. Value("srw") = <<exclWaiters, Bit(exclusive), owners>>
        BY DEF Value
      <3>3. Value("srw")[1] # 0 \/ Value("srw")[2] # 0
        BY <3>1, <3>2 DEF Bit
      <3> QED
        BY <1>1, <3>1, <3>3 DEF Addr
    <2>3. CASE ReleaseShared(t)
      BY <1>2, <2>3 DEF ReleaseShared, WakeOn, Goto
    <2>4. CASE AddExclusive(t) \/ TryExclusive(t) \/ TryShared(t) \/ ReleaseExclusive(t)
      BY <2>4 DEF AddExclusive, TryExclusive, TryShared, ReleaseExclusive, WakeOn, Return, Goto
    <2> QED
      BY <1>4, <2>1, <2>2, <2>3, <2>4 DEF SRWStep
  <1>5. CASE CritStep(t)
    <2>1. CASE TakeSem(t)
      <3>1. WaitOn(t, "sem", <<0>>)
        BY <2>1 DEF TakeSem, Goto
      <3> QED
        BY <1>1, <3>1 DEF Addr
    <2>2. CASE LeaveDec(t)
      BY <1>2, <2>2 DEF LeaveDec, Goto
    <2>3. CASE TryEnter(t) \/ Spin(t) \/ Enter(t) \/ Got(t) \/ Leave(t) \/ UnWait(t)
      BY <2>3 DEF TryEnter, Spin, Enter, Got, Leave, UnWait, WakeOn, Return, Goto
    <2> QED
      BY <1>5, <2>1, <2>2, <2>3 DEF CritStep
  <1> QED
    BY <1>3, <1>4, <1>5 DEF Step

\* Only a WakeAll of the condition variable marks other threads.
LEMMA StepMarks ==
  ASSUME TypeOK, NEW t \in Threads, Step(t)
  PROVE  /\ CondWake(t) \/ (UNCHANGED cond /\ \A u \in Threads \ {t} : missed'[u] = missed[u])
         /\ CondWake(t) => /\ cond' = cond + 1
                           /\ \A u \in Threads : missed'[u] => missed[u] \/ (Sleeping(u) /\ mode[u] = "none")
  <1> USE DEF TypeOK, words, srw, crit, queues, waking
  <1>1. CASE SRWStep(t)
    BY <1>1 DEF SRWStep, AddExclusive, GetExclusive, GetShared, TryExclusive, TryShared, ReleaseExclusive,
                ReleaseShared, CondWake
  <1>2. CASE CritStep(t)
    BY <1>2 DEF CritStep, TryEnter, Spin, Enter, TakeSem, Got, Leave, LeaveDec, UnWait, CondWake
  <1>3. CASE CondWake(t)
    BY <1>3 DEF CondWake
  <1>4. CASE Walk(t) /\ ~CondWake(t)
    BY <1>4 DEF Walk, Begin, Sleep, Wait, AlertTake, FutexWait, Interrupt, TimeOut, LeaveWait, Unqueue,
                WakeLock, ScanTake, Remove, ScanEnd, Alert, FutexWake, AlertEnd, WaitOver
  <1> QED
    BY <1>1, <1>2, <1>3, <1>4 DEF Step

LEMMA StaleOthers ==
  ASSUME TypeOK, NEW t \in Threads, Step(t), OthersStay(t), NEW u \in Threads \ {t}, CmpOK(u), MissedOK(u),
         mode[u] = "none" => pc[u] # "sleep"
  PROVE  CmpOK(u)' /\ MissedOK(u)'
  <1>1. CmpOK(u)'
    BY DEF CmpOK, OthersStay
  <1>2. Sleeping(u)' <=> Sleeping(u)
    BY DEF Sleeping, OthersStay
  <1>3. cond \in Nat /\ value[u] \in Nat /\ cond' \in {cond, cond + 1}
    BY StepMarks DEF TypeOK
  <1>4. missed'[u] => missed[u] \/ (cond' = cond + 1 /\ Sleeping(u) /\ mode[u] = "none")
    BY StepMarks
  <1>5. missed[u] \/ missed'[u] => missed[u] \/ (value[u] <= cond /\ cond' = cond + 1 /\ Sleeping(u) /\ mode[u] = "none")
    BY <1>4 DEF MissedOK
  <1>6. /\ value'[u] = value[u] /\ mode'[u] = mode[u] /\ addr'[u] = addr[u]
        /\ pc'[u] = pc[u] \/ (pc[u] = "asleep" /\ pc'[u] = "alert_take")
    BY DEF OthersStay
  <1>7. missed'[u] => Sleeping(u) /\ mode[u] = "none" /\ value[u] < cond'
    BY <1>3, <1>5 DEF MissedOK
  <1>8. Sleeping(u) => pc'[u] \in SleepPath \/ (pc'[u] \in InWait /\ addr[u] = "cond")
    BY <1>6 DEF MissedOK, SleepPath, InWait, InWake
  <1>9. Sleeping(u) /\ pc'[u] # "sleep" => value[u] <= cond'
    BY <1>3, <1>6 DEF MissedOK
  <1> QED
    BY <1>1, <1>2, <1>6, <1>7, <1>8, <1>9 DEF MissedOK

LEMMA WaitOverMissed ==
  ASSUME TypeOK, NEW t \in Threads, CallOK(t), MissedOK(t), pc[t] \in InWait, WaitOver(t)
  PROVE  MissedOK(t)'
  <1>1. /\ op' = [op EXCEPT ![t] = IF addr[t] = "cond" THEN "reacquire" ELSE @]
        /\ missed' = [missed EXCEPT ![t] = @ /\ addr[t] # "cond"]
    BY WaitOverGoes
  <1>2. addr[t] # "cond" => ~Sleeping(t)
    BY DEF MissedOK, SleepPath, InWait, InWake
  <1>3. ~Sleeping(t)' /\ ~missed'[t]
    BY <1>1, <1>2 DEF MissedOK, Sleeping, TypeOK
  <1> QED
    BY <1>3 DEF MissedOK

\* The thread that moves.  A call that cannot be a sleep leaves no mark.
LEMMA StepMissed ==
  ASSUME TypeOK, NEW t \in Threads, CallOK(t), MissedOK(t), Step(t)
  PROVE  MissedOK(t)'
  <1> USE DEF TypeOK, words, srw, crit, queues, waking
  <1>1. ASSUME ~Sleeping(t), ~Sleeping(t)', missed'[t] = missed[t] PROVE MissedOK(t)'
    BY <1>1 DEF MissedOK
  <1>2. ASSUME UNCHANGED cond, missed'[t] = missed[t], op'[t] = op[t], value'[t] = value[t],
               pc[t] # "sleep", missed[t] => mode'[t] = "none",
               pc'[t] \in SleepPath \/ (pc'[t] \in InWait /\ addr'[t] = "cond")
        PROVE  MissedOK(t)'
    BY <1>2 DEF MissedOK, Sleeping
  <1>3. ASSUME UNCHANGED cond, missed'[t] = missed[t], pc[t] # "sleep", mode'[t] = "none", Released(t)
        PROVE  MissedOK(t)'
    <2>1. CASE Sleeping(t)
      <3>1. WaitOn(t, "cond", <<value[t]>>)
        BY <1>3, <2>1 DEF Released
      <3> QED
        BY <1>2, <1>3, <3>1 DEF WaitOn, Goto, InWait
    <2>2. CASE ~Sleeping(t)
      BY <1>1, <1>3, <2>2 DEF Released, Return, Sleeping
    <2> QED
      BY <2>1, <2>2
  <1>4. CASE SRWStep(t)
    <2>1. CASE AddExclusive(t) \/ GetExclusive(t) \/ GetShared(t) \/ TryExclusive(t) \/ TryShared(t)
      <3>1. ~Sleeping(t) /\ missed'[t] = missed[t]
        BY <2>1 DEF AddExclusive, GetExclusive, GetShared, TryExclusive, TryShared, MissedOK, SleepPath, InWait, InWake
      <3>2. op'[t] = op[t] \/ op'[t] = "none"
        BY <2>1 DEF AddExclusive, GetExclusive, GetShared, TryExclusive, TryShared, Return, WaitOn
      <3> QED
        BY <1>1, <3>1, <3>2 DEF Sleeping
    <2>2. CASE ReleaseExclusive(t)
      BY <1>2, <2>2 DEF ReleaseExclusive, Hold, WakeOn, Goto, SleepPath, InWake
    <2>3. CASE ReleaseShared(t)
      <3>1. mode'[t] = "none" /\ UNCHANGED <<cond, missed>> /\ pc[t] # "sleep"
        BY <2>3 DEF ReleaseShared, Hold
      <3>2. CASE WakeOn(t, "owners", FALSE)
        BY <1>2, <3>1, <3>2 DEF WakeOn, Goto, SleepPath, InWake
      <3> QED
        BY <1>3, <2>3, <3>1, <3>2 DEF ReleaseShared
    <2> QED
      BY <1>4, <2>1, <2>2, <2>3 DEF SRWStep
  <1>5. CASE CritStep(t)
    <2>1. CASE TryEnter(t) \/ Spin(t) \/ Enter(t) \/ TakeSem(t) \/ Got(t)
      <3>1. ~Sleeping(t) /\ missed'[t] = missed[t]
        BY <2>1 DEF TryEnter, Spin, Enter, TakeSem, Got, MissedOK, SleepPath, InWait, InWake
      <3>2. op'[t] = op[t] \/ op'[t] = "none"
        BY <2>1 DEF TryEnter, Spin, Enter, TakeSem, Got, Return, WaitOn
      <3> QED
        BY <1>1, <3>1, <3>2 DEF Sleeping
    <2>2. CASE Leave(t)
      <3>1. ~missed[t] /\ UNCHANGED <<cond, missed, mode>> /\ pc[t] = "leave"
        BY <2>2 DEF Leave, MissedOK, CallOK
      <3>2. CASE recursion > 1
        <4>1. op'[t] = "none"
          BY <2>2, <3>2 DEF Leave, Return
        <4> QED
          BY <3>1, <4>1 DEF MissedOK, Sleeping
      <3>3. CASE ~(recursion > 1)
        BY <1>2, <2>2, <3>1, <3>3 DEF Leave, Goto, SleepPath
      <3> QED
        BY <3>2, <3>3
    <2>3. CASE LeaveDec(t)
      <3>1. mode'[t] = "none" /\ UNCHANGED <<cond, missed>> /\ pc[t] # "sleep"
        BY <2>3 DEF LeaveDec, Hold
      <3>2. CASE lockCount > 0
        BY <1>2, <2>3, <3>1, <3>2 DEF LeaveDec, Goto, SleepPath
      <3> QED
        BY <1>3, <2>3, <3>1, <3>2 DEF LeaveDec
    <2>4. CASE UnWait(t)
      BY <1>2, <2>4 DEF UnWait, WakeOn, Goto, SleepPath, InWake, CallOK, Without
    <2> QED
      BY <1>5, <2>1, <2>2, <2>3, <2>4 DEF CritStep
  <1>6. CASE Begin(t)
    <2>1. PICK o \in Ops[t] : Goto(t, FirstStep(o, mode[t])) /\ op' = [op EXCEPT ![t] = o]
      BY <1>6 DEF Begin
    <2>2. o \in Op /\ pc'[t] = FirstStep(o, mode[t]) /\ op'[t] = o
      BY <2>1, NtdllAssumption DEF Goto
    <2>3. Sleeping(t)' => pc'[t] = "sleep"
      BY <2>2 DEF Sleeping, FirstStep
    <2>4. ~missed'[t]
      BY <1>6 DEF Begin, MissedOK, CallOK
    <2> QED
      BY <2>3, <2>4 DEF MissedOK, SleepPath
  <1>7. CASE CondWake(t)
    <2>1. ~Sleeping(t) /\ op'[t] = op[t]
      BY <1>7 DEF CondWake, CallOK, WakeOn
    <2>2. ~missed'[t]
      BY <1>7, <2>1 DEF CondWake, MissedOK
    <2> QED
      BY <2>1, <2>2 DEF MissedOK, Sleeping
  <1>8. CASE Sleep(t)
    <2>1. mode[t] \in {"shared", "exclusive", "crit"} /\ ~missed[t]
      BY <1>8 DEF CallOK, Sleep, MissedOK
    <2>2. /\ pc'[t] \in {"release_exclusive", "release_shared", "leave"}
          /\ value'[t] = cond /\ UNCHANGED <<cond, missed>>
      BY <1>8, <2>1 DEF Sleep, Goto, ReleaseStep
    <2> QED
      BY <2>1, <2>2 DEF MissedOK, SleepPath
  <1>9. CASE Wait(t) \/ LeaveWait(t) \/ Unqueue(t)
    <2>1. CASE WaitOver(t)
      BY <1>9, <2>1, WaitOverMissed DEF Wait, LeaveWait, Unqueue, InWait
    <2>2. CASE ~WaitOver(t)
      <3>1. /\ pc[t] \in InWait /\ pc'[t] \in InWait /\ pc[t] \notin SleepPath
            /\ UNCHANGED <<cond, missed, op, value, mode, addr>>
        BY <1>9, <2>2 DEF Wait, LeaveWait, Unqueue, Goto, InWait, SleepPath, InWake
      <3> QED
        BY <3>1 DEF MissedOK, Sleeping, SleepPath
    <2> QED
      BY <2>1, <2>2
  <1>10. CASE AlertTake(t) \/ FutexWait(t) \/ Interrupt(t) \/ TimeOut(t)
    <2>1. /\ pc[t] \in InWait /\ pc'[t] \in InWait /\ pc[t] \notin SleepPath
          /\ UNCHANGED <<cond, missed, op, value, mode, addr>>
      BY <1>10 DEF AlertTake, FutexWait, Interrupt, TimeOut, Goto, InWait, SleepPath, InWake
    <2> QED
      BY <2>1 DEF MissedOK, Sleeping, SleepPath
  <1>11. CASE WakeLock(t) \/ ScanTake(t) \/ Remove(t) \/ ScanEnd(t) \/ Alert(t) \/ FutexWake(t)
    <2>1. pc[t] \in InWake /\ pc'[t] \in InWake /\ UNCHANGED <<cond, missed, op, value, mode>>
      BY <1>11 DEF WakeLock, ScanTake, Remove, ScanEnd, Alert, FutexWake, Goto, InWake
    <2> QED
      BY <2>1 DEF MissedOK, Sleeping, SleepPath, InWake
  <1>12. CASE AlertEnd(t)
    <2>1. pc[t] \in InWake /\ UNCHANGED <<cond, missed, mode>>
      BY <1>12 DEF AlertEnd, InWake
    <2>2. CASE victim[t] # NoOne
      <3>1. pc'[t] = "scan" /\ UNCHANGED <<op, value>>
        BY <1>12, <2>2 DEF AlertEnd, Goto
      <3> QED
        BY <2>1, <3>1 DEF MissedOK, Sleeping, SleepPath, InWake
    <2>3. CASE victim[t] = NoOne
      <3>1. Released(t)
        BY <1>12, <2>3 DEF AlertEnd
      <3>2. CASE Sleeping(t)
        BY <1>3, <2>1, <3>1, <3>2 DEF CallOK, InWake
      <3>3. CASE ~Sleeping(t)
        BY <1>1, <2>1, <3>1, <3>3 DEF Released, Return, Sleeping
      <3> QED
        BY <3>2, <3>3
    <2> QED
      BY <2>2, <2>3
  <1> QED
    BY <1>4, <1>5, <1>6, <1>7, <1>8, <1>9, <1>10, <1>11, <1>12 DEF Step, Walk

LEMMA StepStaleInv ==
  ASSUME LocksInv, StaleInv, NEW t \in Threads, Step(t)
  PROVE  StaleInv'
  <1>1. TypeOK /\ CallInv /\ CallOK(t) /\ CmpOK(t) /\ MissedOK(t)
    BY DEF LocksInv, CallInv, StaleInv
  <1>2. OthersStay(t)
    BY <1>1, StepOthers
  <1>3. \A u \in Threads : mode[u] = "none" => pc[u] # "sleep"
    BY <1>1 DEF CallInv, CallOK
  <1>4. \A u \in Threads \ {t} : CmpOK(u)' /\ MissedOK(u)'
    BY <1>1, <1>2, <1>3, StaleOthers DEF StaleInv
  <1>5. CmpOK(t)'
    BY <1>1, StepCmp DEF CmpOK
  <1>6. MissedOK(t)'
    BY <1>1, StepMissed
  <1> QED
    BY <1>4, <1>5, <1>6 DEF StaleInv

-----------------------------------------------------------------------------
(* The wakes.                                                              *)

\* Whoever will see to the exclusive waiters, and to those of the critical
\* section; NoneStranded, a lock at a time.
OwnersRescue(t) == WillScan(t, "owners") \/ (WantsExclusive(t) /\ ~Queued(t, "owners"))
SemRescue(t) == WillScan(t, "sem") \/ (WantsCrit(t) /\ ~Queued(t, "sem"))
OwnersWoken ==
    owners = 0 /\ (\E u \in Threads : Queued(u, "owners")) => \E t \in Threads : OwnersRescue(t)
SharedWoken ==
    exclWaiters = 0 /\ ~exclusive /\ (\E u \in Threads : Queued(u, "srw")) => \E t \in Threads : WillScanAll(t, "srw")
SemWoken ==
    semaphore = 1 /\ (\E u \in Threads : Queued(u, "sem")) => \E t \in Threads : SemRescue(t)

LEMMA StrandedParts ==
  /\ NoneStranded <=> OwnersWoken /\ SharedWoken /\ SemWoken
  /\ NoneStranded' <=> OwnersWoken' /\ SharedWoken' /\ SemWoken'
  BY DEF NoneStranded, OwnersWoken, SharedWoken, SemWoken, OwnersRescue, SemRescue

\* Others neither enter a queue nor stop a scan because t moves.
LEMMA OthersScan ==
  ASSUME TypeOK, NEW t \in Threads, OthersStay(t), QueueFrame(t), NEW u \in Threads \ {t}, NEW a \in Addr
  PROVE  /\ Queued(u, a)' => Queued(u, a)
         /\ WillScan(u, a) => WillScan(u, a)'
         /\ WillScanAll(u, a) => WillScanAll(u, a)'
         /\ OwnersRescue(u) => OwnersRescue(u)'
         /\ SemRescue(u) => SemRescue(u)'
  <1>1. \A b \in Addr : Queued(u, b)' => Queued(u, b)
    BY DEF Queued, OthersStay, QueueFrame, Addr
  <1>2. \A b \in Addr : WillScan(u, b) => WillScan(u, b)'
    BY DEF WillScan, OthersStay
  <1>3. WillScanAll(u, a) => WillScanAll(u, a)'
    <2>1. QueueOf[a] \in Buckets /\ NoOne \notin Threads
      BY NtdllAssumption
    <2>2. qlock[QueueOf[a]] = u => qlock'[QueueOf[a]] = u
      BY <2>1 DEF QueueFrame
    <2> QED
      BY <2>2 DEF WillScanAll, OthersStay
  <1>4. SameAsSeen(u)
    BY OthersSeen
  <1>5. OwnersRescue(u) => OwnersRescue(u)'
    BY <1>1, <1>2, <1>4 DEF OwnersRescue, SameAsSeen, Addr
  <1>6. SemRescue(u) => SemRescue(u)'
    BY <1>1, <1>2, <1>4 DEF SemRescue, SameAsSeen, CritSeen, Addr
  <1> QED
    BY <1>1, <1>2, <1>3, <1>5, <1>6

\* Only RtlWaitOnAddress enters a queue, and only when the comparison holds.
LEMMA StepQueued ==
  ASSUME TypeOK, NEW t \in Threads, CallOK(t), Step(t), NEW a \in Addr, Queued(t, a)'
  PROVE  \/ Queued(t, a) /\ ~Wait(t)
         \/ Wait(t) /\ addr[t] = a /\ Value(a) = cmp[t] /\ UNCHANGED <<words, missed>>
  <1>1. pc'[t] \in Resting /\ entryAddr'[t] = a
    BY DEF Queued, Resting
  <1>2. CASE Caller(t)
    BY <1>1, <1>2, CallerGoes DEF Waits, Resting
  <1>3. CASE Rest(t)
    <2>1. ~LeaveWait(t) /\ ~TimeOut(t)
      <3>1. ASSUME LeaveWait(t) PROVE FALSE
        <4>1. ~WaitOver(t)
          BY <1>1, <3>1, WaitOverAway DEF LeaveWait, InWait, Resting
        <4> QED
          BY <1>1, <3>1, <4>1 DEF LeaveWait, Goto, TypeOK, Resting
      <3> QED
        BY <1>1, <3>1 DEF TimeOut, Goto, TypeOK, Resting
    <2>2. pc[t] \in Resting /\ UNCHANGED entryAddr /\ ~Wait(t)
      BY <1>3, <2>1 DEF Rest, AlertTake, FutexWait, Interrupt, queues, Resting, Wait
    <2> QED
      BY <1>1, <2>2 DEF Queued, Resting
  <1>4. CASE Wait(t)
    <2>1. ~WaitOver(t)
      BY <1>1, <1>4, WaitOverAway DEF Wait, InWait, Resting
    <2>2. Value(addr[t]) = cmp[t] /\ entryAddr'[t] = addr[t] /\ UNCHANGED <<words, missed>>
      BY <1>4, <2>1 DEF Wait, TypeOK
    <2> QED
      BY <1>1, <1>4, <2>2
  <1>5. CASE Unqueue(t)
    BY <1>1, <1>5, WaitOverAway DEF Unqueue, InWait, Resting
  <1>6. CASE WakeLock(t) \/ ScanTake(t) \/ Remove(t) \/ ScanEnd(t)
    BY <1>1, <1>6 DEF WakeLock, ScanTake, Remove, ScanEnd, Goto, TypeOK, Resting
  <1>7. CASE Alerting(t)
    BY <1>1, <1>7 DEF Alerting, Alert, FutexWake, AlertEnd, Released, Return, WaitOn, Goto, TypeOK, Resting
  <1> QED
    BY <1>2, <1>3, <1>4, <1>5, <1>6, <1>7, StepKinds DEF QueueStep

\* A waker scans until it takes an entry or finds none, ...
LEMMA StepScan ==
  ASSUME TypeOK, NEW t \in Threads, Step(t), NEW a \in Addr, WillScan(t, a), ~ScanTake(t), ~ScanEnd(t)
  PROVE  WillScan(t, a)'
  <1>1. pc[t] \in {"wake", "scan"} /\ addr[t] = a
    BY DEF WillScan
  <1>2. WakeLock(t)
    BY <1>1 DEF Step, Walk, SRWStep, CritStep, Begin, CondWake, Sleep, Wait, AlertTake, FutexWait, Interrupt,
       TimeOut, LeaveWait, Unqueue, Remove, Alert, FutexWake, AlertEnd, AddExclusive, GetExclusive, GetShared,
       TryExclusive, TryShared, ReleaseExclusive, ReleaseShared, TryEnter, Spin, Enter, TakeSem, Got, Leave,
       LeaveDec, UnWait
  <1> QED
    BY <1>1, <1>2 DEF WakeLock, Goto, TypeOK, WillScan

\* ... and one that wakes all until it finds none.
LEMMA StepScanAll ==
  ASSUME LocksInv, QueueInv, NEW t \in Threads, Step(t), NEW a \in Addr, WillScanAll(t, a), ~ScanEnd(t)
  PROVE  WillScanAll(t, a)'
  <1>0. TypeOK /\ CallOK(t) /\ WakerOK(t) /\ QueueOf[a] \in Buckets
    BY NtdllAssumption DEF LocksInv, CallInv, QueueInv
  <1>1. addr[t] = a /\ wakeAll[t] /\ pc[t] \in InWake
    BY <1>0 DEF WillScanAll, WakerOK, InWake
  <1>2. CASE WakeLock(t)
    <2>1. UNCHANGED <<addr, wakeAll>> /\ qlock'[QueueOf[a]] = t
      BY <1>0, <1>1, <1>2 DEF WakeLock, waking, TypeOK
    <2> QED
      BY <1>1, <2>1 DEF WillScanAll
  <1>3. CASE ~WakeLock(t)
    <2>1. ScanTake(t) \/ Remove(t) \/ Alert(t) \/ FutexWake(t) \/ AlertEnd(t)
      BY <1>1, <1>3 DEF InWake, Step, Walk, SRWStep, CritStep, Begin, CondWake, Sleep, Wait, AlertTake, FutexWait,
         Interrupt, TimeOut, LeaveWait, Unqueue, AddExclusive, GetExclusive, GetShared,
         TryExclusive, TryShared, ReleaseExclusive, ReleaseShared, TryEnter, Spin, Enter, TakeSem, Got, Leave,
         LeaveDec, UnWait
    <2>2. qlock[QueueOf[a]] = t /\ (pc[t] = "alert" => victim[t] # NoOne)
      BY <1>0, <2>1 DEF WillScanAll, WakerOK, ScanTake, Remove, Alert, FutexWake, AlertEnd
    <2>3. UNCHANGED <<addr, wakeAll>>
      BY <2>1, <2>2 DEF ScanTake, Remove, Alert, FutexWake, AlertEnd
    <2>4. qlock'[QueueOf[a]] = t
      BY <1>0, <1>1, <2>1, <2>2 DEF ScanTake, Remove, Alert, FutexWake, AlertEnd, queues, TypeOK
    <2> QED
      BY <1>1, <2>3, <2>4 DEF WillScanAll
  <1> QED
    BY <1>2, <1>3

\* The scan ends when no entry has the address any more.
LEMMA ScanEndsEmpty ==
  ASSUME LocksInv, QueueInv, NEW t \in Threads, ScanEnd(t), NEW u \in Threads
  PROVE  entryAddr'[u] # addr[t]
  <1>0. TypeOK /\ CallOK(t) /\ EntryOK(u) /\ UNCHANGED entryAddr /\ pc[t] = "scan" /\ Matching(t) = {}
    BY DEF LocksInv, CallInv, QueueInv, ScanEnd
  <1>1. addr[t] \in Addr
    BY <1>0, QueueType DEF InWake
  <1> SUFFICES ASSUME entryAddr[u] = addr[t] PROVE FALSE
    BY <1>0
  <1>2. Among(u, Queue(t))
    BY <1>0, <1>1 DEF EntryOK, Addr, Queue
  <1>3. \E k \in 1..Len(Queue(t)) : entryAddr[Queue(t)[k]] = addr[t]
    BY <1>2 DEF Among
  <1> QED
    BY <1>0, <1>3 DEF Matching

\* The thread that a scan takes from the queue goes on to its lock.
LEMMA ScanTakesWaiter ==
  ASSUME LocksInv, QueueInv, NEW t \in Threads, ScanTake(t), OthersStay(t)
  PROVE  \E v \in Threads \ {t} : pc'[v] \in InWait /\ addr'[v] = addr[t] /\ entryAddr'[v] = "null"
  <1>0. TypeOK /\ CallOK(t) /\ pc[t] = "scan"
    BY DEF LocksInv, CallInv, ScanTake
  <1>1. addr[t] \in Addr /\ Queue(t) \in Seq(Threads)
    BY <1>0, QueueType DEF InWake
  <1>2. PICK k \in Matching(t) : entryAddr' = [entryAddr EXCEPT ![Queue(t)[k]] = "null"]
    BY DEF ScanTake
  <1>3. PICK v \in Threads : v = Queue(t)[k] /\ entryAddr[v] = addr[t]
    BY <1>1, <1>2 DEF Matching
  <1>4. EntryOK(v)
    BY DEF QueueInv
  <1>5. pc[v] \in Waits /\ addr[v] = addr[t]
    BY <1>1, <1>3, <1>4 DEF EntryOK, Addr
  <1>6. v # t
    BY <1>0, <1>5 DEF Waits
  <1>7. entryAddr'[v] = "null"
    BY <1>0, <1>2, <1>3 DEF TypeOK
  <1>8. pc'[v] \in InWait /\ addr'[v] = addr[v]
    BY <1>5, <1>6 DEF OthersStay, Waits, InWait
  <1> QED
    BY <1>5, <1>6, <1>7, <1>8

LEMMA StepOwnersWoken ==
  ASSUME LocksInv, QueueInv, StaleInv, OwnersWoken, NEW t \in Threads, Step(t)
  PROVE  OwnersWoken'
  <1>0. TypeOK /\ CallOK(t) /\ SRWInv /\ CmpOK(t) /\ NoOne \notin Threads /\ {"owners", "srw", "sem", "cond"} \subseteq Addr
    BY NtdllAssumption DEF LocksInv, CallInv, StaleInv, Addr
  <1>1. OthersStay(t) /\ QueueFrame(t)
    BY <1>0, StepOthers, StepQueueFrame
  <1> SUFFICES ASSUME owners' = 0, NEW u \in Threads, Queued(u, "owners")'
               PROVE  \E v \in Threads : OwnersRescue(v)'
    BY DEF OwnersWoken
  \* nobody enters the queue while the lock has no owner
  <1>2. UNCHANGED words => Queued(u, "owners") /\ (u = t => ~Wait(t))
    <2>1. CASE u = t
      <3>1. ASSUME UNCHANGED words, Value("owners") = cmp[t], addr[t] = "owners", Wait(t) PROVE FALSE
        <4>1. Value("owners") = <<0>>
          BY <3>1 DEF words, srw, Value
        <4> QED
          BY <1>0, <3>1, <4>1 DEF CmpOK, Wait
      <3> QED
        BY <1>0, <2>1, <3>1, StepQueued
    <2>2. CASE u # t
      BY <1>0, <1>1, <2>2, OthersScan
    <2> QED
      BY <2>1, <2>2
  <1>3. CASE ReleaseExclusive(t)
    <2>1. CASE exclWaiters > 0
      <3>1. WillScan(t, "owners")'
        BY <1>0, <1>3, <2>1 DEF ReleaseExclusive, WakeOn, Goto, TypeOK, WillScan
      <3> QED
        BY <3>1 DEF OwnersRescue
    <2>2. CASE ~(exclWaiters > 0)
      <3>1. Wanting = {}
        <4>1. Wanting \in SUBSET Threads /\ Cardinality(Wanting) = 0
          BY <1>0, <2>2 DEF SRWInv, TypeOK, Wanting
        <4> QED
          BY <4>1, CountChanges
      <3>2. u # t
        BY <1>0, <1>3 DEF ReleaseExclusive, WakeOn, Goto, TypeOK, Queued
      <3>3. Queued(u, "owners") /\ EntryOK(u)
        BY <1>0, <1>1, <3>2, OthersScan DEF QueueInv
      <3>4. WantsExclusive(u)
        BY <3>3 DEF Queued, EntryOK, WantsExclusive, InWait
      <3> QED
        BY <3>1, <3>4 DEF Wanting
    <2> QED
      BY <2>1, <2>2
  <1>4. CASE ReleaseShared(t)
    <2>1. owners = 1
      BY <1>0, <1>4 DEF ReleaseShared, TypeOK
    <2>2. WillScan(t, "owners")'
      BY <1>0, <1>4, <2>1 DEF ReleaseShared, WakeOn, Goto, TypeOK, WillScan
    <2> QED
      BY <2>2 DEF OwnersRescue
  <1>6. CASE ~ReleaseExclusive(t) /\ ~ReleaseShared(t)
    <2>1. owners = 0
      <3>1. CASE Walk(t)
        BY <1>0, <3>1, WalkSeen DEF srw
      <3>2. CASE CritStep(t)
        BY <1>0, <3>2, CritNotSeen DEF srw
      <3>3. CASE AddExclusive(t)
        BY <3>3 DEF AddExclusive
      <3>4. CASE GetExclusive(t)
        BY <3>4 DEF GetExclusive, srw
      <3>5. CASE GetShared(t)
        BY <1>0, <3>5 DEF GetShared, TypeOK
      <3>6. CASE TryExclusive(t)
        BY <3>6 DEF TryExclusive
      <3>7. CASE TryShared(t)
        BY <1>0, <3>7 DEF TryShared, TypeOK
      <3> QED
        BY <1>6, <3>1, <3>2, <3>3, <3>4, <3>5, <3>6, <3>7 DEF Step, SRWStep
    <2>2. Queued(u, "owners") /\ (u = t => ~Wait(t))
      <3>1. CASE UNCHANGED words
        BY <1>2, <3>1
      <3>2. CASE ~UNCHANGED words
        BY <1>0, <1>1, <3>2, OthersScan, StepQueued
      <3> QED
        BY <3>1, <3>2
    <2>3. PICK v \in Threads : OwnersRescue(v)
      BY <2>1, <2>2 DEF OwnersWoken
    <2>4. CASE v # t
      BY <1>0, <1>1, <2>3, <2>4, OthersScan
    <2>5. CASE v = t /\ WillScan(t, "owners")
      <3>1. CASE ScanTake(t)
        <4>1. PICK w \in Threads : pc'[w] \in InWait /\ addr'[w] = "owners" /\ entryAddr'[w] = "null"
          BY <1>1, <2>5, <3>1, ScanTakesWaiter DEF WillScan
        <4> QED
          BY <4>1 DEF OwnersRescue, WantsExclusive, Queued
      <3>2. CASE ScanEnd(t)
        BY <2>5, <3>2, ScanEndsEmpty DEF WillScan, Queued
      <3>3. CASE ~ScanTake(t) /\ ~ScanEnd(t)
        BY <1>0, <2>5, <3>3, StepScan DEF OwnersRescue
      <3> QED
        BY <3>1, <3>2, <3>3
    <2>6. CASE v = t /\ ~WillScan(t, "owners")
      <3>1. WantsExclusive(t) /\ ~Queued(t, "owners")
        BY <2>3, <2>6 DEF OwnersRescue
      <3>2. WantsExclusive(t)'
        <4>1. CASE Walk(t)
          BY <1>0, <3>1, <4>1, WalkSeen DEF SameAsSeen
        <4>2. CASE CritStep(t)
          BY <1>0, <3>1, <4>2, CritNotSeen
        <4>3. CASE SRWStep(t)
          <5>1. GetExclusive(t)
            BY <3>1, <4>3 DEF WantsExclusive, InWait, SRWStep, AddExclusive, GetShared, TryExclusive, TryShared,
               ReleaseExclusive, ReleaseShared
          <5> QED
            BY <2>1, <5>1 DEF GetExclusive
        <4> QED
          BY <4>1, <4>2, <4>3 DEF Step
      <3>3. ~Queued(t, "owners")'
        <4>1. ASSUME Queued(t, "owners")' PROVE FALSE
          <5>1. Wait(t) /\ addr[t] = "owners" /\ Value("owners") = cmp[t]
            BY <1>0, <3>1, <4>1, StepQueued
          <5>2. Value("owners") = <<0>>
            BY <2>1 DEF Value
          <5> QED
            BY <1>0, <5>1, <5>2 DEF CmpOK, Wait
        <4> QED
          BY <4>1
      <3> QED
        BY <3>2, <3>3 DEF OwnersRescue
    <2> QED
      BY <2>4, <2>5, <2>6
  <1> QED
    BY <1>3, <1>4, <1>6

LEMMA StepSemWoken ==
  ASSUME LocksInv, QueueInv, StaleInv, SemWoken, NEW t \in Threads, Step(t)
  PROVE  SemWoken'
  <1>0. TypeOK /\ CallOK(t) /\ CmpOK(t) /\ "sem" \in Addr
    BY DEF LocksInv, CallInv, StaleInv, Addr
  <1>1. OthersStay(t) /\ QueueFrame(t)
    BY <1>0, StepOthers, StepQueueFrame
  <1> SUFFICES ASSUME semaphore' = 1, NEW u \in Threads, Queued(u, "sem")'
               PROVE  \E v \in Threads : SemRescue(v)'
    BY DEF SemWoken
  <1>2. CASE UnWait(t)
    <2>1. WillScan(t, "sem")'
      BY <1>0, <1>2 DEF UnWait, WakeOn, Goto, TypeOK, WillScan
    <2> QED
      BY <2>1 DEF SemRescue
  <1>3. CASE ~UnWait(t)
    <2>1. semaphore = 1
      <3>1. CASE Walk(t)
        BY <1>0, <3>1, WalkSeen DEF crit
      <3>2. CASE SRWStep(t)
        BY <1>0, <3>2, SRWSeen DEF crit
      <3>3. CASE TakeSem(t)
        BY <3>3 DEF TakeSem, crit
      <3>4. CASE TryEnter(t) \/ Spin(t) \/ Enter(t) \/ Got(t) \/ Leave(t) \/ LeaveDec(t)
        BY <3>4 DEF TryEnter, Spin, Enter, Got, Leave, LeaveDec, crit
      <3> QED
        BY <1>3, <3>1, <3>2, <3>3, <3>4 DEF Step, CritStep
    <2>2. ~(Wait(t) /\ addr[t] = "sem" /\ Value("sem") = cmp[t])
      <3>1. Value("sem") = <<1>> /\ <<1>> # <<0>>
        BY <2>1 DEF Value
      <3> QED
        BY <1>0, <3>1 DEF CmpOK, Wait
    <2>3. Queued(u, "sem")
      BY <1>0, <1>1, <2>2, OthersScan, StepQueued
    <2>4. PICK v \in Threads : SemRescue(v)
      BY <2>1, <2>3 DEF SemWoken
    <2>5. CASE v # t
      BY <1>0, <1>1, <2>4, <2>5, OthersScan
    <2>6. CASE v = t /\ WillScan(t, "sem")
      <3>1. CASE ScanTake(t)
        <4>1. PICK w \in Threads : pc'[w] \in InWait /\ addr'[w] = "sem" /\ entryAddr'[w] = "null"
          BY <1>1, <2>6, <3>1, ScanTakesWaiter DEF WillScan
        <4> QED
          BY <4>1 DEF SemRescue, WantsCrit, Queued
      <3>2. CASE ScanEnd(t)
        BY <2>6, <3>2, ScanEndsEmpty DEF WillScan, Queued
      <3>3. CASE ~ScanTake(t) /\ ~ScanEnd(t)
        BY <1>0, <2>6, <3>3, StepScan DEF SemRescue
      <3> QED
        BY <3>1, <3>2, <3>3
    <2>7. CASE v = t /\ ~WillScan(t, "sem")
      <3>1. WantsCrit(t) /\ ~Queued(t, "sem")
        BY <2>4, <2>7 DEF SemRescue
      <3>2. WantsCrit(t)'
        <4>1. CASE Walk(t)
          BY <1>0, <3>1, <4>1, WalkSeen DEF SameAsSeen, CritSeen
        <4>2. CASE SRWStep(t)
          BY <1>0, <3>1, <4>2, SRWSeen DEF CritSeen
        <4>3. CASE CritStep(t)
          <5>1. TakeSem(t)
            BY <3>1, <4>3 DEF WantsCrit, InWait, CritStep, TryEnter, Spin, Enter, Got, Leave, LeaveDec, UnWait
          <5> QED
            BY <1>0, <2>1, <5>1 DEF TakeSem
        <4> QED
          BY <4>1, <4>2, <4>3 DEF Step
      <3>3. ~Queued(t, "sem")'
        BY <1>0, <2>2, <3>1, StepQueued
      <3> QED
        BY <3>2, <3>3 DEF SemRescue
    <2> QED
      BY <2>5, <2>6, <2>7
  <1> QED
    BY <1>2, <1>3

LEMMA StepSharedWoken ==
  ASSUME LocksInv, QueueInv, StaleInv, SharedWoken, NEW t \in Threads, Step(t)
  PROVE  SharedWoken'
  <1>0. TypeOK /\ CallOK(t) /\ CmpOK(t) /\ "srw" \in Addr
    BY DEF LocksInv, CallInv, StaleInv, Addr
  <1>1. OthersStay(t) /\ QueueFrame(t)
    BY <1>0, StepOthers, StepQueueFrame
  <1> SUFFICES ASSUME exclWaiters' = 0, ~exclusive', NEW u \in Threads, Queued(u, "srw")'
               PROVE  \E v \in Threads : WillScanAll(v, "srw")'
    BY DEF SharedWoken
  <1>2. CASE ReleaseExclusive(t)
    <2>1. ~(exclWaiters > 0)
      BY <1>0, <1>2 DEF ReleaseExclusive, TypeOK
    <2>2. WillScanAll(t, "srw")'
      BY <1>0, <1>2, <2>1 DEF ReleaseExclusive, WakeOn, Goto, TypeOK, WillScanAll
    <2> QED
      BY <2>2
  <1>3. CASE ~ReleaseExclusive(t)
    <2>1. exclWaiters = 0 /\ ~exclusive
      <3>1. CASE Walk(t)
        BY <1>0, <3>1, WalkSeen DEF srw
      <3>2. CASE CritStep(t)
        BY <1>0, <3>2, CritNotSeen DEF srw
      <3>3. CASE AddExclusive(t)
        BY <1>0, <3>3 DEF AddExclusive, TypeOK
      <3>4. CASE GetExclusive(t)
        BY <3>4 DEF GetExclusive, srw
      <3>5. CASE GetShared(t)
        BY <3>5 DEF GetShared
      <3>6. CASE TryExclusive(t)
        BY <3>6 DEF TryExclusive
      <3>7. CASE TryShared(t)
        BY <3>7 DEF TryShared
      <3>8. CASE ReleaseShared(t)
        BY <3>8 DEF ReleaseShared
      <3> QED
        BY <1>3, <3>1, <3>2, <3>3, <3>4, <3>5, <3>6, <3>7, <3>8 DEF Step, SRWStep
    <2>2. ~(Wait(t) /\ addr[t] = "srw" /\ Value("srw") = cmp[t])
      <3>1. Value("srw")[1] = 0 /\ Value("srw")[2] = 0
        BY <2>1 DEF Value, Bit
      <3> QED
        BY <1>0, <3>1 DEF CmpOK, Wait
    <2>3. Queued(u, "srw")
      BY <1>0, <1>1, <2>2, OthersScan, StepQueued
    <2>4. PICK v \in Threads : WillScanAll(v, "srw")
      BY <2>1, <2>3 DEF SharedWoken
    <2>5. CASE v # t
      BY <1>0, <1>1, <2>4, <2>5, OthersScan
    <2>6. CASE v = t
      <3>1. ~ScanEnd(t)
        BY <2>4, <2>6, ScanEndsEmpty DEF WillScanAll, Queued
      <3> QED
        BY <1>0, <2>4, <2>6, <3>1, StepScanAll
    <2> QED
      BY <2>5, <2>6
  <1> QED
    BY <1>2, <1>3

LEMMA StepWakeAll ==
  ASSUME LocksInv, QueueInv, StaleInv, WakeAllReaches, NEW t \in Threads, Step(t)
  PROVE  WakeAllReaches'
  <1>0. TypeOK /\ CallOK(t) /\ CmpOK(t) /\ MissedOK(t) /\ "cond" \in Addr
    BY DEF LocksInv, CallInv, StaleInv, Addr
  <1>1. OthersStay(t) /\ QueueFrame(t)
    BY <1>0, StepOthers, StepQueueFrame
  <1> SUFFICES ASSUME NEW u \in Threads, missed'[u], Queued(u, "cond")'
               PROVE  \E v \in Threads : WillScanAll(v, "cond")'
    BY DEF WakeAllReaches
  <1>2. CASE CondWake(t) /\ op[t] = "wake_all"
    <2>1. WillScanAll(t, "cond")'
      BY <1>0, <1>2 DEF CondWake, WakeOn, Goto, TypeOK, WillScanAll
    <2> QED
      BY <2>1
  <1>3. CASE ~(CondWake(t) /\ op[t] = "wake_all")
    <2>1. missed[u]
      <3>1. CASE CondWake(t)
        BY <1>0, <1>3, <3>1 DEF CondWake, TypeOK
      <3>2. CASE ~CondWake(t) /\ u # t
        BY <1>0, <3>2, StepMarks
      <3>3. CASE ~CondWake(t) /\ u = t
        <4>1. CASE Queued(t, "cond") /\ ~Wait(t)
          <5>1. pc[t] \in Resting
            BY <4>1 DEF Queued, Resting
          <5>2. Rest(t)
            BY <5>1 DEF Resting, Rest, Step, Walk, SRWStep, CritStep, Begin, CondWake, Sleep, Wait, Unqueue, WakeLock,
               ScanTake, Remove, ScanEnd, Alert, FutexWake, AlertEnd, AddExclusive, GetExclusive, GetShared,
               TryExclusive, TryShared, ReleaseExclusive, ReleaseShared, TryEnter, Spin, Enter, TakeSem, Got,
               Leave, LeaveDec, UnWait
          <5>3. ~LeaveWait(t)
            BY <5>1 DEF LeaveWait, Resting
          <5>4. UNCHANGED missed
            BY <5>2, <5>3 DEF Rest, AlertTake, FutexWait, Interrupt, TimeOut
          <5> QED
            BY <3>3, <5>4
        <4>2. CASE ~(Queued(t, "cond") /\ ~Wait(t))
          BY <1>0, <3>3, <4>2, StepQueued
        <4> QED
          BY <4>1, <4>2
      <3> QED
        BY <3>1, <3>2, <3>3
    <2>2. Queued(u, "cond")
      <3>1. CASE u # t
        BY <1>0, <1>1, <3>1, OthersScan
      <3>2. CASE u = t
        <4>1. ~(Wait(t) /\ addr[t] = "cond" /\ Value("cond") = cmp[t])
          <5>1. Value("cond") = <<cond>> /\ value[t] < cond /\ cond \in Nat /\ value[t] \in Nat
            BY <1>0, <2>1, <3>2 DEF Value, MissedOK, TypeOK
          <5>2. <<cond>> # <<value[t]>>
            BY <5>1
          <5> QED
            BY <1>0, <5>1, <5>2 DEF CmpOK, Wait
        <4> QED
          BY <1>0, <3>2, <4>1, StepQueued
      <3> QED
        BY <3>1, <3>2
    <2>3. PICK v \in Threads : WillScanAll(v, "cond")
      BY <2>1, <2>2 DEF WakeAllReaches
    <2>4. CASE v # t
      BY <1>0, <1>1, <2>3, <2>4, OthersScan
    <2>5. CASE v = t
      <3>1. ~ScanEnd(t)
        BY <2>3, <2>5, ScanEndsEmpty DEF WillScanAll, Queued
      <3> QED
        BY <1>0, <2>3, <2>5, <3>1, StepScanAll
    <2> QED
      BY <2>4, <2>5
  <1> QED
    BY <1>2, <1>3

-----------------------------------------------------------------------------
(* The theorems about the wakes.                                           *)

WakesInv == LocksInv /\ QueueInv /\ AlertInv /\ StaleInv /\ NoneStranded /\ WakeAllReaches

LEMMA InitWakes == Init => WakesInv
  <1> SUFFICES ASSUME Init PROVE WakesInv
    OBVIOUS
  <1>1. LocksInv
    BY InitLocks
  <1>2. \A t \in Threads : /\ pc[t] = "idle" /\ op[t] = "none" /\ victim[t] = NoOne /\ tids[t] = <<>>
                           /\ entryAddr[t] = "null" /\ ~missed[t]
                           /\ \A q \in Buckets : qlock[q] # t
    BY NtdllAssumption DEF Init
  <1>3. QueueInv
    BY <1>2 DEF QueueInv, WakerOK, EntryOK, InWake
  <1>4. AlertInv
    BY <1>2 DEF AlertInv, AlertOK, Resting
  <1>5. StaleInv
    BY <1>2 DEF StaleInv, CmpOK, MissedOK, Sleeping
  <1>6. \A u \in Threads, a \in Addr : ~Queued(u, a)
    BY <1>2 DEF Queued
  <1>7. NoneStranded /\ WakeAllReaches
    BY <1>6 DEF NoneStranded, WakeAllReaches, Addr
  <1> QED
    BY <1>1, <1>3, <1>4, <1>5, <1>7 DEF WakesInv

LEMMA StutterWakes ==
  ASSUME WakesInv, UNCHANGED vars
  PROVE  WakesInv'
  <1> USE DEF vars, words, srw, crit, queues, waking
  <1>1. LocksInv'
    BY StutterLocks DEF WakesInv
  <1>2. \A t \in Threads : (WakerOK(t) => WakerOK(t)') /\ (EntryOK(t) => EntryOK(t)')
    BY DEF WakerOK, EntryOK, Queue
  <1>3. \A t \in Threads : AlertOK(t) => AlertOK(t)'
    BY DEF AlertOK, Picked
  <1>4. \A t \in Threads : CmpOK(t) /\ MissedOK(t) => CmpOK(t)' /\ MissedOK(t)'
    BY DEF CmpOK, MissedOK, Sleeping
  <1>5. \A t \in Threads, a \in Addr : /\ Queued(t, a)' <=> Queued(t, a)
                                       /\ WillScan(t, a)' <=> WillScan(t, a)
                                       /\ WillScanAll(t, a)' <=> WillScanAll(t, a)
    BY DEF Queued, WillScan, WillScanAll
  <1>6. \A t \in Threads : (WantsExclusive(t)' <=> WantsExclusive(t)) /\ (WantsCrit(t)' <=> WantsCrit(t))
    BY DEF WantsExclusive, WantsCrit
  <1>7. NoneStranded'
    BY <1>5, <1>6 DEF WakesInv, NoneStranded, Addr
  <1>8. WakeAllReaches'
    BY <1>5 DEF WakesInv, WakeAllReaches, Addr
  <1> QED
    BY <1>1, <1>2, <1>3, <1>4, <1>7, <1>8 DEF WakesInv, QueueInv, AlertInv, StaleInv

LEMMA AlwaysWakes == Spec => []WakesInv
  <1>1. Init => WakesInv
    BY InitWakes
  <1>2. WakesInv /\ [Next]_vars => WakesInv'
    <2> SUFFICES ASSUME WakesInv, [Next]_vars PROVE WakesInv'
      OBVIOUS
    <2>1. CASE Next
      <3>1. PICK t \in Threads : Step(t)
        BY <2>1, NextSteps
      <3>2. LocksInv' /\ QueueInv' /\ AlertInv' /\ StaleInv' /\ WakeAllReaches'
        BY <3>1, StepLocks, StepQueueInv, StepAlertInv, StepStaleInv, StepWakeAll DEF WakesInv
      <3>3. NoneStranded'
        BY <3>1, StrandedParts, StepOwnersWoken, StepSharedWoken, StepSemWoken DEF WakesInv
      <3> QED
        BY <3>2, <3>3 DEF WakesInv
    <2>2. CASE UNCHANGED vars
      BY <2>2, StutterWakes
    <2> QED
      BY <2>1, <2>2
  <1> QED
    BY <1>1, <1>2, PTL DEF Spec

\* Whatever the order of RtlWakeAddress* and of a timeout, an interrupt or a
\* second waker: a thread whose entry a waker cleared is alerted or about to
\* be, and a thread that is alerted has its futex woken, since
\* NtAlertThreadByThreadId may skip the futex only when the flag was set.
THEOREM AlertsReach == Spec => []AlertsArrive
  <1>1. WakesInv => AlertsArrive
    BY DEF WakesInv, AlertInv, AlertOK, AlertsArrive, Picked, Among, Resting
  <1> QED
    BY <1>1, AlwaysWakes, PTL

\* For any number of threads, no thread is left in a queue while the lock
\* that it waits for is free, unless a waker is about to scan that queue or
\* another thread is about to take the lock: RtlReleaseSRWLock*,
\* RtlpUnWaitCriticalSection and the comparison of RtlWaitOnAddress under
\* the spinlock leave no window.
THEOREM LocksStrandNobody == Spec => []NoneStranded
  <1>1. WakesInv => NoneStranded
    BY DEF WakesInv
  <1> QED
    BY <1>1, AlwaysWakes, PTL

\* RtlWakeAllConditionVariable wakes every thread that had released its
\* lock in RtlSleepConditionVariable*, asleep or not yet, however many of
\* them there are and however small the array of RtlWakeAddressAll.
THEOREM WakeAllWakesAll == Spec => []WakeAllReaches
  <1>1. WakesInv => WakeAllReaches
    BY DEF WakesInv
  <1> QED
    BY <1>1, AlwaysWakes, PTL
=============================================================================
