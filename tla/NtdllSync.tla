------------------------------ MODULE NtdllSync -----------------------------
(***************************************************************************)
(* The synchronization primitives of ntdll (dlls/ntdll/sync.c): SRW locks, *)
(* critical sections and condition variables over RtlWaitOnAddress and     *)
(* RtlWakeAddress*, which in turn use the alert flag that each thread has  *)
(* (NtAlertThreadByThreadId in dlls/ntdll/unix/sync.c, over a futex).      *)
(*                                                                         *)
(* There is one lock of each kind and one condition variable.  Interlocked *)
(* operations and loads of what others change are steps; a section under   *)
(* the spinlock of a queue is a step if it changes nothing that is read    *)
(* without the spinlock.                                                   *)
(***************************************************************************)
EXTENDS Integers, Sequences, FiniteSets

CONSTANTS
    Threads,
    Ops,         \* [Threads -> SUBSET Op]: the calls each thread may make
    Buckets,     \* futex_queues
    QueueOf,     \* [Addr -> Buckets]: get_futex_queue
    MaxTids,     \* the size of the array of RtlWakeAddressAll (256)
    SpinCount,   \* whether crit->SpinCount is not 0
    MaxRec,      \* bound on the recursion of the critical section
    MaxWakes,    \* bound on the wakes of the condition variable
    NoOne

\* &lock->owners, the whole SRW lock, the condition variable, LockSemaphore
Addr == {"owners", "srw", "cond", "sem"}
Op == {"acquire_exclusive", "acquire_shared", "try_exclusive", "try_shared", "release",
       "enter", "try_enter", "leave", "sleep", "sleep_timed", "wake", "wake_all"}

ASSUME NtdllAssumption ==
    /\ IsFiniteSet(Threads) /\ NoOne \notin Threads
    /\ Ops \in [Threads -> SUBSET Op]
    /\ QueueOf \in [Addr -> Buckets]
    \* the two addresses of an SRW lock are two bytes apart
    /\ QueueOf["owners"] = QueueOf["srw"]
    /\ MaxTids \in Nat \ {0} /\ MaxRec \in Nat \ {0} /\ MaxWakes \in Nat
    /\ SpinCount \in BOOLEAN

VARIABLES
    \* struct srw_lock: bits 1.. and bit 0 of exclusive_waiters, and owners
    exclWaiters, exclusive, owners,
    cond,        \* the value of the condition variable
    \* RTL_CRITICAL_SECTION
    lockCount, recursion, owner, semaphore,
    \* futex_queues: the waiting threads and the spinlock
    queue, qlock,
    entryAddr,   \* entry.addr of each thread's futex_entry
    alert,       \* the alert flag of each thread, tid_alert_entry.futex
    \* where each thread is, what it holds, and the locals of its call
    pc, op, mode,
    want,        \* how to take the lock again after a sleep
    addr, cmp,   \* arguments of RtlWaitOnAddress and RtlWakeAddress*
    value,       \* what a sleep read from the condition variable
    wakeAll, victim, tids, woken,
    \* history: the threads that a WakeAll found in their sleep
    missed

srw == <<exclWaiters, exclusive, owners>>
crit == <<lockCount, recursion, owner, semaphore>>
queues == <<queue, qlock, entryAddr>>
words == <<srw, cond, crit>>
waking == <<wakeAll, victim, tids, woken>>
vars == <<words, queues, alert, pc, op, mode, want, addr, cmp, value, waking, missed>>

\* The Initialize functions.
Init ==
    /\ exclWaiters = 0 /\ exclusive = FALSE /\ owners = 0
    /\ cond = 0
    /\ lockCount = -1 /\ recursion = 0 /\ owner = NoOne /\ semaphore = 0
    /\ queue = [q \in Buckets |-> <<>>]
    /\ qlock = [q \in Buckets |-> NoOne]
    /\ entryAddr = [t \in Threads |-> "null"]
    /\ alert = [t \in Threads |-> FALSE]
    /\ pc = [t \in Threads |-> "idle"]
    /\ op = [t \in Threads |-> "none"]
    /\ mode = [t \in Threads |-> "none"]
    /\ want = [t \in Threads |-> "none"]
    /\ addr = [t \in Threads |-> "null"]
    /\ cmp = [t \in Threads |-> <<>>]
    /\ value = [t \in Threads |-> 0]
    /\ wakeAll = [t \in Threads |-> FALSE]
    /\ victim = [t \in Threads |-> NoOne]
    /\ tids = [t \in Threads |-> <<>>]
    /\ woken = [t \in Threads |-> NoOne]
    /\ missed = [t \in Threads |-> FALSE]

Goto(t, l) == pc' = [pc EXCEPT ![t] = l]
Sleeping(t) == op[t] \in {"sleep", "sleep_timed"}

\* The call returns; the locals of a thread that is idle say nothing.
Return(t) ==
    /\ Goto(t, "idle")
    /\ op' = [op EXCEPT ![t] = "none"]
    /\ want' = [want EXCEPT ![t] = "none"]
    /\ addr' = [addr EXCEPT ![t] = "null"]
    /\ cmp' = [cmp EXCEPT ![t] = <<>>]
    /\ value' = [value EXCEPT ![t] = 0]
    /\ wakeAll' = [wakeAll EXCEPT ![t] = FALSE]

Hold(t, m) == mode' = [mode EXCEPT ![t] = m]

\* What RtlWaitOnAddress compares at each address.
Bit(b) == IF b THEN 1 ELSE 0
Value(a) ==
    CASE a = "owners" -> <<owners>>
      [] a = "srw"    -> <<exclWaiters, Bit(exclusive), owners>>
      [] a = "cond"   -> <<cond>>
      [] a = "sem"    -> <<semaphore>>

\* Calls of RtlWaitOnAddress and RtlWakeAddressSingle or All.
WaitOn(t, a, v) ==
    /\ Goto(t, "wait")
    /\ addr' = [addr EXCEPT ![t] = a]
    /\ cmp' = [cmp EXCEPT ![t] = v]
    /\ UNCHANGED <<op, want, value, wakeAll>>
WakeOn(t, a, all) ==
    /\ Goto(t, "wake")
    /\ addr' = [addr EXCEPT ![t] = a]
    /\ wakeAll' = [wakeAll EXCEPT ![t] = all]
    /\ UNCHANGED <<op, want, cmp, value>>

\* A lock was released: a sleep goes on to wait, any other call is done.
Released(t) == IF Sleeping(t) THEN WaitOn(t, "cond", <<value[t]>>) ELSE Return(t)

-----------------------------------------------------------------------------
(* Calls.  A caller releases what it holds, and an SRW lock is not taken   *)
(* twice by a thread.                                                      *)

FirstStep(o, m) ==
    CASE o = "acquire_exclusive" -> "add_exclusive"
      [] o = "acquire_shared" -> "get_shared"
      [] o = "release" -> IF m = "exclusive" THEN "release_exclusive" ELSE "release_shared"
      [] o \in {"sleep", "sleep_timed"} -> "sleep"
      [] o \in {"wake", "wake_all"} -> "cond_wake"
      [] o = "enter" -> IF SpinCount THEN "try_enter" ELSE "enter"
      [] OTHER -> o

Allowed(t, o) ==
    CASE o \in {"acquire_exclusive", "acquire_shared", "try_exclusive", "try_shared"} -> mode[t] = "none"
      [] o = "release" -> mode[t] \in {"shared", "exclusive"}
      [] o \in {"enter", "try_enter"} -> mode[t] = "none" \/ (mode[t] = "crit" /\ recursion < MaxRec)
      [] o = "leave" -> mode[t] = "crit"
      [] o \in {"sleep", "sleep_timed"} -> mode[t] # "none" /\ (mode[t] = "crit" => recursion = 1)
      [] o \in {"wake", "wake_all"} -> cond < MaxWakes

Begin(t) ==
    /\ pc[t] = "idle"
    /\ \E o \in Ops[t] :
          /\ Allowed(t, o)
          /\ Goto(t, FirstStep(o, mode[t]))
          /\ op' = [op EXCEPT ![t] = o]
    /\ UNCHANGED <<words, queues, alert, mode, want, addr, cmp, value, waking, missed>>

-----------------------------------------------------------------------------
(* SRW locks.                                                              *)

\* RtlAcquireSRWLockExclusive: count the waiter, then the loop.
AddExclusive(t) ==
    /\ pc[t] = "add_exclusive"
    /\ exclWaiters' = exclWaiters + 1
    /\ Goto(t, "get_exclusive")
    /\ UNCHANGED <<exclusive, owners, cond, crit, queues, alert, op, mode, want, addr, cmp, value, waking, missed>>

GetExclusive(t) ==
    /\ pc[t] = "get_exclusive"
    /\ IF owners = 0
          THEN /\ owners' = 1 /\ exclusive' = TRUE /\ exclWaiters' = exclWaiters - 1
               /\ Hold(t, "exclusive") /\ Return(t)
          ELSE UNCHANGED <<srw, mode>> /\ WaitOn(t, "owners", <<owners>>)
    /\ UNCHANGED <<cond, crit, queues, alert, victim, tids, woken, missed>>

\* Mutant: bit 0 is taken for a waiter count and shifted out.
GetSharedPastOwner(t) ==
    /\ pc[t] = "get_shared"
    /\ IF exclWaiters = 0
          THEN owners' = owners + 1 /\ Hold(t, "shared") /\ Return(t)
          ELSE UNCHANGED <<owners, mode>> /\ WaitOn(t, "srw", Value("srw"))
    /\ UNCHANGED <<exclWaiters, exclusive, cond, crit, queues, alert, victim, tids, woken, missed>>

\* RtlAcquireSRWLockShared
GetShared(t) ==
    /\ pc[t] = "get_shared"
    /\ IF exclWaiters = 0 /\ ~exclusive
          THEN owners' = owners + 1 /\ Hold(t, "shared") /\ Return(t)
          ELSE UNCHANGED <<owners, mode>> /\ WaitOn(t, "srw", Value("srw"))
    /\ UNCHANGED <<exclWaiters, exclusive, cond, crit, queues, alert, victim, tids, woken, missed>>

\* Mutant: it takes away a waiter that it did not add.
TryExclusiveUncounted(t) ==
    /\ pc[t] = "try_exclusive"
    /\ IF owners = 0
          THEN owners' = 1 /\ exclusive' = TRUE /\ exclWaiters' = exclWaiters - 1 /\ Hold(t, "exclusive")
          ELSE UNCHANGED <<srw, mode>>
    /\ Return(t)
    /\ UNCHANGED <<cond, crit, queues, alert, victim, tids, woken, missed>>

\* RtlTryAcquireSRWLockExclusive
TryExclusive(t) ==
    /\ pc[t] = "try_exclusive"
    /\ IF owners = 0
          THEN owners' = 1 /\ exclusive' = TRUE /\ Hold(t, "exclusive")
          ELSE UNCHANGED <<owners, exclusive, mode>>
    /\ Return(t)
    /\ UNCHANGED <<exclWaiters, cond, crit, queues, alert, victim, tids, woken, missed>>

\* RtlTryAcquireSRWLockShared
TryShared(t) ==
    /\ pc[t] = "try_shared"
    /\ IF exclWaiters = 0 /\ ~exclusive
          THEN owners' = owners + 1 /\ Hold(t, "shared")
          ELSE UNCHANGED <<owners, mode>>
    /\ Return(t)
    /\ UNCHANGED <<exclWaiters, exclusive, cond, crit, queues, alert, victim, tids, woken, missed>>

\* Mutant: shared waiters are forgotten.
ReleaseExclusiveToOne(t) ==
    /\ pc[t] = "release_exclusive"
    /\ owners' = 0 /\ exclusive' = FALSE
    /\ Hold(t, "none")
    /\ WakeOn(t, "owners", FALSE)
    /\ UNCHANGED <<exclWaiters, cond, crit, queues, alert, victim, tids, woken, missed>>

\* RtlReleaseSRWLockExclusive: one exclusive waiter, or all shared ones.
ReleaseExclusive(t) ==
    /\ pc[t] = "release_exclusive"
    /\ owners' = 0 /\ exclusive' = FALSE
    /\ Hold(t, "none")
    /\ IF exclWaiters > 0 THEN WakeOn(t, "owners", FALSE) ELSE WakeOn(t, "srw", TRUE)
    /\ UNCHANGED <<exclWaiters, cond, crit, queues, alert, victim, tids, woken, missed>>

\* RtlReleaseSRWLockShared: the last owner wakes one exclusive waiter.
ReleaseShared(t) ==
    /\ pc[t] = "release_shared"
    /\ owners' = owners - 1
    /\ Hold(t, "none")
    /\ IF owners = 1 THEN WakeOn(t, "owners", FALSE) ELSE Released(t)
    /\ UNCHANGED <<exclWaiters, exclusive, cond, crit, queues, alert, victim, tids, woken, missed>>

-----------------------------------------------------------------------------
(* Critical sections.                                                      *)

\* RtlTryEnterCriticalSection, also as the first step of a spin.
TryEnter(t) ==
    /\ pc[t] = "try_enter"
    /\ \/ /\ lockCount = -1
          /\ lockCount' = 0
          /\ Goto(t, "got")
          /\ UNCHANGED <<recursion, op, want, addr, cmp, value, wakeAll>>
       \/ /\ lockCount # -1 /\ owner = t
          /\ lockCount' = lockCount + 1
          /\ recursion' = recursion + 1
          /\ Return(t)
       \/ /\ lockCount # -1 /\ owner # t
          /\ IF op[t] = "try_enter" THEN Return(t)
             ELSE Goto(t, "spin") /\ UNCHANGED <<op, want, addr, cmp, value, wakeAll>>
          /\ UNCHANGED <<lockCount, recursion>>
    /\ UNCHANGED <<srw, cond, owner, semaphore, queues, alert, mode, victim, tids, woken, missed>>

\* The spin of RtlEnterCriticalSection gets the section, or gives up: the
\* count ran out, or others wait already.
Spin(t) ==
    /\ pc[t] = "spin"
    /\ \/ lockCount = -1 /\ lockCount' = 0 /\ Goto(t, "got")
       \/ UNCHANGED lockCount /\ Goto(t, "enter")
    /\ UNCHANGED <<srw, cond, recursion, owner, semaphore, queues, alert, op, mode, want, addr, cmp, value, waking, missed>>

\* RtlEnterCriticalSection after the spin
Enter(t) ==
    /\ pc[t] = "enter"
    /\ lockCount' = lockCount + 1
    /\ IF lockCount # -1 /\ owner = t
          THEN recursion' = recursion + 1 /\ Return(t)
          ELSE /\ Goto(t, IF lockCount = -1 THEN "got" ELSE "take_sem")
               /\ UNCHANGED <<recursion, op, want, addr, cmp, value, wakeAll>>
    /\ UNCHANGED <<srw, cond, owner, semaphore, queues, alert, mode, victim, tids, woken, missed>>

\* Mutant: the semaphore is read, not taken.
ReadSem(t) ==
    /\ pc[t] = "take_sem"
    /\ IF semaphore = 1
          THEN Goto(t, "got") /\ UNCHANGED <<op, want, addr, cmp, value, wakeAll>>
          ELSE WaitOn(t, "sem", <<0>>)
    /\ UNCHANGED <<words, queues, alert, mode, victim, tids, woken, missed>>

\* wait_semaphore; RtlpWaitForCriticalSection comes back after a timeout.
TakeSem(t) ==
    /\ pc[t] = "take_sem"
    /\ IF semaphore = 1
          THEN semaphore' = 0 /\ Goto(t, "got") /\ UNCHANGED <<op, want, addr, cmp, value, wakeAll>>
          ELSE UNCHANGED semaphore /\ WaitOn(t, "sem", <<0>>)
    /\ UNCHANGED <<srw, cond, lockCount, recursion, owner, queues, alert, mode, victim, tids, woken, missed>>

Got(t) ==
    /\ pc[t] = "got"
    /\ owner' = t /\ recursion' = 1
    /\ Hold(t, "crit")
    /\ Return(t)
    /\ UNCHANGED <<srw, cond, lockCount, semaphore, queues, alert, victim, tids, woken, missed>>

\* RtlLeaveCriticalSection: the owner is cleared before the count.
Leave(t) ==
    /\ pc[t] = "leave"
    /\ recursion' = recursion - 1
    /\ IF recursion > 1
          THEN lockCount' = lockCount - 1 /\ Return(t) /\ UNCHANGED owner
          ELSE /\ owner' = NoOne /\ Goto(t, "leave_dec")
               /\ UNCHANGED <<lockCount, op, want, addr, cmp, value, wakeAll>>
    /\ UNCHANGED <<srw, cond, semaphore, queues, alert, mode, victim, tids, woken, missed>>

LeaveDec(t) ==
    /\ pc[t] = "leave_dec"
    /\ lockCount' = lockCount - 1
    /\ Hold(t, "none")
    /\ IF lockCount > 0
          THEN Goto(t, "unwait") /\ UNCHANGED <<op, want, addr, cmp, value, wakeAll>>
          ELSE Released(t)
    /\ UNCHANGED <<srw, cond, recursion, owner, semaphore, queues, alert, victim, tids, woken, missed>>

\* RtlpUnWaitCriticalSection
UnWait(t) ==
    /\ pc[t] = "unwait"
    /\ semaphore' = 1
    /\ WakeOn(t, "sem", FALSE)
    /\ UNCHANGED <<srw, cond, lockCount, recursion, owner, queues, alert, mode, victim, tids, woken, missed>>

-----------------------------------------------------------------------------
(* Condition variables.                                                    *)

ReleaseStep(m) ==
    CASE m = "exclusive" -> "release_exclusive" [] m = "shared" -> "release_shared" [] m = "crit" -> "leave"

\* RtlSleepConditionVariableSRW and RtlSleepConditionVariableCS read the
\* value before they release the lock.
Sleep(t) ==
    /\ pc[t] = "sleep"
    /\ value' = [value EXCEPT ![t] = cond]
    /\ want' = [want EXCEPT ![t] = mode[t]]
    /\ Goto(t, ReleaseStep(mode[t]))
    /\ UNCHANGED <<words, queues, alert, op, mode, addr, cmp, waking, missed>>

\* RtlWakeConditionVariable and RtlWakeAllConditionVariable
CondWake(t) ==
    /\ pc[t] = "cond_wake"
    /\ cond' = cond + 1
    /\ WakeOn(t, "cond", op[t] = "wake_all")
    /\ missed' = [u \in Threads |-> missed[u] \/ (op[t] = "wake_all" /\ Sleeping(u) /\ mode[u] = "none")]
    /\ UNCHANGED <<srw, crit, queues, alert, mode, victim, tids, woken>>

-----------------------------------------------------------------------------
(* RtlWaitOnAddress and NtWaitForAlertByThreadId.                          *)

\* Where the caller of RtlWaitOnAddress goes on; a sleep takes its lock again.
WaitOver(t) ==
    LET again == CASE addr[t] = "owners" -> "get_exclusive"
                   [] addr[t] = "srw"    -> "get_shared"
                   [] addr[t] = "sem"    -> "take_sem"
                   [] addr[t] = "cond"   -> CASE want[t] = "exclusive" -> "add_exclusive"
                                              [] want[t] = "shared"    -> "get_shared"
                                              [] want[t] = "crit"      -> FirstStep("enter", "none")
    IN  /\ Goto(t, again)
        /\ op' = [op EXCEPT ![t] = IF addr[t] = "cond" THEN "reacquire" ELSE @]
        /\ missed' = [missed EXCEPT ![t] = @ /\ addr[t] # "cond"]

\* list_remove of the entry of u, which is in the list
Unlink(s, u) ==
    LET n == CHOOSE k \in 1..Len(s) : s[k] = u
    IN  [k \in 1..(Len(s) - 1) |-> IF k < n THEN s[k] ELSE s[k + 1]]

Queue(t) == queue[QueueOf[addr[t]]]
Unlocked(t) == qlock[QueueOf[addr[t]]] = NoOne

\* Mutant: no comparison under the spinlock.
WaitAnyway(t) ==
    /\ pc[t] = "wait"
    /\ Unlocked(t)
    /\ queue' = [queue EXCEPT ![QueueOf[addr[t]]] = Append(@, t)]
    /\ entryAddr' = [entryAddr EXCEPT ![t] = addr[t]]
    /\ Goto(t, "alert_take")
    /\ UNCHANGED <<words, qlock, alert, op, mode, want, addr, cmp, value, waking, missed>>

\* Compare and queue under the spinlock.
Wait(t) ==
    /\ pc[t] = "wait"
    /\ Unlocked(t)
    /\ IF Value(addr[t]) # cmp[t]
          THEN WaitOver(t) /\ UNCHANGED <<queue, entryAddr>>
          ELSE /\ queue' = [queue EXCEPT ![QueueOf[addr[t]]] = Append(@, t)]
               /\ entryAddr' = [entryAddr EXCEPT ![t] = addr[t]]
               /\ Goto(t, "alert_take")
               /\ UNCHANGED <<op, missed>>
    /\ UNCHANGED <<words, qlock, alert, mode, want, addr, cmp, value, waking>>

AlertTake(t) ==
    /\ pc[t] = "alert_take"
    /\ alert' = [alert EXCEPT ![t] = FALSE]
    /\ Goto(t, IF alert[t] THEN "leave_wait" ELSE "futex")
    /\ UNCHANGED <<words, queues, op, mode, want, addr, cmp, value, waking, missed>>

\* futex_wait with the expected value 0
FutexWait(t) ==
    /\ pc[t] = "futex"
    /\ Goto(t, IF alert[t] THEN "alert_take" ELSE "asleep")
    /\ UNCHANGED <<words, queues, alert, op, mode, want, addr, cmp, value, waking, missed>>

\* EINTR, and ETIMEDOUT of the waits that have a timeout: those of critical
\* sections always have.
Interrupt(t) ==
    /\ pc[t] = "asleep"
    /\ Goto(t, "alert_take")
    /\ UNCHANGED <<words, queues, alert, op, mode, want, addr, cmp, value, waking, missed>>
TimeOut(t) ==
    /\ pc[t] = "asleep"
    /\ addr[t] = "sem" \/ (addr[t] = "cond" /\ op[t] = "sleep_timed")
    /\ Goto(t, "leave_wait")
    /\ UNCHANGED <<words, queues, alert, op, mode, want, addr, cmp, value, waking, missed>>

\* The look at entry.addr without the spinlock, ...
LeaveWait(t) ==
    /\ pc[t] = "leave_wait"
    /\ IF entryAddr[t] = "null" THEN WaitOver(t) ELSE Goto(t, "unqueue") /\ UNCHANGED <<op, missed>>
    /\ UNCHANGED <<words, queues, alert, mode, want, addr, cmp, value, waking>>

\* ... and with it.
Unqueue(t) ==
    /\ pc[t] = "unqueue"
    /\ Unlocked(t)
    /\ IF entryAddr[t] = "null" THEN UNCHANGED <<queue, entryAddr>>
       ELSE /\ queue' = [queue EXCEPT ![QueueOf[addr[t]]] = Unlink(@, t)]
            /\ entryAddr' = [entryAddr EXCEPT ![t] = "null"]
    /\ WaitOver(t)
    /\ UNCHANGED <<words, qlock, alert, mode, want, addr, cmp, value, waking>>

-----------------------------------------------------------------------------
(* RtlWakeAddressSingle, RtlWakeAddressAll and NtAlertThreadByThreadId.    *)

WakeLock(t) ==
    /\ pc[t] = "wake"
    /\ Unlocked(t)
    /\ qlock' = [qlock EXCEPT ![QueueOf[addr[t]]] = t]
    /\ Goto(t, "scan")
    /\ UNCHANGED <<words, queue, entryAddr, alert, op, mode, want, addr, cmp, value, waking, missed>>

\* The positions of the entries for the address.
Matching(t) == {k \in 1..Len(Queue(t)) : entryAddr[Queue(t)[k]] = addr[t]}

\* entry->addr = NULL for the first of them ...
ScanTake(t) ==
    /\ pc[t] = "scan"
    /\ \E k \in Matching(t) :
          /\ \A j \in Matching(t) : k <= j
          /\ entryAddr' = [entryAddr EXCEPT ![Queue(t)[k]] = "null"]
          /\ victim' = [victim EXCEPT ![t] = Queue(t)[k]]
    /\ Goto(t, "remove")
    /\ UNCHANGED <<words, queue, qlock, alert, op, mode, want, addr, cmp, value, wakeAll, tids, woken, missed>>

\* ... and list_remove.  RtlWakeAddressAll goes on, and alerts those it has
\* found when its array is full.
Remove(t) ==
    LET q == QueueOf[addr[t]]
        full == Len(tids[t]) = MaxTids
    IN  /\ pc[t] = "remove"
        /\ queue' = [queue EXCEPT ![q] = Unlink(@, victim[t])]
        /\ tids' = [tids EXCEPT ![t] = IF full THEN @ ELSE Append(@, victim[t])]
        /\ victim' = [victim EXCEPT ![t] = IF full THEN @ ELSE NoOne]
        /\ qlock' = [qlock EXCEPT ![q] = IF wakeAll[t] THEN @ ELSE NoOne]
        /\ Goto(t, IF wakeAll[t] /\ ~full THEN "scan" ELSE "alert")
        /\ UNCHANGED <<words, entryAddr, alert, op, mode, want, addr, cmp, value, wakeAll, woken, missed>>

ScanEnd(t) ==
    /\ pc[t] = "scan"
    /\ Matching(t) = {}
    /\ qlock' = [qlock EXCEPT ![QueueOf[addr[t]]] = NoOne]
    /\ Goto(t, "alert")
    /\ UNCHANGED <<words, queue, entryAddr, alert, op, mode, want, addr, cmp, value, waking, missed>>

\* Mutant: a waker that changes the flag does not wake.
AlertOnly(t) ==
    /\ pc[t] = "alert" /\ tids[t] # <<>>
    /\ alert' = [alert EXCEPT ![Head(tids[t])] = TRUE]
    /\ tids' = [tids EXCEPT ![t] = Tail(@)]
    /\ UNCHANGED <<words, queues, pc, op, mode, want, addr, cmp, value, wakeAll, victim, woken, missed>>

Alert(t) ==
    LET u == Head(tids[t])
    IN  /\ pc[t] = "alert" /\ tids[t] # <<>>
        /\ alert' = [alert EXCEPT ![u] = TRUE]
        /\ tids' = [tids EXCEPT ![t] = Tail(@)]
        /\ IF alert[u] THEN UNCHANGED <<pc, woken>>
           ELSE Goto(t, "futex_wake") /\ woken' = [woken EXCEPT ![t] = u]
        /\ UNCHANGED <<words, queues, op, mode, want, addr, cmp, value, wakeAll, victim, missed>>

FutexWake(t) ==
    /\ pc[t] = "futex_wake"
    /\ pc' = [pc EXCEPT ![t] = "alert", ![woken[t]] = IF @ = "asleep" THEN "alert_take" ELSE @]
    /\ woken' = [woken EXCEPT ![t] = NoOne]
    /\ UNCHANGED <<words, queues, alert, op, mode, want, addr, cmp, value, wakeAll, victim, tids, missed>>

\* The array was full and the scan goes on, or the wake is done.
AlertEnd(t) ==
    /\ pc[t] = "alert" /\ tids[t] = <<>>
    /\ IF victim[t] # NoOne
          THEN /\ tids' = [tids EXCEPT ![t] = <<victim[t]>>]
               /\ victim' = [victim EXCEPT ![t] = NoOne]
               /\ Goto(t, "scan")
               /\ UNCHANGED <<op, want, addr, cmp, value, wakeAll>>
          ELSE UNCHANGED <<tids, victim>> /\ Released(t)
    /\ UNCHANGED <<words, queues, alert, mode, woken, missed>>

-----------------------------------------------------------------------------
Next == \E t \in Threads :
    \/ Begin(t)
    \/ AddExclusive(t) \/ GetExclusive(t) \/ GetShared(t) \/ TryExclusive(t) \/ TryShared(t)
    \/ ReleaseExclusive(t) \/ ReleaseShared(t)
    \/ TryEnter(t) \/ Spin(t) \/ Enter(t) \/ TakeSem(t) \/ Got(t) \/ Leave(t) \/ LeaveDec(t) \/ UnWait(t)
    \/ Sleep(t) \/ CondWake(t)
    \/ Wait(t) \/ AlertTake(t) \/ FutexWait(t) \/ Interrupt(t) \/ TimeOut(t) \/ LeaveWait(t) \/ Unqueue(t)
    \/ WakeLock(t) \/ ScanTake(t) \/ Remove(t) \/ ScanEnd(t) \/ Alert(t) \/ FutexWake(t) \/ AlertEnd(t)

Spec == Init /\ [][Next]_vars

-----------------------------------------------------------------------------
(* Properties.                                                             *)

InWait == {"wait", "alert_take", "futex", "asleep", "leave_wait", "unqueue"}
InWake == {"wake", "scan", "remove", "alert", "futex_wake"}
PCs == InWait \cup InWake \cup
    {"idle", "add_exclusive", "get_exclusive", "get_shared", "try_exclusive", "try_shared",
     "release_exclusive", "release_shared", "try_enter", "spin", "enter", "take_sem", "got",
     "leave", "leave_dec", "unwait", "sleep", "cond_wake"}

\* The fields of the locks and of the queues keep their types: no count of
\* an SRW lock falls below zero, nor that of a critical section below -1.
TypeOK ==
    /\ exclWaiters \in Nat /\ exclusive \in BOOLEAN /\ owners \in Nat /\ cond \in Nat
    /\ lockCount \in Nat \cup {-1} /\ recursion \in Nat
    /\ owner \in Threads \cup {NoOne} /\ semaphore \in {0, 1}
    /\ queue \in [Buckets -> Seq(Threads)] /\ qlock \in [Buckets -> Threads \cup {NoOne}]
    /\ entryAddr \in [Threads -> Addr \cup {"null"}]
    /\ alert \in [Threads -> BOOLEAN]
    /\ pc \in [Threads -> PCs] /\ op \in [Threads -> Op \cup {"none", "reacquire"}]
    /\ mode \in [Threads -> {"none", "shared", "exclusive", "crit"}]
    /\ want \in [Threads -> {"none", "shared", "exclusive", "crit"}]
    /\ addr \in [Threads -> Addr \cup {"null"}] /\ cmp \in [Threads -> Seq(Nat)]
    /\ value \in [Threads -> Nat] /\ wakeAll \in [Threads -> BOOLEAN]
    /\ victim \in [Threads -> Threads \cup {NoOne}] /\ tids \in [Threads -> Seq(Threads)]
    /\ woken \in [Threads -> Threads \cup {NoOne}] /\ missed \in [Threads -> BOOLEAN]

Holders(m) == {t \in Threads : mode[t] = m}
WantsExclusive(t) == pc[t] = "get_exclusive" \/ (pc[t] \in InWait /\ addr[t] = "owners")

\* An SRW lock is held by one thread exclusively or by any number shared,
\* and its word says how: owners counts the holders, bit 0 is set for an
\* exclusive one, the other bits count the threads in
\* RtlAcquireSRWLockExclusive.
SRWExclusion ==
    /\ Holders("exclusive") # {} => Holders("shared") = {} /\ Cardinality(Holders("exclusive")) = 1
    /\ owners = Cardinality(Holders("shared")) + Cardinality(Holders("exclusive"))
    /\ exclusive <=> Holders("exclusive") # {}
    /\ exclWaiters = Cardinality({t \in Threads : WantsExclusive(t)})

WantsCrit(t) == pc[t] = "take_sem" \/ (pc[t] \in InWait /\ addr[t] = "sem")
HasCrit(t) == mode[t] = "crit" \/ pc[t] = "got"
\* One thread at a time is inside a critical section, LockCount counts it
\* with its recursion and the waiters, and the semaphore is raised only
\* while the section is being handed from one thread to the next.
CritExclusion ==
    LET inside == {t \in Threads : HasCrit(t)}
        waiting == {t \in Threads : WantsCrit(t)}
        handing == {t \in Threads : pc[t] = "unwait"}
        levels == IF \E t \in Threads : mode[t] = "crit" /\ pc[t] # "leave_dec" THEN recursion ELSE 1
    IN  /\ Cardinality(inside) + Cardinality(handing) + semaphore <= 1
        /\ lockCount + 1 = Cardinality(waiting) + (IF inside = {} THEN 0 ELSE levels)
        /\ waiting # {} => Cardinality(inside) + Cardinality(handing) + semaphore = 1
        /\ \A t \in Threads : mode[t] = "crit" /\ pc[t] # "leave_dec" => owner = t

\* u sleeps on a, or is about to, and no waker has picked it.
Queued(u, a) == pc[u] \in {"alert_take", "futex", "asleep"} /\ entryAddr[u] = a
WillScan(t, a) == pc[t] \in {"wake", "scan"} /\ addr[t] = a
WillScanAll(t, a) == addr[t] = a /\ wakeAll[t] /\ (pc[t] = "wake" \/ qlock[QueueOf[a]] = t)
\* No thread waits for a lock that is free with nobody to wake it: an
\* exclusive waiter while the SRW lock has no owner, a shared waiter while
\* nobody has or wants it exclusively, a waiter of the critical section
\* while the semaphore is raised.
NoneStranded ==
    /\ owners = 0 /\ (\E u \in Threads : Queued(u, "owners")) =>
          \E t \in Threads : WillScan(t, "owners") \/ (WantsExclusive(t) /\ ~Queued(t, "owners"))
    /\ exclWaiters = 0 /\ ~exclusive /\ (\E u \in Threads : Queued(u, "srw")) =>
          \E t \in Threads : WillScanAll(t, "srw")
    /\ semaphore = 1 /\ (\E u \in Threads : Queued(u, "sem")) =>
          \E t \in Threads : WillScan(t, "sem") \/ (WantsCrit(t) /\ ~Queued(t, "sem"))

\* A thread that a waker took from the queue is alerted, and a thread that
\* is alerted does not stay asleep in its futex.
AlertsArrive ==
    \A u \in Threads : pc[u] = "asleep" =>
        /\ entryAddr[u] = "null" /\ ~alert[u] =>
              \E t \in Threads : victim[t] = u \/ \E k \in 1..Len(tids[t]) : tids[t][k] = u
        /\ alert[u] => \E t \in Threads : pc[t] = "futex_wake" /\ woken[t] = u

\* RtlSleepConditionVariable* "atomically releases" the lock "and suspends
\* the thread": a WakeAll that comes after the release wakes the thread, even
\* if it has not gone to sleep yet.
WakeAllReaches ==
    \A u \in Threads : missed[u] /\ Queued(u, "cond") => \E t \in Threads : WillScanAll(t, "cond")

\* From the store of NULL to the last use of the entry, its list_remove or
\* the load of entry->tid that follows it, the thread whose entry it is has
\* not returned from RtlWaitOnAddress, on whose stack the entry is.
EntryAlive ==
    \A t \in Threads : victim[t] # NoOne => pc[victim[t]] \in InWait
=============================================================================
