------------------------------- MODULE NtSync -------------------------------
(***************************************************************************)
(* The ntsync driver with the userspace fast path                          *)
(* (ppc64le/kernel/ntsync-fastpath/ntsync.c) together with its client      *)
(* (dlls/ntdll/unix/sync.c).                                               *)
(*                                                                         *)
(* A thread makes one call after another.  A call first runs in userspace, *)
(* where it may read and compare-and-swap the mapped word of a semaphore,  *)
(* and then perhaps in the driver, where it works under the object lock or *)
(* under the device-wide wait_all_lock.  Every access to a mapped word is  *)
(* a step of its own, because userspace may touch the word at any moment;  *)
(* work on kernel-private state that one lock protects throughout is one   *)
(* step.  A load/compare-and-swap loop is one step: the iterations that    *)
(* fail change nothing, and the decision of the last one is taken on the   *)
(* value the word has.                                                     *)
(***************************************************************************)
EXTENDS Integers, Sequences

CONSTANTS
    Threads,     \* tasks; a task is also the owner id its waits carry
    Objs,        \* driver objects
    Type,        \* [Objs -> {"sem", "mutex", "event"}]
    Max,         \* [Objs -> Nat]: sem->u.sem.max
    Manual,      \* [Objs -> BOOLEAN]: manual-reset events
    Count0,      \* [Objs -> Nat]: the initial count (0/1: signaled, for events)
    Calls,       \* [Threads -> SUBSET Call]: the calls each thread may make
    MaxRec,      \* the recursion limit of a mutex (UINT_MAX in the code)
    FastPath,    \* WINE_PPC64LE_NTSYNC_FASTPATH
    Spin,        \* WINE_PPC64LE_NTSYNC_SPIN # 0
    Signals,     \* whether unix signals interrupt waits
    Mortal,      \* the threads that may die while in userspace
    NoOne        \* no thread, no object

Call == [fn : {"release", "wait_any", "wait_all", "unlock", "kill", "set", "pulse", "reset"},
         objs : Seq(Objs), n : Nat, owner : Threads \cup {NoOne},
         alert : Objs \cup {NoOne}, timeout : {"poll", "finite", "infinite"},
         direct : BOOLEAN]   \* by inproc_signal_and_wait, which has no fast path

ASSUME ConstAssumption ==
    /\ NoOne \notin Threads \cup Objs
    /\ Type \in [Objs -> {"sem", "mutex", "event"}]
    /\ Max \in [Objs -> Nat]
    /\ Manual \in [Objs -> BOOLEAN]
    /\ Count0 \in [Objs -> Nat]
    /\ MaxRec \in Nat \ {0}
    /\ FastPath \in BOOLEAN /\ Spin \in BOOLEAN /\ Signals \in BOOLEAN
    /\ Mortal \subseteq Threads

\* What the create ioctls and the calls check before they touch an object.
ASSUME CallAssumption ==
    /\ \A o \in Objs : IF Type[o] = "sem" THEN Count0[o] <= Max[o] ELSE Count0[o] \in 0..1
    /\ \A t \in Threads : \A c \in Calls[t] :
          /\ c \in Call
          /\ Len(c.objs) > 0
          /\ c.alert # NoOne => Type[c.alert] = "event"
          /\ c.fn = "release" => Type[c.objs[1]] = "sem"
          /\ c.fn \in {"unlock", "kill"} => Type[c.objs[1]] = "mutex" /\ c.owner # NoOne
          /\ c.fn \in {"set", "pulse", "reset"} => Type[c.objs[1]] = "event"

VARIABLES
    \* shm->state, the word userspace shares: its bits 0..31, 32..60, 61 and 62
    count, waiters, hold, waitAll,
    \* u.mutex and u.event, private to the driver
    mcount, mowner, mdead, event,
    \* obj->lock, obj->dev_locked and dev->wait_all_lock
    lock, devLocked, allLock,
    \* obj->all_hint, obj->any_waiters and obj->all_waiters
    allHint, anyWaiters, allWaiters,
    \* q->signaled and q->ownerdead of the wait each task is in
    signaled, ownerdead,
    \* where each thread is, and the locals of the call it makes
    pc,
    call,        \* its arguments
    stage, cur,  \* what the locked section is for, and its object
    i,           \* the loop index
    todo,        \* the part of a waiter list still to walk
    target       \* the task whose wait-all is being tried

word == <<count, waiters, hold, waitAll>>
private == <<mcount, mowner, mdead, event>>
objvars == <<word, private>>
lockvars == <<lock, devLocked, allLock>>
queuevars == <<allHint, anyWaiters, allWaiters>>
qvars == <<signaled, ownerdead>>
locals == <<call, stage, cur, i, todo, target>>
vars == <<word, private, lockvars, queuevars, qvars, pc, locals>>

NoCall == [fn |-> "none", objs |-> <<>>, n |-> 0, owner |-> NoOne,
           alert |-> NoOne, timeout |-> "infinite", direct |-> FALSE]

\* ntsync_create_sem, ntsync_create_mutex, ntsync_create_event
Init ==
    /\ count = [o \in Objs |-> IF Type[o] = "sem" THEN Count0[o] ELSE 0]
    /\ waiters = [o \in Objs |-> 0]
    /\ hold = [o \in Objs |-> FALSE]
    /\ waitAll = [o \in Objs |-> FALSE]
    /\ mcount = [o \in Objs |-> 0]
    /\ mowner = [o \in Objs |-> NoOne]
    /\ mdead = [o \in Objs |-> FALSE]
    /\ event = [o \in Objs |-> Type[o] = "event" /\ Count0[o] = 1]
    /\ lock = [o \in Objs |-> NoOne]
    /\ devLocked = [o \in Objs |-> FALSE]
    /\ allLock = NoOne
    /\ allHint = [o \in Objs |-> 0]
    /\ anyWaiters = [o \in Objs |-> <<>>]
    /\ allWaiters = [o \in Objs |-> <<>>]
    /\ signaled = [t \in Threads |-> -1]
    /\ ownerdead = [t \in Threads |-> FALSE]
    /\ pc = [t \in Threads |-> "idle"]
    /\ call = [t \in Threads |-> NoCall]
    /\ stage = [t \in Threads |-> "none"]
    /\ cur = [t \in Threads |-> NoOne]
    /\ i = [t \in Threads |-> 1]
    /\ todo = [t \in Threads |-> <<>>]
    /\ target = [t \in Threads |-> NoOne]

-----------------------------------------------------------------------------
(* Calls and their objects.  An alert event is queued and checked last.    *)

IsWait(c) == c.fn \in {"wait_any", "wait_all"}
\* linux_wait_objs: a wait-all on one object is a wait-any.
IsAll(c) == c.fn = "wait_all" /\ Len(c.objs) > 1
Entries(c) == IF c.alert = NoOne THEN c.objs ELSE Append(c.objs, c.alert)
\* map_inproc_sync: only a semaphore with a nonzero max keeps its mapping.
Mapped(o) == FastPath /\ Type[o] = "sem" /\ Max[o] > 0
Distinct(s) == \A j, k \in DOMAIN s : s[j] = s[k] => j = k
RemoveNth(s, n) == [j \in 1..(Len(s) - 1) |-> IF j < n THEN s[j] ELSE s[j + 1]]

\* q->entries[i] of the wait that t is making
MyEntry(t) == [task |-> t, index |-> i[t]]
Unclaimed(t) == signaled[t] = -1
\* The object that a loop over the objects of the call has come to.
Here(t) == call[t].objs[i[t]]
\* The "all" that ntsync_lock_obj returned: t locked by way of wait_all_lock.
All(t) == allLock = t

(* How control moves on: to l alone, with a new index, with a new list to  *)
(* walk, into a locked section s on object o, or out of the call.          *)
Goto(t, l) == pc' = [pc EXCEPT ![t] = l] /\ UNCHANGED locals
GotoIndex(t, l, k) ==
    /\ pc' = [pc EXCEPT ![t] = l]
    /\ i' = [i EXCEPT ![t] = k]
    /\ UNCHANGED <<call, stage, cur, todo, target>>
GotoList(t, l, s) ==
    /\ pc' = [pc EXCEPT ![t] = l]
    /\ todo' = [todo EXCEPT ![t] = s]
    /\ UNCHANGED <<call, stage, cur, i, target>>
LockFor(t, s, k) ==
    /\ pc' = [pc EXCEPT ![t] = "lock"]
    /\ stage' = [stage EXCEPT ![t] = s]
    /\ i' = [i EXCEPT ![t] = k]
    /\ cur' = [cur EXCEPT ![t] = Entries(call[t])[k]]
    /\ UNCHANGED <<call, todo, target>>
Leave(t, l) ==
    /\ pc' = [pc EXCEPT ![t] = l]
    /\ call' = [call EXCEPT ![t] = NoCall]
    /\ stage' = [stage EXCEPT ![t] = "none"]
    /\ cur' = [cur EXCEPT ![t] = NoOne]
    /\ i' = [i EXCEPT ![t] = 1]
    /\ todo' = [todo EXCEPT ![t] = <<>>]
    /\ target' = [target EXCEPT ![t] = NoOne]
Finish(t) == Leave(t, "idle")

-----------------------------------------------------------------------------
(* Userspace.                                                              *)

\* Where a call goes first.
FirstStep(c) ==
    IF IsWait(c) THEN IF IsAll(c) \/ c.direct THEN "setup" ELSE "walk"
    ELSE IF c.fn = "release" /\ Mapped(c.objs[1]) /\ ~c.direct THEN "fast_release" ELSE "lock"

\* NtReleaseSemaphore, NtWaitForMultipleObjects, ... up to the first word;
\* kill_thread of the server, which abandons the mutexes of a thread that
\* may still run and dies later.
Begin(t) ==
    /\ pc[t] = "idle"
    /\ \E c \in Calls[t] :
          /\ pc' = [pc EXCEPT ![t] = FirstStep(c)]
          /\ call' = [call EXCEPT ![t] = c]
          /\ stage' = [stage EXCEPT ![t] = c.fn]
          /\ cur' = [cur EXCEPT ![t] = c.objs[1]]
    /\ UNCHANGED <<objvars, lockvars, queuevars, qvars, i, todo, target>>

\* Mutant: a fast release does not stay out of a held semaphore.
MustAskKernelIfKeptOut(o, n) == n = 0 \/ waitAll[o] \/ count[o] + n > Max[o]

\* fast_release_semaphore returns STATUS_NOT_IMPLEMENTED: use the ioctl.
MustAskKernel(o, n) ==
    \/ n = 0
    \/ hold[o] \/ waitAll[o]
    \/ count[o] + n > Max[o]

FastReleaseDeclined(t) ==
    /\ pc[t] = "fast_release"
    /\ MustAskKernel(cur[t], call[t].n)
    /\ Goto(t, "lock")
    /\ UNCHANGED <<objvars, lockvars, queuevars, qvars>>

\* Mutant: the waiters a fast release displaced are forgotten.
FastReleaseOnly(t) ==
    /\ pc[t] = "fast_release"
    /\ ~MustAskKernel(cur[t], call[t].n)
    /\ count' = [count EXCEPT ![cur[t]] = @ + call[t].n]
    /\ Finish(t)
    /\ UNCHANGED <<waiters, hold, waitAll, private, lockvars, queuevars, qvars>>

\* The CAS adds the units and reports the waiters it displaced.
FastRelease(t) ==
    LET o == cur[t]
    IN  /\ pc[t] = "fast_release"
        /\ ~MustAskKernel(o, call[t].n)
        /\ count' = [count EXCEPT ![o] = @ + call[t].n]
        /\ IF waiters[o] = 0 THEN Finish(t) ELSE Goto(t, "fast_wake")
        /\ UNCHANGED <<waiters, hold, waitAll, private, lockvars, queuevars, qvars>>

\* ... and the ioctl with a count of zero that wakes them.
FastWake(t) ==
    /\ pc[t] = "fast_wake"
    /\ pc' = [pc EXCEPT ![t] = "lock"]
    /\ stage' = [stage EXCEPT ![t] = "wake"]
    /\ UNCHANGED <<objvars, lockvars, queuevars, qvars, call, cur, i, todo, target>>

\* Mutants: an empty count is not noticed; NTSYNC_F_WAIT_ALL is not
\* respected; it is mistaken for an empty count.
FastAcquireBlind(o) == IF waitAll[o] THEN "keepout" ELSE "took"
FastAcquireAlways(o) == IF count[o] = 0 THEN "empty" ELSE "took"
FastAcquireEmpty(o) == IF waitAll[o] \/ count[o] = 0 THEN "empty" ELSE "took"

\* fast_acquire_semaphore
FastAcquire(o) ==
    IF waitAll[o] THEN "keepout" ELSE IF count[o] = 0 THEN "empty" ELSE "took"

FastTake(t, o) ==
    /\ FastAcquire(o) = "took"
    /\ count' = [count EXCEPT ![o] = @ - 1]
    /\ Finish(t)
    /\ UNCHANGED <<waiters, hold, waitAll, private>>

\* The walk of inproc_wait over the objects of a wait-any.
Walk(t) ==
    LET o == Here(t)
    IN  /\ pc[t] = "walk"
        /\ \/ /\ ~Mapped(o) \/ FastAcquire(o) = "keepout"
              /\ Goto(t, "setup") /\ UNCHANGED objvars
           \/ Mapped(o) /\ FastTake(t, o)
           \/ /\ Mapped(o) /\ FastAcquire(o) = "empty"
              /\ IF i[t] < Len(call[t].objs) THEN GotoIndex(t, "walk", i[t] + 1)
                 ELSE GotoIndex(t, IF Spin /\ call[t].timeout # "poll" THEN "spin" ELSE "setup", 1)
              /\ UNCHANGED objvars
        /\ UNCHANGED <<lockvars, queuevars, qvars>>

\* Mutant: the deadline of the spin is never reached.
SpinForever(t) == GotoIndex(t, "spin", IF i[t] < Len(call[t].objs) THEN i[t] + 1 ELSE 1)

\* The end of one iteration of the spin; a pass may end at the deadline.
SpinNext(t) ==
    \/ i[t] < Len(call[t].objs) /\ GotoIndex(t, "spin", i[t] + 1)
    \/ i[t] = Len(call[t].objs) /\ \E l \in {"spin", "setup"} : GotoIndex(t, l, 1)

\* The spin of inproc_wait: the plain load ...
SpinPeek(t) ==
    LET o == Here(t)
    IN  /\ pc[t] = "spin"
        /\ \/ waitAll[o] /\ Goto(t, "setup")
           \/ ~waitAll[o] /\ count[o] = 0 /\ SpinNext(t)
           \/ ~waitAll[o] /\ count[o] > 0 /\ Goto(t, "spin_take")
        /\ UNCHANGED <<objvars, lockvars, queuevars, qvars>>

\* ... and the fast acquire, whatever made it fail.
SpinTake(t) ==
    LET o == Here(t)
    IN  /\ pc[t] = "spin_take"
        /\ \/ FastTake(t, o)
           \/ FastAcquire(o) # "took" /\ SpinNext(t) /\ UNCHANGED objvars
        /\ UNCHANGED <<lockvars, queuevars, qvars>>

\* A thread dies in userspace: the process is killed, or the thread exits.
Die(t) ==
    /\ t \in Mortal
    /\ pc[t] \in {"idle", "fast_release", "fast_wake", "walk", "spin", "spin_take", "setup"}
    /\ Leave(t, "dead")
    /\ UNCHANGED <<objvars, lockvars, queuevars, qvars>>

\* setup_wait
Setup(t) ==
    LET c == call[t]
    IN  /\ pc[t] = "setup"
        /\ signaled' = [signaled EXCEPT ![t] = -1]
        /\ ownerdead' = [ownerdead EXCEPT ![t] = FALSE]
        /\ IF ~IsAll(c) THEN LockFor(t, "queue", 1)
           ELSE IF Distinct(Entries(c)) THEN Goto(t, "all_mutex") ELSE Finish(t)
        /\ UNCHANGED <<objvars, lockvars, queuevars>>

-----------------------------------------------------------------------------
(* ntsync_lock_obj and ntsync_unlock_obj.  Waiting for wait_all_lock when  *)
(* dev_locked is set, and taking the spinlock again, is waiting until both *)
(* the spinlock and dev_locked are clear.                                  *)

\* Mutant: the slow owner behind dev_locked is overlooked.
LockUnlessSpinning(t) ==
    LET o == cur[t]
    IN  /\ pc[t] = "lock"
        /\ lock[o] = NoOne
        /\ IF allHint[o] = 0
              THEN lock' = [lock EXCEPT ![o] = t] /\ Goto(t, "body")
              ELSE UNCHANGED lock /\ Goto(t, "mutex")
        /\ UNCHANGED <<objvars, devLocked, allLock, queuevars, qvars>>

Lock(t) ==
    LET o == cur[t]
    IN  /\ pc[t] = "lock"
        /\ lock[o] = NoOne /\ ~devLocked[o]
        /\ IF allHint[o] = 0
              THEN lock' = [lock EXCEPT ![o] = t] /\ Goto(t, "body")
              ELSE UNCHANGED lock /\ Goto(t, "mutex")
        /\ UNCHANGED <<objvars, devLocked, allLock, queuevars, qvars>>

LockMutex(t) ==
    /\ pc[t] = "mutex"
    /\ allLock = NoOne
    /\ allLock' = t
    /\ Goto(t, "dev_lock")
    /\ UNCHANGED <<objvars, lock, devLocked, queuevars, qvars>>

DevLock(t) ==
    /\ pc[t] = "dev_lock"
    /\ lock[cur[t]] = NoOne
    /\ devLocked' = [devLocked EXCEPT ![cur[t]] = TRUE]
    /\ Goto(t, "body")
    /\ UNCHANGED <<objvars, lock, allLock, queuevars, qvars>>

\* Where each kind of locked section returns to.
AfterUnlock(t) ==
    LET n == Len(Entries(call[t]))
        k == i[t]
        s == stage[t]
    IN  \/ s \in {"queue", "unqueue"} /\ k < n /\ LockFor(t, s, k + 1)
        \/ s = "queue" /\ k = n /\ GotoIndex(t, "check", 1)
        \/ s = "unqueue" /\ k = n /\ Goto(t, "return")
        \/ s = "check" /\ GotoIndex(t, "check", k + 1)
        \/ s \notin {"queue", "check", "unqueue"} /\ Finish(t)

Unlock(t) ==
    LET o == cur[t]
    IN  /\ pc[t] = "unlock"
        /\ IF All(t)
              THEN /\ devLocked' = [devLocked EXCEPT ![o] = FALSE]
                   /\ allLock' = NoOne
                   /\ UNCHANGED lock
              ELSE /\ lock' = [lock EXCEPT ![o] = NoOne]
                   /\ UNCHANGED <<devLocked, allLock>>
        /\ AfterUnlock(t)
        /\ UNCHANGED <<objvars, queuevars, qvars>>

-----------------------------------------------------------------------------
(* The locked sections.                                                    *)

InBody(t, s) == pc[t] = "body" /\ stage[t] = s
\* Mutant: the wait-alls on the object are not tried.
WakeAnyAfter(t) == GotoList(t, "scan", anyWaiters[cur[t]])

\* After a change of state: try_wake_all_obj if "all", then try_wake_any_*.
WakeAfter(t) ==
    IF All(t) THEN GotoList(t, "wake_all", allWaiters[cur[t]])
              ELSE GotoList(t, "scan", anyWaiters[cur[t]])

\* The queueing loop of ntsync_wait_any.
Queue(t) ==
    LET o == cur[t]
    IN  /\ InBody(t, "queue")
        /\ anyWaiters' = [anyWaiters EXCEPT ![o] = Append(@, MyEntry(t))]
        /\ waiters' = [waiters EXCEPT ![o] = @ + 1]
        /\ Goto(t, "unlock")
        /\ UNCHANGED <<count, hold, waitAll, private, lockvars, allHint, allWaiters, qvars>>

\* The unqueueing loop of ntsync_wait_any, and the alert of ntsync_wait_all.
Unqueue(t) ==
    LET o == cur[t]
    IN  /\ InBody(t, "unqueue")
        /\ \E n \in 1..Len(anyWaiters[o]) :
              /\ anyWaiters[o][n] = MyEntry(t)
              /\ anyWaiters' = [anyWaiters EXCEPT ![o] = RemoveNth(@, n)]
        /\ waiters' = [waiters EXCEPT ![o] = @ - 1]
        /\ Goto(t, "unlock")
        /\ UNCHANGED <<count, hold, waitAll, private, lockvars, allHint, allWaiters, qvars>>

\* try_wake_any_obj in the checking loop.
CheckObj(t) ==
    /\ InBody(t, "check")
    /\ GotoList(t, "scan", anyWaiters[cur[t]])
    /\ UNCHANGED <<objvars, lockvars, queuevars, qvars>>

\* ntsync_sem_release; the wake-up call of a fast release adds nothing.
SemRelease(t) ==
    LET o == cur[t]
        n == IF stage[t] = "wake" THEN 0 ELSE call[t].n
    IN  /\ InBody(t, "release") \/ InBody(t, "wake")
        /\ IF count[o] + n > Max[o]
              THEN Goto(t, "unlock") /\ UNCHANGED count
              ELSE count' = [count EXCEPT ![o] = @ + n] /\ WakeAfter(t)
        /\ UNCHANGED <<waiters, hold, waitAll, private, lockvars, queuevars, qvars>>

\* Mutant: anyone may unlock.
MutexUnlockUnowned(t) ==
    LET o == cur[t]
    IN  /\ InBody(t, "unlock")
        /\ mcount' = [mcount EXCEPT ![o] = @ - 1]
        /\ mowner' = [mowner EXCEPT ![o] = IF mcount[o] = 1 THEN NoOne ELSE @]
        /\ WakeAfter(t)
        /\ UNCHANGED <<word, mdead, event, lockvars, queuevars, qvars>>

\* ntsync_mutex_unlock
MutexUnlock(t) ==
    LET o == cur[t]
    IN  /\ InBody(t, "unlock")
        /\ IF mowner[o] # call[t].owner
              THEN Goto(t, "unlock") /\ UNCHANGED <<mcount, mowner>>
              ELSE /\ mcount' = [mcount EXCEPT ![o] = @ - 1]
                   /\ mowner' = [mowner EXCEPT ![o] = IF mcount[o] = 1 THEN NoOne ELSE @]
                   /\ WakeAfter(t)
        /\ UNCHANGED <<word, mdead, event, lockvars, queuevars, qvars>>

\* Mutant: an abandoned mutex is not handed on.
MutexKillOnly(t) ==
    LET o == cur[t]
    IN  /\ InBody(t, "kill")
        /\ IF mowner[o] # call[t].owner
              THEN UNCHANGED <<mcount, mowner, mdead>>
              ELSE /\ mdead' = [mdead EXCEPT ![o] = TRUE]
                   /\ mowner' = [mowner EXCEPT ![o] = NoOne]
                   /\ mcount' = [mcount EXCEPT ![o] = 0]
        /\ Goto(t, "unlock")
        /\ UNCHANGED <<word, event, lockvars, queuevars, qvars>>

\* ntsync_mutex_kill
MutexKill(t) ==
    LET o == cur[t]
    IN  /\ InBody(t, "kill")
        /\ IF mowner[o] # call[t].owner
              THEN Goto(t, "unlock") /\ UNCHANGED <<mcount, mowner, mdead>>
              ELSE /\ mdead' = [mdead EXCEPT ![o] = TRUE]
                   /\ mowner' = [mowner EXCEPT ![o] = NoOne]
                   /\ mcount' = [mcount EXCEPT ![o] = 0]
                   /\ WakeAfter(t)
        /\ UNCHANGED <<word, event, lockvars, queuevars, qvars>>

\* ntsync_event_set; a pulse resets the event when the wakes are done.
EventSet(t) ==
    /\ InBody(t, "set") \/ InBody(t, "pulse")
    /\ event' = [event EXCEPT ![cur[t]] = TRUE]
    /\ WakeAfter(t)
    /\ UNCHANGED <<word, mcount, mowner, mdead, lockvars, queuevars, qvars>>

\* ntsync_event_reset
EventReset(t) ==
    /\ InBody(t, "reset")
    /\ event' = [event EXCEPT ![cur[t]] = FALSE]
    /\ Goto(t, "unlock")
    /\ UNCHANGED <<word, mcount, mowner, mdead, lockvars, queuevars, qvars>>

-----------------------------------------------------------------------------
(* try_wake_any_sem, try_wake_any_mutex and try_wake_any_event: walk the   *)
(* list; claim each task whose q->signaled is still -1.  While pc is       *)
(* "loan" a unit is out of the count and not yet placed.                   *)

Scanning(t, ty) == pc[t] = "scan" /\ todo[t] # <<>> /\ Type[cur[t]] = ty
Claim(e) == signaled' = [signaled EXCEPT ![e.task] = e.index]

\* ntsync_sem_take_hold
SemTakeHold(t) ==
    LET o == cur[t]
    IN  /\ Scanning(t, "sem")
        /\ IF count[o] = 0
              THEN GotoList(t, "scan", <<>>) /\ UNCHANGED <<count, hold>>
              ELSE /\ count' = [count EXCEPT ![o] = @ - 1]
                   /\ hold' = [hold EXCEPT ![o] = TRUE]
                   /\ Goto(t, "loan")
        /\ UNCHANGED <<waiters, waitAll, private, lockvars, queuevars, qvars>>

\* The unit on loan goes to the first task that can be claimed.
SemClaim(t) ==
    LET e == Head(todo[t])
    IN  /\ pc[t] = "loan" /\ todo[t] # <<>>
        /\ IF Unclaimed(e.task) THEN Claim(e) /\ GotoList(t, "placed", Tail(todo[t]))
                                ELSE GotoList(t, "loan", Tail(todo[t])) /\ UNCHANGED signaled
        /\ UNCHANGED <<objvars, lockvars, queuevars, ownerdead>>

\* ntsync_sem_hold_done
SemHoldDone(t) ==
    /\ pc[t] = "placed"
    /\ hold' = [hold EXCEPT ![cur[t]] = FALSE]
    /\ Goto(t, "scan")
    /\ UNCHANGED <<count, waiters, waitAll, private, lockvars, queuevars, qvars>>

\* Mutant: only the hold is given up, not the unit.
SemGiveUp(t) ==
    /\ pc[t] = "loan" /\ todo[t] = <<>>
    /\ hold' = [hold EXCEPT ![cur[t]] = FALSE]
    /\ Goto(t, "scan")
    /\ UNCHANGED <<count, waiters, waitAll, private, lockvars, queuevars, qvars>>

\* Every task was claimed already: ntsync_sem_give_back.
SemGiveBack(t) ==
    /\ pc[t] = "loan" /\ todo[t] = <<>>
    /\ count' = [count EXCEPT ![cur[t]] = @ + 1]
    /\ hold' = [hold EXCEPT ![cur[t]] = FALSE]
    /\ Goto(t, "scan")
    /\ UNCHANGED <<waiters, waitAll, private, lockvars, queuevars, qvars>>

MutexScan(t) ==
    LET o == cur[t]
        e == Head(todo[t])
        rest == Tail(todo[t])
    IN  /\ Scanning(t, "mutex")
        /\ \/ /\ mcount[o] = MaxRec
              /\ GotoList(t, "scan", <<>>)
              /\ UNCHANGED <<mcount, mowner, mdead, qvars>>
           \/ /\ mcount[o] # MaxRec
              /\ mowner[o] \notin {NoOne, e.task} \/ ~Unclaimed(e.task)
              /\ GotoList(t, "scan", rest)
              /\ UNCHANGED <<mcount, mowner, mdead, qvars>>
           \/ /\ mcount[o] # MaxRec
              /\ mowner[o] \in {NoOne, e.task} /\ Unclaimed(e.task)
              /\ Claim(e)
              /\ ownerdead' = [ownerdead EXCEPT ![e.task] = @ \/ mdead[o]]
              /\ mdead' = [mdead EXCEPT ![o] = FALSE]
              /\ mcount' = [mcount EXCEPT ![o] = @ + 1]
              /\ mowner' = [mowner EXCEPT ![o] = e.task]
              /\ GotoList(t, "scan", rest)
        /\ UNCHANGED <<word, event, lockvars, queuevars>>

\* Mutant: an auto-reset event stays signaled.
EventScanManual(t) ==
    LET e == Head(todo[t])
    IN  /\ Scanning(t, "event")
        /\ IF event[cur[t]] /\ Unclaimed(e.task) THEN Claim(e) ELSE UNCHANGED signaled
        /\ GotoList(t, "scan", Tail(todo[t]))
        /\ UNCHANGED <<objvars, lockvars, queuevars, ownerdead>>

EventScan(t) ==
    LET o == cur[t]
        e == Head(todo[t])
        rest == Tail(todo[t])
    IN  /\ Scanning(t, "event")
        /\ \/ ~event[o] /\ GotoList(t, "scan", <<>>) /\ UNCHANGED <<event, signaled>>
           \/ event[o] /\ ~Unclaimed(e.task) /\ GotoList(t, "scan", rest) /\ UNCHANGED <<event, signaled>>
           \/ /\ event[o] /\ Unclaimed(e.task)
              /\ Claim(e)
              /\ event' = [event EXCEPT ![o] = Manual[o]]
              /\ GotoList(t, "scan", rest)
        /\ UNCHANGED <<word, mcount, mowner, mdead, lockvars, queuevars, ownerdead>>

\* The list is done; the end of a pulse comes before the unlock.
ScanEnd(t) ==
    /\ pc[t] = "scan" /\ todo[t] = <<>>
    /\ event' = [event EXCEPT ![cur[t]] = @ /\ stage[t] # "pulse"]
    /\ Goto(t, "unlock")
    /\ UNCHANGED <<word, mcount, mowner, mdead, lockvars, queuevars, qvars>>

-----------------------------------------------------------------------------
(* try_wake_all_obj and try_wake_all, under wait_all_lock.                 *)

\* is_signaled(obj, owner)
IsSignaled(o, u) ==
    CASE Type[o] = "sem"   -> count[o] > 0
      [] Type[o] = "mutex" -> mowner[o] \in {NoOne, u} /\ mcount[o] < MaxRec
      [] Type[o] = "event" -> event[o]

\* The objects of the wait-all being tried, and those the try must lock:
\* all but the one the caller has locked already.
TargetObjs(t) == call[target[t]].objs
TargetSet(t) == {TargetObjs(t)[k] : k \in 1..Len(TargetObjs(t))}
DevLocks(t) == {o \in TargetSet(t) : target[t] # t => o # cur[t]}

\* The loop of try_wake_all_obj, which the any-scan follows.
WakeAllNext(t) ==
    /\ pc[t] = "wake_all"
    /\ IF todo[t] = <<>>
          THEN GotoList(t, "scan", anyWaiters[cur[t]])
          ELSE /\ pc' = [pc EXCEPT ![t] = "wa_lock"]
               /\ target' = [target EXCEPT ![t] = Head(todo[t]).task]
               /\ todo' = [todo EXCEPT ![t] = Tail(@)]
               /\ i' = [i EXCEPT ![t] = 1]
               /\ UNCHANGED <<call, stage, cur>>
    /\ UNCHANGED <<objvars, lockvars, queuevars, qvars>>

\* Mutant: dev_locked is set under the feet of the lock's owner.
WakeAllMark(t) ==
    LET o == TargetObjs(t)[i[t]]
    IN  /\ pc[t] = "wa_lock"
        /\ i[t] <= Len(TargetObjs(t))
        /\ devLocked' = [devLocked EXCEPT ![o] = @ \/ o \in DevLocks(t)]
        /\ GotoIndex(t, "wa_lock", i[t] + 1)
        /\ UNCHANGED <<objvars, lock, allLock, queuevars, qvars>>

\* dev_lock_obj on each object in turn.
WakeAllLock(t) ==
    LET o == TargetObjs(t)[i[t]]
    IN  /\ pc[t] = "wa_lock"
        /\ i[t] <= Len(TargetObjs(t))
        /\ IF o \in DevLocks(t)
              THEN lock[o] = NoOne /\ devLocked' = [devLocked EXCEPT ![o] = TRUE]
              ELSE UNCHANGED devLocked
        /\ GotoIndex(t, "wa_lock", i[t] + 1)
        /\ UNCHANGED <<objvars, lock, allLock, queuevars, qvars>>

\* Check every object, then compare-and-swap q->signaled.
WakeAllTry(t) ==
    LET u == target[t]
    IN  /\ pc[t] = "wa_lock"
        /\ i[t] > Len(TargetObjs(t))
        /\ IF Unclaimed(u) /\ \A o \in TargetSet(t) : IsSignaled(o, u)
              THEN signaled' = [signaled EXCEPT ![u] = 0] /\ Goto(t, "wa_commit")
              ELSE UNCHANGED signaled /\ Goto(t, "wa_unlock")
        /\ UNCHANGED <<objvars, lockvars, queuevars, ownerdead>>

\* Commit to every object; a take that fails is not rolled back.
WakeAllCommit(t) ==
    LET u == target[t]
        Of(ty) == {o \in TargetSet(t) : Type[o] = ty}
    IN  /\ pc[t] = "wa_commit"
        /\ count' = [o \in Objs |-> IF o \in Of("sem") /\ count[o] > 0 THEN count[o] - 1 ELSE count[o]]
        /\ mcount' = [o \in Objs |-> IF o \in Of("mutex") THEN mcount[o] + 1 ELSE mcount[o]]
        /\ mowner' = [o \in Objs |-> IF o \in Of("mutex") THEN u ELSE mowner[o]]
        /\ mdead' = [o \in Objs |-> mdead[o] /\ o \notin Of("mutex")]
        /\ event' = [o \in Objs |-> event[o] /\ (o \in Of("event") => Manual[o])]
        /\ ownerdead' = [ownerdead EXCEPT ![u] = @ \/ \E o \in Of("mutex") : mdead[o]]
        /\ Goto(t, "wa_unlock")
        /\ UNCHANGED <<waiters, hold, waitAll, lockvars, queuevars, signaled>>

\* dev_unlock_obj on each object; ntsync_wait_all then drops wait_all_lock.
WakeAllUnlock(t) ==
    /\ pc[t] = "wa_unlock"
    /\ devLocked' = [o \in Objs |-> devLocked[o] /\ o \notin DevLocks(t)]
    /\ IF target[t] = t
          THEN allLock' = NoOne /\ GotoIndex(t, "check", Len(call[t].objs) + 1)
          ELSE UNCHANGED allLock /\ Goto(t, "wake_all")
    /\ UNCHANGED <<objvars, lock, queuevars, qvars>>

-----------------------------------------------------------------------------
(* ntsync_wait_any and ntsync_wait_all around the locked sections.         *)

\* Mutant: a task sleeps as soon as it is queued.
CheckNothing(t) ==
    /\ pc[t] = "check"
    /\ Goto(t, "sleep")
    /\ UNCHANGED <<objvars, lockvars, queuevars, qvars>>

\* The head of the checking loop; ntsync_wait_all checks its alert only.
Check(t) ==
    /\ pc[t] = "check"
    /\ IF ~Unclaimed(t) \/ i[t] > Len(Entries(call[t]))
          THEN Goto(t, "sleep")
          ELSE LockFor(t, "check", i[t])
    /\ UNCHANGED <<objvars, lockvars, queuevars, qvars>>

\* ntsync_schedule returns, and the unqueueing begins.
LeaveSleep(t) ==
    /\ pc[t] = "sleep"
    /\ IF IsAll(call[t]) THEN Goto(t, "all_leave") ELSE LockFor(t, "unqueue", 1)
    /\ UNCHANGED <<objvars, lockvars, queuevars, qvars>>
WakeUp(t) == ~Unclaimed(t) /\ LeaveSleep(t)
TimeOut(t) == call[t].timeout # "infinite" /\ LeaveSleep(t)
Interrupt(t) == Signals /\ LeaveSleep(t)

\* A claim counts whatever ended the sleep.  Without one the call has timed
\* out, or was interrupted, and then linux_wait_objs makes it again.
Return(t) ==
    /\ pc[t] = "return"
    /\ \/ Unclaimed(t) /\ Signals /\ Goto(t, "setup")
       \/ ~Unclaimed(t) /\ Finish(t)
       \/ Unclaimed(t) /\ call[t].timeout # "infinite" /\ Finish(t)
    /\ signaled' = [signaled EXCEPT ![t] = -1]
    /\ ownerdead' = [ownerdead EXCEPT ![t] = FALSE]
    /\ UNCHANGED <<objvars, lockvars, queuevars>>

\* ntsync_wait_all takes wait_all_lock to queue and again to unqueue.
AllMutex(t) ==
    /\ pc[t] \in {"all_mutex", "all_leave"}
    /\ allLock = NoOne
    /\ allLock' = t
    /\ GotoIndex(t, IF pc[t] = "all_mutex" THEN "all_queue" ELSE "all_unqueue", 1)
    /\ UNCHANGED <<objvars, lock, devLocked, queuevars, qvars>>

\* For each object: all_hint, NTSYNC_F_WAIT_ALL on its edge from 0 to 1, and
\* the waiter with its list entry.  all_hint is read under obj->lock and the
\* word by userspace, so wait_all_lock does not make these one step.
AllQueue(t) ==
    LET o == Here(t)
    IN  /\ pc[t] = "all_queue"
        /\ i[t] <= Len(call[t].objs)
        /\ allHint' = [allHint EXCEPT ![o] = @ + 1]
        /\ Goto(t, IF allHint[o] = 0 THEN "all_flag" ELSE "all_add")
        /\ UNCHANGED <<objvars, lockvars, anyWaiters, allWaiters, qvars>>

AllFlag(t) ==
    /\ pc[t] = "all_flag"
    /\ waitAll' = [waitAll EXCEPT ![Here(t)] = TRUE]
    /\ Goto(t, "all_add")
    /\ UNCHANGED <<count, waiters, hold, private, lockvars, queuevars, qvars>>

AllAdd(t) ==
    LET o == Here(t)
    IN  /\ pc[t] = "all_add"
        /\ waiters' = [waiters EXCEPT ![o] = @ + 1]
        /\ allWaiters' = [allWaiters EXCEPT ![o] = Append(@, MyEntry(t))]
        /\ GotoIndex(t, "all_queue", i[t] + 1)
        /\ UNCHANGED <<count, hold, waitAll, private, lockvars, allHint, anyWaiters, qvars>>

\* The alert, under dev_lock_obj; then try_wake_all on the own wait.
AllQueued(t) ==
    LET a == call[t].alert
    IN  /\ pc[t] = "all_queue"
        /\ i[t] > Len(call[t].objs)
        /\ IF a = NoOne THEN UNCHANGED <<waiters, anyWaiters>>
           ELSE /\ lock[a] = NoOne
                /\ anyWaiters' = [anyWaiters EXCEPT ![a] = Append(@, MyEntry(t))]
                /\ waiters' = [waiters EXCEPT ![a] = @ + 1]
        /\ pc' = [pc EXCEPT ![t] = "wa_lock"]
        /\ target' = [target EXCEPT ![t] = t]
        /\ i' = [i EXCEPT ![t] = 1]
        /\ UNCHANGED <<count, hold, waitAll, private, lockvars, allHint, allWaiters, qvars>>
        /\ UNCHANGED <<call, stage, cur, todo>>

\* The way back: list entry and waiter, all_hint, NTSYNC_F_WAIT_ALL.
AllUnqueue(t) ==
    LET o == Here(t)
    IN  /\ pc[t] = "all_unqueue"
        /\ i[t] <= Len(call[t].objs)
        /\ \E n \in 1..Len(allWaiters[o]) :
              /\ allWaiters[o][n] = MyEntry(t)
              /\ allWaiters' = [allWaiters EXCEPT ![o] = RemoveNth(@, n)]
        /\ waiters' = [waiters EXCEPT ![o] = @ - 1]
        /\ Goto(t, "all_hint")
        /\ UNCHANGED <<count, hold, waitAll, private, lockvars, allHint, anyWaiters, qvars>>

\* Mutant: NTSYNC_F_WAIT_ALL is cleared one wait-all too early.
AllUnhintEarly(t) ==
    LET o == Here(t)
    IN  /\ pc[t] = "all_hint"
        /\ allHint' = [allHint EXCEPT ![o] = @ - 1]
        /\ IF allHint[o] <= 2 THEN Goto(t, "all_clear") ELSE GotoIndex(t, "all_unqueue", i[t] + 1)
        /\ UNCHANGED <<objvars, lockvars, anyWaiters, allWaiters, qvars>>

AllUnhint(t) ==
    LET o == Here(t)
    IN  /\ pc[t] = "all_hint"
        /\ allHint' = [allHint EXCEPT ![o] = @ - 1]
        /\ IF allHint[o] = 1 THEN Goto(t, "all_clear") ELSE GotoIndex(t, "all_unqueue", i[t] + 1)
        /\ UNCHANGED <<objvars, lockvars, anyWaiters, allWaiters, qvars>>

AllClear(t) ==
    /\ pc[t] = "all_clear"
    /\ waitAll' = [waitAll EXCEPT ![Here(t)] = FALSE]
    /\ GotoIndex(t, "all_unqueue", i[t] + 1)
    /\ UNCHANGED <<count, waiters, hold, private, lockvars, queuevars, qvars>>

AllUnqueued(t) ==
    LET n == Len(call[t].objs)
    IN  /\ pc[t] = "all_unqueue"
        /\ i[t] > n
        /\ allLock' = NoOne
        /\ IF call[t].alert = NoOne THEN Goto(t, "return") ELSE LockFor(t, "unqueue", n + 1)
        /\ UNCHANGED <<objvars, lock, devLocked, queuevars, qvars>>

-----------------------------------------------------------------------------
Userspace(t) ==
    \/ FastReleaseDeclined(t) \/ FastRelease(t) \/ FastWake(t)
    \/ Walk(t) \/ SpinPeek(t) \/ SpinTake(t) \/ Setup(t)
Driver(t) ==
    \/ Lock(t) \/ LockMutex(t) \/ DevLock(t) \/ Unlock(t)
    \/ Queue(t) \/ Unqueue(t) \/ CheckObj(t)
    \/ SemRelease(t) \/ MutexUnlock(t) \/ MutexKill(t) \/ EventSet(t) \/ EventReset(t)
    \/ SemTakeHold(t) \/ SemClaim(t) \/ SemHoldDone(t) \/ SemGiveBack(t)
    \/ MutexScan(t) \/ EventScan(t) \/ ScanEnd(t)
    \/ WakeAllNext(t) \/ WakeAllLock(t) \/ WakeAllTry(t) \/ WakeAllCommit(t) \/ WakeAllUnlock(t)
    \/ Check(t) \/ WakeUp(t) \/ TimeOut(t) \/ Return(t)
    \/ AllMutex(t) \/ AllQueue(t) \/ AllFlag(t) \/ AllAdd(t) \/ AllQueued(t)
    \/ AllUnqueue(t) \/ AllUnhint(t) \/ AllClear(t) \/ AllUnqueued(t)

Next == \E t \in Threads : Begin(t) \/ Die(t) \/ Interrupt(t) \/ Userspace(t) \/ Driver(t)

Spec == Init /\ [][Next]_vars

\* A thread that can run does run; the kernel's spinlocks and mutexes are
\* queued, so a thread that waits for one gets it in the end; and the clock
\* reaches the deadline of a spin.  Nobody has to make a call, and signals
\* need not arrive.  The loop of obj_lock that waits for dev_locked is not
\* queued: FairSpec is for calls without wait-alls, where nobody sets it.
TakesLock(t) == Lock(t) \/ LockMutex(t) \/ DevLock(t) \/ AllMutex(t)
Fairness ==
    \A t \in Threads :
        /\ WF_vars(Userspace(t)) /\ WF_vars(Driver(t))
        /\ SF_vars(TakesLock(t))
        /\ SF_vars(SpinPeek(t) /\ pc'[t] = "setup")
FairSpec == Spec /\ Fairness

-----------------------------------------------------------------------------
(* Properties.                                                             *)

PCs == {"idle", "dead", "fast_release", "fast_wake", "walk", "spin", "spin_take", "setup",
        "lock", "mutex", "dev_lock", "body", "unlock", "scan", "loan", "placed", "wake_all",
        "wa_lock", "wa_commit", "wa_unlock", "check", "sleep", "return",
        "all_mutex", "all_queue", "all_flag", "all_add",
        "all_leave", "all_unqueue", "all_hint", "all_clear"}
Stages == {"none", "queue", "check", "unqueue", "release", "wake", "wait_any", "wait_all",
           "unlock", "kill", "set", "pulse", "reset"}
Entry == [task : Threads, index : Nat]

\* The fields of every driver and client structure keep their types; in
\* particular no counter of the shared word goes below zero.
TypeOK ==
    /\ count \in [Objs -> Nat] /\ waiters \in [Objs -> Nat]
    /\ hold \in [Objs -> BOOLEAN] /\ waitAll \in [Objs -> BOOLEAN]
    /\ mcount \in [Objs -> Nat] /\ mowner \in [Objs -> Threads \cup {NoOne}]
    /\ mdead \in [Objs -> BOOLEAN] /\ event \in [Objs -> BOOLEAN]
    /\ lock \in [Objs -> Threads \cup {NoOne}]
    /\ devLocked \in [Objs -> BOOLEAN]
    /\ allLock \in Threads \cup {NoOne}
    /\ allHint \in [Objs -> Nat]
    /\ anyWaiters \in [Objs -> Seq(Entry)] /\ allWaiters \in [Objs -> Seq(Entry)]
    /\ signaled \in [Threads -> Int] /\ ownerdead \in [Threads -> BOOLEAN]
    /\ pc \in [Threads -> PCs]
    /\ call \in [Threads -> Call \cup {NoCall}]
    /\ stage \in [Threads -> Stages]
    /\ cur \in [Threads -> Objs \cup {NoOne}]
    /\ i \in [Threads -> Nat \ {0}]
    /\ todo \in [Threads -> Seq(Entry)]
    /\ target \in [Threads -> Threads \cup {NoOne}]

\* t is inside a section that ntsync_lock_obj opened on cur[t] ...
Trying == {"wa_lock", "wa_commit", "wa_unlock"}
InSection(t) == \/ pc[t] \in {"body", "unlock", "scan", "loan", "placed", "wake_all"}
                \/ pc[t] \in Trying /\ target[t] # t
\* ... or has locked o with dev_lock_obj to try a wait-all.
TriesWith(t, o) ==
    /\ pc[t] \in Trying
    /\ o \in DevLocks(t)
    /\ pc[t] = "wa_lock" => \E k \in 1..Len(TargetObjs(t)) : TargetObjs(t)[k] = o /\ k < i[t]
Inside(t, o) == (InSection(t) /\ cur[t] = o) \/ TriesWith(t, o)

\* Never two threads are in sections that ntsync_lock_obj opened on one
\* object, whichever of its two ways, obj->lock or dev_locked under
\* wait_all_lock, each of them was let in.
SectionExclusion ==
    \A t, u \in Threads : InSection(t) /\ InSection(u) /\ cur[t] = cur[u] => t = u

\* The same with the objects that try_wake_all locks for a wait-all; and
\* while nobody holds wait_all_lock no object is dev_locked (the
\* lockdep_assert of obj_lock).
MutualExclusion ==
    /\ \A o \in Objs : \A t, u \in Threads : Inside(t, o) /\ Inside(u, o) => t = u
    /\ allLock = NoOne => \A o \in Objs : ~devLocked[o]

\* The number of units of o that try_wake_any_sem has out on loan.
OnLoan(o) == IF \E t \in Threads : pc[t] = "loan" /\ cur[t] = o THEN 1 ELSE 0
\* A unit on loan can always be handed back without exceeding max (the
\* WARN_ON_ONCE of ntsync_sem_give_back): no release, fast or slow, can have
\* used up its room.
NoOvershoot ==
    \A o \in Objs : Type[o] = "sem" => count[o] + OnLoan(o) <= Max[o]

\* What try_wake_all checked is still true when it commits: a fast acquire
\* cannot take the unit in between (the WARN_ON_ONCE of try_wake_all).
WaitAllCommits ==
    \A t \in Threads : pc[t] = "wa_commit" =>
        \A o \in TargetSet(t) : IsSignaled(o, target[t])

\* At every moment the waiters field of the word counts exactly the entries
\* queued on the object, and an object with a wait-all in its list keeps
\* userspace out and sends ntsync_lock_obj to wait_all_lock.  While nobody
\* changes the lists of wait-alls, WAIT_ALL and all_hint are exact as well.
WaitersAccurate ==
    \A o \in Objs :
        /\ waiters[o] = Len(anyWaiters[o]) + Len(allWaiters[o])
        /\ allWaiters[o] # <<>> => waitAll[o] /\ allHint[o] > 0
        /\ allLock = NoOne => allHint[o] = Len(allWaiters[o]) /\ (waitAll[o] <=> allHint[o] > 0)

\* The calls that run the wake functions on their object.
Wakers == {"release", "wake", "unlock", "kill", "set", "pulse"}
Approaching(t, o) == cur[t] = o /\ pc[t] \in {"fast_wake", "lock", "mutex", "dev_lock", "body"}
Listed(t, u) == \E k \in 1..Len(todo[t]) : todo[t][k].task = u

\* t will scan the any_waiters of o, or is scanning and has not passed u yet.
WillScan(t, o, u) ==
    /\ stage[t] \in Wakers \cup {"check"}
    /\ \/ Approaching(t, o)
       \/ cur[t] = o /\ pc[t] \in {"wake_all"} \cup Trying
       \/ cur[t] = o /\ pc[t] \in {"scan", "loan", "placed"} /\ Listed(t, u)

\* t will try the wait-all of u because of o, or is about to check it.
WillTry(t, o, u) ==
    /\ stage[t] \in Wakers
    /\ \/ Approaching(t, o)
       \/ cur[t] = o /\ pc[t] \in {"wake_all"} \cup Trying /\ Listed(t, u)
       \/ cur[t] = o /\ pc[t] = "wa_lock" /\ target[t] = u

\* The entries of a call that wait in any_waiters lists.
AnyEntries(c) == {k \in 1..Len(Entries(c)) : IsAll(c) => k > Len(c.objs)}
Sleeps(u) == pc[u] = "sleep" /\ Unclaimed(u)

\* A task never sleeps while an object could satisfy its wait-any, the alert
\* could end its wait, or all objects could satisfy its wait-all, unless a
\* thread is still on its way to wake it: the release that raised the count
\* saw the waiter, or the waiter's own check saw the count ("NO LOST WAKEUP"
\* in ntsync.c).
NoLostWakeup ==
    \A u \in Threads : Sleeps(u) =>
        LET c == call[u] IN
        /\ \A k \in AnyEntries(c) :
              IsSignaled(Entries(c)[k], u) => \E t \in Threads : WillScan(t, Entries(c)[k], u)
        /\ IsAll(c) /\ (\A k \in 1..Len(c.objs) : IsSignaled(c.objs[k], u)) =>
              \E t \in Threads : \E k \in 1..Len(c.objs) : WillTry(t, c.objs[k], u)

\* A call that does not wait for ever returns: no thread is left behind in
\* a lock, a wake scan, a spin or an unqueueing loop.
CallsReturn ==
    \A t \in Threads :
        (pc[t] # "idle" /\ (IsWait(call[t]) => call[t].timeout # "infinite")) ~> (pc[t] = "idle")

\* A task asleep on an object that could satisfy its wait is claimed, or
\* someone else takes the object: the wake scan that NoLostWakeup promises
\* really happens and really reaches the task.
SleepersWake ==
    \A u \in Threads : \A o \in Objs :
        (Sleeps(u) /\ o \in {Entries(call[u])[k] : k \in AnyEntries(call[u])} /\ IsSignaled(o, u))
           ~> (~Sleeps(u) \/ ~IsSignaled(o, u))

-----------------------------------------------------------------------------
(* The implementation of SyncObjects.                                      *)

\* A wait-all is satisfied when try_wake_all commits it.
BeingCommitted(u) == \E t \in Threads : pc[t] = "wa_commit" /\ target[t] = u
StillWaiting(u) == IsWait(call[u]) /\ (Unclaimed(u) \/ BeingCommitted(u))

\* The objects that the index in q->signaled stands for.
Claimed(u) ==
    IF signaled[u] = 0 THEN {call[u].objs[k] : k \in 1..Len(call[u].objs)}
                       ELSE {Entries(call[u])[signaled[u]]}

\* A unit on loan still belongs to the semaphore.
Abstract == INSTANCE SyncObjects WITH
    units <- [o \in Objs |-> count[o] + OnLoan(o)],
    waiting <- [u \in Threads |-> IF StillWaiting(u) THEN call[u] ELSE NoCall],
    taken <- [u \in Threads |-> IF IsWait(call[u]) /\ ~StillWaiting(u) THEN Claimed(u) ELSE {}]

\* However the driver and the fast path interleave, no unit is lost, handed
\* out twice or added beyond max, no wait is satisfied by an object that is
\* not signaled, the index it reports is that of the object it took, and a
\* wait-all takes its objects atomically.
ImplementsSyncObjects == Abstract!Spec

=============================================================================
