---------------------------- MODULE NtSyncProofs ----------------------------
(***************************************************************************)
(* Theorems about NtSync, for any number of threads and objects and any    *)
(* set of calls: types, locked sections, loans, hints, and what            *)
(* try_wake_all checked and still holds when it commits.                   *)
(***************************************************************************)
EXTENDS NtSync, TLAPS

-----------------------------------------------------------------------------
(* The inductive invariant, first part: types.                             *)

ObjType ==
    /\ count \in [Objs -> Nat] /\ waiters \in [Objs -> Nat]
    /\ hold \in [Objs -> BOOLEAN] /\ waitAll \in [Objs -> BOOLEAN]
    /\ mcount \in [Objs -> Nat] /\ mowner \in [Objs -> Threads \cup {NoOne}]
    /\ mdead \in [Objs -> BOOLEAN] /\ event \in [Objs -> BOOLEAN]
LockType ==
    /\ lock \in [Objs -> Threads \cup {NoOne}]
    /\ devLocked \in [Objs -> BOOLEAN]
    /\ allLock \in Threads \cup {NoOne}
QueueType ==
    /\ allHint \in [Objs -> Int]
    /\ anyWaiters \in [Objs -> Seq(Entry)] /\ allWaiters \in [Objs -> Seq(Entry)]
QType == signaled \in [Threads -> Int] /\ ownerdead \in [Threads -> BOOLEAN]
LocalType ==
    /\ pc \in [Threads -> PCs]
    /\ call \in [Threads -> Call \cup {NoCall}]
    /\ stage \in [Threads -> Stages]
    /\ cur \in [Threads -> Objs \cup {NoOne}]
    /\ i \in [Threads -> Nat \ {0}]
    /\ todo \in [Threads -> Seq(Entry)]
    /\ target \in [Threads -> Threads \cup {NoOne}]

\* A thread inside a call knows the call and its object; the loops of
\* inproc_wait and ntsync_wait_all stay inside their object array;
\* try_wake_all has a target.
Looping == {"walk", "spin", "spin_take", "all_flag", "all_add", "all_hint", "all_clear"}
LocalOK(t) ==
    /\ pc[t] \notin {"idle", "dead"} =>
          /\ call[t] \in Calls[t] /\ cur[t] \in Objs
          /\ stage[t] \in {"unlock", "kill"} => call[t].fn = stage[t]
    /\ pc[t] = "idle" => i[t] = 1
    /\ pc[t] \in Looping => i[t] <= Len(call[t].objs)
    /\ pc[t] \in Trying => target[t] \in Threads
LocalInv == LocalType /\ \A t \in Threads : LocalOK(t)

\* A mutex with an owner has been taken.
MutexOK == \A o \in Objs : mowner[o] # NoOne => mcount[o] > 0

\* The waiters field is exact (all_hint is left to the fourth part).
Counted == \A o \in Objs : waiters[o] = Len(anyWaiters[o]) + Len(allWaiters[o])

TypeInv == ObjType /\ LockType /\ QueueType /\ QType /\ LocalInv /\ MutexOK /\ Counted

-----------------------------------------------------------------------------
(* Facts about calls, sequences and the ways control moves on.             *)

LEMMA CallType ==
  ASSUME NEW t \in Threads, NEW c \in Calls[t]
  PROVE  /\ c \in Call
         /\ c.objs \in Seq(Objs) /\ Len(c.objs) > 0 /\ Len(c.objs) \in Nat
         /\ \A k \in 1..Len(c.objs) : c.objs[k] \in Objs
         /\ c.n \in Nat /\ c.alert \in Objs \cup {NoOne}
         /\ Entries(c) \in Seq(Objs) /\ Len(Entries(c)) > 0 /\ Len(Entries(c)) \in Nat
         /\ c.alert # NoOne => Len(Entries(c)) = Len(c.objs) + 1
         /\ \A k \in 1..Len(Entries(c)) : Entries(c)[k] \in Objs
  <1>1. c \in Call /\ Len(c.objs) > 0
    BY CallAssumption
  <1>2. /\ c.objs \in Seq(Objs) /\ c.n \in Nat /\ c.alert \in Objs \cup {NoOne}
    BY <1>1 DEF Call
  <1>3. Entries(c) \in Seq(Objs) /\ Len(Entries(c)) > 0 /\ (c.alert # NoOne => Len(Entries(c)) = Len(c.objs) + 1)
    BY <1>1, <1>2 DEF Entries
  <1> QED
    BY <1>1, <1>2, <1>3

LEMMA SumArith ==
  ASSUME NEW a \in Nat, NEW b \in Nat
  PROVE  /\ (a + 1) + b = (a + b) + 1 /\ a + (b + 1) = (a + b) + 1
         /\ (a - 1) + b = (a + b) - 1 /\ a + (b - 1) = (a + b) - 1
         /\ a > 0 \/ b > 0 => (a + b) - 1 \in Nat
  OBVIOUS

LEMMA AnyCallType ==
  ASSUME NEW c \in Call \cup {NoCall}
  PROVE  c.objs \in Seq(Objs) /\ Len(c.objs) \in Nat /\ \A k \in 1..Len(c.objs) : c.objs[k] \in Objs
  <1>1. c.objs \in Seq(Objs)
    <2>1. CASE c \in Call BY <2>1 DEF Call
    <2>2. CASE c = NoCall BY <2>2 DEF NoCall
    <2> QED BY <2>1, <2>2
  <1> QED BY <1>1

\* Removing one entry of a list leaves a list that is shorter by one.
LEMMA RemoveNthType ==
  ASSUME NEW S, NEW s \in Seq(S), NEW n \in 1..Len(s)
  PROVE  RemoveNth(s, n) \in Seq(S) /\ Len(RemoveNth(s, n)) = Len(s) - 1
  <1>1. Len(s) \in Nat /\ Len(s) - 1 \in Nat
    OBVIOUS
  <1>2. \A j \in 1..(Len(s) - 1) : (IF j < n THEN s[j] ELSE s[j + 1]) \in S
    BY <1>1
  <1> QED
    BY <1>1, <1>2 DEF RemoveNth

LEMMA GotoInv ==
  ASSUME LocalInv, NEW t \in Threads, NEW l \in PCs, Goto(t, l), pc[t] \notin {"idle", "dead"},
         l \in Looping => pc[t] \in Looping, l \in Trying => pc[t] \in Trying, l # "idle"
  PROVE  LocalInv'
  BY DEF LocalInv, LocalType, LocalOK, Goto, locals

LEMMA GotoLoopInv ==
  ASSUME LocalInv, NEW t \in Threads, NEW l \in PCs, Goto(t, l), pc[t] \notin {"idle", "dead"},
         i[t] <= Len(call[t].objs), l \notin Trying, l # "idle"
  PROVE  LocalInv'
  BY DEF LocalInv, LocalType, LocalOK, Goto, locals

LEMMA GotoIndexInv ==
  ASSUME LocalInv, NEW t \in Threads, NEW l \in PCs, NEW k \in Nat \ {0}, GotoIndex(t, l, k),
         pc[t] \notin {"idle", "dead"}, l \in Looping => k <= Len(call[t].objs),
         l \in Trying => pc[t] \in Trying, l # "idle"
  PROVE  LocalInv'
  BY DEF LocalInv, LocalType, LocalOK, GotoIndex

LEMMA GotoListInv ==
  ASSUME LocalInv, NEW t \in Threads, NEW l \in PCs, NEW s \in Seq(Entry), GotoList(t, l, s),
         pc[t] \notin {"idle", "dead"}, l \notin Looping \cup Trying \cup {"idle"}
  PROVE  LocalInv'
  BY DEF LocalInv, LocalType, LocalOK, GotoList

LEMMA LockForInv ==
  ASSUME LocalInv, NEW t \in Threads, NEW s \in {"queue", "check", "unqueue"},
         NEW k \in 1..Len(Entries(call[t])), LockFor(t, s, k), pc[t] \notin {"idle", "dead"}
  PROVE  LocalInv'
  <1>1. Entries(call[t])[k] \in Objs /\ k \in Nat \ {0}
    BY CallType DEF LocalInv, LocalOK
  <1> QED
    BY <1>1 DEF LocalInv, LocalType, LocalOK, LockFor, Stages, PCs, Looping, Trying

LEMMA LeaveInv ==
  ASSUME LocalInv, NEW t \in Threads, NEW l \in {"idle", "dead"}, Leave(t, l)
  PROVE  LocalInv'
  BY DEF LocalInv, LocalType, LocalOK, Leave, Stages, PCs, Looping, Trying

\* The loops over the object array of a wait never leave it.
LEMMA LoopingObj ==
  ASSUME LocalInv, NEW t \in Threads, pc[t] \in Looping
  PROVE  /\ Here(t) \in Objs /\ i[t] \in Nat /\ i[t] > 0
         /\ Len(call[t].objs) \in Nat /\ Len(call[t].objs) > 0
  <1>1. call[t] \in Calls[t] /\ i[t] \in Nat \ {0} /\ i[t] <= Len(call[t].objs)
    BY DEF LocalInv, LocalType, LocalOK, Looping
  <1>2. Len(call[t].objs) \in Nat
    BY <1>1, CallType
  <1>3. i[t] \in 1..Len(call[t].objs)
    BY <1>1, <1>2
  <1> QED
    BY <1>1, <1>3, CallType DEF Here

LEMMA InitTypeInv == Init => TypeInv
  <1> SUFFICES ASSUME Init PROVE TypeInv
    OBVIOUS
  <1>1. ObjType /\ LockType /\ QueueType /\ QType
    BY ConstAssumption DEF Init, ObjType, LockType, QueueType, QType
  <1>2. LocalInv
    <2>1. LocalType
      BY DEF Init, LocalType, PCs, Stages
    <2>2. \A t \in Threads : LocalOK(t)
      BY DEF Init, LocalOK, Looping, Trying
    <2> QED BY <2>1, <2>2 DEF LocalInv
  <1>3. MutexOK /\ Counted
    BY DEF Init, MutexOK, Counted
  <1> QED
    BY <1>1, <1>2, <1>3 DEF TypeInv

-----------------------------------------------------------------------------
(* Every step preserves the types.  A thread in userspace:                 *)

LEMMA UserspaceTypeInv ==
  ASSUME TypeInv, NEW t \in Threads, Begin(t) \/ Die(t) \/ Userspace(t)
  PROVE  TypeInv'
  <1> USE DEF TypeInv
  <1> DEFINE Rest == LockType /\ QueueType /\ MutexOK /\ Counted
  <1>1. ASSUME UNCHANGED <<private, lockvars, queuevars, waiters, hold, waitAll>>
        PROVE  Rest'
    BY <1>1 DEF LockType, QueueType, MutexOK, Counted, private, lockvars, queuevars
  <1>2. ASSUME UNCHANGED objvars PROVE ObjType'
    BY <1>2 DEF ObjType, objvars, word, private
  <1>3. ASSUME UNCHANGED qvars PROVE QType'
    BY <1>3 DEF QType, qvars
  <1>4. ASSUME NEW o \in Objs, FastTake(t, o), UNCHANGED qvars PROVE ObjType' /\ LocalInv'
    <2>1. count[o] - 1 \in Nat
      BY <1>4 DEF FastTake, FastAcquire, ObjType
    <2>2. ObjType'
      BY <1>4, <2>1 DEF FastTake, ObjType, private
    <2>3. LocalInv'
      BY <1>4, LeaveInv DEF FastTake, Finish
    <2> QED BY <2>2, <2>3
  <1>5. CASE Begin(t)
    <2>1. LocalInv'
      <3> PICK c \in Calls[t] :
             /\ pc' = [pc EXCEPT ![t] = FirstStep(c)]
             /\ call' = [call EXCEPT ![t] = c]
             /\ stage' = [stage EXCEPT ![t] = c.fn]
             /\ cur' = [cur EXCEPT ![t] = c.objs[1]]
        BY <1>5 DEF Begin
      <3>1. c \in Call /\ c.objs[1] \in Objs /\ Len(c.objs) >= 1 /\ c.fn \in Stages
        BY CallType DEF Call, Stages
      <3>2. i[t] = 1
        BY <1>5 DEF Begin, LocalInv, LocalOK
      <3> QED
        BY <1>5, <3>1, <3>2 DEF Begin, FirstStep, LocalInv, LocalType, LocalOK, PCs, Looping, Trying
    <2> QED
      BY <1>1, <1>2, <1>3, <1>5, <2>1 DEF Begin, objvars, word
  <1>6. CASE Die(t)
    <2>1. LocalInv'
      BY <1>6, LeaveInv DEF Die
    <2> QED
      BY <1>1, <1>2, <1>3, <1>6, <2>1 DEF Die, objvars, word
  <1>7. CASE FastReleaseDeclined(t)
    <2>1. LocalInv'
      BY <1>7, GotoInv DEF FastReleaseDeclined, PCs, Looping, Trying
    <2> QED
      BY <1>1, <1>2, <1>3, <1>7, <2>1 DEF FastReleaseDeclined, objvars, word
  <1>8. CASE FastRelease(t)
    <2>1. cur[t] \in Objs /\ call[t].n \in Nat
      BY <1>8, CallType DEF FastRelease, LocalInv, LocalOK
    <2>2. ObjType'
      BY <1>8, <2>1 DEF FastRelease, ObjType, private
    <2>3. LocalInv'
      <3>1. CASE Finish(t) BY <3>1, LeaveInv DEF Finish
      <3>2. CASE Goto(t, "fast_wake") BY <1>8, <3>2, GotoInv DEF FastRelease, PCs, Looping, Trying
      <3> QED BY <1>8, <3>1, <3>2 DEF FastRelease
    <2> QED
      BY <1>1, <1>3, <1>8, <2>2, <2>3 DEF FastRelease
  <1>9. CASE FastWake(t)
    <2>1. LocalInv'
      BY <1>9 DEF FastWake, LocalInv, LocalType, LocalOK, PCs, Stages, Looping, Trying
    <2> QED
      BY <1>1, <1>2, <1>3, <1>9, <2>1 DEF FastWake, objvars, word
  <1>10. CASE Walk(t)
    <2> DEFINE o == Here(t)
    <2>1. o \in Objs /\ i[t] \in Nat /\ Len(call[t].objs) \in Nat /\ Len(call[t].objs) > 0
      BY <1>10, LoopingObj DEF Walk, Looping
    <2>2. CASE FastTake(t, o)
      <3>1. ObjType' /\ LocalInv' BY <1>4, <1>10, <2>1, <2>2 DEF Walk
      <3>2. Rest' BY <1>1, <1>10, <2>2 DEF Walk, FastTake
      <3> QED BY <1>3, <1>10, <3>1, <3>2 DEF Walk
    <2>3. CASE UNCHANGED objvars /\ Goto(t, "setup")
      <3>1. LocalInv'
        BY <1>10, <2>3, GotoInv DEF Walk, PCs, Looping, Trying
      <3> QED BY <1>1, <1>2, <1>3, <1>10, <2>3, <3>1 DEF Walk, objvars, word
    <2>4. ASSUME UNCHANGED objvars,
                 NEW l \in {"walk", "spin", "setup"}, NEW k \in 1..Len(call[t].objs), GotoIndex(t, l, k)
          PROVE  TypeInv'
      <3>1. LocalInv'
        <4>1. l \in PCs /\ l \notin Trying /\ l # "idle" /\ k \in Nat \ {0} /\ k <= Len(call[t].objs)
          BY <2>1, <2>4 DEF PCs, Trying
        <4> QED BY <1>10, <2>4, <4>1, GotoIndexInv DEF Walk
      <3> QED BY <1>1, <1>2, <1>3, <1>10, <2>4, <3>1 DEF Walk, objvars, word
    <2>5. i[t] < Len(call[t].objs) => i[t] + 1 \in 1..Len(call[t].objs)
      BY <2>1
    <2>6. 1 \in 1..Len(call[t].objs)
      BY <2>1
    <2> QED
      BY <1>10, <2>2, <2>3, <2>4, <2>5, <2>6 DEF Walk
  <1>11. ASSUME pc[t] \in {"spin", "spin_take"}, SpinNext(t) PROVE LocalInv'
    <2>1. i[t] \in Nat /\ Len(call[t].objs) \in Nat /\ Len(call[t].objs) > 0
      BY <1>11, LoopingObj DEF Looping
    <2>2. PICK l \in {"spin", "setup"}, k \in 1..Len(call[t].objs) : GotoIndex(t, l, k)
      BY <1>11, <2>1 DEF SpinNext
    <2>3. l \in PCs /\ l \notin Trying /\ l # "idle" /\ k \in Nat \ {0} /\ k <= Len(call[t].objs)
      BY <2>1, <2>2 DEF PCs, Trying
    <2> QED
      BY <1>11, <2>2, <2>3, GotoIndexInv
  <1>12. CASE SpinPeek(t)
    <2>1. LocalInv'
      <3>1. CASE SpinNext(t) BY <1>11, <1>12, <3>1 DEF SpinPeek
      <3>2. CASE Goto(t, "setup") BY <1>12, <3>2, GotoInv DEF SpinPeek, PCs, Looping, Trying
      <3>3. CASE Goto(t, "spin_take") BY <1>12, <3>3, GotoInv DEF SpinPeek, PCs, Looping, Trying
      <3> QED BY <1>12, <3>1, <3>2, <3>3 DEF SpinPeek
    <2> QED
      BY <1>1, <1>2, <1>3, <1>12, <2>1 DEF SpinPeek, objvars, word
  <1>13. CASE SpinTake(t)
    <2> DEFINE o == Here(t)
    <2>1. o \in Objs
      BY <1>13, LoopingObj DEF SpinTake, Looping
    <2>2. CASE FastTake(t, o)
      <3>1. ObjType' /\ LocalInv' BY <1>4, <1>13, <2>1, <2>2 DEF SpinTake
      <3>2. Rest' BY <1>1, <1>13, <2>2 DEF SpinTake, FastTake
      <3> QED BY <1>3, <1>13, <3>1, <3>2 DEF SpinTake
    <2>3. CASE UNCHANGED objvars /\ SpinNext(t)
      BY <1>1, <1>2, <1>3, <1>11, <1>13, <2>3 DEF SpinTake, objvars, word
    <2> QED
      BY <1>13, <2>2, <2>3 DEF SpinTake
  <1>14. CASE Setup(t)
    <2>1. LocalInv'
      <3>1. 1 \in 1..Len(Entries(call[t]))
        BY <1>14, CallType DEF Setup, LocalInv, LocalOK
      <3>2. CASE LockFor(t, "queue", 1) BY <1>14, <3>1, <3>2, LockForInv DEF Setup
      <3>3. CASE Goto(t, "all_mutex") BY <1>14, <3>3, GotoInv DEF Setup, PCs, Looping, Trying
      <3>4. CASE Finish(t) BY <3>4, LeaveInv DEF Finish
      <3> QED BY <1>14, <3>2, <3>3, <3>4 DEF Setup
    <2>2. QType'
      BY <1>14 DEF Setup, QType
    <2> QED
      BY <1>1, <1>2, <1>14, <2>1, <2>2 DEF Setup, objvars, word
  <1> QED
    BY <1>5, <1>6, <1>7, <1>8, <1>9, <1>10, <1>12, <1>13, <1>14 DEF Userspace

-----------------------------------------------------------------------------
(* ... and a thread in the driver.                                         *)

\* What a step leaves alone keeps its type.
LEMMA Frame ==
  ASSUME TypeInv
  PROVE  /\ UNCHANGED objvars => ObjType'
         /\ UNCHANGED private => MutexOK'
         /\ UNCHANGED lockvars => LockType'
         /\ UNCHANGED queuevars => QueueType'
         /\ UNCHANGED qvars => QType'
         /\ UNCHANGED <<waiters, queuevars>> => Counted'
  BY DEF TypeInv, ObjType, MutexOK, LockType, QueueType, QType, Counted,
         objvars, word, private, lockvars, queuevars, qvars

\* The object of a thread in the driver.
LEMMA CurObj ==
  ASSUME TypeInv, NEW t \in Threads, pc[t] \notin {"idle", "dead"}
  PROVE  /\ cur[t] \in Objs /\ call[t] \in Calls[t]
         /\ anyWaiters[cur[t]] \in Seq(Entry) /\ allWaiters[cur[t]] \in Seq(Entry)
  BY DEF TypeInv, LocalInv, LocalOK, QueueType

LEMMA LockingTypeInv ==
  ASSUME TypeInv, NEW t \in Threads, Lock(t) \/ LockMutex(t) \/ DevLock(t) \/ Unlock(t)
  PROVE  TypeInv'
  <1> USE DEF TypeInv
  <1>1. UNCHANGED <<objvars, queuevars, qvars>>
    BY DEF Lock, LockMutex, DevLock, Unlock
  <1>2. ObjType' /\ MutexOK' /\ QueueType' /\ QType' /\ Counted'
    BY <1>1, Frame DEF objvars, word
  <1>3. pc[t] \notin {"idle", "dead"} /\ pc[t] \notin Looping /\ pc[t] \notin Trying
    BY DEF Lock, LockMutex, DevLock, Unlock, Looping, Trying
  <1>4. LockType'
    <2>1. CASE Lock(t) BY <2>1 DEF Lock, LockType
    <2>2. CASE LockMutex(t) BY <2>2 DEF LockMutex, LockType
    <2>3. CASE DevLock(t) BY <2>3 DEF DevLock, LockType
    <2>4. CASE Unlock(t) BY <2>4 DEF Unlock, LockType
    <2> QED BY <2>1, <2>2, <2>3, <2>4
  <1>5. LocalInv'
    <2>1. ASSUME NEW l \in {"body", "mutex", "dev_lock", "return"}, Goto(t, l) PROVE LocalInv'
      BY <1>3, <2>1, GotoInv DEF PCs, Looping, Trying
    <2>2. CASE Lock(t) BY <2>1, <2>2 DEF Lock
    <2>3. CASE LockMutex(t) BY <2>1, <2>3 DEF LockMutex
    <2>4. CASE DevLock(t) BY <2>1, <2>4 DEF DevLock
    <2>5. CASE Unlock(t)
      <3>1. i[t] \in Nat \ {0} /\ Len(Entries(call[t])) \in Nat
        BY <1>3, CurObj, CallType DEF LocalInv, LocalType
      <3>2. ASSUME NEW s \in {"queue", "unqueue"}, i[t] < Len(Entries(call[t])), LockFor(t, s, i[t] + 1)
            PROVE  LocalInv'
        <4>1. i[t] + 1 \in 1..Len(Entries(call[t]))
          BY <3>1, <3>2
        <4> QED BY <1>3, <3>2, <4>1, LockForInv
      <3>3. ASSUME NEW k \in {1, i[t] + 1}, GotoIndex(t, "check", k) PROVE LocalInv'
        <4>1. k \in Nat \ {0}
          BY <3>1
        <4> QED BY <1>3, <3>3, <4>1, GotoIndexInv DEF PCs, Looping, Trying
      <3>4. CASE Finish(t)
        BY <3>4, LeaveInv DEF Finish
      <3> QED
        BY <2>1, <2>5, <3>2, <3>3, <3>4 DEF Unlock, AfterUnlock
    <2> QED BY <2>2, <2>3, <2>4, <2>5
  <1> QED
    BY <1>2, <1>4, <1>5

LEMMA MyEntryType ==
  ASSUME TypeInv, NEW t \in Threads
  PROVE  MyEntry(t) \in Entry
  BY DEF TypeInv, LocalInv, LocalType, MyEntry, Entry

\* Queueing an entry and counting it, or removing one and uncounting it,
\* keeps the waiters field exact: for a wait-any ...
LEMMA AnyQueued ==
  ASSUME TypeInv, NEW o \in Objs, NEW e \in Entry,
         anyWaiters' = [anyWaiters EXCEPT ![o] = Append(@, e)],
         waiters' = [waiters EXCEPT ![o] = @ + 1],
         UNCHANGED <<allWaiters, allHint>>
  PROVE  QueueType' /\ Counted' /\ waiters' \in [Objs -> Nat]
  <1> USE DEF TypeInv
  <1>1. /\ anyWaiters[o] \in Seq(Entry) /\ allWaiters[o] \in Seq(Entry)
        /\ Len(anyWaiters[o]) \in Nat /\ Len(allWaiters[o]) \in Nat
    BY DEF QueueType
  <1>2. /\ Append(anyWaiters[o], e) \in Seq(Entry)
        /\ Len(Append(anyWaiters[o], e)) = Len(anyWaiters[o]) + 1
    BY <1>1
  <1>3. waiters[o] = Len(anyWaiters[o]) + Len(allWaiters[o])
    BY DEF Counted
  <1>4. waiters[o] + 1 \in Nat
    BY DEF ObjType
  <1>5. waiters' \in [Objs -> Nat]
    BY <1>4 DEF ObjType
  <1>6. QueueType'
    BY <1>2 DEF QueueType
  <1>7. waiters'[o] = Len(anyWaiters'[o]) + Len(allWaiters'[o])
    <2>1. waiters'[o] = waiters[o] + 1
      BY DEF ObjType
    <2>2. Len(anyWaiters'[o]) = Len(anyWaiters[o]) + 1 /\ Len(allWaiters'[o]) = Len(allWaiters[o])
      BY <1>2 DEF QueueType
    <2>3. (Len(anyWaiters[o]) + 1) + Len(allWaiters[o]) = (Len(anyWaiters[o]) + Len(allWaiters[o])) + 1
      BY <1>1, SumArith
    <2> QED BY <1>3, <2>1, <2>2, <2>3
  <1>8. ASSUME NEW p \in Objs, p # o
        PROVE  waiters'[p] = Len(anyWaiters'[p]) + Len(allWaiters'[p])
    BY <1>8 DEF ObjType, QueueType, Counted
  <1> QED
    BY <1>5, <1>6, <1>7, <1>8 DEF Counted

LEMMA AnyUnqueued ==
  ASSUME TypeInv, NEW o \in Objs, NEW n \in 1..Len(anyWaiters[o]),
         anyWaiters' = [anyWaiters EXCEPT ![o] = RemoveNth(@, n)],
         waiters' = [waiters EXCEPT ![o] = @ - 1],
         UNCHANGED <<allWaiters, allHint>>
  PROVE  QueueType' /\ Counted' /\ waiters' \in [Objs -> Nat]
  <1> USE DEF TypeInv
  <1>1. /\ anyWaiters[o] \in Seq(Entry) /\ allWaiters[o] \in Seq(Entry)
        /\ Len(anyWaiters[o]) \in Nat /\ Len(allWaiters[o]) \in Nat
    BY DEF QueueType
  <1>2. /\ RemoveNth(anyWaiters[o], n) \in Seq(Entry)
        /\ Len(RemoveNth(anyWaiters[o], n)) = Len(anyWaiters[o]) - 1
    BY <1>1, RemoveNthType
  <1>3. waiters[o] = Len(anyWaiters[o]) + Len(allWaiters[o])
    BY DEF Counted
  <1>4. waiters[o] - 1 \in Nat
    <2>1. Len(anyWaiters[o]) > 0
      BY <1>1
    <2>2. (Len(anyWaiters[o]) + Len(allWaiters[o])) - 1 \in Nat
      BY <1>1, <2>1, SumArith
    <2> QED BY <1>3, <2>2
  <1>5. waiters' \in [Objs -> Nat]
    BY <1>4 DEF ObjType
  <1>6. QueueType'
    BY <1>2 DEF QueueType
  <1>7. waiters'[o] = Len(anyWaiters'[o]) + Len(allWaiters'[o])
    <2>1. waiters'[o] = waiters[o] - 1
      BY DEF ObjType
    <2>2. Len(anyWaiters'[o]) = Len(anyWaiters[o]) - 1 /\ Len(allWaiters'[o]) = Len(allWaiters[o])
      BY <1>2 DEF QueueType
    <2>3. (Len(anyWaiters[o]) - 1) + Len(allWaiters[o]) = (Len(anyWaiters[o]) + Len(allWaiters[o])) - 1
      BY <1>1, SumArith
    <2> QED BY <1>3, <2>1, <2>2, <2>3
  <1>8. ASSUME NEW p \in Objs, p # o
        PROVE  waiters'[p] = Len(anyWaiters'[p]) + Len(allWaiters'[p])
    BY <1>8 DEF ObjType, QueueType, Counted
  <1> QED
    BY <1>5, <1>6, <1>7, <1>8 DEF Counted

\* ... and for a wait-all.
LEMMA WaitAllQueued ==
  ASSUME TypeInv, NEW o \in Objs, NEW e \in Entry,
         allWaiters' = [allWaiters EXCEPT ![o] = Append(@, e)],
         waiters' = [waiters EXCEPT ![o] = @ + 1],
         UNCHANGED <<anyWaiters, allHint>>
  PROVE  QueueType' /\ Counted' /\ waiters' \in [Objs -> Nat]
  <1> USE DEF TypeInv
  <1>1. /\ anyWaiters[o] \in Seq(Entry) /\ allWaiters[o] \in Seq(Entry)
        /\ Len(anyWaiters[o]) \in Nat /\ Len(allWaiters[o]) \in Nat
    BY DEF QueueType
  <1>2. /\ Append(allWaiters[o], e) \in Seq(Entry)
        /\ Len(Append(allWaiters[o], e)) = Len(allWaiters[o]) + 1
    BY <1>1
  <1>3. waiters[o] = Len(anyWaiters[o]) + Len(allWaiters[o])
    BY DEF Counted
  <1>4. waiters[o] + 1 \in Nat
    BY DEF ObjType
  <1>5. waiters' \in [Objs -> Nat]
    BY <1>4 DEF ObjType
  <1>6. QueueType'
    BY <1>2 DEF QueueType
  <1>7. waiters'[o] = Len(anyWaiters'[o]) + Len(allWaiters'[o])
    <2>1. waiters'[o] = waiters[o] + 1
      BY DEF ObjType
    <2>2. Len(allWaiters'[o]) = Len(allWaiters[o]) + 1 /\ Len(anyWaiters'[o]) = Len(anyWaiters[o])
      BY <1>2 DEF QueueType
    <2>3. Len(anyWaiters[o]) + (Len(allWaiters[o]) + 1) = (Len(anyWaiters[o]) + Len(allWaiters[o])) + 1
      BY <1>1, SumArith
    <2> QED BY <1>3, <2>1, <2>2, <2>3
  <1>8. ASSUME NEW p \in Objs, p # o
        PROVE  waiters'[p] = Len(anyWaiters'[p]) + Len(allWaiters'[p])
    BY <1>8 DEF ObjType, QueueType, Counted
  <1> QED
    BY <1>5, <1>6, <1>7, <1>8 DEF Counted

LEMMA WaitAllUnqueued ==
  ASSUME TypeInv, NEW o \in Objs, NEW n \in 1..Len(allWaiters[o]),
         allWaiters' = [allWaiters EXCEPT ![o] = RemoveNth(@, n)],
         waiters' = [waiters EXCEPT ![o] = @ - 1],
         UNCHANGED <<anyWaiters, allHint>>
  PROVE  QueueType' /\ Counted' /\ waiters' \in [Objs -> Nat]
  <1> USE DEF TypeInv
  <1>1. /\ anyWaiters[o] \in Seq(Entry) /\ allWaiters[o] \in Seq(Entry)
        /\ Len(anyWaiters[o]) \in Nat /\ Len(allWaiters[o]) \in Nat
    BY DEF QueueType
  <1>2. /\ RemoveNth(allWaiters[o], n) \in Seq(Entry)
        /\ Len(RemoveNth(allWaiters[o], n)) = Len(allWaiters[o]) - 1
    BY <1>1, RemoveNthType
  <1>3. waiters[o] = Len(anyWaiters[o]) + Len(allWaiters[o])
    BY DEF Counted
  <1>4. waiters[o] - 1 \in Nat
    <2>1. Len(allWaiters[o]) > 0
      BY <1>1
    <2>2. (Len(anyWaiters[o]) + Len(allWaiters[o])) - 1 \in Nat
      BY <1>1, <2>1, SumArith
    <2> QED BY <1>3, <2>2
  <1>5. waiters' \in [Objs -> Nat]
    BY <1>4 DEF ObjType
  <1>6. QueueType'
    BY <1>2 DEF QueueType
  <1>7. waiters'[o] = Len(anyWaiters'[o]) + Len(allWaiters'[o])
    <2>1. waiters'[o] = waiters[o] - 1
      BY DEF ObjType
    <2>2. Len(allWaiters'[o]) = Len(allWaiters[o]) - 1 /\ Len(anyWaiters'[o]) = Len(anyWaiters[o])
      BY <1>2 DEF QueueType
    <2>3. Len(anyWaiters[o]) + (Len(allWaiters[o]) - 1) = (Len(anyWaiters[o]) + Len(allWaiters[o])) - 1
      BY <1>1, SumArith
    <2> QED BY <1>3, <2>1, <2>2, <2>3
  <1>8. ASSUME NEW p \in Objs, p # o
        PROVE  waiters'[p] = Len(anyWaiters'[p]) + Len(allWaiters'[p])
    BY <1>8 DEF ObjType, QueueType, Counted
  <1> QED
    BY <1>5, <1>6, <1>7, <1>8 DEF Counted

\* The bodies of the locked sections.
LEMMA SectionTypeInv ==
  ASSUME TypeInv, NEW t \in Threads,
         \/ Queue(t) \/ Unqueue(t) \/ CheckObj(t) \/ SemRelease(t)
         \/ MutexUnlock(t) \/ MutexKill(t) \/ EventSet(t) \/ EventReset(t)
  PROVE  TypeInv'
  <1> USE DEF TypeInv
  <1> DEFINE o == cur[t]
  <1>1. pc[t] = "body" /\ UNCHANGED <<lockvars, qvars>>
    BY DEF Queue, Unqueue, CheckObj, SemRelease, MutexUnlock, MutexKill, EventSet, EventReset, InBody
  <1>2. o \in Objs /\ call[t] \in Calls[t] /\ anyWaiters[o] \in Seq(Entry) /\ allWaiters[o] \in Seq(Entry)
    BY <1>1, CurObj
  <1>3. LockType' /\ QType'
    BY <1>1, Frame
  <1>4. ASSUME Goto(t, "unlock") PROVE LocalInv'
    BY <1>1, <1>4, GotoInv DEF PCs, Looping, Trying
  <1>5. ASSUME NEW l \in {"wake_all", "scan"}, NEW s \in Seq(Entry), GotoList(t, l, s) PROVE LocalInv'
    BY <1>1, <1>5, GotoListInv DEF PCs, Looping, Trying
  <1>6. ASSUME WakeAfter(t) PROVE LocalInv'
    BY <1>2, <1>5, <1>6 DEF WakeAfter
  <1>7. ASSUME UNCHANGED <<waiters, queuevars>>
        PROVE  QueueType' /\ Counted'
    BY <1>7, Frame
  <1>8. CASE Queue(t)
    <2>1. QueueType' /\ Counted' /\ waiters' \in [Objs -> Nat]
      BY <1>1, <1>2, <1>8, MyEntryType, AnyQueued DEF Queue
    <2>2. ObjType' /\ MutexOK'
      BY <1>8, <2>1, Frame DEF Queue, ObjType, private
    <2> QED
      BY <1>3, <1>4, <1>8, <2>1, <2>2 DEF Queue
  <1>9. CASE Unqueue(t)
    <2>1. PICK n \in 1..Len(anyWaiters[o]) : anyWaiters' = [anyWaiters EXCEPT ![o] = RemoveNth(@, n)]
      BY <1>9 DEF Unqueue
    <2>2. QueueType' /\ Counted' /\ waiters' \in [Objs -> Nat]
      BY <1>2, <1>9, <2>1, AnyUnqueued DEF Unqueue
    <2>3. ObjType' /\ MutexOK'
      BY <1>9, <2>2, Frame DEF Unqueue, ObjType, private
    <2> QED
      BY <1>3, <1>4, <1>9, <2>2, <2>3 DEF Unqueue
  <1>10. CASE CheckObj(t)
    <2>1. ObjType' /\ MutexOK'
      BY <1>10, Frame DEF CheckObj, objvars
    <2> QED
      BY <1>2, <1>3, <1>5, <1>7, <1>10, <2>1 DEF CheckObj, objvars, word
  <1>11. CASE SemRelease(t)
    <2>1. call[t].n \in Nat
      BY <1>2, CallType
    <2>2. ObjType' /\ MutexOK'
      <3>1. UNCHANGED <<waiters, hold, waitAll, private>>
        BY <1>11 DEF SemRelease
      <3>2. PICK n \in Nat : count' = count \/ count' = [count EXCEPT ![o] = @ + n]
        <4>1. \A n \in {0, call[t].n} : n \in Nat
          BY <2>1
        <4>2. \E n \in {0, call[t].n} : count' = count \/ count' = [count EXCEPT ![o] = @ + n]
          BY <1>11 DEF SemRelease
        <4> QED BY <4>1, <4>2
      <3>3. count \in [Objs -> Nat]
        BY DEF ObjType
      <3>4. count' \in [Objs -> Nat]
        <4>1. count[o] + n \in Nat
          BY <1>2, <3>2, <3>3
        <4> QED BY <1>2, <3>2, <3>3, <4>1
      <3> QED
        BY <3>1, <3>4 DEF ObjType, MutexOK, private
    <2> QED
      BY <1>3, <1>4, <1>6, <1>7, <1>11, <2>2 DEF SemRelease
  <1>12. CASE MutexUnlock(t)
    <2>1. mowner[o] = call[t].owner => mcount[o] - 1 \in Nat
      <3>1. call[t].fn = "unlock"
        BY <1>1, <1>12 DEF MutexUnlock, InBody, LocalInv, LocalOK
      <3>2. call[t].owner # NoOne
        BY <1>2, <3>1, CallAssumption
      <3> QED BY <1>2, <3>2 DEF MutexOK, ObjType
    <2>2. ObjType' /\ MutexOK'
      <3>1. CASE UNCHANGED <<mcount, mowner>>
        BY <1>12, <3>1 DEF MutexUnlock, ObjType, MutexOK, word
      <3>2. CASE /\ mcount[o] - 1 \in Nat
                 /\ mcount' = [mcount EXCEPT ![o] = @ - 1]
                 /\ mowner' = [mowner EXCEPT ![o] = IF mcount[o] = 1 THEN NoOne ELSE @]
        <4>1. ObjType'
          BY <1>2, <1>12, <3>2 DEF MutexUnlock, ObjType, word
        <4>2. mcount[o] # 1 => mcount[o] - 1 > 0
          BY <1>2, <3>2 DEF ObjType
        <4> QED BY <1>2, <3>2, <4>1, <4>2 DEF ObjType, MutexOK
      <3> QED BY <1>12, <2>1, <3>1, <3>2 DEF MutexUnlock
    <2> QED
      BY <1>3, <1>4, <1>6, <1>7, <1>12, <2>2 DEF MutexUnlock, word
  <1>13. CASE MutexKill(t)
    <2>1. ObjType' /\ MutexOK'
      <3>1. CASE UNCHANGED <<mcount, mowner, mdead>>
        BY <1>13, <3>1 DEF MutexKill, ObjType, MutexOK, word
      <3>2. CASE /\ mdead' = [mdead EXCEPT ![o] = TRUE]
                 /\ mowner' = [mowner EXCEPT ![o] = NoOne]
                 /\ mcount' = [mcount EXCEPT ![o] = 0]
        <4>1. ObjType'
          BY <1>2, <1>13, <3>2 DEF MutexKill, ObjType, word
        <4> QED BY <1>2, <3>2, <4>1 DEF ObjType, MutexOK
      <3> QED BY <1>13, <3>1, <3>2 DEF MutexKill
    <2> QED
      BY <1>3, <1>4, <1>6, <1>7, <1>13, <2>1 DEF MutexKill, word
  <1>14. CASE EventSet(t)
    <2>1. ObjType' /\ MutexOK'
      BY <1>2, <1>14 DEF EventSet, ObjType, MutexOK, word
    <2> QED
      BY <1>3, <1>6, <1>7, <1>14, <2>1 DEF EventSet, word
  <1>15. CASE EventReset(t)
    <2>1. ObjType' /\ MutexOK'
      BY <1>2, <1>15 DEF EventReset, ObjType, MutexOK, word
    <2> QED
      BY <1>3, <1>4, <1>7, <1>15, <2>1 DEF EventReset, word
  <1> QED
    BY <1>8, <1>9, <1>10, <1>11, <1>12, <1>13, <1>14, <1>15

\* try_wake_any_sem, try_wake_any_mutex and try_wake_any_event.
LEMMA ScanTypeInv ==
  ASSUME TypeInv, NEW t \in Threads,
         \/ SemTakeHold(t) \/ SemClaim(t) \/ SemHoldDone(t) \/ SemGiveBack(t)
         \/ MutexScan(t) \/ EventScan(t) \/ ScanEnd(t)
  PROVE  TypeInv'
  <1> USE DEF TypeInv
  <1> DEFINE o == cur[t]
             e == Head(todo[t])
             rest == Tail(todo[t])
  <1>1. pc[t] \in {"scan", "loan", "placed"} /\ UNCHANGED <<lockvars, waiters, queuevars>>
    BY DEF SemTakeHold, SemClaim, SemHoldDone, SemGiveBack, MutexScan, EventScan, ScanEnd,
           Scanning, objvars, word
  <1>2. o \in Objs
    BY <1>1, CurObj
  <1>3. LockType' /\ QueueType' /\ Counted'
    BY <1>1, Frame
  <1>4. todo[t] \in Seq(Entry) /\ <<>> \in Seq(Entry)
    BY DEF LocalInv, LocalType
  <1>5. todo[t] # <<>> => e \in Entry /\ rest \in Seq(Entry)
    BY <1>4
  <1>6. todo[t] # <<>> => e.task \in Threads /\ e.index \in Int
    BY <1>5 DEF Entry
  <1>7. ASSUME NEW l \in {"scan", "loan", "unlock"}, Goto(t, l) PROVE LocalInv'
    BY <1>1, <1>7, GotoInv DEF PCs, Looping, Trying
  <1>8. ASSUME NEW l \in {"scan", "loan", "placed"}, NEW s \in Seq(Entry), GotoList(t, l, s) PROVE LocalInv'
    BY <1>1, <1>8, GotoListInv DEF PCs, Looping, Trying
  <1>9. ASSUME todo[t] # <<>>, Claim(e) \/ UNCHANGED signaled, UNCHANGED ownerdead PROVE QType'
    BY <1>6, <1>9 DEF Claim, QType
  <1>10. CASE SemTakeHold(t)
    <2>1. count[o] # 0 => count[o] - 1 \in Nat
      BY <1>2 DEF ObjType
    <2>2. ObjType' /\ MutexOK'
      BY <1>2, <1>10, <2>1, Frame DEF SemTakeHold, ObjType, private
    <2>3. LocalInv'
      BY <1>4, <1>7, <1>8, <1>10 DEF SemTakeHold
    <2> QED
      BY <1>3, <1>10, <2>2, <2>3, Frame DEF SemTakeHold
  <1>11. CASE SemClaim(t)
    <2>1. ObjType' /\ MutexOK'
      BY <1>11, Frame DEF SemClaim, objvars
    <2>2. LocalInv'
      BY <1>5, <1>8, <1>11 DEF SemClaim
    <2>3. QType'
      BY <1>9, <1>11 DEF SemClaim
    <2> QED
      BY <1>3, <2>1, <2>2, <2>3
  <1>12. CASE SemHoldDone(t)
    <2>1. ObjType' /\ MutexOK'
      BY <1>2, <1>12, Frame DEF SemHoldDone, ObjType, private
    <2> QED
      BY <1>3, <1>7, <1>12, <2>1, Frame DEF SemHoldDone
  <1>13. CASE SemGiveBack(t)
    <2>1. ObjType' /\ MutexOK'
      BY <1>2, <1>13, Frame DEF SemGiveBack, ObjType, private
    <2> QED
      BY <1>3, <1>7, <1>13, <2>1, Frame DEF SemGiveBack
  <1>14. CASE MutexScan(t)
    <2>1. todo[t] # <<>> /\ UNCHANGED <<word, event>>
      BY <1>14 DEF MutexScan, Scanning
    <2>2. LocalInv'
      BY <1>4, <1>5, <1>8, <1>14, <2>1 DEF MutexScan
    <2>3. CASE UNCHANGED <<mcount, mowner, mdead, qvars>>
      BY <1>3, <2>1, <2>2, <2>3, Frame DEF objvars, private
    <2>4. CASE /\ Claim(e)
               /\ ownerdead' = [ownerdead EXCEPT ![e.task] = @ \/ mdead[o]]
               /\ mdead' = [mdead EXCEPT ![o] = FALSE]
               /\ mcount' = [mcount EXCEPT ![o] = @ + 1]
               /\ mowner' = [mowner EXCEPT ![o] = e.task]
      <3>1. ObjType'
        BY <1>2, <1>6, <2>1, <2>4 DEF ObjType, word
      <3>2. MutexOK'
        BY <1>2, <1>6, <2>1, <2>4 DEF ObjType, MutexOK
      <3>3. QType'
        BY <1>2, <1>6, <2>1, <2>4 DEF QType, Claim, ObjType
      <3> QED BY <1>3, <2>2, <3>1, <3>2, <3>3
    <2> QED
      BY <1>14, <2>3, <2>4 DEF MutexScan
  <1>15. CASE EventScan(t)
    <2>1. todo[t] # <<>>
      BY <1>15 DEF EventScan, Scanning
    <2>2. LocalInv'
      BY <1>4, <1>5, <1>8, <1>15, <2>1 DEF EventScan
    <2>3. Manual[o] \in BOOLEAN
      BY <1>2, ConstAssumption
    <2>4. ObjType' /\ MutexOK'
      BY <1>2, <1>15, <2>3 DEF EventScan, ObjType, MutexOK, word
    <2>5. QType'
      BY <1>9, <1>15, <2>1 DEF EventScan
    <2> QED
      BY <1>3, <2>2, <2>4, <2>5
  <1>16. CASE ScanEnd(t)
    <2>1. ObjType' /\ MutexOK'
      BY <1>2, <1>16 DEF ScanEnd, ObjType, MutexOK, word
    <2> QED
      BY <1>3, <1>7, <1>16, <2>1, Frame DEF ScanEnd
  <1> QED
    BY <1>10, <1>11, <1>12, <1>13, <1>14, <1>15, <1>16

\* try_wake_all_obj and try_wake_all.
LEMMA WakeAllTypeInv ==
  ASSUME TypeInv, NEW t \in Threads,
         WakeAllNext(t) \/ WakeAllLock(t) \/ WakeAllTry(t) \/ WakeAllCommit(t) \/ WakeAllUnlock(t)
  PROVE  TypeInv'
  <1> USE DEF TypeInv
  <1>1. pc[t] \in {"wake_all"} \cup Trying /\ UNCHANGED <<waiters, queuevars>>
    BY DEF WakeAllNext, WakeAllLock, WakeAllTry, WakeAllCommit, WakeAllUnlock, Trying, objvars, word
  <1>2. pc[t] \notin {"idle", "dead"}
    BY <1>1 DEF Trying
  <1>3. QueueType' /\ Counted'
    BY <1>1, Frame
  <1>4. cur[t] \in Objs /\ anyWaiters[cur[t]] \in Seq(Entry) /\ call[t] \in Calls[t]
    BY <1>2, CurObj
  <1>5. pc[t] \in Trying => target[t] \in Threads
    BY DEF LocalInv, LocalOK
  <1>6. i[t] \in Nat \ {0}
    BY DEF LocalInv, LocalType
  <1>7. CASE WakeAllNext(t)
    <2>1. ObjType' /\ MutexOK' /\ LockType' /\ QType'
      BY <1>7, Frame DEF WakeAllNext, objvars
    <2>2. CASE GotoList(t, "scan", anyWaiters[cur[t]])
      BY <1>2, <1>3, <1>4, <2>1, <2>2, GotoListInv DEF PCs, Looping, Trying
    <2>3. CASE todo[t] # <<>>
      <3>1. todo[t] \in Seq(Entry)
        BY DEF LocalInv, LocalType
      <3>2. Head(todo[t]) \in Entry /\ Tail(todo[t]) \in Seq(Entry)
        BY <2>3, <3>1
      <3>3. Head(todo[t]).task \in Threads
        BY <3>2 DEF Entry
      <3>4. LocalInv'
        <4>1. /\ pc' = [pc EXCEPT ![t] = "wa_lock"]
              /\ target' = [target EXCEPT ![t] = Head(todo[t]).task]
              /\ todo' = [todo EXCEPT ![t] = Tail(@)]
              /\ i' = [i EXCEPT ![t] = 1]
              /\ UNCHANGED <<call, stage, cur>>
          BY <1>7, <2>3 DEF WakeAllNext
        <4>2. LocalType'
          BY <3>2, <3>3, <4>1 DEF LocalInv, LocalType, PCs
        <4>3. LocalOK(t)'
          BY <1>2, <3>3, <4>1 DEF LocalInv, LocalType, LocalOK, Looping
        <4>4. \A u \in Threads : u # t => LocalOK(u)'
          BY <4>1 DEF LocalInv, LocalType, LocalOK
        <4> QED BY <4>2, <4>3, <4>4 DEF LocalInv
      <3> QED BY <1>3, <2>1, <3>4
    <2> QED BY <1>7, <2>2, <2>3 DEF WakeAllNext
  <1>8. CASE WakeAllLock(t)
    <2>1. ObjType' /\ MutexOK' /\ QType'
      BY <1>8, Frame DEF WakeAllLock, objvars
    <2>2. LockType'
      BY <1>8 DEF WakeAllLock, LockType
    <2>3. LocalInv'
      <3>1. i[t] + 1 \in Nat \ {0}
        BY <1>6
      <3> QED
        BY <1>1, <1>2, <1>8, <3>1, GotoIndexInv DEF WakeAllLock, PCs, Looping, Trying
    <2> QED BY <1>3, <2>1, <2>2, <2>3
  <1>9. CASE WakeAllTry(t)
    <2>1. ObjType' /\ MutexOK' /\ LockType'
      BY <1>9, Frame DEF WakeAllTry, objvars
    <2>2. QType'
      BY <1>5, <1>9 DEF WakeAllTry, QType, Trying
    <2>3. LocalInv'
      BY <1>2, <1>9, GotoInv DEF WakeAllTry, PCs, Looping, Trying
    <2> QED BY <1>3, <2>1, <2>2, <2>3
  <1>10. CASE WakeAllCommit(t)
    <2>1. target[t] \in Threads
      BY <1>5, <1>10 DEF WakeAllCommit, Trying
    <2>2. /\ count' \in [Objs -> Nat]
      <3>1. \A o \in Objs : count[o] \in Nat /\ (count[o] > 0 => count[o] - 1 \in Nat)
        BY DEF ObjType
      <3> QED BY <1>10, <3>1 DEF WakeAllCommit
    <2>3. mcount' \in [Objs -> Nat] /\ mowner' \in [Objs -> Threads \cup {NoOne}]
      BY <1>10, <2>1 DEF WakeAllCommit, ObjType
    <2>4. mdead' \in [Objs -> BOOLEAN] /\ event' \in [Objs -> BOOLEAN]
      BY <1>10 DEF WakeAllCommit
    <2>5. ObjType'
      BY <1>10, <2>2, <2>3, <2>4 DEF WakeAllCommit, ObjType
    <2>6. MutexOK'
      BY <1>10 DEF WakeAllCommit, ObjType, MutexOK
    <2>7. QType'
      BY <1>10, <2>1 DEF WakeAllCommit, QType
    <2>8. LocalInv'
      BY <1>2, <1>10, GotoInv DEF WakeAllCommit, PCs, Looping, Trying
    <2> QED BY <1>3, <1>10, <2>5, <2>6, <2>7, <2>8, Frame DEF WakeAllCommit
  <1>11. CASE WakeAllUnlock(t)
    <2>1. ObjType' /\ MutexOK' /\ QType'
      BY <1>11, Frame DEF WakeAllUnlock, objvars
    <2>2. LockType'
      BY <1>11 DEF WakeAllUnlock, LockType
    <2>3. LocalInv'
      <3>1. Len(call[t].objs) + 1 \in Nat \ {0}
        BY <1>4, CallType
      <3>2. CASE GotoIndex(t, "check", Len(call[t].objs) + 1)
        BY <1>2, <3>1, <3>2, GotoIndexInv DEF PCs, Looping, Trying
      <3>3. CASE Goto(t, "wake_all")
        BY <1>2, <3>3, GotoInv DEF PCs, Looping, Trying
      <3> QED BY <1>11, <3>2, <3>3 DEF WakeAllUnlock
    <2> QED BY <1>3, <2>1, <2>2, <2>3
  <1> QED
    BY <1>7, <1>8, <1>9, <1>10, <1>11

\* ntsync_wait_any and ntsync_wait_all around the locked sections.
LEMMA WaitTypeInv ==
  ASSUME TypeInv, NEW t \in Threads,
         \/ Check(t) \/ LeaveSleep(t) \/ Return(t) \/ AllMutex(t)
         \/ AllQueue(t) \/ AllFlag(t) \/ AllAdd(t) \/ AllQueued(t)
         \/ AllUnqueue(t) \/ AllUnhint(t) \/ AllClear(t) \/ AllUnqueued(t)
  PROVE  TypeInv'
  <1> USE DEF TypeInv
  <1>1. pc[t] \in {"check", "sleep", "return", "all_mutex", "all_leave", "all_queue", "all_flag", "all_add",
                   "all_unqueue", "all_hint", "all_clear"}
    BY DEF Check, LeaveSleep, Return, AllMutex, AllQueue, AllFlag, AllAdd, AllQueued,
           AllUnqueue, AllUnhint, AllClear, AllUnqueued
  <1>2. cur[t] \in Objs /\ call[t] \in Calls[t]
    BY <1>1, CurObj
  <1>3. /\ Len(Entries(call[t])) \in Nat /\ Len(Entries(call[t])) > 0 /\ Len(call[t].objs) \in Nat
        /\ i[t] \in Nat \ {0}
    BY <1>2, CallType DEF LocalInv, LocalType
  <1>4. ASSUME NEW l \in {"sleep", "all_leave", "setup", "return"}, Goto(t, l) PROVE LocalInv'
    BY <1>1, <1>4, GotoInv DEF PCs, Looping, Trying
  <1>5. ASSUME NEW l \in {"all_queue", "all_unqueue"}, NEW k \in {1, i[t] + 1}, GotoIndex(t, l, k)
        PROVE  LocalInv'
    <2>1. k \in Nat \ {0}
      BY <1>3
    <2> QED BY <1>1, <1>5, <2>1, GotoIndexInv DEF PCs, Looping, Trying
  <1>6. ASSUME NEW s \in {"check", "unqueue"}, NEW k \in 1..Len(Entries(call[t])), LockFor(t, s, k)
        PROVE  LocalInv'
    BY <1>1, <1>6, LockForInv
  <1>7. CASE Check(t)
    <2>1. LocalInv'
      <3>1. CASE Goto(t, "sleep") BY <1>4, <3>1
      <3>2. CASE i[t] <= Len(Entries(call[t])) /\ LockFor(t, "check", i[t])
        <4>1. i[t] \in 1..Len(Entries(call[t])) BY <1>3, <3>2
        <4> QED BY <1>6, <3>2, <4>1
      <3> QED BY <1>3, <1>7, <3>1, <3>2 DEF Check
    <2> QED BY <1>7, <2>1, Frame DEF Check, objvars, word
  <1>8. CASE LeaveSleep(t)
    <2>1. LocalInv'
      <3>1. 1 \in 1..Len(Entries(call[t])) BY <1>3
      <3> QED BY <1>4, <1>6, <1>8, <3>1 DEF LeaveSleep
    <2> QED BY <1>8, <2>1, Frame DEF LeaveSleep, objvars, word
  <1>9. CASE Return(t)
    <2>1. LocalInv'
      BY <1>4, <1>9, LeaveInv DEF Return, Finish
    <2>2. QType'
      BY <1>9 DEF Return, QType
    <2> QED BY <1>9, <2>1, <2>2, Frame DEF Return, objvars, word
  <1>10. CASE AllMutex(t)
    <2>1. LocalInv'
      BY <1>5, <1>10 DEF AllMutex
    <2>2. LockType'
      BY <1>10 DEF AllMutex, LockType
    <2> QED BY <1>10, <2>1, <2>2, Frame DEF AllMutex, objvars, word
  <1>11. CASE AllQueue(t) \/ AllUnqueue(t)
    <2>1. i[t] <= Len(call[t].objs) /\ i[t] \in 1..Len(call[t].objs)
      BY <1>3, <1>11 DEF AllQueue, AllUnqueue
    <2>2. Here(t) \in Objs
      BY <1>2, <2>1, CallType DEF Here
    <2>3. LocalInv'
      <3>1. PICK l \in {"all_flag", "all_add", "all_hint"} : Goto(t, l)
        BY <1>11 DEF AllQueue, AllUnqueue
      <3>2. l \in PCs /\ l \notin Trying /\ l # "idle"
        BY DEF PCs, Trying
      <3> QED BY <1>1, <2>1, <3>1, <3>2, GotoLoopInv
    <2>4. CASE AllQueue(t)
      <3>1. QueueType'
        <4>1. allHint[Here(t)] + 1 \in Int
          BY <2>2 DEF QueueType
        <4> QED BY <2>2, <2>4, <4>1 DEF AllQueue, QueueType
      <3>2. Counted'
        BY <2>4 DEF AllQueue, Counted, objvars, word
      <3> QED BY <2>3, <2>4, <3>1, <3>2, Frame DEF AllQueue, objvars
    <2>5. CASE AllUnqueue(t)
      <3>1. PICK o \in Objs : o = Here(t)
        BY <2>2
      <3>2. PICK n \in 1..Len(allWaiters[o]) : allWaiters' = [allWaiters EXCEPT ![o] = RemoveNth(@, n)]
        BY <2>5, <3>1 DEF AllUnqueue
      <3>3. QueueType' /\ Counted' /\ waiters' \in [Objs -> Nat]
        BY <2>5, <3>1, <3>2, WaitAllUnqueued DEF AllUnqueue
      <3>4. ObjType' /\ MutexOK'
        BY <2>5, <3>3, Frame DEF AllUnqueue, ObjType, private
      <3> QED BY <2>3, <2>5, <3>3, <3>4, Frame DEF AllUnqueue
    <2> QED BY <1>11, <2>4, <2>5
  <1>12. CASE AllQueued(t)
    <2> DEFINE a == call[t].alert
    <2>1. LocalInv'
      <3>1. LocalType'
        BY <1>12 DEF AllQueued, LocalInv, LocalType, PCs
      <3>2. LocalOK(t)'
        BY <1>1, <1>12 DEF AllQueued, LocalInv, LocalType, LocalOK, Looping
      <3>3. \A u \in Threads : u # t => LocalOK(u)'
        BY <1>12 DEF AllQueued, LocalInv, LocalType, LocalOK
      <3> QED BY <3>1, <3>2, <3>3 DEF LocalInv
    <2>2. QueueType' /\ Counted' /\ waiters' \in [Objs -> Nat]
      <3>1. CASE a = NoOne
        <4>1. UNCHANGED <<waiters, queuevars>>
          BY <1>12, <3>1 DEF AllQueued, queuevars
        <4> QED BY <4>1, Frame DEF ObjType
      <3>2. CASE a # NoOne
        <4>1. a \in Objs BY <1>2, <3>2, CallType
        <4> QED BY <1>12, <3>2, <4>1, MyEntryType, AnyQueued DEF AllQueued
      <3> QED BY <3>1, <3>2
    <2>3. ObjType' /\ MutexOK'
      BY <1>12, <2>2, Frame DEF AllQueued, ObjType, private
    <2> QED BY <1>12, <2>1, <2>2, <2>3, Frame DEF AllQueued
  <1>13. CASE AllFlag(t) \/ AllAdd(t) \/ AllUnhint(t) \/ AllClear(t)
    <2>1. pc[t] \in Looping
      BY <1>13 DEF AllFlag, AllAdd, AllUnhint, AllClear, Looping
    <2>2. PICK o \in Objs : o = Here(t)
      BY <2>1, LoopingObj
    <2>3. ASSUME NEW l \in {"all_add", "all_clear"}, Goto(t, l) PROVE LocalInv'
      BY <1>1, <2>1, <2>3, GotoInv DEF PCs, Looping, Trying
    <2>4. CASE AllFlag(t) \/ AllClear(t)
      <3>1. LocalInv' /\ UNCHANGED <<waiters, private, lockvars, queuevars, qvars>>
        BY <1>5, <2>3, <2>4 DEF AllFlag, AllClear
      <3>2. ObjType'
        <4>1. waitAll' \in [Objs -> BOOLEAN]
          BY <2>2, <2>4 DEF AllFlag, AllClear, ObjType
        <4> QED BY <2>4, <4>1 DEF AllFlag, AllClear, ObjType, private
      <3> QED BY <3>1, <3>2, Frame
    <2>5. CASE AllAdd(t)
      <3>1. QueueType' /\ Counted' /\ waiters' \in [Objs -> Nat]
        BY <2>2, <2>5, MyEntryType, WaitAllQueued DEF AllAdd
      <3>2. ObjType' /\ MutexOK'
        BY <2>5, <3>1, Frame DEF AllAdd, ObjType, private
      <3> QED BY <1>5, <2>5, <3>1, <3>2, Frame DEF AllAdd
    <2>6. CASE AllUnhint(t)
      <3>1. LocalInv'
        BY <1>5, <2>3, <2>6 DEF AllUnhint
      <3>2. QueueType'
        <4>1. allHint[Here(t)] - 1 \in Int
          BY <2>2 DEF QueueType
        <4> QED BY <2>2, <2>6, <4>1 DEF AllUnhint, QueueType
      <3>3. Counted'
        BY <2>6 DEF AllUnhint, Counted, objvars, word
      <3> QED BY <2>6, <3>1, <3>2, <3>3, Frame DEF AllUnhint, objvars
    <2> QED BY <1>13, <2>4, <2>5, <2>6
  <1>14. CASE AllUnqueued(t)
    <2>1. LocalInv'
      <3>1. CASE Goto(t, "return") BY <1>4, <3>1
      <3>2. CASE call[t].alert # NoOne /\ LockFor(t, "unqueue", Len(call[t].objs) + 1)
        <4>1. Len(Entries(call[t])) = Len(call[t].objs) + 1
          BY <1>2, <3>2, CallType
        <4>2. Len(call[t].objs) + 1 >= 1
          BY <1>3
        <4>3. Len(call[t].objs) + 1 \in 1..Len(Entries(call[t]))
          BY <1>3, <4>1, <4>2
        <4> QED BY <1>6, <3>2, <4>3
      <3> QED BY <1>14, <3>1, <3>2 DEF AllUnqueued
    <2>2. LockType'
      BY <1>14 DEF AllUnqueued, LockType
    <2> QED BY <1>14, <2>1, <2>2, Frame DEF AllUnqueued, objvars, word
  <1> QED
    BY <1>7, <1>8, <1>9, <1>10, <1>11, <1>12, <1>13, <1>14

LEMMA NextTypeInv == TypeInv /\ [Next]_vars => TypeInv'
  <1> SUFFICES ASSUME TypeInv, [Next]_vars PROVE TypeInv'
    OBVIOUS
  <1>1. CASE UNCHANGED vars
    <2>1. ObjType' /\ LockType' /\ QueueType' /\ QType' /\ MutexOK' /\ Counted'
      BY <1>1, Frame DEF vars, objvars, word
    <2>2. LocalInv'
      BY <1>1 DEF vars, locals, TypeInv, LocalInv, LocalType, LocalOK
    <2> QED BY <2>1, <2>2 DEF TypeInv
  <1>2. CASE Next
    <2> PICK t \in Threads : Begin(t) \/ Die(t) \/ Interrupt(t) \/ Userspace(t) \/ Driver(t)
      BY <1>2 DEF Next
    <2> QED
      BY UserspaceTypeInv, LockingTypeInv, SectionTypeInv, ScanTypeInv, WakeAllTypeInv, WaitTypeInv
         DEF Interrupt, Driver, WakeUp, TimeOut
  <1> QED
    BY <1>1, <1>2

-----------------------------------------------------------------------------
LEMMA AlwaysTypeInv == Spec => []TypeInv
  BY InitTypeInv, NextTypeInv, PTL DEF Spec

-----------------------------------------------------------------------------
(* The inductive invariant, second part: the two-level object lock.        *)

\* A thread in a section has been let in by obj->lock or, when it holds
\* wait_all_lock, by dev_locked; the two never let threads in together.
AllSteps == {"all_queue", "all_flag", "all_add", "all_unqueue", "all_hint", "all_clear"}
UnderAll == {"dev_lock", "wake_all"} \cup AllSteps \cup Trying
SectionOK(t) ==
    /\ InSection(t) => IF allLock = t THEN devLocked[cur[t]] ELSE lock[cur[t]] = t
    /\ pc[t] \in UnderAll => allLock = t
    /\ allLock = t => pc[t] \in UnderAll \/ InSection(t)
OneWayIn == \A o \in Objs : lock[o] # NoOne => ~devLocked[o]
LockInv == OneWayIn /\ \A t \in Threads : SectionOK(t)

LEMMA LockInvExclusion == TypeInv /\ LockInv => SectionExclusion
  <1> SUFFICES ASSUME TypeInv, LockInv, NEW t \in Threads, NEW u \in Threads,
                      InSection(t), InSection(u), cur[t] = cur[u]
               PROVE  t = u
    BY DEF SectionExclusion
  <1>1. cur[t] \in Objs
    BY CurObj DEF InSection, Trying
  <1>2. t # NoOne /\ u # NoOne
    BY ConstAssumption
  <1> QED
    BY <1>1, <1>2 DEF LockInv, OneWayIn, SectionOK

\* Where the other threads are.
OthersStay(t) == \A u \in Threads : u # t => /\ pc'[u] = pc[u] /\ cur'[u] = cur[u]
                                             /\ target'[u] = target[u]
                                             /\ call'[u] = call[u] /\ i'[u] = i[u]
                                             /\ stage'[u] = stage[u] /\ todo'[u] = todo[u]

LEMMA Moves ==
  ASSUME TypeInv, NEW t \in Threads
  PROVE  /\ \A l : Goto(t, l) => /\ OthersStay(t) /\ pc'[t] = l
                                 /\ cur'[t] = cur[t] /\ target'[t] = target[t]
         /\ \A l, k : GotoIndex(t, l, k) => /\ OthersStay(t) /\ pc'[t] = l
                                            /\ cur'[t] = cur[t] /\ target'[t] = target[t]
         /\ \A l, s : GotoList(t, l, s) => /\ OthersStay(t) /\ pc'[t] = l
                                           /\ cur'[t] = cur[t] /\ target'[t] = target[t]
         /\ \A s, k : LockFor(t, s, k) => OthersStay(t) /\ pc'[t] = "lock"
         /\ \A l : Leave(t, l) => OthersStay(t) /\ pc'[t] = l
  BY DEF TypeInv, LocalInv, LocalType, Goto, GotoIndex, GotoList, LockFor, Leave, OthersStay, locals

LEMMA WakeAllNextMoves ==
  ASSUME TypeInv, NEW t \in Threads, WakeAllNext(t)
  PROVE  OthersStay(t) /\ pc'[t] \in {"scan", "wa_lock"}
  <1>1. CASE todo[t] = <<>>
    BY <1>1, Moves DEF WakeAllNext
  <1>2. CASE todo[t] # <<>>
    BY <1>2 DEF WakeAllNext, OthersStay, TypeInv, LocalInv, LocalType
  <1> QED
    BY <1>1, <1>2

\* A thread that neither is in a section nor comes into one.
Outside(t) == pc[t] \notin UnderAll /\ ~InSection(t)

LEMMA OutsideLockInv ==
  ASSUME TypeInv, LockInv, NEW t \in Threads, OthersStay(t), UNCHANGED lockvars, Outside(t), Outside(t)'
  PROVE  LockInv'
  BY DEF LockInv, OneWayIn, SectionOK, OthersStay, lockvars, Outside, InSection

\* A thread that stays in its section, and holds wait_all_lock if it has to.
LEMMA InsideLockInv ==
  ASSUME TypeInv, LockInv, NEW t \in Threads, OthersStay(t), UNCHANGED lockvars,
         InSection(t), InSection(t)', cur'[t] = cur[t], pc'[t] \in UnderAll => allLock = t
  PROVE  LockInv'
  BY DEF LockInv, OneWayIn, SectionOK, OthersStay, lockvars, InSection

\* The steps that are taken without a lock ...
Free == {"idle", "dead", "fast_release", "fast_wake", "walk", "spin", "spin_take", "setup",
         "lock", "check", "sleep", "return", "all_mutex", "all_leave"}

LEMMA FreeStep ==
  ASSUME TypeInv, NEW t \in Threads,
         Begin(t) \/ Die(t) \/ Userspace(t) \/ Check(t) \/ LeaveSleep(t) \/ Return(t)
  PROVE  /\ OthersStay(t) /\ pc[t] \in Free /\ pc'[t] \in Free
         /\ UNCHANGED <<waiters, hold, waitAll, lockvars, queuevars>>
  <1> USE DEF Free
  <1>1. pc[t] \in Free /\ UNCHANGED <<lockvars, queuevars>>
    BY DEF Begin, Die, Userspace, FastReleaseDeclined, FastRelease, FastWake, Walk, SpinPeek, SpinTake,
           Setup, Check, LeaveSleep, Return
  <1>2. OthersStay(t) /\ pc'[t] \in Free
    <2>1. CASE Begin(t)
      BY <2>1 DEF Begin, FirstStep, OthersStay, TypeInv, LocalInv, LocalType
    <2>2. CASE FastWake(t)
      BY <2>2 DEF FastWake, OthersStay, TypeInv, LocalInv, LocalType
    <2>3. ASSUME FastTake(t, Here(t)) PROVE OthersStay(t) /\ pc'[t] \in Free
      BY <2>3, Moves DEF FastTake, Finish
    <2>4. ASSUME SpinNext(t) PROVE OthersStay(t) /\ pc'[t] \in Free
      BY <2>4, Moves DEF SpinNext
    <2>5. CASE Walk(t)
      BY <2>3, <2>5, Moves DEF Walk
    <2>6. CASE SpinPeek(t)
      BY <2>4, <2>6, Moves DEF SpinPeek
    <2>7. CASE SpinTake(t)
      BY <2>3, <2>4, <2>7 DEF SpinTake
    <2>8. CASE Die(t) \/ FastReleaseDeclined(t) \/ FastRelease(t)
      BY <2>8, Moves DEF Die, FastReleaseDeclined, FastRelease, Finish
    <2>9. CASE Setup(t) \/ Check(t) \/ LeaveSleep(t) \/ Return(t)
      BY <2>9, Moves DEF Setup, Check, LeaveSleep, Return, Finish
    <2> QED
      BY <2>1, <2>2, <2>5, <2>6, <2>7, <2>8, <2>9 DEF Userspace
  <1>3. UNCHANGED <<waiters, hold, waitAll>>
    BY DEF Begin, Die, Userspace, FastReleaseDeclined, FastRelease, FastWake, Walk, SpinPeek, SpinTake,
           FastTake, Setup, Check, LeaveSleep, Return, objvars, word
  <1> QED
    BY <1>1, <1>2, <1>3

LEMMA FreeLockInv ==
  ASSUME TypeInv, LockInv, NEW t \in Threads,
         Begin(t) \/ Die(t) \/ Userspace(t) \/ Check(t) \/ LeaveSleep(t) \/ Return(t)
  PROVE  LockInv'
  <1>1. OthersStay(t) /\ pc[t] \in Free /\ pc'[t] \in Free /\ UNCHANGED lockvars
    BY FreeStep
  <1>2. Outside(t) /\ Outside(t)'
    BY <1>1 DEF Free, Outside, UnderAll, AllSteps, Trying, InSection
  <1> QED
    BY <1>1, <1>2, OutsideLockInv

\* ... and those inside a section.
Within == {"body", "unlock", "scan", "loan", "placed"}

LEMMA SectionStep ==
  ASSUME TypeInv, NEW t \in Threads,
         \/ Queue(t) \/ Unqueue(t) \/ CheckObj(t) \/ SemRelease(t)
         \/ MutexUnlock(t) \/ MutexKill(t) \/ EventSet(t) \/ EventReset(t)
         \/ SemTakeHold(t) \/ SemClaim(t) \/ SemHoldDone(t) \/ SemGiveBack(t)
         \/ MutexScan(t) \/ EventScan(t) \/ ScanEnd(t)
  PROVE  /\ OthersStay(t) /\ cur'[t] = cur[t] /\ pc[t] \in Within
         /\ pc'[t] \in Within \/ (pc'[t] = "wake_all" /\ allLock = t)
         /\ UNCHANGED <<waitAll, lockvars, allHint, allWaiters>>
  <1> USE DEF Within
  <1>1. pc[t] \in Within /\ UNCHANGED <<waitAll, lockvars, allHint, allWaiters>>
    BY DEF Queue, Unqueue, CheckObj, SemRelease, MutexUnlock, MutexKill, EventSet, EventReset, InBody,
           SemTakeHold, SemClaim, SemHoldDone, SemGiveBack, MutexScan, EventScan, ScanEnd, Scanning,
           objvars, word, queuevars
  <1>2. /\ OthersStay(t) /\ cur'[t] = cur[t]
        /\ pc'[t] \in Within \/ (pc'[t] = "wake_all" /\ allLock = t)
    <2>1. CASE Queue(t) \/ Unqueue(t) \/ CheckObj(t) \/ EventReset(t)
      BY <2>1, Moves DEF Queue, Unqueue, CheckObj, EventReset
    <2>2. ASSUME WakeAfter(t)
          PROVE  OthersStay(t) /\ cur'[t] = cur[t] /\ (pc'[t] = "scan" \/ (pc'[t] = "wake_all" /\ allLock = t))
      BY <2>2, Moves DEF WakeAfter, All
    <2>3. CASE SemRelease(t) \/ MutexUnlock(t) \/ MutexKill(t) \/ EventSet(t)
      BY <2>2, <2>3, Moves DEF SemRelease, MutexUnlock, MutexKill, EventSet
    <2>4. CASE SemTakeHold(t) \/ SemClaim(t) \/ SemHoldDone(t) \/ SemGiveBack(t)
      BY <2>4, Moves DEF SemTakeHold, SemClaim, SemHoldDone, SemGiveBack
    <2>5. CASE MutexScan(t) \/ EventScan(t) \/ ScanEnd(t)
      BY <2>5, Moves DEF MutexScan, EventScan, ScanEnd
    <2> QED
      BY <2>1, <2>3, <2>4, <2>5
  <1> QED
    BY <1>1, <1>2

LEMMA SectionLockInv ==
  ASSUME TypeInv, LockInv, NEW t \in Threads,
         \/ Queue(t) \/ Unqueue(t) \/ CheckObj(t) \/ SemRelease(t)
         \/ MutexUnlock(t) \/ MutexKill(t) \/ EventSet(t) \/ EventReset(t)
         \/ SemTakeHold(t) \/ SemClaim(t) \/ SemHoldDone(t) \/ SemGiveBack(t)
         \/ MutexScan(t) \/ EventScan(t) \/ ScanEnd(t)
  PROVE  LockInv'
  <1>1. /\ OthersStay(t) /\ cur'[t] = cur[t] /\ pc[t] \in Within /\ UNCHANGED lockvars
        /\ pc'[t] \in Within \/ (pc'[t] = "wake_all" /\ allLock = t)
    BY SectionStep
  <1>2. InSection(t) /\ InSection(t)' /\ (pc'[t] \in UnderAll => allLock = t)
    BY <1>1 DEF Within, InSection, UnderAll, AllSteps, Trying
  <1> QED
    BY <1>1, <1>2, InsideLockInv

\* ntsync_lock_obj lets a thread in only while nobody is.
LEMMA LockingLockInv ==
  ASSUME TypeInv, LockInv, NEW t \in Threads, Lock(t) \/ LockMutex(t) \/ DevLock(t) \/ Unlock(t)
  PROVE  LockInv'
  <1> USE DEF OthersStay, UnderAll, AllSteps, Trying
  <1> DEFINE o == cur[t]
  <1>1. t # NoOne /\ o \in Objs /\ \A u \in Threads : u # NoOne
    BY CurObj, ConstAssumption DEF Lock, LockMutex, DevLock, Unlock
  <1>2. lock \in [Objs -> Threads \cup {NoOne}] /\ devLocked \in [Objs -> BOOLEAN]
    BY DEF TypeInv, LockType
  <1>3. \A u \in Threads : InSection(u) => cur[u] \in Objs
    BY CurObj DEF InSection
  <1>4. CASE Lock(t)
    <2>1. allLock # t
      BY <1>4 DEF Lock, LockInv, SectionOK, InSection
    <2>2. CASE lock' = [lock EXCEPT ![o] = t] /\ Goto(t, "body")
      BY <1>1, <1>2, <1>3, <1>4, <2>1, <2>2, Moves DEF Lock, LockInv, OneWayIn, SectionOK, InSection
    <2>3. CASE UNCHANGED lock /\ Goto(t, "mutex")
      <3>1. OthersStay(t) /\ Outside(t) /\ Outside(t)' /\ UNCHANGED lockvars
        BY <1>4, <2>3, Moves DEF Lock, Outside, InSection, lockvars
      <3> QED BY <3>1, OutsideLockInv
    <2> QED BY <1>4, <2>2, <2>3 DEF Lock
  <1>5. CASE LockMutex(t)
    BY <1>1, <1>5, Moves DEF LockMutex, LockInv, OneWayIn, SectionOK, InSection
  <1>6. CASE DevLock(t)
    BY <1>1, <1>2, <1>3, <1>6, Moves DEF DevLock, LockInv, OneWayIn, SectionOK, InSection
  <1>7. CASE Unlock(t)
    <2>1. OthersStay(t) /\ pc'[t] \in {"lock", "check", "return", "idle"}
      BY <1>7, Moves DEF Unlock, AfterUnlock, Finish
    <2>2. CASE allLock = t
      BY <1>1, <1>2, <1>3, <1>7, <2>1, <2>2 DEF Unlock, All, LockInv, OneWayIn, SectionOK, InSection
    <2>3. CASE allLock # t
      BY <1>1, <1>2, <1>3, <1>7, <2>1, <2>3 DEF Unlock, All, LockInv, OneWayIn, SectionOK, InSection
    <2> QED BY <2>2, <2>3
  <1> QED
    BY <1>4, <1>5, <1>6, <1>7

\* Under wait_all_lock: try_wake_all_obj, try_wake_all and ntsync_wait_all.
LEMMA AllLockInv ==
  ASSUME TypeInv, LockInv, NEW t \in Threads,
         \/ WakeAllNext(t) \/ WakeAllLock(t) \/ WakeAllTry(t) \/ WakeAllCommit(t) \/ WakeAllUnlock(t)
         \/ AllMutex(t) \/ AllQueue(t) \/ AllFlag(t) \/ AllAdd(t) \/ AllQueued(t)
         \/ AllUnqueue(t) \/ AllUnhint(t) \/ AllClear(t) \/ AllUnqueued(t)
  PROVE  LockInv'
  <1> USE DEF OthersStay, UnderAll, AllSteps, Trying
  <1>1. t # NoOne /\ \A u \in Threads : u # NoOne
    BY ConstAssumption
  <1>2. lock \in [Objs -> Threads \cup {NoOne}] /\ devLocked \in [Objs -> BOOLEAN]
    BY DEF TypeInv, LockType
  <1>3. \A u \in Threads : InSection(u) => cur[u] \in Objs
    BY CurObj DEF InSection
  <1>4. pc[t] \in UnderAll => allLock = t
    BY DEF LockInv, SectionOK
  <1>5. ASSUME UNCHANGED lockvars, OthersStay(t), pc[t] \in UnderAll, cur'[t] = cur[t],
               InSection(t)' => InSection(t), pc'[t] \in UnderAll \/ InSection(t)'
        PROVE  LockInv'
    BY <1>4, <1>5 DEF LockInv, OneWayIn, SectionOK, lockvars, InSection
  <1>6. CASE WakeAllNext(t)
    <2>1. /\ UNCHANGED lockvars /\ pc[t] = "wake_all"
          /\ OthersStay(t) /\ cur'[t] = cur[t] /\ pc'[t] \in {"scan", "wa_lock"}
      BY <1>6, Moves DEF WakeAllNext, TypeInv, LocalInv, LocalType
    <2> QED BY <1>5, <2>1 DEF InSection
  <1>7. CASE WakeAllLock(t)
    <2>1. /\ OthersStay(t) /\ cur'[t] = cur[t] /\ target'[t] = target[t]
          /\ pc[t] = "wa_lock" /\ pc'[t] = "wa_lock" /\ UNCHANGED <<lock, allLock>>
      BY <1>7, Moves DEF WakeAllLock
    <2>2. OneWayIn' /\ \A o \in Objs : devLocked[o] => devLocked'[o]
      BY <1>2, <1>7 DEF WakeAllLock, LockInv, OneWayIn
    <2> QED BY <1>3, <1>4, <2>1, <2>2 DEF LockInv, SectionOK, InSection
  <1>8. CASE WakeAllTry(t) \/ WakeAllCommit(t)
    <2>1. /\ OthersStay(t) /\ cur'[t] = cur[t] /\ target'[t] = target[t]
          /\ pc[t] \in Trying /\ pc'[t] \in Trying /\ UNCHANGED lockvars
      BY <1>8, Moves DEF WakeAllTry, WakeAllCommit
    <2> QED BY <1>5, <2>1 DEF InSection
  <1>9. CASE WakeAllUnlock(t)
    <2>1. /\ OthersStay(t) /\ cur'[t] = cur[t] /\ target'[t] = target[t]
          /\ pc[t] = "wa_unlock" /\ pc'[t] \in {"check", "wake_all"} /\ UNCHANGED lock
          /\ IF target[t] = t THEN pc'[t] = "check" /\ allLock' = NoOne
                              ELSE pc'[t] = "wake_all" /\ allLock' = allLock
      BY <1>9, Moves DEF WakeAllUnlock
    <2>2. OneWayIn'
      BY <1>2, <1>9 DEF WakeAllUnlock, LockInv, OneWayIn
    <2>3. target[t] # t => devLocked'[cur[t]]
      <3>1. target[t] # t => cur[t] \notin DevLocks(t)
        BY DEF DevLocks
      <3>2. target[t] # t => cur[t] \in Objs /\ devLocked[cur[t]]
        BY <1>3, <1>4, <2>1 DEF LockInv, SectionOK, InSection
      <3> QED BY <1>9, <3>1, <3>2 DEF WakeAllUnlock
    <2>4. SectionOK(t)'
      BY <1>1, <1>4, <2>1, <2>3 DEF SectionOK, InSection
    <2>5. \A u \in Threads : u # t => SectionOK(u)'
      BY <1>1, <1>4, <2>1 DEF LockInv, SectionOK, InSection
    <2> QED BY <2>2, <2>4, <2>5 DEF LockInv
  <1>10. CASE AllMutex(t)
    <2>1. /\ OthersStay(t) /\ pc'[t] \in {"all_queue", "all_unqueue"} /\ allLock = NoOne /\ allLock' = t
          /\ UNCHANGED <<lock, devLocked>>
      BY <1>10, Moves DEF AllMutex
    <2> QED BY <1>1, <2>1 DEF LockInv, OneWayIn, SectionOK, InSection
  <1>11. CASE AllQueue(t) \/ AllFlag(t) \/ AllAdd(t) \/ AllUnqueue(t) \/ AllUnhint(t) \/ AllClear(t)
    <2>1. /\ OthersStay(t) /\ cur'[t] = cur[t] /\ UNCHANGED lockvars
          /\ pc[t] \in AllSteps /\ pc'[t] \in AllSteps
      BY <1>11, Moves DEF AllQueue, AllFlag, AllAdd, AllUnqueue, AllUnhint, AllClear
    <2> QED BY <1>5, <2>1 DEF InSection
  <1>12. CASE AllQueued(t)
    <2>1. /\ OthersStay(t) /\ cur'[t] = cur[t] /\ UNCHANGED lockvars
          /\ pc[t] = "all_queue" /\ pc'[t] = "wa_lock" /\ target'[t] = t
      BY <1>12 DEF AllQueued, TypeInv, LocalInv, LocalType
    <2> QED BY <1>5, <2>1 DEF InSection
  <1>13. CASE AllUnqueued(t)
    <2>1. /\ OthersStay(t) /\ pc[t] = "all_unqueue" /\ pc'[t] \in {"return", "lock"}
          /\ allLock' = NoOne /\ UNCHANGED <<lock, devLocked>>
      BY <1>13, Moves DEF AllUnqueued
    <2> QED BY <1>1, <1>4, <2>1 DEF LockInv, OneWayIn, SectionOK, InSection
  <1> QED
    BY <1>6, <1>7, <1>8, <1>9, <1>10, <1>11, <1>12, <1>13

LEMMA InitLockInv == Init => LockInv
  BY ConstAssumption DEF Init, LockInv, OneWayIn, SectionOK, UnderAll, AllSteps, Trying, InSection

LEMMA NextLockInv == TypeInv /\ LockInv /\ [Next]_vars => LockInv'
  <1> SUFFICES ASSUME TypeInv, LockInv, [Next]_vars PROVE LockInv'
    OBVIOUS
  <1>1. CASE UNCHANGED vars
    BY <1>1 DEF vars, lockvars, locals, LockInv, OneWayIn, SectionOK, InSection
  <1>2. CASE Next
    <2> PICK t \in Threads : Begin(t) \/ Die(t) \/ Interrupt(t) \/ Userspace(t) \/ Driver(t)
      BY <1>2 DEF Next
    <2> QED
      BY FreeLockInv, SectionLockInv, LockingLockInv, AllLockInv DEF Interrupt, Driver, WakeUp, TimeOut
  <1> QED
    BY <1>1, <1>2

LEMMA AlwaysLockInv == Spec => [](TypeInv /\ LockInv)
  <1>1. Init => TypeInv /\ LockInv
    BY InitTypeInv, InitLockInv
  <1>2. TypeInv /\ LockInv /\ [Next]_vars => (TypeInv /\ LockInv)'
    BY NextTypeInv, NextLockInv
  <1> QED
    BY <1>1, <1>2, PTL DEF Spec

\* ntsync_lock_obj and ntsync_unlock_obj exclude one another on an object,
\* whether a thread goes through obj->lock or through dev_locked.
THEOREM SectionsExclude == Spec => []SectionExclusion
  BY AlwaysLockInv, LockInvExclusion, PTL

-----------------------------------------------------------------------------
(* The inductive invariant, third part: units on loan.                     *)

\* A thread with a unit on loan, or just placed, has the semaphore on hold.
Holding == {"loan", "placed"}
HoldOK == \A t \in Threads : pc[t] \in Holding => hold[cur[t]]
LoanInv == HoldOK /\ NoOvershoot

LEMMA OnLoanValue == \A o \in Objs : OnLoan(o) \in {0, 1}
  BY DEF OnLoan

\* A step that adds no unit, clears no hold and takes no loan.
LEMMA LoanFrame ==
  ASSUME TypeInv, LoanInv, NEW t \in Threads, OthersStay(t), UNCHANGED hold, pc'[t] \notin Holding,
         \A o \in Objs : count'[o] \in Nat /\ count'[o] <= count[o]
  PROVE  LoanInv'
  <1>1. HoldOK'
    BY DEF LoanInv, HoldOK, OthersStay
  <1>2. ASSUME NEW o \in Objs, Type[o] = "sem" PROVE count'[o] + OnLoan(o)' <= Max[o]
    <2>1. OnLoan(o)' = 1 => OnLoan(o) = 1
      BY DEF OnLoan, OthersStay, Holding
    <2>2. OnLoan(o) \in {0, 1} /\ OnLoan(o)' \in {0, 1}
      BY DEF OnLoan
    <2>3. count[o] + OnLoan(o) <= Max[o] /\ count[o] \in Nat /\ Max[o] \in Nat /\ count'[o] \in Nat
      BY <1>2, ConstAssumption DEF LoanInv, NoOvershoot, TypeInv, ObjType
    <2> QED BY <2>1, <2>2, <2>3
  <1> QED
    BY <1>1, <1>2 DEF LoanInv, NoOvershoot

\* The steps that neither change a count or a hold nor take a loan.
LEMMA QuietLoanInv ==
  ASSUME TypeInv, TypeInv', LoanInv, NEW t \in Threads, OthersStay(t), UNCHANGED <<count, hold>>,
         pc'[t] \notin Holding
  PROVE  LoanInv'
  <1>1. \A o \in Objs : count'[o] \in Nat /\ count'[o] <= count[o]
    BY DEF TypeInv, ObjType
  <1> QED
    BY <1>1, LoanFrame

\* A step that changes the count of one object only.
LEMMA LoanStep ==
  ASSUME TypeInv, LoanInv, NEW t \in Threads, OthersStay(t), NEW o \in Objs, HoldOK',
         pc'[t] = "loan" => cur'[t] = o, \A p \in Objs : p # o => count'[p] = count[p],
         Type[o] = "sem" => count'[o] + OnLoan(o)' <= Max[o]
  PROVE  LoanInv'
  <1>1. ASSUME NEW p \in Objs, p # o, Type[p] = "sem" PROVE count'[p] + OnLoan(p)' <= Max[p]
    <2>1. OnLoan(p)' = 1 => OnLoan(p) = 1
      BY <1>1 DEF OnLoan, OthersStay
    <2>2. OnLoan(p) \in {0, 1} /\ OnLoan(p)' \in {0, 1}
      BY DEF OnLoan
    <2>3. count[p] + OnLoan(p) <= Max[p] /\ count[p] \in Nat /\ Max[p] \in Nat /\ count'[p] = count[p]
      BY <1>1, ConstAssumption DEF LoanInv, NoOvershoot, TypeInv, ObjType
    <2> QED BY <2>1, <2>2, <2>3
  <1> QED
    BY <1>1 DEF LoanInv, NoOvershoot

LEMMA UserspaceLoanInv ==
  ASSUME TypeInv, TypeInv', LoanInv, NEW t \in Threads, Begin(t) \/ Die(t) \/ Userspace(t)
  PROVE  LoanInv'
  <1> USE DEF Holding
  <1>1. CASE Begin(t)
    <2>1. OthersStay(t) /\ pc'[t] \notin Holding
      BY <1>1 DEF Begin, FirstStep, OthersStay, TypeInv, LocalInv, LocalType
    <2> QED BY <1>1, <2>1, QuietLoanInv DEF Begin, objvars, word
  <1>2. CASE FastWake(t)
    <2>1. OthersStay(t) /\ pc'[t] \notin Holding
      BY <1>2 DEF FastWake, OthersStay, TypeInv, LocalInv, LocalType
    <2> QED BY <1>2, <2>1, QuietLoanInv DEF FastWake, objvars, word
  <1>3. CASE Die(t) \/ FastReleaseDeclined(t) \/ SpinPeek(t) \/ Setup(t)
    <2>1. OthersStay(t) /\ pc'[t] \notin Holding
      BY <1>3, Moves DEF Die, FastReleaseDeclined, SpinPeek, SpinNext, Setup, Finish
    <2> QED BY <1>3, <2>1, QuietLoanInv DEF Die, FastReleaseDeclined, SpinPeek, Setup, objvars, word
  <1>4. ASSUME pc[t] \in Looping, FastTake(t, Here(t)) PROVE LoanInv'
    <2> DEFINE o == Here(t)
    <2>1. OthersStay(t) /\ pc'[t] \notin Holding
      BY <1>4, Moves DEF FastTake, Finish
    <2>2. o \in Objs
      BY <1>4, LoopingObj DEF TypeInv
    <2>3. UNCHANGED hold /\ \A p \in Objs : count'[p] \in Nat /\ count'[p] <= count[p]
      BY <1>4, <2>2 DEF FastTake, TypeInv, ObjType
    <2> QED BY <2>1, <2>3, LoanFrame
  <1>5. CASE Walk(t)
    <2>1. CASE FastTake(t, Here(t))
      BY <1>4, <1>5, <2>1 DEF Walk, Looping
    <2>2. CASE UNCHANGED objvars
      <3>1. OthersStay(t) /\ pc'[t] \notin Holding
        BY <1>5, Moves DEF Walk, FastTake, Finish
      <3> QED BY <2>2, <3>1, QuietLoanInv DEF objvars, word
    <2> QED BY <1>5, <2>1, <2>2 DEF Walk
  <1>6. CASE SpinTake(t)
    <2>1. CASE FastTake(t, Here(t))
      BY <1>4, <1>6, <2>1 DEF SpinTake, Looping
    <2>2. CASE UNCHANGED objvars /\ SpinNext(t)
      <3>1. OthersStay(t) /\ pc'[t] \notin Holding
        BY <2>2, Moves DEF SpinNext
      <3> QED BY <2>2, <3>1, QuietLoanInv DEF objvars, word
    <2> QED BY <1>6, <2>1, <2>2 DEF SpinTake
  <1>7. CASE FastRelease(t)
    <2>0. PICK o \in Objs : o = cur[t]
      BY <1>7, CurObj DEF FastRelease
    <2>1. o \in Objs /\ call[t].n \in Nat
      BY <1>7, CurObj, CallType DEF FastRelease
    <2>2. OthersStay(t) /\ pc'[t] \notin Holding
      BY <1>7, Moves DEF FastRelease, Finish
    <2>3. ~hold[o] /\ ~(count[o] + call[t].n > Max[o]) /\ count' = [count EXCEPT ![o] = @ + call[t].n]
          /\ UNCHANGED hold
      BY <1>7, <2>0 DEF FastRelease, MustAskKernel
    <2>4. count[o] \in Nat /\ Max[o] \in Nat /\ count \in [Objs -> Nat]
      BY <2>1, ConstAssumption DEF TypeInv, ObjType
    <2>5. ~\E u \in Threads : pc'[u] = "loan" /\ cur'[u] = o
      BY <2>2, <2>3 DEF OthersStay, LoanInv, HoldOK
    <2>6. OnLoan(o)' = 0
      BY <2>5 DEF OnLoan
    <2>7. count'[o] + OnLoan(o)' <= Max[o]
      <3>1. count'[o] = count[o] + call[t].n
        BY <2>1, <2>3, <2>4
      <3>2. count[o] + call[t].n <= Max[o]
        BY <2>1, <2>3, <2>4
      <3> QED BY <2>1, <2>4, <2>6, <3>1, <3>2
    <2>8. HoldOK'
      BY <2>2, <2>3 DEF LoanInv, HoldOK, OthersStay
    <2>9. \A p \in Objs : p # o => count'[p] = count[p]
      BY <2>3, <2>4
    <2> QED BY <2>1, <2>2, <2>7, <2>8, <2>9, LoanStep
  <1> QED
    BY <1>1, <1>2, <1>3, <1>5, <1>6, <1>7 DEF Userspace

\* The driver steps that neither change a count or a hold nor take a loan.
LEMMA DriverQuietLoanInv ==
  ASSUME TypeInv, TypeInv', LoanInv, NEW t \in Threads,
         \/ Lock(t) \/ LockMutex(t) \/ DevLock(t) \/ Unlock(t)
         \/ Queue(t) \/ Unqueue(t) \/ CheckObj(t)
         \/ MutexUnlock(t) \/ MutexKill(t) \/ EventSet(t) \/ EventReset(t)
         \/ MutexScan(t) \/ EventScan(t) \/ ScanEnd(t)
         \/ WakeAllNext(t) \/ WakeAllLock(t) \/ WakeAllTry(t) \/ WakeAllUnlock(t)
         \/ Check(t) \/ LeaveSleep(t) \/ Return(t)
         \/ AllMutex(t) \/ AllQueue(t) \/ AllFlag(t) \/ AllAdd(t) \/ AllQueued(t)
         \/ AllUnqueue(t) \/ AllUnhint(t) \/ AllClear(t) \/ AllUnqueued(t)
  PROVE  LoanInv'
  <1> USE DEF Holding
  <1>1. UNCHANGED <<count, hold>>
    BY DEF Lock, LockMutex, DevLock, Unlock, Queue, Unqueue, CheckObj, MutexUnlock, MutexKill, EventSet,
           EventReset, MutexScan, EventScan, ScanEnd, WakeAllNext, WakeAllLock, WakeAllTry, WakeAllUnlock,
           Check, LeaveSleep, Return, AllMutex, AllQueue, AllFlag, AllAdd, AllQueued,
           AllUnqueue, AllUnhint, AllClear, AllUnqueued, objvars, word
  <1>2. OthersStay(t) /\ pc'[t] \notin Holding
    <2>1. CASE Lock(t) \/ LockMutex(t) \/ DevLock(t) \/ Unlock(t)
      BY <2>1, Moves DEF Lock, LockMutex, DevLock, Unlock, AfterUnlock, Finish
    <2>2. CASE Queue(t) \/ Unqueue(t) \/ CheckObj(t) \/ EventReset(t)
      BY <2>2, Moves DEF Queue, Unqueue, CheckObj, EventReset
    <2>3. CASE MutexUnlock(t) \/ MutexKill(t) \/ EventSet(t)
      <3>1. ASSUME WakeAfter(t) PROVE OthersStay(t) /\ pc'[t] \notin Holding
        BY <3>1, Moves DEF WakeAfter
      <3>2. ASSUME Goto(t, "unlock") PROVE OthersStay(t) /\ pc'[t] \notin Holding
        BY <3>2, Moves
      <3> QED BY <2>3, <3>1, <3>2 DEF MutexUnlock, MutexKill, EventSet
    <2>4. CASE MutexScan(t) \/ EventScan(t) \/ ScanEnd(t)
      BY <2>4, Moves DEF MutexScan, EventScan, ScanEnd
    <2>5. CASE WakeAllNext(t)
      BY <2>5, WakeAllNextMoves
    <2>6. CASE WakeAllLock(t) \/ WakeAllTry(t) \/ WakeAllUnlock(t)
      BY <2>6, Moves DEF WakeAllLock, WakeAllTry, WakeAllUnlock
    <2>7. CASE Check(t) \/ LeaveSleep(t) \/ Return(t)
      BY <2>7, Moves DEF Check, LeaveSleep, Return, Finish
    <2>8. CASE \/ AllMutex(t) \/ AllQueue(t) \/ AllFlag(t) \/ AllAdd(t)
               \/ AllUnqueue(t) \/ AllUnhint(t) \/ AllClear(t) \/ AllUnqueued(t)
      <3>1. CASE AllMutex(t) BY <3>1, Moves DEF AllMutex
      <3>2. CASE AllQueue(t) \/ AllUnqueue(t) \/ AllUnhint(t)
        BY <3>2, Moves DEF AllQueue, AllUnqueue, AllUnhint
      <3>4. CASE AllFlag(t) \/ AllAdd(t) \/ AllClear(t)
        BY <3>4, Moves DEF AllFlag, AllAdd, AllClear
      <3>3. CASE AllUnqueued(t) BY <3>3, Moves DEF AllUnqueued
      <3> QED BY <2>8, <3>1, <3>2, <3>3, <3>4
    <2>9. CASE AllQueued(t)
      BY <2>9 DEF AllQueued, OthersStay, TypeInv, LocalInv, LocalType
    <2> QED
      BY <2>1, <2>2, <2>3, <2>4, <2>5, <2>6, <2>7, <2>8, <2>9
  <1> QED
    BY <1>1, <1>2, QuietLoanInv

\* ntsync_sem_release and try_wake_any_sem: only one of them is ever at work
\* on a semaphore, so a hold is never cleared under another thread's loan
\* and a unit is added only when none is on loan.
LEMMA SemLoanInv ==
  ASSUME TypeInv, TypeInv', LockInv, LoanInv, NEW t \in Threads,
         \/ SemRelease(t) \/ SemTakeHold(t) \/ SemClaim(t) \/ SemHoldDone(t) \/ SemGiveBack(t)
         \/ WakeAllCommit(t)
  PROVE  LoanInv'
  <1> USE DEF Holding
  <1>1. CASE WakeAllCommit(t)
    <2>1. OthersStay(t) /\ pc'[t] \notin Holding /\ UNCHANGED hold
      BY <1>1, Moves DEF WakeAllCommit
    <2>2. \A o \in Objs : count'[o] \in Nat /\ count'[o] <= count[o]
      BY <1>1 DEF WakeAllCommit, TypeInv, ObjType
    <2> QED BY <2>1, <2>2, LoanFrame
  <1>2. CASE SemRelease(t) \/ SemTakeHold(t) \/ SemClaim(t) \/ SemHoldDone(t) \/ SemGiveBack(t)
    <2>1. pc[t] \in {"body", "scan", "loan", "placed"}
      BY <1>2 DEF SemRelease, InBody, SemTakeHold, Scanning, SemClaim, SemHoldDone, SemGiveBack
    <2>2. PICK o \in Objs : o = cur[t]
      BY <2>1, CurObj
    <2>3. \A u \in Threads : u # t /\ pc[u] \in Holding => cur[u] # o
      <3>1. SectionExclusion
        BY LockInvExclusion
      <3>2. InSection(t) /\ \A u \in Threads : pc[u] \in Holding => InSection(u)
        BY <2>1 DEF InSection
      <3> QED BY <2>2, <3>1, <3>2 DEF SectionExclusion
    <2>4. OthersStay(t) /\ cur'[t] = o
      BY <1>2, <2>2, Moves DEF SemRelease, WakeAfter, SemTakeHold, SemClaim, SemHoldDone, SemGiveBack
    <2>5. /\ count \in [Objs -> Nat] /\ count[o] \in Nat /\ hold \in [Objs -> BOOLEAN]
          /\ count' \in [Objs -> Nat] /\ count'[o] \in Nat /\ Max[o] \in Nat
      BY ConstAssumption DEF TypeInv, ObjType
    <2>6. (pc'[t] # "loan" => OnLoan(o)' = 0) /\ OnLoan(o)' \in {0, 1} /\ OnLoan(o) \in {0, 1}
      <3>1. pc'[t] # "loan" => ~\E u \in Threads : pc'[u] = "loan" /\ cur'[u] = o
        BY <2>3, <2>4 DEF OthersStay
      <3> QED BY <3>1 DEF OnLoan
    <2>7. Type[o] = "sem" => count[o] + OnLoan(o) <= Max[o]
      BY DEF LoanInv, NoOvershoot
    <2>8. \A p \in Objs : p # o => count'[p] = count[p]
      BY <1>2, <2>2, <2>5 DEF SemRelease, SemTakeHold, SemClaim, SemHoldDone, SemGiveBack, objvars, word
    <2>9. HoldOK'
      <3>1. ASSUME NEW u \in Threads, u # t, pc'[u] \in Holding PROVE hold'[cur'[u]]
        <4>1. pc[u] \in Holding /\ cur'[u] = cur[u] /\ cur[u] # o /\ hold[cur[u]]
          BY <2>3, <2>4, <3>1 DEF OthersStay, LoanInv, HoldOK
        <4>2. cur[u] \in Objs
          BY <4>1, CurObj
        <4>3. hold'[cur[u]] = hold[cur[u]]
          BY <1>2, <2>2, <2>5, <4>1, <4>2
             DEF SemRelease, SemTakeHold, SemClaim, SemHoldDone, SemGiveBack, objvars, word
        <4> QED BY <4>1, <4>3
      <3>2. pc'[t] \in Holding => hold'[o]
        <4>1. CASE SemRelease(t) \/ SemHoldDone(t) \/ SemGiveBack(t)
          <5>1. pc'[t] \notin Holding
            BY <4>1, Moves DEF SemRelease, WakeAfter, SemHoldDone, SemGiveBack
          <5> QED BY <5>1
        <4>2. CASE SemTakeHold(t)
          BY <2>2, <2>5, <4>2, Moves DEF SemTakeHold
        <4>3. CASE SemClaim(t)
          BY <2>2, <4>3 DEF SemClaim, LoanInv, HoldOK, objvars, word
        <4> QED BY <1>2, <4>1, <4>2, <4>3
      <3> QED BY <2>4, <3>1, <3>2 DEF HoldOK
    <2>10. ASSUME Type[o] = "sem" PROVE count'[o] + OnLoan(o)' <= Max[o]
      <3>1. CASE SemRelease(t)
        <4>1. pc'[t] # "loan"
          BY <3>1, Moves DEF SemRelease, WakeAfter
        <4>2. PICK n \in Nat : \/ count'[o] = count[o]
                               \/ ~(count[o] + n > Max[o]) /\ count'[o] = count[o] + n
          <5>1. call[t].n \in Nat
            BY <2>1, CurObj, CallType
          <5> QED BY <2>2, <2>5, <3>1, <5>1 DEF SemRelease
        <4>3. count'[o] <= Max[o]
          BY <2>5, <2>6, <2>7, <2>10, <4>2
        <4> QED BY <2>5, <2>6, <4>1, <4>3
      <3>2. CASE SemTakeHold(t)
        <4>1. CASE count'[o] = count[o] /\ pc'[t] = "scan"
          BY <2>5, <2>6, <2>7, <2>10, <4>1
        <4>2. CASE count'[o] = count[o] - 1
          BY <2>5, <2>6, <2>7, <2>10, <4>2
        <4> QED BY <2>2, <2>5, <3>2, <4>1, <4>2, Moves DEF SemTakeHold
      <3>3. CASE SemClaim(t)
        <4>1. count'[o] = count[o] /\ pc[t] = "loan"
          BY <3>3 DEF SemClaim, objvars, word
        <4>2. OnLoan(o) = 1
          BY <2>2, <4>1 DEF OnLoan
        <4> QED BY <2>5, <2>6, <2>7, <2>10, <4>1, <4>2
      <3>4. CASE SemHoldDone(t)
        <4>1. count'[o] = count[o] /\ pc'[t] # "loan"
          BY <3>4, Moves DEF SemHoldDone
        <4> QED BY <2>5, <2>6, <2>7, <2>10, <4>1
      <3>5. CASE SemGiveBack(t)
        <4>1. count'[o] = count[o] + 1 /\ pc[t] = "loan" /\ pc'[t] # "loan"
          BY <2>2, <2>5, <3>5, Moves DEF SemGiveBack
        <4>2. OnLoan(o) = 1
          BY <2>2, <4>1 DEF OnLoan
        <4> QED BY <2>5, <2>6, <2>7, <2>10, <4>1, <4>2
      <3> QED BY <1>2, <3>1, <3>2, <3>3, <3>4, <3>5
    <2> QED BY <2>4, <2>8, <2>9, <2>10, LoanStep
  <1> QED
    BY <1>1, <1>2

LEMMA InitLoanInv == Init => LoanInv
  <1> SUFFICES ASSUME Init PROVE LoanInv
    OBVIOUS
  <1>1. HoldOK
    BY DEF Init, HoldOK, Holding
  <1>2. ASSUME NEW o \in Objs, Type[o] = "sem" PROVE count[o] + OnLoan(o) <= Max[o]
    <2>1. OnLoan(o) = 0
      BY DEF Init, OnLoan
    <2>2. count[o] = Count0[o] /\ Count0[o] <= Max[o] /\ Count0[o] \in Nat
      BY <1>2, ConstAssumption, CallAssumption DEF Init
    <2> QED BY <2>1, <2>2
  <1> QED
    BY <1>1, <1>2 DEF LoanInv, NoOvershoot

LEMMA NextLoanInv == TypeInv /\ TypeInv' /\ LockInv /\ LoanInv /\ [Next]_vars => LoanInv'
  <1> SUFFICES ASSUME TypeInv, TypeInv', LockInv, LoanInv, [Next]_vars PROVE LoanInv'
    OBVIOUS
  <1>1. CASE UNCHANGED vars
    BY <1>1 DEF vars, word, locals, LoanInv, HoldOK, NoOvershoot, OnLoan
  <1>2. CASE Next
    <2> PICK t \in Threads : Begin(t) \/ Die(t) \/ Interrupt(t) \/ Userspace(t) \/ Driver(t)
      BY <1>2 DEF Next
    <2> QED
      BY UserspaceLoanInv, DriverQuietLoanInv, SemLoanInv DEF Interrupt, Driver, WakeUp, TimeOut
  <1> QED
    BY <1>1, <1>2

\* No release, fast or slow, ever takes a semaphore beyond its max, not even
\* when the unit that try_wake_any_sem has on loan comes back: the HOLD bit
\* keeps fast releases out, and the object lock keeps the slow ones out.
THEOREM NeverOvershoots == Spec => []NoOvershoot
  <1> DEFINE Inv == TypeInv /\ LockInv /\ LoanInv
  <1>1. Init => Inv
    BY InitTypeInv, InitLockInv, InitLoanInv
  <1>2. Inv /\ [Next]_vars => Inv'
    BY NextTypeInv, NextLockInv, NextLoanInv
  <1>3. Inv => NoOvershoot
    BY DEF LoanInv
  <1> QED
    BY <1>1, <1>2, <1>3, PTL DEF Spec

-----------------------------------------------------------------------------
(* The inductive invariant, fourth part: all_hint and NTSYNC_F_WAIT_ALL.   *)

\* Both are exact for every object but the one that the thread which holds
\* wait_all_lock is queueing on, or unqueueing from.
Settling == {"all_flag", "all_add", "all_hint", "all_clear"}
HintOK(o) == allHint[o] = Len(allWaiters[o]) /\ (waitAll[o] <=> allHint[o] > 0)
SettlingOK(t) ==
    /\ pc[t] = "all_flag" => allHint[Here(t)] = 1 /\ Len(allWaiters[Here(t)]) = 0
    /\ pc[t] \in {"all_add", "all_hint"} =>
          allHint[Here(t)] = Len(allWaiters[Here(t)]) + 1 /\ waitAll[Here(t)]
    /\ pc[t] = "all_clear" => allHint[Here(t)] = 0 /\ Len(allWaiters[Here(t)]) = 0
Settled(o) == \A t \in Threads : pc[t] \in Settling => Here(t) # o
HintInv ==
    /\ \A t \in Threads : SettlingOK(t)
    /\ \A o \in Objs : Settled(o) => HintOK(o)

LEMMA QuietHintInv ==
  ASSUME HintInv, NEW t \in Threads, OthersStay(t), UNCHANGED <<waitAll, allHint, allWaiters>>,
         pc[t] \notin Settling, pc'[t] \notin Settling
  PROVE  HintInv'
  <1>1. \A u \in Threads : u # t => pc'[u] = pc[u] /\ Here(u)' = Here(u)
    BY DEF OthersStay, Here
  <1>2. \A u \in Threads : SettlingOK(u)'
    BY <1>1 DEF HintInv, SettlingOK, Settling
  <1>3. \A o \in Objs : Settled(o)' => Settled(o)
    BY <1>1 DEF Settled
  <1> QED
    BY <1>2, <1>3 DEF HintInv, HintOK

LEMMA MoreQuietHintInv ==
  ASSUME TypeInv, HintInv, NEW t \in Threads,
         \/ Lock(t) \/ LockMutex(t) \/ DevLock(t) \/ Unlock(t)
         \/ WakeAllNext(t) \/ WakeAllLock(t) \/ WakeAllTry(t) \/ WakeAllCommit(t) \/ WakeAllUnlock(t)
         \/ AllMutex(t) \/ AllQueued(t) \/ AllUnqueued(t)
  PROVE  HintInv'
  <1> USE DEF Settling
  <1>1. UNCHANGED <<waitAll, allHint, allWaiters>> /\ pc[t] \notin Settling
    BY DEF Lock, LockMutex, DevLock, Unlock, WakeAllNext, WakeAllLock, WakeAllTry, WakeAllCommit,
           WakeAllUnlock, AllMutex, AllQueued, AllUnqueued, objvars, word, queuevars
  <1>2. OthersStay(t) /\ pc'[t] \notin Settling
    <2>1. CASE Lock(t) \/ LockMutex(t) \/ DevLock(t) \/ Unlock(t)
      BY <2>1, Moves DEF Lock, LockMutex, DevLock, Unlock, AfterUnlock, Finish
    <2>2. CASE WakeAllNext(t)
      BY <2>2, WakeAllNextMoves DEF WakeAllNext
    <2>3. CASE WakeAllLock(t) \/ WakeAllTry(t) \/ WakeAllCommit(t) \/ WakeAllUnlock(t)
      BY <2>3, Moves DEF WakeAllLock, WakeAllTry, WakeAllCommit, WakeAllUnlock
    <2>4. CASE AllMutex(t) \/ AllUnqueued(t)
      BY <2>4, Moves DEF AllMutex, AllUnqueued
    <2>5. CASE AllQueued(t)
      BY <2>5 DEF AllQueued, OthersStay, TypeInv, LocalInv, LocalType
    <2> QED
      BY <2>1, <2>2, <2>3, <2>4, <2>5
  <1> QED
    BY <1>1, <1>2, QuietHintInv

\* The steps of ntsync_wait_all: the holder of wait_all_lock is alone.
LEMMA AllHintInv ==
  ASSUME TypeInv, TypeInv', LockInv, HintInv, NEW t \in Threads,
         AllQueue(t) \/ AllFlag(t) \/ AllAdd(t) \/ AllUnqueue(t) \/ AllUnhint(t) \/ AllClear(t)
  PROVE  HintInv'
  <1> USE DEF Settling
  <1>1. pc[t] \in AllSteps
    BY DEF AllQueue, AllFlag, AllAdd, AllUnqueue, AllUnhint, AllClear, AllSteps
  <1>2. PICK o \in Objs : o = Here(t)
    <2>1. CASE pc[t] \in Settling
      BY <2>1, LoopingObj DEF TypeInv, Looping
    <2>2. CASE AllQueue(t) \/ AllUnqueue(t)
      <3>1. i[t] <= Len(call[t].objs) /\ call[t] \in Calls[t] /\ i[t] \in Nat \ {0}
        BY <1>1, <2>2, CurObj DEF AllQueue, AllUnqueue, AllSteps, TypeInv, LocalInv, LocalType
      <3>2. Len(call[t].objs) \in Nat
        BY <3>1, CallType
      <3>3. i[t] \in 1..Len(call[t].objs)
        BY <3>1, <3>2
      <3> QED BY <3>1, <3>3, CallType DEF Here
    <2> QED BY <2>1, <2>2 DEF AllFlag, AllAdd, AllUnhint, AllClear
  <1>3. \A u \in Threads : u # t => pc[u] \notin Settling
    BY <1>1 DEF LockInv, SectionOK, UnderAll, AllSteps
  <1>4. OthersStay(t) /\ pc'[t] \in AllSteps /\ (pc'[t] \in Settling => Here(t)' = o)
    <2>1. ASSUME NEW l \in AllSteps, Goto(t, l)
          PROVE  OthersStay(t) /\ pc'[t] \in AllSteps /\ Here(t)' = o
      BY <1>2, <2>1, Moves DEF Goto, Here, locals
    <2>2. ASSUME NEW l \in {"all_queue", "all_unqueue"}, NEW k, GotoIndex(t, l, k)
          PROVE  OthersStay(t) /\ pc'[t] \in AllSteps /\ pc'[t] \notin Settling
      BY <2>2, Moves DEF AllSteps
    <2>3. CASE AllQueue(t) \/ AllFlag(t) \/ AllUnqueue(t)
      BY <2>1, <2>3 DEF AllQueue, AllFlag, AllUnqueue, AllSteps
    <2>4. CASE AllAdd(t) \/ AllUnhint(t) \/ AllClear(t)
      BY <2>1, <2>2, <2>4 DEF AllAdd, AllUnhint, AllClear, AllSteps
    <2> QED BY <2>3, <2>4
  <1>5. \A u \in Threads : u # t => pc'[u] \notin Settling
    BY <1>3, <1>4 DEF OthersStay
  <1>6. \A p \in Objs : p # o => Settled(p)
    BY <1>2, <1>3 DEF Settled
  <1>7. \A p \in Objs : p # o => HintOK(p)'
    <2>1. ASSUME NEW p \in Objs, p # o
          PROVE  waitAll'[p] = waitAll[p] /\ allHint'[p] = allHint[p] /\ allWaiters'[p] = allWaiters[p]
      <3>1. waitAll \in [Objs -> BOOLEAN] /\ allHint \in [Objs -> Int] /\ allWaiters \in [Objs -> Seq(Entry)]
        BY DEF TypeInv, ObjType, QueueType
      <3> QED BY <1>2, <2>1, <3>1
              DEF AllQueue, AllFlag, AllAdd, AllUnqueue, AllUnhint, AllClear, objvars, word, queuevars
    <2> QED BY <1>6, <2>1 DEF HintInv, HintOK
  <1>8. SettlingOK(t)' /\ (pc'[t] \notin Settling => HintOK(o)')
    <2>0. /\ allHint \in [Objs -> Int] /\ waitAll \in [Objs -> BOOLEAN] /\ allWaiters \in [Objs -> Seq(Entry)]
          /\ allWaiters[o] \in Seq(Entry) /\ Len(allWaiters[o]) \in Nat /\ allHint[o] \in Int
      BY DEF TypeInv, ObjType, QueueType
    <2>1. SettlingOK(t) /\ (pc[t] \notin Settling => HintOK(o))
      BY <1>3 DEF HintInv, Settled
    <2>2. CASE AllQueue(t)
      <3>1. /\ allHint'[o] = allHint[o] + 1 /\ allWaiters'[o] = allWaiters[o] /\ waitAll'[o] = waitAll[o]
            /\ pc'[t] = IF allHint[o] = 0 THEN "all_flag" ELSE "all_add"
        BY <1>2, <2>0, <2>2, Moves DEF AllQueue, objvars, word
      <3>2. HintOK(o)
        BY <2>1, <2>2 DEF AllQueue
      <3> QED BY <1>4, <2>0, <3>1, <3>2 DEF SettlingOK, HintOK
    <2>3. CASE AllFlag(t)
      <3>1. allHint'[o] = allHint[o] /\ allWaiters'[o] = allWaiters[o] /\ waitAll'[o] /\ pc'[t] = "all_add"
        BY <1>2, <2>0, <2>3, Moves DEF AllFlag, queuevars
      <3>2. allHint[o] = 1 /\ Len(allWaiters[o]) = 0
        BY <1>2, <2>1, <2>3 DEF AllFlag, SettlingOK
      <3> QED BY <1>4, <3>1, <3>2 DEF SettlingOK
    <2>4. CASE AllAdd(t)
      <3>1. /\ allHint'[o] = allHint[o] /\ waitAll'[o] = waitAll[o] /\ pc'[t] = "all_queue"
            /\ allWaiters'[o] = Append(allWaiters[o], MyEntry(t))
        BY <1>2, <2>0, <2>4, Moves DEF AllAdd
      <3>2. allHint[o] = Len(allWaiters[o]) + 1 /\ waitAll[o]
        BY <1>2, <2>1, <2>4 DEF AllAdd, SettlingOK
      <3>3. Len(allWaiters'[o]) = Len(allWaiters[o]) + 1
        BY <2>0, <3>1, MyEntryType
      <3> QED BY <2>0, <3>1, <3>2, <3>3 DEF SettlingOK, HintOK
    <2>5. CASE AllUnqueue(t)
      <3>1. PICK n \in 1..Len(allWaiters[o]) : allWaiters' = [allWaiters EXCEPT ![o] = RemoveNth(@, n)]
        BY <1>2, <2>5 DEF AllUnqueue
      <3>2. allHint'[o] = allHint[o] /\ waitAll'[o] = waitAll[o] /\ pc'[t] = "all_hint"
        BY <1>2, <2>0, <2>5, Moves DEF AllUnqueue
      <3>3. Len(allWaiters'[o]) = Len(allWaiters[o]) - 1
        BY <2>0, <3>1, RemoveNthType
      <3>4. HintOK(o) /\ Len(allWaiters[o]) > 0
        BY <2>0, <2>1, <2>5, <3>1 DEF AllUnqueue
      <3> QED BY <1>4, <2>0, <3>2, <3>3, <3>4 DEF SettlingOK, HintOK
    <2>6. CASE AllUnhint(t)
      <3>1. /\ allHint'[o] = allHint[o] - 1 /\ allWaiters'[o] = allWaiters[o] /\ waitAll'[o] = waitAll[o]
            /\ pc'[t] = IF allHint[o] = 1 THEN "all_clear" ELSE "all_unqueue"
        BY <1>2, <2>0, <2>6, Moves DEF AllUnhint, objvars, word
      <3>2. allHint[o] = Len(allWaiters[o]) + 1 /\ waitAll[o]
        BY <1>2, <2>1, <2>6 DEF AllUnhint, SettlingOK
      <3> QED BY <1>4, <2>0, <3>1, <3>2 DEF SettlingOK, HintOK
    <2>7. CASE AllClear(t)
      <3>1. /\ allHint'[o] = allHint[o] /\ allWaiters'[o] = allWaiters[o] /\ ~waitAll'[o]
            /\ pc'[t] = "all_unqueue"
        BY <1>2, <2>0, <2>7, Moves DEF AllClear, queuevars
      <3>2. allHint[o] = 0 /\ Len(allWaiters[o]) = 0
        BY <1>2, <2>1, <2>7 DEF AllClear, SettlingOK
      <3> QED BY <3>1, <3>2 DEF SettlingOK, HintOK
    <2> QED BY <2>2, <2>3, <2>4, <2>5, <2>6, <2>7
  <1>9. \A u \in Threads : SettlingOK(u)'
    BY <1>5, <1>8 DEF SettlingOK
  <1>10. Settled(o)' => pc'[t] \notin Settling
    BY <1>4 DEF Settled
  <1> QED
    BY <1>7, <1>8, <1>9, <1>10 DEF HintInv

LEMMA InitHintInv == Init => HintInv
  BY DEF Init, HintInv, SettlingOK, HintOK

LEMMA NextHintInv == TypeInv /\ TypeInv' /\ LockInv /\ HintInv /\ [Next]_vars => HintInv'
  <1> SUFFICES ASSUME TypeInv, TypeInv', LockInv, HintInv, [Next]_vars PROVE HintInv'
    OBVIOUS
  <1>1. CASE UNCHANGED vars
    BY <1>1 DEF vars, word, queuevars, locals, HintInv, HintOK, SettlingOK, Settled, Here
  <1>2. CASE Next
    <2>1. PICK t \in Threads : Begin(t) \/ Die(t) \/ Interrupt(t) \/ Userspace(t) \/ Driver(t)
      BY <1>2 DEF Next
    <2>2. CASE Begin(t) \/ Die(t) \/ Userspace(t) \/ Check(t) \/ LeaveSleep(t) \/ Return(t)
      <3>1. OthersStay(t) /\ pc[t] \in Free /\ pc'[t] \in Free /\ UNCHANGED <<waitAll, queuevars>>
        BY <2>2, FreeStep
      <3> QED BY <3>1, QuietHintInv DEF Free, Settling, queuevars
    <2>3. CASE \/ Queue(t) \/ Unqueue(t) \/ CheckObj(t) \/ SemRelease(t)
               \/ MutexUnlock(t) \/ MutexKill(t) \/ EventSet(t) \/ EventReset(t)
               \/ SemTakeHold(t) \/ SemClaim(t) \/ SemHoldDone(t) \/ SemGiveBack(t)
               \/ MutexScan(t) \/ EventScan(t) \/ ScanEnd(t)
      <3>1. /\ OthersStay(t) /\ pc[t] \in Within /\ pc'[t] \in Within \cup {"wake_all"}
            /\ UNCHANGED <<waitAll, allHint, allWaiters>>
        BY <2>3, SectionStep
      <3> QED BY <3>1, QuietHintInv DEF Within, Settling
    <2> QED
      BY <2>1, <2>2, <2>3, MoreQuietHintInv, AllHintInv DEF Interrupt, Driver, WakeUp, TimeOut
  <1> QED
    BY <1>1, <1>2

\* Where no thread is settling, all_hint is the length of a list.
LEMMA HintInvAccurate == TypeInv /\ LockInv /\ HintInv => WaitersAccurate /\ allHint \in [Objs -> Nat]
  <1> SUFFICES ASSUME TypeInv, LockInv, HintInv PROVE WaitersAccurate /\ allHint \in [Objs -> Nat]
    OBVIOUS
  <1>1. allHint \in [Objs -> Int]
    BY DEF TypeInv, QueueType
  <1>2. ASSUME NEW o \in Objs
        PROVE  /\ allHint[o] \in Nat
               /\ allWaiters[o] # <<>> => waitAll[o] /\ allHint[o] > 0
               /\ allLock = NoOne => allHint[o] = Len(allWaiters[o]) /\ (waitAll[o] <=> allHint[o] > 0)
    <2>1. allWaiters[o] \in Seq(Entry) /\ Len(allWaiters[o]) \in Nat
      BY DEF TypeInv, QueueType
    <2>2. allWaiters[o] # <<>> => Len(allWaiters[o]) > 0
      BY <2>1
    <2>3. CASE Settled(o)
      <3>1. allHint[o] = Len(allWaiters[o]) /\ (waitAll[o] <=> allHint[o] > 0)
        BY <2>3 DEF HintInv, HintOK
      <3> QED BY <2>1, <2>2, <3>1
    <2>4. CASE ~Settled(o)
      <3>1. PICK t \in Threads : pc[t] \in Settling /\ Here(t) = o
        BY <2>4 DEF Settled
      <3>2. allLock = t /\ t # NoOne
        BY <3>1, ConstAssumption DEF LockInv, SectionOK, UnderAll, AllSteps, Settling
      <3>3. \/ allHint[o] = 1 /\ Len(allWaiters[o]) = 0
            \/ allHint[o] = Len(allWaiters[o]) + 1 /\ waitAll[o]
            \/ allHint[o] = 0 /\ Len(allWaiters[o]) = 0
        BY <3>1 DEF HintInv, SettlingOK, Settling
      <3> QED BY <2>1, <2>2, <3>2, <3>3
    <2> QED BY <2>3, <2>4
  <1> QED
    BY <1>1, <1>2 DEF WaitersAccurate, TypeInv, Counted

LEMMA AlwaysHintInv == Spec => [](TypeInv /\ LockInv /\ HintInv)
  <1> DEFINE Inv == TypeInv /\ LockInv /\ HintInv
  <1>1. Init => Inv
    BY InitTypeInv, InitLockInv, InitHintInv
  <1>2. Inv /\ [Next]_vars => Inv'
    BY NextTypeInv, NextLockInv, NextHintInv
  <1> QED
    BY <1>1, <1>2, PTL DEF Spec

\* Every structure of the driver and of the client keeps its type, whatever
\* the threads do; in particular ntsync_sem_take, the waiters field, all_hint
\* and the recursion count of a mutex never go below zero.
THEOREM TypeCorrect == Spec => []TypeOK
  <1>1. TypeInv /\ LockInv /\ HintInv => TypeOK
    BY HintInvAccurate DEF TypeInv, ObjType, LockType, QueueType, QType, LocalInv, LocalType, TypeOK
  <1> QED
    BY <1>1, AlwaysHintInv, PTL

\* The waiters field that a fast release looks at is exact at every moment
\* (ntsync_shm_add_waiter, ntsync_shm_del_waiter), NTSYNC_F_WAIT_ALL is set
\* while a wait-all is in the object's list, and both it and all_hint are
\* exact while nobody holds wait_all_lock.
THEOREM WaitersAlwaysAccurate == Spec => []WaitersAccurate
  <1>1. TypeInv /\ LockInv /\ HintInv => WaitersAccurate
    BY HintInvAccurate
  <1> QED
    BY <1>1, AlwaysHintInv, PTL

-----------------------------------------------------------------------------
(* The inductive invariant, fifth part: who is in the all_waiters lists.   *)

\* u is in ntsync_wait_all, between the two times it takes wait_all_lock.
Checking == {"lock", "mutex", "dev_lock"} \cup Within
InAll(u) ==
    /\ IsAll(call[u])
    /\ \/ pc[u] \in AllSteps \cup {"check", "sleep", "all_leave"}
       \/ pc[u] \in Trying /\ target[u] = u
       \/ pc[u] \in Checking /\ stage[u] = "check"

\* The indices of the objects on which u has its entry in the list.
Queued(u) ==
    {k \in 1..Len(call[u].objs) :
        /\ pc[u] \in {"all_queue", "all_flag", "all_add"} => k < i[u]
        /\ pc[u] = "all_unqueue" => k >= i[u]
        /\ pc[u] \in {"all_hint", "all_clear"} => k > i[u]}

\* A locked section knows what it is for.
StageOK(t) ==
    /\ pc[t] = "fast_release" => stage[t] = "release"
    /\ pc[t] \in AllSteps \cup {"all_mutex", "all_leave"} => IsAll(call[t])
    /\ pc[t] \in Checking /\ stage[t] = "queue" => ~IsAll(call[t])
    /\ pc[t] = "wake_all" \/ (pc[t] \in Trying /\ target[t] # t) => stage[t] \in Wakers
\* try_wake_all_obj walks, and try_wake_all tries, wait-alls that go on.
WalkOK(t) ==
    /\ pc[t] = "wake_all" \/ (pc[t] \in Trying /\ target[t] # t) =>
          \A k \in 1..Len(todo[t]) : InAll(todo[t][k].task)
    /\ pc[t] \in Trying => InAll(target[t])

InList(e, o) == \E n \in 1..Len(allWaiters[o]) : allWaiters[o][n] = e
\* The list of o holds the entries of such tasks for o, ...
ListSound(o) ==
    \A e \in Entry : InList(e, o) =>
        InAll(e.task) /\ e.index \in Queued(e.task) /\ call[e.task].objs[e.index] = o
\* ... none of them twice ...
ListDistinct(o) == Distinct(allWaiters[o])
\* ... and none is missing.
ListComplete(u) ==
    InAll(u) => \A k \in Queued(u) : InList([task |-> u, index |-> k], call[u].objs[k])
ListInv ==
    /\ \A t \in Threads : StageOK(t) /\ WalkOK(t) /\ ListComplete(t)
    /\ \A o \in Objs : ListSound(o) /\ ListDistinct(o)

-----------------------------------------------------------------------------
(* How control moves on, once more: the locals that Moves leaves out.      *)

LEMMA MovesFully ==
  ASSUME TypeInv, NEW t \in Threads
  PROVE  /\ \A l : Goto(t, l) => /\ call'[t] = call[t] /\ stage'[t] = stage[t]
                                 /\ i'[t] = i[t] /\ todo'[t] = todo[t]
         /\ \A l, k : GotoIndex(t, l, k) => /\ call'[t] = call[t] /\ stage'[t] = stage[t]
                                            /\ i'[t] = k /\ todo'[t] = todo[t]
         /\ \A l, s : GotoList(t, l, s) => /\ call'[t] = call[t] /\ stage'[t] = stage[t]
                                           /\ i'[t] = i[t] /\ todo'[t] = s
         /\ \A s, k : LockFor(t, s, k) => call'[t] = call[t] /\ stage'[t] = s
  BY DEF TypeInv, LocalInv, LocalType, Goto, GotoIndex, GotoList, LockFor, locals

LEMMA TaskType ==
  ASSUME NEW s \in Seq(Entry)
  PROVE  \A k \in 1..Len(s) : s[k] \in Entry /\ s[k].task \in Threads /\ s[k].index \in Nat
  <1>1. \A k \in 1..Len(s) : s[k] \in Entry
    OBVIOUS
  <1>2. \A e \in Entry : e.task \in Threads /\ e.index \in Nat
    BY DEF Entry
  <1> QED
    BY <1>1, <1>2

LEMMA InAllOfOthers ==
  ASSUME NEW t \in Threads, OthersStay(t), NEW u \in Threads, u # t
  PROVE  /\ InAll(u)' <=> InAll(u)
         /\ Queued(u)' = Queued(u) /\ call'[u] = call[u]
         /\ StageOK(u)' <=> StageOK(u)
  BY DEF OthersStay, InAll, Queued, StageOK, IsAll

\* A step that leaves the lists alone, and t as much or as little queued.
LEMMA QuietListInv ==
  ASSUME TypeInv, ListInv, NEW t \in Threads, OthersStay(t), UNCHANGED allWaiters,
         StageOK(t)', WalkOK(t)', InAll(t)' <=> InAll(t),
         InAll(t) => call'[t] = call[t] /\ Queued(t)' = Queued(t)
  PROVE  ListInv'
  <1>1. \A u \in Threads : /\ InAll(u)' <=> InAll(u)
                           /\ InAll(u) => call'[u] = call[u] /\ Queued(u)' = Queued(u)
    BY InAllOfOthers
  <1>2. \A u \in Threads : StageOK(u)'
    BY InAllOfOthers DEF ListInv
  <1>3. ASSUME NEW u \in Threads, u # t PROVE WalkOK(u)'
    <2>1. /\ pc'[u] = pc[u] /\ target'[u] = target[u] /\ todo'[u] = todo[u]
          /\ WalkOK(u) /\ todo[u] \in Seq(Entry)
      BY <1>3 DEF OthersStay, ListInv, TypeInv, LocalInv, LocalType
    <2>2. \A k \in 1..Len(todo[u]) : todo[u][k].task \in Threads
      BY <2>1, TaskType
    <2>3. pc[u] \in Trying => target[u] \in Threads
      BY DEF TypeInv, LocalInv, LocalOK
    <2> QED BY <1>1, <2>1, <2>2, <2>3 DEF WalkOK
  <1>4. \A e, o : InList(e, o)' <=> InList(e, o)
    BY DEF InList
  <1>5. ASSUME NEW o \in Objs PROVE ListSound(o)'
    <2>1. \A e \in Entry : e.task \in Threads
      BY DEF Entry
    <2> QED BY <1>1, <1>4, <2>1 DEF ListSound, ListInv
  <1>6. \A u \in Threads : ListComplete(u)'
    BY <1>1, <1>4 DEF ListInv, ListComplete
  <1> QED
    BY <1>2, <1>3, <1>5, <1>6 DEF ListInv, ListDistinct

\* Userspace, and the head of the loops around the locked sections.
LEMMA FreeListInv ==
  ASSUME TypeInv, ListInv, NEW t \in Threads,
         Begin(t) \/ Die(t) \/ Userspace(t) \/ Check(t) \/ LeaveSleep(t) \/ Return(t)
  PROVE  ListInv'
  <1>1. OthersStay(t) /\ pc[t] \in Free /\ pc'[t] \in Free /\ UNCHANGED allWaiters
    BY FreeStep DEF queuevars
  <1>2. WalkOK(t)'
    BY <1>1 DEF WalkOK, Free, Trying
  <1>3. StageOK(t)
    BY DEF ListInv
  <1> DEFINE Fine == StageOK(t)' /\ (InAll(t)' <=> InAll(t)) /\ (InAll(t) => call'[t] = call[t])
  <1>4. Queued(t)' = Queued(t) \/ ~InAll(t) \/ call'[t] # call[t]
    BY <1>1 DEF Queued, Free
  <1> USE DEF AllSteps, Trying, Within, Checking
  <1>5. CASE Begin(t)
    <2>1. PICK c \in Calls[t] : /\ pc'[t] = FirstStep(c) /\ stage'[t] = c.fn /\ c.fn # "check" /\ c.fn # "queue"
      BY <1>5, CallType DEF Begin, TypeInv, LocalInv, LocalType, Call
    <2>2. pc[t] = "idle" /\ pc'[t] \in {"setup", "walk", "fast_release", "lock"}
          /\ (pc'[t] = "fast_release" => stage'[t] = "release")
      BY <1>5, <2>1 DEF Begin, FirstStep
    <2>3. Fine
      BY <2>1, <2>2 DEF StageOK, InAll
    <2> QED BY <1>1, <1>2, <1>4, <2>3, QuietListInv
  <1>6. CASE Die(t) \/ Return(t)
    <2>1. pc'[t] \in {"dead", "idle", "setup"}
          /\ pc[t] \in {"idle", "fast_release", "fast_wake", "walk", "spin", "spin_take", "setup", "return"}
      BY <1>6, Moves DEF Die, Return, Finish
    <2>2. Fine
      BY <2>1 DEF StageOK, InAll
    <2> QED BY <1>1, <1>2, <1>4, <2>2, QuietListInv
  <1>7. CASE FastReleaseDeclined(t) \/ FastRelease(t) \/ FastWake(t)
    <2>1. pc'[t] \in {"lock", "idle", "fast_wake"} /\ (pc'[t] = "lock" => stage'[t] \in {"release", "wake"})
      <3>1. CASE FastReleaseDeclined(t)
        BY <1>3, <3>1, Moves, MovesFully DEF FastReleaseDeclined, StageOK
      <3>2. CASE FastRelease(t)
        BY <3>2, Moves DEF FastRelease, Finish
      <3>3. CASE FastWake(t)
        BY <3>3 DEF FastWake, TypeInv, LocalInv, LocalType
      <3> QED BY <1>7, <3>1, <3>2, <3>3
    <2>2. pc[t] \in {"fast_release", "fast_wake"}
      BY <1>7 DEF FastReleaseDeclined, FastRelease, FastWake
    <2>3. Fine
      BY <2>1, <2>2 DEF StageOK, InAll
    <2> QED BY <1>1, <1>2, <1>4, <2>3, QuietListInv
  <1>8. CASE Walk(t) \/ SpinPeek(t) \/ SpinTake(t)
    <2>1. ASSUME FastTake(t, Here(t)) PROVE pc'[t] = "idle"
      BY <2>1, Moves DEF FastTake, Finish
    <2>2. ASSUME SpinNext(t) PROVE pc'[t] \in {"spin", "setup"}
      BY <2>2, Moves DEF SpinNext
    <2>3. pc'[t] \in {"idle", "walk", "spin", "spin_take", "setup"}
      <3>1. CASE Walk(t) BY <2>1, <3>1, Moves DEF Walk
      <3>2. CASE SpinPeek(t) BY <2>2, <3>2, Moves DEF SpinPeek
      <3>3. CASE SpinTake(t) BY <2>1, <2>2, <3>3 DEF SpinTake
      <3> QED BY <1>8, <3>1, <3>2, <3>3
    <2>4. pc[t] \in {"walk", "spin", "spin_take"}
      BY <1>8 DEF Walk, SpinPeek, SpinTake
    <2>5. Fine
      BY <2>3, <2>4 DEF StageOK, InAll
    <2> QED BY <1>1, <1>2, <1>4, <2>5, QuietListInv
  <1>9. CASE Setup(t)
    <2>1. /\ pc[t] = "setup"
          /\ \/ pc'[t] = "lock" /\ stage'[t] = "queue" /\ call'[t] = call[t] /\ ~IsAll(call[t])
             \/ pc'[t] = "all_mutex" /\ call'[t] = call[t] /\ IsAll(call[t])
             \/ pc'[t] = "idle"
      BY <1>9, Moves, MovesFully DEF Setup, Finish
    <2>2. Fine
      BY <2>1 DEF StageOK, InAll, IsAll
    <2> QED BY <1>1, <1>2, <1>4, <2>2, QuietListInv
  <1>10. CASE Check(t) \/ LeaveSleep(t)
    <2>1. /\ pc[t] \in {"check", "sleep"} /\ call'[t] = call[t]
          /\ \/ pc'[t] = "sleep"
             \/ pc'[t] = "lock" /\ stage'[t] = "check"
             \/ pc'[t] = "lock" /\ stage'[t] = "unqueue" /\ ~IsAll(call[t])
             \/ pc'[t] = "all_leave" /\ IsAll(call[t])
      BY <1>10, Moves, MovesFully DEF Check, LeaveSleep
    <2>2. Fine
      BY <2>1 DEF StageOK, InAll, IsAll
    <2> QED BY <1>1, <1>2, <1>4, <2>2, QuietListInv
  <1> QED
    BY <1>5, <1>6, <1>7, <1>8, <1>9, <1>10 DEF Userspace

\* The locked sections.
LEMMA SectionListInv ==
  ASSUME TypeInv, ListInv, NEW t \in Threads,
         \/ Queue(t) \/ Unqueue(t) \/ CheckObj(t) \/ SemRelease(t)
         \/ MutexUnlock(t) \/ MutexKill(t) \/ EventSet(t) \/ EventReset(t)
         \/ SemTakeHold(t) \/ SemClaim(t) \/ SemHoldDone(t) \/ SemGiveBack(t)
         \/ MutexScan(t) \/ EventScan(t) \/ ScanEnd(t)
  PROVE  ListInv'
  <1>1. /\ OthersStay(t) /\ pc[t] \in Within /\ pc'[t] \in Within \cup {"wake_all"}
        /\ UNCHANGED allWaiters
    BY SectionStep
  <1>2. /\ call'[t] = call[t] /\ stage'[t] = stage[t]
        /\ pc'[t] = "wake_all" => stage[t] \in Wakers /\ todo'[t] = allWaiters[cur[t]]
    <2>1. CASE Queue(t) \/ Unqueue(t) \/ CheckObj(t) \/ EventReset(t)
      BY <2>1, Moves, MovesFully DEF Queue, Unqueue, CheckObj, EventReset
    <2>2. ASSUME WakeAfter(t)
          PROVE  /\ call'[t] = call[t] /\ stage'[t] = stage[t]
                 /\ pc'[t] = "wake_all" => todo'[t] = allWaiters[cur[t]]
      BY <2>2, Moves, MovesFully DEF WakeAfter
    <2>3. CASE SemRelease(t) \/ MutexUnlock(t) \/ MutexKill(t) \/ EventSet(t)
      <3>1. stage[t] \in Wakers
        BY <2>3 DEF SemRelease, MutexUnlock, MutexKill, EventSet, InBody, Wakers
      <3>2. WakeAfter(t) \/ Goto(t, "unlock")
        BY <2>3 DEF SemRelease, MutexUnlock, MutexKill, EventSet
      <3> QED BY <2>2, <3>1, <3>2, Moves, MovesFully
    <2>4. CASE SemTakeHold(t) \/ SemClaim(t) \/ SemHoldDone(t) \/ SemGiveBack(t)
      BY <2>4, Moves, MovesFully DEF SemTakeHold, SemClaim, SemHoldDone, SemGiveBack
    <2>5. CASE MutexScan(t) \/ EventScan(t) \/ ScanEnd(t)
      BY <2>5, Moves, MovesFully DEF MutexScan, EventScan, ScanEnd
    <2> QED
      BY <2>1, <2>3, <2>4, <2>5
  <1>3. StageOK(t)' /\ (InAll(t)' <=> InAll(t)) /\ Queued(t)' = Queued(t)
    <2>1. StageOK(t)
      BY DEF ListInv
    <2>2. StageOK(t)'
      BY <1>1, <1>2, <2>1 DEF StageOK, Within, Checking, AllSteps, Trying, Wakers, IsAll
    <2>3. InAll(t)' <=> InAll(t)
      BY <1>1, <1>2 DEF InAll, Within, Checking, AllSteps, Trying, Wakers, IsAll
    <2>4. Queued(t)' = Queued(t)
      BY <1>1, <1>2 DEF Queued, Within
    <2> QED BY <2>2, <2>3, <2>4
  <1>4. WalkOK(t)'
    <2>1. CASE pc'[t] # "wake_all"
      BY <1>1, <2>1 DEF WalkOK, Within, Trying
    <2>2. CASE pc'[t] = "wake_all"
      <3>1. PICK o \in Objs : o = cur[t]
        BY <1>1, CurObj DEF Within
      <3>2. ListSound(o) /\ allWaiters[o] \in Seq(Entry) /\ todo'[t] = allWaiters[o]
        BY <1>2, <2>2, <3>1 DEF ListInv, TypeInv, QueueType
      <3>3. ASSUME NEW k \in 1..Len(allWaiters[o]) PROVE InAll(allWaiters[o][k].task)'
        <4>1. PICK u \in Threads : u = allWaiters[o][k].task /\ allWaiters[o][k] \in Entry
          BY <3>2, TaskType
        <4>2. InAll(u)
          BY <3>2, <4>1 DEF ListSound, InList
        <4>3. InAll(u)'
          BY <1>1, <1>3, <4>2, InAllOfOthers
        <4>4. UNCHANGED allWaiters
          BY <1>1
        <4> QED BY <4>1, <4>3, <4>4 DEF InAll
      <3> QED BY <1>1, <2>2, <3>2, <3>3 DEF WalkOK, Trying
    <2> QED BY <2>1, <2>2
  <1> QED
    BY <1>1, <1>2, <1>3, <1>4, QuietListInv

\* ntsync_lock_obj and ntsync_unlock_obj.
LEMMA LockingListInv ==
  ASSUME TypeInv, ListInv, NEW t \in Threads, Lock(t) \/ LockMutex(t) \/ DevLock(t) \/ Unlock(t)
  PROVE  ListInv'
  <1>1. UNCHANGED allWaiters
    BY DEF Lock, LockMutex, DevLock, Unlock, queuevars
  <1>2. StageOK(t)
    BY DEF ListInv
  <1>3. CASE Lock(t) \/ LockMutex(t) \/ DevLock(t)
    <2>1. /\ OthersStay(t) /\ call'[t] = call[t] /\ stage'[t] = stage[t]
          /\ pc[t] \in {"lock", "mutex", "dev_lock"} /\ pc'[t] \in {"mutex", "dev_lock", "body"}
      BY <1>3, Moves, MovesFully DEF Lock, LockMutex, DevLock
    <2>2. StageOK(t)'
      BY <1>2, <2>1 DEF StageOK, Within, Checking, AllSteps, Trying, IsAll
    <2>3. InAll(t)' <=> InAll(t)
      BY <2>1 DEF InAll, Within, Checking, AllSteps, Trying, IsAll
    <2>4. Queued(t)' = Queued(t) /\ WalkOK(t)'
      BY <2>1 DEF Queued, WalkOK, Trying
    <2> QED BY <1>1, <2>1, <2>2, <2>3, <2>4, QuietListInv
  <1>4. CASE Unlock(t)
    <2>1. /\ OthersStay(t) /\ pc[t] = "unlock"
          /\ \/ /\ stage[t] \in {"queue", "unqueue"} /\ call'[t] = call[t]
                /\ pc'[t] = "lock" /\ stage'[t] = stage[t]
             \/ /\ stage[t] \in {"queue", "check"} /\ call'[t] = call[t]
                /\ pc'[t] = "check"
             \/ stage[t] # "check" /\ pc'[t] \in {"return", "idle"}
      BY <1>4, Moves, MovesFully DEF Unlock, AfterUnlock, Finish
    <2>2. StageOK(t)'
      BY <1>2, <2>1 DEF StageOK, Within, Checking, AllSteps, Trying, IsAll
    <2>3. InAll(t)' <=> InAll(t)
      BY <1>2, <2>1 DEF StageOK, InAll, Within, Checking, AllSteps, Trying, IsAll
    <2>4. InAll(t) => call'[t] = call[t]
      BY <2>1 DEF InAll, Within, Checking, AllSteps, Trying
    <2>5. (call'[t] = call[t] => Queued(t)' = Queued(t)) /\ WalkOK(t)'
      BY <2>1 DEF Queued, WalkOK, Trying
    <2> QED BY <1>1, <2>1, <2>2, <2>3, <2>4, <2>5, QuietListInv
  <1> QED
    BY <1>3, <1>4

\* try_wake_all_obj and try_wake_all.  The target is never the task itself:
\* a task that runs try_wake_all_obj is not waiting.
LEMMA WakeAllListInv ==
  ASSUME TypeInv, ListInv, NEW t \in Threads,
         WakeAllNext(t) \/ WakeAllLock(t) \/ WakeAllTry(t) \/ WakeAllCommit(t) \/ WakeAllUnlock(t)
  PROVE  /\ ListInv'
         /\ WakeAllNext(t) /\ pc'[t] = "wa_lock" => target'[t] # t
  <1>1. UNCHANGED allWaiters
    BY DEF WakeAllNext, WakeAllLock, WakeAllTry, WakeAllCommit, WakeAllUnlock, queuevars
  <1>2. StageOK(t) /\ WalkOK(t) /\ todo[t] \in Seq(Entry)
    BY DEF ListInv, TypeInv, LocalInv, LocalType
  <1>3. \A k \in 1..Len(todo[t]) : todo[t][k].task \in Threads
    BY <1>2, TaskType
  <1>4. pc[t] \in Trying => target[t] \in Threads
    BY DEF TypeInv, LocalInv, LocalOK
  <1>5. ASSUME OthersStay(t), InAll(t)' <=> InAll(t) PROVE \A u \in Threads : InAll(u)' <=> InAll(u)
    BY <1>5, InAllOfOthers
  <1>6. CASE WakeAllNext(t)
    <2>1. ~InAll(t) /\ stage[t] \in Wakers /\ pc[t] = "wake_all"
      BY <1>2, <1>6 DEF WakeAllNext, InAll, StageOK, AllSteps, Trying, Checking, Within
    <2>2. CASE todo[t] = <<>>
      <3>1. OthersStay(t) /\ call'[t] = call[t] /\ stage'[t] = stage[t] /\ pc'[t] = "scan"
        BY <1>6, <2>2, Moves, MovesFully DEF WakeAllNext
      <3>2. StageOK(t)'
        BY <1>2, <2>1, <3>1 DEF StageOK, AllSteps, Trying, Checking, Within, Wakers
      <3>3. ~InAll(t)' /\ WalkOK(t)'
        BY <2>1, <3>1 DEF InAll, WalkOK, AllSteps, Trying, Checking, Within, Wakers
      <3> QED BY <1>1, <2>1, <3>1, <3>2, <3>3, QuietListInv
    <2>3. CASE todo[t] # <<>>
      <3>1. /\ 1 \in 1..Len(todo[t]) /\ Head(todo[t]) = todo[t][1] /\ Tail(todo[t]) \in Seq(Entry)
            /\ \A k \in 1..Len(Tail(todo[t])) : /\ Tail(todo[t])[k] = todo[t][k + 1]
                                                /\ k + 1 \in 1..Len(todo[t])
        BY <1>2, <2>3
      <3>2. PICK u \in Threads : u = Head(todo[t]).task
        BY <1>3, <3>1
      <3>3. InAll(u) /\ u # t
        BY <1>2, <2>1, <3>1, <3>2 DEF WalkOK
      <3>4. /\ OthersStay(t) /\ pc'[t] = "wa_lock" /\ call'[t] = call[t] /\ stage'[t] = stage[t]
            /\ target'[t] = u /\ todo'[t] = Tail(todo[t])
        BY <1>6, <2>3, <3>2 DEF WakeAllNext, OthersStay, TypeInv, LocalInv, LocalType
      <3>5. StageOK(t)' /\ ~InAll(t)'
        BY <2>1, <3>3, <3>4 DEF StageOK, InAll, AllSteps, Trying, Checking, Within
      <3>6. WalkOK(t)'
        <4>1. ASSUME NEW k \in 1..Len(todo'[t]) PROVE InAll(todo[t][k].task)'
          <5>1. PICK v \in Threads : v = todo[t][k + 1].task
            BY <1>3, <3>1, <3>4
          <5>2. InAll(v)
            BY <1>2, <2>1, <3>1, <3>4, <5>1 DEF WalkOK
          <5>3. InAll(v)'
            BY <1>5, <2>1, <3>4, <3>5, <5>2
          <5>4. todo'[t][k].task = v
            BY <3>1, <3>4, <5>1
          <5> QED BY <5>3, <5>4
        <4>2. InAll(u)'
          BY <3>3, <3>4, InAllOfOthers
        <4> QED BY <3>4, <4>1, <4>2 DEF WalkOK, Trying
      <3> QED BY <1>1, <2>1, <3>3, <3>4, <3>5, <3>6, QuietListInv
    <2> QED BY <2>2, <2>3, <1>6, Moves DEF WakeAllNext
  <1>7. CASE WakeAllLock(t) \/ WakeAllTry(t) \/ WakeAllCommit(t) \/ WakeAllUnlock(t)
    <2>1. /\ OthersStay(t) /\ call'[t] = call[t] /\ stage'[t] = stage[t] /\ target'[t] = target[t]
          /\ todo'[t] = todo[t] /\ pc[t] \in Trying
          /\ \/ pc'[t] \in Trying
             \/ target[t] = t /\ pc'[t] = "check"
             \/ target[t] # t /\ pc'[t] = "wake_all"
      BY <1>7, Moves, MovesFully DEF WakeAllLock, WakeAllTry, WakeAllCommit, WakeAllUnlock, Trying
    <2>2. StageOK(t)' /\ (InAll(t)' <=> InAll(t))
      <3>1. StageOK(t)'
        BY <1>2, <2>1 DEF StageOK, AllSteps, Trying, Checking, Within, IsAll
      <3>2. InAll(t)' <=> InAll(t)
        BY <1>2, <2>1 DEF StageOK, InAll, AllSteps, Trying, Checking, Within, IsAll
      <3> QED BY <3>1, <3>2
    <2>3. Queued(t)' = Queued(t)
      BY <2>1 DEF Queued, Trying
    <2>4. WalkOK(t)'
      <3>1. pc'[t] \in Trying => InAll(target[t])'
        BY <1>2, <1>4, <1>5, <2>1, <2>2 DEF WalkOK
      <3>2. ASSUME pc'[t] = "wake_all" \/ target'[t] # t, NEW k \in 1..Len(todo[t])
            PROVE  InAll(todo[t][k].task)'
        <4>1. PICK u \in Threads : u = todo[t][k].task
          BY <1>3, <3>2
        <4>2. InAll(u)
          BY <1>2, <2>1, <3>2, <4>1 DEF WalkOK, Trying
        <4>3. InAll(u)'
          BY <1>5, <2>1, <2>2, <4>2
        <4> QED BY <2>1, <4>1, <4>3
      <3> QED BY <2>1, <3>1, <3>2 DEF WalkOK
    <2>5. ListInv'
      BY <1>1, <2>1, <2>2, <2>3, <2>4, QuietListInv
    <2> QED BY <1>7, <2>1, <2>5 DEF WakeAllNext, Trying
  <1> QED
    BY <1>6, <1>7

\* Removing the one place of an entry removes the entry and nothing else.
LEMMA RemoveNthElems ==
  ASSUME NEW S, NEW s \in Seq(S), NEW n \in 1..Len(s), Distinct(s)
  PROVE  LET r == RemoveNth(s, n)
         IN  /\ Distinct(r)
             /\ \A j \in 1..Len(r) : r[j] # s[n] /\ \E m \in 1..Len(s) : r[j] = s[m]
             /\ \A m \in 1..Len(s) : m # n => \E j \in 1..Len(r) : r[j] = s[m]
  <1> DEFINE r == RemoveNth(s, n)
  <1>1. Len(s) \in Nat /\ Len(s) - 1 \in Nat /\ n \in Nat
    OBVIOUS
  <1>2. r \in Seq(S) /\ Len(r) = Len(s) - 1
    BY RemoveNthType
  <1>3. \A j \in 1..Len(r) : r[j] = IF j < n THEN s[j] ELSE s[j + 1]
    BY <1>1, <1>2 DEF RemoveNth
  <1>4. \A j, k \in 1..Len(s) : s[j] = s[k] => j = k
    BY DEF Distinct
  <1>5. Distinct(r)
    <2>1. \A j, k \in 1..Len(r) : r[j] = r[k] => j = k
      BY <1>1, <1>2, <1>3, <1>4
    <2> QED BY <1>2, <2>1 DEF Distinct
  <1>6. ASSUME NEW j \in 1..Len(r) PROVE r[j] # s[n] /\ \E m \in 1..Len(s) : r[j] = s[m]
    <2>1. CASE j < n
      <3>1. j \in 1..Len(s) /\ r[j] = s[j] BY <1>1, <1>2, <1>3, <2>1
      <3> QED BY <1>1, <1>4, <2>1, <3>1
    <2>2. CASE ~(j < n)
      <3>1. j + 1 \in 1..Len(s) /\ r[j] = s[j + 1] /\ j + 1 # n BY <1>1, <1>2, <1>3, <2>2
      <3> QED BY <1>4, <3>1
    <2> QED BY <2>1, <2>2
  <1>7. ASSUME NEW m \in 1..Len(s), m # n PROVE \E j \in 1..Len(r) : r[j] = s[m]
    <2>1. CASE m < n
      <3>1. m \in 1..Len(r) /\ r[m] = s[m] BY <1>1, <1>2, <1>3, <2>1
      <3> QED BY <3>1
    <2>2. CASE ~(m < n)
      <3>1. m - 1 \in 1..Len(r) /\ ~(m - 1 < n) BY <1>1, <1>2, <1>7, <2>2
      <3>2. (m - 1) + 1 = m OBVIOUS
      <3>3. r[m - 1] = s[m] BY <1>3, <3>1, <3>2
      <3> QED BY <3>1, <3>3
    <2> QED BY <2>1, <2>2
  <1> QED
    BY <1>5, <1>6, <1>7

\* The steps of ntsync_wait_all that do not touch a list.
LEMMA AllQuietListInv ==
  ASSUME TypeInv, ListInv, NEW t \in Threads,
         \/ AllMutex(t) /\ pc[t] = "all_leave"
         \/ AllQueue(t) \/ AllFlag(t) \/ AllQueued(t) \/ AllUnhint(t) \/ AllClear(t)
  PROVE  ListInv'
  <1>1. UNCHANGED allWaiters
    BY DEF AllMutex, AllQueue, AllFlag, AllQueued, AllUnhint, AllClear, queuevars
  <1>2. pc[t] \in AllSteps \cup {"all_leave"}
    BY DEF AllMutex, AllQueue, AllFlag, AllQueued, AllUnhint, AllClear, AllSteps
  <1>3. IsAll(call[t]) /\ InAll(t)
    BY <1>2 DEF ListInv, StageOK, InAll
  <1>4. i[t] \in Nat \ {0} /\ Len(call[t].objs) \in Nat
    BY <1>2, CurObj, CallType DEF AllSteps, TypeInv, LocalInv, LocalType
  <1>5. OthersStay(t) /\ call'[t] = call[t]
    <2>1. CASE AllMutex(t) \/ AllQueue(t) \/ AllFlag(t) \/ AllUnhint(t) \/ AllClear(t)
      BY <2>1, Moves, MovesFully DEF AllMutex, AllQueue, AllFlag, AllUnhint, AllClear
    <2>2. CASE AllQueued(t)
      BY <2>2 DEF AllQueued, OthersStay, TypeInv, LocalInv, LocalType
    <2> QED BY <2>1, <2>2
  <1>6. /\ \/ pc'[t] \in AllSteps
           \/ pc'[t] \in Trying /\ target'[t] = t
        /\ Queued(t)' = Queued(t)
    <2>1. CASE AllMutex(t) /\ pc[t] = "all_leave"
      <3>1. pc[t] = "all_leave" /\ pc'[t] = "all_unqueue" /\ i'[t] = 1
        BY <2>1, Moves, MovesFully DEF AllMutex
      <3> QED BY <1>4, <1>5, <3>1 DEF Queued, AllSteps
    <2>2. CASE AllQueue(t) \/ AllFlag(t)
      <3>1. /\ pc[t] \in {"all_queue", "all_flag"} /\ pc'[t] \in {"all_flag", "all_add"} /\ i'[t] = i[t]
        BY <2>2, Moves, MovesFully DEF AllQueue, AllFlag
      <3> QED BY <1>5, <3>1 DEF Queued, AllSteps
    <2>3. CASE AllQueued(t)
      <3>1. /\ pc[t] = "all_queue" /\ pc'[t] = "wa_lock" /\ target'[t] = t /\ i[t] > Len(call[t].objs)
        BY <2>3 DEF AllQueued, TypeInv, LocalInv, LocalType
      <3> QED BY <1>4, <1>5, <3>1 DEF Queued, Trying
    <2>4. CASE AllUnhint(t) \/ AllClear(t)
      <3>1. /\ pc[t] \in {"all_hint", "all_clear"}
            /\ \/ pc'[t] = "all_clear" /\ i'[t] = i[t]
               \/ pc'[t] = "all_unqueue" /\ i'[t] = i[t] + 1
        BY <2>4, Moves, MovesFully DEF AllUnhint, AllClear
      <3> QED BY <1>4, <1>5, <3>1 DEF Queued, AllSteps
    <2> QED BY <2>1, <2>2, <2>3, <2>4
  <1>7. InAll(t)'
    BY <1>3, <1>5, <1>6 DEF InAll, IsAll
  <1>8. StageOK(t)' /\ WalkOK(t)'
    BY <1>3, <1>5, <1>6, <1>7 DEF StageOK, WalkOK, AllSteps, Trying, Checking, Within, IsAll
  <1> QED
    BY <1>1, <1>3, <1>5, <1>6, <1>7, <1>8, QuietListInv

\* A step of the holder of wait_all_lock that is not trying a wait-all.
LEMMA HolderListInv ==
  ASSUME TypeInv, LockInv, LockInv', ListInv, NEW t \in Threads, OthersStay(t), allLock = t \/ allLock' = t,
         pc[t] \notin Trying \cup {"wake_all"}, pc'[t] \notin Trying \cup {"wake_all"},
         StageOK(t)', \A o \in Objs : ListSound(o)' /\ ListDistinct(o)', \A u \in Threads : ListComplete(u)'
  PROVE  ListInv'
  <1>1. ASSUME NEW u \in Threads PROVE pc'[u] \notin Trying \cup {"wake_all"}
    <2>1. u # t => pc'[u] \notin UnderAll
      BY DEF OthersStay, LockInv, SectionOK
    <2> QED BY <2>1 DEF UnderAll
  <1>2. \A u \in Threads : WalkOK(u)'
    BY <1>1 DEF WalkOK
  <1>3. \A u \in Threads : StageOK(u)'
    BY InAllOfOthers DEF ListInv
  <1> QED
    BY <1>2, <1>3 DEF ListInv

\* The steps that start and end a wait-all, and those that touch a list.
LEMMA AllListInv ==
  ASSUME TypeInv, LockInv, LockInv', ListInv, NEW t \in Threads,
         \/ AllMutex(t) /\ pc[t] = "all_mutex"
         \/ AllAdd(t) \/ AllUnqueue(t) \/ AllUnqueued(t)
  PROVE  ListInv'
  <1>1. /\ pc[t] \in AllSteps \cup {"all_mutex"} /\ pc[t] \notin Trying \cup {"wake_all"}
    BY DEF AllMutex, AllAdd, AllUnqueue, AllUnqueued, AllSteps, Trying
  <1>2. allLock = t \/ allLock' = t
    <2>1. pc[t] \in AllSteps => allLock = t
      BY DEF LockInv, SectionOK, UnderAll
    <2> QED BY <2>1 DEF AllMutex, AllAdd, AllUnqueue, AllUnqueued, AllSteps
  <1>3. IsAll(call[t]) /\ (pc[t] \in AllSteps => InAll(t))
    BY <1>1 DEF ListInv, StageOK, InAll
  <1>4. i[t] \in Nat \ {0} /\ Len(call[t].objs) \in Nat
    BY <1>1, CurObj, CallType DEF AllSteps, TypeInv, LocalInv, LocalType
  <1>5. \A e \in Entry : e.task \in Threads /\ e.index \in Nat /\ e = [task |-> e.task, index |-> e.index]
    BY DEF Entry
  <1>6. CASE AllMutex(t) /\ pc[t] = "all_mutex"
    <2>1. OthersStay(t) /\ call'[t] = call[t] /\ pc'[t] = "all_queue" /\ i'[t] = 1 /\ UNCHANGED allWaiters
      BY <1>6, Moves, MovesFully DEF AllMutex, queuevars
    <2>2. ~InAll(t) /\ Queued(t)' = {} /\ StageOK(t)'
      BY <1>3, <1>6, <2>1 DEF InAll, Queued, StageOK, AllSteps, Trying, Checking, Within, IsAll
    <2>3. \A e, o : InList(e, o)' <=> InList(e, o)
      BY <2>1 DEF InList
    <2>4. ASSUME NEW o \in Objs PROVE ListSound(o)' /\ ListDistinct(o)'
      <3>1. ASSUME NEW e \in Entry, InList(e, o)'
            PROVE  InAll(e.task)' /\ e.index \in Queued(e.task)' /\ call'[e.task].objs[e.index] = o
        <4>1. /\ InAll(e.task) /\ e.index \in Queued(e.task) /\ call[e.task].objs[e.index] = o
          BY <2>3, <3>1 DEF ListInv, ListSound
        <4> QED BY <1>5, <2>1, <2>2, <4>1, InAllOfOthers
      <3> QED BY <2>1, <3>1 DEF ListSound, ListInv, ListDistinct
    <2>5. ASSUME NEW u \in Threads PROVE ListComplete(u)'
      <3>1. CASE u = t
        BY <2>2, <3>1 DEF ListComplete
      <3>2. CASE u # t
        BY <2>1, <2>3, <3>2, InAllOfOthers DEF ListComplete, ListInv
      <3> QED BY <3>1, <3>2
    <2> QED BY <1>1, <1>2, <2>1, <2>2, <2>4, <2>5, HolderListInv DEF Trying
  <1>7. CASE AllUnqueued(t)
    <2>1. OthersStay(t) /\ pc'[t] \in {"return", "lock"} /\ UNCHANGED allWaiters
          /\ pc[t] = "all_unqueue" /\ i[t] > Len(call[t].objs) /\ (pc'[t] = "lock" => stage'[t] = "unqueue")
      BY <1>7, Moves, MovesFully DEF AllUnqueued, queuevars
    <2>2. Queued(t) = {} /\ StageOK(t)' /\ ~InAll(t)'
      <3>1. Queued(t) = {}
        BY <1>4, <2>1 DEF Queued
      <3>2. StageOK(t)' /\ ~InAll(t)'
        BY <2>1 DEF StageOK, InAll, AllSteps, Trying, Checking, Within
      <3> QED BY <3>1, <3>2
    <2>3. \A e, o : InList(e, o)' <=> InList(e, o)
      BY <2>1 DEF InList
    <2>4. ASSUME NEW o \in Objs PROVE ListSound(o)' /\ ListDistinct(o)'
      <3>1. ASSUME NEW e \in Entry, InList(e, o)'
            PROVE  InAll(e.task)' /\ e.index \in Queued(e.task)' /\ call'[e.task].objs[e.index] = o
        <4>1. /\ InAll(e.task) /\ e.index \in Queued(e.task) /\ call[e.task].objs[e.index] = o
          BY <2>3, <3>1 DEF ListInv, ListSound
        <4>2. e.task # t
          BY <2>2, <4>1
        <4> QED BY <1>5, <2>1, <4>1, <4>2, InAllOfOthers
      <3> QED BY <2>1, <3>1 DEF ListSound, ListInv, ListDistinct
    <2>5. ASSUME NEW u \in Threads PROVE ListComplete(u)'
      <3>1. CASE u = t
        BY <2>2, <3>1 DEF ListComplete
      <3>2. CASE u # t
        BY <2>1, <2>3, <3>2, InAllOfOthers DEF ListComplete, ListInv
      <3> QED BY <3>1, <3>2
    <2> QED BY <1>1, <1>2, <2>1, <2>2, <2>4, <2>5, HolderListInv DEF Trying
  <1>8. CASE AllAdd(t) \/ AllUnqueue(t)
    <2>1. i[t] \in 1..Len(call[t].objs) /\ pc[t] \in AllSteps /\ call[t] \in Calls[t]
      <3>1. i[t] <= Len(call[t].objs)
        BY <1>8 DEF AllAdd, AllUnqueue, TypeInv, LocalInv, LocalOK, Looping
      <3> QED BY <1>1, <1>4, <1>8, <3>1, CurObj DEF AllAdd, AllUnqueue, AllSteps
    <2>2. PICK o \in Objs : o = Here(t) /\ o = call[t].objs[i[t]]
      BY <2>1, CallType DEF Here
    <2>3. PICK me \in Entry : /\ me = MyEntry(t) /\ me.task = t /\ me.index = i[t]
                             /\ me = [task |-> t, index |-> i[t]]
      BY <1>4 DEF MyEntry, Entry
    <2>4. /\ OthersStay(t) /\ call'[t] = call[t]
          /\ pc'[t] \in {"all_queue", "all_hint"}
          /\ AllAdd(t) => pc[t] = "all_add" /\ pc'[t] = "all_queue" /\ i'[t] = i[t] + 1
          /\ AllUnqueue(t) => pc[t] = "all_unqueue" /\ pc'[t] = "all_hint" /\ i'[t] = i[t]
      BY <1>8, Moves, MovesFully DEF AllAdd, AllUnqueue
    <2>5. InAll(t) /\ InAll(t)' /\ StageOK(t)'
      BY <1>3, <2>1, <2>4 DEF InAll, StageOK, AllSteps, Trying, Checking, Within, IsAll
    <2>6. /\ allWaiters \in [Objs -> Seq(Entry)] /\ allWaiters[o] \in Seq(Entry) /\ Distinct(allWaiters[o])
      BY DEF TypeInv, QueueType, ListInv, ListDistinct
    <2>7. \A p \in Objs : p # o => allWaiters'[p] = allWaiters[p]
      BY <1>8, <2>2, <2>6 DEF AllAdd, AllUnqueue
    <2>8. \A e, p : p \in Objs /\ p # o => (InList(e, p)' <=> InList(e, p))
      BY <2>7 DEF InList
    <2>9. ASSUME \A e \in Entry : InList(e, o)' => /\ InList(e, o) \/ e = me
                                                   /\ e.task = t => e.index \in Queued(t)',
                 \A e \in Entry : InList(e, o) /\ e # me => InList(e, o)',
                 i[t] \in Queued(t)' => InList(me, o)',
                 Distinct(allWaiters'[o]),
                 \A k : k # i[t] => (k \in Queued(t)' <=> k \in Queued(t))
          PROVE  ListInv'
      <3>1. ASSUME NEW p \in Objs PROVE ListSound(p)' /\ ListDistinct(p)'
        <4>1. ASSUME NEW e \in Entry, InList(e, p)'
              PROVE  InAll(e.task)' /\ e.index \in Queued(e.task)' /\ call'[e.task].objs[e.index] = p
          <5>1. CASE p = o /\ e = me
            BY <2>2, <2>3, <2>4, <2>5, <2>9, <4>1, <5>1
          <5>2. CASE InList(e, p)
            <6>1. InAll(e.task) /\ e.index \in Queued(e.task) /\ call[e.task].objs[e.index] = p
              BY <5>2 DEF ListInv, ListSound
            <6>2. CASE e.task # t
              BY <1>5, <2>4, <6>1, <6>2, InAllOfOthers
            <6>3. CASE e.task = t /\ p = o
              BY <2>4, <2>5, <2>9, <4>1, <6>1, <6>3
            <6>4. CASE e.task = t /\ p # o
              <7>1. e.index # i[t]
                BY <2>2, <6>1, <6>4
              <7> QED BY <2>4, <2>5, <2>9, <6>1, <6>4, <7>1
            <6> QED BY <6>2, <6>3, <6>4
          <5> QED BY <2>8, <2>9, <4>1, <5>1, <5>2
        <4>2. Distinct(allWaiters'[p])
          BY <2>7, <2>9 DEF ListInv, ListDistinct
        <4> QED BY <4>1, <4>2 DEF ListSound, ListDistinct, Distinct
      <3>2. ASSUME NEW u \in Threads, InAll(u)', NEW k \in Queued(u)'
            PROVE  InList([task |-> u, index |-> k], call[u].objs[k])'
        <4> DEFINE e == [task |-> u, index |-> k]
        <4>1. call'[u] = call[u] /\ InAll(u)
          BY <2>4, <2>5, <3>2, InAllOfOthers
        <4>2. k \in 1..Len(call[u].objs)
          BY <3>2, <4>1 DEF Queued
        <4>3. k \in Nat /\ e \in Entry
          <5>1. k \in Nat
            BY <4>2
          <5> QED BY <5>1 DEF Entry
        <4>4. call[u].objs[k] \in Objs
          <5>1. call[u] \in Call \cup {NoCall}
            BY DEF TypeInv, LocalInv, LocalType
          <5> QED BY <4>2, <5>1, AnyCallType
        <4>5. CASE u = t /\ k = i[t]
          BY <2>2, <2>3, <2>9, <3>2, <4>1, <4>5
        <4>6. CASE ~(u = t /\ k = i[t])
          <5>1. k \in Queued(u)
            BY <2>4, <2>9, <3>2, <4>6, InAllOfOthers
          <5>2. InList(e, call[u].objs[k])
            BY <4>1, <5>1 DEF ListInv, ListComplete
          <5>3. e # me
            BY <2>3, <4>6
          <5>4. PICK p \in Objs : p = call[u].objs[k] /\ p = call'[u].objs[k]
            BY <4>1, <4>4
          <5>5. InList(e, p)'
            BY <2>8, <2>9, <4>3, <5>2, <5>3, <5>4
          <5> QED BY <5>4, <5>5
        <4> QED BY <4>5, <4>6
      <3>3. \A u \in Threads : ListComplete(u)'
        BY <3>2 DEF ListComplete
      <3>4. pc'[t] \notin Trying \cup {"wake_all"}
        BY <2>4 DEF Trying
      <3> QED BY <1>1, <1>2, <2>4, <2>5, <3>1, <3>3, <3>4, HolderListInv
    <2>10. CASE AllAdd(t)
      <3>1. allWaiters'[o] = Append(allWaiters[o], me)
        BY <2>2, <2>3, <2>6, <2>10 DEF AllAdd
      <3>2. /\ Len(allWaiters'[o]) = Len(allWaiters[o]) + 1 /\ Len(allWaiters[o]) \in Nat
            /\ \A n \in 1..Len(allWaiters[o]) : allWaiters'[o][n] = allWaiters[o][n]
            /\ allWaiters'[o][Len(allWaiters[o]) + 1] = me
        BY <2>3, <2>6, <3>1
      <3>3. i[t] \notin Queued(t) /\ i[t] \in Queued(t)'
            /\ \A k : k # i[t] => (k \in Queued(t)' <=> k \in Queued(t))
        BY <1>4, <2>1, <2>4, <2>10 DEF Queued
      <3>4. ~InList(me, o)
        BY <2>3, <3>3 DEF ListInv, ListSound
      <3>5. \A e : InList(e, o)' <=> (InList(e, o) \/ e = me)
        BY <3>2 DEF InList
      <3>6. Distinct(allWaiters'[o])
        <4>1. DOMAIN allWaiters[o] = 1..Len(allWaiters[o]) /\ DOMAIN allWaiters'[o] = 1..Len(allWaiters'[o])
          BY <2>3, <2>6, <3>1
        <4>2. \A n \in 1..Len(allWaiters[o]) : allWaiters[o][n] # me
          BY <3>4 DEF InList
        <4> QED BY <2>6, <3>2, <4>1, <4>2 DEF Distinct
      <3>7. ASSUME NEW e \in Entry, InList(e, o)', e.task = t PROVE e.index \in Queued(t)'
        <4>1. CASE e = me BY <2>3, <3>3, <4>1
        <4>2. CASE InList(e, o)
          <5>1. e.index \in Queued(t)
            BY <3>7, <4>2 DEF ListInv, ListSound
          <5> QED BY <3>3, <5>1
        <4> QED BY <3>5, <3>7, <4>1, <4>2
      <3> QED BY <2>9, <3>3, <3>5, <3>6, <3>7
    <2>11. CASE AllUnqueue(t)
      <3>1. PICK n \in 1..Len(allWaiters[o]) :
               allWaiters[o][n] = me /\ allWaiters' = [allWaiters EXCEPT ![o] = RemoveNth(@, n)]
        BY <2>2, <2>3, <2>11 DEF AllUnqueue
      <3>2. allWaiters'[o] = RemoveNth(allWaiters[o], n)
        BY <2>6, <3>1
      <3>3. /\ Distinct(allWaiters'[o])
            /\ \A j \in 1..Len(allWaiters'[o]) :
                  allWaiters'[o][j] # me /\ \E m \in 1..Len(allWaiters[o]) : allWaiters'[o][j] = allWaiters[o][m]
            /\ \A m \in 1..Len(allWaiters[o]) : m # n =>
                  \E j \in 1..Len(allWaiters'[o]) : allWaiters'[o][j] = allWaiters[o][m]
        BY <2>6, <3>1, <3>2, RemoveNthElems
      <3>4. \A e : InList(e, o)' <=> (InList(e, o) /\ e # me)
        <4>1. ASSUME NEW e, InList(e, o)' PROVE InList(e, o) /\ e # me
          <5>1. PICK j \in 1..Len(allWaiters'[o]) : allWaiters'[o][j] = e
            BY <4>1 DEF InList
          <5> QED BY <3>3, <5>1 DEF InList
        <4>2. ASSUME NEW e, InList(e, o), e # me PROVE InList(e, o)'
          <5>1. PICK m \in 1..Len(allWaiters[o]) : allWaiters[o][m] = e
            BY <4>2 DEF InList
          <5>2. PICK j \in 1..Len(allWaiters'[o]) : allWaiters'[o][j] = e
            BY <3>1, <3>3, <4>2, <5>1
          <5> QED BY <5>2 DEF InList
        <4> QED BY <4>1, <4>2
      <3>5. i[t] \notin Queued(t)' /\ \A k : k # i[t] => (k \in Queued(t)' <=> k \in Queued(t))
        BY <1>4, <2>1, <2>4, <2>11 DEF Queued
      <3>6. ASSUME NEW e \in Entry, InList(e, o)', e.task = t PROVE e.index \in Queued(t)'
        <4>1. InList(e, o) /\ e # me
          BY <3>4, <3>6
        <4>2. e.index # i[t]
          BY <1>5, <2>3, <3>6, <4>1
        <4>3. e.index \in Queued(t)
          BY <3>6, <4>1 DEF ListInv, ListSound
        <4> QED BY <3>5, <4>2, <4>3
      <3> QED BY <2>9, <3>3, <3>4, <3>5, <3>6
    <2> QED BY <1>8, <2>10, <2>11
  <1> QED
    BY <1>6, <1>7, <1>8

LEMMA InitListInv == Init => ListInv
  <1> SUFFICES ASSUME Init PROVE ListInv
    OBVIOUS
  <1>1. \A t \in Threads : pc[t] = "idle"
    BY DEF Init
  <1>2. \A t \in Threads : StageOK(t) /\ WalkOK(t) /\ ListComplete(t)
    BY <1>1 DEF StageOK, WalkOK, ListComplete, InAll, AllSteps, Trying, Checking, Within
  <1>3. ASSUME NEW o \in Objs PROVE ListSound(o) /\ ListDistinct(o)
    <2>1. allWaiters[o] = <<>>
      BY DEF Init
    <2> QED BY <2>1 DEF ListSound, ListDistinct, InList, Distinct
  <1> QED
    BY <1>2, <1>3 DEF ListInv

LEMMA NextListInv == TypeInv /\ LockInv /\ ListInv /\ [Next]_vars => ListInv'
  <1> SUFFICES ASSUME TypeInv, LockInv, ListInv, [Next]_vars PROVE ListInv'
    OBVIOUS
  <1>1. LockInv'
    BY NextLockInv
  <1>2. CASE UNCHANGED vars
    <2>1. UNCHANGED <<allWaiters, pc, call, stage, i, todo, target>>
      BY <1>2 DEF vars, queuevars, locals
    <2>2. \A u : /\ InAll(u)' <=> InAll(u)
                 /\ Queued(u)' = Queued(u) /\ (StageOK(u)' <=> StageOK(u))
      BY <2>1 DEF InAll, Queued, StageOK
    <2>3. \A e, o : InList(e, o)' <=> InList(e, o)
      BY <2>1 DEF InList
    <2>4. \A t \in Threads : WalkOK(t)' /\ ListComplete(t)'
      BY <2>1, <2>2, <2>3 DEF ListInv, WalkOK, ListComplete
    <2>5. \A o \in Objs : ListSound(o)' /\ ListDistinct(o)'
      BY <2>1, <2>2, <2>3 DEF ListInv, ListSound, ListDistinct
    <2> QED BY <2>2, <2>4, <2>5 DEF ListInv
  <1>3. CASE Next
    <2>1. PICK t \in Threads : Begin(t) \/ Die(t) \/ Interrupt(t) \/ Userspace(t) \/ Driver(t)
      BY <1>3 DEF Next
    <2>2. AllMutex(t) => pc[t] = "all_mutex" \/ pc[t] = "all_leave"
      BY DEF AllMutex
    <2> QED
      BY <1>1, <2>1, <2>2, FreeListInv, SectionListInv, LockingListInv, WakeAllListInv, AllQuietListInv, AllListInv
         DEF Interrupt, Driver, WakeUp, TimeOut
  <1> QED
    BY <1>2, <1>3

-----------------------------------------------------------------------------
(* ... sixth part: who has set dev_locked.                                 *)

\* The objects that try_wake_all has locked so far are dev_locked; and
\* nothing is but these and the object of the section that holds
\* wait_all_lock.
DevInv ==
    /\ \A t \in Threads : \A o \in Objs : TriesWith(t, o) => devLocked[o]
    /\ \A o \in Objs : devLocked[o] => allLock \in Threads /\ Inside(allLock, o)

\* While someone else holds wait_all_lock a wait-all does not end.
LEMMA TargetStays ==
  ASSUME TypeInv, LockInv, ListInv, NEW t \in Threads, OthersStay(t), NEW u \in Threads, u # t, pc[u] \in Trying,
         target[u] = t => ~InAll(t) \/ call'[t] = call[t]
  PROVE  call'[target[u]] = call[target[u]] /\ TargetSet(u)' = TargetSet(u) /\ TargetObjs(u)' = TargetObjs(u)
  <1>1. target[u] \in Threads /\ InAll(target[u]) /\ target'[u] = target[u]
    BY DEF TypeInv, LocalInv, LocalOK, ListInv, WalkOK, OthersStay
  <1>2. call'[target[u]] = call[target[u]]
    BY <1>1 DEF OthersStay
  <1> QED
    BY <1>1, <1>2 DEF TargetSet, TargetObjs

\* What t has to do with o does not change while others move.
LEMMA InsideOfOthers ==
  ASSUME TypeInv, LockInv, ListInv, NEW t \in Threads, OthersStay(t), NEW u \in Threads, u # t,
         pc[u] \in Trying /\ target[u] = t => ~InAll(t) \/ call'[t] = call[t]
  PROVE  \A o : (TriesWith(u, o)' <=> TriesWith(u, o)) /\ (Inside(u, o)' <=> Inside(u, o))
  <1>1. pc'[u] = pc[u] /\ cur'[u] = cur[u] /\ target'[u] = target[u] /\ i'[u] = i[u]
    BY DEF OthersStay
  <1>2. \A o : TriesWith(u, o)' <=> TriesWith(u, o)
    <2>1. CASE pc[u] \in Trying
      BY <1>1, <2>1, TargetStays DEF TriesWith, DevLocks
    <2>2. CASE pc[u] \notin Trying
      BY <1>1, <2>2 DEF TriesWith
    <2> QED BY <2>1, <2>2
  <1> QED
    BY <1>1, <1>2 DEF Inside, InSection

\* A thread that does not hold wait_all_lock.
LEMMA WithoutDevInv ==
  ASSUME TypeInv, LockInv, ListInv, DevInv, NEW t \in Threads, OthersStay(t),
         UNCHANGED <<devLocked, allLock>>, allLock # t, pc'[t] \notin Trying,
         InAll(t) => call'[t] = call[t]
  PROVE  DevInv'
  <1>1. \A u \in Threads : u # t => \A o : (TriesWith(u, o)' <=> TriesWith(u, o)) /\ (Inside(u, o)' <=> Inside(u, o))
    BY InsideOfOthers
  <1>2. \A o : ~TriesWith(t, o)'
    BY DEF TriesWith
  <1> QED
    BY <1>1, <1>2 DEF DevInv

\* The thread that holds wait_all_lock, before and after the step.
LEMMA HolderDevInv ==
  ASSUME TypeInv, LockInv, LockInv', NEW t \in Threads, allLock' = t,
         \A o \in Objs : TriesWith(t, o)' => devLocked'[o],
         \A o \in Objs : devLocked'[o] => Inside(t, o)'
  PROVE  DevInv'
  <1>1. \A u \in Threads : u # t => pc'[u] \notin Trying
    BY DEF LockInv, SectionOK, UnderAll
  <1>2. \A u \in Threads : u # t => \A o : ~TriesWith(u, o)'
    BY <1>1 DEF TriesWith
  <1> QED
    BY <1>2 DEF DevInv

\* A step after which nobody holds wait_all_lock.
LEMMA NobodyDevInv ==
  ASSUME TypeInv, LockInv', allLock' = NoOne, \A o \in Objs : ~devLocked'[o]
  PROVE  DevInv'
  <1>1. \A u \in Threads : pc'[u] \notin Trying
    BY ConstAssumption DEF LockInv, SectionOK, UnderAll
  <1>2. \A u \in Threads, o \in Objs : ~TriesWith(u, o)'
    BY <1>1 DEF TriesWith
  <1> QED
    BY <1>2 DEF DevInv

LEMMA FreeDevInv ==
  ASSUME TypeInv, LockInv, ListInv, DevInv, NEW t \in Threads,
         Begin(t) \/ Die(t) \/ Userspace(t) \/ Check(t) \/ LeaveSleep(t) \/ Return(t)
  PROVE  DevInv'
  <1>1. OthersStay(t) /\ pc[t] \in Free /\ pc'[t] \in Free /\ UNCHANGED <<devLocked, allLock>>
    BY FreeStep DEF lockvars
  <1>2. allLock # t /\ pc'[t] \notin Trying
    BY <1>1 DEF LockInv, SectionOK, UnderAll, AllSteps, Trying, InSection, Free
  <1>3. InAll(t) => call'[t] = call[t]
    <2>1. CASE Begin(t) \/ Die(t) \/ Userspace(t) \/ Return(t)
      <3>1. pc[t] \in Free \ {"check", "sleep", "all_leave", "lock"}
        BY <2>1 DEF Begin, Die, Userspace, FastReleaseDeclined, FastRelease, FastWake, Walk, SpinPeek,
                    SpinTake, Setup, Return, Free
      <3> QED BY <3>1 DEF InAll, Free, AllSteps, Trying, Checking, Within
    <2>2. CASE Check(t) \/ LeaveSleep(t)
      BY <2>2, MovesFully DEF Check, LeaveSleep
    <2> QED BY <2>1, <2>2
  <1> QED
    BY <1>1, <1>2, <1>3, WithoutDevInv

LEMMA SectionDevInv ==
  ASSUME TypeInv, LockInv, LockInv', ListInv, DevInv, NEW t \in Threads,
         \/ Queue(t) \/ Unqueue(t) \/ CheckObj(t) \/ SemRelease(t)
         \/ MutexUnlock(t) \/ MutexKill(t) \/ EventSet(t) \/ EventReset(t)
         \/ SemTakeHold(t) \/ SemClaim(t) \/ SemHoldDone(t) \/ SemGiveBack(t)
         \/ MutexScan(t) \/ EventScan(t) \/ ScanEnd(t)
  PROVE  DevInv'
  <1>1. /\ OthersStay(t) /\ cur'[t] = cur[t] /\ pc[t] \in Within /\ pc'[t] \in Within \cup {"wake_all"}
        /\ UNCHANGED <<devLocked, allLock>>
    BY SectionStep DEF lockvars
  <1>2. /\ \A o : ~TriesWith(t, o) /\ ~TriesWith(t, o)'
        /\ InSection(t) /\ InSection(t)' /\ pc'[t] \notin Trying
    BY <1>1 DEF TriesWith, InSection, Within, Trying
  <1>3. CASE allLock = t
    BY <1>1, <1>2, <1>3, HolderDevInv DEF DevInv, Inside
  <1>4. CASE allLock # t
    <2>1. call'[t] = call[t]
      <3>1. CASE Queue(t) \/ Unqueue(t) \/ CheckObj(t) \/ EventReset(t)
        BY <3>1, MovesFully DEF Queue, Unqueue, CheckObj, EventReset
      <3>2. CASE SemRelease(t) \/ MutexUnlock(t) \/ MutexKill(t) \/ EventSet(t)
        BY <3>2, MovesFully DEF SemRelease, MutexUnlock, MutexKill, EventSet, WakeAfter
      <3>3. CASE SemTakeHold(t) \/ SemClaim(t) \/ SemHoldDone(t) \/ SemGiveBack(t)
        BY <3>3, MovesFully DEF SemTakeHold, SemClaim, SemHoldDone, SemGiveBack
      <3>4. CASE MutexScan(t) \/ EventScan(t) \/ ScanEnd(t)
        BY <3>4, MovesFully DEF MutexScan, EventScan, ScanEnd
      <3> QED BY <3>1, <3>2, <3>3, <3>4
    <2> QED BY <1>1, <1>2, <1>4, <2>1, WithoutDevInv
  <1> QED
    BY <1>3, <1>4

LEMMA LockingDevInv ==
  ASSUME TypeInv, LockInv, LockInv', ListInv, DevInv, NEW t \in Threads,
         Lock(t) \/ LockMutex(t) \/ DevLock(t) \/ Unlock(t)
  PROVE  DevInv'
  <1> USE DEF Trying
  <1>1. PICK o \in Objs : o = cur[t]
    BY CurObj DEF Lock, LockMutex, DevLock, Unlock
  <1>2. devLocked \in [Objs -> BOOLEAN] /\ NoOne \notin Threads
    BY ConstAssumption DEF TypeInv, LockType
  <1>3. CASE Lock(t)
    <2>1. /\ OthersStay(t) /\ call'[t] = call[t] /\ pc[t] = "lock" /\ pc'[t] \in {"body", "mutex"}
          /\ UNCHANGED <<devLocked, allLock>>
      BY <1>3, Moves, MovesFully DEF Lock
    <2>2. allLock # t
      BY <2>1 DEF LockInv, SectionOK, UnderAll, AllSteps, InSection
    <2> QED BY <2>1, <2>2, WithoutDevInv
  <1>4. CASE LockMutex(t)
    <2>1. \A p \in Objs : ~devLocked'[p]
      BY <1>2, <1>4 DEF LockMutex, DevInv
    <2>2. pc'[t] \notin Trying /\ allLock' = t
      BY <1>4, Moves DEF LockMutex
    <2> QED BY <2>1, <2>2, HolderDevInv DEF TriesWith
  <1>5. CASE DevLock(t)
    <2>1. /\ pc[t] = "dev_lock" /\ pc'[t] = "body" /\ cur'[t] = o /\ allLock' = allLock
          /\ devLocked' = [devLocked EXCEPT ![o] = TRUE]
      BY <1>1, <1>5, Moves DEF DevLock
    <2>2. allLock = t
      BY <2>1 DEF LockInv, SectionOK, UnderAll
    <2>3. \A p \in Objs : ~devLocked[p]
      BY <2>1, <2>2 DEF DevInv, Inside, InSection, TriesWith
    <2>4. \A p \in Objs : devLocked'[p] => p = o
      BY <1>2, <2>1, <2>3
    <2>5. InSection(t)' /\ \A p : ~TriesWith(t, p)'
      BY <2>1 DEF InSection, TriesWith
    <2> QED BY <2>1, <2>2, <2>4, <2>5, HolderDevInv DEF Inside
  <1>6. CASE Unlock(t)
    <2>1. OthersStay(t) /\ pc[t] = "unlock" /\ pc'[t] \in {"lock", "check", "return", "idle"}
          /\ (stage[t] = "check" => call'[t] = call[t])
      BY <1>6, Moves, MovesFully DEF Unlock, AfterUnlock, Finish
    <2>2. CASE allLock = t
      <3>1. \A p \in Objs : devLocked[p] => p = o
        BY <1>1, <2>1, <2>2 DEF DevInv, Inside, TriesWith
      <3>2. allLock' = NoOne /\ devLocked' = [devLocked EXCEPT ![o] = FALSE]
        BY <1>1, <1>6, <2>2 DEF Unlock, All
      <3> QED BY <1>2, <3>1, <3>2, NobodyDevInv
    <2>3. CASE allLock # t
      <3>1. UNCHANGED <<devLocked, allLock>>
        BY <1>6, <2>3 DEF Unlock, All
      <3>2. InAll(t) => call'[t] = call[t]
        BY <2>1 DEF InAll, AllSteps, Checking, Within
      <3> QED BY <2>1, <2>3, <3>1, <3>2, WithoutDevInv
    <2> QED BY <2>2, <2>3
  <1> QED
    BY <1>3, <1>4, <1>5, <1>6

\* try_wake_all locks the objects one by one and unlocks exactly these.
LEMMA WakeAllDevInv ==
  ASSUME TypeInv, LockInv, LockInv', ListInv, DevInv, NEW t \in Threads,
         WakeAllNext(t) \/ WakeAllLock(t) \/ WakeAllTry(t) \/ WakeAllCommit(t) \/ WakeAllUnlock(t)
  PROVE  DevInv'
  <1>1. allLock = t
    BY DEF WakeAllNext, WakeAllLock, WakeAllTry, WakeAllCommit, WakeAllUnlock, LockInv, SectionOK, UnderAll, Trying
  <1>2. /\ \A o \in Objs : TriesWith(t, o) => devLocked[o]
        /\ \A o \in Objs : devLocked[o] => Inside(t, o)
    BY <1>1 DEF DevInv
  <1>3. devLocked \in [Objs -> BOOLEAN] /\ i[t] \in Nat \ {0}
    BY DEF TypeInv, LockType, LocalInv, LocalType
  <1>4. pc[t] \in Trying => TargetObjs(t) \in Seq(Objs) /\ Len(TargetObjs(t)) \in Nat
    <2>1. ASSUME pc[t] \in Trying PROVE call[target[t]] \in Call \cup {NoCall}
      BY <2>1 DEF TypeInv, LocalInv, LocalType, LocalOK
    <2> QED BY <2>1, AnyCallType DEF TargetObjs
  <1>5. CASE WakeAllNext(t)
    <2>1. pc[t] = "wake_all" /\ (\A o : ~TriesWith(t, o)) /\ UNCHANGED <<devLocked, allLock>>
      BY <1>5 DEF WakeAllNext, TriesWith, Trying, lockvars
    <2>2. /\ pc'[t] \in {"scan", "wa_lock"} /\ cur'[t] = cur[t]
          /\ pc'[t] = "wa_lock" => i'[t] = 1 /\ target'[t] # t
      <3>1. pc'[t] = "wa_lock" => target'[t] # t
        BY <1>5, WakeAllListInv
      <3>2. CASE todo[t] = <<>>
        BY <1>5, <3>2, Moves DEF WakeAllNext
      <3>3. CASE todo[t] # <<>>
        BY <1>5, <3>1, <3>3 DEF WakeAllNext, TypeInv, LocalInv, LocalType
      <3> QED BY <3>2, <3>3
    <2>3. InSection(t)' /\ \A o : ~TriesWith(t, o)'
      <3>1. InSection(t)'
        BY <2>2 DEF InSection, Trying
      <3>2. ASSUME NEW o PROVE ~TriesWith(t, o)'
        <4>1. \A k \in 1..Len(TargetObjs(t))' : ~(k < 1)
          OBVIOUS
        <4> QED BY <2>2, <4>1 DEF TriesWith, Trying
      <3> QED BY <3>1, <3>2
    <2> QED BY <1>1, <1>2, <2>1, <2>2, <2>3, HolderDevInv DEF Inside
  <1>6. ASSUME WakeAllLock(t) \/ WakeAllTry(t) \/ WakeAllCommit(t)
        PROVE  /\ pc[t] \in Trying /\ pc'[t] \in Trying /\ allLock' = t /\ cur'[t] = cur[t] /\ target'[t] = target[t]
               /\ TargetObjs(t)' = TargetObjs(t) /\ DevLocks(t)' = DevLocks(t) /\ (InSection(t)' <=> InSection(t))
    <2>1. /\ OthersStay(t) /\ call'[t] = call[t] /\ cur'[t] = cur[t] /\ target'[t] = target[t] /\ allLock' = t
          /\ pc[t] \in Trying /\ pc'[t] \in Trying
      BY <1>1, <1>6, Moves, MovesFully DEF WakeAllLock, WakeAllTry, WakeAllCommit, Trying, lockvars
    <2>2. target[t] \in Threads
      BY <2>1 DEF TypeInv, LocalInv, LocalOK
    <2>3. call'[target[t]] = call[target[t]]
      BY <2>1, <2>2 DEF OthersStay
    <2>4. TargetObjs(t)' = TargetObjs(t)
      BY <2>1, <2>3 DEF TargetObjs
    <2> QED BY <2>1, <2>4 DEF DevLocks, TargetSet, InSection, Trying
  <1>7. CASE WakeAllLock(t)
    <2> DEFINE o == TargetObjs(t)[i[t]]
    <2>1. /\ pc[t] = "wa_lock" /\ pc'[t] = "wa_lock" /\ i'[t] = i[t] + 1 /\ i[t] <= Len(TargetObjs(t))
          /\ IF o \in DevLocks(t) THEN devLocked' = [devLocked EXCEPT ![o] = TRUE] ELSE devLocked' = devLocked
      BY <1>7, Moves, MovesFully DEF WakeAllLock
    <2>2. i[t] \in 1..Len(TargetObjs(t)) /\ o \in Objs
      BY <1>3, <1>4, <2>1 DEF Trying
    <2>3. \A p : TriesWith(t, p)' <=> (TriesWith(t, p) \/ (p = o /\ o \in DevLocks(t)))
      <3>1. \A k \in 1..Len(TargetObjs(t)) : k < i'[t] <=> (k < i[t] \/ k = i[t])
        BY <1>3, <2>1
      <3>2. \A p : (\E k \in 1..Len(TargetObjs(t)) : TargetObjs(t)[k] = p /\ k < i'[t])
                 <=> ((\E k \in 1..Len(TargetObjs(t)) : TargetObjs(t)[k] = p /\ k < i[t]) \/ p = o)
        BY <2>2, <3>1
      <3> QED BY <1>6, <1>7, <2>1, <3>2 DEF TriesWith, Trying
    <2>4. \A p \in Objs : devLocked'[p] <=> (devLocked[p] \/ (p = o /\ o \in DevLocks(t)))
      BY <1>3, <2>1, <2>2
    <2>5. \A p \in Objs : TriesWith(t, p)' => devLocked'[p]
      BY <1>2, <2>3, <2>4
    <2>6. \A p \in Objs : devLocked'[p] => Inside(t, p)'
      BY <1>2, <1>6, <1>7, <2>3, <2>4 DEF Inside
    <2> QED BY <1>1, <1>6, <1>7, <2>5, <2>6, HolderDevInv
  <1>8. CASE WakeAllTry(t) \/ WakeAllCommit(t)
    <2>1. UNCHANGED devLocked /\ pc'[t] # "wa_lock"
      BY <1>8, Moves DEF WakeAllTry, WakeAllCommit, lockvars
    <2>2. \A o : TriesWith(t, o)' <=> TriesWith(t, o)
      <3>1. CASE WakeAllTry(t)
        <4>1. i[t] > Len(TargetObjs(t))
          BY <3>1 DEF WakeAllTry
        <4>2. pc[t] \in Trying
          BY <3>1 DEF WakeAllTry, Trying
        <4>3. \A k \in 1..Len(TargetObjs(t)) : k < i[t]
          BY <1>3, <1>4, <4>1, <4>2
        <4>4. \A o \in DevLocks(t) : \E k \in 1..Len(TargetObjs(t)) : TargetObjs(t)[k] = o
          BY DEF DevLocks, TargetSet
        <4>5. \A o : TriesWith(t, o) <=> o \in DevLocks(t)
          BY <4>2, <4>3, <4>4 DEF TriesWith
        <4>6. \A o : TriesWith(t, o)' <=> o \in DevLocks(t)'
          BY <1>6, <2>1, <3>1 DEF TriesWith
        <4> QED BY <1>6, <3>1, <4>5, <4>6
      <3>2. CASE WakeAllCommit(t)
        BY <1>6, <2>1, <3>2 DEF WakeAllCommit, TriesWith
      <3> QED BY <1>8, <3>1, <3>2
    <2> QED BY <1>1, <1>2, <1>6, <1>8, <2>1, <2>2, HolderDevInv DEF Inside
  <1>9. CASE WakeAllUnlock(t)
    <2>1. /\ pc[t] = "wa_unlock" /\ cur'[t] = cur[t] /\ target'[t] = target[t]
          /\ \A o \in Objs : devLocked'[o] <=> devLocked[o] /\ o \notin DevLocks(t)
          /\ IF target[t] = t THEN pc'[t] = "check" /\ allLock' = NoOne
                              ELSE pc'[t] = "wake_all" /\ allLock' = t
      BY <1>1, <1>3, <1>9, Moves DEF WakeAllUnlock
    <2>2. \A o : TriesWith(t, o) <=> o \in DevLocks(t)
      BY <2>1 DEF TriesWith, Trying
    <2>3. CASE target[t] = t
      <3>1. ~InSection(t)
        BY <2>1, <2>3 DEF InSection, Trying
      <3>2. \A o \in Objs : ~devLocked'[o]
        BY <1>2, <2>1, <2>2, <3>1 DEF Inside
      <3> QED BY <2>1, <2>3, <3>2, NobodyDevInv
    <2>4. CASE target[t] # t
      <3>1. InSection(t)' /\ \A o : ~TriesWith(t, o)'
        BY <2>1, <2>4 DEF InSection, TriesWith, Trying
      <3> QED BY <1>1, <1>2, <2>1, <2>2, <2>4, <3>1, HolderDevInv DEF Inside
    <2> QED BY <2>3, <2>4
  <1> QED
    BY <1>5, <1>7, <1>8, <1>9

\* ntsync_wait_all has nothing locked while it queues and unqueues.
LEMMA AllDevInv ==
  ASSUME TypeInv, LockInv, LockInv', DevInv, NEW t \in Threads,
         \/ AllMutex(t) \/ AllQueue(t) \/ AllFlag(t) \/ AllAdd(t) \/ AllQueued(t)
         \/ AllUnqueue(t) \/ AllUnhint(t) \/ AllClear(t) \/ AllUnqueued(t)
  PROVE  DevInv'
  <1>1. UNCHANGED devLocked
    BY DEF AllMutex, AllQueue, AllFlag, AllAdd, AllQueued, AllUnqueue, AllUnhint, AllClear, AllUnqueued, lockvars
  <1>2. pc[t] \in AllSteps => allLock = t
    BY DEF LockInv, SectionOK, UnderAll
  <1>3. \A o \in Objs : ~devLocked'[o]
    <2>1. CASE AllMutex(t)
      BY <1>1, <2>1, ConstAssumption DEF AllMutex, DevInv
    <2>2. CASE pc[t] \in AllSteps
      BY <1>1, <1>2, <2>2 DEF DevInv, Inside, InSection, TriesWith, AllSteps, Trying
    <2> QED
      BY <2>1, <2>2 DEF AllQueue, AllFlag, AllAdd, AllQueued, AllUnqueue, AllUnhint, AllClear, AllUnqueued, AllSteps
  <1>4. CASE AllUnqueued(t)
    BY <1>3, <1>4, NobodyDevInv DEF AllUnqueued
  <1>5. CASE AllQueued(t)
    <2>1. pc'[t] = "wa_lock" /\ i'[t] = 1 /\ allLock' = t
      BY <1>2, <1>5 DEF AllQueued, TypeInv, LocalInv, LocalType, lockvars, AllSteps
    <2>2. ASSUME NEW o PROVE ~TriesWith(t, o)'
      <3>1. \A k \in 1..Len(TargetObjs(t))' : ~(k < 1)
        OBVIOUS
      <3> QED BY <2>1, <3>1 DEF TriesWith
    <2> QED BY <1>3, <2>1, <2>2, HolderDevInv
  <1>6. CASE \/ AllMutex(t) \/ AllQueue(t) \/ AllFlag(t) \/ AllAdd(t)
             \/ AllUnqueue(t) \/ AllUnhint(t) \/ AllClear(t)
    <2>1. pc'[t] \notin Trying /\ allLock' = t
      <3>1. CASE AllMutex(t) BY <3>1, Moves DEF AllMutex, Trying
      <3>2. CASE AllQueue(t) \/ AllFlag(t) \/ AllAdd(t)
        BY <1>2, <3>2, Moves DEF AllQueue, AllFlag, AllAdd, AllSteps, Trying, lockvars
      <3>3. CASE AllUnqueue(t) \/ AllUnhint(t) \/ AllClear(t)
        BY <1>2, <3>3, Moves DEF AllUnqueue, AllUnhint, AllClear, AllSteps, Trying, lockvars
      <3> QED BY <1>6, <3>1, <3>2, <3>3
    <2> QED BY <1>3, <2>1, HolderDevInv DEF TriesWith
  <1> QED
    BY <1>4, <1>5, <1>6

LEMMA InitDevInv == Init => DevInv
  BY DEF Init, DevInv, TriesWith, Trying

LEMMA NextDevInv == TypeInv /\ LockInv /\ ListInv /\ DevInv /\ [Next]_vars => DevInv'
  <1> SUFFICES ASSUME TypeInv, LockInv, ListInv, DevInv, [Next]_vars PROVE DevInv'
    OBVIOUS
  <1>1. LockInv'
    BY NextLockInv
  <1>2. CASE UNCHANGED vars
    BY <1>2 DEF vars, lockvars, locals, DevInv, TriesWith, Inside, InSection, DevLocks, TargetSet, TargetObjs
  <1>3. CASE Next
    <2>1. PICK t \in Threads : Begin(t) \/ Die(t) \/ Interrupt(t) \/ Userspace(t) \/ Driver(t)
      BY <1>3 DEF Next
    <2> QED
      BY <1>1, <2>1, FreeDevInv, SectionDevInv, LockingDevInv, WakeAllDevInv, AllDevInv
         DEF Interrupt, Driver, WakeUp, TimeOut
  <1> QED
    BY <1>2, <1>3

LEMMA AlwaysDevInv == Spec => [](TypeInv /\ LockInv /\ HintInv /\ ListInv /\ DevInv)
  <1> DEFINE Inv == TypeInv /\ LockInv /\ HintInv /\ ListInv /\ DevInv
  <1>1. Init => Inv
    BY InitTypeInv, InitLockInv, InitHintInv, InitListInv, InitDevInv
  <1>2. Inv /\ [Next]_vars => Inv'
    BY NextTypeInv, NextLockInv, NextHintInv, NextListInv, NextDevInv
  <1> QED
    BY <1>1, <1>2, PTL DEF Spec

LEMMA InvExcludes == TypeInv /\ LockInv /\ DevInv => MutualExclusion
  <1> SUFFICES ASSUME TypeInv, LockInv, DevInv PROVE MutualExclusion
    OBVIOUS
  <1>1. SectionExclusion
    BY LockInvExclusion
  <1>2. NoOne \notin Threads
    BY ConstAssumption
  <1>3. ASSUME NEW o \in Objs, NEW t \in Threads, NEW u \in Threads, Inside(t, o), TriesWith(u, o) PROVE t = u
    <2>1. allLock = u /\ devLocked[o]
      BY <1>3 DEF TriesWith, DevInv, LockInv, SectionOK, UnderAll
    <2>2. CASE TriesWith(t, o)
      BY <2>1, <2>2 DEF TriesWith, LockInv, SectionOK, UnderAll
    <2>3. CASE InSection(t) /\ cur[t] = o
      BY <1>2, <2>1, <2>3 DEF LockInv, OneWayIn, SectionOK
    <2> QED BY <1>3, <2>2, <2>3 DEF Inside
  <1>4. \A o \in Objs : \A t, u \in Threads : Inside(t, o) /\ Inside(u, o) => t = u
    BY <1>1, <1>3 DEF Inside, SectionExclusion
  <1>5. allLock = NoOne => \A o \in Objs : ~devLocked[o]
    BY <1>2 DEF DevInv
  <1> QED
    BY <1>4, <1>5 DEF MutualExclusion

\* Whichever way a thread got hold of an object, by obj->lock, by dev_locked
\* in ntsync_lock_obj or by dev_lock_obj in try_wake_all, it has it alone;
\* and dev_locked is set only while someone holds wait_all_lock.
THEOREM LocksExclude == Spec => []MutualExclusion
  BY AlwaysDevInv, InvExcludes, PTL

-----------------------------------------------------------------------------
(* What try_wake_all checked stays true until it has committed.            *)

\* A wait-all keeps its arguments whatever its task does.
LEMMA CallStays ==
  ASSUME TypeInv, NEW t \in Threads, InAll(t),
         Begin(t) \/ Die(t) \/ LeaveSleep(t) \/ Userspace(t) \/ Driver(t)
  PROVE  call'[t] = call[t]
  <1>1. pc[t] \notin {"idle", "dead", "fast_release", "fast_wake", "walk", "spin", "spin_take", "setup", "return"}
    BY DEF InAll, AllSteps, Trying, Checking, Within
  <1>2. ~Begin(t) /\ ~Die(t) /\ ~Userspace(t) /\ ~Return(t)
    BY <1>1 DEF Begin, Die, Userspace, FastReleaseDeclined, FastRelease, FastWake, Walk, SpinPeek, SpinTake,
                Setup, Return
  <1>3. CASE Lock(t) \/ LockMutex(t) \/ DevLock(t)
    BY <1>3, MovesFully DEF Lock, LockMutex, DevLock
  <1>4. CASE Unlock(t)
    <2>1. pc[t] = "unlock" /\ stage[t] = "check"
      BY <1>4 DEF Unlock, InAll, AllSteps, Trying
    <2> QED BY <1>4, <2>1, MovesFully DEF Unlock, AfterUnlock
  <1>5. CASE Queue(t) \/ Unqueue(t) \/ CheckObj(t) \/ EventReset(t)
    BY <1>5, MovesFully DEF Queue, Unqueue, CheckObj, EventReset
  <1>6. CASE SemRelease(t) \/ MutexUnlock(t) \/ MutexKill(t) \/ EventSet(t)
    BY <1>6, MovesFully DEF SemRelease, MutexUnlock, MutexKill, EventSet, WakeAfter
  <1>7. CASE SemTakeHold(t) \/ SemClaim(t) \/ SemHoldDone(t) \/ SemGiveBack(t)
    BY <1>7, MovesFully DEF SemTakeHold, SemClaim, SemHoldDone, SemGiveBack
  <1>8. CASE MutexScan(t) \/ EventScan(t) \/ ScanEnd(t)
    BY <1>8, MovesFully DEF MutexScan, EventScan, ScanEnd
  <1>9. CASE WakeAllNext(t)
    BY <1>9, MovesFully DEF WakeAllNext
  <1>10. CASE WakeAllLock(t) \/ WakeAllTry(t) \/ WakeAllCommit(t) \/ WakeAllUnlock(t)
    BY <1>10, MovesFully DEF WakeAllLock, WakeAllTry, WakeAllCommit, WakeAllUnlock
  <1>11. CASE Check(t) \/ LeaveSleep(t)
    BY <1>11, MovesFully DEF Check, LeaveSleep
  <1>12. CASE AllMutex(t) \/ AllQueue(t) \/ AllFlag(t) \/ AllAdd(t) \/ AllQueued(t)
    BY <1>12, MovesFully DEF AllMutex, AllQueue, AllFlag, AllAdd, AllQueued
  <1>13. CASE AllUnqueue(t) \/ AllUnhint(t) \/ AllClear(t) \/ AllUnqueued(t)
    BY <1>13, MovesFully DEF AllUnqueue, AllUnhint, AllClear, AllUnqueued
  <1> QED
    BY <1>2, <1>3, <1>4, <1>5, <1>6, <1>7, <1>8, <1>9, <1>10, <1>11, <1>12, <1>13
       DEF Driver, WakeUp, TimeOut

\* While a wait-all is tried, nobody else is inside one of its objects, and
\* the fast path keeps away from them.
LEMMA TargetGuarded ==
  ASSUME TypeInv, LockInv, HintInv, ListInv, DevInv, NEW u \in Threads, pc[u] = "wa_commit", NEW o \in TargetSet(u)
  PROVE  /\ o \in Objs /\ Inside(u, o) /\ waitAll[o]
         /\ \A t \in Threads : t # u => ~Inside(t, o)
  <1>1. target[u] \in Threads /\ InAll(target[u]) /\ allLock = u
    BY DEF TypeInv, LocalInv, LocalOK, ListInv, WalkOK, LockInv, SectionOK, UnderAll, Trying
  <1>2. call[target[u]] \in Call \cup {NoCall}
    BY <1>1 DEF TypeInv, LocalInv, LocalType
  <1>3. PICK k \in 1..Len(TargetObjs(u)) : o = TargetObjs(u)[k]
    BY DEF TargetSet
  <1>4. o \in Objs
    BY <1>2, <1>3, AnyCallType DEF TargetObjs
  <1>5. Inside(u, o)
    <2>1. CASE o \in DevLocks(u)
      BY <2>1 DEF Inside, TriesWith, Trying
    <2>2. CASE o \notin DevLocks(u)
      BY <2>2 DEF DevLocks, Inside, InSection, Trying
    <2> QED BY <2>1, <2>2
  <1>6. waitAll[o]
    <2>1. pc[target[u]] \notin AllSteps
      <3>1. CASE target[u] = u BY <3>1 DEF AllSteps
      <3>2. CASE target[u] # u BY <1>1, <3>2 DEF LockInv, SectionOK, UnderAll
      <3> QED BY <3>1, <3>2
    <2>2. k \in Queued(target[u])
      BY <1>3, <2>1 DEF Queued, TargetObjs, AllSteps
    <2>3. InList([task |-> target[u], index |-> k], o)
      BY <1>1, <1>3, <2>2 DEF ListInv, ListComplete, TargetObjs
    <2>4. allWaiters[o] # <<>>
      BY <2>3 DEF InList
    <2> QED BY <1>4, <2>4, HintInvAccurate DEF WaitersAccurate
  <1>7. MutualExclusion
    BY InvExcludes
  <1> QED
    BY <1>4, <1>5, <1>6, <1>7 DEF MutualExclusion

\* A step that changes, if anything, objects that nobody else is trying.
LEMMA CommitFrame ==
  ASSUME TypeInv, TypeInv', LockInv, HintInv, ListInv, DevInv, WaitAllCommits, NEW t \in Threads, OthersStay(t),
         InAll(t) => call'[t] = call[t],
         pc'[t] # "wa_commit",
         \A u \in Threads : u # t /\ pc[u] = "wa_commit" => \A o \in TargetSet(u) :
             count'[o] >= count[o] /\ mcount'[o] = mcount[o] /\ mowner'[o] = mowner[o] /\ event'[o] = event[o]
  PROVE  WaitAllCommits'
  <1> SUFFICES ASSUME NEW u \in Threads, pc'[u] = "wa_commit", NEW o \in TargetSet(u)' PROVE IsSignaled(o, target[u])'
    BY DEF WaitAllCommits
  <1>1. u # t /\ pc[u] = "wa_commit" /\ target'[u] = target[u]
    BY DEF OthersStay
  <1>2. TargetSet(u)' = TargetSet(u)
    BY <1>1, TargetStays DEF Trying
  <1>3. o \in Objs
    BY <1>1, <1>2, TargetGuarded
  <1>4. IsSignaled(o, target[u])
    BY <1>1, <1>2 DEF WaitAllCommits
  <1>5. count'[o] >= count[o] /\ mcount'[o] = mcount[o] /\ mowner'[o] = mowner[o] /\ event'[o] = event[o]
    BY <1>1, <1>2
  <1>6. Type[o] \in {"sem", "mutex", "event"} /\ count[o] \in Nat /\ count'[o] \in Nat
    BY <1>3, ConstAssumption DEF TypeInv, ObjType
  <1>7. CASE Type[o] = "sem"
    BY <1>4, <1>5, <1>6, <1>7 DEF IsSignaled
  <1>8. CASE Type[o] = "mutex"
    BY <1>1, <1>4, <1>5, <1>8 DEF IsSignaled
  <1>9. CASE Type[o] = "event"
    BY <1>4, <1>5, <1>9 DEF IsSignaled
  <1> QED
    BY <1>6, <1>7, <1>8, <1>9

\* The fast path: a release only adds units, an acquire stays out.
LEMMA FreeCommits ==
  ASSUME TypeInv, TypeInv', LockInv, HintInv, ListInv, DevInv, WaitAllCommits, NEW t \in Threads,
         Begin(t) \/ Die(t) \/ Userspace(t) \/ Check(t) \/ LeaveSleep(t) \/ Return(t)
  PROVE  WaitAllCommits'
  <1>1. OthersStay(t) /\ pc'[t] # "wa_commit"
    BY FreeStep DEF Free
  <1>2. InAll(t) => call'[t] = call[t]
    BY CallStays DEF Driver
  <1>3. UNCHANGED private
    BY DEF Begin, Die, Userspace, FastReleaseDeclined, FastRelease, FastWake, Walk, SpinPeek, SpinTake, FastTake,
           Setup, Check, LeaveSleep, Return, objvars
  <1>4. ASSUME NEW p \in Objs, waitAll[p] PROVE count'[p] >= count[p]
    <2>1. count \in [Objs -> Nat] /\ count[p] \in Nat
      BY DEF TypeInv, ObjType
    <2>2. CASE UNCHANGED count
      BY <2>1, <2>2
    <2>3. CASE FastRelease(t)
      <3>1. cur[t] \in Objs /\ call[t].n \in Nat /\ count' = [count EXCEPT ![cur[t]] = @ + call[t].n]
        BY <2>3, CurObj, CallType DEF FastRelease
      <3> QED BY <2>1, <3>1
    <2>4. ASSUME pc[t] \in Looping, FastTake(t, Here(t)) PROVE count'[p] >= count[p]
      <3>1. Here(t) \in Objs /\ p # Here(t) /\ count' = [count EXCEPT ![Here(t)] = @ - 1]
        BY <1>4, <2>4, LoopingObj DEF FastTake, FastAcquire, TypeInv
      <3> QED BY <2>1, <3>1
    <2> QED
      BY <2>2, <2>3, <2>4 DEF Begin, Die, Userspace, FastReleaseDeclined, FastWake, Walk, SpinPeek, SpinTake,
           Setup, Check, LeaveSleep, Return, objvars, word, Looping
  <1>5. \A u \in Threads : u # t /\ pc[u] = "wa_commit" => \A o \in TargetSet(u) :
          count'[o] >= count[o] /\ mcount'[o] = mcount[o] /\ mowner'[o] = mowner[o] /\ event'[o] = event[o]
    BY <1>3, <1>4, TargetGuarded DEF private
  <1> QED
    BY <1>1, <1>2, <1>5, CommitFrame

\* A locked section changes its own object only.
LEMMA SectionCommits ==
  ASSUME TypeInv, TypeInv', LockInv, HintInv, ListInv, DevInv, WaitAllCommits, NEW t \in Threads,
         \/ Queue(t) \/ Unqueue(t) \/ CheckObj(t) \/ SemRelease(t)
         \/ MutexUnlock(t) \/ MutexKill(t) \/ EventSet(t) \/ EventReset(t)
         \/ SemTakeHold(t) \/ SemClaim(t) \/ SemHoldDone(t) \/ SemGiveBack(t)
         \/ MutexScan(t) \/ EventScan(t) \/ ScanEnd(t)
  PROVE  WaitAllCommits'
  <1>1. OthersStay(t) /\ pc[t] \in Within /\ pc'[t] # "wa_commit"
    BY SectionStep DEF Within
  <1>2. InAll(t) => call'[t] = call[t]
    BY CallStays DEF Driver
  <1>3. PICK c \in Objs : c = cur[t]
    BY <1>1, CurObj DEF Within
  <1>4. ASSUME NEW p \in Objs, p # c
        PROVE  count'[p] >= count[p] /\ mcount'[p] = mcount[p] /\ mowner'[p] = mowner[p] /\ event'[p] = event[p]
    <2>1. /\ count \in [Objs -> Nat] /\ mcount \in [Objs -> Nat] /\ mowner \in [Objs -> Threads \cup {NoOne}]
          /\ event \in [Objs -> BOOLEAN] /\ count[p] \in Nat
      BY DEF TypeInv, ObjType
    <2>2. count'[p] = count[p]
      <3>1. CASE UNCHANGED count
        BY <3>1
      <3>2. CASE SemRelease(t) \/ SemTakeHold(t) \/ SemGiveBack(t)
        BY <1>3, <1>4, <2>1, <3>2 DEF SemRelease, SemTakeHold, SemGiveBack
      <3> QED
        BY <3>1, <3>2 DEF Queue, Unqueue, CheckObj, MutexUnlock, MutexKill, EventSet, EventReset,
           SemClaim, SemHoldDone, MutexScan, EventScan, ScanEnd, objvars, word
    <2>3. mcount'[p] = mcount[p] /\ mowner'[p] = mowner[p]
      <3>1. CASE UNCHANGED <<mcount, mowner>>
        BY <3>1
      <3>2. CASE MutexUnlock(t) \/ MutexKill(t) \/ MutexScan(t)
        BY <1>3, <1>4, <2>1, <3>2 DEF MutexUnlock, MutexKill, MutexScan
      <3> QED
        BY <3>1, <3>2 DEF Queue, Unqueue, CheckObj, SemRelease, EventSet, EventReset, SemTakeHold, SemGiveBack,
           SemClaim, SemHoldDone, EventScan, ScanEnd, objvars, private
    <2>4. event'[p] = event[p]
      <3>1. CASE UNCHANGED event
        BY <3>1
      <3>2. CASE EventSet(t) \/ EventReset(t) \/ EventScan(t) \/ ScanEnd(t)
        BY <1>3, <1>4, <2>1, <3>2 DEF EventSet, EventReset, EventScan, ScanEnd
      <3> QED
        BY <3>1, <3>2 DEF Queue, Unqueue, CheckObj, SemRelease, MutexUnlock, MutexKill, MutexScan, SemTakeHold,
           SemGiveBack, SemClaim, SemHoldDone, objvars, private
    <2> QED BY <2>1, <2>2, <2>3, <2>4
  <1>5. Inside(t, c)
    BY <1>1, <1>3 DEF Within, Inside, InSection
  <1>6. \A u \in Threads : u # t /\ pc[u] = "wa_commit" => \A o \in TargetSet(u) :
          count'[o] >= count[o] /\ mcount'[o] = mcount[o] /\ mowner'[o] = mowner[o] /\ event'[o] = event[o]
    BY <1>4, <1>5, TargetGuarded
  <1> QED
    BY <1>1, <1>2, <1>6, CommitFrame

\* The steps that leave all objects alone, and the try itself.
LEMMA OtherCommits ==
  ASSUME TypeInv, TypeInv', LockInv, HintInv, ListInv, DevInv, WaitAllCommits, NEW t \in Threads,
         \/ Lock(t) \/ LockMutex(t) \/ DevLock(t) \/ Unlock(t)
         \/ WakeAllNext(t) \/ WakeAllLock(t) \/ WakeAllTry(t) \/ WakeAllCommit(t) \/ WakeAllUnlock(t)
         \/ AllMutex(t) \/ AllQueue(t) \/ AllFlag(t) \/ AllAdd(t) \/ AllQueued(t)
         \/ AllUnqueue(t) \/ AllUnhint(t) \/ AllClear(t) \/ AllUnqueued(t)
  PROVE  WaitAllCommits'
  <1>1. OthersStay(t) /\ (~WakeAllTry(t) => pc'[t] # "wa_commit")
    <2>1. CASE Lock(t) \/ LockMutex(t) \/ DevLock(t) \/ Unlock(t)
      BY <2>1, Moves DEF Lock, LockMutex, DevLock, Unlock, AfterUnlock, Finish
    <2>2. CASE WakeAllNext(t)
      BY <2>2, WakeAllNextMoves DEF WakeAllNext
    <2>3. CASE WakeAllLock(t) \/ WakeAllTry(t) \/ WakeAllCommit(t) \/ WakeAllUnlock(t)
      BY <2>3, Moves DEF WakeAllLock, WakeAllTry, WakeAllCommit, WakeAllUnlock
    <2>4. CASE AllMutex(t) \/ AllUnqueued(t)
      BY <2>4, Moves DEF AllMutex, AllUnqueued
    <2>5. CASE AllQueue(t) \/ AllFlag(t) \/ AllAdd(t)
      BY <2>5, Moves DEF AllQueue, AllFlag, AllAdd
    <2>6. CASE AllUnqueue(t) \/ AllUnhint(t) \/ AllClear(t)
      BY <2>6, Moves DEF AllUnqueue, AllUnhint, AllClear
    <2>7. CASE AllQueued(t)
      BY <2>7 DEF AllQueued, OthersStay, TypeInv, LocalInv, LocalType
    <2> QED
      BY <2>1, <2>2, <2>3, <2>4, <2>5, <2>6, <2>7
  <1>2. InAll(t) => call'[t] = call[t]
    BY CallStays DEF Driver
  <1>3. ~WakeAllCommit(t) => UNCHANGED <<count, mcount, mowner, event>>
    BY DEF Lock, LockMutex, DevLock, Unlock, WakeAllNext, WakeAllLock, WakeAllTry, WakeAllUnlock,
           AllMutex, AllQueue, AllFlag, AllAdd, AllQueued, AllUnqueue, AllUnhint, AllClear, AllUnqueued,
           objvars, word, private
  <1>4. WakeAllCommit(t) => \A u \in Threads : pc[u] = "wa_commit" => u = t
    BY DEF WakeAllCommit, LockInv, SectionOK, UnderAll, Trying
  <1>5. \A u \in Threads : u # t /\ pc[u] = "wa_commit" => \A o \in TargetSet(u) :
          count'[o] >= count[o] /\ mcount'[o] = mcount[o] /\ mowner'[o] = mowner[o] /\ event'[o] = event[o]
    <2>1. \A o \in Objs : count[o] \in Nat
      BY DEF TypeInv, ObjType
    <2> QED BY <1>3, <1>4, <2>1, TargetGuarded
  <1>6. CASE WakeAllTry(t)
    <2>1. ASSUME NEW u \in Threads, u # t PROVE pc'[u] # "wa_commit"
      BY <1>1, <1>6, <2>1 DEF WakeAllTry, LockInv, SectionOK, UnderAll, Trying, OthersStay
    <2>2. ASSUME pc'[t] = "wa_commit" PROVE \A o \in TargetSet(t)' : IsSignaled(o, target[t])'
      <3>1. /\ target'[t] = target[t] /\ call' = call
            /\ \A o \in TargetSet(t) : IsSignaled(o, target[t])
        BY <1>6, <2>2, Moves DEF WakeAllTry, Goto, locals
      <3>2. \A o, u : IsSignaled(o, u)' <=> IsSignaled(o, u)
        BY <1>3, <1>6 DEF WakeAllTry, WakeAllCommit, IsSignaled
      <3>3. TargetSet(t)' = TargetSet(t)
        BY <3>1 DEF TargetSet, TargetObjs
      <3> QED BY <3>1, <3>2, <3>3
    <2> QED BY <2>1, <2>2 DEF WaitAllCommits
  <1>7. CASE ~WakeAllTry(t)
    BY <1>1, <1>2, <1>5, <1>7, CommitFrame
  <1> QED
    BY <1>6, <1>7

\* When try_wake_all commits a wait-all, every object of it is still what
\* its check found: a semaphore has a unit (ntsync_sem_take cannot fail, the
\* WARN_ON_ONCE of try_wake_all never fires), a mutex is free or the
\* waiter's, an event is signaled.
THEOREM CommitsSucceed == Spec => []WaitAllCommits
  <1> DEFINE Inv == TypeInv /\ LockInv /\ HintInv /\ ListInv /\ DevInv
  <1>1. Init => WaitAllCommits
    BY DEF Init, WaitAllCommits
  <1>2. ASSUME Inv, Inv', WaitAllCommits, [Next]_vars PROVE WaitAllCommits'
    <2>1. CASE UNCHANGED vars
      <3>1. UNCHANGED <<count, mcount, mowner, event, pc, call, target>>
        BY <2>1 DEF vars, word, private, locals
      <3>2. \A o, u : IsSignaled(o, u)' <=> IsSignaled(o, u)
        BY <3>1 DEF IsSignaled
      <3>3. \A t : TargetSet(t)' = TargetSet(t)
        BY <3>1 DEF TargetSet, TargetObjs
      <3> QED BY <1>2, <3>1, <3>2, <3>3 DEF WaitAllCommits
    <2>2. CASE Next
      <3>1. PICK t \in Threads : Begin(t) \/ Die(t) \/ Interrupt(t) \/ Userspace(t) \/ Driver(t)
        BY <2>2 DEF Next
      <3> QED
        BY <1>2, <3>1, FreeCommits, SectionCommits, OtherCommits DEF Interrupt, Driver, WakeUp, TimeOut
    <2> QED BY <1>2, <2>1, <2>2
  <1> QED
    BY <1>1, <1>2, AlwaysDevInv, PTL DEF Spec
=============================================================================
