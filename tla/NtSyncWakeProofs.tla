-------------------------- MODULE NtSyncWakeProofs --------------------------
(***************************************************************************)
(* Theorems about the wakeups of NtSync: no task sleeps on an object that  *)
(* could end its wait, unless somebody is sure to come and wake it.        *)
(* And NtSync implements SyncObjects.                                      *)
(***************************************************************************)
EXTENDS NtSyncProofs

-----------------------------------------------------------------------------
(* The inductive invariant, seventh part: who is in the any_waiters lists. *)

\* Where u has its k-th entry in the list: a wait-any queues, checks, sleeps
\* and unqueues; a wait-all has only its alert there, from its own try on.
At(u, k) ==
    \/ pc[u] \in {"check", "sleep", "all_leave", "all_unqueue", "all_hint", "all_clear"}
    \/ pc[u] \in Trying /\ target[u] = u
    \/ pc[u] \in Checking /\ stage[u] = "check"
    \/ pc[u] \in Checking /\ stage[u] = "queue" /\ (k < i[u] \/ (k = i[u] /\ pc[u] = "unlock"))
    \/ pc[u] \in Checking /\ stage[u] = "unqueue" /\ (k > i[u] \/ (k = i[u] /\ pc[u] # "unlock"))
AnyIn(u) == {k \in AnyEntries(call[u]) : At(u, k)}
EntryObj(u, k) == Entries(call[u])[k]

InAny(e, o) == \E n \in 1..Len(anyWaiters[o]) : anyWaiters[o][n] = e
AnySound(o) ==
    \A n \in 1..Len(anyWaiters[o]) :
        LET e == anyWaiters[o][n] IN e.index \in AnyIn(e.task) /\ EntryObj(e.task, e.index) = o
AnyComplete(u) == \A k \in AnyIn(u) : InAny([task |-> u, index |-> k], EntryObj(u, k))

\* Where a wait is, and no other call.
Loops == {"queue", "check", "unqueue"}
WaitSteps == {"walk", "spin", "spin_take", "setup", "check", "sleep", "return", "all_mutex", "all_leave"} \cup AllSteps
InWait(t) ==
    \/ pc[t] \in WaitSteps
    \/ pc[t] \in Checking /\ stage[t] \in Loops
    \/ pc[t] \in Trying /\ target[t] = t
\* A section works on the entry that the index of its loop denotes.
IndexOK(t) ==
    /\ IsWait(call[t]) <=> InWait(t)
    /\ pc[t] \in Checking /\ stage[t] \in Loops => i[t] \in AnyEntries(call[t]) /\ cur[t] = EntryObj(t, i[t])
    /\ pc[t] \in {"scan", "loan", "placed"} => stage[t] \in Wakers \cup {"check"}
    /\ pc[t] = "fast_wake" => stage[t] = "release"
    /\ pc[t] \in AllSteps => i[t] <= Len(call[t].objs) + 1
    /\ pc[t] = "check" => i[t] <= Len(Entries(call[t])) + 1 /\ (IsAll(call[t]) => i[t] > Len(call[t].objs))
AnyInv ==
    /\ \A t \in Threads : IndexOK(t) /\ AnyComplete(t)
    /\ \A o \in Objs : AnySound(o) /\ Distinct(anyWaiters[o])

-----------------------------------------------------------------------------
(* ... eighth part: who is on the way to a task that could be woken.       *)

\* t is sure to scan the any_waiters of o, and has not passed u yet.
SureScan(t, o, u) ==
    /\ cur[t] = o /\ stage[t] \in Wakers \cup {"check"}
    /\ \/ pc[t] = "fast_wake"
       \/ pc[t] \in {"lock", "mutex", "dev_lock", "body"} /\ stage[t] \in {"wake", "check"}
       \/ pc[t] = "wake_all" \/ (pc[t] \in Trying /\ target[t] # t)
       \/ pc[t] \in {"scan", "loan", "placed"} /\ Listed(t, u)
\* The entries that u has checked, or is about to check.
Due(u) ==
    {k \in AnyIn(u) :
        \/ pc[u] = "sleep"
        \/ pc[u] = "check" /\ k < i[u]
        \/ pc[u] \in Checking /\ stage[u] = "check" /\ k <= i[u]}
AnyWoken ==
    \A u \in Threads : Unclaimed(u) => \A k \in Due(u) :
        IsSignaled(EntryObj(u, k), u) => \E t \in Threads : SureScan(t, EntryObj(u, k), u)
\* The scan of a semaphore that has a unit on loan, or may take one, has
\* claimed all the tasks it has passed.
ScanOK(t) ==
    /\ pc[t] \in Holding => Type[cur[t]] = "sem"
    /\ (pc[t] \in Holding \/ (pc[t] = "scan" /\ todo[t] # <<>>)) /\ Type[cur[t]] = "sem" =>
          \A u \in Threads : Unclaimed(u) /\ (\E k \in AnyIn(u) : EntryObj(u, k) = cur[t]) => Listed(t, u)

\* u has tried its wait-all itself.
Tried(u) ==
    \/ pc[u] = "wa_unlock" /\ target[u] = u
    \/ pc[u] \in {"check", "sleep"}
    \/ pc[u] \in Checking /\ stage[u] = "check"
\* The objects that u has locked in that, which nobody locks by obj->lock since.
Past(u) ==
    {k \in 1..Len(call[u].objs) :
        IsAll(call[u]) /\ (Tried(u) \/ (pc[u] \in Trying /\ target[u] = u /\ (pc[u] = "wa_lock" => k < i[u])))}
NotAlone == \A u \in Threads : \A k \in Past(u) : lock[call[u].objs[k]] = NoOne

\* t is sure to try the wait-all of u because of o.
SureTry(t, o, u) ==
    /\ cur[t] = o /\ stage[t] \in Wakers
    /\ \/ (pc[t] = "wake_all" \/ (pc[t] \in Trying /\ target[t] # t)) /\ Listed(t, u)
       \/ pc[t] = "wa_lock" /\ target[t] = u /\ u # t
\* A unit on loan may come back.
Available(o, u) == IsSignaled(o, u) \/ OnLoan(o) = 1
AllWoken ==
    \A u \in Threads : Unclaimed(u) /\ IsAll(call[u]) /\ Tried(u)
                         /\ (\A k \in 1..Len(call[u].objs) : Available(call[u].objs[k], u)) =>
        \E t \in Threads : \E k \in 1..Len(call[u].objs) : SureTry(t, call[u].objs[k], u)


\* A locked section that may wake somebody is on the object of the call; and
\* try_wake_all commits a wait-all that it has claimed.
KindOK(t) ==
    /\ stage[t] \in Wakers \cup {"reset"} =>
          cur[t] = call[t].objs[1] /\ call[t].fn = IF stage[t] = "wake" THEN "release" ELSE stage[t]
    /\ pc[t] = "wa_commit" => signaled[target[t]] = 0
KindInv == \A t \in Threads : KindOK(t)

WakeInv == AnyWoken /\ (\A t \in Threads : ScanOK(t)) /\ NotAlone /\ AllWoken
-----------------------------------------------------------------------------
(* Entries of a call, and the steps that leave the lists alone.            *)

LEMMA EntryFacts ==
  ASSUME NEW t \in Threads, NEW c \in Calls[t]
  PROVE  /\ Len(c.objs) \in Nat /\ Len(c.objs) > 0 /\ Len(Entries(c)) \in Nat /\ Len(Entries(c)) > 0
         /\ AnyEntries(c) \subseteq 1..Len(Entries(c)) /\ AnyEntries(c) \subseteq Nat
         /\ ~IsAll(c) => AnyEntries(c) = 1..Len(Entries(c))
         /\ IsAll(c) /\ c.alert = NoOne => AnyEntries(c) = {} /\ Len(Entries(c)) = Len(c.objs)
         /\ IsAll(c) /\ c.alert # NoOne => /\ AnyEntries(c) = {Len(c.objs) + 1}
                                           /\ Len(Entries(c)) = Len(c.objs) + 1
         /\ c.alert # NoOne => Entries(c)[Len(c.objs) + 1] = c.alert
         /\ \A k \in 1..Len(c.objs) : Entries(c)[k] = c.objs[k] /\ k \in 1..Len(Entries(c))
         /\ \A k \in AnyEntries(c) : Entries(c)[k] \in Objs
  <1>1. /\ c.objs \in Seq(Objs) /\ Len(c.objs) \in Nat /\ Len(c.objs) > 0 /\ c.alert \in Objs \cup {NoOne}
        /\ Len(Entries(c)) \in Nat /\ Len(Entries(c)) > 0
        /\ \A k \in 1..Len(Entries(c)) : Entries(c)[k] \in Objs
    BY CallType
  <1>2. c.alert = NoOne => Entries(c) = c.objs
    BY DEF Entries
  <1>3. c.alert # NoOne => /\ Len(Entries(c)) = Len(c.objs) + 1 /\ Entries(c)[Len(c.objs) + 1] = c.alert
                           /\ \A k \in 1..Len(c.objs) : Entries(c)[k] = c.objs[k]
    BY <1>1 DEF Entries
  <1>4. \A k \in 1..Len(c.objs) : Entries(c)[k] = c.objs[k] /\ k \in 1..Len(Entries(c))
    BY <1>1, <1>2, <1>3
  <1>5. /\ AnyEntries(c) \subseteq 1..Len(Entries(c)) /\ AnyEntries(c) \subseteq Nat
        /\ ~IsAll(c) => AnyEntries(c) = 1..Len(Entries(c))
    BY <1>1 DEF AnyEntries
  <1>6. IsAll(c) /\ c.alert = NoOne => AnyEntries(c) = {}
    BY <1>1, <1>2 DEF AnyEntries
  <1>7. IsAll(c) /\ c.alert # NoOne => AnyEntries(c) = {Len(c.objs) + 1}
    BY <1>1, <1>3 DEF AnyEntries
  <1> QED
    BY <1>1, <1>2, <1>3, <1>4, <1>5, <1>6, <1>7

LEMMA AnyOfOthers ==
  ASSUME NEW t \in Threads, OthersStay(t), NEW u \in Threads, u # t
  PROVE  /\ AnyIn(u)' = AnyIn(u) /\ (\A k : EntryObj(u, k)' = EntryObj(u, k))
         /\ IndexOK(u)' <=> IndexOK(u)
  <1>1. /\ pc'[u] = pc[u] /\ cur'[u] = cur[u] /\ target'[u] = target[u]
        /\ call'[u] = call[u] /\ i'[u] = i[u] /\ stage'[u] = stage[u]
    BY DEF OthersStay
  <1>2. \A k : At(u, k)' <=> At(u, k)
    BY <1>1 DEF At
  <1>3. AnyEntries(call[u])' = AnyEntries(call[u]) /\ Entries(call[u])' = Entries(call[u])
    BY <1>1 DEF AnyEntries, Entries, IsAll
  <1>4. AnyIn(u)' = AnyIn(u) /\ \A k : EntryObj(u, k)' = EntryObj(u, k)
    BY <1>2, <1>3 DEF AnyIn, EntryObj
  <1>5. (IsWait(call[u])' <=> IsWait(call[u])) /\ (IsAll(call[u])' <=> IsAll(call[u]))
    BY <1>1 DEF IsWait, IsAll
  <1>6. InWait(u)' <=> InWait(u)
    BY <1>1 DEF InWait
  <1> QED
    BY <1>1, <1>3, <1>4, <1>5, <1>6 DEF IndexOK

\* A step that leaves the lists alone, and t as much or as little queued.
LEMMA QuietAnyInv ==
  ASSUME TypeInv, AnyInv, NEW t \in Threads, OthersStay(t), UNCHANGED anyWaiters,
         IndexOK(t)', AnyIn(t)' = AnyIn(t), AnyIn(t) # {} => call'[t] = call[t]
  PROVE  AnyInv'
  <1>1. ASSUME NEW u \in Threads
        PROVE  AnyIn(u)' = AnyIn(u) /\ IndexOK(u)' /\ \A k \in AnyIn(u) : EntryObj(u, k)' = EntryObj(u, k)
    <2>1. CASE u = t
      BY <2>1 DEF EntryObj, Entries
    <2>2. CASE u # t
      BY <2>2, AnyOfOthers DEF AnyInv
    <2> QED BY <2>1, <2>2
  <1>2. \A e, o : InAny(e, o)' <=> InAny(e, o)
    BY DEF InAny
  <1>3. \A u \in Threads : AnyComplete(u)'
    BY <1>1, <1>2 DEF AnyComplete, AnyInv
  <1>4. ASSUME NEW o \in Objs PROVE AnySound(o)'
    <2>1. anyWaiters[o] \in Seq(Entry)
      BY DEF TypeInv, QueueType
    <2>2. \A n \in 1..Len(anyWaiters[o]) : anyWaiters[o][n].task \in Threads
      BY <2>1, TaskType
    <2> QED BY <1>1, <2>2 DEF AnySound, AnyInv
  <1> QED
    BY <1>1, <1>3, <1>4 DEF AnyInv

\* Which entries a task has, by where it is.
Entered(t) ==
    /\ pc[t] \notin Checking \cup Trying \cup {"check", "sleep", "all_leave", "all_unqueue", "all_hint", "all_clear"}
          => AnyIn(t) = {}
    /\ pc[t] \in Checking /\ stage[t] \notin Loops => AnyIn(t) = {}
    /\ pc[t] \in Trying /\ target[t] # t => AnyIn(t) = {}
    /\ pc[t] \in Checking /\ stage[t] = "check" => AnyIn(t) = AnyEntries(call[t])
    /\ pc[t] \in {"check", "sleep", "all_leave", "all_unqueue", "all_hint", "all_clear"}
          => AnyIn(t) = AnyEntries(call[t])
    /\ pc[t] \in Trying /\ target[t] = t => AnyIn(t) = AnyEntries(call[t])
    /\ pc[t] \in Checking /\ stage[t] = "queue" =>
          AnyIn(t) = {k \in AnyEntries(call[t]) : k < i[t] \/ (k = i[t] /\ pc[t] = "unlock")}
    /\ pc[t] \in Checking /\ stage[t] = "unqueue" =>
          AnyIn(t) = {k \in AnyEntries(call[t]) : k > i[t] \/ (k = i[t] /\ pc[t] # "unlock")}

LEMMA EnteredNow ==
  ASSUME NEW t \in Threads
  PROVE  Entered(t)
  BY DEF Entered, AnyIn, At, Checking, Within, Trying, Loops

LEMMA EnteredNext ==
  ASSUME NEW t \in Threads
  PROVE  Entered(t)'
  BY DEF Entered, AnyIn, At, Checking, Within, Trying, Loops

LEMMA MovesWith ==
  ASSUME TypeInv, NEW t \in Threads
  PROVE  /\ \A s, k : LockFor(t, s, k) => /\ OthersStay(t) /\ pc'[t] = "lock" /\ call'[t] = call[t] /\ stage'[t] = s
                                          /\ i'[t] = k /\ cur'[t] = Entries(call[t])[k]
         /\ \A l : Leave(t, l) => OthersStay(t) /\ pc'[t] = l /\ call'[t] = NoCall /\ stage'[t] = "none"
  BY DEF TypeInv, LocalInv, LocalType, LockFor, Leave, OthersStay

-----------------------------------------------------------------------------
(* Every step keeps the any_waiters lists exact.  Userspace, and the head  *)
(* of the loops around the locked sections:                                *)

LEMMA FreeAnyInv ==
  ASSUME TypeInv, ListInv, AnyInv, NEW t \in Threads,
         Begin(t) \/ Die(t) \/ Userspace(t) \/ Check(t) \/ LeaveSleep(t) \/ Return(t)
  PROVE  AnyInv'
  <1>1. OthersStay(t) /\ pc[t] \in Free /\ pc'[t] \in Free /\ UNCHANGED anyWaiters
    BY FreeStep DEF queuevars
  <1>2. IndexOK(t) /\ Entered(t) /\ Entered(t)' /\ StageOK(t)
    BY EnteredNow, EnteredNext DEF AnyInv, ListInv
  <1>3. i[t] \in Nat \ {0}
    BY DEF TypeInv, LocalInv, LocalType
  <1> USE DEF AllSteps, Trying, Within, Checking, WaitSteps, Loops
  <1> DEFINE Bare == {"idle", "dead", "fast_release", "fast_wake", "walk", "spin", "spin_take", "setup", "return",
                      "all_mutex"}
  <1>4. ASSUME pc[t] \in Bare, IndexOK(t)', pc'[t] \in Bare \/ (pc'[t] = "lock" /\ stage'[t] \notin Loops) PROVE AnyInv'
    <2>1. AnyIn(t) = {} /\ AnyIn(t)' = {}
      BY <1>2, <1>4 DEF Entered
    <2> QED BY <1>1, <1>4, <2>1, QuietAnyInv
  <1>5. ASSUME pc[t] \in Bare, pc'[t] \in {"idle", "dead"}, call'[t] = NoCall PROVE AnyInv'
    <2>1. IndexOK(t)'
      BY <1>5 DEF IndexOK, IsWait, InWait, NoCall
    <2> QED BY <1>4, <1>5, <2>1
  <1>6. ASSUME pc[t] \in WaitSteps, pc[t] \in Bare, pc'[t] \in Bare, pc'[t] \in WaitSteps, call'[t] = call[t] PROVE AnyInv'
    <2>1. IsWait(call[t])
      BY <1>2, <1>6 DEF IndexOK, InWait
    <2>2. IndexOK(t)'
      BY <1>6, <2>1 DEF IndexOK, IsWait, InWait
    <2> QED BY <1>4, <1>6, <2>2
  <1>7. CASE Begin(t)
    <2>1. PICK c \in Calls[t] : /\ pc'[t] = FirstStep(c) /\ stage'[t] = c.fn /\ call'[t] = c /\ c \in Call
      BY <1>7, CallType DEF Begin, TypeInv, LocalInv, LocalType
    <2>2. c.fn \notin Loops /\ pc[t] = "idle"
      BY <1>7, <2>1 DEF Begin, Call
    <2>3. \/ IsWait(c) /\ pc'[t] \in {"setup", "walk"}
          \/ ~IsWait(c) /\ pc'[t] \in {"fast_release", "lock"}
      BY <2>1 DEF FirstStep
    <2>4. IndexOK(t)'
      BY <2>1, <2>2, <2>3 DEF IndexOK, InWait
    <2> QED BY <1>4, <2>1, <2>2, <2>3, <2>4
  <1>8. CASE Die(t)
    BY <1>5, <1>8, MovesWith DEF Die
  <1>9. CASE Return(t)
    BY <1>5, <1>6, <1>9, Moves, MovesFully, MovesWith DEF Return, Finish
  <1>10. CASE FastReleaseDeclined(t) \/ FastRelease(t) \/ FastWake(t)
    <2>1. pc[t] \in {"fast_release", "fast_wake"} /\ stage[t] = "release" /\ ~IsWait(call[t])
      BY <1>2, <1>10 DEF FastReleaseDeclined, FastRelease, FastWake, StageOK, IndexOK, InWait
    <2>2. \/ pc'[t] = "idle" /\ call'[t] = NoCall
          \/ /\ pc'[t] \in {"lock", "fast_wake"} /\ call'[t] = call[t]
             /\ stage'[t] \in {"release", "wake"} /\ (pc'[t] = "fast_wake" => stage'[t] = "release")
      <3>1. CASE FastReleaseDeclined(t)
        BY <2>1, <3>1, Moves, MovesFully DEF FastReleaseDeclined
      <3>2. CASE FastRelease(t)
        BY <2>1, <3>2, Moves, MovesFully, MovesWith DEF FastRelease, Finish
      <3>3. CASE FastWake(t)
        BY <3>3 DEF FastWake, TypeInv, LocalInv, LocalType
      <3> QED BY <1>10, <3>1, <3>2, <3>3
    <2>3. CASE pc'[t] = "idle" /\ call'[t] = NoCall
      BY <1>5, <2>1, <2>3
    <2>4. CASE pc'[t] # "idle"
      <3>1. IndexOK(t)'
        BY <2>1, <2>2, <2>4 DEF IndexOK, IsWait, InWait
      <3> QED BY <1>4, <2>1, <2>2, <2>4, <3>1
    <2> QED BY <2>2, <2>3, <2>4
  <1>11. CASE Walk(t) \/ SpinPeek(t) \/ SpinTake(t)
    <2>1. ASSUME FastTake(t, Here(t)) PROVE pc'[t] = "idle" /\ call'[t] = NoCall
      BY <2>1, MovesWith DEF FastTake, Finish
    <2>2. ASSUME SpinNext(t) PROVE pc'[t] \in {"spin", "setup"} /\ call'[t] = call[t]
      BY <2>2, Moves, MovesFully DEF SpinNext
    <2>3. \/ pc'[t] = "idle" /\ call'[t] = NoCall
          \/ pc'[t] \in {"walk", "spin", "spin_take", "setup"} /\ call'[t] = call[t]
      <3>1. CASE Walk(t) BY <2>1, <3>1, Moves, MovesFully DEF Walk
      <3>2. CASE SpinPeek(t) BY <2>2, <3>2, Moves, MovesFully DEF SpinPeek
      <3>3. CASE SpinTake(t) BY <2>1, <2>2, <3>3 DEF SpinTake
      <3> QED BY <1>11, <3>1, <3>2, <3>3
    <2>4. pc[t] \in {"walk", "spin", "spin_take"}
      BY <1>11 DEF Walk, SpinPeek, SpinTake
    <2> QED BY <1>5, <1>6, <2>3, <2>4
  <1>12. CASE Setup(t)
    <2>1. pc[t] = "setup" /\ IsWait(call[t]) /\ call[t] \in Calls[t]
      BY <1>2, <1>12, CurObj DEF Setup, IndexOK, InWait
    <2>2. CASE Goto(t, "all_mutex")
      BY <1>6, <2>1, <2>2, Moves, MovesFully
    <2>3. CASE Finish(t)
      BY <1>5, <2>1, <2>3, MovesWith DEF Finish
    <2>4. CASE ~IsAll(call[t]) /\ LockFor(t, "queue", 1)
      <3>1. /\ pc'[t] = "lock" /\ stage'[t] = "queue" /\ i'[t] = 1 /\ call'[t] = call[t]
            /\ cur'[t] = Entries(call[t])[1]
        BY <2>4, MovesWith
      <3>2. 1 \in AnyEntries(call[t]) /\ \A k \in AnyEntries(call[t]) : ~(k < 1)
        BY <2>1, <2>4, EntryFacts
      <3>3. AnyIn(t) = {} /\ AnyIn(t)' = {}
        BY <1>2, <2>1, <3>1, <3>2 DEF Entered
      <3>4. IndexOK(t)'
        BY <2>1, <3>1, <3>2 DEF IndexOK, IsWait, InWait, EntryObj
      <3> QED BY <1>1, <3>3, <3>4, QuietAnyInv
    <2> QED BY <1>12, <2>2, <2>3, <2>4 DEF Setup
  <1>13. CASE Check(t) \/ LeaveSleep(t)
    <2>1. pc[t] \in {"check", "sleep"} /\ IsWait(call[t]) /\ call[t] \in Calls[t] /\ AnyIn(t) = AnyEntries(call[t])
      BY <1>2, <1>13, CurObj DEF Check, LeaveSleep, IndexOK, InWait, Entered
    <2>2. ASSUME AnyIn(t)' = AnyEntries(call'[t]), call'[t] = call[t], IndexOK(t)' PROVE AnyInv'
      BY <1>1, <2>1, <2>2, QuietAnyInv
    <2>3. CASE Goto(t, "sleep") \/ Goto(t, "all_leave")
      <3>1. pc'[t] \in {"sleep", "all_leave"} /\ call'[t] = call[t]
        BY <2>3, Moves, MovesFully
      <3>2. IndexOK(t)' /\ AnyIn(t)' = AnyEntries(call'[t])
        BY <1>2, <2>1, <3>1 DEF IndexOK, IsWait, InWait, Entered
      <3> QED BY <2>2, <3>1, <3>2
    <2>4. CASE pc[t] = "check" /\ i[t] <= Len(Entries(call[t])) /\ LockFor(t, "check", i[t])
      <3>1. /\ pc'[t] = "lock" /\ stage'[t] = "check" /\ i'[t] = i[t] /\ call'[t] = call[t]
            /\ cur'[t] = Entries(call[t])[i[t]]
        BY <2>4, MovesWith
      <3>2. i[t] \in AnyEntries(call[t])
        BY <1>2, <1>3, <2>1, <2>4, EntryFacts DEF AnyEntries, IndexOK
      <3>3. IndexOK(t)' /\ AnyIn(t)' = AnyEntries(call'[t])
        BY <1>2, <2>1, <3>1, <3>2 DEF IndexOK, IsWait, InWait, Entered, EntryObj
      <3> QED BY <2>2, <3>1, <3>3
    <2>5. CASE ~IsAll(call[t]) /\ LockFor(t, "unqueue", 1)
      <3>1. /\ pc'[t] = "lock" /\ stage'[t] = "unqueue" /\ i'[t] = 1 /\ call'[t] = call[t]
            /\ cur'[t] = Entries(call[t])[1]
        BY <2>5, MovesWith
      <3>2. 1 \in AnyEntries(call[t]) /\ \A k \in AnyEntries(call[t]) : k > 1 \/ k = 1
        BY <2>1, <2>5, EntryFacts
      <3>3. AnyIn(t)' = AnyEntries(call'[t])
        BY <1>2, <3>1, <3>2 DEF Entered
      <3>4. IndexOK(t)'
        BY <2>1, <3>1, <3>2 DEF IndexOK, IsWait, InWait, EntryObj
      <3> QED BY <2>2, <3>1, <3>3, <3>4
    <2>6. i[t] > Len(Entries(call[t])) \/ i[t] <= Len(Entries(call[t]))
      BY <1>3, <2>1, EntryFacts
    <2> QED BY <1>13, <2>3, <2>4, <2>5, <2>6 DEF Check, LeaveSleep
  <1> QED
    BY <1>7, <1>8, <1>9, <1>10, <1>11, <1>12, <1>13 DEF Userspace

\* The locked sections that leave the list alone.
LEMMA SectionLocals ==
  ASSUME TypeInv, NEW t \in Threads,
         \/ Queue(t) \/ Unqueue(t) \/ CheckObj(t) \/ SemRelease(t)
         \/ MutexUnlock(t) \/ MutexKill(t) \/ EventSet(t) \/ EventReset(t)
         \/ SemTakeHold(t) \/ SemClaim(t) \/ SemHoldDone(t) \/ SemGiveBack(t)
         \/ MutexScan(t) \/ EventScan(t) \/ ScanEnd(t)
  PROVE  /\ call'[t] = call[t] /\ stage'[t] = stage[t] /\ i'[t] = i[t] /\ target'[t] = target[t]
         /\ pc[t] = "body" /\ pc'[t] \in {"scan", "wake_all"} => stage[t] \in Wakers \cup {"check"}
         /\ pc[t] = "body" /\ stage[t] = "check" => pc'[t] = "scan"
         /\ pc'[t] = "wake_all" => pc[t] = "body" /\ stage[t] \in Wakers /\ todo'[t] = allWaiters[cur[t]]
         /\ pc'[t] \in {"loan", "placed"} => pc[t] \in {"scan", "loan", "placed"}
         /\ pc[t] # "unlock" /\ (pc[t] = "body" => pc'[t] \in {"unlock", "scan", "wake_all"})
         /\ pc[t] = "body" /\ pc'[t] = "scan" => todo'[t] = anyWaiters[cur[t]]
         /\ stage[t] \in {"queue", "unqueue"} => Queue(t) \/ Unqueue(t) \/ pc[t] # "body"
  <1>1. CASE Queue(t) \/ Unqueue(t) \/ CheckObj(t) \/ EventReset(t)
    BY <1>1, Moves, MovesFully DEF Queue, Unqueue, CheckObj, EventReset, InBody, Wakers
  <1>2. ASSUME WakeAfter(t)
        PROVE  /\ call'[t] = call[t] /\ stage'[t] = stage[t] /\ i'[t] = i[t] /\ target'[t] = target[t]
               /\ pc'[t] \in {"scan", "wake_all"} /\ (pc'[t] = "wake_all" => todo'[t] = allWaiters[cur[t]])
               /\ (pc'[t] = "scan" => todo'[t] = anyWaiters[cur[t]])
    BY <1>2, Moves, MovesFully DEF WakeAfter
  <1>3. CASE SemRelease(t) \/ MutexUnlock(t) \/ MutexKill(t) \/ EventSet(t)
    <2>1. stage[t] \in Wakers /\ pc[t] = "body" /\ stage[t] \notin {"queue", "unqueue", "check"}
      BY <1>3 DEF SemRelease, MutexUnlock, MutexKill, EventSet, InBody, Wakers
    <2>2. WakeAfter(t) \/ Goto(t, "unlock")
      BY <1>3 DEF SemRelease, MutexUnlock, MutexKill, EventSet
    <2> QED BY <1>2, <2>1, <2>2, Moves, MovesFully
  <1>4. CASE SemTakeHold(t) \/ SemClaim(t) \/ SemHoldDone(t) \/ SemGiveBack(t)
    BY <1>4, Moves, MovesFully DEF SemTakeHold, SemClaim, SemHoldDone, SemGiveBack, Scanning
  <1>5. CASE MutexScan(t) \/ EventScan(t) \/ ScanEnd(t)
    BY <1>5, Moves, MovesFully DEF MutexScan, EventScan, ScanEnd, Scanning
  <1> QED
    BY <1>1, <1>3, <1>4, <1>5

LEMMA SectionIndexOK ==
  ASSUME TypeInv, AnyInv, NEW t \in Threads,
         \/ Queue(t) \/ Unqueue(t) \/ CheckObj(t) \/ SemRelease(t)
         \/ MutexUnlock(t) \/ MutexKill(t) \/ EventSet(t) \/ EventReset(t)
         \/ SemTakeHold(t) \/ SemClaim(t) \/ SemHoldDone(t) \/ SemGiveBack(t)
         \/ MutexScan(t) \/ EventScan(t) \/ ScanEnd(t)
  PROVE  IndexOK(t)'
  <1>1. /\ OthersStay(t) /\ cur'[t] = cur[t] /\ pc[t] \in Within
        /\ pc'[t] \in Within \cup {"wake_all"}
    BY SectionStep
  <1>2. IndexOK(t)
    BY DEF AnyInv
  <1>3. InWait(t)' <=> InWait(t)
    BY <1>1, SectionLocals DEF InWait, AllSteps, Trying, Within, Checking, WaitSteps, Loops, Wakers
  <1>4. (IsWait(call[t])' <=> IsWait(call[t])) /\ AnyEntries(call[t])' = AnyEntries(call[t])
        /\ \A k : EntryObj(t, k)' = EntryObj(t, k)
    BY SectionLocals DEF IsWait, AnyEntries, EntryObj, Entries, IsAll
  <1>5. pc'[t] \in {"scan", "loan", "placed"} => stage'[t] \in Wakers \cup {"check"}
    BY <1>1, <1>2, SectionLocals DEF IndexOK, Within
  <1>6. pc'[t] \in Checking => pc[t] \in Checking
    BY <1>1 DEF Checking
  <1>7. pc'[t] \notin AllSteps \cup {"check", "fast_wake"}
    BY <1>1 DEF AllSteps, Within
  <1> QED
    BY <1>1, <1>2, <1>3, <1>4, <1>5, <1>6, <1>7, SectionLocals DEF IndexOK

LEMMA SectionAnyInv ==
  ASSUME TypeInv, AnyInv, NEW t \in Threads,
         \/ CheckObj(t) \/ SemRelease(t)
         \/ MutexUnlock(t) \/ MutexKill(t) \/ EventSet(t) \/ EventReset(t)
         \/ SemTakeHold(t) \/ SemClaim(t) \/ SemHoldDone(t) \/ SemGiveBack(t)
         \/ MutexScan(t) \/ EventScan(t) \/ ScanEnd(t)
  PROVE  AnyInv'
  <1>1. OthersStay(t) /\ pc[t] \in Within /\ pc'[t] \in Within \cup {"wake_all"}
    BY SectionStep
  <1>2. UNCHANGED anyWaiters
    BY DEF CheckObj, SemRelease, MutexUnlock, MutexKill, EventSet, EventReset,
           SemTakeHold, SemClaim, SemHoldDone, SemGiveBack, MutexScan, EventScan, ScanEnd, queuevars
  <1>3. IndexOK(t)' /\ IndexOK(t) /\ Entered(t) /\ Entered(t)'
    BY SectionIndexOK, EnteredNow, EnteredNext DEF AnyInv
  <1>4. stage[t] \notin {"queue", "unqueue"}
    <2>1. pc[t] \in {"scan", "loan", "placed"} => stage[t] \notin {"queue", "unqueue"}
      BY <1>3 DEF IndexOK, Wakers
    <2>2. pc[t] = "body" => stage[t] \notin {"queue", "unqueue"}
      BY DEF CheckObj, SemRelease, MutexUnlock, MutexKill, EventSet, EventReset, InBody,
           SemTakeHold, SemClaim, SemHoldDone, SemGiveBack, MutexScan, EventScan, ScanEnd, Scanning
    <2>3. pc[t] # "unlock"
      BY DEF CheckObj, SemRelease, MutexUnlock, MutexKill, EventSet, EventReset, InBody,
           SemTakeHold, SemClaim, SemHoldDone, SemGiveBack, MutexScan, EventScan, ScanEnd, Scanning
    <2> QED BY <1>1, <2>1, <2>2, <2>3 DEF Within
  <1>5. call'[t] = call[t] /\ stage'[t] = stage[t] /\ (pc'[t] = "wake_all" => stage[t] # "check")
    BY SectionLocals DEF Wakers
  <1>6. CASE stage[t] = "check"
    <2>1. AnyIn(t) = AnyEntries(call[t]) /\ AnyIn(t)' = AnyEntries(call'[t])
      BY <1>1, <1>3, <1>5, <1>6 DEF Entered, Checking
    <2> QED BY <1>1, <1>2, <1>3, <1>5, <2>1, QuietAnyInv
  <1>7. CASE stage[t] # "check"
    <2>1. AnyIn(t) = {} /\ AnyIn(t)' = {}
      BY <1>1, <1>3, <1>4, <1>5, <1>7 DEF Entered, Checking, Within, Loops, Trying
    <2> QED BY <1>1, <1>2, <1>3, <2>1, QuietAnyInv
  <1> QED
    BY <1>6, <1>7

\* ntsync_lock_obj and ntsync_unlock_obj.
LEMMA LockingAnyInv ==
  ASSUME TypeInv, AnyInv, ListInv, NEW t \in Threads, Lock(t) \/ LockMutex(t) \/ DevLock(t) \/ Unlock(t)
  PROVE  AnyInv'
  <1>1. UNCHANGED anyWaiters
    BY DEF Lock, LockMutex, DevLock, Unlock, queuevars
  <1>2. IndexOK(t) /\ Entered(t) /\ Entered(t)' /\ StageOK(t)
    BY EnteredNow, EnteredNext DEF AnyInv, ListInv
  <1>3. i[t] \in Nat \ {0}
    BY DEF TypeInv, LocalInv, LocalType
  <1>4. CASE Lock(t) \/ LockMutex(t) \/ DevLock(t)
    <2>1. /\ OthersStay(t) /\ call'[t] = call[t] /\ stage'[t] = stage[t] /\ i'[t] = i[t] /\ cur'[t] = cur[t]
          /\ pc[t] \in {"lock", "mutex", "dev_lock"} /\ pc'[t] \in {"mutex", "dev_lock", "body"}
      BY <1>4, Moves, MovesFully DEF Lock, LockMutex, DevLock
    <2>2. AnyIn(t)' = AnyIn(t)
      BY <2>1 DEF AnyIn, At, AnyEntries, Entries, IsAll, Checking, Within, Trying
    <2>3. InWait(t)' <=> InWait(t)
      BY <2>1 DEF InWait, AllSteps, Trying, Within, Checking, WaitSteps
    <2>4. IndexOK(t)'
      BY <1>2, <2>1, <2>3 DEF IndexOK, IsWait, IsAll, AnyEntries, EntryObj, Entries, Checking, Within, AllSteps
    <2> QED BY <1>1, <2>1, <2>2, <2>4, QuietAnyInv
  <1>5. CASE Unlock(t)
    <2>1. pc[t] = "unlock" /\ AfterUnlock(t) /\ call[t] \in Calls[t] /\ pc[t] \in Checking
      BY <1>5, CurObj DEF Unlock, Checking, Within
    <2> DEFINE n == Len(Entries(call[t]))
               AE == AnyEntries(call[t])
    <2>2. n \in Nat /\ AE \subseteq 1..n /\ AE \subseteq Nat
      BY <2>1, EntryFacts
    <2>3. stage[t] \in Loops => IsWait(call[t]) /\ i[t] \in AE
      BY <1>2, <2>1 DEF IndexOK, InWait
    <2>4. CASE stage[t] \in {"queue", "unqueue"} /\ i[t] < n /\ LockFor(t, stage[t], i[t] + 1)
      <3>1. /\ OthersStay(t) /\ pc'[t] = "lock" /\ stage'[t] = stage[t] /\ i'[t] = i[t] + 1 /\ call'[t] = call[t]
            /\ cur'[t] = Entries(call[t])[i[t] + 1]
        BY <2>4, MovesWith
      <3>2. i[t] + 1 \in AE
        <4>1. i[t] \in 1..n /\ (IsAll(call[t]) => i[t] > Len(call[t].objs)) /\ Len(call[t].objs) \in Nat
          BY <2>1, <2>3, <2>4, EntryFacts DEF AnyEntries, Loops
        <4> QED BY <2>2, <2>4, <4>1 DEF AnyEntries
      <3>3. IndexOK(t)'
        BY <2>3, <2>4, <3>1, <3>2 DEF IndexOK, IsWait, IsAll, InWait, Loops, Checking, Within, EntryObj, AllSteps
      <3>4. AnyIn(t)' = AnyIn(t)
        <4>1. CASE stage[t] = "queue"
          <5>1. \A k \in AE : k < i[t] \/ k = i[t] <=> k < i[t] + 1
            BY <1>3, <2>2
          <5> QED BY <1>2, <2>1, <3>1, <4>1, <5>1 DEF Entered, Checking
        <4>2. CASE stage[t] = "unqueue"
          <5>1. \A k \in AE : k > i[t] <=> k > i[t] + 1 \/ k = i[t] + 1
            BY <1>3, <2>2
          <5> QED BY <1>2, <2>1, <3>1, <4>2, <5>1 DEF Entered, Checking
        <4> QED BY <2>4, <4>1, <4>2
      <3> QED BY <1>1, <3>1, <3>3, <3>4, QuietAnyInv
    <2>5. CASE stage[t] = "queue" /\ i[t] = n /\ GotoIndex(t, "check", 1)
      <3>1. OthersStay(t) /\ pc'[t] = "check" /\ i'[t] = 1 /\ call'[t] = call[t]
        BY <2>5, Moves, MovesFully
      <3>2. ~IsAll(call[t])
        BY <1>2, <2>1, <2>5 DEF StageOK
      <3>3. IndexOK(t)'
        BY <2>2, <2>3, <2>5, <3>1, <3>2 DEF IndexOK, IsWait, IsAll, InWait, Loops, Checking, Within, WaitSteps, AllSteps
      <3>4. AnyIn(t) = AE /\ AnyIn(t)' = AE
        <4>1. \A k \in AE : k < i[t] \/ k = i[t]
          BY <2>2, <2>5
        <4> QED BY <1>2, <2>1, <2>5, <3>1, <4>1 DEF Entered
      <3> QED BY <1>1, <3>1, <3>3, <3>4, QuietAnyInv
    <2>6. CASE stage[t] = "unqueue" /\ i[t] = n /\ Goto(t, "return")
      <3>1. OthersStay(t) /\ pc'[t] = "return" /\ call'[t] = call[t]
        BY <2>6, Moves, MovesFully
      <3>2. IndexOK(t)'
        BY <2>3, <2>6, <3>1 DEF IndexOK, IsWait, IsAll, InWait, Loops, Checking, Within, WaitSteps, AllSteps
      <3>3. AnyIn(t) = {} /\ AnyIn(t)' = {}
        <4>1. \A k \in AE : ~(k > i[t])
          BY <2>2, <2>6
        <4> QED BY <1>2, <2>1, <2>6, <3>1, <4>1 DEF Entered, Checking, Within, Trying
      <3> QED BY <1>1, <3>1, <3>2, <3>3, QuietAnyInv
    <2>7. CASE stage[t] = "check" /\ GotoIndex(t, "check", i[t] + 1)
      <3>1. OthersStay(t) /\ pc'[t] = "check" /\ i'[t] = i[t] + 1 /\ call'[t] = call[t]
        BY <2>7, Moves, MovesFully
      <3>2. i[t] <= n /\ (IsAll(call[t]) => i[t] > Len(call[t].objs)) /\ Len(call[t].objs) \in Nat
        BY <2>1, <2>3, <2>7, EntryFacts DEF AnyEntries, Loops
      <3>3. i[t] + 1 <= n + 1 /\ (IsAll(call[t]) => i[t] + 1 > Len(call[t].objs))
        BY <1>3, <2>2, <3>2
      <3>4. IndexOK(t)'
        BY <2>3, <2>7, <3>1, <3>3 DEF IndexOK, IsWait, IsAll, InWait, Loops, Checking, Within, WaitSteps, AllSteps, Entries
      <3>5. AnyIn(t) = AE /\ AnyIn(t)' = AE
        BY <1>2, <2>1, <2>7, <3>1 DEF Entered
      <3> QED BY <1>1, <3>1, <3>4, <3>5, QuietAnyInv
    <2>8. CASE stage[t] \notin Loops /\ Finish(t)
      <3>1. OthersStay(t) /\ pc'[t] = "idle" /\ call'[t] = NoCall
        BY <2>8, MovesWith DEF Finish
      <3>2. IndexOK(t)'
        BY <3>1 DEF IndexOK, IsWait, InWait, NoCall, Checking, Within, WaitSteps, AllSteps, Trying
      <3>3. AnyIn(t) = {} /\ AnyIn(t)' = {}
        BY <1>2, <2>1, <2>8, <3>1 DEF Entered, Checking, Within, Trying
      <3> QED BY <1>1, <3>1, <3>2, <3>3, QuietAnyInv
    <2> QED BY <2>1, <2>4, <2>5, <2>6, <2>7, <2>8 DEF AfterUnlock, Loops
  <1> QED
    BY <1>4, <1>5

\* try_wake_all_obj and try_wake_all.
LEMMA WakeAllAnyInv ==
  ASSUME TypeInv, AnyInv, ListInv, NEW t \in Threads,
         WakeAllNext(t) \/ WakeAllLock(t) \/ WakeAllTry(t) \/ WakeAllCommit(t) \/ WakeAllUnlock(t)
  PROVE  AnyInv'
  <1>1. UNCHANGED anyWaiters
    BY DEF WakeAllNext, WakeAllLock, WakeAllTry, WakeAllCommit, WakeAllUnlock, queuevars
  <1>2. IndexOK(t) /\ Entered(t) /\ Entered(t)' /\ StageOK(t)
    BY EnteredNow, EnteredNext DEF AnyInv, ListInv
  <1>3. CASE WakeAllNext(t)
    <2>1. pc[t] = "wake_all" /\ stage[t] \in Wakers /\ ~IsWait(call[t]) /\ AnyIn(t) = {}
      BY <1>2, <1>3 DEF WakeAllNext, StageOK, IndexOK, InWait, Entered, Checking, Within, Trying, WaitSteps, AllSteps
    <2>2. OthersStay(t) /\ pc'[t] \in {"scan", "wa_lock"} /\ (pc'[t] = "wa_lock" => target'[t] # t)
      BY <1>3, WakeAllNextMoves, WakeAllListInv
    <2>3. call'[t] = call[t] /\ stage'[t] = stage[t] /\ cur'[t] = cur[t]
      <3>1. CASE todo[t] = <<>> BY <1>3, <3>1, Moves, MovesFully DEF WakeAllNext
      <3>2. CASE todo[t] # <<>> BY <1>3, <3>2 DEF WakeAllNext
      <3> QED BY <3>1, <3>2
    <2>4. AnyIn(t)' = {}
      BY <1>2, <2>1, <2>2, <2>3 DEF Entered, Checking, Within, Trying, Loops, Wakers
    <2>5. IndexOK(t)'
      BY <2>1, <2>2, <2>3 DEF IndexOK, IsWait, InWait, Checking, Within, Trying, Loops, Wakers, WaitSteps, AllSteps
    <2> QED BY <1>1, <2>1, <2>2, <2>4, <2>5, QuietAnyInv
  <1>4. CASE WakeAllLock(t) \/ WakeAllTry(t) \/ WakeAllCommit(t) \/ WakeAllUnlock(t)
    <2>1. /\ OthersStay(t) /\ call'[t] = call[t] /\ stage'[t] = stage[t] /\ target'[t] = target[t]
          /\ pc[t] \in Trying
          /\ \/ pc'[t] \in Trying
             \/ target[t] = t /\ pc'[t] = "check" /\ i'[t] = Len(call[t].objs) + 1
             \/ target[t] # t /\ pc'[t] = "wake_all"
      BY <1>4, Moves, MovesFully DEF WakeAllLock, WakeAllTry, WakeAllCommit, WakeAllUnlock, Trying
    <2>2. call[t] \in Calls[t]
      BY <2>1, CurObj DEF Trying
    <2>3. /\ Len(call[t].objs) + 1 <= Len(Entries(call[t])) + 1
          /\ Len(call[t].objs) + 1 > Len(call[t].objs)
      BY <2>2, EntryFacts DEF Entries
    <2>4. IsWait(call[t]) <=> target[t] = t
      BY <1>2, <2>1 DEF IndexOK, InWait, Trying, Checking, Within, WaitSteps, AllSteps
    <2>5. InWait(t)' <=> target[t] = t
      BY <2>1 DEF InWait, Trying, Checking, Within, WaitSteps, AllSteps
    <2>6. IndexOK(t)'
      BY <2>1, <2>3, <2>4, <2>5 DEF IndexOK, IsWait, Trying, Checking, Within, WaitSteps, AllSteps, Entries
    <2>7. AnyIn(t)' = AnyIn(t)
      <3>1. CASE target[t] = t
        BY <1>2, <2>1, <3>1 DEF Entered
      <3>2. CASE target[t] # t
        BY <1>2, <2>1, <3>2 DEF Entered, Trying, Checking, Within
      <3> QED BY <3>1, <3>2
    <2> QED BY <1>1, <2>1, <2>6, <2>7, QuietAnyInv
  <1> QED
    BY <1>3, <1>4

\* The steps of ntsync_wait_all that leave these lists alone.
LEMMA AllAnyInv ==
  ASSUME TypeInv, AnyInv, ListInv, NEW t \in Threads,
         \/ AllMutex(t) \/ AllQueue(t) \/ AllFlag(t) \/ AllAdd(t) \/ (AllQueued(t) /\ call[t].alert = NoOne)
         \/ AllUnqueue(t) \/ AllUnhint(t) \/ AllClear(t) \/ AllUnqueued(t)
  PROVE  AnyInv'
  <1>1. UNCHANGED anyWaiters
    BY DEF AllMutex, AllQueue, AllFlag, AllAdd, AllQueued, AllUnqueue, AllUnhint, AllClear, AllUnqueued, queuevars
  <1>2. IndexOK(t) /\ Entered(t) /\ Entered(t)' /\ StageOK(t)
    BY EnteredNow, EnteredNext DEF AnyInv, ListInv
  <1>3. pc[t] \in AllSteps \cup {"all_mutex", "all_leave"}
    BY DEF AllMutex, AllQueue, AllFlag, AllAdd, AllQueued, AllUnqueue, AllUnhint, AllClear, AllUnqueued, AllSteps
  <1>4. IsAll(call[t]) /\ IsWait(call[t]) /\ call[t] \in Calls[t] /\ i[t] \in Nat \ {0}
    BY <1>2, <1>3, CurObj DEF StageOK, IndexOK, InWait, WaitSteps, AllSteps, TypeInv, LocalInv, LocalType
  <1>5. /\ Len(call[t].objs) \in Nat /\ Len(call[t].objs) > 0
        /\ call[t].alert = NoOne => AnyEntries(call[t]) = {}
        /\ call[t].alert # NoOne => AnyEntries(call[t]) = {Len(call[t].objs) + 1}
    BY <1>4, EntryFacts
  <1>6. pc[t] \in Looping => i[t] <= Len(call[t].objs)
    BY DEF TypeInv, LocalInv, LocalOK
  <1>7. ASSUME OthersStay(t), call'[t] = call[t], pc'[t] \in AllSteps, i'[t] <= Len(call[t].objs) + 1,
               pc[t] \in {"all_mutex", "all_queue", "all_flag", "all_add"} <=> pc'[t] \in {"all_queue", "all_flag", "all_add"}
        PROVE  AnyInv'
    <2>1. IndexOK(t)'
      BY <1>4, <1>7 DEF IndexOK, IsWait, InWait, WaitSteps, AllSteps, Checking, Within
    <2>2. AnyIn(t)' = AnyIn(t)
      BY <1>2, <1>3, <1>7 DEF Entered, AllSteps, Checking, Within, Trying
    <2> QED BY <1>1, <1>7, <2>1, <2>2, QuietAnyInv
  <1>8. CASE AllMutex(t)
    <2>1. OthersStay(t) /\ call'[t] = call[t] /\ i'[t] = 1
          /\ \/ pc[t] = "all_mutex" /\ pc'[t] = "all_queue"
             \/ pc[t] = "all_leave" /\ pc'[t] = "all_unqueue"
      BY <1>8, Moves, MovesFully DEF AllMutex
    <2> QED BY <1>5, <1>7, <2>1 DEF AllSteps
  <1>9. CASE AllQueue(t) \/ AllFlag(t) \/ AllAdd(t)
    <2>1. OthersStay(t) /\ call'[t] = call[t] /\ pc[t] \in {"all_queue", "all_flag", "all_add"}
          /\ pc'[t] \in {"all_queue", "all_flag", "all_add"} /\ (i'[t] = i[t] \/ (pc[t] = "all_add" /\ i'[t] = i[t] + 1))
      BY <1>9, Moves, MovesFully DEF AllQueue, AllFlag, AllAdd
    <2>2. i'[t] <= Len(call[t].objs) + 1
      BY <1>2, <1>4, <1>5, <1>6, <2>1 DEF IndexOK, AllSteps, Looping
    <2> QED BY <1>7, <2>1, <2>2 DEF AllSteps
  <1>10. CASE AllUnqueue(t) \/ AllUnhint(t) \/ AllClear(t)
    <2>1. OthersStay(t) /\ call'[t] = call[t] /\ pc[t] \in {"all_unqueue", "all_hint", "all_clear"}
          /\ pc'[t] \in {"all_unqueue", "all_hint", "all_clear"}
          /\ (i'[t] = i[t] \/ (pc[t] \in {"all_hint", "all_clear"} /\ i'[t] = i[t] + 1))
      BY <1>10, Moves, MovesFully DEF AllUnqueue, AllUnhint, AllClear
    <2>2. i'[t] <= Len(call[t].objs) + 1
      BY <1>2, <1>4, <1>5, <1>6, <2>1 DEF IndexOK, AllSteps, Looping
    <2> QED BY <1>7, <2>1, <2>2 DEF AllSteps
  <1>11. CASE AllQueued(t) /\ call[t].alert = NoOne
    <2>1. OthersStay(t) /\ call'[t] = call[t] /\ pc[t] = "all_queue" /\ pc'[t] = "wa_lock" /\ target'[t] = t
      BY <1>11 DEF AllQueued, OthersStay, TypeInv, LocalInv, LocalType
    <2>2. IndexOK(t)'
      BY <1>4, <2>1 DEF IndexOK, IsWait, InWait, WaitSteps, AllSteps, Checking, Within, Trying
    <2>3. AnyIn(t) = {} /\ AnyIn(t)' = {}
      BY <1>2, <1>5, <1>11, <2>1 DEF Entered, AllSteps, Checking, Within, Trying
    <2> QED BY <1>1, <2>1, <2>2, <2>3, QuietAnyInv
  <1>12. CASE AllUnqueued(t)
    <2>1. pc[t] = "all_unqueue" /\ AnyIn(t) = AnyEntries(call[t])
      BY <1>2, <1>12 DEF AllUnqueued, Entered
    <2>2. CASE call[t].alert = NoOne
      <3>1. OthersStay(t) /\ call'[t] = call[t] /\ pc'[t] = "return"
        BY <1>12, <2>2, Moves, MovesFully DEF AllUnqueued
      <3>2. IndexOK(t)'
        BY <1>4, <3>1 DEF IndexOK, IsWait, InWait, WaitSteps, AllSteps, Checking, Within, Trying
      <3>3. AnyIn(t) = {} /\ AnyIn(t)' = {}
        BY <1>2, <1>5, <2>1, <2>2, <3>1 DEF Entered, AllSteps, Checking, Within, Trying
      <3> QED BY <1>1, <3>1, <3>2, <3>3, QuietAnyInv
    <2>3. CASE call[t].alert # NoOne
      <3> DEFINE n == Len(call[t].objs)
      <3>1. /\ OthersStay(t) /\ call'[t] = call[t] /\ pc'[t] = "lock" /\ stage'[t] = "unqueue" /\ i'[t] = n + 1
            /\ cur'[t] = Entries(call[t])[n + 1]
        BY <1>12, <2>3, MovesWith DEF AllUnqueued
      <3>2. IndexOK(t)'
        BY <1>4, <1>5, <2>3, <3>1 DEF IndexOK, IsWait, InWait, WaitSteps, AllSteps, Checking, Within, Trying, Loops, EntryObj
      <3>3. AnyIn(t)' = {k \in AnyEntries(call[t]) : k > n + 1 \/ k = n + 1}
        BY <1>2, <3>1 DEF Entered, Checking
      <3>4. AnyIn(t)' = AnyIn(t)
        BY <1>5, <2>1, <2>3, <3>3
      <3> QED BY <1>1, <3>1, <3>2, <3>4, QuietAnyInv
    <2> QED BY <2>2, <2>3
  <1> QED
    BY <1>8, <1>9, <1>10, <1>11, <1>12

\* Adding an entry at the end of a list.
LEMMA AppendElems ==
  ASSUME NEW S, NEW s \in Seq(S), Distinct(s), NEW e \in S, \A n \in 1..Len(s) : s[n] # e
  PROVE  LET r == Append(s, e)
         IN  /\ Distinct(r)
             /\ \A x : (\E n \in 1..Len(r) : r[n] = x) <=> x = e \/ \E n \in 1..Len(s) : s[n] = x
  <1> DEFINE r == Append(s, e)
  <1>1. /\ Len(r) = Len(s) + 1 /\ Len(s) \in Nat /\ r[Len(s) + 1] = e
        /\ \A n \in 1..Len(s) : r[n] = s[n]
        /\ DOMAIN s = 1..Len(s) /\ DOMAIN r = 1..Len(r)
    OBVIOUS
  <1> HIDE DEF r
  <1>2. Distinct(r)
    BY <1>1 DEF Distinct
  <1>3. \A x : (\E n \in 1..Len(r) : r[n] = x) <=> x = e \/ \E n \in 1..Len(s) : s[n] = x
    BY <1>1
  <1> QED BY <1>2, <1>3 DEF r

\* A step that adds or removes one entry of t.
LEMMA ChangedAnyInv ==
  ASSUME TypeInv, AnyInv, NEW t \in Threads, OthersStay(t), call'[t] = call[t], IndexOK(t)',
         NEW o \in Objs, NEW k \in Nat, EntryObj(t, k) = o,
         \A p \in Objs : p # o => anyWaiters'[p] = anyWaiters[p],
         Distinct(anyWaiters'[o]),
         \/ /\ \A e : InAny(e, o)' <=> e = [task |-> t, index |-> k] \/ InAny(e, o)
            /\ AnyIn(t)' = AnyIn(t) \cup {k}
         \/ /\ \A e : InAny(e, o)' <=> e # [task |-> t, index |-> k] /\ InAny(e, o)
            /\ AnyIn(t)' = AnyIn(t) \ {k}
  PROVE  AnyInv'
  <1> DEFINE me == [task |-> t, index |-> k]
  <1>1. \A j : EntryObj(t, j)' = EntryObj(t, j)
    BY DEF EntryObj, Entries
  <1>2. ASSUME NEW u \in Threads
        PROVE  IndexOK(u)' /\ (\A j : EntryObj(u, j)' = EntryObj(u, j)) /\ (u # t => AnyIn(u)' = AnyIn(u))
    <2>1. CASE u = t BY <1>1, <2>1
    <2>2. CASE u # t BY <2>2, AnyOfOthers DEF AnyInv
    <2> QED BY <2>1, <2>2
  <1>3. \A p \in Objs : p # o => \A e : InAny(e, p)' <=> InAny(e, p)
    BY DEF InAny
  <1>4. ASSUME NEW u \in Threads, NEW j \in AnyIn(u)' PROVE InAny([task |-> u, index |-> j], EntryObj(u, j))'
    <2>1. PICK p \in Objs : p = EntryObj(u, j) /\ EntryObj(u, j)' = p
      <3>1. CASE u = t /\ j = k BY <1>1, <3>1
      <3>2. CASE ~(u = t /\ j = k)
        <4>1. j \in AnyIn(u)
          BY <1>2, <3>2
        <4>2. call[u] \in Calls[u]
          BY <4>1, CurObj DEF AnyIn, At, Trying, Checking, Within
        <4>3. j \in AnyEntries(call[u])
          BY <4>1 DEF AnyIn
        <4>4. EntryObj(u, j) \in Objs
          BY <4>2, <4>3, EntryFacts DEF EntryObj
        <4> QED BY <1>2, <4>4
      <3> QED BY <3>1, <3>2
    <2>2. CASE u = t /\ j = k
      BY <1>1, <1>4, <2>1, <2>2
    <2>3. CASE ~(u = t /\ j = k)
      <3>1. j \in AnyIn(u)
        BY <1>2, <1>4, <2>3
      <3>2. InAny([task |-> u, index |-> j], p)
        BY <2>1, <3>1 DEF AnyInv, AnyComplete
      <3>3. [task |-> u, index |-> j] # me
        BY <2>3
      <3>4. InAny([task |-> u, index |-> j], p)'
        BY <1>3, <3>2, <3>3
      <3> QED BY <2>1, <3>4
    <2> QED BY <2>2, <2>3
  <1>5. ASSUME NEW p \in Objs, NEW e, InAny(e, p)'
        PROVE  e.index \in AnyIn(e.task)' /\ EntryObj(e.task, e.index)' = p
    <2>1. CASE p = o /\ e = me
      <3>1. e.task = t /\ e.index = k
        BY <2>1
      <3>2. k \in AnyIn(t)'
        BY <1>5, <2>1
      <3>3. EntryObj(t, k)' = p
        BY <1>1, <2>1
      <3> QED BY <3>1, <3>2, <3>3
    <2>2. CASE ~(p = o /\ e = me)
      <3>1. InAny(e, p)
        BY <1>3, <1>5, <2>2
      <3>2. PICK m \in 1..Len(anyWaiters[p]) : anyWaiters[p][m] = e
        BY <3>1 DEF InAny
      <3>3. anyWaiters[p] \in Seq(Entry)
        BY DEF TypeInv, QueueType
      <3>4. e \in Entry /\ e.task \in Threads /\ e.index \in AnyIn(e.task) /\ EntryObj(e.task, e.index) = p
        BY <3>2, <3>3, TaskType DEF AnyInv, AnySound
      <3>5. e = [task |-> e.task, index |-> e.index]
        BY <3>4 DEF Entry
      <3>6. ~(e.task = t /\ e.index = k)
        BY <2>2, <3>4, <3>5
      <3>7. e.index \in AnyIn(e.task)'
        BY <1>2, <3>4, <3>6
      <3>8. EntryObj(e.task, e.index)' = p
        BY <1>2, <3>4
      <3> QED BY <3>7, <3>8
    <2> QED BY <2>1, <2>2
  <1>6. \A p \in Objs : Distinct(anyWaiters'[p])
    BY DEF AnyInv
  <1>7. ASSUME NEW p \in Objs PROVE AnySound(p)' /\ Distinct(anyWaiters[p])'
    <2>1. ASSUME NEW n \in 1..Len(anyWaiters'[p])
          PROVE  (anyWaiters[p][n].index \in AnyIn(anyWaiters[p][n].task) /\ EntryObj(anyWaiters[p][n].task, anyWaiters[p][n].index) = p)'
      <3>1. PICK e : e = anyWaiters'[p][n]
        OBVIOUS
      <3>2. InAny(e, p)'
        BY <2>1, <3>1 DEF InAny
      <3>3. e.index \in AnyIn(e.task)' /\ EntryObj(e.task, e.index)' = p
        BY <1>5, <3>2
      <3> QED BY <3>1, <3>3 DEF AnyIn, At, EntryObj
    <2> QED BY <1>6, <2>1 DEF AnySound, Distinct
  <1>8. \A u \in Threads : IndexOK(u)' /\ AnyComplete(u)'
    BY <1>2, <1>4 DEF AnyComplete
  <1> QED
    BY <1>7, <1>8 DEF AnyInv

\* The locked sections that queue and unqueue, and the alert of a wait-all.
LEMMA QueueAnyInv ==
  ASSUME TypeInv, AnyInv, ListInv, NEW t \in Threads,
         Queue(t) \/ Unqueue(t) \/ (AllQueued(t) /\ call[t].alert # NoOne)
  PROVE  AnyInv'
  <1>1. i[t] \in Nat \ {0} /\ anyWaiters \in [Objs -> Seq(Entry)]
    BY DEF TypeInv, LocalInv, LocalType, QueueType
  <1>2. IndexOK(t) /\ Entered(t) /\ Entered(t)' /\ StageOK(t)
    BY EnteredNow, EnteredNext DEF AnyInv, ListInv
  <1>3. MyEntry(t) = [task |-> t, index |-> i[t]] /\ MyEntry(t) \in Entry /\ MyEntry(t).task = t /\ MyEntry(t).index = i[t]
    BY MyEntryType DEF MyEntry
  <1>4. ASSUME NEW o \in Objs PROVE anyWaiters[o] \in Seq(Entry) /\ Distinct(anyWaiters[o])
    BY <1>1 DEF AnyInv
  <1>5. ASSUME NEW o \in Objs, i[t] \notin AnyIn(t), anyWaiters' = [anyWaiters EXCEPT ![o] = Append(@, MyEntry(t))]
        PROVE  /\ Distinct(anyWaiters'[o]) /\ (\A p \in Objs : p # o => anyWaiters'[p] = anyWaiters[p])
               /\ \A e : InAny(e, o)' <=> e = MyEntry(t) \/ InAny(e, o)
    <2>1. anyWaiters'[o] = Append(anyWaiters[o], MyEntry(t)) /\ (\A p \in Objs : p # o => anyWaiters'[p] = anyWaiters[p])
      BY <1>1, <1>5
    <2>2. \A n \in 1..Len(anyWaiters[o]) : anyWaiters[o][n] # MyEntry(t)
      BY <1>3, <1>5 DEF AnyInv, AnySound
    <2>3. /\ Distinct(Append(anyWaiters[o], MyEntry(t)))
          /\ \A x : (\E n \in 1..Len(Append(anyWaiters[o], MyEntry(t))) : Append(anyWaiters[o], MyEntry(t))[n] = x)
                        <=> x = MyEntry(t) \/ \E n \in 1..Len(anyWaiters[o]) : anyWaiters[o][n] = x
      BY <1>3, <1>4, <2>2, AppendElems
    <2> QED BY <2>1, <2>3 DEF InAny
  <1>6. CASE Queue(t)
    <2>1. pc[t] = "body" /\ stage[t] = "queue" /\ pc'[t] = "unlock" /\ stage'[t] = "queue" /\ i'[t] = i[t]
          /\ call'[t] = call[t] /\ OthersStay(t)
      BY <1>6, Moves, MovesFully DEF Queue, InBody
    <2>2. PICK o \in Objs : o = cur[t]
      BY <2>1, CurObj
    <2>3. call[t] \in Calls[t] /\ i[t] \in AnyEntries(call[t]) /\ EntryObj(t, i[t]) = o
      BY <1>2, <2>1, <2>2, CurObj DEF IndexOK, Checking, Within, Loops
    <2>4. AnyIn(t) = {k \in AnyEntries(call[t]) : k < i[t]} /\ AnyIn(t)' = {k \in AnyEntries(call[t]) : k < i[t] \/ k = i[t]}
      BY <1>2, <2>1 DEF Entered, Checking, Within
    <2>5. i[t] \notin AnyIn(t) /\ AnyIn(t)' = AnyIn(t) \cup {i[t]}
      BY <1>1, <2>3, <2>4
    <2>6. anyWaiters' = [anyWaiters EXCEPT ![o] = Append(@, MyEntry(t))]
      BY <1>6, <2>2 DEF Queue
    <2>7. IndexOK(t)'
      BY <1>6, SectionIndexOK
    <2> QED BY <1>1, <1>3, <1>5, <2>1, <2>3, <2>5, <2>6, <2>7, ChangedAnyInv
  <1>7. CASE AllQueued(t) /\ call[t].alert # NoOne
    <2>1. OthersStay(t) /\ call'[t] = call[t] /\ pc[t] = "all_queue" /\ pc'[t] = "wa_lock" /\ target'[t] = t
          /\ i[t] > Len(call[t].objs)
      BY <1>7 DEF AllQueued, OthersStay, TypeInv, LocalInv, LocalType
    <2>2. IsAll(call[t]) /\ IsWait(call[t]) /\ call[t] \in Calls[t] /\ i[t] <= Len(call[t].objs) + 1
      BY <1>2, <2>1, CurObj DEF StageOK, IndexOK, InWait, WaitSteps, AllSteps
    <2>3. IndexOK(t)'
      BY <2>1, <2>2 DEF IndexOK, IsWait, InWait, WaitSteps, AllSteps, Checking, Within, Trying
    <2>4. i[t] = Len(call[t].objs) + 1 /\ AnyEntries(call[t]) = {i[t]} /\ EntryObj(t, i[t]) = call[t].alert
      <3>1. Len(call[t].objs) \in Nat
        BY <2>2, EntryFacts
      <3>2. i[t] = Len(call[t].objs) + 1
        BY <1>1, <2>1, <2>2, <3>1
      <3> QED BY <1>7, <2>2, <3>2, EntryFacts DEF EntryObj
    <2>5. PICK o \in Objs : o = call[t].alert
      BY <1>7, <2>2, CallType
    <2>6. AnyIn(t) = {} /\ AnyIn(t)' = AnyIn(t) \cup {i[t]}
      BY <1>2, <2>1, <2>4 DEF Entered, AllSteps, Checking, Within, Trying
    <2>7. anyWaiters' = [anyWaiters EXCEPT ![o] = Append(@, MyEntry(t))]
      BY <1>7, <2>5 DEF AllQueued
    <2>8. EntryObj(t, i[t]) = o /\ i[t] \in Nat /\ i[t] \notin AnyIn(t)
      BY <1>1, <2>4, <2>5, <2>6
    <2>9. /\ Distinct(anyWaiters'[o]) /\ (\A p \in Objs : p # o => anyWaiters'[p] = anyWaiters[p])
          /\ \A e : InAny(e, o)' <=> e = [task |-> t, index |-> i[t]] \/ InAny(e, o)
      BY <1>3, <1>5, <2>7, <2>8
    <2> QED BY <2>1, <2>3, <2>6, <2>8, <2>9, ChangedAnyInv
  <1>8. CASE Unqueue(t)
    <2>1. pc[t] = "body" /\ stage[t] = "unqueue" /\ pc'[t] = "unlock" /\ stage'[t] = "unqueue" /\ i'[t] = i[t]
          /\ call'[t] = call[t] /\ OthersStay(t)
      BY <1>8, Moves, MovesFully DEF Unqueue, InBody
    <2>2. PICK o \in Objs : o = cur[t]
      BY <2>1, CurObj
    <2>3. call[t] \in Calls[t] /\ i[t] \in AnyEntries(call[t]) /\ EntryObj(t, i[t]) = o
      BY <1>2, <2>1, <2>2, CurObj DEF IndexOK, Checking, Within, Loops
    <2>4. AnyIn(t) = {k \in AnyEntries(call[t]) : k > i[t] \/ k = i[t]} /\ AnyIn(t)' = {k \in AnyEntries(call[t]) : k > i[t]}
      BY <1>2, <2>1 DEF Entered, Checking, Within
    <2>5. AnyIn(t)' = AnyIn(t) \ {i[t]}
      BY <1>1, <2>3, <2>4
    <2>6. PICK n \in 1..Len(anyWaiters[o]) :
             anyWaiters[o][n] = MyEntry(t) /\ anyWaiters' = [anyWaiters EXCEPT ![o] = RemoveNth(@, n)]
      BY <1>8, <2>2 DEF Unqueue
    <2>7. anyWaiters'[o] = RemoveNth(anyWaiters[o], n) /\ (\A p \in Objs : p # o => anyWaiters'[p] = anyWaiters[p])
      BY <1>1, <2>6
    <2>8. /\ Distinct(anyWaiters'[o])
          /\ \A e : InAny(e, o)' <=> e # MyEntry(t) /\ InAny(e, o)
      <3>1. /\ Distinct(anyWaiters'[o])
            /\ \A j \in 1..Len(anyWaiters'[o]) :
                  /\ anyWaiters'[o][j] # anyWaiters[o][n]
                  /\ \E m \in 1..Len(anyWaiters[o]) : anyWaiters'[o][j] = anyWaiters[o][m]
            /\ \A m \in 1..Len(anyWaiters[o]) : m # n =>
                  \E j \in 1..Len(anyWaiters'[o]) : anyWaiters'[o][j] = anyWaiters[o][m]
        <4>1. PICK s \in Seq(Entry) : s = anyWaiters[o]
          BY <1>4
        <4>2. Distinct(s) /\ n \in 1..Len(s)
          BY <1>4, <4>1
        <4>3. LET r == RemoveNth(s, n)
              IN  /\ Distinct(r)
                  /\ \A j \in 1..Len(r) : r[j] # s[n] /\ \E m \in 1..Len(s) : r[j] = s[m]
                  /\ \A m \in 1..Len(s) : m # n => \E j \in 1..Len(r) : r[j] = s[m]
          <5> HIDE <2>6, <2>7
          <5> QED BY <4>2, RemoveNthElems
        <4> QED BY <2>7, <4>1, <4>3
      <3>2. ASSUME NEW e, InAny(e, o)' PROVE InAny(e, o) /\ e # MyEntry(t)
        <4>1. PICK j \in 1..Len(anyWaiters'[o]) : anyWaiters'[o][j] = e
          BY <3>2 DEF InAny
        <4> QED BY <2>6, <3>1, <4>1 DEF InAny
      <3>3. ASSUME NEW e, InAny(e, o), e # MyEntry(t) PROVE InAny(e, o)'
        <4>1. PICK m \in 1..Len(anyWaiters[o]) : anyWaiters[o][m] = e
          BY <3>3 DEF InAny
        <4>2. PICK j \in 1..Len(anyWaiters'[o]) : anyWaiters'[o][j] = e
          BY <2>6, <3>1, <3>3, <4>1
        <4> QED BY <4>2 DEF InAny
      <3> QED BY <3>1, <3>2, <3>3
    <2>9. IndexOK(t)'
      BY <1>8, SectionIndexOK
    <2> QED BY <1>1, <1>3, <2>1, <2>3, <2>5, <2>7, <2>8, <2>9, ChangedAnyInv
  <1> QED
    BY <1>6, <1>7, <1>8

LEMMA InitAnyInv == Init => AnyInv
  <1> SUFFICES ASSUME Init PROVE AnyInv
    OBVIOUS
  <1>1. \A t \in Threads : pc[t] = "idle" /\ call[t] = NoCall
    BY DEF Init
  <1>2. ASSUME NEW t \in Threads PROVE IndexOK(t) /\ AnyComplete(t)
    <2>1. AnyIn(t) = {}
      BY <1>1, EnteredNow DEF Entered, Checking, Within, Trying
    <2>2. IndexOK(t)
      BY <1>1 DEF IndexOK, IsWait, InWait, NoCall, Checking, Within, WaitSteps, AllSteps, Trying
    <2> QED BY <2>1, <2>2 DEF AnyComplete
  <1>3. ASSUME NEW o \in Objs PROVE AnySound(o) /\ Distinct(anyWaiters[o])
    <2>1. anyWaiters[o] = <<>>
      BY DEF Init
    <2> QED BY <2>1 DEF AnySound, Distinct
  <1> QED
    BY <1>2, <1>3 DEF AnyInv

LEMMA NextAnyInv == TypeInv /\ ListInv /\ AnyInv /\ [Next]_vars => AnyInv'
  <1> SUFFICES ASSUME TypeInv, ListInv, AnyInv, [Next]_vars PROVE AnyInv'
    OBVIOUS
  <1>1. CASE UNCHANGED vars
    <2>1. UNCHANGED <<anyWaiters, pc, call, stage, cur, i, todo, target>>
      BY <1>1 DEF vars, queuevars, locals
    <2>2. \A u : /\ InWait(u)' <=> InWait(u)
                 /\ AnyIn(u)' = AnyIn(u)
                 /\ \A k : EntryObj(u, k)' = EntryObj(u, k)
      BY <2>1 DEF InWait, AnyIn, At, EntryObj
    <2>3. \A u \in Threads : IndexOK(u)' <=> IndexOK(u)
      BY <2>1, <2>2 DEF IndexOK
    <2>4. \A u \in Threads : AnyComplete(u)'
      BY <2>1, <2>2 DEF AnyInv, AnyComplete, InAny
    <2>5. \A o \in Objs : AnySound(o)' /\ Distinct(anyWaiters[o])'
      BY <2>1, <2>2 DEF AnyInv, AnySound
    <2> QED BY <2>3, <2>4, <2>5 DEF AnyInv
  <1>2. CASE Next
    <2>1. PICK t \in Threads : Begin(t) \/ Die(t) \/ Interrupt(t) \/ Userspace(t) \/ Driver(t)
      BY <1>2 DEF Next
    <2> QED
      BY <2>1, FreeAnyInv, SectionAnyInv, LockingAnyInv, WakeAllAnyInv, AllAnyInv, QueueAnyInv
         DEF Interrupt, Driver, WakeUp, TimeOut
  <1> QED
    BY <1>1, <1>2

-----------------------------------------------------------------------------
(* What one step does to the calls, the claims and the objects.            *)

Step(t) == Begin(t) \/ Die(t) \/ LeaveSleep(t) \/ Userspace(t) \/ Driver(t)

LEMMA NextStep ==
  ASSUME Next
  PROVE  \E t \in Threads : Step(t)
  BY DEF Next, Step, Interrupt

LEMMA StepOthers ==
  ASSUME TypeInv, NEW t \in Threads, Step(t)
  PROVE  OthersStay(t)
  <1>1. CASE Begin(t) \/ Die(t) \/ Userspace(t) \/ Check(t) \/ LeaveSleep(t) \/ Return(t)
    BY <1>1, FreeStep
  <1>2. CASE \/ Queue(t) \/ Unqueue(t) \/ CheckObj(t) \/ SemRelease(t)
             \/ MutexUnlock(t) \/ MutexKill(t) \/ EventSet(t) \/ EventReset(t)
             \/ SemTakeHold(t) \/ SemClaim(t) \/ SemHoldDone(t) \/ SemGiveBack(t)
             \/ MutexScan(t) \/ EventScan(t) \/ ScanEnd(t)
    BY <1>2, SectionStep
  <1>3. CASE Lock(t) \/ LockMutex(t) \/ DevLock(t) \/ Unlock(t)
    BY <1>3, Moves DEF Lock, LockMutex, DevLock, Unlock, AfterUnlock, Finish
  <1>4. CASE WakeAllNext(t)
    BY <1>4, WakeAllNextMoves
  <1>5. CASE WakeAllLock(t) \/ WakeAllTry(t) \/ WakeAllCommit(t) \/ WakeAllUnlock(t)
    BY <1>5, Moves DEF WakeAllLock, WakeAllTry, WakeAllCommit, WakeAllUnlock
  <1>6. CASE AllMutex(t) \/ AllUnqueued(t)
    BY <1>6, Moves DEF AllMutex, AllUnqueued
  <1>7. CASE AllQueue(t) \/ AllFlag(t) \/ AllAdd(t)
    BY <1>7, Moves DEF AllQueue, AllFlag, AllAdd
  <1>8. CASE AllUnqueue(t) \/ AllUnhint(t) \/ AllClear(t)
    BY <1>8, Moves DEF AllUnqueue, AllUnhint, AllClear
  <1>9. CASE AllQueued(t)
    BY <1>9 DEF AllQueued, OthersStay, TypeInv, LocalInv, LocalType
  <1> QED
    BY <1>1, <1>2, <1>3, <1>4, <1>5, <1>6, <1>7, <1>8, <1>9 DEF Step, Driver, WakeUp, TimeOut

\* The call, the purpose and the object of t change together or not at all.
LEMMA StepCall ==
  ASSUME TypeInv, AnyInv, NEW t \in Threads, Step(t)
  PROVE  \/ call'[t] = call[t] /\ stage'[t] = stage[t] /\ cur'[t] = cur[t]
         \/ call'[t] = call[t] /\ stage'[t] \in Loops /\ pc'[t] = "lock"
         \/ call'[t] = NoCall /\ stage'[t] = "none"
         \/ FastWake(t) /\ call'[t] = call[t] /\ stage[t] = "release" /\ stage'[t] = "wake" /\ cur'[t] = cur[t]
         \/ Begin(t) /\ call'[t] \in Calls[t] /\ stage'[t] = call'[t].fn /\ cur'[t] = call'[t].objs[1]
  <1> DEFINE Fine == \/ call'[t] = call[t] /\ stage'[t] = stage[t] /\ cur'[t] = cur[t]
                     \/ call'[t] = call[t] /\ stage'[t] \in Loops /\ pc'[t] = "lock"
                     \/ call'[t] = NoCall /\ stage'[t] = "none"
  <1>1. /\ \A l : Goto(t, l) => Fine
        /\ \A l, k : GotoIndex(t, l, k) => Fine
        /\ \A l, s : GotoList(t, l, s) => Fine
        /\ \A s, k : s \in Loops /\ LockFor(t, s, k) => Fine
        /\ \A l : Leave(t, l) => Fine
    BY Moves, MovesFully, MovesWith
  <1>2. Finish(t) => Fine
    BY <1>1 DEF Finish
  <1>3. ASSUME SpinNext(t) \/ FastTake(t, Here(t)) PROVE Fine
    BY <1>1, <1>2, <1>3 DEF SpinNext, FastTake
  <1> USE DEF Loops
  <1>4. CASE Die(t) \/ FastReleaseDeclined(t) \/ FastRelease(t) \/ Setup(t) \/ Check(t) \/ LeaveSleep(t) \/ Return(t)
    <2>1. Fine
      <3> HIDE DEF Fine
      <3> QED BY <1>1, <1>2, <1>4 DEF Die, FastReleaseDeclined, FastRelease, Setup, Check, LeaveSleep, Return
    <2> QED BY <2>1
  <1>5. CASE Walk(t) \/ SpinPeek(t) \/ SpinTake(t)
    <2>1. Fine
      <3> HIDE DEF Fine
      <3> QED BY <1>1, <1>3, <1>5 DEF Walk, SpinPeek, SpinTake
    <2> QED BY <2>1
  <1>6. CASE Begin(t)
    <2>1. PICK c \in Calls[t] : call'[t] = c /\ stage'[t] = c.fn /\ cur'[t] = c.objs[1]
      BY <1>6 DEF Begin, TypeInv, LocalInv, LocalType
    <2> QED BY <1>6, <2>1
  <1>7. CASE FastWake(t)
    <2>1. stage[t] = "release"
      BY <1>7 DEF FastWake, AnyInv, IndexOK
    <2> QED BY <1>7, <2>1 DEF FastWake, TypeInv, LocalInv, LocalType
  <1>8. CASE \/ Queue(t) \/ Unqueue(t) \/ CheckObj(t) \/ SemRelease(t)
             \/ MutexUnlock(t) \/ MutexKill(t) \/ EventSet(t) \/ EventReset(t)
             \/ SemTakeHold(t) \/ SemClaim(t) \/ SemHoldDone(t) \/ SemGiveBack(t)
             \/ MutexScan(t) \/ EventScan(t) \/ ScanEnd(t)
    BY <1>8, SectionLocals, SectionStep
  <1>9. CASE Lock(t) \/ LockMutex(t) \/ DevLock(t) \/ Unlock(t)
    <2>1. Fine
      <3> HIDE DEF Fine
      <3> QED BY <1>1, <1>2, <1>9 DEF Lock, LockMutex, DevLock, Unlock, AfterUnlock
    <2> QED BY <2>1
  <1>10. CASE WakeAllNext(t) \/ AllQueued(t)
    <2>1. CASE WakeAllNext(t) /\ todo[t] = <<>> BY <1>1, <2>1 DEF WakeAllNext
    <2>2. CASE WakeAllNext(t) /\ todo[t] # <<>> BY <2>2 DEF WakeAllNext
    <2>3. CASE AllQueued(t) BY <2>3 DEF AllQueued
    <2> QED BY <1>10, <2>1, <2>2, <2>3
  <1>11. CASE WakeAllLock(t) \/ WakeAllTry(t) \/ WakeAllCommit(t) \/ WakeAllUnlock(t)
    <2>1. Fine
      <3> HIDE DEF Fine
      <3> QED BY <1>1, <1>11 DEF WakeAllLock, WakeAllTry, WakeAllCommit, WakeAllUnlock
    <2> QED BY <2>1
  <1>12. CASE \/ AllMutex(t) \/ AllUnqueued(t) \/ AllQueue(t) \/ AllFlag(t) \/ AllAdd(t)
              \/ AllUnqueue(t) \/ AllUnhint(t) \/ AllClear(t)
    <2>1. Fine
      <3> HIDE DEF Fine
      <3> QED BY <1>1, <1>12 DEF AllMutex, AllUnqueued, AllQueue, AllFlag, AllAdd, AllUnqueue, AllUnhint, AllClear
    <2> QED BY <2>1
  <1> QED
    BY <1>4, <1>5, <1>6, <1>7, <1>8, <1>9, <1>10, <1>11, <1>12 DEF Step, Userspace, Driver, WakeUp, TimeOut

\* A claim is made once, and stands until the wait has returned.
LEMMA StepClaims ==
  ASSUME TypeInv, NEW t \in Threads, Step(t), NEW u \in Threads
  PROVE  \/ signaled'[u] = signaled[u]
         \/ Unclaimed(u) /\ signaled'[u] \in Nat
         \/ u = t /\ pc[t] \in {"setup", "return"} /\ (Setup(t) \/ Return(t)) /\ signaled'[u] = -1
  <1>1. signaled \in [Threads -> Int] /\ todo[t] \in Seq(Entry)
    BY DEF TypeInv, QType, LocalInv, LocalType
  <1>2. todo[t] # <<>> => Head(todo[t]) \in Entry /\ Head(todo[t]).index \in Nat /\ Head(todo[t]).task \in Threads
    <2>1. todo[t] # <<>> => Head(todo[t]) = todo[t][1] /\ 1 \in 1..Len(todo[t])
      BY <1>1
    <2> QED BY <1>1, <2>1, TaskType
  <1>3. CASE UNCHANGED signaled
    BY <1>3
  <1>4. CASE SemClaim(t) \/ MutexScan(t) \/ EventScan(t)
    <2>1. todo[t] # <<>>
      BY <1>4 DEF SemClaim, MutexScan, EventScan, Scanning
    <2>2. UNCHANGED signaled \/ (Unclaimed(Head(todo[t]).task) /\ Claim(Head(todo[t])))
      BY <1>4 DEF SemClaim, MutexScan, EventScan, qvars
    <2> QED BY <1>1, <1>2, <2>1, <2>2 DEF Claim
  <1>5. CASE WakeAllTry(t)
    <2>1. UNCHANGED signaled \/ (Unclaimed(target[t]) /\ signaled' = [signaled EXCEPT ![target[t]] = 0])
      BY <1>5 DEF WakeAllTry
    <2> QED BY <1>1, <2>1
  <1>6. CASE Setup(t) \/ Return(t)
    BY <1>1, <1>6 DEF Setup, Return
  <1>7. CASE Begin(t) \/ Die(t) \/ LeaveSleep(t) \/ Check(t)
    BY <1>3, <1>7 DEF Begin, Die, LeaveSleep, Check, qvars
  <1>8. CASE FastReleaseDeclined(t) \/ FastRelease(t) \/ FastWake(t) \/ Walk(t) \/ SpinPeek(t) \/ SpinTake(t)
    BY <1>3, <1>8 DEF FastReleaseDeclined, FastRelease, FastWake, Walk, SpinPeek, SpinTake, qvars
  <1>9. CASE Lock(t) \/ LockMutex(t) \/ DevLock(t) \/ Unlock(t) \/ Queue(t) \/ Unqueue(t) \/ CheckObj(t)
    BY <1>3, <1>9 DEF Lock, LockMutex, DevLock, Unlock, Queue, Unqueue, CheckObj, qvars
  <1>10. CASE SemRelease(t) \/ MutexUnlock(t) \/ MutexKill(t) \/ EventSet(t) \/ EventReset(t)
    BY <1>3, <1>10 DEF SemRelease, MutexUnlock, MutexKill, EventSet, EventReset, qvars
  <1>11. CASE SemTakeHold(t) \/ SemHoldDone(t) \/ SemGiveBack(t) \/ ScanEnd(t)
    BY <1>3, <1>11 DEF SemTakeHold, SemHoldDone, SemGiveBack, ScanEnd, qvars
  <1>12. CASE WakeAllNext(t) \/ WakeAllLock(t) \/ WakeAllCommit(t) \/ WakeAllUnlock(t)
    BY <1>3, <1>12 DEF WakeAllNext, WakeAllLock, WakeAllCommit, WakeAllUnlock, qvars
  <1>13. CASE \/ AllMutex(t) \/ AllUnqueued(t) \/ AllQueue(t) \/ AllFlag(t) \/ AllAdd(t) \/ AllQueued(t)
              \/ AllUnqueue(t) \/ AllUnhint(t) \/ AllClear(t)
    BY <1>3, <1>13 DEF AllMutex, AllUnqueued, AllQueue, AllFlag, AllAdd, AllQueued, AllUnqueue, AllUnhint, AllClear, qvars
  <1> QED
    BY <1>4, <1>5, <1>6, <1>7, <1>8, <1>9, <1>10, <1>11, <1>12, <1>13 DEF Step, Userspace, Driver, WakeUp, TimeOut

\* An object becomes signaled to a task that is not claimed only by a release
\* that goes on to wake, or by a unit that comes back from a loan.
LEMMA SignalRise ==
  ASSUME TypeInv, TypeInv', WaitAllCommits, NEW t \in Threads, Step(t), NEW o \in Objs, NEW u \in Threads,
         ~IsSignaled(o, u), IsSignaled(o, u)', Unclaimed(u)'
  PROVE  /\ cur[t] = o
         /\ FastRelease(t) \/ SemGiveBack(t) \/ (pc[t] = "body" /\ stage[t] \in Wakers /\ WakeAfter(t))
  <1>1. /\ count \in [Objs -> Nat] /\ mcount \in [Objs -> Nat] /\ mowner \in [Objs -> Threads \cup {NoOne}]
        /\ event \in [Objs -> BOOLEAN] /\ count[o] \in Nat /\ count'[o] \in Nat /\ MaxRec \in Nat
        /\ mcount[o] \in Nat /\ mcount'[o] \in Nat
    BY ConstAssumption DEF TypeInv, ObjType
  <1>2. Type[o] \in {"sem", "mutex", "event"}
    BY ConstAssumption
  <1>3. /\ Type[o] = "sem" => count[o] = 0 /\ count'[o] > 0
        /\ Type[o] = "mutex" => ~(mowner[o] \in {NoOne, u} /\ mcount[o] < MaxRec) /\ mowner'[o] \in {NoOne, u} /\ mcount'[o] < MaxRec
        /\ Type[o] = "event" => ~event[o] /\ event'[o]
    <2>1. CASE Type[o] = "sem" BY <1>1, <2>1 DEF IsSignaled
    <2>2. CASE Type[o] = "mutex" BY <1>1, <2>2 DEF IsSignaled
    <2>3. CASE Type[o] = "event" BY <1>1, <2>3 DEF IsSignaled
    <2> QED BY <1>2, <2>1, <2>2, <2>3
  <1>4. ~UNCHANGED <<count, mcount, mowner, event>>
    BY <1>2, <1>3
  <1>5. ~(Begin(t) \/ Die(t) \/ LeaveSleep(t) \/ Check(t) \/ Setup(t) \/ Return(t) \/ FastReleaseDeclined(t) \/ FastWake(t)
          \/ SpinPeek(t))
    BY <1>4 DEF Begin, Die, LeaveSleep, Check, Setup, Return, FastReleaseDeclined, FastWake, SpinPeek, objvars, word, private
  <1>6. ~(Lock(t) \/ LockMutex(t) \/ DevLock(t) \/ Unlock(t) \/ Queue(t) \/ Unqueue(t) \/ CheckObj(t)
          \/ SemClaim(t) \/ SemHoldDone(t))
    BY <1>4 DEF Lock, LockMutex, DevLock, Unlock, Queue, Unqueue, CheckObj, SemClaim, SemHoldDone, objvars, word, private
  <1>7. ~(WakeAllNext(t) \/ WakeAllLock(t) \/ WakeAllTry(t) \/ WakeAllUnlock(t)
          \/ AllMutex(t) \/ AllUnqueued(t) \/ AllQueue(t) \/ AllFlag(t) \/ AllAdd(t) \/ AllQueued(t)
          \/ AllUnqueue(t) \/ AllUnhint(t) \/ AllClear(t))
    BY <1>4 DEF WakeAllNext, WakeAllLock, WakeAllTry, WakeAllUnlock,
           AllMutex, AllQueue, AllFlag, AllAdd, AllQueued, AllUnqueue, AllUnhint, AllClear, AllUnqueued,
           objvars, word, private
  <1>8. ASSUME pc[t] \in Looping, FastTake(t, Here(t)) PROVE FALSE
    <2>1. Here(t) \in Objs /\ count' = [count EXCEPT ![Here(t)] = @ - 1] /\ count[Here(t)] # 0 /\ UNCHANGED private
      BY <1>8, LoopingObj DEF FastTake, FastAcquire, TypeInv
    <2>2. count'[o] > 0 => count[o] > 0
      BY <1>1, <2>1
    <2>3. UNCHANGED <<mcount, mowner, event>>
      BY <2>1 DEF private
    <2> QED BY <1>2, <1>3, <2>2, <2>3
  <1>9. ~Walk(t) /\ ~SpinTake(t)
    BY <1>4, <1>8 DEF Walk, SpinTake, Looping, objvars, word, private
  <1>10. CASE FastRelease(t)
    <2>1. /\ cur[t] \in Objs /\ count' = [count EXCEPT ![cur[t]] = @ + call[t].n]
          /\ UNCHANGED <<mcount, mowner, event>>
      BY <1>10, CurObj DEF FastRelease, private
    <2> QED BY <1>1, <1>2, <1>3, <1>10, <2>1
  <1>11. CASE SemRelease(t)
    <2>1. /\ cur[t] \in Objs /\ UNCHANGED <<mcount, mowner, event>> /\ pc[t] = "body" /\ stage[t] \in Wakers
      BY <1>11, CurObj DEF SemRelease, InBody, private, Wakers
    <2>2. \/ UNCHANGED count
          \/ WakeAfter(t) /\ \E n : count' = [count EXCEPT ![cur[t]] = @ + n]
      BY <1>11 DEF SemRelease
    <2> QED BY <1>1, <1>2, <1>3, <2>1, <2>2
  <1>12. CASE SemTakeHold(t) \/ SemGiveBack(t)
    <2>1. cur[t] \in Objs /\ UNCHANGED <<mcount, mowner, event>>
      BY <1>12, CurObj DEF SemTakeHold, SemGiveBack, Scanning, private
    <2>2. ASSUME SemTakeHold(t)
          PROVE  UNCHANGED count \/ (count' = [count EXCEPT ![cur[t]] = @ - 1] /\ count[cur[t]] # 0)
      <3>1. CASE count[cur[t]] = 0 BY <2>2, <3>1 DEF SemTakeHold
      <3>2. CASE count[cur[t]] # 0 BY <2>2, <3>2 DEF SemTakeHold
      <3> QED BY <3>1, <3>2
    <2>3. SemGiveBack(t) => count' = [count EXCEPT ![cur[t]] = @ + 1]
      BY DEF SemGiveBack
    <2>4. ~SemTakeHold(t)
      <3>1. SemTakeHold(t) /\ count'[o] > 0 => count[o] > 0
        BY <1>1, <2>1, <2>2
      <3> QED BY <1>1, <1>2, <1>3, <2>1, <3>1
    <2> QED BY <1>1, <1>2, <1>3, <1>12, <2>1, <2>3, <2>4
  <1>13. CASE MutexUnlock(t) \/ MutexKill(t) \/ EventSet(t)
    <2>1. cur[t] \in Objs /\ UNCHANGED count /\ pc[t] = "body" /\ stage[t] \in Wakers
      BY <1>13, CurObj DEF MutexUnlock, MutexKill, EventSet, InBody, word, Wakers
    <2>2. WakeAfter(t) \/ UNCHANGED <<mcount, mowner, event>>
      BY <1>13 DEF MutexUnlock, MutexKill, EventSet
    <2>3. \A p \in Objs : p # cur[t] => mcount'[p] = mcount[p] /\ mowner'[p] = mowner[p] /\ event'[p] = event[p]
      BY <1>1, <1>13, <2>1 DEF MutexUnlock, MutexKill, EventSet
    <2> QED BY <1>2, <1>3, <1>4, <2>1, <2>2, <2>3
  <1>14. CASE EventReset(t) \/ EventScan(t) \/ ScanEnd(t)
    <2>1. cur[t] \in Objs /\ UNCHANGED <<count, mcount, mowner>>
      BY <1>14, CurObj DEF EventReset, EventScan, ScanEnd, Scanning, InBody, word
    <2>2. event'[o] => event[o]
      <3>1. CASE EventReset(t) BY <1>1, <2>1, <3>1 DEF EventReset
      <3>2. CASE EventScan(t)
        <4>1. UNCHANGED event \/ (event[cur[t]] /\ event' = [event EXCEPT ![cur[t]] = Manual[cur[t]]])
          BY <3>2 DEF EventScan
        <4> QED BY <1>1, <2>1, <4>1
      <3>3. CASE ScanEnd(t) BY <1>1, <2>1, <3>3 DEF ScanEnd
      <3> QED BY <1>14, <3>1, <3>2, <3>3
    <2> QED BY <1>2, <1>3, <2>1, <2>2
  <1>15. CASE MutexScan(t)
    <2> DEFINE e == Head(todo[t])
    <2>1. cur[t] \in Objs /\ UNCHANGED <<count, event>> /\ todo[t] # <<>> /\ todo[t] \in Seq(Entry)
      BY <1>15, CurObj DEF MutexScan, Scanning, word, TypeInv, LocalInv, LocalType
    <2>2. e.task \in Threads /\ e.index \in Nat
      <3>1. e = todo[t][1] /\ 1 \in 1..Len(todo[t])
        BY <2>1
      <3> QED BY <2>1, <3>1, TaskType
    <2>3. Claim(e) /\ mcount' = [mcount EXCEPT ![cur[t]] = @ + 1] /\ mowner' = [mowner EXCEPT ![cur[t]] = e.task]
      BY <1>4, <1>15, <2>1 DEF MutexScan
    <2>4. e.task # u
      <3>1. signaled'[e.task] = e.index
        BY <2>2, <2>3 DEF Claim, TypeInv, QType
      <3> QED BY <2>2, <3>1 DEF Unclaimed
    <2> QED BY <1>1, <1>2, <1>3, <2>1, <2>2, <2>3, <2>4, ConstAssumption
  <1>16. CASE WakeAllCommit(t)
    <2>1. ASSUME o \in TargetSet(t) PROVE FALSE
      <3>1. IsSignaled(o, target[t]) /\ target[t] \in Threads /\ target[t] # NoOne
        BY <1>16, <2>1, ConstAssumption DEF WakeAllCommit, WaitAllCommits, TypeInv, LocalInv, LocalOK, Trying
      <3>2. Type[o] = "mutex"
        <4>1. event'[o] => event[o]
          BY <1>16 DEF WakeAllCommit
        <4>2. count'[o] <= count[o]
          BY <1>1, <1>16 DEF WakeAllCommit
        <4> QED BY <1>1, <1>2, <1>3, <4>1, <4>2
      <3>3. mowner'[o] = target[t]
        BY <1>16, <2>1, <3>2 DEF WakeAllCommit
      <3>4. u = target[t]
        BY <1>3, <3>1, <3>2, <3>3
      <3> QED BY <3>1, <3>4
    <2>2. ASSUME o \notin TargetSet(t) PROVE FALSE
      <3>1. count'[o] = count[o] /\ mcount'[o] = mcount[o] /\ mowner'[o] = mowner[o] /\ (event'[o] => event[o])
        BY <1>16, <2>2 DEF WakeAllCommit
      <3> QED BY <1>2, <1>3, <3>1
    <2> QED BY <2>1, <2>2
  <1> QED
    BY <1>5, <1>6, <1>7, <1>9, <1>10, <1>11, <1>12, <1>13, <1>14, <1>15, <1>16
       DEF Step, Userspace, Driver, WakeUp, TimeOut

-----------------------------------------------------------------------------
(* The steps by where they happen.                                         *)

FreeAct(t) == Begin(t) \/ Die(t) \/ Userspace(t) \/ Check(t) \/ LeaveSleep(t) \/ Return(t)
SectionAct(t) ==
    \/ Queue(t) \/ Unqueue(t) \/ CheckObj(t) \/ SemRelease(t)
    \/ MutexUnlock(t) \/ MutexKill(t) \/ EventSet(t) \/ EventReset(t)
    \/ SemTakeHold(t) \/ SemClaim(t) \/ SemHoldDone(t) \/ SemGiveBack(t)
    \/ MutexScan(t) \/ EventScan(t) \/ ScanEnd(t)
LockingAct(t) == Lock(t) \/ LockMutex(t) \/ DevLock(t) \/ Unlock(t)
TryAct(t) == WakeAllLock(t) \/ WakeAllTry(t) \/ WakeAllCommit(t) \/ WakeAllUnlock(t)
AllAct(t) ==
    \/ AllMutex(t) \/ AllQueue(t) \/ AllFlag(t) \/ AllAdd(t) \/ AllQueued(t)
    \/ AllUnqueue(t) \/ AllUnhint(t) \/ AllClear(t) \/ AllUnqueued(t)

LEMMA StepKinds ==
  ASSUME NEW t \in Threads, Step(t)
  PROVE  FreeAct(t) \/ SectionAct(t) \/ LockingAct(t) \/ WakeAllNext(t) \/ TryAct(t) \/ AllAct(t)
  BY DEF Step, FreeAct, SectionAct, LockingAct, TryAct, AllAct, Driver, WakeUp, TimeOut

LEMMA LockingMoves ==
  ASSUME TypeInv, NEW t \in Threads, LockingAct(t)
  PROVE  \/ /\ pc[t] \in {"lock", "mutex", "dev_lock"} /\ pc'[t] \in {"body", "mutex", "dev_lock"}
            /\ call'[t] = call[t] /\ stage'[t] = stage[t] /\ i'[t] = i[t] /\ cur'[t] = cur[t]
         \/ /\ pc[t] = "unlock" /\ call'[t] = call[t]
            /\ \/ stage[t] \in {"queue", "unqueue"} /\ pc'[t] = "lock" /\ stage'[t] = stage[t]
               \/ stage[t] = "queue" /\ pc'[t] = "check" /\ i'[t] = 1
               \/ stage[t] = "unqueue" /\ pc'[t] = "return"
               \/ stage[t] = "check" /\ pc'[t] = "check" /\ i'[t] = i[t] + 1
         \/ pc[t] = "unlock" /\ stage[t] \notin {"queue", "check", "unqueue"} /\ pc'[t] = "idle"
  <1>1. CASE Lock(t) \/ LockMutex(t) \/ DevLock(t)
    BY <1>1, Moves, MovesFully DEF Lock, LockMutex, DevLock
  <1>2. CASE Unlock(t)
    BY <1>2, Moves, MovesFully, MovesWith DEF Unlock, AfterUnlock, Finish
  <1> QED BY <1>1, <1>2 DEF LockingAct

LEMMA TryMoves ==
  ASSUME TypeInv, NEW t \in Threads, TryAct(t)
  PROVE  /\ pc[t] \in Trying /\ call'[t] = call[t] /\ stage'[t] = stage[t] /\ cur'[t] = cur[t]
         /\ todo'[t] = todo[t] /\ target'[t] = target[t]
         /\ \/ /\ WakeAllLock(t) /\ pc[t] = "wa_lock" /\ pc'[t] = "wa_lock" /\ i'[t] = i[t] + 1
               /\ i[t] <= Len(TargetObjs(t))
            \/ WakeAllTry(t) /\ pc[t] = "wa_lock" /\ pc'[t] \in {"wa_commit", "wa_unlock"} /\ i[t] > Len(TargetObjs(t))
            \/ WakeAllCommit(t) /\ pc[t] = "wa_commit" /\ pc'[t] = "wa_unlock"
            \/ pc[t] = "wa_unlock" /\ target[t] = t /\ pc'[t] = "check" /\ i'[t] = Len(call[t].objs) + 1
            \/ pc[t] = "wa_unlock" /\ target[t] # t /\ pc'[t] = "wake_all"
  <1>1. CASE WakeAllLock(t)
    BY <1>1, Moves, MovesFully DEF WakeAllLock, Trying
  <1>2. CASE WakeAllTry(t)
    BY <1>2, Moves, MovesFully DEF WakeAllTry, Trying
  <1>3. CASE WakeAllCommit(t)
    BY <1>3, Moves, MovesFully DEF WakeAllCommit, Trying
  <1>4. CASE WakeAllUnlock(t)
    BY <1>4, Moves, MovesFully DEF WakeAllUnlock, Trying
  <1> QED BY <1>1, <1>2, <1>3, <1>4 DEF TryAct

LEMMA AllMoves ==
  ASSUME TypeInv, NEW t \in Threads, AllAct(t)
  PROVE  /\ pc[t] \in AllSteps \cup {"all_mutex", "all_leave"} /\ call'[t] = call[t]
         /\ \/ pc'[t] \in AllSteps
            \/ pc[t] = "all_queue" /\ pc'[t] = "wa_lock" /\ i'[t] = 1 /\ target'[t] = t
            \/ pc[t] = "all_unqueue" /\ pc'[t] = "return"
            \/ pc[t] = "all_unqueue" /\ pc'[t] = "lock" /\ stage'[t] = "unqueue"
  <1>1. CASE AllMutex(t) \/ AllQueue(t) \/ AllFlag(t) \/ AllAdd(t)
    BY <1>1, Moves, MovesFully DEF AllMutex, AllQueue, AllFlag, AllAdd, AllSteps
  <1>2. CASE AllUnqueue(t) \/ AllUnhint(t) \/ AllClear(t)
    BY <1>2, Moves, MovesFully DEF AllUnqueue, AllUnhint, AllClear, AllSteps
  <1>3. CASE AllUnqueued(t)
    BY <1>3, Moves, MovesFully DEF AllUnqueued, AllSteps
  <1>4. CASE AllQueued(t)
    BY <1>4 DEF AllQueued, AllSteps, TypeInv, LocalInv, LocalType
  <1> QED BY <1>1, <1>2, <1>3, <1>4 DEF AllAct

\* From userspace, and between the locked sections of a wait.
LEMMA FreeMoves ==
  ASSUME TypeInv, ListInv, NEW t \in Threads, FreeAct(t)
  PROVE  /\ pc[t] \in Free /\ pc'[t] \in Free
         /\ pc'[t] \in {"check", "sleep"} =>
               /\ Check(t) /\ pc[t] = "check" /\ pc'[t] = "sleep" /\ call'[t] = call[t] /\ i'[t] = i[t]
               /\ Unclaimed(t) => i[t] > Len(Entries(call[t]))
         /\ pc'[t] = "lock" /\ stage'[t] = "check" =>
               /\ pc[t] = "check" /\ call'[t] = call[t] /\ i'[t] = i[t] /\ i[t] <= Len(Entries(call[t]))
               /\ cur'[t] = Entries(call[t])[i[t]]
  <1>1. pc[t] \in Free /\ pc'[t] \in Free /\ i[t] \in Nat
    BY FreeStep DEF FreeAct, TypeInv, LocalInv, LocalType
  <1>2. CASE Check(t)
    <2>1. Len(Entries(call[t])) \in Nat
      BY <1>2, CurObj, CallType DEF Check
    <2> QED BY <1>1, <1>2, <2>1, Moves, MovesFully, MovesWith DEF Check
  <1>3. CASE LeaveSleep(t) \/ Return(t) \/ Die(t) \/ Setup(t)
    BY <1>1, <1>3, Moves, MovesFully, MovesWith DEF LeaveSleep, Return, Die, Setup, Finish
  <1>4. CASE Begin(t)
    <2>1. PICK c \in Calls[t] : pc'[t] = FirstStep(c) /\ stage'[t] = c.fn /\ c \in Call
      BY <1>4, CallType DEF Begin, TypeInv, LocalInv, LocalType
    <2>2. c.fn # "check" /\ FirstStep(c) \notin {"check", "sleep"}
      BY <2>1 DEF Call, FirstStep
    <2> QED BY <1>1, <2>1, <2>2
  <1>5. CASE FastReleaseDeclined(t) \/ FastRelease(t) \/ FastWake(t)
    <2>1. CASE FastWake(t)
      BY <1>1, <2>1 DEF FastWake, TypeInv, LocalInv, LocalType
    <2>2. CASE FastRelease(t)
      BY <1>1, <2>2, Moves, MovesWith DEF FastRelease, Finish
    <2>3. CASE FastReleaseDeclined(t)
      <3>1. pc[t] = "fast_release" /\ pc'[t] = "lock" /\ stage'[t] = stage[t]
        BY <2>3, Moves, MovesFully DEF FastReleaseDeclined
      <3> QED BY <1>1, <3>1 DEF ListInv, StageOK
    <2> QED BY <1>5, <2>1, <2>2, <2>3
  <1>6. CASE Walk(t) \/ SpinPeek(t) \/ SpinTake(t)
    <2>1. ASSUME FastTake(t, Here(t)) PROVE pc'[t] = "idle"
      BY <2>1, MovesWith DEF FastTake, Finish
    <2>2. ASSUME SpinNext(t) PROVE pc'[t] \in {"spin", "setup"}
      BY <2>2, Moves DEF SpinNext
    <2>3. pc'[t] \in {"idle", "walk", "spin", "spin_take", "setup"}
      <3>1. CASE Walk(t) BY <2>1, <3>1, Moves DEF Walk
      <3>2. CASE SpinPeek(t) BY <2>2, <3>2, Moves DEF SpinPeek
      <3>3. CASE SpinTake(t) BY <2>1, <2>2, <3>3 DEF SpinTake
      <3> QED BY <1>6, <3>1, <3>2, <3>3
    <2> QED BY <1>1, <2>3
  <1> QED BY <1>2, <1>3, <1>4, <1>5, <1>6 DEF FreeAct, Userspace

\* t has queued its wait and has not begun to unqueue it.
Attending(t) ==
    \/ pc[t] \in {"check", "sleep"}
    \/ pc[t] \in Checking /\ stage[t] = "check"
    \/ pc[t] \in Trying /\ target[t] = t

\* How a wait comes on.
LEMMA Progress ==
  ASSUME TypeInv, ListInv, AnyInv, NEW t \in Threads, Step(t), Attending(t)'
  PROVE  /\ call'[t] = call[t]
         /\ \/ /\ Check(t) /\ pc[t] = "check" /\ pc'[t] = "sleep" /\ i'[t] = i[t]
               /\ Unclaimed(t) => i[t] > Len(Entries(call[t]))
            \/ /\ pc[t] = "check" /\ pc'[t] = "lock" /\ stage'[t] = "check" /\ i'[t] = i[t]
               /\ i[t] <= Len(Entries(call[t])) /\ cur'[t] = Entries(call[t])[i[t]]
            \/ pc[t] \in Checking /\ stage[t] = "check" /\ pc'[t] \in Checking /\ stage'[t] = "check" /\ i'[t] = i[t]
            \/ pc[t] \in Checking /\ stage[t] = "check" /\ pc'[t] = "check" /\ i'[t] = i[t] + 1
            \/ pc[t] \in Checking /\ stage[t] = "queue" /\ pc'[t] = "check" /\ i'[t] = 1
            \/ pc[t] = "wa_unlock" /\ target[t] = t /\ pc'[t] = "check" /\ i'[t] = Len(call[t].objs) + 1
            \/ pc[t] = "all_queue" /\ pc'[t] = "wa_lock" /\ i'[t] = 1 /\ target'[t] = t
            \/ /\ WakeAllLock(t) /\ target[t] = t /\ target'[t] = t /\ pc[t] = "wa_lock" /\ pc'[t] = "wa_lock"
               /\ i'[t] = i[t] + 1 /\ i[t] <= Len(TargetObjs(t))
            \/ /\ WakeAllTry(t) /\ target[t] = t /\ target'[t] = t /\ pc[t] = "wa_lock"
               /\ pc'[t] \in {"wa_commit", "wa_unlock"} /\ i[t] > Len(TargetObjs(t))
            \/ WakeAllCommit(t) /\ target[t] = t /\ target'[t] = t /\ pc[t] = "wa_commit" /\ pc'[t] = "wa_unlock"
  <1> USE DEF Checking, Within, Trying
  <1>1. CASE FreeAct(t)
    BY <1>1, FreeMoves DEF Attending, Free
  <1>2. CASE SectionAct(t)
    <2>1. pc[t] \in Within /\ pc'[t] \in Within \cup {"wake_all"} /\ call'[t] = call[t] /\ stage'[t] = stage[t] /\ i'[t] = i[t]
      BY <1>2, SectionStep, SectionLocals DEF SectionAct
    <2> QED BY <2>1 DEF Attending
  <1>3. CASE LockingAct(t)
    BY <1>3, LockingMoves DEF Attending
  <1>4. CASE WakeAllNext(t)
    <2>1. pc[t] = "wake_all" /\ stage[t] \in Wakers
      BY <1>4 DEF WakeAllNext, ListInv, StageOK
    <2>2. stage'[t] = stage[t]
      BY <1>4, MovesFully DEF WakeAllNext
    <2>3. pc'[t] \in {"scan", "wa_lock"} /\ (pc'[t] = "wa_lock" => target'[t] # t)
      BY <1>4, WakeAllNextMoves, WakeAllListInv
    <2> QED BY <2>1, <2>2, <2>3 DEF Attending, Wakers
  <1>5. CASE TryAct(t)
    BY <1>5, TryMoves DEF Attending
  <1>6. CASE AllAct(t)
    BY <1>6, AllMoves DEF Attending, AllSteps
  <1> QED BY <1>1, <1>2, <1>3, <1>4, <1>5, <1>6, StepKinds

-----------------------------------------------------------------------------
(* What the sections are for, and the claim that try_wake_all commits.     *)

LEMMA InitKindInv == Init => KindInv
  BY DEF Init, KindInv, KindOK, Wakers

LEMMA CommitFrom ==
  ASSUME TypeInv, ListInv, NEW t \in Threads, Step(t), pc'[t] = "wa_commit"
  PROVE  WakeAllTry(t) /\ target'[t] = target[t] /\ target[t] \in Threads
  <1>1. ~FreeAct(t)
    BY FreeMoves DEF Free
  <1>2. ~SectionAct(t)
    BY SectionStep DEF SectionAct, Within
  <1>3. ~LockingAct(t) /\ ~WakeAllNext(t)
    BY LockingMoves, WakeAllNextMoves
  <1>4. ~AllAct(t)
    BY AllMoves DEF AllSteps
  <1>5. TryAct(t)
    BY <1>1, <1>2, <1>3, <1>4, StepKinds
  <1>6. WakeAllTry(t) /\ target'[t] = target[t] /\ pc[t] \in Trying
    BY <1>5, TryMoves
  <1> QED BY <1>6 DEF TypeInv, LocalInv, LocalOK

LEMMA NextKindInv == TypeInv /\ ListInv /\ AnyInv /\ KindInv /\ [Next]_vars => KindInv'
  <1> SUFFICES ASSUME TypeInv, ListInv, AnyInv, KindInv, [Next]_vars PROVE KindInv'
    OBVIOUS
  <1>1. CASE UNCHANGED vars
    <2>1. UNCHANGED <<signaled, pc, call, stage, cur, target>>
      BY <1>1 DEF vars, qvars, locals
    <2> QED BY <2>1 DEF KindInv, KindOK
  <1>2. CASE Next
    <2>1. PICK t \in Threads : Step(t)
      BY <1>2, NextStep
    <2>2. OthersStay(t) /\ signaled \in [Threads -> Int]
      BY <2>1, StepOthers DEF TypeInv, QType
    <2>3. ASSUME NEW u \in Threads, u # t PROVE KindOK(u)'
      <3>1. /\ pc'[u] = pc[u] /\ cur'[u] = cur[u] /\ target'[u] = target[u] /\ call'[u] = call[u] /\ stage'[u] = stage[u]
        BY <2>2, <2>3 DEF OthersStay
      <3>2. KindOK(u)
        BY DEF KindInv
      <3>3. ASSUME pc[u] = "wa_commit" PROVE signaled'[target[u]] = 0
        <4>1. target[u] \in Threads /\ InAll(target[u]) /\ signaled[target[u]] = 0
          BY <3>2, <3>3 DEF TypeInv, LocalInv, LocalOK, Trying, ListInv, WalkOK, KindOK
        <4>2. pc[target[u]] \notin {"setup", "return"}
          BY <4>1 DEF InAll, AllSteps, Trying, Checking, Within
        <4> QED BY <2>1, <4>1, <4>2, StepClaims DEF Unclaimed
      <3> QED BY <3>1, <3>2, <3>3 DEF KindOK
    <2>4. KindOK(t)'
      <3>1. ASSUME stage'[t] \in Wakers \cup {"reset"}
            PROVE  cur'[t] = call'[t].objs[1] /\ call'[t].fn = IF stage'[t] = "wake" THEN "release" ELSE stage'[t]
        <4>1. KindOK(t)
          BY DEF KindInv
        <4>2. CASE call'[t] = call[t] /\ stage'[t] = stage[t] /\ cur'[t] = cur[t]
          BY <3>1, <4>1, <4>2 DEF KindOK
        <4>3. CASE stage'[t] \in Loops \cup {"none"}
          BY <3>1, <4>3 DEF Loops, Wakers
        <4>4. CASE call'[t] = call[t] /\ stage[t] = "release" /\ stage'[t] = "wake" /\ cur'[t] = cur[t]
          BY <4>1, <4>4 DEF KindOK, Wakers
        <4>5. CASE call'[t] \in Calls[t] /\ stage'[t] = call'[t].fn /\ cur'[t] = call'[t].objs[1]
          <5>1. call'[t].fn # "wake"
            BY <4>5, CallType DEF Call
          <5> QED BY <4>5, <5>1
        <4> QED BY <2>1, <4>2, <4>3, <4>4, <4>5, StepCall
      <3>2. ASSUME pc'[t] = "wa_commit" PROVE signaled'[target'[t]] = 0
        <4>1. WakeAllTry(t) /\ target'[t] = target[t] /\ target[t] \in Threads
          BY <2>1, <3>2, CommitFrom
        <4>2. signaled' = [signaled EXCEPT ![target[t]] = 0]
          BY <3>2, <4>1, Moves DEF WakeAllTry
        <4> QED BY <2>2, <4>1, <4>2
      <3> QED BY <3>1, <3>2 DEF KindOK
    <2> QED BY <2>3, <2>4 DEF KindInv
  <1> QED BY <1>1, <1>2

-----------------------------------------------------------------------------
(* Entries, lists and what one step does to them.                          *)

LEMMA EntryIn ==
  ASSUME TypeInv, AnyInv, NEW u \in Threads, NEW k \in AnyIn(u)
  PROVE  /\ pc[u] \notin {"idle", "dead", "setup", "return"} /\ call[u] \in Calls[u]
         /\ k \in AnyEntries(call[u]) /\ k \in Nat /\ k <= Len(Entries(call[u])) /\ EntryObj(u, k) \in Objs
         /\ IsAll(call[u]) => k > Len(call[u].objs)
         /\ InAny([task |-> u, index |-> k], EntryObj(u, k))
         /\ anyWaiters[EntryObj(u, k)] \in Seq(Entry) /\ Len(anyWaiters[EntryObj(u, k)]) > 0
  <1>1. pc[u] \notin {"idle", "dead", "setup", "return"}
    BY EnteredNow DEF Entered, Checking, Within, Trying
  <1>2. call[u] \in Calls[u] /\ k \in AnyEntries(call[u])
    BY <1>1, CurObj DEF AnyIn
  <1>3. k \in Nat /\ k <= Len(Entries(call[u])) /\ EntryObj(u, k) \in Objs
    BY <1>2, EntryFacts DEF EntryObj
  <1>4. InAny([task |-> u, index |-> k], EntryObj(u, k))
    BY DEF AnyInv, AnyComplete
  <1>5. IsAll(call[u]) => k > Len(call[u].objs)
    BY <1>2 DEF AnyEntries
  <1>6. anyWaiters[EntryObj(u, k)] \in Seq(Entry)
    BY <1>3 DEF TypeInv, QueueType
  <1> QED BY <1>1, <1>2, <1>3, <1>4, <1>5, <1>6 DEF InAny

\* An entry that is in a list, and that list unchanged, was in it before.
LEMMA EntryStays ==
  ASSUME TypeInv, TypeInv', AnyInv, AnyInv', NEW u \in Threads, NEW k \in AnyIn(u)', NEW o \in Objs, EntryObj(u, k)' = o,
         anyWaiters'[o] = anyWaiters[o]
  PROVE  k \in AnyIn(u) /\ EntryObj(u, k) = o
  <1>1. InAny([task |-> u, index |-> k], o)'
    BY DEF AnyInv, AnyComplete
  <1>2. PICK m \in 1..Len(anyWaiters[o]) : anyWaiters[o][m] = [task |-> u, index |-> k]
    BY <1>1 DEF InAny
  <1>3. AnySound(o)
    BY DEF AnyInv
  <1> QED BY <1>2, <1>3 DEF AnySound

LEMMA EntryStaysIn ==
  ASSUME TypeInv, TypeInv', AnyInv, AnyInv', NEW u \in Threads, NEW k \in AnyIn(u)', UNCHANGED anyWaiters
  PROVE  k \in AnyIn(u) /\ EntryObj(u, k)' = EntryObj(u, k) /\ EntryObj(u, k) \in Objs
  <1>1. call'[u] \in Calls[u] /\ k \in AnyEntries(call'[u])
    <2>1. pc'[u] \notin {"idle", "dead"}
      BY EnteredNext DEF Entered, Checking, Within, Trying
    <2> QED BY <2>1 DEF AnyIn, TypeInv, LocalInv, LocalOK
  <1>2. PICK o \in Objs : EntryObj(u, k)' = o
    BY <1>1, EntryFacts DEF EntryObj
  <1> QED BY <1>2, EntryStays

LEMMA ClaimStays ==
  ASSUME TypeInv, AnyInv, NEW t \in Threads, Step(t), NEW u \in Threads, Unclaimed(u)',
         pc[u] \notin {"setup", "return"}
  PROVE  Unclaimed(u)
  <1>1. signaled[u] \in Int
    BY DEF TypeInv, QType
  <1> QED BY <1>1, StepClaims DEF Unclaimed

LEMMA ListedAll ==
  ASSUME TypeInv, TypeInv', AnyInv, AnyInv', UNCHANGED anyWaiters, NEW t \in Threads, NEW o \in Objs,
         todo'[t] = anyWaiters[o], NEW u \in Threads, NEW k \in AnyIn(u)', EntryObj(u, k)' = o
  PROVE  Listed(t, u)'
  <1>1. InAny([task |-> u, index |-> k], o)'
    BY DEF AnyInv, AnyComplete
  <1>2. PICK m \in 1..Len(anyWaiters[o]) : anyWaiters[o][m] = [task |-> u, index |-> k]
    BY <1>1 DEF InAny
  <1> QED BY <1>2 DEF Listed

LEMMA ListedTail ==
  ASSUME TypeInv, NEW t \in Threads, NEW u \in Threads, Listed(t, u)
  PROVE  /\ todo[t] # <<>> /\ Head(todo[t]) \in Entry /\ Head(todo[t]).task \in Threads /\ Head(todo[t]).index \in Nat
         /\ Head(todo[t]).task # u /\ todo'[t] = Tail(todo[t]) => Listed(t, u)'
         /\ todo'[t] = todo[t] => Listed(t, u)'
  <1>1. todo[t] \in Seq(Entry) /\ Len(todo[t]) \in Nat
    BY DEF TypeInv, LocalInv, LocalType
  <1>2. PICK k \in 1..Len(todo[t]) : todo[t][k].task = u
    BY DEF Listed
  <1>3. todo[t] # <<>> /\ Head(todo[t]) = todo[t][1] /\ 1 \in 1..Len(todo[t])
    BY <1>1, <1>2
  <1>4. Head(todo[t]) \in Entry /\ Head(todo[t]).task \in Threads /\ Head(todo[t]).index \in Nat
    BY <1>1, <1>3, TaskType
  <1>5. ASSUME Head(todo[t]).task # u, todo'[t] = Tail(todo[t]) PROVE Listed(t, u)'
    <2>1. k # 1
      BY <1>2, <1>3, <1>5
    <2>2. k - 1 \in 1..Len(Tail(todo[t])) /\ Tail(todo[t])[k - 1] = todo[t][k]
      BY <1>1, <1>2, <1>3, <2>1
    <2> QED BY <1>2, <1>5, <2>2 DEF Listed
  <1> QED BY <1>2, <1>3, <1>4, <1>5 DEF Listed

\* An entry comes due when its own task is about to check it.
LEMMA DueStep ==
  ASSUME TypeInv, TypeInv', ListInv, AnyInv, AnyInv', NEW t \in Threads, Step(t),
         NEW u \in Threads, Unclaimed(u)', NEW k \in Due(u)'
  PROVE  /\ Unclaimed(u) /\ k \in AnyIn(u) /\ k \in AnyIn(u)'
         /\ EntryObj(u, k)' = EntryObj(u, k) /\ EntryObj(u, k) \in Objs
         /\ k \in Due(u) \/ SureScan(u, EntryObj(u, k), u)'
  <1>1. k \in AnyIn(u)'
    BY DEF Due
  <1>2. OthersStay(t)
    BY StepOthers
  <1>3. CASE u # t
    <2>1. AnyIn(u)' = AnyIn(u) /\ EntryObj(u, k)' = EntryObj(u, k)
      BY <1>2, <1>3, AnyOfOthers
    <2>2. k \in Due(u)
      BY <1>2, <1>3, <2>1 DEF Due, OthersStay
    <2>3. k \in AnyIn(u) /\ EntryObj(u, k) \in Objs /\ pc[u] \notin {"setup", "return"}
      BY <1>1, <2>1, EntryIn
    <2> QED BY <1>1, <2>1, <2>2, <2>3, ClaimStays
  <1>4. CASE u = t
    <2>1. Attending(t)'
      BY <1>4 DEF Due, Attending
    <2>2. call'[t] = call[t]
      BY <2>1, Progress
    <2>3. AnyEntries(call[t])' = AnyEntries(call[t]) /\ EntryObj(t, k)' = EntryObj(t, k)
      BY <2>2 DEF AnyEntries, EntryObj, Entries, IsAll
    <2>4. k \in AnyEntries(call[t])
      BY <1>1, <1>4, <2>3 DEF AnyIn
    <2>5. pc[t] \notin {"idle", "dead", "setup", "return"}
      BY <2>1, Progress DEF Checking, Within
    <2>6. call[t] \in Calls[t] /\ i[t] \in Nat \ {0}
      BY <2>5, CurObj DEF TypeInv, LocalInv, LocalType
    <2>7. /\ k \in Nat /\ k > 0 /\ k <= Len(Entries(call[t])) /\ Len(Entries(call[t])) \in Nat /\ EntryObj(t, k) \in Objs
          /\ Len(call[t].objs) \in Nat /\ (IsAll(call[t]) => k > Len(call[t].objs))
      BY <2>4, <2>6, EntryFacts DEF EntryObj, AnyEntries
    <2>8. Unclaimed(t)
      BY <1>4, <2>5, ClaimStays
    <2>9. /\ pc'[t] \in {"check", "sleep"} \cup Checking
          /\ pc'[t] = "check" => k < i'[t]
          /\ pc'[t] \in Checking => stage'[t] = "check" /\ k <= i'[t]
      BY <1>4 DEF Due, Checking, Within
    <2>10. pc[t] \in Trying /\ target[t] = t => IsAll(call[t])
      BY DEF ListInv, WalkOK, InAll
    <2>11. \/ pc[t] = "sleep" \/ (pc[t] = "check" /\ k < i[t]) \/ (pc[t] \in Checking /\ stage[t] = "check" /\ k <= i[t])
           \/ k = i[t] /\ pc'[t] = "lock" /\ stage'[t] = "check" /\ cur'[t] = EntryObj(t, k)
      BY <2>1, <2>4, <2>6, <2>7, <2>8, <2>9, <2>10, Progress DEF EntryObj, Checking, Within, Trying
    <2>12. AnyIn(t) = AnyEntries(call[t])
      <3>1. pc[t] \in {"check", "sleep"} \/ (pc[t] \in Checking /\ stage[t] = "check")
        BY <2>1, <2>6, <2>7, <2>9, <2>10, Progress DEF Checking, Within, Trying
      <3> QED BY <3>1, EnteredNow DEF Entered
    <2>13. ASSUME pc'[t] = "lock", stage'[t] = "check", cur'[t] = EntryObj(t, k) PROVE SureScan(t, EntryObj(t, k), t)'
      BY <2>3, <2>13 DEF SureScan
    <2>14. k \in Due(t) \/ SureScan(t, EntryObj(t, k), t)'
      BY <2>4, <2>11, <2>12, <2>13 DEF Due
    <2>15. k \in AnyIn(t)
      BY <2>4, <2>12
    <2> QED BY <1>1, <1>4, <2>3, <2>7, <2>8, <2>14, <2>15
  <1> QED BY <1>3, <1>4

-----------------------------------------------------------------------------
(* Who is on the way stays on the way.                                     *)

\* The releaser whose compare-and-swap displaced a waiter is not killed
\* before the ioctl that wakes the waiter.
ReleaserSurvives == \A t \in Threads : pc[t] = "fast_wake" => pc'[t] # "dead"

\* What scans an object and has not passed u does not pass u before u is
\* claimed, or the object is not signaled any more.
LEMMA ScanPasses ==
  ASSUME TypeInv, TypeInv', NEW t \in Threads, SectionAct(t), NEW u \in Threads, Unclaimed(u)', NEW o \in Objs, cur[t] = o,
         pc[t] \in {"scan", "loan", "placed"}, Listed(t, u), IsSignaled(o, u)' \/ pc[t] \in Holding
  PROVE  pc'[t] \in {"scan", "loan", "placed"} /\ Listed(t, u)'
  <1> DEFINE e == Head(todo[t])
  <1>1. todo[t] # <<>> /\ e.task \in Threads /\ e.index \in Nat
    BY ListedTail
  <1>2. cur[t] \in Objs /\ Type[cur[t]] \in {"sem", "mutex", "event"}
    BY CurObj, ConstAssumption
  <1>3. Claim(e) => e.task # u
    <2>1. Claim(e) => signaled'[e.task] = e.index
      BY <1>1 DEF Claim, TypeInv, QType
    <2> QED BY <1>1, <2>1 DEF Unclaimed
  <1>4. UNCHANGED signaled /\ ~Unclaimed(e.task) => e.task # u
    BY DEF Unclaimed
  <1> HIDE DEF e
  <1>5. \A l : (Goto(t, l) \/ (GotoList(t, l, Tail(todo[t])) /\ e.task # u)) => pc'[t] = l /\ Listed(t, u)'
    BY Moves, MovesFully, ListedTail DEF e
  <1>6. CASE SemTakeHold(t)
    <2>1. Type[cur[t]] = "sem"
      BY <1>6 DEF SemTakeHold, Scanning
    <2>2. count[cur[t]] # 0
      <3>1. SUFFICES ASSUME count[cur[t]] = 0 PROVE FALSE
        OBVIOUS
      <3>2. count'[cur[t]] = 0
        BY <1>6, <3>1 DEF SemTakeHold
      <3>3. pc[t] \notin Holding
        BY <1>6 DEF SemTakeHold, Scanning, Holding
      <3> QED BY <2>1, <3>2, <3>3 DEF IsSignaled
    <2>3. Goto(t, "loan")
      BY <1>6, <2>2 DEF SemTakeHold
    <2> QED BY <1>5, <2>3
  <1>7. CASE SemClaim(t)
    <2>1. CASE Unclaimed(e.task)
      <3>1. Claim(e) /\ GotoList(t, "placed", Tail(todo[t]))
        BY <1>7, <2>1 DEF SemClaim, e
      <3> QED BY <1>3, <1>5, <3>1
    <2>2. CASE ~Unclaimed(e.task)
      <3>1. UNCHANGED signaled /\ GotoList(t, "loan", Tail(todo[t]))
        BY <1>7, <2>2 DEF SemClaim, e
      <3> QED BY <1>4, <1>5, <2>2, <3>1
    <2> QED BY <2>1, <2>2
  <1>8. CASE SemHoldDone(t) \/ SemGiveBack(t) \/ ScanEnd(t)
    BY <1>1, <1>5, <1>8 DEF SemHoldDone, SemGiveBack, ScanEnd
  <1>9. CASE MutexScan(t)
    <2>1. Type[cur[t]] = "mutex" /\ pc[t] \notin Holding
      BY <1>9 DEF MutexScan, Scanning, Holding
    <2>2. mowner'[cur[t]] \in {NoOne, u} /\ mcount'[cur[t]] < MaxRec
      BY <2>1 DEF IsSignaled
    <2>3. GotoList(t, "scan", Tail(todo[t])) /\ e.task # u
      <3>1. CASE mcount[cur[t]] = MaxRec /\ UNCHANGED mcount
        BY <2>2, <3>1, ConstAssumption
      <3>2. CASE mowner[cur[t]] \notin {NoOne, e.task} /\ GotoList(t, "scan", Tail(todo[t])) /\ UNCHANGED mowner
        BY <2>2, <3>2
      <3>3. CASE ~Unclaimed(e.task) /\ GotoList(t, "scan", Tail(todo[t])) /\ UNCHANGED signaled
        BY <1>4, <3>3
      <3>4. CASE Claim(e) /\ GotoList(t, "scan", Tail(todo[t]))
        BY <1>3, <3>4
      <3> QED BY <1>9, <3>1, <3>2, <3>3, <3>4 DEF MutexScan, qvars, e
    <2> QED BY <1>5, <2>3
  <1>10. CASE EventScan(t)
    <2>1. Type[cur[t]] = "event" /\ pc[t] \notin Holding
      BY <1>10 DEF EventScan, Scanning, Holding
    <2>2. event'[cur[t]]
      BY <2>1 DEF IsSignaled
    <2>3. GotoList(t, "scan", Tail(todo[t])) /\ e.task # u
      <3>1. CASE ~event[cur[t]] /\ UNCHANGED event
        BY <2>2, <3>1
      <3>2. CASE ~Unclaimed(e.task) /\ GotoList(t, "scan", Tail(todo[t])) /\ UNCHANGED signaled
        BY <1>4, <3>2
      <3>3. CASE Claim(e) /\ GotoList(t, "scan", Tail(todo[t]))
        BY <1>3, <3>3
      <3> QED BY <1>10, <3>1, <3>2, <3>3 DEF EventScan, e
    <2> QED BY <1>5, <2>3
  <1> QED
    BY <1>6, <1>7, <1>8, <1>9, <1>10 DEF SectionAct, Queue, Unqueue, CheckObj, SemRelease, MutexUnlock, MutexKill,
           EventSet, EventReset, InBody

LEMMA SureScanStep ==
  ASSUME TypeInv, TypeInv', LoanInv, ListInv, AnyInv, AnyInv', KindInv, ReleaserSurvives,
         NEW s \in Threads, Step(s), NEW t \in Threads, NEW o \in Objs, NEW u \in Threads, SureScan(t, o, u),
         Unclaimed(u)', IsSignaled(o, u)', NEW k \in AnyIn(u)', EntryObj(u, k)' = o
  PROVE  SureScan(t, o, u)'
  <1>1. OthersStay(s)
    BY StepOthers
  <1>2. CASE t # s
    <2>1. /\ pc'[t] = pc[t] /\ cur'[t] = cur[t] /\ target'[t] = target[t] /\ stage'[t] = stage[t] /\ todo'[t] = todo[t]
      BY <1>1, <1>2 DEF OthersStay
    <2>2. Listed(t, u)' <=> Listed(t, u)
      BY <2>1 DEF Listed
    <2> QED BY <2>1, <2>2 DEF SureScan
  <1>3. CASE t = s
    <2>1. cur[t] = o /\ stage[t] \in Wakers \cup {"check"} /\ Step(t)
      BY <1>3 DEF SureScan
    <2>2. CASE pc[t] = "fast_wake"
      <3>1. FreeAct(t)
        BY <2>1, <2>2, StepKinds, SectionStep, LockingMoves, TryMoves, AllMoves
           DEF SectionAct, Within, WakeAllNext, Trying, AllSteps
      <3>2. FastWake(t)
        BY <2>2, <3>1, MovesWith DEF FreeAct, Userspace, Begin, Die, Check, LeaveSleep, Return, FastReleaseDeclined, FastRelease, Walk,
               SpinPeek, SpinTake, Setup, ReleaserSurvives
      <3>3. pc'[t] = "lock" /\ stage'[t] = "wake" /\ cur'[t] = cur[t]
        BY <3>2 DEF FastWake, TypeInv, LocalInv, LocalType
      <3> QED BY <2>1, <3>3 DEF SureScan, Wakers
    <2>3. CASE pc[t] \in {"lock", "mutex", "dev_lock"} /\ stage[t] \in {"wake", "check"}
      <3>1. LockingAct(t)
        <4>1. ~FreeAct(t)
          BY <2>3 DEF FreeAct, Userspace, Begin, Die, Check, LeaveSleep, Return, FastReleaseDeclined, FastRelease, FastWake, Walk,
                 SpinPeek, SpinTake, Setup
        <4> QED BY <2>1, <2>3, <4>1, StepKinds, SectionStep, TryMoves, AllMoves
                   DEF SectionAct, Within, WakeAllNext, Trying, AllSteps
      <3>2. pc'[t] \in {"body", "mutex", "dev_lock"} /\ stage'[t] = stage[t] /\ cur'[t] = cur[t]
        BY <2>3, <3>1, LockingMoves
      <3> QED BY <2>1, <2>3, <3>2 DEF SureScan
    <2>4. CASE pc[t] = "body" /\ stage[t] \in {"wake", "check"}
      <3>1. SectionAct(t)
        <4>1. ~FreeAct(t)
          BY <2>4, FreeMoves DEF Free
        <4> QED BY <2>1, <2>4, <4>1, StepKinds, LockingMoves, TryMoves, AllMoves DEF WakeAllNext, Trying, AllSteps
      <3>2. CheckObj(t) \/ (SemRelease(t) /\ stage[t] = "wake")
        BY <2>4, <3>1 DEF SectionAct, Queue, Unqueue, MutexUnlock, MutexKill, EventSet, EventReset, InBody,
               SemTakeHold, SemClaim, SemHoldDone, SemGiveBack, MutexScan, EventScan, ScanEnd, Scanning, CheckObj, SemRelease
      <3>3. UNCHANGED anyWaiters /\ cur'[t] = cur[t] /\ stage'[t] = stage[t]
        BY <3>1, <3>2, SectionStep, SectionLocals DEF SectionAct, CheckObj, SemRelease, queuevars
      <3>4. CASE CheckObj(t)
        <4>1. pc'[t] = "scan" /\ todo'[t] = anyWaiters[o]
          BY <2>1, <3>4, Moves, MovesFully DEF CheckObj
        <4> QED BY <2>1, <3>3, <4>1, ListedAll DEF SureScan
      <3>5. CASE SemRelease(t) /\ stage[t] = "wake"
        <4>1. Type[o] = "sem"
          <5>1. cur[t] = call[t].objs[1] /\ call[t].fn = "release" /\ call[t] \in Calls[t]
            BY <2>4, <3>5, CurObj DEF KindInv, KindOK, Wakers
          <5> QED BY <2>1, <5>1, CallAssumption
        <4>2. count[o] \in Nat /\ Max[o] \in Nat /\ count[o] <= Max[o]
          <5>1. count[o] \in Nat /\ Max[o] \in Nat /\ count[o] + OnLoan(o) <= Max[o]
            BY <4>1, ConstAssumption DEF LoanInv, NoOvershoot, TypeInv, ObjType
          <5> QED BY <5>1, OnLoanValue
        <4>3. WakeAfter(t)
          BY <2>1, <3>5, <4>2 DEF SemRelease
        <4>4. pc'[t] = "wake_all" \/ (pc'[t] = "scan" /\ todo'[t] = anyWaiters[o])
          BY <2>1, <4>3, Moves, MovesFully DEF WakeAfter
        <4> QED BY <2>1, <3>3, <4>4, ListedAll DEF SureScan
      <3> QED BY <3>2, <3>4, <3>5
    <2>5. CASE pc[t] = "wake_all" \/ (pc[t] \in Trying /\ target[t] # t)
      <3>1. WakeAllNext(t) \/ TryAct(t)
        <4>1. ~FreeAct(t)
          BY <2>5, FreeMoves DEF Free, Trying
        <4> QED BY <2>1, <2>5, <4>1, StepKinds, LockingMoves, SectionStep, AllMoves DEF Trying, AllSteps, SectionAct, Within
      <3>2. CASE WakeAllNext(t)
        <4>1. /\ UNCHANGED anyWaiters /\ cur'[t] = cur[t] /\ stage'[t] = stage[t]
              /\ pc'[t] = "wa_lock" \/ (pc'[t] = "scan" /\ todo'[t] = anyWaiters[o])
          <5>1. UNCHANGED anyWaiters
            BY <3>2 DEF WakeAllNext, queuevars
          <5>2. CASE todo[t] = <<>>
            BY <2>1, <3>2, <5>1, <5>2, Moves, MovesFully DEF WakeAllNext
          <5>3. CASE todo[t] # <<>>
            BY <3>2, <5>1, <5>3 DEF WakeAllNext, TypeInv, LocalInv, LocalType
          <5> QED BY <5>2, <5>3
        <4>2. pc'[t] = "wa_lock" => target'[t] # t
          BY <3>2, WakeAllListInv
        <4> QED BY <2>1, <4>1, <4>2, ListedAll DEF SureScan, Trying
      <3>3. CASE TryAct(t)
        <4>1. target[t] # t
          BY <2>5, <3>3, TryMoves DEF Trying
        <4> QED BY <2>1, <3>3, <4>1, TryMoves DEF SureScan, Trying
      <3> QED BY <3>1, <3>2, <3>3
    <2>6. CASE pc[t] \in {"scan", "loan", "placed"} /\ Listed(t, u)
      <3>1. SectionAct(t)
        <4>1. ~FreeAct(t)
          BY <2>6, FreeMoves DEF Free
        <4> QED BY <2>1, <2>6, <4>1, StepKinds, LockingMoves, TryMoves, AllMoves DEF WakeAllNext, Trying, AllSteps
      <3>2. pc'[t] \in {"scan", "loan", "placed"} /\ Listed(t, u)'
        BY <2>1, <2>6, <3>1, ScanPasses
      <3> QED BY <2>1, <3>1, <3>2, SectionStep, SectionLocals DEF SureScan, SectionAct
    <2> QED BY <1>3, <2>2, <2>3, <2>4, <2>5, <2>6 DEF SureScan
  <1> QED BY <1>2, <1>3

\* What raises an object that a task waits for goes on to scan its list.
LEMMA RiseScans ==
  ASSUME TypeInv, TypeInv', LockInv, ListInv, AnyInv, AnyInv', WaitAllCommits, \A v \in Threads : ScanOK(v),
         NEW s \in Threads, Step(s), NEW o \in Objs, NEW u \in Threads, Unclaimed(u), Unclaimed(u)',
         ~IsSignaled(o, u), IsSignaled(o, u)', NEW k \in AnyIn(u), EntryObj(u, k) = o, k \in AnyIn(u)', EntryObj(u, k)' = o
  PROVE  SureScan(s, o, u)'
  <1>1. /\ cur[s] = o
        /\ FastRelease(s) \/ SemGiveBack(s) \/ (pc[s] = "body" /\ stage[s] \in Wakers /\ WakeAfter(s))
    BY SignalRise
  <1>2. CASE FastRelease(s)
    <2>1. stage[s] = "release"
      BY <1>2 DEF FastRelease, ListInv, StageOK
    <2>2. waiters[o] # 0
      <3>1. Len(anyWaiters[o]) > 0
        BY EntryIn
      <3>2. anyWaiters[o] \in Seq(Entry) /\ allWaiters[o] \in Seq(Entry)
        BY DEF TypeInv, QueueType
      <3>3. Len(anyWaiters[o]) \in Nat /\ Len(allWaiters[o]) \in Nat
        BY <3>2
      <3>4. waiters[o] = Len(anyWaiters[o]) + Len(allWaiters[o])
        BY DEF TypeInv, Counted
      <3>5. \A a, b \in Nat : a > 0 => a + b # 0
        OBVIOUS
      <3> QED BY <3>1, <3>3, <3>4, <3>5
    <2>3. Goto(s, "fast_wake")
      BY <1>1, <1>2, <2>2 DEF FastRelease
    <2>4. pc'[s] = "fast_wake" /\ cur'[s] = o /\ stage'[s] = "release"
      BY <1>1, <2>1, <2>3, Moves, MovesFully
    <2> QED BY <2>4 DEF SureScan, Wakers
  <1>3. CASE SemGiveBack(s)
    <2>1. pc[s] \in Holding /\ todo[s] = <<>> /\ ScanOK(s)
      BY <1>3 DEF SemGiveBack, Holding
    <2>2. Listed(s, u)
      BY <1>1, <2>1 DEF ScanOK
    <2> QED BY <2>1, <2>2 DEF Listed
  <1>4. CASE pc[s] = "body" /\ stage[s] \in Wakers /\ WakeAfter(s)
    <2>1. /\ stage'[s] = stage[s] /\ cur'[s] = o
          /\ pc'[s] = "wake_all" \/ (pc'[s] = "scan" /\ todo'[s] = anyWaiters[o])
      BY <1>1, <1>4, Moves, MovesFully DEF WakeAfter
    <2>2. UNCHANGED anyWaiters
      <3>1. ~FreeAct(s)
        BY <1>4, FreeMoves DEF Free
      <3>2. SectionAct(s)
        BY <1>4, <3>1, StepKinds, LockingMoves, TryMoves, AllMoves DEF WakeAllNext, Trying, AllSteps
      <3> QED BY <1>4, <3>2 DEF SectionAct, Queue, Unqueue, MutexUnlock, MutexKill, EventSet, EventReset, InBody, Wakers,
               SemTakeHold, SemClaim, SemHoldDone, SemGiveBack, MutexScan, EventScan, ScanEnd, Scanning, CheckObj, SemRelease, queuevars
    <2> QED BY <1>4, <2>1, <2>2, ListedAll DEF SureScan
  <1> QED BY <1>1, <1>2, <1>3, <1>4

LEMMA NextAnyWoken ==
  ASSUME TypeInv, TypeInv', LockInv, LoanInv, ListInv, AnyInv, AnyInv', KindInv, WaitAllCommits,
         \A v \in Threads : ScanOK(v), AnyWoken, ReleaserSurvives, NEW s \in Threads, Step(s)
  PROVE  AnyWoken'
  <1> SUFFICES ASSUME NEW u \in Threads, Unclaimed(u)', NEW k \in Due(u)', IsSignaled(EntryObj(u, k), u)'
               PROVE  \E t \in Threads : SureScan(t, EntryObj(u, k), u)'
    BY DEF AnyWoken
  <1>1. /\ Unclaimed(u) /\ k \in AnyIn(u) /\ k \in AnyIn(u)'
        /\ EntryObj(u, k)' = EntryObj(u, k) /\ EntryObj(u, k) \in Objs
        /\ k \in Due(u) \/ SureScan(u, EntryObj(u, k), u)'
    BY DueStep
  <1>2. PICK o \in Objs : EntryObj(u, k) = o
    BY <1>1
  <1>3. IsSignaled(o, u)'
    BY <1>1, <1>2 DEF IsSignaled
  <1>4. ASSUME NEW t \in Threads, SureScan(t, o, u)' PROVE SureScan(t, EntryObj(u, k), u)'
    BY <1>1, <1>2, <1>4 DEF SureScan
  <1>5. CASE SureScan(u, EntryObj(u, k), u)'
    BY <1>5
  <1>6. CASE k \in Due(u) /\ IsSignaled(o, u)
    <2>1. PICK t \in Threads : SureScan(t, o, u)
      BY <1>1, <1>2, <1>6 DEF AnyWoken
    <2>2. SureScan(t, o, u)'
      BY <1>1, <1>2, <1>3, <2>1, SureScanStep
    <2> QED BY <1>4, <2>2
  <1>7. CASE ~IsSignaled(o, u)
    <2>1. SureScan(s, o, u)'
      BY <1>1, <1>2, <1>3, <1>7, RiseScans
    <2> QED BY <1>4, <2>1
  <1> QED BY <1>1, <1>5, <1>6, <1>7

-----------------------------------------------------------------------------
(* The scan of a semaphore has claimed the tasks it has passed.            *)

\* Nobody changes the list of an object while a section of another thread
\* on it is open.
LEMMA ListKept ==
  ASSUME TypeInv, LockInv, NEW s \in Threads, Step(s), NEW v \in Threads, v # s, InSection(v),
         NEW o \in Objs, cur[v] = o
  PROVE  anyWaiters'[o] = anyWaiters[o]
  <1>1. CASE Queue(s) \/ Unqueue(s)
    <2>1. cur[s] # o
      <3>1. InSection(s)
        BY <1>1 DEF Queue, Unqueue, InBody, InSection
      <3> QED BY <3>1, LockInvExclusion DEF SectionExclusion
    <2>2. CASE Queue(s)
      BY <2>1, <2>2 DEF Queue, TypeInv, QueueType
    <2>3. CASE Unqueue(s)
      BY <2>1, <2>3 DEF Unqueue, TypeInv, QueueType
    <2> QED BY <1>1, <2>2, <2>3
  <1>2. CASE AllQueued(s)
    <2>1. allLock = s
      BY <1>2 DEF AllQueued, LockInv, SectionOK, UnderAll, AllSteps
    <2>2. lock[o] = v /\ v # NoOne
      BY <2>1, ConstAssumption DEF LockInv, SectionOK
    <2>3. call[s].alert # o \/ call[s].alert = NoOne
      BY <1>2, <2>2 DEF AllQueued
    <2> QED BY <1>2, <2>3 DEF AllQueued, TypeInv, QueueType
  <1>3. CASE FreeAct(s) \/ LockingAct(s) \/ WakeAllNext(s) \/ TryAct(s)
    BY <1>3, FreeStep DEF FreeAct, LockingAct, TryAct, Lock, LockMutex, DevLock, Unlock, WakeAllNext, WakeAllLock, WakeAllTry,
           WakeAllCommit, WakeAllUnlock, queuevars
  <1>4. CASE SectionAct(s) /\ ~Queue(s) /\ ~Unqueue(s)
    BY <1>4 DEF SectionAct, MutexUnlock, MutexKill, EventSet, EventReset,
           SemTakeHold, SemClaim, SemHoldDone, SemGiveBack, MutexScan, EventScan, ScanEnd, CheckObj, SemRelease, queuevars
  <1>5. CASE AllAct(s) /\ ~AllQueued(s)
    BY <1>5 DEF AllAct, AllMutex, AllQueue, AllFlag, AllAdd, AllUnqueue, AllUnhint, AllClear, AllUnqueued, queuevars
  <1> QED BY <1>1, <1>2, <1>3, <1>4, <1>5, StepKinds

LEMMA OtherScanOK ==
  ASSUME TypeInv, TypeInv', LockInv, ListInv, AnyInv, AnyInv', NEW s \in Threads, Step(s), NEW v \in Threads, v # s, ScanOK(v)
  PROVE  ScanOK(v)'
  <1>1. /\ pc'[v] = pc[v] /\ cur'[v] = cur[v] /\ todo'[v] = todo[v]
    BY StepOthers DEF OthersStay
  <1>2. \A u : Listed(v, u)' <=> Listed(v, u)
    BY <1>1 DEF Listed
  <1>3. ASSUME NEW u \in Threads, Unclaimed(u)', NEW k \in AnyIn(u)', EntryObj(u, k)' = cur'[v],
               pc[v] \in Holding \/ (pc[v] = "scan" /\ todo[v] # <<>>), Type[cur[v]] = "sem"
        PROVE  Listed(v, u)
    <2>1. PICK o \in Objs : cur[v] = o
      BY <1>3, CurObj DEF Holding
    <2>2. InSection(v)
      BY <1>3 DEF InSection, Holding
    <2>3. anyWaiters'[o] = anyWaiters[o]
      BY <2>1, <2>2, ListKept
    <2>4. k \in AnyIn(u) /\ EntryObj(u, k) = o
      BY <1>1, <1>3, <2>1, <2>3, EntryStays
    <2>5. Unclaimed(u)
      BY <1>3, <2>4, EntryIn, ClaimStays
    <2> QED BY <1>3, <2>1, <2>4, <2>5 DEF ScanOK
  <1> QED BY <1>1, <1>2, <1>3 DEF ScanOK

LEMMA OwnScanOK ==
  ASSUME TypeInv, TypeInv', ListInv, AnyInv, AnyInv', NEW t \in Threads, Step(t), ScanOK(t)
  PROVE  ScanOK(t)'
  <1>1. CASE pc'[t] \notin Holding \cup {"scan"}
    BY <1>1 DEF ScanOK
  <1>2. CASE pc'[t] = "scan" /\ todo'[t] = <<>>
    BY <1>2 DEF ScanOK, Holding
  <1>3. ASSUME pc'[t] = "scan", NEW o \in Objs, cur'[t] = o, todo'[t] = anyWaiters[o], UNCHANGED anyWaiters PROVE ScanOK(t)'
    <2>1. \A u \in Threads : \A k \in AnyIn(u)' : EntryObj(u, k)' = o => Listed(t, u)'
      BY <1>3, ListedAll
    <2> QED BY <1>3, <2>1 DEF ScanOK, Holding
  <1>4. CASE FreeAct(t)
    BY <1>1, <1>4, FreeMoves DEF Free, Holding
  <1>5. CASE LockingAct(t)
    BY <1>1, <1>5, LockingMoves DEF Holding
  <1>6. CASE TryAct(t)
    BY <1>1, <1>6, TryMoves DEF Holding
  <1>7. CASE AllAct(t)
    BY <1>1, <1>7, AllMoves DEF Holding, AllSteps
  <1>8. CASE WakeAllNext(t)
    <2>1. cur[t] \in Objs /\ UNCHANGED anyWaiters
      BY <1>8, CurObj DEF WakeAllNext, queuevars
    <2>2. CASE todo[t] = <<>>
      <3>1. pc'[t] = "scan" /\ cur'[t] = cur[t] /\ todo'[t] = anyWaiters[cur[t]]
        BY <1>8, <2>2, Moves, MovesFully DEF WakeAllNext
      <3> QED BY <1>3, <2>1, <3>1
    <2>3. CASE todo[t] # <<>>
      <3>1. pc'[t] = "wa_lock"
        BY <1>8, <2>3 DEF WakeAllNext, TypeInv, LocalInv, LocalType
      <3> QED BY <1>1, <3>1 DEF Holding
    <2> QED BY <2>2, <2>3
  <1>9. CASE SectionAct(t)
    <2>1. cur'[t] = cur[t] /\ pc[t] \in Within /\ cur[t] \in Objs
      BY <1>9, SectionStep, CurObj DEF SectionAct, Within
    <2>2. CASE pc[t] = "body"
      <3>1. pc'[t] \in {"unlock", "scan", "wake_all"} /\ (pc'[t] = "scan" => todo'[t] = anyWaiters[cur[t]])
        BY <1>9, <2>2, SectionLocals DEF SectionAct
      <3>2. pc'[t] = "scan" => UNCHANGED anyWaiters
        BY <1>9, <2>2, Moves DEF SectionAct, Queue, Unqueue, MutexUnlock, MutexKill, EventSet, EventReset,
             SemTakeHold, SemClaim, SemHoldDone, SemGiveBack, MutexScan, EventScan, ScanEnd, CheckObj, SemRelease, queuevars
      <3> QED BY <1>1, <1>3, <2>1, <3>1, <3>2 DEF Holding
    <2>3. CASE Type[cur[t]] = "sem" /\ pc[t] # "body"
      <3>1. pc[t] \in {"scan", "loan", "placed"}
        BY <1>9, <2>1, <2>3, SectionLocals DEF SectionAct, Within
      <3>2. UNCHANGED anyWaiters
        BY <1>9, <2>3 DEF SectionAct, Queue, Unqueue, MutexUnlock, MutexKill, EventSet, EventReset, InBody,
             SemTakeHold, SemClaim, SemHoldDone, SemGiveBack, MutexScan, EventScan, ScanEnd, CheckObj, SemRelease, queuevars
      <3>3. CASE pc[t] = "scan" /\ todo[t] = <<>>
        <4>1. ScanEnd(t)
          BY <1>9, <3>3 DEF SectionAct, Queue, Unqueue, MutexUnlock, MutexKill, EventSet, EventReset, InBody, Scanning,
             SemTakeHold, SemClaim, SemHoldDone, SemGiveBack, MutexScan, EventScan, CheckObj, SemRelease
        <4>2. pc'[t] = "unlock"
          BY <4>1, Moves DEF ScanEnd
        <4> QED BY <1>1, <4>2 DEF Holding
      <3>4. CASE SemTakeHold(t) /\ count[cur[t]] = 0
        <4>1. pc'[t] = "scan" /\ todo'[t] = <<>>
          BY <3>4, Moves, MovesFully DEF SemTakeHold
        <4> QED BY <1>2, <4>1
      <3>5. CASE (SemTakeHold(t) /\ count[cur[t]] # 0) \/ pc[t] \in Holding
        <4>1. pc[t] \in Holding \/ (pc[t] = "scan" /\ todo[t] # <<>>)
          BY <3>5 DEF SemTakeHold, Scanning
        <4>2. ASSUME NEW u \in Threads, Unclaimed(u)', NEW k \in AnyIn(u)', EntryObj(u, k)' = cur[t] PROVE Listed(t, u)'
          <5>1. k \in AnyIn(u) /\ EntryObj(u, k) = cur[t]
            BY <3>2, <4>2, EntryStaysIn
          <5>2. Unclaimed(u)
            BY <4>2, <5>1, EntryIn, ClaimStays
          <5>3. Listed(t, u)
            BY <2>3, <4>1, <5>1, <5>2 DEF ScanOK
          <5>4. CASE SemTakeHold(t) /\ count[cur[t]] # 0
            <6>1. todo'[t] = todo[t]
              BY <5>4, MovesFully DEF SemTakeHold
            <6> QED BY <5>3, <6>1, ListedTail
          <5>5. CASE pc[t] \in Holding
            BY <1>9, <2>1, <4>2, <5>3, <5>5, ScanPasses DEF Holding
          <5> QED BY <3>5, <5>4, <5>5
        <4> QED BY <2>1, <2>3, <4>2 DEF ScanOK
      <3> QED BY <1>9, <2>3, <3>1, <3>3, <3>4, <3>5 DEF SectionAct, Queue, Unqueue, MutexUnlock, MutexKill, EventSet, EventReset,
             InBody, Scanning, SemTakeHold, SemClaim, SemHoldDone, SemGiveBack, MutexScan, EventScan, ScanEnd, CheckObj, SemRelease, Holding
    <2>4. CASE Type[cur[t]] # "sem" /\ pc[t] # "body"
      <3>1. pc[t] = "scan"
        BY <1>9, <2>1, <2>4, SectionLocals DEF SectionAct, Within, ScanOK, Holding
      <3>2. MutexScan(t) \/ EventScan(t) \/ ScanEnd(t)
        BY <1>9, <2>4, <3>1 DEF SectionAct, Queue, Unqueue, MutexUnlock, MutexKill, EventSet, EventReset,
             InBody, Scanning, SemTakeHold, SemClaim, SemHoldDone, SemGiveBack, CheckObj, SemRelease
      <3>3. pc'[t] \in {"scan", "unlock"}
        BY <3>2, Moves DEF MutexScan, EventScan, ScanEnd
      <3> QED BY <2>1, <2>4, <3>3 DEF ScanOK, Holding
    <2> QED BY <2>2, <2>3, <2>4
  <1> QED BY <1>4, <1>5, <1>6, <1>7, <1>8, <1>9, StepKinds

-----------------------------------------------------------------------------
(* Wait-alls: nobody locks their objects by obj->lock once they were tried. *)

LEMMA PastQueued ==
  ASSUME TypeInv, LockInv, HintInv, ListInv, NEW u \in Threads, NEW k \in Past(u)
  PROVE  /\ call[u].objs[k] \in Objs /\ k \in Nat /\ k \in 1..Len(call[u].objs) /\ IsAll(call[u])
         /\ InList([task |-> u, index |-> k], call[u].objs[k])
         /\ waitAll[call[u].objs[k]] /\ allHint[call[u].objs[k]] # 0
  <1>1. InAll(u) /\ k \in 1..Len(call[u].objs) /\ IsAll(call[u])
    BY DEF Past, Tried, InAll, Trying, Checking, Within
  <1>2. call[u].objs[k] \in Objs /\ k \in Nat
    <2>1. pc[u] \notin {"idle", "dead"}
      BY <1>1 DEF InAll, AllSteps, Trying, Checking, Within
    <2> QED BY <1>1, <2>1, CurObj, CallType
  <1>3. k \in Queued(u)
    BY <1>1 DEF Past, Tried, Queued, Trying, Checking, Within
  <1>4. InList([task |-> u, index |-> k], call[u].objs[k])
    BY <1>1, <1>3 DEF ListInv, ListComplete
  <1>5. allWaiters[call[u].objs[k]] # <<>>
    BY <1>4 DEF InList
  <1>6. waitAll[call[u].objs[k]] /\ allHint[call[u].objs[k]] > 0
    BY <1>2, <1>5, HintInvAccurate DEF WaitersAccurate
  <1> QED BY <1>1, <1>2, <1>4, <1>6

LEMMA PastStep ==
  ASSUME TypeInv, ListInv, AnyInv, NEW s \in Threads, Step(s), NEW u \in Threads, NEW k \in Past(u)'
  PROVE  /\ call'[u] = call[u]
         /\ k \in Past(u) \/ (WakeAllLock(s) /\ lock[call[u].objs[k]] = NoOne)
  <1>1. CASE u # s
    <2>1. OthersStay(s)
      BY StepOthers
    <2>2. /\ pc'[u] = pc[u] /\ target'[u] = target[u] /\ call'[u] = call[u] /\ i'[u] = i[u] /\ stage'[u] = stage[u]
      BY <1>1, <2>1 DEF OthersStay
    <2> QED BY <2>2 DEF Past, Tried, IsAll
  <1>2. CASE u = s
    <2>1. Attending(s)'
      BY <1>2 DEF Past, Tried, Attending, Trying
    <2>2. call'[s] = call[s] /\ i[s] \in Nat \ {0}
      BY <2>1, Progress DEF TypeInv, LocalInv, LocalType
    <2>3. pc[s] \notin {"idle", "dead"}
      BY <2>1, Progress DEF Checking, Within
    <2>4. IsAll(call[s]) /\ k \in 1..Len(call[s].objs) /\ Len(call[s].objs) \in Nat
      BY <1>2, <2>2, <2>3, CurObj, CallType DEF Past, IsAll
    <2>5. pc[s] \in Checking => stage[s] # "queue"
      BY <2>4 DEF ListInv, StageOK
    <2>6. target[s] = s => TargetObjs(s) = call[s].objs
      BY DEF TargetObjs
    <2>7. pc'[s] = "wa_lock" => k < i'[s]
      BY <1>2 DEF Past, Tried, Trying, Checking, Within
    <2>8. CASE WakeAllLock(s) /\ target[s] = s /\ k = i[s]
      <3>1. call[s].objs[k] \in DevLocks(s)
        BY <2>4, <2>6, <2>8 DEF DevLocks, TargetSet
      <3> QED BY <1>2, <2>2, <2>6, <2>8, <3>1 DEF WakeAllLock
    <2>9. CASE ~(WakeAllLock(s) /\ target[s] = s /\ k = i[s])
      <3>1. \/ Tried(s)
            \/ pc[s] \in Trying /\ target[s] = s /\ (pc[s] = "wa_lock" => k < i[s])
        BY <2>1, <2>2, <2>4, <2>5, <2>6, <2>7, <2>9, Progress DEF Tried, Trying, Checking, Within
      <3> QED BY <1>2, <2>2, <2>4, <3>1 DEF Past
    <2> QED BY <2>8, <2>9
  <1> QED BY <1>1, <1>2

LEMMA NextNotAlone ==
  ASSUME TypeInv, LockInv, HintInv, ListInv, AnyInv, NotAlone, NEW s \in Threads, Step(s)
  PROVE  NotAlone'
  <1> SUFFICES ASSUME NEW u \in Threads, NEW k \in Past(u)' PROVE lock'[call'[u].objs[k]] = NoOne
    BY DEF NotAlone
  <1>1. call'[u] = call[u] /\ (k \in Past(u) \/ (WakeAllLock(s) /\ lock[call[u].objs[k]] = NoOne))
    BY PastStep
  <1>2. lock[call[u].objs[k]] = NoOne
    BY <1>1 DEF NotAlone
  <1>3. CASE UNCHANGED lock
    BY <1>1, <1>2, <1>3
  <1>4. CASE Lock(s) \/ Unlock(s)
    <2>1. PICK o \in Objs : call[u].objs[k] = o
      BY <1>1, <1>4, PastQueued DEF WakeAllLock, Lock, Unlock
    <2>2. allHint[o] # 0
      BY <1>1, <1>4, <2>1, PastQueued DEF WakeAllLock, Lock, Unlock
    <2>3. Lock(s) => lock'[o] = lock[o]
      BY <2>2 DEF Lock, TypeInv, LockType
    <2>4. Unlock(s) => lock'[o] = lock[o] \/ lock'[o] = NoOne
      BY DEF Unlock, TypeInv, LockType
    <2> QED BY <1>1, <1>2, <1>4, <2>1, <2>3, <2>4
  <1>5. CASE FreeAct(s)
    BY <1>3, <1>5, FreeStep DEF FreeAct, lockvars
  <1>6. CASE SectionAct(s)
    BY <1>3, <1>6, SectionStep DEF SectionAct, lockvars
  <1>7. CASE LockMutex(s) \/ DevLock(s) \/ WakeAllNext(s) \/ TryAct(s) \/ AllAct(s)
    BY <1>3, <1>7 DEF LockMutex, DevLock, WakeAllNext, TryAct, WakeAllLock, WakeAllTry, WakeAllCommit, WakeAllUnlock, AllAct,
           AllMutex, AllQueue, AllFlag, AllAdd, AllQueued, AllUnqueue, AllUnhint, AllClear, AllUnqueued, lockvars
  <1> QED BY <1>4, <1>5, <1>6, <1>7, StepKinds DEF LockingAct

-----------------------------------------------------------------------------
(* A wait-all that was tried in vain is tried again when it can succeed.   *)

\* No unit of an object is on loan while a wait-all that wants it is tried.
LEMMA TryMeansAll ==
  ASSUME TypeInv, TypeInv', LockInv, DevInv, NEW t \in Threads, WakeAllTry(t), pc'[t] = "wa_unlock",
         NEW u \in Threads, target[t] = u, Unclaimed(u),
         \A k \in 1..Len(call[u].objs) : Available(call[u].objs[k], u)'
  PROVE  FALSE
  <1>1. call' = call /\ UNCHANGED <<count, mcount, mowner, event>> /\ OthersStay(t)
    BY Moves DEF WakeAllTry, Goto, locals, objvars, word, private
  <1>2. PICK o \in TargetSet(t) : ~IsSignaled(o, u)
    BY Moves DEF WakeAllTry
  <1>3. PICK k \in 1..Len(TargetObjs(t)) : TargetObjs(t)[k] = o
    BY <1>2 DEF TargetSet
  <1>4. call[u].objs[k] = o /\ k \in 1..Len(call[u].objs) /\ o \in Objs
    <2>1. call[u] \in Call \cup {NoCall}
      BY DEF TypeInv, LocalInv, LocalType
    <2> QED BY <1>3, <2>1, AnyCallType DEF TargetObjs
  <1>5. Available(o, u)'
    <2>1. Available(call[u].objs[k], u)'
      BY <1>4
    <2> QED BY <1>1, <1>4, <2>1 DEF Available, IsSignaled, OnLoan
  <1>6. ~IsSignaled(o, u)'
    BY <1>1, <1>2 DEF IsSignaled
  <1>7. PICK v \in Threads : pc'[v] = "loan" /\ cur'[v] = o
    BY <1>5, <1>6 DEF Available, OnLoan
  <1>8. v # t /\ pc[v] = "loan" /\ cur[v] = o
    BY <1>1, <1>7 DEF OthersStay
  <1>9. Inside(v, o)
    BY <1>8 DEF Inside, InSection
  <1>10. Inside(t, o)
    <2>1. pc[t] = "wa_lock" /\ i[t] > Len(TargetObjs(t)) /\ i[t] \in Nat /\ Len(TargetObjs(t)) \in Nat
      <3>1. call[u] \in Call \cup {NoCall}
        BY DEF TypeInv, LocalInv, LocalType
      <3> QED BY <3>1, AnyCallType DEF WakeAllTry, TargetObjs, TypeInv, LocalInv, LocalType
    <2>2. CASE o \in DevLocks(t)
      <3>1. k < i[t]
        BY <1>3, <2>1
      <3> QED BY <1>3, <2>1, <2>2, <3>1 DEF Inside, TriesWith, Trying
    <2>3. CASE o \notin DevLocks(t)
      BY <1>2, <2>1, <2>3 DEF DevLocks, Inside, InSection, Trying
    <2> QED BY <2>2, <2>3
  <1> QED BY <1>4, <1>8, <1>9, <1>10, InvExcludes DEF MutualExclusion

LEMMA TriedStep ==
  ASSUME TypeInv, TypeInv', LockInv, ListInv, DevInv, AnyInv, KindInv, NEW s \in Threads, Step(s),
         NEW u \in Threads, Unclaimed(u)', IsAll(call'[u]), Tried(u)',
         \A k \in 1..Len(call'[u].objs) : Available(call[u].objs[k], u)'
  PROVE  call'[u] = call[u] /\ Tried(u) /\ Unclaimed(u)
  <1>1. CASE u # s
    <2>1. OthersStay(s)
      BY StepOthers
    <2>2. /\ pc'[u] = pc[u] /\ target'[u] = target[u] /\ call'[u] = call[u] /\ stage'[u] = stage[u]
      BY <1>1, <2>1 DEF OthersStay
    <2>3. Tried(u) /\ pc[u] \notin {"setup", "return"}
      BY <2>2 DEF Tried, Checking, Within
    <2> QED BY <2>2, <2>3, ClaimStays
  <1>2. CASE u = s
    <2>1. Attending(s)'
      BY <1>2 DEF Tried, Attending, Trying
    <2>2. call'[s] = call[s]
      BY <2>1, Progress
    <2>3. pc[s] \notin {"setup", "return"}
      BY <2>1, Progress DEF Checking, Within
    <2>4. pc[s] \in Checking => stage[s] # "queue"
      BY <1>2, <2>2 DEF ListInv, StageOK
    <2>5. Unclaimed(s)
      BY <1>2, <2>3, ClaimStays
    <2>6. ~(WakeAllTry(s) /\ target[s] = s /\ pc'[s] = "wa_unlock")
      BY <1>2, <2>2, <2>5, TryMeansAll
    <2>7. ~(WakeAllCommit(s) /\ target[s] = s)
      BY <2>5 DEF WakeAllCommit, KindInv, KindOK, Unclaimed
    <2>8. Tried(s)
      BY <1>2, <2>1, <2>4, <2>6, <2>7, Progress DEF Tried, Trying, Checking, Within
    <2> QED BY <1>2, <2>2, <2>5, <2>8
  <1> QED BY <1>1, <1>2

LEMMA SureTryStep ==
  ASSUME TypeInv, TypeInv', LockInv, ListInv, DevInv, NEW s \in Threads, Step(s), NEW t \in Threads, NEW o \in Objs,
         NEW u \in Threads, SureTry(t, o, u), Unclaimed(u), Unclaimed(u)', call'[u] = call[u],
         \A k \in 1..Len(call[u].objs) : Available(call[u].objs[k], u)'
  PROVE  SureTry(t, o, u)'
  <1>1. OthersStay(s)
    BY StepOthers
  <1>2. CASE t # s
    <2>1. /\ pc'[t] = pc[t] /\ cur'[t] = cur[t] /\ target'[t] = target[t] /\ stage'[t] = stage[t] /\ todo'[t] = todo[t]
      BY <1>1, <1>2 DEF OthersStay
    <2>2. Listed(t, u)' <=> Listed(t, u)
      BY <2>1 DEF Listed
    <2> QED BY <2>1, <2>2 DEF SureTry
  <1>3. CASE t = s
    <2>1. cur[t] = o /\ stage[t] \in Wakers /\ Step(t) /\ pc[t] \in Trying \cup {"wake_all"} /\ (pc[t] \in Trying => target[t] # t)
      BY <1>3 DEF SureTry, Trying
    <2>2. WakeAllNext(t) \/ TryAct(t)
      <3>1. ~FreeAct(t)
        BY <2>1, FreeMoves DEF Free, Trying
      <3> QED BY <2>1, <3>1, StepKinds, LockingMoves, SectionStep, AllMoves DEF Trying, AllSteps, SectionAct, Within
    <2>3. CASE WakeAllNext(t)
      <3>1. Listed(t, u)
        BY <2>3 DEF SureTry, WakeAllNext
      <3>2. todo[t] # <<>>
        BY <3>1, ListedTail
      <3>3. /\ pc'[t] = "wa_lock" /\ cur'[t] = cur[t] /\ stage'[t] = stage[t]
            /\ target'[t] = Head(todo[t]).task /\ todo'[t] = Tail(todo[t])
        BY <2>3, <3>2 DEF WakeAllNext, TypeInv, LocalInv, LocalType
      <3>4. target'[t] # t
        BY <2>3, <3>3, WakeAllListInv
      <3>5. CASE Head(todo[t]).task = u
        BY <2>1, <3>3, <3>4, <3>5 DEF SureTry
      <3>6. CASE Head(todo[t]).task # u
        <4>1. Listed(t, u)'
          BY <3>1, <3>3, <3>6, ListedTail
        <4> QED BY <2>1, <3>3, <3>4, <4>1 DEF SureTry, Trying
      <3> QED BY <3>5, <3>6
    <2>4. CASE TryAct(t)
      <3>1. /\ cur'[t] = cur[t] /\ stage'[t] = stage[t] /\ todo'[t] = todo[t] /\ target'[t] = target[t]
            /\ pc[t] \in Trying /\ target[t] # t /\ pc'[t] \in Trying \cup {"wake_all"}
        BY <2>1, <2>4, TryMoves DEF Trying
      <3>2. CASE Listed(t, u)
        <4>1. Listed(t, u)'
          BY <3>1, <3>2, ListedTail
        <4> QED BY <2>1, <3>1, <4>1 DEF SureTry
      <3>3. CASE pc[t] = "wa_lock" /\ target[t] = u /\ u # t
        <4>1. CASE WakeAllLock(t)
          <5>1. pc'[t] = "wa_lock"
            BY <4>1, Moves DEF WakeAllLock
          <5> QED BY <2>1, <3>1, <3>3, <5>1 DEF SureTry
        <4>2. CASE WakeAllTry(t)
          <5>1. pc'[t] # "wa_unlock"
            BY <3>3, <4>2, TryMeansAll
          <5>2. signaled' = [signaled EXCEPT ![u] = 0]
            BY <3>3, <4>2, <5>1, Moves DEF WakeAllTry
          <5>3. signaled'[u] = 0
            BY <5>2 DEF TypeInv, QType
          <5> QED BY <5>3 DEF Unclaimed
        <4> QED BY <2>4, <3>3, <4>1, <4>2 DEF TryAct, WakeAllCommit, WakeAllUnlock
      <3> QED BY <2>1, <3>1, <3>2, <3>3 DEF SureTry
    <2> QED BY <2>2, <2>3, <2>4
  <1> QED BY <1>2, <1>3

\* A unit is on loan only since it was taken out of the count.
LEMMA NewLoan ==
  ASSUME TypeInv, ListInv, NEW s \in Threads, Step(s), NEW o \in Objs, OnLoan(o)' = 1, OnLoan(o) = 0
  PROVE  Type[o] = "sem" /\ count[o] > 0
  <1>1. PICK v \in Threads : pc'[v] = "loan" /\ cur'[v] = o
    BY DEF OnLoan
  <1>2. ~(pc[v] = "loan" /\ cur[v] = o)
    BY DEF OnLoan
  <1>3. v = s
    BY <1>1, <1>2, StepOthers DEF OthersStay
  <1>4. SectionAct(s)
    <2>1. ~FreeAct(s)
      BY <1>1, <1>3, FreeMoves DEF Free
    <2> QED BY <1>1, <1>3, <2>1, StepKinds, LockingMoves, WakeAllNextMoves, TryMoves, AllMoves DEF AllSteps
  <1>5. cur'[s] = cur[s] /\ pc[s] # "loan"
    BY <1>1, <1>2, <1>3, <1>4, SectionStep DEF SectionAct
  <1>6. SemTakeHold(s)
    <2>1. pc[s] \in {"scan", "placed"}
      BY <1>1, <1>3, <1>4, <1>5, SectionLocals DEF SectionAct
    <2>2. ~(MutexScan(s) \/ EventScan(s) \/ ScanEnd(s) \/ SemHoldDone(s))
      BY <1>1, <1>3, Moves DEF MutexScan, EventScan, ScanEnd, SemHoldDone
    <2> QED BY <1>4, <2>1, <2>2 DEF SectionAct, Queue, Unqueue, CheckObj, SemRelease, MutexUnlock, MutexKill, EventSet, EventReset,
               InBody, SemClaim, SemGiveBack
  <1>7. Type[cur[s]] = "sem" /\ count[cur[s]] # 0
    <2>1. CASE count[cur[s]] = 0
      <3>1. pc'[s] = "scan"
        BY <1>6, <2>1, Moves DEF SemTakeHold
      <3> QED BY <1>1, <1>3, <3>1
    <2> QED BY <1>6, <2>1 DEF SemTakeHold, Scanning
  <1> QED BY <1>1, <1>3, <1>5, <1>7 DEF TypeInv, ObjType

\* What makes an object of a wait-all available goes on to try the wait-all.
LEMMA RiseTries ==
  ASSUME TypeInv, TypeInv', LockInv, HintInv, ListInv, NotAlone, WaitAllCommits, NEW s \in Threads, Step(s),
         NEW u \in Threads, Unclaimed(u)', NEW k \in Past(u), NEW o \in Objs, call[u].objs[k] = o,
         ~Available(o, u), Available(o, u)'
  PROVE  SureTry(s, o, u)'
  <1>1. ~IsSignaled(o, u) /\ OnLoan(o) = 0
    BY OnLoanValue DEF Available
  <1>2. IsSignaled(o, u)'
    <2>1. SUFFICES ASSUME OnLoan(o)' = 1 PROVE FALSE
      BY DEF Available
    <2>2. Type[o] = "sem" /\ count[o] > 0
      BY <1>1, <2>1, NewLoan
    <2> QED BY <1>1, <2>2 DEF IsSignaled
  <1>3. /\ cur[s] = o
        /\ FastRelease(s) \/ SemGiveBack(s) \/ (pc[s] = "body" /\ stage[s] \in Wakers /\ WakeAfter(s))
    BY <1>1, <1>2, SignalRise
  <1>4. ~SemGiveBack(s)
    BY <1>1, <1>3 DEF SemGiveBack, OnLoan
  <1>5. ~FastRelease(s)
    BY <1>3, PastQueued DEF FastRelease, MustAskKernel
  <1>6. pc[s] = "body" /\ stage[s] \in Wakers /\ WakeAfter(s)
    BY <1>3, <1>4, <1>5
  <1>7. lock[o] = NoOne
    BY DEF NotAlone
  <1>8. All(s)
    BY <1>3, <1>6, <1>7, ConstAssumption DEF All, LockInv, SectionOK, InSection
  <1>9. pc'[s] = "wake_all" /\ todo'[s] = allWaiters[o] /\ cur'[s] = o /\ stage'[s] = stage[s]
    BY <1>3, <1>6, <1>8, Moves, MovesFully DEF WakeAfter
  <1>10. PICK n \in 1..Len(allWaiters[o]) : allWaiters[o][n] = [task |-> u, index |-> k]
    BY PastQueued DEF InList
  <1>11. Listed(s, u)'
    BY <1>9, <1>10 DEF Listed
  <1> QED BY <1>6, <1>9, <1>11 DEF SureTry

LEMMA NextAllWoken ==
  ASSUME TypeInv, TypeInv', LockInv, HintInv, ListInv, DevInv, AnyInv, KindInv, WaitAllCommits, NotAlone, AllWoken,
         NEW s \in Threads, Step(s)
  PROVE  AllWoken'
  <1> SUFFICES ASSUME NEW u \in Threads, Unclaimed(u)', IsAll(call'[u]), Tried(u)',
                      \A k \in 1..Len(call'[u].objs) : Available(call[u].objs[k], u)'
               PROVE  \E t \in Threads : \E k \in 1..Len(call'[u].objs) : SureTry(t, call[u].objs[k], u)'
    BY DEF AllWoken, IsAll
  <1>1. call'[u] = call[u] /\ Tried(u) /\ Unclaimed(u)
    BY TriedStep
  <1>2. IsAll(call[u])
    BY <1>1
  <1>3. \A k \in 1..Len(call[u].objs) : k \in Past(u)
    BY <1>1, <1>2 DEF Past
  <1>4. \A k \in 1..Len(call[u].objs) : call[u].objs[k] \in Objs
    BY <1>3, PastQueued
  <1>5. ASSUME NEW k \in 1..Len(call[u].objs), NEW o \in Objs, call[u].objs[k] = o
        PROVE  /\ Available(o, u)'
               /\ \A t \in Threads : SureTry(t, o, u)' => SureTry(t, call[u].objs[k], u)'
    <2>1. Available(call[u].objs[k], u)'
      BY <1>1, <1>5
    <2> QED BY <1>1, <1>5, <2>1 DEF Available, IsSignaled, OnLoan, SureTry
  <1>6. CASE \A k \in 1..Len(call[u].objs) : Available(call[u].objs[k], u)
    <2>1. PICK t \in Threads, k \in 1..Len(call[u].objs) : SureTry(t, call[u].objs[k], u)
      BY <1>1, <1>2, <1>6 DEF AllWoken
    <2>2. PICK o \in Objs : call[u].objs[k] = o
      BY <1>4
    <2>3. \A j \in 1..Len(call[u].objs) : Available(call[u].objs[j], u)'
      BY <1>1
    <2>4. SureTry(t, o, u)'
      BY <1>1, <2>1, <2>2, <2>3, SureTryStep
    <2> QED BY <1>1, <1>5, <2>2, <2>4
  <1>7. CASE \E k \in 1..Len(call[u].objs) : ~Available(call[u].objs[k], u)
    <2>1. PICK k \in 1..Len(call[u].objs) : ~Available(call[u].objs[k], u)
      BY <1>7
    <2>2. PICK o \in Objs : call[u].objs[k] = o
      BY <1>4
    <2>3. SureTry(s, o, u)'
      BY <1>3, <1>5, <2>1, <2>2, RiseTries
    <2> QED BY <1>1, <1>5, <2>2, <2>3
  <1> QED BY <1>6, <1>7

-----------------------------------------------------------------------------
LEMMA InitWakeInv == Init => WakeInv
  <1> SUFFICES ASSUME Init PROVE WakeInv
    OBVIOUS
  <1>1. \A t \in Threads : pc[t] = "idle"
    BY DEF Init
  <1>2. \A u \in Threads : AnyIn(u) = {}
    BY <1>1 DEF AnyIn, At, Trying, Checking, Within
  <1>3. AnyWoken
    BY <1>2 DEF AnyWoken, Due
  <1>4. \A t \in Threads : ScanOK(t)
    BY <1>1 DEF ScanOK, Holding
  <1>5. \A u \in Threads : ~Tried(u) /\ Past(u) = {}
    BY <1>1 DEF Tried, Past, Checking, Within, Trying
  <1> QED
    BY <1>3, <1>4, <1>5 DEF WakeInv, NotAlone, AllWoken

LEMMA NextWakeInv ==
  ASSUME TypeInv, TypeInv', LockInv, LoanInv, HintInv, ListInv, DevInv, AnyInv, AnyInv', KindInv, WaitAllCommits, WakeInv,
         [Next]_vars, [ReleaserSurvives]_vars
  PROVE  WakeInv'
  <1>1. CASE UNCHANGED vars
    <2>1. UNCHANGED <<count, mcount, mowner, event, lock, signaled, pc, call, stage, cur, i, todo, target>>
      BY <1>1 DEF vars, word, private, lockvars, qvars, locals
    <2>2. \A o, u : (IsSignaled(o, u)' <=> IsSignaled(o, u)) /\ (Available(o, u)' <=> Available(o, u))
      BY <2>1 DEF IsSignaled, Available, OnLoan
    <2>3. /\ \A u, k : EntryObj(u, k)' = EntryObj(u, k)
          /\ \A u : /\ AnyIn(u)' = AnyIn(u)
                    /\ Unclaimed(u)' <=> Unclaimed(u)
                    /\ Tried(u)' <=> Tried(u)
                    /\ Past(u)' = Past(u)
      BY <2>1 DEF EntryObj, AnyIn, At, Unclaimed, Tried, Past
    <2>4. \A u : Due(u)' = Due(u)
      BY <2>1, <2>3 DEF Due
    <2>5. \A t, u : Listed(t, u)' <=> Listed(t, u)
      BY <2>1 DEF Listed
    <2>6. \A t, o, u : (SureScan(t, o, u)' <=> SureScan(t, o, u)) /\ (SureTry(t, o, u)' <=> SureTry(t, o, u))
      BY <2>1, <2>5 DEF SureScan, SureTry
    <2>7. AnyWoken'
      BY <2>2, <2>3, <2>4, <2>6 DEF WakeInv, AnyWoken
    <2>8. \A t \in Threads : ScanOK(t)'
      BY <2>1, <2>3, <2>5 DEF WakeInv, ScanOK
    <2>9. NotAlone'
      BY <2>1, <2>3 DEF WakeInv, NotAlone
    <2>10. AllWoken'
      BY <2>1, <2>2, <2>3, <2>6 DEF WakeInv, AllWoken
    <2> QED BY <2>7, <2>8, <2>9, <2>10 DEF WakeInv
  <1>2. CASE Next /\ ReleaserSurvives
    <2>1. PICK s \in Threads : Step(s)
      BY <1>2, NextStep
    <2>2. AnyWoken'
      BY <1>2, <2>1, NextAnyWoken DEF WakeInv
    <2>3. \A t \in Threads : ScanOK(t)'
      BY <2>1, OtherScanOK, OwnScanOK DEF WakeInv
    <2>4. NotAlone' /\ AllWoken'
      BY <2>1, NextNotAlone, NextAllWoken DEF WakeInv
    <2> QED BY <2>2, <2>3, <2>4 DEF WakeInv
  <1> QED BY <1>1, <1>2

LEMMA WakeInvSuffices == TypeInv /\ AnyInv /\ WakeInv => NoLostWakeup
  <1> SUFFICES ASSUME TypeInv, AnyInv, WakeInv, NEW u \in Threads, Sleeps(u)
               PROVE  LET c == call[u] IN
                      /\ \A k \in AnyEntries(c) :
                            IsSignaled(Entries(c)[k], u) => \E t \in Threads : WillScan(t, Entries(c)[k], u)
                      /\ IsAll(c) /\ (\A k \in 1..Len(c.objs) : IsSignaled(c.objs[k], u)) =>
                            \E t \in Threads : \E k \in 1..Len(c.objs) : WillTry(t, c.objs[k], u)
    BY DEF NoLostWakeup
  <1>1. pc[u] = "sleep" /\ Unclaimed(u)
    BY DEF Sleeps
  <1>2. ASSUME NEW t \in Threads, NEW o, SureScan(t, o, u) PROVE WillScan(t, o, u)
    BY <1>2 DEF SureScan, WillScan, Approaching
  <1>3. ASSUME NEW t \in Threads, NEW o, SureTry(t, o, u) PROVE WillTry(t, o, u)
    BY <1>3 DEF SureTry, WillTry
  <1>4. ASSUME NEW k \in AnyEntries(call[u]), IsSignaled(Entries(call[u])[k], u)
        PROVE  \E t \in Threads : WillScan(t, Entries(call[u])[k], u)
    <2>1. k \in Due(u)
      BY <1>1, <1>4, EnteredNow DEF Entered, Due
    <2>2. PICK t \in Threads : SureScan(t, EntryObj(u, k), u)
      BY <1>1, <1>4, <2>1 DEF WakeInv, AnyWoken, EntryObj
    <2> QED BY <1>2, <2>2 DEF EntryObj
  <1>5. ASSUME IsAll(call[u]), \A k \in 1..Len(call[u].objs) : IsSignaled(call[u].objs[k], u)
        PROVE  \E t \in Threads : \E k \in 1..Len(call[u].objs) : WillTry(t, call[u].objs[k], u)
    <2>1. Tried(u) /\ \A k \in 1..Len(call[u].objs) : Available(call[u].objs[k], u)
      BY <1>1, <1>5 DEF Tried, Available
    <2>2. PICK t \in Threads, k \in 1..Len(call[u].objs) : SureTry(t, call[u].objs[k], u)
      BY <1>1, <1>5, <2>1 DEF WakeInv, AllWoken
    <2> QED BY <1>3, <2>2
  <1> QED BY <1>4, <1>5

LEMMA AlwaysLoanInv == Spec => []LoanInv
  <1>1. Init => LoanInv
    BY InitLoanInv
  <1>2. TypeInv /\ TypeInv' /\ LockInv /\ LoanInv /\ [Next]_vars => LoanInv'
    BY NextLoanInv
  <1> QED BY <1>1, <1>2, AlwaysLockInv, PTL DEF Spec

LEMMA AlwaysAnyInv == Spec => [](AnyInv /\ KindInv)
  <1>1. Init => AnyInv /\ KindInv
    BY InitAnyInv, InitKindInv
  <1>2. TypeInv /\ ListInv /\ AnyInv /\ KindInv /\ [Next]_vars => AnyInv' /\ KindInv'
    BY NextAnyInv, NextKindInv
  <1> QED BY <1>1, <1>2, AlwaysDevInv, PTL DEF Spec

\* No task sleeps while an object could end its wait-any, its alert is
\* signaled, or all objects could satisfy its wait-all, unless a thread is
\* on its way to wake it: whatever the interleaving of fast releases and
\* acquires with the driver's sections, a release either sees the waiter
\* that queued itself or its units are seen by the waiter's own check.  The
\* only way to lose the wakeup is to kill the releaser between its
\* compare-and-swap and its ioctl, and ReleaserSurvives excludes that.
THEOREM NoWakeupLost == Spec /\ [][ReleaserSurvives]_vars => []NoLostWakeup
  <1> DEFINE Inv == TypeInv /\ LockInv /\ LoanInv /\ HintInv /\ ListInv /\ DevInv /\ AnyInv /\ KindInv /\ WaitAllCommits
  <1>1. Spec => []Inv
    BY AlwaysDevInv, AlwaysLoanInv, AlwaysAnyInv, CommitsSucceed, PTL
  <1>2. Init => WakeInv
    BY InitWakeInv
  <1>3. Inv /\ Inv' /\ WakeInv /\ [Next]_vars /\ [ReleaserSurvives]_vars => WakeInv'
    BY NextWakeInv
  <1>4. Inv /\ WakeInv => NoLostWakeup
    BY WakeInvSuffices
  <1> HIDE DEF Inv
  <1> QED BY <1>1, <1>2, <1>3, <1>4, PTL DEF Spec

\* In particular no wakeup is lost when a thread that may die never releases
\* a semaphore, whatever else it may be doing when it dies.
THEOREM NoWakeupLostToDeath ==
  ASSUME \A t \in Mortal : \A c \in Calls[t] : c.fn # "release"
  PROVE  Spec => []NoLostWakeup
  <1> DEFINE Inv == TypeInv /\ ListInv /\ AnyInv /\ KindInv
  <1>1. ASSUME Inv, [Next]_vars PROVE [ReleaserSurvives]_vars
    <2> SUFFICES ASSUME Next, NEW t \in Threads, pc[t] = "fast_wake", pc'[t] = "dead" PROVE FALSE
      BY <1>1 DEF ReleaserSurvives
    <2>1. PICK s \in Threads : Step(s)
      BY NextStep
    <2>2. s = t
      BY <1>1, <2>1, StepOthers DEF OthersStay
    <2>3. FreeAct(t)
      BY <1>1, <2>1, <2>2, StepKinds, SectionStep, LockingMoves, TryMoves, AllMoves
         DEF SectionAct, Within, WakeAllNext, Trying, AllSteps
    <2>4. Die(t) \/ FastWake(t)
      BY <2>3 DEF FreeAct, Userspace, Begin, Check, LeaveSleep, Return, FastReleaseDeclined, FastRelease, Walk,
             SpinPeek, SpinTake, Setup
    <2>5. t \in Mortal
      BY <1>1, <2>4 DEF Die, FastWake, TypeInv, LocalInv, LocalType
    <2>6. stage[t] = "release" /\ call[t] \in Calls[t]
      BY <1>1, CurObj DEF AnyInv, IndexOK
    <2>7. call[t].fn = "release"
      BY <1>1, <2>6 DEF KindInv, KindOK, Wakers
    <2> QED BY <2>5, <2>6, <2>7
  <1>2. Spec => []Inv
    BY AlwaysDevInv, AlwaysAnyInv, PTL
  <1> HIDE DEF Inv
  <1>3. Spec => [][ReleaserSurvives]_vars
    BY <1>1, <1>2, PTL DEF Spec
  <1> QED BY <1>3, NoWakeupLost, PTL

-----------------------------------------------------------------------------
(* NtSync implements SyncObjects: every step of the driver and its client  *)
(* is an atomic operation on the abstract objects, or none.                *)

-----------------------------------------------------------------------------
(* The inductive invariant, ninth part: what a claim stands for.           *)

\* The walk of a scan goes over entries that are still in the list.
TodoOK(t) ==
    pc[t] \in {"scan", "loan", "placed"} => \A k \in 1..Len(todo[t]) : InAny(todo[t][k], cur[t])
\* Where a wait has not been queued yet.
Early == {"walk", "spin", "spin_take", "setup"}
\* A claim is made on a wait that is queued and stands until it returns.
ClaimOK(u) == ~Unclaimed(u) => InWait(u) /\ pc[u] \notin Early
\* The fast path is for semaphores, and for one of them at a time.
FastOK(t) ==
    /\ pc[t] \in {"walk", "spin", "spin_take"} => ~IsAll(call[t])
    /\ pc[t] = "walk" => \A k \in 1..Len(call[t].objs) : k < i[t] => Type[call[t].objs[k]] = "sem"
    /\ pc[t] \in {"spin", "spin_take"} => \A k \in 1..Len(call[t].objs) : Type[call[t].objs[k]] = "sem"
RecOK == \A o \in Objs : mcount[o] <= MaxRec
RefInv == RecOK /\ \A t \in Threads : TodoOK(t) /\ ClaimOK(t) /\ FastOK(t) /\ ScanOK(t)

LEMMA NextRecOK ==
  ASSUME TypeInv, TypeInv', WaitAllCommits, RecOK, NEW s \in Threads, Step(s)
  PROVE  RecOK'
  <1>t. mcount \in [Objs -> Nat] /\ mcount' \in [Objs -> Nat] /\ MaxRec \in Nat
    BY ConstAssumption DEF TypeInv, ObjType
  <1>1. CASE UNCHANGED mcount
    BY <1>1 DEF RecOK
  <1>2. CASE MutexUnlock(s) \/ MutexKill(s)
    <2>1. cur[s] \in Objs
      BY <1>2, CurObj DEF MutexUnlock, MutexKill, InBody
    <2> QED BY <1>t, <1>2, <2>1 DEF MutexUnlock, MutexKill, RecOK
  <1>3. CASE MutexScan(s)
    <2>1. cur[s] \in Objs
      BY <1>3, CurObj DEF MutexScan, Scanning
    <2>2. UNCHANGED mcount \/ (mcount[cur[s]] # MaxRec /\ mcount' = [mcount EXCEPT ![cur[s]] = @ + 1])
      BY <1>3 DEF MutexScan
    <2> QED BY <1>t, <2>1, <2>2 DEF RecOK
  <1>4. CASE WakeAllCommit(s)
    <2>1. \A o \in TargetSet(s) : Type[o] = "mutex" => mcount[o] < MaxRec
      BY <1>4 DEF WaitAllCommits, WakeAllCommit, IsSignaled
    <2> QED BY <1>t, <1>4, <2>1 DEF WakeAllCommit, RecOK
  <1>5. CASE FreeAct(s)
    <2>1. UNCHANGED mcount
      BY <1>5 DEF FreeAct, Begin, Die, Userspace, FastReleaseDeclined, FastRelease, FastWake, Walk, FastTake, SpinPeek, SpinTake,
           Setup, Check, LeaveSleep, Return, objvars, private
    <2> QED BY <1>1, <2>1
  <1>6. CASE SectionAct(s) /\ ~MutexUnlock(s) /\ ~MutexKill(s) /\ ~MutexScan(s)
    <2>1. UNCHANGED mcount
      BY <1>6 DEF SectionAct, Queue, Unqueue, EventSet, EventReset, SemTakeHold, SemClaim, SemHoldDone, SemGiveBack, EventScan,
           ScanEnd, CheckObj, SemRelease, objvars, private
    <2> QED BY <1>1, <2>1
  <1>7. CASE LockingAct(s) \/ WakeAllNext(s) \/ (TryAct(s) /\ ~WakeAllCommit(s)) \/ AllAct(s)
    <2>1. UNCHANGED mcount
      BY <1>7 DEF LockingAct, Lock, LockMutex, DevLock, Unlock, WakeAllNext, TryAct, WakeAllLock, WakeAllTry, WakeAllUnlock,
           AllAct, AllMutex, AllQueue, AllFlag, AllAdd, AllQueued, AllUnqueue, AllUnhint, AllClear, AllUnqueued, objvars, private
    <2> QED BY <1>1, <2>1
  <1> QED BY <1>2, <1>3, <1>4, <1>5, <1>6, <1>7, StepKinds

\* Where the list that a scan walks comes from.
LEMMA ScanFrom ==
  ASSUME TypeInv, NEW s \in Threads, Step(s), pc'[s] \in {"scan", "loan", "placed"}, ListInv
  PROVE  /\ UNCHANGED anyWaiters /\ cur'[s] = cur[s] /\ cur[s] \in Objs
         /\ \/ todo'[s] = anyWaiters[cur[s]]
            \/ /\ pc[s] \in {"scan", "loan", "placed"}
               /\ todo'[s] \in {todo[s], <<>>} \/ (todo[s] # <<>> /\ todo'[s] = Tail(todo[s]))
  <1>1. SectionAct(s) \/ WakeAllNext(s)
    BY StepKinds, FreeMoves, LockingMoves, TryMoves, AllMoves DEF Free, AllSteps
  <1>2. CASE WakeAllNext(s)
    <2>1. todo[s] = <<>>
      BY <1>2 DEF WakeAllNext, TypeInv, LocalInv, LocalType
    <2> QED BY <1>2, <2>1, Moves, MovesFully, CurObj DEF WakeAllNext, queuevars
  <1>3. CASE SectionAct(s)
    <2>1. cur'[s] = cur[s] /\ pc[s] \in Within /\ cur[s] \in Objs
      BY <1>3, SectionStep, CurObj DEF SectionAct, Within
    <2>2. UNCHANGED anyWaiters
      <3>1. ~Queue(s) /\ ~Unqueue(s)
        BY Moves DEF Queue, Unqueue
      <3> QED BY <1>3, <3>1 DEF SectionAct, MutexUnlock, MutexKill, EventSet, EventReset,
             SemTakeHold, SemClaim, SemHoldDone, SemGiveBack, MutexScan, EventScan, ScanEnd, CheckObj, SemRelease, queuevars
    <2>3. CASE pc[s] = "body"
      <3>1. pc'[s] = "scan"
        BY <1>3, <2>3, SectionLocals DEF SectionAct
      <3> QED BY <1>3, <2>1, <2>2, <2>3, <3>1, SectionLocals DEF SectionAct
    <2>4. CASE pc[s] # "body"
      <3>1. pc[s] \in {"scan", "loan", "placed"}
        BY <1>3, <2>1, <2>4, SectionLocals DEF SectionAct, Within
      <3>2. \/ SemTakeHold(s) \/ SemClaim(s) \/ SemHoldDone(s) \/ SemGiveBack(s) \/ MutexScan(s) \/ EventScan(s)
        <4>1. ~ScanEnd(s)
          BY Moves DEF ScanEnd
        <4> QED BY <1>3, <2>4, <4>1 DEF SectionAct, Queue, Unqueue, MutexUnlock, MutexKill, EventSet, EventReset, InBody,
               CheckObj, SemRelease
      <3>3. todo'[s] \in {todo[s], <<>>} \/ (todo[s] # <<>> /\ todo'[s] = Tail(todo[s]))
        BY <3>2, MovesFully DEF SemTakeHold, SemClaim, SemHoldDone, SemGiveBack, MutexScan, EventScan, Scanning
      <3> QED BY <2>1, <2>2, <3>1, <3>3
    <2> QED BY <2>3, <2>4
  <1> QED BY <1>1, <1>2, <1>3

LEMMA NextTodoOK ==
  ASSUME TypeInv, TypeInv', LockInv, ListInv, NEW s \in Threads, Step(s), NEW t \in Threads, TodoOK(t)
  PROVE  TodoOK(t)'
  <1> SUFFICES ASSUME pc'[t] \in {"scan", "loan", "placed"}, NEW k \in 1..Len(todo'[t])
               PROVE  \E n \in 1..Len(anyWaiters'[cur'[t]]) : anyWaiters'[cur'[t]][n] = todo'[t][k]
    BY DEF TodoOK, InAny
  <1>1. CASE t # s
    <2>1. pc'[t] = pc[t] /\ cur'[t] = cur[t] /\ todo'[t] = todo[t]
      BY <1>1, StepOthers DEF OthersStay
    <2>2. cur[t] \in Objs /\ InSection(t)
      BY <2>1, CurObj DEF InSection
    <2>3. anyWaiters'[cur[t]] = anyWaiters[cur[t]]
      BY <1>1, <2>2, ListKept
    <2> QED BY <2>1, <2>3 DEF TodoOK, InAny
  <1>2. CASE t = s
    <2>1. UNCHANGED anyWaiters /\ cur'[t] = cur[t] /\ cur[t] \in Objs
      BY <1>2, ScanFrom
    <2>2. CASE todo'[t] = anyWaiters[cur[t]]
      BY <2>1, <2>2
    <2>3. CASE pc[t] \in {"scan", "loan", "placed"} /\ todo'[t] \in {todo[t], <<>>}
      BY <2>1, <2>3 DEF TodoOK, InAny
    <2>4. CASE pc[t] \in {"scan", "loan", "placed"} /\ todo[t] # <<>> /\ todo'[t] = Tail(todo[t])
      <3>1. todo[t] \in Seq(Entry)
        BY DEF TypeInv, LocalInv, LocalType
      <3>2. k + 1 \in 1..Len(todo[t]) /\ todo'[t][k] = todo[t][k + 1]
        BY <2>4, <3>1
      <3> QED BY <2>1, <2>4, <3>2 DEF TodoOK, InAny
    <2> QED BY <1>2, <2>2, <2>3, <2>4, ScanFrom
  <1> QED BY <1>1, <1>2

\* A task is claimed by the scan of an object in whose list it is, or as the
\* wait-all that is being tried.
LEMMA NewClaim ==
  ASSUME TypeInv, NEW s \in Threads, Step(s), NEW u \in Threads, Unclaimed(u), ~Unclaimed(u)'
  PROVE  \/ /\ SemClaim(s) \/ MutexScan(s) \/ EventScan(s)
            /\ pc[s] \in {"scan", "loan"} /\ pc'[s] \in {"scan", "placed"} /\ todo[s] # <<>> /\ call'[s] = call[s]
            /\ Head(todo[s]) \in Entry /\ Head(todo[s]) = todo[s][1] /\ 1 \in 1..Len(todo[s])
            /\ u = Head(todo[s]).task /\ signaled' = [signaled EXCEPT ![u] = Head(todo[s]).index]
         \/ /\ WakeAllTry(s) /\ pc[s] = "wa_lock" /\ pc'[s] = "wa_commit" /\ u = target[s]
            /\ signaled' = [signaled EXCEPT ![u] = 0]
  <1> DEFINE e == Head(todo[s])
  <1>t. signaled \in [Threads -> Int] /\ todo[s] \in Seq(Entry)
    BY DEF TypeInv, QType, LocalInv, LocalType
  <1>h. todo[s] # <<>> => e \in Entry /\ e.task \in Threads /\ e.index \in Nat /\ e = todo[s][1] /\ 1 \in 1..Len(todo[s])
    <2>1. todo[s] # <<>> => e = todo[s][1] /\ 1 \in 1..Len(todo[s])
      BY <1>t
    <2> QED BY <1>t, <2>1, TaskType
  <1>1. CASE UNCHANGED signaled
    BY <1>1 DEF Unclaimed
  <1>2. CASE SemClaim(s) \/ MutexScan(s) \/ EventScan(s)
    <2>1. todo[s] # <<>> /\ pc[s] \in {"scan", "loan"} /\ call'[s] = call[s]
      BY <1>2, SectionLocals DEF SemClaim, MutexScan, EventScan, Scanning
    <2>2. /\ signaled' = [signaled EXCEPT ![e.task] = e.index]
          /\ pc'[s] \in {"scan", "placed"}
      BY <1>1, <1>2, Moves DEF SemClaim, MutexScan, EventScan, Claim, qvars
    <2>3. u = e.task
      BY <1>t, <1>h, <2>1, <2>2 DEF Unclaimed
    <2> QED BY <1>h, <1>2, <2>1, <2>2, <2>3
  <1>3. CASE WakeAllTry(s)
    <2>1. signaled' = [signaled EXCEPT ![target[s]] = 0] /\ pc'[s] = "wa_commit" /\ pc[s] = "wa_lock" /\ target[s] \in Threads
      BY <1>1, <1>3, Moves DEF WakeAllTry, TypeInv, LocalInv, LocalOK, Trying
    <2>2. u = target[s]
      BY <1>t, <2>1 DEF Unclaimed
    <2> QED BY <1>3, <2>1, <2>2
  <1>4. CASE Setup(s) \/ Return(s)
    BY <1>t, <1>4 DEF Setup, Return, Unclaimed
  <1>5. CASE FreeAct(s) /\ ~Setup(s) /\ ~Return(s)
    <2>1. UNCHANGED signaled
      BY <1>5 DEF FreeAct, Begin, Die, Userspace, FastReleaseDeclined, FastRelease, FastWake, Walk, SpinPeek, SpinTake,
           Check, LeaveSleep, qvars
    <2> QED BY <1>1, <2>1
  <1>6. CASE SectionAct(s) /\ ~SemClaim(s) /\ ~MutexScan(s) /\ ~EventScan(s)
    <2>1. UNCHANGED signaled
      BY <1>6 DEF SectionAct, Queue, Unqueue, MutexUnlock, MutexKill, EventSet, EventReset, SemTakeHold, SemHoldDone,
           SemGiveBack, ScanEnd, CheckObj, SemRelease, qvars
    <2> QED BY <1>1, <2>1
  <1>7. CASE LockingAct(s) \/ WakeAllNext(s) \/ (TryAct(s) /\ ~WakeAllTry(s)) \/ AllAct(s)
    <2>1. UNCHANGED signaled
      BY <1>7 DEF LockingAct, Lock, LockMutex, DevLock, Unlock, WakeAllNext, TryAct, WakeAllLock, WakeAllCommit, WakeAllUnlock,
           AllAct, AllMutex, AllQueue, AllFlag, AllAdd, AllQueued, AllUnqueue, AllUnhint, AllClear, AllUnqueued, qvars
    <2> QED BY <1>1, <2>1
  <1> QED BY <1>2, <1>3, <1>4, <1>5, <1>6, <1>7, StepKinds

\* A wait that is queued goes on until it returns.
LEMMA WaitGoesOn ==
  ASSUME TypeInv, AnyInv, ListInv, NEW s \in Threads, Step(s), InWait(s), pc[s] \notin Early \cup {"return"}
  PROVE  call'[s] = call[s] /\ pc'[s] \notin Early
  <1>1. CASE FreeAct(s)
    <2>1. Check(s) \/ LeaveSleep(s)
      BY <1>1 DEF FreeAct, Begin, Die, Userspace, FastReleaseDeclined, FastRelease, FastWake, Walk, SpinPeek, SpinTake,
           Setup, Return, InWait, WaitSteps, Checking, Within, AllSteps, Trying, Early
    <2> QED BY <2>1, Moves, MovesFully DEF Check, LeaveSleep, Early
  <1>2. CASE SectionAct(s)
    BY <1>2, SectionStep, SectionLocals DEF SectionAct, Within, Early
  <1>3. CASE LockingAct(s)
    BY <1>3, LockingMoves DEF Early, InWait, WaitSteps, Checking, Within, AllSteps, Trying, Loops
  <1>4. CASE WakeAllNext(s)
    BY <1>4 DEF WakeAllNext, InWait, WaitSteps, Checking, Within, AllSteps, Trying
  <1>5. CASE TryAct(s)
    BY <1>5, TryMoves DEF Early, Trying
  <1>6. CASE AllAct(s)
    BY <1>6, AllMoves DEF Early, AllSteps
  <1> QED BY <1>1, <1>2, <1>3, <1>4, <1>5, <1>6, StepKinds

LEMMA ScannedWait ==
  ASSUME TypeInv, AnyInv, NEW s \in Threads, TodoOK(s), pc[s] \in {"scan", "loan"}, todo[s] # <<>>,
         NEW u \in Threads, u = Head(todo[s]).task
  PROVE  LET k == Head(todo[s]).index
         IN  /\ k \in AnyIn(u) /\ EntryObj(u, k) = cur[s] /\ IsWait(call[u]) /\ call[u] \in Calls[u] /\ InWait(u)
             /\ pc[u] \notin Early \cup {"return"} /\ k \in AnyEntries(call[u])
  <1>1. todo[s] \in Seq(Entry) /\ cur[s] \in Objs
    BY CurObj DEF TypeInv, LocalInv, LocalType
  <1>2. 1 \in 1..Len(todo[s]) /\ Head(todo[s]) = todo[s][1]
    BY <1>1
  <1>3. InAny(Head(todo[s]), cur[s])
    BY <1>2 DEF TodoOK
  <1>4. Head(todo[s]).index \in AnyIn(u) /\ EntryObj(u, Head(todo[s]).index) = cur[s]
    BY <1>1, <1>3 DEF InAny, AnyInv, AnySound
  <1>5. pc[u] \notin {"idle", "dead", "setup", "return"} /\ call[u] \in Calls[u] /\ Head(todo[s]).index \in AnyEntries(call[u])
    BY <1>4, EntryIn
  <1>6. InWait(u) /\ pc[u] \notin Early
    BY <1>4, <1>5 DEF AnyIn, At, InWait, WaitSteps, AllSteps, Loops, Early, Checking, Within, Trying
  <1> QED BY <1>4, <1>5, <1>6 DEF AnyInv, IndexOK

LEMMA NextClaimOK ==
  ASSUME TypeInv, TypeInv', ListInv, AnyInv, AnyInv', NEW s \in Threads, Step(s), NEW u \in Threads, TodoOK(s), ClaimOK(u)
  PROVE  ClaimOK(u)'
  <1> SUFFICES ASSUME ~Unclaimed(u)' PROVE InWait(u)' /\ pc'[u] \notin Early
    BY DEF ClaimOK
  <1>0. IndexOK(u) /\ IndexOK(u)'
    BY DEF AnyInv
  <1>1. CASE ~Unclaimed(u) /\ u # s
    BY <1>1, StepOthers DEF OthersStay, ClaimOK, InWait
  <1>2. CASE ~Unclaimed(u) /\ u = s
    <2>1. ~Return(s)
      BY <1>2 DEF Return, Unclaimed, TypeInv, QType
    <2>2. InWait(s) /\ pc[s] \notin Early
      BY <1>2 DEF ClaimOK
    <2>3. pc[s] # "return"
      <3>1. SUFFICES ASSUME pc[s] = "return" PROVE Return(s)
        BY <2>1
      <3>2. FreeAct(s)
        BY <3>1, StepKinds, SectionStep, LockingMoves, TryMoves, AllMoves
           DEF SectionAct, Within, WakeAllNext, Trying, AllSteps
      <3> QED BY <3>1, <3>2 DEF FreeAct, Userspace, Begin, Check, LeaveSleep, Die, FastReleaseDeclined, FastRelease, FastWake,
             Walk, SpinPeek, SpinTake, Setup
    <2>4. call'[s] = call[s] /\ pc'[s] \notin Early
      BY <2>2, <2>3, WaitGoesOn
    <2> QED BY <1>0, <1>2, <2>2, <2>4 DEF IndexOK
  <1>3. CASE Unclaimed(u)
    <2>1. CASE /\ pc[s] \in {"scan", "loan"} /\ pc'[s] \in {"scan", "placed"} /\ todo[s] # <<>> /\ call'[s] = call[s]
               /\ u = Head(todo[s]).task
      <3>1. InWait(u) /\ pc[u] \notin Early
        BY <2>1, ScannedWait
      <3>2. CASE u # s
        BY <3>1, <3>2, StepOthers DEF OthersStay, InWait
      <3>3. CASE u = s
        BY <1>0, <2>1, <3>1, <3>3 DEF IndexOK, Early
      <3> QED BY <3>2, <3>3
    <2>2. CASE WakeAllTry(s) /\ pc[s] = "wa_lock" /\ pc'[s] = "wa_commit" /\ u = target[s]
      <3>1. InAll(u)
        BY <2>2 DEF ListInv, WalkOK, Trying
      <3>2. InWait(u) /\ pc[u] \notin Early
        BY <3>1 DEF InAll, InWait, WaitSteps, AllSteps, Loops, Early, Checking, Within, Trying
      <3>3. CASE u # s
        BY <3>2, <3>3, StepOthers DEF OthersStay, InWait
      <3>4. CASE u = s
        <4>1. call'[s] = call[s]
          BY <2>2, Moves, MovesFully DEF WakeAllTry
        <4> QED BY <1>0, <2>2, <3>2, <3>4, <4>1 DEF IndexOK, Early
      <3> QED BY <3>3, <3>4
    <2> QED BY <1>3, <2>1, <2>2, NewClaim
  <1> QED BY <1>1, <1>2, <1>3

\* Who comes to the walk of inproc_wait, and how.
LEMMA NextFastOK ==
  ASSUME TypeInv, TypeInv', ListInv, NEW s \in Threads, Step(s), NEW t \in Threads, FastOK(t)
  PROVE  FastOK(t)'
  <1>1. CASE t # s
    BY <1>1, StepOthers DEF OthersStay, FastOK
  <1>2. CASE t = s /\ pc'[t] \in {"walk", "spin", "spin_take"}
    <2>1. FreeAct(t)
      BY <1>2, StepKinds, SectionStep, LockingMoves, TryMoves, AllMoves, WakeAllNextMoves
         DEF SectionAct, Within, AllSteps
    <2>2. Begin(t) \/ Walk(t) \/ SpinPeek(t) \/ SpinTake(t)
      BY <1>2, <2>1, Moves DEF FreeAct, Userspace, Die, Check, LeaveSleep, Return, FastReleaseDeclined, FastRelease, FastWake, Setup,
           Finish, TypeInv, LocalInv, LocalType
    <2>3. CASE Begin(t)
      <3>1. PICK c \in Calls[t] : pc' = [pc EXCEPT ![t] = FirstStep(c)] /\ call' = [call EXCEPT ![t] = c]
        BY <2>3 DEF Begin
      <3>2. pc'[t] = FirstStep(c) /\ call'[t] = c /\ i'[t] = 1 /\ Len(c.objs) \in Nat
        BY <2>3, <3>1, CallType DEF Begin, TypeInv, LocalInv, LocalType, LocalOK
      <3>3. pc'[t] = "walk" /\ ~IsAll(c)
        BY <1>2, <3>2 DEF FirstStep
      <3> QED BY <3>2, <3>3 DEF FastOK
    <2>4. CASE Walk(t) \/ SpinPeek(t) \/ SpinTake(t)
      <3>0. pc[t] \in {"walk", "spin", "spin_take"}
        BY <2>4 DEF Walk, SpinPeek, SpinTake
      <3>1. ~IsAll(call[t]) /\ i[t] \in Nat /\ Len(call[t].objs) \in Nat
        BY <3>0, LoopingObj DEF FastOK, Looping, TypeInv
      <3>2. CASE SpinPeek(t) \/ SpinTake(t)
        <4>1. call'[t] = call[t] /\ pc'[t] \in {"spin", "spin_take"} /\ pc[t] \in {"spin", "spin_take"}
          BY <1>2, <3>2, Moves, MovesFully DEF SpinPeek, SpinTake, SpinNext, FastTake, Finish
        <4> QED BY <3>1, <4>1 DEF FastOK
      <3>3. CASE Walk(t)
        <4>1. /\ Mapped(Here(t)) /\ pc[t] = "walk" /\ call'[t] = call[t]
              /\ \/ i[t] < Len(call[t].objs) /\ pc'[t] = "walk" /\ i'[t] = i[t] + 1
                 \/ ~(i[t] < Len(call[t].objs)) /\ pc'[t] = "spin"
          BY <1>2, <3>3, Moves, MovesFully DEF Walk, FastTake, Finish
        <4>2. Type[Here(t)] = "sem"
          BY <4>1 DEF Mapped
        <4>3. CASE pc'[t] = "walk"
          BY <3>1, <4>1, <4>2, <4>3 DEF FastOK, Here
        <4>4. CASE pc'[t] = "spin"
          BY <3>1, <4>1, <4>2, <4>4 DEF FastOK, Here
        <4> QED BY <4>1, <4>3, <4>4
      <3> QED BY <2>4, <3>2, <3>3
    <2> QED BY <2>2, <2>3, <2>4
  <1>3. CASE pc'[t] \notin {"walk", "spin", "spin_take"}
    BY <1>3 DEF FastOK
  <1> QED BY <1>1, <1>2, <1>3

LEMMA InitRefInv == Init => RefInv
  <1> SUFFICES ASSUME Init PROVE RefInv
    OBVIOUS
  <1>1. RecOK
    BY ConstAssumption DEF Init, RecOK
  <1>2. ASSUME NEW t \in Threads PROVE TodoOK(t) /\ ClaimOK(t) /\ FastOK(t) /\ ScanOK(t)
    BY DEF Init, TodoOK, ClaimOK, FastOK, ScanOK, Unclaimed, Holding
  <1> QED BY <1>1, <1>2 DEF RefInv

LEMMA NextRefInv ==
  ASSUME TypeInv, TypeInv', LockInv, ListInv, AnyInv, AnyInv', WaitAllCommits, RefInv, [Next]_vars
  PROVE  RefInv'
  <1>1. CASE Next
    <2>1. PICK s \in Threads : Step(s)
      BY <1>1, NextStep
    <2>2. RecOK'
      BY <2>1, NextRecOK DEF RefInv
    <2>3. ASSUME NEW t \in Threads PROVE TodoOK(t)' /\ ClaimOK(t)' /\ FastOK(t)'
      BY <2>1, NextTodoOK, NextClaimOK, NextFastOK DEF RefInv
    <2>4. ASSUME NEW t \in Threads PROVE ScanOK(t)'
      BY <2>1, OtherScanOK, OwnScanOK DEF RefInv
    <2> QED BY <2>2, <2>3, <2>4 DEF RefInv
  <1>2. CASE UNCHANGED vars
    <2>1. RecOK'
      BY <1>2 DEF vars, private, RecOK, RefInv
    <2>2. ASSUME NEW t \in Threads PROVE TodoOK(t)' /\ ClaimOK(t)' /\ FastOK(t)' /\ ScanOK(t)'
      <3>1. TodoOK(t) /\ ClaimOK(t) /\ FastOK(t) /\ ScanOK(t)
        BY DEF RefInv
      <3>2. TodoOK(t)' /\ ClaimOK(t)' /\ FastOK(t)'
        BY <1>2, <3>1 DEF vars, locals, queuevars, qvars, TodoOK, InAny, ClaimOK, Unclaimed, InWait, FastOK
      <3>3. (\A u : Unclaimed(u)' = Unclaimed(u)) /\ (\A u : AnyIn(u)' = AnyIn(u)) /\ (\A u, k : EntryObj(u, k)' = EntryObj(u, k))
        BY <1>2 DEF vars, locals, queuevars, qvars, Unclaimed, AnyIn, At, EntryObj
      <3>4. ScanOK(t)'
        BY <1>2, <3>1, <3>3 DEF vars, locals, ScanOK, Listed
      <3> QED BY <3>2, <3>4
    <2> QED BY <2>1, <2>2 DEF RefInv
  <1> QED BY <1>1, <1>2

-----------------------------------------------------------------------------
(* The steps of SyncObjects, in terms of the driver's state.               *)

Units(o) == count[o] + OnLoan(o)
Waits(u) == IF StillWaiting(u) THEN call[u] ELSE NoCall
Took(u) == IF IsWait(call[u]) /\ ~StillWaiting(u) THEN Claimed(u) ELSE {}
\* Nothing changes in the abstract objects, or for the waits of others than u.
SameObjects == UNCHANGED private /\ \A o \in Objs : Units(o)' = Units(o)
SameWaits == \A u \in Threads : Waits(u)' = Waits(u) /\ Took(u)' = Took(u)
OthersWait(u) == \A v \in Threads : v # u => Waits(v)' = Waits(v) /\ Took(v)' = Took(v)

\* u takes the objects of S, each in the way of its type.
Taken(u, S) ==
    /\ \A o \in Objs : Units(o)' = IF o \in S /\ Type[o] = "sem" THEN Units(o) - 1 ELSE Units(o)
    /\ mcount' = [o \in Objs |-> IF o \in S /\ Type[o] = "mutex" THEN mcount[o] + 1 ELSE mcount[o]]
    /\ mowner' = [o \in Objs |-> IF o \in S /\ Type[o] = "mutex" THEN u ELSE mowner[o]]
    /\ mdead' = [o \in Objs |-> mdead[o] /\ ~(o \in S /\ Type[o] = "mutex")]
    /\ event' = [o \in Objs |-> event[o] /\ (o \in S /\ Type[o] = "event" => Manual[o])]

LEMMA AbsStutter ==
  ASSUME SameObjects, SameWaits
  PROVE  UNCHANGED Abstract!vars
  <1>1. UNCHANGED [o \in Objs |-> count[o] + OnLoan(o)]
    BY DEF SameObjects, Units
  <1>2. UNCHANGED [u \in Threads |-> IF StillWaiting(u) THEN call[u] ELSE NoCall]
    BY DEF SameWaits, Waits
  <1>3. UNCHANGED [u \in Threads |-> IF IsWait(call[u]) /\ ~StillWaiting(u) THEN Claimed(u) ELSE {}]
    BY DEF SameWaits, Took
  <1> QED BY <1>1, <1>2, <1>3 DEF Abstract!vars, Abstract!objects, Abstract!waits, SameObjects, private

LEMMA AbsSignaled ==
  ASSUME TypeInv, NEW o \in Objs, NEW u \in Threads, IsSignaled(o, u) \/ (Type[o] = "sem" /\ OnLoan(o) = 1)
  PROVE  Abstract!Signaled(o, u)
  <1>1. count[o] \in Nat /\ OnLoan(o) \in {0, 1}
    BY OnLoanValue DEF TypeInv, ObjType
  <1>2. CASE Type[o] = "sem"
    BY <1>1, <1>2 DEF Abstract!Signaled, IsSignaled
  <1>3. CASE Type[o] = "mutex"
    BY <1>3 DEF Abstract!Signaled, IsSignaled
  <1>4. CASE Type[o] = "event"
    BY <1>4 DEF Abstract!Signaled, IsSignaled
  <1> QED BY <1>2, <1>3, <1>4, ConstAssumption

LEMMA AbsTake ==
  ASSUME NEW u \in Threads, NEW S \in SUBSET Objs, \A o \in S : Abstract!Signaled(o, u),
         Taken(u, S),
         Waits(u)' = NoCall, Took(u)' \in {S, Took(u)}, OthersWait(u)
  PROVE  Abstract!Take(u, S)
  <1> DEFINE un == [o \in Objs |-> count[o] + OnLoan(o)]
             wa == [v \in Threads |-> IF StillWaiting(v) THEN call[v] ELSE NoCall]
             ta == [v \in Threads |-> IF IsWait(call[v]) /\ ~StillWaiting(v) THEN Claimed(v) ELSE {}]
  <1>1. un' = [o \in Objs |-> IF o \in S /\ Type[o] = "sem" THEN un[o] - 1 ELSE un[o]]
    BY DEF Units, Taken
  <1>2. wa' = [wa EXCEPT ![u] = NoCall]
    BY DEF OthersWait, Waits
  <1>3. ta' \in {[ta EXCEPT ![u] = S], ta}
    <2>1. CASE Took(u)' = S
      <3>1. ta' = [ta EXCEPT ![u] = S]
        BY <2>1 DEF OthersWait, Took
      <3> QED BY <3>1
    <2>2. CASE Took(u)' = Took(u)
      <3>1. ta' = ta
        BY <2>2 DEF OthersWait, Took
      <3> QED BY <3>1
    <2> QED BY <2>1, <2>2
  <1> QED BY <1>1, <1>2, <1>3 DEF Abstract!Take, Taken

\* A wait that has not been claimed takes an object that is in its list.
LEMMA AbsSatisfyOne ==
  ASSUME NEW u \in Threads, call[u] \in Calls[u], IsWait(call[u]), StillWaiting(u), NEW o \in Objs,
         \/ ~IsAll(call[u]) /\ \E k \in 1..Len(call[u].objs) : o = call[u].objs[k]
         \/ call[u].alert # NoOne /\ o = call[u].alert,
         Abstract!Take(u, {o})
  PROVE  Abstract!Satisfy(u)
  <1> DEFINE c == call[u]
  <1>1. c # NoCall
    BY DEF NoCall, IsWait
  <1>2. [v \in Threads |-> IF StillWaiting(v) THEN call[v] ELSE NoCall][u] = c
    OBVIOUS
  <1>3. c.objs \in Seq(Objs) /\ Len(c.objs) > 0 /\ Len(c.objs) \in Nat
    BY CallType
  <1>4. DOMAIN c.objs = 1..Len(c.objs)
    BY <1>3
  <1>5. CASE call[u].alert # NoOne /\ o = call[u].alert
    <2>1. Abstract!Take(u, {c.alert}) /\ c.alert # NoOne
      BY <1>5 DEF Abstract!Take
    <2> QED BY <1>1, <1>2, <2>1 DEF Abstract!Satisfy, Abstract!Take
  <1>6. CASE ~IsAll(c) /\ \E k \in 1..Len(c.objs) : o = c.objs[k]
    <2>1. o \in Abstract!Range(c.objs)
      BY <1>4, <1>6 DEF Abstract!Range
    <2>2. CASE c.fn = "wait_any"
      BY <1>1, <1>2, <2>1, <2>2 DEF Abstract!Satisfy
    <2>3. CASE c.fn = "wait_all"
      <3>1. Len(c.objs) = 1
        <4>1. ~(Len(c.objs) > 1)
          BY <1>6, <2>3 DEF IsAll
        <4>2. \A n \in Nat : n > 0 /\ ~(n > 1) => n = 1
          OBVIOUS
        <4> QED BY <1>3, <4>1, <4>2
      <3>2. Abstract!Range(c.objs) = {o}
        BY <1>4, <1>6, <3>1 DEF Abstract!Range
      <3>3. Abstract!Take(u, Abstract!Range(c.objs))
        BY <3>2 DEF Abstract!Take
      <3> QED BY <1>1, <1>2, <2>3, <3>3 DEF Abstract!Satisfy, Abstract!Take
    <2> QED BY <2>2, <2>3 DEF IsWait
  <1> QED BY <1>5, <1>6

LEMMA AbsSatisfyAll ==
  ASSUME NEW u \in Threads, call[u] \in Calls[u], IsAll(call[u]), StillWaiting(u), NEW S \in SUBSET Objs,
         S = {call[u].objs[k] : k \in 1..Len(call[u].objs)}, Abstract!Take(u, S)
  PROVE  Abstract!Satisfy(u)
  <1> DEFINE c == call[u]
  <1>1. c # NoCall /\ c.fn = "wait_all"
    BY DEF NoCall, IsAll
  <1>2. [v \in Threads |-> IF StillWaiting(v) THEN call[v] ELSE NoCall][u] = c
    OBVIOUS
  <1>3. c.objs \in Seq(Objs)
    BY CallType
  <1>4. DOMAIN c.objs = 1..Len(c.objs)
    BY <1>3
  <1>5. Abstract!Range(c.objs) = S
    BY <1>4 DEF Abstract!Range
  <1>6. Abstract!Take(u, Abstract!Range(c.objs))
    BY <1>5 DEF Abstract!Take
  <1> QED BY <1>1, <1>2, <1>6 DEF Abstract!Satisfy, Abstract!Take

LEMMA AbsStartWait ==
  ASSUME NEW u \in Threads, NEW c \in Calls[u], IsWait(c), SameObjects, OthersWait(u),
         Waits(u) = NoCall, Took(u) = {}, Waits(u)' = c, Took(u)' = {}
  PROVE  Abstract!StartWait(u)
  <1> DEFINE un == [o \in Objs |-> count[o] + OnLoan(o)]
             wa == [v \in Threads |-> IF StillWaiting(v) THEN call[v] ELSE NoCall]
             ta == [v \in Threads |-> IF IsWait(call[v]) /\ ~StillWaiting(v) THEN Claimed(v) ELSE {}]
  <1>1. UNCHANGED un
    BY DEF SameObjects, Units
  <1>2. wa[u] = NoCall /\ wa' = [wa EXCEPT ![u] = c]
    BY DEF OthersWait, Waits
  <1>3. ta[u] = {} /\ ta' = ta
    BY DEF OthersWait, Took
  <1> QED BY <1>1, <1>2, <1>3 DEF Abstract!StartWait, Abstract!objects, SameObjects, private, IsWait

LEMMA AbsGiveUp ==
  ASSUME NEW u \in Threads, SameObjects, OthersWait(u), Waits(u) # NoCall, Waits(u)' = NoCall, Took(u)' = Took(u)
  PROVE  Abstract!GiveUp(u)
  <1> DEFINE un == [o \in Objs |-> count[o] + OnLoan(o)]
             wa == [v \in Threads |-> IF StillWaiting(v) THEN call[v] ELSE NoCall]
             ta == [v \in Threads |-> IF IsWait(call[v]) /\ ~StillWaiting(v) THEN Claimed(v) ELSE {}]
  <1>1. UNCHANGED un
    BY DEF SameObjects, Units
  <1>2. wa[u] # NoCall /\ wa' = [wa EXCEPT ![u] = NoCall]
    BY DEF OthersWait, Waits
  <1>3. ta' = ta
    BY DEF OthersWait, Took
  <1> QED BY <1>1, <1>2, <1>3 DEF Abstract!GiveUp, Abstract!objects, SameObjects, private

LEMMA AbsReport ==
  ASSUME NEW u \in Threads, SameObjects, OthersWait(u), Took(u) # {}, Took(u)' = {}, Waits(u)' = Waits(u)
  PROVE  Abstract!Report(u)
  <1> DEFINE un == [o \in Objs |-> count[o] + OnLoan(o)]
             wa == [v \in Threads |-> IF StillWaiting(v) THEN call[v] ELSE NoCall]
             ta == [v \in Threads |-> IF IsWait(call[v]) /\ ~StillWaiting(v) THEN Claimed(v) ELSE {}]
  <1>1. UNCHANGED un
    BY DEF SameObjects, Units
  <1>2. wa' = wa
    BY DEF OthersWait, Waits
  <1>3. ta[u] # {} /\ ta' = [ta EXCEPT ![u] = {}]
    BY DEF OthersWait, Took
  <1> QED BY <1>1, <1>2, <1>3 DEF Abstract!Report, Abstract!objects, SameObjects, private

\* The waits as SyncObjects sees them, when nothing happens to them.
LEMMA AbsWaits ==
  ASSUME SameWaits
  PROVE  UNCHANGED Abstract!waits
  <1>1. UNCHANGED [u \in Threads |-> IF StillWaiting(u) THEN call[u] ELSE NoCall]
    BY DEF SameWaits, Waits
  <1>2. UNCHANGED [u \in Threads |-> IF IsWait(call[u]) /\ ~StillWaiting(u) THEN Claimed(u) ELSE {}]
    BY DEF SameWaits, Took
  <1> QED BY <1>1, <1>2 DEF Abstract!waits

LEMMA AbsRelease ==
  ASSUME SameWaits, NEW o \in Objs, Type[o] = "sem", NEW t \in Threads, NEW c \in Calls[t], c.fn = "release", c.objs[1] = o,
         Units(o) + c.n <= Max[o], Units(o)' = Units(o) + c.n, \A p \in Objs : p # o => Units(p)' = Units(p),
         UNCHANGED private
  PROVE  Abstract!Release(o)
  <1> DEFINE un == [p \in Objs |-> count[p] + OnLoan(p)]
  <1>1. un[o] + c.n <= Max[o] /\ un' = [un EXCEPT ![o] = un[o] + c.n]
    BY DEF Units
  <1> QED BY <1>1, AbsWaits DEF Abstract!Release, private

LEMMA AbsSet ==
  ASSUME SameWaits, NEW o \in Objs, Type[o] = "event", NEW b \in BOOLEAN, event' = [event EXCEPT ![o] = b],
         \A p \in Objs : Units(p)' = Units(p), UNCHANGED <<mcount, mowner, mdead>>
  PROVE  Abstract!Set(o)
  <1>1. UNCHANGED [p \in Objs |-> count[p] + OnLoan(p)]
    BY DEF Units
  <1> QED BY <1>1, AbsWaits DEF Abstract!Set

LEMMA AbsUnlock ==
  ASSUME SameWaits, NEW o \in Objs, Type[o] = "mutex", NEW t \in Threads, NEW c \in Calls[t], c.fn = "unlock", c.objs[1] = o,
         c.owner = mowner[o], mowner[o] # NoOne,
         mcount' = [mcount EXCEPT ![o] = @ - 1],
         mowner' = [mowner EXCEPT ![o] = IF mcount[o] = 1 THEN NoOne ELSE @],
         \A p \in Objs : Units(p)' = Units(p), UNCHANGED <<mdead, event>>
  PROVE  Abstract!Unlock(o)
  <1>1. UNCHANGED [p \in Objs |-> count[p] + OnLoan(p)]
    BY DEF Units
  <1> QED BY <1>1, AbsWaits DEF Abstract!Unlock

LEMMA AbsAbandon ==
  ASSUME SameWaits, NEW o \in Objs, Type[o] = "mutex", NEW t \in Threads, NEW c \in Calls[t], c.fn = "kill", c.objs[1] = o,
         c.owner = mowner[o], mowner[o] # NoOne,
         mcount' = [mcount EXCEPT ![o] = 0], mowner' = [mowner EXCEPT ![o] = NoOne], mdead' = [mdead EXCEPT ![o] = TRUE],
         \A p \in Objs : Units(p)' = Units(p), UNCHANGED event
  PROVE  Abstract!Abandon(o)
  <1>1. UNCHANGED [p \in Objs |-> count[p] + OnLoan(p)]
    BY DEF Units
  <1> QED BY <1>1, AbsWaits DEF Abstract!Abandon

-----------------------------------------------------------------------------
(* What a step leaves alone.                                               *)

\* try_wake_all commits a wait-all only from WakeAllTry to WakeAllCommit.
LEMMA CommittedKept ==
  ASSUME TypeInv, NEW s \in Threads, Step(s), pc[s] # "wa_commit", pc'[s] # "wa_commit", NEW u \in Threads
  PROVE  BeingCommitted(u)' <=> BeingCommitted(u)
  <1>1. \A t \in Threads : t # s => pc'[t] = pc[t] /\ target'[t] = target[t]
    BY StepOthers DEF OthersStay
  <1> QED BY <1>1 DEF BeingCommitted

\* The wait of u is not touched by a step that leaves its call and its claim.
LEMMA WaitKept ==
  ASSUME NEW u \in Threads, call'[u] = call[u], signaled'[u] = signaled[u], BeingCommitted(u)' <=> BeingCommitted(u)
  PROVE  Waits(u)' = Waits(u) /\ Took(u)' = Took(u)
  <1>1. StillWaiting(u)' <=> StillWaiting(u)
    BY DEF StillWaiting, Unclaimed
  <1>2. Claimed(u)' = Claimed(u)
    BY DEF Claimed
  <1> QED BY <1>1, <1>2 DEF Waits, Took

\* A step of a thread that neither has a unit on loan nor takes one.
LEMMA LoanKept ==
  ASSUME TypeInv, NEW s \in Threads, Step(s), pc[s] # "loan", pc'[s] # "loan"
  PROVE  \A o : OnLoan(o)' = OnLoan(o)
  <1>1. \A t \in Threads : t # s => pc'[t] = pc[t] /\ cur'[t] = cur[t]
    BY StepOthers DEF OthersStay
  <1> QED BY <1>1 DEF OnLoan

LEMMA UnitsKept ==
  ASSUME TypeInv, NEW s \in Threads, Step(s), pc[s] # "loan", pc'[s] # "loan", UNCHANGED count
  PROVE  \A o \in Objs : Units(o)' = Units(o)
  BY LoanKept DEF Units

\* Others do not notice a step that claims nobody and commits nothing.
LEMMA OthersKept ==
  ASSUME TypeInv, NEW s \in Threads, Step(s), pc[s] # "wa_commit", pc'[s] # "wa_commit",
         \A u \in Threads : u # s => signaled'[u] = signaled[u]
  PROVE  OthersWait(s)
  <1>1. \A u \in Threads : u # s => call'[u] = call[u]
    BY StepOthers DEF OthersStay
  <1> QED BY <1>1, CommittedKept, WaitKept DEF OthersWait

LEMMA WaitsKept ==
  ASSUME TypeInv, NEW s \in Threads, Step(s), pc[s] # "wa_commit", pc'[s] # "wa_commit", call'[s] = call[s], UNCHANGED signaled
  PROVE  SameWaits
  <1>1. OthersWait(s)
    BY OthersKept
  <1>2. Waits(s)' = Waits(s) /\ Took(s)' = Took(s)
    BY CommittedKept, WaitKept
  <1> QED BY <1>1, <1>2 DEF SameWaits, OthersWait

-----------------------------------------------------------------------------
(* Every step of the driver or its client is a step of SyncObjects or none. *)

Simulated == Abstract!Next \/ UNCHANGED Abstract!vars

LEMMA QuietStep ==
  ASSUME TypeInv, NEW s \in Threads, Step(s), pc[s] \notin {"loan", "wa_commit"}, pc'[s] \notin {"loan", "wa_commit"},
         call'[s] = call[s], UNCHANGED <<count, private, signaled>>
  PROVE  Simulated
  <1>1. SameObjects
    BY UnitsKept DEF SameObjects
  <1>2. SameWaits
    BY WaitsKept
  <1> QED BY <1>1, <1>2, AbsStutter DEF Simulated

\* The wait of s before and after, when s is in none.
LEMMA NotWaiting ==
  ASSUME NEW s \in Threads, ~IsWait(call[s]), ~IsWait(call'[s]), OthersWait(s)
  PROVE  SameWaits
  <1>1. Waits(s) = NoCall /\ Waits(s)' = NoCall /\ Took(s) = {} /\ Took(s)' = {}
    BY DEF Waits, Took, StillWaiting
  <1> QED BY <1>1 DEF SameWaits, OthersWait

\* A call ends without a claim.
LEMMA GivesUp ==
  ASSUME TypeInv, NEW s \in Threads, Step(s), pc[s] \notin {"loan", "wa_commit"}, pc'[s] \notin {"loan", "wa_commit"},
         call'[s] = NoCall, Unclaimed(s), UNCHANGED <<count, private, signaled>>
  PROVE  Simulated
  <1>1. SameObjects
    BY UnitsKept DEF SameObjects
  <1>2. OthersWait(s)
    BY OthersKept
  <1>3. ~IsWait(call'[s])
    BY DEF IsWait, NoCall
  <1>4. CASE ~IsWait(call[s])
    BY <1>1, <1>2, <1>3, <1>4, NotWaiting, AbsStutter DEF Simulated
  <1>5. CASE IsWait(call[s])
    <2>1. Waits(s) = call[s] /\ Took(s) = {} /\ Waits(s)' = NoCall /\ Took(s)' = {}
      BY <1>3, <1>5 DEF Waits, Took, StillWaiting
    <2>2. call[s] # NoCall
      BY <1>5 DEF IsWait, NoCall
    <2>3. Abstract!GiveUp(s)
      BY <1>1, <1>2, <2>1, <2>2, AbsGiveUp
    <2> QED BY <2>3 DEF Simulated, Abstract!Next
  <1> QED BY <1>4, <1>5

\* fast_acquire_semaphore takes a unit, and the wait returns at once.
LEMMA FastTakes ==
  ASSUME TypeInv, AnyInv, NEW s \in Threads, Step(s), pc[s] \in {"walk", "spin", "spin_take"}, ClaimOK(s), FastOK(s),
         NEW o \in Objs, o = Here(s), Type[o] = "sem", FastTake(s, o), UNCHANGED signaled
  PROVE  Simulated
  <1>1. Unclaimed(s) /\ ~IsAll(call[s]) /\ IsWait(call[s]) /\ call[s] \in Calls[s]
    BY CurObj DEF ClaimOK, Early, FastOK, AnyInv, IndexOK, InWait, WaitSteps
  <1>2. pc'[s] = "idle" /\ call'[s] = NoCall
    BY MovesWith DEF FastTake, Finish
  <1>3. OthersWait(s)
    BY <1>2, OthersKept
  <1>4. StillWaiting(s) /\ Took(s) = {} /\ Waits(s)' = NoCall /\ Took(s)' = {}
    BY <1>1, <1>2 DEF StillWaiting, Took, Waits, IsWait, NoCall
  <1>5. count[o] > 0 /\ count \in [Objs -> Nat] /\ count' = [count EXCEPT ![o] = @ - 1]
    BY DEF FastTake, FastAcquire, TypeInv, ObjType
  <1>6. \A p \in Objs : Units(p)' = IF p \in {o} /\ Type[p] = "sem" THEN Units(p) - 1 ELSE Units(p)
    <2>1. \A p \in Objs : OnLoan(p)' = OnLoan(p) /\ OnLoan(p) \in {0, 1}
      BY <1>2, LoanKept, OnLoanValue
    <2> QED BY <1>5, <2>1 DEF Units
  <1>7. Abstract!Signaled(o, s)
    BY <1>5, AbsSignaled DEF IsSignaled
  <1>8. Abstract!Take(s, {o})
    <2>1. /\ mcount' = [p \in Objs |-> IF p \in {o} /\ Type[p] = "mutex" THEN mcount[p] + 1 ELSE mcount[p]]
          /\ mowner' = [p \in Objs |-> IF p \in {o} /\ Type[p] = "mutex" THEN s ELSE mowner[p]]
          /\ mdead' = [p \in Objs |-> mdead[p] /\ ~(p \in {o} /\ Type[p] = "mutex")]
          /\ event' = [p \in Objs |-> event[p] /\ (p \in {o} /\ Type[p] = "event" => Manual[p])]
      BY DEF FastTake, private, TypeInv, ObjType
    <2>2. Taken(s, {o})
      BY <1>6, <2>1 DEF Taken
    <2> QED BY <1>3, <1>4, <1>7, <2>2, AbsTake
  <1>9. \E k \in 1..Len(call[s].objs) : o = call[s].objs[k]
    <2>1. i[s] <= Len(call[s].objs) /\ i[s] \in Nat /\ i[s] > 0 /\ Len(call[s].objs) \in Nat
      BY LoopingObj DEF TypeInv, LocalInv, LocalOK, Looping
    <2> QED BY <2>1 DEF Here
  <1>10. Abstract!Satisfy(s)
    BY <1>1, <1>4, <1>8, <1>9, AbsSatisfyOne
  <1> QED BY <1>10 DEF Simulated, Abstract!Next

LEMMA FastReleases ==
  ASSUME TypeInv, LoanInv, ListInv, AnyInv, KindInv, NEW s \in Threads, Step(s), FastRelease(s)
  PROVE  Simulated
  <1>0. pc[s] = "fast_release"
    BY DEF FastRelease
  <1>1. PICK o \in Objs : cur[s] = o
    BY <1>0, CurObj
  <1>2. stage[s] = "release" /\ call[s] \in Calls[s]
    BY <1>0, CurObj DEF ListInv, StageOK
  <1>3. call[s].fn = "release" /\ call[s].objs[1] = o
    BY <1>1, <1>2 DEF KindInv, KindOK, Wakers
  <1>4. Type[o] = "sem" /\ call[s].n \in Nat /\ Max[o] \in Nat
    BY <1>2, <1>3, CallAssumption, ConstAssumption, CallType
  <1>5. ~hold[o] /\ count[o] + call[s].n <= Max[o] /\ count' = [count EXCEPT ![o] = @ + call[s].n]
        /\ count \in [Objs -> Nat] /\ UNCHANGED <<private, signaled>>
    BY <1>1, <1>4 DEF FastRelease, MustAskKernel, TypeInv, ObjType, qvars
  <1>6. OnLoan(o) = 0
    BY <1>5 DEF OnLoan, LoanInv, HoldOK, Holding
  <1>7. pc'[s] \in {"idle", "fast_wake"} /\ (call'[s] = NoCall \/ call'[s] = call[s])
    BY Moves, MovesFully, MovesWith DEF FastRelease, Finish
  <1>8. \A p \in Objs : OnLoan(p)' = OnLoan(p) /\ OnLoan(p) \in {0, 1}
    BY <1>0, <1>7, LoanKept, OnLoanValue
  <1>9. SameWaits
    <2>1. OthersWait(s)
      BY <1>0, <1>5, <1>7, OthersKept
    <2> QED BY <1>3, <1>7, <2>1, NotWaiting DEF IsWait, NoCall
  <1>10. Units(o) + call[s].n <= Max[o] /\ Units(o)' = Units(o) + call[s].n /\ \A p \in Objs : p # o => Units(p)' = Units(p)
    BY <1>4, <1>5, <1>6, <1>8 DEF Units
  <1>11. Abstract!Release(o)
    BY <1>2, <1>3, <1>4, <1>5, <1>9, <1>10, AbsRelease
  <1> QED BY <1>11 DEF Simulated, Abstract!Next

LEMMA Begins ==
  ASSUME TypeInv, AnyInv, NEW s \in Threads, Step(s), ClaimOK(s), Begin(s)
  PROVE  Simulated
  <1>1. PICK c \in Calls[s] : pc' = [pc EXCEPT ![s] = FirstStep(c)] /\ call' = [call EXCEPT ![s] = c]
    BY DEF Begin
  <1>2. pc[s] = "idle" /\ pc'[s] = FirstStep(c) /\ call'[s] = c /\ UNCHANGED <<count, private, signaled>>
    BY <1>1 DEF Begin, TypeInv, LocalInv, LocalType, objvars, word, qvars
  <1>3. pc'[s] \notin {"loan", "wa_commit"}
    BY <1>2 DEF FirstStep
  <1>4. SameObjects /\ OthersWait(s)
    BY <1>2, <1>3, UnitsKept, OthersKept DEF SameObjects
  <1>5. ~InWait(s)
    BY <1>2 DEF InWait, WaitSteps, AllSteps, Checking, Within, Trying
  <1>6. Unclaimed(s) /\ ~IsWait(call[s])
    BY <1>5 DEF ClaimOK, AnyInv, IndexOK
  <1>7. CASE ~IsWait(c)
    BY <1>2, <1>4, <1>6, <1>7, NotWaiting, AbsStutter DEF Simulated
  <1>8. CASE IsWait(c)
    <2>1. Waits(s) = NoCall /\ Took(s) = {} /\ Waits(s)' = c /\ Took(s)' = {}
      BY <1>2, <1>6, <1>8 DEF Waits, Took, StillWaiting, Unclaimed
    <2>2. Abstract!StartWait(s)
      BY <1>4, <1>8, <2>1, AbsStartWait
    <2> QED BY <2>2 DEF Simulated, Abstract!Next
  <1> QED BY <1>7, <1>8

\* A wait reports its claim, or has timed out, or is made again.
LEMMA Returns ==
  ASSUME TypeInv, AnyInv, ListInv, NEW s \in Threads, Step(s), Return(s)
  PROVE  Simulated
  <1>1. pc[s] = "return" /\ call[s] \in Calls[s] /\ UNCHANGED <<count, private>>
        /\ signaled' = [signaled EXCEPT ![s] = -1] /\ signaled \in [Threads -> Int]
    BY CurObj DEF Return, objvars, word, TypeInv, QType
  <1>2. IsWait(call[s])
    BY <1>1 DEF AnyInv, IndexOK, InWait, WaitSteps
  <1>3. CASE Unclaimed(s) /\ Goto(s, "setup")
    <2>1. UNCHANGED signaled
      BY <1>1, <1>3 DEF Unclaimed
    <2> QED BY <1>1, <1>3, <2>1, QuietStep, Moves, MovesFully
  <1>4. CASE Unclaimed(s) /\ Finish(s)
    <2>1. UNCHANGED signaled
      BY <1>1, <1>4 DEF Unclaimed
    <2> QED BY <1>1, <1>4, <2>1, GivesUp, MovesWith DEF Finish
  <1>5. CASE ~Unclaimed(s) /\ Finish(s)
    <2>1. pc'[s] = "idle" /\ call'[s] = NoCall
      BY <1>5, MovesWith DEF Finish
    <2>2. ~BeingCommitted(s)
      <3> SUFFICES ASSUME NEW t \in Threads, pc[t] = "wa_commit", target[t] = s PROVE FALSE
        BY DEF BeingCommitted
      <3>1. InAll(s)
        BY DEF ListInv, WalkOK, Trying
      <3> QED BY <1>1, <3>1 DEF InAll, AllSteps, Trying, Checking, Within
    <2>3. Took(s) = Claimed(s) /\ Waits(s) = NoCall /\ Took(s)' = {} /\ Waits(s)' = NoCall
      BY <1>2, <1>5, <2>1, <2>2 DEF Took, Waits, StillWaiting, IsWait, NoCall
    <2>4. Claimed(s) # {}
      <3>1. Len(call[s].objs) \in Nat /\ Len(call[s].objs) > 0
        BY <1>1, CallType
      <3>2. 1 \in 1..Len(call[s].objs)
        BY <3>1
      <3> QED BY <3>2 DEF Claimed
    <2>5. SameObjects /\ OthersWait(s)
      BY <1>1, <2>1, UnitsKept, OthersKept DEF SameObjects
    <2>6. Abstract!Report(s)
      BY <2>3, <2>4, <2>5, AbsReport
    <2> QED BY <2>6 DEF Simulated, Abstract!Next
  <1> QED BY <1>3, <1>4, <1>5 DEF Return

LEMMA FreeSimulated ==
  ASSUME TypeInv, LoanInv, ListInv, AnyInv, KindInv, NEW s \in Threads, Step(s), ClaimOK(s), FastOK(s), FreeAct(s)
  PROVE  Simulated
  <1>0. pc[s] \notin {"loan", "wa_commit"} /\ pc'[s] \notin {"loan", "wa_commit"}
    BY FreeStep DEF FreeAct, Free
  <1>1. CASE Begin(s)
    BY <1>1, Begins
  <1>2. CASE Return(s)
    BY <1>2, Returns
  <1>3. CASE FastRelease(s)
    BY <1>3, FastReleases
  <1>4. CASE Die(s)
    <2>1. Unclaimed(s)
      BY <1>4 DEF Die, ClaimOK, Early, InWait, WaitSteps, AllSteps, Checking, Within, Trying
    <2>2. call'[s] = NoCall
      BY <1>4, MovesWith DEF Die
    <2> QED BY <1>0, <1>4, <2>1, <2>2, GivesUp DEF Die, objvars, word, qvars
  <1>5. CASE Setup(s)
    <2>1. Unclaimed(s)
      BY <1>5 DEF Setup, ClaimOK, Early
    <2>2. UNCHANGED <<count, private, signaled>>
      BY <1>5, <2>1 DEF Setup, objvars, word, Unclaimed, TypeInv, QType
    <2>3. call'[s] = call[s] \/ call'[s] = NoCall
      BY <1>5, MovesWith, MovesFully DEF Setup, Finish
    <2> QED BY <1>0, <2>1, <2>2, <2>3, GivesUp, QuietStep
  <1>6. CASE Walk(s) \/ SpinTake(s)
    <2>1. pc[s] \in {"walk", "spin", "spin_take"} /\ UNCHANGED signaled /\ Here(s) \in Objs
      BY <1>6, LoopingObj DEF Walk, SpinTake, qvars, Looping, TypeInv
    <2>2. PICK o \in Objs : o = Here(s)
      BY <2>1
    <2>3. CASE FastTake(s, Here(s)) /\ Type[o] = "sem"
      <3>1. FastTake(s, o)
        BY <2>2, <2>3 DEF FastTake
      <3> QED BY <2>1, <2>2, <2>3, <3>1, FastTakes
    <2>4. CASE ~(FastTake(s, Here(s)) /\ Type[o] = "sem")
      <3>1. call'[s] = call[s] /\ UNCHANGED objvars
        <4>1. CASE Walk(s)
          BY <2>2, <2>4, <4>1, Moves, MovesFully DEF Walk, Mapped
        <4>2. CASE SpinTake(s)
          <5>1. Type[o] = "sem"
            <6>1. i[s] \in 1..Len(call[s].objs) /\ pc[s] = "spin_take"
              BY <4>2, LoopingObj DEF SpinTake, TypeInv, LocalInv, LocalOK, Looping
            <6> QED BY <2>2, <6>1 DEF FastOK, Here
          <5> QED BY <2>2, <2>4, <4>2, <5>1, MovesFully DEF SpinTake, SpinNext
        <4> QED BY <1>6, <4>1, <4>2
      <3> QED BY <1>0, <2>1, <3>1, QuietStep DEF objvars, word
    <2> QED BY <2>3, <2>4
  <1>7. CASE FastReleaseDeclined(s) \/ FastWake(s) \/ SpinPeek(s) \/ Check(s) \/ LeaveSleep(s)
    <2>1. call'[s] = call[s]
      BY <1>7, MovesFully DEF FastReleaseDeclined, FastWake, SpinPeek, SpinNext, Check, LeaveSleep
    <2>2. UNCHANGED <<count, private, signaled>>
      BY <1>7 DEF FastReleaseDeclined, FastWake, SpinPeek, Check, LeaveSleep, objvars, word, qvars
    <2> QED BY <1>0, <2>1, <2>2, QuietStep
  <1> QED BY <1>1, <1>2, <1>3, <1>4, <1>5, <1>6, <1>7 DEF FreeAct, Userspace

\* The unit on loan from the object of a section is that of its thread.
LEMMA LoanMoves ==
  ASSUME TypeInv, LockInv, NEW s \in Threads, Step(s), InSection(s), NEW o \in Objs, cur[s] = o, cur'[s] = o
  PROVE  /\ OnLoan(o) = IF pc[s] = "loan" THEN 1 ELSE 0
         /\ OnLoan(o)' = IF pc'[s] = "loan" THEN 1 ELSE 0
         /\ \A p \in Objs : p # o => OnLoan(p)' = OnLoan(p)
  <1>1. \A t \in Threads : t # s => pc'[t] = pc[t] /\ cur'[t] = cur[t]
    BY StepOthers DEF OthersStay
  <1>2. \A t \in Threads : pc[t] = "loan" /\ cur[t] = o => t = s
    BY LockInvExclusion DEF SectionExclusion, InSection
  <1> QED BY <1>1, <1>2 DEF OnLoan

\* The claim of one task is the Satisfy of its wait.
LEMMA OneClaimed ==
  ASSUME TypeInv, AnyInv, ListInv, KindInv, NEW s \in Threads, Step(s), TodoOK(s), NEW u \in Threads, Unclaimed(u),
         pc[s] \in {"scan", "loan"}, pc'[s] \in {"scan", "placed"}, todo[s] # <<>>, call'[s] = call[s],
         u = Head(todo[s]).task, signaled' = [signaled EXCEPT ![u] = Head(todo[s]).index],
         NEW o \in Objs, cur[s] = o, Abstract!Signaled(o, u), Taken(u, {o})
  PROVE  Simulated
  <1>1. PICK k : k = Head(todo[s]).index
    OBVIOUS
  <1>2. EntryObj(u, k) = o /\ IsWait(call[u]) /\ call[u] \in Calls[u] /\ k \in AnyEntries(call[u])
    BY <1>1, ScannedWait
  <1>3. k \in Nat /\ k # 0 /\ k <= Len(Entries(call[u])) /\ Len(call[u].objs) \in Nat
    BY <1>2, EntryFacts
  <1>4. \A v \in Threads : call'[v] = call[v]
    BY StepOthers DEF OthersStay
  <1>5. ~BeingCommitted(u)
    BY DEF BeingCommitted, KindInv, KindOK, Unclaimed
  <1>6. \A v \in Threads : BeingCommitted(v)' <=> BeingCommitted(v)
    BY CommittedKept
  <1>7. signaled'[u] = k /\ \A v \in Threads : v # u => signaled'[v] = signaled[v]
    BY <1>1 DEF TypeInv, QType
  <1>8. OthersWait(u)
    BY <1>4, <1>6, <1>7, WaitKept DEF OthersWait
  <1>9. ~StillWaiting(u)' /\ StillWaiting(u)
    BY <1>2, <1>3, <1>5, <1>6, <1>7 DEF StillWaiting, Unclaimed
  <1>10. Waits(u)' = NoCall /\ Took(u)' = {o}
    BY <1>2, <1>3, <1>4, <1>7, <1>9 DEF Waits, Took, Claimed, EntryObj
  <1>11. Abstract!Take(u, {o})
    BY <1>8, <1>10, AbsTake
  <1>12. \/ ~IsAll(call[u]) /\ \E j \in 1..Len(call[u].objs) : o = call[u].objs[j]
         \/ call[u].alert # NoOne /\ o = call[u].alert
    <2>1. CASE k <= Len(call[u].objs)
      <3>1. k \in 1..Len(call[u].objs) /\ ~(k > Len(call[u].objs))
        BY <1>3, <2>1
      <3>2. ~IsAll(call[u])
        BY <1>2, <3>1 DEF AnyEntries
      <3> QED BY <1>2, <3>1, <3>2, EntryFacts DEF EntryObj
    <2>2. CASE ~(k <= Len(call[u].objs))
      <3>1. call[u].alert # NoOne
        BY <1>2, <1>3, <2>2 DEF Entries
      <3>2. k = Len(call[u].objs) + 1
        <4>1. Len(Entries(call[u])) = Len(call[u].objs) + 1
          BY <1>2, <3>1, CallType
        <4> QED BY <1>3, <2>2, <4>1
      <3> QED BY <1>2, <3>1, <3>2, EntryFacts DEF EntryObj
    <2> QED BY <2>1, <2>2
  <1>13. Abstract!Satisfy(u)
    BY <1>2, <1>9, <1>11, <1>12, AbsSatisfyOne
  <1> QED BY <1>13 DEF Simulated, Abstract!Next

LEMMA ScanSimulated ==
  ASSUME TypeInv, LockInv, AnyInv, ListInv, KindInv, NEW s \in Threads, Step(s), TodoOK(s), ScanOK(s), RecOK,
         SemClaim(s) \/ MutexScan(s) \/ EventScan(s)
  PROVE  Simulated
  <1>0. /\ pc[s] \in {"scan", "loan"} /\ todo[s] # <<>> /\ call'[s] = call[s] /\ cur'[s] = cur[s] /\ cur[s] \in Objs
        /\ todo[s] \in Seq(Entry)
    BY SectionLocals, SectionStep, CurObj DEF SemClaim, MutexScan, EventScan, Scanning, TypeInv, LocalInv, LocalType
  <1>o. PICK o \in Objs : cur[s] = o
    BY <1>0
  <1>u. PICK u \in Threads : u = Head(todo[s]).task
    <2>1. 1 \in 1..Len(todo[s]) /\ Head(todo[s]) = todo[s][1]
      BY <1>0
    <2> QED BY <1>0, <2>1, TaskType
  <1>s. InSection(s)
    BY <1>0 DEF InSection
  <1>l. /\ OnLoan(o) = IF pc[s] = "loan" THEN 1 ELSE 0
        /\ OnLoan(o)' = IF pc'[s] = "loan" THEN 1 ELSE 0
        /\ \A p \in Objs : p # o => OnLoan(p)' = OnLoan(p)
    BY <1>0, <1>o, <1>s, LoanMoves
  <1>t. /\ count \in [Objs -> Nat] /\ mcount \in [Objs -> Nat] /\ mowner \in [Objs -> Threads \cup {NoOne}]
        /\ mdead \in [Objs -> BOOLEAN] /\ event \in [Objs -> BOOLEAN] /\ signaled \in [Threads -> Int]
    BY DEF TypeInv, ObjType, QType
  <1>1. CASE UNCHANGED <<private, signaled>>
    <2>1. /\ pc'[s] = pc[s] /\ pc'[s] \in {"scan", "loan"} /\ UNCHANGED count
      <3>1. CASE SemClaim(s)
        <4>1. ~(Unclaimed(Head(todo[s]).task) /\ Claim(Head(todo[s])))
          <5>1. Head(todo[s]) \in Entry /\ Head(todo[s]).index \in Nat
            <6>1. 1 \in 1..Len(todo[s]) /\ Head(todo[s]) = todo[s][1]
              BY <1>0
            <6> QED BY <1>0, <6>1, TaskType
          <5> QED BY <1>1, <1>t, <1>u, <5>1 DEF Claim, Unclaimed
        <4> QED BY <3>1, <4>1, Moves DEF SemClaim, objvars, word
      <3>2. CASE MutexScan(s) \/ EventScan(s)
        BY <3>2, Moves DEF MutexScan, EventScan, Scanning, word
      <3> QED BY <3>1, <3>2
    <2>2. SameObjects
      BY <1>1, <1>l, <2>1 DEF SameObjects, Units
    <2>3. SameWaits
      BY <1>0, <1>1, <2>1, WaitsKept
    <2> QED BY <2>2, <2>3, AbsStutter DEF Simulated
  <1>2. ASSUME ~UNCHANGED <<private, signaled>>, SemClaim(s) PROVE Simulated
    <2>1. /\ Unclaimed(u) /\ signaled' = [signaled EXCEPT ![u] = Head(todo[s]).index] /\ pc'[s] = "placed" /\ pc[s] = "loan"
          /\ UNCHANGED <<count, private>>
      BY <1>u, <1>2, Moves DEF SemClaim, Claim, objvars, word
    <2>2. Type[o] = "sem"
      BY <1>o, <2>1 DEF ScanOK, Holding
    <2>3. \A p \in Objs : Units(p)' = IF p \in {o} /\ Type[p] = "sem" THEN Units(p) - 1 ELSE Units(p)
      <3>1. \A n \in Nat : n + 0 = (n + 1) - 1
        OBVIOUS
      <3> QED BY <1>l, <1>t, <2>1, <2>2, <3>1 DEF Units
    <2>4. /\ mcount' = [p \in Objs |-> IF p \in {o} /\ Type[p] = "mutex" THEN mcount[p] + 1 ELSE mcount[p]]
          /\ mowner' = [p \in Objs |-> IF p \in {o} /\ Type[p] = "mutex" THEN u ELSE mowner[p]]
          /\ mdead' = [p \in Objs |-> mdead[p] /\ ~(p \in {o} /\ Type[p] = "mutex")]
          /\ event' = [p \in Objs |-> event[p] /\ (p \in {o} /\ Type[p] = "event" => Manual[p])]
      BY <1>t, <2>1, <2>2 DEF private
    <2>5. Abstract!Signaled(o, u)
      BY <1>l, <2>1, <2>2, AbsSignaled
    <2>6. Taken(u, {o})
      BY <2>3, <2>4 DEF Taken
    <2> QED BY <1>0, <1>o, <1>u, <2>1, <2>5, <2>6, OneClaimed
  <1>3. ASSUME ~UNCHANGED <<private, signaled>>, MutexScan(s) PROVE Simulated
    <2>1. /\ Unclaimed(u) /\ signaled' = [signaled EXCEPT ![u] = Head(todo[s]).index] /\ pc'[s] = "scan" /\ pc[s] = "scan"
          /\ Type[o] = "mutex" /\ UNCHANGED <<count, event>>
          /\ mcount[o] # MaxRec /\ mowner[o] \in {NoOne, u}
          /\ mdead' = [mdead EXCEPT ![o] = FALSE]
          /\ mcount' = [mcount EXCEPT ![o] = @ + 1]
          /\ mowner' = [mowner EXCEPT ![o] = u]
      BY <1>o, <1>u, <1>3, Moves DEF MutexScan, Scanning, Claim, word, private, qvars
    <2>2. mcount[o] < MaxRec
      <3>1. mcount[o] <= MaxRec /\ mcount[o] \in Nat /\ MaxRec \in Nat
        BY <1>t, ConstAssumption DEF RecOK
      <3> QED BY <2>1, <3>1
    <2>3. \A p \in Objs : Units(p)' = IF p \in {o} /\ Type[p] = "sem" THEN Units(p) - 1 ELSE Units(p)
      BY <1>l, <2>1 DEF Units
    <2>4. /\ mcount' = [p \in Objs |-> IF p \in {o} /\ Type[p] = "mutex" THEN mcount[p] + 1 ELSE mcount[p]]
          /\ mowner' = [p \in Objs |-> IF p \in {o} /\ Type[p] = "mutex" THEN u ELSE mowner[p]]
          /\ mdead' = [p \in Objs |-> mdead[p] /\ ~(p \in {o} /\ Type[p] = "mutex")]
          /\ event' = [p \in Objs |-> event[p] /\ (p \in {o} /\ Type[p] = "event" => Manual[p])]
      BY <1>t, <2>1
    <2>5. Abstract!Signaled(o, u)
      BY <2>1, <2>2, AbsSignaled DEF IsSignaled
    <2>6. Taken(u, {o})
      BY <2>3, <2>4 DEF Taken
    <2> QED BY <1>0, <1>o, <1>u, <2>1, <2>5, <2>6, OneClaimed
  <1>4. ASSUME ~UNCHANGED <<private, signaled>>, EventScan(s) PROVE Simulated
    <2>1. /\ Unclaimed(u) /\ signaled' = [signaled EXCEPT ![u] = Head(todo[s]).index] /\ pc'[s] = "scan" /\ pc[s] = "scan"
          /\ Type[o] = "event" /\ UNCHANGED <<count, mcount, mowner, mdead>>
          /\ event[o] /\ event' = [event EXCEPT ![o] = Manual[o]]
      BY <1>o, <1>u, <1>4, Moves DEF EventScan, Scanning, Claim, word, private
    <2>3. \A p \in Objs : Units(p)' = IF p \in {o} /\ Type[p] = "sem" THEN Units(p) - 1 ELSE Units(p)
      BY <1>l, <2>1 DEF Units
    <2>4. /\ mcount' = [p \in Objs |-> IF p \in {o} /\ Type[p] = "mutex" THEN mcount[p] + 1 ELSE mcount[p]]
          /\ mowner' = [p \in Objs |-> IF p \in {o} /\ Type[p] = "mutex" THEN u ELSE mowner[p]]
          /\ mdead' = [p \in Objs |-> mdead[p] /\ ~(p \in {o} /\ Type[p] = "mutex")]
          /\ event' = [p \in Objs |-> event[p] /\ (p \in {o} /\ Type[p] = "event" => Manual[p])]
      BY <1>t, <2>1, ConstAssumption
    <2>5. Abstract!Signaled(o, u)
      BY <2>1, AbsSignaled DEF IsSignaled
    <2>6. Taken(u, {o})
      BY <2>3, <2>4 DEF Taken
    <2> QED BY <1>0, <1>o, <1>u, <2>1, <2>5, <2>6, OneClaimed
  <1> QED BY <1>1, <1>2, <1>3, <1>4

\* A unit goes on loan, or comes back: it belongs to the semaphore throughout.
LEMMA LoanSimulated ==
  ASSUME TypeInv, LockInv, NEW s \in Threads, Step(s), SemTakeHold(s) \/ SemGiveBack(s)
  PROVE  Simulated
  <1>0. /\ pc[s] \in {"scan", "loan"} /\ pc'[s] \in {"scan", "loan"} /\ call'[s] = call[s] /\ cur'[s] = cur[s]
        /\ cur[s] \in Objs /\ UNCHANGED <<private, signaled>>
    BY SectionLocals, SectionStep, CurObj, Moves DEF SemTakeHold, SemGiveBack, Scanning, qvars
  <1>o. PICK o \in Objs : cur[s] = o
    BY <1>0
  <1>l. /\ OnLoan(o) = IF pc[s] = "loan" THEN 1 ELSE 0
        /\ OnLoan(o)' = IF pc'[s] = "loan" THEN 1 ELSE 0
        /\ \A p \in Objs : p # o => OnLoan(p)' = OnLoan(p)
    BY <1>0, <1>o, LoanMoves DEF InSection
  <1>t. count \in [Objs -> Nat]
    BY DEF TypeInv, ObjType
  <1>1. SameObjects
    <2>1. CASE SemTakeHold(s) /\ count[o] = 0
      <3>1. UNCHANGED count /\ pc[s] = "scan" /\ pc'[s] = "scan"
        BY <1>o, <2>1, Moves DEF SemTakeHold, Scanning
      <3> QED BY <1>0, <1>l, <3>1 DEF SameObjects, Units
    <2>2. CASE SemTakeHold(s) /\ count[o] # 0
      <3>1. count' = [count EXCEPT ![o] = @ - 1] /\ pc[s] = "scan" /\ pc'[s] = "loan"
        BY <1>o, <2>2, Moves DEF SemTakeHold, Scanning
      <3> QED BY <1>0, <1>l, <1>t, <2>2, <3>1 DEF SameObjects, Units
    <2>3. CASE SemGiveBack(s)
      <3>1. count' = [count EXCEPT ![o] = @ + 1] /\ pc[s] = "loan" /\ pc'[s] = "scan"
        BY <1>o, <2>3, Moves DEF SemGiveBack
      <3> QED BY <1>0, <1>l, <1>t, <3>1 DEF SameObjects, Units
    <2> QED BY <2>1, <2>2, <2>3
  <1>2. SameWaits
    BY <1>0, WaitsKept
  <1> QED BY <1>1, <1>2, AbsStutter DEF Simulated

LEMMA ReleaseSimulated ==
  ASSUME TypeInv, LockInv, KindInv, NEW s \in Threads, Step(s), SemRelease(s)
  PROVE  Simulated
  <1>0. /\ pc[s] = "body" /\ stage[s] \in {"release", "wake"} /\ pc'[s] \in {"unlock", "scan", "wake_all"} /\ call'[s] = call[s]
        /\ cur'[s] = cur[s] /\ cur[s] \in Objs /\ call[s] \in Calls[s] /\ UNCHANGED <<private, signaled>>
    BY SectionLocals, SectionStep, CurObj DEF SemRelease, InBody, qvars
  <1>o. PICK o \in Objs : cur[s] = o
    BY <1>0
  <1>1. call[s].fn = "release" /\ call[s].objs[1] = o
    BY <1>0, <1>o DEF KindInv, KindOK, Wakers
  <1>2. Type[o] = "sem" /\ call[s].n \in Nat /\ Max[o] \in Nat /\ count \in [Objs -> Nat]
    BY <1>0, <1>1, CallAssumption, ConstAssumption, CallType DEF TypeInv, ObjType
  <1>3. CASE UNCHANGED count
    BY <1>0, <1>3, QuietStep
  <1>4. CASE stage[s] = "wake"
    <2>1. UNCHANGED count
      BY <1>o, <1>2, <1>4 DEF SemRelease
    <2> QED BY <1>3, <2>1
  <1>5. CASE stage[s] = "release" /\ ~UNCHANGED count
    <2>1. count[o] + call[s].n <= Max[o] /\ count' = [count EXCEPT ![o] = @ + call[s].n]
      BY <1>o, <1>2, <1>5 DEF SemRelease
    <2>2. \A p \in Objs : OnLoan(p)' = OnLoan(p)
      BY <1>0, LoanKept
    <2>3. OnLoan(o) = 0
      BY <1>0, <1>o, LoanMoves DEF InSection
    <2>4. Units(o) + call[s].n <= Max[o] /\ Units(o)' = Units(o) + call[s].n /\ \A p \in Objs : p # o => Units(p)' = Units(p)
      BY <1>2, <2>1, <2>2, <2>3 DEF Units
    <2>5. SameWaits
      BY <1>0, WaitsKept
    <2>6. Abstract!Release(o)
      BY <1>0, <1>1, <1>2, <2>4, <2>5, AbsRelease
    <2> QED BY <2>6 DEF Simulated, Abstract!Next
  <1> QED BY <1>0, <1>3, <1>4, <1>5

LEMMA PrivateSimulated ==
  ASSUME TypeInv, KindInv, AnyInv, NEW s \in Threads, Step(s),
         MutexUnlock(s) \/ MutexKill(s) \/ EventSet(s) \/ EventReset(s) \/ ScanEnd(s)
  PROVE  Simulated
  <1>0. /\ pc[s] \in {"body", "scan"} /\ pc'[s] \in {"unlock", "scan", "wake_all"} /\ call'[s] = call[s]
        /\ cur[s] \in Objs /\ call[s] \in Calls[s] /\ UNCHANGED <<count, signaled>>
    BY SectionLocals, CurObj, Moves DEF MutexUnlock, MutexKill, EventSet, EventReset, ScanEnd, InBody, qvars, word
  <1>o. PICK o \in Objs : cur[s] = o
    BY <1>0
  <1>1. SameWaits /\ \A p \in Objs : Units(p)' = Units(p)
    BY <1>0, WaitsKept, UnitsKept
  <1>2. CASE UNCHANGED private
    BY <1>0, <1>2, QuietStep
  <1>3. ASSUME MutexUnlock(s), ~UNCHANGED private PROVE Simulated
    <2>1. call[s].fn = "unlock" /\ call[s].objs[1] = o
      BY <1>o, <1>3 DEF MutexUnlock, InBody, KindInv, KindOK, Wakers
    <2>2. Type[o] = "mutex" /\ call[s].owner # NoOne
      BY <1>0, <2>1, CallAssumption
    <2>3. /\ mowner[o] = call[s].owner /\ mcount' = [mcount EXCEPT ![o] = @ - 1]
          /\ mowner' = [mowner EXCEPT ![o] = IF mcount[o] = 1 THEN NoOne ELSE @] /\ UNCHANGED <<mdead, event>>
      BY <1>o, <1>3 DEF MutexUnlock, private
    <2>4. Abstract!Unlock(o)
      BY <1>0, <1>1, <2>1, <2>2, <2>3, AbsUnlock
    <2> QED BY <2>4 DEF Simulated, Abstract!Next
  <1>4. ASSUME MutexKill(s), ~UNCHANGED private PROVE Simulated
    <2>1. call[s].fn = "kill" /\ call[s].objs[1] = o
      BY <1>o, <1>4 DEF MutexKill, InBody, KindInv, KindOK, Wakers
    <2>2. Type[o] = "mutex" /\ call[s].owner # NoOne
      BY <1>0, <2>1, CallAssumption
    <2>3. /\ mowner[o] = call[s].owner /\ mcount' = [mcount EXCEPT ![o] = 0] /\ mowner' = [mowner EXCEPT ![o] = NoOne]
          /\ mdead' = [mdead EXCEPT ![o] = TRUE] /\ UNCHANGED event
      BY <1>o, <1>4 DEF MutexKill, private
    <2>4. Abstract!Abandon(o)
      BY <1>0, <1>1, <2>1, <2>2, <2>3, AbsAbandon
    <2> QED BY <2>4 DEF Simulated, Abstract!Next
  <1>5. ASSUME EventSet(s) \/ EventReset(s) PROVE Simulated
    <2>1. call[s].fn \in {"set", "pulse", "reset"} /\ call[s].objs[1] = o
      BY <1>o, <1>5 DEF EventSet, EventReset, InBody, KindInv, KindOK, Wakers
    <2>2. Type[o] = "event"
      BY <1>0, <2>1, CallAssumption
    <2>3. \E b \in BOOLEAN : event' = [event EXCEPT ![o] = b]
      BY <1>o, <1>5 DEF EventSet, EventReset
    <2>4. UNCHANGED <<mcount, mowner, mdead>>
      BY <1>5 DEF EventSet, EventReset
    <2>5. Abstract!Set(o)
      BY <1>1, <2>2, <2>3, <2>4, AbsSet
    <2> QED BY <2>5 DEF Simulated, Abstract!Next
  <1>6. ASSUME ScanEnd(s), ~UNCHANGED private PROVE Simulated
    <2>1. stage[s] = "pulse" /\ event' = [event EXCEPT ![o] = FALSE] /\ UNCHANGED <<mcount, mowner, mdead>>
      <3>1. event \in [Objs -> BOOLEAN] /\ event' = [event EXCEPT ![o] = @ /\ stage[s] # "pulse"] /\ UNCHANGED <<mcount, mowner, mdead>>
        BY <1>o, <1>6 DEF ScanEnd, TypeInv, ObjType
      <3>2. CASE stage[s] # "pulse"
        <4>1. event' = event
          BY <3>1, <3>2
        <4> QED BY <1>6, <3>1, <4>1 DEF private
      <3>3. CASE stage[s] = "pulse"
        BY <3>1, <3>3
      <3> QED BY <3>2, <3>3
    <2>2. call[s].fn = "pulse" /\ call[s].objs[1] = o
      BY <1>o, <2>1 DEF KindInv, KindOK, Wakers
    <2>3. Type[o] = "event"
      BY <1>0, <2>2, CallAssumption
    <2>4. Abstract!Set(o)
      BY <1>1, <2>1, <2>3, AbsSet
    <2> QED BY <2>4 DEF Simulated, Abstract!Next
  <1> QED BY <1>2, <1>3, <1>4, <1>5, <1>6

LEMMA SectionSimulated ==
  ASSUME TypeInv, LockInv, AnyInv, ListInv, KindInv, RefInv, NEW s \in Threads, Step(s), SectionAct(s)
  PROVE  Simulated
  <1>1. CASE Queue(s) \/ Unqueue(s) \/ CheckObj(s) \/ SemHoldDone(s)
    <2>1. pc[s] \notin {"loan", "wa_commit"} /\ pc'[s] \notin {"loan", "wa_commit"}
      BY <1>1, Moves DEF Queue, Unqueue, CheckObj, SemHoldDone, InBody
    <2>2. call'[s] = call[s]
      BY SectionLocals DEF SectionAct
    <2>3. UNCHANGED <<count, private, signaled>>
      BY <1>1 DEF Queue, Unqueue, CheckObj, SemHoldDone, objvars, word, qvars
    <2> QED BY <2>1, <2>2, <2>3, QuietStep
  <1> QED BY <1>1, ScanSimulated, LoanSimulated, ReleaseSimulated, PrivateSimulated DEF SectionAct, RefInv

LEMMA OnlyCommitter ==
  ASSUME LockInv, NEW s \in Threads, NEW t \in Threads, pc[s] \in Trying, pc[t] \in Trying
  PROVE  s = t
  BY DEF LockInv, SectionOK, UnderAll

\* The claim of a wait-all is not yet its Satisfy, ...
LEMMA TrySimulated ==
  ASSUME TypeInv, ListInv, AnyInv, NEW s \in Threads, Step(s), WakeAllTry(s)
  PROVE  Simulated
  <1>0. pc[s] = "wa_lock" /\ pc'[s] \in {"wa_commit", "wa_unlock"} /\ call'[s] = call[s] /\ target'[s] = target[s]
        /\ UNCHANGED <<count, private>> /\ target[s] \in Threads
    BY Moves, MovesFully DEF WakeAllTry, objvars, word, TypeInv, LocalInv, LocalOK, Trying
  <1>1. CASE UNCHANGED signaled /\ pc'[s] = "wa_unlock"
    BY <1>0, <1>1, QuietStep
  <1>2. CASE pc'[s] = "wa_commit"
    <2>1. PICK u \in Threads : u = target[s]
      BY <1>0
    <2>2. Unclaimed(u) /\ signaled' = [signaled EXCEPT ![u] = 0] /\ signaled \in [Threads -> Int]
      BY <1>2, <2>1, Moves DEF WakeAllTry, TypeInv, QType
    <2>3. \A t \in Threads : call'[t] = call[t] /\ (t # s => pc'[t] = pc[t] /\ target'[t] = target[t])
      BY <1>0, StepOthers DEF OthersStay
    <2>4. IsWait(call[u])
      BY <1>0, <2>1 DEF ListInv, WalkOK, Trying, InAll, IsAll, IsWait
    <2>5. BeingCommitted(u)'
      BY <1>0, <1>2, <2>1 DEF BeingCommitted
    <2>6. Waits(u)' = Waits(u) /\ Took(u)' = Took(u)
      BY <2>2, <2>3, <2>4, <2>5 DEF Waits, Took, StillWaiting
    <2>7. ASSUME NEW v \in Threads, v # u PROVE Waits(v)' = Waits(v) /\ Took(v)' = Took(v)
      <3>1. BeingCommitted(v)' <=> BeingCommitted(v)
        BY <1>0, <2>1, <2>3, <2>7 DEF BeingCommitted
      <3>2. signaled'[v] = signaled[v]
        BY <2>2, <2>7
      <3> QED BY <2>3, <3>1, <3>2, WaitKept
    <2>8. SameObjects
      BY <1>0, UnitsKept DEF SameObjects
    <2> QED BY <2>6, <2>7, <2>8, AbsStutter DEF SameWaits, Simulated
  <1> QED BY <1>0, <1>1, <1>2, Moves DEF WakeAllTry

\* ... the commit is, and takes all its objects at once.
LEMMA CommitSimulated ==
  ASSUME TypeInv, LockInv, ListInv, KindInv, WaitAllCommits, NEW s \in Threads, Step(s), WakeAllCommit(s)
  PROVE  Simulated
  <1>0. /\ pc[s] = "wa_commit" /\ pc'[s] = "wa_unlock" /\ call'[s] = call[s] /\ target[s] \in Threads /\ UNCHANGED signaled
    BY Moves, MovesFully DEF WakeAllCommit, TypeInv, LocalInv, LocalOK, Trying
  <1>1. PICK u \in Threads : u = target[s]
    BY <1>0
  <1>2. IsAll(call[u]) /\ pc[u] \notin {"idle", "dead"}
    BY <1>0, <1>1 DEF ListInv, WalkOK, Trying, InAll, AllSteps, Checking, Within
  <1>3. call[u] \in Calls[u] /\ IsWait(call[u])
    BY <1>2, CurObj DEF IsAll, IsWait
  <1>4. PICK S : S = TargetSet(s)
    OBVIOUS
  <1>5. S = {call[u].objs[k] : k \in 1..Len(call[u].objs)} /\ S \in SUBSET Objs
    BY <1>1, <1>3, <1>4, CallType DEF TargetSet, TargetObjs
  <1>6. \A t \in Threads : call'[t] = call[t] /\ (t # s => pc'[t] = pc[t] /\ target'[t] = target[t])
    BY <1>0, StepOthers DEF OthersStay
  <1>7. \A t \in Threads : t # s => pc[t] # "wa_commit"
    BY <1>0, OnlyCommitter DEF Trying
  <1>8. BeingCommitted(u) /\ \A v \in Threads : ~BeingCommitted(v)' /\ (v # u => ~BeingCommitted(v))
    BY <1>0, <1>1, <1>6, <1>7 DEF BeingCommitted
  <1>9. signaled[u] = 0 /\ signaled'[u] = 0
    BY <1>0, <1>1 DEF KindInv, KindOK
  <1>10. StillWaiting(u) /\ ~StillWaiting(u)'
    BY <1>3, <1>8, <1>9 DEF StillWaiting, Unclaimed
  <1>11. Waits(u)' = NoCall /\ Took(u)' = S
    BY <1>3, <1>5, <1>6, <1>9, <1>10 DEF Waits, Took, Claimed
  <1>12. OthersWait(u)
    BY <1>0, <1>6, <1>8, WaitKept DEF OthersWait
  <1>13. \A o \in S : IsSignaled(o, u)
    BY <1>0, <1>1, <1>4 DEF WaitAllCommits
  <1>14. \A o \in S : Abstract!Signaled(o, u)
    BY <1>5, <1>13, AbsSignaled
  <1>t. /\ count \in [Objs -> Nat] /\ mcount \in [Objs -> Nat] /\ mowner \in [Objs -> Threads \cup {NoOne}]
        /\ mdead \in [Objs -> BOOLEAN] /\ event \in [Objs -> BOOLEAN]
    BY DEF TypeInv, ObjType
  <1>15. \A o \in Objs : Units(o)' = IF o \in S /\ Type[o] = "sem" THEN Units(o) - 1 ELSE Units(o)
    <2> SUFFICES ASSUME NEW o \in Objs PROVE Units(o)' = IF o \in S /\ Type[o] = "sem" THEN Units(o) - 1 ELSE Units(o)
      OBVIOUS
    <2>1. OnLoan(o)' = OnLoan(o) /\ OnLoan(o) \in {0, 1}
      BY <1>0, LoanKept, OnLoanValue
    <2>2. o \in S /\ Type[o] = "sem" => count[o] > 0
      BY <1>13 DEF IsSignaled
    <2>3. count'[o] = IF o \in S /\ Type[o] = "sem" THEN count[o] - 1 ELSE count[o]
      BY <1>4, <2>2 DEF WakeAllCommit
    <2> QED BY <1>t, <2>1, <2>3 DEF Units
  <1>16. /\ mcount' = [o \in Objs |-> IF o \in S /\ Type[o] = "mutex" THEN mcount[o] + 1 ELSE mcount[o]]
         /\ mowner' = [o \in Objs |-> IF o \in S /\ Type[o] = "mutex" THEN u ELSE mowner[o]]
    BY <1>1, <1>4 DEF WakeAllCommit
  <1>17. mdead' = [o \in Objs |-> mdead[o] /\ ~(o \in S /\ Type[o] = "mutex")]
    BY <1>4 DEF WakeAllCommit
  <1>18. event' = [o \in Objs |-> event[o] /\ (o \in S /\ Type[o] = "event" => Manual[o])]
    BY <1>4 DEF WakeAllCommit
  <1>19. Taken(u, S)
    BY <1>15, <1>16, <1>17, <1>18 DEF Taken
  <1>20. Abstract!Take(u, S)
    BY <1>5, <1>11, <1>12, <1>14, <1>19, AbsTake
  <1>21. Abstract!Satisfy(u)
    BY <1>2, <1>3, <1>5, <1>10, <1>20, AbsSatisfyAll
  <1> QED BY <1>21 DEF Simulated, Abstract!Next

\* Locking, queueing and unqueueing are nothing to SyncObjects.
LEMMA LockingSimulated ==
  ASSUME TypeInv, AnyInv, NEW s \in Threads, Step(s), LockingAct(s)
  PROVE  Simulated
  <1>0. UNCHANGED <<count, private, signaled>>
    BY DEF LockingAct, Lock, LockMutex, DevLock, Unlock, objvars, word, qvars
  <1>1. pc[s] \notin {"loan", "wa_commit"} /\ pc'[s] \notin {"loan", "wa_commit"}
    BY LockingMoves
  <1>2. CASE call'[s] = call[s]
    BY <1>0, <1>1, <1>2, QuietStep
  <1>3. CASE pc[s] = "unlock" /\ stage[s] \notin {"queue", "check", "unqueue"}
    <2>1. ~IsWait(call[s])
      BY <1>3 DEF AnyInv, IndexOK, InWait, WaitSteps, AllSteps, Checking, Within, Trying, Loops
    <2>2. call'[s] = NoCall
      <3>1. Unlock(s)
        BY <1>3 DEF LockingAct, Lock, LockMutex, DevLock
      <3> QED BY <1>3, <3>1, MovesWith DEF Unlock, AfterUnlock, Finish
    <2>3. SameWaits
      BY <1>0, <1>1, <2>1, <2>2, OthersKept, NotWaiting DEF IsWait, NoCall
    <2>4. SameObjects
      BY <1>0, <1>1, UnitsKept DEF SameObjects
    <2> QED BY <2>3, <2>4, AbsStutter DEF Simulated
  <1> QED BY <1>2, <1>3, LockingMoves

LEMMA QuietSimulated ==
  ASSUME TypeInv, NEW s \in Threads, Step(s), WakeAllNext(s) \/ WakeAllLock(s) \/ WakeAllUnlock(s) \/ AllAct(s)
  PROVE  Simulated
  <1>1. UNCHANGED <<count, private, signaled>>
    BY DEF WakeAllNext, WakeAllLock, WakeAllUnlock, AllAct, AllMutex, AllQueue, AllFlag, AllAdd, AllQueued, AllUnqueue,
         AllUnhint, AllClear, AllUnqueued, objvars, word, qvars
  <1>2. CASE WakeAllNext(s)
    <2>1. pc[s] = "wake_all" /\ pc'[s] \in {"scan", "wa_lock"}
      BY <1>2, WakeAllNextMoves DEF WakeAllNext
    <2>2. call'[s] = call[s]
      BY <1>2, MovesFully DEF WakeAllNext
    <2> QED BY <1>1, <2>1, <2>2, QuietStep
  <1>3. CASE WakeAllLock(s) \/ WakeAllUnlock(s)
    <2>1. pc[s] \in {"wa_lock", "wa_unlock"} /\ pc'[s] \in {"wa_lock", "check", "wake_all"} /\ call'[s] = call[s]
      BY <1>3, Moves, MovesFully DEF WakeAllLock, WakeAllUnlock
    <2> QED BY <1>1, <2>1, QuietStep
  <1>4. CASE AllAct(s)
    <2>1. pc[s] \notin {"loan", "wa_commit"} /\ pc'[s] \notin {"loan", "wa_commit"} /\ call'[s] = call[s]
      BY <1>4, AllMoves DEF AllSteps
    <2> QED BY <1>1, <2>1, QuietStep
  <1> QED BY <1>2, <1>3, <1>4

LEMMA StepSimulated ==
  ASSUME TypeInv, LockInv, LoanInv, ListInv, AnyInv, KindInv, WaitAllCommits, RefInv, NEW s \in Threads, Step(s)
  PROVE  Simulated
  <1>1. CASE FreeAct(s)
    BY <1>1, FreeSimulated DEF RefInv
  <1>2. CASE SectionAct(s)
    BY <1>2, SectionSimulated
  <1>3. CASE LockingAct(s)
    BY <1>3, LockingSimulated
  <1>4. CASE WakeAllNext(s) \/ AllAct(s)
    BY <1>4, QuietSimulated
  <1>5. CASE TryAct(s)
    BY <1>5, QuietSimulated, TrySimulated, CommitSimulated DEF TryAct
  <1> QED BY <1>1, <1>2, <1>3, <1>4, <1>5, StepKinds

LEMMA InitSimulated == Init => Abstract!Init
  <1> SUFFICES ASSUME Init PROVE Abstract!Init
    OBVIOUS
  <1>1. \A o \in Objs : OnLoan(o) = 0
    BY DEF Init, OnLoan
  <1>2. \A o \in Objs : Count0[o] \in Nat
    BY ConstAssumption
  <1>3. [o \in Objs |-> count[o] + OnLoan(o)] = [o \in Objs |-> IF Type[o] = "sem" THEN Count0[o] ELSE 0]
    BY <1>1, <1>2 DEF Init
  <1>4. \A u \in Threads : ~IsWait(call[u])
    BY DEF Init, IsWait, NoCall
  <1>5. [u \in Threads |-> IF StillWaiting(u) THEN call[u] ELSE NoCall] = [t \in Threads |-> NoCall]
    BY <1>4 DEF StillWaiting
  <1>6. [u \in Threads |-> IF IsWait(call[u]) /\ ~StillWaiting(u) THEN Claimed(u) ELSE {}] = [t \in Threads |-> {}]
    BY <1>4
  <1> QED BY <1>3, <1>5, <1>6 DEF Abstract!Init, Init

LEMMA UnchangedSimulated ==
  ASSUME UNCHANGED vars
  PROVE  Simulated
  <1>1. SameObjects
    BY DEF vars, word, private, locals, SameObjects, Units, OnLoan
  <1>2. ASSUME NEW u \in Threads PROVE BeingCommitted(u)' <=> BeingCommitted(u)
    BY DEF vars, locals, BeingCommitted
  <1>3. SameWaits
    BY <1>2, WaitKept DEF vars, locals, qvars, SameWaits
  <1> QED BY <1>1, <1>3, AbsStutter DEF Simulated

\* The driver and its client implement atomic synchronization objects: with
\* the units on loan counted, the words, queues and locks forgotten, and a
\* wait-all satisfied when try_wake_all commits it, every step of every
\* thread is one atomic operation of SyncObjects or leaves it as it is.  So
\* no unit is lost, made up or handed out twice, no wait is satisfied by an
\* object that is not signaled, each reports what it took, and a wait-all
\* takes its objects together, for any number of threads and objects.
THEOREM DriverImplements == Spec => ImplementsSyncObjects
  <1> DEFINE Inv == TypeInv /\ LockInv /\ LoanInv /\ ListInv /\ AnyInv /\ KindInv /\ WaitAllCommits
  <1>1. Spec => []Inv
    BY AlwaysDevInv, AlwaysLoanInv, AlwaysAnyInv, CommitsSucceed, PTL
  <1>2. Init => RefInv
    BY InitRefInv
  <1>3. Inv /\ Inv' /\ RefInv /\ [Next]_vars => RefInv'
    BY NextRefInv
  <1>4. Spec => []RefInv
    <2> HIDE DEF Inv
    <2> QED BY <1>1, <1>2, <1>3, PTL DEF Spec
  <1>5. Inv /\ RefInv /\ [Next]_vars => [Abstract!Next]_(Abstract!vars)
    <2> SUFFICES ASSUME Inv, RefInv, [Next]_vars PROVE Simulated
      BY DEF Simulated
    <2>1. CASE Next
      <3>1. PICK s \in Threads : Step(s)
        BY <2>1, NextStep
      <3> QED BY <3>1, StepSimulated
    <2>2. CASE UNCHANGED vars
      BY <2>2, UnchangedSimulated
    <2> QED BY <2>1, <2>2
  <1>6. Init => Abstract!Init
    BY InitSimulated
  <1> HIDE DEF Inv
  <1> QED BY <1>1, <1>4, <1>5, <1>6, PTL DEF Spec, ImplementsSyncObjects, Abstract!Spec
=============================================================================
