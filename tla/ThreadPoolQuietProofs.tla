----------------------- MODULE ThreadPoolQuietProofs ------------------------
(***************************************************************************)
(* What the release of a cleanup group has waited for stays quiet          *)
(* (MembersStayQuiet), for any number of clients, workers, objects and     *)
(* calls: no callback of a released member is pending or runs any more.    *)
(* The argument stands on the invariant of ThreadPoolProofs, PoolInv.      *)
(***************************************************************************)
EXTENDS ThreadPoolProofs

-----------------------------------------------------------------------------
(* The inductive invariant, beside PoolInv.                                *)

\* o is allocated, and not yet all set up by t.
InAlloc(t, o) == Allocates(t) /\ call[t].obj = o /\ pc[t] \in {"timer_lock", "submit", "init"}
Settled(o) == Born(o) /\ \A t \in Clients : ~InAlloc(t, o)
\* Nobody posts o any more, and its timer is off.
Shut(o) == Settled(o) /\ o \in closed \cup Simples /\ ~timer[o].initialized
\* ... and no callback is left.
Still(o) == Shut(o) /\ obj[o].pending = 0 /\ \A w \in Workers : pc[w] = "callback" => cur[w] # o

\* What the program does not do with an object that it released.
CallersOK ==
    /\ \A t \in Clients : call[t].fn \in {"post", "set"} => call[t].obj \notin closed
    /\ \A t \in Clients : call[t].fn = "release" => call[t].obj \in closed
    /\ \A t, u \in Clients : call[t].fn = "members" /\ call[u].fn = "alloc" => call[u].obj \notin Grouped
\* An object that t allocates is its own until the call returns.
OwnOK(t) ==
    call[t].fn = "alloc" /\ pc[t] # "pool_lock" =>
        /\ obj[cur[t]].state = "live" /\ obj[cur[t]].pending = 0 /\ ~timer[cur[t]].pending /\ ~timer[cur[t]].due
        /\ \A u \in Threads \ {t} : cur[u] # cur[t]
TimerOK(o) ==
    /\ timer[o].initialized => o \in Timers
    /\ timer[o].pending => timer[o].initialized
    /\ timer[o].due => o \in Timers /\ timer[o].initialized /\ timerCs = TimerThread
    /\ o \in Timers /\ Born(o) /\ o \notin closed /\ ~timer[o].initialized =>
          \E t \in Clients : pc[t] = "timer_lock" /\ cur[t] = o
TimersOK ==
    /\ \A o \in Objs : TimerOK(o)
    /\ pc[TimerThread] = "submit" => timer[cur[TimerThread]].initialized
\* The list of the group: an object leaves it before it is freed.
MemberOK(o) ==
    /\ o \in Grouped /\ Settled(o)
    /\ o \notin Simples => /\ obj[o].state = "live"
                           /\ \A t \in Threads : cur[t] = o => pc[t] \notin {"unlock_pool", "free"}
    /\ (\E t \in Clients : call[t].fn = "members") => o \in closed \cup Simples
ListOK ==
    /\ Distinct(group.members)
    /\ \A o \in Objs : Among(o, group.members) => MemberOK(o)
    /\ groupCs = NoOne => \A o \in Objs : Among(o, group.members) <=> obj[o].member
\* The walk over the list: the objects it has passed are shut.
WalkOK(t) ==
    Walking(t) =>
        /\ Distinct(todo[t])
        /\ \A o \in Objs : Among(o, todo[t]) <=> obj[o].member
        /\ \A o \in Objs : obj[o].member => Among(o, group.members)
        /\ \A o \in Objs : Among(o, group.members) =>
              Among(o, todo[t]) \/ ~timer[o].initialized \/ (pc[t] = "walk_timer" /\ cur[t] = o)
        /\ pc[t] = "walk_timer" => cur[t] \in closed
\* ... and so are those that are left to cancel and to wait for.
LeaveOK(t) ==
    call[t].fn = "members" /\ ~Walking(t) =>
        /\ \A k \in 1..Len(todo[t]) : Shut(todo[t][k].obj)
        /\ pc[t] \in {"cancel", "wait", "sleep", "done"} => Shut(cur[t])
        /\ pc[t] = "done" => Still(cur[t])
QuietInv ==
    /\ CallersOK /\ (\A t \in Clients : OwnOK(t)) /\ TimersOK
    /\ ListOK /\ (\A t \in Clients : WalkOK(t) /\ LeaveOK(t))
    /\ \A o \in quiet : Still(o)

-----------------------------------------------------------------------------
(* What a step keeps of it.                                                *)

Keeps(t) ==
    /\ Moved(t) /\ closed \subseteq closed'
    /\ \A o \in Objs : Born(o) => Born(o)'
    /\ t \in Clients => \A o \in Objs : InAlloc(t, o)' => InAlloc(t, o) \/ ~Born(o)
    /\ \A o \in Objs : timer'[o].initialized => timer[o].initialized \/ ~Settled(o)
StillKept(t) ==
    /\ \A o \in Objs : Still(o) => obj'[o].pending = 0
    /\ t \in Workers /\ pc'[t] = "callback" =>
          (pc[t] = "callback" /\ cur'[t] = cur[t]) \/ cur'[t] \notin Objs \/ obj[cur'[t]].pending # 0

LEMMA OtherClient ==
  ASSUME NEW t \in Threads, Moved(t), NEW u \in Clients, u # t
  PROVE  /\ cur'[u] = cur[u] /\ call'[u] = call[u] /\ todo'[u] = todo[u]
         /\ groupCs' = u <=> groupCs = u
         /\ pc'[u] = pc[u] \/ (pc[u] = "sleep" /\ pc'[u] = "wait")
  BY Kinds DEF Moved, Drift

LEMMA KeepsShut ==
  ASSUME NEW t \in Threads, Keeps(t), NEW o \in Objs
  PROVE  (Settled(o) => Settled(o)') /\ (Shut(o) => Shut(o)')
  <1>1. ASSUME Settled(o), NEW u \in Clients, InAlloc(u, o)' PROVE FALSE
    <2>1. CASE u = t
      BY <1>1, <2>1 DEF Keeps, Settled
    <2>2. CASE u # t
      <3>1. call'[u] = call[u] /\ (pc'[u] = pc[u] \/ pc'[u] = "wait")
        BY <2>2, OtherClient DEF Keeps
      <3>2. InAlloc(u, o)
        BY <1>1, <3>1 DEF InAlloc, Allocates
      <3> QED
        BY <1>1, <3>2 DEF Settled
    <2> QED
      BY <2>1, <2>2
  <1>2. Settled(o) => Settled(o)'
    BY <1>1 DEF Keeps, Settled
  <1> QED
    BY <1>2 DEF Keeps, Shut

LEMMA KeepsStill ==
  ASSUME NEW t \in Threads, Keeps(t), StillKept(t), NEW o \in Objs, Still(o)
  PROVE  Still(o)'
  <1>1. Shut(o)' /\ obj'[o].pending = 0
    BY KeepsShut DEF Still, StillKept
  <1>2. ASSUME NEW w \in Workers, pc'[w] = "callback", cur'[w] = o PROVE FALSE
    <2>1. CASE w = t
      BY <1>2, <2>1 DEF StillKept, Still
    <2>2. CASE w # t
      <3>1. Drift(w)
        BY <2>2, Kinds DEF Keeps, Moved
      <3> QED
        BY <1>2, <3>1, Kinds DEF Drift, Still
    <2> QED
      BY <2>1, <2>2
  <1> QED
    BY <1>1, <1>2 DEF Still

\* The lists of the group, when they stay.
Lists(t) ==
    /\ group'.members = group.members /\ (groupCs' = NoOne => groupCs = NoOne)
    /\ \A o \in Objs : obj'[o].member = obj[o].member
Gone(t, o) == pc[t] \in {"unlock_pool", "free"} /\ cur[t] = o
GroupCalls == \A u \in Clients : call'[u].fn = "members" => \E v \in Clients : call[v].fn = "members"
ListKept(t) ==
    /\ \A o \in Objs : Among(o, group.members) =>
          /\ obj'[o].state = obj[o].state \/ o \in Simples
          /\ Gone(t, o)' => Gone(t, o)
    /\ GroupCalls

LEMMA MemberKept ==
  ASSUME NEW t \in Threads, Keeps(t), NEW o \in Objs, MemberOK(o), GroupCalls \/ o \in closed' \cup Simples,
         obj'[o].state = obj[o].state \/ o \in Simples, Gone(t, o)' => Gone(t, o)
  PROVE  MemberOK(o)'
  <1>1. Settled(o)' /\ o \in Grouped
    BY KeepsShut DEF MemberOK
  <1>2. ASSUME o \notin Simples, NEW u \in Threads, cur'[u] = o, pc'[u] \in {"unlock_pool", "free"} PROVE FALSE
    <2>1. CASE u = t
      BY <1>2, <2>1 DEF Gone, MemberOK
    <2>2. CASE u # t
      <3>1. cur'[u] = cur[u] /\ pc'[u] = pc[u]
        BY <1>2, <2>2 DEF Keeps, Moved, Drift
      <3> QED
        BY <1>2, <3>1 DEF MemberOK
    <2> QED
      BY <2>1, <2>2
  <1>3. o \notin Simples => obj'[o].state = "live"
    BY DEF MemberOK
  <1>4. (\E u \in Clients : call'[u].fn = "members") => o \in closed' \cup Simples
    BY DEF GroupCalls, MemberOK, Keeps
  <1> QED
    BY <1>1, <1>2, <1>3, <1>4 DEF MemberOK

LEMMA ListStep ==
  ASSUME ListOK, NEW t \in Threads, Keeps(t), Lists(t), ListKept(t)
  PROVE  ListOK'
  <1>1. ASSUME NEW o \in Objs, Among(o, group.members)' PROVE MemberOK(o)'
    <2>1. Among(o, group.members) /\ MemberOK(o)
      BY <1>1 DEF ListOK, Lists, Among
    <2> QED
      BY <2>1, MemberKept DEF ListKept
  <1>2. Distinct(group.members)'
    BY DEF ListOK, Lists, Distinct
  <1>3. ASSUME groupCs' = NoOne, NEW o \in Objs PROVE Among(o, group.members)' <=> obj'[o].member
    BY <1>3 DEF ListOK, Lists, Among
  <1> QED
    BY <1>1, <1>2, <1>3 DEF ListOK

\* The walk of another client, and what it has left to do.
LEMMA OtherWalk ==
  ASSUME ListOK, NEW t \in Threads, Keeps(t), Lists(t), NEW u \in Clients, u # t, WalkOK(u)
  PROVE  WalkOK(u)'
  <1> SUFFICES ASSUME Walking(u)' PROVE WalkOK(u)'
    BY DEF WalkOK
  <1>1. /\ cur'[u] = cur[u] /\ todo'[u] = todo[u] /\ pc'[u] = pc[u] /\ Walking(u)
        /\ group'.members = group.members /\ \A o \in Objs : obj'[o].member = obj[o].member
    BY OtherClient DEF Keeps, Walking, Lists
  <1>2. ASSUME NEW o \in Objs, Among(o, group.members)'
        PROVE  Among(o, todo[u])' \/ ~timer'[o].initialized \/ (pc'[u] = "walk_timer" /\ cur'[u] = o)
    <2>1. Among(o, group.members) /\ (Among(o, todo[u])' <=> Among(o, todo[u]))
      BY <1>1, <1>2 DEF Among
    <2>2. Settled(o)
      BY <2>1 DEF ListOK, MemberOK
    <2>3. Among(o, todo[u]) \/ ~timer[o].initialized \/ (pc[u] = "walk_timer" /\ cur[u] = o)
      BY <1>1, <2>1 DEF WalkOK
    <2> QED
      BY <1>1, <2>1, <2>2, <2>3 DEF Keeps
  <1>3. pc'[u] = "walk_timer" => cur'[u] \in closed'
    BY <1>1 DEF WalkOK, Keeps
  <1>4. Distinct(todo[u])'
    BY <1>1 DEF WalkOK, Distinct
  <1>5. \A o \in Objs : (Among(o, todo[u])' <=> obj'[o].member) /\ (obj'[o].member => Among(o, group.members)')
    BY <1>1 DEF WalkOK, Among
  <1> QED
    BY <1>2, <1>3, <1>4, <1>5 DEF WalkOK

LEMMA StepsShut ==
  ASSUME ThreadsInv, NEW u \in Clients, ~Walking(u), call[u].fn = "members"
  PROVE  /\ \A k \in 1..Len(todo[u]) : todo[u][k].obj \in Objs
         /\ pc[u] \in {"cancel", "wait", "sleep", "done"} => cur[u] \in Objs
  BY DEF ThreadsInv, WorkOK, Steps

LEMMA OtherLeave ==
  ASSUME ThreadsInv, NEW t \in Threads, Keeps(t), StillKept(t), NEW u \in Clients, u # t, LeaveOK(u)
  PROVE  LeaveOK(u)'
  <1> SUFFICES ASSUME call'[u].fn = "members", ~Walking(u)' PROVE LeaveOK(u)'
    BY DEF LeaveOK
  <1>1. /\ cur'[u] = cur[u] /\ todo'[u] = todo[u] /\ call[u].fn = "members" /\ ~Walking(u)
        /\ pc'[u] = pc[u] \/ (pc[u] = "sleep" /\ pc'[u] = "wait")
    BY OtherClient DEF Keeps, Walking
  <1>2. ASSUME NEW k \in 1..Len(todo'[u]) PROVE Shut(todo[u][k].obj)'
    <2>1. PICK o \in Objs : o = todo[u][k].obj /\ o = todo'[u][k].obj
      BY <1>1, <1>2, StepsShut
    <2>2. Shut(o)
      BY <1>1, <1>2, <2>1 DEF LeaveOK
    <2>3. Shut(o)'
      BY <2>2, KeepsShut
    <2> QED
      BY <2>1, <2>3
  <1>3. ASSUME pc'[u] \in {"cancel", "wait", "sleep", "done"}
        PROVE  Shut(cur[u])' /\ (pc'[u] = "done" => Still(cur[u])')
    <2>1. PICK o \in Objs : o = cur[u] /\ o = cur'[u]
      BY <1>1, <1>3, StepsShut
    <2>2. Shut(o) /\ (pc'[u] = "done" => Still(o))
      BY <1>1, <1>3, <2>1 DEF LeaveOK
    <2>3. Shut(o)' /\ (pc'[u] = "done" => Still(o)')
      BY <2>2, KeepsShut, KeepsStill
    <2> QED
      BY <2>1, <2>3
  <1> QED
    BY <1>2, <1>3 DEF LeaveOK

\* An object that is being allocated.
Owns(u) == call[u].fn = "alloc" /\ pc[u] # "pool_lock"
OwnKept(t) ==
    /\ \A o \in Objs : o # cur[t] /\ obj[o].pending = 0 => obj'[o].pending = 0
    /\ \A o \in Objs : o # cur[t] /\ Born(o) => obj'[o].state = obj[o].state
    /\ \A o \in Objs : o # cur[t] /\ (timer'[o].pending \/ timer'[o].due) => timer[o].pending \/ timer[o].due
    /\ \/ cur'[t] = cur[t] \/ cur'[t] \notin Objs
       \/ Settled(cur'[t]) \/ ~Born(cur'[t]) \/ obj[cur'[t]].pending # 0 \/ timer[cur'[t]].due

LEMMA OwnsAlloc ==
  ASSUME ThreadsInv, NEW u \in Clients, Owns(u), TypesInv
  PROVE  cur[u] \in Objs /\ cur[u] = call[u].obj /\ InAlloc(u, cur[u]) /\ ~Settled(cur[u])
  <1>1. PlaceOK(u) /\ WorkOK(u) /\ call[u] \in Calls
    BY DEF ThreadsInv, TypesInv, Owns, NoCall
  <1>2. pc[u] \in {"timer_lock", "init"} /\ cur[u] = call[u].obj
    BY <1>1 DEF Owns, PlaceOK, WorkOK
  <1>3. call[u].obj \in Objs
    BY <1>1 DEF Owns, Calls
  <1>4. InAlloc(u, cur[u])
    BY <1>2 DEF InAlloc, Allocates, Owns
  <1> QED
    BY <1>2, <1>3, <1>4 DEF Settled

LEMMA OwnStep ==
  ASSUME TypesInv, ThreadsInv, \A u \in Clients : OwnOK(u), NEW t \in Threads, Moved(t), OwnKept(t),
         t \in Clients => OwnOK(t)'
  PROVE  \A u \in Clients : OwnOK(u)'
  <1> SUFFICES ASSUME NEW u \in Clients, u # t, Owns(u)' PROVE OwnOK(u)'
    BY DEF OwnOK, Owns
  <1>1. cur'[u] = cur[u] /\ call'[u] = call[u] /\ Owns(u)
    BY OtherClient DEF Owns
  <1>2. PICK o \in Objs : o = cur[u] /\ ~Settled(o)
    BY <1>1, OwnsAlloc
  <1>3. /\ obj[o].state = "live" /\ obj[o].pending = 0 /\ ~timer[o].pending /\ ~timer[o].due /\ Born(o)
        /\ \A v \in Threads \ {u} : cur[v] # o
    BY <1>1, <1>2 DEF OwnOK, Owns, Born
  <1>4. obj'[o].state = "live" /\ obj'[o].pending = 0 /\ ~timer'[o].pending /\ ~timer'[o].due
    BY <1>3 DEF OwnKept
  <1>5. ASSUME NEW v \in Threads \ {u} PROVE cur'[v] # o
    <2>1. CASE v = t
      BY <1>2, <1>3, <2>1 DEF OwnKept
    <2>2. CASE v # t
      BY <1>3, <2>2 DEF Moved, Drift
    <2> QED
      BY <2>1, <2>2
  <1> QED
    BY <1>1, <1>2, <1>4, <1>5 DEF OwnOK

LEMMA CallersStep ==
  ASSUME CallersOK, CallsGo, closed' = closed
  PROVE  CallersOK'
  <1>1. ASSUME NEW u \in Clients
        PROVE  call'[u] = call[u] \/ call'[u].fn = "none"
    BY DEF CallsGo, NoCall
  <1>2. \A u \in Clients : call'[u].fn # "none" => call'[u] = call[u]
    BY <1>1
  <1>3. \A u \in Clients : call'[u].fn \in {"post", "set"} => call'[u].obj \notin closed'
    BY <1>2 DEF CallersOK
  <1>4. \A u \in Clients : call'[u].fn = "release" => call'[u].obj \in closed'
    BY <1>2 DEF CallersOK
  <1>5. \A u, v \in Clients : call'[u].fn = "members" /\ call'[v].fn = "alloc" => call'[v].obj \notin Grouped
    BY <1>2 DEF CallersOK
  <1> QED
    BY <1>3, <1>4, <1>5, Zenon DEF CallersOK

LEMMA TimersStep ==
  ASSUME TimersOK, NEW t \in Threads, t # TimerThread, Moved(t), timer' = timer, timerCs' = timerCs,
         closed \subseteq closed', \A o \in Objs : Born(o)' => Born(o), pc[t] # "timer_lock"
  PROVE  TimersOK'
  <1>1. ASSUME NEW o \in Objs PROVE TimerOK(o)'
    <2>1. TimerOK(o)
      BY DEF TimersOK
    <2>2. ASSUME o \in Timers, Born(o)', o \notin closed', ~timer'[o].initialized
          PROVE  \E u \in Clients : pc'[u] = "timer_lock" /\ cur'[u] = o
      <3>1. PICK u \in Clients : pc[u] = "timer_lock" /\ cur[u] = o
        BY <2>1, <2>2 DEF TimerOK
      <3>2. pc'[u] = "timer_lock" /\ cur'[u] = o
        BY <3>1, OtherClient
      <3> QED
        BY <3>2
    <2> QED
      BY <2>1, <2>2 DEF TimerOK
  <1>2. pc'[TimerThread] = "submit" => timer'[cur'[TimerThread]].initialized
    BY Kinds DEF TimersOK, Moved, Drift
  <1> QED
    BY <1>1, <1>2 DEF TimersOK

\* A step that leaves the group alone.
Calm(t) ==
    /\ Moved(t) /\ closed' = closed /\ (\A o \in quiet' : o \in quiet \/ Still(o)) /\ CallsGo
    /\ group'.members = group.members /\ groupCs' = groupCs
    /\ \A o \in Objs : /\ Born(o)' <=> Born(o)
                       /\ obj'[o].state = obj[o].state \/ o \in Simples \/ ~Among(o, group.members)
                       /\ obj'[o].member = obj[o].member
                       /\ timer'[o].initialized => timer[o].initialized \/ ~Settled(o)
    /\ pc'[t] \in {"unlock_pool", "free"} => pc[t] \in {"unlock_pool", "free"} /\ cur'[t] = cur[t]
    /\ t \in Clients => /\ ~Walking(t) /\ ~Walking(t)'
                        /\ \A o \in Objs : InAlloc(t, o)' => InAlloc(t, o)

LEMMA CalmKeeps ==
  ASSUME NEW t \in Threads, Calm(t)
  PROVE  Keeps(t) /\ Lists(t) /\ ListKept(t)
  <1>1. Keeps(t)
    BY DEF Calm, Keeps
  <1>2. Lists(t)
    BY DEF Calm, Lists
  <1>3. GroupCalls
    BY DEF Calm, CallsGo, NoCall, GroupCalls
  <1>4. \A o \in Objs : Gone(t, o)' => Gone(t, o)
    BY DEF Calm, Gone
  <1>5. ListKept(t)
    BY <1>3, <1>4 DEF Calm, ListKept
  <1> QED
    BY <1>1, <1>2, <1>5

LEMMA CalmStep ==
  ASSUME TypesInv, TypesInv', ThreadsInv, QuietInv, NEW t \in Threads, Calm(t), StillKept(t), OwnKept(t), TimersOK',
         t \in Clients => OwnOK(t)' /\ LeaveOK(t)'
  PROVE  QuietInv'
  <1>0. /\ CallersOK /\ ListOK /\ (\A u \in Clients : OwnOK(u) /\ WalkOK(u) /\ LeaveOK(u))
        /\ \A o \in quiet : Still(o)
    BY DEF QuietInv
  <1>1. Keeps(t) /\ Lists(t) /\ ListKept(t)
    BY CalmKeeps
  <1>2. CallersOK'
    BY <1>0, CallersStep DEF Calm
  <1>3. \A u \in Clients : OwnOK(u)'
    BY <1>0, OwnStep DEF Calm
  <1>4. ListOK'
    BY <1>0, <1>1, ListStep
  <1>5. ASSUME NEW u \in Clients PROVE WalkOK(u)' /\ LeaveOK(u)'
    <2>1. CASE u = t
      BY <2>1 DEF Calm, WalkOK
    <2>2. CASE u # t
      BY <1>0, <1>1, <2>2, OtherWalk, OtherLeave
    <2> QED
      BY <2>1, <2>2
  <1>6. ASSUME NEW o \in quiet' PROVE Still(o)'
    <2>1. Still(o) /\ o \in Objs
      BY <1>0, <1>6 DEF Calm, TypesInv
    <2> QED
      BY <1>1, <2>1, KeepsStill
  <1> QED
    BY <1>2, <1>3, <1>4, <1>5, <1>6 DEF QuietInv

-----------------------------------------------------------------------------
(* The steps of the workers.                                               *)

LEMMA WorkerCalm ==
  ASSUME TypesInv, TypesInv', ThreadsInv, QuietInv, NEW w \in Workers, Moved(w),
         timer' = timer, timerCs' = timerCs, group' = group, groupCs' = groupCs, call' = call, closed' = closed,
         quiet' = quiet,
         \A o \in Objs : /\ obj'[o].state = obj[o].state /\ obj'[o].member = obj[o].member
                         /\ obj[o].pending = 0 => obj'[o].pending = 0,
         pc[w] \notin {"destroy", "unlock_pool", "free"}, pc'[w] \notin {"unlock_pool", "free"},
         \/ cur'[w] = cur[w] /\ (pc'[w] = "callback" => pc[w] = "callback")
         \/ cur'[w] \notin Objs
         \/ obj[cur'[w]].pending # 0
  PROVE  QuietInv'
  <1>1. w \in Threads /\ w \notin Clients /\ w # TimerThread
    BY Kinds
  <1>2. CallsGo /\ \A o \in Objs : Born(o)' <=> Born(o)
    BY DEF CallsGo, Born
  <1>3. Calm(w)
    BY <1>1, <1>2 DEF Calm
  <1>4. StillKept(w) /\ OwnKept(w)
    BY <1>1 DEF StillKept, OwnKept, Still
  <1>5. pc[w] # "timer_lock"
    BY DEF ThreadsInv, WorkerOK
  <1>6. TimersOK'
    BY <1>1, <1>2, <1>5, TimersStep DEF QuietInv
  <1> QED
    BY <1>1, <1>3, <1>4, <1>6, CalmStep

LEMMA WorkerQuiet ==
  ASSUME TypesInv, TypesInv', ThreadsInv, QueueInv, QuietInv, NEW w \in Workers, WorkerStep(w)
  PROVE  QuietInv'
  <1>0. /\ WorkerOK(w) /\ w \in Threads /\ NoOne \notin Objs
        /\ pc \in [Threads -> Places] /\ cur \in [Threads -> Objs \cup {NoOne}]
    BY Kinds DEF ThreadsInv, TypesInv
  <1>1. CASE WorkerEnter(w)
    <2>1. Moved(w)
      BY <1>1, WorkerEnterDoes
    <2> QED
      BY <1>0, <1>1, <2>1, WorkerCalm DEF WorkerEnter, history
  <1>2. CASE WorkerTake(w)
    <2>1. /\ Moved(w) /\ NextItem \in Objs
          /\ ObjGoes(NextItem, obj[NextItem].state, obj[NextItem].ref, obj[NextItem].shutdown,
               obj[NextItem].pending - 1, obj[NextItem].running + 1, obj[NextItem].associated + 1,
                 obj[NextItem].member)
      BY <1>2, WorkerTakeDoes, NextFacts DEF WorkerTake
    <2>2. /\ pc'[w] = "callback" /\ cur'[w] = NextItem /\ pc[w] = "loop" /\ timer' = timer /\ timerCs' = timerCs
          /\ group' = group /\ groupCs' = groupCs /\ call' = call /\ closed' = closed /\ quiet' = quiet
      BY <1>0, <1>2 DEF WorkerTake, history
    <2>3. obj[NextItem].pending # 0
      <3>1. /\ HasItem /\ Priority[NextItem] \in 1..3 /\ queue[Priority[NextItem]] \in Seq(Objs)
            /\ queue[Priority[NextItem]] # <<>> /\ NextItem = Head(queue[Priority[NextItem]])
        BY <1>2, NextFacts DEF WorkerTake
      <3>2. 1 \in 1..Len(queue[Priority[NextItem]]) /\ queue[Priority[NextItem]][1] = NextItem
        BY <3>1
      <3> QED
        BY <3>1, <3>2 DEF QueueInv, QueueOK
    <2>4. \A o \in Objs : /\ obj'[o].state = obj[o].state /\ obj'[o].member = obj[o].member
                          /\ obj[o].pending = 0 => obj'[o].pending = 0
      BY <2>1, <2>3 DEF ObjGoes
    <2> QED
      BY <2>1, <2>2, <2>3, <2>4, WorkerCalm
  <1>3. CASE WorkerRest(w)
    <2>1. Moved(w)
      BY <1>3, WorkerRestDoes
    <2> QED
      BY <1>0, <1>3, <2>1, WorkerCalm DEF WorkerRest, history, locks
  <1>4. CASE WorkerSleep(w)
    <2>1. Moved(w)
      BY <1>4, WorkerSleepDoes
    <2> QED
      BY <1>0, <1>4, <2>1, WorkerCalm DEF WorkerSleep, history
  <1>5. CASE WorkerTimeout(w)
    <2>1. Moved(w)
      BY <1>5, WorkerTimeoutDoes
    <2> QED
      BY <1>0, <1>5, <2>1, WorkerCalm DEF WorkerTimeout, history, locks
  <1>6. CASE TpDisassociateCallback(w)
    <2>1. /\ Moved(w) /\ pc'[w] = pc[w]
          /\ ObjGoes(cur[w], obj[cur[w]].state, obj[cur[w]].ref, obj[cur[w]].shutdown, obj[cur[w]].pending,
               obj[cur[w]].running, obj[cur[w]].associated - 1, obj[cur[w]].member)
      BY <1>6, TpDisassociateCallbackDoes
    <2>2. /\ pc[w] = "callback" /\ cur' = cur /\ timer' = timer /\ timerCs' = timerCs
          /\ group' = group /\ groupCs' = groupCs /\ call' = call /\ closed' = closed /\ quiet' = quiet
      BY <1>6 DEF TpDisassociateCallback, history, locks
    <2>3. \A o \in Objs : /\ obj'[o].state = obj[o].state /\ obj'[o].member = obj[o].member
                          /\ obj[o].pending = 0 => obj'[o].pending = 0
      BY <2>1 DEF ObjGoes
    <2> QED
      BY <2>1, <2>2, <2>3, WorkerCalm
  <1>7. CASE TpCallbackMayRunLong(w)
    <2>1. Moved(w) /\ pc'[w] = pc[w]
      BY <1>7, TpCallbackMayRunLongDoes
    <2>2. /\ pc[w] = "callback" /\ cur' = cur /\ timer' = timer /\ timerCs' = timerCs /\ obj' = obj
          /\ group' = group /\ groupCs' = groupCs /\ call' = call /\ closed' = closed /\ quiet' = quiet
      BY <1>7 DEF TpCallbackMayRunLong, history, locks
    <2> QED
      BY <2>1, <2>2, WorkerCalm
  <1>8. CASE CallbackEnd(w)
    <2>1. /\ Moved(w)
          /\ ObjGoes(cur[w], obj[cur[w]].state, obj[cur[w]].ref - 1, obj[cur[w]].shutdown \/ cur[w] \in Simples,
               obj[cur[w]].pending, obj[cur[w]].running - 1,
                 IF inst[w].associated THEN obj[cur[w]].associated - 1 ELSE obj[cur[w]].associated, obj[cur[w]].member)
          /\ pc'[w] = (IF obj[cur[w]].ref - 1 = 0 THEN "destroy" ELSE "loop")
          /\ cur'[w] = (IF obj[cur[w]].ref - 1 = 0 THEN cur[w] ELSE NoOne)
      BY <1>8, CallbackEndDoes
    <2>2. /\ pc[w] = "callback" /\ timer' = timer /\ timerCs' = timerCs
          /\ group' = group /\ groupCs' = groupCs /\ call' = call /\ closed' = closed /\ quiet' = quiet
      BY <1>8 DEF CallbackEnd, history
    <2>3. \A o \in Objs : /\ obj'[o].state = obj[o].state /\ obj'[o].member = obj[o].member
                          /\ obj[o].pending = 0 => obj'[o].pending = 0
      BY <2>1 DEF ObjGoes
    <2>4. pc'[w] \in {"destroy", "loop"} /\ (cur'[w] = cur[w] \/ cur'[w] \notin Objs)
      BY <1>0, <2>1
    <2> QED
      BY <2>1, <2>2, <2>3, <2>4, WorkerCalm
  <1>9. CASE WorkerExit(w)
    <2>1. Moved(w)
      BY <1>9, WorkerExitDoes
    <2> QED
      BY <1>0, <1>9, <2>1, WorkerCalm DEF WorkerExit, history
  <1> QED
    BY <1>1, <1>2, <1>3, <1>4, <1>5, <1>6, <1>7, <1>8, <1>9 DEF WorkerStep

-----------------------------------------------------------------------------
(* The steps of the timer thread.                                          *)

LEMMA TimerCalm ==
  ASSUME Moved(TimerThread), group' = group, groupCs' = groupCs, call' = call, closed' = closed, quiet' = quiet,
         \A o \in Objs : /\ obj'[o].state = obj[o].state /\ obj'[o].member = obj[o].member
                         /\ timer'[o].initialized = timer[o].initialized,
         pc'[TimerThread] \notin {"unlock_pool", "free"}
  PROVE  Calm(TimerThread)
  <1>1. TimerThread \notin Clients /\ CallsGo /\ \A o \in Objs : Born(o)' <=> Born(o)
    BY Kinds DEF CallsGo, Born
  <1> QED
    BY <1>1 DEF Calm

\* Whoever is about to set up a timer stays there.
LEMMA TimerLockers ==
  ASSUME Moved(TimerThread), NEW o \in Objs, TimerOK(o), closed' = closed, Born(o)' <=> Born(o),
         timer'[o].initialized = timer[o].initialized
  PROVE  o \in Timers /\ Born(o)' /\ o \notin closed' /\ ~timer'[o].initialized =>
             \E u \in Clients : pc'[u] = "timer_lock" /\ cur'[u] = o
  <1> SUFFICES ASSUME o \in Timers, Born(o)', o \notin closed', ~timer'[o].initialized
               PROVE  \E u \in Clients : pc'[u] = "timer_lock" /\ cur'[u] = o
    OBVIOUS
  <1>1. PICK u \in Clients : pc[u] = "timer_lock" /\ cur[u] = o
    BY DEF TimerOK
  <1>2. u # TimerThread /\ TimerThread \in Threads
    BY Kinds
  <1>3. pc'[u] = "timer_lock" /\ cur'[u] = o
    BY <1>1, <1>2, OtherClient
  <1> QED
    BY <1>3

LEMMA TimerQuiet ==
  ASSUME TypesInv, TypesInv', ThreadsInv, QuietInv, TimerStep(TimerThread)
  PROVE  QuietInv'
  <1> DEFINE t == TimerThread
  <1>0. /\ TimerThreadOK /\ t \in Threads /\ t \notin Clients /\ t \notin Workers /\ t # NoOne
        /\ pc \in [Threads -> Places] /\ cur \in [Threads -> Objs \cup {NoOne}] /\ NoOne \notin Objs
        /\ Timers \subseteq Objs /\ TimersOK /\ \A o \in Objs : TimerOK(o)
    BY Kinds DEF ThreadsInv, TypesInv, QuietInv, TimersOK
  <1>1. CASE TimerEnter(t)
    <2>1. /\ Moved(t)
          /\ \A o \in Objs : /\ timer'[o].initialized = timer[o].initialized /\ timer'[o].pending = timer[o].pending
                             /\ timer'[o].due => timer[o].due \/ (o \in Timers /\ timer[o].pending)
      BY <1>1, TimerEnterDoes
    <2>2. /\ group' = group /\ groupCs' = groupCs /\ call' = call /\ closed' = closed /\ quiet' = quiet /\ obj' = obj
          /\ cur' = cur /\ timerCs = NoOne /\ pc'[t] \in {"none", "scan"}
          /\ timer' = timer \/ timerCs' = t
      BY <1>0, <1>1 DEF TimerEnter, history
    <2>3. Calm(t)
      BY <2>1, <2>2, TimerCalm
    <2>4. StillKept(t) /\ OwnKept(t)
      BY <1>0, <2>1, <2>2 DEF StillKept, OwnKept, Still
    <2>5. ASSUME NEW o \in Objs PROVE TimerOK(o)'
      <3>1. TimerOK(o) /\ (Born(o)' <=> Born(o))
        BY <1>0, <2>2 DEF Born
      <3>2. timer'[o].due => o \in Timers /\ timer'[o].initialized /\ timerCs' = t
        BY <1>0, <2>1, <2>2, <3>1 DEF TimerOK
      <3> QED
        BY <2>1, <2>2, <3>1, <3>2, TimerLockers DEF TimerOK
    <2>6. TimersOK'
      BY <2>2, <2>5 DEF TimersOK
    <2> QED
      BY <1>0, <2>3, <2>4, <2>6, CalmStep
  <1>2. CASE \E o \in Timers : TimerExpire(t, o)
    <2>0. PICK x \in Timers : TimerExpire(t, x)
      BY <1>2
    <2>1. Moved(t) /\ TimerGoes(x, timer[x].initialized, FALSE, FALSE)
      BY <2>0, TimerExpireDoes
    <2>2. /\ group' = group /\ groupCs' = groupCs /\ call' = call /\ closed' = closed /\ quiet' = quiet /\ obj' = obj
          /\ cur'[t] = x /\ timerCs' = timerCs /\ pc'[t] = "submit" /\ timer[x].due
      BY <1>0, <2>0 DEF TimerExpire, history, locks
    <2>t. \A o \in Objs : /\ timer'[o].initialized = timer[o].initialized
                          /\ timer'[o].pending => timer[o].pending
                          /\ timer'[o].due => timer[o].due
      BY <1>0, <2>1 DEF TimerGoes
    <2>3. Calm(t)
      BY <2>1, <2>2, <2>t, TimerCalm
    <2>4. StillKept(t) /\ OwnKept(t)
      BY <1>0, <2>2, <2>t DEF StillKept, OwnKept, Still
    <2>5. ASSUME NEW o \in Objs PROVE TimerOK(o)'
      <3>1. TimerOK(o) /\ (Born(o)' <=> Born(o))
        BY <1>0, <2>2 DEF Born
      <3> QED
        BY <2>1, <2>2, <2>t, <3>1, TimerLockers DEF TimerOK
    <2>6. timer'[x].initialized
      BY <1>0, <2>2, <2>t DEF TimerOK
    <2>7. TimersOK'
      BY <2>2, <2>5, <2>6 DEF TimersOK
    <2> QED
      BY <1>0, <2>3, <2>4, <2>7, CalmStep
  <1>3. CASE TimerSubmit(t)
    <2>0. PICK x \in Objs : x = cur[t] /\ timer[x].initialized
      BY <1>0, <1>3 DEF TimerSubmit, TimerThreadOK, TimersOK
    <2>1. /\ Moved(t) /\ pc'[t] = "scan"
          /\ ObjGoes(x, obj[x].state, obj[x].ref + 1, obj[x].shutdown, obj[x].pending + 1,
                     obj[x].running, obj[x].associated, obj[x].member)
          /\ TimerGoes(x, timer[x].initialized, (x \in Periodic /\ ~obj[x].shutdown), timer[x].due)
      BY <1>3, <2>0, TimerSubmitDoes
    <2>2. /\ group' = group /\ groupCs' = groupCs /\ call' = call /\ closed' = closed /\ quiet' = quiet
          /\ cur'[t] = NoOne /\ timerCs' = timerCs
      BY <1>0, <1>3 DEF TimerSubmit, history, locks
    <2>t. \A o \in Objs : /\ timer'[o].initialized = timer[o].initialized
                          /\ o # x => timer'[o] = timer[o] /\ obj'[o] = obj[o]
                          /\ timer'[o].due = timer[o].due
                          /\ obj'[o].state = obj[o].state /\ obj'[o].member = obj[o].member
      BY <2>1 DEF TimerGoes, ObjGoes
    <2>3. Calm(t)
      BY <2>1, <2>2, <2>t, TimerCalm
    <2>4. StillKept(t) /\ OwnKept(t)
      BY <1>0, <2>0, <2>2, <2>t DEF StillKept, OwnKept, Still, Shut
    <2>5. ASSUME NEW o \in Objs PROVE TimerOK(o)'
      <3>1. TimerOK(o) /\ (Born(o)' <=> Born(o))
        BY <1>0, <2>t DEF Born
      <3>2. timer'[o].pending => timer'[o].initialized
        BY <2>0, <2>t, <3>1 DEF TimerOK
      <3> QED
        BY <2>1, <2>2, <2>t, <3>1, <3>2, TimerLockers DEF TimerOK
    <2>6. TimersOK'
      BY <2>1, <2>5 DEF TimersOK
    <2> QED
      BY <1>0, <2>3, <2>4, <2>6, CalmStep
  <1>4. CASE TimerLeave(t)
    <2>1. Moved(t)
      BY <1>4, TimerLeaveDoes
    <2>2. /\ group' = group /\ groupCs' = groupCs /\ call' = call /\ closed' = closed /\ quiet' = quiet /\ obj' = obj
          /\ cur' = cur /\ pc'[t] = "wait" /\ timer' = timer /\ \A o \in Timers : ~timer[o].due
      BY <1>0, <1>4 DEF TimerLeave, history
    <2>3. Calm(t)
      BY <2>1, <2>2, TimerCalm
    <2>4. StillKept(t) /\ OwnKept(t)
      BY <1>0, <2>2 DEF StillKept, OwnKept, Still
    <2>5. ASSUME NEW o \in Objs PROVE TimerOK(o)'
      <3>1. TimerOK(o) /\ (Born(o)' <=> Born(o))
        BY <1>0, <2>2 DEF Born
      <3> QED
        BY <2>1, <2>2, <3>1, TimerLockers DEF TimerOK
    <2>6. TimersOK'
      BY <2>2, <2>5 DEF TimersOK
    <2> QED
      BY <1>0, <2>3, <2>4, <2>6, CalmStep
  <1> QED
    BY <1>1, <1>2, <1>3, <1>4 DEF TimerStep

-----------------------------------------------------------------------------
(* A client's own steps: where it is with the release of a group.          *)

LEMMA NoLeave ==
  ASSUME NEW t \in Clients, call'[t].fn # "members"
  PROVE  LeaveOK(t)'
  BY DEF LeaveOK

LEMMA StayLeave ==
  ASSUME ThreadsInv, NEW t \in Clients, Keeps(t), StillKept(t), LeaveOK(t), ~Walking(t), NEW p, Stays(t, p),
         p \in {"cancel", "wait", "sleep", "done"} => pc[t] \in {"cancel", "wait", "sleep", "done"},
         p = "done" => Still(cur[t])
  PROVE  LeaveOK(t)'
  <1> SUFFICES ASSUME call'[t].fn = "members" PROVE LeaveOK(t)'
    BY DEF LeaveOK
  <1>1. /\ t \in Threads /\ call[t].fn = "members" /\ todo'[t] = todo[t] /\ cur'[t] = cur[t] /\ pc'[t] = p
    BY Kinds DEF Stays
  <1>2. ASSUME NEW k \in 1..Len(todo'[t]) PROVE Shut(todo[t][k].obj)'
    <2>1. PICK o \in Objs : o = todo[t][k].obj /\ o = todo'[t][k].obj
      BY <1>1, <1>2, StepsShut
    <2>2. Shut(o)
      BY <1>1, <1>2, <2>1 DEF LeaveOK
    <2>3. Shut(o)'
      BY <1>1, <2>2, KeepsShut
    <2> QED
      BY <2>1, <2>3
  <1>3. ASSUME p \in {"cancel", "wait", "sleep", "done"}
        PROVE  Shut(cur[t])' /\ (p = "done" => Still(cur[t])')
    <2>1. PICK o \in Objs : o = cur[t] /\ o = cur'[t]
      BY <1>1, <1>3, StepsShut
    <2>2. Shut(o) /\ (p = "done" => Still(o))
      BY <1>1, <1>3, <2>1 DEF LeaveOK
    <2>3. Shut(o)' /\ (p = "done" => Still(o)')
      BY <1>1, <2>2, KeepsShut, KeepsStill
    <2> QED
      BY <2>1, <2>3
  <1> QED
    BY <1>1, <1>2, <1>3 DEF LeaveOK

LEMMA AfterLeave ==
  ASSUME TypesInv, NEW t \in Clients, Keeps(t), NEW rest \in Seq(Steps), After(t, rest),
         \A k \in 1..Len(rest) : Shut(rest[k].obj)
  PROVE  LeaveOK(t)' /\ ~Walking(t)' /\ pc'[t] \in {"idle", "cancel", "wait"} /\ CallsGo
         /\ (cur'[t] = NoOne \/ Settled(cur'[t]))
  <1>0. t \in Threads
    BY Kinds
  <1>1. CASE rest = <<>>
    <2>1. pc'[t] = "idle" /\ cur'[t] = NoOne /\ call'[t] = NoCall /\ \A u \in Clients \ {t} : call'[u] = call[u]
      BY <1>1, AfterFacts
    <2> QED
      BY <2>1 DEF NoCall, LeaveOK, Walking, CallsGo
  <1>2. CASE rest # <<>>
    <2>1. /\ pc'[t] = rest[1].do /\ cur'[t] = rest[1].obj /\ call'[t] = call[t]
          /\ Len(todo'[t]) = Len(rest) - 1 /\ \A k \in 1..(Len(rest) - 1) : todo'[t][k] = rest[k + 1]
          /\ \A u \in Clients \ {t} : call'[u] = call[u]
      BY <1>2, AfterFacts
    <2>2. Len(rest) \in Nat /\ 1 \in 1..Len(rest) /\ \A k \in 1..Len(rest) : rest[k] \in Steps
      BY <1>2
    <2>3. rest[1].do \in {"cancel", "wait"} /\ \A k \in 1..Len(rest) : rest[k].obj \in Objs
      BY <2>2 DEF Steps
    <2>4. PICK x \in Objs : x = cur'[t] /\ Shut(x)
      BY <2>1, <2>2, <2>3
    <2>5. Shut(x)' /\ Settled(x)
      BY <1>0, <2>4, KeepsShut DEF Shut
    <2>6. ASSUME NEW k \in 1..Len(todo'[t]) PROVE Shut(todo[t][k].obj)'
      <3>1. k + 1 \in 1..Len(rest) /\ todo'[t][k] = rest[k + 1]
        BY <2>1, <2>2
      <3>2. PICK o \in Objs : o = todo'[t][k].obj /\ Shut(o)
        BY <2>3, <3>1
      <3>3. Shut(o)'
        BY <1>0, <3>2, KeepsShut
      <3> QED
        BY <3>2, <3>3
    <2>7. Shut(cur[t])'
      BY <2>4, <2>5
    <2>8. LeaveOK(t)'
      BY <2>1, <2>3, <2>6, <2>7 DEF LeaveOK
    <2> QED
      BY <2>1, <2>3, <2>4, <2>5, <2>8 DEF CallsGo, Walking
  <1> QED
    BY <1>1, <1>2

\* What is left of a group release, when it is not on its walk.
LEMMA RestShut ==
  ASSUME TypesInv, ThreadsInv, NEW t \in Clients, LeaveOK(t), ~Walking(t), todo[t] \in Seq(Steps)
  PROVE  \A k \in 1..Len(todo[t]) : Shut(todo[t][k].obj)
  <1>1. WorkOK(t)
    BY DEF ThreadsInv
  <1>2. CASE call[t].fn = "members"
    BY <1>2 DEF LeaveOK
  <1>3. CASE call[t].fn # "members"
    BY <1>1, <1>3 DEF WorkOK
  <1> QED
    BY <1>2, <1>3

\* A step of a client that leaves timers and group alone.
Tame(t) ==
    /\ Moved(t) /\ closed' = closed /\ (\A o \in quiet' : o \in quiet \/ Still(o))
    /\ group'.members = group.members /\ groupCs' = groupCs /\ timer' = timer /\ timerCs' = timerCs
    /\ \A o \in Objs : /\ Born(o)' <=> Born(o)
                       /\ obj'[o].state = obj[o].state \/ o \in Simples \/ ~Among(o, group.members)
                       /\ obj'[o].member = obj[o].member
                       /\ obj'[o].pending = 0 \/ obj'[o].pending = obj[o].pending \/ (o = cur[t] /\ ~Still(o))
                       /\ o # cur[t] => obj'[o].state = obj[o].state
    /\ ~Walking(t) /\ call[t].fn # "alloc"

LEMMA TameCalls ==
  ASSUME NEW t \in Clients, Moved(t), call'[t] = call[t] \/ call'[t] = NoCall
  PROVE  CallsGo
  <1>1. t \in Threads
    BY Kinds
  <1> QED
    BY <1>1, OtherClient DEF CallsGo

LEMMA TameCalm ==
  ASSUME NEW t \in Clients, Tame(t), call'[t] = call[t] \/ call'[t] = NoCall, ~Walking(t)',
         pc'[t] \in {"unlock_pool", "free"} => pc[t] \in {"unlock_pool", "free"} /\ cur'[t] = cur[t],
         Allocates(t)' /\ pc'[t] \in {"timer_lock", "submit", "init"} => pc[t] = "submit"
  PROVE  Calm(t)
  <1>1. CallsGo
    BY TameCalls DEF Tame
  <1>2. Allocates(t)' => call'[t] = call[t]
    BY DEF Allocates, NoCall
  <1>3. \A o \in Objs : InAlloc(t, o)' => InAlloc(t, o)
    BY <1>2 DEF InAlloc, Allocates
  <1> QED
    BY <1>1, <1>3 DEF Tame, Calm

LEMMA TameStep ==
  ASSUME TypesInv, TypesInv', ThreadsInv, QuietInv, NEW t \in Clients, Tame(t), Calm(t), LeaveOK(t)',
         cur'[t] = cur[t] \/ cur'[t] = NoOne \/ Settled(cur'[t])
  PROVE  QuietInv'
  <1>0. t \in Threads /\ t \notin Workers /\ t # TimerThread /\ NoOne \notin Objs
    BY Kinds
  <1>1. StillKept(t)
    BY <1>0 DEF Tame, StillKept, Still
  <1>2. OwnKept(t)
    BY <1>0 DEF Tame, OwnKept
  <1>3. OwnOK(t)'
    BY DEF Calm, CallsGo, Tame, OwnOK, NoCall
  <1>4. pc[t] # "timer_lock"
    BY DEF Tame, ThreadsInv, PlaceOK
  <1>5. TimersOK'
    BY <1>0, <1>4, TimersStep DEF Tame, QuietInv
  <1> QED
    BY <1>0, <1>1, <1>2, <1>3, <1>5, CalmStep

LEMMA TameReturn ==
  ASSUME TypesInv, TypesInv', ThreadsInv, QuietInv, NEW t \in Clients, Tame(t), Returns(t)
  PROVE  QuietInv'
  <1>1. ~Walking(t)' /\ call'[t].fn # "members" /\ ~Allocates(t)'
    BY DEF Returns, Walking, NoCall, Allocates
  <1>2. Calm(t)
    BY <1>1, TameCalm DEF Returns
  <1> QED
    BY <1>1, <1>2, TameStep, NoLeave DEF Returns

LEMMA TameStay ==
  ASSUME TypesInv, TypesInv', ThreadsInv, QuietInv, NEW t \in Clients, Tame(t), NEW p, Stays(t, p),
         p \notin {"walk", "walk_timer"}, p \in {"unlock_pool", "free"} => pc[t] \in {"unlock_pool", "free"},
         p \in {"cancel", "wait", "sleep", "done"} => pc[t] \in {"cancel", "wait", "sleep", "done"},
         p = "done" => Still(cur[t]), Allocates(t) /\ p \in {"timer_lock", "submit", "init"} => pc[t] = "submit"
  PROVE  QuietInv'
  <1>0. t \in Threads /\ t \notin Workers
    BY Kinds
  <1>1. ~Walking(t)' /\ call'[t] = call[t] /\ cur'[t] = cur[t]
    BY DEF Stays, Walking
  <1>2. Calm(t)
    BY <1>1, TameCalm DEF Stays, Allocates
  <1>3. StillKept(t)
    BY <1>0 DEF Tame, StillKept, Still
  <1>4. LeaveOK(t)'
    BY <1>0, <1>2, <1>3, CalmKeeps, StayLeave DEF Tame, QuietInv
  <1> QED
    BY <1>1, <1>2, <1>4, TameStep

LEMMA TameAfter ==
  ASSUME TypesInv, TypesInv', ThreadsInv, QuietInv, NEW t \in Clients, Tame(t), todo[t] \in Seq(Steps),
         After(t, todo[t])
  PROVE  QuietInv'
  <1>0. t \in Threads
    BY Kinds
  <1>1. call'[t] = call[t] \/ call'[t] = NoCall
    BY AfterFacts
  <1>2. ~Walking(t)' /\ pc'[t] \notin {"unlock_pool", "free", "timer_lock", "submit", "init"}
    <2>1. CASE todo[t] = <<>>
      BY <2>1, AfterFacts DEF Walking
    <2>2. CASE todo[t] # <<>>
      <3>1. pc'[t] = todo[t][1].do /\ todo[t][1] \in Steps
        BY <2>2, AfterFacts
      <3> QED
        BY <3>1 DEF Steps, Walking
    <2> QED
      BY <2>1, <2>2
  <1>3. Calm(t)
    BY <1>1, <1>2, TameCalm
  <1>4. \A k \in 1..Len(todo[t]) : Shut(todo[t][k].obj)
    BY RestShut DEF Tame, QuietInv
  <1>5. LeaveOK(t)' /\ (cur'[t] = NoOne \/ Settled(cur'[t]))
    BY <1>0, <1>3, <1>4, CalmKeeps, AfterLeave
  <1> QED
    BY <1>3, <1>5, TameStep

-----------------------------------------------------------------------------
(* The calls that leave timers and group alone.                            *)

LEMMA ClientAt ==
  ASSUME TypesInv, ThreadsInv, NEW t \in Clients
  PROVE  /\ PlaceOK(t) /\ WorkOK(t) /\ t \in Threads /\ NoOne \notin Objs
         /\ pc \in [Threads -> Places] /\ cur \in [Threads -> Objs \cup {NoOne}]
  BY Kinds DEF ThreadsInv, TypesInv

\* An object whose program may still post it is not still.
LEMMA PostNotStill ==
  ASSUME TypesInv, ThreadsInv, CallersOK, NEW t \in Clients, pc[t] = "submit"
  PROVE  ~Still(cur[t])
  <1>1. PlaceOK(t) /\ WorkOK(t) /\ call[t] \in Calls \cup {NoCall}
    BY DEF ThreadsInv, TypesInv
  <1>2. call[t].fn \in {"simple", "post", "set"} /\ cur[t] = call[t].obj /\ call[t] \in Calls
    BY <1>1 DEF PlaceOK, WorkOK, NoCall
  <1>3. CASE call[t].fn = "simple"
    <2>1. InAlloc(t, cur[t])
      BY <1>2, <1>3 DEF InAlloc, Allocates
    <2> QED
      BY <2>1 DEF Still, Shut, Settled
  <1>4. CASE call[t].fn \in {"post", "set"}
    <2>1. cur[t] \notin closed
      BY <1>2, <1>4 DEF CallersOK
    <2>2. cur[t] \notin Simples
      BY <1>2, <1>4, Kinds DEF Calls
    <2> QED
      BY <2>1, <2>2 DEF Still, Shut
  <1> QED
    BY <1>2, <1>3, <1>4

LEMMA PostWorkQuiet ==
  ASSUME TypesInv, TypesInv', ThreadsInv, QuietInv, NEW t \in Clients, PostWork(t)
  PROVE  QuietInv'
  <1>0. /\ PlaceOK(t) /\ WorkOK(t) /\ t \in Threads /\ pc[t] = "submit" /\ CallersOK
        /\ cur \in [Threads -> Objs \cup {NoOne}] /\ call \in [Clients -> Calls \cup {NoCall}]
    BY ClientAt DEF PostWork, QuietInv, TypesInv
  <1>1. /\ Moved(t) /\ pc'[t] = (IF cur[t] \in Simples THEN "init" ELSE "idle")
        /\ ObjGoes(cur[t], obj[cur[t]].state, obj[cur[t]].ref + 1, obj[cur[t]].shutdown, obj[cur[t]].pending + 1,
                   obj[cur[t]].running, obj[cur[t]].associated, obj[cur[t]].member)
    BY PostWorkDoes
  <1>2. /\ group' = group /\ groupCs' = groupCs /\ closed' = closed /\ quiet' = quiet
        /\ timer' = timer /\ timerCs' = timerCs /\ todo' = todo
        /\ cur'[t] = (IF cur[t] \in Simples THEN cur[t] ELSE NoOne)
        /\ call'[t] = (IF cur[t] \in Simples THEN call[t] ELSE NoCall)
    BY <1>0 DEF PostWork, history, locks
  <1>3. ~Still(cur[t])
    BY <1>0, PostNotStill
  <1>4. \A o \in Objs : /\ obj'[o].state = obj[o].state /\ obj'[o].member = obj[o].member
                        /\ o # cur[t] => obj'[o] = obj[o]
    BY <1>1 DEF ObjGoes
  <1>5. call[t].fn # "alloc" /\ ~Walking(t) /\ todo[t] = <<>>
    BY <1>0 DEF PlaceOK, WorkOK, Walking
  <1>6. Tame(t)
    BY <1>1, <1>2, <1>3, <1>4, <1>5 DEF Tame, Born
  <1>7. CASE cur[t] \in Simples
    <2>1. Stays(t, "init")
      BY <1>1, <1>2, <1>7 DEF Stays
    <2> QED
      BY <1>0, <1>6, <2>1, TameStay
  <1>8. CASE cur[t] \notin Simples
    <2>1. Returns(t)
      BY <1>1, <1>2, <1>5, <1>8 DEF Returns
    <2> QED
      BY <1>6, <2>1, TameReturn
  <1> QED
    BY <1>7, <1>8

LEMMA CancelQuiet ==
  ASSUME TypesInv, TypesInv', ThreadsInv, QuietInv, NEW t \in Clients, Cancel(t)
  PROVE  QuietInv'
  <1>0. PlaceOK(t) /\ WorkOK(t) /\ t \in Threads /\ pc[t] = "cancel"
    BY ClientAt DEF Cancel
  <1>1. /\ Moved(t)
        /\ ObjGoes(cur[t], obj[cur[t]].state, obj[cur[t]].ref - obj[cur[t]].pending, obj[cur[t]].shutdown, 0,
             obj[cur[t]].running, obj[cur[t]].associated, obj[cur[t]].member)
        /\ call[t].fn # "members" => Stays(t, "wait")
        /\ call[t].fn = "members" => After(t, todo[t]) /\ todo[t] \in Seq(Steps)
    BY CancelDoes
  <1>2. /\ group' = group /\ groupCs' = groupCs /\ closed' = closed /\ quiet' = quiet
        /\ timer' = timer /\ timerCs' = timerCs
    BY DEF Cancel, history, locks
  <1>3. \A o \in Objs : /\ obj'[o].state = obj[o].state /\ obj'[o].member = obj[o].member
                        /\ obj'[o].pending = 0 \/ obj'[o].pending = obj[o].pending
    BY <1>1 DEF ObjGoes
  <1>4. call[t].fn # "alloc" /\ ~Walking(t)
    BY <1>0 DEF PlaceOK, Walking
  <1>5. Tame(t)
    BY <1>1, <1>2, <1>3, <1>4 DEF Tame, Born
  <1>6. CASE call[t].fn # "members"
    BY <1>0, <1>1, <1>5, <1>6, TameStay
  <1>7. CASE call[t].fn = "members"
    BY <1>1, <1>5, <1>7, TameAfter
  <1> QED
    BY <1>6, <1>7

LEMMA WaitQuiet ==
  ASSUME TypesInv, TypesInv', ThreadsInv, CountInv, QuietInv, NEW t \in Clients, Wait(t)
  PROVE  QuietInv'
  <1>0. PlaceOK(t) /\ WorkOK(t) /\ t \in Threads /\ pc[t] = "wait" /\ LeaveOK(t)
    BY ClientAt DEF Wait, QuietInv
  <1>1. /\ Moved(t)
        /\ ~IsFinished(obj[cur[t]], call[t].fn = "members") => Stays(t, "sleep")
        /\ IsFinished(obj[cur[t]], call[t].fn = "members") /\ call[t].fn = "members" => Stays(t, "done")
        /\ IsFinished(obj[cur[t]], call[t].fn = "members") /\ call[t].fn # "members" => Returns(t)
    BY WaitDoes
  <1>2. /\ group' = group /\ groupCs' = groupCs /\ closed' = closed /\ quiet' = quiet
        /\ timer' = timer /\ timerCs' = timerCs /\ obj' = obj
    BY DEF Wait, history, locks
  <1>3. call[t].fn # "alloc" /\ ~Walking(t)
    BY <1>0 DEF PlaceOK, Walking
  <1>4. Tame(t)
    BY <1>1, <1>2, <1>3 DEF Tame, Born
  <1>5. CASE Stays(t, "sleep")
    BY <1>0, <1>4, <1>5, TameStay
  <1>6. CASE Returns(t)
    BY <1>4, <1>6, TameReturn
  <1>7. CASE Stays(t, "done") /\ IsFinished(obj[cur[t]], TRUE) /\ call[t].fn = "members"
    <2>1. PICK x \in Objs : x = cur[t]
      BY <1>0, <1>7 DEF WorkOK
    <2>2. obj[x].pending = 0 /\ obj[x].running = 0
      BY <1>7, <2>1 DEF IsFinished
    <2>3. Cardinality(Runs(x)) = 0 /\ IsFiniteSet(Runs(x))
      BY <2>2, WorkerSets DEF CountInv, Runs
    <2>4. \A w \in Workers : pc[w] = "callback" => cur[w] # x
      BY <2>3, FS_EmptySet DEF Runs
    <2>5. Shut(x)
      BY <1>0, <1>3, <1>7, <2>1 DEF LeaveOK
    <2>6. Still(cur[t])
      BY <2>1, <2>2, <2>4, <2>5 DEF Still
    <2> QED
      BY <1>0, <1>4, <1>7, <2>6, TameStay
  <1> QED
    BY <1>1, <1>5, <1>6, <1>7

LEMMA DropQuiet ==
  ASSUME TypesInv, TypesInv', ThreadsInv, QuietInv, NEW t \in Clients, Drop(t)
  PROVE  QuietInv'
  <1>0. PlaceOK(t) /\ WorkOK(t) /\ t \in Threads /\ pc[t] = "drop"
    BY ClientAt DEF Drop
  <1>1. /\ Moved(t)
        /\ ObjGoes(cur[t], obj[cur[t]].state, obj[cur[t]].ref - 1, (obj[cur[t]].shutdown \/
             call[t].fn = "release"), obj[cur[t]].pending, obj[cur[t]].running, obj[cur[t]].associated,
               obj[cur[t]].member)
        /\ todo[t] \in Seq(Steps)
        /\ obj[cur[t]].ref = 1 => Stays(t, "destroy")
        /\ obj[cur[t]].ref # 1 => After(t, todo[t])
    BY DropDoes
  <1>2. /\ group' = group /\ groupCs' = groupCs /\ closed' = closed /\ quiet' = quiet
        /\ timer' = timer /\ timerCs' = timerCs
    BY DEF Drop, history, locks
  <1>3. \A o \in Objs : /\ obj'[o].state = obj[o].state /\ obj'[o].member = obj[o].member
                        /\ obj'[o].pending = obj[o].pending
    BY <1>1 DEF ObjGoes
  <1>4. call[t].fn # "alloc" /\ ~Walking(t)
    BY <1>0 DEF PlaceOK, Walking
  <1>5. Tame(t)
    BY <1>1, <1>2, <1>3, <1>4 DEF Tame, Born
  <1>6. CASE Stays(t, "destroy")
    BY <1>0, <1>5, <1>6, TameStay
  <1>7. CASE After(t, todo[t])
    BY <1>1, <1>5, <1>7, TameAfter
  <1> QED
    BY <1>1, <1>6, <1>7

LEMMA MemberDoneQuiet ==
  ASSUME TypesInv, TypesInv', ThreadsInv, QuietInv, NEW t \in Clients, MemberDone(t)
  PROVE  QuietInv'
  <1>0. PlaceOK(t) /\ WorkOK(t) /\ t \in Threads /\ pc[t] = "done" /\ LeaveOK(t)
    BY ClientAt DEF MemberDone, QuietInv
  <1>1. /\ Moved(t)
        /\ ObjGoes(cur[t], obj[cur[t]].state, obj[cur[t]].ref - (IF obj[cur[t]].shutdown \/
             cur[t] \in Simples THEN 1 ELSE 2), TRUE, obj[cur[t]].pending, obj[cur[t]].running,
               obj[cur[t]].associated, obj[cur[t]].member)
        /\ todo[t] \in Seq(Steps)
        /\ Stays(t, "destroy") \/ After(t, todo[t])
    BY MemberDoneDoes
  <1>2. /\ group' = group /\ groupCs' = groupCs /\ closed' = closed /\ quiet' = quiet \cup {cur[t]}
        /\ timer' = timer /\ timerCs' = timerCs
    BY DEF MemberDone, locks
  <1>3. \A o \in Objs : /\ obj'[o].state = obj[o].state /\ obj'[o].member = obj[o].member
                        /\ obj'[o].pending = obj[o].pending
    BY <1>1 DEF ObjGoes
  <1>4. call[t].fn = "members" /\ ~Walking(t)
    BY <1>0 DEF PlaceOK, Walking
  <1>5. Still(cur[t])
    BY <1>0, <1>4 DEF LeaveOK
  <1>6. Tame(t)
    BY <1>1, <1>2, <1>3, <1>4, <1>5 DEF Tame, Born
  <1>7. CASE Stays(t, "destroy")
    BY <1>0, <1>6, <1>7, TameStay
  <1>8. CASE After(t, todo[t])
    BY <1>1, <1>6, <1>8, TameAfter
  <1> QED
    BY <1>1, <1>7, <1>8

LEMMA CloseQuiet ==
  ASSUME TypesInv, TypesInv', ThreadsInv, QuietInv, NEW t \in Clients,
         TpReleaseCleanupGroup(t) \/ TpReleasePool(t) \/ TpSetPoolMaxThreads(t) \/ TpSetPoolMinThreads(t)
  PROVE  QuietInv'
  <1>0. PlaceOK(t) /\ WorkOK(t) /\ t \in Threads /\ t \notin Workers /\ cur \in [Threads -> Objs \cup {NoOne}]
    BY ClientAt, Kinds
  <1>1. CASE TpReleaseCleanupGroup(t)
    <2>1. Moved(t) /\ group'.members = group.members /\ Returns(t)
      BY <1>1, TpReleaseCleanupGroupDoes DEF GroupGoes
    <2>2. /\ groupCs' = groupCs /\ closed' = closed /\ quiet' = quiet /\ timer' = timer /\ timerCs' = timerCs
          /\ obj' = obj /\ pc[t] = "close_group"
      BY <1>1 DEF TpReleaseCleanupGroup, history, locks
    <2>3. call[t].fn # "alloc" /\ ~Walking(t)
      BY <1>0, <2>2 DEF PlaceOK, Walking
    <2>4. Tame(t)
      BY <2>1, <2>2, <2>3 DEF Tame, Born
    <2> QED
      BY <2>1, <2>4, TameReturn
  <1>2. CASE TpReleasePool(t)
    <2>1. Moved(t) /\ pc'[t] = "unref"
      BY <1>2, TpReleasePoolDoes
    <2>2. /\ groupCs' = groupCs /\ closed' = closed /\ quiet' = quiet /\ timer' = timer /\ timerCs' = timerCs
          /\ obj' = obj /\ group' = group /\ cur' = cur /\ call' = call /\ todo' = todo /\ pc[t] = "close_pool"
      BY <1>2 DEF TpReleasePool, history, locks
    <2>3. call[t].fn # "alloc" /\ ~Walking(t)
      BY <1>0, <2>2 DEF PlaceOK, Walking
    <2>4. Tame(t)
      BY <2>1, <2>2, <2>3 DEF Tame, Born
    <2>5. Stays(t, "unref")
      BY <2>1, <2>2 DEF Stays
    <2> QED
      BY <2>4, <2>5, TameStay
  <1>3. CASE TpSetPoolMaxThreads(t)
    <2>1. Moved(t) /\ Returns(t)
      BY <1>3, TpSetPoolMaxThreadsDoes
    <2>2. /\ groupCs' = groupCs /\ closed' = closed /\ quiet' = quiet /\ timer' = timer /\ timerCs' = timerCs
          /\ obj' = obj /\ group' = group /\ pc[t] = "max"
      BY <1>3 DEF TpSetPoolMaxThreads, history, locks
    <2>3. call[t].fn # "alloc" /\ ~Walking(t)
      BY <1>0, <2>2 DEF PlaceOK, Walking
    <2>4. Tame(t)
      BY <2>1, <2>2, <2>3 DEF Tame, Born
    <2> QED
      BY <2>1, <2>4, TameReturn
  <1>4. CASE TpSetPoolMinThreads(t)
    <2>1. Moved(t) /\ pc'[t] = "idle"
      <3>1. PICK S : pc' = [x \in Threads |-> IF x = t THEN "idle" ELSE IF x \in S THEN "start" ELSE pc[x]]
        BY <1>4, TpSetPoolMinThreadsDoes
      <3> QED
        BY <1>0, <1>4, <3>1, TpSetPoolMinThreadsDoes
    <2>2. /\ groupCs' = groupCs /\ closed' = closed /\ quiet' = quiet /\ timer' = timer /\ timerCs' = timerCs
          /\ obj' = obj /\ group' = group /\ pc[t] = "min"
          /\ cur' = [cur EXCEPT ![t] = NoOne] /\ call' = [call EXCEPT ![t] = NoCall] /\ todo' = todo
      BY <1>4 DEF TpSetPoolMinThreads, history, locks
    <2>3. call[t].fn \notin {"alloc", "members"} /\ ~Walking(t)
      BY <1>0, <2>2 DEF PlaceOK, Walking
    <2>4. Tame(t)
      BY <2>1, <2>2, <2>3 DEF Tame, Born
    <2>5. Returns(t)
      <3>1. cur'[t] = NoOne /\ call'[t] = NoCall
        BY <1>0, <2>2 DEF TypesInv
      <3> QED
        BY <1>0, <2>1, <2>2, <2>3, <3>1 DEF Returns, WorkOK
    <2> QED
      BY <2>4, <2>5, TameReturn
  <1> QED
    BY <1>1, <1>2, <1>3, <1>4

-----------------------------------------------------------------------------
(* The last reference to an object.                                        *)

LEMMA WorkerRelease ==
  ASSUME TypesInv, TypesInv', ThreadsInv, QuietInv, NEW w \in Workers, Calm(w), pc[w] # "callback",
         timer' = timer, timerCs' = timerCs, \A o \in Objs : obj'[o].pending = obj[o].pending /\ (o # cur[w] => obj'[o].state = obj[o].state),
         pc'[w] # "callback", cur'[w] = cur[w] \/ cur'[w] \notin Objs
  PROVE  QuietInv'
  <1>1. w \in Threads /\ w \notin Clients /\ w # TimerThread
    BY Kinds
  <1>2. StillKept(w) /\ OwnKept(w)
    BY <1>1 DEF StillKept, OwnKept, Still
  <1>3. pc[w] # "timer_lock"
    BY DEF ThreadsInv, WorkerOK
  <1>4. TimersOK'
    BY <1>1, <1>3, TimersStep DEF QuietInv, Calm
  <1> QED
    BY <1>1, <1>2, <1>4, CalmStep

LEMMA UnlockPoolQuiet ==
  ASSUME TypesInv, TypesInv', ThreadsInv, QuietInv, NEW t \in Clients \cup Workers, UnlockPool(t)
  PROVE  QuietInv'
  <1>0. t \in Threads /\ pc \in [Threads -> Places] /\ NoOne \notin Objs
    BY Kinds DEF TypesInv
  <1>1. /\ Moved(t) /\ groupCs' = groupCs /\ closed' = closed /\ quiet' = quiet /\ timer' = timer /\ timerCs' = timerCs
        /\ obj' = obj /\ group' = group /\ cur' = cur /\ call' = call /\ todo' = todo /\ pc[t] = "unlock_pool"
        /\ pc'[t] = "free"
    BY <1>0, UnlockPoolDoes DEF UnlockPool, history, locks
  <1>2. CASE t \in Workers
    <2>1. Calm(t)
      BY <1>1, <1>2, Kinds DEF Calm, Born, CallsGo
    <2> QED
      BY <1>1, <1>2, <2>1, WorkerRelease
  <1>3. CASE t \in Clients
    <2>1. PlaceOK(t)
      BY <1>3, ClientAt
    <2>2. call[t].fn # "alloc" /\ ~Walking(t)
      BY <1>1, <2>1 DEF PlaceOK, Walking
    <2>3. Tame(t) /\ Stays(t, "free")
      BY <1>1, <2>2 DEF Tame, Born, Stays
    <2> QED
      BY <1>1, <1>3, <2>3, TameStay
  <1> QED
    BY <1>2, <1>3

LEMMA FreeObjectQuiet ==
  ASSUME TypesInv, TypesInv', ThreadsInv, BirthInv, QuietInv, NEW t \in Clients \cup Workers, FreeObject(t)
  PROVE  QuietInv'
  <1>0. t \in Threads /\ NoOne \notin Objs /\ pc[t] = "free" /\ cur[t] \in Objs
    <2>1. pc[t] = "free" /\ t \in Threads /\ NoOne \notin Objs
      BY Kinds DEF FreeObject
    <2>2. CASE t \in Workers
      BY <2>1, <2>2 DEF ThreadsInv, WorkerOK
    <2>3. CASE t \in Clients
      <3>1. PlaceOK(t) /\ WorkOK(t) /\ call[t] \in Calls \cup {NoCall}
        BY <2>3 DEF ThreadsInv, TypesInv
      <3>2. call[t].fn \in {"simple", "release", "members"}
        BY <2>1, <3>1 DEF PlaceOK
      <3>3. call[t].fn # "members" => cur[t] = call[t].obj /\ call[t].obj \in Objs
        BY <3>1, <3>2, Kinds DEF WorkOK, Calls, NoCall
      <3> QED
        BY <2>1, <3>1, <3>3 DEF WorkOK
    <2> QED
      BY <2>1, <2>2, <2>3
  <1>1. /\ Moved(t)
        /\ ObjGoes(cur[t], "freed", obj[cur[t]].ref, obj[cur[t]].shutdown, obj[cur[t]].pending, obj[cur[t]].running,
             obj[cur[t]].associated, obj[cur[t]].member)
        /\ t \in Workers => pc'[t] = "loop" /\ cur'[t] = NoOne
        /\ t \in Clients => After(t, todo[t]) /\ todo[t] \in Seq(Steps)
    BY FreeObjectDoes
  <1>2. /\ groupCs' = groupCs /\ closed' = closed /\ quiet' = quiet /\ timer' = timer /\ timerCs' = timerCs
        /\ group' = group
    BY DEF FreeObject, history, locks
  <1>3. Born(cur[t]) /\ (cur[t] \in Simples \/ ~Among(cur[t], group.members))
    BY <1>0, CurBorn DEF QuietInv, ListOK, MemberOK
  <1>4. \A o \in Objs : /\ Born(o)' <=> Born(o)
                        /\ obj'[o].state = obj[o].state \/ o \in Simples \/ ~Among(o, group.members)
                        /\ obj'[o].member = obj[o].member /\ obj'[o].pending = obj[o].pending
                        /\ o # cur[t] => obj'[o].state = obj[o].state
    BY <1>0, <1>1, <1>3 DEF ObjGoes, Born
  <1>5. CASE t \in Workers
    <2>0. call' = call
      BY <1>5 DEF FreeObject
    <2>1. Calm(t)
      BY <1>1, <1>2, <1>4, <1>5, <2>0, Kinds DEF Calm, CallsGo
    <2> QED
      BY <1>0, <1>1, <1>2, <1>4, <1>5, <2>1, WorkerRelease
  <1>6. CASE t \in Clients
    <2>1. PlaceOK(t)
      BY <1>6, ClientAt
    <2>2. call[t].fn # "alloc" /\ ~Walking(t)
      BY <1>0, <2>1 DEF PlaceOK, Walking
    <2>3. Tame(t)
      BY <1>1, <1>2, <1>4, <2>2 DEF Tame
    <2> QED
      BY <1>1, <1>6, <2>3, TameAfter
  <1> QED
    BY <1>5, <1>6

LEMMA UnrefPoolQuiet ==
  ASSUME TypesInv, TypesInv', ThreadsInv, QuietInv, NEW t \in Clients \cup Workers, UnrefPool(t)
  PROVE  QuietInv'
  <1>0. t \in Threads /\ NoOne \notin Objs /\ pc[t] = "unref"
    BY Kinds DEF UnrefPool
  <1>1. /\ Moved(t)
        /\ t \in Workers => pc'[t] = "none" /\ cur'[t] = cur[t]
        /\ t \in Clients => After(t, <<>>)
    BY UnrefPoolDoes
  <1>2. /\ groupCs' = groupCs /\ closed' = closed /\ quiet' = quiet /\ timer' = timer /\ timerCs' = timerCs
        /\ group' = group /\ obj' = obj
    BY DEF UnrefPool, history, locks
  <1>3. CASE t \in Workers
    <2>0. call' = call
      BY <1>3 DEF UnrefPool
    <2>1. Calm(t)
      BY <1>1, <1>2, <1>3, <2>0, Kinds DEF Calm, CallsGo, Born
    <2> QED
      BY <1>0, <1>1, <1>2, <1>3, <2>1, WorkerRelease
  <1>4. CASE t \in Clients
    <2>1. PlaceOK(t) /\ Returns(t)
      BY <1>1, <1>4, ClientAt, ReturnsAlone
    <2>2. call[t].fn # "alloc" /\ ~Walking(t)
      BY <1>0, <2>1 DEF PlaceOK, Walking
    <2>3. Tame(t)
      BY <1>1, <1>2, <2>2 DEF Tame, Born
    <2> QED
      BY <1>4, <2>1, <2>3, TameReturn
  <1> QED
    BY <1>3, <1>4

LEMMA GroupLock ==
  ASSUME TypesInv, ThreadsInv
  PROVE  /\ groupCs = NoOne => \A u \in Clients : ~Walking(u)
         /\ groupCs # NoOne => groupCs \in Clients /\ Walking(groupCs)
         /\ \A u, v \in Clients : Walking(u) /\ Walking(v) => u = v
  <1>1. \A u \in Clients : groupCs = u <=> Walking(u)
    BY DEF ThreadsInv, WorkOK
  <1>2. groupCs \in Clients \cup {NoOne} /\ \A u \in Clients : u # NoOne
    BY Kinds DEF TypesInv
  <1> QED
    BY <1>1, <1>2

\* A member is in the list.
LEMMA MemberListed ==
  ASSUME TypesInv, ThreadsInv, QuietInv, NEW o \in Objs, obj[o].member
  PROVE  Among(o, group.members)
  <1>1. CASE groupCs = NoOne
    BY <1>1 DEF QuietInv, ListOK
  <1>2. CASE groupCs # NoOne
    <2>1. groupCs \in Clients /\ Walking(groupCs)
      BY <1>2, GroupLock
    <2> QED
      BY <2>1 DEF QuietInv, WalkOK
  <1> QED
    BY <1>1, <1>2

\* The parts of the invariant, for a step that may change the lists.
LEMMA GroupStep ==
  ASSUME TypesInv, TypesInv', ThreadsInv, QuietInv, NEW t \in Threads, Keeps(t), StillKept(t), OwnKept(t),
         quiet' = quiet, CallersOK', TimersOK', t \in Clients => OwnOK(t)' /\ WalkOK(t)' /\ LeaveOK(t)',
         ListOK', \A u \in Clients \ {t} : WalkOK(u)'
  PROVE  QuietInv'
  <1>0. /\ (\A u \in Clients : OwnOK(u) /\ WalkOK(u) /\ LeaveOK(u))
        /\ \A o \in quiet : Still(o)
    BY DEF QuietInv
  <1>1. \A u \in Clients : OwnOK(u)'
    BY <1>0, OwnStep DEF Keeps
  <1>2. ASSUME NEW u \in Clients PROVE WalkOK(u)' /\ LeaveOK(u)'
    <2>1. CASE u = t
      BY <2>1
    <2>2. CASE u # t
      BY <1>0, <2>2, OtherLeave
    <2> QED
      BY <2>1, <2>2
  <1>3. ASSUME NEW o \in quiet' PROVE Still(o)'
    <2>1. Still(o) /\ o \in Objs
      BY <1>0, <1>3 DEF TypesInv
    <2> QED
      BY <2>1, KeepsStill
  <1> QED
    BY <1>1, <1>2, <1>3 DEF QuietInv

LEMMA EndingCur ==
  ASSUME TypesInv, ThreadsInv, NEW t \in Clients \cup Workers, Ending(t)
  PROVE  cur[t] \in Objs /\ (t \in Clients => call[t].fn \in {"simple", "release", "members"} /\ ~Walking(t))
  <1>1. CASE t \in Workers
    BY <1>1, Kinds DEF ThreadsInv, WorkerOK, Ending
  <1>2. CASE t \in Clients
    <2>1. PlaceOK(t) /\ WorkOK(t) /\ call[t] \in Calls \cup {NoCall}
      BY <1>2 DEF ThreadsInv, TypesInv
    <2>2. call[t].fn \in {"simple", "release", "members"} /\ ~Walking(t)
      BY <2>1 DEF PlaceOK, Ending, Walking
    <2>3. call[t].fn # "members" => cur[t] = call[t].obj /\ call[t].obj \in Objs
      BY <2>1, <2>2, Kinds DEF WorkOK, Calls, NoCall
    <2> QED
      BY <2>1, <2>2, <2>3 DEF WorkOK, Ending
  <1> QED
    BY <1>1, <1>2

LEMMA DestroyQuiet ==
  ASSUME TypesInv, TypesInv', ThreadsInv, QuietInv, NEW t \in Clients \cup Workers, Destroy(t)
  PROVE  QuietInv'
  <1>0. /\ t \in Threads /\ t # TimerThread /\ pc[t] = "destroy" /\ pc \in [Threads -> Places] /\ NoOne \notin Objs
        /\ ListOK
    BY Kinds DEF Destroy, TypesInv, QuietInv
  <1>1. PICK o \in Objs : o = cur[t]
    BY <1>0, EndingCur DEF Ending
  <1>c. t \in Clients => call[t].fn # "alloc" /\ ~Walking(t)
    BY <1>0, EndingCur DEF Ending
  <1>2. /\ Moved(t)
        /\ ObjGoes(o, obj[o].state, obj[o].ref, obj[o].shutdown, obj[o].pending, obj[o].running, obj[o].associated,
                   FALSE)
        /\ o \notin Grouped => group' = group
        /\ o \in Grouped => group'.members = LeaveGroup(o)
    BY <1>1, DestroyDoes DEF GroupGoes
  <1>3. /\ groupCs' = groupCs /\ closed' = closed /\ quiet' = quiet /\ timer' = timer /\ timerCs' = timerCs
        /\ cur' = cur /\ call' = call /\ todo' = todo /\ pc'[t] = "unlock_pool" /\ (o \in Grouped => groupCs = NoOne)
    BY <1>0, <1>1 DEF Destroy, history, locks
  <1>4. \A x \in Objs : /\ Born(x)' <=> Born(x)
                        /\ obj'[x].state = obj[x].state /\ obj'[x].pending = obj[x].pending
                        /\ x # o => obj'[x].member = obj[x].member
    BY <1>2 DEF ObjGoes, Born
  <1>5. CallsGo /\ GroupCalls /\ ~obj'[o].member
    BY <1>2, <1>3 DEF CallsGo, GroupCalls, ObjGoes
  <1>6. Keeps(t)
    <2>1. \A x \in Objs : ~InAlloc(t, x)'
      BY <1>3 DEF InAlloc
    <2> QED
      BY <1>2, <1>3, <1>4, <2>1 DEF Keeps
  <1>7. StillKept(t) /\ OwnKept(t)
    BY <1>3, <1>4 DEF StillKept, OwnKept, Still
  <1>8. ASSUME t \in Clients PROVE OwnOK(t)' /\ WalkOK(t)' /\ LeaveOK(t)'
    <2>1. Stays(t, "unlock_pool") /\ LeaveOK(t)
      BY <1>3, <1>8 DEF Stays, QuietInv
    <2>2. LeaveOK(t)'
      BY <1>6, <1>7, <1>8, <1>c, <2>1, StayLeave
    <2> QED
      BY <1>3, <1>8, <1>c, <2>2 DEF OwnOK, WalkOK, Walking
  <1>9. ListOK' /\ \A u \in Clients \ {t} : WalkOK(u)'
    <2>1. CASE ~obj[o].member /\ ~Among(o, group.members)
      <3>0. obj'[o].member = FALSE /\ obj[o].member = FALSE
        BY <1>2, <2>1 DEF ObjGoes, TypesInv, ObjRecords
      <3>1. Lists(t)
        BY <1>2, <1>3, <1>4, <2>1, <3>0 DEF Lists, LeaveGroup
      <3>2. ListKept(t)
        BY <1>1, <1>3, <1>4, <1>5, <2>1 DEF ListKept, Gone
      <3> QED
        BY <1>0, <1>6, <3>1, <3>2, ListStep, OtherWalk DEF QuietInv
    <2>2. CASE obj[o].member
      <3>1. Among(o, group.members) /\ group.members \in Seq(Objs) /\ Distinct(group.members) /\ o \in Grouped
        BY <1>0, <2>2, MemberListed DEF TypesInv, GroupRecords, ListOK, MemberOK
      <3>2. group'.members = Unlink(group.members, o) /\ groupCs = NoOne
        BY <1>2, <1>3, <2>2, <3>1 DEF LeaveGroup
      <3>3. Distinct(group'.members) /\ \A x : Among(x, group'.members) <=> x # o /\ Among(x, group.members)
        BY <3>1, <3>2, UnlinkFacts
      <3>4. ASSUME NEW x \in Objs, Among(x, group.members)' PROVE MemberOK(x)'
        <4>1. x # o /\ Among(x, group.members)
          BY <3>3, <3>4 DEF Among
        <4>2. MemberOK(x) /\ ~Gone(t, x)'
          BY <1>0, <1>1, <1>3, <4>1 DEF ListOK, Gone
        <4> QED
          BY <1>4, <1>5, <1>6, <1>0, <4>2, MemberKept
      <3>5. ASSUME NEW x \in Objs PROVE Among(x, group.members)' <=> obj'[x].member
        <4>1. Among(x, group.members)' <=> x # o /\ Among(x, group.members)
          BY <3>3 DEF Among
        <4> QED
          BY <1>0, <1>4, <1>5, <3>2, <4>1 DEF ListOK
      <3>6. Distinct(group.members)'
        BY <3>3 DEF Distinct
      <3>7. ListOK'
        BY <3>4, <3>5, <3>6 DEF ListOK
      <3>8. ASSUME NEW u \in Clients \ {t} PROVE WalkOK(u)'
        <4>1. ~Walking(u)
          BY <3>2, GroupLock
        <4>2. ~Walking(u)'
          BY <1>0, <1>2, <4>1, OtherClient DEF Walking
        <4> QED
          BY <4>2 DEF WalkOK
      <3> QED
        BY <3>7, <3>8
    <2>3. CASE ~obj[o].member /\ Among(o, group.members)
      <3>1. o \in Grouped /\ groupCs = NoOne
        BY <1>0, <1>3, <2>3 DEF ListOK, MemberOK
      <3> QED
        BY <1>0, <2>3, <3>1 DEF ListOK
    <2> QED
      BY <2>1, <2>2, <2>3
  <1>10. CallersOK' /\ TimersOK'
    BY <1>0, <1>2, <1>3, <1>4, <1>5, CallersStep, TimersStep DEF QuietInv
  <1> QED
    BY <1>0, <1>3, <1>6, <1>7, <1>8, <1>9, <1>10, GroupStep

LEMMA ReleaseQuiet ==
  ASSUME TypesInv, TypesInv', ThreadsInv, BirthInv, QuietInv, NEW t \in Clients \cup Workers, LastRelease(t)
  PROVE  QuietInv'
  BY DestroyQuiet, UnlockPoolQuiet, FreeObjectQuiet, UnrefPoolQuiet DEF LastRelease

-----------------------------------------------------------------------------
(* The steps that change a timer.  The timer thread is not at work then: no *)
(* timer is due.                                                           *)

LEMMA TimersChange ==
  ASSUME ThreadsInv, TimersOK, NEW t \in Clients, Moved(t), timerCs = NoOne, timerCs' = NoOne, closed' = closed,
         NEW o \in Objs, \A x \in Objs \ {o} : timer'[x] = timer[x], timer'[o].due = timer[o].due,
         \A x \in Objs : Born(x)' <=> Born(x), pc[t] = "timer_lock" => cur[t] = o,
         timer'[o].initialized => o \in Timers, timer'[o].pending => timer'[o].initialized,
         o \in Timers /\ o \notin closed => timer'[o].initialized
  PROVE  TimersOK'
  <1>1. \A x \in Objs : ~timer[x].due
    BY Kinds DEF TimersOK, TimerOK
  <1>2. ASSUME NEW x \in Objs PROVE TimerOK(x)'
    <2>0. TimerOK(x)
      BY DEF TimersOK
    <2>1. CASE x = o
      BY <1>1, <2>1 DEF TimerOK
    <2>2. CASE x # o
      <3>1. ASSUME x \in Timers, Born(x)', x \notin closed', ~timer'[x].initialized
            PROVE  \E u \in Clients : pc'[u] = "timer_lock" /\ cur'[u] = x
        <4>1. PICK u \in Clients : pc[u] = "timer_lock" /\ cur[u] = x
          BY <2>0, <2>2, <3>1 DEF TimerOK
        <4>2. u # t
          BY <2>2, <4>1
        <4>3. pc'[u] = "timer_lock" /\ cur'[u] = x
          BY <4>1, <4>2, Kinds, OtherClient
        <4> QED
          BY <4>3
      <3>2. timer'[x] = timer[x] /\ ~timer[x].due
        BY <1>1, <2>2
      <3> QED
        BY <2>0, <3>1, <3>2 DEF TimerOK
    <2> QED
      BY <2>1, <2>2
  <1>3. pc'[TimerThread] # "submit"
    <2>1. pc[TimerThread] # "submit"
      BY Kinds DEF ThreadsInv, TimerThreadOK
    <2> QED
      BY <2>1, Kinds DEF Moved, Drift
  <1> QED
    BY <1>2, <1>3 DEF TimersOK

\* A step of t that changes the timer of its object only.
LEMMA TimerCalmStep ==
  ASSUME TypesInv, TypesInv', ThreadsInv, QuietInv, NEW t \in Clients, Moved(t), closed' = closed, quiet' = quiet,
         group' = group, groupCs' = groupCs, obj' = obj, \A x \in Objs \ {cur[t]} : timer'[x] = timer[x],
         timer'[cur[t]].initialized => timer[cur[t]].initialized \/ ~Settled(cur[t]), TimersOK',
         ~Walking(t), ~Walking(t)', pc'[t] \notin {"unlock_pool", "free"}, CallsGo,
         \A o \in Objs : InAlloc(t, o)' => InAlloc(t, o), OwnOK(t)', LeaveOK(t)',
         cur'[t] = cur[t] \/ cur'[t] = NoOne
  PROVE  QuietInv'
  <1>0. t \in Threads /\ t \notin Workers /\ NoOne \notin Objs
    BY Kinds
  <1>1. \A o \in Objs : Born(o)' <=> Born(o)
    BY DEF Born
  <1>2. \A o \in Objs : timer'[o].initialized => timer[o].initialized \/ ~Settled(o)
    BY Zenon
  <1>3. Calm(t)
    BY <1>1, <1>2 DEF Calm
  <1>4. StillKept(t)
    BY <1>0 DEF StillKept, Still
  <1>5. OwnKept(t)
    BY <1>0 DEF OwnKept
  <1> QED
    BY <1>0, <1>3, <1>4, <1>5, CalmStep

LEMMA TpSetTimerQuiet ==
  ASSUME TypesInv, TypesInv', ThreadsInv, BirthInv, QuietInv, NEW t \in Clients, TpSetTimer(t)
  PROVE  QuietInv'
  <1>0. /\ PlaceOK(t) /\ WorkOK(t) /\ t \in Threads /\ pc[t] = "set" /\ timerCs = NoOne
        /\ CallersOK /\ TimersOK
    BY ClientAt DEF TpSetTimer, QuietInv
  <1>1. /\ Moved(t)
        /\ TimerGoes(cur[t], timer[cur[t]].initialized, (call[t].n > 0 \/ (call[t].n = 0 /\ cur[t] \in Periodic)),
                     timer[cur[t]].due)
        /\ (call[t].n = 0 => Stays(t, "submit")) /\ (call[t].n # 0 => Returns(t))
    BY TpSetTimerDoes
  <1>2. /\ closed' = closed /\ quiet' = quiet /\ group' = group /\ groupCs' = groupCs /\ obj' = obj
        /\ timerCs' = NoOne
    BY DEF TpSetTimer, history, locks
  <1>3. call[t].fn = "set" /\ cur[t] = call[t].obj /\ call[t] \in Calls
    BY <1>0, InCalls DEF PlaceOK, WorkOK
  <1>4. PICK o \in Timers : o = cur[t]
    BY <1>3 DEF Calls
  <1>5. o \in Objs /\ o \notin closed /\ Born(o)
    BY <1>0, <1>3, <1>4, Kinds, CurBorn DEF CallersOK
  <1>6. timer[o].initialized
    <2> SUFFICES ASSUME ~timer[o].initialized PROVE FALSE
      OBVIOUS
    <2>1. PICK u \in Clients : pc[u] = "timer_lock" /\ cur[u] = o
      BY <1>0, <1>5, <1>4 DEF TimersOK, TimerOK
    <2>2. PlaceOK(u) /\ WorkOK(u)
      BY DEF ThreadsInv
    <2>3. call[u].fn = "alloc" /\ call[u].obj = o
      BY <2>1, <2>2 DEF PlaceOK, WorkOK
    <2>4. t = u
      BY <1>3, <1>4, <2>3 DEF BirthInv, Allocates
    <2> QED
      BY <1>0, <2>1, <2>4
  <1>7. /\ \A x \in Objs \ {o} : timer'[x] = timer[x]
        /\ timer'[o].initialized /\ timer'[o].due = timer[o].due
    BY <1>1, <1>4, <1>5, <1>6 DEF TimerGoes
  <1>8. TimersOK'
    <2>1. \A x \in Objs : Born(x)' <=> Born(x)
      BY <1>2 DEF Born
    <2> QED
      BY <1>0, <1>1, <1>2, <1>4, <1>5, <1>7, <2>1, TimersChange
  <1>9. CallsGo
    BY <1>1, TameCalls DEF Stays, Returns
  <1>10. /\ call'[t].fn \in {"set", "none"} /\ pc'[t] \in {"submit", "idle"}
         /\ (cur'[t] = cur[t] \/ cur'[t] = NoOne)
    BY <1>1, <1>3 DEF Stays, Returns, NoCall
  <1>11. OwnOK(t)' /\ LeaveOK(t)' /\ ~Walking(t) /\ ~Walking(t)' /\ \A x \in Objs : ~InAlloc(t, x)'
    BY <1>0, <1>10 DEF OwnOK, LeaveOK, Walking, InAlloc, Allocates
  <1> QED
    BY <1>1, <1>2, <1>4, <1>6, <1>7, <1>8, <1>9, <1>10, <1>11, TimerCalmStep

LEMMA TimerUnlockQuiet ==
  ASSUME TypesInv, TypesInv', ThreadsInv, QuietInv, NEW t \in Clients, TimerUnlock(t)
  PROVE  QuietInv'
  <1>0. /\ PlaceOK(t) /\ WorkOK(t) /\ t \in Threads /\ pc[t] = "timer_unlock" /\ timerCs = NoOne
        /\ pc \in [Threads -> Places] /\ CallersOK /\ TimersOK
    BY ClientAt DEF TimerUnlock, QuietInv
  <1>1. Moved(t) /\ TimerGoes(cur[t], FALSE, FALSE, timer[cur[t]].due)
    BY TimerUnlockDoes
  <1>2. /\ closed' = closed /\ quiet' = quiet /\ group' = group /\ groupCs' = groupCs /\ obj' = obj
        /\ timerCs' = NoOne /\ pc'[t] = "drop" /\ cur' = cur /\ call' = call
    BY <1>0 DEF TimerUnlock, history, locks
  <1>3. call[t].fn = "release" /\ cur[t] \in closed
    BY <1>0 DEF PlaceOK, WorkOK, CallersOK
  <1>4. PICK o \in Objs : o = cur[t] /\ o \in closed
    BY <1>0, <1>3, Kinds DEF WorkOK
  <1>5. /\ \A x \in Objs \ {o} : timer'[x] = timer[x]
        /\ timer'[o].initialized = FALSE /\ timer'[o].pending = FALSE /\ timer'[o].due = timer[o].due
    BY <1>1, <1>4 DEF TimerGoes
  <1>6. TimersOK'
    <2>1. \A x \in Objs : Born(x)' <=> Born(x)
      BY <1>2 DEF Born
    <2> QED
      BY <1>0, <1>1, <1>2, <1>4, <1>5, <2>1, TimersChange
  <1>7. CallsGo
    BY <1>2 DEF CallsGo
  <1>8. OwnOK(t)' /\ LeaveOK(t)' /\ ~Walking(t) /\ ~Walking(t)' /\ \A x \in Objs : ~InAlloc(t, x)'
    BY <1>0, <1>2, <1>3 DEF OwnOK, LeaveOK, Walking, InAlloc, Allocates
  <1> QED
    BY <1>1, <1>2, <1>4, <1>5, <1>6, <1>7, <1>8, TimerCalmStep

LEMMA TimerLockQuiet ==
  ASSUME TypesInv, TypesInv', ThreadsInv, BirthInv, QuietInv, NEW t \in Clients, TimerLock(t)
  PROVE  QuietInv'
  <1>0. /\ PlaceOK(t) /\ WorkOK(t) /\ t \in Threads /\ t # TimerThread /\ pc[t] = "timer_lock" /\ timerCs = NoOne
        /\ pc \in [Threads -> Places] /\ OwnOK(t) /\ TimersOK
    BY ClientAt, Kinds DEF TimerLock, QuietInv
  <1>1. Moved(t) /\ TimerGoes(cur[t], TRUE, timer[cur[t]].pending, timer[cur[t]].due)
    BY TimerLockDoes
  <1>2. /\ closed' = closed /\ quiet' = quiet /\ group' = group /\ groupCs' = groupCs /\ obj' = obj
        /\ timerCs' = NoOne /\ pc'[t] = "init" /\ cur' = cur /\ call' = call
    BY <1>0 DEF TimerLock, history, locks
  <1>3. call[t].fn = "alloc" /\ cur[t] = call[t].obj
    BY <1>0 DEF PlaceOK, WorkOK
  <1>4. PICK o \in Timers : o = cur[t] /\ o \in Objs
    BY <1>0, Kinds DEF WorkOK
  <1>5. ~Settled(o) /\ InAlloc(t, o)
    BY <1>0, <1>3, <1>4 DEF Settled, InAlloc, Allocates
  <1>6. /\ \A x \in Objs \ {o} : timer'[x] = timer[x]
        /\ timer'[o].initialized = TRUE /\ timer'[o].pending = timer[o].pending /\ timer'[o].due = timer[o].due
    BY <1>1, <1>4 DEF TimerGoes
  <1>7. TimersOK'
    <2>1. \A x \in Objs : Born(x)' <=> Born(x)
      BY <1>2 DEF Born
    <2> QED
      BY <1>0, <1>1, <1>2, <1>4, <1>6, <2>1, TimersChange
  <1>8. CallsGo
    BY <1>2 DEF CallsGo
  <1>9. LeaveOK(t)' /\ ~Walking(t) /\ ~Walking(t)' /\ \A x \in Objs : InAlloc(t, x)' => InAlloc(t, x)
    BY <1>0, <1>2, <1>3 DEF LeaveOK, Walking, InAlloc, Allocates
  <1>10. OwnOK(t)'
    BY <1>0, <1>2, <1>3, <1>4, <1>6 DEF OwnOK
  <1> QED
    BY <1>1, <1>2, <1>4, <1>5, <1>6, <1>7, <1>8, <1>9, <1>10, TimerCalmStep

-----------------------------------------------------------------------------
(* An object comes into being and joins the group.                         *)

LEMMA PoolLockQuiet ==
  ASSUME TypesInv, TypesInv', ThreadsInv, BirthInv, QuietInv, NEW t \in Clients, PoolLock(t)
  PROVE  QuietInv'
  <1>0. /\ PlaceOK(t) /\ WorkOK(t) /\ t \in Threads /\ t # TimerThread /\ t \notin Workers /\ pc[t] = "pool_lock"
        /\ CallersOK /\ TimersOK /\ ListOK
    BY ClientAt, Kinds DEF PoolLock, QuietInv
  <1>1. /\ closed' = closed /\ quiet' = quiet /\ group' = group /\ groupCs' = groupCs /\ timer' = timer
        /\ timerCs' = timerCs
    BY DEF PoolLock, history, locks
  <1>2. Moved(t)
    BY PoolLockDoes
  <1>3. Allocates(t) /\ cur[t] = call[t].obj /\ cur[t] \in Objs /\ ~Born(cur[t]) /\ ~Walking(t)
    <2>1. Allocates(t) /\ cur[t] = call[t].obj /\ ~Walking(t)
      BY <1>0 DEF PlaceOK, WorkOK, Allocates, Walking
    <2>2. cur[t] \in Objs
      BY <1>0, ClientCur
    <2> QED
      BY <1>0, <2>1, <2>2 DEF BirthInv
  <1>4. PICK o \in Objs : o = cur[t]
    BY <1>3
  <1>5. CASE Returns(t) /\ obj' = obj
    <2>1. CallsGo
      BY <1>2, <1>5, TameCalls DEF Returns
    <2>2. OwnOK(t)' /\ LeaveOK(t)' /\ ~Walking(t)' /\ \A x \in Objs : ~InAlloc(t, x)'
      BY <1>5 DEF Returns, OwnOK, LeaveOK, Walking, InAlloc, Allocates, NoCall
    <2>3. TimersOK'
      BY <1>0, <1>1, <1>2, <1>5, TimersStep DEF Born
    <2>4. pc'[t] = "idle" /\ cur'[t] = NoOne
      BY <1>5 DEF Returns
    <2>5. timer'[cur[t]].initialized => timer[cur[t]].initialized
      BY <1>1
    <2> QED
      BY <1>1, <1>2, <1>3, <1>5, <2>1, <2>2, <2>3, <2>4, <2>5, TimerCalmStep
  <1>6. CASE /\ ObjGoes(cur[t], "live", 1, FALSE, 0, 0, 0, FALSE)
             /\ Stays(t, (IF cur[t] \in Timers THEN "timer_lock" ELSE IF cur[t] \in Simples THEN "submit" ELSE "init"))
             /\ UNCHANGED <<cur, todo, call>>
    <2>0. ~Born(o) /\ call[t].obj = o
      BY <1>3, <1>4
    <2>1. /\ \A x \in Objs : x # o => obj'[x] = obj[x]
          /\ obj'[o].state = "live" /\ obj'[o].pending = 0 /\ obj'[o].member = FALSE
      BY <1>4, <1>6 DEF ObjGoes
    <2>2. /\ pc'[t] \in {"timer_lock", "submit", "init"} /\ (o \in Timers => pc'[t] = "timer_lock")
          /\ cur' = cur /\ call' = call /\ todo' = todo
      BY <1>4, <1>6 DEF Stays
    <2>3. \A x \in Objs : (Born(x) => Born(x)') /\ (x # o => (Born(x)' <=> Born(x)))
      BY <2>0, <2>1 DEF Born
    <2>4. Keeps(t)
      <3>1. \A x \in Objs : InAlloc(t, x)' => ~Born(x)
        BY <2>0, <2>2 DEF InAlloc
      <3> QED
        BY <1>1, <1>2, <2>3, <3>1 DEF Keeps
    <2>5. StillKept(t)
      BY <1>0, <2>1 DEF StillKept, Still
    <2>6. OwnKept(t)
      BY <1>1, <1>4, <2>1, <2>2 DEF OwnKept
    <2>7. /\ obj[o].pending = 0 /\ ~timer[o].initialized /\ ~timer[o].pending /\ ~timer[o].due
      BY <2>0 DEF BirthInv
    <2>8. ASSUME NEW u \in Threads \ {t} PROVE cur[u] # o
      <3> SUFFICES ASSUME cur[u] = o PROVE FALSE
        OBVIOUS
      <3>1. pc[u] = "pool_lock"
        BY <2>0 DEF BirthInv
      <3>2. u \in Clients
        BY <3>1, Kinds DEF ThreadsInv, WorkerOK, TimerThreadOK
      <3>3. PlaceOK(u) /\ WorkOK(u)
        BY <3>2 DEF ThreadsInv
      <3>4. Allocates(u) /\ call[u].obj = o
        BY <3>1, <3>3 DEF PlaceOK, WorkOK, Allocates
      <3> QED
        BY <2>0, <3>2, <3>4 DEF BirthInv
    <2>9. OwnOK(t)' /\ WalkOK(t)' /\ LeaveOK(t)'
      <3>1. OwnOK(t)'
        BY <1>1, <1>4, <2>1, <2>2, <2>7, <2>8 DEF OwnOK
      <3>2. call'[t].fn # "members" /\ ~Walking(t)'
        BY <1>3, <2>2 DEF Allocates, Walking
      <3> QED
        BY <3>1, <3>2 DEF WalkOK, LeaveOK
    <2>10. TimersOK'
      <3>1. ASSUME NEW x \in Objs PROVE TimerOK(x)'
        <4>1. CASE x = o
          BY <1>1, <1>4, <2>2, <2>7, <4>1 DEF TimerOK
        <4>2. CASE x # o
          <5>0. TimerOK(x)
            BY <1>0 DEF TimersOK
          <5>1. ASSUME x \in Timers, Born(x)', x \notin closed', ~timer'[x].initialized
                PROVE  \E u \in Clients : pc'[u] = "timer_lock" /\ cur'[u] = x
            <6>1. PICK u \in Clients : pc[u] = "timer_lock" /\ cur[u] = x
              BY <1>1, <2>3, <4>2, <5>0, <5>1 DEF TimerOK
            <6>2. u # t
              BY <1>0, <6>1
            <6>3. pc'[u] = "timer_lock" /\ cur'[u] = x
              BY <1>0, <1>2, <6>1, <6>2, OtherClient
            <6> QED
              BY <6>3
          <5> QED
            BY <1>1, <5>0, <5>1 DEF TimerOK
        <4> QED
          BY <4>1, <4>2
      <3>2. pc'[TimerThread] = "submit" => timer'[cur'[TimerThread]].initialized
        BY <1>0, <1>1, <1>2, <2>2, Kinds DEF TimersOK, Moved, Drift
      <3> QED
        BY <3>1, <3>2 DEF TimersOK
    <2>11. ~Among(o, group.members)
      BY <1>0, <2>0 DEF ListOK, MemberOK, Settled
    <2>12. Lists(t)
      <3>1. obj[o].member = FALSE
        BY <2>11, MemberListed DEF TypesInv, ObjRecords
      <3> QED
        BY <1>1, <2>1, <3>1 DEF Lists
    <2>13. ListKept(t)
      BY <2>1, <2>2, <2>11 DEF ListKept, Gone, GroupCalls
    <2>14. ListOK' /\ \A u \in Clients \ {t} : WalkOK(u)'
      BY <1>0, <2>4, <2>12, <2>13, ListStep, OtherWalk DEF QuietInv
    <2>15. CallersOK'
      BY <1>0, <1>1, <2>2, CallersStep DEF CallsGo
    <2> QED
      BY <1>0, <1>1, <2>4, <2>5, <2>6, <2>9, <2>10, <2>14, <2>15, GroupStep
  <1> QED
    BY <1>5, <1>6, PoolLockDoes

LEMMA InitializeQuiet ==
  ASSUME TypesInv, TypesInv', ThreadsInv, BirthInv, QuietInv, NEW t \in Clients, Initialize(t)
  PROVE  QuietInv'
  <1>0. /\ PlaceOK(t) /\ WorkOK(t) /\ t \in Threads /\ t # TimerThread /\ t \notin Workers /\ pc[t] = "init"
        /\ CallersOK /\ TimersOK /\ ListOK /\ OwnOK(t)
    BY ClientAt, Kinds DEF Initialize, QuietInv
  <1>1. /\ closed' = closed /\ quiet' = quiet /\ groupCs' = groupCs /\ timer' = timer /\ timerCs' = timerCs
    BY DEF Initialize, history, locks
  <1>2. /\ Moved(t) /\ Alone(t)
        /\ (cur[t] \in Simples => Stays(t, "drop")) /\ (cur[t] \notin Simples => Returns(t))
    BY InitializeDoes
  <1>3. Allocates(t) /\ cur[t] = call[t].obj /\ cur[t] \in Objs /\ ~Walking(t) /\ call[t] \in Calls
    <2>1. Allocates(t) /\ cur[t] = call[t].obj /\ ~Walking(t)
      BY <1>0 DEF PlaceOK, WorkOK, Allocates, Walking
    <2> QED
      BY <1>0, <2>1, ClientCur, InCalls
  <1>4. PICK o \in Objs : o = cur[t] /\ Born(o)
    BY <1>0, <1>3, CurBorn
  <1>5. /\ pc'[t] \in {"drop", "idle"} /\ (o \notin Simples => pc'[t] = "idle") /\ call'[t].fn \in {"simple", "none"}
        /\ (cur'[t] = cur[t] \/ cur'[t] = NoOne) /\ (call'[t] = call[t] \/ call'[t] = NoCall)
        /\ (o \notin Simples => call[t].fn = "alloc")
    BY <1>2, <1>3, <1>4 DEF Stays, Returns, Allocates, NoCall, Calls
  <1>6. CallsGo
    BY <1>2, <1>5, TameCalls
  <1>7. /\ OwnOK(t)' /\ LeaveOK(t)' /\ WalkOK(t)' /\ ~Walking(t)' /\ \A x \in Objs : ~InAlloc(t, x)'
    BY <1>5 DEF OwnOK, LeaveOK, WalkOK, Walking, InAlloc, Allocates
  <1>8. /\ o \notin Grouped => group' = group /\ obj' = obj
        /\ o \in Grouped =>
              /\ group'.members = Append(group.members, o)
              /\ ObjGoes(o, obj[o].state, obj[o].ref, obj[o].shutdown, obj[o].pending, obj[o].running,
                         obj[o].associated, TRUE)
    BY <1>4, InitializeDoes DEF GroupGoes
  <1>9. \A x \in Objs : /\ obj'[x].state = obj[x].state /\ obj'[x].pending = obj[x].pending
                        /\ x # o => obj'[x].member = obj[x].member
                        /\ Born(x)' <=> Born(x)
    BY <1>8 DEF ObjGoes, Born
  <1>10. TimersOK'
    BY <1>0, <1>1, <1>2, <1>9, TimersStep
  <1>11. CASE o \notin Grouped
    <2>1. timer'[cur[t]].initialized => timer[cur[t]].initialized
      BY <1>1
    <2> QED
      BY <1>1, <1>2, <1>3, <1>5, <1>6, <1>7, <1>8, <1>10, <1>11, <2>1, TimerCalmStep
  <1>12. CASE o \in Grouped
    <2>0. groupCs = NoOne
      BY <1>4, <1>12 DEF Initialize
    <2>1. ~Among(o, group.members)
      <3>1. InAlloc(t, o)
        BY <1>0, <1>3, <1>4 DEF InAlloc
      <3> QED
        BY <1>0, <3>1 DEF ListOK, MemberOK, Settled
    <2>2. Keeps(t)
      BY <1>1, <1>2, <1>7, <1>9 DEF Keeps
    <2>3. StillKept(t)
      BY <1>0, <1>9 DEF StillKept, Still
    <2>4. OwnKept(t)
      BY <1>1, <1>5, <1>9, Kinds DEF OwnKept
    <2>5. /\ group.members \in Seq(Objs) /\ Distinct(group.members)
          /\ Distinct(group'.members)
          /\ \A x : Among(x, group'.members) <=> x = o \/ Among(x, group.members)
      <3>1. group.members \in Seq(Objs) /\ Distinct(group.members)
        BY <1>0 DEF TypesInv, GroupRecords, ListOK
      <3>2. /\ Distinct(Append(group.members, o))
            /\ \A x : Among(x, Append(group.members, o)) <=> x = o \/ Among(x, group.members)
        BY <2>1, <3>1, AppendFacts
      <3> QED
        BY <1>8, <1>12, <3>1, <3>2
    <2>6. MemberOK(o)'
      <3>1. Settled(o)'
        <4>1. ASSUME NEW u \in Clients, InAlloc(u, o)' PROVE FALSE
          <5>1. u # t
            BY <1>7, <4>1
          <5>2. call'[u] = call[u]
            BY <1>2, <5>1 DEF Alone
          <5>3. Allocates(u) /\ call[u].obj = call[t].obj
            BY <1>3, <1>4, <4>1, <5>2 DEF InAlloc, Allocates
          <5> QED
            BY <5>1, <5>3 DEF BirthInv
        <4> QED
          BY <1>4, <1>9, <4>1 DEF Settled
      <3>2. ASSUME o \notin Simples
            PROVE  obj'[o].state = "live" /\ \A u \in Threads : cur'[u] = o => pc'[u] \notin {"unlock_pool", "free"}
        <4>1. obj[o].state = "live" /\ \A u \in Threads \ {t} : cur[u] # o
          BY <1>0, <1>4, <1>5, <3>2 DEF OwnOK
        <4> QED
          BY <1>2, <1>5, <1>9, <3>2, <4>1 DEF Alone
      <3>3. ASSUME NEW u \in Clients, call'[u].fn = "members", o \notin Simples PROVE FALSE
        <4>1. u # t
          BY <1>5, <3>3
        <4>2. call[u].fn = "members"
          BY <1>2, <3>3, <4>1 DEF Alone
        <4> QED
          BY <1>0, <1>3, <1>4, <1>5, <1>12, <3>3, <4>2 DEF CallersOK
      <3> QED
        BY <1>12, <3>1, <3>2, <3>3 DEF MemberOK
    <2>7. ASSUME NEW x \in Objs, Among(x, group.members)' PROVE MemberOK(x)'
      <3>1. x = o \/ Among(x, group.members)
        BY <2>5, <2>7 DEF Among
      <3>2. CASE x # o
        <4>1. MemberOK(x) /\ ~Gone(t, x)'
          BY <1>0, <1>5, <3>1, <3>2 DEF ListOK, Gone
        <4>2. GroupCalls
          BY <1>6 DEF GroupCalls, CallsGo, NoCall
        <4> QED
          BY <1>0, <1>9, <2>2, <4>1, <4>2, MemberKept
      <3> QED
        BY <2>6, <3>2
    <2>8. ASSUME NEW x \in Objs PROVE Among(x, group.members)' <=> obj'[x].member
      <3>1. Among(x, group.members)' <=> x = o \/ Among(x, group.members)
        BY <2>5 DEF Among
      <3>2. obj'[o].member = TRUE
        BY <1>8, <1>12 DEF ObjGoes
      <3> QED
        BY <1>0, <1>9, <2>0, <3>1, <3>2 DEF ListOK
    <2>9. ListOK'
      <3>1. Distinct(group.members)'
        BY <2>5 DEF Distinct
      <3> QED
        BY <2>7, <2>8, <3>1 DEF ListOK
    <2>10. ASSUME NEW u \in Clients \ {t} PROVE WalkOK(u)'
      <3>1. ~Walking(u)
        BY <2>0, GroupLock
      <3>2. ~Walking(u)'
        BY <1>0, <1>2, <3>1, OtherClient DEF Walking
      <3> QED
        BY <3>2 DEF WalkOK
    <2>11. CallersOK'
      BY <1>0, <1>1, <1>6, CallersStep
    <2> QED
      BY <1>0, <1>1, <1>7, <1>10, <2>2, <2>3, <2>4, <2>9, <2>10, <2>11, GroupStep
  <1> QED
    BY <1>11, <1>12

-----------------------------------------------------------------------------
(* The release of the group's members.                                     *)

\* While t walks over the list, nobody else does.
LEMMA WalksAlone ==
  ASSUME TypesInv, ThreadsInv, NEW t \in Clients, Walking(t), Moved(t), NEW u \in Clients \ {t}
  PROVE  WalkOK(u)'
  <1>1. ~Walking(u)
    BY GroupLock
  <1>2. ~Walking(u)'
    BY <1>1, Kinds, OtherClient DEF Walking
  <1> QED
    BY <1>2 DEF WalkOK

LEMMA MembersQ ==
  ASSUME TypesInv, TypesInv', ThreadsInv, QuietInv, NEW t \in Clients, Members(t)
  PROVE  QuietInv'
  <1>0. /\ PlaceOK(t) /\ WorkOK(t) /\ t \in Threads /\ t # TimerThread /\ t \notin Workers /\ t # NoOne
        /\ pc[t] = "members" /\ groupCs = NoOne /\ pc \in [Threads -> Places] /\ CallersOK /\ TimersOK /\ ListOK
    BY ClientAt, Kinds DEF Members, QuietInv
  <1>1. /\ closed' = closed /\ quiet' = quiet /\ timer' = timer /\ timerCs' = timerCs /\ obj' = obj /\ group' = group
        /\ call' = call /\ cur' = cur /\ groupCs' = t /\ pc'[t] = "walk" /\ todo'[t] = group.members
    BY <1>0 DEF Members, history, TypesInv
  <1>2. Moved(t) /\ call[t].fn = "members"
    BY <1>0, MembersDoes DEF PlaceOK
  <1>3. CallsGo /\ GroupCalls /\ (\A x \in Objs : (Born(x)' <=> Born(x)) /\ ~InAlloc(t, x)')
    BY <1>1, <1>2 DEF CallsGo, GroupCalls, Born, InAlloc, Allocates
  <1>4. Keeps(t)
    BY <1>1, <1>2, <1>3 DEF Keeps
  <1>5. StillKept(t) /\ OwnKept(t)
    BY <1>0, <1>1 DEF StillKept, OwnKept, Still
  <1>6. WalkOK(t)'
    <2>1. \A x \in Objs : Among(x, todo'[t]) <=> Among(x, group.members)
      BY <1>1 DEF Among
    <2>2. Distinct(todo'[t])
      BY <1>0, <1>1 DEF ListOK
    <2>3. \A x \in Objs : Among(x, group.members) <=> obj[x].member
      BY <1>0 DEF ListOK
    <2> QED
      BY <1>1, <2>1, <2>2, <2>3 DEF WalkOK, Among, Distinct
  <1>7. OwnOK(t)' /\ LeaveOK(t)'
    BY <1>1, <1>2 DEF OwnOK, LeaveOK, Walking
  <1>8. Lists(t) /\ ListKept(t)
    BY <1>0, <1>1, <1>3 DEF Lists, ListKept, Gone
  <1>9. ListOK' /\ \A u \in Clients \ {t} : WalkOK(u)'
    BY <1>0, <1>4, <1>8, ListStep, OtherWalk DEF QuietInv
  <1>10. CallersOK' /\ TimersOK'
    BY <1>0, <1>1, <1>2, <1>3, CallersStep, TimersStep
  <1> QED
    BY <1>0, <1>1, <1>4, <1>5, <1>6, <1>7, <1>9, <1>10, GroupStep

LEMMA MemberStepQuiet ==
  ASSUME TypesInv, TypesInv', ThreadsInv, QuietInv, NEW t \in Clients, MemberStep(t)
  PROVE  QuietInv'
  <1>0. /\ PlaceOK(t) /\ WorkOK(t) /\ t \in Threads /\ t # TimerThread /\ t \notin Workers /\ t # NoOne
        /\ pc[t] = "walk" /\ todo[t] # <<>> /\ Walking(t) /\ WalkOK(t) /\ CallersOK /\ TimersOK /\ ListOK
    BY ClientAt, Kinds DEF MemberStep, QuietInv, Walking
  <1>1. /\ closed' = closed /\ quiet' = quiet /\ timer' = timer /\ timerCs' = timerCs /\ groupCs' = groupCs
        /\ call' = call
    BY DEF MemberStep, history, locks
  <1>2. Moved(t) /\ call[t].fn = "members" /\ groupCs = t
    BY <1>0, MemberStepDoes DEF PlaceOK, WorkOK
  <1>3. todo[t] \in Seq(Objs) /\ Distinct(todo[t])
    <2>1. \A k \in 1..Len(todo[t]) : todo[t][k] \in Objs
      BY <1>0 DEF WorkOK
    <2>2. todo[t] \in Seq(Objs \cup Steps)
      BY DEF TypesInv
    <2> QED
      BY <1>0, <2>1, <2>2, SeqAmong DEF WalkOK
  <1>4. PICK o \in Objs : o = Head(todo[t])
    BY <1>0, <1>3, SeqFacts
  <1>5. /\ Distinct(Tail(todo[t])) /\ Among(o, todo[t])
        /\ \A x : Among(x, Tail(todo[t])) <=> x # o /\ Among(x, todo[t])
    BY <1>0, <1>3, <1>4, TailFacts
  <1>6. obj[o].member /\ Among(o, group.members) /\ MemberOK(o) /\ (o \in Timers => o \in closed)
    <2>1. obj[o].member /\ Among(o, group.members)
      BY <1>0, <1>5 DEF WalkOK
    <2>2. MemberOK(o)
      BY <1>0, <2>1 DEF ListOK
    <2> QED
      BY <1>2, <2>1, <2>2, Kinds DEF MemberOK
  <1>7. /\ todo'[t] = Tail(todo[t]) /\ call'[t] = call[t]
        /\ \A x \in Objs : /\ obj'[x].state = obj[x].state /\ obj'[x].pending = obj[x].pending
                           /\ x # o => obj'[x].member = obj[x].member
                           /\ Born(x)' <=> Born(x)
        /\ obj'[o].member = FALSE
        /\ pc'[t] = (IF ~Dying(o) /\ o \in Timers THEN "walk_timer" ELSE "walk")
        /\ cur'[t] = (IF Dying(o) THEN cur[t] ELSE o)
        /\ Dying(o) => group'.members = Unlink(group.members, o)
        /\ ~Dying(o) => group'.members = group.members
    <2>1. CASE Dying(o)
      <3>1. /\ GroupGoes(group.ref, group.shutdown, LeaveGroup(o))
            /\ ObjGoes(o, obj[o].state, obj[o].ref, obj[o].shutdown, obj[o].pending, obj[o].running,
                       obj[o].associated, FALSE)
            /\ pc'[t] = "walk" /\ cur'[t] = cur[t] /\ todo'[t] = Tail(todo[t])
        BY <1>4, <2>1, MemberStepDoes
      <3> QED
        BY <1>1, <1>6, <2>1, <3>1 DEF GroupGoes, ObjGoes, LeaveGroup, Born
    <2>2. CASE ~Dying(o)
      <3>1. /\ group' = group
            /\ ObjGoes(o, obj[o].state, obj[o].ref + 1, obj[o].shutdown, obj[o].pending, obj[o].running,
                       obj[o].associated, FALSE)
            /\ pc'[t] = (IF o \in Timers THEN "walk_timer" ELSE "walk") /\ cur'[t] = o /\ todo'[t] = Tail(todo[t])
        BY <1>4, <2>2, MemberStepDoes
      <3> QED
        BY <1>1, <2>2, <3>1 DEF ObjGoes, Born
    <2> QED
      BY <2>1, <2>2
  <1>8. CallsGo /\ GroupCalls /\ \A x \in Objs : ~InAlloc(t, x)'
    BY <1>1, <1>2 DEF CallsGo, GroupCalls, InAlloc, Allocates
  <1>9. Keeps(t)
    BY <1>1, <1>2, <1>7, <1>8 DEF Keeps
  <1>10. StillKept(t)
    BY <1>0, <1>7 DEF StillKept, Still
  <1>11. OwnKept(t)
    BY <1>1, <1>6, <1>7 DEF OwnKept, MemberOK
  <1>12. /\ Distinct(group'.members)
         /\ \A x : Among(x, group'.members) <=> Among(x, group.members) /\ (Dying(o) => x # o)
    <2>1. group.members \in Seq(Objs) /\ Distinct(group.members)
      BY <1>0 DEF TypesInv, GroupRecords, ListOK
    <2>2. /\ Distinct(Unlink(group.members, o))
          /\ \A x : Among(x, Unlink(group.members, o)) <=> x # o /\ Among(x, group.members)
      BY <1>6, <2>1, UnlinkFacts
    <2> QED
      BY <1>7, <2>1, <2>2
  <1>13. WalkOK(t)'
    <2>1. Distinct(todo[t])' /\ \A x \in Objs : Among(x, todo[t])' <=> x # o /\ Among(x, todo[t])
      <3>1. Distinct(todo'[t]) /\ \A x \in Objs : Among(x, todo'[t]) <=> x # o /\ Among(x, todo[t])
        BY <1>5, <1>7
      <3> QED
        BY <3>1 DEF Distinct, Among
    <2>2. \A x \in Objs : Among(x, group.members)' <=> Among(x, group.members) /\ (Dying(o) => x # o)
      BY <1>12 DEF Among
    <2>3. ASSUME NEW x \in Objs PROVE Among(x, todo[t])' <=> obj'[x].member
      BY <1>0, <1>7, <2>1 DEF WalkOK
    <2>4. ASSUME NEW x \in Objs, obj'[x].member PROVE Among(x, group.members)'
      BY <1>0, <1>7, <2>2, <2>4 DEF WalkOK
    <2>5. ASSUME NEW x \in Objs, Among(x, group.members)'
          PROVE  Among(x, todo[t])' \/ ~timer'[x].initialized \/ (pc'[t] = "walk_timer" /\ cur'[t] = x)
      <3>1. CASE x = o
        <4>1. ~Dying(o)
          BY <2>2, <2>5, <3>1
        <4>2. o \notin Timers => ~timer[o].initialized
          BY <1>0 DEF TimersOK, TimerOK
        <4> QED
          BY <1>1, <1>7, <3>1, <4>1, <4>2
      <3>2. CASE x # o
        <4>1. Among(x, todo[t]) \/ ~timer[x].initialized
          BY <1>0, <2>2, <2>5 DEF WalkOK
        <4> QED
          BY <1>1, <2>1, <3>2, <4>1
      <3> QED
        BY <3>1, <3>2
    <2>6. pc'[t] = "walk_timer" => cur'[t] \in closed'
      BY <1>1, <1>6, <1>7
    <2> QED
      BY <2>1, <2>3, <2>4, <2>5, <2>6 DEF WalkOK
  <1>14. OwnOK(t)' /\ LeaveOK(t)'
    BY <1>2, <1>7 DEF OwnOK, LeaveOK, Walking
  <1>15. ListOK'
    <2>1. ASSUME NEW x \in Objs, Among(x, group.members)' PROVE MemberOK(x)'
      <3>1. MemberOK(x)
        BY <1>0, <1>12, <2>1 DEF ListOK, Among
      <3>2. ~Gone(t, x)'
        BY <1>7 DEF Gone
      <3> QED
        BY <1>0, <1>7, <1>8, <1>9, <3>1, <3>2, MemberKept
    <2>2. Distinct(group.members)' /\ groupCs' # NoOne
      BY <1>0, <1>1, <1>2, <1>12 DEF Distinct
    <2> QED
      BY <2>1, <2>2 DEF ListOK
  <1>16. CallersOK' /\ TimersOK'
    BY <1>0, <1>1, <1>2, <1>7, <1>8, CallersStep, TimersStep
  <1>17. \A u \in Clients \ {t} : WalkOK(u)'
    BY <1>0, <1>2, WalksAlone
  <1> QED
    BY <1>0, <1>1, <1>9, <1>10, <1>11, <1>13, <1>14, <1>15, <1>16, <1>17, GroupStep

LEMMA MemberTimerQuiet ==
  ASSUME TypesInv, TypesInv', ThreadsInv, QuietInv, NEW t \in Clients, MemberTimer(t)
  PROVE  QuietInv'
  <1>0. /\ PlaceOK(t) /\ WorkOK(t) /\ t \in Threads /\ t \notin Workers /\ t # NoOne /\ pc[t] = "walk_timer"
        /\ timerCs = NoOne /\ Walking(t) /\ WalkOK(t) /\ CallersOK /\ TimersOK /\ ListOK /\ pc \in [Threads -> Places]
    BY ClientAt, Kinds DEF MemberTimer, QuietInv, Walking
  <1>1. /\ closed' = closed /\ quiet' = quiet /\ group' = group /\ groupCs' = groupCs /\ obj' = obj
        /\ timerCs' = NoOne /\ pc'[t] = "walk" /\ cur' = cur /\ call' = call /\ todo' = todo
    BY <1>0 DEF MemberTimer, history, locks
  <1>2. /\ Moved(t) /\ call[t].fn = "members"
        /\ TimerGoes(cur[t], FALSE, FALSE, timer[cur[t]].due)
    BY <1>0, MemberTimerDoes DEF PlaceOK
  <1>3. PICK o \in Objs : o = cur[t] /\ o \in closed
    BY <1>0, Kinds DEF WorkOK, WalkOK
  <1>4. /\ \A x \in Objs \ {o} : timer'[x] = timer[x]
        /\ timer'[o].initialized = FALSE /\ timer'[o].pending = FALSE /\ timer'[o].due = timer[o].due
    BY <1>2, <1>3 DEF TimerGoes
  <1>5. CallsGo /\ GroupCalls /\ \A x \in Objs : ~InAlloc(t, x)' /\ (Born(x)' <=> Born(x))
    BY <1>1, <1>2 DEF CallsGo, GroupCalls, InAlloc, Allocates, Born
  <1>6. Keeps(t)
    BY <1>1, <1>2, <1>4, <1>5 DEF Keeps
  <1>7. StillKept(t)
    BY <1>0, <1>1 DEF StillKept, Still
  <1>8. OwnKept(t)
    BY <1>1, <1>3, <1>4 DEF OwnKept
  <1>9. TimersOK'
    BY <1>0, <1>1, <1>2, <1>3, <1>4, <1>5, TimersChange
  <1>10. WalkOK(t)'
    <2>1. ASSUME NEW x \in Objs, Among(x, group.members) PROVE Among(x, todo[t]) \/ ~timer'[x].initialized
      BY <1>0, <1>3, <1>4, <2>1 DEF WalkOK
    <2> QED
      BY <1>0, <1>1, <2>1 DEF WalkOK, Among, Distinct
  <1>11. OwnOK(t)' /\ LeaveOK(t)'
    BY <1>1, <1>2 DEF OwnOK, LeaveOK, Walking
  <1>12. Lists(t) /\ ListKept(t)
    BY <1>1, <1>5 DEF Lists, ListKept, Gone
  <1>13. ListOK' /\ \A u \in Clients \ {t} : WalkOK(u)'
    BY <1>0, <1>2, <1>6, <1>12, ListStep, WalksAlone
  <1>14. CallersOK'
    BY <1>0, <1>1, <1>5, CallersStep
  <1> QED
    BY <1>0, <1>1, <1>6, <1>7, <1>8, <1>9, <1>10, <1>11, <1>13, <1>14, GroupStep

LEMMA MembersLeaveQuiet ==
  ASSUME TypesInv, TypesInv', ThreadsInv, QuietInv, NEW t \in Clients, MembersLeave(t)
  PROVE  QuietInv'
  <1>0. /\ PlaceOK(t) /\ WorkOK(t) /\ t \in Threads /\ t # TimerThread /\ t \notin Workers /\ NoOne \notin Objs
        /\ pc[t] = "walk" /\ todo[t] = <<>> /\ Walking(t) /\ WalkOK(t) /\ CallersOK /\ TimersOK /\ ListOK
    BY ClientAt, Kinds DEF MembersLeave, QuietInv, Walking
  <1>1. /\ closed' = closed /\ quiet' = quiet /\ timer' = timer /\ timerCs' = timerCs /\ obj' = obj
        /\ groupCs' = NoOne
    BY DEF MembersLeave, history
  <1>2. /\ Moved(t) /\ call[t].fn = "members" /\ group'.members = <<>>
        /\ Leaving(t) \in Seq(Steps) /\ After(t, Leaving(t))
    BY <1>0, MembersLeaveDoes DEF PlaceOK, GroupGoes
  <1>3. \A x : ~Among(x, <<>>)
    BY DEF Among
  <1>4. ASSUME NEW x \in Objs, Among(x, group.members) PROVE Shut(x)
    <2>1. MemberOK(x)
      BY <1>0, <1>4 DEF ListOK
    <2>2. ~timer[x].initialized
      BY <1>0, <1>3, <1>4 DEF WalkOK
    <2> QED
      BY <1>2, <2>1, <2>2 DEF MemberOK, Shut
  <1>5. \A k \in 1..Len(Leaving(t)) : Shut(Leaving(t)[k].obj)
    <2> DEFINE m == Len(group.members)
               s == Leaving(t)
    <2>0. group.members \in Seq(Objs)
      BY DEF TypesInv, GroupRecords
    <2>1. m \in Nat /\ \A k \in 1..m : Shut(group.members[k])
      BY <1>4, <2>0 DEF Among
    <2>2. CASE ~call[t].cancel
      <3>1. Len(s) = m /\ \A k \in 1..m : s[k] = [do |-> "wait", obj |-> group.members[k]]
        BY <2>0, <2>2, LeavingFacts
      <3> HIDE DEF s, m
      <3>2. ASSUME NEW k \in 1..Len(s) PROVE Shut(s[k].obj)
        <4>1. s[k].obj = group.members[k]
          BY <2>1, <3>1
        <4> QED
          BY <2>1, <3>1, <4>1
      <3> QED
        BY <3>2 DEF s
    <2>3. CASE call[t].cancel
      <3>1. /\ Len(s) = m + m
            /\ \A k \in 1..m : /\ s[k] = [do |-> "cancel", obj |-> group.members[k]]
                               /\ s[m + k] = [do |-> "wait", obj |-> group.members[k]]
        BY <2>0, <2>3, LeavingFacts
      <3> HIDE DEF s, m
      <3>2. ASSUME NEW k \in 1..Len(s) PROVE Shut(s[k].obj)
        <4>1. CASE k \in 1..m
          <5>1. s[k] = [do |-> "cancel", obj |-> group.members[k]]
            BY <3>1, <4>1
          <5> QED
            BY <2>1, <4>1, <5>1
        <4>2. CASE k \notin 1..m
          <5>1. k - m \in 1..m /\ m + (k - m) = k
            BY <2>1, <3>1, <4>2
          <5>2. s[k] = [do |-> "wait", obj |-> group.members[k - m]]
            BY <3>1, <5>1
          <5> QED
            BY <2>1, <5>1, <5>2
        <4> QED
          BY <4>1, <4>2
      <3> QED
        BY <3>2 DEF s
    <2> QED
      BY <2>2, <2>3
  <1>6. /\ pc'[t] \in {"idle", "cancel", "wait"} /\ (call'[t] = call[t] \/ call'[t] = NoCall)
    <2>1. Leaving(t) # <<>> => Leaving(t)[1] \in Steps
      BY <1>2, SeqFacts
    <2>2. /\ Leaving(t) = <<>> => pc'[t] = "idle" /\ call'[t] = NoCall
          /\ Leaving(t) # <<>> => pc'[t] = Leaving(t)[1].do /\ call'[t] = call[t]
      BY <1>2, AfterFacts
    <2> QED
      BY <2>1, <2>2 DEF Steps
  <1>7. \A x \in Objs : ~InAlloc(t, x)' /\ (Born(x)' <=> Born(x))
    BY <1>1, <1>6 DEF InAlloc, Born
  <1>8. Keeps(t)
    BY <1>1, <1>2, <1>7 DEF Keeps
  <1>9. LeaveOK(t)' /\ ~Walking(t)' /\ CallsGo /\ (cur'[t] = NoOne \/ Settled(cur'[t]))
    BY <1>2, <1>5, <1>8, AfterLeave
  <1>10. StillKept(t)
    BY <1>0, <1>1 DEF StillKept, Still
  <1>11. OwnKept(t)
    BY <1>0, <1>1, <1>9 DEF OwnKept
  <1>12. OwnOK(t)' /\ WalkOK(t)'
    BY <1>2, <1>6, <1>9 DEF OwnOK, WalkOK, NoCall
  <1>13. ListOK'
    <2>1. ASSUME NEW x \in Objs PROVE ~obj[x].member
      BY <1>0, <1>3 DEF WalkOK
    <2>2. ASSUME NEW x \in Objs PROVE ~Among(x, group.members)'
      BY <1>2, <1>3 DEF Among
    <2>3. Distinct(group.members)'
      BY <1>2 DEF Distinct
    <2> QED
      BY <1>1, <2>1, <2>2, <2>3 DEF ListOK
  <1>14. CallersOK' /\ TimersOK'
    BY <1>0, <1>1, <1>2, <1>7, <1>9, CallersStep, TimersStep
  <1>15. \A u \in Clients \ {t} : WalkOK(u)'
    BY <1>0, <1>2, WalksAlone
  <1> QED
    BY <1>0, <1>1, <1>8, <1>9, <1>10, <1>11, <1>12, <1>13, <1>14, <1>15, GroupStep

-----------------------------------------------------------------------------
(* A call begins: it may close objects, and only those that nobody uses.   *)

\* What the program keeps to.
LEMMA MayFacts ==
  ASSUME TypesInv, NEW c \in Calls, May(c)
  PROVE  /\ c.fn \in {"alloc", "simple"} => c.obj \in Objs /\ ~Born(c.obj)
         /\ c.fn \in {"post", "set", "wait", "release"} => c.obj \in Objs /\ Settled(c.obj) /\ c.obj \notin closed
         /\ c.fn = "release" => \A u \in Clients : call[u].obj # c.obj
         /\ c.fn = "alloc" => c.obj \notin Simples /\ (c.obj \in Grouped => \A u \in Clients : call[u].fn # "members")
         /\ c.fn = "members" => \A u \in Clients : call[u].obj \in Grouped => call[u].obj \in Simples
         /\ c.fn \notin {"alloc", "simple", "post", "set", "wait", "release"} => c.obj \notin Objs
  <1>0. call \in [Clients -> Calls \cup {NoCall}]
    BY DEF TypesInv
  <1>1. c.fn \in {"alloc", "simple"} => c.obj \in Objs /\ ~Born(c.obj)
    BY Kinds DEF May, Born, Calls
  <1>2. ASSUME c.fn \in {"post", "set", "wait", "release"}
        PROVE  c.obj \in Objs /\ Settled(c.obj) /\ c.obj \notin closed
    <2>1. Open(c.obj)
      BY <1>2 DEF May
    <2>2. c.obj \in Objs
      BY <1>2, Kinds DEF Calls
    <2>3. ASSUME NEW u \in Clients, InAlloc(u, c.obj) PROVE FALSE
      <3>1. call[u].fn = "simple" /\ call[u].obj = c.obj /\ c.obj \notin Simples
        BY <2>1, <2>3 DEF InAlloc, Allocates, Open, InCall
      <3>2. call[u] \in Calls
        BY <1>0, <3>1 DEF NoCall
      <3> QED
        BY <3>1, <3>2 DEF Calls
    <2> QED
      BY <2>1, <2>2, <2>3 DEF Open, Settled, Born
  <1>3. c.fn = "release" => \A u \in Clients : call[u].obj # c.obj
    BY DEF May, InCall
  <1>4. c.fn = "alloc" => c.obj \notin Simples /\ (c.obj \in Grouped => \A u \in Clients : call[u].fn # "members")
    <2>1. c.fn = "alloc" => c.obj \notin Simples
      BY DEF Calls
    <2> QED
      BY <2>1 DEF May, NobodyIn
  <1>5. c.fn = "members" => \A u \in Clients : call[u].obj \in Grouped => call[u].obj \in Simples
    BY DEF May
  <1>6. c.fn \notin {"alloc", "simple", "post", "set", "wait", "release"} => c.obj \notin Objs
    BY Kinds DEF Calls
  <1> QED
    BY <1>1, <1>2, <1>3, <1>4, <1>5, <1>6

LEMMA BeginQuiet ==
  ASSUME TypesInv, TypesInv', ThreadsInv, QuietInv, NEW t \in Clients, Begin(t)
  PROVE  QuietInv'
  <1>0. /\ PlaceOK(t) /\ WorkOK(t) /\ t \in Threads /\ t # TimerThread /\ t \notin Workers /\ pc[t] = "idle"
        /\ pc \in [Threads -> Places] /\ cur \in [Threads -> Objs \cup {NoOne}]
        /\ call \in [Clients -> Calls \cup {NoCall}] /\ script[t] \in Seq(Calls) /\ script[t] # <<>>
        /\ CallersOK /\ TimersOK /\ ListOK
    BY ClientAt, Kinds DEF Begin, QuietInv, TypesInv
  <1>1. PICK c \in Calls : c = Head(script[t])
    BY <1>0
  <1>2. /\ pc'[t] = FirstStep(c) /\ cur'[t] = c.obj /\ call'[t] = c /\ May(c)
        /\ \A u \in Clients \ {t} : call'[u] = call[u]
        /\ obj' = obj /\ timer' = timer /\ timerCs' = timerCs /\ group' = group /\ groupCs' = groupCs
        /\ todo' = todo /\ quiet' = quiet
        /\ closed' = closed \cup (CASE c.fn = "release" -> {c.obj}
                                    [] c.fn = "members" -> {o \in Grouped : obj[o].state = "live"}
                                    [] OTHER -> {})
    BY <1>0, <1>1 DEF Begin, locks
  <1>3. Moved(t)
    BY BeginDoes
  <1>4. /\ c.fn = "release" => closed' = closed \cup {c.obj}
        /\ c.fn = "members" => closed' = closed \cup {o \in Grouped : obj[o].state = "live"}
        /\ c.fn \notin {"release", "members"} => closed' = closed
        /\ closed \subseteq closed'
    BY <1>2
  <1>5. /\ FirstStep(c) \notin {"walk", "walk_timer", "unlock_pool", "free", "timer_lock", "init", "cancel", "wait"}
              \/ c.fn = "wait"
        /\ c.fn \in {"alloc", "simple"} => FirstStep(c) = "pool_lock"
        /\ c.fn = "wait" => FirstStep(c) \in {"cancel", "wait"}
        /\ c.fn = "members" => FirstStep(c) = "members"
    BY DEF FirstStep, Calls
  <1>6. todo[t] = <<>>
    BY <1>0 DEF PlaceOK, WorkOK
  <1>7. \A x \in Objs : (Born(x)' <=> Born(x)) /\ ~InAlloc(t, x)'
    BY <1>2, <1>5 DEF Born, InAlloc, Allocates
  <1>8. Keeps(t)
    BY <1>2, <1>3, <1>4, <1>7 DEF Keeps
  <1>9. StillKept(t)
    BY <1>0, <1>2 DEF StillKept, Still
  <1>10. OwnKept(t)
    <2>1. cur'[t] \notin Objs \/ Settled(cur'[t]) \/ ~Born(cur'[t])
      BY <1>1, <1>2, MayFacts
    <2> QED
      BY <1>2, <2>1 DEF OwnKept
  <1>11. CallersOK'
    <2>0. \A u \in Clients : u # t => call'[u] = call[u]
      BY <1>2
    <2>1. ASSUME NEW u \in Clients, call'[u].fn \in {"post", "set"} PROVE call'[u].obj \notin closed'
      <3>1. CASE u = t
        BY <1>2, <1>4, <2>1, <3>1, MayFacts
      <3>2. CASE u # t
        <4>1. call'[u] = call[u] /\ call[u].obj \notin closed
          BY <1>0, <2>0, <2>1, <3>2 DEF CallersOK
        <4>2. call[u] \in Calls
          BY <1>0, <2>1, <4>1 DEF NoCall
        <4>3. call[u].obj \notin Simples
          BY <2>1, <4>1, <4>2, Kinds DEF Calls
        <4>4. c.fn = "members" => call[u].obj \notin Grouped
          BY <1>2, <4>3, MayFacts
        <4>5. c.fn = "release" => call[u].obj # c.obj
          BY <1>2, MayFacts
        <4> QED
          BY <1>4, <4>1, <4>4, <4>5
      <3> QED
        BY <3>1, <3>2
    <2>2. ASSUME NEW u \in Clients, call'[u].fn = "release" PROVE call'[u].obj \in closed'
      <3>1. CASE u = t
        BY <1>2, <1>4, <2>2, <3>1
      <3>2. CASE u # t
        BY <1>0, <1>4, <2>0, <2>2, <3>2 DEF CallersOK
      <3> QED
        BY <3>1, <3>2
    <2>3. ASSUME NEW u \in Clients, NEW v \in Clients, call'[u].fn = "members", call'[v].fn = "alloc"
          PROVE  call'[v].obj \notin Grouped
      <3>1. CASE u = t
        <4>1. v # t /\ c.fn = "members"
          BY <1>2, <2>3, <3>1
        <4>2. call'[v] = call[v]
          BY <2>0, <4>1
        <4>3. call[v] \in Calls
          BY <1>0, <2>3, <4>2 DEF NoCall
        <4>4. call[v].obj \notin Simples
          BY <2>3, <4>2, <4>3 DEF Calls
        <4> QED
          BY <1>2, <4>1, <4>2, <4>4, MayFacts
      <3>2. CASE u # t /\ v = t
        <4>1. call[u].fn = "members" /\ c.fn = "alloc"
          BY <1>2, <2>0, <2>3, <3>2
        <4> QED
          BY <1>2, <3>2, <4>1, MayFacts
      <3>3. CASE u # t /\ v # t
        BY <1>0, <2>0, <2>3, <3>3 DEF CallersOK
      <3> QED
        BY <3>1, <3>2, <3>3
    <2> QED
      BY <2>1, <2>2, <2>3 DEF CallersOK
  <1>12. TimersOK'
    BY <1>0, <1>2, <1>3, <1>4, <1>7, TimersStep
  <1>13. OwnOK(t)'
    BY <1>2, <1>5 DEF OwnOK
  <1>14. WalkOK(t)'
    BY <1>2, <1>5 DEF WalkOK, Walking
  <1>15. LeaveOK(t)'
    <2>1. CASE c.fn = "members"
      BY <1>2, <1>5, <1>6, <2>1, NothingLeft DEF LeaveOK
    <2>2. CASE c.fn # "members"
      BY <1>2, <2>2, NoLeave
    <2> QED
      BY <2>1, <2>2
  <1>16. Lists(t)
    BY <1>2 DEF Lists
  <1>17. ASSUME NEW x \in Objs, Among(x, group.members)' PROVE MemberOK(x)'
    <2>1. MemberOK(x)
      BY <1>0, <1>2, <1>17 DEF ListOK, Among
    <2>2. ~Gone(t, x)'
      BY <1>2, <1>5 DEF Gone
    <2>3. c.fn = "members" => x \in closed' \cup Simples
      BY <1>4, <2>1 DEF MemberOK
    <2>4. c.fn # "members" => GroupCalls
      BY <1>2 DEF GroupCalls
    <2> QED
      BY <1>0, <1>2, <1>8, <2>1, <2>2, <2>3, <2>4, MemberKept
  <1>18. ListOK'
    BY <1>0, <1>2, <1>17 DEF ListOK, Among, Distinct
  <1>19. \A u \in Clients \ {t} : WalkOK(u)'
    BY <1>0, <1>8, <1>16, OtherWalk DEF QuietInv
  <1> QED
    BY <1>0, <1>2, <1>8, <1>9, <1>10, <1>11, <1>12, <1>13, <1>14, <1>15, <1>18, <1>19, GroupStep

-----------------------------------------------------------------------------
(* Every step keeps QuietInv.                                              *)

LEMMA ClientQuiet ==
  ASSUME TypesInv, TypesInv', ThreadsInv, BirthInv, CountInv, QuietInv, NEW t \in Clients, ClientStep(t)
  PROVE  QuietInv'
  BY PoolLockQuiet, TimerLockQuiet, InitializeQuiet, PostWorkQuiet, TpSetTimerQuiet, CancelQuiet, WaitQuiet,
     TimerUnlockQuiet, DropQuiet, MembersQ, MemberStepQuiet, MemberTimerQuiet, MembersLeaveQuiet, MemberDoneQuiet,
     CloseQuiet, Zenon DEF ClientStep

LEMMA QuietInit ==
  ASSUME Init
  PROVE  QuietInv
  <1>0. /\ \A o \in Objs : obj[o].state = "none" /\ obj[o].pending = 0 /\ obj[o].member = FALSE
        /\ \A o \in Objs : ~timer[o].initialized /\ ~timer[o].pending /\ ~timer[o].due
        /\ group.members = <<>> /\ quiet = {} /\ \A t \in Clients : call[t].fn = "none" /\ pc[t] = "idle"
        /\ pc[TimerThread] = "none"
    BY Kinds DEF Init, FreshObject, NoCall
  <1>1. \A x : ~Among(x, group.members)
    BY <1>0 DEF Among
  <1>2. CallersOK /\ \A t \in Clients : OwnOK(t) /\ WalkOK(t) /\ LeaveOK(t)
    BY <1>0 DEF CallersOK, OwnOK, WalkOK, LeaveOK, Walking
  <1>3. TimersOK
    BY <1>0 DEF TimersOK, TimerOK, Born
  <1>4. ListOK
    BY <1>0, <1>1 DEF ListOK, Distinct
  <1> QED
    BY <1>0, <1>2, <1>3, <1>4 DEF QuietInv

LEMMA QuietNext ==
  ASSUME PoolInv, QuietInv, [Next]_vars
  PROVE  QuietInv'
  <1>0. PoolInv' /\ TypesInv' /\ TypesInv /\ ThreadsInv /\ BirthInv /\ QueueInv /\ CountInv
    BY PoolNext DEF PoolInv
  <1>1. CASE UNCHANGED vars
    BY <1>1 DEF QuietInv, vars, locks, history, CallersOK, OwnOK, TimersOK, TimerOK, ListOK, MemberOK, Settled, Born,
                InAlloc, Allocates, Among, Distinct, WalkOK, Walking, LeaveOK, Shut, Still
  <1>2. ASSUME NEW t \in Clients, Begin(t) \/ ClientStep(t) \/ LastRelease(t) PROVE QuietInv'
    BY <1>0, <1>2, BeginQuiet, ClientQuiet, ReleaseQuiet
  <1>3. ASSUME NEW w \in Workers, WorkerStep(w) \/ LastRelease(w) PROVE QuietInv'
    BY <1>0, <1>3, WorkerQuiet, ReleaseQuiet
  <1>4. CASE TimerStep(TimerThread)
    BY <1>0, <1>4, TimerQuiet
  <1> QED
    BY <1>1, <1>2, <1>3, <1>4 DEF Next

\* When TpReleaseCleanupGroupMembers has waited for a member, no callback of it
\* is queued, pending or running, then or ever after: nobody can post it any
\* more, its timer has been taken from the queue, and a worker begins a callback
\* only for an object with a pending one.
THEOREM MembersStayQuiet == Spec => []MembersQuiet
  <1>1. ASSUME PoolInv, QuietInv PROVE MembersQuiet
    <2> SUFFICES ASSUME NEW o \in quiet PROVE obj[o].pending = 0 /\ obj[o].running = 0 /\ Items(o) = 0
      BY DEF MembersQuiet
    <2>0. TypesInv /\ QueueInv /\ CountInv
      BY <1>1 DEF PoolInv
    <2>1. o \in Objs /\ Still(o)
      BY <1>1, <2>0 DEF TypesInv, QuietInv
    <2>2. obj[o].pending = 0 /\ Runs(o) = {}
      BY <2>1 DEF Still, Runs
    <2>3. obj[o].running = 0
      BY <2>0, <2>1, <2>2, FS_EmptySet DEF CountInv
    <2>4. Items(o) = 0
      BY <2>0, <2>1, <2>2, ItemCount
    <2> QED
      BY <2>2, <2>3, <2>4
  <1>2. Init => PoolInv /\ QuietInv
    BY PoolInit, QuietInit
  <1>3. PoolInv /\ QuietInv /\ [Next]_vars => (PoolInv /\ QuietInv)'
    BY PoolNext, QuietNext
  <1> QED
    BY <1>1, <1>2, <1>3, PTL DEF Spec
=============================================================================
