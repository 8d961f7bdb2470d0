----------------------------- MODULE ThreadPool -----------------------------
(***************************************************************************)
(* The thread pool of ntdll (dlls/ntdll/threadpool.c): one pool with its   *)
(* workers, work, timer and simple objects, a cleanup group and the timer  *)
(* queue.                                                                  *)
(*                                                                         *)
(* A critical section that enters no other one is one step.  The three     *)
(* places where one is entered inside another are steps of their own: the  *)
(* last release of an object by a worker takes group->cs under pool->cs,   *)
(* the release of a group takes timerqueue.cs under group->cs, and the     *)
(* timer thread takes pool->cs under timerqueue.cs.  An interlocked count  *)
(* is a step, too, where it may reach zero.                                *)
(***************************************************************************)
EXTENDS Integers, Sequences, FiniteSets, SequencesExt

CONSTANTS
    NoOne,
    Clients,       \* threads of the program
    Workers,       \* the threads RtlCreateUserThread can make; then it fails
    TimerThread,
    Objs,          \* every object is allocated once
    Simples,       \* objects of TpSimpleTryPost
    Timers,
    Periodic,      \* timers with a period
    Grouped,       \* members of the cleanup group
    Detaching,     \* whose callback calls TpDisassociateCallback
    Long,          \* whose callback calls TpCallbackMayRunLong
    Priority,      \* [Objs -> 1..3], 1 is served first
    Max0,          \* max_workers at first
    MaxPending,    \* bound: callbacks of a timer that are pending at a time
    Programs       \* the scripts to choose from, [Clients -> Seq(calls)]

ASSUME PoolAssumption ==
    /\ Simples \cup Timers \cup Grouped \cup Detaching \cup Long \subseteq Objs
    /\ Simples \cap Timers = {} /\ Periodic \subseteq Timers
    /\ Priority \in [Objs -> 1..3] /\ Max0 \in Nat \ {0} /\ MaxPending \in Nat \ {0}
    /\ Clients \cap Workers = {} /\ TimerThread \notin Clients \cup Workers
    /\ IsFiniteSet(Objs) /\ IsFiniteSet(Workers)
    /\ NoOne \notin Objs \cup Clients \cup Workers \cup {TimerThread}

\* A call: its object, if it has one; whether callbacks are cancelled; a count
\* of threads, or when a timer is due.
Calls == {c \in [fn : {"alloc", "simple", "post", "set", "wait", "release", "members", "close_group",
                       "close_pool", "max", "min"},
                 obj : Objs \cup {NoOne}, cancel : BOOLEAN, n : Int] :
             /\ c.fn \in {"alloc", "wait", "release"} => c.obj \in Objs \ Simples
             /\ c.fn = "simple" => c.obj \in Simples
             /\ c.fn = "post" => c.obj \in Objs \ (Simples \cup Timers)
             /\ c.fn = "set" => c.obj \in Timers
             /\ c.fn \in {"members", "close_group", "close_pool", "max", "min"} => c.obj = NoOne
             /\ c.fn = "min" => c.n >= 0}
ASSUME ProgramAssumption == Programs \subseteq [Clients -> Seq(Calls)]

Threads == Clients \cup Workers \cup {TimerThread}
NoCall == [fn |-> "none", obj |-> NoOne, cancel |-> FALSE, n |-> 0]

VARIABLES
    poolCs, groupCs, timerCs,   \* who holds the critical section
    pool,      \* refcount, objcount, shutdown, limits, num_workers, num_busy_workers
    queue,     \* [1..3 -> Seq(Objs)], pools[]
    obj,       \* [Objs -> record], the threadpool_objects
    timer,     \* [Objs -> record], timer_initialized, timer_pending, and due in this pass
    group,     \* refcount, shutdown and members
    pc, cur,   \* [Threads -> place], [Threads -> the object it works on]
    inst,      \* [Workers -> record], the instance of the callback
    call,      \* [Clients -> the call it is in]
    todo,      \* [Clients -> Seq of steps], what a group release has left
    script,    \* [Clients -> Seq(calls)], the calls it will make
    closed,    \* history: the objects the program may not use any more
    quiet,     \* history: the objects a group release has waited for
    failed     \* history: an assertion failed

locks == <<poolCs, groupCs, timerCs>>
history == <<closed, quiet>>
vars == <<locks, pool, queue, obj, timer, group, pc, cur, inst, call, todo, script, history, failed>>

-----------------------------------------------------------------------------
(* Initial state: an empty pool and an empty group.                        *)

FreshObject == [state |-> "live", ref |-> 1, shutdown |-> FALSE, pending |-> 0, running |-> 0,
                associated |-> 0, member |-> FALSE]
FreshInstance == [associated |-> TRUE, long |-> FALSE]

Init ==
    /\ poolCs = NoOne /\ groupCs = NoOne /\ timerCs = NoOne
    /\ pool = [ref |-> 1, objcount |-> 0, shutdown |-> FALSE, min |-> 0, max |-> Max0,
               workers |-> 0, busy |-> 0, freed |-> FALSE]
    /\ queue = [p \in 1..3 |-> <<>>]
    /\ obj = [o \in Objs |-> [FreshObject EXCEPT !.state = "none", !.ref = 0]]
    /\ timer = [o \in Objs |-> [initialized |-> FALSE, pending |-> FALSE, due |-> FALSE]]
    /\ group = [ref |-> 1, shutdown |-> FALSE, members |-> <<>>, freed |-> FALSE]
    /\ pc = [t \in Threads |-> IF t \in Clients THEN "idle" ELSE "none"]
    /\ cur = [t \in Threads |-> NoOne]
    /\ inst = [w \in Workers |-> FreshInstance]
    /\ call = [t \in Clients |-> NoCall]
    /\ todo = [t \in Clients |-> <<>>]
    /\ script \in Programs
    /\ closed = {} /\ quiet = {} /\ failed = FALSE

Asserts(b) == failed' = (failed \/ ~b)

-----------------------------------------------------------------------------
(* Workers and their condition variables.                                  *)

\* Threads that RtlWakeConditionVariable may choose: also one whose wait has
\* timed out and that has not left the queue yet.
Sleepers == {w \in Workers : pc[w] \in {"sleep", "timedout"}}
Awake(p) == CASE p = "sleep" -> "woken" [] p = "timedout" -> "late" [] OTHER -> p

\* update_event after t went to place p: S is woken.
WakeWorkers(S, t, p) == pc' = [x \in Threads |-> IF x = t THEN p ELSE IF x \in S THEN Awake(pc[x]) ELSE pc[x]]

Spare == {w \in Workers : pc[w] = "none"}
\* tp_new_worker_thread, while t goes to place p.
StartWorker(w, t, p) == pc' = [pc EXCEPT ![w] = "start", ![t] = p]
Staffed(r) == [r EXCEPT !.ref = @ + 1, !.workers = @ + 1]

\* A mutant: a group release does not wait for callbacks that disassociated.
IsFinishedAlone(r, grp) == r.pending = 0 /\ r.associated = 0
\* object_is_finished, of the object's record.
IsFinished(r, grp) == r.pending = 0 /\ (IF grp THEN r.running ELSE r.associated) = 0

\* Clients that sleep on group_finished_event and on finished_event of o.
SleepingOn(o, grp) == {t \in Clients : pc[t] = "sleep" /\ cur[t] = o /\ (call[t].fn = "members") = grp}

\* threadpool_get_next_item: the head of the first list that has one.
HasItem == \E p \in 1..3 : queue[p] # <<>>
NextItem == Head(queue[CHOOSE p \in 1..3 : queue[p] # <<>> /\ \A q \in 1..(p - 1) : queue[q] = <<>>])

Queued(o) == [queue EXCEPT ![Priority[o]] = Append(@, o)]

\* Nobody is free for another item.
WantsWorker == pool.busy >= pool.workers

\* A mutant: the wakeup is left to the workers' timeout.
ChosenNobody == {{}}
\* RtlWakeConditionVariable wakes one thread that sleeps; others, that have
\* left the critical section and do not sleep yet, find the value changed.
Chosen == IF Sleepers = {} THEN {{}} ELSE (SUBSET Sleepers) \ {{}}

\* tp_object_submit, after which t goes to place p.
Submit(o, t, p) ==
    LET starts == WantsWorker /\ pool.workers < pool.max /\ Spare # {}
        busy == pool.busy + (IF obj[o].pending = 0 THEN 1 ELSE 0)
    IN  /\ poolCs = NoOne
        /\ obj' = [obj EXCEPT ![o].ref = @ + 1, ![o].pending = @ + 1]
        /\ queue' = IF obj[o].pending = 0 THEN Queued(o) ELSE queue
        /\ Asserts(~obj[o].shutdown /\ ~pool.shutdown /\ (starts \/ pool.workers > 0))
        /\ IF starts
           THEN /\ pool' = [Staffed(pool) EXCEPT !.busy = busy]
                /\ \E w \in Spare : StartWorker(w, t, p)
           ELSE /\ pool' = [pool EXCEPT !.busy = busy]
                /\ \E S \in Chosen : WakeWorkers(S, t, p)

-----------------------------------------------------------------------------
(* threadpool_worker_proc.                                                 *)

\* No task, and the limits allow the thread to end.
MayLeave ==
    ~HasItem /\ (\/ pool.workers > (IF pool.min > 1 THEN pool.min ELSE 1)
                 \/ pool.min = 0 /\ pool.objcount = 0)

WorkerEnter(w) ==
    /\ pc[w] \in {"start", "woken", "timedout", "late"} /\ poolCs = NoOne
    /\ poolCs' = w
    /\ pc' = [pc EXCEPT ![w] = IF pc[w] \in {"timedout", "late"} /\ MayLeave THEN "exit" ELSE "loop"]
    /\ UNCHANGED <<groupCs, timerCs, pool, queue, obj, timer, group, cur, inst, call, todo, script,
                   history, failed>>

\* A mutant: an item that is put back is not counted again.
BusierNot(again) == pool.busy
\* num_busy_workers counts an item that is queued and the thread that took it.
Busier(again) == pool.busy + (IF again THEN 1 ELSE 0)
\* Takes an item, puts it back behind the others if more callbacks are
\* pending, and leaves the critical section for the callback.
WorkerTake(w) ==
    LET o == NextItem
        again == obj[o].pending > 1
        rest == [queue EXCEPT ![Priority[o]] = Tail(@)]
    IN  /\ pc[w] = "loop" /\ HasItem
        /\ Asserts(obj[o].pending > 0)
        /\ queue' = IF again THEN [rest EXCEPT ![Priority[o]] = Append(@, o)] ELSE rest
        /\ pool' = [pool EXCEPT !.busy = Busier(again)]
        /\ obj' = [obj EXCEPT ![o].pending = @ - 1, ![o].running = @ + 1, ![o].associated = @ + 1]
        /\ poolCs' = NoOne
        /\ pc' = [pc EXCEPT ![w] = "callback"]
        /\ cur' = [cur EXCEPT ![w] = o]
        /\ inst' = [inst EXCEPT ![w] = FreshInstance]
        /\ UNCHANGED <<groupCs, timerCs, timer, group, call, todo, script, history>>

\* Nothing to do: the thread looks at shutdown, and only then at the condition
\* variable; TpReleasePool takes no critical section and may come between.
WorkerRest(w) ==
    /\ pc[w] = "loop" /\ ~HasItem
    /\ pc' = [pc EXCEPT ![w] = IF pool.shutdown THEN "exit" ELSE "rest"]
    /\ UNCHANGED <<locks, pool, queue, obj, timer, group, cur, inst, call, todo, script, history, failed>>
WorkerSleep(w) ==
    /\ pc[w] = "rest"
    /\ pc' = [pc EXCEPT ![w] = "sleep"]
    /\ poolCs' = NoOne
    /\ UNCHANGED <<groupCs, timerCs, pool, queue, obj, timer, group, cur, inst, call, todo, script,
                   history, failed>>
\* A mutant: workers sleep for ever.
WorkerTimeoutNever(w) == pc[w] = "sleep" /\ FALSE /\ UNCHANGED vars
\* THREADPOOL_WORKER_TIMEOUT
WorkerTimeout(w) ==
    /\ pc[w] = "sleep"
    /\ pc' = [pc EXCEPT ![w] = "timedout"]
    /\ UNCHANGED <<locks, pool, queue, obj, timer, group, cur, inst, call, todo, script, history, failed>>

TpDisassociateCallback(w) ==
    LET o == cur[w]
        r == [obj[o] EXCEPT !.associated = @ - 1]
    IN  /\ pc[w] = "callback" /\ o \in Detaching /\ inst[w].associated
        /\ poolCs = NoOne
        /\ obj' = [obj EXCEPT ![o] = r]
        /\ inst' = [inst EXCEPT ![w].associated = FALSE]
        /\ pc' = [t \in Threads |-> IF IsFinished(r, FALSE) /\ t \in SleepingOn(o, FALSE)
                                    THEN "wait" ELSE pc[t]]
        /\ UNCHANGED <<locks, pool, queue, timer, group, cur, call, todo, script, history, failed>>

\* Another worker takes the place of the one that stays away.
TpCallbackMayRunLong(w) ==
    /\ pc[w] = "callback" /\ cur[w] \in Long /\ ~inst[w].long
    /\ poolCs = NoOne
    /\ inst' = [inst EXCEPT ![w].long = TRUE]
    /\ IF WantsWorker /\ pool.workers < pool.max /\ Spare # {}
       THEN pool' = Staffed(pool) /\ \E v \in Spare : StartWorker(v, w, "callback")
       ELSE UNCHANGED <<pool, pc>>
    /\ UNCHANGED <<locks, queue, obj, timer, group, cur, call, todo, script, history, failed>>

\* A mutant: those who wait for the group are not told.
WokenByEndOne(o, r, w) == IF inst[w].associated /\ IsFinished(r, FALSE) THEN SleepingOn(o, FALSE) ELSE {}
\* Who is woken when a callback of o has ended and left record r.
WokenByEnd(o, r, w) ==
    (IF IsFinished(r, TRUE) THEN SleepingOn(o, TRUE) ELSE {})
      \cup (IF inst[w].associated /\ IsFinished(r, FALSE) THEN SleepingOn(o, FALSE) ELSE {})

\* The callback returns: the tail of tp_object_execute, the worker's count and
\* its reference to the object.
CallbackEnd(w) ==
    LET o == cur[w]
        r == [obj[o] EXCEPT !.running = @ - 1, !.associated = IF inst[w].associated THEN @ - 1 ELSE @,
                            !.shutdown = @ \/ o \in Simples, !.ref = @ - 1]
        next == IF r.ref = 0 THEN "destroy" ELSE "loop"
    IN  /\ pc[w] = "callback" /\ poolCs = NoOne
        /\ o \in Detaching => ~inst[w].associated
        /\ o \in Long => inst[w].long
        /\ poolCs' = w
        /\ obj' = [obj EXCEPT ![o] = r]
        /\ Asserts(pool.busy > 0)
        /\ pool' = [pool EXCEPT !.busy = @ - 1]
        /\ pc' = [t \in Threads |-> IF t = w THEN next ELSE IF t \in WokenByEnd(o, r, w) THEN "wait" ELSE pc[t]]
        /\ cur' = [cur EXCEPT ![w] = IF r.ref = 0 THEN o ELSE NoOne]
        /\ inst' = [inst EXCEPT ![w] = FreshInstance]
        /\ UNCHANGED <<groupCs, timerCs, queue, timer, group, call, todo, script, history>>

WorkerExit(w) ==
    /\ pc[w] = "exit"
    /\ pool' = [pool EXCEPT !.workers = @ - 1]
    /\ poolCs' = NoOne
    /\ pc' = [pc EXCEPT ![w] = "unref"]
    /\ UNCHANGED <<groupCs, timerCs, queue, obj, timer, group, cur, inst, call, todo, script, history, failed>>

-----------------------------------------------------------------------------
(* References.                                                             *)

\* Where a client goes when it is through with a step: the next step of its
\* group release, or back to the program.
After(t, rest) ==
    /\ pc' = [pc EXCEPT ![t] = IF rest = <<>> THEN "idle" ELSE Head(rest).do]
    /\ cur' = [cur EXCEPT ![t] = IF rest = <<>> THEN NoOne ELSE Head(rest).obj]
    /\ todo' = [todo EXCEPT ![t] = IF rest = <<>> THEN rest ELSE Tail(rest)]
    /\ call' = [call EXCEPT ![t] = IF rest = <<>> THEN NoCall ELSE @]

\* t drops n references to its object; the last one destroys it.
Release(t, r, n) ==
    /\ obj' = [obj EXCEPT ![cur[t]] = [r EXCEPT !.ref = @ - n]]
    /\ IF r.ref = n
       THEN pc' = [pc EXCEPT ![t] = "destroy"] /\ UNCHANGED <<cur, todo, call>>
       ELSE After(t, todo[t])

\* list_remove
Unlink(s, o) ==
    LET n == CHOOSE k \in 1..Len(s) : s[k] = o
    IN  [k \in 1..(Len(s) - 1) |-> IF k < n THEN s[k] ELSE s[k + 1]]

\* The members without o.
LeaveGroup(o) == IF obj[o].member THEN Unlink(group.members, o) ELSE group.members

GroupReleased(g) == [g EXCEPT !.ref = @ - 1, !.freed = g.ref = 1]
\* The assertions of tp_group_release and tp_threadpool_release.
GroupMayGo(g) == g.ref = 1 => g.shutdown /\ g.members = <<>>
PoolMayGo(p) == p.ref = 1 => p.shutdown /\ p.objcount = 0 /\ ~HasItem

\* tp_object_release with the last reference: its group, if it has one, ...
Destroy(t) ==
    LET o == cur[t]
        r == obj[o]
        g == [group EXCEPT !.members = LeaveGroup(o)]
    IN  /\ pc[t] = "destroy"
        /\ o \in Grouped => groupCs = NoOne
        /\ Asserts(/\ r.shutdown /\ r.pending = 0 /\ r.running = 0 /\ r.associated = 0
                   /\ o \in Grouped => GroupMayGo(g))
        /\ group' = IF o \in Grouped THEN GroupReleased(g) ELSE group
        /\ obj' = [obj EXCEPT ![o].member = FALSE]
        /\ pc' = [pc EXCEPT ![t] = "unlock_pool"]
        /\ UNCHANGED <<locks, pool, queue, timer, cur, inst, call, todo, script, history>>
\* ... then tp_threadpool_unlock, whose critical section a worker holds, ...
UnlockPool(t) ==
    /\ pc[t] = "unlock_pool" /\ poolCs \in {NoOne, t}
    /\ pool' = [pool EXCEPT !.objcount = @ - 1]
    /\ pc' = [pc EXCEPT ![t] = "free"]
    /\ UNCHANGED <<locks, queue, obj, timer, group, cur, inst, call, todo, script, history, failed>>

PoolReleased == pool' = [pool EXCEPT !.ref = @ - 1, !.freed = pool.ref = 1]
\* ... its reference to the pool, and its memory.
FreeObject(t) ==
    /\ pc[t] = "free"
    /\ Asserts(PoolMayGo(pool)) /\ PoolReleased
    /\ obj' = [obj EXCEPT ![cur[t]].state = "freed"]
    /\ IF t \in Workers
       THEN /\ pc' = [pc EXCEPT ![t] = "loop"]
            /\ cur' = [cur EXCEPT ![t] = NoOne]
            /\ UNCHANGED <<todo, call>>
       ELSE After(t, todo[t])
    /\ UNCHANGED <<locks, queue, timer, group, inst, script, history>>

\* A worker that ended, and TpReleasePool, drop theirs.
UnrefPool(t) ==
    /\ pc[t] = "unref"
    /\ Asserts(PoolMayGo(pool)) /\ PoolReleased
    /\ IF t \in Workers
       THEN pc' = [pc EXCEPT ![t] = "none"] /\ UNCHANGED <<cur, todo, call>>
       ELSE After(t, <<>>)
    /\ UNCHANGED <<locks, queue, obj, timer, group, inst, script, history>>

-----------------------------------------------------------------------------
(* The timer queue thread.                                                 *)

\* The thread wakes when timers are due, each once a pass since a periodic one
\* comes back with a later timeout, or ends some time after the last timer.
TimerEnter(t) ==
    /\ pc[t] = "wait" /\ timerCs = NoOne
    /\ IF \A o \in Timers : ~timer[o].initialized
       THEN pc' = [pc EXCEPT ![t] = "none"] /\ UNCHANGED <<timerCs, timer>>
       ELSE /\ \E D \in (SUBSET {o \in Timers : timer[o].pending /\ obj[o].pending < MaxPending}) \ {{}} :
                  timer' = [o \in Objs |-> [timer[o] EXCEPT !.due = o \in D]]
            /\ pc' = [pc EXCEPT ![t] = "scan"]
            /\ timerCs' = t
    /\ UNCHANGED <<poolCs, groupCs, pool, queue, obj, group, cur, inst, call, todo, script,
                   history, failed>>

\* submit_expired_timers: the timer leaves the queue, its callback is
\* submitted, and a periodic timer that is not shut down comes back.
TimerExpire(t, o) ==
    /\ pc[t] = "scan" /\ timer[o].due
    /\ Asserts(timer[o].pending)
    /\ timer' = [timer EXCEPT ![o].pending = FALSE, ![o].due = FALSE]
    /\ pc' = [pc EXCEPT ![t] = "submit"]
    /\ cur' = [cur EXCEPT ![t] = o]
    /\ UNCHANGED <<locks, pool, queue, obj, group, inst, call, todo, script, history>>
TimerSubmit(t) ==
    /\ pc[t] = "submit"
    /\ Submit(cur[t], t, "scan")
    /\ timer' = [timer EXCEPT ![cur[t]].pending = cur[t] \in Periodic /\ ~obj[cur[t]].shutdown]
    /\ cur' = [cur EXCEPT ![t] = NoOne]
    /\ UNCHANGED <<locks, group, inst, call, todo, script, history>>
TimerLeave(t) ==
    /\ pc[t] = "scan" /\ \A o \in Timers : ~timer[o].due
    /\ timerCs' = NoOne
    /\ pc' = [pc EXCEPT ![t] = "wait"]
    /\ UNCHANGED <<poolCs, groupCs, pool, queue, obj, timer, group, cur, inst, call, todo, script, history,
                   failed>>

-----------------------------------------------------------------------------
(* The calls of the program.                                               *)

InCall(t, o) == call[t].obj = o
Open(o) == obj[o].state = "live" /\ o \notin closed /\ o \notin Simples
           /\ \A t \in Clients : ~(InCall(t, o) /\ call[t].fn = "alloc")
NobodyIn(F) == \A t \in Clients : call[t].fn \notin F
PoolOpen == ~pool.shutdown /\ NobodyIn({"close_pool"})
GroupOpen == ~group.shutdown /\ NobodyIn({"close_group"})

\* What the API asks of its callers: an object is not used after its release
\* or during it, a pool gets no work after its release and has no armed timer
\* then, a group is released when its members are gone, and nothing is released
\* twice.
May(c) ==
    CASE c.fn \in {"alloc", "simple"} ->
           /\ obj[c.obj].state = "none" /\ PoolOpen /\ \A t \in Clients : ~InCall(t, c.obj)
           /\ c.obj \in Grouped => GroupOpen
           /\ c.obj \in Grouped \ Simples => NobodyIn({"members"})
      [] c.fn \in {"post", "set"} -> Open(c.obj) /\ PoolOpen
      [] c.fn = "wait" -> Open(c.obj)
      [] c.fn = "release" -> Open(c.obj) /\ \A t \in Clients : ~InCall(t, c.obj)
      [] c.fn = "members" ->
           /\ NobodyIn({"members"}) /\ GroupOpen
           /\ \A t \in Clients : call[t].obj \in Grouped => call[t].obj \in Simples
      [] c.fn = "close_group" ->
           /\ NobodyIn({"members"}) /\ GroupOpen /\ group.members = <<>>
           /\ \A t \in Clients : call[t].obj \notin Grouped
      [] c.fn = "close_pool" ->
           /\ NobodyIn({"alloc", "simple", "post", "set", "max", "min"}) /\ PoolOpen
           /\ \A o \in Timers : ~timer[o].initialized
      [] OTHER -> PoolOpen

FirstStep(c) ==
    CASE c.fn \in {"alloc", "simple"} -> "pool_lock"
      [] c.fn = "post" -> "submit"
      [] c.fn = "wait" -> IF c.cancel THEN "cancel" ELSE "wait"
      [] c.fn = "release" -> IF c.obj \in Timers THEN "timer_unlock" ELSE "drop"
      [] OTHER -> c.fn

Begin(t) ==
    LET c == Head(script[t])
    IN  /\ pc[t] = "idle" /\ script[t] # <<>> /\ May(c)
        /\ pc' = [pc EXCEPT ![t] = FirstStep(c)]
        /\ cur' = [cur EXCEPT ![t] = c.obj]
        /\ call' = [call EXCEPT ![t] = c]
        /\ script' = [script EXCEPT ![t] = Tail(@)]
        /\ closed' = closed \cup
             (CASE c.fn = "release" -> {c.obj}
                [] c.fn = "members" -> {o \in Grouped : obj[o].state = "live"}
                [] OTHER -> {})
        /\ UNCHANGED <<locks, pool, queue, obj, timer, group, inst, todo, quiet, failed>>

\* tp_threadpool_lock: the pool has a thread and a reference for the object.
PoolLock(t) ==
    LET o == cur[t]
        next == IF o \in Timers THEN "timer_lock" ELSE IF o \in Simples THEN "submit" ELSE "init"
        counted(p) == [p EXCEPT !.ref = @ + 1, !.objcount = @ + 1]
    IN  /\ pc[t] = "pool_lock" /\ poolCs = NoOne
        /\ IF pool.workers = 0 /\ Spare = {}
           THEN After(t, <<>>) /\ UNCHANGED <<pool, obj>>
           ELSE /\ obj' = [obj EXCEPT ![o] = FreshObject]
                /\ IF pool.workers = 0
                   THEN pool' = counted(Staffed(pool)) /\ \E w \in Spare : StartWorker(w, t, next)
                   ELSE pool' = counted(pool) /\ pc' = [pc EXCEPT ![t] = next]
                /\ UNCHANGED <<cur, todo, call>>
        /\ UNCHANGED <<locks, queue, timer, group, inst, script, history, failed>>

\* tp_timerqueue_lock starts the timer thread.
TimerLock(t) ==
    /\ pc[t] = "timer_lock" /\ timerCs = NoOne
    /\ timer' = [timer EXCEPT ![cur[t]].initialized = TRUE]
    /\ pc' = [pc EXCEPT ![t] = "init", ![TimerThread] = IF @ = "none" THEN "wait" ELSE @]
    /\ UNCHANGED <<locks, pool, queue, obj, group, cur, inst, call, todo, script, history, failed>>

\* The tail of tp_object_initialize: a member joins its group.  A simple
\* object is submitted already, and its first reference dropped now.
Initialize(t) ==
    LET o == cur[t]
    IN  /\ pc[t] = "init"
        /\ IF o \in Grouped
           THEN /\ groupCs = NoOne
                /\ group' = [group EXCEPT !.ref = @ + 1, !.members = Append(@, o)]
                /\ obj' = [obj EXCEPT ![o].member = TRUE]
           ELSE UNCHANGED <<group, obj>>
        /\ IF o \in Simples
           THEN pc' = [pc EXCEPT ![t] = "drop"] /\ UNCHANGED <<cur, todo, call>>
           ELSE After(t, <<>>)
        /\ UNCHANGED <<locks, pool, queue, timer, inst, script, history, failed>>

\* TpPostWork, the callback of a timer set to zero, and a simple object.
PostWork(t) ==
    LET simple == cur[t] \in Simples
    IN  /\ pc[t] = "submit"
        /\ Submit(cur[t], t, IF simple THEN "init" ELSE "idle")
        /\ cur' = [cur EXCEPT ![t] = IF simple THEN @ ELSE NoOne]
        /\ call' = [call EXCEPT ![t] = IF simple THEN @ ELSE NoCall]
        /\ UNCHANGED <<locks, timer, group, inst, todo, script, history>>

\* TpSetTimer: n = 0 submits the callback at once, n > 0 arms the timer and
\* n < 0 disarms it.
TpSetTimer(t) ==
    LET o == cur[t]
        n == call[t].n
    IN  /\ pc[t] = "set" /\ timerCs = NoOne
        /\ Asserts(timer[o].initialized)
        /\ timer' = [timer EXCEPT ![o].pending = n > 0 \/ (n = 0 /\ o \in Periodic)]
        /\ IF n = 0
           THEN pc' = [pc EXCEPT ![t] = "submit"] /\ UNCHANGED <<cur, todo, call>>
           ELSE After(t, <<>>)
        /\ UNCHANGED <<locks, pool, queue, obj, group, inst, script, history>>

\* tp_object_cancel: num_busy_workers keeps what it had, nobody is woken, and
\* the references of the callbacks go; the caller has one of its own.
Cancel(t) ==
    LET o == cur[t]
    IN  /\ pc[t] = "cancel" /\ poolCs = NoOne
        /\ obj' = [obj EXCEPT ![o].pending = 0, ![o].ref = @ - obj[o].pending]
        /\ queue' = IF obj[o].pending = 0 THEN queue ELSE [queue EXCEPT ![Priority[o]] = Unlink(@, o)]
        /\ IF call[t].fn = "members" THEN After(t, todo[t])
           ELSE pc' = [pc EXCEPT ![t] = "wait"] /\ UNCHANGED <<cur, todo, call>>
        /\ UNCHANGED <<locks, pool, timer, group, inst, script, history, failed>>

\* tp_object_wait: looks, and sleeps until it is told to look again.
Wait(t) ==
    LET grp == call[t].fn = "members"
    IN  /\ pc[t] = "wait" /\ poolCs = NoOne
        /\ IF ~IsFinished(obj[cur[t]], grp)
           THEN pc' = [pc EXCEPT ![t] = "sleep"] /\ UNCHANGED <<cur, todo, call>>
           ELSE IF grp
           THEN pc' = [pc EXCEPT ![t] = "done"] /\ UNCHANGED <<cur, todo, call>>
           ELSE After(t, <<>>)
        /\ UNCHANGED <<locks, pool, queue, obj, timer, group, inst, script, history, failed>>

TimerUnlocked(o) == [timer EXCEPT ![o].initialized = FALSE, ![o].pending = FALSE]
\* TpReleaseWork, TpReleaseTimer: tp_object_prepare_shutdown, ...
TimerUnlock(t) ==
    /\ pc[t] = "timer_unlock" /\ timerCs = NoOne
    /\ timer' = TimerUnlocked(cur[t])
    /\ pc' = [pc EXCEPT ![t] = "drop"]
    /\ UNCHANGED <<locks, pool, queue, obj, group, cur, inst, call, todo, script, history, failed>>
\* ... then shutdown and the reference of the program.  TpSimpleTryPost drops
\* its reference only.
Drop(t) ==
    /\ pc[t] = "drop"
    /\ Release(t, [obj[cur[t]] EXCEPT !.shutdown = @ \/ call[t].fn = "release"], 1)
    /\ UNCHANGED <<locks, pool, queue, timer, group, inst, script, history, failed>>

\* TpReleaseCleanupGroupMembers: the members get a reference each, ...
Members(t) ==
    /\ pc[t] = "members" /\ groupCs = NoOne
    /\ groupCs' = t
    /\ todo' = [todo EXCEPT ![t] = group.members]
    /\ pc' = [pc EXCEPT ![t] = "walk"]
    /\ UNCHANGED <<poolCs, timerCs, pool, queue, obj, timer, group, cur, inst, call, script, history, failed>>
\* A mutant: an object on its way out is taken along.
DyingNever(o) == FALSE
\* ... all but those that are being destroyed already, ...
Dying(o) == obj[o].ref = 0
MemberStep(t) ==
    LET o == Head(todo[t])
    IN  /\ pc[t] = "walk" /\ todo[t] # <<>>
        /\ Asserts(obj[o].member)
        /\ todo' = [todo EXCEPT ![t] = Tail(@)]
        /\ IF Dying(o)
           THEN /\ group' = [group EXCEPT !.members = LeaveGroup(o)]
                /\ obj' = [obj EXCEPT ![o].member = FALSE]
                /\ UNCHANGED <<pc, cur>>
           ELSE /\ obj' = [obj EXCEPT ![o].ref = @ + 1, ![o].member = FALSE]
                /\ pc' = [pc EXCEPT ![t] = IF o \in Timers THEN "walk_timer" ELSE "walk"]
                /\ cur' = [cur EXCEPT ![t] = o]
                /\ UNCHANGED group
        /\ UNCHANGED <<locks, pool, queue, timer, inst, call, script, history>>
MemberTimer(t) ==
    /\ pc[t] = "walk_timer" /\ timerCs = NoOne
    /\ timer' = TimerUnlocked(cur[t])
    /\ pc' = [pc EXCEPT ![t] = "walk"]
    /\ UNCHANGED <<locks, pool, queue, obj, group, cur, inst, call, todo, script, history, failed>>
\* ... and are cancelled, if so wished, and waited for outside of group->cs.
MembersLeave(t) ==
    LET each(f) == [k \in DOMAIN group.members |-> [do |-> f, obj |-> group.members[k]]]
    IN  /\ pc[t] = "walk" /\ todo[t] = <<>>
        /\ groupCs' = NoOne
        /\ group' = [group EXCEPT !.members = <<>>]
        /\ After(t, (IF call[t].cancel THEN each("cancel") ELSE <<>>) \o each("wait"))
        /\ UNCHANGED <<poolCs, timerCs, pool, queue, obj, timer, inst, script, history, failed>>
\* The program's reference goes as well, unless the program or the end of a
\* simple callback has dropped it.
MemberDone(t) ==
    LET r == obj[cur[t]]
    IN  /\ pc[t] = "done"
        /\ Release(t, [r EXCEPT !.shutdown = TRUE], IF r.shutdown \/ cur[t] \in Simples THEN 1 ELSE 2)
        /\ quiet' = quiet \cup {cur[t]}
        /\ UNCHANGED <<locks, pool, queue, timer, group, inst, script, closed, failed>>

TpReleaseCleanupGroup(t) ==
    /\ pc[t] = "close_group"
    /\ Asserts(GroupMayGo([group EXCEPT !.shutdown = TRUE]))
    /\ group' = GroupReleased([group EXCEPT !.shutdown = TRUE])
    /\ After(t, <<>>)
    /\ UNCHANGED <<locks, pool, queue, obj, timer, inst, script, history>>

\* tp_threadpool_shutdown, outside of the critical section.
TpReleasePool(t) ==
    /\ pc[t] = "close_pool"
    /\ pool' = [pool EXCEPT !.shutdown = TRUE]
    /\ WakeWorkers(Sleepers, t, "unref")
    /\ UNCHANGED <<locks, queue, obj, timer, group, cur, inst, call, todo, script, history, failed>>

TpSetPoolMaxThreads(t) ==
    LET n == IF call[t].n < 1 THEN 1 ELSE call[t].n
    IN  /\ pc[t] = "max" /\ poolCs = NoOne
        /\ pool' = [pool EXCEPT !.max = n, !.min = IF @ < n THEN @ ELSE n]
        /\ After(t, <<>>)
        /\ UNCHANGED <<locks, queue, obj, timer, group, inst, script, history, failed>>
\* TpSetPoolMinThreads starts the threads that are missing, as far as it can.
TpSetPoolMinThreads(t) ==
    LET n == call[t].n
        missing == IF n > pool.workers THEN n - pool.workers ELSE 0
        started == IF missing < Cardinality(Spare) THEN missing ELSE Cardinality(Spare)
        staffed == [pool EXCEPT !.ref = @ + started, !.workers = @ + started]
    IN  /\ pc[t] = "min" /\ poolCs = NoOne
        /\ pool' = IF started < missing THEN staffed
                   ELSE [staffed EXCEPT !.min = n, !.max = IF @ > n THEN @ ELSE n]
        /\ \E S \in SUBSET Spare :
              /\ Cardinality(S) = started
              /\ pc' = [x \in Threads |-> IF x = t THEN "idle" ELSE IF x \in S THEN "start" ELSE pc[x]]
        /\ cur' = [cur EXCEPT ![t] = NoOne]
        /\ call' = [call EXCEPT ![t] = NoCall]
        /\ UNCHANGED <<locks, queue, obj, timer, group, inst, todo, script, history, failed>>

-----------------------------------------------------------------------------

WorkerStep(w) ==
    \/ WorkerEnter(w) \/ WorkerTake(w) \/ WorkerRest(w) \/ WorkerSleep(w) \/ WorkerTimeout(w)
    \/ TpDisassociateCallback(w) \/ TpCallbackMayRunLong(w) \/ CallbackEnd(w) \/ WorkerExit(w)
LastRelease(t) == Destroy(t) \/ UnlockPool(t) \/ FreeObject(t) \/ UnrefPool(t)
TimerStep(t) == TimerEnter(t) \/ (\E o \in Timers : TimerExpire(t, o)) \/ TimerSubmit(t) \/ TimerLeave(t)
ClientStep(t) ==
    \/ PoolLock(t) \/ TimerLock(t) \/ Initialize(t) \/ PostWork(t) \/ TpSetTimer(t)
    \/ Cancel(t) \/ Wait(t) \/ TimerUnlock(t) \/ Drop(t)
    \/ Members(t) \/ MemberStep(t) \/ MemberTimer(t) \/ MembersLeave(t) \/ MemberDone(t)
    \/ TpReleaseCleanupGroup(t) \/ TpReleasePool(t)
    \/ TpSetPoolMaxThreads(t) \/ TpSetPoolMinThreads(t)

Next ==
    \/ \E t \in Clients : Begin(t) \/ ClientStep(t) \/ LastRelease(t)
    \/ \E w \in Workers : WorkerStep(w) \/ LastRelease(w)
    \/ TimerStep(TimerThread)

Spec == Init /\ [][Next]_vars

\* A thread that waits for a critical section gets it in the end, callbacks
\* return, and time passes.  Nobody has to make a call.
Fairness ==
    /\ \A t \in Clients : SF_vars(ClientStep(t) \/ LastRelease(t))
    /\ \A w \in Workers : SF_vars(WorkerStep(w) \/ LastRelease(w))
    /\ SF_vars(TimerStep(TimerThread))
FairSpec == Spec /\ Fairness

-----------------------------------------------------------------------------
(* Properties.                                                             *)

Items(o) == Cardinality({k \in DOMAIN queue[Priority[o]] : queue[Priority[o]][k] = o})
Runs(o) == {w \in Workers : pc[w] = "callback" /\ cur[w] = o}

\* The counts of the pool and of its objects are those of the threads and the
\* lists, and num_busy_workers never falls below the work there is: the pool
\* would think a worker free that is not.
TypeOK ==
    /\ poolCs \in Threads \cup {NoOne} /\ groupCs \in Threads \cup {NoOne} /\ timerCs \in Threads \cup {NoOne}
    /\ pool.workers = Cardinality({w \in Workers : pc[w] \notin {"none", "unref"}})
    /\ \A o \in Objs : /\ obj[o].running = Cardinality(Runs(o))
                       /\ Items(o) = IF obj[o].pending > 0 THEN 1 ELSE 0
    /\ pool.busy >= Len(queue[1]) + Len(queue[2]) + Len(queue[3])
                    + Cardinality({w \in Workers : pc[w] = "callback"})

\* The thread uses its object, which no other thread frees.
Uses(t) == cur[t] # NoOne /\ pc[t] \notin {"idle", "pool_lock", "walk"}
\* No assertion of the thread pool fails, and nobody works on an object that
\* was freed: a reference is dropped by a worker, the program and a group
\* release in any order (tp_object_release, TpReleaseCleanupGroupMembers).
AssertionsHold == ~failed /\ \A t \in Threads : Uses(t) => obj[cur[t]].state = "live"

\* When a group release has waited for a member, no callback of it runs or is
\* queued any more (TpReleaseCleanupGroupMembers: wait for remaining callbacks
\* to finish).
MembersQuiet == \A o \in quiet : obj[o].pending = 0 /\ obj[o].running = 0 /\ Items(o) = 0

\* No work is left to the timeout of the workers: while an item is queued and
\* a worker sleeps, another one is on its way, also when the wakeup hit one
\* that had timed out (tp_object_submit, threadpool_worker_proc).
WorkHasWorker ==
    poolCs = NoOne /\ HasItem /\ (\E w \in Workers : pc[w] = "sleep")
        => \E w \in Workers : pc[w] \in {"start", "woken", "timedout", "late"}

\* Nobody sleeps for callbacks that are finished (tp_object_wait: waits until
\* all pending and running callbacks of a specific object have been processed).
SleepersHaveWork ==
    poolCs = NoOne => \A t \in Clients : pc[t] = "sleep" => ~IsFinished(obj[cur[t]], call[t].fn = "members")

\* Every call returns: no wait is forgotten, and no three threads wait for
\* each other's critical sections.
CallsReturn == \A t \in Clients : pc[t] # "idle" ~> pc[t] = "idle"

\* What the program has released is freed in the end: the objects, and with
\* them the pool, whose workers miss the wakeup of TpReleasePool when they have
\* just looked at shutdown.
Reclaimed ==
    pool.shutdown /\ (\A o \in Objs : obj[o].state = "live" => o \in closed \cup Simples) ~> pool.freed
=============================================================================
