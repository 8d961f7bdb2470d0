----------------------------- MODULE ServerWait ------------------------------
(***************************************************************************)
(* The server's wait dispatcher and its clients: the path of every wait    *)
(* when the driver is not there, and of APCs, suspension and keyed events  *)
(* when it is.  The server is one process and handles one request or timer *)
(* at a time; what a request has yet to do (threads to wake, a select to   *)
(* finish) is in todo, and no request or timer starts before todo is       *)
(* empty.  A client makes a select request, reads its wait pipe when the   *)
(* select is pending, and is interrupted by SIGUSR1, whose handler makes a *)
(* select of its own while the first one is still open: a thread has a     *)
(* stack of waits, the one on top first.                                   *)
(***************************************************************************)
EXTENDS Integers, Sequences, FiniteSets

CONSTANTS
    Threads, Objs,
    Type,        \* [Objs -> {"sem", "mutex", "event", "keyed"}]
    Max, Manual, Count0,
    TimerOf,     \* [Threads -> Objs \cup {NoOne}]: the event of a thread's timer
    Programs,    \* what the threads call: a set of functions from threads to calls
    MaxRec, MaxSuspend, MaxApc,  \* bounds: mutex recursion, suspend count, user APCs
    NoOne

Frames == {"call", "suspend"}
NoCall == [fn |-> "none", objs |-> <<>>]

ASSUME ObjectAssumption ==
    /\ Type \in [Objs -> {"sem", "mutex", "event", "keyed"}]
    /\ Max \in [Objs -> Nat] /\ Manual \in [Objs -> BOOLEAN] /\ Count0 \in [Objs -> Nat]
    /\ \A o \in Objs : Type[o] = "sem" => Count0[o] <= Max[o]
    /\ TimerOf \in [Threads -> Objs \cup {NoOne}]
ASSUME BoundAssumption == MaxRec \in Nat \ {0} /\ MaxSuspend \in Nat \ {0} /\ MaxApc \in Nat \ {0}
ASSUME NoOneAssumption == NoOne \notin Threads /\ NoOne \notin Objs

\* A call names what its request needs: objects to wait for or to signal, the
\* one keyed event of a keyed operation, a thread to act on, or the threads of
\* another process.
WellFormed(t, c) ==
    /\ c.n \in Nat
    /\ c.objs \in IF c.fn = "queue_system" THEN Seq(Threads) ELSE Seq(Objs)
    /\ c.fn \in {"release", "unlock", "set", "pulse", "reset"} => c.objs # <<>>
    /\ c.fn \in {"keyed_wait", "keyed_release"} => Len(c.objs) = 1 /\ Type[c.objs[1]] = "keyed"
    /\ c.fn = "signal_wait" => Len(c.objs) = 2
    /\ c.fn \in {"suspend", "resume", "set_context", "queue_user", "cancel_timer", "kill"} => c.owner \in Threads
    /\ c.fn = "set_timer" => TimerOf[t] \in Objs
ASSUME ProgramAssumption == \A p \in Programs : \A t \in Threads : \A c \in p[t] : WellFormed(t, c)

VARIABLES
    units, mcount, mowner, mdead, event,  \* the objects
    queue,       \* [Objs -> Seq(<<thread, index>>)]: obj->wait_queue
    wait,        \* [Threads -> Seq([frame, cookie, user])]: thread->wait, top first
    suspend,     \* [Threads -> Nat]: thread->suspend
    context,     \* [Threads -> "none", "pending" or "saved"]: thread->context and its status
    changed,     \* [Threads -> BOOLEAN]: another thread has set registers in the context
    system_apc,  \* [Threads -> Seq(Threads)]: APCs for other processes, by their callers
    user_apc,    \* [Threads -> Seq({"user", "timer"})]
    alert_sync,  \* [Threads -> BOOLEAN]: the event that ends a wait in the driver
    armed,       \* [Threads -> BOOLEAN]: the periodic timer with a callback in the thread
    dead,        \* SUBSET Threads
    todo,        \* Seq: what is left of the request that the server handles
    program,     \* the member of Programs that runs
    call,        \* [Threads -> the call under way, or NoCall]
    deadline,    \* [Threads -> "none", "later" or "past"]
    pc,          \* [Threads -> [Frames -> STRING]]
    prev,        \* [Threads -> [Frames -> Threads \cup {NoOne}]]: the APC whose result is due
    signal_done, \* [Threads -> BOOLEAN]: size no longer covers signal_and_wait.signal
    sigusr1,     \* [Threads -> BOOLEAN]: a signal that is not delivered yet
    pipe,        \* [Threads -> Seq([cookie, status, index])]: wait_fd
    stolen,      \* [Threads -> Seq]: a reply for another frame, to be put back
    times,       \* [Threads -> 0..2]: history: how often the call signaled its object
    cancelled    \* [Threads -> BOOLEAN]: history: an APC was cancelled during the call

objects == <<units, mcount, mowner, mdead, event>>
apcs == <<system_apc, user_apc, alert_sync, armed>>
stops == <<suspend, context, changed>>
client == <<call, deadline, pc, prev, signal_done, stolen>>
history == <<times, cancelled>>
vars == <<objects, queue, wait, stops, apcs, dead, todo, program, client, sigusr1, pipe, history>>

Init ==
    /\ units = [o \in Objs |-> IF Type[o] = "sem" THEN Count0[o] ELSE 0]
    /\ mcount = [o \in Objs |-> 0]
    /\ mowner = [o \in Objs |-> NoOne]
    /\ mdead = [o \in Objs |-> FALSE]
    /\ event = [o \in Objs |-> Type[o] = "event" /\ Count0[o] = 1]
    /\ queue = [o \in Objs |-> <<>>]
    /\ wait = [t \in Threads |-> <<>>]
    /\ suspend = [t \in Threads |-> 0]
    /\ context = [t \in Threads |-> "none"]
    /\ changed = [t \in Threads |-> FALSE]
    /\ system_apc = [t \in Threads |-> <<>>]
    /\ user_apc = [t \in Threads |-> <<>>]
    /\ alert_sync = [t \in Threads |-> FALSE]
    /\ armed = [t \in Threads |-> FALSE]
    /\ dead = {}
    /\ todo = <<>>
    /\ program \in Programs
    /\ call = [t \in Threads |-> NoCall]
    /\ deadline = [t \in Threads |-> "none"]
    /\ pc = [t \in Threads |-> [f \in Frames |-> "idle"]]
    /\ prev = [t \in Threads |-> [f \in Frames |-> NoOne]]
    /\ signal_done = [t \in Threads |-> FALSE]
    /\ sigusr1 = [t \in Threads |-> FALSE]
    /\ pipe = [t \in Threads |-> <<>>]
    /\ stolen = [t \in Threads |-> <<>>]
    /\ times = [t \in Threads |-> 0]
    /\ cancelled = [t \in Threads |-> FALSE]

-----------------------------------------------------------------------------
(* What is left to do of a request.                                        *)

WakeUp(o, max) == [do |-> "wake_up", obj |-> o, max |-> max, thread |-> NoOne]
WakeThread(t)  == [do |-> "wake_thread", obj |-> NoOne, max |-> 0, thread |-> t]
EndSelect(t)   == [do |-> "select", obj |-> NoOne, max |-> 0, thread |-> t]
ResetSync(o)   == [do |-> "reset", obj |-> o, max |-> 0, thread |-> NoOne]
Abandon(t)     == [do |-> "abandon", obj |-> NoOne, max |-> 0, thread |-> t]

Idle == todo = <<>>
Doing(what) == todo # <<>> /\ Head(todo).do = what

-----------------------------------------------------------------------------
(* Waits.                                                                  *)

Suspended(t) == suspend[t] > 0

First(K) == CHOOSE k \in K : \A j \in K : k <= j
\* The elements of s at the indices K, in their order.
Keep(s, K) == [j \in 1..Cardinality(K) |-> s[CHOOSE k \in K : Cardinality({i \in K : i <= k}) = j]]

\* A mutant: every thread is taken to be in such a wait.
InApcWaitAlways(t) == TRUE
\* Every select of ntdll is interruptible.
InApcWait(t) == Suspended(t) \/ wait[t] # <<>>

\* The objects a call waits for; SIGNAL_AND_WAIT signals the first of two.
WaitObjs(c) ==
    CASE c.fn \in {"wait_any", "wait_all", "keyed_wait", "keyed_release"} -> c.objs
      [] c.fn = "signal_wait" -> <<c.objs[2]>>
      [] OTHER -> <<>>
IsKeyed(c) == c.fn \in {"keyed_wait", "keyed_release"}
IsSelect(c) == c.fn \in {"wait_any", "wait_all", "keyed_wait", "keyed_release", "signal_wait", "delay"}

Signaled(o, t) ==
    CASE Type[o] = "sem"   -> units[o] > 0
      [] Type[o] = "mutex" -> mowner[o] \in {NoOne, t} /\ mcount[o] < MaxRec
      [] Type[o] = "event" -> event[o]
      [] OTHER -> TRUE  \* a keyed event, in a wait that is not keyed

\* Where a keyed event has threads queued that a wait or release of t releases:
\* opposite operation, same key, and able to end the wait now.
Partners(t) ==
    LET c == call[t]
        q == queue[c.objs[1]]
    IN  {k \in DOMAIN q :
            LET u == q[k][1]
            IN  /\ u # t /\ IsKeyed(call[u]) /\ call[u].fn # c.fn /\ call[u].key = c.key
                /\ wait[u] # <<>> /\ Head(wait[u]).frame = "call" /\ ~Suspended(u)}
Partner(t) == queue[call[t].objs[1]][First(Partners(t))][1]

\* check_wait for the wait on top: what it ends with, and by which object.
Pending == [status |-> "pending", index |-> 0]
\* A mutant: one signaled object is enough for a wait-all.
ReadyAny(t) ==
    LET s == WaitObjs(call[t])
    IN  {k \in DOMAIN s : IF IsKeyed(call[t]) THEN Partners(t) # {} ELSE Signaled(s[k], t)}
Ready(t) ==
    LET c == call[t]
        s == WaitObjs(c)
    IN  IF c.fn = "wait_all"
        THEN IF \A k \in DOMAIN s : Signaled(s[k], t) THEN {1} ELSE {}
        ELSE IF IsKeyed(c)
        THEN IF Partners(t) # {} THEN {1} ELSE {}
        ELSE {k \in DOMAIN s : Signaled(s[k], t)}
CheckWait(t) ==
    LET c == call[t]
        ready == IF Head(wait[t]).frame = "call" THEN Ready(t) ELSE {}
    IN  IF system_apc[t] # <<>> THEN [status |-> "kernel_apc", index |-> 0]
        ELSE IF Suspended(t) THEN Pending
        ELSE IF ready # {}
        THEN [status |-> "object", index |-> First(ready)]
        ELSE IF Head(wait[t]).frame = "suspend" THEN [status |-> "timeout", index |-> 0]
        ELSE IF c.alertable /\ user_apc[t] # <<>> THEN [status |-> "user_apc", index |-> 0]
        ELSE IF deadline[t] = "past" THEN [status |-> "timeout", index |-> 0]
        ELSE Pending

CanEnd(t) == wait[t] # <<>> /\ CheckWait(t) # Pending

\* The objects that ending the wait of t with v takes.
Takes(t, v) ==
    IF v.status # "object" \/ IsKeyed(call[t]) THEN {}
    ELSE IF call[t].fn = "wait_all" THEN {call[t].objs[k] : k \in DOMAIN call[t].objs}
    ELSE {WaitObjs(call[t])[v.index]}

\* The satisfied callbacks.
Satisfied(t, S) ==
    /\ units' = [o \in Objs |-> IF o \in S /\ Type[o] = "sem" THEN units[o] - 1 ELSE units[o]]
    /\ mcount' = [o \in Objs |-> IF o \in S /\ Type[o] = "mutex" THEN mcount[o] + 1 ELSE mcount[o]]
    /\ mowner' = [o \in Objs |-> IF o \in S /\ Type[o] = "mutex" THEN t ELSE mowner[o]]
    /\ mdead' = [o \in Objs |-> mdead[o] /\ ~(o \in S /\ Type[o] = "mutex")]
    /\ event' = [o \in Objs |-> event[o] /\ (o \in S /\ Type[o] = "event" => Manual[o])]

\* A keyed event takes its partner along: wake_thread_queue_entry.
Ends(t, v) ==
    {t} \cup (IF v.status = "object" /\ IsKeyed(call[t]) THEN {Partner(t)} ELSE {})

\* A wait queue without the entries of the threads in E.
Without(s, E) == Keep(s, {k \in DOMAIN s : s[k][1] \notin E})

\* end_wait: off the stack and off the queues, and the objects are told.
EndWait(t, v) ==
    LET E == Ends(t, v)
    IN  /\ wait' = [u \in Threads |-> IF u \in E THEN Tail(wait[u]) ELSE wait[u]]
        /\ queue' = IF Head(wait[t]).frame = "suspend" THEN queue
                    ELSE [o \in Objs |-> Without(queue[o], E)]
        /\ Satisfied(t, Takes(t, v))

\* A mutant: nobody looks whether the context was changed.
OutdatedNever(u) == FALSE
\* The thread must come again for registers that were set from outside.
Outdated(u) == changed[u]

\* send_thread_wakeup to every thread of E that sleeps: a wait in the signal
\* handler gives the context back, or comes again for one that was changed.
Send(E, v) ==
    LET InHandler(u) == Head(wait[u]).frame = "suspend" /\ context[u] # "none"
                        /\ v.status \notin {"kernel_apc", "user_apc"}
        Status(u) == IF InHandler(u) /\ Outdated(u) THEN [status |-> "kernel_apc", index |-> 0] ELSE v
        Reply(u) == [cookie |-> Head(wait[u]).frame, status |-> Status(u).status, index |-> Status(u).index]
        Sleeps(u) == Head(wait[u]).cookie
    IN  /\ pipe' = [u \in Threads |-> IF u \in E /\ Sleeps(u) THEN Append(pipe[u], Reply(u)) ELSE pipe[u]]
        /\ context' = [u \in Threads |-> IF u \in E /\ Sleeps(u) /\ InHandler(u) /\ ~Outdated(u)
                                         THEN "none" ELSE context[u]]
-----------------------------------------------------------------------------
(* The server at work.                                                     *)

\* wake_up: the first thread on the queue whose wait can end; then from the
\* head again, as long as max allows.
WakeUpStep ==
    LET w == Head(todo)
        q == queue[w.obj]
        able == {k \in DOMAIN q : CanEnd(q[k][1])}
    IN  /\ Doing("wake_up")
        /\ todo' = IF able = {} THEN Tail(todo)
                   ELSE <<WakeThread(q[First(able)][1])>> \o
                        (IF w.max = 1 THEN Tail(todo)
                         ELSE <<[w EXCEPT !.max = IF @ = 0 THEN 0 ELSE @ - 1]>> \o Tail(todo))
        /\ UNCHANGED <<objects, queue, wait, stops, apcs, dead, program, client, sigusr1, pipe, history>>

\* wake_thread: ends the waits of a thread from the top down while it can.
WakeThreadStep ==
    LET t == Head(todo).thread
    IN  /\ Doing("wake_thread")
        /\ IF CanEnd(t)
           THEN /\ EndWait(t, CheckWait(t)) /\ Send(Ends(t, CheckWait(t)), CheckWait(t))
                /\ UNCHANGED todo
           ELSE /\ todo' = Tail(todo)
                /\ UNCHANGED <<objects, wait, queue, pipe, context>>
        /\ UNCHANGED <<suspend, changed, apcs, dead, program, client, sigusr1, history>>

\* The second half of a pulse.
ResetStep ==
    /\ Doing("reset")
    /\ event' = [event EXCEPT ![Head(todo).obj] = FALSE]
    /\ todo' = Tail(todo)
    /\ UNCHANGED <<units, mcount, mowner, mdead, queue, wait, stops, apcs, dead, program, client,
                   sigusr1, pipe, history>>

\* abandon_mutexes: one mutex of a dead thread at a time.
AbandonStep ==
    LET d == Head(todo).thread
        owned == {o \in Objs : mowner[o] = d}
    IN  /\ Doing("abandon")
        /\ IF owned = {}
           THEN todo' = Tail(todo) /\ UNCHANGED objects
           ELSE \E o \in owned :
                  /\ mcount' = [mcount EXCEPT ![o] = 0]
                  /\ mowner' = [mowner EXCEPT ![o] = NoOne]
                  /\ mdead' = [mdead EXCEPT ![o] = TRUE]
                  /\ todo' = <<WakeUp(o, 0)>> \o todo
                  /\ UNCHANGED <<units, event>>
        /\ UNCHANGED <<queue, wait, stops, apcs, dead, program, client, sigusr1, pipe, history>>

-----------------------------------------------------------------------------
(* server_select.                                                          *)

\* The handler of SIGUSR1 runs on top of the call.
Active(t) == IF pc[t]["suspend"] = "idle" THEN "call" ELSE "suspend"
Runs(t) == t \notin dead /\ pc[t]["suspend"] = "idle"

\* A frame of t leaves server_select.  A wait in the driver that ended by an
\* alert asserts that there was a user APC.
Returned(t, f, status) ==
    /\ pc' = [pc EXCEPT ![t][f] = IF f = "call" /\ call[t].fn = "inproc_wait" /\ status # "user_apc"
                                  THEN "abort" ELSE "idle"]
    /\ call' = [call EXCEPT ![t] = IF f = "call" THEN NoCall ELSE @]
    /\ deadline' = [deadline EXCEPT ![t] = IF f = "call" THEN "none" ELSE @]

\* A mutant: a semaphore takes any number of units.
CanSignalAny(t, o, n) == Type[o] = "mutex" => mowner[o] = t
\* Objects that a request signals.
CanSignal(t, o, n) ==
    CASE Type[o] = "sem"   -> units[o] + n <= Max[o]
      [] Type[o] = "mutex" -> mowner[o] = t
      [] OTHER -> TRUE
SignalObject(o, n) ==
    /\ units' = [units EXCEPT ![o] = IF Type[o] = "sem" THEN @ + n ELSE @]
    /\ mcount' = [mcount EXCEPT ![o] = IF Type[o] = "mutex" THEN @ - 1 ELSE @]
    /\ mowner' = [mowner EXCEPT ![o] = IF Type[o] = "mutex" /\ mcount[o] = 1 THEN NoOne ELSE @]
    /\ event' = [event EXCEPT ![o] = Type[o] = "event"]
    /\ UNCHANGED mdead
\* Whom it wakes: nobody when the semaphore had units left.
SignalWakes(o, n) ==
    CASE Type[o] = "sem"   -> IF units[o] = 0 THEN <<WakeUp(o, n)>> ELSE <<>>
      [] Type[o] = "mutex" -> IF mcount[o] = 1 THEN <<WakeUp(o, 0)>> ELSE <<>>
      [] OTHER -> <<WakeUp(o, IF Manual[o] THEN 0 ELSE 1)>>

\* The signal_and_wait.signal of this request.
Signals(t, f) == f = "call" /\ call[t].fn = "signal_wait" /\ ~signal_done[t]

\* The result of the APC that the frame ran goes to its caller, who goes on.
StorePrevApc(t, f) ==
    LET c == prev[t][f]
    IN  /\ prev' = [prev EXCEPT ![t][f] = NoOne]
        /\ pc' = [u \in Threads |->
                    IF u = t THEN [pc[t] EXCEPT ![f] = "server"]
                    ELSE IF u = c THEN [pc[u] EXCEPT !["call"] = "idle"] ELSE pc[u]]
        /\ call' = [u \in Threads |-> IF u = c THEN NoCall ELSE call[u]]

\* The select request up to the check: the context of a stopped thread is
\* stored, the thread queued on the objects, and the object signaled.
Select(t) ==
    LET f == Active(t)
        objs == IF f = "call" THEN WaitObjs(call[t]) ELSE <<>>
        entries(o) == Keep([k \in DOMAIN objs |-> <<t, k>>], {k \in DOMAIN objs : objs[k] = o})
    IN  /\ Idle /\ t \notin dead
        /\ pc[t][f] \in {"select", "again", "handler"}
        /\ Signals(t, f) => CanSignal(t, call[t].objs[1], 1)
        /\ StorePrevApc(t, f)
        /\ context' = [context EXCEPT ![t] = IF pc[t][f] = "handler" THEN "saved" ELSE @]
        /\ wait' = [wait EXCEPT ![t] = <<[frame |-> f, cookie |-> FALSE, user |-> FALSE]>> \o @]
        /\ queue' = [o \in Objs |-> queue[o] \o entries(o)]
        /\ IF Signals(t, f)
           THEN /\ SignalObject(call[t].objs[1], 1)
                /\ times' = [times EXCEPT ![t] = IF @ < 2 THEN @ + 1 ELSE 2]
                /\ todo' = SignalWakes(call[t].objs[1], 1) \o <<EndSelect(t)>>
           ELSE todo' = <<EndSelect(t)>> /\ UNCHANGED <<objects, times>>
        /\ UNCHANGED <<suspend, changed, apcs, dead, program, deadline, signal_done, stolen, sigusr1,
                       pipe, cancelled>>

\* The object cannot be signaled: the wait is taken back.
SelectFails(t) ==
    /\ Idle /\ Runs(t) /\ pc[t]["call"] \in {"select", "again"}
    /\ Signals(t, "call") /\ ~CanSignal(t, call[t].objs[1], 1)
    /\ Returned(t, "call", "error")
    /\ UNCHANGED <<objects, queue, wait, stops, apcs, dead, todo, program, prev, signal_done, stolen,
                   sigusr1, pipe, history>>

\* A mutant: the alert outlives the APC.
AlertLeftSet(q) == TRUE
\* The alert event after an APC left the queue: reset with the last one.
AlertLeft(q) == q # <<>>

\* The check at the end of the request.  A system APC goes with the reply and
\* its result with the next request, which signals nothing again; a user APC
\* and the context of a stopped thread go with the reply that ends the call.
SelectEnds(t) ==
    LET f == Active(t)
        v == CheckWait(t)
    IN  /\ Doing("select") /\ Head(todo).thread = t
        /\ CanEnd(t)
        /\ EndWait(t, v)
        /\ LET sent == Ends(t, v) \ {t}
           IN  pipe' = [u \in Threads |-> IF u \notin sent THEN pipe[u]
                          ELSE Append(pipe[u], [cookie |-> "call", status |-> v.status, index |-> v.index])]
        /\ IF v.status = "kernel_apc"
           THEN /\ system_apc' = [system_apc EXCEPT ![t] = Tail(@)]
                /\ prev' = [prev EXCEPT ![t][f] = Head(system_apc[t])]
                /\ pc' = [pc EXCEPT ![t][f] = "again"]
                /\ signal_done' = [signal_done EXCEPT ![t] = f = "call" \/ @]
                /\ alert_sync' = [alert_sync EXCEPT ![t] = @ /\ AlertLeft(user_apc[t])]
                /\ UNCHANGED <<user_apc, context, changed, call, deadline>>
           ELSE /\ user_apc' = [user_apc EXCEPT ![t] = IF v.status = "user_apc" THEN Tail(@) ELSE @]
                /\ alert_sync' = [alert_sync EXCEPT ![t] = IF v.status = "user_apc" THEN AlertLeft(Tail(user_apc[t]))
                                                                                   ELSE @]
                /\ context' = [context EXCEPT ![t] = IF f = "suspend" THEN "none" ELSE @]
                /\ changed' = [changed EXCEPT ![t] = IF f = "suspend" THEN FALSE ELSE @]
                /\ Returned(t, f, v.status)
                /\ UNCHANGED <<system_apc, prev, signal_done>>
        /\ todo' = Tail(todo)
        /\ UNCHANGED <<suspend, armed, dead, program, stolen, sigusr1, history>>

\* The thread has woken itself by the object it signaled.
SelectWoken(t) ==
    /\ Doing("select") /\ Head(todo).thread = t
    /\ wait[t] = <<>>
    /\ Returned(t, "call", "object")
    /\ todo' = Tail(todo)
    /\ UNCHANGED <<objects, queue, wait, stops, apcs, dead, program, prev, signal_done, stolen, sigusr1,
                   pipe, history>>

\* The thread has to sleep.
SelectPends(t) ==
    LET f == Active(t)
        timed == f = "suspend" \/ deadline[t] # "none"
    IN  /\ Doing("select") /\ Head(todo).thread = t
        /\ wait[t] # <<>> /\ ~CanEnd(t)
        /\ wait' = [wait EXCEPT ![t] = <<[frame |-> f, cookie |-> TRUE, user |-> timed]>> \o Tail(@)]
        /\ pc' = [pc EXCEPT ![t][f] = "read"]
        /\ todo' = Tail(todo)
        /\ UNCHANGED <<objects, queue, stops, apcs, dead, program, call, deadline, prev, signal_done,
                       stolen, sigusr1, pipe, history>>

\* A mutant: the reply for the other frame is dropped.
PutBackNothing(t) == <<>>
\* What goes back into the pipe when the right reply has come.
PutBack(t) == stolen[t]

\* wait_select_reply: a reply for the other frame is kept, and goes back into
\* the pipe once the right one has come.
ReadReply(t) ==
    LET f == Active(t)
        r == Head(pipe[t])
    IN  /\ t \notin dead /\ pc[t][f] = "read" /\ pipe[t] # <<>>
        /\ \/ /\ r.cookie # f
              /\ stolen' = [stolen EXCEPT ![t] = <<r>> \o @]
              /\ pipe' = [pipe EXCEPT ![t] = Tail(@)]
              /\ UNCHANGED <<pc, call, deadline>>
           \/ /\ r.cookie = f
              /\ pipe' = [pipe EXCEPT ![t] = Tail(@) \o PutBack(t)]
              /\ stolen' = [stolen EXCEPT ![t] = <<>>]
              /\ IF r.status \in {"kernel_apc", "user_apc"}
                 THEN pc' = [pc EXCEPT ![t][f] = "select"] /\ UNCHANGED <<call, deadline>>
                 ELSE Returned(t, f, r.status)
        /\ UNCHANGED <<objects, queue, wait, stops, apcs, dead, todo, program, prev, signal_done,
                       sigusr1, history>>

\* usr1_handler, unless the signal is blocked in the middle of server_select.
Usr1Handler(t) ==
    /\ Runs(t) /\ sigusr1[t] /\ pc[t]["call"] \notin {"server", "again"}
    /\ sigusr1' = [sigusr1 EXCEPT ![t] = FALSE]
    /\ pc' = [pc EXCEPT ![t]["suspend"] = "handler"]
    /\ UNCHANGED <<objects, queue, wait, stops, apcs, dead, todo, program, call, deadline, prev,
                   signal_done, stolen, pipe, history>>

\* Time passes the deadline of a call.
Expire(t) ==
    /\ deadline[t] = "later" /\ t \notin dead
    /\ deadline' = [deadline EXCEPT ![t] = "past"]
    /\ UNCHANGED <<objects, queue, wait, stops, apcs, dead, todo, program, call, pc, prev, signal_done,
                   stolen, sigusr1, pipe, history>>

\* thread_timeout: the timer of a wait that sleeps.
ThreadTimeout(t) ==
    \E k \in DOMAIN wait[t] :
        LET w == wait[t][k]
            v == [status |-> "timeout", index |-> 0]
        IN  /\ Idle /\ w.user /\ (w.frame = "suspend" \/ deadline[t] = "past")
            /\ IF k = 1 /\ ~Suspended(t)
               THEN EndWait(t, v) /\ Send({t}, v) /\ todo' = <<WakeThread(t)>>
               ELSE /\ wait' = [wait EXCEPT ![t][k].user = FALSE]
                    /\ UNCHANGED <<objects, queue, pipe, context, todo>>
            /\ UNCHANGED <<suspend, changed, apcs, dead, program, client, sigusr1, history>>

-----------------------------------------------------------------------------
(* Calls.                                                                  *)

\* The thread is about to make call c.
MayCall(t, c) == Runs(t) /\ pc[t]["call"] = "idle" /\ c \in program[t]

BeginWait(t, c) ==
    /\ MayCall(t, c) /\ (IsSelect(c) \/ c.fn = "inproc_wait")
    /\ call' = [call EXCEPT ![t] = c]
    /\ pc' = [pc EXCEPT ![t]["call"] = IF c.fn = "inproc_wait" THEN "driver" ELSE "select"]
    /\ deadline' = [deadline EXCEPT ![t] = CASE c.timeout = "infinite" -> "none"
                                             [] c.timeout = "finite" -> "later"
                                             [] OTHER -> "past"]
    /\ signal_done' = [signal_done EXCEPT ![t] = FALSE]
    /\ times' = [times EXCEPT ![t] = 0]
    /\ cancelled' = [cancelled EXCEPT ![t] = FALSE]
    /\ UNCHANGED <<objects, queue, wait, stops, apcs, dead, todo, program, prev, stolen, sigusr1, pipe>>

\* A wait in the driver, external to this module, ends by its alert event, and
\* the client asks the server for the APC with a timeout of zero.  Only an
\* alertable wait has the event.
DriverAlerted(t) ==
    /\ Runs(t) /\ pc[t]["call"] = "driver" /\ call[t].alertable /\ alert_sync[t]
    /\ pc' = [pc EXCEPT ![t]["call"] = "select"]
    /\ deadline' = [deadline EXCEPT ![t] = "past"]
    /\ UNCHANGED <<objects, queue, wait, stops, apcs, dead, todo, program, call, prev, signal_done,
                   stolen, sigusr1, pipe, history>>

\* release_semaphore, release_mutex and SET_EVENT, when they succeed.
Signal(t, c) ==
    /\ Idle /\ MayCall(t, c) /\ c.fn \in {"release", "unlock", "set", "pulse"}
    /\ CanSignal(t, c.objs[1], c.n)
    /\ SignalObject(c.objs[1], c.n)
    /\ todo' = SignalWakes(c.objs[1], c.n) \o (IF c.fn = "pulse" THEN <<ResetSync(c.objs[1])>> ELSE <<>>)
    /\ UNCHANGED <<queue, wait, stops, apcs, dead, program, client, sigusr1, pipe, history>>

ResetEvent(t, c) ==
    /\ Idle /\ MayCall(t, c) /\ c.fn = "reset"
    /\ event' = [event EXCEPT ![c.objs[1]] = FALSE]
    /\ UNCHANGED <<units, mcount, mowner, mdead, queue, wait, stops, apcs, dead, todo, program, client,
                   sigusr1, pipe, history>>

\* A mutant: no signal for a thread that waits.
StopThreadQuiet(u) ==
    /\ context' = [context EXCEPT ![u] = IF @ = "none" THEN "pending" ELSE @]
    /\ sigusr1' = [sigusr1 EXCEPT ![u] = @ \/ (context[u] = "none" /\ wait[u] = <<>>)]

\* stop_thread: a context to be filled, and a signal.
StopThread(u) ==
    /\ context' = [context EXCEPT ![u] = IF @ = "none" THEN "pending" ELSE @]
    /\ sigusr1' = [sigusr1 EXCEPT ![u] = @ \/ context[u] = "none"]

SuspendThread(t, c) ==
    LET u == c.owner
    IN  /\ Idle /\ MayCall(t, c) /\ c.fn = "suspend" /\ u \notin dead
        /\ suspend[u] < MaxSuspend
        /\ IF Suspended(u) THEN UNCHANGED <<context, sigusr1>> ELSE StopThread(u)
        /\ suspend' = [suspend EXCEPT ![u] = @ + 1]
        /\ UNCHANGED <<objects, queue, wait, changed, apcs, dead, todo, program, client, pipe, history>>

\* A mutant: the count is tested before it is decremented.
ResumesLate(u) == suspend[u] = 0
\* The last resume of a thread, that wakes it.
Resumes(u) == suspend[u] = 1
ResumeThread(t, c) ==
    LET u == c.owner
    IN  /\ Idle /\ MayCall(t, c) /\ c.fn = "resume" /\ u \notin dead /\ suspend[u] > 0
        /\ suspend' = [suspend EXCEPT ![u] = @ - 1]
        /\ todo' = IF Resumes(u) THEN <<WakeThread(u)>> ELSE <<>>
        /\ UNCHANGED <<objects, queue, wait, context, changed, apcs, dead, program, client, sigusr1, pipe,
                       history>>

\* Registers of another thread are set: it is stopped to take them.
SetThreadContext(t, c) ==
    LET u == c.owner
    IN  /\ Idle /\ MayCall(t, c) /\ c.fn = "set_context" /\ u \notin dead /\ u # t
        /\ StopThread(u)
        /\ changed' = [changed EXCEPT ![u] = TRUE]
        /\ UNCHANGED <<objects, queue, wait, suspend, apcs, dead, todo, program, client, pipe, history>>

\* queue_apc of a user APC: the first one wakes the thread.
QueueUserApc(t, c) ==
    LET u == c.owner
    IN  /\ Idle /\ MayCall(t, c) /\ c.fn = "queue_user" /\ u \notin dead /\ Len(user_apc[u]) < MaxApc
        /\ user_apc' = [user_apc EXCEPT ![u] = Append(@, "user")]
        /\ alert_sync' = [alert_sync EXCEPT ![u] = TRUE]
        /\ todo' = IF user_apc[u] = <<>> THEN <<WakeThread(u)>> ELSE <<>>
        /\ UNCHANGED <<objects, queue, wait, stops, system_apc, armed, dead, program, client, sigusr1, pipe,
                       history>>

\* server_queue_process_apc: an APC for another process goes to a thread of it
\* that waits, or else to one that is interrupted; the caller waits for the
\* result, and tries again when the thread died without running it.
QueueSystemApc(t, c) ==
    LET live == {k \in DOMAIN c.objs : c.objs[k] \notin dead}
        waiting == {k \in live : InApcWait(c.objs[k])}
        u == c.objs[First(IF waiting # {} THEN waiting ELSE live)]
    IN  /\ Idle /\ Runs(t) /\ c.fn = "queue_system"
        /\ MayCall(t, c) \/ (pc[t]["call"] = "requeue" /\ c = call[t])
        /\ IF live = {}
           THEN /\ pc' = [pc EXCEPT ![t]["call"] = "idle"]
                /\ call' = [call EXCEPT ![t] = NoCall]
                /\ UNCHANGED <<system_apc, sigusr1, todo>>
           ELSE /\ system_apc' = [system_apc EXCEPT ![u] = Append(@, t)]
                /\ sigusr1' = [sigusr1 EXCEPT ![u] = @ \/ waiting = {}]
                /\ todo' = IF system_apc[u] = <<>> THEN <<WakeThread(u)>> ELSE <<>>
                /\ pc' = [pc EXCEPT ![t]["call"] = "apc_wait"]
                /\ call' = [call EXCEPT ![t] = c]
        /\ UNCHANGED <<objects, queue, wait, stops, user_apc, alert_sync, armed, dead, program, deadline,
                       prev, signal_done, stolen, pipe, history>>

WithoutTimer(s) == Keep(s, {k \in DOMAIN s : s[k] # "timer"})

\* cancel_timer: also what set_timer does first.
CancelTimer(u) ==
    /\ user_apc' = [user_apc EXCEPT ![u] = WithoutTimer(@)]
    /\ alert_sync' = [alert_sync EXCEPT ![u] = @ /\ AlertLeft(WithoutTimer(user_apc[u]))]
    /\ cancelled' = [cancelled EXCEPT ![u] = @ \/ WithoutTimer(user_apc[u]) # user_apc[u]]

SetTimer(t, c) ==
    /\ Idle /\ MayCall(t, c) /\ c.fn = "set_timer"
    /\ CancelTimer(t)
    /\ armed' = [armed EXCEPT ![t] = TRUE]
    /\ UNCHANGED <<objects, queue, wait, stops, system_apc, dead, todo, program, client, sigusr1, pipe, times>>

CancelTimerOf(t, c) ==
    /\ Idle /\ MayCall(t, c) /\ c.fn = "cancel_timer" /\ armed[c.owner]
    /\ CancelTimer(c.owner)
    /\ armed' = [armed EXCEPT ![c.owner] = FALSE]
    /\ UNCHANGED <<objects, queue, wait, stops, system_apc, dead, todo, program, client, sigusr1, pipe, times>>

\* timer_callback: an APC in place of the last one, and the event of the timer.
TimerCallback(t) ==
    LET rest == WithoutTimer(user_apc[t])
    IN  /\ Idle /\ armed[t]
        /\ IF t \in dead THEN UNCHANGED <<user_apc, alert_sync>>
           ELSE /\ user_apc' = [user_apc EXCEPT ![t] = Append(rest, "timer")]
                /\ alert_sync' = [alert_sync EXCEPT ![t] = TRUE]
        /\ todo' = (IF t \notin dead /\ rest = <<>> THEN <<WakeThread(t)>> ELSE <<>>)
                   \o SignalWakes(TimerOf[t], 0)
        /\ event' = [event EXCEPT ![TimerOf[t]] = TRUE]
        /\ UNCHANGED <<units, mcount, mowner, mdead, queue, wait, stops, system_apc, armed, dead, program,
                       client, sigusr1, pipe, history>>

\* kill_thread: its waits end, its mutexes are abandoned, its APCs cancelled.
KillThread(t, c) ==
    LET d == c.owner
        callers == {system_apc[d][k] : k \in DOMAIN system_apc[d]}
    IN  /\ Idle /\ MayCall(t, c) /\ c.fn = "kill" /\ d \notin dead
        /\ dead' = dead \cup {d}
        /\ wait' = [wait EXCEPT ![d] = <<>>]
        /\ queue' = [o \in Objs |-> Without(queue[o], {d})]
        /\ todo' = <<Abandon(d)>>
        /\ context' = [context EXCEPT ![d] = "none"]
        /\ changed' = [changed EXCEPT ![d] = FALSE]
        /\ system_apc' = [system_apc EXCEPT ![d] = <<>>]
        /\ user_apc' = [user_apc EXCEPT ![d] = <<>>]
        /\ pc' = [u \in Threads |-> IF u \in callers THEN [pc[u] EXCEPT !["call"] = "requeue"] ELSE pc[u]]
        /\ UNCHANGED <<objects, suspend, alert_sync, armed, program, call, deadline, prev, signal_done,
                       stolen, sigusr1, pipe, history>>

-----------------------------------------------------------------------------
ServerStep ==
    \/ WakeUpStep \/ WakeThreadStep \/ ResetStep \/ AbandonStep
    \/ \E t \in Threads : SelectEnds(t) \/ SelectWoken(t) \/ SelectPends(t)
ClientStep(t) == Select(t) \/ SelectFails(t) \/ ReadReply(t) \/ Usr1Handler(t) \/ DriverAlerted(t)
Requests(t, c) ==
    \/ BeginWait(t, c) \/ Signal(t, c) \/ ResetEvent(t, c) \/ SuspendThread(t, c) \/ ResumeThread(t, c)
    \/ SetThreadContext(t, c) \/ QueueUserApc(t, c) \/ QueueSystemApc(t, c)
    \/ SetTimer(t, c) \/ CancelTimerOf(t, c) \/ KillThread(t, c)
TimeStep(t) == Expire(t) \/ ThreadTimeout(t) \/ TimerCallback(t)

Next ==
    \/ ServerStep
    \/ \E t \in Threads : ClientStep(t) \/ TimeStep(t) \/ \E c \in program[t] : Requests(t, c)

Spec == Init /\ [][Next]_vars

-----------------------------------------------------------------------------
(* Properties.                                                             *)

\* Every variable has its type, a semaphore stays within its maximum, a mutex
\* has an owner exactly while it is held, a thread is queued only on objects
\* its call names, and it has two waits at most (release_semaphore, do_release,
\* select_on).
TypeOK ==
    /\ units \in [Objs -> Nat] /\ \A o \in Objs : Type[o] = "sem" => units[o] <= Max[o]
    /\ mcount \in [Objs -> 0..MaxRec] /\ mowner \in [Objs -> Threads \cup {NoOne}]
    /\ mdead \in [Objs -> BOOLEAN] /\ event \in [Objs -> BOOLEAN]
    /\ \A o \in Objs : (mowner[o] = NoOne) = (mcount[o] = 0)
    /\ \A o \in Objs, k \in 1..64 : k \in DOMAIN queue[o] =>
          queue[o][k][1] \in Threads /\ WaitObjs(call[queue[o][k][1]])[queue[o][k][2]] = o
    /\ \A t \in Threads : Len(wait[t]) <= 2
    /\ suspend \in [Threads -> 0..MaxSuspend] /\ context \in [Threads -> {"none", "pending", "saved"}]
    /\ changed \in [Threads -> BOOLEAN] /\ alert_sync \in [Threads -> BOOLEAN]
    /\ armed \in [Threads -> BOOLEAN] /\ sigusr1 \in [Threads -> BOOLEAN]
    /\ dead \subseteq Threads /\ program \in Programs
    /\ deadline \in [Threads -> {"none", "later", "past"}]
    /\ prev \in [Threads -> [Frames -> Threads \cup {NoOne}]]

\* No thread sleeps on a wait that could end: after every request and timer,
\* a thread that sleeps has no object, partner or APC to wake it, unless it is
\* suspended, and none that was resumed is left in wait_suspend.  Only a wait
\* whose timer is about to fire may still sleep (release_semaphore, wake_up,
\* resume_thread, wake_thread).
NoStrandedWait ==
    Idle => \A t \in Threads \ dead :
        wait[t] # <<>> /\ Head(wait[t]).cookie =>
            CheckWait(t).status \in
                IF Head(wait[t]).frame = "call" THEN {"pending", "timeout"} ELSE {"pending"}

\* A frame that reads the pipe has a wait in the server or one reply on its
\* way, and nothing else is in the pipe: no reply is lost, sent twice or left
\* over for the next select (wait_select_reply, send_thread_wakeup).
RepliesMatch ==
    Idle => \A t \in Threads \ dead, f \in Frames :
        LET replies == {k \in DOMAIN (pipe[t] \o stolen[t]) : (pipe[t] \o stolen[t])[k].cookie = f}
            waits == {k \in DOMAIN wait[t] : wait[t][k].frame = f}
        IN  Cardinality(replies) + Cardinality(waits) = IF pc[t][f] = "read" THEN 1 ELSE 0

\* The handler will make another request, or it is held by one.
Stops(t) ==
    \/ sigusr1[t]
    \/ /\ pc[t]["suspend"] # "idle"
       /\ \A k \in DOMAIN pipe[t] : pipe[t][k].cookie = "suspend" => pipe[t][k].status = "kernel_apc"

\* A suspended thread does not run on: it is held in wait_suspend or a signal
\* is under way, and its handler finds a context it may fill (wait_suspend:
\* will only return once the thread is no longer suspended).
SuspendedStops ==
    \A t \in Threads \ dead :
        /\ Suspended(t) => Stops(t)
        /\ pc[t]["suspend"] = "handler" => context[t] # "saved"

\* Registers set from outside are not dropped: the thread comes for them
\* (send_thread_wakeup, the reply of select).
ContextTaken == \A t \in Threads \ dead : changed[t] => context[t] # "none" /\ Stops(t)

\* The assertion after a wait in the driver that was alerted: the server has a
\* user APC for the thread, unless a timer was cancelled meanwhile.
AlertFindsApc == \A t \in Threads : pc[t]["call"] = "abort" => cancelled[t]

\* An APC for another process is not left behind: its thread is about to make
\* a request, will be told to, or runs the handler of a signal, also when it is
\* suspended or was taken from a wait of its own (queue_apc, check_wait).
ApcsFetched ==
    Idle => \A t \in Threads \ dead : system_apc[t] # <<>> =>
        \/ sigusr1[t]
        \/ \E f \in Frames : pc[t][f] \in {"select", "again", "handler"}
        \/ \E k \in DOMAIN (pipe[t] \o stolen[t]) :
              (pipe[t] \o stolen[t])[k].status \in {"kernel_apc", "user_apc"}

\* SIGNAL_AND_WAIT signals its object once, however often the request is made
\* again (server_select: don't signal multiple times).
SignalsOnce == \A t \in Threads : times[t] <= 1

-----------------------------------------------------------------------------
(* The server gives the promises of SyncObjects too.                       *)

AbstractCall(c) == [c EXCEPT !.fn = IF @ = "signal_wait" THEN "wait_any" ELSE @, !.objs = WaitObjs(c)]
\* A call that signals and waits counts as both, one that kills as one for
\* every mutex.
AbstractCalls ==
    [t \in Threads |-> UNION {
        LET C == p[t]
        IN  {c \in C : c.fn # "kill"} \cup {AbstractCall(c) : c \in {d \in C : IsSelect(d)}}
              \cup {[c EXCEPT !.fn = f, !.n = 1] : c \in {d \in C : d.fn = "signal_wait"},
                                                f \in {"release", "unlock"}}
              \cup {[c EXCEPT !.objs = <<o>>] : c \in {d \in C : d.fn = "kill"}, o \in Objs}
        : p \in Programs}]

Report(t) == SelectSeq(pipe[t] \o stolen[t], LAMBDA r : r.cookie = "call" /\ r.status = "object")
WaitsForObjects(t) == IsSelect(call[t]) /\ ~IsKeyed(call[t]) /\ WaitObjs(call[t]) # <<>>
WokenEarly(t) == pc[t]["call"] = "server" /\ wait[t] = <<>>

Abstract == INSTANCE SyncObjects WITH
    Calls <- AbstractCalls,
    waiting <- [t \in Threads |->
        IF WaitsForObjects(t) /\ t \notin dead /\ Report(t) = <<>> /\ ~WokenEarly(t)
        THEN AbstractCall(call[t]) ELSE NoCall],
    taken <- [t \in Threads |->
        IF WaitsForObjects(t) /\ Report(t) # <<>> THEN Takes(t, Head(Report(t))) ELSE {}]

\* Whatever wakes a thread, an APC, a resume, a timeout, a partner or a
\* release, it takes the objects it reports, once and only when they are
\* signaled, and a wait-all takes them together (check_wait, end_wait).
ImplementsSyncObjects == Abstract!Spec
=============================================================================
