---------------------------- MODULE SyncObjects -----------------------------
(***************************************************************************)
(* What the driver and the client promise together: NT synchronization     *)
(* objects with atomic operations.  A wait takes its objects in one step,  *)
(* only when they are signaled, and reports what it took; a release adds   *)
(* its units in one step and never exceeds the maximum.  There are no      *)
(* locks, queues, words, loans or fast paths here; NtSync implements this  *)
(* specification.                                                          *)
(***************************************************************************)
EXTENDS Integers, Sequences

CONSTANTS Threads, Objs, Type, Max, Manual, Count0, Calls, MaxRec, NoOne, NoCall

VARIABLES
    units,     \* [Objs -> Nat]: the units of a semaphore
    mcount, mowner, mdead,  \* the count, the owner and the abandoned flag of a mutex
    event,     \* [Objs -> BOOLEAN]
    waiting,   \* [Threads -> the wait under way and not yet satisfied, or NoCall]
    taken      \* [Threads -> SUBSET Objs]: what a satisfied wait has yet to report

objects == <<units, mcount, mowner, mdead, event>>
waits == <<waiting, taken>>
vars == <<objects, waits>>

Init ==
    /\ units = [o \in Objs |-> IF Type[o] = "sem" THEN Count0[o] ELSE 0]
    /\ mcount = [o \in Objs |-> 0]
    /\ mowner = [o \in Objs |-> NoOne]
    /\ mdead = [o \in Objs |-> FALSE]
    /\ event = [o \in Objs |-> Type[o] = "event" /\ Count0[o] = 1]
    /\ waiting = [t \in Threads |-> NoCall]
    /\ taken = [t \in Threads |-> {}]

Signaled(o, t) ==
    CASE Type[o] = "sem"   -> units[o] > 0
      [] Type[o] = "mutex" -> mowner[o] \in {NoOne, t} /\ mcount[o] < MaxRec
      [] Type[o] = "event" -> event[o]

\* t takes every object of S at once, and its wait is over: it reports the
\* objects later, or at once.
Take(t, S) ==
    /\ \A o \in S : Signaled(o, t)
    /\ units' = [o \in Objs |-> IF o \in S /\ Type[o] = "sem" THEN units[o] - 1 ELSE units[o]]
    /\ mcount' = [o \in Objs |-> IF o \in S /\ Type[o] = "mutex" THEN mcount[o] + 1 ELSE mcount[o]]
    /\ mowner' = [o \in Objs |-> IF o \in S /\ Type[o] = "mutex" THEN t ELSE mowner[o]]
    /\ mdead' = [o \in Objs |-> mdead[o] /\ ~(o \in S /\ Type[o] = "mutex")]
    /\ event' = [o \in Objs |-> event[o] /\ (o \in S /\ Type[o] = "event" => Manual[o])]
    /\ waiting' = [waiting EXCEPT ![t] = NoCall]
    /\ taken' \in {[taken EXCEPT ![t] = S], taken}

Range(s) == {s[k] : k \in DOMAIN s}

StartWait(t) ==
    /\ waiting[t] = NoCall /\ taken[t] = {}
    /\ \E c \in Calls[t] : c.fn \in {"wait_any", "wait_all"} /\ waiting' = [waiting EXCEPT ![t] = c]
    /\ UNCHANGED <<objects, taken>>

\* A wait-all takes all its objects; any other wait, or the alert, takes one.
Satisfy(t) ==
    LET c == waiting[t]
    IN  /\ c # NoCall
        /\ \/ c.fn = "wait_all" /\ Take(t, Range(c.objs))
           \/ c.fn = "wait_any" /\ \E o \in Range(c.objs) : Take(t, {o})
           \/ c.alert # NoOne /\ Take(t, {c.alert})

\* A wait ends unsatisfied: timeout, an invalid call, the death of the thread.
GiveUp(t) ==
    /\ waiting[t] # NoCall
    /\ waiting' = [waiting EXCEPT ![t] = NoCall]
    /\ UNCHANGED <<objects, taken>>

Report(t) ==
    /\ taken[t] # {}
    /\ taken' = [taken EXCEPT ![t] = {}]
    /\ UNCHANGED <<objects, waiting>>

Release(o) ==
    /\ Type[o] = "sem"
    /\ \E t \in Threads : \E c \in Calls[t] :
          /\ c.fn = "release" /\ c.objs[1] = o
          /\ units[o] + c.n <= Max[o]
          /\ units' = [units EXCEPT ![o] = @ + c.n]
    /\ UNCHANGED <<mcount, mowner, mdead, event, waits>>

\* Only the owner can release a mutex, once for each time it took it.
Unlock(o) ==
    /\ Type[o] = "mutex" /\ mowner[o] # NoOne
    /\ \E t \in Threads : \E c \in Calls[t] : c.fn = "unlock" /\ c.objs[1] = o /\ c.owner = mowner[o]
    /\ mcount' = [mcount EXCEPT ![o] = @ - 1]
    /\ mowner' = [mowner EXCEPT ![o] = IF mcount[o] = 1 THEN NoOne ELSE @]
    /\ UNCHANGED <<units, mdead, event, waits>>

\* A mutex loses a dead owner altogether, and remembers it for the next.
Abandon(o) ==
    /\ Type[o] = "mutex" /\ mowner[o] # NoOne
    /\ \E t \in Threads : \E c \in Calls[t] : c.fn = "kill" /\ c.objs[1] = o /\ c.owner = mowner[o]
    /\ mcount' = [mcount EXCEPT ![o] = 0]
    /\ mowner' = [mowner EXCEPT ![o] = NoOne]
    /\ mdead' = [mdead EXCEPT ![o] = TRUE]
    /\ UNCHANGED <<units, event, waits>>

Set(o) ==
    /\ Type[o] = "event"
    /\ event' \in {[event EXCEPT ![o] = b] : b \in BOOLEAN}
    /\ UNCHANGED <<units, mcount, mowner, mdead, waits>>

Next ==
    \/ \E t \in Threads : StartWait(t) \/ Satisfy(t) \/ GiveUp(t) \/ Report(t)
    \/ \E o \in Objs : Release(o) \/ Unlock(o) \/ Abandon(o) \/ Set(o)

Spec == Init /\ [][Next]_vars
=============================================================================
