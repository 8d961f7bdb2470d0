-------------------------- MODULE ServerWakeProofs ---------------------------
(***************************************************************************)
(* Proofs about the server's waits (ServerWait), continued: no thread is   *)
(* left asleep on a wait that could end.  The invariant follows the server *)
(* through a request: a thread that sleeps and could be woken by an APC, a *)
(* resume, a partner at a keyed event or the objects it waits for has a    *)
(* wake_thread or a wake_up in todo that comes to it, or somebody else on  *)
(* the way takes the object first.  A wake_up of a semaphore or an event   *)
(* stops after the wakeups it is given, so this needs that each is spent   *)
(* on a thread that takes the object (WakesAreUsed), which the last part   *)
(* proves for programs whose waits for all objects have no timeout.        *)
(***************************************************************************)
EXTENDS ServerWaitProofs

-----------------------------------------------------------------------------
(* Who sleeps, and what could end the wait.                                *)

\* The handler sleeps in wait_suspend; a wait of the call that it does not hide.
\* A wait that the handler has only pushed hides nothing: it ends or sleeps
\* before the server does anything else.
Held(t) == HasWait(t, "suspend") /\ pc[t]["suspend"] = "read"
Exposed(t) == HasWait(t, "call") /\ ~Held(t)
CallSleeps(t) == Exposed(t) /\ pc[t]["call"] = "read"

\* The thread sleeps and an APC or the end of its suspension could wake it.
Nudged(t) ==
    \/ Held(t) /\ ~Suspended(t)
    \/ (Held(t) \/ CallSleeps(t)) /\ system_apc[t] # <<>>
    \/ CallSleeps(t) /\ ~Suspended(t) /\ call[t].alertable /\ user_apc[t] # <<>>

\* Two threads could release each other from a keyed event.
Meet(t, u) ==
    /\ t # u /\ IsKeyed(call[t]) /\ IsKeyed(call[u]) /\ call[t].fn # call[u].fn /\ call[t].key = call[u].key
    /\ call[t].objs[1] = call[u].objs[1]
    /\ Exposed(t) /\ Exposed(u) /\ ~Suspended(t) /\ ~Suspended(u)

\* The thread sleeps and the objects it waits for are signaled.
Wanting(t) == CallSleeps(t) /\ ~Suspended(t) /\ ~IsKeyed(call[t]) /\ Ready(t) # {}

-----------------------------------------------------------------------------
(* The invariant: the server is on its way to each of them.                *)

Queued(o, t) == \E j \in 1..Len(queue[o]) : queue[o][j][1] = t
QueuedOK(t) == HasWait(t, "call") => \A k \in 1..Len(WaitObjs(call[t])) : Queued(WaitObjs(call[t])[k], t)

\* A thread is woken at once, a wake_up is interrupted by nothing else.
WakesOK(s) == \A k \in 1..Len(s) :
    /\ s[k].do = "wake_thread" => k = 1
    /\ s[k].do = "wake_up" => k = 1 \/ (k = 2 /\ s[1].do = "wake_thread")

Heads(x) == todo # <<>> /\ Head(todo).do = x.do /\ Head(todo).thread = x.thread
NudgedOK(t) == Nudged(t) => Heads(WakeThread(t))

MeetOK(t, u) == Meet(t, u) =>
    \/ Heads(WakeThread(t)) \/ Heads(WakeThread(u))
    \/ \E z \in {t, u} : Heads(EndSelect(z)) /\ pc[z]["call"] = "server"

\* Without o the wait could not end.
Only(t, o) ==
    IF call[t].fn = "wait_all" THEN \E k \in 1..Len(WaitObjs(call[t])) : WaitObjs(call[t])[k] = o
    ELSE \A k \in Ready(t) : WaitObjs(call[t])[k] = o
\* At most m threads can have o.
Spare(o, m) == (Type[o] = "sem" /\ units[o] <= m) \/ (Type[o] = "event" /\ ~Manual[o])
\* The wait of t ends when the server looks at it, and takes o.
Grabs(t, o) ==
    /\ Exposed(t) /\ ~Suspended(t) /\ system_apc[t] = <<>> /\ ~IsKeyed(call[t]) /\ Ready(t) # {}
    /\ o \in Takes(t, [status |-> "object", index |-> First(Ready(t))])

WakesAll(t) == \E k \in 1..Len(todo) : todo[k].do = "wake_up" /\ todo[k].max = 0 /\ Queued(todo[k].obj, t)
WakesSome(o, n) == \E k \in 1..Len(todo) :
    todo[k].do = "wake_up" /\ todo[k].max # 0 /\ todo[k].obj = o /\ Spare(o, todo[k].max + n)
WakesTaker(o) ==
    /\ todo # <<>> /\ Head(todo).do = "wake_thread" /\ Grabs(Head(todo).thread, o)
    /\ Spare(o, 1) \/ WakesSome(o, 1)
WantingOK(t) == Wanting(t) =>
    \/ Heads(WakeThread(t)) \/ WakesAll(t)
    \/ \E o \in Objs : Only(t, o) /\ (WakesSome(o, 0) \/ WakesTaker(o))

StrandInv ==
    /\ WakesOK(todo)
    /\ \A t \in Threads : QueuedOK(t) /\ NudgedOK(t) /\ WantingOK(t)
    /\ \A t, u \in Threads : MeetOK(t, u)

-----------------------------------------------------------------------------
(* What a wakeup is spent on.                                              *)

\* A semaphore or an event that is signaled, and who on its queue can be woken.
Lit(o) == (Type[o] = "sem" /\ units[o] > 0) \/ (Type[o] = "event" /\ event[o])
Able(o) == {k \in DOMAIN queue[o] : CanEnd(queue[o][k][1])}
\* A wakeup of wake_up, when they are counted, goes to a thread that takes the
\* object, or there is no other to wake.
WakesAreUsed ==
    Doing("wake_up") /\ Head(todo).max # 0 =>
        LET o == Head(todo).obj
            t == queue[o][First(Able(o))][1]
        IN  Lit(o) /\ Able(o) # {} => o \in Takes(t, CheckWait(t)) \/ \A k \in Able(o) : queue[o][k][1] = t

\* A wait-all has no deadline; a thread in its request is last on the queues.
UntimedOK(t) == call[t].fn = "wait_all" => deadline[t] = "none" /\ pc[t]["call"] # "driver"
\* After t there is nobody else on the queue.
EndsWith(q, t) == \A j, k \in 1..Len(q) : j <= k /\ q[j][1] = t => q[k][1] = t
BackOK(t) == pc[t]["call"] = "server" => \A o \in Objs : EndsWith(queue[o], t)
UntimedInv == \A t \in Threads : UntimedOK(t) /\ BackOK(t)

-----------------------------------------------------------------------------
(* Entries that are kept.                                                  *)

LEMMA RankOrder ==
  ASSUME NEW n \in Nat, NEW K \in SUBSET (1..n)
  PROVE  /\ \A k \in K : Rank(K, k) \in 1..Cardinality(K)
         /\ \A k, m \in K : k < m => Rank(K, k) < Rank(K, m)
  <1>1. IsFiniteSet(K) /\ Cardinality(K) \in Nat
    <2>1. IsFiniteSet(1..n)
      BY FS_Interval
    <2> QED BY <2>1, FS_Subset, FS_CardinalityType
  <1>2. ASSUME NEW k \in K
        PROVE  IsFiniteSet({i \in K : i <= k}) /\ Rank(K, k) \in 1..Cardinality(K)
    <2> DEFINE B == {i \in K : i <= k}
    <2>1. B \in SUBSET K /\ k \in B
      OBVIOUS
    <2>2. IsFiniteSet(B) /\ Cardinality(B) <= Cardinality(K) /\ Cardinality(B) \in Nat
      BY <1>1, <2>1, FS_Subset, FS_CardinalityType
    <2>3. Cardinality(B) # 0
      BY <2>1, <2>2, FS_EmptySet
    <2> QED BY <1>1, <2>2, <2>3 DEF Rank
  <1>3. ASSUME NEW k \in K, NEW m \in K, k < m PROVE Rank(K, k) < Rank(K, m)
    <2> DEFINE B == {i \in K : i <= k}
               C == {i \in K : i <= m}
    <2>0. \A i \in K : i \in Int
      OBVIOUS
    <2>1. ~(m <= k) /\ m <= m /\ \A i \in K : i <= k => i <= m
      BY <1>3, <2>0
    <2>2. B \in SUBSET C /\ m \in C /\ m \notin B
      BY <2>1
    <2>3. IsFiniteSet(C) /\ IsFiniteSet(B)
      BY <1>2
    <2>4. Cardinality(B) <= Cardinality(C) /\ Cardinality(B) # Cardinality(C)
      BY <2>2, <2>3, FS_Subset
    <2>5. Cardinality(B) \in Nat /\ Cardinality(C) \in Nat
      BY <2>3, FS_CardinalityType
    <2> QED BY <2>4, <2>5 DEF Rank
  <1> QED BY <1>2, <1>3

\* Nothing is lost of what is to be kept, nor its order.
LEMMA KeepAll ==
  ASSUME NEW S, NEW s \in Seq(S), NEW K \in SUBSET (1..Len(s))
  PROVE  /\ \A k \in K : \E j \in 1..Len(Keep(s, K)) : Keep(s, K)[j] = s[k]
         /\ \A i, j \in 1..Len(Keep(s, K)) : i <= j =>
               \E k, m \in K : k <= m /\ Keep(s, K)[i] = s[k] /\ Keep(s, K)[j] = s[m]
  <1> DEFINE pick(j) == CHOOSE k \in K : Rank(K, k) = j
             n == Cardinality(K)
  <1>0. Len(s) \in Nat
    OBVIOUS
  <1>1. n \in Nat /\ \A j \in 1..n : pick(j) \in K /\ Rank(K, pick(j)) = j
    <2>1. n \in Nat /\ \A j \in 1..n : \E k \in K : Rank(K, k) = j
      BY <1>0, Ranks
    <2> QED BY <2>1
  <1>2. Keep(s, K) = [j \in 1..n |-> s[pick(j)]]
    BY DEF Keep, Rank
  <1>3. Len(Keep(s, K)) = n
    <2>1. DOMAIN Keep(s, K) = 1..n
      BY <1>2
    <2>2. Keep(s, K) \in Seq(S)
      BY KeepType
    <2> QED BY <1>1, <2>1, <2>2
  <1> HIDE DEF pick, n
  <1>4. \A k, m \in K : k < m => Rank(K, k) < Rank(K, m)
    BY <1>0, RankOrder
  <1>a. \A k \in K : k \in Nat
    BY <1>0
  <1>5. \A k \in K : Rank(K, k) \in 1..n
    BY <1>0, RankOrder DEF n
  <1>6. ASSUME NEW k \in K PROVE \E j \in 1..n : s[pick(j)] = s[k]
    <2>1. Rank(K, k) \in 1..n
      BY <1>5
    <2>2. pick(Rank(K, k)) \in K /\ Rank(K, pick(Rank(K, k))) = Rank(K, k)
      BY <1>1, <2>1
    <2>3. ASSUME NEW m \in K, Rank(K, m) = Rank(K, k) PROVE m = k
      <3>1. ~(m < k) /\ ~(k < m)
        BY <1>1, <1>4, <2>1, <2>3
      <3> QED BY <1>a, <3>1
    <2>4. pick(Rank(K, k)) = k
      BY <2>2, <2>3
    <2> QED BY <2>1, <2>4
  <1>7. ASSUME NEW i \in 1..n, NEW j \in 1..n, i <= j PROVE pick(i) <= pick(j)
    <2>1. pick(i) \in K /\ pick(j) \in K /\ Rank(K, pick(i)) = i /\ Rank(K, pick(j)) = j
      BY <1>1
    <2>2. ASSUME NEW p \in K, NEW q \in K, Rank(K, p) = i, Rank(K, q) = j PROVE p <= q
      <3>1. ~(q < p)
        BY <1>1, <1>4, <1>7, <2>2
      <3> QED BY <1>a, <3>1
    <2> QED BY <2>1, <2>2
  <1>8. \A i, j \in 1..n : i <= j =>
           \E k, m \in K : k <= m /\ Keep(s, K)[i] = s[k] /\ Keep(s, K)[j] = s[m]
    BY <1>1, <1>2, <1>7
  <1>9. \A k \in K : \E j \in 1..n : Keep(s, K)[j] = s[k]
    BY <1>2, <1>6
  <1> QED BY <1>3, <1>8, <1>9

LEMMA WithoutAll ==
  ASSUME NEW S, NEW s \in Seq(S), NEW E
  PROVE  /\ \A k \in 1..Len(s) : s[k][1] \notin E => \E j \in 1..Len(Without(s, E)) : Without(s, E)[j] = s[k]
         /\ \A i, j \in 1..Len(Without(s, E)) : i <= j =>
               \E k, m \in 1..Len(s) : k <= m /\ Without(s, E)[i] = s[k] /\ Without(s, E)[j] = s[m]
  <1> DEFINE K == {k \in DOMAIN s : s[k][1] \notin E}
  <1>1. DOMAIN s = 1..Len(s)
    OBVIOUS
  <1>2. K \in SUBSET (1..Len(s)) /\ \A k \in 1..Len(s) : s[k][1] \notin E => k \in K
    BY <1>1
  <1>3. Without(s, E) = Keep(s, K)
    BY DEF Without
  <1> HIDE DEF K
  <1>4. /\ \A k \in K : \E j \in 1..Len(Keep(s, K)) : Keep(s, K)[j] = s[k]
        /\ \A i, j \in 1..Len(Keep(s, K)) : i <= j =>
              \E k, m \in K : k <= m /\ Keep(s, K)[i] = s[k] /\ Keep(s, K)[j] = s[m]
    BY <1>2, KeepAll
  <1>5. PICK w : w = Without(s, E)
    OBVIOUS
  <1>6. /\ \A k \in K : \E j \in 1..Len(w) : w[j] = s[k]
        /\ \A i, j \in 1..Len(w) : i <= j => \E k, m \in K : k <= m /\ w[i] = s[k] /\ w[j] = s[m]
    BY <1>3, <1>4, <1>5
  <1>7. \A k \in 1..Len(s) : s[k][1] \notin E => \E j \in 1..Len(w) : w[j] = s[k]
    BY <1>2, <1>6
  <1>8. \A i, j \in 1..Len(w) : i <= j => \E k, m \in 1..Len(s) : k <= m /\ w[i] = s[k] /\ w[j] = s[m]
    <2> SUFFICES ASSUME NEW i \in 1..Len(w), NEW j \in 1..Len(w), i <= j
                 PROVE  \E k, m \in 1..Len(s) : k <= m /\ w[i] = s[k] /\ w[j] = s[m]
      OBVIOUS
    <2>1. PICK k \in K, m \in K : k <= m /\ w[i] = s[k] /\ w[j] = s[m]
      BY <1>6
    <2>2. k \in 1..Len(s) /\ m \in 1..Len(s)
      BY <1>2
    <2> QED BY <2>1, <2>2
  <1> QED BY <1>5, <1>7, <1>8

-----------------------------------------------------------------------------
(* What these states mean for the wait on top.                             *)

LEMMA SleepFacts ==
  ASSUME ServerInv, NEW t \in Threads
  PROVE  /\ HasWait(t, "suspend") => wait[t] # <<>> /\ Head(wait[t]).frame = "suspend"
         /\ Held(t) => wait[t] # <<>> /\ Head(wait[t]).frame = "suspend" /\ Head(wait[t]).cookie
         /\ Exposed(t) /\ pc[t]["suspend"] # "server" => wait[t] # <<>> /\ Head(wait[t]).frame = "call"
         /\ wait[t] # <<>> /\ Head(wait[t]).frame = "call" => Exposed(t) /\ ~HasWait(t, "suspend")
         /\ wait[t] # <<>> /\ Head(wait[t]).cookie /\ Head(wait[t]).frame = "call" => CallSleeps(t)
         /\ wait[t] # <<>> /\ Head(wait[t]).cookie /\ Head(wait[t]).frame = "suspend" => Held(t)
         /\ wait[t] # <<>> => Head(wait[t]).frame \in Frames
  <1>1. StateInv /\ StackOK(t) /\ wait[t] \in Seq(Waits) /\ Len(wait[t]) \in Nat
    BY ServerParts DEF StacksInv, StateInv
  <1>2. ASSUME wait[t] # <<>>
        PROVE  /\ Head(wait[t]) = wait[t][1] /\ Head(wait[t]).frame \in Frames /\ HasWait(t, Head(wait[t]).frame)
               /\ pc[t][Head(wait[t]).frame] = IF Head(wait[t]).cookie THEN "read" ELSE "server"
    BY <1>1, <1>2, TopFrame, HeadTail
  <1>3. \A f : HasWait(t, f) => wait[t] # <<>>
    BY <1>1 DEF HasWait
  <1>4. ASSUME HasWait(t, "suspend") PROVE Head(wait[t]).frame = "suspend"
    <2>1. PICK k \in 1..Len(wait[t]) : wait[t][k].frame = "suspend"
      BY <1>4 DEF HasWait
    <2>2. k = 1
      <3>1. Len(wait[t]) <= 2 /\ (Len(wait[t]) = 2 => wait[t][2].frame = "call")
        BY <1>1 DEF StackOK
      <3>2. k = 1 \/ (k = 2 /\ Len(wait[t]) = 2)
        <4>1. \A n \in Nat : n <= 2 => \A j \in 1..n : j = 1 \/ (j = 2 /\ n = 2)
          OBVIOUS
        <4> QED BY <1>1, <2>1, <3>1, <4>1
      <3> QED BY <2>1, <3>1, <3>2
    <2> QED BY <1>2, <1>3, <1>4, <2>1, <2>2
  <1>5. ASSUME wait[t] # <<>>, Head(wait[t]).frame = "call" PROVE ~HasWait(t, "suspend")
    BY <1>4, <1>5
  <1>6. ASSUME HasWait(t, "suspend") PROVE pc[t]["suspend"] = IF Head(wait[t]).cookie THEN "read" ELSE "server"
    BY <1>2, <1>3, <1>4, <1>6
  <1>7. ASSUME Exposed(t), pc[t]["suspend"] # "server" PROVE ~HasWait(t, "suspend")
    <2>1. ~HasWait(t, "suspend") \/ pc[t]["suspend"] # "read"
      BY <1>7 DEF Exposed, Held
    <2> QED BY <1>6, <1>7, <2>1
  <1>8. ASSUME wait[t] # <<>>, ~HasWait(t, "suspend") PROVE Head(wait[t]).frame = "call"
    BY <1>2, <1>8 DEF Frames
  <1>9. ASSUME wait[t] # <<>>, Head(wait[t]).frame = "call"
        PROVE  Exposed(t) /\ (Head(wait[t]).cookie => CallSleeps(t))
    <2>1. HasWait(t, "call") /\ ~HasWait(t, "suspend") /\ (Head(wait[t]).cookie => pc[t]["call"] = "read")
      BY <1>2, <1>5, <1>9
    <2> QED BY <2>1 DEF Exposed, Held, CallSleeps
  <1>10. Exposed(t) => wait[t] # <<>>
    BY <1>3 DEF Exposed
  <1>11. Held(t) => HasWait(t, "suspend") /\ Head(wait[t]).cookie
    BY <1>6 DEF Held
  <1>12. ASSUME wait[t] # <<>>, Head(wait[t]).cookie, Head(wait[t]).frame = "suspend" PROVE Held(t)
    BY <1>2, <1>12 DEF Held
  <1> QED BY <1>2, <1>3, <1>4, <1>5, <1>7, <1>8, <1>9, <1>10, <1>11, <1>12

\* Only a select of its own that is all the server has to do hides a wait.
LEMMA NoneHidden ==
  ASSUME ServerInv, ~Doing("select")
  PROVE  \A t \in Threads : pc[t]["suspend"] # "server"
  <1> SUFFICES ASSUME NEW t \in Threads, pc[t]["suspend"] = "server" PROVE FALSE
    OBVIOUS
  <1>1. todo \in Seq(Items) /\ SelectOK(t)
    BY ServerParts DEF SelectInv
  <1>2. todo # <<>> /\ LastTodo.do = "select" /\ Len(todo) = 1
    BY <1>1 DEF SelectOK, Frames
  <1>3. Head(todo) = todo[1]
    BY <1>1, <1>2, HeadTail
  <1> QED BY <1>2, <1>3 DEF LastTodo, Doing

\* check_wait, for a wait of the call that nothing hides.
LEMMA CheckCall ==
  ASSUME ServerInv, NEW t \in Threads, wait[t] # <<>>, Head(wait[t]).frame = "call",
         system_apc[t] = <<>>, ~Suspended(t)
  PROVE  CheckWait(t) = IF Ready(t) # {} THEN [status |-> "object", index |-> First(Ready(t))]
                        ELSE IF call[t].alertable /\ user_apc[t] # <<>> THEN [status |-> "user_apc", index |-> 0]
                        ELSE IF deadline[t] = "past" THEN [status |-> "timeout", index |-> 0] ELSE Pending
  BY DEF CheckWait

LEMMA NudgedEnds ==
  ASSUME ServerInv, NEW t \in Threads, Nudged(t), pc[t]["suspend"] # "server"
  PROVE  CanEnd(t)
  <1>1. /\ Held(t) => wait[t] # <<>> /\ Head(wait[t]).frame = "suspend"
        /\ CallSleeps(t) => wait[t] # <<>> /\ Head(wait[t]).frame = "call"
    BY SleepFacts DEF CallSleeps
  <1>2. CASE system_apc[t] # <<>>
    BY <1>1, <1>2 DEF Nudged, CanEnd, CheckWait, Pending
  <1>3. CASE system_apc[t] = <<>>
    BY <1>1, <1>3 DEF Nudged, CanEnd, CheckWait, Pending
  <1> QED BY <1>2, <1>3

LEMMA ReadyEnds ==
  ASSUME ServerInv, NEW t \in Threads, Exposed(t), ~Suspended(t), Ready(t) # {}, pc[t]["suspend"] # "server"
  PROVE  CanEnd(t)
  <1>1. wait[t] # <<>> /\ Head(wait[t]).frame = "call"
    BY SleepFacts
  <1> HIDE DEF Ready
  <1> QED BY <1>1 DEF CanEnd, CheckWait, Pending

LEMMA GrabsEnds ==
  ASSUME ServerInv, NEW t \in Threads, NEW o, Grabs(t, o), pc[t]["suspend"] # "server"
  PROVE  CanEnd(t) /\ o \in Takes(t, CheckWait(t))
  <1>1. wait[t] # <<>> /\ Head(wait[t]).frame = "call" /\ CanEnd(t)
    BY SleepFacts, ReadyEnds DEF Grabs
  <1>2. CheckWait(t) = [status |-> "object", index |-> First(Ready(t))]
    BY <1>1, CheckCall DEF Grabs
  <1> QED BY <1>1, <1>2 DEF Grabs

LEMMA TakesGrabs ==
  ASSUME ServerInv, NEW t \in Threads, NEW o, CanEnd(t), o \in Takes(t, CheckWait(t))
  PROVE  Grabs(t, o)
  <1> DEFINE v == CheckWait(t)
  <1>1. v.status = "object" /\ ~IsKeyed(call[t])
    BY DEF Takes
  <1>2. wait[t] # <<>> /\ Head(wait[t]).frame = "call" /\ Ready(t) # {} /\ ~Suspended(t)
    BY <1>1, CheckEnds, ServerParts
  <1>3. system_apc[t] = <<>>
    BY <1>1 DEF CheckWait
  <1>4. v = [status |-> "object", index |-> First(Ready(t))] /\ Exposed(t)
    BY <1>2, <1>3, CheckCall, SleepFacts
  <1> QED BY <1>1, <1>2, <1>3, <1>4 DEF Grabs

\* A thread that has to sleep is neither nudged nor wanting.
LEMMA PendsFacts ==
  ASSUME ServerInv, NEW t \in Threads, wait[t] # <<>>, ~CanEnd(t)
  PROVE  /\ system_apc[t] = <<>>
         /\ Suspended(t) \/ (/\ Head(wait[t]).frame = "call" /\ Ready(t) = {}
                             /\ ~(call[t].alertable /\ user_apc[t] # <<>>))
  <1>1. CheckWait(t) = Pending /\ Head(wait[t]).frame \in Frames
    BY SleepFacts DEF CanEnd
  <1>2. system_apc[t] = <<>>
    BY <1>1 DEF CheckWait, Pending
  <1>3. ASSUME ~Suspended(t) PROVE Head(wait[t]).frame = "call"
    BY <1>1, <1>2, <1>3 DEF CheckWait, Pending, Frames
  <1>4. ASSUME ~Suspended(t) PROVE Ready(t) = {} /\ ~(call[t].alertable /\ user_apc[t] # <<>>)
    BY <1>1, <1>2, <1>3, <1>4, CheckCall DEF Pending
  <1> QED BY <1>2, <1>3, <1>4

-----------------------------------------------------------------------------
(* Keyed events.                                                           *)

LEMMA KeyedFacts ==
  ASSUME ServerInv, NEW t \in Threads, IsKeyed(call[t])
  PROVE  /\ WaitObjs(call[t]) = call[t].objs /\ call[t].objs \in Seq(Objs) /\ Len(call[t].objs) = 1
         /\ call[t].objs[1] \in Objs /\ Type[call[t].objs[1]] = "keyed"
         /\ Ready(t) = IF Partners(t) # {} THEN {1} ELSE {}
  <1>1. call[t] = NoCall \/ WellFormed(t, call[t])
    BY CallFormed, ServerParts
  <1>2. WellFormed(t, call[t])
    BY <1>1 DEF IsKeyed, NoCall
  <1>3. call[t].objs \in Seq(Objs) /\ Len(call[t].objs) = 1 /\ Type[call[t].objs[1]] = "keyed"
    BY <1>2 DEF WellFormed, IsKeyed
  <1>4. WaitObjs(call[t]) = call[t].objs
    BY DEF WaitObjs, IsKeyed
  <1>5. Ready(t) = IF Partners(t) # {} THEN {1} ELSE {}
    BY DEF Ready, IsKeyed
  <1>6. call[t].objs[1] \in Objs
    BY <1>3
  <1> QED BY <1>3, <1>4, <1>5, <1>6

LEMMA MeetSym == \A t, u : Meet(t, u) <=> Meet(u, t)
  BY DEF Meet

LEMMA MeetPartners ==
  ASSUME ServerInv, \A x \in Threads : QueuedOK(x) /\ pc[x]["suspend"] # "server",
         NEW t \in Threads, IsKeyed(call[t]), Exposed(t), ~Suspended(t)
  PROVE  Partners(t) # {} <=> \E u \in Threads : Meet(t, u)
  <1> DEFINE o == call[t].objs[1]
             q == queue[o]
  <1>1. o \in Objs /\ q \in Seq(Threads \X Nat) /\ QueueOK(o) /\ DOMAIN q = 1..Len(q)
    BY KeyedFacts, ServerParts DEF StateInv, QueuesInv
  <1> HIDE DEF o, q
  <1>2. Partners(t) = {k \in DOMAIN q : /\ q[k][1] # t /\ IsKeyed(call[q[k][1]]) /\ call[q[k][1]].fn # call[t].fn
                                         /\ call[q[k][1]].key = call[t].key /\ wait[q[k][1]] # <<>>
                                         /\ Head(wait[q[k][1]]).frame = "call" /\ ~Suspended(q[k][1])}
    BY DEF Partners, q, o
  <1>3. ASSUME NEW k \in Partners(t) PROVE \E u \in Threads : Meet(t, u)
    <2> DEFINE u == q[k][1]
    <2>1. k \in 1..Len(q) /\ q[k] \in Threads \X Nat
      BY <1>1, <1>2
    <2>2. /\ u \in Threads /\ u # t /\ IsKeyed(call[u]) /\ call[u].fn # call[t].fn /\ call[u].key = call[t].key
          /\ wait[u] # <<>> /\ Head(wait[u]).frame = "call" /\ ~Suspended(u)
      BY <1>2, <2>1
    <2>3. q[k][2] \in DOMAIN WaitObjs(call[u]) /\ WaitObjs(call[u])[q[k][2]] = o
      BY <1>1, <2>1 DEF QueueOK, q
    <2> HIDE DEF u
    <2>4. WaitObjs(call[u]) = call[u].objs /\ call[u].objs \in Seq(Objs) /\ Len(call[u].objs) = 1
      BY <2>2, KeyedFacts
    <2>5. q[k][2] = 1
      BY <2>3, <2>4
    <2>6. call[u].objs[1] = call[t].objs[1]
      BY <2>3, <2>4, <2>5 DEF o
    <2>7. Exposed(u)
      BY <2>2, SleepFacts
    <2>8. Meet(t, u)
      BY <2>2, <2>6, <2>7 DEF Meet
    <2> QED BY <2>2, <2>8
  <1>4. ASSUME NEW u \in Threads, Meet(t, u) PROVE Partners(t) # {}
    <2>1. /\ u # t /\ IsKeyed(call[u]) /\ call[u].fn # call[t].fn /\ call[u].key = call[t].key
          /\ call[u].objs[1] = o /\ Exposed(u) /\ ~Suspended(u)
      BY <1>4 DEF Meet, o
    <2>2. wait[u] # <<>> /\ Head(wait[u]).frame = "call"
      BY <2>1, SleepFacts
    <2>3. Queued(o, u)
      <3>1. HasWait(u, "call") /\ QueuedOK(u)
        BY <2>1 DEF Exposed
      <3>2. WaitObjs(call[u]) = call[u].objs /\ Len(call[u].objs) = 1
        BY <2>1, KeyedFacts
      <3> QED BY <2>1, <3>1, <3>2 DEF QueuedOK
    <2>4. PICK k \in 1..Len(q) : q[k][1] = u
      BY <2>3 DEF Queued, q
    <2>5. k \in Partners(t)
      BY <1>1, <1>2, <2>1, <2>2, <2>4
    <2> QED BY <2>5
  <1> QED BY <1>3, <1>4

LEMMA MeetEnds ==
  ASSUME ServerInv, \A x \in Threads : QueuedOK(x) /\ pc[x]["suspend"] # "server",
         NEW t \in Threads, NEW u \in Threads, Meet(t, u)
  PROVE  CanEnd(t)
  <1>1. IsKeyed(call[t]) /\ Exposed(t) /\ ~Suspended(t)
    BY DEF Meet
  <1>2. Partners(t) # {}
    BY <1>1, MeetPartners
  <1>3. Ready(t) # {}
    BY <1>1, <1>2, KeyedFacts
  <1> QED BY <1>1, <1>3, ReadyEnds

-----------------------------------------------------------------------------
(* What a step does to a thread that it gives nothing.                     *)

Eases(t) ==
    /\ Held(t)' => Held(t)
    /\ Exposed(t)' => Exposed(t) /\ call'[t] = call[t]
    /\ CallSleeps(t)' => CallSleeps(t)
    /\ Suspended(t) => Suspended(t)'
    /\ Held(t)' \/ CallSleeps(t)' => (system_apc'[t] # <<>> => system_apc[t] # <<>>)
    /\ CallSleeps(t)' => (user_apc'[t] # <<>> => user_apc[t] # <<>>)
\* Signaled, after the step.
Lights(o, t) ==
    CASE Type[o] = "sem"   -> units'[o] > 0
      [] Type[o] = "mutex" -> mowner'[o] \in {NoOne, t} /\ mcount'[o] < MaxRec
      [] Type[o] = "event" -> event'[o]
      [] OTHER -> TRUE
\* No object but those of P becomes signaled for the thread.
Fades(t, P) == \A o \in Objs \ P : Lights(o, t) => Signaled(o, t)

LEMMA EasesNudged == ASSUME NEW t \in Threads, Eases(t), Nudged(t)' PROVE Nudged(t)
  <1>1. CallSleeps(t)' => call'[t] = call[t]
    BY DEF Eases, CallSleeps
  <1>2. CASE Held(t)' /\ ~Suspended(t)'
    BY <1>2 DEF Eases, Nudged
  <1>3. CASE (Held(t)' \/ CallSleeps(t)') /\ system_apc'[t] # <<>>
    BY <1>3 DEF Eases, Nudged
  <1>4. CASE CallSleeps(t)' /\ ~Suspended(t)' /\ call'[t].alertable /\ user_apc'[t] # <<>>
    BY <1>1, <1>4 DEF Eases, Nudged
  <1>5. Nudged(t)' <=> \/ Held(t)' /\ ~Suspended(t)'
                       \/ (Held(t)' \/ CallSleeps(t)') /\ system_apc'[t] # <<>>
                       \/ CallSleeps(t)' /\ ~Suspended(t)' /\ call'[t].alertable /\ user_apc'[t] # <<>>
    BY DEF Nudged
  <1> QED BY <1>2, <1>3, <1>4, <1>5

LEMMA EasesMeet ==
  ASSUME NEW t \in Threads, NEW u \in Threads, Eases(t), Eases(u), Meet(t, u)'
  PROVE  Meet(t, u)
  <1>1. /\ t # u /\ IsKeyed(call'[t]) /\ IsKeyed(call'[u]) /\ call'[t].fn # call'[u].fn
        /\ call'[t].key = call'[u].key /\ call'[t].objs[1] = call'[u].objs[1]
        /\ Exposed(t)' /\ Exposed(u)' /\ ~Suspended(t)' /\ ~Suspended(u)'
    BY DEF Meet, IsKeyed
  <1>2. call'[t] = call[t] /\ call'[u] = call[u] /\ Exposed(t) /\ Exposed(u) /\ ~Suspended(t) /\ ~Suspended(u)
    BY <1>1 DEF Eases
  <1> HIDE DEF IsKeyed, Exposed, Suspended
  <1> QED BY <1>1, <1>2 DEF Meet

\* The objects of a wait, and what makes it ready.
LEMMA ReadyFacts ==
  ASSUME ServerInv, NEW t \in Threads, ~IsKeyed(call[t])
  PROVE  LET s == WaitObjs(call[t])
         IN  /\ s \in Seq(Objs) /\ \A k \in 1..Len(s) : s[k] \in Objs
             /\ call[t].fn = "wait_all" =>
                   Ready(t) = (IF \A k \in 1..Len(s) : Signaled(s[k], t) THEN {1} ELSE {}) /\ s = call[t].objs
             /\ call[t].fn # "wait_all" => Ready(t) = {k \in 1..Len(s) : Signaled(s[k], t)}
             /\ Takes(t, [status |-> "object", index |-> First(Ready(t))]) =
                   IF call[t].fn = "wait_all" THEN {s[k] : k \in 1..Len(s)} ELSE {s[First(Ready(t))]}
  <1> DEFINE s == WaitObjs(call[t])
  <1>1. s \in Seq(Objs)
    BY CallFormed, FormedObjs, ServerParts
  <1>2. DOMAIN s = 1..Len(s) /\ \A k \in 1..Len(s) : s[k] \in Objs
    BY <1>1
  <1>3. call[t].fn = "wait_all" => s = call[t].objs
    BY DEF WaitObjs
  <1>4. /\ call[t].fn = "wait_all" => Ready(t) = IF \A k \in DOMAIN s : Signaled(s[k], t) THEN {1} ELSE {}
        /\ call[t].fn # "wait_all" => Ready(t) = {k \in DOMAIN s : Signaled(s[k], t)}
    BY DEF Ready
  <1>5. Takes(t, [status |-> "object", index |-> First(Ready(t))]) =
          IF call[t].fn = "wait_all" THEN {call[t].objs[k] : k \in DOMAIN call[t].objs} ELSE {s[First(Ready(t))]}
    BY DEF Takes
  <1> HIDE DEF s
  <1> QED BY <1>1, <1>2, <1>3, <1>4, <1>5 DEF s

LEMMA ReadyNext ==
  ASSUME ServerInv, NEW t \in Threads, ~IsKeyed(call[t]), call'[t] = call[t]
  PROVE  LET s == WaitObjs(call[t])
         IN  /\ ~IsKeyed(call'[t]) /\ WaitObjs(call'[t]) = s
             /\ call[t].fn = "wait_all" =>
                   Ready(t)' = IF \A k \in 1..Len(s) : Lights(s[k], t) THEN {1} ELSE {}
             /\ call[t].fn # "wait_all" => Ready(t)' = {k \in 1..Len(s) : Lights(s[k], t)}
  <1> DEFINE s == WaitObjs(call[t])
  <1>1. s \in Seq(Objs)
    BY ReadyFacts
  <1>5. DOMAIN s = 1..Len(s)
    BY <1>1
  <1>2. WaitObjs(call'[t]) = s /\ ~IsKeyed(call'[t])
    OBVIOUS
  <1>3. /\ call'[t].fn = "wait_all" =>
             Ready(t)' = IF \A k \in DOMAIN WaitObjs(call'[t]) : Lights(WaitObjs(call'[t])[k], t) THEN {1} ELSE {}
        /\ call'[t].fn # "wait_all" =>
             Ready(t)' = {k \in DOMAIN WaitObjs(call'[t]) : Lights(WaitObjs(call'[t])[k], t)}
    BY <1>2 DEF Ready, IsKeyed, Signaled, Lights
  <1> HIDE DEF s
  <1>4. /\ call[t].fn = "wait_all" => Ready(t)' = IF \A k \in 1..Len(s) : Lights(s[k], t) THEN {1} ELSE {}
        /\ call[t].fn # "wait_all" => Ready(t)' = {k \in 1..Len(s) : Lights(s[k], t)}
    BY <1>2, <1>3, <1>5
  <1> QED BY <1>2, <1>4 DEF s

LEMMA FadesReady ==
  ASSUME ServerInv, NEW t \in Threads, ~IsKeyed(call[t]), call'[t] = call[t], NEW P, Fades(t, P)
  PROVE  /\ P = {} => Ready(t)' \subseteq Ready(t) /\ \A o : Only(t, o) => Only(t, o)'
         /\ \A o : P = {o} /\ Ready(t) = {} /\ Ready(t)' # {} =>
               /\ Only(t, o)' /\ ~Signaled(o, t) /\ Lights(o, t)
               /\ \E k \in 1..Len(WaitObjs(call'[t])) : WaitObjs(call'[t])[k] = o
  <1> DEFINE s == WaitObjs(call[t])
  <1>1. /\ s \in Seq(Objs) /\ \A k \in 1..Len(s) : s[k] \in Objs
        /\ call[t].fn = "wait_all" => Ready(t) = IF \A k \in 1..Len(s) : Signaled(s[k], t) THEN {1} ELSE {}
        /\ call[t].fn # "wait_all" => Ready(t) = {k \in 1..Len(s) : Signaled(s[k], t)}
    BY ReadyFacts
  <1>2. /\ WaitObjs(call'[t]) = s
        /\ call[t].fn = "wait_all" => Ready(t)' = IF \A k \in 1..Len(s) : Lights(s[k], t) THEN {1} ELSE {}
        /\ call[t].fn # "wait_all" => Ready(t)' = {k \in 1..Len(s) : Lights(s[k], t)}
    BY ReadyNext
  <1>3. \A k \in 1..Len(s) : s[k] \in P \/ (Lights(s[k], t) => Signaled(s[k], t))
    BY <1>1 DEF Fades
  <1>4. /\ \A o : Only(t, o) <=> IF call[t].fn = "wait_all" THEN \E k \in 1..Len(s) : s[k] = o
                                 ELSE \A k \in Ready(t) : s[k] = o
        /\ \A o : Only(t, o)' <=> IF call[t].fn = "wait_all" THEN \E k \in 1..Len(s) : s[k] = o
                                 ELSE \A k \in Ready(t)' : s[k] = o
    BY <1>2 DEF Only
  <1> HIDE DEF s, Signaled, Lights, Only, Ready
  <1>5. ASSUME P = {} PROVE Ready(t)' \subseteq Ready(t)
    BY <1>1, <1>2, <1>3, <1>5
  <1>6. ASSUME P = {} PROVE \A o : Only(t, o) => Only(t, o)'
    BY <1>4, <1>5, <1>6
  <1>7. ASSUME NEW o, P = {o}, Ready(t) = {}, Ready(t)' # {}
        PROVE  /\ Only(t, o)' /\ ~Signaled(o, t) /\ Lights(o, t)
               /\ \E k \in 1..Len(s) : s[k] = o
    <2>1. CASE call[t].fn = "wait_all"
      <3>1. (\E k \in 1..Len(s) : ~Signaled(s[k], t)) /\ \A k \in 1..Len(s) : Lights(s[k], t)
        BY <1>1, <1>2, <1>7, <2>1
      <3>2. PICK k \in 1..Len(s) : ~Signaled(s[k], t)
        BY <3>1
      <3>3. s[k] = o /\ ~Signaled(s[k], t) /\ Lights(s[k], t)
        BY <1>3, <1>7, <3>1, <3>2
      <3>4. ~Signaled(o, t) /\ Lights(o, t)
        BY <3>3
      <3> QED BY <1>4, <2>1, <3>3, <3>4
    <2>2. CASE call[t].fn # "wait_all"
      <3>1. \A k \in 1..Len(s) : ~Signaled(s[k], t)
        BY <1>1, <1>7, <2>2
      <3>2. PICK k \in 1..Len(s) : Lights(s[k], t)
        BY <1>2, <1>7, <2>2
      <3>3. s[k] = o /\ ~Signaled(s[k], t) /\ Lights(s[k], t)
        BY <1>3, <1>7, <3>1, <3>2
      <3>4. ~Signaled(o, t) /\ Lights(o, t)
        BY <3>3
      <3>5. \A j \in Ready(t)' : s[j] = o
        BY <1>2, <1>3, <1>7, <2>2, <3>1
      <3> QED BY <1>4, <2>2, <3>3, <3>4, <3>5
    <2> QED BY <2>1, <2>2
  <1> QED BY <1>2, <1>5, <1>6, <1>7

LEMMA EasesWanting ==
  ASSUME NEW t \in Threads, Eases(t), Wanting(t)'
  PROVE  /\ CallSleeps(t) /\ ~Suspended(t) /\ ~IsKeyed(call[t]) /\ call'[t] = call[t] /\ Ready(t)' # {}
         /\ HasWait(t, "call")'
  <1>1. CallSleeps(t)' /\ ~Suspended(t)' /\ ~IsKeyed(call'[t]) /\ Ready(t)' # {}
    BY DEF Wanting, IsKeyed
  <1>2. Exposed(t)' /\ HasWait(t, "call")'
    BY <1>1 DEF CallSleeps, Exposed
  <1> HIDE DEF IsKeyed, Exposed, Suspended
  <1> QED BY <1>1, <1>2 DEF Eases

LEMMA FadesWanting ==
  ASSUME ServerInv, NEW t \in Threads, Eases(t), Fades(t, {}), Wanting(t)'
  PROVE  Wanting(t) /\ \A o : Only(t, o) => Only(t, o)'
  <1>1. CallSleeps(t) /\ ~Suspended(t) /\ ~IsKeyed(call[t]) /\ call'[t] = call[t] /\ Ready(t)' # {}
    BY EasesWanting
  <1>2. Ready(t)' \subseteq Ready(t) /\ \A o : Only(t, o) => Only(t, o)'
    BY <1>1, FadesReady
  <1> HIDE DEF IsKeyed, CallSleeps, Suspended, Ready, Only
  <1> QED BY <1>1, <1>2 DEF Wanting

LEMMA LitWanting ==
  ASSUME ServerInv, NEW t \in Threads, NEW o, ~Wanting(t), Eases(t), Fades(t, {o}), Wanting(t)'
  PROVE  /\ Only(t, o)' /\ ~Signaled(o, t) /\ Lights(o, t) /\ HasWait(t, "call")'
         /\ \E k \in 1..Len(WaitObjs(call'[t])) : WaitObjs(call'[t])[k] = o
  <1>1. CallSleeps(t) /\ ~Suspended(t) /\ ~IsKeyed(call[t]) /\ call'[t] = call[t] /\ Ready(t)' # {}
        /\ HasWait(t, "call")'
    BY EasesWanting
  <1>2. Ready(t) = {}
    BY <1>1 DEF Wanting
  <1> HIDE DEF IsKeyed, CallSleeps, Suspended, Ready, Only
  <1> QED BY <1>1, <1>2, FadesReady

-----------------------------------------------------------------------------
(* Nobody is left over while the server is about something else.           *)

Calm == todo = <<>> \/ Head(todo).do \notin {"wake_thread", "wake_up"}

LEMMA NoWakes ==
  ASSUME todo \in Seq(Items), WakesOK(todo), Calm
  PROVE  \A k \in 1..Len(todo) : todo[k].do \notin {"wake_thread", "wake_up"}
  <1> SUFFICES ASSUME NEW k \in 1..Len(todo), todo[k].do \in {"wake_thread", "wake_up"} PROVE FALSE
    OBVIOUS
  <1>1. todo # <<>> /\ Head(todo) = todo[1]
    OBVIOUS
  <1>2. todo[1].do \in {"wake_thread", "wake_up"}
    BY DEF WakesOK
  <1> QED BY <1>1, <1>2 DEF Calm

LEMMA CalmNone ==
  ASSUME ServerInv, StrandInv, Calm
  PROVE  /\ \A t \in Threads : ~Nudged(t) /\ ~Wanting(t)
         /\ \A t, u \in Threads : Meet(t, u) => \E z \in {t, u} : Heads(EndSelect(z)) /\ pc[z]["call"] = "server"
  <1>1. \A k \in 1..Len(todo) : todo[k].do \notin {"wake_thread", "wake_up"}
    BY NoWakes, ServerParts DEF StrandInv
  <1>2. \A t : ~Heads(WakeThread(t))
    BY DEF Calm, Heads, WakeThread
  <1>3. ASSUME NEW t \in Threads PROVE ~Nudged(t)
    BY <1>2 DEF StrandInv, NudgedOK
  <1>4. ASSUME NEW t \in Threads, Wanting(t) PROVE FALSE
    <2>1. \/ WakesAll(t)
          \/ \E o \in Objs : Only(t, o) /\ (WakesSome(o, 0) \/ WakesTaker(o))
      BY <1>2, <1>4 DEF StrandInv, WantingOK
    <2>2. ~WakesAll(t) /\ \A o : ~WakesSome(o, 0) /\ ~WakesTaker(o)
      BY <1>1 DEF WakesAll, WakesSome, WakesTaker, Calm
    <2> QED BY <2>1, <2>2
  <1>5. ASSUME NEW t \in Threads, NEW u \in Threads, Meet(t, u)
        PROVE  \E z \in {t, u} : Heads(EndSelect(z)) /\ pc[z]["call"] = "server"
    BY <1>2, <1>5 DEF StrandInv, MeetOK
  <1> QED BY <1>3, <1>4, <1>5

LEMMA IdleNone ==
  ASSUME ServerInv, StrandInv, Idle
  PROVE  /\ \A t \in Threads : ~Nudged(t) /\ ~Wanting(t)
         /\ \A t, u \in Threads : ~Meet(t, u)
  BY CalmNone DEF Calm, Idle, Heads

\* A step leaves nobody behind when it wakes whom it gives something.
LEMMA FromCalm ==
  ASSUME ServerInv, StrandInv, Calm, ~Doing("select"), WakesOK(todo)', \A t \in Threads : QueuedOK(t)',
         \A t \in Threads : Eases(t) \/ Heads(WakeThread(t))',
         \A t \in Threads : Eases(t) => WantingOK(t)'
  PROVE  StrandInv'
  <1>0. (\A t \in Threads : ~Nudged(t)) /\ \A t, u \in Threads : ~Meet(t, u)
    <2>1. \A z : ~Heads(EndSelect(z))
      BY DEF Doing, Heads, EndSelect
    <2> QED BY <2>1, CalmNone
  <1>1. ASSUME NEW t \in Threads PROVE NudgedOK(t)'
    <2>1. CASE Eases(t)
      BY <1>0, <2>1, EasesNudged DEF NudgedOK
    <2>2. CASE Heads(WakeThread(t))'
      BY <2>2 DEF NudgedOK
    <2> QED BY <2>1, <2>2
  <1>2. ASSUME NEW t \in Threads PROVE WantingOK(t)'
    <2>1. CASE Heads(WakeThread(t))'
      BY <2>1 DEF WantingOK
    <2> QED BY <2>1
  <1>3. ASSUME NEW t \in Threads, NEW u \in Threads PROVE MeetOK(t, u)'
    <2>1. CASE Eases(t) /\ Eases(u)
      BY <1>0, <2>1, EasesMeet DEF MeetOK
    <2>2. CASE Heads(WakeThread(t))' \/ Heads(WakeThread(u))'
      BY <2>2 DEF MeetOK
    <2> QED BY <2>1, <2>2
  <1> QED BY <1>1, <1>2, <1>3 DEF StrandInv

LEMMA FromIdle ==
  ASSUME ServerInv, StrandInv, Idle, WakesOK(todo)', \A t \in Threads : QueuedOK(t)',
         \A t \in Threads : Eases(t) \/ Heads(WakeThread(t))',
         \A t \in Threads : Eases(t) => WantingOK(t)'
  PROVE  StrandInv'
  <1>1. Calm /\ ~Doing("select")
    BY DEF Idle, Calm, Doing
  <1> QED BY <1>1, FromCalm

-----------------------------------------------------------------------------
(* Steps of the clients, that leave the server's state alone.              *)

core == <<units, mcount, mowner, event, queue, wait, todo, suspend, system_apc, user_apc>>

LEMMA SameReady ==
  ASSUME ServerInv, UNCHANGED <<units, mcount, mowner, event>>,
         NEW t \in Threads, ~IsKeyed(call[t]), call'[t] = call[t]
  PROVE  /\ Ready(t)' = Ready(t) /\ \A o : Only(t, o) => Only(t, o)'
         /\ \A o : o \in Takes(t, [status |-> "object", index |-> First(Ready(t))]) =>
                   o \in Takes(t, [status |-> "object", index |-> First(Ready(t))])'
  <1> DEFINE s == WaitObjs(call[t])
  <1>1. \A o : Lights(o, t) <=> Signaled(o, t)
    BY DEF Lights, Signaled
  <1>2. Ready(t)' = Ready(t)
    BY <1>1, ReadyFacts, ReadyNext
  <1>3. \A o : Only(t, o) => Only(t, o)'
    BY <1>1, FadesReady DEF Fades
  <1>4. \A o : o \in Takes(t, [status |-> "object", index |-> First(Ready(t))]) =>
                   o \in Takes(t, [status |-> "object", index |-> First(Ready(t))])'
    BY <1>2 DEF Takes, IsKeyed
  <1> QED BY <1>2, <1>3, <1>4

LEMMA StrandSame ==
  ASSUME ServerInv, StrandInv, UNCHANGED core,
         \A x \in Threads : /\ HasWait(x, "suspend") => pc'[x]["suspend"] = pc[x]["suspend"]
                            /\ HasWait(x, "call") => pc'[x]["call"] = pc[x]["call"] /\ call'[x] = call[x]
  PROVE  StrandInv'
  <1>0. UNCHANGED <<units, mcount, mowner, event, queue, wait, todo, suspend, system_apc, user_apc>>
    BY DEF core
  <1>1. \A x, f : HasWait(x, f)' <=> HasWait(x, f)
    BY <1>0 DEF HasWait
  <1>2. \A x \in Threads : /\ Held(x)' <=> Held(x)
                           /\ Exposed(x)' <=> Exposed(x)
                           /\ CallSleeps(x)' <=> CallSleeps(x)
                           /\ Suspended(x)' <=> Suspended(x)
                           /\ Exposed(x) => HasWait(x, "call") /\ call'[x] = call[x] /\ pc'[x]["call"] = pc[x]["call"]
                           /\ CallSleeps(x) => Exposed(x)
    BY <1>0, <1>1 DEF Held, Exposed, CallSleeps, Suspended
  <1>3. ASSUME NEW x \in Threads PROVE Nudged(x)' => Nudged(x)
    <2>1. Eases(x)
      BY <1>0, <1>2 DEF Eases
    <2> QED BY <2>1, EasesNudged
  <1>4. ASSUME NEW x \in Threads, NEW u \in Threads PROVE Meet(x, u)' => Meet(x, u)
    <2>1. Eases(x) /\ Eases(u)
      BY <1>0, <1>2 DEF Eases
    <2> QED BY <2>1, EasesMeet
  <1>5. ASSUME NEW x \in Threads, Exposed(x), ~IsKeyed(call[x])
        PROVE  /\ Ready(x)' = Ready(x) /\ \A o : Only(x, o) => Only(x, o)'
               /\ \A o : Grabs(x, o) => Grabs(x, o)'
    <2>1. call'[x] = call[x] /\ ~IsKeyed(call'[x])
      BY <1>2, <1>5
    <2>2. /\ Ready(x)' = Ready(x) /\ \A o : Only(x, o) => Only(x, o)'
          /\ \A o : o \in Takes(x, [status |-> "object", index |-> First(Ready(x))]) =>
                    o \in Takes(x, [status |-> "object", index |-> First(Ready(x))])'
      BY <1>0, <1>5, <2>1, SameReady
    <2>3. ASSUME NEW o, Grabs(x, o) PROVE Grabs(x, o)'
      <3>1. Exposed(x)' /\ ~Suspended(x)' /\ system_apc'[x] = <<>> /\ ~IsKeyed(call'[x]) /\ Ready(x)' # {}
        BY <1>0, <1>2, <2>1, <2>2, <2>3 DEF Grabs
      <3>2. o \in Takes(x, [status |-> "object", index |-> First(Ready(x))])'
        BY <2>2, <2>3 DEF Grabs
      <3> QED BY <3>1, <3>2 DEF Grabs, IsKeyed
    <2> QED BY <2>2, <2>3
  <1>6. ASSUME NEW x \in Threads PROVE QueuedOK(x)'
    <2>1. QueuedOK(x) /\ \A o : Queued(o, x)' <=> Queued(o, x)
      BY <1>0 DEF StrandInv, Queued
    <2>2. HasWait(x, "call") => call'[x] = call[x]
      OBVIOUS
    <2> QED BY <1>1, <2>1, <2>2 DEF QueuedOK
  <1>7. ASSUME NEW x \in Threads PROVE NudgedOK(x)'
    BY <1>0, <1>3 DEF StrandInv, NudgedOK, Heads
  <1>8. ASSUME NEW x \in Threads, NEW u \in Threads PROVE MeetOK(x, u)'
    <2> SUFFICES ASSUME Meet(x, u)' PROVE MeetOK(x, u)'
      BY DEF MeetOK
    <2>1. Meet(x, u)
      BY <1>4
    <2>2. Exposed(x) /\ Exposed(u)
      BY <2>1 DEF Meet
    <2>3. \/ Heads(WakeThread(x)) \/ Heads(WakeThread(u))
          \/ \E z \in {x, u} : Heads(EndSelect(z)) /\ pc[z]["call"] = "server"
      BY <2>1 DEF StrandInv, MeetOK
    <2>4. \A y : (Heads(WakeThread(y))' <=> Heads(WakeThread(y))) /\ (Heads(EndSelect(y))' <=> Heads(EndSelect(y)))
      BY <1>0 DEF Heads, WakeThread, EndSelect
    <2> QED BY <1>2, <2>2, <2>3, <2>4 DEF MeetOK
  <1>9. ASSUME NEW x \in Threads PROVE WantingOK(x)'
    <2> SUFFICES ASSUME Wanting(x)' PROVE WantingOK(x)'
      BY DEF WantingOK
    <2>1. Wanting(x) /\ Exposed(x) /\ ~IsKeyed(call[x]) /\ \A o : Only(x, o) => Only(x, o)'
      <3>1. Eases(x) /\ Fades(x, {})
        BY <1>0, <1>2 DEF Eases, Fades, Lights, Signaled
      <3>2. Wanting(x) /\ \A o : Only(x, o) => Only(x, o)'
        BY <3>1, FadesWanting
      <3> QED BY <1>2, <3>2 DEF Wanting
    <2>2. \/ Heads(WakeThread(x)) \/ WakesAll(x)
          \/ \E o \in Objs : Only(x, o) /\ (WakesSome(o, 0) \/ WakesTaker(o))
      BY <2>1 DEF StrandInv, WantingOK
    <2>3. CASE Heads(WakeThread(x)) \/ WakesAll(x)
      BY <1>0, <2>3 DEF WantingOK, Heads, WakesAll, Queued
    <2>4. ASSUME NEW o \in Objs, Only(x, o), WakesSome(o, 0) \/ WakesTaker(o) PROVE WantingOK(x)'
      <3>1. Only(x, o)'
        BY <2>1, <2>4
      <3>2. \A n : (Spare(o, n)' <=> Spare(o, n)) /\ (WakesSome(o, n)' <=> WakesSome(o, n))
        BY <1>0 DEF WakesSome, Spare
      <3>3. ASSUME WakesTaker(o) PROVE WakesTaker(o)'
        <4>1. todo # <<>> /\ Head(todo).do = "wake_thread" /\ Grabs(Head(todo).thread, o) /\ (Spare(o, 1) \/ WakesSome(o, 1))
          BY <3>3 DEF WakesTaker
        <4>2. Head(todo).thread \in Threads
          BY <4>1, ServerParts, HeadTail DEF TodoInv, IsItem
        <4>3. PICK y \in Threads : y = Head(todo).thread
          BY <4>2
        <4>4. Exposed(y) /\ ~IsKeyed(call[y]) /\ Grabs(y, o)
          BY <4>1, <4>3 DEF Grabs
        <4>5. Grabs(y, o)'
          BY <1>5, <4>4
        <4>6. todo' # <<>> /\ Head(todo').do = "wake_thread" /\ Head(todo').thread = y
          BY <1>0, <4>1, <4>3
        <4> QED BY <3>2, <4>1, <4>5, <4>6 DEF WakesTaker
      <3> QED BY <2>4, <3>1, <3>2, <3>3 DEF WantingOK
    <2> QED BY <2>2, <2>3, <2>4
  <1>10. WakesOK(todo)'
    BY <1>0 DEF StrandInv
  <1> QED BY <1>6, <1>7, <1>8, <1>9, <1>10 DEF StrandInv

LEMMA ClientMoves ==
  ASSUME ServerInv, StrandInv, UNCHANGED core, NEW t \in Threads, NEW f \in Frames, ~HasWait(t, f),
         \E x : pc' = [pc EXCEPT ![t][f] = x],
         \A u \in Threads : u # t => call'[u] = call[u], f = "suspend" => call'[t] = call[t]
  PROVE  StrandInv'
  <1>1. pc \in [Threads -> [Frames -> Places]]
    BY ServerParts DEF StateInv
  <1>2. \A u \in Threads : \A g \in Frames : u # t \/ g # f => pc'[u][g] = pc[u][g]
    BY <1>1
  <1>3. ASSUME NEW u \in Threads
        PROVE  /\ HasWait(u, "suspend") => pc'[u]["suspend"] = pc[u]["suspend"]
               /\ HasWait(u, "call") => pc'[u]["call"] = pc[u]["call"] /\ call'[u] = call[u]
    <2>1. CASE u # t
      BY <1>2, <2>1 DEF Frames
    <2>2. CASE u = t
      <3>1. CASE f = "call"
        BY <1>2, <2>2, <3>1 DEF Frames
      <3>2. CASE f = "suspend"
        BY <1>2, <2>2, <3>2 DEF Frames
      <3> QED BY <3>1, <3>2 DEF Frames
    <2> QED BY <2>1, <2>2
  <1> QED BY <1>3, StrandSame

LEMMA ReadReplyStrand == ASSUME ServerInv, StrandInv, NEW t \in Threads, ReadReply(t) PROVE StrandInv'
  <1> DEFINE f == Active(t)
  <1>1. f \in Frames /\ pc[t][f] = "read" /\ pipe[t] # <<>> /\ UNCHANGED core
    BY DEF ReadReply, Active, Frames, core, objects, stops, apcs
  <1>2. CASE Head(pipe[t]).cookie # f
    <2>1. UNCHANGED <<pc, call>>
      BY <1>2 DEF ReadReply
    <2> QED BY <1>1, <2>1, StrandSame
  <1>3. CASE Head(pipe[t]).cookie = f
    <2>1. Sent(t, f)
      <3>1. pipe[t] \in Seq(Replies)
        BY ServerParts DEF StateInv
      <3>2. Len(pipe[t]) >= 1 /\ Len(pipe[t]) \in Nat /\ pipe[t][1] = Head(pipe[t])
        BY <1>1, <3>1, HeadTail
      <3>3. 1 \in 1..Len(pipe[t])
        BY <3>2
      <3> QED BY <1>3, <3>2, <3>3 DEF Sent
    <2>2. ~HasWait(t, f)
      BY <1>1, <2>1, ServerParts DEF RepliesInv, ReplyOK
    <2>3. \/ pc' = [pc EXCEPT ![t][f] = "select"] /\ UNCHANGED call
          \/ Returned(t, f, Head(pipe[t]).status) /\ UNCHANGED program
      BY <1>3 DEF ReadReply
    <2> HIDE DEF f
    <2>4. CASE pc' = [pc EXCEPT ![t][f] = "select"] /\ UNCHANGED call
      BY <1>1, <2>2, <2>4, ClientMoves
    <2>5. CASE Returned(t, f, Head(pipe[t]).status) /\ UNCHANGED program
      <3>1. /\ \E x \in {"idle", "abort"} : pc' = [pc EXCEPT ![t][f] = x]
            /\ \A u \in Threads : u # t => call'[u] = call[u]
            /\ f = "suspend" => call'[t] = call[t]
        BY <1>1, <2>5, ReturnedFacts, ServerParts
      <3> QED BY <1>1, <2>2, <3>1, ClientMoves
    <2> QED BY <2>3, <2>4, <2>5
  <1> QED BY <1>2, <1>3

LEMMA ClientStrand ==
  ASSUME ServerInv, StrandInv, NEW t \in Threads,
         SelectFails(t) \/ Usr1Handler(t) \/ DriverAlerted(t) \/ Expire(t) \/ \E c \in program[t] : BeginWait(t, c)
  PROVE  StrandInv'
  <1>0. StateInv /\ StackOK(t) /\ TypesInv
    BY ServerParts DEF StacksInv
  <1>1. CASE SelectFails(t)
    <2>1. UNCHANGED core /\ pc[t]["call"] \in {"select", "again"} /\ Returned(t, "call", "error") /\ UNCHANGED program
      BY <1>1 DEF SelectFails, core, objects, stops, apcs
    <2>2. ~HasWait(t, "call") /\ "call" \in Frames
      BY <1>0, <2>1, NoWait DEF Frames
    <2>3. /\ \E x \in {"idle", "abort"} : pc' = [pc EXCEPT ![t]["call"] = x]
          /\ \A u \in Threads : u # t => call'[u] = call[u]
      BY <1>0, <2>1, <2>2, ReturnedFacts
    <2> QED BY <2>1, <2>2, <2>3, ClientMoves
  <1>2. CASE Usr1Handler(t)
    <2>1. UNCHANGED core /\ pc[t]["suspend"] = "idle" /\ pc' = [pc EXCEPT ![t]["suspend"] = "handler"] /\ UNCHANGED call
      BY <1>2 DEF Usr1Handler, Runs, core, objects, stops, apcs
    <2>2. ~HasWait(t, "suspend") /\ "suspend" \in Frames
      BY <1>0, <2>1, NoWait DEF Frames
    <2> QED BY <2>1, <2>2, ClientMoves
  <1>3. CASE DriverAlerted(t)
    <2>1. UNCHANGED core /\ pc[t]["call"] = "driver" /\ pc' = [pc EXCEPT ![t]["call"] = "select"] /\ UNCHANGED call
      BY <1>3 DEF DriverAlerted, core, objects, stops, apcs
    <2>2. ~HasWait(t, "call") /\ "call" \in Frames
      BY <1>0, <2>1, NoWait DEF Frames
    <2> QED BY <2>1, <2>2, ClientMoves
  <1>4. CASE Expire(t)
    <2>1. UNCHANGED core /\ UNCHANGED <<pc, call>>
      BY <1>4 DEF Expire, core, objects, stops, apcs
    <2> QED BY <2>1, StrandSame
  <1>5. ASSUME NEW c \in program[t], BeginWait(t, c) PROVE StrandInv'
    <2>1. /\ UNCHANGED core /\ pc[t]["call"] = "idle" /\ call' = [call EXCEPT ![t] = c]
          /\ pc' = [pc EXCEPT ![t]["call"] = IF c.fn = "inproc_wait" THEN "driver" ELSE "select"]
      BY <1>5 DEF BeginWait, MayCall, core, objects, stops, apcs
    <2>2. ~HasWait(t, "call") /\ "call" \in Frames
      BY <1>0, <2>1, NoWait DEF Frames
    <2>3. DOMAIN call = Threads
      BY ServerParts DEF CallsInv
    <2>4. \A u \in Threads : u # t => call'[u] = call[u]
      BY <2>1, <2>3
    <2> QED BY <2>1, <2>2, <2>4, ClientMoves
  <1> QED BY <1>1, <1>2, <1>3, <1>4, <1>5

LEMMA StutterStrand == ASSUME ServerInv, StrandInv, UNCHANGED vars PROVE StrandInv'
  BY StrandSame DEF vars, core, objects, stops, apcs, client

-----------------------------------------------------------------------------
(* Requests that leave the waits alone.                                    *)

\* A thread whose waits a step does not touch stays queued.
LEMMA QueuedKept ==
  ASSUME ServerInv, NEW t \in Threads, QueuedOK(t),
         HasWait(t, "call")' => HasWait(t, "call") /\ call'[t] = call[t],
         \A o \in Objs : HasWait(t, "call")' /\ Queued(o, t) => Queued(o, t)'
  PROVE  QueuedOK(t)'
  <1>1. WaitObjs(call[t]) \in Seq(Objs)
    BY CallFormed, FormedObjs, ServerParts
  <1>2. \A k \in 1..Len(WaitObjs(call[t])) : WaitObjs(call[t])[k] \in Objs
    BY <1>1
  <1> SUFFICES ASSUME HasWait(t, "call")'
               PROVE  \A k \in 1..Len(WaitObjs(call'[t])) :
                         \E j \in 1..Len(queue'[WaitObjs(call'[t])[k]]) : queue'[WaitObjs(call'[t])[k]][j][1] = t
    BY DEF QueuedOK, Queued
  <1>3. WaitObjs(call'[t]) = WaitObjs(call[t])
    OBVIOUS
  <1>4. \A k \in 1..Len(WaitObjs(call[t])) : Queued(WaitObjs(call[t])[k], t)
    BY DEF QueuedOK
  <1>5. ASSUME NEW k \in 1..Len(WaitObjs(call[t]))
        PROVE  \E j \in 1..Len(queue'[WaitObjs(call[t])[k]]) : queue'[WaitObjs(call[t])[k]][j][1] = t
    <2>1. PICK o \in Objs : o = WaitObjs(call[t])[k]
      BY <1>2
    <2>2. Queued(o, t)'
      BY <1>4, <2>1
    <2> QED BY <2>1, <2>2 DEF Queued
  <1> QED BY <1>3, <1>5

\* What such a step does to each thread.
Keeps(t) ==
    /\ wait'[t] = wait[t] /\ (\A f \in Frames : HasWait(t, f) => pc'[t][f] = pc[t][f])
    /\ HasWait(t, "call") => call'[t] = call[t]

LEMMA KeepsFacts ==
  ASSUME NEW t \in Threads, Keeps(t)
  PROVE  /\ \A f : HasWait(t, f)' <=> HasWait(t, f)
         /\ Held(t)' <=> Held(t)
         /\ Exposed(t)' <=> Exposed(t)
         /\ CallSleeps(t)' <=> CallSleeps(t)
         /\ Exposed(t) => call'[t] = call[t]
  <1>1. \A f : HasWait(t, f)' <=> HasWait(t, f)
    BY DEF Keeps, HasWait
  <1>2. Held(t)' <=> Held(t)
    BY <1>1 DEF Keeps, Held, Frames
  <1>3. Exposed(t)' <=> Exposed(t)
    BY <1>1, <1>2 DEF Exposed
  <1>4. CallSleeps(t)' <=> CallSleeps(t)
    BY <1>1, <1>3 DEF Keeps, Exposed, CallSleeps, Frames
  <1>5. Exposed(t) => call'[t] = call[t]
    BY DEF Keeps, Exposed
  <1> QED BY <1>1, <1>2, <1>3, <1>4, <1>5

LEMMA KeepsEases ==
  ASSUME NEW t \in Threads, Keeps(t), Suspended(t) => Suspended(t)',
         system_apc'[t] # <<>> => system_apc[t] # <<>>, user_apc'[t] # <<>> => user_apc[t] # <<>>
  PROVE  Eases(t)
  BY KeepsFacts DEF Eases

\* Nobody gets anything, or the one who does is woken.
LEMMA RequestFades ==
  ASSUME ServerInv, StrandInv, Idle, UNCHANGED queue, \A t \in Threads : Keeps(t) /\ Fades(t, {}),
         WakesOK(todo)', \A t \in Threads : Eases(t) \/ Heads(WakeThread(t))'
  PROVE  StrandInv'
  <1>1. ASSUME NEW t \in Threads PROVE QueuedOK(t)'
    <2>1. \A o : Queued(o, t)' <=> Queued(o, t)
      BY DEF Queued
    <2>2. HasWait(t, "call")' => HasWait(t, "call") /\ call'[t] = call[t]
      BY KeepsFacts DEF Keeps
    <2> QED BY <2>1, <2>2, QueuedKept DEF StrandInv
  <1>2. ASSUME NEW t \in Threads, Eases(t) PROVE WantingOK(t)'
    BY <1>2, FadesWanting, IdleNone DEF WantingOK
  <1> QED BY <1>1, <1>2, FromIdle

LEMMA WakesShort == WakesOK(<<>>) /\ \A x : WakesOK(<<x>>)
  BY DEF WakesOK

LEMMA SameFades ==
  ASSUME UNCHANGED <<units, mcount, mowner, event>>
  PROVE  \A t \in Threads : Fades(t, {})
  BY DEF Fades, Lights, Signaled

LEMMA SameKeeps ==
  ASSUME UNCHANGED <<wait, pc, call>>
  PROVE  \A t \in Threads : Keeps(t)
  BY DEF Keeps

LEMMA NoTimerLeft == ASSUME NEW s \in Seq({"user", "timer"}), s = <<>> PROVE WithoutTimer(s) = <<>>
  <1> DEFINE K == {k \in DOMAIN s : s[k] # "timer"}
             r == Keep(s, K)
  <1>1. K \in SUBSET (1..Len(s)) /\ K = {}
    OBVIOUS
  <1>2. WithoutTimer(s) = r
    BY DEF WithoutTimer
  <1>3. r \in Seq({"user", "timer"}) /\ \A j \in 1..Len(r) : \E k \in K : r[j] = s[k]
    BY <1>1, KeepType
  <1> HIDE DEF K, r
  <1>4. Len(r) = 0
    <2>1. Len(r) \in Nat /\ \A j \in 1..Len(r) : FALSE
      BY <1>1, <1>3
    <2>2. \A n \in Nat : n # 0 => 1 \in 1..n
      OBVIOUS
    <2> QED BY <2>1, <2>2
  <1> QED BY <1>2, <1>3, <1>4, LenZero

LEMMA QuietRequestsStrand ==
  ASSUME ServerInv, AlertInv, StrandInv, NEW t \in Threads, NEW c \in program[t],
         ResetEvent(t, c) \/ SuspendThread(t, c) \/ SetThreadContext(t, c) \/ SetTimer(t, c) \/ CancelTimerOf(t, c)
  PROVE  StrandInv'
  <1>0. /\ suspend \in [Threads -> 0..MaxSuspend] /\ user_apc \in [Threads -> Seq({"user", "timer"})]
        /\ event \in [Objs -> BOOLEAN] /\ todo = <<>>
    BY ServerParts DEF ObjectsInv, AlertInv, ApcTypes, ResetEvent, SuspendThread, SetThreadContext, SetTimer,
       CancelTimerOf, Idle
  <1>1. UNCHANGED <<queue, wait, pc, call, system_apc, todo>> /\ WakesOK(todo)'
    BY <1>0, WakesShort DEF ResetEvent, SuspendThread, SetThreadContext, SetTimer, CancelTimerOf, client, apcs
  <1>2. \A x \in Threads : Keeps(x)
    BY <1>1, SameKeeps
  <1>3. ASSUME NEW x \in Threads
        PROVE  (Suspended(x) => Suspended(x)') /\ (user_apc'[x] # <<>> => user_apc[x] # <<>>)
    <2>1. CASE ResetEvent(t, c) \/ SetThreadContext(t, c)
      BY <2>1 DEF ResetEvent, SetThreadContext, stops, apcs, Suspended
    <2>2. CASE SuspendThread(t, c)
      <3>1. suspend' = [suspend EXCEPT ![c.owner] = @ + 1] /\ UNCHANGED user_apc
        BY <2>2 DEF SuspendThread, apcs
      <3> QED BY <1>0, <3>1, BoundAssumption DEF Suspended
    <2>3. CASE SetTimer(t, c) \/ CancelTimerOf(t, c)
      <3>1. UNCHANGED suspend /\ \E u : user_apc' = [user_apc EXCEPT ![u] = WithoutTimer(@)]
        BY <2>3 DEF SetTimer, CancelTimerOf, CancelTimer, stops
      <3>2. user_apc'[x] = user_apc[x] \/ user_apc'[x] = WithoutTimer(user_apc[x])
        BY <1>0, <3>1
      <3>3. user_apc[x] \in Seq({"user", "timer"})
        BY <1>0
      <3> QED BY <3>1, <3>2, <3>3, NoTimerLeft DEF Suspended
    <2> QED BY <2>1, <2>2, <2>3
  <1>4. \A x \in Threads : Eases(x)
    BY <1>1, <1>2, <1>3, KeepsEases
  <1>5. \A x \in Threads : Fades(x, {})
    <2>1. CASE ResetEvent(t, c)
      <3>1. UNCHANGED <<units, mcount, mowner>> /\ event' = [event EXCEPT ![c.objs[1]] = FALSE]
        BY <2>1 DEF ResetEvent
      <3>2. \A o \in Objs : event'[o] => event[o]
        BY <1>0, <3>1
      <3> QED BY <3>1, <3>2 DEF Fades, Lights, Signaled
    <2>2. CASE ~ResetEvent(t, c)
      <3>1. UNCHANGED <<units, mcount, mowner, event>>
        BY <2>2 DEF SuspendThread, SetThreadContext, SetTimer, CancelTimerOf, objects
      <3> QED BY <3>1, SameFades
    <2> QED BY <2>1, <2>2
  <1> QED BY <1>0, <1>1, <1>2, <1>4, <1>5, RequestFades DEF Idle

LEMMA ResumeThreadStrand ==
  ASSUME ServerInv, StrandInv, NEW t \in Threads, NEW c \in program[t], ResumeThread(t, c)
  PROVE  StrandInv'
  <1> DEFINE u == c.owner
  <1>0. suspend \in [Threads -> 0..MaxSuspend]
    BY ServerParts
  <1>1. /\ UNCHANGED <<queue, wait, pc, call, system_apc, user_apc, units, mcount, mowner, event>> /\ Idle
        /\ suspend' = [suspend EXCEPT ![u] = @ - 1] /\ suspend[u] > 0
        /\ todo' = IF Resumes(u) THEN <<WakeThread(u)>> ELSE <<>>
    BY DEF ResumeThread, client, apcs, objects
  <1> HIDE DEF u
  <1>2. WakesOK(todo)'
    BY <1>1, WakesShort
  <1>3. (\A x \in Threads : Keeps(x)) /\ \A x \in Threads : Fades(x, {})
    BY <1>1, SameKeeps, SameFades
  <1>4. ASSUME NEW x \in Threads PROVE Eases(x) \/ Heads(WakeThread(x))'
    <2>1. CASE x = u /\ suspend[u] = 1
      <3>1. todo' = <<WakeThread(x)>>
        BY <1>1, <2>1 DEF Resumes
      <3> QED BY <3>1 DEF Heads
    <2>2. CASE ~(x = u /\ suspend[u] = 1)
      <3>1. Suspended(x) => Suspended(x)'
        BY <1>0, <1>1, <2>2, BoundAssumption DEF Suspended
      <3> QED BY <1>1, <1>3, <3>1, KeepsEases
    <2> QED BY <2>1, <2>2
  <1> QED BY <1>1, <1>2, <1>3, <1>4, RequestFades

LEMMA QueueUserApcStrand ==
  ASSUME ServerInv, AlertInv, StrandInv, NEW t \in Threads, NEW c \in program[t], QueueUserApc(t, c)
  PROVE  StrandInv'
  <1> DEFINE u == c.owner
  <1>0. user_apc \in [Threads -> Seq({"user", "timer"})]
    BY DEF AlertInv, ApcTypes
  <1>1. /\ UNCHANGED <<queue, wait, pc, call, system_apc, suspend, units, mcount, mowner, event>> /\ Idle
        /\ user_apc' = [user_apc EXCEPT ![u] = Append(@, "user")]
        /\ todo' = IF user_apc[u] = <<>> THEN <<WakeThread(u)>> ELSE <<>>
    BY DEF QueueUserApc, client, stops, objects
  <1> HIDE DEF u
  <1>2. WakesOK(todo)'
    BY <1>1, WakesShort
  <1>3. (\A x \in Threads : Keeps(x)) /\ \A x \in Threads : Fades(x, {})
    BY <1>1, SameKeeps, SameFades
  <1>4. ASSUME NEW x \in Threads PROVE Eases(x) \/ Heads(WakeThread(x))'
    <2>1. CASE x = u /\ user_apc[u] = <<>>
      <3>1. todo' = <<WakeThread(x)>>
        BY <1>1, <2>1
      <3> QED BY <3>1 DEF Heads
    <2>2. CASE ~(x = u /\ user_apc[u] = <<>>)
      <3>1. user_apc'[x] # <<>> => user_apc[x] # <<>>
        BY <1>0, <1>1, <2>2
      <3>2. Suspended(x) => Suspended(x)'
        BY <1>1 DEF Suspended
      <3> QED BY <1>1, <1>3, <3>1, <3>2, KeepsEases
    <2> QED BY <2>1, <2>2
  <1> QED BY <1>1, <1>2, <1>3, <1>4, RequestFades

LEMMA QueueSystemApcStrand ==
  ASSUME ServerInv, StrandInv, NEW t \in Threads, NEW c, QueueSystemApc(t, c)
  PROVE  StrandInv'
  <1>0. /\ system_apc \in [Threads -> Seq(Threads)] /\ pc \in [Threads -> [Frames -> Places]] /\ DOMAIN call = Threads
        /\ StateInv /\ StackOK(t)
    BY ServerParts DEF StateInv, CallsInv, StacksInv
  <1>1. /\ UNCHANGED <<queue, wait, user_apc, suspend, units, mcount, mowner, event>> /\ Idle
        /\ pc[t]["call"] \in {"idle", "requeue"}
        /\ \E x \in {"idle", "apc_wait"} : pc' = [pc EXCEPT ![t]["call"] = x]
        /\ \E d : call' = [call EXCEPT ![t] = d]
        /\ \/ UNCHANGED <<system_apc, todo>>
           \/ \E u : /\ system_apc' = [system_apc EXCEPT ![u] = Append(@, t)]
                     /\ todo' = IF system_apc[u] = <<>> THEN <<WakeThread(u)>> ELSE <<>>
    <2> DEFINE live == {k \in DOMAIN c.objs : c.objs[k] \notin dead}
               waiting == {k \in live : InApcWait(c.objs[k])}
               u == c.objs[First(IF waiting # {} THEN waiting ELSE live)]
    <2>1. CASE live = {}
      BY <2>1 DEF QueueSystemApc, MayCall, stops, objects
    <2>2. CASE live # {}
      <3>1. /\ system_apc' = [system_apc EXCEPT ![u] = Append(@, t)]
            /\ todo' = IF system_apc[u] = <<>> THEN <<WakeThread(u)>> ELSE <<>>
        BY <2>2 DEF QueueSystemApc
      <3>2. /\ UNCHANGED <<queue, wait, user_apc, suspend, units, mcount, mowner, event>> /\ Idle
            /\ pc[t]["call"] \in {"idle", "requeue"}
            /\ pc' = [pc EXCEPT ![t]["call"] = "apc_wait"] /\ call' = [call EXCEPT ![t] = c]
        BY <2>2 DEF QueueSystemApc, MayCall, stops, objects
      <3> HIDE DEF u
      <3> QED BY <3>1, <3>2
    <2> QED BY <2>1, <2>2
  <1>2. WakesOK(todo)'
    BY <1>1, WakesShort DEF Idle
  <1>3. ASSUME NEW x \in Threads PROVE Keeps(x)
    <2>1. ~HasWait(t, "call")
      BY <1>0, <1>1, NoWait
    <2>2. \A f \in Frames : x # t \/ f # "call" => pc'[x][f] = pc[x][f]
      BY <1>0, <1>1
    <2>3. x # t => call'[x] = call[x]
      BY <1>0, <1>1
    <2> QED BY <1>1, <2>1, <2>2, <2>3 DEF Keeps
  <1>4. \A x \in Threads : Fades(x, {})
    BY <1>1, SameFades
  <1>5. ASSUME NEW x \in Threads PROVE Eases(x) \/ Heads(WakeThread(x))'
    <2>1. Suspended(x) => Suspended(x)'
      BY <1>1 DEF Suspended
    <2>2. CASE UNCHANGED system_apc
      BY <1>1, <1>3, <2>1, <2>2, KeepsEases
    <2>3. ASSUME NEW u, system_apc' = [system_apc EXCEPT ![u] = Append(@, t)],
                 todo' = IF system_apc[u] = <<>> THEN <<WakeThread(u)>> ELSE <<>>
          PROVE  Eases(x) \/ Heads(WakeThread(x))'
      <3>1. CASE x = u /\ system_apc[u] = <<>>
        <4>1. todo' = <<WakeThread(x)>>
          BY <2>3, <3>1
        <4> QED BY <4>1 DEF Heads
      <3>2. CASE ~(x = u /\ system_apc[u] = <<>>)
        <4>1. system_apc'[x] # <<>> => system_apc[x] # <<>>
          BY <1>0, <2>3, <3>2
        <4> QED BY <1>1, <1>3, <2>1, <4>1, KeepsEases
      <3> QED BY <3>1, <3>2
    <2> QED BY <1>1, <2>2, <2>3
  <1> QED BY <1>1, <1>2, <1>3, <1>4, <1>5, RequestFades

-----------------------------------------------------------------------------
(* Requests that signal an object.                                         *)

WakeAt(s, o, m) == \E k \in 1..Len(s) : s[k] = WakeUp(o, m)

LEMMA SignalWakesFacts ==
  ASSUME NEW o \in Objs, NEW n \in Nat
  PROVE  /\ SignalWakes(o, n) = <<>> \/ \E m \in Nat : SignalWakes(o, n) = <<WakeUp(o, m)>>
         /\ Type[o] = "sem" /\ units[o] = 0 => SignalWakes(o, n) = <<WakeUp(o, n)>>
         /\ Type[o] = "mutex" /\ mcount[o] = 1 => SignalWakes(o, n) = <<WakeUp(o, 0)>>
         /\ Type[o] = "event" => SignalWakes(o, n) = <<WakeUp(o, IF Manual[o] THEN 0 ELSE 1)>>
  <1> USE ObjectAssumption
  <1> HIDE DEF WakeUp
  <1>1. CASE Type[o] = "sem"
    BY <1>1 DEF SignalWakes
  <1>2. CASE Type[o] = "mutex"
    BY <1>2 DEF SignalWakes
  <1>3. CASE Type[o] \notin {"sem", "mutex"}
    <2>1. SignalWakes(o, n) = <<WakeUp(o, IF Manual[o] THEN 0 ELSE 1)>>
      BY <1>3 DEF SignalWakes
    <2>2. (IF Manual[o] THEN 0 ELSE 1) \in Nat
      OBVIOUS
    <2> QED BY <1>3, <2>1, <2>2
  <1> QED BY <1>1, <1>2, <1>3

LEMMA WakesPairs ==
  /\ \A x, y : y.do \notin {"wake_thread", "wake_up"} => WakesOK(<<x, y>>)
  /\ \A x, y : x.do = "wake_thread" /\ y.do = "wake_up" => WakesOK(<<x, y>>)
  BY DEF WakesOK

LEMMA ShortJoin == ASSUME NEW x, NEW y PROVE <<x>> \o <<y>> = <<x, y>> /\ <<>> \o <<y>> = <<y>> /\ <<x>> \o <<>> = <<x>>
  <1> DEFINE S == {x, y}
  <1>1. <<x>> \in Seq(S) /\ <<y>> \in Seq(S) /\ <<x, y>> \in Seq(S) /\ <<>> \in Seq(S)
    OBVIOUS
  <1>2. <<x>> \o <<y>> = <<x, y>>
    <2> DEFINE a == <<x>> \o <<y>>
    <2>1. a \in Seq(S) /\ Len(a) = 2
      BY <1>1
    <2>2. a[1] = x /\ a[2] = y
      OBVIOUS
    <2> HIDE DEF a
    <2>3. a = <<x, y>>
      BY <2>1, <2>2
    <2> QED BY <2>3 DEF a
  <1> HIDE DEF S
  <1>3. <<>> \o <<y>> = <<y>> /\ <<x>> \o <<>> = <<x>>
    BY <1>1
  <1> QED BY <1>2, <1>3

LEMMA ServedAll ==
  ASSUME NEW t \in Threads, NEW o \in Objs, Queued(o, t)', WakeAt(todo', o, 0)
  PROVE  WantingOK(t)'
  <1>1. PICK k \in 1..Len(todo') : todo'[k] = WakeUp(o, 0)
    BY DEF WakeAt
  <1>2. todo'[k].do = "wake_up" /\ todo'[k].max = 0 /\ todo'[k].obj = o
    BY <1>1 DEF WakeUp
  <1>3. WakesAll(t)'
    BY <1>2 DEF WakesAll, Queued
  <1> QED BY <1>3 DEF WantingOK

LEMMA ServedSome ==
  ASSUME NEW t \in Threads, NEW o \in Objs, Only(t, o)', NEW m \in Nat, m # 0, WakeAt(todo', o, m), Spare(o, m)'
  PROVE  WantingOK(t)'
  <1>1. PICK k \in 1..Len(todo') : todo'[k] = WakeUp(o, m)
    BY DEF WakeAt
  <1>2. todo'[k].do = "wake_up" /\ todo'[k].max = m /\ todo'[k].obj = o
    BY <1>1 DEF WakeUp
  <1>3. WakesSome(o, 0)'
    BY <1>2 DEF WakesSome, Spare
  <1> QED BY <1>3 DEF WantingOK

\* A thread that waits for the object that is now signaled is queued on it.
LEMMA LitQueued ==
  ASSUME ServerInv, StrandInv, Calm, NEW t \in Threads, NEW o \in Objs, Eases(t), Fades(t, {o}), QueuedOK(t)',
         Wanting(t)'
  PROVE  Only(t, o)' /\ ~Signaled(o, t) /\ Lights(o, t) /\ Queued(o, t)'
  <1>1. ~Wanting(t)
    BY CalmNone
  <1>2. /\ Only(t, o)' /\ ~Signaled(o, t) /\ Lights(o, t) /\ HasWait(t, "call")'
        /\ \E k \in 1..Len(WaitObjs(call'[t])) : WaitObjs(call'[t])[k] = o
    BY <1>1, LitWanting
  <1>3. \E j \in 1..Len(queue'[o]) : queue'[o][j][1] = t
    BY <1>2 DEF QueuedOK, Queued
  <1> QED BY <1>2, <1>3 DEF Queued

LEMMA SignalFades ==
  ASSUME ServerInv, NEW t \in Threads, NEW o \in Objs, NEW n \in Nat, SignalObject(o, n)
  PROVE  Fades(t, {o})
  <1>1. units \in [Objs -> Nat] /\ mcount \in [Objs -> 0..MaxRec] /\ mowner \in [Objs -> Threads \cup {NoOne}]
        /\ event \in [Objs -> BOOLEAN]
    BY ServerParts DEF ObjectsInv
  <1>2. \A p \in Objs \ {o} : units'[p] = units[p] /\ mcount'[p] = mcount[p] /\ mowner'[p] = mowner[p] /\ event'[p] = event[p]
    BY <1>1 DEF SignalObject
  <1> QED BY <1>2 DEF Fades, Lights, Signaled

LEMMA SignalServes ==
  ASSUME ServerInv, StrandInv, Calm, NEW t \in Threads, NEW o \in Objs, NEW n \in Nat, CanSignal(t, o, n),
         SignalObject(o, n), \A m : SignalWakes(o, n) = <<WakeUp(o, m)>> => WakeAt(todo', o, m),
         NEW x \in Threads, x # t, Eases(x), QueuedOK(x)'
  PROVE  WantingOK(x)'
  <1> SUFFICES ASSUME Wanting(x)' PROVE WantingOK(x)'
    BY DEF WantingOK
  <1>1. Only(x, o)' /\ ~Signaled(o, x) /\ Lights(o, x) /\ Queued(o, x)'
    BY SignalFades, LitQueued
  <1>2. units \in [Objs -> Nat] /\ mcount \in [Objs -> 0..MaxRec] /\ mowner \in [Objs -> Threads \cup {NoOne}]
        /\ event \in [Objs -> BOOLEAN] /\ (mowner[o] = NoOne) = (mcount[o] = 0)
    BY ServerParts DEF ObjectsInv
  <1> HIDE DEF Only, Queued, WantingOK
  <1>3. CASE Type[o] = "sem"
    <2>1. units[o] = 0 /\ units'[o] = n
      BY <1>1, <1>2, <1>3 DEF Signaled, SignalObject
    <2>2. WakeAt(todo', o, n)
      BY <1>3, <2>1, SignalWakesFacts
    <2>3. Spare(o, n)'
      BY <1>3, <2>1 DEF Spare
    <2>4. CASE n = 0
      BY <1>1, <2>2, <2>4, ServedAll
    <2>5. CASE n # 0
      BY <1>1, <2>2, <2>3, <2>5, ServedSome
    <2> QED BY <2>4, <2>5
  <1>4. CASE Type[o] = "mutex"
    <2>1. mowner[o] = t /\ mcount[o] # 0
      BY <1>2, <1>4, NoOneAssumption DEF CanSignal
    <2>2. mcount[o] = 1
      <3>1. mcount[o] # 1 => mowner'[o] = t
        BY <1>2, <1>4, <2>1 DEF SignalObject
      <3>2. mowner'[o] \in {NoOne, x}
        BY <1>1, <1>4 DEF Lights
      <3> QED BY <3>1, <3>2, NoOneAssumption
    <2>3. WakeAt(todo', o, 0)
      BY <1>4, <2>2, SignalWakesFacts
    <2> QED BY <1>1, <2>3, ServedAll
  <1>5. CASE Type[o] = "event"
    <2>1. CASE Manual[o]
      <3>1. SignalWakes(o, n) = <<WakeUp(o, 0)>>
        BY <1>5, <2>1, SignalWakesFacts
      <3> QED BY <1>1, <3>1, ServedAll
    <2>2. CASE ~Manual[o]
      <3>1. SignalWakes(o, n) = <<WakeUp(o, 1)>>
        BY <1>5, <2>2, SignalWakesFacts
      <3>2. Spare(o, 1)'
        BY <1>5, <2>2 DEF Spare
      <3> QED BY <1>1, <3>1, <3>2, ServedSome
    <2> QED BY <2>1, <2>2
  <1>6. CASE Type[o] = "keyed"
    BY <1>1, <1>6 DEF Signaled
  <1> QED BY <1>3, <1>4, <1>5, <1>6, ObjectAssumption

LEMMA SignalStrand ==
  ASSUME ServerInv, StrandInv, NEW t \in Threads, NEW c \in program[t], Signal(t, c)
  PROVE  StrandInv'
  <1> DEFINE o == c.objs[1]
             n == c.n
             r == IF c.fn = "pulse" THEN <<ResetSync(o)>> ELSE <<>>
  <1>1. /\ Idle /\ Runs(t) /\ pc[t]["call"] = "idle" /\ CanSignal(t, o, n) /\ SignalObject(o, n)
        /\ todo' = SignalWakes(o, n) \o r
        /\ UNCHANGED <<queue, wait, pc, call, system_apc, user_apc, suspend>>
    BY DEF Signal, MayCall, client, stops, apcs
  <1>2. o \in Objs /\ n \in Nat
    <2>1. WellFormed(t, c) /\ c.fn \in {"release", "unlock", "set", "pulse"}
      BY CallFormed, ServerParts DEF Signal
    <2>2. c.objs \in Seq(Objs) /\ c.objs # <<>> /\ n \in Nat
      BY <2>1 DEF WellFormed
    <2> QED BY <2>2, HeadTail
  <1>3. r = <<>> \/ \E z : r = <<z>> /\ z.do = "reset"
    BY DEF ResetSync
  <1> HIDE DEF o, n, r
  <1>4. SignalWakes(o, n) = <<>> \/ \E m \in Nat : SignalWakes(o, n) = <<WakeUp(o, m)>>
    BY <1>2, SignalWakesFacts
  <1>5. WakesOK(todo)'
    <2>1. CASE r = <<>>
      <3>1. todo' = <<>> \/ \E z : todo' = <<z>>
        BY <1>1, <1>4, <2>1
      <3> QED BY <3>1, WakesShort
    <2>2. ASSUME NEW z, r = <<z>>, z.do = "reset" PROVE WakesOK(todo)'
      <3>1. todo' = <<z>> \/ \E y : todo' = <<y, z>>
        BY <1>1, <1>4, <2>2, ShortJoin
      <3> QED BY <2>2, <3>1, WakesShort, WakesPairs
    <2> QED BY <1>3, <2>1, <2>2
  <1>6. ASSUME NEW m, SignalWakes(o, n) = <<WakeUp(o, m)>> PROVE WakeAt(todo', o, m)
    <2>1. todo' = <<WakeUp(o, m)>> \/ \E z : todo' = <<WakeUp(o, m), z>>
      BY <1>1, <1>3, <1>6, ShortJoin
    <2>2. 1 \in 1..Len(todo') /\ todo'[1] = WakeUp(o, m)
      BY <2>1
    <2> QED BY <2>2 DEF WakeAt
  <1>7. ASSUME NEW x \in Threads PROVE Eases(x) /\ QueuedOK(x)'
    <2>1. Keeps(x)
      BY <1>1, SameKeeps
    <2>2. Eases(x)
      BY <1>1, <2>1, KeepsEases DEF Suspended
    <2>3. \A p : Queued(p, x)' <=> Queued(p, x)
      BY <1>1 DEF Queued
    <2>4. HasWait(x, "call")' => HasWait(x, "call") /\ call'[x] = call[x]
      BY <1>1, <2>1, KeepsFacts
    <2> QED BY <2>2, <2>3, <2>4, QueuedKept DEF StrandInv
  <1>8. ASSUME NEW x \in Threads PROVE WantingOK(x)'
    <2>1. CASE x = t
      <3>1. ~HasWait(t, "call")
        BY <1>1, NoWait, ServerParts DEF StacksInv
      <3>2. ~Wanting(t)'
        <4>1. ~HasWait(t, "call")'
          BY <1>1, <3>1 DEF HasWait
        <4> QED BY <4>1 DEF Wanting, CallSleeps, Exposed
      <3> QED BY <2>1, <3>2 DEF WantingOK
    <2>2. CASE x # t
      <3>1. Calm
        BY <1>1 DEF Calm, Idle
      <3> QED BY <1>1, <1>2, <1>6, <1>7, <2>2, <3>1, SignalServes
    <2> QED BY <2>1, <2>2
  <1> QED BY <1>1, <1>5, <1>7, <1>8, FromIdle

LEMMA TimerCallbackStrand ==
  ASSUME ServerInv, AlertInv, StrandInv, NEW t \in Threads, TimerCallback(t)
  PROVE  StrandInv'
  <1> DEFINE o == TimerOf[t]
             rest == WithoutTimer(user_apc[t])
             told == t \notin dead /\ rest = <<>>
  <1>0. /\ user_apc \in [Threads -> Seq({"user", "timer"})] /\ event \in [Objs -> BOOLEAN]
        /\ o \in Objs
    BY ServerParts DEF ObjectsInv, FlagsInv, AlertInv, ApcTypes, TimerCallback
  <1>1. /\ Idle /\ event' = [event EXCEPT ![o] = TRUE]
        /\ todo' = (IF told THEN <<WakeThread(t)>> ELSE <<>>) \o SignalWakes(o, 0)
        /\ UNCHANGED <<units, mcount, mowner, queue, wait, pc, call, system_apc, suspend>>
        /\ (t \in dead /\ UNCHANGED user_apc) \/ (t \notin dead /\ user_apc' = [user_apc EXCEPT ![t] = Append(rest, "timer")])
    BY DEF TimerCallback, client, stops
  <1>2. rest # <<>> => user_apc[t] # <<>>
    BY <1>0, NoTimerLeft
  <1> HIDE DEF o, rest
  <1>3. SignalWakes(o, 0) = <<>> \/ \E m \in Nat : SignalWakes(o, 0) = <<WakeUp(o, m)>>
    BY <1>0, SignalWakesFacts
  <1>4. /\ told => todo' = <<WakeThread(t)>> \/ \E m \in Nat : todo' = <<WakeThread(t), WakeUp(o, m)>>
        /\ ~told => todo' = <<>> \/ \E m \in Nat : todo' = <<WakeUp(o, m)>>
    <2> HIDE DEF told
    <2>1. todo' = IF told THEN <<WakeThread(t)>> \o SignalWakes(o, 0) ELSE <<>> \o SignalWakes(o, 0)
      BY <1>1
    <2>2. CASE SignalWakes(o, 0) = <<>>
      <3>1. <<WakeThread(t)>> \o SignalWakes(o, 0) = <<WakeThread(t)>>
        BY <2>2, ShortJoin
      <3>2. <<>> \o SignalWakes(o, 0) = <<>>
        BY <2>2
      <3> QED BY <2>1, <3>1, <3>2
    <2>3. ASSUME NEW m \in Nat, SignalWakes(o, 0) = <<WakeUp(o, m)>>
          PROVE  IF told THEN todo' = <<WakeThread(t), WakeUp(o, m)>> ELSE todo' = <<WakeUp(o, m)>>
      <3>1. <<WakeThread(t)>> \o <<WakeUp(o, m)>> = <<WakeThread(t), WakeUp(o, m)>> /\ <<>> \o <<WakeUp(o, m)>> = <<WakeUp(o, m)>>
        BY ShortJoin
      <3> QED BY <2>1, <2>3, <3>1
    <2> QED BY <1>3, <2>2, <2>3
  <1>5. WakesOK(todo)'
    <2>1. WakeThread(t).do = "wake_thread" /\ \A m : WakeUp(o, m).do = "wake_up"
      BY DEF WakeThread, WakeUp
    <2> QED BY <1>4, <2>1, WakesShort, WakesPairs
  <1>6. told => Heads(WakeThread(t))'
    BY <1>4 DEF Heads
  <1>7. ASSUME NEW x \in Threads PROVE QueuedOK(x)' /\ (Eases(x) \/ Heads(WakeThread(x))')
    <2>1. Keeps(x)
      BY <1>1, SameKeeps
    <2>2. \A p : Queued(p, x)' <=> Queued(p, x)
      BY <1>1 DEF Queued
    <2>3. HasWait(x, "call")' => HasWait(x, "call") /\ call'[x] = call[x]
      BY <1>1, <2>1, KeepsFacts
    <2>4. QueuedOK(x)'
      BY <2>2, <2>3, QueuedKept DEF StrandInv
    <2>5. CASE x = t /\ told
      BY <1>6, <2>4, <2>5
    <2>6. CASE ~(x = t /\ told)
      <3>1. user_apc'[x] # <<>> => user_apc[x] # <<>>
        <4>1. CASE x = t
          BY <1>0, <1>1, <1>2, <2>6, <4>1
        <4>2. CASE x # t
          BY <1>0, <1>1, <4>2
        <4> QED BY <4>1, <4>2
      <3>2. Eases(x)
        BY <1>1, <2>1, <3>1, KeepsEases DEF Suspended
      <3> QED BY <2>4, <3>2
    <2> QED BY <2>5, <2>6
  <1>8. ASSUME NEW m, SignalWakes(o, 0) = <<WakeUp(o, m)>> PROVE WakeAt(todo', o, m)
    <2>1. todo' = <<WakeUp(o, m)>> \/ todo' = <<WakeThread(t), WakeUp(o, m)>>
      BY <1>1, <1>8, ShortJoin
    <2>2. CASE todo' = <<WakeUp(o, m)>>
      <3>1. 1 \in 1..Len(todo') /\ todo'[1] = WakeUp(o, m)
        BY <2>2
      <3> QED BY <3>1 DEF WakeAt
    <2>3. CASE todo' = <<WakeThread(t), WakeUp(o, m)>>
      <3>1. 2 \in 1..Len(todo') /\ todo'[2] = WakeUp(o, m)
        BY <2>3
      <3> QED BY <3>1 DEF WakeAt
    <2> QED BY <2>1, <2>2, <2>3
  <1>9. ASSUME NEW x \in Threads, Eases(x) PROVE WantingOK(x)'
    <2> SUFFICES ASSUME Wanting(x)' PROVE WantingOK(x)'
      BY DEF WantingOK
    <2>1. Fades(x, {o})
      BY <1>0, <1>1 DEF Fades, Lights, Signaled
    <2>2. Only(x, o)' /\ ~Signaled(o, x) /\ Lights(o, x) /\ Queued(o, x)'
      <3>1. Calm
        BY <1>1 DEF Calm, Idle
      <3> QED BY <1>0, <1>7, <1>9, <2>1, <3>1, LitQueued
    <2>3. Type[o] = "event"
      BY <1>1, <2>2 DEF Signaled, Lights
    <2>4. CASE Manual[o]
      <3>1. WakeAt(todo', o, 0)
        BY <1>0, <1>8, <2>3, <2>4, SignalWakesFacts
      <3> QED BY <1>0, <2>2, <3>1, ServedAll
    <2>5. CASE ~Manual[o]
      <3>1. WakeAt(todo', o, 1) /\ Spare(o, 1)'
        BY <1>0, <1>8, <2>3, <2>5, SignalWakesFacts DEF Spare
      <3> QED BY <1>0, <2>2, <3>1, ServedSome
    <2> QED BY <2>4, <2>5
  <1> QED BY <1>1, <1>5, <1>7, <1>9, FromIdle

-----------------------------------------------------------------------------
(* The end of a wait.                                                      *)

LEMMA TopOnly ==
  ASSUME ServerInv, NEW t \in Threads, wait[t] # <<>>, wait'[t] = Tail(wait[t])
  PROVE  /\ \A f : HasWait(t, f)' <=> HasWait(t, f) /\ f # Head(wait[t]).frame
         /\ Head(wait[t]).frame = "call" => ~HasWait(t, "call")' /\ ~HasWait(t, "suspend")'
  <1>1. \A f : HasWait(t, f)' <=> HasWait(t, f) /\ f # Head(wait[t]).frame
    BY ServerParts, WaitMoves DEF StacksInv
  <1> QED BY <1>1, SleepFacts

LEMMA SatisfiedFades ==
  ASSUME ServerInv, NEW t \in Threads, NEW S \in SUBSET Objs, \A o \in S : Signaled(o, t), Satisfied(t, S)
  PROVE  /\ \A x \in Threads : Fades(x, {})
         /\ \A o \in Objs : /\ Type[o] = "sem" => units'[o] <= units[o] /\ (o \in S => units'[o] = units[o] - 1)
                            /\ Type[o] = "event" /\ ~Manual[o] /\ o \in S => ~event'[o]
  <1>1. units \in [Objs -> Nat] /\ mcount \in [Objs -> 0..MaxRec] /\ mowner \in [Objs -> Threads \cup {NoOne}]
        /\ event \in [Objs -> BOOLEAN] /\ Manual \in [Objs -> BOOLEAN]
    BY ServerParts, ObjectAssumption DEF ObjectsInv
  <1>2. ASSUME NEW x \in Threads, NEW o \in Objs, Lights(o, x) PROVE Signaled(o, x)
    <2>1. CASE Type[o] = "sem"
      BY <1>1, <1>2, <2>1 DEF Satisfied, Lights, Signaled
    <2>2. CASE Type[o] = "mutex"
      <3>1. CASE o \in S
        <4>1. mowner'[o] = t /\ mowner'[o] \in {NoOne, x}
          BY <1>2, <2>2, <3>1 DEF Satisfied, Lights
        <4>2. x = t
          BY <4>1, NoOneAssumption
        <4> QED BY <3>1, <4>2
      <3>2. CASE o \notin S
        BY <1>2, <2>2, <3>2 DEF Satisfied, Lights, Signaled
      <3> QED BY <3>1, <3>2
    <2>3. CASE Type[o] = "event"
      BY <1>2, <2>3 DEF Satisfied, Lights, Signaled
    <2>4. CASE Type[o] = "keyed"
      BY <2>4 DEF Signaled
    <2> QED BY <2>1, <2>2, <2>3, <2>4, ObjectAssumption
  <1>3. ASSUME NEW o \in Objs
        PROVE  /\ Type[o] = "sem" => units'[o] <= units[o] /\ (o \in S => units'[o] = units[o] - 1)
               /\ Type[o] = "event" /\ ~Manual[o] /\ o \in S => ~event'[o]
    <2>1. units'[o] = IF o \in S /\ Type[o] = "sem" THEN units[o] - 1 ELSE units[o]
      BY DEF Satisfied
    <2>2. event'[o] = (event[o] /\ (o \in S /\ Type[o] = "event" => Manual[o]))
      BY DEF Satisfied
    <2>3. units[o] \in Nat
      BY <1>1
    <2>4. Type[o] = "sem" => units'[o] <= units[o] /\ (o \in S => units'[o] = units[o] - 1)
      BY <2>1, <2>3
    <2>5. Type[o] = "event" /\ ~Manual[o] /\ o \in S => ~event'[o]
      BY <2>2, Zenon
    <2> QED BY <2>4, <2>5
  <1> QED BY <1>2, <1>3 DEF Fades

LEMMA WithoutKept ==
  ASSUME NEW S, NEW q \in Seq(S), NEW E, NEW x, x \notin E, \E k \in 1..Len(q) : q[k][1] = x
  PROVE  \E j \in 1..Len(Without(q, E)) : Without(q, E)[j][1] = x
  <1>1. PICK k \in 1..Len(q) : q[k][1] = x
    OBVIOUS
  <1>2. \E j \in 1..Len(Without(q, E)) : Without(q, E)[j] = q[k]
    BY <1>1, WithoutAll
  <1> QED BY <1>1, <1>2

LEMMA WithoutQueued ==
  ASSUME queue \in [Objs -> Seq(Threads \X Nat)], NEW o \in Objs, NEW E, queue'[o] = Without(queue[o], E),
         NEW x, x \notin E, Queued(o, x)
  PROVE  Queued(o, x)'
  <1>1. PICK S : queue[o] \in Seq(S)
    <2>1. queue[o] \in Seq(Threads \X Nat)
      OBVIOUS
    <2> QED BY <2>1
  <1>2. \E k \in 1..Len(queue[o]) : queue[o][k][1] = x
    BY DEF Queued
  <1>3. \E j \in 1..Len(queue'[o]) : queue'[o][j][1] = x
    <2> DEFINE q == queue[o]
    <2>1. q \in Seq(S) /\ \E k \in 1..Len(q) : q[k][1] = x
      BY <1>1, <1>2
    <2> HIDE DEF q
    <2>2. \E j \in 1..Len(Without(q, E)) : Without(q, E)[j][1] = x
      BY <2>1, WithoutKept
    <2> QED BY <2>2 DEF q
  <1> QED BY <1>3 DEF Queued

LEMMA EndStrand ==
  ASSUME ServerInv, NEW t \in Threads, wait[t] # <<>>,
         NEW v, (v = CheckWait(t) /\ CanEnd(t)) \/ v = [status |-> "timeout", index |-> 0], EndWait(t, v)
  PROVE  /\ \A x \in Threads \ Ends(t, v) : wait'[x] = wait[x]
         /\ \A x \in Ends(t, v) \ {t} : ~HasWait(x, "call")' /\ ~HasWait(x, "suspend")'
         /\ \A f : HasWait(t, f)' <=> HasWait(t, f) /\ f # Head(wait[t]).frame
         /\ \A x \in Threads : \A o \in Objs : HasWait(x, "call")' /\ Queued(o, x) => Queued(o, x)'
         /\ \A x \in Threads : Fades(x, {})
         /\ \A o \in Objs : /\ Type[o] = "sem" => units'[o] <= units[o] /\ (o \in Takes(t, v) => units'[o] = units[o] - 1)
                            /\ Type[o] = "event" /\ ~Manual[o] /\ o \in Takes(t, v) => ~event'[o]
         /\ t \in Ends(t, v) /\ Ends(t, v) \subseteq Threads
  <1> DEFINE E == Ends(t, v)
  <1>0. TypesInv /\ StacksInv /\ queue \in [Objs -> Seq(Threads \X Nat)]
    BY ServerParts DEF StateInv
  <1>1. /\ \A u \in E : wait[u] # <<>> /\ wait'[u] = Tail(wait[u])
        /\ \A u \in Threads \ E : wait'[u] = wait[u]
    BY <1>0, EndFacts
  <1>2. /\ t \in E /\ E \subseteq Threads
        /\ \A u \in E \ {t} : Head(wait[u]).frame = "call" /\ v.status = "object" /\ Head(wait[t]).frame = "call"
    BY <1>0, EndsWait
  <1>3. \A x \in E \ {t} : ~HasWait(x, "call")' /\ ~HasWait(x, "suspend")'
    BY <1>1, <1>2, TopOnly
  <1>4. \A f : HasWait(t, f)' <=> HasWait(t, f) /\ f # Head(wait[t]).frame
    BY <1>1, <1>2, TopOnly
  <1>5. Takes(t, v) \subseteq Objs /\ \A o \in Takes(t, v) : Signaled(o, t)
    BY <1>0, TakesSignaled
  <1>6. Satisfied(t, Takes(t, v)) /\ queue' = IF Head(wait[t]).frame = "suspend" THEN queue ELSE [o \in Objs |-> Without(queue[o], E)]
    BY DEF EndWait
  <1>7. /\ \A x \in Threads : Fades(x, {})
        /\ \A o \in Objs : /\ Type[o] = "sem" => units'[o] <= units[o] /\ (o \in Takes(t, v) => units'[o] = units[o] - 1)
                           /\ Type[o] = "event" /\ ~Manual[o] /\ o \in Takes(t, v) => ~event'[o]
    <2> DEFINE S == Takes(t, v)
    <2>1. S \in SUBSET Objs /\ (\A o \in S : Signaled(o, t)) /\ Satisfied(t, S)
      BY <1>5, <1>6
    <2> HIDE DEF S
    <2>2. /\ \A x \in Threads : Fades(x, {})
          /\ \A o \in Objs : /\ Type[o] = "sem" => units'[o] <= units[o] /\ (o \in S => units'[o] = units[o] - 1)
                             /\ Type[o] = "event" /\ ~Manual[o] /\ o \in S => ~event'[o]
      BY <2>1, SatisfiedFades
    <2> QED BY <2>2 DEF S
  <1> HIDE DEF E
  <1>8. ASSUME NEW x \in Threads, NEW o \in Objs, HasWait(x, "call")', Queued(o, x) PROVE Queued(o, x)'
    <2>1. CASE Head(wait[t]).frame = "suspend"
      BY <1>6, <1>8, <2>1 DEF Queued
    <2>2. CASE Head(wait[t]).frame # "suspend"
      <3>1. x \notin E
        <4>1. Head(wait[t]).frame = "call"
          BY <2>2, SleepFacts DEF Frames
        <4> QED BY <1>3, <1>4, <1>8, <4>1
      <3>2. queue'[o] = Without(queue[o], E)
        BY <1>0, <1>6, <2>2
      <3> QED BY <1>0, <1>8, <3>1, <3>2, WithoutQueued
    <2> QED BY <2>1, <2>2
  <1> QED BY <1>1, <1>2, <1>3, <1>4, <1>7, <1>8 DEF E

\* A thread that loses waits and nothing else, none from above another.
LEMMA SameEases ==
  ASSUME NEW t \in Threads, pc'[t] = pc[t], call'[t] = call[t], suspend'[t] = suspend[t],
         system_apc'[t] = system_apc[t], user_apc'[t] = user_apc[t],
         HasWait(t, "call")' => HasWait(t, "call"), HasWait(t, "suspend")' => HasWait(t, "suspend"),
         HasWait(t, "call")' /\ HasWait(t, "suspend") => HasWait(t, "suspend")'
  PROVE  Eases(t)
  <1>1. Held(t)' => Held(t)
    BY DEF Held
  <1>2. Exposed(t)' => Exposed(t)
    BY DEF Held, Exposed
  <1>3. CallSleeps(t)' => CallSleeps(t)
    BY <1>2 DEF CallSleeps
  <1>4. Suspended(t) => Suspended(t)'
    BY DEF Suspended
  <1> QED BY <1>1, <1>2, <1>3, <1>4 DEF Eases

LEMMA ThreadTimeoutStrand ==
  ASSUME ServerInv, StrandInv, NEW t \in Threads, ThreadTimeout(t)
  PROVE  StrandInv'
  <1> DEFINE v == [status |-> "timeout", index |-> 0]
  <1>1. PICK k \in DOMAIN wait[t] :
          /\ Idle
          /\ IF k = 1 /\ ~Suspended(t)
             THEN EndWait(t, v) /\ Send({t}, v) /\ todo' = <<WakeThread(t)>>
             ELSE /\ wait' = [wait EXCEPT ![t][k].user = FALSE]
                  /\ UNCHANGED <<objects, queue, pipe, context, todo>>
    BY DEF ThreadTimeout
  <1>2. UNCHANGED <<suspend, system_apc, user_apc, pc, call, stolen, dead>>
    BY DEF ThreadTimeout, apcs, client
  <1>3. wait[t] \in Seq(Waits) /\ StateInv /\ StacksInv /\ wait \in [Threads -> Seq(Waits)]
    BY ServerParts DEF StateInv
  <1>4. CASE k = 1 /\ ~Suspended(t)
    <2>1. wait[t] # <<>>
      BY <1>1, <1>3, <1>4
    <2>2. EndWait(t, v) /\ todo' = <<WakeThread(t)>> /\ Idle
      BY <1>1, <1>4
    <2>3. Ends(t, v) = {t}
      BY DEF Ends
    <2>4. /\ \A x \in Threads : x # t => wait'[x] = wait[x]
          /\ \A f : HasWait(t, f)' <=> HasWait(t, f) /\ f # Head(wait[t]).frame
          /\ \A x \in Threads : \A o \in Objs : HasWait(x, "call")' /\ Queued(o, x) => Queued(o, x)'
          /\ \A x \in Threads : Fades(x, {})
      BY <2>1, <2>2, <2>3, EndStrand
    <2> HIDE DEF v
    <2>5. ASSUME NEW x \in Threads PROVE QueuedOK(x)'
      <3>1. HasWait(x, "call")' => HasWait(x, "call") /\ call'[x] = call[x]
        <4>1. CASE x = t
          BY <1>2, <2>4, <4>1
        <4>2. CASE x # t
          BY <1>2, <2>4, <4>2 DEF HasWait
        <4> QED BY <4>1, <4>2
      <3> QED BY <2>4, <3>1, QueuedKept DEF StrandInv
    <2>6. ASSUME NEW x \in Threads PROVE Eases(x) \/ Heads(WakeThread(x))'
      <3>1. CASE x = t
        BY <2>2, <3>1 DEF Heads
      <3>2. CASE x # t
        <4>1. \A f : HasWait(x, f)' <=> HasWait(x, f)
          BY <2>4, <3>2 DEF HasWait
        <4> QED BY <1>2, <4>1, SameEases
      <3> QED BY <3>1, <3>2
    <2>7. ASSUME NEW x \in Threads, Eases(x) PROVE WantingOK(x)'
      BY <2>2, <2>4, <2>7, FadesWanting, IdleNone DEF WantingOK
    <2>8. WakesOK(todo)'
      BY <2>2, WakesShort
    <2> QED BY <2>2, <2>5, <2>6, <2>7, <2>8, FromIdle
  <1>5. CASE ~(k = 1 /\ ~Suspended(t))
    <2>1. wait' = [wait EXCEPT ![t][k].user = FALSE] /\ UNCHANGED <<objects, queue, pipe, context, todo>> /\ Idle
      BY <1>1, <1>5
    <2>2. ASSUME NEW x \in Threads, NEW f PROVE HasWait(x, f)' <=> HasWait(x, f)
      <3>1. CASE x = t
        <4>1. Disarms(t)
          <5>1. wait'[t] = [wait[t] EXCEPT ![k].user = FALSE]
            BY <1>3, <2>1
          <5> QED BY <1>2, <2>1, <5>1 DEF Disarms, Apart
        <4> QED BY <1>3, <3>1, <4>1, WaitMoves DEF StacksInv
      <3>2. CASE x # t
        <4>1. wait'[x] = wait[x]
          BY <1>3, <2>1, <3>2
        <4> QED BY <4>1 DEF HasWait
      <3> QED BY <3>1, <3>2
    <2>3. \A x \in Threads : Eases(x)
      BY <1>2, <2>2, SameEases
    <2>4. \A x \in Threads : QueuedOK(x)'
      <3>1. \A o, x : Queued(o, x)' <=> Queued(o, x)
        BY <2>1 DEF Queued
      <3> QED BY <1>2, <2>2, <3>1, QueuedKept DEF StrandInv
    <2>5. \A x \in Threads : Fades(x, {})
      BY <2>1, SameFades DEF objects
    <2>6. WakesOK(todo)'
      BY <2>1 DEF StrandInv
    <2>7. ASSUME NEW x \in Threads, Eases(x) PROVE WantingOK(x)'
      BY <2>1, <2>5, <2>7, FadesWanting, IdleNone DEF WantingOK
    <2> QED BY <2>1, <2>3, <2>4, <2>6, <2>7, FromIdle
  <1> QED BY <1>4, <1>5

LEMMA KillThreadStrand ==
  ASSUME ServerInv, StrandInv, NEW t \in Threads, NEW c \in program[t], KillThread(t, c)
  PROVE  StrandInv'
  <1> DEFINE d == c.owner
             callers == {system_apc[d][k] : k \in DOMAIN system_apc[d]}
  <1>0. /\ StateInv /\ StacksInv /\ wait \in [Threads -> Seq(Waits)] /\ queue \in [Objs -> Seq(Threads \X Nat)]
        /\ pc \in [Threads -> [Frames -> Places]] /\ system_apc \in [Threads -> Seq(Threads)] /\ ApcsInv
    BY ServerParts DEF StateInv
  <1>1. d \in Threads /\ Idle
    BY CallFormed, ServerParts DEF KillThread, WellFormed
  <1>2. /\ wait' = [wait EXCEPT ![d] = <<>>] /\ queue' = [o \in Objs |-> Without(queue[o], {d})]
        /\ todo' = <<Abandon(d)>> /\ system_apc' = [system_apc EXCEPT ![d] = <<>>]
        /\ user_apc' = [user_apc EXCEPT ![d] = <<>>]
        /\ pc' = [u \in Threads |-> IF u \in callers THEN [pc[u] EXCEPT !["call"] = "requeue"] ELSE pc[u]]
        /\ UNCHANGED <<units, mcount, mowner, event, suspend, call>>
    BY DEF KillThread, objects
  <1>3. \A u \in callers : pc[u]["call"] = "apc_wait"
    <2>1. system_apc[d] \in Seq(Threads)
      BY <1>0, <1>1
    <2> QED BY <1>0, <1>1, <2>1 DEF ApcsInv, QueuedWait
  <1> HIDE DEF d, callers
  <1>4. ASSUME NEW x \in Threads, x # d PROVE wait'[x] = wait[x] /\ Keeps(x) /\ Eases(x)
    <2>1. wait'[x] = wait[x] /\ system_apc'[x] = system_apc[x] /\ call'[x] = call[x]
      BY <1>0, <1>2, <1>4
    <2>2. user_apc'[x] # <<>> => user_apc[x] # <<>>
      <3>1. CASE x \in DOMAIN user_apc
        BY <1>2, <1>4, <3>1
      <3>2. CASE x \notin DOMAIN user_apc
        BY <1>2, <1>4, <3>2
      <3> QED BY <3>1, <3>2
    <2>3. ASSUME NEW f \in Frames, HasWait(x, f) PROVE pc'[x][f] = pc[x][f]
      <3>1. pc[x][f] \in {"read", "server"}
        BY <1>0, <2>3, NoWait DEF StacksInv
      <3>2. CASE x \in callers /\ f = "call"
        BY <1>3, <3>1, <3>2
      <3>3. CASE ~(x \in callers /\ f = "call")
        BY <1>0, <1>2, <3>3
      <3> QED BY <3>2, <3>3
    <2>4. Keeps(x)
      BY <2>1, <2>3 DEF Keeps
    <2> QED BY <1>2, <2>1, <2>2, <2>4, KeepsEases DEF Suspended
  <1>5. /\ \A f : ~HasWait(d, f)'
        /\ Eases(d) /\ QueuedOK(d)'
    <2>1. \A f : ~HasWait(d, f)'
      BY <1>0, <1>1, <1>2 DEF HasWait
    <2>2. Suspended(d) => Suspended(d)'
      BY <1>2 DEF Suspended
    <2> QED BY <2>1, <2>2 DEF Eases, QueuedOK, Held, Exposed, CallSleeps
  <1>6. ASSUME NEW x \in Threads PROVE QueuedOK(x)' /\ Eases(x)
    <2>1. CASE x = d
      BY <1>5, <2>1
    <2>2. CASE x # d
      <3>1. HasWait(x, "call")' => HasWait(x, "call") /\ call'[x] = call[x]
        BY <1>2, <1>4, <2>2 DEF HasWait
      <3>2. \A o \in Objs : Queued(o, x) => Queued(o, x)'
        <4> SUFFICES ASSUME NEW o \in Objs, Queued(o, x) PROVE Queued(o, x)'
          OBVIOUS
        <4>1. queue'[o] = Without(queue[o], {d}) /\ x \notin {d}
          BY <1>2, <2>2
        <4> QED BY <1>0, <4>1, WithoutQueued
      <3> QED BY <1>4, <2>2, <3>1, <3>2, QueuedKept DEF StrandInv
    <2> QED BY <2>1, <2>2
  <1>7. ASSUME NEW x \in Threads, Eases(x) PROVE WantingOK(x)'
    BY <1>1, <1>2, <1>7, SameFades, FadesWanting, IdleNone DEF WantingOK
  <1>8. WakesOK(todo)'
    BY <1>2, WakesShort
  <1> QED BY <1>1, <1>6, <1>7, <1>8, FromIdle

LEMMA CalmTodo ==
  ASSUME todo \in Seq(Items), WakesOK(todo), Calm
  PROVE  /\ todo # <<>> => WakesOK(Tail(todo))
         /\ \A x \in Items : x.do = "wake_up" => WakesOK(<<x>> \o todo)
  <1>1. \A k \in 1..Len(todo) : todo[k].do \notin {"wake_thread", "wake_up"}
    BY NoWakes
  <1>2. ASSUME todo # <<>> PROVE WakesOK(Tail(todo))
    <2>1. \A k \in 1..Len(Tail(todo)) : k + 1 \in 1..Len(todo) /\ Tail(todo)[k] = todo[k + 1]
      BY <1>2, HeadTail
    <2> QED BY <1>1, <2>1 DEF WakesOK
  <1>3. ASSUME NEW x \in Items, x.do = "wake_up" PROVE WakesOK(<<x>> \o todo)
    <2> DEFINE s == <<x>> \o todo
    <2>1. /\ s[1] = x /\ Len(s) = Len(todo) + 1 /\ Len(todo) \in Nat
          /\ \A k \in 2..Len(s) : k - 1 \in 1..Len(todo) /\ s[k] = todo[k - 1]
      BY Cons
    <2> HIDE DEF s
    <2>2. ASSUME NEW k \in 1..Len(s)
          PROVE  /\ s[k].do = "wake_thread" => k = 1
                 /\ s[k].do = "wake_up" => k = 1 \/ (k = 2 /\ s[1].do = "wake_thread")
      <3>1. k = 1 \/ k \in 2..Len(s)
        BY <2>1
      <3>2. CASE k = 1
        BY <1>3, <2>1, <3>2
      <3>3. CASE k \in 2..Len(s)
        BY <1>1, <2>1, <3>3
      <3> QED BY <3>1, <3>2, <3>3
    <2> QED BY <2>2 DEF WakesOK, s
  <1> QED BY <1>2, <1>3

LEMMA ResetStepStrand == ASSUME ServerInv, StrandInv, ResetStep PROVE StrandInv'
  <1>1. /\ todo # <<>> /\ Calm /\ ~Doing("select") /\ todo' = Tail(todo)
        /\ event' = [event EXCEPT ![Head(todo).obj] = FALSE]
        /\ UNCHANGED <<units, mcount, mowner, queue, wait, pc, call, system_apc, user_apc, suspend>>
    BY DEF ResetStep, Doing, Calm, client, stops, apcs
  <1>2. WakesOK(todo)'
    BY <1>1, CalmTodo, ServerParts DEF StrandInv
  <1>3. \A x \in Threads : Eases(x)
    BY <1>1, SameKeeps, KeepsEases DEF Suspended
  <1>4. \A x \in Threads : Fades(x, {})
    <2>1. event \in [Objs -> BOOLEAN]
      BY ServerParts DEF ObjectsInv
    <2>2. \A o \in Objs : event'[o] => event[o]
      BY <1>1, <2>1
    <2> QED BY <1>1, <2>2 DEF Fades, Lights, Signaled
  <1>5. ASSUME NEW x \in Threads PROVE QueuedOK(x)'
    <2>1. \A o : Queued(o, x)' <=> Queued(o, x)
      BY <1>1 DEF Queued
    <2>2. HasWait(x, "call")' <=> HasWait(x, "call")
      BY <1>1 DEF HasWait
    <2> QED BY <1>1, <2>1, <2>2, QueuedKept DEF StrandInv
  <1>6. ASSUME NEW x \in Threads, Eases(x) PROVE WantingOK(x)'
    BY <1>1, <1>4, <1>6, FadesWanting, CalmNone DEF WantingOK
  <1> QED BY <1>1, <1>2, <1>3, <1>5, <1>6, FromCalm

LEMMA AbandonStepStrand == ASSUME ServerInv, StrandInv, AbandonStep PROVE StrandInv'
  <1> DEFINE d == Head(todo).thread
             owned == {o \in Objs : mowner[o] = d}
  <1>1. /\ todo # <<>> /\ Calm /\ ~Doing("select")
        /\ UNCHANGED <<queue, wait, pc, call, system_apc, user_apc, suspend>>
    BY DEF AbandonStep, Doing, Calm, client, stops, apcs
  <1>3. \A x \in Threads : Eases(x)
    BY <1>1, SameKeeps, KeepsEases DEF Suspended
  <1>5. ASSUME NEW x \in Threads PROVE QueuedOK(x)'
    <2>1. \A o : Queued(o, x)' <=> Queued(o, x)
      BY <1>1 DEF Queued
    <2>2. HasWait(x, "call")' <=> HasWait(x, "call")
      BY <1>1 DEF HasWait
    <2> QED BY <1>1, <2>1, <2>2, QueuedKept DEF StrandInv
  <1>6. CASE owned = {}
    <2>1. todo' = Tail(todo) /\ UNCHANGED <<units, mcount, mowner, event>>
      BY <1>6 DEF AbandonStep, objects
    <2>2. WakesOK(todo)'
      BY <1>1, <2>1, CalmTodo, ServerParts DEF StrandInv
    <2>3. ASSUME NEW x \in Threads, Eases(x) PROVE WantingOK(x)'
      BY <1>1, <2>1, <2>3, SameFades, FadesWanting, CalmNone DEF WantingOK
    <2> QED BY <1>1, <1>3, <1>5, <2>2, <2>3, FromCalm
  <1>7. CASE owned # {}
    <2>1. PICK o \in owned : /\ mcount' = [mcount EXCEPT ![o] = 0] /\ mowner' = [mowner EXCEPT ![o] = NoOne]
                             /\ todo' = <<WakeUp(o, 0)>> \o todo /\ UNCHANGED <<units, event>>
      BY <1>7 DEF AbandonStep
    <2>2. o \in Objs /\ todo \in Seq(Items)
      BY ServerParts
    <2>3. WakeUp(o, 0) \in Items /\ WakeUp(o, 0).do = "wake_up"
      BY <2>2 DEF Items, WakeUp
    <2>4. WakesOK(todo)'
      <3>1. WakesOK(<<WakeUp(o, 0)>> \o todo)
        BY <1>1, <2>2, <2>3, CalmTodo DEF StrandInv
      <3> QED BY <2>1, <3>1
    <2>5. WakeAt(todo', o, 0)
      <3>1. Len(todo') = Len(todo) + 1 /\ todo'[1] = WakeUp(o, 0) /\ Len(todo) \in Nat
        BY <2>1, <2>2, <2>3, Cons
      <3>2. 1 \in 1..Len(todo')
        BY <3>1
      <3> QED BY <3>1, <3>2 DEF WakeAt
    <2>6. ASSUME NEW x \in Threads PROVE Fades(x, {o})
      <3>1. mcount \in [Objs -> 0..MaxRec] /\ mowner \in [Objs -> Threads \cup {NoOne}]
        BY ServerParts DEF ObjectsInv
      <3>2. \A p \in Objs \ {o} : mcount'[p] = mcount[p] /\ mowner'[p] = mowner[p] /\ units'[p] = units[p] /\ event'[p] = event[p]
        BY <2>1, <3>1
      <3> QED BY <3>2 DEF Fades, Lights, Signaled
    <2>7. ASSUME NEW x \in Threads, Eases(x) PROVE WantingOK(x)'
      <3>1. CASE Wanting(x)'
        <4>1. Queued(o, x)'
          BY <1>1, <1>5, <2>2, <2>6, <2>7, <3>1, LitQueued
        <4> QED BY <2>2, <2>5, <4>1, ServedAll
      <3>2. CASE ~Wanting(x)'
        BY <3>2 DEF WantingOK
      <3> QED BY <3>1, <3>2
    <2> QED BY <1>1, <1>3, <1>5, <2>4, <2>7, FromCalm
  <1> QED BY <1>6, <1>7

-----------------------------------------------------------------------------
(* wake_up and wake_thread.                                                *)

LEMMA OnlyLit ==
  ASSUME ServerInv, NEW t \in Threads, ~IsKeyed(call[t]), NEW o
  PROVE  /\ Only(t, o) /\ Ready(t) # {} =>
               Signaled(o, t) /\ \E k \in 1..Len(WaitObjs(call[t])) : WaitObjs(call[t])[k] = o
         /\ call'[t] = call[t] /\ Only(t, o)' /\ Ready(t)' # {} => Lights(o, t)
  <1> DEFINE s == WaitObjs(call[t])
  <1>1. /\ s \in Seq(Objs)
        /\ call[t].fn = "wait_all" => Ready(t) = IF \A k \in 1..Len(s) : Signaled(s[k], t) THEN {1} ELSE {}
        /\ call[t].fn # "wait_all" => Ready(t) = {k \in 1..Len(s) : Signaled(s[k], t)}
    BY ReadyFacts
  <1>2. Only(t, o) <=> IF call[t].fn = "wait_all" THEN \E k \in 1..Len(s) : s[k] = o ELSE \A k \in Ready(t) : s[k] = o
    BY DEF Only
  <1> HIDE DEF s, Signaled, Ready, Only, Lights
  <1>3. ASSUME Only(t, o), Ready(t) # {} PROVE Signaled(o, t) /\ \E k \in 1..Len(s) : s[k] = o
    <2>1. CASE call[t].fn = "wait_all"
      BY <1>1, <1>2, <1>3, <2>1
    <2>2. CASE call[t].fn # "wait_all"
      BY <1>1, <1>2, <1>3, <2>2
    <2> QED BY <2>1, <2>2
  <1>4. ASSUME call'[t] = call[t], Only(t, o)', Ready(t)' # {} PROVE Lights(o, t)
    <2>1. /\ WaitObjs(call'[t]) = s
          /\ call[t].fn = "wait_all" => Ready(t)' = IF \A k \in 1..Len(s) : Lights(s[k], t) THEN {1} ELSE {}
          /\ call[t].fn # "wait_all" => Ready(t)' = {k \in 1..Len(s) : Lights(s[k], t)}
      BY <1>4, ReadyNext DEF s
    <2>2. Only(t, o)' <=> IF call[t].fn = "wait_all" THEN \E k \in 1..Len(s) : s[k] = o ELSE \A k \in Ready(t)' : s[k] = o
      BY <1>4, <2>1 DEF Only
    <2>3. CASE call[t].fn = "wait_all"
      BY <1>4, <2>1, <2>2, <2>3
    <2>4. CASE call[t].fn # "wait_all"
      BY <1>4, <2>1, <2>2, <2>4
    <2> QED BY <2>3, <2>4
  <1> QED BY <1>3, <1>4 DEF s

\* Only what is left to do changes.
LEMMA OnlyTodo ==
  ASSUME ServerInv, StrandInv,
         UNCHANGED <<units, mcount, mowner, event, queue, wait, pc, call, suspend, system_apc, user_apc>>
  PROVE  /\ \A x \in Threads : QueuedOK(x)' /\ (Nudged(x)' => Nudged(x))
         /\ \A x, u \in Threads : Meet(x, u)' => Meet(x, u)
         /\ \A x \in Threads : Wanting(x)' => Wanting(x) /\ \A o : Only(x, o) => Only(x, o)'
         /\ \A x \in Threads : \A o : Grabs(x, o) => Grabs(x, o)'
         /\ \A x, o : Queued(o, x)' <=> Queued(o, x)
         /\ \A o, n : Spare(o, n)' <=> Spare(o, n)
  <1>1. \A x \in Threads : Keeps(x) /\ Eases(x) /\ Fades(x, {})
    BY SameKeeps, KeepsEases, SameFades DEF Suspended
  <1>2. \A x, o : Queued(o, x)' <=> Queued(o, x)
    BY DEF Queued
  <1>3. ASSUME NEW x \in Threads PROVE QueuedOK(x)'
    <2>1. HasWait(x, "call")' <=> HasWait(x, "call")
      BY DEF HasWait
    <2> QED BY <1>2, <2>1, QueuedKept DEF StrandInv
  <1>4. ASSUME NEW x \in Threads, NEW o, Grabs(x, o) PROVE Grabs(x, o)'
    <2>1. ~IsKeyed(call[x]) /\ Exposed(x) /\ ~Suspended(x) /\ system_apc[x] = <<>> /\ Ready(x) # {}
          /\ o \in Takes(x, [status |-> "object", index |-> First(Ready(x))])
      BY <1>4 DEF Grabs
    <2>2. Ready(x)' = Ready(x) /\ o \in Takes(x, [status |-> "object", index |-> First(Ready(x))])'
      BY <2>1, SameReady
    <2>3. Exposed(x)' /\ ~Suspended(x)' /\ system_apc'[x] = <<>>
      BY <1>1, <2>1, KeepsFacts DEF Suspended
    <2> QED BY <2>1, <2>2, <2>3 DEF Grabs, IsKeyed
  <1>5. \A o, n : Spare(o, n)' <=> Spare(o, n)
    BY DEF Spare
  <1> QED BY <1>1, <1>2, <1>3, <1>4, <1>5, EasesNudged, EasesMeet, FadesWanting

NoWake(s) == \A k \in 1..Len(s) : s[k].do \notin {"wake_thread", "wake_up"}

LEMMA WakesCons ==
  ASSUME NEW r \in Seq(Items), NoWake(r), NEW a \in Items, a.do = "wake_thread", NEW b \in Items, b.do = "wake_up"
  PROVE  /\ WakesOK(r)
         /\ WakesOK(<<a>> \o r) /\ <<a>> \o r # <<>> /\ Head(<<a>> \o r) = a
         /\ LET s == <<a>> \o (<<b>> \o r)
            IN  WakesOK(s) /\ s # <<>> /\ Head(s) = a /\ 2 \in 1..Len(s) /\ s[2] = b
  <1> DEFINE p == <<b>> \o r
             s == <<a>> \o p
             q == <<a>> \o r
  <1>1. /\ p \in Seq(Items) /\ Len(p) = Len(r) + 1 /\ p[1] = b
        /\ \A k \in 2..Len(p) : k - 1 \in 1..Len(r) /\ p[k] = r[k - 1]
    BY Cons
  <1>2. /\ q \in Seq(Items) /\ Len(q) = Len(r) + 1 /\ q[1] = a
        /\ \A k \in 2..Len(q) : k - 1 \in 1..Len(r) /\ q[k] = r[k - 1]
    BY Cons
  <1> HIDE DEF p
  <1>3. /\ s \in Seq(Items) /\ Len(s) = Len(p) + 1 /\ s[1] = a
        /\ \A k \in 2..Len(s) : k - 1 \in 1..Len(p) /\ s[k] = p[k - 1]
    BY <1>1, Cons
  <1>4. Len(r) \in Nat
    OBVIOUS
  <1> HIDE DEF s, q
  <1>5. q # <<>> /\ Head(q) = a /\ s # <<>> /\ Head(s) = a
    <2>1. q # <<>> /\ s # <<>>
      BY <1>1, <1>2, <1>3, <1>4
    <2> QED BY <1>2, <1>3, <2>1, HeadTail
  <1>6. WakesOK(q)
    <2> SUFFICES ASSUME NEW k \in 1..Len(q), k # 1 PROVE q[k].do \notin {"wake_thread", "wake_up"}
      BY <1>2 DEF WakesOK
    <2>1. k \in 2..Len(q)
      BY <1>2, <1>4
    <2> QED BY <1>2, <2>1 DEF NoWake
  <1>7. 2 \in 1..Len(s) /\ s[2] = b
    <2>1. 2 \in 2..Len(s) /\ 2 \in 1..Len(s)
      BY <1>1, <1>3, <1>4
    <2>2. s[2] = p[2 - 1]
      BY <1>3, <2>1
    <2> QED BY <1>1, <2>1, <2>2
  <1>8. WakesOK(s)
    <2>1. ASSUME NEW k \in 1..Len(s), k # 1, k # 2 PROVE s[k].do \notin {"wake_thread", "wake_up"}
      <3>1. k \in 2..Len(s)
        BY <1>1, <1>3, <1>4, <2>1
      <3>2. k - 1 \in 1..Len(p) /\ s[k] = p[k - 1]
        BY <1>3, <3>1
      <3>3. k - 1 \in 2..Len(p)
        BY <1>1, <1>4, <2>1, <3>1, <3>2
      <3>4. (k - 1) - 1 \in 1..Len(r) /\ p[k - 1] = r[(k - 1) - 1]
        BY <1>1, <3>3
      <3> QED BY <3>2, <3>4 DEF NoWake
    <2>2. s[1].do = "wake_thread" /\ s[2].do = "wake_up"
      BY <1>3, <1>7
    <2> QED BY <2>1, <2>2 DEF WakesOK
  <1>9. WakesOK(r)
    BY DEF NoWake, WakesOK
  <1> QED BY <1>5, <1>6, <1>7, <1>8, <1>9 DEF s, p, q

LEMMA RestQuiet ==
  ASSUME todo \in Seq(Items), todo # <<>>, WakesOK(todo), Head(todo).do = "wake_up"
  PROVE  /\ Tail(todo) \in Seq(Items) /\ NoWake(Tail(todo))
         /\ \A k \in 1..Len(todo) : todo[k].do = "wake_up" => todo[k] = Head(todo)
  <1>1. Head(todo) = todo[1] /\ Tail(todo) \in Seq(Items)
        /\ \A k \in 1..Len(Tail(todo)) : k + 1 \in 1..Len(todo) /\ Tail(todo)[k] = todo[k + 1]
    BY HeadTail
  <1>2. \A k \in 1..Len(todo) : todo[k].do \in {"wake_up", "wake_thread"} => k = 1
    BY <1>1 DEF WakesOK
  <1>3. \A k \in 1..Len(Tail(todo)) : Tail(todo)[k].do \notin {"wake_thread", "wake_up"}
    <2>1. \A k \in 1..Len(Tail(todo)) : k + 1 # 1
      OBVIOUS
    <2> QED BY <1>1, <1>2, <2>1
  <1> QED BY <1>1, <1>2, <1>3 DEF NoWake

LEMMA AllWakes ==
  ASSUME NEW x, NEW o, Queued(o, x)',
         \E k \in 1..Len(todo') : todo'[k].do = "wake_up" /\ todo'[k].max = 0 /\ todo'[k].obj = o
  PROVE  WakesAll(x)'
  BY DEF WakesAll, Queued

LEMMA WakeUpServes ==
  ASSUME ServerInv, StrandInv, WakesAreUsed, todo # <<>>, NEW w, w = Head(todo), w.do = "wake_up", NEW o, o = w.obj,
         NEW q, q = queue[o], NEW y, y = q[First(Able(o))][1], NEW r, r = Tail(todo),
         NEW b, b = [w EXCEPT !.max = IF @ = 0 THEN 0 ELSE @ - 1],
         todo' = IF Able(o) = {} THEN r ELSE <<WakeThread(y)>> \o (IF w.max = 1 THEN r ELSE <<b>> \o r),
         UNCHANGED <<units, mcount, mowner, event, queue, wait, pc, call, suspend, system_apc, user_apc>>
  PROVE  StrandInv'
  <1>1. /\ todo # <<>> /\ w.do = "wake_up" /\ ~Doing("select")
        /\ UNCHANGED <<units, mcount, mowner, event, queue, wait, pc, call, suspend, system_apc, user_apc>>
    BY DEF Doing
  <1>2. Able(o) = {k \in DOMAIN q : CanEnd(q[k][1])}
    BY DEF Able
  <1>3. todo' = IF Able(o) = {} THEN r ELSE <<WakeThread(y)>> \o (IF w.max = 1 THEN r ELSE <<b>> \o r)
    OBVIOUS
  <1>4. todo \in Seq(Items) /\ TodoInv /\ WakesOK(todo) /\ queue \in [Objs -> Seq(Threads \X Nat)]
    BY ServerParts DEF StrandInv, StateInv
  <1>5. /\ r \in Seq(Items) /\ NoWake(r) /\ w \in Items /\ o \in Objs
        /\ \A k \in 1..Len(todo) : todo[k].do = "wake_up" => todo[k] = w
    <2>1. w \in Items /\ IsItem(w)
      <3>1. w = todo[1] /\ w \in Items /\ 1 \in 1..Len(todo)
        BY <1>1, <1>4, HeadTail
      <3> QED BY <1>4, <3>1 DEF TodoInv
    <2> QED BY <1>1, <1>4, <2>1, RestQuiet DEF IsItem
  <1>6. q \in Seq(Threads \X Nat) /\ DOMAIN q = 1..Len(q)
    BY <1>4, <1>5
  <1>7. ASSUME Able(o) # {} PROVE First(Able(o)) \in Able(o) /\ y \in Threads /\ CanEnd(y)
    <2>1. Able(o) \in SUBSET Nat
      BY <1>2, <1>6
    <2>2. First(Able(o)) \in Able(o)
      BY <1>7, <2>1, FirstIn
    <2> QED BY <1>2, <1>6, <2>2
  <1>8. /\ w.max \in Nat /\ b \in Items /\ b.do = "wake_up" /\ b.obj = o
        /\ b.max = IF w.max = 0 THEN 0 ELSE w.max - 1
    <2>1. w.max \in Nat /\ w = [do |-> w.do, obj |-> w.obj, max |-> w.max, thread |-> w.thread]
      BY <1>5 DEF Items
    <2>2. b = [do |-> w.do, obj |-> w.obj, max |-> IF w.max = 0 THEN 0 ELSE w.max - 1, thread |-> w.thread]
      BY <2>1
    <2>3. (IF w.max = 0 THEN 0 ELSE w.max - 1) \in Nat
      BY <2>1
    <2> QED BY <1>1, <1>5, <2>1, <2>2, <2>3 DEF Items
  <1>9. ASSUME Able(o) # {} PROVE WakeThread(y) \in Items /\ WakeThread(y).do = "wake_thread" /\ WakeThread(y).thread = y
    BY <1>7, <1>9 DEF Items, WakeThread
  <1>10. /\ WakesOK(todo)'
         /\ Able(o) # {} => /\ Heads(WakeThread(y))'
                            /\ w.max # 1 => 2 \in 1..Len(todo') /\ todo'[2] = b
    <2>1. CASE Able(o) = {}
      <3>1. WakesOK(r)
        BY <1>5 DEF NoWake, WakesOK
      <3> QED BY <1>3, <2>1, <3>1
    <2>2. CASE Able(o) # {}
      <3> DEFINE a == WakeThread(y)
      <3>1. a \in Items /\ a.do = "wake_thread"
        BY <1>9, <2>2
      <3> HIDE DEF a
      <3>2. /\ WakesOK(<<a>> \o r) /\ <<a>> \o r # <<>> /\ Head(<<a>> \o r) = a
            /\ WakesOK(<<a>> \o (<<b>> \o r)) /\ <<a>> \o (<<b>> \o r) # <<>> /\ Head(<<a>> \o (<<b>> \o r)) = a
            /\ 2 \in 1..Len(<<a>> \o (<<b>> \o r)) /\ (<<a>> \o (<<b>> \o r))[2] = b
        <4>1. ASSUME NEW R \in Seq(Items), NoWake(R), NEW B \in Items, B.do = "wake_up"
              PROVE  /\ WakesOK(<<a>> \o R) /\ <<a>> \o R # <<>> /\ Head(<<a>> \o R) = a
                     /\ WakesOK(<<a>> \o (<<B>> \o R)) /\ <<a>> \o (<<B>> \o R) # <<>> /\ Head(<<a>> \o (<<B>> \o R)) = a
                     /\ 2 \in 1..Len(<<a>> \o (<<B>> \o R)) /\ (<<a>> \o (<<B>> \o R))[2] = B
          BY <3>1, <4>1, WakesCons
        <4>2. r \in Seq(Items) /\ NoWake(r) /\ b \in Items /\ b.do = "wake_up"
          BY <1>5, <1>8
        <4> QED BY <4>1, <4>2
      <3>3. todo' = IF w.max = 1 THEN <<a>> \o r ELSE <<a>> \o (<<b>> \o r)
        BY <1>3, <2>2 DEF a
      <3>4. WakesOK(todo') /\ todo' # <<>> /\ Head(todo') = a /\ (w.max # 1 => 2 \in 1..Len(todo') /\ todo'[2] = b)
        BY <3>2, <3>3
      <3>5. Heads(WakeThread(y))'
        BY <3>4 DEF Heads, a
      <3> QED BY <2>2, <3>4, <3>5
    <2> QED BY <2>1, <2>2
  <1>11. /\ \A x \in Threads : QueuedOK(x)' /\ ~Nudged(x)'
         /\ \A x, u \in Threads : ~Meet(x, u)'
    <2>1. \A z : ~Heads(WakeThread(z)) /\ ~Heads(EndSelect(z))
      BY <1>1 DEF Heads, WakeThread, EndSelect
    <2>2. (\A x \in Threads : ~Nudged(x)) /\ \A x, u \in Threads : ~Meet(x, u)
      BY <2>1 DEF StrandInv, NudgedOK, MeetOK
    <2> QED BY <1>1, <2>2, OnlyTodo
  <1>12. ASSUME NEW x \in Threads, Wanting(x)' PROVE WantingOK(x)'
    <2>1. Wanting(x) /\ \A p : Only(x, p) => Only(x, p)'
      BY <1>1, <1>12, OnlyTodo
    <2>2. CallSleeps(x) /\ Exposed(x) /\ HasWait(x, "call") /\ ~Suspended(x) /\ ~IsKeyed(call[x]) /\ Ready(x) # {}
      BY <2>1 DEF Wanting, CallSleeps, Exposed
    <2>3. CanEnd(x)
      BY <1>1, <2>2, ReadyEnds, NoneHidden
    <2>4. \/ WakesAll(x)
          \/ \E p \in Objs : Only(x, p) /\ WakesSome(p, 0)
      <3>1. ~Heads(WakeThread(x)) /\ \A p : ~WakesTaker(p)
        BY <1>1 DEF Heads, WakeThread, WakesTaker
      <3> QED BY <2>1, <3>1 DEF StrandInv, WantingOK
    <2>5. ASSUME Queued(o, x) PROVE \E k \in Able(o) : q[k][1] = x
      <3>1. PICK k \in 1..Len(q) : q[k][1] = x
        BY <2>5 DEF Queued
      <3> QED BY <1>2, <1>6, <2>3, <3>1
    <2>6. CASE WakesAll(x)
      <3>1. w.max = 0 /\ Queued(o, x)
        BY <1>5, <2>6 DEF WakesAll
      <3>2. Able(o) # {}
        BY <2>5, <3>1
      <3>3. 2 \in 1..Len(todo') /\ todo'[2] = b /\ b.max = 0
        BY <1>8, <1>10, <3>1, <3>2
      <3>4. Queued(o, x)'
        BY <1>1, <3>1, OnlyTodo
      <3>5. todo'[2].do = "wake_up" /\ todo'[2].max = 0 /\ todo'[2].obj = o
        BY <1>8, <3>3
      <3>6. WakesAll(x)'
        <4>1. \E k \in 1..Len(todo') : todo'[k].do = "wake_up" /\ todo'[k].max = 0 /\ todo'[k].obj = o
          BY <3>3, <3>5
        <4> QED BY <3>4, <4>1, AllWakes
      <3> QED BY <3>6 DEF WantingOK
    <2>7. ASSUME NEW p \in Objs, Only(x, p), WakesSome(p, 0) PROVE WantingOK(x)'
      <3>1. p = o /\ w.max # 0 /\ Spare(o, w.max)
        <4>1. PICK k \in 1..Len(todo) : todo[k].do = "wake_up" /\ todo[k].max # 0 /\ todo[k].obj = p /\ Spare(p, todo[k].max + 0)
          BY <2>7 DEF WakesSome
        <4>2. todo[k] = w
          BY <1>5, <4>1
        <4>3. p = o /\ w.max # 0 /\ Spare(o, w.max + 0) /\ w.max + 0 = w.max
          BY <1>8, <4>1, <4>2
        <4> QED BY <4>3
      <3>2. Signaled(o, x) /\ \E k \in 1..Len(WaitObjs(call[x])) : WaitObjs(call[x])[k] = o
        BY <2>2, <2>7, <3>1, OnlyLit
      <3>3. Queued(o, x)
        <4>1. QueuedOK(x)
          BY DEF StrandInv
        <4> QED BY <2>2, <3>2, <4>1 DEF QueuedOK
      <3>4. PICK k \in Able(o) : q[k][1] = x
        BY <2>5, <3>3
      <3>5. Lit(o)
        BY <3>1, <3>2 DEF Spare, Signaled, Lit
      <3>6. o \in Takes(y, CheckWait(y)) \/ \A j \in Able(o) : q[j][1] = y
        <4>1. Doing("wake_up") /\ Head(todo).max # 0
          BY <1>1, <3>1 DEF Doing
        <4> QED BY <3>4, <3>5, <4>1 DEF WakesAreUsed
      <3>7. CASE \A j \in Able(o) : q[j][1] = y
        <4>1. x = y
          BY <3>4, <3>7
        <4>2. Heads(WakeThread(x))'
          BY <1>10, <3>4, <4>1
        <4> QED BY <4>2 DEF WantingOK
      <3>8. CASE o \in Takes(y, CheckWait(y))
        <4>1. y \in Threads /\ CanEnd(y)
          BY <1>7, <3>4
        <4>2. Grabs(y, o)'
          <5>1. Grabs(y, o)
            BY <3>8, <4>1, TakesGrabs
          <5> QED BY <1>1, <4>1, <5>1, OnlyTodo
        <4>3. todo' # <<>> /\ Head(todo').do = "wake_thread" /\ Head(todo').thread = y
          BY <1>10, <3>4 DEF Heads, WakeThread
        <4>4. Spare(o, 1)' \/ WakesSome(o, 1)'
          <5>1. CASE w.max = 1
            BY <1>1, <3>1, <5>1, OnlyTodo
          <5>2. CASE w.max # 1
            <6>1. 2 \in 1..Len(todo') /\ todo'[2] = b
              BY <1>10, <3>4, <5>2
            <6>2. b.max # 0 /\ b.max + 1 = w.max
              BY <1>8, <3>1, <5>2
            <6>3. Spare(o, b.max + 1)'
              <7>1. Spare(o, w.max)'
                BY <1>1, <3>1, OnlyTodo
              <7> QED BY <6>2, <7>1 DEF Spare
            <6>4. todo'[2].do = "wake_up" /\ todo'[2].max = b.max /\ todo'[2].obj = o
              BY <1>8, <6>1
            <6> QED BY <6>1, <6>2, <6>3, <6>4 DEF WakesSome, Spare
          <5> QED BY <5>1, <5>2
        <4>5. Grabs(Head(todo).thread, o)'
          BY <4>2, <4>3 DEF Grabs
        <4>6. WakesTaker(o)'
          BY <4>3, <4>4, <4>5 DEF WakesTaker
        <4>7. Only(x, o)' /\ o \in Objs
          BY <1>5, <2>1, <2>7, <3>1
        <4> QED BY <4>6, <4>7 DEF WantingOK
      <3> QED BY <3>6, <3>7, <3>8
    <2> QED BY <2>4, <2>6, <2>7
  <1>13. \A x \in Threads : NudgedOK(x)' /\ WantingOK(x)'
    BY <1>11, <1>12 DEF NudgedOK, WantingOK
  <1>14. \A x, u \in Threads : MeetOK(x, u)'
    BY <1>11 DEF MeetOK
  <1> QED BY <1>10, <1>11, <1>13, <1>14 DEF StrandInv

LEMMA WakeUpStepStrand == ASSUME ServerInv, StrandInv, WakesAreUsed, WakeUpStep PROVE StrandInv'
  <1> DEFINE w == Head(todo)
             o == w.obj
             q == queue[o]
             y == q[First(Able(o))][1]
             b == [w EXCEPT !.max = IF @ = 0 THEN 0 ELSE @ - 1]
             r == Tail(todo)
  <1>1. /\ todo # <<>> /\ w.do = "wake_up"
        /\ UNCHANGED <<units, mcount, mowner, event, queue, wait, pc, call, suspend, system_apc, user_apc>>
    BY DEF WakeUpStep, Doing, objects, stops, apcs, client
  <1>2. Able(o) = {k \in DOMAIN q : CanEnd(q[k][1])}
    BY DEF Able
  <1>3. todo' = IF Able(o) = {} THEN r ELSE <<WakeThread(y)>> \o (IF w.max = 1 THEN r ELSE <<b>> \o r)
    BY <1>2 DEF WakeUpStep
  <1> QED BY <1>1, <1>3, WakeUpServes

LEMMA ThreadHead ==
  ASSUME ServerInv, StrandInv, Doing("wake_thread"), NEW t, t = Head(todo).thread
  PROVE  /\ t \in Threads /\ todo # <<>> /\ ~Doing("select") /\ Head(todo) = todo[1] /\ todo[1].do = "wake_thread"
         /\ \A z : ~Heads(EndSelect(z))
         /\ \A x : Heads(WakeThread(x)) => x = t
         /\ \A x \in Threads : pc[x]["suspend"] # "server"
         /\ \A k \in 1..Len(todo) : todo[k].do = "wake_up" => k # 1 /\ todo[k].obj \in Objs /\ todo[k].max \in Nat
  <1>1. todo # <<>> /\ Head(todo).do = "wake_thread" /\ ~Doing("select")
    BY DEF Doing
  <1>2. todo \in Seq(Items) /\ TodoInv
    BY ServerParts
  <1>3. Head(todo) = todo[1] /\ 1 \in 1..Len(todo)
    BY <1>1, <1>2, HeadTail
  <1>4. t \in Threads
    BY <1>1, <1>2, <1>3 DEF TodoInv, IsItem
  <1>5. \A k \in 1..Len(todo) : todo[k].do = "wake_up" => k # 1 /\ todo[k].obj \in Objs /\ todo[k].max \in Nat
    <2> SUFFICES ASSUME NEW k \in 1..Len(todo), todo[k].do = "wake_up"
                 PROVE  k # 1 /\ todo[k].obj \in Objs /\ todo[k].max \in Nat
      OBVIOUS
    <2>1. k # 1
      BY <1>1, <1>3
    <2>2. todo[k] \in Items /\ IsItem(todo[k])
      BY <1>2 DEF TodoInv
    <2> QED BY <2>1, <2>2 DEF Items, IsItem
  <1>6. (\A z : ~Heads(EndSelect(z))) /\ \A x : Heads(WakeThread(x)) => x = t
    BY <1>1 DEF Heads, EndSelect, WakeThread
  <1> QED BY <1>1, <1>3, <1>4, <1>5, <1>6, NoneHidden

LEMMA SomeWakes ==
  ASSUME NEW o, NEW n, NEW m, Spare(o, m + n)', m # 0,
         \E k \in 1..Len(todo') : todo'[k].do = "wake_up" /\ todo'[k].max = m /\ todo'[k].obj = o
  PROVE  WakesSome(o, n)'
  BY DEF WakesSome, Spare

\* Nothing more is to be ended for the thread.
LEMMA WakeThreadDone ==
  ASSUME ServerInv, StrandInv, Doing("wake_thread"), NEW t, t = Head(todo).thread, ~CanEnd(t), todo' = Tail(todo),
         UNCHANGED <<units, mcount, mowner, event, queue, wait, pc, call, suspend, system_apc, user_apc>>
  PROVE  StrandInv'
  <1>1. /\ t \in Threads /\ todo # <<>> /\ ~Doing("select") /\ Head(todo) = todo[1] /\ todo[1].do = "wake_thread"
        /\ (\A z : ~Heads(EndSelect(z)))
        /\ \A x : Heads(WakeThread(x)) => x = t
        /\ \A x \in Threads : pc[x]["suspend"] # "server"
        /\ \A k \in 1..Len(todo) : todo[k].do = "wake_up" => k # 1 /\ todo[k].obj \in Objs /\ todo[k].max \in Nat
    BY ThreadHead
  <1>2. /\ \A k \in 1..Len(todo') : k + 1 \in 1..Len(todo) /\ todo'[k] = todo[k + 1]
        /\ \A k \in 1..Len(todo) : k # 1 => k - 1 \in 1..Len(todo') /\ todo'[k - 1] = todo[k]
    <2>1. todo \in Seq(Items)
      BY ServerParts
    <2>2. /\ Len(todo) \in Nat /\ Len(todo') = Len(todo) - 1
          /\ \A k \in 1..Len(todo') : k + 1 \in 1..Len(todo) /\ todo'[k] = todo[k + 1]
      BY <1>1, <2>1, HeadTail
    <2>3. ASSUME NEW k \in 1..Len(todo), k # 1 PROVE k - 1 \in 1..Len(todo') /\ todo'[k - 1] = todo[k]
      <3>1. k - 1 \in 1..Len(todo') /\ (k - 1) + 1 = k
        BY <2>2, <2>3
      <3> QED BY <2>2, <3>1
    <2> QED BY <2>2, <2>3
  <1>3. WakesOK(todo)'
    <2>1. ASSUME NEW k \in 1..Len(todo') PROVE todo'[k].do # "wake_thread" /\ (todo'[k].do = "wake_up" => k = 1)
      <3>1. k \in Nat /\ k # 0 /\ k + 1 # 1 /\ (k + 1 = 2 => k = 1)
        OBVIOUS
      <3>2. k + 1 \in 1..Len(todo) /\ todo'[k] = todo[k + 1]
        BY <1>2
      <3> QED BY <3>1, <3>2 DEF StrandInv, WakesOK
    <2> QED BY <2>1 DEF WakesOK
  <1>4. ASSUME NEW x \in Threads PROVE ~Nudged(x)'
    BY <1>1, OnlyTodo, NudgedEnds DEF StrandInv, NudgedOK
  <1>5. ASSUME NEW x \in Threads, NEW u \in Threads, Meet(x, u)' PROVE FALSE
    <2>1. Meet(x, u) /\ Meet(u, x)
      BY <1>5, OnlyTodo, MeetSym
    <2>2. CanEnd(x) /\ CanEnd(u)
      BY <1>1, <2>1, MeetEnds DEF StrandInv
    <2> QED BY <1>1, <2>1, <2>2 DEF StrandInv, MeetOK
  <1>6. ASSUME NEW x \in Threads, Wanting(x)' PROVE WantingOK(x)'
    <2>1. Wanting(x) /\ \A o : Only(x, o) => Only(x, o)'
      BY <1>6, OnlyTodo
    <2>2. CanEnd(x)
      <3>1. Exposed(x) /\ ~Suspended(x) /\ Ready(x) # {}
        BY <2>1 DEF Wanting, CallSleeps
      <3> QED BY <1>1, <3>1, ReadyEnds
    <2>3. ~Heads(WakeThread(x)) /\ \A o : ~WakesTaker(o)
      <3>1. \A o : Grabs(t, o) => CanEnd(t)
        BY <1>1, GrabsEnds
      <3> QED BY <1>1, <2>2, <3>1 DEF WakesTaker
    <2>4. WakesAll(x) \/ \E o \in Objs : Only(x, o) /\ WakesSome(o, 0)
      BY <2>1, <2>3 DEF StrandInv, WantingOK
    <2>5. CASE WakesAll(x)
      <3>1. PICK k \in 1..Len(todo) : todo[k].do = "wake_up" /\ todo[k].max = 0 /\ Queued(todo[k].obj, x)
        BY <2>5 DEF WakesAll
      <3>2. PICK o : o = todo[k].obj
        OBVIOUS
      <3>3. Queued(o, x)'
        BY <3>1, <3>2, OnlyTodo
      <3>4. \E j \in 1..Len(todo') : todo'[j].do = "wake_up" /\ todo'[j].max = 0 /\ todo'[j].obj = o
        <4>1. k - 1 \in 1..Len(todo') /\ todo'[k - 1] = todo[k]
          BY <1>1, <1>2, <3>1
        <4> QED BY <3>1, <3>2, <4>1
      <3>5. WakesAll(x)'
        BY <3>3, <3>4, AllWakes
      <3> QED BY <3>5 DEF WantingOK
    <2>6. ASSUME NEW o \in Objs, Only(x, o), WakesSome(o, 0) PROVE WantingOK(x)'
      <3>1. PICK k \in 1..Len(todo) : todo[k].do = "wake_up" /\ todo[k].max # 0 /\ todo[k].obj = o /\ Spare(o, todo[k].max + 0)
        BY <2>6 DEF WakesSome
      <3>2. PICK m : m = todo[k].max
        OBVIOUS
      <3>3. Spare(o, m + 0)'
        BY <3>1, <3>2, OnlyTodo
      <3>4. \E j \in 1..Len(todo') : todo'[j].do = "wake_up" /\ todo'[j].max = m /\ todo'[j].obj = o
        <4>1. k - 1 \in 1..Len(todo') /\ todo'[k - 1] = todo[k]
          BY <1>1, <1>2, <3>1
        <4> QED BY <3>1, <3>2, <4>1
      <3>5. WakesSome(o, 0)'
        BY <3>1, <3>2, <3>3, <3>4, SomeWakes
      <3> QED BY <2>1, <2>6, <3>5 DEF WantingOK
    <2> QED BY <2>4, <2>5, <2>6
  <1>7. \A x \in Threads : QueuedOK(x)' /\ NudgedOK(x)' /\ WantingOK(x)'
    BY <1>4, <1>6, OnlyTodo DEF NudgedOK, WantingOK
  <1>8. \A x, u \in Threads : MeetOK(x, u)'
    BY <1>5 DEF MeetOK
  <1> QED BY <1>3, <1>7, <1>8 DEF StrandInv

\* A wait of the thread ends, and it is looked at again.
LEMMA WakeThreadEnds ==
  ASSUME ServerInv, StrandInv, Doing("wake_thread"), NEW t, t = Head(todo).thread, CanEnd(t),
         EndWait(t, CheckWait(t)), UNCHANGED <<todo, pc, call, suspend, system_apc, user_apc>>
  PROVE  StrandInv'
  <1>1. /\ t \in Threads /\ todo # <<>> /\ ~Doing("select") /\ Head(todo) = todo[1] /\ todo[1].do = "wake_thread"
        /\ (\A z : ~Heads(EndSelect(z)))
        /\ \A x : Heads(WakeThread(x)) => x = t
        /\ \A x \in Threads : pc[x]["suspend"] # "server"
        /\ \A k \in 1..Len(todo) : todo[k].do = "wake_up" => k # 1 /\ todo[k].obj \in Objs /\ todo[k].max \in Nat
    BY ThreadHead
  <1>2. PICK v : v = CheckWait(t)
    OBVIOUS
  <1>3. /\ \A x \in Threads \ Ends(t, v) : wait'[x] = wait[x]
        /\ \A x \in Ends(t, v) \ {t} : ~HasWait(x, "call")' /\ ~HasWait(x, "suspend")'
        /\ \A f : HasWait(t, f)' <=> HasWait(t, f) /\ f # Head(wait[t]).frame
        /\ \A x \in Threads : \A o \in Objs : HasWait(x, "call")' /\ Queued(o, x) => Queued(o, x)'
        /\ \A x \in Threads : Fades(x, {})
        /\ \A o \in Objs : /\ Type[o] = "sem" => units'[o] <= units[o] /\ (o \in Takes(t, v) => units'[o] = units[o] - 1)
                           /\ Type[o] = "event" /\ ~Manual[o] /\ o \in Takes(t, v) => ~event'[o]
    BY <1>1, <1>2, EndStrand DEF CanEnd
  <1>4. \A x : Heads(WakeThread(x))' <=> Heads(WakeThread(x))
    BY DEF Heads, WakeThread
  <1>5. ASSUME NEW x \in Threads PROVE QueuedOK(x)' /\ (x # t => Eases(x))
    <2>1. CASE x \notin Ends(t, v) /\ x # t
      <3>1. \A f : HasWait(x, f)' <=> HasWait(x, f)
        BY <1>3, <2>1 DEF HasWait
      <3> QED BY <1>3, <3>1, SameEases, QueuedKept DEF StrandInv
    <2>2. CASE x \in Ends(t, v) /\ x # t
      BY <1>3, <2>2, SameEases, QueuedKept DEF StrandInv
    <2>3. CASE x = t
      BY <1>3, <2>3, QueuedKept DEF StrandInv
    <2> QED BY <2>1, <2>2, <2>3
  <1>6. Heads(WakeThread(t)) /\ Heads(WakeThread(t))'
    BY <1>1 DEF Heads, WakeThread
  <1>7. ASSUME NEW x \in Threads PROVE NudgedOK(x)'
    <2>1. CASE x = t
      BY <1>6, <2>1 DEF NudgedOK
    <2>2. CASE x # t
      BY <1>1, <1>5, <2>2, EasesNudged DEF StrandInv, NudgedOK
    <2> QED BY <2>1, <2>2
  <1>8. ASSUME NEW x \in Threads, NEW u \in Threads PROVE MeetOK(x, u)'
    <2>1. CASE x = t \/ u = t
      BY <1>6, <2>1 DEF MeetOK
    <2>2. CASE x # t /\ u # t
      BY <1>1, <1>5, <2>2, EasesMeet DEF StrandInv, MeetOK
    <2> QED BY <2>1, <2>2
  <1>9. ASSUME NEW x \in Threads, x # t, Wanting(x)' PROVE WantingOK(x)'
    <2>1. Wanting(x) /\ \A o : Only(x, o) => Only(x, o)'
      BY <1>3, <1>5, <1>9, FadesWanting
    <2>2. ~IsKeyed(call[x]) /\ call'[x] = call[x] /\ Ready(x)' # {} /\ HasWait(x, "call")'
      BY <1>5, <1>9, EasesWanting
    <2>3. WakesAll(x) \/ \E o \in Objs : Only(x, o) /\ (WakesSome(o, 0) \/ WakesTaker(o))
      BY <1>1, <1>9, <2>1 DEF StrandInv, WantingOK
    <2>4. CASE WakesAll(x)
      <3>1. PICK k \in 1..Len(todo) : todo[k].do = "wake_up" /\ todo[k].max = 0 /\ Queued(todo[k].obj, x)
        BY <2>4 DEF WakesAll
      <3>2. PICK o \in Objs : o = todo[k].obj
        BY <1>1, <3>1
      <3>3. Queued(o, x)'
        BY <1>3, <2>2, <3>1, <3>2
      <3>4. \E j \in 1..Len(todo') : todo'[j].do = "wake_up" /\ todo'[j].max = 0 /\ todo'[j].obj = o
        BY <3>1, <3>2
      <3>5. WakesAll(x)'
        BY <3>3, <3>4, AllWakes
      <3> QED BY <3>5 DEF WantingOK
    <2>5. ASSUME NEW o \in Objs, Only(x, o), WakesSome(o, 0) \/ WakesTaker(o) PROVE WantingOK(x)'
      <3>1. Lights(o, x) /\ Only(x, o)'
        BY <2>1, <2>2, <2>5, OnlyLit
      <3>2. /\ Type[o] = "sem" => units'[o] <= units[o] /\ (o \in Takes(t, v) => units'[o] = units[o] - 1)
            /\ Type[o] = "event" /\ ~Manual[o] /\ o \in Takes(t, v) => ~event'[o]
        BY <1>3
      <3>3. units[o] \in Nat /\ units'[o] \in Nat
        <4>1. ObjectsInv /\ ObjectsInv'
          BY <1>1, <1>2, EndFacts, ServerParts DEF CanEnd
        <4> QED BY <4>1 DEF ObjectsInv
      <3>4. ASSUME NEW n \in {0, 1}, WakesSome(o, n), n = 1 => o \in Takes(t, v) PROVE WakesSome(o, 0)'
        <4>1. PICK k \in 1..Len(todo) : todo[k].do = "wake_up" /\ todo[k].max # 0 /\ todo[k].obj = o /\ Spare(o, todo[k].max + n)
          BY <3>4 DEF WakesSome
        <4>2. PICK m \in Nat : m = todo[k].max
          BY <1>1, <4>1
        <4>3. Spare(o, m + n)
          BY <4>1, <4>2
        <4>4. Spare(o, m + 0)'
          <5>1. CASE Type[o] = "sem"
            <6>1. units[o] <= m + n
              BY <4>3, <5>1 DEF Spare
            <6>2. units'[o] <= m + 0
              <7>1. CASE n = 0
                BY <3>2, <3>3, <5>1, <6>1, <7>1
              <7>2. CASE n = 1
                BY <3>2, <3>3, <3>4, <5>1, <6>1, <7>2
              <7> QED BY <7>1, <7>2
            <6> QED BY <5>1, <6>2 DEF Spare
          <5>2. CASE Type[o] # "sem"
            BY <4>3, <5>2 DEF Spare
          <5> QED BY <5>1, <5>2
        <4>5. \E j \in 1..Len(todo') : todo'[j].do = "wake_up" /\ todo'[j].max = m /\ todo'[j].obj = o
          BY <4>1, <4>2
        <4> QED BY <4>1, <4>2, <4>4, <4>5, SomeWakes
      <3>5. CASE WakesSome(o, 0)
        BY <3>1, <3>4, <3>5 DEF WantingOK
      <3>6. CASE WakesTaker(o)
        <4>1. Grabs(t, o) /\ (Spare(o, 1) \/ WakesSome(o, 1))
          BY <3>6 DEF WakesTaker
        <4>2. o \in Takes(t, v)
          BY <1>1, <1>2, <4>1, GrabsEnds
        <4>3. ~Spare(o, 1)
          <5>1. CASE Type[o] = "sem"
            <6>1. units'[o] > 0
              BY <3>1, <5>1 DEF Lights
            <6>2. ~(units[o] <= 1)
              BY <3>2, <3>3, <4>2, <5>1, <6>1
            <6> QED BY <5>1, <6>2 DEF Spare
          <5>2. CASE Type[o] # "sem"
            BY <3>1, <3>2, <4>2, <5>2 DEF Lights, Spare
          <5> QED BY <5>1, <5>2
        <4>4. WakesSome(o, 0)'
          BY <3>4, <4>1, <4>2, <4>3
        <4> QED BY <3>1, <4>4 DEF WantingOK
      <3> QED BY <2>5, <3>5, <3>6
    <2> QED BY <2>3, <2>4, <2>5
  <1>10. WantingOK(t)'
    BY <1>6 DEF WantingOK
  <1>11. WakesOK(todo)'
    BY DEF StrandInv
  <1>12. \A x \in Threads : WantingOK(x)'
    BY <1>9, <1>10 DEF WantingOK
  <1> QED BY <1>5, <1>7, <1>8, <1>11, <1>12 DEF StrandInv

LEMMA WakeThreadStepStrand == ASSUME ServerInv, StrandInv, WakeThreadStep PROVE StrandInv'
  <1> DEFINE t == Head(todo).thread
  <1>1. Doing("wake_thread") /\ UNCHANGED <<suspend, system_apc, user_apc, pc, call>>
    BY DEF WakeThreadStep, apcs, client
  <1>2. CASE CanEnd(t)
    BY <1>1, <1>2, WakeThreadEnds DEF WakeThreadStep
  <1>3. CASE ~CanEnd(t)
    <2>1. todo' = Tail(todo) /\ UNCHANGED <<units, mcount, mowner, event, wait, queue>>
      BY <1>3 DEF WakeThreadStep, objects
    <2> QED BY <1>1, <1>3, <2>1, WakeThreadDone
  <1> QED BY <1>2, <1>3

-----------------------------------------------------------------------------
(* Select requests.                                                        *)

Pairs == Threads \X Nat
Entries(t, objs, o) == Keep([k \in DOMAIN objs |-> <<t, k>>], {k \in DOMAIN objs : objs[k] = o})

Listed(s, x) == \E j \in 1..Len(s) : s[j][1] = x

LEMMA EntriesAll ==
  ASSUME NEW t \in Threads, NEW objs \in Seq(Objs), NEW o \in Objs
  PROVE  /\ Entries(t, objs, o) \in Seq(Pairs)
         /\ \A j \in 1..Len(Entries(t, objs, o)) : Entries(t, objs, o)[j][1] = t
         /\ \A k \in 1..Len(objs) : objs[k] = o => Listed(Entries(t, objs, o), t)
  <1> DEFINE s == [k \in DOMAIN objs |-> <<t, k>>]
             K == {k \in DOMAIN objs : objs[k] = o}
  <1>2. Len(objs) \in Nat /\ DOMAIN objs = 1..Len(objs)
    OBVIOUS
  <1>3. \A k \in 1..Len(objs) : <<t, k>> \in Pairs
    BY <1>2 DEF Pairs
  <1>4. s \in Seq(Pairs) /\ Len(s) = Len(objs) /\ \A k \in 1..Len(objs) : s[k] = <<t, k>>
    <2>1. s \in [1..Len(objs) -> Pairs]
      BY <1>2, <1>3
    <2> QED BY <1>2, <2>1
  <1>5. K \in SUBSET (1..Len(s)) /\ \A k \in 1..Len(objs) : objs[k] = o => k \in K
    BY <1>2, <1>4
  <1>6. Entries(t, objs, o) = Keep(s, K)
    BY DEF Entries
  <1> HIDE DEF s, K
  <1>7. \A k \in K : \E j \in 1..Len(Keep(s, K)) : Keep(s, K)[j] = s[k]
    BY <1>4, <1>5, KeepAll
  <1>1. Keep(s, K) \in Seq(Pairs) /\ \A j \in 1..Len(Keep(s, K)) : \E k \in K : Keep(s, K)[j] = s[k]
    BY <1>4, <1>5, KeepType
  <1>9. ASSUME NEW j \in 1..Len(Keep(s, K)) PROVE Keep(s, K)[j][1] = t
    <2>1. PICK k \in K : Keep(s, K)[j] = s[k]
      BY <1>1
    <2>2. s[k] = <<t, k>>
      BY <1>4, <1>5
    <2> QED BY <2>1, <2>2
  <1>8. ASSUME NEW k \in 1..Len(objs), objs[k] = o
        PROVE  Listed(Entries(t, objs, o), t)
    <2>1. PICK j \in 1..Len(Keep(s, K)) : Keep(s, K)[j] = s[k]
      BY <1>5, <1>7, <1>8
    <2>2. s[k] = <<t, k>>
      BY <1>4, <1>8
    <2> QED BY <1>6, <2>1, <2>2 DEF Listed
  <1> QED BY <1>1, <1>6, <1>8, <1>9

LEMMA JoinQueued ==
  ASSUME NEW q \in Seq(Pairs), NEW e \in Seq(Pairs), NEW x, Listed(q, x) \/ Listed(e, x)
  PROVE  Listed(q \o e, x)
  <1>1. /\ Len(q) \in Nat /\ Len(e) \in Nat /\ Len(q \o e) = Len(q) + Len(e)
        /\ \A k \in 1..Len(q) : (q \o e)[k] = q[k]
        /\ \A k \in 1..Len(e) : (q \o e)[Len(q) + k] = e[k]
    BY Join
  <1>2. /\ \A k \in 1..Len(q) : k \in 1..Len(q \o e)
        /\ \A k \in 1..Len(e) : Len(q) + k \in 1..Len(q \o e)
    BY <1>1, Shifts
  <1> QED BY <1>1, <1>2 DEF Listed

LEMMA SelectQueue ==
  ASSUME ServerInv, NEW t \in Threads, NEW objs \in Seq(Objs), queue' = [o \in Objs |-> queue[o] \o Entries(t, objs, o)]
  PROVE  /\ \A o \in Objs : \A x : Queued(o, x) => Queued(o, x)'
         /\ \A k \in 1..Len(objs) : Queued(objs[k], t)'
  <1>0. queue \in [Objs -> Seq(Pairs)]
    BY ServerParts DEF StateInv, Pairs
  <1>1. ASSUME NEW o \in Objs, NEW x,
               Queued(o, x) \/ Listed(Entries(t, objs, o), x)
        PROVE  Queued(o, x)'
    <2>1. queue'[o] = queue[o] \o Entries(t, objs, o) /\ queue[o] \in Seq(Pairs)
      BY <1>0
    <2>2. Entries(t, objs, o) \in Seq(Pairs)
      BY EntriesAll
    <2>3. Listed(queue[o], x) \/ Listed(Entries(t, objs, o), x)
      BY <1>1 DEF Queued, Listed
    <2>4. \E j \in 1..Len(queue'[o]) : queue'[o][j][1] = x
      <3>1. PICK q \in Seq(Pairs) : q = queue[o]
        BY <2>1
      <3>2. PICK e \in Seq(Pairs) : e = Entries(t, objs, o)
        BY <2>2
      <3>3. Listed(q, x) \/ Listed(e, x)
        BY <2>3, <3>1, <3>2
      <3>4. Listed(q \o e, x)
        BY <3>3, JoinQueued
      <3> QED BY <2>1, <3>1, <3>2, <3>4 DEF Listed
    <2> QED BY <2>4 DEF Queued
  <1>2. ASSUME NEW k \in 1..Len(objs) PROVE Queued(objs[k], t)'
    <2>1. PICK o \in Objs : o = objs[k]
      OBVIOUS
    <2>2. Listed(Entries(t, objs, o), t)
      BY <2>1, EntriesAll
    <2>3. Queued(o, t)'
      BY <1>1, <2>2
    <2> QED BY <2>1, <2>3 DEF Queued
  <1> QED BY <1>1, <1>2

\* What a select request does to the waits.
LEMMA SelectMoves ==
  ASSUME ServerInv, NEW t \in Threads, Select(t)
  PROVE  LET f == Active(t)
         IN  /\ f \in Frames /\ Idle /\ t \notin dead /\ pc[t][f] \in {"select", "again", "handler"}
             /\ ~HasWait(t, f) /\ (f = "call" => ~HasWait(t, "suspend") /\ call'[t] = call[t])
             /\ \A g : HasWait(t, g)' <=> HasWait(t, g) \/ g = f
             /\ pc'[t][f] = "server" /\ \A g \in Frames : g # f => pc'[t][g] = pc[t][g]
             /\ HasWait(t, "call") => call'[t] = call[t]
             /\ \A x \in Threads : x # t => Keeps(x) /\ Eases(x)
             /\ \A x \in Threads : \A o \in Objs : Queued(o, x) => Queued(o, x)'
             /\ f = "call" => QueuedOK(t)'
             /\ UNCHANGED <<suspend, system_apc, user_apc>>
  <1> DEFINE f == Active(t)
             objs == IF f = "call" THEN WaitObjs(call[t]) ELSE <<>>
  <1>0. /\ StateInv /\ StacksInv /\ StackOK(t) /\ wait \in [Threads -> Seq(Waits)] /\ pc \in [Threads -> [Frames -> Places]]
        /\ DOMAIN call = Threads
    BY ServerParts DEF StateInv, StacksInv, CallsInv
  <1>1. f \in Frames /\ Idle /\ t \notin dead /\ pc[t][f] \in {"select", "again", "handler"}
    BY DEF Select, Active, Frames
  <1>2. /\ StorePrevApc(t, f) /\ wait' = [wait EXCEPT ![t] = <<[frame |-> f, cookie |-> FALSE, user |-> FALSE]>> \o @]
        /\ UNCHANGED <<suspend, system_apc, user_apc, pipe, stolen, dead>>
    BY DEF Select, apcs
  <1>3. queue' = [o \in Objs |-> queue[o] \o Entries(t, objs, o)]
    BY DEF Select, Entries
  <1>4. objs \in Seq(Objs)
    <2>1. WaitObjs(call[t]) \in Seq(Objs)
      BY CallFormed, FormedObjs, ServerParts
    <2> QED BY <2>1
  <1>5. (f = "suspend" => pc[t]["suspend"] # "idle") /\ (f = "call" => pc[t]["suspend"] = "idle")
    BY DEF Active
  <1>6. objs = IF f = "call" THEN WaitObjs(call[t]) ELSE <<>>
    OBVIOUS
  <1>7. f = Active(t)
    OBVIOUS
  <1> HIDE DEF f, objs
  <1>8. /\ pc'[t] = [pc[t] EXCEPT ![f] = "server"]
        /\ \A u \in Threads : u # t => pc'[u] = pc[u] \/ (pc[u]["call"] = "apc_wait" /\ pc'[u] = [pc[u] EXCEPT !["call"] = "idle"])
        /\ \A u \in Threads : pc[u]["call"] # "apc_wait" => call'[u] = call[u]
    <2>1. pc[t][f] # "apc_wait"
      BY <1>1
    <2> QED BY <1>1, <1>2, <2>1, SelectApcs
  <1>9. wait'[t] = <<[frame |-> f, cookie |-> FALSE, user |-> FALSE]>> \o wait[t] /\ \A x \in Threads : x # t => wait'[x] = wait[x]
    BY <1>0, <1>2
  <1>10. ASSUME NEW g PROVE HasWait(t, g)' <=> HasWait(t, g) \/ g = f
    <2>1. Pushes(t)
      BY <1>1, <1>2, <1>7, <1>8, <1>9 DEF Pushes, Apart
    <2> QED BY <1>0, <1>7, <2>1, WaitMoves
  <1>11. ~HasWait(t, f) /\ (f = "call" => ~HasWait(t, "suspend") /\ call'[t] = call[t])
    <2>1. ~HasWait(t, f)
      BY <1>0, <1>1, NoWait
    <2>2. f = "call" => ~HasWait(t, "suspend")
      BY <1>0, <1>5, NoWait
    <2>3. f = "call" => call'[t] = call[t]
      BY <1>1, <1>8
    <2> QED BY <2>1, <2>2, <2>3
  <1>12. pc'[t][f] = "server" /\ \A g \in Frames : g # f => pc'[t][g] = pc[t][g]
    BY <1>0, <1>1, <1>8
  <1>13. ASSUME NEW x \in Threads, HasWait(x, "call") PROVE call'[x] = call[x] /\ pc[x]["call"] # "apc_wait"
    <2>1. pc[x]["call"] # "apc_wait"
      BY <1>0, <1>13, NoWait DEF StacksInv
    <2> QED BY <1>8, <2>1
  <1>14. ASSUME NEW x \in Threads, x # t PROVE Keeps(x) /\ Eases(x)
    <2>1. ASSUME NEW g \in Frames, HasWait(x, g) PROVE pc'[x][g] = pc[x][g]
      <3>1. CASE pc'[x] = pc[x]
        BY <3>1
      <3>2. CASE pc[x]["call"] = "apc_wait" /\ pc'[x] = [pc[x] EXCEPT !["call"] = "idle"]
        <4>1. g # "call"
          BY <1>13, <2>1, <3>2
        <4> QED BY <1>0, <3>2, <4>1
      <3> QED BY <1>8, <1>14, <3>1, <3>2
    <2>2. Keeps(x)
      BY <1>9, <1>13, <1>14, <2>1 DEF Keeps
    <2> QED BY <1>2, <2>2, KeepsEases DEF Suspended
  <1>15. /\ \A x \in Threads : \A o \in Objs : Queued(o, x) => Queued(o, x)'
         /\ f = "call" => QueuedOK(t)'
    <2>1. PICK O \in Seq(Objs) : O = objs
      BY <1>4
    <2>2. queue' = [o \in Objs |-> queue[o] \o Entries(t, O, o)]
      BY <1>3, <2>1
    <2>3. /\ \A o \in Objs : \A x : Queued(o, x) => Queued(o, x)'
          /\ \A k \in 1..Len(O) : Queued(O[k], t)'
      BY <2>2, SelectQueue
    <2>4. ASSUME f = "call" PROVE QueuedOK(t)'
      <3>1. WaitObjs(call'[t]) = O
        BY <1>6, <1>11, <2>1, <2>4
      <3>2. \A k \in 1..Len(O) : \E j \in 1..Len(queue'[O[k]]) : queue'[O[k]][j][1] = t
        BY <2>3 DEF Queued
      <3> QED BY <3>1, <3>2 DEF QueuedOK, Queued
    <2> QED BY <2>3, <2>4
  <1> QED BY <1>1, <1>2, <1>7, <1>10, <1>11, <1>12, <1>13, <1>14, <1>15

LEMMA SelectStrand == ASSUME ServerInv, StrandInv, NEW t \in Threads, Select(t) PROVE StrandInv'
  <1> DEFINE f == Active(t)
  <1>1. /\ f \in Frames /\ Idle /\ t \notin dead /\ pc[t][f] \in {"select", "again", "handler"}
        /\ ~HasWait(t, f) /\ (f = "call" => ~HasWait(t, "suspend") /\ call'[t] = call[t])
        /\ (\A g : HasWait(t, g)' <=> HasWait(t, g) \/ g = f)
        /\ pc'[t][f] = "server" /\ (\A g \in Frames : g # f => pc'[t][g] = pc[t][g])
        /\ HasWait(t, "call") => call'[t] = call[t]
        /\ (\A x \in Threads : x # t => Keeps(x) /\ Eases(x))
        /\ (\A x \in Threads : \A o \in Objs : Queued(o, x) => Queued(o, x)')
        /\ f = "call" => QueuedOK(t)'
        /\ UNCHANGED <<suspend, system_apc, user_apc>>
    BY SelectMoves
  <1>2. IF Signals(t, f)
        THEN SignalObject(call[t].objs[1], 1) /\ todo' = SignalWakes(call[t].objs[1], 1) \o <<EndSelect(t)>>
        ELSE todo' = <<EndSelect(t)>> /\ UNCHANGED <<units, mcount, mowner, event>>
    BY DEF Select, objects
  <1>3. Signals(t, f) => CanSignal(t, call[t].objs[1], 1)
    BY DEF Select
  <1>4. (\A x \in Threads : ~Nudged(x) /\ ~Wanting(x)) /\ \A x, u \in Threads : ~Meet(x, u)
    BY <1>1, IdleNone
  <1>5. Calm
    BY <1>1 DEF Calm, Idle
  <1> HIDE DEF f
  <1>6. ASSUME NEW x \in Threads PROVE QueuedOK(x)'
    <2>1. CASE x = t /\ f = "call"
      BY <1>1, <2>1
    <2>2. CASE x = t /\ f # "call"
      BY <1>1, <2>2, QueuedKept DEF StrandInv
    <2>3. CASE x # t
      <3>1. HasWait(x, "call")' => HasWait(x, "call") /\ call'[x] = call[x]
        BY <1>1, <2>3, KeepsFacts DEF Keeps
      <3> QED BY <1>1, <3>1, QueuedKept DEF StrandInv
    <2> QED BY <2>1, <2>2, <2>3
  <1>7. Signals(t, f) => /\ f = "call" /\ call[t].fn = "signal_wait" /\ call[t].objs[1] \in Objs
    <2> SUFFICES ASSUME Signals(t, f) PROVE call[t].objs[1] \in Objs
      BY DEF Signals
    <2>1. call[t].fn = "signal_wait"
      BY DEF Signals
    <2>2. WellFormed(t, call[t])
      BY <2>1, CallFormed, ServerParts DEF NoCall
    <2>3. call[t].objs \in Seq(Objs) /\ Len(call[t].objs) = 2
      BY <2>1, <2>2 DEF WellFormed
    <2> QED BY <2>3
  <1>8. /\ WakesOK(todo)'
        /\ ~Signals(t, f) => Heads(EndSelect(t))'
        /\ \A o, m : Signals(t, f) /\ o = call[t].objs[1] /\ SignalWakes(o, 1) = <<WakeUp(o, m)>> => WakeAt(todo', o, m)
    <2>0. EndSelect(t).do = "select"
      BY DEF EndSelect
    <2>1. CASE ~Signals(t, f)
      <3>1. todo' = <<EndSelect(t)>>
        BY <1>2, <2>1
      <3>2. Heads(EndSelect(t))'
        BY <3>1 DEF Heads, EndSelect
      <3> QED BY <2>1, <3>1, <3>2, WakesShort
    <2>2. CASE Signals(t, f)
      <3>1. PICK o \in Objs : o = call[t].objs[1]
        BY <1>7, <2>2
      <3>2. todo' = SignalWakes(o, 1) \o <<EndSelect(t)>>
        BY <1>2, <2>2, <3>1
      <3>3. SignalWakes(o, 1) = <<>> \/ \E m \in Nat : SignalWakes(o, 1) = <<WakeUp(o, m)>>
        BY SignalWakesFacts
      <3>4. SignalWakes(o, 1) = <<>> => todo' = <<EndSelect(t)>>
        BY <3>2, ShortJoin
      <3>5. \A m : SignalWakes(o, 1) = <<WakeUp(o, m)>> => todo' = <<WakeUp(o, m), EndSelect(t)>>
        BY <3>2, ShortJoin
      <3>6. WakesOK(todo)'
        BY <2>0, <3>3, <3>4, <3>5, WakesShort, WakesPairs
      <3>7. ASSUME NEW m, SignalWakes(o, 1) = <<WakeUp(o, m)>> PROVE WakeAt(todo', o, m)
        <4>1. todo' = <<WakeUp(o, m), EndSelect(t)>>
          BY <3>5, <3>7
        <4>2. 1 \in 1..Len(todo') /\ todo'[1] = WakeUp(o, m)
          BY <4>1
        <4> QED BY <4>2 DEF WakeAt
      <3> QED BY <2>2, <3>1, <3>6, <3>7
    <2> QED BY <2>1, <2>2
  <1>9. ASSUME NEW x \in Threads, x # t PROVE WantingOK(x)'
    <2>1. Eases(x)
      BY <1>1, <1>9
    <2>2. CASE ~Signals(t, f)
      <3>1. Fades(x, {})
        BY <1>2, <2>2, SameFades
      <3> QED BY <1>4, <2>1, <3>1, FadesWanting DEF WantingOK
    <2>3. CASE Signals(t, f)
      <3>1. PICK o \in Objs : o = call[t].objs[1]
        BY <1>7, <2>3
      <3>2. SignalObject(o, 1)
        BY <1>2, <2>3, <3>1
      <3>3. CanSignal(t, o, 1)
        BY <1>3, <2>3, <3>1
      <3>4. \A m : SignalWakes(o, 1) = <<WakeUp(o, m)>> => WakeAt(todo', o, m)
        BY <1>8, <2>3, <3>1
      <3>5. 1 \in Nat
        OBVIOUS
      <3> QED BY <1>5, <1>6, <1>9, <2>1, <3>2, <3>3, <3>4, <3>5, SignalServes
    <2> QED BY <2>2, <2>3
  <1>10. CASE f = "suspend"
    <2>1. ~Held(t)' /\ ~Held(t) /\ (CallSleeps(t)' <=> CallSleeps(t)) /\ (Exposed(t)' <=> Exposed(t))
      <3>1. ~Held(t)' /\ ~Held(t)
        BY <1>1, <1>10 DEF Held
      <3>2. Exposed(t)' <=> Exposed(t)
        BY <1>1, <1>10, <3>1 DEF Exposed
      <3> QED BY <1>1, <1>10, <3>1, <3>2 DEF CallSleeps, Frames
    <2>2. Eases(t)
      BY <1>1, <2>1 DEF Eases, Exposed, Suspended
    <2>3. ~Signals(t, f)
      BY <1>10 DEF Signals
    <2>4. Fades(t, {})
      BY <1>2, <2>3, SameFades
    <2>5. WantingOK(t)'
      BY <1>4, <2>2, <2>4, FadesWanting DEF WantingOK
    <2> QED BY <1>1, <1>6, <1>8, <1>9, <2>2, <2>5, FromIdle
  <1>11. CASE f = "call"
    <2>1. ~Held(t)' /\ ~CallSleeps(t)'
      BY <1>1, <1>11 DEF Held, CallSleeps
    <2>2. NudgedOK(t)' /\ WantingOK(t)'
      BY <2>1 DEF NudgedOK, WantingOK, Nudged, Wanting
    <2>3. ASSUME NEW u \in Threads, Meet(t, u)' \/ Meet(u, t)' PROVE Heads(EndSelect(t))' /\ pc'[t]["call"] = "server"
      <3>1. IsKeyed(call'[t])
        BY <2>3 DEF Meet, IsKeyed
      <3>2. ~Signals(t, f)
        BY <1>1, <1>7, <1>11, <3>1 DEF IsKeyed
      <3> QED BY <1>1, <1>8, <1>11, <3>2
    <2>4. ASSUME NEW x \in Threads, NEW u \in Threads PROVE MeetOK(x, u)'
      <3>1. CASE x = t \/ u = t
        BY <2>3, <3>1 DEF MeetOK
      <3>2. CASE x # t /\ u # t
        BY <1>1, <1>4, <3>2, EasesMeet DEF MeetOK
      <3> QED BY <3>1, <3>2
    <2>5. ASSUME NEW x \in Threads PROVE NudgedOK(x)' /\ WantingOK(x)'
      <3>1. CASE x = t
        BY <2>2, <3>1
      <3>2. CASE x # t
        BY <1>1, <1>4, <1>9, <3>2, EasesNudged DEF NudgedOK
      <3> QED BY <3>1, <3>2
    <2> QED BY <1>6, <1>8, <2>4, <2>5 DEF StrandInv
  <1> QED BY <1>1, <1>10, <1>11 DEF Frames

-----------------------------------------------------------------------------
(* The end of a select.                                                    *)

LEMMA SelectCalm ==
  ASSUME ServerInv, StrandInv, NEW t \in Threads, Doing("select"), Head(todo).thread = t
  PROVE  /\ Active(t) \in Frames /\ Tail(todo) = <<>> /\ pc[t][Active(t)] = "server"
         /\ \A x \in Threads : ~Nudged(x) /\ ~Wanting(x)
         /\ \A x, u \in Threads : Meet(x, u) => Active(t) = "call" /\ t \in {x, u}
         /\ Active(t) = "call" => \A x \in Threads : pc[x]["suspend"] # "server"
  <1>1. /\ Active(t) \in Frames /\ Tail(todo) = <<>> /\ pc[t][Active(t)] = "server"
        /\ \A u \in Threads, g \in Frames : pc[u][g] = "server" => u = t /\ g = Active(t)
    BY SelectDone
  <1>2. Calm
    BY DEF Calm, Doing
  <1>3. /\ \A x \in Threads : ~Nudged(x) /\ ~Wanting(x)
        /\ \A x, u \in Threads : Meet(x, u) => \E z \in {x, u} : Heads(EndSelect(z)) /\ pc[z]["call"] = "server"
    BY <1>2, CalmNone
  <1>4. "call" \in Frames /\ "suspend" \in Frames
    BY DEF Frames
  <1>5. \A x, u \in Threads : Meet(x, u) => Active(t) = "call" /\ t \in {x, u}
    BY <1>1, <1>3, <1>4
  <1>6. Active(t) = "call" => \A x \in Threads : pc[x]["suspend"] # "server"
    BY <1>1, <1>4
  <1> QED BY <1>1, <1>3, <1>5, <1>6

LEMMA FromSelect ==
  ASSUME ServerInv, StrandInv, NEW t \in Threads, Doing("select"), Head(todo).thread = t, todo' = Tail(todo),
         \A x \in Threads : Eases(x) /\ Fades(x, {}) /\ QueuedOK(x)', Active(t) = "call" => ~Exposed(t)'
  PROVE  StrandInv'
  <1>1. /\ Tail(todo) = <<>>
        /\ \A x \in Threads : ~Nudged(x) /\ ~Wanting(x)
        /\ \A x, u \in Threads : Meet(x, u) => Active(t) = "call" /\ t \in {x, u}
    BY SelectCalm
  <1>2. \A x \in Threads : NudgedOK(x)' /\ WantingOK(x)'
    BY <1>1, EasesNudged, FadesWanting DEF NudgedOK, WantingOK
  <1>3. ASSUME NEW x \in Threads, NEW u \in Threads, Meet(x, u)' PROVE FALSE
    <2>1. Meet(x, u)
      BY <1>3, EasesMeet
    <2>2. Active(t) = "call" /\ t \in {x, u}
      BY <1>1, <2>1
    <2>3. Exposed(x)' /\ Exposed(u)'
      BY <1>3 DEF Meet
    <2> QED BY <2>2, <2>3
  <1>4. \A x, u \in Threads : MeetOK(x, u)'
    BY <1>3 DEF MeetOK
  <1>5. WakesOK(todo)'
    BY <1>1, WakesShort
  <1> QED BY <1>2, <1>4, <1>5 DEF StrandInv

LEMMA SelectWokenStrand == ASSUME ServerInv, StrandInv, NEW t \in Threads, SelectWoken(t) PROVE StrandInv'
  <1>1. /\ Doing("select") /\ Head(todo).thread = t /\ wait[t] = <<>> /\ Returned(t, "call", "object") /\ todo' = Tail(todo)
        /\ UNCHANGED <<units, mcount, mowner, event, queue, wait, suspend, system_apc, user_apc, program>>
    BY DEF SelectWoken, objects, stops, apcs
  <1>2. /\ \E x : pc' = [pc EXCEPT ![t]["call"] = x]
        /\ \A u \in Threads : u # t => call'[u] = call[u]
    BY <1>1, ReturnedFacts, ServerParts DEF Frames
  <1>3. pc \in [Threads -> [Frames -> Places]]
    BY ServerParts DEF StateInv
  <1>4. ASSUME NEW x \in Threads PROVE Keeps(x)
    <2>1. CASE x = t
      <3>1. \A f : ~HasWait(t, f)
        BY <1>1 DEF HasWait
      <3> QED BY <1>1, <2>1, <3>1 DEF Keeps
    <2>2. CASE x # t
      BY <1>1, <1>2, <1>3, <2>2 DEF Keeps
    <2> QED BY <2>1, <2>2
  <1>5. ~Exposed(t)'
    BY <1>1 DEF Exposed, HasWait
  <1>6. ASSUME NEW x \in Threads PROVE Eases(x) /\ Fades(x, {}) /\ QueuedOK(x)'
    <2>1. Eases(x)
      BY <1>1, <1>4, KeepsEases DEF Suspended
    <2>2. Fades(x, {})
      BY <1>1, SameFades
    <2>3. \A o : Queued(o, x)' <=> Queued(o, x)
      BY <1>1 DEF Queued
    <2>4. HasWait(x, "call")' => HasWait(x, "call") /\ call'[x] = call[x]
      BY <1>4, KeepsFacts DEF Keeps
    <2> QED BY <2>1, <2>2, <2>3, <2>4, QueuedKept DEF StrandInv
  <1> QED BY <1>1, <1>5, <1>6, FromSelect

LEMMA SelectEndsStrand == ASSUME ServerInv, AlertInv, StrandInv, NEW t \in Threads, SelectEnds(t) PROVE StrandInv'
  <1>1. PICK v, f : v = CheckWait(t) /\ f = Active(t)
    OBVIOUS
  <1>2. /\ Doing("select") /\ Head(todo).thread = t /\ CanEnd(t) /\ wait[t] # <<>> /\ EndWait(t, v)
        /\ todo' = Tail(todo) /\ UNCHANGED <<suspend, program>>
    BY <1>1 DEF SelectEnds, CanEnd
  <1>3. /\ f \in Frames /\ pc[t][f] = "server" /\ Head(wait[t]).frame = f
    BY <1>1, <1>2, SelectDone
  <1>4. /\ pc \in [Threads -> [Frames -> Places]] /\ system_apc \in [Threads -> Seq(Threads)] /\ TypesInv
        /\ user_apc \in [Threads -> Seq({"user", "timer"})] /\ DOMAIN call = Threads
    BY ServerParts DEF StateInv, AlertInv, ApcTypes, CallsInv
  <1>5. /\ \E x : pc' = [pc EXCEPT ![t][f] = x]
        /\ \A u \in Threads : u # t => call'[u] = call[u]
        /\ f = "suspend" => call'[t] = call[t]
        /\ \A u \in Threads : u # t => system_apc'[u] = system_apc[u] /\ user_apc'[u] = user_apc[u]
        /\ system_apc'[t] # <<>> => system_apc[t] # <<>>
        /\ user_apc'[t] # <<>> => user_apc[t] # <<>>
    <2>1. CASE v.status = "kernel_apc"
      <3>1. system_apc' = [system_apc EXCEPT ![t] = Tail(@)] /\ pc' = [pc EXCEPT ![t][f] = "again"] /\ UNCHANGED <<user_apc, call>>
        BY <1>1, <2>1 DEF SelectEnds
      <3>2. system_apc[t] # <<>>
        BY <1>1, <1>2, <2>1, CheckEnds, ServerParts
      <3> QED BY <1>4, <3>1, <3>2
    <2>2. CASE v.status # "kernel_apc"
      <3>1. /\ user_apc' = [user_apc EXCEPT ![t] = IF v.status = "user_apc" THEN Tail(@) ELSE @]
            /\ Returned(t, f, v.status) /\ UNCHANGED system_apc
        BY <1>1, <2>2 DEF SelectEnds
      <3>2. v.status = "user_apc" => user_apc[t] # <<>>
        BY <1>1, <1>2, CheckEnds, ServerParts
      <3>3. /\ \E x : pc' = [pc EXCEPT ![t][f] = x]
            /\ \A u \in Threads : u # t => call'[u] = call[u]
            /\ f = "suspend" => call'[t] = call[t]
        <4>1. PICK st : st = v.status
          OBVIOUS
        <4>2. Returned(t, f, st)
          BY <3>1, <4>1
        <4>3. \E x : pc' = [pc EXCEPT ![t][f] = x]
          BY <4>2 DEF Returned
        <4>4. call' = [call EXCEPT ![t] = IF f = "call" THEN NoCall ELSE @]
          BY <4>2 DEF Returned
        <4> QED BY <1>4, <4>3, <4>4
      <3> QED BY <1>4, <3>1, <3>2, <3>3
    <2> QED BY <2>1, <2>2
  <1>6. /\ \A x \in Threads \ Ends(t, v) : wait'[x] = wait[x]
        /\ \A x \in Ends(t, v) \ {t} : ~HasWait(x, "call")' /\ ~HasWait(x, "suspend")'
        /\ \A g : HasWait(t, g)' <=> HasWait(t, g) /\ g # f
        /\ \A x \in Threads : \A o \in Objs : HasWait(x, "call")' /\ Queued(o, x) => Queued(o, x)'
        /\ \A x \in Threads : Fades(x, {})
    BY <1>1, <1>2, <1>3, EndStrand
  <1>7. f = "call" => ~HasWait(t, "suspend")
    BY <1>2, <1>3, SleepFacts
  <1>8. ASSUME NEW x \in Threads, x # t PROVE Eases(x) /\ QueuedOK(x)'
    <2>1. pc'[x] = pc[x] /\ call'[x] = call[x] /\ suspend'[x] = suspend[x]
      BY <1>2, <1>4, <1>5, <1>8
    <2>2. /\ HasWait(x, "call")' => HasWait(x, "call") /\ (HasWait(x, "suspend") => HasWait(x, "suspend")')
          /\ HasWait(x, "suspend")' => HasWait(x, "suspend")
      <3>1. CASE x \in Ends(t, v)
        BY <1>6, <1>8, <3>1
      <3>2. CASE x \notin Ends(t, v)
        BY <1>6, <3>2 DEF HasWait
      <3> QED BY <3>1, <3>2
    <2> QED BY <1>5, <1>6, <1>8, <2>1, <2>2, SameEases, QueuedKept DEF StrandInv
  <1>9. Eases(t) /\ QueuedOK(t)' /\ (f = "call" => ~Exposed(t)')
    <2>1. CASE f = "call"
      <3>1. ~HasWait(t, "call")' /\ ~HasWait(t, "suspend")'
        BY <1>6, <1>7, <2>1
      <3> QED BY <1>2, <3>1 DEF Eases, Held, Exposed, CallSleeps, Suspended, QueuedOK
    <2>2. CASE f = "suspend"
      <3>1. ~HasWait(t, "suspend")' /\ (HasWait(t, "call")' <=> HasWait(t, "call")) /\ pc[t]["suspend"] # "read"
        BY <1>3, <1>6, <2>2
      <3>2. pc'[t]["call"] = pc[t]["call"] /\ call'[t] = call[t]
        BY <1>4, <1>5, <2>2 DEF Frames
      <3>3. ~Held(t) /\ ~Held(t)'
        BY <3>1 DEF Held
      <3>4. (Exposed(t)' <=> Exposed(t)) /\ (CallSleeps(t)' <=> CallSleeps(t))
        BY <3>1, <3>2, <3>3 DEF Exposed, CallSleeps
      <3>5. Eases(t)
        BY <1>2, <1>5, <3>2, <3>3, <3>4 DEF Eases, Suspended
      <3>6. QueuedOK(t)'
        BY <1>6, <3>1, <3>2, QueuedKept DEF StrandInv
      <3> QED BY <2>2, <3>5, <3>6
    <2> QED BY <1>3, <2>1, <2>2 DEF Frames
  <1>10. \A x \in Threads : Eases(x) /\ Fades(x, {}) /\ QueuedOK(x)'
    BY <1>6, <1>8, <1>9
  <1>11. Active(t) = "call" => ~Exposed(t)'
    BY <1>1, <1>9
  <1> QED BY <1>2, <1>10, <1>11, FromSelect

LEMMA SelectPendsStrand == ASSUME ServerInv, StrandInv, NEW t \in Threads, SelectPends(t) PROVE StrandInv'
  <1>1. PICK f : f = Active(t)
    OBVIOUS
  <1>2. /\ Doing("select") /\ Head(todo).thread = t /\ wait[t] # <<>> /\ ~CanEnd(t)
        /\ \E timed \in BOOLEAN : wait' = [wait EXCEPT ![t] = <<[frame |-> f, cookie |-> TRUE, user |-> timed]>> \o Tail(@)]
        /\ pc' = [pc EXCEPT ![t][f] = "read"] /\ todo' = Tail(todo)
        /\ UNCHANGED <<units, mcount, mowner, event, queue, suspend, system_apc, user_apc, call, pipe, stolen, dead>>
    BY <1>1 DEF SelectPends, objects, stops, apcs
  <1>3. /\ f \in Frames /\ pc[t][f] = "server" /\ Head(wait[t]).frame = f /\ ~Head(wait[t]).cookie
    BY <1>1, <1>2, SelectDone
  <1>4. /\ Tail(todo) = <<>>
        /\ \A x \in Threads : ~Nudged(x) /\ ~Wanting(x)
        /\ \A x, u \in Threads : Meet(x, u) => f = "call" /\ t \in {x, u}
        /\ f = "call" => \A x \in Threads : pc[x]["suspend"] # "server"
    BY <1>1, <1>2, SelectCalm
  <1>5. /\ pc \in [Threads -> [Frames -> Places]] /\ wait \in [Threads -> Seq(Waits)] /\ StateInv /\ StacksInv
    BY ServerParts DEF StateInv
  <1>6. ASSUME NEW x \in Threads, NEW g PROVE HasWait(x, g)' <=> HasWait(x, g)
    <2>1. CASE x = t
      <3>1. PICK timed \in BOOLEAN : wait'[t] = <<[frame |-> f, cookie |-> TRUE, user |-> timed]>> \o Tail(wait[t])
        BY <1>2, <1>5
      <3>2. [frame |-> f, cookie |-> TRUE, user |-> timed] \in Waits
        BY <1>3 DEF Waits
      <3>3. Sleeps(t)
        <4>1. pc'[t] = [pc[t] EXCEPT ![Head(wait[t]).frame] = "read"] /\ pipe'[t] = pipe[t] /\ Apart(t)
          BY <1>2, <1>3, <1>5 DEF Apart
        <4> QED BY <1>2, <1>3, <3>1, <3>2, <4>1 DEF Sleeps
      <3> QED BY <1>5, <2>1, <3>3, WaitMoves DEF StacksInv
    <2>2. CASE x # t
      <3>1. wait'[x] = wait[x]
        BY <1>2, <1>5, <2>2
      <3> QED BY <3>1 DEF HasWait
    <2> QED BY <2>1, <2>2
  <1>7. /\ system_apc[t] = <<>>
        /\ Suspended(t) \/ (f = "call" /\ Ready(t) = {} /\ ~(call[t].alertable /\ user_apc[t] # <<>>))
    BY <1>2, <1>3, PendsFacts
  <1>8. \A x \in Threads : Fades(x, {}) /\ (Suspended(x)' <=> Suspended(x))
    BY <1>2, SameFades DEF Suspended
  <1>9. ASSUME NEW x \in Threads, x # t PROVE Eases(x)
    <2>1. pc'[x] = pc[x]
      BY <1>2, <1>5, <1>9
    <2> QED BY <1>2, <1>6, <2>1, SameEases
  <1>10. ASSUME NEW x \in Threads PROVE QueuedOK(x)'
    <2>1. \A o : Queued(o, x)' <=> Queued(o, x)
      BY <1>2 DEF Queued
    <2> QED BY <1>2, <1>6, <2>1, QueuedKept DEF StrandInv
  <1>11. /\ f = "suspend" => ~Exposed(t)'
         /\ f = "call" => (Exposed(t)' <=> Exposed(t)) /\ ~Held(t)'
    <2>1. ASSUME f = "suspend" PROVE Held(t)'
      <3>1. HasWait(t, "suspend")
        BY <1>2, <1>3, <1>5, <2>1, TopFrame DEF StacksInv
      <3>2. pc'[t]["suspend"] = "read"
        BY <1>2, <1>5, <2>1 DEF Frames
      <3> QED BY <1>6, <3>1, <3>2 DEF Held
    <2>2. ASSUME f = "call" PROVE ~Held(t) /\ ~Held(t)'
      <3>1. ~HasWait(t, "suspend")
        BY <1>2, <1>3, <2>2, SleepFacts
      <3> QED BY <1>6, <3>1 DEF Held
    <2> QED BY <1>6, <2>1, <2>2 DEF Exposed
  <1>12. ~Nudged(t)'
    <2>1. CASE f = "suspend"
      BY <1>2, <1>7, <1>8, <1>11, <2>1 DEF Nudged, CallSleeps
    <2>2. CASE f = "call"
      <3>1. ~Held(t)' /\ system_apc'[t] = <<>>
        BY <1>2, <1>7, <1>11, <2>2
      <3>2. Suspended(t)' \/ ~(call'[t].alertable /\ user_apc'[t] # <<>>)
        BY <1>2, <1>7, <1>8
      <3> QED BY <3>1, <3>2 DEF Nudged
    <2> QED BY <1>3, <2>1, <2>2 DEF Frames
  <1>13. ~Wanting(t)'
    <2> SUFFICES ASSUME Wanting(t)' PROVE FALSE
      OBVIOUS
    <2>1. ~Suspended(t)' /\ ~IsKeyed(call'[t]) /\ Ready(t)' # {}
      BY DEF Wanting, IsKeyed
    <2>2. Ready(t) = {} /\ ~IsKeyed(call[t]) /\ call'[t] = call[t]
      BY <1>2, <1>7, <1>8, <2>1
    <2>3. Ready(t)' = Ready(t)
      BY <1>2, <2>2, SameReady
    <2> QED BY <2>1, <2>2, <2>3
  <1>14. ASSUME NEW x \in Threads, NEW u \in Threads, Meet(x, u)' PROVE FALSE
    <2>1. Exposed(x)' /\ Exposed(u)' /\ ~Suspended(x)' /\ ~Suspended(u)'
      BY <1>14 DEF Meet
    <2>2. CASE x # t /\ u # t
      <3>1. Meet(x, u)
        BY <1>9, <1>14, <2>2, EasesMeet
      <3> QED BY <1>4, <2>2, <3>1
    <2>3. CASE x = t \/ u = t
      <3>1. f = "call"
        BY <1>3, <1>11, <2>1, <2>3 DEF Frames
      <3>2. Exposed(x) /\ Exposed(u) /\ ~Suspended(x) /\ ~Suspended(u)
        <4>1. \A y \in Threads : Exposed(y)' => Exposed(y)
          BY <1>9, <1>11, <3>1 DEF Eases
        <4> QED BY <1>8, <2>1, <4>1
      <3>3. Meet(x, u)
        <4>1. /\ x # u /\ IsKeyed(call'[x]) /\ IsKeyed(call'[u]) /\ call'[x].fn # call'[u].fn
              /\ call'[x].key = call'[u].key /\ call'[x].objs[1] = call'[u].objs[1]
          BY <1>14 DEF Meet, IsKeyed
        <4> QED BY <1>2, <3>2, <4>1 DEF Meet
      <3>4. Meet(u, x)
        BY <3>3, MeetSym
      <3>5. CanEnd(x) /\ CanEnd(u)
        BY <1>4, <3>1, <3>3, <3>4, MeetEnds DEF StrandInv
      <3> QED BY <1>2, <2>3, <3>5
    <2> QED BY <2>2, <2>3
  <1>15. ASSUME NEW x \in Threads PROVE NudgedOK(x)' /\ WantingOK(x)'
    <2>1. CASE x = t
      BY <1>12, <1>13, <2>1 DEF NudgedOK, WantingOK
    <2>2. CASE x # t
      BY <1>4, <1>8, <1>9, <2>2, EasesNudged, FadesWanting DEF NudgedOK, WantingOK
    <2> QED BY <2>1, <2>2
  <1>16. \A x, u \in Threads : MeetOK(x, u)'
    BY <1>14 DEF MeetOK
  <1>17. WakesOK(todo)'
    BY <1>2, <1>4, WakesShort
  <1> QED BY <1>10, <1>15, <1>16, <1>17 DEF StrandInv

-----------------------------------------------------------------------------
(* All steps together.                                                     *)

LEMMA StrandInit == Init => StrandInv
  <1> SUFFICES ASSUME Init PROVE StrandInv
    OBVIOUS
  <1>1. todo = <<>> /\ \A t \in Threads : wait[t] = <<>>
    BY DEF Init
  <1>2. \A t \in Threads : \A f : ~HasWait(t, f)
    BY <1>1 DEF HasWait
  <1>3. ASSUME NEW t \in Threads PROVE ~Held(t) /\ ~Exposed(t) /\ ~CallSleeps(t)
    BY <1>2 DEF Held, Exposed, CallSleeps
  <1>4. ASSUME NEW t \in Threads PROVE QueuedOK(t) /\ NudgedOK(t) /\ WantingOK(t)
    BY <1>2, <1>3 DEF QueuedOK, NudgedOK, Nudged, WantingOK, Wanting
  <1>5. ASSUME NEW t \in Threads, NEW u \in Threads PROVE MeetOK(t, u)
    BY <1>3 DEF MeetOK, Meet
  <1>6. WakesOK(todo)
    BY <1>1, WakesShort
  <1> QED BY <1>4, <1>5, <1>6 DEF StrandInv

LEMMA ServerStrand == ASSUME ServerInv, AlertInv, StrandInv, WakesAreUsed, ServerStep PROVE StrandInv'
  <1>1. CASE WakeUpStep
    BY <1>1, WakeUpStepStrand
  <1>2. CASE WakeThreadStep \/ ResetStep \/ AbandonStep
    BY <1>2, WakeThreadStepStrand, ResetStepStrand, AbandonStepStrand
  <1>3. ASSUME NEW t \in Threads, SelectEnds(t) \/ SelectWoken(t) \/ SelectPends(t) PROVE StrandInv'
    BY <1>3, SelectEndsStrand, SelectWokenStrand, SelectPendsStrand
  <1> QED BY <1>1, <1>2, <1>3 DEF ServerStep

LEMMA ThreadStrand ==
  ASSUME ServerInv, AlertInv, StrandInv, NEW t \in Threads, ClientStep(t) \/ TimeStep(t)
  PROVE  StrandInv'
  <1>1. CASE Select(t) \/ ReadReply(t)
    BY <1>1, SelectStrand, ReadReplyStrand
  <1>2. CASE SelectFails(t) \/ Usr1Handler(t) \/ DriverAlerted(t) \/ Expire(t)
    BY <1>2, ClientStrand
  <1>3. CASE ThreadTimeout(t) \/ TimerCallback(t)
    BY <1>3, ThreadTimeoutStrand, TimerCallbackStrand
  <1> QED BY <1>1, <1>2, <1>3 DEF ClientStep, TimeStep

LEMMA RequestStrand ==
  ASSUME ServerInv, AlertInv, StrandInv, NEW t \in Threads, NEW c \in program[t], Requests(t, c)
  PROVE  StrandInv'
  <1>1. CASE BeginWait(t, c)
    BY <1>1, ClientStrand
  <1>2. CASE Signal(t, c) \/ ResumeThread(t, c) \/ KillThread(t, c)
    BY <1>2, SignalStrand, ResumeThreadStrand, KillThreadStrand
  <1>3. CASE ResetEvent(t, c) \/ SuspendThread(t, c) \/ SetThreadContext(t, c) \/ SetTimer(t, c) \/ CancelTimerOf(t, c)
    BY <1>3, QuietRequestsStrand
  <1>4. CASE QueueUserApc(t, c) \/ QueueSystemApc(t, c)
    BY <1>4, QueueUserApcStrand, QueueSystemApcStrand
  <1> QED BY <1>1, <1>2, <1>3, <1>4 DEF Requests

LEMMA StrandNext == ServerInv /\ AlertInv /\ StrandInv /\ WakesAreUsed /\ [Next]_vars => StrandInv'
  <1> SUFFICES ASSUME ServerInv, AlertInv, StrandInv, WakesAreUsed, [Next]_vars PROVE StrandInv'
    OBVIOUS
  <1>1. CASE UNCHANGED vars
    BY <1>1, StutterStrand
  <1>2. CASE Next
    BY <1>2, ServerStrand, ThreadStrand, RequestStrand DEF Next
  <1> QED BY <1>1, <1>2

\* Between two requests nobody is nudged, wanting or met: what sleeps has to.
LEMMA StrandIdle == ServerInv /\ StrandInv => NoStrandedWait
  <1> SUFFICES ASSUME ServerInv, StrandInv, Idle,
                      NEW t \in Threads \ dead, wait[t] # <<>>, Head(wait[t]).cookie
               PROVE  CheckWait(t).status \in
                        IF Head(wait[t]).frame = "call" THEN {"pending", "timeout"} ELSE {"pending"}
    BY DEF NoStrandedWait
  <1>1. /\ \A x \in Threads : ~Nudged(x) /\ ~Wanting(x) /\ QueuedOK(x) /\ pc[x]["suspend"] # "server"
        /\ \A u \in Threads : ~Meet(t, u)
    BY IdleNone, IdleNoServer, ServerParts DEF StrandInv, Frames
  <1>2. CASE Head(wait[t]).frame = "suspend"
    <2>1. Held(t) /\ ~Nudged(t)
      BY <1>1, <1>2, SleepFacts
    <2>2. system_apc[t] = <<>> /\ Suspended(t)
      BY <2>1 DEF Nudged
    <2> QED BY <1>2, <2>2 DEF CheckWait, Pending
  <1>3. CASE Head(wait[t]).frame = "call"
    <2>1. CallSleeps(t) /\ ~Nudged(t) /\ ~Wanting(t)
      BY <1>1, <1>3, SleepFacts
    <2>2. system_apc[t] = <<>>
      BY <2>1 DEF Nudged
    <2>3. CASE Suspended(t)
      BY <1>3, <2>2, <2>3 DEF CheckWait, Pending
    <2>4. CASE ~Suspended(t)
      <3>1. Ready(t) = {}
        <4>1. CASE IsKeyed(call[t])
          <5>1. Partners(t) = {}
            BY <1>1, <2>1, <2>4, <4>1, MeetPartners DEF CallSleeps
          <5> QED BY <4>1, <5>1 DEF Ready, IsKeyed
        <4>2. CASE ~IsKeyed(call[t])
          BY <2>1, <2>4, <4>2 DEF Wanting
        <4> QED BY <4>1, <4>2
      <3>2. ~(call[t].alertable /\ user_apc[t] # <<>>)
        BY <2>1, <2>4 DEF Nudged
      <3>3. CheckWait(t) = IF deadline[t] = "past" THEN [status |-> "timeout", index |-> 0] ELSE Pending
        BY <1>3, <2>2, <2>4, <3>1, <3>2, CheckCall
      <3> QED BY <1>3, <3>3 DEF Pending
    <2> QED BY <2>3, <2>4
  <1> QED BY <1>2, <1>3, SleepFacts DEF Frames

\* No request or timer leaves a thread asleep whose wait could end, as long as
\* wake_up spends none of its wakeups on a thread that leaves the object where
\* it is and keeps it from another (release_semaphore, wake_up, wake_thread).
THEOREM WaitsNotStranded == Spec /\ []WakesAreUsed => []NoStrandedWait
  BY ServerInit, ServerNext, AlertInit, AlertNext, StrandInit, StrandNext, StrandIdle, PTL DEF Spec

-----------------------------------------------------------------------------
(* Without a timeout, a wait-all that is woken takes the object.           *)

LEMMA FirstLeast ==
  ASSUME NEW K \in SUBSET Nat, K # {}
  PROVE  \A j \in K : First(K) <= j
  <1>1. \E x \in K : \A y \in K : ~(<<y, x>> \in OpToRel(<, Nat))
    <2>1. IsWellFoundedOn(OpToRel(<, Nat), Nat)
      BY NatLessThanWellFounded
    <2> QED
      BY <2>1, WFMin
  <1>2. PICK x \in K : \A y \in K : ~(<<y, x>> \in OpToRel(<, Nat))
    BY <1>1
  <1>3. \A y \in K : ~(y < x)
    BY <1>2 DEF OpToRel
  <1>4. \A y \in K : x <= y
    BY <1>3
  <1> QED
    BY <1>4 DEF First

\* A thread whose wait can end, and that sleeps on an object that is lit while
\* a wake_up is under way, waits for this object.
LEMMA SleeperTakes ==
  ASSUME ServerInv, StrandInv, Doing("wake_up"), Head(todo).max # 0, NEW o \in Objs, o = Head(todo).obj, Lit(o),
         NEW t \in Threads, UntimedOK(t), CanEnd(t), HasWait(t, "call"), pc[t]["call"] # "server",
         \E n \in 1..Len(WaitObjs(call[t])) : WaitObjs(call[t])[n] = o
  PROVE  o \in Takes(t, CheckWait(t))
  <1>1. /\ pc[t]["suspend"] # "server" /\ StackOK(t) /\ wait[t] # <<>> /\ CheckWait(t) # Pending
        /\ todo \in Seq(Items) /\ todo # <<>> /\ Head(todo).do = "wake_up" /\ WakesOK(todo) /\ StateInv
    BY NoneHidden, ServerParts DEF Doing, StacksInv, CanEnd, StrandInv
  <1>2. ~Heads(WakeThread(t)) /\ ~Nudged(t)
    BY <1>1 DEF Heads, WakeThread, StrandInv, NudgedOK
  <1>3. /\ Head(wait[t]).frame \in Frames /\ Head(wait[t]).cookie
    <2>1. Head(wait[t]).frame \in Frames /\ pc[t][Head(wait[t]).frame] = IF Head(wait[t]).cookie THEN "read" ELSE "server"
      BY <1>1, TopFrame
    <2> QED BY <1>1, <2>1 DEF Frames
  <1>4. Head(wait[t]).frame = "call"
    <2> SUFFICES ASSUME Head(wait[t]).frame = "suspend" PROVE FALSE
      BY <1>3 DEF Frames
    <2>1. Held(t)
      BY <1>1, <1>3, SleepFacts
    <2>2. system_apc[t] = <<>> /\ Suspended(t)
      BY <1>2, <2>1 DEF Nudged
    <2> QED BY <1>1, <2>2 DEF CheckWait
  <1>5. CallSleeps(t) /\ Exposed(t)
    BY <1>1, <1>3, <1>4, SleepFacts
  <1>6. system_apc[t] = <<>>
    BY <1>2, <1>5 DEF Nudged
  <1>7. ~Suspended(t)
    BY <1>1, <1>6 DEF CheckWait
  <1>8. ~(call[t].alertable /\ user_apc[t] # <<>>)
    BY <1>2, <1>5, <1>7 DEF Nudged
  <1>9. PICK n \in 1..Len(WaitObjs(call[t])) : WaitObjs(call[t])[n] = o
    OBVIOUS
  <1>10. ~IsKeyed(call[t])
    <2> SUFFICES ASSUME IsKeyed(call[t]) PROVE FALSE
      OBVIOUS
    <2>1. WaitObjs(call[t]) = call[t].objs /\ Len(call[t].objs) = 1 /\ Type[call[t].objs[1]] = "keyed"
      BY KeyedFacts
    <2>2. n = 1
      BY <1>9, <2>1
    <2>3. Type[o] = "keyed"
      BY <1>9, <2>1, <2>2
    <2> QED BY <2>3 DEF Lit
  <1> DEFINE s == WaitObjs(call[t])
  <1>11. /\ s \in Seq(Objs)
         /\ call[t].fn # "wait_all" => Ready(t) = {k \in 1..Len(s) : Signaled(s[k], t)}
         /\ call[t].fn = "wait_all" => Ready(t) = IF \A k \in 1..Len(s) : Signaled(s[k], t) THEN {1} ELSE {}
         /\ Takes(t, [status |-> "object", index |-> First(Ready(t))]) =
               IF call[t].fn = "wait_all" THEN {s[k] : k \in 1..Len(s)} ELSE {s[First(Ready(t))]}
    BY <1>10, ReadyFacts
  <1>12. CheckWait(t) = IF Ready(t) # {} THEN [status |-> "object", index |-> First(Ready(t))]
                        ELSE IF call[t].alertable /\ user_apc[t] # <<>> THEN [status |-> "user_apc", index |-> 0]
                        ELSE IF deadline[t] = "past" THEN [status |-> "timeout", index |-> 0] ELSE Pending
    BY <1>1, <1>4, <1>6, <1>7, CheckCall
  <1>13. Ready(t) # {} /\ Ready(t) \in SUBSET Nat
    <2>1. CASE call[t].fn = "wait_all"
      <3>1. deadline[t] = "none"
        BY <2>1 DEF UntimedOK
      <3> QED BY <1>1, <1>8, <1>11, <1>12, <2>1, <3>1
    <2>2. CASE call[t].fn # "wait_all"
      <3>1. Signaled(o, t)
        BY DEF Lit, Signaled
      <3>2. n \in Ready(t)
        BY <1>9, <1>11, <2>2, <3>1
      <3> QED BY <1>11, <2>2, <3>2
    <2> QED BY <2>1, <2>2
  <1>14. First(Ready(t)) \in Ready(t)
    BY <1>13, FirstIn
  <1>15. Only(t, o)
    <2>1. Wanting(t)
      BY <1>5, <1>7, <1>10, <1>13 DEF Wanting
    <2>2. \A k \in 1..Len(todo) : todo[k].do = "wake_up" => todo[k] = Head(todo)
      BY <1>1, RestQuiet
    <2>3. ~WakesAll(t) /\ \A x : ~WakesTaker(x)
      BY <1>1, <2>2 DEF WakesAll, WakesTaker
    <2>4. \A x, m : WakesSome(x, m) => x = o
      BY <2>2 DEF WakesSome
    <2> QED BY <1>2, <2>1, <2>3, <2>4 DEF StrandInv, WantingOK
  <1>16. Only(t, o) <=> IF call[t].fn = "wait_all" THEN \E k \in 1..Len(s) : s[k] = o ELSE \A k \in Ready(t) : s[k] = o
    BY DEF Only
  <1>17. CheckWait(t) = [status |-> "object", index |-> First(Ready(t))]
    BY <1>12, <1>13
  <1>18. n \in 1..Len(s) /\ s[n] = o
    BY <1>9
  <1> HIDE DEF s
  <1> QED BY <1>11, <1>14, <1>15, <1>16, <1>17, <1>18

LEMMA WakesUsed == ASSUME ServerInv, StrandInv, UntimedInv PROVE WakesAreUsed
  <1> SUFFICES ASSUME Doing("wake_up"), Head(todo).max # 0, NEW o, o = Head(todo).obj, Lit(o), Able(o) # {},
                      NEW t, t = queue[o][First(Able(o))][1], NEW k \in Able(o), queue[o][k][1] # t
               PROVE  o \in Takes(t, CheckWait(t))
    BY DEF WakesAreUsed
  <1>1. o \in Objs
    <2>1. todo \in Seq(Items) /\ todo # <<>> /\ TodoInv
      BY ServerParts DEF Doing, TodoInv
    <2>2. Head(todo) = todo[1] /\ 1 \in 1..Len(todo)
      BY <2>1, HeadTail
    <2> QED BY <2>1, <2>2 DEF TodoInv, IsItem, Doing
  <1>2. DOMAIN queue[o] = 1..Len(queue[o]) /\ QueueOK(o) /\ \A i \in 1..Len(queue[o]) : queue[o][i][1] \in Threads
    <2>1. queue[o] \in Seq(Threads \X Nat) /\ QueueOK(o)
      BY <1>1, ServerParts DEF StateInv, QueuesInv
    <2>2. ASSUME NEW q \in Seq(Threads \X Nat)
          PROVE  DOMAIN q = 1..Len(q) /\ \A i \in 1..Len(q) : q[i][1] \in Threads
      <3>1. DOMAIN q = 1..Len(q) /\ \A i \in 1..Len(q) : q[i] \in Threads \X Nat
        OBVIOUS
      <3> QED BY <3>1
    <2> QED BY <2>1, <2>2
  <1>3. Able(o) = {j \in 1..Len(queue[o]) : CanEnd(queue[o][j][1])}
    BY <1>2 DEF Able
  <1>4. PICK j : j = First(Able(o))
    OBVIOUS
  <1>5. j \in Able(o) /\ j <= k
    <2>1. Able(o) \in SUBSET Nat
      BY <1>3
    <2> QED BY <1>4, <2>1, FirstIn, FirstLeast
  <1>6. j \in 1..Len(queue[o]) /\ k \in 1..Len(queue[o]) /\ t = queue[o][j][1] /\ CanEnd(t) /\ t \in Threads
    BY <1>2, <1>3, <1>4, <1>5
  <1>7. HasWait(t, "call") /\ \E n \in DOMAIN WaitObjs(call[t]) : WaitObjs(call[t])[n] = o
    BY <1>2, <1>6 DEF QueueOK
  <1>8. WaitObjs(call[t]) \in Seq(Objs)
    BY <1>6, CallFormed, FormedObjs, ServerParts
  <1>9. \E n \in 1..Len(WaitObjs(call[t])) : WaitObjs(call[t])[n] = o
    <2>1. DOMAIN WaitObjs(call[t]) = 1..Len(WaitObjs(call[t]))
      BY <1>8
    <2> QED BY <1>7, <2>1
  <1>10. pc[t]["call"] # "server" /\ UntimedOK(t)
    BY <1>1, <1>5, <1>6 DEF UntimedInv, BackOK, EndsWith
  <1> QED BY <1>1, <1>6, <1>7, <1>9, <1>10, SleeperTakes

-----------------------------------------------------------------------------
(* The calls stay without timeout, and who is in a request stays last on   *)
(* the queues.                                                             *)

\* No wait-all of the programs has a timeout.
UntimedAlls == \A p \in Programs : \A t \in Threads : \A c \in p[t] : c.fn = "wait_all" => c.timeout = "infinite"

\* A step that begins no wait and no select for the thread.
Tame(t) ==
    /\ call'[t].fn = "wait_all" => call'[t] = call[t] /\ deadline'[t] = deadline[t]
    /\ pc'[t]["call"] = pc[t]["call"] \/ pc'[t]["call"] \notin {"driver", "server"}
\* Threads only leave the queues.
Thins == queue' = queue \/ \E E : queue' = [o \in Objs |-> Without(queue[o], E)]

LEMMA WithoutBack ==
  ASSUME NEW S, NEW q \in Seq(S), NEW E, NEW t,
         EndsWith(q, t)
  PROVE  EndsWith(Without(q, E), t)
  <1> SUFFICES ASSUME NEW i \in 1..Len(Without(q, E)), NEW j \in 1..Len(Without(q, E)), i <= j, Without(q, E)[i][1] = t
               PROVE  Without(q, E)[j][1] = t
    BY DEF EndsWith
  <1>1. \E k, m \in 1..Len(q) : k <= m /\ Without(q, E)[i] = q[k] /\ Without(q, E)[j] = q[m]
    BY WithoutAll
  <1> QED BY <1>1 DEF EndsWith

LEMMA JoinBack ==
  ASSUME NEW q \in Seq(Pairs), NEW e \in Seq(Pairs), NEW t,
         \A j \in 1..Len(q) : q[j][1] # t, \A j \in 1..Len(e) : e[j][1] = t
  PROVE  EndsWith(q \o e, t)
  <1>1. /\ Len(q) \in Nat /\ Len(q \o e) \in Nat /\ \A k \in 1..Len(q) : (q \o e)[k] = q[k]
        /\ \A k \in 1..Len(q \o e) : k \in 1..Len(q) \/ (k - Len(q) \in 1..Len(e) /\ (q \o e)[k] = e[k - Len(q)])
    BY Join
  <1> SUFFICES ASSUME NEW j \in 1..Len(q \o e), NEW k \in 1..Len(q \o e), j <= k, (q \o e)[j][1] = t
               PROVE  (q \o e)[k][1] = t
    BY DEF EndsWith
  <1>2. j \notin 1..Len(q)
    BY <1>1
  <1>3. k \notin 1..Len(q)
    <2>1. j \in Int /\ k \in Int /\ 1 <= j
      BY <1>1
    <2> QED BY <1>1, <1>2, <2>1
  <1> QED BY <1>1, <1>3

LEMMA TameOK ==
  ASSUME ServerInv, UntimedInv, Thins, \A t \in Threads : Tame(t)
  PROVE  UntimedInv'
  <1>0. queue \in [Objs -> Seq(Pairs)]
    BY ServerParts DEF StateInv, Pairs
  <1>1. ASSUME NEW t \in Threads PROVE UntimedOK(t)'
    BY DEF UntimedInv, UntimedOK, Tame
  <1>2. ASSUME NEW t \in Threads, pc'[t]["call"] = "server", NEW o \in Objs
        PROVE  EndsWith(queue'[o], t)
    <2>1. pc[t]["call"] = "server"
      BY <1>2 DEF Tame
    <2>2. PICK q \in Seq(Pairs) : q = queue[o]
      BY <1>0
    <2>3. EndsWith(q, t)
      BY <2>1, <2>2 DEF UntimedInv, BackOK
    <2>4. CASE queue' = queue
      BY <2>2, <2>3, <2>4
    <2>5. ASSUME NEW E, queue' = [x \in Objs |-> Without(queue[x], E)]
          PROVE  EndsWith(queue'[o], t)
      <3>1. queue'[o] = Without(q, E)
        BY <2>2, <2>5
      <3>2. EndsWith(Without(q, E), t)
        BY <2>3, WithoutBack
      <3> QED BY <3>1, <3>2
    <2> QED BY <2>4, <2>5 DEF Thins
  <1>3. \A t \in Threads : BackOK(t)'
    BY <1>2 DEF BackOK
  <1> QED BY <1>1, <1>3 DEF UntimedInv

LEMMA SameTame == ASSUME UNCHANGED <<pc, call, deadline>>, Thins, ServerInv, UntimedInv PROVE UntimedInv'
  BY TameOK DEF Tame

LEMMA SelectBack ==
  ASSUME ServerInv, UntimedInv, NEW t \in Threads, Select(t)
  PROVE  UntimedInv'
  <1>1. PICK f : f = Active(t)
    OBVIOUS
  <1>2. PICK objs : objs = IF f = "call" THEN WaitObjs(call[t]) ELSE <<>>
    OBVIOUS
  <1>3. /\ Idle /\ StorePrevApc(t, f) /\ f \in Frames
        /\ queue' = [o \in Objs |-> queue[o] \o Entries(t, objs, o)] /\ UNCHANGED deadline
    BY <1>1, <1>2 DEF Select, Entries, Active, Frames
  <1>4. \A u \in Threads : pc[u]["call"] # "server"
    BY <1>3, IdleNoServer, ServerParts DEF Frames
  <1>5. pc \in [Threads -> [Frames -> Places]] /\ queue \in [Objs -> Seq(Pairs)] /\ DOMAIN call = Threads
    BY ServerParts DEF StateInv, CallsInv, Pairs
  <1>6. ASSUME NEW u \in Threads
        PROVE  /\ call'[u] \in {call[u], NoCall}
               /\ pc'[u]["call"] \in {pc[u]["call"], "idle"} \/ (u = t /\ f = "call" /\ pc'[u]["call"] = "server")
    <2>1. call'[u] \in {call[u], NoCall}
      BY <1>3 DEF StorePrevApc
    <2>2. pc'[u] = IF u = t THEN [pc[t] EXCEPT ![f] = "server"]
                   ELSE IF u = prev[t][f] THEN [pc[u] EXCEPT !["call"] = "idle"] ELSE pc[u]
      BY <1>3 DEF StorePrevApc
    <2>3. pc'[u]["call"] \in {pc[u]["call"], "idle"} \/ (u = t /\ f = "call" /\ pc'[u]["call"] = "server")
      BY <1>3, <1>5, <2>2 DEF Frames
    <2> QED BY <2>1, <2>3
  <1>7. ASSUME NEW u \in Threads PROVE UntimedOK(u)'
    <2>1. call'[u].fn = "wait_all" => call'[u] = call[u]
      BY <1>6 DEF NoCall
    <2>2. deadline'[u] = deadline[u] /\ (pc'[u]["call"] = "driver" => pc[u]["call"] = "driver")
      BY <1>3, <1>6
    <2> QED BY <2>1, <2>2 DEF UntimedInv, UntimedOK
  <1>8. ASSUME NEW u \in Threads, pc'[u]["call"] = "server", NEW o \in Objs
        PROVE  EndsWith(queue'[o], u)
    <2>1. u = t /\ f = "call"
      BY <1>4, <1>6, <1>8
    <2>2. ~HasWait(t, "call")
      <3>1. pc[t]["call"] \in {"select", "again", "handler"}
        BY <1>1, <2>1 DEF Select
      <3> QED BY <3>1, NoWait, ServerParts DEF StacksInv
    <2>3. objs \in Seq(Objs)
      BY <1>2, <2>1, CallFormed, FormedObjs, ServerParts
    <2>4. PICK q \in Seq(Pairs) : q = queue[o]
      BY <1>5
    <2>5. \A j \in 1..Len(q) : q[j][1] # t
      <3>1. QueueOK(o)
        BY ServerParts DEF QueuesInv
      <3>2. \A j \in 1..Len(queue[o]) : HasWait(queue[o][j][1], "call")
        BY <3>1 DEF QueueOK
      <3> QED BY <2>2, <2>4, <3>2
    <2>6. PICK e \in Seq(Pairs) : e = Entries(t, objs, o) /\ \A j \in 1..Len(e) : e[j][1] = t
      BY <2>3, EntriesAll
    <2>7. queue'[o] = q \o e
      BY <1>3, <2>4, <2>6
    <2>8. EndsWith(q \o e, t)
      BY <2>5, <2>6, JoinBack
    <2> QED BY <2>1, <2>7, <2>8
  <1>9. \A u \in Threads : BackOK(u)'
    BY <1>8 DEF BackOK
  <1> QED BY <1>7, <1>9 DEF UntimedInv

LEMMA ReturnedTame ==
  ASSUME ServerInv, NEW t \in Threads, NEW f \in Frames, NEW s, Returned(t, f, s)
  PROVE  \A u \in Threads : Tame(u)
  <1>1. pc \in [Threads -> [Frames -> Places]] /\ DOMAIN call = Threads /\ deadline \in [Threads -> {"none", "later", "past"}]
    BY ServerParts DEF StateInv, CallsInv, FlagsInv
  <1>2. PICK x \in {"idle", "abort"} : pc' = [pc EXCEPT ![t][f] = x]
    BY DEF Returned
  <1>3. /\ call' = [call EXCEPT ![t] = IF f = "call" THEN NoCall ELSE @]
        /\ deadline' = [deadline EXCEPT ![t] = IF f = "call" THEN "none" ELSE @]
    BY DEF Returned
  <1>4. ASSUME NEW u \in Threads PROVE Tame(u)
    <2>1. pc'[u]["call"] \in {pc[u]["call"], "idle", "abort"}
      BY <1>1, <1>2 DEF Frames
    <2>2. call'[u].fn = "wait_all" => call'[u] = call[u] /\ deadline'[u] = deadline[u]
      BY <1>1, <1>3 DEF NoCall
    <2> QED BY <2>1, <2>2 DEF Tame
  <1> QED BY <1>4

LEMMA EndThins == ASSUME NEW t, NEW v, EndWait(t, v) PROVE Thins
  BY DEF EndWait, Thins

Proceeds(t, f) == \E x \in {"again", "read", "select", "handler"} : pc' = [pc EXCEPT ![t][f] = x]
LEMMA PlaceTame ==
  ASSUME ServerInv, NEW t \in Threads, NEW f \in Frames, Proceeds(t, f), UNCHANGED <<call, deadline>>
  PROVE  \A u \in Threads : Tame(u)
  <1>1. pc \in [Threads -> [Frames -> Places]]
    BY ServerParts DEF StateInv
  <1>2. PICK x \in {"again", "read", "select", "handler"} : pc' = [pc EXCEPT ![t][f] = x]
    BY DEF Proceeds
  <1>3. \A u \in Threads : pc'[u]["call"] \in {pc[u]["call"], x}
    BY <1>1, <1>2 DEF Frames
  <1> QED BY <1>3 DEF Tame

LEMMA SelectDoneBack ==
  ASSUME ServerInv, UntimedInv, NEW t \in Threads, SelectEnds(t) \/ SelectWoken(t) \/ SelectPends(t)
  PROVE  UntimedInv'
  <1>1. PICK f : f = Active(t)
    OBVIOUS
  <1>2. f \in Frames
    BY <1>1 DEF Active, Frames
  <1>3. CASE SelectEnds(t)
    <2>1. PICK v : v = CheckWait(t)
      OBVIOUS
    <2>2. Thins
      BY <1>3, <2>1, EndThins DEF SelectEnds
    <2>3. CASE v.status = "kernel_apc"
      <3>1. Proceeds(t, f) /\ UNCHANGED <<call, deadline>>
        BY <1>1, <1>3, <2>1, <2>3 DEF SelectEnds, Proceeds
      <3> QED BY <1>2, <2>2, <3>1, PlaceTame, TameOK
    <2>4. CASE v.status # "kernel_apc"
      <3>1. PICK s : s = v.status
        OBVIOUS
      <3>2. Returned(t, f, s)
        BY <1>1, <1>3, <2>1, <2>4, <3>1 DEF SelectEnds
      <3>3. \A u \in Threads : Tame(u)
        BY <1>2, <3>2, ReturnedTame
      <3> QED BY <2>2, <3>3, TameOK
    <2> QED BY <2>3, <2>4
  <1>4. CASE SelectWoken(t)
    <2>1. Returned(t, "call", "object") /\ UNCHANGED queue /\ "call" \in Frames
      BY <1>4 DEF SelectWoken, Frames
    <2> QED BY <2>1, ReturnedTame, TameOK DEF Thins
  <1>5. CASE SelectPends(t)
    <2>1. Proceeds(t, f) /\ UNCHANGED <<call, deadline, queue>>
      BY <1>1, <1>5 DEF SelectPends, Proceeds
    <2> QED BY <1>2, <2>1, PlaceTame, TameOK DEF Thins
  <1> QED BY <1>3, <1>4, <1>5

LEMMA ServerBack == ASSUME ServerInv, UntimedInv, ServerStep PROVE UntimedInv'
  <1>1. CASE WakeUpStep \/ ResetStep \/ AbandonStep
    <2>1. UNCHANGED <<queue, pc, call, deadline>>
      BY <1>1 DEF WakeUpStep, ResetStep, AbandonStep, client
    <2> QED BY <2>1, SameTame DEF Thins
  <1>2. CASE WakeThreadStep
    <2>1. UNCHANGED <<pc, call, deadline>>
      BY <1>2 DEF WakeThreadStep, client
    <2>2. (\E t, v : EndWait(t, v)) \/ queue' = queue
      BY <1>2 DEF WakeThreadStep
    <2>3. Thins
      BY <2>2, EndThins DEF Thins
    <2> QED BY <2>1, <2>3, SameTame
  <1>3. ASSUME NEW t \in Threads, SelectEnds(t) \/ SelectWoken(t) \/ SelectPends(t) PROVE UntimedInv'
    BY <1>3, SelectDoneBack
  <1> QED BY <1>1, <1>2, <1>3 DEF ServerStep

LEMMA ThreadBack == ASSUME ServerInv, UntimedInv, NEW t \in Threads, ClientStep(t) \/ TimeStep(t) PROVE UntimedInv'
  <1>0. "call" \in Frames /\ "suspend" \in Frames /\ Active(t) \in Frames
    BY DEF Frames, Active
  <1>1. CASE Select(t)
    BY <1>1, SelectBack
  <1>2. CASE SelectFails(t)
    <2>1. Returned(t, "call", "error") /\ UNCHANGED queue
      BY <1>2 DEF SelectFails
    <2> QED BY <1>0, <2>1, ReturnedTame, TameOK DEF Thins
  <1>3. CASE ReadReply(t)
    <2>1. PICK f \in Frames : f = Active(t)
      BY <1>0
    <2>2. PICK s : s = Head(pipe[t]).status
      OBVIOUS
    <2>3. UNCHANGED queue
      BY <1>3 DEF ReadReply
    <2>4. \/ UNCHANGED <<pc, call, deadline>>
          \/ Proceeds(t, f) /\ UNCHANGED <<call, deadline>>
          \/ Returned(t, f, s)
      BY <1>3, <2>1, <2>2 DEF ReadReply, Proceeds
    <2>5. CASE UNCHANGED <<pc, call, deadline>>
      BY <2>3, <2>5, SameTame DEF Thins
    <2>6. CASE Proceeds(t, f) /\ UNCHANGED <<call, deadline>>
      BY <2>3, <2>6, PlaceTame, TameOK DEF Thins
    <2>7. CASE Returned(t, f, s)
      BY <2>3, <2>7, ReturnedTame, TameOK DEF Thins
    <2> QED BY <2>4, <2>5, <2>6, <2>7
  <1>4. CASE Usr1Handler(t)
    <2>1. Proceeds(t, "suspend") /\ UNCHANGED <<call, deadline, queue>>
      BY <1>4 DEF Usr1Handler, Proceeds
    <2> QED BY <1>0, <2>1, PlaceTame, TameOK DEF Thins
  <1>5. CASE DriverAlerted(t) \/ Expire(t)
    <2>1. /\ pc \in [Threads -> [Frames -> Places]] /\ deadline \in [Threads -> {"none", "later", "past"}] /\ UntimedOK(t)
      BY ServerParts DEF StateInv, FlagsInv, UntimedInv
    <2>2. /\ UNCHANGED <<call, queue>> /\ deadline' = [deadline EXCEPT ![t] = "past"]
          /\ pc' = pc \/ pc' = [pc EXCEPT ![t]["call"] = "select"]
          /\ deadline[t] = "later" \/ pc[t]["call"] = "driver"
      BY <1>5 DEF DriverAlerted, Expire
    <2>3. call[t].fn # "wait_all"
      BY <2>1, <2>2 DEF UntimedOK
    <2>4. ASSUME NEW u \in Threads PROVE Tame(u)
      <3>1. pc'[u]["call"] \in {pc[u]["call"], "select"}
        BY <2>1, <2>2 DEF Frames
      <3>2. u # t => deadline'[u] = deadline[u]
        BY <2>1, <2>2
      <3> QED BY <2>2, <2>3, <3>1, <3>2 DEF Tame
    <2> QED BY <2>2, <2>4, TameOK DEF Thins
  <1>6. CASE ThreadTimeout(t)
    <2>1. UNCHANGED <<pc, call, deadline>>
      BY <1>6 DEF ThreadTimeout, client
    <2>2. (\E v : EndWait(t, v)) \/ queue' = queue
      BY <1>6 DEF ThreadTimeout
    <2>3. Thins
      BY <2>2, EndThins DEF Thins
    <2> QED BY <2>1, <2>3, SameTame
  <1>7. CASE TimerCallback(t)
    <2>1. UNCHANGED <<queue, pc, call, deadline>>
      BY <1>7 DEF TimerCallback, client
    <2> QED BY <2>1, SameTame DEF Thins
  <1> QED BY <1>1, <1>2, <1>3, <1>4, <1>5, <1>6, <1>7 DEF ClientStep, TimeStep

LEMMA BeginWaitBack ==
  ASSUME UntimedAlls, ServerInv, UntimedInv, NEW t \in Threads, NEW c \in program[t], BeginWait(t, c)
  PROVE  UntimedInv'
  <1>1. /\ pc \in [Threads -> [Frames -> Places]] /\ deadline \in [Threads -> {"none", "later", "past"}]
        /\ program \in Programs /\ DOMAIN call = Threads
    BY ServerParts DEF StateInv, FlagsInv, CallsInv
  <1>2. c.fn = "wait_all" => c.timeout = "infinite"
    BY <1>1 DEF UntimedAlls
  <1>3. /\ call' = [call EXCEPT ![t] = c] /\ UNCHANGED queue
        /\ pc' = [pc EXCEPT ![t]["call"] = IF c.fn = "inproc_wait" THEN "driver" ELSE "select"]
        /\ deadline' = [deadline EXCEPT ![t] = CASE c.timeout = "infinite" -> "none"
                                                 [] c.timeout = "finite" -> "later"
                                                 [] OTHER -> "past"]
    BY DEF BeginWait
  <1>4. ASSUME NEW u \in Threads PROVE UntimedOK(u)'
    <2>1. CASE u = t
      <3>1. call'[t] = c /\ (c.fn = "wait_all" => pc'[t]["call"] = "select")
        BY <1>1, <1>3 DEF Frames
      <3>2. c.timeout = "infinite" => deadline'[t] = "none"
        BY <1>1, <1>3
      <3> QED BY <1>2, <2>1, <3>1, <3>2 DEF UntimedOK
    <2>2. CASE u # t
      <3>1. call'[u] = call[u] /\ deadline'[u] = deadline[u] /\ pc'[u] = pc[u]
        BY <1>1, <1>3, <2>2
      <3> QED BY <3>1 DEF UntimedInv, UntimedOK
    <2> QED BY <2>1, <2>2
  <1>5. ASSUME NEW u \in Threads PROVE BackOK(u)'
    <2>1. pc'[u]["call"] \in {pc[u]["call"], "driver", "select"}
      BY <1>1, <1>3 DEF Frames
    <2> QED BY <1>3, <2>1 DEF UntimedInv, BackOK
  <1> QED BY <1>4, <1>5 DEF UntimedInv

LEMMA RequestBack ==
  ASSUME UntimedAlls, ServerInv, UntimedInv, NEW t \in Threads, NEW c \in program[t], Requests(t, c)
  PROVE  UntimedInv'
  <1>1. CASE BeginWait(t, c)
    BY <1>1, BeginWaitBack
  <1>2. CASE \/ Signal(t, c) \/ ResetEvent(t, c) \/ SuspendThread(t, c) \/ ResumeThread(t, c) \/ SetThreadContext(t, c)
             \/ QueueUserApc(t, c) \/ SetTimer(t, c) \/ CancelTimerOf(t, c)
    <2>1. UNCHANGED <<queue, pc, call, deadline>>
      BY <1>2 DEF Signal, ResetEvent, SuspendThread, ResumeThread, SetThreadContext, QueueUserApc, SetTimer,
                  CancelTimerOf, client
    <2> QED BY <2>1, SameTame DEF Thins
  <1>3. pc \in [Threads -> [Frames -> Places]] /\ DOMAIN call = Threads
    BY ServerParts DEF StateInv, CallsInv
  <1>4. CASE QueueSystemApc(t, c)
    <2>1. /\ UNCHANGED <<queue, deadline>> /\ c.fn = "queue_system"
          /\ \E x \in {"idle", "apc_wait"} : pc' = [pc EXCEPT ![t]["call"] = x]
          /\ \E d \in {c, NoCall} : call' = [call EXCEPT ![t] = d]
      BY <1>4 DEF QueueSystemApc
    <2>2. ASSUME NEW u \in Threads PROVE Tame(u)
      <3>1. pc'[u]["call"] \in {pc[u]["call"], "idle", "apc_wait"}
        BY <1>3, <2>1 DEF Frames
      <3>2. call'[u] \in {call[u], c, NoCall}
        BY <1>3, <2>1
      <3> QED BY <2>1, <3>1, <3>2 DEF Tame, NoCall
    <2> QED BY <2>1, <2>2, TameOK DEF Thins
  <1>5. CASE KillThread(t, c)
    <2>1. /\ UNCHANGED <<call, deadline>> /\ queue' = [o \in Objs |-> Without(queue[o], {c.owner})]
          /\ \A u \in Threads : pc'[u] \in {pc[u], [pc[u] EXCEPT !["call"] = "requeue"]}
      BY <1>5 DEF KillThread
    <2>2. ASSUME NEW u \in Threads PROVE Tame(u)
      <3>1. pc'[u]["call"] \in {pc[u]["call"], "requeue"}
        BY <1>3, <2>1 DEF Frames
      <3> QED BY <2>1, <3>1 DEF Tame
    <2>3. Thins
      BY <2>1 DEF Thins
    <2> QED BY <2>2, <2>3, TameOK
  <1> QED BY <1>1, <1>2, <1>4, <1>5 DEF Requests

LEMMA UntimedInit == Init => UntimedInv
  <1> SUFFICES ASSUME Init PROVE UntimedInv
    OBVIOUS
  <1>1. \A t \in Threads : call[t] = NoCall /\ pc[t]["call"] = "idle"
    BY DEF Init, Frames
  <1> QED BY <1>1 DEF UntimedInv, UntimedOK, BackOK, NoCall

LEMMA UntimedNext == UntimedAlls => (ServerInv /\ UntimedInv /\ [Next]_vars => UntimedInv')
  <1> SUFFICES ASSUME UntimedAlls, ServerInv, UntimedInv, [Next]_vars PROVE UntimedInv'
    OBVIOUS
  <1>1. CASE UNCHANGED vars
    <2>1. UNCHANGED <<queue, pc, call, deadline>>
      BY <1>1 DEF vars, client
    <2> QED BY <2>1, SameTame DEF Thins
  <1>2. CASE Next
    BY <1>2, ServerBack, ThreadBack, RequestBack DEF Next
  <1> QED BY <1>1, <1>2

\* The same without a condition on the states, for programs in which no wait
\* for all objects has a timeout: whatever else the threads call, however they
\* are suspended, sent APCs or killed, no request or timer leaves a thread asleep
\* whose wait could end (release_semaphore, wake_up, resume_thread, wake_thread).
THEOREM UntimedWaitsNotStranded == ASSUME UntimedAlls PROVE Spec => []NoStrandedWait
  <1>1. ServerInv /\ UntimedInv /\ [Next]_vars => UntimedInv'
    BY UntimedNext
  <1>2. ServerInv /\ StrandInv /\ UntimedInv => WakesAreUsed
    BY WakesUsed
  <1> QED BY <1>1, <1>2, UntimedInit, ServerInit, ServerNext, AlertInit, AlertNext, StrandInit, StrandNext,
             StrandIdle, PTL DEF Spec
=============================================================================
