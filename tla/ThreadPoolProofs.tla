-------------------------- MODULE ThreadPoolProofs --------------------------
(***************************************************************************)
(* Theorems about ThreadPool, for any number of clients, workers, objects  *)
(* and calls: the counts of the pool are exact (PoolTypes), and no work    *)
(* waits for a worker that sleeps (ItemsAreServed).                        *)
(*                                                                         *)
(* For each action X a lemma XDoes says what X changes and that everybody  *)
(* else at most wakes up or starts (Moved); the parts of the invariant are *)
(* then shown for the steps of a worker, of the timer thread and of a      *)
(* client, and for the last release of an object.                          *)
(***************************************************************************)
EXTENDS ThreadPool, TLAPS, FiniteSetTheorems

-----------------------------------------------------------------------------
(* The inductive invariant, first part: types and places.                  *)

Places ==
    {"none", "start", "woken", "timedout", "late", "sleep", "loop", "rest", "exit", "callback", "destroy",
     "unlock_pool", "free", "unref", "wait", "scan", "submit", "idle", "pool_lock", "timer_lock", "init",
     "set", "cancel", "timer_unlock", "drop", "members", "walk", "walk_timer", "done", "close_group",
     "close_pool", "max", "min"}
PoolRecords == [ref : Int, objcount : Int, shutdown : BOOLEAN, min : Int, max : Int, workers : Int,
                busy : Int, freed : BOOLEAN]
ObjRecords == [state : {"none", "live", "freed"}, ref : Int, shutdown : BOOLEAN, pending : Int,
               running : Int, associated : Int, member : BOOLEAN]
TimerRecords == [initialized : BOOLEAN, pending : BOOLEAN, due : BOOLEAN]
GroupRecords == [ref : Int, shutdown : BOOLEAN, members : Seq(Objs), freed : BOOLEAN]
InstRecords == [associated : BOOLEAN, long : BOOLEAN]
Steps == [do : {"cancel", "wait"}, obj : Objs]

TypesInv ==
    /\ poolCs \in Workers \cup {NoOne} /\ groupCs \in Clients \cup {NoOne} /\ timerCs \in {TimerThread, NoOne}
    /\ pool \in PoolRecords /\ group \in GroupRecords
    /\ queue \in [1..3 -> Seq(Objs)] /\ obj \in [Objs -> ObjRecords] /\ timer \in [Objs -> TimerRecords]
    /\ pc \in [Threads -> Places] /\ cur \in [Threads -> Objs \cup {NoOne}] /\ inst \in [Workers -> InstRecords]
    /\ call \in [Clients -> Calls \cup {NoCall}] /\ script \in [Clients -> Seq(Calls)]
    /\ todo \in [Clients -> Seq(Objs \cup Steps)]
    /\ closed \in SUBSET Objs /\ quiet \in SUBSET Objs /\ failed \in BOOLEAN

\* What a worker does to its object, and where it holds pool->cs.
WorkerOK(w) ==
    /\ pc[w] \in {"none", "start", "woken", "timedout", "late", "sleep", "loop", "rest", "exit", "callback",
                  "destroy", "unlock_pool", "free", "unref"}
    /\ cur[w] \in Objs <=> pc[w] \in {"callback", "destroy", "unlock_pool", "free"}
    /\ poolCs = w <=> pc[w] \in {"loop", "rest", "exit", "destroy", "unlock_pool", "free"}
\* The timer thread holds timerqueue.cs while it submits.
TimerThreadOK ==
    /\ pc[TimerThread] \in {"none", "wait", "scan", "submit"}
    /\ cur[TimerThread] \in IF pc[TimerThread] = "submit" THEN Timers ELSE {NoOne}
    /\ timerCs = TimerThread <=> pc[TimerThread] \in {"scan", "submit"}
\* The places of each call.
PlaceOK(t) ==
    \/ call[t].fn = "none" /\ pc[t] = "idle"
    \/ call[t].fn = "alloc" /\ pc[t] \in {"pool_lock", "timer_lock", "init"}
    \/ call[t].fn = "simple" /\ pc[t] \in {"pool_lock", "submit", "init", "drop", "destroy", "unlock_pool", "free"}
    \/ call[t].fn = "post" /\ pc[t] = "submit"
    \/ call[t].fn = "set" /\ pc[t] \in {"set", "submit"}
    \/ call[t].fn = "wait" /\ pc[t] \in {"cancel", "wait", "sleep"}
    \/ call[t].fn = "release" /\ pc[t] \in {"timer_unlock", "drop", "destroy", "unlock_pool", "free"}
    \/ call[t].fn = "members" /\ pc[t] \in {"members", "walk", "walk_timer", "cancel", "wait", "sleep", "done",
                                            "destroy", "unlock_pool", "free"}
    \/ call[t].fn = "close_group" /\ pc[t] = "close_group"
    \/ call[t].fn = "close_pool" /\ pc[t] \in {"close_pool", "unref"}
    \/ call[t].fn = "max" /\ pc[t] = "max"
    \/ call[t].fn = "min" /\ pc[t] = "min"
Walking(t) == pc[t] \in {"walk", "walk_timer"}
\* What a call works on, and what the release of a group has left to do.
WorkOK(t) ==
    /\ call[t].fn # "members" => cur[t] = call[t].obj /\ todo[t] = <<>>
    /\ pc[t] = "members" => cur[t] = NoOne /\ todo[t] = <<>>
    /\ call[t].fn = "members" /\ pc[t] \notin {"members", "walk"} => cur[t] \in Objs
    /\ \A k \in 1..Len(todo[t]) : todo[t][k] \in IF Walking(t) THEN Objs ELSE Steps
    /\ pc[t] \in {"timer_lock", "timer_unlock", "walk_timer"} => cur[t] \in Timers
    /\ groupCs = t <=> Walking(t)
ThreadsInv ==
    /\ \A w \in Workers : WorkerOK(w)
    /\ TimerThreadOK
    /\ \A t \in Clients : PlaceOK(t) /\ WorkOK(t)

\* Nobody works on an object that is not allocated but the one who allocates it.
Born(o) == obj[o].state # "none"
ListBorn(s, walking) == \A k \in 1..Len(s) : Born(IF walking THEN s[k] ELSE s[k].obj)
Allocates(t) == call[t].fn \in {"alloc", "simple"}
BirthInv ==
    /\ \A o \in Objs : ~Born(o) => /\ obj[o].pending = 0 /\ obj[o].running = 0
                                   /\ ~timer[o].initialized /\ ~timer[o].pending /\ ~timer[o].due
    /\ \A t \in Threads : cur[t] \in Objs => (Born(cur[t]) <=> pc[t] # "pool_lock")
    /\ \A t \in Clients : ListBorn(todo[t], Walking(t))
    /\ ListBorn(group.members, TRUE)
    /\ \A t, u \in Clients : Allocates(t) /\ call[u].obj = call[t].obj => u = t

-----------------------------------------------------------------------------
(* ... second part: the counts of TypeOK.                                  *)

Employed == {w \in Workers : pc[w] \notin {"none", "unref"}}
Callbacks == {w \in Workers : pc[w] = "callback"}
Among(o, s) == \E k \in 1..Len(s) : s[k] = o
Distinct(s) == \A j, k \in 1..Len(s) : s[j] = s[k] => j = k
QueueOK(p) ==
    /\ Distinct(queue[p])
    /\ \A k \in 1..Len(queue[p]) : Priority[queue[p][k]] = p /\ obj[queue[p][k]].pending > 0
QueueInv ==
    /\ \A p \in 1..3 : QueueOK(p)
    /\ \A o \in Objs : obj[o].pending >= 0 /\ (obj[o].pending > 0 => Among(o, queue[Priority[o]]))
    /\ \A w \in Workers : pc[w] = "rest" => ~HasItem
CountInv ==
    /\ pool.workers = Cardinality(Employed)
    /\ \A o \in Objs : obj[o].running = Cardinality(Runs(o))
    /\ pool.busy >= Len(queue[1]) + Len(queue[2]) + Len(queue[3]) + Cardinality(Callbacks)

-----------------------------------------------------------------------------
(* ... third part: a worker for every callback that waits for one.         *)

Tokens == {x \in Objs \X Nat : x[2] \in 1..obj[x[1]].pending}
Coming == {w \in Workers : pc[w] \in {"start", "woken", "late", "loop"}}
WakeInv ==
    /\ IsFiniteSet(Tokens)
    /\ (\E w \in Workers : pc[w] = "sleep") => Cardinality(Tokens) <= Cardinality(Coming)

PoolInv == TypesInv /\ ThreadsInv /\ BirthInv /\ QueueInv /\ CountInv /\ WakeInv

-----------------------------------------------------------------------------
(* Constants, lists and counts.                                            *)

LEMMA Kinds ==
  /\ Clients \subseteq Threads /\ Workers \subseteq Threads /\ TimerThread \in Threads
  /\ Threads = Clients \cup Workers \cup {TimerThread}
  /\ \A t \in Clients : t \notin Workers /\ t # TimerThread /\ t # NoOne
  /\ \A w \in Workers : w \notin Clients /\ w # TimerThread /\ w # NoOne
  /\ TimerThread \notin Clients /\ TimerThread \notin Workers /\ TimerThread # NoOne
  /\ NoOne \notin Objs /\ Simples \subseteq Objs /\ Timers \subseteq Objs /\ Grouped \subseteq Objs
  /\ Simples \cap Timers = {} /\ Priority \in [Objs -> 1..3]
  /\ IsFiniteSet(Workers) /\ IsFiniteSet(Objs)
  BY PoolAssumption DEF Threads

LEMMA SeqFacts ==
  ASSUME NEW S, NEW s \in Seq(S)
  PROVE  /\ Len(s) \in Nat /\ s \in [1..Len(s) -> S]
         /\ s # <<>> <=> Len(s) > 0
         /\ s # <<>> => /\ Head(s) = s[1] /\ Head(s) \in S /\ Tail(s) \in Seq(S) /\ Len(Tail(s)) = Len(s) - 1
                        /\ \A k \in 1..(Len(s) - 1) : Tail(s)[k] = s[k + 1]
  OBVIOUS

LEMMA SeqAmong ==
  ASSUME NEW S, NEW T, NEW s \in Seq(S), \A k \in 1..Len(s) : s[k] \in T
  PROVE  s \in Seq(T)
  <1>1. s \in [1..Len(s) -> T] /\ Len(s) \in Nat
    OBVIOUS
  <1> QED
    BY <1>1

LEMMA NothingLeft == <<>> \in Seq(Steps) /\ Len(<<>>) = 0
  OBVIOUS

\* What the release of a group has left, outside of the group's lock.
LEMMA LeftSteps ==
  ASSUME TypesInv, ThreadsInv, NEW t \in Clients, ~Walking(t)
  PROVE  todo[t] \in Seq(Steps)
  <1>1. todo[t] \in Seq(Objs \cup Steps) /\ \A k \in 1..Len(todo[t]) : todo[t][k] \in Steps
    BY DEF TypesInv, ThreadsInv, WorkOK
  <1> QED
    BY <1>1, SeqAmong

LEMMA UnlinkFacts ==
  ASSUME NEW S, NEW s \in Seq(S), NEW o, Among(o, s), Distinct(s)
  PROVE  /\ Unlink(s, o) \in Seq(S) /\ Len(Unlink(s, o)) = Len(s) - 1
         /\ Distinct(Unlink(s, o))
         /\ \A x : Among(x, Unlink(s, o)) <=> x # o /\ Among(x, s)
         /\ \A k \in 1..(Len(s) - 1) : \E j \in 1..Len(s) : Unlink(s, o)[k] = s[j]
  <1> DEFINE n == CHOOSE k \in 1..Len(s) : s[k] = o
             r == Unlink(s, o)
  <1>1. n \in 1..Len(s) /\ s[n] = o /\ Len(s) \in Nat
    BY DEF Among
  <1>2. r = [k \in 1..(Len(s) - 1) |-> IF k < n THEN s[k] ELSE s[k + 1]]
    BY DEF Unlink
  <1>3. \A k \in 1..(Len(s) - 1) : k \in 1..Len(s) /\ k + 1 \in 1..Len(s)
    BY <1>1
  <1> HIDE DEF n, r
  <1>4. r \in Seq(S) /\ Len(r) = Len(s) - 1
    <2>1. r \in [1..(Len(s) - 1) -> S] /\ Len(s) - 1 \in Nat
      BY <1>1, <1>2, <1>3
    <2> QED
      BY <2>1
  <1>5. Distinct(r)
    BY <1>1, <1>2, <1>3, <1>4 DEF Distinct
  <1>6. \A k \in 1..(Len(s) - 1) : \E j \in 1..Len(s) : r[k] = s[j] /\ j # n
    BY <1>1, <1>2, <1>3
  <1>7. ASSUME NEW j \in 1..Len(s), j # n PROVE \E k \in 1..(Len(s) - 1) : r[k] = s[j]
    <2>1. CASE j < n
      BY <2>1, <1>1, <1>2
    <2>2. CASE j > n
      <3>1. j - 1 \in 1..(Len(s) - 1) /\ ~(j - 1 < n) /\ (j - 1) + 1 = j
        BY <2>2, <1>1
      <3>2. r[j - 1] = s[j]
        BY <3>1, <1>2
      <3> QED
        BY <3>1, <3>2
    <2> QED
      BY <1>1, <1>7, <2>1, <2>2
  <1>8. ASSUME NEW x PROVE Among(x, r) <=> x # o /\ Among(x, s)
    <2>1. Among(x, r) => x # o /\ Among(x, s)
      BY <1>1, <1>4, <1>6 DEF Among, Distinct
    <2>2. x # o /\ Among(x, s) => Among(x, r)
      BY <1>1, <1>4, <1>7 DEF Among
    <2> QED
      BY <2>1, <2>2
  <1> QED
    BY <1>4, <1>5, <1>6, <1>8 DEF r

LEMMA UnlinkType ==
  ASSUME NEW S, NEW s \in Seq(S), NEW o
  PROVE  Unlink(s, o) \in Seq(S)
  <1> DEFINE n == CHOOSE k \in 1..Len(s) : s[k] = o
             m == IF Len(s) = 0 THEN 0 ELSE Len(s) - 1
  <1>1. Unlink(s, o) = [k \in 1..m |-> IF k < n THEN s[k] ELSE s[k + 1]]
    <2>1. Len(s) \in Nat /\ 1..(Len(s) - 1) = 1..m
      OBVIOUS
    <2> QED
      BY <2>1 DEF Unlink
  <1>2. m \in Nat /\ \A k \in 1..m : s[k] \in S /\ s[k + 1] \in S
    OBVIOUS
  <1> HIDE DEF n, m
  <1>3. Unlink(s, o) \in [1..m -> S]
    BY <1>1, <1>2
  <1> QED
    BY <1>2, <1>3

LEMMA WorkerSets ==
  ASSUME NEW S \in SUBSET Workers
  PROVE  IsFiniteSet(S) /\ Cardinality(S) \in Nat
  BY Kinds, FS_Subset, FS_CardinalityType

-----------------------------------------------------------------------------
(* Steps: types, and what a step does to records and to other threads.     *)

ObjGoes(o, st, rf, sh, pe, ru, as, me) ==
    /\ obj' \in [Objs -> ObjRecords] /\ \A x \in Objs \ {o} : obj'[x] = obj[x]
    /\ obj'[o].state = st /\ obj'[o].ref = rf /\ obj'[o].shutdown = sh /\ obj'[o].pending = pe
    /\ obj'[o].running = ru /\ obj'[o].associated = as /\ obj'[o].member = me
PoolGoes(rf, oc, sd, wk, bs) ==
    /\ pool' \in PoolRecords
    /\ pool'.ref = rf /\ pool'.objcount = oc /\ pool'.shutdown = sd /\ pool'.workers = wk /\ pool'.busy = bs
TimerGoes(o, in, pe, du) ==
    /\ timer' \in [Objs -> TimerRecords] /\ \A x \in Objs \ {o} : timer'[x] = timer[x]
    /\ timer'[o].initialized = in /\ timer'[o].pending = pe /\ timer'[o].due = du
GroupGoes(rf, sd, ms) ==
    group' \in GroupRecords /\ group'.ref = rf /\ group'.shutdown = sd /\ group'.members = ms

\* A thread that another one's step leaves where it is, or wakes, or starts.
Drift(u) ==
    /\ cur'[u] = cur[u]
    /\ \/ pc'[u] = pc[u]
       \/ u \in Workers /\ pc[u] = "none" /\ pc'[u] = "start"
       \/ u \in Workers /\ pc[u] = "sleep" /\ pc'[u] = "woken"
       \/ u \in Workers /\ pc[u] = "timedout" /\ pc'[u] = "late"
       \/ u \in Clients /\ pc[u] = "sleep" /\ pc'[u] = "wait"
       \/ u = TimerThread /\ pc[u] = "none" /\ pc'[u] = "wait"
    /\ u \in Clients => call'[u] = call[u] /\ todo'[u] = todo[u] /\ (groupCs' = u <=> groupCs = u)
    /\ u \in Workers => inst'[u] = inst[u] /\ (poolCs' = u <=> poolCs = u)
    /\ u = TimerThread => (timerCs' = u <=> timerCs = u)
Moved(t) == \A u \in Threads \ {t} : Drift(u)
\* A worker is started, or none is.
Hired(t, w) ==
    /\ w # t /\ w \in Workers /\ pc[w] = "none" /\ pc'[w] = "start"
    /\ \A v \in Workers \ {t, w} : pc'[v] = pc[v]
Unhired(t) == \A v \in Workers \ {t} : pc[v] = "none" => pc'[v] = "none"

LEMMA AfterFacts ==
  ASSUME TypesInv, NEW t \in Clients, NEW rest \in Seq(Steps), After(t, rest)
  PROVE  /\ pc' \in [Threads -> Places] /\ cur' \in [Threads -> Objs \cup {NoOne}]
         /\ todo' \in [Clients -> Seq(Objs \cup Steps)] /\ call' \in [Clients -> Calls \cup {NoCall}]
         /\ \A u \in Threads \ {t} : pc'[u] = pc[u] /\ cur'[u] = cur[u]
         /\ \A u \in Clients \ {t} : todo'[u] = todo[u] /\ call'[u] = call[u]
         /\ rest = <<>> => pc'[t] = "idle" /\ cur'[t] = NoOne /\ todo'[t] = <<>> /\ call'[t] = NoCall
         /\ rest # <<>> =>
               /\ pc'[t] = rest[1].do /\ cur'[t] = rest[1].obj /\ call'[t] = call[t] /\ todo'[t] = Tail(rest)
               /\ Len(todo'[t]) = Len(rest) - 1 /\ \A k \in 1..(Len(rest) - 1) : todo'[t][k] = rest[k + 1]
  <1>1. /\ pc \in [Threads -> Places] /\ cur \in [Threads -> Objs \cup {NoOne}]
        /\ todo \in [Clients -> Seq(Objs \cup Steps)] /\ call \in [Clients -> Calls \cup {NoCall}]
        /\ t \in Threads
    BY Kinds DEF TypesInv
  <1>2. CASE rest = <<>>
    <2>1. /\ pc' = [pc EXCEPT ![t] = "idle"] /\ cur' = [cur EXCEPT ![t] = NoOne]
          /\ todo' = [todo EXCEPT ![t] = <<>>] /\ call' = [call EXCEPT ![t] = NoCall]
      BY <1>2 DEF After
    <2>2. "idle" \in Places /\ <<>> \in Seq(Objs \cup Steps)
      BY DEF Places
    <2> QED
      BY <1>1, <1>2, <2>1, <2>2, Kinds
  <1>3. CASE rest # <<>>
    <2>1. /\ Head(rest) = rest[1] /\ rest[1] \in Steps /\ Tail(rest) \in Seq(Steps)
          /\ Len(Tail(rest)) = Len(rest) - 1 /\ \A k \in 1..(Len(rest) - 1) : Tail(rest)[k] = rest[k + 1]
      BY <1>3, SeqFacts
    <2>2. /\ pc' = [pc EXCEPT ![t] = rest[1].do] /\ cur' = [cur EXCEPT ![t] = rest[1].obj]
          /\ todo' = [todo EXCEPT ![t] = Tail(rest)] /\ call' = [call EXCEPT ![t] = @]
      BY <1>3, <2>1 DEF After
    <2>3. rest[1].do \in Places /\ rest[1].obj \in Objs
      BY <2>1 DEF Places, Steps
    <2>4. Tail(rest) \in Seq(Objs \cup Steps)
      BY <2>1
    <2> HIDE DEF Steps
    <2> QED
      BY <1>1, <1>3, <2>1, <2>2, <2>3, <2>4, Kinds
  <1> QED
    BY <1>2, <1>3

LEMMA SubmitFacts ==
  ASSUME TypesInv, NEW o \in Objs, NEW t \in Threads, NEW p \in Places, t \notin Workers, Submit(o, t, p)
  PROVE  /\ pc' \in [Threads -> Places] /\ queue' \in [1..3 -> Seq(Objs)] /\ failed' \in BOOLEAN /\ pc'[t] = p
         /\ ObjGoes(o, obj[o].state, obj[o].ref + 1, obj[o].shutdown, obj[o].pending + 1, obj[o].running,
                    obj[o].associated, obj[o].member)
         /\ LET busy == pool.busy + (IF obj[o].pending = 0 THEN 1 ELSE 0)
            IN  \/ /\ \E w \in Workers : Hired(t, w)
                   /\ PoolGoes(pool.ref + 1, pool.objcount, pool.shutdown, pool.workers + 1, busy)
                \/ /\ Unhired(t)
                   /\ PoolGoes(pool.ref, pool.objcount, pool.shutdown, pool.workers, busy)
         /\ \A u \in Threads \ {t} :
               \/ pc'[u] = pc[u]
               \/ u \in Workers /\ pc[u] = "none" /\ pc'[u] = "start"
               \/ u \in Workers /\ pc[u] = "sleep" /\ pc'[u] = "woken"
               \/ u \in Workers /\ pc[u] = "timedout" /\ pc'[u] = "late"
  <1> DEFINE busy == pool.busy + (IF obj[o].pending = 0 THEN 1 ELSE 0)
             starts == WantsWorker /\ pool.workers < pool.max /\ Spare # {}
  <1>0. /\ obj \in [Objs -> ObjRecords] /\ pool \in PoolRecords /\ pc \in [Threads -> Places]
        /\ queue \in [1..3 -> Seq(Objs)] /\ failed \in BOOLEAN
    BY DEF TypesInv
  <1>1. ObjGoes(o, obj[o].state, obj[o].ref + 1, obj[o].shutdown, obj[o].pending + 1, obj[o].running,
                obj[o].associated, obj[o].member)
    <2>1. obj' = [obj EXCEPT ![o].ref = @ + 1, ![o].pending = @ + 1]
      BY DEF Submit
    <2>2. obj \in [Objs -> ObjRecords]
      BY <1>0
    <2> QED
      BY <2>1, <2>2 DEF ObjGoes, ObjRecords
  <1>2. Priority[o] \in 1..3 /\ Append(queue[Priority[o]], o) \in Seq(Objs)
    BY <1>0, Kinds
  <1>3. queue' \in [1..3 -> Seq(Objs)]
    BY <1>0, <1>2 DEF Submit, Queued
  <1>4. failed' \in BOOLEAN
    BY <1>0 DEF Submit, Asserts
  <1>b. busy \in Int
    BY <1>0 DEF PoolRecords
  <1>5. CASE starts
    <2>1. PICK w \in Spare : StartWorker(w, t, p)
      BY <1>5 DEF Submit
    <2>2. w \in Workers /\ pc[w] = "none" /\ w # t
      BY <2>1 DEF Spare
    <2>3. PoolGoes(pool.ref + 1, pool.objcount, pool.shutdown, pool.workers + 1, busy)
      <3>1. pool' = [Staffed(pool) EXCEPT !.busy = busy]
        BY <1>5 DEF Submit
      <3> HIDE DEF busy
      <3>2. pool' = [ref |-> pool.ref + 1, objcount |-> pool.objcount, shutdown |-> pool.shutdown, min |-> pool.min,
                     max |-> pool.max, workers |-> pool.workers + 1, busy |-> busy, freed |-> pool.freed]
        BY <1>0, <1>b, <3>1 DEF Staffed, PoolRecords
      <3> QED
        BY <1>0, <1>b, <3>2 DEF PoolGoes, PoolRecords
    <2>4. pc' = [pc EXCEPT ![w] = "start", ![t] = p] /\ "start" \in Places
      BY <2>1 DEF StartWorker, Places
    <2>5. w \in Threads
      BY <2>2, Kinds
    <2>6. Hired(t, w)
      BY <1>0, <2>2, <2>4, <2>5, Kinds DEF Hired
    <2> HIDE DEF busy
    <2> QED
      BY <1>0, <1>1, <1>3, <1>4, <2>2, <2>3, <2>4, <2>5, <2>6 DEF busy
  <1>6. CASE ~starts
    <2>1. PICK S \in Chosen : WakeWorkers(S, t, p)
      BY <1>6 DEF Submit
    <2>2. S \subseteq Sleepers
      BY DEF Chosen
    <2>3. PoolGoes(pool.ref, pool.objcount, pool.shutdown, pool.workers, busy)
      <3>1. pool' = [pool EXCEPT !.busy = busy]
        BY <1>6 DEF Submit
      <3> HIDE DEF busy
      <3>2. pool' = [ref |-> pool.ref, objcount |-> pool.objcount, shutdown |-> pool.shutdown, min |-> pool.min,
                     max |-> pool.max, workers |-> pool.workers, busy |-> busy, freed |-> pool.freed]
        BY <1>0, <1>b, <3>1 DEF PoolRecords
      <3> QED
        BY <1>0, <1>b, <3>2 DEF PoolGoes, PoolRecords
    <2>4. pc' = [x \in Threads |-> IF x = t THEN p ELSE IF x \in S THEN Awake(pc[x]) ELSE pc[x]]
      BY <2>1 DEF WakeWorkers
    <2>5. \A x \in S : /\ x \in Workers
                       /\ (pc[x] = "sleep" /\ Awake(pc[x]) = "woken") \/ (pc[x] = "timedout" /\ Awake(pc[x]) = "late")
      <3> SUFFICES ASSUME NEW x \in S
                   PROVE  /\ x \in Workers
                          /\ \/ pc[x] = "sleep" /\ Awake(pc[x]) = "woken"
                             \/ pc[x] = "timedout" /\ Awake(pc[x]) = "late"
        OBVIOUS
      <3>1. x \in Workers /\ pc[x] \in {"sleep", "timedout"}
        BY <2>2 DEF Sleepers
      <3>2. Awake("sleep") = "woken" /\ Awake("timedout") = "late"
        BY DEF Awake
      <3> QED
        BY <3>1, <3>2
    <2>6. "woken" \in Places /\ "late" \in Places
      BY DEF Places
    <2>7. Unhired(t)
      BY <2>4, <2>5, Kinds DEF Unhired
    <2> HIDE DEF busy
    <2> QED
      BY <1>0, <1>1, <1>3, <1>4, <2>3, <2>4, <2>5, <2>6, <2>7, Kinds DEF busy
  <1> QED
    BY <1>5, <1>6

LEMMA WorkerEnterDoes ==
  ASSUME TypesInv, ThreadsInv, NEW w \in Workers, WorkerEnter(w)
  PROVE  /\ TypesInv' /\ Moved(w)
  <1>0. /\ poolCs \in Workers \cup {NoOne} /\ groupCs \in Clients \cup {NoOne} /\ timerCs \in {TimerThread, NoOne}
        /\ pool \in PoolRecords /\ group \in GroupRecords
        /\ queue \in [1..3 -> Seq(Objs)] /\ obj \in [Objs -> ObjRecords] /\ timer \in [Objs -> TimerRecords]
        /\ pc \in [Threads -> Places] /\ cur \in [Threads -> Objs \cup {NoOne}] /\ inst \in [Workers -> InstRecords]
        /\ call \in [Clients -> Calls \cup {NoCall}] /\ script \in [Clients -> Seq(Calls)]
        /\ todo \in [Clients -> Seq(Objs \cup Steps)]
        /\ closed \in SUBSET Objs /\ quiet \in SUBSET Objs /\ failed \in BOOLEAN
    BY DEF TypesInv
  <1>t. w \in Threads
    BY Kinds
  <1>u. groupCs' = groupCs /\ timerCs' = timerCs /\ pool' = pool /\ queue' = queue /\ obj' = obj /\ timer' = timer /\
          group' = group /\ cur' = cur /\ inst' = inst /\ call' = call /\ todo' = todo /\ script' = script /\
            closed' = closed /\ quiet' = quiet /\ failed' = failed
    BY DEF WorkerEnter, locks, history
  <1>h. poolCs = NoOne
    BY DEF WorkerEnter
  <1>1. poolCs' = w
    BY DEF WorkerEnter
  <1>2. poolCs' \in Workers \cup {NoOne}
    BY <1>0, <1>t, <1>1, Kinds DEF Places, InstRecords
  <1>3. pc' = [pc EXCEPT ![w] = IF pc[w] \in {"timedout", "late"} /\ MayLeave THEN "exit" ELSE "loop"]
    BY DEF WorkerEnter
  <1>4. pc' \in [Threads -> Places]
    BY <1>0, <1>t, <1>3, Kinds DEF Places, InstRecords
  <1>y. TypesInv'
    BY <1>0, <1>u, <1>2, <1>4 DEF TypesInv, ObjGoes, PoolGoes, TimerGoes, GroupGoes
  <1>z. Moved(w)
    BY <1>0, <1>t, <1>u, <1>h, <1>1, <1>2, <1>3, <1>4, Kinds DEF Moved, Drift
  <1> QED
    BY <1>h, <1>1, <1>2, <1>3, <1>4, <1>y, <1>z

LEMMA NextFacts ==
  ASSUME TypesInv, QueueInv, HasItem
  PROVE  /\ NextItem \in Objs /\ Priority[NextItem] \in 1..3 /\ queue[Priority[NextItem]] \in Seq(Objs)
         /\ queue[Priority[NextItem]] # <<>> /\ NextItem = Head(queue[Priority[NextItem]])
  <1> DEFINE p == CHOOSE p \in 1..3 : queue[p] # <<>> /\ \A q \in 1..(p - 1) : queue[q] = <<>>
  <1>0. queue \in [1..3 -> Seq(Objs)]
    BY DEF TypesInv
  <1>1. \E q \in 1..3 : queue[q] # <<>> /\ \A r \in 1..(q - 1) : queue[r] = <<>>
    <2>1. CASE queue[1] # <<>>
      BY <2>1
    <2>2. CASE queue[1] = <<>> /\ queue[2] # <<>>
      BY <2>2
    <2>3. CASE queue[1] = <<>> /\ queue[2] = <<>> /\ queue[3] # <<>>
      BY <2>3
    <2> QED
      BY <2>1, <2>2, <2>3 DEF HasItem
  <1>2. p \in 1..3 /\ queue[p] # <<>>
    BY <1>1
  <1>3. NextItem = Head(queue[p])
    BY DEF NextItem
  <1> HIDE DEF p
  <1>4. Head(queue[p]) \in Objs /\ Head(queue[p]) = queue[p][1] /\ 1 \in 1..Len(queue[p])
    BY <1>0, <1>2
  <1>5. Priority[queue[p][1]] = p
    BY <1>2, <1>4 DEF QueueInv, QueueOK
  <1> QED
    BY <1>0, <1>2, <1>3, <1>4, <1>5

LEMMA WorkerTakeDoes ==
  ASSUME TypesInv, ThreadsInv, NEW w \in Workers, QueueInv, WorkerTake(w)
  PROVE  /\ TypesInv' /\ Moved(w)
         /\ ObjGoes(NextItem, obj[NextItem].state, obj[NextItem].ref, obj[NextItem].shutdown,
              obj[NextItem].pending - 1, obj[NextItem].running + 1, obj[NextItem].associated + 1,
                obj[NextItem].member)
         /\ PoolGoes(pool.ref, pool.objcount, pool.shutdown, pool.workers, Busier(obj[NextItem].pending > 1))
  <1>0. /\ poolCs \in Workers \cup {NoOne} /\ groupCs \in Clients \cup {NoOne} /\ timerCs \in {TimerThread, NoOne}
        /\ pool \in PoolRecords /\ group \in GroupRecords
        /\ queue \in [1..3 -> Seq(Objs)] /\ obj \in [Objs -> ObjRecords] /\ timer \in [Objs -> TimerRecords]
        /\ pc \in [Threads -> Places] /\ cur \in [Threads -> Objs \cup {NoOne}] /\ inst \in [Workers -> InstRecords]
        /\ call \in [Clients -> Calls \cup {NoCall}] /\ script \in [Clients -> Seq(Calls)]
        /\ todo \in [Clients -> Seq(Objs \cup Steps)]
        /\ closed \in SUBSET Objs /\ quiet \in SUBSET Objs /\ failed \in BOOLEAN
    BY DEF TypesInv
  <1>t. w \in Threads
    BY Kinds
  <1>u. groupCs' = groupCs /\ timerCs' = timerCs /\ timer' = timer /\ group' = group /\ call' = call /\
          todo' = todo /\ script' = script /\ closed' = closed /\ quiet' = quiet
    BY DEF WorkerTake, locks, history
  <1>a. /\ NextItem \in Objs /\ Priority[NextItem] \in 1..3 /\ queue[Priority[NextItem]] \in Seq(Objs)
        /\ queue[Priority[NextItem]] # <<>> /\ NextItem = Head(queue[Priority[NextItem]])
    BY NextFacts DEF WorkerTake
  <1>1. ObjGoes(NextItem, obj[NextItem].state, obj[NextItem].ref, obj[NextItem].shutdown, obj[NextItem].pending - 1,
          obj[NextItem].running + 1, obj[NextItem].associated + 1, obj[NextItem].member)
    <2>1. obj' = [obj EXCEPT ![NextItem].pending = @ - 1, ![NextItem].running = @ + 1, ![NextItem].associated = @ + 1]
      BY DEF WorkerTake
    <2>2. obj \in [Objs -> ObjRecords] /\ NextItem \in Objs
      BY <1>0, <1>a
    <2> QED
      BY <2>1, <2>2 DEF ObjGoes, ObjRecords
  <1>b. pool.busy \in Int /\ Busier(obj[NextItem].pending > 1) \in Int
    BY <1>0 DEF PoolRecords, Busier
  <1>2. PoolGoes(pool.ref, pool.objcount, pool.shutdown, pool.workers, Busier(obj[NextItem].pending > 1))
    <2>1. pool' = [pool EXCEPT !.busy = Busier(obj[NextItem].pending > 1)]
      BY DEF WorkerTake
    <2>2. pool \in PoolRecords
      BY <1>0
    <2>3. pool' = [ref |-> pool.ref, objcount |-> pool.objcount, shutdown |-> pool.shutdown, min |-> pool.min,
            max |-> pool.max, workers |-> pool.workers, busy |-> Busier(obj[NextItem].pending > 1),
              freed |-> pool.freed]
      BY <2>1, <2>2, <1>b DEF PoolRecords
    <2> QED
      BY <2>2, <2>3, <1>b DEF PoolGoes, PoolRecords
  <1>h. poolCs = w
    BY DEF WorkerTake, ThreadsInv, WorkerOK
  <1>3. poolCs' = NoOne
    BY DEF WorkerTake
  <1>4. poolCs' \in Workers \cup {NoOne}
    BY <1>0, <1>t, <1>3, Kinds DEF Places, InstRecords
  <1>5. pc' = [pc EXCEPT ![w] = "callback"]
    BY DEF WorkerTake
  <1>6. pc' \in [Threads -> Places]
    BY <1>0, <1>t, <1>5, Kinds DEF Places, InstRecords
  <1>7. cur' = [cur EXCEPT ![w] = NextItem]
    BY DEF WorkerTake
  <1>8. cur' \in [Threads -> Objs \cup {NoOne}]
    BY <1>0, <1>t, <1>a, <1>7
  <1>9. inst' = [inst EXCEPT ![w] = FreshInstance]
    BY DEF WorkerTake
  <1>10. inst' \in [Workers -> InstRecords]
    BY <1>0, <1>9 DEF InstRecords, FreshInstance
  <1>q. queue' \in [1..3 -> Seq(Objs)]
    <2> DEFINE n == Priority[NextItem]
               rest == [queue EXCEPT ![n] = Tail(@)]
    <2>1. queue' = IF obj[NextItem].pending > 1 THEN [rest EXCEPT ![n] = Append(@, NextItem)] ELSE rest
      BY DEF WorkerTake
    <2>2. n \in 1..3 /\ queue[n] \in Seq(Objs) /\ queue[n] # <<>>
      BY <1>a
    <2>3. Tail(queue[n]) \in Seq(Objs)
      BY <2>2
    <2> HIDE DEF n
    <2>4. rest \in [1..3 -> Seq(Objs)] /\ rest[n] = Tail(queue[n])
      BY <1>0, <2>2, <2>3
    <2> HIDE DEF rest
    <2>5. Append(rest[n], NextItem) \in Seq(Objs)
      BY <1>a, <2>3, <2>4
    <2> QED
      BY <2>1, <2>2, <2>4, <2>5
  <1>f. failed' \in BOOLEAN
    BY <1>0 DEF WorkerTake, Asserts
  <1>y. TypesInv'
    BY <1>0, <1>u, <1>1, <1>2, <1>4, <1>6, <1>8, <1>10, <1>q, <1>f DEF TypesInv, ObjGoes, PoolGoes, TimerGoes,
         GroupGoes
  <1>z. Moved(w)
    BY <1>0, <1>t, <1>u, <1>a, <1>b, <1>h, <1>3, <1>4, <1>5, <1>6, <1>7, <1>8, <1>9, <1>10, <1>q, <1>f,
         Kinds DEF Moved, Drift
  <1> QED
    BY <1>a, <1>1, <1>b, <1>2, <1>h, <1>3, <1>4, <1>5, <1>6, <1>7, <1>8, <1>9, <1>10, <1>q, <1>f, <1>y, <1>z

LEMMA WorkerRestDoes ==
  ASSUME TypesInv, ThreadsInv, NEW w \in Workers, WorkerRest(w)
  PROVE  /\ TypesInv' /\ Moved(w)
  <1>0. /\ poolCs \in Workers \cup {NoOne} /\ groupCs \in Clients \cup {NoOne} /\ timerCs \in {TimerThread, NoOne}
        /\ pool \in PoolRecords /\ group \in GroupRecords
        /\ queue \in [1..3 -> Seq(Objs)] /\ obj \in [Objs -> ObjRecords] /\ timer \in [Objs -> TimerRecords]
        /\ pc \in [Threads -> Places] /\ cur \in [Threads -> Objs \cup {NoOne}] /\ inst \in [Workers -> InstRecords]
        /\ call \in [Clients -> Calls \cup {NoCall}] /\ script \in [Clients -> Seq(Calls)]
        /\ todo \in [Clients -> Seq(Objs \cup Steps)]
        /\ closed \in SUBSET Objs /\ quiet \in SUBSET Objs /\ failed \in BOOLEAN
    BY DEF TypesInv
  <1>t. w \in Threads
    BY Kinds
  <1>u. poolCs' = poolCs /\ groupCs' = groupCs /\ timerCs' = timerCs /\ pool' = pool /\ queue' = queue /\
          obj' = obj /\ timer' = timer /\ group' = group /\ cur' = cur /\ inst' = inst /\ call' = call /\
            todo' = todo /\ script' = script /\ closed' = closed /\ quiet' = quiet /\ failed' = failed
    BY DEF WorkerRest, locks, history
  <1>1. pc' = [pc EXCEPT ![w] = IF pool.shutdown THEN "exit" ELSE "rest"]
    BY DEF WorkerRest
  <1>2. pc' \in [Threads -> Places]
    BY <1>0, <1>t, <1>1, Kinds DEF Places, InstRecords
  <1>y. TypesInv'
    BY <1>0, <1>u, <1>2 DEF TypesInv, ObjGoes, PoolGoes, TimerGoes, GroupGoes
  <1>z. Moved(w)
    BY <1>0, <1>t, <1>u, <1>1, <1>2, Kinds DEF Moved, Drift
  <1> QED
    BY <1>1, <1>2, <1>y, <1>z

LEMMA WorkerSleepDoes ==
  ASSUME TypesInv, ThreadsInv, NEW w \in Workers, WorkerSleep(w)
  PROVE  /\ TypesInv' /\ Moved(w)
  <1>0. /\ poolCs \in Workers \cup {NoOne} /\ groupCs \in Clients \cup {NoOne} /\ timerCs \in {TimerThread, NoOne}
        /\ pool \in PoolRecords /\ group \in GroupRecords
        /\ queue \in [1..3 -> Seq(Objs)] /\ obj \in [Objs -> ObjRecords] /\ timer \in [Objs -> TimerRecords]
        /\ pc \in [Threads -> Places] /\ cur \in [Threads -> Objs \cup {NoOne}] /\ inst \in [Workers -> InstRecords]
        /\ call \in [Clients -> Calls \cup {NoCall}] /\ script \in [Clients -> Seq(Calls)]
        /\ todo \in [Clients -> Seq(Objs \cup Steps)]
        /\ closed \in SUBSET Objs /\ quiet \in SUBSET Objs /\ failed \in BOOLEAN
    BY DEF TypesInv
  <1>t. w \in Threads
    BY Kinds
  <1>u. groupCs' = groupCs /\ timerCs' = timerCs /\ pool' = pool /\ queue' = queue /\ obj' = obj /\ timer' = timer /\
          group' = group /\ cur' = cur /\ inst' = inst /\ call' = call /\ todo' = todo /\ script' = script /\
            closed' = closed /\ quiet' = quiet /\ failed' = failed
    BY DEF WorkerSleep, locks, history
  <1>1. pc' = [pc EXCEPT ![w] = "sleep"]
    BY DEF WorkerSleep
  <1>2. pc' \in [Threads -> Places]
    BY <1>0, <1>t, <1>1, Kinds DEF Places, InstRecords
  <1>3. poolCs' = NoOne
    BY DEF WorkerSleep
  <1>4. poolCs' \in Workers \cup {NoOne}
    BY <1>0, <1>t, <1>3, Kinds DEF Places, InstRecords
  <1>h. poolCs = w
    BY DEF WorkerSleep, ThreadsInv, WorkerOK
  <1>y. TypesInv'
    BY <1>0, <1>u, <1>2, <1>4 DEF TypesInv, ObjGoes, PoolGoes, TimerGoes, GroupGoes
  <1>z. Moved(w)
    BY <1>0, <1>t, <1>u, <1>1, <1>2, <1>3, <1>4, <1>h, Kinds DEF Moved, Drift
  <1> QED
    BY <1>1, <1>2, <1>3, <1>4, <1>h, <1>y, <1>z

LEMMA WorkerTimeoutDoes ==
  ASSUME TypesInv, ThreadsInv, NEW w \in Workers, WorkerTimeout(w)
  PROVE  /\ TypesInv' /\ Moved(w)
  <1>0. /\ poolCs \in Workers \cup {NoOne} /\ groupCs \in Clients \cup {NoOne} /\ timerCs \in {TimerThread, NoOne}
        /\ pool \in PoolRecords /\ group \in GroupRecords
        /\ queue \in [1..3 -> Seq(Objs)] /\ obj \in [Objs -> ObjRecords] /\ timer \in [Objs -> TimerRecords]
        /\ pc \in [Threads -> Places] /\ cur \in [Threads -> Objs \cup {NoOne}] /\ inst \in [Workers -> InstRecords]
        /\ call \in [Clients -> Calls \cup {NoCall}] /\ script \in [Clients -> Seq(Calls)]
        /\ todo \in [Clients -> Seq(Objs \cup Steps)]
        /\ closed \in SUBSET Objs /\ quiet \in SUBSET Objs /\ failed \in BOOLEAN
    BY DEF TypesInv
  <1>t. w \in Threads
    BY Kinds
  <1>u. poolCs' = poolCs /\ groupCs' = groupCs /\ timerCs' = timerCs /\ pool' = pool /\ queue' = queue /\
          obj' = obj /\ timer' = timer /\ group' = group /\ cur' = cur /\ inst' = inst /\ call' = call /\
            todo' = todo /\ script' = script /\ closed' = closed /\ quiet' = quiet /\ failed' = failed
    BY DEF WorkerTimeout, locks, history
  <1>1. pc' = [pc EXCEPT ![w] = "timedout"]
    BY DEF WorkerTimeout
  <1>2. pc' \in [Threads -> Places]
    BY <1>0, <1>t, <1>1, Kinds DEF Places, InstRecords
  <1>y. TypesInv'
    BY <1>0, <1>u, <1>2 DEF TypesInv, ObjGoes, PoolGoes, TimerGoes, GroupGoes
  <1>z. Moved(w)
    BY <1>0, <1>t, <1>u, <1>1, <1>2, Kinds DEF Moved, Drift
  <1> QED
    BY <1>1, <1>2, <1>y, <1>z

LEMMA TpDisassociateCallbackDoes ==
  ASSUME TypesInv, ThreadsInv, NEW w \in Workers, TpDisassociateCallback(w)
  PROVE  /\ TypesInv' /\ Moved(w)
         /\ ObjGoes(cur[w], obj[cur[w]].state, obj[cur[w]].ref, obj[cur[w]].shutdown, obj[cur[w]].pending,
              obj[cur[w]].running, obj[cur[w]].associated - 1, obj[cur[w]].member)
         /\ pc'[w] = pc[w]
         /\ \A v \in Workers : pc'[v] = pc[v]
  <1>0. /\ poolCs \in Workers \cup {NoOne} /\ groupCs \in Clients \cup {NoOne} /\ timerCs \in {TimerThread, NoOne}
        /\ pool \in PoolRecords /\ group \in GroupRecords
        /\ queue \in [1..3 -> Seq(Objs)] /\ obj \in [Objs -> ObjRecords] /\ timer \in [Objs -> TimerRecords]
        /\ pc \in [Threads -> Places] /\ cur \in [Threads -> Objs \cup {NoOne}] /\ inst \in [Workers -> InstRecords]
        /\ call \in [Clients -> Calls \cup {NoCall}] /\ script \in [Clients -> Seq(Calls)]
        /\ todo \in [Clients -> Seq(Objs \cup Steps)]
        /\ closed \in SUBSET Objs /\ quiet \in SUBSET Objs /\ failed \in BOOLEAN
    BY DEF TypesInv
  <1>t. w \in Threads
    BY Kinds
  <1>u. poolCs' = poolCs /\ groupCs' = groupCs /\ timerCs' = timerCs /\ pool' = pool /\ queue' = queue /\
          timer' = timer /\ group' = group /\ cur' = cur /\ call' = call /\ todo' = todo /\ script' = script /\
            closed' = closed /\ quiet' = quiet /\ failed' = failed
    BY DEF TpDisassociateCallback, locks, history
  <1>a. cur[w] \in Objs
    BY DEF TpDisassociateCallback, ThreadsInv, WorkerOK
  <1>1. ObjGoes(cur[w], obj[cur[w]].state, obj[cur[w]].ref, obj[cur[w]].shutdown, obj[cur[w]].pending,
          obj[cur[w]].running, obj[cur[w]].associated - 1, obj[cur[w]].member)
    <2>1. obj' = [obj EXCEPT ![cur[w]] = [obj[cur[w]] EXCEPT !.associated = @ - 1]]
      BY DEF TpDisassociateCallback
    <2>2. obj \in [Objs -> ObjRecords] /\ cur[w] \in Objs
      BY <1>0, <1>a
    <2> QED
      BY <2>1, <2>2 DEF ObjGoes, ObjRecords
  <1>2. inst' = [inst EXCEPT ![w].associated = FALSE]
    BY DEF TpDisassociateCallback
  <1>3. inst' \in [Workers -> InstRecords]
    BY <1>0, <1>2 DEF InstRecords
  <1>4. PICK S \in SUBSET Clients : (\A x \in S : pc[x] = "sleep") /\
          pc' = [x \in Threads |-> IF x \in S THEN "wait" ELSE pc[x]]
    <2> DEFINE r == [obj[cur[w]] EXCEPT !.associated = @ - 1]
               S == IF IsFinished(r, FALSE) THEN SleepingOn(cur[w], FALSE) ELSE {}
    <2>1. pc' = [x \in Threads |-> IF IsFinished(r, FALSE) /\ x \in SleepingOn(cur[w], FALSE) THEN "wait" ELSE pc[x]]
      BY DEF TpDisassociateCallback
    <2>2. S \in SUBSET Clients /\ \A x \in S : pc[x] = "sleep"
      BY DEF SleepingOn
    <2>3. pc' = [x \in Threads |-> IF x \in S THEN "wait" ELSE pc[x]]
      BY <2>1
    <2> QED
      BY <2>2, <2>3
  <1>5. pc' \in [Threads -> Places]
    BY <1>0, <1>4 DEF Places
  <1>6. pc'[w] = pc[w]
    BY <1>t, <1>4, Kinds
  <1>7. \A v \in Workers : pc'[v] = pc[v]
    BY <1>4, Kinds
  <1>y. TypesInv'
    BY <1>0, <1>u, <1>1, <1>3, <1>5 DEF TypesInv, ObjGoes, PoolGoes, TimerGoes, GroupGoes
  <1>z. Moved(w)
    BY <1>0, <1>t, <1>u, <1>a, <1>2, <1>3, <1>4, <1>5, <1>6, <1>7, Kinds DEF Moved, Drift
  <1> QED
    BY <1>a, <1>1, <1>2, <1>3, <1>4, <1>5, <1>6, <1>7, <1>y, <1>z

LEMMA TpCallbackMayRunLongDoes ==
  ASSUME TypesInv, ThreadsInv, NEW w \in Workers, TpCallbackMayRunLong(w)
  PROVE  /\ TypesInv' /\ Moved(w)
         /\ /\ pc' \in [Threads -> Places] /\ pc'[w] = pc[w] /\ \A u \in Clients \cup {TimerThread} : pc'[u] = pc[u]
            /\ \/ PoolGoes(pool.ref + 1, pool.objcount, pool.shutdown, pool.workers + 1, pool.busy) /\
                    \E v \in Workers : Hired(w, v)
               \/ PoolGoes(pool.ref, pool.objcount, pool.shutdown, pool.workers, pool.busy) /\
                    \A u \in Workers : pc'[u] = pc[u]
  <1>0. /\ poolCs \in Workers \cup {NoOne} /\ groupCs \in Clients \cup {NoOne} /\ timerCs \in {TimerThread, NoOne}
        /\ pool \in PoolRecords /\ group \in GroupRecords
        /\ queue \in [1..3 -> Seq(Objs)] /\ obj \in [Objs -> ObjRecords] /\ timer \in [Objs -> TimerRecords]
        /\ pc \in [Threads -> Places] /\ cur \in [Threads -> Objs \cup {NoOne}] /\ inst \in [Workers -> InstRecords]
        /\ call \in [Clients -> Calls \cup {NoCall}] /\ script \in [Clients -> Seq(Calls)]
        /\ todo \in [Clients -> Seq(Objs \cup Steps)]
        /\ closed \in SUBSET Objs /\ quiet \in SUBSET Objs /\ failed \in BOOLEAN
    BY DEF TypesInv
  <1>t. w \in Threads
    BY Kinds
  <1>u. poolCs' = poolCs /\ groupCs' = groupCs /\ timerCs' = timerCs /\ queue' = queue /\ obj' = obj /\
          timer' = timer /\ group' = group /\ cur' = cur /\ call' = call /\ todo' = todo /\ script' = script /\
            closed' = closed /\ quiet' = quiet /\ failed' = failed
    BY DEF TpCallbackMayRunLong, locks, history
  <1>1. inst' = [inst EXCEPT ![w].long = TRUE]
    BY DEF TpCallbackMayRunLong
  <1>2. inst' \in [Workers -> InstRecords]
    BY <1>0, <1>1 DEF InstRecords
  <1>3. /\ pc' \in [Threads -> Places] /\ pc'[w] = pc[w] /\ \A u \in Clients \cup {TimerThread} : pc'[u] = pc[u]
        /\ \/ PoolGoes(pool.ref + 1, pool.objcount, pool.shutdown, pool.workers + 1, pool.busy) /\
                \E v \in Workers : Hired(w, v)
           \/ PoolGoes(pool.ref, pool.objcount, pool.shutdown, pool.workers, pool.busy) /\
                \A u \in Workers : pc'[u] = pc[u]
    <2>1. CASE WantsWorker /\ pool.workers < pool.max /\ Spare # {}
      <3>1. PICK v \in Spare : StartWorker(v, w, "callback")
        BY <2>1 DEF TpCallbackMayRunLong
      <3>2. v \in Workers /\ v \in Threads /\ pc[v] = "none" /\ pc[w] = "callback"
        BY <3>1, Kinds DEF Spare, TpCallbackMayRunLong
      <3>3. pc' = [pc EXCEPT ![v] = "start", ![w] = "callback"] /\ "start" \in Places /\ "callback" \in Places
        BY <3>1 DEF StartWorker, Places
      <3>4. pc' \in [Threads -> Places] /\ Hired(w, v)
        BY <1>0, <1>t, <3>2, <3>3, Kinds DEF Hired
      <3>5. pool' = Staffed(pool) /\ pool \in PoolRecords
        BY <1>0, <2>1 DEF TpCallbackMayRunLong
      <3>6. pool' = [ref |-> pool.ref + 1, objcount |-> pool.objcount, shutdown |-> pool.shutdown, min |-> pool.min,
                     max |-> pool.max, workers |-> pool.workers + 1, busy |-> pool.busy, freed |-> pool.freed]
        BY <3>5 DEF Staffed, PoolRecords
      <3>7. PoolGoes(pool.ref + 1, pool.objcount, pool.shutdown, pool.workers + 1, pool.busy)
        BY <3>5, <3>6 DEF PoolGoes, PoolRecords
      <3>8. pc'[w] = pc[w] /\ \A u \in Clients \cup {TimerThread} : pc'[u] = pc[u]
        BY <1>0, <1>t, <3>2, <3>3, Kinds
      <3> QED
        BY <3>2, <3>4, <3>7, <3>8
    <2>2. CASE ~(WantsWorker /\ pool.workers < pool.max /\ Spare # {})
      <3>1. pool' = pool /\ pc' = pc
        BY <2>2 DEF TpCallbackMayRunLong
      <3> QED
        BY <1>0, <1>t, <3>1 DEF PoolGoes
    <2> QED
      BY <2>1, <2>2
  <1>y. TypesInv'
    BY <1>0, <1>u, <1>2, <1>3 DEF TypesInv, ObjGoes, PoolGoes, TimerGoes, GroupGoes
  <1>z. Moved(w)
    BY <1>0, <1>t, <1>u, <1>1, <1>2, <1>3, Kinds DEF Moved, Drift, Hired
  <1> QED
    BY <1>1, <1>2, <1>3, <1>y, <1>z

\* t drops the last reference of its object.
Ending(t) == pc[t] \in {"destroy", "unlock_pool", "free"}

LEMMA DestroyCur ==
  ASSUME TypesInv, ThreadsInv, NEW t \in Clients \cup Workers, Ending(t)
  PROVE  cur[t] \in Objs
  <1>1. CASE t \in Workers
    BY <1>1 DEF ThreadsInv, WorkerOK, Ending
  <1>2. CASE t \in Clients
    <2>1. PlaceOK(t) /\ WorkOK(t) /\ call[t] \in Calls \cup {NoCall}
      BY <1>2 DEF ThreadsInv, TypesInv
    <2>2. call[t].fn \in {"simple", "release", "members"}
      BY <2>1 DEF PlaceOK, Ending
    <2>3. CASE call[t].fn = "members"
      BY <2>1, <2>3 DEF WorkOK, Ending
    <2>4. CASE call[t].fn \in {"simple", "release"}
      <3>1. call[t] # NoCall
        BY <2>4 DEF NoCall
      <3>2. call[t].obj \in Objs
        BY <2>1, <2>4, <3>1, Kinds DEF Calls
      <3> QED
        BY <2>1, <2>4, <3>2 DEF WorkOK
    <2> QED
      BY <2>2, <2>3, <2>4
  <1> QED
    BY <1>1, <1>2

LEMMA CallbackEndDoes ==
  ASSUME TypesInv, ThreadsInv, NEW w \in Workers, CallbackEnd(w)
  PROVE  /\ TypesInv' /\ Moved(w)
         /\ ObjGoes(cur[w], obj[cur[w]].state, obj[cur[w]].ref - 1, obj[cur[w]].shutdown \/ cur[w] \in Simples,
              obj[cur[w]].pending, obj[cur[w]].running - 1,
                IF inst[w].associated THEN obj[cur[w]].associated - 1 ELSE obj[cur[w]].associated, obj[cur[w]].member)
         /\ PoolGoes(pool.ref, pool.objcount, pool.shutdown, pool.workers, pool.busy - 1)
         /\ pc'[w] = (IF obj[cur[w]].ref - 1 = 0 THEN "destroy" ELSE "loop")
         /\ cur'[w] = (IF obj[cur[w]].ref - 1 = 0 THEN cur[w] ELSE NoOne)
         /\ \A v \in Workers \ {w} : pc'[v] = pc[v]
  <1>0. /\ poolCs \in Workers \cup {NoOne} /\ groupCs \in Clients \cup {NoOne} /\ timerCs \in {TimerThread, NoOne}
        /\ pool \in PoolRecords /\ group \in GroupRecords
        /\ queue \in [1..3 -> Seq(Objs)] /\ obj \in [Objs -> ObjRecords] /\ timer \in [Objs -> TimerRecords]
        /\ pc \in [Threads -> Places] /\ cur \in [Threads -> Objs \cup {NoOne}] /\ inst \in [Workers -> InstRecords]
        /\ call \in [Clients -> Calls \cup {NoCall}] /\ script \in [Clients -> Seq(Calls)]
        /\ todo \in [Clients -> Seq(Objs \cup Steps)]
        /\ closed \in SUBSET Objs /\ quiet \in SUBSET Objs /\ failed \in BOOLEAN
    BY DEF TypesInv
  <1>t. w \in Threads
    BY Kinds
  <1>u. groupCs' = groupCs /\ timerCs' = timerCs /\ queue' = queue /\ timer' = timer /\ group' = group /\
          call' = call /\ todo' = todo /\ script' = script /\ closed' = closed /\ quiet' = quiet
    BY DEF CallbackEnd, locks, history
  <1>a. cur[w] \in Objs /\ inst[w].associated \in BOOLEAN
    BY <1>0 DEF CallbackEnd, ThreadsInv, WorkerOK, InstRecords
  <1>h. poolCs = NoOne
    BY DEF CallbackEnd
  <1>o. ([obj[cur[w]] EXCEPT !.running = @ - 1, !.associated = IF inst[w].associated THEN @ - 1 ELSE @,
          !.shutdown = @ \/ cur[w] \in Simples, !.ref = @ - 1]).ref = obj[cur[w]].ref - 1
    BY <1>0, <1>a DEF ObjRecords
  <1>1. ObjGoes(cur[w], obj[cur[w]].state, obj[cur[w]].ref - 1, obj[cur[w]].shutdown \/ cur[w] \in Simples,
          obj[cur[w]].pending, obj[cur[w]].running - 1,
            IF inst[w].associated THEN obj[cur[w]].associated - 1 ELSE obj[cur[w]].associated, obj[cur[w]].member)
    <2>1. obj' = [obj EXCEPT ![cur[w]] = [obj[cur[w]] EXCEPT !.running = @ - 1,
            !.associated = IF inst[w].associated THEN @ - 1 ELSE @, !.shutdown = @ \/ cur[w] \in Simples,
              !.ref = @ - 1]]
      BY DEF CallbackEnd
    <2>2. obj \in [Objs -> ObjRecords] /\ cur[w] \in Objs
      BY <1>0, <1>a
    <2> DEFINE r == [obj[cur[w]] EXCEPT !.running = @ - 1, !.associated = IF inst[w].associated THEN @ - 1 ELSE @,
          !.shutdown = @ \/ cur[w] \in Simples, !.ref = @ - 1]
    <2>3. obj[cur[w]] \in ObjRecords
      BY <2>2
    <2>4. /\ r \in ObjRecords /\ r.state = obj[cur[w]].state /\ r.ref = obj[cur[w]].ref - 1 /\
               r.pending = obj[cur[w]].pending
          /\ r.running = obj[cur[w]].running - 1 /\ r.member = obj[cur[w]].member
          /\ r.associated = (IF inst[w].associated THEN obj[cur[w]].associated - 1 ELSE obj[cur[w]].associated)
          /\ r.shutdown = (obj[cur[w]].shutdown \/ cur[w] \in Simples)
      <3> DEFINE q == obj[cur[w]]
                 a == inst[w].associated
                 c == cur[w] \in Simples
      <3>1. a \in BOOLEAN /\ c \in BOOLEAN /\ q \in ObjRecords
        BY <1>a, <2>3
      <3>2. r = [q EXCEPT !.running = @ - 1, !.associated = IF a THEN @ - 1 ELSE @, !.shutdown = @ \/ c,
              !.ref = @ - 1]
        OBVIOUS
      <3> HIDE DEF q, a, c, r
      <3>3. /\ r \in ObjRecords /\ r.state = q.state /\ r.ref = q.ref - 1 /\ r.pending = q.pending
            /\ r.running = q.running - 1 /\ r.member = q.member
            /\ r.associated = (IF a THEN q.associated - 1 ELSE q.associated) /\ r.shutdown = (q.shutdown \/ c)
        <4>1. r = [state |-> q.state, ref |-> q.ref - 1, shutdown |-> (q.shutdown \/ c), pending |-> q.pending,
                   running |-> q.running - 1, associated |-> IF a THEN q.associated - 1 ELSE q.associated,
                   member |-> q.member]
          BY <3>1, <3>2 DEF ObjRecords
        <4>2. (IF a THEN q.associated - 1 ELSE q.associated) \in Int /\ (q.shutdown \/ c) \in BOOLEAN
          BY <3>1 DEF ObjRecords
        <4>3. r \in ObjRecords
          BY <3>1, <4>1, <4>2 DEF ObjRecords
        <4> QED
          BY <4>1, <4>3
      <3> QED
        BY <3>3 DEF q, a, c
    <2>5. obj' = [obj EXCEPT ![cur[w]] = r]
      BY <2>1
    <2> HIDE DEF r
    <2>6. obj'[cur[w]] = r /\ obj' \in [Objs -> ObjRecords] /\ \A x \in Objs \ {cur[w]} : obj'[x] = obj[x]
      BY <2>2, <2>4, <2>5
    <2> QED
      BY <2>4, <2>6 DEF ObjGoes
  <1>2. PoolGoes(pool.ref, pool.objcount, pool.shutdown, pool.workers, pool.busy - 1)
    <2>1. pool' = [pool EXCEPT !.busy = @ - 1]
      BY DEF CallbackEnd
    <2>2. pool \in PoolRecords
      BY <1>0
    <2>3. pool' = [ref |-> pool.ref, objcount |-> pool.objcount, shutdown |-> pool.shutdown, min |-> pool.min,
            max |-> pool.max, workers |-> pool.workers, busy |-> pool.busy - 1, freed |-> pool.freed]
      BY <2>1, <2>2 DEF PoolRecords
    <2> QED
      BY <2>2, <2>3 DEF PoolGoes, PoolRecords
  <1>3. poolCs' = w
    BY DEF CallbackEnd
  <1>4. poolCs' \in Workers \cup {NoOne}
    BY <1>0, <1>t, <1>3, Kinds DEF Places, InstRecords
  <1>5. inst' = [inst EXCEPT ![w] = FreshInstance]
    BY DEF CallbackEnd
  <1>6. inst' \in [Workers -> InstRecords]
    BY <1>0, <1>5 DEF InstRecords, FreshInstance
  <1>7. cur' = [cur EXCEPT ![w] = IF obj[cur[w]].ref - 1 = 0 THEN cur[w] ELSE NoOne]
    BY <1>o DEF CallbackEnd
  <1>8. cur' \in [Threads -> Objs \cup {NoOne}]
    BY <1>0, <1>a, <1>t, <1>7
  <1>9. PICK S \in SUBSET Clients :
           /\ \A x \in S : pc[x] = "sleep"
           /\ pc' = [x \in Threads |-> IF x = w THEN (IF obj[cur[w]].ref - 1 = 0 THEN "destroy" ELSE "loop")
                                      ELSE IF x \in S THEN "wait" ELSE pc[x]]
    <2> DEFINE r == [obj[cur[w]] EXCEPT !.running = @ - 1, !.associated = IF inst[w].associated THEN @ - 1 ELSE @,
          !.shutdown = @ \/ cur[w] \in Simples, !.ref = @ - 1]
    <2>1. WokenByEnd(cur[w], r, w) \in SUBSET Clients /\ \A x \in WokenByEnd(cur[w], r, w) : pc[x] = "sleep"
      BY DEF WokenByEnd, SleepingOn
    <2>2. pc' = [x \in Threads |-> IF x = w THEN (IF r.ref = 0 THEN "destroy" ELSE "loop")
                                  ELSE IF x \in WokenByEnd(cur[w], r, w) THEN "wait" ELSE pc[x]]
      BY DEF CallbackEnd
    <2>3. r.ref = obj[cur[w]].ref - 1
      BY <1>o
    <2> HIDE DEF r
    <2> QED
      BY <2>1, <2>2, <2>3
  <1>10. pc' \in [Threads -> Places]
    BY <1>0, <1>9 DEF Places
  <1>11. pc'[w] = (IF obj[cur[w]].ref - 1 = 0 THEN "destroy" ELSE "loop")
    BY <1>t, <1>9
  <1>12. cur'[w] = (IF obj[cur[w]].ref - 1 = 0 THEN cur[w] ELSE NoOne)
    BY <1>0, <1>t, <1>7
  <1>13. \A v \in Workers \ {w} : pc'[v] = pc[v]
    BY <1>9, Kinds
  <1>f. failed' \in BOOLEAN
    BY <1>0 DEF CallbackEnd, Asserts
  <1>y. TypesInv'
    BY <1>0, <1>u, <1>1, <1>2, <1>4, <1>6, <1>8, <1>10, <1>f DEF TypesInv, ObjGoes, PoolGoes, TimerGoes, GroupGoes
  <1>z. Moved(w)
    BY <1>0, <1>t, <1>u, <1>a, <1>h, <1>o, <1>3, <1>4, <1>5, <1>6, <1>7, <1>8, <1>9, <1>10, <1>11, <1>12, <1>13,
         <1>f, Kinds DEF Moved, Drift
  <1> QED
    BY <1>a, <1>h, <1>o, <1>1, <1>2, <1>3, <1>4, <1>5, <1>6, <1>7, <1>8, <1>9, <1>10, <1>11, <1>12, <1>13, <1>f,
         <1>y, <1>z

LEMMA WorkerExitDoes ==
  ASSUME TypesInv, ThreadsInv, NEW w \in Workers, WorkerExit(w)
  PROVE  /\ TypesInv' /\ Moved(w)
         /\ PoolGoes(pool.ref, pool.objcount, pool.shutdown, pool.workers - 1, pool.busy)
  <1>0. /\ poolCs \in Workers \cup {NoOne} /\ groupCs \in Clients \cup {NoOne} /\ timerCs \in {TimerThread, NoOne}
        /\ pool \in PoolRecords /\ group \in GroupRecords
        /\ queue \in [1..3 -> Seq(Objs)] /\ obj \in [Objs -> ObjRecords] /\ timer \in [Objs -> TimerRecords]
        /\ pc \in [Threads -> Places] /\ cur \in [Threads -> Objs \cup {NoOne}] /\ inst \in [Workers -> InstRecords]
        /\ call \in [Clients -> Calls \cup {NoCall}] /\ script \in [Clients -> Seq(Calls)]
        /\ todo \in [Clients -> Seq(Objs \cup Steps)]
        /\ closed \in SUBSET Objs /\ quiet \in SUBSET Objs /\ failed \in BOOLEAN
    BY DEF TypesInv
  <1>t. w \in Threads
    BY Kinds
  <1>u. groupCs' = groupCs /\ timerCs' = timerCs /\ queue' = queue /\ obj' = obj /\ timer' = timer /\
          group' = group /\ cur' = cur /\ inst' = inst /\ call' = call /\ todo' = todo /\ script' = script /\
            closed' = closed /\ quiet' = quiet /\ failed' = failed
    BY DEF WorkerExit, locks, history
  <1>h. poolCs = w
    BY DEF WorkerExit, ThreadsInv, WorkerOK
  <1>1. PoolGoes(pool.ref, pool.objcount, pool.shutdown, pool.workers - 1, pool.busy)
    <2>1. pool' = [pool EXCEPT !.workers = @ - 1]
      BY DEF WorkerExit
    <2>2. pool \in PoolRecords
      BY <1>0
    <2>3. pool' = [ref |-> pool.ref, objcount |-> pool.objcount, shutdown |-> pool.shutdown, min |-> pool.min,
            max |-> pool.max, workers |-> pool.workers - 1, busy |-> pool.busy, freed |-> pool.freed]
      BY <2>1, <2>2 DEF PoolRecords
    <2> QED
      BY <2>2, <2>3 DEF PoolGoes, PoolRecords
  <1>2. poolCs' = NoOne
    BY DEF WorkerExit
  <1>3. poolCs' \in Workers \cup {NoOne}
    BY <1>0, <1>t, <1>2, Kinds DEF Places, InstRecords
  <1>4. pc' = [pc EXCEPT ![w] = "unref"]
    BY DEF WorkerExit
  <1>5. pc' \in [Threads -> Places]
    BY <1>0, <1>t, <1>4, Kinds DEF Places, InstRecords
  <1>y. TypesInv'
    BY <1>0, <1>u, <1>1, <1>3, <1>5 DEF TypesInv, ObjGoes, PoolGoes, TimerGoes, GroupGoes
  <1>z. Moved(w)
    BY <1>0, <1>t, <1>u, <1>h, <1>2, <1>3, <1>4, <1>5, Kinds DEF Moved, Drift
  <1> QED
    BY <1>h, <1>1, <1>2, <1>3, <1>4, <1>5, <1>y, <1>z

LEMMA DestroyDoes ==
  ASSUME TypesInv, ThreadsInv, NEW t \in Clients \cup Workers, Destroy(t)
  PROVE  /\ TypesInv' /\ Moved(t)
         /\ ObjGoes(cur[t], obj[cur[t]].state, obj[cur[t]].ref, obj[cur[t]].shutdown, obj[cur[t]].pending,
              obj[cur[t]].running, obj[cur[t]].associated, FALSE)
         /\ /\ cur[t] \notin Grouped => group' = group
            /\ cur[t] \in Grouped => GroupGoes(group.ref - 1, group.shutdown, LeaveGroup(cur[t]))
  <1>0. /\ poolCs \in Workers \cup {NoOne} /\ groupCs \in Clients \cup {NoOne} /\ timerCs \in {TimerThread, NoOne}
        /\ pool \in PoolRecords /\ group \in GroupRecords
        /\ queue \in [1..3 -> Seq(Objs)] /\ obj \in [Objs -> ObjRecords] /\ timer \in [Objs -> TimerRecords]
        /\ pc \in [Threads -> Places] /\ cur \in [Threads -> Objs \cup {NoOne}] /\ inst \in [Workers -> InstRecords]
        /\ call \in [Clients -> Calls \cup {NoCall}] /\ script \in [Clients -> Seq(Calls)]
        /\ todo \in [Clients -> Seq(Objs \cup Steps)]
        /\ closed \in SUBSET Objs /\ quiet \in SUBSET Objs /\ failed \in BOOLEAN
    BY DEF TypesInv
  <1>t. t \in Threads
    BY Kinds
  <1>u. poolCs' = poolCs /\ groupCs' = groupCs /\ timerCs' = timerCs /\ pool' = pool /\ queue' = queue /\
          timer' = timer /\ cur' = cur /\ inst' = inst /\ call' = call /\ todo' = todo /\ script' = script /\
            closed' = closed /\ quiet' = quiet
    BY DEF Destroy, locks, history
  <1>a. cur[t] \in Objs /\ pc[t] = "destroy"
    BY DestroyCur DEF Destroy, Ending
  <1>l. group.members \in Seq(Objs) /\ LeaveGroup(cur[t]) \in Seq(Objs)
    BY <1>0, UnlinkType DEF GroupRecords, LeaveGroup
  <1>1. ObjGoes(cur[t], obj[cur[t]].state, obj[cur[t]].ref, obj[cur[t]].shutdown, obj[cur[t]].pending,
          obj[cur[t]].running, obj[cur[t]].associated, FALSE)
    <2>1. obj' = [obj EXCEPT ![cur[t]].member = FALSE]
      BY DEF Destroy
    <2>2. obj \in [Objs -> ObjRecords] /\ cur[t] \in Objs
      BY <1>0, <1>a
    <2> QED
      BY <2>1, <2>2 DEF ObjGoes, ObjRecords
  <1>2. pc' = [pc EXCEPT ![t] = "unlock_pool"]
    BY DEF Destroy
  <1>3. pc' \in [Threads -> Places]
    BY <1>0, <1>t, <1>2, Kinds DEF Places, InstRecords
  <1>f. failed' \in BOOLEAN
    BY <1>0 DEF Destroy, Asserts
  <1>4. /\ cur[t] \notin Grouped => group' = group
        /\ cur[t] \in Grouped => GroupGoes(group.ref - 1, group.shutdown, LeaveGroup(cur[t]))
    <2>1. CASE cur[t] \notin Grouped
      BY <2>1 DEF Destroy
    <2>2. CASE cur[t] \in Grouped
      <3>1. group' = GroupReleased([group EXCEPT !.members = LeaveGroup(cur[t])])
        BY <2>2 DEF Destroy
      <3>2. group \in GroupRecords
        BY <1>0
      <3>3. group' = [ref |-> group.ref - 1, shutdown |-> group.shutdown, members |-> LeaveGroup(cur[t]),
              freed |-> (group.ref = 1)]
        BY <3>1, <3>2, <1>l DEF GroupReleased, GroupRecords
      <3> QED
        BY <2>2, <1>l, <3>2, <3>3 DEF GroupGoes, GroupRecords
    <2> QED
      BY <2>1, <2>2
  <1>y. TypesInv'
    BY <1>0, <1>u, <1>1, <1>3, <1>f, <1>4 DEF TypesInv, ObjGoes, PoolGoes, TimerGoes, GroupGoes
  <1>z. Moved(t)
    BY <1>0, <1>t, <1>u, <1>a, <1>l, <1>2, <1>3, <1>f, <1>4, Kinds DEF Moved, Drift
  <1> QED
    BY <1>a, <1>l, <1>1, <1>2, <1>3, <1>f, <1>4, <1>y, <1>z

LEMMA UnlockPoolDoes ==
  ASSUME TypesInv, ThreadsInv, NEW t \in Clients \cup Workers, UnlockPool(t)
  PROVE  /\ TypesInv' /\ Moved(t)
         /\ PoolGoes(pool.ref, pool.objcount - 1, pool.shutdown, pool.workers, pool.busy)
  <1>0. /\ poolCs \in Workers \cup {NoOne} /\ groupCs \in Clients \cup {NoOne} /\ timerCs \in {TimerThread, NoOne}
        /\ pool \in PoolRecords /\ group \in GroupRecords
        /\ queue \in [1..3 -> Seq(Objs)] /\ obj \in [Objs -> ObjRecords] /\ timer \in [Objs -> TimerRecords]
        /\ pc \in [Threads -> Places] /\ cur \in [Threads -> Objs \cup {NoOne}] /\ inst \in [Workers -> InstRecords]
        /\ call \in [Clients -> Calls \cup {NoCall}] /\ script \in [Clients -> Seq(Calls)]
        /\ todo \in [Clients -> Seq(Objs \cup Steps)]
        /\ closed \in SUBSET Objs /\ quiet \in SUBSET Objs /\ failed \in BOOLEAN
    BY DEF TypesInv
  <1>t. t \in Threads
    BY Kinds
  <1>u. poolCs' = poolCs /\ groupCs' = groupCs /\ timerCs' = timerCs /\ queue' = queue /\ obj' = obj /\
          timer' = timer /\ group' = group /\ cur' = cur /\ inst' = inst /\ call' = call /\ todo' = todo /\
            script' = script /\ closed' = closed /\ quiet' = quiet /\ failed' = failed
    BY DEF UnlockPool, locks, history
  <1>1. PoolGoes(pool.ref, pool.objcount - 1, pool.shutdown, pool.workers, pool.busy)
    <2>1. pool' = [pool EXCEPT !.objcount = @ - 1]
      BY DEF UnlockPool
    <2>2. pool \in PoolRecords
      BY <1>0
    <2>3. pool' = [ref |-> pool.ref, objcount |-> pool.objcount - 1, shutdown |-> pool.shutdown, min |-> pool.min,
            max |-> pool.max, workers |-> pool.workers, busy |-> pool.busy, freed |-> pool.freed]
      BY <2>1, <2>2 DEF PoolRecords
    <2> QED
      BY <2>2, <2>3 DEF PoolGoes, PoolRecords
  <1>2. pc' = [pc EXCEPT ![t] = "free"]
    BY DEF UnlockPool
  <1>3. pc' \in [Threads -> Places]
    BY <1>0, <1>t, <1>2, Kinds DEF Places, InstRecords
  <1>y. TypesInv'
    BY <1>0, <1>u, <1>1, <1>3 DEF TypesInv, ObjGoes, PoolGoes, TimerGoes, GroupGoes
  <1>z. Moved(t)
    BY <1>0, <1>t, <1>u, <1>2, <1>3, Kinds DEF Moved, Drift
  <1> QED
    BY <1>1, <1>2, <1>3, <1>y, <1>z

LEMMA FreeObjectDoes ==
  ASSUME TypesInv, ThreadsInv, NEW t \in Clients \cup Workers, FreeObject(t)
  PROVE  /\ TypesInv' /\ Moved(t)
         /\ ObjGoes(cur[t], "freed", obj[cur[t]].ref, obj[cur[t]].shutdown, obj[cur[t]].pending, obj[cur[t]].running,
              obj[cur[t]].associated, obj[cur[t]].member)
         /\ PoolGoes(pool.ref - 1, pool.objcount, pool.shutdown, pool.workers, pool.busy)
         /\ t \in Workers => pc'[t] = "loop" /\ cur'[t] = NoOne
         /\ t \in Clients => After(t, todo[t]) /\ todo[t] \in Seq(Steps)
  <1>0. /\ poolCs \in Workers \cup {NoOne} /\ groupCs \in Clients \cup {NoOne} /\ timerCs \in {TimerThread, NoOne}
        /\ pool \in PoolRecords /\ group \in GroupRecords
        /\ queue \in [1..3 -> Seq(Objs)] /\ obj \in [Objs -> ObjRecords] /\ timer \in [Objs -> TimerRecords]
        /\ pc \in [Threads -> Places] /\ cur \in [Threads -> Objs \cup {NoOne}] /\ inst \in [Workers -> InstRecords]
        /\ call \in [Clients -> Calls \cup {NoCall}] /\ script \in [Clients -> Seq(Calls)]
        /\ todo \in [Clients -> Seq(Objs \cup Steps)]
        /\ closed \in SUBSET Objs /\ quiet \in SUBSET Objs /\ failed \in BOOLEAN
    BY DEF TypesInv
  <1>t. t \in Threads
    BY Kinds
  <1>u. poolCs' = poolCs /\ groupCs' = groupCs /\ timerCs' = timerCs /\ queue' = queue /\ timer' = timer /\
          group' = group /\ inst' = inst /\ script' = script /\ closed' = closed /\ quiet' = quiet
    BY DEF FreeObject, locks, history
  <1>a. cur[t] \in Objs
    BY DestroyCur DEF FreeObject, Ending
  <1>1. ObjGoes(cur[t], "freed", obj[cur[t]].ref, obj[cur[t]].shutdown, obj[cur[t]].pending, obj[cur[t]].running,
          obj[cur[t]].associated, obj[cur[t]].member)
    <2>1. obj' = [obj EXCEPT ![cur[t]].state = "freed"]
      BY DEF FreeObject
    <2>2. obj \in [Objs -> ObjRecords] /\ cur[t] \in Objs
      BY <1>0, <1>a
    <2> QED
      BY <2>1, <2>2 DEF ObjGoes, ObjRecords
  <1>2. PoolGoes(pool.ref - 1, pool.objcount, pool.shutdown, pool.workers, pool.busy)
    <2>1. pool' = [pool EXCEPT !.ref = @ - 1, !.freed = pool.ref = 1]
      BY DEF FreeObject, PoolReleased
    <2>2. pool \in PoolRecords
      BY <1>0
    <2>3. pool' = [ref |-> pool.ref - 1, objcount |-> pool.objcount, shutdown |-> pool.shutdown, min |-> pool.min,
            max |-> pool.max, workers |-> pool.workers, busy |-> pool.busy, freed |-> (pool.ref = 1)]
      BY <2>1, <2>2 DEF PoolRecords, PoolReleased
    <2> QED
      BY <2>2, <2>3 DEF PoolGoes, PoolRecords
  <1>f. failed' \in BOOLEAN
    BY <1>0 DEF FreeObject, Asserts
  <1>3. /\ pc' \in [Threads -> Places] /\ cur' \in [Threads -> Objs \cup {NoOne}]
        /\ todo' \in [Clients -> Seq(Objs \cup Steps)] /\ call' \in [Clients -> Calls \cup {NoCall}]
        /\ \A u \in Threads \ {t} : pc'[u] = pc[u] /\ cur'[u] = cur[u]
        /\ \A u \in Clients \ {t} : todo'[u] = todo[u] /\ call'[u] = call[u]
        /\ t \in Workers => pc'[t] = "loop" /\ cur'[t] = NoOne
        /\ t \in Clients => After(t, todo[t]) /\ todo[t] \in Seq(Steps)
    <2>1. CASE t \in Workers
      <3>1. pc' = [pc EXCEPT ![t] = "loop"] /\ todo' = todo /\ call' = call /\ cur' = [cur EXCEPT ![t] = NoOne]
        BY <2>1 DEF FreeObject
      <3>2. "loop" \in Places
        BY DEF Places
      <3> QED
        BY <1>0, <1>t, <2>1, <3>1, <3>2, Kinds
    <2>2. CASE t \notin Workers
      <3>1. t \in Clients /\ After(t, todo[t]) /\ ~Walking(t)
        BY <2>2 DEF FreeObject, Walking
      <3>2. todo[t] \in Seq(Steps)
        BY <3>1, LeftSteps, NothingLeft
      <3> QED
        BY <2>2, <3>1, <3>2, AfterFacts
    <2> QED
      BY <2>1, <2>2
  <1>y. TypesInv'
    BY <1>0, <1>u, <1>1, <1>2, <1>f, <1>3 DEF TypesInv, ObjGoes, PoolGoes, TimerGoes, GroupGoes
  <1>z. Moved(t)
    BY <1>0, <1>t, <1>u, <1>a, <1>f, <1>3, Kinds DEF Moved, Drift
  <1> QED
    BY <1>a, <1>1, <1>2, <1>f, <1>3, <1>y, <1>z

LEMMA UnrefPoolDoes ==
  ASSUME TypesInv, ThreadsInv, NEW t \in Clients \cup Workers, UnrefPool(t)
  PROVE  /\ TypesInv' /\ Moved(t)
         /\ PoolGoes(pool.ref - 1, pool.objcount, pool.shutdown, pool.workers, pool.busy)
         /\ t \in Workers => pc'[t] = "none" /\ cur'[t] = cur[t]
         /\ t \in Clients => After(t, <<>>) /\ <<>> \in Seq(Steps)
  <1>0. /\ poolCs \in Workers \cup {NoOne} /\ groupCs \in Clients \cup {NoOne} /\ timerCs \in {TimerThread, NoOne}
        /\ pool \in PoolRecords /\ group \in GroupRecords
        /\ queue \in [1..3 -> Seq(Objs)] /\ obj \in [Objs -> ObjRecords] /\ timer \in [Objs -> TimerRecords]
        /\ pc \in [Threads -> Places] /\ cur \in [Threads -> Objs \cup {NoOne}] /\ inst \in [Workers -> InstRecords]
        /\ call \in [Clients -> Calls \cup {NoCall}] /\ script \in [Clients -> Seq(Calls)]
        /\ todo \in [Clients -> Seq(Objs \cup Steps)]
        /\ closed \in SUBSET Objs /\ quiet \in SUBSET Objs /\ failed \in BOOLEAN
    BY DEF TypesInv
  <1>t. t \in Threads
    BY Kinds
  <1>u. poolCs' = poolCs /\ groupCs' = groupCs /\ timerCs' = timerCs /\ queue' = queue /\ obj' = obj /\
          timer' = timer /\ group' = group /\ inst' = inst /\ script' = script /\ closed' = closed /\ quiet' = quiet
    BY DEF UnrefPool, locks, history
  <1>1. PoolGoes(pool.ref - 1, pool.objcount, pool.shutdown, pool.workers, pool.busy)
    <2>1. pool' = [pool EXCEPT !.ref = @ - 1, !.freed = pool.ref = 1]
      BY DEF UnrefPool, PoolReleased
    <2>2. pool \in PoolRecords
      BY <1>0
    <2>3. pool' = [ref |-> pool.ref - 1, objcount |-> pool.objcount, shutdown |-> pool.shutdown, min |-> pool.min,
            max |-> pool.max, workers |-> pool.workers, busy |-> pool.busy, freed |-> (pool.ref = 1)]
      BY <2>1, <2>2 DEF PoolRecords, PoolReleased
    <2> QED
      BY <2>2, <2>3 DEF PoolGoes, PoolRecords
  <1>f. failed' \in BOOLEAN
    BY <1>0 DEF UnrefPool, Asserts
  <1>2. /\ pc' \in [Threads -> Places] /\ cur' \in [Threads -> Objs \cup {NoOne}]
        /\ todo' \in [Clients -> Seq(Objs \cup Steps)] /\ call' \in [Clients -> Calls \cup {NoCall}]
        /\ \A u \in Threads \ {t} : pc'[u] = pc[u] /\ cur'[u] = cur[u]
        /\ \A u \in Clients \ {t} : todo'[u] = todo[u] /\ call'[u] = call[u]
        /\ t \in Workers => pc'[t] = "none" /\ cur'[t] = cur[t]
        /\ t \in Clients => After(t, <<>>) /\ <<>> \in Seq(Steps)
    <2>1. CASE t \in Workers
      <3>1. pc' = [pc EXCEPT ![t] = "none"] /\ todo' = todo /\ call' = call /\ cur' = cur
        BY <2>1 DEF UnrefPool
      <3>2. "none" \in Places
        BY DEF Places
      <3> QED
        BY <1>0, <1>t, <2>1, <3>1, <3>2, Kinds
    <2>2. CASE t \notin Workers
      <3>1. t \in Clients /\ After(t, <<>>) /\ ~Walking(t)
        BY <2>2 DEF UnrefPool, Walking
      <3>2. <<>> \in Seq(Steps)
        BY <3>1, LeftSteps, NothingLeft
      <3> QED
        BY <2>2, <3>1, <3>2, AfterFacts
    <2> QED
      BY <2>1, <2>2
  <1>y. TypesInv'
    BY <1>0, <1>u, <1>1, <1>f, <1>2 DEF TypesInv, ObjGoes, PoolGoes, TimerGoes, GroupGoes
  <1>z. Moved(t)
    BY <1>0, <1>t, <1>u, <1>f, <1>2, Kinds DEF Moved, Drift
  <1> QED
    BY <1>1, <1>f, <1>2, <1>y, <1>z

\* The call of a client, and its object.
LEMMA InCalls ==
  ASSUME TypesInv, ThreadsInv, NEW t \in Clients, pc[t] # "idle"
  PROVE  call[t] \in Calls /\ call[t].fn # "none"
  <1>1. PlaceOK(t) /\ call[t] \in Calls \cup {NoCall}
    BY DEF TypesInv, ThreadsInv
  <1>2. call[t].fn # "none"
    BY <1>1 DEF PlaceOK
  <1> QED
    BY <1>1, <1>2 DEF NoCall

LEMMA ClientCur ==
  ASSUME TypesInv, ThreadsInv, NEW t \in Clients,
         pc[t] \notin {"idle", "members", "walk", "close_group", "close_pool", "unref", "max", "min"}
  PROVE  cur[t] \in Objs
  <1>1. PlaceOK(t) /\ WorkOK(t) /\ call[t] \in Calls
    BY InCalls DEF ThreadsInv
  <1>2. CASE call[t].fn = "members"
    BY <1>1, <1>2 DEF WorkOK
  <1>3. CASE call[t].fn # "members"
    <2>1. call[t].fn \in {"alloc", "simple", "post", "set", "wait", "release"}
      BY <1>1, <1>3 DEF PlaceOK
    <2>2. call[t].obj \in Objs
      BY <1>1, <2>1, Kinds DEF Calls
    <2> QED
      BY <1>1, <1>3, <2>2 DEF WorkOK
  <1> QED
    BY <1>2, <1>3

\* A step of a client that changes no other thread's place and object.
Alone(t) ==
    /\ pc' \in [Threads -> Places] /\ cur' \in [Threads -> Objs \cup {NoOne}]
    /\ todo' \in [Clients -> Seq(Objs \cup Steps)] /\ call' \in [Clients -> Calls \cup {NoCall}]
    /\ \A u \in Threads \ {t} : pc'[u] = pc[u] /\ cur'[u] = cur[u]
    /\ \A u \in Clients \ {t} : todo'[u] = todo[u] /\ call'[u] = call[u]
Stays(t, p) ==
    /\ pc'[t] = p /\ cur'[t] = cur[t] /\ todo'[t] = todo[t] /\ call'[t] = call[t]
Returns(t) ==
    /\ pc'[t] = "idle" /\ cur'[t] = NoOne /\ todo'[t] = <<>> /\ call'[t] = NoCall

LEMMA AfterAlone ==
  ASSUME TypesInv, NEW t \in Clients, NEW rest \in Seq(Steps), After(t, rest)
  PROVE  Alone(t) /\ (rest = <<>> => Returns(t))
  BY AfterFacts DEF Alone, Returns

LEMMA ReturnsAlone ==
  ASSUME TypesInv, NEW t \in Clients, After(t, <<>>)
  PROVE  Alone(t) /\ Returns(t)
  BY AfterAlone, NothingLeft

LEMMA StayAlone ==
  ASSUME TypesInv, NEW t \in Clients, NEW p \in Places, pc' = [pc EXCEPT ![t] = p], UNCHANGED <<cur, todo, call>>
  PROVE  Alone(t) /\ Stays(t, p)
  <1>1. /\ pc \in [Threads -> Places] /\ cur \in [Threads -> Objs \cup {NoOne}]
        /\ todo \in [Clients -> Seq(Objs \cup Steps)] /\ call \in [Clients -> Calls \cup {NoCall}]
        /\ t \in Threads
    BY Kinds DEF TypesInv
  <1> QED
    BY <1>1 DEF Alone, Stays

LEMMA TimerEnterDoes ==
  ASSUME TypesInv, ThreadsInv, NEW t, t = TimerThread, TimerEnter(t)
  PROVE  /\ TypesInv' /\ Moved(t)
         /\ \A o \in Objs : /\ timer'[o].initialized = timer[o].initialized /\ timer'[o].pending = timer[o].pending
                            /\ timer'[o].due => timer[o].due \/ (o \in Timers /\ timer[o].pending)
  <1>0. /\ poolCs \in Workers \cup {NoOne} /\ groupCs \in Clients \cup {NoOne} /\ timerCs \in {TimerThread, NoOne}
        /\ pool \in PoolRecords /\ group \in GroupRecords
        /\ queue \in [1..3 -> Seq(Objs)] /\ obj \in [Objs -> ObjRecords] /\ timer \in [Objs -> TimerRecords]
        /\ pc \in [Threads -> Places] /\ cur \in [Threads -> Objs \cup {NoOne}] /\ inst \in [Workers -> InstRecords]
        /\ call \in [Clients -> Calls \cup {NoCall}] /\ script \in [Clients -> Seq(Calls)]
        /\ todo \in [Clients -> Seq(Objs \cup Steps)]
        /\ closed \in SUBSET Objs /\ quiet \in SUBSET Objs /\ failed \in BOOLEAN
    BY DEF TypesInv
  <1>t. t \in Threads
    BY Kinds
  <1>u. poolCs' = poolCs /\ groupCs' = groupCs /\ pool' = pool /\ queue' = queue /\ obj' = obj /\ group' = group /\
          cur' = cur /\ inst' = inst /\ call' = call /\ todo' = todo /\ script' = script /\ closed' = closed /\
            quiet' = quiet /\ failed' = failed
    BY DEF TimerEnter, locks, history
  <1>1. /\ timer' \in [Objs -> TimerRecords]
        /\ \A o \in Objs : /\ timer'[o].initialized = timer[o].initialized /\ timer'[o].pending = timer[o].pending
                           /\ timer'[o].due => timer[o].due \/ (o \in Timers /\ timer[o].pending)
    <2>1. CASE timer' = timer
      BY <1>0, <2>1
    <2>2. CASE \E D \in SUBSET {o \in Timers : timer[o].pending} : timer' = [o \in Objs |-> [timer[o] EXCEPT !.due = o \in D]]
      <3>1. PICK D \in SUBSET {o \in Timers : timer[o].pending} : timer' = [o \in Objs |-> [timer[o] EXCEPT !.due = o \in D]]
        BY <2>2
      <3>4. ASSUME NEW o \in Objs
            PROVE  timer'[o] \in TimerRecords /\ timer'[o].initialized = timer[o].initialized /\
                     timer'[o].pending = timer[o].pending /\ timer'[o].due = (o \in D)
        <4> DEFINE b == o \in D
        <4>1. timer[o] \in TimerRecords /\ b \in BOOLEAN /\ timer'[o] = [timer[o] EXCEPT !.due = b]
          BY <1>0, <3>1
        <4> HIDE DEF b
        <4>2. timer'[o] = [initialized |-> timer[o].initialized, pending |-> timer[o].pending, due |-> b]
          BY <4>1 DEF TimerRecords
        <4>3. timer'[o] \in TimerRecords
          BY <4>1, <4>2 DEF TimerRecords
        <4>4. timer'[o].initialized = timer[o].initialized /\ timer'[o].pending = timer[o].pending /\
                timer'[o].due = b
          BY <4>2
        <4> QED
          BY <4>3, <4>4 DEF b
      <3>5. timer' = [o \in Objs |-> timer'[o]]
        BY <3>1
      <3> QED
        BY <3>1, <3>4, <3>5
    <2> QED
      BY <2>1, <2>2 DEF TimerEnter
  <1>2. (pc' = [pc EXCEPT ![t] = "none"] /\ timerCs' = timerCs) \/ (pc' = [pc EXCEPT ![t] = "scan"] /\ timerCs' = t)
    BY DEF TimerEnter
  <1>3. pc' \in [Threads -> Places] /\ timerCs' \in {TimerThread, NoOne}
    BY <1>0, <1>t, <1>2 DEF Places
  <1>y. TypesInv'
    BY <1>0, <1>u, <1>1, <1>3 DEF TypesInv, ObjGoes, PoolGoes, TimerGoes, GroupGoes
  <1>z. Moved(t)
    BY <1>0, <1>t, <1>u, <1>2, <1>3, Kinds DEF Moved, Drift
  <1> QED
    BY <1>1, <1>2, <1>3, <1>y, <1>z

LEMMA TimerExpireDoes ==
  ASSUME TypesInv, ThreadsInv, NEW t, t = TimerThread, NEW o \in Timers, TimerExpire(t, o)
  PROVE  /\ TypesInv' /\ Moved(t)
         /\ TimerGoes(o, timer[o].initialized, FALSE, FALSE)
  <1>0. /\ poolCs \in Workers \cup {NoOne} /\ groupCs \in Clients \cup {NoOne} /\ timerCs \in {TimerThread, NoOne}
        /\ pool \in PoolRecords /\ group \in GroupRecords
        /\ queue \in [1..3 -> Seq(Objs)] /\ obj \in [Objs -> ObjRecords] /\ timer \in [Objs -> TimerRecords]
        /\ pc \in [Threads -> Places] /\ cur \in [Threads -> Objs \cup {NoOne}] /\ inst \in [Workers -> InstRecords]
        /\ call \in [Clients -> Calls \cup {NoCall}] /\ script \in [Clients -> Seq(Calls)]
        /\ todo \in [Clients -> Seq(Objs \cup Steps)]
        /\ closed \in SUBSET Objs /\ quiet \in SUBSET Objs /\ failed \in BOOLEAN
    BY DEF TypesInv
  <1>t. t \in Threads
    BY Kinds
  <1>u. poolCs' = poolCs /\ groupCs' = groupCs /\ timerCs' = timerCs /\ pool' = pool /\ queue' = queue /\
          obj' = obj /\ group' = group /\ inst' = inst /\ call' = call /\ todo' = todo /\ script' = script /\
            closed' = closed /\ quiet' = quiet
    BY DEF TimerExpire, locks, history
  <1>a. o \in Objs
    BY Kinds
  <1>1. TimerGoes(o, timer[o].initialized, FALSE, FALSE)
    <2>1. timer' = [timer EXCEPT ![o].pending = FALSE, ![o].due = FALSE]
      BY DEF TimerExpire
    <2>2. timer \in [Objs -> TimerRecords] /\ o \in Objs
      BY <1>0, <1>a
    <2> QED
      BY <2>1, <2>2 DEF TimerGoes, TimerRecords
  <1>2. pc' = [pc EXCEPT ![t] = "submit"]
    BY DEF TimerExpire
  <1>3. pc' \in [Threads -> Places]
    BY <1>0, <1>t, <1>2, Kinds DEF Places, InstRecords
  <1>4. cur' = [cur EXCEPT ![t] = o]
    BY DEF TimerExpire
  <1>5. cur' \in [Threads -> Objs \cup {NoOne}]
    BY <1>0, <1>t, <1>a, <1>4
  <1>f. failed' \in BOOLEAN
    BY <1>0 DEF TimerExpire, Asserts
  <1>y. TypesInv'
    BY <1>0, <1>u, <1>1, <1>3, <1>5, <1>f DEF TypesInv, ObjGoes, PoolGoes, TimerGoes, GroupGoes
  <1>z. Moved(t)
    BY <1>0, <1>t, <1>u, <1>a, <1>2, <1>3, <1>4, <1>5, <1>f, Kinds DEF Moved, Drift
  <1> QED
    BY <1>a, <1>1, <1>2, <1>3, <1>4, <1>5, <1>f, <1>y, <1>z

LEMMA TimerSubmitDoes ==
  ASSUME TypesInv, ThreadsInv, NEW t, t = TimerThread, TimerSubmit(t)
  PROVE  /\ TypesInv' /\ Moved(t)
         /\ ObjGoes(cur[t], obj[cur[t]].state, obj[cur[t]].ref + 1, obj[cur[t]].shutdown, obj[cur[t]].pending + 1,
                    obj[cur[t]].running, obj[cur[t]].associated, obj[cur[t]].member)
         /\ LET busy == pool.busy + (IF obj[cur[t]].pending = 0 THEN 1 ELSE 0)
            IN  \/ /\ \E w \in Workers : Hired(t, w)
                   /\ PoolGoes(pool.ref + 1, pool.objcount, pool.shutdown, pool.workers + 1, busy)
                \/ /\ Unhired(t)
                   /\ PoolGoes(pool.ref, pool.objcount, pool.shutdown, pool.workers, busy)
         /\ pc'[t] = "scan"
         /\ TimerGoes(cur[t], timer[cur[t]].initialized, (cur[t] \in Periodic /\ ~obj[cur[t]].shutdown),
              timer[cur[t]].due)
  <1>0. /\ poolCs \in Workers \cup {NoOne} /\ groupCs \in Clients \cup {NoOne} /\ timerCs \in {TimerThread, NoOne}
        /\ pool \in PoolRecords /\ group \in GroupRecords
        /\ queue \in [1..3 -> Seq(Objs)] /\ obj \in [Objs -> ObjRecords] /\ timer \in [Objs -> TimerRecords]
        /\ pc \in [Threads -> Places] /\ cur \in [Threads -> Objs \cup {NoOne}] /\ inst \in [Workers -> InstRecords]
        /\ call \in [Clients -> Calls \cup {NoCall}] /\ script \in [Clients -> Seq(Calls)]
        /\ todo \in [Clients -> Seq(Objs \cup Steps)]
        /\ closed \in SUBSET Objs /\ quiet \in SUBSET Objs /\ failed \in BOOLEAN
    BY DEF TypesInv
  <1>t. t \in Threads
    BY Kinds
  <1>u. poolCs' = poolCs /\ groupCs' = groupCs /\ timerCs' = timerCs /\ group' = group /\ inst' = inst /\
          call' = call /\ todo' = todo /\ script' = script /\ closed' = closed /\ quiet' = quiet
    BY DEF TimerSubmit, locks, history
  <1>a. cur[t] \in Timers /\ cur[t] \in Objs
    BY Kinds DEF TimerSubmit, ThreadsInv, TimerThreadOK
  <1>1. /\ pc' \in [Threads -> Places] /\ queue' \in [1..3 -> Seq(Objs)] /\ failed' \in BOOLEAN /\ pc'[t] = "scan"
        /\ ObjGoes(cur[t], obj[cur[t]].state, obj[cur[t]].ref + 1, obj[cur[t]].shutdown, obj[cur[t]].pending + 1,
                   obj[cur[t]].running, obj[cur[t]].associated, obj[cur[t]].member)
        /\ LET busy == pool.busy + (IF obj[cur[t]].pending = 0 THEN 1 ELSE 0)
           IN  \/ /\ \E w \in Workers : Hired(t, w)
                  /\ PoolGoes(pool.ref + 1, pool.objcount, pool.shutdown, pool.workers + 1, busy)
               \/ /\ Unhired(t)
                  /\ PoolGoes(pool.ref, pool.objcount, pool.shutdown, pool.workers, busy)
        /\ \A u \in Threads \ {t} :
              \/ pc'[u] = pc[u]
              \/ u \in Workers /\ pc[u] = "none" /\ pc'[u] = "start"
              \/ u \in Workers /\ pc[u] = "sleep" /\ pc'[u] = "woken"
              \/ u \in Workers /\ pc[u] = "timedout" /\ pc'[u] = "late"
    <2>1. Submit(cur[t], t, "scan")
      BY DEF TimerSubmit
    <2>2. ("scan") \in Places /\ t \notin Workers
      BY Kinds DEF Places
    <2> QED
      BY <1>a, <1>t, <2>1, <2>2, SubmitFacts
  <1>b. (cur[t] \in Periodic /\ ~obj[cur[t]].shutdown) \in BOOLEAN
    OBVIOUS
  <1>2. TimerGoes(cur[t], timer[cur[t]].initialized, (cur[t] \in Periodic /\ ~obj[cur[t]].shutdown),
          timer[cur[t]].due)
    <2>1. timer' = [timer EXCEPT ![cur[t]].pending = cur[t] \in Periodic /\ ~obj[cur[t]].shutdown]
      BY DEF TimerSubmit
    <2>2. timer \in [Objs -> TimerRecords] /\ cur[t] \in Objs
      BY <1>0, <1>a
    <2> QED
      BY <2>1, <2>2 DEF TimerGoes, TimerRecords
  <1>3. cur' = [cur EXCEPT ![t] = NoOne]
    BY DEF TimerSubmit
  <1>4. cur' \in [Threads -> Objs \cup {NoOne}]
    BY <1>0, <1>t, <1>3
  <1>y. TypesInv'
    BY <1>0, <1>u, <1>1, <1>2, <1>4 DEF TypesInv, ObjGoes, PoolGoes, TimerGoes, GroupGoes
  <1>z. Moved(t)
    BY <1>0, <1>t, <1>u, <1>a, <1>1, <1>b, <1>3, <1>4, Kinds DEF Moved, Drift
  <1> QED
    BY <1>a, <1>1, <1>b, <1>2, <1>3, <1>4, <1>y, <1>z

LEMMA TimerLeaveDoes ==
  ASSUME TypesInv, ThreadsInv, NEW t, t = TimerThread, TimerLeave(t)
  PROVE  /\ TypesInv' /\ Moved(t)
  <1>0. /\ poolCs \in Workers \cup {NoOne} /\ groupCs \in Clients \cup {NoOne} /\ timerCs \in {TimerThread, NoOne}
        /\ pool \in PoolRecords /\ group \in GroupRecords
        /\ queue \in [1..3 -> Seq(Objs)] /\ obj \in [Objs -> ObjRecords] /\ timer \in [Objs -> TimerRecords]
        /\ pc \in [Threads -> Places] /\ cur \in [Threads -> Objs \cup {NoOne}] /\ inst \in [Workers -> InstRecords]
        /\ call \in [Clients -> Calls \cup {NoCall}] /\ script \in [Clients -> Seq(Calls)]
        /\ todo \in [Clients -> Seq(Objs \cup Steps)]
        /\ closed \in SUBSET Objs /\ quiet \in SUBSET Objs /\ failed \in BOOLEAN
    BY DEF TypesInv
  <1>t. t \in Threads
    BY Kinds
  <1>u. poolCs' = poolCs /\ groupCs' = groupCs /\ pool' = pool /\ queue' = queue /\ obj' = obj /\ timer' = timer /\
          group' = group /\ cur' = cur /\ inst' = inst /\ call' = call /\ todo' = todo /\ script' = script /\
            closed' = closed /\ quiet' = quiet /\ failed' = failed
    BY DEF TimerLeave, locks, history
  <1>1. timerCs' = NoOne
    BY DEF TimerLeave
  <1>2. timerCs' \in {TimerThread, NoOne}
    BY <1>1
  <1>3. pc' = [pc EXCEPT ![t] = "wait"]
    BY DEF TimerLeave
  <1>4. pc' \in [Threads -> Places]
    BY <1>0, <1>t, <1>3, Kinds DEF Places, InstRecords
  <1>y. TypesInv'
    BY <1>0, <1>u, <1>2, <1>4 DEF TypesInv, ObjGoes, PoolGoes, TimerGoes, GroupGoes
  <1>z. Moved(t)
    BY <1>0, <1>t, <1>u, <1>1, <1>2, <1>3, <1>4, Kinds DEF Moved, Drift
  <1> QED
    BY <1>1, <1>2, <1>3, <1>4, <1>y, <1>z

LEMMA BeginDoes ==
  ASSUME TypesInv, ThreadsInv, NEW t \in Clients, Begin(t)
  PROVE  /\ TypesInv' /\ Moved(t)
  <1>0. /\ poolCs \in Workers \cup {NoOne} /\ groupCs \in Clients \cup {NoOne} /\ timerCs \in {TimerThread, NoOne}
        /\ pool \in PoolRecords /\ group \in GroupRecords
        /\ queue \in [1..3 -> Seq(Objs)] /\ obj \in [Objs -> ObjRecords] /\ timer \in [Objs -> TimerRecords]
        /\ pc \in [Threads -> Places] /\ cur \in [Threads -> Objs \cup {NoOne}] /\ inst \in [Workers -> InstRecords]
        /\ call \in [Clients -> Calls \cup {NoCall}] /\ script \in [Clients -> Seq(Calls)]
        /\ todo \in [Clients -> Seq(Objs \cup Steps)]
        /\ closed \in SUBSET Objs /\ quiet \in SUBSET Objs /\ failed \in BOOLEAN
    BY DEF TypesInv
  <1>t. t \in Threads
    BY Kinds
  <1>u. poolCs' = poolCs /\ groupCs' = groupCs /\ timerCs' = timerCs /\ pool' = pool /\ queue' = queue /\
          obj' = obj /\ timer' = timer /\ group' = group /\ inst' = inst /\ todo' = todo /\ quiet' = quiet /\
            failed' = failed
    BY DEF Begin, locks, history
  <1>a. /\ Head(script[t]) \in Calls /\ Tail(script[t]) \in Seq(Calls)
        /\ Head(script[t]).obj \in Objs \cup {NoOne} /\ FirstStep(Head(script[t])) \in Places
    <2>1. script[t] \in Seq(Calls) /\ script[t] # <<>>
      BY <1>0 DEF Begin
    <2>2. Head(script[t]) \in Calls /\ Tail(script[t]) \in Seq(Calls)
      BY <2>1
    <2> DEFINE c == Head(script[t])
    <2> HIDE DEF c
    <2>3. c \in Calls
      BY <2>2 DEF c
    <2>4. c.obj \in Objs \cup {NoOne} /\ FirstStep(c) \in Places
      BY <2>3 DEF Calls, FirstStep, Places
    <2> QED
      BY <2>2, <2>4 DEF c
  <1>1. pc' = [pc EXCEPT ![t] = FirstStep(Head(script[t]))]
    BY DEF Begin
  <1>2. pc' \in [Threads -> Places]
    BY <1>0, <1>t, <1>a, <1>1
  <1>3. cur' = [cur EXCEPT ![t] = Head(script[t]).obj]
    BY DEF Begin
  <1>4. cur' \in [Threads -> Objs \cup {NoOne}]
    BY <1>0, <1>t, <1>a, <1>3
  <1>5. call' = [call EXCEPT ![t] = Head(script[t])]
    BY DEF Begin
  <1>6. call' \in [Clients -> Calls \cup {NoCall}]
    BY <1>0, <1>a, <1>5
  <1>7. script' = [script EXCEPT ![t] = Tail(@)]
    BY DEF Begin
  <1>8. script' \in [Clients -> Seq(Calls)]
    BY <1>0, <1>a, <1>7
  <1>9. closed' \in SUBSET Objs
    <2> DEFINE c == Head(script[t])
    <2>1. closed' = closed \cup (CASE c.fn = "release" -> {c.obj} [] c.fn = "members" -> {o \in Grouped : obj[o].state = "live"} [] OTHER -> {})
      BY DEF Begin
    <2>2. c.fn = "release" => c.obj \in Objs
      BY <1>a DEF Calls
    <2> HIDE DEF c
    <2> QED
      BY <1>0, <2>1, <2>2, Kinds
  <1>y. TypesInv'
    BY <1>0, <1>u, <1>2, <1>4, <1>6, <1>8, <1>9 DEF TypesInv, ObjGoes, PoolGoes, TimerGoes, GroupGoes
  <1>z. Moved(t)
    BY <1>0, <1>t, <1>u, <1>a, <1>1, <1>2, <1>3, <1>4, <1>5, <1>6, <1>7, <1>8, <1>9, Kinds DEF Moved, Drift
  <1> QED
    BY <1>a, <1>1, <1>2, <1>3, <1>4, <1>5, <1>6, <1>7, <1>8, <1>9, <1>y, <1>z

LEMMA PoolLockDoes ==
  ASSUME TypesInv, ThreadsInv, NEW t \in Clients, PoolLock(t)
  PROVE  /\ TypesInv' /\ Moved(t)
         /\ /\ pc' \in [Threads -> Places] /\ cur' \in [Threads -> Objs \cup {NoOne}]
            /\ todo' \in [Clients -> Seq(Objs \cup Steps)] /\ call' \in [Clients -> Calls \cup {NoCall}]
            /\ \/ Alone(t) /\ Returns(t) /\ pool' = pool /\ obj' = obj
               \/ /\ ObjGoes(cur[t], "live", 1, FALSE, 0, 0, 0, FALSE)
                  /\ Stays(t, (IF cur[t] \in Timers THEN "timer_lock" ELSE IF cur[t] \in Simples THEN "submit" ELSE "init")) /\ UNCHANGED <<cur, todo, call>>
                  /\ \A u \in Clients \ {t} : pc'[u] = pc[u]
                  /\ pc'[TimerThread] = pc[TimerThread]
                  /\ \/ /\ pool.workers = 0 /\ (\E w \in Workers : Hired(t, w))
                        /\ PoolGoes(pool.ref + 2, pool.objcount + 1, pool.shutdown, pool.workers + 1, pool.busy)
                     \/ /\ pool.workers # 0 /\ (\A w \in Workers : pc'[w] = pc[w])
                        /\ PoolGoes(pool.ref + 1, pool.objcount + 1, pool.shutdown, pool.workers, pool.busy)
  <1>0. /\ poolCs \in Workers \cup {NoOne} /\ groupCs \in Clients \cup {NoOne} /\ timerCs \in {TimerThread, NoOne}
        /\ pool \in PoolRecords /\ group \in GroupRecords
        /\ queue \in [1..3 -> Seq(Objs)] /\ obj \in [Objs -> ObjRecords] /\ timer \in [Objs -> TimerRecords]
        /\ pc \in [Threads -> Places] /\ cur \in [Threads -> Objs \cup {NoOne}] /\ inst \in [Workers -> InstRecords]
        /\ call \in [Clients -> Calls \cup {NoCall}] /\ script \in [Clients -> Seq(Calls)]
        /\ todo \in [Clients -> Seq(Objs \cup Steps)]
        /\ closed \in SUBSET Objs /\ quiet \in SUBSET Objs /\ failed \in BOOLEAN
    BY DEF TypesInv
  <1>t. t \in Threads
    BY Kinds
  <1>u. poolCs' = poolCs /\ groupCs' = groupCs /\ timerCs' = timerCs /\ queue' = queue /\ timer' = timer /\
          group' = group /\ inst' = inst /\ script' = script /\ closed' = closed /\ quiet' = quiet /\ failed' = failed
    BY DEF PoolLock, locks, history
  <1>a. cur[t] \in Objs
    BY ClientCur DEF PoolLock
  <1>p. (IF cur[t] \in Timers THEN "timer_lock" ELSE IF cur[t] \in Simples THEN "submit" ELSE "init") \in Places
    BY DEF Places
  <1>1. /\ pc' \in [Threads -> Places] /\ cur' \in [Threads -> Objs \cup {NoOne}]
        /\ todo' \in [Clients -> Seq(Objs \cup Steps)] /\ call' \in [Clients -> Calls \cup {NoCall}]
        /\ \/ Alone(t) /\ Returns(t) /\ pool' = pool /\ obj' = obj
           \/ /\ ObjGoes(cur[t], "live", 1, FALSE, 0, 0, 0, FALSE)
              /\ Stays(t, (IF cur[t] \in Timers THEN "timer_lock" ELSE IF cur[t] \in Simples THEN "submit" ELSE "init")) /\ UNCHANGED <<cur, todo, call>>
              /\ \A u \in Clients \ {t} : pc'[u] = pc[u]
              /\ pc'[TimerThread] = pc[TimerThread]
              /\ \/ /\ pool.workers = 0 /\ (\E w \in Workers : Hired(t, w))
                    /\ PoolGoes(pool.ref + 2, pool.objcount + 1, pool.shutdown, pool.workers + 1, pool.busy)
                 \/ /\ pool.workers # 0 /\ (\A w \in Workers : pc'[w] = pc[w])
                    /\ PoolGoes(pool.ref + 1, pool.objcount + 1, pool.shutdown, pool.workers, pool.busy)
    <2>1. CASE pool.workers = 0 /\ Spare = {}
      <3>1. After(t, <<>>) /\ pool' = pool /\ obj' = obj
        BY <2>1 DEF PoolLock
      <3>2. Alone(t) /\ Returns(t)
        BY <3>1, ReturnsAlone
      <3> QED
        BY <3>1, <3>2 DEF Alone
    <2>2. CASE ~(pool.workers = 0 /\ Spare = {})
      <3>1. obj' = [obj EXCEPT ![cur[t]] = FreshObject] /\ cur' = cur /\ todo' = todo /\ call' = call
        BY <2>2 DEF PoolLock
      <3>2. FreshObject \in ObjRecords
        BY DEF FreshObject, ObjRecords
      <3>3. ObjGoes(cur[t], "live", 1, FALSE, 0, 0, 0, FALSE)
        <4>1. obj \in [Objs -> ObjRecords] /\ cur[t] \in Objs
          BY <1>0, <1>a
        <4>2. obj'[cur[t]] = FreshObject /\ obj' \in [Objs -> ObjRecords] /\
                \A x \in Objs \ {cur[t]} : obj'[x] = obj[x]
          BY <3>1, <3>2, <4>1
        <4> QED
          BY <4>2 DEF FreshObject, ObjGoes
      <3>4. pool \in PoolRecords
        BY <1>0
      <3>5. CASE pool.workers = 0
        <4>1. PICK w \in Spare : StartWorker(w, t,
                (IF cur[t] \in Timers THEN "timer_lock" ELSE IF cur[t] \in Simples THEN "submit" ELSE "init"))
          BY <2>2, <3>5 DEF PoolLock
        <4>2. w \in Workers /\ w \in Threads /\ pc[w] = "none" /\ w # t
          BY Kinds DEF Spare
        <4>3. pc' = [pc EXCEPT ![w] = "start",
                ![t] = (IF cur[t] \in Timers THEN "timer_lock" ELSE IF cur[t] \in Simples THEN "submit" ELSE "init")] /\ "start" \in Places
          BY <4>1 DEF StartWorker, Places
        <4>4. pool' = [Staffed(pool) EXCEPT !.ref = @ + 1, !.objcount = @ + 1]
          BY <2>2, <3>5 DEF PoolLock
        <4> DEFINE q == Staffed(pool)
        <4>9. q = [pool EXCEPT !.ref = @ + 1, !.workers = @ + 1] /\ pool' = [q EXCEPT !.ref = @ + 1,
                !.objcount = @ + 1]
          BY <4>4 DEF Staffed
        <4> HIDE DEF q
        <4>10. q = [ref |-> pool.ref + 1, objcount |-> pool.objcount, shutdown |-> pool.shutdown, min |-> pool.min,
                    max |-> pool.max, workers |-> pool.workers + 1, busy |-> pool.busy, freed |-> pool.freed]
          BY <3>4, <4>9 DEF PoolRecords
        <4>11. q \in PoolRecords /\ q.ref = pool.ref + 1 /\ q.objcount = pool.objcount
          BY <3>4, <4>10 DEF PoolRecords
        <4>12. pool' = [ref |-> q.ref + 1, objcount |-> q.objcount + 1, shutdown |-> q.shutdown, min |-> q.min,
                        max |-> q.max, workers |-> q.workers, busy |-> q.busy, freed |-> q.freed]
          BY <4>9, <4>11 DEF PoolRecords
        <4>5. pool' = [ref |-> pool.ref + 2, objcount |-> pool.objcount + 1, shutdown |-> pool.shutdown,
                min |-> pool.min,
                       max |-> pool.max, workers |-> pool.workers + 1, busy |-> pool.busy, freed |-> pool.freed]
          BY <3>4, <4>10, <4>12 DEF PoolRecords
        <4>6. PoolGoes(pool.ref + 2, pool.objcount + 1, pool.shutdown, pool.workers + 1, pool.busy)
          BY <3>4, <4>5 DEF PoolGoes, PoolRecords
        <4>7. Hired(t, w) /\ pc' \in [Threads -> Places]
          BY <1>0, <1>t, <1>p, <4>2, <4>3, Kinds DEF Hired
        <4>8. /\ Stays(t, (IF cur[t] \in Timers THEN "timer_lock" ELSE IF cur[t] \in Simples THEN "submit" ELSE "init")) /\ (\A u \in Clients \ {t} : pc'[u] = pc[u])
              /\ pc'[TimerThread] = pc[TimerThread]
          BY <1>0, <1>t, <3>1, <4>2, <4>3, Kinds DEF Stays
        <4> HIDE DEF Alone, Stays, Returns, Hired, ObjGoes, PoolGoes, Steps
        <4> QED
          BY <1>0, <3>1, <3>3, <3>5, <4>2, <4>6, <4>7, <4>8
      <3>6. CASE pool.workers # 0
        <4>3. pc' = [pc EXCEPT ![t] = (IF cur[t] \in Timers THEN "timer_lock" ELSE IF cur[t] \in Simples THEN "submit" ELSE "init")]
          BY <2>2, <3>6 DEF PoolLock
        <4>4. pool' = [pool EXCEPT !.ref = @ + 1, !.objcount = @ + 1]
          BY <2>2, <3>6 DEF PoolLock
        <4>5. pool' = [ref |-> pool.ref + 1, objcount |-> pool.objcount + 1, shutdown |-> pool.shutdown,
                min |-> pool.min,
                       max |-> pool.max, workers |-> pool.workers, busy |-> pool.busy, freed |-> pool.freed]
          BY <3>4, <4>4 DEF PoolRecords
        <4>6. PoolGoes(pool.ref + 1, pool.objcount + 1, pool.shutdown, pool.workers, pool.busy)
          BY <3>4, <4>5 DEF PoolGoes, PoolRecords
        <4>8. /\ Stays(t, (IF cur[t] \in Timers THEN "timer_lock" ELSE IF cur[t] \in Simples THEN "submit" ELSE "init")) /\ (\A u \in Clients \ {t} : pc'[u] = pc[u])
              /\ pc'[TimerThread] = pc[TimerThread] /\ (\A w \in Workers : pc'[w] = pc[w]) /\
                   pc' \in [Threads -> Places]
          BY <1>0, <1>t, <1>p, <3>1, <4>3, Kinds DEF Stays
        <4> QED
          BY <1>0, <3>1, <3>3, <3>6, <4>6, <4>8
      <3> QED
        BY <3>5, <3>6
    <2> QED
      BY <2>1, <2>2
  <1>y. TypesInv'
    BY <1>0, <1>u, <1>1 DEF TypesInv, ObjGoes, PoolGoes, TimerGoes, GroupGoes
  <1>z. Moved(t)
    <2>1. CASE Alone(t)
      BY <1>0, <1>t, <1>u, <2>1, Kinds DEF Moved, Drift, Alone
    <2>2. CASE UNCHANGED <<cur, todo, call>> /\ (\A u \in Clients \ {t} : pc'[u] = pc[u]) /\
                 pc'[TimerThread] = pc[TimerThread]
               /\ ((\E w \in Workers : Hired(t, w)) \/ \A w \in Workers : pc'[w] = pc[w])
      BY <1>0, <1>t, <1>u, <2>2, Kinds DEF Moved, Drift, Hired
    <2> QED
      BY <1>1, <2>1, <2>2
  <1> QED
    BY <1>a, <1>p, <1>1, <1>y, <1>z

LEMMA TimerLockDoes ==
  ASSUME TypesInv, ThreadsInv, NEW t \in Clients, TimerLock(t)
  PROVE  /\ TypesInv' /\ Moved(t)
         /\ TimerGoes(cur[t], TRUE, timer[cur[t]].pending, timer[cur[t]].due)
  <1>0. /\ poolCs \in Workers \cup {NoOne} /\ groupCs \in Clients \cup {NoOne} /\ timerCs \in {TimerThread, NoOne}
        /\ pool \in PoolRecords /\ group \in GroupRecords
        /\ queue \in [1..3 -> Seq(Objs)] /\ obj \in [Objs -> ObjRecords] /\ timer \in [Objs -> TimerRecords]
        /\ pc \in [Threads -> Places] /\ cur \in [Threads -> Objs \cup {NoOne}] /\ inst \in [Workers -> InstRecords]
        /\ call \in [Clients -> Calls \cup {NoCall}] /\ script \in [Clients -> Seq(Calls)]
        /\ todo \in [Clients -> Seq(Objs \cup Steps)]
        /\ closed \in SUBSET Objs /\ quiet \in SUBSET Objs /\ failed \in BOOLEAN
    BY DEF TypesInv
  <1>t. t \in Threads
    BY Kinds
  <1>u. poolCs' = poolCs /\ groupCs' = groupCs /\ timerCs' = timerCs /\ pool' = pool /\ queue' = queue /\
          obj' = obj /\ group' = group /\ cur' = cur /\ inst' = inst /\ call' = call /\ todo' = todo /\
            script' = script /\ closed' = closed /\ quiet' = quiet /\ failed' = failed
    BY DEF TimerLock, locks, history
  <1>a. cur[t] \in Objs
    BY ClientCur DEF TimerLock
  <1>1. TimerGoes(cur[t], TRUE, timer[cur[t]].pending, timer[cur[t]].due)
    <2>1. timer' = [timer EXCEPT ![cur[t]].initialized = TRUE]
      BY DEF TimerLock
    <2>2. timer \in [Objs -> TimerRecords] /\ cur[t] \in Objs
      BY <1>0, <1>a
    <2> QED
      BY <2>1, <2>2 DEF TimerGoes, TimerRecords
  <1>2. pc' = [pc EXCEPT ![t] = "init", ![TimerThread] = IF pc[TimerThread] = "none" THEN "wait" ELSE pc[TimerThread]]
    <2>1. pc' = [pc EXCEPT ![t] = "init", ![TimerThread] = IF @ = "none" THEN "wait" ELSE @] /\ t # TimerThread
      BY Kinds DEF TimerLock
    <2> QED
      BY <1>0, <1>t, <2>1, Kinds
  <1>3. pc' \in [Threads -> Places]
    BY <1>0, <1>t, <1>2, Kinds DEF Places
  <1>y. TypesInv'
    BY <1>0, <1>u, <1>1, <1>3 DEF TypesInv, ObjGoes, PoolGoes, TimerGoes, GroupGoes
  <1>z. Moved(t)
    BY <1>0, <1>t, <1>u, <1>a, <1>2, <1>3, Kinds DEF Moved, Drift
  <1> QED
    BY <1>a, <1>1, <1>2, <1>3, <1>y, <1>z

LEMMA InitializeDoes ==
  ASSUME TypesInv, ThreadsInv, NEW t \in Clients, Initialize(t)
  PROVE  /\ TypesInv' /\ Moved(t)
         /\ /\ cur[t] \notin Grouped => group' = group /\ obj' = obj
            /\ cur[t] \in Grouped =>
                  /\ GroupGoes(group.ref + 1, group.shutdown, Append(group.members, cur[t]))
                  /\ ObjGoes(cur[t], obj[cur[t]].state, obj[cur[t]].ref, obj[cur[t]].shutdown, obj[cur[t]].pending,
                       obj[cur[t]].running, obj[cur[t]].associated, TRUE)
         /\ Alone(t) /\ (cur[t] \in Simples => Stays(t, "drop")) /\ (cur[t] \notin Simples => Returns(t))
  <1>0. /\ poolCs \in Workers \cup {NoOne} /\ groupCs \in Clients \cup {NoOne} /\ timerCs \in {TimerThread, NoOne}
        /\ pool \in PoolRecords /\ group \in GroupRecords
        /\ queue \in [1..3 -> Seq(Objs)] /\ obj \in [Objs -> ObjRecords] /\ timer \in [Objs -> TimerRecords]
        /\ pc \in [Threads -> Places] /\ cur \in [Threads -> Objs \cup {NoOne}] /\ inst \in [Workers -> InstRecords]
        /\ call \in [Clients -> Calls \cup {NoCall}] /\ script \in [Clients -> Seq(Calls)]
        /\ todo \in [Clients -> Seq(Objs \cup Steps)]
        /\ closed \in SUBSET Objs /\ quiet \in SUBSET Objs /\ failed \in BOOLEAN
    BY DEF TypesInv
  <1>t. t \in Threads
    BY Kinds
  <1>u. poolCs' = poolCs /\ groupCs' = groupCs /\ timerCs' = timerCs /\ pool' = pool /\ queue' = queue /\
          timer' = timer /\ inst' = inst /\ script' = script /\ closed' = closed /\ quiet' = quiet /\ failed' = failed
    BY DEF Initialize, locks, history
  <1>a. cur[t] \in Objs
    BY ClientCur DEF Initialize
  <1>1. /\ cur[t] \notin Grouped => group' = group /\ obj' = obj
        /\ cur[t] \in Grouped =>
              /\ GroupGoes(group.ref + 1, group.shutdown, Append(group.members, cur[t]))
              /\ ObjGoes(cur[t], obj[cur[t]].state, obj[cur[t]].ref, obj[cur[t]].shutdown, obj[cur[t]].pending,
                   obj[cur[t]].running, obj[cur[t]].associated, TRUE)
    <2>1. CASE cur[t] \notin Grouped
      BY <2>1 DEF Initialize
    <2>2. CASE cur[t] \in Grouped
      <3>1. /\ group' = [group EXCEPT !.ref = @ + 1, !.members = Append(@, cur[t])]
            /\ obj' = [obj EXCEPT ![cur[t]].member = TRUE]
        BY <2>2 DEF Initialize
      <3>2. group \in GroupRecords /\ group.members \in Seq(Objs) /\ obj \in [Objs -> ObjRecords]
        BY <1>0 DEF GroupRecords
      <3>3. Append(group.members, cur[t]) \in Seq(Objs)
        BY <1>a, <3>2
      <3>4. group' = [ref |-> group.ref + 1, shutdown |-> group.shutdown, members |-> Append(group.members, cur[t]),
              freed |-> group.freed]
        BY <3>1, <3>2, <3>3 DEF GroupRecords
      <3>5. GroupGoes(group.ref + 1, group.shutdown, Append(group.members, cur[t]))
        BY <3>2, <3>3, <3>4 DEF GroupGoes, GroupRecords
      <3>6. ObjGoes(cur[t], obj[cur[t]].state, obj[cur[t]].ref, obj[cur[t]].shutdown, obj[cur[t]].pending,
              obj[cur[t]].running, obj[cur[t]].associated, TRUE)
        <4>1. obj' = [obj EXCEPT ![cur[t]].member = TRUE] /\ obj \in [Objs -> ObjRecords] /\ cur[t] \in Objs
          BY <1>a, <3>1, <3>2
        <4> QED
          BY <4>1 DEF ObjGoes, ObjRecords
      <3> QED
        BY <2>2, <3>5, <3>6
    <2> QED
      BY <2>1, <2>2
  <1>2. Alone(t) /\ (cur[t] \in Simples => Stays(t, "drop")) /\ (cur[t] \notin Simples => Returns(t))
    <2>1. CASE cur[t] \in Simples
      <3>1. pc' = [pc EXCEPT ![t] = "drop"] /\ UNCHANGED <<cur, todo, call>> /\ "drop" \in Places
        BY <2>1 DEF Initialize, Places
      <3> QED
        BY <2>1, <3>1, StayAlone
    <2>2. CASE cur[t] \notin Simples
      <3>1. After(t, <<>>)
        BY <2>2 DEF Initialize
      <3> QED
        BY <2>2, <3>1, ReturnsAlone
    <2> QED
      BY <2>1, <2>2
  <1>y. TypesInv'
    BY <1>0, <1>u, <1>1, <1>2 DEF TypesInv, ObjGoes, PoolGoes, TimerGoes, GroupGoes, Alone
  <1>z. Moved(t)
    BY <1>0, <1>t, <1>u, <1>2, Kinds DEF Moved, Drift, Alone
  <1> QED
    BY <1>a, <1>1, <1>2, <1>y, <1>z

LEMMA PostWorkDoes ==
  ASSUME TypesInv, ThreadsInv, NEW t \in Clients, PostWork(t)
  PROVE  /\ TypesInv' /\ Moved(t)
         /\ ObjGoes(cur[t], obj[cur[t]].state, obj[cur[t]].ref + 1, obj[cur[t]].shutdown, obj[cur[t]].pending + 1,
                    obj[cur[t]].running, obj[cur[t]].associated, obj[cur[t]].member)
         /\ LET busy == pool.busy + (IF obj[cur[t]].pending = 0 THEN 1 ELSE 0)
            IN  \/ /\ \E w \in Workers : Hired(t, w)
                   /\ PoolGoes(pool.ref + 1, pool.objcount, pool.shutdown, pool.workers + 1, busy)
                \/ /\ Unhired(t)
                   /\ PoolGoes(pool.ref, pool.objcount, pool.shutdown, pool.workers, busy)
         /\ pc'[t] = (IF cur[t] \in Simples THEN "init" ELSE "idle")
  <1>0. /\ poolCs \in Workers \cup {NoOne} /\ groupCs \in Clients \cup {NoOne} /\ timerCs \in {TimerThread, NoOne}
        /\ pool \in PoolRecords /\ group \in GroupRecords
        /\ queue \in [1..3 -> Seq(Objs)] /\ obj \in [Objs -> ObjRecords] /\ timer \in [Objs -> TimerRecords]
        /\ pc \in [Threads -> Places] /\ cur \in [Threads -> Objs \cup {NoOne}] /\ inst \in [Workers -> InstRecords]
        /\ call \in [Clients -> Calls \cup {NoCall}] /\ script \in [Clients -> Seq(Calls)]
        /\ todo \in [Clients -> Seq(Objs \cup Steps)]
        /\ closed \in SUBSET Objs /\ quiet \in SUBSET Objs /\ failed \in BOOLEAN
    BY DEF TypesInv
  <1>t. t \in Threads
    BY Kinds
  <1>u. poolCs' = poolCs /\ groupCs' = groupCs /\ timerCs' = timerCs /\ timer' = timer /\ group' = group /\
          inst' = inst /\ todo' = todo /\ script' = script /\ closed' = closed /\ quiet' = quiet
    BY DEF PostWork, locks, history
  <1>a. cur[t] \in Objs
    BY ClientCur DEF PostWork
  <1>1. /\ pc' \in [Threads -> Places] /\ queue' \in [1..3 -> Seq(Objs)] /\ failed' \in BOOLEAN /\
             pc'[t] = (IF cur[t] \in Simples THEN "init" ELSE "idle")
        /\ ObjGoes(cur[t], obj[cur[t]].state, obj[cur[t]].ref + 1, obj[cur[t]].shutdown, obj[cur[t]].pending + 1,
                   obj[cur[t]].running, obj[cur[t]].associated, obj[cur[t]].member)
        /\ LET busy == pool.busy + (IF obj[cur[t]].pending = 0 THEN 1 ELSE 0)
           IN  \/ /\ \E w \in Workers : Hired(t, w)
                  /\ PoolGoes(pool.ref + 1, pool.objcount, pool.shutdown, pool.workers + 1, busy)
               \/ /\ Unhired(t)
                  /\ PoolGoes(pool.ref, pool.objcount, pool.shutdown, pool.workers, busy)
        /\ \A u \in Threads \ {t} :
              \/ pc'[u] = pc[u]
              \/ u \in Workers /\ pc[u] = "none" /\ pc'[u] = "start"
              \/ u \in Workers /\ pc[u] = "sleep" /\ pc'[u] = "woken"
              \/ u \in Workers /\ pc[u] = "timedout" /\ pc'[u] = "late"
    <2>1. Submit(cur[t], t, (IF cur[t] \in Simples THEN "init" ELSE "idle"))
      BY DEF PostWork
    <2>2. ((IF cur[t] \in Simples THEN "init" ELSE "idle")) \in Places /\ t \notin Workers
      BY Kinds DEF Places
    <2> QED
      BY <1>a, <1>t, <2>1, <2>2, SubmitFacts
  <1>2. cur' = [cur EXCEPT ![t] = IF cur[t] \in Simples THEN cur[t] ELSE NoOne]
    BY <1>0, <1>t DEF PostWork
  <1>3. cur' \in [Threads -> Objs \cup {NoOne}]
    BY <1>0, <1>t, <1>a, <1>2
  <1>4. call' = [call EXCEPT ![t] = IF cur[t] \in Simples THEN call[t] ELSE NoCall]
    BY <1>0 DEF PostWork
  <1>5. call' \in [Clients -> Calls \cup {NoCall}]
    BY <1>0, <1>4
  <1>y. TypesInv'
    BY <1>0, <1>u, <1>1, <1>3, <1>5 DEF TypesInv, ObjGoes, PoolGoes, TimerGoes, GroupGoes
  <1>z. Moved(t)
    BY <1>0, <1>t, <1>u, <1>a, <1>1, <1>2, <1>3, <1>4, <1>5, Kinds DEF Moved, Drift
  <1> QED
    BY <1>a, <1>1, <1>2, <1>3, <1>4, <1>5, <1>y, <1>z

LEMMA TpSetTimerDoes ==
  ASSUME TypesInv, ThreadsInv, NEW t \in Clients, TpSetTimer(t)
  PROVE  /\ TypesInv' /\ Moved(t)
         /\ TimerGoes(cur[t], timer[cur[t]].initialized, (call[t].n > 0 \/ (call[t].n = 0 /\ cur[t] \in Periodic)),
              timer[cur[t]].due)
         /\ Alone(t) /\ (call[t].n = 0 => Stays(t, "submit")) /\ (call[t].n # 0 => Returns(t))
  <1>0. /\ poolCs \in Workers \cup {NoOne} /\ groupCs \in Clients \cup {NoOne} /\ timerCs \in {TimerThread, NoOne}
        /\ pool \in PoolRecords /\ group \in GroupRecords
        /\ queue \in [1..3 -> Seq(Objs)] /\ obj \in [Objs -> ObjRecords] /\ timer \in [Objs -> TimerRecords]
        /\ pc \in [Threads -> Places] /\ cur \in [Threads -> Objs \cup {NoOne}] /\ inst \in [Workers -> InstRecords]
        /\ call \in [Clients -> Calls \cup {NoCall}] /\ script \in [Clients -> Seq(Calls)]
        /\ todo \in [Clients -> Seq(Objs \cup Steps)]
        /\ closed \in SUBSET Objs /\ quiet \in SUBSET Objs /\ failed \in BOOLEAN
    BY DEF TypesInv
  <1>t. t \in Threads
    BY Kinds
  <1>u. poolCs' = poolCs /\ groupCs' = groupCs /\ timerCs' = timerCs /\ pool' = pool /\ queue' = queue /\
          obj' = obj /\ group' = group /\ inst' = inst /\ script' = script /\ closed' = closed /\ quiet' = quiet
    BY DEF TpSetTimer, locks, history
  <1>a. cur[t] \in Objs
    BY ClientCur DEF TpSetTimer
  <1>b. (call[t].n > 0 \/ (call[t].n = 0 /\ cur[t] \in Periodic)) \in BOOLEAN
    OBVIOUS
  <1>1. TimerGoes(cur[t], timer[cur[t]].initialized, (call[t].n > 0 \/ (call[t].n = 0 /\ cur[t] \in Periodic)),
          timer[cur[t]].due)
    <2>1. timer' = [timer EXCEPT ![cur[t]].pending = (call[t].n > 0 \/ (call[t].n = 0 /\ cur[t] \in Periodic))]
      BY DEF TpSetTimer
    <2>2. timer \in [Objs -> TimerRecords] /\ cur[t] \in Objs
      BY <1>0, <1>a
    <2> QED
      BY <2>1, <2>2 DEF TimerGoes, TimerRecords
  <1>f. failed' \in BOOLEAN
    BY <1>0 DEF TpSetTimer, Asserts
  <1>2. Alone(t) /\ (call[t].n = 0 => Stays(t, "submit")) /\ (call[t].n # 0 => Returns(t))
    <2>1. CASE call[t].n = 0
      <3>1. pc' = [pc EXCEPT ![t] = "submit"] /\ UNCHANGED <<cur, todo, call>> /\ "submit" \in Places
        BY <2>1 DEF TpSetTimer, Places
      <3> QED
        BY <2>1, <3>1, StayAlone
    <2>2. CASE call[t].n # 0
      <3>1. After(t, <<>>)
        BY <2>2 DEF TpSetTimer
      <3> QED
        BY <2>2, <3>1, ReturnsAlone
    <2> QED
      BY <2>1, <2>2
  <1>y. TypesInv'
    BY <1>0, <1>u, <1>1, <1>f, <1>2 DEF TypesInv, ObjGoes, PoolGoes, TimerGoes, GroupGoes, Alone
  <1>z. Moved(t)
    BY <1>0, <1>t, <1>u, <1>a, <1>b, <1>f, <1>2, Kinds DEF Moved, Drift, Alone
  <1> QED
    BY <1>a, <1>b, <1>1, <1>f, <1>2, <1>y, <1>z

LEMMA CancelDoes ==
  ASSUME TypesInv, ThreadsInv, NEW t \in Clients, Cancel(t)
  PROVE  /\ TypesInv' /\ Moved(t)
         /\ ObjGoes(cur[t], obj[cur[t]].state, obj[cur[t]].ref - obj[cur[t]].pending, obj[cur[t]].shutdown, 0,
              obj[cur[t]].running, obj[cur[t]].associated, obj[cur[t]].member)
         /\ /\ Alone(t)
            /\ call[t].fn # "members" => Stays(t, "wait")
            /\ call[t].fn = "members" => After(t, todo[t]) /\ todo[t] \in Seq(Steps)
  <1>0. /\ poolCs \in Workers \cup {NoOne} /\ groupCs \in Clients \cup {NoOne} /\ timerCs \in {TimerThread, NoOne}
        /\ pool \in PoolRecords /\ group \in GroupRecords
        /\ queue \in [1..3 -> Seq(Objs)] /\ obj \in [Objs -> ObjRecords] /\ timer \in [Objs -> TimerRecords]
        /\ pc \in [Threads -> Places] /\ cur \in [Threads -> Objs \cup {NoOne}] /\ inst \in [Workers -> InstRecords]
        /\ call \in [Clients -> Calls \cup {NoCall}] /\ script \in [Clients -> Seq(Calls)]
        /\ todo \in [Clients -> Seq(Objs \cup Steps)]
        /\ closed \in SUBSET Objs /\ quiet \in SUBSET Objs /\ failed \in BOOLEAN
    BY DEF TypesInv
  <1>t. t \in Threads
    BY Kinds
  <1>u. poolCs' = poolCs /\ groupCs' = groupCs /\ timerCs' = timerCs /\ pool' = pool /\ timer' = timer /\
          group' = group /\ inst' = inst /\ script' = script /\ closed' = closed /\ quiet' = quiet /\ failed' = failed
    BY DEF Cancel, locks, history
  <1>a. cur[t] \in Objs
    BY ClientCur DEF Cancel
  <1>1. ObjGoes(cur[t], obj[cur[t]].state, obj[cur[t]].ref - obj[cur[t]].pending, obj[cur[t]].shutdown, 0,
          obj[cur[t]].running, obj[cur[t]].associated, obj[cur[t]].member)
    <2>1. obj' = [obj EXCEPT ![cur[t]].pending = 0, ![cur[t]].ref = @ - obj[cur[t]].pending]
      BY DEF Cancel
    <2>2. obj \in [Objs -> ObjRecords] /\ cur[t] \in Objs
      BY <1>0, <1>a
    <2>3. obj[cur[t]].pending \in Int
      BY <2>2 DEF ObjRecords
    <2> DEFINE n == obj[cur[t]].pending
    <2>4. obj' = [obj EXCEPT ![cur[t]].pending = 0, ![cur[t]].ref = @ - n] /\ n \in Int
      BY <2>1, <2>3
    <2> HIDE DEF n
    <2>5. ObjGoes(cur[t], obj[cur[t]].state, obj[cur[t]].ref - n, obj[cur[t]].shutdown, 0, obj[cur[t]].running,
            obj[cur[t]].associated, obj[cur[t]].member)
      BY <2>2, <2>4 DEF ObjGoes, ObjRecords
    <2> QED
      BY <2>5 DEF n
  <1>2. queue' \in [1..3 -> Seq(Objs)]
    <2>1. Priority[cur[t]] \in 1..3 /\ queue[Priority[cur[t]]] \in Seq(Objs)
      BY <1>0, <1>a, Kinds
    <2>2. Unlink(queue[Priority[cur[t]]], cur[t]) \in Seq(Objs)
      BY <2>1, UnlinkType
    <2>3. queue' = IF obj[cur[t]].pending = 0 THEN queue ELSE [queue EXCEPT ![Priority[cur[t]]] = Unlink(queue[Priority[cur[t]]], cur[t])]
      BY <1>0, <2>1 DEF Cancel
    <2> QED
      BY <1>0, <2>1, <2>2, <2>3
  <1>3. /\ Alone(t)
        /\ call[t].fn # "members" => Stays(t, "wait")
        /\ call[t].fn = "members" => After(t, todo[t]) /\ todo[t] \in Seq(Steps)
    <2>1. CASE call[t].fn # "members"
      <3>1. pc' = [pc EXCEPT ![t] = "wait"] /\ UNCHANGED <<cur, todo, call>> /\ "wait" \in Places
        BY <2>1 DEF Cancel, Places
      <3> QED
        BY <2>1, <3>1, StayAlone
    <2>2. CASE call[t].fn = "members"
      <3>1. After(t, todo[t]) /\ ~Walking(t)
        BY <2>2 DEF Cancel, Walking
      <3>2. todo[t] \in Seq(Steps)
        BY <3>1, LeftSteps
      <3> QED
        BY <2>2, <3>1, <3>2, AfterAlone
    <2> QED
      BY <2>1, <2>2
  <1>y. TypesInv'
    BY <1>0, <1>u, <1>1, <1>2, <1>3 DEF TypesInv, ObjGoes, PoolGoes, TimerGoes, GroupGoes, Alone
  <1>z. Moved(t)
    BY <1>0, <1>t, <1>u, <1>a, <1>2, <1>3, Kinds DEF Moved, Drift, Alone
  <1> QED
    BY <1>a, <1>1, <1>2, <1>3, <1>y, <1>z

LEMMA WaitDoes ==
  ASSUME TypesInv, ThreadsInv, NEW t \in Clients, Wait(t)
  PROVE  /\ TypesInv' /\ Moved(t)
         /\ /\ Alone(t)
            /\ ~IsFinished(obj[cur[t]], call[t].fn = "members") => Stays(t, "sleep")
            /\ IsFinished(obj[cur[t]], call[t].fn = "members") /\ call[t].fn = "members" => Stays(t, "done")
            /\ IsFinished(obj[cur[t]], call[t].fn = "members") /\ call[t].fn # "members" => Returns(t)
  <1>0. /\ poolCs \in Workers \cup {NoOne} /\ groupCs \in Clients \cup {NoOne} /\ timerCs \in {TimerThread, NoOne}
        /\ pool \in PoolRecords /\ group \in GroupRecords
        /\ queue \in [1..3 -> Seq(Objs)] /\ obj \in [Objs -> ObjRecords] /\ timer \in [Objs -> TimerRecords]
        /\ pc \in [Threads -> Places] /\ cur \in [Threads -> Objs \cup {NoOne}] /\ inst \in [Workers -> InstRecords]
        /\ call \in [Clients -> Calls \cup {NoCall}] /\ script \in [Clients -> Seq(Calls)]
        /\ todo \in [Clients -> Seq(Objs \cup Steps)]
        /\ closed \in SUBSET Objs /\ quiet \in SUBSET Objs /\ failed \in BOOLEAN
    BY DEF TypesInv
  <1>t. t \in Threads
    BY Kinds
  <1>u. poolCs' = poolCs /\ groupCs' = groupCs /\ timerCs' = timerCs /\ pool' = pool /\ queue' = queue /\
          obj' = obj /\ timer' = timer /\ group' = group /\ inst' = inst /\ script' = script /\ closed' = closed /\
            quiet' = quiet /\ failed' = failed
    BY DEF Wait, locks, history
  <1>a. cur[t] \in Objs
    BY ClientCur DEF Wait
  <1>1. /\ Alone(t)
        /\ ~IsFinished(obj[cur[t]], call[t].fn = "members") => Stays(t, "sleep")
        /\ IsFinished(obj[cur[t]], call[t].fn = "members") /\ call[t].fn = "members" => Stays(t, "done")
        /\ IsFinished(obj[cur[t]], call[t].fn = "members") /\ call[t].fn # "members" => Returns(t)
    <2>1. CASE ~IsFinished(obj[cur[t]], call[t].fn = "members")
      <3>1. pc' = [pc EXCEPT ![t] = "sleep"] /\ UNCHANGED <<cur, todo, call>> /\ "sleep" \in Places
        BY <2>1 DEF Wait, Places
      <3> QED
        BY <2>1, <3>1, StayAlone
    <2>2. CASE IsFinished(obj[cur[t]], call[t].fn = "members") /\ call[t].fn = "members"
      <3>1. pc' = [pc EXCEPT ![t] = "done"] /\ UNCHANGED <<cur, todo, call>> /\ "done" \in Places
        BY <2>2 DEF Wait, Places
      <3> QED
        BY <2>2, <3>1, StayAlone
    <2>3. CASE IsFinished(obj[cur[t]], call[t].fn = "members") /\ call[t].fn # "members"
      <3>1. After(t, <<>>)
        BY <2>3 DEF Wait
      <3> QED
        BY <2>3, <3>1, ReturnsAlone
    <2> QED
      BY <2>1, <2>2, <2>3
  <1>y. TypesInv'
    BY <1>0, <1>u, <1>1 DEF TypesInv, ObjGoes, PoolGoes, TimerGoes, GroupGoes, Alone
  <1>z. Moved(t)
    BY <1>0, <1>t, <1>u, <1>a, <1>1, Kinds DEF Moved, Drift, Alone
  <1> QED
    BY <1>a, <1>1, <1>y, <1>z

LEMMA TimerUnlockDoes ==
  ASSUME TypesInv, ThreadsInv, NEW t \in Clients, TimerUnlock(t)
  PROVE  /\ TypesInv' /\ Moved(t)
         /\ TimerGoes(cur[t], FALSE, FALSE, timer[cur[t]].due)
  <1>0. /\ poolCs \in Workers \cup {NoOne} /\ groupCs \in Clients \cup {NoOne} /\ timerCs \in {TimerThread, NoOne}
        /\ pool \in PoolRecords /\ group \in GroupRecords
        /\ queue \in [1..3 -> Seq(Objs)] /\ obj \in [Objs -> ObjRecords] /\ timer \in [Objs -> TimerRecords]
        /\ pc \in [Threads -> Places] /\ cur \in [Threads -> Objs \cup {NoOne}] /\ inst \in [Workers -> InstRecords]
        /\ call \in [Clients -> Calls \cup {NoCall}] /\ script \in [Clients -> Seq(Calls)]
        /\ todo \in [Clients -> Seq(Objs \cup Steps)]
        /\ closed \in SUBSET Objs /\ quiet \in SUBSET Objs /\ failed \in BOOLEAN
    BY DEF TypesInv
  <1>t. t \in Threads
    BY Kinds
  <1>u. poolCs' = poolCs /\ groupCs' = groupCs /\ timerCs' = timerCs /\ pool' = pool /\ queue' = queue /\
          obj' = obj /\ group' = group /\ cur' = cur /\ inst' = inst /\ call' = call /\ todo' = todo /\
            script' = script /\ closed' = closed /\ quiet' = quiet /\ failed' = failed
    BY DEF TimerUnlock, locks, history
  <1>a. cur[t] \in Objs
    BY ClientCur DEF TimerUnlock
  <1>1. TimerGoes(cur[t], FALSE, FALSE, timer[cur[t]].due)
    <2>1. timer' = [timer EXCEPT ![cur[t]].initialized = FALSE, ![cur[t]].pending = FALSE]
      BY DEF TimerUnlock, TimerUnlocked
    <2>2. timer \in [Objs -> TimerRecords] /\ cur[t] \in Objs
      BY <1>0, <1>a
    <2> QED
      BY <2>1, <2>2 DEF TimerGoes, TimerRecords
  <1>2. pc' = [pc EXCEPT ![t] = "drop"]
    BY DEF TimerUnlock
  <1>3. pc' \in [Threads -> Places]
    BY <1>0, <1>t, <1>2, Kinds DEF Places, InstRecords
  <1>y. TypesInv'
    BY <1>0, <1>u, <1>1, <1>3 DEF TypesInv, ObjGoes, PoolGoes, TimerGoes, GroupGoes
  <1>z. Moved(t)
    BY <1>0, <1>t, <1>u, <1>a, <1>2, <1>3, Kinds DEF Moved, Drift
  <1> QED
    BY <1>a, <1>1, <1>2, <1>3, <1>y, <1>z

LEMMA MemberTimerDoes ==
  ASSUME TypesInv, ThreadsInv, NEW t \in Clients, MemberTimer(t)
  PROVE  /\ TypesInv' /\ Moved(t)
         /\ TimerGoes(cur[t], FALSE, FALSE, timer[cur[t]].due)
  <1>0. /\ poolCs \in Workers \cup {NoOne} /\ groupCs \in Clients \cup {NoOne} /\ timerCs \in {TimerThread, NoOne}
        /\ pool \in PoolRecords /\ group \in GroupRecords
        /\ queue \in [1..3 -> Seq(Objs)] /\ obj \in [Objs -> ObjRecords] /\ timer \in [Objs -> TimerRecords]
        /\ pc \in [Threads -> Places] /\ cur \in [Threads -> Objs \cup {NoOne}] /\ inst \in [Workers -> InstRecords]
        /\ call \in [Clients -> Calls \cup {NoCall}] /\ script \in [Clients -> Seq(Calls)]
        /\ todo \in [Clients -> Seq(Objs \cup Steps)]
        /\ closed \in SUBSET Objs /\ quiet \in SUBSET Objs /\ failed \in BOOLEAN
    BY DEF TypesInv
  <1>t. t \in Threads
    BY Kinds
  <1>u. poolCs' = poolCs /\ groupCs' = groupCs /\ timerCs' = timerCs /\ pool' = pool /\ queue' = queue /\
          obj' = obj /\ group' = group /\ cur' = cur /\ inst' = inst /\ call' = call /\ todo' = todo /\
            script' = script /\ closed' = closed /\ quiet' = quiet /\ failed' = failed
    BY DEF MemberTimer, locks, history
  <1>a. cur[t] \in Objs
    BY ClientCur DEF MemberTimer
  <1>1. TimerGoes(cur[t], FALSE, FALSE, timer[cur[t]].due)
    <2>1. timer' = [timer EXCEPT ![cur[t]].initialized = FALSE, ![cur[t]].pending = FALSE]
      BY DEF MemberTimer, TimerUnlocked
    <2>2. timer \in [Objs -> TimerRecords] /\ cur[t] \in Objs
      BY <1>0, <1>a
    <2> QED
      BY <2>1, <2>2 DEF TimerGoes, TimerRecords
  <1>2. pc' = [pc EXCEPT ![t] = "walk"]
    BY DEF MemberTimer
  <1>3. pc' \in [Threads -> Places]
    BY <1>0, <1>t, <1>2, Kinds DEF Places, InstRecords
  <1>y. TypesInv'
    BY <1>0, <1>u, <1>1, <1>3 DEF TypesInv, ObjGoes, PoolGoes, TimerGoes, GroupGoes
  <1>z. Moved(t)
    BY <1>0, <1>t, <1>u, <1>a, <1>2, <1>3, Kinds DEF Moved, Drift
  <1> QED
    BY <1>a, <1>1, <1>2, <1>3, <1>y, <1>z

LEMMA ReleaseDoes ==
  ASSUME TypesInv, NEW t \in Clients, cur[t] \in Objs, todo[t] \in Seq(Steps), NEW r \in ObjRecords, NEW n \in Int,
         Release(t, r, n)
  PROVE  /\ ObjGoes(cur[t], r.state, r.ref - n, r.shutdown, r.pending, r.running, r.associated, r.member)
         /\ Alone(t)
         /\ r.ref = n => Stays(t, "destroy")
         /\ r.ref # n => After(t, todo[t])
  <1>1. ObjGoes(cur[t], r.state, r.ref - n, r.shutdown, r.pending, r.running, r.associated, r.member)
    <2> DEFINE s == [r EXCEPT !.ref = @ - n]
    <2>1. obj' = [obj EXCEPT ![cur[t]] = s] /\ s = [r EXCEPT !.ref = @ - n]
      BY DEF Release
    <2> HIDE DEF s
    <2>2. s = [state |-> r.state, ref |-> r.ref - n, shutdown |-> r.shutdown, pending |-> r.pending,
            running |-> r.running,
               associated |-> r.associated, member |-> r.member]
      BY <2>1 DEF ObjRecords
    <2>3. s \in ObjRecords
      BY <2>2 DEF ObjRecords
    <2>4. /\ s.state = r.state /\ s.ref = r.ref - n /\ s.shutdown = r.shutdown /\ s.pending = r.pending
          /\ s.running = r.running /\ s.associated = r.associated /\ s.member = r.member
      BY <2>2
    <2>5. obj \in [Objs -> ObjRecords]
      BY DEF TypesInv
    <2>6. obj'[cur[t]] = s /\ obj' \in [Objs -> ObjRecords] /\ \A x \in Objs \ {cur[t]} : obj'[x] = obj[x]
      BY <2>1, <2>3, <2>5
    <2> QED
      BY <2>4, <2>6 DEF ObjGoes
  <1>2. CASE r.ref = n
    <2>1. pc' = [pc EXCEPT ![t] = "destroy"] /\ UNCHANGED <<cur, todo, call>> /\ "destroy" \in Places
      BY <1>2 DEF Release, Places
    <2> QED
      BY <1>1, <1>2, <2>1, StayAlone
  <1>3. CASE r.ref # n
    <2>1. After(t, todo[t])
      BY <1>3 DEF Release
    <2> QED
      BY <1>1, <1>3, <2>1, AfterAlone
  <1> QED
    BY <1>2, <1>3

LEMMA DropDoes ==
  ASSUME TypesInv, ThreadsInv, NEW t \in Clients, Drop(t)
  PROVE  /\ TypesInv' /\ Moved(t)
         /\ /\ ObjGoes(cur[t], obj[cur[t]].state, obj[cur[t]].ref - 1, (obj[cur[t]].shutdown \/
                 call[t].fn = "release"), obj[cur[t]].pending, obj[cur[t]].running, obj[cur[t]].associated,
                   obj[cur[t]].member)
            /\ Alone(t) /\ todo[t] \in Seq(Steps)
            /\ obj[cur[t]].ref = 1 => Stays(t, "destroy")
            /\ obj[cur[t]].ref # 1 => After(t, todo[t])
  <1>0. /\ poolCs \in Workers \cup {NoOne} /\ groupCs \in Clients \cup {NoOne} /\ timerCs \in {TimerThread, NoOne}
        /\ pool \in PoolRecords /\ group \in GroupRecords
        /\ queue \in [1..3 -> Seq(Objs)] /\ obj \in [Objs -> ObjRecords] /\ timer \in [Objs -> TimerRecords]
        /\ pc \in [Threads -> Places] /\ cur \in [Threads -> Objs \cup {NoOne}] /\ inst \in [Workers -> InstRecords]
        /\ call \in [Clients -> Calls \cup {NoCall}] /\ script \in [Clients -> Seq(Calls)]
        /\ todo \in [Clients -> Seq(Objs \cup Steps)]
        /\ closed \in SUBSET Objs /\ quiet \in SUBSET Objs /\ failed \in BOOLEAN
    BY DEF TypesInv
  <1>t. t \in Threads
    BY Kinds
  <1>u. poolCs' = poolCs /\ groupCs' = groupCs /\ timerCs' = timerCs /\ pool' = pool /\ queue' = queue /\
          timer' = timer /\ group' = group /\ inst' = inst /\ script' = script /\ closed' = closed /\
            quiet' = quiet /\ failed' = failed
    BY DEF Drop, locks, history
  <1>a. cur[t] \in Objs
    BY ClientCur DEF Drop
  <1>1. /\ ObjGoes(cur[t], obj[cur[t]].state, obj[cur[t]].ref - 1, (obj[cur[t]].shutdown \/ call[t].fn = "release"),
             obj[cur[t]].pending, obj[cur[t]].running, obj[cur[t]].associated, obj[cur[t]].member)
        /\ Alone(t) /\ todo[t] \in Seq(Steps)
        /\ obj[cur[t]].ref = 1 => Stays(t, "destroy")
        /\ obj[cur[t]].ref # 1 => After(t, todo[t])
    <2> DEFINE r == [obj[cur[t]] EXCEPT !.shutdown = @ \/ call[t].fn = "release"]
               b == (obj[cur[t]].shutdown \/ call[t].fn = "release")
               n == 1
    <2>1. Release(t, r, n) /\ ~Walking(t)
      BY DEF Drop, Walking
    <2>2. todo[t] \in Seq(Steps)
      BY <2>1, LeftSteps
    <2>3. r = [obj[cur[t]] EXCEPT !.shutdown = b] /\ obj[cur[t]] \in ObjRecords /\ b \in BOOLEAN /\ n \in Int
      <3>1. obj[cur[t]] \in ObjRecords /\ n \in Int
        BY <1>0, <1>a
      <3> QED
        BY <3>1 DEF ObjRecords
    <2> HIDE DEF r, b, n
    <2>4. r = [state |-> obj[cur[t]].state, ref |-> obj[cur[t]].ref, shutdown |-> b, pending |-> obj[cur[t]].pending,
            running |-> obj[cur[t]].running,
               associated |-> obj[cur[t]].associated, member |-> obj[cur[t]].member]
      BY <2>3 DEF ObjRecords
    <2>5. r \in ObjRecords
      BY <2>3, <2>4 DEF ObjRecords
    <2>6. /\ r.state = obj[cur[t]].state /\ r.ref = obj[cur[t]].ref /\ r.shutdown = b /\
               r.pending = obj[cur[t]].pending /\ r.running = obj[cur[t]].running
          /\ r.associated = obj[cur[t]].associated /\ r.member = obj[cur[t]].member
      BY <2>4
    <2>7. /\ ObjGoes(cur[t], r.state, r.ref - n, r.shutdown, r.pending, r.running, r.associated, r.member)
          /\ Alone(t)
          /\ r.ref = n => Stays(t, "destroy")
          /\ r.ref # n => After(t, todo[t])
      BY <1>a, <2>1, <2>2, <2>3, <2>5, ReleaseDoes
    <2> QED
      BY <2>2, <2>6, <2>7 DEF b, n
  <1>y. TypesInv'
    BY <1>0, <1>u, <1>1 DEF TypesInv, ObjGoes, PoolGoes, TimerGoes, GroupGoes, Alone
  <1>z. Moved(t)
    BY <1>0, <1>t, <1>u, <1>a, <1>1, Kinds DEF Moved, Drift, Alone
  <1> QED
    BY <1>a, <1>1, <1>y, <1>z

LEMMA MemberDoneDoes ==
  ASSUME TypesInv, ThreadsInv, NEW t \in Clients, MemberDone(t)
  PROVE  /\ TypesInv' /\ Moved(t)
         /\ /\ ObjGoes(cur[t], obj[cur[t]].state, obj[cur[t]].ref - (IF obj[cur[t]].shutdown \/
                 cur[t] \in Simples THEN 1 ELSE 2), TRUE, obj[cur[t]].pending, obj[cur[t]].running,
                   obj[cur[t]].associated, obj[cur[t]].member)
            /\ Alone(t) /\ todo[t] \in Seq(Steps)
            /\ obj[cur[t]].ref = (IF obj[cur[t]].shutdown \/ cur[t] \in Simples THEN 1 ELSE 2) => Stays(t, "destroy")
            /\ obj[cur[t]].ref # (IF obj[cur[t]].shutdown \/ cur[t] \in Simples THEN 1 ELSE 2) => After(t, todo[t])
  <1>0. /\ poolCs \in Workers \cup {NoOne} /\ groupCs \in Clients \cup {NoOne} /\ timerCs \in {TimerThread, NoOne}
        /\ pool \in PoolRecords /\ group \in GroupRecords
        /\ queue \in [1..3 -> Seq(Objs)] /\ obj \in [Objs -> ObjRecords] /\ timer \in [Objs -> TimerRecords]
        /\ pc \in [Threads -> Places] /\ cur \in [Threads -> Objs \cup {NoOne}] /\ inst \in [Workers -> InstRecords]
        /\ call \in [Clients -> Calls \cup {NoCall}] /\ script \in [Clients -> Seq(Calls)]
        /\ todo \in [Clients -> Seq(Objs \cup Steps)]
        /\ closed \in SUBSET Objs /\ quiet \in SUBSET Objs /\ failed \in BOOLEAN
    BY DEF TypesInv
  <1>t. t \in Threads
    BY Kinds
  <1>u. poolCs' = poolCs /\ groupCs' = groupCs /\ timerCs' = timerCs /\ pool' = pool /\ queue' = queue /\
          timer' = timer /\ group' = group /\ inst' = inst /\ script' = script /\ closed' = closed /\ failed' = failed
    BY DEF MemberDone, locks, history
  <1>a. cur[t] \in Objs
    BY ClientCur DEF MemberDone
  <1>1. /\ ObjGoes(cur[t], obj[cur[t]].state, obj[cur[t]].ref - (IF obj[cur[t]].shutdown \/
             cur[t] \in Simples THEN 1 ELSE 2), TRUE, obj[cur[t]].pending, obj[cur[t]].running,
               obj[cur[t]].associated, obj[cur[t]].member)
        /\ Alone(t) /\ todo[t] \in Seq(Steps)
        /\ obj[cur[t]].ref = (IF obj[cur[t]].shutdown \/ cur[t] \in Simples THEN 1 ELSE 2) => Stays(t, "destroy")
        /\ obj[cur[t]].ref # (IF obj[cur[t]].shutdown \/ cur[t] \in Simples THEN 1 ELSE 2) => After(t, todo[t])
    <2> DEFINE r == [obj[cur[t]] EXCEPT !.shutdown = TRUE]
               b == TRUE
               n == (IF obj[cur[t]].shutdown \/ cur[t] \in Simples THEN 1 ELSE 2)
    <2>1. Release(t, r, n) /\ ~Walking(t)
      BY DEF MemberDone, Walking
    <2>2. todo[t] \in Seq(Steps)
      BY <2>1, LeftSteps
    <2>3. r = [obj[cur[t]] EXCEPT !.shutdown = b] /\ obj[cur[t]] \in ObjRecords /\ b \in BOOLEAN /\ n \in Int
      <3>1. obj[cur[t]] \in ObjRecords /\ n \in Int
        BY <1>0, <1>a
      <3> QED
        BY <3>1 DEF ObjRecords
    <2> HIDE DEF r, b, n
    <2>4. r = [state |-> obj[cur[t]].state, ref |-> obj[cur[t]].ref, shutdown |-> b, pending |-> obj[cur[t]].pending,
            running |-> obj[cur[t]].running,
               associated |-> obj[cur[t]].associated, member |-> obj[cur[t]].member]
      BY <2>3 DEF ObjRecords
    <2>5. r \in ObjRecords
      BY <2>3, <2>4 DEF ObjRecords
    <2>6. /\ r.state = obj[cur[t]].state /\ r.ref = obj[cur[t]].ref /\ r.shutdown = b /\
               r.pending = obj[cur[t]].pending /\ r.running = obj[cur[t]].running
          /\ r.associated = obj[cur[t]].associated /\ r.member = obj[cur[t]].member
      BY <2>4
    <2>7. /\ ObjGoes(cur[t], r.state, r.ref - n, r.shutdown, r.pending, r.running, r.associated, r.member)
          /\ Alone(t)
          /\ r.ref = n => Stays(t, "destroy")
          /\ r.ref # n => After(t, todo[t])
      BY <1>a, <2>1, <2>2, <2>3, <2>5, ReleaseDoes
    <2> QED
      BY <2>2, <2>6, <2>7 DEF b, n
  <1>2. quiet' = quiet \cup {cur[t]}
    BY DEF MemberDone
  <1>3. quiet' \in SUBSET Objs
    BY <1>0, <1>a, <1>2
  <1>y. TypesInv'
    BY <1>0, <1>u, <1>1, <1>3 DEF TypesInv, ObjGoes, PoolGoes, TimerGoes, GroupGoes, Alone
  <1>z. Moved(t)
    BY <1>0, <1>t, <1>u, <1>a, <1>1, <1>2, <1>3, Kinds DEF Moved, Drift, Alone
  <1> QED
    BY <1>a, <1>1, <1>2, <1>3, <1>y, <1>z

LEMMA MembersDoes ==
  ASSUME TypesInv, ThreadsInv, NEW t \in Clients, Members(t)
  PROVE  /\ TypesInv' /\ Moved(t)
  <1>0. /\ poolCs \in Workers \cup {NoOne} /\ groupCs \in Clients \cup {NoOne} /\ timerCs \in {TimerThread, NoOne}
        /\ pool \in PoolRecords /\ group \in GroupRecords
        /\ queue \in [1..3 -> Seq(Objs)] /\ obj \in [Objs -> ObjRecords] /\ timer \in [Objs -> TimerRecords]
        /\ pc \in [Threads -> Places] /\ cur \in [Threads -> Objs \cup {NoOne}] /\ inst \in [Workers -> InstRecords]
        /\ call \in [Clients -> Calls \cup {NoCall}] /\ script \in [Clients -> Seq(Calls)]
        /\ todo \in [Clients -> Seq(Objs \cup Steps)]
        /\ closed \in SUBSET Objs /\ quiet \in SUBSET Objs /\ failed \in BOOLEAN
    BY DEF TypesInv
  <1>t. t \in Threads
    BY Kinds
  <1>u. poolCs' = poolCs /\ timerCs' = timerCs /\ pool' = pool /\ queue' = queue /\ obj' = obj /\ timer' = timer /\
          group' = group /\ cur' = cur /\ inst' = inst /\ call' = call /\ script' = script /\ closed' = closed /\
            quiet' = quiet /\ failed' = failed
    BY DEF Members, locks, history
  <1>h. groupCs = NoOne
    BY DEF Members
  <1>1. groupCs' = t
    BY DEF Members
  <1>2. groupCs' \in Clients \cup {NoOne}
    BY <1>0, <1>t, <1>1, Kinds DEF Places, InstRecords
  <1>3. todo' = [todo EXCEPT ![t] = group.members]
    BY DEF Members
  <1>4. todo' \in [Clients -> Seq(Objs \cup Steps)]
    <2>1. group.members \in Seq(Objs)
      BY <1>0 DEF GroupRecords
    <2>2. group.members \in Seq(Objs \cup Steps)
      BY <2>1
    <2> HIDE DEF Steps
    <2> QED
      BY <1>0, <2>2, <1>3
  <1>5. pc' = [pc EXCEPT ![t] = "walk"]
    BY DEF Members
  <1>6. pc' \in [Threads -> Places]
    BY <1>0, <1>t, <1>5, Kinds DEF Places, InstRecords
  <1>y. TypesInv'
    BY <1>0, <1>u, <1>2, <1>4, <1>6 DEF TypesInv, ObjGoes, PoolGoes, TimerGoes, GroupGoes
  <1>z. Moved(t)
    BY <1>0, <1>t, <1>u, <1>h, <1>1, <1>2, <1>3, <1>4, <1>5, <1>6, Kinds DEF Moved, Drift
  <1> QED
    BY <1>h, <1>1, <1>2, <1>3, <1>4, <1>5, <1>6, <1>y, <1>z

LEMMA MemberStepDoes ==
  ASSUME TypesInv, ThreadsInv, NEW t \in Clients, MemberStep(t)
  PROVE  /\ TypesInv' /\ Moved(t)
         /\ /\ Alone(t) /\ call'[t] = call[t] /\ todo'[t] = Tail(todo[t])
            /\ IF Dying(Head(todo[t]))
               THEN /\ GroupGoes(group.ref, group.shutdown, LeaveGroup(Head(todo[t])))
                    /\ ObjGoes(Head(todo[t]), obj[Head(todo[t])].state, obj[Head(todo[t])].ref,
                         obj[Head(todo[t])].shutdown, obj[Head(todo[t])].pending, obj[Head(todo[t])].running,
                           obj[Head(todo[t])].associated, FALSE)
                    /\ pc'[t] = "walk" /\ cur'[t] = cur[t]
               ELSE /\ group' = group
                    /\ ObjGoes(Head(todo[t]), obj[Head(todo[t])].state, obj[Head(todo[t])].ref + 1,
                         obj[Head(todo[t])].shutdown, obj[Head(todo[t])].pending, obj[Head(todo[t])].running,
                           obj[Head(todo[t])].associated, FALSE)
                    /\ pc'[t] = (IF Head(todo[t]) \in Timers THEN "walk_timer" ELSE "walk") /\ cur'[t] = Head(todo[t])
  <1>0. /\ poolCs \in Workers \cup {NoOne} /\ groupCs \in Clients \cup {NoOne} /\ timerCs \in {TimerThread, NoOne}
        /\ pool \in PoolRecords /\ group \in GroupRecords
        /\ queue \in [1..3 -> Seq(Objs)] /\ obj \in [Objs -> ObjRecords] /\ timer \in [Objs -> TimerRecords]
        /\ pc \in [Threads -> Places] /\ cur \in [Threads -> Objs \cup {NoOne}] /\ inst \in [Workers -> InstRecords]
        /\ call \in [Clients -> Calls \cup {NoCall}] /\ script \in [Clients -> Seq(Calls)]
        /\ todo \in [Clients -> Seq(Objs \cup Steps)]
        /\ closed \in SUBSET Objs /\ quiet \in SUBSET Objs /\ failed \in BOOLEAN
    BY DEF TypesInv
  <1>t. t \in Threads
    BY Kinds
  <1>u. poolCs' = poolCs /\ groupCs' = groupCs /\ timerCs' = timerCs /\ pool' = pool /\ queue' = queue /\
          timer' = timer /\ inst' = inst /\ script' = script /\ closed' = closed /\ quiet' = quiet
    BY DEF MemberStep, locks, history
  <1>a. Head(todo[t]) \in Objs /\ todo[t] # <<>> /\ Tail(todo[t]) \in Seq(Objs \cup Steps)
    <2>1. todo[t] \in Seq(Objs \cup Steps) /\ todo[t] # <<>> /\ Walking(t) /\ WorkOK(t)
      BY <1>0 DEF MemberStep, Walking, ThreadsInv
    <2>2. \A k \in 1..Len(todo[t]) : todo[t][k] \in Objs
      BY <2>1 DEF WorkOK
    <2>3. Head(todo[t]) = todo[t][1] /\ Len(todo[t]) > 0 /\ Len(todo[t]) \in Nat /\
            Tail(todo[t]) \in Seq(Objs \cup Steps)
      BY <2>1, SeqFacts
    <2> QED
      BY <2>1, <2>2, <2>3
  <1>1. /\ Alone(t) /\ call'[t] = call[t] /\ todo'[t] = Tail(todo[t])
        /\ IF Dying(Head(todo[t]))
           THEN /\ GroupGoes(group.ref, group.shutdown, LeaveGroup(Head(todo[t])))
                /\ ObjGoes(Head(todo[t]), obj[Head(todo[t])].state, obj[Head(todo[t])].ref,
                     obj[Head(todo[t])].shutdown, obj[Head(todo[t])].pending, obj[Head(todo[t])].running,
                       obj[Head(todo[t])].associated, FALSE)
                /\ pc'[t] = "walk" /\ cur'[t] = cur[t]
           ELSE /\ group' = group
                /\ ObjGoes(Head(todo[t]), obj[Head(todo[t])].state, obj[Head(todo[t])].ref + 1,
                     obj[Head(todo[t])].shutdown, obj[Head(todo[t])].pending, obj[Head(todo[t])].running,
                       obj[Head(todo[t])].associated, FALSE)
                /\ pc'[t] = (IF Head(todo[t]) \in Timers THEN "walk_timer" ELSE "walk") /\ cur'[t] = Head(todo[t])
    <2>1. call' = call /\ todo' = [todo EXCEPT ![t] = Tail(todo[t])] /\ pc[t] = "walk" /\ "walk" \in Places /\
            "walk_timer" \in Places
      BY <1>0 DEF MemberStep, Places
    <2>2. todo' \in [Clients -> Seq(Objs \cup Steps)] /\ todo'[t] = Tail(todo[t]) /\
            \A u \in Clients \ {t} : todo'[u] = todo[u]
      <3> HIDE DEF Steps
      <3> QED
        BY <1>0, <1>a, <2>1
    <2>3. CASE Dying(Head(todo[t]))
      <3>1. /\ group' = [group EXCEPT !.members = LeaveGroup(Head(todo[t]))] /\
                 obj' = [obj EXCEPT ![Head(todo[t])].member = FALSE]
            /\ pc' = pc /\ cur' = cur
        BY <2>3 DEF MemberStep
      <3>2. group \in GroupRecords /\ group.members \in Seq(Objs) /\ LeaveGroup(Head(todo[t])) \in Seq(Objs)
        BY <1>0, UnlinkType DEF GroupRecords, LeaveGroup
      <3>3. group' = [ref |-> group.ref, shutdown |-> group.shutdown, members |-> LeaveGroup(Head(todo[t])),
              freed |-> group.freed]
        BY <3>1, <3>2 DEF GroupRecords
      <3>4. GroupGoes(group.ref, group.shutdown, LeaveGroup(Head(todo[t])))
        BY <3>2, <3>3 DEF GroupGoes, GroupRecords
      <3>5. ObjGoes(Head(todo[t]), obj[Head(todo[t])].state, obj[Head(todo[t])].ref, obj[Head(todo[t])].shutdown,
              obj[Head(todo[t])].pending, obj[Head(todo[t])].running, obj[Head(todo[t])].associated, FALSE)
        <4> DEFINE o == Head(todo[t])
        <4>1. obj' = [obj EXCEPT ![o].member = FALSE] /\ obj \in [Objs -> ObjRecords] /\ o \in Objs
          BY <1>0, <1>a, <3>1
        <4> HIDE DEF o
        <4>2. ObjGoes(o, obj[o].state, obj[o].ref, obj[o].shutdown, obj[o].pending, obj[o].running,
                obj[o].associated, FALSE)
          BY <4>1 DEF ObjGoes, ObjRecords
        <4> QED
          BY <4>2 DEF o
      <3>6. Alone(t)
        BY <1>0, <2>1, <2>2, <3>1 DEF Alone
      <3> HIDE DEF Alone, Stays, Returns, ObjGoes, GroupGoes, Steps
      <3> QED
        BY <2>1, <2>2, <2>3, <3>1, <3>4, <3>5, <3>6
    <2>4. CASE ~Dying(Head(todo[t]))
      <3>1. /\ group' = group /\ obj' = [obj EXCEPT ![Head(todo[t])].ref = @ + 1, ![Head(todo[t])].member = FALSE]
            /\ pc' = [pc EXCEPT ![t] = IF Head(todo[t]) \in Timers THEN "walk_timer" ELSE "walk"] /\
                 cur' = [cur EXCEPT ![t] = Head(todo[t])]
        BY <2>4 DEF MemberStep
      <3>5. ObjGoes(Head(todo[t]), obj[Head(todo[t])].state, obj[Head(todo[t])].ref + 1, obj[Head(todo[t])].shutdown,
              obj[Head(todo[t])].pending, obj[Head(todo[t])].running, obj[Head(todo[t])].associated, FALSE)
        <4> DEFINE o == Head(todo[t])
        <4>1. obj' = [obj EXCEPT ![o].ref = @ + 1, ![o].member = FALSE] /\ obj \in [Objs -> ObjRecords] /\ o \in Objs
          BY <1>0, <1>a, <3>1
        <4> HIDE DEF o
        <4>2. obj'[o] = [obj[o] EXCEPT !.ref = @ + 1, !.member = FALSE]
          BY <4>1
        <4>7. obj[o] \in ObjRecords
          BY <4>1
        <4>3. obj'[o] = [state |-> obj[o].state, ref |-> obj[o].ref + 1, shutdown |-> obj[o].shutdown,
                pending |-> obj[o].pending,
                         running |-> obj[o].running, associated |-> obj[o].associated, member |-> FALSE]
          BY <4>2, <4>7 DEF ObjRecords
        <4>4. obj'[o] \in ObjRecords
          BY <4>7, <4>3 DEF ObjRecords
        <4>5. obj' \in [Objs -> ObjRecords] /\ \A x \in Objs \ {o} : obj'[x] = obj[x]
          <5>1. obj' = [obj EXCEPT ![o] = obj'[o]]
            BY <4>1
          <5> QED
            BY <4>1, <4>4, <5>1
        <4>6. ObjGoes(o, obj[o].state, obj[o].ref + 1, obj[o].shutdown, obj[o].pending, obj[o].running,
                obj[o].associated, FALSE)
          BY <4>3, <4>5 DEF ObjGoes
        <4> QED
          BY <4>6 DEF o
      <3>6. /\ Alone(t) /\ pc'[t] = (IF Head(todo[t]) \in Timers THEN "walk_timer" ELSE "walk") /\
                 cur'[t] = Head(todo[t])
        BY <1>0, <1>t, <1>a, <2>1, <2>2, <3>1 DEF Alone
      <3> HIDE DEF Alone, Stays, Returns, ObjGoes, GroupGoes, Steps
      <3> QED
        BY <2>1, <2>2, <2>4, <3>1, <3>5, <3>6
    <2> QED
      BY <2>3, <2>4
  <1>f. failed' \in BOOLEAN
    BY <1>0 DEF MemberStep, Asserts
  <1>m. Alone(t)
    BY <1>1
  <1>y. TypesInv'
    BY <1>0, <1>u, <1>1, <1>f DEF TypesInv, ObjGoes, PoolGoes, TimerGoes, GroupGoes, Alone
  <1>z. Moved(t)
    BY <1>0, <1>t, <1>u, <1>m, Kinds DEF Moved, Drift, Alone
  <1> QED
    BY <1>a, <1>1, <1>f, <1>y, <1>z

\* What MembersLeave has to do.
Leaving(t) ==
    LET each(f) == [k \in DOMAIN group.members |-> [do |-> f, obj |-> group.members[k]]]
    IN  (IF call[t].cancel THEN each("cancel") ELSE <<>>) \o each("wait")

LEMMA LeavingFacts ==
  ASSUME NEW t, group.members \in Seq(Objs)
  PROVE  /\ Leaving(t) \in Seq(Steps)
         /\ ~call[t].cancel =>
               /\ Len(Leaving(t)) = Len(group.members)
               /\ \A k \in 1..Len(group.members) : Leaving(t)[k] = [do |-> "wait", obj |-> group.members[k]]
         /\ call[t].cancel =>
               /\ Len(Leaving(t)) = Len(group.members) + Len(group.members)
               /\ \A k \in 1..Len(group.members) :
                     /\ Leaving(t)[k] = [do |-> "cancel", obj |-> group.members[k]]
                     /\ Leaving(t)[Len(group.members) + k] = [do |-> "wait", obj |-> group.members[k]]
  <1> DEFINE C == [k \in DOMAIN group.members |-> [do |-> "cancel", obj |-> group.members[k]]]
             W == [k \in DOMAIN group.members |-> [do |-> "wait", obj |-> group.members[k]]]
             m == Len(group.members)
  <1>1. m \in Nat /\ DOMAIN group.members = 1..m /\ \A k \in 1..m : group.members[k] \in Objs
    OBVIOUS
  <1>2. /\ Leaving(t) = (IF call[t].cancel THEN C ELSE <<>>) \o W
        /\ C = [k \in 1..m |-> [do |-> "cancel", obj |-> group.members[k]]]
        /\ W = [k \in 1..m |-> [do |-> "wait", obj |-> group.members[k]]]
    BY <1>1 DEF Leaving
  <1>3. /\ C \in Seq(Steps) /\ Len(C) = m /\ \A k \in 1..m : C[k] = [do |-> "cancel", obj |-> group.members[k]]
    <2> HIDE DEF m
    <2>1. \A k \in 1..m : [do |-> "cancel", obj |-> group.members[k]] \in Steps
      BY <1>1 DEF Steps
    <2> HIDE DEF Steps, C
    <2>2. C \in [1..m -> Steps]
      BY <1>2, <2>1
    <2> QED
      BY <1>1, <1>2, <2>2
  <1>4. /\ W \in Seq(Steps) /\ Len(W) = m /\ \A k \in 1..m : W[k] = [do |-> "wait", obj |-> group.members[k]]
    <2> HIDE DEF m
    <2>1. \A k \in 1..m : [do |-> "wait", obj |-> group.members[k]] \in Steps
      BY <1>1 DEF Steps
    <2> HIDE DEF Steps, W
    <2>2. W \in [1..m -> Steps]
      BY <1>2, <2>1
    <2> QED
      BY <1>1, <1>2, <2>2
  <1> HIDE DEF C, W, m, Steps
  <1>5. CASE call[t].cancel
    <2>1. Leaving(t) = C \o W
      BY <1>2, <1>5
    <2>2. C \o W \in Seq(Steps) /\ Len(C \o W) = m + m
      <3>1. C \in Seq(Steps) /\ W \in Seq(Steps)
        BY <1>3, <1>4
      <3>2. C \o W \in Seq(Steps) /\ Len(C \o W) = Len(C) + Len(W)
        BY <3>1
      <3> QED
        BY <1>3, <1>4, <3>2
    <2>3. \A k \in 1..m : (C \o W)[k] = C[k] /\ (C \o W)[m + k] = W[k]
      BY <1>1, <1>3, <1>4
    <2> QED
      BY <1>3, <1>4, <1>5, <2>1, <2>2, <2>3 DEF m
  <1>6. CASE ~call[t].cancel
    <2>1. Leaving(t) = <<>> \o W
      BY <1>2, <1>6
    <2>2. <<>> \o W = W
      BY <1>4
    <2> QED
      BY <1>4, <1>6, <2>1, <2>2 DEF m
  <1> QED
    BY <1>5, <1>6

LEMMA MembersLeaveDoes ==
  ASSUME TypesInv, ThreadsInv, NEW t \in Clients, MembersLeave(t)
  PROVE  /\ TypesInv' /\ Moved(t)
         /\ GroupGoes(group.ref, group.shutdown, <<>>)
         /\ Alone(t) /\ Leaving(t) \in Seq(Steps) /\ After(t, Leaving(t))
  <1>0. /\ poolCs \in Workers \cup {NoOne} /\ groupCs \in Clients \cup {NoOne} /\ timerCs \in {TimerThread, NoOne}
        /\ pool \in PoolRecords /\ group \in GroupRecords
        /\ queue \in [1..3 -> Seq(Objs)] /\ obj \in [Objs -> ObjRecords] /\ timer \in [Objs -> TimerRecords]
        /\ pc \in [Threads -> Places] /\ cur \in [Threads -> Objs \cup {NoOne}] /\ inst \in [Workers -> InstRecords]
        /\ call \in [Clients -> Calls \cup {NoCall}] /\ script \in [Clients -> Seq(Calls)]
        /\ todo \in [Clients -> Seq(Objs \cup Steps)]
        /\ closed \in SUBSET Objs /\ quiet \in SUBSET Objs /\ failed \in BOOLEAN
    BY DEF TypesInv
  <1>t. t \in Threads
    BY Kinds
  <1>u. poolCs' = poolCs /\ timerCs' = timerCs /\ pool' = pool /\ queue' = queue /\ obj' = obj /\ timer' = timer /\
          inst' = inst /\ script' = script /\ closed' = closed /\ quiet' = quiet /\ failed' = failed
    BY DEF MembersLeave, locks, history
  <1>h. groupCs = t
    BY DEF MembersLeave, ThreadsInv, WorkOK, Walking
  <1>1. groupCs' = NoOne
    BY DEF MembersLeave
  <1>2. groupCs' \in Clients \cup {NoOne}
    BY <1>0, <1>t, <1>1, Kinds DEF Places, InstRecords
  <1>3. GroupGoes(group.ref, group.shutdown, <<>>)
    <2>1. group' = [group EXCEPT !.members = <<>>]
      BY DEF MembersLeave
    <2>2. group \in GroupRecords /\ group.members \in Seq(Objs) /\ (<<>>) \in Seq(Objs)
      BY <1>0 DEF GroupRecords
    <2>3. group' = [ref |-> group.ref, shutdown |-> group.shutdown, members |-> <<>>, freed |-> group.freed]
      BY <2>1, <2>2 DEF GroupRecords
    <2> QED
      BY <2>2, <2>3 DEF GroupGoes, GroupRecords
  <1>4. Alone(t) /\ Leaving(t) \in Seq(Steps) /\ After(t, Leaving(t))
    <2>1. group.members \in Seq(Objs)
      BY <1>0 DEF GroupRecords
    <2>2. Leaving(t) \in Seq(Steps)
      BY <2>1, LeavingFacts
    <2>3. After(t, Leaving(t))
      BY DEF MembersLeave, Leaving
    <2> QED
      BY <2>2, <2>3, AfterAlone
  <1>y. TypesInv'
    BY <1>0, <1>u, <1>2, <1>3, <1>4 DEF TypesInv, ObjGoes, PoolGoes, TimerGoes, GroupGoes, Alone
  <1>z. Moved(t)
    BY <1>0, <1>t, <1>u, <1>h, <1>1, <1>2, <1>4, Kinds DEF Moved, Drift, Alone
  <1> QED
    BY <1>h, <1>1, <1>2, <1>3, <1>4, <1>y, <1>z

LEMMA TpReleaseCleanupGroupDoes ==
  ASSUME TypesInv, ThreadsInv, NEW t \in Clients, TpReleaseCleanupGroup(t)
  PROVE  /\ TypesInv' /\ Moved(t)
         /\ GroupGoes(group.ref - 1, TRUE, group.members)
         /\ Alone(t) /\ Returns(t)
  <1>0. /\ poolCs \in Workers \cup {NoOne} /\ groupCs \in Clients \cup {NoOne} /\ timerCs \in {TimerThread, NoOne}
        /\ pool \in PoolRecords /\ group \in GroupRecords
        /\ queue \in [1..3 -> Seq(Objs)] /\ obj \in [Objs -> ObjRecords] /\ timer \in [Objs -> TimerRecords]
        /\ pc \in [Threads -> Places] /\ cur \in [Threads -> Objs \cup {NoOne}] /\ inst \in [Workers -> InstRecords]
        /\ call \in [Clients -> Calls \cup {NoCall}] /\ script \in [Clients -> Seq(Calls)]
        /\ todo \in [Clients -> Seq(Objs \cup Steps)]
        /\ closed \in SUBSET Objs /\ quiet \in SUBSET Objs /\ failed \in BOOLEAN
    BY DEF TypesInv
  <1>t. t \in Threads
    BY Kinds
  <1>u. poolCs' = poolCs /\ groupCs' = groupCs /\ timerCs' = timerCs /\ pool' = pool /\ queue' = queue /\
          obj' = obj /\ timer' = timer /\ inst' = inst /\ script' = script /\ closed' = closed /\ quiet' = quiet
    BY DEF TpReleaseCleanupGroup, locks, history
  <1>1. GroupGoes(group.ref - 1, TRUE, group.members)
    <2> DEFINE g == [group EXCEPT !.shutdown = TRUE]
    <2>1. group' = [g EXCEPT !.ref = @ - 1, !.freed = (g.ref = 1)] /\ g = [group EXCEPT !.shutdown = TRUE] /\
            group \in GroupRecords
      BY <1>0 DEF TpReleaseCleanupGroup, GroupReleased
    <2> HIDE DEF g
    <2>2. g = [ref |-> group.ref, shutdown |-> TRUE, members |-> group.members, freed |-> group.freed]
      BY <2>1 DEF GroupRecords
    <2>3. g \in GroupRecords /\ g.ref = group.ref /\ g.shutdown = TRUE /\ g.members = group.members
      BY <2>1, <2>2 DEF GroupRecords
    <2>4. group' = [ref |-> g.ref - 1, shutdown |-> g.shutdown, members |-> g.members, freed |-> (g.ref = 1)]
      BY <2>1, <2>3 DEF GroupRecords
    <2>5. group' \in GroupRecords
      BY <2>3, <2>4 DEF GroupRecords
    <2> QED
      BY <2>3, <2>4, <2>5 DEF GroupGoes
  <1>f. failed' \in BOOLEAN
    BY <1>0 DEF TpReleaseCleanupGroup, Asserts
  <1>2. Alone(t) /\ Returns(t)
    <2>1. After(t, <<>>)
      BY DEF TpReleaseCleanupGroup
    <2> QED
      BY <2>1, ReturnsAlone
  <1>y. TypesInv'
    BY <1>0, <1>u, <1>1, <1>f, <1>2 DEF TypesInv, ObjGoes, PoolGoes, TimerGoes, GroupGoes, Alone
  <1>z. Moved(t)
    BY <1>0, <1>t, <1>u, <1>f, <1>2, Kinds DEF Moved, Drift, Alone
  <1> QED
    BY <1>1, <1>f, <1>2, <1>y, <1>z

LEMMA TpReleasePoolDoes ==
  ASSUME TypesInv, ThreadsInv, NEW t \in Clients, TpReleasePool(t)
  PROVE  /\ TypesInv' /\ Moved(t)
         /\ PoolGoes(pool.ref, pool.objcount, TRUE, pool.workers, pool.busy)
         /\ pc'[t] = "unref" /\ Unhired(t)
  <1>0. /\ poolCs \in Workers \cup {NoOne} /\ groupCs \in Clients \cup {NoOne} /\ timerCs \in {TimerThread, NoOne}
        /\ pool \in PoolRecords /\ group \in GroupRecords
        /\ queue \in [1..3 -> Seq(Objs)] /\ obj \in [Objs -> ObjRecords] /\ timer \in [Objs -> TimerRecords]
        /\ pc \in [Threads -> Places] /\ cur \in [Threads -> Objs \cup {NoOne}] /\ inst \in [Workers -> InstRecords]
        /\ call \in [Clients -> Calls \cup {NoCall}] /\ script \in [Clients -> Seq(Calls)]
        /\ todo \in [Clients -> Seq(Objs \cup Steps)]
        /\ closed \in SUBSET Objs /\ quiet \in SUBSET Objs /\ failed \in BOOLEAN
    BY DEF TypesInv
  <1>t. t \in Threads
    BY Kinds
  <1>u. poolCs' = poolCs /\ groupCs' = groupCs /\ timerCs' = timerCs /\ queue' = queue /\ obj' = obj /\
          timer' = timer /\ group' = group /\ cur' = cur /\ inst' = inst /\ call' = call /\ todo' = todo /\
            script' = script /\ closed' = closed /\ quiet' = quiet /\ failed' = failed
    BY DEF TpReleasePool, locks, history
  <1>1. PoolGoes(pool.ref, pool.objcount, TRUE, pool.workers, pool.busy)
    <2>1. pool' = [pool EXCEPT !.shutdown = TRUE]
      BY DEF TpReleasePool
    <2>2. pool \in PoolRecords
      BY <1>0
    <2>3. pool' = [ref |-> pool.ref, objcount |-> pool.objcount, shutdown |-> TRUE, min |-> pool.min,
            max |-> pool.max, workers |-> pool.workers, busy |-> pool.busy, freed |-> pool.freed]
      BY <2>1, <2>2 DEF PoolRecords
    <2> QED
      BY <2>2, <2>3 DEF PoolGoes, PoolRecords
  <1>2. /\ pc' \in [Threads -> Places] /\ pc'[t] = "unref"
        /\ \A u \in Threads \ {t} :
              \/ pc'[u] = pc[u]
              \/ u \in Workers /\ pc[u] = "sleep" /\ pc'[u] = "woken"
              \/ u \in Workers /\ pc[u] = "timedout" /\ pc'[u] = "late"
        /\ Unhired(t)
    <2>1. pc' = [x \in Threads |-> IF x = t THEN "unref" ELSE IF x \in Sleepers THEN Awake(pc[x]) ELSE pc[x]]
      BY DEF TpReleasePool, WakeWorkers
    <2>2. \A x \in Sleepers : /\ x \in Workers
                              /\ (pc[x] = "sleep" /\ Awake(pc[x]) = "woken") \/ (pc[x] = "timedout" /\
                                   Awake(pc[x]) = "late")
      <3> SUFFICES ASSUME NEW x \in Sleepers
                   PROVE  /\ x \in Workers
                          /\ \/ pc[x] = "sleep" /\ Awake(pc[x]) = "woken"
                             \/ pc[x] = "timedout" /\ Awake(pc[x]) = "late"
        OBVIOUS
      <3>1. x \in Workers /\ pc[x] \in {"sleep", "timedout"}
        BY DEF Sleepers
      <3>2. Awake("sleep") = "woken" /\ Awake("timedout") = "late"
        BY DEF Awake
      <3> QED
        BY <3>1, <3>2
    <2>3. "woken" \in Places /\ "late" \in Places /\ "unref" \in Places
      BY DEF Places
    <2>4. Unhired(t)
      BY <2>1, <2>2, Kinds DEF Unhired
    <2> QED
      BY <1>0, <1>t, <2>1, <2>2, <2>3, <2>4
  <1>y. TypesInv'
    BY <1>0, <1>u, <1>1, <1>2 DEF TypesInv, ObjGoes, PoolGoes, TimerGoes, GroupGoes
  <1>z. Moved(t)
    BY <1>0, <1>t, <1>u, <1>2, Kinds DEF Moved, Drift
  <1> QED
    BY <1>1, <1>2, <1>y, <1>z

LEMMA TpSetPoolMaxThreadsDoes ==
  ASSUME TypesInv, ThreadsInv, NEW t \in Clients, TpSetPoolMaxThreads(t)
  PROVE  /\ TypesInv' /\ Moved(t)
         /\ PoolGoes(pool.ref, pool.objcount, pool.shutdown, pool.workers, pool.busy)
         /\ Alone(t) /\ Returns(t)
  <1>0. /\ poolCs \in Workers \cup {NoOne} /\ groupCs \in Clients \cup {NoOne} /\ timerCs \in {TimerThread, NoOne}
        /\ pool \in PoolRecords /\ group \in GroupRecords
        /\ queue \in [1..3 -> Seq(Objs)] /\ obj \in [Objs -> ObjRecords] /\ timer \in [Objs -> TimerRecords]
        /\ pc \in [Threads -> Places] /\ cur \in [Threads -> Objs \cup {NoOne}] /\ inst \in [Workers -> InstRecords]
        /\ call \in [Clients -> Calls \cup {NoCall}] /\ script \in [Clients -> Seq(Calls)]
        /\ todo \in [Clients -> Seq(Objs \cup Steps)]
        /\ closed \in SUBSET Objs /\ quiet \in SUBSET Objs /\ failed \in BOOLEAN
    BY DEF TypesInv
  <1>t. t \in Threads
    BY Kinds
  <1>u. poolCs' = poolCs /\ groupCs' = groupCs /\ timerCs' = timerCs /\ queue' = queue /\ obj' = obj /\
          timer' = timer /\ group' = group /\ inst' = inst /\ script' = script /\ closed' = closed /\
            quiet' = quiet /\ failed' = failed
    BY DEF TpSetPoolMaxThreads, locks, history
  <1>1. PoolGoes(pool.ref, pool.objcount, pool.shutdown, pool.workers, pool.busy)
    <2> DEFINE n == IF call[t].n < 1 THEN 1 ELSE call[t].n
               m == IF pool.min < n THEN pool.min ELSE n
    <2>1. call[t] \in Calls
      BY InCalls DEF TpSetPoolMaxThreads
    <2>2. call[t].n \in Int /\ pool \in PoolRecords
      BY <1>0, <2>1 DEF Calls
    <2>3. n \in Int /\ m \in Int
      BY <2>2 DEF PoolRecords
    <2>4. pool' = [pool EXCEPT !.max = n, !.min = m]
      BY <2>2 DEF TpSetPoolMaxThreads, PoolRecords
    <2> HIDE DEF n, m
    <2>5. pool' = [ref |-> pool.ref, objcount |-> pool.objcount, shutdown |-> pool.shutdown, min |-> m, max |-> n,
            workers |-> pool.workers, busy |-> pool.busy, freed |-> pool.freed]
      BY <2>2, <2>3, <2>4 DEF PoolRecords
    <2> QED
      BY <2>2, <2>3, <2>5 DEF PoolGoes, PoolRecords
  <1>2. Alone(t) /\ Returns(t)
    <2>1. After(t, <<>>)
      BY DEF TpSetPoolMaxThreads
    <2> QED
      BY <2>1, ReturnsAlone
  <1>y. TypesInv'
    BY <1>0, <1>u, <1>1, <1>2 DEF TypesInv, ObjGoes, PoolGoes, TimerGoes, GroupGoes, Alone
  <1>z. Moved(t)
    BY <1>0, <1>t, <1>u, <1>2, Kinds DEF Moved, Drift, Alone
  <1> QED
    BY <1>1, <1>2, <1>y, <1>z

LEMMA TpSetPoolMinThreadsDoes ==
  ASSUME TypesInv, ThreadsInv, NEW t \in Clients, TpSetPoolMinThreads(t)
  PROVE  /\ TypesInv' /\ Moved(t)
         /\ \E S \in SUBSET Spare :
               /\ PoolGoes(pool.ref + Cardinality(S), pool.objcount, pool.shutdown, pool.workers + Cardinality(S),
                    pool.busy)
               /\ pc' = [x \in Threads |-> IF x = t THEN "idle" ELSE IF x \in S THEN "start" ELSE pc[x]]
  <1>0. /\ poolCs \in Workers \cup {NoOne} /\ groupCs \in Clients \cup {NoOne} /\ timerCs \in {TimerThread, NoOne}
        /\ pool \in PoolRecords /\ group \in GroupRecords
        /\ queue \in [1..3 -> Seq(Objs)] /\ obj \in [Objs -> ObjRecords] /\ timer \in [Objs -> TimerRecords]
        /\ pc \in [Threads -> Places] /\ cur \in [Threads -> Objs \cup {NoOne}] /\ inst \in [Workers -> InstRecords]
        /\ call \in [Clients -> Calls \cup {NoCall}] /\ script \in [Clients -> Seq(Calls)]
        /\ todo \in [Clients -> Seq(Objs \cup Steps)]
        /\ closed \in SUBSET Objs /\ quiet \in SUBSET Objs /\ failed \in BOOLEAN
    BY DEF TypesInv
  <1>t. t \in Threads
    BY Kinds
  <1>u. poolCs' = poolCs /\ groupCs' = groupCs /\ timerCs' = timerCs /\ queue' = queue /\ obj' = obj /\
          timer' = timer /\ group' = group /\ inst' = inst /\ todo' = todo /\ script' = script /\ closed' = closed /\
            quiet' = quiet /\ failed' = failed
    BY DEF TpSetPoolMinThreads, locks, history
  <1>1. \E S \in SUBSET Spare :
           /\ PoolGoes(pool.ref + Cardinality(S), pool.objcount, pool.shutdown, pool.workers + Cardinality(S),
                pool.busy)
           /\ pc' = [x \in Threads |-> IF x = t THEN "idle" ELSE IF x \in S THEN "start" ELSE pc[x]]
    <2> DEFINE n == call[t].n
               missing == IF n > pool.workers THEN n - pool.workers ELSE 0
               started == IF missing < Cardinality(Spare) THEN missing ELSE Cardinality(Spare)
               staffed == [pool EXCEPT !.ref = @ + started, !.workers = @ + started]
               max == IF pool.max > n THEN pool.max ELSE n
    <2>1. call[t] \in Calls
      BY InCalls DEF TpSetPoolMinThreads
    <2>2. n \in Int /\ pool \in PoolRecords
      BY <1>0, <2>1 DEF Calls
    <2>3. PICK S \in SUBSET Spare :
             /\ Cardinality(S) = started
             /\ pc' = [x \in Threads |-> IF x = t THEN "idle" ELSE IF x \in S THEN "start" ELSE pc[x]]
      BY DEF TpSetPoolMinThreads
    <2>4. Spare \in SUBSET Workers
      BY DEF Spare
    <2>5. Cardinality(S) \in Nat
      BY <2>3, <2>4, WorkerSets
    <2>6. started \in Nat /\ max \in Int
      BY <2>2, <2>3, <2>5 DEF PoolRecords
    <2>7. pool' = IF started < missing THEN staffed ELSE [staffed EXCEPT !.min = n, !.max = IF @ > n THEN @ ELSE n]
      BY DEF TpSetPoolMinThreads
    <2> HIDE DEF n, missing, started
    <2>8. staffed = [ref |-> pool.ref + started, objcount |-> pool.objcount, shutdown |-> pool.shutdown,
            min |-> pool.min,
                     max |-> pool.max, workers |-> pool.workers + started, busy |-> pool.busy, freed |-> pool.freed]
      <3> DEFINE q == staffed
      <3>1. q = [pool EXCEPT !.ref = @ + started, !.workers = @ + started]
        OBVIOUS
      <3> HIDE DEF staffed, q
      <3>2. q = [ref |-> pool.ref + started, objcount |-> pool.objcount, shutdown |-> pool.shutdown, min |-> pool.min,
                 max |-> pool.max, workers |-> pool.workers + started, busy |-> pool.busy, freed |-> pool.freed]
        BY <2>2, <2>6, <3>1 DEF PoolRecords
      <3> QED
        BY <3>2 DEF q
    <2> HIDE DEF staffed, max
    <2>9. /\ staffed \in PoolRecords /\ staffed.ref = pool.ref + started /\ staffed.objcount = pool.objcount /\
               staffed.max = pool.max
          /\ staffed.shutdown = pool.shutdown /\ staffed.workers = pool.workers + started /\ staffed.busy = pool.busy
      BY <2>2, <2>6, <2>8 DEF PoolRecords
    <2>10. PoolGoes(pool.ref + started, pool.objcount, pool.shutdown, pool.workers + started, pool.busy)
      <3>1. CASE started < missing
        BY <2>7, <2>9, <3>1 DEF PoolGoes
      <3>2. CASE ~(started < missing)
        <4>1. pool' = [staffed EXCEPT !.min = n, !.max = max]
          BY <2>7, <2>9, <3>2 DEF max, PoolRecords
        <4>2. pool' = [ref |-> staffed.ref, objcount |-> staffed.objcount, shutdown |-> staffed.shutdown, min |-> n,
                       max |-> max, workers |-> staffed.workers, busy |-> staffed.busy, freed |-> staffed.freed]
          BY <2>9, <4>1 DEF PoolRecords
        <4>3. pool' \in PoolRecords
          BY <2>2, <2>6, <2>9, <4>2 DEF PoolRecords
        <4> QED
          BY <2>9, <4>2, <4>3 DEF PoolGoes
      <3> QED
        BY <3>1, <3>2
    <2> QED
      BY <2>3, <2>10
  <1>2. PICK S \in SUBSET Spare : pc' = [x \in Threads |-> IF x = t THEN "idle" ELSE IF x \in S THEN "start" ELSE pc[x]]
    BY <1>1
  <1>s. S \subseteq Workers /\ \A w \in S : pc[w] = "none"
    BY DEF Spare
  <1>3. pc' \in [Threads -> Places]
    BY <1>0, <1>2 DEF Places
  <1>4. cur' = [cur EXCEPT ![t] = NoOne]
    BY DEF TpSetPoolMinThreads
  <1>5. cur' \in [Threads -> Objs \cup {NoOne}]
    BY <1>0, <1>t, <1>4
  <1>6. call' = [call EXCEPT ![t] = NoCall]
    BY DEF TpSetPoolMinThreads
  <1>7. call' \in [Clients -> Calls \cup {NoCall}]
    BY <1>0, <1>6
  <1>y. TypesInv'
    BY <1>0, <1>u, <1>1, <1>3, <1>5, <1>7 DEF TypesInv, ObjGoes, PoolGoes, TimerGoes, GroupGoes
  <1>z. Moved(t)
    BY <1>0, <1>t, <1>u, <1>2, <1>s, <1>3, <1>4, <1>5, <1>6, <1>7, Kinds DEF Moved, Drift
  <1> QED
    BY <1>1, <1>2, <1>s, <1>3, <1>4, <1>5, <1>6, <1>7, <1>y, <1>z

-----------------------------------------------------------------------------
(* Every step keeps ThreadsInv.                                            *)

\* The threads that do not move.
LEMMA OtherThreads ==
  ASSUME TypesInv, ThreadsInv, NEW t \in Threads, Moved(t)
  PROVE  /\ \A w \in Workers \ {t} : WorkerOK(w)'
         /\ t # TimerThread => TimerThreadOK'
         /\ \A u \in Clients \ {t} : PlaceOK(u)' /\ WorkOK(u)'
  <1>1. ASSUME NEW w \in Workers \ {t} PROVE WorkerOK(w)'
    <2>1. WorkerOK(w) /\ Drift(w) /\ w \in Workers /\ w \notin Clients /\ w # TimerThread
      BY Kinds DEF ThreadsInv, Moved
    <2> QED
      BY <2>1 DEF WorkerOK, Drift
  <1>2. ASSUME t # TimerThread PROVE TimerThreadOK'
    <2>1. TimerThreadOK /\ Drift(TimerThread) /\ TimerThread \notin Clients /\ TimerThread \notin Workers
      BY <1>2, Kinds DEF ThreadsInv, Moved
    <2> QED
      BY <2>1 DEF TimerThreadOK, Drift
  <1>3. ASSUME NEW u \in Clients \ {t} PROVE PlaceOK(u)' /\ WorkOK(u)'
    <2>1. /\ PlaceOK(u) /\ WorkOK(u) /\ cur'[u] = cur[u] /\ call'[u] = call[u] /\ todo'[u] = todo[u]
          /\ groupCs' = u <=> groupCs = u
          /\ pc'[u] = pc[u] \/ (pc[u] = "sleep" /\ pc'[u] = "wait")
      BY Kinds DEF ThreadsInv, Moved, Drift
    <2>2. PlaceOK(u)'
      BY <2>1 DEF PlaceOK
    <2>3. WorkOK(u)'
      BY <2>1 DEF WorkOK, Walking
    <2> QED
      BY <2>2, <2>3
  <1> QED
    BY <1>1, <1>2, <1>3

LEMMA WorkerMoves ==
  ASSUME TypesInv, ThreadsInv, NEW w \in Workers, Moved(w), WorkerOK(w)'
  PROVE  ThreadsInv'
  <1>1. w \in Threads /\ w \notin Clients /\ w # TimerThread
    BY Kinds
  <1> QED
    BY <1>1, OtherThreads DEF ThreadsInv

LEMMA ClientMoves ==
  ASSUME TypesInv, ThreadsInv, NEW t \in Clients, Moved(t), PlaceOK(t)', WorkOK(t)'
  PROVE  ThreadsInv'
  <1>1. t \in Threads /\ t \notin Workers /\ t # TimerThread
    BY Kinds
  <1> QED
    BY <1>1, OtherThreads DEF ThreadsInv

LEMMA TimerMoves ==
  ASSUME TypesInv, ThreadsInv, Moved(TimerThread), TimerThreadOK'
  PROVE  ThreadsInv'
  <1>1. TimerThread \in Threads /\ TimerThread \notin Clients /\ TimerThread \notin Workers
    BY Kinds
  <1> QED
    BY <1>1, OtherThreads DEF ThreadsInv

LEMMA WorkerThreads ==
  ASSUME TypesInv, ThreadsInv, QueueInv, NEW w \in Workers, WorkerStep(w)
  PROVE  TypesInv' /\ Moved(w) /\ ThreadsInv'
  <1>0. /\ WorkerOK(w) /\ w \in Threads /\ w # NoOne /\ NoOne \notin Objs
        /\ pc \in [Threads -> Places] /\ cur \in [Threads -> Objs \cup {NoOne}]
    BY Kinds DEF ThreadsInv, TypesInv
  <1>1. CASE WorkerEnter(w)
    <2>1. TypesInv' /\ Moved(w)
      BY <1>1, WorkerEnterDoes
    <2>2. WorkerOK(w)'
      BY <1>0, <1>1 DEF WorkerEnter, WorkerOK
    <2> QED
      BY <2>1, <2>2, WorkerMoves
  <1>2. CASE WorkerTake(w)
    <2>1. TypesInv' /\ Moved(w) /\ NextItem \in Objs
      BY <1>2, WorkerTakeDoes, NextFacts DEF WorkerTake
    <2>2. pc'[w] = "callback" /\ cur'[w] = NextItem /\ poolCs' = NoOne
      BY <1>0, <1>2 DEF WorkerTake
    <2>3. WorkerOK(w)'
      BY <1>0, <2>1, <2>2 DEF WorkerOK
    <2> QED
      BY <2>1, <2>3, WorkerMoves
  <1>3. CASE WorkerRest(w)
    <2>1. TypesInv' /\ Moved(w)
      BY <1>3, WorkerRestDoes
    <2>2. WorkerOK(w)'
      BY <1>0, <1>3 DEF WorkerRest, WorkerOK, locks
    <2> QED
      BY <2>1, <2>2, WorkerMoves
  <1>4. CASE WorkerSleep(w)
    <2>1. TypesInv' /\ Moved(w)
      BY <1>4, WorkerSleepDoes
    <2>2. WorkerOK(w)'
      BY <1>0, <1>4 DEF WorkerSleep, WorkerOK
    <2> QED
      BY <2>1, <2>2, WorkerMoves
  <1>5. CASE WorkerTimeout(w)
    <2>1. TypesInv' /\ Moved(w)
      BY <1>5, WorkerTimeoutDoes
    <2>2. WorkerOK(w)'
      BY <1>0, <1>5 DEF WorkerTimeout, WorkerOK, locks
    <2> QED
      BY <2>1, <2>2, WorkerMoves
  <1>6. CASE TpDisassociateCallback(w)
    <2>1. TypesInv' /\ Moved(w) /\ pc'[w] = pc[w] /\ cur' = cur /\ poolCs' = poolCs
      BY <1>6, TpDisassociateCallbackDoes DEF TpDisassociateCallback, locks
    <2>2. WorkerOK(w)'
      BY <1>0, <2>1 DEF WorkerOK
    <2> QED
      BY <2>1, <2>2, WorkerMoves
  <1>7. CASE TpCallbackMayRunLong(w)
    <2>1. TypesInv' /\ Moved(w) /\ pc'[w] = pc[w] /\ cur' = cur /\ poolCs' = poolCs
      BY <1>7, TpCallbackMayRunLongDoes DEF TpCallbackMayRunLong, locks
    <2>2. WorkerOK(w)'
      BY <1>0, <2>1 DEF WorkerOK
    <2> QED
      BY <2>1, <2>2, WorkerMoves
  <1>8. CASE CallbackEnd(w)
    <2>1. /\ TypesInv' /\ Moved(w)
          /\ pc'[w] = (IF obj[cur[w]].ref - 1 = 0 THEN "destroy" ELSE "loop")
          /\ cur'[w] = (IF obj[cur[w]].ref - 1 = 0 THEN cur[w] ELSE NoOne)
      BY <1>8, CallbackEndDoes
    <2>2. poolCs' = w /\ cur[w] \in Objs
      BY <1>0, <1>8 DEF CallbackEnd, WorkerOK
    <2>3. WorkerOK(w)'
      BY <1>0, <2>1, <2>2 DEF WorkerOK
    <2> QED
      BY <2>1, <2>3, WorkerMoves
  <1>9. CASE WorkerExit(w)
    <2>1. TypesInv' /\ Moved(w)
      BY <1>9, WorkerExitDoes
    <2>2. WorkerOK(w)'
      BY <1>0, <1>9 DEF WorkerExit, WorkerOK
    <2> QED
      BY <2>1, <2>2, WorkerMoves
  <1> QED
    BY <1>1, <1>2, <1>3, <1>4, <1>5, <1>6, <1>7, <1>8, <1>9 DEF WorkerStep

LEMMA TimerThreads ==
  ASSUME TypesInv, ThreadsInv, TimerStep(TimerThread)
  PROVE  TypesInv' /\ Moved(TimerThread) /\ ThreadsInv'
  <1>0. /\ TimerThreadOK /\ TimerThread \in Threads /\ TimerThread # NoOne
        /\ pc \in [Threads -> Places] /\ cur \in [Threads -> Objs \cup {NoOne}]
    BY Kinds DEF ThreadsInv, TypesInv
  <1>1. CASE TimerEnter(TimerThread)
    <2>1. TypesInv' /\ Moved(TimerThread)
      BY <1>1, TimerEnterDoes
    <2>2. TimerThreadOK'
      BY <1>0, <1>1 DEF TimerEnter, TimerThreadOK
    <2> QED
      BY <2>1, <2>2, TimerMoves
  <1>2. CASE \E o \in Timers : TimerExpire(TimerThread, o)
    <2>0. PICK o \in Timers : TimerExpire(TimerThread, o)
      BY <1>2
    <2>1. TypesInv' /\ Moved(TimerThread)
      BY <2>0, TimerExpireDoes
    <2>2. TimerThreadOK'
      BY <1>0, <2>0 DEF TimerExpire, TimerThreadOK, locks
    <2> QED
      BY <2>1, <2>2, TimerMoves
  <1>3. CASE TimerSubmit(TimerThread)
    <2>1. TypesInv' /\ Moved(TimerThread) /\ pc'[TimerThread] = "scan"
      BY <1>3, TimerSubmitDoes
    <2>2. TimerThreadOK'
      BY <1>0, <1>3, <2>1 DEF TimerSubmit, TimerThreadOK, locks
    <2> QED
      BY <2>1, <2>2, TimerMoves
  <1>4. CASE TimerLeave(TimerThread)
    <2>1. TypesInv' /\ Moved(TimerThread)
      BY <1>4, TimerLeaveDoes
    <2>2. TimerThreadOK'
      BY <1>0, <1>4 DEF TimerLeave, TimerThreadOK
    <2> QED
      BY <2>1, <2>2, TimerMoves
  <1> QED
    BY <1>1, <1>2, <1>3, <1>4 DEF TimerStep

\* A client that goes back to the program, goes on with its list, or stays in
\* its call.
LEMMA ReturnOK ==
  ASSUME NEW t \in Clients, Returns(t), groupCs' # t
  PROVE  PlaceOK(t)' /\ WorkOK(t)'
  <1>1. call'[t].fn = "none" /\ call'[t].obj = NoOne
    BY DEF Returns, NoCall
  <1> QED
    BY <1>1, NothingLeft DEF Returns, PlaceOK, WorkOK, Walking

LEMMA AfterOK ==
  ASSUME TypesInv, NEW t \in Clients, NEW rest \in Seq(Steps), After(t, rest), groupCs' # t,
         rest # <<>> => call[t].fn = "members"
  PROVE  PlaceOK(t)' /\ WorkOK(t)'
  <1>1. CASE rest = <<>>
    <2>1. Returns(t)
      BY <1>1, AfterAlone
    <2> QED
      BY <2>1, ReturnOK
  <1>2. CASE rest # <<>>
    <2>1. /\ pc'[t] = rest[1].do /\ cur'[t] = rest[1].obj /\ call'[t] = call[t] /\ todo'[t] = Tail(rest)
          /\ Len(todo'[t]) = Len(rest) - 1 /\ \A k \in 1..(Len(rest) - 1) : todo'[t][k] = rest[k + 1]
      BY <1>2, AfterFacts
    <2>2. \A k \in 1..Len(rest) : rest[k] \in Steps
      OBVIOUS
    <2>3. Len(rest) \in Nat /\ Len(rest) > 0
      BY <1>2, SeqFacts
    <2>4. pc'[t] \in {"cancel", "wait"} /\ cur'[t] \in Objs
      BY <2>1, <2>2, <2>3 DEF Steps
    <2> HIDE DEF Steps
    <2>5. \A k \in 1..Len(todo'[t]) : todo'[t][k] \in Steps
      BY <2>1, <2>2, <2>3
    <2> QED
      BY <1>2, <2>1, <2>4, <2>5 DEF PlaceOK, WorkOK, Walking
  <1> QED
    BY <1>1, <1>2

\* The list of a client that leaves group->cs alone.
LEMMA LeftMembers ==
  ASSUME TypesInv, ThreadsInv, NEW t \in Clients, todo[t] # <<>>
  PROVE  call[t].fn = "members"
  BY DEF ThreadsInv, WorkOK

LEMMA StayOK ==
  ASSUME ThreadsInv, NEW t \in Clients, NEW p, Stays(t, p), groupCs' = groupCs,
         pc[t] \notin {"members", "walk", "walk_timer"}, p \notin {"members", "walk", "walk_timer"},
         p \in {"timer_lock", "timer_unlock"} => cur[t] \in Timers
  PROVE  WorkOK(t)'
  <1>1. WorkOK(t)
    BY DEF ThreadsInv
  <1> QED
    BY <1>1 DEF WorkOK, Walking, Stays

LEMMA BeginThreads ==
  ASSUME TypesInv, ThreadsInv, NEW t \in Clients, Begin(t)
  PROVE  TypesInv' /\ Moved(t) /\ ThreadsInv'
  <1> DEFINE c == Head(script[t])
  <1>0. /\ PlaceOK(t) /\ WorkOK(t) /\ t \in Threads /\ script[t] \in Seq(Calls) /\ script[t] # <<>>
        /\ pc \in [Threads -> Places] /\ cur \in [Threads -> Objs \cup {NoOne}] /\
             call \in [Clients -> Calls \cup {NoCall}]
    BY Kinds DEF ThreadsInv, TypesInv, Begin
  <1>1. c \in Calls
    BY <1>0
  <1>2. TypesInv' /\ Moved(t)
    BY BeginDoes
  <1>3. /\ pc'[t] = FirstStep(c) /\ cur'[t] = c.obj /\ call'[t] = c /\ todo' = todo /\ groupCs' = groupCs
        /\ pc[t] = "idle"
    BY <1>0 DEF Begin, locks
  <1>4. call[t].fn = "none" /\ todo[t] = <<>> /\ groupCs # t
    BY <1>0, <1>3 DEF PlaceOK, WorkOK, Walking
  <1> HIDE DEF c
  <1>5. PlaceOK(t)'
    <2>1. c.fn \in {"alloc", "simple", "post", "set", "wait", "release", "members", "close_group", "close_pool",
            "max", "min"}
      BY <1>1 DEF Calls
    <2> QED
      BY <1>3, <2>1 DEF PlaceOK, FirstStep
  <1>6. WorkOK(t)'
    <2>1. pc'[t] \notin {"walk", "walk_timer", "timer_lock"}
      BY <1>1, <1>3 DEF FirstStep, Calls
    <2>2. pc'[t] = "timer_unlock" => cur'[t] \in Timers
      BY <1>1, <1>3 DEF FirstStep, Calls
    <2>3. c.fn = "members" => cur'[t] = NoOne /\ pc'[t] = "members"
      BY <1>1, <1>3 DEF FirstStep, Calls
    <2>4. pc'[t] = "members" => cur'[t] = NoOne
      BY <1>1, <1>3 DEF FirstStep, Calls
    <2> QED
      BY <1>3, <1>4, <2>1, <2>2, <2>3, <2>4, NothingLeft DEF WorkOK, Walking
  <1> QED
    BY <1>2, <1>5, <1>6, ClientMoves

LEMMA ReleaseThreads ==
  ASSUME TypesInv, ThreadsInv, NEW t \in Clients \cup Workers, LastRelease(t)
  PROVE  TypesInv' /\ Moved(t) /\ ThreadsInv'
  <1>0. /\ t \in Threads /\ NoOne \notin Objs /\ t # NoOne
        /\ pc \in [Threads -> Places] /\ cur \in [Threads -> Objs \cup {NoOne}]
        /\ t \in Workers => WorkerOK(t)
        /\ t \in Clients => PlaceOK(t) /\ WorkOK(t)
    BY Kinds DEF ThreadsInv, TypesInv
  <1>1. CASE Destroy(t)
    <2>1. TypesInv' /\ Moved(t)
      BY <1>1, DestroyDoes
    <2>2. pc'[t] = "unlock_pool" /\ cur' = cur /\ call' = call /\ todo' = todo /\ poolCs' = poolCs /\
            groupCs' = groupCs /\ pc[t] = "destroy"
      BY <1>0, <1>1 DEF Destroy, locks
    <2>3. t \in Workers => WorkerOK(t)'
      BY <1>0, <2>2 DEF WorkerOK
    <2>4. t \in Clients => PlaceOK(t)' /\ WorkOK(t)'
      BY <1>0, <2>2 DEF PlaceOK, WorkOK, Walking
    <2> QED
      BY <2>1, <2>3, <2>4, WorkerMoves, ClientMoves
  <1>2. CASE UnlockPool(t)
    <2>1. TypesInv' /\ Moved(t)
      BY <1>2, UnlockPoolDoes
    <2>2. pc'[t] = "free" /\ cur' = cur /\ call' = call /\ todo' = todo /\ poolCs' = poolCs /\ groupCs' = groupCs /\
            pc[t] = "unlock_pool"
      BY <1>0, <1>2 DEF UnlockPool, locks
    <2>3. t \in Workers => WorkerOK(t)'
      BY <1>0, <2>2 DEF WorkerOK
    <2>4. t \in Clients => PlaceOK(t)' /\ WorkOK(t)'
      BY <1>0, <2>2 DEF PlaceOK, WorkOK, Walking
    <2> QED
      BY <2>1, <2>3, <2>4, WorkerMoves, ClientMoves
  <1>3. CASE FreeObject(t)
    <2>1. /\ TypesInv' /\ Moved(t)
          /\ t \in Workers => pc'[t] = "loop" /\ cur'[t] = NoOne
          /\ t \in Clients => After(t, todo[t]) /\ todo[t] \in Seq(Steps)
      BY <1>3, FreeObjectDoes
    <2>2. poolCs' = poolCs /\ groupCs' = groupCs /\ pc[t] = "free"
      BY <1>3 DEF FreeObject, locks
    <2>3. t \in Workers => WorkerOK(t)'
      BY <1>0, <2>1, <2>2 DEF WorkerOK
    <2>4. ASSUME t \in Clients PROVE PlaceOK(t)' /\ WorkOK(t)'
      <3>1. groupCs' # t /\ (todo[t] # <<>> => call[t].fn = "members")
        BY <1>0, <2>2, <2>4 DEF WorkOK, Walking
      <3> QED
        BY <2>1, <2>4, <3>1, AfterOK
    <2> QED
      BY <2>1, <2>3, <2>4, WorkerMoves, ClientMoves
  <1>4. CASE UnrefPool(t)
    <2>1. /\ TypesInv' /\ Moved(t)
          /\ t \in Workers => pc'[t] = "none" /\ cur'[t] = cur[t]
          /\ t \in Clients => After(t, <<>>)
      BY <1>4, UnrefPoolDoes
    <2>2. poolCs' = poolCs /\ groupCs' = groupCs /\ pc[t] = "unref"
      BY <1>4 DEF UnrefPool, locks
    <2>3. t \in Workers => WorkerOK(t)'
      BY <1>0, <2>1, <2>2 DEF WorkerOK
    <2>4. ASSUME t \in Clients PROVE PlaceOK(t)' /\ WorkOK(t)'
      <3>1. groupCs' # t
        BY <1>0, <2>2, <2>4 DEF WorkOK, Walking
      <3> QED
        BY <2>1, <2>4, <3>1, AfterOK, NothingLeft
    <2> QED
      BY <2>1, <2>3, <2>4, WorkerMoves, ClientMoves
  <1> QED
    BY <1>1, <1>2, <1>3, <1>4 DEF LastRelease

LEMMA ClientThreads ==
  ASSUME TypesInv, ThreadsInv, NEW t \in Clients, ClientStep(t)
  PROVE  TypesInv' /\ Moved(t) /\ ThreadsInv'
  <1>0. /\ t \in Threads /\ t # NoOne /\ t # TimerThread /\ NoOne \notin Objs /\ PlaceOK(t) /\ WorkOK(t)
        /\ pc \in [Threads -> Places] /\ cur \in [Threads -> Objs \cup {NoOne}]
        /\ todo \in [Clients -> Seq(Objs \cup Steps)] /\ call \in [Clients -> Calls \cup {NoCall}]
    BY Kinds DEF ThreadsInv, TypesInv
  <1>1. CASE PoolLock(t)
    <2>1. /\ TypesInv' /\ Moved(t) /\ groupCs' = groupCs /\ pc[t] = "pool_lock"
          /\ Returns(t) \/ Stays(t,
               IF cur[t] \in Timers THEN "timer_lock" ELSE IF cur[t] \in Simples THEN "submit" ELSE "init")
      BY <1>1, PoolLockDoes DEF PoolLock, locks
    <2>2. CASE Returns(t)
      <3>1. groupCs' # t
        BY <1>0, <2>1 DEF WorkOK, Walking
      <3> QED
        BY <2>1, <2>2, <3>1, ReturnOK, ClientMoves
    <2>3. CASE Stays(t, IF cur[t] \in Timers THEN "timer_lock" ELSE IF cur[t] \in Simples THEN "submit" ELSE "init")
      <3>1. call[t] \in Calls /\ call[t].fn \in {"alloc", "simple"} /\ cur[t] = call[t].obj
        BY <1>0, <2>1, InCalls DEF PlaceOK, WorkOK
      <3>2. (call[t].fn = "alloc" => cur[t] \notin Simples) /\ (call[t].fn = "simple" => cur[t] \in Simples /\
              cur[t] \notin Timers)
        BY <3>1, Kinds DEF Calls
      <3>3. PlaceOK(t)'
        BY <2>3, <3>1, <3>2 DEF PlaceOK, Stays
      <3>4. WorkOK(t)'
        BY <2>1, <2>3, StayOK
      <3> QED
        BY <2>1, <3>3, <3>4, ClientMoves
    <2> QED
      BY <2>1, <2>2, <2>3
  <1>2. CASE TimerLock(t)
    <2>1. TypesInv' /\ Moved(t)
      BY <1>2, TimerLockDoes
    <2>2. pc'[t] = "init" /\ Stays(t, "init") /\ groupCs' = groupCs /\ pc[t] = "timer_lock"
      BY <1>0, <1>2 DEF TimerLock, Stays, locks
    <2>3. PlaceOK(t)'
      BY <1>0, <2>2 DEF PlaceOK, Stays
    <2>4. WorkOK(t)'
      BY <2>2, StayOK
    <2> QED
      BY <2>1, <2>3, <2>4, ClientMoves
  <1>3. CASE Initialize(t)
    <2>1. TypesInv' /\ Moved(t) /\ groupCs' = groupCs /\ pc[t] = "init" /\ groupCs # t
      BY <1>0, <1>3, InitializeDoes DEF Initialize, locks, WorkOK, Walking
    <2>2. CASE cur[t] \in Simples
      <3>1. Stays(t, "drop")
        BY <1>3, <2>2, InitializeDoes
      <3>3. call[t].fn = "simple"
        <4>1. call[t] \in Calls /\ call[t].fn \in {"alloc", "simple"} /\ cur[t] = call[t].obj
          BY <1>0, <2>1, InCalls DEF PlaceOK, WorkOK
        <4> QED
          BY <4>1, <2>2 DEF Calls
      <3>2. PlaceOK(t)'
        BY <1>0, <2>1, <2>2, <3>1, <3>3 DEF PlaceOK, Stays
      <3>4. WorkOK(t)'
        BY <2>1, <3>1, StayOK
      <3> QED
        BY <2>1, <3>2, <3>4, ClientMoves
    <2>3. CASE cur[t] \notin Simples
      <3>1. Returns(t)
        BY <1>3, <2>3, InitializeDoes
      <3> QED
        BY <2>1, <3>1, ReturnOK, ClientMoves
    <2> QED
      BY <2>2, <2>3
  <1>4. CASE PostWork(t)
    <2>1. /\ TypesInv' /\ Moved(t) /\ groupCs' = groupCs /\ pc[t] = "submit" /\ groupCs # t
          /\ pc'[t] = (IF cur[t] \in Simples THEN "init" ELSE "idle")
      BY <1>0, <1>4, PostWorkDoes DEF PostWork, locks, WorkOK, Walking
    <2>2. /\ cur'[t] = (IF cur[t] \in Simples THEN cur[t] ELSE NoOne) /\ todo' = todo
          /\ call'[t] = (IF cur[t] \in Simples THEN call[t] ELSE NoCall)
      BY <1>0, <1>4 DEF PostWork
    <2>3. todo[t] = <<>> /\ call[t] \in Calls /\ call[t].fn \in {"simple", "post", "set"} /\ cur[t] = call[t].obj
      BY <1>0, <2>1, InCalls DEF PlaceOK, WorkOK
    <2>4. CASE cur[t] \in Simples
      <3>1. call[t].fn = "simple"
        BY <2>3, <2>4, Kinds DEF Calls
      <3>2. Stays(t, "init")
        BY <2>1, <2>2, <2>4 DEF Stays
      <3>3. PlaceOK(t)'
        BY <3>1, <3>2 DEF PlaceOK, Stays
      <3>4. WorkOK(t)'
        BY <2>1, <3>2, StayOK
      <3> QED
        BY <2>1, <3>3, <3>4, ClientMoves
    <2>5. CASE cur[t] \notin Simples
      <3>1. Returns(t)
        BY <2>1, <2>2, <2>3, <2>5 DEF Returns
      <3> QED
        BY <2>1, <3>1, ReturnOK, ClientMoves
    <2> QED
      BY <2>4, <2>5
  <1>5. CASE TpSetTimer(t)
    <2>1. TypesInv' /\ Moved(t) /\ groupCs' = groupCs /\ pc[t] = "set" /\ groupCs # t
      BY <1>0, <1>5, TpSetTimerDoes DEF TpSetTimer, locks, WorkOK, Walking
    <2>2. CASE call[t].n = 0
      <3>1. Stays(t, "submit")
        BY <1>5, <2>2, TpSetTimerDoes
      <3>2. PlaceOK(t)'
        BY <1>0, <2>1, <2>2, <3>1 DEF PlaceOK, Stays
      <3>4. WorkOK(t)'
        BY <2>1, <3>1, StayOK
      <3> QED
        BY <2>1, <3>2, <3>4, ClientMoves
    <2>3. CASE call[t].n # 0
      <3>1. Returns(t)
        BY <1>5, <2>3, TpSetTimerDoes
      <3> QED
        BY <2>1, <3>1, ReturnOK, ClientMoves
    <2> QED
      BY <2>2, <2>3
  <1>6. CASE Cancel(t)
    <2>1. TypesInv' /\ Moved(t) /\ groupCs' = groupCs /\ pc[t] = "cancel" /\ groupCs # t
      BY <1>0, <1>6, CancelDoes DEF Cancel, locks, WorkOK, Walking
    <2>2. CASE call[t].fn # "members"
      <3>1. Stays(t, "wait")
        BY <1>6, <2>2, CancelDoes
      <3>2. PlaceOK(t)'
        BY <1>0, <2>1, <2>2, <3>1 DEF PlaceOK, Stays
      <3>4. WorkOK(t)'
        BY <2>1, <3>1, StayOK
      <3> QED
        BY <2>1, <3>2, <3>4, ClientMoves
    <2>3. CASE call[t].fn = "members"
      <3>1. After(t, todo[t]) /\ todo[t] \in Seq(Steps)
        BY <1>6, <2>3, CancelDoes
      <3>2. PlaceOK(t)' /\ WorkOK(t)'
        BY <2>1, <3>1, AfterOK, LeftMembers
      <3> QED
        BY <2>1, <3>2, ClientMoves
    <2> QED
      BY <2>2, <2>3
  <1>7. CASE Wait(t)
    <2>1. TypesInv' /\ Moved(t) /\ groupCs' = groupCs /\ pc[t] = "wait" /\ groupCs # t
      BY <1>0, <1>7, WaitDoes DEF Wait, locks, WorkOK, Walking
    <2>2. CASE ~IsFinished(obj[cur[t]], call[t].fn = "members")
      <3>1. Stays(t, "sleep")
        BY <1>7, <2>2, WaitDoes
      <3>2. PlaceOK(t)'
        BY <1>0, <2>1, <2>2, <3>1 DEF PlaceOK, Stays
      <3>4. WorkOK(t)'
        BY <2>1, <3>1, StayOK
      <3> QED
        BY <2>1, <3>2, <3>4, ClientMoves
    <2>3. CASE IsFinished(obj[cur[t]], call[t].fn = "members") /\ call[t].fn = "members"
      <3>1. Stays(t, "done")
        BY <1>7, <2>3, WaitDoes
      <3>2. PlaceOK(t)'
        BY <1>0, <2>1, <2>3, <3>1 DEF PlaceOK, Stays
      <3>4. WorkOK(t)'
        BY <2>1, <3>1, StayOK
      <3> QED
        BY <2>1, <3>2, <3>4, ClientMoves
    <2>4. CASE IsFinished(obj[cur[t]], call[t].fn = "members") /\ call[t].fn # "members"
      <3>1. Returns(t)
        BY <1>7, <2>4, WaitDoes
      <3> QED
        BY <2>1, <3>1, ReturnOK, ClientMoves
    <2> QED
      BY <2>2, <2>3, <2>4
  <1>8. CASE TimerUnlock(t)
    <2>1. TypesInv' /\ Moved(t)
      BY <1>8, TimerUnlockDoes
    <2>2. Stays(t, "drop") /\ groupCs' = groupCs /\ pc[t] = "timer_unlock"
      BY <1>0, <1>8 DEF TimerUnlock, Stays, locks
    <2>3. PlaceOK(t)'
      BY <1>0, <2>2 DEF PlaceOK, Stays
    <2>4. WorkOK(t)'
      BY <2>2, StayOK
    <2> QED
      BY <2>1, <2>3, <2>4, ClientMoves
  <1>9. CASE Drop(t)
    <2>1. TypesInv' /\ Moved(t) /\ groupCs' = groupCs /\ pc[t] = "drop" /\ groupCs # t
      BY <1>0, <1>9, DropDoes DEF Drop, locks, WorkOK, Walking
    <2>2. CASE obj[cur[t]].ref = 1
      <3>1. Stays(t, "destroy")
        BY <1>9, <2>2, DropDoes
      <3>2. PlaceOK(t)'
        BY <1>0, <2>1, <2>2, <3>1 DEF PlaceOK, Stays
      <3>4. WorkOK(t)'
        BY <2>1, <3>1, StayOK
      <3> QED
        BY <2>1, <3>2, <3>4, ClientMoves
    <2>3. CASE obj[cur[t]].ref # 1
      <3>1. After(t, todo[t]) /\ todo[t] \in Seq(Steps)
        BY <1>9, <2>3, DropDoes
      <3>2. PlaceOK(t)' /\ WorkOK(t)'
        BY <2>1, <3>1, AfterOK, LeftMembers
      <3> QED
        BY <2>1, <3>2, ClientMoves
    <2> QED
      BY <2>2, <2>3
  <1>10. CASE Members(t)
    <2>1. TypesInv' /\ Moved(t)
      BY <1>10, MembersDoes
    <2>2. /\ pc'[t] = "walk" /\ cur' = cur /\ call' = call /\ todo'[t] = group.members /\ groupCs' = t /\
               pc[t] = "members"
          /\ group.members \in Seq(Objs)
      BY <1>0, <1>10 DEF Members, TypesInv, GroupRecords
    <2>3. call[t].fn = "members"
      BY <1>0, <2>2 DEF PlaceOK
    <2>4. PlaceOK(t)'
      BY <2>2, <2>3 DEF PlaceOK
    <2>5. \A k \in 1..Len(todo'[t]) : todo'[t][k] \in Objs
      BY <2>2
    <2>6. WorkOK(t)'
      BY <2>2, <2>3, <2>5 DEF WorkOK, Walking
    <2> QED
      BY <2>1, <2>4, <2>6, ClientMoves
  <1>11. CASE MemberStep(t)
    <2>1. /\ TypesInv' /\ Moved(t) /\ call'[t] = call[t] /\ todo'[t] = Tail(todo[t])
          /\ \/ pc'[t] = "walk"
             \/ pc'[t] = "walk_timer" /\ cur'[t] = Head(todo[t]) /\ Head(todo[t]) \in Timers
      BY <1>11, MemberStepDoes
    <2>2. groupCs' = groupCs /\ pc[t] = "walk" /\ todo[t] # <<>>
      BY <1>11 DEF MemberStep, locks
    <2>3. call[t].fn = "members" /\ groupCs = t /\ \A k \in 1..Len(todo[t]) : todo[t][k] \in Objs
      BY <1>0, <2>2 DEF PlaceOK, WorkOK, Walking
    <2>4. PlaceOK(t)'
      BY <2>1, <2>3 DEF PlaceOK
    <2>5. \A k \in 1..Len(todo'[t]) : todo'[t][k] \in Objs
      <3>1. todo[t] \in Seq(Objs \cup Steps)
        BY <1>0
      <3>2. Len(todo'[t]) = Len(todo[t]) - 1 /\ Len(todo[t]) \in Nat /\
              \A k \in 1..(Len(todo[t]) - 1) : todo'[t][k] = todo[t][k + 1]
        BY <2>1, <2>2, <3>1, SeqFacts
      <3> QED
        BY <2>3, <3>2
    <2>6. WorkOK(t)'
      BY <2>1, <2>2, <2>3, <2>5, Kinds DEF WorkOK, Walking
    <2> QED
      BY <2>1, <2>4, <2>6, ClientMoves
  <1>12. CASE MemberTimer(t)
    <2>1. TypesInv' /\ Moved(t)
      BY <1>12, MemberTimerDoes
    <2>2. Stays(t, "walk") /\ groupCs' = groupCs /\ pc[t] = "walk_timer"
      BY <1>0, <1>12 DEF MemberTimer, Stays, locks
    <2>3. call[t].fn = "members" /\ groupCs = t
      BY <1>0, <2>2 DEF PlaceOK, WorkOK, Walking
    <2>4. PlaceOK(t)'
      BY <2>2, <2>3 DEF PlaceOK, Stays
    <2>5. WorkOK(t)'
      BY <1>0, <2>2, <2>3 DEF WorkOK, Walking, Stays
    <2> QED
      BY <2>1, <2>4, <2>5, ClientMoves
  <1>13. CASE MembersLeave(t)
    <2>1. TypesInv' /\ Moved(t) /\ Leaving(t) \in Seq(Steps) /\ After(t, Leaving(t))
      BY <1>13, MembersLeaveDoes
    <2>2. groupCs' = NoOne /\ pc[t] = "walk"
      BY <1>13 DEF MembersLeave
    <2>3. call[t].fn = "members" /\ groupCs' # t
      BY <1>0, <2>2 DEF PlaceOK
    <2>4. PlaceOK(t)' /\ WorkOK(t)'
      BY <2>1, <2>3, AfterOK
    <2> QED
      BY <2>1, <2>4, ClientMoves
  <1>14. CASE MemberDone(t)
    <2>1. TypesInv' /\ Moved(t) /\ groupCs' = groupCs /\ pc[t] = "done" /\ groupCs # t
      BY <1>0, <1>14, MemberDoneDoes DEF MemberDone, locks, WorkOK, Walking
    <2>2. CASE obj[cur[t]].ref = (IF obj[cur[t]].shutdown \/ cur[t] \in Simples THEN 1 ELSE 2)
      <3>1. Stays(t, "destroy")
        BY <1>14, <2>2, MemberDoneDoes
      <3>2. PlaceOK(t)'
        BY <1>0, <2>1, <2>2, <3>1 DEF PlaceOK, Stays
      <3>4. WorkOK(t)'
        BY <2>1, <3>1, StayOK
      <3> QED
        BY <2>1, <3>2, <3>4, ClientMoves
    <2>3. CASE obj[cur[t]].ref # (IF obj[cur[t]].shutdown \/ cur[t] \in Simples THEN 1 ELSE 2)
      <3>1. After(t, todo[t]) /\ todo[t] \in Seq(Steps)
        BY <1>14, <2>3, MemberDoneDoes
      <3>2. PlaceOK(t)' /\ WorkOK(t)'
        BY <2>1, <3>1, AfterOK, LeftMembers
      <3> QED
        BY <2>1, <3>2, ClientMoves
    <2> QED
      BY <2>2, <2>3
  <1>15. CASE TpReleaseCleanupGroup(t)
    <2>1. TypesInv' /\ Moved(t) /\ groupCs' = groupCs /\ pc[t] = "close_group" /\ groupCs # t
      BY <1>0, <1>15, TpReleaseCleanupGroupDoes DEF TpReleaseCleanupGroup, locks, WorkOK, Walking
    <2>2. CASE TRUE
      <3>1. Returns(t)
        BY <1>15, <2>2, TpReleaseCleanupGroupDoes
      <3> QED
        BY <2>1, <3>1, ReturnOK, ClientMoves
    <2> QED
      BY <2>2
  <1>16. CASE TpReleasePool(t)
    <2>1. TypesInv' /\ Moved(t) /\ pc'[t] = "unref"
      BY <1>16, TpReleasePoolDoes
    <2>2. cur' = cur /\ todo' = todo /\ call' = call /\ groupCs' = groupCs /\ pc[t] = "close_pool"
      BY <1>16 DEF TpReleasePool, locks
    <2>3. PlaceOK(t)'
      BY <1>0, <2>1, <2>2 DEF PlaceOK
    <2>4. WorkOK(t)'
      BY <2>1, <2>2, StayOK DEF Stays
    <2> QED
      BY <2>1, <2>3, <2>4, ClientMoves
  <1>17. CASE TpSetPoolMaxThreads(t)
    <2>1. TypesInv' /\ Moved(t) /\ groupCs' = groupCs /\ pc[t] = "max" /\ groupCs # t
      BY <1>0, <1>17, TpSetPoolMaxThreadsDoes DEF TpSetPoolMaxThreads, locks, WorkOK, Walking
    <2>2. CASE TRUE
      <3>1. Returns(t)
        BY <1>17, <2>2, TpSetPoolMaxThreadsDoes
      <3> QED
        BY <2>1, <3>1, ReturnOK, ClientMoves
    <2> QED
      BY <2>2
  <1>18. CASE TpSetPoolMinThreads(t)
    <2>1. TypesInv' /\ Moved(t) /\ groupCs' = groupCs /\ pc[t] = "min" /\ groupCs # t
      BY <1>0, <1>18, TpSetPoolMinThreadsDoes DEF TpSetPoolMinThreads, locks, WorkOK, Walking
    <2>2. Returns(t)
      <3>1. cur'[t] = NoOne /\ call'[t] = NoCall /\ todo' = todo
        BY <1>0, <1>18 DEF TpSetPoolMinThreads
      <3>2. pc'[t] = "idle"
        BY <1>0, <1>18, TpSetPoolMinThreadsDoes
      <3>3. todo[t] = <<>>
        BY <1>0, <2>1 DEF PlaceOK, WorkOK
      <3> QED
        BY <3>1, <3>2, <3>3 DEF Returns
    <2> QED
      BY <2>1, <2>2, ReturnOK, ClientMoves
  <1> QED
    BY <1>1, <1>2, <1>3, <1>4, <1>5, <1>6, <1>7, <1>8, <1>9, <1>10, <1>11, <1>12, <1>13, <1>14, <1>15, <1>16, <1>17,
         <1>18 DEF ClientStep

-----------------------------------------------------------------------------
(* Every step keeps BirthInv.                                              *)

BornObjs(t) ==
    \A o \in Objs : /\ Born(o) => Born(o)'
                    /\ ~Born(o) => obj'[o] = obj[o] \/ (t \in Clients /\ pc[t] = "pool_lock" /\ cur[t] = o /\
                         Born(o)')
BornTimers == \A o \in Objs : ~Born(o) => ~timer'[o].initialized /\ ~timer'[o].pending /\ ~timer'[o].due
BornCur(t) == pc'[t] # "pool_lock" /\ (cur'[t] \in Objs => Born(cur'[t]) \/ obj'[cur'[t]].state # "none")
BornLists(t) == (t \in Clients => ListBorn(todo'[t], Walking(t)')) /\ ListBorn(group'.members, TRUE)
CallsGo == \A u \in Clients : call'[u] = call[u] \/ call'[u] = NoCall

LEMMA BirthStep ==
  ASSUME TypesInv, ThreadsInv, BirthInv, NEW t \in Threads, TypesInv', ThreadsInv', Moved(t),
         BornObjs(t), BornTimers, BornCur(t), BornLists(t), CallsGo
  PROVE  BirthInv'
  <1>0. /\ cur \in [Threads -> Objs \cup {NoOne}] /\ cur' \in [Threads -> Objs \cup {NoOne}]
        /\ todo' \in [Clients -> Seq(Objs \cup Steps)] /\ group'.members \in Seq(Objs)
        /\ call \in [Clients -> Calls \cup {NoCall}] /\ call' \in [Clients -> Calls \cup {NoCall}]
    BY DEF TypesInv, GroupRecords
  <1>1. ASSUME NEW o \in Objs, ~Born(o)'
        PROVE  /\ obj'[o].pending = 0 /\ obj'[o].running = 0
               /\ ~timer'[o].initialized /\ ~timer'[o].pending /\ ~timer'[o].due
    <2>1. ~Born(o) /\ obj'[o] = obj[o]
      BY <1>1 DEF BornObjs
    <2> QED
      BY <2>1 DEF BornTimers, BirthInv
  <1>2. ASSUME NEW u \in Threads, cur'[u] \in Objs PROVE (Born(cur[u]) <=> pc[u] # "pool_lock")'
    <2>1. CASE u = t
      <3>1. Born(cur'[u]) => obj'[cur'[u]].state # "none"
        BY <1>2 DEF BornObjs, Born
      <3> QED
        BY <2>1, <3>1, <1>2 DEF BornCur, Born
    <2>2. CASE u # t
      <3>1. /\ cur'[u] = cur[u] /\ (pc'[u] = "pool_lock" <=> pc[u] = "pool_lock")
            /\ u \in Clients => call'[u] = call[u]
        BY <2>2 DEF Moved, Drift
      <3>2. Born(cur[u]) <=> pc[u] # "pool_lock"
        BY <1>2, <3>1 DEF BirthInv
      <3>3. CASE Born(cur[u])
        BY <1>2, <3>1, <3>2, <3>3 DEF BornObjs, Born
      <3>4. CASE ~Born(cur[u]) /\ ~(t \in Clients /\ pc[t] = "pool_lock" /\ cur[t] = cur[u])
        <4>1. obj'[cur[u]] = obj[cur[u]]
          BY <1>2, <3>1, <3>4 DEF BornObjs
        <4> QED
          BY <3>1, <3>2, <3>4, <4>1 DEF Born
      <3>5. CASE ~Born(cur[u]) /\ t \in Clients /\ pc[t] = "pool_lock" /\ cur[t] = cur[u]
        <4>1. pc[u] = "pool_lock"
          BY <3>2, <3>5
        <4>2. u \in Clients
          BY <4>1 DEF ThreadsInv, WorkerOK, TimerThreadOK, Threads
        <4>3. Allocates(t) /\ call[t].obj = cur[t]
          BY <3>5 DEF ThreadsInv, PlaceOK, WorkOK, Allocates
        <4>4. call[u].obj = cur[u]
          BY <4>1, <4>2 DEF ThreadsInv, PlaceOK, WorkOK
        <4> QED
          BY <2>2, <3>5, <4>2, <4>3, <4>4 DEF BirthInv
      <3> QED
        BY <3>3, <3>4, <3>5
    <2> QED
      BY <2>1, <2>2
  <1>3. ASSUME NEW s, NEW b \in BOOLEAN, ListBorn(s, b), \A k \in 1..Len(s) : s[k] \in IF b THEN Objs ELSE Steps
        PROVE  \A k \in 1..Len(s) : obj'[IF b THEN s[k] ELSE s[k].obj].state # "none"
    <2>1. \A k \in 1..Len(s) : (IF b THEN s[k] ELSE s[k].obj) \in Objs
      BY <1>3 DEF Steps
    <2> QED
      BY <1>3, <2>1 DEF ListBorn, Born, BornObjs
  <1>4. ASSUME NEW u \in Clients PROVE ListBorn(todo[u], Walking(u))'
    <2>1. ListBorn(todo'[u], Walking(u)')
      <3>1. CASE u = t
        BY <3>1 DEF BornLists
      <3>2. CASE u # t
        <4>1. todo'[u] = todo[u] /\ (Walking(u)' <=> Walking(u))
          BY <3>2, Kinds DEF Moved, Drift, Walking
        <4>2. ListBorn(todo[u], Walking(u))
          BY DEF BirthInv
        <4> QED
          BY <4>1, <4>2 DEF ListBorn
      <3> QED
        BY <3>1, <3>2
    <2>2. \A k \in 1..Len(todo'[u]) : todo'[u][k] \in IF Walking(u)' THEN Objs ELSE Steps
      BY DEF ThreadsInv, WorkOK
    <2>3. Walking(u)' \in BOOLEAN
      BY DEF Walking
    <2> HIDE DEF Steps
    <2>4. \A k \in 1..Len(todo'[u]) : obj'[IF Walking(u)' THEN todo'[u][k] ELSE todo'[u][k].obj].state # "none"
      BY <1>3, <2>1, <2>2, <2>3
    <2> QED
      BY <2>4 DEF ListBorn, Born
  <1>5. ListBorn(group.members, TRUE)'
    <2> DEFINE s == group'.members
    <2>1. ListBorn(s, TRUE) /\ s \in Seq(Objs)
      BY <1>0 DEF BornLists
    <2> HIDE DEF s
    <2>2. \A k \in 1..Len(s) : s[k] \in Objs
      BY <2>1
    <2>3. \A k \in 1..Len(s) : obj'[s[k]].state # "none"
      BY <1>3, <2>1, <2>2
    <2> QED
      BY <2>3 DEF ListBorn, Born, s
  <1>6. ASSUME NEW u \in Clients, NEW v \in Clients, Allocates(u)', call'[v].obj = call'[u].obj PROVE v = u
    <2>1. call'[u] = call[u] /\ Allocates(u)
      BY <1>6 DEF CallsGo, Allocates, NoCall
    <2>2. call[u].obj \in Objs
      <3>1. call[u] \in Calls
        BY <1>0, <2>1 DEF Allocates, NoCall
      <3> QED
        BY <2>1, <3>1, Kinds DEF Allocates, Calls
    <2>3. call'[v] = call[v]
      BY <1>6, <2>1, <2>2, Kinds DEF CallsGo, NoCall
    <2> QED
      BY <1>6, <2>1, <2>3 DEF BirthInv
  <1> QED
    BY <1>1, <1>2, <1>4, <1>5, <1>6 DEF BirthInv

LEMMA OneObj ==
  ASSUME NEW t, NEW x \in Objs, Born(x), obj'[x].state = obj[x].state \/ obj'[x].state = "freed",
         \A y \in Objs \ {x} : obj'[y] = obj[y]
  PROVE  BornObjs(t)
  BY DEF BornObjs, Born

LEMMA SameObjs ==
  ASSUME NEW t, obj' = obj
  PROVE  BornObjs(t)
  BY DEF BornObjs, Born

LEMMA SameTimers ==
  ASSUME BirthInv, timer' = timer
  PROVE  BornTimers
  BY DEF BornTimers, BirthInv

LEMMA OneTimer ==
  ASSUME BirthInv, NEW x \in Objs, Born(x), \A y \in Objs \ {x} : timer'[y] = timer[y]
  PROVE  BornTimers
  BY DEF BornTimers, BirthInv

LEMMA SameCur ==
  ASSUME TypesInv, BirthInv, NEW t \in Threads, cur'[t] = cur[t] \/ cur'[t] = NoOne, pc[t] # "pool_lock",
           pc'[t] # "pool_lock"
  PROVE  BornCur(t)
  BY Kinds DEF BornCur, BirthInv

LEMMA SameLists ==
  ASSUME BirthInv, NEW t \in Threads, t \in Clients => todo'[t] = todo[t] /\ (Walking(t)' <=> Walking(t)),
         group'.members = group.members
  PROVE  BornLists(t)
  BY DEF BornLists, BirthInv, ListBorn

LEMMA CurBorn ==
  ASSUME BirthInv, NEW t \in Threads, cur[t] \in Objs, pc[t] # "pool_lock"
  PROVE  Born(cur[t])
  BY DEF BirthInv

LEMMA AfterBorn ==
  ASSUME TypesInv, NEW t \in Clients, NEW rest \in Seq(Steps), After(t, rest), ListBorn(rest, FALSE)
  PROVE  BornCur(t) /\ ListBorn(todo'[t], Walking(t)') /\ CallsGo
  <1>1. CASE rest = <<>>
    <2>1. Alone(t) /\ Returns(t)
      BY <1>1, AfterAlone
    <2> QED
      BY <2>1, Kinds, NothingLeft DEF BornCur, ListBorn, CallsGo, Alone, Returns
  <1>2. CASE rest # <<>>
    <2>1. /\ pc'[t] = rest[1].do /\ cur'[t] = rest[1].obj /\ call'[t] = call[t]
          /\ Len(todo'[t]) = Len(rest) - 1 /\ \A k \in 1..(Len(rest) - 1) : todo'[t][k] = rest[k + 1]
          /\ \A u \in Clients \ {t} : call'[u] = call[u]
      BY <1>2, AfterFacts
    <2>2. Len(rest) \in Nat /\ Len(rest) > 0 /\ rest[1] \in Steps
      BY <1>2, SeqFacts
    <2>3. rest[1].do # "pool_lock" /\ Born(rest[1].obj)
      BY <2>2 DEF Steps, ListBorn
    <2>4. ListBorn(todo'[t], FALSE)
      BY <2>1, <2>2 DEF ListBorn
    <2>5. ~Walking(t)'
      BY <2>1, <2>2 DEF Walking, Steps
    <2> QED
      BY <2>1, <2>3, <2>4, <2>5 DEF BornCur, CallsGo, ListBorn
  <1> QED
    BY <1>1, <1>2

LEMMA ReturnBorn ==
  ASSUME TypesInv, BirthInv, NEW t \in Clients, Alone(t), Returns(t)
  PROVE  BornCur(t) /\ ListBorn(todo'[t], Walking(t)') /\ CallsGo
  BY Kinds, NothingLeft DEF BornCur, ListBorn, CallsGo, Alone, Returns

LEMMA StayBorn ==
  ASSUME TypesInv, BirthInv, NEW t \in Clients, Alone(t), NEW p, Stays(t, p), ~Walking(t),
         p \notin {"pool_lock", "walk", "walk_timer"}, pc[t] # "pool_lock"
  PROVE  BornCur(t) /\ ListBorn(todo'[t], Walking(t)') /\ CallsGo
  <1>1. BornCur(t) /\ CallsGo
    BY Kinds DEF BornCur, CallsGo, Alone, Stays, BirthInv
  <1>2. ListBorn(todo'[t], Walking(t)')
    BY DEF Stays, Walking, ListBorn, BirthInv
  <1> QED
    BY <1>1, <1>2

LEMMA NextBorn ==
  ASSUME TypesInv, BirthInv, QueueInv, HasItem
  PROVE  NextItem \in Objs /\ Born(NextItem)
  <1>1. /\ NextItem \in Objs /\ Priority[NextItem] \in 1..3 /\ queue[Priority[NextItem]] \in Seq(Objs)
        /\ queue[Priority[NextItem]] # <<>> /\ NextItem = Head(queue[Priority[NextItem]])
    BY NextFacts
  <1>2. NextItem = queue[Priority[NextItem]][1] /\ 1 \in 1..Len(queue[Priority[NextItem]])
    BY <1>1
  <1>3. obj[NextItem].pending > 0
    BY <1>1, <1>2 DEF QueueInv, QueueOK
  <1> QED
    BY <1>1, <1>3 DEF BirthInv

LEMMA WorkerBirth ==
  ASSUME TypesInv, ThreadsInv, BirthInv, QueueInv, NEW w \in Workers, WorkerStep(w)
  PROVE  BirthInv'
  <1>0. w \in Threads /\ TypesInv' /\ ThreadsInv' /\ Moved(w)
    BY WorkerThreads, Kinds
  <1>t. pc \in [Threads -> Places] /\ cur \in [Threads -> Objs \cup {NoOne}] /\
          todo \in [Clients -> Seq(Objs \cup Steps)]
    BY DEF TypesInv
  <1>1. CASE WorkerEnter(w)
    <2>1. BornObjs(w)
      BY <1>1, SameObjs DEF WorkerEnter
    <2>2. BornTimers
      BY <1>1, SameTimers DEF WorkerEnter
    <2>3. BornCur(w)
      BY <1>1, <1>0, <1>t, SameCur DEF WorkerEnter
    <2>4. CallsGo
      BY <1>1 DEF WorkerEnter, CallsGo
    <2>5. BornLists(w)
      BY <1>1, <1>0, SameLists DEF WorkerEnter, Walking
    <2> QED
      BY <1>0, <2>1, <2>2, <2>3, <2>4, <2>5, BirthStep
  <1>2. CASE WorkerTake(w)
    <2>1. BornObjs(w)
      <3>1. NextItem \in Objs /\ Born(NextItem)
        BY <1>2, NextBorn DEF WorkerTake
      <3>2. (obj'[NextItem].state = obj[NextItem].state \/ obj'[NextItem].state = "freed") /\
              \A y \in Objs \ {NextItem} : obj'[y] = obj[y]
        BY <1>2, WorkerTakeDoes DEF ObjGoes
      <3> QED
        BY <3>1, <3>2, OneObj
    <2>2. BornTimers
      BY <1>2, SameTimers DEF WorkerTake
    <2>3. BornCur(w)
      <3>1. Born(NextItem) /\ pc'[w] = "callback" /\ cur'[w] = NextItem
        BY <1>2, <1>0, <1>t, NextBorn DEF WorkerTake
      <3> QED
        BY <3>1 DEF BornCur
    <2>4. CallsGo
      BY <1>2 DEF WorkerTake, CallsGo
    <2>5. BornLists(w)
      BY <1>2, <1>0, SameLists DEF WorkerTake, Walking
    <2> QED
      BY <1>0, <2>1, <2>2, <2>3, <2>4, <2>5, BirthStep
  <1>3. CASE WorkerRest(w)
    <2>1. BornObjs(w)
      BY <1>3, SameObjs DEF WorkerRest
    <2>2. BornTimers
      BY <1>3, SameTimers DEF WorkerRest
    <2>3. BornCur(w)
      BY <1>3, <1>0, <1>t, SameCur DEF WorkerRest
    <2>4. CallsGo
      BY <1>3 DEF WorkerRest, CallsGo
    <2>5. BornLists(w)
      BY <1>3, <1>0, SameLists DEF WorkerRest, Walking
    <2> QED
      BY <1>0, <2>1, <2>2, <2>3, <2>4, <2>5, BirthStep
  <1>4. CASE WorkerSleep(w)
    <2>1. BornObjs(w)
      BY <1>4, SameObjs DEF WorkerSleep
    <2>2. BornTimers
      BY <1>4, SameTimers DEF WorkerSleep
    <2>3. BornCur(w)
      BY <1>4, <1>0, <1>t, SameCur DEF WorkerSleep
    <2>4. CallsGo
      BY <1>4 DEF WorkerSleep, CallsGo
    <2>5. BornLists(w)
      BY <1>4, <1>0, SameLists DEF WorkerSleep, Walking
    <2> QED
      BY <1>0, <2>1, <2>2, <2>3, <2>4, <2>5, BirthStep
  <1>5. CASE WorkerTimeout(w)
    <2>1. BornObjs(w)
      BY <1>5, SameObjs DEF WorkerTimeout
    <2>2. BornTimers
      BY <1>5, SameTimers DEF WorkerTimeout
    <2>3. BornCur(w)
      BY <1>5, <1>0, <1>t, SameCur DEF WorkerTimeout
    <2>4. CallsGo
      BY <1>5 DEF WorkerTimeout, CallsGo
    <2>5. BornLists(w)
      BY <1>5, <1>0, SameLists DEF WorkerTimeout, Walking
    <2> QED
      BY <1>0, <2>1, <2>2, <2>3, <2>4, <2>5, BirthStep
  <1>6. CASE TpDisassociateCallback(w)
    <2>1. BornObjs(w)
      <3>1. cur[w] \in Objs /\ Born(cur[w])
        BY <1>6, <1>0, CurBorn DEF TpDisassociateCallback, ThreadsInv, WorkerOK
      <3>2. (obj'[cur[w]].state = obj[cur[w]].state \/ obj'[cur[w]].state = "freed") /\
              \A y \in Objs \ {cur[w]} : obj'[y] = obj[y]
        BY <1>6, TpDisassociateCallbackDoes DEF ObjGoes
      <3> QED
        BY <3>1, <3>2, OneObj
    <2>2. BornTimers
      BY <1>6, SameTimers DEF TpDisassociateCallback
    <2>3. BornCur(w)
      <3>1. pc'[w] = pc[w] /\ pc[w] = "callback" /\ cur' = cur
        BY <1>6, TpDisassociateCallbackDoes DEF TpDisassociateCallback
      <3> QED
        BY <1>0, <3>1, SameCur
    <2>4. CallsGo
      BY <1>6 DEF TpDisassociateCallback, CallsGo
    <2>5. BornLists(w)
      BY <1>6, <1>0, SameLists DEF TpDisassociateCallback, Walking
    <2> QED
      BY <1>0, <2>1, <2>2, <2>3, <2>4, <2>5, BirthStep
  <1>7. CASE TpCallbackMayRunLong(w)
    <2>1. BornObjs(w)
      BY <1>7, SameObjs DEF TpCallbackMayRunLong
    <2>2. BornTimers
      BY <1>7, SameTimers DEF TpCallbackMayRunLong
    <2>3. BornCur(w)
      <3>1. pc'[w] = pc[w] /\ pc[w] = "callback" /\ cur' = cur
        BY <1>7, TpCallbackMayRunLongDoes DEF TpCallbackMayRunLong
      <3> QED
        BY <1>0, <3>1, SameCur
    <2>4. CallsGo
      BY <1>7 DEF TpCallbackMayRunLong, CallsGo
    <2>5. BornLists(w)
      <3>1. w \notin Clients /\ group' = group
        BY <1>7, Kinds DEF TpCallbackMayRunLong
      <3> QED
        BY <1>0, <3>1, SameLists
    <2> QED
      BY <1>0, <2>1, <2>2, <2>3, <2>4, <2>5, BirthStep
  <1>8. CASE CallbackEnd(w)
    <2>1. BornObjs(w)
      <3>1. cur[w] \in Objs /\ Born(cur[w])
        BY <1>8, <1>0, CurBorn DEF CallbackEnd, ThreadsInv, WorkerOK
      <3>2. (obj'[cur[w]].state = obj[cur[w]].state \/ obj'[cur[w]].state = "freed") /\
              \A y \in Objs \ {cur[w]} : obj'[y] = obj[y]
        BY <1>8, CallbackEndDoes DEF ObjGoes
      <3> QED
        BY <3>1, <3>2, OneObj
    <2>2. BornTimers
      BY <1>8, SameTimers DEF CallbackEnd
    <2>3. BornCur(w)
      <3>1. (cur'[w] = cur[w] \/ cur'[w] = NoOne) /\ pc'[w] \in {"destroy", "loop"} /\ pc[w] = "callback"
        BY <1>8, CallbackEndDoes DEF CallbackEnd
      <3> QED
        BY <1>0, <3>1, SameCur
    <2>4. CallsGo
      BY <1>8 DEF CallbackEnd, CallsGo
    <2>5. BornLists(w)
      BY <1>8, <1>0, SameLists DEF CallbackEnd, Walking
    <2> QED
      BY <1>0, <2>1, <2>2, <2>3, <2>4, <2>5, BirthStep
  <1>9. CASE WorkerExit(w)
    <2>1. BornObjs(w)
      BY <1>9, SameObjs DEF WorkerExit
    <2>2. BornTimers
      BY <1>9, SameTimers DEF WorkerExit
    <2>3. BornCur(w)
      BY <1>9, <1>0, <1>t, SameCur DEF WorkerExit
    <2>4. CallsGo
      BY <1>9 DEF WorkerExit, CallsGo
    <2>5. BornLists(w)
      BY <1>9, <1>0, SameLists DEF WorkerExit, Walking
    <2> QED
      BY <1>0, <2>1, <2>2, <2>3, <2>4, <2>5, BirthStep
  <1> QED
    BY <1>1, <1>2, <1>3, <1>4, <1>5, <1>6, <1>7, <1>8, <1>9 DEF WorkerStep

LEMMA TimerBirth ==
  ASSUME TypesInv, ThreadsInv, BirthInv, TimerStep(TimerThread)
  PROVE  BirthInv'
  <1>0. TimerThread \in Threads /\ TypesInv' /\ ThreadsInv' /\ Moved(TimerThread)
    BY TimerThreads, Kinds
  <1>t. pc \in [Threads -> Places] /\ cur \in [Threads -> Objs \cup {NoOne}] /\
          todo \in [Clients -> Seq(Objs \cup Steps)]
    BY DEF TypesInv
  <1>1. CASE TimerEnter(TimerThread)
    <2>1. BornObjs(TimerThread)
      BY <1>1, SameObjs DEF TimerEnter
    <2>2. BornTimers
      <3> SUFFICES ASSUME NEW o \in Objs, ~Born(o) PROVE ~timer'[o].initialized /\ ~timer'[o].pending /\
            ~timer'[o].due
        BY DEF BornTimers
      <3>1. ~timer[o].initialized /\ ~timer[o].pending /\ ~timer[o].due
        BY DEF BirthInv
      <3>2. \A x \in Objs : /\ timer'[x].initialized = timer[x].initialized /\ timer'[x].pending = timer[x].pending
                            /\ timer'[x].due => timer[x].due \/ (x \in Timers /\ timer[x].pending)
        BY <1>1, TimerEnterDoes, Zenon
      <3> QED
        BY <3>1, <3>2
    <2>3. BornCur(TimerThread)
      BY <1>1, <1>0, <1>t, SameCur DEF TimerEnter
    <2>4. CallsGo
      BY <1>1 DEF TimerEnter, CallsGo
    <2>5. BornLists(TimerThread)
      <3>1. TimerThread \notin Clients /\ group' = group
        BY <1>1, Kinds DEF TimerEnter
      <3> QED
        BY <1>0, <3>1, SameLists
    <2> QED
      BY <1>0, <2>1, <2>2, <2>3, <2>4, <2>5, BirthStep
  <1>2. CASE \E o \in Timers : TimerExpire(TimerThread, o)
    <2>0. PICK o \in Timers : TimerExpire(TimerThread, o)
      BY <1>2
    <2>1. BornObjs(TimerThread)
      BY <2>0, SameObjs DEF TimerExpire
    <2>2. BornTimers
      <3>1. o \in Objs /\ Born(o)
        BY <2>0, Kinds DEF TimerExpire, BirthInv
      <3>2. \A y \in Objs \ {o} : timer'[y] = timer[y]
        BY <2>0, TimerExpireDoes DEF TimerGoes
      <3> QED
        BY <3>1, <3>2, OneTimer
    <2>3. BornCur(TimerThread)
      <3>1. Born(o) /\ pc'[TimerThread] = "submit" /\ cur'[TimerThread] = o
        BY <2>0, <1>0, <1>t, Kinds DEF TimerExpire, BirthInv
      <3> QED
        BY <3>1 DEF BornCur
    <2>4. CallsGo
      BY <2>0 DEF TimerExpire, CallsGo
    <2>5. BornLists(TimerThread)
      BY <2>0, <1>0, SameLists DEF TimerExpire, Walking
    <2> QED
      BY <1>0, <2>1, <2>2, <2>3, <2>4, <2>5, BirthStep
  <1>3. CASE TimerSubmit(TimerThread)
    <2>1. BornObjs(TimerThread)
      <3>1. cur[TimerThread] \in Objs /\ Born(cur[TimerThread])
        BY <1>3, <1>0, CurBorn, Kinds DEF TimerSubmit, ThreadsInv, TimerThreadOK
      <3>2. (obj'[cur[TimerThread]].state = obj[cur[TimerThread]].state \/ obj'[cur[TimerThread]].state = "freed") /\
              \A y \in Objs \ {cur[TimerThread]} : obj'[y] = obj[y]
        BY <1>3, TimerSubmitDoes DEF ObjGoes
      <3> QED
        BY <3>1, <3>2, OneObj
    <2>2. BornTimers
      <3>1. cur[TimerThread] \in Objs /\ Born(cur[TimerThread])
        BY <1>3, <1>0, CurBorn, Kinds DEF TimerSubmit, ThreadsInv, TimerThreadOK
      <3>2. \A y \in Objs \ {cur[TimerThread]} : timer'[y] = timer[y]
        BY <1>3, TimerSubmitDoes DEF TimerGoes
      <3> QED
        BY <3>1, <3>2, OneTimer
    <2>3. BornCur(TimerThread)
      <3>1. cur'[TimerThread] = NoOne /\ pc'[TimerThread] = "scan" /\ pc[TimerThread] = "submit"
        BY <1>3, <1>0, <1>t, TimerSubmitDoes DEF TimerSubmit
      <3> QED
        BY <1>0, <3>1, SameCur
    <2>4. CallsGo
      BY <1>3 DEF TimerSubmit, CallsGo
    <2>5. BornLists(TimerThread)
      <3>1. TimerThread \notin Clients /\ group' = group
        BY <1>3, Kinds DEF TimerSubmit
      <3> QED
        BY <1>0, <3>1, SameLists
    <2> QED
      BY <1>0, <2>1, <2>2, <2>3, <2>4, <2>5, BirthStep
  <1>4. CASE TimerLeave(TimerThread)
    <2>1. BornObjs(TimerThread)
      BY <1>4, SameObjs DEF TimerLeave
    <2>2. BornTimers
      BY <1>4, SameTimers DEF TimerLeave
    <2>3. BornCur(TimerThread)
      BY <1>4, <1>0, <1>t, SameCur DEF TimerLeave
    <2>4. CallsGo
      BY <1>4 DEF TimerLeave, CallsGo
    <2>5. BornLists(TimerThread)
      BY <1>4, <1>0, SameLists DEF TimerLeave, Walking
    <2> QED
      BY <1>0, <2>1, <2>2, <2>3, <2>4, <2>5, BirthStep
  <1> QED
    BY <1>1, <1>2, <1>3, <1>4 DEF TimerStep

LEMMA LeaveBorn ==
  ASSUME TypesInv, BirthInv, NEW o \in Objs
  PROVE  ListBorn(LeaveGroup(o), TRUE)
  <1> DEFINE s == group.members
  <1>1. s \in Seq(Objs) /\ ListBorn(s, TRUE)
    BY DEF TypesInv, GroupRecords, BirthInv
  <1>2. CASE ~obj[o].member
    BY <1>1, <1>2 DEF LeaveGroup
  <1>3. CASE obj[o].member
    <2> DEFINE n == CHOOSE k \in 1..Len(s) : s[k] = o
               r == Unlink(s, o)
    <2>1. r = [k \in 1..(Len(s) - 1) |-> IF k < n THEN s[k] ELSE s[k + 1]]
      BY DEF Unlink
    <2>2. r \in Seq(Objs) /\ Len(s) \in Nat
      BY <1>1, UnlinkType
    <2> HIDE DEF n, r, s
    <2>3. \A k \in 1..Len(r) : \E j \in 1..Len(s) : r[k] = s[j]
      <3> SUFFICES ASSUME NEW k \in 1..Len(r) PROVE \E j \in 1..Len(s) : r[k] = s[j]
        OBVIOUS
      <3>1. DOMAIN r = 1..Len(r)
        BY <2>2
      <3>2. k \in 1..(Len(s) - 1)
        BY <2>1, <3>1
      <3>3. k \in 1..Len(s) /\ k + 1 \in 1..Len(s)
        BY <2>2, <3>2
      <3>4. r[k] = s[k] \/ r[k] = s[k + 1]
        BY <2>1, <3>2
      <3> QED
        BY <3>3, <3>4
    <2>4. ListBorn(r, TRUE)
      BY <1>1, <2>3 DEF ListBorn
    <2> QED
      BY <1>3, <2>4 DEF LeaveGroup, r, s
  <1> QED
    BY <1>2, <1>3

LEMMA ReleaseBirth ==
  ASSUME TypesInv, ThreadsInv, BirthInv, NEW t \in Clients \cup Workers, LastRelease(t)
  PROVE  BirthInv'
  <1>0. t \in Threads /\ TypesInv' /\ ThreadsInv' /\ Moved(t)
    BY ReleaseThreads, Kinds
  <1>t. pc \in [Threads -> Places] /\ cur \in [Threads -> Objs \cup {NoOne}] /\
          todo \in [Clients -> Seq(Objs \cup Steps)]
    BY DEF TypesInv
  <1>1. CASE Destroy(t)
    <2>1. BornObjs(t)
      <3>1. cur[t] \in Objs /\ Born(cur[t])
        BY <1>1, <1>0, DestroyCur, CurBorn DEF Destroy, Ending
      <3>2. (obj'[cur[t]].state = obj[cur[t]].state \/ obj'[cur[t]].state = "freed") /\
              \A y \in Objs \ {cur[t]} : obj'[y] = obj[y]
        BY <1>1, DestroyDoes DEF ObjGoes
      <3> QED
        BY <3>1, <3>2, OneObj
    <2>2. BornTimers
      BY <1>1, SameTimers DEF Destroy
    <2>3. BornCur(t)
      BY <1>1, <1>0, <1>t, SameCur DEF Destroy
    <2>4. CallsGo
      BY <1>1 DEF Destroy, CallsGo
    <2>5. BornLists(t)
      <3>1. todo' = todo
        BY <1>1 DEF Destroy
      <3>2. ListBorn(group'.members, TRUE)
        <4>1. group' = group \/ group'.members = LeaveGroup(cur[t])
          BY <1>1, DestroyDoes DEF GroupGoes
        <4>2. ListBorn(LeaveGroup(cur[t]), TRUE)
          BY <1>1, DestroyCur, LeaveBorn DEF Destroy, Ending
        <4> QED
          BY <4>1, <4>2 DEF BirthInv
      <3>3. ~Walking(t)
        BY <1>1 DEF Destroy, Walking
      <3>4. ~Walking(t)'
        BY <1>1, <1>0, <1>t DEF Destroy, Walking
      <3> QED
        BY <3>1, <3>2, <3>3, <3>4 DEF BornLists, BirthInv, ListBorn
    <2> QED
      BY <1>0, <2>1, <2>2, <2>3, <2>4, <2>5, BirthStep
  <1>2. CASE UnlockPool(t)
    <2>1. BornObjs(t)
      BY <1>2, SameObjs DEF UnlockPool
    <2>2. BornTimers
      BY <1>2, SameTimers DEF UnlockPool
    <2>3. BornCur(t)
      BY <1>2, <1>0, <1>t, SameCur DEF UnlockPool
    <2>4. CallsGo
      BY <1>2 DEF UnlockPool, CallsGo
    <2>5. BornLists(t)
      BY <1>2, <1>0, SameLists DEF UnlockPool, Walking
    <2> QED
      BY <1>0, <2>1, <2>2, <2>3, <2>4, <2>5, BirthStep
  <1>3. CASE FreeObject(t)
    <2>1. BornObjs(t)
      <3>1. cur[t] \in Objs /\ Born(cur[t])
        BY <1>3, <1>0, DestroyCur, CurBorn DEF FreeObject, Ending
      <3>2. (obj'[cur[t]].state = obj[cur[t]].state \/ obj'[cur[t]].state = "freed") /\
              \A y \in Objs \ {cur[t]} : obj'[y] = obj[y]
        BY <1>3, FreeObjectDoes DEF ObjGoes
      <3> QED
        BY <3>1, <3>2, OneObj
    <2>2. BornTimers
      BY <1>3, SameTimers DEF FreeObject
    <2>3. BornCur(t)
      <3>1. /\ t \in Workers => (cur'[t] = cur[t] \/ cur'[t] = NoOne) /\ pc'[t] # "pool_lock"
            /\ t \in Clients => After(t, todo[t]) /\ todo[t] \in Seq(Steps)
        BY <1>3, FreeObjectDoes
      <3>2. pc[t] # "pool_lock" /\ (t \in Workers => call' = call)
        BY <1>3 DEF FreeObject
      <3>3. t \in Clients => ListBorn(todo[t], FALSE)
        BY <1>3, NothingLeft DEF BirthInv, ListBorn, Walking, FreeObject
      <3>4. CASE t \in Workers
        BY <1>0, <3>1, <3>2, <3>4, SameCur
      <3>5. CASE t \in Clients
        BY <3>1, <3>3, <3>5, AfterBorn
      <3> QED
        BY <3>4, <3>5
    <2>4. CallsGo
      <3>1. /\ t \in Workers => (cur'[t] = cur[t] \/ cur'[t] = NoOne) /\ pc'[t] # "pool_lock"
            /\ t \in Clients => After(t, todo[t]) /\ todo[t] \in Seq(Steps)
        BY <1>3, FreeObjectDoes
      <3>2. pc[t] # "pool_lock" /\ (t \in Workers => call' = call)
        BY <1>3 DEF FreeObject
      <3>3. t \in Clients => ListBorn(todo[t], FALSE)
        BY <1>3, NothingLeft DEF BirthInv, ListBorn, Walking, FreeObject
      <3>4. CASE t \in Workers
        BY <3>2, <3>4 DEF CallsGo
      <3>5. CASE t \in Clients
        BY <3>1, <3>3, <3>5, AfterBorn
      <3> QED
        BY <3>4, <3>5
    <2>5. BornLists(t)
      <3>1. /\ t \in Workers => (cur'[t] = cur[t] \/ cur'[t] = NoOne) /\ pc'[t] # "pool_lock"
            /\ t \in Clients => After(t, todo[t]) /\ todo[t] \in Seq(Steps)
        BY <1>3, FreeObjectDoes
      <3>2. pc[t] # "pool_lock" /\ (t \in Workers => call' = call)
        BY <1>3 DEF FreeObject
      <3>3. t \in Clients => ListBorn(todo[t], FALSE)
        BY <1>3, NothingLeft DEF BirthInv, ListBorn, Walking, FreeObject
      <3>4. t \in Clients => ListBorn(todo'[t], Walking(t)')
        BY <3>1, <3>3, AfterBorn
      <3>5. group' = group
        BY <1>3 DEF FreeObject
      <3> QED
        BY <3>4, <3>5 DEF BornLists, BirthInv
    <2> QED
      BY <1>0, <2>1, <2>2, <2>3, <2>4, <2>5, BirthStep
  <1>4. CASE UnrefPool(t)
    <2>1. BornObjs(t)
      BY <1>4, SameObjs DEF UnrefPool
    <2>2. BornTimers
      BY <1>4, SameTimers DEF UnrefPool
    <2>3. BornCur(t)
      <3>1. /\ t \in Workers => (cur'[t] = cur[t] \/ cur'[t] = NoOne) /\ pc'[t] # "pool_lock"
            /\ t \in Clients => After(t, <<>>) /\ <<>> \in Seq(Steps)
        BY <1>4, UnrefPoolDoes
      <3>2. pc[t] # "pool_lock" /\ (t \in Workers => call' = call)
        BY <1>4 DEF UnrefPool
      <3>3. t \in Clients => ListBorn(<<>>, FALSE)
        BY <1>4, NothingLeft DEF BirthInv, ListBorn, Walking, UnrefPool
      <3>4. CASE t \in Workers
        BY <1>0, <3>1, <3>2, <3>4, SameCur
      <3>5. CASE t \in Clients
        BY <3>1, <3>3, <3>5, AfterBorn
      <3> QED
        BY <3>4, <3>5
    <2>4. CallsGo
      <3>1. /\ t \in Workers => (cur'[t] = cur[t] \/ cur'[t] = NoOne) /\ pc'[t] # "pool_lock"
            /\ t \in Clients => After(t, <<>>) /\ <<>> \in Seq(Steps)
        BY <1>4, UnrefPoolDoes
      <3>2. pc[t] # "pool_lock" /\ (t \in Workers => call' = call)
        BY <1>4 DEF UnrefPool
      <3>3. t \in Clients => ListBorn(<<>>, FALSE)
        BY <1>4, NothingLeft DEF BirthInv, ListBorn, Walking, UnrefPool
      <3>4. CASE t \in Workers
        BY <3>2, <3>4 DEF CallsGo
      <3>5. CASE t \in Clients
        BY <3>1, <3>3, <3>5, AfterBorn
      <3> QED
        BY <3>4, <3>5
    <2>5. BornLists(t)
      <3>1. /\ t \in Workers => (cur'[t] = cur[t] \/ cur'[t] = NoOne) /\ pc'[t] # "pool_lock"
            /\ t \in Clients => After(t, <<>>) /\ <<>> \in Seq(Steps)
        BY <1>4, UnrefPoolDoes
      <3>2. pc[t] # "pool_lock" /\ (t \in Workers => call' = call)
        BY <1>4 DEF UnrefPool
      <3>3. t \in Clients => ListBorn(<<>>, FALSE)
        BY <1>4, NothingLeft DEF BirthInv, ListBorn, Walking, UnrefPool
      <3>4. t \in Clients => ListBorn(todo'[t], Walking(t)')
        BY <3>1, <3>3, AfterBorn
      <3>5. group' = group
        BY <1>4 DEF UnrefPool
      <3> QED
        BY <3>4, <3>5 DEF BornLists, BirthInv
    <2> QED
      BY <1>0, <2>1, <2>2, <2>3, <2>4, <2>5, BirthStep
  <1> QED
    BY <1>1, <1>2, <1>3, <1>4 DEF LastRelease

LEMMA WalkBorn ==
  ASSUME TypesInv, ThreadsInv, BirthInv, NEW t \in Clients, pc[t] = "walk", todo[t] # <<>>
  PROVE  Head(todo[t]) \in Objs /\ Born(Head(todo[t])) /\ ListBorn(Tail(todo[t]), TRUE)
  <1>1. /\ todo[t] \in Seq(Objs \cup Steps) /\ Walking(t) /\ ListBorn(todo[t], Walking(t))
        /\ \A k \in 1..Len(todo[t]) : todo[t][k] \in Objs
    BY DEF TypesInv, BirthInv, ThreadsInv, WorkOK, Walking
  <1>2. /\ Len(todo[t]) \in Nat /\ Len(todo[t]) > 0 /\ Head(todo[t]) = todo[t][1] /\
             Len(Tail(todo[t])) = Len(todo[t]) - 1
        /\ \A k \in 1..(Len(todo[t]) - 1) : Tail(todo[t])[k] = todo[t][k + 1]
    BY <1>1, SeqFacts
  <1> QED
    BY <1>1, <1>2 DEF ListBorn

LEMMA LeavingBorn ==
  ASSUME TypesInv, BirthInv, NEW t
  PROVE  ListBorn(Leaving(t), FALSE)
  <1> DEFINE m == Len(group.members)
             s == Leaving(t)
  <1>1. group.members \in Seq(Objs) /\ ListBorn(group.members, TRUE)
    BY DEF TypesInv, GroupRecords, BirthInv
  <1>2. m \in Nat /\ \A k \in 1..m : Born(group.members[k])
    BY <1>1 DEF ListBorn
  <1>3. CASE ~call[t].cancel
    <2>1. Len(s) = m /\ \A k \in 1..m : s[k] = [do |-> "wait", obj |-> group.members[k]]
      BY <1>1, <1>3, LeavingFacts
    <2> HIDE DEF s, m
    <2> QED
      BY <1>2, <2>1 DEF ListBorn, s
  <1>4. CASE call[t].cancel
    <2>1. /\ Len(s) = m + m
          /\ \A k \in 1..m : /\ s[k] = [do |-> "cancel", obj |-> group.members[k]]
                             /\ s[m + k] = [do |-> "wait", obj |-> group.members[k]]
      BY <1>1, <1>4, LeavingFacts
    <2> HIDE DEF s, m
    <2>2. ASSUME NEW k \in 1..Len(s) PROVE Born(s[k].obj)
      <3>1. CASE k <= m
        <4>1. k \in 1..m
          BY <1>2, <2>1, <3>1
        <4>2. s[k] = [do |-> "cancel", obj |-> group.members[k]]
          BY <2>1, <4>1
        <4> QED
          BY <1>2, <4>1, <4>2
      <3>2. CASE k > m
        <4>1. k - m \in 1..m /\ m + (k - m) = k
          BY <1>2, <2>1, <3>2
        <4>2. s[k] = [do |-> "wait", obj |-> group.members[k - m]]
          BY <2>1, <4>1
        <4> QED
          BY <1>2, <4>1, <4>2
      <3> QED
        BY <1>2, <2>1, <3>1, <3>2
    <2> QED
      BY <2>2 DEF ListBorn, s
  <1> QED
    BY <1>3, <1>4

LEMMA ClientBirth ==
  ASSUME TypesInv, ThreadsInv, BirthInv, NEW t \in Clients, ClientStep(t)
  PROVE  BirthInv'
  <1>0. t \in Threads /\ TypesInv' /\ ThreadsInv' /\ Moved(t)
    BY ClientThreads, Kinds
  <1>t. pc \in [Threads -> Places] /\ cur \in [Threads -> Objs \cup {NoOne}] /\
          todo \in [Clients -> Seq(Objs \cup Steps)]
    BY DEF TypesInv
  <1>1. CASE PoolLock(t)
    <2>1. BornObjs(t)
      <3>1. pc[t] = "pool_lock" /\ cur[t] \in Objs
        BY <1>1, ClientCur DEF PoolLock
      <3>2. obj' = obj \/ (obj'[cur[t]].state = "live" /\ \A y \in Objs \ {cur[t]} : obj'[y] = obj[y])
        BY <1>1, PoolLockDoes DEF ObjGoes
      <3>3. CASE obj' = obj
        BY <3>3, SameObjs
      <3>4. CASE obj'[cur[t]].state = "live" /\ \A y \in Objs \ {cur[t]} : obj'[y] = obj[y]
        BY <3>1, <3>4 DEF BornObjs, Born
      <3> QED
        BY <3>2, <3>3, <3>4
    <2>2. BornTimers
      BY <1>1, SameTimers DEF PoolLock
    <2>3. BornCur(t) /\ ListBorn(todo'[t], Walking(t)') /\ CallsGo
      <3>1. CASE Alone(t) /\ Returns(t)
        BY <3>1, ReturnBorn
      <3>2. CASE obj'[cur[t]].state = "live" /\ UNCHANGED <<cur, todo, call>> /\ pc'[t] \in {"timer_lock", "submit",
                   "init"}
        BY <1>1, <3>2 DEF BornCur, CallsGo, BirthInv, PoolLock, Walking, ListBorn
      <3>3. \/ Alone(t) /\ Returns(t)
            \/ obj'[cur[t]].state = "live" /\ UNCHANGED <<cur, todo, call>> /\ pc'[t] \in {"timer_lock", "submit",
                 "init"}
        BY <1>1, PoolLockDoes DEF ObjGoes, Stays
      <3> QED
        BY <3>1, <3>2, <3>3
    <2>4. ListBorn(group'.members, TRUE)
      BY <1>1 DEF PoolLock, BirthInv
    <2>5. BornLists(t)
      BY <2>3, <2>4 DEF BornLists
    <2> QED
      BY <1>0, <2>1, <2>2, <2>3, <2>4, <2>5, BirthStep
  <1>2. CASE TimerLock(t)
    <2>1. BornObjs(t)
      BY <1>2, SameObjs DEF TimerLock
    <2>2. BornTimers
      <3>1. cur[t] \in Objs /\ Born(cur[t])
        BY <1>2, <1>0, ClientCur, CurBorn DEF TimerLock
      <3>2. \A y \in Objs \ {cur[t]} : timer'[y] = timer[y]
        BY <1>2, TimerLockDoes DEF TimerGoes
      <3> QED
        BY <3>1, <3>2, OneTimer
    <2>3. BornCur(t)
      <3>1. cur'[t] = cur[t] /\ pc'[t] = "init" /\ pc[t] = "timer_lock"
        BY <1>2, <1>0, <1>t, Kinds DEF TimerLock
      <3> QED
        BY <1>0, <3>1, SameCur
    <2>4. CallsGo
      BY <1>2 DEF TimerLock, CallsGo
    <2>5. BornLists(t)
      <3>1. todo' = todo /\ group' = group /\ ~Walking(t)
        BY <1>2 DEF TimerLock, Walking
      <3>2. ~Walking(t)'
        BY <1>2, <1>0, <1>t, Kinds, TimerLockDoes DEF TimerLock, Walking
      <3> QED
        BY <1>0, <3>1, <3>2, SameLists
    <2> QED
      BY <1>0, <2>1, <2>2, <2>3, <2>4, <2>5, BirthStep
  <1>3. CASE Initialize(t)
    <2>1. BornObjs(t)
      <3>1. cur[t] \in Objs /\ Born(cur[t])
        BY <1>3, <1>0, ClientCur, CurBorn DEF Initialize
      <3>2. obj' = obj \/ (obj'[cur[t]].state = obj[cur[t]].state /\ \A y \in Objs \ {cur[t]} : obj'[y] = obj[y])
        BY <1>3, InitializeDoes DEF ObjGoes
      <3> QED
        BY <3>1, <3>2, OneObj, SameObjs
    <2>2. BornTimers
      BY <1>3, SameTimers DEF Initialize
    <2>3. BornCur(t) /\ ListBorn(todo'[t], Walking(t)') /\ CallsGo
      <3>0. Alone(t) /\ pc[t] # "pool_lock" /\ ~Walking(t)
        BY <1>3, InitializeDoes DEF Initialize, Walking
      <3>1. CASE cur[t] \in Simples
        <4>1. Stays(t, "drop")
          BY <1>3, <3>1, InitializeDoes
        <4> QED
          BY <3>0, <4>1, StayBorn
      <3>2. CASE cur[t] \notin Simples
        <4>1. Returns(t)
          BY <1>3, <3>2, InitializeDoes
        <4> QED
          BY <3>0, <4>1, ReturnBorn
      <3> QED
        BY <3>1, <3>2
    <2>4. ListBorn(group'.members, TRUE)
      <3>1. cur[t] \in Objs /\ Born(cur[t])
        BY <1>3, <1>0, ClientCur, CurBorn DEF Initialize
      <3>2. group.members \in Seq(Objs) /\ ListBorn(group.members, TRUE)
        BY DEF TypesInv, GroupRecords, BirthInv
      <3>3. group' = group \/ group'.members = Append(group.members, cur[t])
        BY <1>3, InitializeDoes DEF GroupGoes
      <3>4. ListBorn(Append(group.members, cur[t]), TRUE)
        <4> DEFINE s == group.members
                   r == Append(s, cur[t])
        <4>1. Len(s) \in Nat /\ Len(r) = Len(s) + 1 /\ r[Len(s) + 1] = cur[t] /\ \A k \in 1..Len(s) : r[k] = s[k]
          BY <3>1, <3>2
        <4> QED
          BY <3>1, <3>2, <4>1 DEF ListBorn
      <3> QED
        BY <3>2, <3>3, <3>4
    <2>5. BornLists(t)
      BY <2>3, <2>4 DEF BornLists
    <2> QED
      BY <1>0, <2>1, <2>2, <2>3, <2>4, <2>5, BirthStep
  <1>4. CASE PostWork(t)
    <2>1. BornObjs(t)
      <3>1. cur[t] \in Objs /\ Born(cur[t])
        BY <1>4, <1>0, ClientCur, CurBorn DEF PostWork
      <3>2. (obj'[cur[t]].state = obj[cur[t]].state \/ obj'[cur[t]].state = "freed") /\
              \A y \in Objs \ {cur[t]} : obj'[y] = obj[y]
        BY <1>4, PostWorkDoes DEF ObjGoes
      <3> QED
        BY <3>1, <3>2, OneObj
    <2>2. BornTimers
      BY <1>4, SameTimers DEF PostWork
    <2>3. BornCur(t)
      <3>1. (cur'[t] = cur[t] \/ cur'[t] = NoOne) /\ pc'[t] \in {"init", "idle"} /\ pc[t] = "submit"
        BY <1>4, <1>0, <1>t, PostWorkDoes DEF PostWork
      <3> QED
        BY <1>0, <3>1, SameCur
    <2>4. CallsGo
      BY <1>4 DEF PostWork, CallsGo
    <2>5. BornLists(t)
      <3>1. todo' = todo /\ group' = group /\ ~Walking(t)
        BY <1>4 DEF PostWork, Walking
      <3>2. ~Walking(t)'
        BY <1>4, <1>0, <1>t, Kinds, PostWorkDoes DEF PostWork, Walking
      <3> QED
        BY <1>0, <3>1, <3>2, SameLists
    <2> QED
      BY <1>0, <2>1, <2>2, <2>3, <2>4, <2>5, BirthStep
  <1>5. CASE TpSetTimer(t)
    <2>1. BornObjs(t)
      BY <1>5, SameObjs DEF TpSetTimer
    <2>2. BornTimers
      <3>1. cur[t] \in Objs /\ Born(cur[t])
        BY <1>5, <1>0, ClientCur, CurBorn DEF TpSetTimer
      <3>2. \A y \in Objs \ {cur[t]} : timer'[y] = timer[y]
        BY <1>5, TpSetTimerDoes DEF TimerGoes
      <3> QED
        BY <3>1, <3>2, OneTimer
    <2>3. BornCur(t) /\ ListBorn(todo'[t], Walking(t)') /\ CallsGo
      <3>0. Alone(t) /\ pc[t] # "pool_lock" /\ ~Walking(t)
        BY <1>5, TpSetTimerDoes DEF TpSetTimer, Walking
      <3>1. CASE call[t].n = 0
        <4>1. Stays(t, "submit")
          BY <1>5, <3>1, TpSetTimerDoes
        <4> QED
          BY <3>0, <4>1, StayBorn
      <3>2. CASE call[t].n # 0
        <4>1. Returns(t)
          BY <1>5, <3>2, TpSetTimerDoes
        <4> QED
          BY <3>0, <4>1, ReturnBorn
      <3> QED
        BY <3>1, <3>2
    <2>4. ListBorn(group'.members, TRUE)
      BY <1>5 DEF TpSetTimer, BirthInv
    <2>5. BornLists(t)
      BY <2>3, <2>4 DEF BornLists
    <2> QED
      BY <1>0, <2>1, <2>2, <2>3, <2>4, <2>5, BirthStep
  <1>6. CASE Cancel(t)
    <2>1. BornObjs(t)
      <3>1. cur[t] \in Objs /\ Born(cur[t])
        BY <1>6, <1>0, ClientCur, CurBorn DEF Cancel
      <3>2. (obj'[cur[t]].state = obj[cur[t]].state \/ obj'[cur[t]].state = "freed") /\
              \A y \in Objs \ {cur[t]} : obj'[y] = obj[y]
        BY <1>6, CancelDoes DEF ObjGoes
      <3> QED
        BY <3>1, <3>2, OneObj
    <2>2. BornTimers
      BY <1>6, SameTimers DEF Cancel
    <2>3. BornCur(t) /\ ListBorn(todo'[t], Walking(t)') /\ CallsGo
      <3>0. Alone(t) /\ pc[t] # "pool_lock" /\ ~Walking(t)
        BY <1>6, CancelDoes DEF Cancel, Walking
      <3>1. CASE call[t].fn # "members"
        <4>1. Stays(t, "wait")
          BY <1>6, <3>1, CancelDoes
        <4> QED
          BY <3>0, <4>1, StayBorn
      <3>2. CASE call[t].fn = "members"
        <4>1. After(t, todo[t]) /\ todo[t] \in Seq(Steps) /\ ListBorn(todo[t], FALSE)
          BY <1>6, <3>0, <3>2, CancelDoes DEF BirthInv, ListBorn
        <4> QED
          BY <4>1, AfterBorn
      <3> QED
        BY <3>1, <3>2
    <2>4. ListBorn(group'.members, TRUE)
      BY <1>6 DEF Cancel, BirthInv
    <2>5. BornLists(t)
      BY <2>3, <2>4 DEF BornLists
    <2> QED
      BY <1>0, <2>1, <2>2, <2>3, <2>4, <2>5, BirthStep
  <1>7. CASE Wait(t)
    <2>1. BornObjs(t)
      BY <1>7, SameObjs DEF Wait
    <2>2. BornTimers
      BY <1>7, SameTimers DEF Wait
    <2>3. BornCur(t) /\ ListBorn(todo'[t], Walking(t)') /\ CallsGo
      <3>0. Alone(t) /\ pc[t] # "pool_lock" /\ ~Walking(t)
        BY <1>7, WaitDoes DEF Wait, Walking
      <3>1. CASE ~IsFinished(obj[cur[t]], call[t].fn = "members")
        <4>1. Stays(t, "sleep")
          BY <1>7, <3>1, WaitDoes
        <4> QED
          BY <3>0, <4>1, StayBorn
      <3>2. CASE IsFinished(obj[cur[t]], call[t].fn = "members") /\ call[t].fn = "members"
        <4>1. Stays(t, "done")
          BY <1>7, <3>2, WaitDoes
        <4> QED
          BY <3>0, <4>1, StayBorn
      <3>3. CASE IsFinished(obj[cur[t]], call[t].fn = "members") /\ call[t].fn # "members"
        <4>1. Returns(t)
          BY <1>7, <3>3, WaitDoes
        <4> QED
          BY <3>0, <4>1, ReturnBorn
      <3> QED
        BY <3>1, <3>2, <3>3
    <2>4. ListBorn(group'.members, TRUE)
      BY <1>7 DEF Wait, BirthInv
    <2>5. BornLists(t)
      BY <2>3, <2>4 DEF BornLists
    <2> QED
      BY <1>0, <2>1, <2>2, <2>3, <2>4, <2>5, BirthStep
  <1>8. CASE TimerUnlock(t)
    <2>1. BornObjs(t)
      BY <1>8, SameObjs DEF TimerUnlock
    <2>2. BornTimers
      <3>1. cur[t] \in Objs /\ Born(cur[t])
        BY <1>8, <1>0, ClientCur, CurBorn DEF TimerUnlock
      <3>2. \A y \in Objs \ {cur[t]} : timer'[y] = timer[y]
        BY <1>8, TimerUnlockDoes DEF TimerGoes
      <3> QED
        BY <3>1, <3>2, OneTimer
    <2>3. BornCur(t)
      BY <1>8, <1>0, <1>t, SameCur DEF TimerUnlock
    <2>4. CallsGo
      BY <1>8 DEF TimerUnlock, CallsGo
    <2>5. BornLists(t)
      BY <1>8, <1>0, SameLists DEF TimerUnlock, Walking
    <2> QED
      BY <1>0, <2>1, <2>2, <2>3, <2>4, <2>5, BirthStep
  <1>9. CASE Drop(t)
    <2>1. BornObjs(t)
      <3>1. cur[t] \in Objs /\ Born(cur[t])
        BY <1>9, <1>0, ClientCur, CurBorn DEF Drop
      <3>2. (obj'[cur[t]].state = obj[cur[t]].state \/ obj'[cur[t]].state = "freed") /\
              \A y \in Objs \ {cur[t]} : obj'[y] = obj[y]
        BY <1>9, DropDoes DEF ObjGoes
      <3> QED
        BY <3>1, <3>2, OneObj
    <2>2. BornTimers
      BY <1>9, SameTimers DEF Drop
    <2>3. BornCur(t) /\ ListBorn(todo'[t], Walking(t)') /\ CallsGo
      <3>0. Alone(t) /\ pc[t] # "pool_lock" /\ ~Walking(t)
        BY <1>9, DropDoes DEF Drop, Walking
      <3>1. CASE obj[cur[t]].ref = 1
        <4>1. Stays(t, "destroy")
          BY <1>9, <3>1, DropDoes
        <4> QED
          BY <3>0, <4>1, StayBorn
      <3>2. CASE obj[cur[t]].ref # 1
        <4>1. After(t, todo[t]) /\ todo[t] \in Seq(Steps) /\ ListBorn(todo[t], FALSE)
          BY <1>9, <3>0, <3>2, DropDoes DEF BirthInv, ListBorn
        <4> QED
          BY <4>1, AfterBorn
      <3> QED
        BY <3>1, <3>2
    <2>4. ListBorn(group'.members, TRUE)
      BY <1>9 DEF Drop, BirthInv
    <2>5. BornLists(t)
      BY <2>3, <2>4 DEF BornLists
    <2> QED
      BY <1>0, <2>1, <2>2, <2>3, <2>4, <2>5, BirthStep
  <1>10. CASE Members(t)
    <2>1. BornObjs(t)
      BY <1>10, SameObjs DEF Members
    <2>2. BornTimers
      BY <1>10, SameTimers DEF Members
    <2>3. BornCur(t)
      BY <1>10, <1>0, <1>t, SameCur DEF Members
    <2>4. CallsGo
      BY <1>10 DEF Members, CallsGo
    <2>5. BornLists(t)
      <3>1. todo'[t] = group.members /\ group' = group
        BY <1>10, <1>t DEF Members
      <3>2. Walking(t)'
        BY <1>10, <1>0, <1>t DEF Members, Walking
      <3> QED
        BY <3>1, <3>2 DEF BornLists, BirthInv, ListBorn
    <2> QED
      BY <1>0, <2>1, <2>2, <2>3, <2>4, <2>5, BirthStep
  <1>11. CASE MemberStep(t)
    <2>1. BornObjs(t)
      <3>1. Head(todo[t]) \in Objs /\ Born(Head(todo[t]))
        BY <1>11, WalkBorn DEF MemberStep
      <3>2. obj'[Head(todo[t])].state = obj[Head(todo[t])].state /\ \A y \in Objs \ {Head(todo[t])} : obj'[y] = obj[y]
        BY <1>11, MemberStepDoes DEF ObjGoes
      <3> QED
        BY <3>1, <3>2, OneObj
    <2>2. BornTimers
      BY <1>11, SameTimers DEF MemberStep
    <2>3. BornCur(t) /\ ListBorn(todo'[t], Walking(t)') /\ CallsGo
      <3>1. Head(todo[t]) \in Objs /\ Born(Head(todo[t])) /\ ListBorn(Tail(todo[t]), TRUE)
        BY <1>11, WalkBorn DEF MemberStep
      <3>2. /\ Alone(t) /\ call'[t] = call[t] /\ todo'[t] = Tail(todo[t]) /\ pc'[t] \in {"walk", "walk_timer"} /\
                 pc[t] = "walk"
            /\ cur'[t] = cur[t] \/ cur'[t] = Head(todo[t])
        BY <1>11, MemberStepDoes DEF MemberStep
      <3>3. BornCur(t)
        BY <1>0, <3>1, <3>2 DEF BornCur, BirthInv
      <3>4. Walking(t)'
        BY <3>2 DEF Walking
      <3> QED
        BY <3>1, <3>2, <3>3, <3>4 DEF CallsGo, Alone, ListBorn
    <2>4. ListBorn(group'.members, TRUE)
      <3>1. Head(todo[t]) \in Objs
        BY <1>11, WalkBorn DEF MemberStep
      <3>2. group' = group \/ group'.members = LeaveGroup(Head(todo[t]))
        BY <1>11, MemberStepDoes DEF GroupGoes
      <3> QED
        BY <3>1, <3>2, LeaveBorn DEF BirthInv
    <2>5. BornLists(t)
      BY <2>3, <2>4 DEF BornLists
    <2> QED
      BY <1>0, <2>1, <2>2, <2>3, <2>4, <2>5, BirthStep
  <1>12. CASE MemberTimer(t)
    <2>1. BornObjs(t)
      BY <1>12, SameObjs DEF MemberTimer
    <2>2. BornTimers
      <3>1. cur[t] \in Objs /\ Born(cur[t])
        BY <1>12, <1>0, ClientCur, CurBorn DEF MemberTimer
      <3>2. \A y \in Objs \ {cur[t]} : timer'[y] = timer[y]
        BY <1>12, MemberTimerDoes DEF TimerGoes
      <3> QED
        BY <3>1, <3>2, OneTimer
    <2>3. BornCur(t)
      BY <1>12, <1>0, <1>t, SameCur DEF MemberTimer
    <2>4. CallsGo
      BY <1>12 DEF MemberTimer, CallsGo
    <2>5. BornLists(t)
      BY <1>12, <1>0, SameLists DEF MemberTimer, Walking
    <2> QED
      BY <1>0, <2>1, <2>2, <2>3, <2>4, <2>5, BirthStep
  <1>13. CASE MembersLeave(t)
    <2>1. BornObjs(t)
      BY <1>13, SameObjs DEF MembersLeave
    <2>2. BornTimers
      BY <1>13, SameTimers DEF MembersLeave
    <2>3. BornCur(t) /\ ListBorn(todo'[t], Walking(t)') /\ CallsGo
      <3>1. Leaving(t) \in Seq(Steps) /\ After(t, Leaving(t))
        BY <1>13, MembersLeaveDoes
      <3>2. ListBorn(Leaving(t), FALSE)
        BY LeavingBorn
      <3> QED
        BY <3>1, <3>2, AfterBorn
    <2>4. ListBorn(group'.members, TRUE)
      <3>1. group'.members = <<>>
        BY <1>13, MembersLeaveDoes DEF GroupGoes
      <3> QED
        BY <3>1, NothingLeft DEF ListBorn
    <2>5. BornLists(t)
      BY <2>3, <2>4 DEF BornLists
    <2> QED
      BY <1>0, <2>1, <2>2, <2>3, <2>4, <2>5, BirthStep
  <1>14. CASE MemberDone(t)
    <2>1. BornObjs(t)
      <3>1. cur[t] \in Objs /\ Born(cur[t])
        BY <1>14, <1>0, ClientCur, CurBorn DEF MemberDone
      <3>2. (obj'[cur[t]].state = obj[cur[t]].state \/ obj'[cur[t]].state = "freed") /\
              \A y \in Objs \ {cur[t]} : obj'[y] = obj[y]
        BY <1>14, MemberDoneDoes DEF ObjGoes
      <3> QED
        BY <3>1, <3>2, OneObj
    <2>2. BornTimers
      BY <1>14, SameTimers DEF MemberDone
    <2>3. BornCur(t) /\ ListBorn(todo'[t], Walking(t)') /\ CallsGo
      <3>0. Alone(t) /\ pc[t] # "pool_lock" /\ ~Walking(t)
        BY <1>14, MemberDoneDoes DEF MemberDone, Walking
      <3>1. CASE obj[cur[t]].ref = (IF obj[cur[t]].shutdown \/ cur[t] \in Simples THEN 1 ELSE 2)
        <4>1. Stays(t, "destroy")
          BY <1>14, <3>1, MemberDoneDoes
        <4> QED
          BY <3>0, <4>1, StayBorn
      <3>2. CASE obj[cur[t]].ref # (IF obj[cur[t]].shutdown \/ cur[t] \in Simples THEN 1 ELSE 2)
        <4>1. After(t, todo[t]) /\ todo[t] \in Seq(Steps) /\ ListBorn(todo[t], FALSE)
          BY <1>14, <3>0, <3>2, MemberDoneDoes DEF BirthInv, ListBorn
        <4> QED
          BY <4>1, AfterBorn
      <3> QED
        BY <3>1, <3>2
    <2>4. ListBorn(group'.members, TRUE)
      BY <1>14 DEF MemberDone, BirthInv
    <2>5. BornLists(t)
      BY <2>3, <2>4 DEF BornLists
    <2> QED
      BY <1>0, <2>1, <2>2, <2>3, <2>4, <2>5, BirthStep
  <1>15. CASE TpReleaseCleanupGroup(t)
    <2>1. BornObjs(t)
      BY <1>15, SameObjs DEF TpReleaseCleanupGroup
    <2>2. BornTimers
      BY <1>15, SameTimers DEF TpReleaseCleanupGroup
    <2>3. BornCur(t) /\ ListBorn(todo'[t], Walking(t)') /\ CallsGo
      <3>1. Alone(t) /\ Returns(t)
        BY <1>15, TpReleaseCleanupGroupDoes
      <3> QED
        BY <3>1, ReturnBorn
    <2>4. ListBorn(group'.members, TRUE)
      BY <1>15, TpReleaseCleanupGroupDoes DEF GroupGoes, BirthInv
    <2>5. BornLists(t)
      BY <2>3, <2>4 DEF BornLists
    <2> QED
      BY <1>0, <2>1, <2>2, <2>3, <2>4, <2>5, BirthStep
  <1>16. CASE TpReleasePool(t)
    <2>1. BornObjs(t)
      BY <1>16, SameObjs DEF TpReleasePool
    <2>2. BornTimers
      BY <1>16, SameTimers DEF TpReleasePool
    <2>3. BornCur(t)
      <3>1. cur' = cur /\ pc'[t] = "unref" /\ pc[t] = "close_pool"
        BY <1>16, TpReleasePoolDoes DEF TpReleasePool
      <3> QED
        BY <1>0, <3>1, SameCur
    <2>4. CallsGo
      BY <1>16 DEF TpReleasePool, CallsGo
    <2>5. BornLists(t)
      <3>1. todo' = todo /\ group' = group /\ ~Walking(t)
        BY <1>16 DEF TpReleasePool, Walking
      <3>2. ~Walking(t)'
        BY <1>16, <1>0, <1>t, Kinds, TpReleasePoolDoes DEF TpReleasePool, Walking
      <3> QED
        BY <1>0, <3>1, <3>2, SameLists
    <2> QED
      BY <1>0, <2>1, <2>2, <2>3, <2>4, <2>5, BirthStep
  <1>17. CASE TpSetPoolMaxThreads(t)
    <2>1. BornObjs(t)
      BY <1>17, SameObjs DEF TpSetPoolMaxThreads
    <2>2. BornTimers
      BY <1>17, SameTimers DEF TpSetPoolMaxThreads
    <2>3. BornCur(t) /\ ListBorn(todo'[t], Walking(t)') /\ CallsGo
      <3>1. Alone(t) /\ Returns(t)
        BY <1>17, TpSetPoolMaxThreadsDoes
      <3> QED
        BY <3>1, ReturnBorn
    <2>4. ListBorn(group'.members, TRUE)
      BY <1>17 DEF TpSetPoolMaxThreads, BirthInv
    <2>5. BornLists(t)
      BY <2>3, <2>4 DEF BornLists
    <2> QED
      BY <1>0, <2>1, <2>2, <2>3, <2>4, <2>5, BirthStep
  <1>18. CASE TpSetPoolMinThreads(t)
    <2>1. BornObjs(t)
      BY <1>18, SameObjs DEF TpSetPoolMinThreads
    <2>2. BornTimers
      BY <1>18, SameTimers DEF TpSetPoolMinThreads
    <2>3. BornCur(t)
      <3>1. cur'[t] = NoOne /\ pc'[t] = "idle" /\ pc[t] = "min"
        BY <1>18, <1>0, <1>t, TpSetPoolMinThreadsDoes DEF TpSetPoolMinThreads
      <3> QED
        BY <1>0, <3>1, SameCur
    <2>4. CallsGo
      BY <1>18 DEF TpSetPoolMinThreads, CallsGo
    <2>5. BornLists(t)
      BY <1>18, <1>0, SameLists DEF TpSetPoolMinThreads, Walking
    <2> QED
      BY <1>0, <2>1, <2>2, <2>3, <2>4, <2>5, BirthStep
  <1> QED
    BY <1>1, <1>2, <1>3, <1>4, <1>5, <1>6, <1>7, <1>8, <1>9, <1>10, <1>11, <1>12, <1>13, <1>14, <1>15, <1>16, <1>17,
         <1>18 DEF ClientStep

LEMMA BeginBirth ==
  ASSUME TypesInv, ThreadsInv, BirthInv, NEW t \in Clients, Begin(t)
  PROVE  BirthInv'
  <1> DEFINE c == Head(script[t])
  <1>0. /\ PlaceOK(t) /\ WorkOK(t) /\ t \in Threads /\ script[t] \in Seq(Calls) /\ script[t] # <<>>
        /\ pc \in [Threads -> Places] /\ cur \in [Threads -> Objs \cup {NoOne}] /\
             call \in [Clients -> Calls \cup {NoCall}]
    BY Kinds DEF ThreadsInv, TypesInv, Begin
  <1>1. c \in Calls
    BY <1>0
  <1>2. /\ pc' = [pc EXCEPT ![t] = FirstStep(c)] /\ cur' = [cur EXCEPT ![t] = c.obj] /\ call' = [call EXCEPT ![t] = c]
        /\ todo' = todo /\ obj' = obj /\ timer' = timer /\ group' = group /\ pc[t] = "idle" /\ May(c)
    BY DEF Begin
  <1>3. todo[t] = <<>>
    BY <1>0, <1>2 DEF PlaceOK, WorkOK
  <1> HIDE DEF c
  <1>4. c.fn \in {"alloc", "simple", "post", "set", "wait", "release", "members", "close_group", "close_pool", "max",
          "min"}
    BY <1>1 DEF Calls
  <1>5. c.fn \in {"alloc", "simple"} => ~Born(c.obj) /\ FirstStep(c) = "pool_lock" /\
          \A u \in Clients : call[u].obj # c.obj
    BY <1>2 DEF May, Born, FirstStep, InCall
  <1>6. c.fn \in {"post", "set", "wait", "release"} =>
           /\ Born(c.obj) /\ FirstStep(c) # "pool_lock" /\ c.obj \notin Simples
           /\ \A u \in Clients : ~(call[u].obj = c.obj /\ call[u].fn = "alloc")
    <2>1. c.fn \in {"post", "set", "wait", "release"} => Open(c.obj)
      BY <1>2 DEF May
    <2>2. c.fn \in {"post", "set", "wait", "release"} => FirstStep(c) # "pool_lock"
      BY DEF FirstStep
    <2> QED
      BY <2>1, <2>2 DEF Open, Born, InCall
  <1>7. c.fn \in {"members", "close_group", "close_pool", "max", "min"} => c.obj \notin Objs /\
          FirstStep(c) # "pool_lock"
    BY <1>1, Kinds DEF Calls, FirstStep
  <1>8. \A o \in Objs : ~Born(o)' => /\ obj'[o].pending = 0 /\ obj'[o].running = 0
                                     /\ ~timer'[o].initialized /\ ~timer'[o].pending /\ ~timer'[o].due
    BY <1>2 DEF BirthInv, Born
  <1>9. ASSUME NEW u \in Threads, cur'[u] \in Objs PROVE (Born(cur[u]) <=> pc[u] # "pool_lock")'
    <2>1. CASE u = t
      <3>1. pc'[u] = FirstStep(c) /\ cur'[u] = c.obj
        BY <1>0, <1>2, <2>1
      <3> QED
        BY <1>2, <1>4, <1>5, <1>6, <1>7, <1>9, <3>1 DEF Born
    <2>2. CASE u # t
      <3>1. pc'[u] = pc[u] /\ cur'[u] = cur[u]
        BY <1>0, <1>2, <2>2
      <3> QED
        BY <1>2, <1>9, <3>1 DEF Born, BirthInv
    <2> QED
      BY <2>1, <2>2
  <1>10. ASSUME NEW u \in Clients PROVE ListBorn(todo[u], Walking(u))'
    <2>1. CASE u = t
      BY <1>2, <1>3, <2>1, NothingLeft DEF ListBorn
    <2>2. CASE u # t
      <3>1. pc'[u] = pc[u]
        BY <1>0, <1>2, <2>2, Kinds
      <3> QED
        BY <1>2, <3>1 DEF ListBorn, Born, Walking, BirthInv
    <2> QED
      BY <2>1, <2>2
  <1>11. ListBorn(group.members, TRUE)'
    BY <1>2 DEF ListBorn, Born, BirthInv
  <1>12. ASSUME NEW u \in Clients, NEW v \in Clients, Allocates(u)', call'[v].obj = call'[u].obj PROVE v = u
    <2>1. /\ call'[t] = c
          /\ u # t => call'[u] = call[u]
          /\ v # t => call'[v] = call[v]
      BY <1>0, <1>2
    <2>2. CASE u # t /\ v # t
      BY <1>12, <2>1, <2>2 DEF Allocates, BirthInv
    <2>3. CASE u = t /\ v # t
      BY <1>5, <1>12, <2>1, <2>3 DEF Allocates
    <2>4. CASE u # t /\ v = t
      <3>1. call[u].fn \in {"alloc", "simple"} /\ c.obj = call[u].obj
        BY <1>12, <2>1, <2>4 DEF Allocates
      <3>2. call[u] \in Calls
        BY <1>0, <3>1 DEF NoCall
      <3>3. call[u].obj \in Objs /\ (call[u].fn = "simple" => call[u].obj \in Simples)
        BY <3>1, <3>2, Kinds DEF Calls
      <3> QED
        BY <1>4, <1>5, <1>6, <1>7, <3>1, <3>3
    <2> QED
      BY <2>2, <2>3, <2>4
  <1> QED
    BY <1>8, <1>9, <1>10, <1>11, <1>12 DEF BirthInv

-----------------------------------------------------------------------------
(* Every step keeps QueueInv and CountInv.                                 *)

QueueLength == Len(queue[1]) + Len(queue[2]) + Len(queue[3])

\* The step leaves the lists and the callbacks alone.
Plain(t) ==
    /\ queue' = queue /\ pool'.busy = pool.busy
    /\ \A o \in Objs : obj'[o].pending = obj[o].pending /\ obj'[o].running = obj[o].running
    /\ t \in Workers => /\ pc[t] = "callback" <=> pc'[t] = "callback"
                        /\ pc[t] = "callback" => cur'[t] = cur[t]
                        /\ pc'[t] = "rest" => ~HasItem
\* t itself stays employed, or unemployed.
Tenured(t) == t \in Workers => (pc[t] \in {"none", "unref"} <=> pc'[t] \in {"none", "unref"})
Staffs(t) ==
    /\ Tenured(t)
    /\ \/ pool'.workers = pool.workers /\ Unhired(t)
       \/ pool'.workers = pool.workers + 1 /\ \E w \in Workers : Hired(t, w)

LEMMA RestStays ==
  ASSUME QueueInv, NEW t \in Threads, Moved(t), t \in Workers /\ pc'[t] = "rest" => ~HasItem
  PROVE  \A w \in Workers : pc'[w] = "rest" => ~HasItem
  <1> SUFFICES ASSUME NEW w \in Workers, pc'[w] = "rest" PROVE ~HasItem
    OBVIOUS
  <1>1. CASE w = t
    BY <1>1
  <1>2. CASE w # t
    <2>1. pc[w] = "rest"
      BY <1>2, Kinds DEF Moved, Drift
    <2> QED
      BY <2>1 DEF QueueInv
  <1> QED
    BY <1>1, <1>2

LEMMA PlainQueue ==
  ASSUME TypesInv, QueueInv, NEW t \in Threads, Moved(t), Plain(t)
  PROVE  QueueInv'
  <1>1. queue' = queue /\ \A o \in Objs : obj'[o].pending = obj[o].pending
    BY DEF Plain
  <1>2. \A w \in Workers : pc'[w] = "rest" => ~HasItem'
    BY <1>1, RestStays DEF Plain, HasItem
  <1>3. queue \in [1..3 -> Seq(Objs)]
    BY DEF TypesInv
  <1>4. ASSUME NEW p \in 1..3 PROVE QueueOK(p)'
    <2>1. QueueOK(p) /\ queue[p] \in Seq(Objs)
      BY <1>3 DEF QueueInv
    <2>2. \A k \in 1..Len(queue[p]) : queue[p][k] \in Objs
      BY <2>1
    <2> QED
      BY <1>1, <2>1, <2>2 DEF QueueOK
  <1>5. \A o \in Objs : obj'[o].pending >= 0 /\ (obj'[o].pending > 0 => Among(o, queue'[Priority[o]]))
    BY <1>1 DEF QueueInv
  <1> QED
    BY <1>2, <1>4, <1>5 DEF QueueInv

\* The list of o becomes s.
LEMMA QueueChange ==
  ASSUME TypesInv, QueueInv, NEW o \in Objs, NEW s \in Seq(Objs), queue' = [queue EXCEPT ![Priority[o]] = s],
         \A x \in Objs \ {o} : obj'[x].pending = obj[x].pending, obj'[o].pending >= 0, Distinct(s),
         \A x : x # o => (Among(x, s) <=> Among(x, queue[Priority[o]])),
         obj'[o].pending > 0 <=> Among(o, s), \A w \in Workers : pc'[w] # "rest"
  PROVE  QueueInv'
  <1>1. queue \in [1..3 -> Seq(Objs)] /\ Priority \in [Objs -> 1..3]
    BY Kinds DEF TypesInv
  <1>2. queue'[Priority[o]] = s /\ \A p \in 1..3 : p # Priority[o] => queue'[p] = queue[p]
    BY <1>1
  <1>3. ASSUME NEW p \in 1..3, NEW k \in 1..Len(queue'[p])
        PROVE  Priority[queue'[p][k]] = p /\ obj'[queue'[p][k]].pending > 0
    <2> DEFINE x == queue'[p][k]
    <2>0. x = queue'[p][k]
      OBVIOUS
    <2> HIDE DEF x
    <2>1. CASE p = Priority[o] /\ x = o
      <3>1. Among(o, s)
        BY <1>2, <1>3, <2>0, <2>1 DEF Among
      <3> QED
        BY <2>0, <2>1, <3>1
    <2>2. CASE p = Priority[o] /\ x # o
      <3>1. Among(x, s)
        BY <1>2, <1>3, <2>0, <2>2 DEF Among
      <3>2. Among(x, queue[p])
        BY <2>2, <3>1
      <3>3. PICK j \in 1..Len(queue[p]) : queue[p][j] = x
        BY <3>2 DEF Among
      <3>4. Priority[queue[p][j]] = p /\ obj[queue[p][j]].pending > 0
        BY <3>3 DEF QueueInv, QueueOK
      <3>5. queue[p][j] \in Objs
        BY <1>1, <3>3
      <3> QED
        BY <2>0, <2>2, <3>3, <3>4, <3>5
    <2>3. CASE p # Priority[o]
      <3>1. x = queue[p][k] /\ k \in 1..Len(queue[p])
        BY <1>2, <1>3, <2>0, <2>3
      <3>2. Priority[x] = p /\ obj[x].pending > 0 /\ x \in Objs
        BY <1>1, <3>1 DEF QueueInv, QueueOK
      <3> QED
        BY <2>0, <2>3, <3>2
    <2> QED
      BY <2>1, <2>2, <2>3
  <1>4. ASSUME NEW p \in 1..3 PROVE Distinct(queue'[p])
    BY <1>2 DEF QueueInv, QueueOK
  <1>5. ASSUME NEW x \in Objs PROVE obj'[x].pending >= 0 /\ (obj'[x].pending > 0 => Among(x, queue'[Priority[x]]))
    <2>1. Priority[x] \in 1..3
      BY <1>1
    <2>2. CASE x = o
      BY <1>2, <2>2
    <2>3. CASE x # o
      <3>1. obj'[x].pending = obj[x].pending /\ obj[x].pending >= 0 /\ (obj[x].pending > 0 => Among(x,
              queue[Priority[x]]))
        BY <2>3 DEF QueueInv
      <3>2. CASE Priority[x] = Priority[o]
        BY <1>2, <2>3, <3>1, <3>2
      <3>3. CASE Priority[x] # Priority[o]
        BY <1>2, <2>1, <3>1, <3>3
      <3> QED
        BY <3>2, <3>3
    <2> QED
      BY <2>2, <2>3
  <1>6. \A p \in 1..3 : QueueOK(p)'
    BY <1>3, <1>4 DEF QueueOK, Distinct
  <1>7. \A w \in Workers : pc'[w] = "rest" => ~HasItem'
    OBVIOUS
  <1> QED
    BY <1>5, <1>6, <1>7 DEF QueueInv, Among

LEMMA LengthChange ==
  ASSUME TypesInv, NEW p \in 1..3, NEW s \in Seq(Objs), queue' = [queue EXCEPT ![p] = s]
  PROVE  QueueLength \in Nat /\ QueueLength' = QueueLength - Len(queue[p]) + Len(s)
  <1>1. queue \in [1..3 -> Seq(Objs)]
    BY DEF TypesInv
  <1>2. Len(queue[1]) \in Nat /\ Len(queue[2]) \in Nat /\ Len(queue[3]) \in Nat /\ Len(s) \in Nat
    BY <1>1
  <1>3. \A q \in 1..3 : queue'[q] = IF q = p THEN s ELSE queue[q]
    BY <1>1
  <1> DEFINE a == Len(queue[1])
             b == Len(queue[2])
             c == Len(queue[3])
             n == Len(s)
  <1>4. QueueLength = a + b + c
    BY DEF QueueLength
  <1>5. QueueLength' = Len(queue'[1]) + Len(queue'[2]) + Len(queue'[3])
    BY DEF QueueLength
  <1>6. QueueLength' = (IF p = 1 THEN n ELSE a) + (IF p = 2 THEN n ELSE b) + (IF p = 3 THEN n ELSE c)
    <2>1. /\ Len(queue'[1]) = IF p = 1 THEN n ELSE a
          /\ Len(queue'[2]) = IF p = 2 THEN n ELSE b
          /\ Len(queue'[3]) = IF p = 3 THEN n ELSE c
      BY <1>3
    <2> QED
      BY <1>5, <2>1
  <1>7. Len(queue[p]) = IF p = 1 THEN a ELSE IF p = 2 THEN b ELSE c
    OBVIOUS
  <1> HIDE DEF a, b, c, n
  <1>8. a \in Nat /\ b \in Nat /\ c \in Nat /\ n \in Nat
    BY <1>2 DEF a, b, c, n
  <1>9. QueueLength \in Nat /\ QueueLength' = QueueLength - Len(queue[p]) + n
    BY <1>4, <1>6, <1>7, <1>8
  <1> QED
    BY <1>9 DEF n

LEMMA AppendFacts ==
  ASSUME NEW S, NEW s \in Seq(S), NEW o \in S, ~Among(o, s), Distinct(s)
  PROVE  /\ Append(s, o) \in Seq(S) /\ Len(Append(s, o)) = Len(s) + 1 /\ Distinct(Append(s, o))
         /\ \A x : Among(x, Append(s, o)) <=> x = o \/ Among(x, s)
  <1> DEFINE r == Append(s, o)
             n == Len(s) + 1
  <1>1. r \in Seq(S) /\ Len(r) = n /\ Len(s) \in Nat /\ r[n] = o /\ \A k \in 1..Len(s) : r[k] = s[k]
    OBVIOUS
  <1> HIDE DEF r
  <1>2. Distinct(r)
    BY <1>1 DEF Distinct, Among
  <1>3. \A x : Among(x, r) <=> x = o \/ Among(x, s)
    BY <1>1 DEF Among
  <1> QED
    BY <1>1, <1>2, <1>3 DEF r

LEMMA TailFacts ==
  ASSUME NEW S, NEW s \in Seq(S), s # <<>>, Distinct(s)
  PROVE  /\ Tail(s) \in Seq(S) /\ Len(Tail(s)) = Len(s) - 1 /\ Distinct(Tail(s)) /\ Among(Head(s), s)
         /\ \A x : Among(x, Tail(s)) <=> x # Head(s) /\ Among(x, s)
  <1> DEFINE r == Tail(s)
  <1>1. /\ Len(s) \in Nat /\ Len(s) > 0 /\ Head(s) = s[1] /\ r \in Seq(S) /\ Len(r) = Len(s) - 1
        /\ \A k \in 1..(Len(s) - 1) : r[k] = s[k + 1]
    BY SeqFacts
  <1> HIDE DEF r
  <1>2. Distinct(r)
    BY <1>1 DEF Distinct
  <1>3. ASSUME NEW x PROVE Among(x, r) <=> x # s[1] /\ Among(x, s)
    <2>1. Among(x, r) => x # s[1] /\ Among(x, s)
      BY <1>1 DEF Among, Distinct
    <2>2. ASSUME NEW j \in 1..Len(s), s[j] = x, x # s[1] PROVE Among(x, r)
      <3>1. j - 1 \in 1..(Len(s) - 1) /\ (j - 1) + 1 = j
        BY <1>1, <2>2
      <3>2. r[j - 1] = s[j]
        BY <1>1, <3>1
      <3> QED
        BY <1>1, <2>2, <3>1, <3>2 DEF Among
    <2> QED
      BY <2>1, <2>2 DEF Among
  <1>4. Among(Head(s), s)
    BY <1>1 DEF Among
  <1> QED
    BY <1>1, <1>2, <1>3, <1>4 DEF r

\* Nobody rests while the pool's lock is free, or another worker's.
LEMMA NoRest ==
  ASSUME ThreadsInv, ThreadsInv', NEW t \in Threads, Moved(t), t \in Workers => pc'[t] # "rest",
         poolCs = NoOne \/ poolCs = t
  PROVE  \A w \in Workers : pc'[w] # "rest"
  <1> SUFFICES ASSUME NEW w \in Workers, pc'[w] = "rest", w # t PROVE FALSE
    OBVIOUS
  <1>1. pc[w] = "rest"
    BY Kinds DEF Moved, Drift
  <1>2. poolCs = w
    BY <1>1 DEF ThreadsInv, WorkerOK
  <1> QED
    BY <1>2, Kinds

LEMMA SubmitQueue ==
  ASSUME TypesInv, ThreadsInv, ThreadsInv', QueueInv, NEW t \in Threads, Moved(t), t \notin Workers, NEW o \in Objs,
         poolCs = NoOne, queue' = IF obj[o].pending = 0 THEN Queued(o) ELSE queue,
         obj'[o].pending = obj[o].pending + 1, \A x \in Objs \ {o} : obj'[x].pending = obj[x].pending
  PROVE  /\ QueueInv' /\ QueueLength \in Nat
         /\ QueueLength' = QueueLength + (IF obj[o].pending = 0 THEN 1 ELSE 0)
  <1> DEFINE p == Priority[o]
             q == queue[p]
  <1>1. p \in 1..3 /\ q \in Seq(Objs) /\ Len(q) \in Nat /\ queue \in [1..3 -> Seq(Objs)] /\ obj[o].pending \in Int
    BY Kinds DEF TypesInv, ObjRecords
  <1>2. /\ Distinct(q) /\ \A k \in 1..Len(q) : obj[q[k]].pending > 0
        /\ obj[o].pending >= 0 /\ (obj[o].pending > 0 => Among(o, q))
    BY <1>1 DEF QueueInv, QueueOK
  <1>3. \A w \in Workers : pc'[w] # "rest"
    BY NoRest
  <1>4. CASE obj[o].pending = 0
    <2>1. ~Among(o, q)
      BY <1>2, <1>4 DEF Among
    <2> DEFINE s == Append(q, o)
    <2>2. /\ s \in Seq(Objs) /\ Len(s) = Len(q) + 1 /\ Distinct(s)
          /\ \A x : Among(x, s) <=> x = o \/ Among(x, q)
      BY <1>1, <1>2, <2>1, AppendFacts
    <2>3. queue' = [queue EXCEPT ![p] = s]
      BY <1>4 DEF Queued
    <2> HIDE DEF s
    <2>4. QueueInv'
      BY <1>3, <1>4, <2>2, <2>3, QueueChange
    <2>5. QueueLength \in Nat /\ QueueLength' = QueueLength - Len(q) + Len(s)
      BY <1>1, <2>2, <2>3, LengthChange
    <2>6. QueueLength' = QueueLength + 1
      <3> HIDE DEF q, p
      <3> QED
        BY <1>1, <2>2, <2>5
    <2> QED
      BY <1>4, <2>4, <2>5, <2>6
  <1>5. CASE obj[o].pending # 0
    <2>1. queue' = queue /\ queue = [queue EXCEPT ![p] = q]
      BY <1>1, <1>5
    <2>2. QueueInv'
      <3>1. Among(o, q) /\ obj'[o].pending > 0 /\ obj'[o].pending >= 0
        BY <1>1, <1>2, <1>5
      <3>2. queue' = [queue EXCEPT ![p] = q]
        BY <2>1
      <3> QED
        BY <1>1, <1>2, <1>3, <3>1, <3>2, QueueChange
    <2>3. QueueLength \in Nat /\ QueueLength' = QueueLength - Len(q) + Len(q)
      BY <1>1, <2>1, LengthChange
    <2> QED
      BY <1>1, <1>5, <2>2, <2>3
  <1> QED
    BY <1>4, <1>5

LEMMA TakeQueue ==
  ASSUME TypesInv, ThreadsInv, ThreadsInv', QueueInv, NEW w \in Workers, Moved(w), WorkerTake(w)
  PROVE  /\ QueueInv' /\ QueueLength \in Nat
         /\ QueueLength' = QueueLength - (IF obj[NextItem].pending > 1 THEN 0 ELSE 1)
  <1> DEFINE o == NextItem
             p == Priority[o]
             q == queue[p]
  <1>1. /\ o \in Objs /\ p \in 1..3 /\ q \in Seq(Objs) /\ q # <<>> /\ o = Head(q)
        /\ queue \in [1..3 -> Seq(Objs)]
    BY NextFacts DEF WorkerTake, TypesInv
  <1>2. Distinct(q) /\ \A k \in 1..Len(q) : obj[q[k]].pending > 0
    BY <1>1 DEF QueueInv, QueueOK
  <1>3. /\ Tail(q) \in Seq(Objs) /\ Len(Tail(q)) = Len(q) - 1 /\ Len(q) \in Nat /\ Distinct(Tail(q)) /\ Among(o, q)
        /\ \A x : Among(x, Tail(q)) <=> x # o /\ Among(x, q)
    BY <1>1, <1>2, TailFacts
  <1>4. obj[o].pending > 0 /\ obj[o].pending \in Int
    BY <1>1, <1>2, <1>3 DEF Among, TypesInv, ObjRecords
  <1>5. obj'[o].pending = obj[o].pending - 1 /\ \A x \in Objs \ {o} : obj'[x].pending = obj[x].pending
    BY <1>1, WorkerTakeDoes DEF ObjGoes
  <1>6. \A v \in Workers : pc'[v] # "rest"
    <2>1. pc[w] = "loop" /\ pc'[w] = "callback" /\ w \in Threads
      BY Kinds DEF WorkerTake, TypesInv
    <2>2. poolCs = w
      BY <2>1 DEF ThreadsInv, WorkerOK
    <2> QED
      BY <2>1, <2>2, NoRest
  <1>7. queue' = IF obj[o].pending > 1 THEN [[queue EXCEPT ![p] = Tail(@)] EXCEPT ![p] = Append(@, o)]
                 ELSE [queue EXCEPT ![p] = Tail(@)]
    BY DEF WorkerTake
  <1> HIDE DEF o, p, q
  <1>8. CASE obj[o].pending > 1
    <2> DEFINE s == Append(Tail(q), o)
    <2>1. /\ s \in Seq(Objs) /\ Len(s) = Len(Tail(q)) + 1 /\ Distinct(s)
          /\ \A x : Among(x, s) <=> x = o \/ Among(x, Tail(q))
      BY <1>1, <1>3, AppendFacts
    <2>2. queue' = [queue EXCEPT ![p] = s]
      BY <1>1, <1>7, <1>8 DEF q
    <2> HIDE DEF s
    <2>3. obj'[o].pending > 0 /\ obj'[o].pending >= 0 /\ Among(o, s) /\ \A x : x # o => (Among(x, s) <=> Among(x, q))
      BY <1>3, <1>4, <1>5, <1>8, <2>1
    <2>4. QueueInv'
      BY <1>1, <1>5, <1>6, <2>1, <2>2, <2>3, QueueChange DEF p, q
    <2>5. QueueLength \in Nat /\ QueueLength' = QueueLength - Len(q) + Len(s)
      BY <1>1, <2>1, <2>2, LengthChange DEF q
    <2>6. QueueLength' = QueueLength - 0
      BY <1>3, <2>1, <2>5
    <2> QED
      BY <1>8, <2>4, <2>5, <2>6 DEF o
  <1>9. CASE ~(obj[o].pending > 1)
    <2>2. queue' = [queue EXCEPT ![p] = Tail(q)]
      BY <1>1, <1>7, <1>9 DEF q
    <2>3. ~(obj'[o].pending > 0) /\ obj'[o].pending >= 0 /\ ~Among(o, Tail(q))
      BY <1>3, <1>4, <1>5, <1>9
    <2>4. QueueInv'
      BY <1>1, <1>3, <1>5, <1>6, <2>2, <2>3, QueueChange DEF p, q
    <2>5. QueueLength \in Nat /\ QueueLength' = QueueLength - Len(q) + Len(Tail(q))
      BY <1>1, <1>3, <2>2, LengthChange DEF q
    <2>6. QueueLength' = QueueLength - 1
      BY <1>3, <2>5
    <2> QED
      BY <1>9, <2>4, <2>5, <2>6 DEF o
  <1> QED
    BY <1>8, <1>9

LEMMA CancelQueue ==
  ASSUME TypesInv, ThreadsInv, ThreadsInv', QueueInv, NEW t \in Clients, Moved(t), Cancel(t)
  PROVE  QueueInv' /\ QueueLength \in Nat /\ QueueLength' \in Nat /\ QueueLength' <= QueueLength
  <1> DEFINE o == cur[t]
             p == Priority[o]
             q == queue[p]
  <1>1. o \in Objs /\ p \in 1..3 /\ q \in Seq(Objs) /\ queue \in [1..3 -> Seq(Objs)] /\ Len(q) \in Nat
    <2>1. pc[t] = "cancel" /\ queue \in [1..3 -> Seq(Objs)] /\ Priority \in [Objs -> 1..3]
      BY Kinds DEF Cancel, TypesInv
    <2>2. cur[t] \in Objs
      BY <2>1, ClientCur
    <2> QED
      BY <2>1, <2>2
  <1>2. /\ Distinct(q) /\ \A k \in 1..Len(q) : obj[q[k]].pending > 0
        /\ obj[o].pending >= 0 /\ (obj[o].pending > 0 => Among(o, q)) /\ obj[o].pending \in Int
    BY <1>1 DEF QueueInv, QueueOK, TypesInv, ObjRecords
  <1>3. obj'[o].pending = 0 /\ \A x \in Objs \ {o} : obj'[x].pending = obj[x].pending
    BY CancelDoes DEF ObjGoes
  <1>4. \A v \in Workers : pc'[v] # "rest"
    BY NoRest, Kinds DEF Cancel
  <1>5. queue' = IF obj[o].pending = 0 THEN queue ELSE [queue EXCEPT ![p] = Unlink(@, o)]
    BY DEF Cancel
  <1> HIDE DEF o, p, q
  <1>6. CASE obj[o].pending = 0
    <2>1. ~Among(o, q)
      BY <1>2, <1>6 DEF Among
    <2>2. queue' = [queue EXCEPT ![p] = q]
      BY <1>1, <1>5, <1>6 DEF q
    <2>3. QueueInv'
      <3>1. obj'[o].pending >= 0 /\ ~(obj'[o].pending > 0)
        BY <1>3
      <3> QED
        BY <1>1, <1>2, <1>3, <1>4, <2>1, <2>2, <3>1, QueueChange DEF p, q
    <2>4. QueueLength \in Nat /\ QueueLength' = QueueLength - Len(q) + Len(q)
      BY <1>1, <2>2, LengthChange DEF q
    <2> QED
      BY <1>1, <2>3, <2>4
  <1>7. CASE obj[o].pending # 0
    <2> DEFINE s == Unlink(q, o)
    <2>1. Among(o, q)
      BY <1>2, <1>7
    <2>2. /\ s \in Seq(Objs) /\ Len(s) = Len(q) - 1 /\ Distinct(s) /\ Len(s) \in Nat
          /\ \A x : Among(x, s) <=> x # o /\ Among(x, q)
      BY <1>1, <1>2, <2>1, UnlinkFacts
    <2>3. queue' = [queue EXCEPT ![p] = s]
      BY <1>1, <1>5, <1>7 DEF q
    <2> HIDE DEF s
    <2>4. QueueInv'
      <3>1. obj'[o].pending >= 0 /\ ~(obj'[o].pending > 0)
        BY <1>3
      <3> QED
        BY <1>1, <1>3, <1>4, <2>2, <2>3, <3>1, QueueChange DEF p, q
    <2>5. QueueLength \in Nat /\ QueueLength' = QueueLength - Len(q) + Len(s)
      BY <1>1, <2>2, <2>3, LengthChange DEF q
    <2>6. Len(q) <= QueueLength
      <3>1. \A k \in 1..3 : Len(queue[k]) \in Nat
        BY <1>1
      <3>2. Len(queue[1]) \in Nat /\ Len(queue[2]) \in Nat /\ Len(queue[3]) \in Nat
        BY <3>1
      <3>3. Len(q) = Len(queue[1]) \/ Len(q) = Len(queue[2]) \/ Len(q) = Len(queue[3])
        BY <1>1 DEF q
      <3> DEFINE a == Len(queue[1])
                 b == Len(queue[2])
                 c == Len(queue[3])
      <3>4. QueueLength = a + b + c
        BY DEF QueueLength
      <3> HIDE DEF a, b, c
      <3>5. a \in Nat /\ b \in Nat /\ c \in Nat /\ (Len(q) = a \/ Len(q) = b \/ Len(q) = c)
        BY <3>2, <3>3 DEF a, b, c
      <3> QED
        BY <3>4, <3>5
    <2> QED
      BY <1>1, <2>2, <2>4, <2>5, <2>6
  <1> QED
    BY <1>6, <1>7

\* The three counts of CountInv.
StaffInv == pool.workers = Cardinality(Employed)
RunsInv == \A o \in Objs : obj[o].running = Cardinality(Runs(o))
BusyInv == pool.busy >= QueueLength + Cardinality(Callbacks)

LEMMA Counts == CountInv <=> StaffInv /\ RunsInv /\ BusyInv
  BY DEF CountInv, StaffInv, RunsInv, BusyInv, QueueLength
LEMMA CountsNext == CountInv' <=> StaffInv' /\ RunsInv' /\ BusyInv'
  BY DEF CountInv, StaffInv, RunsInv, BusyInv, QueueLength

LEMMA StaffCount ==
  ASSUME StaffInv, NEW t \in Threads, Moved(t), Staffs(t)
  PROVE  StaffInv'
  <1>1. CASE pool'.workers = pool.workers /\ Unhired(t)
    <2>1. ASSUME NEW w \in Workers PROVE pc'[w] \notin {"none", "unref"} <=> pc[w] \notin {"none", "unref"}
      <3>1. CASE w = t
        BY <3>1 DEF Staffs, Tenured
      <3>2. CASE w # t
        BY <1>1, <3>2, Kinds DEF Moved, Drift, Unhired
      <3> QED
        BY <3>1, <3>2
    <2>2. Employed' = Employed
      BY <2>1 DEF Employed
    <2> QED
      BY <1>1, <2>2 DEF StaffInv
  <1>2. CASE pool'.workers = pool.workers + 1 /\ \E h \in Workers : Hired(t, h)
    <2>1. PICK h \in Workers : Hired(t, h)
      BY <1>2
    <2>2. Employed' = Employed \cup {h} /\ h \notin Employed
      BY <2>1 DEF Employed, Hired, Staffs, Tenured
    <2>3. IsFiniteSet(Employed)
      BY WorkerSets DEF Employed
    <2>4. Cardinality(Employed') = Cardinality(Employed) + 1
      BY <2>2, <2>3, FS_AddElement
    <2> QED
      BY <1>2, <2>4 DEF StaffInv
  <1> QED
    BY <1>1, <1>2 DEF Staffs

LEMMA SameCallbacks ==
  ASSUME NEW t \in Threads, Moved(t),
         t \in Workers => (pc[t] = "callback" <=> pc'[t] = "callback") /\ (pc[t] = "callback" => cur'[t] = cur[t])
  PROVE  Callbacks' = Callbacks /\ \A o : Runs(o)' = Runs(o)
  <1>1. \A w \in Workers : (pc'[w] = "callback" <=> pc[w] = "callback") /\ (pc[w] = "callback" => cur'[w] = cur[w])
    BY Kinds DEF Moved, Drift
  <1> QED
    BY <1>1 DEF Callbacks, Runs

-----------------------------------------------------------------------------
(* WakeInv.                                                                *)

ComingPlaces == {"start", "woken", "late", "loop"}

LEMMA ComingFinite == IsFiniteSet(Coming) /\ IsFiniteSet(Coming') /\ Cardinality(Coming) \in Nat /\
  Cardinality(Coming') \in Nat
  <1>1. Coming \in SUBSET Workers /\ Coming' \in SUBSET Workers
    BY DEF Coming
  <1> QED
    BY <1>1, WorkerSets

LEMMA NoTokens ==
  ASSUME TypesInv, QueueInv, ~HasItem
  PROVE  Tokens = {}
  <1> SUFFICES ASSUME NEW o \in Objs, obj[o].pending > 0 PROVE FALSE
    <2>1. \A o \in Objs : obj[o].pending \in Int
      BY DEF TypesInv, ObjRecords
    <2> QED
      BY <2>1 DEF Tokens
  <1>1. Priority[o] \in 1..3 /\ queue[Priority[o]] = <<>>
    BY Kinds DEF HasItem
  <1>2. Among(o, queue[Priority[o]])
    BY DEF QueueInv
  <1> QED
    BY <1>1, <1>2, NothingLeft DEF Among

LEMMA SameTokens ==
  ASSUME \A o \in Objs : obj'[o].pending = obj[o].pending
  PROVE  Tokens' = Tokens
  BY DEF Tokens

\* Workers that come do not go away, and nobody goes to sleep.
LEMMA ComingStays ==
  ASSUME NEW t \in Threads, Moved(t),
         t \in Workers => (pc[t] \in ComingPlaces => pc'[t] \in ComingPlaces) /\ (pc'[t] = "sleep" => pc[t] = "sleep")
  PROVE  Coming \subseteq Coming' /\ \A w \in Workers : pc'[w] = "sleep" => pc[w] = "sleep"
  <1>1. ASSUME NEW w \in Workers
        PROVE  (pc[w] \in ComingPlaces => pc'[w] \in ComingPlaces) /\ (pc'[w] = "sleep" => pc[w] = "sleep")
    <2>1. CASE w = t
      BY <2>1
    <2>2. CASE w # t
      BY <2>2, Kinds DEF Moved, Drift, ComingPlaces
    <2> QED
      BY <2>1, <2>2
  <1> QED
    BY <1>1 DEF Coming, ComingPlaces

LEMMA FewerTokens ==
  ASSUME WakeInv, Tokens' \subseteq Tokens, Coming \subseteq Coming',
         \A w \in Workers : pc'[w] = "sleep" => pc[w] = "sleep"
  PROVE  WakeInv'
  <1>1. IsFiniteSet(Tokens) /\ IsFiniteSet(Tokens') /\ Cardinality(Tokens') <= Cardinality(Tokens)
    BY FS_Subset DEF WakeInv
  <1>2. Cardinality(Tokens) \in Nat /\ Cardinality(Tokens') \in Nat
    BY <1>1, FS_CardinalityType
  <1>3. Cardinality(Coming) <= Cardinality(Coming') /\ Cardinality(Coming) \in Nat /\ Cardinality(Coming') \in Nat
    BY ComingFinite, FS_Subset
  <1>4. ASSUME \E w \in Workers : pc'[w] = "sleep" PROVE Cardinality(Tokens') <= Cardinality(Coming')
    <2>1. Cardinality(Tokens) <= Cardinality(Coming)
      BY <1>4 DEF WakeInv
    <2> QED
      BY <1>1, <1>2, <1>3, <2>1
  <1> QED
    BY <1>1, <1>4 DEF WakeInv

LEMMA PlainWake ==
  ASSUME WakeInv, NEW t \in Threads, Moved(t), Plain(t),
         t \in Workers => (pc[t] \in ComingPlaces => pc'[t] \in ComingPlaces) /\ (pc'[t] = "sleep" => pc[t] = "sleep")
  PROVE  WakeInv'
  <1>1. Tokens' = Tokens
    BY SameTokens DEF Plain
  <1> QED
    BY <1>1, ComingStays, FewerTokens

LEMMA EmptyWake ==
  ASSUME TypesInv, QueueInv, NEW t, Plain(t), ~HasItem
  PROVE  WakeInv'
  <1>1. Tokens' = {}
    BY SameTokens, NoTokens DEF Plain
  <1>2. IsFiniteSet(Tokens') /\ Cardinality(Tokens') = 0
    BY <1>1, FS_EmptySet
  <1> QED
    BY <1>2, ComingFinite DEF WakeInv

\* A worker takes a callback, and has come for it.
LEMMA TakeWake ==
  ASSUME TypesInv, ThreadsInv, QueueInv, WakeInv, NEW w \in Workers, Moved(w), WorkerTake(w)
  PROVE  WakeInv'
  <1> DEFINE o == NextItem
             n == obj[o].pending
             x == <<o, n>>
  <1>1. o \in Objs /\ n \in Int /\ w \in Threads /\ pc \in [Threads -> Places]
    BY NextFacts, Kinds DEF WorkerTake, TypesInv, ObjRecords
  <1>2. n > 0
    <2>1. queue[Priority[o]] \in Seq(Objs) /\ queue[Priority[o]] # <<>> /\ o = Head(queue[Priority[o]]) /\
            Priority[o] \in 1..3
      BY NextFacts DEF WorkerTake
    <2>2. o = queue[Priority[o]][1] /\ 1 \in 1..Len(queue[Priority[o]])
      BY <2>1
    <2> QED
      BY <2>1, <2>2 DEF QueueInv, QueueOK
  <1>3. obj'[o].pending = n - 1 /\ \A y \in Objs \ {o} : obj'[y].pending = obj[y].pending
    BY WorkerTakeDoes DEF ObjGoes
  <1>4. pc[w] = "loop" /\ pc'[w] = "callback" /\ \A v \in Workers \ {w} : pc'[v] = pc[v]
    BY <1>1, Kinds DEF WorkerTake
  <1> HIDE DEF o, n
  <1>5. Tokens' = Tokens \ {x} /\ x \in Tokens
    <2>1. n = obj[o].pending
      BY DEF n
    <2>2. x \in Tokens
      BY <1>1, <1>2, <2>1 DEF Tokens
    <2>3. ASSUME NEW y \in Objs, NEW k \in Nat PROVE k \in 1..obj'[y].pending <=> k \in 1..obj[y].pending /\ <<y,
                   k>> # x
      BY <1>1, <1>2, <1>3, <2>1
    <2> QED
      BY <2>2, <2>3 DEF Tokens
  <1>6. Coming' = Coming \ {w} /\ w \in Coming
    BY <1>4 DEF Coming
  <1>7. IsFiniteSet(Tokens)
    BY DEF WakeInv
  <1>8. IsFiniteSet(Tokens') /\ Cardinality(Tokens') = Cardinality(Tokens) - 1
    BY <1>5, <1>7, FS_RemoveElement
  <1>9. Cardinality(Coming') = Cardinality(Coming) - 1
    BY <1>6, ComingFinite, FS_RemoveElement
  <1>10. ASSUME \E v \in Workers : pc'[v] = "sleep" PROVE Cardinality(Tokens') <= Cardinality(Coming')
    <2>1. Cardinality(Tokens) <= Cardinality(Coming)
      BY <1>4, <1>10 DEF WakeInv
    <2>2. Cardinality(Tokens) \in Nat /\ Cardinality(Coming) \in Nat
      BY <1>7, ComingFinite, FS_CardinalityType
    <2> QED
      BY <1>8, <1>9, <2>1, <2>2
  <1> QED
    BY <1>8, <1>10 DEF WakeInv

\* A worker is started or woken by every submission, if one sleeps.
LEMMA SubmitWakes ==
  ASSUME TypesInv, NEW o \in Objs, NEW t \in Threads, NEW p, t \notin Workers, Submit(o, t, p)
  PROVE  \/ \A w \in Workers : pc'[w] # "sleep"
         \/ \E w \in Workers : pc[w] \notin ComingPlaces /\ pc'[w] \in ComingPlaces
  <1>0. pc \in [Threads -> Places]
    BY DEF TypesInv
  <1>1. (\E w \in Spare : StartWorker(w, t, p)) \/ (\E S \in Chosen : WakeWorkers(S, t, p))
    BY DEF Submit
  <1>2. ASSUME NEW w \in Spare, StartWorker(w, t, p) PROVE pc[w] \notin ComingPlaces /\ pc'[w] \in ComingPlaces /\
                 w \in Workers
    BY <1>0, <1>2, Kinds DEF Spare, StartWorker, ComingPlaces
  <1>3. ASSUME NEW S \in Chosen, WakeWorkers(S, t, p)
        PROVE  \/ \A w \in Workers : pc'[w] # "sleep"
               \/ \E w \in Workers : pc[w] \notin ComingPlaces /\ pc'[w] \in ComingPlaces
    <2>1. \A x \in Workers : pc'[x] = IF x \in S THEN Awake(pc[x]) ELSE pc[x]
      BY <1>3, Kinds DEF WakeWorkers
    <2>2. CASE Sleepers = {}
      <3>1. \A x \in Workers : pc'[x] = pc[x]
        BY <1>3, <2>1, <2>2 DEF Chosen
      <3> QED
        BY <2>2, <3>1 DEF Sleepers
    <2>3. CASE Sleepers # {}
      <3>0. S \in SUBSET Sleepers /\ S # {}
        BY <1>3, <2>3 DEF Chosen
      <3>1. PICK x : x \in S /\ x \in Sleepers
        BY <3>0
      <3>2. x \in Workers /\ pc[x] \in {"sleep", "timedout"}
        BY <3>1 DEF Sleepers
      <3>3. pc'[x] \in {"woken", "late"}
        BY <2>1, <3>1, <3>2 DEF Awake
      <3> QED
        BY <3>2, <3>3 DEF ComingPlaces
    <2> QED
      BY <2>2, <2>3
  <1> QED
    BY <1>1, <1>2, <1>3

LEMMA SubmitWake ==
  ASSUME TypesInv, QueueInv, WakeInv, NEW t \in Threads, t \notin Workers, Moved(t), NEW o \in Objs, NEW p, Submit(o,
           t, p),
         obj'[o].pending = obj[o].pending + 1, \A y \in Objs \ {o} : obj'[y] = obj[y]
  PROVE  WakeInv'
  <1> DEFINE n == obj[o].pending + 1
             x == <<o, n>>
  <1>1. obj[o].pending \in Int /\ obj[o].pending >= 0
    BY DEF TypesInv, ObjRecords, QueueInv
  <1>2. n \in Nat /\ n > 0 /\ obj'[o].pending = n /\ obj[o].pending = n - 1
    BY <1>1
  <1> HIDE DEF n
  <1>3. Tokens' = Tokens \cup {x} /\ x \notin Tokens
    <2>1. x \notin Tokens /\ x \in Objs \X Nat /\ n \in 1..n
      BY <1>2 DEF Tokens
    <2>2. ASSUME NEW y \in Objs, NEW k \in Nat PROVE k \in 1..obj'[y].pending <=> k \in 1..obj[y].pending \/ <<y,
                   k>> = x
      BY <1>2
    <2> QED
      BY <2>1, <2>2 DEF Tokens
  <1>4. IsFiniteSet(Tokens)
    BY DEF WakeInv
  <1>5. IsFiniteSet(Tokens') /\ Cardinality(Tokens') = Cardinality(Tokens) + 1
    BY <1>3, <1>4, FS_AddElement
  <1>6. Coming \subseteq Coming' /\ \A w \in Workers : pc'[w] = "sleep" => pc[w] = "sleep"
    BY ComingStays
  <1>7. ASSUME \E v \in Workers : pc'[v] = "sleep" PROVE Cardinality(Tokens') <= Cardinality(Coming')
    <2>1. PICK w \in Workers : pc[w] \notin ComingPlaces /\ pc'[w] \in ComingPlaces
      BY <1>7, SubmitWakes
    <2>2. w \notin Coming /\ Coming \cup {w} \subseteq Coming'
      BY <1>6, <2>1 DEF Coming, ComingPlaces
    <2>3. Cardinality(Coming \cup {w}) = Cardinality(Coming) + 1 /\ IsFiniteSet(Coming \cup {w})
      BY <2>2, ComingFinite, FS_AddElement
    <2>4. Cardinality(Coming \cup {w}) <= Cardinality(Coming')
      BY <2>2, ComingFinite, FS_Subset
    <2>5. Cardinality(Tokens) <= Cardinality(Coming)
      BY <1>6, <1>7 DEF WakeInv
    <2>6. Cardinality(Tokens) \in Nat /\ Cardinality(Coming) \in Nat /\ Cardinality(Coming') \in Nat
      BY <1>4, ComingFinite, FS_CardinalityType
    <2> QED
      BY <1>5, <2>3, <2>4, <2>5, <2>6
  <1> QED
    BY <1>5, <1>7 DEF WakeInv

LEMMA CancelWake ==
  ASSUME TypesInv, ThreadsInv, QueueInv, WakeInv, NEW t \in Clients, Moved(t), Cancel(t)
  PROVE  WakeInv'
  <1>1. t \in Threads /\ t \notin Workers
    BY Kinds
  <1>2. obj'[cur[t]].pending = 0 /\ \A y \in Objs \ {cur[t]} : obj'[y].pending = obj[y].pending
    BY CancelDoes DEF ObjGoes
  <1>3. Tokens' \subseteq Tokens
    <2>1. ASSUME NEW y \in Objs, NEW k \in Nat, k \in 1..obj'[y].pending PROVE k \in 1..obj[y].pending
      BY <1>2, <2>1
    <2> QED
      BY <2>1 DEF Tokens
  <1> QED
    BY <1>1, <1>3, ComingStays, FewerTokens

LEMMA PlainRuns ==
  ASSUME CountInv, NEW t \in Threads, Moved(t), Plain(t)
  PROVE  RunsInv' /\ BusyInv'
  <1>1. Callbacks' = Callbacks /\ \A o : Runs(o)' = Runs(o)
    BY SameCallbacks DEF Plain
  <1>2. RunsInv'
    BY <1>1, Counts DEF RunsInv, Plain
  <1>3. BusyInv'
    BY <1>1, Counts DEF BusyInv, Plain, QueueLength
  <1> QED
    BY <1>2, <1>3

LEMMA PlainCounts ==
  ASSUME CountInv, NEW t \in Threads, Moved(t), Plain(t), Staffs(t)
  PROVE  CountInv'
  BY PlainRuns, StaffCount, Counts, CountsNext

LEMMA TakeCounts ==
  ASSUME TypesInv, ThreadsInv, QueueInv, CountInv, NEW w \in Workers, Moved(w), WorkerTake(w), QueueLength \in Nat,
         QueueLength' = QueueLength - (IF obj[NextItem].pending > 1 THEN 0 ELSE 1)
  PROVE  CountInv'
  <1> DEFINE o == NextItem
             c == Cardinality(Callbacks)
  <1>0. w \in Threads /\ o \in Objs /\ pc \in [Threads -> Places] /\ cur \in [Threads -> Objs \cup {NoOne}] /\
          pool.busy \in Int
    BY NextFacts, Kinds DEF TypesInv, PoolRecords, WorkerTake
  <1>1. /\ pc[w] = "loop" /\ pc'[w] = "callback" /\ cur'[w] = o
        /\ \A v \in Workers \ {w} : pc'[v] = pc[v] /\ cur'[v] = cur[v]
    BY <1>0, Kinds DEF WorkerTake
  <1>2. /\ obj'[o].running = obj[o].running + 1 /\ \A x \in Objs \ {o} : obj'[x].running = obj[x].running
        /\ pool'.workers = pool.workers /\ pool'.busy = pool.busy + (IF obj[o].pending > 1 THEN 1 ELSE 0)
    BY WorkerTakeDoes DEF ObjGoes, PoolGoes, Busier
  <1> HIDE DEF o
  <1>3. StaffInv'
    <2>1. Staffs(w)
      BY <1>1, <1>2 DEF Staffs, Tenured, Unhired
    <2> QED
      BY <1>0, <2>1, StaffCount, Counts
  <1>4. RunsInv'
    <2> SUFFICES ASSUME NEW x \in Objs PROVE obj'[x].running = Cardinality(Runs(x)')
      BY DEF RunsInv
    <2>0. obj[x].running = Cardinality(Runs(x))
      BY Counts DEF RunsInv
    <2>1. CASE x = o
      <3>1. Runs(x)' = Runs(x) \cup {w} /\ w \notin Runs(x)
        BY <1>1, <2>1 DEF Runs
      <3>2. IsFiniteSet(Runs(x))
        BY WorkerSets DEF Runs
      <3>3. Cardinality(Runs(x)') = Cardinality(Runs(x)) + 1
        BY <3>1, <3>2, FS_AddElement
      <3> QED
        BY <1>2, <2>0, <2>1, <3>3
    <2>2. CASE x # o
      <3>1. Runs(x)' = Runs(x)
        BY <1>1, <2>2 DEF Runs
      <3> QED
        BY <1>2, <2>0, <2>2, <3>1
    <2> QED
      BY <2>1, <2>2
  <1>5. BusyInv'
    <2>1. Callbacks' = Callbacks \cup {w} /\ w \notin Callbacks
      BY <1>1 DEF Callbacks
    <2>2. IsFiniteSet(Callbacks) /\ c \in Nat
      BY WorkerSets DEF Callbacks
    <2>3. Cardinality(Callbacks') = c + 1
      BY <2>1, <2>2, FS_AddElement
    <2>4. pool.busy >= QueueLength + c
      BY Counts DEF BusyInv
    <2>5. QueueLength' = QueueLength - (IF obj[o].pending > 1 THEN 0 ELSE 1)
      BY DEF o
    <2> HIDE DEF c
    <2>6. pool'.busy >= QueueLength' + (c + 1)
      BY <1>0, <1>2, <2>2, <2>4, <2>5
    <2> QED
      BY <2>3, <2>6 DEF BusyInv
  <1> QED
    BY <1>3, <1>4, <1>5, CountsNext

LEMMA EndQueue ==
  ASSUME TypesInv, ThreadsInv, QueueInv, NEW w \in Workers, Moved(w), CallbackEnd(w)
  PROVE  QueueInv' /\ queue' = queue
  <1>0. pc'[w] = (IF obj[cur[w]].ref - 1 = 0 THEN "destroy" ELSE "loop")
    BY CallbackEndDoes
  <1>1. queue' = queue /\ pc'[w] # "rest"
    BY <1>0 DEF CallbackEnd
  <1>2. \A o \in Objs : obj'[o].pending = obj[o].pending
    BY CallbackEndDoes DEF ObjGoes
  <1>3. \A v \in Workers : pc'[v] = "rest" => ~HasItem'
    BY <1>1, RestStays, Kinds DEF HasItem
  <1>4. ASSUME NEW p \in 1..3 PROVE QueueOK(p)'
    <2>1. QueueOK(p) /\ queue[p] \in Seq(Objs)
      BY DEF QueueInv, TypesInv
    <2>2. \A k \in 1..Len(queue[p]) : queue[p][k] \in Objs
      BY <2>1
    <2> QED
      BY <1>1, <1>2, <2>1, <2>2 DEF QueueOK
  <1>5. \A o \in Objs : obj'[o].pending >= 0 /\ (obj'[o].pending > 0 => Among(o, queue'[Priority[o]]))
    BY <1>1, <1>2 DEF QueueInv
  <1> QED
    BY <1>1, <1>3, <1>4, <1>5 DEF QueueInv

LEMMA EndCounts ==
  ASSUME TypesInv, ThreadsInv, QueueInv, CountInv, NEW w \in Workers, Moved(w), CallbackEnd(w)
  PROVE  CountInv'
  <1> DEFINE o == cur[w]
             c == Cardinality(Callbacks)
  <1>0. w \in Threads /\ pc[w] = "callback" /\ pool.busy \in Int /\ queue' = queue
    BY Kinds DEF TypesInv, PoolRecords, CallbackEnd
  <1>1. o \in Objs
    BY <1>0 DEF ThreadsInv, WorkerOK
  <1>2. /\ pc'[w] \in {"destroy", "loop"} /\ \A v \in Workers \ {w} : pc'[v] = pc[v] /\ cur'[v] = cur[v]
    BY CallbackEndDoes, Kinds DEF Moved, Drift
  <1>3. /\ obj'[o].running = obj[o].running - 1 /\ \A x \in Objs \ {o} : obj'[x].running = obj[x].running
        /\ pool'.workers = pool.workers /\ pool'.busy = pool.busy - 1
    BY CallbackEndDoes DEF ObjGoes, PoolGoes
  <1>o. cur[w] = o
    OBVIOUS
  <1> HIDE DEF o
  <1>4. StaffInv'
    <2>1. Staffs(w)
      BY <1>0, <1>2, <1>3 DEF Staffs, Tenured, Unhired
    <2> QED
      BY <1>0, <2>1, StaffCount, Counts
  <1>5. RunsInv'
    <2> SUFFICES ASSUME NEW x \in Objs PROVE obj'[x].running = Cardinality(Runs(x)')
      BY DEF RunsInv
    <2>0. obj[x].running = Cardinality(Runs(x))
      BY Counts DEF RunsInv
    <2>1. CASE x = o
      <3>1. Runs(x)' = Runs(x) \ {w} /\ w \in Runs(x)
        BY <1>0, <1>o, <1>2, <2>1 DEF Runs
      <3>2. IsFiniteSet(Runs(x))
        BY WorkerSets DEF Runs
      <3>3. Cardinality(Runs(x)') = Cardinality(Runs(x)) - 1
        BY <3>1, <3>2, FS_RemoveElement
      <3> QED
        BY <1>3, <2>0, <2>1, <3>3
    <2>2. CASE x # o
      <3>1. Runs(x)' = Runs(x)
        BY <1>o, <1>2, <2>2 DEF Runs
      <3> QED
        BY <1>3, <2>0, <2>2, <3>1
    <2> QED
      BY <2>1, <2>2
  <1>6. BusyInv'
    <2>1. Callbacks' = Callbacks \ {w} /\ w \in Callbacks
      BY <1>0, <1>2 DEF Callbacks
    <2>2. IsFiniteSet(Callbacks) /\ c \in Nat
      BY WorkerSets DEF Callbacks
    <2>3. Cardinality(Callbacks') = c - 1
      BY <2>1, <2>2, FS_RemoveElement
    <2>4. pool.busy >= QueueLength + c
      BY Counts DEF BusyInv
    <2>5. QueueLength' = QueueLength /\ QueueLength \in Int
      <3>1. queue \in [1..3 -> Seq(Objs)] /\ queue = [queue EXCEPT ![1] = queue[1]] /\ 1 \in 1..3
        BY DEF TypesInv
      <3>2. QueueLength \in Nat
        BY <1>0, <3>1, LengthChange
      <3>3. QueueLength' = QueueLength
        BY <1>0 DEF QueueLength
      <3> QED
        BY <3>2, <3>3
    <2> HIDE DEF c
    <2>6. pool'.busy >= QueueLength' + (c - 1)
      BY <1>0, <1>3, <2>2, <2>4, <2>5
    <2> QED
      BY <2>3, <2>6 DEF BusyInv
  <1> QED
    BY <1>4, <1>5, <1>6, CountsNext

LEMMA WorkerCounts ==
  ASSUME TypesInv, ThreadsInv, BirthInv, QueueInv, CountInv, WakeInv, NEW w \in Workers, WorkerStep(w)
  PROVE  QueueInv' /\ CountInv' /\ WakeInv'
  <1>0. w \in Threads /\ TypesInv' /\ ThreadsInv' /\ Moved(w)
    BY WorkerThreads, Kinds
  <1>t. pc \in [Threads -> Places]
    BY DEF TypesInv
  <1>1. CASE WorkerEnter(w)
    <2>1. Plain(w)
      <3>1. pc[w] \in {"start", "woken", "timedout", "late"} /\ pc'[w] \in {"exit", "loop"} /\ queue' = queue /\
              obj' = obj /\ pool' = pool
        BY <1>1, <1>0, <1>t DEF WorkerEnter
      <3> QED
        BY <3>1 DEF Plain
    <2>2. Staffs(w)
      <3>1. pc[w] \in {"start", "woken", "timedout", "late"} /\ pc'[w] \in {"exit", "loop"} /\ pool' = pool /\
              \A v \in Workers \ {w} : pc'[v] = pc[v]
        BY <1>1, <1>0, <1>t, Kinds DEF WorkerEnter
      <3> QED
        BY <3>1 DEF Staffs, Tenured, Unhired
    <2>3. WakeInv'
      <3>1. CASE MayLeave
        <4>1. ~HasItem
          BY <3>1 DEF MayLeave
        <4> QED
          BY <2>1, <4>1, EmptyWake
      <3>2. CASE ~MayLeave
        <4>1. pc'[w] = "loop"
          BY <1>1, <1>0, <1>t, <3>2 DEF WorkerEnter
        <4> QED
          BY <1>0, <2>1, <4>1, PlainWake DEF ComingPlaces
      <3> QED
        BY <3>1, <3>2
    <2> QED
      BY <1>0, <2>1, <2>2, <2>3, PlainQueue, PlainCounts
  <1>2. CASE WorkerTake(w)
    <2>1. QueueInv' /\ QueueLength \in Nat /\
            QueueLength' = QueueLength - (IF obj[NextItem].pending > 1 THEN 0 ELSE 1)
      BY <1>2, <1>0, TakeQueue
    <2>2. CountInv'
      BY <1>2, <1>0, <2>1, TakeCounts
    <2>3. WakeInv'
      BY <1>2, <1>0, TakeWake
    <2> QED
      BY <2>1, <2>2, <2>3
  <1>3. CASE WorkerRest(w)
    <2>1. Plain(w)
      <3>1. pc[w] \in {"loop"} /\ pc'[w] \in {"exit", "rest"} /\ queue' = queue /\ obj' = obj /\ pool' = pool /\
              ~HasItem
        BY <1>3, <1>0, <1>t DEF WorkerRest
      <3> QED
        BY <3>1 DEF Plain
    <2>2. Staffs(w)
      <3>1. pc[w] \in {"loop"} /\ pc'[w] \in {"exit", "rest"} /\ pool' = pool /\
              \A v \in Workers \ {w} : pc'[v] = pc[v]
        BY <1>3, <1>0, <1>t, Kinds DEF WorkerRest
      <3> QED
        BY <3>1 DEF Staffs, Tenured, Unhired
    <2>3. WakeInv'
      <3>1. ~HasItem
        BY <1>3 DEF WorkerRest
      <3> QED
        BY <2>1, <3>1, EmptyWake
    <2> QED
      BY <1>0, <2>1, <2>2, <2>3, PlainQueue, PlainCounts
  <1>4. CASE WorkerSleep(w)
    <2>1. Plain(w)
      <3>1. pc[w] \in {"rest"} /\ pc'[w] \in {"sleep"} /\ queue' = queue /\ obj' = obj /\ pool' = pool
        BY <1>4, <1>0, <1>t DEF WorkerSleep
      <3> QED
        BY <3>1 DEF Plain
    <2>2. Staffs(w)
      <3>1. pc[w] \in {"rest"} /\ pc'[w] \in {"sleep"} /\ pool' = pool /\ \A v \in Workers \ {w} : pc'[v] = pc[v]
        BY <1>4, <1>0, <1>t, Kinds DEF WorkerSleep
      <3> QED
        BY <3>1 DEF Staffs, Tenured, Unhired
    <2>3. WakeInv'
      <3>1. ~HasItem
        BY <1>4 DEF WorkerSleep, QueueInv
      <3> QED
        BY <2>1, <3>1, EmptyWake
    <2> QED
      BY <1>0, <2>1, <2>2, <2>3, PlainQueue, PlainCounts
  <1>5. CASE WorkerTimeout(w)
    <2>1. Plain(w)
      <3>1. pc[w] \in {"sleep"} /\ pc'[w] \in {"timedout"} /\ queue' = queue /\ obj' = obj /\ pool' = pool
        BY <1>5, <1>0, <1>t DEF WorkerTimeout
      <3> QED
        BY <3>1 DEF Plain
    <2>2. Staffs(w)
      <3>1. pc[w] \in {"sleep"} /\ pc'[w] \in {"timedout"} /\ pool' = pool /\ \A v \in Workers \ {w} : pc'[v] = pc[v]
        BY <1>5, <1>0, <1>t, Kinds DEF WorkerTimeout
      <3> QED
        BY <3>1 DEF Staffs, Tenured, Unhired
    <2>3. WakeInv'
      <3>1. pc[w] \in {"sleep"} /\ pc'[w] \in {"timedout"}
        BY <1>5, <1>0, <1>t DEF WorkerTimeout
      <3> QED
        BY <1>0, <2>1, <3>1, PlainWake DEF ComingPlaces
    <2> QED
      BY <1>0, <2>1, <2>2, <2>3, PlainQueue, PlainCounts
  <1>6. CASE TpDisassociateCallback(w)
    <2>1. Plain(w)
      <3>1. pc'[w] = pc[w] /\ pc[w] = "callback" /\ cur' = cur /\ queue' = queue /\ pool' = pool
        BY <1>6, TpDisassociateCallbackDoes DEF TpDisassociateCallback
      <3>2. \A o \in Objs : obj'[o].pending = obj[o].pending /\ obj'[o].running = obj[o].running
        BY <1>6, TpDisassociateCallbackDoes DEF ObjGoes
      <3> QED
        BY <3>1, <3>2 DEF Plain
    <2>2. Staffs(w)
      <3>1. pool' = pool /\ \A v \in Workers : pc'[v] = pc[v]
        BY <1>6, TpDisassociateCallbackDoes DEF TpDisassociateCallback
      <3> QED
        BY <3>1 DEF Staffs, Tenured, Unhired
    <2>3. WakeInv'
      <3>1. pc'[w] = pc[w] /\ pc[w] = "callback"
        BY <1>6, TpDisassociateCallbackDoes DEF TpDisassociateCallback
      <3> QED
        BY <1>0, <2>1, <3>1, PlainWake DEF ComingPlaces
    <2> QED
      BY <1>0, <2>1, <2>2, <2>3, PlainQueue, PlainCounts
  <1>7. CASE TpCallbackMayRunLong(w)
    <2>1. Plain(w)
      <3>1. pc'[w] = pc[w] /\ pc[w] = "callback" /\ cur' = cur /\ queue' = queue /\ obj' = obj
        BY <1>7, TpCallbackMayRunLongDoes DEF TpCallbackMayRunLong
      <3>2. pool'.busy = pool.busy
        BY <1>7, TpCallbackMayRunLongDoes DEF PoolGoes
      <3> QED
        BY <3>1, <3>2 DEF Plain
    <2>2. Staffs(w)
      <3>1. pc'[w] = pc[w]
        BY <1>7, TpCallbackMayRunLongDoes
      <3>2. \/ pool'.workers = pool.workers + 1 /\ \E v \in Workers : Hired(w, v)
            \/ pool'.workers = pool.workers /\ \A u \in Workers : pc'[u] = pc[u]
        BY <1>7, TpCallbackMayRunLongDoes DEF PoolGoes
      <3> QED
        BY <3>1, <3>2 DEF Staffs, Tenured, Unhired
    <2>3. WakeInv'
      <3>1. pc'[w] = pc[w] /\ pc[w] = "callback"
        BY <1>7, TpCallbackMayRunLongDoes DEF TpCallbackMayRunLong
      <3> QED
        BY <1>0, <2>1, <3>1, PlainWake DEF ComingPlaces
    <2> QED
      BY <1>0, <2>1, <2>2, <2>3, PlainQueue, PlainCounts
  <1>8. CASE CallbackEnd(w)
    <2>1. QueueInv'
      BY <1>8, <1>0, EndQueue
    <2>2. CountInv'
      BY <1>8, <1>0, EndCounts
    <2>3. WakeInv'
      <3>1. pc[w] = "callback" /\ pc'[w] \in {"destroy", "loop"}
        BY <1>8, CallbackEndDoes DEF CallbackEnd
      <3>2. \A o \in Objs : obj'[o].pending = obj[o].pending
        BY <1>8, CallbackEndDoes DEF ObjGoes
      <3>3. Tokens' = Tokens
        BY <3>2, SameTokens
      <3>4. Coming \subseteq Coming' /\ \A v \in Workers : pc'[v] = "sleep" => pc[v] = "sleep"
        BY <1>0, <3>1, ComingStays DEF ComingPlaces
      <3> QED
        BY <3>3, <3>4, FewerTokens
    <2> QED
      BY <2>1, <2>2, <2>3
  <1>9. CASE WorkerExit(w)
    <2>1. Plain(w)
      <3>1. pc[w] = "exit" /\ pc'[w] = "unref" /\ queue' = queue /\ obj' = obj
        BY <1>9, <1>0, <1>t DEF WorkerExit
      <3>2. pool'.busy = pool.busy
        BY <1>9, WorkerExitDoes DEF PoolGoes
      <3> QED
        BY <3>1, <3>2 DEF Plain
    <2>2. QueueInv'
      BY <1>0, <2>1, PlainQueue
    <2>3. RunsInv' /\ BusyInv'
      BY <1>0, <2>1, PlainRuns
    <2>4. StaffInv'
      <3>1. pc[w] = "exit" /\ pc'[w] = "unref" /\ \A v \in Workers \ {w} : pc'[v] = pc[v]
        BY <1>9, <1>0, <1>t, Kinds DEF WorkerExit
      <3>2. Employed' = Employed \ {w} /\ w \in Employed
        BY <3>1 DEF Employed
      <3>3. IsFiniteSet(Employed)
        BY WorkerSets DEF Employed
      <3>4. Cardinality(Employed') = Cardinality(Employed) - 1
        BY <3>2, <3>3, FS_RemoveElement
      <3>5. pool'.workers = pool.workers - 1
        BY <1>9, WorkerExitDoes DEF PoolGoes
      <3> QED
        BY <3>4, <3>5, Counts DEF StaffInv
    <2>5. WakeInv'
      <3>1. pc[w] = "exit" /\ pc'[w] = "unref"
        BY <1>9, <1>0, <1>t DEF WorkerExit
      <3> QED
        BY <1>0, <2>1, <3>1, PlainWake DEF ComingPlaces
    <2> QED
      BY <2>2, <2>3, <2>4, <2>5, CountsNext
  <1> QED
    BY <1>1, <1>2, <1>3, <1>4, <1>5, <1>6, <1>7, <1>8, <1>9 DEF WorkerStep

LEMMA SubmitCounts ==
  ASSUME TypesInv, CountInv, NEW t \in Threads, t \notin Workers, Moved(t), NEW o \in Objs,
         \A x \in Objs : obj'[x].running = obj[x].running, QueueLength \in Nat,
         QueueLength' = QueueLength + (IF obj[o].pending = 0 THEN 1 ELSE 0),
         pool'.busy = pool.busy + (IF obj[o].pending = 0 THEN 1 ELSE 0), Staffs(t)
  PROVE  CountInv'
  <1> DEFINE c == Cardinality(Callbacks)
  <1>1. Callbacks' = Callbacks /\ \A x : Runs(x)' = Runs(x)
    BY SameCallbacks
  <1>2. RunsInv'
    BY <1>1, Counts DEF RunsInv
  <1>3. c \in Nat /\ pool.busy \in Int /\ pool.busy >= QueueLength + c
    BY WorkerSets, Counts DEF Callbacks, BusyInv, TypesInv, PoolRecords
  <1> HIDE DEF c
  <1>4. pool'.busy >= QueueLength' + c
    BY <1>3
  <1>5. BusyInv'
    BY <1>1, <1>4 DEF BusyInv, c
  <1> QED
    BY <1>2, <1>5, StaffCount, Counts, CountsNext

LEMMA SubmitStaff ==
  ASSUME NEW t \in Threads, t \notin Workers, NEW busy,
         \/ /\ \E w \in Workers : Hired(t, w)
            /\ PoolGoes(pool.ref + 1, pool.objcount, pool.shutdown, pool.workers + 1, busy)
         \/ /\ Unhired(t)
            /\ PoolGoes(pool.ref, pool.objcount, pool.shutdown, pool.workers, busy)
  PROVE  Staffs(t) /\ pool'.busy = busy
  BY DEF Staffs, Tenured, PoolGoes

LEMMA TimerCounts ==
  ASSUME TypesInv, ThreadsInv, BirthInv, QueueInv, CountInv, WakeInv, TimerStep(TimerThread)
  PROVE  QueueInv' /\ CountInv' /\ WakeInv'
  <1>0. TimerThread \in Threads /\ TypesInv' /\ ThreadsInv' /\ Moved(TimerThread)
    BY TimerThreads, Kinds
  <1>t. pc \in [Threads -> Places]
    BY DEF TypesInv
  <1>1. CASE TimerEnter(TimerThread)
    <2>1. Plain(TimerThread)
      <3>1. TimerThread \notin Workers /\ queue' = queue
        BY <1>1, Kinds DEF TimerEnter
      <3>2. \A o \in Objs : obj'[o].pending = obj[o].pending /\ obj'[o].running = obj[o].running
        BY <1>1 DEF TimerEnter
      <3>3. pool'.busy = pool.busy
        BY <1>1 DEF TimerEnter
      <3> QED
        BY <3>1, <3>2, <3>3 DEF Plain
    <2>2. Staffs(TimerThread)
      <3>1. TimerThread \notin Workers /\ pool'.workers = pool.workers
        BY <1>1, Kinds DEF TimerEnter
      <3>2. Unhired(TimerThread)
        BY <1>1, <1>0, <1>t, Kinds DEF TimerEnter, Unhired
      <3> QED
        BY <3>1, <3>2 DEF Staffs, Tenured
    <2>3. WakeInv'
      BY <1>0, <2>1, Kinds, PlainWake
    <2> QED
      BY <1>0, <2>1, <2>2, <2>3, PlainQueue, PlainCounts
  <1>2. CASE \E o \in Timers : TimerExpire(TimerThread, o)
    <2>0. PICK o \in Timers : TimerExpire(TimerThread, o)
      BY <1>2
    <2>1. Plain(TimerThread)
      <3>1. TimerThread \notin Workers /\ queue' = queue
        BY <2>0, Kinds DEF TimerExpire
      <3>2. \A x \in Objs : obj'[x].pending = obj[x].pending /\ obj'[x].running = obj[x].running
        BY <2>0 DEF TimerExpire
      <3>3. pool'.busy = pool.busy
        BY <2>0 DEF TimerExpire
      <3> QED
        BY <3>1, <3>2, <3>3 DEF Plain
    <2>2. Staffs(TimerThread)
      <3>1. TimerThread \notin Workers /\ pool'.workers = pool.workers
        BY <2>0, Kinds DEF TimerExpire
      <3>2. Unhired(TimerThread)
        BY <2>0, <1>0, <1>t, Kinds DEF TimerExpire, Unhired
      <3> QED
        BY <3>1, <3>2 DEF Staffs, Tenured
    <2>3. WakeInv'
      BY <1>0, <2>1, Kinds, PlainWake
    <2> QED
      BY <1>0, <2>1, <2>2, <2>3, PlainQueue, PlainCounts
  <1>3. CASE TimerSubmit(TimerThread)
    <2>1. cur[TimerThread] \in Objs /\ TimerThread \notin Workers
      BY <1>3, <1>0, Kinds DEF TimerSubmit, ThreadsInv, TimerThreadOK
    <2>2. /\ poolCs = NoOne /\ queue' = IF obj[cur[TimerThread]].pending = 0 THEN Queued(cur[TimerThread]) ELSE queue
      BY <1>3 DEF TimerSubmit, Submit
    <2>3. /\ obj'[cur[TimerThread]].pending = obj[cur[TimerThread]].pending + 1 /\
               \A x \in Objs \ {cur[TimerThread]} : obj'[x] = obj[x]
          /\ obj'[cur[TimerThread]].running = obj[cur[TimerThread]].running
      BY <1>3, TimerSubmitDoes DEF ObjGoes
    <2>4. /\ QueueInv' /\ QueueLength \in Nat
          /\ QueueLength' = QueueLength + (IF obj[cur[TimerThread]].pending = 0 THEN 1 ELSE 0)
      BY <1>0, <2>1, <2>2, <2>3, SubmitQueue
    <2> DEFINE busy == pool.busy + (IF obj[cur[TimerThread]].pending = 0 THEN 1 ELSE 0)
    <2>5. \/ /\ \E w \in Workers : Hired(TimerThread, w)
             /\ PoolGoes(pool.ref + 1, pool.objcount, pool.shutdown, pool.workers + 1, busy)
          \/ /\ Unhired(TimerThread)
             /\ PoolGoes(pool.ref, pool.objcount, pool.shutdown, pool.workers, busy)
      BY <1>3, TimerSubmitDoes
    <2>6. Staffs(TimerThread) /\ pool'.busy = busy
      BY <1>0, <2>1, <2>5, SubmitStaff
    <2>7. \A x \in Objs : obj'[x].running = obj[x].running
      BY <2>3
    <2>8. CountInv'
      BY <1>0, <2>1, <2>4, <2>6, <2>7, SubmitCounts
    <2>9. WakeInv'
      <3>1. \E p : Submit(cur[TimerThread], TimerThread, p)
        BY <1>3 DEF TimerSubmit
      <3> QED
        BY <1>0, <2>1, <2>3, <3>1, SubmitWake
    <2> QED
      BY <2>4, <2>8, <2>9
  <1>4. CASE TimerLeave(TimerThread)
    <2>1. Plain(TimerThread)
      <3>1. TimerThread \notin Workers /\ queue' = queue
        BY <1>4, Kinds DEF TimerLeave
      <3>2. \A o \in Objs : obj'[o].pending = obj[o].pending /\ obj'[o].running = obj[o].running
        BY <1>4 DEF TimerLeave
      <3>3. pool'.busy = pool.busy
        BY <1>4 DEF TimerLeave
      <3> QED
        BY <3>1, <3>2, <3>3 DEF Plain
    <2>2. Staffs(TimerThread)
      <3>1. TimerThread \notin Workers /\ pool'.workers = pool.workers
        BY <1>4, Kinds DEF TimerLeave
      <3>2. Unhired(TimerThread)
        BY <1>4, <1>0, <1>t, Kinds DEF TimerLeave, Unhired
      <3> QED
        BY <3>1, <3>2 DEF Staffs, Tenured
    <2>3. WakeInv'
      BY <1>0, <2>1, Kinds, PlainWake
    <2> QED
      BY <1>0, <2>1, <2>2, <2>3, PlainQueue, PlainCounts
  <1> QED
    BY <1>1, <1>2, <1>3, <1>4 DEF TimerStep

LEMMA ReleaseCounts ==
  ASSUME TypesInv, ThreadsInv, BirthInv, QueueInv, CountInv, WakeInv, NEW t \in Clients \cup Workers, LastRelease(t)
  PROVE  QueueInv' /\ CountInv' /\ WakeInv'
  <1>0. t \in Threads /\ TypesInv' /\ ThreadsInv' /\ Moved(t)
    BY ReleaseThreads, Kinds
  <1>t. pc \in [Threads -> Places]
    BY DEF TypesInv
  <1>1. CASE Destroy(t)
    <2>1. Plain(t)
      <3>1. pc[t] = "destroy" /\ (t \in Workers => pc'[t] = "unlock_pool") /\ queue' = queue
        BY <1>1, <1>0, <1>t DEF Destroy
      <3>2. \A o \in Objs : obj'[o].pending = obj[o].pending /\ obj'[o].running = obj[o].running
        BY <1>1, DestroyDoes DEF ObjGoes
      <3>3. pool'.busy = pool.busy /\ pool'.workers = pool.workers
        BY <1>1 DEF Destroy
      <3> QED
        BY <3>1, <3>2, <3>3 DEF Plain
    <2>2. Staffs(t)
      <3>1. pc[t] = "destroy" /\ (t \in Workers => pc'[t] = "unlock_pool") /\ queue' = queue
        BY <1>1, <1>0, <1>t DEF Destroy
      <3>2. pool'.workers = pool.workers
        BY <1>1 DEF Destroy
      <3>3. Unhired(t)
        BY <1>1, <1>0, <1>t, Kinds DEF Destroy, Unhired
      <3> QED
        BY <3>1, <3>2, <3>3 DEF Staffs, Tenured
    <2>3. WakeInv'
      <3>1. pc[t] = "destroy" /\ (t \in Workers => pc'[t] = "unlock_pool") /\ queue' = queue
        BY <1>1, <1>0, <1>t DEF Destroy
      <3> QED
        BY <1>0, <2>1, <3>1, PlainWake DEF ComingPlaces
    <2> QED
      BY <1>0, <2>1, <2>2, <2>3, PlainQueue, PlainCounts
  <1>2. CASE UnlockPool(t)
    <2>1. Plain(t)
      <3>1. pc[t] = "unlock_pool" /\ (t \in Workers => pc'[t] = "free") /\ queue' = queue
        BY <1>2, <1>0, <1>t DEF UnlockPool
      <3>2. \A o \in Objs : obj'[o].pending = obj[o].pending /\ obj'[o].running = obj[o].running
        BY <1>2 DEF UnlockPool
      <3>3. pool'.busy = pool.busy /\ pool'.workers = pool.workers
        BY <1>2, UnlockPoolDoes DEF PoolGoes
      <3> QED
        BY <3>1, <3>2, <3>3 DEF Plain
    <2>2. Staffs(t)
      <3>1. pc[t] = "unlock_pool" /\ (t \in Workers => pc'[t] = "free") /\ queue' = queue
        BY <1>2, <1>0, <1>t DEF UnlockPool
      <3>2. pool'.workers = pool.workers
        BY <1>2, UnlockPoolDoes DEF PoolGoes
      <3>3. Unhired(t)
        BY <1>2, <1>0, <1>t, Kinds DEF UnlockPool, Unhired
      <3> QED
        BY <3>1, <3>2, <3>3 DEF Staffs, Tenured
    <2>3. WakeInv'
      <3>1. pc[t] = "unlock_pool" /\ (t \in Workers => pc'[t] = "free") /\ queue' = queue
        BY <1>2, <1>0, <1>t DEF UnlockPool
      <3> QED
        BY <1>0, <2>1, <3>1, PlainWake DEF ComingPlaces
    <2> QED
      BY <1>0, <2>1, <2>2, <2>3, PlainQueue, PlainCounts
  <1>3. CASE FreeObject(t)
    <2>1. Plain(t)
      <3>1. pc[t] = "free" /\ (t \in Workers => pc'[t] = "loop") /\ queue' = queue
        BY <1>3, <1>0, <1>t DEF FreeObject
      <3>2. \A o \in Objs : obj'[o].pending = obj[o].pending /\ obj'[o].running = obj[o].running
        BY <1>3, FreeObjectDoes DEF ObjGoes
      <3>3. pool'.busy = pool.busy /\ pool'.workers = pool.workers
        BY <1>3, FreeObjectDoes DEF PoolGoes
      <3> QED
        BY <3>1, <3>2, <3>3 DEF Plain
    <2>2. Staffs(t)
      <3>1. pc[t] = "free" /\ (t \in Workers => pc'[t] = "loop") /\ queue' = queue
        BY <1>3, <1>0, <1>t DEF FreeObject
      <3>2. pool'.workers = pool.workers
        BY <1>3, FreeObjectDoes DEF PoolGoes
      <3>3. Unhired(t)
        <4>1. CASE t \in Workers
          BY <1>3, <1>0, <1>t, <4>1, Kinds DEF FreeObject, Unhired
        <4>2. CASE t \in Clients
          <5>1. After(t, todo[t]) /\ todo[t] \in Seq(Steps)
            BY <1>3, <4>2, FreeObjectDoes
          <5> QED
            BY <4>2, <5>1, AfterAlone, Kinds DEF Alone, Unhired
        <4> QED
          BY <4>1, <4>2
      <3> QED
        BY <3>1, <3>2, <3>3 DEF Staffs, Tenured
    <2>3. WakeInv'
      <3>1. pc[t] = "free" /\ (t \in Workers => pc'[t] = "loop") /\ queue' = queue
        BY <1>3, <1>0, <1>t DEF FreeObject
      <3> QED
        BY <1>0, <2>1, <3>1, PlainWake DEF ComingPlaces
    <2> QED
      BY <1>0, <2>1, <2>2, <2>3, PlainQueue, PlainCounts
  <1>4. CASE UnrefPool(t)
    <2>1. Plain(t)
      <3>1. pc[t] = "unref" /\ (t \in Workers => pc'[t] = "none") /\ queue' = queue
        BY <1>4, <1>0, <1>t DEF UnrefPool
      <3>2. \A o \in Objs : obj'[o].pending = obj[o].pending /\ obj'[o].running = obj[o].running
        BY <1>4 DEF UnrefPool
      <3>3. pool'.busy = pool.busy /\ pool'.workers = pool.workers
        BY <1>4, UnrefPoolDoes DEF PoolGoes
      <3> QED
        BY <3>1, <3>2, <3>3 DEF Plain
    <2>2. Staffs(t)
      <3>1. pc[t] = "unref" /\ (t \in Workers => pc'[t] = "none") /\ queue' = queue
        BY <1>4, <1>0, <1>t DEF UnrefPool
      <3>2. pool'.workers = pool.workers
        BY <1>4, UnrefPoolDoes DEF PoolGoes
      <3>3. Unhired(t)
        <4>1. CASE t \in Workers
          BY <1>4, <1>0, <1>t, <4>1, Kinds DEF UnrefPool, Unhired
        <4>2. CASE t \in Clients
          <5>1. After(t, <<>>) /\ <<>> \in Seq(Steps)
            BY <1>4, <4>2, UnrefPoolDoes
          <5> QED
            BY <4>2, <5>1, AfterAlone, Kinds DEF Alone, Unhired
        <4> QED
          BY <4>1, <4>2
      <3> QED
        BY <3>1, <3>2, <3>3 DEF Staffs, Tenured
    <2>3. WakeInv'
      <3>1. pc[t] = "unref" /\ (t \in Workers => pc'[t] = "none") /\ queue' = queue
        BY <1>4, <1>0, <1>t DEF UnrefPool
      <3> QED
        BY <1>0, <2>1, <3>1, PlainWake DEF ComingPlaces
    <2> QED
      BY <1>0, <2>1, <2>2, <2>3, PlainQueue, PlainCounts
  <1> QED
    BY <1>1, <1>2, <1>3, <1>4 DEF LastRelease

LEMMA BeginCounts ==
  ASSUME TypesInv, ThreadsInv, QueueInv, CountInv, WakeInv, NEW t \in Clients, Begin(t)
  PROVE  QueueInv' /\ CountInv' /\ WakeInv'
  <1>0. t \in Threads /\ t \notin Workers /\ Moved(t) /\ pc \in [Threads -> Places]
    BY BeginThreads, Kinds DEF TypesInv
  <1>1. queue' = queue /\ obj' = obj /\ pool' = pool
    BY DEF Begin
  <1>2. Unhired(t)
    BY <1>0, Kinds DEF Begin, Unhired
  <1>3. Plain(t) /\ Staffs(t)
    BY <1>0, <1>1, <1>2 DEF Plain, Staffs, Tenured
  <1> QED
    BY <1>0, <1>3, PlainQueue, PlainCounts, PlainWake

LEMMA ClientCounts ==
  ASSUME TypesInv, ThreadsInv, BirthInv, QueueInv, CountInv, WakeInv, NEW t \in Clients, ClientStep(t)
  PROVE  QueueInv' /\ CountInv' /\ WakeInv'
  <1>0. t \in Threads /\ TypesInv' /\ ThreadsInv' /\ Moved(t)
    BY ClientThreads, Kinds
  <1>t. pc \in [Threads -> Places]
    BY DEF TypesInv
  <1>1. CASE PoolLock(t)
    <2>1. Plain(t)
      <3>1. t \notin Workers /\ queue' = queue /\ pc[t] = "pool_lock"
        BY <1>1, Kinds DEF PoolLock
      <3>2. cur[t] \in Objs /\ ~Born(cur[t])
        BY <1>0, <3>1, ClientCur DEF BirthInv
      <3>3. obj[cur[t]].pending = 0 /\ obj[cur[t]].running = 0
        BY <3>2 DEF BirthInv
      <3>4. \/ obj' = obj /\ pool' = pool
            \/ ObjGoes(cur[t], "live", 1, FALSE, 0, 0, 0, FALSE) /\ pool'.busy = pool.busy
        BY <1>1, PoolLockDoes DEF PoolGoes
      <3>5. \A o \in Objs : obj'[o].pending = obj[o].pending /\ obj'[o].running = obj[o].running
        BY <3>2, <3>3, <3>4 DEF ObjGoes
      <3>6. pool'.busy = pool.busy
        BY <3>4
      <3> QED
        BY <3>1, <3>5, <3>6 DEF Plain
    <2>2. Staffs(t)
      <3>1. t \notin Workers
        BY Kinds
      <3>2. \/ Alone(t) /\ pool' = pool
            \/ pool'.workers = pool.workers + 1 /\ \E w \in Workers : Hired(t, w)
            \/ pool'.workers = pool.workers /\ \A w \in Workers : pc'[w] = pc[w]
        BY <1>1, PoolLockDoes DEF PoolGoes
      <3>3. CASE Alone(t) /\ pool' = pool
        BY <3>1, <3>3, Kinds DEF Staffs, Tenured, Unhired, Alone
      <3>4. CASE pool'.workers = pool.workers + 1 /\ \E w \in Workers : Hired(t, w)
        BY <3>1, <3>4 DEF Staffs, Tenured
      <3>5. CASE pool'.workers = pool.workers /\ \A w \in Workers : pc'[w] = pc[w]
        BY <3>1, <3>5 DEF Staffs, Tenured, Unhired
      <3> QED
        BY <3>2, <3>3, <3>4, <3>5
    <2>3. WakeInv'
      BY <1>0, <2>1, Kinds, PlainWake
    <2> QED
      BY <1>0, <2>1, <2>2, <2>3, PlainQueue, PlainCounts
  <1>2. CASE TimerLock(t)
    <2>1. Plain(t)
      <3>1. t \notin Workers /\ queue' = queue
        BY <1>2, Kinds DEF TimerLock
      <3>2. \A o \in Objs : obj'[o].pending = obj[o].pending /\ obj'[o].running = obj[o].running
        BY <1>2 DEF TimerLock
      <3>3. pool'.busy = pool.busy
        BY <1>2 DEF TimerLock
      <3> QED
        BY <3>1, <3>2, <3>3 DEF Plain
    <2>2. Staffs(t)
      <3>1. t \notin Workers /\ pool'.workers = pool.workers
        BY <1>2, Kinds DEF TimerLock
      <3>2. Unhired(t)
        BY <1>2, <1>0, <1>t, Kinds DEF TimerLock, Unhired
      <3> QED
        BY <3>1, <3>2 DEF Staffs, Tenured
    <2>3. WakeInv'
      BY <1>0, <2>1, Kinds, PlainWake
    <2> QED
      BY <1>0, <2>1, <2>2, <2>3, PlainQueue, PlainCounts
  <1>3. CASE Initialize(t)
    <2>1. Plain(t)
      <3>1. t \notin Workers /\ queue' = queue
        BY <1>3, Kinds DEF Initialize
      <3>2. \A o \in Objs : obj'[o].pending = obj[o].pending /\ obj'[o].running = obj[o].running
        <4>1. \/ obj' = obj
              \/ /\ \A x \in Objs \ {cur[t]} : obj'[x] = obj[x]
                 /\ obj'[cur[t]].pending = obj[cur[t]].pending /\ obj'[cur[t]].running = obj[cur[t]].running
          BY <1>3, InitializeDoes DEF ObjGoes
        <4> QED
          BY <4>1
      <3>3. pool'.busy = pool.busy
        BY <1>3 DEF Initialize
      <3> QED
        BY <3>1, <3>2, <3>3 DEF Plain
    <2>2. Staffs(t)
      <3>1. t \notin Workers /\ pool'.workers = pool.workers
        BY <1>3, Kinds DEF Initialize
      <3>2. Unhired(t)
        BY <1>3, InitializeDoes, Kinds DEF Alone, Unhired
      <3> QED
        BY <3>1, <3>2 DEF Staffs, Tenured
    <2>3. WakeInv'
      BY <1>0, <2>1, Kinds, PlainWake
    <2> QED
      BY <1>0, <2>1, <2>2, <2>3, PlainQueue, PlainCounts
  <1>4. CASE PostWork(t)
    <2>1. cur[t] \in Objs /\ t \notin Workers
      BY <1>4, <1>0, ClientCur, Kinds DEF PostWork, ThreadsInv, TimerThreadOK
    <2>2. /\ poolCs = NoOne /\ queue' = IF obj[cur[t]].pending = 0 THEN Queued(cur[t]) ELSE queue
      BY <1>4 DEF PostWork, Submit
    <2>3. /\ obj'[cur[t]].pending = obj[cur[t]].pending + 1 /\ \A x \in Objs \ {cur[t]} : obj'[x] = obj[x]
          /\ obj'[cur[t]].running = obj[cur[t]].running
      BY <1>4, PostWorkDoes DEF ObjGoes
    <2>4. /\ QueueInv' /\ QueueLength \in Nat
          /\ QueueLength' = QueueLength + (IF obj[cur[t]].pending = 0 THEN 1 ELSE 0)
      BY <1>0, <2>1, <2>2, <2>3, SubmitQueue
    <2> DEFINE busy == pool.busy + (IF obj[cur[t]].pending = 0 THEN 1 ELSE 0)
    <2>5. \/ /\ \E w \in Workers : Hired(t, w)
             /\ PoolGoes(pool.ref + 1, pool.objcount, pool.shutdown, pool.workers + 1, busy)
          \/ /\ Unhired(t)
             /\ PoolGoes(pool.ref, pool.objcount, pool.shutdown, pool.workers, busy)
      BY <1>4, PostWorkDoes
    <2>6. Staffs(t) /\ pool'.busy = busy
      BY <1>0, <2>1, <2>5, SubmitStaff
    <2>7. \A x \in Objs : obj'[x].running = obj[x].running
      BY <2>3
    <2>8. CountInv'
      BY <1>0, <2>1, <2>4, <2>6, <2>7, SubmitCounts
    <2>9. WakeInv'
      <3>1. \E p : Submit(cur[t], t, p)
        BY <1>4 DEF PostWork
      <3> QED
        BY <1>0, <2>1, <2>3, <3>1, SubmitWake
    <2> QED
      BY <2>4, <2>8, <2>9
  <1>5. CASE TpSetTimer(t)
    <2>1. Plain(t)
      <3>1. t \notin Workers /\ queue' = queue
        BY <1>5, Kinds DEF TpSetTimer
      <3>2. \A o \in Objs : obj'[o].pending = obj[o].pending /\ obj'[o].running = obj[o].running
        BY <1>5 DEF TpSetTimer
      <3>3. pool'.busy = pool.busy
        BY <1>5 DEF TpSetTimer
      <3> QED
        BY <3>1, <3>2, <3>3 DEF Plain
    <2>2. Staffs(t)
      <3>1. t \notin Workers /\ pool'.workers = pool.workers
        BY <1>5, Kinds DEF TpSetTimer
      <3>2. Unhired(t)
        BY <1>5, TpSetTimerDoes, Kinds DEF Alone, Unhired
      <3> QED
        BY <3>1, <3>2 DEF Staffs, Tenured
    <2>3. WakeInv'
      BY <1>0, <2>1, Kinds, PlainWake
    <2> QED
      BY <1>0, <2>1, <2>2, <2>3, PlainQueue, PlainCounts
  <1>6. CASE Cancel(t)
    <2>1. QueueInv' /\ QueueLength \in Nat /\ QueueLength' \in Nat /\ QueueLength' <= QueueLength
      BY <1>6, <1>0, CancelQueue
    <2>2. t \notin Workers /\ pool' = pool
      BY <1>6, Kinds DEF Cancel
    <2>3. Staffs(t)
      BY <1>6, <2>2, CancelDoes, Kinds DEF Alone, Unhired, Staffs, Tenured
    <2>4. Callbacks' = Callbacks /\ \A o : Runs(o)' = Runs(o)
      BY <1>0, <2>2, SameCallbacks
    <2>5. RunsInv'
      <3>1. \A o \in Objs : obj'[o].running = obj[o].running
        BY <1>6, CancelDoes DEF ObjGoes
      <3> QED
        BY <2>4, <3>1, Counts DEF RunsInv
    <2>6. BusyInv'
      <3> DEFINE c == Cardinality(Callbacks)
      <3>1. c \in Nat /\ pool.busy \in Int /\ pool.busy >= QueueLength + c
        BY WorkerSets, Counts DEF Callbacks, BusyInv, TypesInv, PoolRecords
      <3> HIDE DEF c
      <3>2. pool.busy >= QueueLength' + c
        BY <2>1, <3>1
      <3> QED
        BY <2>2, <2>4, <3>2 DEF BusyInv, c
    <2>7. WakeInv'
      BY <1>6, <1>0, CancelWake
    <2> QED
      BY <1>0, <2>1, <2>3, <2>5, <2>6, <2>7, StaffCount, Counts, CountsNext
  <1>7. CASE Wait(t)
    <2>1. Plain(t)
      <3>1. t \notin Workers /\ queue' = queue
        BY <1>7, Kinds DEF Wait
      <3>2. \A o \in Objs : obj'[o].pending = obj[o].pending /\ obj'[o].running = obj[o].running
        BY <1>7 DEF Wait
      <3>3. pool'.busy = pool.busy
        BY <1>7 DEF Wait
      <3> QED
        BY <3>1, <3>2, <3>3 DEF Plain
    <2>2. Staffs(t)
      <3>1. t \notin Workers /\ pool'.workers = pool.workers
        BY <1>7, Kinds DEF Wait
      <3>2. Unhired(t)
        BY <1>7, WaitDoes, Kinds DEF Alone, Unhired
      <3> QED
        BY <3>1, <3>2 DEF Staffs, Tenured
    <2>3. WakeInv'
      BY <1>0, <2>1, Kinds, PlainWake
    <2> QED
      BY <1>0, <2>1, <2>2, <2>3, PlainQueue, PlainCounts
  <1>8. CASE TimerUnlock(t)
    <2>1. Plain(t)
      <3>1. t \notin Workers /\ queue' = queue
        BY <1>8, Kinds DEF TimerUnlock
      <3>2. \A o \in Objs : obj'[o].pending = obj[o].pending /\ obj'[o].running = obj[o].running
        BY <1>8 DEF TimerUnlock
      <3>3. pool'.busy = pool.busy
        BY <1>8 DEF TimerUnlock
      <3> QED
        BY <3>1, <3>2, <3>3 DEF Plain
    <2>2. Staffs(t)
      <3>1. t \notin Workers /\ pool'.workers = pool.workers
        BY <1>8, Kinds DEF TimerUnlock
      <3>2. Unhired(t)
        BY <1>8, <1>0, <1>t, Kinds DEF TimerUnlock, Unhired
      <3> QED
        BY <3>1, <3>2 DEF Staffs, Tenured
    <2>3. WakeInv'
      BY <1>0, <2>1, Kinds, PlainWake
    <2> QED
      BY <1>0, <2>1, <2>2, <2>3, PlainQueue, PlainCounts
  <1>9. CASE Drop(t)
    <2>1. Plain(t)
      <3>1. t \notin Workers /\ queue' = queue
        BY <1>9, Kinds DEF Drop
      <3>2. \A o \in Objs : obj'[o].pending = obj[o].pending /\ obj'[o].running = obj[o].running
        BY <1>9, DropDoes DEF ObjGoes
      <3>3. pool'.busy = pool.busy
        BY <1>9 DEF Drop
      <3> QED
        BY <3>1, <3>2, <3>3 DEF Plain
    <2>2. Staffs(t)
      <3>1. t \notin Workers /\ pool'.workers = pool.workers
        BY <1>9, Kinds DEF Drop
      <3>2. Unhired(t)
        BY <1>9, DropDoes, Kinds DEF Alone, Unhired
      <3> QED
        BY <3>1, <3>2 DEF Staffs, Tenured
    <2>3. WakeInv'
      BY <1>0, <2>1, Kinds, PlainWake
    <2> QED
      BY <1>0, <2>1, <2>2, <2>3, PlainQueue, PlainCounts
  <1>10. CASE Members(t)
    <2>1. Plain(t)
      <3>1. t \notin Workers /\ queue' = queue
        BY <1>10, Kinds DEF Members
      <3>2. \A o \in Objs : obj'[o].pending = obj[o].pending /\ obj'[o].running = obj[o].running
        BY <1>10 DEF Members
      <3>3. pool'.busy = pool.busy
        BY <1>10 DEF Members
      <3> QED
        BY <3>1, <3>2, <3>3 DEF Plain
    <2>2. Staffs(t)
      <3>1. t \notin Workers /\ pool'.workers = pool.workers
        BY <1>10, Kinds DEF Members
      <3>2. Unhired(t)
        BY <1>10, <1>0, <1>t, Kinds DEF Members, Unhired
      <3> QED
        BY <3>1, <3>2 DEF Staffs, Tenured
    <2>3. WakeInv'
      BY <1>0, <2>1, Kinds, PlainWake
    <2> QED
      BY <1>0, <2>1, <2>2, <2>3, PlainQueue, PlainCounts
  <1>11. CASE MemberStep(t)
    <2>1. Plain(t)
      <3>1. t \notin Workers /\ queue' = queue
        BY <1>11, Kinds DEF MemberStep
      <3>2. \A o \in Objs : obj'[o].pending = obj[o].pending /\ obj'[o].running = obj[o].running
        <4>1. /\ \A x \in Objs \ {Head(todo[t])} : obj'[x] = obj[x]
              /\ obj'[Head(todo[t])].pending = obj[Head(todo[t])].pending /\
                   obj'[Head(todo[t])].running = obj[Head(todo[t])].running
          BY <1>11, MemberStepDoes DEF ObjGoes
        <4> QED
          BY <4>1
      <3>3. pool'.busy = pool.busy
        BY <1>11 DEF MemberStep
      <3> QED
        BY <3>1, <3>2, <3>3 DEF Plain
    <2>2. Staffs(t)
      <3>1. t \notin Workers /\ pool'.workers = pool.workers
        BY <1>11, Kinds DEF MemberStep
      <3>2. Unhired(t)
        BY <1>11, MemberStepDoes, Kinds DEF Alone, Unhired
      <3> QED
        BY <3>1, <3>2 DEF Staffs, Tenured
    <2>3. WakeInv'
      BY <1>0, <2>1, Kinds, PlainWake
    <2> QED
      BY <1>0, <2>1, <2>2, <2>3, PlainQueue, PlainCounts
  <1>12. CASE MemberTimer(t)
    <2>1. Plain(t)
      <3>1. t \notin Workers /\ queue' = queue
        BY <1>12, Kinds DEF MemberTimer
      <3>2. \A o \in Objs : obj'[o].pending = obj[o].pending /\ obj'[o].running = obj[o].running
        BY <1>12 DEF MemberTimer
      <3>3. pool'.busy = pool.busy
        BY <1>12 DEF MemberTimer
      <3> QED
        BY <3>1, <3>2, <3>3 DEF Plain
    <2>2. Staffs(t)
      <3>1. t \notin Workers /\ pool'.workers = pool.workers
        BY <1>12, Kinds DEF MemberTimer
      <3>2. Unhired(t)
        BY <1>12, <1>0, <1>t, Kinds DEF MemberTimer, Unhired
      <3> QED
        BY <3>1, <3>2 DEF Staffs, Tenured
    <2>3. WakeInv'
      BY <1>0, <2>1, Kinds, PlainWake
    <2> QED
      BY <1>0, <2>1, <2>2, <2>3, PlainQueue, PlainCounts
  <1>13. CASE MembersLeave(t)
    <2>1. Plain(t)
      <3>1. t \notin Workers /\ queue' = queue
        BY <1>13, Kinds DEF MembersLeave
      <3>2. \A o \in Objs : obj'[o].pending = obj[o].pending /\ obj'[o].running = obj[o].running
        BY <1>13 DEF MembersLeave
      <3>3. pool'.busy = pool.busy
        BY <1>13 DEF MembersLeave
      <3> QED
        BY <3>1, <3>2, <3>3 DEF Plain
    <2>2. Staffs(t)
      <3>1. t \notin Workers /\ pool'.workers = pool.workers
        BY <1>13, Kinds DEF MembersLeave
      <3>2. Unhired(t)
        BY <1>13, MembersLeaveDoes, Kinds DEF Alone, Unhired
      <3> QED
        BY <3>1, <3>2 DEF Staffs, Tenured
    <2>3. WakeInv'
      BY <1>0, <2>1, Kinds, PlainWake
    <2> QED
      BY <1>0, <2>1, <2>2, <2>3, PlainQueue, PlainCounts
  <1>14. CASE MemberDone(t)
    <2>1. Plain(t)
      <3>1. t \notin Workers /\ queue' = queue
        BY <1>14, Kinds DEF MemberDone
      <3>2. \A o \in Objs : obj'[o].pending = obj[o].pending /\ obj'[o].running = obj[o].running
        BY <1>14, MemberDoneDoes DEF ObjGoes
      <3>3. pool'.busy = pool.busy
        BY <1>14 DEF MemberDone
      <3> QED
        BY <3>1, <3>2, <3>3 DEF Plain
    <2>2. Staffs(t)
      <3>1. t \notin Workers /\ pool'.workers = pool.workers
        BY <1>14, Kinds DEF MemberDone
      <3>2. Unhired(t)
        BY <1>14, MemberDoneDoes, Kinds DEF Alone, Unhired
      <3> QED
        BY <3>1, <3>2 DEF Staffs, Tenured
    <2>3. WakeInv'
      BY <1>0, <2>1, Kinds, PlainWake
    <2> QED
      BY <1>0, <2>1, <2>2, <2>3, PlainQueue, PlainCounts
  <1>15. CASE TpReleaseCleanupGroup(t)
    <2>1. Plain(t)
      <3>1. t \notin Workers /\ queue' = queue
        BY <1>15, Kinds DEF TpReleaseCleanupGroup
      <3>2. \A o \in Objs : obj'[o].pending = obj[o].pending /\ obj'[o].running = obj[o].running
        BY <1>15 DEF TpReleaseCleanupGroup
      <3>3. pool'.busy = pool.busy
        BY <1>15 DEF TpReleaseCleanupGroup
      <3> QED
        BY <3>1, <3>2, <3>3 DEF Plain
    <2>2. Staffs(t)
      <3>1. t \notin Workers /\ pool'.workers = pool.workers
        BY <1>15, Kinds DEF TpReleaseCleanupGroup
      <3>2. Unhired(t)
        BY <1>15, TpReleaseCleanupGroupDoes, Kinds DEF Alone, Unhired
      <3> QED
        BY <3>1, <3>2 DEF Staffs, Tenured
    <2>3. WakeInv'
      BY <1>0, <2>1, Kinds, PlainWake
    <2> QED
      BY <1>0, <2>1, <2>2, <2>3, PlainQueue, PlainCounts
  <1>16. CASE TpReleasePool(t)
    <2>1. Plain(t)
      <3>1. t \notin Workers /\ queue' = queue
        BY <1>16, Kinds DEF TpReleasePool
      <3>2. \A o \in Objs : obj'[o].pending = obj[o].pending /\ obj'[o].running = obj[o].running
        BY <1>16 DEF TpReleasePool
      <3>3. pool'.busy = pool.busy
        BY <1>16, TpReleasePoolDoes DEF PoolGoes
      <3> QED
        BY <3>1, <3>2, <3>3 DEF Plain
    <2>2. Staffs(t)
      <3>1. t \notin Workers /\ pool'.workers = pool.workers
        BY <1>16, Kinds, TpReleasePoolDoes DEF PoolGoes
      <3>2. Unhired(t)
        BY <1>16, TpReleasePoolDoes
      <3> QED
        BY <3>1, <3>2 DEF Staffs, Tenured
    <2>3. WakeInv'
      BY <1>0, <2>1, Kinds, PlainWake
    <2> QED
      BY <1>0, <2>1, <2>2, <2>3, PlainQueue, PlainCounts
  <1>17. CASE TpSetPoolMaxThreads(t)
    <2>1. Plain(t)
      <3>1. t \notin Workers /\ queue' = queue
        BY <1>17, Kinds DEF TpSetPoolMaxThreads
      <3>2. \A o \in Objs : obj'[o].pending = obj[o].pending /\ obj'[o].running = obj[o].running
        BY <1>17 DEF TpSetPoolMaxThreads
      <3>3. pool'.busy = pool.busy
        BY <1>17, TpSetPoolMaxThreadsDoes DEF PoolGoes
      <3> QED
        BY <3>1, <3>2, <3>3 DEF Plain
    <2>2. Staffs(t)
      <3>1. t \notin Workers /\ pool'.workers = pool.workers
        BY <1>17, Kinds, TpSetPoolMaxThreadsDoes DEF PoolGoes
      <3>2. Unhired(t)
        BY <1>17, TpSetPoolMaxThreadsDoes, Kinds DEF Alone, Unhired
      <3> QED
        BY <3>1, <3>2 DEF Staffs, Tenured
    <2>3. WakeInv'
      BY <1>0, <2>1, Kinds, PlainWake
    <2> QED
      BY <1>0, <2>1, <2>2, <2>3, PlainQueue, PlainCounts
  <1>18. CASE TpSetPoolMinThreads(t)
    <2>1. Plain(t)
      <3>1. t \notin Workers /\ queue' = queue /\ obj' = obj
        BY <1>18, Kinds DEF TpSetPoolMinThreads
      <3>2. pool'.busy = pool.busy
        BY <1>18, TpSetPoolMinThreadsDoes DEF PoolGoes
      <3> QED
        BY <3>1, <3>2 DEF Plain
    <2>2. PICK S \in SUBSET Spare :
             /\ PoolGoes(pool.ref + Cardinality(S), pool.objcount, pool.shutdown, pool.workers + Cardinality(S),
                  pool.busy)
             /\ pc' = [x \in Threads |-> IF x = t THEN "idle" ELSE IF x \in S THEN "start" ELSE pc[x]]
      BY <1>18, TpSetPoolMinThreadsDoes
    <2>3. \A w \in Workers : pc'[w] = IF w \in S THEN "start" ELSE pc[w]
      BY <2>2, Kinds
    <2>4. Employed' = Employed \cup S /\ Employed \cap S = {}
      BY <2>2, <2>3 DEF Employed, Spare
    <2>5. IsFiniteSet(S) /\ IsFiniteSet(Employed) /\ Cardinality({}) = 0
      BY <2>2, WorkerSets, FS_EmptySet DEF Employed, Spare
    <2>6. Cardinality(Employed') = Cardinality(Employed) + Cardinality(S)
      <3>1. Cardinality(Employed \cup S) = Cardinality(Employed) + Cardinality(S) - Cardinality(Employed \cap S)
        BY <2>5, FS_Union
      <3>2. Cardinality(Employed) \in Nat /\ Cardinality(S) \in Nat
        BY <2>5, FS_CardinalityType
      <3>3. Cardinality(Employed \cap S) = 0 /\ Cardinality(Employed') = Cardinality(Employed \cup S)
        BY <2>4, <2>5
      <3> QED
        BY <3>1, <3>2, <3>3
    <2>7. StaffInv'
      BY <2>2, <2>6, Counts DEF StaffInv, PoolGoes
    <2>8. QueueInv' /\ RunsInv' /\ BusyInv'
      BY <1>0, <2>1, PlainQueue, PlainRuns
    <2>9. WakeInv'
      BY <1>0, <2>1, Kinds, PlainWake
    <2> QED
      BY <2>7, <2>8, <2>9, CountsNext
  <1> QED
    BY <1>1, <1>2, <1>3, <1>4, <1>5, <1>6, <1>7, <1>8, <1>9, <1>10, <1>11, <1>12, <1>13, <1>14, <1>15, <1>16, <1>17,
         <1>18 DEF ClientStep

-----------------------------------------------------------------------------
(* The counts are exact.                                                   *)

LEMMA NewObjects ==
  ASSUME Init
  PROVE  /\ obj \in [Objs -> ObjRecords]
         /\ \A o \in Objs : obj[o].state = "none" /\ obj[o].pending = 0 /\ obj[o].running = 0
  <1> DEFINE f == FreshObject
             r == [f EXCEPT !.state = "none", !.ref = 0]
  <1>1. f \in ObjRecords /\ f.pending = 0 /\ f.running = 0
    BY DEF FreshObject, ObjRecords
  <1>2. obj = [o \in Objs |-> r]
    BY DEF Init
  <1> HIDE DEF f
  <1>3. r = [state |-> "none", ref |-> 0, shutdown |-> f.shutdown, pending |-> f.pending, running |-> f.running,
             associated |-> f.associated, member |-> f.member]
    <2>1. DOMAIN f = {"state", "ref", "shutdown", "pending", "running", "associated", "member"}
      BY <1>1 DEF ObjRecords
    <2>2. r = [k \in DOMAIN f |-> IF k = "ref" THEN 0 ELSE IF k = "state" THEN "none" ELSE f[k]]
      BY <2>1
    <2> QED
      BY <2>1, <2>2
  <1> HIDE DEF r
  <1>4. f.shutdown \in BOOLEAN /\ f.associated \in Int /\ f.member \in BOOLEAN
    BY <1>1 DEF ObjRecords
  <1>5. r \in ObjRecords
    BY <1>1, <1>3, <1>4 DEF ObjRecords
  <1>6. r.state = "none" /\ r.pending = 0 /\ r.running = 0
    BY <1>1, <1>3
  <1> QED
    BY <1>2, <1>5, <1>6

LEMMA PoolInit ==
  ASSUME Init
  PROVE  PoolInv
  <1>1. TypesInv
    <2>1. pool \in PoolRecords
      <3>1. Max0 \in Int
        BY PoolAssumption
      <3> QED
        BY <3>1 DEF Init, PoolRecords
    <2>2. group \in GroupRecords
      BY DEF Init, GroupRecords
    <2>3. obj \in [Objs -> ObjRecords]
      BY NewObjects
    <2>4. timer \in [Objs -> TimerRecords]
      BY DEF Init, TimerRecords
    <2>5. pc \in [Threads -> Places] /\ cur \in [Threads -> Objs \cup {NoOne}]
      BY DEF Init, Places
    <2>6. inst \in [Workers -> InstRecords]
      BY DEF Init, InstRecords, FreshInstance
    <2>7. queue \in [1..3 -> Seq(Objs)] /\ todo \in [Clients -> Seq(Objs \cup Steps)]
      BY DEF Init
    <2>8. script \in [Clients -> Seq(Calls)]
      BY ProgramAssumption DEF Init
    <2>9. call \in [Clients -> Calls \cup {NoCall}]
      BY DEF Init
    <2> QED
      BY <2>1, <2>2, <2>3, <2>4, <2>5, <2>6, <2>7, <2>8, <2>9 DEF Init, TypesInv
  <1>2. ThreadsInv
    <2>1. \A w \in Workers : WorkerOK(w)
      BY Kinds DEF Init, WorkerOK
    <2>2. TimerThreadOK
      BY Kinds DEF Init, TimerThreadOK
    <2>3. \A t \in Clients : PlaceOK(t)
      BY Kinds DEF Init, PlaceOK, NoCall
    <2>4. ASSUME NEW t \in Clients PROVE WorkOK(t)
      <3>1. pc[t] = "idle" /\ cur[t] = NoOne /\ call[t] = NoCall /\ todo[t] = <<>> /\ groupCs = NoOne /\ t # NoOne
        BY Kinds DEF Init
      <3> QED
        BY <3>1, NothingLeft DEF WorkOK, NoCall, Walking
    <2> QED
      BY <2>1, <2>2, <2>3, <2>4 DEF ThreadsInv
  <1>3. \A o \in Objs : ~Born(o) /\ obj[o].pending = 0 /\ obj[o].running = 0
    BY NewObjects DEF Born
  <1>4. BirthInv
    <2>1. \A o \in Objs : ~timer[o].initialized /\ ~timer[o].pending /\ ~timer[o].due
      BY DEF Init
    <2>2. \A t \in Threads : cur[t] \notin Objs
      BY Kinds DEF Init
    <2>3. \A t \in Clients : ListBorn(todo[t], Walking(t)) /\ ~Allocates(t)
      BY NothingLeft DEF Init, ListBorn, Allocates, NoCall
    <2>4. ListBorn(group.members, TRUE)
      BY NothingLeft DEF Init, ListBorn
    <2> QED
      BY <1>3, <2>1, <2>2, <2>3, <2>4 DEF BirthInv
  <1>5. QueueInv
    <2>1. \A p \in 1..3 : queue[p] = <<>>
      BY DEF Init
    <2>2. \A w \in Workers : pc[w] # "rest"
      BY Kinds DEF Init
    <2> QED
      BY <1>3, <2>1, <2>2, NothingLeft DEF QueueInv, QueueOK, Distinct
  <1>6. CountInv
    <2>1. \A w \in Workers : pc[w] = "none"
      BY Kinds DEF Init
    <2>2. Employed = {} /\ Callbacks = {} /\ \A o : Runs(o) = {}
      BY <2>1 DEF Employed, Callbacks, Runs
    <2>3. Cardinality({}) = 0
      BY FS_EmptySet
    <2>4. pool.workers = 0 /\ pool.busy = 0
      BY DEF Init
    <2>5. Len(queue[1]) = 0 /\ Len(queue[2]) = 0 /\ Len(queue[3]) = 0
      BY NothingLeft DEF Init
    <2>6. StaffInv
      BY <2>2, <2>3, <2>4 DEF StaffInv
    <2>7. RunsInv
      BY <1>3, <2>2, <2>3 DEF RunsInv
    <2>8. QueueLength = 0
      BY <2>5 DEF QueueLength
    <2>9. BusyInv
      BY <2>2, <2>3, <2>4, <2>8 DEF BusyInv
    <2> QED
      BY <2>6, <2>7, <2>9, Counts
  <1>7. WakeInv
    <2>1. ~HasItem
      BY DEF Init, HasItem
    <2>2. Tokens = {}
      BY <1>1, <1>5, <2>1, NoTokens
    <2>3. IsFiniteSet(Tokens) /\ Cardinality(Tokens) = 0
      BY <2>2, FS_EmptySet
    <2> QED
      BY <2>3, ComingFinite DEF WakeInv
  <1> QED
    BY <1>1, <1>2, <1>4, <1>5, <1>6, <1>7 DEF PoolInv

\* A step of the pool is one of one thread.
LEMMA PoolNext ==
  ASSUME PoolInv, [Next]_vars
  PROVE  PoolInv'
  <1>0. TypesInv /\ ThreadsInv /\ BirthInv /\ QueueInv /\ CountInv /\ WakeInv
    BY DEF PoolInv
  <1>1. ASSUME NEW t \in Clients, Begin(t) PROVE PoolInv'
    BY <1>0, <1>1, BeginThreads, BeginBirth, BeginCounts DEF PoolInv
  <1>2. ASSUME NEW t \in Clients, ClientStep(t) PROVE PoolInv'
    BY <1>0, <1>2, ClientThreads, ClientBirth, ClientCounts DEF PoolInv
  <1>3. ASSUME NEW t \in Clients \cup Workers, LastRelease(t) PROVE PoolInv'
    BY <1>0, <1>3, ReleaseThreads, ReleaseBirth, ReleaseCounts DEF PoolInv
  <1>4. ASSUME NEW w \in Workers, WorkerStep(w) PROVE PoolInv'
    BY <1>0, <1>4, WorkerThreads, WorkerBirth, WorkerCounts DEF PoolInv
  <1>5. CASE TimerStep(TimerThread)
    BY <1>0, <1>5, TimerThreads, TimerBirth, TimerCounts DEF PoolInv
  <1>6. CASE UNCHANGED vars
    <2>1. /\ poolCs' = poolCs /\ groupCs' = groupCs /\ timerCs' = timerCs /\ pool' = pool /\ queue' = queue /\
               obj' = obj
          /\ timer' = timer /\ group' = group /\ pc' = pc /\ cur' = cur /\ inst' = inst /\ call' = call /\
               todo' = todo
          /\ script' = script /\ closed' = closed /\ quiet' = quiet /\ failed' = failed
      BY <1>6 DEF vars, locks, history
    <2>2. TypesInv'
      BY <1>0, <2>1 DEF TypesInv
    <2>3. ThreadsInv'
      BY <1>0, <2>1 DEF ThreadsInv, WorkerOK, TimerThreadOK, PlaceOK, WorkOK, Walking
    <2>4. BirthInv'
      BY <1>0, <2>1 DEF BirthInv, Born, ListBorn, Walking, Allocates
    <2>5. QueueInv'
      BY <1>0, <2>1 DEF QueueInv, QueueOK, HasItem
    <2>6. CountInv'
      BY <1>0, <2>1 DEF CountInv, Employed, Callbacks, Runs
    <2>7. WakeInv'
      BY <1>0, <2>1 DEF WakeInv, Tokens, Coming
    <2> QED
      BY <2>2, <2>3, <2>4, <2>5, <2>6, <2>7 DEF PoolInv
  <1> QED
    BY <1>1, <1>2, <1>3, <1>4, <1>5, <1>6 DEF Next

LEMMA PoolAlways == Spec => []PoolInv
  <1>1. Init => PoolInv
    BY PoolInit
  <1>2. PoolInv /\ [Next]_vars => PoolInv'
    BY PoolNext
  <1> QED
    BY <1>1, <1>2, PTL DEF Spec

\* An object is queued once while callbacks of it are pending.
LEMMA ItemCount ==
  ASSUME TypesInv, QueueInv, NEW o \in Objs
  PROVE  Items(o) = IF obj[o].pending > 0 THEN 1 ELSE 0
  <1> DEFINE q == queue[Priority[o]]
             S == {k \in DOMAIN q : q[k] = o}
  <1>1. Priority[o] \in 1..3 /\ q \in Seq(Objs)
    BY Kinds DEF TypesInv
  <1>2. Distinct(q) /\ (\A k \in 1..Len(q) : obj[q[k]].pending > 0) /\ (obj[o].pending > 0 => Among(o, q))
    BY <1>1 DEF QueueInv, QueueOK
  <1>3. Items(o) = Cardinality(S) /\ DOMAIN q = 1..Len(q)
    BY <1>1 DEF Items
  <1> HIDE DEF q
  <1>4. CASE obj[o].pending > 0
    <2>1. PICK k \in 1..Len(q) : q[k] = o
      BY <1>2, <1>4 DEF Among
    <2>2. S = {k}
      BY <1>2, <1>3, <2>1 DEF Distinct
    <2>3. Cardinality({k}) = 1
      BY FS_Singleton
    <2> QED
      BY <1>3, <1>4, <2>2, <2>3
  <1>5. CASE ~(obj[o].pending > 0)
    <2>1. S = {}
      BY <1>2, <1>3, <1>5
    <2> QED
      BY <1>3, <1>5, <2>1, FS_EmptySet
  <1> QED
    BY <1>4, <1>5

LEMMA PoolInvTypes == PoolInv => TypeOK
  <1> SUFFICES ASSUME PoolInv PROVE TypeOK
    OBVIOUS
  <1>1. TypesInv /\ QueueInv /\ CountInv
    BY DEF PoolInv
  <1>2. /\ poolCs \in Threads \cup {NoOne} /\ groupCs \in Threads \cup {NoOne} /\ timerCs \in Threads \cup {NoOne}
    BY <1>1, Kinds DEF TypesInv
  <1>3. \A o \in Objs : Items(o) = IF obj[o].pending > 0 THEN 1 ELSE 0
    BY <1>1, ItemCount
  <1> QED
    BY <1>1, <1>2, <1>3 DEF TypeOK, CountInv, Employed, Callbacks

\* The counts that the thread pool decides by are those of its threads and
\* lists, for any number of them: num_workers the threads that serve it,
\* num_running_callbacks of an object the callbacks that run, an object is in
\* its list exactly while callbacks are pending, and num_busy_workers covers
\* all queued items and running callbacks (tp_object_submit, tp_object_cancel,
\* tp_object_execute, threadpool_worker_proc).
THEOREM PoolTypes == Spec => []TypeOK
  BY PoolAlways, PoolInvTypes, PTL

\* No item waits for the timeout of a worker: while one is queued, a worker
\* sleeps and nobody holds the pool's lock, another worker is on its way.  This
\* rests on the fact that, as long as anybody sleeps, there are as many workers
\* that come as callbacks pending: every submission starts or wakes one, a wakeup
\* that hits a worker whose wait has timed out makes it stay, and a worker goes
\* to sleep or ends only when the lists are empty (tp_object_submit,
\* threadpool_worker_proc).
THEOREM ItemsAreServed == Spec => []WorkHasWorker
  <1>1. PoolInv => WorkHasWorker
    <2> SUFFICES ASSUME PoolInv, poolCs = NoOne, HasItem, \E w \in Workers : pc[w] = "sleep"
                 PROVE  \E w \in Workers : pc[w] \in {"start", "woken", "timedout", "late"}
      BY DEF WorkHasWorker
    <2>0. TypesInv /\ ThreadsInv /\ QueueInv /\ WakeInv
      BY DEF PoolInv
    <2>1. PICK p \in 1..3 : queue[p] # <<>>
      BY DEF HasItem
    <2> DEFINE o == queue[p][1]
    <2>2. queue[p] \in Seq(Objs) /\ 1 \in 1..Len(queue[p]) /\ o \in Objs
      BY <2>0, <2>1 DEF TypesInv
    <2>3. obj[o].pending > 0 /\ obj[o].pending \in Int
      BY <2>0, <2>2 DEF QueueInv, QueueOK, TypesInv, ObjRecords
    <2>4. <<o, 1>> \in Tokens
      <3> HIDE DEF o
      <3> QED
        BY <2>2, <2>3 DEF Tokens
    <2>5. IsFiniteSet(Tokens) /\ Cardinality(Tokens) <= Cardinality(Coming)
      BY <2>0 DEF WakeInv
    <2>6. Cardinality(Tokens) \in Nat /\ Cardinality(Tokens) # 0 /\ Cardinality(Coming) \in Nat
      BY <2>4, <2>5, ComingFinite, FS_CardinalityType, FS_EmptySet
    <2>7. Coming # {}
      BY <2>5, <2>6, FS_EmptySet
    <2>8. PICK w \in Workers : pc[w] \in {"start", "woken", "late", "loop"}
      BY <2>7 DEF Coming
    <2>9. pc[w] # "loop"
      BY <2>0, Kinds DEF ThreadsInv, WorkerOK
    <2> QED
      BY <2>8, <2>9
  <1> QED
    BY <1>1, PoolAlways, PTL
=============================================================================
