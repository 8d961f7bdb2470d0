-------------------------- MODULE ServerWaitProofs ---------------------------
(***************************************************************************)
(* Proofs about the server's waits (ServerWait): replies and waits match,  *)
(* a suspended thread stops, registers set from outside are taken, a wait  *)
(* in the driver that was alerted finds its APC, and system APCs are come  *)
(* for.                                                                    *)
(***************************************************************************)
EXTENDS ServerWait, FiniteSetTheorems, FunctionTheorems, WellFoundedInduction, TLAPS

-----------------------------------------------------------------------------
(* The inductive invariant, first part: types.                             *)

Places == {"idle", "driver", "select", "again", "server", "read", "apc_wait", "requeue", "abort", "handler"}
Statuses == {"object", "timeout", "kernel_apc", "user_apc"}
Waits == [frame : Frames, cookie : BOOLEAN, user : BOOLEAN]
Replies == [cookie : Frames, status : Statuses, index : Nat]
Items == [do : {"wake_up", "wake_thread", "select", "reset", "abandon"}, obj : Objs \cup {NoOne},
          max : Nat, thread : Threads \cup {NoOne}]
IsItem(x) ==
    /\ x.do \in {"wake_up", "reset"} => x.obj \in Objs
    /\ x.do \in {"wake_thread", "select", "abandon"} => x.thread \in Threads
IsCall(t, c) == c = NoCall \/ c \in program[t]

\* The objects, as in TypeOK.
ObjectsInv ==
    /\ units \in [Objs -> Nat] /\ \A o \in Objs : Type[o] = "sem" => units[o] <= Max[o]
    /\ mcount \in [Objs -> 0..MaxRec] /\ mowner \in [Objs -> Threads \cup {NoOne}]
    /\ mdead \in [Objs -> BOOLEAN] /\ event \in [Objs -> BOOLEAN]
    /\ \A o \in Objs : (mowner[o] = NoOne) = (mcount[o] = 0)
\* The threads and what the server has to do.
StateInv ==
    /\ queue \in [Objs -> Seq(Threads \X Nat)]
    /\ wait \in [Threads -> Seq(Waits)]
    /\ pipe \in [Threads -> Seq(Replies)] /\ stolen \in [Threads -> Seq(Replies)]
    /\ pc \in [Threads -> [Frames -> Places]]
    /\ system_apc \in [Threads -> Seq(Threads)]
    /\ prev \in [Threads -> [Frames -> Threads \cup {NoOne}]]
    /\ suspend \in [Threads -> 0..MaxSuspend] /\ context \in [Threads -> {"none", "pending", "saved"}]
    /\ changed \in [Threads -> BOOLEAN] /\ sigusr1 \in [Threads -> BOOLEAN]
    /\ dead \subseteq Threads /\ program \in Programs
FlagsInv ==
    /\ alert_sync \in [Threads -> BOOLEAN] /\ armed \in [Threads -> BOOLEAN]
    /\ deadline \in [Threads -> {"none", "later", "past"}]
    /\ \A t \in Threads : armed[t] => TimerOf[t] \in Objs
CallsInv == DOMAIN call = Threads /\ \A t \in Threads : IsCall(t, call[t])
TodoInv == todo \in Seq(Items) /\ \A k \in 1..Len(todo) : IsItem(todo[k])
TypesInv == ObjectsInv /\ StateInv /\ FlagsInv /\ CallsInv /\ TodoInv

-----------------------------------------------------------------------------
(* ... second part: the waits of a thread and the select under way.        *)

HasWait(t, f) == \E k \in 1..Len(wait[t]) : wait[t][k].frame = f
\* The stack of waits: the handler's on top, and asleep exactly when its frame
\* reads the pipe.
StackOK(t) ==
    /\ Len(wait[t]) <= 2
    /\ Len(wait[t]) = 2 => wait[t][1].frame = "suspend" /\ wait[t][2].frame = "call"
    /\ \A k \in 1..Len(wait[t]) : pc[t][wait[t][k].frame] = IF wait[t][k].cookie THEN "read" ELSE "server"
    /\ t \in dead => wait[t] = <<>>
    /\ pc[t]["suspend"] \notin {"driver", "apc_wait", "requeue", "abort"} /\ pc[t]["call"] # "handler"
\* A frame is in a request exactly while the server has its select to finish.
LastTodo == todo[Len(todo)]
SelectOK(t) ==
    \A f \in Frames : pc[t][f] = "server" =>
        /\ todo # <<>> /\ LastTodo.do = "select" /\ LastTodo.thread = t
        /\ f = Active(t) /\ t \notin dead
        /\ HasWait(t, f) \/ (f = "call" /\ wait[t] = <<>>)
        /\ f = "suspend" => Len(todo) = 1
LastOK == \A k \in 1..Len(todo) : todo[k].do = "select" =>
    k = Len(todo) /\ pc[todo[k].thread][Active(todo[k].thread)] = "server"
StacksInv == \A t \in Threads : StackOK(t)
SelectInv == LastOK /\ \A t \in Threads : SelectOK(t)

\* A queue holds threads whose call waits, for objects of the call.
QueueOK(o) == \A k \in 1..Len(queue[o]) :
    LET u == queue[o][k][1]
        n == queue[o][k][2]
    IN  HasWait(u, "call") /\ n \in DOMAIN WaitObjs(call[u]) /\ WaitObjs(call[u])[n] = o
QueuesInv == \A o \in Objs : QueueOK(o)

-----------------------------------------------------------------------------
(* ... third part: replies and system APCs.                                *)

Sent(t, f) == \E k \in 1..Len(pipe[t]) : pipe[t][k].cookie = f
Kept(t, f) == \E k \in 1..Len(stolen[t]) : stolen[t][k].cookie = f
\* RepliesMatch, at all times, and that the call steals nothing.
ReplyOK(t) ==
    /\ \A j, k \in 1..Len(pipe[t]) : pipe[t][j].cookie = pipe[t][k].cookie => j = k
    /\ Len(stolen[t]) <= 1 /\ ~Kept(t, "suspend")
    /\ ~(Sent(t, "call") /\ Kept(t, "call"))
    /\ \A f \in Frames : Sent(t, f) \/ Kept(t, f) => pc[t][f] = "read" /\ ~HasWait(t, f)
    /\ t \notin dead => \A f \in Frames : pc[t][f] = "read" => Sent(t, f) \/ Kept(t, f) \/ HasWait(t, f)
RepliesInv == \A t \in Threads : ReplyOK(t)

\* The caller of a system APC waits for it, and is told once.
QueuedWait == \A u \in Threads : \A k \in 1..Len(system_apc[u]) : pc[system_apc[u][k]]["call"] = "apc_wait"
RunWait == \A u \in Threads : \A f \in Frames : prev[u][f] # NoOne => pc[prev[u][f]]["call"] = "apc_wait"
QueuedOnce == \A u, v \in Threads : \A j \in 1..Len(system_apc[u]), k \in 1..Len(system_apc[v]) :
    system_apc[u][j] = system_apc[v][k] => u = v /\ j = k
QueuedOrRun == \A u, v \in Threads : \A k \in 1..Len(system_apc[u]), f \in Frames : system_apc[u][k] # prev[v][f]
RunOnce == \A u, v \in Threads : \A f, g \in Frames :
    prev[u][f] = prev[v][g] => prev[u][f] = NoOne \/ (u = v /\ f = g)
ApcsInv == QueuedWait /\ RunWait /\ QueuedOnce /\ QueuedOrRun /\ RunOnce

ServerInv == TypesInv /\ StacksInv /\ SelectInv /\ QueuesInv /\ RepliesInv /\ ApcsInv

-----------------------------------------------------------------------------
(* First and Keep.                                                         *)

LEMMA FirstIn ==
  ASSUME NEW K \in SUBSET Nat, K # {}
  PROVE  First(K) \in K
  <1>1. \E x \in K : \A y \in K : ~(<<y, x>> \in OpToRel(<, Nat))
    <2>1. IsWellFoundedOn(OpToRel(<, Nat), Nat)
      BY NatLessThanWellFounded
    <2> QED
      BY <2>1, WFMin
  <1>2. PICK x \in K : \A y \in K : ~(<<y, x>> \in OpToRel(<, Nat))
    BY <1>1
  <1>3. \A y \in K : ~(y < x)
    BY <1>2 DEF OpToRel
  <1>4. \A y \in K : x <= y
    BY <1>3
  <1> QED
    BY <1>4 DEF First

\* The indices up to k, counted.
Rank(K, k) == Cardinality({i \in K : i <= k})

LEMMA Ranks ==
  ASSUME NEW n \in Nat, NEW K \in SUBSET (1..n)
  PROVE  /\ Cardinality(K) \in Nat
         /\ \A j \in 1..Cardinality(K) : \E k \in K : Rank(K, k) = j
  <1>1. IsFiniteSet(K) /\ Cardinality(K) \in Nat
    <2>1. IsFiniteSet(1..n)
      BY FS_Interval
    <2> QED BY <2>1, FS_Subset, FS_CardinalityType
  <1>2. ASSUME NEW k \in K
        PROVE  /\ IsFiniteSet({i \in K : i <= k})
               /\ Rank(K, k) \in 1..Cardinality(K)
    <2> DEFINE B == {i \in K : i <= k}
    <2>1. B \in SUBSET K /\ k \in B
      OBVIOUS
    <2>2. IsFiniteSet(B) /\ Cardinality(B) <= Cardinality(K) /\ Cardinality(B) \in Nat
      BY <1>1, <2>1, FS_Subset, FS_CardinalityType
    <2>3. Cardinality(B) # 0
      BY <2>1, <2>2, FS_EmptySet
    <2> QED
      BY <1>1, <2>2, <2>3 DEF Rank
  <1>3. ASSUME NEW k \in K, NEW m \in K, k < m
        PROVE  Rank(K, k) # Rank(K, m)
    <2> DEFINE B == {i \in K : i <= k}
               C == {i \in K : i <= m}
    <2>0. \A i \in K : i \in Int
      OBVIOUS
    <2>a. ~(m <= k) /\ \A i \in K : i <= k => i <= m
      BY <1>3, <2>0
    <2>b. B \in SUBSET C
      BY <2>a
    <2>c. m <= m /\ m \in K
      BY <2>0
    <2>d. m \in C
      BY <2>c
    <2>e. m \notin B
      BY <2>a
    <2>1. B \in SUBSET C /\ m \in C /\ m \notin B
      BY <2>b, <2>d, <2>e
    <2>2. IsFiniteSet(C)
      BY <1>2
    <2>3. Cardinality(B) # Cardinality(C)
      BY <2>1, <2>2, FS_Subset
    <2> QED
      BY <2>3 DEF Rank
  <1> DEFINE N == 1..Cardinality(K)
             f == [k \in K |-> Rank(K, k)]
  <1>4. f \in [K -> N]
    BY <1>2
  <1>5. \A k, m \in K : f[k] = f[m] => k = m
    <2> SUFFICES ASSUME NEW k \in K, NEW m \in K, Rank(K, k) = Rank(K, m) PROVE k = m
      OBVIOUS
    <2>1. ~(k < m) /\ ~(m < k)
      BY <1>3
    <2> QED BY <2>1
  <1>6. f \in Injection(K, N)
    BY <1>4, <1>5, Fun_IsInj
  <1>7. IsFiniteSet(N) /\ Cardinality(N) = Cardinality(K)
    BY <1>1, FS_Interval
  <1>8. f \in Surjection(K, N)
    BY <1>6, <1>7, FS_Injection
  <1>9. \A j \in N : \E k \in K : f[k] = j
    BY <1>8 DEF Surjection
  <1> QED
    BY <1>1, <1>9

\* What is kept is there, and nothing else.
LEMMA KeepType ==
  ASSUME NEW S, NEW s \in Seq(S), NEW K \in SUBSET (1..Len(s))
  PROVE  /\ Keep(s, K) \in Seq(S)
         /\ \A j \in 1..Len(Keep(s, K)) : \E k \in K : Keep(s, K)[j] = s[k]
  <1> DEFINE pick(j) == CHOOSE k \in K : Rank(K, k) = j
             n == Cardinality(K)
  <1>1. n \in Nat /\ \A j \in 1..n : pick(j) \in K
    <2>1. Len(s) \in Nat
      OBVIOUS
    <2>2. n \in Nat /\ \A j \in 1..n : \E k \in K : Rank(K, k) = j
      BY <2>1, Ranks
    <2> QED BY <2>2
  <1>2. Keep(s, K) = [j \in 1..n |-> s[pick(j)]]
    BY DEF Keep, Rank
  <1> HIDE DEF pick, n
  <1>3. \A j \in 1..n : s[pick(j)] \in S
    <2>1. \A k \in K : s[k] \in S
      OBVIOUS
    <2> QED BY <1>1, <2>1
  <1>4. Keep(s, K) \in [1..n -> S]
    BY <1>2, <1>3
  <1>5. Keep(s, K) \in Seq(S) /\ Len(Keep(s, K)) = n
    BY <1>1, <1>4
  <1> QED
    BY <1>1, <1>2, <1>5

-----------------------------------------------------------------------------
(* Sequences.                                                              *)

LEMMA AtMostTwo ==
  ASSUME NEW n \in Nat, n <= 2
  PROVE  /\ n = 0 \/ n = 1 \/ n = 2
         /\ n # 2 => n <= 1
         /\ \A k \in 1..(n - 1) : n = 2 /\ k = 1
  OBVIOUS

\* Places in a sequence of n elements, and in one with m more.
LEMMA Shifts ==
  ASSUME NEW n \in Nat, NEW m \in Nat
  PROVE  /\ \A k \in 1..n : k # 1 => k - 1 \in 1..(n - 1) /\ (k - 1) + 1 = k
         /\ \A k \in 1..n : k \in 1..(n + m)
         /\ \A k \in 1..m : n + k \in 1..(n + m)
         /\ m <= 1 => \A k \in 1..m : k = 1
  OBVIOUS

LEMMA LenZero == ASSUME NEW S, NEW s \in Seq(S), Len(s) = 0 PROVE s = <<>>
  OBVIOUS

LEMMA HeadTail ==
  ASSUME NEW S, NEW s \in Seq(S), s # <<>>
  PROVE  /\ Len(s) \in Nat /\ Len(s) >= 1 /\ s[1] = Head(s) /\ Head(s) \in S
         /\ Tail(s) \in Seq(S) /\ Len(Tail(s)) = Len(s) - 1
         /\ \A k \in 1..Len(Tail(s)) : k + 1 \in 1..Len(s) /\ Tail(s)[k] = s[k + 1]
  OBVIOUS

LEMMA Cons ==
  ASSUME NEW S, NEW s \in Seq(S), NEW x \in S
  PROVE  /\ <<x>> \o s \in Seq(S) /\ Len(<<x>> \o s) = Len(s) + 1 /\ (<<x>> \o s)[1] = x
         /\ \A k \in 2..Len(<<x>> \o s) : k - 1 \in 1..Len(s) /\ (<<x>> \o s)[k] = s[k - 1]
         /\ \A k \in 1..Len(s) : (<<x>> \o s)[k + 1] = s[k]
  OBVIOUS

LEMMA Snoc ==
  ASSUME NEW S, NEW s \in Seq(S), NEW x \in S
  PROVE  /\ Append(s, x) \in Seq(S) /\ Len(Append(s, x)) = Len(s) + 1
         /\ Append(s, x)[Len(s) + 1] = x
         /\ \A k \in 1..Len(s) : Append(s, x)[k] = s[k]
         /\ \A k \in 1..Len(Append(s, x)) : k = Len(s) + 1 \/ k \in 1..Len(s)
  OBVIOUS

LEMMA Join ==
  ASSUME NEW S, NEW s \in Seq(S), NEW r \in Seq(S)
  PROVE  /\ s \o r \in Seq(S) /\ Len(s \o r) = Len(s) + Len(r)
         /\ \A k \in 1..Len(s) : (s \o r)[k] = s[k]
         /\ \A k \in 1..Len(r) : (s \o r)[Len(s) + k] = r[k]
         /\ \A k \in 1..Len(s \o r) : 
               k \in 1..Len(s) \/ (k - Len(s) \in 1..Len(r) /\ (s \o r)[k] = r[k - Len(s)])
  <1>1. s \o r \in Seq(S) /\ Len(s \o r) = Len(s) + Len(r) /\ Len(s) \in Nat /\ Len(r) \in Nat
    OBVIOUS
  <1>2. \A k \in 1..Len(s) : (s \o r)[k] = s[k]
    OBVIOUS
  <1>3. \A k \in 1..Len(r) : (s \o r)[Len(s) + k] = r[k]
    OBVIOUS
  <1>4. \A k \in 1..Len(s \o r) : k \in 1..Len(s) \/ (k - Len(s) \in 1..Len(r) /\ Len(s) + (k - Len(s)) = k)
    BY <1>1
  <1>5. ASSUME NEW k \in 1..Len(s \o r), k \notin 1..Len(s)
        PROVE  k - Len(s) \in 1..Len(r) /\ (s \o r)[k] = r[k - Len(s)]
    <2>1. k - Len(s) \in 1..Len(r) /\ Len(s) + (k - Len(s)) = k
      BY <1>4, <1>5
    <2>2. (s \o r)[Len(s) + (k - Len(s))] = r[k - Len(s)]
      BY <1>3, <2>1
    <2> QED BY <2>1, <2>2
  <1> QED
    BY <1>1, <1>2, <1>3, <1>5

-----------------------------------------------------------------------------
(* What a step does to one thread: to its stack of waits, to where its     *)
(* frames are, and to its replies.                                         *)

Apart(u) == stolen'[u] = stolen[u] /\ (u \in dead' <=> u \in dead)
Still(u) == wait'[u] = wait[u] /\ pc'[u] = pc[u] /\ pipe'[u] = pipe[u] /\ Apart(u)
\* A frame without a wait goes on.
Goes(u, f, x) ==
    /\ wait'[u] = wait[u] /\ pipe'[u] = pipe[u] /\ Apart(u)
    /\ pc[u][f] # "read" /\ ~HasWait(u, f)
    /\ pc'[u] = [pc[u] EXCEPT ![f] = x] /\ x \in Places \ {"server", "read"}
    /\ f = "suspend" => x \notin {"driver", "apc_wait", "requeue", "abort"}
    /\ f = "call" => x # "handler"
\* select_on.
Pushes(u) ==
    /\ u \notin dead /\ pc[u][Active(u)] \in {"select", "again", "handler"}
    /\ wait'[u] = <<[frame |-> Active(u), cookie |-> FALSE, user |-> FALSE]>> \o wait[u]
    /\ pc'[u] = [pc[u] EXCEPT ![Active(u)] = "server"]
    /\ pipe'[u] = pipe[u] /\ Apart(u)
\* The wait on top ends: asleep with a reply, awake without.
PopsAsleep(u) ==
    /\ wait[u] # <<>> /\ Head(wait[u]).cookie
    /\ wait'[u] = Tail(wait[u]) /\ pc'[u] = pc[u]
    /\ \E r \in Replies : r.cookie = Head(wait[u]).frame /\ pipe'[u] = Append(pipe[u], r)
    /\ Apart(u)
PopsAwake(u, x) ==
    /\ wait[u] # <<>> /\ ~Head(wait[u]).cookie
    /\ wait'[u] = Tail(wait[u]) /\ pc'[u] = [pc[u] EXCEPT ![Head(wait[u]).frame] = x]
    /\ x \in {"server", "again", "idle", "abort"} /\ (x = "abort" => Head(wait[u]).frame = "call")
    /\ pipe'[u] = pipe[u] /\ Apart(u)
\* The select pends.
Sleeps(u) ==
    /\ wait[u] # <<>> /\ ~Head(wait[u]).cookie
    /\ \E w \in Waits : w.frame = Head(wait[u]).frame /\ w.cookie /\ wait'[u] = <<w>> \o Tail(wait[u])
    /\ pc'[u] = [pc[u] EXCEPT ![Head(wait[u]).frame] = "read"]
    /\ pipe'[u] = pipe[u] /\ Apart(u)
\* The timer of a wait that may not end yet.
Disarms(u) ==
    /\ \E k \in DOMAIN wait[u] : wait'[u] = [wait[u] EXCEPT ![k].user = FALSE]
    /\ pc'[u] = pc[u] /\ pipe'[u] = pipe[u] /\ Apart(u)
\* A reply for the other frame is kept, one for this frame read.
Steals(u) ==
    /\ u \notin dead /\ pc[u][Active(u)] = "read" /\ pipe[u] # <<>> /\ Head(pipe[u]).cookie # Active(u)
    /\ stolen'[u] = <<Head(pipe[u])>> \o stolen[u] /\ pipe'[u] = Tail(pipe[u])
    /\ wait'[u] = wait[u] /\ pc'[u] = pc[u] /\ (u \in dead' <=> u \in dead)
Reads(u, x) ==
    /\ u \notin dead /\ pc[u][Active(u)] = "read" /\ pipe[u] # <<>> /\ Head(pipe[u]).cookie = Active(u)
    /\ pipe'[u] = Tail(pipe[u]) \o stolen[u] /\ stolen'[u] = <<>>
    /\ pc'[u] = [pc[u] EXCEPT ![Active(u)] = x]
    /\ x \in {"select", "idle", "abort"} /\ (x = "abort" => Active(u) = "call")
    /\ wait'[u] = wait[u] /\ (u \in dead' <=> u \in dead)
\* kill_thread, of a thread that may wait for the result of an APC.
Dies(u) ==
    /\ u \in dead' /\ wait'[u] = <<>> /\ pipe'[u] = pipe[u] /\ stolen'[u] = stolen[u]
    /\ \/ pc'[u] = pc[u]
       \/ pc[u]["call"] = "apc_wait" /\ pc'[u] = [pc[u] EXCEPT !["call"] = "requeue"]
Moves(u) ==
    \/ Still(u) \/ Pushes(u) \/ PopsAsleep(u) \/ Sleeps(u) \/ Disarms(u) \/ Steals(u) \/ Dies(u)
    \/ \E x \in Places : PopsAwake(u, x) \/ Reads(u, x) \/ \E f \in Frames : Goes(u, f, x)

\* The stacks stay in order.  The reply that is read belongs to a frame that no
\* longer waits.
LEMMA StackMoves ==
  ASSUME StateInv, NEW u \in Threads, StackOK(u), Moves(u),
         \A x \in Places : Reads(u, x) => ~HasWait(u, Active(u))
  PROVE  StackOK(u)'
  <1>1. wait[u] \in Seq(Waits) /\ pc[u] \in [Frames -> Places] /\ Len(wait[u]) \in Nat
    BY DEF StateInv
  <1>2. \A k \in 1..Len(wait[u]) : wait[u][k].frame \in Frames /\ wait[u][k].cookie \in BOOLEAN
    <2>1. \A k \in 1..Len(wait[u]) : wait[u][k] \in Waits
      BY <1>1
    <2> QED BY <2>1 DEF Waits
  <1>3. CASE Still(u)
    BY <1>3 DEF Still, Apart, StackOK
  <1>4. ASSUME NEW x \in Places, NEW f \in Frames, Goes(u, f, x) PROVE StackOK(u)'
    BY <1>1, <1>4 DEF Goes, Apart, StackOK, HasWait, Frames
  <1>5. CASE Pushes(u)
    <2> DEFINE f == Active(u)
               w == [frame |-> f, cookie |-> FALSE, user |-> FALSE]
    <2>1. f \in Frames /\ w \in Waits
      BY DEF Active, Frames, Waits
    <2>2. /\ wait'[u] = <<w>> \o wait[u] /\ Len(wait'[u]) = Len(wait[u]) + 1 /\ wait'[u][1] = w
          /\ \A k \in 2..Len(wait'[u]) : k - 1 \in 1..Len(wait[u]) /\ wait'[u][k] = wait[u][k - 1]
      <3>1. wait'[u] = <<w>> \o wait[u]
        BY <1>5 DEF Pushes
      <3> HIDE DEF w
      <3> QED BY <1>1, <2>1, <3>1, Cons
    <2>3. pc'[u] = [pc[u] EXCEPT ![f] = "server"] /\ pc[u][f] \in {"select", "again", "handler"}
          /\ u \notin dead /\ u \notin dead'
      BY <1>5 DEF Pushes, Apart
    <2>4. \A k \in 1..Len(wait[u]) : wait[u][k].frame = "call" /\ f = "suspend"
      <3>1. \A k \in 1..Len(wait[u]) : pc[u][wait[u][k].frame] \in {"read", "server"}
        BY DEF StackOK
      <3> QED BY <1>2, <2>3, <3>1 DEF Active, Frames
    <2>5. Len(wait[u]) <= 1
      <3>1. Len(wait[u]) # 2
        <4> SUFFICES ASSUME Len(wait[u]) = 2 PROVE FALSE
          OBVIOUS
        <4>1. 1 \in 1..Len(wait[u]) /\ wait[u][1].frame = "suspend"
          BY DEF StackOK
        <4>2. wait[u][1].frame = "call"
          BY <2>4, <4>1
        <4> QED BY <4>1, <4>2
      <3>2. Len(wait[u]) <= 2 /\ Len(wait[u]) \in Nat
        BY <1>1 DEF StackOK
      <3> QED BY <3>1, <3>2, AtMostTwo
    <2>6. w.frame = f /\ w.cookie = FALSE
      OBVIOUS
    <2> HIDE DEF w, f
    <2>7. Len(wait'[u]) <= 2 /\ (Len(wait'[u]) = 2 => wait'[u][1].frame = "suspend" /\ wait'[u][2].frame = "call")
      BY <1>1, <2>2, <2>4, <2>5, <2>6
    <2>8. ASSUME NEW k \in 1..Len(wait'[u])
          PROVE  pc'[u][wait'[u][k].frame] = IF wait'[u][k].cookie THEN "read" ELSE "server"
      <3>1. CASE k = 1
        BY <1>1, <2>1, <2>2, <2>3, <2>6, <3>1
      <3>2. CASE k # 1
        <4>1. k \in 2..Len(wait'[u])
          BY <1>1, <2>2, <3>2
        <4>2. k - 1 \in 1..Len(wait[u]) /\ wait'[u][k] = wait[u][k - 1]
          BY <2>2, <4>1
        <4> QED BY <1>1, <2>1, <2>3, <2>4, <4>2 DEF StackOK, Frames
      <3> QED BY <3>1, <3>2
    <2>9. pc'[u]["suspend"] \notin {"driver", "apc_wait", "requeue", "abort"} /\ pc'[u]["call"] # "handler"
      BY <1>1, <2>1, <2>3 DEF StackOK, Frames
    <2> QED BY <2>3, <2>7, <2>8, <2>9 DEF StackOK
  <1>6. ASSUME wait[u] # <<>>
        PROVE  /\ Len(Tail(wait[u])) = Len(wait[u]) - 1 /\ Len(wait[u]) >= 1 /\ wait[u][1] = Head(wait[u])
               /\ \A k \in 1..Len(Tail(wait[u])) : k + 1 \in 1..Len(wait[u]) /\ Tail(wait[u])[k] = wait[u][k + 1]
               /\ \A k \in 1..Len(Tail(wait[u])) :
                     k = 1 /\ Head(wait[u]).frame = "suspend" /\ Tail(wait[u])[k].frame = "call"
    <2>1. /\ Len(Tail(wait[u])) = Len(wait[u]) - 1 /\ Len(wait[u]) >= 1 /\ wait[u][1] = Head(wait[u])
          /\ \A k \in 1..Len(Tail(wait[u])) : k + 1 \in 1..Len(wait[u]) /\ Tail(wait[u])[k] = wait[u][k + 1]
      BY <1>1, <1>6, HeadTail
    <2>2. ASSUME NEW k \in 1..Len(Tail(wait[u]))
          PROVE  k = 1 /\ Head(wait[u]).frame = "suspend" /\ Tail(wait[u])[k].frame = "call"
      <3>1. Len(wait[u]) = 2 /\ k = 1
        <4>1. Len(wait[u]) <= 2
          BY DEF StackOK
        <4>2. Len(Tail(wait[u])) = Len(wait[u]) - 1
          BY <2>1
        <4>3. k \in 1..(Len(wait[u]) - 1)
          BY <4>2
        <4>4. Len(wait[u]) \in Nat
          BY <1>1
        <4> QED BY <4>1, <4>3, <4>4, AtMostTwo
      <3> QED BY <2>1, <3>1 DEF StackOK
    <2> QED BY <2>1, <2>2
  <1>7. CASE PopsAsleep(u)
    <2>1. wait[u] # <<>> /\ wait'[u] = Tail(wait[u]) /\ pc'[u] = pc[u] /\ (u \in dead' <=> u \in dead)
      BY <1>7 DEF PopsAsleep, Apart
    <2>2. ASSUME NEW k \in 1..Len(wait'[u])
          PROVE  pc'[u][wait'[u][k].frame] = IF wait'[u][k].cookie THEN "read" ELSE "server"
      BY <1>6, <2>1 DEF StackOK
    <2>3. Len(wait'[u]) <= 1 /\ Len(wait'[u]) \in Nat
      BY <1>1, <1>6, <2>1 DEF StackOK
    <2>4. u \notin dead'
      BY <2>1 DEF StackOK
    <2>5. pc'[u]["suspend"] \notin {"driver", "apc_wait", "requeue", "abort"} /\ pc'[u]["call"] # "handler"
      BY <2>1 DEF StackOK
    <2>6. Len(wait'[u]) <= 2 /\ Len(wait'[u]) # 2
      BY <2>3
    <2> QED BY <2>2, <2>4, <2>5, <2>6 DEF StackOK
  <1>8. ASSUME NEW x \in Places, PopsAwake(u, x) PROVE StackOK(u)'
    <2> DEFINE f == Head(wait[u]).frame
    <2>1. wait[u] # <<>> /\ wait'[u] = Tail(wait[u]) /\ pc'[u] = [pc[u] EXCEPT ![f] = x]
          /\ (u \in dead' <=> u \in dead) /\ x \in {"server", "again", "idle", "abort"} /\ (x = "abort" => f = "call")
      BY <1>8 DEF PopsAwake, Apart
    <2>2. f \in Frames
      BY <1>1, <1>2, <1>6, <2>1
    <2> HIDE DEF f
    <2>3. ASSUME NEW k \in 1..Len(wait'[u])
          PROVE  pc'[u][wait'[u][k].frame] = IF wait'[u][k].cookie THEN "read" ELSE "server"
      BY <1>1, <1>6, <2>1, <2>2 DEF StackOK, f, Frames
    <2>4. Len(wait'[u]) <= 1 /\ Len(wait'[u]) \in Nat
      BY <1>1, <1>6, <2>1 DEF StackOK
    <2>5. u \notin dead'
      BY <2>1 DEF StackOK
    <2>6. pc'[u]["suspend"] \notin {"driver", "apc_wait", "requeue", "abort"} /\ pc'[u]["call"] # "handler"
      BY <1>1, <2>1, <2>2 DEF StackOK, Frames
    <2> QED BY <2>3, <2>4, <2>5, <2>6 DEF StackOK
  <1>9. CASE Sleeps(u)
    <2> DEFINE f == Head(wait[u]).frame
    <2>1. PICK w \in Waits : w.frame = f /\ w.cookie /\ wait'[u] = <<w>> \o Tail(wait[u])
      BY <1>9 DEF Sleeps
    <2>2. wait[u] # <<>> /\ pc'[u] = [pc[u] EXCEPT ![f] = "read"] /\ (u \in dead' <=> u \in dead)
      BY <1>9 DEF Sleeps, Apart
    <2>3. Tail(wait[u]) \in Seq(Waits)
      BY <1>1, <2>2, HeadTail
    <2>4. /\ Len(wait'[u]) = Len(Tail(wait[u])) + 1 /\ wait'[u][1] = w
          /\ \A k \in 2..Len(wait'[u]) : k - 1 \in 1..Len(Tail(wait[u])) /\ wait'[u][k] = Tail(wait[u])[k - 1]
      BY <2>1, <2>3, Cons
    <2>5. f \in Frames
      BY <1>1, <1>2, <1>6, <2>2
    <2>6. Len(wait'[u]) = Len(wait[u])
      BY <1>1, <1>6, <2>2, <2>4
    <2> HIDE DEF f
    <2>7. ASSUME NEW k \in 1..Len(wait'[u]), k # 1
          PROVE  f = "suspend" /\ k = 2 /\ wait'[u][k] = wait[u][k] /\ wait[u][k].frame = "call"
      <3>1. k \in 2..Len(wait'[u]) /\ k \in 1..Len(wait[u])
        BY <1>1, <2>6, <2>7
      <3>2. k - 1 \in 1..Len(Tail(wait[u])) /\ wait'[u][k] = Tail(wait[u])[k - 1]
        BY <2>4, <3>1
      <3>3. k - 1 = 1 /\ f = "suspend" /\ Tail(wait[u])[k - 1] = wait[u][(k - 1) + 1] /\ Tail(wait[u])[k - 1].frame = "call"
        BY <1>6, <2>2, <3>2 DEF f
      <3> QED BY <3>1, <3>2, <3>3
    <2>8. ASSUME NEW k \in 1..Len(wait'[u])
          PROVE  pc'[u][wait'[u][k].frame] = IF wait'[u][k].cookie THEN "read" ELSE "server"
      <3>1. CASE k = 1
        BY <1>1, <2>1, <2>2, <2>4, <2>5, <3>1
      <3>2. CASE k # 1
        BY <1>1, <2>2, <2>5, <2>6, <2>7, <3>2 DEF StackOK, Frames
      <3> QED BY <3>1, <3>2
    <2>9. Len(wait'[u]) = 2 => wait'[u][1].frame = "suspend" /\ wait'[u][2].frame = "call"
      BY <2>1, <2>4, <2>7
    <2>10. u \notin dead'
      BY <2>2 DEF StackOK
    <2>11. pc'[u]["suspend"] \notin {"driver", "apc_wait", "requeue", "abort"} /\ pc'[u]["call"] # "handler"
      BY <1>1, <2>2, <2>5 DEF StackOK, Frames
    <2>12. Len(wait'[u]) <= 2
      BY <2>6 DEF StackOK
    <2> QED BY <2>8, <2>9, <2>10, <2>11, <2>12 DEF StackOK
  <1>10. CASE Disarms(u)
    <2>1. PICK k \in DOMAIN wait[u] : wait'[u] = [wait[u] EXCEPT ![k].user = FALSE]
      BY <1>10 DEF Disarms
    <2>2. pc'[u] = pc[u] /\ (u \in dead' <=> u \in dead)
      BY <1>10 DEF Disarms, Apart
    <2>3. k \in 1..Len(wait[u])
      BY <1>1, <2>1
    <2>4. Len(wait'[u]) = Len(wait[u])
      BY <1>1, <2>1
    <2>5. \A j \in 1..Len(wait[u]) : wait'[u][j].frame = wait[u][j].frame /\ wait'[u][j].cookie = wait[u][j].cookie
      BY <1>1, <2>1, <2>3 DEF Waits
    <2>6. u \notin dead'
      BY <1>1, <2>2, <2>3 DEF StackOK
    <2> QED BY <1>1, <2>2, <2>4, <2>5, <2>6 DEF StackOK
  <1>11. CASE Steals(u)
    BY <1>11 DEF Steals, StackOK
  <1>12. ASSUME NEW x \in Places, Reads(u, x) PROVE StackOK(u)'
    <2>1. Active(u) \in Frames
      BY DEF Active, Frames
    <2>2. pc'[u] = [pc[u] EXCEPT ![Active(u)] = x] /\ wait'[u] = wait[u] /\ (u \in dead' <=> u \in dead)
          /\ x \in {"select", "idle", "abort"} /\ (x = "abort" => Active(u) = "call")
      BY <1>12 DEF Reads
    <2>3. \A k \in 1..Len(wait[u]) : wait[u][k].frame # Active(u)
      BY <1>12 DEF HasWait
    <2> QED BY <1>1, <1>2, <2>1, <2>2, <2>3 DEF StackOK, Frames
  <1>13. CASE Dies(u)
    BY <1>1, <1>13 DEF Dies, StackOK, Frames
  <1> QED
    BY <1>3, <1>4, <1>5, <1>7, <1>8, <1>9, <1>10, <1>11, <1>12, <1>13 DEF Moves

\* The wait on top and the ones below.
LEMMA TopFrame ==
  ASSUME StateInv, NEW u \in Threads, StackOK(u), wait[u] # <<>>
  PROVE  /\ Head(wait[u]) \in Waits /\ Head(wait[u]).frame \in Frames /\ HasWait(u, Head(wait[u]).frame)
         /\ pc[u][Head(wait[u]).frame] = IF Head(wait[u]).cookie THEN "read" ELSE "server"
         /\ \A f : (\E k \in 1..Len(Tail(wait[u])) : Tail(wait[u])[k].frame = f)
                     <=> HasWait(u, f) /\ f # Head(wait[u]).frame
  <1>1. wait[u] \in Seq(Waits) /\ Len(wait[u]) \in Nat
    BY DEF StateInv
  <1>2. /\ Len(wait[u]) >= 1 /\ wait[u][1] = Head(wait[u]) /\ Head(wait[u]) \in Waits
        /\ Tail(wait[u]) \in Seq(Waits) /\ Len(Tail(wait[u])) = Len(wait[u]) - 1
        /\ \A k \in 1..Len(Tail(wait[u])) : k + 1 \in 1..Len(wait[u]) /\ Tail(wait[u])[k] = wait[u][k + 1]
    BY <1>1, HeadTail
  <1>3. 1 \in 1..Len(wait[u])
    BY <1>1, <1>2
  <1>4. Head(wait[u]).frame \in Frames /\ HasWait(u, Head(wait[u]).frame)
        /\ pc[u][Head(wait[u]).frame] = IF Head(wait[u]).cookie THEN "read" ELSE "server"
    BY <1>2, <1>3 DEF StackOK, HasWait, Waits
  <1>5. Len(wait[u]) = 1 \/ Len(wait[u]) = 2
    <2>1. Len(wait[u]) <= 2 /\ Len(wait[u]) # 0
      BY <1>1, <1>2 DEF StackOK
    <2> QED BY <1>1, <2>1, AtMostTwo
  <1>6. ASSUME NEW f
        PROVE  (\E k \in 1..Len(Tail(wait[u])) : Tail(wait[u])[k].frame = f)
                  <=> HasWait(u, f) /\ f # Head(wait[u]).frame
    <2>1. CASE Len(wait[u]) = 1
      <3>1. Len(Tail(wait[u])) = 0 /\ 1..0 = {} /\ 1..1 = {1}
        BY <1>2, <2>1
      <3> QED BY <1>2, <2>1, <3>1 DEF HasWait
    <2>2. CASE Len(wait[u]) = 2
      <3>1. Len(Tail(wait[u])) = 1 /\ 1..1 = {1} /\ 1..2 = {1, 2}
        BY <1>2, <2>2
      <3>2. Tail(wait[u])[1] = wait[u][2]
        BY <1>2, <3>1
      <3>3. Head(wait[u]).frame = "suspend" /\ wait[u][2].frame = "call"
        BY <1>2, <2>2 DEF StackOK
      <3> QED BY <1>2, <2>2, <3>1, <3>2, <3>3 DEF HasWait
    <2> QED BY <1>5, <2>1, <2>2
  <1> QED
    BY <1>2, <1>4, <1>6

\* What a move does to the frames that have a wait.
LEMMA WaitMoves ==
  ASSUME StateInv, NEW u \in Threads, StackOK(u), NEW f
  PROVE  /\ wait'[u] = wait[u] => (HasWait(u, f)' <=> HasWait(u, f))
         /\ Pushes(u) => (HasWait(u, f)' <=> HasWait(u, f) \/ f = Active(u))
         /\ wait[u] # <<>> /\ wait'[u] = Tail(wait[u]) => (HasWait(u, f)' <=> HasWait(u, f) /\ f # Head(wait[u]).frame)
         /\ Sleeps(u) \/ Disarms(u) => (HasWait(u, f)' <=> HasWait(u, f))
  <1>1. wait[u] \in Seq(Waits) /\ Len(wait[u]) \in Nat
    BY DEF StateInv
  <1>2. wait'[u] = wait[u] => (HasWait(u, f)' <=> HasWait(u, f))
    BY DEF HasWait
  <1>3. ASSUME Pushes(u) PROVE HasWait(u, f)' <=> HasWait(u, f) \/ f = Active(u)
    <2> DEFINE w == [frame |-> Active(u), cookie |-> FALSE, user |-> FALSE]
    <2>1. w \in Waits /\ w.frame = Active(u)
      BY DEF Active, Frames, Waits
    <2>2. wait'[u] = <<w>> \o wait[u]
      BY <1>3 DEF Pushes
    <2> HIDE DEF w
    <2>3. /\ Len(wait'[u]) = Len(wait[u]) + 1 /\ wait'[u][1] = w
          /\ \A k \in 2..Len(wait'[u]) : k - 1 \in 1..Len(wait[u]) /\ wait'[u][k] = wait[u][k - 1]
          /\ \A k \in 1..Len(wait[u]) : wait'[u][k + 1] = wait[u][k]
      BY <1>1, <2>1, <2>2, Cons
    <2>4. 1 \in 1..Len(wait'[u]) /\ \A k \in 1..Len(wait'[u]) : k = 1 \/ k \in 2..Len(wait'[u])
      BY <1>1, <2>3
    <2>5. \A k \in 1..Len(wait[u]) : k + 1 \in 1..Len(wait'[u])
      BY <1>1, <2>3
    <2>6. ASSUME HasWait(u, f)' PROVE HasWait(u, f) \/ f = Active(u)
      <3>1. PICK k \in 1..Len(wait'[u]) : wait'[u][k].frame = f
        BY <2>6 DEF HasWait
      <3> QED BY <2>1, <2>3, <2>4, <3>1 DEF HasWait
    <2>7. ASSUME HasWait(u, f) PROVE HasWait(u, f)'
      <3>1. PICK k \in 1..Len(wait[u]) : wait[u][k].frame = f
        BY <2>7 DEF HasWait
      <3> QED BY <2>3, <2>5, <3>1 DEF HasWait
    <2>8. ASSUME f = Active(u) PROVE HasWait(u, f)'
      BY <2>1, <2>3, <2>4, <2>8 DEF HasWait
    <2> QED BY <2>6, <2>7, <2>8
  <1>4. ASSUME wait[u] # <<>>, wait'[u] = Tail(wait[u])
        PROVE  HasWait(u, f)' <=> HasWait(u, f) /\ f # Head(wait[u]).frame
    <2>1. (\E k \in 1..Len(Tail(wait[u])) : Tail(wait[u])[k].frame = f) <=> HasWait(u, f) /\ f # Head(wait[u]).frame
      BY <1>4, TopFrame
    <2>2. HasWait(u, f)' <=> (\E k \in 1..Len(Tail(wait[u])) : Tail(wait[u])[k].frame = f)
      BY <1>4 DEF HasWait
    <2> QED BY <2>1, <2>2
  <1>5. ASSUME Sleeps(u) PROVE HasWait(u, f)' <=> HasWait(u, f)
    <2>1. PICK w \in Waits : w.frame = Head(wait[u]).frame /\ wait'[u] = <<w>> \o Tail(wait[u])
      BY <1>5 DEF Sleeps
    <2>2. /\ wait[u] # <<>> /\ Tail(wait[u]) \in Seq(Waits) /\ Len(Tail(wait[u])) = Len(wait[u]) - 1
          /\ Len(wait[u]) >= 1 /\ wait[u][1] = Head(wait[u])
          /\ \A k \in 1..Len(Tail(wait[u])) : Tail(wait[u])[k] = wait[u][k + 1]
      BY <1>1, <1>5, HeadTail DEF Sleeps
    <2>3. /\ Len(wait'[u]) = Len(Tail(wait[u])) + 1 /\ wait'[u][1] = w
          /\ \A k \in 2..Len(wait'[u]) : k - 1 \in 1..Len(Tail(wait[u])) /\ wait'[u][k] = Tail(wait[u])[k - 1]
      BY <2>1, <2>2, Cons
    <2>4. Len(wait'[u]) = Len(wait[u])
      BY <1>1, <2>2, <2>3
    <2>5. ASSUME NEW k \in 1..Len(wait[u]) PROVE wait'[u][k].frame = wait[u][k].frame
      <3>1. CASE k = 1
        BY <2>1, <2>2, <2>3, <3>1
      <3>2. CASE k # 1
        <4>1. k \in 2..Len(wait'[u]) /\ (k - 1) + 1 = k
          BY <1>1, <2>4, <3>2
        <4>2. k - 1 \in 1..Len(Tail(wait[u])) /\ wait'[u][k] = Tail(wait[u])[k - 1]
          BY <2>3, <4>1
        <4>3. Tail(wait[u])[k - 1] = wait[u][(k - 1) + 1]
          BY <2>2, <4>2
        <4> QED BY <4>1, <4>2, <4>3
      <3> QED BY <3>1, <3>2
    <2> QED BY <2>4, <2>5 DEF HasWait
  <1>6. ASSUME Disarms(u) PROVE HasWait(u, f)' <=> HasWait(u, f)
    <2>1. PICK k \in DOMAIN wait[u] : wait'[u] = [wait[u] EXCEPT ![k].user = FALSE]
      BY <1>6 DEF Disarms
    <2>2. k \in 1..Len(wait[u])
      BY <1>1, <2>1
    <2>3. Len(wait'[u]) = Len(wait[u])
      BY <1>1, <2>1
    <2>4. \A j \in 1..Len(wait[u]) : wait'[u][j].frame = wait[u][j].frame
      BY <1>1, <2>1, <2>2 DEF Waits
    <2> QED BY <2>3, <2>4 DEF HasWait
  <1> QED
    BY <1>2, <1>3, <1>4, <1>5, <1>6

\* Replies and waits keep matching.
LEMMA ReplyMoves ==
  ASSUME StateInv, NEW u \in Threads, StackOK(u), ReplyOK(u), Moves(u)
  PROVE  ReplyOK(u)'
  <1>1. /\ wait[u] \in Seq(Waits) /\ pc[u] \in [Frames -> Places]
        /\ pipe[u] \in Seq(Replies) /\ stolen[u] \in Seq(Replies) /\ Len(pipe[u]) \in Nat /\ Len(stolen[u]) \in Nat
    BY DEF StateInv
  <1>2. /\ \A k \in 1..Len(pipe[u]) : pipe[u][k] \in Replies /\ pipe[u][k].cookie \in Frames
        /\ \A k \in 1..Len(stolen[u]) : stolen[u][k] \in Replies /\ stolen[u][k].cookie \in Frames
    <2>1. /\ \A k \in 1..Len(pipe[u]) : pipe[u][k] \in Replies
          /\ \A k \in 1..Len(stolen[u]) : stolen[u][k] \in Replies
      BY <1>1
    <2> QED BY <2>1 DEF Replies
  \* Where the replies stay, only the frames matter.
  <1>3. ASSUME pipe'[u] = pipe[u], stolen'[u] = stolen[u],
               \A f \in Frames : Sent(u, f) \/ Kept(u, f) => pc'[u][f] = "read" /\ ~HasWait(u, f)',
               u \notin dead' => \A f \in Frames : pc'[u][f] = "read" => Sent(u, f) \/ Kept(u, f) \/ HasWait(u, f)'
        PROVE  ReplyOK(u)'
    <2>1. \A f : (Sent(u, f)' <=> Sent(u, f)) /\ (Kept(u, f)' <=> Kept(u, f))
      BY <1>3 DEF Sent, Kept
    <2> QED BY <1>3, <2>1 DEF ReplyOK
  <1>4. CASE Still(u)
    <2>1. pipe'[u] = pipe[u] /\ stolen'[u] = stolen[u] /\ wait'[u] = wait[u] /\ pc'[u] = pc[u] /\ (u \in dead' <=> u \in dead)
      BY <1>4 DEF Still, Apart
    <2>2. \A f : HasWait(u, f)' <=> HasWait(u, f)
      BY <2>1, WaitMoves
    <2> QED BY <1>3, <2>1, <2>2 DEF ReplyOK
  <1>5. ASSUME NEW x \in Places, NEW g \in Frames, Goes(u, g, x) PROVE ReplyOK(u)'
    <2>1. /\ pipe'[u] = pipe[u] /\ stolen'[u] = stolen[u] /\ wait'[u] = wait[u] /\ (u \in dead' <=> u \in dead)
          /\ pc[u][g] # "read" /\ pc'[u] = [pc[u] EXCEPT ![g] = x] /\ x # "read"
      BY <1>5 DEF Goes, Apart
    <2>2. \A f : HasWait(u, f)' <=> HasWait(u, f)
      BY <2>1, WaitMoves
    <2> QED BY <1>1, <1>3, <2>1, <2>2 DEF ReplyOK
  <1>6. CASE Pushes(u)
    <2>1. /\ pipe'[u] = pipe[u] /\ stolen'[u] = stolen[u] /\ (u \in dead' <=> u \in dead)
          /\ pc[u][Active(u)] # "read" /\ pc'[u] = [pc[u] EXCEPT ![Active(u)] = "server"]
      BY <1>6 DEF Pushes, Apart
    <2>2. \A f : HasWait(u, f)' <=> HasWait(u, f) \/ f = Active(u)
      BY <1>6, WaitMoves
    <2>3. Active(u) \in Frames
      BY DEF Active, Frames
    <2> QED BY <1>1, <1>3, <2>1, <2>2, <2>3 DEF ReplyOK
  <1>7. CASE PopsAsleep(u)
    <2> DEFINE g == Head(wait[u]).frame
    <2>1. PICK r \in Replies : r.cookie = g /\ pipe'[u] = Append(pipe[u], r)
      BY <1>7 DEF PopsAsleep
    <2>2. wait[u] # <<>> /\ Head(wait[u]).cookie /\ wait'[u] = Tail(wait[u]) /\ pc'[u] = pc[u]
          /\ stolen'[u] = stolen[u] /\ (u \in dead' <=> u \in dead)
      BY <1>7 DEF PopsAsleep, Apart
    <2>3. \A f : HasWait(u, f)' <=> HasWait(u, f) /\ f # g
      BY <2>2, WaitMoves
    <2>4. g \in Frames /\ HasWait(u, g) /\ pc[u][g] = "read"
      BY <2>2, TopFrame
    <2>5. ~Sent(u, g) /\ ~Kept(u, g)
      BY <2>4 DEF ReplyOK
    <2>6. /\ Len(pipe'[u]) = Len(pipe[u]) + 1 /\ pipe'[u][Len(pipe[u]) + 1] = r
          /\ \A k \in 1..Len(pipe[u]) : pipe'[u][k] = pipe[u][k]
          /\ \A k \in 1..Len(pipe'[u]) : k = Len(pipe[u]) + 1 \/ k \in 1..Len(pipe[u])
      BY <1>1, <2>1, Snoc
    <2> HIDE DEF g
    <2>7. \A f : Sent(u, f)' <=> Sent(u, f) \/ f = g
      <3>1. Len(pipe[u]) + 1 \in 1..Len(pipe'[u]) /\ \A k \in 1..Len(pipe[u]) : k \in 1..Len(pipe'[u])
        BY <1>1, <2>6
      <3> QED BY <2>1, <2>6, <3>1 DEF Sent
    <2>8. \A f : Kept(u, f)' <=> Kept(u, f)
      BY <2>2 DEF Kept
    <2>9. ASSUME NEW j \in 1..Len(pipe'[u]), NEW k \in 1..Len(pipe'[u]), pipe'[u][j].cookie = pipe'[u][k].cookie
          PROVE  j = k
      <3>1. \A m \in 1..Len(pipe[u]) : pipe[u][m].cookie # g
        BY <2>5 DEF Sent
      <3>2. CASE j \in 1..Len(pipe[u]) /\ k \in 1..Len(pipe[u])
        BY <2>6, <2>9, <3>2 DEF ReplyOK
      <3>3. CASE j \notin 1..Len(pipe[u])
        <4>1. j = Len(pipe[u]) + 1 /\ pipe'[u][j].cookie = g
          BY <2>1, <2>6, <3>3
        <4>2. k \notin 1..Len(pipe[u])
          BY <2>6, <2>9, <3>1, <4>1
        <4> QED BY <2>6, <4>1, <4>2
      <3>4. CASE k \notin 1..Len(pipe[u])
        <4>1. k = Len(pipe[u]) + 1 /\ pipe'[u][k].cookie = g
          BY <2>1, <2>6, <3>4
        <4>2. j \notin 1..Len(pipe[u])
          BY <2>6, <2>9, <3>1, <4>1
        <4> QED BY <2>6, <4>1, <4>2
      <3> QED BY <3>2, <3>3, <3>4
    <2>10. Len(stolen'[u]) <= 1 /\ ~Kept(u, "suspend")' /\ ~(Sent(u, "call")' /\ Kept(u, "call")')
      BY <2>2, <2>5, <2>7, <2>8 DEF ReplyOK
    <2>11. \A f \in Frames : Sent(u, f)' \/ Kept(u, f)' => pc'[u][f] = "read" /\ ~HasWait(u, f)'
      BY <2>2, <2>3, <2>4, <2>5, <2>7, <2>8 DEF ReplyOK
    <2>12. u \notin dead' => \A f \in Frames : pc'[u][f] = "read" => Sent(u, f)' \/ Kept(u, f)' \/ HasWait(u, f)'
      BY <2>2, <2>3, <2>7, <2>8 DEF ReplyOK
    <2> QED BY <2>9, <2>10, <2>11, <2>12 DEF ReplyOK
  <1>8. ASSUME NEW x \in Places, PopsAwake(u, x) PROVE ReplyOK(u)'
    <2> DEFINE g == Head(wait[u]).frame
    <2>1. /\ wait[u] # <<>> /\ ~Head(wait[u]).cookie /\ wait'[u] = Tail(wait[u])
          /\ pipe'[u] = pipe[u] /\ stolen'[u] = stolen[u] /\ (u \in dead' <=> u \in dead)
          /\ pc'[u] = [pc[u] EXCEPT ![g] = x] /\ x # "read"
      BY <1>8 DEF PopsAwake, Apart
    <2>2. \A f : HasWait(u, f)' <=> HasWait(u, f) /\ f # g
      BY <2>1, WaitMoves
    <2>3. g \in Frames /\ HasWait(u, g) /\ pc[u][g] = "server"
      BY <2>1, TopFrame
    <2> HIDE DEF g
    <2> QED BY <1>1, <1>3, <2>1, <2>2, <2>3 DEF ReplyOK
  <1>9. CASE Sleeps(u)
    <2> DEFINE g == Head(wait[u]).frame
    <2>1. /\ wait[u] # <<>> /\ ~Head(wait[u]).cookie
          /\ pipe'[u] = pipe[u] /\ stolen'[u] = stolen[u] /\ (u \in dead' <=> u \in dead)
          /\ pc'[u] = [pc[u] EXCEPT ![g] = "read"]
      BY <1>9 DEF Sleeps, Apart
    <2>2. \A f : HasWait(u, f)' <=> HasWait(u, f)
      BY <1>9, WaitMoves
    <2>3. g \in Frames /\ HasWait(u, g)
      BY <2>1, TopFrame
    <2> HIDE DEF g
    <2> QED BY <1>1, <1>3, <2>1, <2>2, <2>3 DEF ReplyOK
  <1>10. CASE Disarms(u)
    <2>1. pipe'[u] = pipe[u] /\ stolen'[u] = stolen[u] /\ pc'[u] = pc[u] /\ (u \in dead' <=> u \in dead)
      BY <1>10 DEF Disarms, Apart
    <2>2. \A f : HasWait(u, f)' <=> HasWait(u, f)
      BY <1>10, WaitMoves
    <2> QED BY <1>3, <2>1, <2>2 DEF ReplyOK
  <1>11. CASE Dies(u)
    <2>1. pipe'[u] = pipe[u] /\ stolen'[u] = stolen[u] /\ u \in dead' /\ wait'[u] = <<>>
      BY <1>11 DEF Dies
    <2>2. \A f : ~HasWait(u, f)'
      BY <2>1 DEF HasWait
    <2>3. \A f \in Frames : pc[u][f] = "read" => pc'[u][f] = "read"
      BY <1>1, <1>11 DEF Dies, Frames
    <2> QED BY <1>3, <2>1, <2>2, <2>3 DEF ReplyOK
  \* Only the handler steals, and only once.
  <1>12. CASE Steals(u)
    <2>1. /\ u \notin dead /\ pc[u][Active(u)] = "read" /\ pipe[u] # <<>> /\ Head(pipe[u]).cookie # Active(u)
          /\ stolen'[u] = <<Head(pipe[u])>> \o stolen[u] /\ pipe'[u] = Tail(pipe[u])
          /\ wait'[u] = wait[u] /\ pc'[u] = pc[u] /\ (u \in dead' <=> u \in dead)
      BY <1>12 DEF Steals
    <2>2. /\ Len(pipe[u]) >= 1 /\ pipe[u][1] = Head(pipe[u]) /\ Head(pipe[u]) \in Replies
          /\ Len(pipe'[u]) = Len(pipe[u]) - 1 /\ Tail(pipe[u]) \in Seq(Replies)
          /\ \A k \in 1..Len(pipe'[u]) : k + 1 \in 1..Len(pipe[u]) /\ pipe'[u][k] = pipe[u][k + 1]
      BY <1>1, <2>1, HeadTail
    <2>3. 1 \in 1..Len(pipe[u])
      BY <1>1, <2>2
    <2>4. Head(pipe[u]).cookie = "call" /\ Active(u) = "suspend"
      <3>1. Head(pipe[u]).cookie \in Frames /\ pc[u][Head(pipe[u]).cookie] = "read"
        BY <1>2, <2>2, <2>3 DEF ReplyOK, Sent
      <3> QED BY <2>1, <3>1 DEF Active, Frames
    <2>5. Sent(u, "call") /\ ~Kept(u, "call") /\ ~Kept(u, "suspend")
      BY <2>2, <2>3, <2>4 DEF ReplyOK, Sent
    <2>6. stolen[u] = <<>>
      <3>1. \A k \in 1..Len(stolen[u]) : FALSE
        BY <1>2, <2>5 DEF Kept, Frames
      <3>2. Len(stolen[u]) = 0
        BY <1>1, <3>1
      <3> QED BY <1>1, <3>2
    <2>7. Len(stolen'[u]) = 1 /\ stolen'[u][1] = Head(pipe[u])
      BY <1>1, <2>1, <2>2, <2>6, Cons
    <2>8. \A f : Kept(u, f)' <=> f = "call"
      BY <2>4, <2>7 DEF Kept
    <2>9. \A k \in 1..Len(pipe'[u]) : pipe'[u][k].cookie # "call"
      <3> SUFFICES ASSUME NEW k \in 1..Len(pipe'[u]), pipe'[u][k].cookie = "call" PROVE FALSE
        OBVIOUS
      <3>1. k + 1 \in 1..Len(pipe[u]) /\ pipe[u][k + 1].cookie = pipe[u][1].cookie
        BY <2>2, <2>4
      <3>2. k + 1 = 1
        BY <2>3, <3>1 DEF ReplyOK
      <3> QED BY <3>2
    <2>10. \A f : Sent(u, f)' => Sent(u, f) /\ f # "call"
      BY <2>2, <2>9 DEF Sent
    <2>11. Sent(u, "suspend") => Sent(u, "suspend")'
      <3> SUFFICES ASSUME Sent(u, "suspend") PROVE Sent(u, "suspend")'
        OBVIOUS
      <3>1. PICK k \in 1..Len(pipe[u]) : pipe[u][k].cookie = "suspend"
        BY DEF Sent
      <3>2. k # 1
        BY <2>2, <2>4, <3>1
      <3>3. k - 1 \in 1..Len(pipe'[u]) /\ (k - 1) + 1 = k
        BY <1>1, <2>2, <3>2
      <3>4. pipe'[u][k - 1] = pipe[u][(k - 1) + 1]
        BY <2>2, <3>3
      <3> QED BY <3>1, <3>3, <3>4 DEF Sent
    <2>12. ASSUME NEW j \in 1..Len(pipe'[u]), NEW k \in 1..Len(pipe'[u]), pipe'[u][j].cookie = pipe'[u][k].cookie
           PROVE  j = k
      <3>1. j + 1 \in 1..Len(pipe[u]) /\ k + 1 \in 1..Len(pipe[u]) /\ pipe[u][j + 1].cookie = pipe[u][k + 1].cookie
        BY <2>2, <2>12
      <3>2. j + 1 = k + 1
        BY <3>1 DEF ReplyOK
      <3> QED BY <3>2
    <2>13. \A f : HasWait(u, f)' <=> HasWait(u, f)
      BY <2>1, WaitMoves
    <2>14. \A f \in Frames : Sent(u, f)' \/ Kept(u, f)' => pc'[u][f] = "read" /\ ~HasWait(u, f)'
      BY <2>1, <2>5, <2>8, <2>10, <2>13 DEF ReplyOK
    <2>15. \A f \in Frames : pc'[u][f] = "read" => Sent(u, f)' \/ Kept(u, f)' \/ HasWait(u, f)'
      <3>1. \A f \in Frames : f = "call" \/ f = "suspend"
        BY DEF Frames
      <3> QED BY <2>1, <2>5, <2>8, <2>11, <2>13, <3>1 DEF ReplyOK
    <2>16. Len(stolen'[u]) <= 1 /\ ~Kept(u, "suspend")' /\ ~(Sent(u, "call")' /\ Kept(u, "call")')
      BY <2>7, <2>8, <2>10
    <2> QED BY <2>12, <2>14, <2>15, <2>16 DEF ReplyOK
  \* A kept reply goes back into the pipe, from which its frame has nothing.
  <1>13. ASSUME NEW x \in Places, Reads(u, x) PROVE ReplyOK(u)'
    <2> DEFINE g == Active(u)
    <2>1. /\ u \notin dead /\ pc[u][g] = "read" /\ pipe[u] # <<>> /\ Head(pipe[u]).cookie = g
          /\ pipe'[u] = Tail(pipe[u]) \o stolen[u] /\ stolen'[u] = <<>>
          /\ pc'[u] = [pc[u] EXCEPT ![g] = x] /\ x # "read"
          /\ wait'[u] = wait[u] /\ (u \in dead' <=> u \in dead)
      BY <1>13 DEF Reads
    <2> DEFINE T == Tail(pipe[u])
    <2>2. /\ Len(pipe[u]) >= 1 /\ pipe[u][1] = Head(pipe[u])
          /\ Len(T) = Len(pipe[u]) - 1 /\ T \in Seq(Replies) /\ Len(T) \in Nat
          /\ \A k \in 1..Len(T) : k + 1 \in 1..Len(pipe[u]) /\ T[k] = pipe[u][k + 1]
      BY <1>1, <2>1, HeadTail
    <2>3. 1 \in 1..Len(pipe[u])
      BY <1>1, <2>2
    <2>4. g \in Frames
      BY DEF Active, Frames
    <2> HIDE DEF g, T
    <2>5. Sent(u, g) /\ ~Kept(u, g)
      BY <2>1, <2>2, <2>3, <2>4 DEF ReplyOK, Sent, Frames
    <2>6. /\ Len(pipe'[u]) = Len(T) + Len(stolen[u])
          /\ \A k \in 1..Len(T) : pipe'[u][k] = T[k]
          /\ \A k \in 1..Len(stolen[u]) : pipe'[u][Len(T) + k] = stolen[u][k]
          /\ \A k \in 1..Len(pipe'[u]) :
                k \in 1..Len(T) \/ (k - Len(T) \in 1..Len(stolen[u]) /\ pipe'[u][k] = stolen[u][k - Len(T)])
      <3>1. pipe'[u] = T \o stolen[u]
        BY <2>1 DEF T
      <3> DEFINE r == stolen[u]
      <3>2. T \in Seq(Replies) /\ r \in Seq(Replies)
        BY <1>1, <2>2
      <3> HIDE DEF r
      <3>3. /\ Len(T \o r) = Len(T) + Len(r)
            /\ \A k \in 1..Len(T) : (T \o r)[k] = T[k]
            /\ \A k \in 1..Len(r) : (T \o r)[Len(T) + k] = r[k]
            /\ \A k \in 1..Len(T \o r) :
                  k \in 1..Len(T) \/ (k - Len(T) \in 1..Len(r) /\ (T \o r)[k] = r[k - Len(T)])
        BY <3>2, Join
      <3> QED BY <3>1, <3>3 DEF r
    <2>7. \A k \in 1..Len(T) : T[k].cookie # g
      <3> SUFFICES ASSUME NEW k \in 1..Len(T), T[k].cookie = g PROVE FALSE
        OBVIOUS
      <3>1. k + 1 \in 1..Len(pipe[u]) /\ pipe[u][k + 1].cookie = pipe[u][1].cookie
        BY <2>1, <2>2
      <3>2. k + 1 = 1
        BY <2>3, <3>1 DEF ReplyOK
      <3> QED BY <2>2, <3>2
    <2>8. \A k \in 1..Len(stolen[u]) : stolen[u][k].cookie = "call" /\ stolen[u][k].cookie # g
      BY <1>2, <2>5 DEF ReplyOK, Kept, Frames
    <2>9. ASSUME NEW f \in Frames PROVE Sent(u, f)' <=> (Sent(u, f) \/ Kept(u, f)) /\ f # g
      <3>1. ASSUME Sent(u, f)' PROVE (Sent(u, f) \/ Kept(u, f)) /\ f # g
        <4>1. PICK k \in 1..Len(pipe'[u]) : pipe'[u][k].cookie = f
          BY <3>1 DEF Sent
        <4>2. CASE k \in 1..Len(T)
          BY <2>2, <2>6, <2>7, <4>1, <4>2 DEF Sent
        <4>3. CASE k \notin 1..Len(T)
          BY <2>6, <2>8, <4>1, <4>3 DEF Kept
        <4> QED BY <4>2, <4>3
      <3>2. ASSUME Sent(u, f), f # g PROVE Sent(u, f)'
        <4>1. PICK k \in 1..Len(pipe[u]) : pipe[u][k].cookie = f
          BY <3>2 DEF Sent
        <4>2. k # 1
          BY <2>1, <2>2, <3>2, <4>1
        <4>3. k - 1 \in 1..Len(T) /\ (k - 1) + 1 = k /\ k - 1 \in 1..Len(pipe'[u])
          <5>1. k - 1 \in 1..Len(T) /\ (k - 1) + 1 = k
            BY <1>1, <2>2, <4>2, Shifts
          <5>2. Len(pipe'[u]) = Len(T) + Len(stolen[u])
            BY <2>6
          <5>3. k - 1 \in 1..(Len(T) + Len(stolen[u]))
            BY <1>1, <2>2, <5>1, Shifts
          <5> QED BY <5>1, <5>2, <5>3
        <4>4. pipe'[u][k - 1] = pipe[u][(k - 1) + 1]
          BY <2>2, <2>6, <4>3
        <4> QED BY <4>1, <4>3, <4>4 DEF Sent
      <3>3. ASSUME Kept(u, f) PROVE Sent(u, f)'
        <4>1. PICK k \in 1..Len(stolen[u]) : stolen[u][k].cookie = f
          BY <3>3 DEF Kept
        <4>2. Len(T) + k \in 1..Len(pipe'[u])
          <5>1. Len(pipe'[u]) = Len(T) + Len(stolen[u])
            BY <2>6
          <5> QED BY <1>1, <2>2, <5>1, Shifts
        <4> QED BY <2>6, <4>1, <4>2 DEF Sent
      <3> QED BY <3>1, <3>2, <3>3
    <2>10. \A f : ~Kept(u, f)'
      BY <2>1 DEF Kept
    <2>11. ASSUME NEW j \in 1..Len(pipe'[u]), NEW k \in 1..Len(pipe'[u]), pipe'[u][j].cookie = pipe'[u][k].cookie
           PROVE  j = k
      <3>1. ASSUME NEW i \in 1..Len(pipe'[u]), i \notin 1..Len(T)
            PROVE  i = Len(T) + 1 /\ pipe'[u][i].cookie = "call" /\ Kept(u, "call")
        <4>1. i - Len(T) \in 1..Len(stolen[u]) /\ pipe'[u][i] = stolen[u][i - Len(T)]
          BY <2>6, <3>1
        <4>2. Len(stolen[u]) <= 1
          BY DEF ReplyOK
        <4>3. i - Len(T) = 1
          BY <1>1, <4>1, <4>2, Shifts
        <4>4. i = Len(T) + 1
          BY <2>2, <4>3
        <4> QED BY <2>8, <4>1, <4>4 DEF Kept
      <3>2. ASSUME NEW i \in 1..Len(T), pipe'[u][i].cookie = "call" PROVE ~Kept(u, "call")
        BY <2>2, <2>6, <3>2 DEF ReplyOK, Sent
      <3>3. CASE j \in 1..Len(T) /\ k \in 1..Len(T)
        <4>1. j + 1 \in 1..Len(pipe[u]) /\ k + 1 \in 1..Len(pipe[u]) /\ pipe[u][j + 1].cookie = pipe[u][k + 1].cookie
          BY <2>2, <2>6, <2>11, <3>3
        <4>2. j + 1 = k + 1
          BY <4>1 DEF ReplyOK
        <4> QED BY <2>2, <3>3, <4>2
      <3>4. CASE j \notin 1..Len(T) /\ k \notin 1..Len(T)
        BY <3>1, <3>4
      <3>5. CASE j \notin 1..Len(T) /\ k \in 1..Len(T)
        BY <2>11, <3>1, <3>2, <3>5
      <3>6. CASE j \in 1..Len(T) /\ k \notin 1..Len(T)
        BY <2>11, <3>1, <3>2, <3>6
      <3> QED BY <3>3, <3>4, <3>5, <3>6
    <2>12. \A f : HasWait(u, f)' <=> HasWait(u, f)
      BY <2>1, WaitMoves
    <2>13. \A f \in Frames : Sent(u, f)' => pc'[u][f] = "read" /\ ~HasWait(u, f)'
      BY <1>1, <2>1, <2>4, <2>9, <2>12 DEF ReplyOK
    <2>14. \A f \in Frames : pc'[u][f] = "read" => Sent(u, f)' \/ Kept(u, f)' \/ HasWait(u, f)'
      BY <1>1, <2>1, <2>4, <2>9, <2>12 DEF ReplyOK
    <2>15. Len(stolen'[u]) <= 1
      BY <2>1
    <2> QED BY <2>10, <2>11, <2>13, <2>14, <2>15 DEF ReplyOK
  <1> QED
    BY <1>4, <1>5, <1>6, <1>7, <1>8, <1>9, <1>10, <1>11, <1>12, <1>13 DEF Moves

-----------------------------------------------------------------------------
(* Calls, and what ending a wait takes.                                    *)

LEMMA CallFormed ==
  ASSUME StateInv, CallsInv, NEW t \in Threads
  PROVE  /\ call[t] = NoCall \/ WellFormed(t, call[t])
         /\ \A c \in program[t] : WellFormed(t, c)
  BY ProgramAssumption DEF StateInv, CallsInv, IsCall

LEMMA FormedObjs ==
  ASSUME NEW t \in Threads, NEW c, c = NoCall \/ WellFormed(t, c)
  PROVE  WaitObjs(c) \in Seq(Objs)
  <1>1. CASE c = NoCall
    BY <1>1 DEF NoCall, WaitObjs
  <1>2. CASE WellFormed(t, c)
    <2>1. CASE c.fn \in {"wait_any", "wait_all", "keyed_wait", "keyed_release"}
      BY <1>2, <2>1 DEF WellFormed, WaitObjs
    <2>2. CASE c.fn = "signal_wait"
      <3>1. c.objs \in Seq(Objs) /\ Len(c.objs) = 2
        BY <1>2, <2>2 DEF WellFormed
      <3>2. c.objs[2] \in Objs
        BY <3>1
      <3> QED BY <2>2, <3>2 DEF WaitObjs
    <2>3. CASE c.fn \notin {"wait_any", "wait_all", "keyed_wait", "keyed_release", "signal_wait"}
      BY <2>3 DEF WaitObjs
    <2> QED BY <2>1, <2>2, <2>3
  <1> QED BY <1>1, <1>2

\* The partner of a keyed wait has a wait of its own call on top.
LEMMA PartnerWaits ==
  ASSUME TypesInv, NEW t \in Threads, IsKeyed(call[t]), Partners(t) # {}
  PROVE  LET u == Partner(t)
         IN  /\ u \in Threads /\ u # t /\ wait[u] # <<>> /\ Head(wait[u]).frame = "call"
             /\ IsKeyed(call[u]) /\ ~Suspended(u)
  <1> DEFINE q == queue[call[t].objs[1]]
             k == First(Partners(t))
  <1>1. call[t].objs[1] \in Objs
    <2>1. WellFormed(t, call[t])
      BY CallFormed DEF TypesInv, NoCall, IsKeyed
    <2>2. call[t].objs \in Seq(Objs) /\ call[t].objs # <<>>
      BY <2>1 DEF WellFormed, IsKeyed
    <2> QED BY <2>2, HeadTail
  <1>2. q \in Seq(Threads \X Nat) /\ DOMAIN q = 1..Len(q) /\ Len(q) \in Nat
    BY <1>1 DEF TypesInv, StateInv
  <1>3. Partners(t) \in SUBSET Nat
    <2>1. Partners(t) \subseteq DOMAIN q
      BY DEF Partners
    <2>2. DOMAIN q \subseteq Nat
      BY <1>2
    <2> QED BY <2>1, <2>2
  <1>4. k \in Partners(t)
    BY <1>3, FirstIn
  <1>5. k \in 1..Len(q) /\ Partner(t) = q[k][1]
    BY <1>2, <1>4 DEF Partners, Partner
  <1>6. q[k] \in Threads \X Nat
    BY <1>2, <1>5
  <1> QED
    BY <1>4, <1>5, <1>6 DEF Partners

\* How the check of a wait comes out.
LEMMA CheckEnds ==
  ASSUME TypesInv, StacksInv, NEW t \in Threads, CanEnd(t)
  PROVE  LET v == CheckWait(t)
         IN  /\ wait[t] # <<>> /\ v.status \in Statuses /\ v.index \in Nat
             /\ v.status = "object" => Head(wait[t]).frame = "call" /\ Ready(t) # {} /\ v.index \in Ready(t)
             /\ v.status # "kernel_apc" => ~Suspended(t)
             /\ v.status = "kernel_apc" => system_apc[t] # <<>>
             /\ Head(wait[t]).frame = "suspend" => v.status \in {"kernel_apc", "timeout"}
             /\ v.status = "user_apc" => user_apc[t] # <<>>
  <1> DEFINE ready == IF Head(wait[t]).frame = "call" THEN Ready(t) ELSE {}
  <1>1. wait[t] # <<>> /\ CheckWait(t) # Pending
    BY DEF CanEnd
  <1>2. WaitObjs(call[t]) \in Seq(Objs)
    BY CallFormed, FormedObjs DEF TypesInv
  <1>3. ready \in SUBSET Nat
    <2>1. DOMAIN WaitObjs(call[t]) \in SUBSET Nat
      BY <1>2
    <2> QED BY <2>1 DEF Ready
  <1>4. ready # {} => First(ready) \in ready /\ First(ready) \in Nat
    BY <1>3, FirstIn
  <1>5. Head(wait[t]).frame \in Frames
    BY <1>1, TopFrame DEF TypesInv, StacksInv
  <1>6. CASE system_apc[t] # <<>>
    <2>1. CheckWait(t) = [status |-> "kernel_apc", index |-> 0]
      BY <1>6 DEF CheckWait
    <2> QED BY <1>1, <1>6, <2>1 DEF Statuses
  <1>7. CASE system_apc[t] = <<>>
    <2>1. ~Suspended(t)
      BY <1>1, <1>7 DEF CheckWait
    <2>2. CASE ready # {}
      <3>1. CheckWait(t) = [status |-> "object", index |-> First(ready)]
        BY <1>7, <2>1, <2>2 DEF CheckWait
      <3>2. Head(wait[t]).frame = "call" /\ ready = Ready(t)
        BY <2>2
      <3> HIDE DEF ready
      <3> QED BY <1>1, <1>4, <2>1, <2>2, <3>1, <3>2 DEF Statuses
    <2>3. CASE ready = {} /\ Head(wait[t]).frame = "suspend"
      <3>1. CheckWait(t) = [status |-> "timeout", index |-> 0]
        BY <1>7, <2>1, <2>3 DEF CheckWait
      <3> QED BY <1>1, <2>1, <2>3, <3>1 DEF Statuses
    <2>4. CASE ready = {} /\ Head(wait[t]).frame # "suspend" /\ call[t].alertable /\ user_apc[t] # <<>>
      <3>1. CheckWait(t) = [status |-> "user_apc", index |-> 0]
        BY <1>7, <2>1, <2>4 DEF CheckWait
      <3> QED BY <1>1, <2>1, <2>4, <3>1 DEF Statuses
    <2>5. CASE ready = {} /\ Head(wait[t]).frame # "suspend" /\ ~(call[t].alertable /\ user_apc[t] # <<>>)
      <3>1. CheckWait(t) = [status |-> "timeout", index |-> 0]
        BY <1>1, <1>7, <2>1, <2>5 DEF CheckWait
      <3> QED BY <1>1, <2>1, <2>5, <3>1 DEF Statuses
    <2> QED BY <2>2, <2>3, <2>4, <2>5
  <1> QED BY <1>6, <1>7

\* The threads whose waits end together.
LEMMA EndsWait ==
  ASSUME TypesInv, StacksInv, NEW t \in Threads, wait[t] # <<>>,
         NEW v, (v = CheckWait(t) /\ CanEnd(t)) \/ v.status = "timeout"
  PROVE  /\ t \in Ends(t, v) /\ Ends(t, v) \subseteq Threads
         /\ \A u \in Ends(t, v) : wait[u] # <<>>
         /\ \A u \in Ends(t, v) \ {t} :
               Head(wait[u]).frame = "call" /\ ~Suspended(u) /\ v.status = "object" /\ Head(wait[t]).frame = "call"
  <1>1. CASE v.status = "object" /\ IsKeyed(call[t])
    <2>1. Ready(t) # {} /\ Head(wait[t]).frame = "call"
      BY <1>1, CheckEnds
    <2>2. Partners(t) # {}
      BY <1>1, <2>1 DEF Ready, IsKeyed
    <2>3. LET u == Partner(t)
          IN  u \in Threads /\ u # t /\ wait[u] # <<>> /\ Head(wait[u]).frame = "call" /\ ~Suspended(u)
      BY <1>1, <2>2, PartnerWaits
    <2>4. Ends(t, v) = {t, Partner(t)}
      BY <1>1 DEF Ends
    <2> QED BY <1>1, <2>1, <2>3, <2>4
  <1>2. CASE ~(v.status = "object" /\ IsKeyed(call[t]))
    <2>1. Ends(t, v) = {t}
      BY <1>2 DEF Ends
    <2> QED BY <2>1
  <1> QED BY <1>1, <1>2

\* What is taken is there to be taken.
LEMMA TakesSignaled ==
  ASSUME TypesInv, StacksInv, NEW t \in Threads,
         NEW v, (v = CheckWait(t) /\ CanEnd(t)) \/ v.status = "timeout"
  PROVE  Takes(t, v) \subseteq Objs /\ \A o \in Takes(t, v) : Signaled(o, t)
  <1>1. CASE v.status # "object" \/ IsKeyed(call[t])
    BY <1>1 DEF Takes
  <1>2. CASE v.status = "object" /\ ~IsKeyed(call[t])
    <2>1. Ready(t) # {} /\ v.index \in Ready(t)
      BY <1>2, CheckEnds
    <2>2. WaitObjs(call[t]) \in Seq(Objs)
      BY CallFormed, FormedObjs DEF TypesInv
    <2>3. CASE call[t].fn = "wait_all"
      <3>1. WaitObjs(call[t]) = call[t].objs
        BY <2>3 DEF WaitObjs
      <3>2. \A k \in DOMAIN call[t].objs : Signaled(call[t].objs[k], t)
        BY <2>1, <2>3, <3>1 DEF Ready
      <3>3. Takes(t, v) = {call[t].objs[k] : k \in DOMAIN call[t].objs}
        BY <1>2, <2>3 DEF Takes
      <3>4. \A k \in DOMAIN call[t].objs : call[t].objs[k] \in Objs
        BY <2>2, <3>1
      <3> QED BY <3>2, <3>3, <3>4
    <2>4. CASE call[t].fn # "wait_all"
      <3>1. v.index \in DOMAIN WaitObjs(call[t]) /\ Signaled(WaitObjs(call[t])[v.index], t)
        BY <1>2, <2>1, <2>4 DEF Ready
      <3>2. Takes(t, v) = {WaitObjs(call[t])[v.index]}
        BY <1>2, <2>4 DEF Takes
      <3> QED BY <2>2, <3>1, <3>2
    <2> QED BY <2>3, <2>4
  <1> QED BY <1>1, <1>2

LEMMA SatisfiedTypes ==
  ASSUME ObjectsInv, NEW t \in Threads, NEW S \in SUBSET Objs, \A o \in S : Signaled(o, t), Satisfied(t, S)
  PROVE  ObjectsInv'
  <1> USE ObjectAssumption, BoundAssumption, NoOneAssumption
  <1>1. units' \in [Objs -> Nat] /\ \A o \in Objs : Type[o] = "sem" => units'[o] <= Max[o]
    <2>1. \A o \in S : Type[o] = "sem" => units[o] > 0
      BY DEF Signaled
    <2> QED BY <2>1 DEF Satisfied, ObjectsInv
  <1>2. \A o \in S : Type[o] = "mutex" => mowner[o] \in {NoOne, t} /\ mcount[o] < MaxRec
    BY DEF Signaled
  <1>3. mcount' \in [Objs -> 0..MaxRec]
    BY <1>2 DEF Satisfied, ObjectsInv
  <1>4. mowner' \in [Objs -> Threads \cup {NoOne}]
    BY DEF Satisfied, ObjectsInv
  <1>5. mdead' \in [Objs -> BOOLEAN] /\ event' \in [Objs -> BOOLEAN]
    BY DEF Satisfied, ObjectsInv
  <1>6. \A o \in Objs : (mowner'[o] = NoOne) = (mcount'[o] = 0)
    BY <1>2 DEF Satisfied, ObjectsInv
  <1> QED BY <1>1, <1>3, <1>4, <1>5, <1>6 DEF ObjectsInv

LEMMA WithoutType ==
  ASSUME NEW S, NEW s \in Seq(S), NEW E
  PROVE  /\ Without(s, E) \in Seq(S)
         /\ \A j \in 1..Len(Without(s, E)) : \E k \in 1..Len(s) : Without(s, E)[j] = s[k] /\ s[k][1] \notin E
  <1> DEFINE K == {k \in DOMAIN s : s[k][1] \notin E}
  <1>1. K \in SUBSET (1..Len(s)) /\ \A k \in K : s[k][1] \notin E
    OBVIOUS
  <1>2. Without(s, E) = Keep(s, K)
    BY DEF Without
  <1> HIDE DEF K
  <1>3. Keep(s, K) \in Seq(S) /\ \A j \in 1..Len(Keep(s, K)) : \E k \in K : Keep(s, K)[j] = s[k]
    BY <1>1, KeepType
  <1> QED
    BY <1>1, <1>2, <1>3

\* end_wait.
LEMMA EndFacts ==
  ASSUME TypesInv, StacksInv, NEW t \in Threads, wait[t] # <<>>,
         NEW v, (v = CheckWait(t) /\ CanEnd(t)) \/ v = [status |-> "timeout", index |-> 0], EndWait(t, v)
  PROVE  /\ ObjectsInv' /\ v.status \in Statuses /\ v.index \in Nat
         /\ wait' \in [Threads -> Seq(Waits)] /\ queue' \in [Objs -> Seq(Threads \X Nat)]
         /\ \A u \in Ends(t, v) : wait[u] # <<>> /\ wait'[u] = Tail(wait[u])
         /\ \A u \in Threads \ Ends(t, v) : wait'[u] = wait[u]
  <1> DEFINE E == Ends(t, v)
  <1>1. v.status \in Statuses /\ v.index \in Nat /\ ((v = CheckWait(t) /\ CanEnd(t)) \/ v.status = "timeout")
    BY CheckEnds DEF Statuses
  <1>2. t \in E /\ E \subseteq Threads /\ \A u \in E : wait[u] # <<>>
    BY <1>1, EndsWait
  <1>3. /\ wait' = [u \in Threads |-> IF u \in E THEN Tail(wait[u]) ELSE wait[u]]
        /\ queue' = IF Head(wait[t]).frame = "suspend" THEN queue ELSE [o \in Objs |-> Without(queue[o], E)]
        /\ Satisfied(t, Takes(t, v))
    BY DEF EndWait
  <1>4. ObjectsInv'
    BY <1>1, <1>3, TakesSignaled, SatisfiedTypes DEF TypesInv
  <1> HIDE DEF E
  <1>5. wait \in [Threads -> Seq(Waits)] /\ queue \in [Objs -> Seq(Threads \X Nat)]
    BY DEF TypesInv, StateInv
  <1>6. \A u \in E : Tail(wait[u]) \in Seq(Waits)
    BY <1>2, <1>5, HeadTail
  <1>7. wait' \in [Threads -> Seq(Waits)]
    BY <1>3, <1>5, <1>6
  <1>8. \A o \in Objs : Without(queue[o], E) \in Seq(Threads \X Nat)
    BY <1>5, WithoutType
  <1>9. queue' \in [Objs -> Seq(Threads \X Nat)]
    BY <1>3, <1>5, <1>8
  <1>10. /\ \A u \in E : wait[u] # <<>> /\ wait'[u] = Tail(wait[u])
         /\ \A u \in Threads \ E : wait'[u] = wait[u]
    BY <1>2, <1>3
  <1> QED BY <1>1, <1>4, <1>7, <1>9, <1>10 DEF E

\* Who is queued still waits.
LEMMA EndQueues ==
  ASSUME TypesInv, StacksInv, QueuesInv, NEW t \in Threads, wait[t] # <<>>,
         NEW v, (v = CheckWait(t) /\ CanEnd(t)) \/ v = [status |-> "timeout", index |-> 0], EndWait(t, v),
         \A u \in Threads : u # t => call'[u] = call[u],
         Head(wait[t]).frame = "suspend" => call'[t] = call[t]
  PROVE  QueuesInv'
  <1> DEFINE E == Ends(t, v)
  <1>1. /\ t \in E /\ E \subseteq Threads
        /\ \A u \in E \ {t} : Head(wait[t]).frame = "call"
    BY EndsWait
  <1>2. wait'[t] = Tail(wait[t]) /\ \A u \in Threads \ E : wait'[u] = wait[u]
    BY <1>1, EndFacts
  <1>3. queue' = IF Head(wait[t]).frame = "suspend" THEN queue ELSE [o \in Objs |-> Without(queue[o], E)]
    BY DEF EndWait
  <1> HIDE DEF E
  <1>4. queue \in [Objs -> Seq(Threads \X Nat)]
    BY DEF TypesInv, StateInv
  <1>5. ASSUME NEW u \in Threads, u \notin E \/ Head(wait[t]).frame = "suspend", HasWait(u, "call")
        PROVE  HasWait(u, "call")' /\ call'[u] = call[u]
    <2>1. CASE u = t
      <3>1. Head(wait[t]).frame = "suspend"
        BY <1>1, <1>5, <2>1
      <3>2. HasWait(t, "call")'
        BY <1>2, <1>5, <2>1, <3>1, WaitMoves DEF TypesInv, StacksInv
      <3> QED BY <2>1, <3>1, <3>2
    <2>2. CASE u # t
      <3>1. u \notin E
        BY <1>1, <1>5, <2>2
      <3> QED BY <1>2, <1>5, <2>2, <3>1 DEF HasWait
    <2> QED BY <2>1, <2>2
  <1>6. ASSUME NEW o \in Objs, NEW j \in 1..Len(queue'[o])
        PROVE  \E k \in 1..Len(queue[o]) : queue'[o][j] = queue[o][k] /\ (queue[o][k][1] \notin E \/ Head(wait[t]).frame = "suspend")
    <2>1. CASE Head(wait[t]).frame = "suspend"
      BY <1>3, <2>1
    <2>2. CASE Head(wait[t]).frame # "suspend"
      <3>1. queue'[o] = Without(queue[o], E)
        BY <1>3, <2>2
      <3> QED BY <1>4, <3>1, WithoutType
    <2> QED BY <2>1, <2>2
  <1>7. ASSUME NEW o \in Objs PROVE QueueOK(o)'
    <2> SUFFICES ASSUME NEW j \in 1..Len(queue'[o]), NEW u, NEW n, u = queue'[o][j][1], n = queue'[o][j][2]
                 PROVE  HasWait(u, "call")' /\ n \in DOMAIN WaitObjs(call'[u]) /\ WaitObjs(call'[u])[n] = o
      BY DEF QueueOK, HasWait
    <2>1. PICK k \in 1..Len(queue[o]) :
             queue'[o][j] = queue[o][k] /\ (queue[o][k][1] \notin E \/ Head(wait[t]).frame = "suspend")
      BY <1>6
    <2>2. u \in Threads
      <3>1. queue[o][k] \in Threads \X Nat
        BY <1>4, <2>1
      <3> QED BY <2>1, <3>1
    <2>3. HasWait(u, "call") /\ n \in DOMAIN WaitObjs(call[u]) /\ WaitObjs(call[u])[n] = o
      BY <2>1 DEF QueuesInv, QueueOK
    <2>4. HasWait(u, "call")' /\ call'[u] = call[u]
      BY <1>5, <2>1, <2>2, <2>3
    <2> QED BY <2>3, <2>4
  <1> QED BY <1>7 DEF QueuesInv

-----------------------------------------------------------------------------
(* What the server has to do.                                              *)

ItemsOK(s) == s \in Seq(Items) /\ \A k \in 1..Len(s) : IsItem(s[k])
NoSelect(s) == \A k \in 1..Len(s) : s[k].do # "select"
\* The select at the end of todo, if there is one, is at the end of s.
Follows(s) ==
    /\ \A k \in 1..Len(s) : s[k].do = "select" => k = Len(s) /\ s[k] = LastTodo
    /\ todo # <<>> /\ LastTodo.do = "select" => s # <<>> /\ s[Len(s)] = LastTodo

LEMMA ItemFacts ==
  /\ \A o \in Objs, n \in Nat : WakeUp(o, n) \in Items /\ IsItem(WakeUp(o, n)) /\ WakeUp(o, n).do # "select"
  /\ \A t \in Threads : WakeThread(t) \in Items /\ IsItem(WakeThread(t)) /\ WakeThread(t).do # "select"
  /\ \A t \in Threads : EndSelect(t) \in Items /\ IsItem(EndSelect(t))
  /\ \A o \in Objs : ResetSync(o) \in Items /\ IsItem(ResetSync(o)) /\ ResetSync(o).do # "select"
  /\ \A t \in Threads : Abandon(t) \in Items /\ IsItem(Abandon(t)) /\ Abandon(t).do # "select"
  BY DEF Items, IsItem, WakeUp, WakeThread, EndSelect, ResetSync, Abandon

LEMMA ItemsFacts ==
  /\ ItemsOK(<<>>) /\ NoSelect(<<>>)
  /\ \A x \in Items : IsItem(x) => ItemsOK(<<x>>) /\ (x.do # "select" => NoSelect(<<x>>))
  BY DEF ItemsOK, NoSelect

LEMMA ItemsJoin ==
  ASSUME NEW s, NEW r, ItemsOK(s), ItemsOK(r)
  PROVE  ItemsOK(s \o r) /\ (NoSelect(s) /\ NoSelect(r) => NoSelect(s \o r))
  <1>1. s \in Seq(Items) /\ r \in Seq(Items)
    BY DEF ItemsOK
  <1>2. /\ s \o r \in Seq(Items)
        /\ \A k \in 1..Len(s) : (s \o r)[k] = s[k]
        /\ \A k \in 1..Len(s \o r) :
              k \in 1..Len(s) \/ (k - Len(s) \in 1..Len(r) /\ (s \o r)[k] = r[k - Len(s)])
    BY <1>1, Join
  <1>3. \A k \in 1..Len(s \o r) : IsItem((s \o r)[k])
    BY <1>2 DEF ItemsOK
  <1>4. NoSelect(s) /\ NoSelect(r) => NoSelect(s \o r)
    BY <1>2 DEF NoSelect
  <1> QED BY <1>2, <1>3, <1>4 DEF ItemsOK

LEMMA ItemsTail ==
  ASSUME NEW s, ItemsOK(s), s # <<>>
  PROVE  ItemsOK(Tail(s)) /\ Head(s) \in Items /\ IsItem(Head(s))
  <1>1. /\ Len(s) \in Nat /\ Len(s) >= 1 /\ s[1] = Head(s) /\ Head(s) \in Items /\ Tail(s) \in Seq(Items)
        /\ \A k \in 1..Len(Tail(s)) : k + 1 \in 1..Len(s) /\ Tail(s)[k] = s[k + 1]
    BY HeadTail DEF ItemsOK
  <1>2. 1 \in 1..Len(s)
    BY <1>1
  <1> QED BY <1>1, <1>2 DEF ItemsOK

\* The head of todo is done.
LEMMA FollowsTail ==
  ASSUME TodoInv, LastOK, todo # <<>>, Head(todo).do # "select"
  PROVE  Follows(Tail(todo)) /\ (LastTodo.do = "select" => Len(todo) # 1)
  <1> DEFINE s == Tail(todo)
  <1>1. /\ todo \in Seq(Items) /\ Len(todo) \in Nat /\ Len(todo) >= 1 /\ todo[1] = Head(todo)
        /\ s \in Seq(Items) /\ Len(s) = Len(todo) - 1
        /\ \A k \in 1..Len(s) : k + 1 \in 1..Len(todo) /\ s[k] = todo[k + 1]
    BY HeadTail DEF TodoInv
  <1> HIDE DEF s
  <1>2. ASSUME NEW k \in 1..Len(s), s[k].do = "select" PROVE k = Len(s) /\ s[k] = LastTodo
    <2>1. k + 1 \in 1..Len(todo) /\ s[k] = todo[k + 1] /\ todo[k + 1].do = "select"
      BY <1>1, <1>2
    <2>2. k + 1 = Len(todo)
      BY <2>1 DEF LastOK
    <2> QED BY <1>1, <2>1, <2>2 DEF LastTodo
  <1>3. ASSUME LastTodo.do = "select" PROVE Len(todo) # 1 /\ s # <<>> /\ s[Len(s)] = LastTodo
    <2>1. Len(todo) # 1
      BY <1>1, <1>3 DEF LastTodo
    <2>2. Len(s) \in 1..Len(s) /\ Len(s) + 1 = Len(todo) /\ Len(s) # 0
      BY <1>1, <2>1
    <2>3. s[Len(s)] = todo[Len(s) + 1]
      BY <1>1, <2>2
    <2> QED BY <2>1, <2>2, <2>3 DEF LastTodo
  <1> QED BY <1>2, <1>3 DEF Follows, s

LEMMA FollowsSame == ASSUME LastOK PROVE Follows(todo)
  BY DEF Follows, LastOK, LastTodo

LEMMA FollowsCons ==
  ASSUME NEW s \in Seq(Items), NEW x \in Items, x.do # "select", Follows(s)
  PROVE  Follows(<<x>> \o s)
  <1> DEFINE r == <<x>> \o s
  <1>1. /\ r \in Seq(Items) /\ Len(r) = Len(s) + 1 /\ r[1] = x /\ Len(s) \in Nat
        /\ \A k \in 2..Len(r) : k - 1 \in 1..Len(s) /\ r[k] = s[k - 1]
        /\ \A k \in 1..Len(s) : r[k + 1] = s[k]
    BY Cons
  <1> HIDE DEF r
  <1>2. ASSUME NEW k \in 1..Len(r), r[k].do = "select" PROVE k = Len(r) /\ r[k] = LastTodo
    <2>1. k # 1
      BY <1>1, <1>2
    <2>2. k \in 2..Len(r)
      BY <1>1, <2>1
    <2>3. k - 1 \in 1..Len(s) /\ r[k] = s[k - 1]
      BY <1>1, <2>2
    <2>4. k - 1 = Len(s) /\ s[k - 1] = LastTodo
      BY <1>2, <2>3 DEF Follows
    <2> QED BY <1>1, <2>3, <2>4
  <1>3. ASSUME s # <<>>, s[Len(s)] = LastTodo PROVE r # <<>> /\ r[Len(r)] = LastTodo
    <2>1. Len(s) \in 1..Len(s) /\ Len(r) # 0
      BY <1>1, <1>3
    <2> QED BY <1>1, <1>3, <2>1
  <1> QED BY <1>2, <1>3 DEF Follows, r

\* The request goes on.
LEMMA SelectFollows ==
  ASSUME StateInv, SelectInv, Follows(todo'), todo # <<>>, Head(todo).do # "select", TodoInv,
         UNCHANGED <<wait, pc, dead>>
  PROVE  SelectInv'
  <1>1. ASSUME NEW k \in 1..Len(todo'), NEW u, u = todo'[k].thread, todo'[k].do = "select"
        PROVE  k = Len(todo') /\ pc'[u][Active(u)'] = "server"
    <2>1. k = Len(todo') /\ todo'[k] = LastTodo
      BY <1>1 DEF Follows
    <2>2. Len(todo) \in 1..Len(todo) /\ LastTodo = todo[Len(todo)]
      BY DEF LastTodo, TodoInv
    <2>3. pc[LastTodo.thread][Active(LastTodo.thread)] = "server"
      BY <1>1, <2>1, <2>2 DEF SelectInv, LastOK
    <2>4. Active(u)' = Active(u)
      BY DEF Active
    <2> QED BY <1>1, <2>1, <2>3, <2>4
  <1>2. ASSUME NEW u \in Threads PROVE SelectOK(u)'
    <2>1. SelectOK(u)
      BY DEF SelectInv
    <2>2. LastTodo.do = "select" => Len(todo) # 1
      BY FollowsTail DEF SelectInv
    <2>3. HasWait(u, "call")' = HasWait(u, "call") /\ Active(u)' = Active(u)
      BY DEF HasWait, Active
    <2> SUFFICES ASSUME NEW f \in Frames, pc[u][f] = "server"
                 PROVE  /\ todo' # <<>> /\ LastTodo'.do = "select" /\ LastTodo'.thread = u
                        /\ f = Active(u) /\ u \notin dead
                        /\ HasWait(u, f) \/ (f = "call" /\ wait[u] = <<>>)
                        /\ f # "suspend"
      BY DEF SelectOK, HasWait, Active, LastTodo
    <2>4. LastTodo.do = "select" /\ LastTodo.thread = u
      BY <2>1 DEF SelectOK
    <2>5. todo' # <<>> /\ LastTodo' = LastTodo
      BY <2>4 DEF Follows, LastTodo
    <2> QED BY <2>1, <2>2, <2>4, <2>5 DEF SelectOK
  <1>3. LastOK'
    BY <1>1 DEF LastOK, Active
  <1> QED BY <1>2, <1>3 DEF SelectInv

\* No request is under way.
LEMMA SelectNone ==
  ASSUME \A u \in Threads : \A f \in Frames : pc'[u][f] # "server", NoSelect(todo')
  PROVE  SelectInv'
  BY DEF SelectInv, SelectOK, LastOK, NoSelect

LEMMA IdleNoServer ==
  ASSUME SelectInv, Idle
  PROVE  (\A u \in Threads : \A f \in Frames : pc[u][f] # "server") /\ NoSelect(todo)
  BY DEF SelectInv, SelectOK, Idle, NoSelect

\* A frame outside its request leaves the one under way alone.
LEMMA SelectApart ==
  ASSUME StateInv, TodoInv, SelectInv, NEW t \in Threads, UNCHANGED <<todo, dead>>,
         \A u \in Threads : u # t => wait'[u] = wait[u] /\ pc'[u] = pc[u],
         \A f \in Frames : pc[t][f] # "server" /\ pc'[t][f] # "server"
  PROVE  SelectInv'
  <1>1. ASSUME NEW k \in 1..Len(todo), todo[k].do = "select"
        PROVE  k = Len(todo) /\ pc'[todo[k].thread][Active(todo[k].thread)'] = "server"
    <2>1. todo[k].thread \in Threads
      <3>1. IsItem(todo[k])
        BY DEF TodoInv
      <3> QED BY <1>1, <3>1 DEF IsItem
    <2>2. k = Len(todo) /\ pc[todo[k].thread][Active(todo[k].thread)] = "server"
      BY <1>1 DEF SelectInv, LastOK
    <2>3. todo[k].thread # t
      BY <2>2 DEF Active, Frames
    <2>4. pc'[todo[k].thread] = pc[todo[k].thread]
      BY <2>1, <2>3
    <2> QED BY <2>2, <2>4 DEF Active
  <1>2. ASSUME NEW u \in Threads PROVE SelectOK(u)'
    <2>1. CASE u = t
      BY <2>1 DEF SelectOK
    <2>2. CASE u # t
      <3>1. SelectOK(u) /\ wait'[u] = wait[u] /\ pc'[u] = pc[u]
        BY <2>2 DEF SelectInv
      <3> QED BY <3>1 DEF SelectOK, HasWait, Active, LastTodo
    <2> QED BY <2>1, <2>2
  <1> QED BY <1>1, <1>2 DEF SelectInv, LastOK

-----------------------------------------------------------------------------
(* What a step leaves alone.                                               *)

LEMMA QueuesNext ==
  ASSUME \A o \in Objs : \A j \in 1..Len(queue'[o]) : \A u, n : u = queue'[o][j][1] /\ n = queue'[o][j][2] =>
            HasWait(u, "call")' /\ n \in DOMAIN WaitObjs(call'[u]) /\ WaitObjs(call'[u])[n] = o
  PROVE  QueuesInv'
  BY DEF QueuesInv, QueueOK, HasWait

LEMMA QueuesSame ==
  ASSUME StateInv, QueuesInv, UNCHANGED queue,
         \A u \in Threads : HasWait(u, "call") => HasWait(u, "call")' /\ call'[u] = call[u]
  PROVE  QueuesInv'
  <1>1. ASSUME NEW o \in Objs PROVE QueueOK(o)'
    <2> SUFFICES ASSUME NEW j \in 1..Len(queue'[o]), NEW u, NEW n, u = queue'[o][j][1], n = queue'[o][j][2]
                 PROVE  HasWait(u, "call")' /\ n \in DOMAIN WaitObjs(call'[u]) /\ WaitObjs(call'[u])[n] = o
      BY DEF QueueOK, HasWait
    <2>1. u \in Threads
      <3>1. queue[o][j] \in Threads \X Nat
        BY DEF StateInv
      <3> QED BY <3>1
    <2>2. HasWait(u, "call") /\ n \in DOMAIN WaitObjs(call[u]) /\ WaitObjs(call[u])[n] = o
      BY DEF QueuesInv, QueueOK
    <2> QED BY <2>1, <2>2
  <1> QED BY <1>1 DEF QueuesInv

LEMMA ApcsSame ==
  ASSUME StateInv, ApcsInv, UNCHANGED <<system_apc, prev>>,
         \A u \in Threads : pc[u]["call"] = "apc_wait" => pc'[u]["call"] = "apc_wait"
  PROVE  ApcsInv'
  <1>1. ASSUME NEW u \in Threads, NEW k \in 1..Len(system_apc[u]) PROVE pc'[system_apc[u][k]]["call"] = "apc_wait"
    <2>1. system_apc[u][k] \in Threads
      BY DEF StateInv
    <2> QED BY <2>1 DEF ApcsInv, QueuedWait
  <1>2. ASSUME NEW u \in Threads, NEW f \in Frames, prev[u][f] # NoOne PROVE pc'[prev[u][f]]["call"] = "apc_wait"
    <2>1. prev[u][f] \in Threads
      BY <1>2 DEF StateInv
    <2> QED BY <1>2, <2>1 DEF ApcsInv, RunWait
  <1>3. QueuedWait' /\ RunWait'
    BY <1>1, <1>2 DEF QueuedWait, RunWait
  <1>4. QueuedOnce' /\ QueuedOrRun' /\ RunOnce'
    BY DEF ApcsInv, QueuedOnce, QueuedOrRun, RunOnce
  <1> QED BY <1>3, <1>4 DEF ApcsInv

\* The invariant from its parts.
LEMMA Assemble ==
  ASSUME ServerInv, ObjectsInv', StateInv', FlagsInv', CallsInv', TodoInv', SelectInv', QueuesInv', ApcsInv',
         \A u \in Threads : Moves(u)
  PROVE  ServerInv'
  <1>1. ASSUME NEW u \in Threads PROVE StackOK(u)' /\ ReplyOK(u)'
    <2>1. StateInv /\ StackOK(u) /\ ReplyOK(u) /\ Moves(u)
      BY DEF ServerInv, TypesInv, StacksInv, RepliesInv
    <2>2. ReplyOK(u)'
      BY <2>1, ReplyMoves
    <2>3. ASSUME NEW x \in Places, Reads(u, x) PROVE ~HasWait(u, Active(u))
      <3>1. pipe[u] # <<>> /\ Head(pipe[u]).cookie = Active(u)
        BY <2>3 DEF Reads
      <3>2. pipe[u] \in Seq(Replies)
        BY <2>1 DEF StateInv
      <3>3. 1 \in 1..Len(pipe[u]) /\ pipe[u][1] = Head(pipe[u])
        BY <3>1, <3>2, HeadTail
      <3>4. Sent(u, Active(u)) /\ Active(u) \in Frames
        BY <3>1, <3>3 DEF Sent, Active, Frames
      <3> QED BY <2>1, <3>4 DEF ReplyOK
    <2>4. StackOK(u)'
      BY <2>1, <2>3, StackMoves
    <2> QED BY <2>2, <2>4
  <1> QED BY <1>1 DEF ServerInv, TypesInv, StacksInv, RepliesInv

\* A step that moves no thread.
quiet == <<wait, pc, pipe, stolen, dead, queue, call, system_apc, prev, program>>
LEMMA Quiet ==
  ASSUME ServerInv, UNCHANGED quiet,
         ObjectsInv', suspend' \in [Threads -> 0..MaxSuspend], context' \in [Threads -> {"none", "pending", "saved"}],
         changed' \in [Threads -> BOOLEAN], sigusr1' \in [Threads -> BOOLEAN], FlagsInv', TodoInv', SelectInv'
  PROVE  ServerInv'
  <1>1. UNCHANGED <<wait, pc, pipe, stolen, dead, queue, call, system_apc, prev, program>>
    BY DEF quiet
  <1>2. StateInv'
    BY <1>1 DEF ServerInv, TypesInv, StateInv
  <1>3. CallsInv'
    BY <1>1 DEF ServerInv, TypesInv, CallsInv, IsCall
  <1>4. QueuesInv'
    BY <1>1, QueuesSame DEF ServerInv, TypesInv, HasWait
  <1>5. ApcsInv'
    BY <1>1, ApcsSame DEF ServerInv, TypesInv
  <1>6. \A u \in Threads : Moves(u)
    BY <1>1 DEF Moves, Still, Apart
  <1> QED BY <1>2, <1>3, <1>4, <1>5, <1>6, Assemble

LEMMA ServerParts ==
  ASSUME ServerInv
  PROVE  /\ ObjectsInv /\ StateInv /\ FlagsInv /\ CallsInv /\ TodoInv /\ TypesInv /\ SelectInv /\ LastOK
         /\ StacksInv /\ QueuesInv /\ RepliesInv /\ ApcsInv
         /\ suspend \in [Threads -> 0..MaxSuspend] /\ context \in [Threads -> {"none", "pending", "saved"}]
         /\ changed \in [Threads -> BOOLEAN] /\ sigusr1 \in [Threads -> BOOLEAN]
         /\ todo \in Seq(Items) /\ ItemsOK(todo)
  BY DEF ServerInv, TypesInv, SelectInv, StateInv, TodoInv, ItemsOK

LEMMA WakeUpStepInv == ASSUME ServerInv, WakeUpStep PROVE ServerInv'
  <1> USE ServerParts
  <1> DEFINE w == Head(todo)
             q == queue[w.obj]
             able == {k \in DOMAIN q : CanEnd(q[k][1])}
  <1>1. todo # <<>> /\ w.do = "wake_up"
    BY DEF WakeUpStep, Doing
  <1>2. w \in Items /\ IsItem(w) /\ ItemsOK(Tail(todo)) /\ Follows(Tail(todo)) /\ Tail(todo) \in Seq(Items)
    <2>1. w \in Items /\ IsItem(w) /\ ItemsOK(Tail(todo))
      BY <1>1, ItemsTail
    <2>2. Follows(Tail(todo))
      BY <1>1, FollowsTail
    <2> QED BY <2>1, <2>2 DEF ItemsOK
  <1>3. w.obj \in Objs /\ w.max \in Nat
    BY <1>1, <1>2 DEF IsItem, Items
  <1>4. q \in Seq(Threads \X Nat)
    BY <1>3 DEF StateInv
  <1> HIDE DEF w, q
  <1>5. ItemsOK(todo') /\ Follows(todo')
    <2>1. CASE able = {}
      <3>1. todo' = Tail(todo)
        BY <2>1 DEF WakeUpStep, w, q
      <3> QED BY <1>2, <3>1
    <2>2. CASE able # {}
      <3> DEFINE x == WakeThread(q[First(able)][1])
                 y == [w EXCEPT !.max = IF @ = 0 THEN 0 ELSE @ - 1]
      <3>1. x \in Items /\ IsItem(x) /\ x.do # "select"
        <4>1. able \in SUBSET Nat /\ able \subseteq 1..Len(q)
          BY <1>4
        <4> HIDE DEF able
        <4>2. First(able) \in able
          BY <2>2, <4>1, FirstIn
        <4>3. First(able) \in 1..Len(q)
          BY <4>1, <4>2
        <4>4. q[First(able)] \in Threads \X Nat
          BY <1>4, <4>3
        <4>5. q[First(able)][1] \in Threads
          BY <4>4
        <4> QED BY <4>5, ItemFacts
      <3>2. y \in Items /\ IsItem(y) /\ y.do # "select"
        <4>1. y \in Items /\ y.do = "wake_up" /\ y.obj = w.obj /\ y.thread = w.thread
          <5>1. (IF w.max = 0 THEN 0 ELSE w.max - 1) \in Nat
            BY <1>3
          <5> QED BY <1>1, <1>2, <5>1 DEF Items
        <4> QED BY <1>3, <4>1 DEF IsItem
      <3>3. todo' = <<x>> \o (IF w.max = 1 THEN Tail(todo) ELSE <<y>> \o Tail(todo))
        BY <2>2 DEF WakeUpStep, w, q
      <3> HIDE DEF x, y
      <3>4. <<y>> \o Tail(todo) \in Seq(Items) /\ Follows(<<y>> \o Tail(todo)) /\ ItemsOK(<<y>> \o Tail(todo))
        BY <1>2, <3>2, FollowsCons, Cons, ItemsFacts, ItemsJoin
      <3>5. CASE w.max = 1
        BY <1>2, <3>1, <3>3, <3>5, FollowsCons, ItemsFacts, ItemsJoin
      <3>6. CASE w.max # 1
        BY <3>1, <3>3, <3>4, <3>6, FollowsCons, ItemsFacts, ItemsJoin
      <3> QED BY <3>5, <3>6
    <2> QED BY <2>1, <2>2
  <1>6. UNCHANGED <<objects, quiet, suspend, context, changed, sigusr1, alert_sync, armed, deadline>>
    BY DEF WakeUpStep, objects, stops, apcs, client, quiet
  <1>7. TodoInv' /\ ObjectsInv' /\ FlagsInv'
    BY <1>5, <1>6 DEF TodoInv, ItemsOK, ObjectsInv, objects, FlagsInv
  <1>8. SelectInv'
    <2>1. Head(todo).do # "select"
      BY <1>1 DEF w
    <2> QED BY <1>1, <1>5, <1>6, <2>1, SelectFollows DEF quiet
  <1> QED BY <1>6, <1>7, <1>8, Quiet

LEMMA ResetStepInv == ASSUME ServerInv, ResetStep PROVE ServerInv'
  <1> USE ServerParts
  <1>1. todo # <<>> /\ Head(todo).do = "reset" /\ todo' = Tail(todo)
        /\ event' = [event EXCEPT ![Head(todo).obj] = FALSE]
        /\ UNCHANGED <<units, mcount, mowner, mdead, quiet, suspend, context, changed, sigusr1, alert_sync, armed, deadline>>
    BY DEF ResetStep, Doing, stops, apcs, client, quiet
  <1>2. ItemsOK(Tail(todo)) /\ Follows(Tail(todo))
    BY <1>1, ItemsTail, FollowsTail
  <1>3. TodoInv' /\ FlagsInv'
    BY <1>1, <1>2 DEF TodoInv, ItemsOK, FlagsInv
  <1>4. ObjectsInv'
    BY <1>1 DEF ObjectsInv
  <1>5. SelectInv'
    BY <1>1, <1>2, SelectFollows DEF quiet
  <1> QED BY <1>1, <1>3, <1>4, <1>5, Quiet

LEMMA AbandonStepInv == ASSUME ServerInv, AbandonStep PROVE ServerInv'
  <1> USE ServerParts
  <1> DEFINE d == Head(todo).thread
             owned == {o \in Objs : mowner[o] = d}
  <1>1. todo # <<>> /\ Head(todo).do = "abandon"
        /\ UNCHANGED <<quiet, suspend, context, changed, sigusr1, alert_sync, armed, deadline>>
    BY DEF AbandonStep, Doing, stops, apcs, client, quiet
  <1>2. FlagsInv'
    BY <1>1 DEF FlagsInv
  <1>3. ObjectsInv' /\ ItemsOK(todo') /\ Follows(todo')
    <2>1. CASE owned = {}
      <3>1. todo' = Tail(todo) /\ UNCHANGED objects
        BY <2>1 DEF AbandonStep
      <3>2. ItemsOK(todo') /\ Follows(todo')
        BY <1>1, <3>1, ItemsTail, FollowsTail
      <3> QED BY <3>1, <3>2 DEF objects, ObjectsInv
    <2>2. CASE owned # {}
      <3>1. PICK o \in owned :
                  /\ mcount' = [mcount EXCEPT ![o] = 0]
                  /\ mowner' = [mowner EXCEPT ![o] = NoOne]
                  /\ mdead' = [mdead EXCEPT ![o] = TRUE]
                  /\ todo' = <<WakeUp(o, 0)>> \o todo
                  /\ UNCHANGED <<units, event>>
        BY <2>2 DEF AbandonStep
      <3>2. WakeUp(o, 0) \in Items /\ IsItem(WakeUp(o, 0)) /\ WakeUp(o, 0).do # "select"
        BY ItemFacts
      <3>3. ItemsOK(todo')
        BY <3>1, <3>2, ItemsFacts, ItemsJoin
      <3>4. Follows(todo')
        BY <3>1, <3>2, FollowsSame, FollowsCons
      <3>5. ObjectsInv'
        BY <3>1, BoundAssumption DEF ObjectsInv
      <3> QED BY <3>3, <3>4, <3>5
    <2> QED BY <2>1, <2>2
  <1>4. TodoInv'
    BY <1>3 DEF TodoInv, ItemsOK
  <1>5. SelectInv'
    BY <1>1, <1>3, SelectFollows DEF quiet
  <1> QED BY <1>1, <1>2, <1>3, <1>4, <1>5, Quiet

LEMMA SignalWakesItems ==
  ASSUME NEW o \in Objs, NEW n \in Nat
  PROVE  ItemsOK(SignalWakes(o, n)) /\ NoSelect(SignalWakes(o, n))
  <1>1. ItemsOK(<<WakeUp(o, n)>>) /\ NoSelect(<<WakeUp(o, n)>>)
    BY ItemFacts, ItemsFacts
  <1>2. ItemsOK(<<WakeUp(o, 0)>>) /\ NoSelect(<<WakeUp(o, 0)>>)
    BY ItemFacts, ItemsFacts
  <1>3. ItemsOK(<<WakeUp(o, 1)>>) /\ NoSelect(<<WakeUp(o, 1)>>)
    BY ItemFacts, ItemsFacts
  <1>4. ItemsOK(<<>>) /\ NoSelect(<<>>)
    BY ItemsFacts
  <1>5. SignalWakes(o, n) \in {<<WakeUp(o, n)>>, <<WakeUp(o, 0)>>, <<WakeUp(o, 1)>>, <<>>}
    BY DEF SignalWakes
  <1> QED BY <1>1, <1>2, <1>3, <1>4, <1>5

\* A semaphore keeps its maximum and a mutex its owner.
LEMMA SignalTypes ==
  ASSUME ObjectsInv, NEW t \in Threads, NEW o \in Objs, NEW n \in Nat, CanSignal(t, o, n), SignalObject(o, n)
  PROVE  ObjectsInv'
  <1> USE ObjectAssumption, BoundAssumption, NoOneAssumption
  <1>1. units' \in [Objs -> Nat] /\ \A x \in Objs : Type[x] = "sem" => units'[x] <= Max[x]
    <2>1. Type[o] = "sem" => units[o] + n <= Max[o]
      BY DEF CanSignal
    <2> QED BY <2>1 DEF SignalObject, ObjectsInv
  <1>2. Type[o] = "mutex" => mowner[o] = t /\ mcount[o] \in 1..MaxRec
    <2>1. Type[o] = "mutex" => mowner[o] = t
      BY DEF CanSignal
    <2>2. mowner[o] = t => mcount[o] # 0
      BY DEF ObjectsInv
    <2> QED BY <2>1, <2>2 DEF ObjectsInv
  <1>3. mcount' \in [Objs -> 0..MaxRec]
    BY <1>2 DEF SignalObject, ObjectsInv
  <1>4. mowner' \in [Objs -> Threads \cup {NoOne}]
    BY DEF SignalObject, ObjectsInv
  <1>5. mdead' \in [Objs -> BOOLEAN] /\ event' \in [Objs -> BOOLEAN]
    BY DEF SignalObject, ObjectsInv
  <1>6. \A x \in Objs : (mowner'[x] = NoOne) = (mcount'[x] = 0)
    BY <1>2 DEF SignalObject, ObjectsInv
  <1> QED BY <1>1, <1>3, <1>4, <1>5, <1>6 DEF ObjectsInv

\* A request that leaves threads to wake.
LEMMA QuietRequest ==
  ASSUME ServerInv, Idle, UNCHANGED quiet,
         ObjectsInv', suspend' \in [Threads -> 0..MaxSuspend], context' \in [Threads -> {"none", "pending", "saved"}],
         changed' \in [Threads -> BOOLEAN], sigusr1' \in [Threads -> BOOLEAN], FlagsInv',
         ItemsOK(todo'), NoSelect(todo')
  PROVE  ServerInv'
  <1>1. TodoInv'
    BY DEF TodoInv, ItemsOK
  <1>2. \A u \in Threads : \A f \in Frames : pc'[u][f] # "server"
    BY ServerParts, IdleNoServer DEF quiet
  <1>3. SelectInv'
    BY <1>2, SelectNone
  <1> QED BY <1>1, <1>3, Quiet

LEMMA SignalInv ==
  ASSUME ServerInv, NEW t \in Threads, NEW c \in program[t], Signal(t, c)
  PROVE  ServerInv'
  <1> USE ServerParts
  <1>1. WellFormed(t, c) /\ c.fn \in {"release", "unlock", "set", "pulse"}
    BY CallFormed DEF Signal
  <1>2. c.n \in Nat /\ c.objs[1] \in Objs
    <2>1. c.n \in Nat /\ c.objs \in Seq(Objs) /\ c.objs # <<>>
      BY <1>1 DEF WellFormed
    <2> QED BY <2>1, HeadTail
  <1>3. /\ Idle /\ CanSignal(t, c.objs[1], c.n) /\ SignalObject(c.objs[1], c.n)
        /\ todo' = SignalWakes(c.objs[1], c.n) \o (IF c.fn = "pulse" THEN <<ResetSync(c.objs[1])>> ELSE <<>>)
        /\ UNCHANGED <<quiet, suspend, context, changed, sigusr1, alert_sync, armed, deadline>>
    BY DEF Signal, stops, apcs, client, quiet
  <1>4. ObjectsInv' /\ FlagsInv'
    BY <1>2, <1>3, SignalTypes DEF FlagsInv
  <1>5. ItemsOK(SignalWakes(c.objs[1], c.n)) /\ NoSelect(SignalWakes(c.objs[1], c.n))
    BY <1>2, SignalWakesItems
  <1>6. /\ ItemsOK(IF c.fn = "pulse" THEN <<ResetSync(c.objs[1])>> ELSE <<>>)
        /\ NoSelect(IF c.fn = "pulse" THEN <<ResetSync(c.objs[1])>> ELSE <<>>)
    BY <1>2, ItemFacts, ItemsFacts
  <1>7. ItemsOK(todo') /\ NoSelect(todo')
    BY <1>3, <1>5, <1>6, ItemsJoin
  <1> QED BY <1>3, <1>4, <1>7, QuietRequest

LEMMA ResetEventInv ==
  ASSUME ServerInv, NEW t \in Threads, NEW c \in program[t], ResetEvent(t, c)
  PROVE  ServerInv'
  <1> USE ServerParts
  <1>1. /\ Idle /\ event' = [event EXCEPT ![c.objs[1]] = FALSE]
        /\ UNCHANGED <<units, mcount, mowner, mdead, quiet, suspend, context, changed, sigusr1, alert_sync, armed,
                       deadline, todo>>
    BY DEF ResetEvent, stops, apcs, client, quiet
  <1>2. ObjectsInv' /\ FlagsInv'
    BY <1>1 DEF ObjectsInv, FlagsInv
  <1>3. ItemsOK(todo') /\ NoSelect(todo')
    BY <1>1, IdleNoServer
  <1> QED BY <1>1, <1>2, <1>3, QuietRequest

LEMMA StopsRequestsInv ==
  ASSUME ServerInv, NEW t \in Threads, NEW c \in program[t],
         SuspendThread(t, c) \/ ResumeThread(t, c) \/ SetThreadContext(t, c)
  PROVE  ServerInv'
  <1> USE ServerParts
  <1> DEFINE u == c.owner
  <1>1. Idle /\ UNCHANGED <<objects, quiet, alert_sync, armed, deadline>>
    BY DEF SuspendThread, ResumeThread, SetThreadContext, apcs, client, quiet
  <1>2. u \in Threads
    BY CallFormed DEF WellFormed, SuspendThread, ResumeThread, SetThreadContext
  <1>3. ObjectsInv' /\ FlagsInv'
    BY <1>1 DEF ObjectsInv, objects, FlagsInv
  <1> HIDE DEF u
  <1>4. ItemsOK(todo') /\ NoSelect(todo')
    <2>1. todo' = todo \/ todo' = <<WakeThread(u)>> \/ todo' = <<>>
      BY DEF SuspendThread, ResumeThread, SetThreadContext, u
    <2> QED BY <1>1, <1>2, <2>1, IdleNoServer, ItemFacts, ItemsFacts
  <1>5. suspend' \in [Threads -> 0..MaxSuspend]
    <2>1. CASE SuspendThread(t, c)
      BY <1>2, <2>1, BoundAssumption DEF SuspendThread, u
    <2>2. CASE ResumeThread(t, c)
      BY <1>2, <2>2, BoundAssumption DEF ResumeThread, u
    <2>3. CASE SetThreadContext(t, c)
      BY <2>3 DEF SetThreadContext
    <2> QED BY <2>1, <2>2, <2>3
  <1>6. context' \in [Threads -> {"none", "pending", "saved"}] /\ sigusr1' \in [Threads -> BOOLEAN]
    <2>1. CASE UNCHANGED <<context, sigusr1>>
      BY <2>1
    <2>2. CASE StopThread(u)
      BY <1>2, <2>2 DEF StopThread
    <2>3. UNCHANGED <<context, sigusr1>> \/ StopThread(u)
      BY DEF SuspendThread, ResumeThread, SetThreadContext, u
    <2> QED BY <2>1, <2>2, <2>3
  <1>7. changed' \in [Threads -> BOOLEAN]
    BY <1>2 DEF SuspendThread, ResumeThread, SetThreadContext, u
  <1> QED BY <1>1, <1>3, <1>4, <1>5, <1>6, <1>7, QuietRequest

LEMMA ApcRequestsInv ==
  ASSUME ServerInv, NEW t \in Threads, NEW c \in program[t],
         QueueUserApc(t, c) \/ SetTimer(t, c) \/ CancelTimerOf(t, c)
  PROVE  ServerInv'
  <1> USE ServerParts
  <1>1. Idle /\ UNCHANGED <<objects, quiet, suspend, context, changed, sigusr1, deadline>>
    BY DEF QueueUserApc, SetTimer, CancelTimerOf, CancelTimer, stops, client, quiet
  <1>2. WellFormed(t, c)
    BY CallFormed
  <1>3. ObjectsInv'
    BY <1>1 DEF ObjectsInv, objects
  <1>4. ItemsOK(todo') /\ NoSelect(todo')
    <2>1. todo' = todo \/ (c.owner \in Threads /\ todo' = <<WakeThread(c.owner)>>) \/ todo' = <<>>
      BY <1>2 DEF QueueUserApc, SetTimer, CancelTimerOf, CancelTimer, WellFormed
    <2> QED BY <1>1, <2>1, IdleNoServer, ItemFacts, ItemsFacts
  <1>5. FlagsInv'
    <2>1. CASE QueueUserApc(t, c)
      BY <1>1, <2>1 DEF QueueUserApc, FlagsInv
    <2>2. CASE SetTimer(t, c)
      <3>1. TimerOf[t] \in Objs
        BY <1>2, <2>2 DEF SetTimer, WellFormed
      <3>2. armed' = [armed EXCEPT ![t] = TRUE]
            /\ alert_sync' = [alert_sync EXCEPT ![t] = @ /\ AlertLeft(WithoutTimer(user_apc[t]))]
        BY <2>2 DEF SetTimer, CancelTimer
      <3> QED BY <1>1, <3>1, <3>2 DEF FlagsInv, AlertLeft
    <2>3. CASE CancelTimerOf(t, c)
      <3>1. armed' = [armed EXCEPT ![c.owner] = FALSE]
            /\ alert_sync' = [alert_sync EXCEPT ![c.owner] = @ /\ AlertLeft(WithoutTimer(user_apc[c.owner]))]
        BY <2>3 DEF CancelTimerOf, CancelTimer
      <3> QED BY <1>1, <3>1 DEF FlagsInv, AlertLeft
    <2> QED BY <2>1, <2>2, <2>3
  <1> QED BY <1>1, <1>3, <1>4, <1>5, QuietRequest

LEMMA TimerCallbackInv ==
  ASSUME ServerInv, NEW t \in Threads, TimerCallback(t)
  PROVE  ServerInv'
  <1> USE ServerParts
  <1> DEFINE rest == WithoutTimer(user_apc[t])
  <1>1. /\ Idle /\ armed[t]
        /\ UNCHANGED <<units, mcount, mowner, mdead, quiet, suspend, context, changed, sigusr1, armed, deadline>>
        /\ event' = [event EXCEPT ![TimerOf[t]] = TRUE]
        /\ todo' = (IF t \notin dead /\ rest = <<>> THEN <<WakeThread(t)>> ELSE <<>>) \o SignalWakes(TimerOf[t], 0)
        /\ alert_sync' = alert_sync \/ alert_sync' = [alert_sync EXCEPT ![t] = TRUE]
    BY DEF TimerCallback, stops, client, quiet
  <1> HIDE DEF rest
  <1>2. TimerOf[t] \in Objs
    BY <1>1 DEF FlagsInv
  <1>3. ObjectsInv' /\ FlagsInv'
    BY <1>1 DEF ObjectsInv, FlagsInv
  <1>4. ItemsOK(SignalWakes(TimerOf[t], 0)) /\ NoSelect(SignalWakes(TimerOf[t], 0))
    BY <1>2, SignalWakesItems
  <1>5. /\ ItemsOK(IF t \notin dead /\ rest = <<>> THEN <<WakeThread(t)>> ELSE <<>>)
        /\ NoSelect(IF t \notin dead /\ rest = <<>> THEN <<WakeThread(t)>> ELSE <<>>)
    BY ItemFacts, ItemsFacts
  <1>6. ItemsOK(todo') /\ NoSelect(todo')
    BY <1>1, <1>4, <1>5, ItemsJoin
  <1> QED BY <1>1, <1>3, <1>6, QuietRequest

LEMMA ExpireInv ==
  ASSUME ServerInv, NEW t \in Threads, Expire(t)
  PROVE  ServerInv'
  <1> USE ServerParts
  <1>1. /\ deadline' = [deadline EXCEPT ![t] = "past"]
        /\ UNCHANGED <<objects, quiet, suspend, context, changed, sigusr1, alert_sync, armed, todo>>
    BY DEF Expire, stops, apcs, quiet
  <1>2. ObjectsInv' /\ FlagsInv' /\ TodoInv'
    BY <1>1 DEF ObjectsInv, objects, FlagsInv, TodoInv
  <1>3. SelectInv'
    BY <1>1 DEF quiet, SelectInv, LastOK, SelectOK, HasWait, Active, LastTodo
  <1> QED BY <1>1, <1>2, <1>3, Quiet

-----------------------------------------------------------------------------
(* The client's own steps.                                                 *)

LEMMA NoWait ==
  ASSUME StateInv, NEW u \in Threads, StackOK(u), NEW f, pc[u][f] \notin {"read", "server"}
  PROVE  ~HasWait(u, f)
  BY DEF StackOK, HasWait

LEMMA ReturnedFacts ==
  ASSUME TypesInv, NEW t \in Threads, NEW f \in Frames, NEW status, Returned(t, f, status), UNCHANGED program
  PROVE  /\ CallsInv' /\ deadline' \in [Threads -> {"none", "later", "past"}]
         /\ \E x \in {"idle", "abort"} : (x = "abort" => f = "call") /\ pc' = [pc EXCEPT ![t][f] = x]
         /\ \A u \in Threads : u # t => call'[u] = call[u]
         /\ f = "suspend" => call'[t] = call[t]
  <1>1. DOMAIN call = Threads
    BY DEF TypesInv, CallsInv
  <1>2. call' = [call EXCEPT ![t] = IF f = "call" THEN NoCall ELSE @]
    BY DEF Returned
  <1>3. (\A u \in Threads : u # t => call'[u] = call[u]) /\ (f = "suspend" => call'[t] = call[t])
        /\ (call'[t] = NoCall \/ call'[t] = call[t]) /\ DOMAIN call' = Threads
    BY <1>1, <1>2
  <1>4. CallsInv'
    BY <1>3 DEF TypesInv, CallsInv, IsCall
  <1>5. deadline' \in [Threads -> {"none", "later", "past"}]
    BY DEF Returned, TypesInv, FlagsInv
  <1>6. \E x \in {"idle", "abort"} : (x = "abort" => f = "call") /\ pc' = [pc EXCEPT ![t][f] = x]
    BY DEF Returned
  <1> QED BY <1>3, <1>4, <1>5, <1>6

\* A frame goes on, outside a request.
LEMMA ClientGoes ==
  ASSUME ServerInv, NEW t \in Threads, NEW f \in Frames, NEW x \in Places \ {"server", "read"},
         pc' = [pc EXCEPT ![t][f] = x], pc[t][f] \notin {"server", "read", "apc_wait"},
         \A g \in Frames : pc[t][g] # "server",
         f = "suspend" => x \notin {"driver", "apc_wait", "requeue", "abort"}, f = "call" => x # "handler",
         UNCHANGED <<objects, queue, wait, pipe, stolen, suspend, context, changed, system_apc, prev, alert_sync,
                     armed, dead, todo, program>>,
         deadline' \in [Threads -> {"none", "later", "past"}], sigusr1' \in [Threads -> BOOLEAN], CallsInv',
         \A u \in Threads : u # t => call'[u] = call[u], f = "suspend" => call'[t] = call[t]
  PROVE  ServerInv'
  <1> USE ServerParts
  <1>1. StackOK(t) /\ ~HasWait(t, f)
    BY NoWait DEF StacksInv
  <1>2. pc \in [Threads -> [Frames -> Places]]
    BY DEF StateInv
  <1>3. pc' \in [Threads -> [Frames -> Places]] /\ (\A u \in Threads : u # t => pc'[u] = pc[u])
        /\ pc'[t] = [pc[t] EXCEPT ![f] = x]
    BY <1>2
  <1>4. ObjectsInv' /\ FlagsInv' /\ TodoInv'
    BY DEF ObjectsInv, objects, FlagsInv, TodoInv
  <1>5. StateInv'
    BY <1>3 DEF StateInv
  <1>6. Goes(t, f, x)
    BY <1>1, <1>3 DEF Goes, Apart
  <1>7. \A u \in Threads : Moves(u)
    <2>1. \A u \in Threads : u # t => Still(u)
      BY <1>3 DEF Still, Apart
    <2> QED BY <1>6, <2>1 DEF Moves
  <1>8. SelectInv'
    <2>1. \A g \in Frames : pc'[t][g] # "server"
      BY <1>2, <1>3
    <2> QED BY <1>3, <2>1, SelectApart
  <1>9. QueuesInv'
    <2>1. \A u \in Threads : HasWait(u, "call") => HasWait(u, "call")' /\ call'[u] = call[u]
      BY <1>1 DEF HasWait, Frames
    <2> QED BY <2>1, QueuesSame
  <1>10. ApcsInv'
    <2>1. \A u \in Threads : pc[u]["call"] = "apc_wait" => pc'[u]["call"] = "apc_wait"
      BY <1>2, <1>3 DEF Frames
    <2> QED BY <2>1, ApcsSame
  <1> QED BY <1>4, <1>5, <1>7, <1>8, <1>9, <1>10, Assemble

LEMMA SelectFailsInv == ASSUME ServerInv, NEW t \in Threads, SelectFails(t) PROVE ServerInv'
  <1> USE ServerParts
  <1>1. /\ Idle /\ pc[t]["suspend"] = "idle" /\ pc[t]["call"] \in {"select", "again"} /\ Returned(t, "call", "error")
        /\ UNCHANGED <<objects, queue, wait, pipe, stolen, suspend, context, changed, system_apc, prev, alert_sync,
                       armed, dead, todo, program, sigusr1>>
    BY DEF SelectFails, Runs, stops, apcs
  <1>2. "call" \in Frames
    BY DEF Frames
  <1>3. /\ CallsInv' /\ deadline' \in [Threads -> {"none", "later", "past"}]
        /\ \E x \in {"idle", "abort"} : pc' = [pc EXCEPT ![t]["call"] = x]
        /\ \A u \in Threads : u # t => call'[u] = call[u]
    BY <1>1, <1>2, ReturnedFacts
  <1>4. PICK x \in {"idle", "abort"} : pc' = [pc EXCEPT ![t]["call"] = x]
    BY <1>3
  <1>5. x \in Places \ {"server", "read"} /\ x # "handler"
    BY DEF Places
  <1>6. \A g \in Frames : pc[t][g] # "server"
    BY <1>1 DEF Frames
  <1> QED BY <1>1, <1>2, <1>3, <1>4, <1>5, <1>6, ClientGoes

LEMMA Usr1HandlerInv == ASSUME ServerInv, NEW t \in Threads, Usr1Handler(t) PROVE ServerInv'
  <1> USE ServerParts
  <1>1. /\ pc[t]["suspend"] = "idle" /\ pc[t]["call"] \notin {"server", "again"}
        /\ sigusr1' = [sigusr1 EXCEPT ![t] = FALSE] /\ pc' = [pc EXCEPT ![t]["suspend"] = "handler"]
        /\ UNCHANGED <<objects, queue, wait, pipe, stolen, suspend, context, changed, system_apc, prev, alert_sync,
                       armed, dead, todo, program, call, deadline>>
    BY DEF Usr1Handler, Runs, stops, apcs
  <1>2. "suspend" \in Frames /\ "handler" \in Places \ {"server", "read"}
    BY DEF Frames, Places
  <1>3. CallsInv' /\ deadline' \in [Threads -> {"none", "later", "past"}] /\ sigusr1' \in [Threads -> BOOLEAN]
    BY <1>1 DEF CallsInv, IsCall, FlagsInv
  <1>4. \A g \in Frames : pc[t][g] # "server"
    BY <1>1 DEF Frames
  <1> QED BY <1>1, <1>2, <1>3, <1>4, ClientGoes

LEMMA DriverAlertedInv == ASSUME ServerInv, NEW t \in Threads, DriverAlerted(t) PROVE ServerInv'
  <1> USE ServerParts
  <1> DEFINE f == "call"
             x == "select"
  <1>1. /\ pc[t]["suspend"] = "idle" /\ pc[t]["call"] = "driver"
        /\ deadline' = [deadline EXCEPT ![t] = "past"] /\ pc' = [pc EXCEPT ![t][f] = x]
        /\ UNCHANGED <<objects, queue, wait, pipe, stolen, suspend, context, changed, system_apc, prev, alert_sync,
                       armed, dead, todo, program, call, sigusr1>>
    BY DEF DriverAlerted, Runs, stops, apcs
  <1>2. f \in Frames /\ x \in Places \ {"server", "read"} /\ f # "suspend" /\ x # "handler"
    BY DEF Frames, Places
  <1>3. CallsInv' /\ deadline' \in [Threads -> {"none", "later", "past"}]
    BY <1>1 DEF CallsInv, IsCall, FlagsInv
  <1>4. \A g \in Frames : pc[t][g] # "server"
    BY <1>1 DEF Frames
  <1>5. pc[t][f] \notin {"server", "read", "apc_wait"} /\ sigusr1' \in [Threads -> BOOLEAN] /\ call' = call
    BY <1>1
  <1> HIDE DEF f, x
  <1> QED BY <1>1, <1>2, <1>3, <1>4, <1>5, ClientGoes

LEMMA BeginWaitInv ==
  ASSUME ServerInv, NEW t \in Threads, NEW c \in program[t], BeginWait(t, c)
  PROVE  ServerInv'
  <1> USE ServerParts
  <1> DEFINE x == IF c.fn = "inproc_wait" THEN "driver" ELSE "select"
             d == CASE c.timeout = "infinite" -> "none" [] c.timeout = "finite" -> "later" [] OTHER -> "past"
  <1>1. /\ pc[t]["suspend"] = "idle" /\ pc[t]["call"] = "idle" /\ call' = [call EXCEPT ![t] = c]
        /\ deadline' = [deadline EXCEPT ![t] = d] /\ pc' = [pc EXCEPT ![t]["call"] = x]
        /\ UNCHANGED <<objects, queue, wait, pipe, stolen, suspend, context, changed, system_apc, prev, alert_sync,
                       armed, dead, todo, program, sigusr1>>
    BY DEF BeginWait, MayCall, Runs, stops, apcs
  <1>2. "call" \in Frames /\ x \in Places \ {"server", "read"} /\ x # "handler"
    BY DEF Frames, Places
  <1>3. d \in {"none", "later", "past"}
    OBVIOUS
  <1> HIDE DEF x, d
  <1>4. deadline' \in [Threads -> {"none", "later", "past"}]
    BY <1>1, <1>3 DEF FlagsInv
  <1>5. CallsInv' /\ \A u \in Threads : u # t => call'[u] = call[u]
    BY <1>1 DEF CallsInv, IsCall
  <1>6. \A g \in Frames : pc[t][g] # "server"
    BY <1>1 DEF Frames
  <1> QED BY <1>1, <1>2, <1>4, <1>5, <1>6, ClientGoes

LEMMA ReadReplyInv == ASSUME ServerInv, NEW t \in Threads, ReadReply(t) PROVE ServerInv'
  <1> USE ServerParts
  <1> DEFINE f == Active(t)
             r == Head(pipe[t])
  <1>1. /\ t \notin dead /\ pc[t][f] = "read" /\ pipe[t] # <<>>
        /\ UNCHANGED <<objects, queue, wait, suspend, context, changed, system_apc, prev, alert_sync, armed, dead,
                       todo, program, sigusr1>>
    BY DEF ReadReply, stops, apcs
  <1>2. f \in Frames
    BY DEF Active, Frames
  <1>3. /\ pipe \in [Threads -> Seq(Replies)] /\ stolen \in [Threads -> Seq(Replies)] /\ pc \in [Threads -> [Frames -> Places]]
        /\ StackOK(t) /\ ReplyOK(t)
    BY DEF StateInv, StacksInv, RepliesInv
  <1>4. r \in Replies /\ Tail(pipe[t]) \in Seq(Replies) /\ pipe[t][1] = r /\ 1 \in 1..Len(pipe[t])
    BY <1>1, <1>3, HeadTail
  <1>5. \A g \in Frames : pc[t][g] # "server"
    <2>1. \A g \in Frames : pc[t][g] = "server" => g = f
      BY DEF SelectInv, SelectOK
    <2> QED BY <1>1, <2>1
  <1>6. ObjectsInv' /\ TodoInv'
    BY <1>1 DEF ObjectsInv, objects, TodoInv
  <1>7. CASE /\ r.cookie # f
             /\ stolen' = [stolen EXCEPT ![t] = <<r>> \o @]
             /\ pipe' = [pipe EXCEPT ![t] = Tail(@)]
             /\ UNCHANGED <<pc, call, deadline>>
    <2> HIDE DEF r, f
    <2>1. <<r>> \o stolen[t] \in Seq(Replies)
      BY <1>3, <1>4, Cons
    <2>2. StateInv'
      BY <1>1, <1>3, <1>4, <1>7, <2>1 DEF StateInv
    <2>3. Steals(t)
      BY <1>1, <1>3, <1>7 DEF Steals, r, f
    <2>4. \A u \in Threads : u # t => Still(u)
      BY <1>1, <1>3, <1>7 DEF Still, Apart
    <2>5. SelectInv' /\ CallsInv' /\ FlagsInv'
      BY <1>1, <1>7 DEF SelectInv, SelectOK, LastOK, Active, HasWait, LastTodo, CallsInv, IsCall, FlagsInv
    <2>6. QueuesInv' /\ ApcsInv'
      BY <1>1, <1>7, QueuesSame, ApcsSame DEF HasWait
    <2>7. \A u \in Threads : Moves(u)
      BY <2>3, <2>4 DEF Moves
    <2> QED BY <1>6, <2>2, <2>5, <2>6, <2>7, Assemble
  <1>8. CASE /\ r.cookie = f
             /\ pipe' = [pipe EXCEPT ![t] = Tail(@) \o PutBack(t)]
             /\ stolen' = [stolen EXCEPT ![t] = <<>>]
             /\ IF r.status \in {"kernel_apc", "user_apc"}
                THEN pc' = [pc EXCEPT ![t][f] = "select"] /\ UNCHANGED <<call, deadline>>
                ELSE Returned(t, f, r.status)
    <2>1. PutBack(t) = stolen[t]
      BY DEF PutBack
    <2> HIDE DEF r, f
    <2>2. /\ CallsInv' /\ deadline' \in [Threads -> {"none", "later", "past"}]
          /\ \E x \in {"select", "idle", "abort"} : (x = "abort" => f = "call") /\ pc' = [pc EXCEPT ![t][f] = x]
          /\ \A u \in Threads : u # t => call'[u] = call[u]
          /\ f = "suspend" => call'[t] = call[t]
      <3>1. CASE r.status \in {"kernel_apc", "user_apc"}
        BY <1>1, <1>8, <3>1 DEF CallsInv, IsCall, FlagsInv
      <3>2. CASE r.status \notin {"kernel_apc", "user_apc"}
        BY <1>1, <1>2, <1>8, <3>2, ReturnedFacts
      <3> QED BY <3>1, <3>2
    <2>3. PICK x \in {"select", "idle", "abort"} : (x = "abort" => f = "call") /\ pc' = [pc EXCEPT ![t][f] = x]
      BY <2>2
    <2>4. x \in Places
      BY DEF Places
    <2>5. pc' \in [Threads -> [Frames -> Places]] /\ (\A u \in Threads : u # t => pc'[u] = pc[u])
          /\ pc'[t] = [pc[t] EXCEPT ![f] = x]
      BY <1>2, <1>3, <2>3, <2>4
    <2>6. Tail(pipe[t]) \o stolen[t] \in Seq(Replies)
      BY <1>3, <1>4, Join
    <2>7. pipe'[t] = Tail(pipe[t]) \o stolen[t] /\ pipe' \in [Threads -> Seq(Replies)]
          /\ \A u \in Threads : u # t => pipe'[u] = pipe[u]
      BY <1>3, <1>8, <2>1, <2>6
    <2>8. stolen'[t] = <<>> /\ stolen' \in [Threads -> Seq(Replies)]
          /\ \A u \in Threads : u # t => stolen'[u] = stolen[u]
      BY <1>3, <1>8
    <2>9. StateInv'
      BY <1>1, <2>5, <2>7, <2>8 DEF StateInv
    <2>10. Reads(t, x)
      BY <1>1, <1>8, <2>3, <2>5, <2>7, <2>8 DEF Reads, r, f
    <2>11. \A u \in Threads : Moves(u)
      <3>1. \A u \in Threads : u # t => Still(u)
        BY <1>1, <2>5, <2>7, <2>8 DEF Still, Apart
      <3> QED BY <2>4, <2>10, <3>1 DEF Moves
    <2>12. SelectInv'
      <3>1. \A g \in Frames : pc'[t][g] # "server"
        BY <1>2, <1>3, <1>5, <2>5
      <3> QED BY <1>1, <1>5, <2>5, <3>1, SelectApart
    <2>13. QueuesInv'
      <3>1. ~HasWait(t, f)
        BY <1>2, <1>3, <1>4, <1>8 DEF ReplyOK, Sent
      <3>2. \A u \in Threads : HasWait(u, "call") => HasWait(u, "call")' /\ call'[u] = call[u]
        BY <1>1, <1>2, <2>2, <3>1 DEF HasWait, Frames
      <3> QED BY <1>1, <3>2, QueuesSame
    <2>14. ApcsInv'
      <3>1. \A u \in Threads : pc[u]["call"] = "apc_wait" => pc'[u]["call"] = "apc_wait"
        <4>1. pc[t]["call"] = "apc_wait" => pc'[t]["call"] = "apc_wait"
          <5>1. pc[t]["call"] = "apc_wait" => f # "call"
            BY <1>1
          <5> QED BY <1>2, <1>3, <2>5, <5>1 DEF Frames
        <4> QED BY <2>5, <4>1
      <3> QED BY <1>1, <3>1, ApcsSame
    <2>15. FlagsInv'
      BY <1>1, <2>2 DEF FlagsInv
    <2> QED BY <1>6, <2>2, <2>9, <2>11, <2>12, <2>13, <2>14, <2>15, Assemble
  <1> QED BY <1>7, <1>8 DEF ReadReply

-----------------------------------------------------------------------------
(* The select request.                                                     *)

\* The result of an APC reaches its caller.
LEMMA SelectApcs ==
  ASSUME ServerInv, NEW t \in Threads, NEW f \in Frames, StorePrevApc(t, f), UNCHANGED system_apc,
         pc[t][f] # "apc_wait"
  PROVE  /\ ApcsInv' /\ prev' \in [Threads -> [Frames -> Threads \cup {NoOne}]]
         /\ pc' \in [Threads -> [Frames -> Places]] /\ pc'[t] = [pc[t] EXCEPT ![f] = "server"]
         /\ \A u \in Threads : u # t => pc'[u] = pc[u] \/ (pc[u]["call"] = "apc_wait" /\ pc'[u] = [pc[u] EXCEPT !["call"] = "idle"])
         /\ \A u \in Threads : pc[u]["call"] # "apc_wait" => call'[u] = call[u]
         /\ DOMAIN call' = Threads /\ \A u \in Threads : call'[u] = call[u] \/ call'[u] = NoCall
  <1> USE ServerParts
  <1> DEFINE c == prev[t][f]
  <1>1. /\ prev' = [prev EXCEPT ![t][f] = NoOne]
        /\ pc' = [u \in Threads |-> IF u = t THEN [pc[t] EXCEPT ![f] = "server"]
                                    ELSE IF u = c THEN [pc[u] EXCEPT !["call"] = "idle"] ELSE pc[u]]
        /\ call' = [u \in Threads |-> IF u = c THEN NoCall ELSE call[u]]
    BY DEF StorePrevApc
  <1>2. /\ prev \in [Threads -> [Frames -> Threads \cup {NoOne}]] /\ pc \in [Threads -> [Frames -> Places]]
        /\ system_apc \in [Threads -> Seq(Threads)] /\ c \in Threads \cup {NoOne}
    BY DEF StateInv
  <1>3. c # NoOne => pc[c]["call"] = "apc_wait"
    BY DEF ApcsInv, RunWait
  <1> HIDE DEF c
  <1>4. prev' \in [Threads -> [Frames -> Threads \cup {NoOne}]]
        /\ prev'[t][f] = NoOne /\ \A u \in Threads, g \in Frames : u # t \/ g # f => prev'[u][g] = prev[u][g]
    BY <1>1, <1>2
  <1>5. pc' \in [Threads -> [Frames -> Places]]
    BY <1>1, <1>2 DEF Places
  <1>6. pc'[t] = [pc[t] EXCEPT ![f] = "server"]
        /\ \A u \in Threads : u # t => pc'[u] = pc[u] \/ (pc[u]["call"] = "apc_wait" /\ pc'[u] = [pc[u] EXCEPT !["call"] = "idle"])
    BY <1>1, <1>2, <1>3, NoOneAssumption
  <1>7. \A u \in Threads : u # c /\ pc[u]["call"] = "apc_wait" => pc'[u]["call"] = "apc_wait"
    <2>1. pc[t]["call"] = "apc_wait" => pc'[t]["call"] = "apc_wait"
      BY <1>2, <1>6 DEF Frames
    <2> QED BY <1>1, <2>1
  <1>8. /\ \A u \in Threads : pc[u]["call"] # "apc_wait" => call'[u] = call[u]
        /\ DOMAIN call' = Threads /\ \A u \in Threads : call'[u] = call[u] \/ call'[u] = NoCall
    BY <1>1, <1>2, <1>3, NoOneAssumption
  <1>9. QueuedWait'
    <2>1. ASSUME NEW u \in Threads, NEW k \in 1..Len(system_apc[u]) PROVE pc'[system_apc[u][k]]["call"] = "apc_wait"
      <3>1. system_apc[u][k] \in Threads /\ system_apc[u][k] # c
        BY <1>2 DEF ApcsInv, QueuedOrRun, c
      <3> QED BY <1>7, <3>1 DEF ApcsInv, QueuedWait
    <2> QED BY <2>1 DEF QueuedWait
  <1>10. RunWait'
    <2>1. ASSUME NEW u \in Threads, NEW g \in Frames, prev'[u][g] # NoOne PROVE pc'[prev'[u][g]]["call"] = "apc_wait"
      <3>1. u # t \/ g # f
        BY <1>4, <2>1
      <3>2. prev'[u][g] = prev[u][g] /\ prev[u][g] \in Threads
        BY <1>2, <1>4, <2>1, <3>1
      <3>3. prev[u][g] # c
        BY <2>1, <3>1, <3>2 DEF ApcsInv, RunOnce, c
      <3> QED BY <1>7, <2>1, <3>2, <3>3 DEF ApcsInv, RunWait
    <2> QED BY <2>1 DEF RunWait
  <1>11. QueuedOnce'
    BY DEF ApcsInv, QueuedOnce
  <1>12. QueuedOrRun'
    <2>1. ASSUME NEW u \in Threads, NEW v \in Threads, NEW k \in 1..Len(system_apc[u]), NEW g \in Frames
          PROVE  system_apc[u][k] # prev'[v][g]
      <3>1. system_apc[u][k] \in Threads
        BY <1>2
      <3> QED BY <1>4, <3>1, NoOneAssumption DEF ApcsInv, QueuedOrRun
    <2> QED BY <2>1 DEF QueuedOrRun
  <1>13. RunOnce'
    <2>1. ASSUME NEW u \in Threads, NEW v \in Threads, NEW g \in Frames, NEW h \in Frames,
                 prev'[u][g] = prev'[v][h], prev'[u][g] # NoOne
          PROVE  u = v /\ g = h
      <3>1. (u # t \/ g # f) /\ (v # t \/ h # f)
        BY <1>4, <2>1
      <3>2. prev'[u][g] = prev[u][g] /\ prev'[v][h] = prev[v][h]
        BY <1>4, <3>1
      <3>3. prev[u][g] = prev[v][h] /\ prev[u][g] # NoOne
        BY <2>1, <3>2
      <3>4. RunOnce
        BY DEF ApcsInv
      <3> QED BY <3>3, <3>4 DEF RunOnce
    <2> QED BY <2>1 DEF RunOnce
  <1> QED BY <1>4, <1>5, <1>6, <1>8, <1>9, <1>10, <1>11, <1>12, <1>13 DEF ApcsInv

\* The entries of a thread that waits.
LEMMA EntriesType ==
  ASSUME NEW t \in Threads, NEW objs \in Seq(Objs), NEW o \in Objs
  PROVE  LET e == Keep([k \in DOMAIN objs |-> <<t, k>>], {k \in DOMAIN objs : objs[k] = o})
         IN  /\ e \in Seq(Threads \X Nat)
             /\ \A j \in 1..Len(e) : e[j][1] = t /\ e[j][2] \in DOMAIN objs /\ objs[e[j][2]] = o
  <1> DEFINE s == [k \in DOMAIN objs |-> <<t, k>>]
             K == {k \in DOMAIN objs : objs[k] = o}
  <1>1. DOMAIN objs = 1..Len(objs) /\ Len(objs) \in Nat
    OBVIOUS
  <1>2. s \in [1..Len(objs) -> Threads \X Nat]
    BY <1>1
  <1>3. s \in Seq(Threads \X Nat) /\ Len(s) = Len(objs)
    BY <1>1, <1>2
  <1>4. K \in SUBSET (1..Len(s)) /\ \A k \in K : k \in DOMAIN objs /\ objs[k] = o /\ s[k] = <<t, k>>
    BY <1>1, <1>3
  <1> HIDE DEF s, K
  <1>5. Keep(s, K) \in Seq(Threads \X Nat) /\ \A j \in 1..Len(Keep(s, K)) : \E k \in K : Keep(s, K)[j] = s[k]
    BY <1>3, <1>4, KeepType
  <1>6. \A j \in 1..Len(Keep(s, K)) : Keep(s, K)[j][1] = t /\ Keep(s, K)[j][2] \in DOMAIN objs /\ objs[Keep(s, K)[j][2]] = o
    BY <1>4, <1>5
  <1> QED BY <1>5, <1>6 DEF s, K

LEMMA SelectReqInv == ASSUME ServerInv, NEW t \in Threads, Select(t) PROVE ServerInv'
  <1> USE ServerParts
  <1> DEFINE f == Active(t)
             objs == IF f = "call" THEN WaitObjs(call[t]) ELSE <<>>
             e(o) == Keep([k \in DOMAIN objs |-> <<t, k>>], {k \in DOMAIN objs : objs[k] = o})
             w == [frame |-> f, cookie |-> FALSE, user |-> FALSE]
  <1>1. /\ Idle /\ t \notin dead /\ pc[t][f] \in {"select", "again", "handler"}
        /\ StorePrevApc(t, f)
        /\ context' = [context EXCEPT ![t] = IF pc[t][f] = "handler" THEN "saved" ELSE @]
        /\ wait' = [wait EXCEPT ![t] = <<w>> \o @]
        /\ queue' = [o \in Objs |-> queue[o] \o e(o)]
        /\ UNCHANGED <<suspend, changed, system_apc, alert_sync, armed, dead, program, deadline, stolen, sigusr1, pipe>>
    BY DEF Select, apcs
  <1>2. f \in Frames /\ w \in Waits
    BY DEF Active, Frames, Waits
  <1>3. objs \in Seq(Objs)
    <2>1. WaitObjs(call[t]) \in Seq(Objs)
      BY CallFormed, FormedObjs
    <2> QED BY <2>1
  <1>4. \A o \in Objs : /\ e(o) \in Seq(Threads \X Nat)
                        /\ \A j \in 1..Len(e(o)) : e(o)[j][1] = t /\ e(o)[j][2] \in DOMAIN objs /\ objs[e(o)[j][2]] = o
    <2> HIDE DEF objs
    <2> QED BY <1>3, EntriesType
  <1>5. f # "call" => objs = <<>>
    OBVIOUS
  <1>6. f = "call" => objs = WaitObjs(call[t])
    OBVIOUS
  <1>7. \A u \in Threads : \A g \in Frames : pc[u][g] # "server"
    BY <1>1, IdleNoServer
  <1>8. /\ queue \in [Objs -> Seq(Threads \X Nat)] /\ wait \in [Threads -> Seq(Waits)]
        /\ pc \in [Threads -> [Frames -> Places]] /\ StackOK(t)
    BY DEF StateInv, StacksInv
  <1>9. /\ ApcsInv' /\ prev' \in [Threads -> [Frames -> Threads \cup {NoOne}]]
        /\ pc' \in [Threads -> [Frames -> Places]] /\ pc'[t] = [pc[t] EXCEPT ![f] = "server"]
        /\ \A u \in Threads : u # t => pc'[u] = pc[u] \/ (pc[u]["call"] = "apc_wait" /\ pc'[u] = [pc[u] EXCEPT !["call"] = "idle"])
        /\ \A u \in Threads : pc[u]["call"] # "apc_wait" => call'[u] = call[u]
        /\ DOMAIN call' = Threads /\ \A u \in Threads : call'[u] = call[u] \/ call'[u] = NoCall
    <2>1. pc[t][f] # "apc_wait"
      BY <1>1
    <2> HIDE DEF f
    <2> QED BY <1>1, <1>2, <2>1, SelectApcs
  <1> HIDE DEF objs, w
  <1>10. Pushes(t)
    BY <1>1, <1>8, <1>9 DEF Pushes, Apart, w
  <1> HIDE DEF f
  <1>11. wait' \in [Threads -> Seq(Waits)] /\ \A u \in Threads : u # t => wait'[u] = wait[u]
    <2>1. <<w>> \o wait[t] \in Seq(Waits)
      BY <1>2, <1>8, Cons
    <2> QED BY <1>1, <1>8, <2>1
  <1>12. queue' \in [Objs -> Seq(Threads \X Nat)]
    <2> HIDE DEF e
    <2>1. \A o \in Objs : queue[o] \o e(o) \in Seq(Threads \X Nat)
      BY <1>4, <1>8, Join
    <2> QED BY <1>1, <2>1
  <1>13. StateInv'
    <2>1. context' \in [Threads -> {"none", "pending", "saved"}]
      BY <1>1
    <2> QED BY <1>1, <1>9, <1>11, <1>12, <2>1 DEF StateInv
  <1>14. CallsInv' /\ FlagsInv'
    BY <1>1, <1>9 DEF CallsInv, IsCall, FlagsInv
  <1>15. ASSUME NEW u \in Threads PROVE Moves(u)
    <2>1. CASE u = t
      BY <1>10, <2>1 DEF Moves
    <2>2. CASE u # t /\ pc'[u] = pc[u]
      BY <1>1, <1>11, <2>2 DEF Moves, Still, Apart
    <2>3. CASE u # t /\ pc[u]["call"] = "apc_wait" /\ pc'[u] = [pc[u] EXCEPT !["call"] = "idle"]
      <3>1. ~HasWait(u, "call")
        BY <2>3, NoWait DEF StacksInv
      <3>2. "idle" \in Places /\ "call" \in Frames /\ "idle" \in Places \ {"server", "read"}
        BY DEF Places, Frames
      <3>3. Goes(u, "call", "idle")
        BY <1>1, <1>11, <2>3, <3>1, <3>2 DEF Goes, Apart
      <3> QED BY <3>2, <3>3 DEF Moves
    <2> QED BY <1>9, <2>1, <2>2, <2>3
  <1>16. ObjectsInv' /\ ItemsOK(todo')
         /\ \E s : ItemsOK(s) /\ NoSelect(s) /\ todo' = s \o <<EndSelect(t)>> /\ (f = "suspend" => s = <<>>)
    <2>1. EndSelect(t) \in Items /\ IsItem(EndSelect(t)) /\ ItemsOK(<<EndSelect(t)>>)
      BY ItemFacts, ItemsFacts
    <2>2. CASE Signals(t, f)
      <3> DEFINE o == call[t].objs[1]
      <3>1. f = "call" /\ call[t].fn = "signal_wait"
        BY <2>2 DEF Signals
      <3>2. WellFormed(t, call[t])
        BY <3>1, CallFormed DEF NoCall
      <3>3. o \in Objs
        BY <3>1, <3>2 DEF WellFormed
      <3>4. CanSignal(t, o, 1) /\ SignalObject(o, 1) /\ todo' = SignalWakes(o, 1) \o <<EndSelect(t)>>
        BY <2>2 DEF Select, f
      <3> HIDE DEF o
      <3>5. ItemsOK(SignalWakes(o, 1)) /\ NoSelect(SignalWakes(o, 1))
        BY <3>3, SignalWakesItems
      <3>6. ObjectsInv'
        BY <3>3, <3>4, SignalTypes
      <3>7. ItemsOK(todo')
        BY <2>1, <3>4, <3>5, ItemsJoin
      <3> QED BY <3>1, <3>4, <3>5, <3>6, <3>7
    <2>3. CASE ~Signals(t, f)
      <3>1. todo' = <<EndSelect(t)>> /\ UNCHANGED objects
        BY <2>3 DEF Select, f
      <3>2. <<>> \o <<EndSelect(t)>> = <<EndSelect(t)>>
        OBVIOUS
      <3>3. ObjectsInv'
        BY <3>1 DEF ObjectsInv, objects
      <3>4. ItemsOK(<<>>) /\ NoSelect(<<>>)
        BY ItemsFacts
      <3> QED BY <2>1, <3>1, <3>2, <3>3, <3>4
    <2> QED BY <2>2, <2>3
  <1>17. TodoInv'
    BY <1>16 DEF TodoInv, ItemsOK
  <1>18. \A g : HasWait(t, g)' <=> HasWait(t, g) \/ g = f
    BY <1>8, <1>10, WaitMoves DEF f
  <1>19. SelectInv'
    <2>1. PICK s : ItemsOK(s) /\ NoSelect(s) /\ todo' = s \o <<EndSelect(t)>> /\ (f = "suspend" => s = <<>>)
      BY <1>16
    <2>2. EndSelect(t).do = "select" /\ EndSelect(t).thread = t /\ EndSelect(t) \in Items
      BY ItemFacts DEF EndSelect
    <2>3. s \in Seq(Items) /\ <<EndSelect(t)>> \in Seq(Items) /\ Len(<<EndSelect(t)>>) = 1 /\ Len(s) \in Nat
          /\ <<EndSelect(t)>>[1] = EndSelect(t) /\ 1 \in 1..1
      BY <2>1, <2>2 DEF ItemsOK
    <2>4. /\ Len(todo') = Len(s) + 1
          /\ \A k \in 1..Len(s) : todo'[k] = s[k]
          /\ \A k \in 1..1 : todo'[Len(s) + k] = <<EndSelect(t)>>[k]
      BY <2>1, <2>3, Join
    <2>5. todo'[Len(todo')] = EndSelect(t) /\ Len(todo') # 0
      BY <2>3, <2>4
    <2>6. ASSUME NEW k \in 1..Len(todo'), todo'[k].do = "select" PROVE k = Len(todo')
      <3>1. k \notin 1..Len(s)
        BY <2>1, <2>4, <2>6 DEF NoSelect
      <3>2. k = Len(s) + 1
        BY <2>3, <2>4, <3>1
      <3> QED BY <2>4, <3>2
    <2>7. Active(t)' = f
      BY <1>1, <1>2, <1>8, <1>9 DEF Active, Frames, f
    <2>8. pc'[t][f] = "server"
      BY <1>2, <1>8, <1>9
    <2>9. ASSUME NEW k \in 1..Len(todo'), NEW u, u = todo'[k].thread, todo'[k].do = "select"
          PROVE  k = Len(todo') /\ pc'[u][Active(u)'] = "server"
      <3>1. k = Len(todo') /\ u = t
        BY <2>2, <2>5, <2>6, <2>9
      <3> QED BY <2>7, <2>8, <3>1
    <2>10. LastOK'
      BY <2>9 DEF LastOK, Active
    <2>11. ASSUME NEW u \in Threads, NEW g \in Frames, pc'[u][g] = "server" PROVE u = t /\ g = f
      <3>1. u = t
        <4> SUFFICES ASSUME u # t PROVE FALSE
          OBVIOUS
        <4>1. pc'[u] = pc[u] \/ pc'[u] = [pc[u] EXCEPT !["call"] = "idle"]
          BY <1>9
        <4>2. pc[u] \in [Frames -> Places] /\ pc[u][g] # "server"
          BY <1>7, <1>8
        <4> QED BY <2>11, <4>1, <4>2
      <3> QED BY <1>2, <1>7, <1>8, <1>9, <2>11, <3>1
    <2>12. todo' # <<>> /\ LastTodo' = EndSelect(t)
      BY <2>5 DEF LastTodo
    <2>13. f = "suspend" => Len(todo') = 1
      BY <2>1, <2>4
    <2>14. t \notin dead'
      BY <1>1
    <2>15. ASSUME NEW u \in Threads PROVE SelectOK(u)'
      BY <1>18, <2>2, <2>7, <2>11, <2>12, <2>13, <2>14 DEF SelectOK
    <2> QED BY <2>10, <2>15 DEF SelectInv
  <1>20. QueuesInv'
    <2> SUFFICES ASSUME NEW o \in Objs, NEW j \in 1..Len(queue'[o]), NEW u, NEW n,
                        u = queue'[o][j][1], n = queue'[o][j][2]
                 PROVE  HasWait(u, "call")' /\ n \in DOMAIN WaitObjs(call'[u]) /\ WaitObjs(call'[u])[n] = o
      BY QueuesNext
    <2> DEFINE q == queue[o]
               x == e(o)
    <2>1. queue'[o] = q \o x /\ q \in Seq(Threads \X Nat) /\ x \in Seq(Threads \X Nat)
          /\ \A i \in 1..Len(x) : x[i][1] = t /\ x[i][2] \in DOMAIN objs /\ objs[x[i][2]] = o
      BY <1>1, <1>4, <1>8
    <2> HIDE DEF x, e, q
    <2>2. (j \in 1..Len(q) /\ queue'[o][j] = q[j]) \/ (\E i \in 1..Len(x) : queue'[o][j] = x[i])
      <3>1. /\ \A k \in 1..Len(q) : (q \o x)[k] = q[k]
            /\ \A k \in 1..Len(q \o x) : k \in 1..Len(q) \/ (k - Len(q) \in 1..Len(x) /\ (q \o x)[k] = x[k - Len(q)])
        BY <2>1, Join
      <3> QED BY <2>1, <3>1
    <2>3. CASE j \in 1..Len(q) /\ queue'[o][j] = q[j]
      <3>1. HasWait(u, "call") /\ n \in DOMAIN WaitObjs(call[u]) /\ WaitObjs(call[u])[n] = o
        BY <2>3 DEF QueuesInv, QueueOK, q
      <3>2. u \in Threads
        <4>1. q[j] \in Threads \X Nat
          BY <2>1, <2>3
        <4> QED BY <2>3, <4>1
      <3>3. pc[u]["call"] # "apc_wait"
        BY <3>1, <3>2, NoWait DEF StacksInv
      <3>4. HasWait(u, "call")'
        <4>1. CASE u = t
          BY <1>18, <3>1, <4>1
        <4>2. CASE u # t
          BY <1>11, <3>1, <3>2, <4>2 DEF HasWait
        <4> QED BY <4>1, <4>2
      <3>5. call'[u] = call[u]
        BY <1>9, <3>2, <3>3
      <3> QED BY <3>1, <3>4, <3>5
    <2>4. CASE \E i \in 1..Len(x) : queue'[o][j] = x[i]
      <3>1. u = t /\ n \in DOMAIN objs /\ objs[n] = o
        BY <2>1, <2>4
      <3>2. f = "call"
        BY <1>5, <3>1
      <3>3. objs = WaitObjs(call[t])
        BY <1>6, <3>2
      <3>4. call'[t] = call[t]
        BY <1>1, <1>9, <3>2
      <3>5. HasWait(t, "call")'
        BY <1>18, <3>2
      <3> QED BY <3>1, <3>3, <3>4, <3>5
    <2> QED BY <2>2, <2>3, <2>4
  <1> QED BY <1>9, <1>13, <1>14, <1>15, <1>16, <1>17, <1>19, <1>20, Assemble

\* The select that the server finishes is the last thing to do.
LEMMA SelectDone ==
  ASSUME ServerInv, NEW t \in Threads, Doing("select"), Head(todo).thread = t
  PROVE  LET f == Active(t)
         IN  /\ f \in Frames /\ Tail(todo) = <<>> /\ pc[t][f] = "server" /\ t \notin dead
             /\ \A u \in Threads, g \in Frames : pc[u][g] = "server" => u = t /\ g = f
             /\ wait[t] = <<>> => f = "call"
             /\ wait[t] # <<>> => Head(wait[t]).frame = f /\ ~Head(wait[t]).cookie
  <1> USE ServerParts
  <1> DEFINE f == Active(t)
  <1>1. /\ todo # <<>> /\ todo \in Seq(Items) /\ Len(todo) \in Nat /\ Len(todo) >= 1 /\ todo[1] = Head(todo)
        /\ todo[1].do = "select" /\ 1 \in 1..Len(todo)
    BY HeadTail DEF Doing
  <1>2. Len(todo) = 1 /\ pc[t][f] = "server"
    BY <1>1 DEF LastOK
  <1>3. Tail(todo) = <<>>
    <2>1. Tail(todo) \in Seq(Items) /\ Len(Tail(todo)) = Len(todo) - 1
      BY <1>1, HeadTail
    <2>2. Len(Tail(todo)) = 0
      BY <1>2, <2>1
    <2> QED BY <2>1, <2>2, LenZero
  <1>4. f \in Frames
    BY DEF Active, Frames
  <1>5. t \notin dead /\ (HasWait(t, f) \/ (f = "call" /\ wait[t] = <<>>))
    BY <1>2, <1>4 DEF SelectInv, SelectOK
  <1>6. \A u \in Threads, g \in Frames : pc[u][g] = "server" => u = t /\ g = f
    <2>1. LastTodo = Head(todo)
      BY <1>1, <1>2 DEF LastTodo
    <2>2. \A u \in Threads, g \in Frames : pc[u][g] = "server" => LastTodo.thread = u /\ g = Active(u)
      BY DEF SelectInv, SelectOK
    <2> QED BY <2>1, <2>2
  <1>7. wait[t] = <<>> => f = "call"
    BY <1>5 DEF HasWait
  <1>8. ASSUME wait[t] # <<>> PROVE Head(wait[t]).frame = f /\ ~Head(wait[t]).cookie
    <2>1. StackOK(t)
      BY DEF StacksInv
    <2>2. /\ Head(wait[t]).frame \in Frames
          /\ pc[t][Head(wait[t]).frame] = IF Head(wait[t]).cookie THEN "read" ELSE "server"
          /\ HasWait(t, f) /\ f # Head(wait[t]).frame => \E k \in 1..Len(Tail(wait[t])) : Tail(wait[t])[k].frame = f
      BY <1>8, <2>1, TopFrame
    <2>3. Head(wait[t]).frame = f
      <3> SUFFICES ASSUME Head(wait[t]).frame # f PROVE FALSE
        OBVIOUS
      <3>1. PICK k \in 1..Len(Tail(wait[t])) : Tail(wait[t])[k].frame = f
        BY <1>5, <1>8, <2>2
      <3>2. wait[t] \in Seq(Waits) /\ Len(wait[t]) \in Nat
        BY DEF StateInv
      <3>3. Len(Tail(wait[t])) = Len(wait[t]) - 1 /\ wait[t][1] = Head(wait[t])
        BY <1>8, <3>2, HeadTail
      <3>4. Len(wait[t]) <= 2 /\ k \in 1..(Len(wait[t]) - 1)
        BY <2>1, <3>1, <3>3 DEF StackOK
      <3>5. Len(wait[t]) = 2
        BY <3>2, <3>4, AtMostTwo
      <3>6. Head(wait[t]).frame = "suspend" /\ pc[t]["suspend"] # "idle"
        BY <2>1, <2>2, <3>3, <3>5 DEF StackOK
      <3> QED BY <3>6 DEF Active
    <2> QED BY <1>2, <2>2, <2>3
  <1> QED BY <1>2, <1>3, <1>4, <1>5, <1>6, <1>7, <1>8

\* The request is answered.
LEMMA SelectAnswered ==
  ASSUME ServerInv, NEW t \in Threads, Doing("select"), Head(todo).thread = t, todo' = Tail(todo),
         \A u \in Threads : u # t => pc'[u] = pc[u],
         NEW x \in Places, x # "server", pc'[t] = [pc[t] EXCEPT ![Active(t)] = x]
  PROVE  TodoInv' /\ SelectInv' /\ pc'[t] \in [Frames -> Places]
  <1> USE ServerParts
  <1>1. Active(t) \in Frames /\ Tail(todo) = <<>> /\ \A u \in Threads, g \in Frames : pc[u][g] = "server" => u = t /\ g = Active(t)
    BY SelectDone
  <1>2. pc[t] \in [Frames -> Places]
    BY DEF StateInv
  <1>3. \A u \in Threads : \A g \in Frames : pc'[u][g] # "server"
    <2>1. \A g \in Frames : pc'[t][g] # "server"
      BY <1>1, <1>2
    <2>2. ASSUME NEW u \in Threads, NEW g \in Frames, u # t PROVE pc'[u][g] # "server"
      <3>1. pc'[u] = pc[u]
        BY <2>2
      <3> QED BY <1>1, <2>2, <3>1
    <2> QED BY <2>1, <2>2
  <1>4. ItemsOK(todo') /\ NoSelect(todo')
    BY <1>1, ItemsFacts
  <1>5. TodoInv'
    BY <1>4 DEF TodoInv, ItemsOK
  <1>6. SelectInv'
    BY <1>3, <1>4, SelectNone
  <1>7. pc'[t] \in [Frames -> Places]
    BY <1>1, <1>2
  <1> QED BY <1>5, <1>6, <1>7

LEMMA SelectWokenInv == ASSUME ServerInv, NEW t \in Threads, SelectWoken(t) PROVE ServerInv'
  <1> USE ServerParts
  <1>1. /\ Doing("select") /\ Head(todo).thread = t /\ wait[t] = <<>> /\ todo' = Tail(todo)
        /\ Returned(t, "call", "object")
        /\ UNCHANGED <<objects, queue, wait, pipe, stolen, suspend, context, changed, system_apc, prev, alert_sync,
                       armed, dead, program, sigusr1>>
    BY DEF SelectWoken, stops, apcs
  <1>2. Active(t) = "call" /\ "call" \in Frames /\ pc[t]["call"] = "server"
    BY <1>1, SelectDone DEF Frames
  <1>3. /\ CallsInv' /\ deadline' \in [Threads -> {"none", "later", "past"}]
        /\ \E x \in {"idle", "abort"} : pc' = [pc EXCEPT ![t]["call"] = x]
        /\ \A u \in Threads : u # t => call'[u] = call[u]
    BY <1>1, <1>2, ReturnedFacts
  <1>4. PICK x \in {"idle", "abort"} : pc' = [pc EXCEPT ![t]["call"] = x]
    BY <1>3
  <1>5. x \in Places /\ x \in Places \ {"server", "read"} /\ x # "handler" /\ x # "server"
    BY DEF Places
  <1>6. pc \in [Threads -> [Frames -> Places]]
    BY DEF StateInv
  <1>7. pc'[t] = [pc[t] EXCEPT !["call"] = x] /\ \A u \in Threads : u # t => pc'[u] = pc[u]
    BY <1>4, <1>6
  <1>8. TodoInv' /\ SelectInv'
    <2>1. pc'[t] = [pc[t] EXCEPT ![Active(t)] = x]
      BY <1>2, <1>7
    <2> QED BY <1>1, <1>5, <1>7, <2>1, SelectAnswered
  <1>9. pc' \in [Threads -> [Frames -> Places]]
    BY <1>2, <1>4, <1>5, <1>6
  <1>10. StateInv' /\ ObjectsInv' /\ FlagsInv'
    BY <1>1, <1>3, <1>9 DEF StateInv, ObjectsInv, objects, FlagsInv
  <1>11. \A f : ~HasWait(t, f)
    BY <1>1 DEF HasWait
  <1>12. ASSUME NEW u \in Threads PROVE Moves(u)
    <2>1. CASE u = t
      <3>1. Goes(t, "call", x)
        BY <1>1, <1>2, <1>5, <1>7, <1>11 DEF Goes, Apart
      <3> QED BY <1>2, <1>5, <2>1, <3>1 DEF Moves
    <2>2. CASE u # t
      BY <1>1, <1>7, <2>2 DEF Moves, Still, Apart
    <2> QED BY <2>1, <2>2
  <1>13. QueuesInv'
    <2>1. \A u \in Threads : HasWait(u, "call") => HasWait(u, "call")' /\ call'[u] = call[u]
      BY <1>1, <1>3, <1>11 DEF HasWait
    <2> QED BY <1>1, <2>1, QueuesSame
  <1>14. ApcsInv'
    <2>1. \A u \in Threads : pc[u]["call"] = "apc_wait" => pc'[u]["call"] = "apc_wait"
      BY <1>2, <1>7
    <2> QED BY <1>1, <2>1, ApcsSame
  <1> QED BY <1>3, <1>8, <1>10, <1>12, <1>13, <1>14, Assemble

LEMMA SelectPendsInv == ASSUME ServerInv, NEW t \in Threads, SelectPends(t) PROVE ServerInv'
  <1> USE ServerParts
  <1> DEFINE f == Active(t)
             timed == f = "suspend" \/ deadline[t] # "none"
             w == [frame |-> f, cookie |-> TRUE, user |-> timed]
  <1>1. /\ Doing("select") /\ Head(todo).thread = t /\ wait[t] # <<>> /\ todo' = Tail(todo)
        /\ wait' = [wait EXCEPT ![t] = <<w>> \o Tail(@)] /\ pc' = [pc EXCEPT ![t][f] = "read"]
        /\ UNCHANGED <<objects, queue, pipe, stolen, suspend, context, changed, system_apc, prev, alert_sync,
                       armed, dead, program, sigusr1, call, deadline>>
    BY DEF SelectPends, stops, apcs
  <1>2. f \in Frames /\ pc[t][f] = "server" /\ Head(wait[t]).frame = f /\ ~Head(wait[t]).cookie
    BY <1>1, SelectDone
  <1>3. timed \in BOOLEAN
    OBVIOUS
  <1> HIDE DEF timed
  <1>4. w \in Waits /\ w.frame = f /\ w.cookie
    BY <1>2, <1>3 DEF Waits
  <1>5. pc \in [Threads -> [Frames -> Places]] /\ wait \in [Threads -> Seq(Waits)] /\ StackOK(t)
    BY DEF StateInv, StacksInv
  <1>6. "read" \in Places
    BY DEF Places
  <1>7. pc'[t] = [pc[t] EXCEPT ![f] = "read"] /\ \A u \in Threads : u # t => pc'[u] = pc[u]
    BY <1>1, <1>5
  <1>8. TodoInv' /\ SelectInv'
    BY <1>1, <1>6, <1>7, SelectAnswered
  <1> HIDE DEF f, w
  <1>9. pc' \in [Threads -> [Frames -> Places]]
    BY <1>1, <1>2, <1>5, <1>6
  <1>10. wait'[t] = <<w>> \o Tail(wait[t]) /\ wait' \in [Threads -> Seq(Waits)]
         /\ \A u \in Threads : u # t => wait'[u] = wait[u]
    <2>1. Tail(wait[t]) \in Seq(Waits)
      BY <1>1, <1>5, HeadTail
    <2>2. <<w>> \o Tail(wait[t]) \in Seq(Waits)
      BY <1>4, <2>1, Cons
    <2> QED BY <1>1, <1>5, <2>2
  <1>11. StateInv' /\ ObjectsInv' /\ FlagsInv' /\ CallsInv'
    BY <1>1, <1>9, <1>10 DEF StateInv, ObjectsInv, objects, FlagsInv, CallsInv, IsCall
  <1>12. Sleeps(t)
    BY <1>1, <1>2, <1>4, <1>7, <1>10 DEF Sleeps, Apart
  <1>13. \A u \in Threads : Moves(u)
    <2>1. \A u \in Threads : u # t => Still(u)
      BY <1>1, <1>7, <1>10 DEF Still, Apart
    <2> QED BY <1>12, <2>1 DEF Moves
  <1>14. QueuesInv'
    <2>1. HasWait(t, "call")' <=> HasWait(t, "call")
      BY <1>5, <1>12, WaitMoves
    <2>2. \A u \in Threads : u # t => (HasWait(u, "call")' <=> HasWait(u, "call"))
      BY <1>10 DEF HasWait
    <2> QED BY <1>1, <2>1, <2>2, QueuesSame
  <1>15. ApcsInv'
    <2>1. pc[t]["call"] = "apc_wait" => pc'[t]["call"] = "apc_wait"
      BY <1>2, <1>5, <1>7 DEF Frames
    <2>2. \A u \in Threads : pc[u]["call"] = "apc_wait" => pc'[u]["call"] = "apc_wait"
      BY <1>7, <2>1
    <2> QED BY <1>1, <2>2, ApcsSame
  <1> QED BY <1>8, <1>11, <1>13, <1>14, <1>15, Assemble

-----------------------------------------------------------------------------
(* Waits that end.                                                         *)

\* send_thread_wakeup.
Handled(u, v) ==
    Head(wait[u]).frame = "suspend" /\ context[u] # "none" /\ v.status \notin {"kernel_apc", "user_apc"}
ReplyTo(u, v) ==
    LET s == IF Handled(u, v) /\ changed[u] THEN [status |-> "kernel_apc", index |-> 0] ELSE v
    IN  [cookie |-> Head(wait[u]).frame, status |-> s.status, index |-> s.index]
LEMMA SendFacts ==
  ASSUME StateInv, NEW E \in SUBSET Threads, NEW v, Send(E, v)
  PROVE  /\ \A u \in E : Head(wait[u]).cookie => pipe'[u] = Append(pipe[u], ReplyTo(u, v))
         /\ \A u \in Threads : u \notin E \/ ~Head(wait[u]).cookie => pipe'[u] = pipe[u] /\ context'[u] = context[u]
         /\ \A u \in E : Head(wait[u]).cookie =>
               context'[u] = IF Handled(u, v) /\ ~changed[u] THEN "none" ELSE context[u]
         /\ DOMAIN pipe' = Threads /\ pipe' = [u \in Threads |-> pipe'[u]]
         /\ context' \in [Threads -> {"none", "pending", "saved"}]
  <1>1. /\ pipe' = [u \in Threads |-> IF u \in E /\ Head(wait[u]).cookie THEN Append(pipe[u], ReplyTo(u, v)) ELSE pipe[u]]
        /\ context' = [u \in Threads |-> IF u \in E /\ Head(wait[u]).cookie /\ Handled(u, v) /\ ~changed[u]
                                         THEN "none" ELSE context[u]]
    BY DEF Send, Outdated, Handled, ReplyTo
  <1> QED BY <1>1 DEF StateInv

\* The threads whose waits end are told, if they sleep.
LEMMA SendMoves ==
  ASSUME TypesInv, StacksInv, NEW t \in Threads, wait[t] # <<>>,
         NEW v, (v = CheckWait(t) /\ CanEnd(t)) \/ v = [status |-> "timeout", index |-> 0],
         EndWait(t, v), Send(Ends(t, v), v), UNCHANGED <<pc, stolen, dead>>
  PROVE  /\ \A u \in Threads : Moves(u)
         /\ pipe' \in [Threads -> Seq(Replies)] /\ context' \in [Threads -> {"none", "pending", "saved"}]
  <1> DEFINE E == Ends(t, v)
  <1>1. StateInv
    BY DEF TypesInv
  <1>2. E \subseteq Threads
    BY EndsWait
  <1>3. /\ v.status \in Statuses /\ v.index \in Nat
        /\ \A u \in E : wait[u] # <<>> /\ wait'[u] = Tail(wait[u])
        /\ \A u \in Threads \ E : wait'[u] = wait[u]
    BY EndFacts
  <1>4. Send(E, v)
    OBVIOUS
  <1> HIDE DEF E
  <1>5. /\ \A u \in E : Head(wait[u]).cookie => pipe'[u] = Append(pipe[u], ReplyTo(u, v))
        /\ \A u \in Threads : u \notin E \/ ~Head(wait[u]).cookie => pipe'[u] = pipe[u]
        /\ pipe' = [u \in Threads |-> pipe'[u]]
        /\ context' \in [Threads -> {"none", "pending", "saved"}]
    BY <1>1, <1>2, <1>4, SendFacts
  <1>6. ASSUME NEW u \in E PROVE ReplyTo(u, v) \in Replies /\ ReplyTo(u, v).cookie = Head(wait[u]).frame
    <2>1. Head(wait[u]).frame \in Frames
      BY <1>1, <1>2, <1>3, TopFrame DEF StacksInv
    <2> QED BY <1>3, <2>1 DEF ReplyTo, Replies, Statuses
  <1>7. \A u \in Threads : pipe'[u] \in Seq(Replies)
    <2>1. \A u \in Threads : pipe[u] \in Seq(Replies)
      BY <1>1 DEF StateInv
    <2>2. ASSUME NEW u \in E PROVE Append(pipe[u], ReplyTo(u, v)) \in Seq(Replies)
      BY <1>2, <1>6, <2>1, Snoc
    <2> QED BY <1>5, <2>1, <2>2
  <1>8. pipe' \in [Threads -> Seq(Replies)]
    BY <1>5, <1>7
  <1>9. ASSUME NEW u \in Threads PROVE Moves(u)
    <2>1. CASE u \notin E
      <3>1. Still(u)
        BY <1>3, <1>5, <2>1 DEF Still, Apart
      <3> QED BY <3>1 DEF Moves
    <2>2. CASE u \in E /\ Head(wait[u]).cookie
      <3>1. PopsAsleep(u)
        BY <1>3, <1>5, <1>6, <2>2 DEF PopsAsleep, Apart
      <3> QED BY <3>1 DEF Moves
    <2>3. CASE u \in E /\ ~Head(wait[u]).cookie
      <3>1. Head(wait[u]).frame \in Frames /\ pc[u][Head(wait[u]).frame] = "server"
        BY <1>1, <1>2, <1>3, <2>3, TopFrame DEF StacksInv
      <3>2. pc[u] \in [Frames -> Places]
        BY <1>1 DEF StateInv
      <3>3. pc'[u] = [pc[u] EXCEPT ![Head(wait[u]).frame] = "server"]
        BY <3>1, <3>2
      <3>4. "server" \in Places
        BY DEF Places
      <3>5. PopsAwake(u, "server")
        BY <1>3, <1>5, <2>3, <3>3 DEF PopsAwake, Apart
      <3> QED BY <3>4, <3>5 DEF Moves
    <2> QED BY <2>1, <2>2, <2>3
  <1> QED BY <1>5, <1>8, <1>9

\* A call that is in a request is alone on the stack.
LEMMA LoneCall ==
  ASSUME StateInv, NEW u \in Threads, StackOK(u), pc[u]["suspend"] = "idle", wait[u] # <<>>
  PROVE  Tail(wait[u]) = <<>> /\ Head(wait[u]).frame = "call"
  <1>1. wait[u] \in Seq(Waits) /\ Len(wait[u]) \in Nat
    BY DEF StateInv
  <1>2. /\ Head(wait[u]).frame \in Frames
        /\ pc[u][Head(wait[u]).frame] = IF Head(wait[u]).cookie THEN "read" ELSE "server"
    BY TopFrame
  <1>3. Head(wait[u]).frame = "call"
    BY <1>2 DEF Frames
  <1>4. Len(wait[u]) >= 1 /\ Tail(wait[u]) \in Seq(Waits) /\ Len(Tail(wait[u])) = Len(wait[u]) - 1 /\ wait[u][1] = Head(wait[u])
    BY <1>1, HeadTail
  <1>5. Len(wait[u]) # 2 /\ Len(wait[u]) <= 2
    BY <1>3, <1>4 DEF StackOK
  <1>6. Len(wait[u]) = 1
    <2>1. Len(wait[u]) = 0 \/ Len(wait[u]) = 1
      BY <1>1, <1>5, AtMostTwo
    <2>2. Len(wait[u]) # 0
      BY <1>1, <1>4
    <2> QED BY <2>1, <2>2
  <1>7. Len(Tail(wait[u])) = 0
    BY <1>4, <1>6
  <1> QED BY <1>3, <1>4, <1>7, LenZero

LEMMA WakeThreadStepInv == ASSUME ServerInv, WakeThreadStep PROVE ServerInv'
  <1> USE ServerParts
  <1> DEFINE t == Head(todo).thread
             v == CheckWait(t)
  <1>1. /\ todo # <<>> /\ Head(todo).do = "wake_thread"
        /\ UNCHANGED <<pc, stolen, dead, call, system_apc, prev, program, suspend, changed, sigusr1, alert_sync, armed,
                       deadline>>
    BY DEF WakeThreadStep, Doing, apcs, client
  <1>2. t \in Threads
    BY <1>1, ItemsTail DEF IsItem
  <1>3. CASE ~CanEnd(t)
    <2>1. todo' = Tail(todo) /\ UNCHANGED <<objects, wait, queue, pipe, context>>
      BY <1>3 DEF WakeThreadStep
    <2>2. ItemsOK(todo') /\ Follows(todo')
      BY <1>1, <2>1, ItemsTail, FollowsTail
    <2>3. TodoInv' /\ ObjectsInv' /\ FlagsInv'
      BY <1>1, <2>1, <2>2 DEF TodoInv, ItemsOK, ObjectsInv, objects, FlagsInv
    <2>4. SelectInv'
      BY <1>1, <2>1, <2>2, SelectFollows
    <2>5. UNCHANGED quiet
      BY <1>1, <2>1 DEF quiet
    <2> QED BY <1>1, <2>1, <2>3, <2>4, <2>5, Quiet
  <1>4. CASE CanEnd(t)
    <2>1. EndWait(t, v) /\ Send(Ends(t, v), v) /\ UNCHANGED todo
      BY <1>4 DEF WakeThreadStep
    <2>2. wait[t] # <<>>
      BY <1>4 DEF CanEnd
    <2> HIDE DEF t
    <2>3. /\ ObjectsInv' /\ wait' \in [Threads -> Seq(Waits)] /\ queue' \in [Objs -> Seq(Threads \X Nat)]
          /\ \A u \in Ends(t, v) : wait[u] # <<>> /\ wait'[u] = Tail(wait[u])
          /\ \A u \in Threads \ Ends(t, v) : wait'[u] = wait[u]
      BY <1>2, <1>4, <2>1, <2>2, EndFacts
    <2>4. /\ \A u \in Threads : Moves(u)
          /\ pipe' \in [Threads -> Seq(Replies)] /\ context' \in [Threads -> {"none", "pending", "saved"}]
      BY <1>1, <1>2, <1>4, <2>1, <2>2, SendMoves
    <2>5. QueuesInv'
      BY <1>1, <1>2, <1>4, <2>1, <2>2, EndQueues
    <2>6. ApcsInv'
      BY <1>1, ApcsSame
    <2>7. StateInv' /\ FlagsInv' /\ CallsInv' /\ TodoInv'
      BY <1>1, <2>1, <2>3, <2>4 DEF StateInv, FlagsInv, CallsInv, IsCall, TodoInv
    <2>8. SelectInv'
      <3>1. LastTodo.do = "select" => Len(todo) # 1
        BY <1>1, FollowsTail
      <3>2. \A u : Active(u)' = Active(u)
        BY <1>1 DEF Active
      <3>3. LastOK'
        BY <1>1, <2>1 DEF LastOK, Active
      <3>4. ASSUME NEW u \in Threads, NEW f \in Frames, pc[u][f] = "server"
            PROVE  /\ f = "call" /\ (HasWait(u, "call") \/ wait[u] = <<>>) => (HasWait(u, "call")' \/ wait'[u] = <<>>)
                   /\ f # "suspend" /\ f = "call" /\ (HasWait(u, "call") \/ wait[u] = <<>>)
        <4>1. f # "suspend" /\ f = Active(u) /\ (HasWait(u, f) \/ (f = "call" /\ wait[u] = <<>>))
          BY <3>1, <3>4 DEF SelectInv, SelectOK
        <4>2. f = "call" /\ pc[u]["suspend"] = "idle"
          BY <4>1 DEF Active, Frames
        <4>3. CASE u \in Ends(t, v)
          <5>1. wait'[u] = Tail(wait[u]) /\ wait[u] # <<>>
            BY <2>3, <4>3
          <5>2. Tail(wait[u]) = <<>>
            BY <4>2, <5>1, LoneCall DEF StacksInv
          <5> QED BY <4>1, <4>2, <5>1, <5>2
        <4>4. CASE u \notin Ends(t, v)
          <5>1. wait'[u] = wait[u]
            BY <2>3, <4>4
          <5> QED BY <4>1, <4>2, <5>1 DEF HasWait
        <4> QED BY <4>3, <4>4
      <3>5. ASSUME NEW u \in Threads, NEW f \in Frames, pc'[u][f] = "server"
            PROVE  /\ todo' # <<>> /\ LastTodo'.do = "select" /\ LastTodo'.thread = u
                   /\ f = Active(u)' /\ u \notin dead'
                   /\ HasWait(u, f)' \/ (f = "call" /\ wait'[u] = <<>>)
                   /\ f = "suspend" => Len(todo') = 1
        <4>1. pc[u][f] = "server"
          BY <1>1, <3>5
        <4>2. todo # <<>> /\ LastTodo.do = "select" /\ LastTodo.thread = u /\ f = Active(u) /\ u \notin dead
          BY <4>1 DEF SelectInv, SelectOK
        <4>3. LastTodo' = LastTodo
          BY <2>1 DEF LastTodo
        <4>4. f = "call" /\ (HasWait(u, "call")' \/ wait'[u] = <<>>)
          BY <3>4, <4>1
        <4> QED BY <1>1, <2>1, <3>2, <4>2, <4>3, <4>4
      <3>6. \A u \in Threads : SelectOK(u)'
        BY <3>5 DEF SelectOK
      <3> QED BY <3>3, <3>6 DEF SelectInv
    <2> QED BY <2>3, <2>4, <2>5, <2>6, <2>7, <2>8, Assemble
  <1> QED BY <1>3, <1>4

LEMMA ThreadTimeoutInv == ASSUME ServerInv, NEW t \in Threads, ThreadTimeout(t) PROVE ServerInv'
  <1> USE ServerParts
  <1> DEFINE v == [status |-> "timeout", index |-> 0]
  <1>1. PICK k \in DOMAIN wait[t] :
              /\ Idle
              /\ IF k = 1 /\ ~Suspended(t)
                 THEN EndWait(t, v) /\ Send({t}, v) /\ todo' = <<WakeThread(t)>>
                 ELSE /\ wait' = [wait EXCEPT ![t][k].user = FALSE]
                      /\ UNCHANGED <<objects, queue, pipe, context, todo>>
    BY DEF ThreadTimeout
  <1>2. UNCHANGED <<pc, stolen, dead, call, system_apc, prev, program, suspend, changed, sigusr1, alert_sync, armed,
                    deadline>>
    BY DEF ThreadTimeout, apcs, client
  <1>3. ApcsInv'
    BY <1>2, ApcsSame
  <1>4. \A u \in Threads : \A f \in Frames : pc'[u][f] # "server"
    BY <1>1, <1>2, IdleNoServer
  <1>5. wait \in [Threads -> Seq(Waits)] /\ wait[t] \in Seq(Waits) /\ Len(wait[t]) \in Nat /\ StackOK(t)
    BY DEF StateInv, StacksInv
  <1>6. wait[t] # <<>> /\ k \in 1..Len(wait[t])
    BY <1>1, <1>5
  <1>7. CASE k = 1 /\ ~Suspended(t)
    <2>1. EndWait(t, v) /\ Send({t}, v) /\ todo' = <<WakeThread(t)>>
      BY <1>1, <1>7
    <2>2. Ends(t, v) = {t}
      BY DEF Ends
    <2> HIDE DEF v
    <2>3. v = [status |-> "timeout", index |-> 0] /\ Send(Ends(t, v), v)
      BY <2>1, <2>2 DEF v
    <2>4. /\ ObjectsInv' /\ wait' \in [Threads -> Seq(Waits)] /\ queue' \in [Objs -> Seq(Threads \X Nat)]
      BY <1>6, <2>1, <2>3, EndFacts
    <2>5. /\ \A u \in Threads : Moves(u)
          /\ pipe' \in [Threads -> Seq(Replies)] /\ context' \in [Threads -> {"none", "pending", "saved"}]
      BY <1>2, <1>6, <2>1, <2>3, SendMoves
    <2>6. QueuesInv'
      BY <1>2, <1>6, <2>1, <2>3, EndQueues
    <2>7. StateInv' /\ FlagsInv' /\ CallsInv'
      BY <1>2, <2>4, <2>5 DEF StateInv, FlagsInv, CallsInv, IsCall
    <2>8. ItemsOK(todo') /\ NoSelect(todo')
      BY <2>1, ItemFacts, ItemsFacts
    <2>9. TodoInv' /\ SelectInv'
      BY <1>4, <2>8, SelectNone DEF TodoInv, ItemsOK
    <2> QED BY <1>3, <2>4, <2>5, <2>6, <2>7, <2>9, Assemble
  <1>8. CASE ~(k = 1 /\ ~Suspended(t))
    <2>1. wait' = [wait EXCEPT ![t][k].user = FALSE] /\ UNCHANGED <<objects, queue, pipe, context, todo>>
      BY <1>1, <1>8
    <2> DEFINE s == [wait[t] EXCEPT ![k].user = FALSE]
    <2>2. s \in Seq(Waits)
      <3>1. wait[t][k] \in Waits
        BY <1>5, <1>6
      <3>2. [wait[t][k] EXCEPT !.user = FALSE] \in Waits
        BY <3>1 DEF Waits
      <3> QED BY <1>5, <1>6, <3>2
    <2>3. wait'[t] = s
      BY <1>5, <2>1
    <2> HIDE DEF s
    <2>4. wait' \in [Threads -> Seq(Waits)] /\ \A u \in Threads : u # t => wait'[u] = wait[u]
      BY <1>5, <2>1, <2>2, <2>3
    <2>5. Disarms(t)
      BY <1>1, <1>2, <2>1, <2>3 DEF Disarms, Apart, s
    <2>6. \A u \in Threads : Moves(u)
      <3>1. \A u \in Threads : u # t => Still(u)
        BY <1>2, <2>1, <2>4 DEF Still, Apart
      <3> QED BY <2>5, <3>1 DEF Moves
    <2>7. StateInv' /\ ObjectsInv' /\ FlagsInv' /\ CallsInv'
      BY <1>2, <2>1, <2>4 DEF StateInv, ObjectsInv, objects, FlagsInv, CallsInv, IsCall
    <2>8. QueuesInv'
      <3>1. HasWait(t, "call")' <=> HasWait(t, "call")
        BY <1>5, <2>5, WaitMoves
      <3>2. \A u \in Threads : u # t => (HasWait(u, "call")' <=> HasWait(u, "call"))
        BY <2>4 DEF HasWait
      <3> QED BY <1>2, <2>1, <3>1, <3>2, QueuesSame
    <2>9. NoSelect(todo') /\ TodoInv'
      BY <1>1, <2>1, IdleNoServer DEF TodoInv
    <2>10. SelectInv'
      BY <1>4, <2>9, SelectNone
    <2> QED BY <1>3, <2>6, <2>7, <2>8, <2>9, <2>10, Assemble
  <1> QED BY <1>7, <1>8

LEMMA ApcOnce ==
  ASSUME ApcsInv, NEW u \in Threads, NEW v \in Threads, NEW j \in 1..Len(system_apc[u]),
         NEW k \in 1..Len(system_apc[v]), system_apc[u][j] = system_apc[v][k]
  PROVE  u = v /\ j = k
  BY DEF ApcsInv, QueuedOnce

\* A system APC goes with the reply.
LEMMA ApcFetched ==
  ASSUME StateInv, ApcsInv, NEW t \in Threads, NEW f \in Frames, system_apc[t] # <<>>,
         system_apc' = [system_apc EXCEPT ![t] = Tail(@)], prev' = [prev EXCEPT ![t][f] = Head(system_apc[t])],
         \A u \in Threads : pc[u]["call"] = "apc_wait" => pc'[u]["call"] = "apc_wait"
  PROVE  /\ ApcsInv' /\ system_apc' \in [Threads -> Seq(Threads)]
         /\ prev' \in [Threads -> [Frames -> Threads \cup {NoOne}]]
  <1> DEFINE c == Head(system_apc[t])
  <1>1. /\ system_apc \in [Threads -> Seq(Threads)] /\ prev \in [Threads -> [Frames -> Threads \cup {NoOne}]]
        /\ system_apc[t] \in Seq(Threads)
    BY DEF StateInv
  <1>2. /\ Len(system_apc[t]) >= 1 /\ Len(system_apc[t]) \in Nat /\ system_apc[t][1] = c /\ c \in Threads
        /\ Tail(system_apc[t]) \in Seq(Threads) /\ Len(Tail(system_apc[t])) = Len(system_apc[t]) - 1
        /\ \A k \in 1..Len(Tail(system_apc[t])) : k + 1 \in 1..Len(system_apc[t]) /\ Tail(system_apc[t])[k] = system_apc[t][k + 1]
    BY <1>1, HeadTail
  <1>3. 1 \in 1..Len(system_apc[t])
    BY <1>2
  <1> HIDE DEF c
  <1>4. system_apc' \in [Threads -> Seq(Threads)] /\ system_apc'[t] = Tail(system_apc[t])
        /\ \A u \in Threads : u # t => system_apc'[u] = system_apc[u]
    BY <1>1, <1>2
  <1>5. prev' \in [Threads -> [Frames -> Threads \cup {NoOne}]]
        /\ prev'[t][f] = c /\ \A u \in Threads, g \in Frames : u # t \/ g # f => prev'[u][g] = prev[u][g]
    BY <1>1, <1>2 DEF c
  \* Where an APC that is still queued was.
  <1> DEFINE Was(u, k) == IF u = t THEN k + 1 ELSE k
  <1>6. ASSUME NEW u \in Threads, NEW k \in 1..Len(system_apc'[u])
        PROVE  /\ Was(u, k) \in 1..Len(system_apc[u]) /\ system_apc'[u][k] = system_apc[u][Was(u, k)]
               /\ system_apc'[u][k] \in Threads /\ system_apc'[u][k] # c
    <2>1. Was(u, k) \in 1..Len(system_apc[u]) /\ system_apc'[u][k] = system_apc[u][Was(u, k)]
      BY <1>2, <1>4
    <2>2. system_apc'[u][k] \in Threads
      BY <1>4
    <2>3. system_apc[u][Was(u, k)] # system_apc[t][1]
      <3> SUFFICES ASSUME system_apc[u][Was(u, k)] = system_apc[t][1] PROVE FALSE
        OBVIOUS
      <3>1. PICK i \in 1..Len(system_apc[u]) : i = Was(u, k) /\ system_apc[u][i] = system_apc[t][1]
        BY <2>1
      <3>a. PICK m \in 1..Len(system_apc[t]) : m = 1
        BY <1>3
      <3>b. system_apc[u][i] = system_apc[t][m]
        BY <3>1, <3>a
      <3>c. u = t /\ i = m
        BY <3>b, ApcOnce
      <3>2. u = t /\ i = 1
        BY <3>a, <3>c
      <3>3. k + 1 = 1 /\ k \in Nat /\ k >= 1
        BY <1>4, <3>1, <3>2
      <3> QED BY <3>3
    <2> QED BY <1>2, <2>1, <2>2, <2>3
  <1>7. QueuedWait'
    <2>1. ASSUME NEW u \in Threads, NEW k \in 1..Len(system_apc'[u]) PROVE pc'[system_apc'[u][k]]["call"] = "apc_wait"
      <3>1. pc[system_apc'[u][k]]["call"] = "apc_wait"
        BY <1>6 DEF ApcsInv, QueuedWait
      <3> QED BY <1>6, <3>1
    <2> QED BY <2>1 DEF QueuedWait
  <1>8. RunWait'
    <2>1. ASSUME NEW u \in Threads, NEW g \in Frames, prev'[u][g] # NoOne PROVE pc'[prev'[u][g]]["call"] = "apc_wait"
      <3>1. prev'[u][g] \in Threads
        BY <1>5, <2>1
      <3>2. pc[prev'[u][g]]["call"] = "apc_wait"
        <4>1. CASE u = t /\ g = f
          BY <1>2, <1>3, <1>5, <4>1 DEF ApcsInv, QueuedWait
        <4>2. CASE u # t \/ g # f
          BY <1>5, <2>1, <4>2 DEF ApcsInv, RunWait
        <4> QED BY <4>1, <4>2
      <3> QED BY <3>1, <3>2
    <2> QED BY <2>1 DEF RunWait
  <1>9. QueuedOnce'
    <2>1. ASSUME NEW u \in Threads, NEW w \in Threads, NEW j \in 1..Len(system_apc'[u]), NEW k \in 1..Len(system_apc'[w]),
                 system_apc'[u][j] = system_apc'[w][k]
          PROVE  u = w /\ j = k
      <3>a. PICK i \in 1..Len(system_apc[u]) : i = Was(u, j) /\ system_apc'[u][j] = system_apc[u][i]
        BY <1>6
      <3>b. PICK m \in 1..Len(system_apc[w]) : m = Was(w, k) /\ system_apc'[w][k] = system_apc[w][m]
        BY <1>6
      <3>c. u = w /\ i = m
        BY <2>1, <3>a, <3>b, ApcOnce
      <3>1. u = w /\ Was(u, j) = Was(w, k)
        BY <3>a, <3>b, <3>c
      <3>2. j \in Int /\ k \in Int
        BY <1>4
      <3> QED BY <3>1, <3>2
    <2> QED BY <2>1 DEF QueuedOnce
  <1>10. QueuedOrRun'
    <2>1. ASSUME NEW u \in Threads, NEW w \in Threads, NEW k \in 1..Len(system_apc'[u]), NEW g \in Frames
          PROVE  system_apc'[u][k] # prev'[w][g]
      <3>1. CASE w = t /\ g = f
        BY <1>5, <1>6, <3>1
      <3>2. CASE w # t \/ g # f
        BY <1>5, <1>6, <3>2 DEF ApcsInv, QueuedOrRun
      <3> QED BY <3>1, <3>2
    <2> QED BY <2>1 DEF QueuedOrRun
  <1>11. RunOnce'
    <2>1. ASSUME NEW u \in Threads, NEW g \in Frames, u # t \/ g # f PROVE prev'[u][g] = prev[u][g] /\ prev[u][g] # c
      BY <1>2, <1>3, <1>5, <2>1 DEF ApcsInv, QueuedOrRun
    <2>2. ASSUME NEW u \in Threads, NEW w \in Threads, NEW g \in Frames, NEW h \in Frames,
                 prev'[u][g] = prev'[w][h], prev'[u][g] # NoOne
          PROVE  u = w /\ g = h
      <3>1. CASE u = t /\ g = f
        BY <1>5, <2>1, <2>2, <3>1
      <3>2. CASE w = t /\ h = f
        BY <1>5, <2>1, <2>2, <3>2
      <3>3. CASE (u # t \/ g # f) /\ (w # t \/ h # f)
        <4>1. prev[u][g] = prev[w][h] /\ prev[u][g] # NoOne
          BY <2>1, <2>2, <3>3
        <4> QED BY <4>1 DEF ApcsInv, RunOnce
      <3> QED BY <3>1, <3>2, <3>3
    <2> QED BY <2>2 DEF RunOnce
  <1> QED BY <1>4, <1>5, <1>7, <1>8, <1>9, <1>10, <1>11 DEF ApcsInv

\* What the reply of select brings to the thread that made it.
LEMMA SelectReply ==
  ASSUME ServerInv, NEW t \in Threads, SelectEnds(t)
  PROVE  LET f == Active(t)
         IN  /\ \E x \in {"again", "idle", "abort"} :
                   (x = "abort" => f = "call") /\ pc' = [pc EXCEPT ![t][f] = x]
             /\ CallsInv' /\ FlagsInv' /\ ApcsInv'
             /\ \A u \in Threads : u # t => call'[u] = call[u]
             /\ f = "suspend" => call'[t] = call[t]
             /\ system_apc' \in [Threads -> Seq(Threads)]
             /\ prev' \in [Threads -> [Frames -> Threads \cup {NoOne}]]
             /\ context' \in [Threads -> {"none", "pending", "saved"}] /\ changed' \in [Threads -> BOOLEAN]
  <1> USE ServerParts
  <1> DEFINE f == Active(t)
             v == CheckWait(t)
  <1>1. /\ Doing("select") /\ Head(todo).thread = t /\ CanEnd(t)
        /\ UNCHANGED <<armed, program>>
    BY DEF SelectEnds
  <1>2. f \in Frames /\ pc[t][f] = "server"
    BY <1>1, SelectDone
  <1>3. /\ pc \in [Threads -> [Frames -> Places]] /\ DOMAIN call = Threads
        /\ alert_sync \in [Threads -> BOOLEAN] /\ deadline \in [Threads -> {"none", "later", "past"}]
        /\ context \in [Threads -> {"none", "pending", "saved"}] /\ changed \in [Threads -> BOOLEAN]
        /\ system_apc \in [Threads -> Seq(Threads)] /\ prev \in [Threads -> [Frames -> Threads \cup {NoOne}]]
    BY DEF StateInv, CallsInv, FlagsInv
  <1>4. ASSUME NEW x, pc' = [pc EXCEPT ![t][f] = x]
        PROVE  \A u \in Threads : pc[u]["call"] = "apc_wait" => pc'[u]["call"] = "apc_wait"
    <2>1. pc'[t] = [pc[t] EXCEPT ![f] = x] /\ \A u \in Threads : u # t => pc'[u] = pc[u]
      BY <1>3, <1>4
    <2>2. pc[t]["call"] = "apc_wait" => pc'[t]["call"] = "apc_wait"
      BY <1>2, <1>3, <2>1 DEF Frames
    <2> QED BY <2>1, <2>2
  <1>5. CASE v.status = "kernel_apc"
    <2>1. /\ system_apc' = [system_apc EXCEPT ![t] = Tail(@)] /\ prev' = [prev EXCEPT ![t][f] = Head(system_apc[t])]
          /\ pc' = [pc EXCEPT ![t][f] = "again"]
          /\ alert_sync' = [alert_sync EXCEPT ![t] = @ /\ AlertLeft(user_apc[t])]
          /\ UNCHANGED <<context, changed, call, deadline>>
      BY <1>5 DEF SelectEnds
    <2>2. system_apc[t] # <<>>
      BY <1>1, <1>5, CheckEnds
    <2> HIDE DEF f
    <2>3. /\ ApcsInv' /\ system_apc' \in [Threads -> Seq(Threads)]
          /\ prev' \in [Threads -> [Frames -> Threads \cup {NoOne}]]
      BY <1>2, <1>4, <2>1, <2>2, ApcFetched
    <2>4. alert_sync' \in [Threads -> BOOLEAN]
      BY <1>3, <2>1 DEF AlertLeft
    <2>5. FlagsInv' /\ CallsInv'
      BY <1>1, <2>1, <2>4 DEF FlagsInv, CallsInv, IsCall
    <2> QED BY <1>3, <2>1, <2>3, <2>5 DEF f
  <1>6. CASE v.status # "kernel_apc"
    <2>1. /\ alert_sync' = [alert_sync EXCEPT ![t] = IF v.status = "user_apc" THEN AlertLeft(Tail(user_apc[t])) ELSE @]
          /\ context' = [context EXCEPT ![t] = IF f = "suspend" THEN "none" ELSE @]
          /\ changed' = [changed EXCEPT ![t] = IF f = "suspend" THEN FALSE ELSE @]
          /\ Returned(t, f, v.status)
          /\ UNCHANGED <<system_apc, prev>>
      BY <1>6 DEF SelectEnds
    <2> HIDE DEF f, v
    <2>2. /\ CallsInv' /\ deadline' \in [Threads -> {"none", "later", "past"}]
          /\ \E x \in {"idle", "abort"} : (x = "abort" => f = "call") /\ pc' = [pc EXCEPT ![t][f] = x]
          /\ \A u \in Threads : u # t => call'[u] = call[u]
          /\ f = "suspend" => call'[t] = call[t]
      BY <1>1, <1>2, <2>1, ReturnedFacts
    <2>3. ApcsInv'
      BY <1>4, <2>1, <2>2, ApcsSame
    <2>4. alert_sync' \in [Threads -> BOOLEAN]
      BY <1>3, <2>1 DEF AlertLeft
    <2>5. FlagsInv'
      BY <1>1, <2>2, <2>4 DEF FlagsInv
    <2>6. context' \in [Threads -> {"none", "pending", "saved"}] /\ changed' \in [Threads -> BOOLEAN]
      BY <1>3, <2>1
    <2> QED BY <1>3, <2>1, <2>2, <2>3, <2>5, <2>6 DEF f
  <1> QED BY <1>5, <1>6

LEMMA SelectEndsInv == ASSUME ServerInv, NEW t \in Threads, SelectEnds(t) PROVE ServerInv'
  <1> USE ServerParts
  <1> DEFINE f == Active(t)
             v == CheckWait(t)
             E == Ends(t, v)
             r == [cookie |-> "call", status |-> v.status, index |-> v.index]
  <1>1. /\ Doing("select") /\ Head(todo).thread = t /\ CanEnd(t) /\ wait[t] # <<>> /\ EndWait(t, v)
        /\ pipe' = [u \in Threads |-> IF u \notin E \ {t} THEN pipe[u] ELSE Append(pipe[u], r)]
        /\ todo' = Tail(todo) /\ UNCHANGED <<suspend, dead, program, stolen, sigusr1>>
    BY DEF SelectEnds, CanEnd
  <1>2. /\ f \in Frames /\ pc[t][f] = "server" /\ Head(wait[t]).frame = f /\ ~Head(wait[t]).cookie
        /\ \A u \in Threads, g \in Frames : pc[u][g] = "server" => u = t /\ g = f
    BY <1>1, SelectDone
  <1>3. /\ ObjectsInv' /\ v.status \in Statuses /\ v.index \in Nat
        /\ wait' \in [Threads -> Seq(Waits)] /\ queue' \in [Objs -> Seq(Threads \X Nat)]
        /\ \A u \in E : wait[u] # <<>> /\ wait'[u] = Tail(wait[u])
        /\ \A u \in Threads \ E : wait'[u] = wait[u]
    BY <1>1, EndFacts
  <1>4. /\ t \in E /\ E \subseteq Threads
        /\ \A u \in E \ {t} : Head(wait[u]).frame = "call"
    BY <1>1, EndsWait
  <1>5. /\ \E x \in {"again", "idle", "abort"} : (x = "abort" => f = "call") /\ pc' = [pc EXCEPT ![t][f] = x]
        /\ CallsInv' /\ FlagsInv' /\ ApcsInv'
        /\ \A u \in Threads : u # t => call'[u] = call[u]
        /\ f = "suspend" => call'[t] = call[t]
        /\ system_apc' \in [Threads -> Seq(Threads)] /\ prev' \in [Threads -> [Frames -> Threads \cup {NoOne}]]
        /\ context' \in [Threads -> {"none", "pending", "saved"}] /\ changed' \in [Threads -> BOOLEAN]
    BY SelectReply
  <1>6. QueuesInv'
    BY <1>1, <1>2, <1>5, EndQueues
  <1>7. PICK x \in {"again", "idle", "abort"} : (x = "abort" => f = "call") /\ pc' = [pc EXCEPT ![t][f] = x]
    BY <1>5
  <1>8. x \in Places /\ x # "server" /\ x \in {"server", "again", "idle", "abort"}
    BY DEF Places
  <1>9. pc \in [Threads -> [Frames -> Places]]
    BY DEF StateInv
  <1>10. pc'[t] = [pc[t] EXCEPT ![f] = x] /\ \A u \in Threads : u # t => pc'[u] = pc[u]
    BY <1>7, <1>9
  <1>11. TodoInv' /\ SelectInv' /\ pc'[t] \in [Frames -> Places]
    BY <1>1, <1>8, <1>10, SelectAnswered
  <1> HIDE DEF f, v, E
  <1>12. pc' \in [Threads -> [Frames -> Places]]
    BY <1>7, <1>9, <1>11
  <1>13. r \in Replies /\ r.cookie = "call"
    BY <1>3 DEF Replies, Frames
  <1> HIDE DEF r
  <1>14. \A u \in Threads : u \notin E \/ u = t => pipe'[u] = pipe[u]
    BY <1>1
  <1>15. \A u \in E : u # t => pipe'[u] = Append(pipe[u], r)
    BY <1>1, <1>4
  <1>16. pipe' \in [Threads -> Seq(Replies)]
    <2>1. pipe \in [Threads -> Seq(Replies)]
      BY DEF StateInv
    <2>2. \A u \in Threads : Append(pipe[u], r) \in Seq(Replies)
      BY <1>13, <2>1, Snoc
    <2> QED BY <1>1, <2>1, <2>2
  <1>17. StateInv'
    BY <1>1, <1>3, <1>5, <1>12, <1>16 DEF StateInv
  <1>18. ASSUME NEW u \in Threads PROVE Moves(u)
    <2>1. CASE u = t
      <3>1. wait'[t] = Tail(wait[t]) /\ pipe'[t] = pipe[t]
        BY <1>3, <1>4, <1>14
      <3>2. PopsAwake(t, x)
        BY <1>1, <1>2, <1>7, <1>8, <1>10, <3>1 DEF PopsAwake, Apart
      <3> QED BY <1>8, <2>1, <3>2 DEF Moves
    <2>2. CASE u \in E /\ u # t
      <3>1. wait[u] # <<>> /\ wait'[u] = Tail(wait[u]) /\ Head(wait[u]).frame = "call"
        BY <1>3, <1>4, <2>2
      <3>2. pc[u][Head(wait[u]).frame] = IF Head(wait[u]).cookie THEN "read" ELSE "server"
        BY <3>1, TopFrame DEF StacksInv
      <3>3. pc[u]["call"] # "server"
        BY <1>2, <2>2 DEF Frames
      <3>4. Head(wait[u]).cookie
        BY <3>1, <3>2, <3>3
      <3>5. PopsAsleep(u)
        BY <1>1, <1>10, <1>13, <1>15, <2>2, <3>1, <3>4 DEF PopsAsleep, Apart
      <3> QED BY <3>5 DEF Moves
    <2>3. CASE u \notin E /\ u # t
      <3>1. Still(u)
        BY <1>1, <1>3, <1>10, <1>14, <2>3 DEF Still, Apart
      <3> QED BY <3>1 DEF Moves
    <2> QED BY <2>1, <2>2, <2>3
  <1> QED BY <1>3, <1>5, <1>6, <1>11, <1>17, <1>18, Assemble

-----------------------------------------------------------------------------
(* System APCs and the death of a thread.                                  *)

LEMMA ApcQueued ==
  ASSUME StateInv, ApcsInv, NEW t \in Threads, NEW v \in Threads,
         system_apc' = [system_apc EXCEPT ![v] = Append(@, t)], UNCHANGED prev,
         pc[t]["call"] # "apc_wait", pc'[t]["call"] = "apc_wait",
         \A u \in Threads : pc[u]["call"] = "apc_wait" => pc'[u]["call"] = "apc_wait"
  PROVE  ApcsInv' /\ system_apc' \in [Threads -> Seq(Threads)]
  <1>1. /\ system_apc \in [Threads -> Seq(Threads)] /\ prev \in [Threads -> [Frames -> Threads \cup {NoOne}]]
        /\ system_apc[v] \in Seq(Threads) /\ Len(system_apc[v]) \in Nat
    BY DEF StateInv
  <1>2. system_apc'[v] = Append(system_apc[v], t) /\ \A u \in Threads : u # v => system_apc'[u] = system_apc[u]
    BY <1>1
  <1>3. /\ Append(system_apc[v], t) \in Seq(Threads) /\ Append(system_apc[v], t)[Len(system_apc[v]) + 1] = t
        /\ \A k \in 1..Len(system_apc[v]) : Append(system_apc[v], t)[k] = system_apc[v][k]
        /\ \A k \in 1..Len(Append(system_apc[v], t)) : k = Len(system_apc[v]) + 1 \/ k \in 1..Len(system_apc[v])
    BY <1>1, Snoc
  <1>4. system_apc' \in [Threads -> Seq(Threads)]
    BY <1>1, <1>3
  \* The caller is nowhere yet.
  <1>5. /\ \A u \in Threads : \A k \in 1..Len(system_apc[u]) : system_apc[u][k] # t
        /\ \A u \in Threads : \A f \in Frames : prev[u][f] # t
    <2>1. t # NoOne
      BY NoOneAssumption
    <2> QED BY <2>1 DEF ApcsInv, QueuedWait, RunWait
  <1>6. ASSUME NEW u \in Threads, NEW k \in 1..Len(system_apc'[u])
        PROVE  \/ u = v /\ k = Len(system_apc[v]) + 1 /\ system_apc'[u][k] = t
               \/ k \in 1..Len(system_apc[u]) /\ system_apc'[u][k] = system_apc[u][k]
    <2>1. CASE u = v
      BY <1>2, <1>3, <2>1
    <2>2. CASE u # v
      BY <1>2, <2>2
    <2> QED BY <2>1, <2>2
  <1>7. QueuedWait'
    <2>1. ASSUME NEW u \in Threads, NEW k \in 1..Len(system_apc'[u]) PROVE pc'[system_apc'[u][k]]["call"] = "apc_wait"
      <3>1. CASE system_apc'[u][k] = t
        BY <3>1
      <3>2. CASE k \in 1..Len(system_apc[u]) /\ system_apc'[u][k] = system_apc[u][k]
        <4>1. system_apc[u][k] \in Threads
          BY <1>1, <3>2
        <4> QED BY <3>2, <4>1 DEF ApcsInv, QueuedWait
      <3> QED BY <1>6, <3>1, <3>2
    <2> QED BY <2>1 DEF QueuedWait
  <1>8. RunWait'
    <2>1. ASSUME NEW u \in Threads, NEW f \in Frames, prev[u][f] # NoOne PROVE pc'[prev[u][f]]["call"] = "apc_wait"
      <3>1. prev[u][f] \in Threads
        BY <1>1, <2>1
      <3> QED BY <2>1, <3>1 DEF ApcsInv, RunWait
    <2> QED BY <2>1 DEF RunWait
  <1>9. QueuedOnce'
    <2>1. ASSUME NEW u \in Threads, NEW w \in Threads, NEW j \in 1..Len(system_apc'[u]), NEW k \in 1..Len(system_apc'[w]),
                 system_apc'[u][j] = system_apc'[w][k]
          PROVE  u = w /\ j = k
      <3>1. CASE system_apc'[u][j] = t
        <4>1. u = v /\ j = Len(system_apc[v]) + 1
          BY <1>5, <1>6, <3>1
        <4>2. w = v /\ k = Len(system_apc[v]) + 1
          BY <1>5, <1>6, <2>1, <3>1
        <4> QED BY <4>1, <4>2
      <3>2. CASE system_apc'[u][j] # t
        <4>1. j \in 1..Len(system_apc[u]) /\ system_apc'[u][j] = system_apc[u][j]
          BY <1>6, <3>2
        <4>2. k \in 1..Len(system_apc[w]) /\ system_apc'[w][k] = system_apc[w][k]
          BY <1>6, <2>1, <3>2
        <4> QED BY <2>1, <4>1, <4>2, ApcOnce
      <3> QED BY <3>1, <3>2
    <2> QED BY <2>1 DEF QueuedOnce
  <1>10. QueuedOrRun'
    <2>1. ASSUME NEW u \in Threads, NEW w \in Threads, NEW k \in 1..Len(system_apc'[u]), NEW f \in Frames
          PROVE  system_apc'[u][k] # prev[w][f]
      <3>1. CASE system_apc'[u][k] = t
        BY <1>5, <3>1
      <3>2. CASE k \in 1..Len(system_apc[u]) /\ system_apc'[u][k] = system_apc[u][k]
        BY <3>2 DEF ApcsInv, QueuedOrRun
      <3> QED BY <1>6, <3>1, <3>2
    <2> QED BY <2>1 DEF QueuedOrRun
  <1>11. RunOnce'
    BY DEF ApcsInv, RunOnce
  <1> QED BY <1>4, <1>7, <1>8, <1>9, <1>10, <1>11 DEF ApcsInv

LEMMA QueueSystemApcInv ==
  ASSUME ServerInv, NEW t \in Threads, NEW c \in program[t], QueueSystemApc(t, c)
  PROVE  ServerInv'
  <1> USE ServerParts
  <1> DEFINE live == {k \in DOMAIN c.objs : c.objs[k] \notin dead}
             waiting == {k \in live : InApcWait(c.objs[k])}
             K == IF waiting # {} THEN waiting ELSE live
             v == c.objs[First(K)]
  <1>1. /\ Idle /\ pc[t]["suspend"] = "idle" /\ pc[t]["call"] \in {"idle", "requeue"} /\ c.fn = "queue_system"
        /\ UNCHANGED <<objects, queue, wait, pipe, stolen, suspend, context, changed, prev, alert_sync,
                       armed, dead, program, deadline>>
    BY DEF QueueSystemApc, MayCall, Runs, stops
  <1>2. c.objs \in Seq(Threads)
    BY <1>1, CallFormed DEF WellFormed
  <1>3. "call" \in Frames /\ pc \in [Threads -> [Frames -> Places]] /\ \A g \in Frames : pc[t][g] # "server"
    BY <1>1 DEF Frames, StateInv
  <1>4. CASE live = {}
    <2>1. pc' = [pc EXCEPT ![t]["call"] = "idle"] /\ call' = [call EXCEPT ![t] = NoCall]
          /\ UNCHANGED <<system_apc, sigusr1, todo>>
      BY <1>4 DEF QueueSystemApc
    <2>2. CallsInv' /\ \A u \in Threads : u # t => call'[u] = call[u]
      BY <1>1, <2>1 DEF CallsInv, IsCall
    <2>3. "idle" \in Places \ {"server", "read"} /\ pc[t]["call"] \notin {"server", "read", "apc_wait"}
      BY <1>1 DEF Places
    <2>4. deadline' \in [Threads -> {"none", "later", "past"}] /\ sigusr1' \in [Threads -> BOOLEAN]
      BY <1>1, <2>1 DEF FlagsInv
    <2> DEFINE f == "call"
               x == "idle"
    <2>5. /\ f \in Frames /\ x \in Places \ {"server", "read"} /\ pc' = [pc EXCEPT ![t][f] = x]
          /\ pc[t][f] \notin {"server", "read", "apc_wait"} /\ f # "suspend" /\ x # "handler"
      BY <1>3, <2>1, <2>3
    <2>6. UNCHANGED <<objects, queue, wait, pipe, stolen, suspend, context, changed, system_apc, prev, alert_sync,
                      armed, dead, todo, program>>
      BY <1>1, <2>1
    <2> HIDE DEF live, waiting, f, x
    <2> QED BY <1>3, <2>2, <2>4, <2>5, <2>6, ClientGoes
  <1>5. CASE live # {}
    <2>1. /\ system_apc' = [system_apc EXCEPT ![v] = Append(@, t)]
          /\ sigusr1' = [sigusr1 EXCEPT ![v] = @ \/ waiting = {}]
          /\ todo' = IF system_apc[v] = <<>> THEN <<WakeThread(v)>> ELSE <<>>
          /\ pc' = [pc EXCEPT ![t]["call"] = "apc_wait"]
          /\ call' = [call EXCEPT ![t] = c]
      BY <1>5 DEF QueueSystemApc
    <2>2. v \in Threads
      <3>1. K # {} /\ K \subseteq DOMAIN c.objs
        BY <1>5
      <3>2. DOMAIN c.objs \in SUBSET Nat /\ \A k \in DOMAIN c.objs : c.objs[k] \in Threads
        BY <1>2
      <3> HIDE DEF K
      <3>3. First(K) \in K
        BY <3>1, <3>2, FirstIn
      <3> QED BY <3>1, <3>2, <3>3
    <2> HIDE DEF v, waiting, live, K
    <2>3. pc'[t] = [pc[t] EXCEPT !["call"] = "apc_wait"] /\ \A u \in Threads : u # t => pc'[u] = pc[u]
      BY <1>3, <2>1
    <2>4. pc'[t]["call"] = "apc_wait" /\ pc'[t]["suspend"] = pc[t]["suspend"]
      BY <1>3, <2>3 DEF Frames
    <2>5. ApcsInv' /\ system_apc' \in [Threads -> Seq(Threads)]
      <3>1. \A u \in Threads : pc[u]["call"] = "apc_wait" => pc'[u]["call"] = "apc_wait"
        BY <2>3, <2>4
      <3> QED BY <1>1, <2>1, <2>2, <2>4, <3>1, ApcQueued
    <2>6. "apc_wait" \in Places \ {"server", "read"}
      BY DEF Places
    <2>7. pc' \in [Threads -> [Frames -> Places]] /\ sigusr1' \in [Threads -> BOOLEAN]
      BY <1>3, <2>1, <2>6 DEF StateInv
    <2>8. StateInv' /\ FlagsInv' /\ ObjectsInv'
      BY <1>1, <2>5, <2>7 DEF StateInv, FlagsInv, ObjectsInv, objects
    <2>9. CallsInv' /\ \A u \in Threads : u # t => call'[u] = call[u]
      BY <1>1, <2>1 DEF CallsInv, IsCall
    <2>10. ItemsOK(todo') /\ NoSelect(todo')
      BY <2>1, <2>2, ItemFacts, ItemsFacts
    <2>11. TodoInv' /\ SelectInv'
      <3>1. \A u \in Threads : \A g \in Frames : pc[u][g] # "server"
        BY <1>1, IdleNoServer
      <3>2. \A g \in Frames : pc'[t][g] # "server"
        BY <1>1, <2>4 DEF Frames
      <3>3. \A u \in Threads : \A g \in Frames : pc'[u][g] # "server"
        BY <2>3, <3>1, <3>2
      <3> QED BY <2>10, <3>3, SelectNone DEF TodoInv, ItemsOK
    <2>12. ~HasWait(t, "call")
      BY <1>1, NoWait DEF StacksInv
    <2>13. Goes(t, "call", "apc_wait")
      BY <1>1, <2>3, <2>6, <2>12 DEF Goes, Apart
    <2>14. \A u \in Threads : Moves(u)
      <3>1. \A u \in Threads : u # t => Still(u)
        BY <1>1, <2>3 DEF Still, Apart
      <3> QED BY <1>3, <2>6, <2>13, <3>1 DEF Moves
    <2>15. QueuesInv'
      <3>1. \A u \in Threads : HasWait(u, "call") => HasWait(u, "call")' /\ call'[u] = call[u]
        BY <1>1, <2>9, <2>12 DEF HasWait
      <3> QED BY <1>1, <3>1, QueuesSame
    <2> QED BY <2>5, <2>8, <2>9, <2>11, <2>14, <2>15, Assemble
  <1> QED BY <1>4, <1>5

LEMMA KillThreadInv ==
  ASSUME ServerInv, NEW t \in Threads, NEW c \in program[t], KillThread(t, c)
  PROVE  ServerInv'
  <1> USE ServerParts
  <1> DEFINE d == c.owner
             callers == {system_apc[d][k] : k \in DOMAIN system_apc[d]}
  <1>1. /\ Idle /\ c.fn = "kill" /\ dead' = dead \cup {d} /\ wait' = [wait EXCEPT ![d] = <<>>]
        /\ queue' = [o \in Objs |-> Without(queue[o], {d})] /\ todo' = <<Abandon(d)>>
        /\ context' = [context EXCEPT ![d] = "none"] /\ changed' = [changed EXCEPT ![d] = FALSE]
        /\ system_apc' = [system_apc EXCEPT ![d] = <<>>]
        /\ pc' = [u \in Threads |-> IF u \in callers THEN [pc[u] EXCEPT !["call"] = "requeue"] ELSE pc[u]]
        /\ UNCHANGED <<objects, suspend, alert_sync, armed, program, call, deadline, prev, stolen, sigusr1, pipe>>
    BY DEF KillThread
  <1>2. d \in Threads
    BY <1>1, CallFormed DEF WellFormed
  <1>3. /\ wait \in [Threads -> Seq(Waits)] /\ pc \in [Threads -> [Frames -> Places]]
        /\ system_apc \in [Threads -> Seq(Threads)] /\ queue \in [Objs -> Seq(Threads \X Nat)]
        /\ prev \in [Threads -> [Frames -> Threads \cup {NoOne}]]
    BY DEF StateInv
  <1>4. /\ \A u \in callers : \E k \in 1..Len(system_apc[d]) : system_apc[d][k] = u
        /\ \A u \in callers : u \in Threads /\ pc[u]["call"] = "apc_wait"
    <2>1. DOMAIN system_apc[d] = 1..Len(system_apc[d]) /\ \A k \in 1..Len(system_apc[d]) : system_apc[d][k] \in Threads
      BY <1>2, <1>3
    <2>2. \A k \in 1..Len(system_apc[d]) : pc[system_apc[d][k]]["call"] = "apc_wait"
      BY <1>2 DEF ApcsInv, QueuedWait
    <2> QED BY <2>1, <2>2
  <1> HIDE DEF callers, d
  <1>5. /\ wait' \in [Threads -> Seq(Waits)] /\ wait'[d] = <<>> /\ \A u \in Threads : u # d => wait'[u] = wait[u]
        /\ system_apc' \in [Threads -> Seq(Threads)] /\ system_apc'[d] = <<>>
        /\ \A u \in Threads : u # d => system_apc'[u] = system_apc[u]
    BY <1>1, <1>2, <1>3
  <1>6. "requeue" \in Places \ {"server", "read"} /\ "call" \in Frames
    BY DEF Places, Frames
  <1>7. /\ pc' \in [Threads -> [Frames -> Places]]
        /\ \A u \in callers : pc'[u] = [pc[u] EXCEPT !["call"] = "requeue"]
        /\ \A u \in Threads : u \notin callers => pc'[u] = pc[u]
    BY <1>1, <1>3, <1>4, <1>6
  <1>8. queue' \in [Objs -> Seq(Threads \X Nat)]
    <2>1. \A o \in Objs : Without(queue[o], {d}) \in Seq(Threads \X Nat)
      BY <1>3, WithoutType
    <2> QED BY <1>1, <2>1
  <1>9. StateInv' /\ FlagsInv' /\ ObjectsInv' /\ CallsInv'
    BY <1>1, <1>2, <1>5, <1>7, <1>8 DEF StateInv, FlagsInv, ObjectsInv, objects, CallsInv, IsCall
  <1>10. TodoInv' /\ SelectInv'
    <2>1. ItemsOK(todo') /\ NoSelect(todo')
      BY <1>1, <1>2, ItemFacts, ItemsFacts
    <2>2. \A u \in Threads : \A g \in Frames : pc[u][g] # "server"
      BY <1>1, IdleNoServer
    <2>3. ASSUME NEW u \in Threads, NEW g \in Frames PROVE pc'[u][g] # "server"
      <3>1. CASE u \in callers
        <4>1. pc[u] \in [Frames -> Places] /\ pc'[u] = [pc[u] EXCEPT !["call"] = "requeue"]
          BY <1>3, <1>7, <3>1
        <4>2. pc'[u][g] = IF g = "call" THEN "requeue" ELSE pc[u][g]
          BY <4>1
        <4> QED BY <2>2, <4>2
      <3>2. CASE u \notin callers
        BY <1>7, <2>2, <3>2
      <3> QED BY <3>1, <3>2
    <2> QED BY <2>1, <2>3, SelectNone DEF TodoInv, ItemsOK
  <1>11. ASSUME NEW u \in Threads PROVE Moves(u)
    <2>1. CASE u = d
      <3>1. pc'[d] = pc[d] \/ (pc[d]["call"] = "apc_wait" /\ pc'[d] = [pc[d] EXCEPT !["call"] = "requeue"])
        BY <1>2, <1>4, <1>7
      <3>2. Dies(d)
        BY <1>1, <1>5, <3>1 DEF Dies
      <3> QED BY <2>1, <3>2 DEF Moves
    <2>2. CASE u # d /\ u \in callers
      <3>1. pc[u]["call"] = "apc_wait" /\ pc'[u] = [pc[u] EXCEPT !["call"] = "requeue"]
        BY <1>4, <1>7, <2>2
      <3>2. ~HasWait(u, "call")
        BY <3>1, NoWait DEF StacksInv
      <3>3. Goes(u, "call", "requeue")
        BY <1>1, <1>5, <1>6, <2>2, <3>1, <3>2 DEF Goes, Apart
      <3> QED BY <1>6, <3>3 DEF Moves
    <2>3. CASE u # d /\ u \notin callers
      <3>1. Still(u)
        BY <1>1, <1>5, <1>7, <2>3 DEF Still, Apart
      <3> QED BY <3>1 DEF Moves
    <2> QED BY <2>1, <2>2, <2>3
  <1>12. QueuesInv'
    <2>1. ASSUME NEW o \in Objs, NEW j \in 1..Len(queue'[o]), NEW u, NEW n, u = queue'[o][j][1], n = queue'[o][j][2]
          PROVE  HasWait(u, "call")' /\ n \in DOMAIN WaitObjs(call'[u]) /\ WaitObjs(call'[u])[n] = o
      <3>1. queue'[o] = Without(queue[o], {d})
        BY <1>1
      <3>a. \A i \in 1..Len(Without(queue[o], {d})) :
               \E k \in 1..Len(queue[o]) : Without(queue[o], {d})[i] = queue[o][k] /\ queue[o][k][1] \notin {d}
        <4> DEFINE E == {d}
        <4> HIDE DEF E
        <4>1. \A i \in 1..Len(Without(queue[o], E)) :
                 \E k \in 1..Len(queue[o]) : Without(queue[o], E)[i] = queue[o][k] /\ queue[o][k][1] \notin E
          BY <1>3, WithoutType
        <4> QED BY <4>1 DEF E
      <3>2. PICK k \in 1..Len(queue[o]) : queue'[o][j] = queue[o][k] /\ queue[o][k][1] \notin {d}
        BY <3>1, <3>a
      <3>3. u \in Threads /\ u # d
        <4>1. queue[o][k] \in Threads \X Nat
          BY <1>3, <3>2
        <4> QED BY <2>1, <3>2, <4>1
      <3>4. HasWait(u, "call") /\ n \in DOMAIN WaitObjs(call[u]) /\ WaitObjs(call[u])[n] = o
        BY <2>1, <3>2 DEF QueuesInv, QueueOK
      <3>5. HasWait(u, "call")' /\ call'[u] = call[u]
        BY <1>1, <1>5, <3>3, <3>4 DEF HasWait
      <3> QED BY <3>4, <3>5
    <2> QED BY <2>1, QueuesNext
  <1>13. ApcsInv'
    <2>1. ASSUME NEW u \in Threads, NEW k \in 1..Len(system_apc'[u])
          PROVE  /\ u # d /\ k \in 1..Len(system_apc[u]) /\ system_apc'[u][k] = system_apc[u][k]
                 /\ system_apc[u][k] \in Threads /\ system_apc[u][k] \notin callers
      <3>1. u # d
        BY <1>5
      <3>2. k \in 1..Len(system_apc[u]) /\ system_apc'[u][k] = system_apc[u][k]
        BY <1>5, <3>1
      <3>3. system_apc[u][k] \in Threads
        BY <1>3, <3>2
      <3>4. system_apc[u][k] \notin callers
        <4> SUFFICES ASSUME system_apc[u][k] \in callers PROVE FALSE
          OBVIOUS
        <4>1. PICK j \in 1..Len(system_apc[d]) : system_apc[d][j] = system_apc[u][k]
          BY <1>4
        <4> QED BY <1>2, <3>1, <3>2, <4>1, ApcOnce
      <3> QED BY <3>1, <3>2, <3>3, <3>4
    <2>2. ASSUME NEW u \in Threads, NEW f \in Frames PROVE prev[u][f] \notin callers
      <3> SUFFICES ASSUME prev[u][f] \in callers PROVE FALSE
        OBVIOUS
      <3>1. PICK j \in 1..Len(system_apc[d]) : system_apc[d][j] = prev[u][f]
        BY <1>4
      <3> QED BY <1>2, <3>1 DEF ApcsInv, QueuedOrRun
    <2>3. QueuedWait'
      <3>1. ASSUME NEW u \in Threads, NEW k \in 1..Len(system_apc'[u]) PROVE pc'[system_apc'[u][k]]["call"] = "apc_wait"
        <4>1. pc[system_apc[u][k]]["call"] = "apc_wait"
          BY <2>1 DEF ApcsInv, QueuedWait
        <4> QED BY <1>7, <2>1, <4>1
      <3> QED BY <3>1 DEF QueuedWait
    <2>4. RunWait'
      <3>1. ASSUME NEW u \in Threads, NEW f \in Frames, prev[u][f] # NoOne PROVE pc'[prev[u][f]]["call"] = "apc_wait"
        <4>1. prev[u][f] \in Threads
          BY <1>3, <3>1
        <4>2. pc[prev[u][f]]["call"] = "apc_wait"
          BY <3>1 DEF ApcsInv, RunWait
        <4> QED BY <1>7, <2>2, <4>1, <4>2
      <3> QED BY <1>1, <3>1 DEF RunWait
    <2>5. QueuedOnce'
      <3>1. ASSUME NEW u \in Threads, NEW w \in Threads, NEW j \in 1..Len(system_apc'[u]), NEW k \in 1..Len(system_apc'[w]),
                   system_apc'[u][j] = system_apc'[w][k]
            PROVE  u = w /\ j = k
        <4>1. j \in 1..Len(system_apc[u]) /\ k \in 1..Len(system_apc[w]) /\ system_apc[u][j] = system_apc[w][k]
          BY <2>1, <3>1
        <4> QED BY <4>1, ApcOnce
      <3> QED BY <3>1 DEF QueuedOnce
    <2>6. QueuedOrRun'
      <3>1. ASSUME NEW u \in Threads, NEW w \in Threads, NEW k \in 1..Len(system_apc'[u]), NEW f \in Frames
            PROVE  system_apc'[u][k] # prev[w][f]
        BY <2>1 DEF ApcsInv, QueuedOrRun
      <3> QED BY <1>1, <3>1 DEF QueuedOrRun
    <2>7. RunOnce'
      BY <1>1 DEF ApcsInv, RunOnce
    <2> QED BY <2>3, <2>4, <2>5, <2>6, <2>7 DEF ApcsInv
  <1> QED BY <1>9, <1>10, <1>11, <1>12, <1>13, Assemble

-----------------------------------------------------------------------------
(* The invariant holds.                                                    *)

LEMMA ServerInit == Init => ServerInv
  <1> SUFFICES ASSUME Init PROVE ServerInv
    OBVIOUS
  <1> USE ObjectAssumption, BoundAssumption, NoOneAssumption
  <1>1. ObjectsInv
    BY DEF Init, ObjectsInv
  <1>2. StateInv
    BY DEF Init, StateInv, Places
  <1>3. FlagsInv
    BY DEF Init, FlagsInv
  <1>4. CallsInv /\ TodoInv
    BY DEF Init, CallsInv, IsCall, TodoInv
  <1>5. StacksInv
    BY DEF Init, StacksInv, StackOK, Frames
  <1>6. SelectInv
    BY DEF Init, SelectInv, LastOK, SelectOK
  <1>7. QueuesInv
    BY DEF Init, QueuesInv, QueueOK
  <1>8. RepliesInv
    BY DEF Init, RepliesInv, ReplyOK, Sent, Kept
  <1>9. ApcsInv
    BY DEF Init, ApcsInv, QueuedWait, RunWait, QueuedOnce, QueuedOrRun, RunOnce
  <1> QED BY <1>1, <1>2, <1>3, <1>4, <1>5, <1>6, <1>7, <1>8, <1>9 DEF ServerInv, TypesInv

LEMMA ServerNext == ServerInv /\ [Next]_vars => ServerInv'
  <1> SUFFICES ASSUME ServerInv, [Next]_vars PROVE ServerInv'
    OBVIOUS
  <1>1. CASE UNCHANGED vars
    <2>1. /\ UNCHANGED quiet /\ UNCHANGED <<objects, suspend, context, changed, sigusr1, alert_sync, armed, deadline, todo>>
      BY <1>1 DEF vars, quiet, stops, apcs, client
    <2>2. ObjectsInv' /\ FlagsInv' /\ TodoInv'
      BY <2>1, ServerParts DEF ObjectsInv, objects, FlagsInv, TodoInv
    <2>3. SelectInv'
      BY <2>1, ServerParts DEF quiet, SelectInv, LastOK, SelectOK, Active, LastTodo, HasWait
    <2>4. /\ suspend' \in [Threads -> 0..MaxSuspend] /\ context' \in [Threads -> {"none", "pending", "saved"}]
          /\ changed' \in [Threads -> BOOLEAN] /\ sigusr1' \in [Threads -> BOOLEAN]
      BY <2>1, ServerParts
    <2> QED BY <2>1, <2>2, <2>3, <2>4, Quiet
  <1>2. CASE ServerStep
    <2>1. CASE WakeUpStep
      BY <2>1, WakeUpStepInv
    <2>2. CASE WakeThreadStep
      BY <2>2, WakeThreadStepInv
    <2>3. CASE ResetStep
      BY <2>3, ResetStepInv
    <2>4. CASE AbandonStep
      BY <2>4, AbandonStepInv
    <2>5. ASSUME NEW t \in Threads, SelectEnds(t) \/ SelectWoken(t) \/ SelectPends(t) PROVE ServerInv'
      BY <2>5, SelectEndsInv, SelectWokenInv, SelectPendsInv
    <2> QED BY <1>2, <2>1, <2>2, <2>3, <2>4, <2>5 DEF ServerStep
  <1>3. ASSUME NEW t \in Threads, ClientStep(t) PROVE ServerInv'
    BY <1>3, SelectReqInv, SelectFailsInv, ReadReplyInv, Usr1HandlerInv, DriverAlertedInv DEF ClientStep
  <1>4. ASSUME NEW t \in Threads, TimeStep(t) PROVE ServerInv'
    BY <1>4, ExpireInv, ThreadTimeoutInv, TimerCallbackInv DEF TimeStep
  <1>5. ASSUME NEW t \in Threads, NEW c \in program[t], Requests(t, c) PROVE ServerInv'
    <2>1. CASE BeginWait(t, c) \/ Signal(t, c) \/ ResetEvent(t, c)
      BY <2>1, BeginWaitInv, SignalInv, ResetEventInv
    <2>2. CASE SuspendThread(t, c) \/ ResumeThread(t, c) \/ SetThreadContext(t, c)
      BY <2>2, StopsRequestsInv
    <2>3. CASE QueueUserApc(t, c) \/ SetTimer(t, c) \/ CancelTimerOf(t, c)
      BY <2>3, ApcRequestsInv
    <2>4. CASE QueueSystemApc(t, c)
      BY <2>4, QueueSystemApcInv
    <2>5. CASE KillThread(t, c)
      BY <2>5, KillThreadInv
    <2> QED BY <1>5, <2>1, <2>2, <2>3, <2>4, <2>5 DEF Requests
  <1> QED BY <1>1, <1>2, <1>3, <1>4, <1>5 DEF Next

\* The inductive invariant of the server and its clients: types, stacks of
\* waits, the select under way, wait queues, replies and system APCs.
THEOREM ServerInvariant == Spec => []ServerInv
  BY ServerInit, ServerNext, PTL DEF Spec

\* For every set of threads, objects and calls: semaphores stay within their
\* maximum, a mutex has an owner exactly while it is held, a thread is queued
\* only on objects its call names, and no thread ever has more than two waits
\* (release_semaphore, do_release, select_on).
THEOREM ServerTypes == Spec => []TypeOK
  <1>1. ASSUME ServerInv PROVE TypeOK
    <2>1. ASSUME NEW o \in Objs, NEW k \in DOMAIN queue[o]
          PROVE  queue[o][k][1] \in Threads /\ WaitObjs(call[queue[o][k][1]])[queue[o][k][2]] = o
      <3>1. queue[o] \in Seq(Threads \X Nat)
        BY <1>1, ServerParts DEF StateInv
      <3>2. k \in 1..Len(queue[o]) /\ queue[o][k] \in Threads \X Nat
        BY <3>1
      <3>3. WaitObjs(call[queue[o][k][1]])[queue[o][k][2]] = o
        BY <1>1, <3>2, ServerParts DEF QueuesInv, QueueOK
      <3> QED BY <3>2, <3>3
    <2>2. \A t \in Threads : Len(wait[t]) <= 2
      BY <1>1, ServerParts DEF StacksInv, StackOK
    <2> QED BY <1>1, <2>1, <2>2, ServerParts DEF TypeOK, ObjectsInv, StateInv, FlagsInv
  <1> QED BY <1>1, ServerInvariant, PTL

\* A set of at most one place.
LEMMA AtMostOne ==
  ASSUME NEW K, \A j, k \in K : j = k
  PROVE  Cardinality(K) = IF K = {} THEN 0 ELSE 1
  <1>1. CASE K = {}
    BY <1>1, FS_EmptySet
  <1>2. CASE K # {}
    <2>1. PICK k : K = {k}
      BY <1>2
    <2> QED BY <1>2, <2>1, FS_Singleton
  <1> QED BY <1>1, <1>2

\* For every set of threads, objects and calls: between requests, a frame that
\* reads the pipe has one wait in the server or one reply on its way, never
\* both and never neither, and nothing else is in the pipe (wait_select_reply,
\* send_thread_wakeup).
THEOREM ServerReplies == Spec => []RepliesMatch
  <1>1. ASSUME ServerInv PROVE RepliesMatch
    <2> SUFFICES ASSUME Idle, NEW t \in Threads \ dead, NEW f \in Frames
                 PROVE  LET replies == {k \in DOMAIN (pipe[t] \o stolen[t]) : (pipe[t] \o stolen[t])[k].cookie = f}
                            waits == {k \in DOMAIN wait[t] : wait[t][k].frame = f}
                        IN  Cardinality(replies) + Cardinality(waits) = IF pc[t][f] = "read" THEN 1 ELSE 0
      BY DEF RepliesMatch
    <2> DEFINE s == pipe[t] \o stolen[t]
               replies == {k \in DOMAIN s : s[k].cookie = f}
               waits == {k \in DOMAIN wait[t] : wait[t][k].frame = f}
    <2>1. /\ wait[t] \in Seq(Waits) /\ pipe[t] \in Seq(Replies) /\ stolen[t] \in Seq(Replies)
          /\ Len(pipe[t]) \in Nat /\ Len(stolen[t]) \in Nat /\ Len(wait[t]) \in Nat
          /\ StackOK(t) /\ ReplyOK(t) /\ StateInv /\ SelectInv
      BY <1>1, ServerParts DEF StateInv, StacksInv, RepliesInv
    <2>2. /\ s \in Seq(Replies) /\ Len(s) = Len(pipe[t]) + Len(stolen[t])
          /\ \A k \in 1..Len(pipe[t]) : s[k] = pipe[t][k]
          /\ \A k \in 1..Len(stolen[t]) : s[Len(pipe[t]) + k] = stolen[t][k]
          /\ \A k \in 1..Len(s) :
                k \in 1..Len(pipe[t]) \/ (k - Len(pipe[t]) \in 1..Len(stolen[t]) /\ s[k] = stolen[t][k - Len(pipe[t])])
      <3> DEFINE p == pipe[t]
                 q == stolen[t]
      <3>1. p \in Seq(Replies) /\ q \in Seq(Replies)
        BY <2>1
      <3> HIDE DEF p, q
      <3>2. /\ p \o q \in Seq(Replies) /\ Len(p \o q) = Len(p) + Len(q)
            /\ \A k \in 1..Len(p) : (p \o q)[k] = p[k]
            /\ \A k \in 1..Len(q) : (p \o q)[Len(p) + k] = q[k]
            /\ \A k \in 1..Len(p \o q) :
                  k \in 1..Len(p) \/ (k - Len(p) \in 1..Len(q) /\ (p \o q)[k] = q[k - Len(p)])
        BY <3>1, Join
      <3> QED BY <3>2 DEF p, q
    <2> HIDE DEF s
    <2>3. DOMAIN s = 1..Len(s) /\ DOMAIN wait[t] = 1..Len(wait[t]) /\ 1..Len(s) \subseteq Int
      <3>1. s \in Seq(Replies)
        BY <2>2
      <3>2. Len(s) \in Nat /\ DOMAIN s = 1..Len(s)
        BY <3>1
      <3>3. DOMAIN wait[t] = 1..Len(wait[t])
        BY <2>1
      <3>4. 1..Len(s) \subseteq Int
        BY <3>2
      <3> QED BY <3>2, <3>3, <3>4
    <2>4. waits # {} <=> HasWait(t, f)
      BY <2>3 DEF HasWait
    <2>5. \A j, k \in waits : j = k
      <3> SUFFICES ASSUME NEW j \in 1..Len(wait[t]), NEW k \in 1..Len(wait[t]), wait[t][j].frame = f, wait[t][k].frame = f, j # k
                   PROVE  FALSE
        BY <2>3
      <3>1. Len(wait[t]) = 0 \/ Len(wait[t]) = 1 \/ Len(wait[t]) = 2
        BY <2>1, AtMostTwo DEF StackOK
      <3>2. Len(wait[t]) = 2 /\ ((j = 1 /\ k = 2) \/ (j = 2 /\ k = 1))
        BY <2>1, <3>1
      <3> QED BY <2>1, <3>2 DEF StackOK
    <2>6. replies # {} <=> Sent(t, f) \/ Kept(t, f)
      <3>1. ASSUME NEW k \in replies PROVE Sent(t, f) \/ Kept(t, f)
        BY <2>2, <2>3 DEF Sent, Kept
      <3>2. ASSUME Sent(t, f) PROVE replies # {}
        <4>1. PICK k \in 1..Len(pipe[t]) : pipe[t][k].cookie = f
          BY <3>2 DEF Sent
        <4>2. k \in 1..Len(s)
          BY <2>1, <2>2, Shifts
        <4> QED BY <2>2, <2>3, <4>1, <4>2
      <3>3. ASSUME Kept(t, f) PROVE replies # {}
        <4>1. PICK k \in 1..Len(stolen[t]) : stolen[t][k].cookie = f
          BY <3>3 DEF Kept
        <4>2. Len(pipe[t]) + k \in 1..Len(s)
          BY <2>1, <2>2, Shifts
        <4> QED BY <2>2, <2>3, <4>1, <4>2
      <3> QED BY <3>1, <3>2, <3>3
    <2>7. \A j, k \in replies : j = k
      <3> SUFFICES ASSUME NEW j \in 1..Len(s), NEW k \in 1..Len(s), s[j].cookie = f, s[k].cookie = f PROVE j = k
        BY <2>3
      <3>1. ~(Sent(t, f) /\ Kept(t, f))
        BY <2>1 DEF ReplyOK, Frames
      <3>2. CASE Sent(t, f)
        <4>1. j \in 1..Len(pipe[t]) /\ k \in 1..Len(pipe[t])
          BY <2>2, <3>1, <3>2 DEF Kept
        <4>2. pipe[t][j].cookie = pipe[t][k].cookie
          BY <2>2, <4>1
        <4> QED BY <2>1, <4>1, <4>2 DEF ReplyOK
      <3>3. CASE ~Sent(t, f)
        <4>1. j \notin 1..Len(pipe[t]) /\ k \notin 1..Len(pipe[t])
          BY <2>2, <3>3 DEF Sent
        <4>2. j - Len(pipe[t]) \in 1..Len(stolen[t]) /\ k - Len(pipe[t]) \in 1..Len(stolen[t])
          BY <2>2, <4>1
        <4>3. j - Len(pipe[t]) = 1 /\ k - Len(pipe[t]) = 1
          BY <2>1, <4>2, Shifts DEF ReplyOK
        <4> QED BY <2>1, <2>3, <4>3
      <3> QED BY <3>2, <3>3
    <2> HIDE DEF waits, replies
    <2>8. /\ Cardinality(waits) = IF HasWait(t, f) THEN 1 ELSE 0
          /\ Cardinality(replies) = IF Sent(t, f) \/ Kept(t, f) THEN 1 ELSE 0
      BY <2>4, <2>5, <2>6, <2>7, AtMostOne
    <2>9. pc[t][f] # "server"
      BY <2>1, IdleNoServer
    <2>10. HasWait(t, f) => pc[t][f] = "read"
      BY <2>1, <2>9, NoWait
    <2>11. /\ Sent(t, f) \/ Kept(t, f) => pc[t][f] = "read" /\ ~HasWait(t, f)
           /\ pc[t][f] = "read" => Sent(t, f) \/ Kept(t, f) \/ HasWait(t, f)
      BY <2>1 DEF ReplyOK
    <2>12. Cardinality(replies) + Cardinality(waits) = IF pc[t][f] = "read" THEN 1 ELSE 0
      BY <2>8, <2>10, <2>11
    <2> QED BY <2>12 DEF replies, waits, s
  <1> QED BY <1>1, ServerInvariant, PTL

-----------------------------------------------------------------------------
(* The inductive invariant, second part: threads that have to stop.        *)

\* The handler of the signal is told x.
Answer(t, x) == \E k \in 1..Len(pipe[t]) : pipe[t][k].cookie = "suspend" /\ pipe[t][k].status = x
\* A thread that has to stop has a context; a context has a signal under way or
\* a handler that was not let go; and one that is let go has given it back.
StopOK(t) ==
    t \notin dead =>
        /\ Suspended(t) \/ changed[t] => context[t] # "none"
        /\ context[t] # "none" => sigusr1[t] \/ (pc[t]["suspend"] # "idle" /\ ~Answer(t, "timeout"))
        /\ pc[t]["suspend"] \in {"idle", "handler"} \/ Answer(t, "timeout") => context[t] # "saved"
        /\ \A x \in Statuses : Answer(t, x) => x \in {"kernel_apc", "timeout"}
StopsInv == \A t \in Threads : StopOK(t)

\* What a step that stops nobody does to a thread.
StopSame(u) ==
    /\ u \notin dead' => u \notin dead
    /\ Suspended(u)' => Suspended(u)
    /\ changed'[u] = changed[u] /\ context'[u] = context[u] /\ (sigusr1[u] => sigusr1'[u])
    /\ \A x \in Statuses : Answer(u, x)' <=> Answer(u, x)
    /\ \/ pc'[u]["suspend"] = pc[u]["suspend"]
       \/ pc[u]["suspend"] \notin {"idle", "handler"} /\ pc'[u]["suspend"] \notin {"idle", "handler"}

LEMMA SameStops == ASSUME NEW u \in Threads, StopOK(u), StopSame(u) PROVE StopOK(u)'
  <1>1. "timeout" \in Statuses
    BY DEF Statuses
  <1> QED BY <1>1 DEF StopOK, StopSame

LEMMA AnswerKept == ASSUME NEW u, pipe'[u] = pipe[u] PROVE \A x : Answer(u, x)' <=> Answer(u, x)
  BY DEF Answer

LEMMA AnswerSent ==
  ASSUME StateInv, NEW u \in Threads, NEW r \in Replies, pipe'[u] = Append(pipe[u], r)
  PROVE  \A x : Answer(u, x)' <=> Answer(u, x) \/ (r.cookie = "suspend" /\ r.status = x)
  <1>1. pipe[u] \in Seq(Replies) /\ Len(pipe[u]) \in Nat
    BY DEF StateInv
  <1>2. /\ Len(pipe'[u]) = Len(pipe[u]) + 1 /\ pipe'[u][Len(pipe[u]) + 1] = r
        /\ \A k \in 1..Len(pipe[u]) : pipe'[u][k] = pipe[u][k]
        /\ \A k \in 1..Len(pipe'[u]) : k = Len(pipe[u]) + 1 \/ k \in 1..Len(pipe[u])
    BY <1>1, Snoc
  <1>3. Len(pipe[u]) + 1 \in 1..Len(pipe'[u]) /\ \A k \in 1..Len(pipe[u]) : k \in 1..Len(pipe'[u])
    BY <1>1, <1>2
  <1> TAKE x
  <1>4. ASSUME Answer(u, x)' PROVE Answer(u, x) \/ (r.cookie = "suspend" /\ r.status = x)
    <2>1. PICK k \in 1..Len(pipe'[u]) : pipe'[u][k].cookie = "suspend" /\ pipe'[u][k].status = x
      BY <1>4 DEF Answer
    <2>2. CASE k = Len(pipe[u]) + 1
      BY <1>2, <2>1, <2>2
    <2>3. CASE k \in 1..Len(pipe[u])
      BY <1>2, <2>1, <2>3 DEF Answer
    <2> QED BY <1>2, <2>2, <2>3
  <1>5. ASSUME Answer(u, x) PROVE Answer(u, x)'
    BY <1>2, <1>3, <1>5 DEF Answer
  <1>6. ASSUME r.cookie = "suspend", r.status = x PROVE Answer(u, x)'
    BY <1>2, <1>3, <1>6 DEF Answer
  <1> QED BY <1>4, <1>5, <1>6

\* The handler is told only while it reads.
LEMMA NoAnswer ==
  ASSUME RepliesInv, NEW u \in Threads, pc[u]["suspend"] # "read"
  PROVE  \A x : ~Answer(u, x)
  <1>1. ReplyOK(u) /\ "suspend" \in Frames
    BY DEF RepliesInv, Frames
  <1> QED BY <1>1 DEF ReplyOK, Sent, Answer

-----------------------------------------------------------------------------
(* Steps that stop nobody.                                                 *)

LEMMA StopQuiet ==
  ASSUME StopsInv, UNCHANGED <<suspend, changed, context, pipe, dead>>,
         \A u \in Threads : sigusr1[u] => sigusr1'[u],
         \A u \in Threads : pc'[u]["suspend"] = pc[u]["suspend"]
  PROVE  StopsInv'
  <1>1. ASSUME NEW u \in Threads PROVE StopOK(u)'
    <2>1. \A x : Answer(u, x)' <=> Answer(u, x)
      BY AnswerKept
    <2>2. StopSame(u)
      BY <2>1 DEF StopSame, Suspended
    <2> QED BY <2>2, SameStops DEF StopsInv
  <1> QED BY <1>1 DEF StopsInv

\* The frame of the call goes on.
LEMMA CallFrame ==
  ASSUME StateInv, NEW t \in Threads, NEW x, pc' = [pc EXCEPT ![t]["call"] = x]
  PROVE  \A u \in Threads : pc'[u]["suspend"] = pc[u]["suspend"]
  <1>1. pc \in [Threads -> [Frames -> Places]] /\ "call" \in Frames /\ "suspend" \in Frames /\ "call" # "suspend"
    BY DEF StateInv, Frames
  <1>2. pc'[t] = [pc[t] EXCEPT !["call"] = x] /\ \A u \in Threads : u # t => pc'[u] = pc[u]
    BY <1>1
  <1>3. pc'[t]["suspend"] = pc[t]["suspend"]
    BY <1>1, <1>2
  <1> QED BY <1>2, <1>3

LEMMA QuietStepsStop ==
  ASSUME ServerInv, StopsInv, WakeUpStep \/ ResetStep \/ AbandonStep
  PROVE  StopsInv'
  <1>1. UNCHANGED <<suspend, changed, context, pipe, dead, sigusr1, pc>>
    BY DEF WakeUpStep, ResetStep, AbandonStep, stops, client
  <1> QED BY <1>1, StopQuiet

LEMMA CallStepsStop ==
  ASSUME ServerInv, StopsInv, NEW t \in Threads,
         SelectFails(t) \/ SelectWoken(t) \/ DriverAlerted(t) \/ Expire(t) \/ TimerCallback(t)
  PROVE  StopsInv'
  <1> USE ServerParts
  <1>1. UNCHANGED <<suspend, changed, context, pipe, dead, sigusr1>>
    BY DEF SelectFails, SelectWoken, DriverAlerted, Expire, TimerCallback, stops
  <1>2. CASE Expire(t) \/ TimerCallback(t)
    <2>1. UNCHANGED pc
      BY <1>2 DEF Expire, TimerCallback, client
    <2> QED BY <1>1, <2>1, StopQuiet
  <1>3. CASE SelectFails(t) \/ SelectWoken(t) \/ DriverAlerted(t)
    <2>1. \E x : pc' = [pc EXCEPT ![t]["call"] = x]
      BY <1>3 DEF SelectFails, SelectWoken, DriverAlerted, Returned
    <2>2. \A u \in Threads : pc'[u]["suspend"] = pc[u]["suspend"]
      BY <2>1, CallFrame
    <2> QED BY <1>1, <2>2, StopQuiet
  <1> QED BY <1>2, <1>3

LEMMA RequestsStop ==
  ASSUME ServerInv, StopsInv, NEW t \in Threads, NEW c \in program[t],
         \/ BeginWait(t, c) \/ Signal(t, c) \/ ResetEvent(t, c)
         \/ QueueUserApc(t, c) \/ SetTimer(t, c) \/ CancelTimerOf(t, c)
  PROVE  StopsInv'
  <1> USE ServerParts
  <1>1. CASE BeginWait(t, c)
    <2>1. UNCHANGED <<suspend, changed, context, pipe, dead, sigusr1>> /\ \E x : pc' = [pc EXCEPT ![t]["call"] = x]
      BY <1>1 DEF BeginWait, stops
    <2>2. \A u \in Threads : pc'[u]["suspend"] = pc[u]["suspend"]
      BY <2>1, CallFrame
    <2> QED BY <2>1, <2>2, StopQuiet
  <1>2. CASE Signal(t, c) \/ ResetEvent(t, c) \/ QueueUserApc(t, c) \/ SetTimer(t, c) \/ CancelTimerOf(t, c)
    <2>1. UNCHANGED <<suspend, changed, context, pipe, dead, sigusr1, pc>>
      BY <1>2 DEF Signal, ResetEvent, QueueUserApc, SetTimer, CancelTimerOf, stops, client
    <2> QED BY <2>1, StopQuiet
  <1> QED BY <1>1, <1>2

LEMMA QueueSystemApcStop ==
  ASSUME ServerInv, StopsInv, NEW t \in Threads, NEW c \in program[t], QueueSystemApc(t, c)
  PROVE  StopsInv'
  <1> USE ServerParts
  <1>1. UNCHANGED <<suspend, changed, context, pipe, dead>> /\ \E x : pc' = [pc EXCEPT ![t]["call"] = x]
    BY DEF QueueSystemApc, stops
  <1>2. \A u \in Threads : pc'[u]["suspend"] = pc[u]["suspend"]
    BY <1>1, CallFrame
  <1>3. \A u \in Threads : sigusr1[u] => sigusr1'[u]
    BY DEF QueueSystemApc, StateInv
  <1> QED BY <1>1, <1>2, <1>3, StopQuiet

\* kill_thread: the rest of the threads goes on as before.
LEMMA KillThreadStop ==
  ASSUME ServerInv, StopsInv, NEW t \in Threads, NEW c \in program[t], KillThread(t, c)
  PROVE  StopsInv'
  <1> USE ServerParts
  <1> DEFINE d == c.owner
             callers == {system_apc[d][k] : k \in DOMAIN system_apc[d]}
  <1>1. /\ c.fn = "kill" /\ dead' = dead \cup {d} /\ UNCHANGED <<suspend, sigusr1, pipe>>
        /\ context' = [context EXCEPT ![d] = "none"] /\ changed' = [changed EXCEPT ![d] = FALSE]
        /\ pc' = [u \in Threads |-> IF u \in callers THEN [pc[u] EXCEPT !["call"] = "requeue"] ELSE pc[u]]
    BY DEF KillThread
  <1>2. d \in Threads
    BY <1>1, CallFormed DEF WellFormed
  <1> HIDE DEF d, callers
  <1>3. ASSUME NEW u \in Threads PROVE StopOK(u)'
    <2>1. CASE u = d
      BY <1>1, <2>1 DEF StopOK
    <2>2. CASE u # d
      <3>1. context'[u] = context[u] /\ changed'[u] = changed[u]
        BY <1>1, <2>2
      <3>2. pc[u] \in [Frames -> Places] /\ "suspend" \in Frames /\ "call" # "suspend"
        BY DEF StateInv, Frames
      <3>3. pc'[u]["suspend"] = pc[u]["suspend"]
        <4>1. pc'[u] = IF u \in callers THEN [pc[u] EXCEPT !["call"] = "requeue"] ELSE pc[u]
          BY <1>1
        <4> QED BY <3>2, <4>1
      <3>4. \A x : Answer(u, x)' <=> Answer(u, x)
        BY <1>1, AnswerKept
      <3>5. StopSame(u)
        BY <1>1, <3>1, <3>3, <3>4 DEF StopSame, Suspended
      <3> QED BY <3>5, SameStops DEF StopsInv
    <2> QED BY <2>1, <2>2
  <1> QED BY <1>3 DEF StopsInv

-----------------------------------------------------------------------------
(* Threads are stopped and let go.                                         *)

LEMMA StopThreadStop ==
  ASSUME StateInv, StopsInv, NEW u \in Threads, u \notin dead, StopThread(u), UNCHANGED <<pipe, dead, pc>>,
         \A w \in Threads : w # u => suspend'[w] = suspend[w] /\ changed'[w] = changed[w]
  PROVE  StopsInv'
  <1>1. /\ context \in [Threads -> {"none", "pending", "saved"}] /\ sigusr1 \in [Threads -> BOOLEAN]
        /\ context' = [context EXCEPT ![u] = IF @ = "none" THEN "pending" ELSE @]
        /\ sigusr1' = [sigusr1 EXCEPT ![u] = @ \/ context[u] = "none"]
    BY DEF StateInv, StopThread
  <1>2. \A w \in Threads : \A x : Answer(w, x)' <=> Answer(w, x)
    BY AnswerKept
  <1>3. StopOK(u)'
    <2>1. /\ context'[u] # "none" /\ (context[u] # "none" => context'[u] = context[u] /\ (sigusr1[u] => sigusr1'[u]))
          /\ (context[u] = "none" => context'[u] = "pending" /\ sigusr1'[u])
      BY <1>1
    <2>2. StopOK(u)
      BY DEF StopsInv
    <2> QED BY <1>2, <2>1, <2>2 DEF StopOK
  <1>4. ASSUME NEW w \in Threads, w # u PROVE StopOK(w)'
    <2>1. context'[w] = context[w] /\ sigusr1'[w] = sigusr1[w] /\ suspend'[w] = suspend[w] /\ changed'[w] = changed[w]
      BY <1>1, <1>4
    <2>2. StopSame(w)
      BY <1>2, <2>1 DEF StopSame, Suspended
    <2> QED BY <2>2, SameStops DEF StopsInv
  <1> QED BY <1>3, <1>4 DEF StopsInv

LEMMA SuspendThreadStop ==
  ASSUME ServerInv, StopsInv, NEW t \in Threads, NEW c \in program[t], SuspendThread(t, c)
  PROVE  StopsInv'
  <1> USE ServerParts
  <1> DEFINE v == c.owner
  <1>1. /\ c.fn = "suspend" /\ v \notin dead /\ suspend' = [suspend EXCEPT ![v] = @ + 1]
        /\ IF Suspended(v) THEN UNCHANGED <<context, sigusr1>> ELSE StopThread(v)
        /\ UNCHANGED <<changed, pipe, dead, pc>>
    BY DEF SuspendThread, client
  <1>2. v \in Threads
    BY <1>1, CallFormed DEF WellFormed
  <1> HIDE DEF v
  <1>3. \A w \in Threads : w # v => suspend'[w] = suspend[w]
    BY <1>1
  <1>4. CASE ~Suspended(v)
    BY <1>1, <1>2, <1>3, <1>4, StopThreadStop
  <1>5. CASE Suspended(v)
    <2>1. \A w \in Threads : \A x : Answer(w, x)' <=> Answer(w, x)
      BY <1>1, AnswerKept
    <2>2. ASSUME NEW w \in Threads PROVE StopSame(w)
      <3>1. Suspended(w)' => Suspended(w)
        BY <1>3, <1>5 DEF Suspended
      <3> QED BY <1>1, <1>5, <2>1, <3>1 DEF StopSame
    <2> QED BY <2>2, SameStops DEF StopsInv
  <1> QED BY <1>4, <1>5

LEMMA SetThreadContextStop ==
  ASSUME ServerInv, StopsInv, NEW t \in Threads, NEW c \in program[t], SetThreadContext(t, c)
  PROVE  StopsInv'
  <1> USE ServerParts
  <1> DEFINE v == c.owner
  <1>1. /\ c.fn = "set_context" /\ v \notin dead /\ changed' = [changed EXCEPT ![v] = TRUE] /\ StopThread(v)
        /\ UNCHANGED <<suspend, pipe, dead, pc>>
    BY DEF SetThreadContext, client
  <1>2. v \in Threads
    BY <1>1, CallFormed DEF WellFormed
  <1> HIDE DEF v
  <1>3. \A w \in Threads : w # v => changed'[w] = changed[w]
    BY <1>1
  <1> QED BY <1>1, <1>2, <1>3, StopThreadStop

LEMMA ResumeThreadStop ==
  ASSUME ServerInv, StopsInv, NEW t \in Threads, NEW c \in program[t], ResumeThread(t, c)
  PROVE  StopsInv'
  <1> USE ServerParts
  <1> DEFINE v == c.owner
  <1>1. /\ suspend[v] > 0 /\ suspend' = [suspend EXCEPT ![v] = @ - 1]
        /\ UNCHANGED <<context, changed, sigusr1, pipe, dead, pc>>
    BY DEF ResumeThread, client
  <1> HIDE DEF v
  <1>2. \A w \in Threads : \A x : Answer(w, x)' <=> Answer(w, x)
    BY <1>1, AnswerKept
  <1>3. ASSUME NEW w \in Threads PROVE StopSame(w)
    <2>1. Suspended(w)' => Suspended(w)
      BY <1>1, ServerParts DEF Suspended
    <2> QED BY <1>1, <1>2, <2>1 DEF StopSame
  <1> QED BY <1>3, SameStops DEF StopsInv

\* The handler starts: the signal is spent, and no reply is under way yet.
LEMMA Usr1HandlerStop ==
  ASSUME ServerInv, StopsInv, NEW t \in Threads, Usr1Handler(t)
  PROVE  StopsInv'
  <1> USE ServerParts
  <1>1. /\ pc[t]["suspend"] = "idle" /\ sigusr1' = [sigusr1 EXCEPT ![t] = FALSE]
        /\ pc' = [pc EXCEPT ![t]["suspend"] = "handler"] /\ UNCHANGED <<suspend, changed, context, pipe, dead>>
    BY DEF Usr1Handler, Runs, stops
  <1>2. pc \in [Threads -> [Frames -> Places]] /\ "suspend" \in Frames
    BY DEF StateInv, Frames
  <1>3. pc'[t]["suspend"] = "handler" /\ \A u \in Threads : u # t => pc'[u] = pc[u]
    BY <1>1, <1>2
  <1>4. \A u \in Threads : \A x : Answer(u, x)' <=> Answer(u, x)
    BY <1>1, AnswerKept
  <1>5. StopOK(t)'
    <2>1. \A x : ~Answer(t, x)
      BY <1>1, NoAnswer
    <2>2. StopOK(t)
      BY DEF StopsInv
    <2> QED BY <1>1, <1>3, <1>4, <2>1, <2>2 DEF StopOK, Suspended
  <1>6. ASSUME NEW u \in Threads, u # t PROVE StopOK(u)'
    <2>1. sigusr1'[u] = sigusr1[u] /\ pc'[u] = pc[u]
      BY <1>1, <1>3, <1>6
    <2>2. StopSame(u)
      BY <1>1, <1>4, <2>1 DEF StopSame, Suspended
    <2> QED BY <2>2, SameStops DEF StopsInv
  <1> QED BY <1>5, <1>6 DEF StopsInv

\* The handler's request stores the context.
LEMMA SelectStop ==
  ASSUME ServerInv, StopsInv, NEW t \in Threads, Select(t)
  PROVE  StopsInv'
  <1> USE ServerParts
  <1> DEFINE f == Active(t)
             c == prev[t][f]
  <1>1. /\ pc[t][f] \in {"select", "again", "handler"}
        /\ pc' = [u \in Threads |-> IF u = t THEN [pc[t] EXCEPT ![f] = "server"]
                                    ELSE IF u = c THEN [pc[u] EXCEPT !["call"] = "idle"] ELSE pc[u]]
        /\ context' = [context EXCEPT ![t] = IF pc[t][f] = "handler" THEN "saved" ELSE @]
        /\ UNCHANGED <<suspend, changed, sigusr1, pipe, dead>>
    BY DEF Select, StorePrevApc
  <1>2. f \in Frames /\ (f = "call" \/ f = "suspend") /\ (f = "call" => pc[t]["suspend"] = "idle")
    BY DEF Active, Frames
  <1> HIDE DEF f, c
  <1>3. pc \in [Threads -> [Frames -> Places]] /\ "suspend" \in Frames /\ "call" # "suspend"
    BY DEF StateInv, Frames
  <1>4. pc'[t] = [pc[t] EXCEPT ![f] = "server"] /\ pc[t] \in [Frames -> Places]
    BY <1>1, <1>3
  <1>5. \A u \in Threads : \A x : Answer(u, x)' <=> Answer(u, x)
    BY <1>1, AnswerKept
  <1>6. ASSUME NEW u \in Threads, u # t PROVE StopOK(u)'
    <2>1. context'[u] = context[u]
      BY <1>1, <1>6
    <2>2. pc'[u]["suspend"] = pc[u]["suspend"]
      <3>1. pc'[u] = (IF u = c THEN [pc[u] EXCEPT !["call"] = "idle"] ELSE pc[u]) /\ pc[u] \in [Frames -> Places]
        BY <1>1, <1>3, <1>6
      <3> QED BY <1>3, <3>1
    <2>3. StopSame(u)
      BY <1>1, <1>5, <2>1, <2>2 DEF StopSame, Suspended
    <2> QED BY <2>3, SameStops DEF StopsInv
  <1>7. StopOK(t) /\ pc[t]["call"] # "handler"
    BY DEF StopsInv, StacksInv, StackOK
  <1>8. CASE f = "call"
    <2>1. pc'[t]["suspend"] = pc[t]["suspend"]
      BY <1>3, <1>4, <1>8
    <2>2. context'[t] = context[t]
      BY <1>1, <1>7, <1>8
    <2>3. StopSame(t)
      BY <1>1, <1>5, <2>1, <2>2 DEF StopSame, Suspended
    <2>4. StopOK(t)'
      BY <1>7, <2>3, SameStops
    <2> QED BY <1>6, <2>4 DEF StopsInv
  <1>9. CASE f = "suspend"
    <2>1. pc'[t]["suspend"] = "server"
      BY <1>3, <1>4, <1>9
    <2>2. \A x : ~Answer(t, x)
      BY <1>1, <1>9, NoAnswer
    <2>3. (pc[t]["suspend"] # "handler" /\ context'[t] = context[t]) \/ (pc[t]["suspend"] = "handler" /\ context'[t] = "saved")
      BY <1>1, <1>9
    <2>4. StopOK(t)'
      <3>1. CASE pc[t]["suspend"] # "handler" /\ context'[t] = context[t]
        BY <1>1, <1>5, <1>7, <1>9, <2>1, <2>2, <3>1 DEF StopOK, Suspended
      <3>2. CASE pc[t]["suspend"] = "handler" /\ context'[t] = "saved"
        BY <1>1, <1>5, <1>7, <2>1, <2>2, <3>2 DEF StopOK, Suspended
      <3> QED BY <2>3, <3>1, <3>2
    <2> QED BY <1>6, <2>4 DEF StopsInv
  <1> QED BY <1>2, <1>8, <1>9

LEMMA SelectPendsStop ==
  ASSUME ServerInv, StopsInv, NEW t \in Threads, SelectPends(t)
  PROVE  StopsInv'
  <1> USE ServerParts
  <1> DEFINE f == Active(t)
  <1>1. /\ Doing("select") /\ Head(todo).thread = t /\ pc' = [pc EXCEPT ![t][f] = "read"]
        /\ UNCHANGED <<suspend, changed, context, sigusr1, pipe, dead>>
    BY DEF SelectPends, stops
  <1>2. f \in Frames /\ pc[t][f] = "server"
    BY <1>1, SelectDone
  <1> HIDE DEF f
  <1>3. pc \in [Threads -> [Frames -> Places]] /\ "suspend" \in Frames
    BY DEF StateInv, Frames
  <1>4. pc'[t] = [pc[t] EXCEPT ![f] = "read"] /\ pc[t] \in [Frames -> Places] /\ \A u \in Threads : u # t => pc'[u] = pc[u]
    BY <1>1, <1>3
  <1>5. \/ pc'[t]["suspend"] = pc[t]["suspend"]
        \/ pc[t]["suspend"] = "server" /\ pc'[t]["suspend"] = "read"
    BY <1>2, <1>3, <1>4
  <1>6. ASSUME NEW u \in Threads PROVE StopOK(u)'
    <2>1. \A x : Answer(u, x)' <=> Answer(u, x)
      BY <1>1, AnswerKept
    <2>2. \/ pc'[u]["suspend"] = pc[u]["suspend"]
          \/ pc[u]["suspend"] = "server" /\ pc'[u]["suspend"] = "read"
      BY <1>4, <1>5
    <2>3. StopSame(u)
      BY <1>1, <2>1, <2>2 DEF StopSame, Suspended
    <2> QED BY <2>3, SameStops DEF StopsInv
  <1> QED BY <1>6 DEF StopsInv

\* The reply that ends wait_suspend gives the context back.
LEMMA SelectEndsStop ==
  ASSUME ServerInv, StopsInv, NEW t \in Threads, SelectEnds(t)
  PROVE  StopsInv'
  <1> USE ServerParts
  <1> DEFINE f == Active(t)
             v == CheckWait(t)
             E == Ends(t, v)
             r == [cookie |-> "call", status |-> v.status, index |-> v.index]
  <1>1. /\ Doing("select") /\ Head(todo).thread = t /\ CanEnd(t) /\ wait[t] # <<>>
        /\ pipe' = [u \in Threads |-> IF u \notin E \ {t} THEN pipe[u] ELSE Append(pipe[u], r)]
        /\ UNCHANGED <<suspend, dead, sigusr1>>
    BY DEF SelectEnds, CanEnd
  <1>2. f \in Frames /\ pc[t][f] = "server" /\ Head(wait[t]).frame = f
    BY <1>1, SelectDone
  <1>3. /\ v.status \in Statuses /\ v.index \in Nat /\ (v.status # "kernel_apc" => ~Suspended(t))
        /\ f = "suspend" => v.status \in {"kernel_apc", "timeout"}
    BY <1>1, <1>2, CheckEnds
  <1>4. \E x \in {"again", "idle", "abort"} : pc' = [pc EXCEPT ![t][f] = x] /\ (v.status = "kernel_apc" => x = "again")
    BY DEF SelectEnds, Returned
  <1>5. /\ v.status = "kernel_apc" => UNCHANGED <<context, changed>>
        /\ v.status # "kernel_apc" => /\ context' = [context EXCEPT ![t] = IF f = "suspend" THEN "none" ELSE @]
                                      /\ changed' = [changed EXCEPT ![t] = IF f = "suspend" THEN FALSE ELSE @]
    BY DEF SelectEnds
  <1> HIDE DEF f, v, E
  <1>6. r \in Replies /\ r.cookie = "call"
    BY <1>3 DEF Replies, Frames
  <1> HIDE DEF r
  <1>7. ASSUME NEW u \in Threads PROVE \A x : Answer(u, x)' <=> Answer(u, x)
    <2>1. CASE pipe'[u] = pipe[u]
      BY <2>1, AnswerKept
    <2>2. CASE pipe'[u] = Append(pipe[u], r)
      <3>1. \A x : Answer(u, x)' <=> Answer(u, x) \/ (r.cookie = "suspend" /\ r.status = x)
        BY <1>6, <2>2, AnswerSent
      <3> QED BY <1>6, <3>1
    <2> QED BY <1>1, <2>1, <2>2
  <1>8. PICK x \in {"again", "idle", "abort"} : pc' = [pc EXCEPT ![t][f] = x] /\ (v.status = "kernel_apc" => x = "again")
    BY <1>4
  <1>9. pc \in [Threads -> [Frames -> Places]] /\ "suspend" \in Frames /\ context \in [Threads -> {"none", "pending", "saved"}]
        /\ changed \in [Threads -> BOOLEAN]
    BY DEF StateInv, Frames
  <1>10. pc'[t] = [pc[t] EXCEPT ![f] = x] /\ pc[t] \in [Frames -> Places] /\ \A u \in Threads : u # t => pc'[u] = pc[u]
    BY <1>8, <1>9
  <1>11. ASSUME NEW u \in Threads, u # t PROVE StopOK(u)'
    <2>1. context'[u] = context[u] /\ changed'[u] = changed[u] /\ pc'[u] = pc[u]
      BY <1>5, <1>9, <1>10, <1>11
    <2>2. StopSame(u)
      BY <1>1, <1>7, <2>1 DEF StopSame, Suspended
    <2> QED BY <2>2, SameStops DEF StopsInv
  <1>12. StopOK(t) /\ t \in Threads
    BY DEF StopsInv
  <1>13. CASE v.status = "kernel_apc" \/ f # "suspend"
    <2>1. context'[t] = context[t] /\ changed'[t] = changed[t]
      BY <1>5, <1>9, <1>13
    <2>2. \/ pc'[t]["suspend"] = pc[t]["suspend"]
          \/ pc[t]["suspend"] = "server" /\ pc'[t]["suspend"] = "again"
      BY <1>2, <1>8, <1>9, <1>10, <1>13
    <2>3. StopSame(t)
      BY <1>1, <1>7, <2>1, <2>2 DEF StopSame, Suspended
    <2>4. StopOK(t)'
      BY <1>12, <2>3, SameStops
    <2> QED BY <1>11, <2>4 DEF StopsInv
  <1>14. CASE v.status # "kernel_apc" /\ f = "suspend"
    <2>1. context'[t] = "none" /\ changed'[t] = FALSE /\ ~Suspended(t) /\ suspend' = suspend
      BY <1>1, <1>3, <1>5, <1>9, <1>14
    <2>2. StopOK(t)'
      BY <1>1, <1>7, <1>12, <2>1 DEF StopOK, Suspended
    <2> QED BY <1>11, <2>2 DEF StopsInv
  <1> QED BY <1>13, <1>14

\* A reply leaves the pipe; what goes back into it is for the call.
LEMMA AnswerRead ==
  ASSUME StateInv, RepliesInv, NEW u \in Threads, pipe[u] # <<>>,
         pipe'[u] = Tail(pipe[u]) \/ pipe'[u] = Tail(pipe[u]) \o stolen[u]
  PROVE  /\ \A x : Answer(u, x)' => Answer(u, x)
         /\ Head(pipe[u]).cookie # "suspend" => \A x : Answer(u, x) => Answer(u, x)'
         /\ Head(pipe[u]).cookie = "suspend" => (\A x : ~Answer(u, x)') /\ Answer(u, Head(pipe[u]).status)
  <1> DEFINE p == Tail(pipe[u])
             q == stolen[u]
  <1>1. /\ pipe[u] \in Seq(Replies) /\ q \in Seq(Replies) /\ ReplyOK(u)
    BY DEF StateInv, RepliesInv
  <1>2. /\ Len(pipe[u]) \in Nat /\ Len(pipe[u]) >= 1 /\ pipe[u][1] = Head(pipe[u])
        /\ p \in Seq(Replies) /\ Len(p) = Len(pipe[u]) - 1 /\ Len(p) \in Nat
        /\ \A k \in 1..Len(p) : k + 1 \in 1..Len(pipe[u]) /\ p[k] = pipe[u][k + 1]
    BY <1>1, HeadTail
  <1>3. \A k \in 1..Len(q) : q[k].cookie # "suspend"
    BY <1>1 DEF ReplyOK, Kept
  <1>4. pipe'[u] = p \/ pipe'[u] = p \o q
    OBVIOUS
  <1> HIDE DEF p, q
  <1>5. /\ \A k \in 1..Len(p) : k \in 1..Len(pipe'[u]) /\ pipe'[u][k] = p[k]
        /\ \A k \in 1..Len(pipe'[u]) : k \in 1..Len(p) \/ pipe'[u][k].cookie # "suspend"
    <2>1. CASE pipe'[u] = p
      BY <2>1
    <2>2. CASE pipe'[u] = p \o q
      <3>1. /\ Len(p \o q) = Len(p) + Len(q) /\ \A k \in 1..Len(p) : (p \o q)[k] = p[k]
            /\ \A k \in 1..Len(p \o q) : k \in 1..Len(p) \/ (k - Len(p) \in 1..Len(q) /\ (p \o q)[k] = q[k - Len(p)])
        <4>1. p \in Seq(Replies) /\ q \in Seq(Replies)
          BY <1>1, <1>2
        <4> QED BY <4>1, Join
      <3>2. \A k \in 1..Len(p) : k \in 1..Len(p \o q)
        <4>1. Len(p) \in Nat /\ Len(q) \in Nat
          BY <1>1, <1>2
        <4> QED BY <3>1, <4>1, Shifts
      <3> QED BY <1>3, <2>2, <3>1, <3>2
    <2> QED BY <1>4, <2>1, <2>2
  <1>6. ASSUME NEW x, Answer(u, x)'
        PROVE  \E k \in 2..Len(pipe[u]) : pipe[u][k].cookie = "suspend" /\ pipe[u][k].status = x
    <2>1. PICK k \in 1..Len(pipe'[u]) : pipe'[u][k].cookie = "suspend" /\ pipe'[u][k].status = x
      BY <1>6 DEF Answer
    <2>2. k \in 1..Len(p) /\ pipe'[u][k] = p[k]
      BY <1>5, <2>1
    <2>3. k + 1 \in 2..Len(pipe[u]) /\ p[k] = pipe[u][k + 1]
      BY <1>2, <2>2
    <2> QED BY <2>1, <2>2, <2>3
  <1>7. \A k \in 2..Len(pipe[u]) : k \in 1..Len(pipe[u]) /\ k # 1 /\ k - 1 \in 1..Len(p) /\ (k - 1) + 1 = k
    BY <1>2
  <1>8. ASSUME NEW x, Answer(u, x)' PROVE Answer(u, x)
    BY <1>6, <1>7, <1>8 DEF Answer
  <1>9. ASSUME Head(pipe[u]).cookie # "suspend", NEW x, Answer(u, x) PROVE Answer(u, x)'
    <2>1. PICK k \in 1..Len(pipe[u]) : pipe[u][k].cookie = "suspend" /\ pipe[u][k].status = x
      BY <1>9 DEF Answer
    <2>2. k # 1
      BY <1>2, <1>9, <2>1
    <2>3. k - 1 \in 1..Len(p) /\ (k - 1) + 1 = k
      BY <1>2, <2>2
    <2>4. p[k - 1] = pipe[u][k]
      BY <1>2, <2>3
    <2>5. k - 1 \in 1..Len(pipe'[u]) /\ pipe'[u][k - 1] = pipe[u][k]
      BY <1>5, <2>3, <2>4
    <2> QED BY <2>1, <2>5 DEF Answer
  <1>10. ASSUME Head(pipe[u]).cookie = "suspend" PROVE (\A x : ~Answer(u, x)') /\ Answer(u, Head(pipe[u]).status)
    <2>1. 1 \in 1..Len(pipe[u])
      BY <1>2
    <2>2. ASSUME NEW x, Answer(u, x)' PROVE FALSE
      <3>1. PICK k \in 2..Len(pipe[u]) : pipe[u][k].cookie = "suspend"
        BY <1>6, <2>2
      <3>2. k \in 1..Len(pipe[u]) /\ k # 1
        BY <1>7
      <3>3. pipe[u][k].cookie = pipe[u][1].cookie
        BY <1>2, <1>10, <3>1
      <3> QED BY <1>1, <2>1, <3>2, <3>3 DEF ReplyOK
    <2>3. Answer(u, Head(pipe[u]).status)
      BY <1>2, <1>10, <2>1 DEF Answer
    <2> QED BY <2>2, <2>3
  <1> QED BY <1>8, <1>9, <1>10

\* The handler takes its reply: it comes again, or it has given the context back.
LEMMA ReadReplyStop ==
  ASSUME ServerInv, StopsInv, NEW t \in Threads, ReadReply(t)
  PROVE  StopsInv'
  <1> USE ServerParts
  <1> DEFINE f == Active(t)
             r == Head(pipe[t])
  <1>1. /\ t \notin dead /\ pc[t][f] = "read" /\ pipe[t] # <<>> /\ UNCHANGED <<suspend, changed, context, dead, sigusr1>>
        /\ \/ r.cookie # f /\ pipe' = [pipe EXCEPT ![t] = Tail(@)] /\ UNCHANGED pc
           \/ /\ r.cookie = f /\ pipe' = [pipe EXCEPT ![t] = Tail(@) \o stolen[t]]
              /\ \E x : pc' = [pc EXCEPT ![t][f] = x]
                        /\ (f = "suspend" => x = IF r.status \in {"kernel_apc", "user_apc"} THEN "select" ELSE "idle")
    BY DEF ReadReply, PutBack, Returned, stops
  <1>2. f \in Frames /\ (f = "call" \/ f = "suspend") /\ (f = "call" => pc[t]["suspend"] = "idle")
    BY DEF Active, Frames
  <1>3. /\ pc \in [Threads -> [Frames -> Places]] /\ pipe \in [Threads -> Seq(Replies)] /\ StackOK(t) /\ StopOK(t)
        /\ "suspend" \in Frames
    BY DEF StateInv, StacksInv, StopsInv, Frames
  <1> HIDE DEF f
  <1>4. pipe'[t] = Tail(pipe[t]) \/ pipe'[t] = Tail(pipe[t]) \o stolen[t]
    BY <1>1, <1>3
  <1>5. /\ \A x : Answer(t, x)' => Answer(t, x)
        /\ r.cookie # "suspend" => \A x : Answer(t, x) => Answer(t, x)'
        /\ r.cookie = "suspend" => (\A x : ~Answer(t, x)') /\ Answer(t, r.status)
    BY <1>1, <1>4, AnswerRead
  <1>6. r \in Replies
    BY <1>1, <1>3, HeadTail
  <1> HIDE DEF r
  <1>7. ASSUME NEW u \in Threads, u # t PROVE StopOK(u)'
    <2>1. pc'[u] = pc[u] /\ pipe'[u] = pipe[u]
      BY <1>1, <1>3, <1>7
    <2>2. \A x : Answer(u, x)' <=> Answer(u, x)
      BY <2>1, AnswerKept
    <2>3. StopSame(u)
      BY <1>1, <2>1, <2>2 DEF StopSame, Suspended
    <2> QED BY <2>3, SameStops DEF StopsInv
  <1>8. CASE f = "call"
    <2>1. \A x : ~Answer(t, x)
      BY <1>2, <1>8, NoAnswer
    <2>2. pc'[t]["suspend"] = pc[t]["suspend"]
      BY <1>1, <1>3, <1>8
    <2>3. StopSame(t)
      BY <1>1, <1>5, <2>1, <2>2 DEF StopSame, Suspended
    <2>4. StopOK(t)'
      BY <1>3, <2>3, SameStops
    <2> QED BY <1>7, <2>4 DEF StopsInv
  <1>9. CASE f = "suspend" /\ r.cookie # f
    <2>1. StopSame(t)
      BY <1>1, <1>5, <1>9 DEF StopSame, Suspended
    <2>2. StopOK(t)'
      BY <1>3, <2>1, SameStops
    <2> QED BY <1>7, <2>2 DEF StopsInv
  <1>10. CASE f = "suspend" /\ r.cookie = f
    <2>1. (\A x : ~Answer(t, x)') /\ Answer(t, r.status) /\ r.status \in Statuses
      BY <1>5, <1>6, <1>10 DEF Replies
    <2>2. pc'[t]["suspend"] = IF r.status \in {"kernel_apc", "user_apc"} THEN "select" ELSE "idle"
      BY <1>1, <1>3, <1>10
    <2>3. r.status \in {"kernel_apc", "timeout"}
      BY <1>1, <1>3, <2>1 DEF StopOK
    <2>4. CASE r.status = "kernel_apc"
      <3>1. StopOK(t)'
        BY <1>1, <1>3, <1>10, <2>1, <2>2, <2>4 DEF StopOK, Suspended
      <3> QED BY <1>7, <3>1 DEF StopsInv
    <2>5. CASE r.status = "timeout"
      <3>1. StopOK(t)'
        BY <1>1, <1>3, <1>10, <2>1, <2>2, <2>5 DEF StopOK, Suspended
      <3> QED BY <1>7, <3>1 DEF StopsInv
    <2> QED BY <2>3, <2>4, <2>5
  <1> QED BY <1>2, <1>8, <1>9, <1>10

\* send_thread_wakeup: the handler that sleeps is let go, and gives the context
\* back, or it is told to come for registers that were set.
LEMMA SendStop ==
  ASSUME ServerInv, StopsInv, NEW t \in Threads, wait[t] # <<>>,
         NEW v, (v = CheckWait(t) /\ CanEnd(t)) \/ (v = [status |-> "timeout", index |-> 0] /\ ~Suspended(t)),
         EndWait(t, v), Send(Ends(t, v), v), UNCHANGED <<pc, dead, suspend, changed, sigusr1>>
  PROVE  StopsInv'
  <1> USE ServerParts
  <1> DEFINE E == Ends(t, v)
  <1>1. /\ t \in E /\ E \subseteq Threads /\ \A u \in E \ {t} : Head(wait[u]).frame = "call"
    BY EndsWait
  <1>2. v.status \in Statuses /\ v.index \in Nat /\ \A u \in E : wait[u] # <<>>
    BY EndFacts
  <1>3. /\ v.status # "kernel_apc" => ~Suspended(t)
        /\ Head(wait[t]).frame = "suspend" => v.status \in {"kernel_apc", "timeout"}
    BY CheckEnds
  <1>4. Send(E, v)
    OBVIOUS
  <1> HIDE DEF E
  <1>5. /\ \A u \in E : Head(wait[u]).cookie => pipe'[u] = Append(pipe[u], ReplyTo(u, v))
        /\ \A u \in Threads : u \notin E \/ ~Head(wait[u]).cookie => pipe'[u] = pipe[u] /\ context'[u] = context[u]
        /\ \A u \in E : Head(wait[u]).cookie =>
              context'[u] = IF Handled(u, v) /\ ~changed[u] THEN "none" ELSE context[u]
    BY <1>1, <1>4, SendFacts
  <1>6. ASSUME NEW u \in Threads, u \notin E \/ ~Head(wait[u]).cookie PROVE StopOK(u)'
    <2>1. pipe'[u] = pipe[u] /\ context'[u] = context[u]
      BY <1>5, <1>6
    <2>2. \A x : Answer(u, x)' <=> Answer(u, x)
      BY <2>1, AnswerKept
    <2>3. StopSame(u)
      BY <2>1, <2>2 DEF StopSame, Suspended
    <2> QED BY <2>3, SameStops DEF StopsInv
  <1>7. ASSUME NEW u \in E, Head(wait[u]).cookie PROVE StopOK(u)'
    <2>1. u \in Threads /\ wait[u] # <<>> /\ StopOK(u) /\ StackOK(u)
      BY <1>1, <1>2 DEF StopsInv, StacksInv
    <2>2. /\ Head(wait[u]).frame \in Frames
          /\ pc[u][Head(wait[u]).frame] = IF Head(wait[u]).cookie THEN "read" ELSE "server"
      BY <2>1, TopFrame
    <2> DEFINE r == ReplyTo(u, v)
    <2>3. /\ r \in Replies /\ r.cookie = Head(wait[u]).frame
          /\ r.status = IF Handled(u, v) /\ changed[u] THEN "kernel_apc" ELSE v.status
      BY <1>2, <2>2 DEF ReplyTo, Replies, Statuses
    <2>4. pipe'[u] = Append(pipe[u], r) /\ context'[u] = IF Handled(u, v) /\ ~changed[u] THEN "none" ELSE context[u]
      BY <1>5, <1>7
    <2> HIDE DEF r
    <2>5. \A x : Answer(u, x)' <=> Answer(u, x) \/ (r.cookie = "suspend" /\ r.status = x)
      BY <2>1, <2>3, <2>4, AnswerSent
    <2>6. CASE Head(wait[u]).frame = "call"
      <3>1. context'[u] = context[u] /\ \A x : Answer(u, x)' <=> Answer(u, x)
        BY <2>3, <2>4, <2>5, <2>6 DEF Handled
      <3>2. StopSame(u)
        BY <3>1 DEF StopSame, Suspended
      <3> QED BY <2>1, <3>2, SameStops
    <2>7. CASE Head(wait[u]).frame = "suspend"
      <3>1. u = t
        BY <1>1, <2>7
      <3>2. pc[u]["suspend"] = "read" /\ pc'[u]["suspend"] = "read"
        BY <1>7, <2>2, <2>7
      <3>3. v.status \in {"kernel_apc", "timeout"} /\ (v.status = "timeout" => ~Suspended(u))
        BY <1>3, <2>7, <3>1
      <3>4. Suspended(u)' <=> Suspended(u)
        BY DEF Suspended
      <3>5. CASE v.status = "kernel_apc" \/ (context[u] # "none" /\ changed[u])
        <4>1. r.status = "kernel_apc" /\ context'[u] = context[u]
          BY <2>3, <2>4, <2>7, <3>3, <3>5 DEF Handled
        <4>2. Answer(u, "timeout")' <=> Answer(u, "timeout")
          BY <2>5, <4>1
        <4>3. \A x \in Statuses : Answer(u, x)' => Answer(u, x) \/ x = "kernel_apc"
          BY <2>5, <4>1
        <4> QED BY <2>1, <3>2, <3>4, <4>1, <4>2, <4>3 DEF StopOK
      <3>6. CASE v.status = "timeout" /\ ~(context[u] # "none" /\ changed[u])
        <4>1. r.status = "timeout" /\ context'[u] = "none"
          BY <2>3, <2>4, <2>7, <3>6 DEF Handled
        <4>2. ~Suspended(u) /\ (u \notin dead => ~changed[u])
          BY <2>1, <3>3, <3>6 DEF StopOK
        <4>3. \A x \in Statuses : Answer(u, x)' => Answer(u, x) \/ x = "timeout"
          BY <2>5, <4>1
        <4> QED BY <2>1, <3>2, <3>4, <4>1, <4>2, <4>3 DEF StopOK
      <3> QED BY <3>3, <3>5, <3>6
    <2> QED BY <2>2, <2>6, <2>7 DEF Frames
  <1> QED BY <1>6, <1>7 DEF StopsInv

LEMMA WakeThreadStepStop == ASSUME ServerInv, StopsInv, WakeThreadStep PROVE StopsInv'
  <1> USE ServerParts
  <1> DEFINE t == Head(todo).thread
             v == CheckWait(t)
  <1>1. /\ todo # <<>> /\ Head(todo).do = "wake_thread" /\ UNCHANGED <<pc, dead, suspend, changed, sigusr1>>
        /\ IF CanEnd(t) THEN EndWait(t, v) /\ Send(Ends(t, v), v) ELSE UNCHANGED <<pipe, context>>
    BY DEF WakeThreadStep, Doing, client
  <1>2. t \in Threads
    BY <1>1, ItemsTail DEF IsItem
  <1>3. CASE ~CanEnd(t)
    BY <1>1, <1>3, StopQuiet
  <1>4. CASE CanEnd(t)
    <2>1. wait[t] # <<>>
      BY <1>4 DEF CanEnd
    <2> HIDE DEF t
    <2> QED BY <1>1, <1>2, <1>4, <2>1, SendStop
  <1> QED BY <1>3, <1>4

LEMMA ThreadTimeoutStop == ASSUME ServerInv, StopsInv, NEW t \in Threads, ThreadTimeout(t) PROVE StopsInv'
  <1> USE ServerParts
  <1> DEFINE v == [status |-> "timeout", index |-> 0]
  <1>1. PICK k \in DOMAIN wait[t] :
              IF k = 1 /\ ~Suspended(t) THEN EndWait(t, v) /\ Send({t}, v) ELSE UNCHANGED <<pipe, context>>
    BY DEF ThreadTimeout
  <1>2. UNCHANGED <<pc, dead, suspend, changed, sigusr1>>
    BY DEF ThreadTimeout, client
  <1>3. CASE ~(k = 1 /\ ~Suspended(t))
    BY <1>1, <1>2, <1>3, StopQuiet
  <1>4. CASE k = 1 /\ ~Suspended(t)
    <2>1. wait[t] # <<>>
      BY <1>1
    <2>2. Ends(t, v) = {t}
      BY DEF Ends
    <2>3. EndWait(t, v) /\ Send(Ends(t, v), v)
      BY <1>1, <1>4, <2>2
    <2> HIDE DEF v
    <2>4. v = [status |-> "timeout", index |-> 0]
      BY DEF v
    <2> QED BY <1>2, <1>4, <2>1, <2>3, <2>4, SendStop
  <1> QED BY <1>3, <1>4

-----------------------------------------------------------------------------
(* The theorems.                                                           *)

LEMMA StopsInit == Init => StopsInv
  <1> SUFFICES ASSUME Init, NEW t \in Threads PROVE StopOK(t)
    BY DEF StopsInv
  <1>1. suspend[t] = 0 /\ changed[t] = FALSE /\ context[t] = "none" /\ pipe[t] = <<>>
    BY DEF Init
  <1>2. \A x : ~Answer(t, x)
    BY <1>1 DEF Answer
  <1> QED BY <1>1, <1>2 DEF StopOK, Suspended

LEMMA StopsNext == ServerInv /\ StopsInv /\ [Next]_vars => StopsInv'
  <1> SUFFICES ASSUME ServerInv, StopsInv, [Next]_vars PROVE StopsInv'
    OBVIOUS
  <1>1. CASE UNCHANGED vars
    <2>1. UNCHANGED <<suspend, changed, context, pipe, dead, sigusr1, pc>>
      BY <1>1 DEF vars, stops, client
    <2> QED BY <2>1, StopQuiet
  <1>2. CASE ServerStep
    <2>1. CASE WakeUpStep \/ ResetStep \/ AbandonStep
      BY <2>1, QuietStepsStop
    <2>2. CASE WakeThreadStep
      BY <2>2, WakeThreadStepStop
    <2>3. ASSUME NEW t \in Threads, SelectEnds(t) \/ SelectWoken(t) \/ SelectPends(t) PROVE StopsInv'
      BY <2>3, SelectEndsStop, CallStepsStop, SelectPendsStop
    <2> QED BY <1>2, <2>1, <2>2, <2>3 DEF ServerStep
  <1>3. ASSUME NEW t \in Threads, ClientStep(t) PROVE StopsInv'
    BY <1>3, SelectStop, CallStepsStop, ReadReplyStop, Usr1HandlerStop DEF ClientStep
  <1>4. ASSUME NEW t \in Threads, TimeStep(t) PROVE StopsInv'
    BY <1>4, CallStepsStop, ThreadTimeoutStop DEF TimeStep
  <1>5. ASSUME NEW t \in Threads, NEW c \in program[t], Requests(t, c) PROVE StopsInv'
    <2>1. CASE BeginWait(t, c) \/ Signal(t, c) \/ ResetEvent(t, c) \/ QueueUserApc(t, c) \/ SetTimer(t, c)
               \/ CancelTimerOf(t, c)
      BY <2>1, RequestsStop
    <2>2. CASE SuspendThread(t, c)
      BY <2>2, SuspendThreadStop
    <2>3. CASE ResumeThread(t, c)
      BY <2>3, ResumeThreadStop
    <2>4. CASE SetThreadContext(t, c)
      BY <2>4, SetThreadContextStop
    <2>5. CASE QueueSystemApc(t, c)
      BY <2>5, QueueSystemApcStop
    <2>6. CASE KillThread(t, c)
      BY <2>6, KillThreadStop
    <2> QED BY <1>5, <2>1, <2>2, <2>3, <2>4, <2>5, <2>6 DEF Requests
  <1> QED BY <1>1, <1>2, <1>3, <1>4, <1>5 DEF Next

\* A thread that has to stop has a context, a signal or a handler to stop it,
\* and a handler that is let go holds no context.
THEOREM StopsInvariant == Spec => []StopsInv
  BY ServerInit, ServerNext, StopsInit, StopsNext, PTL DEF Spec

LEMMA ContextStops ==
  ASSUME StateInv, NEW t \in Threads, t \notin dead, StopOK(t), context[t] # "none"
  PROVE  Stops(t)
  <1>1. CASE sigusr1[t]
    BY <1>1 DEF Stops
  <1>2. CASE ~sigusr1[t]
    <2>1. pc[t]["suspend"] # "idle" /\ ~Answer(t, "timeout") /\ \A x \in Statuses : Answer(t, x) => x \in {"kernel_apc", "timeout"}
      BY <1>2 DEF StopOK
    <2>2. pipe[t] \in Seq(Replies)
      BY DEF StateInv
    <2>3. ASSUME NEW k \in DOMAIN pipe[t], pipe[t][k].cookie = "suspend" PROVE pipe[t][k].status = "kernel_apc"
      <3>1. k \in 1..Len(pipe[t]) /\ pipe[t][k] \in Replies
        BY <2>2
      <3>2. pipe[t][k].status \in Statuses
        BY <3>1 DEF Replies
      <3>3. Answer(t, pipe[t][k].status)
        BY <2>3, <3>1 DEF Answer
      <3> QED BY <2>1, <3>2, <3>3
    <2> QED BY <2>1, <2>3 DEF Stops
  <1> QED BY <1>1, <1>2

\* For every set of threads and every sequence of suspends, resumes, kills and
\* APCs: a suspended thread does not run on, and its handler finds a context it
\* may fill (stop_thread, wait_suspend).
THEOREM SuspendedStop == Spec => []SuspendedStops
  <1>1. ASSUME ServerInv, StopsInv PROVE SuspendedStops
    <2> SUFFICES ASSUME NEW t \in Threads \ dead
                 PROVE  (Suspended(t) => Stops(t)) /\ (pc[t]["suspend"] = "handler" => context[t] # "saved")
      BY DEF SuspendedStops
    <2>1. StateInv /\ StopOK(t)
      BY <1>1, ServerParts DEF StopsInv
    <2>2. Suspended(t) => context[t] # "none"
      BY <2>1 DEF StopOK
    <2>3. Suspended(t) => Stops(t)
      BY <2>1, <2>2, ContextStops
    <2>4. pc[t]["suspend"] = "handler" => context[t] # "saved"
      BY <2>1 DEF StopOK
    <2> QED BY <2>3, <2>4
  <1> QED BY <1>1, ServerInvariant, StopsInvariant, PTL

\* For every set of threads: registers that another thread set are not dropped;
\* the context is there until the thread has come for it (set_thread_context,
\* send_thread_wakeup).
THEOREM ContextIsTaken == Spec => []ContextTaken
  <1>1. ASSUME ServerInv, StopsInv PROVE ContextTaken
    <2> SUFFICES ASSUME NEW t \in Threads \ dead, changed[t] PROVE context[t] # "none" /\ Stops(t)
      BY DEF ContextTaken
    <2>1. StateInv /\ StopOK(t)
      BY <1>1, ServerParts DEF StopsInv
    <2>2. context[t] # "none"
      BY <2>1 DEF StopOK
    <2> QED BY <2>1, <2>2, ContextStops
  <1> QED BY <1>1, ServerInvariant, StopsInvariant, PTL

-----------------------------------------------------------------------------
(* The inductive invariant, third part: what an alert stands for.          *)

Has(s, x) == \E k \in 1..Len(s) : s[k] = x
\* The server will look at the waits of t, the one of the call included.
Due(t) == Has(todo, WakeThread(t)) \/ (Has(todo, EndSelect(t)) /\ Active(t) = "call")
\* A wait in the driver was alerted, and t asks the server why.
Asks(t) == t \notin dead /\ call[t].fn = "inproc_wait" /\ pc[t]["call"] # "driver"
\* A reply for the call, in the pipe or kept by the handler.
Tells(s, x) == \E k \in 1..Len(s) : s[k].cookie = "call" /\ s[k].status = x
Told(t, x) == Tells(pipe[t], x) \/ Tells(stolen[t], x)

\* Its request is for a user APC and waits for nothing else: it sleeps only
\* while it is suspended, and ends without an APC only when one was cancelled.
AskOK(t) ==
    /\ call[t].alertable /\ deadline[t] = "past"
    /\ user_apc[t] # <<>> \/ cancelled[t]
    /\ HasWait(t, "call") => Suspended(t) \/ Due(t)
    /\ pc[t]["call"] = "server" => Len(todo) = 1 /\ HasWait(t, "call")
    /\ \A x : Told(t, x) => x \in {"kernel_apc", "user_apc"} \/ (x = "timeout" /\ cancelled[t])
\* The event is set only while there is a user APC.
AlertOK(t) ==
    /\ t \notin dead /\ alert_sync[t] => user_apc[t] # <<>>
    /\ Asks(t) => AskOK(t)
    /\ pc[t]["call"] = "abort" => cancelled[t]
ApcTypes == user_apc \in [Threads -> Seq({"user", "timer"})] /\ cancelled \in [Threads -> BOOLEAN]
AlertsOK == \A t \in Threads : AlertOK(t)
AlertInv == ApcTypes /\ AlertsOK

-----------------------------------------------------------------------------
(* Lemmas about what is left to do, and about replies.                     *)

LEMMA HasOne == ASSUME NEW x, NEW y PROVE Has(<<y>>, x) <=> x = y
  BY DEF Has

LEMMA HasNone == ASSUME NEW x PROVE ~Has(<<>>, x)
  BY DEF Has

LEMMA HasTail ==
  ASSUME NEW S, NEW s \in Seq(S), s # <<>>, NEW x
  PROVE  Has(s, x) <=> x = Head(s) \/ Has(Tail(s), x)
  <1> USE HeadTail
  <1>1. ASSUME Has(s, x) PROVE x = Head(s) \/ Has(Tail(s), x)
    <2>1. PICK k \in 1..Len(s) : s[k] = x
      BY <1>1 DEF Has
    <2>2. CASE k = 1
      BY <2>1, <2>2
    <2>3. CASE k # 1
      <3>1. k - 1 \in 1..Len(Tail(s)) /\ (k - 1) + 1 = k
        BY <2>3
      <3>2. Tail(s)[k - 1] = s[(k - 1) + 1]
        BY <3>1
      <3> QED BY <2>1, <3>1, <3>2 DEF Has
    <2> QED BY <2>2, <2>3
  <1>2. ASSUME Has(Tail(s), x) PROVE Has(s, x)
    BY <1>2 DEF Has
  <1>3. ASSUME x = Head(s) PROVE Has(s, x)
    <2>1. 1 \in 1..Len(s) /\ s[1] = x
      BY <1>3
    <2> QED BY <2>1 DEF Has
  <1> QED BY <1>1, <1>2, <1>3

LEMMA HasCons ==
  ASSUME NEW S, NEW s \in Seq(S), NEW y \in S, NEW x
  PROVE  Has(<<y>> \o s, x) <=> x = y \/ Has(s, x)
  <1>1. /\ <<y>> \o s \in Seq(S) /\ <<y>> \o s # <<>>
        /\ Head(<<y>> \o s) = y /\ Tail(<<y>> \o s) = s
    OBVIOUS
  <1> QED BY <1>1, HasTail

LEMMA ItemsApart ==
  ASSUME NEW t, NEW u
  PROVE  /\ WakeThread(t) # EndSelect(u)
         /\ WakeThread(t) = WakeThread(u) => t = u
         /\ EndSelect(t) = EndSelect(u) => t = u
         /\ WakeThread(t).do = "wake_thread" /\ WakeThread(t).thread = t
         /\ EndSelect(t).do = "select" /\ EndSelect(t).thread = t
  <1>1. /\ WakeThread(t).do = "wake_thread" /\ WakeThread(t).thread = t
        /\ EndSelect(t).do = "select" /\ EndSelect(t).thread = t
        /\ WakeThread(u).thread = u /\ EndSelect(u).do = "select" /\ EndSelect(u).thread = u
    BY DEF WakeThread, EndSelect
  <1>2. "wake_thread" # "select"
    OBVIOUS
  <1> QED BY <1>1, <1>2

LEMMA NoDue == ASSUME NEW u, Idle PROVE ~Due(u)
  BY HasNone DEF Due, Idle

\* Reading the pipe makes up no replies.
LEMMA ToldRead ==
  ASSUME StateInv, NEW u \in Threads, Steals(u) \/ (\E y \in Places : Reads(u, y)), NEW x, Told(u, x)'
  PROVE  Told(u, x)
  <1>t. pipe[u] \in Seq(Replies) /\ stolen[u] \in Seq(Replies) /\ pipe[u] # <<>>
    BY DEF StateInv, Steals, Reads
  <1>h. /\ Tail(pipe[u]) \in Seq(Replies) /\ Head(pipe[u]) \in Replies
        /\ Len(pipe[u]) \in Nat /\ Len(pipe[u]) >= 1 /\ pipe[u][1] = Head(pipe[u])
        /\ \A k \in 1..Len(Tail(pipe[u])) : k + 1 \in 1..Len(pipe[u]) /\ Tail(pipe[u])[k] = pipe[u][k + 1]
    BY <1>t, HeadTail
  <1>1. Tells(Tail(pipe[u]), x) => Tells(pipe[u], x)
    BY <1>h DEF Tells
  <1>2. CASE Steals(u)
    <2>1. stolen'[u] = <<Head(pipe[u])>> \o stolen[u] /\ pipe'[u] = Tail(pipe[u])
      BY <1>2 DEF Steals
    <2>2. CASE Tells(pipe'[u], x)
      BY <2>1, <2>2, <1>1 DEF Told
    <2>3. CASE Tells(stolen'[u], x)
      <3>1. PICK k \in 1..Len(<<Head(pipe[u])>> \o stolen[u]) :
               (<<Head(pipe[u])>> \o stolen[u])[k].cookie = "call" /\ (<<Head(pipe[u])>> \o stolen[u])[k].status = x
        BY <2>1, <2>3 DEF Tells
      <3>2. CASE k = 1
        <4>1. pipe[u][1].cookie = "call" /\ pipe[u][1].status = x /\ 1 \in 1..Len(pipe[u])
          BY <3>1, <3>2, <1>h, <1>t, Cons
        <4> QED BY <4>1 DEF Told, Tells
      <3>3. CASE k # 1
        <4>1. k - 1 \in 1..Len(stolen[u]) /\ (<<Head(pipe[u])>> \o stolen[u])[k] = stolen[u][k - 1]
          <5>1. k \in 2..Len(<<Head(pipe[u])>> \o stolen[u])
            BY <3>3, <1>h, <1>t, Cons
          <5> QED BY <5>1, <1>h, <1>t, Cons
        <4> QED BY <3>1, <4>1 DEF Told, Tells
      <3> QED BY <3>2, <3>3
    <2> QED BY <2>2, <2>3 DEF Told
  <1>3. CASE \E y \in Places : Reads(u, y)
    <2>1. stolen'[u] = <<>> /\ pipe'[u] = Tail(pipe[u]) \o stolen[u]
      BY <1>3 DEF Reads
    <2>2. ~Tells(stolen'[u], x)
      BY <2>1 DEF Tells
    <2>3. PICK k \in 1..Len(Tail(pipe[u]) \o stolen[u]) :
             (Tail(pipe[u]) \o stolen[u])[k].cookie = "call" /\ (Tail(pipe[u]) \o stolen[u])[k].status = x
      BY <2>1, <2>2 DEF Told, Tells
    <2>4. \/ k \in 1..Len(Tail(pipe[u])) /\ (Tail(pipe[u]) \o stolen[u])[k] = Tail(pipe[u])[k]
          \/ /\ k - Len(Tail(pipe[u])) \in 1..Len(stolen[u])
             /\ (Tail(pipe[u]) \o stolen[u])[k] = stolen[u][k - Len(Tail(pipe[u]))]
      <3> DEFINE T == Tail(pipe[u])
      <3>1. T \in Seq(Replies)
        BY <1>h
      <3>2. /\ \A j \in 1..Len(T) : (T \o stolen[u])[j] = T[j]
            /\ \A j \in 1..Len(T \o stolen[u]) : j \in 1..Len(T) \/
                  (j - Len(T) \in 1..Len(stolen[u]) /\ (T \o stolen[u])[j] = stolen[u][j - Len(T)])
        <4> HIDE DEF T
        <4> QED BY <3>1, <1>t, Join
      <3> QED BY <3>2
    <2>5. Tells(Tail(pipe[u]), x) \/ Tells(stolen[u], x)
      BY <2>3, <2>4 DEF Tells
    <2> QED BY <2>5, <1>1 DEF Told
  <1> QED BY <1>2, <1>3

LEMMA ToldSent ==
  ASSUME StateInv, NEW u \in Threads, NEW r \in Replies, pipe'[u] = Append(pipe[u], r), stolen'[u] = stolen[u],
         NEW x, Told(u, x)'
  PROVE  Told(u, x) \/ (r.cookie = "call" /\ r.status = x)
  <1>t. pipe[u] \in Seq(Replies)
    BY DEF StateInv
  <1>1. CASE Tells(stolen'[u], x)
    BY <1>1 DEF Told
  <1>2. CASE Tells(pipe'[u], x)
    <2>1. PICK k \in 1..Len(Append(pipe[u], r)) :
             Append(pipe[u], r)[k].cookie = "call" /\ Append(pipe[u], r)[k].status = x
      BY <1>2 DEF Tells
    <2>2. CASE k = Len(pipe[u]) + 1
      BY <2>1, <2>2, <1>t, Snoc
    <2>3. CASE k \in 1..Len(pipe[u])
      <3>1. Append(pipe[u], r)[k] = pipe[u][k]
        BY <2>3, <1>t, Snoc
      <3> QED BY <2>1, <2>3, <3>1 DEF Told, Tells
    <2> QED BY <2>2, <2>3, <1>t, Snoc
  <1> QED BY <1>1, <1>2 DEF Told

LEMMA ToldSame ==
  ASSUME NEW u, pipe'[u] = pipe[u], stolen'[u] = stolen[u], NEW x
  PROVE  Told(u, x)' <=> Told(u, x)
  BY DEF Told, Tells

LEMMA NotTold ==
  ASSUME RepliesInv, NEW u \in Threads, pc[u]["call"] # "read"
  PROVE  \A x : ~Told(u, x)
  BY DEF RepliesInv, ReplyOK, Told, Tells, Sent, Kept, Frames

-----------------------------------------------------------------------------
(* What a step may do to a thread.                                         *)

AskStep(u) ==
    /\ Asks(u) /\ call'[u] = call[u] /\ (deadline[u] = "past" => deadline'[u] = "past")
    /\ user_apc[u] # <<>> => user_apc'[u] # <<>> \/ cancelled'[u]
    /\ HasWait(u, "call")' => Suspended(u)' \/ Due(u)'
    /\ pc'[u]["call"] = "server" => Len(todo') = 1 /\ HasWait(u, "call")'
    /\ \A x : Told(u, x)' => Told(u, x) \/ x \in {"kernel_apc", "user_apc"} \/ (x = "timeout" /\ cancelled'[u])
AlertStep(u) ==
    /\ u \notin dead' /\ alert_sync'[u] => user_apc'[u] # <<>>
    /\ cancelled[u] => cancelled'[u]
    /\ pc'[u]["call"] = "abort" => pc[u]["call"] = "abort" \/ cancelled'[u]
    /\ Asks(u)' => AskStep(u)

LEMMA AlertStepOK == ASSUME NEW u \in Threads, AlertOK(u), AlertStep(u) PROVE AlertOK(u)'
  <1>1. u \notin dead' /\ alert_sync'[u] => user_apc'[u] # <<>>
    BY DEF AlertStep
  <1>2. pc'[u]["call"] = "abort" => cancelled'[u]
    BY DEF AlertStep, AlertOK
  <1>3. ASSUME Asks(u)' PROVE AskOK(u)'
    <2>1. AskStep(u) /\ AskOK(u) /\ (cancelled[u] => cancelled'[u])
      BY <1>3 DEF AlertStep, AlertOK, AskStep
    <2>2. call'[u].alertable /\ deadline'[u] = "past"
      BY <2>1 DEF AskStep, AskOK
    <2>3. user_apc'[u] # <<>> \/ cancelled'[u]
      BY <2>1 DEF AskStep, AskOK
    <2>4. \A x : Told(u, x)' => x \in {"kernel_apc", "user_apc"} \/ (x = "timeout" /\ cancelled'[u])
      BY <2>1 DEF AskStep, AskOK
    <2>5. /\ HasWait(u, "call")' => Suspended(u)' \/ Due(u)'
          /\ pc'[u]["call"] = "server" => Len(todo') = 1 /\ HasWait(u, "call")'
      BY <2>1 DEF AskStep
    <2> QED BY <2>2, <2>3, <2>4, <2>5 DEF AskOK
  <1> QED BY <1>1, <1>2, <1>3 DEF AlertOK

\* A thread the step is not about, and whose wait it does not forget.
Aside(u) ==
    /\ alert_sync'[u] = alert_sync[u] /\ user_apc'[u] = user_apc[u] /\ cancelled'[u] = cancelled[u]
    /\ u \in dead' <=> u \in dead
    /\ pc'[u]["call"] = pc[u]["call"] /\ call'[u] = call[u] /\ deadline'[u] = deadline[u]
    /\ wait'[u] = wait[u] /\ pipe'[u] = pipe[u] /\ stolen'[u] = stolen[u]
Remembers(u) ==
    /\ Suspended(u) => Suspended(u)' \/ Due(u)'
    /\ Due(u) => Due(u)'
    /\ Asks(u) /\ pc[u]["call"] = "server" => Len(todo') = Len(todo)

LEMMA AsideStep == ASSUME NEW u \in Threads, AlertOK(u), Aside(u), Remembers(u) PROVE AlertStep(u)
  <1>1. \A x : Told(u, x)' => Told(u, x)
    BY ToldSame DEF Aside
  <1>2. HasWait(u, "call")' <=> HasWait(u, "call")
    BY DEF HasWait, Aside
  <1>3. Asks(u)' <=> Asks(u)
    BY DEF Asks, Aside
  <1>4. Asks(u) => AskOK(u)
    BY DEF AlertOK
  <1>5. ASSUME Asks(u)' PROVE AskStep(u)
    <2>1. HasWait(u, "call")' => Suspended(u)' \/ Due(u)'
      BY <1>2, <1>3, <1>4, <1>5 DEF AskOK, Remembers
    <2>2. pc'[u]["call"] = "server" => Len(todo') = 1 /\ HasWait(u, "call")'
      BY <1>2, <1>3, <1>4, <1>5 DEF AskOK, Remembers, Aside
    <2>3. Asks(u) /\ call'[u] = call[u] /\ (deadline[u] = "past" => deadline'[u] = "past")
      BY <1>3, <1>5 DEF Aside
    <2>4. user_apc[u] # <<>> => user_apc'[u] # <<>> \/ cancelled'[u]
      BY DEF Aside
    <2> QED BY <1>1, <2>1, <2>2, <2>3, <2>4 DEF AskStep
  <1>6. u \notin dead' /\ alert_sync'[u] => user_apc'[u] # <<>>
    BY DEF Aside, AlertOK
  <1>7. /\ cancelled[u] => cancelled'[u]
        /\ pc'[u]["call"] = "abort" => pc[u]["call"] = "abort"
    BY DEF Aside
  <1> QED BY <1>5, <1>6, <1>7 DEF AlertStep

LEMMA AsideOK == ASSUME NEW u \in Threads, AlertOK(u), Aside(u), Remembers(u) PROVE AlertOK(u)'
  BY AsideStep, AlertStepOK

\* Between two requests nothing is due, and nobody is in a request.
LEMMA IdleRemembers ==
  ASSUME ServerInv, Idle, NEW u \in Threads, Suspended(u) => Suspended(u)' \/ Due(u)'
  PROVE  Remembers(u)
  <1>1. pc[u]["call"] # "server"
    BY IdleNoServer DEF ServerInv, Frames
  <1> QED BY <1>1, NoDue DEF Remembers

LEMMA SameRemembers ==
  ASSUME NEW u \in Threads, suspend'[u] = suspend[u], todo' = todo,
         Has(todo, EndSelect(u)) /\ Active(u) = "call" => Active(u)' = "call"
  PROVE  Remembers(u)
  BY DEF Remembers, Suspended, Due, Has

\* In a request that has only to end, nothing else is due.
LEMMA LoneSelect ==
  ASSUME ServerInv, NEW t \in Threads, Doing("select"), Head(todo).thread = t
  PROVE  \A u \in Threads : Due(u) => u = t /\ Active(t) = "call"
  <1>1. todo \in Seq(Items) /\ todo # <<>> /\ Tail(todo) = <<>> /\ Head(todo).do = "select"
    BY SelectDone, ServerParts DEF Doing
  <1>2. ASSUME NEW x PROVE Has(todo, x) <=> x = Head(todo)
    BY <1>1, HasTail, HasNone
  <1>3. ASSUME NEW u \in Threads, Due(u) PROVE u = t /\ Active(t) = "call"
    <2>1. ~Has(todo, WakeThread(u))
      BY <1>1, <1>2, ItemsApart
    <2>2. EndSelect(u) = Head(todo) /\ Active(u) = "call"
      BY <1>2, <1>3, <2>1 DEF Due
    <2>3. u = t
      BY <2>2, ItemsApart
    <2> QED BY <2>2, <2>3
  <1> QED BY <1>3

\* A request that has more to do is not one of a thread that asks.
LEMMA NotAsking ==
  ASSUME ServerInv, AlertsOK, todo # <<>>, Head(todo).do # "select", NEW u \in Threads, Asks(u)
  PROVE  pc[u]["call"] # "server"
  <1> SUFFICES ASSUME pc[u]["call"] = "server" PROVE FALSE
    OBVIOUS
  <1>1. Len(todo) = 1
    BY DEF AlertsOK, AlertOK, AskOK
  <1>2. LastTodo.do = "select"
    BY DEF ServerInv, SelectInv, SelectOK, Frames
  <1>3. LastTodo = Head(todo)
    BY <1>1 DEF LastTodo
  <1> QED BY <1>2, <1>3

\* What ends the wait of a thread that asks.
LEMMA AskEnds ==
  ASSUME ServerInv, NEW t \in Threads, AlertOK(t), Asks(t), wait[t] # <<>>
  PROVE  /\ ~Suspended(t) => CanEnd(t)
         /\ CanEnd(t) /\ Head(wait[t]).frame = "call" =>
               \/ CheckWait(t).status \in {"kernel_apc", "user_apc"}
               \/ CheckWait(t).status = "timeout" /\ cancelled[t]
  <1>1. call[t].fn = "inproc_wait" /\ call[t].alertable /\ deadline[t] = "past" /\ (user_apc[t] # <<>> \/ cancelled[t])
    BY DEF AlertOK, Asks, AskOK
  <1>2. WaitObjs(call[t]) = <<>>
    BY <1>1 DEF WaitObjs
  <1>3. Ready(t) = {}
    BY <1>1, <1>2 DEF Ready, IsKeyed
  <1>4. Head(wait[t]).frame \in Frames
    BY TopFrame DEF ServerInv, TypesInv, StacksInv
  <1>5. CASE system_apc[t] # <<>>
    <2>1. CheckWait(t) = [status |-> "kernel_apc", index |-> 0]
      BY <1>5 DEF CheckWait
    <2> QED BY <2>1 DEF CanEnd, Pending
  <1>6. CASE system_apc[t] = <<>> /\ Suspended(t)
    <2>1. CheckWait(t) = Pending
      BY <1>6 DEF CheckWait
    <2> QED BY <2>1, <1>6 DEF CanEnd
  <1>7. CASE system_apc[t] = <<>> /\ ~Suspended(t) /\ Head(wait[t]).frame = "suspend"
    <2>1. CheckWait(t) = [status |-> "timeout", index |-> 0]
      BY <1>7 DEF CheckWait
    <2> QED BY <2>1, <1>7 DEF CanEnd, Pending
  <1>8. CASE system_apc[t] = <<>> /\ ~Suspended(t) /\ Head(wait[t]).frame = "call" /\ user_apc[t] # <<>>
    <2>1. CheckWait(t) = [status |-> "user_apc", index |-> 0]
      BY <1>8, <1>3, <1>1 DEF CheckWait
    <2> QED BY <2>1, <1>8 DEF CanEnd, Pending
  <1>9. CASE system_apc[t] = <<>> /\ ~Suspended(t) /\ Head(wait[t]).frame = "call" /\ user_apc[t] = <<>>
    <2>1. CheckWait(t) = [status |-> "timeout", index |-> 0]
      BY <1>9, <1>3, <1>1 DEF CheckWait
    <2> QED BY <2>1, <1>9, <1>1 DEF CanEnd, Pending
  <1> QED BY <1>4, <1>5, <1>6, <1>7, <1>8, <1>9 DEF Frames

\* A thread that a keyed event takes along does not ask.
LEMMA PartnerApart ==
  ASSUME ServerInv, NEW t \in Threads, NEW v, v = CheckWait(t), CanEnd(t), NEW u \in Ends(t, v), u # t
  PROVE  IsKeyed(call[u])
  <1>1. v.status = "object" /\ IsKeyed(call[t]) /\ u = Partner(t)
    BY DEF Ends
  <1>2. Ready(t) # {}
    BY <1>1, CheckEnds DEF ServerInv
  <1>3. Partners(t) # {}
    BY <1>1, <1>2 DEF Ready, IsKeyed
  <1> QED BY <1>1, <1>3, PartnerWaits DEF ServerInv

-----------------------------------------------------------------------------
(* The actions.  Steps of the server that end no wait.                     *)

LEMMA QuietStepsAlert ==
  ASSUME ServerInv, AlertsOK, WakeUpStep \/ ResetStep \/ AbandonStep
  PROVE  AlertsOK'
  <1> SUFFICES ASSUME NEW u \in Threads PROVE AlertOK(u)'
    BY DEF AlertsOK
  <1>1. Aside(u) /\ UNCHANGED <<suspend, pc>>
    BY DEF WakeUpStep, ResetStep, AbandonStep, Aside, stops, apcs, client, history
  <1>2. /\ todo \in Seq(Items) /\ todo # <<>> /\ Head(todo).do \in {"wake_up", "reset", "abandon"}
        /\ Tail(todo) \in Seq(Items)
    BY ServerParts, HeadTail DEF WakeUpStep, ResetStep, AbandonStep, Doing
  <1>3. todo' \in Seq(Items)
    <2>1. ServerInv'
      BY WakeUpStepInv, ResetStepInv, AbandonStepInv
    <2> QED BY <2>1 DEF ServerInv, TypesInv, TodoInv
  <1>4. ASSUME NEW x, x.do \in {"wake_thread", "select"}, Has(todo, x) PROVE Has(todo', x)
    <2>1. Has(Tail(todo), x)
      BY <1>2, <1>4, HasTail
    <2>2. CASE WakeUpStep
      <3> DEFINE w == Head(todo)
                 q == queue[w.obj]
                 able == {k \in DOMAIN q : CanEnd(q[k][1])}
                 y == WakeThread(q[First(able)][1])
                 z == [w EXCEPT !.max = IF @ = 0 THEN 0 ELSE @ - 1]
      <3>1. \/ todo' = Tail(todo)
            \/ todo' = <<y>> \o Tail(todo)
            \/ todo' = <<y>> \o (<<z>> \o Tail(todo))
        BY <2>2 DEF WakeUpStep
      <3>2. CASE todo' = Tail(todo)
        BY <2>1, <3>2
      <3>3. CASE todo' = <<y>> \o Tail(todo)
        <4> HIDE DEF y
        <4>1. Tail(todo) \in Seq(Items \cup {y}) /\ y \in Items \cup {y}
          BY <1>2
        <4>2. Has(<<y>> \o Tail(todo), x)
          BY <2>1, <4>1, HasCons
        <4> QED BY <3>3, <4>2
      <3>4. CASE todo' = <<y>> \o (<<z>> \o Tail(todo))
        <4> HIDE DEF y, z
        <4> DEFINE S == Items \cup {y, z}
        <4>1. Tail(todo) \in Seq(S) /\ y \in S /\ z \in S
          BY <1>2
        <4>2. <<z>> \o Tail(todo) \in Seq(S)
          BY <4>1
        <4> HIDE DEF S
        <4>3. Has(<<z>> \o Tail(todo), x)
          BY <2>1, <4>1, HasCons
        <4>4. Has(<<y>> \o (<<z>> \o Tail(todo)), x)
          BY <4>1, <4>2, <4>3, HasCons
        <4> QED BY <3>4, <4>4
      <3> QED BY <3>1, <3>2, <3>3, <3>4
    <2>3. CASE ResetStep
      BY <2>1, <2>3 DEF ResetStep
    <2>4. CASE AbandonStep
      <3>1. todo' = Tail(todo) \/ \E o \in Objs : todo' = <<WakeUp(o, 0)>> \o todo
        BY <2>4 DEF AbandonStep
      <3>2. ASSUME NEW o \in Objs, todo' = <<WakeUp(o, 0)>> \o todo PROVE Has(todo', x)
        <4>1. WakeUp(o, 0) \in Items
          BY ItemFacts
        <4> QED BY <1>2, <1>4, <3>2, <4>1, HasCons
      <3> QED BY <2>1, <3>1, <3>2
    <2> QED BY <2>2, <2>3, <2>4
  <1>5. Due(u) => Due(u)'
    <2>1. Active(u)' = Active(u)
      BY <1>1 DEF Active
    <2>2. WakeThread(u).do = "wake_thread" /\ EndSelect(u).do = "select"
      BY ItemsApart
    <2>3. /\ Has(todo, WakeThread(u)) => Has(todo', WakeThread(u))
          /\ Has(todo, EndSelect(u)) => Has(todo', EndSelect(u))
      BY <1>4, <2>2
    <2> QED BY <2>1, <2>3 DEF Due, WakeThread, EndSelect
  <1>6. Remembers(u)
    <2>1. Suspended(u) => Suspended(u)'
      BY <1>1 DEF Suspended
    <2>2. ~(Asks(u) /\ pc[u]["call"] = "server")
      BY <1>2, NotAsking
    <2> QED BY <1>5, <2>1, <2>2 DEF Remembers
  <1> QED BY <1>1, <1>6, AsideOK DEF AlertsOK

LEMMA SelectFailsAlert ==
  ASSUME ServerInv, AlertsOK, NEW t \in Threads, SelectFails(t)
  PROVE  AlertsOK'
  <1> SUFFICES ASSUME NEW u \in Threads PROVE AlertOK(u)'
    BY DEF AlertsOK
  <1>t. pc \in [Threads -> [Frames -> Places]] /\ DOMAIN call = Threads /\ deadline \in [Threads -> {"none", "later", "past"}]
    BY DEF ServerInv, TypesInv, StateInv, CallsInv, FlagsInv
  <1>1. CASE u = t
    <2>1. call'[t] = NoCall
      BY <1>t DEF SelectFails, Returned
    <2>2. pc'[t]["call"] = "idle"
      <3>1. call[t].fn = "signal_wait"
        BY DEF SelectFails, Signals
      <3> QED BY <3>1, <1>t DEF SelectFails, Returned, Frames
    <2>3. ~Asks(t)'
      BY <2>1 DEF Asks, NoCall
    <2>4. AlertStep(t)
      BY <2>2, <2>3 DEF AlertStep, SelectFails, history, apcs, AlertsOK, AlertOK
    <2> QED BY <1>1, <2>4, AlertStepOK DEF AlertsOK
  <1>2. CASE u # t
    <2>1. Aside(u)
      BY <1>2, <1>t DEF Aside, SelectFails, Returned, history, apcs
    <2>2. Remembers(u)
      BY IdleRemembers DEF SelectFails, stops, Suspended
    <2> QED BY <2>1, <2>2, AsideOK DEF AlertsOK
  <1> QED BY <1>1, <1>2

LEMMA ExpireAlert ==
  ASSUME ServerInv, AlertsOK, NEW t \in Threads, Expire(t)
  PROVE  AlertsOK'
  <1> SUFFICES ASSUME NEW u \in Threads PROVE AlertOK(u)'
    BY DEF AlertsOK
  <1>t. deadline \in [Threads -> {"none", "later", "past"}]
    BY DEF ServerInv, TypesInv, FlagsInv
  <1>r. Remembers(u)
    BY SameRemembers DEF Expire, stops, Active
  <1>1. CASE u = t
    <2>1. ~Asks(t)
      BY DEF Expire, AlertsOK, AlertOK, AskOK
    <2>2. ~Asks(t)'
      BY <2>1 DEF Expire, Asks
    <2>3. AlertStep(t)
      BY <2>2 DEF AlertStep, Expire, history, apcs, AlertsOK, AlertOK
    <2> QED BY <1>1, <2>3, AlertStepOK DEF AlertsOK
  <1>2. CASE u # t
    <2>1. Aside(u)
      BY <1>2, <1>t DEF Aside, Expire, history, apcs
    <2> QED BY <1>r, <2>1, AsideOK DEF AlertsOK
  <1> QED BY <1>1, <1>2

LEMMA Usr1HandlerAlert ==
  ASSUME ServerInv, AlertsOK, NEW t \in Threads, Usr1Handler(t)
  PROVE  AlertsOK'
  <1> SUFFICES ASSUME NEW u \in Threads PROVE AlertOK(u)'
    BY DEF AlertsOK
  <1>t. pc \in [Threads -> [Frames -> Places]]
    BY DEF ServerInv, TypesInv, StateInv
  <1>1. Aside(u)
    BY <1>t DEF Aside, Usr1Handler, history, apcs, Frames
  <1>2. ASSUME Has(todo, EndSelect(u)), Active(u) = "call" PROVE Active(u)' = "call"
    <2>1. PICK k \in 1..Len(todo) : todo[k] = EndSelect(u)
      BY <1>2 DEF Has
    <2>2. pc[u]["call"] = "server"
      BY <1>2, <2>1, ItemsApart DEF ServerInv, SelectInv, LastOK
    <2>3. u # t
      BY <2>2 DEF Usr1Handler
    <2> QED BY <1>2, <1>t, <2>3 DEF Usr1Handler, Active
  <1>3. Remembers(u)
    BY <1>2, SameRemembers DEF Usr1Handler, stops
  <1> QED BY <1>1, <1>3, AsideOK DEF AlertsOK

\* The driver's wait ends by the event: there is an APC.
LEMMA DriverAlertedAlert ==
  ASSUME ServerInv, AlertsOK, NEW t \in Threads, DriverAlerted(t)
  PROVE  AlertsOK'
  <1> SUFFICES ASSUME NEW u \in Threads PROVE AlertOK(u)'
    BY DEF AlertsOK
  <1>t. /\ pc \in [Threads -> [Frames -> Places]] /\ deadline \in [Threads -> {"none", "later", "past"}]
        /\ StateInv /\ RepliesInv /\ StackOK(t)
    BY DEF ServerInv, TypesInv, StateInv, FlagsInv, StacksInv
  <1>1. CASE u = t
    <2>1. user_apc[t] # <<>>
      BY DEF DriverAlerted, Runs, AlertsOK, AlertOK
    <2>2. pc[t]["call"] = "driver" /\ pc'[t]["call"] = "select" /\ deadline'[t] = "past" /\ call[t].alertable
      BY <1>t DEF DriverAlerted, Frames
    <2>3. ~HasWait(t, "call")'
      <3>1. ~HasWait(t, "call")
        BY <1>t, <2>2, NoWait
      <3> QED BY <3>1 DEF DriverAlerted, HasWait
    <2>4. \A x : ~Told(t, x)'
      <3>1. \A x : ~Told(t, x)
        BY <1>t, <2>2, NotTold
      <3> QED BY <3>1, ToldSame DEF DriverAlerted
    <2>5. AskOK(t)'
      <3>1. user_apc'[t] # <<>> /\ call'[t] = call[t]
        BY <2>1 DEF DriverAlerted, apcs
      <3> QED BY <3>1, <2>2, <2>3, <2>4 DEF AskOK
    <2>6. t \notin dead' /\ alert_sync'[t] => user_apc'[t] # <<>>
      BY <2>1 DEF DriverAlerted, apcs
    <2> QED BY <1>1, <2>2, <2>5, <2>6 DEF AlertOK
  <1>2. CASE u # t
    <2>1. Aside(u) /\ pc'[u] = pc[u]
      BY <1>2, <1>t DEF Aside, DriverAlerted, history, apcs
    <2>2. Remembers(u)
      BY <2>1, SameRemembers DEF DriverAlerted, stops, Active
    <2> QED BY <2>1, <2>2, AsideOK DEF AlertsOK
  <1> QED BY <1>1, <1>2

LEMMA BeginWaitAlert ==
  ASSUME ServerInv, AlertInv, NEW t \in Threads, NEW c \in program[t], BeginWait(t, c)
  PROVE  AlertsOK'
  <1> SUFFICES ASSUME NEW u \in Threads PROVE AlertOK(u)'
    BY DEF AlertsOK
  <1>t. /\ pc \in [Threads -> [Frames -> Places]] /\ deadline \in [Threads -> {"none", "later", "past"}]
        /\ DOMAIN call = Threads /\ cancelled \in [Threads -> BOOLEAN]
    BY DEF ServerInv, TypesInv, StateInv, FlagsInv, CallsInv, AlertInv, ApcTypes
  <1>1. CASE u = t
    <2>1. call'[t] = c /\ pc'[t]["call"] = IF c.fn = "inproc_wait" THEN "driver" ELSE "select"
      BY <1>t DEF BeginWait, Frames
    <2>2. ~Asks(t)'
      BY <2>1 DEF Asks
    <2>3. t \notin dead' /\ alert_sync'[t] => user_apc'[t] # <<>>
      BY DEF BeginWait, apcs, AlertInv, AlertsOK, AlertOK
    <2>4. pc'[t]["call"] # "abort"
      BY <2>1
    <2> QED BY <1>1, <2>2, <2>3, <2>4 DEF AlertOK
  <1>2. CASE u # t
    <2>1. Aside(u) /\ pc'[u] = pc[u]
      BY <1>2, <1>t DEF Aside, BeginWait, history, apcs
    <2>2. Remembers(u)
      BY <2>1, SameRemembers DEF BeginWait, stops, Active
    <2> QED BY <2>1, <2>2, AsideOK DEF AlertInv, AlertsOK
  <1> QED BY <1>1, <1>2

-----------------------------------------------------------------------------
(* Requests.                                                               *)

LEMMA PlainRequestsAlert ==
  ASSUME ServerInv, AlertsOK, NEW t \in Threads, NEW c \in program[t],
         Signal(t, c) \/ ResetEvent(t, c) \/ SuspendThread(t, c) \/ SetThreadContext(t, c)
  PROVE  AlertsOK'
  <1> SUFFICES ASSUME NEW u \in Threads PROVE AlertOK(u)'
    BY DEF AlertsOK
  <1>1. Aside(u) /\ Idle
    BY DEF Aside, Signal, ResetEvent, SuspendThread, SetThreadContext, client, apcs, history
  <1>2. Suspended(u) => Suspended(u)'
    <2>1. CASE ~SuspendThread(t, c)
      BY <2>1 DEF Signal, ResetEvent, SetThreadContext, stops, Suspended
    <2>2. CASE SuspendThread(t, c)
      <3>1. suspend \in [Threads -> 0..MaxSuspend] /\ c.owner \in Threads /\ MaxSuspend \in Nat
        BY <2>2, ServerParts, CallFormed, BoundAssumption DEF ServerInv, TypesInv, SuspendThread, WellFormed
      <3>2. suspend'[u] = suspend[u] \/ suspend'[u] = suspend[u] + 1
        BY <2>2, <3>1 DEF SuspendThread
      <3>3. suspend[u] \in Nat
        BY <3>1
      <3> QED BY <3>2, <3>3 DEF Suspended
    <2> QED BY <2>1, <2>2
  <1>3. Remembers(u)
    BY <1>1, <1>2, IdleRemembers
  <1> QED BY <1>1, <1>3, AsideOK DEF AlertsOK

LEMMA ResumeThreadAlert ==
  ASSUME ServerInv, AlertsOK, NEW t \in Threads, NEW c \in program[t], ResumeThread(t, c)
  PROVE  AlertsOK'
  <1> SUFFICES ASSUME NEW u \in Threads PROVE AlertOK(u)'
    BY DEF AlertsOK
  <1>1. Aside(u) /\ Idle
    BY DEF Aside, ResumeThread, client, apcs, history
  <1>2. suspend \in [Threads -> 0..MaxSuspend] /\ c.owner \in Threads /\ MaxSuspend \in Nat
    BY ServerParts, CallFormed, BoundAssumption DEF ServerInv, TypesInv, ResumeThread, WellFormed
  <1>3. Suspended(u) => Suspended(u)' \/ Due(u)'
    <2>1. CASE u # c.owner
      <3>1. suspend'[u] = suspend[u]
        BY <1>2, <2>1 DEF ResumeThread
      <3> QED BY <3>1 DEF Suspended
    <2>2. CASE u = c.owner /\ suspend[u] = 1
      <3>1. todo' = <<WakeThread(u)>>
        BY <2>2 DEF ResumeThread, Resumes
      <3>2. Has(<<WakeThread(u)>>, WakeThread(u))
        BY HasOne
      <3>3. Has(todo', WakeThread(u))
        BY <3>1, <3>2
      <3> QED BY <3>3 DEF Due, WakeThread
    <2>3. CASE u = c.owner /\ suspend[u] # 1
      <3>1. suspend'[u] = suspend[u] - 1 /\ suspend[u] \in Nat
        BY <1>2, <2>3 DEF ResumeThread
      <3> QED BY <3>1, <2>3 DEF Suspended
    <2> QED BY <2>1, <2>2, <2>3
  <1>4. Remembers(u)
    BY <1>1, <1>3, IdleRemembers
  <1> QED BY <1>1, <1>4, AsideOK DEF AlertsOK

LEMMA WithoutTimerType ==
  ASSUME NEW s \in Seq({"user", "timer"})
  PROVE  WithoutTimer(s) \in Seq({"user", "timer"})
  <1> DEFINE K == {k \in DOMAIN s : s[k] # "timer"}
  <1>1. K \in SUBSET (1..Len(s))
    OBVIOUS
  <1> HIDE DEF K
  <1>2. Keep(s, K) \in Seq({"user", "timer"})
    BY <1>1, KeepType
  <1> QED BY <1>2 DEF WithoutTimer, K

\* A step that only changes the user APCs of one thread.
LEMMA ApcsChange ==
  ASSUME ServerInv, AlertInv, Idle, NEW o \in Threads, NEW q \in Seq({"user", "timer"}), NEW b \in BOOLEAN, NEW d \in BOOLEAN,
         user_apc' = [user_apc EXCEPT ![o] = q], alert_sync' = [alert_sync EXCEPT ![o] = b],
         cancelled' = [cancelled EXCEPT ![o] = d],
         b /\ o \notin dead => q # <<>>, cancelled[o] => d, user_apc[o] # <<>> => q # <<>> \/ d,
         UNCHANGED <<dead, pc, call, deadline, wait, pipe, stolen, suspend>>
  PROVE  AlertInv'
  <1>t. /\ user_apc \in [Threads -> Seq({"user", "timer"})] /\ cancelled \in [Threads -> BOOLEAN]
        /\ alert_sync \in [Threads -> BOOLEAN]
    BY DEF AlertInv, ApcTypes, ServerInv, TypesInv, FlagsInv
  <1>1. ApcTypes'
    BY <1>t DEF ApcTypes
  <1>2. ASSUME NEW u \in Threads PROVE AlertOK(u)'
    <2>1. AlertOK(u)
      BY DEF AlertInv, AlertsOK
    <2>2. Remembers(u)
      BY IdleRemembers DEF Suspended
    <2>3. CASE u # o
      <3>1. Aside(u)
        BY <1>t, <2>3 DEF Aside
      <3> QED BY <2>1, <2>2, <3>1, AsideOK
    <2>4. CASE u = o
      <3>1. user_apc'[o] = q /\ alert_sync'[o] = b /\ cancelled'[o] = d
        BY <1>t
      <3>2. \A x : Told(o, x)' => Told(o, x)
        BY ToldSame
      <3>3. (HasWait(o, "call")' <=> HasWait(o, "call")) /\ (Asks(o)' <=> Asks(o)) /\ (Suspended(o)' <=> Suspended(o))
        BY DEF HasWait, Asks, Suspended
      <3>4. ASSUME Asks(o)' PROVE AskStep(o)
        <4>1. AskOK(o) /\ ~Due(o) /\ Asks(o)
          BY <2>1, <2>4, <3>3, <3>4, NoDue DEF AlertOK
        <4>2. HasWait(o, "call")' => Suspended(o)'
          BY <3>3, <4>1 DEF AskOK
        <4>3. pc'[o]["call"] # "server"
          BY IdleNoServer DEF ServerInv, Frames
        <4> QED BY <3>1, <3>2, <4>1, <4>2, <4>3 DEF AskStep
      <3>5. AlertStep(o)
        BY <3>1, <3>4 DEF AlertStep
      <3> QED BY <2>1, <2>4, <3>5, AlertStepOK
    <2> QED BY <2>3, <2>4
  <1> QED BY <1>1, <1>2 DEF AlertInv, AlertsOK

LEMMA QueueUserApcAlert ==
  ASSUME ServerInv, AlertInv, NEW t \in Threads, NEW c \in program[t], QueueUserApc(t, c)
  PROVE  AlertInv'
  <1> DEFINE o == c.owner
             q == Append(user_apc[o], "user")
  <1>1. o \in Threads /\ cancelled \in [Threads -> BOOLEAN] /\ user_apc \in [Threads -> Seq({"user", "timer"})]
    BY CallFormed DEF ServerInv, TypesInv, QueueUserApc, WellFormed, AlertInv, ApcTypes
  <1>2. q \in Seq({"user", "timer"}) /\ q # <<>>
    <2> DEFINE s == user_apc[o]
    <2>1. s \in Seq({"user", "timer"}) /\ "user" \in {"user", "timer"}
      BY <1>1
    <2> HIDE DEF s
    <2>2. Append(s, "user") \in Seq({"user", "timer"}) /\ Append(s, "user") # <<>>
      BY <2>1
    <2> QED BY <2>2 DEF s
  <1>3. /\ user_apc' = [user_apc EXCEPT ![o] = q] /\ alert_sync' = [alert_sync EXCEPT ![o] = TRUE]
        /\ cancelled' = [cancelled EXCEPT ![o] = cancelled[o]] /\ cancelled[o] \in BOOLEAN
        /\ Idle /\ UNCHANGED <<dead, pc, call, deadline, wait, pipe, stolen, suspend>>
    BY <1>1 DEF QueueUserApc, history, client, stops
  <1> HIDE DEF o, q
  <1> QED BY <1>1, <1>2, <1>3, ApcsChange

LEMMA TimersAlert ==
  ASSUME ServerInv, AlertInv, NEW t \in Threads, NEW c \in program[t], SetTimer(t, c) \/ CancelTimerOf(t, c)
  PROVE  AlertInv'
  <1>1. PICK o \in Threads : CancelTimer(o)
    <2>1. CASE SetTimer(t, c)
      BY <2>1 DEF SetTimer
    <2>2. CASE CancelTimerOf(t, c)
      BY <2>2, CallFormed DEF ServerInv, TypesInv, CancelTimerOf, WellFormed
    <2> QED BY <2>1, <2>2
  <1>2. /\ cancelled \in [Threads -> BOOLEAN] /\ user_apc \in [Threads -> Seq({"user", "timer"})]
        /\ alert_sync \in [Threads -> BOOLEAN]
    BY DEF AlertInv, ApcTypes, ServerInv, TypesInv, FlagsInv
  <1> DEFINE q == WithoutTimer(user_apc[o])
             b == alert_sync[o] /\ q # <<>>
             d == cancelled[o] \/ q # user_apc[o]
  <1>3. q \in Seq({"user", "timer"})
    BY <1>2, WithoutTimerType
  <1>4. b \in BOOLEAN /\ d \in BOOLEAN
    BY <1>2
  <1>5. /\ user_apc' = [user_apc EXCEPT ![o] = q] /\ alert_sync' = [alert_sync EXCEPT ![o] = b]
        /\ cancelled' = [cancelled EXCEPT ![o] = d]
    BY <1>1 DEF CancelTimer, AlertLeft
  <1>6. Idle /\ UNCHANGED <<dead, pc, call, deadline, wait, pipe, stolen, suspend>>
    BY DEF SetTimer, CancelTimerOf, client, stops
  <1>7. (b /\ o \notin dead => q # <<>>) /\ (cancelled[o] => d) /\ (user_apc[o] # <<>> => q # <<>> \/ d)
    OBVIOUS
  <1> HIDE DEF q, b, d
  <1> QED BY <1>3, <1>4, <1>5, <1>6, <1>7, ApcsChange

LEMMA TimerCallbackAlert ==
  ASSUME ServerInv, AlertInv, NEW t \in Threads, TimerCallback(t)
  PROVE  AlertInv'
  <1>2. /\ cancelled \in [Threads -> BOOLEAN] /\ user_apc \in [Threads -> Seq({"user", "timer"})]
        /\ alert_sync \in [Threads -> BOOLEAN]
    BY DEF AlertInv, ApcTypes, ServerInv, TypesInv, FlagsInv
  <1>3. /\ Idle /\ UNCHANGED <<dead, pc, call, deadline, wait, pipe, stolen, suspend, cancelled>>
    BY DEF TimerCallback, client, stops, history
  <1>4. cancelled' = [cancelled EXCEPT ![t] = cancelled[t]] /\ cancelled[t] \in BOOLEAN
    BY <1>2, <1>3
  <1>5. CASE t \in dead
    <2>1. user_apc' = [user_apc EXCEPT ![t] = user_apc[t]] /\ alert_sync' = [alert_sync EXCEPT ![t] = alert_sync[t]]
      BY <1>2, <1>5 DEF TimerCallback
    <2>2. user_apc[t] \in Seq({"user", "timer"}) /\ alert_sync[t] \in BOOLEAN
      BY <1>2
    <2> QED BY <1>3, <1>4, <1>5, <2>1, <2>2, ApcsChange
  <1>6. CASE t \notin dead
    <2> DEFINE q == Append(WithoutTimer(user_apc[t]), "timer")
    <2>1. q \in Seq({"user", "timer"}) /\ q # <<>>
      <3>1. WithoutTimer(user_apc[t]) \in Seq({"user", "timer"}) /\ "timer" \in {"user", "timer"}
        BY <1>2, WithoutTimerType
      <3> QED BY <3>1
    <2>2. user_apc' = [user_apc EXCEPT ![t] = q] /\ alert_sync' = [alert_sync EXCEPT ![t] = TRUE]
      BY <1>6 DEF TimerCallback
    <2> HIDE DEF q
    <2> QED BY <1>3, <1>4, <2>1, <2>2, ApcsChange
  <1> QED BY <1>5, <1>6

LEMMA QueueSystemApcAlert ==
  ASSUME ServerInv, AlertsOK, NEW t \in Threads, NEW c \in program[t], QueueSystemApc(t, c)
  PROVE  AlertsOK'
  <1> SUFFICES ASSUME NEW u \in Threads PROVE AlertOK(u)'
    BY DEF AlertsOK
  <1>t. pc \in [Threads -> [Frames -> Places]] /\ DOMAIN call = Threads
    BY DEF ServerInv, TypesInv, StateInv, CallsInv
  <1>1. CASE u = t
    <2>1. call'[t] \in {NoCall, c} /\ c.fn = "queue_system"
      BY <1>t DEF QueueSystemApc
    <2>2. ~Asks(t)'
      BY <2>1 DEF Asks, NoCall
    <2>3. pc'[t]["call"] \in {"idle", "apc_wait"}
      BY <1>t DEF QueueSystemApc, Frames
    <2>4. AlertStep(t)
      BY <2>2, <2>3 DEF AlertStep, QueueSystemApc, history, AlertsOK, AlertOK
    <2> QED BY <1>1, <2>4, AlertStepOK DEF AlertsOK
  <1>2. CASE u # t
    <2>1. Aside(u)
      BY <1>2, <1>t DEF Aside, QueueSystemApc, history
    <2>2. Remembers(u)
      BY IdleRemembers DEF QueueSystemApc, stops, Suspended
    <2> QED BY <2>1, <2>2, AsideOK DEF AlertsOK
  <1> QED BY <1>1, <1>2

LEMMA KillThreadAlert ==
  ASSUME ServerInv, AlertsOK, NEW t \in Threads, NEW c \in program[t], KillThread(t, c)
  PROVE  AlertsOK'
  <1> SUFFICES ASSUME NEW u \in Threads PROVE AlertOK(u)'
    BY DEF AlertsOK
  <1> DEFINE d == c.owner
             callers == {system_apc[d][k] : k \in DOMAIN system_apc[d]}
  <1>t. /\ pc \in [Threads -> [Frames -> Places]] /\ wait \in [Threads -> Seq(Waits)]
        /\ system_apc \in [Threads -> Seq(Threads)] /\ d \in Threads
    BY CallFormed DEF ServerInv, TypesInv, StateInv, KillThread, WellFormed
  <1>1. ASSUME u \in callers PROVE pc[u]["call"] = "apc_wait" /\ pc'[u]["call"] = "requeue"
    <2>1. pc[u]["call"] = "apc_wait"
      BY <1>1, <1>t DEF ServerInv, ApcsInv, QueuedWait
    <2>2. pc'[u]["call"] = "requeue"
      BY <1>1, <1>t DEF KillThread, Frames
    <2> QED BY <2>1, <2>2
  <1>2. ASSUME u \notin callers PROVE pc'[u] = pc[u]
    BY <1>2, <1>t DEF KillThread
  <1>3. pc'[u]["call"] = "abort" => pc[u]["call"] = "abort"
    BY <1>1, <1>2
  <1>4. CASE u = d
    <2>1. u \in dead'
      BY <1>4 DEF KillThread
    <2>2. AlertStep(u)
      BY <1>3, <2>1 DEF AlertStep, Asks, KillThread, history
    <2> QED BY <2>2, AlertStepOK DEF AlertsOK
  <1>5. CASE u # d
    <2>1. /\ wait'[u] = wait[u] /\ user_apc'[u] = user_apc[u] /\ (u \in dead' <=> u \in dead)
          /\ UNCHANGED <<suspend, alert_sync, call, deadline, pipe, stolen, cancelled>> /\ Idle
      BY <1>5, <1>t DEF KillThread, history
    <2>2. \A x : Told(u, x)' => Told(u, x)
      BY <2>1, ToldSame
    <2>3. (HasWait(u, "call")' <=> HasWait(u, "call")) /\ (Suspended(u)' <=> Suspended(u))
      BY <2>1 DEF HasWait, Suspended
    <2>4. Asks(u)' => Asks(u)
      BY <1>1, <1>2, <2>1 DEF Asks
    <2>5. ASSUME Asks(u)' PROVE AskStep(u)
      <3>1. AskOK(u) /\ ~Due(u) /\ Asks(u)
        BY <2>1, <2>4, <2>5, NoDue DEF AlertsOK, AlertOK
      <3>2. HasWait(u, "call")' => Suspended(u)'
        BY <2>3, <3>1 DEF AskOK
      <3>3. pc'[u]["call"] # "server"
        BY <1>1, <1>2, <2>1, IdleNoServer DEF ServerInv, Frames
      <3> QED BY <2>1, <2>2, <3>1, <3>2, <3>3 DEF AskStep
    <2>6. AlertStep(u)
      BY <1>3, <2>1, <2>5 DEF AlertStep, AlertsOK, AlertOK
    <2> QED BY <2>6, AlertStepOK DEF AlertsOK
  <1> QED BY <1>4, <1>5

-----------------------------------------------------------------------------
(* Steps that end waits and read replies.                                  *)

\* A thread that asks is sent nothing but an APC, unless one was cancelled.
LEMMA SendTold ==
  ASSUME ServerInv, NEW t \in Threads, wait[t] # <<>>,
         NEW v, (v = CheckWait(t) /\ CanEnd(t)) \/ v = [status |-> "timeout", index |-> 0],
         EndWait(t, v), Send(Ends(t, v), v), stolen' = stolen,
         Asks(t) /\ Head(wait[t]).frame = "call" =>
            v.status \in {"kernel_apc", "user_apc"} \/ (v.status = "timeout" /\ cancelled[t]),
         NEW u \in Threads, Asks(u)
  PROVE  /\ HasWait(u, "call")' => HasWait(u, "call")
         /\ \A x : Told(u, x)' => Told(u, x) \/ x \in {"kernel_apc", "user_apc"} \/ (x = "timeout" /\ cancelled[u])
  <1> USE ServerParts
  <1>1. /\ v.status \in Statuses /\ v.index \in Nat
        /\ \A w \in Ends(t, v) : wait[w] # <<>> /\ wait'[w] = Tail(wait[w])
        /\ \A w \in Threads \ Ends(t, v) : wait'[w] = wait[w]
    BY EndFacts
  <1>2. t \in Ends(t, v) /\ Ends(t, v) \subseteq Threads
    BY EndsWait
  <1> DEFINE E == Ends(t, v)
  <1>3. E \in SUBSET Threads /\ Send(E, v)
    BY <1>2
  <1>4. /\ \A w \in E : Head(wait[w]).cookie => pipe'[w] = Append(pipe[w], ReplyTo(w, v))
        /\ \A w \in Threads : w \notin E \/ ~Head(wait[w]).cookie => pipe'[w] = pipe[w]
    <2> HIDE DEF E
    <2> QED BY <1>3, SendFacts
  <1>5. CASE u \notin E
    <2>1. wait'[u] = wait[u] /\ pipe'[u] = pipe[u] /\ stolen'[u] = stolen[u]
      BY <1>1, <1>4, <1>5
    <2> QED BY <2>1, ToldSame DEF HasWait
  <1>6. CASE u \in E /\ u # t
    <2>1. v.status = "object"
      BY <1>6, EndsWait
    <2>2. v = CheckWait(t) /\ CanEnd(t)
      BY <2>1
    <2>3. IsKeyed(call[u])
      BY <1>6, <2>2, PartnerApart
    <2> QED BY <2>3 DEF IsKeyed, Asks
  <1>7. CASE u = t
    <2>1. wait'[u] = Tail(wait[u]) /\ StackOK(u)
      BY <1>1, <1>2, <1>7 DEF StacksInv
    <2>2. HasWait(u, "call")' => HasWait(u, "call")
      BY <2>1, <1>7, WaitMoves
    <2>3. CASE ~Head(wait[u]).cookie
      <3>1. pipe'[u] = pipe[u] /\ stolen'[u] = stolen[u]
        BY <1>4, <2>3
      <3> QED BY <2>2, <3>1, ToldSame
    <2>4. CASE Head(wait[u]).cookie
      <3> DEFINE r == ReplyTo(u, v)
      <3>1. Head(wait[u]).frame \in Frames
        BY <1>7, <2>1, TopFrame
      <3>2. /\ r \in Replies /\ r.cookie = Head(wait[u]).frame
            /\ Head(wait[u]).frame = "call" => r.status = v.status
        BY <1>1, <3>1 DEF ReplyTo, Replies, Statuses, Handled
      <3>3. pipe'[u] = Append(pipe[u], r) /\ stolen'[u] = stolen[u]
        BY <1>2, <1>4, <1>7, <2>4
      <3> HIDE DEF r
      <3>4. \A x : Told(u, x)' => Told(u, x) \/ (r.cookie = "call" /\ r.status = x)
        BY <3>2, <3>3, ToldSent
      <3> QED BY <1>7, <2>2, <3>2, <3>4
    <2> QED BY <2>3, <2>4
  <1> QED BY <1>2, <1>5, <1>6, <1>7

LEMMA WakeThreadStepAlert == ASSUME ServerInv, AlertsOK, WakeThreadStep PROVE AlertsOK'
  <1> USE ServerParts
  <1> SUFFICES ASSUME NEW u \in Threads PROVE AlertOK(u)'
    BY DEF AlertsOK
  <1> DEFINE t == Head(todo).thread
             v == CheckWait(t)
  <1>1. /\ todo # <<>> /\ Head(todo).do = "wake_thread"
        /\ UNCHANGED <<pc, stolen, dead, call, suspend, alert_sync, user_apc, deadline, cancelled>>
    BY DEF WakeThreadStep, Doing, apcs, client, history
  <1>2. t \in Threads /\ AlertOK(t) /\ AlertOK(u)
    BY <1>1, ItemsTail DEF IsItem, AlertsOK
  <1>3. ~(Asks(u) /\ pc[u]["call"] = "server")
    BY <1>1, NotAsking
  <1>4. /\ Asks(u)' <=> Asks(u)
        /\ Suspended(u)' <=> Suspended(u)
        /\ Active(u)' = Active(u)
    BY <1>1 DEF Asks, Suspended, Active
  <1>5. ASSUME NEW x, todo' = Tail(todo), Has(todo, x), x # Head(todo) PROVE Has(todo', x)
    <2>1. Has(Tail(todo), x)
      BY <1>1, <1>5, HasTail
    <2> QED BY <1>5, <2>1
  <1>6. CASE ~CanEnd(t)
    <2>1. todo' = Tail(todo) /\ UNCHANGED <<wait, pipe>>
      BY <1>6 DEF WakeThreadStep
    <2>2. CASE u # t
      <3>1. Head(todo) # WakeThread(u) /\ Head(todo) # EndSelect(u)
        BY <1>1, <2>2, ItemsApart
      <3>2. Due(u) => Due(u)'
        <4>1. /\ Has(todo, WakeThread(u)) => Has(todo', WakeThread(u))
              /\ Has(todo, EndSelect(u)) => Has(todo', EndSelect(u))
          BY <1>5, <2>1, <3>1
        <4> QED BY <1>4, <4>1 DEF Due, WakeThread, EndSelect
      <3>3. Aside(u) /\ Remembers(u)
        BY <1>1, <1>3, <1>4, <2>1, <3>2 DEF Aside, Remembers
      <3> QED BY <1>2, <3>3, AsideOK
    <2>3. CASE u = t
      <3>1. ASSUME Asks(u)' PROVE AskStep(u)
        <4>1. Asks(u) /\ pc'[u]["call"] # "server"
          BY <1>1, <1>3, <1>4, <3>1
        <4>2. wait[u] # <<>> => Suspended(u)
          BY <1>2, <1>6, <2>3, <4>1, AskEnds
        <4>3. HasWait(u, "call")' => Suspended(u)'
          <5>1. HasWait(u, "call")' => wait[u] # <<>>
            BY <2>1 DEF HasWait
          <5> QED BY <1>4, <4>2, <5>1
        <4>4. \A x : Told(u, x)' => Told(u, x)
          BY <1>1, <2>1, ToldSame
        <4> QED BY <1>1, <4>1, <4>3, <4>4 DEF AskStep
      <3>2. AlertStep(u)
        BY <1>1, <1>2, <3>1 DEF AlertStep, AlertOK
      <3> QED BY <1>2, <3>2, AlertStepOK
    <2> QED BY <2>2, <2>3
  <1>7. CASE CanEnd(t)
    <2>1. EndWait(t, v) /\ Send(Ends(t, v), v) /\ todo' = todo /\ wait[t] # <<>>
      BY <1>7 DEF WakeThreadStep, CanEnd
    <2>2. Asks(t) /\ Head(wait[t]).frame = "call" =>
            v.status \in {"kernel_apc", "user_apc"} \/ (v.status = "timeout" /\ cancelled[t])
      BY <1>2, <1>7, <2>1, AskEnds
    <2>3. stolen' = stolen
      BY <1>1
    <2> HIDE DEF t
    <2>4. ASSUME Asks(u)' PROVE AskStep(u)
      <3>1. Asks(u) /\ AskOK(u)
        BY <1>2, <1>4, <2>4 DEF AlertOK
      <3>2. /\ HasWait(u, "call")' => HasWait(u, "call")
            /\ \A x : Told(u, x)' => Told(u, x) \/ x \in {"kernel_apc", "user_apc"} \/ (x = "timeout" /\ cancelled[u])
        BY <1>2, <1>7, <2>1, <2>2, <2>3, <3>1, SendTold
      <3>3. Due(u)' <=> Due(u)
        BY <1>4, <2>1 DEF Due, Has
      <3>4. HasWait(u, "call")' => Suspended(u)' \/ Due(u)'
        BY <1>4, <3>1, <3>2, <3>3 DEF AskOK
      <3>5. pc'[u]["call"] # "server"
        BY <1>1, <1>3, <3>1
      <3> QED BY <1>1, <3>1, <3>2, <3>4, <3>5 DEF AskStep
    <2>5. AlertStep(u)
      BY <1>1, <1>2, <2>4 DEF AlertStep, AlertOK
    <2> QED BY <1>2, <2>5, AlertStepOK
  <1> QED BY <1>6, <1>7

\* A thread that asks is not told that its time is over: it would not sleep.
LEMMA ThreadTimeoutAlert == ASSUME ServerInv, AlertsOK, NEW t \in Threads, ThreadTimeout(t) PROVE AlertsOK'
  <1> USE ServerParts
  <1> SUFFICES ASSUME NEW u \in Threads PROVE AlertOK(u)'
    BY DEF AlertsOK
  <1> DEFINE v == [status |-> "timeout", index |-> 0]
  <1>1. PICK k \in DOMAIN wait[t] :
              /\ Idle
              /\ IF k = 1 /\ ~Suspended(t)
                 THEN EndWait(t, v) /\ Send({t}, v) /\ todo' = <<WakeThread(t)>>
                 ELSE /\ wait' = [wait EXCEPT ![t][k].user = FALSE]
                      /\ UNCHANGED <<objects, queue, pipe, context, todo>>
    BY DEF ThreadTimeout
  <1>2. UNCHANGED <<pc, stolen, dead, call, suspend, alert_sync, user_apc, deadline, cancelled>>
    BY DEF ThreadTimeout, apcs, client, history
  <1>3. wait \in [Threads -> Seq(Waits)] /\ wait[t] \in Seq(Waits) /\ Len(wait[t]) \in Nat /\ StackOK(t)
    BY DEF StateInv, StacksInv
  <1>4. wait[t] # <<>> /\ k \in 1..Len(wait[t]) /\ AlertOK(t) /\ AlertOK(u)
    BY <1>1, <1>3 DEF AlertsOK
  <1>5. /\ Asks(u)' <=> Asks(u)
        /\ Suspended(u)' <=> Suspended(u)
    BY <1>2 DEF Asks, Suspended
  <1>6. ~Due(u) /\ ~Due(t) /\ pc[u]["call"] # "server"
    BY <1>1, NoDue, IdleNoServer DEF Frames
  <1>7. CASE k = 1 /\ ~Suspended(t)
    <2>1. EndWait(t, v) /\ Send({t}, v) /\ todo' = <<WakeThread(t)>>
      BY <1>1, <1>7
    <2>2. Ends(t, v) = {t}
      BY DEF Ends
    <2> HIDE DEF v
    <2>3. v = [status |-> "timeout", index |-> 0] /\ Send(Ends(t, v), v) /\ stolen' = stolen
      BY <1>2, <2>1, <2>2 DEF v
    <2>4. ~(Asks(t) /\ Head(wait[t]).frame = "call")
      <3>1. HasWait(t, Head(wait[t]).frame)
        BY <1>3, <1>4, TopFrame
      <3> QED BY <1>4, <1>6, <1>7, <3>1 DEF AlertOK, AskOK
    <2>5. ASSUME Asks(u)' PROVE AskStep(u)
      <3>1. Asks(u) /\ AskOK(u)
        BY <1>4, <1>5, <2>5 DEF AlertOK
      <3>2. /\ HasWait(u, "call")' => HasWait(u, "call")
            /\ \A x : Told(u, x)' => Told(u, x) \/ x \in {"kernel_apc", "user_apc"} \/ (x = "timeout" /\ cancelled[u])
        BY <1>4, <2>1, <2>3, <2>4, <3>1, SendTold
      <3>3. HasWait(u, "call")' => Suspended(u)' \/ Due(u)'
        <4>1. CASE u # t
          BY <1>5, <1>6, <3>1, <3>2 DEF AskOK
        <4>2. CASE u = t
          <5>1. Has(<<WakeThread(u)>>, WakeThread(u))
            BY HasOne
          <5>2. Has(todo', WakeThread(u))
            BY <2>1, <4>2, <5>1
          <5> QED BY <5>2 DEF Due, WakeThread
        <4> QED BY <4>1, <4>2
      <3> QED BY <1>2, <1>6, <3>1, <3>2, <3>3 DEF AskStep
    <2>6. AlertStep(u)
      BY <1>2, <1>4, <2>5 DEF AlertStep, AlertOK
    <2> QED BY <1>4, <2>6, AlertStepOK
  <1>8. CASE ~(k = 1 /\ ~Suspended(t))
    <2>1. wait' = [wait EXCEPT ![t][k].user = FALSE] /\ UNCHANGED <<pipe, todo>>
      BY <1>1, <1>8
    <2>2. HasWait(u, "call")' <=> HasWait(u, "call")
      <3>1. CASE u # t
        BY <1>3, <2>1, <3>1 DEF HasWait
      <3>2. CASE u = t
        <4>1. wait'[t] = [wait[t] EXCEPT ![k].user = FALSE]
          BY <1>3, <2>1
        <4>2. Disarms(t)
          BY <1>1, <1>2, <2>1, <4>1 DEF Disarms, Apart
        <4> QED BY <1>3, <3>2, <4>2, WaitMoves
      <3> QED BY <3>1, <3>2
    <2>3. \A x : Told(u, x)' => Told(u, x)
      BY <1>2, <2>1, ToldSame
    <2>4. ASSUME Asks(u)' PROVE AskStep(u)
      <3>1. Asks(u) /\ AskOK(u)
        BY <1>4, <1>5, <2>4 DEF AlertOK
      <3>2. HasWait(u, "call")' => Suspended(u)'
        BY <1>5, <1>6, <2>2, <3>1 DEF AskOK
      <3> QED BY <1>2, <1>6, <2>3, <3>1, <3>2 DEF AskStep
    <2>5. AlertStep(u)
      BY <1>2, <1>4, <2>4 DEF AlertStep, AlertOK
    <2> QED BY <1>4, <2>5, AlertStepOK
  <1> QED BY <1>7, <1>8

LEMMA ReadReplyAlert == ASSUME ServerInv, AlertsOK, NEW t \in Threads, ReadReply(t) PROVE AlertsOK'
  <1> USE ServerParts
  <1> SUFFICES ASSUME NEW u \in Threads PROVE AlertOK(u)'
    BY DEF AlertsOK
  <1> DEFINE f == Active(t)
             r == Head(pipe[t])
  <1>1. /\ t \notin dead /\ pc[t][f] = "read" /\ pipe[t] # <<>>
        /\ UNCHANGED <<wait, suspend, alert_sync, user_apc, dead, todo, cancelled>>
    BY DEF ReadReply, stops, apcs, history
  <1>2. f \in Frames
    BY DEF Active, Frames
  <1>3. /\ pipe \in [Threads -> Seq(Replies)] /\ stolen \in [Threads -> Seq(Replies)] /\ pc \in [Threads -> [Frames -> Places]]
        /\ DOMAIN call = Threads /\ deadline \in [Threads -> {"none", "later", "past"}] /\ AlertOK(t) /\ AlertOK(u)
    BY DEF StateInv, CallsInv, FlagsInv, AlertsOK
  <1>4. pipe[t][1] = r /\ 1 \in 1..Len(pipe[t])
    BY <1>1, <1>3, HeadTail
  <1>5. (Suspended(u)' <=> Suspended(u)) /\ (HasWait(u, "call")' <=> HasWait(u, "call"))
    BY <1>1 DEF Suspended, HasWait
  <1>6. CASE /\ r.cookie # f
             /\ stolen' = [stolen EXCEPT ![t] = <<r>> \o @]
             /\ pipe' = [pipe EXCEPT ![t] = Tail(@)]
             /\ UNCHANGED <<pc, call, deadline>>
    <2> HIDE DEF r
    <2>1. CASE u # t
      <3>1. Aside(u)
        BY <1>1, <1>3, <1>6, <2>1 DEF Aside
      <3>2. Remembers(u)
        BY <1>1, <1>6, SameRemembers DEF Active
      <3> QED BY <1>3, <3>1, <3>2, AsideOK
    <2>2. CASE u = t
      <3>1. Steals(t)
        BY <1>1, <1>3, <1>6 DEF Steals, r
      <3>2. \A x : Told(u, x)' => Told(u, x)
        BY <2>2, <3>1, ToldRead
      <3>3. Due(u)' <=> Due(u)
        BY <1>1, <1>6 DEF Due, Has, Active
      <3>4. ASSUME Asks(u)' PROVE AskStep(u)
        <4>1. Asks(u) /\ AskOK(u)
          BY <1>1, <1>3, <1>6, <3>4 DEF Asks, AlertOK
        <4> QED BY <1>1, <1>5, <1>6, <3>2, <3>3, <4>1 DEF AskStep, AskOK
      <3>5. AlertStep(u)
        BY <1>1, <1>3, <1>6, <3>4 DEF AlertStep, AlertOK
      <3> QED BY <1>3, <3>5, AlertStepOK
    <2> QED BY <2>1, <2>2
  <1>7. CASE /\ r.cookie = f
             /\ pipe' = [pipe EXCEPT ![t] = Tail(@) \o PutBack(t)]
             /\ stolen' = [stolen EXCEPT ![t] = <<>>]
             /\ IF r.status \in {"kernel_apc", "user_apc"}
                THEN pc' = [pc EXCEPT ![t][f] = "select"] /\ UNCHANGED <<call, deadline>>
                ELSE Returned(t, f, r.status)
    <2> HIDE DEF r, f
    <2>1. PutBack(t) = stolen[t]
      BY DEF PutBack
    <2>2. PICK x \in {"select", "idle", "abort"} :
             /\ pc' = [pc EXCEPT ![t][f] = x]
             /\ x = "abort" => f = "call" /\ call[t].fn = "inproc_wait" /\ r.status \notin {"kernel_apc", "user_apc"}
             /\ x = "select" => UNCHANGED <<call, deadline>>
             /\ x # "select" => /\ call' = [call EXCEPT ![t] = IF f = "call" THEN NoCall ELSE @]
                                /\ deadline' = [deadline EXCEPT ![t] = IF f = "call" THEN "none" ELSE @]
      <3>1. CASE r.status \in {"kernel_apc", "user_apc"}
        BY <1>7, <3>1
      <3>2. CASE r.status \notin {"kernel_apc", "user_apc"}
        BY <1>7, <3>2 DEF Returned
      <3> QED BY <3>1, <3>2
    <2>3. /\ \A w \in Threads : w # t => pc'[w] = pc[w] /\ call'[w] = call[w] /\ deadline'[w] = deadline[w]
          /\ pc'[t] = [pc[t] EXCEPT ![f] = x]
      BY <1>2, <1>3, <2>2
    <2>4. CASE u # t
      <3>1. Aside(u)
        BY <1>1, <1>3, <1>7, <2>3, <2>4 DEF Aside
      <3>2. Remembers(u)
        BY <1>1, <2>3, <2>4, SameRemembers DEF Active
      <3> QED BY <1>3, <3>1, <3>2, AsideOK
    <2>5. CASE u = t
      <3>1. Reads(t, x)
        <4>1. pipe'[t] = Tail(pipe[t]) \o stolen[t] /\ stolen'[t] = <<>>
          BY <1>3, <1>7, <2>1
        <4> QED BY <1>1, <1>7, <2>2, <2>3, <4>1 DEF Reads, r, f
      <3>2. \A y : Told(u, y)' => Told(u, y)
        <4>1. x \in Places
          BY DEF Places
        <4> QED BY <2>5, <3>1, <4>1, ToldRead
      <3>3. Due(u) => Due(u)'
        <4>1. Active(u) = "call" => Active(u)' = "call"
          <5>1. Active(t) = "call" => f = "call" /\ pc[t]["suspend"] = "idle"
            BY DEF f, Active
          <5>2. Active(t) = "call" => pc'[t]["suspend"] = "idle"
            BY <1>2, <1>3, <2>3, <5>1 DEF Frames
          <5> QED BY <2>5, <5>2 DEF Active
        <4> QED BY <1>1, <4>1 DEF Due, Has
      <3>4. CASE f = "suspend"
        <4>1. pc'[t]["call"] = pc[t]["call"] /\ call'[t] = call[t] /\ deadline'[t] = deadline[t]
          BY <1>2, <1>3, <2>2, <2>3, <3>4 DEF Frames
        <4>2. ASSUME Asks(u)' PROVE AskStep(u)
          <5>1. Asks(u) /\ AskOK(u)
            BY <1>1, <1>3, <2>5, <4>1, <4>2 DEF Asks, AlertOK
          <5> QED BY <1>1, <1>5, <2>5, <3>2, <3>3, <4>1, <5>1 DEF AskStep, AskOK
        <4>3. AlertStep(u)
          BY <1>1, <1>3, <2>5, <4>1, <4>2 DEF AlertStep, AlertOK
        <4> QED BY <1>3, <4>3, AlertStepOK
      <3>5. CASE f = "call" /\ x = "select"
        <4>1. pc'[t]["call"] = "select" /\ pc[t]["call"] = "read" /\ call'[t] = call[t] /\ deadline'[t] = deadline[t]
          BY <1>1, <1>2, <1>3, <2>2, <2>3, <3>5 DEF Frames
        <4>2. ASSUME Asks(u)' PROVE AskStep(u)
          <5>1. Asks(u) /\ AskOK(u)
            BY <1>1, <1>3, <2>5, <4>1, <4>2 DEF Asks, AlertOK
          <5> QED BY <1>1, <1>5, <2>5, <3>2, <3>3, <4>1, <5>1 DEF AskStep, AskOK
        <4>3. AlertStep(u)
          BY <1>1, <1>3, <2>5, <4>1, <4>2 DEF AlertStep, AlertOK
        <4> QED BY <1>3, <4>3, AlertStepOK
      <3>6. CASE f = "call" /\ x # "select"
        <4>1. call'[t] = NoCall /\ pc'[t]["call"] = x /\ pc[t]["call"] = "read"
          BY <1>1, <1>2, <1>3, <2>2, <2>3, <3>6 DEF Frames
        <4>2. ~Asks(u)'
          BY <2>5, <4>1 DEF Asks, NoCall
        <4>3. ASSUME x = "abort" PROVE cancelled[t]
          <5>1. Asks(t)
            BY <1>1, <2>2, <4>1, <4>3 DEF Asks
          <5>2. Told(t, r.status)
            BY <1>4, <1>7, <3>6 DEF Told, Tells
          <5> QED BY <1>3, <2>2, <4>3, <5>1, <5>2 DEF AlertOK, AskOK
        <4>4. AlertStep(u)
          BY <1>1, <1>3, <2>5, <4>1, <4>2, <4>3 DEF AlertStep, AlertOK
        <4> QED BY <1>3, <4>4, AlertStepOK
      <3> QED BY <1>2, <3>4, <3>5, <3>6 DEF Frames
    <2> QED BY <2>4, <2>5
  <1> QED BY <1>6, <1>7 DEF ReadReply

\* A request of a thread that asks has nothing to do but to end.
LEMMA SelectAlert == ASSUME ServerInv, AlertsOK, NEW t \in Threads, Select(t) PROVE AlertsOK'
  <1> USE ServerParts
  <1> SUFFICES ASSUME NEW u \in Threads PROVE AlertOK(u)'
    BY DEF AlertsOK
  <1> DEFINE f == Active(t)
  <1>1. /\ Idle /\ t \notin dead /\ pc[t][f] \in {"select", "again", "handler"} /\ StorePrevApc(t, f)
        /\ wait' = [wait EXCEPT ![t] = <<[frame |-> f, cookie |-> FALSE, user |-> FALSE]>> \o @]
        /\ UNCHANGED <<suspend, alert_sync, user_apc, system_apc, dead, deadline, stolen, pipe, cancelled>>
    BY DEF Select, apcs
  <1>2. f \in Frames
    BY DEF Active, Frames
  <1>3. wait \in [Threads -> Seq(Waits)] /\ pc \in [Threads -> [Frames -> Places]] /\ StackOK(t) /\ AlertOK(u)
    BY DEF StateInv, StacksInv, AlertsOK
  <1>4. /\ pc'[t] = [pc[t] EXCEPT ![f] = "server"]
        /\ \A w \in Threads : w # t =>
              pc'[w] = pc[w] \/ (pc[w]["call"] = "apc_wait" /\ pc'[w] = [pc[w] EXCEPT !["call"] = "idle"])
        /\ \A w \in Threads : pc[w]["call"] # "apc_wait" => call'[w] = call[w]
        /\ \A w \in Threads : call'[w] = call[w] \/ call'[w] = NoCall
    BY <1>1, <1>2, SelectApcs
  <1>5. pc[u]["call"] # "server" /\ ~Due(u)
    BY <1>1, IdleNoServer, NoDue DEF Frames
  <1>6. \A x : Told(u, x)' => Told(u, x)
    BY <1>1, ToldSame
  <1>7. Suspended(u)' <=> Suspended(u)
    BY <1>1 DEF Suspended
  <1>8. pc'[u]["call"] = "abort" => pc[u]["call"] = "abort"
    <2>1. CASE u # t
      BY <1>3, <1>4, <2>1 DEF Frames
    <2>2. CASE u = t
      <3>1. pc'[t]["call"] = "server" \/ pc'[t]["call"] = pc[t]["call"]
        BY <1>2, <1>3, <1>4 DEF Frames
      <3> QED BY <2>2, <3>1
    <2> QED BY <2>1, <2>2
  <1>9. Asks(u)' => call'[u] = call[u]
    BY <1>4 DEF Asks, NoCall
  <1>10. ASSUME Asks(u)' PROVE AskStep(u)
    <2>1. CASE u # t
      <3>1. pc'[u] = pc[u] \/ (pc[u]["call"] = "apc_wait" /\ pc'[u]["call"] = "idle")
        BY <1>3, <1>4, <2>1 DEF Frames
      <3>2. pc'[u]["call"] # "server" /\ (pc'[u]["call"] # "driver" => pc[u]["call"] # "driver")
        BY <1>5, <3>1
      <3>3. Asks(u) /\ AskOK(u) /\ call'[u] = call[u]
        BY <1>1, <1>3, <1>9, <1>10, <3>2 DEF Asks, AlertOK
      <3>4. HasWait(u, "call")' => HasWait(u, "call")
        BY <1>1, <1>3, <2>1 DEF HasWait
      <3>5. HasWait(u, "call")' => Suspended(u)'
        BY <1>5, <1>7, <3>3, <3>4 DEF AskOK
      <3> QED BY <1>1, <1>6, <3>2, <3>3, <3>5 DEF AskStep
    <2>2. CASE u = t
      <3>1. Pushes(t)
        BY <1>1, <1>3, <1>4 DEF Pushes, Apart
      <3>2. HasWait(t, "call")' <=> HasWait(t, "call") \/ f = "call"
        BY <1>3, <3>1, WaitMoves
      <3>3. CASE f = "suspend"
        <4>1. pc'[t]["call"] = pc[t]["call"]
          BY <1>3, <1>4, <3>3 DEF Frames
        <4>2. Asks(u) /\ AskOK(u) /\ call'[u] = call[u]
          BY <1>1, <1>3, <1>9, <1>10, <2>2, <4>1 DEF Asks, AlertOK
        <4>3. HasWait(u, "call")' => Suspended(u)'
          BY <1>5, <1>7, <2>2, <3>2, <3>3, <4>2 DEF AskOK
        <4> QED BY <1>1, <1>5, <1>6, <2>2, <4>1, <4>2, <4>3 DEF AskStep
      <3>4. CASE f = "call"
        <4>1. pc[t]["call"] \in {"select", "again"}
          BY <1>1, <1>3, <3>4 DEF StackOK
        <4>2. Asks(u) /\ AskOK(u) /\ call'[u] = call[u]
          BY <1>1, <1>3, <1>9, <1>10, <2>2, <4>1 DEF Asks, AlertOK
        <4>3. todo' = <<EndSelect(t)>>
          <5>1. ~Signals(t, f)
            BY <2>2, <4>2 DEF Asks, Signals
          <5> QED BY <5>1 DEF Select
        <4>4. Active(t)' = "call"
          <5>1. pc[t]["suspend"] = "idle"
            BY <3>4 DEF Active
          <5>2. pc'[t]["suspend"] = "idle"
            BY <1>3, <1>4, <3>4, <5>1 DEF Frames
          <5> QED BY <5>2 DEF Active
        <4>5. Due(u)'
          <5>1. Has(<<EndSelect(t)>>, EndSelect(t))
            BY HasOne
          <5>2. Has(todo', EndSelect(t))
            BY <4>3, <5>1
          <5> QED BY <2>2, <4>4, <5>2 DEF Due, EndSelect
        <4>6. Len(todo') = 1
          BY <4>3
        <4> QED BY <1>1, <1>6, <2>2, <3>2, <3>4, <4>2, <4>5, <4>6 DEF AskStep
      <3> QED BY <1>2, <3>3, <3>4 DEF Frames
    <2> QED BY <2>1, <2>2
  <1>11. AlertStep(u)
    BY <1>1, <1>3, <1>8, <1>10 DEF AlertStep, AlertOK
  <1> QED BY <1>3, <1>11, AlertStepOK

\* The end of a request, for the threads that do not make it.
LEMMA SelectEndsOthers ==
  ASSUME ServerInv, AlertsOK, NEW t \in Threads, Doing("select"), Head(todo).thread = t,
         UNCHANGED <<suspend, dead, stolen, cancelled>>, NEW u \in Threads, u # t,
         pc'[u] = pc[u], call'[u] = call[u], deadline'[u] = deadline[u],
         user_apc'[u] = user_apc[u], alert_sync'[u] = alert_sync[u],
         (wait'[u] = wait[u] /\ pipe'[u] = pipe[u]) \/ IsKeyed(call[u])
  PROVE  AlertOK(u)'
  <1>1. AlertOK(u)
    BY DEF AlertsOK
  <1>2. CASE wait'[u] = wait[u] /\ pipe'[u] = pipe[u]
    <2>1. Aside(u)
      BY <1>2 DEF Aside
    <2>2. ~Due(u) /\ pc[u]["call"] # "server"
      BY LoneSelect, SelectDone DEF Frames
    <2>3. Remembers(u)
      BY <2>2 DEF Remembers, Suspended
    <2> QED BY <1>1, <2>1, <2>3, AsideOK
  <1>3. CASE IsKeyed(call[u])
    <2>1. ~Asks(u)'
      BY <1>3 DEF Asks, IsKeyed
    <2>2. AlertStep(u)
      BY <1>1, <2>1 DEF AlertStep, AlertOK
    <2> QED BY <1>1, <2>2, AlertStepOK
  <1> QED BY <1>2, <1>3

LEMMA SelectWokenAlert == ASSUME ServerInv, AlertsOK, NEW t \in Threads, SelectWoken(t) PROVE AlertsOK'
  <1> USE ServerParts
  <1> SUFFICES ASSUME NEW u \in Threads PROVE AlertOK(u)'
    BY DEF AlertsOK
  <1>1. /\ Doing("select") /\ Head(todo).thread = t /\ wait[t] = <<>> /\ Returned(t, "call", "object")
        /\ UNCHANGED <<suspend, dead, stolen, cancelled, wait, pipe, user_apc, alert_sync>>
    BY DEF SelectWoken, stops, history, apcs
  <1>2. pc \in [Threads -> [Frames -> Places]] /\ DOMAIN call = Threads /\ deadline \in [Threads -> {"none", "later", "past"}]
    BY DEF StateInv, CallsInv, FlagsInv
  <1>3. CASE u # t
    <2>1. pc'[u] = pc[u] /\ call'[u] = call[u] /\ deadline'[u] = deadline[u]
      BY <1>1, <1>2, <1>3 DEF Returned
    <2> QED BY <1>1, <1>3, <2>1, SelectEndsOthers
  <1>4. CASE u = t
    <2>1. t \notin dead /\ pc[t]["call"] = "server"
      BY <1>1, SelectDone
    <2>2. ~Asks(t)
      <3>1. ~HasWait(t, "call")
        BY <1>1 DEF HasWait
      <3> QED BY <2>1, <3>1 DEF AlertsOK, AlertOK, AskOK
    <2>3. call[t].fn # "inproc_wait"
      BY <2>1, <2>2 DEF Asks
    <2>4. pc'[t]["call"] = "idle" /\ call'[t] = NoCall
      BY <1>1, <1>2, <2>3 DEF Returned, Frames
    <2>5. ~Asks(t)'
      BY <2>4 DEF Asks, NoCall
    <2>6. AlertStep(t)
      BY <1>1, <2>4, <2>5 DEF AlertStep, AlertsOK, AlertOK
    <2> QED BY <1>4, <2>6, AlertStepOK DEF AlertsOK
  <1> QED BY <1>3, <1>4

\* A thread that asks sleeps only while it is suspended.
LEMMA SelectPendsAlert == ASSUME ServerInv, AlertsOK, NEW t \in Threads, SelectPends(t) PROVE AlertsOK'
  <1> USE ServerParts
  <1> SUFFICES ASSUME NEW u \in Threads PROVE AlertOK(u)'
    BY DEF AlertsOK
  <1> DEFINE f == Active(t)
             w == [frame |-> f, cookie |-> TRUE, user |-> f = "suspend" \/ deadline[t] # "none"]
  <1>1. /\ Doing("select") /\ Head(todo).thread = t /\ wait[t] # <<>> /\ ~CanEnd(t)
        /\ wait' = [wait EXCEPT ![t] = <<w>> \o Tail(@)]
        /\ pc' = [pc EXCEPT ![t][f] = "read"]
        /\ UNCHANGED <<suspend, dead, stolen, cancelled, pipe, user_apc, alert_sync, call, deadline>>
    BY DEF SelectPends, stops, history, apcs
  <1>2. pc \in [Threads -> [Frames -> Places]] /\ wait \in [Threads -> Seq(Waits)] /\ StackOK(t) /\ AlertOK(t)
    BY DEF StateInv, StacksInv, AlertsOK
  <1>3. /\ f \in Frames /\ pc[t][f] = "server" /\ t \notin dead
        /\ Head(wait[t]).frame = f /\ ~Head(wait[t]).cookie
    BY <1>1, SelectDone
  <1>4. w \in Waits /\ w.frame = f /\ w.cookie
    BY <1>3 DEF Waits
  <1> HIDE DEF w
  <1>5. CASE u # t
    <2>1. pc'[u] = pc[u] /\ wait'[u] = wait[u] /\ pipe'[u] = pipe[u]
      BY <1>1, <1>2, <1>5
    <2> QED BY <1>1, <1>5, <2>1, SelectEndsOthers
  <1>6. CASE u = t
    <2>1. pc'[t] = [pc[t] EXCEPT ![f] = "read"] /\ wait'[t] = <<w>> \o Tail(wait[t])
      BY <1>1, <1>2
    <2>2. Sleeps(t)
      BY <1>1, <1>3, <1>4, <2>1 DEF Sleeps, Apart
    <2>3. HasWait(t, "call")' <=> HasWait(t, "call")
      BY <1>2, <2>2, WaitMoves
    <2>4. \A x : Told(t, x)' => Told(t, x)
      BY <1>1, ToldSame
    <2>5. /\ pc'[t]["call"] # "server"
          /\ pc'[t]["call"] # "driver" => pc[t]["call"] # "driver"
          /\ pc'[t]["call"] = "abort" => pc[t]["call"] = "abort"
      <3>1. CASE f = "call"
        BY <1>2, <1>3, <2>1, <3>1 DEF Frames
      <3>2. CASE f = "suspend"
        <4>1. pc[t]["call"] # "server"
          BY <1>1, <3>2, SelectDone DEF Frames
        <4> QED BY <1>2, <2>1, <3>2, <4>1 DEF Frames
      <3> QED BY <1>3, <3>1, <3>2 DEF Frames
    <2>6. ASSUME Asks(t)' PROVE AskStep(t)
      <3>1. Asks(t) /\ AskOK(t)
        BY <1>1, <1>2, <2>5, <2>6 DEF Asks, AlertOK
      <3>2. Suspended(t)
        BY <1>1, <1>2, <3>1, AskEnds
      <3>3. Suspended(t)'
        BY <1>1, <3>2 DEF Suspended
      <3> QED BY <1>1, <2>4, <2>5, <3>1, <3>3 DEF AskStep
    <2>7. AlertStep(t)
      BY <1>1, <1>2, <2>5, <2>6 DEF AlertStep, AlertOK
    <2> QED BY <1>2, <1>6, <2>7, AlertStepOK
  <1> QED BY <1>5, <1>6

LEMMA SelectEndsTypes == ASSUME ServerInv, AlertInv, NEW t \in Threads, SelectEnds(t) PROVE ApcTypes'
  <1> USE ServerParts
  <1>1. user_apc \in [Threads -> Seq({"user", "timer"})] /\ cancelled' = cancelled /\ cancelled \in [Threads -> BOOLEAN]
    BY DEF SelectEnds, history, AlertInv, ApcTypes
  <1>2. CASE CheckWait(t).status = "kernel_apc"
    <2>1. user_apc' = user_apc
      BY <1>2 DEF SelectEnds
    <2> QED BY <1>1, <2>1 DEF ApcTypes
  <1>3. CASE CheckWait(t).status # "kernel_apc"
    <2>1. user_apc' = [user_apc EXCEPT ![t] = IF CheckWait(t).status = "user_apc" THEN Tail(@) ELSE @]
      BY <1>3 DEF SelectEnds
    <2>2. CASE CheckWait(t).status = "user_apc"
      <3>1. user_apc[t] # <<>> /\ user_apc[t] \in Seq({"user", "timer"})
        BY <1>1, <2>2, CheckEnds DEF SelectEnds
      <3>2. Tail(user_apc[t]) \in Seq({"user", "timer"})
        BY <3>1, HeadTail
      <3> QED BY <1>1, <2>1, <2>2, <3>2 DEF ApcTypes
    <2>3. CASE CheckWait(t).status # "user_apc"
      BY <1>1, <2>1, <2>3 DEF ApcTypes
    <2> QED BY <2>2, <2>3
  <1> QED BY <1>2, <1>3

LEMMA SelectEndsAlert == ASSUME ServerInv, AlertInv, NEW t \in Threads, SelectEnds(t) PROVE AlertsOK'
  <1> USE ServerParts
  <1> SUFFICES ASSUME NEW u \in Threads PROVE AlertOK(u)'
    BY DEF AlertsOK
  <1> DEFINE f == Active(t)
             v == CheckWait(t)
  <1>1. /\ Doing("select") /\ Head(todo).thread = t /\ CanEnd(t) /\ EndWait(t, v) /\ wait[t] # <<>>
        /\ UNCHANGED <<suspend, dead, stolen, cancelled>>
    BY DEF SelectEnds, history, CanEnd
  <1>2. /\ pc \in [Threads -> [Frames -> Places]] /\ DOMAIN call = Threads /\ deadline \in [Threads -> {"none", "later", "past"}]
        /\ alert_sync \in [Threads -> BOOLEAN] /\ pipe \in [Threads -> Seq(Replies)] /\ wait \in [Threads -> Seq(Waits)]
        /\ user_apc \in [Threads -> Seq({"user", "timer"})] /\ StackOK(t) /\ AlertOK(t) /\ AlertsOK
    BY DEF StateInv, CallsInv, FlagsInv, StacksInv, AlertInv, AlertsOK, ApcTypes
  <1>3. /\ f \in Frames /\ pc[t][f] = "server" /\ t \notin dead
        /\ Head(wait[t]).frame = f /\ ~Head(wait[t]).cookie
        /\ \A w \in Threads, g \in Frames : pc[w][g] = "server" => w = t /\ g = f
    BY <1>1, SelectDone
  <1>4. /\ \A w \in Ends(t, v) : wait[w] # <<>> /\ wait'[w] = Tail(wait[w])
        /\ \A w \in Threads \ Ends(t, v) : wait'[w] = wait[w]
        /\ t \in Ends(t, v) /\ v.status \in Statuses
    <2>1. v = CheckWait(t) /\ CanEnd(t)
      BY <1>1
    <2> HIDE DEF v
    <2> QED BY <1>1, <2>1, EndFacts, EndsWait
  <1>5. pipe' = [w \in Threads |-> IF w \notin Ends(t, v) \ {t} THEN pipe[w]
                          ELSE Append(pipe[w], [cookie |-> "call", status |-> v.status, index |-> v.index])]
    BY DEF SelectEnds
  <1>6. /\ v.status = "kernel_apc" =>
              /\ pc' = [pc EXCEPT ![t][f] = "again"] /\ UNCHANGED <<user_apc, call, deadline>>
              /\ alert_sync' = [alert_sync EXCEPT ![t] = @ /\ AlertLeft(user_apc[t])]
        /\ v.status # "kernel_apc" =>
              /\ user_apc' = [user_apc EXCEPT ![t] = IF v.status = "user_apc" THEN Tail(@) ELSE @]
              /\ alert_sync' = [alert_sync EXCEPT ![t] = IF v.status = "user_apc" THEN AlertLeft(Tail(user_apc[t])) ELSE @]
              /\ Returned(t, f, v.status)
    BY DEF SelectEnds
  <1> HIDE DEF f
  <1>7. CASE u # t
    <2>1. pc'[u] = pc[u] /\ call'[u] = call[u] /\ deadline'[u] = deadline[u]
      <3>1. CASE v.status = "kernel_apc"
        BY <1>2, <1>6, <1>7, <3>1
      <3>2. CASE v.status # "kernel_apc"
        BY <1>2, <1>6, <1>7, <3>2 DEF Returned
      <3> QED BY <3>1, <3>2
    <2>2. user_apc'[u] = user_apc[u] /\ alert_sync'[u] = alert_sync[u]
      BY <1>2, <1>6, <1>7
    <2>3. (wait'[u] = wait[u] /\ pipe'[u] = pipe[u]) \/ IsKeyed(call[u])
      <3>1. CASE u \in Ends(t, v)
        BY <1>1, <1>7, <3>1, PartnerApart
      <3>2. CASE u \notin Ends(t, v)
        BY <1>4, <1>5, <3>2
      <3> QED BY <3>1, <3>2
    <2> QED BY <1>1, <1>2, <1>7, <2>1, <2>2, <2>3, SelectEndsOthers
  <1>8. CASE u = t
    <2>1. wait'[t] = Tail(wait[t]) /\ pipe'[t] = pipe[t] /\ stolen'[t] = stolen[t]
      BY <1>1, <1>4, <1>5
    <2>2. HasWait(t, "call")' <=> HasWait(t, "call") /\ f # "call"
      BY <1>1, <1>2, <1>3, <2>1, WaitMoves
    <2>3. \A x : Told(t, x)' => Told(t, x)
      BY <2>1, ToldSame
    <2>4. t \notin dead' /\ alert_sync'[t] => user_apc'[t] # <<>>
      <3>1. CASE v.status = "kernel_apc"
        BY <1>2, <1>6, <3>1 DEF AlertLeft
      <3>2. CASE v.status = "user_apc"
        BY <1>2, <1>6, <3>2 DEF AlertLeft
      <3>3. CASE v.status \notin {"kernel_apc", "user_apc"}
        <4>1. user_apc'[t] = user_apc[t] /\ alert_sync'[t] = alert_sync[t]
          BY <1>2, <1>6, <3>3
        <4> QED BY <1>1, <1>2, <4>1 DEF AlertOK
      <3> QED BY <3>1, <3>2, <3>3
    <2>5. Suspended(t)' <=> Suspended(t)
      BY <1>1 DEF Suspended
    <2>6. CASE f = "suspend"
      <3>1. v.status \in {"kernel_apc", "timeout"}
        BY <1>1, <1>3, <2>6, CheckEnds
      <3>2. pc'[t]["call"] = pc[t]["call"] /\ call'[t] = call[t] /\ deadline'[t] = deadline[t] /\ user_apc'[t] = user_apc[t]
        <4>1. CASE v.status = "kernel_apc"
          BY <1>2, <1>6, <2>6, <4>1 DEF Frames
        <4>2. CASE v.status = "timeout"
          BY <1>2, <1>6, <2>6, <4>2 DEF Returned, Frames
        <4> QED BY <3>1, <4>1, <4>2
      <3>3. pc[t]["call"] # "server" /\ ~Due(t)
        BY <1>1, <1>3, <2>6, LoneSelect DEF Frames, f
      <3>4. ASSUME Asks(t)' PROVE AskStep(t)
        <4>1. Asks(t) /\ AskOK(t)
          BY <1>1, <1>2, <3>2, <3>4 DEF Asks, AlertOK
        <4>2. HasWait(t, "call")' => Suspended(t)'
          BY <2>2, <2>5, <3>3, <4>1 DEF AskOK
        <4> QED BY <2>3, <3>2, <3>3, <4>1, <4>2 DEF AskStep
      <3>5. AlertStep(t)
        BY <1>1, <2>4, <3>2, <3>4 DEF AlertStep
      <3> QED BY <1>2, <1>8, <3>5, AlertStepOK
    <2>7. CASE f = "call" /\ v.status = "kernel_apc"
      <3>1. pc'[t]["call"] = "again" /\ call'[t] = call[t] /\ deadline'[t] = deadline[t] /\ user_apc'[t] = user_apc[t]
        BY <1>2, <1>6, <2>7 DEF Frames
      <3>2. ASSUME Asks(t)' PROVE AskStep(t)
        <4>1. Asks(t) /\ AskOK(t)
          BY <1>1, <1>2, <1>3, <2>7, <3>1, <3>2 DEF Asks, AlertOK
        <4> QED BY <2>2, <2>3, <2>7, <3>1, <4>1 DEF AskStep
      <3>3. AlertStep(t)
        BY <1>1, <2>4, <3>1, <3>2 DEF AlertStep
      <3> QED BY <1>2, <1>8, <3>3, AlertStepOK
    <2>8. CASE f = "call" /\ v.status # "kernel_apc"
      <3>1. /\ call'[t] = NoCall
            /\ pc'[t]["call"] = IF call[t].fn = "inproc_wait" /\ v.status # "user_apc" THEN "abort" ELSE "idle"
        BY <1>2, <1>6, <2>8 DEF Returned, Frames
      <3>2. ~Asks(t)'
        BY <3>1 DEF Asks, NoCall
      <3>3. ASSUME pc'[t]["call"] = "abort" PROVE cancelled'[t]
        <4>1. Asks(t) /\ v.status # "user_apc"
          BY <1>3, <2>8, <3>1, <3>3 DEF Asks
        <4>2. cancelled[t]
          BY <1>1, <1>2, <1>3, <2>8, <4>1, AskEnds
        <4> QED BY <1>1, <4>2
      <3>4. AlertStep(t)
        BY <1>1, <2>4, <3>2, <3>3 DEF AlertStep
      <3> QED BY <1>2, <1>8, <3>4, AlertStepOK
    <2> QED BY <1>3, <2>6, <2>7, <2>8 DEF Frames
  <1> QED BY <1>7, <1>8

-----------------------------------------------------------------------------
(* The invariant and what it gives.                                        *)

LEMMA AlertInit == Init => AlertInv
  <1> SUFFICES ASSUME Init PROVE AlertInv
    OBVIOUS
  <1>1. ApcTypes
    BY DEF Init, ApcTypes
  <1>2. ASSUME NEW t \in Threads PROVE AlertOK(t)
    <2>1. alert_sync[t] = FALSE /\ call[t] = NoCall /\ pc[t]["call"] = "idle"
      BY DEF Init, Frames
    <2>2. ~Asks(t)
      BY <2>1 DEF Asks, NoCall
    <2> QED BY <2>1, <2>2 DEF AlertOK
  <1> QED BY <1>1, <1>2 DEF AlertInv, AlertsOK

LEMMA ApcTypesSame == ASSUME ApcTypes, UNCHANGED <<user_apc, cancelled>> PROVE ApcTypes'
  BY DEF ApcTypes

LEMMA ServerAlerts == ASSUME ServerInv, AlertInv, ServerStep PROVE AlertInv'
  <1> USE DEF AlertInv
  <1>1. CASE WakeUpStep \/ ResetStep \/ AbandonStep
    <2>1. ApcTypes'
      BY <1>1, ApcTypesSame DEF WakeUpStep, ResetStep, AbandonStep, apcs, history
    <2> QED BY <1>1, <2>1, QuietStepsAlert
  <1>2. CASE WakeThreadStep
    <2>1. ApcTypes'
      BY <1>2, ApcTypesSame DEF WakeThreadStep, apcs, history
    <2> QED BY <1>2, <2>1, WakeThreadStepAlert
  <1>3. ASSUME NEW t \in Threads, SelectEnds(t) PROVE AlertInv'
    BY <1>3, SelectEndsTypes, SelectEndsAlert
  <1>4. ASSUME NEW t \in Threads, SelectWoken(t) PROVE AlertInv'
    <2>1. ApcTypes'
      BY <1>4, ApcTypesSame DEF SelectWoken, apcs, history
    <2> QED BY <1>4, <2>1, SelectWokenAlert
  <1>5. ASSUME NEW t \in Threads, SelectPends(t) PROVE AlertInv'
    <2>1. ApcTypes'
      BY <1>5, ApcTypesSame DEF SelectPends, apcs, history
    <2> QED BY <1>5, <2>1, SelectPendsAlert
  <1> QED BY <1>1, <1>2, <1>3, <1>4, <1>5 DEF ServerStep

LEMMA ClientAlerts ==
  ASSUME ServerInv, AlertInv, NEW t \in Threads, ClientStep(t) \/ TimeStep(t)
  PROVE  AlertInv'
  <1>1. CASE TimerCallback(t)
    BY <1>1, TimerCallbackAlert
  <1>2. CASE ~TimerCallback(t)
    <2>1. ApcTypes'
      BY <1>2, ApcTypesSame DEF AlertInv, ClientStep, TimeStep, Select, SelectFails, ReadReply, Usr1Handler, DriverAlerted,
            Expire, ThreadTimeout, apcs, history
    <2>2. AlertsOK'
      BY <1>2, SelectAlert, SelectFailsAlert, ReadReplyAlert, Usr1HandlerAlert, DriverAlertedAlert, ExpireAlert,
         ThreadTimeoutAlert DEF AlertInv, ClientStep, TimeStep
    <2> QED BY <2>1, <2>2 DEF AlertInv
  <1> QED BY <1>1, <1>2

LEMMA RequestAlerts ==
  ASSUME ServerInv, AlertInv, NEW t \in Threads, NEW c \in program[t], Requests(t, c)
  PROVE  AlertInv'
  <1>1. CASE BeginWait(t, c)
    <2>1. ApcTypes'
      BY <1>1 DEF AlertInv, ApcTypes, BeginWait, apcs
    <2> QED BY <1>1, <2>1, BeginWaitAlert DEF AlertInv
  <1>2. CASE Signal(t, c) \/ ResetEvent(t, c) \/ SuspendThread(t, c) \/ SetThreadContext(t, c)
    <2>1. ApcTypes'
      BY <1>2, ApcTypesSame DEF AlertInv, Signal, ResetEvent, SuspendThread, SetThreadContext, apcs, history
    <2> QED BY <1>2, <2>1, PlainRequestsAlert DEF AlertInv
  <1>3. CASE ResumeThread(t, c)
    <2>1. ApcTypes'
      BY <1>3, ApcTypesSame DEF AlertInv, ResumeThread, apcs, history
    <2> QED BY <1>3, <2>1, ResumeThreadAlert DEF AlertInv
  <1>4. CASE QueueUserApc(t, c) \/ SetTimer(t, c) \/ CancelTimerOf(t, c)
    BY <1>4, QueueUserApcAlert, TimersAlert
  <1>5. CASE QueueSystemApc(t, c)
    <2>1. ApcTypes'
      BY <1>5, ApcTypesSame DEF AlertInv, QueueSystemApc, history
    <2> QED BY <1>5, <2>1, QueueSystemApcAlert DEF AlertInv
  <1>6. CASE KillThread(t, c)
    <2>1. ApcTypes'
      <3>1. user_apc' = [user_apc EXCEPT ![c.owner] = <<>>] /\ cancelled' = cancelled
        BY <1>6 DEF KillThread, history
      <3>2. <<>> \in Seq({"user", "timer"})
        OBVIOUS
      <3> QED BY <3>1, <3>2 DEF AlertInv, ApcTypes
    <2> QED BY <1>6, <2>1, KillThreadAlert DEF AlertInv
  <1> QED BY <1>1, <1>2, <1>3, <1>4, <1>5, <1>6 DEF Requests

LEMMA AlertNext == ServerInv /\ AlertInv /\ [Next]_vars => AlertInv'
  <1> SUFFICES ASSUME ServerInv, AlertInv, [Next]_vars PROVE AlertInv'
    OBVIOUS
  <1>1. CASE UNCHANGED vars
    <2>1. /\ UNCHANGED <<user_apc, alert_sync, cancelled, dead, pc, call, deadline, wait, pipe, stolen, suspend, todo>>
      BY <1>1 DEF vars, stops, client, apcs, history
    <2>2. ApcTypes'
      BY <2>1, ApcTypesSame DEF AlertInv
    <2>3. ASSUME NEW u \in Threads PROVE AlertOK(u)'
      <3>1. Aside(u)
        BY <2>1 DEF Aside
      <3>2. Remembers(u)
        BY <2>1, SameRemembers DEF Active
      <3> QED BY <3>1, <3>2, AsideOK DEF AlertInv, AlertsOK
    <2> QED BY <2>2, <2>3 DEF AlertInv, AlertsOK
  <1>2. CASE Next
    BY <1>2, ServerAlerts, ClientAlerts, RequestAlerts DEF Next
  <1> QED BY <1>1, <1>2

\* The event that ends a wait in the driver is set only while the thread has a
\* user APC, and a thread that asks for it waits for nothing else.
THEOREM AlertInvariant == Spec => []AlertInv
  BY ServerInit, ServerNext, AlertInit, AlertNext, PTL DEF Spec

\* The assertion of linux_wait_objs after an alert fails only when a timer was
\* cancelled meanwhile: however the threads are suspended, resumed, sent APCs
\* or killed, the server has an APC for the thread or one was taken back.
THEOREM AlertsFindApcs == Spec => []AlertFindsApc
  <1>1. AlertInv => AlertFindsApc
    BY DEF AlertInv, AlertsOK, AlertOK, AlertFindsApc
  <1> QED BY <1>1, AlertInvariant, PTL

-----------------------------------------------------------------------------
(* The inductive invariant, fourth part: system APCs are come for.         *)

\* Places of a frame that is about to ask the server, or asks it.
Calling == {"select", "again", "handler", "server"}
HoldsApc(s) == \E k \in 1..Len(s) : s[k].status \in {"kernel_apc", "user_apc"}
ToldApc(t) == HoldsApc(pipe[t]) \/ HoldsApc(stolen[t])
\* The thread was just chosen for the APC, and sleeps.
Chosen(t) == todo = <<WakeThread(t)>> /\ wait[t] # <<>> /\ Head(wait[t]).cookie
Fetches(t) == sigusr1[t] \/ (\E f \in Frames : pc[t][f] \in Calling) \/ ToldApc(t) \/ Chosen(t)
FetchOK(t) == t \notin dead /\ system_apc[t] # <<>> => Fetches(t)
FetchInv == \A t \in Threads : FetchOK(t)

\* A call may return without a look at the APCs of its thread: when it fails to
\* signal, and when the object that it signals ends its own wait.
LooksForApcs == \A t \in Threads : SelectFails(t) \/ SelectWoken(t) => system_apc[t] = <<>>

\* What a step that is not about the APCs of u does to it.
FetchSame(u) ==
    /\ u \notin dead' => u \notin dead
    /\ system_apc'[u] # <<>> => system_apc[u] # <<>>
    /\ sigusr1[u] => sigusr1'[u]
    /\ \A f \in Frames : pc[u][f] \in Calling => pc'[u][f] \in Calling
    /\ ToldApc(u) => ToldApc(u)'
    /\ Idle \/ (todo' = todo /\ wait'[u] = wait[u]) \/ Head(todo).do # "wake_thread"

LEMMA FetchKeeps == ASSUME NEW u \in Threads, FetchOK(u), FetchSame(u) PROVE FetchOK(u)'
  <1> SUFFICES ASSUME u \notin dead', system_apc'[u] # <<>> PROVE Fetches(u)'
    BY DEF FetchOK
  <1>1. Fetches(u)
    BY DEF FetchOK, FetchSame
  <1>2. CASE sigusr1[u] \/ (\E f \in Frames : pc[u][f] \in Calling) \/ ToldApc(u)
    BY <1>2 DEF FetchSame, Fetches
  <1>3. CASE Chosen(u)
    <2>1. Head(todo).do = "wake_thread" /\ ~Idle
      BY <1>3, ItemsApart DEF Chosen, Idle
    <2>2. todo' = todo /\ wait'[u] = wait[u]
      BY <2>1 DEF FetchSame
    <2>3. Chosen(u)'
      BY <1>3, <2>2 DEF Chosen, WakeThread
    <2> QED BY <2>3 DEF Fetches
  <1> QED BY <1>1, <1>2, <1>3 DEF Fetches

LEMMA ToldApcSame == ASSUME NEW u, pipe'[u] = pipe[u], stolen'[u] = stolen[u] PROVE ToldApc(u)' <=> ToldApc(u)
  BY DEF ToldApc, HoldsApc

\* A reply more does not hide the others.
LEMMA HoldsMore ==
  ASSUME NEW s \in Seq(Replies), NEW r \in Replies
  PROVE  HoldsApc(Append(s, r)) <=> HoldsApc(s) \/ r.status \in {"kernel_apc", "user_apc"}
  <1>1. /\ Len(s) \in Nat /\ Len(Append(s, r)) = Len(s) + 1 /\ Append(s, r)[Len(s) + 1] = r
        /\ \A k \in 1..Len(s) : Append(s, r)[k] = s[k]
        /\ \A k \in 1..Len(Append(s, r)) : k = Len(s) + 1 \/ k \in 1..Len(s)
    BY Snoc
  <1>2. HoldsApc(Append(s, r)) => HoldsApc(s) \/ r.status \in {"kernel_apc", "user_apc"}
    BY <1>1 DEF HoldsApc
  <1>3. \A k \in 1..Len(s) : k \in 1..Len(Append(s, r))
    BY <1>1
  <1>4. HoldsApc(s) => HoldsApc(Append(s, r))
    BY <1>1, <1>3 DEF HoldsApc
  <1>5. Len(s) + 1 \in 1..Len(Append(s, r))
    BY <1>1
  <1>6. r.status \in {"kernel_apc", "user_apc"} => HoldsApc(Append(s, r))
    BY <1>1, <1>5 DEF HoldsApc
  <1> QED BY <1>2, <1>4, <1>6

LEMMA HoldsTail ==
  ASSUME NEW s \in Seq(Replies), s # <<>>, HoldsApc(s)
  PROVE  HoldsApc(Tail(s)) \/ Head(s).status \in {"kernel_apc", "user_apc"}
  <1>1. PICK k \in 1..Len(s) : s[k].status \in {"kernel_apc", "user_apc"}
    BY DEF HoldsApc
  <1>2. /\ Len(s) \in Nat /\ s[1] = Head(s) /\ Len(Tail(s)) = Len(s) - 1
        /\ \A j \in 1..Len(Tail(s)) : Tail(s)[j] = s[j + 1]
    BY HeadTail
  <1>3. CASE k = 1
    BY <1>1, <1>2, <1>3
  <1>4. CASE k # 1
    <2>1. k - 1 \in 1..Len(Tail(s)) /\ (k - 1) + 1 = k
      BY <1>2, <1>4
    <2>2. Tail(s)[k - 1] = s[k]
      BY <1>2, <2>1
    <2> QED BY <1>1, <2>1, <2>2 DEF HoldsApc
  <1> QED BY <1>3, <1>4

LEMMA HoldsJoin ==
  ASSUME NEW s \in Seq(Replies), NEW r \in Seq(Replies), HoldsApc(s) \/ HoldsApc(r)
  PROVE  HoldsApc(s \o r)
  <1>1. /\ Len(s) \in Nat /\ Len(r) \in Nat /\ Len(s \o r) = Len(s) + Len(r)
        /\ \A k \in 1..Len(s) : (s \o r)[k] = s[k]
        /\ \A k \in 1..Len(r) : (s \o r)[Len(s) + k] = r[k]
    BY Join
  <1>2. /\ \A k \in 1..Len(s) : k \in 1..Len(s \o r)
        /\ \A k \in 1..Len(r) : Len(s) + k \in 1..Len(s \o r)
    BY <1>1
  <1> QED BY <1>1, <1>2 DEF HoldsApc

-----------------------------------------------------------------------------
(* The actions.                                                            *)

\* Steps that touch neither APCs nor replies.
LEMMA QuietFetch ==
  ASSUME ServerInv, FetchInv, UNCHANGED <<pc, dead, system_apc, pipe, stolen>>,
         \A u \in Threads : sigusr1[u] => sigusr1'[u],
         Idle \/ UNCHANGED <<todo, wait>> \/ (~Idle /\ Head(todo).do # "wake_thread")
  PROVE  FetchInv'
  <1> SUFFICES ASSUME NEW u \in Threads PROVE FetchOK(u)'
    BY DEF FetchInv
  <1>1. FetchSame(u)
    BY ToldApcSame DEF FetchSame
  <1> QED BY <1>1, FetchKeeps DEF FetchInv

LEMMA QuietStepsFetch ==
  ASSUME ServerInv, FetchInv, WakeUpStep \/ ResetStep \/ AbandonStep
  PROVE  FetchInv'
  <1>1. UNCHANGED <<pc, dead, system_apc, pipe, stolen, sigusr1>>
    BY DEF WakeUpStep, ResetStep, AbandonStep, apcs, client
  <1>2. ~Idle /\ Head(todo).do # "wake_thread"
    BY DEF WakeUpStep, ResetStep, AbandonStep, Doing, Idle
  <1> QED BY <1>1, <1>2, QuietFetch

LEMMA RequestsFetch ==
  ASSUME ServerInv, FetchInv, NEW t \in Threads, NEW c,
         \/ Signal(t, c) \/ ResetEvent(t, c) \/ SuspendThread(t, c) \/ ResumeThread(t, c)
         \/ SetThreadContext(t, c) \/ QueueUserApc(t, c) \/ SetTimer(t, c) \/ CancelTimerOf(t, c)
         \/ TimerCallback(t) \/ Expire(t)
  PROVE  FetchInv'
  <1>1. UNCHANGED <<pc, dead, system_apc, pipe, stolen>>
    BY DEF Signal, ResetEvent, SuspendThread, ResumeThread, SetThreadContext, QueueUserApc, SetTimer, CancelTimerOf,
           TimerCallback, Expire, apcs, client
  <1>2. Idle \/ UNCHANGED <<todo, wait>>
    BY DEF Signal, ResetEvent, SuspendThread, ResumeThread, SetThreadContext, QueueUserApc, SetTimer, CancelTimerOf,
           TimerCallback, Expire
  <1>3. \A u \in Threads : sigusr1[u] => sigusr1'[u]
    <2>1. sigusr1 \in [Threads -> BOOLEAN]
      BY ServerParts
    <2>2. CASE SuspendThread(t, c) \/ SetThreadContext(t, c)
      BY <2>1, <2>2 DEF SuspendThread, SetThreadContext, StopThread
    <2>3. CASE ~(SuspendThread(t, c) \/ SetThreadContext(t, c))
      <3>1. sigusr1' = sigusr1
        BY <2>3 DEF Signal, ResetEvent, ResumeThread, QueueUserApc, SetTimer, CancelTimerOf, TimerCallback, Expire
      <3> QED BY <3>1
    <2> QED BY <2>2, <2>3
  <1> QED BY <1>1, <1>2, <1>3, QuietFetch

\* Steps of a thread that is not about to ask, or that has no APC.
LEMMA CallStepsFetch ==
  ASSUME ServerInv, FetchInv, NEW t \in Threads, NEW x, pc' = [pc EXCEPT ![t]["call"] = x],
         pc[t]["call"] \notin Calling \/ x \in Calling \/ system_apc[t] = <<>>,
         UNCHANGED <<dead, system_apc, pipe, stolen, sigusr1>>,
         UNCHANGED <<todo, wait>> \/ Head(todo).do # "wake_thread"
  PROVE  FetchInv'
  <1> SUFFICES ASSUME NEW u \in Threads PROVE FetchOK(u)'
    BY DEF FetchInv
  <1>t. pc \in [Threads -> [Frames -> Places]] /\ FetchOK(u)
    BY ServerParts DEF StateInv, FetchInv
  <1>1. CASE u = t /\ system_apc[t] = <<>>
    BY <1>1 DEF FetchOK
  <1>2. CASE u # t \/ system_apc[t] # <<>>
    <2>1. \A f \in Frames : pc[u][f] \in Calling => pc'[u][f] \in Calling
      <3>1. CASE u # t
        BY <1>t, <3>1
      <3>2. CASE u = t
        <4>1. pc'[u] = [pc[u] EXCEPT !["call"] = x] /\ pc[u] \in [Frames -> Places]
          BY <1>t, <3>2
        <4> QED BY <1>2, <3>2, <4>1
      <3> QED BY <3>1, <3>2
    <2>2. FetchSame(u)
      BY <2>1, ToldApcSame DEF FetchSame
    <2> QED BY <1>t, <2>2, FetchKeeps
  <1> QED BY <1>1, <1>2

LEMMA CallsFetch ==
  ASSUME ServerInv, FetchInv, LooksForApcs, NEW t \in Threads,
         (\E c \in program[t] : BeginWait(t, c)) \/ DriverAlerted(t) \/ SelectFails(t) \/ SelectWoken(t)
  PROVE  FetchInv'
  <1>1. UNCHANGED <<dead, system_apc, pipe, stolen, sigusr1>>
    BY DEF BeginWait, DriverAlerted, SelectFails, SelectWoken, apcs
  <1>2. UNCHANGED <<todo, wait>> \/ Head(todo).do # "wake_thread"
    BY DEF BeginWait, DriverAlerted, SelectFails, SelectWoken, Doing
  <1>3. \E x : pc' = [pc EXCEPT ![t]["call"] = x]
    BY DEF BeginWait, DriverAlerted, SelectFails, SelectWoken, Returned
  <1>4. pc[t]["call"] \notin Calling \/ system_apc[t] = <<>>
    BY DEF BeginWait, MayCall, DriverAlerted, LooksForApcs, Calling
  <1> QED BY <1>1, <1>2, <1>3, <1>4, CallStepsFetch

\* The handler asks for what the signal announced.
LEMMA Usr1HandlerFetch == ASSUME ServerInv, FetchInv, NEW t \in Threads, Usr1Handler(t) PROVE FetchInv'
  <1> SUFFICES ASSUME NEW u \in Threads PROVE FetchOK(u)'
    BY DEF FetchInv
  <1>1. /\ UNCHANGED <<dead, system_apc, pipe, stolen, todo, wait>>
        /\ pc' = [pc EXCEPT ![t]["suspend"] = "handler"] /\ sigusr1' = [sigusr1 EXCEPT ![t] = FALSE]
    BY DEF Usr1Handler, apcs
  <1>2. pc \in [Threads -> [Frames -> Places]] /\ sigusr1 \in [Threads -> BOOLEAN] /\ FetchOK(u)
    BY ServerParts DEF StateInv, FetchInv
  <1>3. CASE u = t
    <2>1. pc'[u]["suspend"] = "handler" /\ "suspend" \in Frames
      BY <1>1, <1>2, <1>3 DEF Frames
    <2> QED BY <2>1 DEF FetchOK, Fetches, Calling
  <1>4. CASE u # t
    <2>1. pc'[u] = pc[u] /\ sigusr1'[u] = sigusr1[u]
      BY <1>1, <1>2, <1>4
    <2>2. FetchSame(u)
      BY <1>1, <2>1, ToldApcSame DEF FetchSame
    <2> QED BY <1>2, <2>2, FetchKeeps
  <1> QED BY <1>3, <1>4

\* Waits that end leave the replies where they are.
LEMMA SendFetch ==
  ASSUME ServerInv, NEW t \in Threads, wait[t] # <<>>,
         NEW v, (v = CheckWait(t) /\ CanEnd(t)) \/ v = [status |-> "timeout", index |-> 0],
         EndWait(t, v), Send(Ends(t, v), v), stolen' = stolen
  PROVE  /\ \A u \in Threads : ToldApc(u) => ToldApc(u)'
         /\ v.status = "kernel_apc" /\ Head(wait[t]).cookie => ToldApc(t)'
  <1> USE ServerParts
  <1>1. v.status \in Statuses /\ v.index \in Nat
    BY EndFacts
  <1>2. /\ t \in Ends(t, v) /\ Ends(t, v) \subseteq Threads
        /\ \A u \in Ends(t, v) : wait[u] # <<>>
    BY EndsWait
  <1> DEFINE E == Ends(t, v)
  <1>3. E \in SUBSET Threads /\ Send(E, v)
    BY <1>2
  <1>4. /\ \A w \in E : Head(wait[w]).cookie => pipe'[w] = Append(pipe[w], ReplyTo(w, v))
        /\ \A w \in Threads : w \notin E \/ ~Head(wait[w]).cookie => pipe'[w] = pipe[w]
    <2> HIDE DEF E
    <2> QED BY <1>3, SendFacts
  <1>5. ASSUME NEW u \in Threads, u \in E, Head(wait[u]).cookie
        PROVE  /\ pipe[u] \in Seq(Replies) /\ ReplyTo(u, v) \in Replies
               /\ v.status = "kernel_apc" => ReplyTo(u, v).status = "kernel_apc"
    <2>1. Head(wait[u]).frame \in Frames
      BY <1>2, <1>5, TopFrame DEF StacksInv
    <2> QED BY <1>1, <2>1 DEF ReplyTo, Replies, Statuses, Handled, StateInv
  <1> HIDE DEF E
  <1>6. ASSUME NEW u \in Threads, ToldApc(u) PROVE ToldApc(u)'
    <2>1. CASE u \in E /\ Head(wait[u]).cookie
      <3>1. HoldsApc(pipe[u]) => HoldsApc(Append(pipe[u], ReplyTo(u, v)))
        BY <1>5, <2>1, HoldsMore
      <3>2. pipe'[u] = Append(pipe[u], ReplyTo(u, v)) /\ stolen'[u] = stolen[u]
        BY <1>4, <2>1
      <3> QED BY <1>6, <3>1, <3>2 DEF ToldApc, HoldsApc
    <2>2. CASE ~(u \in E /\ Head(wait[u]).cookie)
      BY <1>4, <1>6, <2>2, ToldApcSame
    <2> QED BY <2>1, <2>2
  <1>7. ASSUME v.status = "kernel_apc", Head(wait[t]).cookie PROVE ToldApc(t)'
    <2>1. HoldsApc(Append(pipe[t], ReplyTo(t, v)))
      BY <1>2, <1>5, <1>7, HoldsMore DEF E
    <2>2. pipe'[t] = Append(pipe[t], ReplyTo(t, v))
      BY <1>2, <1>4, <1>7 DEF E
    <2> QED BY <2>1, <2>2 DEF ToldApc, HoldsApc
  <1> QED BY <1>6, <1>7

LEMMA ThreadTimeoutFetch == ASSUME ServerInv, FetchInv, NEW t \in Threads, ThreadTimeout(t) PROVE FetchInv'
  <1> USE ServerParts
  <1> DEFINE v == [status |-> "timeout", index |-> 0]
  <1>1. PICK k \in DOMAIN wait[t] :
              /\ Idle
              /\ IF k = 1 /\ ~Suspended(t)
                 THEN EndWait(t, v) /\ Send({t}, v) /\ todo' = <<WakeThread(t)>>
                 ELSE UNCHANGED pipe
    BY DEF ThreadTimeout
  <1>2. UNCHANGED <<pc, stolen, dead, system_apc, sigusr1>>
    BY DEF ThreadTimeout, apcs, client
  <1>3. wait[t] # <<>>
    <2>1. wait[t] \in Seq(Waits)
      BY DEF StateInv
    <2> QED BY <2>1
  <1>4. ASSUME NEW u \in Threads PROVE ToldApc(u) => ToldApc(u)'
    <2>1. CASE k = 1 /\ ~Suspended(t)
      <3>1. EndWait(t, v) /\ Send({t}, v) /\ Ends(t, v) = {t}
        BY <1>1, <2>1 DEF Ends
      <3> HIDE DEF v
      <3>2. v = [status |-> "timeout", index |-> 0] /\ Send(Ends(t, v), v) /\ stolen' = stolen
        BY <1>2, <3>1 DEF v
      <3> QED BY <1>3, <3>1, <3>2, SendFetch
    <2>2. CASE ~(k = 1 /\ ~Suspended(t))
      BY <1>1, <1>2, <2>2, ToldApcSame
    <2> QED BY <2>1, <2>2
  <1>5. ASSUME NEW u \in Threads PROVE FetchOK(u)'
    <2>1. FetchSame(u)
      BY <1>1, <1>2, <1>4 DEF FetchSame
    <2> QED BY <2>1, FetchKeeps DEF FetchInv
  <1> QED BY <1>5 DEF FetchInv

\* A thread that was chosen while it sleeps is told.
LEMMA WakeThreadStepFetch == ASSUME ServerInv, FetchInv, WakeThreadStep PROVE FetchInv'
  <1> USE ServerParts
  <1> SUFFICES ASSUME NEW u \in Threads PROVE FetchOK(u)'
    BY DEF FetchInv
  <1> DEFINE t == Head(todo).thread
             v == CheckWait(t)
  <1>1. /\ todo # <<>> /\ Head(todo).do = "wake_thread"
        /\ UNCHANGED <<pc, stolen, dead, system_apc, sigusr1>>
    BY DEF WakeThreadStep, Doing, apcs, client
  <1>2. t \in Threads /\ FetchOK(u)
    BY <1>1, ItemsTail DEF IsItem, FetchInv
  <1>3. CanEnd(t) => EndWait(t, v) /\ Send(Ends(t, v), v) /\ wait[t] # <<>>
    BY DEF WakeThreadStep, CanEnd
  <1>4. ~CanEnd(t) => pipe' = pipe
    BY DEF WakeThreadStep
  <1>5. stolen' = stolen /\ v = CheckWait(t)
    BY <1>1
  <1>6. ASSUME Chosen(u) PROVE u = t
    <2>1. Head(todo) = WakeThread(u)
      BY <1>6 DEF Chosen
    <2> QED BY <2>1, ItemsApart
  <1> HIDE DEF t, v
  <1>7. ToldApc(u) => ToldApc(u)'
    <2>1. CASE CanEnd(t)
      BY <1>2, <1>3, <1>5, <2>1, SendFetch
    <2>2. CASE ~CanEnd(t)
      BY <1>4, <1>5, <2>2, ToldApcSame
    <2> QED BY <2>1, <2>2
  <1>8. ASSUME Chosen(u), system_apc[u] # <<>> PROVE ToldApc(u)'
    <2>1. u = t /\ wait[t] # <<>> /\ Head(wait[t]).cookie
      BY <1>6, <1>8 DEF Chosen
    <2>2. v = [status |-> "kernel_apc", index |-> 0]
      BY <1>5, <1>8, <2>1 DEF CheckWait
    <2>3. CanEnd(t)
      BY <1>5, <2>1, <2>2 DEF CanEnd, Pending
    <2>4. v.status = "kernel_apc"
      BY <2>2
    <2>5. EndWait(u, v) /\ Send(Ends(u, v), v) /\ v = CheckWait(u) /\ CanEnd(u)
      BY <1>3, <1>5, <2>1, <2>3
    <2>6. wait[u] # <<>> /\ Head(wait[u]).cookie
      BY <2>1
    <2> QED BY <1>5, <2>4, <2>5, <2>6, SendFetch
  <1> QED BY <1>1, <1>2, <1>7, <1>8 DEF FetchOK, Fetches

\* The reply that a frame reads sends it to the server again, or was not for an
\* APC.
LEMMA ReadReplyFetch == ASSUME ServerInv, FetchInv, NEW t \in Threads, ReadReply(t) PROVE FetchInv'
  <1> USE ServerParts
  <1> SUFFICES ASSUME NEW u \in Threads PROVE FetchOK(u)'
    BY DEF FetchInv
  <1> DEFINE f == Active(t)
             r == Head(pipe[t])
  <1>1. /\ pc[t][f] = "read" /\ pipe[t] # <<>>
        /\ UNCHANGED <<wait, system_apc, dead, todo, sigusr1>>
    BY DEF ReadReply, apcs
  <1>2. f \in Frames
    BY DEF Active, Frames
  <1>3. /\ pipe \in [Threads -> Seq(Replies)] /\ stolen \in [Threads -> Seq(Replies)] /\ pc \in [Threads -> [Frames -> Places]]
        /\ FetchOK(u) /\ FetchOK(t)
    BY DEF StateInv, FetchInv
  <1>4. Tail(pipe[t]) \in Seq(Replies) /\ r \in Replies
    BY <1>1, <1>3, HeadTail
  <1>5. HoldsApc(pipe[t]) => HoldsApc(Tail(pipe[t])) \/ r.status \in {"kernel_apc", "user_apc"}
    BY <1>1, <1>3, HoldsTail
  <1>6. CASE /\ stolen' = [stolen EXCEPT ![t] = <<r>> \o @]
             /\ pipe' = [pipe EXCEPT ![t] = Tail(@)]
             /\ UNCHANGED pc
    <2> HIDE DEF r
    <2>1. ToldApc(u) => ToldApc(u)'
      <3>1. CASE u # t
        BY <1>3, <1>6, <3>1, ToldApcSame
      <3>2. CASE u = t
        <4>1. stolen'[t] = <<r>> \o stolen[t] /\ pipe'[t] = Tail(pipe[t])
          BY <1>3, <1>6
        <4>2. <<r>> \in Seq(Replies) /\ stolen[t] \in Seq(Replies)
          BY <1>3, <1>4
        <4>3. r.status \in {"kernel_apc", "user_apc"} => HoldsApc(<<r>>)
          BY DEF HoldsApc
        <4>4. HoldsApc(<<r>>) \/ HoldsApc(stolen[t]) => HoldsApc(<<r>> \o stolen[t])
          BY <4>2, HoldsJoin
        <4>5. ToldApc(t) => HoldsApc(Tail(pipe[t])) \/ HoldsApc(<<r>> \o stolen[t])
          BY <1>5, <4>3, <4>4 DEF ToldApc
        <4> QED BY <3>2, <4>1, <4>5 DEF ToldApc, HoldsApc
      <3> QED BY <3>1, <3>2
    <2>2. FetchSame(u)
      BY <1>1, <1>6, <2>1 DEF FetchSame
    <2> QED BY <1>3, <2>2, FetchKeeps
  <1>7. CASE /\ pipe' = [pipe EXCEPT ![t] = Tail(@) \o PutBack(t)]
             /\ stolen' = [stolen EXCEPT ![t] = <<>>]
             /\ IF r.status \in {"kernel_apc", "user_apc"}
                THEN pc' = [pc EXCEPT ![t][f] = "select"]
                ELSE Returned(t, f, r.status)
    <2> HIDE DEF r, f
    <2>1. PICK x : pc' = [pc EXCEPT ![t][f] = x] /\ (r.status \in {"kernel_apc", "user_apc"} => x = "select")
      BY <1>7 DEF Returned
    <2>2. CASE u # t
      <3>1. pc'[u] = pc[u] /\ pipe'[u] = pipe[u] /\ stolen'[u] = stolen[u]
        BY <1>3, <1>7, <2>1, <2>2
      <3>2. FetchSame(u)
        BY <1>1, <3>1, ToldApcSame DEF FetchSame
      <3> QED BY <1>3, <3>2, FetchKeeps
    <2>3. CASE u = t /\ r.status \in {"kernel_apc", "user_apc"}
      <3>1. pc'[t][f] = "select"
        BY <1>2, <1>3, <2>1, <2>3
      <3> QED BY <1>2, <2>3, <3>1 DEF FetchOK, Fetches, Calling
    <2>4. CASE u = t /\ r.status \notin {"kernel_apc", "user_apc"}
      <3>1. pc'[t] = [pc[t] EXCEPT ![f] = x] /\ pc[t] \in [Frames -> Places]
        BY <1>3, <2>1
      <3>2. \A g \in Frames : pc[t][g] \in Calling => pc'[t][g] \in Calling
        BY <1>1, <3>1 DEF Calling
      <3>3. ToldApc(t) => ToldApc(t)'
        <4>1. pipe'[t] = Tail(pipe[t]) \o stolen[t]
          BY <1>3, <1>7 DEF PutBack
        <4>2. HoldsApc(Tail(pipe[t])) \/ HoldsApc(stolen[t]) => HoldsApc(Tail(pipe[t]) \o stolen[t])
          BY <1>3, <1>4, HoldsJoin
        <4>3. ToldApc(t) => HoldsApc(Tail(pipe[t]) \o stolen[t])
          BY <1>5, <2>4, <4>2 DEF ToldApc
        <4> QED BY <4>1, <4>3 DEF ToldApc, HoldsApc
      <3>4. FetchSame(t)
        BY <1>1, <3>2, <3>3 DEF FetchSame
      <3> QED BY <1>3, <2>4, <3>4, FetchKeeps
    <2> QED BY <2>2, <2>3, <2>4
  <1> QED BY <1>6, <1>7 DEF ReadReply

\* A select takes an APC along or goes to sleep without one.
LEMMA SelectFetch == ASSUME ServerInv, FetchInv, NEW t \in Threads, Select(t) PROVE FetchInv'
  <1> USE ServerParts
  <1> SUFFICES ASSUME NEW u \in Threads PROVE FetchOK(u)'
    BY DEF FetchInv
  <1> DEFINE f == Active(t)
             c == prev[t][f]
  <1>1. /\ Idle /\ UNCHANGED <<dead, system_apc, pipe, stolen, sigusr1>>
        /\ pc' = [w \in Threads |-> IF w = t THEN [pc[t] EXCEPT ![f] = "server"]
                                    ELSE IF w = c THEN [pc[w] EXCEPT !["call"] = "idle"] ELSE pc[w]]
    BY DEF Select, StorePrevApc, apcs
  <1>2. f \in Frames
    BY DEF Active, Frames
  <1>3. pc \in [Threads -> [Frames -> Places]] /\ FetchOK(u) /\ RunWait
    BY DEF StateInv, FetchInv, ApcsInv
  <1> HIDE DEF f
  <1>4. CASE u = t
    <2>1. pc'[t][f] = "server"
      BY <1>1, <1>2, <1>3
    <2> QED BY <1>2, <1>4, <2>1 DEF FetchOK, Fetches, Calling
  <1>5. CASE u # t
    <2>1. \A g \in Frames : pc[u][g] \in Calling => pc'[u][g] \in Calling
      <3>1. CASE u = c
        <4>1. pc[u]["call"] = "apc_wait"
          BY <1>2, <1>3, <3>1, NoOneAssumption DEF RunWait
        <4>2. pc'[u] = [pc[u] EXCEPT !["call"] = "idle"] /\ pc[u] \in [Frames -> Places]
          BY <1>1, <1>3, <1>5, <3>1
        <4> QED BY <4>1, <4>2 DEF Calling
      <3>2. CASE u # c
        BY <1>1, <1>5, <3>2
      <3> QED BY <3>1, <3>2
    <2>2. FetchSame(u)
      BY <1>1, <2>1, ToldApcSame DEF FetchSame
    <2> QED BY <1>3, <2>2, FetchKeeps
  <1> QED BY <1>4, <1>5

LEMMA SelectPendsFetch == ASSUME ServerInv, FetchInv, NEW t \in Threads, SelectPends(t) PROVE FetchInv'
  <1> USE ServerParts
  <1> SUFFICES ASSUME NEW u \in Threads PROVE FetchOK(u)'
    BY DEF FetchInv
  <1>1. /\ Doing("select") /\ wait[t] # <<>> /\ ~CanEnd(t)
        /\ pc' = [pc EXCEPT ![t][Active(t)] = "read"]
        /\ UNCHANGED <<dead, system_apc, pipe, stolen, sigusr1>>
    BY DEF SelectPends, apcs
  <1>2. pc \in [Threads -> [Frames -> Places]] /\ FetchOK(u)
    BY DEF StateInv, FetchInv
  <1>3. system_apc[t] = <<>>
    BY <1>1 DEF CanEnd, CheckWait, Pending
  <1>4. CASE u = t
    BY <1>1, <1>3, <1>4 DEF FetchOK
  <1>5. CASE u # t
    <2>1. pc'[u] = pc[u] /\ Head(todo).do = "select"
      BY <1>1, <1>2, <1>5 DEF Doing
    <2>2. FetchSame(u)
      BY <1>1, <2>1, ToldApcSame DEF FetchSame
    <2> QED BY <1>2, <2>2, FetchKeeps
  <1> QED BY <1>4, <1>5

LEMMA SelectEndsFetch == ASSUME ServerInv, FetchInv, NEW t \in Threads, SelectEnds(t) PROVE FetchInv'
  <1> USE ServerParts
  <1> SUFFICES ASSUME NEW u \in Threads PROVE FetchOK(u)'
    BY DEF FetchInv
  <1> DEFINE f == Active(t)
             v == CheckWait(t)
             r == [cookie |-> "call", status |-> v.status, index |-> v.index]
  <1>1. /\ Doing("select") /\ CanEnd(t) /\ UNCHANGED <<dead, stolen, sigusr1>>
        /\ pipe' = [w \in Threads |-> IF w \notin Ends(t, v) \ {t} THEN pipe[w] ELSE Append(pipe[w], r)]
    BY DEF SelectEnds
  <1>2. /\ pc \in [Threads -> [Frames -> Places]] /\ pipe \in [Threads -> Seq(Replies)]
        /\ system_apc \in [Threads -> Seq(Threads)] /\ FetchOK(u)
    BY DEF StateInv, FetchInv
  <1>3. f \in Frames
    BY DEF Active, Frames
  <1>4. r \in Replies
    <2>1. v.status \in Statuses /\ v.index \in Nat
      BY <1>1, CheckEnds
    <2> QED BY <2>1 DEF Replies, Frames
  <1>5. system_apc[t] # <<>> => v.status = "kernel_apc"
    BY DEF CheckWait
  <1>6. /\ v.status = "kernel_apc" =>
              system_apc' = [system_apc EXCEPT ![t] = Tail(@)] /\ pc' = [pc EXCEPT ![t][f] = "again"]
        /\ v.status # "kernel_apc" => system_apc' = system_apc /\ Returned(t, f, v.status)
    BY DEF SelectEnds
  <1> HIDE DEF f, v
  <1>7. CASE u = t
    <2>1. CASE v.status = "kernel_apc"
      <3>1. pc'[t][f] = "again"
        BY <1>2, <1>3, <1>6, <2>1
      <3> QED BY <1>3, <1>7, <3>1 DEF FetchOK, Fetches, Calling
    <2>2. CASE v.status # "kernel_apc"
      BY <1>5, <1>6, <1>7, <2>2 DEF FetchOK
    <2> QED BY <2>1, <2>2
  <1>8. CASE u # t
    <2>1. pc'[u] = pc[u] /\ system_apc'[u] = system_apc[u]
      <3>1. CASE v.status = "kernel_apc"
        BY <1>2, <1>6, <1>8, <3>1
      <3>2. CASE v.status # "kernel_apc"
        BY <1>2, <1>6, <1>8, <3>2 DEF Returned
      <3> QED BY <3>1, <3>2
    <2>2. ToldApc(u) => ToldApc(u)'
      <3>1. pipe'[u] = pipe[u] \/ pipe'[u] = Append(pipe[u], r)
        BY <1>1
      <3> HIDE DEF r
      <3>2. HoldsApc(pipe[u]) => HoldsApc(Append(pipe[u], r))
        BY <1>2, <1>4, HoldsMore
      <3>3. CASE pipe'[u] = pipe[u]
        BY <1>1, <3>3, ToldApcSame
      <3>4. CASE pipe'[u] = Append(pipe[u], r)
        <4>1. stolen'[u] = stolen[u]
          BY <1>1
        <4> QED BY <3>2, <3>4, <4>1 DEF ToldApc, HoldsApc
      <3> QED BY <3>1, <3>3, <3>4
    <2>3. Head(todo).do = "select"
      BY <1>1 DEF Doing
    <2>4. FetchSame(u)
      BY <1>1, <2>1, <2>2, <2>3 DEF FetchSame
    <2> QED BY <1>2, <2>4, FetchKeeps
  <1> QED BY <1>7, <1>8

\* The death of a thread: its own APCs are gone.
LEMMA KillThreadFetch ==
  ASSUME ServerInv, FetchInv, NEW t \in Threads, NEW c \in program[t], KillThread(t, c)
  PROVE  FetchInv'
  <1> USE ServerParts
  <1> SUFFICES ASSUME NEW u \in Threads PROVE FetchOK(u)'
    BY DEF FetchInv
  <1> DEFINE d == c.owner
             callers == {system_apc[d][k] : k \in DOMAIN system_apc[d]}
  <1>1. /\ Idle /\ c.fn = "kill" /\ dead' = dead \cup {d} /\ UNCHANGED <<sigusr1, pipe, stolen>>
        /\ system_apc' = [system_apc EXCEPT ![d] = <<>>]
        /\ pc' = [w \in Threads |-> IF w \in callers THEN [pc[w] EXCEPT !["call"] = "requeue"] ELSE pc[w]]
    BY DEF KillThread
  <1>2. d \in Threads
    BY <1>1, CallFormed DEF WellFormed
  <1>3. /\ pc \in [Threads -> [Frames -> Places]] /\ system_apc \in [Threads -> Seq(Threads)]
        /\ FetchOK(u) /\ QueuedWait
    BY DEF StateInv, FetchInv, ApcsInv
  <1>4. \A w \in callers : pc[w]["call"] = "apc_wait"
    <2>1. system_apc[d] \in Seq(Threads)
      BY <1>2, <1>3
    <2>2. DOMAIN system_apc[d] = 1..Len(system_apc[d])
      BY <2>1
    <2> QED BY <1>2, <1>3, <2>2 DEF QueuedWait
  <1> HIDE DEF d, callers
  <1>5. CASE u = d
    BY <1>1, <1>5 DEF FetchOK
  <1>6. CASE u # d
    <2>1. system_apc'[u] = system_apc[u] /\ (u \notin dead' => u \notin dead)
      BY <1>1, <1>3, <1>6
    <2>2. \A g \in Frames : pc[u][g] \in Calling => pc'[u][g] \in Calling
      <3>1. CASE u \in callers
        <4>1. pc'[u] = [pc[u] EXCEPT !["call"] = "requeue"] /\ pc[u] \in [Frames -> Places]
          BY <1>1, <1>3, <3>1
        <4> QED BY <1>4, <3>1, <4>1 DEF Calling
      <3>2. CASE u \notin callers
        BY <1>1, <3>2
      <3> QED BY <3>1, <3>2
    <2>3. FetchSame(u)
      BY <1>1, <2>1, <2>2, ToldApcSame DEF FetchSame
    <2> QED BY <1>3, <2>3, FetchKeeps
  <1> QED BY <1>5, <1>6

\* A suspended thread that does not wait is on its way to the server.
LEMMA SuspendedFetches ==
  ASSUME ServerInv, StopsInv, Idle, NEW u \in Threads, u \notin dead, Suspended(u), wait[u] = <<>>
  PROVE  Fetches(u)
  <1> USE ServerParts
  <1>1. CASE sigusr1[u]
    BY <1>1 DEF Fetches
  <1>2. CASE ~sigusr1[u]
    <2>1. pc[u]["suspend"] # "idle" /\ ~Answer(u, "timeout") /\ \A x \in Statuses : Answer(u, x) => x \in {"kernel_apc", "timeout"}
      BY <1>2 DEF StopsInv, StopOK
    <2>2. pc[u]["suspend"] \in Places /\ pipe[u] \in Seq(Replies) /\ StackOK(u) /\ ReplyOK(u)
      BY DEF StateInv, Frames, StacksInv, RepliesInv
    <2>3. pc[u]["suspend"] \in Calling \cup {"read"}
      BY <2>1, <2>2 DEF Places, Calling, StackOK
    <2>4. CASE pc[u]["suspend"] = "read"
      <3>1. Sent(u, "suspend") \/ Kept(u, "suspend") \/ HasWait(u, "suspend")
        BY <2>2, <2>4 DEF ReplyOK, Frames
      <3>2. ~HasWait(u, "suspend") /\ ~Kept(u, "suspend")
        BY <2>2 DEF HasWait, ReplyOK
      <3>3. PICK k \in 1..Len(pipe[u]) : pipe[u][k].cookie = "suspend"
        BY <3>1, <3>2 DEF Sent
      <3>4. pipe[u][k].status \in Statuses /\ Answer(u, pipe[u][k].status)
        <4>1. pipe[u][k] \in Replies
          BY <2>2, <3>3
        <4> QED BY <3>3, <4>1 DEF Answer, Replies
      <3>5. pipe[u][k].status = "kernel_apc"
        BY <2>1, <3>4
      <3> QED BY <3>3, <3>5 DEF Fetches, ToldApc, HoldsApc
    <2>5. CASE pc[u]["suspend"] \in Calling
      BY <2>5 DEF Fetches, Frames
    <2> QED BY <2>3, <2>4, <2>5
  <1> QED BY <1>1, <1>2

\* Whoever is chosen for an APC comes for it: queue_apc wakes a thread that
\* waits, and sends a signal to one that does not.
LEMMA QueueSystemApcFetch ==
  ASSUME ServerInv, StopsInv, FetchInv, NEW t \in Threads, NEW c \in program[t], QueueSystemApc(t, c)
  PROVE  FetchInv'
  <1> USE ServerParts
  <1> SUFFICES ASSUME NEW u \in Threads PROVE FetchOK(u)'
    BY DEF FetchInv
  <1> DEFINE live == {k \in DOMAIN c.objs : c.objs[k] \notin dead}
             waiting == {k \in live : InApcWait(c.objs[k])}
             K == IF waiting # {} THEN waiting ELSE live
             w == c.objs[First(K)]
  <1>1. /\ Idle /\ c.fn = "queue_system" /\ UNCHANGED <<dead, pipe, stolen, wait>>
        /\ pc[t]["call"] \in {"idle", "requeue"}
    BY DEF QueueSystemApc, MayCall
  <1>2. /\ live = {} => pc' = [pc EXCEPT ![t]["call"] = "idle"] /\ UNCHANGED <<system_apc, sigusr1>>
        /\ live # {} => /\ system_apc' = [system_apc EXCEPT ![w] = Append(@, t)]
                        /\ sigusr1' = [sigusr1 EXCEPT ![w] = @ \/ waiting = {}]
                        /\ todo' = IF system_apc[w] = <<>> THEN <<WakeThread(w)>> ELSE <<>>
                        /\ pc' = [pc EXCEPT ![t]["call"] = "apc_wait"]
    BY DEF QueueSystemApc
  <1>3. /\ pc \in [Threads -> [Frames -> Places]] /\ system_apc \in [Threads -> Seq(Threads)]
        /\ sigusr1 \in [Threads -> BOOLEAN] /\ FetchOK(u) /\ StackOK(u) /\ wait \in [Threads -> Seq(Waits)]
    BY DEF StateInv, FetchInv, StacksInv
  <1>4. PICK x \in {"idle", "apc_wait"} : pc' = [pc EXCEPT ![t]["call"] = x]
    BY <1>2
  <1>5. \A g \in Frames : pc[u][g] \in Calling => pc'[u][g] \in Calling
    <2>1. CASE u # t
      BY <1>3, <1>4, <2>1
    <2>2. CASE u = t
      <3>1. pc'[u] = [pc[u] EXCEPT !["call"] = x] /\ pc[u] \in [Frames -> Places]
        BY <1>3, <1>4, <2>2
      <3> QED BY <1>1, <2>2, <3>1 DEF Calling
    <2> QED BY <2>1, <2>2
  <1>6. sigusr1[u] => sigusr1'[u]
    BY <1>2, <1>3
  <1>7. CASE live = {} \/ u # w
    <2>1. system_apc'[u] = system_apc[u]
      BY <1>2, <1>3, <1>7
    <2>2. FetchSame(u)
      BY <1>1, <1>5, <1>6, <2>1, ToldApcSame DEF FetchSame
    <2> QED BY <1>3, <2>2, FetchKeeps
  <1>8. CASE live # {} /\ u = w /\ system_apc[u] # <<>>
    <2>1. FetchSame(u)
      BY <1>1, <1>5, <1>6, <1>8, ToldApcSame DEF FetchSame
    <2> QED BY <1>3, <2>1, FetchKeeps
  <1>9. CASE live # {} /\ u = w /\ system_apc[u] = <<>>
    <2>1. CASE waiting = {}
      <3>1. sigusr1'[u]
        BY <1>2, <1>3, <1>9, <2>1
      <3> QED BY <3>1 DEF FetchOK, Fetches
    <2>2. CASE waiting # {}
      <3>1. First(K) \in waiting
        <4>1. c.objs \in Seq(Threads)
          BY <1>1, CallFormed DEF WellFormed
        <4>2. waiting \subseteq 1..Len(c.objs) /\ Len(c.objs) \in Nat
          BY <4>1
        <4>3. K = waiting
          BY <2>2
        <4> HIDE DEF waiting, K, live
        <4>4. waiting \in SUBSET Nat /\ waiting # {}
          BY <2>2, <4>2
        <4> QED BY <4>3, <4>4, FirstIn
      <3>2. InApcWait(u) /\ u \notin dead
        BY <1>9, <3>1
      <3>3. todo' = <<WakeThread(u)>>
        BY <1>2, <1>9
      <3>4. CASE wait[u] # <<>>
        <4>1. Head(wait[u]).cookie
          <5>1. Head(wait[u]).frame \in Frames /\ pc[u][Head(wait[u]).frame] = IF Head(wait[u]).cookie THEN "read" ELSE "server"
            BY <1>3, <3>4, TopFrame
          <5>2. pc[u][Head(wait[u]).frame] # "server"
            BY <1>1, <5>1, IdleNoServer
          <5> QED BY <5>1, <5>2
        <4>2. Chosen(u)'
          BY <1>1, <3>3, <3>4, <4>1 DEF Chosen, WakeThread
        <4> QED BY <4>2 DEF FetchOK, Fetches
      <3>5. CASE wait[u] = <<>>
        <4>1. Suspended(u)
          BY <3>2, <3>5 DEF InApcWait
        <4>2. Fetches(u)
          BY <1>1, <3>2, <3>5, <4>1, SuspendedFetches
        <4>3. ~Chosen(u)
          BY <3>5 DEF Chosen
        <4>4. ToldApc(u)' <=> ToldApc(u)
          BY <1>1, ToldApcSame
        <4>5. Fetches(u)'
          BY <1>5, <1>6, <4>2, <4>3, <4>4 DEF Fetches
        <4> QED BY <4>5 DEF FetchOK
      <3> QED BY <3>4, <3>5
    <2> QED BY <2>1, <2>2
  <1> QED BY <1>7, <1>8, <1>9

-----------------------------------------------------------------------------
(* The invariant and what it gives.                                        *)

LEMMA FetchInit == Init => FetchInv
  BY DEF Init, FetchInv, FetchOK

LEMMA FetchNext == ServerInv /\ StopsInv /\ FetchInv /\ [Next]_vars /\ [LooksForApcs]_vars => FetchInv'
  <1> SUFFICES ASSUME ServerInv, StopsInv, FetchInv, [Next]_vars, [LooksForApcs]_vars PROVE FetchInv'
    OBVIOUS
  <1>1. CASE UNCHANGED vars
    <2>1. UNCHANGED <<pc, dead, system_apc, pipe, stolen, sigusr1, todo, wait>>
      BY <1>1 DEF vars, apcs, client
    <2> QED BY <2>1, QuietFetch
  <1>2. CASE Next /\ LooksForApcs
    <2>1. CASE ServerStep
      <3>1. ASSUME NEW t \in Threads, SelectEnds(t) \/ SelectWoken(t) \/ SelectPends(t) PROVE FetchInv'
        BY <1>2, <3>1, SelectEndsFetch, CallsFetch, SelectPendsFetch
      <3> QED BY <2>1, <3>1, QuietStepsFetch, WakeThreadStepFetch DEF ServerStep
    <2>2. ASSUME NEW t \in Threads, ClientStep(t) \/ TimeStep(t) PROVE FetchInv'
      BY <1>2, <2>2, SelectFetch, CallsFetch, ReadReplyFetch, Usr1HandlerFetch, RequestsFetch, ThreadTimeoutFetch
         DEF ClientStep, TimeStep
    <2>3. ASSUME NEW t \in Threads, NEW c \in program[t], Requests(t, c) PROVE FetchInv'
      BY <1>2, <2>3, CallsFetch, RequestsFetch, QueueSystemApcFetch, KillThreadFetch DEF Requests
    <2> QED BY <1>2, <2>1, <2>2, <2>3 DEF Next
  <1> QED BY <1>1, <1>2

LEMMA FetchSuffices == ASSUME ServerInv, FetchInv PROVE ApcsFetched
  <1> USE ServerParts
  <1> SUFFICES ASSUME Idle, NEW t \in Threads \ dead, system_apc[t] # <<>>
               PROVE  \/ sigusr1[t]
                      \/ \E f \in Frames : pc[t][f] \in {"select", "again", "handler"}
                      \/ \E k \in DOMAIN (pipe[t] \o stolen[t]) :
                            (pipe[t] \o stolen[t])[k].status \in {"kernel_apc", "user_apc"}
    BY DEF ApcsFetched
  <1>1. Fetches(t)
    BY DEF FetchInv, FetchOK
  <1>2. ~Chosen(t)
    BY DEF Chosen, Idle
  <1>3. \A f \in Frames : pc[t][f] \in Calling => pc[t][f] \in {"select", "again", "handler"}
    BY IdleNoServer DEF Calling
  <1>4. ASSUME ToldApc(t)
        PROVE  \E k \in DOMAIN (pipe[t] \o stolen[t]) : (pipe[t] \o stolen[t])[k].status \in {"kernel_apc", "user_apc"}
    <2>1. pipe[t] \in Seq(Replies) /\ stolen[t] \in Seq(Replies)
      BY DEF StateInv
    <2>2. HoldsApc(pipe[t] \o stolen[t])
      BY <1>4, <2>1, HoldsJoin DEF ToldApc
    <2>3. DOMAIN (pipe[t] \o stolen[t]) = 1..Len(pipe[t] \o stolen[t])
      <3>1. pipe[t] \o stolen[t] \in Seq(Replies)
        BY <2>1, Join
      <3> HIDE DEF HoldsApc
      <3> QED BY <3>1
    <2> QED BY <2>2, <2>3 DEF HoldsApc
  <1> QED BY <1>1, <1>2, <1>3, <1>4 DEF Fetches

\* An APC for another process is not left behind, however the threads are
\* suspended, resumed, sent APCs and killed: the thread that has it asks the
\* server, was told or signaled to, or runs the handler.  Only a call that fails
\* to signal its object, or that its own signal ends, returns without a look
\* at the APCs of its thread, and LooksForApcs excludes that it then has one
\* (queue_apc, check_wait, server_select).
THEOREM ApcsComeFor == Spec /\ [][LooksForApcs]_vars => []ApcsFetched
  <1> DEFINE Inv == ServerInv /\ StopsInv
  <1>1. Spec => []Inv
    BY ServerInvariant, StopsInvariant, PTL
  <1>2. Init => FetchInv
    BY FetchInit
  <1>3. Inv /\ FetchInv /\ [Next]_vars /\ [LooksForApcs]_vars => FetchInv'
    BY FetchNext
  <1>4. Inv /\ FetchInv => ApcsFetched
    BY FetchSuffices
  <1> HIDE DEF Inv
  <1> QED BY <1>1, <1>2, <1>3, <1>4, PTL DEF Spec

-----------------------------------------------------------------------------
(* A request whose signal cannot fail nor end its own wait does look.      *)

\* What is left to do of the select of t does not end its wait.
Clear(t, x) ==
    \/ x.do = "select"
    \/ /\ call[t].fn = "signal_wait"
       /\ \/ x.do = "wake_up" /\ \A k \in DOMAIN WaitObjs(call[t]) : WaitObjs(call[t])[k] # x.obj
          \/ x.do = "wake_thread" /\ x.thread # t
AllClear(t, s) == \A k \in 1..Len(s) : Clear(t, s[k])
SignalsItself(t) == call[t].fn = "signal_wait" /\ call[t].objs[1] = call[t].objs[2]
SelfOK(t) == pc[t]["call"] = "server" /\ ~SignalsItself(t) => HasWait(t, "call") /\ AllClear(t, todo)
SelfInv == \A t \in Threads : SelfOK(t)

LEMMA ClearTail ==
  ASSUME NEW s \in Seq(Items), s # <<>>, NEW t, AllClear(t, s)
  PROVE  AllClear(t, Tail(s)) /\ Clear(t, Head(s))
  <1>1. /\ Len(s) \in Nat /\ Len(s) >= 1 /\ s[1] = Head(s)
        /\ \A k \in 1..Len(Tail(s)) : k + 1 \in 1..Len(s) /\ Tail(s)[k] = s[k + 1]
    BY HeadTail
  <1>2. Clear(t, s[1])
    BY <1>1 DEF AllClear
  <1>3. \A k \in 1..Len(Tail(s)) : Clear(t, Tail(s)[k])
    BY <1>1 DEF AllClear
  <1> QED BY <1>1, <1>2, <1>3 DEF AllClear

LEMMA ClearCons ==
  ASSUME NEW s \in Seq(Items), NEW x \in Items, NEW t, AllClear(t, s), Clear(t, x)
  PROVE  AllClear(t, <<x>> \o s)
  <1>1. /\ (<<x>> \o s)[1] = x /\ Len(s) \in Nat /\ Len(<<x>> \o s) = Len(s) + 1
        /\ \A k \in 2..Len(<<x>> \o s) : k - 1 \in 1..Len(s) /\ (<<x>> \o s)[k] = s[k - 1]
    BY Cons
  <1>2. ASSUME NEW k \in 1..Len(<<x>> \o s) PROVE Clear(t, (<<x>> \o s)[k])
    <2>1. CASE k = 1
      BY <1>1, <2>1
    <2>2. CASE k # 1
      <3>1. k \in 2..Len(<<x>> \o s)
        BY <1>1, <2>2
      <3> QED BY <1>1, <3>1 DEF AllClear
    <2> QED BY <2>1, <2>2
  <1> QED BY <1>2 DEF AllClear

\* A step leaves a select alone.
LEMMA SelfSame ==
  ASSUME NEW u \in Threads, SelfOK(u), pc'[u]["call"] = "server" => pc[u]["call"] = "server",
         pc[u]["call"] = "server" => wait'[u] = wait[u] /\ call'[u] = call[u],
         pc[u]["call"] = "server" /\ AllClear(u, todo) => AllClear(u, todo')
  PROVE  SelfOK(u)'
  <1> SUFFICES ASSUME pc'[u]["call"] = "server", ~SignalsItself(u)' PROVE HasWait(u, "call")' /\ AllClear(u, todo)'
    BY DEF SelfOK
  <1>1. wait'[u] = wait[u] /\ call'[u] = call[u] /\ AllClear(u, todo) /\ HasWait(u, "call")
    BY DEF SelfOK, SignalsItself
  <1>2. AllClear(u, todo')
    BY <1>1
  <1> QED BY <1>1, <1>2 DEF HasWait, AllClear, Clear

LEMMA SelfUnchanged ==
  ASSUME SelfInv, todo' = todo,
         \A u \in Threads : pc'[u]["call"] = "server" => pc[u]["call"] = "server",
         \A u \in Threads : pc[u]["call"] = "server" => wait'[u] = wait[u] /\ call'[u] = call[u]
  PROVE  SelfInv'
  <1> SUFFICES ASSUME NEW u \in Threads PROVE SelfOK(u)'
    BY DEF SelfInv
  <1>1. AllClear(u, todo) => AllClear(u, todo')
    OBVIOUS
  <1> QED BY <1>1, SelfSame DEF SelfInv

\* Nobody is in a request after the step.
LEMMA SelfNone ==
  ASSUME \A u \in Threads : pc'[u]["call"] # "server"
  PROVE  SelfInv'
  BY DEF SelfInv, SelfOK

LEMMA SelfFree ==
  ASSUME ServerInv, NEW t \in Threads, NEW f \in Frames, NEW x, x # "server", pc' = [pc EXCEPT ![t][f] = x]
  PROVE  \A u \in Threads : pc'[u]["call"] = "server" => pc[u]["call"] = "server"
  <1>1. pc \in [Threads -> [Frames -> Places]]
    BY ServerParts DEF StateInv
  <1>2. ASSUME NEW u \in Threads, pc'[u]["call"] = "server" PROVE pc[u]["call"] = "server"
    <2>1. CASE u # t
      BY <1>1, <1>2, <2>1
    <2>2. CASE u = t
      <3>1. pc'[u] = [pc[u] EXCEPT ![f] = x] /\ pc[u] \in [Frames -> Places] /\ "call" \in Frames
        BY <1>1, <2>2 DEF Frames
      <3> QED BY <1>2, <3>1
    <2> QED BY <2>1, <2>2
  <1> QED BY <1>2

\* Requests find nobody in a select.
LEMMA RequestsSelf ==
  ASSUME ServerInv, SelfInv, NEW t \in Threads, NEW c \in program[t], Requests(t, c)
  PROVE  SelfInv'
  <1> USE ServerParts
  <1>t. pc \in [Threads -> [Frames -> Places]] /\ "call" \in Frames
    BY DEF StateInv, Frames
  <1>1. CASE BeginWait(t, c)
    <2>1. /\ UNCHANGED <<todo, wait>> /\ pc[t]["call"] = "idle" /\ call' = [call EXCEPT ![t] = c]
          /\ \E x : x # "server" /\ pc' = [pc EXCEPT ![t]["call"] = x]
      BY <1>1 DEF BeginWait, MayCall
    <2>2. \A u \in Threads : pc'[u]["call"] = "server" => pc[u]["call"] = "server"
      BY <1>t, <2>1, SelfFree
    <2>3. \A u \in Threads : pc[u]["call"] = "server" => call'[u] = call[u]
      BY <2>1 DEF CallsInv
    <2> QED BY <2>1, <2>2, <2>3, SelfUnchanged
  <1>2. CASE ~BeginWait(t, c)
    <2>1. Idle
      BY <1>2 DEF Requests, Signal, ResetEvent, SuspendThread, ResumeThread, SetThreadContext, QueueUserApc,
                  QueueSystemApc, SetTimer, CancelTimerOf, KillThread
    <2>2. \A u \in Threads : pc[u]["call"] # "server"
      BY <1>t, <2>1, IdleNoServer
    <2>3. \A u \in Threads : pc'[u]["call"] # "server"
      <3>1. CASE KillThread(t, c)
        <4>1. PICK C : pc' = [u \in Threads |-> IF u \in C THEN [pc[u] EXCEPT !["call"] = "requeue"] ELSE pc[u]]
          BY <3>1 DEF KillThread
        <4>2. ASSUME NEW u \in Threads PROVE pc'[u]["call"] # "server"
          <5>1. pc'[u] = IF u \in C THEN [pc[u] EXCEPT !["call"] = "requeue"] ELSE pc[u]
            BY <4>1
          <5>2. pc[u] \in [Frames -> Places]
            BY <1>t
          <5> QED BY <1>t, <2>2, <5>1, <5>2
        <4> QED BY <4>2
      <3>2. CASE QueueSystemApc(t, c)
        <4>1. \E x : x # "server" /\ pc' = [pc EXCEPT ![t]["call"] = x]
          BY <3>2 DEF QueueSystemApc
        <4> QED BY <1>t, <2>2, <4>1, SelfFree
      <3>3. CASE ~KillThread(t, c) /\ ~QueueSystemApc(t, c)
        <4>1. pc' = pc
          BY <1>2, <3>3 DEF Requests, Signal, ResetEvent, SuspendThread, ResumeThread, SetThreadContext, QueueUserApc,
                  SetTimer, CancelTimerOf, client
        <4> QED BY <2>2, <4>1
      <3> QED BY <3>1, <3>2, <3>3
    <2> QED BY <2>3, SelfNone
  <1> QED BY <1>1, <1>2

LEMMA ClientSelf ==
  ASSUME ServerInv, SelfInv, NEW t \in Threads, ~Select(t), ClientStep(t) \/ TimeStep(t)
  PROVE  SelfInv'
  <1> USE ServerParts
  <1>t. /\ pc \in [Threads -> [Frames -> Places]] /\ "call" \in Frames /\ "suspend" \in Frames /\ Active(t) \in Frames
        /\ DOMAIN call = Threads
    BY DEF StateInv, Frames, Active, CallsInv
  <1>1. CASE SelectFails(t) \/ TimerCallback(t) \/ ThreadTimeout(t)
    <2>1. Idle /\ (pc' = pc \/ \E x : x # "server" /\ pc' = [pc EXCEPT ![t]["call"] = x])
      BY <1>1 DEF SelectFails, TimerCallback, ThreadTimeout, Returned, client
    <2>2. \A u \in Threads : pc[u]["call"] # "server"
      BY <1>t, <2>1, IdleNoServer
    <2>3. \A u \in Threads : pc'[u]["call"] # "server"
      <3>1. CASE pc' = pc
        BY <2>2, <3>1
      <3>2. ASSUME NEW x, x # "server", pc' = [pc EXCEPT ![t]["call"] = x] PROVE \A u \in Threads : pc'[u]["call"] # "server"
        BY <1>t, <2>2, <3>2, SelfFree
      <3> QED BY <2>1, <3>1, <3>2
    <2> QED BY <2>3, SelfNone
  <1>2. CASE Usr1Handler(t) \/ DriverAlerted(t) \/ Expire(t)
    <2>1. /\ UNCHANGED <<todo, wait, call>>
          /\ pc' = pc \/ \E f \in Frames : \E x : x # "server" /\ pc' = [pc EXCEPT ![t][f] = x]
      BY <1>t, <1>2 DEF Usr1Handler, DriverAlerted, Expire
    <2>2. \A u \in Threads : pc'[u]["call"] = "server" => pc[u]["call"] = "server"
      BY <2>1, SelfFree
    <2> QED BY <2>1, <2>2, SelfUnchanged
  <1>3. CASE ReadReply(t)
    <2> DEFINE f == Active(t)
    <2>1. /\ UNCHANGED <<todo, wait>> /\ pc[t][f] = "read"
          /\ \/ UNCHANGED <<pc, call>>
             \/ /\ \E x : x # "server" /\ pc' = [pc EXCEPT ![t][f] = x]
                /\ UNCHANGED call \/ call' = [call EXCEPT ![t] = IF f = "call" THEN NoCall ELSE @]
      BY <1>3 DEF ReadReply, Returned
    <2> HIDE DEF f
    <2>2. \A u \in Threads : pc'[u]["call"] = "server" => pc[u]["call"] = "server"
      <3>1. CASE pc' = pc
        BY <3>1
      <3>2. ASSUME NEW x, x # "server", pc' = [pc EXCEPT ![t][f] = x]
            PROVE  \A u \in Threads : pc'[u]["call"] = "server" => pc[u]["call"] = "server"
        BY <1>t, <3>2, SelfFree DEF f
      <3> QED BY <2>1, <3>1, <3>2
    <2>3. \A u \in Threads : pc[u]["call"] = "server" => call'[u] = call[u]
      BY <1>t, <2>1
    <2> QED BY <2>1, <2>2, <2>3, SelfUnchanged
  <1> QED BY <1>1, <1>2, <1>3 DEF ClientStep, TimeStep

\* The select itself: it wakes those who wait for the object that it signals.
LEMMA SelectSelf == ASSUME ServerInv, SelfInv, NEW t \in Threads, Select(t) PROVE SelfInv'
  <1> USE ServerParts
  <1> SUFFICES ASSUME NEW u \in Threads PROVE SelfOK(u)'
    BY DEF SelfInv
  <1> DEFINE f == Active(t)
             w == [frame |-> f, cookie |-> FALSE, user |-> FALSE]
  <1>1. /\ Idle /\ t \notin dead /\ pc[t][f] \in {"select", "again", "handler"}
        /\ StorePrevApc(t, f)
        /\ wait' = [wait EXCEPT ![t] = <<w>> \o @]
        /\ IF Signals(t, f) THEN todo' = SignalWakes(call[t].objs[1], 1) \o <<EndSelect(t)>>
                            ELSE todo' = <<EndSelect(t)>>
        /\ UNCHANGED system_apc
    BY DEF Select, apcs
  <1>2. f \in Frames /\ w \in Waits
    BY DEF Active, Frames, Waits
  <1>3. \A v \in Threads : \A g \in Frames : pc[v][g] # "server"
    BY <1>1, IdleNoServer
  <1>4. wait \in [Threads -> Seq(Waits)] /\ pc \in [Threads -> [Frames -> Places]] /\ "call" \in Frames
    BY DEF StateInv, Frames
  <1>5. /\ pc'[t] = [pc[t] EXCEPT ![f] = "server"]
        /\ \A v \in Threads : v # t => pc'[v] = pc[v] \/ (pc[v]["call"] = "apc_wait" /\ pc'[v] = [pc[v] EXCEPT !["call"] = "idle"])
        /\ \A v \in Threads : pc[v]["call"] # "apc_wait" => call'[v] = call[v]
    <2>1. pc[t][f] # "apc_wait"
      BY <1>1
    <2> HIDE DEF f
    <2> QED BY <1>1, <1>2, <2>1, SelectApcs
  <1> HIDE DEF f, w
  <1>6. CASE u # t
    <2>1. pc[u] \in [Frames -> Places] /\ pc[u]["call"] # "server"
      BY <1>3, <1>4
    <2>2. pc'[u]["call"] # "server"
      BY <1>4, <1>5, <1>6, <2>1
    <2> QED BY <2>2 DEF SelfOK
  <1>7. CASE u = t /\ f # "call"
    <2>1. pc'[u]["call"] # "server"
      BY <1>3, <1>4, <1>5, <1>7
    <2> QED BY <2>1 DEF SelfOK
  <1>8. CASE u = t /\ f = "call"
    <2>1. pc[t]["call"] # "apc_wait" /\ call'[t] = call[t]
      BY <1>1, <1>5, <1>8
    <2>2. HasWait(t, "call")'
      <3>1. wait'[t] = <<w>> \o wait[t] /\ wait[t] \in Seq(Waits)
        BY <1>1, <1>4
      <3>2. wait'[t][1] = w /\ 1 \in 1..Len(wait'[t])
        BY <1>2, <3>1, Cons
      <3>3. w.frame = "call"
        BY <1>8 DEF w
      <3> QED BY <3>2, <3>3 DEF HasWait
    <2>3. EndSelect(t) \in Items /\ EndSelect(t).do = "select" /\ <<>> \in Seq(Items)
      BY ItemFacts, ItemsApart
    <2>4. ASSUME ~SignalsItself(t) PROVE AllClear(t, todo')
      <3>1. AllClear(t, <<EndSelect(t)>>) /\ <<EndSelect(t)>> \in Seq(Items)
        BY <2>3 DEF AllClear, Clear
      <3>2. CASE ~Signals(t, f)
        BY <1>1, <3>1, <3>2
      <3>3. CASE Signals(t, f)
        <4> DEFINE o == call[t].objs[1]
        <4>1. call[t].fn = "signal_wait" /\ WellFormed(t, call[t])
          BY <3>3, CallFormed DEF Signals, NoCall
        <4>2. o \in Objs /\ WaitObjs(call[t]) = <<call[t].objs[2]>> /\ call[t].objs[1] # call[t].objs[2]
          BY <2>4, <4>1 DEF WellFormed, WaitObjs, SignalsItself
        <4>3. PICK s \in {<<>>} \cup {<<WakeUp(o, n)>> : n \in Nat} : SignalWakes(o, 1) = s
          BY DEF SignalWakes
        <4>4. todo' = s \o <<EndSelect(t)>>
          BY <1>1, <3>3, <4>3
        <4>5. CASE s = <<>>
          <5>1. todo' = <<EndSelect(t)>>
            BY <3>1, <4>4, <4>5
          <5> QED BY <3>1, <5>1
        <4>6. ASSUME NEW n \in Nat, s = <<WakeUp(o, n)>> PROVE AllClear(t, todo')
          <5>1. WakeUp(o, n) \in Items /\ WakeUp(o, n).do = "wake_up" /\ WakeUp(o, n).obj = o
            BY <4>2, ItemFacts DEF WakeUp
          <5>2. Clear(t, WakeUp(o, n))
            BY <4>1, <4>2, <5>1 DEF Clear
          <5>3. AllClear(t, <<WakeUp(o, n)>> \o <<EndSelect(t)>>)
            BY <3>1, <5>1, <5>2, ClearCons
          <5> QED BY <4>4, <4>6, <5>3
        <4> QED BY <4>3, <4>5, <4>6
      <3> QED BY <3>2, <3>3
    <2>5. SignalsItself(t)' <=> SignalsItself(t)
      BY <2>1 DEF SignalsItself
    <2>6. AllClear(t, todo') => AllClear(t, todo)'
      BY <2>1 DEF AllClear, Clear
    <2> QED BY <1>8, <2>2, <2>4, <2>5, <2>6 DEF SelfOK
  <1> QED BY <1>6, <1>7, <1>8

LEMMA SelectDoneSelf ==
  ASSUME ServerInv, SelfInv, NEW t \in Threads, SelectEnds(t) \/ SelectWoken(t) \/ SelectPends(t)
  PROVE  SelfInv'
  <1>1. Doing("select") /\ Head(todo).thread = t
    BY DEF SelectEnds, SelectWoken, SelectPends
  <1>2. /\ Active(t) \in Frames /\ pc[t][Active(t)] = "server" /\ (wait[t] = <<>> => Active(t) = "call")
        /\ \A u \in Threads, g \in Frames : pc[u][g] = "server" => u = t /\ g = Active(t)
    BY <1>1, SelectDone
  <1>3. pc \in [Threads -> [Frames -> Places]] /\ "call" \in Frames
    BY ServerParts DEF StateInv, Frames
  <1>4. PICK x : x # "server" /\ pc' = [pc EXCEPT ![t][Active(t)] = x]
    BY <1>2 DEF SelectEnds, SelectWoken, SelectPends, Returned
  <1>5. ASSUME NEW u \in Threads PROVE pc'[u]["call"] # "server"
    <2>1. CASE u # t
      BY <1>2, <1>3, <1>4, <2>1
    <2>2. CASE u = t
      <3>1. pc'[u] = [pc[u] EXCEPT ![Active(t)] = x] /\ pc[u] \in [Frames -> Places]
        BY <1>3, <1>4, <2>2
      <3> QED BY <1>2, <1>3, <1>4, <2>2, <3>1
    <2> QED BY <2>1, <2>2
  <1> QED BY <1>5, SelfNone

LEMMA ServerSelf ==
  ASSUME ServerInv, SelfInv, WakeUpStep \/ WakeThreadStep \/ ResetStep \/ AbandonStep
  PROVE  SelfInv'
  <1> USE ServerParts
  <1> SUFFICES ASSUME NEW u \in Threads PROVE SelfOK(u)'
    BY DEF SelfInv
  <1>1. UNCHANGED <<pc, call>> /\ todo # <<>> /\ SelfOK(u)
    BY DEF WakeUpStep, WakeThreadStep, ResetStep, AbandonStep, Doing, client, SelfInv
  <1> SUFFICES ASSUME pc[u]["call"] = "server", ~SignalsItself(u)
               PROVE  HasWait(u, "call")' /\ AllClear(u, todo')
    <2>1. SignalsItself(u)' <=> SignalsItself(u)
      BY <1>1 DEF SignalsItself
    <2>2. AllClear(u, todo') => AllClear(u, todo)'
      BY <1>1 DEF AllClear, Clear
    <2> QED BY <1>1, <2>1, <2>2 DEF SelfOK
  <1>2. /\ HasWait(u, "call") /\ AllClear(u, todo) /\ AllClear(u, Tail(todo)) /\ Clear(u, Head(todo))
        /\ Tail(todo) \in Seq(Items) /\ Head(todo) \in Items /\ IsItem(Head(todo))
    BY <1>1, ClearTail, HeadTail, ItemsTail DEF SelfOK
  <1>3. CASE ResetStep \/ AbandonStep
    BY <1>2, <1>3 DEF ResetStep, AbandonStep, Doing, Clear
  <1>4. CASE WakeUpStep
    <2> DEFINE h == Head(todo)
               q == queue[h.obj]
               able == {k \in DOMAIN q : CanEnd(q[k][1])}
               n == IF h.max = 0 THEN 0 ELSE h.max - 1
               z == [h EXCEPT !.max = n]
    <2>1. h.do = "wake_up" /\ h.obj \in Objs /\ h.max \in Nat /\ wait' = wait
      BY <1>2, <1>4 DEF WakeUpStep, Doing, IsItem, Items
    <2>2. call[u].fn = "signal_wait" /\ \A k \in DOMAIN WaitObjs(call[u]) : WaitObjs(call[u])[k] # h.obj
      BY <1>2, <2>1 DEF Clear
    <2>3. HasWait(u, "call")'
      BY <1>2, <2>1 DEF HasWait
    <2>4. CASE able = {}
      BY <1>2, <1>4, <2>3, <2>4 DEF WakeUpStep
    <2>5. CASE able # {}
      <3> DEFINE i == First(able)
                 y == q[i][1]
      <3>1. todo' = <<WakeThread(y)>> \o (IF h.max = 1 THEN Tail(todo) ELSE <<z>> \o Tail(todo))
        BY <1>4, <2>5 DEF WakeUpStep
      <3>2. i \in 1..Len(q) /\ q \in Seq(Threads \X Nat)
        <4>1. q \in Seq(Threads \X Nat)
          BY <2>1 DEF StateInv
        <4>2. able \subseteq 1..Len(q) /\ Len(q) \in Nat
          BY <4>1
        <4>3. able \in SUBSET Nat /\ able # {}
          <5> HIDE DEF able
          <5> QED BY <2>5, <4>2
        <4>4. i \in able
          <5> HIDE DEF able
          <5> QED BY <4>3, FirstIn
        <4> QED BY <4>1, <4>2, <4>4
      <3>3. y \in Threads /\ q[i][2] \in DOMAIN WaitObjs(call[y]) /\ WaitObjs(call[y])[q[i][2]] = h.obj
        <4>1. q[i] \in Threads \X Nat
          <5> HIDE DEF q, i
          <5> QED BY <3>2
        <4>2. y \in Threads
          BY <4>1
        <4>3. QueueOK(h.obj)
          BY <2>1 DEF QueuesInv
        <4> QED BY <3>2, <4>2, <4>3 DEF QueueOK
      <3>4. y # u
        BY <2>2, <3>3
      <3> HIDE DEF y
      <3>5. Clear(u, WakeThread(y)) /\ WakeThread(y) \in Items
        BY <2>2, <3>3, <3>4, ItemFacts, ItemsApart DEF Clear
      <3>6. z \in Items /\ Clear(u, z)
        <4>1. n \in Nat
          BY <2>1
        <4> HIDE DEF n
        <4>2. z \in Items /\ z.do = "wake_up" /\ z.obj = h.obj
          BY <1>2, <2>1, <4>1 DEF Items
        <4> QED BY <2>2, <4>2 DEF Clear
      <3> HIDE DEF z, h
      <3>7. AllClear(u, <<z>> \o Tail(todo)) /\ <<z>> \o Tail(todo) \in Seq(Items)
        BY <1>2, <3>6, ClearCons, Cons
      <3>8. AllClear(u, todo')
        BY <1>2, <3>1, <3>5, <3>7, ClearCons
      <3> QED BY <2>3, <3>8
    <2> QED BY <2>4, <2>5
  <1>5. CASE WakeThreadStep
    <2> DEFINE t == Head(todo).thread
               v == CheckWait(t)
    <2>1. Head(todo).do = "wake_thread" /\ t \in Threads
      BY <1>2, <1>5 DEF WakeThreadStep, Doing, IsItem
    <2>2. call[u].fn = "signal_wait" /\ t # u
      BY <1>2, <2>1 DEF Clear
    <2>3. todo' = todo \/ todo' = Tail(todo)
      BY <1>5 DEF WakeThreadStep
    <2>4. wait'[u] = wait[u]
      <3>1. CASE ~CanEnd(t)
        BY <1>5, <3>1 DEF WakeThreadStep
      <3>2. CASE CanEnd(t)
        <4>1. EndWait(t, v) /\ wait[t] # <<>> /\ v = CheckWait(t)
          BY <1>5, <3>2 DEF WakeThreadStep, CanEnd
        <4> HIDE DEF t, v
        <4>2. u \notin Ends(t, v)
          <5>1. ~IsKeyed(call[u])
            BY <2>2 DEF IsKeyed
          <5> QED BY <2>1, <2>2, <3>2, <4>1, <5>1, PartnerApart
        <4> QED BY <2>1, <3>2, <4>1, <4>2, EndFacts
      <3> QED BY <3>1, <3>2
    <2>5. HasWait(u, "call")'
      BY <1>2, <2>4 DEF HasWait
    <2> QED BY <1>2, <2>3, <2>5
  <1> QED BY <1>3, <1>4, <1>5

LEMMA SelfNext == ServerInv /\ SelfInv /\ [Next]_vars => SelfInv'
  <1> SUFFICES ASSUME ServerInv, SelfInv, [Next]_vars PROVE SelfInv'
    OBVIOUS
  <1>1. CASE UNCHANGED vars
    <2>1. UNCHANGED <<pc, todo, wait, call>>
      BY <1>1 DEF vars, client
    <2> QED BY <2>1, SelfUnchanged
  <1>2. CASE Next
    BY <1>2, ServerSelf, SelectDoneSelf, SelectSelf, ClientSelf, RequestsSelf DEF Next, ServerStep, ClientStep
  <1> QED BY <1>1, <1>2

\* In particular an APC is not left behind when all calls that signal and wait
\* signal an event, which cannot fail, and wait for another object.
THEOREM ApcsComeForEvents ==
  ASSUME \A p \in Programs : \A t \in Threads : \A c \in p[t] :
            c.fn = "signal_wait" => Type[c.objs[1]] \in {"event", "keyed"} /\ c.objs[1] # c.objs[2]
  PROVE  Spec => []ApcsFetched
  <1>1. Init => SelfInv
    BY DEF Init, SelfInv, SelfOK, Frames
  <1>2. ASSUME ServerInv, SelfInv PROVE LooksForApcs
    <2> USE <1>2, ServerParts
    <2> SUFFICES ASSUME NEW t \in Threads, SelectFails(t) \/ SelectWoken(t) PROVE FALSE
      BY DEF LooksForApcs
    <2>1. ASSUME call[t].fn = "signal_wait"
          PROVE  Type[call[t].objs[1]] \in {"event", "keyed"} /\ call[t].objs[1] # call[t].objs[2]
      <3>1. call[t] \in program[t] /\ program \in Programs
        BY <2>1 DEF CallsInv, IsCall, NoCall, StateInv
      <3> QED BY <2>1, <3>1
    <2>2. CASE SelectFails(t)
      BY <2>1, <2>2 DEF SelectFails, Signals, CanSignal
    <2>3. CASE SelectWoken(t)
      <3>1. Doing("select") /\ Head(todo).thread = t /\ wait[t] = <<>>
        BY <2>3 DEF SelectWoken
      <3>2. pc[t]["call"] = "server"
        BY <3>1, SelectDone
      <3>3. HasWait(t, "call")
        BY <2>1, <3>2 DEF SelfInv, SelfOK, SignalsItself
      <3> QED BY <3>1, <3>3 DEF HasWait
    <2> QED BY <2>2, <2>3
  <1>3. ServerInv /\ SelfInv /\ [Next]_vars => SelfInv'
    BY SelfNext
  <1>4. ServerInv /\ SelfInv => [LooksForApcs]_vars
    BY <1>2
  <1> QED BY <1>1, <1>3, <1>4, ServerInvariant, ApcsComeFor, PTL DEF Spec
=============================================================================
