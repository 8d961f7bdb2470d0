------------------------- MODULE InprocCacheProofs --------------------------
(***************************************************************************)
(* Proofs about the handle cache of the in-process synchronization         *)
(* objects, for any number of threads, handles and unix fds.               *)
(*                                                                         *)
(* The argument is about who answers for an fd.  References are counted:   *)
(* an entry's count is the number of its syncs that threads hold, plus one *)
(* for its handle until a close takes that one over.  Hence whoever brings *)
(* the count to zero held the last reference, and the fd it saved before   *)
(* is its own to close.  fd_cache_mutex makes a fill and a close exclude   *)
(* each other, so that an entry lookups accept is never out of date.       *)
(***************************************************************************)
EXTENDS InprocCache, FiniteSetTheorems, SequenceTheorems, TLAPS

-----------------------------------------------------------------------------
(* The invariant.                                                          *)

\* There is a handle left to look up.
Room(t) == Len(held[t]) < Len(hs[t])
Taken == {"check", "cache", "fill", "publish", "use", "save", "dec", "mark"}
Filling == {"cache", "fill", "publish"}
Releasing == {"save", "dec", "fd_close"}

\* What each point of a call says of its locals, ...
LocalsOK(t) ==
    /\ pc[t] # "idle" => Len(hs[t]) > 0 /\ (fn[t] = "close" => Len(hs[t]) = 1)
    /\ pc[t] \in {"idle", "server"} => held[t] = <<>>
    /\ pc[t] \in {"enter", "get", "ask"} => Room(t)
    /\ pc[t] \in Taken => held[t] # <<>>
    /\ fn[t] = "use" => Len(held[t]) <= Len(hs[t])
    /\ pc[t] \in {"check", "mark"} =>
          /\ Len(held[t]) <= Len(hs[t])
          /\ Top(t).entry = TopHandle(t)
    /\ pc[t] \in Filling => Top(t).entry = None
    /\ finding[t] => /\ pc[t] \in Releasing
                     /\ pc[t] # "fd_close" => Len(held[t]) <= Len(hs[t])
                     /\ pc[t] = "fd_close" => Room(t)
    /\ pc[t] \in Filling \cup {"ask", "use"} => fn[t] = "use"
    /\ pc[t] \in {"mark", "server"} => fn[t] = "close"
    /\ pc[t] = "dec" => saved[t] = SyncFd(Top(t))
    \* a sync on the stack is complete when the lookup returns it
    /\ \A k \in 1..Len(held[t]) : held[t][k].entry = None => held[t][k].fd \in Fds \cup {BadFd} /\ held[t][k].thing # None
\* ... and of fd_cache_mutex.
MutexOK(t) ==
    /\ pc[t] \in Filling \cup {"ask", "mark", "server"} => mutex = t
    /\ fn[t] = "close" /\ pc[t] \notin {"idle", "enter"} => mutex = t
    /\ pc[t] \in {"idle", "enter", "use"} => mutex # t
    /\ fn[t] = "use" /\ pc[t] \in Releasing /\ ~finding[t] => mutex # t

\* The references that threads hold to the entry of h, and its count.
Places == {r \in Threads \X Nat : r[2] \in 1..Len(held[r[1]])}
Refs(h) == {r \in Places : held[r[1]][r[2]].entry = h}
RefsOK(h) ==
    /\ IsFiniteSet(Refs(h))
    /\ refcount[h] = Cardinality(Refs(h)) + (IF Live(h) THEN 1 ELSE 0)

\* Who answers for an fd: an entry, a sync on a stack, or the thread that
\* is about to close it.  There is one exactly while the fd is open.
StackPlaces(f) == {r \in Places : held[r[1]][r[2]].entry = None /\ held[r[1]][r[2]].fd = f}
Closers(f) == {t \in Threads : pc[t] = "fd_close" /\ saved[t] = f}
Owners(f) ==
    {<<"entry", h>> : h \in EntryOwners(f)} \cup {<<"stack", r>> : r \in StackPlaces(f)}
        \cup {<<"closer", t>> : t \in Closers(f)}
FdOK(f) ==
    /\ \A a, b \in Owners(f) : a = b
    /\ fdThing[f] # None <=> Owners(f) # {}

\* fd, unless the process had none left when the sync was made, is thing.
Denotes(f, thing) == f \in Fds => fdThing[f] = thing
SyncOK(s) == s.thing # None => Denotes(SyncFd(s), s.thing)
EntryOK(h) == Live(h) => table[h] # None /\ Denotes(fd[h], table[h])

\* What a fill and a close rely on while they hold fd_cache_mutex.
FillOK(t) ==
    /\ pc[t] \in Filling => Top(t).thing = table[TopHandle(t)]
    /\ pc[t] \in {"fill", "publish"} => refcount[TopHandle(t)] = 0
    /\ pc[t] = "publish" => fd[TopHandle(t)] = Top(t).fd /\ ~closed[TopHandle(t)]
CloseOK(t) ==
    /\ pc[t] = "mark" => ~closed[TopHandle(t)]
    /\ fn[t] = "close" /\ pc[t] \in Releasing \cup {"server"} => ~Live(hs[t][1])

CallsInv == \A t \in Threads : LocalsOK(t) /\ MutexOK(t)
RefsInv == \A h \in Handles : RefsOK(h)
FdsInv == \A f \in Fds : FdOK(f)
ThingsInv == /\ \A t \in Threads : \A k \in 1..Len(held[t]) : SyncOK(held[t][k])
             /\ \A h \in Handles : EntryOK(h)
ClosesInv == \A t \in Threads : FillOK(t) /\ CloseOK(t)
CacheInv == TypeOK /\ CallsInv /\ RefsInv /\ FdsInv /\ ThingsInv /\ ClosesInv

\* There is always an fd left for one more sync.
FdsSuffice == \E f \in Fds : fdThing[f] = None

-----------------------------------------------------------------------------
(* The syncs that threads hold.                                            *)

LEMMA AppendFacts ==
  ASSUME NEW S, NEW s \in Seq(S), NEW x \in S
  PROVE  /\ Append(s, x) \in Seq(S) /\ Len(s) \in Nat /\ Len(Append(s, x)) = Len(s) + 1
         /\ \A k \in 1..Len(s) : Append(s, x)[k] = s[k]
         /\ Append(s, x)[Len(s) + 1] = x
  OBVIOUS

LEMMA PoppedFacts ==
  ASSUME NEW S, NEW s \in Seq(S), s # <<>>
  PROVE  /\ Popped(s) \in Seq(S) /\ Len(s) \in Nat \ {0} /\ Len(Popped(s)) = Len(s) - 1
         /\ \A k \in 1..(Len(s) - 1) : Popped(s)[k] = s[k]
  <1>1. Len(s) \in Nat \ {0}
    BY EmptySeq
  <1> DEFINE n == Len(s) - 1
             p == SubSeq(s, 1, n)
  <1>2. n \in Nat /\ \A k \in 1..n : s[k] \in S
    BY <1>1, ElementOfSeq
  <1> HIDE DEF n
  <1>3. /\ p \in Seq(S)
        /\ Len(p) = IF 1 <= n THEN n - 1 + 1 ELSE 0
        /\ \A k \in 1..(n - 1 + 1) : p[k] = s[1 + k - 1]
    BY <1>2, SubSeqProperties
  <1> HIDE DEF p
  <1>4. p \in Seq(S) /\ Len(p) = n /\ \A k \in 1..n : p[k] = s[k]
    BY <1>2, <1>3
  <1>5. p = Popped(s) /\ n = Len(s) - 1
    BY DEF p, n, Popped
  <1> QED
    BY <1>1, <1>4, <1>5

\* The sync at a place.
At(r) == held[r[1]][r[2]]
Last(t) == <<t, Len(held[t])>>
Next1(t) == <<t, Len(held[t]) + 1>>

LEMMA PlaceEmpty ==
  ASSUME NEW s \in Seq(Sync)
  PROVE  Len(s) \in Nat /\ (Len(s) = 0 <=> s = <<>>) /\ (Len(s) < 1 => s = <<>>)
  BY EmptySeq

LEMMA PlaceFacts ==
  ASSUME TypeOK
  PROVE  /\ \A r \in Places : r \in Threads \X Nat /\ At(r) \in Sync
         /\ \A u \in Threads : \A k \in 1..Len(held[u]) : <<u, k>> \in Places /\ held[u][k] \in Sync
         /\ \A u \in Threads : Next1(u) \notin Places
         /\ \A u \in Threads : held[u] # <<>> => Last(u) \in Places /\ Len(held[u]) > 0 /\ Top(u) \in Sync /\ Top(u) = At(Last(u))
         /\ \A u \in Threads : Len(held[u]) \in Nat /\ (Len(held[u]) = 0 <=> held[u] = <<>>)
  <1>1. \A u \in Threads : held[u] \in Seq(Sync) /\ Len(held[u]) \in Nat /\ (Len(held[u]) = 0 <=> held[u] = <<>>)
    BY EmptySeq DEF TypeOK
  <1>2. \A u \in Threads : \A k \in 1..Len(held[u]) : k \in Nat /\ held[u][k] \in Sync
    BY <1>1, ElementOfSeq
  <1>3. \A u \in Threads : \A k \in 1..Len(held[u]) : <<u, k>> \in Places /\ held[u][k] \in Sync
    BY <1>1, <1>2 DEF Places
  <1>4. \A r \in Places : r \in Threads \X Nat /\ At(r) \in Sync
    BY <1>1, <1>2 DEF Places, At
  <1>5. \A u \in Threads : Next1(u) \notin Places
    <2>1. ASSUME NEW u \in Threads, <<u, Len(held[u]) + 1>> \in Places PROVE FALSE
      <3>1. Len(held[u]) + 1 \in 1..Len(held[u])
        BY <2>1 DEF Places
      <3> QED
        BY <1>1, <3>1
    <2> QED
      BY <2>1 DEF Next1
  <1>6. \A u \in Threads : held[u] # <<>> => Last(u) \in Places /\ Len(held[u]) > 0 /\ Top(u) \in Sync /\ Top(u) = At(Last(u))
    BY <1>1, <1>3 DEF Last, At, Top
  <1> QED
    BY <1>1, <1>3, <1>4, <1>5, <1>6

LEMMA Push ==
  ASSUME TypeOK, NEW t \in Threads, NEW x \in Sync, held' = [held EXCEPT ![t] = Append(@, x)]
  PROVE  /\ held' \in [Threads -> Seq(Sync)]
         /\ \A u \in Threads \ {t} : held'[u] = held[u]
         /\ Len(held'[t]) = Len(held[t]) + 1 /\ held'[t] # <<>>
         /\ \A k \in 1..Len(held[t]) : held'[t][k] = held[t][k]
         /\ Places' = Places \cup {Next1(t)}
         /\ \A r \in Places : At(r)' = At(r)
         /\ Top(t)' = x /\ (\A r : r = Next1(t) => At(r)' = x)
  <1>1. held \in [Threads -> Seq(Sync)] /\ held[t] \in Seq(Sync) /\ Len(held[t]) \in Nat
    BY DEF TypeOK
  <1>2. held'[t] = Append(held[t], x) /\ \A u \in Threads \ {t} : held'[u] = held[u]
    BY <1>1
  <1>3. held'[t] \in Seq(Sync) /\ Len(held'[t]) = Len(held[t]) + 1 /\ \A k \in 1..Len(held[t]) : held'[t][k] = held[t][k]
    BY <1>1, <1>2, AppendFacts
  <1>4. held'[t][Len(held[t]) + 1] = x
    BY <1>1, <1>2, AppendFacts
  <1>5. held' \in [Threads -> Seq(Sync)]
    BY <1>1, <1>2, <1>3
  <1>6. held'[t] # <<>>
    BY <1>1, <1>3
  <1>7. Places' = Places \cup {Next1(t)}
    <2>1. ASSUME NEW r \in Threads \X Nat PROVE r \in Places' <=> r \in Places \cup {Next1(t)}
      <3>1. PICK u \in Threads, k \in Nat : r = <<u, k>>
        BY <2>1
      <3>2. r[1] = u /\ r[2] = k
        BY <3>1
      <3>3. CASE u = t
        BY <1>1, <1>3, <3>1, <3>2, <3>3 DEF Places, Next1
      <3>4. CASE u # t
        BY <1>2, <3>1, <3>2, <3>4 DEF Places, Next1
      <3> QED
        BY <3>3, <3>4
    <2>2. Next1(t) \in Threads \X Nat
      BY <1>1 DEF Next1
    <2> QED
      BY <2>1, <2>2 DEF Places
  <1>8. \A r \in Places : At(r)' = At(r)
    BY <1>2, <1>3 DEF Places, At
  <1>9. Top(t)' = x /\ (\A r : r = Next1(t) => At(r)' = x)
    BY <1>1, <1>3, <1>4 DEF Top, At, Next1
  <1> QED
    BY <1>2, <1>3, <1>5, <1>6, <1>7, <1>8, <1>9

LEMMA Pop ==
  ASSUME TypeOK, NEW t \in Threads, held[t] # <<>>, held' = [held EXCEPT ![t] = Popped(@)]
  PROVE  /\ held' \in [Threads -> Seq(Sync)]
         /\ \A u \in Threads \ {t} : held'[u] = held[u]
         /\ Len(held'[t]) = Len(held[t]) - 1 /\ Len(held[t]) \in Nat \ {0} /\ (held'[t] = <<>> <=> Len(held[t]) = 1)
         /\ \A k \in 1..Len(held'[t]) : held'[t][k] = held[t][k]
         /\ Places' = Places \ {Last(t)}
         /\ \A r \in Places' : At(r)' = At(r)
  <1>1. held \in [Threads -> Seq(Sync)] /\ held[t] \in Seq(Sync)
    BY DEF TypeOK
  <1>2. held'[t] = Popped(held[t]) /\ \A u \in Threads \ {t} : held'[u] = held[u]
    BY <1>1
  <1>3. /\ held'[t] \in Seq(Sync) /\ Len(held'[t]) = Len(held[t]) - 1 /\ Len(held[t]) \in Nat \ {0}
        /\ \A k \in 1..Len(held'[t]) : held'[t][k] = held[t][k]
    BY <1>1, <1>2, PoppedFacts
  <1>4. held' \in [Threads -> Seq(Sync)]
    BY <1>1, <1>2, <1>3
  <1>5. held'[t] = <<>> <=> Len(held[t]) = 1
    <2>1. Len(held'[t]) = 0 <=> held'[t] = <<>>
      BY <1>3, PlaceEmpty
    <2>2. Len(held'[t]) = Len(held[t]) - 1 /\ Len(held[t]) \in Int /\ Len(held'[t]) \in Int
      BY <1>3
    <2>3. \A m, n \in Int : m = n - 1 => (m = 0 <=> n = 1)
      OBVIOUS
    <2> QED
      BY <2>1, <2>2, <2>3, Zenon
  <1>6. Places' = Places \ {Last(t)}
    <2>1. ASSUME NEW r \in Threads \X Nat PROVE r \in Places' <=> r \in Places \ {Last(t)}
      <3>1. PICK u \in Threads, k \in Nat : r = <<u, k>>
        BY <2>1
      <3>2. r[1] = u /\ r[2] = k
        BY <3>1
      <3>3. CASE u = t
        BY <1>3, <3>1, <3>2, <3>3 DEF Places, Last
      <3>4. CASE u # t
        BY <1>2, <3>1, <3>2, <3>4 DEF Places, Last
      <3> QED
        BY <3>3, <3>4
    <2> QED
      BY <2>1 DEF Places
  <1>7. \A r \in Places' : At(r)' = At(r)
    BY <1>2, <1>3 DEF Places, At
  <1> QED
    BY <1>2, <1>3, <1>4, <1>5, <1>6, <1>7

LEMMA Replace ==
  ASSUME TypeOK, NEW t \in Threads, held[t] # <<>>, NEW x \in Sync, SetTop(t, x)
  PROVE  /\ held' \in [Threads -> Seq(Sync)]
         /\ \A u \in Threads \ {t} : held'[u] = held[u]
         /\ Len(held'[t]) = Len(held[t]) /\ held'[t] # <<>>
         /\ \A k \in 1..(Len(held[t]) - 1) : held'[t][k] = held[t][k]
         /\ Places' = Places
         /\ \A r \in Places \ {Last(t)} : At(r)' = At(r)
         /\ Top(t)' = x /\ (\A r : r = Last(t) => At(r)' = x)
  <1>1. held \in [Threads -> Seq(Sync)] /\ held[t] \in Seq(Sync)
    BY DEF TypeOK
  <1>2. held'[t] = Append(Popped(held[t]), x) /\ \A u \in Threads \ {t} : held'[u] = held[u]
    BY <1>1 DEF SetTop
  <1>3. /\ Popped(held[t]) \in Seq(Sync) /\ Len(Popped(held[t])) = Len(held[t]) - 1 /\ Len(held[t]) \in Nat \ {0}
        /\ \A k \in 1..(Len(held[t]) - 1) : Popped(held[t])[k] = held[t][k]
    BY <1>1, PoppedFacts
  <1>4. /\ held'[t] \in Seq(Sync) /\ Len(held'[t]) = Len(held[t])
        /\ \A k \in 1..(Len(held[t]) - 1) : held'[t][k] = held[t][k]
        /\ held'[t][Len(held[t])] = x
    BY <1>2, <1>3, AppendFacts
  <1>5. held' \in [Threads -> Seq(Sync)] /\ held'[t] # <<>>
    <2>1. Len(held'[t]) = 0 <=> held'[t] = <<>>
      BY <1>4, PlaceEmpty
    <2>2. held'[t] # <<>>
      BY <1>3, <1>4, <2>1
    <2>3. held' \in [Threads -> Seq(Sync)]
      BY <1>1, <1>3, <1>4 DEF SetTop
    <2> QED
      BY <2>2, <2>3
  <1>6. Places' = Places
    BY <1>2, <1>4 DEF Places
  <1>7. ASSUME NEW r \in Places \ {Last(t)} PROVE At(r)' = At(r)
    <2>1. CASE r[1] # t
      BY <1>2, <2>1 DEF Places, At
    <2>2. CASE r[1] = t
      <3>1. r = <<t, r[2]>> /\ r[2] \in 1..Len(held[t])
        BY <2>2 DEF Places
      <3>2. r[2] # Len(held[t])
        BY <3>1, <1>7 DEF Last
      <3> QED
        BY <1>3, <1>4, <2>2, <3>1, <3>2 DEF At
    <2> QED
      BY <2>1, <2>2
  <1> QED
    BY <1>2, <1>3, <1>4, <1>5, <1>6, <1>7 DEF Top, At, Last

-----------------------------------------------------------------------------
(* References are counted.                                                 *)

LEMMA CountRefs ==
  ASSUME NEW S, IsFiniteSet(S)
  PROVE  /\ Cardinality(S) \in Nat
         /\ Cardinality(S) = 0 <=> S = {}
         /\ \A x : x \notin S => IsFiniteSet(S \cup {x}) /\ Cardinality(S \cup {x}) = Cardinality(S) + 1
         /\ \A x : x \in S => IsFiniteSet(S \ {x}) /\ Cardinality(S \ {x}) = Cardinality(S) - 1
  <1>1. \A x : x \notin S => IsFiniteSet(S \cup {x}) /\ Cardinality(S \cup {x}) = Cardinality(S) + 1
    BY FS_AddElement
  <1>2. \A x : x \in S => IsFiniteSet(S \ {x}) /\ Cardinality(S \ {x}) = Cardinality(S) - 1
    BY FS_RemoveElement
  <1> QED
    BY <1>1, <1>2, FS_CardinalityType, FS_EmptySet

LEMMA RefsAt == ASSUME NEW h PROVE Refs(h) = {r \in Places : At(r).entry = h}
  BY DEF Refs, At

LEMMA PushRefs ==
  ASSUME TypeOK, NEW t \in Threads, NEW x \in Sync, held' = [held EXCEPT ![t] = Append(@, x)], NEW h \in Handles
  PROVE  /\ Next1(t) \notin Refs(h)
         /\ Refs(h)' = IF x.entry = h THEN Refs(h) \cup {Next1(t)} ELSE Refs(h)
  <1>1. /\ Places' = Places \cup {Next1(t)} /\ (\A r \in Places : At(r)' = At(r))
        /\ \A r : r = Next1(t) => At(r)' = x
    BY Push, Zenon
  <1>2. Next1(t) \notin Places
    BY PlaceFacts, Zenon
  <1>3. Next1(t) \notin Refs(h)
    BY <1>2 DEF Refs
  <1>4. Refs(h)' = {r \in Places' : At(r)'.entry = h}
    BY DEF Refs, At
  <1>5. \A r : r \in Refs(h)' <=> r \in (IF x.entry = h THEN Refs(h) \cup {Next1(t)} ELSE Refs(h))
    <2>1. ASSUME NEW r PROVE r \in Refs(h)' <=> r \in Places' /\ At(r)'.entry = h
      BY <1>4
    <2>2. ASSUME NEW r PROVE r \in Refs(h) <=> r \in Places /\ At(r).entry = h
      BY RefsAt
    <2> QED
      BY <1>1, <1>2, <2>1, <2>2
  <1> QED
    BY <1>3, <1>5

LEMMA PopRefs ==
  ASSUME TypeOK, NEW t \in Threads, held[t] # <<>>, held' = [held EXCEPT ![t] = Popped(@)], NEW h \in Handles
  PROVE  /\ Last(t) \in Refs(h) <=> Top(t).entry = h
         /\ Refs(h)' = IF Top(t).entry = h THEN Refs(h) \ {Last(t)} ELSE Refs(h)
  <1>1. Places' = Places \ {Last(t)} /\ (\A r \in Places' : At(r)' = At(r))
    BY Pop, Zenon
  <1>2. Last(t) \in Places /\ Top(t) = At(Last(t))
    BY PlaceFacts, Zenon
  <1>3. Last(t) \in Refs(h) <=> Top(t).entry = h
    BY <1>2 DEF Refs, At
  <1>4. Refs(h)' = {r \in Places' : At(r)'.entry = h}
    BY DEF Refs, At
  <1>5. \A r : r \in Refs(h)' <=> r \in (IF Top(t).entry = h THEN Refs(h) \ {Last(t)} ELSE Refs(h))
    <2>1. ASSUME NEW r PROVE r \in Refs(h)' <=> r \in Places' /\ At(r)'.entry = h
      BY <1>4
    <2>2. ASSUME NEW r PROVE r \in Refs(h) <=> r \in Places /\ At(r).entry = h
      BY RefsAt
    <2> QED
      BY <1>1, <1>2, <2>1, <2>2
  <1> QED
    BY <1>3, <1>5

LEMMA ReplaceRefs ==
  ASSUME TypeOK, NEW t \in Threads, held[t] # <<>>, NEW x \in Sync, SetTop(t, x), NEW h \in Handles
  PROVE  /\ x.entry = Top(t).entry => Refs(h)' = Refs(h)
         /\ Top(t).entry = None => /\ Last(t) \notin Refs(h)
                                   /\ Refs(h)' = IF x.entry = h THEN Refs(h) \cup {Last(t)} ELSE Refs(h)
  <1>1. Places' = Places /\ (\A r \in Places \ {Last(t)} : At(r)' = At(r)) /\ \A r : r = Last(t) => At(r)' = x
    BY Replace, Zenon
  <1>2. Last(t) \in Places /\ Top(t) = At(Last(t)) /\ h # None
    BY PlaceFacts, CacheAssumption, Zenon
  <1>3. Top(t).entry = None => Last(t) \notin Refs(h)
    BY <1>2 DEF Refs, At
  <1>4. Refs(h)' = {r \in Places' : At(r)'.entry = h}
    BY DEF Refs, At
  <1>5. ASSUME NEW r PROVE r \in Refs(h)' <=> r \in Places' /\ At(r)'.entry = h
    BY <1>4
  <1>6. ASSUME NEW r PROVE r \in Refs(h) <=> r \in Places /\ At(r).entry = h
    BY RefsAt
  <1>7. ASSUME x.entry = Top(t).entry PROVE \A r : r \in Refs(h)' <=> r \in Refs(h)
    BY <1>1, <1>2, <1>5, <1>6, <1>7
  <1>8. ASSUME Top(t).entry = None
        PROVE \A r : r \in Refs(h)' <=> r \in (IF x.entry = h THEN Refs(h) \cup {Last(t)} ELSE Refs(h))
    BY <1>1, <1>2, <1>5, <1>6, <1>8
  <1> QED
    BY <1>3, <1>7, <1>8

-----------------------------------------------------------------------------
(* Steps.                                                                  *)

\* The steps that leave the cache, the fds and the held syncs alone.
Quiet(t) ==
    \/ BeginUse(t) \/ BeginClose(t) \/ Enter(t) \/ GetNothing(t) \/ CheckClosed(t) \/ AskInVain(t)
    \/ Cache(t) \/ DontCache(t) \/ Use(t) \/ Save(t)
Loud(t) ==
    \/ Get(t) \/ Check(t) \/ Ask(t) \/ Fill(t) \/ Publish(t) \/ Dec(t) \/ FdClose(t) \/ Mark(t) \/ Server(t)

LEMMA NextSteps ==
  Next <=> (\E h \in Handles : Open(h)) \/ \E t \in Threads : Quiet(t) \/ Loud(t)
  BY DEF Next, Step, Quiet, Loud

LEMMA QuietSteps ==
  ASSUME TypeOK, NEW t \in Threads, Quiet(t)
  PROVE  /\ UNCHANGED <<table, fdThing, refcount, fd, closed, held>>
         /\ pc[t] # "fd_close" /\ pc'[t] # "fd_close"
  <1> USE DEF TypeOK, cache, locals, Goto
  <1>1. CASE BeginUse(t) \/ BeginClose(t) \/ Enter(t)
    BY <1>1 DEF BeginUse, BeginClose, Enter
  <1>2. CASE GetNothing(t) \/ AskInVain(t)
    BY <1>2 DEF GetNothing, AskInVain, Missed
  <1>3. CASE CheckClosed(t) \/ Cache(t) \/ Use(t) \/ Save(t)
    BY <1>3 DEF CheckClosed, Cache, Use, Save
  <1>4. CASE DontCache(t)
    BY <1>4 DEF DontCache, Found
  <1> QED
    BY <1>1, <1>2, <1>3, <1>4 DEF Quiet

\* A step of one thread leaves the locals of the others alone.
OthersStay(t) ==
    \A u \in Threads \ {t} : /\ pc'[u] = pc[u] /\ fn'[u] = fn[u] /\ hs'[u] = hs[u] /\ held'[u] = held[u]
                             /\ finding'[u] = finding[u] /\ saved'[u] = saved[u]

LEMMA StepOthers ==
  ASSUME TypeOK, NEW t \in Threads, Quiet(t) \/ Loud(t)
  PROVE  OthersStay(t)
  <1> USE DEF TypeOK, locals, Goto, OthersStay
  <1>1. CASE BeginUse(t) \/ BeginClose(t) \/ Enter(t)
    BY <1>1 DEF BeginUse, BeginClose, Enter
  <1>2. CASE GetNothing(t) \/ AskInVain(t)
    BY <1>2 DEF GetNothing, AskInVain, Missed
  <1>3. CASE CheckClosed(t) \/ Cache(t) \/ Use(t) \/ Save(t)
    BY <1>3 DEF CheckClosed, Cache, Use, Save
  <1>4. CASE DontCache(t)
    BY <1>4 DEF DontCache, Found
  <1>5. CASE Get(t) \/ Ask(t)
    BY <1>5 DEF Get, Ask
  <1>6. CASE Check(t) \/ Publish(t)
    BY <1>6 DEF Check, Publish, Found, SetTop
  <1>7. CASE Fill(t) \/ Mark(t) \/ Server(t)
    BY <1>7 DEF Fill, Mark, Server
  <1>8. CASE Dec(t)
    BY <1>8 DEF Dec, Released, Missed
  <1>9. CASE FdClose(t)
    BY <1>9 DEF FdClose, Released, Missed
  <1> QED
    BY <1>1, <1>2, <1>3, <1>4, <1>5, <1>6, <1>7, <1>8, <1>9 DEF Quiet, Loud

\* The handle that a lookup is about, and the one whose sync it took last.
LEMMA TopHandleOK ==
  ASSUME TypeOK, NEW t \in Threads
  PROVE  /\ Room(t) => Handle(t) \in Handles /\ Len(hs[t]) \in Nat
         /\ held[t] # <<>> /\ Len(held[t]) <= Len(hs[t]) => TopHandle(t) \in Handles
         /\ Len(hs[t]) > 0 => hs[t][1] \in Handles
  <1>1. hs[t] \in Seq(Handles) /\ Len(hs[t]) \in Nat /\ Len(held[t]) \in Nat /\ (Len(held[t]) = 0 <=> held[t] = <<>>)
    BY PlaceFacts DEF TypeOK
  <1>2. \A k \in 1..Len(hs[t]) : hs[t][k] \in Handles
    BY <1>1, ElementOfSeq
  <1> QED
    BY <1>1, <1>2 DEF Room, Handle, TopHandle

\* What the server sends.
LEMMA AskSync ==
  ASSUME TypeOK, NEW t \in Threads, LocalsOK(t), Ask(t)
  PROVE  \E f \in Fds \cup {BadFd} :
            /\ f \in Fds => fdThing[f] = None
            /\ fdThing' = [g \in Fds |-> IF g = f THEN table[Handle(t)] ELSE fdThing[g]]
            /\ Handle(t) \in Handles /\ table[Handle(t)] \in Things
            /\ [entry |-> None, fd |-> f, thing |-> table[Handle(t)]] \in Sync
            /\ held' = [held EXCEPT ![t] = Append(@, [entry |-> None, fd |-> f, thing |-> table[Handle(t)]])]
            /\ (\E g \in Fds : fdThing[g] = None) => f \in Fds
  <1>1. Handle(t) \in Handles
    BY TopHandleOK DEF LocalsOK, Ask
  <1>2. table[Handle(t)] \in Things
    BY <1>1 DEF TypeOK, Ask
  <1>3. PICK f \in IF {g \in Fds : fdThing[g] = None} = {} THEN {BadFd} ELSE {g \in Fds : fdThing[g] = None} :
              /\ fdThing' = [g \in Fds |-> IF g = f THEN table[Handle(t)] ELSE fdThing[g]]
              /\ held' = [held EXCEPT ![t] = Append(@, [entry |-> None, fd |-> f, thing |-> table[Handle(t)]])]
    BY DEF Ask
  <1>4. BadFd \notin Fds
    BY CacheAssumption DEF BadFd, Fds
  <1>5. /\ f \in Fds \cup {BadFd} /\ (f \in Fds => fdThing[f] = None)
        /\ (\E g \in Fds : fdThing[g] = None) => f \in Fds
    BY <1>3, <1>4
  <1>6. [entry |-> None, fd |-> f, thing |-> table[Handle(t)]] \in Sync
    BY <1>2, <1>5 DEF Sync
  <1> QED
    BY <1>1, <1>2, <1>3, <1>5, <1>6

-----------------------------------------------------------------------------
(* The counts.                                                             *)

LEMMA StepRefs ==
  ASSUME TypeOK, CallsInv, RefsInv, ClosesInv, Next
  PROVE  RefsInv'
  <1> SUFFICES ASSUME NEW h \in Handles PROVE RefsOK(h)'
    BY DEF RefsInv
  <1>0. /\ RefsOK(h) /\ IsFiniteSet(Refs(h)) /\ refcount[h] \in Nat /\ refcount \in [Handles -> Nat]
        /\ closed \in [Handles -> BOOLEAN] /\ h # None /\ Cardinality(Refs(h)) \in Nat
        /\ (Cardinality(Refs(h)) = 0 <=> Refs(h) = {})
    BY CountRefs, CacheAssumption DEF RefsInv, RefsOK, TypeOK
  <1>1. ASSUME UNCHANGED held, Live(h)' <=> Live(h), refcount'[h] = refcount[h] PROVE RefsOK(h)'
    <2>1. Refs(h)' = Refs(h)
      BY <1>1 DEF Refs, Places
    <2> QED
      BY <1>0, <1>1, <2>1 DEF RefsOK
  <1>2. ASSUME NEW g \in Handles, Open(g) PROVE RefsOK(h)'
    BY <1>1, <1>2 DEF Open, locals, cache, Live
  <1>3. ASSUME NEW t \in Threads, Quiet(t) PROVE RefsOK(h)'
    BY <1>1, <1>3, QuietSteps DEF Live
  <1>4. ASSUME NEW t \in Threads, Loud(t) PROVE RefsOK(h)'
    <2>0. LocalsOK(t) /\ MutexOK(t) /\ FillOK(t) /\ CloseOK(t)
      BY DEF CallsInv, ClosesInv
    <2>1. CASE FdClose(t) \/ Server(t)
      BY <1>1, <2>1 DEF FdClose, Server, locals, cache, Live
    <2>2. CASE Get(t)
      <3> DEFINE x == [entry |-> Handle(t), fd |-> None, thing |-> None]
      <3>1. Handle(t) \in Handles
        BY <2>0, <2>2, TopHandleOK DEF LocalsOK, Get
      <3>2. x \in Sync /\ x.entry = Handle(t)
        BY <3>1 DEF Sync
      <3>3. held' = [held EXCEPT ![t] = Append(@, x)]
        BY <2>2 DEF Get
      <3> HIDE DEF x
      <3>4. Next1(t) \notin Refs(h) /\ Refs(h)' = IF x.entry = h THEN Refs(h) \cup {Next1(t)} ELSE Refs(h)
        BY <3>2, <3>3, PushRefs
      <3>5. CASE h = Handle(t)
        <4>1. refcount'[h] = refcount[h] + 1 /\ refcount[h] # 0 /\ closed' = closed
          BY <1>0, <2>2, <3>5 DEF Get
        <4>2. Live(h)' <=> Live(h)
          BY <1>0, <4>1 DEF Live
        <4>3. IsFiniteSet(Refs(h)') /\ Cardinality(Refs(h)') = Cardinality(Refs(h)) + 1
          BY <1>0, <3>2, <3>4, <3>5, CountRefs
        <4> QED
          BY <1>0, <4>1, <4>2, <4>3 DEF RefsOK
      <3>6. CASE h # Handle(t)
        <4>1. refcount'[h] = refcount[h] /\ closed' = closed
          BY <1>0, <2>2, <3>6 DEF Get
        <4>2. Live(h)' <=> Live(h)
          BY <4>1 DEF Live
        <4>3. Refs(h)' = Refs(h)
          BY <3>2, <3>4, <3>6
        <4> QED
          BY <1>0, <4>1, <4>2, <4>3 DEF RefsOK
      <3> QED
        BY <3>5, <3>6
    <2>3. CASE Check(t)
      <3> DEFINE x == [Top(t) EXCEPT !.thing = table[Top(t).entry]]
      <3>1. held[t] # <<>> /\ Top(t) \in Sync
        BY <2>0, <2>3, PlaceFacts DEF LocalsOK, Check, Taken
      <3>2. x \in Sync /\ x.entry = Top(t).entry
        BY <2>0, <2>3, <3>1, TopHandleOK DEF LocalsOK, Check, Sync, TypeOK
      <3>3. SetTop(t, x) /\ UNCHANGED <<refcount, closed>>
        BY <2>3 DEF Check, cache
      <3> HIDE DEF x
      <3>4. Refs(h)' = Refs(h)
        BY <3>1, <3>2, <3>3, ReplaceRefs
      <3>5. Live(h)' <=> Live(h)
        BY <3>3 DEF Live
      <3> QED
        BY <1>0, <3>3, <3>4, <3>5 DEF RefsOK
    <2>4. CASE Ask(t)
      <3>1. PICK x \in Sync : x.entry = None /\ held' = [held EXCEPT ![t] = Append(@, x)]
        <4>1. PICK f \in Fds \cup {BadFd} :
                /\ [entry |-> None, fd |-> f, thing |-> table[Handle(t)]] \in Sync
                /\ held' = [held EXCEPT ![t] = Append(@, [entry |-> None, fd |-> f, thing |-> table[Handle(t)]])]
          BY <2>0, <2>4, AskSync
        <4> QED
          BY <4>1
      <3>2. Refs(h)' = Refs(h)
        BY <1>0, <3>1, PushRefs
      <3>3. UNCHANGED <<refcount, closed>>
        BY <2>4 DEF Ask, cache
      <3>4. Live(h)' <=> Live(h)
        BY <3>3 DEF Live
      <3> QED
        BY <1>0, <3>2, <3>3, <3>4 DEF RefsOK
    <2>5. CASE Fill(t)
      <3>1. UNCHANGED held /\ refcount' = refcount
        BY <2>5 DEF Fill, locals
      <3>2. Live(h)' <=> Live(h)
        <4>1. CASE h = TopHandle(t)
          BY <2>0, <2>5, <4>1 DEF FillOK, Fill, Live
        <4>2. CASE h # TopHandle(t)
          BY <1>0, <2>5, <4>2 DEF Fill, Live
        <4> QED
          BY <4>1, <4>2
      <3> QED
        BY <1>1, <3>1, <3>2
    <2>6. CASE Publish(t)
      <3> DEFINE x == [entry |-> TopHandle(t), fd |-> None, thing |-> Top(t).thing]
      <3>1. held[t] # <<>> /\ Top(t) \in Sync /\ Top(t).entry = None /\ refcount[TopHandle(t)] = 0 /\ ~closed[TopHandle(t)]
        BY <2>0, <2>6, PlaceFacts DEF LocalsOK, FillOK, Publish, Taken, Filling
      <3>2. x \in Sync /\ x.entry = TopHandle(t) /\ TopHandle(t) \in Handles
        BY <2>0, <2>6, <3>1, TopHandleOK DEF LocalsOK, Publish, Sync, Filling
      <3>3. SetTop(t, x) /\ closed' = closed /\ refcount' = [refcount EXCEPT ![TopHandle(t)] = 2]
        BY <2>6 DEF Publish
      <3> HIDE DEF x
      <3>4. Last(t) \notin Refs(h) /\ Refs(h)' = IF x.entry = h THEN Refs(h) \cup {Last(t)} ELSE Refs(h)
        BY <3>1, <3>2, <3>3, ReplaceRefs
      <3>5. CASE h = TopHandle(t)
        <4>1. refcount'[h] = 2 /\ Live(h)' /\ ~Live(h) /\ refcount[h] = 0
          BY <1>0, <3>1, <3>3, <3>5 DEF Live
        <4>2. IsFiniteSet(Refs(h)') /\ Cardinality(Refs(h)') = Cardinality(Refs(h)) + 1
          BY <1>0, <3>2, <3>4, <3>5, CountRefs
        <4> QED
          BY <1>0, <4>1, <4>2 DEF RefsOK
      <3>6. CASE h # TopHandle(t)
        <4>1. refcount'[h] = refcount[h] /\ Refs(h)' = Refs(h)
          BY <1>0, <3>2, <3>3, <3>4, <3>6
        <4>2. Live(h)' <=> Live(h)
          BY <3>3, <4>1 DEF Live
        <4> QED
          BY <1>0, <4>1, <4>2 DEF RefsOK
      <3> QED
        BY <3>5, <3>6
    <2>7. CASE Dec(t)
      <3>1. held[t] # <<>> /\ held' = [held EXCEPT ![t] = Popped(@)] /\ closed' = closed
        BY <2>0, <2>7 DEF LocalsOK, Dec, Taken
      <3>2. /\ Last(t) \in Refs(h) <=> Top(t).entry = h
            /\ Refs(h)' = IF Top(t).entry = h THEN Refs(h) \ {Last(t)} ELSE Refs(h)
        BY <3>1, PopRefs
      <3>3. CASE Top(t).entry = h
        <4>1. refcount'[h] = refcount[h] - 1
          BY <1>0, <2>7, <3>3 DEF Dec
        <4>2. IsFiniteSet(Refs(h)') /\ Cardinality(Refs(h)') = Cardinality(Refs(h)) - 1 /\ Cardinality(Refs(h)) # 0
          BY <1>0, <3>2, <3>3, CountRefs
        <4>3. CASE Live(h)
          <5>1. Live(h)'
            BY <1>0, <3>1, <4>1, <4>2, <4>3 DEF Live, RefsOK
          <5> QED
            BY <1>0, <4>1, <4>2, <4>3, <5>1 DEF RefsOK
        <4>4. CASE ~Live(h)
          <5>1. ~Live(h)'
            BY <1>0, <3>1, <4>1, <4>2, <4>4 DEF Live, RefsOK
          <5> QED
            BY <1>0, <4>1, <4>2, <4>4, <5>1 DEF RefsOK
        <4> QED
          BY <4>3, <4>4
      <3>4. CASE Top(t).entry # h
        <4>1. refcount'[h] = refcount[h]
          BY <1>0, <2>7, <3>4 DEF Dec
        <4>2. Live(h)' <=> Live(h)
          BY <3>1, <4>1 DEF Live
        <4> QED
          BY <1>0, <3>2, <3>4, <4>1, <4>2 DEF RefsOK
      <3> QED
        BY <3>3, <3>4
    <2>8. CASE Mark(t)
      <3>1. /\ held[t] # <<>> /\ Top(t) \in Sync /\ Top(t).entry = TopHandle(t) /\ ~closed[TopHandle(t)]
            /\ Last(t) \in Places /\ At(Last(t)) = Top(t)
        BY <2>0, <2>8, PlaceFacts DEF LocalsOK, CloseOK, Mark, Taken
      <3>2. held' = [held EXCEPT ![t] = Append(@, Top(t))] /\ refcount' = refcount /\ closed' = [closed EXCEPT ![Top(t).entry] = TRUE]
        BY <2>8 DEF Mark
      <3>3. Next1(t) \notin Refs(h) /\ Refs(h)' = IF Top(t).entry = h THEN Refs(h) \cup {Next1(t)} ELSE Refs(h)
        BY <3>1, <3>2, PushRefs
      <3>4. CASE Top(t).entry = h
        <4>1. Last(t) \in Refs(h)
          BY <3>1, <3>4, RefsAt
        <4>2. Live(h) /\ ~Live(h)'
          BY <1>0, <3>1, <3>2, <3>4, <4>1 DEF Live, RefsOK
        <4>3. IsFiniteSet(Refs(h)') /\ Cardinality(Refs(h)') = Cardinality(Refs(h)) + 1
          BY <1>0, <3>3, <3>4, CountRefs
        <4> QED
          BY <1>0, <3>2, <4>2, <4>3 DEF RefsOK
      <3>5. CASE Top(t).entry # h
        <4>1. Live(h)' <=> Live(h)
          BY <1>0, <3>2, <3>5 DEF Live
        <4> QED
          BY <1>0, <3>2, <3>3, <3>5, <4>1 DEF RefsOK
      <3> QED
        BY <3>4, <3>5
    <2> QED
      BY <1>4, <2>1, <2>2, <2>3, <2>4, <2>5, <2>6, <2>7, <2>8 DEF Loud
  <1> QED
    BY <1>2, <1>3, <1>4, NextSteps

-----------------------------------------------------------------------------
(* Types.                                                                  *)

\* Who holds a sync of an entry keeps its count above zero.
LEMMA HeldCounted ==
  ASSUME TypeOK, RefsInv, NEW u \in Threads, NEW k \in 1..Len(held[u]), held[u][k].entry \in Handles
  PROVE  refcount[held[u][k].entry] # 0
  <1> DEFINE h == held[u][k].entry
  <1>1. <<u, k>> \in Refs(h)
    <2>1. <<u, k>> \in Places /\ At(<<u, k>>).entry = h
      BY PlaceFacts DEF At
    <2> QED
      BY <2>1, RefsAt
  <1>2. RefsOK(h)
    BY DEF RefsInv
  <1> HIDE DEF h
  <1>3. Cardinality(Refs(h)) \in Nat /\ Cardinality(Refs(h)) # 0
    BY <1>1, <1>2, CountRefs DEF RefsOK
  <1>4. refcount[h] # 0
    BY <1>2, <1>3 DEF RefsOK
  <1> QED
    BY <1>4 DEF h

LEMMA TopCounted ==
  ASSUME TypeOK, RefsInv, NEW u \in Threads, held[u] # <<>>, Top(u).entry # None
  PROVE  Top(u).entry \in Handles /\ refcount[Top(u).entry] # 0
  <1>1. Len(held[u]) \in 1..Len(held[u]) /\ Top(u) = held[u][Len(held[u])] /\ Top(u) \in Sync
    BY PlaceFacts DEF Top
  <1>2. Top(u).entry \in Handles
    BY <1>1 DEF Sync
  <1> QED
    BY <1>1, <1>2, HeldCounted

LEMMA StepTypes ==
  ASSUME TypeOK, CallsInv, RefsInv, ClosesInv, Next
  PROVE  TypeOK'
  <1>1. ASSUME NEW g \in Handles, Open(g) PROVE TypeOK'
    <2>1. table' \in [Handles -> Things \cup {None}]
      BY <1>1 DEF Open, TypeOK
    <2> QED
      BY <1>1, <2>1 DEF Open, TypeOK, locals, cache
  <1>2. ASSUME NEW t \in Threads, Quiet(t) \/ Loud(t) PROVE TypeOK'
    <2>0. LocalsOK(t) /\ MutexOK(t) /\ FillOK(t) /\ CloseOK(t)
      BY DEF CallsInv, ClosesInv
    <2>1. CASE BeginUse(t)
      <3>1. hs' \in [Threads -> Seq(Handles)]
        BY <2>1, CacheAssumption DEF BeginUse, TypeOK
      <3> QED
        BY <2>1, <3>1 DEF BeginUse, TypeOK, cache, Goto, PCs
    <2>2. CASE BeginClose(t)
      <3>1. PICK h \in Closes[t] : hs' = [hs EXCEPT ![t] = <<h>>]
        BY <2>2 DEF BeginClose
      <3>2. h \in Handles
        BY <3>1, CacheAssumption
      <3>3. hs' \in [Threads -> Seq(Handles)]
        BY <3>1, <3>2 DEF TypeOK
      <3> QED
        BY <2>2, <3>3 DEF BeginClose, TypeOK, cache, Goto, PCs
    <2>3. CASE Enter(t)
      BY <2>3 DEF Enter, TypeOK, cache, locals, Goto, PCs
    <2>4. CASE GetNothing(t)
      BY <2>4 DEF GetNothing, Missed, TypeOK, cache, locals, Goto, PCs
    <2>5. CASE CheckClosed(t)
      BY <2>5 DEF CheckClosed, TypeOK, cache, locals, Goto, PCs
    <2>6. CASE AskInVain(t)
      BY <2>6 DEF AskInVain, LeaveMutex, TypeOK, cache, locals, Goto, PCs
    <2>7. CASE Cache(t) \/ Use(t)
      BY <2>7 DEF Cache, Use, TypeOK, cache, locals, Goto, PCs
    <2>8. CASE DontCache(t)
      BY <2>8 DEF DontCache, Found, LeaveMutex, TypeOK, cache, locals, Goto, PCs
    <2>9. CASE Save(t)
      <3>1. SyncFd(Top(t)) \in Fds \cup {BadFd}
        <4>1. Top(t) \in Sync /\ held[t] # <<>> /\ Len(held[t]) \in 1..Len(held[t]) /\ Top(t) = held[t][Len(held[t])]
          BY <2>0, <2>9, PlaceFacts DEF LocalsOK, Save, Taken, Top
        <4>2. CASE Top(t).entry = None
          BY <2>0, <4>1, <4>2 DEF LocalsOK, Sync, SyncFd
        <4>3. CASE Top(t).entry # None
          BY <4>1, <4>3 DEF Sync, SyncFd, TypeOK
        <4> QED
          BY <4>2, <4>3
      <3> QED
        BY <2>9, <3>1 DEF Save, TypeOK, cache, locals, Goto, PCs
    <2>10. CASE Get(t)
      <3> DEFINE x == [entry |-> Handle(t), fd |-> None, thing |-> None]
      <3>1. Handle(t) \in Handles /\ x \in Sync
        BY <2>0, <2>10, TopHandleOK DEF LocalsOK, Get, Sync
      <3>2. held' = [held EXCEPT ![t] = Append(@, x)]
        BY <2>10 DEF Get
      <3> HIDE DEF x
      <3>3. held' \in [Threads -> Seq(Sync)]
        BY <3>1, <3>2, Push
      <3>4. refcount' \in [Handles -> Nat]
        <4>1. refcount \in [Handles -> Nat] /\ refcount' = [refcount EXCEPT ![Handle(t)] = refcount[Handle(t)] + 1]
          BY <2>10 DEF Get, TypeOK
        <4>2. refcount[Handle(t)] + 1 \in Nat
          BY <3>1, <4>1
        <4> QED
          BY <4>1, <4>2
      <3> QED
        BY <2>10, <3>3, <3>4 DEF Get, TypeOK, cache, locals, Goto, PCs
    <2>11. CASE Check(t)
      <3> DEFINE x == [Top(t) EXCEPT !.thing = table[Top(t).entry]]
      <3>1. held[t] # <<>> /\ Top(t) \in Sync
        BY <2>0, <2>11, PlaceFacts DEF LocalsOK, Check, Taken
      <3>2. x \in Sync
        BY <2>0, <2>11, <3>1, TopHandleOK DEF LocalsOK, Check, Sync, TypeOK
      <3>3. SetTop(t, x)
        BY <2>11 DEF Check
      <3> HIDE DEF x
      <3>4. held' \in [Threads -> Seq(Sync)]
        BY <3>1, <3>2, <3>3, Replace
      <3> QED
        BY <2>11, <3>4 DEF Check, Found, LeaveMutex, TypeOK, cache, locals, Goto, PCs
    <2>12. CASE Ask(t)
      <3>1. PICK f \in Fds \cup {BadFd} :
              /\ fdThing' = [g \in Fds |-> IF g = f THEN table[Handle(t)] ELSE fdThing[g]]
              /\ table[Handle(t)] \in Things
              /\ [entry |-> None, fd |-> f, thing |-> table[Handle(t)]] \in Sync
              /\ held' = [held EXCEPT ![t] = Append(@, [entry |-> None, fd |-> f, thing |-> table[Handle(t)]])]
        BY <2>0, <2>12, AskSync
      <3>2. held' \in [Threads -> Seq(Sync)]
        BY <3>1, Push
      <3>3. fdThing' \in [Fds -> Things \cup {None}]
        BY <3>1 DEF TypeOK
      <3> QED
        BY <2>12, <3>2, <3>3 DEF Ask, TypeOK, cache, locals, Goto, PCs
    <2>13. CASE Fill(t)
      <3>1. Top(t).fd \in Fds \cup {BadFd}
        <4>1. Top(t) \in Sync /\ held[t] # <<>> /\ Len(held[t]) \in 1..Len(held[t]) /\ Top(t) = held[t][Len(held[t])]
          BY <2>0, <2>13, PlaceFacts DEF LocalsOK, Fill, Taken, Top
        <4> QED
          BY <2>0, <2>13, <4>1 DEF LocalsOK, Fill, Filling, Sync
      <3> QED
        BY <2>13, <3>1 DEF Fill, TypeOK, cache, locals, Goto, PCs
    <2>14. CASE Publish(t)
      <3> DEFINE x == [entry |-> TopHandle(t), fd |-> None, thing |-> Top(t).thing]
      <3>1. held[t] # <<>> /\ Top(t) \in Sync
        BY <2>0, <2>14, PlaceFacts DEF LocalsOK, Publish, Taken
      <3>2. x \in Sync
        BY <2>0, <2>14, <3>1, TopHandleOK DEF LocalsOK, Publish, Sync, Filling
      <3>3. SetTop(t, x)
        BY <2>14 DEF Publish
      <3> HIDE DEF x
      <3>4. held' \in [Threads -> Seq(Sync)]
        BY <3>1, <3>2, <3>3, Replace
      <3> QED
        BY <2>14, <3>4 DEF Publish, Found, LeaveMutex, TypeOK, cache, locals, Goto, PCs
    <2>15. CASE Dec(t)
      <3>1. held[t] # <<>> /\ held' = [held EXCEPT ![t] = Popped(@)]
        BY <2>0, <2>15 DEF LocalsOK, Dec, Taken
      <3>2. held' \in [Threads -> Seq(Sync)]
        BY <3>1, Pop
      <3>3. refcount' \in [Handles -> Nat]
        <4>1. CASE Top(t).entry = None
          BY <2>15, <4>1 DEF Dec, TypeOK
        <4>2. CASE Top(t).entry # None
          <5>1. Top(t).entry \in Handles /\ refcount[Top(t).entry] # 0
            BY <3>1, <4>2, TopCounted
          <5>2. refcount \in [Handles -> Nat] /\ refcount' = [refcount EXCEPT ![Top(t).entry] = refcount[Top(t).entry] - 1]
            BY <2>15, <4>2 DEF Dec, TypeOK
          <5>3. refcount[Top(t).entry] - 1 \in Nat
            BY <5>1, <5>2
          <5> QED
            BY <5>2, <5>3
        <4> QED
          BY <4>1, <4>2
      <3>4. pc' \in [Threads -> PCs] /\ finding' \in [Threads -> BOOLEAN] /\ saved' \in [Threads -> Fds \cup {BadFd}]
        BY <2>15 DEF Dec, Released, Missed, Goto, TypeOK, PCs
      <3> QED
        BY <2>15, <3>2, <3>3, <3>4 DEF Dec, TypeOK, cache, locals
    <2>16. CASE FdClose(t)
      <3>1. pc' \in [Threads -> PCs] /\ finding' \in [Threads -> BOOLEAN] /\ saved' \in [Threads -> Fds \cup {BadFd}]
        BY <2>16 DEF FdClose, Released, Missed, Goto, TypeOK, PCs
      <3> QED
        BY <2>16, <3>1 DEF FdClose, TypeOK, cache, locals
    <2>17. CASE Mark(t)
      <3>1. held[t] # <<>> /\ Top(t) \in Sync /\ held' = [held EXCEPT ![t] = Append(@, Top(t))]
        BY <2>0, <2>17, PlaceFacts DEF LocalsOK, Mark, Taken
      <3>2. held' \in [Threads -> Seq(Sync)]
        BY <3>1, Push
      <3> QED
        BY <2>17, <3>2 DEF Mark, TypeOK, cache, locals, Goto, PCs
    <2>18. CASE Server(t)
      <3>1. table' \in [Handles -> Things \cup {None}]
        BY <2>18 DEF Server, TypeOK
      <3> QED
        BY <2>18, <3>1 DEF Server, LeaveMutex, TypeOK, cache, locals, Goto, PCs
    <2> QED
      BY <1>2, <2>1, <2>2, <2>3, <2>4, <2>5, <2>6, <2>7, <2>8, <2>9, <2>10, <2>11, <2>12, <2>13, <2>14, <2>15, <2>16,
         <2>17, <2>18 DEF Quiet, Loud
  <1> QED
    BY <1>1, <1>2, NextSteps

-----------------------------------------------------------------------------
(* Where a call is.                                                        *)

LEMMA StepMutex ==
  ASSUME TypeOK, NEW t \in Threads, LocalsOK(t), MutexOK(t), Quiet(t) \/ Loud(t)
  PROVE  MutexOK(t)' /\ \A u \in Threads \ {t} : mutex' = u <=> mutex = u
  <1> USE CacheAssumption DEF TypeOK, Goto, locals, Filling, Releasing, MutexOK
  <1>1. CASE BeginUse(t)
    BY <1>1 DEF LocalsOK, BeginUse
  <1>2. CASE BeginClose(t)
    BY <1>2 DEF LocalsOK, BeginClose
  <1>3. CASE Enter(t)
    BY <1>3 DEF LocalsOK, Enter
  <1>4. CASE GetNothing(t)
    BY <1>4 DEF LocalsOK, GetNothing, Missed
  <1>5. CASE CheckClosed(t)
    BY <1>5 DEF LocalsOK, CheckClosed
  <1>6. CASE AskInVain(t)
    BY <1>6 DEF LocalsOK, AskInVain, LeaveMutex
  <1>7. CASE Cache(t)
    BY <1>7 DEF LocalsOK, Cache
  <1>8. CASE DontCache(t)
    BY <1>8 DEF LocalsOK, DontCache, Found, LeaveMutex
  <1>9. CASE Use(t)
    BY <1>9 DEF LocalsOK, Use
  <1>10. CASE Save(t)
    BY <1>10 DEF LocalsOK, Save
  <1>11. CASE Get(t)
    BY <1>11 DEF LocalsOK, Get
  <1>12. CASE Check(t)
    BY <1>12 DEF LocalsOK, Check, Found, LeaveMutex
  <1>13. CASE Ask(t)
    BY <1>13 DEF LocalsOK, Ask
  <1>14. CASE Fill(t)
    BY <1>14 DEF LocalsOK, Fill
  <1>15. CASE Publish(t)
    BY <1>15 DEF LocalsOK, Publish, Found, LeaveMutex
  <1>16. CASE Dec(t)
    BY <1>16 DEF LocalsOK, Dec, Released, Missed
  <1>17. CASE FdClose(t)
    BY <1>17 DEF LocalsOK, FdClose, Released, Missed
  <1>18. CASE Mark(t)
    BY <1>18 DEF LocalsOK, Mark
  <1>19. CASE Server(t)
    BY <1>19 DEF LocalsOK, Server, LeaveMutex
  <1> QED
    BY <1>1, <1>2, <1>3, <1>4, <1>5, <1>6, <1>7, <1>8, <1>9, <1>10, <1>11, <1>12, <1>13, <1>14, <1>15, <1>16, <1>17, <1>18, <1>19 DEF Quiet, Loud

\* The fd of an entry in use stays.
LEMMA FdStays ==
  ASSUME TypeOK, CallsInv, ClosesInv, Next, NEW h \in Handles, refcount[h] # 0
  PROVE  fd'[h] = fd[h]
  <1>1. ASSUME NEW g \in Handles, Open(g) PROVE fd' = fd
    BY <1>1 DEF Open, cache
  <1>2. ASSUME NEW t \in Threads, Quiet(t) PROVE fd' = fd
    BY <1>2, QuietSteps
  <1>3. ASSUME NEW t \in Threads, Loud(t), ~Fill(t) PROVE fd' = fd
    BY <1>3 DEF Loud, Get, Check, Ask, Publish, Dec, FdClose, Mark, Server, cache
  <1>4. ASSUME NEW t \in Threads, Fill(t) PROVE fd'[h] = fd[h]
    <2>1. refcount[TopHandle(t)] = 0
      BY <1>4 DEF ClosesInv, FillOK, Fill
    <2> QED
      BY <1>4, <2>1 DEF Fill, TypeOK
  <1> QED
    BY <1>1, <1>2, <1>3, <1>4, NextSteps

LEMMA OthersLocals ==
  ASSUME TypeOK, CallsInv, RefsInv, ClosesInv, Next, NEW t \in Threads, OthersStay(t), NEW u \in Threads \ {t}
  PROVE  LocalsOK(u)'
  <1>1. LocalsOK(u)
    BY DEF CallsInv
  <1>2. Top(u)' = Top(u) /\ TopHandle(u)' = TopHandle(u) /\ (Room(u)' <=> Room(u))
    BY DEF OthersStay, Top, TopHandle, Room
  <1>3. ASSUME pc[u] = "dec" PROVE SyncFd(Top(u))' = SyncFd(Top(u))
    <2>1. CASE Top(u).entry = None
      BY <1>2, <2>1 DEF SyncFd
    <2>2. CASE Top(u).entry # None
      <3>1. Top(u).entry \in Handles /\ refcount[Top(u).entry] # 0
        BY <1>1, <1>3, <2>2, TopCounted DEF LocalsOK, Taken
      <3> QED
        BY <1>2, <2>2, <3>1, FdStays DEF SyncFd
    <2> QED
      BY <2>1, <2>2
  <1> QED
    BY <1>1, <1>2, <1>3 DEF OthersStay, LocalsOK

\* The same for a step that touches no held sync.
LEMMA QuietLocals ==
  ASSUME TypeOK, NEW t \in Threads, LocalsOK(t), MutexOK(t), Quiet(t)
  PROVE  LocalsOK(t)'
  <1>0. UNCHANGED <<held, fd>> /\ Top(t)' = Top(t) /\ SyncFd(Top(t))' = SyncFd(Top(t))
    BY QuietSteps DEF Top, SyncFd
  <1>1. Len(held[t]) \in Nat /\ Len(hs[t]) \in Nat /\ (Len(held[t]) = 0 <=> held[t] = <<>>)
    BY PlaceFacts DEF TypeOK
  <1> USE DEF TypeOK, Goto, locals, Filling, Releasing, Taken, Room, TopHandle
  <1>2. CASE BeginUse(t)
    <2>1. PICK s \in Uses[t] : hs' = [hs EXCEPT ![t] = s]
      BY <1>2 DEF BeginUse
    <2>2. hs'[t] = s /\ Len(s) > 0 /\ Len(s) \in Nat
      BY <2>1, CacheAssumption
    <2>3. pc'[t] = "get" /\ fn'[t] = "use" /\ finding' = finding /\ held[t] = <<>> /\ ~finding[t]
      BY <1>2 DEF BeginUse, LocalsOK
    <2> QED
      BY <1>0, <1>1, <2>2, <2>3 DEF LocalsOK
  <1>3. CASE BeginClose(t)
    <2>1. PICK h \in Closes[t] : hs' = [hs EXCEPT ![t] = <<h>>]
      BY <1>3 DEF BeginClose
    <2>2. Len(hs'[t]) = 1
      BY <2>1
    <2>3. pc'[t] = "enter" /\ fn'[t] = "close" /\ finding' = finding /\ held[t] = <<>> /\ ~finding[t]
      BY <1>3 DEF BeginClose, LocalsOK
    <2> QED
      BY <1>0, <1>1, <2>2, <2>3 DEF LocalsOK
  <1>4. CASE Enter(t)
    BY <1>0, <1>1, <1>4 DEF LocalsOK, Enter
  <1>5. CASE GetNothing(t)
    BY <1>0, <1>1, <1>5 DEF LocalsOK, MutexOK, GetNothing, Missed
  <1>6. CASE CheckClosed(t)
    BY <1>0, <1>1, <1>6 DEF LocalsOK, CheckClosed
  <1>7. CASE AskInVain(t)
    BY <1>0, <1>1, <1>7 DEF LocalsOK, AskInVain
  <1>8. CASE Cache(t)
    BY <1>0, <1>1, <1>8 DEF LocalsOK, Cache
  <1>9. CASE DontCache(t)
    BY <1>0, <1>1, <1>9 DEF LocalsOK, DontCache, Found
  <1>10. CASE Use(t)
    BY <1>0, <1>1, <1>10 DEF LocalsOK, Use
  <1>11. CASE Save(t)
    BY <1>0, <1>1, <1>11 DEF LocalsOK, Save
  <1> QED
    BY <1>2, <1>3, <1>4, <1>5, <1>6, <1>7, <1>8, <1>9, <1>10, <1>11 DEF Quiet

LEMMA LoudLocals ==
  ASSUME TypeOK, RefsInv, NEW t \in Threads, LocalsOK(t), MutexOK(t), Loud(t)
  PROVE  LocalsOK(t)'
  <1>1. Len(held[t]) \in Nat /\ Len(hs[t]) \in Nat /\ (Len(held[t]) = 0 <=> held[t] = <<>>)
    BY PlaceFacts DEF TypeOK
  <1> DEFINE Complete(s) == s.entry = None => s.fd \in Fds \cup {BadFd} /\ s.thing # None
  <1>2. \A k \in 1..Len(held[t]) : Complete(held[t][k])
    BY DEF LocalsOK
  <1>3. held[t] # <<>> => Complete(Top(t)) /\ Top(t) \in Sync
    BY <1>1, <1>2, PlaceFacts DEF Top
  \* a sync is pushed
  <1>4. ASSUME NEW x \in Sync, Complete(x), held' = [held EXCEPT ![t] = Append(@, x)]
        PROVE  /\ Len(held'[t]) = Len(held[t]) + 1 /\ held'[t] # <<>> /\ Top(t)' = x
               /\ \A k \in 1..Len(held'[t]) : Complete(held'[t][k])
               /\ UNCHANGED hs => TopHandle(t)' = Handle(t)
    <2>1. /\ Len(held'[t]) = Len(held[t]) + 1 /\ held'[t] # <<>> /\ Top(t)' = x
          /\ \A k \in 1..Len(held[t]) : held'[t][k] = held[t][k]
      BY <1>4, Push
    <2>2. \A k \in 1..Len(held'[t]) : k \in 1..Len(held[t]) \/ k = Len(held'[t])
      BY <1>1, <2>1
    <2>3. held'[t][Len(held'[t])] = x
      BY <2>1 DEF Top
    <2>4. \A k \in 1..Len(held'[t]) : Complete(held'[t][k])
      BY <1>2, <1>4, <2>1, <2>2, <2>3
    <2> QED
      BY <2>1, <2>4 DEF TopHandle, Handle
  \* or replaced
  <1>5. ASSUME NEW x \in Sync, Complete(x), held[t] # <<>>, SetTop(t, x)
        PROVE  /\ Len(held'[t]) = Len(held[t]) /\ held'[t] # <<>> /\ Top(t)' = x
               /\ \A k \in 1..Len(held'[t]) : Complete(held'[t][k])
    <2>1. /\ Len(held'[t]) = Len(held[t]) /\ held'[t] # <<>> /\ Top(t)' = x
          /\ \A k \in 1..(Len(held[t]) - 1) : held'[t][k] = held[t][k]
      BY <1>5, Replace
    <2>2. \A k \in 1..Len(held'[t]) : (k \in 1..(Len(held[t]) - 1) /\ k \in 1..Len(held[t])) \/ k = Len(held'[t])
      BY <1>1, <2>1
    <2>3. held'[t][Len(held'[t])] = x
      BY <2>1 DEF Top
    <2>4. \A k \in 1..Len(held'[t]) : Complete(held'[t][k])
      BY <1>2, <1>5, <2>1, <2>2, <2>3
    <2> QED
      BY <2>1, <2>4
  <1>6. CASE Get(t)
    <2> DEFINE x == [entry |-> Handle(t), fd |-> None, thing |-> None]
    <2>1. Handle(t) \in Handles /\ x \in Sync /\ x.entry = Handle(t) /\ Complete(x)
      BY <1>6, TopHandleOK, CacheAssumption DEF LocalsOK, Get, Sync
    <2>2. held' = [held EXCEPT ![t] = Append(@, x)] /\ UNCHANGED <<hs, fn, finding, saved>> /\ pc'[t] = "check"
      BY <1>6 DEF Get, Goto, TypeOK
    <2> HIDE DEF x
    <2>3. /\ Len(held'[t]) = Len(held[t]) + 1 /\ held'[t] # <<>> /\ Top(t)' = x
          /\ \A k \in 1..Len(held'[t]) : Complete(held'[t][k])
          /\ TopHandle(t)' = Handle(t)
      BY <1>4, <2>1, <2>2
    <2> HIDE DEF Complete
    <2>4. ~finding[t] /\ Room(t) /\ (fn[t] = "close" => Len(hs[t]) = 1) /\ Len(hs[t]) > 0
      BY <1>6 DEF LocalsOK, Get, Releasing
    <2>5. Len(held'[t]) <= Len(hs'[t])
      BY <1>1, <2>2, <2>3, <2>4 DEF Room
    <2> QED
      BY <2>1, <2>2, <2>3, <2>4, <2>5 DEF LocalsOK, Complete, Filling, Taken
  <1>7. CASE Check(t)
    <2> DEFINE x == [Top(t) EXCEPT !.thing = table[Top(t).entry]]
    <2>1. held[t] # <<>> /\ Top(t) \in Sync /\ Top(t).entry = TopHandle(t) /\ TopHandle(t) \in Handles
      BY <1>3, <1>7, TopHandleOK DEF LocalsOK, Check, Taken
    <2>2. x \in Sync /\ Complete(x) /\ x.entry = TopHandle(t)
      <3>1. x \in Sync /\ x.entry = TopHandle(t)
        BY <2>1 DEF Sync, TypeOK
      <3>2. TopHandle(t) # None
        BY <2>1, CacheAssumption
      <3> HIDE DEF x
      <3> QED
        BY <3>1, <3>2
    <2>3. SetTop(t, x) /\ UNCHANGED <<hs, fn, finding, saved>>
      BY <1>7 DEF Check
    <2> HIDE DEF x
    <2>4. /\ Len(held'[t]) = Len(held[t]) /\ held'[t] # <<>> /\ Top(t)' = x
          /\ \A k \in 1..Len(held'[t]) : Complete(held'[t][k])
      BY <1>5, <2>1, <2>2, <2>3
    <2>5. TopHandle(t)' = TopHandle(t)
      BY <2>3, <2>4 DEF TopHandle
    <2>6. \/ pc'[t] = "get" /\ fn[t] = "use" /\ Len(hs[t]) > Len(held'[t])
          \/ pc'[t] \in {"use", "save"} /\ fn[t] = "use"
          \/ pc'[t] = "mark" /\ fn[t] = "close"
      BY <1>7 DEF Check, Found, Goto, TypeOK
    <2>7. ~finding[t] /\ (fn[t] = "close" => Len(hs[t]) = 1) /\ Len(hs[t]) > 0 /\ Len(held[t]) <= Len(hs[t])
      BY <1>7 DEF LocalsOK, Check, Releasing
    <2> HIDE DEF Complete
    <2> QED
      BY <1>1, <2>2, <2>3, <2>4, <2>5, <2>6, <2>7 DEF LocalsOK, Complete, Filling, Taken, Room
  <1>8. CASE Ask(t)
    <2>1. PICK f \in Fds \cup {BadFd} :
              /\ table[Handle(t)] \in Things
              /\ [entry |-> None, fd |-> f, thing |-> table[Handle(t)]] \in Sync
              /\ held' = [held EXCEPT ![t] = Append(@, [entry |-> None, fd |-> f, thing |-> table[Handle(t)]])]
      BY <1>8, AskSync
    <2> DEFINE x == [entry |-> None, fd |-> f, thing |-> table[Handle(t)]]
    <2>2. x.fd \in Fds \cup {BadFd} /\ x.thing # None /\ x.entry = None
      BY <2>1, CacheAssumption
    <2>3. x \in Sync /\ Complete(x) /\ held' = [held EXCEPT ![t] = Append(@, x)]
      BY <2>1, <2>2
    <2>4. UNCHANGED <<hs, fn, finding, saved>> /\ pc'[t] = "cache"
      BY <1>8 DEF Ask, Goto, TypeOK
    <2> HIDE DEF x
    <2>5. /\ Len(held'[t]) = Len(held[t]) + 1 /\ held'[t] # <<>> /\ Top(t)' = x
          /\ \A k \in 1..Len(held'[t]) : Complete(held'[t][k])
      BY <1>4, <2>3
    <2>6. ~finding[t] /\ Room(t) /\ fn[t] = "use" /\ Len(hs[t]) > 0
      BY <1>8 DEF LocalsOK, Ask, Releasing
    <2> HIDE DEF Complete
    <2> QED
      BY <1>1, <2>2, <2>4, <2>5, <2>6 DEF LocalsOK, Complete, Filling, Taken, Room
  <1>9. CASE Fill(t)
    <2>1. UNCHANGED <<hs, fn, held, finding, saved>> /\ pc'[t] = "publish" /\ pc[t] = "fill" /\ Top(t)' = Top(t)
      BY <1>9 DEF Fill, locals, Goto, TypeOK, Top
    <2> QED
      BY <2>1 DEF LocalsOK, Filling, Taken, Releasing
  <1>10. CASE Publish(t)
    <2> DEFINE x == [entry |-> TopHandle(t), fd |-> None, thing |-> Top(t).thing]
    <2>1. held[t] # <<>> /\ Top(t) \in Sync /\ TopHandle(t) \in Handles
      BY <1>3, <1>10, TopHandleOK DEF LocalsOK, Publish, Taken, Filling
    <2>2. x \in Sync /\ Complete(x)
      BY <2>1, CacheAssumption DEF Sync
    <2>3. SetTop(t, x) /\ UNCHANGED <<hs, fn, finding, saved>>
      BY <1>10 DEF Publish
    <2> HIDE DEF x
    <2>4. /\ Len(held'[t]) = Len(held[t]) /\ held'[t] # <<>>
          /\ \A k \in 1..Len(held'[t]) : Complete(held'[t][k])
      BY <1>5, <2>1, <2>2, <2>3
    <2>5. \/ pc'[t] = "get" /\ Len(hs[t]) > Len(held'[t])
          \/ pc'[t] \in {"use", "save"}
      BY <1>10 DEF Publish, Found, Goto, TypeOK
    <2>6. ~finding[t] /\ fn[t] = "use" /\ Len(hs[t]) > 0 /\ Len(held[t]) <= Len(hs[t])
      BY <1>10 DEF LocalsOK, Publish, Releasing, Filling
    <2> HIDE DEF Complete
    <2> QED
      BY <1>1, <2>3, <2>4, <2>5, <2>6 DEF LocalsOK, Complete, Filling, Taken, Room
  <1>11. CASE Dec(t)
    <2>1. held[t] # <<>> /\ held' = [held EXCEPT ![t] = Popped(@)] /\ UNCHANGED <<hs, fn, mutex>> /\ pc[t] = "dec"
      BY <1>11 DEF LocalsOK, Dec, Taken
    <2>2. /\ Len(held'[t]) = Len(held[t]) - 1 /\ Len(held[t]) \in Nat \ {0}
          /\ \A k \in 1..Len(held'[t]) : held'[t][k] = held[t][k]
      BY <2>1, Pop
    <2>3. \A k \in 1..Len(held'[t]) : k \in 1..Len(held[t])
      BY <2>2
    <2>4. \A k \in 1..Len(held'[t]) : Complete(held'[t][k])
      BY <1>2, <2>2, <2>3
    <2>5. Len(held'[t]) = 0 <=> held'[t] = <<>>
      <3>1. held' \in [Threads -> Seq(Sync)]
        BY <2>1, Pop
      <3> QED
        BY <3>1, PlaceEmpty
    <2>6. \/ pc'[t] = "fd_close" /\ finding'[t] = finding[t]
          \/ finding[t] /\ ~finding'[t] /\ pc'[t] = (IF mutex # t THEN "enter" ELSE IF fn[t] = "use" THEN "ask" ELSE "server")
          \/ /\ ~finding[t] /\ ~finding'[t]
             /\ pc'[t] = (IF held'[t] # <<>> THEN "save" ELSE IF fn[t] = "close" THEN "server" ELSE "idle")
      BY <1>11 DEF Dec, Released, Missed, Goto, TypeOK
    <2>7. /\ finding[t] => Len(held[t]) <= Len(hs[t])
          /\ fn[t] = "use" => Len(held[t]) <= Len(hs[t])
          /\ Len(hs[t]) > 0 /\ (fn[t] = "close" => Len(hs[t]) = 1 /\ mutex = t)
          /\ fn[t] \in {"use", "close"}
      BY <2>1 DEF LocalsOK, MutexOK, TypeOK
    <2> HIDE DEF Complete
    <2>8. CASE pc'[t] = "fd_close"
      BY <1>1, <2>1, <2>2, <2>4, <2>6, <2>7, <2>8 DEF LocalsOK, Complete, Filling, Taken, Room, Releasing
    <2>9. CASE finding[t] /\ pc'[t] # "fd_close"
      <3>1. Len(held'[t]) < Len(hs'[t]) /\ Len(held'[t]) \in Nat
        BY <1>1, <2>1, <2>2, <2>7, <2>9
      <3>2. fn[t] = "close" => Len(held'[t]) < 1
        BY <2>1, <2>7, <3>1
      <3>3. fn[t] = "close" => held'[t] = <<>>
        <4>1. held' \in [Threads -> Seq(Sync)]
          BY <2>1, Pop
        <4> QED
          BY <3>2, <4>1, PlaceEmpty
      <3>4. pc'[t] = (IF mutex # t THEN "enter" ELSE IF fn[t] = "use" THEN "ask" ELSE "server") /\ ~finding'[t]
        BY <2>6, <2>9
      <3>5. Len(hs'[t]) > 0 /\ (fn'[t] = "close" => Len(hs'[t]) = 1 /\ mutex = t) /\ fn'[t] \in {"use", "close"} /\ fn'[t] = fn[t]
        BY <2>1, <2>7
      <3>6. Len(held'[t]) <= Len(hs'[t])
        BY <1>1, <2>1, <3>1
      <3> QED
        BY <2>4, <3>1, <3>3, <3>4, <3>5, <3>6 DEF LocalsOK, Complete, Filling, Taken, Room
    <2>10. CASE ~finding[t] /\ pc'[t] # "fd_close"
      BY <1>1, <2>1, <2>2, <2>4, <2>5, <2>6, <2>7, <2>10 DEF LocalsOK, Complete, Filling, Taken, Room, Releasing
    <2> QED
      BY <2>8, <2>9, <2>10
  <1>12. CASE FdClose(t)
    <2>1. UNCHANGED <<held, hs, fn, mutex>> /\ pc[t] = "fd_close"
      BY <1>12 DEF FdClose
    <2>2. \/ finding[t] /\ ~finding'[t] /\ pc'[t] = (IF mutex # t THEN "enter" ELSE IF fn[t] = "use" THEN "ask" ELSE "server")
          \/ /\ ~finding[t] /\ ~finding'[t]
             /\ pc'[t] = (IF held[t] # <<>> THEN "save" ELSE IF fn[t] = "close" THEN "server" ELSE "idle")
      BY <1>12, <2>1 DEF FdClose, Released, Missed, Goto, TypeOK
    <2>3. /\ finding[t] => Len(held[t]) < Len(hs[t])
          /\ fn[t] = "use" => Len(held[t]) <= Len(hs[t])
          /\ Len(hs[t]) > 0 /\ (fn[t] = "close" => Len(hs[t]) = 1 /\ mutex = t)
          /\ fn[t] \in {"use", "close"}
      BY <2>1 DEF LocalsOK, MutexOK, TypeOK, Room
    <2>4. finding[t] /\ fn[t] = "close" => held[t] = <<>>
      <3>1. finding[t] /\ fn[t] = "close" => Len(held[t]) < 1
        BY <1>1, <2>3
      <3>2. held[t] \in Seq(Sync)
        BY DEF TypeOK
      <3> QED
        BY <3>1, <3>2, PlaceEmpty
    <2> HIDE DEF Complete
    <2> QED
      BY <1>1, <1>2, <2>1, <2>2, <2>3, <2>4 DEF LocalsOK, Complete, Filling, Taken, Room, Releasing
  <1>13. CASE Mark(t)
    <2>1. held[t] # <<>> /\ Top(t) \in Sync /\ held' = [held EXCEPT ![t] = Append(@, Top(t))]
      BY <1>3, <1>13 DEF LocalsOK, Mark, Taken
    <2>2. UNCHANGED <<hs, fn, finding, saved>> /\ pc'[t] = "save" /\ fn[t] = "close" /\ ~finding[t] /\ Len(hs[t]) = 1
      BY <1>13 DEF Mark, Goto, TypeOK, LocalsOK, Releasing
    <2>3. /\ Len(held'[t]) = Len(held[t]) + 1 /\ held'[t] # <<>>
          /\ \A k \in 1..Len(held'[t]) : Complete(held'[t][k])
      BY <1>3, <1>4, <2>1
    <2> HIDE DEF Complete
    <2> QED
      BY <1>1, <2>2, <2>3 DEF LocalsOK, Complete, Filling, Taken
  <1>14. CASE Server(t)
    <2>1. UNCHANGED <<hs, fn, held, finding, saved>> /\ pc'[t] = "idle" /\ held[t] = <<>> /\ ~finding[t]
      BY <1>14 DEF Server, locals, Goto, TypeOK, LocalsOK, Releasing
    <2> HIDE DEF Complete
    <2> QED
      BY <1>1, <2>1 DEF LocalsOK, Filling, Taken
  <1> QED
    BY <1>6, <1>7, <1>8, <1>9, <1>10, <1>11, <1>12, <1>13, <1>14 DEF Loud

LEMMA StepCalls ==
  ASSUME TypeOK, CallsInv, RefsInv, ClosesInv, Next
  PROVE  CallsInv'
  <1>1. ASSUME NEW g \in Handles, Open(g) PROVE CallsInv'
    BY <1>1 DEF Open, locals, cache, CallsInv, LocalsOK, MutexOK, Top, TopHandle, Room, SyncFd
  <1>2. ASSUME NEW t \in Threads, Quiet(t) \/ Loud(t) PROVE CallsInv'
    <2>1. LocalsOK(t) /\ MutexOK(t)
      BY DEF CallsInv
    <2>2. OthersStay(t)
      BY <1>2, StepOthers
    <2>3. LocalsOK(t)'
      BY <1>2, <2>1, QuietLocals, LoudLocals
    <2>4. MutexOK(t)' /\ \A u \in Threads \ {t} : mutex' = u <=> mutex = u
      BY <1>2, <2>1, StepMutex
    <2>5. ASSUME NEW u \in Threads \ {t} PROVE LocalsOK(u)' /\ MutexOK(u)'
      <3>1. LocalsOK(u)'
        BY <2>2, <2>5, OthersLocals
      <3>2. MutexOK(u)'
        BY <2>2, <2>4, <2>5 DEF OthersStay, MutexOK, CallsInv
      <3> QED
        BY <3>1, <3>2
    <2> QED
      BY <2>3, <2>4, <2>5 DEF CallsInv
  <1> QED
    BY <1>1, <1>2, NextSteps

-----------------------------------------------------------------------------
(* Fills and closes.                                                       *)

\* Without fd_cache_mutex nobody fills an entry, marks one closed, brings
\* one back to life or changes the server's table.
LEMMA Unlocked ==
  ASSUME TypeOK, CallsInv, RefsInv, NEW t \in Threads, Quiet(t) \/ Loud(t), mutex # t
  PROVE  /\ UNCHANGED <<table, fd, closed>>
         /\ \A h \in Handles : refcount[h] = 0 => refcount'[h] = 0
  <1>0. LocalsOK(t) /\ MutexOK(t)
    BY DEF CallsInv
  <1>1. CASE Quiet(t)
    BY <1>1, QuietSteps
  <1>2. CASE Get(t)
    BY <1>2 DEF Get, TypeOK
  <1>3. CASE Check(t) \/ Ask(t) \/ FdClose(t)
    BY <1>3 DEF Check, Ask, FdClose, cache
  <1>4. CASE Dec(t)
    <2>1. held[t] # <<>>
      BY <1>0, <1>4 DEF LocalsOK, Dec, Taken
    <2>2. CASE Top(t).entry = None
      BY <1>4, <2>2 DEF Dec
    <2>3. CASE Top(t).entry # None
      <3>1. Top(t).entry \in Handles /\ refcount[Top(t).entry] # 0
        BY <2>1, <2>3, TopCounted
      <3> QED
        BY <1>4, <2>3, <3>1 DEF Dec, TypeOK
    <2> QED
      BY <2>2, <2>3
  <1>5. ~Fill(t) /\ ~Publish(t) /\ ~Mark(t) /\ ~Server(t)
    BY <1>0 DEF MutexOK, Filling, Fill, Publish, Mark, Server
  <1> QED
    BY <1>1, <1>2, <1>3, <1>4, <1>5 DEF Loud

LEMMA OthersCloses ==
  ASSUME TypeOK, CallsInv, RefsInv, ClosesInv, NEW t \in Threads, Quiet(t) \/ Loud(t), NEW u \in Threads \ {t}
  PROVE  FillOK(u)' /\ CloseOK(u)'
  <1>0. LocalsOK(u) /\ MutexOK(u) /\ FillOK(u) /\ CloseOK(u) /\ u # t
    BY DEF CallsInv, ClosesInv
  <1>1. pc'[u] = pc[u] /\ fn'[u] = fn[u] /\ hs'[u] = hs[u] /\ held'[u] = held[u]
    BY StepOthers DEF OthersStay
  <1>2. Top(u)' = Top(u) /\ TopHandle(u)' = TopHandle(u)
    BY <1>1 DEF Top, TopHandle
  <1>3. CASE mutex # u
    BY <1>0, <1>1, <1>3 DEF MutexOK, FillOK, CloseOK, Filling, Releasing
  <1>4. CASE mutex = u
    <2>1. /\ UNCHANGED <<table, fd, closed>>
          /\ \A h \in Handles : refcount[h] = 0 => refcount'[h] = 0
      BY <1>0, <1>4, Unlocked
    <2>2. \A h \in Handles : Live(h)' => Live(h)
      BY <2>1 DEF Live
    <2>3. pc[u] \in Filling => TopHandle(u) \in Handles
      BY <1>0, TopHandleOK DEF LocalsOK, Filling, Taken
    <2>4. pc[u] # "idle" => hs[u][1] \in Handles
      BY <1>0, TopHandleOK DEF LocalsOK
    <2>5. FillOK(u)'
      BY <1>0, <1>1, <1>2, <2>1, <2>3 DEF FillOK, Filling
    <2>6. CloseOK(u)'
      BY <1>0, <1>1, <1>2, <2>1, <2>2, <2>4 DEF CloseOK, Releasing
    <2> QED
      BY <2>5, <2>6
  <1> QED
    BY <1>3, <1>4

\* A close is about the only handle of its call.
LEMMA CloseHandle ==
  ASSUME TypeOK, NEW t \in Threads, LocalsOK(t), fn[t] = "close"
  PROVE  /\ pc[t] \in {"enter", "get"} => Handle(t) = hs[t][1] /\ hs[t][1] \in Handles
         /\ pc[t] \in {"check", "mark"} => TopHandle(t) = hs[t][1] /\ hs[t][1] \in Handles
         /\ pc[t] \in Releasing \cup {"server"} => hs[t][1] \in Handles
  <1>1. Len(held[t]) \in Nat /\ Len(hs[t]) \in Nat /\ (held[t] # <<>> => Len(held[t]) > 0)
    BY PlaceFacts DEF TypeOK
  <1>2. pc[t] # "idle" => Len(hs[t]) = 1 /\ hs[t][1] \in Handles
    BY TopHandleOK DEF LocalsOK
  <1>3. ASSUME pc[t] \in {"enter", "get"} PROVE Len(held[t]) + 1 = 1
    <2>1. Len(held[t]) < Len(hs[t]) /\ Len(hs[t]) = 1
      BY <1>2, <1>3 DEF LocalsOK, Room
    <2>2. \A m, n \in Nat : m < n /\ n = 1 => m + 1 = 1
      OBVIOUS
    <2> QED
      BY <1>1, <2>1, <2>2, Zenon
  <1>4. ASSUME pc[t] \in {"check", "mark"} PROVE Len(held[t]) = 1
    <2>1. held[t] # <<>> /\ Len(held[t]) <= Len(hs[t])
      BY <1>4 DEF LocalsOK, Taken
    <2>2. Len(hs[t]) = 1 /\ Len(held[t]) > 0
      BY <1>1, <1>2, <1>4, <2>1
    <2>3. \A m, n \in Nat : m <= n /\ n = 1 /\ m > 0 => m = 1
      OBVIOUS
    <2> QED
      BY <1>1, <2>1, <2>2, <2>3, Zenon
  <1> QED
    BY <1>2, <1>3, <1>4 DEF Handle, TopHandle, Releasing

LEMMA OwnCloses ==
  ASSUME TypeOK, CallsInv, RefsInv, ClosesInv, NEW t \in Threads, Quiet(t) \/ Loud(t)
  PROVE  FillOK(t)' /\ CloseOK(t)'
  <1>0. LocalsOK(t) /\ MutexOK(t) /\ FillOK(t) /\ CloseOK(t)
    BY DEF CallsInv, ClosesInv
  <1>1. CASE BeginUse(t) \/ BeginClose(t) \/ Enter(t) \/ Use(t) \/ AskInVain(t)
    <2>1. pc'[t] \notin Filling \cup {"mark"} /\ (fn'[t] = "close" => pc'[t] \notin Releasing \cup {"server"})
      BY <1>0, <1>1 DEF BeginUse, BeginClose, Enter, Use, AskInVain, Goto, TypeOK, Filling, Releasing, LocalsOK, locals
    <2> QED
      BY <2>1 DEF FillOK, CloseOK, Filling
  <1>2. CASE GetNothing(t)
    <2>1. pc'[t] \in {"enter", "ask", "server"} /\ fn' = fn /\ hs' = hs /\ refcount' = refcount /\ refcount[Handle(t)] = 0 /\ pc[t] = "get"
      BY <1>2 DEF GetNothing, Missed, Goto, TypeOK, locals, cache
    <2>2. fn[t] = "close" => Handle(t) = hs[t][1]
      BY <1>0, <2>1, CloseHandle
    <2> QED
      BY <2>1, <2>2 DEF FillOK, CloseOK, Filling, Live
  <1>3. CASE CheckClosed(t)
    <2>1. pc'[t] = "save" /\ fn' = fn /\ hs' = hs /\ closed' = closed /\ closed[Top(t).entry] /\ pc[t] = "check"
      BY <1>3 DEF CheckClosed, Goto, TypeOK, cache
    <2>2. fn[t] = "close" => Top(t).entry = hs[t][1]
      BY <1>0, <2>1, CloseHandle DEF LocalsOK
    <2> QED
      BY <2>1, <2>2 DEF FillOK, CloseOK, Filling, Live
  <1>4. CASE Cache(t)
    <2>1. UNCHANGED <<table, refcount, held, hs, fn>> /\ pc[t] = "cache" /\ pc'[t] = "fill" /\ refcount[TopHandle(t)] = 0
      BY <1>4 DEF Cache, Goto, TypeOK, cache, locals
    <2>2. Top(t)' = Top(t) /\ TopHandle(t)' = TopHandle(t)
      BY <2>1 DEF Top, TopHandle
    <2> QED
      BY <1>0, <2>1, <2>2 DEF FillOK, CloseOK, Filling, Releasing
  <1>5. CASE DontCache(t) \/ Publish(t)
    <2>1. pc'[t] \in {"get", "use", "save"} /\ fn' = fn /\ fn[t] = "use"
      BY <1>0, <1>5 DEF DontCache, Publish, Found, Goto, TypeOK, LocalsOK, Filling
    <2> QED
      BY <2>1 DEF FillOK, CloseOK, Filling
  <1>6. CASE Save(t)
    <2>1. UNCHANGED <<refcount, closed, hs, fn>> /\ pc[t] = "save" /\ pc'[t] = "dec"
      BY <1>6 DEF Save, Goto, TypeOK, cache
    <2> QED
      BY <1>0, <2>1 DEF FillOK, CloseOK, Filling, Releasing, Live
  <1>7. CASE Get(t)
    <2>1. pc'[t] = "check"
      BY <1>7 DEF Get, Goto, TypeOK
    <2> QED
      BY <2>1 DEF FillOK, CloseOK, Filling, Releasing
  <1>8. CASE Check(t)
    <2>1. held[t] # <<>> /\ Top(t) \in Sync /\ Top(t).entry = TopHandle(t) /\ TopHandle(t) \in Handles
      BY <1>0, <1>8, PlaceFacts, TopHandleOK DEF LocalsOK, Check, Taken
    <2>2. [Top(t) EXCEPT !.thing = table[Top(t).entry]] \in Sync
      BY <2>1 DEF Sync, TypeOK
    <2>3. Len(held'[t]) = Len(held[t])
      BY <1>8, <2>1, <2>2, Replace DEF Check
    <2>4. TopHandle(t)' = TopHandle(t)
      BY <1>8, <2>3 DEF Check, TopHandle
    <2>5. closed' = closed /\ ~closed[TopHandle(t)] /\ fn' = fn
      BY <1>8, <2>1 DEF Check, cache
    <2>6. (pc'[t] \in {"get", "use", "save"} /\ fn[t] = "use") \/ pc'[t] = "mark"
      BY <1>8 DEF Check, Found, Goto, TypeOK
    <2> QED
      BY <2>4, <2>5, <2>6 DEF FillOK, CloseOK, Filling, Releasing
  <1>9. CASE Ask(t)
    <2>1. PICK f \in Fds \cup {BadFd} :
              /\ [entry |-> None, fd |-> f, thing |-> table[Handle(t)]] \in Sync
              /\ held' = [held EXCEPT ![t] = Append(@, [entry |-> None, fd |-> f, thing |-> table[Handle(t)]])]
      BY <1>0, <1>9, AskSync
    <2>2. Len(held'[t]) = Len(held[t]) + 1 /\ Top(t)' = [entry |-> None, fd |-> f, thing |-> table[Handle(t)]]
      BY <2>1, Push
    <2>3. pc'[t] = "cache" /\ UNCHANGED <<table, hs>>
      BY <1>9 DEF Ask, Goto, TypeOK
    <2>4. TopHandle(t)' = Handle(t)
      BY <2>2, <2>3 DEF TopHandle, Handle
    <2> QED
      BY <2>2, <2>3, <2>4 DEF FillOK, CloseOK, Filling, Releasing
  <1>10. CASE Fill(t)
    <2>1. /\ UNCHANGED <<table, refcount, held, hs, fn>> /\ pc[t] = "fill" /\ pc'[t] = "publish"
          /\ fd' = [fd EXCEPT ![TopHandle(t)] = Top(t).fd] /\ closed' = [closed EXCEPT ![TopHandle(t)] = FALSE]
      BY <1>10 DEF Fill, Goto, TypeOK, locals
    <2>2. TopHandle(t) \in Handles
      BY <1>0, <2>1, TopHandleOK DEF LocalsOK, Filling, Taken
    <2>3. Top(t)' = Top(t) /\ TopHandle(t)' = TopHandle(t)
      BY <2>1 DEF Top, TopHandle
    <2>4. fd'[TopHandle(t)] = Top(t).fd /\ ~closed'[TopHandle(t)]
      BY <2>1, <2>2 DEF TypeOK
    <2> QED
      BY <1>0, <2>1, <2>3, <2>4 DEF FillOK, CloseOK, Filling, Releasing
  <1>11. CASE Dec(t)
    <2>1. pc[t] = "dec" /\ pc'[t] \notin Filling \cup {"mark"} /\ UNCHANGED <<fn, hs, closed>> /\ held[t] # <<>>
      BY <1>0, <1>11 DEF Dec, Released, Missed, Goto, TypeOK, Filling, LocalsOK, Taken
    <2>2. \A h \in Handles : refcount[h] = 0 => refcount'[h] = 0
      <3>1. CASE Top(t).entry = None
        BY <1>11, <3>1 DEF Dec
      <3>2. CASE Top(t).entry # None
        <4>1. Top(t).entry \in Handles /\ refcount[Top(t).entry] # 0
          BY <2>1, <3>2, TopCounted
        <4> QED
          BY <1>11, <3>2, <4>1 DEF Dec, TypeOK
      <3> QED
        BY <3>1, <3>2
    <2>3. fn[t] = "close" => hs[t][1] \in Handles
      BY <1>0, <2>1, CloseHandle DEF Releasing
    <2> QED
      BY <1>0, <2>1, <2>2, <2>3 DEF FillOK, CloseOK, Filling, Releasing, Live
  <1>12. CASE FdClose(t)
    <2>1. pc[t] = "fd_close" /\ pc'[t] \notin Filling \cup {"mark"} /\ UNCHANGED <<fn, hs, refcount, closed>>
      BY <1>12 DEF FdClose, Released, Missed, Goto, TypeOK, Filling, cache
    <2> QED
      BY <1>0, <2>1 DEF FillOK, CloseOK, Filling, Releasing, Live
  <1>13. CASE Mark(t)
    <2>1. pc[t] = "mark" /\ pc'[t] = "save" /\ UNCHANGED <<fn, hs>> /\ closed' = [closed EXCEPT ![Top(t).entry] = TRUE]
      BY <1>13 DEF Mark, Goto, TypeOK
    <2>2. Top(t).entry = hs[t][1] /\ hs[t][1] \in Handles
      BY <1>0, <2>1, CloseHandle DEF LocalsOK
    <2>3. closed'[hs[t][1]]
      BY <2>1, <2>2 DEF TypeOK
    <2> QED
      BY <2>1, <2>3 DEF FillOK, CloseOK, Filling, Live
  <1>14. CASE Server(t)
    <2>1. pc'[t] = "idle"
      BY <1>14 DEF Server, Goto, TypeOK
    <2> QED
      BY <2>1 DEF FillOK, CloseOK, Filling, Releasing
  <1> QED
    BY <1>1, <1>2, <1>3, <1>4, <1>5, <1>6, <1>7, <1>8, <1>9, <1>10, <1>11, <1>12, <1>13, <1>14 DEF Quiet, Loud

LEMMA StepCloses ==
  ASSUME TypeOK, CallsInv, RefsInv, ClosesInv, Next
  PROVE  ClosesInv'
  <1>1. ASSUME NEW g \in Handles, Open(g) PROVE ClosesInv'
    <2> SUFFICES ASSUME NEW u \in Threads PROVE FillOK(u)' /\ CloseOK(u)'
      BY DEF ClosesInv
    <2>0. LocalsOK(u) /\ FillOK(u) /\ CloseOK(u)
      BY DEF CallsInv, ClosesInv
    <2>1. table[g] = None /\ UNCHANGED <<refcount, fd, closed, mutex, pc, fn, hs, held, finding, saved>>
      BY <1>1 DEF Open, cache, locals
    <2>2. \A h \in Handles \ {g} : table'[h] = table[h]
      BY <1>1 DEF Open, TypeOK
    <2>3. Top(u)' = Top(u) /\ TopHandle(u)' = TopHandle(u)
      BY <2>1 DEF Top, TopHandle
    <2>4. ASSUME pc[u] \in Filling PROVE TopHandle(u) \in Handles \ {g}
      <3>1. TopHandle(u) \in Handles /\ held[u] # <<>>
        BY <2>0, <2>4, TopHandleOK DEF LocalsOK, Filling, Taken
      <3>2. Top(u).thing # None
        BY <2>0, <2>4, <3>1, PlaceFacts DEF LocalsOK, Top
      <3> QED
        BY <2>0, <2>1, <2>4, <3>1, <3>2 DEF FillOK
    <2>5. FillOK(u)'
      BY <2>0, <2>1, <2>2, <2>3, <2>4 DEF FillOK, Filling
    <2> QED
      BY <2>0, <2>1, <2>3, <2>5 DEF CloseOK, Live
  <1>2. ASSUME NEW t \in Threads, Quiet(t) \/ Loud(t) PROVE ClosesInv'
    BY <1>2, OwnCloses, OthersCloses DEF ClosesInv
  <1> QED
    BY <1>1, <1>2, NextSteps

-----------------------------------------------------------------------------
(* Who closes an fd.                                                       *)

LEMMA OwnersSame ==
  ASSUME NEW f \in Fds, FdOK(f), EntryOwners(f)' = EntryOwners(f), StackPlaces(f)' = StackPlaces(f), Closers(f)' = Closers(f),
         fdThing'[f] # None <=> fdThing[f] # None
  PROVE  FdOK(f)'
  <1>1. Owners(f)' = Owners(f)
    BY DEF Owners
  <1> QED
    BY <1>1 DEF FdOK

LEMMA OwnerIs ==
  ASSUME NEW f
  PROVE  /\ \A h : <<"entry", h>> \in Owners(f) <=> h \in EntryOwners(f)
         /\ \A r : <<"stack", r>> \in Owners(f) <=> r \in StackPlaces(f)
         /\ \A u : <<"closer", u>> \in Owners(f) <=> u \in Closers(f)
         /\ Owners(f) = {} <=> EntryOwners(f) = {} /\ StackPlaces(f) = {} /\ Closers(f) = {}
  BY DEF Owners

\* An owner hands an open fd on to another one.
LEMMA OwnerMoves ==
  ASSUME NEW f \in Fds, NEW E, NEW S, NEW C,
         \/ E = {} /\ S = {} /\ \E u : C = {u}
         \/ E = {} /\ C = {} /\ \E r : S = {r}
         \/ S = {} /\ C = {} /\ \E h : E = {h},
         EntryOwners(f)' = E, StackPlaces(f)' = S, Closers(f)' = C, fdThing'[f] # None
  PROVE  FdOK(f)'
  <1>1. Owners(f)' = {<<"entry", h>> : h \in E} \cup {<<"stack", r>> : r \in S} \cup {<<"closer", u>> : u \in C}
    BY DEF Owners
  <1>2. \E a : Owners(f)' = {a}
    <2>1. ASSUME NEW u, E = {}, S = {}, C = {u} PROVE Owners(f)' = {<<"closer", u>>}
      BY <1>1, <2>1
    <2>2. ASSUME NEW r, E = {}, C = {}, S = {r} PROVE Owners(f)' = {<<"stack", r>>}
      BY <1>1, <2>2
    <2>3. ASSUME NEW h, S = {}, C = {}, E = {h} PROVE Owners(f)' = {<<"entry", h>>}
      BY <1>1, <2>3
    <2> QED
      BY <2>1, <2>2, <2>3
  <1> QED
    BY <1>2 DEF FdOK

LEMMA OnlyOwner ==
  ASSUME NEW f \in Fds, FdOK(f)
  PROVE  /\ \A h \in EntryOwners(f) : EntryOwners(f) = {h} /\ StackPlaces(f) = {} /\ Closers(f) = {} /\ fdThing[f] # None
         /\ \A r \in StackPlaces(f) : EntryOwners(f) = {} /\ StackPlaces(f) = {r} /\ Closers(f) = {} /\ fdThing[f] # None
         /\ \A u \in Closers(f) : EntryOwners(f) = {} /\ StackPlaces(f) = {} /\ Closers(f) = {u} /\ fdThing[f] # None
         /\ fdThing[f] = None => EntryOwners(f) = {} /\ StackPlaces(f) = {} /\ Closers(f) = {}
  <1>1. /\ \A a, b \in Owners(f) : a = b
        /\ fdThing[f] # None <=> Owners(f) # {}
    BY DEF FdOK
  <1>2. ASSUME NEW h \in EntryOwners(f)
        PROVE  EntryOwners(f) = {h} /\ StackPlaces(f) = {} /\ Closers(f) = {} /\ fdThing[f] # None
    <2>0. <<"entry", h>> \in Owners(f)
      BY <1>2, OwnerIs
    <2>1. \A x \in EntryOwners(f) : <<"entry", x>> = <<"entry", h>>
      BY <1>1, <2>0, OwnerIs, Zenon
    <2>2. \A x \in StackPlaces(f) : <<"stack", x>> = <<"entry", h>>
      BY <1>1, <2>0, OwnerIs, Zenon
    <2>3. \A x \in Closers(f) : <<"closer", x>> = <<"entry", h>>
      BY <1>1, <2>0, OwnerIs, Zenon
    <2> QED
      BY <1>1, <1>2, <2>0, <2>1, <2>2, <2>3
  <1>3. ASSUME NEW r \in StackPlaces(f)
        PROVE  EntryOwners(f) = {} /\ StackPlaces(f) = {r} /\ Closers(f) = {} /\ fdThing[f] # None
    <2>0. <<"stack", r>> \in Owners(f)
      BY <1>3, OwnerIs
    <2>1. \A x \in EntryOwners(f) : <<"entry", x>> = <<"stack", r>>
      BY <1>1, <2>0, OwnerIs, Zenon
    <2>2. \A x \in StackPlaces(f) : <<"stack", x>> = <<"stack", r>>
      BY <1>1, <2>0, OwnerIs, Zenon
    <2>3. \A x \in Closers(f) : <<"closer", x>> = <<"stack", r>>
      BY <1>1, <2>0, OwnerIs, Zenon
    <2> QED
      BY <1>1, <1>3, <2>0, <2>1, <2>2, <2>3
  <1>4. ASSUME NEW u \in Closers(f)
        PROVE  EntryOwners(f) = {} /\ StackPlaces(f) = {} /\ Closers(f) = {u} /\ fdThing[f] # None
    <2>0. <<"closer", u>> \in Owners(f)
      BY <1>4, OwnerIs
    <2>1. \A x \in EntryOwners(f) : <<"entry", x>> = <<"closer", u>>
      BY <1>1, <2>0, OwnerIs, Zenon
    <2>2. \A x \in StackPlaces(f) : <<"stack", x>> = <<"closer", u>>
      BY <1>1, <2>0, OwnerIs, Zenon
    <2>3. \A x \in Closers(f) : <<"closer", x>> = <<"closer", u>>
      BY <1>1, <2>0, OwnerIs, Zenon
    <2> QED
      BY <1>1, <1>4, <2>0, <2>1, <2>2, <2>3
  <1>5. ASSUME fdThing[f] = None PROVE EntryOwners(f) = {} /\ StackPlaces(f) = {} /\ Closers(f) = {}
    BY <1>1, <1>5, OwnerIs
  <1> QED
    BY <1>2, <1>3, <1>4, <1>5

LEMMA PlacesAt == ASSUME NEW f PROVE StackPlaces(f) = {r \in Places : At(r).entry = None /\ At(r).fd = f}
  BY DEF StackPlaces, At

\* What the steps do to the owners on stacks.
LEMMA PushPlaces ==
  ASSUME TypeOK, NEW t \in Threads, NEW x \in Sync, held' = [held EXCEPT ![t] = Append(@, x)], NEW f \in Fds
  PROVE  StackPlaces(f)' = IF x.entry = None /\ x.fd = f THEN StackPlaces(f) \cup {Next1(t)} ELSE StackPlaces(f)
  <1>1. /\ Places' = Places \cup {Next1(t)} /\ (\A r \in Places : At(r)' = At(r))
        /\ \A r : r = Next1(t) => At(r)' = x
    BY Push, Zenon
  <1>2. Next1(t) \notin Places
    BY PlaceFacts, Zenon
  <1>3. StackPlaces(f)' = {r \in Places' : At(r)'.entry = None /\ At(r)'.fd = f}
    BY DEF StackPlaces, At
  <1>4. ASSUME NEW r PROVE r \in StackPlaces(f)' <=> r \in Places' /\ At(r)'.entry = None /\ At(r)'.fd = f
    BY <1>3
  <1>5. ASSUME NEW r PROVE r \in StackPlaces(f) <=> r \in Places /\ At(r).entry = None /\ At(r).fd = f
    BY PlacesAt
  <1>6. \A r : r \in StackPlaces(f)' <=>
               r \in (IF x.entry = None /\ x.fd = f THEN StackPlaces(f) \cup {Next1(t)} ELSE StackPlaces(f))
    BY <1>1, <1>2, <1>4, <1>5
  <1> QED
    BY <1>6

LEMMA PopPlaces ==
  ASSUME TypeOK, NEW t \in Threads, held[t] # <<>>, held' = [held EXCEPT ![t] = Popped(@)], NEW f \in Fds
  PROVE  /\ Last(t) \in StackPlaces(f) <=> Top(t).entry = None /\ Top(t).fd = f
         /\ StackPlaces(f)' = StackPlaces(f) \ {Last(t)}
  <1>1. Places' = Places \ {Last(t)} /\ (\A r \in Places' : At(r)' = At(r))
    BY Pop, Zenon
  <1>2. Last(t) \in Places /\ Top(t) = At(Last(t))
    BY PlaceFacts, Zenon
  <1>3. StackPlaces(f)' = {r \in Places' : At(r)'.entry = None /\ At(r)'.fd = f}
    BY DEF StackPlaces, At
  <1>4. ASSUME NEW r PROVE r \in StackPlaces(f)' <=> r \in Places' /\ At(r)'.entry = None /\ At(r)'.fd = f
    BY <1>3
  <1>5. ASSUME NEW r PROVE r \in StackPlaces(f) <=> r \in Places /\ At(r).entry = None /\ At(r).fd = f
    BY PlacesAt
  <1>6. \A r : r \in StackPlaces(f)' <=> r \in StackPlaces(f) \ {Last(t)}
    BY <1>1, <1>2, <1>4, <1>5
  <1> QED
    BY <1>2, <1>5, <1>6

LEMMA ReplacePlaces ==
  ASSUME TypeOK, NEW t \in Threads, held[t] # <<>>, NEW x \in Sync, SetTop(t, x), x.entry # None, NEW f \in Fds
  PROVE  /\ Last(t) \in StackPlaces(f) <=> Top(t).entry = None /\ Top(t).fd = f
         /\ StackPlaces(f)' = StackPlaces(f) \ {Last(t)}
  <1>1. Places' = Places /\ (\A r \in Places \ {Last(t)} : At(r)' = At(r)) /\ \A r : r = Last(t) => At(r)' = x
    BY Replace, Zenon
  <1>2. Last(t) \in Places /\ Top(t) = At(Last(t))
    BY PlaceFacts, Zenon
  <1>3. StackPlaces(f)' = {r \in Places' : At(r)'.entry = None /\ At(r)'.fd = f}
    BY DEF StackPlaces, At
  <1>4. ASSUME NEW r PROVE r \in StackPlaces(f)' <=> r \in Places' /\ At(r)'.entry = None /\ At(r)'.fd = f
    BY <1>3
  <1>5. ASSUME NEW r PROVE r \in StackPlaces(f) <=> r \in Places /\ At(r).entry = None /\ At(r).fd = f
    BY PlacesAt
  <1>6. \A r : r \in StackPlaces(f)' <=> r \in StackPlaces(f) \ {Last(t)}
    BY <1>1, <1>2, <1>4, <1>5
  <1> QED
    BY <1>2, <1>5, <1>6

LEMMA StepFds ==
  ASSUME TypeOK, CallsInv, RefsInv, FdsInv, ClosesInv, Next
  PROVE  FdsInv'
  <1> SUFFICES ASSUME NEW f \in Fds PROVE FdOK(f)'
    BY DEF FdsInv
  <1>0. FdOK(f) /\ BadFd \notin Fds
    BY CacheAssumption DEF FdsInv, Fds, BadFd
  <1>1. ASSUME NEW g \in Handles, Open(g) PROVE FdOK(f)'
    <2>1. UNCHANGED <<fdThing, refcount, fd, held, pc, saved>>
      BY <1>1 DEF Open, cache, locals
    <2>2. EntryOwners(f)' = EntryOwners(f) /\ StackPlaces(f)' = StackPlaces(f) /\ Closers(f)' = Closers(f)
      BY <2>1 DEF EntryOwners, StackPlaces, Places, Closers
    <2> QED
      BY <1>0, <2>1, <2>2, OwnersSame
  <1>2. ASSUME NEW t \in Threads, Quiet(t) \/ Loud(t) PROVE FdOK(f)'
    <2>0. LocalsOK(t) /\ MutexOK(t) /\ FillOK(t) /\ CloseOK(t) /\ OthersStay(t)
      BY <1>2, StepOthers DEF CallsInv, ClosesInv
    <2>1. pc[t] # "fd_close" /\ pc'[t] # "fd_close" => Closers(f)' = Closers(f)
      BY <2>0 DEF OthersStay, Closers
    <2>2. (\A h \in Handles : (refcount'[h] # 0 /\ fd'[h] = f) <=> (refcount[h] # 0 /\ fd[h] = f)) => EntryOwners(f)' = EntryOwners(f)
      BY DEF EntryOwners
    <2>3. UNCHANGED held => StackPlaces(f)' = StackPlaces(f)
      BY DEF StackPlaces, Places
    <2>4. CASE Quiet(t)
      <3>1. UNCHANGED <<fdThing, refcount, fd, held>> /\ pc[t] # "fd_close" /\ pc'[t] # "fd_close"
        BY <2>4, QuietSteps
      <3> QED
        BY <1>0, <2>1, <2>2, <2>3, <3>1, OwnersSame
    <2>5. CASE Server(t)
      <3>1. UNCHANGED <<fdThing, refcount, fd, held>> /\ pc[t] # "fd_close" /\ pc'[t] # "fd_close"
        BY <2>5 DEF Server, Goto, TypeOK, cache, locals
      <3> QED
        BY <1>0, <2>1, <2>2, <2>3, <3>1, OwnersSame
    <2>6. CASE Get(t)
      <3> DEFINE x == [entry |-> Handle(t), fd |-> None, thing |-> None]
      <3>1. Handle(t) \in Handles /\ x \in Sync /\ x.entry # None
        BY <2>0, <2>6, TopHandleOK, CacheAssumption DEF LocalsOK, Get, Sync
      <3>2. held' = [held EXCEPT ![t] = Append(@, x)]
        BY <2>6 DEF Get
      <3> HIDE DEF x
      <3>3. StackPlaces(f)' = StackPlaces(f)
        BY <3>1, <3>2, PushPlaces
      <3>4. \A h \in Handles : refcount'[h] # 0 <=> refcount[h] # 0
        BY <2>6 DEF Get, TypeOK
      <3>5. UNCHANGED <<fdThing, fd>> /\ pc[t] # "fd_close" /\ pc'[t] # "fd_close"
        BY <2>6 DEF Get, Goto, TypeOK
      <3> QED
        BY <1>0, <2>1, <2>2, <3>3, <3>4, <3>5, OwnersSame
    <2>7. CASE Check(t)
      <3> DEFINE x == [Top(t) EXCEPT !.thing = table[Top(t).entry]]
      <3>1. held[t] # <<>> /\ Top(t) \in Sync /\ Top(t).entry = TopHandle(t) /\ TopHandle(t) \in Handles
        BY <2>0, <2>7, PlaceFacts, TopHandleOK DEF LocalsOK, Check, Taken
      <3>2. x \in Sync /\ x.entry = TopHandle(t)
        BY <3>1 DEF Sync, TypeOK
      <3>3. SetTop(t, x) /\ UNCHANGED <<refcount, fd, fdThing>> /\ pc[t] # "fd_close" /\ pc'[t] # "fd_close"
        BY <2>7 DEF Check, Found, Goto, TypeOK, cache
      <3> HIDE DEF x
      <3>4. TopHandle(t) # None
        BY <3>1, CacheAssumption
      <3>5. StackPlaces(f)' = StackPlaces(f)
        <4>1. /\ Last(t) \in StackPlaces(f) <=> Top(t).entry = None /\ Top(t).fd = f
              /\ StackPlaces(f)' = StackPlaces(f) \ {Last(t)}
          <5>1. x.entry # None
            BY <3>2, <3>4
          <5> QED
            BY <3>1, <3>2, <3>3, <5>1, ReplacePlaces
        <4> QED
          BY <3>1, <3>4, <4>1
      <3> QED
        BY <1>0, <2>1, <2>2, <3>3, <3>5, OwnersSame
    <2>8. CASE Mark(t)
      <3>1. held[t] # <<>> /\ Top(t) \in Sync /\ Top(t).entry = TopHandle(t) /\ TopHandle(t) \in Handles
        BY <2>0, <2>8, PlaceFacts, TopHandleOK DEF LocalsOK, Mark, Taken
      <3>2. held' = [held EXCEPT ![t] = Append(@, Top(t))] /\ Top(t).entry # None
        BY <2>8, <3>1, CacheAssumption DEF Mark
      <3>3. StackPlaces(f)' = StackPlaces(f)
        BY <3>1, <3>2, PushPlaces
      <3>4. UNCHANGED <<refcount, fd, fdThing>> /\ pc[t] # "fd_close" /\ pc'[t] # "fd_close"
        BY <2>8 DEF Mark, Goto, TypeOK, cache
      <3> QED
        BY <1>0, <2>1, <2>2, <3>3, <3>4, OwnersSame
    <2>9. CASE Fill(t)
      <3>1. UNCHANGED <<refcount, held, fdThing>> /\ pc[t] # "fd_close" /\ pc'[t] # "fd_close"
        BY <2>9 DEF Fill, Goto, TypeOK, locals
      <3>2. \A h \in Handles : refcount[h] # 0 => fd'[h] = fd[h]
        BY <2>9, FdStays
      <3> QED
        BY <1>0, <2>1, <2>2, <2>3, <3>1, <3>2, OwnersSame
    <2>10. CASE Ask(t)
      <3>1. PICK n \in Fds \cup {BadFd} :
              /\ n \in Fds => fdThing[n] = None
              /\ fdThing' = [g \in Fds |-> IF g = n THEN table[Handle(t)] ELSE fdThing[g]]
              /\ table[Handle(t)] \in Things
              /\ [entry |-> None, fd |-> n, thing |-> table[Handle(t)]] \in Sync
              /\ held' = [held EXCEPT ![t] = Append(@, [entry |-> None, fd |-> n, thing |-> table[Handle(t)]])]
        BY <2>0, <2>10, AskSync
      <3> DEFINE x == [entry |-> None, fd |-> n, thing |-> table[Handle(t)]]
      <3>2. x \in Sync /\ x.entry = None /\ x.fd = n /\ held' = [held EXCEPT ![t] = Append(@, x)]
        BY <3>1
      <3> HIDE DEF x
      <3>3. StackPlaces(f)' = IF n = f THEN StackPlaces(f) \cup {Next1(t)} ELSE StackPlaces(f)
        BY <3>2, PushPlaces
      <3>4. UNCHANGED <<refcount, fd>> /\ pc[t] # "fd_close" /\ pc'[t] # "fd_close"
        BY <2>10 DEF Ask, Goto, TypeOK, cache
      <3>5. EntryOwners(f)' = EntryOwners(f) /\ Closers(f)' = Closers(f)
        BY <2>1, <2>2, <3>4
      <3>6. CASE n = f
        <4>1. EntryOwners(f) = {} /\ StackPlaces(f) = {} /\ Closers(f) = {}
          BY <1>0, <3>1, <3>6, OnlyOwner
        <4>2. StackPlaces(f)' = {Next1(t)} /\ EntryOwners(f)' = {} /\ Closers(f)' = {}
          BY <3>3, <3>5, <3>6, <4>1
        <4>3. fdThing'[f] # None
          BY <3>1, <3>6, CacheAssumption
        <4> QED
          BY <4>2, <4>3, OwnerMoves
      <3>7. CASE n # f
        <4>1. fdThing'[f] = fdThing[f]
          BY <3>1, <3>7
        <4> QED
          BY <1>0, <3>3, <3>5, <3>7, <4>1, OwnersSame
      <3> QED
        BY <3>6, <3>7
    <2>11. CASE Publish(t)
      <3> DEFINE x == [entry |-> TopHandle(t), fd |-> None, thing |-> Top(t).thing]
                 h == TopHandle(t)
      <3>1. held[t] # <<>> /\ Top(t) \in Sync /\ Top(t).entry = None /\ refcount[h] = 0 /\ fd[h] = Top(t).fd
        BY <2>0, <2>11, PlaceFacts DEF LocalsOK, FillOK, Publish, Taken, Filling
      <3>2. h \in Handles
        BY <2>0, <2>11, <3>1, TopHandleOK DEF LocalsOK, Publish, Filling
      <3>3. x \in Sync /\ x.entry # None
        BY <3>1, <3>2, CacheAssumption DEF Sync
      <3>4. /\ SetTop(t, x) /\ UNCHANGED <<fd, fdThing>> /\ pc[t] # "fd_close" /\ pc'[t] # "fd_close"
            /\ refcount' = [refcount EXCEPT ![h] = 2]
        BY <2>11 DEF Publish, Found, Goto, TypeOK
      <3> HIDE DEF x, h
      <3>5. /\ Last(t) \in StackPlaces(f) <=> Top(t).fd = f
            /\ StackPlaces(f)' = StackPlaces(f) \ {Last(t)}
        BY <3>1, <3>3, <3>4, ReplacePlaces
      <3>6. Closers(f)' = Closers(f)
        BY <2>1, <3>4
      <3>7. refcount'[h] # 0 /\ \A g \in Handles \ {h} : refcount'[g] = refcount[g]
        BY <3>2, <3>4 DEF TypeOK
      <3>8. CASE Top(t).fd = f
        <4>1. EntryOwners(f) = {} /\ StackPlaces(f) = {Last(t)} /\ Closers(f) = {} /\ fdThing[f] # None
          BY <1>0, <3>5, <3>8, OnlyOwner
        <4>2. EntryOwners(f)' = {h}
          BY <3>1, <3>2, <3>4, <3>7, <3>8, <4>1 DEF EntryOwners
        <4>3. StackPlaces(f)' = {} /\ Closers(f)' = {} /\ fdThing'[f] # None
          BY <3>4, <3>5, <3>6, <4>1
        <4> QED
          BY <4>2, <4>3, OwnerMoves
      <3>9. CASE Top(t).fd # f
        <4>1. EntryOwners(f)' = EntryOwners(f)
          BY <3>1, <3>4, <3>7, <3>9 DEF EntryOwners
        <4>2. StackPlaces(f)' = StackPlaces(f)
          BY <3>5, <3>9
        <4> QED
          BY <1>0, <3>4, <3>6, <4>1, <4>2, OwnersSame
      <3> QED
        BY <3>8, <3>9
    <2>12. CASE Dec(t)
      <3>1. held[t] # <<>> /\ held' = [held EXCEPT ![t] = Popped(@)] /\ UNCHANGED <<fd, fdThing>> /\ pc[t] = "dec"
        BY <2>0, <2>12 DEF LocalsOK, Dec, Taken
      <3>2. saved[t] = SyncFd(Top(t))
        BY <2>0, <3>1 DEF LocalsOK
      <3>3. /\ Last(t) \in StackPlaces(f) <=> Top(t).entry = None /\ Top(t).fd = f
            /\ StackPlaces(f)' = StackPlaces(f) \ {Last(t)}
        BY <3>1, PopPlaces
      <3>4. CASE Top(t).entry = None
        <4>1. pc'[t] = "fd_close" /\ saved' = saved /\ refcount' = refcount /\ saved[t] = Top(t).fd
          BY <2>12, <3>2, <3>4 DEF Dec, Goto, TypeOK, SyncFd
        <4>2. EntryOwners(f)' = EntryOwners(f)
          BY <2>2, <3>1, <4>1
        <4>3. CASE Top(t).fd = f
          <5>1. EntryOwners(f) = {} /\ StackPlaces(f) = {Last(t)} /\ Closers(f) = {} /\ fdThing[f] # None
            BY <1>0, <3>3, <3>4, <4>3, OnlyOwner
          <5>2. Closers(f)' = {t}
            BY <2>0, <4>1, <4>3, <5>1 DEF Closers, OthersStay
          <5>3. StackPlaces(f)' = {} /\ EntryOwners(f)' = {} /\ fdThing'[f] # None
            BY <3>1, <3>3, <4>2, <5>1
          <5> QED
            BY <5>2, <5>3, OwnerMoves
        <4>4. CASE Top(t).fd # f
          <5>1. Closers(f)' = Closers(f)
            BY <2>0, <3>1, <4>1, <4>4 DEF Closers, OthersStay
          <5>2. StackPlaces(f)' = StackPlaces(f)
            BY <3>3, <4>4
          <5> QED
            BY <1>0, <3>1, <4>2, <5>1, <5>2, OwnersSame
        <4> QED
          BY <4>3, <4>4
      <3>5. CASE Top(t).entry # None
        <4> DEFINE e == Top(t).entry
        <4>1. e \in Handles /\ refcount[e] # 0
          BY <3>1, <3>5, TopCounted
        <4>2. refcount' = [refcount EXCEPT ![e] = refcount[e] - 1]
          BY <2>12, <3>5 DEF Dec
        <4>3. StackPlaces(f)' = StackPlaces(f)
          BY <3>3, <3>5
        <4>4. CASE refcount[e] = 1
          <5>1. pc'[t] = "fd_close" /\ saved' = saved /\ saved[t] = fd[e]
            BY <2>12, <3>2, <3>5, <4>4 DEF Dec, Goto, TypeOK, SyncFd
          <5>2. refcount'[e] = 0 /\ \A g \in Handles \ {e} : refcount'[g] = refcount[g]
            BY <4>1, <4>2, <4>4 DEF TypeOK
          <5> HIDE DEF e
          <5>3. EntryOwners(f)' = EntryOwners(f) \ {e}
            BY <3>1, <4>1, <5>2 DEF EntryOwners
          <5>4. CASE fd[e] = f
            <6>1. e \in EntryOwners(f)
              BY <4>1, <5>4 DEF EntryOwners
            <6>2. EntryOwners(f) = {e} /\ StackPlaces(f) = {} /\ Closers(f) = {} /\ fdThing[f] # None
              BY <1>0, <6>1, OnlyOwner
            <6>3. Closers(f)' = {t}
              BY <2>0, <5>1, <5>4, <6>2 DEF Closers, OthersStay
            <6>4. StackPlaces(f)' = {} /\ EntryOwners(f)' = {} /\ fdThing'[f] # None
              BY <3>1, <4>3, <5>3, <6>2
            <6> QED
              BY <6>3, <6>4, OwnerMoves
          <5>5. CASE fd[e] # f
            <6>1. Closers(f)' = Closers(f)
              BY <2>0, <3>1, <5>1, <5>5 DEF Closers, OthersStay
            <6>2. EntryOwners(f)' = EntryOwners(f)
              BY <5>3, <5>5 DEF EntryOwners
            <6> QED
              BY <1>0, <3>1, <4>3, <6>1, <6>2, OwnersSame
          <5> QED
            BY <5>4, <5>5
        <4>5. CASE refcount[e] # 1
          <5>1. \A g \in Handles : refcount'[g] # 0 <=> refcount[g] # 0
            BY <4>1, <4>2, <4>5 DEF TypeOK
          <5>2. pc'[t] # "fd_close"
            BY <2>12, <3>5, <4>5 DEF Dec, Released, Missed, Goto, TypeOK
          <5>3. Closers(f)' = Closers(f)
            BY <2>1, <3>1, <5>2
          <5> QED
            BY <1>0, <2>2, <3>1, <4>3, <5>1, <5>3, OwnersSame
        <4> QED
          BY <4>4, <4>5
      <3> QED
        BY <3>4, <3>5
    <2>13. CASE FdClose(t)
      <3>1. UNCHANGED <<refcount, fd, held>> /\ pc[t] = "fd_close" /\ pc'[t] # "fd_close"
        BY <2>13 DEF FdClose, Released, Missed, Goto, TypeOK, cache
      <3>2. EntryOwners(f)' = EntryOwners(f) /\ StackPlaces(f)' = StackPlaces(f)
        BY <2>2, <2>3, <3>1
      <3>3. Closers(f)' = Closers(f) \ {t}
        BY <2>0, <3>1 DEF Closers, OthersStay
      <3>4. fdThing'[f] = IF f = saved[t] THEN None ELSE fdThing[f]
        BY <2>13 DEF FdClose
      <3>5. CASE saved[t] = f
        <4>1. t \in Closers(f)
          BY <3>1, <3>5 DEF Closers
        <4>2. EntryOwners(f) = {} /\ StackPlaces(f) = {} /\ Closers(f) = {t}
          BY <1>0, <4>1, OnlyOwner
        <4>3. EntryOwners(f)' = {} /\ StackPlaces(f)' = {} /\ Closers(f)' = {} /\ fdThing'[f] = None
          BY <3>2, <3>3, <3>4, <3>5, <4>2
        <4>4. Owners(f)' = {}
          BY <4>3 DEF Owners
        <4> QED
          BY <4>3, <4>4 DEF FdOK
      <3>6. CASE saved[t] # f
        <4>1. Closers(f)' = Closers(f)
          BY <3>3, <3>6 DEF Closers
        <4> QED
          BY <1>0, <3>2, <3>4, <3>6, <4>1, OwnersSame
      <3> QED
        BY <3>5, <3>6
    <2> QED
      BY <1>2, <2>4, <2>5, <2>6, <2>7, <2>8, <2>9, <2>10, <2>11, <2>12, <2>13 DEF Loud
  <1> QED
    BY <1>1, <1>2, NextSteps

-----------------------------------------------------------------------------
(* What fds denote.                                                        *)

\* An open fd changes only when it is closed, by the one who owns it.
LEMMA ThingStays ==
  ASSUME TypeOK, CallsInv, FdsInv, Next, NEW f \in Fds, fdThing[f] # None, Closers(f) = {}
  PROVE  fdThing'[f] = fdThing[f]
  <1>1. ASSUME NEW g \in Handles, Open(g) PROVE fdThing' = fdThing
    BY <1>1 DEF Open
  <1>2. ASSUME NEW t \in Threads, Quiet(t) PROVE fdThing' = fdThing
    BY <1>2, QuietSteps
  <1>3. ASSUME NEW t \in Threads, Get(t) \/ Check(t) \/ Fill(t) \/ Publish(t) \/ Dec(t) \/ Mark(t) \/ Server(t) PROVE fdThing' = fdThing
    BY <1>3 DEF Get, Check, Fill, Publish, Dec, Mark, Server
  <1>4. ASSUME NEW t \in Threads, Ask(t) PROVE fdThing'[f] = fdThing[f]
    <2>1. LocalsOK(t)
      BY DEF CallsInv
    <2>2. PICK n \in Fds \cup {BadFd} :
              /\ n \in Fds => fdThing[n] = None
              /\ fdThing' = [g \in Fds |-> IF g = n THEN table[Handle(t)] ELSE fdThing[g]]
      BY <1>4, <2>1, AskSync
    <2> QED
      BY <2>2
  <1>5. ASSUME NEW t \in Threads, FdClose(t) PROVE fdThing'[f] = fdThing[f]
    BY <1>5 DEF FdClose, Closers
  <1> QED
    BY <1>1, <1>2, <1>3, <1>4, <1>5, NextSteps DEF Loud

\* So what a held sync or an entry in use denotes stays.
LEMMA EntryStays ==
  ASSUME TypeOK, CallsInv, FdsInv, ClosesInv, Next, NEW h \in Handles, refcount[h] # 0, NEW x, Denotes(fd[h], x)
  PROVE  fd'[h] = fd[h] /\ Denotes(fd[h], x)'
  <1>1. fd'[h] = fd[h]
    BY FdStays
  <1>2. ASSUME fd[h] \in Fds PROVE fdThing'[fd[h]] = fdThing[fd[h]]
    <2>1. FdOK(fd[h]) /\ h \in EntryOwners(fd[h])
      BY <1>2 DEF FdsInv, EntryOwners
    <2>2. fdThing[fd[h]] # None /\ Closers(fd[h]) = {}
      BY <1>2, <2>1, OnlyOwner
    <2> QED
      BY <1>2, <2>2, ThingStays
  <1> QED
    BY <1>1, <1>2 DEF Denotes

LEMMA SyncStays ==
  ASSUME TypeOK, CallsInv, RefsInv, FdsInv, ClosesInv, Next, NEW u \in Threads, NEW k \in 1..Len(held[u]), SyncOK(held[u][k])
  PROVE  SyncOK(held[u][k])' \/ held'[u][k] # held[u][k]
  <1> SUFFICES ASSUME held'[u][k] = held[u][k], held[u][k].thing # None
               PROVE  Denotes(SyncFd(held[u][k]), held[u][k].thing)'
    BY DEF SyncOK
  <1> DEFINE s == held[u][k]
  <1>1. s \in Sync /\ <<u, k>> \in Places /\ s = At(<<u, k>>) /\ Denotes(SyncFd(s), s.thing)
    BY PlaceFacts DEF SyncOK, At
  <1>2. CASE s.entry = None
    <2>1. ASSUME s.fd \in Fds PROVE fdThing'[s.fd] = fdThing[s.fd]
      <3>1. <<u, k>> \in StackPlaces(s.fd) /\ FdOK(s.fd)
        BY <1>1, <1>2, <2>1, PlacesAt DEF FdsInv
      <3>2. fdThing[s.fd] # None /\ Closers(s.fd) = {}
        BY <2>1, <3>1, OnlyOwner
      <3> QED
        BY <2>1, <3>2, ThingStays
    <2> QED
      BY <1>1, <1>2, <2>1 DEF Denotes, SyncFd
  <1>3. CASE s.entry # None
    <2>1. s.entry \in Handles
      BY <1>1, <1>3 DEF Sync
    <2>2. refcount[s.entry] # 0
      BY <2>1, HeldCounted
    <2>3. Denotes(fd[s.entry], s.thing)
      BY <1>1, <1>3 DEF SyncFd
    <2>4. fd'[s.entry] = fd[s.entry] /\ (fd[s.entry] \in Fds => fdThing'[fd[s.entry]] = s.thing)
      BY <2>1, <2>2, <2>3, EntryStays DEF Denotes
    <2> QED
      BY <1>3, <2>4 DEF SyncFd, Denotes
  <1> QED
    BY <1>2, <1>3

\* An entry comes to life when it is published.
LEMMA CountsFrom ==
  ASSUME TypeOK, CallsInv, RefsInv, ClosesInv, Next, NEW h \in Handles, refcount'[h] # 0, refcount[h] = 0
  PROVE  \E t \in Threads : Publish(t) /\ h = TopHandle(t)
  <1>1. ASSUME NEW g \in Handles, Open(g) PROVE FALSE
    BY <1>1 DEF Open, cache
  <1>2. ASSUME NEW t \in Threads, Quiet(t) PROVE FALSE
    BY <1>2, QuietSteps
  <1>3. ASSUME NEW t \in Threads, Loud(t), ~(Publish(t) /\ h = TopHandle(t)) PROVE FALSE
    <2>1. CASE Publish(t)
      BY <1>3, <2>1 DEF Publish, TypeOK
    <2>2. CASE Fill(t) \/ Mark(t) \/ Check(t) \/ Ask(t) \/ FdClose(t) \/ Server(t)
      BY <2>2 DEF Fill, Mark, Check, Ask, FdClose, Server, cache
    <2>3. CASE Get(t)
      BY <2>3 DEF Get, TypeOK
    <2>4. CASE Dec(t)
      <3>1. held[t] # <<>>
        BY <2>4 DEF Dec, CallsInv, LocalsOK, Taken
      <3>2. CASE Top(t).entry = None
        BY <2>4, <3>2 DEF Dec
      <3>3. CASE Top(t).entry # None
        <4>1. Top(t).entry \in Handles /\ refcount[Top(t).entry] # 0
          BY <3>1, <3>3, TopCounted
        <4> QED
          BY <2>4, <3>3, <4>1 DEF Dec, TypeOK
      <3> QED
        BY <3>2, <3>3
    <2> QED
      BY <1>3, <2>1, <2>2, <2>3, <2>4 DEF Loud
  <1> QED
    BY <1>1, <1>2, <1>3, NextSteps

LEMMA ComesAlive ==
  ASSUME TypeOK, CallsInv, RefsInv, ClosesInv, Next, NEW h \in Handles, Live(h)', ~Live(h)
  PROVE  \E t \in Threads : Publish(t) /\ h = TopHandle(t)
  <1>1. CASE refcount[h] = 0
    BY <1>1, CountsFrom DEF Live
  <1>2. CASE refcount[h] # 0
    <2>1. closed[h] /\ ~closed'[h]
      BY <1>2 DEF Live
    <2>2. ASSUME NEW g \in Handles, Open(g) PROVE FALSE
      BY <2>1, <2>2 DEF Open, cache
    <2>3. ASSUME NEW t \in Threads, Quiet(t) PROVE FALSE
      BY <2>1, <2>3, QuietSteps
    <2>4. ASSUME NEW t \in Threads, Fill(t) PROVE FALSE
      <3>1. refcount[TopHandle(t)] = 0
        BY <2>4 DEF ClosesInv, FillOK, Fill
      <3> QED
        BY <1>2, <2>1, <2>4, <3>1 DEF Fill, TypeOK
    <2>5. ASSUME NEW t \in Threads, Loud(t), ~Fill(t) PROVE FALSE
      BY <2>1, <2>5 DEF Loud, Get, Check, Ask, Publish, Dec, FdClose, Mark, Server, cache, TypeOK
    <2> QED
      BY <2>2, <2>3, <2>4, <2>5, NextSteps
  <1> QED
    BY <1>1, <1>2

\* The server's table says the same of an entry that lookups accept.
LEMMA TableStays ==
  ASSUME TypeOK, CallsInv, ClosesInv, Next, NEW h \in Handles, Live(h), table[h] # None
  PROVE  table'[h] = table[h]
  <1>1. ASSUME NEW g \in Handles, Open(g) PROVE table'[h] = table[h]
    BY <1>1 DEF Open, TypeOK
  <1>2. ASSUME NEW t \in Threads, Quiet(t) PROVE table' = table
    BY <1>2, QuietSteps
  <1>3. ASSUME NEW t \in Threads, Server(t) PROVE table'[h] = table[h]
    <2>1. LocalsOK(t) /\ CloseOK(t) /\ pc[t] = "server"
      BY <1>3 DEF CallsInv, ClosesInv, Server
    <2>2. ~Live(hs[t][1])
      BY <2>1 DEF LocalsOK, CloseOK
    <2> QED
      BY <1>3, <2>2 DEF Server, TypeOK
  <1>4. ASSUME NEW t \in Threads, Loud(t), ~Server(t) PROVE table' = table
    BY <1>4 DEF Loud, Get, Check, Ask, Fill, Publish, Dec, FdClose, Mark
  <1> QED
    BY <1>1, <1>2, <1>3, <1>4, NextSteps

LEMMA StepEntries ==
  ASSUME TypeOK, CallsInv, RefsInv, FdsInv, ThingsInv, ClosesInv, Next, NEW h \in Handles
  PROVE  EntryOK(h)'
  <1> SUFFICES ASSUME Live(h)' PROVE (table[h] # None)' /\ Denotes(fd[h], table[h])'
    BY DEF EntryOK
  <1>1. CASE Live(h)
    <2>1. table[h] # None /\ Denotes(fd[h], table[h]) /\ refcount[h] # 0
      BY <1>1 DEF ThingsInv, EntryOK, Live
    <2>2. fd'[h] = fd[h] /\ (fd[h] \in Fds => fdThing'[fd[h]] = table[h])
      BY <2>1, EntryStays DEF Denotes
    <2>3. table'[h] = table[h]
      BY <1>1, <2>1, TableStays
    <2> QED
      BY <2>1, <2>2, <2>3 DEF Denotes
  <1>2. CASE ~Live(h)
    <2>1. PICK t \in Threads : Publish(t) /\ h = TopHandle(t)
      BY <1>2, ComesAlive
    <2>2. LocalsOK(t) /\ FillOK(t) /\ pc[t] = "publish"
      BY <2>1 DEF CallsInv, ClosesInv, Publish
    <2>3. /\ Top(t).entry = None /\ held[t] # <<>> /\ Top(t).thing = table[h] /\ fd[h] = Top(t).fd
      BY <2>1, <2>2 DEF LocalsOK, FillOK, Filling, Taken
    <2>4. Len(held[t]) \in 1..Len(held[t]) /\ Top(t) = held[t][Len(held[t])]
      BY <2>3, PlaceFacts DEF Top
    <2>5. SyncOK(Top(t)) /\ Top(t).thing # None
      BY <2>2, <2>3, <2>4 DEF ThingsInv, LocalsOK
    <2>6. UNCHANGED <<table, fdThing, fd>>
      BY <2>1 DEF Publish
    <2> QED
      BY <2>3, <2>5, <2>6 DEF SyncOK, SyncFd, Denotes
  <1> QED
    BY <1>1, <1>2

LEMMA StepSyncs ==
  ASSUME TypeOK, CallsInv, RefsInv, FdsInv, ThingsInv, ClosesInv, Next, NEW u \in Threads, NEW k \in 1..Len(held'[u])
  PROVE  SyncOK(held[u][k])'
  <1>1. ASSUME k \in 1..Len(held[u]), held'[u][k] = held[u][k] PROVE SyncOK(held[u][k])'
    BY <1>1, SyncStays DEF ThingsInv
  <1>2. ASSUME NEW g \in Handles, Open(g) PROVE SyncOK(held[u][k])'
    BY <1>1, <1>2 DEF Open, locals
  <1>3. ASSUME NEW t \in Threads, Quiet(t) \/ Loud(t) PROVE SyncOK(held[u][k])'
    <2>0. LocalsOK(t) /\ FillOK(t) /\ CloseOK(t) /\ OthersStay(t)
      BY <1>3, StepOthers DEF CallsInv, ClosesInv
    <2>1. CASE u # t
      BY <1>1, <2>0, <2>1 DEF OthersStay
    <2>2. CASE u = t /\ UNCHANGED held
      BY <1>1, <2>2
    <2>3. CASE u = t /\ Dec(t)
      <3>1. held[t] # <<>> /\ held' = [held EXCEPT ![t] = Popped(@)]
        BY <2>0, <2>3 DEF LocalsOK, Dec, Taken
      <3>2. /\ Len(held'[t]) = Len(held[t]) - 1 /\ Len(held[t]) \in Nat \ {0}
            /\ \A j \in 1..Len(held'[t]) : held'[t][j] = held[t][j]
        BY <3>1, Pop
      <3>3. k \in 1..Len(held[t])
        BY <2>3, <3>2
      <3> QED
        BY <1>1, <2>3, <3>2, <3>3
    \* a pushed sync
    <2>4. ASSUME NEW x \in Sync, u = t, held' = [held EXCEPT ![t] = Append(@, x)],
                 x.thing # None => (IF x.entry = None THEN x.fd ELSE fd'[x.entry]) \notin Fds
                                   \/ fdThing'[IF x.entry = None THEN x.fd ELSE fd'[x.entry]] = x.thing
          PROVE  SyncOK(held[u][k])'
      <3>1. /\ Len(held'[t]) = Len(held[t]) + 1 /\ Top(t)' = x /\ Len(held[t]) \in Nat
            /\ \A j \in 1..Len(held[t]) : held'[t][j] = held[t][j]
        BY <2>4, Push, PlaceFacts
      <3>2. CASE k = Len(held'[t])
        BY <2>4, <3>1, <3>2 DEF Top, SyncOK, SyncFd, Denotes
      <3>3. CASE k # Len(held'[t])
        <4>1. k \in 1..Len(held[t])
          BY <2>4, <3>1, <3>3
        <4> QED
          BY <1>1, <2>4, <3>1, <4>1
      <3> QED
        BY <3>2, <3>3
    \* a replaced one
    <2>5. ASSUME NEW x \in Sync, u = t, held[t] # <<>>, SetTop(t, x),
                 x.thing # None => (IF x.entry = None THEN x.fd ELSE fd'[x.entry]) \notin Fds
                                   \/ fdThing'[IF x.entry = None THEN x.fd ELSE fd'[x.entry]] = x.thing
          PROVE  SyncOK(held[u][k])'
      <3>1. /\ Len(held'[t]) = Len(held[t]) /\ Top(t)' = x /\ Len(held[t]) \in Nat
            /\ \A j \in 1..(Len(held[t]) - 1) : held'[t][j] = held[t][j]
        BY <2>5, Replace, PlaceFacts
      <3>2. CASE k = Len(held'[t])
        BY <2>5, <3>1, <3>2 DEF Top, SyncOK, SyncFd, Denotes
      <3>3. CASE k # Len(held'[t])
        <4>1. k \in 1..Len(held[t]) /\ k \in 1..(Len(held[t]) - 1)
          BY <2>5, <3>1, <3>3
        <4> QED
          BY <1>1, <2>5, <3>1, <4>1
      <3> QED
        BY <3>2, <3>3
    <2>6. CASE u = t /\ Get(t)
      <3> DEFINE x == [entry |-> Handle(t), fd |-> None, thing |-> None]
      <3>1. x \in Sync /\ x.thing = None
        BY <2>0, <2>6, TopHandleOK DEF LocalsOK, Get, Sync
      <3>2. held' = [held EXCEPT ![t] = Append(@, x)]
        BY <2>6 DEF Get
      <3> HIDE DEF x
      <3> QED
        BY <2>4, <2>6, <3>1, <3>2
    <2>7. CASE u = t /\ Ask(t)
      <3>1. PICK n \in Fds \cup {BadFd} :
              /\ fdThing' = [g \in Fds |-> IF g = n THEN table[Handle(t)] ELSE fdThing[g]]
              /\ [entry |-> None, fd |-> n, thing |-> table[Handle(t)]] \in Sync
              /\ held' = [held EXCEPT ![t] = Append(@, [entry |-> None, fd |-> n, thing |-> table[Handle(t)]])]
        BY <2>0, <2>7, AskSync
      <3> DEFINE x == [entry |-> None, fd |-> n, thing |-> table[Handle(t)]]
      <3>2. x \in Sync /\ x.entry = None /\ x.fd = n /\ x.thing = table[Handle(t)] /\ held' = [held EXCEPT ![t] = Append(@, x)]
        BY <3>1
      <3>3. n \in Fds => fdThing'[n] = table[Handle(t)]
        BY <3>1
      <3> HIDE DEF x
      <3> QED
        BY <2>4, <2>7, <3>2, <3>3
    <2>8. CASE u = t /\ Mark(t)
      <3>1. held[t] # <<>> /\ Top(t) \in Sync /\ held' = [held EXCEPT ![t] = Append(@, Top(t))] /\ UNCHANGED <<fd, fdThing>>
        BY <2>0, <2>8, PlaceFacts DEF LocalsOK, Mark, Taken
      <3>2. SyncOK(Top(t))
        BY <3>1, PlaceFacts DEF ThingsInv, Top
      <3>3. Top(t).thing # None => SyncFd(Top(t)) \notin Fds \/ fdThing'[SyncFd(Top(t))] = Top(t).thing
        BY <3>1, <3>2 DEF SyncOK, Denotes
      <3>4. SyncFd(Top(t)) = IF Top(t).entry = None THEN Top(t).fd ELSE fd'[Top(t).entry]
        BY <3>1 DEF SyncFd
      <3> QED
        BY <2>4, <2>8, <3>1, <3>3, <3>4
    <2>9. CASE u = t /\ Check(t)
      <3> DEFINE h == TopHandle(t)
                 x == [Top(t) EXCEPT !.thing = table[h]]
      <3>1. held[t] # <<>> /\ Top(t) \in Sync /\ Top(t).entry = h /\ h \in Handles /\ h # None
        BY <2>0, <2>9, PlaceFacts, TopHandleOK, CacheAssumption DEF LocalsOK, Check, Taken
      <3>2. x \in Sync /\ x.entry = h /\ x.thing = table[h]
        BY <3>1 DEF Sync, TypeOK
      <3>3. SetTop(t, x) /\ UNCHANGED <<fd, fdThing>> /\ ~closed[h]
        BY <2>9, <3>1 DEF Check, cache
      <3>4. Live(h)
        BY <3>1, <3>3, TopCounted DEF Live
      <3> HIDE DEF x, h
      <3>5. fd[h] \in Fds => fdThing[fd[h]] = table[h]
        BY <3>1, <3>4 DEF ThingsInv, EntryOK, Denotes
      <3> QED
        BY <2>5, <2>9, <3>1, <3>2, <3>3, <3>5
    <2>10. CASE u = t /\ Publish(t)
      <3> DEFINE h == TopHandle(t)
                 x == [entry |-> h, fd |-> None, thing |-> Top(t).thing]
      <3>1. held[t] # <<>> /\ Top(t) \in Sync /\ Top(t).entry = None /\ fd[h] = Top(t).fd
        BY <2>0, <2>10, PlaceFacts DEF LocalsOK, FillOK, Publish, Taken, Filling
      <3>2. h \in Handles /\ h # None
        BY <2>0, <2>10, <3>1, TopHandleOK, CacheAssumption DEF LocalsOK, Publish, Filling
      <3>3. x \in Sync /\ x.entry = h /\ x.thing = Top(t).thing
        BY <3>1, <3>2 DEF Sync
      <3>4. SetTop(t, x) /\ UNCHANGED <<fd, fdThing>>
        BY <2>10 DEF Publish
      <3>5. SyncOK(Top(t))
        BY <3>1, PlaceFacts DEF ThingsInv, Top
      <3>6. Top(t).thing # None => Top(t).fd \notin Fds \/ fdThing[Top(t).fd] = Top(t).thing
        BY <3>1, <3>5 DEF SyncOK, SyncFd, Denotes
      <3> HIDE DEF x, h
      <3> QED
        BY <2>5, <2>10, <3>1, <3>2, <3>3, <3>4, <3>6
    <2>11. Quiet(t) \/ Fill(t) \/ FdClose(t) \/ Server(t) => UNCHANGED held
      BY QuietSteps DEF Fill, FdClose, Server, locals
    <2> QED
      BY <1>3, <2>1, <2>2, <2>3, <2>6, <2>7, <2>8, <2>9, <2>10, <2>11 DEF Loud
  <1> QED
    BY <1>2, <1>3, NextSteps

-----------------------------------------------------------------------------
(* The theorems.                                                           *)

LEMMA CacheInit == Init => CacheInv
  <1> SUFFICES ASSUME Init PROVE CacheInv
    OBVIOUS
  <1> USE DEF Init
  <1>1. TypeOK
    BY CacheAssumption DEF TypeOK, PCs
  <1>2. \A t \in Threads : held[t] = <<>> /\ Len(held[t]) = 0 /\ Len(hs[t]) = 0 /\ 1..Len(held[t]) = {}
    <2>1. Len(<<>>) = 0 /\ 1..0 = {}
      OBVIOUS
    <2>2. \A t \in Threads : held[t] = <<>> /\ hs[t] = <<>>
      OBVIOUS
    <2> QED
      BY <2>1, <2>2, Zenon
  <1>3. Places = {}
    BY <1>2 DEF Places
  <1>4. CallsInv
    <2>1. ASSUME NEW t \in Threads PROVE LocalsOK(t) /\ MutexOK(t)
      <3>1. pc[t] = "idle" /\ fn[t] = "use" /\ ~finding[t] /\ mutex # t
        BY CacheAssumption
      <3>2. held[t] = <<>> /\ 1..Len(held[t]) = {} /\ Len(held[t]) <= Len(hs[t])
        BY <1>2
      <3> QED
        BY <3>1, <3>2 DEF LocalsOK, MutexOK, Filling, Releasing, Taken
    <2> QED
      BY <2>1 DEF CallsInv
  <1>5. RefsInv
    <2>1. \A h \in Handles : Refs(h) = {} /\ ~Live(h) /\ refcount[h] = 0
      BY <1>3 DEF Refs, Live
    <2>2. IsFiniteSet({}) /\ Cardinality({}) = 0
      BY FS_EmptySet
    <2>3. \A h \in Handles : IsFiniteSet(Refs(h)) /\ Cardinality(Refs(h)) = 0
      BY <2>1, <2>2
    <2> QED
      BY <2>1, <2>3 DEF RefsInv, RefsOK
  <1>6. FdsInv
    <2>1. ASSUME NEW f \in Fds PROVE EntryOwners(f) = {} /\ StackPlaces(f) = {} /\ Closers(f) = {} /\ fdThing[f] = None
      BY <1>3 DEF EntryOwners, StackPlaces, Closers
    <2>2. \A f \in Fds : Owners(f) = {} /\ fdThing[f] = None
      BY <2>1, OwnerIs
    <2> QED
      BY <2>2 DEF FdsInv, FdOK
  <1>7. ThingsInv
    BY <1>2 DEF ThingsInv, EntryOK, Live
  <1>8. ClosesInv
    BY DEF ClosesInv, FillOK, CloseOK, Filling, Releasing
  <1> QED
    BY <1>1, <1>4, <1>5, <1>6, <1>7, <1>8 DEF CacheInv

LEMMA CacheStep == CacheInv /\ [Next]_vars => CacheInv'
  <1> SUFFICES ASSUME CacheInv, [Next]_vars PROVE CacheInv'
    OBVIOUS
  <1>1. CASE Next
    <2>1. TypeOK /\ CallsInv /\ RefsInv /\ FdsInv /\ ThingsInv /\ ClosesInv
      BY DEF CacheInv
    <2>2. TypeOK' /\ CallsInv' /\ RefsInv' /\ FdsInv' /\ ClosesInv'
      BY <1>1, <2>1, StepTypes, StepCalls, StepRefs, StepFds, StepCloses
    <2>3. ThingsInv'
      BY <1>1, <2>1, StepEntries, StepSyncs DEF ThingsInv
    <2> QED
      BY <2>2, <2>3 DEF CacheInv
  <1>2. CASE UNCHANGED vars
    <2>1. UNCHANGED <<table, fdThing, refcount, fd, closed, mutex, pc, fn, hs, held, finding, saved>>
      BY <1>2 DEF vars, cache, locals
    <2>2. TypeOK' /\ CallsInv'
      BY <2>1 DEF CacheInv, TypeOK, CallsInv, LocalsOK, MutexOK, SyncFd, Top, TopHandle, Room
    <2>3. RefsInv'
      BY <2>1 DEF CacheInv, RefsInv, RefsOK, Refs, Places, Live
    <2>4. FdsInv'
      BY <2>1 DEF CacheInv, FdsInv, FdOK, Owners, EntryOwners, StackPlaces, Places, Closers
    <2>5. ThingsInv'
      BY <2>1 DEF CacheInv, ThingsInv, SyncOK, EntryOK, Denotes, SyncFd, Live
    <2>6. ClosesInv'
      BY <2>1 DEF CacheInv, ClosesInv, FillOK, CloseOK, Live, Top, TopHandle
    <2> QED
      BY <2>2, <2>3, <2>4, <2>5, <2>6 DEF CacheInv
  <1> QED
    BY <1>1, <1>2

LEMMA CacheAlwaysInv == Spec => []CacheInv
  BY CacheInit, CacheStep, PTL DEF Spec

\* The types of the cache and of the locals of the calls; in particular the
\* assertion of release_inproc_sync that no reference count is ever negative.
THEOREM CacheTypes == Spec => []TypeOK
  <1>1. CacheInv => TypeOK
    BY DEF CacheInv
  <1> QED
    BY <1>1, CacheAlwaysInv, PTL

\* Every open fd has exactly one owner and every closed one none, whatever
\* lookups, fills, closes and reuses of handle values interleave, and even
\* when the process runs out of fds.
THEOREM FdsHaveOneOwner == Spec => []OneOwner
  <1>1. CacheInv => OneOwner
    <2> SUFFICES ASSUME CacheInv, NEW f \in Fds
                 PROVE  /\ fdThing[f] # None <=> EntryOwners(f) # {} \/ StackOwners(f) # {}
                        /\ \A h, g \in EntryOwners(f) : h = g
                        /\ \A t, u \in StackOwners(f) : t = u
                        /\ EntryOwners(f) = {} \/ StackOwners(f) = {}
      BY DEF OneOwner
    <2>1. TypeOK /\ FdOK(f)
      BY DEF CacheInv, FdsInv
    <2>2. \A t \in Threads : t \in StackOwners(f) <=> (\E r \in StackPlaces(f) : r[1] = t) \/ t \in Closers(f)
      <3> TAKE t \in Threads
      <3>1. \A k \in 1..Len(held[t]) : k \in Nat
        BY PlaceFacts, <2>1
      <3>2. (\E r \in StackPlaces(f) : r[1] = t) <=> \E k \in 1..Len(held[t]) : held[t][k].entry = None /\ held[t][k].fd = f
        <4>1. ASSUME NEW k \in 1..Len(held[t]), held[t][k].entry = None, held[t][k].fd = f PROVE \E r \in StackPlaces(f) : r[1] = t
          <5>1. <<t, k>> \in StackPlaces(f)
            BY <3>1, <4>1 DEF StackPlaces, Places
          <5> QED
            BY <5>1
        <4>2. ASSUME NEW r \in StackPlaces(f), r[1] = t PROVE \E k \in 1..Len(held[t]) : held[t][k].entry = None /\ held[t][k].fd = f
          BY <4>2 DEF StackPlaces, Places
        <4> QED
          BY <4>1, <4>2
      <3> QED
        BY <3>2 DEF StackOwners, Closers
    <2>3. StackOwners(f) \subseteq Threads /\ \A r \in StackPlaces(f) : r[1] \in Threads
      BY DEF StackOwners, StackPlaces, Places
    <2>4. StackOwners(f) = {} <=> StackPlaces(f) = {} /\ Closers(f) = {}
      BY <2>2, <2>3 DEF Closers
    <2>5. fdThing[f] # None <=> EntryOwners(f) # {} \/ StackOwners(f) # {}
      BY <2>1, <2>4, OwnerIs DEF FdOK
    <2>6. \A h, g \in EntryOwners(f) : h = g
      BY <2>1, OnlyOwner
    <2>7. \A t, u \in StackOwners(f) : t = u
      BY <2>1, <2>2, <2>3, OnlyOwner
    <2>8. EntryOwners(f) = {} \/ StackOwners(f) = {}
      BY <2>1, <2>4, OnlyOwner
    <2> QED
      BY <2>5, <2>6, <2>7, <2>8
  <1> QED
    BY <1>1, CacheAlwaysInv, PTL

\* What a call holds a sync of is never closed under it and its fd never
\* comes to denote another thing, even when the process runs out of fds.
THEOREM HeldNeverRecycled ==
  Spec => []\A t \in Threads : \A k \in 1..Len(held[t]) : SyncOK(held[t][k])
  <1>1. CacheInv => \A t \in Threads : \A k \in 1..Len(held[t]) : SyncOK(held[t][k])
    BY DEF CacheInv, ThingsInv
  <1> QED
    BY <1>1, CacheAlwaysInv, PTL

\* As long as there are fds left, no sync is without one.
Filled == \A h \in Handles : refcount[h] # 0 => fd[h] \in Fds
Opened == \A t \in Threads : \A k \in 1..Len(held[t]) : held[t][k].entry = None => held[t][k].fd \in Fds
NoBadFd == Filled /\ Opened

LEMMA NoBadStep ==
  ASSUME CacheInv, FdsSuffice, NoBadFd, [Next]_vars
  PROVE  NoBadFd'
  <1>0. TypeOK /\ CallsInv /\ RefsInv /\ ClosesInv
    BY DEF CacheInv
  <1>1. CASE UNCHANGED vars
    BY <1>1 DEF NoBadFd, Filled, Opened, vars, cache, locals
  <1>2. CASE Next
    <2>1. Filled'
      <3> SUFFICES ASSUME NEW h \in Handles, refcount'[h] # 0 PROVE fd'[h] \in Fds
        BY DEF Filled
      <3>1. CASE refcount[h] # 0
        BY <1>0, <1>2, <3>1, FdStays DEF NoBadFd, Filled
      <3>2. CASE refcount[h] = 0
        <4>1. PICK t \in Threads : Publish(t) /\ h = TopHandle(t)
          BY <1>0, <1>2, <3>2, CountsFrom
        <4>2. LocalsOK(t) /\ FillOK(t) /\ pc[t] = "publish"
          BY <1>0, <4>1 DEF CallsInv, ClosesInv, Publish
        <4>3. Top(t).entry = None /\ held[t] # <<>> /\ fd[h] = Top(t).fd
          BY <4>1, <4>2 DEF LocalsOK, FillOK, Filling, Taken
        <4>4. Len(held[t]) \in 1..Len(held[t]) /\ Top(t) = held[t][Len(held[t])]
          BY <1>0, <4>3, PlaceFacts DEF Top
        <4>5. fd' = fd
          BY <4>1 DEF Publish
        <4> QED
          BY <4>3, <4>4, <4>5 DEF NoBadFd, Opened
      <3> QED
        BY <3>1, <3>2
    <2>2. Opened'
      <3> SUFFICES ASSUME NEW u \in Threads, NEW k \in 1..Len(held'[u]), held'[u][k].entry = None PROVE held'[u][k].fd \in Fds
        BY DEF Opened
      <3>1. ASSUME k \in 1..Len(held[u]), held'[u][k] = held[u][k] PROVE held'[u][k].fd \in Fds
        BY <3>1 DEF NoBadFd, Opened
      <3>2. ASSUME NEW g \in Handles, Open(g) PROVE held'[u][k].fd \in Fds
        BY <3>1, <3>2 DEF Open, locals
      <3>3. ASSUME NEW t \in Threads, Quiet(t) \/ Loud(t) PROVE held'[u][k].fd \in Fds
        <4>0. LocalsOK(t) /\ OthersStay(t)
          BY <1>0, <3>3, StepOthers DEF CallsInv
        <4>1. CASE u # t
          BY <3>1, <4>0, <4>1 DEF OthersStay
        <4>2. CASE u = t /\ UNCHANGED held
          BY <3>1, <4>2
        <4>3. CASE u = t /\ Dec(t)
          <5>1. held[t] # <<>> /\ held' = [held EXCEPT ![t] = Popped(@)]
            BY <4>0, <4>3 DEF LocalsOK, Dec, Taken
          <5>2. /\ Len(held'[t]) = Len(held[t]) - 1 /\ Len(held[t]) \in Nat \ {0}
                /\ \A j \in 1..Len(held'[t]) : held'[t][j] = held[t][j]
            BY <1>0, <5>1, Pop
          <5>3. k \in 1..Len(held[t])
            BY <4>3, <5>2
          <5> QED
            BY <3>1, <4>3, <5>2, <5>3
        <4>4. ASSUME NEW x \in Sync, u = t, held' = [held EXCEPT ![t] = Append(@, x)], x.entry = None => x.fd \in Fds
              PROVE  held'[u][k].fd \in Fds
          <5>1. /\ Len(held'[t]) = Len(held[t]) + 1 /\ Top(t)' = x /\ Len(held[t]) \in Nat
                /\ \A j \in 1..Len(held[t]) : held'[t][j] = held[t][j]
            BY <1>0, <4>4, Push, PlaceFacts
          <5>2. CASE k = Len(held'[t])
            BY <4>4, <5>1, <5>2 DEF Top
          <5>3. CASE k # Len(held'[t])
            <6>1. k \in 1..Len(held[t])
              BY <4>4, <5>1, <5>3
            <6> QED
              BY <3>1, <4>4, <5>1, <6>1
          <5> QED
            BY <5>2, <5>3
        <4>5. ASSUME NEW x \in Sync, u = t, held[t] # <<>>, SetTop(t, x), x.entry # None
              PROVE  held'[u][k].fd \in Fds
          <5>1. /\ Len(held'[t]) = Len(held[t]) /\ Top(t)' = x /\ Len(held[t]) \in Nat
                /\ \A j \in 1..(Len(held[t]) - 1) : held'[t][j] = held[t][j]
            BY <1>0, <4>5, Replace, PlaceFacts
          <5>2. CASE k = Len(held'[t])
            BY <4>5, <5>1, <5>2 DEF Top
          <5>3. CASE k # Len(held'[t])
            <6>1. k \in 1..Len(held[t]) /\ k \in 1..(Len(held[t]) - 1)
              BY <4>5, <5>1, <5>3
            <6> QED
              BY <3>1, <4>5, <5>1, <6>1
          <5> QED
            BY <5>2, <5>3
        <4>6. CASE u = t /\ Get(t)
          <5> DEFINE x == [entry |-> Handle(t), fd |-> None, thing |-> None]
          <5>1. x \in Sync /\ x.entry # None
            BY <1>0, <4>0, <4>6, TopHandleOK, CacheAssumption DEF LocalsOK, Get, Sync
          <5>2. held' = [held EXCEPT ![t] = Append(@, x)]
            BY <4>6 DEF Get
          <5> HIDE DEF x
          <5> QED
            BY <4>4, <4>6, <5>1, <5>2
        <4>7. CASE u = t /\ Ask(t)
          <5>1. PICK n \in Fds \cup {BadFd} :
                  /\ [entry |-> None, fd |-> n, thing |-> table[Handle(t)]] \in Sync
                  /\ held' = [held EXCEPT ![t] = Append(@, [entry |-> None, fd |-> n, thing |-> table[Handle(t)]])]
                  /\ n \in Fds
            BY <1>0, <4>0, <4>7, AskSync DEF FdsSuffice
          <5> DEFINE x == [entry |-> None, fd |-> n, thing |-> table[Handle(t)]]
          <5>2. x \in Sync /\ x.fd \in Fds /\ held' = [held EXCEPT ![t] = Append(@, x)]
            BY <5>1
          <5> HIDE DEF x
          <5> QED
            BY <4>4, <4>7, <5>2
        <4>8. CASE u = t /\ Mark(t)
          <5>1. /\ held[t] # <<>> /\ Top(t) \in Sync /\ Top(t).entry = TopHandle(t) /\ TopHandle(t) \in Handles
                /\ held' = [held EXCEPT ![t] = Append(@, Top(t))]
            BY <1>0, <4>0, <4>8, PlaceFacts, TopHandleOK DEF LocalsOK, Mark, Taken
          <5>2. Top(t).entry # None
            BY <5>1, CacheAssumption
          <5> QED
            BY <4>4, <4>8, <5>1, <5>2
        <4>9. CASE u = t /\ Check(t)
          <5> DEFINE x == [Top(t) EXCEPT !.thing = table[Top(t).entry]]
          <5>1. held[t] # <<>> /\ Top(t) \in Sync /\ Top(t).entry = TopHandle(t) /\ TopHandle(t) \in Handles
            BY <1>0, <4>0, <4>9, PlaceFacts, TopHandleOK DEF LocalsOK, Check, Taken
          <5>2. x \in Sync /\ x.entry = TopHandle(t)
            BY <1>0, <5>1 DEF Sync, TypeOK
          <5>3. SetTop(t, x) /\ TopHandle(t) # None
            BY <4>9, <5>1, CacheAssumption DEF Check
          <5> HIDE DEF x
          <5> QED
            BY <4>5, <4>9, <5>1, <5>2, <5>3
        <4>10. CASE u = t /\ Publish(t)
          <5> DEFINE x == [entry |-> TopHandle(t), fd |-> None, thing |-> Top(t).thing]
          <5>1. held[t] # <<>> /\ Top(t) \in Sync /\ TopHandle(t) \in Handles
            BY <1>0, <4>0, <4>10, PlaceFacts, TopHandleOK DEF LocalsOK, Publish, Taken, Filling
          <5>2. x \in Sync /\ x.entry # None
            BY <5>1, CacheAssumption DEF Sync
          <5>3. SetTop(t, x)
            BY <4>10 DEF Publish
          <5> HIDE DEF x
          <5> QED
            BY <4>5, <4>10, <5>1, <5>2, <5>3
        <4>11. Quiet(t) \/ Fill(t) \/ FdClose(t) \/ Server(t) => UNCHANGED held
          BY <1>0, QuietSteps DEF Fill, FdClose, Server, locals
        <4> QED
          BY <3>3, <4>1, <4>2, <4>3, <4>6, <4>7, <4>8, <4>9, <4>10, <4>11 DEF Loud
      <3> QED
        BY <1>2, <3>2, <3>3, NextSteps
    <2> QED
      BY <2>1, <2>2 DEF NoBadFd
  <1> QED
    BY <1>1, <1>2

LEMMA AlwaysFds == Spec /\ []FdsSuffice => [](CacheInv /\ NoBadFd)
  <1>1. Init => NoBadFd
    <2> SUFFICES ASSUME Init PROVE NoBadFd
      OBVIOUS
    <2>1. Filled
      BY DEF Init, Filled
    <2>2. \A t \in Threads : held[t] = <<>>
      BY DEF Init
    <2>3. 1..Len(<<>>) = {}
      OBVIOUS
    <2> QED
      BY <2>1, <2>2, <2>3 DEF NoBadFd, Opened
  <1>2. CacheInv /\ FdsSuffice /\ NoBadFd /\ [Next]_vars => NoBadFd'
    BY NoBadStep
  <1> QED
    BY <1>1, <1>2, CacheAlwaysInv, PTL DEF Spec

\* In a process that never runs out of fds, what a call holds a sync of is
\* open and is what its handle denoted when the call looked it up.
THEOREM HeldFdsStayOpen == Spec /\ []FdsSuffice => []HeldStaysOpen
  <1>1. ASSUME CacheInv, NoBadFd PROVE HeldStaysOpen
    <2> SUFFICES ASSUME NEW t \in Threads, NEW k \in 1..Len(held[t]), held[t][k].thing # None
                 PROVE  SyncFd(held[t][k]) \in Fds /\ fdThing[SyncFd(held[t][k])] = held[t][k].thing
      BY DEF HeldStaysOpen
    <2>1. TypeOK /\ RefsInv /\ SyncOK(held[t][k]) /\ held[t][k] \in Sync
      BY <1>1, PlaceFacts DEF CacheInv, ThingsInv
    <2>2. SyncFd(held[t][k]) \in Fds
      <3>1. CASE held[t][k].entry = None
        BY <1>1, <3>1 DEF NoBadFd, Opened, SyncFd
      <3>2. CASE held[t][k].entry # None
        <4>1. held[t][k].entry \in Handles
          BY <2>1, <3>2 DEF Sync
        <4>2. refcount[held[t][k].entry] # 0
          BY <2>1, <4>1, HeldCounted
        <4> QED
          BY <1>1, <3>2, <4>1, <4>2 DEF NoBadFd, Filled, SyncFd
      <3> QED
        BY <3>1, <3>2
    <2> QED
      BY <2>1, <2>2 DEF SyncOK, Denotes
  <1> QED
    BY <1>1, AlwaysFds, PTL

\* Nor does such a process ever find in the cache what the server would
\* not say of the handle.
THEOREM LiveEntriesCoherent == Spec /\ []FdsSuffice => []CacheCoherent
  <1>1. ASSUME CacheInv, NoBadFd PROVE CacheCoherent
    <2> SUFFICES ASSUME NEW h \in Handles, Live(h)
                 PROVE  table[h] # None /\ fd[h] \in Fds /\ fdThing[fd[h]] = table[h]
      BY DEF CacheCoherent
    <2>1. EntryOK(h) /\ refcount[h] # 0
      BY <1>1 DEF CacheInv, ThingsInv, Live
    <2>2. fd[h] \in Fds
      BY <1>1, <2>1 DEF NoBadFd, Filled
    <2> QED
      BY <2>1, <2>2 DEF EntryOK, Denotes
  <1> QED
    BY <1>1, AlwaysFds, PTL

=============================================================================
