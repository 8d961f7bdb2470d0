---------------------------- MODULE InprocCache -----------------------------
(***************************************************************************)
(* The handle cache of the in-process synchronization objects              *)
(* (dlls/ntdll/unix/sync.c), which NtClose and NtDuplicateObject           *)
(* (dlls/ntdll/unix/server.c) empty.                                       *)
(*                                                                         *)
(* A call looks up each of its handles, uses what it found and releases    *)
(* it.  Lookups take no lock: they raise a reference count that is not     *)
(* zero.  A lookup that misses asks the server and fills the cache under   *)
(* fd_cache_mutex, which a close holds around both the cache and the       *)
(* server's table.  Every access to a field of a cache entry that other    *)
(* threads may touch is a step.                                            *)
(***************************************************************************)
EXTENDS Integers, Sequences

CONSTANTS
    Threads,
    Handles,     \* handle values, each with its own cache entry
    Uncached,    \* those the cache has no room for, and pseudo-handles
    Things,      \* what a handle may denote: an object with access rights
    MaxFds,      \* the number of unix fds the process may have open
    Uses,        \* [Threads -> SUBSET Seq(Handles)]: the calls on handles
    Closes,      \* [Threads -> SUBSET Handles]: the closes
    None

ASSUME CacheAssumption ==
    /\ None \notin Threads \cup Handles \cup Things
    /\ Uncached \subseteq Handles
    /\ MaxFds \in Nat
    /\ \A t \in Threads : /\ \A s \in Uses[t] : s \in Seq(Handles) /\ Len(s) > 0
                          /\ Closes[t] \subseteq Handles

Fds == 1..MaxFds
BadFd == -1

VARIABLES
    table,       \* the server's handle table
    fdThing,     \* what each unix fd refers to
    \* inproc_sync_cache: sync->shm lives and dies with sync->fd, access
    \* rights are part of the thing
    refcount, fd, closed,
    mutex,       \* fd_cache_mutex
    \* where each thread is, and the locals of its call
    pc,
    fn,          \* "use" or "close"
    hs,          \* the handles of the call
    held,        \* the syncs it has references to, in the order it took them
    finding,     \* whether a release belongs to a lookup that found a closed entry
    saved        \* the fd that release_inproc_sync saved

cache == <<refcount, fd, closed>>
locals == <<fn, hs, held, finding, saved>>
vars == <<table, fdThing, cache, mutex, pc, locals>>

\* A sync is a cache entry, or lives on the stack with an fd of its own.
\* "thing" is what its handle denoted when the lookup returned it.
Sync == [entry : Handles \cup {None}, fd : Fds \cup {BadFd, None}, thing : Things \cup {None}]
SyncFd(s) == IF s.entry = None THEN s.fd ELSE fd[s.entry]

Init ==
    /\ table = [h \in Handles |-> None]
    /\ fdThing = [f \in Fds |-> None]
    /\ refcount = [h \in Handles |-> 0]
    /\ fd = [h \in Handles |-> BadFd]
    /\ closed = [h \in Handles |-> FALSE]
    /\ mutex = None
    /\ pc = [t \in Threads |-> "idle"]
    /\ fn = [t \in Threads |-> "use"]
    /\ hs = [t \in Threads |-> <<>>]
    /\ held = [t \in Threads |-> <<>>]
    /\ finding = [t \in Threads |-> FALSE]
    /\ saved = [t \in Threads |-> BadFd]

Goto(t, l) == pc' = [pc EXCEPT ![t] = l]
\* The handle being looked up, and the sync taken last.
Handle(t) == hs[t][Len(held[t]) + 1]
Top(t) == held[t][Len(held[t])]
Popped(s) == SubSeq(s, 1, Len(s) - 1)
SetTop(t, s) == held' = [held EXCEPT ![t] = Append(Popped(@), s)]

\* fd_cache_mutex is left together with the step before.
LeaveMutex(t) == mutex' = IF mutex = t THEN None ELSE mutex

-----------------------------------------------------------------------------
(* Calls.                                                                  *)

\* Any request that creates a handle: the server picks a free one.
Open(h) ==
    /\ table[h] = None
    /\ \E x \in Things : table' = [table EXCEPT ![h] = x]
    /\ UNCHANGED <<fdThing, cache, mutex, pc, locals>>

\* inproc_wait, inproc_signal_and_wait and the calls on one object.
BeginUse(t) ==
    /\ pc[t] = "idle"
    /\ \E s \in Uses[t] : hs' = [hs EXCEPT ![t] = s]
    /\ fn' = [fn EXCEPT ![t] = "use"]
    /\ Goto(t, "get")
    /\ UNCHANGED <<table, fdThing, cache, mutex, held, finding, saved>>

\* NtClose, NtDuplicateObject with DUPLICATE_CLOSE_SOURCE, and the requests
\* that close a handle when they have its result.
BeginClose(t) ==
    /\ pc[t] = "idle"
    /\ \E h \in Closes[t] : hs' = [hs EXCEPT ![t] = <<h>>]
    /\ fn' = [fn EXCEPT ![t] = "close"]
    /\ Goto(t, "enter")
    /\ UNCHANGED <<table, fdThing, cache, mutex, held, finding, saved>>

Enter(t) ==
    /\ pc[t] = "enter"
    /\ mutex = None
    /\ mutex' = t
    /\ Goto(t, "get")
    /\ UNCHANGED <<table, fdThing, cache, locals>>

-----------------------------------------------------------------------------
(* get_cached_inproc_sync and get_inproc_sync.                             *)

\* Nothing cached: look again under the mutex; then ask the server, or go on
\* to close the handle.
Missed(t) ==
    Goto(t, IF mutex # t THEN "enter" ELSE IF fn[t] = "use" THEN "ask" ELSE "server")

\* Mutant: the reference is not counted.
GetUncounted(t) ==
    LET h == Handle(t)
    IN  /\ pc[t] = "get"
        /\ refcount[h] # 0
        /\ held' = [held EXCEPT ![t] = Append(@, [entry |-> h, fd |-> None, thing |-> None])]
        /\ Goto(t, "check")
        /\ UNCHANGED <<table, fdThing, cache, mutex, fn, hs, finding, saved>>

\* interlocked_inc_if_nonzero
Get(t) ==
    LET h == Handle(t)
    IN  /\ pc[t] = "get"
        /\ refcount[h] # 0
        /\ refcount' = [refcount EXCEPT ![h] = @ + 1]
        /\ held' = [held EXCEPT ![t] = Append(@, [entry |-> h, fd |-> None, thing |-> None])]
        /\ Goto(t, "check")
        /\ UNCHANGED <<table, fdThing, fd, closed, mutex, fn, hs, finding, saved>>

GetNothing(t) ==
    /\ pc[t] = "get"
    /\ refcount[Handle(t)] = 0
    /\ Missed(t)
    /\ UNCHANGED <<table, fdThing, cache, mutex, locals>>

\* get_inproc_sync has a sync: on to the next handle, to the call itself, or
\* back, if the type or the access is not what the call needs.
Found(t) ==
    /\ \/ Len(hs[t]) > Len(held'[t]) /\ Goto(t, "get")
       \/ Len(hs[t]) = Len(held'[t]) /\ Goto(t, "use")
       \/ Goto(t, "save")
    /\ LeaveMutex(t)

\* Mutant: a closed entry is as good as any.
CheckNothing(t) ==
    LET s == Top(t)
    IN  /\ pc[t] = "check"
        /\ SetTop(t, [s EXCEPT !.thing = table[s.entry]])
        /\ IF fn[t] = "use" THEN Found(t) ELSE Goto(t, "mark") /\ UNCHANGED mutex
        /\ UNCHANGED <<table, fdThing, cache, fn, hs, finding, saved>>

\* cache->closed is clear: the entry is that of the handle.
Check(t) ==
    LET s == Top(t)
    IN  /\ pc[t] = "check"
        /\ ~closed[s.entry]
        /\ SetTop(t, [s EXCEPT !.thing = table[s.entry]])
        /\ IF fn[t] = "use" THEN Found(t) ELSE Goto(t, "mark") /\ UNCHANGED mutex
        /\ UNCHANGED <<table, fdThing, cache, fn, hs, finding, saved>>

\* It is set: release the entry, the server knows what the handle denotes now.
CheckClosed(t) ==
    /\ pc[t] = "check"
    /\ closed[Top(t).entry]
    /\ finding' = [finding EXCEPT ![t] = TRUE]
    /\ Goto(t, "save")
    /\ UNCHANGED <<table, fdThing, cache, mutex, fn, hs, held, saved>>

\* get_server_inproc_sync and map_inproc_sync; the kernel installs the
\* lowest free fd, or none if there is none left.
Ask(t) ==
    LET h == Handle(t)
        free == {f \in Fds : fdThing[f] = None}
    IN  /\ pc[t] = "ask"
        /\ table[h] # None
        /\ \E f \in IF free = {} THEN {BadFd} ELSE free :
              /\ \A g \in free : f <= g
              /\ fdThing' = [g \in Fds |-> IF g = f THEN table[h] ELSE fdThing[g]]
              /\ held' = [held EXCEPT ![t] = Append(@, [entry |-> None, fd |-> f, thing |-> table[h]])]
        /\ Goto(t, "cache")
        /\ UNCHANGED <<table, cache, mutex, fn, hs, finding, saved>>

\* The server knows no such handle: the call fails.
AskInVain(t) ==
    /\ pc[t] = "ask"
    /\ table[Handle(t)] = None
    /\ Goto(t, IF held[t] = <<>> THEN "idle" ELSE "save")
    /\ LeaveMutex(t)
    /\ UNCHANGED <<table, fdThing, cache, locals>>

-----------------------------------------------------------------------------
(* cache_inproc_sync.                                                      *)

\* The handle whose sync was taken last.
TopHandle(t) == hs[t][Len(held[t])]

\* Mutant: an entry is overwritten while threads still use it.
CacheAlways(t) ==
    /\ pc[t] = "cache"
    /\ TopHandle(t) \notin Uncached
    /\ Goto(t, "fill")
    /\ UNCHANGED <<table, fdThing, cache, mutex, locals>>

\* The entry is free, ...
Cache(t) ==
    /\ pc[t] = "cache"
    /\ TopHandle(t) \notin Uncached /\ refcount[TopHandle(t)] = 0
    /\ Goto(t, "fill")
    /\ UNCHANGED <<table, fdThing, cache, mutex, locals>>

\* ... or there is none, or it still serves a handle of the same value that
\* was closed: the sync stays on the stack.
DontCache(t) ==
    /\ pc[t] = "cache"
    /\ TopHandle(t) \in Uncached \/ refcount[TopHandle(t)] # 0
    /\ UNCHANGED held
    /\ Found(t)
    /\ UNCHANGED <<table, fdThing, cache, fn, hs, finding, saved>>

Fill(t) ==
    LET h == TopHandle(t)
    IN  /\ pc[t] = "fill"
        /\ fd' = [fd EXCEPT ![h] = Top(t).fd]
        /\ closed' = [closed EXCEPT ![h] = FALSE]
        /\ Goto(t, "publish")
        /\ UNCHANGED <<table, fdThing, refcount, mutex, locals>>

\* One reference for the handle, one for the caller.
Publish(t) ==
    LET h == TopHandle(t)
    IN  /\ pc[t] = "publish"
        /\ refcount' = [refcount EXCEPT ![h] = 2]
        /\ SetTop(t, [entry |-> h, fd |-> None, thing |-> Top(t).thing])
        /\ Found(t)
        /\ UNCHANGED <<table, fdThing, fd, closed, fn, hs, finding, saved>>

-----------------------------------------------------------------------------
(* release_inproc_sync, and what ends with it.                             *)

\* The call itself, with every reference it took.
Use(t) ==
    /\ pc[t] = "use"
    /\ Goto(t, "save")
    /\ UNCHANGED <<table, fdThing, cache, mutex, locals>>

Save(t) ==
    /\ pc[t] = "save"
    /\ saved' = [saved EXCEPT ![t] = SyncFd(Top(t))]
    /\ Goto(t, "dec")
    /\ UNCHANGED <<table, fdThing, cache, mutex, fn, hs, held, finding>>

\* A lookup goes on; otherwise the next reference is released, and then a
\* close asks the server while a call returns.
Released(t) ==
    /\ finding' = [finding EXCEPT ![t] = FALSE]
    /\ saved' = [saved EXCEPT ![t] = BadFd]
    /\ IF finding[t] THEN Missed(t)
       ELSE Goto(t, IF held'[t] # <<>> THEN "save" ELSE IF fn[t] = "close" THEN "server" ELSE "idle")

Dec(t) ==
    LET s == Top(t)
        last == s.entry = None \/ refcount[s.entry] = 1
    IN  /\ pc[t] = "dec"
        /\ IF s.entry = None THEN UNCHANGED refcount
                             ELSE refcount' = [refcount EXCEPT ![s.entry] = @ - 1]
        /\ held' = [held EXCEPT ![t] = Popped(@)]
        /\ IF last THEN Goto(t, "fd_close") /\ UNCHANGED <<finding, saved>> ELSE Released(t)
        /\ UNCHANGED <<table, fdThing, fd, closed, mutex, fn, hs>>

\* munmap and close
FdClose(t) ==
    /\ pc[t] = "fd_close"
    /\ fdThing' = [f \in Fds |-> IF f = saved[t] THEN None ELSE fdThing[f]]
    /\ UNCHANGED held
    /\ Released(t)
    /\ UNCHANGED <<table, cache, mutex, fn, hs>>

\* Mutant: a close forgets to tell lookups.
MarkNothing(t) ==
    /\ pc[t] = "mark"
    /\ held' = [held EXCEPT ![t] = Append(@, Top(t))]
    /\ Goto(t, "save")
    /\ UNCHANGED <<table, fdThing, cache, mutex, fn, hs, finding, saved>>

\* close_inproc_sync: the closer also gives up the reference of the handle.
Mark(t) ==
    /\ pc[t] = "mark"
    /\ closed' = [closed EXCEPT ![Top(t).entry] = TRUE]
    /\ held' = [held EXCEPT ![t] = Append(@, Top(t))]
    /\ Goto(t, "save")
    /\ UNCHANGED <<table, fdThing, refcount, fd, mutex, fn, hs, finding, saved>>

\* close_handle, which a protected handle survives; dup_handle, which may
\* keep the handle with other rights.
Server(t) ==
    LET h == hs[t][1]
    IN  /\ pc[t] = "server"
        /\ \E x \in IF table[h] = None THEN {None} ELSE Things \cup {None} :
              table' = [table EXCEPT ![h] = x]
        /\ Goto(t, "idle")
        /\ LeaveMutex(t)
        /\ UNCHANGED <<fdThing, cache, locals>>

Step(t) ==
    \/ Enter(t) \/ Get(t) \/ GetNothing(t) \/ Check(t) \/ CheckClosed(t)
    \/ Ask(t) \/ AskInVain(t) \/ Cache(t) \/ DontCache(t) \/ Fill(t) \/ Publish(t)
    \/ Use(t) \/ Save(t) \/ Dec(t) \/ FdClose(t) \/ Mark(t) \/ Server(t)

Next == (\E h \in Handles : Open(h)) \/ \E t \in Threads : BeginUse(t) \/ BeginClose(t) \/ Step(t)

Spec == Init /\ [][Next]_vars

-----------------------------------------------------------------------------
(* Properties.                                                             *)

PCs == {"idle", "enter", "get", "check", "ask", "cache", "fill", "publish", "use",
        "save", "dec", "fd_close", "mark", "server"}

\* Every field keeps its type; in particular no reference count is ever
\* negative (the assert of release_inproc_sync).
TypeOK ==
    /\ table \in [Handles -> Things \cup {None}]
    /\ fdThing \in [Fds -> Things \cup {None}]
    /\ refcount \in [Handles -> Nat]
    /\ fd \in [Handles -> Fds \cup {BadFd}]
    /\ closed \in [Handles -> BOOLEAN]
    /\ mutex \in Threads \cup {None}
    /\ pc \in [Threads -> PCs]
    /\ fn \in [Threads -> {"use", "close"}]
    /\ hs \in [Threads -> Seq(Handles)]
    /\ held \in [Threads -> Seq(Sync)]
    /\ finding \in [Threads -> BOOLEAN]
    /\ saved \in [Threads -> Fds \cup {BadFd}]

\* What a call holds a reference to stays open, and is what its handle
\* denoted when it was looked up, whoever closes the handle or reuses its
\* value meanwhile: no call ever works on a closed or on a recycled fd.
HeldStaysOpen ==
    \A t \in Threads : \A k \in 1..Len(held[t]) :
        LET s == held[t][k]
        IN  s.thing # None => SyncFd(s) \in Fds /\ fdThing[SyncFd(s)] = s.thing

\* An entry that lookups accept describes what the server's table says of
\* the handle: "all other fields are valid and correct *as long as* refcount
\* is nonzero".
Live(h) == refcount[h] # 0 /\ ~closed[h]
CacheCoherent ==
    \A h \in Handles : Live(h) =>
        /\ table[h] # None
        /\ fd[h] \in Fds /\ fdThing[fd[h]] = table[h]

\* The entries and threads whose business it is to close f.
EntryOwners(f) == {h \in Handles : refcount[h] # 0 /\ fd[h] = f}
StackOwners(f) ==
    {t \in Threads : \/ \E k \in 1..Len(held[t]) : held[t][k].entry = None /\ held[t][k].fd = f
                     \/ pc[t] = "fd_close" /\ saved[t] = f}
\* An open fd has exactly one owner and a closed one has none: no fd leaks
\* when a lookup misses, a handle value is reused or an entry is refilled,
\* and none is closed twice.
OneOwner ==
    \A f \in Fds :
        /\ fdThing[f] # None <=> EntryOwners(f) # {} \/ StackOwners(f) # {}
        /\ \A h, g \in EntryOwners(f) : h = g
        /\ \A t, u \in StackOwners(f) : t = u
        /\ EntryOwners(f) = {} \/ StackOwners(f) = {}

=============================================================================
