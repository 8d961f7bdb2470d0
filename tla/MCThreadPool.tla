---------------------------- MODULE MCThreadPool -----------------------------
(* Instances of ThreadPool for TLC: two threads of a program, two workers. *)
EXTENDS ThreadPool
CONSTANTS c1, c2, k1, k2, w1, g1, s1, x1

C(f, o) == [fn |-> f, obj |-> o, cancel |-> FALSE, n |-> 0]
Cancelled(c) == [c EXCEPT !.cancel = TRUE]
Set(n) == [C("set", x1) EXCEPT !.n = n]
N(f, n) == [C(f, NoOne) EXCEPT !.n = n]

MCPriority == [o \in Objs |-> IF o = g1 THEN 1 ELSE 2]

\* Two threads post one work object and wait for it, in a pool that has room
\* for one thread and then for two.
WorkProgram == (c1 :> <<C("alloc", w1), C("post", w1), C("post", w1), C("wait", w1), C("release", w1)>>
             @@ c2 :> <<N("max", 0), C("post", w1), C("wait", w1), N("min", 2), N("close_pool", 0)>>)
\* A group is released while a simple object joins it.
GroupProgram == (c1 :> <<N("members", 0), N("close_group", 0), N("close_pool", 0)>>
              @@ c2 :> <<C("simple", s1)>>)
\* A work object is released by its owner and cancelled by its group.
BothProgram == (c1 :> <<C("alloc", g1), C("post", g1), C("post", g1), C("release", g1)>>
             @@ c2 :> <<Cancelled(N("members", 0)), N("close_group", 0), N("close_pool", 0)>>)
\* A group of two is cancelled.
TwoProgram == (c1 :> <<C("alloc", g1), C("simple", s1), C("post", g1), Cancelled(N("members", 0)), N("close_group", 0), N("close_pool", 0)>>
            @@ c2 :> <<>>)
\* A periodic timer, disarmed and waited for, and then released when armed.
TimerProgram == (c1 :> <<C("alloc", x1), Set(1), Set(-1), Cancelled(C("wait", x1)), Set(0), C("release", x1)>>
              @@ c2 :> <<N("close_pool", 0)>>)
\* A timer is released by its group alone.
GroupTimerProgram == (c1 :> <<C("alloc", x1), Set(1), N("members", 0), N("close_group", 0), N("close_pool", 0)>>
                   @@ c2 :> <<>>)
PoolPrograms == {WorkProgram, GroupProgram, BothProgram, TwoProgram, TimerProgram, GroupTimerProgram}
\* One thread waits, another one cancels.
CancelPrograms == {c1 :> <<C("alloc", w1), C("post", w1), C("wait", w1)>> @@ c2 :> <<Cancelled(C("wait", w1))>>}
=============================================================================
