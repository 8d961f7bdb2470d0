------------------------------ MODULE MCNtSync ------------------------------
(***************************************************************************)
(* Instances of NtSync for TLC.  Each gives two or three threads the calls *)
(* whose interleavings it is about; threads repeat their calls for ever.   *)
(***************************************************************************)
EXTENDS NtSync, TLC
CONSTANTS t1, t2, t3, s1, s2, s3, m1, e1, e2

Rel(o, n) == [fn |-> "release", objs |-> <<o>>, n |-> n, owner |-> NoOne,
              alert |-> NoOne, timeout |-> "infinite", direct |-> FALSE]
WaitAny(s, d) == [fn |-> "wait_any", objs |-> s, n |-> 0, owner |-> NoOne,
                  alert |-> NoOne, timeout |-> d, direct |-> FALSE]
WaitAll(s, d) == [WaitAny(s, d) EXCEPT !.fn = "wait_all"]
Simple(f, o) == [Rel(o, 0) EXCEPT !.fn = f]
Direct(c) == [c EXCEPT !.direct = TRUE]
Owned(f, o, t) == [Simple(f, o) EXCEPT !.owner = t]

MCType == [o \in Objs |-> CASE o \in {s1, s2, s3} -> "sem" [] o = m1 -> "mutex" [] o \in {e1, e2} -> "event"]
MCMax == [o \in Objs |-> IF o = s1 THEN 2 ELSE IF o \in {s2, s3} THEN 1 ELSE 0]
\* e1 resets itself, e2 is manual.
MCManual == [o \in Objs |-> o = e2]
MCCount == [o \in Objs |-> IF o = s1 THEN 1 ELSE 0]

\* Two semaphores: a timed wait-any on both and wait-alls in opposite orders
\* (one names its object twice) among fast acquires and releases up to and
\* over max, and past the fast path as inproc_signal_and_wait releases.
SemCalls == (t1 :> {WaitAll(<<s1, s2>>, "finite"), WaitAll(<<s1, s1>>, "finite"), Rel(s1, 1)}
          @@ t2 :> {WaitAny(<<s1, s2>>, "finite"), WaitAll(<<s2, s1>>, "finite")}
          @@ t3 :> {Direct(Rel(s2, 1)), Rel(s1, 2)})
\* One sleeper, one timed waiter, one releaser.
LiveCalls == (t1 :> {WaitAny(<<s1>>, "infinite")}
           @@ t2 :> {WaitAny(<<s1>>, "finite")}
           @@ t3 :> {Rel(s1, 1)})
\* A mutex and events, in a wait-all and in wait-anys, with an alert.
ObjCalls == (t1 :> {[WaitAll(<<m1, e1>>, "finite") EXCEPT !.alert = e2], Owned("unlock", m1, t1)}
          @@ t2 :> {WaitAny(<<m1>>, "infinite"), WaitAny(<<e1>>, "poll"),
                    Owned("unlock", m1, t2)}
          @@ t3 :> {Simple("set", e1), Simple("pulse", e2)})
\* A mutex whose owners are killed, while they run or after they died.
MutexCalls == (t1 :> {WaitAny(<<m1>>, "finite"), Owned("unlock", m1, t1)}
            @@ t2 :> {[WaitAny(<<m1>>, "infinite") EXCEPT !.alert = e2], Owned("unlock", m1, t2)}
            @@ t3 :> {Simple("set", e2), Simple("reset", e2), Owned("kill", m1, t1),
                      Owned("kill", m1, t2)})
=============================================================================
