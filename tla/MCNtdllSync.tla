----------------------------- MODULE MCNtdllSync ----------------------------
(* Instances of NtdllSync for TLC. *)
EXTENDS NtdllSync, TLC
CONSTANTS t1, t2, t3, q1, q2

MCQueueOf == [a \in Addr |-> IF a = "sem" THEN q2 ELSE q1]
\* One thread takes the SRW lock exclusively, one shared, one tries; two
\* of them use the critical section, whose waits time out; two sleep.
MCOps == (t1 :> {"acquire_exclusive", "release", "sleep"}
       @@ t2 :> {"acquire_shared", "try_shared", "release", "enter", "leave", "sleep_timed"}
       @@ t3 :> {"try_exclusive", "release", "enter", "try_enter", "leave", "wake", "wake_all"})
=============================================================================
