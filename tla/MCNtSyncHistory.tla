-------------------------- MODULE MCNtSyncHistory ---------------------------
(* Instances of NtSyncHistory for TLC. *)
EXTENDS NtSyncHistory, MCNtSync

\* Polls, of one semaphore and of both at once, beside a timed wait that
\* walks and spins over both.  Nobody else is queued on s2 by itself, so no
\* loan of s2 can mislead the walk.
ResultCalls == (t1 :> {WaitAny(<<s3>>, "poll"), WaitAll(<<s2, s3>>, "poll")}
             @@ t2 :> {WaitAny(<<s2, s3>>, "finite")}
             @@ t3 :> {Rel(s2, 1), Rel(s3, 1)})
=============================================================================
