---------------------------- MODULE NtSyncHistory ---------------------------
(***************************************************************************)
(* NtSync with a history variable that remembers, for each call under way, *)
(* which objects were not signaled at some moment since the call began.    *)
(* The results a wait reports are judged by it: a wait-any must not report *)
(* an object while an earlier one was signaled all along, and a wait must  *)
(* not report a timeout while one of its objects was.                      *)
(***************************************************************************)
EXTENDS NtSync

VARIABLE unsig    \* [Threads -> SUBSET Objs]

InCall(t) == pc[t] \notin {"idle", "dead"}
\* The last unit of o is on loan to a scan that will place it with a task.
SpokenFor(o) ==
    /\ count[o] = 0
    /\ \E t \in Threads : /\ pc[t] = "loan" /\ cur[t] = o
                          /\ \E k \in 1..Len(todo[t]) : Unclaimed(todo[t][k].task)
Unsignaled(t) == {o \in Objs : ~Abstract!Signaled(o, t) \/ SpokenFor(o)}

HistoryInit == Init /\ unsig = [t \in Threads |-> {}]

HistoryNext ==
    /\ Next
    /\ unsig' = [t \in Threads |-> IF InCall(t)' THEN unsig[t] \cup Unsignaled(t)' ELSE {}]

HistorySpec == HistoryInit /\ [][HistoryNext]_<<vars, unsig>>

PassedOver(t, k) == {call[t].objs[j] : j \in 1..(k - 1)}

\* A unit taken by the walk or by the spin is that of the first object that
\* was signaled all along: "an empty count is proof the object was
\* unsignalled", so a wait-any may walk past it (fast_acquire_semaphore,
\* inproc_wait).
FastPathTakesFirst ==
    [][\A t \in Threads :
          pc[t] \in {"walk", "spin_take"} /\ pc'[t] = "idle" => PassedOver(t, i[t]) \subseteq unsig[t]
      ]_<<vars, unsig>>

\* A wait reports a timeout only if each object it waited for was not
\* signaled at some moment of the call (for a wait-all, one of them): a unit
\* on loan never makes a poll fail that should have succeeded.
NoBogusTimeout ==
    [][\A t \in Threads :
          pc[t] = "return" /\ pc'[t] = "idle" /\ Unclaimed(t)
             => IF IsAll(call[t])
                   THEN \E k \in 1..Len(call[t].objs) : call[t].objs[k] \in unsig[t]
                   ELSE \A k \in 1..Len(call[t].objs) : call[t].objs[k] \in unsig[t]
      ]_<<vars, unsig>>
=============================================================================
