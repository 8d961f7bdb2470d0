---------------------------- MODULE MCInprocCache ---------------------------
(* Instances of InprocCache for TLC. *)
EXTENDS InprocCache, TLC
CONSTANTS t1, t2, t3, h1, h2

\* A wait on two handles, a call on one of them, and two threads that close
\* it again and again.
MCUses == (t1 :> {<<h1, h2>>} @@ t2 :> {<<h1>>} @@ t3 :> {})
MCCloses == (t1 :> {} @@ t2 :> {h1} @@ t3 :> {h1})
=============================================================================
