---------------------------- MODULE MCServerWait -----------------------------
(***************************************************************************)
(* Instances of ServerWait for TLC: one process of two threads a and b and *)
(* a thread c1 of another one.                                             *)
(***************************************************************************)
EXTENDS ServerWait, TLC
CONSTANTS a, b, c1, s1, e1, m1, k1

Call(f, objs, d) == [fn |-> f, objs |-> objs, n |-> 1, owner |-> NoOne, alert |-> NoOne,
                     timeout |-> d, alertable |-> FALSE, key |-> 1]
Alertable(x) == [x EXCEPT !.alertable = TRUE]
On(f, t) == [Call(f, <<>>, "infinite") EXCEPT !.owner = t]
Simple(f, o) == Call(f, <<o>>, "infinite")
Unlock(o, t) == [Simple("unlock", o) EXCEPT !.owner = t]

MCType == [o \in Objs |-> CASE o = s1 -> "sem" [] o = e1 -> "event" [] o = m1 -> "mutex" [] OTHER -> "keyed"]
MCMax == [o \in Objs |-> IF o = s1 THEN 2 ELSE 0]
MCManual == [o \in Objs |-> FALSE]
MCCount == [o \in Objs |-> 0]
MCTimerOf == [t \in Threads |-> IF t = a THEN e1 ELSE NoOne]

\* A thread that waits is suspended, changed, interrupted and released.
StopProgram == (a :> {Alertable(Call("wait_any", <<s1>>, "finite"))}
             @@ b :> {On("suspend", a), On("resume", a), On("set_context", a)}
             @@ c1 :> {Simple("release", s1), Call("queue_system", <<a>>, "infinite")})
ObjectProgram == (a :> {Call("wait_all", <<s1, m1>>, "infinite"), Unlock(m1, a)}
               @@ b :> {Call("wait_any", <<m1, s1>>, "finite"), Unlock(m1, b), Call("signal_wait", <<s1, s1>>, "poll"), On("suspend", a), On("resume", a)}
               @@ c1 :> {Simple("release", s1), [Simple("release", s1) EXCEPT !.n = 2], On("kill", a)})
SignalProgram == (a :> {Alertable(Call("signal_wait", <<e1, s1>>, "finite")), Alertable(Call("delay", <<>>, "poll"))}
               @@ b :> {Call("wait_any", <<e1, s1>>, "infinite"), On("queue_user", a)}
               @@ c1 :> {Simple("release", s1), Simple("pulse", e1), Simple("reset", e1), Call("queue_system", <<a, b>>, "infinite")})
KeyedProgram == (a :> {Call("keyed_wait", <<k1>>, "finite"), Call("keyed_release", <<k1>>, "finite")}
              @@ b :> {Call("keyed_release", <<k1>>, "infinite"), On("suspend", a), On("resume", a)}
              @@ c1 :> {Call("queue_system", <<b, a>>, "infinite"), On("kill", b)})
TimerProgram == (a :> {Alertable(Call("inproc_wait", <<>>, "infinite")), Simple("set_timer", e1)}
              @@ b :> {On("queue_user", a), On("suspend", a), On("resume", a)}
              @@ c1 :> {On("cancel_timer", a), Call("wait_any", <<e1>>, "finite")})
\* The thread that has the APC dies, and another one gets it.
KillProgram == (a :> {Call("wait_any", <<e1>>, "infinite"), Simple("set_timer", e1)}
             @@ b :> {On("kill", a)}
             @@ c1 :> {Call("queue_system", <<a, b>>, "infinite"), Call("queue_system", <<a>>, "infinite")})
ServerPrograms == {StopProgram, ObjectProgram, SignalProgram, KeyedProgram, TimerProgram, KillProgram}
\* A semaphore is signaled by a wait that an APC interrupts.
TwicePrograms == {a :> {Alertable(Call("signal_wait", <<s1, e1>>, "finite"))} @@ b :> {On("queue_user", a)} @@ c1 :> {}}
=============================================================================
