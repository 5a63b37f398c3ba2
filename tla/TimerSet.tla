------------------------------- MODULE TimerSet -------------------------------
(* What the event loop relies on the timer heap for: a set of timers, each   *)
(* due at its own time, which are set, moved and cancelled one at a time.    *)
EXTENDS Naturals

CONSTANTS Timers, Never

VARIABLE due        \* when each timer is due, or Never

Init == due = [t \in Timers |-> Never]

SetTimer(t) == due' = [due EXCEPT ![t] = due'[t]] /\ due'[t] \in Nat

Cancel(t) == due[t] # Never /\ due' = [due EXCEPT ![t] = Never]

Next == \E t \in Timers : SetTimer(t) \/ Cancel(t)

Spec == Init /\ [][Next]_due
=============================================================================
