---------------------------- MODULE PostedStacks ----------------------------
(* What the event loop relies on the posted queues for: each is a stack of   *)
(* events, and an event waits in at most one of them, once.                  *)
EXTENDS Sequences, SequencesExt

CONSTANTS Queues, Events

VARIABLE stack

Waiting(e) == \E q \in Queues : Contains(stack[q], e)

Init == stack = [q \in Queues |-> <<>>]

Push(e, q) ==
    /\ ~ Waiting(e)
    /\ stack' = [stack EXCEPT ![q] = <<e>> \o @]

Pop(q) ==
    /\ stack[q] # <<>>
    /\ stack' = [stack EXCEPT ![q] = Tail(@)]

Next == \E q \in Queues : Pop(q) \/ (\E e \in Events : Push(e, q))

Spec == Init /\ [][Next]_stack
=============================================================================
