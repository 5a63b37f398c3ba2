------------------------------- MODULE Sessions -------------------------------
(* What a client is owed: a session of its own, in which the greeting is     *)
(* sent from its first part to its last. Whatever the process does for one   *)
(* client it does not do to another.                                         *)
EXTENDS Naturals

CONSTANTS
    Places,       \* where sessions are kept
    Clients,      \* the descriptors of clients
    Greeting      \* the parts of the greeting

VARIABLE session  \* for each place, the sessions in it: none or one

Sessions == [client : Clients, left : 0 .. Greeting]

Served == {s.client : s \in UNION {session[p] : p \in Places}}

Init == session = [p \in Places |-> {}]

\* The first parts may go out at once.
Begin(p) ==
    /\ session[p] = {}
    /\ \E s \in session'[p] :
          /\ s \in Sessions /\ s.client \notin Served
          /\ session' = [session EXCEPT ![p] = {s}]

\* What was sent is not sent again.
Send(p) ==
    /\ \E s \in session'[p], old \in session[p] :
          /\ s \in Sessions /\ s.client = old.client /\ s.left < old.left
          /\ session' = [session EXCEPT ![p] = {s}]

End(p) ==
    /\ session[p] # {} /\ session'[p] = {}
    /\ session' = [session EXCEPT ![p] = {}]

Next == \E p \in Places : Begin(p) \/ Send(p) \/ End(p)

Spec == Init /\ [][Next]_session
=============================================================================
