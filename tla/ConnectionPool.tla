--------------------------- MODULE ConnectionPool ---------------------------
(* What the rest of Spy relies on spy_get_connection and the closing         *)
(* functions for: a slot is given to one descriptor at a time, giving it     *)
(* disturbs no other slot, and a request is refused exactly when every slot  *)
(* is held.                                                                  *)
CONSTANTS Slots, Holders, Nobody

VARIABLES holder,      \* the descriptor each slot serves, or Nobody
          refused      \* would the pool refuse a request now?

Full(h) == \A c \in Slots : h[c] # Nobody

Init ==
    /\ holder \in [Slots -> Holders \cup {Nobody}]
    /\ refused <=> Full(holder)

Give(c, s) ==
    /\ holder[c] = Nobody
    /\ holder' = [holder EXCEPT ![c] = s]

TakeBack(c) ==
    /\ holder[c] # Nobody
    /\ holder' = [holder EXCEPT ![c] = Nobody]

Next ==
    /\ \E c \in Slots : TakeBack(c) \/ (\E s \in Holders : Give(c, s))
    /\ refused' <=> Full(holder')

Spec == Init /\ [][Next]_<<holder, refused>>
=============================================================================
