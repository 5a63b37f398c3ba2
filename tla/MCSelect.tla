------------------------------ MODULE MCSelect ------------------------------
(* The backend and the pool on small instances. What event_index holds from  *)
(* nevents on is never read: states that differ there only are the same.     *)
EXTENDS SpySelect

LiveTables ==
    <<pool, [sel EXCEPT !.event_index = [i \in {j \in Slots : j < sel.nevents} |-> sel.event_index[i]]]>>
=============================================================================
