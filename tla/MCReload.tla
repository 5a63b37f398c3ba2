------------------------------- MODULE MCReload -------------------------------
\* The process with one or two addresses to listen to.
EXTENDS SpyReload

CONSTANTS addr1, addr2

\* What a process that runs may still look at: not the entries of event_index
\* past its end. Nothing follows once it died.
RunningState ==
    IF pc \in {"start", "run"}
    THEN <<vars, pool, listening, turn, events,
           [sel EXCEPT !.event_index = [i \in {j \in Slots : j < sel.nevents} |-> sel.event_index[i]]]>>
    ELSE <<pc>>

MCConfigurations == {<<addr1>>, <<addr2>>, <<addr1, addr2>>, <<addr2, addr1>>}
=============================================================================
