------------------------------ MODULE SpyTypes ------------------------------
(* The objects every part of the event core shares: the slots of the         *)
(* connection array, the two events of each slot, and the C constants the    *)
(* code compares them with.                                                  *)
EXTENDS Integers

CONSTANTS
    connection_n,   \* number of slots, worker_connections of the configuration
    Null            \* the NULL pointer

\* spy_event_init fills the free list with a do-while loop that starts at
\* connection_n - 1: with no slot at all it would run off the array.
ASSUME ConnectionNAssumption == connection_n \in Nat \ {0}

Connections == 0 .. connection_n - 1

\* global->read_events[c] and global->write_events[c].
Kinds  == {"read", "write"}
Events == Connections \X Kinds

ASSUME NullAssumption == Null \notin Connections /\ Null \notin Events

ConnectionOf(e) == e[1]          \* ev->data
KindOf(e)       == e[2]          \* ev->write
ReadEvent(c)    == <<c, "read">>
WriteEvent(c)   == <<c, "write">>
EventsOf(c)     == {ReadEvent(c), WriteEvent(c)}

InvalidIndex == -1               \* SPY_INVALID_INDEX
=============================================================================
