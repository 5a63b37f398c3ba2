----------------------------- MODULE SpyPosted -----------------------------
(* The two posted queues: intrusive lists of events. "next" is the following *)
(* event; "prev" is the address of the pointer that points at this one, the  *)
(* head of a queue or the "next" of an event, and is NULL when the event is  *)
(* in no queue. An event is posted at the head of its queue.                 *)
EXTENDS SpyTypes, Sequences

CONSTANTS
    spy_posted_accept_events,       \* the queue of the listening sockets
    spy_posted_events               \* the queue of everything else

Queues == {spy_posted_accept_events, spy_posted_events}

ASSUME QueuesAssumption ==
    /\ spy_posted_accept_events # spy_posted_events
    /\ Queues \cap (Events \cup {Null}) = {}

VARIABLE posted

\* A pointer that can point at an event: a queue's head or an event's next.
Places == Queues \cup Events

PostedType ==
    [ head : [Queues -> Events \cup {Null}],
      next : [Events -> Events \cup {Null}],
      prev : [Events -> Places \cup {Null}] ]

EmptyQueues ==
    [ head |-> [q \in Queues |-> Null],
      next |-> [e \in Events |-> Null],
      prev |-> [e \in Events |-> Null] ]

IsPosted(l, e) == l.prev[e] # Null

\* What the pointer at place points at.
At(l, place) == IF place \in Queues THEN l.head[place] ELSE l.next[place]

\* *place = target
Store(l, place, target) ==
    IF place \in Queues THEN [l EXCEPT !.head[place] = target]
                        ELSE [l EXCEPT !.next[place] = target]

\* Mutant: posted again although it is in a queue.
PostAgain(l, e, q) ==
    LET first == l.head[q] IN
    [ head |-> [l.head EXCEPT ![q] = e],
      next |-> [l.next EXCEPT ![e] = first],
      prev |-> [x \in Events |-> IF x = e THEN q
                                 ELSE IF x = first THEN e ELSE l.prev[x]] ]

PostEvent(l, e, q) ==
    IF IsPosted(l, e)
    THEN l
    ELSE LET first == l.head[q] IN
         [ head |-> [l.head EXCEPT ![q] = e],
           next |-> [l.next EXCEPT ![e] = first],
           prev |-> [x \in Events |-> IF x = e THEN q
                                      ELSE IF x = first THEN e ELSE l.prev[x]] ]

\* Mutant: the following event still points back at the deleted one.
DeleteForward(l, e) ==
    [Store(l, l.prev[e], l.next[e]) EXCEPT !.prev[e] = Null]

\* The stale "next" stays in the event; only "prev" says that it is out.
DeletePosted(l, e) ==
    LET rest == l.next[e]
        m    == Store(l, l.prev[e], rest)
    IN  [m EXCEPT !.prev = [x \in Events |-> IF x = e THEN Null
                                             ELSE IF x = rest THEN l.prev[e] ELSE m.prev[x]]]

\* spy_get_connection clears both events of a slot, their links included.
ClearLinks(l, c) ==
    [ head |-> l.head,
      next |-> [l.next EXCEPT ![ReadEvent(c)] = Null, ![WriteEvent(c)] = Null],
      prev |-> [l.prev EXCEPT ![ReadEvent(c)] = Null, ![WriteEvent(c)] = Null] ]

-----------------------------------------------------------------------------
(* The queues on their own. A slot is recycled only while no event of its    *)
(* own is posted, as the event loop guarantees (SpyEventLoop).               *)

PostedInit == posted = EmptyQueues

Post(e, q) == posted' = PostEvent(posted, e, q)

\* One turn of the loop of spy_event_process_posted, without the handler.
ProcessHead(q) ==
    /\ posted.head[q] # Null
    /\ posted' = DeletePosted(posted, posted.head[q])

Recycle(c) ==
    /\ \A e \in EventsOf(c) : ~ IsPosted(posted, e)
    /\ posted' = ClearLinks(posted, c)

PostedNext ==
    \/ \E q \in Queues : ProcessHead(q) \/ (\E e \in Events : Post(e, q))
    \/ \E c \in Connections : Recycle(c)

PostedSpec == PostedInit /\ [][PostedNext]_posted

-----------------------------------------------------------------------------
\* The type of the links.
PostedTypeOK == posted \in PostedType

(* Every pointer and its back pointer agree: what a linked place points at   *)
(* knows that place, and the place an event knows points at the event. This  *)
(* is what *(ev->prev) = ev->next of spy_delete_posted_event relies on.      *)
LinksOK(l) ==
    /\ \A p \in Places :
          (p \in Queues \/ IsPosted(l, p)) /\ At(l, p) # Null => l.prev[At(l, p)] = p
    /\ \A e \in Events :
          IsPosted(l, e) =>
              /\ At(l, l.prev[e]) = e
              /\ l.prev[e] \in Queues \/ IsPosted(l, l.prev[e])

\* The links of the queues run on their own.
PostedLinksOK == LinksOK(posted)

(* The contents of a queue, from its head: the events met by following next, *)
(* for at most as many steps as there are events.                            *)
Contents(l, q) ==
    LET nth[n \in 0 .. 2 * connection_n] ==
            IF n = 0 THEN q
            ELSE LET p == nth[n - 1] IN IF p = Null THEN Null ELSE At(l, p)
        Linked(x) == x # Null
    IN  SelectSeq([n \in 1 .. 2 * connection_n |-> nth[n]], Linked)

AbstractStacks == INSTANCE PostedStacks WITH stack <- [q \in Queues |-> Contents(posted, q)]

(* The linked queues behave as stacks of events, an event in one of them at  *)
(* most once however often it is posted: nothing posted is lost, and no      *)
(* event is handled twice for one post.                                      *)
ImplementsStacks == AbstractStacks!Spec
=============================================================================
