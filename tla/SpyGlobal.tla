------------------------------ MODULE SpyGlobal ------------------------------
(* The start and the reload: spy_global_init builds a new global beside the  *)
(* old one, opens its listening sockets and closes those of the old one, or  *)
(* rolls back. "sock" is what the kernel knows of each descriptor: "free", a *)
(* socket that listens to nothing ("deaf"), or the address it listens to.    *)
EXTENDS SpySockets, Sequences, SequencesExt, FiniteSetsExt

CONSTANTS
    Addrs,          \* addresses to listen to
    Configurations, \* the sequences of addresses spy.lua may ask for
    Others          \* addresses other processes may listen to

ASSUME GlobalAssumption ==
    /\ Configurations \subseteq Seq(Addrs)
    /\ Others \subseteq Addrs
    /\ {"free", "deaf"} \cap Addrs = {}

VARIABLES
    spy_global,     \* the listening sockets of the running global
    sock,
    taken,          \* addresses other processes listen to now
    pc

vars == <<spy_global, sock, taken, pc>>

GlobalType ==
    Seq([addr : Addrs, fd : Fds \cup {NoFd}, open : BOOLEAN, remain : BOOLEAN])

GlobalTypeOK ==
    /\ spy_global \in GlobalType
    /\ sock \in [Fds -> {"free", "deaf"} \cup Addrs]
    /\ taken \in SUBSET Others
    /\ pc \in {"start", "run", "exit", "bad_pointer"}

\* spy_create_listening
CreateListening(a) == [addr |-> a, fd |-> NoFd, open |-> FALSE, remain |-> FALSE]

FdsOf(listening) == {l.fd : l \in listening} \ {NoFd}

\* spy_close_socket of each.
CloseSockets(s, fds) == [f \in Fds |-> IF f \in fds THEN "free" ELSE s[f]]

InUse(s, a) == a \in taken \/ \E f \in Fds : s[f] = a

-----------------------------------------------------------------------------
\* Mutant: an address in use is not passed over.
OpenAnyway(st, i) ==
    LET free == {f \in Fds : st.sock[f] = "free"}
        f    == Min(free)
    IN  IF ~ st.ok \/ st.new[i].fd # NoFd
        THEN {st}
        ELSE {[st EXCEPT !.ok = FALSE]} \cup
             IF free = {} THEN {}
             ELSE IF InUse(st.sock, st.new[i].addr)
                  THEN {[st EXCEPT !.sock[f] = "deaf", !.new[i].fd = f]}
                  ELSE {[st EXCEPT !.sock[f] = st.new[i].addr, !.new[i].fd = f]}

(* spy_open_listening_sockets on its i-th socket. Whatever else fails closes *)
(* the socket and ends in an error; an address in use is passed over, and    *)
(* its socket stays open. Nothing marks the attempt as failed, so that there *)
(* is one attempt.                                                           *)
OpenOne(st, i) ==
    LET a    == st.new[i].addr
        free == {f \in Fds : st.sock[f] = "free"}
        f    == Min(free)
    IN  IF ~ st.ok \/ st.new[i].fd # NoFd
        THEN {st}
        ELSE {[st EXCEPT !.ok = FALSE]} \cup
             IF free = {} THEN {}
             ELSE IF InUse(st.sock, a)
                  THEN {[st EXCEPT !.sock[f] = "deaf"]}
                  ELSE {[st EXCEPT !.sock[f] = a, !.new[i].fd = f]}

OpenListeningSockets(st) ==
    LET n == Len(st.new)
        after[i \in 0 .. n] ==
            IF i = 0 THEN {st} ELSE UNION {OpenOne(s, i) : s \in after[i - 1]}
    IN  after[n]

(* A new socket takes over the descriptor of an old one with its address,    *)
(* which then remains; one that finds none is to be opened.                  *)
Inherit(new, old) ==
    LET Previous(l) == {i \in DOMAIN old : old[i].addr = l.addr}
        Fd(l) == IF Previous(l) = {} THEN l.fd ELSE old[Min(Previous(l))].fd
    IN  [ new |-> [n \in DOMAIN new |-> [new[n] EXCEPT !.fd = Fd(new[n]), !.open = Fd(new[n]) = NoFd]],
          old |-> [i \in DOMAIN old |-> [old[i] EXCEPT !.remain =
                      \E n \in DOMAIN new : Previous(new[n]) # {} /\ i = Min(Previous(new[n]))]] ]

(* The new global up to spy_proxy_init. The listening sockets are inherited  *)
(* before spy_proxy_init creates them: there are none yet.                   *)
Prepared(configuration) ==
    LET inherited == Inherit(<<>>, spy_global)
    IN  [ new  |-> inherited.new \o [i \in DOMAIN configuration |-> CreateListening(configuration[i])],
          old  |-> inherited.old,
          sock |-> sock,
          ok   |-> TRUE ]

\* Mutant: rolls back the old global's sockets.
RollBackOld(st) == CloseSockets(st.sock, FdsOf({l \in ToSet(st.old) : ~ l.remain}))

\* The label "failed": closes what was opened, as far as it is marked so.
RollBack(st) == CloseSockets(st.sock, FdsOf({l \in ToSet(st.new) : l.open}))

\* The sockets of the old global that do not remain are closed.
Commit(st) == CloseSockets(st.sock, FdsOf({l \in ToSet(st.old) : ~ l.remain}))

-----------------------------------------------------------------------------
Init ==
    /\ spy_global = <<>>
    /\ sock = [f \in Fds |-> "free"]
    /\ taken = {}
    /\ pc = "start"

(* spy_global_init returns a new global, or there is no memory for the list  *)
(* of old ones and the process exits once the old sockets are closed.        *)
GlobalInitOK(configuration) ==
    \E st \in OpenListeningSockets(Prepared(configuration)) :
        /\ st.ok
        /\ sock' = Commit(st)
        /\ \/ spy_global' = st.new /\ pc' = "run"
           \/ spy_global' = <<>> /\ pc' = "exit"

\* It returns NULL early, out of memory or with a bad configuration, or rolls
\* back.
GlobalInitFails(configuration) ==
    \/ sock' = sock
    \/ \E st \in OpenListeningSockets(Prepared(configuration)) :
          ~ st.ok /\ sock' = RollBack(st)

\* spy_proxy_init uses the memory for an address and for a socket of its own
\* without a look whether there was any.
GlobalInitFaults == pc' = "bad_pointer" /\ UNCHANGED <<spy_global, sock>>

\* main() uses what spy_global_init returns without a look.
Start ==
    /\ pc = "start"
    /\ \/ GlobalInitFaults
       \/ \E c \in Configurations :
             \/ GlobalInitOK(c)
             \/ GlobalInitFails(c) /\ pc' = "bad_pointer" /\ UNCHANGED spy_global
    /\ UNCHANGED taken

\* The process goes on with the old global when the new one failed.
Reconfigure ==
    /\ pc = "run"
    /\ \/ GlobalInitFaults
       \/ \E c \in Configurations :
             \/ GlobalInitOK(c)
             \/ GlobalInitFails(c) /\ UNCHANGED <<spy_global, pc>>
    /\ UNCHANGED taken

\* spy_master_process_exit, with spy_close_listening_sockets.
Quit ==
    /\ pc = "run"
    /\ sock' = CloseSockets(sock, FdsOf(ToSet(spy_global)))
    /\ spy_global' = <<>>
    /\ pc' = "exit"
    /\ UNCHANGED taken

\* Another process starts or stops listening.
OtherProcess ==
    /\ pc \in {"start", "run"}
    /\ \/ \E a \in Others : ~ InUse(sock, a) /\ taken' = taken \cup {a}
       \/ \E a \in taken : taken' = taken \ {a}
    /\ UNCHANGED <<spy_global, sock, pc>>

Next == Start \/ Reconfigure \/ Quit \/ OtherProcess

Spec == Init /\ [][Next]_vars

-----------------------------------------------------------------------------
(* What the running global believes of its sockets is so, however many       *)
(* reloads came before: each descriptor it holds listens to the address it   *)
(* stands for, and no two sockets share one. It would be closed under it if  *)
(* a reload closed a socket of the old global that the new one goes on with. *)
RunningSocketsOK ==
    pc = "run" =>
        \A i, j \in DOMAIN spy_global :
            spy_global[i].fd # NoFd =>
                /\ sock[spy_global[i].fd] = spy_global[i].addr
                /\ spy_global[i].fd = spy_global[j].fd => i = j

(* "still could not bind()": a start or reload that succeeded listens to     *)
(* every address that was asked for. (It may not: an address in use, which   *)
(* the process itself uses before a reload, is passed over.)                 *)
EveryAddressBound == pc = "run" => \A i \in DOMAIN spy_global : spy_global[i].fd # NoFd
=============================================================================
