----------------------------- MODULE SpySockets -----------------------------
\* The descriptors of sockets, as the kernel numbers them.
EXTENDS Integers

CONSTANT Fds         \* the descriptor numbers the kernel gives out

ASSUME FdsAssumption == Fds \subseteq Nat

NoFd == -1           \* (spy_socket_t) -1
=============================================================================
