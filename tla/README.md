# A verification project for Spy

Spy (the MySQL proxy of this repository) is at an early stage: one process, one thread, one
event loop derived from nginx's. It accepts clients, sends each the MySQL greeting and waits for
their answer; sharding, rules and backends are planned in `doc/` only. The modules here model
its event core, its timers, its memory pools and its start and reload from the source, TLC checks them on small
instances, and TLAPS proves the invariants and most refinements of the pool, the backend, the queues, the
whole event loop, the timers, the memory pools and the process across its reloads for every value of
the constants.

The snapshot does not build as a whole: some names are left over from nginx or were renamed
(`ngx_palloc` in `spy_event_accept.c:67`, `ls->pool_size`, `core_cf->port`, `spy_init_global`,
`spy_old_cycles`). Where such a name occurs the evident counterpart is modelled (`spy_palloc`, the pool
size, ...). So are the configured addresses, whose parsing is commented out, and the array
`spy_proxy_init` never sets up. And `spy_event_init` reads `listening.elts`, an array of structs
(`spy_create_listening` pushes them in place), as an array of pointers (`spy_event.c:81`, `ls[i]->fd` in lines
146-149), which would fault on the first socket; the models (`ListenOnAll`, `LoopInit`, `EventInitOK`) give
each socket of the array its slot, as the loop is meant to.

## 1. The system: inventory

| Component | State | Operations | Hard part | What makes it correct |
|---|---|---|---|---|
| connection pool (`core/spy_connection.c`, `event/spy_event.c`) | slot array, free list through `c->data`, counter, `c->fd` | init, get, free, close, close after a failed accept | `data` is a link or a request; two ways of closing; pointers kept after closing | the list is exactly the closed slots; refusal only when full |
| select backend (`event/module/spy_event_select.c`) | `event_index`, `nevents`, `ev->index`, `ev->active`, two master `fd_set`s, `max_fd` | init, add, del, process, repair | five copies of one fact; swap-removal; `max_fd` recomputed lazily | the copies agree; only open connections are watched |
| posted queues (`event/spy_event_posted.[ch]`) | two intrusive lists, `next`, `prev` (pointer to pointer) | post, delete, process | events cleared while linked | pointers and back pointers agree; no event twice, none lost |
| event loop (`event/spy_event.c`, `os/unix/spy_process_launcher.c`) | where the loop is | init, one turn: select, accept queue, posted queue | clients move between any two handlers | no client is forgotten; everything ready is handled |
| accept (`event/spy_event_accept.c`) | – | `spy_event_accept`, `spy_close_accepted_connection` | every allocation may fail half-way | no slot and no descriptor leaks |
| handshake (`proxy/spy_mysql_packet.c`, `os/unix/spy_send.c`) | request, position in the greeting, `ready`, handlers | init packet, init request, send, close | short sends, errors, uninitialised fields | the buffer with the greeting goes out to its end, once |
| listening sockets (`core/spy_connection.c`, `proxy/spy_proxy.c`) | array of sockets | create, open with retries, close | bind retries, double close | every address is bound or the start fails (not so: see `reload_unbound`) |
| timers (`event/spy_event_timer.*`, `core/spy_minheap.*`) | heap of deadlines | insert, delete, min, expire | heap order after deletion, fixed size | the minimum is the root (not so: see `wakes`) |
| global reload (`core/spy_global.c`) | the global and its predecessors | init, inherit, roll back, clean | failure half-way, sockets shared by two globals, slots of the first global freed into the second | what is in use is never closed; nothing closed is listened to, nothing open forgotten |
| start (`core/spy.c`, `core/spy_conf_file.c`, `core/spy_log.c`) | options, two logs, open files | one call of `main` after the other | the order of the calls; every one may fail | a start in which nothing failed launches the process (not so: see `start`) |
| memory pools (`core/spy_palloc.c`) | blocks, current, large list | create, alloc, free, destroy | the current block moves on | regions never overlap, all are freed once |
| small and large allocators (`core/spy_alloc.c`, `core/spy_largealloc.c`) | – | – | not part of the program: see "Not modelled" | – |
| arrays, lists, queues (`core/spy_array.c`, `spy_list.c`, `spy_queue.h`) | capacity and length | push | growth in place | no element is lost on growth |
| cached time (`core/spy_times.c`) | ring of slots | update | readers keep a slot | the string of the last second is there (not so: see section 2) |
| strings, files | – | – | formatting and I/O | – |

**How they interact.** `spy_single_process_launch` calls `spy_event_init` once and
`spy_process_events_and_timers` for ever. A turn calls the backend's `proc`, which posts each event
that `select(2)` reports to one of two queues; the queue of accepting events is emptied first, the
other one second, by calling the events' handlers. `spy_event_accept` takes a slot from the pool
and calls the handler of the listening socket, `spy_proxy_init_packet`, which attaches a request
and calls `spy_proxy_send_acl` directly; that one adds events to the backend. Closing a connection
deletes its events from the backend and frees its slot, and does *not* take its events out of the
posted queues. All of this is shared state without locks: handlers run to completion, and
concurrency comes from the kernel and the clients, which move between any two handlers.

**Across a reload.** Between two turns the loop may call `spy_global_init` again. The new global opens
its sockets, and those of the old one are closed; `spy_event_init` is *not* called again. So the slots,
the events and the free list stay with the first global, `spy_free_connection` and
`spy_get_connection` work on the list of the running one, which starts empty, and the backend finds out
by EBADF, in the next turn, that it watches closed sockets. No new listening socket is ever watched:
after a successful reload the clients that are there are served, and nobody is accepted.

**The hard behaviours** are listed with their lines in `PROJECT.json` ("hazards"): slots recycled
while their events are posted, swap-removal in the index, the lazily recomputed `max_fd`,
allocations failing half-way through an accept, short sends, reads of fields nobody wrote, timers
deleted by the place they believe to be at, a reload that fails half-way, slots that outlive their
global, descriptors given out again while they are still watched.

## 2. The modules

| Module | Models | Role |
|---|---|---|
| `SpyTypes`, `SpySockets` | slots, events, `NULL`; descriptors and -1 | shared |
| `ConnectionPool` | what the pool promises: which descriptor each slot serves, refusal exactly when full | abstract |
| `SpyConnection` | the pool | component; refines `ConnectionPool` |
| `SpySelect` | the backend on top of the pool | extends `SpyConnection` |
| `MCSelect` | which part of the pool and the index matters | for TLC |
| `PostedStacks` | what the queues promise: two stacks, an event in one of them at most once | abstract |
| `SpyPosted` | the queues | component; refines `PostedStacks` |
| `SpyEventLoop` | the loop, accept, the handshake, the kernel and the clients | composes `SpySelect` and `SpyPosted` |
| `Sessions` | what a client is owed: a session of its own, a greeting sent from its first part to its last | abstract; refined by `SpyEventLoop` |
| `MCEventLoop` | the descriptors of a small kernel | for TLC |
| `TimerSet` | what the heap promises: timers set, moved and cancelled one at a time | abstract |
| `SpyTimer` | the heap, setting, deleting and expiring timers | component; without expiry it refines `TimerSet` |
| `MCTimer` | which part of the heap matters | for TLC |
| `SpyGlobal` | start, reload and exit, with the listening sockets | component |
| `MCGlobal` | configurations of two addresses | for TLC |
| `SpyReload` | the running process over its reloads: the sockets of `SpyGlobal`, the pool and the backend, and clients | composes `SpyGlobal` and `SpySelect` |
| `MCReload` | configurations that share, swap and drop addresses; which part of the state matters | for TLC |
| `SpyTimes` | the time cache | component, used by `SpyStart` |
| `SpyStart` | `main` from its options to the launch | component |
| `SpyPalloc` | a memory pool, with arrays, lists and buffers as its users | component |
| `Spy{Connection,Select,Posted,EventLoop,Timer,Palloc,Reload}_proof` | – | theorems (section 4) |
| `FiniteInduction` | – | lemmas on finite sets of numbers, induction and bounded iteration that they share |

A component's operations are functions from its record to its record (`GetConnection(p, s)`,
`AddEvent(s, e, f)`, `PostEvent(l, e, q)`), so that a handler that calls several of them remains
one step. Each component also has a small specification that calls them in any order its callers
could, and `SpyEventLoop` calls them in the order the handlers do.

**State and code.** `pool` is `spy_global`'s `free_connections`, `free_connection_n` and the `data`
and `fd` of each slot; `sel` holds the static variables of the backend and the `active` and `index`
of each event; `posted` the heads and the `next`/`prev` of each event (a `prev` is the *place* that
points at the event: a queue or another event's `next`); `ev` the `ready` and `handler` of each
event; `req` each slot's request; `pc` is the place in the loop, or how the process died. `net` is
the environment: which descriptors are open, the backlogs, the room in each socket's send buffer,
what each client did. `ConnectionOf`/`KindOf` are `ev->data`/`ev->write`.

In `SpyTimer`, `heap` is `spy_event_timer_heap` together with the `timer.key` and `timer.index` of each
event; the array keeps what lies beyond `last`, as `spy_minheap_min` looks there. A sift is given by where
each turn of its loop goes (`up`, `down`: a place, or the same place where the loop stops), the path that
results (`Path`, a function iterated as often as there are places) and the assignments along it (`Sift`). The
expiry loop is one step per timer, since its handlers may set timers. In `SpyGlobal`, `spy_global`
is the listening sockets of the running global and `sock` the kernel's view of each descriptor;
`spy_global_init` is one step that opens the sockets one after the other (`OpenOne`, with every way
to fail) and then commits or rolls back. The old global is an argument of that step; what is left
of it afterwards is the descriptors it may have left open.

`SpyReload` adds to these the pool and the backend, `listening` (`c->listening` by its address), and the place in
the turn. Its loop is that of `SpyEventLoop` with the handlers reduced to what they do to slots, descriptors
and watched events: accept (closed again, or watched for writing or reading), send (closed, finished, or
waiting), and the NULL handler of the client's answer. Its `Reload` is the step of `SpyGlobal` together with
the empty free list of the new global (`ClearedList`). `ListenOnAll` is the loop of `spy_event_init`, the
initial state of `SpyEventLoop` as well. `turn` is "init" until that loop has run.

In `SpyStart`, `pc` is the next call of `main`, and every call may go on or fail as its code allows. A path is
empty, relative or absolute, the script the set of keys it defines, `open_files` the list of files of the
new global and `log` a place in it. `Logged` is how `main` ends when it has an error to log first.

In `SpyPalloc`, `pool` is a `spy_pool_t`: `blocks` the chain (each `d.last` as an offset, and `d.failed`),
`current` a place in it, `large` the list of large allocations with NULL for those freed. `regions` and
`live` are what callers hold of the blocks and of `malloc`: state the code does not keep, which the
properties compare with what it does. `array` and `list` are the one array or list that lives in the
pool, with the memory their elements lie in. `spy_array_push` is `spy_array_push_n` for one element. An
allocation is a set of outcomes, as any call of `malloc` may fail.

**Handlers as sets of outcomes.** `SendAcl(st, c)`, `Accepted(st, f)`, `EventAccept(st, l)` and so on
give the set of states a handler may leave behind, one for each answer the kernel or the allocator
may give; `Handle` takes one. `accept()` yields nothing (the backlog is empty, or no descriptor is free),
an aborted client, or a connection on the
lowest free descriptor; each later allocation may fail; `send()` takes as much as there is room.

**Undefined behaviour** is a choice among the outcomes the build can produce:

* `spy_alloc` does not clear memory, so the `init_packet` of a fresh request is NULL (the packet is
  built) or garbage (the process faults: `pc = "bad_pointer"`).
* `spy_proxy_close_request` reads `r->connection`, which nothing ever writes: a fault, or, to keep
  what follows explored, the connection itself.
* `spy_proxy_send_acl` on a closed connection reads a request through what is by then a link of the
  free list: a fault.
* A NULL handler is called: `pc = "no_handler"`. No signal handler is installed anywhere, so a
  `send` to a client that left may raise SIGPIPE and end the process: `pc = "sigpipe"`.

After a fault the loop takes no further step. That these faults do not happen is not among the properties of the
passing runs: they can happen (the NULL handler is what `authentication` shows). It is also why the event
loop's runs do not check for deadlock (they may also wait for clients, all of whom have come and gone).

* A listening socket whose address was in use has descriptor -1. `spy_event_init` gives it a slot and
  calls FD_SET(-1): a fault, or a bit that belongs to no descriptor (`EventInitOK`, `EventInitFails`).
* `spy_time_update_r` writes the slot before it compares it, so that it always returns early and the
  string of the log's time stays NULL. A line that is logged with a descriptor copies 19 bytes from
  there: `pc = "bad_pointer"` in `SpyStart`. A log without descriptor returns before it does, which is
  why the other modules leave log lines out: once started, the log has none (run `start`).
* `main` uses the NULL that a failed `spy_global_init` returns: a fault.
* `spy_proxy_init` uses what `spy_create_listening` returns without a look (`spy_proxy.c:29`), so that being out
  of memory there is a fault: `GlobalInitFaults`, at the start and in any reload.
* `spy_event_init` ignores what `spy_select_init` returns (`spy_event.c:90`): out of memory, the index is NULL
  and adding the first socket writes to it, an outcome of `EventInitFails`.
* The array of the heap is not cleared: with one timer `spy_minheap_min` may yield garbage (the
  process faults), NULL, or a timer deleted before.

**What the models leave out of these components.** Log messages. The timer calls of the loop in
`SpyEventLoop`: the only timer, that of `spy_clean_old_global`, is set by `spy_global_init` before the
heap exists, which refuses it (`SetCleaner` in `SpyTimer`), so that `spy_event_find_timer` always says
"infinite". For the same reason old globals are never cleaned, and `spy_clean_old_global` is not
modelled. Who sets the reload and quit flags: no signal handler is installed, and `SpyReload` sets them
whenever. In `SpyPalloc`: pools of a size that is not
a multiple of the alignment (the code creates none: 10240, 1024, 128), contents of the memory, and
`spy_pfree` of an address the list does not hold. More than ten timers: the array of the
heap has ten entries. Wrap-around of the clock. The branch of
`spy_select_add_event` for an event of the wrong kind: no caller takes it. Failures of `close(2)`.
`spy_select_init` when the index exists already and `spy_select_done`: the backend is initialised once,
reload or not. The flags of `-h` and `-v`, which nobody reads.

* *The bytes of the greeting.* It is a number of parts, which the kernel takes in any split, and stands for what
  lies between `pos` and `end` of its buffer. `spy_create_temp_buf` gets 52 bytes (`spy_mysql_packet.c:67`),
  `spy_proxy_create_acl` writes 56 (lines 155-203; the version "5.5.12" takes 7 with its NUL), and
  `end - pos`, 52, are sent (line 84). "The greeting is out" therefore means here that the buffer is out, without
  the last four bytes of the packet, and no property speaks of the four bytes written past its end.
* *Blocking sockets.* Only listening sockets are made non-blocking (`spy_connection.c:103`); an accepted one is
  what the kernel makes it (`spy_event_accept.c:26-107`). BSD kernels hand down the listening socket's
  O_NONBLOCK, and `send` may be short or answer EAGAIN, which `spy_send.c` and the handler provide for. Linux
  does not: there `send` waits for room, and the process with it. The models follow the code and let any `send` be
  short, which includes what happens on Linux but for the waiting: a greeting that takes several turns, and so
  the run `premature` and what `GreetingsFinish` adds, is of the first kind of kernel.
* *Descriptors of FD_SETSIZE and above*, for which FD_SET (`spy_event_select.c:83-86`) has no bit and writes
  outside the set. Nothing keeps them away: `connection_n` is configured, and no code compares. The models are
  of descriptors below it.
* *Timers of connections.* No code sets or deletes one today (the calls in `spy_close_connection` are
  commented out), so `SpyTimer` is about the functions of `spy_event_timer.h` called in any order.

**Not modelled.** `core/spy_alloc.c` and `core/spy_largealloc.c` are an older allocator: it defines
`spy_alloc` again, with other parameters than the wrapper of `malloc` (`os/unix/spy_alloc.c`) that every
caller uses, so that it cannot be linked into the program. Strings and formatting (`spy_string.c`,
`spy_math.c`) and the wrappers of system calls have no state and no control that other parts depend on.
`spy_queue.h` is used nowhere, and `spy_unix_recv` is stored in every connection and called by nobody. `liedentd.c` is a third-party daemon,
`spy_test.c` and the programs under `src/lua` are for trying things out.

**Seen on the way, and part of no property.** The shipped `lua/spy.lua` is not a Lua program (a comma is
missing at the end of line 5) and sets `worker_connections` (line 6) where the code asks for
`work_connections` (`spy_conf_file.c:38`). The value of a string key is assigned to a parameter
(`spy_lua.c:96`) and lost. The prefix gets its final "/" (`spy.c:187`) when its *first* character is none
(line 192). `spy_log_init` builds the full name of the log from the buffer it has just allocated, not
from the path (`spy_log.c:179`). Closing a client frees its slot and its descriptor but not its
pool: `spy_create_pool` (`spy_event_accept.c:61`) has no `spy_destroy_pool` of `c->pool` anywhere, though the
comment at `spy_connection.c:291` speaks of that pool in the past, so the memory of every client stays
allocated for the life of the process.

## 3. What is checked

| Run | Instance | Distinct states | Question |
|---|---|---|---|
| `select` | 3 slots, 4 descriptors | 98,778 | is the free list right however slots come and go, and is it the abstract pool? do index, master sets and `max_fd` agree whatever is watched, ignored or closed? |
| `posted` | 2 slots (4 events), 2 queues | 1,569 | are the queues well linked, and are they stacks without duplicates? |
| `event_loop` | 3 slots, 1 listening socket, greeting in 2 parts, 3 clients | 446,340 | do the parts still hold together under the real handlers, and does each client get a session of its own? |
| `event_loop_live` | 3 slots, 2 listening sockets, 2 parts, 3 clients, fairness | 26,211 | is every client served, does every greeting go on? |
| `authentication` | 3 slots, 1 listening socket, 1 client | – | is there a handler for the client's answer? (no) |
| `premature` | same | – | is only a client that left reported gone? (no) |
| `timers` | 6 timers and the cleaner's, 2 delays | 64,455 | is the heap exactly the timers that are set, in order where expiry needs it? |
| `wakes` | 2 timers and the cleaner's, 3 ticks | – | does `select` wake for the first timer? (no) |
| `reload` | 3 slots, 2 addresses, 5 descriptors, 4 configurations, other processes | 692,123 | over any reloads, are the sockets, the free list and the watched events of the process what it believes? |
| `reload_unbound` | 2 addresses, nobody else | – | is every address listened to after a reload? (no) |
| `palloc` | 5 blocks, 2 large allocations, an array or list of 3 elements | 420,773 | do regions stay apart, is nothing freed twice or lost, and does the search for room start where it should? |
| `start` | 5 descriptors, 5 keys | – | does a start in which nothing fails launch the process? (no) |

**The bounds and why they are enough.** `connection_n` is the size of the pool: 3 slots give every
order of a list with a first, a last and an inner element (the theorems are about any number); in the loop one or two slots belong to
the listening sockets, and `MaxClients` exceeds the slots left, so that the pool runs out, a client
is refused, and a slot is recycled. `PacketParts = 2` is the smallest greeting that can be cut
short. `Fds` has one descriptor more than there are slots, the one `accept` returns when the pool
is full; the kernel gives out the lowest free one. In `select` any free number may
be given out, so nothing there depends on that, and a single call reports any subset of
what was offered. Its states are told apart by what is ever read (`LiveTables`): not by the entries of the
index beyond `nevents`. `MaxClients` bounds how many clients ever connect; it is in the guard of `Connect`.

`timers` needs six timers: with fewer no deletion from the middle can upset the order, and no sift
goes two levels down and has two children to choose from. Its states are told apart by what is in the
heap (`LiveTimers`), as only expiry looks at what deleted timers left. Two delays give ties and both
orders. `MaxNow` bounds the clock in `wakes`. Six descriptors in `reload_unbound` are enough for two
globals with two sockets each and two left over by failed reloads; then `socket()` fails.

`reload` has a slot more than there are listening sockets, so that a client is there when the sockets go;
five descriptors, so that the numbers of closed sockets are given out again while they are still
watched, to sockets and, before the reload, to clients. One of the two addresses may be taken by other
processes. States are told apart by what is read (`RunningState`).

`palloc` counts in units of half an alignment. Each block has room for one header, or for two small
things, so that every allocation may meet a full block, a rest too small once aligned, or fresh memory.
`MaxFailed` and `Scanned` (4 and 5 in the code) are 0 and 1, so that a freed entry may lie beyond those looked at
and the current block moves on: a block fails once for each block made after the one behind it, and is passed
over at its second failure, so the first is when a fourth block is made and the second when a fifth is. Five
blocks therefore show it move twice, the second time from a block that is not the first. One array or
list at a time (`NoUser`), of at most `MaxElements`.

**The properties.**

* `PoolFreeListOK`, `LoopFreeListOK`: following the links visits exactly the closed slots, once each,
  and the counter is their number. `ImplementsConnectionPool` is checked of the pool with the backend and
  of the whole loop.
* `SelectTableOK`, `SelectMasterSetsOK`, `SelectMaxFdOK`, together `LoopTablesOK` in the loop: every active
  event has one entry that knows its place; the master sets are the descriptors of the active
  events; `max_fd` is invalid or the highest of them.
* `PostedLinksOK`, `LoopLinksOK`: `*(ev->prev)` is the pointer that points at `ev`. `ImplementsStacks`: an
  event posted is handled once.
* `DescriptorsOK`: what the process has open is what its connections hold, each its own.
* `NoPostedEventWhenRecycled`: no slot is recycled under a posted event. It holds because the queue
  of accepting events is emptied before the other one and no handler of the other one takes a slot;
  the calls that would make it obvious are commented out in `spy_close_connection`.
* `NoSilentConnection`: a connection whose greeting is not out is watched for writing, one whose
  greeting is out for reading.
* `ImplementsSessions`: the loop implements `Sessions`. Every step changes at most one client's session; a
  session begins on a descriptor no other has, what is left of its greeting never grows, and it
  ends. The handlers reach the client through pointers (event, connection, request and back), and slots and
  descriptors are recycled.
* `ClientsServed`, `GreetingsFinish` (liveness).
* `HeapTimersOK`: every entry of the heap knows its place, and the heap holds the connections' timers
  that are marked as set. `ImplementsTimerSet`: setting and deleting acts on the timer meant.
* `OrderKept` (action property): setting, moving and deleting a timer keeps the heap in order, at any place,
  unless the last timer, which takes the place of the one that leaves, is due before the one above that
  place. It should rise then and only sinks, and the order may be lost; the root has nothing above it.
* `RunningSocketsOK`, `ReloadAllOrNothing`: what the running global holds listens to what it should; a
  failed reload leaves it alone, a successful one closes exactly the old sockets, and neither touches a
  client's. (Sockets of a *failed* reload are leaked, as nothing marks them `open`; the properties do
  not say otherwise.)
* `RunningFreeListOK`: the slots of the first global, freed into whatever global runs, form a list of
  closed slots, each once, none of them a listening socket's, with the right counter.
* `ReloadWatchOK`: a bit in a master set stands for the socket it was set for or, until the next `select(2)`
  drops it, for a closed one, although nobody tells the backend what a reload closed and numbers are
  given out again; and clients stay watched. It holds because the loop calls `select(2)` between any two
  reloads, and the repair drops every closed descriptor at once.
* `RegionsOK`: no two callers hold the same memory, and none holds a header or what the pool still has
  to give. `LargeListOK`: the list holds exactly the large allocations that are not freed, each once, so
  that destroying the pool frees each once. `CurrentOK`: the blocks passed over are exactly those that failed
  more than `MaxFailed + 1` times.
  `ElementsOK`: the elements of an array or a list lie in memory it holds, after any pushes.

**Fairness.** The loop's process is scheduled, so that a turn it can take for ever is taken (weak
fairness). `accept()` may fail, but not every time while a client waits (strong fairness: its event
heads the queue at intervals only). A client that stays reads what it is sent (weak fairness of
`ClientReads`). Nothing is assumed of connecting, answering or leaving, of `ProcessFailed`
(interrupted calls), or of which listening socket is served first. The two conditions on the loop
are written out with the actions' guards rather than with WF and SF, as TLC's evaluation of ENABLED
for a whole handler is too slow.

**The violations.** `authentication`: `spy_mysql_packet.c:114` announces "handle client
authention packet" (so spelt), and the code sets the read handler to NULL and watches the event; a client
that answers makes the loop call NULL. `premature`: when the last part of the greeting goes out in
a later turn, the write event stays watched, fires again, sends the zero bytes left, and the client
is logged as "client closed prematurely connection" (line 103) and closed while it is there. This takes a
socket that does not block (see "Blocking sockets" in section 2). `wakes`:
the macro `spy_minheap_min` yields `node[1]` while the root is `node[0]`, so that the loop sleeps past the
first of two timers; with one timer left it may yield a timer deleted before, handle that one again
and lose the live one. `reload_unbound`: sockets are inherited before `spy_proxy_init` creates them,
so none is; the bind to the address the process itself uses fails with EADDRINUSE, which is passed
over without a retry or an error; then the old socket is closed and nobody listens. `start`:
`spy_global_init` opens the files in the new list of open files ("打开文件", line 147) while the list is
empty, and puts the log "spy.log" in it afterwards (line 187). `main` redirects stderr to that log's
descriptor, -1, `dup2` fails, and `main` returns before "启动" (`spy.c:98`). The models of the loop, the
reload and the handshake are about what comes after that call, from the state `spy_event_init` builds.

Every property of a passing run has a mutant: an operator next to the one it replaces, marked
"Mutant" in the module, with a plausible slip (a counter not updated, a moved entry not told, a
guard dropped). TLC finds each property violated with its mutant in place.

## 4. What is proved

For every value of the constants that their assumptions allow. The assumptions say what the C
counterparts are: at least one slot (`ConnectionNAssumption`), pointers and markers distinct from what
they are compared with (`NullAssumption`, `RequestAssumption`, `QueuesAssumption`, `AddressAssumption`),
descriptors are numbers (`FdsAssumption`); the rest is named below. Each proof starts from the inductive
invariant of its component, which TLC checked before it was proved.

**Connection pool** (`SpyConnection_proof`).
`PoolAlwaysOK`: `PoolSpec => [](PoolTypeOK /\ PoolFreeListOK)`. The type of the
counter is not inductive by itself: it stays within the array because it is the length of a list
that visits no slot twice (`ShorterThanArray`, the pigeonhole principle). Each operation gets a
lemma about an arbitrary well-formed pool, with the list after it given explicitly: the tail, or
the slot in front. `PoolImplementsConnectionPool`: the head is free, and it is NULL exactly when every slot
is held (`RefusesWhenFull`).

**Select backend** (`SpySelect_proof`). `SelectInvariant`, and from it `SelectTypes`, `SelectTable`,
`SelectMasterSets` and `SelectMaxFd`, one for each property of the run. The invariant `SelectIInv` adds to
them that the pool is well formed, that only
open connections are watched (else taking a slot would clear an event that is in the index) and
that open connections have distinct descriptors (else deleting one event would clear the bit of
another). `RoomForOne` shows that `event_index` never overflows; `FiniteMax` that the recomputed
maximum exists.

**Posted queues** (`SpyPosted_proof`). `LinksAlwaysOK`: `PostedSpec => [](PostedTypeOK /\ PostedLinksOK)`, by a
lemma for each of posting, deleting any posted event, and clearing a slot without posted events. Links that
agree do not exclude a ring of events that no queue reaches; `NoPostedEventIsLost` does: when both queues are
empty, no event believes it is posted. Its invariant `EndsOK` says that going back from a posted event one
gets to a queue: no set of posted events holds the predecessors of all its members.

**Event loop** (`SpyEventLoop_proof`). `LoopInvariant`: `LoopSpec => []LoopIInv`, and from it a theorem for
each invariant of the run: `LoopTypes`, `LoopFreeList`, `LoopTables`, `LoopLinks`, `NoDescriptorLeaks`,
`RecyclingIsSafe`, `NoClientForgotten`. The invariant is that of the three components together with

* `BaseOK`: the descriptors the kernel has open are those of the pool, listening sockets keep their
  slots (`ListenersOK`), and accepting events and no others have the handler `spy_event_accept`
  (`HandlersOK`);
* `SortedOK`: an event's predecessor in its queue is of its own sort, so that the queue of accepting
  events holds no other;
* `PostedAreOpen`: until the first queue is empty every posted event belongs to an open connection.
  From then on closing leaves events behind, and nothing takes a slot;
* `Heard`: a client is watched for what it is waiting for.

A handler is one step but passes through states of its own, in which the kernel's descriptors and the pool
disagree. So each part is stated of any state record, and the lemmas follow the calls: what closing,
sending (`Handles`: one client is touched, and perhaps closed) and accepting (`Accepts`: one slot
is taken, or none) do to a record that is in order, from the lemmas of the components. The loops of `spy_event_init` and `spy_select_process_events` are iterations over
the slots and the index; `FiniteInduction` shows that such iterations exist and carries an invariant through
one. `LoopAssumption`: at least one listening socket, no more than there are slots, with descriptors the
kernel gives out; a greeting has parts.
`LoopImplementsConnectionPool`, `LoopImplementsSessions`: every step of the loop is a step of the abstract
pool or a stutter, and a step of one client's session or a stutter. The handlers reach the client through pointers; that
they reach one only, and the right one, is what the second shows.

**Timers** (`SpyTimer_proof`), as they are set and deleted (`ApiSpec`). A sift follows a path (`PathOK`): each
turn of the loop gets closer to an end, so no place comes twice, and
every place but the first comes next after exactly one other. From that alone, `SiftOK`: no timer is lost or
doubled and each one knows its place. `MinheapInsertOK` and `MinheapDeleteOK` add what the comparisons give:
a heap in order stays in order, place by place (on the path, off the path, with a parent on it), for a deletion
if the last timer fits under the one above the hole. The invariant
`TimerIInv` says that before the heap exists only the cleaner's timer is set, and afterwards the heap has
room for all timers but that one, which is set already and so never inserted; `RoomForOne` (pigeonhole) shows
that an insertion is never refused then, which `spy_event_add_timer` relies on without a look. Theorems:
`TimerTypes`, `HeapHoldsTimersSet`, `SiftsKeepOrder` (the action property `OrderKept`) and
`TimersImplementTimerSet`. `TimersAssumption`: finitely many timers, no more than the array's ten entries,
and delays that are positive, the lazy one (300 ms) included: a timer that is set again is moved only if
its time differs by that much, so never when it would be the same.

**Memory pools** (`SpyPalloc_proof`). `PallocInvariant`, and `PallocTypes`, `NoMemoryIsSharedInAPool`,
`LargeAllocationsAreListedOnce`, `OnlyTiredBlocksArePassedOver`, `ElementsHaveRoom`. What the run checks is not
inductive. `RegionsOK` needs that no region is empty (`Within`): an empty one at the end of a block would survive
giving back the region before it, and then lie in free memory. `CurrentOK` needs that from the current block on no
block has failed more often than one before it (`PassedOK`), as `spy_palloc_block` moves `current` behind the
last tired block without a look at those in between. The array and the list need to be apart from
what they give back (`ArrayOK`, `ListOK`). Each operation has a lemma on what it yields, as a set of
outcomes, for any pool in order. `PallocAssumption`: the block's size and the pool's header are multiples of
the alignment, and the header of a large allocation or of an array is small and fits in the first block (the
largest has 40 bytes; the smallest pool, of 128, has 64 left). What `malloc` yields is in no block
(`AddressAssumption`).

**The process across its reloads** (`SpyReload_proof`), for any configurations, of any length.
`ReloadInvariant`, and from it `ReloadTypes`, `ReloadRunningSockets`, `ReloadFreeList`, `ReloadWatch` and
the action property `ReloadAtomic`. The invariant `ReloadIInv` holds what `SelectIInv` says no longer
together: a watched event's slot may be a listening socket's whose descriptor was closed, and given out
again, behind the backend's back. So `BitsOK` reads a bit by the slot it was set for: a client's bit stands
for an open client, a listening socket's for that socket or for a number that is free, and it is `BitsLive`,
true while handlers run, that excludes the second before `accept` can give the number to a client. What
makes it come true is that no bit lies above a valid `max_fd`: `select(2)` is offered every bit, fails with
EBADF if one is closed, and the repair drops all of those (`WatchSelect`). In between only a reload and the
next `select(2)` may come.

Opening the sockets of a new global, with every way to fail, changes no descriptor but those that were free
(`OpenOneOK`, and `OpeningOK` for any number of addresses), so that a rollback, which closes what is marked
`open`, closes nothing, and a commit closes the old sockets only (`GlobalInitLeaves`,
`GlobalInitReplaces`). The free list of the running global visits *some* of the closed slots that are no
listening socket's (`RunningList`): those freed into an earlier global are lost, which is why the lemmas of
`SpyConnection_proof` do not apply and taking, closing and clearing have their own. The loop of
`spy_event_init` is given in closed form, slot by slot (`ListenOnAllIs`). What adding and deleting an event
does to the index is cited from `SpySelect_proof`. `GlobalAssumption`, `ReloadAssumption`: addresses are
none of the kernel's other answers, nor NULL.

**Only model-checked:**

* liveness (`ClientsServed`, `GreetingsFinish`): fairness and ENABLED are beyond the provers here;
* `ImplementsStacks`: its mapping follows the links as far as they go, and what a recursive definition
  computes is not provable here in general. Of its content `PostedLinksOK` and `NoPostedEventIsLost` are
  proved; the order of the events is not;
* the violations, which are single counterexamples by nature, and `SpyStart`, which has no other run.

## 5. Plan

Done: all modules of section 2, their runs, and the theorems of section 4. Left: the
order of the events in the posted queues, as far as it can be proved without following the links (that the
stacks of `PostedStacks` change at one end only, by a history of postings).

Not planned: what section 2 lists under "Not modelled".
