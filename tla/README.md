# A verification project for gittest

`gittest` is a collection of C and C++ components: a lock-free ring and an
asynchronous logger built on it, a thread pool on a linked-list queue, a hash
map on linked lists, a DPDK example, and small utilities. This directory models
these components in TLA+, model-checks them with TLC on small
instances, and proves all of their safety properties for every instance with
TLAPS.
`PROJECT.json` holds the same facts in a form for tools: components, runs,
mutants, the map from definitions to source lines, hazards, theorems.

To repeat the work, in this directory: `tlc -config X.cfg M` for a run of the
table below, `tlapm M.tla` for the modules with proofs.

## 1. Inventory

| component | state | operations | who acts at once | what makes it correct |
|---|---|---|---|---|
| ring, `x_ring/x_ring.c` | `prod` and `cons` head and tail indexes, table of entries with their buffers | sp, sp2, sp3, mp enqueue; sc, mc dequeue; create, destroy; count, free_count, full, empty | producers and consumers without a lock | cursors never overtake each other, one thread at a time inside an entry, first in first out, nothing lost or doubled, every spin ends |
| log, `x_ring/x_log.c` | level, status, the ring, the file, `log_count` | x_log_create, x_log_write, x_log_destroy; the log thread | writers, one log thread | a message that passes the filter reaches the file, in its writer's order |
| thread pool, `threadpool.cpp` | mutex, two condition variables, queue of tasks, `queue_size` | add_task, work, constructor, destructor | callers, workers | the count is right, each task runs once, nobody sleeps while there is something to do |
| list, `link_list.c` | head and nodes on the heap, linked both ways | creat, insert, find, delet, fetch, travel, travel_delete, check, getnum, clear, destroy | nobody (sequential); callbacks inside loops | links agree, no use after free, no leak, each call does to the sequence what its name says |
| queue, stack, `queue.c`, `stack.c` | a list | enq/push, deq/pop, creat, destroy | nobody | first in first out; last in first out |
| hash map, `hash_map.cpp` | table of lists, capacity, size | init, insert, find, has_key, erase, clear, get_size, destructor | nobody | it is a map, its size is that of the map, blocks are freed once |
| bonding example, `dpdk-examples/bond-kni` | the ports and their queues, `slaves`; LcoreMainIsRunning, LcoreMainCore, counters, a spinlock; the burst of each lcore | slave_port_init, bond_port_init, lcore_main, main, commands start, stop, quit, show, send, help | lcores, main, command thread | every port becomes a slave or the start fails, each lcore has a queue of its own, answers go back to who asked, each packet is freed or sent once, counters count packets, stop stops |
| string utilities, `utils.c` | none | hex, digits, dotted address, case | nobody | conversions are inverse to each other and total on their inputs |
| `ipv6_add.c` | none | ipv6_addition | nobody | addition modulo 2^128 |
| `linux_utils.c` | the file system | path_exist, is_dir, create_path | other processes | after success the path exists; a failure has a reason, or another process made a part of it |
| `mylog.c`, `debug_print.cpp` | two levels, a callback, the text of errno | set level, set callback, print, xstrerror | threads without a lock | a message is judged by a level, and goes to a callback, in force during its call |
| `bpf/bpf_demo.cpp` | the queue of the socket, the receive buffer | init_filter, receive | the network | what is printed after the filter is attached is exactly what the filter is meant for, with its own port |
| `test/`, `libs/` | - | tests, a link | - | - |

How they interact: the log and its threads share one ring; a log writer spins
on a full ring until the log thread has made room. The thread pool, the queue,
the stack and the hash map call the list; the pool does so under its mutex, the
others from one thread. The list calls back into cmp, op and node_check of the
caller while a loop is under way. In the bonding example main starts the
command thread before it starts the lcores; all of them share the flag, the
counters and the spinlock of `global_flag_stru`.

The hard behaviours are: the interleaving of ring accesses and the wrapping of
its indexes; lost and spurious wakeups and the failure of an allocation in the
pool; pointers held across a free in the loops of the list; memory that runs
out between two allocations; a lock that is tried, not taken, and released
anyway in the bonding example, and its start and stop races; directories that
appear between lstat and mkdir; settings that change under a thread that prints;
threads that could not be started, which neither the pool nor the log notices;
packets that were queued before their filter. `hazards` in
`PROJECT.json` lists them at their lines, each with the properties that would
catch it, or the reason why none does: mostly that a model has the behaviour,
and that no document of the repository excludes it, so that there is nothing to
hold it against. A hazard with both has a part that its properties leave out.

## 2. Modules

| module | what it is | follows |
|---|---|---|
| `BoundedQueue` | abstract: a bounded first in, first out queue | what callers of the ring and of the pool expect |
| `XRing` | the ring, one action per shared-memory access: calls and queries | `x_ring.c` 8-313, 342-368 |
| `RingSize` | the size of a ring as a function of the count, in two widths | `x_ring.c` 25-54 |
| `DataLemmas` | facts about numbers, sequences, finite sets and sums, for the proofs | |
| `XRingProofs` | proofs about `XRing` | |
| `MCXRing` | symmetry for a run of `XRing` | |
| `XLog`, `MCXLog` | the log, composed with `BoundedQueue` for its ring | `x_log.c` 62-178: creation, writers, log thread, destruction |
| `XLogProofs` | proofs about `XLog` | |
| `ThreadPool` | the pool, one action between two pthread calls | `threadpool.cpp` 17-111 |
| `ThreadPoolProofs` | proofs about `ThreadPool` | |
| `LinkedList` | the list over an explicit heap, one action per loop iteration | `link_list.c` |
| `LinkedListProofs` | proofs about `LinkedList` and `QueueStack` | |
| `PutTake` | abstract: a queue, or a stack | what queue.h and stack.h offer |
| `QueueStack` | queue.c and stack.c as users of `LinkedList` | `queue.c`, `stack.c` |
| `Dictionary` | abstract: a partial function from keys to values | what hash_map.h offers |
| `HashMap`, `MCHashMap` | the map, over lists as sequences | `hash_map.cpp` |
| `HashMapProofs` | proofs about `HashMap` | |
| `BondSetup` | main until the lcores are started: ports, slaves, queues | `main-bond-kni.c` 107-350, 389-402, 545-575 |
| `Frames` | how a frame is told apart, turned round, or built | `main-bond-kni.c` 352-508, `cmd.c` 155-201 |
| `Bond`, `MCBond` | the two above with lcores, main and command thread | `main-bond-kni.c` 376-619, `cmd.c` 139-441 |
| `BondProofs` | proofs about `BondSetup` and `Bond` | |
| `Paths` | create_path, one action per lstat and mkdir | `linux_utils.c` 17-68 |
| `Strings` | hexadecimal, dotted addresses, comparison without case | `utils.c` 47-258 |
| `Ipv6Addition` | the addition, with words of any number of values | `ipv6_add.c` 6-39 |
| `MessageFilters` | the printers and setters of messages, one action per access to a static variable | `mylog.c` 56-118, `debug_print.cpp` 11-52 |
| `PacketFilter` | the filter program with its interpreter, the socket, the loop of main | `bpf_demo.cpp` 46-147 |
| `FunctionCall` | a function without a state is called once: `given` is its name and its arguments | |
| `Utilities` | composes `Paths`, `MessageFilters` and `PacketFilter`, of which one runs, with the functions of `Strings`, `Ipv6Addition` and `RingSize`, of which one is called | |
| `UtilitiesProofs` | proofs about all of these | |
| `MCUtilities` | symmetries, and the datagrams of `PacketFilter` | |

The composition goes upwards: `XRing` implements `BoundedQueue`, and
`XLog` is built on `BoundedQueue`; `LinkedList` keeps the promise of a sequence
(`PromiseKept`), `QueueStack` extends it and implements `PutTake`, and
`HashMap` and `ThreadPool` use sequences where the code uses lists. `HashMap`
implements `Dictionary`, and `ThreadPool` `BoundedQueue`. These implementations
are proved as well as checked (section 4).

### XRing

`prod`, `cons` and `ring` are the shared struct. `pc[t]` is the place of thread
t in its call, `loc[t]` its local `prod_head` or `cons_head`. `LoadProdHead`,
`EnqueueFull`/`EnqueueRoom` (the check against `cons.tail`), `SpStoreHead` or
`MpCmpSet`/`MpCmpSetFails`, `CopyIn` (free, malloc and memcpy as one step: they
touch only the entry), `MpWaitTail` and `StoreProdTail` are the steps of the
enqueue functions; the consumer mirrors them. The constants `EnqueueFn` and
`DequeueFn` say which of the functions the threads call. Indexes are wrapped,
as in the code. History variables count without wrapping (`enq`, `nPub`,
`nTake`, `nRel`, `abs`) and note in `stale` that a compare-and-set succeeded
from an index that had been outdated and had come round again.

The threads in `Queriers` also ask: `QueryProd` and `QueryCons` are the two
loads of x_ring_full, x_ring_empty, x_ring_count and x_ring_free_count, and
`query` keeps the answers these loads give until the thread begins its next
call. The header says only what the queries return, not when: the answer is a
promise to the sole producer (room) or the sole consumer (entries), and no more
than that. A third thread can be told that the ring is full when it never was:
if both sides move between the loads, the difference wraps; this is why only
producers and consumers ask.

`RingSize` rounds as x_ring_create does and shows that the mask of the code is
the `%` of `XRing`; above half the range of an unsigned int the size is 0.

### XLog

`Create` and `CreateFails` are x_log_create, one action, as nobody else has the
log before it returns; a log thread that could not be started is not noticed
(`thread`). A writer filters (`Write`, with the comparison of two ints as
unsigned numbers, where `IntMax` is INT_MAX) and hands over (`Enqueue`, which waits where
the code sleeps and tries again). `passed` notes what a reader of the levels
would expect to be logged, so that `InOrder` is about the filter as well as
about the way to the file. The log thread is `Dequeue`, `Fwrite`, `Count`.
`Destroy` is x_log_destroy, after which the log thread goes on: it never reads
the status. `x_log.c` calls x_ring_create with one argument while `x_ring.h`
declares two, so the file does not compile as it is; the ring of the model has
the size that was asked for.

### ThreadPool

A thread that waits on a condition has released the mutex; signal, broadcast or
a spurious wakeup make it compete for the mutex again and test anew. `lost`
notes the tasks for which `queue_enq` found no memory: the code counts them all
the same, and the worker that then finds no task runs `continue` with the mutex
locked. A worker whose pthread_create failed is "absent" from the start: the
constructor does not notice. `Destroy` is the deletion of the pool at any time after the last
add_task, as `test/threadpool_test/main.c` does it.

### LinkedList, QueueStack, HashMap

The heap is `next`, `prev`, `data` and the set `live`. `Call` begins a function
with a loop; each iteration is a step, so invariants hold in the middle of a
loop too. The callbacks are the sets of data they match or stop at. Reading a
node after its free is visible: `Unlink` and `FreeOnly` clear its pointers, and
`CursorLive` says that the loop variable is the head or a live node.
`QueueStack` restricts the calls to those of the two files. `HashMap` starts
with any hash function into positive and negative codes and any capacity;
`blocks` counts the keys and values on the heap.

### BondSetup, Frames, Bond

`main` runs through its phases alone until it starts the command thread and the
lcores, so `BondSetup` has one action for the calls that set up one port, and
`SetupFails` for those that end the process. `slaves` is filled by port id and
read by position; what `rte_eth_bond_create` returns and
`rte_eth_bond_slave_add` refuses is stated at its head. `Frames` has the frames
as records of the fields the code reads and writes; `Answer` rewrites a request
in place, field by field, as lcore_main does, `ArpRequest` is the frame of the command send, and
`AnswerReturns` lets a peer that runs the same code answer it.

`lock` is the spinlock, which `rte_spinlock_trylock` sets and
`rte_spinlock_unlock` clears whoever had set it. `Test` is the loop test of
lcore_main with its release, `Poll` and `PollEmpty` the receive burst,
`CountSkipped`, `CountLoad` and `CountStore` the three counters, which alone
look at the result of trylock, `Dispose` the rest of the body for one packet.
`Arm`, `LaunchAll` and `Exit` are main; `Command` and the steps named after the
commands are the command thread. After `RTE_LCORE_FOREACH_SLAVE` the variable
`slave_core_id`, and so `LcoreMainCore`, is RTE_MAX_LCORE: the state that stop
and quit wait for lies behind the array, and may be any of `Behind`. A start
that comes before main has launched the lcores launches lcore_main without its
argument, and the process crashes.

### Paths, MessageFilters, PacketFilter, Strings, Ipv6Addition

`kind` is the file system seen through lstat: nothing, a directory, or an
obstacle, which a symbolic link to a directory is for is_dir too. `FindsDir`
and `FindsNoDir` are the lstat, `Mkdir` and `MkdirFails` the mkdir of one part
of the path; the system may refuse a mkdir at any time. Nobody removes
anything.

In `MessageFilters` a call is a record of how far it is; its history is the
levels and callbacks in force since it began. The second read of `log_fn` may
or may not be made by the build, and finds NULL if the callback was taken away
in between: the process crashes. In `PacketFilter` a datagram is what is found
at the offsets the program or main reads; `Run` is the function that executes
`code_tcp` one instruction after the other, in which a load behind the end
refuses the datagram, and `Receive` overwrites only as much of
`packet_buf` as the datagram is long.

The other modules are functions, each with its property; characters are their codes, as
the code computes with them. strcmp_nocase takes any difference of 32 for one of
case: right for hexadecimal digits, which is where the model uses it, but it
also equates "0" with "P", and a space with the end of a string.

## 3. Runs

| run | instance | what it shows |
|---|---|---|
| `ring_spsc` | one sp producer of 7 objects of two sizes, one sc consumer, both with queries, Size 4 | indexes in the table, copies that fit, success means enqueued, and what a query promised holds; the order of the cursors and exclusive entries are proved for this case |
| `ring_mpsc` | two mp producers, 4 objects each, one sc consumer, Size 4 | cursors in order while no head is stale, steps of `BoundedQueue`, every spin and every retry ends |
| `ring_mpmc` | two mp producers, two mc consumers, Size 4, 3 objects each | exclusive entries and delivery at most once, unless a head is stale |
| `ring_mp_lap` | two mp producers, Size 2 | violation: a head is moved from a stale index |
| `pool_run` | two callers of 3 tasks, two workers, queue of 2, one allocation failure, one spurious wakeup, deletion, any worker missing | each task once, no idle worker beside a task, no caller blocked beside room, everything runs, steps of `BoundedQueue` |
| `pool_no_memory` | the same, one task less | violation: the worker relies on a count that includes a task that was not stored |
| `list_all` | three nodes, two data; the user is a caller of the list, the queue or the stack | every call sequence; the properties of the list, that every call returns, and that queue and stack implement `PutTake` |
| `hash_map` | three keys, two values, codes -4, -1, 3, capacities 1 to 3, one failure | the map implements `Dictionary`, keys have one home inside the table, blocks are balanced |
| `log_two` | two writers of 2 messages, room for 1, levels -1, 2, 5, 7; creation that fails, a log thread that is missing | the levels up to cfg_level pass, and no others; nothing dropped, doubled or overtaken; everything arrives if there is a log thread |
| `bond_run` | six sets of ports; two lcores, bursts of up to 2, 2 packets of three kinds, 2 commands | no start with a port that is not a slave; queues of their own; answers to who asked; counters only lose, and only under contention; clearing the flag ends the process |
| `bond_freed` | two lcores, four kinds of packets | violation: an answered packet is freed, or an unanswered one is not |
| `utilities` | two processes, two names, paths of up to 2 parts, every tree; two threads, 2 calls and 2 settings; 3 of 12 datagrams; bytes and hexadecimal strings of 2 characters, addresses of up to 5 parts, words of 3 bits, ints of 5 and longs of 7 bits | success leaves directories, a failure has a cause or the path grew; messages are judged by settings in force; what is filtered is what is wanted; the functions compute what they should |

Each property of a passing run has a mutant: a definition with a plausible
mistake that stands just before the one it replaces, and makes TLC report the
property violated.

Bounds, and why they are enough. A ring of 4 has three usable entries, so two
producers can hold reservations while a third entry is free, and 7 or 8 objects
let every index wrap more than once; a ring of 2 is the smallest and shows the
lap with the fewest steps. Two threads on each side show every order of two
reservations and of two publications; the proofs remove these bounds. A pool
queue of 2 with 6 tasks is full and empty in turn with both callers blocked.
Three nodes make a list with a first, a middle and a last, two adjacent
deletions, and an empty one. Three keys over capacities 1 to 3 share a list in
every combination, and the codes cover both signs and a multiple of a capacity.
In the log the ring has room for one message of two writers, and the levels
cover negative, inside and above. In `bond_run` two packets are enough for two
lcores to count at once or for one lcore to have two bursts; their three kinds
are an ARP request, IPv4 behind two VLAN tags, and a request behind a third,
which is neither counted as ARP nor answered. Two commands are enough for a
stop followed by a start; the third actor that breaks the lock is the
other lcore or the command thread. With at most two ports allowed, the sets of
ports are none, the right ones, too many, and gaps before, between and after.
Two settings install a callback and take it away again during a call. Three
datagrams are one before the filter and two after it, of which the shorter one
follows; the twelve kinds lie on both sides of each comparison of the program
and of each end of a datagram. Widths: the log uses an INT_MAX of 7 for the
conversion to unsigned, with values on both sides of the sign; the addition
has all 4096 addresses of four 3-bit words and all addends, so carries and
borrows pass every number of words; ints of 5 bits have counts on both sides of
half the range, and longs are wider, as on the platform. Two parts of a path
and two processes show a race lost on the first and on the last part, with the
same and with different paths.

Deadlock is checked in `list_all` and `ring_spsc`, where another
call is always possible (of the ring: a query); the other
runs end when their callers have nothing left to do.

Fairness. Ring: weak fairness for each thread inside a call, and nothing for
beginning one more than the bound; a compare-and-set may fail again and again
only while others succeed, which the bound limits. Pool: weak fairness for each
client and worker step; a mutex is not fair, which weak fairness of a thread
that competes does not demand beyond the bounded tasks. List: weak fairness of
continuing a call, as the code is sequential and calls are finite. Log: weak
fairness for the log thread and for a writer that tries again. Bond: weak
fairness for each lcore, which has a processor to itself, and for main once it
has started the command thread; nobody has to enter a command, no packet has to
arrive, and the command thread, for which no lcore waits, may sleep in the
middle of a command. No property needs strong fairness.

## 4. Proofs

Every safety invariant, action property and refinement that a passing run
checks is a theorem, for all values of the constants that the assumptions
below allow. Each proof about a component with a state
goes through an inductive invariant (`IInv` in most modules, `Invariance` its
theorem).

`XRingProofs`, for any sets of threads, any Size above 1, any object sizes and
any bound:

- `QueriesAside` (a lemma): a query is a stuttering step of the calls, so the
  steps of the invariant are those of the calls.
- `TypeCorrect`: indexes, local copies included, stay inside the table.
- `Invariance`: `IInv` = types, and, as long as no head was moved from a stale
  index, `Core`. `CursorsInOrder` alone is not inductive: the code compares
  wrapped indexes, and nothing in its state says how often the ring went round.
  `Core` adds that each wrapped index is the image of the count it stands for
  (`Wrapped`), what a thread that has passed its check may still rely on
  (`RoomSeen`, `EntrySeen`), that threads inside the ring hold different
  entries and only the oldest may be published or released (`ProducersHold`,
  `ConsumersHold`), and that live entries hold their objects (`Contents`,
  `Copied`). All live reservations lie in a window shorter than Size, inside
  which equal indexes are equal counts (`WindowInjective`).
- While no head is stale: `CursorsOrdered`, `EntriesExclusive`,
  `DeliveredExactly`; `SuccessIsEnqueued`, for all enqueue functions but
  x_ring_sp_enqueue3, of which it is false; `AnswersReliable`, what the queries
  promise. With sp and sc a head is never stale: `SingleSafe` and
  `SingleReliable` state the same without the condition.
- `CopiesFit`: the memcpy of a dequeue fits, stale heads or not.
- `RingImplementsQueue`: a ring with one consumer, until a head is stale, is a
  bounded queue; the reservation of a producer is not visible in it before it
  is published.
- `TurnsCome`: what `EverythingArrives` needs beside fairness. Every entry
  between the two cursors of a side is in the hands of a thread (`InHands`, an
  invariant of its own on top of `IInv`); so whoever spins in one of the wait
  loops spins for a thread that has its turn, and a ring that refuses the latest
  head is full, or empty, while somebody can go on. With an outdated head
  x_ring_mp_enqueue may return -X_RING_RET_NOSPACE although there is room: the
  consumers have passed the entry it looks at.

`LinkedListProofs`, for any finite set of nodes and any data:

- `Invariance`, and from it `ListTypeCorrect`, `LinksAgree` (no pointer
  dangles, the two directions agree, also between the iterations of a loop),
  `NoUseAfterFree`, and `DestroyFreesAll`. That the directions agree is not
  inductive: it allows a second ring beside the one through the head, and a
  loop that removes a node which is its own successor would go on with a freed
  one. The invariant therefore says that there is a rank of the nodes that
  grows along `next` up to the head.
- `SequenceInvariance`: a second invariant, `SInv`, says which sequence of
  nodes the list is: in a loop, what the call has left of the nodes it has
  passed, followed by the nodes still to come; between calls, what the last
  call promised. From it `LoopsPassEachNode`, `NothingLeaks` and
  `CallsDoWhatTheySay`.
- `LoopsEnd`: what `CallsReturn` needs beside fairness. Each iteration leaves
  one node less to pass, and none is left exactly when the loop variable is at
  the head, so no change of the links makes a loop go on for ever.
- `AdaptersImplement`: the calls of queue.c and stack.c are steps of `PutTake`.

`ThreadPoolProofs`, for any finite sets of workers and callers, any capacity,
any number of tasks, failed allocations and spurious wakeups:

- `MutualExclusion`, from the owner of the mutex and the labels of the others.
- `TasksExactlyOnce`: a task is in one place, in the queue, with a worker, run
  or lost (`OnePlace`, which keeps the numbers of `Balanced` in step with the
  sets of `Somewhere`). `TaskUnlessLost`: the count that add_task and the workers test is
  the length of the queue plus the number of lost tasks, so what threadpool.h
  says of the condition variable is true as long as nothing was lost.
- `SignalsSuffice`, `BroadcastSuffices`: while a worker sleeps, the pool counts
  at most as many tasks as there are workers on their way to the test plus
  callers about to signal. Every step of a caller or a worker keeps these
  numbers in step: a task comes with a signal, a signal wakes a sleeper, and a
  worker leaves the test with a task or finds none counted.
- `SomebodyGoesOn`: what `EverythingRuns` needs beside fairness, for a
  `QueueMax` above 0 (with less every call of add_task waits for ever). As long
  as no task was lost the mutex belongs to a thread that will release it
  (`OwnerInside`; after a loss `WorkDequeueFails` leaves it locked). If nobody
  could go on, the sleeping workers would mean that no task is counted
  (`NoIdleWorker`) and a sleeping caller that the queue is full
  (`BlockedOnlyWhenFull`), so nobody sleeps in add_task and, the places of
  the tasks being empty, all have run.
- `PoolImplementsQueue`.

`HashMapProofs`, for any keys, values, hash function and capacity: the entries
of all lists are one set with at most one entry of a key, each in the list its
key leads to. Hence `OneHomeAlways`, `HeapBalancedAlways` (the loops of clear
and of the destructor add up the lists one after the other; that their sum is
the size of the set is an induction over the indexes), and
`MapImplementsDictionary`.

`XLogProofs`, for any number of writers, messages and any `IntMax`: for each
writer, what it has sent, followed by what it is handing over, is what should
pass the filter. Hence `LoggedInOrder`. `FileFollowsRing` is a refinement across
the threads: the message the log thread holds, followed by the ring, is a
`BoundedQueue` with one place more, whose output is the file; so the messages of
all writers are in the file in the order in which the ring accepted them, and at
most that many accepted ones are missing from it at any time. The filter is arithmetic: which ints, taken for
unsigned numbers, are below a level.

`BondProofs`, for any lcores, ports, packets and bounds. `IInv` has four
parts, each proved with those before it: what main has set up at each of its
phases (`EveryPortBonded`); where each lcore is, that its state is RUNNING
while it is in lcore_main, and that it polls its own queue (`QueuesOwned`);
what is due to a counter, the packets that were processed plus those in the
hands of an lcore that has passed the counter, and that neither a counter nor
what an lcore has read of it is ahead of that (`NeverAhead`, `ExactAlone`); and the answers
(`AnswersReturn`). The lock is not in this argument: it does not exclude
anybody.

`UtilitiesProofs`, for any processes, names, depth, threads and datagrams:

- `PathsMade`, `LostRacesGrow`: a directory stays, so what a process has seen
  of its path remains true; and the part it is about to make was missing when
  it was called, or it has not yet come to it.
- `MessagesJudged`: a call has noted the settings that were in force during it,
  and an xstrerror that shares the buffer with another call knows it
  (`Sharing`).
- `FilterExact`: `code_tcp` is executed one instruction after the other, for
  any datagram; its result is what the filter is meant for.
- `AddsModulo`: what a word cannot hold is a multiple of `Base` that is added
  to the next; four words are four digits of a number.
- `HexKept`: digit by digit, for strings of any length.
- `AddressesKnown`: reading a string ends, part after part, in these parts,
  unless a part is not one to three digits or there are more than four; and no
  character is stored outside `ip_tmp`. The strings are made of the parts of `Octets` and `NonOctets`, in any number.
- `SizesCover`: a number between two powers of two has the bit of the smaller
  one; `&` with the number before a power of two is the remainder, and with the
  number before itself it is 0 for powers of two only. So the loop over the bits
  finds the next power, in words of any width.

These last four are about functions on strings and words, so their
specifications call the function once and change nothing. `UtilitiesCorrect`
says the same of `Utilities`, the specification that the run checks: its steps
are steps of one program and stutters of the others.

`DataLemmas` holds what several of these use: remainders in a window, parts of
sequences, finite sets, sums, recursion over the first numbers. The library's
induction theorems take a predicate, which these provers cannot be given;
where induction is needed, it is by the smallest counterexample, an element of
a set of numbers (`LeastNumber`, `UpTo`).

Assumptions, each named in the module that declares the constants:

- ring: Size above 1, and at most one caller of the functions that the header
  calls not safe for several;
- pool: finitely many threads, at least one worker, `None` not a task;
- list: finitely many nodes, Null and the head apart from them and from data;
- map: codes are ints, capacities positive;
- log: levels are ints, room for one message, `None` not a message;
- bond: lcores below RTE_MAX_LCORE, the master among them, finite sets of port
  ids, finitely many packets, which have the fields of a frame;
- utilities: `Depth` is a number, callbacks are not outcomes, datagrams have a
  length and numbers at their offsets, `Base` is above 1, an int has a bit at
  least and a long no fewer than an int.

Only model-checked: liveness (`EverythingArrives`, `EverythingRuns`,
`CallsReturn`, `EverythingLogged`, `StopIsSeen`), as fairness is out of the
prover's reach. What a fair scheduler has to choose from is proved where threads
wait for each other or a loop has to end: `TurnsCome` of the ring,
`SomebodyGoesOn` of the pool, `LoopsEnd` of the list.

## 5. Where the code and its documents disagree

- `ring_mp_lap`. `x_ring.h` calls x_ring_mp_enqueue multi-producers safe. The
  heads are wrapped to the table, so a producer that sleeps between its load of
  `prod.head` and its compare-and-set while the ring goes round succeeds with a
  check for room that is no longer true. x_ring_mc_dequeue has the same window.
- `pool_no_memory`. The result of `queue_enq` is not looked at and the task is
  counted; the worker that finds the list empty executes `continue` while it
  holds the mutex that the top of the loop locks.
- `bond_freed`. Under the comment "Free processed packets" an IPv4 packet given
  to the port is freed too, and after one ARP reply no later packet of the
  burst is.

Met while modelling, not a run of their own: x_ring_sp_enqueue3 reports success
when the ring is full (the constant `EnqueueFn` has "sp3" for it); the
destructor of the pool leaves workers waiting on condition variables it
destroys; x_log_destroy joins a thread that never ends; the start command
either fails or crashes the process, as lcore_main needs an argument it does not
get.

## 6. Limits

- Accesses of a thread take effect in program order. The ring relies on x86 and
  on the compiler not moving the copies across the volatile indexes
  (x_ring.h:117-119).
- malloc inside the ring, for keys, values and the table of the map (which
  hash_map.cpp:57 does not test), and for the struct of x_log_create is assumed
  to succeed; the list, the pool and the map have failing allocations of nodes.
- Pointers given to the list and to the map are not NULL. Nodes are inserted in
  one of the two modes that link_list.h names; another mode would leave the
  links of the new node unset (link_list.c:60-66).
- The map is initialized once and first; after an init that failed half way,
  nothing is called. What find returns is not used after a later insert.
- strcmp_nocase is used on hexadecimal strings only.
- Data races on the bonding counters are modelled as a load and a store of a
  whole counter. A transmission is one step; several threads that transmit on
  queue 0 at once meet inside the driver, which is external, as is the mbuf pool.
  rte_eal_mp_remote_launch, external too, is one step: it looks at all lcores and
  then launches them one after the other.
  In `bond_run` the master is the lowest lcore, as by default.
- Texts, formats and lengths of log messages are abstracted to model values.
- Not modelled: see the components with that status in `PROJECT.json` and the
  reasons there.

## 7. Plan

Done, in this order: the ring with its proofs, the pool, the list with its
proofs, queue and stack, the map, the log, the bonding example, the queries and
sizes of the ring, the utilities; then the setup, the frames and the command
send of the bonding example, x_log_create and the constructor of the pool with
threads that are missing, the message filters, the packet filter.

Then the proofs of every safety property and every refinement of the runs: the
pool, the rest of the ring and of the list, queue and stack, the map, the log,
the bonding example and the utilities.

Next:

1. Composition of `XLog` with `XRing` itself for one writer, in place of its
   contract, if the state space allows.
2. Destruction of the ring and of the map with calls under way, where the code
   leaves it defined.

The project keeps to about a dozen runs, each with its own question: a new one
replaces or absorbs another where it answers the same. Type invariants are
stated where a proof uses them.
