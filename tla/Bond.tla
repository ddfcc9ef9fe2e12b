---------------------------------- MODULE Bond ----------------------------------
(***************************************************************************)
(* dpdk-examples/bond-kni: every lcore polls a receive queue of the        *)
(* bonding port, counts the packets, answers ARP requests and IPv4 packets *)
(* for its own address and frees the rest, until LcoreMainIsRunning is     *)
(* cleared; a command thread started before the lcores serves start, stop, *)
(* quit and show.                                                          *)
(*                                                                         *)
(* The spinlock is taken with rte_spinlock_trylock.  Only the three        *)
(* counters look at its result; everyone else goes on and releases the     *)
(* lock whether it was theirs or not.                                      *)
(*                                                                         *)
(* BondSetup is main before that, Frames the frames.  rte_eth_macaddr_get  *)
(* fails for an invalid port only, so its error branch in lcore_main       *)
(* cannot be taken.                                                        *)
(***************************************************************************)
EXTENDS BondSetup, Frames

CONSTANTS
    Master,       \* the lcore main runs on
    Behind,       \* the states that the memory behind lcore_config may read as
    Packets,      \* the packets that may arrive
    MaxBurst,     \* MAX_PKT_BURST
    MaxPackets,   \* bound: packets received in all
    MaxCommands,  \* bound: commands entered
    None          \* no frame

ASSUME BondAssumption ==
    /\ Master \in Lcores /\ Behind \subseteq {"WAIT", "RUNNING", "FINISHED"}
    /\ MaxBurst \in Nat /\ MaxPackets \in Nat /\ MaxCommands \in Nat
    /\ IsFiniteSet(Packets)
    /\ \A p \in Packets :
          /\ DOMAIN p = {"tags", "type", "d_addr", "s_addr", "op", "sha", "sip", "tha", "tip"}
          /\ p.tags \in Nat /\ p.type \in {"arp", "ipv4", "other"}

VARIABLES
    LcoreMainIsRunning, LcoreMainCore, port_packets, lock,
    state,       \* lcore_config[c].state; for MaxLcore, what lies behind the array
    pc,          \* progress of each lcore in lcore_main
    pkts,        \* its burst
    i,           \* its index into the burst
    is_free,
    loaded,      \* the counter an lcore has read and not yet written
    fate,        \* history: what became of each packet of the burst
    cmd,         \* progress of the command thread
    commands,    \* commands entered
    received,    \* packets received
    processed,   \* history: how often each packet was processed
    contended,   \* history: a count met a busy lock, or two were made at once
    asked        \* the frame of the command send

sharedVars == <<LcoreMainIsRunning, LcoreMainCore, state>>
burstVars  == <<pkts, i, is_free, fate, received, processed>>
countVars  == <<port_packets, loaded, contended>>
cmdVars    == <<cmd, commands, asked>>
stepVars == <<lock, pc, sharedVars, burstVars, countVars, cmdVars>>
vars == <<process, main, setupVars, stepVars>>

Slaves    == Lcores \ {Master}
Counters  == {"total", "arp", "ipv4"}
Counting  == {"countTotal", "countArp", "countIpv4", "total", "arp", "ipv4"}
InPacket  == Counting \cup {"dispose"}

Packet(c) == pkts[c][i[c]]

-----------------------------------------------------------------------------
(* The lcores                                                              *)

At(c, l)     == process = "up" /\ pc[c] = l
Goto(c, l)   == pc' = [pc EXCEPT ![c] = l]

\* lcore_main is entered; without an argument it reads through NULL.
Enter(c) ==
    /\ At(c, "entered")
    /\ lock' = TRUE
    /\ Goto(c, "test")
    /\ UNCHANGED <<process, main, sharedVars, burstVars, countVars, cmdVars>>

EnterWithNull(c) ==
    /\ At(c, "enteredWithNull")
    /\ process' = "crashed"
    /\ UNCHANGED <<lock, main, pc, sharedVars, burstVars, countVars, cmdVars>>

\* The loop test; both ways on release the lock.  The burst is over, and what
\* is left in pkts is not looked at again.
Test(c) ==
    /\ At(c, "test")
    /\ lock' = FALSE
    /\ pkts' = [pkts EXCEPT ![c] = << >>] /\ fate' = [fate EXCEPT ![c] = << >>]
    /\ i' = [i EXCEPT ![c] = 1]
    /\ IF LcoreMainIsRunning
       THEN Goto(c, "poll") /\ UNCHANGED sharedVars
       ELSE /\ Goto(c, "done")
            /\ state' = [state EXCEPT ![c] = "FINISHED"]
            /\ UNCHANGED <<LcoreMainIsRunning, LcoreMainCore>>
    /\ UNCHANGED <<process, main, is_free, received, processed, countVars, cmdVars>>

\* Mutant of AfterEmpty: an empty poll does not come back to the loop test.
AfterEmptyPoll == "poll"

AfterEmpty == "test"

PollEmpty(c) ==
    /\ At(c, "poll")
    /\ is_free' = [is_free EXCEPT ![c] = FALSE]
    /\ Goto(c, AfterEmpty)
    /\ UNCHANGED <<lock, process, main, sharedVars, pkts, i, fate, received,
                   processed, countVars, cmdVars>>

\* A burst on the queue of the lcore.
Poll(c, burst) ==
    /\ At(c, "poll")
    /\ burst # << >> /\ received + Len(burst) <= MaxPackets
    /\ received' = received + Len(burst)
    /\ pkts' = [pkts EXCEPT ![c] = burst]
    /\ fate' = [fate EXCEPT ![c] = [k \in DOMAIN burst |-> [freed |-> 0, sent |-> None]]]
    /\ i' = [i EXCEPT ![c] = 1]
    /\ is_free' = [is_free EXCEPT ![c] = FALSE]
    /\ Goto(c, "countTotal")
    /\ UNCHANGED <<lock, process, main, sharedVars, processed, countVars, cmdVars>>

\* After the total has been counted, the packet's own counter if it has one.
AfterTotal(c) ==
    CASE EtherType(Packet(c)) = "arp"  -> "countArp"
      [] EtherType(Packet(c)) = "ipv4" -> "countIpv4"
      [] OTHER                         -> "dispose"

CounterOf(l) ==
    CASE l = "countTotal" -> "total" [] l = "countArp" -> "arp" [] l = "countIpv4" -> "ipv4"

After(c, k) == IF k = "total" THEN AfterTotal(c) ELSE "dispose"

\* The lock is busy: the packet is not counted.
CountSkipped(c) ==
    /\ process = "up" /\ pc[c] \in {"countTotal", "countArp", "countIpv4"}
    /\ lock
    /\ contended' = TRUE
    /\ Goto(c, After(c, CounterOf(pc[c])))
    /\ UNCHANGED <<lock, process, main, sharedVars, burstVars, port_packets,
                   loaded, cmdVars>>

\* The lock is free: it is taken, and the counter read.
CountLoad(c) ==
    /\ process = "up" /\ pc[c] \in {"countTotal", "countArp", "countIpv4"}
    /\ ~lock
    /\ lock' = TRUE
    /\ contended' = (contended \/ \E d \in Lcores : pc[d] \in Counters)
    /\ loaded' = [loaded EXCEPT ![c] = port_packets[CounterOf(pc[c])]]
    /\ Goto(c, CounterOf(pc[c]))
    /\ UNCHANGED <<process, main, sharedVars, burstVars, port_packets, cmdVars>>

\* Mutant of Counted: the packet and its answer are both counted.
CountedTwice(c) == loaded[c] + 2

Counted(c) == loaded[c] + 1

\* The counter is written, and the lock released.
CountStore(c) ==
    /\ process = "up" /\ pc[c] \in Counters
    /\ lock' = FALSE
    /\ port_packets' = [port_packets EXCEPT ![pc[c]] = Counted(c)]
    /\ loaded' = [loaded EXCEPT ![c] = 0]
    /\ Goto(c, After(c, pc[c]))
    /\ UNCHANGED <<process, main, sharedVars, burstVars, contended, cmdVars>>

\* The rest of the loop body: the answer, which the port accepts or not, the
\* free, and the next packet or, after the last, the lock and the loop test.
Dispose(c, accepted) ==
    LET p    == Packet(c)
        free == is_free[c] \/ Reply(p)
    IN  /\ At(c, "dispose")
        /\ accepted => IsAnswer(p)
        /\ is_free' = [is_free EXCEPT ![c] = free]
        /\ fate' = [fate EXCEPT ![c][i[c]] =
                        [freed |-> IF free THEN 0 ELSE 1,
                         sent  |-> IF accepted THEN Answer(p) ELSE None]]
        /\ i' = [i EXCEPT ![c] = @ + 1]
        /\ processed' = [processed EXCEPT ![p] = @ + 1]
        /\ IF i[c] < Len(pkts[c]) THEN Goto(c, "countTotal") /\ UNCHANGED lock
           ELSE Goto(c, "test") /\ lock' = TRUE
        /\ UNCHANGED <<process, main, sharedVars, pkts, received, countVars, cmdVars>>

Bursts == UNION {[1 .. n -> Packets] : n \in 1 .. MaxBurst}

Proceed(c) ==
    \/ Enter(c) \/ EnterWithNull(c) \/ Test(c) \/ PollEmpty(c)
    \/ CountSkipped(c) \/ CountLoad(c) \/ CountStore(c)
    \/ \E accepted \in BOOLEAN : Dispose(c, accepted)

Lcore(c) == Proceed(c) \/ \E burst \in Bursts : Poll(c, burst)

-----------------------------------------------------------------------------
(* main, after the command thread is started                               *)

\* RTE_LCORE_FOREACH_SLAVE has left RTE_MAX_LCORE in slave_core_id.
Arm ==
    /\ AtMain("starting")
    /\ LcoreMainIsRunning' = TRUE
    /\ LcoreMainCore' = MaxLcore
    /\ main' = "armed"
    /\ UNCHANGED <<lock, process, state, pc, burstVars, countVars, cmdVars>>

\* rte_eal_mp_remote_launch: all lcores with the argument, or none if a slave
\* is not waiting, which main does not notice.
LaunchAll ==
    /\ AtMain("armed")
    /\ main' = "launched"
    /\ IF \A c \in Slaves : state[c] = "WAIT"
       THEN /\ pc' = [c \in Lcores |-> "entered"]
            /\ state' = [c \in DOMAIN state |-> IF c \in Slaves THEN "RUNNING" ELSE state[c]]
       ELSE UNCHANGED <<pc, state>>
    /\ UNCHANGED <<lock, process, LcoreMainIsRunning, LcoreMainCore, burstVars,
                   countVars, cmdVars>>

\* The master lcore is back from lcore_main, or never entered it: the process
\* ends, with whatever the other lcores are doing.
Exit ==
    /\ AtMain("launched") /\ pc[Master] \in {"idle", "done"}
    /\ process' = "exited"
    /\ UNCHANGED <<lock, main, pc, sharedVars, burstVars, countVars, cmdVars>>

-----------------------------------------------------------------------------
(* The command thread                                                      *)

CmdAt(l) == process = "up" /\ cmd = l

\* A command begins by trying the lock.
Command(name) ==
    /\ CmdAt("idle") /\ commands < MaxCommands
    /\ main \notin Setting
    /\ commands' = commands + 1
    /\ cmd' = name
    /\ lock' = TRUE
    /\ UNCHANGED <<process, main, pc, sharedVars, burstVars, countVars, asked>>

\* send takes no lock.  If there is no mbuf it returns.
Send(ip) ==
    /\ CmdAt("idle") /\ commands < MaxCommands
    /\ main \notin Setting
    /\ commands' = commands + 1
    /\ \/ cmd' = "send" /\ asked' = ArpRequest(ip)
       \/ cmd' = "idle" /\ UNCHANGED asked
    /\ UNCHANGED <<lock, process, main, pc, sharedVars, burstVars, countVars>>

\* The frame is given to the port, and the thread sleeps.
SendDone ==
    /\ CmdAt("send")
    /\ cmd' = "idle" /\ asked' = None
    /\ UNCHANGED <<lock, process, main, pc, sharedVars, burstVars, countVars, commands>>

FirstSlave == CHOOSE c \in Slaves : \A d \in Slaves : c <= d

StartCheck ==
    /\ CmdAt("start")
    /\ lock' = FALSE
    /\ cmd' = IF ~LcoreMainIsRunning /\ state[LcoreMainCore] = "WAIT"
                 /\ Slaves # {} /\ FirstSlave # 0
              THEN "startSet" ELSE "idle"
    /\ UNCHANGED <<process, main, pc, sharedVars, burstVars, countVars, commands, asked>>

StartLock ==
    /\ CmdAt("startSet")
    /\ lock' = TRUE /\ cmd' = "startLocked"
    /\ UNCHANGED <<process, main, pc, sharedVars, burstVars, countVars, commands, asked>>

StartSet ==
    /\ CmdAt("startLocked")
    /\ LcoreMainIsRunning' = TRUE
    /\ lock' = FALSE /\ cmd' = "startLaunch"
    /\ UNCHANGED <<process, main, pc, LcoreMainCore, state, burstVars, countVars, commands, asked>>

\* rte_eal_remote_launch fails when the lcore is not waiting.
StartLaunch ==
    /\ CmdAt("startLaunch")
    /\ cmd' = "idle"
    /\ IF state[FirstSlave] = "WAIT"
       THEN /\ pc' = [pc EXCEPT ![FirstSlave] = "enteredWithNull"]
            /\ state' = [state EXCEPT ![FirstSlave] = "RUNNING"]
       ELSE UNCHANGED <<pc, state>>
    /\ UNCHANGED <<lock, process, main, LcoreMainIsRunning, LcoreMainCore,
                   burstVars, countVars, commands, asked>>

\* stop and quit up to rte_eal_wait_lcore; quit ends the command thread.
StopCheck ==
    /\ process = "up" /\ cmd \in {"stop", "quit"}
    /\ LcoreMainIsRunning' = FALSE
    /\ IF LcoreMainIsRunning
       THEN /\ cmd' = IF cmd = "stop" THEN "stopWait" ELSE "quitWait"
            /\ UNCHANGED lock
       ELSE /\ cmd' = IF cmd = "stop" THEN "idle" ELSE "gone"
            /\ lock' = FALSE
    /\ UNCHANGED <<process, main, pc, LcoreMainCore, state, burstVars, countVars, commands, asked>>

\* rte_eal_wait_lcore, on the entry LcoreMainCore has.
StopWait ==
    /\ process = "up" /\ cmd \in {"stopWait", "quitWait"}
    /\ state[LcoreMainCore] \in {"WAIT", "FINISHED"}
    /\ state' = [state EXCEPT ![LcoreMainCore] = "WAIT"]
    /\ lock' = FALSE
    /\ cmd' = IF cmd = "stopWait" THEN "idle" ELSE "gone"
    /\ UNCHANGED <<process, main, pc, LcoreMainIsRunning, LcoreMainCore,
                   burstVars, countVars, commands, asked>>

\* show reads the counters and releases the lock.
ShowDone ==
    /\ CmdAt("show")
    /\ lock' = FALSE /\ cmd' = "idle"
    /\ UNCHANGED <<process, main, pc, sharedVars, burstVars, countVars, commands, asked>>

Cmd ==
    \/ SendDone \/ StartCheck \/ StartLock \/ StartSet \/ StartLaunch
    \/ StopCheck \/ StopWait \/ ShowDone

-----------------------------------------------------------------------------
\* The shared struct is static, and rte_spinlock_init leaves the lock free.
Init ==
    /\ SetupInit
    /\ LcoreMainIsRunning = FALSE /\ LcoreMainCore = 0
    /\ port_packets = [k \in Counters |-> 0]
    /\ lock = FALSE
    /\ \E beyond \in Behind :
           state = [c \in 0 .. MaxLcore |-> IF c = MaxLcore THEN beyond ELSE "WAIT"]
    /\ pc = [c \in Lcores |-> "idle"]
    /\ pkts = [c \in Lcores |-> << >>] /\ fate = [c \in Lcores |-> << >>]
    /\ i = [c \in Lcores |-> 1] /\ is_free = [c \in Lcores |-> FALSE]
    /\ loaded = [c \in Lcores |-> 0]
    /\ cmd = "idle" /\ commands = 0 /\ received = 0
    /\ processed = [p \in Packets |-> 0] /\ contended = FALSE /\ asked = None

Running ==
    \/ \E c \in Lcores : Lcore(c)
    \/ Arm \/ LaunchAll \/ Exit
    \/ \E name \in {"start", "stop", "quit", "show"} : Command(name)
    \/ \E ip \in Peers : Send(ip)
    \/ Cmd

Next ==
    \/ SetupNext /\ UNCHANGED stepVars
    \/ Running /\ UNCHANGED setupVars

\* Every lcore has a processor of its own, and main is scheduled.  No packet has
\* to arrive, nobody has to enter a command, and the command thread, for which
\* no lcore waits, may sleep anywhere.
Fairness ==
    /\ \A c \in Lcores : WF_vars(Proceed(c) /\ UNCHANGED setupVars)
    /\ WF_vars((Arm \/ LaunchAll \/ Exit) /\ UNCHANGED setupVars)

Spec == Init /\ [][Next]_vars /\ Fairness

-----------------------------------------------------------------------------
(* Properties                                                              *)

Processed(S) ==
    LET sum[T \in SUBSET S] == IF T = {} THEN 0
                               ELSE LET p == CHOOSE p \in T : TRUE
                                    IN  processed[p] + sum[T \ {p}]
    IN  sum[S]

\* What a counter is the count of: all packets, or those whose type, behind
\* up to two VLAN tags, is the counter's.
Meant(k) == {p \in Packets : k = "total" \/ (p.tags <= 2 /\ p.type = k)}

Busy == {c \in Lcores : pc[c] \in InPacket}

\* Whatever the unguarded lock lets happen, a counter only loses: it is never
\* ahead of the packets of its kind that were processed or are in hand.
CountersNeverAhead ==
    \A k \in Counters : port_packets[k] <= Processed(Meant(k)) + Cardinality(Busy)

\* A count is lost only if an lcore met a busy lock or two lcores were inside
\* the same lock at once; otherwise, between packets, the counters are exact.
ExactUnlessContended ==
    ~contended /\ Busy = {} => \A k \in Counters : port_packets[k] = Processed(Meant(k))

\* Every lcore polls a queue of its own that is set up: the numbers that
\* lcore_arg_init gives are the queues that bond_port_init made.  Only lcores
\* below the master share a queue, with one another and with the master.
OwnQueue ==
    \A c \in Lcores : pc[c] = "poll" =>
        /\ RingId(Master, c) \in queues[BOND_PORT]
        /\ \A d \in Lcores \ {c} :
              pc[d] = "poll" /\ RingId(Master, d) = RingId(Master, c)
                  => c <= Master /\ d <= Master

\* "Switch src and dst data and set bonding MAC" (main-bond-kni.c:480): an
\* answer goes back to the one who asked, at both layers, and from the address
\* that was asked for, though the frame is rewritten in place.  A request of
\* the command send is answered by a host of that address that runs the same
\* code; that answer names this host, and is not answered again.
AnswerReturns ==
    /\ \A c \in Lcores : \A n \in DOMAIN fate[c] : fate[c][n].sent # None =>
          LET p == pkts[c][n]
              a == fate[c][n].sent
          IN  /\ a.d_addr = p.s_addr /\ a.tip = p.sip
              /\ a.s_addr = BondMac /\ a.sip = BondIp
              /\ a.type = "arp" => a.op = "reply" /\ a.tha = p.sha /\ a.sha = BondMac
    /\ asked # None =>
          \A mac \in {p.s_addr : p \in Packets} :
              LET a == ArpReply(asked, mac, asked.tip)
              IN  /\ ArpAsks(asked, asked.tip)
                  /\ a.d_addr = BondMac /\ a.tip = BondIp /\ a.sip = asked.tip /\ a.sha = mac
                  /\ ~IsAnswer(a)

\* Comment "Free processed packets" (main-bond-kni.c:511): a packet that is not
\* answered has been freed once it is processed, and none that the port has
\* taken over is.
ProcessedPacketsFreed ==
    \A c \in Lcores : \A n \in DOMAIN fate[c] : n < i[c] =>
        /\ ~IsAnswer(pkts[c][n]) => fate[c][n].freed = 1
        /\ fate[c][n].sent # None => fate[c][n].freed = 0

\* Once the lcores are launched, clearing the flag ends the process, unless
\* start sets the flag again: no lcore misses it, although the lock that is
\* meant to guard it guards nothing and the wait is for an entry behind the
\* array.
StopIsSeen ==
    main = "launched" /\ ~LcoreMainIsRunning ~> LcoreMainIsRunning \/ process # "up"
=============================================================================
