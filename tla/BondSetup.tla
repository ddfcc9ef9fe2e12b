------------------------------ MODULE BondSetup ------------------------------
(***************************************************************************)
(* dpdk-examples/bond-kni before the lcores run: main counts the ports,    *)
(* initializes them, and makes the bonding port of them.  Only main runs,  *)
(* so one action stands for the calls that set up one port, each of which  *)
(* ends the process when it fails (SetupFails).                            *)
(*                                                                         *)
(* The calls of DPDK, as main relies on them: rte_eth_bond_create takes    *)
(* the lowest port id that is free; rte_eth_bond_slave_add refuses a port  *)
(* that does not exist, the bonding port itself, and a slave.              *)
(***************************************************************************)
EXTENDS Naturals, Sequences, FiniteSets, Functions

CONSTANTS
    Lcores,      \* ids of the lcores of the EAL
    MaxLcore,    \* RTE_MAX_LCORE
    PortSets,    \* the sets of port ids that may be available
    MAX_PORTS,
    WaitCounter  \* the first value of wait_counter, in seconds

ASSUME SetupAssumption ==
    /\ Lcores \subseteq 0 .. MaxLcore - 1 /\ MaxLcore \in Nat
    /\ \A s \in PortSets : s \subseteq Nat /\ IsFiniteSet(s)
    /\ MAX_PORTS \in Nat /\ WaitCounter \in Nat \ {0}

NoPort == 65535

VARIABLES
    process,      \* "up" until main returns, or the process exits or crashes
    main,         \* progress of main
    ports,        \* the ids of the ports that are available
    slaves_count,
    slaves,       \* the array, static and so zero at first
    BOND_PORT,
    queues,       \* the receive queues that are set up, by port
    started,      \* the ports that are started
    bonded,       \* the ports that were added to the bonding port, in order
    wait_counter

portVars  == <<ports, slaves_count, slaves, BOND_PORT, queues, started, bonded>>
setupVars == <<portVars, wait_counter>>

Lowest(S) == CHOOSE n \in S : \A k \in S : n <= k
AtMain(l) == process = "up" /\ main = l

\* One queue for each lcore.
Queues == 0 .. Cardinality(Lcores) - 1

-----------------------------------------------------------------------------

\* rte_exit.
EndProcess == process' = "exited" /\ UNCHANGED <<main, setupVars>>

\* Mutant of SlaveCount: the last port is forgotten.
SlaveCountLess == Cardinality(ports) - 1

\* slaves_count = nb_ports
SlaveCount == Cardinality(ports)

CountPorts ==
    /\ AtMain("counting")
    /\ Cardinality(ports) \in 1 .. MAX_PORTS
    /\ slaves_count' = SlaveCount
    /\ main' = "slaves"
    /\ UNCHANGED <<process, ports, slaves, BOND_PORT, queues, started, bonded, wait_counter>>

WrongCount ==
    /\ AtMain("counting")
    /\ Cardinality(ports) \notin 1 .. MAX_PORTS
    /\ EndProcess

\* slave_port_init of the next port, and slaves[i] = i.
SlavePort ==
    /\ AtMain("slaves") /\ ports \ started # {}
    /\ LET i == Lowest(ports \ started)
       IN  /\ queues'  = [queues EXCEPT ![i] = Queues]
           /\ started' = started \cup {i}
           /\ slaves'  = [slaves EXCEPT ![i] = i]
    /\ UNCHANGED <<process, main, ports, slaves_count, BOND_PORT, bonded, wait_counter>>

BondCreate ==
    /\ AtMain("slaves") /\ ports \subseteq started
    /\ BOND_PORT' = Lowest((0 .. Cardinality(ports)) \ ports)
    /\ main' = "adding"
    /\ UNCHANGED <<process, ports, slaves_count, slaves, queues, started, bonded, wait_counter>>

\* What rte_eth_bond_slave_add does not refuse.
Accepts(id) == id \in ports /\ id # BOND_PORT /\ id \notin Range(bonded)

\* slaves[i], for i from 0 to slaves_count - 1.
NextSlave == slaves[Len(bonded)]

AddSlave ==
    /\ AtMain("adding") /\ Len(bonded) < slaves_count
    /\ Accepts(NextSlave)
    /\ bonded' = Append(bonded, NextSlave)
    /\ UNCHANGED <<process, main, ports, slaves_count, slaves, BOND_PORT, queues,
                   started, wait_counter>>

AddSlaveFails ==
    /\ AtMain("adding") /\ Len(bonded) < slaves_count
    /\ ~Accepts(NextSlave)
    /\ EndProcess

\* The queues of the bonding port, and its start.
BondStart ==
    /\ AtMain("adding") /\ Len(bonded) = slaves_count
    /\ queues' = [queues EXCEPT ![BOND_PORT] = Queues]
    /\ started' = started \cup {BOND_PORT}
    /\ wait_counter' = WaitCounter
    /\ main' = "waiting"
    /\ UNCHANGED <<process, ports, slaves_count, slaves, BOND_PORT, bonded>>

\* All slaves are active, and the check of the lcores: none has run yet.
AllActive ==
    /\ AtMain("waiting")
    /\ Len(bonded) = slaves_count
    /\ main' = "starting" /\ wait_counter' = 0
    /\ UNCHANGED <<process, portVars>>

\* Not yet: sleep, and give up when the counter is 0.
NotActive ==
    /\ AtMain("waiting")
    /\ IF wait_counter > 1
       THEN /\ wait_counter' = wait_counter - 1
            /\ UNCHANGED <<process, main, portVars>>
       ELSE EndProcess

Setting == {"counting", "slaves", "adding", "waiting"}

\* rte_exit, after any of the calls.
SetupFails == process = "up" /\ main \in Setting /\ EndProcess

SetupInit ==
    /\ process = "up" /\ main = "counting"
    /\ ports \in PortSets
    /\ slaves_count = 0 /\ BOND_PORT = NoPort
    /\ slaves = [n \in (UNION PortSets) \cup 0 .. MAX_PORTS |-> 0]
    /\ queues = [n \in (UNION PortSets) \cup 0 .. MAX_PORTS |-> {}]
    /\ started = {} /\ bonded = << >> /\ wait_counter = 0

SetupNext ==
    \/ CountPorts \/ WrongCount \/ SlavePort \/ BondCreate \/ AddSlave \/ AddSlaveFails
    \/ BondStart \/ AllActive \/ NotActive \/ SetupFails

-----------------------------------------------------------------------------
(* lcore_arg_init                                                          *)

\* Mutant of RingId: the first lcore after the master has the master's queue.
RingIdLate(master, c) ==
    IF c < master THEN 0 ELSE Cardinality({d \in Lcores : master < d /\ d < c})

\* The lcores are numbered from the master up; those below it keep the zero
\* of the memset.
RingId(master, c) ==
    IF c < master THEN 0 ELSE Cardinality({d \in Lcores : master <= d /\ d < c})

-----------------------------------------------------------------------------
(* Properties                                                              *)

\* slaves is filled by port id and read by position: with a gap in the ids,
\* some position below slaves_count was never written.  Such a gap never goes
\* unnoticed: if main comes to start the lcores, the ports are numbered
\* without one, each of them is a slave, and slaves and bonding port are
\* started (main-bond-kni.c:559-562, 284-288).
SlavesAreThePorts ==
    main \notin Setting =>
        /\ ports = 0 .. slaves_count - 1
        /\ Range(bonded) = ports
        /\ started = ports \cup {BOND_PORT}
=============================================================================
