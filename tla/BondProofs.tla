----------------------------- MODULE BondProofs -----------------------------
(***************************************************************************)
(* The safety invariants of Bond, for all lcores, ports, packets and       *)
(* bounds.  IInv has four parts, each proved on the ones before it: what   *)
(* main has set up, where the lcores are, what is due to the counters, and *)
(* what was answered.                                                      *)
(***************************************************************************)
EXTENDS Bond, DataLemmas

-----------------------------------------------------------------------------
(* Setup                                                                   *)

PortIds == (UNION PortSets) \cup 0 .. MAX_PORTS

SetupTypes ==
    /\ main \in Setting \cup {"starting", "armed", "launched"}
    /\ ports \in PortSets /\ slaves_count \in Nat
    /\ slaves \in [PortIds -> Nat] /\ queues \in [PortIds -> SUBSET Nat]
    /\ started \in SUBSET Nat /\ bonded \in Seq(Nat)

\* What is set up when main has come so far.
Progress ==
    /\ main = "counting" => started = {}
    /\ main = "slaves" => started \subseteq ports
    /\ main \in {"counting", "slaves"} => bonded = << >>
    /\ main # "counting" =>
          slaves_count = Cardinality(ports) /\ slaves_count \in 1 .. MAX_PORTS
    /\ main = "adding" => started = ports /\ BOND_PORT \in 0 .. MAX_PORTS
    /\ main \notin {"counting", "slaves", "adding"} =>
          /\ started = ports \cup {BOND_PORT} /\ BOND_PORT \in 0 .. MAX_PORTS
          /\ queues[BOND_PORT] = Queues
          /\ Len(bonded) = slaves_count

\* slaves has the number of each port at the place of that number, and zeros.
SlavesFilled ==
    \A n \in PortIds :
        slaves[n] = IF n \in ports /\ (main \in {"counting", "slaves"} => n \in started)
                    THEN n ELSE 0

\* What was added is what was read from slaves, in order, and none twice.
BondedSlaves ==
    /\ Len(bonded) <= slaves_count
    /\ \A k \in 1 .. Len(bonded) : bonded[k] = slaves[k - 1] /\ bonded[k] \in ports
    /\ \A k, l \in 1 .. Len(bonded) : k # l => bonded[k] # bonded[l]

SetupInv == SetupTypes /\ Progress /\ SlavesFilled /\ BondedSlaves

\* The sets of ports are finite sets of numbers.
LEMMA PortsFinite ==
  ASSUME SetupTypes
  PROVE  /\ ports \subseteq Nat /\ ports \subseteq PortIds /\ IsFiniteSet(ports)
         /\ Cardinality(ports) \in Nat /\ MAX_PORTS \in Nat
  <1>1. ports \in PortSets
    BY DEF SetupTypes
  <1>2. ports \subseteq Nat /\ IsFiniteSet(ports) /\ MAX_PORTS \in Nat
    BY <1>1, SetupAssumption DEF SetupAssumption
  <1> QED
    BY <1>1, <1>2, FS_CardinalityType DEF PortIds

\* A nonempty set of port numbers has a lowest one.
LEMMA LowestIs ==
  ASSUME NEW S \in SUBSET Nat, S # {}
  PROVE  Lowest(S) \in S
  <1> QED
    BY LeastNumber DEF Lowest

\* Nothing is set up when main begins.
LEMMA SetupInitInv == SetupInit => SetupInv
  <1> SUFFICES ASSUME SetupInit
               PROVE  SetupInv
    OBVIOUS
  <1>1. slaves = [n \in PortIds |-> 0] /\ queues = [n \in PortIds |-> {}]
    BY DEF SetupInit, PortIds
  <1>2. SetupTypes
    BY <1>1 DEF SetupInit, SetupTypes, Setting
  <1>3. Progress
    BY DEF SetupInit, Progress
  <1>4. SlavesFilled
    BY <1>1 DEF SetupInit, SlavesFilled
  <1>5. BondedSlaves
    BY DEF SetupInit, BondedSlaves
  <1> QED
    BY <1>2, <1>3, <1>4, <1>5 DEF SetupInv

\* A port is set up, and its number put at the place of that number.
LEMMA SlavePortKeeps == SetupInv /\ SlavePort => SetupInv'
  <1> SUFFICES ASSUME SetupInv, SlavePort
               PROVE  SetupInv'
    OBVIOUS
  <1> DEFINE j == Lowest(ports \ started)
  <1>1. j \in ports /\ j \notin started /\ j \in Nat /\ j \in PortIds
    <2>1. ports \ started \in SUBSET Nat /\ ports \ started # {}
      BY PortsFinite DEF SetupInv, SlavePort
    <2>2. j \in ports \ started
      BY <2>1, LowestIs
    <2> QED
      BY <2>2, PortsFinite DEF SetupInv
  <1> HIDE DEF j
  <1>2. /\ queues' = [queues EXCEPT ![j] = Queues]
        /\ started' = started \cup {j}
        /\ slaves' = [slaves EXCEPT ![j] = j]
        /\ main = "slaves"
        /\ UNCHANGED <<main, ports, slaves_count, BOND_PORT, bonded>>
    BY DEF SlavePort, j, AtMain
  <1>3. Queues \in SUBSET Nat
    BY DEF Queues
  <1>4. SetupTypes'
    BY <1>1, <1>2, <1>3 DEF SetupInv, SetupTypes
  <1>5. Progress'
    BY <1>1, <1>2 DEF SetupInv, Progress
  <1>6. SlavesFilled'
    BY <1>1, <1>2 DEF SetupInv, SlavesFilled, SetupTypes
  <1>7. bonded = << >>
    BY <1>2 DEF SetupInv, Progress
  <1>8. BondedSlaves'
    BY <1>2, <1>7 DEF SetupInv, BondedSlaves
  <1> QED
    BY <1>4, <1>5, <1>6, <1>8 DEF SetupInv

\* The bonding port takes the lowest free id: n ports leave one in 0 .. n.
LEMMA BondCreateKeeps == SetupInv /\ BondCreate => SetupInv'
  <1> SUFFICES ASSUME SetupInv, BondCreate
               PROVE  SetupInv'
    OBVIOUS
  <1>1. /\ main = "slaves" /\ main' = "adding" /\ ports \subseteq started
        /\ BOND_PORT' = Lowest((0 .. Cardinality(ports)) \ ports)
        /\ UNCHANGED <<ports, slaves_count, slaves, queues, started, bonded>>
    BY DEF BondCreate, AtMain
  <1>2. started = ports /\ slaves_count = Cardinality(ports) /\ slaves_count \in 1 .. MAX_PORTS
    BY <1>1 DEF SetupInv, Progress
  <1>3. BOND_PORT' \in 0 .. MAX_PORTS
    <2> DEFINE n == Cardinality(ports)
    <2>1. n \in Nat /\ IsFiniteSet(ports) /\ MAX_PORTS \in Nat
      BY PortsFinite DEF SetupInv
    <2>2. IsFiniteSet(0 .. n) /\ Cardinality(0 .. n) = n + 1
      BY <2>1, FS_Interval
    <2>3. (0 .. n) \ ports # {}
      <3> SUFFICES ASSUME 0 .. n \subseteq ports
                   PROVE  FALSE
        OBVIOUS
      <3>1. Cardinality(0 .. n) <= n
        BY <2>1, FS_Subset
      <3> QED
        BY <2>1, <2>2, <3>1
    <2>4. (0 .. n) \ ports \in SUBSET Nat
      OBVIOUS
    <2>5. BOND_PORT' \in (0 .. n) \ ports
      BY <1>1, <2>3, <2>4, LowestIs
    <2> QED
      BY <1>2, <2>1, <2>5
  <1>4. SetupTypes'
    BY <1>1 DEF SetupInv, SetupTypes, Setting
  <1>5. Progress'
    BY <1>1, <1>2, <1>3 DEF SetupInv, Progress
  <1>6. SlavesFilled'
    BY <1>1, <1>2 DEF SetupInv, SlavesFilled
  <1>7. BondedSlaves'
    BY <1>1 DEF SetupInv, BondedSlaves
  <1> QED
    BY <1>4, <1>5, <1>6, <1>7 DEF SetupInv

\* A slave that was not refused is a port, and is added once.
LEMMA AddSlaveKeeps == SetupInv /\ AddSlave => SetupInv'
  <1> SUFFICES ASSUME SetupInv, AddSlave
               PROVE  SetupInv'
    OBVIOUS
  <1> DEFINE n == Len(bonded)
             s == NextSlave
  <1>1. /\ main = "adding" /\ n < slaves_count /\ bonded' = Append(bonded, s)
        /\ s \in ports /\ s \notin Range(bonded)
        /\ UNCHANGED <<main, ports, slaves_count, slaves, BOND_PORT, queues, started>>
    BY DEF AddSlave, Accepts, AtMain
  <1>2. bonded \in Seq(Nat) /\ n \in Nat /\ s \in Nat /\ s = slaves[n] /\ slaves_count \in Nat
    BY <1>1, PortsFinite DEF SetupInv, SetupTypes, NextSlave
  <1>3. \A k \in 1 .. n : bonded[k] # s
    BY <1>1, <1>2 DEF Range
  <1> HIDE DEF s
  <1>4. /\ bonded' \in Seq(Nat) /\ Len(bonded') = n + 1
        /\ \A k \in 1 .. n : bonded'[k] = bonded[k]
        /\ bonded'[n + 1] = s
    BY <1>1, <1>2, AppendProperties
  <1>5. SetupTypes'
    BY <1>1, <1>4 DEF SetupInv, SetupTypes
  <1>6. Progress'
    BY <1>1 DEF SetupInv, Progress
  <1>7. SlavesFilled'
    BY <1>1 DEF SetupInv, SlavesFilled
  <1>8. BondedSlaves'
    <2>1. n + 1 <= slaves_count
      BY <1>1, <1>2
    <2>2. \A k \in 1 .. (n + 1) : bonded'[k] = slaves[k - 1] /\ bonded'[k] \in ports
      BY <1>1, <1>2, <1>4 DEF SetupInv, BondedSlaves
    <2>3. ASSUME NEW k \in 1 .. (n + 1), NEW l \in 1 .. (n + 1), k # l
          PROVE  bonded'[k] # bonded'[l]
      <3>1. \A a, b \in 1 .. n : a # b => bonded[a] # bonded[b]
        BY DEF SetupInv, BondedSlaves
      <3> HIDE DEF n
      <3>2. (k \in 1 .. n \/ k = n + 1) /\ (l \in 1 .. n \/ l = n + 1)
        BY <1>2
      <3> QED
        BY <1>3, <1>4, <2>3, <3>1, <3>2
    <2> QED
      BY <1>1, <1>4, <2>1, <2>2, <2>3 DEF BondedSlaves
  <1> QED
    BY <1>5, <1>6, <1>7, <1>8 DEF SetupInv

\* Every step of main before the lcores keeps what is set up.
LEMMA SetupKeeps == SetupInv /\ SetupNext => SetupInv'
  <1> SUFFICES ASSUME SetupInv, SetupNext
               PROVE  SetupInv'
    OBVIOUS
  <1> USE DEF AtMain, Setting
  <1>1. CASE CountPorts
    <2>1. /\ main = "counting" /\ main' = "slaves"
          /\ slaves_count' = Cardinality(ports) /\ Cardinality(ports) \in 1 .. MAX_PORTS
          /\ UNCHANGED <<ports, slaves, BOND_PORT, queues, started, bonded>>
      BY <1>1 DEF CountPorts, SlaveCount
    <2>2. started = {} /\ bonded = << >>
      BY <2>1 DEF SetupInv, Progress
    <2>3. SetupTypes'
      BY <2>1 DEF SetupInv, SetupTypes
    <2>4. Progress'
      BY <2>1, <2>2 DEF Progress
    <2>5. SlavesFilled'
      BY <2>1 DEF SetupInv, SlavesFilled
    <2>6. BondedSlaves'
      BY <2>1, <2>2 DEF BondedSlaves
    <2> QED
      BY <2>3, <2>4, <2>5, <2>6 DEF SetupInv
  <1>2. CASE WrongCount \/ AddSlaveFails \/ NotActive \/ SetupFails
    <2>1. UNCHANGED <<main, portVars>>
      BY <1>2 DEF WrongCount, AddSlaveFails, NotActive, SetupFails, EndProcess, setupVars
    <2> QED
      BY <2>1 DEF portVars, SetupInv, SetupTypes, Progress, SlavesFilled, BondedSlaves
  <1>3. CASE BondStart
    <2>1. /\ main = "adding" /\ main' = "waiting" /\ Len(bonded) = slaves_count
          /\ queues' = [queues EXCEPT ![BOND_PORT] = Queues]
          /\ started' = started \cup {BOND_PORT}
          /\ UNCHANGED <<ports, slaves_count, slaves, BOND_PORT, bonded>>
      BY <1>3 DEF BondStart
    <2>2. /\ started = ports /\ BOND_PORT \in 0 .. MAX_PORTS
          /\ BOND_PORT \in PortIds /\ Queues \in SUBSET Nat /\ BOND_PORT \in Nat
      <3>1. started = ports /\ BOND_PORT \in 0 .. MAX_PORTS
        BY <2>1 DEF SetupInv, Progress
      <3>2. MAX_PORTS \in Nat
        BY PortsFinite DEF SetupInv
      <3> QED
        BY <3>1, <3>2 DEF PortIds, Queues
    <2>3. SetupTypes'
      BY <2>1, <2>2 DEF SetupInv, SetupTypes
    <2>4. Progress'
      BY <2>1, <2>2 DEF SetupInv, SetupTypes, Progress
    <2>5. SlavesFilled'
      BY <2>1 DEF SetupInv, SlavesFilled
    <2>6. BondedSlaves'
      BY <2>1 DEF SetupInv, BondedSlaves
    <2> QED
      BY <2>3, <2>4, <2>5, <2>6 DEF SetupInv
  <1>4. CASE AllActive
    <2>1. main = "waiting" /\ main' = "starting" /\ UNCHANGED portVars
      BY <1>4 DEF AllActive
    <2> QED
      BY <2>1 DEF portVars, SetupInv, SetupTypes, Progress, SlavesFilled, BondedSlaves
  <1> QED
    BY <1>1, <1>2, <1>3, <1>4, SlavePortKeeps, BondCreateKeeps, AddSlaveKeeps
    DEF SetupNext

\* n different numbers, each either its own place or zero, are 0 to n - 1.
LEMMA NoGap ==
  ASSUME SetupInv, main \notin Setting
  PROVE  SlavesAreThePorts
  <1> DEFINE n == slaves_count
  <1>1. /\ n = Cardinality(ports) /\ n \in 1 .. MAX_PORTS /\ Len(bonded) = n
        /\ started = ports \cup {BOND_PORT} /\ bonded \in Seq(Nat)
    BY DEF SetupInv, SetupTypes, Progress, Setting
  <1>2. /\ IsFiniteSet(ports) /\ n \in Nat /\ MAX_PORTS \in Nat
    BY <1>1, PortsFinite DEF SetupInv
  <1>3. \A k \in 1 .. n : /\ bonded[k] = IF k - 1 \in ports THEN k - 1 ELSE 0
                          /\ bonded[k] \in ports
    <2> SUFFICES ASSUME NEW k \in 1 .. n
                 PROVE  /\ bonded[k] = IF k - 1 \in ports THEN k - 1 ELSE 0
                        /\ bonded[k] \in ports
      OBVIOUS
    <2>1. k - 1 \in PortIds
      <3> HIDE DEF n
      <3>1. k - 1 \in 0 .. MAX_PORTS
        BY <1>1, <1>2
      <3> QED
        BY <3>1 DEF PortIds
    <2>2. slaves[k - 1] = IF k - 1 \in ports THEN k - 1 ELSE 0
      BY <2>1 DEF SetupInv, SlavesFilled, Setting
    <2> QED
      BY <1>1, <2>2 DEF SetupInv, BondedSlaves
  <1>4. \A k, l \in 1 .. n : k # l => bonded[k] # bonded[l]
    BY <1>1 DEF SetupInv, BondedSlaves
  <1>5. 0 .. (n - 1) \subseteq ports
    <2> SUFFICES ASSUME NEW m \in 0 .. (n - 1), m \notin ports
                 PROVE  FALSE
      OBVIOUS
    <2>1. m + 1 \in 1 .. n /\ (m + 1) - 1 = m /\ 1 \in 1 .. n
      BY <1>2
    <2>2. bonded[m + 1] = 0 /\ 0 \in ports
      BY <1>3, <2>1
    <2>3. bonded[1] = 0
      BY <1>3, <2>1, <2>2
    <2>4. m + 1 # 1
      BY <2>2
    <2> QED
      BY <1>4, <2>1, <2>2, <2>3, <2>4
  <1>6. ports = 0 .. (n - 1)
    <2>1. Cardinality(0 .. (n - 1)) = n
      BY <1>1, <1>2, FS_Interval
    <2> QED
      BY <1>1, <1>2, <1>5, <2>1, FS_Subset
  <1>7. Range(bonded) = ports
    <2>1. DOMAIN bonded = 1 .. n
      BY <1>1
    <2>2. \A m \in ports : m + 1 \in 1 .. n /\ bonded[m + 1] = m
      <3> SUFFICES ASSUME NEW m \in ports
                   PROVE  m + 1 \in 1 .. n /\ bonded[m + 1] = m
        OBVIOUS
      <3>1. m \in 0 .. (n - 1)
        BY <1>6
      <3>2. m + 1 \in 1 .. n /\ (m + 1) - 1 = m
        BY <1>2, <3>1
      <3> QED
        BY <1>3, <3>2
    <2> QED
      BY <1>3, <2>1, <2>2 DEF Range
  <1> QED
    BY <1>1, <1>6, <1>7 DEF SlavesAreThePorts

-----------------------------------------------------------------------------
(* The lcores                                                              *)

Labels == {"idle", "entered", "enteredWithNull", "test", "poll", "done"} \cup InPacket

LcoreTypes ==
    /\ pc \in [Lcores -> Labels]
    /\ pkts \in [Lcores -> Seq(Packets)] /\ i \in [Lcores -> Nat]
    /\ loaded \in [Lcores -> Nat] /\ port_packets \in [Counters -> Nat]
    /\ processed \in [Packets -> Nat] /\ contended \in BOOLEAN
    /\ state \in [0 .. MaxLcore -> {"WAIT", "RUNNING", "FINISHED"}]
    /\ LcoreMainCore \in {0, MaxLcore}

\* Nobody but start runs an lcore before main has launched them all, and start
\* finds no lcore waiting that is in lcore_main.
Launched ==
    /\ main # "launched" => \A c \in Lcores : pc[c] \in {"idle", "enteredWithNull"}
    /\ cmd \in {"startSet", "startLocked", "startLaunch"} => Slaves # {}
    /\ \A c \in Slaves :
          pc[c] \notin {"idle", "enteredWithNull", "done"} => state[c] = "RUNNING"

\* An lcore that is in the loop over its burst is at a packet of it, and at a
\* counter that is this packet's.
InHand ==
    \A c \in Lcores : pc[c] \in InPacket =>
        /\ i[c] \in 1 .. Len(pkts[c])
        /\ pc[c] \in {"countArp", "arp"} => EtherType(Packet(c)) = "arp"
        /\ pc[c] \in {"countIpv4", "ipv4"} => EtherType(Packet(c)) = "ipv4"

LcoreInv == LcoreTypes /\ Launched /\ InHand

\* The type of a frame as lcore_main sees it, and whose count it is in.
LEMMA Kinds ==
  ASSUME NEW p \in Packets
  PROVE  /\ EtherType(p) \in {"arp", "ipv4", "other"}
         /\ p \in Meant("total")
         /\ p \in Meant("arp") <=> EtherType(p) = "arp"
         /\ p \in Meant("ipv4") <=> EtherType(p) = "ipv4"
  <1> QED
    BY BondAssumption DEF BondAssumption, EtherType, Meant

\* The lcores are finitely many numbers, and the array lcore_config is longer.
LEMMA LcoresFinite ==
  /\ IsFiniteSet(Lcores) /\ Lcores \subseteq Nat /\ Lcores \subseteq 0 .. MaxLcore
  /\ MaxLcore \in Nat /\ MaxLcore \notin Lcores /\ Master \in Lcores /\ Slaves \subseteq Lcores
  <1>1. /\ Lcores \subseteq 0 .. (MaxLcore - 1) /\ MaxLcore \in Nat
        /\ Master \in Lcores /\ Slaves \subseteq Lcores
    BY SetupAssumption, BondAssumption DEF SetupAssumption, BondAssumption, Slaves
  <1>2. IsFiniteSet(0 .. (MaxLcore - 1))
    BY <1>1, FS_Interval
  <1>3. Lcores \subseteq Nat /\ Lcores \subseteq 0 .. MaxLcore /\ MaxLcore \notin Lcores
    BY <1>1
  <1> QED
    BY <1>1, <1>2, <1>3, FS_Subset

\* The lowest slave is a slave.
LEMMA FirstIsSlave ==
  ASSUME Slaves # {}
  PROVE  FirstSlave \in Slaves
  <1>1. Slaves \in SUBSET Nat
    BY LcoresFinite
  <1> QED
    BY <1>1, LeastNumber DEF FirstSlave

\* The packet in hand is one that may arrive.
LEMMA InHandIs ==
  ASSUME LcoreInv, NEW c \in Lcores, pc[c] \in InPacket
  PROVE  /\ Packet(c) \in Packets /\ EtherType(Packet(c)) \in {"arp", "ipv4", "other"}
         /\ i[c] \in 1 .. Len(pkts[c]) /\ i[c] \in Nat /\ pkts[c] \in Seq(Packets)
  <1>1. pkts[c] \in Seq(Packets) /\ i[c] \in 1 .. Len(pkts[c]) /\ i[c] \in Nat
    BY DEF LcoreInv, LcoreTypes, InHand
  <1>2. pkts[c][i[c]] \in Packets
    BY <1>1, ElementOfSeq
  <1> QED
    BY <1>1, <1>2, Kinds DEF Packet

\* No lcore runs when the process begins.
LEMMA LcoreInitInv == Init => LcoreInv
  <1> SUFFICES ASSUME Init
               PROVE  LcoreInv
    OBVIOUS
  <1>1. main = "counting"
    BY DEF Init, SetupInit
  <1>2. LcoreTypes
    <2>1. PICK beyond \in Behind :
             state = [c \in 0 .. MaxLcore |-> IF c = MaxLcore THEN beyond ELSE "WAIT"]
      BY DEF Init
    <2>2. beyond \in {"WAIT", "RUNNING", "FINISHED"}
      BY BondAssumption DEF BondAssumption
    <2>3. state \in [0 .. MaxLcore -> {"WAIT", "RUNNING", "FINISHED"}]
      BY <2>1, <2>2
    <2>4. pc \in [Lcores -> Labels] /\ pkts \in [Lcores -> Seq(Packets)]
      BY DEF Init, Labels
    <2> QED
      BY <2>3, <2>4 DEF Init, LcoreTypes
  <1> QED
    BY <1>1, <1>2, LcoresFinite DEF Init, LcoreInv, Launched, InHand, InPacket, Counting

\* The next label of an lcore that has counted, or has not.
LEMMA AfterIs ==
  ASSUME LcoreInv, NEW c \in Lcores, pc[c] \in Counting,
         NEW k \in Counters,
         pc[c] \in {"countTotal", "total"} <=> k = "total"
  PROVE  /\ After(c, k) \in {"countArp", "countIpv4", "dispose"}
         /\ k # "total" => After(c, k) = "dispose"
         /\ k = "total" => /\ After(c, k) = "countArp" <=> EtherType(Packet(c)) = "arp"
                           /\ After(c, k) = "countIpv4" <=> EtherType(Packet(c)) = "ipv4"
  <1>1. EtherType(Packet(c)) \in {"arp", "ipv4", "other"}
    BY InHandIs DEF InPacket
  <1> QED
    BY <1>1 DEF After, AfterTotal

\* A step of an lcore.
LEMMA LcoreKeeps ==
  ASSUME LcoreInv, NEW c \in Lcores, Lcore(c)
  PROVE  LcoreInv'
  <1> USE DEF LcoreInv
  <1>0. /\ pc \in [Lcores -> Labels] /\ pkts \in [Lcores -> Seq(Packets)]
        /\ i \in [Lcores -> Nat]
    BY DEF LcoreTypes
  <1>1. CASE Enter(c)
    <2>1. /\ pc[c] = "entered" /\ pc' = [pc EXCEPT ![c] = "test"]
          /\ UNCHANGED <<main, sharedVars, burstVars, countVars, cmdVars>>
      BY <1>1 DEF Enter, At, Goto
    <2> QED
      BY <2>1 DEF LcoreTypes, Launched, InHand, Labels, InPacket, Counting, Packet,
         sharedVars, burstVars, countVars, cmdVars
  <1>2. CASE EnterWithNull(c)
    BY <1>2 DEF EnterWithNull, LcoreTypes, Launched, InHand, Packet,
       sharedVars, burstVars, countVars, cmdVars
  <1>3. CASE Test(c)
    <2>1. /\ pc[c] = "test" /\ pc' = [pc EXCEPT ![c] = pc'[c]] /\ pc'[c] \in {"poll", "done"}
          /\ pkts' = [pkts EXCEPT ![c] = << >>] /\ i' = [i EXCEPT ![c] = 1]
          /\ \/ pc'[c] = "poll" /\ UNCHANGED state
             \/ pc'[c] = "done" /\ state' = [state EXCEPT ![c] = "FINISHED"]
          /\ UNCHANGED <<main, LcoreMainCore, processed, countVars, cmdVars>>
      BY <1>0, <1>3 DEF Test, At, Goto, sharedVars
    <2>2. LcoreTypes'
      <3>1. pc' \in [Lcores -> Labels]
        BY <1>0, <2>1 DEF Labels
      <3>2. pkts' \in [Lcores -> Seq(Packets)]
        <4>1. << >> \in Seq(Packets)
          OBVIOUS
        <4> QED
          BY <1>0, <2>1, <4>1
      <3>3. i' \in [Lcores -> Nat] /\ state' \in [0 .. MaxLcore -> {"WAIT", "RUNNING", "FINISHED"}]
        BY <2>1 DEF LcoreTypes
      <3> QED
        BY <2>1, <3>1, <3>3, <3>2 DEF LcoreTypes, countVars
    <2>3. Launched'
      BY <2>1, LcoresFinite DEF LcoreTypes, Launched, cmdVars
    <2>4. InHand'
      BY <2>1 DEF LcoreTypes, InHand, InPacket, Counting, Packet
    <2> QED
      BY <2>2, <2>3, <2>4
  <1>4. CASE PollEmpty(c)
    <2>1. /\ pc[c] = "poll" /\ pc' = [pc EXCEPT ![c] = "test"]
          /\ UNCHANGED <<main, sharedVars, pkts, i, processed, countVars, cmdVars>>
      BY <1>4 DEF PollEmpty, At, Goto, AfterEmpty
    <2> QED
      BY <2>1 DEF LcoreTypes, Launched, InHand, Labels, InPacket, Counting, Packet,
         sharedVars, countVars, cmdVars
  <1>5. CASE \E burst \in Bursts : Poll(c, burst)
    <2>1. PICK burst \in Bursts : Poll(c, burst)
      BY <1>5
    <2>2. /\ pc[c] = "poll" /\ pc' = [pc EXCEPT ![c] = "countTotal"]
          /\ pkts' = [pkts EXCEPT ![c] = burst] /\ i' = [i EXCEPT ![c] = 1] /\ burst # << >>
          /\ UNCHANGED <<main, sharedVars, processed, countVars, cmdVars>>
      BY <2>1 DEF Poll, At, Goto
    <2>3. burst \in Seq(Packets) /\ 1 \in 1 .. Len(burst)
      BY <2>2 DEF Bursts
    <2>4. LcoreTypes'
      BY <2>2, <2>3 DEF LcoreTypes, Labels, InPacket, Counting, sharedVars, countVars
    <2>5. Launched'
      BY <2>2 DEF LcoreTypes, Launched, sharedVars, cmdVars
    <2>6. InHand'
      BY <2>2, <2>3 DEF LcoreTypes, InHand, Packet
    <2> QED
      BY <2>4, <2>5, <2>6
  <1>6. CASE CountSkipped(c) \/ CountLoad(c) \/ CountStore(c)
    <2>1. /\ pc[c] \in Counting /\ pc' = [pc EXCEPT ![c] = pc'[c]]
          /\ UNCHANGED <<main, sharedVars, burstVars, cmdVars>>
      BY <1>0, <1>6 DEF CountSkipped, CountLoad, CountStore, Goto, Counting, Counters
    <2>2. /\ pc'[c] \in Counting \cup {"dispose"}
          /\ pc'[c] \in {"countArp", "arp"} => EtherType(Packet(c)) = "arp"
          /\ pc'[c] \in {"countIpv4", "ipv4"} => EtherType(Packet(c)) = "ipv4"
      <3>1. CASE CountSkipped(c)
        BY <1>0, <3>1, AfterIs, Kinds
        DEF CountSkipped, CounterOf, Goto, Counters, Counting
      <3>2. CASE CountLoad(c)
        BY <1>0, <3>2 DEF CountLoad, CounterOf, Goto, InHand, InPacket, Counting
      <3>3. CASE CountStore(c)
        BY <1>0, <3>3, AfterIs DEF CountStore, Goto, Counters, Counting
      <3> QED
        BY <1>6, <3>1, <3>2, <3>3
    <2>3. /\ loaded' \in [Lcores -> Nat] /\ port_packets' \in [Counters -> Nat]
          /\ contended' \in BOOLEAN
      <3>1. CASE CountSkipped(c)
        BY <3>1 DEF CountSkipped, LcoreTypes
      <3>2. CASE CountLoad(c)
        BY <3>2 DEF CountLoad, CounterOf, LcoreTypes, Counters
      <3>3. CASE CountStore(c)
        BY <3>3 DEF CountStore, Counted, LcoreTypes
      <3> QED
        BY <1>6, <3>1, <3>2, <3>3
    <2>4. LcoreTypes'
      BY <2>1, <2>2, <2>3 DEF LcoreTypes, Labels, InPacket, sharedVars, burstVars
    <2>5. Launched'
      BY <1>0, <2>1, <2>2, LcoresFinite DEF Launched, Counting, sharedVars, cmdVars
    <2>6. InHand'
      BY <1>0, <2>1, <2>2 DEF InHand, InPacket, Packet, burstVars
    <2> QED
      BY <2>4, <2>5, <2>6
  <1>7. CASE \E accepted \in BOOLEAN : Dispose(c, accepted)
    <2>1. /\ pc[c] = "dispose" /\ pc' = [pc EXCEPT ![c] = pc'[c]]
          /\ i' = [i EXCEPT ![c] = @ + 1]
          /\ processed' = [processed EXCEPT ![Packet(c)] = @ + 1]
          /\ \/ i[c] < Len(pkts[c]) /\ pc'[c] = "countTotal"
             \/ pc'[c] = "test"
          /\ UNCHANGED <<main, sharedVars, pkts, countVars, cmdVars>>
      BY <1>0, <1>7 DEF Dispose, At, Goto
    <2>2. Packet(c) \in Packets /\ i[c] \in Nat /\ pkts[c] \in Seq(Packets)
      BY <2>1, InHandIs DEF InPacket
    <2>3. LcoreTypes'
      <3>1. pc' \in [Lcores -> Labels] /\ i' \in [Lcores -> Nat]
        BY <1>0, <2>1 DEF Labels, InPacket, Counting
      <3>2. processed' \in [Packets -> Nat]
        BY <2>1, <2>2 DEF LcoreTypes
      <3> QED
        BY <2>1, <3>1, <3>2 DEF LcoreTypes, sharedVars, countVars
    <2>4. Launched'
      BY <1>0, <2>1, LcoresFinite DEF Launched, sharedVars, cmdVars
    <2>5. InHand'
      BY <1>0, <2>1, <2>2 DEF InHand, InPacket, Counting, Packet
    <2> QED
      BY <2>3, <2>4, <2>5
  <1> QED
    BY <1>1, <1>2, <1>3, <1>4, <1>5, <1>6, <1>7 DEF Lcore, Proceed

\* A step of main, or of the command thread.
LEMMA OthersKeep ==
  ASSUME SetupInv, LcoreInv,
         \/ SetupNext /\ UNCHANGED stepVars
         \/ Arm \/ LaunchAll \/ Exit \/ Cmd
         \/ \E name \in {"start", "stop", "quit", "show"} : Command(name)
         \/ \E ip \in Peers : Send(ip)
         \/ UNCHANGED vars
  PROVE  LcoreInv'
  <1> USE DEF LcoreInv, sharedVars, burstVars, countVars, cmdVars, AtMain, CmdAt
  <1>1. CASE SetupNext /\ UNCHANGED stepVars
    <2>1. main # "launched" /\ UNCHANGED stepVars
      BY <1>1 DEF SetupNext, CountPorts, WrongCount, SlavePort, BondCreate, AddSlave,
         AddSlaveFails, BondStart, AllActive, NotActive, SetupFails, Setting
    <2> QED
      BY <2>1 DEF stepVars, LcoreTypes, Launched, InHand, Packet
  <1>2. CASE Arm
    BY <1>2 DEF Arm, LcoreTypes, Launched, InHand, Packet
  <1>3. CASE LaunchAll
    <2>1. /\ main = "armed" /\ main' = "launched"
          /\ \/ UNCHANGED <<pc, state>>
             \/ /\ pc' = [c \in Lcores |-> "entered"]
                /\ state' = [c \in DOMAIN state |-> IF c \in Slaves THEN "RUNNING" ELSE state[c]]
          /\ UNCHANGED <<LcoreMainCore, burstVars, countVars, cmdVars>>
      BY <1>3 DEF LaunchAll
    <2>2. LcoreTypes'
      BY <2>1 DEF LcoreTypes, Labels
    <2>3. Launched'
      BY <2>1, LcoresFinite DEF LcoreTypes, Launched
    <2>4. InHand'
      BY <2>1 DEF InHand, Packet, Launched, InPacket, Counting
    <2> QED
      BY <2>2, <2>3, <2>4
  <1>4. CASE Exit \/ UNCHANGED vars
    BY <1>4 DEF Exit, vars, stepVars, LcoreTypes, Launched, InHand, Packet
  <1>5. CASE \E name \in {"start", "stop", "quit", "show"} : Command(name)
    BY <1>5 DEF Command, LcoreTypes, Launched, InHand, Packet
  <1>6. CASE \E ip \in Peers : Send(ip)
    BY <1>6 DEF Send, LcoreTypes, Launched, InHand, Packet
  <1>7. CASE SendDone \/ StartCheck \/ StartLock \/ StartSet \/ StopCheck \/ ShowDone
    BY <1>7 DEF SendDone, StartCheck, StartLock, StartSet, StopCheck, ShowDone,
       LcoreTypes, Launched, InHand, Packet
  <1>8. CASE StartLaunch
    <2>1. /\ cmd = "startLaunch" /\ cmd' = "idle"
          /\ \/ UNCHANGED <<pc, state>>
             \/ /\ state[FirstSlave] = "WAIT"
                /\ pc' = [pc EXCEPT ![FirstSlave] = "enteredWithNull"]
                /\ state' = [state EXCEPT ![FirstSlave] = "RUNNING"]
          /\ UNCHANGED <<main, LcoreMainCore, burstVars, countVars>>
      BY <1>8 DEF StartLaunch
    <2>2. FirstSlave \in Slaves /\ FirstSlave \in Lcores /\ FirstSlave \in 0 .. MaxLcore
      BY <2>1, FirstIsSlave, LcoresFinite DEF Launched
    <2>3. LcoreTypes'
      BY <2>1, <2>2 DEF LcoreTypes, Labels
    <2>4. Launched'
      BY <2>1, <2>2, LcoresFinite DEF LcoreTypes, Launched
    <2>5. InHand'
      BY <2>1, <2>2 DEF LcoreTypes, InHand, Packet, InPacket, Counting
    <2> QED
      BY <2>3, <2>4, <2>5
  <1>9. CASE StopWait
    <2>1. /\ state[LcoreMainCore] # "RUNNING" /\ cmd' \in {"idle", "gone"}
          /\ state' = [state EXCEPT ![LcoreMainCore] = "WAIT"]
          /\ UNCHANGED <<main, pc, LcoreMainCore, burstVars, countVars>>
      BY <1>9 DEF StopWait
    <2>2. LcoreTypes'
      BY <2>1 DEF LcoreTypes
    <2>3. Launched'
      BY <2>1, LcoresFinite DEF LcoreTypes, Launched
    <2>4. InHand'
      BY <2>1 DEF InHand, Packet
    <2> QED
      BY <2>2, <2>3, <2>4
  <1> QED
    BY <1>1, <1>2, <1>3, <1>4, <1>5, <1>6, <1>7, <1>8, <1>9 DEF Cmd

-----------------------------------------------------------------------------
(* The counters                                                            *)

\* The lcore is past the counter k with a packet of that kind in hand.
IsPast(c, k) ==
    IF k = "total" THEN pc[c] \in {"countArp", "countIpv4", "arp", "ipv4", "dispose"}
    ELSE pc[c] = "dispose" /\ EtherType(Packet(c)) = k

Past == [k \in Counters |-> {c \in Lcores : IsPast(c, k)}]

\* The packets that should be counted by now.
Due == [k \in Counters |-> SumOver(processed, Meant(k)) + Cardinality(Past[k])]

\* A counter is at most what is due, and so is what an lcore has read of it.
\* Without contention nothing is lost, and one lcore counts at a time.
CountInv ==
    /\ \A k \in Counters : port_packets[k] <= Due[k]
    /\ \A c \in Lcores : pc[c] \in Counters => loaded[c] <= Due[pc[c]]
    /\ ~contended =>
          /\ \A k \in Counters : port_packets[k] = Due[k]
          /\ \A c \in Lcores : pc[c] \in Counters => loaded[c] = port_packets[pc[c]]
          /\ \A c, d \in Lcores : pc[c] \in Counters /\ pc[d] \in Counters => c = d

\* The two parts of what is due, now and next.
LEMMA DueIs ==
  ASSUME NEW k \in Counters
  PROVE  /\ Due[k] = SumOver(processed, Meant(k)) + Cardinality(Past[k])
         /\ Due'[k] = SumOver(processed', Meant(k)) + Cardinality(Past'[k])
  <1> QED
    BY DEF Due, Meant

\* Finitely many packets are meant, and finitely many lcores are past.
LEMMA DueType ==
  ASSUME LcoreInv, NEW k \in Counters
  PROVE  /\ Due[k] \in Nat /\ IsFiniteSet(Past[k]) /\ Cardinality(Past[k]) \in Nat
         /\ IsFiniteSet(Meant(k)) /\ Meant(k) \subseteq Packets
         /\ SumOver(processed, Meant(k)) \in Nat
  <1>1. IsFiniteSet(Meant(k)) /\ Meant(k) \subseteq Packets
    BY BondAssumption, FS_Subset DEF BondAssumption, Meant
  <1>2. IsFiniteSet(Past[k]) /\ Cardinality(Past[k]) \in Nat
    BY LcoresFinite, FS_Subset, FS_CardinalityType DEF Past
  <1>3. SumOver(processed, Meant(k)) \in Nat
    BY <1>1, SumOverType DEF LcoreInv, LcoreTypes
  <1> QED
    BY <1>1, <1>2, <1>3, DueIs

\* Nothing is processed, and nobody comes past the counter.
LEMMA DueKept ==
  ASSUME NEW k \in Counters, processed' = processed,
         \A c \in Lcores : IsPast(c, k)' <=> IsPast(c, k)
  PROVE  Due'[k] = Due[k]
  <1>1. Past'[k] = Past[k]
    BY DEF Past
  <1> QED
    BY <1>1, DueIs

\* An lcore comes past the counter.
LEMMA DueGrows ==
  ASSUME LcoreInv, NEW k \in Counters, processed' = processed, NEW c \in Lcores,
         ~IsPast(c, k), IsPast(c, k)',
         \A d \in Lcores \ {c} : IsPast(d, k)' <=> IsPast(d, k)
  PROVE  Due'[k] = Due[k] + 1
  <1>1. Past'[k] = Past[k] \cup {c} /\ c \notin Past[k]
    BY DEF Past
  <1>2. Cardinality(Past[k] \cup {c}) = Cardinality(Past[k]) + 1
    BY <1>1, DueType, FS_AddElement
  <1>3. Cardinality(Past[k]) \in Nat /\ SumOver(processed, Meant(k)) \in Nat
    BY DueType
  <1>4. /\ Due[k] = SumOver(processed, Meant(k)) + Cardinality(Past[k])
        /\ Due'[k] = SumOver(processed', Meant(k)) + Cardinality(Past'[k])
    BY DueIs
  <1> QED
    BY <1>1, <1>2, <1>3, <1>4

\* A packet that an lcore is past the counter with is processed.
LEMMA DueMoves ==
  ASSUME LcoreInv, NEW k \in Counters, NEW c \in Lcores, NEW p \in Packets,
         processed'[p] = processed[p] + 1,
         \A q \in Packets \ {p} : processed'[q] = processed[q],
         IsPast(c, k) <=> p \in Meant(k), ~IsPast(c, k)',
         \A d \in Lcores \ {c} : IsPast(d, k)' <=> IsPast(d, k)
  PROVE  Due'[k] = Due[k]
  <1>1. Past'[k] = Past[k] \ {c} /\ (c \in Past[k] <=> p \in Meant(k))
    BY DEF Past
  <1>2. SumOver(processed', Meant(k))
           = IF p \in Meant(k) THEN SumOver(processed, Meant(k)) + 1
                               ELSE SumOver(processed, Meant(k))
    <2>1. processed \in [Packets -> Nat]
      BY DEF LcoreInv, LcoreTypes
    <2>2. IsFiniteSet(Meant(k)) /\ Meant(k) \subseteq Packets
      BY DueType
    <2> QED
      BY <2>1, <2>2, SumOverOneMore
  <1>3. Cardinality(Past[k] \ {c}) = IF c \in Past[k] THEN Cardinality(Past[k]) - 1
                                                       ELSE Cardinality(Past[k])
    BY DueType, FS_RemoveElement
  <1>4. Cardinality(Past[k]) \in Nat /\ SumOver(processed, Meant(k)) \in Nat
    BY DueType
  <1>5. /\ Due[k] = SumOver(processed, Meant(k)) + Cardinality(Past[k])
        /\ Due'[k] = SumOver(processed', Meant(k)) + Cardinality(Past'[k])
    BY DueIs
  <1> QED
    BY <1>1, <1>2, <1>3, <1>4, <1>5

\* The counters when nothing has been received.
LEMMA CountInitInv == Init => CountInv
  <1> SUFFICES ASSUME Init
               PROVE  CountInv
    OBVIOUS
  <1>1. LcoreInv
    BY LcoreInitInv
  <1>2. /\ pc = [c \in Lcores |-> "idle"] /\ processed = [p \in Packets |-> 0]
        /\ port_packets = [k \in Counters |-> 0]
    BY DEF Init
  <1>3. \A k \in Counters : Past[k] = {} /\ Due[k] = SumOver(processed, Meant(k))
    <2>1. \A k \in Counters : Past[k] = {}
      BY <1>2 DEF Past, IsPast
    <2>2. Cardinality({}) = 0
      BY FS_EmptySet
    <2>3. ASSUME NEW k \in Counters
          PROVE  Due[k] = SumOver(processed, Meant(k))
      <3>1. Due[k] = SumOver(processed, Meant(k)) + Cardinality(Past[k])
        BY DueIs
      <3>2. SumOver(processed, Meant(k)) \in Nat
        BY <1>1, DueType
      <3> QED
        BY <2>1, <2>2, <3>1, <3>2
    <2> QED
      BY <2>1, <2>3
  <1>4. \A k \in Counters : Due[k] = 0
    BY <1>1, <1>2, <1>3, DueType, SumOverZero DEF Meant
  <1> QED
    BY <1>2, <1>4 DEF CountInv, Counters

\* No counter changes, and no lcore is near one that was not before.
LEMMA CountStays ==
  ASSUME LcoreInv, CountInv, processed' = processed, UNCHANGED countVars,
         \A c \in Lcores :
            \/ pc'[c] = pc[c] /\ pkts'[c] = pkts[c] /\ i'[c] = i[c]
            \/ /\ pc[c] \notin InPacket \/ pc[c] = "countTotal"
               /\ pc'[c] \notin InPacket \/ pc'[c] = "countTotal"
  PROVE  CountInv'
  <1>1. \A c \in Lcores, k \in Counters : IsPast(c, k)' <=> IsPast(c, k)
    BY DEF IsPast, Packet, InPacket, Counting
  <1>2. \A k \in Counters : Due'[k] = Due[k]
    BY <1>1, DueKept
  <1>3. \A c \in Lcores : pc'[c] \in Counters => pc'[c] = pc[c]
    BY DEF Counters, InPacket, Counting
  <1> QED
    BY <1>2, <1>3 DEF CountInv, countVars

\* An lcore counts its packet, or the lock was busy and it does not.
LEMMA CountedKeeps ==
  ASSUME LcoreInv, CountInv, NEW c \in Lcores,
         CountSkipped(c) \/ CountLoad(c) \/ CountStore(c)
  PROVE  CountInv'
  <1>0. /\ pc \in [Lcores -> Labels] /\ loaded \in [Lcores -> Nat]
        /\ port_packets \in [Counters -> Nat] /\ contended \in BOOLEAN
    BY DEF LcoreInv, LcoreTypes
  <1>1. processed' = processed /\ pkts' = pkts /\ i' = i /\ pc' = [pc EXCEPT ![c] = pc'[c]]
    BY <1>0 DEF CountSkipped, CountLoad, CountStore, Goto, burstVars
  <1>2. ASSUME NEW k \in Counters, NEW d \in Lcores \ {c}
        PROVE  IsPast(d, k)' <=> IsPast(d, k)
    BY <1>0, <1>1 DEF IsPast, Packet
  <1>3. \A k \in Counters : Due[k] \in Nat
    BY DueType
  <1>4. CASE CountLoad(c)
    <2>1. PICK k \in Counters :
          /\ pc[c] \in {"countTotal", "countArp", "countIpv4"}
          /\ pc' = [pc EXCEPT ![c] = k] /\ loaded' = [loaded EXCEPT ![c] = port_packets[k]]
          /\ contended' = (contended \/ \E d \in Lcores : pc[d] \in Counters)
          /\ port_packets' = port_packets
      BY <1>4 DEF CountLoad, CounterOf, Goto, Counters
    <2>2. \A l \in Counters : IsPast(c, l)' <=> IsPast(c, l)
      BY <1>0, <1>1, <2>1, <1>4 DEF CountLoad, CounterOf, Goto, IsPast
    <2>3. \A l \in Counters : Due'[l] = Due[l]
      BY <1>1, <1>2, <2>2, DueKept
    <2>4. \A d \in Lcores : pc'[d] = IF d = c THEN k ELSE pc[d]
      BY <1>0, <2>1
    <2>5. \A d \in Lcores : loaded'[d] = IF d = c THEN port_packets[k] ELSE loaded[d]
      BY <1>0, <2>1
    <2>6. \A l \in Counters : port_packets'[l] <= Due'[l]
      BY <2>1, <2>3 DEF CountInv
    <2>7. \A d \in Lcores : pc'[d] \in Counters => loaded'[d] <= Due'[pc'[d]]
      BY <2>1, <2>3, <2>4, <2>5 DEF CountInv
    <2>8. ASSUME ~contended'
          PROVE  /\ \A l \in Counters : port_packets'[l] = Due'[l]
                 /\ \A d \in Lcores : pc'[d] \in Counters => loaded'[d] = port_packets'[pc'[d]]
                 /\ \A d, e \in Lcores : pc'[d] \in Counters /\ pc'[e] \in Counters => d = e
      <3>1. ~contended /\ \A d \in Lcores : pc[d] \notin Counters
        BY <2>1, <2>8
      <3> QED
        BY <2>1, <2>3, <2>4, <2>5, <3>1 DEF CountInv
    <2> QED
      BY <2>6, <2>7, <2>8 DEF CountInv
  <1>5. CASE CountSkipped(c) \/ CountStore(c)
    <2>1. PICK k \in Counters :
          /\ pc[c] \in Counting /\ pc'[c] = After(c, k)
          /\ pc[c] \in {"countTotal", "total"} <=> k = "total"
          /\ pc[c] \in {"countArp", "arp"} <=> k = "arp"
          /\ pc[c] \in {"countIpv4", "ipv4"} <=> k = "ipv4"
      BY <1>0, <1>5 DEF CountSkipped, CountStore, CounterOf, Counters, Counting, Goto
    <2>2. /\ After(c, k) \in {"countArp", "countIpv4", "dispose"}
          /\ k # "total" => After(c, k) = "dispose"
          /\ k = "total" => /\ After(c, k) = "countArp" <=> EtherType(Packet(c)) = "arp"
                            /\ After(c, k) = "countIpv4" <=> EtherType(Packet(c)) = "ipv4"
      BY <2>1, AfterIs
    <2>3. k # "total" => EtherType(Packet(c)) = k
      BY <2>1 DEF LcoreInv, InHand, InPacket, Counters
    <2>4. Packet(c)' = Packet(c)
      BY <1>1 DEF Packet
    <2>5. ~IsPast(c, k) /\ IsPast(c, k)'
      BY <2>1, <2>2, <2>3, <2>4 DEF IsPast, Counting, Counters
    <2>6. \A l \in Counters \ {k} : IsPast(c, l)' <=> IsPast(c, l)
      BY <2>1, <2>2, <2>3, <2>4 DEF IsPast, Counting, Counters
    <2>7. Due'[k] = Due[k] + 1
      BY <1>1, <1>2, <2>5, DueGrows
    <2>8. \A l \in Counters \ {k} : Due'[l] = Due[l]
      BY <1>1, <1>2, <2>6, DueKept
    <2>9. pc'[c] \notin Counters /\ \A d \in Lcores \ {c} : pc'[d] = pc[d]
      BY <1>0, <1>1, <2>1, <2>2 DEF Counters
    <2>10. CASE CountSkipped(c)
      <3>1. contended' = TRUE /\ loaded' = loaded /\ port_packets' = port_packets
        BY <2>10 DEF CountSkipped
      <3>2. \A l \in Counters : port_packets'[l] <= Due'[l]
        BY <1>0, <1>3, <2>1, <2>7, <2>8, <3>1 DEF CountInv
      <3>3. ASSUME NEW d \in Lcores, pc'[d] \in Counters
            PROVE  loaded'[d] <= Due'[pc'[d]]
        <4>1. d # c /\ pc'[d] = pc[d] /\ loaded'[d] = loaded[d] /\ loaded[d] \in Nat
          BY <1>0, <2>9, <3>1, <3>3
        <4>2. loaded[d] <= Due[pc[d]] /\ Due[pc[d]] \in Nat /\ Due[k] \in Nat
          BY <1>3, <3>3, <4>1 DEF CountInv
        <4>3. Due'[pc[d]] \in {Due[pc[d]], Due[pc[d]] + 1}
          BY <3>3, <4>1, <2>7, <2>8
        <4> QED
          BY <4>1, <4>2, <4>3
      <3> QED
        BY <3>1, <3>2, <3>3 DEF CountInv
    <2>11. CASE CountStore(c)
      <3>0. pc[c] = k
        BY <2>1, <2>11 DEF CountStore, Counters
      <3>1. /\ pc[c] = k /\ loaded' = [loaded EXCEPT ![c] = 0] /\ contended' = contended
            /\ port_packets' = [port_packets EXCEPT ![k] = loaded[c] + 1]
        BY <2>11, <3>0 DEF CountStore, Counted
      <3>2. loaded[c] <= Due[k] /\ loaded[c] \in Nat /\ Due[k] \in Nat
        BY <1>0, <1>3, <2>1, <3>1 DEF CountInv
      <3>3. \A l \in Counters : port_packets'[l] <= Due'[l]
        BY <1>0, <2>7, <2>8, <3>1, <3>2 DEF CountInv
      <3>4. ASSUME NEW d \in Lcores, pc'[d] \in Counters
            PROVE  loaded'[d] <= Due'[pc'[d]]
        <4>1. d # c /\ pc'[d] = pc[d] /\ loaded'[d] = loaded[d] /\ loaded[d] \in Nat
          BY <1>0, <2>9, <3>1, <3>4
        <4>2. loaded[d] <= Due[pc[d]] /\ Due[pc[d]] \in Nat
          BY <1>3, <3>4, <4>1 DEF CountInv
        <4>3. Due'[pc[d]] \in {Due[pc[d]], Due[pc[d]] + 1}
          BY <3>4, <4>1, <2>7, <2>8
        <4> QED
          BY <4>1, <4>2, <4>3
      <3>5. ASSUME ~contended'
            PROVE  /\ \A l \in Counters : port_packets'[l] = Due'[l]
                   /\ \A d \in Lcores : pc'[d] \in Counters => loaded'[d] = port_packets'[pc'[d]]
                   /\ \A d, e \in Lcores : pc'[d] \in Counters /\ pc'[e] \in Counters => d = e
        <4>1. ~contended
          BY <3>1, <3>5
        <4>2. loaded[c] = Due[k]
          BY <2>1, <3>1, <4>1 DEF CountInv
        <4>3. \A d \in Lcores : pc'[d] \notin Counters
          BY <2>1, <2>9, <3>1, <4>1 DEF CountInv
        <4>4. \A l \in Counters : port_packets'[l] = Due'[l]
          BY <1>0, <2>1, <2>7, <2>8, <3>1, <4>1, <4>2 DEF CountInv
        <4> QED
          BY <4>3, <4>4
      <3> QED
        BY <3>3, <3>4, <3>5 DEF CountInv
    <2> QED
      BY <1>5, <2>10, <2>11
  <1> QED
    BY <1>4, <1>5

\* The packet in hand is processed.
LEMMA DisposeKeeps ==
  ASSUME LcoreInv, CountInv, NEW c \in Lcores, NEW accepted, Dispose(c, accepted)
  PROVE  CountInv'
  <1>0. pc \in [Lcores -> Labels] /\ i \in [Lcores -> Nat]
    BY DEF LcoreInv, LcoreTypes
  <1>1. /\ pc[c] = "dispose" /\ i' = [i EXCEPT ![c] = @ + 1]
        /\ pc' = [pc EXCEPT ![c] = pc'[c]] /\ pc'[c] \in {"countTotal", "test"}
        /\ processed' = [processed EXCEPT ![Packet(c)] = @ + 1]
        /\ UNCHANGED <<pkts, countVars>>
    BY <1>0 DEF Dispose, At, Goto
  <1>2. \A k \in Counters, d \in Lcores \ {c} : IsPast(d, k)' <=> IsPast(d, k)
    BY <1>0, <1>1 DEF IsPast, Packet
  <1>3. \A k \in Counters : ~IsPast(c, k)'
    BY <1>1 DEF IsPast
  <1>4. Packet(c) \in Packets
    BY <1>1, InHandIs DEF InPacket
  <1>5. \A k \in Counters : IsPast(c, k) <=> Packet(c) \in Meant(k)
    BY <1>1, <1>4, Kinds DEF IsPast, Counters
  <1>6. /\ processed'[Packet(c)] = processed[Packet(c)] + 1
        /\ \A q \in Packets \ {Packet(c)} : processed'[q] = processed[q]
    BY <1>1, <1>4 DEF LcoreInv, LcoreTypes
  <1>7. \A k \in Counters : Due'[k] = Due[k]
    <2>1. PICK p \in Packets : p = Packet(c)
      BY <1>4
    <2> QED
      BY <1>2, <1>3, <1>5, <1>6, <2>1, DueMoves
  <1>8. \A d \in Lcores : pc'[d] \in Counters => pc'[d] = pc[d]
    BY <1>0, <1>1 DEF Counters
  <1> QED
    BY <1>1, <1>8, <1>7 DEF CountInv, countVars

\* Every step keeps what is said of the counters.
LEMMA CountKeeps ==
  ASSUME SetupInv, LcoreInv, CountInv, [Next]_vars
  PROVE  CountInv'
  <1>0. pc \in [Lcores -> Labels]
    BY DEF LcoreInv, LcoreTypes
  <1>1. ASSUME NEW c \in Lcores, Lcore(c)
        PROVE  CountInv'
    <2>1. CASE Enter(c) \/ EnterWithNull(c) \/ Test(c) \/ PollEmpty(c)
               \/ \E burst \in Bursts : Poll(c, burst)
      <3>1. /\ processed' = processed /\ UNCHANGED countVars
            /\ pc[c] \notin InPacket /\ (pc'[c] \notin InPacket \/ pc'[c] = "countTotal")
        BY <1>0, <2>1 DEF Enter, EnterWithNull, Test, PollEmpty, Poll, At, Goto, AfterEmpty,
           InPacket, Counting, burstVars
      <3>2. \A d \in Lcores \ {c} : pc'[d] = pc[d] /\ pkts'[d] = pkts[d] /\ i'[d] = i[d]
        BY <1>0, <2>1 DEF Enter, EnterWithNull, Test, PollEmpty, Poll, Goto, burstVars,
           LcoreInv, LcoreTypes
      <3> QED
        BY <3>1, <3>2, CountStays
    <2>2. CASE CountSkipped(c) \/ CountLoad(c) \/ CountStore(c)
      BY <2>2, CountedKeeps
    <2>3. CASE \E accepted \in BOOLEAN : Dispose(c, accepted)
      BY <2>3, DisposeKeeps
    <2> QED
      BY <1>1, <2>1, <2>2, <2>3 DEF Lcore, Proceed
  <1>2. CASE LaunchAll
    <2>1. \A c \in Lcores : pc[c] \notin InPacket
      BY <1>2 DEF LaunchAll, AtMain, LcoreInv, Launched, InPacket, Counting
    <2>2. \A c \in Lcores : pc'[c] = pc[c] \/ pc'[c] = "entered"
      BY <1>2 DEF LaunchAll
    <2>3. \A c \in Lcores : pc'[c] \notin InPacket
      BY <2>1, <2>2 DEF InPacket, Counting
    <2>4. processed' = processed /\ UNCHANGED countVars
      BY <1>2 DEF LaunchAll, burstVars
    <2> QED
      BY <2>1, <2>3, <2>4, CountStays
  <1>3. CASE StartLaunch
    <2>1. processed' = processed /\ UNCHANGED <<countVars, pkts, i>>
      BY <1>3 DEF StartLaunch, burstVars
    <2>2. pc' = pc \/ (state[FirstSlave] = "WAIT" /\ FirstSlave \in Slaves
                        /\ pc' = [pc EXCEPT ![FirstSlave] = "enteredWithNull"])
      BY <1>3, FirstIsSlave DEF StartLaunch, CmdAt, LcoreInv, Launched
    <2>3. \A c \in Lcores : pc'[c] = pc[c] \/ (pc[c] \notin InPacket /\ pc'[c] \notin InPacket)
      BY <1>0, <2>2 DEF LcoreInv, Launched, InPacket, Counting
    <2> QED
      BY <2>1, <2>3, CountStays
  <1>4. CASE \/ SetupNext /\ UNCHANGED stepVars
             \/ Arm \/ Exit \/ SendDone \/ StartCheck \/ StartLock \/ StartSet
             \/ StopCheck \/ StopWait \/ ShowDone
             \/ \E name \in {"start", "stop", "quit", "show"} : Command(name)
             \/ \E ip \in Peers : Send(ip)
             \/ UNCHANGED vars
    <2>1. UNCHANGED <<pc, pkts, i, processed, countVars>>
      BY <1>4 DEF stepVars, vars, burstVars, Arm, Exit, SendDone, StartCheck, StartLock,
         StartSet, StopCheck, StopWait, ShowDone, Command, Send
    <2> QED
      BY <2>1, CountStays
  <1> QED
    BY <1>1, <1>2, <1>3, <1>4 DEF Next, Running, Cmd

\* The steps after setup change nothing that setup has made.
LEMMA MainGoesOn ==
  ASSUME SetupInv, Running, UNCHANGED setupVars
  PROVE  SetupInv'
  <1>1. UNCHANGED portVars
    BY DEF setupVars
  <1>2. main' = main \/ (main = "starting" /\ main' = "armed")
           \/ (main = "armed" /\ main' = "launched")
    BY DEF Running, Lcore, Proceed, Enter, EnterWithNull, Test, PollEmpty, Poll, CountSkipped,
       CountLoad, CountStore, Dispose, Arm, LaunchAll, Exit, Command, Send, Cmd, SendDone,
       StartCheck, StartLock, StartSet, StartLaunch, StopCheck, StopWait, ShowDone, AtMain
  <1> QED
    BY <1>1, <1>2 DEF portVars, SetupInv, SetupTypes, Progress, SlavesFilled, BondedSlaves

-----------------------------------------------------------------------------
(* The queues                                                              *)

\* An lcore has the number of one of the queues.
LEMMA RingIdIsQueue ==
  ASSUME NEW c \in Lcores
  PROVE  RingId(Master, c) \in Queues
  <1> DEFINE B == {d \in Lcores : Master <= d /\ d < c}
  <1>1. Cardinality(Lcores) \in Nat /\ Cardinality(Lcores) # 0
    BY LcoresFinite, FS_CardinalityType, FS_EmptySet
  <1>2. c \notin B /\ B \subseteq Lcores
    BY LcoresFinite
  <1>3. Cardinality(B) \in Nat /\ Cardinality(B) < Cardinality(Lcores)
    <2> HIDE DEF B
    <2>1. IsFiniteSet(B) /\ Cardinality(B) \in Nat
      BY <1>2, LcoresFinite, FS_Subset, FS_CardinalityType
    <2>2. Cardinality(B) <= Cardinality(Lcores) /\ Cardinality(B) # Cardinality(Lcores)
      BY <1>2, LcoresFinite, FS_Subset
    <2> QED
      BY <1>1, <2>1, <2>2
  <1>4. RingId(Master, c) = IF c < Master THEN 0 ELSE Cardinality(B)
    BY DEF RingId
  <1> HIDE DEF B
  <1> QED
    BY <1>1, <1>3, <1>4 DEF Queues

\* From the master up, a higher lcore has a higher number.
LEMMA RingIdGrows ==
  ASSUME NEW c \in Lcores, NEW d \in Lcores, c < d, Master < d
  PROVE  RingId(Master, c) # RingId(Master, d)
  <1> DEFINE B(e) == {f \in Lcores : Master <= f /\ f < e}
  <1>1. c \in Nat /\ d \in Nat /\ Master \in Nat /\ Master \in Lcores
    BY LcoresFinite
  <1>2. \A e : IsFiniteSet(B(e)) /\ Cardinality(B(e)) \in Nat
    BY LcoresFinite, FS_Subset, FS_CardinalityType
  <1>3. RingId(Master, d) = Cardinality(B(d))
    BY <1>1 DEF RingId
  <1>4. CASE c < Master
    <2>1. RingId(Master, c) = 0
      BY <1>4 DEF RingId
    <2>2. Master \in B(d)
      BY <1>1
    <2> HIDE DEF B
    <2>3. Cardinality(B(d)) # 0
      BY <1>2, <2>2, FS_EmptySet
    <2> QED
      BY <1>3, <2>1, <2>3
  <1>5. CASE ~(c < Master)
    <2>1. RingId(Master, c) = Cardinality(B(c))
      BY <1>5 DEF RingId
    <2>2. B(c) \subseteq B(d) /\ c \in B(d) /\ c \notin B(c)
      <3>1. Lcores \subseteq Nat
        BY LcoresFinite
      <3>2. c \in B(d) /\ c \notin B(c)
        BY <1>1, <1>5
      <3>3. ASSUME NEW f \in B(c)
            PROVE  f \in B(d)
        BY <1>1, <3>1, <3>3
      <3> QED
        BY <3>2, <3>3
    <2> HIDE DEF B
    <2>3. Cardinality(B(c)) # Cardinality(B(d))
      BY <1>2, <2>2, FS_Subset
    <2> QED
      BY <1>3, <2>1, <2>3
  <1> QED
    BY <1>4, <1>5

\* Only lcores up to the master share a number.
LEMMA RingIdsDiffer ==
  ASSUME NEW c \in Lcores, NEW d \in Lcores, c # d, RingId(Master, d) = RingId(Master, c)
  PROVE  c <= Master /\ d <= Master
  <1>1. c \in Nat /\ d \in Nat /\ Master \in Nat
    BY LcoresFinite
  <1> QED
    BY <1>1, RingIdGrows

\* What an answer is made of.
LEMMA AnswerIs ==
  ASSUME NEW p \in Packets, IsAnswer(p)
  PROVE  LET a == Answer(p)
         IN  /\ a.d_addr = p.s_addr /\ a.tip = p.sip
             /\ a.s_addr = BondMac /\ a.sip = BondIp
             /\ a.type = "arp" => a.op = "reply" /\ a.tha = p.sha /\ a.sha = BondMac
  <1>1. DOMAIN p = {"tags", "type", "d_addr", "s_addr", "op", "sha", "sip", "tha", "tip"}
    BY BondAssumption DEF BondAssumption
  <1>2. ASSUME NEW q, DOMAIN q = DOMAIN p, NEW t, t = TurnedRound(q, BondMac, BondIp)
        PROVE  /\ DOMAIN t = DOMAIN p
               /\ t.d_addr = q.s_addr /\ t.s_addr = BondMac /\ t.tip = q.sip /\ t.sip = BondIp
               /\ t.type = q.type /\ t.op = q.op /\ t.sha = q.sha
    BY <1>1, <1>2 DEF TurnedRound
  <1>3. PICK t : t = TurnedRound(p, BondMac, BondIp)
    OBVIOUS
  <1>4. CASE EtherType(p) = "arp"
    <2>1. PICK q : q = [p EXCEPT !.op = "reply"]
      OBVIOUS
    <2>2. /\ DOMAIN q = DOMAIN p /\ q.op = "reply" /\ q.s_addr = p.s_addr
          /\ q.sip = p.sip /\ q.sha = p.sha
      BY <1>1, <2>1
    <2>3. PICK r : r = TurnedRound(q, BondMac, BondIp)
      OBVIOUS
    <2>4. /\ DOMAIN r = DOMAIN p /\ r.d_addr = p.s_addr /\ r.s_addr = BondMac
          /\ r.tip = p.sip /\ r.sip = BondIp /\ r.op = "reply" /\ r.sha = p.sha
      BY <1>2, <2>2, <2>3
    <2>5. Answer(p) = LET target == [r EXCEPT !.tha = r.sha]
                      IN  [target EXCEPT !.sha = BondMac]
      BY <1>4, <2>1, <2>3 DEF Answer, ArpReply
    <2> QED
      BY <1>1, <2>4, <2>5
  <1>5. CASE EtherType(p) # "arp"
    <2>1. Answer(p) = t
      BY <1>3, <1>5 DEF Answer
    <2>2. p.type = "ipv4"
      BY <1>5 DEF IsAnswer, Reply, ArpAsks, Ipv4For, EtherType
    <2> QED
      BY <1>2, <1>3, <2>1, <2>2
  <1> QED
    BY <1>4, <1>5

-----------------------------------------------------------------------------
(* The answers                                                             *)

\* What the history says was sent is the answer to the packet at that place
\* of the burst, and what send has built is a request for an address.
AnswerInv ==
    /\ DOMAIN fate = Lcores /\ \A c \in Lcores : DOMAIN fate[c] = DOMAIN pkts[c]
    /\ \A c \in Lcores : \A n \in DOMAIN pkts[c] : fate[c][n].sent # None =>
          IsAnswer(pkts[c][n]) /\ fate[c][n].sent = Answer(pkts[c][n])
    /\ asked # None => \E ip \in Peers : asked = ArpRequest(ip)

\* A step of an lcore, which has at most its own burst to answer.
LEMMA AnswerLcoreKeeps ==
  ASSUME LcoreInv, AnswerInv, NEW c \in Lcores, Lcore(c)
  PROVE  AnswerInv'
  <1>0. pkts \in [Lcores -> Seq(Packets)] /\ i \in [Lcores -> Nat]
    BY DEF LcoreInv, LcoreTypes
  <1>1. asked' = asked
    BY DEF Lcore, Proceed, Enter, EnterWithNull, Test, PollEmpty, Poll, CountSkipped,
       CountLoad, CountStore, Dispose, cmdVars
  <1>2. CASE Test(c)
    <2>1. pkts' = [pkts EXCEPT ![c] = << >>] /\ fate' = [fate EXCEPT ![c] = << >>]
      BY <1>2 DEF Test
    <2>2. DOMAIN << >> = {}
      OBVIOUS
    <2> QED
      BY <1>0, <1>1, <2>1, <2>2 DEF AnswerInv
  <1>3. CASE \E burst \in Bursts : Poll(c, burst)
    <2>1. PICK burst \in Bursts : Poll(c, burst)
      BY <1>3
    <2>2. /\ pkts' = [pkts EXCEPT ![c] = burst]
          /\ fate' = [fate EXCEPT ![c] = [k \in DOMAIN burst |-> [freed |-> 0, sent |-> None]]]
      BY <2>1 DEF Poll
    <2>3. \A d \in Lcores : /\ d # c => pkts'[d] = pkts[d] /\ fate'[d] = fate[d]
                            /\ d = c => pkts'[d] = burst /\ DOMAIN fate'[d] = DOMAIN burst
      BY <1>0, <2>2 DEF AnswerInv
    <2>4. \A n \in DOMAIN burst : fate'[c][n].sent = None
      BY <2>2 DEF AnswerInv
    <2>5. DOMAIN fate' = Lcores
      BY <2>2 DEF AnswerInv
    <2>6. ASSUME NEW d \in Lcores, NEW n \in DOMAIN pkts'[d], fate'[d][n].sent # None
          PROVE  IsAnswer(pkts'[d][n]) /\ fate'[d][n].sent = Answer(pkts'[d][n])
      <3>1. d # c
        BY <2>3, <2>4, <2>6
      <3>2. pkts'[d] = pkts[d] /\ fate'[d] = fate[d]
        BY <2>3, <3>1
      <3>3. \A m \in DOMAIN pkts[d] : fate[d][m].sent # None =>
               IsAnswer(pkts[d][m]) /\ fate[d][m].sent = Answer(pkts[d][m])
        BY DEF AnswerInv
      <3> QED
        BY <2>6, <3>2, <3>3
    <2>7. ASSUME NEW d \in Lcores
          PROVE  DOMAIN fate'[d] = DOMAIN pkts'[d]
      <3>1. DOMAIN fate[d] = DOMAIN pkts[d]
        BY DEF AnswerInv
      <3> QED
        BY <2>3, <3>1
    <2>8. asked' # None => \E ip \in Peers : asked' = ArpRequest(ip)
      BY <1>1 DEF AnswerInv
    <2> QED
      BY <2>5, <2>6, <2>7, <2>8 DEF AnswerInv
  <1>4. CASE \E accepted \in BOOLEAN : Dispose(c, accepted)
    <2>1. PICK accepted \in BOOLEAN : Dispose(c, accepted)
      BY <1>4
    <2> DEFINE f == [freed |-> IF is_free[c] \/ Reply(Packet(c)) THEN 0 ELSE 1,
                     sent  |-> IF accepted THEN Answer(Packet(c)) ELSE None]
    <2>2. /\ fate' = [fate EXCEPT ![c][i[c]] = f]
          /\ f.sent # None => IsAnswer(Packet(c)) /\ f.sent = Answer(Packet(c))
      BY <2>1 DEF Dispose
    <2> HIDE DEF f
    <2>3. pc[c] = "dispose" /\ pkts' = pkts
      BY <2>1 DEF Dispose, At
    <2>4. i[c] \in DOMAIN pkts[c]
      BY <1>0, <2>3, InHandIs DEF InPacket
    <2>5. \A d \in Lcores : \A n \in DOMAIN pkts[d] :
             fate'[d][n] = IF d = c /\ n = i[c] THEN f ELSE fate[d][n]
      BY <2>2, <2>4 DEF AnswerInv
    <2>6. DOMAIN fate' = Lcores /\ \A d \in Lcores : DOMAIN fate'[d] = DOMAIN pkts[d]
      BY <2>2, <2>4 DEF AnswerInv
    <2> QED
      BY <1>1, <2>2, <2>3, <2>5, <2>6 DEF AnswerInv, Packet
  <1>5. CASE UNCHANGED <<pkts, fate>>
    BY <1>1, <1>5 DEF AnswerInv
  <1> QED
    BY <1>2, <1>3, <1>4, <1>5 DEF Lcore, Proceed, Enter, EnterWithNull, PollEmpty, CountSkipped,
       CountLoad, CountStore, burstVars

\* Every step keeps what is said of the answers.
LEMMA AnswerKeeps ==
  ASSUME LcoreInv, AnswerInv, [Next]_vars
  PROVE  AnswerInv'
  <1>1. CASE \E c \in Lcores : Lcore(c)
    BY <1>1, AnswerLcoreKeeps
  <1>2. CASE \E ip \in Peers : Send(ip)
    <2>1. fate' = fate /\ pkts' = pkts
          /\ (asked' = asked \/ \E ip \in Peers : asked' = ArpRequest(ip))
      BY <1>2 DEF Send, burstVars
    <2> QED
      BY <2>1 DEF AnswerInv, ArpRequest
  <1>3. CASE \/ SetupNext /\ UNCHANGED stepVars
             \/ Arm \/ LaunchAll \/ Exit \/ Cmd
             \/ \E name \in {"start", "stop", "quit", "show"} : Command(name)
             \/ UNCHANGED vars
    <2>1. fate' = fate /\ pkts' = pkts /\ (asked' = asked \/ asked' = None)
      BY <1>3 DEF stepVars, vars, burstVars, cmdVars, Arm, LaunchAll, Exit, Cmd, SendDone,
         StartCheck, StartLock, StartSet, StartLaunch, StopCheck, StopWait, ShowDone, Command
    <2> QED
      BY <2>1 DEF AnswerInv
  <1> QED
    BY <1>1, <1>2, <1>3 DEF Next, Running

-----------------------------------------------------------------------------
(* The invariant, and what follows from it                                 *)

IInv == SetupInv /\ LcoreInv /\ CountInv /\ AnswerInv

\* The inductive invariant of setup, lcores, counters and answers.
THEOREM Invariance == Spec => []IInv
  <1>1. Init => IInv
    <2> SUFFICES ASSUME Init
                 PROVE  IInv
      OBVIOUS
    <2>1. AnswerInv
      BY DEF Init, AnswerInv
    <2> QED
      BY <2>1, SetupInitInv, LcoreInitInv, CountInitInv DEF Init, IInv
  <1>2. IInv /\ [Next]_vars => IInv'
    <2> SUFFICES ASSUME IInv, [Next]_vars
                 PROVE  IInv'
      OBVIOUS
    <2>1. SetupInv'
      <3>1. CASE SetupNext
        BY <3>1, SetupKeeps DEF IInv
      <3>2. CASE Running /\ UNCHANGED setupVars
        BY <3>2, MainGoesOn DEF IInv
      <3>3. CASE UNCHANGED vars
        BY <3>3 DEF vars, setupVars, portVars, IInv, SetupInv, SetupTypes, Progress,
           SlavesFilled, BondedSlaves
      <3> QED
        BY <3>1, <3>2, <3>3 DEF Next
    <2>2. LcoreInv'
      <3>1. CASE \E c \in Lcores : Lcore(c)
        BY <3>1, LcoreKeeps DEF IInv
      <3>2. CASE ~\E c \in Lcores : Lcore(c)
        BY <3>2, OthersKeep DEF IInv, Next, Running
      <3> QED
        BY <3>1, <3>2
    <2>3. CountInv'
      BY CountKeeps DEF IInv
    <2>4. AnswerInv'
      BY AnswerKeeps DEF IInv
    <2> QED
      BY <2>1, <2>2, <2>3, <2>4 DEF IInv
  <1> QED
    BY <1>1, <1>2, PTL DEF Spec

\* Once main has come to start the lcores, the ports are numbered without a
\* gap, each is a slave, and all are started (main-bond-kni.c:559-562).
THEOREM EveryPortBonded == Spec => []SlavesAreThePorts
  <1>1. IInv => SlavesAreThePorts
    BY NoGap DEF IInv, SlavesAreThePorts
  <1> QED
    BY <1>1, Invariance, PTL

\* Every lcore polls a queue of its own that is set up, but for those below
\* the master (lcore_arg_init).
THEOREM QueuesOwned == Spec => []OwnQueue
  <1>1. IInv => OwnQueue
    <2> SUFFICES ASSUME IInv, NEW c \in Lcores, pc[c] = "poll"
                 PROVE  /\ RingId(Master, c) \in queues[BOND_PORT]
                        /\ \A d \in Lcores \ {c} :
                              pc[d] = "poll" /\ RingId(Master, d) = RingId(Master, c)
                                  => c <= Master /\ d <= Master
      BY DEF OwnQueue
    <2>1. queues[BOND_PORT] = Queues
      BY DEF IInv, SetupInv, Progress, LcoreInv, Launched
    <2>2. RingId(Master, c) \in Queues
      BY RingIdIsQueue DEF IInv
    <2>3. ASSUME NEW d \in Lcores, d # c, RingId(Master, d) = RingId(Master, c)
          PROVE  c <= Master /\ d <= Master
      BY <2>3, RingIdsDiffer
    <2> QED
      BY <2>1, <2>2, <2>3
  <1> QED
    BY <1>1, Invariance, PTL

\* A counter only loses, whatever the lock lets happen (main-bond-kni.c:419).
THEOREM NeverAhead == Spec => []CountersNeverAhead
  <1>1. IInv => CountersNeverAhead
    <2> SUFFICES ASSUME IInv, NEW k \in Counters
                 PROVE  port_packets[k] <= Processed(Meant(k)) + Cardinality(Busy)
      BY DEF CountersNeverAhead
    <2>1. Processed(Meant(k)) = SumOver(processed, Meant(k))
      BY DEF Processed, SumOver
    <2>2. Past[k] \subseteq Busy /\ IsFiniteSet(Busy)
      BY LcoresFinite, FS_Subset DEF Past, IsPast, Busy, InPacket, Counting
    <2>3. /\ Cardinality(Past[k]) <= Cardinality(Busy)
          /\ Cardinality(Busy) \in Nat /\ Cardinality(Past[k]) \in Nat
          /\ SumOver(processed, Meant(k)) \in Nat
      BY <2>2, FS_Subset, FS_CardinalityType, DueType DEF IInv
    <2>4. port_packets[k] <= SumOver(processed, Meant(k)) + Cardinality(Past[k])
      BY DueIs DEF IInv, CountInv
    <2>5. port_packets[k] \in Nat
      BY DEF IInv, LcoreInv, LcoreTypes
    <2> QED
      BY <2>1, <2>3, <2>4, <2>5
  <1> QED
    BY <1>1, Invariance, PTL

\* Without contention the counters are exact between packets.
THEOREM ExactAlone == Spec => []ExactUnlessContended
  <1>1. IInv => ExactUnlessContended
    <2> SUFFICES ASSUME IInv, ~contended, Busy = {}, NEW k \in Counters
                 PROVE  port_packets[k] = Processed(Meant(k))
      BY DEF ExactUnlessContended
    <2>1. Processed(Meant(k)) = SumOver(processed, Meant(k))
      BY DEF Processed, SumOver
    <2>2. Past[k] = {}
      BY DEF Past, IsPast, Busy, InPacket, Counting
    <2>3. Cardinality(Past[k]) = 0
      BY <2>2, FS_EmptySet
    <2>4. port_packets[k] = SumOver(processed, Meant(k)) + Cardinality(Past[k])
      BY DueIs DEF IInv, CountInv
    <2>5. SumOver(processed, Meant(k)) \in Nat
      BY DueType DEF IInv
    <2> QED
      BY <2>1, <2>3, <2>4, <2>5
  <1> QED
    BY <1>1, Invariance, PTL

\* An answer goes back to the one who asked, and is not answered again
\* (main-bond-kni.c:480).
THEOREM AnswersReturn == Spec => []AnswerReturns
  <1>1. IInv => AnswerReturns
    <2> SUFFICES ASSUME IInv
                 PROVE  AnswerReturns
      OBVIOUS
    <2>1. ASSUME NEW c \in Lcores, NEW n \in DOMAIN fate[c], fate[c][n].sent # None
          PROVE  LET p == pkts[c][n]
                     a == fate[c][n].sent
                 IN  /\ a.d_addr = p.s_addr /\ a.tip = p.sip
                     /\ a.s_addr = BondMac /\ a.sip = BondIp
                     /\ a.type = "arp" => a.op = "reply" /\ a.tha = p.sha /\ a.sha = BondMac
      <3>1. n \in DOMAIN pkts[c]
        BY DEF IInv, AnswerInv
      <3>2. pkts[c][n] \in Packets
        BY <3>1, ElementOfSeq DEF IInv, LcoreInv, LcoreTypes
      <3>3. IsAnswer(pkts[c][n]) /\ fate[c][n].sent = Answer(pkts[c][n])
        BY <2>1, <3>1 DEF IInv, AnswerInv
      <3> QED
        BY <3>2, <3>3, AnswerIs
    <2>2. ASSUME asked # None, NEW mac
          PROVE  LET a == ArpReply(asked, mac, asked.tip)
                 IN  /\ ArpAsks(asked, asked.tip)
                     /\ a.d_addr = BondMac /\ a.tip = BondIp /\ a.sip = asked.tip /\ a.sha = mac
                     /\ ~IsAnswer(a)
      <3>1. PICK ip \in Peers : asked = ArpRequest(ip)
        BY <2>2 DEF IInv, AnswerInv
      <3> QED
        BY <3>1 DEF ArpRequest, ArpReply, TurnedRound, ArpAsks, IsAnswer, Reply, Ipv4For, EtherType
    <2> QED
      BY <2>1, <2>2 DEF AnswerReturns
  <1> QED
    BY <1>1, Invariance, PTL
=============================================================================
