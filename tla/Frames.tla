------------------------------- MODULE Frames -------------------------------
(***************************************************************************)
(* The frames of dpdk-examples/bond-kni: how lcore_main tells them apart   *)
(* and turns them round, and the request that the command send builds.     *)
(*                                                                         *)
(* A frame is a record of its number of VLAN tags, the type behind them,   *)
(* and the addresses: d_addr and s_addr of Ethernet, op, sha, sip, tha and *)
(* tip of ARP.  For IPv4, sip and tip stand for src_addr and dst_addr.     *)
(***************************************************************************)
EXTENDS Naturals

CONSTANTS
    BondIp, BondMac,   \* the addresses of the bonding port
    Peers,             \* addresses that are asked for with send
    Broadcast, Zero    \* the Ethernet addresses of ones and of zeros

\* Mutant of EtherType: the second tag is not looked through.
EtherTypeOneTag(p) == IF p.tags <= 1 THEN p.type ELSE "other"

\* get_vlan_offset looks through at most two tags.
EtherType(p) == IF p.tags <= 2 THEN p.type ELSE "other"

\* What a host with this address answers.
ArpAsks(p, ip) == EtherType(p) = "arp" /\ p.tip = ip /\ p.op = "request"
Ipv4For(p, ip) == EtherType(p) = "ipv4" /\ p.tip = ip

Reply(p)    == ArpAsks(p, BondIp)
IsAnswer(p) == Reply(p) \/ Ipv4For(p, BondIp)

\* Mutant of TurnedRound: sip is overwritten before it is copied to tip.
TurnedRoundLate(p, mac, ip) ==
    LET asker == [p EXCEPT !.d_addr = p.s_addr]
        own   == [asker EXCEPT !.s_addr = mac, !.sip = ip]
    IN  [own EXCEPT !.tip = own.sip]

\* Source and destination are switched, and the own addresses set, in place:
\* each assignment reads the frame that the one before it has left.
TurnedRound(p, mac, ip) ==
    LET asker  == [p EXCEPT !.d_addr = p.s_addr]
        from   == [asker EXCEPT !.s_addr = mac]
        target == [from EXCEPT !.tip = from.sip]
    IN  [target EXCEPT !.sip = ip]

\* tha and sha are written between these, which touch neither.
ArpReply(p, mac, ip) ==
    LET reply  == TurnedRound([p EXCEPT !.op = "reply"], mac, ip)
        target == [reply EXCEPT !.tha = reply.sha]
    IN  [target EXCEPT !.sha = mac]

Answer(p) == IF EtherType(p) = "arp" THEN ArpReply(p, BondMac, BondIp)
                                     ELSE TurnedRound(p, BondMac, BondIp)

\* The frame cmd_obj_send_parsed builds in a fresh mbuf.
ArpRequest(ip) ==
    [tags |-> 0, type |-> "arp", op |-> "request",
     d_addr |-> Broadcast, s_addr |-> BondMac,
     sha |-> BondMac, sip |-> BondIp, tha |-> Zero, tip |-> ip]
=============================================================================
