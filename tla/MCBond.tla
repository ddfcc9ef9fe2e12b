---------------------------------- MODULE MCBond ----------------------------------
(***************************************************************************)
(* Frames for the model checking of Bond, and sets of ports: none, one,    *)
(* two, too many, and with gaps in their ids.                              *)
(***************************************************************************)
EXTENDS Bond

From(tags, type, op, tip) ==
    [tags |-> tags, type |-> type, op |-> op, tip |-> tip, tha |-> "zero",
     d_addr |-> "ones", s_addr |-> "mac", sip |-> "ip", sha |-> "arp-mac"]

\* An ARP request for this host, IPv4 for it behind two VLAN tags, and a
\* request behind a third one.
MCArriving ==
    {From(0, "arp", "request", "bond-ip"), From(2, "ipv4", "", "bond-ip"),
     From(3, "arp", "request", "bond-ip")}

\* The same, and a reply, which is not answered.
MCPackets == MCArriving \cup {From(0, "arp", "reply", "bond-ip")}

MCPortSets == {{}, {0, 1}, {1}, {0, 2}, {1, 2}, {0, 1, 2}}
=============================================================================
