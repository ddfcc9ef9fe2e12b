---------------------------- MODULE MCUtilities ----------------------------
(***************************************************************************)
(* Model checking of Utilities.                                            *)
(***************************************************************************)
EXTENDS Utilities, TLC

\* No action tells two processes, two names or two threads apart.
Symmetry == Permutations(Process) \cup Permutations(Name) \cup Permutations(Logger)

Datagram(ihl, protocol, frag, port, len) ==
    [len |-> len, at |-> [k \in Offsets |->
        CASE k = 0 -> 64 + ihl [] k = 9 -> protocol [] k = 6 -> frag
          [] k = PortOffset(ihl) -> port [] OTHER -> 0]]

\* TCP with ports next to and at both ends of the range; UDP; with options, up
\* to the end of the port and short of it; a first and a later fragment; a
\* header too short to be one; datagrams that end before the port and before
\* the protocol.
MCDatagrams ==
    {Datagram(5, TCP, 0, port, 40) : port \in {99, 100, 200, 201}} \cup
    {Datagram(5, UDP, 0, 100, 28), Datagram(15, TCP, 16384, 150, 64),
     Datagram(15, TCP, 0, 150, 62), Datagram(5, TCP, 8192, 150, 24),
     Datagram(5, TCP, 185, 150, 40), Datagram(1, TCP, 0, 150, 40),
     Datagram(5, TCP, 0, 150, 22), Datagram(5, TCP, 0, 150, 8)}
=============================================================================
