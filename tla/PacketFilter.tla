---------------------------- MODULE PacketFilter ----------------------------
(***************************************************************************)
(* bpf/bpf_demo.cpp: a packet socket receives IP datagrams, first all of   *)
(* them and, once init_filter has attached code_tcp, those the program     *)
(* lets pass.  main prints the port of each one it receives from a buffer  *)
(* that keeps the bytes of earlier ones behind the end of a shorter one.   *)
(*                                                                         *)
(* The program is run as the kernel runs it: a load that does not lie      *)
(* within the datagram ends the run and refuses it.                        *)
(***************************************************************************)
EXTENDS Integers, Sequences

CONSTANTS Datagrams,    \* the datagrams that may arrive
          MaxDatagrams  \* bound: datagrams that arrive in all

VARIABLES
    demo,         \* "open", "receiving" once the filter is attached, "ended"
    socket,       \* what is queued: datagrams, and whether they were filtered
    arrived,      \* how many datagrams have arrived
    packet_buf,
    printed,      \* history: the datagram received last, and its line of output
    kept_out      \* history: the datagram the filter refused last

filterVars == <<demo, socket, arrived, packet_buf, printed, kept_out>>

-----------------------------------------------------------------------------
(* A datagram is its length and what is found at the offsets that the      *)
(* program or main reads: a byte at 0 and at 9, else two bytes.            *)

PortOffset(ihl) == 4 * ihl + 2
Offsets == {0, 6, 9} \cup {PortOffset(ihl) : ihl \in 0 .. 15}
EndOf(k) == IF k \in {0, 9} THEN k + 1 ELSE k + 2

ASSUME DatagramsAssumption ==
    \A p \in Datagrams : p.len \in Nat /\ p.at \in [Offsets -> Nat]

Ihl(at)  == at[0] % 16
Dest(at) == at[PortOffset(Ihl(at))]

TCP == 6
UDP == 17

-----------------------------------------------------------------------------
(* The filter                                                              *)

Load(code, k)         == [code |-> code, k |-> k]
Jump(code, jt, jf, k) == [code |-> code, jt |-> jt, jf |-> jf, k |-> k]
Ret(k)                == [code |-> "ret", k |-> k]

\* Mutant of code_tcp: later fragments are looked into.
code_tcp_Fragments ==
    << Load("ldb", 9), Jump("jeq", 0, 7, 6), Load("ldh", 6), Jump("jset", 0, 0, 8191),
       Load("ldxb", 0), Load("ldh_x", 2), Jump("jge", 0, 2, 100),
       Jump("jgt", 1, 0, 200), Ret(262144), Ret(0) >>

code_tcp ==
    << Load("ldb", 9), Jump("jeq", 0, 7, 6), Load("ldh", 6), Jump("jset", 5, 0, 8191),
       Load("ldxb", 0), Load("ldh_x", 2), Jump("jge", 0, 2, 100),
       Jump("jgt", 1, 0, 200), Ret(262144), Ret(0) >>

Holds(op, a) ==
    CASE op.code = "jeq"  -> a = op.k
      [] op.code = "jge"  -> a >= op.k
      [] op.code = "jgt"  -> a > op.k
      [] op.code = "jset" -> a % (op.k + 1) # 0   \* k is ones

\* The next instruction, the accumulator and the index register, or what the
\* program has returned.
Running(pc, a, x) == [pc |-> pc, a |-> a, x |-> x, ret |-> -1]
Ended(k)          == [pc |-> 0, a |-> 0, x |-> 0, ret |-> k]

Execute(op, p, m) ==
    LET from == IF op.code = "ldh_x" THEN m.x + op.k ELSE op.k
    IN  CASE op.code = "ret" -> Ended(op.k)
          [] op.code \in {"ldb", "ldh", "ldh_x"} ->
                IF EndOf(from) > p.len THEN Ended(0)
                ELSE Running(m.pc + 1, p.at[from], m.x)
          [] op.code = "ldxb" ->
                IF EndOf(from) > p.len THEN Ended(0)
                ELSE Running(m.pc + 1, m.a, 4 * Ihl(p.at))
          [] OTHER ->
                Running(m.pc + 1 + (IF Holds(op, m.a) THEN op.jt ELSE op.jf), m.a, m.x)

\* What the program returns: jumps lead forward only, so it has by then.
Run(p) ==
    LET run[n \in 0 .. Len(code_tcp)] ==
            IF n = 0 THEN Running(1, 0, 0)
            ELSE LET m == run[n - 1]
                 IN  IF m.ret # -1 THEN m ELSE Execute(code_tcp[m.pc], p, m)
    IN  run[Len(code_tcp)].ret

Passes(p) == Run(p) > 0

-----------------------------------------------------------------------------
\* The filter is asked when a datagram arrives, not when it is received.
Arrive(p) ==
    /\ demo # "ended" /\ arrived < MaxDatagrams
    /\ arrived' = arrived + 1
    /\ IF demo = "open" \/ Passes(p)
       THEN socket' = Append(socket, [datagram |-> p, filtered |-> demo # "open"])
            /\ UNCHANGED kept_out
       ELSE kept_out' = <<p>> /\ UNCHANGED socket
    /\ UNCHANGED <<demo, packet_buf, printed>>

\* There is no filter to detach, which is ignored; a failure to attach is not.
InitFilter ==
    /\ demo = "open" /\ demo' \in {"receiving", "ended"}
    /\ UNCHANGED <<socket, arrived, packet_buf, printed, kept_out>>

Receive ==
    /\ demo = "receiving" /\ socket # << >>
    /\ LET p   == Head(socket).datagram
           buf == [k \in Offsets |-> IF EndOf(k) <= p.len THEN p.at[k] ELSE packet_buf[k]]
       IN  /\ packet_buf' = buf
           /\ printed' = << [from |-> Head(socket), protocol |-> buf[9],
                             port |-> IF buf[9] \in {TCP, UDP} THEN Dest(buf) ELSE -1] >>
    /\ socket' = Tail(socket)
    /\ UNCHANGED <<demo, arrived, kept_out>>

\* recvfrom is interrupted, or fails.
ReceiveFails ==
    /\ demo = "receiving" /\ demo' = "ended"
    /\ UNCHANGED <<socket, arrived, packet_buf, printed, kept_out>>

FilterInit ==
    /\ demo = "open" /\ socket = << >> /\ arrived = 0
    /\ packet_buf = [k \in Offsets |-> 0]
    /\ printed = << >> /\ kept_out = << >>

FilterNext ==
    \/ \E p \in Datagrams : Arrive(p)
    \/ InitFilter \/ Receive \/ ReceiveFails

-----------------------------------------------------------------------------
(* Properties                                                              *)

\* TCP, not a later fragment, with a destination port of 100 to 200 of its own.
Wanted(p) ==
    /\ EndOf(9) <= p.len /\ p.at[9] = TCP
    /\ p.at[6] % 8192 = 0
    /\ EndOf(PortOffset(Ihl(p.at))) <= p.len /\ Dest(p.at) \in 100 .. 200

\* The jumps of code_tcp lead where they should: what arrives once the program
\* is attached is printed as TCP with its own port, whatever the buffer still
\* holds, exactly if it is wanted.  Of what was queued before, only a datagram
\* that has no protocol or no port is printed with those of another
\* (bpf_demo.cpp:46-58, 121-144).
FilteredExactly ==
    /\ kept_out # << >> => ~Wanted(kept_out[1])
    /\ printed # << >> =>
          LET p   == printed[1].from.datagram
              own == EndOf(9) <= p.len /\ EndOf(PortOffset(Ihl(p.at))) <= p.len
          IN  /\ printed[1].from.filtered => Wanted(p)
              /\ own /\ p.at[9] \in {TCP, UDP} =>
                    printed[1].protocol = p.at[9] /\ printed[1].port = Dest(p.at)
=============================================================================
