-------------------------------- MODULE XLog --------------------------------
(***************************************************************************)
(* x_ring/x_log.c: threads hand their messages to one log thread through   *)
(* an x_ring.  The ring is its contract, BoundedQueue, which XRing is      *)
(* checked to implement; an enqueue that is refused and a dequeue that     *)
(* finds nothing sleep and try again, which changes no state.              *)
(*                                                                         *)
(* x_log_create calls x_ring_create with one argument, where x_ring.h      *)
(* declares two, so the file does not compile as it is; the ring of the    *)
(* model has the size that was asked for.  Nobody else has the log before  *)
(* x_log_create returns, which is one action.                              *)
(***************************************************************************)
EXTENDS Integers, Sequences, FiniteSets

CONSTANTS
    Writers,    \* threads that call x_log_write
    MaxCalls,   \* bound: calls of each
    RingRoom,   \* the entries of the ring that can be used
    Levels,     \* values passed as level, and to x_log_create as cfg_level
    IntMax,     \* INT_MAX; an unsigned int goes to 2 * INT_MAX + 1
    Garbage,    \* what malloc may leave in log_count
    None

ASSUME XLogAssumption ==
    /\ MaxCalls \in Nat /\ RingRoom \in Nat \ {0} /\ IntMax \in Nat
    /\ Garbage \subseteq Nat
    /\ Levels \subseteq -IntMax - 1 .. IntMax
    /\ None \notin [src : Writers, num : 1 .. MaxCalls, level : Levels]

\* LOG_LEVEL_FATAL to LOG_LEVEL_TEST: the indexes of log_level_str.
LevelNames == 0 .. 5

Message == [src : Writers, num : 1 .. MaxCalls, level : Levels]

VARIABLES
    logger,        \* "creating"; what x_log_create has returned, "created" or
                   \* "NULL"; "gone" once x_log_destroy has taken it down
    thread,        \* the log thread runs
    level,         \* xlog->level
    thread_status, \* xlog->thread_status
    log_ring,      \* the messages in the ring
    log_count,     \* xlog->log_count
    file,          \* the messages written to the file
    calls,         \* calls of x_log_write each writer has begun
    pending,       \* the message each writer is handing over, or None
    entry,         \* the message the log thread has dequeued, or None
    counted,       \* whether log_count counts the message last written
    taken,         \* history: what has been dequeued
    passed         \* history: what should reach the file, by writer

writerVars == <<calls, pending, passed>>
threadVars == <<log_count, file, entry, counted>>
serverVars == <<logger, thread, level, thread_status>>
vars == <<serverVars, log_ring, taken, writerVars, threadVars>>

Ring == INSTANCE BoundedQueue WITH
    Item <- Message, Capacity <- RingRoom, queue <- log_ring, delivered <- taken

-----------------------------------------------------------------------------
(* x_log_write                                                             *)

\* Conversion of an int to unsigned int.
Unsigned(i) == i % (2 * IntMax + 2)

\* Mutant of Filtered: the comparison is a signed one.
FilteredSigned(l) == l > level

\* (unsigned int)level > xlog->level: both sides become unsigned.
Filtered(l) == Unsigned(l) > Unsigned(level)

\* If cfg_level is one of the six levels, those up to it; otherwise the code
\* has no meaning for cfg_level but what it does.
Passes(l) == IF level \in LevelNames THEN l \in 0 .. level ELSE ~Filtered(l)

\* A call that returns -1, or goes on to the ring with the message.
Write(w, l) ==
    /\ logger = "created"
    /\ pending[w] = None /\ calls[w] < MaxCalls
    /\ calls' = [calls EXCEPT ![w] = @ + 1]
    /\ LET m == [src |-> w, num |-> calls'[w], level |-> l]
       IN  /\ pending' = [pending EXCEPT ![w] = IF Filtered(l) THEN None ELSE m]
           /\ passed'  = [passed EXCEPT ![w] = @ \o IF Passes(l) THEN <<m>> ELSE << >>]
    /\ UNCHANGED <<serverVars, log_ring, taken, threadVars>>

\* Mutant of HandOver: the message is dropped when the ring is full.
HandOverOrDrop(m) == IF Len(log_ring) < RingRoom THEN Ring!Put(m)
                     ELSE UNCHANGED <<log_ring, taken>>

\* x_ring_mp_enqueue, tried until it succeeds.
HandOver(m) == Ring!Put(m)

Enqueue(w) ==
    /\ pending[w] # None
    /\ HandOver(pending[w])
    /\ pending' = [pending EXCEPT ![w] = None]
    /\ UNCHANGED <<serverVars, calls, passed, threadVars>>

-----------------------------------------------------------------------------
(* x_log_thread                                                            *)

Dequeue ==
    /\ entry = None /\ counted
    /\ Ring!Get
    /\ entry' = Head(log_ring)
    /\ UNCHANGED <<serverVars, writerVars, log_count, file, counted>>

\* fwrite of the whole content.
Fwrite ==
    /\ entry # None
    /\ file' = Append(file, entry)
    /\ entry' = None /\ counted' = FALSE
    /\ UNCHANGED <<serverVars, log_ring, taken, writerVars, log_count>>

Counted == log_count + 1

Count ==
    /\ ~counted
    /\ log_count' = Counted /\ counted' = TRUE
    /\ UNCHANGED <<serverVars, log_ring, taken, writerVars, file, entry>>

-----------------------------------------------------------------------------
\* The name ends in '/', the file cannot be opened, or there is no ring.
CreateFails ==
    /\ logger = "creating" /\ logger' = "NULL"
    /\ UNCHANGED <<thread, level, thread_status, log_ring, taken, writerVars, threadVars>>

\* log_count is not initialized.  A failure of pthread_create, which returns a
\* positive number, is not noticed.
Create(cfg_level) ==
    /\ logger = "creating" /\ logger' = "created"
    /\ thread' \in BOOLEAN
    /\ level' = cfg_level
    /\ thread_status' = "running"
    /\ log_count' \in Garbage
    /\ UNCHANGED <<log_ring, taken, writerVars, file, entry, counted>>

\* x_log_destroy sets the status, which the log thread never reads, and then
\* waits in pthread_join for a thread whose loop has no exit.  Without that
\* thread pthread_join fails, and the log is freed, or the process crashes.
Destroy ==
    /\ logger = "created" /\ thread_status = "running"
    /\ \A w \in Writers : calls[w] = MaxCalls /\ pending[w] = None
    /\ thread_status' = "stopping"
    /\ logger' = IF thread THEN logger ELSE "gone"
    /\ UNCHANGED <<thread, level, log_ring, taken, writerVars, threadVars>>

Init ==
    /\ logger = "creating" /\ thread = FALSE
    /\ level = 0 /\ thread_status = "init"
    /\ Ring!Init
    /\ log_count = 0
    /\ file = << >> /\ entry = None /\ counted = TRUE
    /\ calls = [w \in Writers |-> 0]
    /\ pending = [w \in Writers |-> None]
    /\ passed = [w \in Writers |-> << >>]

LogThread == thread /\ (Dequeue \/ Fwrite \/ Count)

Next ==
    \/ CreateFails \/ \E cfg_level \in Levels : Create(cfg_level)
    \/ \E w \in Writers : Enqueue(w) \/ \E l \in Levels : Write(w, l)
    \/ LogThread
    \/ Destroy

\* The log thread and the writers that try again are scheduled.
Fairness == WF_vars(LogThread) /\ \A w \in Writers : WF_vars(Enqueue(w))

Spec == Init /\ [][Next]_vars /\ Fairness

-----------------------------------------------------------------------------
(* Properties                                                              *)

\* The messages of w in s, in their order.
From(w, s) ==
    LET kept[k \in 0 .. Len(s)] ==
            IF k = 0 THEN << >>
            ELSE IF s[k].src = w THEN Append(kept[k - 1], s[k]) ELSE kept[k - 1]
    IN  kept[Len(s)]

OneOf(m) == IF m = None THEN << >> ELSE <<m>>

\* If cfg_level is one of the six levels, exactly the messages of a level up
\* to it get through, so that log_level_str has a name for each, though the
\* comparison is an unsigned one and a level may be negative.  On the way to
\* the file none is dropped, doubled or overtaken by a later one of the same
\* writer, whether the ring was full or not, and also after x_log_destroy was
\* called (x_log.c:155, 166, 171-175).
InOrder ==
    \A w \in Writers :
        From(w, file \o OneOf(entry) \o log_ring) \o OneOf(pending[w]) = passed[w]

\* Every message that passes the filter reaches the file, if the log thread
\* could be started.
EverythingLogged ==
    \A w \in Writers, n \in 1 .. MaxCalls, l \in Levels :
        LET m == [src |-> w, num |-> n, level |-> l]
        IN  thread /\ pending[w] = m ~> \E i \in DOMAIN file : file[i] = m
=============================================================================
