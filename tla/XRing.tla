------------------------------- MODULE XRing -------------------------------
(***************************************************************************)
(* The lock-free ring of x_ring/x_ring.c: one fixed table of entries, a    *)
(* producer head/tail pair and a consumer head/tail pair, shared by        *)
(* threads that run x_ring_*_enqueue and x_ring_*_dequeue.                 *)
(*                                                                         *)
(* One action per access to shared memory: load of a head, load of the     *)
(* opposite tail, store or compare-and-set of a head, copy into or out of  *)
(* the reserved entry, wait for the own tail, store of the own tail.       *)
(* Accesses of one thread happen in program order (x86, and a compiler     *)
(* that keeps the copies between the volatile accesses around them).       *)
(*                                                                         *)
(* The indexes are kept wrapped in 0..Size-1, as the code keeps them.  The *)
(* history variables (enq, deq, nPub, nTake, nRel, abs, stale) count       *)
(* without wrapping and are never read by a guard of the algorithm, except *)
(* for the bound MaxTake.                                                  *)
(***************************************************************************)
EXTENDS Integers, Sequences

CONSTANTS
    Producers,   \* threads that enqueue
    Consumers,   \* threads that dequeue
    Size,        \* ringbuf->size, after the rounding of x_ring_create
    BufSize,     \* ringbuf_size, bytes first allocated for every entry
    OutSize,     \* bytes of the entry a consumer passes as out
    MsgSizes,    \* the sizes an enqueued object may have
    EnqueueFn,   \* "sp" (x_ring_sp_enqueue[2]), "sp3" (x_ring_sp_enqueue3), "mp"
    DequeueFn,   \* "sc" or "mc"
    MaxMsgs,     \* bound: objects each producer sends
    MaxTake,     \* bound: entries the consumers reserve
    Queriers,    \* the threads among them that also call the queries
    None         \* content of a buffer nothing was copied into

\* "NOT multi-producers safe" / "NOT multi-consumers safe" (x_ring.h): the
\* sp functions are called by one thread only, and so is the sc function.
ASSUME RingAssumption ==
    /\ Size \in Nat \ {0, 1}
    /\ BufSize \in Nat /\ OutSize \in Nat
    /\ MsgSizes \subseteq Nat
    /\ EnqueueFn \in {"sp", "sp3", "mp"}
    /\ DequeueFn \in {"sc", "mc"}
    /\ MaxMsgs \in Nat /\ MaxTake \in Nat
    /\ Producers \cap Consumers = {}
    /\ Queriers \subseteq Producers \cup Consumers
    /\ EnqueueFn # "mp" => \E p \in Producers : Producers = {p}
    /\ DequeueFn = "sc" => \E c \in Consumers : Consumers = {c}

VARIABLES
    prod,    \* ringbuf->prod: [head, tail]
    cons,    \* ringbuf->cons: [head, tail]
    ring,    \* ringbuf->ring[]
    pc,      \* where each thread is in its call
    loc,     \* the local prod_head or cons_head of each thread
    msg,     \* the object each producer is sending
    acked,   \* objects for which a producer was told X_RING_RET_SUCCESS
    out,     \* the entry each consumer passes; cap is what data points to
    enq,     \* history: the objects, in the order their entries were reserved
    deq,     \* history: what was copied out, and for which reservation
    nPub,    \* history: stores to prod.tail
    nTake,   \* history: reservations made by consumers
    nRel,    \* history: stores to cons.tail
    abs,     \* history: the unwrapped value behind loc
    stale,   \* history: a head was moved from an outdated index
    query    \* where each thread is in a query, what it loaded, its answers

ringVars == <<prod, cons, ring>>
prodVars == <<msg, acked>>
histVars == <<enq, deq, nPub, nTake, nRel, abs, stale>>
callVars == <<prod, cons, ring, pc, loc, msg, acked, out,
              enq, deq, nPub, nTake, nRel, abs, stale>>
vars == <<callVars, query>>

Threads == Producers \cup Consumers
Index   == 0 .. (Size - 1)
Message == [src : Producers, seq : 0 .. (MaxMsgs - 1), size : MsgSizes]

Entry == [size : Nat, content_length : Nat, data : Message \cup {None}]
OutEntry == [size : Nat, cap : Nat, content_length : Nat,
             data : Message \cup {None}]

\* Mutant of NextIndex: the mask is forgotten.
NextIndexUnmasked(i) == i + 1

\* (i + 1) & ringbuf->mask, for a Size that is a power of two.
NextIndex(i) == (i + 1) % Size

\* Mutant of NoRoom: the check for a full ring is dropped.
NoRoomNever(p) == FALSE

\* prod_next == cons_tail
NoRoom(p) == NextIndex(loc[p]) = cons.tail

\* Mutant of NoEntry: reserved entries count as published.
NoEntryReserved(c) == loc[c] = prod.head

\* cons_head == prod_tail
NoEntry(c) == loc[c] = prod.tail

\* Mutant of OwnTurn: nobody waits for the threads that reserved earlier.
OwnTurnAlways(t, tail) == TRUE

\* Mutant of OwnTurn: waits for a tail that is already past the entry.
OwnTurnNext(t, tail) == tail = NextIndex(loc[t])

\* prod.tail == prod_head, cons.tail == cons_head
OwnTurn(t, tail) == tail = loc[t]

Goto(t, l) == pc' = [pc EXCEPT ![t] = l]

\* Between the two loads of a query.
Asking(t) == query[t].at = "asking"

\* An answer is kept until the thread that got it begins the next call.
NoQuery   == [at |-> "none"]
Forget(t) == query' = [query EXCEPT ![t] = NoQuery]

-----------------------------------------------------------------------------
(* Producers: x_ring_sp_enqueue, x_ring_sp_enqueue3, x_ring_mp_enqueue     *)

\* The caller hands over its next object.  An object that was refused is
\* offered again (x_log_write, thread_enqueue_try_best).
EnqueueCall(p) ==
    /\ pc[p] = "idle" /\ ~Asking(p)
    /\ acked[p] < MaxMsgs
    /\ \E n \in MsgSizes :
          msg' = [msg EXCEPT ![p] = [src |-> p, seq |-> acked[p], size |-> n]]
    /\ Forget(p)
    /\ Goto(p, "load_head")
    /\ UNCHANGED <<ringVars, loc, acked, out, histVars>>

\* prod_head = ringbuf->prod.head;
LoadProdHead(p) ==
    /\ pc[p] = "load_head"
    /\ loc' = [loc EXCEPT ![p] = prod.head]
    /\ abs' = [abs EXCEPT ![p] = Len(enq)]
    /\ Goto(p, "check")
    /\ UNCHANGED <<ringVars, prodVars, out, enq, deq, nPub, nTake, nRel,
                  stale, query>>

\* Mutant of ReportsSuccess: the result of the check is always dropped.
ReportsSuccessAlways == TRUE

\* Whether a call that found no room still returns 0.
ReportsSuccess == EnqueueFn = "sp3"

\* No room: return -X_RING_RET_NOSPACE, nothing was changed.
\* x_ring_sp_enqueue3 drops that result and returns 0.
EnqueueFull(p) ==
    /\ pc[p] = "check"
    /\ NoRoom(p)
    /\ Goto(p, "idle")
    /\ acked' = IF ReportsSuccess THEN [acked EXCEPT ![p] = @ + 1] ELSE acked
    /\ UNCHANGED <<ringVars, loc, msg, out, histVars, query>>

EnqueueRoom(p) ==
    /\ pc[p] = "check"
    /\ ~NoRoom(p)
    /\ Goto(p, "set_head")
    /\ UNCHANGED <<ringVars, loc, prodVars, out, histVars, query>>

\* The entry loc[p] now belongs to p.
ReserveEntry(p) ==
    /\ prod' = [prod EXCEPT !.head = NextIndex(loc[p])]
    /\ enq' = Append(enq, msg[p])
    /\ stale' = (stale \/ abs[p] # Len(enq))
    /\ Goto(p, "copy")
    /\ UNCHANGED <<cons, ring, loc, prodVars, out, deq, nPub, nTake, nRel,
                  abs, query>>

\* ringbuf->prod.head = prod_next;
SpStoreHead(p) ==
    /\ pc[p] = "set_head"
    /\ EnqueueFn # "mp"
    /\ ReserveEntry(p)

\* res = atomic32_cmpset(&(ringbuf->prod.head), prod_head, prod_next);
MpCmpSet(p) ==
    /\ pc[p] = "set_head"
    /\ EnqueueFn = "mp"
    /\ prod.head = loc[p]
    /\ ReserveEntry(p)

\* while (res != 1): start over.
MpCmpSetFails(p) ==
    /\ pc[p] = "set_head"
    /\ EnqueueFn = "mp"
    /\ prod.head # loc[p]
    /\ Goto(p, "load_head")
    /\ UNCHANGED <<ringVars, loc, prodVars, out, histVars, query>>

\* What an entry holds after an object was copied into it; a larger object
\* makes the entry's buffer grow first.
Filled(e, m) ==
    [size           |-> IF e.size < m.size THEN m.size ELSE e.size,
     content_length |-> m.size,
     data           |-> m]

CopyIn(p) ==
    /\ pc[p] = "copy"
    /\ ring' = [ring EXCEPT ![loc[p]] = Filled(@, msg[p])]
    /\ Goto(p, IF EnqueueFn = "mp" THEN "wait_tail" ELSE "set_tail")
    /\ UNCHANGED <<prod, cons, loc, prodVars, out, histVars, query>>

\* while (ringbuf->prod.tail != prod_head): spin.
MpWaitTail(p) ==
    /\ pc[p] = "wait_tail"
    /\ OwnTurn(p, prod.tail)
    /\ Goto(p, "set_tail")
    /\ UNCHANGED <<ringVars, loc, prodVars, out, histVars, query>>

\* ringbuf->prod.tail = prod_next; return X_RING_RET_SUCCESS;
StoreProdTail(p) ==
    /\ pc[p] = "set_tail"
    /\ prod' = [prod EXCEPT !.tail = NextIndex(loc[p])]
    /\ nPub' = nPub + 1
    /\ acked' = [acked EXCEPT ![p] = @ + 1]
    /\ Goto(p, "idle")
    /\ UNCHANGED <<cons, ring, loc, msg, out, enq, deq, nTake, nRel, abs,
                  stale, query>>

-----------------------------------------------------------------------------
(* Consumers: x_ring_sc_dequeue, x_ring_mc_dequeue                         *)

\* cons_head = r->cons.head;
LoadConsHead(c) ==
    /\ pc[c] = "idle" /\ ~Asking(c)
    /\ nTake < MaxTake
    /\ loc' = [loc EXCEPT ![c] = cons.head]
    /\ abs' = [abs EXCEPT ![c] = nTake]
    /\ Forget(c)
    /\ Goto(c, "check")
    /\ UNCHANGED <<ringVars, prodVars, out, enq, deq, nPub, nTake, nRel, stale>>

\* cons_head == prod_tail: return -X_RING_RET_NOENT.
DequeueEmpty(c) ==
    /\ pc[c] = "check"
    /\ NoEntry(c)
    /\ Goto(c, "idle")
    /\ UNCHANGED <<ringVars, loc, prodVars, out, histVars, query>>

DequeueSome(c) ==
    /\ pc[c] = "check"
    /\ ~NoEntry(c)
    /\ Goto(c, "set_head")
    /\ UNCHANGED <<ringVars, loc, prodVars, out, histVars, query>>

TakeEntry(c) ==
    /\ cons' = [cons EXCEPT !.head = NextIndex(loc[c])]
    /\ nTake' = nTake + 1
    /\ stale' = (stale \/ abs[c] # nTake)
    /\ Goto(c, "copy")
    /\ UNCHANGED <<prod, ring, loc, prodVars, out, enq, deq, nPub, nRel, abs,
                  query>>

\* r->cons.head = cons_next;
ScStoreHead(c) ==
    /\ pc[c] = "set_head"
    /\ DequeueFn = "sc"
    /\ TakeEntry(c)

\* res = atomic32_cmpset(&(ringbuf->cons.head), cons_head, cons_next);
McCmpSet(c) ==
    /\ pc[c] = "set_head"
    /\ DequeueFn = "mc"
    /\ cons.head = loc[c]
    /\ TakeEntry(c)

\* while (res != 1): start over.
McCmpSetFails(c) ==
    /\ pc[c] = "set_head"
    /\ DequeueFn = "mc"
    /\ cons.head # loc[c]
    /\ Goto(c, "idle")
    /\ UNCHANGED <<ringVars, loc, prodVars, out, histVars, query>>

\* Mutant of Received: the size test is off by one.
ReceivedOffByOne(o, e) ==
    [size           |-> o.size,
     cap            |-> IF o.size + 1 < e.content_length THEN e.size ELSE o.cap,
     content_length |-> e.content_length,
     data           |-> e.data]

\* The caller's entry after the copy.  A buffer that is too small is
\* replaced by one as large as the ring's; out->size is not updated.
Received(o, e) ==
    [size           |-> o.size,
     cap            |-> IF o.size < e.content_length THEN e.size ELSE o.cap,
     content_length |-> e.content_length,
     data           |-> e.data]

CopyOut(c) ==
    /\ pc[c] = "copy"
    /\ out' = [out EXCEPT ![c] = Received(@, ring[loc[c]])]
    /\ deq' = Append(deq, [at |-> abs[c], data |-> ring[loc[c]].data])
    /\ Goto(c, IF DequeueFn = "mc" THEN "wait_tail" ELSE "set_tail")
    /\ UNCHANGED <<ringVars, loc, prodVars, enq, nPub, nTake, nRel, abs,
                  stale, query>>

\* while (ringbuf->cons.tail != cons_head): spin.
McWaitTail(c) ==
    /\ pc[c] = "wait_tail"
    /\ OwnTurn(c, cons.tail)
    /\ Goto(c, "set_tail")
    /\ UNCHANGED <<ringVars, loc, prodVars, out, histVars, query>>

\* cons.tail = cons_next; return X_RING_RET_SUCCESS;
StoreConsTail(c) ==
    /\ pc[c] = "set_tail"
    /\ cons' = [cons EXCEPT !.tail = NextIndex(loc[c])]
    /\ nRel' = nRel + 1
    /\ Goto(c, "idle")
    /\ UNCHANGED <<prod, ring, loc, prodVars, out, enq, deq, nPub, nTake,
                  abs, stale, query>>

-----------------------------------------------------------------------------
(* Queries: x_ring_full, x_ring_empty, x_ring_count, x_ring_free_count     *)

\* Mutant of FreeCount: the entry that is never used counts as free.
FreeCountWhole(pt, ct) == IF pt = ct THEN Size ELSE (ct - pt) % Size

\* The differences modulo the size, for a Size that is a power of two.
FreeCount(pt, ct) == (ct - pt - 1) % Size
Count(pt, ct)     == (pt - ct) % Size
Full(pt, ct)      == FreeCount(pt, ct) = 0
Empty(pt, ct)     == ct = pt

\* uint32_t prod_tail = r->prod.tail;
QueryProd(t) ==
    /\ pc[t] = "idle" /\ ~Asking(t)
    /\ query' = [query EXCEPT ![t] = [at |-> "asking", prod_tail |-> prod.tail]]
    /\ UNCHANGED callVars

\* uint32_t cons_tail = r->cons.tail; and what each of the four returns.
QueryCons(t) ==
    /\ Asking(t)
    /\ query' = LET pt == query[t].prod_tail
                IN  [query EXCEPT ![t] =
                       [at    |-> "answered",
                        full  |-> Full(pt, cons.tail),
                        empty |-> Empty(pt, cons.tail),
                        count |-> Count(pt, cons.tail),
                        free  |-> FreeCount(pt, cons.tail)]]
    /\ UNCHANGED callVars

-----------------------------------------------------------------------------
\* The ring x_ring_create returns, and threads that have not called it yet.
Init ==
    /\ prod  = [head |-> 0, tail |-> 0]
    /\ cons  = [head |-> 0, tail |-> 0]
    /\ ring  = [i \in Index |->
                  [size |-> BufSize, content_length |-> 0, data |-> None]]
    /\ pc    = [t \in Threads |-> "idle"]
    /\ loc   = [t \in Threads |-> 0]
    /\ msg   = [p \in Producers |-> None]
    /\ acked = [p \in Producers |-> 0]
    /\ out   = [c \in Consumers |-> [size |-> OutSize, cap |-> OutSize,
                                     content_length |-> 0, data |-> None]]
    /\ enq   = << >>
    /\ deq   = << >>
    /\ nPub  = 0 /\ nTake = 0 /\ nRel = 0
    /\ abs   = [t \in Threads |-> 0]
    /\ stale = FALSE
    /\ query = [t \in Threads |-> NoQuery]

ProducerStep(p) ==
    \/ EnqueueCall(p)  \/ LoadProdHead(p) \/ EnqueueFull(p) \/ EnqueueRoom(p)
    \/ SpStoreHead(p)  \/ MpCmpSet(p)     \/ MpCmpSetFails(p)
    \/ CopyIn(p)       \/ MpWaitTail(p)   \/ StoreProdTail(p)

ConsumerStep(c) ==
    \/ LoadConsHead(c) \/ DequeueEmpty(c) \/ DequeueSome(c)
    \/ ScStoreHead(c)  \/ McCmpSet(c)     \/ McCmpSetFails(c)
    \/ CopyOut(c)      \/ McWaitTail(c)   \/ StoreConsTail(c)

CallStep ==
    \/ \E p \in Producers : ProducerStep(p)
    \/ \E c \in Consumers : ConsumerStep(c)

Next ==
    \/ CallStep
    \/ \E t \in Queriers : QueryProd(t) \/ QueryCons(t)

Spec == Init /\ [][Next]_vars

\* Every thread is scheduled again and again by the operating system.
Fairness == /\ \A p \in Producers : WF_vars(ProducerStep(p))
            /\ \A c \in Consumers : WF_vars(ConsumerStep(c))

FairSpec == Spec /\ Fairness

-----------------------------------------------------------------------------
(* Properties                                                              *)

Labels == {"idle", "load_head", "check", "set_head", "copy", "wait_tail",
           "set_tail"}

\* Types of all variables but query: the heads and tails, and the local copies
\* of them, stay indexes of the table whatever the threads do.
TypeOK ==
    /\ prod \in [head : Index, tail : Index]
    /\ cons \in [head : Index, tail : Index]
    /\ ring \in [Index -> Entry]
    /\ pc \in [Threads -> Labels]
    /\ loc \in [Threads -> Index]
    /\ msg \in [Producers -> Message \cup {None}]
    /\ \A p \in Producers : pc[p] # "idle" => msg[p] \in Message
    /\ acked \in [Producers -> Nat]
    /\ out \in [Consumers -> OutEntry]
    /\ enq \in Seq(Message)
    /\ deq \in Seq([at : Nat, data : Message \cup {None}])
    /\ nPub \in Nat /\ nTake \in Nat /\ nRel \in Nat
    /\ abs \in [Threads -> Nat]
    /\ stale \in BOOLEAN

\* A thread that has reserved an entry and not yet moved its tail past it.
Holding(t) == pc[t] \in {"copy", "wait_tail", "set_tail"}

\* The four cursors never overtake one another and at most Size - 1 entries
\* are reserved ("the real usable ring size is count-1"): no producer moves
\* prod.head over an entry a consumer has not given back, and no consumer
\* takes an entry that was not published.
CursorsInOrder ==
    /\ nRel <= nTake
    /\ nTake <= nPub
    /\ nPub <= Len(enq)
    /\ Len(enq) <= nRel + Size - 1

\* Two threads never touch the same entry: whoever is between its head and
\* its tail update (lines 126-134, 214-231, 255-262, 296-311) is alone with
\* the entry it reserved, so the unlocked free/malloc/memcpy are race free.
EntryExclusive ==
    \A t, u \in Threads :
        t # u /\ Holding(t) /\ Holding(u) => loc[t] # loc[u]

\* Every dequeue returns the object that was enqueued into the entry it
\* reserved, whole, and no reservation is delivered twice.
DeliveredOnce ==
    /\ \A i \in DOMAIN deq : /\ deq[i].at < Len(enq)
                             /\ deq[i].data = enq[deq[i].at + 1]
    /\ \A i, j \in DOMAIN deq : i # j => deq[i].at # deq[j].at

\* The copy of a dequeue fits the buffer out->data really points to, although
\* out->size keeps its first value when that buffer is replaced.
CopyOutFits ==
    \A c \in Consumers : out[c].content_length <= out[c].cap

\* A producer that is the only one can rely on the room it was told of, and a
\* consumer that is the only one on the entries, for as long as it does
\* nothing else: the other side can only add to them, also between the two
\* loads (x_ring.c:344-345, 358-359).
AnswersHold ==
    LET Answered(S) == {t \in S : query[t].at = "answered"}
    IN  /\ \A p \in Answered(Producers) :
              Producers = {p} =>
                  /\ query[p].free <= Size - 1 - (nPub - nRel)
                  /\ ~query[p].full => nPub - nRel < Size - 1
        /\ \A c \in Answered(Consumers) :
              Consumers = {c} =>
                  /\ query[c].count <= nPub - nRel
                  /\ ~query[c].empty => nRel < nPub

\* An enqueue that returned 0 did enqueue: "0: Success; objects enqueued."
SuccessMeansEnqueued ==
    \A p \in Producers : \A s \in 0 .. (acked[p] - 1) :
        \E k \in 1 .. nPub : enq[k].src = p /\ enq[k].seq = s

\* Every producer gets rid of all its objects, and every object that was
\* published is copied out: nobody spins for ever in one of the wait loops,
\* and a full ring empties again (the retry loops of x_log_write and
\* thread_enqueue_try_best end).
EverythingArrives ==
    <>(stale \/ /\ \A p \in Producers : acked[p] = MaxMsgs
                /\ Len(deq) = nPub)

\* The queue a caller sees: published and not yet copied out.
Abstract == INSTANCE BoundedQueue WITH
    Item <- Message, Capacity <- Size - 1,
    queue <- SubSeq(enq, Len(deq) + 1, nPub),
    delivered <- [i \in DOMAIN deq |-> deq[i].data]

\* With one consumer the ring is a bounded first in, first out queue: storing
\* prod.tail puts exactly one object at its end, the copy of a dequeue takes
\* exactly the oldest one, every other step leaves it alone.
QueueSteps ==
    [][~stale' /\ DequeueFn = "sc" => Abstract!Next]_(Abstract!qvars)

\* The same four for the functions that several threads may call.  A head is
\* compared with a wrapped index, so a thread that sleeps between its load and
\* its compare-and-set while the ring goes round exactly once succeeds with a
\* check that is no longer true.  As long as no head was moved from such an
\* outdated index:
Fresh(P) == ~stale => P

\* ... no cursor overtakes another (x_ring_mp_enqueue, x_ring_mc_dequeue),
FreshCursorsInOrder == Fresh(CursorsInOrder)

\* ... no two threads copy into or out of the same entry,
FreshEntryExclusive == Fresh(EntryExclusive)

\* ... every dequeue returns what was enqueued, exactly once,
FreshDeliveredOnce  == Fresh(DeliveredOnce)
=============================================================================
