---------------------------- MODULE XRingProofs ----------------------------
(***************************************************************************)
(* Proofs about XRing, for every number of threads, every size of the ring *)
(* and every bound.                                                        *)
(*                                                                         *)
(* The code keeps its indexes wrapped, so nothing it reads tells how often *)
(* the ring has gone round.  The inductive invariant relates each wrapped  *)
(* index to the unwrapped count kept as a history variable; the window     *)
(* nRel .. Len(enq)-1 of live reservations is shorter than Size, so that   *)
(* inside it equal indexes are equal counts.                               *)
(***************************************************************************)
EXTENDS XRing, DataLemmas

\* The table index of the k-th reservation, counted from 0.
Slot(k) == k % Size

\* Each wrapped index is the image of the count it stands for.
Wrapped ==
    /\ prod.head = Slot(Len(enq)) /\ prod.tail = Slot(nPub)
    /\ cons.head = Slot(nTake)    /\ cons.tail = Slot(nRel)
    /\ \A t \in Threads : loc[t] = Slot(abs[t])

\* What a producer that passed the check for room may rely on.
RoomSeen ==
    \A p \in Producers :
        /\ abs[p] <= Len(enq)
        /\ pc[p] = "set_head" /\ abs[p] = Len(enq) =>
              Len(enq) < nRel + Size - 1

\* What a consumer that saw an entry may rely on.
EntrySeen ==
    \A c \in Consumers :
        /\ abs[c] <= nTake
        /\ pc[c] = "set_head" /\ abs[c] = nTake => nTake < nPub

\* Producers hold different unpublished entries, and only the oldest of
\* them may be published next.
ProducersHold ==
    /\ \A p \in Producers : Holding(p) =>
          /\ nPub <= abs[p] /\ abs[p] < Len(enq)
          /\ enq[abs[p] + 1] = msg[p]
          /\ pc[p] = "set_tail" => abs[p] = nPub
    /\ \A p, q \in Producers :
          p # q /\ Holding(p) /\ Holding(q) => abs[p] # abs[q]

\* Consumers hold different unreleased entries, and only the oldest of them
\* may be released next.
ConsumersHold ==
    /\ \A c \in Consumers : Holding(c) =>
          /\ nRel <= abs[c] /\ abs[c] < nTake
          /\ pc[c] = "set_tail" => abs[c] = nRel
    /\ \A c, d \in Consumers :
          c # d /\ Holding(c) /\ Holding(d) => abs[c] # abs[d]

\* Every live entry that nobody is about to fill holds its object, whole.
Contents ==
    \A k \in nRel .. (Len(enq) - 1) :
        (\A p \in Producers : pc[p] = "copy" => abs[p] # k) =>
            ring[Slot(k)].data = enq[k + 1]

\* What was copied out came from reservations made, and none is still to come.
Copied ==
    /\ \A i \in DOMAIN deq : /\ deq[i].at < nTake
                             /\ deq[i].data = enq[deq[i].at + 1]
    /\ \A i, j \in DOMAIN deq : i # j => deq[i].at # deq[j].at
    /\ \A c \in Consumers : pc[c] = "copy" =>
          \A i \in DOMAIN deq : deq[i].at # abs[c]

\* The single producer and the single consumer finish one call before the
\* next, and nobody else moves their head.
Alone ==
    /\ EnqueueFn # "mp" => \A p \in Producers :
          /\ pc[p] \in {"check", "set_head"} => abs[p] = Len(enq)
          /\ pc[p] # "wait_tail"
          /\ Len(enq) = IF Holding(p) THEN nPub + 1 ELSE nPub
    /\ DequeueFn # "mc" => \A c \in Consumers :
          /\ pc[c] \in {"check", "set_head"} => abs[c] = nTake
          /\ pc[c] # "wait_tail"
          /\ nTake = IF Holding(c) THEN nRel + 1 ELSE nRel
          /\ Len(deq) = IF pc[c] = "copy" THEN nRel ELSE nTake

Core ==
    /\ Wrapped /\ CursorsInOrder /\ RoomSeen /\ EntrySeen
    /\ ProducersHold /\ ConsumersHold /\ Contents /\ Copied /\ Alone

\* Whatever the cursors say, a stale head needs a second thread of its kind.
StaleNeedsMany == stale => EnqueueFn = "mp" \/ DequeueFn = "mc"

\* The inductive invariant.  It has to carry all of this at once: the order
\* of the cursors needs what a thread saw when it checked, what it saw is
\* only as good as the window of live entries, and the window is the order
\* of the cursors.
IInv ==
    /\ TypeOK
    /\ Fresh(Core)
    /\ StaleNeedsMany

-----------------------------------------------------------------------------
(* Slots                                                                   *)

\* A ring has at least two entries.
LEMMA SizeFacts == Size \in Nat \ {0} /\ Size > 1
  <1>1. Size \in Nat \ {0, 1}
    BY RingAssumption, Zenon DEF RingAssumption
  <1> QED
    BY <1>1

\* A slot is an index of the table.
LEMMA SlotIsIndex ==
  ASSUME NEW k \in Nat
  PROVE  Slot(k) \in Index
  <1> QED
    BY SizeFacts, QuotientRemainder DEF Slot, Index

\* Masking the incremented index yields the slot of the next reservation.
LEMMA NextSlot ==
  ASSUME NEW k \in Nat
  PROVE  NextIndex(Slot(k)) = Slot(k + 1)
  <1> QED
    BY SuccessorOfRemainder, SizeFacts DEF Slot, NextIndex

\* After Size reservations the slots repeat.
LEMMA SlotPeriodic ==
  ASSUME NEW k \in Nat
  PROVE  Slot(k + Size) = Slot(k)
  <1> QED
    BY RemainderPeriodic, SizeFacts DEF Slot

\* Among Size consecutive reservations a slot identifies the reservation.
LEMMA SlotInjective ==
  ASSUME NEW a \in Nat, NEW b \in Nat, a <= b, b < a + Size,
         Slot(a) = Slot(b)
  PROVE  a = b
  <1> QED
    BY WindowInjective, SizeFacts DEF Slot

\* The successor of an index is an index.
LEMMA NextIsIndex ==
  ASSUME NEW i \in Index
  PROVE  NextIndex(i) \in Index
  <1> QED
    BY SizeFacts, SlotIsIndex DEF Slot, NextIndex, Index

-----------------------------------------------------------------------------
(* Types                                                                   *)

\* An entry that was filled is still an entry, and so is what is received.
LEMMA EntryTypes ==
  ASSUME NEW e \in Entry, NEW m \in Message, NEW o \in OutEntry
  PROVE  /\ Filled(e, m) \in Entry
         /\ Received(o, e) \in OutEntry
  <1>1. m.size \in Nat
    BY RingAssumption DEF RingAssumption, Message
  <1> QED
    BY <1>1 DEF Entry, OutEntry, Filled, Received

\* The first state is well typed.
LEMMA TypeInit == Init => TypeOK
  <1> SUFFICES ASSUME Init
               PROVE  TypeOK
    OBVIOUS
  <1>1. 0 \in Index
    BY SizeFacts DEF Index
  <1>2. enq \in Seq(Message)
    BY DEF Init
  <1>3. deq \in Seq([at : Nat, data : Message \cup {None}])
    BY DEF Init
  <1>4. ring \in [Index -> Entry]
    BY RingAssumption DEF RingAssumption, Init, Entry
  <1>5. out \in [Consumers -> OutEntry]
    BY RingAssumption DEF RingAssumption, Init, OutEntry
  <1> QED
    BY <1>1, <1>2, <1>3, <1>4, <1>5 DEF Init, TypeOK, Labels, Threads

\* Every step of a producer keeps the types.
LEMMA TypeProducer ==
  ASSUME TypeOK, NEW p \in Producers, ProducerStep(p)
  PROVE  TypeOK'
  <1> USE DEF TypeOK, Goto, ringVars, prodVars, histVars
  <1> p \in Threads /\ loc[p] \in Index
    BY DEF Threads
  <1> NextIndex(loc[p]) \in Index
    BY NextIsIndex
  <1>1. CASE EnqueueCall(p)
    <2>1. PICK n \in MsgSizes :
             msg' = [msg EXCEPT ![p] = [src |-> p, seq |-> acked[p], size |-> n]]
      BY <1>1 DEF EnqueueCall
    <2>2. [src |-> p, seq |-> acked[p], size |-> n] \in Message
      BY <1>1, RingAssumption DEF RingAssumption, EnqueueCall, Message
    <2> QED
      BY <1>1, <2>1, <2>2 DEF EnqueueCall, Labels
  <1>2. CASE LoadProdHead(p)
    BY <1>2 DEF LoadProdHead, Labels
  <1>3. CASE EnqueueFull(p)
    BY <1>3 DEF EnqueueFull, Labels
  <1>4. CASE EnqueueRoom(p)
    BY <1>4 DEF EnqueueRoom, Labels
  <1>5. CASE SpStoreHead(p) \/ MpCmpSet(p)
    <2>1. pc[p] = "set_head" /\ ReserveEntry(p)
      BY <1>5 DEF SpStoreHead, MpCmpSet
    <2>2. Append(enq, msg[p]) \in Seq(Message)
      BY <2>1
    <2>3. prod' \in [head : Index, tail : Index]
      BY <2>1 DEF ReserveEntry
    <2> QED
      BY <2>1, <2>2, <2>3 DEF ReserveEntry, Labels
  <1>6. CASE MpCmpSetFails(p)
    BY <1>6 DEF MpCmpSetFails, Labels
  <1>7. CASE CopyIn(p)
    <2>1. Filled(ring[loc[p]], msg[p]) \in Entry
      <3>1. ring[loc[p]] \in Entry /\ msg[p] \in Message
        BY <1>7 DEF CopyIn
      <3>2. msg[p].size \in Nat
        BY <3>1, RingAssumption DEF RingAssumption, Message
      <3> QED
        BY <3>1, <3>2 DEF Filled, Entry
    <2> QED
      BY <1>7, <2>1 DEF CopyIn, Labels
  <1>8. CASE MpWaitTail(p)
    BY <1>8 DEF MpWaitTail, Labels
  <1>9. CASE StoreProdTail(p)
    <2>1. prod' \in [head : Index, tail : Index]
      BY <1>9 DEF StoreProdTail
    <2> QED
      BY <1>9, <2>1, nPub + 1 \in Nat, acked[p] + 1 \in Nat
      DEF StoreProdTail, Labels
  <1> QED
    BY <1>1, <1>2, <1>3, <1>4, <1>5, <1>6, <1>7, <1>8, <1>9 DEF ProducerStep

\* Every step of a consumer keeps the types.
LEMMA TypeConsumer ==
  ASSUME TypeOK, NEW c \in Consumers, ConsumerStep(c)
  PROVE  TypeOK'
  <1> USE DEF TypeOK, Goto, ringVars, prodVars, histVars
  <1> c \in Threads /\ loc[c] \in Index /\ c \notin Producers
    BY RingAssumption DEF RingAssumption, Threads
  <1> NextIndex(loc[c]) \in Index
    BY NextIsIndex
  <1>1. CASE LoadConsHead(c)
    BY <1>1 DEF LoadConsHead, Labels
  <1>2. CASE DequeueEmpty(c)
    BY <1>2 DEF DequeueEmpty, Labels
  <1>3. CASE DequeueSome(c)
    BY <1>3 DEF DequeueSome, Labels
  <1>4. CASE ScStoreHead(c) \/ McCmpSet(c)
    <2>1. pc[c] = "set_head" /\ TakeEntry(c)
      BY <1>4 DEF ScStoreHead, McCmpSet
    <2>2. cons' \in [head : Index, tail : Index]
      BY <2>1 DEF TakeEntry
    <2> QED
      BY <2>1, <2>2, nTake + 1 \in Nat DEF TakeEntry, Labels
  <1>5. CASE McCmpSetFails(c)
    BY <1>5 DEF McCmpSetFails, Labels
  <1>6. CASE CopyOut(c)
    <2>1. Received(out[c], ring[loc[c]]) \in OutEntry
      BY DEF Received, OutEntry, Entry
    <2>2. [at |-> abs[c], data |-> ring[loc[c]].data]
             \in [at : Nat, data : Message \cup {None}]
      BY DEF Entry
    <2> QED
      BY <1>6, <2>1, <2>2 DEF CopyOut, Labels
  <1>7. CASE McWaitTail(c)
    BY <1>7 DEF McWaitTail, Labels
  <1>8. CASE StoreConsTail(c)
    <2>1. cons' \in [head : Index, tail : Index]
      BY <1>8 DEF StoreConsTail
    <2> QED
      BY <1>8, <2>1, nRel + 1 \in Nat DEF StoreConsTail, Labels
  <1> QED
    BY <1>1, <1>2, <1>4, <1>5, <1>6, <1>7, <1>8, <1>3 DEF ConsumerStep

\* A query changes nothing the calls use: seen without the queries, every
\* step is one of a call, or none.
LEMMA QueriesAside == [Next]_vars => [CallStep]_callVars
  <1>1. ASSUME NEW t \in Queriers, QueryProd(t) \/ QueryCons(t)
        PROVE  UNCHANGED callVars
    BY <1>1 DEF QueryProd, QueryCons
  <1>2. UNCHANGED vars => UNCHANGED callVars
    BY DEF vars
  <1> QED
    BY <1>1, <1>2 DEF Next

\* Every step keeps the types.
LEMMA TypeStep == TypeOK /\ [CallStep]_callVars => TypeOK'
  <1> SUFFICES ASSUME TypeOK, [CallStep]_callVars
               PROVE  TypeOK'
    OBVIOUS
  <1>1. CASE UNCHANGED callVars
    BY <1>1 DEF callVars, TypeOK
  <1> QED
    BY <1>1, TypeProducer, TypeConsumer DEF CallStep

\* Type correctness: heads, tails and local copies are always indexes of the
\* table, for every number of threads and every ring size.
THEOREM TypeCorrect == Spec => []TypeOK
  <1> QED
    BY TypeInit, TypeStep, QueriesAside, PTL DEF Spec

-----------------------------------------------------------------------------
(* The inductive invariant                                                 *)

\* The arithmetic part of the types, and who the threads are.
Numbers ==
    /\ nPub \in Nat /\ nTake \in Nat /\ nRel \in Nat /\ Len(enq) \in Nat
    /\ abs \in [Threads -> Nat] /\ loc \in [Threads -> Index]
    /\ pc \in [Threads -> Labels]

\* They follow from the types.
LEMMA NumbersTyped == TypeOK => Numbers
  <1> QED
    BY DEF TypeOK, Numbers

\* The same after a step.
LEMMA NumbersTypedNext == TypeOK' => Numbers'
  <1> QED
    BY DEF TypeOK, Numbers

\* The reservations recorded in deq are numbers.
LEMMA CopiedNumbers == TypeOK => \A i \in DOMAIN deq : deq[i].at \in Nat
  <1> SUFFICES ASSUME TypeOK, NEW i \in DOMAIN deq
               PROVE  deq[i].at \in Nat
    OBVIOUS
  <1>1. PICK R : R = [at : Nat, data : Message \cup {None}]
    OBVIOUS
  <1>2. deq \in Seq(R)
    BY <1>1 DEF TypeOK
  <1>3. deq[i] \in R
    BY <1>2
  <1> QED
    BY <1>1, <1>3

\* A thread is a producer or a consumer, never both; an "sp" or an "sc" ring
\* has one of them.
LEMMA Sides ==
  /\ Producers \subseteq Threads /\ Consumers \subseteq Threads
  /\ \A p \in Producers : p \notin Consumers
  /\ EnqueueFn # "mp" => \A p, q \in Producers : p = q
  /\ DequeueFn # "mc" => \A c, d \in Consumers : c = d
  <1>1. Producers \cap Consumers = {}
    BY RingAssumption, Zenon DEF RingAssumption
  <1>2. EnqueueFn # "mp" => \E p \in Producers : Producers = {p}
    BY RingAssumption, Zenon DEF RingAssumption
  <1>3. DequeueFn # "mc" => \E c \in Consumers : Consumers = {c}
    BY RingAssumption, Zenon DEF RingAssumption
  <1> QED
    BY <1>1, <1>2, <1>3 DEF Threads

\* Handing over an object disturbs nothing.
LEMMA CoreEnqueueCall ==
  ASSUME TypeOK, TypeOK', Core, NEW p \in Producers, EnqueueCall(p), ~stale'
  PROVE  Core'
  <1> USE DEF Goto, ringVars, prodVars, histVars, Holding
  <1>1. Numbers /\ Numbers'
    BY NumbersTyped, NumbersTypedNext, TypeOK, TypeOK', Zenon
  <1>2. Wrapped /\ CursorsInOrder /\ RoomSeen /\ EntrySeen /\ ProducersHold
        /\ ConsumersHold /\ Contents /\ Copied /\ Alone
    BY DEF Core
  <1>3. Wrapped'
    BY <1>1, <1>2, Sides DEF Wrapped, EnqueueCall, Numbers
  <1>4. CursorsInOrder'
    BY <1>1, <1>2, Sides DEF CursorsInOrder, EnqueueCall, Numbers
  <1>5. RoomSeen'
    BY <1>1, <1>2, Sides DEF RoomSeen, EnqueueCall, Numbers
  <1>6. EntrySeen'
    BY <1>1, <1>2, Sides DEF EntrySeen, EnqueueCall, Numbers
  <1>7. ProducersHold'
    BY <1>1, <1>2, Sides DEF ProducersHold, EnqueueCall, Numbers
  <1>8. ConsumersHold'
    BY <1>1, <1>2, Sides DEF ConsumersHold, EnqueueCall, Numbers
  <1>9. Contents'
    BY <1>1, <1>2, Sides DEF Contents, EnqueueCall, Numbers
  <1>10. Copied'
    BY <1>1, <1>2, Sides DEF Copied, EnqueueCall, Numbers
  <1>11. Alone'
    BY <1>1, <1>2, Sides DEF Alone, EnqueueCall, Numbers
  <1> QED
    BY <1>3, <1>4, <1>5, <1>6, <1>7, <1>8, <1>9, <1>10, <1>11 DEF Core

\* A fresh load of prod.head sees the newest reservation.
LEMMA CoreLoadProdHead ==
  ASSUME TypeOK, TypeOK', Core, NEW p \in Producers, LoadProdHead(p), ~stale'
  PROVE  Core'
  <1> USE DEF Goto, ringVars, prodVars, histVars, Holding
  <1>1. Numbers /\ Numbers'
    BY NumbersTyped, NumbersTypedNext, TypeOK, TypeOK', Zenon
  <1>2. Wrapped /\ CursorsInOrder /\ RoomSeen /\ EntrySeen /\ ProducersHold
        /\ ConsumersHold /\ Contents /\ Copied /\ Alone
    BY DEF Core
  <1>3. Wrapped'
    BY <1>1, <1>2, Sides DEF Wrapped, LoadProdHead, Numbers
  <1>4. CursorsInOrder'
    BY <1>1, <1>2, Sides DEF CursorsInOrder, LoadProdHead, Numbers
  <1>5. RoomSeen'
    BY <1>1, <1>2, Sides DEF RoomSeen, LoadProdHead, Numbers
  <1>6. EntrySeen'
    BY <1>1, <1>2, Sides DEF EntrySeen, LoadProdHead, Numbers
  <1>7. ProducersHold'
    BY <1>1, <1>2, Sides DEF ProducersHold, LoadProdHead, Numbers
  <1>8. ConsumersHold'
    BY <1>1, <1>2, Sides DEF ConsumersHold, LoadProdHead, Numbers
  <1>9. Contents'
    BY <1>1, <1>2, Sides DEF Contents, LoadProdHead, Numbers
  <1>10. Copied'
    BY <1>1, <1>2, Sides DEF Copied, LoadProdHead, Numbers
  <1>11. Alone'
    BY <1>1, <1>2, Sides DEF Alone, LoadProdHead, Numbers
  <1> QED
    BY <1>3, <1>4, <1>5, <1>6, <1>7, <1>8, <1>9, <1>10, <1>11 DEF Core

\* A refused enqueue leaves the ring alone.
LEMMA CoreEnqueueFull ==
  ASSUME TypeOK, TypeOK', Core, NEW p \in Producers, EnqueueFull(p), ~stale'
  PROVE  Core'
  <1> USE DEF Goto, ringVars, prodVars, histVars, Holding
  <1>1. Numbers /\ Numbers'
    BY NumbersTyped, NumbersTypedNext, TypeOK, TypeOK', Zenon
  <1>2. Wrapped /\ CursorsInOrder /\ RoomSeen /\ EntrySeen /\ ProducersHold
        /\ ConsumersHold /\ Contents /\ Copied /\ Alone
    BY DEF Core
  <1>3. Wrapped'
    BY <1>1, <1>2, Sides DEF Wrapped, EnqueueFull, Numbers
  <1>4. CursorsInOrder'
    BY <1>1, <1>2, Sides DEF CursorsInOrder, EnqueueFull, Numbers
  <1>5. RoomSeen'
    BY <1>1, <1>2, Sides DEF RoomSeen, EnqueueFull, Numbers
  <1>6. EntrySeen'
    BY <1>1, <1>2, Sides DEF EntrySeen, EnqueueFull, Numbers
  <1>7. ProducersHold'
    BY <1>1, <1>2, Sides DEF ProducersHold, EnqueueFull, Numbers
  <1>8. ConsumersHold'
    BY <1>1, <1>2, Sides DEF ConsumersHold, EnqueueFull, Numbers
  <1>9. Contents'
    BY <1>1, <1>2, Sides DEF Contents, EnqueueFull, Numbers
  <1>10. Copied'
    BY <1>1, <1>2, Sides DEF Copied, EnqueueFull, Numbers
  <1>11. Alone'
    BY <1>1, <1>2, Sides DEF Alone, EnqueueFull, Numbers
  <1> QED
    BY <1>3, <1>4, <1>5, <1>6, <1>7, <1>8, <1>9, <1>10, <1>11 DEF Core

\* A producer that found room found it for good: only its own kind can fill it.
LEMMA CoreEnqueueRoom ==
  ASSUME TypeOK, TypeOK', Core, NEW p \in Producers, EnqueueRoom(p), ~stale'
  PROVE  Core'
  <1> USE DEF Goto, ringVars, prodVars, histVars, Holding
  <1>1. Numbers /\ Numbers'
    BY NumbersTyped, NumbersTypedNext, TypeOK, TypeOK', Zenon
  <1>2. Wrapped /\ CursorsInOrder /\ RoomSeen /\ EntrySeen /\ ProducersHold
        /\ ConsumersHold /\ Contents /\ Copied /\ Alone
    BY DEF Core
  <1>3. Wrapped'
    BY <1>1, <1>2, Sides DEF Wrapped, EnqueueRoom, Numbers
  <1>4. CursorsInOrder'
    BY <1>1, <1>2, Sides DEF CursorsInOrder, EnqueueRoom, Numbers
  <1>5. RoomSeen'
    <2>1. NextIndex(loc[p]) = Slot(abs[p] + 1)
      BY <1>1, <1>2, Sides, NextSlot DEF Wrapped, Numbers
    <2>2. Slot(nRel + Size) = cons.tail
      BY <1>1, <1>2, SlotPeriodic DEF Wrapped, Numbers
    <2>3. abs[p] + 1 # nRel + Size
      BY <2>1, <2>2 DEF EnqueueRoom, NoRoom
    <2>4. abs[p] = Len(enq) => Len(enq) < nRel + Size - 1
      BY <1>1, <1>2, <2>3, SizeFacts DEF CursorsInOrder, Numbers
    <2> QED
      BY <1>1, <1>2, <2>4, Sides DEF RoomSeen, EnqueueRoom, Numbers
  <1>6. EntrySeen'
    BY <1>1, <1>2, Sides DEF EntrySeen, EnqueueRoom, Numbers
  <1>7. ProducersHold'
    BY <1>1, <1>2, Sides DEF ProducersHold, EnqueueRoom, Numbers
  <1>8. ConsumersHold'
    BY <1>1, <1>2, Sides DEF ConsumersHold, EnqueueRoom, Numbers
  <1>9. Contents'
    BY <1>1, <1>2, Sides DEF Contents, EnqueueRoom, Numbers
  <1>10. Copied'
    BY <1>1, <1>2, Sides DEF Copied, EnqueueRoom, Numbers
  <1>11. Alone'
    BY <1>1, <1>2, Sides DEF Alone, EnqueueRoom, Numbers
  <1> QED
    BY <1>3, <1>4, <1>5, <1>6, <1>7, <1>8, <1>9, <1>10, <1>11 DEF Core

\* A failed compare-and-set starts over.
LEMMA CoreMpCmpSetFails ==
  ASSUME TypeOK, TypeOK', Core, NEW p \in Producers, MpCmpSetFails(p), ~stale'
  PROVE  Core'
  <1> USE DEF Goto, ringVars, prodVars, histVars, Holding
  <1>1. Numbers /\ Numbers'
    BY NumbersTyped, NumbersTypedNext, TypeOK, TypeOK', Zenon
  <1>2. Wrapped /\ CursorsInOrder /\ RoomSeen /\ EntrySeen /\ ProducersHold
        /\ ConsumersHold /\ Contents /\ Copied /\ Alone
    BY DEF Core
  <1>3. Wrapped'
    BY <1>1, <1>2, Sides DEF Wrapped, MpCmpSetFails, Numbers
  <1>4. CursorsInOrder'
    BY <1>1, <1>2, Sides DEF CursorsInOrder, MpCmpSetFails, Numbers
  <1>5. RoomSeen'
    BY <1>1, <1>2, Sides DEF RoomSeen, MpCmpSetFails, Numbers
  <1>6. EntrySeen'
    BY <1>1, <1>2, Sides DEF EntrySeen, MpCmpSetFails, Numbers
  <1>7. ProducersHold'
    BY <1>1, <1>2, Sides DEF ProducersHold, MpCmpSetFails, Numbers
  <1>8. ConsumersHold'
    BY <1>1, <1>2, Sides DEF ConsumersHold, MpCmpSetFails, Numbers
  <1>9. Contents'
    BY <1>1, <1>2, Sides DEF Contents, MpCmpSetFails, Numbers
  <1>10. Copied'
    BY <1>1, <1>2, Sides DEF Copied, MpCmpSetFails, Numbers
  <1>11. Alone'
    BY <1>1, <1>2, Sides DEF Alone, MpCmpSetFails, Numbers
  <1> QED
    BY <1>3, <1>4, <1>5, <1>6, <1>7, <1>8, <1>9, <1>10, <1>11 DEF Core

\* A producer stops waiting only when it is the oldest one.
LEMMA CoreMpWaitTail ==
  ASSUME TypeOK, TypeOK', Core, NEW p \in Producers, MpWaitTail(p), ~stale'
  PROVE  Core'
  <1> USE DEF Goto, ringVars, prodVars, histVars, Holding
  <1>1. Numbers /\ Numbers'
    BY NumbersTyped, NumbersTypedNext, TypeOK, TypeOK', Zenon
  <1>2. Wrapped /\ CursorsInOrder /\ RoomSeen /\ EntrySeen /\ ProducersHold
        /\ ConsumersHold /\ Contents /\ Copied /\ Alone
    BY DEF Core
  <1>3. Wrapped'
    BY <1>1, <1>2, Sides DEF Wrapped, MpWaitTail, Numbers
  <1>4. CursorsInOrder'
    BY <1>1, <1>2, Sides DEF CursorsInOrder, MpWaitTail, Numbers
  <1>5. RoomSeen'
    BY <1>1, <1>2, Sides DEF RoomSeen, MpWaitTail, Numbers
  <1>6. EntrySeen'
    BY <1>1, <1>2, Sides DEF EntrySeen, MpWaitTail, Numbers
  <1>7. ProducersHold'
    <2>1. Holding(p) /\ Slot(nPub) = Slot(abs[p])
      BY <1>1, <1>2, Sides DEF MpWaitTail, OwnTurn, Wrapped, Numbers
    <2>2. nPub <= abs[p] /\ abs[p] < nPub + Size
      BY <1>1, <1>2, <2>1, Sides, SizeFacts
      DEF ProducersHold, CursorsInOrder, Numbers
    <2>3. abs[p] = nPub
      BY <1>1, <2>1, <2>2, Sides, SlotInjective DEF Numbers
    <2> QED
      BY <1>1, <1>2, <2>3, Sides DEF ProducersHold, MpWaitTail, Numbers
  <1>8. ConsumersHold'
    BY <1>1, <1>2, Sides DEF ConsumersHold, MpWaitTail, Numbers
  <1>9. Contents'
    BY <1>1, <1>2, Sides DEF Contents, MpWaitTail, Numbers
  <1>10. Copied'
    BY <1>1, <1>2, Sides DEF Copied, MpWaitTail, Numbers
  <1>11. Alone'
    BY <1>1, <1>2, Sides DEF Alone, MpWaitTail, Numbers
  <1> QED
    BY <1>3, <1>4, <1>5, <1>6, <1>7, <1>8, <1>9, <1>10, <1>11 DEF Core

\* Moving prod.head extends the window by one entry nobody else holds.
LEMMA CoreReserve ==
  ASSUME TypeOK, TypeOK', Core, NEW p \in Producers, pc[p] = "set_head", ReserveEntry(p), ~stale'
  PROVE  Core'
  <1> USE DEF Goto, ringVars, prodVars, histVars, Holding
  <1>1. Numbers /\ Numbers'
    BY NumbersTyped, NumbersTypedNext, TypeOK, TypeOK', Zenon
  <1>2. Wrapped /\ CursorsInOrder /\ RoomSeen /\ EntrySeen /\ ProducersHold
        /\ ConsumersHold /\ Contents /\ Copied /\ Alone
    BY DEF Core
  <1>a. abs[p] = Len(enq) /\ Len(enq) < nRel + Size - 1
    BY <1>1, <1>2, Sides DEF ReserveEntry, RoomSeen, Numbers
  <1>b. /\ enq \in Seq(Message) /\ msg[p] \in Message /\ enq' = Append(enq, msg[p])
    BY DEF TypeOK, ReserveEntry
  <1>c. /\ Len(enq') = Len(enq) + 1
        /\ enq'[Len(enq) + 1] = msg[p]
        /\ \A k \in 1 .. Len(enq) : enq'[k] = enq[k]
    BY <1>b
  <1>d. /\ pc' = [pc EXCEPT ![p] = "copy"]
        /\ UNCHANGED <<cons, ring, loc, msg, deq, nPub, nTake, nRel, abs>>
        /\ prod' = [prod EXCEPT !.head = NextIndex(loc[p])]
    BY DEF ReserveEntry
  <1>3. Wrapped'
    <2>1. NextIndex(loc[p]) = Slot(Len(enq) + 1)
      BY <1>1, <1>2, <1>a, Sides, NextSlot DEF Wrapped, Numbers
    <2>2. prod'.head = NextIndex(loc[p]) /\ prod'.tail = prod.tail
      BY <1>d DEF TypeOK
    <2> QED
      BY <1>2, <1>c, <1>d, <2>1, <2>2 DEF Wrapped
  <1>4. CursorsInOrder'
    BY <1>1, <1>2, <1>a, <1>c, <1>d, SizeFacts DEF CursorsInOrder, Numbers
  <1>5. RoomSeen'
    BY <1>1, <1>2, Sides DEF RoomSeen, ReserveEntry, Numbers
  <1>6. EntrySeen'
    BY <1>1, <1>2, Sides DEF EntrySeen, ReserveEntry, Numbers
  <1>7. ProducersHold'
    <2>1. \A q \in Producers : q # p =>
             /\ pc'[q] = pc[q]
             /\ Holding(q) => abs[q] < Len(enq) /\ nPub <= abs[q]
                              /\ enq'[abs[q] + 1] = msg[q]
      BY <1>1, <1>2, <1>c, <1>d, Sides DEF ProducersHold, Numbers
    <2>2. pc'[p] = "copy" /\ nPub <= abs[p] /\ enq'[abs[p] + 1] = msg[p]
      BY <1>1, <1>2, <1>a, <1>c, <1>d, Sides DEF CursorsInOrder, Numbers
    <2> QED
      BY <1>1, <1>2, <1>a, <1>c, <1>d, <2>1, <2>2, Sides
      DEF ProducersHold, Numbers
  <1>8. ConsumersHold'
    BY <1>1, <1>2, Sides DEF ConsumersHold, ReserveEntry, Numbers
  <1>9. Contents'
    <2> SUFFICES ASSUME NEW k \in nRel .. Len(enq),
                        \A q \in Producers : pc'[q] = "copy" => abs[q] # k
                 PROVE  ring[Slot(k)].data = enq'[k + 1]
      BY <1>1, <1>c, <1>d DEF Contents, Numbers
    <2>1. k # Len(enq)
      BY <1>1, <1>a, <1>d, Sides DEF Numbers
    <2>2. k \in nRel .. (Len(enq) - 1) /\ k + 1 \in 1 .. Len(enq)
      BY <1>1, <2>1 DEF Numbers
    <2>3. \A q \in Producers : pc[q] = "copy" => abs[q] # k
      BY <1>1, <1>d, Sides DEF Numbers
    <2> QED
      BY <1>2, <1>c, <2>2, <2>3 DEF Contents
  <1>10. Copied'
    <2>1. \A i \in DOMAIN deq : deq[i].at \in Nat
      BY CopiedNumbers
    <2>2. \A i \in DOMAIN deq : enq'[deq[i].at + 1] = enq[deq[i].at + 1]
      <3> TAKE i \in DOMAIN deq
      <3>1. deq[i].at \in Nat /\ deq[i].at < nTake
        BY <1>2, <2>1 DEF Copied
      <3>2. deq[i].at + 1 \in 1 .. Len(enq)
        BY <1>1, <1>2, <3>1, SMTT(30) DEF CursorsInOrder, Numbers
      <3> QED
        BY <1>c, <3>2
    <2>3. \A c \in Consumers : pc'[c] = pc[c]
      BY <1>1, <1>d, Sides DEF Numbers
    <2> QED
      BY <1>2, <1>d, <2>2, <2>3 DEF Copied
  <1>11. Alone'
    <2>1. \A q \in Producers : q # p => pc'[q] = pc[q]
      BY <1>1, <1>d, Sides DEF Numbers
    <2>2. \A c \in Consumers : pc'[c] = pc[c]
      BY <1>1, <1>d, Sides DEF Numbers
    <2>3. pc'[p] = "copy"
      BY <1>1, <1>d, Sides DEF Numbers
    <2>4. EnqueueFn # "mp" => Len(enq) = nPub
      BY <1>2 DEF Alone
    <2> QED
      BY <1>1, <1>2, <1>c, <1>d, <2>1, <2>2, <2>3, <2>4, Sides
      DEF Alone, Numbers
  <1> QED
    BY <1>3, <1>4, <1>5, <1>6, <1>7, <1>8, <1>9, <1>10, <1>11 DEF Core

\* Filling an entry touches no other live entry.
LEMMA CoreCopyIn ==
  ASSUME TypeOK, TypeOK', Core, NEW p \in Producers, CopyIn(p), ~stale'
  PROVE  Core'
  <1> USE DEF Goto, ringVars, prodVars, histVars, Holding
  <1>1. Numbers /\ Numbers'
    BY NumbersTyped, NumbersTypedNext, TypeOK, TypeOK', Zenon
  <1>2. Wrapped /\ CursorsInOrder /\ RoomSeen /\ EntrySeen /\ ProducersHold
        /\ ConsumersHold /\ Contents /\ Copied /\ Alone
    BY DEF Core
  <1>3. Wrapped'
    BY <1>1, <1>2, Sides DEF Wrapped, CopyIn, Numbers
  <1>4. CursorsInOrder'
    BY <1>1, <1>2, Sides DEF CursorsInOrder, CopyIn, Numbers
  <1>5. RoomSeen'
    BY <1>1, <1>2, Sides DEF RoomSeen, CopyIn, Numbers
  <1>6. EntrySeen'
    BY <1>1, <1>2, Sides DEF EntrySeen, CopyIn, Numbers
  <1>7. ProducersHold'
    <2>1. Holding(p) /\ (EnqueueFn # "mp" => abs[p] = nPub)
      BY <1>1, <1>2, Sides DEF CopyIn, ProducersHold, Alone, Numbers
    <2>2. \A q \in Producers : Holding(q)' <=> Holding(q)
      BY <1>1, Sides DEF CopyIn, Numbers
    <2>3. \A q \in Producers : q # p => pc'[q] = pc[q]
      BY <1>1, Sides DEF CopyIn, Numbers
    <2>4. pc'[p] = "set_tail" => abs[p] = nPub
      BY <1>1, <2>1, Sides DEF CopyIn, Numbers
    <2>5. UNCHANGED <<nPub, abs, enq, msg>>
      BY DEF CopyIn
    <2> QED
      BY <1>2, <2>2, <2>3, <2>4, <2>5 DEF ProducersHold
  <1>8. ConsumersHold'
    BY <1>1, <1>2, Sides DEF ConsumersHold, CopyIn, Numbers
  <1>9. Contents'
    <2> SUFFICES ASSUME NEW k \in nRel .. (Len(enq) - 1),
                        \A q \in Producers : pc'[q] = "copy" => abs[q] # k
                 PROVE  ring'[Slot(k)].data = enq[k + 1]
      BY <1>1 DEF Contents, CopyIn, Numbers
    <2>1. /\ ring' = [ring EXCEPT ![loc[p]] = Filled(@, msg[p])]
          /\ ring \in [Index -> Entry] /\ loc[p] = Slot(abs[p])
      BY <1>2, Sides DEF CopyIn, Wrapped, TypeOK
    <2>2. /\ Slot(k) \in Index /\ Slot(abs[p]) \in Index
          /\ nPub <= abs[p] /\ abs[p] < Len(enq) /\ enq[abs[p] + 1] = msg[p]
      BY <1>1, <1>2, Sides, SlotIsIndex DEF CopyIn, ProducersHold, Numbers
    <2>3. CASE k = abs[p]
      BY <2>1, <2>2, <2>3 DEF Filled
    <2>4. CASE k # abs[p]
      <3>1. Slot(k) # Slot(abs[p])
        <4>0. /\ abs[p] \in Nat /\ nRel \in Nat /\ nTake \in Nat
              /\ nPub \in Nat /\ Len(enq) \in Nat
          BY <1>1, Sides DEF Numbers
        <4>1. /\ k \in Nat /\ abs[p] \in Nat
              /\ k < abs[p] + Size /\ abs[p] < k + Size
          <5>1. nRel <= nTake /\ nTake <= nPub /\ Len(enq) <= nRel + Size - 1
            BY <1>2 DEF CursorsInOrder
          <5> QED
            BY <4>0, <5>1, <2>2, SizeFacts, SMTT(30)
        <4>2. CASE k < abs[p]
          BY <2>4, <4>1, <4>2, SlotInjective
        <4>3. CASE abs[p] < k
          BY <2>4, <4>1, <4>3, SlotInjective
        <4> QED
          BY <2>4, <4>1, <4>2, <4>3
      <3>2. ring'[Slot(k)] = ring[Slot(k)]
        BY <2>1, <2>2, <3>1
      <3>3. \A q \in Producers : pc[q] = "copy" => abs[q] # k
        BY <1>1, <2>4, Sides DEF CopyIn, Numbers
      <3> QED
        BY <1>2, <3>2, <3>3 DEF Contents
    <2> QED
      BY <2>3, <2>4
  <1>10. Copied'
    BY <1>1, <1>2, Sides DEF Copied, CopyIn, Numbers
  <1>11. Alone'
    BY <1>1, <1>2, Sides DEF Alone, CopyIn, Numbers
  <1> QED
    BY <1>3, <1>4, <1>5, <1>6, <1>7, <1>8, <1>9, <1>10, <1>11 DEF Core

\* Moving prod.tail publishes exactly the oldest reservation.
LEMMA CoreStoreProdTail ==
  ASSUME TypeOK, TypeOK', Core, NEW p \in Producers, StoreProdTail(p), ~stale'
  PROVE  Core'
  <1> USE DEF Goto, ringVars, prodVars, histVars, Holding
  <1>1. Numbers /\ Numbers'
    BY NumbersTyped, NumbersTypedNext, TypeOK, TypeOK', Zenon
  <1>2. Wrapped /\ CursorsInOrder /\ RoomSeen /\ EntrySeen /\ ProducersHold
        /\ ConsumersHold /\ Contents /\ Copied /\ Alone
    BY DEF Core
  <1>3. Wrapped'
    <2>1. abs[p] = nPub
      BY <1>2 DEF StoreProdTail, ProducersHold
    <2>2. NextIndex(loc[p]) = Slot(nPub + 1)
      BY <1>1, <1>2, <2>1, Sides, NextSlot DEF Wrapped, Numbers
    <2>3. prod'.tail = NextIndex(loc[p]) /\ prod'.head = prod.head
      BY DEF TypeOK, StoreProdTail
    <2> QED
      BY <1>2, <2>2, <2>3 DEF Wrapped, StoreProdTail
  <1>4. CursorsInOrder'
    <2>1. nPub < Len(enq)
      BY <1>2 DEF StoreProdTail, ProducersHold
    <2> QED
      BY <1>1, <1>2, <2>1 DEF CursorsInOrder, StoreProdTail, Numbers
  <1>5. RoomSeen'
    BY <1>1, <1>2, Sides DEF RoomSeen, StoreProdTail, Numbers
  <1>6. EntrySeen'
    BY <1>1, <1>2, Sides DEF EntrySeen, StoreProdTail, Numbers
  <1>7. ProducersHold'
    BY <1>1, <1>2, Sides DEF ProducersHold, StoreProdTail, Numbers
  <1>8. ConsumersHold'
    BY <1>1, <1>2, Sides DEF ConsumersHold, StoreProdTail, Numbers
  <1>9. Contents'
    BY <1>1, <1>2, Sides DEF Contents, StoreProdTail, Numbers
  <1>10. Copied'
    BY <1>1, <1>2, Sides DEF Copied, StoreProdTail, Numbers
  <1>11. Alone'
    BY <1>1, <1>2, Sides DEF Alone, StoreProdTail, Numbers
  <1> QED
    BY <1>3, <1>4, <1>5, <1>6, <1>7, <1>8, <1>9, <1>10, <1>11 DEF Core

\* A fresh load of cons.head sees the next entry to take.
LEMMA CoreLoadConsHead ==
  ASSUME TypeOK, TypeOK', Core, NEW c \in Consumers, LoadConsHead(c), ~stale'
  PROVE  Core'
  <1> USE DEF Goto, ringVars, prodVars, histVars, Holding
  <1>1. Numbers /\ Numbers'
    BY NumbersTyped, NumbersTypedNext, TypeOK, TypeOK', Zenon
  <1>2. Wrapped /\ CursorsInOrder /\ RoomSeen /\ EntrySeen /\ ProducersHold
        /\ ConsumersHold /\ Contents /\ Copied /\ Alone
    BY DEF Core
  <1>3. Wrapped'
    BY <1>1, <1>2, Sides DEF Wrapped, LoadConsHead, Numbers
  <1>4. CursorsInOrder'
    BY <1>1, <1>2, Sides DEF CursorsInOrder, LoadConsHead, Numbers
  <1>5. RoomSeen'
    BY <1>1, <1>2, Sides DEF RoomSeen, LoadConsHead, Numbers
  <1>6. EntrySeen'
    BY <1>1, <1>2, Sides DEF EntrySeen, LoadConsHead, Numbers
  <1>7. ProducersHold'
    BY <1>1, <1>2, Sides DEF ProducersHold, LoadConsHead, Numbers
  <1>8. ConsumersHold'
    BY <1>1, <1>2, Sides DEF ConsumersHold, LoadConsHead, Numbers
  <1>9. Contents'
    BY <1>1, <1>2, Sides DEF Contents, LoadConsHead, Numbers
  <1>10. Copied'
    BY <1>1, <1>2, Sides DEF Copied, LoadConsHead, Numbers
  <1>11. Alone'
    BY <1>1, <1>2, Sides DEF Alone, LoadConsHead, Numbers
  <1> QED
    BY <1>3, <1>4, <1>5, <1>6, <1>7, <1>8, <1>9, <1>10, <1>11 DEF Core

\* A dequeue that finds nothing leaves the ring alone.
LEMMA CoreDequeueEmpty ==
  ASSUME TypeOK, TypeOK', Core, NEW c \in Consumers, DequeueEmpty(c), ~stale'
  PROVE  Core'
  <1> USE DEF Goto, ringVars, prodVars, histVars, Holding
  <1>1. Numbers /\ Numbers'
    BY NumbersTyped, NumbersTypedNext, TypeOK, TypeOK', Zenon
  <1>2. Wrapped /\ CursorsInOrder /\ RoomSeen /\ EntrySeen /\ ProducersHold
        /\ ConsumersHold /\ Contents /\ Copied /\ Alone
    BY DEF Core
  <1>3. Wrapped'
    BY <1>1, <1>2, Sides DEF Wrapped, DequeueEmpty, Numbers
  <1>4. CursorsInOrder'
    BY <1>1, <1>2, Sides DEF CursorsInOrder, DequeueEmpty, Numbers
  <1>5. RoomSeen'
    BY <1>1, <1>2, Sides DEF RoomSeen, DequeueEmpty, Numbers
  <1>6. EntrySeen'
    BY <1>1, <1>2, Sides DEF EntrySeen, DequeueEmpty, Numbers
  <1>7. ProducersHold'
    BY <1>1, <1>2, Sides DEF ProducersHold, DequeueEmpty, Numbers
  <1>8. ConsumersHold'
    BY <1>1, <1>2, Sides DEF ConsumersHold, DequeueEmpty, Numbers
  <1>9. Contents'
    BY <1>1, <1>2, Sides DEF Contents, DequeueEmpty, Numbers
  <1>10. Copied'
    BY <1>1, <1>2, Sides DEF Copied, DequeueEmpty, Numbers
  <1>11. Alone'
    BY <1>1, <1>2, Sides DEF Alone, DequeueEmpty, Numbers
  <1> QED
    BY <1>3, <1>4, <1>5, <1>6, <1>7, <1>8, <1>9, <1>10, <1>11 DEF Core

\* An entry a consumer saw stays there for consumers to take.
LEMMA CoreDequeueSome ==
  ASSUME TypeOK, TypeOK', Core, NEW c \in Consumers, DequeueSome(c), ~stale'
  PROVE  Core'
  <1> USE DEF Goto, ringVars, prodVars, histVars, Holding
  <1>1. Numbers /\ Numbers'
    BY NumbersTyped, NumbersTypedNext, TypeOK, TypeOK', Zenon
  <1>2. Wrapped /\ CursorsInOrder /\ RoomSeen /\ EntrySeen /\ ProducersHold
        /\ ConsumersHold /\ Contents /\ Copied /\ Alone
    BY DEF Core
  <1>3. Wrapped'
    BY <1>1, <1>2, Sides DEF Wrapped, DequeueSome, Numbers
  <1>4. CursorsInOrder'
    BY <1>1, <1>2, Sides DEF CursorsInOrder, DequeueSome, Numbers
  <1>5. RoomSeen'
    BY <1>1, <1>2, Sides DEF RoomSeen, DequeueSome, Numbers
  <1>6. EntrySeen'
    <2>1. Slot(abs[c]) # Slot(nPub)
      BY <1>1, <1>2, Sides DEF DequeueSome, NoEntry, Wrapped, Numbers
    <2>2. abs[c] # nPub
      BY <2>1
    <2> QED
      BY <1>1, <1>2, <2>2, Sides
      DEF EntrySeen, CursorsInOrder, DequeueSome, Numbers
  <1>7. ProducersHold'
    BY <1>1, <1>2, Sides DEF ProducersHold, DequeueSome, Numbers
  <1>8. ConsumersHold'
    BY <1>1, <1>2, Sides DEF ConsumersHold, DequeueSome, Numbers
  <1>9. Contents'
    BY <1>1, <1>2, Sides DEF Contents, DequeueSome, Numbers
  <1>10. Copied'
    BY <1>1, <1>2, Sides DEF Copied, DequeueSome, Numbers
  <1>11. Alone'
    BY <1>1, <1>2, Sides DEF Alone, DequeueSome, Numbers
  <1> QED
    BY <1>3, <1>4, <1>5, <1>6, <1>7, <1>8, <1>9, <1>10, <1>11 DEF Core

\* A failed compare-and-set starts over.
LEMMA CoreMcCmpSetFails ==
  ASSUME TypeOK, TypeOK', Core, NEW c \in Consumers, McCmpSetFails(c), ~stale'
  PROVE  Core'
  <1> USE DEF Goto, ringVars, prodVars, histVars, Holding
  <1>1. Numbers /\ Numbers'
    BY NumbersTyped, NumbersTypedNext, TypeOK, TypeOK', Zenon
  <1>2. Wrapped /\ CursorsInOrder /\ RoomSeen /\ EntrySeen /\ ProducersHold
        /\ ConsumersHold /\ Contents /\ Copied /\ Alone
    BY DEF Core
  <1>3. Wrapped'
    BY <1>1, <1>2, Sides DEF Wrapped, McCmpSetFails, Numbers
  <1>4. CursorsInOrder'
    BY <1>1, <1>2, Sides DEF CursorsInOrder, McCmpSetFails, Numbers
  <1>5. RoomSeen'
    BY <1>1, <1>2, Sides DEF RoomSeen, McCmpSetFails, Numbers
  <1>6. EntrySeen'
    BY <1>1, <1>2, Sides DEF EntrySeen, McCmpSetFails, Numbers
  <1>7. ProducersHold'
    BY <1>1, <1>2, Sides DEF ProducersHold, McCmpSetFails, Numbers
  <1>8. ConsumersHold'
    BY <1>1, <1>2, Sides DEF ConsumersHold, McCmpSetFails, Numbers
  <1>9. Contents'
    BY <1>1, <1>2, Sides DEF Contents, McCmpSetFails, Numbers
  <1>10. Copied'
    BY <1>1, <1>2, Sides DEF Copied, McCmpSetFails, Numbers
  <1>11. Alone'
    BY <1>1, <1>2, Sides DEF Alone, McCmpSetFails, Numbers
  <1> QED
    BY <1>3, <1>4, <1>5, <1>6, <1>7, <1>8, <1>9, <1>10, <1>11 DEF Core

\* A consumer stops waiting only when it is the oldest one.
LEMMA CoreMcWaitTail ==
  ASSUME TypeOK, TypeOK', Core, NEW c \in Consumers, McWaitTail(c), ~stale'
  PROVE  Core'
  <1> USE DEF Goto, ringVars, prodVars, histVars, Holding
  <1>1. Numbers /\ Numbers'
    BY NumbersTyped, NumbersTypedNext, TypeOK, TypeOK', Zenon
  <1>2. Wrapped /\ CursorsInOrder /\ RoomSeen /\ EntrySeen /\ ProducersHold
        /\ ConsumersHold /\ Contents /\ Copied /\ Alone
    BY DEF Core
  <1>3. Wrapped'
    BY <1>1, <1>2, Sides DEF Wrapped, McWaitTail, Numbers
  <1>4. CursorsInOrder'
    BY <1>1, <1>2, Sides DEF CursorsInOrder, McWaitTail, Numbers
  <1>5. RoomSeen'
    BY <1>1, <1>2, Sides DEF RoomSeen, McWaitTail, Numbers
  <1>6. EntrySeen'
    BY <1>1, <1>2, Sides DEF EntrySeen, McWaitTail, Numbers
  <1>7. ProducersHold'
    BY <1>1, <1>2, Sides DEF ProducersHold, McWaitTail, Numbers
  <1>8. ConsumersHold'
    <2>1. Holding(c) /\ Slot(nRel) = Slot(abs[c])
      BY <1>1, <1>2, Sides DEF McWaitTail, OwnTurn, Wrapped, Numbers
    <2>2. nRel <= abs[c] /\ abs[c] < nRel + Size
      BY <1>1, <1>2, <2>1, Sides, SizeFacts
      DEF ConsumersHold, CursorsInOrder, Numbers
    <2>3. abs[c] = nRel
      BY <1>1, <2>1, <2>2, Sides, SlotInjective DEF Numbers
    <2> QED
      BY <1>1, <1>2, <2>3, Sides DEF ConsumersHold, McWaitTail, Numbers
  <1>9. Contents'
    BY <1>1, <1>2, Sides DEF Contents, McWaitTail, Numbers
  <1>10. Copied'
    BY <1>1, <1>2, Sides DEF Copied, McWaitTail, Numbers
  <1>11. Alone'
    BY <1>1, <1>2, Sides DEF Alone, McWaitTail, Numbers
  <1> QED
    BY <1>3, <1>4, <1>5, <1>6, <1>7, <1>8, <1>9, <1>10, <1>11 DEF Core

\* Moving cons.head takes one published entry nobody else holds.
LEMMA CoreTake ==
  ASSUME TypeOK, TypeOK', Core, NEW c \in Consumers, pc[c] = "set_head", TakeEntry(c), ~stale'
  PROVE  Core'
  <1> USE DEF Goto, ringVars, prodVars, histVars, Holding
  <1>1. Numbers /\ Numbers'
    BY NumbersTyped, NumbersTypedNext, TypeOK, TypeOK', Zenon
  <1>2. Wrapped /\ CursorsInOrder /\ RoomSeen /\ EntrySeen /\ ProducersHold
        /\ ConsumersHold /\ Contents /\ Copied /\ Alone
    BY DEF Core
  <1>a. abs[c] = nTake /\ nTake < nPub
    BY <1>1, <1>2, Sides DEF TakeEntry, EntrySeen, Numbers
  <1>b. /\ pc' = [pc EXCEPT ![c] = "copy"] /\ nTake' = nTake + 1
        /\ UNCHANGED <<prod, ring, loc, msg, enq, deq, nPub, nRel, abs>>
        /\ cons' = [cons EXCEPT !.head = NextIndex(loc[c])]
    BY DEF TakeEntry
  <1>c. /\ pc'[c] = "copy"
        /\ \A t \in Threads : t # c => pc'[t] = pc[t]
    BY <1>1, <1>b, Sides DEF Numbers
  <1>3. Wrapped'
    <2>1. NextIndex(loc[c]) = Slot(nTake + 1)
      BY <1>1, <1>2, <1>a, Sides, NextSlot DEF Wrapped, Numbers
    <2>2. cons'.head = NextIndex(loc[c]) /\ cons'.tail = cons.tail
      BY <1>b DEF TypeOK
    <2> QED
      BY <1>2, <1>b, <2>1, <2>2 DEF Wrapped
  <1>4. CursorsInOrder'
    BY <1>1, <1>2, <1>a, <1>b DEF CursorsInOrder, Numbers
  <1>5. RoomSeen'
    BY <1>1, <1>2, Sides DEF RoomSeen, TakeEntry, Numbers
  <1>6. EntrySeen'
    BY <1>1, <1>2, <1>b, Sides DEF EntrySeen, Numbers
  <1>7. ProducersHold'
    BY <1>1, <1>2, Sides DEF ProducersHold, TakeEntry, Numbers
  <1>8. ConsumersHold'
    <2>1. \A d \in Consumers : d # c =>
             /\ pc'[d] = pc[d]
             /\ Holding(d) => abs[d] < nTake /\ nRel <= abs[d]
      BY <1>1, <1>2, <1>c, Sides DEF ConsumersHold
    <2>2. pc'[c] = "copy" /\ nRel <= abs[c] /\ abs[c] < nTake + 1
      BY <1>1, <1>2, <1>a, <1>c DEF CursorsInOrder, Numbers
    <2> QED
      BY <1>1, <1>2, <1>a, <1>b, <2>1, <2>2, Sides DEF ConsumersHold, Numbers
  <1>9. Contents'
    BY <1>1, <1>2, Sides DEF Contents, TakeEntry, Numbers
  <1>10. Copied'
    <2>1. \A i \in DOMAIN deq : deq[i].at \in Nat
      BY CopiedNumbers
    <2>2. \A i \in DOMAIN deq : deq[i].at < nTake + 1 /\ deq[i].at # abs[c]
      BY <1>1, <1>2, <1>a, <2>1 DEF Copied, Numbers
    <2> QED
      BY <1>2, <1>b, <1>c, <2>2, Sides DEF Copied
  <1>11. Alone'
    BY <1>1, <1>2, Sides DEF Alone, TakeEntry, Numbers
  <1> QED
    BY <1>3, <1>4, <1>5, <1>6, <1>7, <1>8, <1>9, <1>10, <1>11 DEF Core

\* A dequeue copies the object that was put into its entry.
LEMMA CoreCopyOut ==
  ASSUME TypeOK, TypeOK', Core, NEW c \in Consumers, CopyOut(c), ~stale'
  PROVE  Core'
  <1> USE DEF Goto, ringVars, prodVars, histVars, Holding
  <1>1. Numbers /\ Numbers'
    BY NumbersTyped, NumbersTypedNext, TypeOK, TypeOK', Zenon
  <1>2. Wrapped /\ CursorsInOrder /\ RoomSeen /\ EntrySeen /\ ProducersHold
        /\ ConsumersHold /\ Contents /\ Copied /\ Alone
    BY DEF Core
  <1>a. /\ Holding(c) /\ nRel <= abs[c] /\ abs[c] < nTake
        /\ DequeueFn # "mc" => abs[c] = nRel
    BY <1>1, <1>2, Sides DEF CopyOut, ConsumersHold, Alone, Numbers
  <1>b. /\ \A t \in Threads : t # c => pc'[t] = pc[t]
        /\ pc'[c] = IF DequeueFn = "mc" THEN "wait_tail" ELSE "set_tail"
    BY <1>1, Sides DEF CopyOut, Numbers
  <1>c. ring[loc[c]].data = enq[abs[c] + 1]
    <2>1. abs[c] \in nRel .. (Len(enq) - 1)
      BY <1>1, <1>2, <1>a, Sides DEF CursorsInOrder, Numbers
    <2>2. \A p \in Producers : pc[p] = "copy" => abs[p] # abs[c]
      BY <1>1, <1>2, <1>a, Sides DEF ProducersHold, CursorsInOrder, Numbers
    <2> QED
      BY <1>2, <2>1, <2>2, Sides DEF Contents, Wrapped
  <1>d. /\ deq \in Seq([at : Nat, data : Message \cup {None}])
        /\ deq' = Append(deq, [at |-> abs[c], data |-> enq[abs[c] + 1]])
    BY <1>c DEF TypeOK, CopyOut
  <1>e. /\ DOMAIN deq' = 1 .. (Len(deq) + 1) /\ DOMAIN deq = 1 .. Len(deq)
        /\ deq'[Len(deq) + 1] = [at |-> abs[c], data |-> enq[abs[c] + 1]]
        /\ \A i \in 1 .. Len(deq) : deq'[i] = deq[i]
        /\ Len(deq) \in Nat
    BY <1>d
  <1>3. Wrapped'
    BY <1>1, <1>2, Sides DEF Wrapped, CopyOut, Numbers
  <1>4. CursorsInOrder'
    BY <1>1, <1>2, Sides DEF CursorsInOrder, CopyOut, Numbers
  <1>5. RoomSeen'
    BY <1>1, <1>2, Sides DEF RoomSeen, CopyOut, Numbers
  <1>6. EntrySeen'
    BY <1>1, <1>2, Sides DEF EntrySeen, CopyOut, Numbers
  <1>7. ProducersHold'
    BY <1>1, <1>2, Sides DEF ProducersHold, CopyOut, Numbers
  <1>8. ConsumersHold'
    <2>1. UNCHANGED <<abs, nRel, nTake>>
      BY DEF CopyOut
    <2>2. \A d \in Consumers : Holding(d)' <=> Holding(d)
      BY <1>a, <1>b, Sides
    <2>3. pc'[c] = "set_tail" => abs[c] = nRel
      BY <1>a, <1>b
    <2> QED
      BY <1>2, <1>b, <2>1, <2>2, <2>3, Sides DEF ConsumersHold
  <1>9. Contents'
    BY <1>1, <1>2, Sides DEF Contents, CopyOut, Numbers
  <1>10. Copied'
    <2>1. UNCHANGED <<abs, enq, nTake>>
      BY DEF CopyOut
    <2>2. \A i \in DOMAIN deq : deq[i].at # abs[c]
      BY <1>2 DEF CopyOut, Copied
    <2>3. \A i \in DOMAIN deq' : /\ deq'[i].at < nTake
                                 /\ deq'[i].data = enq[deq'[i].at + 1]
      BY <1>2, <1>a, <1>e DEF Copied
    <2>4. \A i, j \in DOMAIN deq' : i # j => deq'[i].at # deq'[j].at
      BY <1>2, <1>e, <2>2 DEF Copied
    <2>5. \A d \in Consumers : pc'[d] = "copy" =>
             \A i \in DOMAIN deq' : deq'[i].at # abs[d]
      <3> TAKE d \in Consumers
      <3> HAVE pc'[d] = "copy"
      <3>1. d # c /\ pc[d] = "copy"
        BY <1>b, Sides
      <3>2. abs[d] # abs[c]
        BY <1>2, <1>a, <3>1 DEF ConsumersHold
      <3>3. \A i \in DOMAIN deq : deq[i].at # abs[d]
        BY <1>2, <3>1 DEF Copied
      <3> QED
        BY <1>e, <3>2, <3>3
    <2> QED
      BY <2>1, <2>3, <2>4, <2>5 DEF Copied
  <1>11. Alone'
    BY <1>1, <1>2, Sides DEF Alone, CopyOut, Numbers
  <1> QED
    BY <1>3, <1>4, <1>5, <1>6, <1>7, <1>8, <1>9, <1>10, <1>11 DEF Core

\* Moving cons.tail gives back exactly the oldest entry taken.
LEMMA CoreStoreConsTail ==
  ASSUME TypeOK, TypeOK', Core, NEW c \in Consumers, StoreConsTail(c), ~stale'
  PROVE  Core'
  <1> USE DEF Goto, ringVars, prodVars, histVars, Holding
  <1>1. Numbers /\ Numbers'
    BY NumbersTyped, NumbersTypedNext, TypeOK, TypeOK', Zenon
  <1>2. Wrapped /\ CursorsInOrder /\ RoomSeen /\ EntrySeen /\ ProducersHold
        /\ ConsumersHold /\ Contents /\ Copied /\ Alone
    BY DEF Core
  <1>a. abs[c] = nRel /\ nRel < nTake
    BY <1>2 DEF StoreConsTail, ConsumersHold
  <1>3. Wrapped'
    <2>1. NextIndex(loc[c]) = Slot(nRel + 1)
      BY <1>1, <1>2, <1>a, Sides, NextSlot DEF Wrapped, Numbers
    <2>2. cons'.tail = NextIndex(loc[c]) /\ cons'.head = cons.head
      BY DEF TypeOK, StoreConsTail
    <2> QED
      BY <1>2, <2>1, <2>2 DEF Wrapped, StoreConsTail
  <1>4. CursorsInOrder'
    BY <1>1, <1>2, <1>a, SizeFacts DEF CursorsInOrder, StoreConsTail, Numbers
  <1>5. RoomSeen'
    <2>1. \A p \in Producers : pc'[p] = pc[p]
      BY <1>1, Sides DEF StoreConsTail, Numbers
    <2> QED
      BY <1>1, <1>2, <2>1, SizeFacts, Sides DEF RoomSeen, StoreConsTail, Numbers
  <1>6. EntrySeen'
    BY <1>1, <1>2, Sides DEF EntrySeen, StoreConsTail, Numbers
  <1>7. ProducersHold'
    BY <1>1, <1>2, Sides DEF ProducersHold, StoreConsTail, Numbers
  <1>8. ConsumersHold'
    BY <1>1, <1>2, Sides DEF ConsumersHold, StoreConsTail, Numbers
  <1>9. Contents'
    BY <1>1, <1>2, Sides DEF Contents, StoreConsTail, Numbers
  <1>10. Copied'
    BY <1>1, <1>2, Sides DEF Copied, StoreConsTail, Numbers
  <1>11. Alone'
    BY <1>1, <1>2, Sides DEF Alone, StoreConsTail, Numbers
  <1> QED
    BY <1>3, <1>4, <1>5, <1>6, <1>7, <1>8, <1>9, <1>10, <1>11 DEF Core

\* The first state satisfies the core.
LEMMA CoreInit == Init => Core
  <1> SUFFICES ASSUME Init
               PROVE  Core
    OBVIOUS
  <1>1. Slot(0) = 0
    BY SizeFacts DEF Slot
  <1>2. Len(enq) = 0 /\ Len(deq) = 0 /\ DOMAIN deq = {}
    BY DEF Init
  <1>3. \A t \in Threads : pc[t] = "idle" /\ abs[t] = 0 /\ loc[t] = 0
    BY DEF Init
  <1>4. Wrapped
    BY <1>1, <1>2, <1>3 DEF Init, Wrapped
  <1>5. CursorsInOrder
    BY <1>2, SizeFacts DEF Init, CursorsInOrder
  <1>6. RoomSeen /\ EntrySeen /\ ProducersHold /\ ConsumersHold
    BY <1>2, <1>3, Sides DEF Init, RoomSeen, EntrySeen, ProducersHold, ConsumersHold, Holding
  <1>7. Contents /\ Copied
    BY <1>2, <1>3, Sides DEF Init, Contents, Copied
  <1>8. Alone
    BY <1>2, <1>3, Sides DEF Init, Alone, Holding
  <1> QED
    BY <1>4, <1>5, <1>6, <1>7, <1>8 DEF Core

\* Every step of a producer keeps the core, as long as heads stay fresh.
LEMMA CoreProducer ==
  ASSUME TypeOK, TypeOK', Core, NEW p \in Producers, ProducerStep(p), ~stale'
  PROVE  Core'
  <1>1. CASE SpStoreHead(p) \/ MpCmpSet(p)
    <2>1. pc[p] = "set_head" /\ ReserveEntry(p)
      BY <1>1 DEF SpStoreHead, MpCmpSet
    <2> QED
      BY <2>1, CoreReserve
  <1> QED
    BY <1>1, CoreEnqueueCall, CoreLoadProdHead, CoreEnqueueFull,
       CoreEnqueueRoom, CoreMpCmpSetFails, CoreCopyIn, CoreMpWaitTail,
       CoreStoreProdTail DEF ProducerStep

\* Every step of a consumer keeps the core, as long as heads stay fresh.
LEMMA CoreConsumer ==
  ASSUME TypeOK, TypeOK', Core, NEW c \in Consumers, ConsumerStep(c), ~stale'
  PROVE  Core'
  <1>1. CASE ScStoreHead(c) \/ McCmpSet(c)
    <2>1. pc[c] = "set_head" /\ TakeEntry(c)
      BY <1>1 DEF ScStoreHead, McCmpSet
    <2> QED
      BY <2>1, CoreTake
  <1> QED
    BY <1>1, CoreLoadConsHead, CoreDequeueEmpty, CoreDequeueSome,
       CoreMcCmpSetFails, CoreCopyOut, CoreMcWaitTail, CoreStoreConsTail
    DEF ConsumerStep

\* The history variable stale only ever becomes TRUE.
LEMMA StaleStays ==
  ASSUME TypeOK, CallStep
  PROVE  stale => stale'
  <1> USE DEF histVars
  <1>1. ASSUME NEW p \in Producers, ProducerStep(p)
        PROVE  stale => stale'
    BY <1>1 DEF ProducerStep, EnqueueCall, LoadProdHead, EnqueueFull, EnqueueRoom,
       SpStoreHead, MpCmpSet, ReserveEntry, MpCmpSetFails, CopyIn, MpWaitTail,
       StoreProdTail
  <1>2. ASSUME NEW c \in Consumers, ConsumerStep(c)
        PROVE  stale => stale'
    BY <1>2 DEF ConsumerStep, LoadConsHead, DequeueEmpty, DequeueSome, ScStoreHead,
       McCmpSet, TakeEntry, McCmpSetFails, CopyOut, McWaitTail, StoreConsTail
  <1> QED
    BY <1>1, <1>2 DEF CallStep

\* A single producer and a single consumer always use a fresh index.
LEMMA StaleStep ==
  ASSUME TypeOK, Fresh(Core), StaleNeedsMany, CallStep
  PROVE  StaleNeedsMany'
  <1> SUFFICES ASSUME stale', EnqueueFn # "mp", DequeueFn # "mc"
               PROVE  FALSE
    BY DEF StaleNeedsMany
  <1> USE DEF histVars
  <1>1. ~stale /\ Alone
    BY DEF StaleNeedsMany, Fresh, Core
  <1>2. ASSUME NEW p \in Producers, ProducerStep(p)
        PROVE  ~stale'
    BY <1>1, <1>2 DEF ProducerStep, EnqueueCall, LoadProdHead, EnqueueFull,
       EnqueueRoom, SpStoreHead, MpCmpSet, ReserveEntry, MpCmpSetFails, CopyIn,
       MpWaitTail, StoreProdTail, Alone
  <1>3. ASSUME NEW c \in Consumers, ConsumerStep(c)
        PROVE  ~stale'
    BY <1>1, <1>3 DEF ConsumerStep, LoadConsHead, DequeueEmpty, DequeueSome,
       ScStoreHead, McCmpSet, TakeEntry, McCmpSetFails, CopyOut, McWaitTail,
       StoreConsTail, Alone
  <1> QED
    BY <1>2, <1>3 DEF CallStep

\* The invariant holds initially and every step keeps it.
LEMMA IInvInit == Init => IInv
  <1> QED
    BY TypeInit, CoreInit DEF Init, IInv, Fresh, StaleNeedsMany

\* Every step keeps the invariant.
LEMMA IInvStep == IInv /\ [CallStep]_callVars => IInv'
  <1> SUFFICES ASSUME IInv, [CallStep]_callVars
               PROVE  IInv'
    OBVIOUS
  <1>1. TypeOK'
    BY TypeStep DEF IInv
  <1>2. CASE UNCHANGED callVars
    BY <1>1, <1>2 DEF callVars, IInv, Fresh, Core, StaleNeedsMany, Wrapped,
       CursorsInOrder, RoomSeen, EntrySeen, ProducersHold, ConsumersHold,
       Contents, Copied, Alone, Holding
  <1>3. CASE CallStep
    <2>1. StaleNeedsMany'
      BY <1>3, StaleStep DEF IInv
    <2>2. ASSUME ~stale'
          PROVE  Core'
      <3>1. Core
        BY <1>3, <2>2, StaleStays DEF IInv, Fresh
      <3> QED
        BY <1>1, <1>3, <2>2, <3>1, CoreProducer, CoreConsumer DEF CallStep, IInv
    <2> QED
      BY <1>1, <2>1, <2>2 DEF IInv, Fresh
  <1> QED
    BY <1>2, <1>3

\* The invariant is one: it holds in every state of every behaviour.
THEOREM Invariance == Spec => []IInv
  <1> QED
    BY IInvInit, IInvStep, QueriesAside, PTL DEF Spec

-----------------------------------------------------------------------------
(* What follows from the invariant                                         *)

\* Two threads that hold entries hold different ones.
LEMMA CoreExclusive ==
  ASSUME TypeOK, Core
  PROVE  EntryExclusive
  <1> SUFFICES ASSUME NEW t \in Threads, NEW u \in Threads,
                      t # u, Holding(t), Holding(u)
               PROVE  loc[t] # loc[u]
    BY DEF EntryExclusive
  <1>1. Numbers
    BY NumbersTyped
  <1>2. /\ nRel <= abs[t] /\ abs[t] < nRel + Size
        /\ nRel <= abs[u] /\ abs[u] < nRel + Size
    BY <1>1, Sides, SizeFacts
    DEF Core, CursorsInOrder, ProducersHold, ConsumersHold, Threads, Numbers
  <1>3. abs[t] # abs[u]
    BY <1>1, Sides
    DEF Core, CursorsInOrder, ProducersHold, ConsumersHold, Threads, Numbers
  <1>4. Slot(abs[t]) # Slot(abs[u])
    <2>1. abs[t] < abs[u] + Size /\ abs[u] < abs[t] + Size
      BY <1>1, <1>2, SizeFacts DEF Numbers
    <2>2. CASE abs[t] < abs[u]
      BY <1>1, <1>3, <2>1, <2>2, SlotInjective DEF Numbers
    <2>3. CASE abs[u] < abs[t]
      BY <1>1, <1>3, <2>1, <2>3, SlotInjective DEF Numbers
    <2> QED
      BY <1>1, <1>3, <2>2, <2>3 DEF Numbers
  <1> QED
    BY <1>4 DEF Core, Wrapped

\* What was delivered was enqueued, and only once.
LEMMA CoreDelivered ==
  ASSUME TypeOK, Core
  PROVE  DeliveredOnce
  <1>1. \A i \in DOMAIN deq : deq[i].at < Len(enq)
    BY CopiedNumbers, NumbersTyped DEF Core, Copied, CursorsInOrder, Numbers
  <1> QED
    BY <1>1 DEF Core, Copied, DeliveredOnce

\* No cursor overtakes another one and at most Size - 1 entries are in use,
\* for any number of producers and consumers, until a head is moved from an
\* outdated index.
THEOREM CursorsOrdered == Spec => []FreshCursorsInOrder
  <1>1. IInv => FreshCursorsInOrder
    BY DEF IInv, Fresh, Core, FreshCursorsInOrder
  <1> QED
    BY <1>1, Invariance, PTL

\* Under the same condition no two threads ever touch the same entry.
THEOREM EntriesExclusive == Spec => []FreshEntryExclusive
  <1>1. IInv => FreshEntryExclusive
    BY CoreExclusive DEF IInv, Fresh, FreshEntryExclusive
  <1> QED
    BY <1>1, Invariance, PTL

\* Under the same condition every dequeue returns what was enqueued, once.
THEOREM DeliveredExactly == Spec => []FreshDeliveredOnce
  <1>1. IInv => FreshDeliveredOnce
    BY CoreDelivered DEF IInv, Fresh, FreshDeliveredOnce
  <1> QED
    BY <1>1, Invariance, PTL

\* With one producer (sp) and one consumer (sc) the condition always holds,
\* so the three properties are unconditional.
THEOREM SingleSafe ==
  ASSUME EnqueueFn # "mp", DequeueFn # "mc"
  PROVE  Spec => [](CursorsInOrder /\ EntryExclusive /\ DeliveredOnce)
  <1>1. IInv => CursorsInOrder /\ EntryExclusive /\ DeliveredOnce
    BY CoreExclusive, CoreDelivered DEF IInv, Fresh, Core, StaleNeedsMany
  <1> QED
    BY <1>1, Invariance, PTL

-----------------------------------------------------------------------------
(* Buffers                                                                 *)

\* A buffer, of the ring or of a caller, is as large as what is said of it and
\* of its content.
Fits ==
    /\ \A i \in Index : ring[i].content_length <= ring[i].size
    /\ \A c \in Consumers : /\ out[c].size <= out[c].cap
                            /\ out[c].content_length <= out[c].cap

\* The buffers the ring and the callers begin with are.
LEMMA FitsInit == Init => Fits
  <1>1. BufSize \in Nat /\ OutSize \in Nat
    BY RingAssumption, Zenon DEF RingAssumption
  <1> QED
    BY <1>1 DEF Init, Fits

\* A copy into the ring makes a buffer that is too small grow; a copy out of
\* it replaces the caller's, and leaves the size the caller gave it.
LEMMA FitsStep == TypeOK /\ Fits /\ [CallStep]_callVars => Fits'
  <1> SUFFICES ASSUME TypeOK, Fits, [CallStep]_callVars
               PROVE  Fits'
    OBVIOUS
  <1>1. CASE ring' = ring /\ out' = out
    BY <1>1 DEF Fits
  <1>2. ASSUME NEW p \in Producers, CopyIn(p)
        PROVE  Fits'
    <2>1. /\ loc[p] \in Index /\ ring \in [Index -> Entry]
          /\ pc[p] = "copy" /\ msg[p] \in Message
      BY <1>2, Sides DEF TypeOK, CopyIn
    <2>2. msg[p].size \in Nat
      BY <2>1, RingAssumption DEF RingAssumption, Message
    <2>3. ring[loc[p]].size \in Nat
      BY <2>1 DEF Entry
    <2>4. ring' = [ring EXCEPT ![loc[p]] = Filled(ring[loc[p]], msg[p])] /\ out' = out
      BY <1>2 DEF CopyIn
    <2>5. Filled(ring[loc[p]], msg[p]).content_length
             <= Filled(ring[loc[p]], msg[p]).size
      BY <2>2, <2>3 DEF Filled
    <2> QED
      BY <2>1, <2>4, <2>5 DEF Fits
  <1>3. ASSUME NEW c \in Consumers, CopyOut(c)
        PROVE  Fits'
    <2>1. loc[c] \in Index /\ ring \in [Index -> Entry] /\ out \in [Consumers -> OutEntry]
      BY Sides DEF TypeOK
    <2>2. /\ ring[loc[c]].size \in Nat /\ ring[loc[c]].content_length \in Nat
          /\ ring[loc[c]].content_length <= ring[loc[c]].size
      BY <2>1 DEF Entry, Fits
    <2>3. out[c].size \in Nat /\ out[c].cap \in Nat /\ out[c].size <= out[c].cap
      BY <2>1 DEF OutEntry, Fits
    <2>4. out' = [out EXCEPT ![c] = Received(out[c], ring[loc[c]])] /\ ring' = ring
      BY <1>3 DEF CopyOut, ringVars
    <2>5. LET r == Received(out[c], ring[loc[c]])
          IN  r.size <= r.cap /\ r.content_length <= r.cap
      BY <2>2, <2>3 DEF Received
    <2> QED
      BY <2>1, <2>4, <2>5 DEF Fits
  <1>4. ASSUME NEW p \in Producers, ProducerStep(p), ~CopyIn(p)
        PROVE  ring' = ring /\ out' = out
    BY <1>4 DEF ProducerStep, EnqueueCall, LoadProdHead, EnqueueFull, EnqueueRoom,
       SpStoreHead, MpCmpSet, ReserveEntry, MpCmpSetFails, MpWaitTail, StoreProdTail,
       ringVars
  <1>5. ASSUME NEW c \in Consumers, ConsumerStep(c), ~CopyOut(c)
        PROVE  ring' = ring /\ out' = out
    BY <1>5 DEF ConsumerStep, LoadConsHead, DequeueEmpty, DequeueSome, ScStoreHead,
       McCmpSet, TakeEntry, McCmpSetFails, McWaitTail, StoreConsTail, ringVars
  <1> QED
    BY <1>1, <1>2, <1>3, <1>4, <1>5 DEF CallStep, callVars

\* A dequeue never writes past the buffer out->data points to, for objects of
\* any sizes in any order.  Each copy is one step: EntriesExclusive says that
\* it is alone with its entry.
THEOREM CopiesFit == Spec => []CopyOutFits
  <1>1. Fits => CopyOutFits
    BY DEF Fits, CopyOutFits
  <1> QED
    BY <1>1, FitsInit, FitsStep, TypeCorrect, QueriesAside, PTL DEF Spec

-----------------------------------------------------------------------------
(* What a call that returned 0 has done                                    *)

\* A call in progress is about the caller's next object.
SendsNext(p) == pc[p] # "idle" => msg[p].src = p /\ msg[p].seq = acked[p]

\* The object a producer is sending is its next one, and those before it are
\* in the ring or have been.
Sending ==
    /\ \A p \in Producers : SendsNext(p)
    /\ SuccessMeansEnqueued

\* At first nobody sends and nothing was accepted.
LEMMA SendingInit == Init => Sending
  <1> SUFFICES ASSUME Init
               PROVE  Sending
    OBVIOUS
  <1>1. \A p \in Producers : pc[p] = "idle" /\ acked[p] = 0
    BY Sides DEF Init
  <1> QED
    BY <1>1 DEF Sending, SendsNext, SuccessMeansEnqueued

\* Storing prod.tail publishes the object of the producer that stores it.
LEMMA SendingProducer ==
  ASSUME EnqueueFn # "sp3", TypeOK, TypeOK', Core, Sending,
         NEW p \in Producers, ProducerStep(p)
  PROVE  Sending'
  <1>0. /\ pc \in [Threads -> Labels] /\ acked \in [Producers -> Nat]
        /\ nPub \in Nat /\ Len(enq) \in Nat /\ p \in Threads
        /\ msg \in [Producers -> Message \cup {None}]
        /\ Producers \subseteq Threads
    BY Sides DEF TypeOK
  <1> USE DEF Goto, prodVars, histVars
  <1>a. UNCHANGED <<acked, enq, nPub>> => SuccessMeansEnqueued'
    BY DEF Sending, SuccessMeansEnqueued
  <1>1. CASE EnqueueCall(p)
    <2>1. PICK n \in MsgSizes :
             msg' = [msg EXCEPT ![p] = [src |-> p, seq |-> acked[p], size |-> n]]
      BY <1>1 DEF EnqueueCall
    <2>2. UNCHANGED <<acked, enq, nPub>> /\ pc' = [pc EXCEPT ![p] = "load_head"]
      BY <1>1 DEF EnqueueCall
    <2>3. \A q \in Producers : SendsNext(q)'
      BY <1>0, <2>1, <2>2 DEF Sending, SendsNext
    <2> QED
      BY <1>a, <2>2, <2>3 DEF Sending
  <1>2. CASE LoadProdHead(p) \/ EnqueueRoom(p) \/ MpCmpSetFails(p) \/ CopyIn(p)
             \/ MpWaitTail(p)
    <2>1. /\ UNCHANGED <<acked, enq, nPub, msg>> /\ pc[p] # "idle"
          /\ \A q \in Producers : q # p => pc'[q] = pc[q]
      BY <1>0, <1>2 DEF LoadProdHead, EnqueueRoom, MpCmpSetFails, CopyIn, MpWaitTail
    <2> QED
      BY <1>a, <2>1 DEF Sending, SendsNext
  <1>3. CASE EnqueueFull(p)
    <2>1. /\ UNCHANGED <<acked, enq, nPub, msg>> /\ pc[p] # "idle"
          /\ \A q \in Producers : q # p => pc'[q] = pc[q]
      BY <1>0, <1>3 DEF EnqueueFull, ReportsSuccess
    <2> QED
      BY <1>a, <2>1 DEF Sending, SendsNext
  <1>4. CASE SpStoreHead(p) \/ MpCmpSet(p)
    <2>1. /\ pc[p] = "set_head" /\ pc' = [pc EXCEPT ![p] = "copy"]
          /\ enq' = Append(enq, msg[p])
          /\ msg' = msg /\ acked' = acked /\ nPub' = nPub
      BY <1>4 DEF SpStoreHead, MpCmpSet, ReserveEntry
    <2>2. nPub <= Len(enq) /\ enq \in Seq(Message) /\ msg[p] \in Message
      BY <1>0, <2>1 DEF Core, CursorsInOrder, TypeOK
    <2>3. \A k \in 1 .. nPub : enq'[k] = enq[k]
      BY <1>0, <2>1, <2>2
    <2>4. SuccessMeansEnqueued'
      <3> SUFFICES ASSUME NEW q \in Producers, NEW s \in 0 .. (acked[q] - 1)
                   PROVE  \E k \in 1 .. nPub : enq'[k].src = q /\ enq'[k].seq = s
        <4>1. acked' = acked /\ nPub' = nPub
          BY <2>1
        <4> QED
          BY <4>1, ZenonT(60) DEF SuccessMeansEnqueued
      <3>1. PICK k \in 1 .. nPub : enq[k].src = q /\ enq[k].seq = s
        BY DEF Sending, SuccessMeansEnqueued
      <3> QED
        BY <2>3, <3>1
    <2>5. \A q \in Producers : SendsNext(q)'
      BY <1>0, <2>1 DEF Sending, SendsNext
    <2> QED
      BY <2>4, <2>5 DEF Sending
  <1>5. CASE StoreProdTail(p)
    <2>1. /\ pc[p] = "set_tail" /\ pc' = [pc EXCEPT ![p] = "idle"]
          /\ enq' = enq /\ msg' = msg /\ nPub' = nPub + 1
          /\ acked' = [acked EXCEPT ![p] = @ + 1]
      BY <1>5 DEF StoreProdTail
    <2>2. enq[nPub + 1].src = p /\ enq[nPub + 1].seq = acked[p]
      BY <1>0, <2>1 DEF Core, ProducersHold, Holding, Sending, SendsNext
    <2>3. ASSUME NEW q \in Producers, NEW s \in 0 .. (acked'[q] - 1)
          PROVE  \E k \in 1 .. nPub' : enq'[k].src = q /\ enq'[k].seq = s
      <3>1. CASE q = p /\ s = acked[p]
        BY <1>0, <2>1, <2>2, <3>1
      <3>2. CASE ~(q = p /\ s = acked[p])
        <4>1. s \in 0 .. (acked[q] - 1)
          BY <1>0, <2>1, <2>3, <3>2
        <4>2. PICK k \in 1 .. nPub : enq[k].src = q /\ enq[k].seq = s
          BY <4>1 DEF Sending, SendsNext, SuccessMeansEnqueued
        <4> QED
          BY <1>0, <2>1, <4>2
      <3> QED
        BY <3>1, <3>2
    <2> QED
      BY <1>0, <2>1, <2>3 DEF Sending, SendsNext, SuccessMeansEnqueued
  <1> QED
    BY <1>1, <1>2, <1>3, <1>4, <1>5 DEF ProducerStep

\* Consumers change none of this.
LEMMA SendingConsumer ==
  ASSUME TypeOK, Sending, NEW c \in Consumers, ConsumerStep(c)
  PROVE  Sending'
  <1>1. UNCHANGED <<acked, enq, nPub, msg>>
    BY DEF ConsumerStep, LoadConsHead, DequeueEmpty, DequeueSome, ScStoreHead,
       McCmpSet, TakeEntry, McCmpSetFails, CopyOut, McWaitTail, StoreConsTail,
       prodVars, histVars
  <1>2. \A p \in Producers : pc'[p] = pc[p]
    <2>1. \E l \in Labels : pc' = [pc EXCEPT ![c] = l]
      BY DEF ConsumerStep, LoadConsHead, DequeueEmpty, DequeueSome, ScStoreHead,
         McCmpSet, TakeEntry, McCmpSetFails, CopyOut, McWaitTail, StoreConsTail,
         Goto, Labels
    <2> QED
      BY <2>1, Sides DEF TypeOK
  <1> QED
    BY <1>1, <1>2 DEF Sending, SendsNext, SuccessMeansEnqueued

\* Every step, while heads are fresh.
LEMMA SendingStep ==
  ASSUME EnqueueFn # "sp3", IInv, IInv', Fresh(Sending), [CallStep]_callVars
  PROVE  Fresh(Sending)'
  <1> SUFFICES ASSUME ~stale'
               PROVE  Sending'
    BY DEF Fresh
  <1>1. CASE UNCHANGED callVars
    BY <1>1 DEF callVars, Fresh, Sending, SendsNext, SuccessMeansEnqueued
  <1>2. CASE CallStep
    <2>1. TypeOK /\ TypeOK' /\ Core /\ Sending
      BY <1>2, StaleStays DEF IInv, Fresh
    <2> QED
      BY <1>2, <2>1, SendingProducer, SendingConsumer DEF CallStep
  <1> QED
    BY <1>1, <1>2

\* "0: Success; objects enqueued" is true of x_ring_sp_enqueue, its variant 2
\* and x_ring_mp_enqueue, while heads are fresh.  Only x_ring_sp_enqueue3 does
\* not keep it.
THEOREM SuccessIsEnqueued ==
  ASSUME EnqueueFn # "sp3"
  PROVE  Spec => []Fresh(SuccessMeansEnqueued)
  <1>1. Init => Fresh(Sending)
    BY SendingInit DEF Fresh
  <1>2. IInv /\ IInv' /\ Fresh(Sending) /\ [CallStep]_callVars => Fresh(Sending)'
    BY SendingStep
  <1>3. Fresh(Sending) => Fresh(SuccessMeansEnqueued)
    BY DEF Fresh, Sending
  <1> QED
    BY <1>1, <1>2, <1>3, Invariance, QueriesAside, PTL DEF Spec

-----------------------------------------------------------------------------
(* The queries                                                             *)

\* What is free in a ring that holds b - a of its S - 1 objects.
LEMMA FreeOfDifference ==
  ASSUME NEW S \in Nat \ {0}, NEW a \in Nat, NEW b \in Nat, a <= b, b < a + S
  PROVE  ((a % S) - (b % S) - 1) % S = S - 1 - (b - a)
  <1>1. PICK r \in 0 .. (S - 1), s \in 0 .. (S - 1) : r = b % S /\ s = a % S
    BY QuotientRemainder
  <1>2. PICK x \in Int : x = r - s
    OBVIOUS
  <1>3. x % S = b - a
    <2>1. ((b % S) - (a % S)) % S = b - a
      BY RemainderOfDifference
    <2>2. x = (b % S) - (a % S)
      BY <1>1, <1>2, Zenon
    <2> QED
      BY <2>1, <2>2, Zenon
  <1>4. x % S = IF x < 0 THEN x + S ELSE x
    <2>1. -S <= x /\ x < S
      BY <1>2
    <2> QED
      BY <2>1, RemainderAround
  <1>5. PICK y \in Int : y = -x - 1
    OBVIOUS
  <1>6. -S <= y /\ y < S
    BY <1>2, <1>5
  <1>7. y % S = IF y < 0 THEN y + S ELSE y
    BY <1>6, RemainderAround
  <1>8. y % S = S - 1 - (b - a)
    BY ONLY <1>3, <1>4, <1>5, <1>7, x \in Int, y \in Int, a \in Nat, b \in Nat,
       S \in Nat \ {0}
  <1>9. s - r - 1 = y
    BY <1>2, <1>5
  <1> QED
    BY <1>1, <1>8, <1>9, Zenon

\* Between its two loads, and until its next call, a thread is in no call; what
\* it loads is an index, and what it is told are numbers.
QueryIdle ==
    /\ query = [t \in Threads |-> query[t]]
    /\ \A t \in Threads :
          /\ query[t].at # "none" => pc[t] = "idle"
          /\ Asking(t) => query[t].prod_tail \in Index
          /\ query[t].at = "answered" => query[t].free \in Int /\ query[t].count \in Int

\* What the only producer has loaded is still so; what the only consumer has
\* loaded was so after the last entry it gave back.
QueryLoaded ==
    /\ \A p \in Producers : Producers = {p} /\ Asking(p) =>
          query[p].prod_tail = Slot(nPub)
    /\ \A c \in Consumers : Consumers = {c} /\ Asking(c) =>
          \E k \in nRel .. nPub : query[c].prod_tail = Slot(k)

QueryInv == QueryIdle /\ QueryLoaded /\ AnswersHold

\* No thread has asked anything yet.
LEMMA QueryInit == Init => QueryInv
  <1> SUFFICES ASSUME Init
               PROVE  QueryInv
    OBVIOUS
  <1>1. query = [t \in Threads |-> NoQuery]
    BY DEF Init
  <1>2. \A t \in Threads : query[t].at = "none"
    BY <1>1 DEF NoQuery
  <1>3. QueryIdle
    BY <1>1, <1>2 DEF QueryIdle, Asking
  <1>4. QueryLoaded
    BY <1>2, Sides DEF QueryLoaded, Asking
  <1> QED
    BY <1>2, <1>3, <1>4, Sides DEF QueryInv, AnswersHold

\* What the counts allow, and the indexes that stand for them.
LEMMA CountsApart ==
  ASSUME TypeOK, Core
  PROVE  /\ nRel \in Nat /\ nPub \in Nat /\ Size \in Nat \ {0}
         /\ nRel <= nPub /\ nPub < nRel + Size
         /\ prod.tail = Slot(nPub) /\ cons.tail = Slot(nRel)
  <1> QED
    BY NumbersTyped, SizeFacts DEF Core, CursorsInOrder, Wrapped, Numbers

\* The first load of a query.
LEMMA QueryFirst ==
  ASSUME TypeOK, Core, QueryInv, NEW t \in Threads, QueryProd(t)
  PROVE  QueryInv'
  <1>1. /\ pc[t] = "idle" /\ pc' = pc /\ nPub' = nPub /\ nRel' = nRel
        /\ query' = [query EXCEPT ![t] = [at |-> "asking", prod_tail |-> prod.tail]]
    BY DEF QueryProd, callVars
  <1>2. /\ query = [u \in Threads |-> query[u]]
        /\ query'[t].at = "asking" /\ query'[t].prod_tail = Slot(nPub)
        /\ \A u \in Threads : u # t => query'[u] = query[u]
    BY <1>1, CountsApart DEF QueryInv, QueryIdle
  <1>3. QueryIdle'
    <2>1. prod.tail \in Index
      BY DEF TypeOK
    <2>2. query'[t].prod_tail = prod.tail
      BY <1>1, <1>2 DEF QueryInv, QueryIdle
    <2> QED
      BY <1>1, <1>2, <2>1, <2>2 DEF QueryInv, QueryIdle, Asking
  <1>4. QueryLoaded'
    <2>1. nPub \in nRel .. nPub
      BY CountsApart
    <2> QED
      BY <1>1, <1>2, <2>1, Sides DEF QueryInv, QueryLoaded, Asking
  <1>5. AnswersHold'
    BY <1>1, <1>2, Sides DEF QueryInv, AnswersHold
  <1> QED
    BY <1>3, <1>4, <1>5 DEF QueryInv

\* The second load, and the answer.
LEMMA QuerySecond ==
  ASSUME TypeOK, Core, QueryInv, NEW t \in Threads, QueryCons(t)
  PROVE  QueryInv'
  <1> DEFINE pt == query[t].prod_tail
             answer == [at    |-> "answered",
                        full  |-> Full(pt, cons.tail),
                        empty |-> Empty(pt, cons.tail),
                        count |-> Count(pt, cons.tail),
                        free  |-> FreeCount(pt, cons.tail)]
  <1>1. /\ query[t].at = "asking" /\ pc' = pc /\ nPub' = nPub /\ nRel' = nRel
        /\ query' = [query EXCEPT ![t] = answer]
    BY DEF QueryCons, callVars, Asking
  <1>2. /\ query = [u \in Threads |-> query[u]]
        /\ query'[t] = answer
        /\ \A u \in Threads : u # t => query'[u] = query[u]
    BY <1>1 DEF QueryInv, QueryIdle
  <1>3. QueryIdle'
    <2>1. pt \in Int /\ cons.tail \in Int
      BY <1>1, CountsApart, SlotIsIndex DEF QueryInv, QueryIdle, Asking, Index
    <2> HIDE DEF pt
    <2>2. answer.free \in Int /\ answer.count \in Int /\ answer.at = "answered"
      BY <2>1, SizeFacts DEF FreeCount, Count
    <2>3. pc[t] = "idle"
      BY <1>1 DEF QueryInv, QueryIdle
    <2> HIDE DEF answer
    <2> QED
      BY <1>1, <1>2, <2>2, <2>3 DEF QueryInv, QueryIdle, Asking
  <1>4. QueryLoaded'
    BY <1>1, <1>2, Sides DEF QueryInv, QueryLoaded, Asking
  <1>5. ASSUME t \in Producers, Producers = {t}
        PROVE  /\ answer.free <= Size - 1 - (nPub - nRel)
               /\ ~answer.full => nPub - nRel < Size - 1
    <2>1. pt = Slot(nPub) /\ cons.tail = Slot(nRel)
      BY <1>1, <1>5, CountsApart DEF QueryInv, QueryLoaded, Asking
    <2>2. ((nRel % Size) - (nPub % Size) - 1) % Size = Size - 1 - (nPub - nRel)
      BY CountsApart, FreeOfDifference
    <2>3. FreeCount(pt, cons.tail) = Size - 1 - (nPub - nRel)
      BY <2>1, <2>2, Zenon DEF FreeCount, Slot
    <2> HIDE DEF pt
    <2>4. answer.free = FreeCount(pt, cons.tail) /\ answer.full = Full(pt, cons.tail)
      OBVIOUS
    <2>5. Full(pt, cons.tail) <=> FreeCount(pt, cons.tail) = 0
      BY DEF Full
    <2> HIDE DEF answer
    <2> QED
      BY <2>3, <2>4, <2>5, CountsApart
  <1>6. ASSUME t \in Consumers, Consumers = {t}
        PROVE  /\ answer.count <= nPub - nRel
               /\ ~answer.empty => nRel < nPub
    <2>1. PICK k \in nRel .. nPub : pt = Slot(k)
      BY <1>1, <1>6 DEF QueryInv, QueryLoaded, Asking
    <2>2. cons.tail = Slot(nRel) /\ k \in Nat /\ nRel <= k /\ k < nRel + Size
      BY <2>1, CountsApart
    <2>3. Count(pt, cons.tail) = k - nRel
      BY <2>1, <2>2, CountsApart, RemainderOfDifference DEF Count, Slot
    <2>4. ~Empty(pt, cons.tail) => k # nRel
      BY <2>1, <2>2 DEF Empty
    <2> QED
      BY <2>1, <2>2, <2>3, <2>4, CountsApart
  <1> HIDE DEF answer, pt
  <1>7. AnswersHold'
    BY <1>1, <1>2, <1>5, <1>6, Sides DEF QueryInv, AnswersHold
  <1> QED
    BY <1>3, <1>4, <1>7 DEF QueryInv

\* What a step inside a call does to the queries and to the counts they are
\* about.  A thread that steps has none of its own, or gives it up.
LEMMA QueryProducer ==
  ASSUME TypeOK, QueryIdle, NEW p \in Producers, ProducerStep(p)
  PROVE  /\ query'[p].at = "none" /\ QueryIdle'
         /\ \A t \in Threads : t # p => query'[t] = query[t]
         /\ nRel' = nRel /\ nPub' \in {nPub, nPub + 1}
  <1> USE DEF Goto, prodVars, histVars, ringVars
  <1>0. p \in Threads /\ pc \in [Threads -> Labels]
    BY Sides DEF TypeOK
  <1>1. CASE EnqueueCall(p)
    <2>1. query' = [query EXCEPT ![p] = NoQuery] /\ NoQuery.at = "none"
      BY <1>1 DEF EnqueueCall, Forget, NoQuery
    <2>2. pc' = [pc EXCEPT ![p] = "load_head"] /\ nRel' = nRel /\ nPub' = nPub
      BY <1>1 DEF EnqueueCall
    <2> HIDE DEF NoQuery
    <2> QED
      BY <1>0, <2>1, <2>2 DEF QueryIdle, Asking
  <1>2. CASE ~EnqueueCall(p)
    <2>1. /\ query' = query /\ pc[p] # "idle"
          /\ nRel' = nRel /\ nPub' \in {nPub, nPub + 1}
          /\ \A t \in Threads : t # p => pc'[t] = pc[t]
      BY <1>0, <1>2 DEF ProducerStep, LoadProdHead, EnqueueFull, EnqueueRoom,
         SpStoreHead, MpCmpSet, ReserveEntry, MpCmpSetFails, CopyIn, MpWaitTail,
         StoreProdTail
    <2> QED
      BY <1>0, <2>1 DEF QueryIdle, Asking
  <1> QED
    BY <1>1, <1>2

\* The same on the other side.
LEMMA QueryConsumer ==
  ASSUME TypeOK, QueryIdle, NEW c \in Consumers, ConsumerStep(c)
  PROVE  /\ query'[c].at = "none" /\ QueryIdle'
         /\ \A t \in Threads : t # c => query'[t] = query[t]
         /\ nPub' = nPub /\ nRel' \in {nRel, nRel + 1}
  <1> USE DEF Goto, prodVars, histVars, ringVars
  <1>0. c \in Threads /\ pc \in [Threads -> Labels]
    BY Sides DEF TypeOK
  <1>1. CASE LoadConsHead(c)
    <2>1. query' = [query EXCEPT ![c] = NoQuery] /\ NoQuery.at = "none"
      BY <1>1 DEF LoadConsHead, Forget, NoQuery
    <2>2. pc' = [pc EXCEPT ![c] = "check"] /\ nRel' = nRel /\ nPub' = nPub
      BY <1>1 DEF LoadConsHead
    <2> HIDE DEF NoQuery
    <2> QED
      BY <1>0, <2>1, <2>2 DEF QueryIdle, Asking
  <1>2. CASE ~LoadConsHead(c)
    <2>1. /\ query' = query /\ pc[c] # "idle"
          /\ nPub' = nPub /\ nRel' \in {nRel, nRel + 1}
          /\ \A t \in Threads : t # c => pc'[t] = pc[t]
      BY <1>0, <1>2 DEF ConsumerStep, DequeueEmpty, DequeueSome, ScStoreHead,
         McCmpSet, TakeEntry, McCmpSetFails, CopyOut, McWaitTail, StoreConsTail
    <2> QED
      BY <1>0, <2>1 DEF QueryIdle, Asking
  <1> QED
    BY <1>1, <1>2

\* A producer that goes on leaves the consumers at least what they were told
\* of, and the other way round.
LEMMA QueryCall ==
  ASSUME TypeOK, QueryInv, CallStep
  PROVE  QueryInv'
  <1>0. nPub \in Nat /\ nRel \in Nat /\ Size \in Nat
    BY SizeFacts DEF TypeOK
  <1>1. ASSUME NEW p \in Producers, ProducerStep(p)
        PROVE  QueryInv'
    <2>1. /\ query'[p].at = "none" /\ QueryIdle'
          /\ \A t \in Threads : t # p => query'[t] = query[t]
          /\ nRel' = nRel /\ nPub' \in {nPub, nPub + 1}
      BY <1>1, QueryProducer DEF QueryInv
    <2>2. QueryLoaded'
      BY <1>0, <2>1, Sides DEF QueryInv, QueryLoaded, Asking
    <2>3. AnswersHold'
      <3>1. \A c \in Consumers : query'[c] = query[c]
        BY <2>1, Sides
      <3>2. \A q \in Producers : Producers = {q} => query'[q].at # "answered"
        BY <2>1
      <3> QED
        BY <1>0, <2>1, <3>1, <3>2, Sides DEF QueryInv, QueryIdle, AnswersHold
    <2> QED
      BY <2>1, <2>2, <2>3 DEF QueryInv
  <1>2. ASSUME NEW c \in Consumers, ConsumerStep(c)
        PROVE  QueryInv'
    <2>1. /\ query'[c].at = "none" /\ QueryIdle'
          /\ \A t \in Threads : t # c => query'[t] = query[t]
          /\ nPub' = nPub /\ nRel' \in {nRel, nRel + 1}
      BY <1>2, QueryConsumer DEF QueryInv
    <2>2. QueryLoaded'
      BY <1>0, <2>1, Sides DEF QueryInv, QueryLoaded, Asking
    <2>3. AnswersHold'
      <3>1. \A p \in Producers : query'[p] = query[p]
        BY <2>1, Sides
      <3>2. \A d \in Consumers : Consumers = {d} => query'[d].at # "answered"
        BY <2>1
      <3> QED
        BY <1>0, <2>1, <3>1, <3>2, Sides DEF QueryInv, QueryIdle, AnswersHold
    <2> QED
      BY <2>1, <2>2, <2>3 DEF QueryInv
  <1> QED
    BY <1>1, <1>2 DEF CallStep

\* Every step, while heads are fresh.
LEMMA QueryStep ==
  ASSUME IInv, IInv', Fresh(QueryInv), [Next]_vars
  PROVE  Fresh(QueryInv)'
  <1> SUFFICES ASSUME ~stale'
               PROVE  QueryInv'
    BY DEF Fresh
  <1>1. CASE UNCHANGED vars
    <2>1. QueryInv
      BY <1>1 DEF vars, callVars, Fresh
    <2> QED
      BY <1>1, <2>1 DEF vars, callVars, QueryInv, QueryIdle, QueryLoaded,
         AnswersHold, Asking
  <1>2. CASE CallStep
    <2>1. TypeOK /\ QueryInv
      BY <1>2, StaleStays DEF IInv, Fresh
    <2> QED
      BY <1>2, <2>1, QueryCall
  <1>3. ASSUME NEW t \in Queriers, QueryProd(t) \/ QueryCons(t)
        PROVE  QueryInv'
    <2>1. TypeOK /\ Core /\ QueryInv
      BY <1>3 DEF IInv, Fresh, QueryProd, QueryCons, callVars
    <2>2. t \in Threads
      BY RingAssumption, Zenon DEF RingAssumption, Threads
    <2> QED
      BY <1>3, <2>1, <2>2, QueryFirst, QuerySecond
  <1> QED
    BY <1>1, <1>2, <1>3 DEF Next

\* What x_ring_free_count and x_ring_full tell the only producer, and
\* x_ring_count and x_ring_empty the only consumer, holds until its next call,
\* whatever the other side does, also between the two loads of the query.
THEOREM AnswersReliable == Spec => []Fresh(AnswersHold)
  <1>1. Init => Fresh(QueryInv)
    BY QueryInit DEF Fresh
  <1>2. IInv /\ IInv' /\ Fresh(QueryInv) /\ [Next]_vars => Fresh(QueryInv)'
    BY QueryStep
  <1>3. Fresh(QueryInv) => Fresh(AnswersHold)
    BY DEF Fresh, QueryInv
  <1> QED
    BY <1>1, <1>2, <1>3, Invariance, PTL DEF Spec

\* One producer and one consumer can rely on both without any condition.
THEOREM SingleReliable ==
  ASSUME EnqueueFn = "sp", DequeueFn # "mc"
  PROVE  Spec => [](SuccessMeansEnqueued /\ AnswersHold)
  <1>1. IInv => ~stale
    BY DEF IInv, StaleNeedsMany
  <1>2. IInv /\ Fresh(SuccessMeansEnqueued) /\ Fresh(AnswersHold)
           => SuccessMeansEnqueued /\ AnswersHold
    BY <1>1 DEF Fresh
  <1>3. Spec => []Fresh(SuccessMeansEnqueued)
    BY SuccessIsEnqueued
  <1> QED
    BY <1>2, <1>3, AnswersReliable, Invariance, PTL

-----------------------------------------------------------------------------
(* The queue a caller sees                                                 *)

\* The counts of the entries the queue consists of.  There is one consumer.
LEMMA Bounds ==
  ASSUME TypeOK, Core, DequeueFn = "sc"
  PROVE  /\ Len(deq) \in Nat /\ nPub \in Nat /\ nRel \in Nat /\ Len(enq) \in Nat
         /\ nRel <= Len(deq) /\ Len(deq) <= nPub /\ nPub <= Len(enq)
         /\ Len(enq) <= nRel + Size - 1
         /\ \A c \in Consumers : pc[c] = "copy" =>
               Len(deq) = abs[c] /\ Len(deq) < nPub
  <1>1. PICK c \in Consumers : Consumers = {c}
    BY RingAssumption, Zenon DEF RingAssumption
  <1>2. Len(deq) \in Nat
    BY DEF TypeOK
  <1>3. Numbers
    BY NumbersTyped
  <1>4. /\ nTake = IF Holding(c) THEN nRel + 1 ELSE nRel
        /\ Len(deq) = IF pc[c] = "copy" THEN nRel ELSE nTake
    BY <1>1 DEF Core, Alone
  <1>5. pc[c] = "copy" => nRel <= abs[c] /\ abs[c] < nTake
    BY <1>1 DEF Core, ConsumersHold, Holding
  <1>6. abs[c] \in Nat
    BY <1>3, Sides DEF Numbers
  <1>7. CursorsInOrder
    BY DEF Core
  <1> QED
    BY <1>1, <1>2, <1>3, <1>4, <1>5, <1>6, <1>7, SizeFacts
    DEF Numbers, CursorsInOrder, Holding

\* In the first state the queue is empty.
LEMMA QueueInit == Init => Abstract!Init
  <1> SUFFICES ASSUME Init
               PROVE  Abstract!Init
    OBVIOUS
  <1>1. Len(deq) + 1 = 1 /\ nPub = 0 /\ deq = << >>
    BY DEF Init
  <1>2. SubSeq(enq, Len(deq) + 1, nPub) = << >>
    BY <1>1, SubSeqEmpty
  <1>3. [i \in DOMAIN deq |-> deq[i].data] = << >>
    BY <1>1
  <1> QED
    BY <1>2, <1>3 DEF Abstract!Init

\* A reservation is not yet seen.
LEMMA QueueReserve ==
  ASSUME TypeOK, Core, DequeueFn = "sc", NEW p \in Producers,
         pc[p] = "set_head", ReserveEntry(p)
  PROVE  UNCHANGED Abstract!qvars
  <1>1. enq' = Append(enq, msg[p]) /\ UNCHANGED <<deq, nPub>>
    BY DEF ReserveEntry
  <1>2. enq \in Seq(Message) /\ msg[p] \in Message
    BY DEF TypeOK
  <1>3. Len(deq) + 1 \in Nat \ {0} /\ nPub \in 0 .. Len(enq)
    BY Bounds
  <1>4. SubSeq(enq', Len(deq) + 1, nPub) = SubSeq(enq, Len(deq) + 1, nPub)
    BY <1>1, <1>2, <1>3, SubSeqOfAppend
  <1> QED
    BY <1>1, <1>4 DEF Abstract!qvars

\* Storing prod.tail puts the oldest reserved object into a queue with room.
LEMMA QueuePut ==
  ASSUME TypeOK, Core, DequeueFn = "sc", NEW p \in Producers, StoreProdTail(p)
  PROVE  Abstract!Next
  <1> DEFINE q == SubSeq(enq, Len(deq) + 1, nPub)
             x == enq[nPub + 1]
  <1>1. nPub' = nPub + 1 /\ UNCHANGED <<enq, deq>>
    BY DEF StoreProdTail
  <1>2. nPub < Len(enq)
    BY NumbersTyped, Sides DEF StoreProdTail, Core, ProducersHold, Holding, Numbers
  <1>3. enq \in Seq(Message)
    BY DEF TypeOK
  <1>4. nPub \in 0 .. (Len(enq) - 1) /\ Len(deq) + 1 \in 1 .. (nPub + 1)
    BY <1>2, Bounds
  <1>5. q' = Append(q, x)
    BY <1>1, <1>3, <1>4, SubSeqLonger
  <1>6. x \in Message
    BY <1>3, <1>4, ElementOfSeq
  <1>7. Len(q) < Size - 1
    <2>1. \A i \in (Len(deq) + 1) .. nPub : enq[i] \in Message
      BY <1>3, <1>4, ElementOfSeq
    <2>2. Len(q) = IF Len(deq) + 1 <= nPub THEN nPub - (Len(deq) + 1) + 1 ELSE 0
      BY <1>4, <2>1, SubSeqProperties
    <2> HIDE DEF q
    <2> QED
      BY <1>2, <2>2, Bounds, SizeFacts
  <1>8. [i \in DOMAIN deq |-> deq[i].data]' = [i \in DOMAIN deq |-> deq[i].data]
    BY <1>1
  <1> QED
    BY <1>5, <1>6, <1>7, <1>8 DEF Abstract!Next, Abstract!Put

\* The copy of a dequeue takes the oldest object.
LEMMA QueueGet ==
  ASSUME TypeOK, Core, DequeueFn = "sc", NEW c \in Consumers, CopyOut(c)
  PROVE  Abstract!Get
  <1> DEFINE q == SubSeq(enq, Len(deq) + 1, nPub)
             d == [i \in DOMAIN deq |-> deq[i].data]
             L == Len(deq)
             e == [at |-> abs[c], data |-> ring[loc[c]].data]
  <1>1. deq' = Append(deq, e) /\ UNCHANGED <<enq, nPub>> /\ pc[c] = "copy"
    BY DEF CopyOut
  <1>2. L = abs[c] /\ L < nPub
    BY <1>1, Bounds
  <1>3. ring[loc[c]].data = enq[L + 1]
    <2>1. abs[c] \in nRel .. (Len(enq) - 1)
      BY <1>2, Bounds
    <2>2. \A p \in Producers : pc[p] = "copy" => abs[p] # abs[c]
      <3>1. \A p \in Producers : pc[p] = "copy" => nPub <= abs[p]
        BY DEF Core, ProducersHold, Holding
      <3> QED
        BY <1>2, <3>1, Bounds
    <2>3. loc[c] = Slot(abs[c])
      BY Sides DEF Core, Wrapped
    <2> QED
      BY <1>2, <2>1, <2>2, <2>3 DEF Core, Contents
  <1>4. enq \in Seq(Message) /\ L + 1 \in 1 .. Len(enq) /\ nPub \in (L + 1) .. Len(enq)
    BY <1>2, Bounds DEF TypeOK
  <1>5. Head(q) = enq[L + 1] /\ Tail(q) = SubSeq(enq, (L + 1) + 1, nPub)
    BY <1>4, HeadTailOfSubSeq
  <1>6. PICK R : R = [at : Nat, data : Message \cup {None}]
    OBVIOUS
  <1>7. e \in R
    <2>1. loc[c] \in Index /\ ring[loc[c]] \in Entry /\ abs[c] \in Nat
      BY Sides DEF TypeOK
    <2> QED
      BY <1>6, <2>1 DEF Entry
  <1>8. deq \in Seq(R)
    BY <1>6 DEF TypeOK
  <1>9. q' = Tail(q)
    <2>1. Len(deq') + 1 = (L + 1) + 1
      <3> HIDE DEF e
      <3> QED
        BY <1>1, <1>7, <1>8, AppendProperties
    <2> QED
      BY <1>1, <1>5, <2>1
  <1>10. q # << >>
    <2>1. \A i \in (L + 1) .. nPub : enq[i] \in Message
      BY <1>4, ElementOfSeq
    <2>2. Len(q) = nPub - (L + 1) + 1
      BY <1>4, <2>1, SubSeqProperties
    <2> HIDE DEF q
    <2> QED
      BY <1>4, <2>2
  <1>11. d' = Append(d, Head(q))
    <2>1. e.data = Head(q)
      BY <1>3, <1>5
    <2>2. Append(d, e.data)
            = [i \in DOMAIN Append(deq, e) |-> Append(deq, e)[i].data]
      <3> HIDE DEF e
      <3> QED
        BY <1>7, <1>8, DataOfAppend
    <2> QED
      BY <1>1, <2>1, <2>2
  <1> QED
    BY <1>9, <1>10, <1>11 DEF Abstract!Get

\* No other step is seen.
LEMMA QueueStep ==
  ASSUME IInv, [Next]_vars
  PROVE  [~stale' /\ DequeueFn = "sc" => Abstract!Next]_(Abstract!qvars)
  <1> SUFFICES ASSUME ~stale', DequeueFn = "sc"
               PROVE  Abstract!Next \/ UNCHANGED Abstract!qvars
    OBVIOUS
  <1>1. UNCHANGED <<enq, deq, nPub>> => UNCHANGED Abstract!qvars
    BY DEF Abstract!qvars
  <1>2. CASE UNCHANGED callVars
    BY <1>1, <1>2 DEF callVars
  <1>3. CASE CallStep
    <2>1. TypeOK /\ Core
      BY <1>3, StaleStays DEF IInv, Fresh
    <2>2. ASSUME NEW p \in Producers, ProducerStep(p)
          PROVE  Abstract!Next \/ UNCHANGED Abstract!qvars
      <3>1. CASE SpStoreHead(p) \/ MpCmpSet(p)
        <4>1. pc[p] = "set_head" /\ ReserveEntry(p)
          BY <3>1 DEF SpStoreHead, MpCmpSet
        <4> QED
          BY <2>1, <4>1, QueueReserve
      <3>2. CASE StoreProdTail(p)
        BY <2>1, <3>2, QueuePut
      <3>3. CASE ~(SpStoreHead(p) \/ MpCmpSet(p) \/ StoreProdTail(p))
        <4>1. UNCHANGED <<enq, deq, nPub>>
          BY <2>2, <3>3 DEF ProducerStep, EnqueueCall, LoadProdHead, EnqueueFull,
             EnqueueRoom, MpCmpSetFails, CopyIn, MpWaitTail, histVars
        <4> QED
          BY <1>1, <4>1
      <3> QED
        BY <3>1, <3>2, <3>3
    <2>3. ASSUME NEW c \in Consumers, ConsumerStep(c)
          PROVE  Abstract!Next \/ UNCHANGED Abstract!qvars
      <3>1. CASE CopyOut(c)
        BY <2>1, <3>1, QueueGet DEF Abstract!Next
      <3>2. CASE ~CopyOut(c)
        <4>1. UNCHANGED <<enq, deq, nPub>>
          BY <2>3, <3>2 DEF ConsumerStep, LoadConsHead, DequeueEmpty, DequeueSome,
             ScStoreHead, McCmpSet, TakeEntry, McCmpSetFails, McWaitTail,
             StoreConsTail, histVars
        <4> QED
          BY <1>1, <4>1
      <3> QED
        BY <3>1, <3>2
    <2> QED
      BY <1>3, <2>2, <2>3 DEF CallStep
  <1> QED
    BY <1>2, <1>3, QueriesAside

\* With one consumer, and any number of producers whose heads are fresh, the
\* ring is a first in, first out queue of Size - 1 objects.
THEOREM RingImplementsQueue == Spec => Abstract!Init /\ QueueSteps
  <1> QED
    BY QueueInit, QueueStep, Invariance, PTL DEF Spec, QueueSteps

-----------------------------------------------------------------------------
(* Nobody waits for ever on everybody                                      *)

\* Every entry between the two cursors of a side is in a thread's hands.
InHands ==
    /\ \A k \in nPub .. (Len(enq) - 1) : \E p \in Producers : Holding(p) /\ abs[p] = k
    /\ \A k \in nRel .. (nTake - 1) : \E c \in Consumers : Holding(c) /\ abs[c] = k

\* Whoever spins for its turn to move a tail spins for a thread that has it.
TurnComes ==
    /\ \A p \in Producers : pc[p] = "wait_tail" =>
          \E q \in Producers : Holding(q) /\ OwnTurn(q, prod.tail)
    /\ \A c \in Consumers : pc[c] = "wait_tail" =>
          \E d \in Consumers : Holding(d) /\ OwnTurn(d, cons.tail)

\* A producer whose head is still the last one is refused only by a full ring,
\* and then some thread has its turn, or there is an entry to take; such a
\* consumer is refused only if every entry that was published is taken.
RefusedRightly ==
    /\ \A p \in Producers : pc[p] = "check" /\ abs[p] = Len(enq) /\ NoRoom(p) =>
          /\ Len(enq) = nRel + Size - 1
          /\ \/ \E q \in Producers : Holding(q) /\ OwnTurn(q, prod.tail)
             \/ \E c \in Consumers : Holding(c) /\ OwnTurn(c, cons.tail)
             \/ nTake < nPub /\ cons.head # prod.tail
    /\ \A c \in Consumers : pc[c] = "check" /\ abs[c] = nTake /\ NoEntry(c) =>
          nTake = nPub

\* At first there is no such entry.
LEMMA HandsInit == Init => InHands
  <1> SUFFICES ASSUME Init
               PROVE  InHands
    OBVIOUS
  <1>1. Len(enq) = 0 /\ nPub = 0 /\ nTake = 0 /\ nRel = 0
    BY DEF Init
  <1> QED
    BY <1>1 DEF InHands

\* As long as no cursor moves and nobody lets go of an entry.
LEMMA HandsStay ==
  ASSUME InHands, UNCHANGED <<enq, nPub, nTake, nRel>>,
         \A t \in Threads : Holding(t) => Holding(t)' /\ abs'[t] = abs[t]
  PROVE  InHands'
  <1>1. ASSUME NEW k \in nPub .. (Len(enq) - 1)
        PROVE  \E p \in Producers : Holding(p)' /\ abs'[p] = k
    BY <1>1, Sides DEF InHands
  <1>2. ASSUME NEW k \in nRel .. (nTake - 1)
        PROVE  \E c \in Consumers : Holding(c)' /\ abs'[c] = k
    BY <1>2, Sides DEF InHands
  <1> HIDE DEF Holding
  <1> QED
    BY <1>1, <1>2 DEF InHands

\* A reservation is in the hands of who made it, and a tail is moved by who
\* holds the oldest one.
LEMMA HandsProducer ==
  ASSUME TypeOK, Core, InHands, NEW p \in Producers, ProducerStep(p), ~stale'
  PROVE  InHands'
  <1> USE DEF Goto, ringVars, prodVars, histVars
  <1>0. /\ pc \in [Threads -> Labels] /\ abs \in [Threads -> Nat] /\ p \in Threads
        /\ nPub \in Nat /\ Len(enq) \in Nat /\ enq \in Seq(Message)
        /\ Producers \subseteq Threads /\ Consumers \subseteq Threads
        /\ p \notin Consumers
    BY Sides DEF TypeOK
  <1>1. CASE SpStoreHead(p) \/ MpCmpSet(p)
    <2>1. /\ pc[p] = "set_head" /\ pc' = [pc EXCEPT ![p] = "copy"]
          /\ enq' = Append(enq, msg[p]) /\ abs[p] = Len(enq)
          /\ UNCHANGED <<nPub, nTake, nRel, abs>>
      BY <1>1 DEF SpStoreHead, MpCmpSet, ReserveEntry
    <2>2. msg[p] \in Message
      BY <1>0, <2>1 DEF TypeOK
    <2>3. Len(enq') = Len(enq) + 1
      BY <1>0, <2>1, <2>2
    <2>4. \A t \in Threads : Holding(t) => Holding(t)'
      BY <1>0, <2>1 DEF Holding
    <2>5. Holding(p)'
      BY <1>0, <2>1 DEF Holding
    <2>6. ASSUME NEW k \in nPub .. Len(enq)
          PROVE  \E q \in Producers : Holding(q)' /\ abs'[q] = k
      <3>1. CASE k = Len(enq)
        BY <2>1, <2>5, <3>1
      <3>2. CASE k # Len(enq)
        <4>1. PICK q \in Producers : Holding(q) /\ abs[q] = k
          BY <1>0, <3>2 DEF InHands
        <4> QED
          BY <1>0, <2>1, <2>4, <4>1
      <3> QED
        BY <3>1, <3>2
    <2>7. \A k \in nRel .. (nTake - 1) : \E c \in Consumers : Holding(c)' /\ abs'[c] = k
      BY <1>0, <2>1, <2>4 DEF InHands
    <2>8. (Len(enq) + 1) - 1 = Len(enq)
      BY <1>0
    <2> QED
      BY <2>1, <2>3, <2>6, <2>7, <2>8 DEF InHands
  <1>2. CASE StoreProdTail(p)
    <2>1. /\ pc[p] = "set_tail" /\ pc' = [pc EXCEPT ![p] = "idle"]
          /\ nPub' = nPub + 1 /\ UNCHANGED <<enq, nTake, nRel, abs>>
      BY <1>2 DEF StoreProdTail
    <2>2. abs[p] = nPub
      BY <2>1 DEF Core, ProducersHold, Holding
    <2>3. \A t \in Threads : t # p /\ Holding(t) => Holding(t)'
      BY <1>0, <2>1 DEF Holding
    <2>4. ASSUME NEW k \in (nPub + 1) .. (Len(enq) - 1)
          PROVE  \E q \in Producers : Holding(q)' /\ abs'[q] = k
      <3>1. PICK q \in Producers : Holding(q) /\ abs[q] = k
        BY <1>0 DEF InHands
      <3> QED
        BY <1>0, <2>1, <2>2, <2>3, <3>1
    <2>5. \A k \in nRel .. (nTake - 1) : \E c \in Consumers : Holding(c)' /\ abs'[c] = k
      BY <1>0, <2>1, <2>3 DEF InHands
    <2> QED
      BY <2>1, <2>4, <2>5 DEF InHands
  <1>3. CASE ~(SpStoreHead(p) \/ MpCmpSet(p) \/ StoreProdTail(p))
    <2>1. /\ UNCHANGED <<enq, nPub, nTake, nRel>>
          /\ Holding(p) => Holding(p)' /\ abs'[p] = abs[p]
          /\ \A t \in Threads : t # p => pc'[t] = pc[t] /\ abs'[t] = abs[t]
      BY <1>0, <1>3 DEF ProducerStep, EnqueueCall, LoadProdHead, EnqueueFull, EnqueueRoom,
         MpCmpSetFails, CopyIn, MpWaitTail, Holding
    <2> QED
      BY <2>1, HandsStay DEF Holding
  <1> QED
    BY <1>1, <1>2, <1>3

\* The same on the other side.
LEMMA HandsConsumer ==
  ASSUME TypeOK, Core, InHands, NEW c \in Consumers, ConsumerStep(c), ~stale'
  PROVE  InHands'
  <1> USE DEF Goto, ringVars, prodVars, histVars
  <1>0. /\ pc \in [Threads -> Labels] /\ abs \in [Threads -> Nat] /\ c \in Threads
        /\ nRel \in Nat /\ nTake \in Nat
        /\ Producers \subseteq Threads /\ Consumers \subseteq Threads
        /\ c \notin Producers
    BY Sides DEF TypeOK
  <1>1. CASE ScStoreHead(c) \/ McCmpSet(c)
    <2>1. /\ pc[c] = "set_head" /\ pc' = [pc EXCEPT ![c] = "copy"]
          /\ nTake' = nTake + 1 /\ abs[c] = nTake
          /\ UNCHANGED <<enq, nPub, nRel, abs>>
      BY <1>1 DEF ScStoreHead, McCmpSet, TakeEntry
    <2>2. \A t \in Threads : Holding(t) => Holding(t)'
      BY <1>0, <2>1 DEF Holding
    <2>3. Holding(c)'
      BY <1>0, <2>1 DEF Holding
    <2>4. ASSUME NEW k \in nRel .. nTake
          PROVE  \E d \in Consumers : Holding(d)' /\ abs'[d] = k
      <3>1. CASE k = nTake
        BY <2>1, <2>3, <3>1
      <3>2. CASE k # nTake
        <4>1. PICK d \in Consumers : Holding(d) /\ abs[d] = k
          BY <1>0, <3>2 DEF InHands
        <4> QED
          BY <1>0, <2>1, <2>2, <4>1
      <3> QED
        BY <3>1, <3>2
    <2>5. \A k \in nPub .. (Len(enq) - 1) : \E p \in Producers : Holding(p)' /\ abs'[p] = k
      BY <1>0, <2>1, <2>2 DEF InHands
    <2>6. (nTake + 1) - 1 = nTake
      BY <1>0
    <2> QED
      BY <2>1, <2>4, <2>5, <2>6 DEF InHands
  <1>2. CASE StoreConsTail(c)
    <2>1. /\ pc[c] = "set_tail" /\ pc' = [pc EXCEPT ![c] = "idle"]
          /\ nRel' = nRel + 1 /\ UNCHANGED <<enq, nPub, nTake, abs>>
      BY <1>2 DEF StoreConsTail
    <2>2. abs[c] = nRel
      BY <2>1 DEF Core, ConsumersHold, Holding
    <2>3. \A t \in Threads : t # c /\ Holding(t) => Holding(t)'
      BY <1>0, <2>1 DEF Holding
    <2>4. ASSUME NEW k \in (nRel + 1) .. (nTake - 1)
          PROVE  \E d \in Consumers : Holding(d)' /\ abs'[d] = k
      <3>1. PICK d \in Consumers : Holding(d) /\ abs[d] = k
        BY <1>0 DEF InHands
      <3> QED
        BY <1>0, <2>1, <2>2, <2>3, <3>1
    <2>5. \A k \in nPub .. (Len(enq) - 1) : \E p \in Producers : Holding(p)' /\ abs'[p] = k
      BY <1>0, <2>1, <2>3 DEF InHands
    <2> QED
      BY <2>1, <2>4, <2>5 DEF InHands
  <1>3. CASE ~(ScStoreHead(c) \/ McCmpSet(c) \/ StoreConsTail(c))
    <2>1. /\ UNCHANGED <<enq, nPub, nTake, nRel>>
          /\ Holding(c) => Holding(c)' /\ abs'[c] = abs[c]
          /\ \A t \in Threads : t # c => pc'[t] = pc[t] /\ abs'[t] = abs[t]
      BY <1>0, <1>3 DEF ConsumerStep, LoadConsHead, DequeueEmpty, DequeueSome,
         McCmpSetFails, CopyOut, McWaitTail, Holding
    <2> QED
      BY <2>1, HandsStay DEF Holding
  <1> QED
    BY <1>1, <1>2, <1>3

\* Every step, while heads are fresh.
LEMMA HandsStep == IInv /\ Fresh(InHands) /\ [CallStep]_callVars => Fresh(InHands)'
  <1> SUFFICES ASSUME IInv, Fresh(InHands), [CallStep]_callVars, ~stale'
               PROVE  InHands'
    BY DEF Fresh
  <1>1. CASE UNCHANGED callVars
    BY <1>1 DEF callVars, Fresh, InHands, Holding
  <1>2. CASE CallStep
    <2>1. TypeOK /\ Core /\ InHands
      BY <1>2, StaleStays DEF IInv, Fresh
    <2> QED
      BY <1>2, <2>1, HandsProducer, HandsConsumer DEF CallStep
  <1> QED
    BY <1>1, <1>2

\* Between unequal cursors somebody has its turn.
LEMMA TurnTaken ==
  ASSUME TypeOK, Core, InHands
  PROVE  /\ nPub < Len(enq) => \E q \in Producers : Holding(q) /\ OwnTurn(q, prod.tail)
         /\ nRel < nTake => \E d \in Consumers : Holding(d) /\ OwnTurn(d, cons.tail)
  <1>0. Numbers
    BY NumbersTyped
  <1>1. ASSUME nPub < Len(enq)
        PROVE  \E q \in Producers : Holding(q) /\ OwnTurn(q, prod.tail)
    <2>1. nPub \in nPub .. (Len(enq) - 1)
      BY <1>0, <1>1 DEF Numbers
    <2>2. PICK q \in Producers : Holding(q) /\ abs[q] = nPub
      BY <2>1 DEF InHands
    <2> QED
      BY <2>2, Sides DEF Core, Wrapped, OwnTurn
  <1>2. ASSUME nRel < nTake
        PROVE  \E d \in Consumers : Holding(d) /\ OwnTurn(d, cons.tail)
    <2>1. nRel \in nRel .. (nTake - 1)
      BY <1>0, <1>2 DEF Numbers
    <2>2. PICK d \in Consumers : Holding(d) /\ abs[d] = nRel
      BY <2>1 DEF InHands
    <2> QED
      BY <2>2, Sides DEF Core, Wrapped, OwnTurn
  <1> QED
    BY <1>1, <1>2

\* A thread that waits holds an entry, so its cursors are unequal.
LEMMA WaitsForTurn ==
  ASSUME TypeOK, Core, InHands
  PROVE  TurnComes
  <1>0. Numbers
    BY NumbersTyped
  <1>1. ASSUME NEW p \in Producers, pc[p] = "wait_tail"
        PROVE  nPub < Len(enq)
    <2>1. abs[p] \in Nat /\ nPub <= abs[p] /\ abs[p] < Len(enq)
      BY <1>0, <1>1, Sides DEF Core, ProducersHold, Holding, Numbers
    <2> QED
      BY <1>0, <2>1 DEF Numbers
  <1>2. ASSUME NEW c \in Consumers, pc[c] = "wait_tail"
        PROVE  nRel < nTake
    <2>1. abs[c] \in Nat /\ nRel <= abs[c] /\ abs[c] < nTake
      BY <1>0, <1>2, Sides DEF Core, ConsumersHold, Holding, Numbers
    <2> QED
      BY <1>0, <2>1 DEF Numbers
  <1> QED
    BY <1>1, <1>2, TurnTaken DEF TurnComes

\* Equal indexes are equal counts, but for a whole turn of the ring.
LEMMA RefusalsAre ==
  ASSUME TypeOK, Core, InHands
  PROVE  RefusedRightly
  <1>0. /\ Numbers /\ Size \in Nat /\ Size > 1
        /\ nRel <= nTake /\ nTake <= nPub /\ nPub <= Len(enq) /\ Len(enq) <= nRel + Size - 1
    BY NumbersTyped, SizeFacts DEF Core, CursorsInOrder
  <1>1. ASSUME NEW p \in Producers, abs[p] = Len(enq), NoRoom(p)
        PROVE  Len(enq) = nRel + Size - 1
    <2>1. Slot(Len(enq) + 1) = Slot(nRel)
      <3>1. NextIndex(Slot(Len(enq))) = cons.tail
        BY <1>1, Sides DEF NoRoom, Core, Wrapped
      <3> QED
        BY <1>0, <3>1, NextSlot DEF Core, Wrapped, Numbers
    <2>2. PICK n \in Nat : n = Len(enq) + 1
      BY <1>0 DEF Numbers
    <2>3. ~(n < nRel + Size)
      <3>1. nRel <= n /\ nRel # n
        BY <1>0, <2>2 DEF Numbers
      <3> QED
        BY <1>0, <2>1, <2>2, <3>1, SlotInjective DEF Numbers
    <2> QED
      BY <1>0, <2>2, <2>3 DEF Numbers
  <1>2. ASSUME nTake < nPub
        PROVE  cons.head # prod.tail
    <2>1. nPub < nTake + Size /\ nTake # nPub
      BY <1>0, <1>2 DEF Numbers
    <2>2. Slot(nTake) # Slot(nPub)
      BY <1>0, <2>1, SlotInjective DEF Numbers
    <2> QED
      BY <2>2 DEF Core, Wrapped
  <1>3. ASSUME NEW c \in Consumers, abs[c] = nTake, NoEntry(c)
        PROVE  nTake = nPub
    <2>1. cons.head = prod.tail
      BY <1>3, Sides DEF NoEntry, Core, Wrapped
    <2> QED
      BY <1>0, <1>2, <2>1 DEF Numbers
  <1>4. ASSUME Len(enq) = nRel + Size - 1
        PROVE  nPub < Len(enq) \/ nRel < nTake \/ nTake < nPub
    BY <1>0, <1>4 DEF Numbers
  <1> QED
    BY <1>1, <1>2, <1>3, <1>4, TurnTaken DEF RefusedRightly

\* No thread spins for a turn nobody has, and nobody is refused by a ring that
\* is not full, or empty, as long as its load of the head is the latest: the
\* threads never all wait for one another (x_ring.c:223, 303).  Whether the
\* scheduler lets them go on is a matter of fairness.
THEOREM TurnsCome == Spec => []Fresh(TurnComes /\ RefusedRightly)
  <1>1. Init => Fresh(InHands)
    BY HandsInit DEF Fresh
  <1>2. IInv /\ Fresh(InHands) => Fresh(TurnComes /\ RefusedRightly)
    BY WaitsForTurn, RefusalsAre DEF IInv, Fresh
  <1> QED
    BY <1>1, <1>2, HandsStep, Invariance, QueriesAside, PTL DEF Spec
=============================================================================
