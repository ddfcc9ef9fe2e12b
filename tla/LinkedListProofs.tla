-------------------------- MODULE LinkedListProofs --------------------------
(***************************************************************************)
(* Proofs about LinkedList and the queue and the stack made from it, for   *)
(* any set of nodes and of values.                                         *)
(*                                                                         *)
(* That the two directions of the links agree is not inductive: it allows  *)
(* a second ring beside the one through the head, and a loop that unlinks  *)
(* a node whose successor is itself would go on with a freed node.  A rank *)
(* that grows along next up to the head excludes this.  It is not a part   *)
(* of the state: the invariant says that there is one.                     *)
(*                                                                         *)
(* A second invariant, SInv, adds which list it is: in the middle of a     *)
(* loop, what the loop left of the nodes it has passed, then the others;   *)
(* between two calls, a sequence that keeps what the last one promised.    *)
(*                                                                         *)
(* That a queue is a queue and a stack a stack then takes one more thing,  *)
(* Adapted: the only calls that loop are a fetch, which ends where it      *)
(* begins, and the one that destroys the list.                             *)
(***************************************************************************)
EXTENDS QueueStack, DataLemmas

\* The links of the allocated nodes and of the head, in both directions.
Ring ==
    \A n \in live \cup {ListHead} :
        /\ next[n] \in live \cup {ListHead}
        /\ prev[next[n]] = n
        /\ prev[n] \in live \cup {ListHead}
        /\ next[prev[n]] = n

Ascending(rank) ==
    \A n \in live : next[n] \in live => rank[n] < rank[next[n]]

Ordered(Ranks) == \E rank \in [Node -> Ranks] : Ascending(rank)

\* During clear and destroy: what is left is linked from cur on, and
\* nothing that is left leads back to cur.
Remainder ==
    /\ \A n \in live : next[n] \in live \cup {ListHead}
    /\ \A n \in live : next[n] \in live => prev[next[n]] = n
    /\ \A n \in live \ {cur} : prev[n] \in live /\ next[prev[n]] = n
    /\ cur \in live => prev[cur] \notin live

\* The inductive invariant.
IInv ==
    /\ TypeOK
    /\ busy => made
    /\ ~made => live = {}
    /\ made => Ordered(Nat)
    /\ made /\ ~TearingDown => Ring
    /\ CursorLive
    /\ TearingDown => Remainder

-----------------------------------------------------------------------------
(* The operations on the links                                             *)

\* A node is not its own successor.
LEMMA NoSelfLink ==
    ASSUME TypeOK, Ordered(Nat), NEW n \in live
    PROVE  next[n] # n
  <1>1. PICK rank \in [Node -> Nat] : Ascending(rank)
    BY DEF Ordered
  <1>2. rank[n] \in Nat
    BY <1>1 DEF TypeOK
  <1> QED
    BY <1>1, <1>2 DEF Ascending

\* Unlinking a node (link_list.c:96, 153, 174, 196) keeps the links and the
\* order of the rest, and its successor is still there.
LEMMA UnlinkKeeps ==
    ASSUME TypeOK, Ring, Ordered(Nat), NEW n \in live, Unlink(n)
    PROVE  Ring' /\ Ordered(Nat)' /\ next[n] \in live' \cup {ListHead}
  <1> DEFINE p == prev[n]
             q == next[n]
  <1> USE ListAssumption DEF ListAssumption
  <1>1. n \in Node /\ n # ListHead
    BY DEF TypeOK
  <1>2. q # n /\ q \in live \cup {ListHead} /\ prev[q] = n
    BY NoSelfLink DEF Ring
  <1>3. p \in live \cup {ListHead} /\ next[p] = n /\ p # n
    BY <1>2 DEF Ring
  <1>4. live' = live \ {n}
    BY DEF Unlink
  <1>5. ASSUME NEW m \in live' \cup {ListHead}
        PROVE  next'[m] = IF m = p THEN q ELSE next[m]
    BY <1>1, <1>4 DEF Unlink, NextWithout, TypeOK, Place
  <1>6. ASSUME NEW m \in live' \cup {ListHead}
        PROVE  prev'[m] = IF m = q THEN p ELSE prev[m]
    BY <1>1, <1>4 DEF Unlink, PrevWithout, TypeOK, Place
  <1>7. Ring'
    <2> SUFFICES ASSUME NEW m \in live' \cup {ListHead}
                 PROVE  /\ next'[m] \in live' \cup {ListHead}
                        /\ prev'[next'[m]] = m
                        /\ prev'[m] \in live' \cup {ListHead}
                        /\ next'[prev'[m]] = m
      BY DEF Ring
    <2>1. m \in live \cup {ListHead} /\ m # n
      BY <1>1, <1>4
    <2>2. /\ next[m] \in live \cup {ListHead} /\ prev[next[m]] = m
          /\ prev[m] \in live \cup {ListHead} /\ next[prev[m]] = m
      BY <2>1 DEF Ring
    <2>3. /\ p \in live' \cup {ListHead}
          /\ q \in live' \cup {ListHead}
      BY <1>2, <1>3, <1>4
    <2>4. m # p => next[m] # n /\ next[m] # q
      BY <2>1, <2>2, <1>2, <1>3
    <2>5. m # q => prev[m] # n /\ prev[m] # p
      BY <2>1, <2>2, <1>2, <1>3
    <2>6. next'[m] \in live' \cup {ListHead} /\ prev'[next'[m]] = m
      BY <1>4, <1>5, <1>6, <2>2, <2>3, <2>4
    <2>7. prev'[m] \in live' \cup {ListHead} /\ next'[prev'[m]] = m
      BY <1>4, <1>5, <1>6, <2>2, <2>3, <2>5
    <2> QED
      BY <2>6, <2>7
  <1>8. Ordered(Nat)'
    <2>1. PICK rank \in [Node -> Nat] : Ascending(rank)
      BY DEF Ordered
    <2>2. ASSUME NEW m \in live', next'[m] \in live'
          PROVE  rank[m] < rank[next'[m]]
      <3>1. m \in live /\ m # ListHead /\ m \in Node
        BY <1>4 DEF TypeOK
      <3>2. CASE m = p
        <4>1. q \in live
          BY <1>4, <1>5, <2>2, <3>2
        <4>2. rank[p] < rank[n] /\ rank[n] < rank[q]
          BY <1>3, <2>1, <3>1, <3>2, <4>1 DEF Ascending
        <4>3. rank[p] \in Nat /\ rank[n] \in Nat /\ rank[q] \in Nat
          BY <1>1, <2>1, <3>1, <3>2, <4>1 DEF TypeOK
        <4> QED
          BY <1>5, <3>2, <4>2, <4>3
      <3>3. CASE m # p
        BY <1>4, <1>5, <2>1, <2>2, <3>1, <3>3 DEF Ascending
      <3> QED
        BY <3>2, <3>3
    <2> QED
      BY <2>1, <2>2 DEF Ordered, Ascending
  <1>9. q \in live' \cup {ListHead}
    BY <1>2, <1>4
  <1> QED
    BY <1>7, <1>8, <1>9

\* Linking a new node at either end (link_list.c:60-69) keeps them too.
LEMMA InsertKeeps ==
    ASSUME TypeOK, Ring, Ordered(Nat), NEW n \in Node \ live, NEW fn,
           live' = live \cup {n},
           Link(n, NewPrev(fn), NewNext(fn))
    PROVE  Ring' /\ Ordered(Nat)'
  <1> DEFINE a == NewPrev(fn)
             b == NewNext(fn)
  <1> USE ListAssumption DEF ListAssumption
  <1>1. /\ a \in live \cup {ListHead} /\ b \in live \cup {ListHead}
        /\ next[a] = b /\ prev[b] = a
    BY DEF Ring, NewPrev, NewNext
  <1>2. a # n /\ b # n /\ n # ListHead /\ a \in Place /\ b \in Place
    BY <1>1 DEF TypeOK, Place
  <1> HIDE DEF a, b
  <1>3. ASSUME NEW m \in live' \cup {ListHead}
        PROVE  next'[m] = IF m = n THEN b ELSE IF m = a THEN n ELSE next[m]
    BY <1>2 DEF Link, TypeOK, Place, a, b
  <1>4. ASSUME NEW m \in live' \cup {ListHead}
        PROVE  prev'[m] = IF m = n THEN a ELSE IF m = b THEN n ELSE prev[m]
    BY <1>2 DEF Link, TypeOK, Place, a, b
  <1>5. Ring'
    <2> SUFFICES ASSUME NEW m \in live' \cup {ListHead}
                 PROVE  /\ next'[m] \in live' \cup {ListHead}
                        /\ prev'[next'[m]] = m
                        /\ prev'[m] \in live' \cup {ListHead}
                        /\ next'[prev'[m]] = m
      BY DEF Ring
    <2>1. CASE m = n
      BY <1>1, <1>2, <1>3, <1>4, <2>1
    <2>2. CASE m # n
      <3>1. m \in live \cup {ListHead}
        BY <2>2
      <3>2. /\ next[m] \in live \cup {ListHead} /\ prev[next[m]] = m
            /\ prev[m] \in live \cup {ListHead} /\ next[prev[m]] = m
        BY <3>1 DEF Ring
      <3>3. next[m] # n /\ prev[m] # n
        BY <1>2, <3>2
      <3>4. next'[m] \in live' \cup {ListHead} /\ prev'[next'[m]] = m
        <4>1. CASE m = a
          BY <1>1, <1>2, <1>3, <1>4, <2>2, <4>1
        <4>2. CASE m # a
          BY <1>1, <1>3, <1>4, <2>2, <3>2, <3>3, <4>2
        <4> QED
          BY <4>1, <4>2
      <3>5. prev'[m] \in live' \cup {ListHead} /\ next'[prev'[m]] = m
        <4>1. CASE m = b
          BY <1>1, <1>2, <1>3, <1>4, <2>2, <4>1
        <4>2. CASE m # b
          BY <1>1, <1>3, <1>4, <2>2, <3>2, <3>3, <4>2
        <4> QED
          BY <4>1, <4>2
      <3> QED
        BY <3>4, <3>5
    <2> QED
      BY <2>1, <2>2
  <1>6. PICK rank \in [Node -> Nat] : Ascending(rank)
    BY DEF Ordered
  <1>7. ASSUME NEW m \in live
        PROVE  m \in Node /\ rank[m] \in Nat /\ m # n /\ m # ListHead
    BY <1>6 DEF TypeOK
  <1>8. Ordered(Nat)'
    <2>1. CASE fn = "insert_forward"
      <3> DEFINE r == [m \in Node |-> IF m = n THEN 0 ELSE rank[m] + 1]
      <3>1. r \in [Node -> Nat]
        BY <1>6
      <3>2. a = ListHead
        BY <2>1 DEF a, NewPrev
      <3>3. ASSUME NEW m \in live', next'[m] \in live'
            PROVE  r[m] < r[next'[m]]
        <4>1. CASE m = n
          <5>1. b \in live /\ next'[m] = b
            BY <1>2, <1>3, <3>3, <4>1
          <5> QED
            BY <1>7, <4>1, <5>1
        <4>2. CASE m # n
          <5>1. m \in live /\ next'[m] = next[m]
            BY <1>3, <1>7, <3>2, <4>2
          <5>2. next[m] \in live
            BY <1>2, <3>3, <5>1 DEF Ring
          <5> QED
            BY <1>6, <1>7, <5>1, <5>2 DEF Ascending
        <4> QED
          BY <4>1, <4>2
      <3> QED
        BY <3>1, <3>3 DEF Ordered, Ascending
    <2>2. CASE fn # "insert_forward"
      <3> DEFINE last == IF a \in live THEN rank[a] + 1 ELSE 0
                 r == [m \in Node |-> IF m = n THEN last ELSE rank[m]]
      <3>1. last \in Nat /\ r \in [Node -> Nat]
        BY <1>6, <1>7
      <3>2. b = ListHead
        BY <2>2 DEF b, NewNext
      <3>3. ASSUME NEW m \in live', next'[m] \in live'
            PROVE  r[m] < r[next'[m]]
        <4>1. m # n
          BY <1>2, <1>3, <1>7, <3>2, <3>3
        <4>2. m \in live
          BY <4>1
        <4>3. CASE m = a
          BY <1>3, <1>7, <4>1, <4>2, <4>3
        <4>4. CASE m # a
          <5>1. next'[m] = next[m] /\ next[m] \in live
            BY <1>3, <3>3, <4>1, <4>2, <4>4 DEF Ring
          <5> QED
            BY <1>6, <1>7, <4>1, <4>2, <5>1 DEF Ascending
        <4> QED
          BY <4>3, <4>4
      <3> QED
        BY <3>1, <3>3 DEF Ordered, Ascending
    <2> QED
      BY <2>1, <2>2
  <1> QED
    BY <1>5, <1>8

\* Freeing the first of the remaining nodes (link_list.c:30, 43) leaves the
\* next one as the first, and the node saved before is still there.
LEMMA FreeKeeps ==
    ASSUME TypeOK, Remainder, Ordered(Nat), cur \in live,
           FreeOnly(cur), cur' = next[cur]
    PROVE  Remainder' /\ Ordered(Nat)' /\ cur' \in live' \cup {ListHead}
  <1> USE ListAssumption DEF ListAssumption
  <1>1. next[cur] # cur
    BY NoSelfLink
  <1>2. /\ live' = live \ {cur}
        /\ cur \in Node
        /\ \A m \in live' : next'[m] = next[m] /\ prev'[m] = prev[m]
        /\ prev'[cur] = Null /\ next'[cur] = Null
    BY DEF FreeOnly, TypeOK, Place
  <1>3. cur' \in live' \cup {ListHead}
    BY <1>1, <1>2 DEF Remainder
  <1>4. ASSUME NEW m \in live'
        PROVE  next'[m] \in live' \cup {ListHead}
    BY <1>2 DEF Remainder
  <1>5. ASSUME NEW m \in live', next'[m] \in live'
        PROVE  prev'[next'[m]] = m
    BY <1>2, <1>5 DEF Remainder
  <1>6. ASSUME NEW m \in live' \ {cur'}
        PROVE  prev'[m] \in live' /\ next'[prev'[m]] = m
    BY <1>2 DEF Remainder
  <1>7. cur' \in live' => prev'[cur'] \notin live'
    BY <1>2 DEF Remainder
  <1>8. Ordered(Nat)'
    BY <1>2 DEF Ordered, Ascending
  <1>9. Remainder'
    BY <1>4, <1>5, <1>6, <1>7 DEF Remainder
  <1> QED
    BY <1>3, <1>8, <1>9

\* When the loop of clear or destroy reaches the head nothing is left.
LEMMA NothingLeft ==
    ASSUME TypeOK, Remainder, Ordered(Nat), cur = ListHead
    PROVE  live = {}
  <1> SUFFICES ASSUME live # {} PROVE FALSE
    OBVIOUS
  <1>1. PICK rank \in [Node -> Nat] : Ascending(rank)
    BY DEF Ordered
  <1> DEFINE T == {rank[n] : n \in live}
  <1>2. T \subseteq Nat /\ T # {}
    BY <1>1 DEF TypeOK
  <1>3. PICK x \in T : \A y \in T : <<y, x>> \notin OpToRel(<, Nat)
    <2> HIDE DEF T
    <2> QED
      BY <1>2, NatLessThanWellFounded, WFMin, Zenon
  <1>4. PICK n \in live : x = rank[n]
    BY <1>3
  <1>5. /\ n \in Node /\ n # cur
        /\ prev[n] \in live /\ prev[n] \in Node /\ next[prev[n]] = n
    BY <1>4, ListAssumption DEF Remainder, ListAssumption, TypeOK
  <1>6. rank[prev[n]] < rank[n] /\ rank[prev[n]] \in Nat /\ rank[n] \in Nat
    BY <1>1, <1>4, <1>5 DEF Ascending
  <1>7. <<rank[prev[n]], rank[n]>> \in OpToRel(<, Nat)
    BY <1>6 DEF OpToRel
  <1> QED
    BY <1>3, <1>4, <1>5, <1>7

-----------------------------------------------------------------------------
(* The invariant                                                           *)

\* The heap after a step that leaves it alone.
LEMMA HeapUnchanged ==
    ASSUME UNCHANGED heapVars
    PROVE  /\ Ring' <=> Ring
           /\ Ordered(Nat)' <=> Ordered(Nat)
  BY DEF heapVars, Ring, Ordered, Ascending

\* The invariant holds before the list is created.
LEMMA IInvInit == Init => IInv
  <1> SUFFICES ASSUME Init PROVE IInv
    OBVIOUS
  <1>0. made \in BOOLEAN /\ busy \in BOOLEAN /\ ~busy
    BY Zenon DEF Init
  <1>1. TypeOK
    BY <1>0 DEF Init, TypeOK, Place
  <1>2. ~made /\ ~busy /\ live = {}
    BY DEF Init
  <1> QED
    BY <1>1, <1>2 DEF IInv, CursorLive, TearingDown

\* What the loops need of the invariant: the variable is in the ring, and
\* unless the list is torn down the links are whole.
LEMMA InLoopFacts ==
    ASSUME IInv, NEW fns, InLoop(fns)
    PROVE  /\ made /\ cur \in live /\ cur \in Node
           /\ TypeOK /\ Ordered(Nat)
           /\ fns \cap Teardown = {} => Ring /\ ~TearingDown
  BY DEF IInv, InLoop, CursorLive, TypeOK, TearingDown

\* llist_creat makes a ring of the head alone.
LEMMA CreatStep ==
    ASSUME IInv, Creat PROVE IInv'
  <1> USE ListAssumption DEF ListAssumption
  <1>1. live = {} /\ live' = {} /\ busy' = FALSE /\ made' = TRUE
    BY DEF IInv, Creat
  <1>2. next'[ListHead] = ListHead /\ prev'[ListHead] = ListHead
    BY DEF IInv, Creat, HeadAlone, TypeOK, Place
  <1>3. TypeOK'
    BY DEF IInv, Creat, HeadAlone, TypeOK, Place
  <1>4. Ring'
    BY <1>1, <1>2 DEF Ring
  <1>5. Ordered(Nat)'
    <2>1. [m \in Node |-> 0] \in [Node -> Nat]
      OBVIOUS
    <2> QED
      BY <1>1, <2>1 DEF Ordered, Ascending
  <1> QED
    BY <1>1, <1>3, <1>4, <1>5 DEF IInv, CursorLive, TearingDown

\* llist_insert, with and without memory.
LEMMA InsertStep ==
    ASSUME IInv, NEW fn \in InsertFns, NEW v \in Value, Insert(fn, v)
    PROVE  IInv'
  <1> USE ListAssumption DEF ListAssumption
  <1>1. /\ TypeOK /\ Ring /\ Ordered(Nat)
        /\ made /\ ~busy /\ made' = made /\ busy' = busy /\ cur' = cur
        /\ steps' = steps /\ out' = out /\ ret' = 0
    BY DEF IInv, Insert, InsertCall, TearingDown
  <1>2. PICK n \in Node \ live :
            /\ live' = live \cup {n}
            /\ data' = [data EXCEPT ![n] = v]
            /\ Link(n, NewPrev(fn), NewNext(fn))
    BY DEF Insert
  <1>3. Ring' /\ Ordered(Nat)'
    BY <1>1, <1>2, InsertKeeps
  <1>4. NewPrev(fn) \in Place /\ NewNext(fn) \in Place
    BY <1>1 DEF NewPrev, NewNext, Ring, TypeOK, Place
  <1>5. TypeOK'
    <2>1. /\ next' \in [Place -> Place \cup {Null}]
          /\ prev' \in [Place -> Place \cup {Null}]
      BY <1>1, <1>2, <1>4 DEF Link, TypeOK, Place
    <2>2. data' \in [Node -> Value] /\ live' \in SUBSET Node
      BY <1>1, <1>2 DEF TypeOK
    <2> QED
      BY <1>1, <2>1, <2>2 DEF TypeOK, Place
  <1> QED
    BY <1>1, <1>3, <1>5 DEF IInv, CursorLive, TearingDown

LEMMA InsertFailsStep ==
    ASSUME IInv, NEW fn \in InsertFns, NEW v \in Value, InsertFails(fn, v)
    PROVE  IInv'
  <1>1. UNCHANGED heapVars
    BY DEF InsertFails, InsertCall, heapVars
  <1> QED
    BY <1>1, HeapUnchanged
    DEF IInv, InsertFails, InsertCall, heapVars, TypeOK, CursorLive,
        TearingDown

\* A call starts with the node after the head.
LEMMA CallStep ==
    ASSUME IInv, NEW r \in Requests, Call(r)
    PROVE  IInv'
  <1> USE ListAssumption DEF ListAssumption
  <1>1. /\ made /\ Ring /\ TypeOK /\ Ordered(Nat)
        /\ UNCHANGED heapVars /\ cur' = next[ListHead]
    BY DEF IInv, Call, TearingDown
  <1>2. cur' \in live \cup {ListHead} /\ prev[cur'] = ListHead
    BY <1>1 DEF Ring
  <1>3. ListHead \notin live
    BY <1>1 DEF TypeOK
  <1>4. Ring' /\ Ordered(Nat)' /\ made'
    BY <1>1, HeapUnchanged DEF heapVars
  <1>5. CursorLive'
    BY <1>1, <1>2 DEF CursorLive, heapVars
  <1>6. TypeOK'
    BY <1>1, <1>2 DEF TypeOK, Place, Call, heapVars
  <1>7. Remainder'
    <2>1. live' = live /\ next' = next /\ prev' = prev
      BY <1>1 DEF heapVars
    <2>2. ASSUME NEW n \in live
          PROVE  /\ next[n] \in live \cup {ListHead} /\ prev[next[n]] = n
                 /\ n # cur' => prev[n] \in live /\ next[prev[n]] = n
      BY <1>1 DEF Ring
    <2> QED
      BY <1>2, <1>3, <2>1, <2>2 DEF Remainder
  <1> QED
    BY <1>4, <1>5, <1>6, <1>7 DEF IInv

\* A step of a loop that does not touch the list, and goes on.
LEMMA AdvanceStep ==
    ASSUME IInv, NEW fns, InLoop(fns), fns \cap Teardown = {},
           Advance, UNCHANGED heapVars
    PROVE  IInv'
  <1>1. /\ TypeOK /\ Ordered(Nat) /\ made /\ cur \in live /\ Ring /\ ~TearingDown
    BY InLoopFacts
  <1>2. cur' \in live \cup {ListHead} /\ ~TearingDown'
    BY <1>1 DEF Ring, Advance, Saved, TearingDown
  <1>3. Ring' /\ Ordered(Nat)' /\ made'
    BY <1>1, HeapUnchanged DEF heapVars
  <1>4. TypeOK'
    BY <1>1, <1>2 DEF TypeOK, Place, Advance, heapVars
  <1> QED
    BY <1>2, <1>3, <1>4 DEF IInv, CursorLive, heapVars

\* A step of a loop that unlinks its node, and goes on with the next one.
LEMMA AdvanceUnlinkStep ==
    ASSUME IInv, NEW fns, InLoop(fns), fns \cap Teardown = {},
           Advance, Unlink(cur)
    PROVE  IInv'
  <1>1. /\ TypeOK /\ Ordered(Nat) /\ made /\ cur \in live /\ Ring /\ ~TearingDown
    BY InLoopFacts
  <1>2. Ring' /\ Ordered(Nat)' /\ next[cur] \in live' \cup {ListHead}
    BY <1>1, UnlinkKeeps
  <1>3. cur' \in live' \cup {ListHead} /\ ~TearingDown' /\ made'
    BY <1>1, <1>2 DEF Advance, Saved, TearingDown, Unlink
  <1>4. prev[cur] \in Place /\ next[cur] \in Place
    BY <1>1 DEF Ring, TypeOK, Place
  <1>5. TypeOK'
    BY <1>1, <1>3, <1>4
    DEF TypeOK, Place, Advance, Unlink, NextWithout, PrevWithout
  <1> QED
    BY <1>2, <1>3, <1>5 DEF IInv, CursorLive

\* A return from a loop that leaves the list alone.
LEMMA ReturnStep ==
    ASSUME IInv, busy, call.fn \notin Teardown,
           NEW r \in Int, NEW o \in Value \cup {Null}, Return(r, o),
           UNCHANGED <<heapVars, cur, steps>>
    PROVE  IInv'
  <1>1. TypeOK /\ Ordered(Nat) /\ made /\ Ring /\ ~TearingDown
    BY DEF IInv, TearingDown
  <1>2. Ring' /\ Ordered(Nat)' /\ made' /\ ~busy'
    BY <1>1, HeapUnchanged DEF heapVars, Return
  <1>3. TypeOK'
    BY <1>1 DEF TypeOK, Place, Return, heapVars
  <1> QED
    BY <1>2, <1>3 DEF IInv, CursorLive, TearingDown

\* A return from a loop with its node unlinked.
LEMMA ReturnUnlinkStep ==
    ASSUME IInv, NEW fns, InLoop(fns), fns \cap Teardown = {},
           NEW r \in Int, NEW o \in Value \cup {Null}, Return(r, o),
           Unlink(cur), UNCHANGED <<cur, steps>>
    PROVE  IInv'
  <1>1. /\ TypeOK /\ Ordered(Nat) /\ made /\ cur \in live /\ Ring /\ ~TearingDown
    BY InLoopFacts
  <1>2. Ring' /\ Ordered(Nat)' /\ made' /\ ~busy'
    BY <1>1, UnlinkKeeps DEF Unlink, Return
  <1>3. prev[cur] \in Place /\ next[cur] \in Place
    BY <1>1 DEF Ring, TypeOK, Place
  <1>4. TypeOK'
    BY <1>1, <1>3 DEF TypeOK, Place, Return, Unlink, NextWithout, PrevWithout
  <1> QED
    BY <1>2, <1>4 DEF IInv, CursorLive, TearingDown

\* An iteration of clear or destroy.
LEMMA TeardownStepKeeps ==
    ASSUME IInv, TeardownStep PROVE IInv'
  <1>1. /\ TypeOK /\ Ordered(Nat) /\ made /\ cur \in live
        /\ TearingDown /\ Remainder
        /\ FreeOnly(cur) /\ cur' = next[cur] /\ steps' = steps + 1
        /\ UNCHANGED <<call, busy, ret, out>>
    BY InLoopFacts
    DEF TeardownStep, InLoop, TearingDown, IInv, Advance, Saved
  <1>2. Remainder' /\ Ordered(Nat)' /\ cur' \in live' \cup {ListHead}
    BY <1>1, FreeKeeps
  <1>3. TearingDown' /\ made'
    BY <1>1 DEF TearingDown, FreeOnly
  <1>4. TypeOK'
    BY <1>1, <1>2 DEF TypeOK, Place, FreeOnly
  <1> QED
    BY <1>2, <1>3, <1>4 DEF IInv, CursorLive

\* The ends of clear and destroy: nothing is left.
LEMMA TeardownEndKeeps ==
    ASSUME IInv, ClearEnd \/ DestroyEnd PROVE IInv'
  <1> USE ListAssumption DEF ListAssumption
  <1>1. /\ TypeOK /\ Ordered(Nat) /\ Remainder /\ cur = ListHead /\ made
        /\ steps \in Nat
    BY DEF ClearEnd, DestroyEnd, AtEnd, Teardown, TearingDown, IInv,
           TypeOK
  <1>2. live = {}
    BY <1>1, NothingLeft
  <1>3. live' = {} /\ ~busy' /\ cur' = cur
    BY <1>2 DEF ClearEnd, DestroyEnd, Return
  <1>4. CASE ClearEnd
    <2>1. /\ next' = [next EXCEPT ![ListHead] = ListHead]
          /\ prev' = [prev EXCEPT ![ListHead] = ListHead]
          /\ made' = made
      BY <1>4 DEF ClearEnd, HeadAfterClear, HeadAlone
    <2>2. next'[ListHead] = ListHead /\ prev'[ListHead] = ListHead
      BY <1>1, <2>1 DEF TypeOK, Place
    <2>3. Ring'
      BY <1>3, <2>2 DEF Ring
    <2>4. Ordered(Nat)'
      BY <1>1, <1>3 DEF Ordered, Ascending
    <2>5. /\ data' = data /\ steps' = steps /\ ret' = steps /\ out' = Null
          /\ busy' = FALSE
      BY <1>4 DEF ClearEnd, Return
    <2>6. /\ next' \in [Place -> Place \cup {Null}]
          /\ prev' \in [Place -> Place \cup {Null}]
      BY <1>1, <2>1 DEF TypeOK, Place
    <2>7. busy' \in BOOLEAN
      BY <2>5, Zenon
    <2>8. TypeOK'
      BY <1>1, <1>3, <2>1, <2>5, <2>6, <2>7 DEF TypeOK, Place
    <2> QED
      BY <1>1, <1>3, <2>1, <2>3, <2>4, <2>8
      DEF IInv, CursorLive, TearingDown
  <1>5. CASE DestroyEnd
    <2>1. /\ made' = FALSE /\ next' = next /\ prev' = prev /\ data' = data
          /\ steps' = steps /\ ret' = 0 /\ out' = Null /\ busy' = FALSE
      BY <1>5 DEF DestroyEnd, Return
    <2>2. busy' \in BOOLEAN /\ made' \in BOOLEAN
      BY <2>1, Zenon
    <2>3. TypeOK'
      BY <1>1, <1>3, <2>1, <2>2 DEF TypeOK, Place
    <2> QED
      BY <1>3, <2>1, <2>3 DEF IInv, CursorLive, TearingDown
  <1> QED
    BY <1>4, <1>5

\* Every iteration of, and every way out of, a loop.
LEMMA ContinueStep ==
    ASSUME IInv, Continue PROVE IInv'
  <1>1. \A fns : InLoop(fns) => cur \in Node /\ data[cur] \in Value
    BY InLoopFacts DEF TypeOK
  <1>2. steps \in Nat
    BY DEF IInv, TypeOK
  <1>3. CASE FindStep
    BY <1>3, AdvanceStep DEF FindStep, Searches, Teardown
  <1>4. CASE FindNone
    BY <1>4, ReturnStep DEF FindNone, AtEnd, Searches, Teardown
  <1>5. CASE FindHit
    <2>1. /\ busy /\ call.fn \notin Teardown
          /\ Return(0, data[cur]) /\ UNCHANGED <<heapVars, cur, steps>>
      BY <1>5 DEF FindHit, InLoop, Teardown
    <2>2. data[cur] \in Value \cup {Null}
      BY <1>1, <1>5 DEF FindHit
    <2> QED
      BY <2>1, <2>2, ReturnStep
  <1>6. CASE DeletHit \/ FetchHit
    <2>1. PICK fn \in {"delet", "fetch"} : InLoop({fn})
      BY <1>6 DEF DeletHit, FetchHit
    <2>2. /\ Unlink(cur) /\ Return(0, data[cur]) /\ UNCHANGED <<cur, steps>>
          /\ {fn} \cap Teardown = {} /\ data[cur] \in Value \cup {Null}
      BY <1>1, <1>6, <2>1 DEF DeletHit, FetchHit, Teardown
    <2> QED
      BY <2>1, <2>2, ReturnUnlinkStep
  <1>7. CASE TravelStep
    BY <1>7, AdvanceStep DEF TravelStep, Teardown
  <1>8. CASE TravelBreak
    BY <1>8, ReturnStep DEF TravelBreak, InLoop, Teardown
  <1>9. CASE CheckStep \/ TravelDeleteStep
    <2>1. PICK fn \in {"check", "travel_delete"} :
              /\ InLoop({fn}) /\ Advance
              /\ Unlink(cur) \/ UNCHANGED heapVars
      BY <1>9 DEF CheckStep, TravelDeleteStep
    <2>2. {fn} \cap Teardown = {}
      BY DEF Teardown
    <2> QED
      BY <2>1, <2>2, AdvanceStep, AdvanceUnlinkStep
  <1>10. CASE TravelDeleteBreak
    <2>1. /\ InLoop({"travel_delete"}) /\ Return(0, Null)
          /\ Unlink(cur) \/ UNCHANGED heapVars
          /\ UNCHANGED <<cur, steps>>
          /\ {"travel_delete"} \cap Teardown = {}
          /\ busy /\ call.fn \notin Teardown
      BY <1>10 DEF TravelDeleteBreak, InLoop, Teardown
    <2> QED
      BY <2>1, ReturnUnlinkStep, ReturnStep
  <1>11. CASE LoopEnd
    <2>1. PICK r \in Int : Return(r, Null)
      BY <1>2, <1>11 DEF LoopEnd
    <2>2. /\ busy /\ call.fn \notin Teardown
          /\ UNCHANGED <<heapVars, cur, steps>>
      BY <1>11 DEF LoopEnd, AtEnd, Teardown
    <2> QED
      BY <2>1, <2>2, ReturnStep
  <1>12. CASE TeardownStep
    BY <1>12, TeardownStepKeeps
  <1>13. CASE ClearEnd \/ DestroyEnd
    BY <1>13, TeardownEndKeeps
  <1> QED
    BY <1>3, <1>4, <1>5, <1>6, <1>7, <1>8, <1>9, <1>10, <1>11, <1>12, <1>13
    DEF Continue

\* The invariant is inductive.
LEMMA IInvStep == IInv /\ [Next]_vars => IInv'
  <1> SUFFICES ASSUME IInv, [Next]_vars PROVE IInv'
    OBVIOUS
  <1>1. CASE Creat
    BY <1>1, CreatStep
  <1>2. ASSUME NEW fn \in InsertFns, NEW v \in Value,
               Insert(fn, v) \/ InsertFails(fn, v)
        PROVE  IInv'
    BY <1>2, InsertStep, InsertFailsStep
  <1>3. ASSUME NEW r \in Requests, Call(r) PROVE IInv'
    BY <1>3, CallStep
  <1>4. CASE Continue
    BY <1>4, ContinueStep
  <1>5. CASE UNCHANGED vars
    <2>1. UNCHANGED heapVars
      BY <1>5 DEF vars
    <2>2. /\ next' = next /\ prev' = prev /\ data' = data /\ live' = live
          /\ made' = made /\ call' = call /\ busy' = busy /\ cur' = cur
          /\ steps' = steps /\ ret' = ret /\ out' = out
      BY <1>5 DEF vars, heapVars
    <2>3. Remainder' <=> Remainder
      BY <2>2 DEF Remainder
    <2>4. TypeOK' <=> TypeOK
      BY <2>2 DEF TypeOK
    <2> QED
      BY <2>1, <2>2, <2>3, <2>4, HeapUnchanged
      DEF IInv, CursorLive, TearingDown
  <1> QED
    BY <1>1, <1>2, <1>3, <1>4, <1>5 DEF Next

-----------------------------------------------------------------------------
(* Theorems                                                                *)

\* The inductive invariant holds in every reachable state.
THEOREM Invariance == Spec => []IInv
  BY IInvInit, IInvStep, PTL DEF Spec

\* Pointers stay pointers: the type invariant of link_list.c's state.
THEOREM ListTypeCorrect == Spec => []TypeOK
  <1>1. IInv => TypeOK
    BY DEF IInv
  <1> QED
    BY <1>1, Invariance, PTL

\* Whatever the length of the list and the sequence of calls, no pointer of
\* an allocated node dangles and the two directions agree (link_list.c:68,
\* 96, 153, 174, 196).
THEOREM LinksAgree == Spec => []Linked
  <1>1. IInv => Linked
    BY DEF IInv, Linked, Ring
  <1> QED
    BY <1>1, Invariance, PTL

\* No loop of link_list.c uses a node after it was freed.
THEOREM NoUseAfterFree == Spec => []CursorLive
  <1>1. IInv => CursorLive
    BY DEF IInv
  <1> QED
    BY <1>1, Invariance, PTL

\* After llist_destroy no node of the list remains allocated
\* (link_list.c:26-32).
THEOREM DestroyFreesAll == Spec => [](~made => live = {})
  <1>1. IInv => (~made => live = {})
    BY DEF IInv
  <1> QED
    BY <1>1, Invariance, PTL

-----------------------------------------------------------------------------
(* A sequence without some of its places                                   *)

\* A function that does what the definition of Left says up to n.
Leaves(f, s, S, n) ==
    f = [k \in 0 .. n |-> IF k = 0 THEN << >>
                          ELSE IF k \in S THEN f[k - 1] ELSE Append(f[k - 1], s[k])]

\* The same, number by number.
LEMMA LeavesMeans ==
  ASSUME NEW f, NEW s, NEW S, NEW n \in Nat, Leaves(f, s, S, n), NEW k \in 0 .. n
  PROVE  f[k] = IF k = 0 THEN << >>
                ELSE IF k \in S THEN f[k - 1] ELSE Append(f[k - 1], s[k])
  BY DEF Leaves

\* There is one.
LEMMA LeavesExist ==
  ASSUME NEW s, NEW S, NEW n \in Nat
  PROVE  \E f : Leaves(f, s, S, n)
  <1> DEFINE C == {m \in Nat : ~\E f : Leaves(f, s, S, m)}
  <1> SUFFICES ASSUME C # {}
               PROVE  FALSE
    OBVIOUS
  <1>1. PICK m \in C : \A k \in C : m <= k
    <2>1. C \in SUBSET Nat
      OBVIOUS
    <2> HIDE DEF C
    <2> QED
      BY <2>1, LeastNumber
  <1>2. m \in Nat /\ ~\E f : Leaves(f, s, S, m)
    BY <1>1
  <1>3. CASE m = 0
    <2>1. Leaves([k \in 0 .. 0 |-> << >>], s, S, 0)
      BY DEF Leaves
    <2> QED
      BY <1>2, <1>3, <2>1
  <1>4. CASE m # 0
    <2>1. PICK n0 \in Nat : n0 = m - 1
      BY <1>2, <1>4
    <2>2. PICK f : Leaves(f, s, S, n0)
      <3>1. n0 \notin C
        BY <1>1, <1>2, <2>1
      <3> QED
        BY <3>1
    <2> HIDE DEF C
    <2> DEFINE last == IF m \in S THEN f[m - 1] ELSE Append(f[m - 1], s[m])
               g == [k \in 0 .. m |-> IF k = m THEN last ELSE f[k]]
    <2>3. ASSUME NEW k \in 0 .. m
          PROVE  g[k] = IF k = 0 THEN << >>
                        ELSE IF k \in S THEN g[k - 1] ELSE Append(g[k - 1], s[k])
      <3> HIDE DEF last
      <3>1. CASE k = m
        <4>1. g[k] = last /\ g[k - 1] = f[m - 1] /\ k # 0
          BY <1>2, <1>4, <3>1
        <4> QED
          BY <3>1, <4>1 DEF last
      <3>2. CASE k # m
        <4>1. k \in 0 .. n0 /\ g[k] = f[k] /\ (k # 0 => g[k - 1] = f[k - 1])
          BY <1>2, <2>1, <3>2
        <4> HIDE DEF g
        <4>2. f[k] = IF k = 0 THEN << >>
                     ELSE IF k \in S THEN f[k - 1] ELSE Append(f[k - 1], s[k])
          BY <2>2, <4>1, LeavesMeans
        <4> QED
          BY <4>1, <4>2
      <3> QED
        BY <3>1, <3>2
    <2>4. Leaves(g, s, S, m)
      <3> HIDE DEF last
      <3>1. g = [k \in 0 .. m |-> g[k]]
        OBVIOUS
      <3> HIDE DEF g
      <3> QED
        BY <2>3, <3>1 DEF Leaves
    <2> QED
      BY <1>2, <2>4
  <1> QED
    BY <1>3, <1>4

\* So Left means what it says.
LEMMA LeftMeans ==
  ASSUME NEW X, NEW s \in Seq(X), NEW S, NEW k \in 0 .. Len(s)
  PROVE  Left(s, S)[k] = IF k = 0 THEN << >>
                         ELSE IF k \in S THEN Left(s, S)[k - 1]
                         ELSE Append(Left(s, S)[k - 1], s[k])
  <1>1. PICK n \in Nat : n = Len(s)
    BY LenProperties
  <1>2. Left(s, S) = CHOOSE f : Leaves(f, s, S, n)
    BY <1>1 DEF Left, Leaves
  <1>3. Leaves(Left(s, S), s, S, n)
    BY <1>2, LeavesExist
  <1> QED
    BY <1>1, <1>3, LeavesMeans

\* What is left is a sequence of the same things.
LEMMA LeftType ==
  ASSUME NEW X, NEW s \in Seq(X), NEW S, NEW n \in 0 .. Len(s)
  PROVE  Left(s, S)[n] \in Seq(X)
  <1> DEFINE f == Left(s, S)
             C == {k \in 0 .. Len(s) : f[k] \notin Seq(X)}
  <1> SUFFICES ASSUME C # {}
               PROVE  FALSE
    OBVIOUS
  <1>0. Len(s) \in Nat
    BY LenProperties
  <1>1. PICK k \in C : \A l \in C : k <= l
    <2>1. C \in SUBSET Nat
      BY <1>0
    <2> HIDE DEF C
    <2> QED
      BY <2>1, LeastNumber
  <1>2. k \in 0 .. Len(s) /\ f[k] \notin Seq(X)
    BY <1>1
  <1>3. k # 0 => f[k - 1] \in Seq(X) /\ s[k] \in X
    BY <1>0, <1>1, <1>2, ElementOfSeq
  <1> HIDE DEF C
  <1>4. f[k] = IF k = 0 THEN << >>
               ELSE IF k \in S THEN f[k - 1] ELSE Append(f[k - 1], s[k])
    BY <1>2, LeftMeans
  <1> HIDE DEF f
  <1>5. << >> \in Seq(X) /\ (k # 0 => Append(f[k - 1], s[k]) \in Seq(X))
    BY <1>3, EmptySeq, AppendProperties
  <1> QED
    BY <1>2, <1>3, <1>4, <1>5

\* Places behind the last one looked at do not matter.
LEMMA LeftAgree ==
  ASSUME NEW X, NEW s \in Seq(X), NEW S, NEW T, NEW n \in 0 .. Len(s),
         \A k \in 1 .. n : k \in S <=> k \in T
  PROVE  Left(s, S)[n] = Left(s, T)[n]
  <1> DEFINE f == Left(s, S)
             g == Left(s, T)
             C == {k \in 0 .. n : f[k] # g[k]}
  <1> SUFFICES ASSUME C # {}
               PROVE  FALSE
    <2>1. n \in 0 .. n
      BY LenProperties
    <2> QED
      BY <2>1
  <1>0. Len(s) \in Nat
    BY LenProperties
  <1>1. PICK k \in C : \A l \in C : k <= l
    <2>1. C \in SUBSET Nat
      BY <1>0
    <2> HIDE DEF C
    <2> QED
      BY <2>1, LeastNumber
  <1>2. k \in 0 .. n /\ k \in 0 .. Len(s) /\ f[k] # g[k]
    BY <1>0, <1>1
  <1>3. k # 0 => f[k - 1] = g[k - 1] /\ (k \in S <=> k \in T)
    BY <1>0, <1>1, <1>2
  <1> HIDE DEF C
  <1>4. f[k] = IF k = 0 THEN << >>
               ELSE IF k \in S THEN f[k - 1] ELSE Append(f[k - 1], s[k])
    BY <1>2, LeftMeans
  <1>5. g[k] = IF k = 0 THEN << >>
               ELSE IF k \in T THEN g[k - 1] ELSE Append(g[k - 1], s[k])
    BY <1>2, LeftMeans
  <1> HIDE DEF f, g
  <1> QED
    BY <1>2, <1>3, <1>4, <1>5

\* Concatenation is associative, for sequences of nodes.
LEMMA NodesAssociative ==
  ASSUME NEW p \in Seq(Node), NEW q \in Seq(Node), NEW r \in Seq(Node)
  PROVE  (p \o q) \o r = p \o (q \o r)
  BY ConcatAssociative, SMTT(30)

\* Behind the last place in S everything is left.
LEMMA LeftSplit ==
  ASSUME NEW s \in Seq(Node), NEW S, NEW n \in 0 .. Len(s),
         \A k \in S : ~(n < k /\ k <= Len(s))
  PROVE  Left(s, S)[Len(s)] = Left(s, S)[n] \o SubSeq(s, n + 1, Len(s))
  <1> DEFINE f == Left(s, S)
             a == f[n]
             want(k) == a \o SubSeq(s, n + 1, k)
             C == {k \in n .. Len(s) : f[k] # want(k)}
  <1>0. Len(s) \in Nat /\ n \in Nat /\ n <= Len(s)
    BY LenProperties
  <1> SUFFICES ASSUME C # {}
               PROVE  FALSE
    <2> HIDE DEF f, want
    <2>1. Len(s) \in n .. Len(s)
      BY <1>0
    <2>2. f[Len(s)] = want(Len(s))
      BY <2>1
    <2> QED
      BY <2>2 DEF f, want
  <1> HIDE DEF f, want
  <1>1. PICK k \in C : \A l \in C : k <= l
    <2>1. C \in SUBSET Nat
      BY <1>0
    <2> HIDE DEF C
    <2> QED
      BY <2>1, LeastNumber
  <1>2. k \in n .. Len(s) /\ k \in 0 .. Len(s) /\ f[k] # want(k)
    BY <1>0, <1>1
  <1>3. k # n => f[k - 1] = want(k - 1)
    BY <1>0, <1>1, <1>2
  <1> HIDE DEF C
  <1> USE DEF f
  <1>4. k \notin S \/ k = n
    BY <1>0, <1>2
  <1>5. f[k] = IF k = 0 THEN << >>
               ELSE IF k \in S THEN f[k - 1] ELSE Append(f[k - 1], s[k])
    BY <1>2, LeftMeans
  <1>6. a \in Seq(Node)
    BY LeftType
  <1> HIDE DEF a
  <1>7. CASE k = n
    <2>1. SubSeq(s, n + 1, n) = << >>
      BY <1>0
    <2>2. a \o << >> = a
      BY <1>6, ConcatEmptySeq
    <2> QED
      BY <1>2, <1>7, <2>1, <2>2 DEF a, want
  <1>8. CASE k # n
    <2>1. PICK j \in 0 .. (Len(s) - 1) : j = k - 1 /\ n + 1 \in 1 .. (j + 1)
      BY <1>0, <1>2, <1>8
    <2>2. SubSeq(s, n + 1, k) = Append(SubSeq(s, n + 1, k - 1), s[k])
      <3>1. SubSeq(s, n + 1, j + 1) = Append(SubSeq(s, n + 1, j), s[j + 1])
        BY <2>1, SubSeqLonger
      <3> QED
        BY <1>0, <1>2, <2>1, <3>1
    <2>3. SubSeq(s, n + 1, k - 1) \in Seq(Node) /\ s[k] \in Node
      <3>1. \A i \in n + 1 .. k - 1 : s[i] \in Node
        BY <1>0, <1>2, ElementOfSeq
      <3>2. s[k] \in Node
        BY <1>0, <1>2, <1>8, ElementOfSeq
      <3>3. SubSeq(s, n + 1, k - 1) \in Seq(Node)
        BY <1>0, <1>2, <3>1, SubSeqProperties
      <3> QED
        BY <3>2, <3>3
    <2> DEFINE u == SubSeq(s, n + 1, k - 1)
               e == s[k]
    <2>4. f[k] = Append(f[k - 1], e) /\ f[k - 1] = a \o u
      <3>1. f[k - 1] = a \o u
        BY <1>3, <1>8 DEF want
      <3>2. k \notin S /\ k # 0
        BY <1>0, <1>2, <1>4, <1>8
      <3> HIDE DEF f, u
      <3> QED
        BY <1>5, <3>1, <3>2
    <2>5. u \in Seq(Node) /\ e \in Node /\ SubSeq(s, n + 1, k) = Append(u, e)
      BY <2>2, <2>3
    <2> HIDE DEF u, e, f
    <2>6. Append(a \o u, e) = a \o Append(u, e)
      <3>1. a \o u \in Seq(Node) /\ <<e>> \in Seq(Node)
        BY <1>6, <2>5, ConcatProperties
      <3>2. PICK y \in Seq(Node) : y = <<e>>
        BY <3>1
      <3>3. Append(a \o u, e) = (a \o u) \o y /\ Append(u, e) = u \o y
        BY <2>5, <3>1, <3>2, AppendIsConcat
      <3>4. (a \o u) \o y = a \o (u \o y)
        BY <1>6, <2>5, <3>2, NodesAssociative, Zenon
      <3> QED
        BY <3>3, <3>4, Zenon
    <2>7. want(k) = a \o Append(u, e)
      BY <2>5 DEF want
    <2> QED
      BY <1>2, <2>4, <2>6, <2>7
  <1> QED
    BY <1>7, <1>8

-----------------------------------------------------------------------------
(* The list as a sequence                                                  *)

\* The place behind i in s is s[i], and the head closes the ring.
At(s, i) == IF i \in 1 .. Len(s) THEN s[i] ELSE ListHead

Distinct(s) == \A i, j \in 1 .. Len(s) : s[i] = s[j] => i = j

\* The list is s: linked in this order, from the head to the head, and
\* nothing else is allocated.
Shape(s) ==
    /\ s \in Seq(Node) /\ Distinct(s)
    /\ \A i \in 0 .. Len(s) : next[At(s, i)] = At(s, i + 1)
    /\ live = {s[i] : i \in 1 .. Len(s)}

\* No more distinct nodes than there are.
LEMMA DistinctBound ==
  ASSUME NEW s \in Seq(Node), Distinct(s)
  PROVE  Cardinality(Node) \in Nat /\ Len(s) \in Nat /\ Len(s) <= Cardinality(Node)
  <1>1. Len(s) \in Nat /\ s \in [1 .. Len(s) -> Node]
    BY LenProperties
  <1>2. IsFiniteSet(Node) /\ Cardinality(Node) \in Nat
    BY ListAssumption, FS_CardinalityType DEF ListAssumption
  <1>3. IsFiniteSet(1 .. Len(s)) /\ Cardinality(1 .. Len(s)) = Len(s)
    BY <1>1, FS_Interval
  <1>4. s \in Injection(1 .. Len(s), Node)
    BY <1>1 DEF Distinct, Injection, IsInjective
  <1> QED
    BY <1>1, <1>2, <1>3, <1>4, FS_Injection

\* Chain finds the rest of a sequence that is linked from m on.
LEMMA ChainIsRest ==
  ASSUME NEW s \in Seq(Node), Distinct(s), NEW m \in 1 .. Len(s) + 1,
         \A i \in m .. Len(s) : next[s[i]] = At(s, i + 1)
  PROVE  Chain(At(s, m)) = SubSeq(s, m, Len(s))
  <1> DEFINE bound == Cardinality(Node)
             n == Len(s)
             p == At(s, m)
             Hop(f) == f = [k \in 0 .. bound |-> IF k = 0 THEN p ELSE Follow(f[k - 1])]
             h == [k \in 0 .. bound |-> At(s, m + k)]
             len == Cardinality({k \in 0 .. bound : h[k] \in Node})
  <1>1. bound \in Nat /\ n \in Nat /\ n <= bound /\ m \in 1 .. n + 1
    BY DistinctBound
  <1>2. \A i \in 1 .. n : s[i] \in Node
    BY ElementOfSeq
  <1>3. ListHead \notin Node
    BY ListAssumption DEF ListAssumption
  <1>4. \A i \in Nat : i >= m => Follow(At(s, i)) = At(s, i + 1)
    <2> SUFFICES ASSUME NEW i \in Nat, i >= m
                 PROVE  Follow(At(s, i)) = At(s, i + 1)
      OBVIOUS
    <2>1. CASE i <= n
      <3>1. At(s, i) = s[i] /\ s[i] \in Node /\ next[s[i]] = At(s, i + 1)
        BY <1>1, <1>2, <2>1 DEF At
      <3> QED
        BY <3>1 DEF Follow
    <2>2. CASE ~(i <= n)
      <3>1. At(s, i) = ListHead /\ At(s, i + 1) = ListHead
        BY <1>1, <2>2 DEF At
      <3> QED
        BY <1>3, <3>1 DEF Follow
    <2> QED
      BY <2>1, <2>2
  <1>5. Hop(h)
    <2> HIDE DEF bound
    <2>1. \A k \in 0 .. bound : h[k] = IF k = 0 THEN p ELSE Follow(h[k - 1])
      <3> SUFFICES ASSUME NEW k \in 0 .. bound
                   PROVE  h[k] = IF k = 0 THEN p ELSE Follow(h[k - 1])
        OBVIOUS
      <3>1. h[k] = At(s, m + k)
        OBVIOUS
      <3>2. CASE k = 0
        BY <1>1, <3>1, <3>2
      <3>3. CASE k # 0
        <4>1. h[k - 1] = At(s, m + k - 1)
          BY <1>1, <3>3
        <4>2. Follow(At(s, m + k - 1)) = At(s, m + k - 1 + 1)
          BY <1>1, <1>4, <3>3
        <4>3. m + k - 1 + 1 = m + k
          BY <1>1
        <4> QED
          BY <3>1, <3>3, <4>1, <4>2, <4>3
      <3> QED
        BY <3>2, <3>3
    <2>2. h = [k \in 0 .. bound |-> h[k]]
      OBVIOUS
    <2> HIDE DEF h, p
    <2> QED
      BY <2>1, <2>2
  <1>6. ASSUME NEW f, Hop(f)
        PROVE  f = h
    <2> HIDE DEF bound
    <2>1. \A k \in 0 .. bound : f[k] = IF k = 0 THEN p ELSE Follow(f[k - 1])
      <3> HIDE DEF p
      <3> QED
        BY <1>6
    <2>2. \A k \in 0 .. bound : h[k] = IF k = 0 THEN p ELSE Follow(h[k - 1])
      <3> HIDE DEF p, h
      <3> QED
        BY <1>5
    <2>3. f = [k \in 0 .. bound |-> f[k]] /\ h = [k \in 0 .. bound |-> h[k]]
      <3> HIDE DEF p
      <3>1. DOMAIN f = 0 .. bound
        BY <1>6
      <3>2. f = [k \in 0 .. bound |-> f[k]]
        BY <1>6
      <3> QED
        BY <3>2
    <2> HIDE DEF p, h
    <2>4. ASSUME NEW k0 \in 0 .. bound, f[k0] # h[k0]
          PROVE  FALSE
      <3> DEFINE C == {k \in 0 .. bound : f[k] # h[k]}
      <3>1. C \in SUBSET Nat /\ C # {}
        BY <1>1, <2>4
      <3>2. PICK k \in C : \A l \in C : k <= l
        <4> HIDE DEF C
        <4> QED
          BY <3>1, LeastNumber
      <3>3. k \in 0 .. bound /\ f[k] # h[k] /\ (k # 0 => f[k - 1] = h[k - 1])
        BY <1>1, <3>2
      <3> HIDE DEF C
      <3> QED
        BY <2>1, <2>2, <3>3
    <2> QED
      BY <2>3, <2>4
  <1>7. (CHOOSE f : Hop(f)) = h
    <2> HIDE DEF h
    <2> QED
      BY <1>5, <1>6
  <1>8. Chain(p) = [i \in 1 .. len |-> h[i - 1]]
    <2>1. Chain(p) = LET c == CHOOSE f : Hop(f)
                     IN  [i \in 1 .. Cardinality({k \in 0 .. bound : c[k] \in Node}) |-> c[i - 1]]
      BY DEF Chain
    <2> HIDE DEF h, Hop, p, bound
    <2> QED
      BY <1>7, <2>1
  <1>9. len = n - m + 1
    <2>1. {k \in 0 .. bound : h[k] \in Node} = 0 .. (n - m)
      <3>1. ASSUME NEW k \in 0 .. bound
            PROVE  h[k] \in Node <=> k <= n - m
        <4>1. h[k] = At(s, m + k)
          OBVIOUS
        <4>2. CASE m + k <= n
          BY <1>1, <1>2, <4>1, <4>2 DEF At
        <4>3. CASE ~(m + k <= n)
          BY <1>1, <1>3, <4>1, <4>3 DEF At
        <4> QED
          BY <1>1, <4>2, <4>3
      <3> HIDE DEF h, bound, n
      <3> QED
        BY <1>1, <3>1
    <2>2. Cardinality(0 .. (n - m)) = n - m + 1
      <3> HIDE DEF n
      <3>1. PICK b \in Int : b = n - m
        BY <1>1
      <3>2. Cardinality(0 .. b) = IF 0 > b THEN 0 ELSE b - 0 + 1
        BY FS_Interval
      <3>3. n - m + 1 = IF 0 > b THEN 0 ELSE b - 0 + 1
        BY <1>1, <3>1
      <3> QED
        BY <3>1, <3>2, <3>3
    <2> QED
      BY <2>1, <2>2
  <1>10. \A i \in 1 .. len : h[i - 1] = s[m + i - 1]
    <2> SUFFICES ASSUME NEW i \in 1 .. (n - m + 1)
                 PROVE  h[i - 1] = s[m + i - 1]
      BY <1>9
    <2>1. i - 1 \in 0 .. bound /\ m + (i - 1) = m + i - 1 /\ m + i - 1 \in 1 .. n
      BY <1>1
    <2> HIDE DEF bound
    <2>2. h[i - 1] = At(s, m + (i - 1))
      BY <2>1
    <2> QED
      BY <2>1, <2>2 DEF At
  <1>11. SubSeq(s, m, n) = [i \in 1 .. (n - m + 1) |-> s[m + i - 1]]
    <2> HIDE DEF n
    <2> QED
      BY <1>1, SMTT(30)
  <1> HIDE DEF len, h, p, bound, n
  <1> QED
    BY <1>8, <1>9, <1>10, <1>11 DEF p, n

\* A place of the sequence or the head: each is met once.
LEMMA AtProperties ==
  ASSUME NEW s \in Seq(Node), Distinct(s)
  PROVE  /\ Len(s) \in Nat
         /\ \A i \in 1 .. Len(s) : At(s, i) = s[i] /\ s[i] \in Node /\ s[i] # ListHead
         /\ At(s, 0) = ListHead /\ At(s, Len(s) + 1) = ListHead
         /\ \A i, k \in 0 .. Len(s) : At(s, i) = At(s, k) => i = k
  <1>1. Len(s) \in Nat
    BY LenProperties
  <1>2. \A i \in 1 .. Len(s) : s[i] \in Node /\ s[i] # ListHead
    BY ElementOfSeq, ListAssumption DEF ListAssumption
  <1> QED
    BY <1>1, <1>2 DEF At, Distinct

\* A sequence without one element, place by place.
LEMMA OneOut ==
  ASSUME NEW S, NEW a \in Seq(S), NEW n \in S, NEW b \in Seq(S),
         NEW s, s = (a \o <<n>>) \o b, NEW t, t = a \o b, NEW j, j = Len(a) + 1
  PROVE  /\ s \in Seq(S) /\ Len(s) \in Nat /\ t \in Seq(S) /\ Len(t) = Len(s) - 1
         /\ j \in 1 .. Len(s) /\ s[j] = n
         /\ \A i \in 1 .. Len(t) : t[i] = IF i < j THEN s[i] ELSE s[i + 1]
         /\ Len(s) = j + Len(b) /\ \A i \in 1 .. Len(b) : s[j + i] = b[i]
  <1>1. <<n>> \in Seq(S) /\ Len(<<n>>) = 1 /\ <<n>>[1] = n
    OBVIOUS
  <1>2. Len(a) \in Nat /\ Len(b) \in Nat
    BY LenProperties
  <1> DEFINE c == a \o <<n>>
  <1>3. /\ c \in Seq(S) /\ Len(c) = Len(a) + 1
        /\ \A i \in 1 .. Len(a) + 1 : c[i] = IF i <= Len(a) THEN a[i] ELSE n
    <2>1. \A i \in 1 .. Len(a) + 1 : c[i] = IF i <= Len(a) THEN a[i] ELSE <<n>>[i - Len(a)]
      BY <1>1, ConcatProperties
    <2>2. \A i \in 1 .. Len(a) + 1 : ~(i <= Len(a)) => i - Len(a) = 1
      BY <1>2
    <2> QED
      BY <1>1, <2>1, <2>2, ConcatProperties
  <1> HIDE DEF c
  <1>4. /\ Len(s) = Len(c) + Len(b)
        /\ \A i \in 1 .. Len(c) + Len(b) : s[i] = IF i <= Len(c) THEN c[i] ELSE b[i - Len(c)]
    BY <1>3, ConcatProperties DEF c
  <1>5. s \in Seq(S)
    BY <1>3, ConcatProperties DEF c
  <1>6. /\ t \in Seq(S) /\ Len(t) = Len(a) + Len(b)
        /\ \A i \in 1 .. Len(a) + Len(b) : t[i] = IF i <= Len(a) THEN a[i] ELSE b[i - Len(a)]
    BY ConcatProperties
  <1>7. ASSUME NEW i \in 1 .. Len(t)
        PROVE  t[i] = IF i < j THEN s[i] ELSE s[i + 1]
    <2>1. CASE i <= Len(a)
      <3>1. t[i] = a[i] /\ c[i] = a[i] /\ s[i] = c[i]
        BY <1>2, <1>3, <1>4, <1>6, <2>1
      <3> QED
        BY <1>2, <2>1, <3>1
    <2>2. CASE ~(i <= Len(a))
      <3>1. t[i] = b[i - Len(a)]
        BY <1>2, <1>6, <2>2
      <3>2. s[i + 1] = b[(i + 1) - Len(c)]
        BY <1>2, <1>3, <1>4, <1>6, <2>2
      <3>3. (i + 1) - Len(c) = i - Len(a)
        BY <1>2, <1>3
      <3> QED
        BY <1>2, <2>2, <3>1, <3>2, <3>3
    <2> QED
      BY <2>1, <2>2
  <1>8. s[j] = n
    BY <1>2, <1>3, <1>4
  <1>9. ASSUME NEW i \in 1 .. Len(b)
        PROVE  s[j + i] = b[i]
    <2>1. j + i \in 1 .. Len(c) + Len(b) /\ ~(j + i <= Len(c)) /\ (j + i) - Len(c) = i
      BY <1>2, <1>3
    <2> QED
      BY <1>4, <2>1
  <1> QED
    BY <1>2, <1>3, <1>4, <1>6, <1>7, <1>8, <1>5, <1>9

\* Unlinking a node takes it out of the sequence.
LEMMA UnlinkAt ==
  ASSUME TypeOK, Ring, NEW s, Shape(s), NEW t \in Seq(Node), NEW j \in 1 .. Len(s), NEW n, s[j] = n,
         Len(t) = Len(s) - 1, \A i \in 1 .. Len(t) : t[i] = IF i < j THEN s[i] ELSE s[i + 1],
         Unlink(n)
  PROVE  Shape(t)'
  <1>1. /\ Len(s) \in Nat /\ t \in Seq(Node) /\ Len(t) = Len(s) - 1
        /\ j \in 1 .. Len(s) /\ s[j] = n
        /\ \A i \in 1 .. Len(t) : t[i] = IF i < j THEN s[i] ELSE s[i + 1]
    BY LenProperties DEF Shape
  <1>2. /\ s \in Seq(Node) /\ Distinct(s)
        /\ \A i \in 0 .. Len(s) : next[At(s, i)] = At(s, i + 1)
        /\ live = {s[i] : i \in 1 .. Len(s)}
    BY DEF Shape
  <1>3. /\ \A i \in 1 .. Len(s) : At(s, i) = s[i] /\ s[i] \in Node /\ s[i] # ListHead
        /\ At(s, 0) = ListHead /\ At(s, Len(s) + 1) = ListHead
        /\ \A i, k \in 0 .. Len(s) : At(s, i) = At(s, k) => i = k
    BY <1>2, AtProperties
  <1>4. next[n] = At(s, j + 1) /\ prev[n] = At(s, j - 1)
    <2>1. At(s, j - 1) \in live \cup {ListHead}
      BY <1>1, <1>2, <1>3
    <2>2. next[At(s, j - 1)] = n /\ next[n] = At(s, j + 1)
      BY <1>1, <1>2, <1>3
    <2> QED
      BY <2>1, <2>2 DEF Ring
  <1>5. \A i \in 0 .. Len(s) : At(s, i) \in Place
    BY <1>1, <1>3 DEF Place
  <1>6. \A m \in Place : m # n => next'[m] = IF m = prev[n] THEN next[n] ELSE next[m]
    BY DEF Unlink, NextWithout, TypeOK
  <1>7. \A i \in 0 .. Len(t) + 1 : At(t, i) = IF i < j THEN At(s, i) ELSE At(s, i + 1)
    BY <1>1 DEF At
  <1>8. Distinct(t)
    <2> SUFFICES ASSUME NEW i \in 1 .. Len(t), NEW k \in 1 .. Len(t), t[i] = t[k]
                 PROVE  i = k
      BY DEF Distinct
    <2> DEFINE f(l) == IF l < j THEN l ELSE l + 1
    <2>1. f(i) \in 1 .. Len(s) /\ f(k) \in 1 .. Len(s) /\ (f(i) = f(k) => i = k)
      BY <1>1
    <2>2. t[i] = s[f(i)] /\ t[k] = s[f(k)]
      BY <1>1
    <2> HIDE DEF f
    <2> QED
      BY <1>2, <2>1, <2>2 DEF Distinct
  <1>9. ASSUME NEW i \in 0 .. Len(t)
        PROVE  next'[At(t, i)] = At(t, i + 1)
    <2>1. PICK k \in 0 .. Len(s) : k = (IF i < j THEN i ELSE i + 1) /\ k # j
      BY <1>1
    <2>2. At(t, i) = At(s, k)
      BY <1>1, <1>7, <2>1
    <2>3. At(s, k) # n /\ (At(s, k) = prev[n] <=> k = j - 1)
      BY <1>1, <1>3, <1>4, <2>1
    <2>4. next'[At(s, k)] = IF k = j - 1 THEN At(s, j + 1) ELSE At(s, k + 1)
      BY <1>2, <1>4, <1>5, <1>6, <2>3
    <2>5. At(t, i + 1) = IF k = j - 1 THEN At(s, j + 1) ELSE At(s, k + 1)
      BY <1>1, <1>7, <2>1
    <2> QED
      BY <2>2, <2>4, <2>5
  <1>10. live' = {t[i] : i \in 1 .. Len(t)}
    <2>1. live' = live \ {n}
      BY DEF Unlink
    <2>2. ASSUME NEW m \in live'
          PROVE  \E i \in 1 .. Len(t) : m = t[i]
      <3>1. PICK k \in 1 .. Len(s) : m = s[k] /\ k # j
        BY <1>1, <1>2, <2>1
      <3>2. CASE k < j
        BY <1>1, <3>1, <3>2
      <3>3. CASE ~(k < j)
        <4>1. k - 1 \in 1 .. Len(t) /\ ~(k - 1 < j) /\ (k - 1) + 1 = k
          BY <1>1, <3>1, <3>3
        <4>2. t[k - 1] = s[k]
          BY <1>1, <4>1
        <4> QED
          BY <3>1, <4>1, <4>2
      <3> QED
        BY <3>2, <3>3
    <2>3. ASSUME NEW i \in 1 .. Len(t)
          PROVE  t[i] \in live'
      <3>1. PICK k \in 1 .. Len(s) : t[i] = s[k] /\ k # j
        <4>1. i \in 1 .. Len(s) /\ i + 1 \in 1 .. Len(s) /\ i + 1 > i /\ j \in Int
          BY <1>1
        <4>2. i < j => t[i] = s[i] /\ i # j
          BY <1>1, <4>1
        <4>3. ~(i < j) => t[i] = s[i + 1] /\ i + 1 # j
          BY <1>1, <4>1
        <4> QED
          BY <4>1, <4>2, <4>3
      <3>2. s[k] # n
        BY <1>1, <1>2, <3>1 DEF Distinct
      <3> QED
        BY <1>2, <2>1, <3>1, <3>2
    <2> QED
      BY <2>2, <2>3
  <1> QED
    BY <1>1, <1>8, <1>9, <1>10 DEF Shape

\* Linking a new node behind the head puts it first.
LEMMA InsertFirst ==
  ASSUME TypeOK, Ring, NEW s, Shape(s), NEW n \in Node \ live, NEW fn, fn = "insert_forward",
         live' = live \cup {n}, Link(n, NewPrev(fn), NewNext(fn)),
         NEW t \in Seq(Node), Len(t) = Len(s) + 1, t[1] = n, \A i \in 1 .. Len(s) : t[i + 1] = s[i]
  PROVE  Shape(t)'
  <1>1. /\ s \in Seq(Node) /\ Distinct(s)
        /\ \A i \in 0 .. Len(s) : next[At(s, i)] = At(s, i + 1)
        /\ live = {s[i] : i \in 1 .. Len(s)}
    BY DEF Shape
  <1>2. /\ Len(s) \in Nat
        /\ \A i \in 1 .. Len(s) : At(s, i) = s[i] /\ s[i] \in Node /\ s[i] # ListHead
        /\ At(s, 0) = ListHead /\ At(s, Len(s) + 1) = ListHead
        /\ \A i, k \in 0 .. Len(s) : At(s, i) = At(s, k) => i = k
    BY <1>1, AtProperties
  <1>3. n # ListHead /\ \A i \in 0 .. Len(s) : At(s, i) # n /\ At(s, i) \in Place
    BY <1>1, <1>2, ListAssumption DEF ListAssumption, Place
  <1>4. prev[ListHead] = At(s, Len(s)) /\ next[ListHead] = At(s, 1)
    <2>1. next[At(s, Len(s))] = ListHead
      BY <1>1, <1>2
    <2>2. At(s, Len(s)) \in live \cup {ListHead}
      BY <1>1, <1>2
    <2>3. next[ListHead] = At(s, 0 + 1)
      BY <1>1, <1>2
    <2> QED
      BY <2>1, <2>2, <2>3 DEF Ring
  <1>5. t \in Seq(Node) /\ Len(t) = Len(s) + 1 /\ t[1] = n /\ \A i \in 1 .. Len(s) : t[i + 1] = s[i]
    OBVIOUS
  <1>6. \A m \in Place : next'[m] = IF m = n THEN At(s, 1) ELSE IF m = ListHead THEN n ELSE next[m]
    BY <1>3, <1>4 DEF Link, NewPrev, NewNext, TypeOK
  <1>7. ASSUME NEW i \in 0 .. Len(t)
        PROVE  next'[At(t, i)] = At(t, i + 1)
    <2>1. CASE i = 0
      <3>1. At(t, i) = ListHead /\ At(t, i + 1) = n
        BY <1>2, <1>5, <2>1 DEF At
      <3> QED
        BY <1>3, <1>6, <3>1 DEF Place
    <2>2. CASE i # 0
      <3>1. PICK k \in 0 .. Len(s) : i = k + 1
        <4>1. i - 1 \in 0 .. Len(s) /\ i = (i - 1) + 1
          BY <1>2, <1>5, <2>2
        <4> QED
          BY <4>1
      <3>2. At(t, i + 1) = At(s, k + 1)
        <4>1. CASE k + 1 \in 1 .. Len(s)
          <5>1. t[(k + 1) + 1] = s[k + 1] /\ (k + 1) + 1 \in 1 .. Len(t)
            BY <1>2, <1>5, <4>1
          <5> QED
            BY <3>1, <4>1, <5>1 DEF At
        <4>2. CASE ~(k + 1 \in 1 .. Len(s))
          <5>1. i + 1 \notin 1 .. Len(t)
            BY <1>2, <1>5, <3>1, <4>2
          <5> QED
            BY <4>2, <5>1 DEF At
        <4> QED
          BY <4>1, <4>2
      <3>3. At(t, i) = IF k = 0 THEN n ELSE At(s, k)
        BY <1>2, <1>5, <3>1 DEF At
      <3>4. k # 0 => At(s, k) # ListHead
        BY <1>2
      <3>5. next'[At(t, i)] = At(s, k + 1)
        <4>1. CASE k = 0
          BY <1>3, <1>6, <3>3, <4>1 DEF Place
        <4>2. CASE k # 0
          BY <1>1, <1>3, <1>6, <3>3, <3>4, <4>2
        <4> QED
          BY <4>1, <4>2
      <3> QED
        BY <3>2, <3>5
    <2> QED
      BY <2>1, <2>2
  <1>8. Distinct(t)
    <2> SUFFICES ASSUME NEW i \in 1 .. Len(t), NEW k \in 1 .. Len(t), t[i] = t[k], i # k
                 PROVE  FALSE
      BY DEF Distinct
    <2>1. \A l \in 1 .. Len(t) : l = 1 \/ (l - 1 \in 1 .. Len(s) /\ (l - 1) + 1 = l)
      BY <1>2, <1>5
    <2>2. ASSUME NEW l \in 1 .. Len(t), l # 1
          PROVE  t[l] = s[l - 1] /\ t[l] # n
      <3>1. PICK m \in 1 .. Len(s) : m = l - 1 /\ m + 1 = l
        BY <2>1, <2>2
      <3>2. t[m + 1] = s[m]
        BY <1>5, <3>1
      <3> QED
        BY <1>2, <1>3, <3>1, <3>2
    <2>3. i # 1 /\ k # 1
      BY <1>5, <2>2
    <2>4. s[i - 1] = s[k - 1] /\ i - 1 \in 1 .. Len(s) /\ k - 1 \in 1 .. Len(s) /\ i - 1 # k - 1
      BY <2>1, <2>2, <2>3
    <2> QED
      BY <1>1, <2>4 DEF Distinct
  <1>9. live' = {t[i] : i \in 1 .. Len(t)}
    <2>1. \A m \in live' : \E i \in 1 .. Len(t) : m = t[i]
      BY <1>1, <1>2, <1>5
    <2>2. ASSUME NEW i \in 1 .. Len(t)
          PROVE  t[i] \in live'
      <3>1. i = 1 \/ \E k \in 1 .. Len(s) : i = k + 1
        <4>1. i = 1 \/ (i - 1 \in 1 .. Len(s) /\ i = (i - 1) + 1)
          BY <1>2, <1>5
        <4> QED
          BY <4>1
      <3> QED
        BY <1>1, <1>5, <3>1
    <2> QED
      BY <2>1, <2>2
  <1> QED
    BY <1>5, <1>7, <1>8, <1>9 DEF Shape

\* Linking a new node before the head puts it last.
LEMMA InsertLast ==
  ASSUME TypeOK, Ring, NEW s, Shape(s), NEW n \in Node \ live, NEW fn, fn # "insert_forward",
         live' = live \cup {n}, Link(n, NewPrev(fn), NewNext(fn)),
         NEW t, t = Append(s, n)
  PROVE  Shape(t)'
  <1>1. /\ s \in Seq(Node) /\ Distinct(s)
        /\ \A i \in 0 .. Len(s) : next[At(s, i)] = At(s, i + 1)
        /\ live = {s[i] : i \in 1 .. Len(s)}
    BY DEF Shape
  <1>2. /\ Len(s) \in Nat
        /\ \A i \in 1 .. Len(s) : At(s, i) = s[i] /\ s[i] \in Node /\ s[i] # ListHead
        /\ At(s, 0) = ListHead /\ At(s, Len(s) + 1) = ListHead
        /\ \A i, k \in 0 .. Len(s) : At(s, i) = At(s, k) => i = k
    BY <1>1, AtProperties
  <1>3. n # ListHead /\ \A i \in 0 .. Len(s) : At(s, i) # n /\ At(s, i) \in Place
    BY <1>1, <1>2, ListAssumption DEF ListAssumption, Place
  <1>4. prev[ListHead] = At(s, Len(s)) /\ next[ListHead] = At(s, 1)
    <2>1. next[At(s, Len(s))] = ListHead
      BY <1>1, <1>2
    <2>2. At(s, Len(s)) \in live \cup {ListHead}
      BY <1>1, <1>2
    <2>3. next[ListHead] = At(s, 0 + 1)
      BY <1>1, <1>2
    <2> QED
      BY <2>1, <2>2, <2>3 DEF Ring
  <1>5. t \in Seq(Node) /\ Len(t) = Len(s) + 1 /\ t[Len(s) + 1] = n /\ \A i \in 1 .. Len(s) : t[i] = s[i]
    BY <1>1, AppendProperties
  <1>6. \A m \in Place : next'[m] = IF m = n THEN ListHead ELSE IF m = At(s, Len(s)) THEN n ELSE next[m]
    BY <1>2, <1>3, <1>4 DEF Link, NewPrev, NewNext, TypeOK
  <1>7. ASSUME NEW i \in 0 .. Len(t)
        PROVE  next'[At(t, i)] = At(t, i + 1)
    <2>1. CASE i = Len(s) + 1
      <3>1. At(t, i) = n /\ At(t, i + 1) = ListHead
        BY <1>2, <1>5, <2>1 DEF At
      <3> QED
        BY <1>6, <3>1 DEF Place
    <2>2. CASE i = Len(s)
      <3>1. At(t, i) = At(s, i) /\ At(t, i + 1) = n
        BY <1>2, <1>5, <2>2 DEF At
      <3> QED
        BY <1>2, <1>3, <1>6, <2>2, <3>1
    <2>3. CASE i < Len(s)
      <3>1. At(t, i) = At(s, i) /\ At(t, i + 1) = At(s, i + 1) /\ i \in 0 .. Len(s) /\ i # Len(s)
        BY <1>2, <1>5, <2>3 DEF At
      <3>2. At(s, i) # At(s, Len(s))
        BY <1>2, <3>1
      <3> QED
        BY <1>1, <1>3, <1>6, <3>1, <3>2
    <2> QED
      BY <1>2, <1>5, <2>1, <2>2, <2>3
  <1>8. Distinct(t)
    BY <1>1, <1>2, <1>3, <1>5 DEF Distinct
  <1>9. live' = {t[i] : i \in 1 .. Len(t)}
    BY <1>1, <1>2, <1>5
  <1> QED
    BY <1>5, <1>7, <1>8, <1>9 DEF Shape

-----------------------------------------------------------------------------
(* A call in progress                                                      *)

\* The places of the nodes that the loops of these two calls remove.
Dropped == IF call.fn \in {"check", "travel_delete"} THEN Hits ELSE {}

\* The list in the middle of a loop: what is left of the part behind the
\* cursor, and the part before it.
Current == Left(called, Dropped)[steps] \o SubSeq(called, steps + 1, Len(called))

\* Which node the cursor is at, what the list is, and that no iteration
\* before this one should have ended the loop.
Midway ==
    /\ call \in Requests
    /\ called \in Seq(Node) /\ Distinct(called)
    /\ steps \in 0 .. Len(called) /\ cur = At(called, steps + 1)
    /\ IF call.fn \in Teardown
       THEN /\ \A i \in steps + 1 .. Len(called) : next[called[i]] = At(called, i + 1)
            /\ live = {called[i] : i \in steps + 1 .. Len(called)}
       ELSE /\ Shape(Current)
            /\ \A i \in 1 .. steps : i \notin Ends /\ (call.fn \in Searches => i \notin Hits)

\* The second invariant, about the list as a sequence.
SInv ==
    /\ busy => Midway
    /\ made /\ ~busy => \E s : Shape(s) /\ Promise(call.fn, s)

\* The parts of the list at the cursor.
LEMMA AtCursor ==
  ASSUME Midway, cur # ListHead
  PROVE  /\ Len(called) \in Nat /\ steps \in Nat /\ steps + 1 \in 1 .. Len(called)
         /\ cur = called[steps + 1] /\ cur \in Node
         /\ Left(called, Dropped)[steps] \in Seq(Node)
         /\ SubSeq(called, steps + 2, Len(called)) \in Seq(Node)
         /\ Current = (Left(called, Dropped)[steps] \o <<cur>>)
                         \o SubSeq(called, steps + 2, Len(called))
  <1>1. called \in Seq(Node) /\ Distinct(called) /\ steps \in 0 .. Len(called)
    BY DEF Midway
  <1>2. Len(called) \in Nat /\ steps \in Nat
    BY <1>1, LenProperties
  <1>3. steps + 1 \in 1 .. Len(called) /\ cur = called[steps + 1]
    BY <1>1, <1>2 DEF Midway, At
  <1>4. cur \in Node
    BY <1>1, <1>3, ElementOfSeq
  <1>5. PICK L : L = Left(called, Dropped)[steps]
    OBVIOUS
  <1>6. PICK R : R = SubSeq(called, steps + 2, Len(called))
    OBVIOUS
  <1>7. PICK c : c = cur
    OBVIOUS
  <1>8. L \in Seq(Node)
    BY <1>1, <1>5, LeftType
  <1>9. R \in Seq(Node)
    <2>1. \A i \in steps + 2 .. Len(called) : called[i] \in Node
      BY <1>1, <1>2, ElementOfSeq
    <2> QED
      BY <1>2, <1>6, <2>1, SubSeqProperties
  <1>10. SubSeq(called, steps + 1, Len(called)) = <<c>> \o R
    <2>1. Len(called) \in steps + 1 .. Len(called)
      BY <1>2, <1>3
    <2>2. SubSeq(called, steps + 1, Len(called))
            = <<called[steps + 1]>> \o SubSeq(called, (steps + 1) + 1, Len(called))
      BY <1>1, <1>3, <2>1, SubSeqRecursiveFirst
    <2>3. (steps + 1) + 1 = steps + 2
      BY <1>2
    <2> QED
      BY <1>3, <1>6, <1>7, <2>2, <2>3
  <1>11. L \o (<<c>> \o R) = (L \o <<c>>) \o R
    <2>1. <<c>> \in Seq(Node)
      BY <1>4, <1>7
    <2> QED
      BY <1>8, <1>9, <2>1, NodesAssociative, Zenon
  <1>12. Current = (L \o <<c>>) \o R
    BY <1>5, <1>10, <1>11 DEF Current
  <1> QED
    BY <1>2, <1>3, <1>4, <1>5, <1>6, <1>7, <1>8, <1>9, <1>12

\* The sequence leads from the cursor to the node after it.
LEMMA CursorMoves ==
  ASSUME Midway, cur # ListHead
  PROVE  next[cur] = At(called, steps + 2)
  <1>1. CASE call.fn \in Teardown
    <2>1. /\ \A i \in steps + 1 .. Len(called) : next[called[i]] = At(called, i + 1)
          /\ steps \in Nat /\ steps + 1 \in 1 .. Len(called) /\ cur = called[steps + 1]
      BY <1>1, AtCursor DEF Midway
    <2>2. (steps + 1) + 1 = steps + 2 /\ steps + 1 \in steps + 1 .. Len(called)
      BY <2>1
    <2> QED
      BY <2>1, <2>2
  <1>2. CASE call.fn \notin Teardown
    <2>1. PICK k \in Nat : k = steps
      BY AtCursor
    <2>2. PICK L \in Seq(Node) : L = Left(called, Dropped)[steps]
      BY AtCursor
    <2>3. PICK R \in Seq(Node) : R = SubSeq(called, k + 2, Len(called))
      BY <2>1, AtCursor
    <2>4. PICK c \in Node : c = cur
      BY AtCursor
    <2>5. PICK s : s = (L \o <<c>>) \o R
      OBVIOUS
    <2>6. s = Current
      BY <2>1, <2>2, <2>3, <2>4, <2>5, AtCursor
    <2>7. Shape(s)
      BY <1>2, <2>6 DEF Midway
    <2>8. Len(called) \in Nat /\ k + 1 \in 1 .. Len(called) /\ called \in Seq(Node)
      BY <2>1, AtCursor DEF Midway
    <2>9. Len(R) = Len(called) - (k + 1) /\ (Len(R) # 0 => R[1] = called[k + 2])
      <3>1. \A i \in k + 2 .. Len(called) : called[i] \in Node
        BY <2>8, ElementOfSeq
      <3>2. /\ Len(R) = IF k + 2 <= Len(called) THEN Len(called) - (k + 2) + 1 ELSE 0
            /\ \A i \in 1 .. Len(called) - (k + 2) + 1 : R[i] = called[(k + 2) + i - 1]
        BY <2>8, <2>3, <3>1, SubSeqProperties
      <3>3. Len(R) # 0 => 1 \in 1 .. Len(called) - (k + 2) + 1 /\ (k + 2) + 1 - 1 = k + 2
        BY <2>8, <3>2
      <3> QED
        BY <2>8, <3>2, <3>3
    <2> DEFINE j == Len(L) + 1
    <2>10. /\ j \in 1 .. Len(s) /\ Len(s) = j + Len(R) /\ s[j] = c /\ j \in Nat
          /\ (Len(R) # 0 => s[j + 1] = R[1])
      <3>1. /\ Len(s) \in Nat /\ j \in 1 .. Len(s) /\ s[j] = c
            /\ Len(s) = j + Len(R) /\ \A i \in 1 .. Len(R) : s[j + i] = R[i]
        <4>1. PICK t, i : t = L \o R /\ i = j
          OBVIOUS
        <4> QED
          BY <2>5, <4>1, OneOut
      <3>2. Len(R) \in Nat
        BY LenProperties
      <3> HIDE DEF j
      <3>3. Len(R) # 0 => 1 \in 1 .. Len(R)
        BY <3>2
      <3> QED
        BY <3>1, <3>2, <3>3
    <2> HIDE DEF j
    <2>11. next[At(s, j)] = At(s, j + 1)
      BY <2>7, <2>10 DEF Shape
    <2>12. At(s, j) = c
      BY <2>10 DEF At
    <2>13. At(s, j + 1) = At(called, k + 2)
      <3>1. CASE Len(R) = 0
        BY <2>8, <2>9, <2>10, <3>1 DEF At
      <3>2. CASE Len(R) # 0
        <4>1. k + 2 \in 1 .. Len(called) /\ j + 1 \in 1 .. Len(s)
          <5>1. Len(R) \in Nat
            BY LenProperties
          <5> QED
            BY <2>8, <2>9, <2>10, <3>2, <5>1
        <4> QED
          BY <2>9, <2>10, <3>2, <4>1 DEF At
      <3> QED
        BY <3>1, <3>2
    <2> QED
      BY <2>1, <2>11, <2>12, <2>13, <2>4
  <1> QED
    BY <1>1, <1>2

\* What is left of the list when the cursor's node is removed, or is not.
LEMMA LeftAtCursor ==
  ASSUME Midway, cur # ListHead, NEW S, \A k \in 1 .. steps : k \in S <=> k \in Dropped
  PROVE  Left(called, S)[steps + 1] \o SubSeq(called, steps + 2, Len(called))
           = IF steps + 1 \in S
             THEN Left(called, Dropped)[steps] \o SubSeq(called, steps + 2, Len(called))
             ELSE Current
  <1>1. PICK k \in Nat : k = steps
    BY AtCursor
  <1>2. PICK q \in Seq(Node) : q = called
    BY DEF Midway
  <1>3. PICK L \in Seq(Node) : L = Left(called, Dropped)[steps]
    BY AtCursor
  <1>4. PICK R : R = SubSeq(called, steps + 2, Len(called))
    OBVIOUS
  <1>5. PICK c \in Node : c = cur
    BY AtCursor
  <1>6. PICK D : D = Dropped
    OBVIOUS
  <1>7. k \in 0 .. Len(q) /\ k + 1 \in 0 .. Len(q) /\ k + 1 # 0 /\ (k + 1) - 1 = k /\ c = q[k + 1]
    BY <1>1, <1>2, <1>5, AtCursor
  <1>8. Left(q, S)[k] = L
    <2>1. \A i \in 1 .. k : i \in S <=> i \in D
      BY <1>1, <1>6
    <2>2. Left(q, S)[k] = Left(q, D)[k]
      BY <1>7, <2>1, LeftAgree
    <2> QED
      BY <1>1, <1>2, <1>3, <1>6, <2>2
  <1>9. Left(q, S)[k + 1] = IF k + 1 \in S THEN L ELSE Append(L, c)
    <2>1. Left(q, S)[k + 1] = IF k + 1 = 0 THEN << >>
                              ELSE IF k + 1 \in S THEN Left(q, S)[(k + 1) - 1]
                              ELSE Append(Left(q, S)[(k + 1) - 1], q[k + 1])
      BY <1>7, LeftMeans
    <2> QED
      BY <1>7, <1>8, <2>1
  <1>10. Append(L, c) = L \o <<c>>
    BY AppendIsConcat
  <1>11. Current = (L \o <<c>>) \o R
    BY <1>3, <1>4, <1>5, AtCursor
  <1> QED
    BY <1>1, <1>2, <1>3, <1>4, <1>6, <1>9, <1>10, <1>11

\* Nothing is left out of the whole sequence.
LEMMA NothingLeftOut ==
  ASSUME NEW s \in Seq(Node)
  PROVE  Left(s, {})[Len(s)] = s
  <1>1. Len(s) \in Nat
    BY LenProperties
  <1>2. PICK n \in 0 .. Len(s) : n = 0
    BY <1>1
  <1>3. Left(s, {})[Len(s)] = Left(s, {})[n] \o SubSeq(s, n + 1, Len(s))
    BY LeftSplit
  <1>4. Left(s, {})[n] = << >>
    BY <1>2, LeftMeans
  <1>5. SubSeq(s, n + 1, Len(s)) = s
    BY <1>1, <1>2
  <1>6. << >> \o s = s
    BY ConcatEmptySeq
  <1> QED
    BY <1>3, <1>4, <1>5, <1>6

\* What is left when the places before the cursor are those the loop has
\* removed: nothing behind the cursor is missing.
LEMMA LeftNow ==
  ASSUME Midway, NEW S, \A k \in 1 .. steps : k \in S <=> k \in Dropped,
         \A k \in S : ~(steps < k /\ k <= Len(called))
  PROVE  Left(called, S)[Len(called)] = Current
  <1>1. PICK q \in Seq(Node) : q = called
    BY DEF Midway
  <1>2. PICK k \in 0 .. Len(q) : k = steps
    BY <1>1 DEF Midway
  <1>3. PICK D : D = Dropped
    OBVIOUS
  <1>4. Left(q, S)[Len(q)] = Left(q, S)[k] \o SubSeq(q, k + 1, Len(q))
    <2>1. \A i \in S : ~(k < i /\ i <= Len(q))
      BY <1>1, <1>2
    <2> QED
      BY <1>1, <1>2, <2>1, LeftSplit
  <1>5. Left(q, S)[k] = Left(q, D)[k]
    <2>1. \A i \in 1 .. k : i \in S <=> i \in D
      BY <1>1, <1>2, <1>3
    <2> QED
      BY <1>1, <1>2, <2>1, LeftAgree
  <1> QED
    BY <1>1, <1>2, <1>3, <1>4, <1>5 DEF Current

\* And when the place of the cursor is the last one that may be missing.
LEMMA LeftThen ==
  ASSUME Midway, cur # ListHead, NEW S, \A k \in 1 .. steps : k \in S <=> k \in Dropped,
         \A k \in S : ~(steps + 1 < k /\ k <= Len(called))
  PROVE  Left(called, S)[Len(called)]
           = IF steps + 1 \in S
             THEN Left(called, Dropped)[steps] \o SubSeq(called, steps + 2, Len(called))
             ELSE Current
  <1>1. PICK q \in Seq(Node) : q = called
    BY DEF Midway
  <1>2. PICK k \in 0 .. Len(q) : k = steps + 1
    BY <1>1, AtCursor
  <1>3. Left(q, S)[Len(q)] = Left(q, S)[k] \o SubSeq(q, k + 1, Len(q))
    <2>1. \A i \in S : ~(k < i /\ i <= Len(q))
      BY <1>1, <1>2
    <2> QED
      BY <2>1, LeftSplit
  <1>4. k + 1 = steps + 2
    BY <1>2, AtCursor
  <1>5. Left(called, S)[Len(called)] = Left(called, S)[steps + 1] \o SubSeq(called, steps + 2, Len(called))
    BY <1>1, <1>2, <1>3, <1>4
  <1> QED
    BY <1>5, LeftAtCursor

\* Unlinking the cursor's node takes it out of the list.
LEMMA UnlinkCursor ==
  ASSUME IInv, busy, Midway, call.fn \notin Teardown, cur # ListHead, Unlink(cur), NEW t,
         t = Left(called, Dropped)[steps] \o SubSeq(called, steps + 2, Len(called))
  PROVE  Shape(t)'
  <1>1. PICK L \in Seq(Node) : L = Left(called, Dropped)[steps]
    BY AtCursor
  <1>2. PICK R \in Seq(Node) : R = SubSeq(called, steps + 2, Len(called))
    BY AtCursor
  <1>3. PICK c \in Node : c = cur
    BY AtCursor
  <1>4. PICK s : s = (L \o <<c>>) \o R
    OBVIOUS
  <1>5. PICK j : j = Len(L) + 1
    OBVIOUS
  <1>6. s = Current /\ t = L \o R
    BY <1>1, <1>2, <1>3, <1>4, AtCursor
  <1>7. Shape(s)
    BY <1>6 DEF Midway
  <1>8. /\ t \in Seq(Node) /\ Len(t) = Len(s) - 1 /\ j \in 1 .. Len(s) /\ s[j] = c
        /\ \A i \in 1 .. Len(t) : t[i] = IF i < j THEN s[i] ELSE s[i + 1]
    <2>1. PICK u : u = L \o R
      OBVIOUS
    <2>2. /\ u \in Seq(Node) /\ Len(u) = Len(s) - 1 /\ j \in 1 .. Len(s) /\ s[j] = c
          /\ \A i \in 1 .. Len(u) : u[i] = IF i < j THEN s[i] ELSE s[i + 1]
      BY ONLY <1>4, <1>5, <2>1, OneOut, SMTT(30)
    <2>3. u = t
      BY <1>6, <2>1
    <2> QED
      BY <2>2, <2>3, Zenon
  <1>9. Unlink(c)
    BY <1>3
  <1>10. TypeOK /\ Ring
    BY DEF IInv, TearingDown
  <1> HIDE <1>1, <1>2, <1>3, <1>4, <1>5, <1>6
  <1> QED
    BY <1>7, <1>8, <1>9, <1>10, UnlinkAt

\* An iteration that goes on.
LEMMA AdvanceMidway ==
  ASSUME IInv, busy, Midway, call.fn \notin Teardown, cur # ListHead, Advance,
         IF steps + 1 \in Dropped THEN Unlink(cur) ELSE UNCHANGED heapVars,
         steps + 1 \notin Ends, call.fn \in Searches => steps + 1 \notin Hits
  PROVE  Midway'
  <1>1. /\ call' = call /\ called' = called /\ steps' = steps + 1 /\ data' = data
        /\ cur' = next[cur]
    BY DEF Advance, Saved, Unlink, heapVars
  <1>2. Hits' = Hits /\ Ends' = Ends /\ Dropped' = Dropped
    BY <1>1 DEF Hits, Ends, Dropped
  <1>3. steps + 1 \in 1 .. Len(called) /\ (steps + 1) + 1 = steps + 2 /\ steps \in Nat /\ Len(called) \in Nat
    BY AtCursor
  <1>4. cur' = At(called', steps' + 1)
    BY <1>1, <1>3, CursorMoves
  <1>5. Current' = Left(called, Dropped)[steps + 1] \o SubSeq(called, steps + 2, Len(called))
    BY <1>1, <1>2, <1>3 DEF Current
  <1>6. PICK t : t = Current'
    OBVIOUS
  <1>7. t = IF steps + 1 \in Dropped
            THEN Left(called, Dropped)[steps] \o SubSeq(called, steps + 2, Len(called))
            ELSE Current
    BY <1>5, <1>6, LeftAtCursor
  <1>8. Shape(t)'
    <2>1. CASE steps + 1 \in Dropped
      BY <1>7, <2>1, UnlinkCursor
    <2>2. CASE steps + 1 \notin Dropped
      <3>1. Shape(t)
        BY <1>7, <2>2 DEF Midway
      <3>2. next' = next /\ live' = live
        BY <2>2 DEF heapVars
      <3> QED
        BY <3>1, <3>2 DEF Shape
    <2> QED
      BY <2>1, <2>2
  <1>9. Shape(Current)'
    BY <1>6, <1>8 DEF Shape
  <1>10. \A i \in 1 .. steps' : i \notin Ends' /\ (call'.fn \in Searches => i \notin Hits')
    <2>1. \A i \in 1 .. steps + 1 : i \in 1 .. steps \/ i = steps + 1
      BY <1>3
    <2>2. \A i \in 1 .. steps : i \notin Ends /\ (call.fn \in Searches => i \notin Hits)
      BY DEF Midway
    <2> QED
      BY <1>1, <1>2, <2>1, <2>2
  <1>11. steps' \in 0 .. Len(called')
    BY <1>1, <1>3
  <1> QED
    BY <1>1, <1>4, <1>9, <1>10, <1>11 DEF Midway

\* The least place of a set of places.
LEMMA FirstIs ==
  ASSUME NEW S \in SUBSET Nat, NEW i \in S, \A j \in S : i <= j
  PROVE  First(S) = i
  <1>1. \A k \in S : (\A j \in S : k <= j) => k = i
    <2> SUFFICES ASSUME NEW k \in S, \A j \in S : k <= j
                 PROVE  k = i
      OBVIOUS
    <2>1. k <= i /\ i <= k /\ k \in Nat /\ i \in Nat
      OBVIOUS
    <2> QED
      BY <2>1
  <1> QED
    BY <1>1 DEF First

\* Which places are matches, and which are breaks.
LEMMA PlacesOfCursor ==
  ASSUME Midway
  PROVE  /\ Hits \in SUBSET (1 .. Len(called)) /\ Ends \in SUBSET (1 .. Len(called))
         /\ cur = ListHead => steps = Len(called)
         /\ cur # ListHead => (steps + 1 \in Hits <=> Matches(cur)) /\ (steps + 1 \in Ends <=> Stops(cur))
  <1>1. called \in Seq(Node) /\ steps \in 0 .. Len(called) /\ cur = At(called, steps + 1)
    BY DEF Midway
  <1>2. Len(called) \in Nat
    BY <1>1, LenProperties
  <1>3. cur = ListHead => steps = Len(called)
    <2> SUFFICES ASSUME steps # Len(called)
                 PROVE  cur # ListHead
      OBVIOUS
    <2>1. steps + 1 \in 1 .. Len(called)
      BY <1>1, <1>2
    <2>2. called[steps + 1] \in Node
      BY <1>1, <2>1, ElementOfSeq
    <2> QED
      BY <1>1, <2>1, <2>2, ListAssumption DEF At, ListAssumption
  <1>4. cur # ListHead => steps + 1 \in 1 .. Len(called) /\ cur = called[steps + 1]
    BY AtCursor
  <1>5. Hits \in SUBSET (1 .. Len(called)) /\ Ends \in SUBSET (1 .. Len(called))
    BY DEF Hits, Ends
  <1>6. ASSUME cur # ListHead
        PROVE  (steps + 1 \in Hits <=> Matches(cur)) /\ (steps + 1 \in Ends <=> Stops(cur))
    BY <1>4, <1>6 DEF Hits, Ends, Matches, Stops
  <1> QED
    BY <1>3, <1>5, <1>6

\* What holds of Promise for each kind of call, when the history and the
\* data stay as they are.
LEMMA ReturnKeeps ==
  ASSUME busy, Midway, NEW r, NEW o, Return(r, o), UNCHANGED <<cur, steps, data>>
  PROVE  /\ Hits' = Hits /\ Ends' = Ends /\ call' = call /\ called' = called /\ data' = data
         /\ steps' = steps /\ ret' = r /\ out' = o /\ ~busy'
  <1>1. call' = call /\ called' = called /\ data' = data /\ busy' = FALSE /\ ret' = r /\ out' = o /\ steps' = steps
    BY DEF Return
  <1> QED
    BY <1>1 DEF Hits, Ends

\* A search that ends at the head.
LEMMA FindNoneSeq ==
  ASSUME IInv, SInv, FindNone
  PROVE  SInv'
  <1>1. /\ busy /\ Midway /\ call.fn \in Searches /\ cur = ListHead
        /\ Return(-1, Null) /\ UNCHANGED <<heapVars, cur, steps>>
    BY DEF FindNone, AtEnd, SInv
  <1>2. /\ Hits' = Hits /\ call' = call /\ called' = called /\ ret' = -1 /\ out' = Null /\ ~busy'
        /\ data' = data /\ next' = next /\ live' = live
    BY <1>1, ReturnKeeps DEF heapVars
  <1>3. call.fn \notin Teardown /\ Dropped = {}
    BY <1>1 DEF Searches, Teardown, Dropped
  <1>4. Hits = {}
    <2>1. Hits \in SUBSET (1 .. Len(called)) /\ steps = Len(called)
      BY <1>1, PlacesOfCursor
    <2>2. \A i \in 1 .. steps : i \notin Hits
      BY <1>1, <1>3 DEF Midway
    <2> QED
      BY <2>1, <2>2
  <1>5. PICK s : s = Current
    OBVIOUS
  <1>6. s = called
    <2>1. Left(called, {})[Len(called)] = Current
      BY <1>1, <1>3, LeftNow
    <2> QED
      BY <1>1, <1>5, <2>1, NothingLeftOut DEF Midway
  <1>7. Shape(s)'
    <2>1. Shape(s)
      BY <1>1, <1>3, <1>5 DEF Midway
    <2> QED
      BY <1>2, <2>1 DEF Shape
  <1>8. Promise(call.fn, s)'
    BY <1>1, <1>2, <1>4, <1>6 DEF Promise, Searches, InsertFns
  <1> QED
    BY <1>2, <1>7, <1>8 DEF SInv

\* The first place of a set that starts at the cursor.
LEMMA FirstAtCursor ==
  ASSUME Midway, cur # ListHead, NEW S \in SUBSET (1 .. Len(called)), steps + 1 \in S,
         \A i \in 1 .. steps : i \notin S
  PROVE  First(S) = steps + 1
  <1>1. PICK k \in Nat : k = steps
    BY AtCursor
  <1>2. Len(called) \in Nat
    BY AtCursor
  <1>3. S \in SUBSET Nat
    BY <1>2
  <1>4. \A j \in S : k + 1 <= j
    BY <1>1, <1>2
  <1>5. k + 1 \in S
    BY <1>1
  <1>6. First(S) = k + 1
    BY <1>3, <1>4, <1>5, FirstIs
  <1> QED
    BY <1>1, <1>6

\* A return that leaves the list alone: what it promises of the list as it is.
LEMMA ReturnSeq ==
  ASSUME busy, Midway, call.fn \notin Teardown, NEW r, NEW o, Return(r, o),
         UNCHANGED <<heapVars, cur, steps>>, NEW s, s = Current, Promise(call.fn, s)'
  PROVE  SInv'
  <1>1. call' = call /\ ~busy' /\ next' = next /\ live' = live
    BY ReturnKeeps DEF heapVars
  <1>2. Shape(s)
    BY DEF Midway
  <1>3. Shape(s)'
    BY <1>1, <1>2 DEF Shape
  <1> QED
    BY <1>1, <1>3 DEF SInv

\* A return with the cursor's node unlinked.
LEMMA ReturnUnlinkSeq ==
  ASSUME IInv, busy, Midway, call.fn \notin Teardown, cur # ListHead,
         NEW r, NEW o, Return(r, o), UNCHANGED <<cur, steps>>, Unlink(cur), NEW t,
         t = Left(called, Dropped)[steps] \o SubSeq(called, steps + 2, Len(called)),
         Promise(call.fn, t)'
  PROVE  SInv'
  <1>1. call' = call /\ ~busy'
    BY ReturnKeeps DEF Unlink
  <1>2. Shape(t)'
    BY UnlinkCursor
  <1> QED
    BY <1>1, <1>2 DEF SInv

\* The list is what was found, when the loop removes nothing.
LEMMA CurrentIsCalled ==
  ASSUME Midway, Dropped = {}
  PROVE  Current = called
  <1>1. Left(called, {})[Len(called)] = Current
    BY LeftNow
  <1> QED
    BY <1>1, NothingLeftOut DEF Midway

\* A search that finds its node: llist_find returns it, the others unlink it.
LEMMA HitSeq ==
  ASSUME IInv, SInv, FindHit \/ DeletHit \/ FetchHit
  PROVE  SInv'
  <1>1. /\ busy /\ Midway /\ call.fn \in Searches /\ cur # ListHead /\ Matches(cur)
        /\ Return(0, data[cur]) /\ UNCHANGED <<cur, steps, data>>
        /\ call.fn = "find" => UNCHANGED heapVars
        /\ call.fn # "find" => Unlink(cur)
    BY DEF FindHit, DeletHit, FetchHit, InLoop, SInv, Searches, Unlink, heapVars
  <1>2. /\ Hits' = Hits /\ call' = call /\ called' = called /\ ret' = 0 /\ out' = data[cur]
        /\ data' = data
    BY <1>1, ReturnKeeps
  <1>3. call.fn \notin Teardown /\ Dropped = {}
    BY <1>1 DEF Searches, Teardown, Dropped
  <1>4. Hits # {} /\ First(Hits) = steps + 1
    <2>1. Hits \in SUBSET (1 .. Len(called)) /\ steps + 1 \in Hits
      BY <1>1, PlacesOfCursor
    <2>2. \A i \in 1 .. steps : i \notin Hits
      BY <1>1, <1>3 DEF Midway
    <2> QED
      BY <1>1, <2>1, <2>2, FirstAtCursor
  <1>5. cur = called[steps + 1] /\ steps \in Nat
    BY <1>1, AtCursor
  <1>6. CASE call.fn = "find"
    <2>1. PICK s : s = Current
      OBVIOUS
    <2>2. s = called
      BY <1>1, <1>3, <2>1, CurrentIsCalled
    <2>3. /\ s = called'
          /\ out' = IF Hits' = {} THEN Null ELSE data'[called'[First(Hits')]]
      BY <1>2, <1>4, <1>5, <2>2
    <2>4. Promise(call.fn, s)'
      BY <1>2, <1>6, <2>3 DEF Promise, InsertFns
    <2> QED
      BY <1>1, <1>3, <1>6, <2>1, <2>4, ReturnSeq
  <1>7. CASE call.fn # "find"
    <2>1. PICK t : t = Left(called, Dropped)[steps] \o SubSeq(called, steps + 2, Len(called))
      OBVIOUS
    <2>2. Left(called, {steps + 1})[Len(called)] = t
      <3>1. \A k \in 1 .. steps : k \in {steps + 1} <=> k \in Dropped
        BY <1>3, <1>5
      <3>2. \A k \in {steps + 1} : ~(steps + 1 < k /\ k <= Len(called))
        BY <1>5
      <3> QED
        BY <1>1, <2>1, <3>1, <3>2, LeftThen
    <2>3. Promise(call.fn, t)'
      <3>1. call.fn \in {"delet", "fetch"}
        BY <1>1, <1>7 DEF Searches
      <3>2. t = Left(called, {First(Hits)})[Len(called)]
        BY <1>4, <2>2
      <3> QED
        BY <1>2, <1>4, <1>5, <3>1, <3>2 DEF Promise, Without, InsertFns
    <2> QED
      BY <1>1, <1>3, <1>7, <2>1, <2>3, ReturnUnlinkSeq
  <1> QED
    BY <1>6, <1>7

\* llist_travel stops where op says so.
LEMMA TravelBreakSeq ==
  ASSUME IInv, SInv, TravelBreak
  PROVE  SInv'
  <1>1. /\ busy /\ Midway /\ call.fn = "travel" /\ cur # ListHead /\ Stops(cur)
        /\ Return(0, Null) /\ UNCHANGED <<heapVars, cur, steps>>
    BY DEF TravelBreak, InLoop, SInv
  <1>2. /\ Ends' = Ends /\ call' = call /\ called' = called /\ steps' = steps
    BY <1>1, ReturnKeeps DEF heapVars
  <1>3. call.fn \notin Teardown /\ Dropped = {}
    BY <1>1 DEF Teardown, Dropped
  <1>4. Ends # {} /\ First(Ends) = steps + 1
    <2>1. Ends \in SUBSET (1 .. Len(called)) /\ steps + 1 \in Ends
      BY <1>1, PlacesOfCursor
    <2>2. \A i \in 1 .. steps : i \notin Ends
      BY <1>1, <1>3 DEF Midway
    <2> QED
      BY <1>1, <2>1, <2>2, FirstAtCursor
  <1>5. steps = First(Ends) - 1
    BY <1>1, <1>4, AtCursor
  <1>6. PICK s : s = Current
    OBVIOUS
  <1>7. s = called
    BY <1>1, <1>3, <1>6, CurrentIsCalled
  <1>8. Promise(call.fn, s)'
    BY <1>1, <1>2, <1>4, <1>5, <1>7 DEF Promise, InsertFns
  <1> QED
    BY <1>1, <1>3, <1>6, <1>8, ReturnSeq

\* llist_travel_delete stops where op says so, after it has removed that node
\* too if it matches.
LEMMA TravelDeleteBreakSeq ==
  ASSUME IInv, SInv, TravelDeleteBreak
  PROVE  SInv'
  <1>1. /\ busy /\ Midway /\ call.fn = "travel_delete" /\ cur # ListHead /\ Stops(cur)
        /\ Return(0, Null) /\ UNCHANGED <<cur, steps, data>>
        /\ IF Matches(cur) THEN Unlink(cur) ELSE UNCHANGED heapVars
    BY DEF TravelDeleteBreak, InLoop, SInv, Drops, Unlink, heapVars
  <1>2. /\ Ends' = Ends /\ Hits' = Hits /\ call' = call /\ called' = called
    BY <1>1, ReturnKeeps
  <1>3. call.fn \notin Teardown /\ Dropped = Hits
    BY <1>1 DEF Teardown, Dropped
  <1>4. /\ Ends \in SUBSET (1 .. Len(called)) /\ steps + 1 \in Ends
        /\ Hits \in SUBSET (1 .. Len(called)) /\ (steps + 1 \in Hits <=> Matches(cur))
    BY <1>1, PlacesOfCursor
  <1>5. Ends # {} /\ First(Ends) = steps + 1
    <2>1. \A i \in 1 .. steps : i \notin Ends
      BY <1>1, <1>3 DEF Midway
    <2> QED
      BY <1>1, <1>4, <2>1, FirstAtCursor
  <1>6. PICK S : S = {i \in Hits : i <= steps + 1}
    OBVIOUS
  <1>7. Left(called, S)[Len(called)]
          = IF steps + 1 \in Hits
            THEN Left(called, Dropped)[steps] \o SubSeq(called, steps + 2, Len(called))
            ELSE Current
    <2>1. steps \in Nat /\ Len(called) \in Nat
      BY <1>1, AtCursor
    <2>2. \A k \in 1 .. steps : k \in S <=> k \in Dropped
      BY <1>3, <1>6, <2>1
    <2>3. \A k \in S : ~(steps + 1 < k /\ k <= Len(called))
      BY <1>4, <1>6, <2>1
    <2>4. steps + 1 \in S <=> steps + 1 \in Hits
      BY <1>6, <2>1
    <2> QED
      BY <1>1, <2>2, <2>3, <2>4, LeftThen
  <1>8. PICK s : s = Left(called, S)[Len(called)]
    OBVIOUS
  <1>9. Promise(call.fn, s)'
    <2>1. s = Left(called, {i \in Hits : i <= First(Ends)})[Len(called)]
      BY <1>5, <1>6, <1>8
    <2> QED
      BY <1>1, <1>2, <1>5, <2>1 DEF Promise, Without, InsertFns
  <1>10. CASE Matches(cur)
    BY <1>1, <1>3, <1>4, <1>7, <1>8, <1>9, <1>10, ReturnUnlinkSeq
  <1>11. CASE ~Matches(cur)
    BY <1>1, <1>3, <1>4, <1>7, <1>8, <1>9, <1>11, ReturnSeq DEF heapVars
  <1> QED
    BY <1>10, <1>11

\* A loop that comes to the head has passed every node.
LEMMA LoopEndSeq ==
  ASSUME IInv, SInv, LoopEnd
  PROVE  SInv'
  <1>1. PICK r : /\ busy /\ Midway /\ call.fn \in {"travel", "getnum", "check", "travel_delete"}
                 /\ cur = ListHead /\ Return(r, Null) /\ UNCHANGED <<heapVars, cur, steps>>
                 /\ r = IF call.fn \in {"getnum", "check"} THEN steps ELSE 0
    BY DEF LoopEnd, AtEnd, SInv
  <1>2. /\ Ends' = Ends /\ Hits' = Hits /\ call' = call /\ called' = called /\ steps' = steps /\ ret' = r
    BY <1>1, ReturnKeeps DEF heapVars
  <1>3. call.fn \notin Teardown
    BY <1>1 DEF Teardown
  <1>4. steps = Len(called) /\ Hits \in SUBSET (1 .. Len(called)) /\ Ends \in SUBSET (1 .. Len(called))
    BY <1>1, PlacesOfCursor
  <1>5. Ends = {}
    <2>1. \A i \in 1 .. steps : i \notin Ends
      BY <1>1, <1>3 DEF Midway
    <2> QED
      BY <1>4, <2>1
  <1>6. PICK s : s = Current
    OBVIOUS
  <1>7. s = Left(called, Dropped)[Len(called)]
    <2>1. \A k \in Dropped : ~(steps < k /\ k <= Len(called))
      <3>1. Len(called) \in Nat
        BY <1>1, LenProperties DEF Midway
      <3> QED
        BY <1>4, <3>1 DEF Dropped
    <2> QED
      BY <1>1, <1>6, <2>1, LeftNow
  <1>8. Promise(call.fn, s)'
    <2>1. CASE call.fn \in {"check", "travel_delete"}
      <3>1. s = Left(called, Hits)[Len(called)]
        BY <1>7, <2>1 DEF Dropped
      <3> QED
        BY <1>1, <1>2, <1>4, <1>5, <2>1, <3>1 DEF Promise, Without, InsertFns
    <2>2. CASE call.fn \in {"travel", "getnum"}
      <3>1. s = called
        BY <1>1, <1>6, <2>2, CurrentIsCalled DEF Dropped
      <3> QED
        BY <1>1, <1>2, <1>4, <1>5, <2>2, <3>1 DEF Promise, InsertFns
    <2> QED
      BY <1>1, <2>1, <2>2
  <1> QED
    BY <1>1, <1>3, <1>6, <1>8, ReturnSeq

\* An iteration of any other loop.
LEMMA IterationSeq ==
  ASSUME IInv, SInv, FindStep \/ TravelStep \/ CheckStep \/ TravelDeleteStep
  PROVE  SInv'
  <1>1. /\ busy /\ Midway /\ cur # ListHead /\ Advance /\ call.fn \notin Teardown
    BY DEF FindStep, TravelStep, CheckStep, TravelDeleteStep, InLoop, SInv, Searches, Teardown
  <1>2. /\ steps + 1 \in Hits <=> Matches(cur)
        /\ steps + 1 \in Ends <=> Stops(cur)
    BY <1>1, PlacesOfCursor
  <1>3. call.fn \in Searches => ~Matches(cur)
    BY DEF FindStep, TravelStep, CheckStep, TravelDeleteStep, InLoop, Searches
  <1>4. ~Stops(cur)
    <2>1. CASE call.fn \in Searches \cup {"check"}
      <3>1. call.stop = {}
        BY <1>1, <2>1 DEF Midway, Requests, Request, Searches, Teardown
      <3> QED
        BY <3>1 DEF Stops
    <2>2. CASE call.fn \notin Searches \cup {"check"}
      BY <2>2 DEF FindStep, TravelStep, CheckStep, TravelDeleteStep, InLoop
    <2> QED
      BY <2>1, <2>2
  <1>5. IF steps + 1 \in Dropped THEN Unlink(cur) ELSE UNCHANGED heapVars
    BY <1>2 DEF Dropped, FindStep, TravelStep, CheckStep, TravelDeleteStep, InLoop, Drops, Searches
  <1>6. Midway'
    BY <1>1, <1>2, <1>3, <1>4, <1>5, AdvanceMidway
  <1>7. busy'
    BY <1>1 DEF Advance
  <1> QED
    BY <1>6, <1>7 DEF SInv

\* An iteration of llist_clear or llist_destroy.
LEMMA TeardownSeq ==
  ASSUME IInv, SInv, TeardownStep
  PROVE  SInv'
  <1>1. /\ busy /\ Midway /\ call.fn \in Teardown /\ cur # ListHead
        /\ call' = call /\ called' = called /\ busy' = busy /\ steps' = steps + 1 /\ cur' = next[cur]
        /\ live' = live \ {cur} /\ next' = [next EXCEPT ![cur] = Null]
    BY DEF TeardownStep, InLoop, SInv, Advance, Saved, FreeOnly
  <1>2. /\ called \in Seq(Node) /\ Distinct(called)
        /\ \A i \in steps + 1 .. Len(called) : next[called[i]] = At(called, i + 1)
        /\ live = {called[i] : i \in steps + 1 .. Len(called)}
    BY <1>1 DEF Midway
  <1>3. /\ Len(called) \in Nat /\ steps \in Nat /\ steps + 1 \in 1 .. Len(called)
        /\ cur = called[steps + 1]
    BY <1>1, AtCursor
  <1>4. ASSUME NEW i \in steps + 2 .. Len(called)
        PROVE  called[i] # cur /\ called[i] \in Node /\ i \in steps + 1 .. Len(called)
    <2>1. i \in 1 .. Len(called) /\ i # steps + 1 /\ i \in steps + 1 .. Len(called)
      BY <1>3
    <2> QED
      BY <1>2, <1>3, <2>1, ElementOfSeq DEF Distinct
  <1>5. (steps + 1) + 1 = steps + 2
    BY <1>3
  <1>6. next \in [Place -> Place \cup {Null}]
    BY DEF IInv, TypeOK
  <1>7. ASSUME NEW i \in steps + 2 .. Len(called)
        PROVE  next'[called[i]] = At(called, i + 1)
    BY <1>1, <1>2, <1>4, <1>6 DEF Place
  <1>8. live' = {called[i] : i \in steps + 2 .. Len(called)}
    <2>1. \A i \in steps + 1 .. Len(called) : i = steps + 1 \/ i \in steps + 2 .. Len(called)
      BY <1>3
    <2> QED
      BY <1>1, <1>2, <1>3, <1>4, <2>1
  <1>9. cur' = At(called, steps + 2)
    BY <1>1, CursorMoves
  <1>10. Midway'
    <2>1. (call \in Requests)' /\ (call.fn \in Teardown)'
      BY <1>1 DEF Midway
    <2>2. /\ (called \in Seq(Node))' /\ Distinct(called)'
      BY <1>1, <1>2 DEF Distinct
    <2>3. (steps \in 0 .. Len(called))'
      BY <1>1, <1>3
    <2>4. (cur = At(called, steps + 1))'
      BY <1>1, <1>5, <1>9 DEF At
    <2>5. \A i \in steps' + 1 .. Len(called') : next'[called'[i]] = At(called', i + 1)
      BY <1>1, <1>5, <1>7
    <2>6. live' = {called'[i] : i \in steps' + 1 .. Len(called')}
      BY <1>1, <1>5, <1>8
    <2> QED
      BY <2>1, <2>2, <2>3, <2>4, <2>5, <2>6 DEF Midway, At
  <1> QED
    BY <1>1, <1>10 DEF SInv

\* The ends of the two.
LEMMA TeardownEndSeq ==
  ASSUME IInv, SInv, ClearEnd \/ DestroyEnd
  PROVE  SInv'
  <1>1. CASE DestroyEnd
    <2>1. ~busy' /\ ~made'
      BY <1>1 DEF DestroyEnd, Return
    <2> QED
      BY <2>1 DEF SInv
  <1>2. CASE ClearEnd
    <2>1. /\ busy /\ Midway /\ call.fn = "clear" /\ cur = ListHead
          /\ next' = [next EXCEPT ![ListHead] = ListHead] /\ Return(steps, Null)
          /\ UNCHANGED <<data, live, made, cur, steps>>
      BY <1>2 DEF ClearEnd, AtEnd, SInv, HeadAfterClear, HeadAlone
    <2>2. /\ ~busy' /\ call' = call /\ called' = called /\ ret' = steps /\ live' = live
      BY <2>1, ReturnKeeps
    <2>3. steps = Len(called) /\ Len(called) \in Nat
      <3>1. called \in Seq(Node)
        BY <2>1 DEF Midway
      <3> QED
        BY <2>1, <3>1, PlacesOfCursor, LenProperties
    <2>4. live = {}
      BY <2>1, <2>3 DEF Midway, Teardown
    <2>5. next'[ListHead] = ListHead
      BY <2>1 DEF IInv, TypeOK, Place
    <2>6. PICK s : s = << >>
      OBVIOUS
    <2>7. s \in Seq(Node) /\ Len(s) = 0
      BY <2>6, EmptySeq
    <2>8. Shape(s)'
      <3>1. \A i \in 0 .. Len(s) : i = 0
        BY <2>7
      <3>2. At(s, 0) = ListHead /\ At(s, 0 + 1) = ListHead
        BY <2>7 DEF At
      <3>3. \A i \in 0 .. Len(s) : next'[At(s, i)] = At(s, i + 1)
        BY <2>5, <3>1, <3>2
      <3>4. live' = {s[i] : i \in 1 .. Len(s)}
        BY <2>2, <2>4, <2>7
      <3> QED
        BY <2>7, <3>3, <3>4 DEF Shape, Distinct
    <2>9. Promise(call.fn, s)'
      BY <2>1, <2>2, <2>3, <2>6 DEF Promise, InsertFns
    <2> QED
      BY <2>2, <2>8, <2>9 DEF SInv
  <1> QED
    BY <1>1, <1>2

\* The nodes the loops will find are those of the sequence.
LEMMA NodesAre ==
  ASSUME NEW s, Shape(s)
  PROVE  Nodes = s /\ next[ListHead] = At(s, 1) /\ s \in Seq(Node) /\ Distinct(s)
  <1>1. s \in Seq(Node) /\ Distinct(s) /\ Len(s) \in Nat
    BY LenProperties DEF Shape
  <1>2. 1 \in 1 .. Len(s) + 1
    BY <1>1
  <1>3. \A i \in 1 .. Len(s) : next[s[i]] = At(s, i + 1)
    BY <1>1 DEF Shape, At
  <1>4. Chain(At(s, 1)) = SubSeq(s, 1, Len(s))
    BY <1>1, <1>2, <1>3, ChainIsRest
  <1>5. SubSeq(s, 1, Len(s)) = s
    BY <1>1
  <1>6. next[ListHead] = At(s, 1)
    <2>1. At(s, 0) = ListHead /\ 0 \in 0 .. Len(s)
      BY <1>1 DEF At
    <2>2. next[At(s, 0)] = At(s, 0 + 1)
      BY <2>1 DEF Shape
    <2> QED
      BY <2>1, <2>2
  <1> QED
    BY <1>1, <1>4, <1>5, <1>6 DEF Nodes

\* llist_creat makes an empty list.
LEMMA CreatSeq ==
  ASSUME IInv, SInv, Creat
  PROVE  SInv'
  <1>1. /\ ~busy' /\ live' = {} /\ call'.fn = "creat" /\ next'[ListHead] = ListHead
    BY DEF Creat, HeadAlone, IInv, TypeOK, Place
  <1>2. PICK s : s = << >>
    OBVIOUS
  <1>3. s \in Seq(Node) /\ Len(s) = 0
    BY <1>2, EmptySeq
  <1>4. Shape(s)'
    <2>1. \A i \in 0 .. Len(s) : i = 0
      BY <1>3
    <2>2. At(s, 0) = ListHead /\ At(s, 0 + 1) = ListHead
      BY <1>3 DEF At
    <2>3. \A i \in 0 .. Len(s) : next'[At(s, i)] = At(s, i + 1)
      BY <1>1, <2>1, <2>2
    <2>4. live' = {s[i] : i \in 1 .. Len(s)}
      BY <1>1, <1>3
    <2> QED
      BY <1>3, <2>3, <2>4 DEF Shape, Distinct
  <1>5. Promise(call.fn, s)'
    BY <1>1 DEF Promise, InsertFns
  <1> QED
    BY <1>1, <1>4, <1>5 DEF SInv

\* llist_insert puts the new node at its end, or leaves the list as it was.
LEMMA InsertSeq ==
  ASSUME IInv, SInv, NEW fn \in InsertFns, NEW v \in Value, Insert(fn, v) \/ InsertFails(fn, v)
  PROVE  SInv'
  <1>1. /\ made /\ ~busy /\ ~busy' /\ called' = Nodes
        /\ call' = [fn |-> fn, match |-> {v}, stop |-> {}]
    BY DEF Insert, InsertFails, InsertCall
  <1>2. PICK s : Shape(s)
    BY <1>1 DEF SInv
  <1>3. called' = s /\ s \in Seq(Node)
    BY <1>1, <1>2, NodesAre
  <1>4. call'.fn = fn /\ call'.match = {v} /\ fn \notin {"find", "delet", "fetch", "getnum", "check",
           "travel", "travel_delete", "clear"}
    BY <1>1 DEF InsertFns
  <1>5. CASE InsertFails(fn, v)
    <2>1. ret' = -1 /\ next' = next /\ live' = live
      BY <1>5 DEF InsertFails
    <2>2. Shape(s)'
      BY <1>2, <2>1 DEF Shape
    <2>3. Promise(call.fn, s)'
      BY <1>3, <1>4, <2>1 DEF Promise
    <2> QED
      BY <1>1, <2>2, <2>3 DEF SInv
  <1>6. CASE Insert(fn, v)
    <2>1. ret' = 0
      BY <1>6 DEF Insert
    <2>2. PICK n \in Node \ live : /\ live' = live \cup {n} /\ data' = [data EXCEPT ![n] = v]
                                   /\ Link(n, NewPrev(fn), NewNext(fn))
      BY <1>6 DEF Insert
    <2>3. PICK t : t = IF fn = "insert_forward" THEN <<n>> \o s ELSE Append(s, n)
      OBVIOUS
    <2>4. TypeOK /\ Ring
      BY <1>1 DEF IInv, TearingDown
    <2>5. Shape(t)'
      <3>1. CASE fn = "insert_forward"
        <4>1. <<n>> \in Seq(Node) /\ Len(<<n>>) = 1 /\ <<n>>[1] = n
          OBVIOUS
        <4>2. t = <<n>> \o s /\ Len(s) \in Nat
          BY <1>3, <2>3, <3>1, LenProperties
        <4>3. /\ t \in Seq(Node) /\ Len(t) = 1 + Len(s)
              /\ \A i \in 1 .. 1 + Len(s) : t[i] = IF i <= 1 THEN <<n>>[i] ELSE s[i - 1]
          BY <1>3, <4>1, <4>2, ConcatProperties
        <4>4. \A i \in 1 .. Len(s) : t[i + 1] = s[i]
          <5>1. \A i \in 1 .. Len(s) : i + 1 \in 1 .. 1 + Len(s) /\ ~(i + 1 <= 1) /\ (i + 1) - 1 = i
            BY <4>2
          <5> QED
            BY <4>3, <5>1
        <4>5. t[1] = n /\ Len(t) = Len(s) + 1
          BY <4>1, <4>2, <4>3
        <4> HIDE <2>3, <4>2, <4>1
        <4> QED
          BY <1>2, <2>2, <2>4, <3>1, <4>3, <4>4, <4>5, InsertFirst
      <3>2. CASE fn # "insert_forward"
        BY <1>2, <2>2, <2>3, <2>4, <3>2, InsertLast
      <3> QED
        BY <3>1, <3>2
    <2>6. n \in live' /\ n \notin {s[i] : i \in 1 .. Len(s)} /\ data'[n] = v
      BY <1>2, <2>2, <2>4 DEF Shape, TypeOK
    <2>7. Promise(call.fn, t)'
      BY <1>3, <1>4, <2>1, <2>3, <2>6 DEF Promise
    <2> QED
      BY <1>1, <2>5, <2>7 DEF SInv
  <1> QED
    BY <1>5, <1>6

\* A call begins at the first node.
LEMMA CallSeq ==
  ASSUME IInv, SInv, NEW r \in Requests, Call(r)
  PROVE  SInv'
  <1>1. /\ made /\ ~busy /\ busy' /\ called' = Nodes /\ call' = r /\ steps' = 0
        /\ cur' = next[ListHead] /\ next' = next /\ live' = live
    BY DEF Call, heapVars
  <1>2. PICK s : Shape(s)
    BY <1>1 DEF SInv
  <1>3. called' = s /\ s \in Seq(Node) /\ Distinct(s) /\ cur' = At(s, 1) /\ Len(s) \in Nat
    BY <1>1, <1>2, NodesAre, LenProperties
  <1>4. Current' = s
    <2>1. PICK D : D = Dropped'
      OBVIOUS
    <2>2. PICK k \in 0 .. Len(s) : k = 0
      BY <1>3
    <2>3. Left(s, D)[k] = << >>
      BY <1>3, <2>2, LeftMeans
    <2>4. SubSeq(s, k + 1, Len(s)) = s /\ << >> \o s = s
      BY <1>3, <2>2, ConcatEmptySeq
    <2>5. Current' = Left(s, D)[k] \o SubSeq(s, k + 1, Len(s))
      BY <1>1, <1>3, <2>1, <2>2 DEF Current
    <2> QED
      BY <2>3, <2>4, <2>5
  <1>5. Shape(s)'
    BY <1>1, <1>2 DEF Shape
  <1>6. Shape(Current)'
    BY <1>4, <1>5 DEF Shape
  <1>7. /\ \A i \in 0 + 1 .. Len(s) : next'[s[i]] = At(s, i + 1)
        /\ live' = {s[i] : i \in 0 + 1 .. Len(s)}
    BY <1>1, <1>2, <1>3 DEF Shape, At
  <1>8. \A i \in 1 .. steps' : FALSE
    BY <1>1
  <1>9. steps' \in 0 .. Len(called') /\ cur' = At(called', steps' + 1)
    BY <1>1, <1>3
  <1>10. Midway'
    BY <1>1, <1>3, <1>6, <1>7, <1>8, <1>9 DEF Midway
  <1> QED
    BY <1>1, <1>10 DEF SInv

\* The second invariant is inductive, given the first.
LEMMA SInvStep == IInv /\ SInv /\ [Next]_vars => SInv'
  <1> SUFFICES ASSUME IInv, SInv, [Next]_vars
               PROVE  SInv'
    OBVIOUS
  <1>1. CASE Creat
    BY <1>1, CreatSeq
  <1>2. ASSUME NEW fn \in InsertFns, NEW v \in Value,
               Insert(fn, v) \/ InsertFails(fn, v)
        PROVE  SInv'
    BY <1>2, InsertSeq
  <1>3. ASSUME NEW r \in Requests, Call(r)
        PROVE  SInv'
    BY <1>3, CallSeq
  <1>4. CASE Continue
    BY <1>4, IterationSeq, FindNoneSeq, HitSeq, TravelBreakSeq, TravelDeleteBreakSeq, LoopEndSeq,
       TeardownSeq, TeardownEndSeq DEF Continue
  <1>5. CASE UNCHANGED vars
    <2>1. /\ next' = next /\ data' = data /\ live' = live /\ made' = made /\ call' = call
          /\ busy' = busy /\ cur' = cur /\ steps' = steps /\ ret' = ret /\ out' = out
          /\ called' = called
      BY <1>5 DEF vars, heapVars
    <2>2. Hits' = Hits /\ Ends' = Ends
      BY <2>1 DEF Hits, Ends
    <2>3. Dropped' = Dropped
      BY <2>1, <2>2 DEF Dropped
    <2>4. Current' = Current
      BY <2>1, <2>3 DEF Current
    <2>5. \A s : Shape(s) => Shape(s)'
      BY <2>1 DEF Shape
    <2>6. Shape(Current) => Shape(Current)'
      BY <2>1, <2>4 DEF Shape
    <2>7. Midway => Midway'
      BY <2>1, <2>2, <2>6 DEF Midway
    <2>8. \A s : Promise(call.fn, s) => Promise(call.fn, s)'
      BY <2>1, <2>2 DEF Promise, Without
    <2> QED
      BY <2>1, <2>5, <2>7, <2>8 DEF SInv
  <1> QED
    BY <1>1, <1>2, <1>3, <1>4, <1>5 DEF Next

\* The list is a sequence in every reachable state.
THEOREM SequenceInvariance == Spec => [](IInv /\ SInv)
  <1>1. Init => SInv
    BY DEF Init, SInv
  <1>2. IInv /\ SInv /\ [Next]_vars => SInv'
    BY SInvStep
  <1> QED
    BY <1>1, <1>2, Invariance, PTL DEF Spec

\* What a loop has still to pass is the rest of the list that was there when
\* the call began, whatever has been removed (link_list.c:27, 40, 150, 194).
THEOREM LoopsPassEachNode == Spec => []EachNodeOnce
  <1>1. IInv /\ SInv => EachNodeOnce
    <2> SUFFICES ASSUME IInv, SInv, busy
                 PROVE  Chain(cur) = SubSeq(called, steps + 1, Len(called))
      BY DEF EachNodeOnce
    <2>1. /\ Midway /\ called \in Seq(Node) /\ Distinct(called) /\ steps \in 0 .. Len(called)
          /\ Len(called) \in Nat /\ cur = At(called, steps + 1)
      BY LenProperties DEF SInv, Midway
    <2>2. CASE call.fn \in Teardown
      <3>1. steps + 1 \in 1 .. Len(called) + 1
        BY <2>1
      <3>2. \A i \in steps + 1 .. Len(called) : next[called[i]] = At(called, i + 1)
        BY <2>1, <2>2 DEF Midway
      <3> QED
        BY <2>1, <3>1, <3>2, ChainIsRest
    <2>3. CASE call.fn \notin Teardown
      <3>1. PICK L \in Seq(Node) : L = Left(called, Dropped)[steps]
        BY <2>1, LeftType
      <3>2. PICK r : r = SubSeq(called, steps + 1, Len(called))
        OBVIOUS
      <3>3. /\ r \in Seq(Node) /\ Len(r) = Len(called) - steps /\ Len(r) \in Nat
            /\ \A i \in 1 .. Len(r) : r[i] = called[steps + i]
        <4>1. \A i \in steps + 1 .. Len(called) : called[i] \in Node
          BY <2>1, ElementOfSeq
        <4>2. /\ r \in Seq(Node)
              /\ Len(r) = IF steps + 1 <= Len(called) THEN Len(called) - (steps + 1) + 1 ELSE 0
              /\ \A i \in 1 .. Len(called) - (steps + 1) + 1 : r[i] = called[(steps + 1) + i - 1]
          BY <2>1, <3>2, <4>1, SubSeqProperties
        <4>3. Len(r) = Len(called) - steps /\ Len(called) - (steps + 1) + 1 = Len(called) - steps
          BY <2>1, <4>2
        <4>4. \A i \in 1 .. Len(r) : (steps + 1) + i - 1 = steps + i
          BY <2>1, <4>3
        <4> QED
          BY <2>1, <4>2, <4>3, <4>4
      <3>4. PICK s : s = Current
        OBVIOUS
      <3>5. s = L \o r /\ Shape(s)
        BY <2>1, <2>3, <3>1, <3>2, <3>4 DEF Current, Midway
      <3>6. /\ Len(L) \in Nat /\ Len(s) = Len(L) + Len(r)
            /\ \A i \in 1 .. Len(r) : s[Len(L) + i] = r[i]
        <4>1. Len(L) \in Nat
          BY LenProperties
        <4>2. /\ Len(s) = Len(L) + Len(r)
              /\ \A i \in 1 .. Len(L) + Len(r) : s[i] = IF i <= Len(L) THEN L[i] ELSE r[i - Len(L)]
          BY <3>3, <3>5, ConcatProperties
        <4>3. \A i \in 1 .. Len(r) : /\ Len(L) + i \in 1 .. Len(L) + Len(r)
                                      /\ ~(Len(L) + i <= Len(L)) /\ (Len(L) + i) - Len(L) = i
          BY <3>3, <4>1
        <4> QED
          BY <4>1, <4>2, <4>3
      <3>7. Distinct(r)
        <4> SUFFICES ASSUME NEW i \in 1 .. Len(r), NEW k \in 1 .. Len(r), r[i] = r[k]
                     PROVE  i = k
          BY DEF Distinct
        <4>1. steps + i \in 1 .. Len(called) /\ steps + k \in 1 .. Len(called)
          BY <2>1, <3>3
        <4>2. steps + i = steps + k
          BY <2>1, <3>3, <4>1 DEF Distinct
        <4> QED
          BY <2>1, <3>3, <4>2
      <3>8. ASSUME NEW i \in 1 .. Len(r)
            PROVE  next[r[i]] = At(r, i + 1)
        <4>1. Len(L) + i \in 1 .. Len(s) /\ Len(s) \in Nat
          BY <3>3, <3>6
        <4>2. At(s, Len(L) + i) = r[i]
          BY <3>6, <4>1 DEF At
        <4>3. next[r[i]] = At(s, (Len(L) + i) + 1)
          <5>1. \A k \in 0 .. Len(s) : next[At(s, k)] = At(s, k + 1)
            BY <3>5 DEF Shape
          <5>2. Len(L) + i \in 0 .. Len(s)
            BY <4>1
          <5>3. next[At(s, Len(L) + i)] = At(s, (Len(L) + i) + 1)
            BY <5>1, <5>2, Zenon
          <5> QED
            BY <4>2, <5>3
        <4>4. At(s, (Len(L) + i) + 1) = At(r, i + 1)
          <5>1. CASE i = Len(r)
            BY <3>3, <3>6, <5>1 DEF At
          <5>2. CASE i # Len(r)
            <6>1. i + 1 \in 1 .. Len(r) /\ (Len(L) + i) + 1 = Len(L) + (i + 1)
                  /\ Len(L) + (i + 1) \in 1 .. Len(s)
              BY <3>3, <3>6, <5>2
            <6> QED
              BY <3>6, <6>1 DEF At
          <5> QED
            BY <5>1, <5>2
        <4> QED
          BY <4>3, <4>4
      <3>9. At(r, 1) = cur
        <4>1. CASE steps = Len(called)
          BY <2>1, <3>3, <4>1 DEF At
        <4>2. CASE steps # Len(called)
          <5>1. 1 \in 1 .. Len(r) /\ steps + 1 \in 1 .. Len(called)
            BY <2>1, <3>3, <4>2
          <5> QED
            BY <2>1, <3>3, <5>1 DEF At
        <4> QED
          BY <4>1, <4>2
      <3>10. Chain(At(r, 1)) = SubSeq(r, 1, Len(r))
        <4>1. 1 \in 1 .. Len(r) + 1
          BY <3>3
        <4> QED
          BY <3>3, <3>7, <3>8, <4>1, ChainIsRest
      <3>11. SubSeq(r, 1, Len(r)) = r
        BY <3>3
      <3> QED
        BY <3>2, <3>9, <3>10, <3>11
    <2> QED
      BY <2>2, <2>3
  <1> QED
    BY <1>1, SequenceInvariance, PTL

\* How many nodes the loop of the call in progress has still to pass.
ToPass == Len(called) - steps

\* A step inside a call ends it or passes a node.
LEMMA LoopShortens ==
  ASSUME SInv, Next, busy, busy'
  PROVE  ToPass' = ToPass - 1
  <1>1. /\ ~Creat
        /\ \A fn \in InsertFns, v \in Value : ~Insert(fn, v) /\ ~InsertFails(fn, v)
        /\ \A r \in Requests : ~Call(r)
    BY DEF Creat, Insert, InsertFails, InsertCall, Call
  <1>2. Continue
    BY <1>1 DEF Next
  <1>3. FindStep \/ TravelStep \/ CheckStep \/ TravelDeleteStep \/ TeardownStep
    BY <1>2 DEF Continue, FindNone, FindHit, DeletHit, FetchHit, TravelBreak,
       TravelDeleteBreak, LoopEnd, ClearEnd, DestroyEnd, Return
  <1>4. steps' = steps + 1 /\ called' = called
    BY <1>3 DEF FindStep, TravelStep, CheckStep, TravelDeleteStep, TeardownStep, Advance
  <1>5. steps \in Nat /\ Len(called) \in Nat
    BY LenProperties DEF SInv, Midway
  <1> QED
    BY <1>4, <1>5 DEF ToPass

\* No change of the links makes a loop go round for ever or miss the head:
\* every iteration that does not end the call leaves one node less to pass,
\* and the call ends at the latest when none is left.
THEOREM LoopsEnd ==
  Spec => /\ [](busy => ToPass \in Nat /\ (ToPass = 0 <=> cur = ListHead))
          /\ [][busy /\ busy' => ToPass' = ToPass - 1]_vars
  <1>1. IInv /\ SInv => (busy => ToPass \in Nat /\ (ToPass = 0 <=> cur = ListHead))
    <2> SUFFICES ASSUME IInv, SInv, busy
                 PROVE  ToPass \in Nat /\ (ToPass = 0 <=> cur = ListHead)
      OBVIOUS
    <2>1. /\ Midway /\ called \in Seq(Node) /\ steps \in 0 .. Len(called)
          /\ Len(called) \in Nat /\ cur = At(called, steps + 1)
      BY LenProperties DEF SInv, Midway
    <2>2. CASE steps = Len(called)
      BY <2>1, <2>2 DEF At, ToPass
    <2>3. CASE steps # Len(called)
      <3>1. steps + 1 \in 1 .. Len(called)
        BY <2>1, <2>3
      <3>2. cur \in Node
        BY <2>1, <3>1, ElementOfSeq DEF At
      <3> QED
        BY <2>1, <2>3, <3>2, ListAssumption DEF ListAssumption, ToPass
    <2> QED
      BY <2>2, <2>3
  <1>2. IInv /\ SInv /\ [Next]_vars => [busy /\ busy' => ToPass' = ToPass - 1]_vars
    BY LoopShortens
  <1> QED
    BY <1>1, <1>2, SequenceInvariance, PTL DEF Spec

\* What is allocated is in the list, and nothing after llist_destroy.
THEOREM NothingLeaks == Spec => []NoLeak
  <1>1. IInv /\ SInv => NoLeak
    <2> SUFFICES ASSUME IInv, SInv
                 PROVE  NoLeak
      OBVIOUS
    <2>1. CASE TearingDown
      BY <2>1 DEF TearingDown, SInv, Midway, NoLeak
    <2>2. CASE ~TearingDown /\ made
      <3>1. PICK s : Shape(s)
        BY <2>2 DEF TearingDown, SInv, Midway
      <3>2. Nodes = s /\ live = {s[i] : i \in 1 .. Len(s)}
        BY <3>1, NodesAre DEF Shape
      <3> QED
        BY <2>2, <3>2 DEF NoLeak
    <2>3. CASE ~TearingDown /\ ~made
      BY <2>3 DEF IInv, NoLeak
    <2> QED
      BY <2>1, <2>2, <2>3
  <1> QED
    BY <1>1, SequenceInvariance, PTL

\* Every function of link_list.c does to the list, as a sequence, and answers
\* what its name says.
THEOREM CallsDoWhatTheySay == Spec => []PromiseKept
  <1>1. SInv => PromiseKept
    <2> SUFFICES ASSUME SInv, made, ~busy
                 PROVE  Promise(call.fn, Nodes)
      BY DEF PromiseKept
    <2>1. PICK s : Shape(s) /\ Promise(call.fn, s)
      BY DEF SInv
    <2> QED
      BY <2>1, NodesAre
  <1> QED
    BY <1>1, SequenceInvariance, PTL

-----------------------------------------------------------------------------
(* The queue and the stack                                                 *)

\* Nothing is linked from a pointer that points nowhere.
LEMMA ChainOfNull == Chain(Null) = << >>
  <1> DEFINE bound == Cardinality(Node)
             Hop(f) == f = [k \in 0 .. bound |-> IF k = 0 THEN Null ELSE Follow(f[k - 1])]
             g == [k \in 0 .. bound |-> Null]
  <1>1. bound \in Nat
    BY ListAssumption, FS_CardinalityType DEF ListAssumption
  <1>2. Null \notin Node /\ Follow(Null) = Null
    BY ListAssumption DEF ListAssumption, Follow
  <1>3. Hop(g)
    <2> HIDE DEF bound
    <2>1. \A k \in 0 .. bound : k # 0 => k - 1 \in 0 .. bound
      BY <1>1
    <2> QED
      BY <1>2, <2>1
  <1>4. ASSUME NEW f, Hop(f)
        PROVE  \A k \in 0 .. bound : f[k] \notin Node
    <2> HIDE DEF bound
    <2>1. \A k \in 0 .. bound : f[k] = IF k = 0 THEN Null ELSE Follow(f[k - 1])
      BY <1>4
    <2> DEFINE C == {k \in 0 .. bound : f[k] # Null}
    <2>2. C = {}
      <3> SUFFICES ASSUME C # {}
                   PROVE  FALSE
        OBVIOUS
      <3>1. PICK k \in C : \A l \in C : k <= l
        <4>1. C \in SUBSET Nat
          BY <1>1
        <4> HIDE DEF C
        <4> QED
          BY <4>1, LeastNumber
      <3>2. k \in 0 .. bound /\ f[k] # Null /\ (k # 0 => f[k - 1] = Null)
        BY <1>1, <3>1
      <3> HIDE DEF C
      <3> QED
        BY <1>2, <2>1, <3>2
    <2> QED
      BY <1>2, <2>2
  <1>5. PICK c : c = CHOOSE f : Hop(f)
    OBVIOUS
  <1>6. Hop(c)
    <2> HIDE DEF Hop, g
    <2> QED
      BY <1>3, <1>5
  <1>7. {k \in 0 .. bound : c[k] \in Node} = {}
    <2> HIDE DEF Hop, bound
    <2> QED
      BY <1>4, <1>6
  <1>8. Chain(Null) = [i \in 1 .. Cardinality({k \in 0 .. bound : c[k] \in Node}) |-> c[i - 1]]
    <2>1. Chain(Null) = LET d == CHOOSE f : Hop(f)
                        IN  [i \in 1 .. Cardinality({k \in 0 .. bound : d[k] \in Node}) |-> d[i - 1]]
      BY DEF Chain
    <2> HIDE DEF Hop, bound
    <2> QED
      BY <1>5, <2>1
  <1>9. Cardinality({}) = 0
    BY FS_EmptySet
  <1>10. Chain(Null) = [i \in 1 .. 0 |-> c[i - 1]]
    <2> HIDE DEF Hop, bound
    <2> QED
      BY <1>7, <1>8, <1>9
  <1> QED
    BY <1>10

\* What d gives for each element of a sequence.
Through(d, s) == [i \in 1 .. Len(s) |-> d[s[i]]]

\* A sequence that is longer by one at its end, or its beginning.
LEMMA ThroughAppend ==
  ASSUME NEW d \in [Node -> Value], NEW e \in [Node -> Value], NEW s \in Seq(Node), NEW n \in Node,
         \A i \in 1 .. Len(s) : e[s[i]] = d[s[i]]
  PROVE  Through(e, Append(s, n)) = Append(Through(d, s), e[n])
  <1>1. PICK t : t = Append(s, n)
    OBVIOUS
  <1>2. /\ t \in Seq(Node) /\ Len(t) = Len(s) + 1 /\ Len(s) \in Nat
        /\ t[Len(s) + 1] = n /\ \A i \in 1 .. Len(s) : t[i] = s[i]
    BY <1>1, AppendProperties, LenProperties
  <1>3. PICK a : a = Through(d, s)
    OBVIOUS
  <1>4. a \in Seq(Value) /\ Len(a) = Len(s) /\ \A i \in 1 .. Len(s) : a[i] = d[s[i]]
    <2>1. Len(s) \in Nat /\ \A i \in 1 .. Len(s) : s[i] \in Node
      BY LenProperties, ElementOfSeq
    <2> QED
      BY <1>3, <2>1 DEF Through
  <1>5. PICK v \in Value : v = e[n]
    OBVIOUS
  <1>6. PICK b : b = Append(a, v)
    OBVIOUS
  <1>7. /\ b \in Seq(Value) /\ Len(b) = Len(a) + 1
        /\ b[Len(a) + 1] = v /\ \A i \in 1 .. Len(a) : b[i] = a[i]
    BY <1>4, <1>6, AppendProperties
  <1>8. PICK c : c = Through(e, t)
    OBVIOUS
  <1>9. c \in Seq(Value) /\ Len(c) = Len(t) /\ \A i \in 1 .. Len(t) : c[i] = e[t[i]]
    <2>1. t \in Seq(Node) /\ e \in [Node -> Value]
      BY <1>2
    <2>2. Len(t) \in Nat /\ \A i \in 1 .. Len(t) : t[i] \in Node
      BY <2>1, LenProperties, ElementOfSeq
    <2> QED
      BY <1>8, <2>1, <2>2 DEF Through
  <1>10. ASSUME NEW i \in 1 .. Len(c)
         PROVE  c[i] = b[i]
    <2>1. CASE i = Len(s) + 1
      BY <1>2, <1>4, <1>5, <1>7, <1>9, <2>1
    <2>2. CASE i # Len(s) + 1
      <3>1. i \in 1 .. Len(s)
        BY <1>2, <1>9, <2>2
      <3> QED
        BY <1>2, <1>4, <1>7, <1>9, <3>1
    <2> QED
      BY <2>1, <2>2
  <1>11. c = b
    <2>1. Len(c) = Len(b)
      BY <1>2, <1>4, <1>7, <1>9
    <2> QED
      BY <1>7, <1>9, <1>10, <2>1, SeqEqual
  <1> QED
    BY <1>1, <1>3, <1>5, <1>6, <1>8, <1>11

LEMMA PrependIs ==
  ASSUME NEW X, NEW n \in X, NEW s \in Seq(X), NEW t, t = <<n>> \o s
  PROVE  /\ t \in Seq(X) /\ Len(t) = Len(s) + 1 /\ Len(s) \in Nat
         /\ t[1] = n /\ \A i \in 1 .. Len(s) : t[i + 1] = s[i]
  <1>1. Len(s) \in Nat
    BY LenProperties
  <1>2. PICK h \in Seq(X) : h = <<n>> /\ Len(h) = 1 /\ h[1] = n
    <2>1. <<n>> \in Seq(X) /\ Len(<<n>>) = 1 /\ <<n>>[1] = n
      OBVIOUS
    <2> QED
      BY <2>1
  <1>3. /\ t \in Seq(X) /\ Len(t) = Len(h) + Len(s)
        /\ \A i \in 1 .. Len(h) + Len(s) : t[i] = IF i <= Len(h) THEN h[i] ELSE s[i - Len(h)]
    BY <1>2, ConcatProperties
  <1>4. ASSUME NEW i \in 1 .. Len(s)
        PROVE  t[i + 1] = s[i]
    <2>1. i + 1 \in 1 .. Len(h) + Len(s) /\ ~(i + 1 <= Len(h)) /\ (i + 1) - Len(h) = i
      BY <1>1, <1>2
    <2> HIDE <1>2
    <2> QED
      BY <1>3, <2>1
  <1>5. t[1] = n /\ Len(t) = Len(s) + 1
    BY <1>1, <1>2, <1>3
  <1> QED
    BY <1>1, <1>3, <1>4, <1>5

LEMMA ThroughPrepend ==
  ASSUME NEW d \in [Node -> Value], NEW e \in [Node -> Value], NEW s \in Seq(Node), NEW n \in Node,
         \A i \in 1 .. Len(s) : e[s[i]] = d[s[i]]
  PROVE  Through(e, <<n>> \o s) = <<e[n]>> \o Through(d, s)
  <1>1. PICK t : t = <<n>> \o s
    OBVIOUS
  <1>2. /\ t \in Seq(Node) /\ Len(t) = Len(s) + 1 /\ Len(s) \in Nat
        /\ t[1] = n /\ \A i \in 1 .. Len(s) : t[i + 1] = s[i]
    BY <1>1, PrependIs
  <1>3. PICK a : a = Through(d, s)
    OBVIOUS
  <1>4. a \in Seq(Value) /\ Len(a) = Len(s) /\ \A i \in 1 .. Len(s) : a[i] = d[s[i]]
    <2>1. Len(s) \in Nat /\ \A i \in 1 .. Len(s) : s[i] \in Node
      BY LenProperties, ElementOfSeq
    <2> QED
      BY <1>3, <2>1 DEF Through
  <1>5. PICK v \in Value : v = e[n]
    OBVIOUS
  <1>6. PICK b : b = <<v>> \o a
    OBVIOUS
  <1>7. /\ b \in Seq(Value) /\ Len(b) = Len(a) + 1
        /\ b[1] = v /\ \A i \in 1 .. Len(a) : b[i + 1] = a[i]
    BY <1>4, <1>6, PrependIs
  <1>8. PICK c : c = Through(e, t)
    OBVIOUS
  <1>9. c \in Seq(Value) /\ Len(c) = Len(t) /\ \A i \in 1 .. Len(t) : c[i] = e[t[i]]
    <2>1. t \in Seq(Node) /\ e \in [Node -> Value]
      BY <1>2
    <2>2. Len(t) \in Nat /\ \A i \in 1 .. Len(t) : t[i] \in Node
      BY <2>1, LenProperties, ElementOfSeq
    <2> QED
      BY <1>8, <2>1, <2>2 DEF Through
  <1>10. ASSUME NEW i \in 1 .. Len(c)
         PROVE  c[i] = b[i]
    <2>1. CASE i = 1
      BY <1>2, <1>5, <1>7, <1>9, <2>1
    <2>2. CASE i # 1
      <3>1. PICK j \in 1 .. Len(s) : i = j + 1
        <4>1. i - 1 \in 1 .. Len(s) /\ i = (i - 1) + 1
          BY <1>2, <1>9, <2>2
        <4> QED
          BY <4>1
      <3> QED
        BY <1>2, <1>4, <1>7, <1>9, <3>1
    <2> QED
      BY <2>1, <2>2
  <1>11. c = b
    <2>1. Len(c) = Len(b)
      BY <1>2, <1>4, <1>7, <1>9
    <2> QED
      BY <1>7, <1>9, <1>10, <2>1, SeqEqual
  <1> QED
    BY <1>1, <1>3, <1>5, <1>6, <1>8, <1>11

\* What follows the first element.
LEMMA ThroughTail ==
  ASSUME NEW d \in [Node -> Value], NEW s \in Seq(Node), Len(s) > 0
  PROVE  /\ Through(d, s) # << >> /\ Head(Through(d, s)) = d[s[1]]
         /\ Through(d, SubSeq(s, 2, Len(s))) = Tail(Through(d, s))
  <1>1. PICK t : t = SubSeq(s, 2, Len(s))
    OBVIOUS
  <1>2. /\ Len(s) \in Nat /\ t \in Seq(Node) /\ Len(t) = Len(s) - 1
        /\ \A i \in 1 .. Len(s) - 1 : t[i] = s[i + 1]
    <2>1. Len(s) \in Nat /\ \A i \in 2 .. Len(s) : s[i] \in Node
      BY LenProperties, ElementOfSeq
    <2>2. PICK n \in Nat : n = Len(s)
      BY <2>1
    <2>3. /\ SubSeq(s, 2, n) \in Seq(Node) /\ Len(SubSeq(s, 2, n)) = IF 2 <= n THEN n - 2 + 1 ELSE 0
          /\ \A i \in 1 .. n - 2 + 1 : SubSeq(s, 2, n)[i] = s[2 + i - 1]
      BY <2>1, <2>2, SubSeqProperties
    <2>4. (IF 2 <= n THEN n - 2 + 1 ELSE 0) = n - 1 /\ n - 2 + 1 = n - 1
      BY <2>2
    <2>5. \A i \in 1 .. n - 1 : 2 + i - 1 = i + 1
      BY <2>2
    <2>6. t \in Seq(Node) /\ Len(t) = n - 1 /\ \A i \in 1 .. n - 1 : t[i] = s[i + 1]
      BY <1>1, <2>2, <2>3, <2>4, <2>5
    <2> QED
      BY <2>2, <2>6
  <1>3. PICK a : a = Through(d, s)
    OBVIOUS
  <1>4. a \in Seq(Value) /\ Len(a) = Len(s) /\ \A i \in 1 .. Len(s) : a[i] = d[s[i]]
    <2>1. Len(s) \in Nat /\ \A i \in 1 .. Len(s) : s[i] \in Node
      BY LenProperties, ElementOfSeq
    <2> QED
      BY <1>3, <2>1 DEF Through
  <1>5. a # << >> /\ Head(a) = a[1] /\ 1 \in 1 .. Len(s)
    BY <1>2, <1>4, EmptySeq, HeadTailProperties
  <1>6. PICK b : b = Tail(a)
    OBVIOUS
  <1>7. b \in Seq(Value) /\ Len(b) = Len(a) - 1 /\ \A i \in 1 .. Len(b) : b[i] = a[i + 1]
    BY <1>4, <1>5, <1>6, HeadTailProperties
  <1>8. PICK c : c = Through(d, t)
    OBVIOUS
  <1>9. c \in Seq(Value) /\ Len(c) = Len(t) /\ \A i \in 1 .. Len(t) : c[i] = d[t[i]]
    <2>1. t \in Seq(Node)
      BY <1>2
    <2>2. Len(t) \in Nat /\ \A i \in 1 .. Len(t) : t[i] \in Node
      BY <2>1, LenProperties, ElementOfSeq
    <2> QED
      BY <1>8, <2>1, <2>2 DEF Through
  <1>10. ASSUME NEW i \in 1 .. Len(c)
         PROVE  c[i] = b[i]
    <2>1. i \in 1 .. Len(s) - 1 /\ i + 1 \in 1 .. Len(s)
      BY <1>2, <1>9
    <2>2. c[i] = d[s[i + 1]] /\ b[i] = a[i + 1]
      BY <1>2, <1>4, <1>7, <1>9, <2>1
    <2> QED
      BY <1>4, <2>1, <2>2
  <1>11. c = b
    <2>1. Len(c) = Len(b)
      BY <1>2, <1>4, <1>7, <1>9
    <2> QED
      BY <1>7, <1>9, <1>10, <2>1, SeqEqual
  <1>12. Head(a) = d[s[1]]
    BY <1>4, <1>5
  <1> QED
    BY <1>1, <1>3, <1>5, <1>6, <1>8, <1>11, <1>12

LEMMA ItemsAre ==
  ASSUME NEW s, Shape(s)
  PROVE  Items = Through(data, s)
  BY NodesAre DEF Items, Through

\* A queue or a stack makes two calls that loop: one that takes what it finds
\* first, and one that destroys it.
Adapted ==
    /\ user \in {"list", "queue", "stack"}
    /\ user # "list" =>
          /\ busy => \/ call.fn = "destroy"
                     \/ call.fn = "fetch" /\ call.match = Value /\ steps = 0
          /\ made /\ ~busy => call.fn # "destroy"
          /\ ~made => /\ out = Null
                      /\ call.fn # "destroy" => call.fn = "none" /\ Items = << >>

\* What the adapters call is a part of what may be called.
LEMMA AdapterCalls == AdapterNext => Next
  <1> SUFFICES ASSUME AdapterNext
               PROVE  Next
    OBVIOUS
  <1>1. CASE Take
    <2>1. [fn |-> "fetch", match |-> Value, stop |-> {}] \in Requests
      <3>1. [fn |-> "fetch", match |-> Value, stop |-> {}]
              \in Request(Searches \cup {"check"}, SUBSET Value, {{}})
        BY DEF Request, Searches
      <3> QED
        BY <3>1 DEF Requests
    <2> QED
      BY <1>1, <2>1 DEF Take, AlwaysMatch, Next
  <1>2. CASE Destroy
    <2>1. [fn |-> "destroy", match |-> {}, stop |-> {}] \in Requests
      <3>1. [fn |-> "destroy", match |-> {}, stop |-> {}]
              \in Request({"getnum"} \cup Teardown, {{}}, {{}})
        BY DEF Request, Teardown
      <3> QED
        BY <3>1 DEF Requests
    <2> QED
      BY <1>2, <2>1 DEF Destroy, Next
  <1>3. ASSUME NEW v \in Value, Put(v)
        PROVE  Next
    <2>1. PutFn \in InsertFns
      BY DEF PutFn, InsertFns
    <2> QED
      BY <1>3, <2>1 DEF Put, Next
  <1>4. CASE Creat \/ FindNone \/ FetchHit \/ TeardownStep \/ DestroyEnd
    BY <1>4 DEF Next, Continue
  <1> QED
    BY <1>1, <1>2, <1>3, <1>4 DEF AdapterNext

LEMMA UserCalls == [UserNext]_<<vars, user>> => [Next]_vars
  BY AdapterCalls DEF UserNext

LEMMA AdaptedInit == UserInit => Adapted
  <1> SUFFICES ASSUME UserInit
               PROVE  Adapted
    OBVIOUS
  <1>1. next[ListHead] = Null
    BY DEF UserInit, Init
  <1>2. Nodes = << >>
    BY <1>1, ChainOfNull DEF Nodes
  <1>3. Items = << >>
    BY <1>2 DEF Items
  <1> QED
    BY <1>3 DEF UserInit, Init, Adapted

\* The pointers and the data are as they were: so is the list.
LEMMA ItemsKept ==
  ASSUME next' = next, data' = data
  PROVE  Items' = Items
  BY DEF Items, Nodes, Chain, Follow

LEMMA AdaptedStep == IInv /\ Adapted /\ [UserNext]_<<vars, user>> => Adapted'
  <1> SUFFICES ASSUME IInv, Adapted, [UserNext]_<<vars, user>>
               PROVE  Adapted'
    OBVIOUS
  <1>1. user' = user
    BY DEF UserNext
  <1>2. CASE user = "list"
    BY <1>1, <1>2 DEF Adapted
  <1>3. CASE user # "list" /\ Creat
    BY <1>1, <1>3 DEF Adapted, Creat
  <1>4. CASE user # "list" /\ (Take \/ Destroy)
    BY <1>1, <1>4 DEF Adapted, Take, Destroy, AlwaysMatch, Call, heapVars
  <1>5. ASSUME user # "list", NEW v \in Value, Put(v)
        PROVE  Adapted'
    <2>1. made' /\ ~busy' /\ call'.fn = PutFn
      BY <1>5 DEF Put, Insert, InsertFails, InsertCall
    <2>2. PutFn # "destroy"
      BY DEF PutFn
    <2> QED
      BY <1>1, <1>5, <2>1, <2>2 DEF Adapted
  <1>6. CASE user # "list" /\ (FindNone \/ FetchHit)
    <2>1. busy /\ made /\ made' /\ ~busy' /\ call' = call
      BY <1>6 DEF FindNone, FetchHit, AtEnd, InLoop, Return, heapVars, Unlink, IInv
    <2>2. call.fn # "destroy"
      BY <1>6 DEF FindNone, FetchHit, AtEnd, InLoop, Searches
    <2> QED
      BY <1>1, <1>6, <2>1, <2>2 DEF Adapted
  <1>7. CASE user # "list" /\ TeardownStep
    <2>1. busy /\ made /\ made' /\ busy' /\ call' = call /\ call.fn \in Teardown
      BY <1>7 DEF TeardownStep, InLoop, Advance, FreeOnly, IInv
    <2> QED
      BY <1>1, <1>7, <2>1 DEF Adapted, Teardown
  <1>8. CASE user # "list" /\ DestroyEnd
    <2>1. ~made' /\ ~busy' /\ out' = Null /\ call'.fn = "destroy"
      BY <1>8 DEF DestroyEnd, AtEnd, Return
    <2>2. user' \in {"list", "queue", "stack"}
      BY <1>1 DEF Adapted
    <2> QED
      BY <2>1, <2>2 DEF Adapted
  <1>9. CASE UNCHANGED <<vars, user>>
    <2>1. /\ next' = next /\ data' = data /\ busy' = busy /\ made' = made /\ call' = call
          /\ steps' = steps /\ out' = out
      BY <1>9 DEF vars, heapVars
    <2> QED
      BY <1>1, <2>1, ItemsKept DEF Adapted
  <1> QED
    BY <1>2, <1>3, <1>4, <1>5, <1>6, <1>7, <1>8, <1>9 DEF UserNext, AdapterNext

\* Between two calls the list is a sequence that keeps the last promise, and
\* so it is after a step.
LEMMA ListNow == SInv /\ made /\ ~busy => Shape(Nodes) /\ Promise(call.fn, Nodes)
  <1> SUFFICES ASSUME SInv, made, ~busy
               PROVE  Shape(Nodes) /\ Promise(call.fn, Nodes)
    OBVIOUS
  <1>1. PICK s : Shape(s) /\ Promise(call.fn, s)
    BY DEF SInv
  <1>2. Nodes = s
    BY <1>1, NodesAre
  <1> QED
    BY <1>1, <1>2

LEMMA ListThen == SInv' /\ made' /\ ~busy' => Shape(Nodes)' /\ Promise(call.fn, Nodes)'
  BY ListNow, PTL

LEMMA NodesThen == (\A s : Shape(s) => Nodes = s)'
  <1>1. \A s : Shape(s) => Nodes = s
    BY NodesAre
  <1> QED
    BY <1>1, PTL

\* queue_enq and stack_push put the value at their end of the list.
LEMMA PutIsPut ==
  ASSUME IInv, SInv, Adapted, user # "list", user' = user, NEW v \in Value, Insert(PutFn, v)
  PROVE  Abstract!Put(v)
  <1>1. /\ made /\ ~busy /\ made' /\ ~busy' /\ out' = out /\ call'.fn = PutFn /\ call'.match = {v}
        /\ ret' = 0 /\ called' = Nodes
    BY DEF Insert, InsertCall
  <1>2. /\ PutFn \in InsertFns /\ PutFn # "destroy"
        /\ PutFn = "insert_forward" <=> user = "stack"
    BY DEF PutFn, InsertFns
  <1>3. call.fn # "destroy" /\ call'.fn # "destroy"
    BY <1>1, <1>2 DEF Adapted
  <1>4. PICK s : s = Nodes
    OBVIOUS
  <1>5. s \in Seq(Node) /\ live = {s[i] : i \in 1 .. Len(s)}
    BY <1>1, <1>4, ListNow DEF Shape
  <1>6. PICK t : t = Nodes'
    OBVIOUS
  <1>7. t \in Seq(Node) /\ live' = {t[i] : i \in 1 .. Len(t)} /\ Promise(call.fn, t)'
    <2>1. SInv'
      BY <1>2, InsertSeq
    <2>2. Shape(Nodes)' /\ Promise(call.fn, Nodes)'
      BY <1>1, <2>1, ListThen
    <2> QED
      BY <1>6, <2>2 DEF Shape
  <1>8. PICK n \in live' : /\ n \notin {s[i] : i \in 1 .. Len(s)} /\ data'[n] = v
                           /\ t = IF user = "stack" THEN <<n>> \o s ELSE Append(s, n)
    <2>1. \E n \in live' :
            /\ n \notin {called'[i] : i \in 1 .. Len(called')} /\ data'[n] \in call'.match
            /\ t = IF call'.fn = "insert_forward" THEN <<n>> \o called' ELSE Append(called', n)
      <3>1. call'.fn \in InsertFns /\ ret' # -1
        BY <1>1, <1>2
      <3>2. call'.fn \in InsertFns =>
              IF ret' = -1 THEN t = called'
              ELSE \E n \in live' :
                      /\ n \notin {called'[i] : i \in 1 .. Len(called')}
                      /\ data'[n] \in call'.match
                      /\ t = IF call'.fn = "insert_forward" THEN <<n>> \o called' ELSE Append(called', n)
        BY <1>7 DEF Promise
      <3> QED
        BY <3>1, <3>2, Zenon
    <2> QED
      BY <1>1, <1>2, <1>4, <2>1
  <1>9. n \in Node
    BY <1>7, <1>8, ElementOfSeq
  <1>10. PICK d \in [Node -> Value] : d = data
    BY DEF IInv, TypeOK
  <1>11. PICK e \in [Node -> Value] : e = data' /\ \A m \in live : e[m] = d[m]
    <2>1. PICK k \in Node \ live : data' = [data EXCEPT ![k] = v]
      BY DEF Insert
    <2>2. PICK e \in [Node -> Value] : e = [d EXCEPT ![k] = v]
      BY <1>10
    <2>3. \A m \in live : e[m] = d[m]
      BY <2>1, <2>2 DEF IInv, TypeOK
    <2> QED
      BY <1>10, <2>1, <2>2, <2>3
  <1>12. \A i \in 1 .. Len(s) : e[s[i]] = d[s[i]]
    BY <1>5, <1>11
  <1>13. Items = Through(d, s) /\ Items' = Through(e, t)
    BY <1>4, <1>6, <1>10, <1>11 DEF Items, Through
  <1>14. Items' = IF user = "stack" THEN <<v>> \o Items ELSE Append(Items, v)
    <2>1. e[n] = v
      BY <1>8, <1>11
    <2>2. Through(e, Append(s, n)) = Append(Through(d, s), e[n])
      BY <1>5, <1>9, <1>10, <1>11, <1>12, ThroughAppend
    <2>3. Through(e, <<n>> \o s) = <<e[n]>> \o Through(d, s)
      BY <1>5, <1>9, <1>10, <1>11, <1>12, ThroughPrepend
    <2> QED
      BY <1>8, <1>13, <2>1, <2>2, <2>3
  <1> QED
    BY <1>1, <1>3, <1>14 DEF Abstract!Put

\* queue_deq and stack_pop of a list that is not empty take its first value.
LEMMA TakeIsTake ==
  ASSUME IInv, SInv, Adapted, user # "list", user' = user, FetchHit
  PROVE  Abstract!Take
  <1>1. /\ busy /\ Midway /\ call.fn = "fetch" /\ call' = call /\ cur # ListHead /\ steps = 0
        /\ Unlink(cur) /\ data' = data /\ out' = data[cur]
    BY DEF FetchHit, InLoop, SInv, Adapted, Return, Unlink
  <1>2. call.fn \notin Teardown /\ Dropped = {}
    BY <1>1 DEF Teardown, Dropped
  <1>3. PICK s : s = called
    OBVIOUS
  <1>4. s \in Seq(Node) /\ Len(s) \in Nat /\ Len(s) > 0 /\ cur = s[1]
    <2>1. Len(called) \in Nat /\ 0 + 1 \in 1 .. Len(called) /\ cur = called[0 + 1]
      BY <1>1, AtCursor
    <2>2. called \in Seq(Node)
      BY <1>1 DEF Midway
    <2> QED
      BY <1>3, <2>1, <2>2
  <1>5. Nodes = s
    <2>1. Shape(Current) /\ Current = s
      BY <1>1, <1>2, <1>3, CurrentIsCalled DEF Midway
    <2> QED
      BY <2>1, NodesAre
  <1>6. PICK t : t = SubSeq(s, 2, Len(s))
    OBVIOUS
  <1>7. Nodes' = t
    <2>1. t = Left(called, Dropped)[steps] \o SubSeq(called, steps + 2, Len(called))
      <3>1. Left(s, {})[0] = << >>
        <4>1. PICK k \in 0 .. Len(s) : k = 0
          BY <1>4
        <4> QED
          BY <1>4, <4>1, LeftMeans
      <3>2. t \in Seq(Node)
        <4>1. SubSeq(called, steps + 2, Len(called)) \in Seq(Node)
          BY <1>1, AtCursor
        <4> QED
          BY <1>1, <1>3, <1>6, <4>1
      <3>3. << >> \o t = t
        BY <3>2, ConcatEmptySeq
      <3>4. Left(called, Dropped)[steps] = << >>
        BY <1>1, <1>2, <1>3, <3>1
      <3>5. SubSeq(called, steps + 2, Len(called)) = t
        BY <1>1, <1>3, <1>6
      <3> QED
        BY <3>3, <3>4, <3>5
    <2>2. Shape(t)'
      BY <1>1, <1>2, <2>1, UnlinkCursor
    <2> QED
      BY <2>2, NodesThen
  <1>8. PICK d \in [Node -> Value] : d = data
    BY DEF IInv, TypeOK
  <1>9. Items = Through(d, s) /\ Items' = Through(d, t)
    BY <1>1, <1>5, <1>7, <1>8 DEF Items, Through
  <1>10. Items # << >> /\ out' = Head(Items) /\ Items' = Tail(Items)
    <2>1. /\ Through(d, s) # << >> /\ Head(Through(d, s)) = d[s[1]]
          /\ Through(d, SubSeq(s, 2, Len(s))) = Tail(Through(d, s))
      BY <1>4, <1>8, ThroughTail
    <2> QED
      BY <1>1, <1>4, <1>6, <1>8, <1>9, <2>1
  <1> QED
    BY <1>1, <1>10 DEF Abstract!Take

\* queue_deq and stack_pop give nothing when the list is empty.
LEMMA TakeIsNothing ==
  ASSUME IInv, SInv, Adapted, user # "list", user' = user, FindNone, call.fn = "fetch"
  PROVE  Abstract!TakeNothing
  <1>1. /\ busy /\ Midway /\ call' = call /\ cur = ListHead /\ steps = 0
        /\ next' = next /\ data' = data /\ out' = Null
    BY DEF FindNone, AtEnd, SInv, Adapted, Return, heapVars
  <1>2. Dropped = {} /\ call.fn \notin Teardown
    BY DEF Teardown, Dropped
  <1>3. Len(called) = 0
    BY <1>1, PlacesOfCursor
  <1>4. Nodes = called
    <2>1. Shape(Current) /\ Current = called
      BY <1>1, <1>2, CurrentIsCalled DEF Midway
    <2> QED
      BY <2>1, NodesAre
  <1>5. Items = << >>
    BY <1>3, <1>4 DEF Items
  <1>6. Items' = << >>
    BY <1>1, <1>5, ItemsKept
  <1> QED
    BY <1>1, <1>5, <1>6 DEF Abstract!TakeNothing

-----------------------------------------------------------------------------

\* What the queue or the stack does in one step of its list.
LEMMA AdapterSteps ==
  ASSUME IInv, SInv, Adapted, user # "list", user' = user, AdapterNext, call'.fn # "destroy"
  PROVE  Abstract!Next \/ UNCHANGED Abstract!pvars
  <1>1. ASSUME call.fn # "destroy", Items' = Items, out' = out
        PROVE  UNCHANGED Abstract!pvars
    BY <1>1 DEF Abstract!pvars
  <1>2. CASE Creat
    <2>1. made' /\ ~busy' /\ call'.fn = "creat" /\ out' = Null /\ out = Null /\ SInv'
      BY <1>2, CreatSeq DEF Creat, Adapted
    <2>2. (IF call.fn = "destroy" THEN << >> ELSE Items) = << >>
      BY <1>2 DEF Creat, Adapted
    <2>3. Items' = << >>
      <3>1. live' = {}
        BY <1>2 DEF Creat, IInv
      <3>2. Shape(Nodes)'
        BY <2>1, ListThen
      <3>3. Len(Nodes') \in Nat /\ \A i \in 1 .. Len(Nodes') : Nodes'[i] \in live'
        BY <3>2, LenProperties DEF Shape
      <3>4. Len(Nodes') = 0
        BY <3>1, <3>3
      <3> QED
        BY <3>4 DEF Items
    <2> QED
      BY <2>1, <2>2, <2>3 DEF Abstract!pvars
  <1>3. CASE Take \/ Destroy
    <2>1. /\ made /\ ~busy /\ next' = next /\ data' = data /\ out' = out
      BY <1>3 DEF Take, Destroy, Call, heapVars
    <2> QED
      BY <1>1, <2>1, ItemsKept DEF Adapted
  <1>4. ASSUME NEW v \in Value, Put(v)
        PROVE  Abstract!Next \/ UNCHANGED Abstract!pvars
    <2>1. CASE Insert(PutFn, v)
      BY <2>1, PutIsPut DEF Abstract!Next
    <2>2. CASE InsertFails(PutFn, v)
      <3>1. /\ made /\ ~busy /\ next' = next /\ data' = data /\ out' = out
        BY <2>2 DEF InsertFails, InsertCall
      <3> QED
        BY <1>1, <3>1, ItemsKept DEF Adapted
    <2> QED
      BY <1>4, <2>1, <2>2 DEF Put
  <1>5. CASE FindNone
    <2>1. call.fn = "fetch"
      BY <1>5 DEF FindNone, AtEnd, Adapted, Searches
    <2> QED
      BY <1>5, <2>1, TakeIsNothing DEF Abstract!Next
  <1>6. CASE FetchHit
    BY <1>6, TakeIsTake DEF Abstract!Next
  <1>7. CASE TeardownStep \/ DestroyEnd
    <2>1. busy /\ call' = call /\ call.fn \in Teardown
      BY <1>7 DEF TeardownStep, DestroyEnd, InLoop, AtEnd, Advance, Return, Teardown
    <2> QED
      BY <2>1 DEF Adapted, Teardown
  <1> QED
    BY <1>2, <1>3, <1>4, <1>5, <1>6, <1>7 DEF AdapterNext

\* Each call of a queue gives or takes as a queue does, each call of a stack
\* as a stack does, one that fails and one that fetches from an empty list
\* included (queue.c:15, 25; stack.c:15, 25).
THEOREM AdaptersImplement == UserSpec => PutTakeSteps
  <1> DEFINE Inv == IInv /\ SInv /\ Adapted
  <1>1. UserInit => Inv
    BY IInvInit, AdaptedInit DEF UserInit, Init, SInv
  <1>2. Inv /\ [UserNext]_<<vars, user>> => Inv'
    BY UserCalls, IInvStep, SInvStep, AdaptedStep
  <1>3. UserInit => Abstract!Init
    <2> SUFFICES ASSUME UserInit
                 PROVE  Abstract!Init
      OBVIOUS
    <2>1. next[ListHead] = Null /\ out = Null /\ call.fn # "destroy"
      BY DEF UserInit, Init
    <2>2. Items = << >>
      BY <2>1, ChainOfNull DEF Nodes, Items
    <2> QED
      BY <2>1, <2>2 DEF Abstract!Init
  <1>4. Inv /\ [UserNext]_<<vars, user>>
           => [user # "list" /\ call'.fn # "destroy" => Abstract!Next]_(Abstract!pvars)
    <2> SUFFICES ASSUME Inv, [UserNext]_<<vars, user>>, user # "list", call'.fn # "destroy"
                 PROVE  Abstract!Next \/ UNCHANGED Abstract!pvars
      OBVIOUS
    <2>1. CASE UserNext
      BY <2>1, AdapterSteps DEF UserNext
    <2>2. CASE UNCHANGED <<vars, user>>
      <3>1. next' = next /\ data' = data /\ call' = call /\ out' = out /\ user' = user
        BY <2>2 DEF vars, heapVars
      <3>2. Items' = Items
        BY <3>1, ItemsKept
      <3> QED
        BY <3>1, <3>2 DEF Abstract!pvars
    <2> QED
      BY <2>1, <2>2
  <1> QED
    BY <1>1, <1>2, <1>3, <1>4, PTL DEF UserSpec, PutTakeSteps
=============================================================================
