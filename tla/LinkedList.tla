----------------------------- MODULE LinkedList -----------------------------
(***************************************************************************)
(* link_list.c: a circular doubly linked list around the node `head` of    *)
(* struct LLIST.  The heap is explicit: next and prev are the pointers of  *)
(* every node, live is the set of allocated ones, and freeing a node       *)
(* destroys its pointers.  A loop over the list is one action for each     *)
(* iteration, so a pointer the code saves before it frees a node is read   *)
(* where the code reads it.                                                *)
(*                                                                         *)
(* The callbacks cmp, op and node_check are a choice of the caller: the    *)
(* set of data they match, and the set on which op returns                 *)
(* LLIST_TRAVEL_BREAK.  None of the repository's callbacks calls into the  *)
(* list it is invoked from.                                                *)
(***************************************************************************)
EXTENDS Integers, Sequences, FiniteSets

CONSTANTS
    Node,      \* what malloc can return
    Value,     \* the data of a node
    ListHead,  \* &ptr->head
    Null       \* the NULL pointer, a destroyed pointer, no data

ASSUME ListAssumption ==
    /\ IsFiniteSet(Node)
    /\ ListHead \notin Node
    /\ Null \notin Node \cup {ListHead}
    /\ Null \notin Value

VARIABLES
    next, prev, \* the pointers of the nodes and of the head
    data,       \* the data of the nodes
    live,       \* the nodes allocated and not freed
    made,       \* whether the list exists (llist_creat to llist_destroy)
    call,       \* the call in progress, or the last one
    busy,       \* whether it is still in progress
    cur,        \* its loop variable
    steps,      \* iterations so far: the i, n or size of the code
    ret,        \* the number returned by the last call
    out,        \* the data the last search found, Null if none
    called      \* history: the nodes in list order when it was called

heapVars == <<next, prev, data, live, made>>
vars == <<heapVars, call, busy, cur, steps, ret, out, called>>

-----------------------------------------------------------------------------
(* The list as a sequence (specification only)                             *)

Follow(p) == IF p \in Node THEN next[p] ELSE p

\* The nodes from p up to the head; at most as many as there are nodes.
Chain(p) ==
    LET bound == Cardinality(Node)
        hop[k \in 0 .. bound] == IF k = 0 THEN p ELSE Follow(hop[k - 1])
        len == Cardinality({k \in 0 .. bound : hop[k] \in Node})
    IN  [i \in 1 .. len |-> hop[i - 1]]

Nodes == Chain(next[ListHead])
Items == [i \in 1 .. Len(Nodes) |-> data[Nodes[i]]]

-----------------------------------------------------------------------------
(* Calls                                                                   *)

Searches == {"find", "delet", "fetch"}
Teardown == {"clear", "destroy"}

Request(fns, matches, stops) == [fn : fns, match : matches, stop : stops]

\* The calls that loop, with the arguments that matter to each.
Requests ==
    UNION {Request(Searches \cup {"check"}, SUBSET Value, {{}}),
           Request({"getnum"} \cup Teardown, {{}}, {{}}),
           Request({"travel"}, {{}}, SUBSET Value),
           Request({"travel_delete"}, SUBSET Value, SUBSET Value)}

\* cmp and node_check return 0; op returns LLIST_TRAVEL_BREAK.
Matches(n) == data[n] \in call.match
Stops(n)   == data[n] \in call.stop

\* The part before a loop: cur = ptr->head.next.
Call(r) ==
    /\ made /\ ~busy
    /\ call' = r /\ busy' = TRUE
    /\ cur' = next[ListHead] /\ steps' = 0
    /\ called' = Nodes
    /\ UNCHANGED <<heapVars, ret, out>>

InLoop(fns) == busy /\ call.fn \in fns /\ cur # ListHead
AtEnd(fns)  == busy /\ call.fn \in fns /\ cur = ListHead

Return(r, o) ==
    /\ busy' = FALSE /\ ret' = r /\ out' = o
    /\ UNCHANGED <<call, called>>

\* Mutant of Saved: the pointer is read after the node is gone.
SavedLate(n) == next'[n]

\* Another: after a match the next node is passed over.
SavedSkipping(n) == IF Matches(n) THEN Follow(next[n]) ELSE next[n]

\* save = cur->next
Saved(n) == next[n]

\* Mutant of Advance: the loop variable stays where it is.
AdvanceForgotten == UNCHANGED <<call, called, busy, cur, steps, ret, out>>

Advance ==
    /\ cur' = Saved(cur) /\ steps' = steps + 1
    /\ UNCHANGED <<call, called, busy, ret, out>>

-----------------------------------------------------------------------------
(* The heap                                                                *)

\* Mutant of NextWithout: the previous node still points to a freed one.
NextWithoutForgotten(n) == [next EXCEPT ![n] = Null]

\* Mutant of PrevWithout: it steps over one node too many.
PrevWithoutFar(n) == [prev EXCEPT ![next[n]] = prev[prev[n]], ![n] = Null]

\* node->prev->next = node->next; node->next->prev = node->prev; free(node)
NextWithout(n) == [next EXCEPT ![prev[n]] = next[n], ![n] = Null]
PrevWithout(n) == [prev EXCEPT ![next[n]] = prev[n], ![n] = Null]

Unlink(n) ==
    /\ next' = NextWithout(n)
    /\ prev' = PrevWithout(n)
    /\ live' = live \ {n}
    /\ UNCHANGED <<data, made>>

\* free(cur) without touching the neighbours.
FreeOnly(n) ==
    /\ next' = [next EXCEPT ![n] = Null]
    /\ prev' = [prev EXCEPT ![n] = Null]
    /\ live' = live \ {n}
    /\ UNCHANGED <<data, made>>

\* ptr->head.prev = ptr->head.next = &ptr->head
HeadAlone ==
    /\ next' = [next EXCEPT ![ListHead] = ListHead]
    /\ prev' = [prev EXCEPT ![ListHead] = ListHead]

\* llist_creat
Creat ==
    /\ ~made /\ ~busy
    /\ HeadAlone
    /\ made' = TRUE
    /\ call' = [fn |-> "creat", match |-> {}, stop |-> {}]
    /\ called' = << >> /\ ret' = 0 /\ out' = Null
    /\ UNCHANGED <<data, live, busy, cur, steps>>

-----------------------------------------------------------------------------
(* llist_insert                                                            *)

\* Mutant of NewNext: LLIST_BACKWARD stops before the last node.
NewNextEarly(fn) ==
    IF fn = "insert_forward" THEN next[ListHead] ELSE prev[ListHead]

\* The neighbours of the new node for LLIST_FORWARD and LLIST_BACKWARD.
NewNext(fn) == IF fn = "insert_forward" THEN next[ListHead] ELSE ListHead
NewPrev(fn) == IF fn = "insert_forward" THEN ListHead ELSE prev[ListHead]

\* The new node between its neighbours, both pointers of each.
Link(n, a, b) ==
    /\ next' = [next EXCEPT ![n] = b, ![a] = n]
    /\ prev' = [prev EXCEPT ![n] = a, ![b] = n]

\* The set of data that concerns an insertion is that of the new node.
InsertCall(fn, v) ==
    /\ made /\ ~busy
    /\ call' = [fn |-> fn, match |-> {v}, stop |-> {}]
    /\ called' = Nodes
    /\ UNCHANGED <<made, busy, cur, steps, out>>

Insert(fn, v) ==
    /\ InsertCall(fn, v)
    /\ \E n \in Node \ live :
        /\ live' = live \cup {n}
        /\ data' = [data EXCEPT ![n] = v]
        /\ Link(n, NewPrev(fn), NewNext(fn))
    /\ ret' = 0

\* malloc returns NULL, which it may do at any time.
InsertFails(fn, v) ==
    /\ InsertCall(fn, v)
    /\ ret' = -1
    /\ UNCHANGED <<next, prev, data, live>>

-----------------------------------------------------------------------------
(* find__, llist_find, llist_delet, llist_fetch                            *)

\* cmp does not match: go on.
FindStep ==
    /\ InLoop(Searches) /\ ~Matches(cur)
    /\ UNCHANGED heapVars
    /\ Advance

\* find__ returns &ptr->head: NULL or -1.
FindNone ==
    /\ AtEnd(Searches)
    /\ Return(-1, Null)
    /\ UNCHANGED <<heapVars, cur, steps>>

FindHit ==
    /\ InLoop({"find"}) /\ Matches(cur)
    /\ Return(0, data[cur])
    /\ UNCHANGED <<heapVars, cur, steps>>

\* node_op gets the data before the node is freed.
DeletHit ==
    /\ InLoop({"delet"}) /\ Matches(cur)
    /\ Unlink(cur)
    /\ Return(0, data[cur])
    /\ UNCHANGED <<cur, steps>>

FetchHit ==
    /\ InLoop({"fetch"}) /\ Matches(cur)
    /\ Unlink(cur)
    /\ Return(0, data[cur])
    /\ UNCHANGED <<cur, steps>>

-----------------------------------------------------------------------------
(* llist_travel, llist_getnum, llist_check, llist_travel_delete            *)

TravelStep ==
    /\ InLoop({"travel", "getnum"}) /\ ~Stops(cur)
    /\ UNCHANGED heapVars
    /\ Advance

TravelBreak ==
    /\ InLoop({"travel"}) /\ Stops(cur)
    /\ Return(0, Null)
    /\ UNCHANGED <<heapVars, cur, steps>>

\* Mutant of Drops: op's break skips the deletion of its node.
DropsUnlessStopped(n) == Matches(n) /\ ~Stops(n)

\* The nodes these loops remove: node_check returned 0, or cmp did.
Drops(n) == Matches(n)

CheckStep ==
    /\ InLoop({"check"})
    /\ IF Drops(cur) THEN Unlink(cur) ELSE UNCHANGED heapVars
    /\ Advance

TravelDeleteStep ==
    /\ InLoop({"travel_delete"}) /\ ~Stops(cur)
    /\ IF Drops(cur) THEN Unlink(cur) ELSE UNCHANGED heapVars
    /\ Advance

\* op said break: the node is still deleted if it matches.
TravelDeleteBreak ==
    /\ InLoop({"travel_delete"}) /\ Stops(cur)
    /\ Return(0, Null)
    /\ IF Drops(cur) THEN Unlink(cur) ELSE UNCHANGED heapVars
    /\ UNCHANGED <<cur, steps>>

LoopEnd ==
    /\ AtEnd({"travel", "getnum", "check", "travel_delete"})
    /\ Return(IF call.fn \in {"getnum", "check"} THEN steps ELSE 0, Null)
    /\ UNCHANGED <<heapVars, cur, steps>>

-----------------------------------------------------------------------------
(* llist_clear, llist_destroy                                              *)

TeardownStep ==
    /\ InLoop(Teardown)
    /\ FreeOnly(cur)
    /\ Advance

HeadAfterClear == HeadAlone

ClearEnd ==
    /\ AtEnd({"clear"})
    /\ HeadAfterClear
    /\ Return(steps, Null)
    /\ UNCHANGED <<data, live, made, cur, steps>>

DestroyEnd ==
    /\ AtEnd({"destroy"})
    /\ made' = FALSE
    /\ Return(0, Null)
    /\ UNCHANGED <<next, prev, data, live, cur, steps>>

-----------------------------------------------------------------------------

Init ==
    /\ next = [n \in Node \cup {ListHead} |-> Null]
    /\ prev = [n \in Node \cup {ListHead} |-> Null]
    /\ data \in [Node -> Value]
    /\ live = {}
    /\ made = FALSE
    /\ call = [fn |-> "none", match |-> {}, stop |-> {}]
    /\ busy = FALSE
    /\ cur = Null /\ steps = 0
    /\ ret = 0 /\ out = Null
    /\ called = << >>

InsertFns == {"insert_forward", "insert_backward"}

\* One iteration of, or the way out of, the loop of the call in progress.
Continue ==
    \/ FindStep \/ FindNone \/ FindHit \/ DeletHit \/ FetchHit
    \/ TravelStep \/ TravelBreak \/ CheckStep
    \/ TravelDeleteStep \/ TravelDeleteBreak \/ LoopEnd
    \/ TeardownStep \/ ClearEnd \/ DestroyEnd

Next ==
    \/ Creat
    \/ \E fn \in InsertFns, v \in Value : Insert(fn, v) \/ InsertFails(fn, v)
    \/ \E r \in Requests : Call(r)
    \/ Continue

Spec == Init /\ [][Next]_vars

\* A call that is in progress runs on.
FairSpec == Spec /\ WF_vars(Continue)

-----------------------------------------------------------------------------
(* Properties                                                              *)

Place == Node \cup {ListHead}

\* Pointers point to nodes, to the head or nowhere.
TypeOK ==
    /\ next \in [Place -> Place \cup {Null}]
    /\ prev \in [Place -> Place \cup {Null}]
    /\ data \in [Node -> Value]
    /\ live \in SUBSET Node
    /\ made \in BOOLEAN /\ busy \in BOOLEAN
    /\ cur \in Place \cup {Null} /\ (busy => cur \in Place)
    /\ steps \in Nat
    /\ ret \in Int /\ out \in Value \cup {Null}

TearingDown == busy /\ call.fn \in Teardown

\* Every pointer of an allocated node and of the head leads to an allocated
\* node or to the head, and the two directions agree, also between two
\* iterations of a loop that removes nodes (link_list.c:68, 96, 153, 174,
\* 196); while a list is torn down this is given up.
Linked ==
    made /\ ~TearingDown =>
        \A n \in live \cup {ListHead} :
            /\ next[n] \in live \cup {ListHead}
            /\ prev[next[n]] = n
            /\ prev[n] \in live \cup {ListHead}
            /\ next[prev[n]] = n

\* A loop never uses a node that was freed: its variable is the head or an
\* allocated node, also right after the node before was freed (the `save`
\* of link_list.c:27, 40, 150 and 194).
CursorLive == busy => cur \in live \cup {ListHead}

\* A loop passes every node that was in the list when it began, each once
\* and in order, whatever it removed on the way.
EachNodeOnce ==
    busy => Chain(cur) = SubSeq(called, steps + 1, Len(called))

\* No node is lost: what is allocated is in the list, and nothing is left
\* after llist_destroy.
NoLeak ==
    IF TearingDown THEN live = {called[i] : i \in steps + 1 .. Len(called)}
                   ELSE live = IF made THEN {Nodes[i] : i \in 1 .. Len(Nodes)}
                                       ELSE {}

Hits  == {i \in 1 .. Len(called) : data[called[i]] \in call.match}
Ends  == {i \in 1 .. Len(called) : data[called[i]] \in call.stop}
First(S) == CHOOSE i \in S : \A j \in S : i <= j

\* What the first elements of s leave, for any number of them, without the
\* places in S.
Left(s, S) ==
    LET left[k \in 0 .. Len(s)] ==
            IF k = 0 THEN << >>
            ELSE IF k \in S THEN left[k - 1] ELSE Append(left[k - 1], s[k])
    IN  left

\* The sequence `called` without the places in S.
Without(S) == Left(called, S)[Len(called)]

\* What each call promises of the list it found, now that the list is s.
Promise(fn, s) ==
    /\ fn = "find" =>
            /\ s = called
            /\ out = IF Hits = {} THEN Null ELSE data[called[First(Hits)]]
    /\ fn \in {"delet", "fetch"} =>
            IF Hits = {} THEN ret = -1 /\ s = called
            ELSE /\ ret = 0 /\ s = Without({First(Hits)})
                 /\ out = data[called[First(Hits)]]
    /\ fn = "getnum" => s = called /\ ret = Len(called)
    /\ fn = "check"  => s = Without(Hits) /\ ret = Len(called)
    /\ fn = "travel" =>
            /\ s = called
            /\ steps = IF Ends = {} THEN Len(called) ELSE First(Ends) - 1
    /\ fn = "travel_delete" =>
            s = IF Ends = {} THEN Without(Hits)
                ELSE Without({i \in Hits : i <= First(Ends)})
    /\ fn = "clear" => s = << >> /\ ret = Len(called)
    /\ fn \in InsertFns =>
            IF ret = -1 THEN s = called
            ELSE \E n \in live :
                    /\ n \notin {called[i] : i \in 1 .. Len(called)}
                    /\ data[n] \in call.match
                    /\ s = IF fn = "insert_forward" THEN <<n>> \o called
                                                    ELSE Append(called, n)

\* A call that has returned did to the list, as a sequence, what its name
\* says: the first match found, fetched or deleted, every match up to a
\* break removed by llist_travel_delete, the new node at its end.
PromiseKept == made /\ ~busy => Promise(call.fn, Nodes)

\* Every loop ends: no change of the links makes it miss the head.
CallsReturn == busy ~> ~busy
=============================================================================
