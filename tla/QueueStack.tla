----------------------------- MODULE QueueStack -----------------------------
(***************************************************************************)
(* queue.c and stack.c: the two adapters of the list.  They differ in the  *)
(* end at which they insert; both take with llist_fetch and a cmp that     *)
(* always matches.                                                         *)
(***************************************************************************)
EXTENDS LinkedList

VARIABLE user   \* who made the list: "queue" (queue.c), "stack" (stack.c) or
                \* "list", a caller of link_list.c itself

\* Mutant of PutFn: the modes of the two files are exchanged.
PutFnSwapped == IF user = "stack" THEN "insert_backward" ELSE "insert_forward"

\* The mode queue_enq and stack_push pass to llist_insert.
PutFn == IF user = "stack" THEN "insert_forward" ELSE "insert_backward"

Put(v) == Insert(PutFn, v) \/ InsertFails(PutFn, v)

\* always_match returns 0 for every record.
AlwaysMatch == Value

\* queue_deq and stack_pop.
Take == Call([fn |-> "fetch", match |-> AlwaysMatch, stop |-> {}])

\* queue_destroy and stack_destroy.
Destroy == Call([fn |-> "destroy", match |-> {}, stop |-> {}])

UserInit == Init /\ user \in {"list", "queue", "stack"}

\* queue.c and stack.c make no other calls.
AdapterNext ==
    \/ Creat \/ Take \/ Destroy
    \/ \E v \in Value : Put(v)
    \/ FindNone \/ FetchHit \/ TeardownStep \/ DestroyEnd

UserNext ==
    /\ \/ user = "list" /\ Next
       \/ user # "list" /\ AdapterNext
    /\ UNCHANGED user

\* The fairness of FairSpec: a call that is in progress runs on.
UserSpec == UserInit /\ [][UserNext]_<<vars, user>> /\ WF_vars(Continue)

Abstract == INSTANCE PutTake WITH
    Datum <- Value, Nothing <- Null, youngestFirst <- (user = "stack"),
    held  <- IF call.fn = "destroy" THEN << >> ELSE Items,
    taken <- out

\* Each call of queue.c or stack.c is one step of the queue or stack it is
\* named after: a queue gives back the oldest value, a stack the youngest,
\* and one that is empty, and only such a one, gives nothing.  Destroying it
\* empties it.
PutTakeSteps ==
    /\ Abstract!Init
    /\ [][user # "list" /\ call'.fn # "destroy" => Abstract!Next]_(Abstract!pvars)
=============================================================================
