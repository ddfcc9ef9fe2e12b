-------------------------- MODULE ThreadPoolProofs --------------------------
(***************************************************************************)
(* Proofs about ThreadPool, for any number of workers and clients, any     *)
(* capacity of the queue, and any number of tasks, failures and spurious   *)
(* wakeups.                                                                *)
(*                                                                         *)
(* A task is at one place at a time: in the queue, with one worker, run,   *)
(* or lost.  The count the pool keeps of its queue is the length of the    *)
(* list plus the tasks that were lost, which is why the count may promise  *)
(* a task the list does not have.                                          *)
(***************************************************************************)
EXTENDS ThreadPool, FiniteSetTheorems, TLAPS

-----------------------------------------------------------------------------
(* The inductive invariant                                                 *)

WorkerLabels == {"absent", "lock", "test", "wait_not_empty", "broadcast",
                 "unlock", "run"}
ClientLabels == {"idle", "lock", "test", "wait_not_full", "signal", "unlock"}

TypeOK ==
    /\ lock \in Threads \cup {None}
    /\ task_queue \in Seq(Task)
    /\ queue_size \in Nat
    /\ pc \in [Threads -> WorkerLabels \cup ClientLabels]
    /\ \A w \in Workers : pc[w] \in WorkerLabels
    /\ \A c \in Clients : pc[c] \in ClientLabels
    /\ task \in [Workers -> Task \cup {None}]
    /\ sent \in [Clients -> 0 .. MaxTasks]
    /\ fetched \in Seq(Task)
    /\ ran \in SUBSET Task /\ lost \in SUBSET Task
    /\ spurious \in Nat
    /\ destroyed \in BOOLEAN

\* Between pthread_mutex_lock and the call that releases the mutex.
InSection(t) == pc[t] \in {"test", "signal", "unlock", "broadcast"}

\* Who is in a section owns the mutex.
Owner == \A t \in Threads : InSection(t) => lock = t

\* A caller that is not between two calls has begun one.
Begun == \A c \in Clients : pc[c] # "idle" => sent[c] # 0

\* A call that has put its task, or lost it; a worker that has a task.
Settled(c)  == pc[c] \in {"idle", "signal", "unlock"}
Carrying(w) == pc[w] \in {"broadcast", "unlock", "run"}

Carries == \A w \in Workers : Carrying(w) <=> task[w] # None

\* The pool counts the tasks it lost.
SizeCountsLost == queue_size = Len(task_queue) + Cardinality(lost)

\* No task is at two places.
OnePlace ==
    /\ \A i, j \in DOMAIN task_queue : i # j => task_queue[i] # task_queue[j]
    /\ \A i \in DOMAIN task_queue :
          /\ task_queue[i] \notin ran /\ task_queue[i] \notin lost
          /\ \A w \in Workers : task[w] # task_queue[i]
    /\ \A w \in Workers : task[w] \notin ran /\ task[w] \notin lost
    /\ \A w, v \in Workers : w # v /\ task[w] # None => task[w] # task[v]
    /\ ran \cap lost = {}

Queued == {task_queue[i] : i \in DOMAIN task_queue}
Held   == {task[w] : w \in Workers} \ {None}
Busy   == {w \in Workers : task[w] # None}

\* The two halves of ExactlyOnce: every task added is somewhere, and ...
Somewhere == Added = Queued \cup Held \cup ran \cup lost

\* ... the places together hold as many tasks as were added.
Balanced ==
    Cardinality(Added) = Len(task_queue) + Cardinality(Busy)
                         + Cardinality(ran) + Cardinality(lost)

\* The inductive invariant.  That no task is twice anywhere is what keeps the
\* numbers of Balanced in step with the sets of Somewhere.
IInv ==
    /\ TypeOK /\ Owner /\ Begun /\ Carries
    /\ NoIdleWorker /\ BlockedOnlyWhenFull
    /\ ~destroyed => SizeCountsLost /\ OnePlace /\ Somewhere /\ Balanced

-----------------------------------------------------------------------------
(* Facts about the constants and the types                                 *)

\* Workers and clients are different threads; nobody is None, no task is.
LEMMA Sides ==
  /\ Workers \subseteq Threads /\ Clients \subseteq Threads
  /\ \A w \in Workers : w \notin Clients /\ w # None
  /\ \A c \in Clients : c # None
  /\ \A x \in Task : x # None
  /\ MaxTasks \in Nat /\ QueueMax \in Int
  <1>1. Workers \cap Clients = {} /\ None \notin Threads \cup Task
    BY PoolAssumption, Zenon DEF PoolAssumption
  <1>2. MaxTasks \in Nat /\ QueueMax \in Int
    BY PoolAssumption, Zenon DEF PoolAssumption
  <1> QED
    BY <1>1, <1>2 DEF Threads

\* There are finitely many tasks, and every set of them is finite.
LEMMA TasksFinite ==
  /\ IsFiniteSet(Workers) /\ IsFiniteSet(Clients)
  /\ \A S \in SUBSET Task : IsFiniteSet(S)
  <1>1. IsFiniteSet(Workers) /\ IsFiniteSet(Clients)
    BY PoolAssumption, Zenon DEF PoolAssumption
  <1>2. IsFiniteSet(1 .. MaxTasks)
    BY Sides, FS_Interval
  <1>3. IsFiniteSet(Task)
    BY <1>1, <1>2, FS_Product DEF Task
  <1> QED
    BY <1>1, <1>3, FS_Subset

\* The number of elements of a set of tasks, and what one more makes of it.
LEMMA CountTasks ==
  ASSUME NEW S \in SUBSET Task
  PROVE  /\ Cardinality(S) \in Nat
         /\ \A x \in Task \ S : Cardinality(S \cup {x}) = Cardinality(S) + 1
  <1>1. IsFiniteSet(S)
    BY TasksFinite
  <1> QED
    BY <1>1, FS_CardinalityType, FS_AddElement

\* The same for a set of workers, and for what one less makes of it.
LEMMA CountWorkers ==
  ASSUME NEW S \in SUBSET Workers
  PROVE  /\ Cardinality(S) \in Nat
         /\ \A w \in Workers \ S : Cardinality(S \cup {w}) = Cardinality(S) + 1
         /\ \A w \in S : Cardinality(S \ {w}) = Cardinality(S) - 1
  <1>1. IsFiniteSet(S)
    BY TasksFinite, FS_Subset
  <1> QED
    BY <1>1, FS_CardinalityType, FS_AddElement, FS_RemoveElement

\* And of clients.
LEMMA CountClients ==
  ASSUME NEW S \in SUBSET Clients
  PROVE  /\ Cardinality(S) \in Nat
         /\ \A c \in Clients \ S : Cardinality(S \cup {c}) = Cardinality(S) + 1
         /\ \A c \in S : Cardinality(S \ {c}) = Cardinality(S) - 1
  <1>1. IsFiniteSet(S)
    BY TasksFinite, FS_Subset
  <1> QED
    BY <1>1, FS_CardinalityType, FS_AddElement, FS_RemoveElement

\* What a call of add_task is about is a task.
LEMMA CurrentIsTask ==
  ASSUME TypeOK, Begun, NEW c \in Clients, pc[c] # "idle"
  PROVE  CurrentTask(c) \in Task
  <1>1. sent[c] \in 1 .. MaxTasks
    BY Sides DEF TypeOK, Begun
  <1> QED
    BY <1>1 DEF CurrentTask, Task

-----------------------------------------------------------------------------
(* Types and the mutex                                                     *)

LEMMA TypeInit == Init => TypeOK /\ Owner /\ Begun /\ Carries
  <1> SUFFICES ASSUME Init
               PROVE  TypeOK /\ Owner /\ Begun /\ Carries
    OBVIOUS
  <1>1. PICK started \in SUBSET Workers :
           pc = [t \in Threads |-> IF t \in started THEN "lock"
                                   ELSE IF t \in Workers THEN "absent" ELSE "idle"]
    BY DEF Init
  <1>2. TypeOK
    <2>1. /\ pc \in [Threads -> WorkerLabels \cup ClientLabels]
          /\ \A w \in Workers : pc[w] \in WorkerLabels
          /\ \A c \in Clients : pc[c] \in ClientLabels
      BY <1>1, Sides DEF WorkerLabels, ClientLabels
    <2>2. sent \in [Clients -> 0 .. MaxTasks]
      BY Sides DEF Init
    <2>3. task_queue \in Seq(Task) /\ fetched \in Seq(Task)
      BY DEF Init
    <2>4. ran \in SUBSET Task /\ lost \in SUBSET Task
      BY DEF Init
    <2>5. /\ lock \in Threads \cup {None} /\ queue_size \in Nat
          /\ spurious \in Nat /\ destroyed \in BOOLEAN
          /\ task \in [Workers -> Task \cup {None}]
      BY DEF Init
    <2> QED
      BY <2>1, <2>2, <2>3, <2>4, <2>5 DEF TypeOK
  <1> QED
    BY <1>1, <1>2, Sides DEF Init, Owner, InSection, Begun, Carries, Carrying, Threads

\* A step of a caller of add_task.
LEMMA TypeClient ==
  ASSUME TypeOK, Begun, Carries, NEW c \in Clients, ClientStep(c)
  PROVE  TypeOK' /\ Begun' /\ Carries'
  <1> USE Sides DEF TypeOK, Begun, Carries, Carrying, Goto, poolVars, histVars,
                    WorkerLabels, ClientLabels
  <1>1. CASE AddTask(c)
    BY <1>1 DEF AddTask
  <1>2. CASE Lock(c)
    BY <1>2 DEF Lock
  <1>3. CASE AddWait(c)
    BY <1>3 DEF AddWait, WaitOn
  <1>4. CASE AddEnqueue(c)
    <2>1. CurrentTask(c) \in Task
      BY <1>4, CurrentIsTask DEF AddEnqueue
    <2> QED
      BY <1>4, <2>1 DEF AddEnqueue
  <1>5. CASE AddEnqueueFails(c)
    <2>1. CurrentTask(c) \in Task
      BY <1>5, CurrentIsTask DEF AddEnqueueFails
    <2> QED
      BY <1>5, <2>1 DEF AddEnqueueFails
  <1>6. CASE AddSignal(c)
    BY <1>6, ZenonT(60) DEF AddSignal, SignalTargets, NotEmpty, Waiting, Threads
  <1>7. CASE AddUnlock(c)
    BY <1>7 DEF AddUnlock
  <1> QED
    BY <1>1, <1>2, <1>3, <1>4, <1>5, <1>6, <1>7 DEF ClientStep

\* A step of a worker.
LEMMA TypeWorker ==
  ASSUME TypeOK, Begun, Carries, NEW w \in Workers, WorkerStep(w)
  PROVE  TypeOK' /\ Begun' /\ Carries'
  <1> USE Sides DEF TypeOK, Begun, Carries, Carrying, Goto, poolVars, histVars,
                    WorkerLabels, ClientLabels
  <1>1. CASE Lock(w)
    BY <1>1 DEF Lock
  <1>2. CASE WorkWait(w)
    BY <1>2 DEF WorkWait, WaitOn
  <1>3. CASE WorkDequeue(w)
    <2>1. /\ Head(task_queue) \in Task
          /\ Tail(task_queue) \in Seq(Task)
      BY <1>3 DEF WorkDequeue
    <2>2. queue_size - 1 \in Nat
      BY <1>3 DEF WorkDequeue, QueueEmpty
    <2> QED
      BY <1>3, <2>1, <2>2 DEF WorkDequeue, Fetched, Unlinked
  <1>4. CASE WorkDequeueFails(w)
    BY <1>4 DEF WorkDequeueFails
  <1>5. CASE WorkBroadcast(w)
    BY <1>5 DEF WorkBroadcast, BroadcastTargets, NotFull, Waiting, Threads
  <1>6. CASE WorkUnlock(w)
    BY <1>6 DEF WorkUnlock
  <1>7. CASE Run(w)
    BY <1>7 DEF Run
  <1> QED
    BY <1>1, <1>2, <1>3, <1>4, <1>5, <1>6, <1>7 DEF WorkerStep

\* A thread that wakes up by itself, or the end of the pool.
LEMMA TypeOther ==
  ASSUME TypeOK, Begun, Carries,
         (\E t \in Threads : SpuriousWakeup(t)) \/ Destroy
  PROVE  TypeOK' /\ Begun' /\ Carries'
  <1> USE Sides DEF TypeOK, Begun, Carries, Carrying, Goto, poolVars,
                    WorkerLabels, ClientLabels
  <1>1. CASE \E t \in Threads : SpuriousWakeup(t)
    BY <1>1 DEF SpuriousWakeup, NotFull, NotEmpty, Waiting, Threads
  <1>2. CASE Destroy
    BY <1>2 DEF Destroy
  <1> QED
    BY <1>1, <1>2

\* Every step keeps the types.
LEMMA TypeStep ==
  TypeOK /\ Begun /\ Carries /\ [Next]_vars => TypeOK' /\ Begun' /\ Carries'
  <1> SUFFICES ASSUME TypeOK, Begun, Carries, [Next]_vars
               PROVE  TypeOK' /\ Begun' /\ Carries'
    OBVIOUS
  <1>1. CASE UNCHANGED vars
    BY <1>1 DEF vars, TypeOK, Begun, Carries, Carrying
  <1> QED
    BY <1>1, TypeClient, TypeWorker, TypeOther DEF Next

\* The types are right, and more than that: see TypeOK.
THEOREM TypeCorrect == Spec => []TypeOK
  <1>1. Init => TypeOK /\ Begun /\ Carries
    BY TypeInit
  <1> QED
    BY <1>1, TypeStep, PTL DEF Spec

\* Whoever enters a section has locked the mutex, and only who owns it
\* releases it.
LEMMA OwnerStep == TypeOK /\ Owner /\ [Next]_vars => Owner'
  <1> SUFFICES ASSUME TypeOK, Owner, [Next]_vars
               PROVE  Owner'
    OBVIOUS
  <1> USE Sides DEF TypeOK, Owner, InSection, Goto, poolVars, histVars, MutexFree
  <1>1. ASSUME NEW t \in Threads, Lock(t)
        PROVE  Owner'
    <2>1. \A u \in Threads : ~InSection(u)
      BY <1>1 DEF Lock, Threads
    <2> QED
      BY <1>1, <2>1 DEF Lock
  <1>2. ASSUME NEW c \in Clients, ClientStep(c)
        PROVE  Owner'
    <2>1. CASE AddTask(c)
      BY <2>1 DEF AddTask
    <2>2. CASE AddWait(c)
      BY <2>2 DEF AddWait, WaitOn
    <2>3. CASE AddEnqueue(c)
      BY <2>3 DEF AddEnqueue
    <2>4. CASE AddEnqueueFails(c)
      BY <2>4 DEF AddEnqueueFails
    <2>5. CASE AddSignal(c)
      BY <2>5 DEF AddSignal
    <2>6. CASE AddUnlock(c)
      BY <2>6 DEF AddUnlock
    <2> QED
      BY <1>1, <1>2, <2>1, <2>2, <2>3, <2>4, <2>5, <2>6 DEF ClientStep
  <1>3. ASSUME NEW w \in Workers, WorkerStep(w)
        PROVE  Owner'
    <2>1. CASE WorkWait(w)
      BY <2>1 DEF WorkWait, WaitOn
    <2>2. CASE WorkDequeue(w)
      BY <2>2 DEF WorkDequeue
    <2>3. CASE WorkDequeueFails(w)
      BY <2>3 DEF WorkDequeueFails
    <2>4. CASE WorkBroadcast(w)
      BY <2>4 DEF WorkBroadcast
    <2>5. CASE WorkUnlock(w)
      BY <2>5 DEF WorkUnlock
    <2>6. CASE Run(w)
      BY <2>6 DEF Run
    <2> QED
      BY <1>1, <1>3, <2>1, <2>2, <2>3, <2>4, <2>5, <2>6 DEF WorkerStep
  <1>4. ASSUME NEW t \in Threads, SpuriousWakeup(t)
        PROVE  Owner'
    BY <1>4 DEF SpuriousWakeup
  <1>5. CASE Destroy
    BY <1>5 DEF Destroy
  <1>6. CASE UNCHANGED vars
    BY <1>6 DEF vars
  <1> QED
    BY <1>2, <1>3, <1>4, <1>5, <1>6 DEF Next

\* Two threads are never between pthread_mutex_lock and its release at once
\* (threadpool.cpp:72-85, 94-105), also when a worker locks the mutex a second
\* time because the list was empty: everything from a lock to the next
\* release, wait included, is atomic.
THEOREM MutualExclusion ==
  Spec => [](\A t, u \in Threads : InSection(t) /\ InSection(u) => t = u)
  <1>1. Init => TypeOK /\ Owner /\ Begun /\ Carries
    BY TypeInit
  <1>2. Owner => \A t, u \in Threads : InSection(t) /\ InSection(u) => t = u
    BY DEF Owner
  <1> QED
    BY <1>1, <1>2, TypeStep, OwnerStep, PTL DEF Spec

-----------------------------------------------------------------------------
(* Nobody sleeps who is needed                                             *)

\* A worker that sleeps stays accounted for by the workers awake and by the
\* signals to come.
Awake    == {w \in Workers : pc[w] \in {"lock", "test"}}
ToSignal == {c \in Clients : pc[c] = "signal"}

\* Steps that let nobody fall asleep on cond_queue_not_empty, and after which
\* the awake workers and the signals to come are as many as before, or more by
\* as many as the count of the queue is.
LEMMA NoIdleKept ==
  ASSUME TypeOK, TypeOK', NoIdleWorker, NotEmpty' # {} => NotEmpty # {},
         queue_size' - queue_size <=
            (Cardinality(Awake') + Cardinality(ToSignal'))
            - (Cardinality(Awake) + Cardinality(ToSignal))
  PROVE  NoIdleWorker'
  <1>1. /\ Awake \in SUBSET Workers /\ ToSignal \in SUBSET Clients
        /\ Awake' \in SUBSET Workers /\ ToSignal' \in SUBSET Clients
    BY DEF Awake, ToSignal
  <1>2. /\ Cardinality(Awake) \in Nat /\ Cardinality(ToSignal) \in Nat
        /\ Cardinality(Awake') \in Nat /\ Cardinality(ToSignal') \in Nat
    BY <1>1, CountWorkers, CountClients
  <1>3. queue_size \in Nat /\ queue_size' \in Nat
    BY DEF TypeOK
  <1>4. NotEmpty # {} => queue_size <= Cardinality(Awake) + Cardinality(ToSignal)
    BY DEF NoIdleWorker, Awake, ToSignal
  <1>5. NotEmpty' # {} =>
            queue_size' <= Cardinality(Awake') + Cardinality(ToSignal')
    BY <1>2, <1>3, <1>4
  <1> QED
    BY <1>5 DEF NoIdleWorker, Awake, ToSignal

\* A step of a caller: its task comes with a signal, the signal wakes a worker
\* if one sleeps.
LEMMA NoIdleClient ==
  ASSUME TypeOK, TypeOK', NoIdleWorker, NEW c \in Clients, ClientStep(c)
  PROVE  NoIdleWorker'
  <1> USE Sides DEF Goto, poolVars, histVars, WorkerLabels, ClientLabels
  <1>0. /\ Cardinality(Awake) \in Nat /\ Cardinality(ToSignal) \in Nat
        /\ queue_size \in Nat
    BY CountWorkers, CountClients DEF TypeOK, Awake, ToSignal
  <1>1. CASE AddTask(c)
    <2>1. /\ NotEmpty' = NotEmpty /\ Awake' = Awake /\ ToSignal' = ToSignal
          /\ queue_size' = queue_size
      BY <1>1 DEF AddTask,
         TypeOK, Threads, NotEmpty, Waiting, Awake, ToSignal
    <2> QED
      BY <1>0, <2>1, NoIdleKept
  <1>2. CASE Lock(c)
    <2>1. /\ NotEmpty' = NotEmpty /\ Awake' = Awake /\ ToSignal' = ToSignal
          /\ queue_size' = queue_size
      BY <1>2 DEF Lock,
         TypeOK, Threads, NotEmpty, Waiting, Awake, ToSignal
    <2> QED
      BY <1>0, <2>1, NoIdleKept
  <1>3. CASE AddWait(c)
    <2>1. /\ NotEmpty' = NotEmpty /\ Awake' = Awake /\ ToSignal' = ToSignal
          /\ queue_size' = queue_size
      BY <1>3 DEF AddWait, WaitOn,
         TypeOK, Threads, NotEmpty, Waiting, Awake, ToSignal
    <2> QED
      BY <1>0, <2>1, NoIdleKept
  <1>4. CASE AddEnqueue(c) \/ AddEnqueueFails(c)
    <2>1. /\ NotEmpty' = NotEmpty /\ Awake' = Awake
          /\ c \notin ToSignal /\ ToSignal' = ToSignal \cup {c}
          /\ queue_size' = queue_size + 1
      BY <1>4 DEF AddEnqueue, AddEnqueueFails,
         TypeOK, Threads, NotEmpty, Waiting, Awake, ToSignal
    <2>2. Cardinality(ToSignal') = Cardinality(ToSignal) + 1
      BY <2>1, CountClients DEF ToSignal
    <2> QED
      BY <1>0, <2>1, <2>2, NoIdleKept
  <1>5. CASE AddSignal(c)
    <2>1. CASE NotEmpty = {}
      <3>1. NotEmpty' = {}
        BY <1>5, <2>1 DEF AddSignal, SignalTargets, TypeOK, NotEmpty, Waiting, Threads
      <3> QED
        BY <3>1 DEF NoIdleWorker
    <2>2. ASSUME NEW w \in NotEmpty,
                 pc' = [pc EXCEPT ![c] = "unlock", ![w] = "lock"]
          PROVE  NoIdleWorker'
      <3>0. /\ w \in Workers /\ pc[w] = "wait_not_empty" /\ pc[c] = "signal"
            /\ w # c /\ queue_size' = queue_size
        BY <1>5, <2>2 DEF AddSignal, TypeOK, Threads, NotEmpty, Waiting
      <3>1. /\ w \notin Awake /\ Awake' = Awake \cup {w}
            /\ c \in ToSignal /\ ToSignal' = ToSignal \ {c}
            /\ NotEmpty # {}
        BY <2>2, <3>0 DEF TypeOK, Threads, Awake, ToSignal
      <3>2. Cardinality(Awake') = Cardinality(Awake) + 1
        BY <3>0, <3>1, CountWorkers DEF Awake
      <3>3. Cardinality(ToSignal') = Cardinality(ToSignal) - 1
        BY <3>1, CountClients DEF ToSignal
      <3> QED
        BY <1>0, <3>0, <3>1, <3>2, <3>3, NoIdleKept
    <2> QED
      BY <1>5, <2>1, <2>2 DEF AddSignal, SignalTargets
  <1>6. CASE AddUnlock(c)
    <2>1. /\ NotEmpty' = NotEmpty /\ Awake' = Awake /\ ToSignal' = ToSignal
          /\ queue_size' = queue_size
      BY <1>6 DEF AddUnlock,
         TypeOK, Threads, NotEmpty, Waiting, Awake, ToSignal
    <2> QED
      BY <1>0, <2>1, NoIdleKept
  <1> QED
    BY <1>1, <1>2, <1>3, <1>4, <1>5, <1>6 DEF ClientStep

\* A step of a worker: it takes a counted task with it when it leaves the
\* queue, and sleeps only when the count is zero.
LEMMA NoIdleWork ==
  ASSUME TypeOK, TypeOK', NoIdleWorker, NEW w \in Workers, WorkerStep(w)
  PROVE  NoIdleWorker'
  <1> USE Sides DEF Goto, poolVars, histVars, WorkerLabels, ClientLabels
  <1>0. /\ Cardinality(Awake) \in Nat /\ Cardinality(ToSignal) \in Nat
        /\ queue_size \in Nat
    BY CountWorkers, CountClients DEF TypeOK, Awake, ToSignal
  <1>1. CASE Lock(w)
    <2>1. /\ NotEmpty' = NotEmpty /\ Awake' = Awake /\ ToSignal' = ToSignal
          /\ queue_size' = queue_size
      BY <1>1 DEF Lock, TypeOK, Threads, NotEmpty, Waiting, Awake, ToSignal
    <2> QED
      BY <1>0, <2>1, NoIdleKept
  <1>2. CASE WorkWait(w)
    <2>1. queue_size' <= 0
      BY <1>2 DEF WorkWait, WaitOn, QueueEmpty
    <2>2. /\ Cardinality(Awake') \in Nat /\ Cardinality(ToSignal') \in Nat
          /\ queue_size' \in Nat
      BY CountWorkers, CountClients DEF TypeOK, Awake, ToSignal
    <2> QED
      BY <2>1, <2>2 DEF NoIdleWorker, Awake, ToSignal
  <1>3. CASE WorkDequeue(w)
    <2>1. /\ NotEmpty' = NotEmpty /\ ToSignal' = ToSignal
          /\ w \in Awake /\ Awake' = Awake \ {w}
          /\ queue_size' = queue_size - 1
      BY <1>3 DEF WorkDequeue, TypeOK, Threads, NotEmpty, Waiting, Awake, ToSignal
    <2>2. Cardinality(Awake') = Cardinality(Awake) - 1
      BY <2>1, CountWorkers DEF Awake
    <2> QED
      BY <1>0, <2>1, <2>2, NoIdleKept
  <1>4. CASE WorkDequeueFails(w)
    <2>1. /\ NotEmpty' = NotEmpty /\ Awake' = Awake /\ ToSignal' = ToSignal
          /\ queue_size' = queue_size
      BY <1>4 DEF WorkDequeueFails, TypeOK, Threads, NotEmpty, Waiting, Awake, ToSignal
    <2> QED
      BY <1>0, <2>1, NoIdleKept
  <1>5. CASE WorkBroadcast(w)
    <2>1. /\ NotEmpty' = NotEmpty /\ Awake' = Awake /\ ToSignal' = ToSignal
          /\ queue_size' = queue_size
      BY <1>5 DEF WorkBroadcast, BroadcastTargets, NotFull, TypeOK, Threads,
         NotEmpty, Waiting, Awake, ToSignal
    <2> QED
      BY <1>0, <2>1, NoIdleKept
  <1>6. CASE WorkUnlock(w)
    <2>1. /\ NotEmpty' = NotEmpty /\ Awake' = Awake /\ ToSignal' = ToSignal
          /\ queue_size' = queue_size
      BY <1>6 DEF WorkUnlock, TypeOK, Threads, NotEmpty, Waiting, Awake, ToSignal
    <2> QED
      BY <1>0, <2>1, NoIdleKept
  <1>7. CASE Run(w)
    <2>1. /\ NotEmpty' = NotEmpty /\ ToSignal' = ToSignal
          /\ w \notin Awake /\ Awake' = Awake \cup {w}
          /\ queue_size' = queue_size
      BY <1>7 DEF Run, TypeOK, Threads, NotEmpty, Waiting, Awake, ToSignal
    <2>2. Cardinality(Awake') = Cardinality(Awake) + 1
      BY <2>1, CountWorkers DEF Awake
    <2> QED
      BY <1>0, <2>1, <2>2, NoIdleKept
  <1> QED
    BY <1>1, <1>2, <1>3, <1>4, <1>5, <1>6, <1>7 DEF WorkerStep

\* Every step: a spurious wakeup only adds to those awake, and deleting the
\* pool moves no thread.
LEMMA NoIdleStep == TypeOK /\ TypeOK' /\ NoIdleWorker /\ [Next]_vars => NoIdleWorker'
  <1> SUFFICES ASSUME TypeOK, TypeOK', NoIdleWorker, [Next]_vars
               PROVE  NoIdleWorker'
    OBVIOUS
  <1>0. /\ Cardinality(Awake) \in Nat /\ Cardinality(ToSignal) \in Nat
        /\ queue_size \in Nat
    BY CountWorkers, CountClients DEF TypeOK, Awake, ToSignal
  <1>1. CASE Destroy \/ UNCHANGED vars
    <2>1. pc' = pc /\ queue_size' = queue_size
      BY <1>1 DEF Destroy, vars
    <2> QED
      BY <2>1 DEF NoIdleWorker, NotEmpty, Waiting
  <1>2. ASSUME NEW t \in Threads, SpuriousWakeup(t)
        PROVE  NoIdleWorker'
    <2>1. queue_size' = queue_size /\ ToSignal' = ToSignal
      BY <1>2, Sides DEF SpuriousWakeup, Goto, poolVars, NotFull, NotEmpty, Waiting,
         ToSignal, TypeOK, Threads
    <2>2. NotEmpty' # {} => NotEmpty # {}
      BY <1>2 DEF SpuriousWakeup, Goto, NotEmpty, NotFull, Waiting, TypeOK
    <2>3. \/ Awake' = Awake
          \/ t \in Workers /\ t \notin Awake /\ Awake' = Awake \cup {t}
      BY <1>2, Sides DEF SpuriousWakeup, Goto, NotFull, NotEmpty, Waiting, Awake,
         TypeOK, Threads
    <2>4. \/ Cardinality(Awake') = Cardinality(Awake)
          \/ Cardinality(Awake') = Cardinality(Awake) + 1
      BY <2>3, CountWorkers DEF Awake
    <2> QED
      BY <1>0, <2>1, <2>2, <2>4, NoIdleKept
  <1> QED
    BY <1>1, <1>2, NoIdleClient, NoIdleWork DEF Next

\* A caller sleeps on a full queue; who makes room is about to broadcast, and
\* the broadcast leaves nobody asleep.
LEMMA BlockedStep == TypeOK /\ BlockedOnlyWhenFull /\ [Next]_vars => BlockedOnlyWhenFull'
  <1> SUFFICES ASSUME TypeOK, BlockedOnlyWhenFull, [Next]_vars
               PROVE  BlockedOnlyWhenFull'
    OBVIOUS
  <1> USE Sides DEF Goto, poolVars, histVars, NotFull, Waiting, BlockedOnlyWhenFull
  <1>0. queue_size \in Nat /\ QueueMax \in Int /\ pc \in [Threads -> WorkerLabels \cup ClientLabels]
    BY DEF TypeOK
  <1>1. ASSUME NEW t \in Threads, Lock(t) \/ SpuriousWakeup(t)
        PROVE  BlockedOnlyWhenFull'
    BY <1>0, <1>1 DEF Lock, SpuriousWakeup, NotEmpty
  <1>2. ASSUME NEW c \in Clients, ClientStep(c)
        PROVE  BlockedOnlyWhenFull'
    <2>1. CASE AddTask(c)
      BY <1>0, <2>1 DEF AddTask
    <2>2. CASE AddWait(c)
      BY <1>0, <2>2 DEF AddWait, WaitOn, QueueFull
    <2>3. CASE AddEnqueue(c) \/ AddEnqueueFails(c)
      BY <1>0, <2>3 DEF AddEnqueue, AddEnqueueFails
    <2>4. CASE AddSignal(c)
      BY <1>0, <2>4 DEF AddSignal, SignalTargets, NotEmpty
    <2>5. CASE AddUnlock(c)
      BY <1>0, <2>5 DEF AddUnlock
    <2> QED
      BY <1>1, <1>2, <2>1, <2>2, <2>3, <2>4, <2>5 DEF ClientStep
  <1>3. ASSUME NEW w \in Workers, WorkerStep(w)
        PROVE  BlockedOnlyWhenFull'
    <2>1. CASE WorkWait(w)
      BY <1>0, <2>1 DEF WorkWait, WaitOn
    <2>2. CASE WorkDequeue(w)
      BY <1>0, <2>2 DEF WorkDequeue
    <2>3. CASE WorkDequeueFails(w)
      BY <1>0, <2>3 DEF WorkDequeueFails
    <2>4. CASE WorkBroadcast(w)
      BY <1>0, <2>4 DEF WorkBroadcast, BroadcastTargets
    <2>5. CASE WorkUnlock(w)
      BY <1>0, <2>5 DEF WorkUnlock
    <2>6. CASE Run(w)
      BY <1>0, <2>6 DEF Run
    <2> QED
      BY <1>1, <1>3, <2>1, <2>2, <2>3, <2>4, <2>5, <2>6 DEF WorkerStep
  <1>4. CASE Destroy \/ UNCHANGED vars
    BY <1>0, <1>4 DEF Destroy, vars
  <1> QED
    BY <1>1, <1>2, <1>3, <1>4 DEF Next

-----------------------------------------------------------------------------
(* Where the tasks are                                                     *)

Places == SizeCountsLost /\ OnePlace /\ Somewhere /\ Balanced

\* Steps that move no task: the tasks added are the same when each caller that
\* has settled before has settled after, and the other way round.
LEMMA PlacesKept ==
  ASSUME TypeOK, Places,
         UNCHANGED <<task_queue, queue_size, task, ran, lost>>, Added' = Added
  PROVE  Places'
  <1> QED
    BY DEF Places, SizeCountsLost, OnePlace, Somewhere, Balanced, Queued, Held, Busy

\* A call that begins: all earlier tasks of its caller had been added.
LEMMA AddedBegins ==
  ASSUME TypeOK, NEW c \in Clients, AddTask(c)
  PROVE  Added' = Added
  <1>1. sent[c] \in Nat /\ pc \in [Threads -> WorkerLabels \cup ClientLabels]
        /\ sent \in [Clients -> 0 .. MaxTasks]
    BY Sides DEF TypeOK
  <1>2. ASSUME NEW x \in Task
        PROVE  x \in Added' <=> x \in Added
    <2>1. x[1] \in Clients /\ x[2] \in 1 .. MaxTasks /\ x = <<x[1], x[2]>>
      BY DEF Task
    <2>2. /\ sent' = [sent EXCEPT ![c] = @ + 1]
          /\ pc' = [pc EXCEPT ![c] = "lock"] /\ pc[c] = "idle"
      BY <1>2 DEF AddTask, Goto
    <2>3. CASE x[1] = c
      <3>1. x \in Added' <=> x[2] < sent[c] + 1
        BY <1>1, <2>1, <2>2, <2>3, Sides DEF Added, CurrentTask
      <3>2. x \in Added <=> x[2] < sent[c] \/ x = <<c, sent[c]>>
        BY <1>1, <2>1, <2>2, <2>3, Sides DEF Added, CurrentTask
      <3> QED
        BY <1>1, <2>1, <2>3, <3>1, <3>2, Sides
    <2>4. CASE x[1] # c
      BY <1>1, <2>1, <2>2, <2>4, Sides DEF Added, CurrentTask
    <2> QED
      BY <2>3, <2>4
  <1> QED
    BY <1>2 DEF Added

\* A call that has put or lost its task: that task is added, which it was not.
LEMMA AddedEnds ==
  ASSUME TypeOK, Begun, NEW c \in Clients, pc[c] = "test",
         pc' = [pc EXCEPT ![c] = "signal"], sent' = sent
  PROVE  /\ CurrentTask(c) \in Task \ Added
         /\ Added' = Added \cup {CurrentTask(c)}
  <1>1. CurrentTask(c) \in Task
    BY CurrentIsTask
  <1>2. /\ pc \in [Threads -> WorkerLabels \cup ClientLabels]
        /\ sent \in [Clients -> 0 .. MaxTasks]
    BY DEF TypeOK
  <1>3. CurrentTask(c) \notin Added
    BY <1>2, Sides DEF Added, CurrentTask
  <1>4. ASSUME NEW x \in Task
        PROVE  x \in Added' <=> x \in Added \cup {CurrentTask(c)}
    <2>1. x[1] \in Clients /\ x[2] \in 1 .. MaxTasks /\ x = <<x[1], x[2]>>
      BY DEF Task
    <2> QED
      BY <1>2, <2>1, Sides DEF Added, CurrentTask
  <1> QED
    BY <1>1, <1>3, <1>4 DEF Added

\* Every other step: nobody begins a call, and who had settled has settled.
LEMMA AddedSame ==
  ASSUME sent' = sent, \A c \in Clients : Settled(c)' <=> Settled(c)
  PROVE  Added' = Added
  <1>1. ASSUME NEW x \in Task
        PROVE  x \in Added' <=> x \in Added
    <2>1. x[1] \in Clients
      BY DEF Task
    <2> QED
      BY <2>1 DEF Added, CurrentTask, Settled
  <1> QED
    BY <1>1 DEF Added

\* add_task puts its task at the end of the queue.
LEMMA PlacesEnqueue ==
  ASSUME TypeOK, Begun, Places, NEW c \in Clients, AddEnqueue(c)
  PROVE  Places'
  <1> DEFINE x == CurrentTask(c)
  <1>1. /\ x \in Task \ Added /\ Added' = Added \cup {x}
    BY AddedEnds DEF AddEnqueue, Goto
  <1>2. /\ task_queue' = Append(task_queue, x) /\ queue_size' = queue_size + 1
        /\ task' = task /\ ran' = ran /\ lost' = lost
    BY DEF AddEnqueue, histVars
  <1>3. x \notin Queued /\ x \notin Held /\ x \notin ran /\ x \notin lost /\ x # None
    BY <1>1, Sides DEF Places, Somewhere
  <1>4. /\ Len(task_queue) \in Nat /\ Len(task_queue') = Len(task_queue) + 1
        /\ DOMAIN task_queue = 1 .. Len(task_queue)
        /\ DOMAIN task_queue' = 1 .. Len(task_queue) + 1
        /\ \A i \in 1 .. Len(task_queue) : task_queue'[i] = task_queue[i]
        /\ task_queue'[Len(task_queue) + 1] = x
    BY <1>1, <1>2 DEF TypeOK
  <1> HIDE DEF x
  <1>5. /\ Cardinality(lost) \in Nat /\ Cardinality(ran) \in Nat
        /\ Cardinality(Busy) \in Nat /\ Cardinality(Added) \in Nat
        /\ Cardinality(Added') = Cardinality(Added) + 1
    <2>1. Busy \in SUBSET Workers /\ Added \in SUBSET Task
      BY DEF Busy, Added
    <2> QED
      BY <1>1, <2>1, CountTasks, CountWorkers DEF TypeOK
  <1>6. SizeCountsLost'
    BY <1>2, <1>4, <1>5 DEF Places, SizeCountsLost
  <1>7. OnePlace'
    <2>1. \A i \in 1 .. Len(task_queue) : task_queue[i] # x
      BY <1>3, <1>4 DEF Queued
    <2>2. \A w \in Workers : task[w] # x
      BY <1>3 DEF Held
    <2> QED
      BY <1>2, <1>3, <1>4, <2>1, <2>2 DEF Places, OnePlace
  <1>8. Somewhere'
    <2>1. Queued' = Queued \cup {x}
      BY <1>4 DEF Queued
    <2>2. Held' = Held
      BY <1>2 DEF Held
    <2> QED
      BY <1>1, <1>2, <2>1, <2>2 DEF Places, Somewhere
  <1>9. Balanced'
    <2>1. Busy' = Busy
      BY <1>2 DEF Busy
    <2> QED
      BY <1>2, <1>4, <1>5, <2>1 DEF Places, Balanced
  <1> QED
    BY <1>6, <1>7, <1>8, <1>9 DEF Places

\* queue_enq fails: the task is lost, and counted.
LEMMA PlacesLose ==
  ASSUME TypeOK, Begun, Places, NEW c \in Clients, AddEnqueueFails(c)
  PROVE  Places'
  <1> DEFINE x == CurrentTask(c)
  <1>1. /\ x \in Task \ Added /\ Added' = Added \cup {x}
    BY AddedEnds DEF AddEnqueueFails, Goto
  <1>2. /\ lost' = lost \cup {x} /\ queue_size' = queue_size + 1
        /\ task' = task /\ ran' = ran /\ task_queue' = task_queue
    BY DEF AddEnqueueFails
  <1>3. x \notin Queued /\ x \notin Held /\ x \notin ran /\ x \notin lost /\ x # None
    BY <1>1, Sides DEF Places, Somewhere
  <1>4. Len(task_queue) \in Nat
    BY DEF TypeOK
  <1> HIDE DEF x
  <1>5. /\ Cardinality(lost) \in Nat /\ Cardinality(ran) \in Nat
        /\ Cardinality(Busy) \in Nat /\ Cardinality(Added) \in Nat
        /\ Cardinality(Added') = Cardinality(Added) + 1
        /\ Cardinality(lost') = Cardinality(lost) + 1
    <2>1. Busy \in SUBSET Workers /\ Added \in SUBSET Task
      BY DEF Busy, Added
    <2> QED
      BY <1>1, <1>2, <1>3, <2>1, CountTasks, CountWorkers DEF TypeOK
  <1>6. SizeCountsLost'
    BY <1>2, <1>4, <1>5 DEF Places, SizeCountsLost
  <1>7. OnePlace'
    <2>1. \A i \in DOMAIN task_queue : task_queue[i] # x
      BY <1>3 DEF Queued
    <2>2. \A w \in Workers : task[w] # x
      BY <1>3 DEF Held
    <2> QED
      BY <1>2, <1>3, <2>1, <2>2 DEF Places, OnePlace
  <1>8. Somewhere'
    <2>1. Queued' = Queued /\ Held' = Held
      BY <1>2 DEF Queued, Held
    <2> QED
      BY <1>1, <1>2, <2>1 DEF Places, Somewhere
  <1>9. Balanced'
    <2>1. Busy' = Busy
      BY <1>2 DEF Busy
    <2> QED
      BY <1>2, <1>4, <1>5, <2>1 DEF Places, Balanced
  <1> QED
    BY <1>6, <1>7, <1>8, <1>9 DEF Places

\* A worker takes the oldest task with it.
LEMMA PlacesDequeue ==
  ASSUME TypeOK, Carries, Places, NEW w \in Workers, WorkDequeue(w)
  PROVE  Places'
  <1> DEFINE x == Head(task_queue)
  <1>1. /\ task_queue' = Tail(task_queue) /\ queue_size' = queue_size - 1
        /\ task' = [task EXCEPT ![w] = x] /\ ran' = ran /\ lost' = lost
        /\ sent' = sent /\ task_queue # << >>
        /\ pc[w] = "test" /\ pc' = [pc EXCEPT ![w] = "broadcast"]
    BY DEF WorkDequeue, Fetched, Unlinked, Goto
  <1>2. /\ Len(task_queue) \in Nat \ {0} /\ Len(task_queue') = Len(task_queue) - 1
        /\ DOMAIN task_queue = 1 .. Len(task_queue)
        /\ DOMAIN task_queue' = 1 .. Len(task_queue) - 1
        /\ \A i \in 1 .. Len(task_queue) - 1 : task_queue'[i] = task_queue[i + 1]
        /\ task_queue[1] = x /\ x \in Task
    BY <1>1 DEF TypeOK
  <1> HIDE DEF x
  <1>3. task[w] = None /\ x # None /\ task \in [Workers -> Task \cup {None}]
    BY <1>1, <1>2, Sides DEF Carries, Carrying, TypeOK
  <1>4. Added' = Added
    BY <1>1, AddedSame, Sides DEF Settled, TypeOK
  <1>5. /\ Cardinality(lost) \in Nat /\ Cardinality(ran) \in Nat
        /\ Cardinality(Busy) \in Nat /\ Cardinality(Added) \in Nat
        /\ Cardinality(Busy') = Cardinality(Busy) + 1
    <2>1. Busy \in SUBSET Workers /\ Added \in SUBSET Task
      BY DEF Busy, Added
    <2>2. w \notin Busy /\ Busy' = Busy \cup {w}
      BY <1>1, <1>3 DEF Busy
    <2> QED
      BY <2>1, <2>2, CountTasks, CountWorkers DEF TypeOK
  <1>6. SizeCountsLost'
    BY <1>1, <1>2, <1>5 DEF Places, SizeCountsLost
  <1>7. OnePlace'
    <2>1. /\ \A i \in 2 .. Len(task_queue) : task_queue[i] # x
          /\ x \notin ran /\ x \notin lost
          /\ \A v \in Workers : task[v] # x
      BY <1>2, SMTT(30) DEF Places, OnePlace
    <2>2. \A i, j \in DOMAIN task_queue' : i # j => task_queue'[i] # task_queue'[j]
      BY <1>2, SMTT(30) DEF Places, OnePlace
    <2>3. \A i \in DOMAIN task_queue' :
             /\ task_queue'[i] \notin ran /\ task_queue'[i] \notin lost
             /\ \A v \in Workers : task'[v] # task_queue'[i]
      BY <1>1, <1>2, <1>3, <2>1 DEF Places, OnePlace
    <2> QED
      BY <1>1, <1>3, <2>1, <2>2, <2>3 DEF Places, OnePlace
  <1>8. Somewhere'
    <2>1. Queued = Queued' \cup {x}
      <3>1. \A y \in Queued : y \in Queued' \cup {x}
        <4> SUFFICES ASSUME NEW i \in 1 .. Len(task_queue)
                     PROVE  task_queue[i] \in Queued' \cup {x}
          BY <1>2 DEF Queued
        <4>1. CASE i # 1
          <5>1. i - 1 \in DOMAIN task_queue' /\ task_queue'[i - 1] = task_queue[i]
            BY <1>2, <4>1
          <5> QED
            BY <5>1 DEF Queued
        <4> QED
          BY <1>2, <4>1
      <3>2. Queued' \cup {x} \subseteq Queued
        BY <1>2 DEF Queued
      <3> QED
        BY <3>1, <3>2
    <2>2. Held' = Held \cup {x}
      BY <1>1, <1>3 DEF Held
    <2> QED
      BY <1>1, <1>4, <2>1, <2>2 DEF Places, Somewhere
  <1>9. Balanced'
    BY <1>1, <1>2, <1>4, <1>5 DEF Places, Balanced
  <1> QED
    BY <1>6, <1>7, <1>8, <1>9 DEF Places

\* A worker has run its task.
LEMMA PlacesRun ==
  ASSUME TypeOK, Carries, Places, NEW w \in Workers, Run(w)
  PROVE  Places'
  <1> DEFINE x == task[w]
  <1>1. /\ task_queue' = task_queue /\ queue_size' = queue_size
        /\ task' = [task EXCEPT ![w] = None]
        /\ ran' = ran \cup {x} /\ lost' = lost
        /\ sent' = sent /\ pc[w] = "run" /\ pc' = [pc EXCEPT ![w] = "lock"]
    BY DEF Run, poolVars, Goto
  <1>2. /\ x # None /\ x \in Task \ ran /\ x \notin lost
        /\ task \in [Workers -> Task \cup {None}]
    BY <1>1 DEF Carries, Carrying, TypeOK, Places, OnePlace
  <1>3. x \notin Queued /\ \A v \in Workers : v # w => task[v] # x
    BY <1>2 DEF Places, OnePlace, Queued
  <1>4. Added' = Added
    BY <1>1, AddedSame, Sides DEF Settled, TypeOK
  <1>5. /\ Cardinality(lost) \in Nat /\ Cardinality(ran) \in Nat
        /\ Cardinality(Busy) \in Nat /\ Cardinality(Added) \in Nat
        /\ Cardinality(Busy') = Cardinality(Busy) - 1
        /\ Cardinality(ran') = Cardinality(ran) + 1
    <2>1. Busy \in SUBSET Workers /\ Added \in SUBSET Task
      BY DEF Busy, Added
    <2>2. w \in Busy /\ Busy' = Busy \ {w}
      BY <1>1, <1>2 DEF Busy
    <2> QED
      BY <1>1, <1>2, <2>1, <2>2, CountTasks, CountWorkers DEF TypeOK
  <1>6. SizeCountsLost'
    BY <1>1 DEF Places, SizeCountsLost
  <1>7. OnePlace'
    BY <1>1, <1>2, <1>3, Sides DEF Places, OnePlace, TypeOK, Queued
  <1>8. Somewhere'
    <2>1. Queued' = Queued
      BY <1>1 DEF Queued
    <2>2. Held = Held' \cup {x}
      BY <1>1, <1>2 DEF Held
    <2> QED
      BY <1>1, <1>4, <2>1, <2>2 DEF Places, Somewhere
  <1>9. Balanced'
    <2>1. Len(task_queue) \in Nat
      BY DEF TypeOK
    <2> QED
      BY <1>1, <1>4, <1>5, <2>1 DEF Places, Balanced
  <1> QED
    BY <1>6, <1>7, <1>8, <1>9 DEF Places

\* What the steps that move no task leave alone.
LEMMA OtherSteps ==
  ASSUME TypeOK,
         \/ \E t \in Threads : Lock(t) \/ SpuriousWakeup(t)
         \/ \E c \in Clients : AddWait(c) \/ AddSignal(c) \/ AddUnlock(c)
         \/ \E w \in Workers : \/ WorkWait(w) \/ WorkDequeueFails(w)
                              \/ WorkBroadcast(w) \/ WorkUnlock(w)
  PROVE  /\ UNCHANGED <<task_queue, queue_size, task, sent, fetched, ran, lost>>
         /\ \A c \in Clients : Settled(c)' <=> Settled(c)
  <1> USE Sides DEF Settled, Goto, poolVars, histVars
  <1>0. pc \in [Threads -> WorkerLabels \cup ClientLabels]
    BY DEF TypeOK
  <1>1. ASSUME NEW t \in Threads, Lock(t) \/ SpuriousWakeup(t)
        PROVE  /\ UNCHANGED <<task_queue, queue_size, task, sent, fetched, ran, lost>>
               /\ \A c \in Clients : Settled(c)' <=> Settled(c)
    BY <1>0, <1>1 DEF Lock, SpuriousWakeup, NotFull, NotEmpty, Waiting
  <1>2. ASSUME NEW c \in Clients, AddWait(c) \/ AddSignal(c) \/ AddUnlock(c)
        PROVE  /\ UNCHANGED <<task_queue, queue_size, task, sent, fetched, ran, lost>>
               /\ \A d \in Clients : Settled(d)' <=> Settled(d)
    BY <1>0, <1>2 DEF AddWait, WaitOn, AddSignal, SignalTargets, NotEmpty, Waiting,
       AddUnlock
  <1>3. ASSUME NEW w \in Workers,
               \/ WorkWait(w) \/ WorkDequeueFails(w)
               \/ WorkBroadcast(w) \/ WorkUnlock(w)
        PROVE  /\ UNCHANGED <<task_queue, queue_size, task, sent, fetched, ran, lost>>
               /\ \A c \in Clients : Settled(c)' <=> Settled(c)
    BY <1>0, <1>3 DEF WorkWait, WaitOn, WorkDequeueFails, WorkBroadcast,
       BroadcastTargets, NotFull, Waiting, WorkUnlock
  <1> QED
    BY <1>1, <1>2, <1>3

\* Every step but the deletion of the pool keeps the tasks accounted for.
LEMMA PlacesStep ==
  ASSUME TypeOK, Begun, Carries, ~destroyed => Places, [Next]_vars
  PROVE  ~destroyed' => Places'
  <1>1. CASE UNCHANGED vars
    BY <1>1 DEF vars, Places, SizeCountsLost, OnePlace, Somewhere, Balanced,
       Queued, Held, Busy, Added, CurrentTask
  <1>2. CASE Destroy
    BY <1>2 DEF Destroy
  <1>3. CASE ~destroyed /\ \/ \E c \in Clients : ClientStep(c)
                           \/ \E w \in Workers : WorkerStep(w)
                           \/ \E t \in Threads : SpuriousWakeup(t)
    <2>1. ASSUME NEW c \in Clients, AddTask(c)
          PROVE  Places'
      <3>1. UNCHANGED <<task_queue, queue_size, task, ran, lost>>
        BY <2>1 DEF AddTask, poolVars, histVars
      <3> QED
        BY <1>3, <2>1, <3>1, AddedBegins, PlacesKept
    <2>2. ASSUME NEW c \in Clients, AddEnqueue(c) \/ AddEnqueueFails(c)
          PROVE  Places'
      BY <1>3, <2>2, PlacesEnqueue, PlacesLose
    <2>3. ASSUME NEW w \in Workers, WorkDequeue(w) \/ Run(w)
          PROVE  Places'
      BY <1>3, <2>3, PlacesDequeue, PlacesRun
    <2>4. ASSUME \/ \E t \in Threads : Lock(t) \/ SpuriousWakeup(t)
                 \/ \E c \in Clients : AddWait(c) \/ AddSignal(c) \/ AddUnlock(c)
                 \/ \E w \in Workers : \/ WorkWait(w) \/ WorkDequeueFails(w)
                                      \/ WorkBroadcast(w) \/ WorkUnlock(w)
          PROVE  Places'
      BY <1>3, <2>4, OtherSteps, AddedSame, PlacesKept
    <2> QED
      BY <1>3, <2>1, <2>2, <2>3, <2>4, Sides DEF ClientStep, WorkerStep
  <1> QED
    BY <1>1, <1>2, <1>3 DEF Next

-----------------------------------------------------------------------------
(* The theorems                                                            *)

\* At first nobody sleeps and there is no task.
LEMMA IInvInit == Init => IInv
  <1> SUFFICES ASSUME Init
               PROVE  IInv
    OBVIOUS
  <1>1. TypeOK /\ Owner /\ Begun /\ Carries
    BY TypeInit
  <1>2. \A t \in Threads : pc[t] \in {"lock", "absent", "idle"}
    <2>1. PICK started \in SUBSET Workers :
             pc = [t \in Threads |-> IF t \in started THEN "lock"
                                     ELSE IF t \in Workers THEN "absent" ELSE "idle"]
      BY DEF Init
    <2> QED
      BY <2>1
  <1>3. NoIdleWorker /\ BlockedOnlyWhenFull
    BY <1>2 DEF NoIdleWorker, BlockedOnlyWhenFull, NotEmpty, NotFull, Waiting
  <1>4. Added = {} /\ Queued = {} /\ Held = {} /\ Busy = {}
    <2>1. Added = {}
      <3> SUFFICES ASSUME NEW x \in Added
                   PROVE  FALSE
        OBVIOUS
      <3>1. x[1] \in Clients /\ x[2] \in 1 .. MaxTasks /\ x = <<x[1], x[2]>>
        BY DEF Added, Task
      <3>2. sent[x[1]] = 0
        BY <3>1 DEF Init
      <3> QED
        BY <3>1, <3>2, Sides DEF Added, CurrentTask
    <2> QED
      BY <2>1 DEF Init, Queued, Held, Busy
  <1>5. SizeCountsLost /\ OnePlace /\ Somewhere /\ Balanced
    BY <1>4, FS_EmptySet DEF Init, SizeCountsLost, OnePlace, Somewhere, Balanced
  <1> QED
    BY <1>1, <1>3, <1>5 DEF IInv

\* Every step keeps the invariant.
LEMMA IInvStep == IInv /\ [Next]_vars => IInv'
  <1> SUFFICES ASSUME IInv, [Next]_vars
               PROVE  IInv'
    OBVIOUS
  <1>1. TypeOK' /\ Begun' /\ Carries'
    BY TypeStep DEF IInv
  <1>2. Owner' /\ NoIdleWorker' /\ BlockedOnlyWhenFull'
    BY <1>1, OwnerStep, NoIdleStep, BlockedStep DEF IInv
  <1>3. ~destroyed' => Places'
    BY PlacesStep DEF IInv, Places
  <1> QED
    BY <1>1, <1>2, <1>3 DEF IInv, Places

THEOREM Invariance == Spec => []IInv
  <1> QED
    BY IInvInit, IInvStep, PTL DEF Spec

\* For any number of workers and callers, any queue size and whatever fails:
\* until the pool is deleted no task is lost, doubled or invented, except the
\* ones queue_enq had no memory for.
THEOREM TasksExactlyOnce == Spec => []ExactlyOnce
  <1>1. IInv => ExactlyOnce
    BY DEF IInv, ExactlyOnce, Somewhere, Balanced, Queued, Held, Busy
  <1> QED
    BY <1>1, Invariance, PTL

\* One signal for each add_task is enough, with any number of workers, and
\* although a signal may wake a worker whose task another one has taken.
THEOREM SignalsSuffice == Spec => []NoIdleWorker
  <1>1. IInv => NoIdleWorker
    BY DEF IInv
  <1> QED
    BY <1>1, Invariance, PTL

\* No caller of add_task sleeps beside a queue with room, but until the
\* broadcast that is about to come.
THEOREM BroadcastSuffices == Spec => []BlockedOnlyWhenFull
  <1>1. IInv => BlockedOnlyWhenFull
    BY DEF IInv
  <1> QED
    BY <1>1, Invariance, PTL

\* What threadpool.h says of cond_queue_not_empty is true as long as no task
\* was lost: the count the workers test is the length of the list plus the
\* number of tasks lost.
THEOREM TaskUnlessLost ==
  Spec => [](~destroyed /\ lost = {} => NotEmptyMeansTask)
  <1>1. IInv => (~destroyed /\ lost = {} => NotEmptyMeansTask)
    BY FS_EmptySet DEF IInv, SizeCountsLost, NotEmptyMeansTask, TypeOK
  <1> QED
    BY <1>1, Invariance, PTL

-----------------------------------------------------------------------------
(* Somebody can go on                                                      *)

\* As long as no task was lost, the mutex is owned by a thread that will
\* release it: with a lost one WorkDequeueFails may leave it locked.
OwnerInside == ~destroyed /\ lost = {} /\ lock # None =>
                  lock \in Threads /\ InSection(lock)

LEMMA OwnerInsideStep == IInv /\ OwnerInside /\ [Next]_vars => OwnerInside'
  <1> SUFFICES ASSUME IInv, OwnerInside, [Next]_vars, ~destroyed', lost' = {}, lock' # None
               PROVE  lock' \in Threads /\ InSection(lock)'
    BY DEF OwnerInside
  <1>1. TypeOK /\ Owner /\ (~destroyed => SizeCountsLost)
    BY DEF IInv
  <1>2. ~Destroy
    BY DEF Destroy
  <1>3. ~destroyed /\ lost = {} => lock = None \/ (lock \in Threads /\ InSection(lock))
    BY DEF OwnerInside
  <1> HIDE DEF OwnerInside, IInv
  <1> USE Sides, <1>1, <1>3 DEF TypeOK, Owner, InSection, Goto, poolVars, histVars, MutexFree
  <1>4. ASSUME NEW t \in Threads, Lock(t)
        PROVE  lock' \in Threads /\ InSection(lock)'
    BY <1>4 DEF Lock
  <1>5. ASSUME NEW c \in Clients, ~destroyed, ClientStep(c)
        PROVE  lock' \in Threads /\ InSection(lock)'
    <2>1. CASE AddTask(c)
      BY <1>5, <2>1 DEF AddTask
    <2>2. CASE AddWait(c)
      BY <2>2 DEF AddWait, WaitOn
    <2>3. CASE AddEnqueue(c)
      BY <1>5, <2>3 DEF AddEnqueue
    <2>4. CASE AddEnqueueFails(c)
      BY <2>4 DEF AddEnqueueFails
    <2>5. CASE AddSignal(c)
      <3>1. lock = c /\ lock' = lock /\ pc'[c] = "unlock"
        BY <2>5 DEF AddSignal, SignalTargets, NotEmpty, Waiting
      <3> QED
        BY <3>1
    <2>6. CASE AddUnlock(c)
      BY <2>6 DEF AddUnlock
    <2> QED
      BY <1>4, <1>5, <2>1, <2>2, <2>3, <2>4, <2>5, <2>6 DEF ClientStep
  <1>6. ASSUME NEW w \in Workers, ~destroyed, WorkerStep(w)
        PROVE  lock' \in Threads /\ InSection(lock)'
    <2>1. CASE WorkWait(w)
      BY <2>1 DEF WorkWait, WaitOn
    <2>2. CASE WorkDequeue(w)
      BY <1>6, <2>2 DEF WorkDequeue
    <2>3. CASE WorkDequeueFails(w)
      <3>1. lost = {} /\ queue_size > 0 /\ task_queue = << >>
        BY <2>3 DEF WorkDequeueFails, QueueEmpty
      <3>2. queue_size = 0
        BY <1>6, <3>1, FS_EmptySet DEF SizeCountsLost
      <3> QED
        BY <3>1, <3>2
    <2>4. CASE WorkBroadcast(w)
      <3>1. lock = w /\ lock' = lock /\ pc'[w] = "unlock"
        BY <2>4 DEF WorkBroadcast, BroadcastTargets, NotFull, Waiting
      <3> QED
        BY <3>1
    <2>5. CASE WorkUnlock(w)
      BY <2>5 DEF WorkUnlock
    <2>6. CASE Run(w)
      BY <1>6, <2>6 DEF Run
    <2> QED
      BY <1>4, <1>6, <2>1, <2>2, <2>3, <2>4, <2>5, <2>6 DEF WorkerStep
  <1>7. ASSUME NEW t \in Threads, ~destroyed, SpuriousWakeup(t)
        PROVE  lock' \in Threads /\ InSection(lock)'
    BY <1>7 DEF SpuriousWakeup, NotFull, NotEmpty, Waiting
  <1>8. CASE UNCHANGED vars
    BY <1>8 DEF vars
  <1> QED
    BY <1>2, <1>5, <1>6, <1>7, <1>8, Zenon DEF Next

\* A thread with a step to take: it may lock the mutex, is in a section or in
\* its task, or calls add_task again.
CanGoOn(t) ==
    \/ pc[t] = "lock" /\ MutexFree
    \/ InSection(t) \/ pc[t] = "run"
    \/ t \in Clients /\ pc[t] = "idle" /\ sent[t] < MaxTasks

AllDone == (\A c \in Clients : pc[c] = "idle" /\ sent[c] = MaxTasks) /\ ran = Task

\* Where nobody can go on the mutex is free, so the workers there are sleep
\* and the callers are done or sleep.
LEMMA WhoIsStuck ==
  ASSUME TypeOK, OwnerInside, ~destroyed, lost = {}, \A t \in Threads : ~CanGoOn(t)
  PROVE  /\ \A w \in Workers : pc[w] \in {"absent", "wait_not_empty"}
         /\ \A c \in Clients : \/ pc[c] = "wait_not_full"
                               \/ pc[c] = "idle" /\ sent[c] = MaxTasks
  <1>1. MutexFree
    BY DEF OwnerInside, CanGoOn, MutexFree
  <1>2. \A t \in Threads : pc[t] \notin {"lock", "test", "signal", "unlock", "broadcast", "run"}
    BY <1>1 DEF CanGoOn, InSection
  <1>3. ASSUME NEW c \in Clients, pc[c] = "idle"
        PROVE  sent[c] = MaxTasks
    BY <1>3, Sides DEF CanGoOn, TypeOK
  <1>4. \A w \in Workers : pc[w] \in {"absent", "wait_not_empty"}
    BY <1>2, Sides, Zenon DEF TypeOK, WorkerLabels
  <1> QED
    BY <1>2, <1>3, <1>4, Sides DEF TypeOK, ClientLabels

\* A queue with room for a task, of which none was lost, and which has at
\* least one thread, never comes to a halt before every task has run, however
\* signals, broadcasts and spurious wakeups fall: callers and workers never
\* all sleep, each side waiting for the other to wake it.
THEOREM SomebodyGoesOn ==
  ASSUME QueueMax > 0
  PROVE  Spec => [](~destroyed /\ lost = {} =>
                      \/ AllDone
                      \/ \A w \in Workers : pc[w] = "absent"
                      \/ \E t \in Threads : CanGoOn(t))
  <1> DEFINE Goes == ~destroyed /\ lost = {} =>
                       \/ AllDone
                       \/ \A w \in Workers : pc[w] = "absent"
                       \/ \E t \in Threads : CanGoOn(t)
  <1>1. Init => OwnerInside
    BY DEF Init, OwnerInside
  <1>2. IInv /\ OwnerInside => Goes
    <2> SUFFICES ASSUME IInv, OwnerInside, ~destroyed, lost = {},
                        NEW v \in Workers, pc[v] # "absent",
                        \A t \in Threads : ~CanGoOn(t)
                 PROVE  AllDone
      OBVIOUS
    <2>1. /\ TypeOK /\ Carries /\ NoIdleWorker /\ BlockedOnlyWhenFull
          /\ SizeCountsLost /\ Somewhere
      BY DEF IInv
    <2>2. /\ \A w \in Workers : pc[w] \in {"absent", "wait_not_empty"}
          /\ \A c \in Clients : \/ pc[c] = "wait_not_full"
                                \/ pc[c] = "idle" /\ sent[c] = MaxTasks
      BY <2>1, WhoIsStuck
    <2>3. queue_size = 0
      <3>1. v \in NotEmpty
        BY <2>2, Sides DEF NotEmpty, Waiting
      <3>2. {w \in Workers : pc[w] \in {"lock", "test"}} = {}
        BY <2>2
      <3>3. {c \in Clients : pc[c] = "signal"} = {}
        BY <2>2
      <3>4. queue_size <= 0 + 0
        BY <2>1, <3>1, <3>2, <3>3, FS_EmptySet DEF NoIdleWorker
      <3> QED
        BY <2>1, <3>4 DEF TypeOK
    <2>4. \A c \in Clients : pc[c] = "idle" /\ sent[c] = MaxTasks
      <3>1. NotFull = {}
        BY <2>1, <2>2, <2>3, Sides DEF BlockedOnlyWhenFull
      <3> QED
        BY <2>2, <3>1, Sides DEF NotFull, Waiting
    <2>5. Added = Task
      <3>1. \A x \in Task : x[1] \in Clients /\ x[2] \in 1 .. MaxTasks /\ x = <<x[1], x[2]>>
        BY DEF Task
      <3> QED
        BY <2>4, <3>1, Sides DEF Added, CurrentTask
    <2>6. Queued = {} /\ Held = {}
      <3>1. Len(task_queue) = 0
        BY <2>1, <2>3, FS_EmptySet DEF SizeCountsLost, TypeOK
      <3>2. Queued = {}
        BY <2>1, <3>1 DEF Queued, TypeOK
      <3>3. Held = {}
        BY <2>1, <2>2 DEF Held, Carries, Carrying
      <3> QED
        BY <3>2, <3>3
    <2> QED
      BY <2>1, <2>4, <2>5, <2>6 DEF Somewhere, AllDone
  <1> QED
    BY <1>1, <1>2, Invariance, OwnerInsideStep, PTL DEF Spec

-----------------------------------------------------------------------------
(* The abstract queue                                                      *)

\* The queue of the pool begins as the abstract queue does.
LEMMA QueueInit == Init => Abstract!Init
  <1> QED
    BY DEF Init, Abstract!Init

\* A step that changes the queue, while the pool lasts, puts one task at its
\* end and finds room for it, or takes its first.
LEMMA QueueStep ==
  ASSUME IInv, [Next]_vars
  PROVE  [~destroyed' => Abstract!Next]_(Abstract!qvars)
  <1> SUFFICES ASSUME ~destroyed'
               PROVE  Abstract!Next \/ UNCHANGED <<task_queue, fetched>>
    BY DEF Abstract!qvars
  <1> USE DEF IInv
  <1>1. CASE UNCHANGED vars
    BY <1>1 DEF vars
  <1>2. ASSUME NEW c \in Clients, AddTask(c) \/ AddEnqueueFails(c)
        PROVE  UNCHANGED <<task_queue, fetched>>
    BY <1>2 DEF AddTask, AddEnqueueFails, poolVars, histVars
  <1>3. ASSUME NEW c \in Clients, AddEnqueue(c), ~destroyed
        PROVE  Abstract!Next
    <2>1. CurrentTask(c) \in Task
      BY <1>3, CurrentIsTask DEF AddEnqueue
    <2>2. Len(task_queue) < QueueMax
      <3>1. Len(task_queue) \in Nat /\ Cardinality(lost) \in Nat
        BY CountTasks DEF TypeOK
      <3>2. queue_size < QueueMax
        BY <1>3, Sides DEF AddEnqueue, QueueFull, TypeOK
      <3> QED
        BY <1>3, <3>1, <3>2, Sides DEF SizeCountsLost
    <2>3. task_queue' = Append(task_queue, CurrentTask(c)) /\ fetched' = fetched
      BY <1>3 DEF AddEnqueue, histVars
    <2> QED
      BY <2>1, <2>2, <2>3 DEF Abstract!Next, Abstract!Put
  <1>4. ASSUME NEW w \in Workers, WorkDequeue(w)
        PROVE  Abstract!Next
    BY <1>4 DEF WorkDequeue, Unlinked, Abstract!Next, Abstract!Get
  <1>5. ASSUME NEW w \in Workers, Run(w)
        PROVE  UNCHANGED <<task_queue, fetched>>
    BY <1>5 DEF Run, poolVars
  <1>6. ASSUME \/ \E t \in Threads : Lock(t) \/ SpuriousWakeup(t)
               \/ \E c \in Clients : AddWait(c) \/ AddSignal(c) \/ AddUnlock(c)
               \/ \E w \in Workers : \/ WorkWait(w) \/ WorkDequeueFails(w)
                                    \/ WorkBroadcast(w) \/ WorkUnlock(w)
        PROVE  UNCHANGED <<task_queue, fetched>>
    BY <1>6, OtherSteps
  <1>7. CASE Destroy
    BY <1>7 DEF Destroy
  <1> QED
    BY <1>1, <1>2, <1>3, <1>4, <1>5, <1>6, <1>7, Sides
    DEF Next, ClientStep, WorkerStep

\* Until it is deleted the pool's queue is a bounded first in, first out
\* queue, for any capacity and any number of threads; tasks that are lost only
\* make it smaller.
THEOREM PoolImplementsQueue == Spec => Abstract!Init /\ QueueSteps
  <1> QED
    BY QueueInit, QueueStep, Invariance, PTL DEF Spec, QueueSteps
=============================================================================
