----------------------------- MODULE ThreadPool -----------------------------
(***************************************************************************)
(* threadpool.cpp: callers of add_task and worker threads share a queue of *)
(* tasks behind one mutex and two condition variables.                     *)
(*                                                                         *)
(* One action per step between two pthread calls.  A thread that waits on  *)
(* a condition variable has released the mutex; waking it, by a signal, a  *)
(* broadcast or spuriously, makes it compete for the mutex again, after    *)
(* which it tests its condition anew (both waits are in while loops).      *)
(***************************************************************************)
EXTENDS Integers, Sequences, FiniteSets

CONSTANTS
    Workers,       \* the threads of the pool (thread_num, at least one)
    Clients,       \* threads that call add_task
    QueueMax,      \* queue_max_size
    MaxTasks,      \* bound: tasks each client adds
    MaxFail,       \* bound: allocations in queue_enq that fail
    MaxSpurious,   \* bound: spurious wakeups
    MayDestroy,    \* whether the pool is deleted after the last add_task
    None           \* nobody, or no task

Threads == Workers \cup Clients
Task    == Clients \X (1 .. MaxTasks)

ASSUME PoolAssumption ==
    /\ IsFiniteSet(Workers) /\ IsFiniteSet(Clients)
    /\ Workers # {}
    /\ Workers \cap Clients = {}
    /\ QueueMax \in Int
    /\ MaxTasks \in Nat /\ MaxFail \in Nat /\ MaxSpurious \in Nat
    /\ MayDestroy \in BOOLEAN
    /\ None \notin Threads \cup Task

VARIABLES
    lock,         \* owner of the mutex
    task_queue,   \* the linked list behind queue_enq and queue_deq
    queue_size,   \* the pool's own count of it
    pc,           \* where each thread is
    task,         \* the task each worker took out
    sent,         \* add_task calls each client has begun
    fetched,      \* history: tasks taken out of the queue, in order
    ran,          \* history: tasks whose function has returned
    lost,         \* history: tasks queue_enq had no memory for
    spurious,     \* spurious wakeups so far
    destroyed     \* ~threadpool has run

poolVars == <<lock, task_queue, queue_size>>
histVars == <<fetched, ran, lost, spurious, destroyed>>
vars == <<lock, task_queue, queue_size, pc, task, sent,
          fetched, ran, lost, spurious, destroyed>>

Waiting(l)  == {t \in Threads : pc[t] = l}
NotFull     == Waiting("wait_not_full")    \* cond_queue_not_full
NotEmpty    == Waiting("wait_not_empty")   \* cond_queue_not_empty
CurrentTask(c) == <<c, sent[c]>>

Goto(t, l) == pc' = [pc EXCEPT ![t] = l]

-----------------------------------------------------------------------------
(* Both sides                                                              *)

MutexFree == lock = None

\* pthread_mutex_lock(&lock), alone or at the end of pthread_cond_wait.
Lock(t) ==
    /\ pc[t] = "lock"
    /\ MutexFree
    /\ lock' = t
    /\ Goto(t, "test")
    /\ UNCHANGED <<task_queue, queue_size, task, sent, histVars>>

\* pthread_cond_wait: release the mutex and sleep, in one step.
WaitOn(t, condition) ==
    /\ lock' = None
    /\ Goto(t, condition)
    /\ UNCHANGED <<task_queue, queue_size, task, sent, histVars>>

SpuriousWakeup(t) ==
    /\ t \in NotFull \cup NotEmpty
    /\ spurious < MaxSpurious
    /\ spurious' = spurious + 1
    /\ Goto(t, "lock")
    /\ UNCHANGED <<poolVars, task, sent, fetched, ran, lost, destroyed>>

-----------------------------------------------------------------------------
(* add_task                                                                *)

AddTask(c) ==
    /\ pc[c] = "idle"
    /\ sent[c] < MaxTasks
    /\ sent' = [sent EXCEPT ![c] = @ + 1]
    /\ Goto(c, "lock")
    /\ UNCHANGED <<poolVars, task, histVars>>

\* Mutant of QueueFull: off by one.
QueueFullLate == queue_size > QueueMax

\* queue_size >= queue_max_size
QueueFull == queue_size >= QueueMax

AddWait(c) ==
    /\ pc[c] = "test"
    /\ QueueFull
    /\ WaitOn(c, "wait_not_full")

\* queue_enq(task_queue, &task); queue_size ++;
AddEnqueue(c) ==
    /\ pc[c] = "test"
    /\ ~QueueFull
    /\ task_queue' = Append(task_queue, CurrentTask(c))
    /\ queue_size' = queue_size + 1
    /\ Goto(c, "signal")
    /\ UNCHANGED <<lock, task, sent, histVars>>

\* queue_enq returned -1: "error" is printed and the size counted anyway.
AddEnqueueFails(c) ==
    /\ pc[c] = "test"
    /\ ~QueueFull
    /\ Cardinality(lost) < MaxFail
    /\ lost' = lost \cup {CurrentTask(c)}
    /\ queue_size' = queue_size + 1
    /\ Goto(c, "signal")
    /\ UNCHANGED <<lock, task_queue, task, sent, fetched, ran, spurious, destroyed>>

\* Mutant of SignalTargets: the signal goes to the other condition variable.
SignalTargetsSwapped == NotFull

\* The threads one of which pthread_cond_signal(&cond_queue_not_empty) wakes.
SignalTargets == NotEmpty

AddSignal(c) ==
    /\ pc[c] = "signal"
    /\ \/ /\ SignalTargets = {}
          /\ Goto(c, "unlock")
       \/ \E w \in SignalTargets :
             pc' = [pc EXCEPT ![c] = "unlock", ![w] = "lock"]
    /\ UNCHANGED <<poolVars, task, sent, histVars>>

AddUnlock(c) ==
    /\ pc[c] = "unlock"
    /\ lock' = None
    /\ Goto(c, "idle")
    /\ UNCHANGED <<task_queue, queue_size, task, sent, histVars>>

-----------------------------------------------------------------------------
(* work                                                                    *)

\* Mutant of QueueEmpty: off by one.
QueueEmptyLate == queue_size < 0

QueueEmpty == queue_size <= 0

WorkWait(w) ==
    /\ pc[w] = "test"
    /\ QueueEmpty
    /\ WaitOn(w, "wait_not_empty")

\* Mutant of Unlinked: the node stays in the list.
UnlinkedNothing == task_queue

\* llist_fetch copies the first node and takes it out of the list.
Fetched  == Head(task_queue)
Unlinked == Tail(task_queue)

\* queue_deq(task_queue, &task); queue_size --;
WorkDequeue(w) ==
    /\ pc[w] = "test"
    /\ ~QueueEmpty
    /\ task_queue # << >>
    /\ task' = [task EXCEPT ![w] = Fetched]
    /\ task_queue' = Unlinked
    /\ fetched' = Append(fetched, Head(task_queue))
    /\ queue_size' = queue_size - 1
    /\ Goto(w, "broadcast")
    /\ UNCHANGED <<lock, sent, ran, lost, spurious, destroyed>>

\* queue_deq found the list empty: continue, to pthread_mutex_lock, with the
\* mutex locked.
WorkDequeueFails(w) ==
    /\ pc[w] = "test"
    /\ ~QueueEmpty
    /\ task_queue = << >>
    /\ Goto(w, "lock")
    /\ UNCHANGED <<poolVars, task, sent, histVars>>

\* Mutant of BroadcastTargets: a signal in place of the broadcast.
BroadcastTargetsOne == IF NotFull = {} THEN {} ELSE {CHOOSE c \in NotFull : TRUE}

\* The threads pthread_cond_broadcast(&cond_queue_not_full) wakes.
BroadcastTargets == NotFull

WorkBroadcast(w) ==
    /\ pc[w] = "broadcast"
    /\ pc' = [t \in Threads |-> IF t \in BroadcastTargets THEN "lock"
                                ELSE IF t = w THEN "unlock" ELSE pc[t]]
    /\ UNCHANGED <<poolVars, task, sent, histVars>>

WorkUnlock(w) ==
    /\ pc[w] = "unlock"
    /\ lock' = None
    /\ Goto(w, "run")
    /\ UNCHANGED <<task_queue, queue_size, task, sent, histVars>>

\* (*(task.function))(task.arg) returns.
Run(w) ==
    /\ pc[w] = "run"
    /\ ran' = ran \cup {task[w]}
    /\ task' = [task EXCEPT ![w] = None]
    /\ Goto(w, "lock")
    /\ UNCHANGED <<poolVars, sent, fetched, lost, spurious, destroyed>>

-----------------------------------------------------------------------------
\* delete thp, by whoever made the last add_task call.  It joins no thread;
\* what the threads do with the freed object afterwards is undefined, so the
\* behaviour ends here.
Destroy ==
    /\ MayDestroy /\ ~destroyed
    /\ \A c \in Clients : pc[c] = "idle" /\ sent[c] = MaxTasks
    /\ destroyed' = TRUE
    /\ task_queue' = << >>
    /\ UNCHANGED <<lock, queue_size, pc, task, sent, fetched, ran, lost, spurious>>

\* The constructor does not notice that pthread_create fails, for it returns a
\* positive number then: any of the threads may be missing.
Init ==
    /\ lock = None
    /\ task_queue = << >>
    /\ queue_size = 0
    /\ \E started \in SUBSET Workers :
           pc = [t \in Threads |-> IF t \in started THEN "lock"
                                   ELSE IF t \in Workers THEN "absent" ELSE "idle"]
    /\ task = [w \in Workers |-> None]
    /\ sent = [c \in Clients |-> 0]
    /\ fetched = << >>
    /\ ran = {} /\ lost = {}
    /\ spurious = 0
    /\ destroyed = FALSE

ClientStep(c) ==
    \/ AddTask(c)   \/ Lock(c)      \/ AddWait(c) \/ AddEnqueue(c)
    \/ AddEnqueueFails(c) \/ AddSignal(c) \/ AddUnlock(c)

WorkerStep(w) ==
    \/ Lock(w)      \/ WorkWait(w)   \/ WorkDequeue(w) \/ WorkDequeueFails(w)
    \/ WorkBroadcast(w) \/ WorkUnlock(w) \/ Run(w)

Next ==
    \/ ~destroyed /\ \/ \E c \in Clients : ClientStep(c)
                     \/ \E w \in Workers : WorkerStep(w)
                     \/ \E t \in Threads : SpuriousWakeup(t)
    \/ Destroy

Spec == Init /\ [][Next]_vars

\* Every runnable thread runs, and every task returns.
Fairness == /\ \A c \in Clients : WF_vars(~destroyed /\ ClientStep(c))
            /\ \A w \in Workers : WF_vars(~destroyed /\ WorkerStep(w))

FairSpec == Spec /\ Fairness

-----------------------------------------------------------------------------
(* Properties                                                              *)

\* The tasks add_task has put into the queue or failed to.
Added == {x \in Task :
             \/ x[2] < sent[x[1]]
             \/ x = CurrentTask(x[1]) /\ pc[x[1]] \in {"idle", "signal", "unlock"}}

\* No task is lost, run twice or invented: each task added is in the queue,
\* with one worker, run, or among those queue_enq had no memory for.
ExactlyOnce ==
    ~destroyed =>
      LET queued == {task_queue[i] : i \in DOMAIN task_queue}
          held   == {task[w] : w \in Workers} \ {None}
      IN /\ Added = queued \cup held \cup ran \cup lost
         /\ Cardinality(Added) =
               Len(task_queue) + Cardinality({w \in Workers : task[w] # None})
               + Cardinality(ran) + Cardinality(lost)

\* A worker sleeps only while every counted task has a worker on its way to
\* it: one signal for each add_task is enough.
NoIdleWorker ==
    LET awake == {w \in Workers : pc[w] \in {"lock", "test"}}
        toSignal == {c \in Clients : pc[c] = "signal"}
    IN NotEmpty # {} =>
          queue_size <= Cardinality(awake) + Cardinality(toSignal)

\* A caller sleeps in add_task only while the queue is full, or while the
\* worker that made room has not yet broadcast.
BlockedOnlyWhenFull ==
    NotFull # {} => \/ QueueMax <= queue_size
                    \/ \E w \in Workers : pc[w] = "broadcast"

\* Unless memory runs out or the pool is deleted, or no thread at all could be
\* started, every call of add_task returns and every task runs: no wakeup is
\* lost, callers and workers do not wait for one another, and a thread that is
\* missing stops no other.
EverythingRuns ==
    <>(\/ lost # {} \/ destroyed \/ \A w \in Workers : pc[w] = "absent"
       \/ /\ \A c \in Clients : pc[c] = "idle" /\ sent[c] = MaxTasks
          /\ ran = Task)

\* The task queue is a bounded first in, first out queue.
Abstract == INSTANCE BoundedQueue WITH
    Item <- Task, Capacity <- QueueMax,
    queue <- task_queue, delivered <- fetched

\* Until the pool is deleted, each step puts one task at the end of the queue,
\* takes the oldest one, or leaves the queue alone.
QueueSteps == [][~destroyed' => Abstract!Next]_(Abstract!qvars)

\* A worker that has left its wait loop finds a task: "task queue is not
\* empty" (threadpool.h, on cond_queue_not_empty).
NotEmptyMeansTask ==
    \A w \in Workers : pc[w] = "test" /\ queue_size > 0 => task_queue # << >>
=============================================================================
