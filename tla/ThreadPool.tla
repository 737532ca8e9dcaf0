----------------------------- MODULE ThreadPool -----------------------------
(***************************************************************************)
(* The thread pool (thread_pool.c) over the condition variable that is     *)
(* written for Windows (_thread_win32.c), and over the one of POSIX.       *)
(* Every thread is at a step of its own, and any of them may go on.        *)
(***************************************************************************)
EXTENDS Integers, Sequences, SequencesExt, FiniteSets, FiniteSetsExt

CONSTANTS
    TpWorker,     \* worker_threads_list
    TpProducer,   \* bound: the threads that insert tasks
    MostTasks     \* bound: the tasks that are inserted

VARIABLES
    tpPlatform,  \* the condition the pool was built with
    tpAt,        \* the step that each thread is at
    tpOwner,     \* the thread that has entered lock_critical_section
    tpQueue,     \* task_queue
    tpWaitSet,   \* wait_set: the workers whose events are in it, oldest first
    tpSignalled, \* the workers whose event is set
    tpTask,      \* work_thread_task of each worker
    tpInserted,  \* the tasks there have been
    tpNotified   \* the worker whose event a producer has taken out of the set

tpVars == <<tpPlatform, tpAt, tpOwner, tpQueue, tpWaitSet, tpSignalled, tpTask,
            tpInserted, tpNotified>>

NoTask == 0
Nobody == "nobody"
Threads == TpWorker \cup TpProducer

ASSUME ThreadPoolAssumption ==
    /\ IsFiniteSet(TpWorker) /\ IsFiniteSet(TpProducer)
    /\ TpWorker \cap TpProducer = {} /\ Nobody \notin Threads
    /\ MostTasks \in Nat

TpInit ==
    /\ tpPlatform \in {"win32", "posix"}
    /\ tpAt = [t \in Threads |-> "lock"]
    /\ tpOwner = Nobody
    /\ tpQueue = <<>> /\ tpWaitSet = <<>> /\ tpSignalled = {}
    /\ tpTask = [w \in TpWorker |-> NoTask]
    /\ tpInserted = 0
    /\ tpNotified = [p \in TpProducer |-> Nobody]

Goes(t, step) == tpAt' = [tpAt EXCEPT ![t] = step]

-----------------------------------------------------------------------------
\* lock_condition, and the lock that a wait takes back.
TpLock(t) ==
    /\ tpAt[t] = "lock" /\ tpOwner = Nobody
    /\ t \in TpProducer => tpInserted < MostTasks
    /\ tpOwner' = t
    /\ Goes(t, IF t \in TpWorker THEN "test" ELSE "insert")
    /\ UNCHANGED <<tpPlatform, tpQueue, tpWaitSet, tpSignalled, tpTask, tpInserted, tpNotified>>

TpUnlock(t) ==
    /\ tpAt[t] = "unlock"
    /\ tpOwner' = Nobody
    /\ Goes(t, IF t \in TpWorker THEN "run" ELSE "lock")
    /\ UNCHANGED <<tpPlatform, tpQueue, tpWaitSet, tpSignalled, tpTask, tpInserted, tpNotified>>

-----------------------------------------------------------------------------
(***************************************************************************)
(* insert_task_thread_pool.                                                *)
(***************************************************************************)
InsertTask(p) ==
    /\ tpAt[p] = "insert"
    /\ tpInserted' = tpInserted + 1
    /\ tpQueue' = Append(tpQueue, tpInserted + 1)
    /\ Goes(p, "notify")
    /\ UNCHANGED <<tpPlatform, tpOwner, tpWaitSet, tpSignalled, tpTask, tpNotified>>

\* The place in the set of the worker that is notified: the one that has waited
\* longest on Windows, any on POSIX, where it is woken in the same step; none when
\* none waits.
NotifiedOfTheFirst(waiting) ==
    IF waiting = <<>> \/ Len(tpQueue) > 1 THEN {0}
    ELSE IF tpPlatform = "win32" THEN {1} ELSE DOMAIN waiting
NotifiedOf(waiting) ==
    IF waiting = <<>> THEN {0}
    ELSE IF tpPlatform = "win32" THEN {1} ELSE DOMAIN waiting

\* _pop_condition: the event is taken out of the set.
Notify(p) ==
    /\ tpAt[p] = "notify"
    /\ \E i \in NotifiedOf(tpWaitSet) :
          IF i = 0 THEN UNCHANGED <<tpNotified, tpWaitSet, tpSignalled>>
          ELSE /\ tpWaitSet' = RemoveAt(tpWaitSet, i)
               /\ IF tpPlatform = "posix"
                  THEN /\ tpSignalled' = tpSignalled \cup {tpWaitSet[i]}
                       /\ UNCHANGED tpNotified
                  ELSE /\ tpNotified' = [tpNotified EXCEPT ![p] = tpWaitSet[i]]
                       /\ UNCHANGED tpSignalled
    /\ Goes(p, IF tpPlatform = "posix" THEN "unlock" ELSE "set")
    /\ UNCHANGED <<tpPlatform, tpOwner, tpQueue, tpTask, tpInserted>>

\* notify_condition: and it is set, which the worker may not be waiting for yet.
SetEvent(p) ==
    /\ tpAt[p] = "set"
    /\ tpSignalled' = tpSignalled \cup ({tpNotified[p]} \ {Nobody})
    /\ tpNotified' = [tpNotified EXCEPT ![p] = Nobody]
    /\ Goes(p, "unlock")
    /\ UNCHANGED <<tpPlatform, tpOwner, tpQueue, tpWaitSet, tpTask, tpInserted>>

-----------------------------------------------------------------------------
(***************************************************************************)
(* pool_runner_thread.                                                     *)
(***************************************************************************)
\* A worker that finds a task in the queue does not wait.
Test(w) ==
    /\ tpAt[w] = "test" /\ tpQueue # <<>>
    /\ Goes(w, "take")
    /\ UNCHANGED <<tpPlatform, tpOwner, tpQueue, tpWaitSet, tpSignalled, tpTask,
                   tpInserted, tpNotified>>

\* A worker takes the first task, under the lock; the pop of an empty queue gives
\* none.
Take(w) ==
    /\ tpAt[w] = "take"
    /\ tpTask' = [tpTask EXCEPT ![w] = IF tpQueue = <<>> THEN NoTask ELSE Head(tpQueue)]
    /\ tpQueue' = IF tpQueue = <<>> THEN <<>> ELSE Tail(tpQueue)
    /\ Goes(w, "unlock")
    /\ UNCHANGED <<tpPlatform, tpOwner, tpWaitSet, tpSignalled, tpInserted, tpNotified>>

\* wait_condition: the event of the worker is put in the set before the lock is
\* left; on POSIX both are one step.
PushEvent(w) ==
    /\ tpAt[w] = "test" /\ tpQueue = <<>>
    /\ tpWaitSet' = Append(tpWaitSet, w)
    /\ IF tpPlatform = "posix"
       THEN tpOwner' = Nobody /\ Goes(w, "sleep")
       ELSE Goes(w, "leave") /\ UNCHANGED tpOwner
    /\ UNCHANGED <<tpPlatform, tpQueue, tpSignalled, tpTask, tpInserted, tpNotified>>

Leave(w) ==
    /\ tpAt[w] = "leave"
    /\ tpOwner' = Nobody
    /\ Goes(w, "sleep")
    /\ UNCHANGED <<tpPlatform, tpQueue, tpWaitSet, tpSignalled, tpTask, tpInserted, tpNotified>>

\* The event is set, and its being waited for resets it.
Wake(w) ==
    /\ tpAt[w] = "sleep" /\ w \in tpSignalled
    /\ tpSignalled' = tpSignalled \ {w}
    /\ Goes(w, "enter")
    /\ UNCHANGED <<tpPlatform, tpOwner, tpQueue, tpWaitSet, tpTask, tpInserted, tpNotified>>

\* pthread_cond_wait may return with no signal.
WakeUnasked(w) ==
    /\ tpAt[w] = "sleep" /\ tpPlatform = "posix"
    /\ \E i \in DOMAIN tpWaitSet :
          tpWaitSet[i] = w /\ tpWaitSet' = RemoveAt(tpWaitSet, i)
    /\ Goes(w, "enter")
    /\ UNCHANGED <<tpPlatform, tpOwner, tpQueue, tpSignalled, tpTask, tpInserted, tpNotified>>

\* The lock is taken back, and the queue is asked again whether it is empty.
NextStep(w) == "test"

Enter(w) ==
    /\ tpAt[w] = "enter" /\ tpOwner = Nobody
    /\ tpOwner' = w
    /\ Goes(w, NextStep(w))
    /\ UNCHANGED <<tpPlatform, tpQueue, tpWaitSet, tpSignalled, tpTask, tpInserted, tpNotified>>

\* start_function of the task.
Run(w) ==
    /\ tpAt[w] = "run"
    /\ tpTask' = [tpTask EXCEPT ![w] = NoTask]
    /\ Goes(w, "lock")
    /\ UNCHANGED <<tpPlatform, tpOwner, tpQueue, tpWaitSet, tpSignalled, tpInserted, tpNotified>>

TpNext ==
    \/ \E t \in Threads : TpLock(t) \/ TpUnlock(t)
    \/ \E p \in TpProducer : InsertTask(p) \/ Notify(p) \/ SetEvent(p)
    \/ \E w \in TpWorker : \/ Test(w) \/ Take(w) \/ PushEvent(w) \/ Leave(w) \/ Wake(w) \/ WakeUnasked(w)
                           \/ Enter(w) \/ Run(w)

TpSpec == TpInit /\ [][TpNext]_tpVars

-----------------------------------------------------------------------------
\* A worker that runs has a task, which no other runs and which is not waiting
\* any more: a wake up that finds the task taken by another is no task.
TakenIsATask ==
    /\ \A w \in TpWorker :
          tpAt[w] \in {"unlock", "run"} => tpTask[w] \in (1..tpInserted) \ ToSet(tpQueue)
    /\ \A v, w \in TpWorker : tpTask[v] = tpTask[w] /\ tpTask[v] # NoTask => v = w

\* No worker sleeps through a task: while one sleeps that nobody has signalled,
\* there are as many on their way to the queue as there are tasks in it, those
\* whose producer is about to signal left aside.
OnTheirWay == {w \in TpWorker : tpAt[w] \in {"lock", "test", "take", "enter"} \/ w \in tpSignalled}
Signalling == {p \in TpProducer : tpAt[p] = "notify" \/ tpNotified[p] # Nobody}
NoneSleepsThrough ==
    (\E w \in ToSet(tpWaitSet) : tpAt[w] = "sleep") =>
        Len(tpQueue) <= Cardinality(OnTheirWay) + Cardinality(Signalling)

\* A task that is inserted is taken once, and no worker sleeps through it.
TasksAreServed ==
    TakenIsATask /\ NoneSleepsThrough
=============================================================================
