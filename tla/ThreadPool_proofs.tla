------------------------- MODULE ThreadPool_proofs -------------------------
(***************************************************************************)
(* Proofs about ThreadPool, for any number of workers, producers and       *)
(* tasks; about Modules, for any modules in any order and a failure at any *)
(* step of loading one; and about SelectPolling, for any connections,      *)
(* handles and calls of the handlers: a handle that is given again tells   *)
(* nothing of the connection that had it.                                  *)
(***************************************************************************)
EXTENDS ThreadPool, Modules, SelectPolling, ListLemmas

Steps == {"lock", "insert", "notify", "set", "unlock", "test", "take", "leave",
          "sleep", "enter", "run"}

TpTyped ==
    /\ tpAt \in [Threads -> Steps]
    /\ tpOwner \in Threads \cup {Nobody}
    /\ tpQueue \in Seq(Nat)
    /\ tpTask \in [TpWorker -> Nat]
    /\ tpInserted \in Nat

\* The steps between the entering and the leaving of the critical section.
Inside == {"insert", "notify", "set", "unlock", "test", "take", "leave"}
LockIsHeld == \A t \in Threads : tpAt[t] \in Inside => tpOwner = t

\* A worker that is about to take a task finds one.
FindsATask == \A w \in TpWorker : tpAt[w] = "take" => tpQueue # <<>>

\* A worker has a task from the taking to the end of it.
HasATask == \A w \in TpWorker : tpAt[w] \in {"unlock", "run"} <=> tpTask[w] # NoTask

\* Tasks wait in the order of their insertion, after all that were taken.
InOrder(queue, inserted) ==
    /\ \A i \in 1..Len(queue) : queue[i] \in 1..inserted
    /\ \A i, j \in 1..Len(queue) : i < j => queue[i] < queue[j]
After(task, queue, inserted) ==
    task # NoTask => /\ task \in 1..inserted
                     /\ \A i \in 1..Len(queue) : task < queue[i]
QueueInOrder == InOrder(tpQueue, tpInserted)
TakenBefore == \A w \in TpWorker : After(tpTask[w], tpQueue, tpInserted)
TakenOnce == \A v, w \in TpWorker : tpTask[v] = tpTask[w] /\ tpTask[v] # NoTask => v = w

\* The inductive invariant.
TpInv ==
    /\ TpTyped /\ LockIsHeld /\ FindsATask /\ HasATask
    /\ QueueInOrder /\ TakenBefore /\ TakenOnce

-----------------------------------------------------------------------------
\* append_value_linked_list of a task that is newer than all of the others.
LEMMA AppendKeepsTheOrder ==
    ASSUME NEW queue \in Seq(Nat), NEW inserted \in Nat, InOrder(queue, inserted),
           NEW longer, longer = Append(queue, inserted + 1)
    PROVE  /\ longer \in Seq(Nat) /\ longer # <<>>
           /\ InOrder(longer, inserted + 1)
           /\ \A task \in Nat : After(task, queue, inserted) =>
                                After(task, longer, inserted + 1)
<1>1. /\ longer \in Seq(Nat) /\ Len(queue) \in Nat /\ Len(longer) = Len(queue) + 1
      /\ longer # <<>> /\ \A i \in 1..Len(queue) : queue[i] \in Nat
  OBVIOUS
<1>2. \A i \in 1..Len(longer) :
         longer[i] = IF i = Len(queue) + 1 THEN inserted + 1 ELSE queue[i]
  OBVIOUS
<1>3. ASSUME NEW i \in 1..Len(longer), i # Len(queue) + 1
      PROVE  i \in 1..Len(queue) /\ longer[i] = queue[i] /\ queue[i] \in 1..inserted
  BY <1>1, <1>2, <1>3 DEF InOrder
<1>4. InOrder(longer, inserted + 1)
  <2>1. \A i \in 1..Len(longer) : longer[i] \in 1..(inserted + 1)
    BY <1>2, <1>3
  <2>2. ASSUME NEW i \in 1..Len(longer), NEW j \in 1..Len(longer), i < j
        PROVE  longer[i] < longer[j]
    <3>1. i # Len(queue) + 1
      BY <1>1, <2>2
    <3>2. CASE j = Len(queue) + 1
      BY <1>2, <1>3, <3>1, <3>2
    <3>3. CASE j # Len(queue) + 1
      BY <1>3, <2>2, <3>1, <3>3 DEF InOrder
    <3>4. QED
      BY <3>2, <3>3
  <2>3. QED
    BY <2>1, <2>2 DEF InOrder
<1>5. ASSUME NEW task \in Nat, After(task, queue, inserted), task # NoTask
      PROVE  task \in 1..(inserted + 1) /\ \A i \in 1..Len(longer) : task < longer[i]
  <2>1. task \in 1..inserted /\ \A i \in 1..Len(queue) : task < queue[i]
    BY <1>5 DEF After
  <2>2. QED
    BY <1>2, <1>3, <2>1
<1>6. QED
  BY <1>1, <1>4, <1>5 DEF After

\* pop_value_linked_list of the first task, which is older than those that stay.
LEMMA PopKeepsTheOrder ==
    ASSUME NEW queue \in Seq(Nat), NEW inserted \in Nat, InOrder(queue, inserted), queue # <<>>,
           NEW shorter, shorter = Tail(queue)
    PROVE  /\ Head(queue) \in 1..inserted /\ shorter \in Seq(Nat)
           /\ InOrder(shorter, inserted)
           /\ After(Head(queue), shorter, inserted)
           /\ \A task \in Nat : After(task, queue, inserted) =>
                 After(task, shorter, inserted) /\ task # Head(queue)
<1>1. /\ shorter \in Seq(Nat) /\ Len(queue) \in Nat \ {0} /\ Len(shorter) = Len(queue) - 1
      /\ Head(queue) = queue[1]
  OBVIOUS
<1>2. \A i \in 1..Len(shorter) : shorter[i] = queue[i + 1]
  OBVIOUS
<1>3. \A i \in 1..Len(shorter) : i + 1 \in 1..Len(queue)
  BY <1>1
<1>4. 1 \in 1..Len(queue) /\ Head(queue) \in 1..inserted
  BY <1>1 DEF InOrder
<1>5. InOrder(shorter, inserted)
  <2>1. \A i \in 1..Len(shorter) : shorter[i] \in 1..inserted
    BY <1>2, <1>3 DEF InOrder
  <2>2. ASSUME NEW i \in 1..Len(shorter), NEW j \in 1..Len(shorter), i < j
        PROVE  shorter[i] < shorter[j]
    <3>1. i + 1 \in 1..Len(queue) /\ j + 1 \in 1..Len(queue) /\ i + 1 < j + 1
      BY <1>3, <2>2
    <3>2. QED
      BY <1>2, <3>1 DEF InOrder
  <2>3. QED
    BY <2>1, <2>2 DEF InOrder
<1>6. \A i \in 1..Len(shorter) : Head(queue) < shorter[i]
  <2> SUFFICES ASSUME NEW i \in 1..Len(shorter) PROVE Head(queue) < shorter[i]
    OBVIOUS
  <2>1. 1 < i + 1
    OBVIOUS
  <2>2. QED
    BY <1>1, <1>2, <1>3, <1>4, <2>1 DEF InOrder
<1>7. ASSUME NEW task \in Nat, After(task, queue, inserted)
      PROVE  After(task, shorter, inserted) /\ task # Head(queue)
  <2>1. CASE task = NoTask
    BY <1>4, <2>1 DEF After, NoTask
  <2>2. CASE task # NoTask
    <3>1. task \in 1..inserted /\ \A i \in 1..Len(queue) : task < queue[i]
      BY <1>7, <2>2 DEF After
    <3>2. QED
      BY <1>1, <1>2, <1>3, <1>4, <3>1 DEF After
  <2>3. QED
    BY <2>1, <2>2
<1>8. QED
  BY <1>1, <1>4, <1>5, <1>6, <1>7 DEF After

-----------------------------------------------------------------------------
\* No thread has started, and nothing is queued.
LEMMA TpInitInv == TpInit => TpInv
BY ThreadPoolAssumption DEF TpInit, TpInv, TpTyped, LockIsHeld, FindsATask, HasATask,
   QueueInOrder, InOrder, TakenBefore, After, TakenOnce, Steps, Inside, NoTask, Threads

\* A step of a thread that moves it and leaves the queue and the tasks alone.
LEMMA StepInv ==
    ASSUME TpInv, NEW t \in Threads, NEW step \in Steps, Goes(t, step),
           UNCHANGED <<tpQueue, tpTask, tpInserted>>,
           tpOwner' \in Threads \cup {Nobody},
           step \in Inside => tpOwner' = t,
           tpOwner = t \/ tpOwner = Nobody \/ tpOwner' = tpOwner,
           step = "take" => tpQueue # <<>>,
           t \in TpWorker => (step \in {"unlock", "run"} <=> tpAt[t] \in {"unlock", "run"})
    PROVE  TpInv'
<1> USE DEF Goes, TpInv
<1>1. TpTyped'
  BY DEF TpTyped
<1>2. \A u \in Threads : tpAt'[u] = IF u = t THEN step ELSE tpAt[u]
  BY DEF TpTyped
<1>3. LockIsHeld'
  BY <1>2, ThreadPoolAssumption DEF LockIsHeld, TpTyped
<1>4. FindsATask'
  BY <1>2 DEF FindsATask, Threads
<1>5. HasATask'
  BY <1>2 DEF HasATask, Threads
<1>6. (QueueInOrder /\ TakenBefore /\ TakenOnce)'
  BY DEF QueueInOrder, TakenBefore, TakenOnce
<1>7. QED
  BY <1>1, <1>3, <1>4, <1>5, <1>6

\* insert_task_thread_pool.
LEMMA InsertInv == ASSUME TpInv, NEW p \in TpProducer, InsertTask(p) PROVE TpInv'
<1> USE DEF InsertTask, Goes, TpInv
<1>1. \A u \in Threads : tpAt'[u] = IF u = p THEN "notify" ELSE tpAt[u]
  BY DEF TpTyped, Threads
<1>2. /\ tpQueue' \in Seq(Nat) /\ tpQueue' # <<>> /\ InOrder(tpQueue', tpInserted')
      /\ \A task \in Nat : After(task, tpQueue, tpInserted) => After(task, tpQueue', tpInserted')
  BY AppendKeepsTheOrder DEF TpTyped, QueueInOrder
<1>3. TpTyped'
  BY <1>2 DEF TpTyped, Steps, Threads
<1>4. LockIsHeld'
  BY <1>1 DEF LockIsHeld, Inside, Threads
<1>5. FindsATask' /\ HasATask'
  BY <1>1, <1>2, ThreadPoolAssumption DEF FindsATask, HasATask, Threads
<1>6. QueueInOrder' /\ TakenBefore' /\ TakenOnce'
  BY <1>2 DEF QueueInOrder, TakenBefore, TakenOnce, TpTyped
<1>7. QED
  BY <1>3, <1>4, <1>5, <1>6

\* pool_runner_thread takes a task.
LEMMA TakeInv == ASSUME TpInv, NEW w \in TpWorker, Take(w) PROVE TpInv'
<1> USE DEF Take, Goes, TpInv
<1>1. \A u \in Threads : tpAt'[u] = IF u = w THEN "unlock" ELSE tpAt[u]
  BY DEF TpTyped, Threads
<1>2. tpQueue # <<>> /\ tpQueue' = Tail(tpQueue)
  BY DEF FindsATask
<1>3. \A v \in TpWorker : tpTask'[v] = IF v = w THEN Head(tpQueue) ELSE tpTask[v]
  BY <1>2 DEF TpTyped
<1>4. /\ Head(tpQueue) \in 1..tpInserted /\ tpQueue' \in Seq(Nat)
      /\ InOrder(tpQueue', tpInserted) /\ After(Head(tpQueue), tpQueue', tpInserted)
      /\ \A task \in Nat : After(task, tpQueue, tpInserted) =>
            After(task, tpQueue', tpInserted) /\ task # Head(tpQueue)
  BY <1>2, PopKeepsTheOrder DEF TpTyped, QueueInOrder
<1>5. TpTyped'
  BY <1>2, <1>4 DEF TpTyped, Steps, Threads
<1>6. LockIsHeld'
  BY <1>1 DEF LockIsHeld, Inside, Threads
<1>7. FindsATask'
  <2> SUFFICES ASSUME NEW v \in TpWorker, tpAt'[v] = "take"
               PROVE  FALSE
    BY DEF FindsATask
  <2>1. v # w /\ tpAt[v] = "take"
    BY <1>1 DEF Threads
  <2>2. tpOwner = v /\ tpOwner = w
    BY <2>1 DEF LockIsHeld, Inside, Threads
  <2>3. QED
    BY <2>1, <2>2
<1>8. HasATask'
  BY <1>1, <1>3, <1>4 DEF HasATask, NoTask, Threads
<1>9. QueueInOrder' /\ TakenBefore'
  BY <1>3, <1>4 DEF QueueInOrder, TakenBefore, TpTyped
<1>10. TakenOnce'
  BY <1>3, <1>4 DEF TakenOnce, TakenBefore, TpTyped
<1>11. QED
  BY <1>5, <1>6, <1>7, <1>8, <1>9, <1>10

\* A task is over.
LEMMA RunInv == ASSUME TpInv, NEW w \in TpWorker, Run(w) PROVE TpInv'
<1> USE DEF Run, Goes, TpInv
<1>1. \A u \in Threads : tpAt'[u] = IF u = w THEN "lock" ELSE tpAt[u]
  BY DEF TpTyped, Threads
<1>2. \A v \in TpWorker : tpTask'[v] = IF v = w THEN NoTask ELSE tpTask[v]
  BY DEF TpTyped
<1>3. TpTyped'
  BY DEF TpTyped, Steps, Threads, NoTask
<1>4. LockIsHeld' /\ FindsATask'
  BY <1>1 DEF LockIsHeld, FindsATask, Inside, Threads
<1>5. HasATask'
  BY <1>1, <1>2 DEF HasATask, Threads
<1>6. QueueInOrder' /\ TakenBefore' /\ TakenOnce'
  BY <1>2 DEF QueueInOrder, TakenBefore, TakenOnce, After
<1>7. QED
  BY <1>3, <1>4, <1>5, <1>6

-----------------------------------------------------------------------------
\* Every step of the pool keeps the queue in the order of the tasks.
LEMMA TpNextInv == TpInv /\ [TpNext]_tpVars => TpInv'
<1> SUFFICES ASSUME TpInv, [TpNext]_tpVars PROVE TpInv'
  OBVIOUS
<1> USE DEF Steps, Inside
<1>1. ASSUME NEW t \in Threads, TpLock(t) PROVE TpInv'
  BY <1>1, StepInv, ThreadPoolAssumption DEF TpLock, TpInv, TpTyped
<1>2. ASSUME NEW t \in Threads, TpUnlock(t) PROVE TpInv'
  BY <1>2, StepInv, ThreadPoolAssumption DEF TpUnlock, TpInv, TpTyped, LockIsHeld
<1>3. ASSUME NEW p \in TpProducer, InsertTask(p) PROVE TpInv'
  BY <1>3, InsertInv
<1>4. ASSUME NEW p \in TpProducer, Notify(p) PROVE TpInv'
  BY <1>4, StepInv, ThreadPoolAssumption DEF Notify, TpInv, TpTyped, LockIsHeld, Threads
<1>5. ASSUME NEW p \in TpProducer, SetEvent(p) PROVE TpInv'
  BY <1>5, StepInv, ThreadPoolAssumption DEF SetEvent, TpInv, TpTyped, LockIsHeld, Threads
<1>6. ASSUME NEW w \in TpWorker, Test(w) PROVE TpInv'
  BY <1>6, StepInv DEF Test, TpInv, TpTyped, LockIsHeld, Threads
<1>7. ASSUME NEW w \in TpWorker, Take(w) PROVE TpInv'
  BY <1>7, TakeInv
<1>8. ASSUME NEW w \in TpWorker, PushEvent(w) PROVE TpInv'
  BY <1>8, StepInv DEF PushEvent, TpInv, TpTyped, LockIsHeld, Threads
<1>9. ASSUME NEW w \in TpWorker, Leave(w) PROVE TpInv'
  BY <1>9, StepInv DEF Leave, TpInv, TpTyped, LockIsHeld, Threads
<1>10. ASSUME NEW w \in TpWorker, Wake(w) \/ WakeUnasked(w) PROVE TpInv'
  BY <1>10, StepInv DEF Wake, WakeUnasked, TpInv, TpTyped, Threads
<1>11. ASSUME NEW w \in TpWorker, Enter(w) PROVE TpInv'
  BY <1>11, StepInv DEF Enter, NextStep, TpInv, TpTyped, Threads
<1>12. ASSUME NEW w \in TpWorker, Run(w) PROVE TpInv'
  BY <1>12, RunInv
<1>13. CASE UNCHANGED tpVars
  BY <1>13 DEF tpVars, TpInv, TpTyped, LockIsHeld, FindsATask, HasATask, QueueInOrder,
     TakenBefore, TakenOnce
<1>14. QED
  BY <1>1, <1>2, <1>3, <1>4, <1>5, <1>6, <1>7, <1>8, <1>9, <1>10, <1>11, <1>12, <1>13 DEF TpNext

\* A task that is older than those that wait is none of them.
LEMMA TakenIsNotWaiting ==
    ASSUME NEW queue \in Seq(Nat), NEW task \in Nat \ {NoTask}, NEW inserted \in Nat,
           After(task, queue, inserted)
    PROVE  task \in (1..inserted) \ ToSet(queue)
BY DEF After, ToSet, NoTask

\* Whatever wakes a worker, it runs a task that was inserted, that no other worker
\* runs and that has left the queue (pool_runner_thread tests the queue again
\* after every wait).
THEOREM TasksAreTaken == TpSpec => []TakenIsATask
<1>1. TpInv => TakenIsATask
  <2> SUFFICES ASSUME TpInv PROVE TakenIsATask
    OBVIOUS
  <2>1. ASSUME NEW w \in TpWorker, tpAt[w] \in {"unlock", "run"}
        PROVE  tpTask[w] \in (1..tpInserted) \ ToSet(tpQueue)
    <3>1. tpTask[w] \in Nat \ {NoTask} /\ After(tpTask[w], tpQueue, tpInserted)
      BY <2>1 DEF TpInv, TpTyped, HasATask, TakenBefore
    <3>2. QED
      BY <3>1, TakenIsNotWaiting DEF TpInv, TpTyped
  <2>2. QED
    BY <2>1 DEF TakenIsATask, TpInv, TakenOnce
<1>2. QED
  BY TpInitInv, TpNextInv, <1>1, PTL DEF TpSpec

-----------------------------------------------------------------------------
(***************************************************************************)
(* No worker sleeps through a task.                                        *)
(***************************************************************************)
\* The workers whose events are in the set wait, or are about to; those that were
\* taken out of it wait for an event that is set, or is going to be.
WaitTyped ==
    /\ tpPlatform \in {"win32", "posix"}
    /\ tpWaitSet \in Seq(TpWorker)
    /\ tpSignalled \subseteq TpWorker
    /\ tpNotified \in [TpProducer -> TpWorker \cup {Nobody}]
WaitsOnce ==
    \A i, j \in 1..Len(tpWaitSet) : tpWaitSet[i] = tpWaitSet[j] => i = j
WaitersAreWaiting ==
    \A i \in 1..Len(tpWaitSet) :
        /\ tpAt[tpWaitSet[i]] \in {"leave", "sleep"} /\ tpWaitSet[i] \notin tpSignalled
        /\ \A p \in TpProducer : tpNotified[p] # tpWaitSet[i]
SignalledAreAsleep == \A w \in tpSignalled : tpAt[w] = "sleep"
NotifiedAreAsleep ==
    \A p \in TpProducer : tpNotified[p] # Nobody =>
        /\ tpAt[p] = "set" /\ tpPlatform = "win32"
        /\ tpAt[tpNotified[p]] = "sleep" /\ tpNotified[p] \notin tpSignalled
EnoughAreComing ==
    tpWaitSet # <<>> => Len(tpQueue) <= Cardinality(OnTheirWay) + Cardinality(Signalling)

WaitInv ==
    /\ WaitTyped /\ WaitsOnce /\ WaitersAreWaiting /\ SignalledAreAsleep
    /\ NotifiedAreAsleep /\ EnoughAreComing

\* What is left of the set once the event at a place of it is taken out.
LEMMA TakenOut ==
    ASSUME NEW waiting \in Seq(TpWorker), NEW i \in 1..Len(waiting),
           \A j, k \in 1..Len(waiting) : waiting[j] = waiting[k] => j = k,
           NEW left, left = RemoveAt(waiting, i)
    PROVE  /\ left \in Seq(TpWorker)
           /\ \A j, k \in 1..Len(left) : left[j] = left[k] => j = k
           /\ \A k \in 1..Len(left) :
                 left[k] # waiting[i] /\ \E m \in 1..Len(waiting) : left[k] = waiting[m]
<1> DEFINE before == SubSeq(waiting, 1, i - 1)
           after == SubSeq(waiting, i + 1, Len(waiting))
           At(k) == IF k < i THEN k ELSE k + 1
<1>1. /\ Len(waiting) \in Nat /\ i \in 1..Len(waiting)
      /\ before \in Seq(TpWorker) /\ Len(before) = i - 1
      /\ \A k \in 1..(i - 1) : before[k] = waiting[k]
  OBVIOUS
<1>2. /\ after \in Seq(TpWorker) /\ Len(after) = Len(waiting) - i
      /\ \A k \in 1..(Len(waiting) - i) : after[k] = waiting[i + k]
  <2>1. \A k \in (i + 1)..Len(waiting) : waiting[k] \in TpWorker
    BY <1>1
  <2>2. QED
    BY <1>1, <2>1
<1>3. left = before \o after
  BY DEF RemoveAt
<1> HIDE DEF before, after
<1>4. /\ left \in Seq(TpWorker) /\ Len(left) = Len(before) + Len(after)
      /\ \A k \in 1..(Len(before) + Len(after)) :
            left[k] = IF k <= Len(before) THEN before[k] ELSE after[k - Len(before)]
  <2>1. before \in Seq(TpWorker) /\ after \in Seq(TpWorker)
    BY <1>1, <1>2
  <2>2. /\ before \o after \in Seq(TpWorker)
        /\ Len(before \o after) = Len(before) + Len(after)
        /\ \A k \in 1..(Len(before) + Len(after)) :
              (before \o after)[k] = IF k <= Len(before) THEN before[k]
                                    ELSE after[k - Len(before)]
    BY <2>1, ConcatProperties
  <2>3. QED
    BY <2>2, <1>3
<1>5. left \in Seq(TpWorker) /\ Len(left) = Len(waiting) - 1
  BY <1>1, <1>2, <1>4
<1>6. ASSUME NEW k \in 1..Len(left)
      PROVE  At(k) \in 1..Len(waiting) /\ At(k) # i /\ left[k] = waiting[At(k)]
  <2>1. CASE k < i
    <3>1. k \in 1..(i - 1) /\ k <= Len(before) /\ At(k) = k
      BY <1>1, <1>5, <2>1
    <3>2. k \in 1..(Len(before) + Len(after))
      BY <1>4, <1>5
    <3>3. left[k] = before[k]
      BY <1>4, <3>1, <3>2
    <3>4. before[k] = waiting[k]
      BY <1>1, <3>1
    <3>5. At(k) \in 1..Len(waiting) /\ At(k) # i
      BY <1>1, <1>5, <2>1, <3>1
    <3>6. QED
      BY <3>1, <3>3, <3>4, <3>5
  <2>2. CASE ~(k < i)
    <3>1. k - (i - 1) \in 1..(Len(waiting) - i) /\ i + (k - (i - 1)) = k + 1
      BY <1>1, <1>5, <2>2
    <3>2. left[k] = after[k - (i - 1)]
      BY <1>1, <1>2, <1>4, <1>5, <2>2, <3>1
    <3>3. QED
      BY <1>1, <1>2, <1>5, <2>2, <3>1, <3>2
  <2>3. QED
    BY <2>1, <2>2
<1>7. ASSUME NEW j \in 1..Len(left), NEW k \in 1..Len(left), At(j) = At(k)
      PROVE  j = k
  BY <1>1, <1>5, <1>7
<1> HIDE DEF At
<1>8. \A j, k \in 1..Len(left) : left[j] = left[k] => j = k
  <2>1. SUFFICES ASSUME NEW j \in 1..Len(left), NEW k \in 1..Len(left), left[j] = left[k]
                 PROVE  j = k
    OBVIOUS
  <2>2. waiting[At(j)] = waiting[At(k)]
    BY <1>6, <2>1
  <2>3. At(j) = At(k)
    BY <1>6, <2>2
  <2>4. QED
    BY <1>7, <2>3
<1>9. \A k \in 1..Len(left) :
          left[k] # waiting[i] /\ \E m \in 1..Len(waiting) : left[k] = waiting[m]
  <2>1. SUFFICES ASSUME NEW k \in 1..Len(left)
                 PROVE  left[k] # waiting[i] /\ \E m \in 1..Len(waiting) : left[k] = waiting[m]
    OBVIOUS
  <2>2. At(k) \in 1..Len(waiting) /\ At(k) # i /\ left[k] = waiting[At(k)]
    BY <1>6
  <2>3. left[k] # waiting[i]
    BY <2>2
  <2>4. QED
    BY <2>2, <2>3
<1>10. QED
  BY <1>5, <1>8, <1>9

\* One more worker on its way, or producer about to signal.
LEMMA OneMore ==
    ASSUME NEW S, IsFiniteSet(S), NEW A \in SUBSET S, NEW x \in S \ A
    PROVE  /\ Cardinality(A) \in Nat /\ Cardinality(A \cup {x}) = Cardinality(A) + 1
BY FS_Subset, FS_AddElement, FS_CardinalityType

\* The workers and producers that are counted are finitely many.
LEMMA Counted ==
    /\ IsFiniteSet(OnTheirWay) /\ Cardinality(OnTheirWay) \in Nat
    /\ IsFiniteSet(Signalling) /\ Cardinality(Signalling) \in Nat
    /\ IsFiniteSet(OnTheirWay)' /\ Cardinality(OnTheirWay') \in Nat
    /\ IsFiniteSet(Signalling)' /\ Cardinality(Signalling') \in Nat
<1>1. /\ OnTheirWay \in SUBSET TpWorker /\ Signalling \in SUBSET TpProducer
      /\ OnTheirWay' \in SUBSET TpWorker /\ Signalling' \in SUBSET TpProducer
  BY DEF OnTheirWay, Signalling
<1>2. QED
  BY <1>1, ThreadPoolAssumption, FS_Subset, FS_CardinalityType

\* A step after which nobody is missing.
LEMMA NobodyMissing ==
    ASSUME EnoughAreComing, OnTheirWay \subseteq OnTheirWay', Signalling \subseteq Signalling',
           tpQueue \in Seq(Nat), tpQueue' = tpQueue, tpWaitSet' # <<>> => tpWaitSet # <<>>
    PROVE  EnoughAreComing'
<1>1. /\ Cardinality(OnTheirWay) <= Cardinality(OnTheirWay')
      /\ Cardinality(Signalling) <= Cardinality(Signalling')
  BY Counted, FS_Subset
<1>2. Len(tpQueue) \in Nat
  OBVIOUS
<1>3. QED
  BY <1>1, <1>2, Counted DEF EnoughAreComing

\* A step of a thread that does not wait leaves those that do as they are.
LEMMA OthersWait ==
    ASSUME TpInv, WaitInv, NEW t \in Threads, NEW step \in Steps, Goes(t, step),
           \/ tpAt[t] \notin {"leave", "sleep", "set"}
           \/ tpAt[t] = "leave" /\ step = "sleep",
           UNCHANGED <<tpPlatform, tpWaitSet, tpSignalled, tpNotified>>
    PROVE  (WaitTyped /\ WaitsOnce /\ WaitersAreWaiting /\ SignalledAreAsleep
            /\ NotifiedAreAsleep)'
<1> USE DEF WaitInv, WaitTyped
<1>1. \A u \in Threads : tpAt'[u] = IF u = t THEN step ELSE tpAt[u]
  BY DEF Goes, TpInv, TpTyped
<1>2. \A i \in 1..Len(tpWaitSet) : tpWaitSet[i] \in Threads
  BY DEF Threads
<1>3. WaitersAreWaiting'
  BY <1>1, <1>2 DEF WaitersAreWaiting
<1>4. SignalledAreAsleep'
  BY <1>1 DEF SignalledAreAsleep, Threads
<1>5. NotifiedAreAsleep'
  BY <1>1 DEF NotifiedAreAsleep, Threads
<1>6. QED
  BY <1>3, <1>4, <1>5 DEF WaitsOnce

-----------------------------------------------------------------------------
\* A step that neither queues nor takes, and signals nobody.
LEMMA PassingInv ==
    ASSUME TpInv, WaitInv, NEW t \in Threads, NEW step \in Steps, Goes(t, step),
           \/ tpAt[t] \notin {"leave", "sleep", "set"}
           \/ tpAt[t] = "leave" /\ step = "sleep",
           UNCHANGED <<tpPlatform, tpQueue, tpWaitSet, tpSignalled, tpNotified>>,
           tpAt[t] \in {"lock", "test", "take", "enter"} =>
               step \in {"lock", "test", "take", "enter"} \/ t \in TpProducer,
           tpAt[t] # "notify"
    PROVE  WaitInv'
<1>1. (WaitTyped /\ WaitsOnce /\ WaitersAreWaiting /\ SignalledAreAsleep
       /\ NotifiedAreAsleep)'
  BY OthersWait
<1>2. \A u \in Threads : tpAt'[u] = IF u = t THEN step ELSE tpAt[u]
  BY DEF Goes, TpInv, TpTyped
<1>3. OnTheirWay \subseteq OnTheirWay'
  BY <1>2, ThreadPoolAssumption DEF OnTheirWay, Threads
<1>4. Signalling \subseteq Signalling'
  BY <1>2 DEF Signalling, Threads
<1>5. EnoughAreComing'
  BY <1>3, <1>4, NobodyMissing DEF WaitInv, TpInv, TpTyped
<1>6. QED
  BY <1>1, <1>5 DEF WaitInv

\* A task is inserted, and its producer is about to signal.
LEMMA InsertWaitInv == ASSUME TpInv, WaitInv, NEW p \in TpProducer, InsertTask(p) PROVE WaitInv'
<1>1. (WaitTyped /\ WaitsOnce /\ WaitersAreWaiting /\ SignalledAreAsleep
       /\ NotifiedAreAsleep)'
  BY OthersWait DEF InsertTask, Threads, Steps
<1>2. \A u \in Threads : tpAt'[u] = IF u = p THEN "notify" ELSE tpAt[u]
  BY DEF InsertTask, Goes, TpInv, TpTyped, Threads
<1>3. OnTheirWay' = OnTheirWay
  BY <1>2, ThreadPoolAssumption DEF OnTheirWay, InsertTask, Threads
<1>4. p \notin Signalling /\ Signalling' = Signalling \cup {p}
  BY <1>2 DEF Signalling, InsertTask, WaitInv, NotifiedAreAsleep, Threads
<1>5. Cardinality(Signalling') = Cardinality(Signalling) + 1
  BY <1>4, OneMore, ThreadPoolAssumption DEF Signalling
<1>6. Len(tpQueue') = Len(tpQueue) + 1 /\ Len(tpQueue) \in Nat
  BY DEF InsertTask, TpInv, TpTyped
<1>7. EnoughAreComing'
  BY <1>3, <1>5, <1>6, Counted DEF WaitInv, EnoughAreComing, InsertTask
<1>8. QED
  BY <1>1, <1>7 DEF WaitInv

\* A task is taken by a worker that came for it.
LEMMA TakeWaitInv == ASSUME TpInv, WaitInv, NEW w \in TpWorker, Take(w) PROVE WaitInv'
<1>1. (WaitTyped /\ WaitsOnce /\ WaitersAreWaiting /\ SignalledAreAsleep
       /\ NotifiedAreAsleep)'
  BY OthersWait DEF Take, Threads, Steps
<1>2. \A u \in Threads : tpAt'[u] = IF u = w THEN "unlock" ELSE tpAt[u]
  BY DEF Take, Goes, TpInv, TpTyped, Threads
<1>3. w \notin tpSignalled
  BY DEF Take, WaitInv, SignalledAreAsleep
<1>4. w \notin OnTheirWay' /\ OnTheirWay = OnTheirWay' \cup {w}
  BY <1>2, <1>3 DEF OnTheirWay, Take, Threads
<1>5. Cardinality(OnTheirWay) = Cardinality(OnTheirWay') + 1
  BY <1>4, OneMore, ThreadPoolAssumption DEF OnTheirWay
<1>6. Signalling' = Signalling
  BY <1>2, ThreadPoolAssumption DEF Signalling, Take, Threads
<1>7. Len(tpQueue') = Len(tpQueue) - 1 /\ Len(tpQueue) \in Nat
  BY DEF Take, TpInv, TpTyped, FindsATask
<1>8. EnoughAreComing'
  BY <1>5, <1>6, <1>7, Counted DEF WaitInv, EnoughAreComing, Take
<1>9. QED
  BY <1>1, <1>8 DEF WaitInv

\* A worker finds nothing and puts its event in the set.
LEMMA PushWaitInv == ASSUME TpInv, WaitInv, NEW w \in TpWorker, PushEvent(w) PROVE WaitInv'
<1> USE DEF WaitInv, WaitTyped
<1>1. \A u \in Threads : tpAt'[u] = IF u = w THEN tpAt'[w] ELSE tpAt[u]
  BY DEF PushEvent, Goes, TpInv, TpTyped, Threads
<1>2. tpAt[w] = "test" /\ tpAt'[w] \in {"leave", "sleep"}
  BY DEF PushEvent, Goes, TpInv, TpTyped, Threads
<1>3. /\ tpWaitSet' \in Seq(TpWorker) /\ Len(tpWaitSet') = Len(tpWaitSet) + 1
      /\ Len(tpWaitSet) \in Nat
      /\ \A i \in 1..Len(tpWaitSet') :
            tpWaitSet'[i] = IF i = Len(tpWaitSet) + 1 THEN w ELSE tpWaitSet[i]
  BY DEF PushEvent
<1>4. /\ w \notin tpSignalled /\ \A p \in TpProducer : tpNotified[p] # w
      /\ \A i \in 1..Len(tpWaitSet) : tpWaitSet[i] # w /\ tpWaitSet[i] \in Threads
  BY <1>2, ThreadPoolAssumption
  DEF SignalledAreAsleep, NotifiedAreAsleep, WaitersAreWaiting, Threads
<1>5. WaitTyped' /\ WaitsOnce'
  BY <1>3, <1>4 DEF WaitsOnce, PushEvent
<1>6. WaitersAreWaiting'
  BY <1>1, <1>2, <1>3, <1>4 DEF WaitersAreWaiting, PushEvent
<1>7. SignalledAreAsleep' /\ NotifiedAreAsleep'
  BY <1>1, <1>4, ThreadPoolAssumption DEF SignalledAreAsleep, NotifiedAreAsleep, PushEvent, Threads
<1>8. EnoughAreComing'
  BY Counted DEF EnoughAreComing, PushEvent
<1>9. QED
  BY <1>5, <1>6, <1>7, <1>8

\* A worker that was signalled wakes up.
LEMMA WakeWaitInv == ASSUME TpInv, WaitInv, NEW w \in TpWorker, Wake(w) PROVE WaitInv'
<1> USE DEF WaitInv, WaitTyped
<1>1. \A u \in Threads : tpAt'[u] = IF u = w THEN "enter" ELSE tpAt[u]
  BY DEF Wake, Goes, TpInv, TpTyped, Threads
<1>2. \A i \in 1..Len(tpWaitSet) : tpWaitSet[i] # w /\ tpWaitSet[i] \in Threads
  BY DEF Wake, WaitersAreWaiting, Threads
<1>3. \A p \in TpProducer : tpNotified[p] # w
  BY ThreadPoolAssumption DEF Wake, NotifiedAreAsleep, Threads
<1>4. WaitTyped' /\ WaitsOnce' /\ WaitersAreWaiting'
  BY <1>1, <1>2 DEF Wake, WaitsOnce, WaitersAreWaiting
<1>5. SignalledAreAsleep' /\ NotifiedAreAsleep'
  BY <1>1, <1>3, ThreadPoolAssumption DEF Wake, SignalledAreAsleep, NotifiedAreAsleep, Threads
<1>6. OnTheirWay \subseteq OnTheirWay' /\ Signalling \subseteq Signalling'
  BY <1>1, ThreadPoolAssumption DEF Wake, OnTheirWay, Signalling, Threads
<1>7. EnoughAreComing'
  BY <1>6, NobodyMissing DEF Wake, TpInv, TpTyped
<1>8. QED
  BY <1>4, <1>5, <1>7

\* A worker wakes up although nobody has signalled it.
LEMMA WakeUnaskedWaitInv ==
    ASSUME TpInv, WaitInv, NEW w \in TpWorker, WakeUnasked(w) PROVE WaitInv'
<1> USE DEF WaitInv, WaitTyped
<1>1. \A u \in Threads : tpAt'[u] = IF u = w THEN "enter" ELSE tpAt[u]
  BY DEF WakeUnasked, Goes, TpInv, TpTyped, Threads
<1>2. PICK i \in 1..Len(tpWaitSet) : tpWaitSet[i] = w /\ tpWaitSet' = RemoveAt(tpWaitSet, i)
  BY DEF WakeUnasked
<1>3. /\ tpWaitSet' \in Seq(TpWorker) /\ WaitsOnce'
      /\ \A k \in 1..Len(tpWaitSet') :
            tpWaitSet'[k] # w /\ \E m \in 1..Len(tpWaitSet) : tpWaitSet'[k] = tpWaitSet[m]
  BY <1>2, TakenOut DEF WaitsOnce
<1>4. w \notin tpSignalled /\ \A p \in TpProducer : tpNotified[p] # w
  BY <1>2 DEF WaitersAreWaiting
<1>5. WaitTyped' /\ WaitersAreWaiting'
  BY <1>1, <1>3 DEF WakeUnasked, WaitersAreWaiting, Threads
<1>6. SignalledAreAsleep' /\ NotifiedAreAsleep'
  BY <1>1, <1>4, ThreadPoolAssumption
  DEF WakeUnasked, SignalledAreAsleep, NotifiedAreAsleep, Threads
<1>7. OnTheirWay \subseteq OnTheirWay' /\ Signalling \subseteq Signalling'
  BY <1>1, ThreadPoolAssumption DEF WakeUnasked, OnTheirWay, Signalling, Threads
<1>8. EnoughAreComing'
  BY <1>2, <1>7, NobodyMissing DEF WakeUnasked, TpInv, TpTyped
<1>9. QED
  BY <1>3, <1>5, <1>6, <1>8

\* The producer finds nobody, wakes a worker, or has its event to be set.
LEMMA NotifyWaitInv == ASSUME TpInv, WaitInv, NEW p \in TpProducer, Notify(p) PROVE WaitInv'
<1> USE DEF WaitInv, WaitTyped
<1>1. /\ tpAt[p] = "notify" /\ tpOwner = p /\ tpAt'[p] \in {"unlock", "set"}
      /\ tpAt'[p] = "set" <=> tpPlatform = "win32"
      /\ \A u \in Threads \ {p} : tpAt'[u] = tpAt[u]
  BY DEF Notify, Goes, TpInv, TpTyped, LockIsHeld, Inside, Threads
<1>2. \A w \in TpWorker : w # p /\ w \in Threads \ {p} /\ tpAt'[w] = tpAt[w]
  BY <1>1, ThreadPoolAssumption DEF Threads
<1>3. \A q \in TpProducer : q # p => q \in Threads \ {p} /\ tpAt'[q] = tpAt[q]
  BY <1>1 DEF Threads
<1>4. tpNotified[p] = Nobody
  BY <1>1 DEF NotifiedAreAsleep
<1>5. CASE UNCHANGED <<tpNotified, tpWaitSet, tpSignalled>> /\ tpWaitSet = <<>>
  <2>1. WaitTyped' /\ WaitsOnce' /\ WaitersAreWaiting'
    BY <1>2, <1>5 DEF Notify, WaitsOnce, WaitersAreWaiting
  <2>2. SignalledAreAsleep' /\ NotifiedAreAsleep'
    BY <1>2, <1>3, <1>4, <1>5 DEF Notify, SignalledAreAsleep, NotifiedAreAsleep
  <2>3. EnoughAreComing'
    BY <1>5 DEF EnoughAreComing
  <2>4. QED
    BY <2>1, <2>2, <2>3
<1>6. ASSUME NEW i \in 1..Len(tpWaitSet), tpWaitSet' = RemoveAt(tpWaitSet, i),
             \/ /\ tpPlatform = "posix" /\ tpSignalled' = tpSignalled \cup {tpWaitSet[i]}
                /\ UNCHANGED tpNotified
             \/ /\ tpPlatform = "win32" /\ UNCHANGED tpSignalled
                /\ tpNotified' = [tpNotified EXCEPT ![p] = tpWaitSet[i]]
      PROVE  WaitInv'
  <2> DEFINE w == tpWaitSet[i]
  <2>1. w \in TpWorker /\ tpWaitSet # <<>>
    OBVIOUS
  <2>2. /\ tpAt[w] = "sleep" /\ w \notin tpSignalled
        /\ \A q \in TpProducer : tpNotified[q] # w
    <3>1. tpAt[w] \in {"leave", "sleep"} /\ w \notin tpSignalled
      BY DEF WaitersAreWaiting
    <3>2. tpAt[w] # "leave"
      BY <1>1, <1>2, <2>1 DEF TpInv, LockIsHeld, Inside, Threads
    <3>3. QED
      BY <3>1, <3>2 DEF WaitersAreWaiting
  <2>3. /\ tpWaitSet' \in Seq(TpWorker) /\ WaitsOnce'
        /\ \A k \in 1..Len(tpWaitSet') :
              tpWaitSet'[k] # w /\ \E m \in 1..Len(tpWaitSet) : tpWaitSet'[k] = tpWaitSet[m]
    BY <1>6, TakenOut DEF WaitsOnce
  <2> HIDE DEF w
  <2>4. CASE tpPlatform = "posix"
    <3>1. tpSignalled' = tpSignalled \cup {w} /\ UNCHANGED <<tpNotified, tpPlatform>>
      BY <1>6, <2>4 DEF w, Notify
    <3>2. WaitTyped' /\ WaitersAreWaiting'
      BY <1>2, <2>1, <2>3, <3>1 DEF WaitersAreWaiting
    <3>3. SignalledAreAsleep' /\ NotifiedAreAsleep'
      BY <1>2, <1>3, <2>1, <2>2, <2>4, <3>1 DEF SignalledAreAsleep, NotifiedAreAsleep
    <3>4. w \notin OnTheirWay /\ OnTheirWay' = OnTheirWay \cup {w}
      BY <1>2, <2>1, <2>2, <3>1 DEF OnTheirWay
    <3>5. p \notin Signalling' /\ Signalling = Signalling' \cup {p}
      BY <1>1, <1>3, <1>4, <2>4, <3>1 DEF Signalling
    <3>6. /\ Cardinality(OnTheirWay') = Cardinality(OnTheirWay) + 1
          /\ Cardinality(Signalling) = Cardinality(Signalling') + 1
      <4>1. OnTheirWay \in SUBSET TpWorker /\ Signalling' \in SUBSET TpProducer
        BY DEF OnTheirWay, Signalling
      <4>2. Cardinality(OnTheirWay') = Cardinality(OnTheirWay) + 1
        BY <2>1, <3>4, <4>1, OneMore, ThreadPoolAssumption
      <4>3. Cardinality(Signalling) = Cardinality(Signalling') + 1
        BY <3>5, <4>1, OneMore, ThreadPoolAssumption
      <4>4. QED
        BY <4>2, <4>3
    <3>7. EnoughAreComing'
      BY <2>1, <3>6, Counted DEF EnoughAreComing, Notify, TpInv, TpTyped
    <3>8. QED
      BY <2>3, <3>2, <3>3, <3>7
  <2>5. CASE tpPlatform = "win32"
    <3>1. /\ tpNotified' = [tpNotified EXCEPT ![p] = w] /\ UNCHANGED <<tpSignalled, tpPlatform>>
      BY <1>6, <2>5 DEF w, Notify
    <3>2. \A q \in TpProducer : tpNotified'[q] = IF q = p THEN w ELSE tpNotified[q]
      BY <3>1
    <3>3. WaitTyped' /\ WaitersAreWaiting'
      <4>1. WaitTyped'
        BY <2>1, <2>3, <3>1
      <4>2. ASSUME NEW k \in 1..Len(tpWaitSet')
            PROVE  /\ tpAt'[tpWaitSet'[k]] \in {"leave", "sleep"}
                   /\ tpWaitSet'[k] \notin tpSignalled'
                   /\ \A q \in TpProducer : tpNotified'[q] # tpWaitSet'[k]
        <5>1. PICK m \in 1..Len(tpWaitSet) : tpWaitSet'[k] = tpWaitSet[m]
          BY <2>3
        <5>2. tpWaitSet[m] \in TpWorker /\ tpWaitSet[m] # w
          BY <2>3, <5>1
        <5>3. QED
          BY <1>2, <3>1, <3>2, <5>1, <5>2 DEF WaitersAreWaiting
      <4>3. QED
        BY <4>1, <4>2 DEF WaitersAreWaiting
    <3>4. SignalledAreAsleep' /\ NotifiedAreAsleep'
      BY <1>1, <1>2, <1>3, <2>1, <2>2, <2>5, <3>1, <3>2 DEF SignalledAreAsleep, NotifiedAreAsleep
    <3>5. OnTheirWay \subseteq OnTheirWay'
      BY <1>2, <3>1 DEF OnTheirWay
    <3>6. Signalling \subseteq Signalling'
      BY <1>3, <2>1, <3>2, ThreadPoolAssumption DEF Signalling, Threads
    <3>7. EnoughAreComing'
      BY <2>1, <3>5, <3>6, NobodyMissing DEF Notify, TpInv, TpTyped
    <3>8. QED
      BY <2>3, <3>3, <3>4, <3>7
  <2>6. QED
    BY <2>4, <2>5
<1>7. QED
  BY <1>5, <1>6 DEF Notify, NotifiedOf

\* The event of the worker is set.
LEMMA SetEventWaitInv ==
    ASSUME TpInv, WaitInv, NEW p \in TpProducer, SetEvent(p) PROVE WaitInv'
<1> USE DEF WaitInv, WaitTyped
<1>1. \A u \in Threads : tpAt'[u] = IF u = p THEN "unlock" ELSE tpAt[u]
  BY DEF SetEvent, Goes, TpInv, TpTyped, Threads
<1>2. \A w \in TpWorker : w # p /\ tpAt'[w] = tpAt[w]
  BY <1>1, ThreadPoolAssumption DEF Threads
<1>3. /\ \A q \in TpProducer : tpNotified'[q] = IF q = p THEN Nobody ELSE tpNotified[q]
      /\ tpSignalled' = tpSignalled \cup ({tpNotified[p]} \ {Nobody})
      /\ UNCHANGED <<tpWaitSet, tpPlatform, tpQueue>>
  BY DEF SetEvent
\* It is the only producer at this step.
<1>4. \A q \in TpProducer : q # p => tpNotified[q] = Nobody
  <2> SUFFICES ASSUME NEW q \in TpProducer, q # p, tpNotified[q] # Nobody PROVE FALSE
    OBVIOUS
  <2>1. tpAt[q] = "set" /\ tpAt[p] = "set"
    BY DEF NotifiedAreAsleep, SetEvent
  <2>2. QED
    BY <2>1 DEF TpInv, LockIsHeld, Inside, Threads
<1>5. WaitTyped' /\ WaitsOnce'
  BY <1>3 DEF WaitsOnce, SetEvent
<1>6. WaitersAreWaiting'
  BY <1>2, <1>3, ThreadPoolAssumption DEF WaitersAreWaiting, Threads
<1>7. SignalledAreAsleep' /\ NotifiedAreAsleep'
  BY <1>2, <1>3, <1>4 DEF SignalledAreAsleep, NotifiedAreAsleep
<1>8. EnoughAreComing'
  <2>1. CASE tpNotified[p] = Nobody
    <3>1. OnTheirWay \subseteq OnTheirWay' /\ Signalling \subseteq Signalling'
      BY <1>1, <1>2, <1>3, <2>1 DEF OnTheirWay, Signalling, SetEvent, Threads
    <3>2. QED
      BY <1>3, <3>1, NobodyMissing DEF TpInv, TpTyped
  <2>2. CASE tpNotified[p] # Nobody
    <3> DEFINE w == tpNotified[p]
    <3>1. w \in TpWorker /\ tpAt[w] = "sleep" /\ w \notin tpSignalled
      BY <2>2 DEF NotifiedAreAsleep
    <3>2. w \notin OnTheirWay /\ OnTheirWay' = OnTheirWay \cup {w}
      BY <1>2, <1>3, <2>2, <3>1 DEF OnTheirWay
    <3>3. p \notin Signalling' /\ Signalling = Signalling' \cup {p}
      BY <1>1, <1>3, <2>2 DEF Signalling, Threads
    <3>4. /\ Cardinality(OnTheirWay') = Cardinality(OnTheirWay) + 1
          /\ Cardinality(Signalling) = Cardinality(Signalling') + 1
      <4>1. OnTheirWay \in SUBSET TpWorker /\ Signalling' \in SUBSET TpProducer
        BY DEF OnTheirWay, Signalling
      <4>2. Cardinality(OnTheirWay') = Cardinality(OnTheirWay) + 1
        BY <3>1, <3>2, <4>1, OneMore, ThreadPoolAssumption
      <4>3. Cardinality(Signalling) = Cardinality(Signalling') + 1
        BY <3>3, <4>1, OneMore, ThreadPoolAssumption
      <4>4. QED
        BY <4>2, <4>3
    <3>5. QED
      BY <1>3, <3>4, Counted DEF EnoughAreComing, TpInv, TpTyped
  <2>3. QED
    BY <2>1, <2>2
<1>9. QED
  BY <1>5, <1>6, <1>7, <1>8

-----------------------------------------------------------------------------
\* Nobody waits at first.
LEMMA WaitInitInv == TpInit => WaitInv
BY DEF TpInit, WaitInv, WaitTyped, WaitsOnce, WaitersAreWaiting, SignalledAreAsleep,
   NotifiedAreAsleep, EnoughAreComing

\* Every step of the pool keeps enough workers coming for what is queued.
LEMMA WaitNextInv == TpInv /\ WaitInv /\ [TpNext]_tpVars => WaitInv'
<1> SUFFICES ASSUME TpInv, WaitInv, [TpNext]_tpVars PROVE WaitInv'
  OBVIOUS
<1> USE DEF Steps, Threads
<1>1. ASSUME NEW t \in Threads, TpLock(t) PROVE WaitInv'
  BY <1>1, PassingInv DEF TpLock
<1>2. ASSUME NEW t \in Threads, TpUnlock(t) PROVE WaitInv'
  BY <1>2, PassingInv DEF TpUnlock
<1>3. ASSUME NEW w \in TpWorker, Test(w) PROVE WaitInv'
  BY <1>3, PassingInv DEF Test
<1>4. ASSUME NEW w \in TpWorker, Leave(w) PROVE WaitInv'
  BY <1>4, PassingInv DEF Leave
<1>5. ASSUME NEW w \in TpWorker, Enter(w) PROVE WaitInv'
  BY <1>5, PassingInv DEF Enter, NextStep
<1>6. ASSUME NEW w \in TpWorker, Run(w) PROVE WaitInv'
  BY <1>6, PassingInv DEF Run
<1>7. CASE UNCHANGED tpVars
  BY <1>7 DEF tpVars, WaitInv, WaitTyped, WaitsOnce, WaitersAreWaiting, SignalledAreAsleep,
     NotifiedAreAsleep, EnoughAreComing, OnTheirWay, Signalling
<1>8. QED
  BY <1>1, <1>2, <1>3, <1>4, <1>5, <1>6, <1>7, InsertWaitInv, NotifyWaitInv, SetEventWaitInv,
     TakeWaitInv, PushWaitInv, WakeWaitInv, WakeUnaskedWaitInv DEF TpNext

\* As long as a worker sleeps that nobody has signalled, every task that waits has
\* a worker on its way to it, or a producer about to signal one: the signal of
\* insert_task_thread_pool is never given in vain, however the threads interleave
\* with the steps of wait_condition and notify_condition.
THEOREM NobodySleepsThrough == TpSpec => []NoneSleepsThrough
<1>1. TpInv /\ WaitInv => NoneSleepsThrough
  <2> SUFFICES ASSUME TpInv, WaitInv, ToSet(tpWaitSet) # {} PROVE tpWaitSet # <<>>
    BY DEF NoneSleepsThrough, WaitInv, EnoughAreComing
  <2>1. QED
    BY DEF ToSet
<1>2. QED
  BY TpInitInv, TpNextInv, WaitInitInv, WaitNextInv, <1>1, PTL DEF TpSpec

\* Both together, which is what is asked of a pool: every task that is queued is taken
\* by one worker, and none is left waiting while a worker sleeps unsignalled.
THEOREM EveryTaskIsServed == TpSpec => []TasksAreServed
BY TasksAreTaken, NobodySleepsThrough, PTL DEF TasksAreServed

-----------------------------------------------------------------------------
(* The modules and the interfaces that the service loads.                  *)

\* The asgi interface is not there, with what its application was told, or is started.
AsgiState == {"state", "application", "loop", "started", "registered", "references", "told", "cycle"}

\* The one of an interface in the middle of its starting or of its stop.
AsgiIs(s, state, application, loop, started, registered, references, told, cycle) ==
    /\ DOMAIN s = AsgiState
    /\ s.state = state /\ s.application = application /\ s.loop = loop /\ s.started = started
    /\ s.registered = registered /\ s.references = references /\ s.told = told /\ s.cycle = cycle

AsgiAbsent(s) ==
    \E told \in {<<>>, <<"startup">>, <<"startup", "shutdown">>} :
        AsgiIs(s, FALSE, FALSE, FALSE, FALSE, FALSE, 0, told, FALSE)
AsgiStarted(s) == AsgiIs(s, TRUE, TRUE, TRUE, TRUE, TRUE, 2, <<"startup">>, TRUE)

AsgiStages == {"not named", "no application", "no loop", "refused", "started"}

\* What is told next is told last.
LEMMA AsgiToldNext ==
    Append(<<>>, "startup") = <<"startup">> /\ Append(<<"startup">>, "shutdown") = <<"startup", "shutdown">>
<1>1. <<>> \in Seq({"startup", "shutdown"}) /\ <<"startup">> \in Seq({"startup", "shutdown"})
  OBVIOUS
<1>2. <<"startup">> \o <<"shutdown">> = <<"startup", "shutdown">>
  BY OneAndOne
<1>3. Append(<<"startup">>, "shutdown") = <<"startup">> \o <<"shutdown">>
  BY <1>1, JoinedToNothing
<1>4. Append(<<>>, "startup") = <<>> \o <<"startup">>
  BY <1>1, JoinedToNothing
<1>5. <<>> \o <<"startup">> = <<"startup">>
  BY <1>1, JoinedToNothing
<1>. QED BY <1>2, <1>3, <1>4, <1>5

\* The stop of an interface that started leaves what was told, and that of one that is not
\* there changes nothing.
LEMMA AsgiStopped ==
    /\ \A s : AsgiAbsent(s) => StopAsgi(s) = s
    /\ \A s : AsgiStarted(s) => AsgiAbsent(StopAsgi(s))
<1>1. ASSUME NEW s, AsgiAbsent(s) PROVE StopAsgi(s) = s
  <2>1. s.state = FALSE
    BY <1>1 DEF AsgiAbsent, AsgiIs
  <2>. QED BY <2>1 DEF StopAsgi
<1>2. ASSUME NEW s, AsgiStarted(s) PROVE AsgiAbsent(StopAsgi(s))
  <2>1. PICK t : t = CycleGivenBack(s)
    OBVIOUS
  <2>2. AsgiIs(t, TRUE, TRUE, TRUE, TRUE, TRUE, 2, <<"startup">>, FALSE)
    BY <1>2, <2>1 DEF CycleGivenBack, AsgiStarted, AsgiIs, AsgiState
  <2>3. PICK u : u = Told(t, "shutdown")
    OBVIOUS
  <2>4. AsgiIs(u, TRUE, TRUE, TRUE, TRUE, TRUE, 2, <<"startup", "shutdown">>, FALSE)
    BY <2>2, <2>3, AsgiToldNext DEF Told, AsgiIs, AsgiState
  <2>5. PICK v : v = ShutDown(t)
    OBVIOUS
  <2>6. AsgiIs(v, TRUE, TRUE, TRUE, FALSE, TRUE, 2, <<"startup", "shutdown">>, FALSE)
    BY <2>2, <2>3, <2>4, <2>5 DEF ShutDown, AsgiIs, AsgiState
  <2>7. PICK w : w = Unregister(v)
    OBVIOUS
  <2>8. AsgiIs(w, TRUE, TRUE, TRUE, FALSE, FALSE, 1, <<"startup", "shutdown">>, FALSE)
    BY <2>6, <2>7 DEF Unregister, AsgiIs, AsgiState
  <2>9. AsgiIs(AsgiReleased(w), FALSE, FALSE, FALSE, FALSE, FALSE, 0, <<"startup", "shutdown">>, FALSE)
    BY <2>8 DEF AsgiReleased, AsgiIs, AsgiState
  <2>10. StopAsgi(s) = AsgiReleased(w)
    <3>1. s.state = TRUE /\ v.loop = TRUE
      BY <1>2, <2>6 DEF AsgiStarted, AsgiIs
    <3>. QED BY <2>1, <2>5, <2>7, <3>1 DEF StopAsgi
  <2>. QED BY <2>9, <2>10 DEF AsgiAbsent
<1>. QED BY <1>1, <1>2

\* A stop of one that did not start: it tells nothing.
LEMMA AsgiUndone ==
    ASSUME NEW s,
           \/ AsgiIs(s, TRUE, FALSE, FALSE, FALSE, FALSE, 0, <<>>, FALSE)
           \/ AsgiIs(s, TRUE, TRUE, FALSE, FALSE, FALSE, 1, <<>>, FALSE)
           \/ AsgiIs(s, TRUE, TRUE, TRUE, FALSE, FALSE, 1, <<"startup">>, FALSE)
    PROVE  AsgiAbsent(StopAsgi(s))
<1>0. PICK application \in BOOLEAN, loop \in BOOLEAN, references \in Int, told \in {<<>>, <<"startup">>} :
          /\ AsgiIs(s, TRUE, application, loop, FALSE, FALSE, references, told, FALSE)
          /\ references = IF application THEN 1 ELSE 0
  <2>1. CASE AsgiIs(s, TRUE, FALSE, FALSE, FALSE, FALSE, 0, <<>>, FALSE)
    <3>. WITNESS FALSE \in BOOLEAN, FALSE \in BOOLEAN, 0 \in Int, <<>> \in {<<>>, <<"startup">>}
    <3>. QED BY <2>1
  <2>2. CASE AsgiIs(s, TRUE, TRUE, FALSE, FALSE, FALSE, 1, <<>>, FALSE)
    <3>. WITNESS TRUE \in BOOLEAN, FALSE \in BOOLEAN, 1 \in Int, <<>> \in {<<>>, <<"startup">>}
    <3>. QED BY <2>2
  <2>3. CASE AsgiIs(s, TRUE, TRUE, TRUE, FALSE, FALSE, 1, <<"startup">>, FALSE)
    <3>. WITNESS TRUE \in BOOLEAN, TRUE \in BOOLEAN, 1 \in Int, <<"startup">> \in {<<>>, <<"startup">>}
    <3>. QED BY <2>3
  <2>. QED BY <2>1, <2>2, <2>3
<1>1. PICK t : t = CycleGivenBack(s)
  OBVIOUS
<1>2. AsgiIs(t, TRUE, application, loop, FALSE, FALSE, references, told, FALSE)
  BY <1>0, <1>1 DEF CycleGivenBack, AsgiIs, AsgiState
<1>3. ShutDown(t) = t /\ Unregister(t) = t
  BY <1>2 DEF ShutDown, Unregister, AsgiIs
<1>4. AsgiIs(AsgiReleased(t), FALSE, FALSE, FALSE, FALSE, FALSE, 0, told, FALSE)
  BY <1>0, <1>2 DEF AsgiReleased, AsgiIs, AsgiState
<1>5. StopAsgi(s) = AsgiReleased(t)
  <2>1. s.state = TRUE
    BY <1>0 DEF AsgiIs
  <2>. QED BY <1>1, <1>3, <2>1 DEF StopAsgi
<1>. QED BY <1>0, <1>4, <1>5 DEF AsgiAbsent

\* Whatever stage of the starting fails, nothing but what was told is left.
LEMMA AsgiStartedOrNot ==
    ASSUME NEW stage \in AsgiStages
    PROVE  AsgiAbsent(StartAsgi(stage)) \/ AsgiStarted(StartAsgi(stage))
<1>. DEFINE state == [NoAsgi EXCEPT !.state = TRUE]
            loaded == [state EXCEPT !.application = TRUE, !.references = 1]
            looped == [loaded EXCEPT !.loop = TRUE]
            told == Told(Register(looped), "startup")
<1>0. AsgiIs(NoAsgi, FALSE, FALSE, FALSE, FALSE, FALSE, 0, <<>>, FALSE)
  BY DEF NoAsgi, AsgiIs, AsgiState
<1>1. AsgiIs(state, TRUE, FALSE, FALSE, FALSE, FALSE, 0, <<>>, FALSE)
  BY <1>0 DEF AsgiIs, AsgiState
<1>. HIDE DEF state
<1>2. AsgiIs(loaded, TRUE, TRUE, FALSE, FALSE, FALSE, 1, <<>>, FALSE)
  BY <1>1 DEF AsgiIs, AsgiState
<1>. HIDE DEF loaded
<1>3. AsgiIs(looped, TRUE, TRUE, TRUE, FALSE, FALSE, 1, <<>>, FALSE)
  BY <1>2 DEF AsgiIs, AsgiState
<1>. HIDE DEF looped
<1>4. AsgiIs(told, TRUE, TRUE, TRUE, FALSE, TRUE, 2, <<"startup">>, FALSE)
  <2>1. PICK r : r = Register(looped)
    OBVIOUS
  <2>2. AsgiIs(r, TRUE, TRUE, TRUE, FALSE, TRUE, 2, <<>>, FALSE)
    BY <1>3, <2>1 DEF Register, AsgiIs, AsgiState
  <2>3. told = Told(r, "startup")
    BY <2>1
  <2>. QED BY <2>2, <2>3, AsgiToldNext DEF Told, AsgiIs, AsgiState
<1>. HIDE DEF told
<1>5. CASE stage = "not named"
  <2>1. StartAsgi(stage) = NoAsgi
    BY <1>5 DEF StartAsgi
  <2>. QED BY <1>0, <2>1 DEF AsgiAbsent
<1>6. CASE stage = "no application"
  <2>1. StartAsgi(stage) = StopAsgi(state)
    BY <1>6 DEF StartAsgi, state
  <2>. QED BY <1>1, <2>1, AsgiUndone
<1>7. CASE stage = "no loop"
  <2>1. StartAsgi(stage) = StopAsgi(loaded)
    BY <1>7 DEF StartAsgi, state, loaded
  <2>. QED BY <1>2, <2>1, AsgiUndone
<1>8. CASE stage = "refused"
  <2>1. PICK u : u = Unregister(told)
    OBVIOUS
  <2>2. StartAsgi(stage) = StopAsgi(u)
    BY <1>8, <2>1 DEF StartAsgi, state, loaded, looped, told
  <2>3. AsgiIs(u, TRUE, TRUE, TRUE, FALSE, FALSE, 1, <<"startup">>, FALSE)
    BY <1>4, <2>1 DEF Unregister, AsgiIs, AsgiState
  <2>. QED BY <2>2, <2>3, AsgiUndone
<1>9. CASE stage = "started"
  <2>1. StartAsgi(stage) = [told EXCEPT !.started = TRUE, !.cycle = TRUE]
    BY <1>9 DEF StartAsgi, state, loaded, looped, told
  <2>2. AsgiIs([told EXCEPT !.started = TRUE, !.cycle = TRUE],
               TRUE, TRUE, TRUE, TRUE, TRUE, 2, <<"startup">>, TRUE)
    BY <1>4 DEF AsgiIs, AsgiState
  <2>. QED BY <2>1, <2>2 DEF AsgiStarted
<1>. QED BY <1>5, <1>6, <1>7, <1>8, <1>9 DEF AsgiStages
-----------------------------------------------------------------------------
\* What keeps the modules sound: the libraries that are in the process are those of the list,
\* each of them once and none still to be loaded, and the asgi interface is started only
\* while its module is one of them.
ModulesInv ==
    /\ mdStatus \in {"opening", "open", "closed", "over"}
    /\ mdToLoad \in Seq(Range(MdModules)) /\ IsInjective(mdToLoad)
    /\ mdList \in Seq(Range(MdModules)) /\ IsInjective(mdList)
    /\ ToSet(mdToLoad) \cap ToSet(mdList) = {}
    /\ mdLibrary = ToSet(mdList)
    /\ mdHandlers \subseteq OfLoaded
    /\ AsgiAbsent(mdAsgi) \/ AsgiStarted(mdAsgi)
    /\ AsgiStarted(mdAsgi) => "python" \in mdLibrary
    /\ mdStatus \in {"closed", "over"} => mdNext = 1
    /\ mdServing \in [MdConnection -> HandlersMap \cup {None}]
    /\ mdStatus # "open" => mdServing = ConnectionsClosed
    /\ mdStatus = "over" => mdList = <<>> /\ mdHandlers = {}

\* What an interface that is not started lacks.
LEMMA AsgiFields ==
    /\ \A s : AsgiAbsent(s) =>
          /\ ~ AsgiStarted(s) /\ ~s.registered /\ ~s.cycle /\ ~s.started /\ s.references = 0
          /\ s.told \in {<<>>, <<"startup">>, <<"startup", "shutdown">>}
    /\ \A s : AsgiStarted(s) =>
          s.registered /\ s.loop /\ s.started /\ s.references = 2 /\ s.told = <<"startup">>
  BY DEF AsgiAbsent, AsgiStarted, AsgiIs

\* The three parts of what the modules keep follow.
LEMMA ModulesInvIsSound == ASSUME ModulesInv PROVE ModulesAreSound
<1>1. mdAsgi.registered => "python" \in mdLibrary
  BY AsgiFields DEF ModulesInv
<1>2. HandlersMap \subseteq OfLoaded
  <2>1. "python" \in mdLibrary => "asgi" \in OfLoaded
    BY DEF OfLoaded, HandlersOf
  <2>. QED BY <1>1, <2>1 DEF HandlersMap, ModulesInv
<1>3. HandlersAreOfTheLoaded
  <2>1. mdAsgi.cycle => "python" \in mdLibrary /\ mdAsgi.loop
    BY AsgiFields DEF ModulesInv
  <2>. QED BY <1>2, <2>1 DEF HandlersAreOfTheLoaded, ModulesInv
<1>4. NothingIsLeft
  <2>1. SUFFICES ASSUME mdStatus = "over"
                 PROVE  mdList = <<>> /\ mdLibrary = {} /\ HandlersMap = {} /\ mdAsgi.references = 0
    BY DEF NothingIsLeft
  <2>2. mdList = <<>> /\ mdLibrary = {} /\ mdHandlers = {}
    BY <2>1, SetOfNone DEF ModulesInv
  <2>3. AsgiAbsent(mdAsgi)
    BY <2>2 DEF ModulesInv
  <2>. QED BY <2>2, <2>3, AsgiFields DEF HandlersMap
<1>5. ShutdownOfTheStarted
  <2>1. mdStatus = "over" => mdLibrary = {}
    BY SetOfNone DEF ModulesInv
  <2>. QED BY <2>1, AsgiFields DEF ShutdownOfTheStarted, ModulesInv
<1>. QED BY <1>3, <1>4, <1>5 DEF ModulesAreSound

\* One library is loaded.
LEMMA LoadedKeeps ==
    ASSUME ModulesInv, NEW m \in Range(MdModules), Loading(m)
    PROVE  /\ Tail(mdToLoad) \in Seq(Range(MdModules)) /\ IsInjective(Tail(mdToLoad))
           /\ ToSet(Tail(mdToLoad)) \subseteq ToSet(mdToLoad)
           /\ Append(mdList, m) \in Seq(Range(MdModules)) /\ IsInjective(Append(mdList, m))
           /\ ToSet(Append(mdList, m)) = ToSet(mdList) \cup {m}
           /\ ToSet(Tail(mdToLoad)) \cap ToSet(Append(mdList, m)) = {}
<1>1. /\ mdToLoad \in Seq(Range(MdModules)) /\ IsInjective(mdToLoad) /\ mdToLoad # <<>> /\ m = Head(mdToLoad)
      /\ mdList \in Seq(Range(MdModules)) /\ IsInjective(mdList) /\ ToSet(mdToLoad) \cap ToSet(mdList) = {}
  BY DEF ModulesInv, Loading
<1>2. Tail(mdToLoad) \in Seq(Range(MdModules)) /\ ToSet(mdToLoad) = {m} \cup ToSet(Tail(mdToLoad))
  BY <1>1, HeadAndRest
<1>3. IsInjective(Tail(mdToLoad)) /\ m \notin ToSet(Tail(mdToLoad))
  BY <1>1, RestIsInjective
<1>4. /\ Append(mdList, m) \in Seq(Range(MdModules)) /\ ToSet(Append(mdList, m)) = ToSet(mdList) \cup {m}
      /\ m \notin ToSet(mdList) => IsInjective(Append(mdList, m))
  BY <1>1, Appended
<1>. QED BY <1>1, <1>2, <1>3, <1>4

\* Every step keeps it.
LEMMA ModulesStep ==
    ASSUME ModulesInv, [MdNext]_mdVars
    PROVE  ModulesInv'
<1>. DEFINE R == Range(MdModules)
<1>1. CASE LoadFails
  <2>1. PICK m \in R : Loading(m)
    BY <1>1 DEF LoadFails
  <2>2. /\ Tail(mdToLoad) \in Seq(R) /\ IsInjective(Tail(mdToLoad))
        /\ ToSet(Tail(mdToLoad)) \subseteq ToSet(mdToLoad)
    BY <2>1, LoadedKeeps
  <2>. QED BY <1>1, <2>2 DEF LoadFails, ModulesInv, OfLoaded, HandlersMap, ConnectionsClosed
<1>2. ASSUME NEW m \in R, Loading(m), Loaded(m), NEW H, H \subseteq HandlersOf(m),
             mdHandlers' = mdHandlers \cup H,
             AsgiAbsent(mdAsgi') \/ AsgiStarted(mdAsgi'), mdAsgi' = mdAsgi \/ m = "python"
      PROVE  ModulesInv'
  <2>1. mdStatus = "opening" /\ mdServing = [c \in MdConnection |-> None]
    BY <1>2 DEF Loading, ModulesInv, ConnectionsClosed
  <2>2. /\ mdLibrary' = mdLibrary \cup {m} /\ mdList' = Append(mdList, m) /\ mdToLoad' = Tail(mdToLoad)
        /\ mdStatus' = mdStatus /\ mdNext' = mdNext /\ mdServing' = mdServing
    BY <1>2 DEF Loaded
  <2>3. /\ mdToLoad' \in Seq(R) /\ IsInjective(mdToLoad') /\ mdList' \in Seq(R) /\ IsInjective(mdList')
        /\ ToSet(mdToLoad') \cap ToSet(mdList') = {} /\ ToSet(mdList') = ToSet(mdList) \cup {m}
    BY <1>2, <2>2, LoadedKeeps
  <2>4. mdHandlers' \subseteq OfLoaded'
    BY <1>2, <2>2 DEF ModulesInv, OfLoaded
  <2>5. AsgiStarted(mdAsgi') => "python" \in mdLibrary'
    BY <1>2, <2>2 DEF ModulesInv
  <2>6. mdServing' = [c \in MdConnection |-> None] /\ mdServing' \in [MdConnection -> HandlersMap' \cup {None}]
    BY <2>1, <2>2
  <2>. QED BY <1>2, <2>1, <2>2, <2>3, <2>4, <2>5, <2>6 DEF ModulesInv, ConnectionsClosed
<1>3. CASE LoadModule
  <2>1. PICK m \in R \ {"python"} : /\ Loading(m) /\ Loaded(m)
                                    /\ mdHandlers' = mdHandlers \cup HandlersOf(m) /\ mdAsgi' = mdAsgi
    BY <1>3 DEF LoadModule
  <2>. QED BY <1>2, <2>1 DEF ModulesInv
<1>4. CASE LoadPython
  <2>1. Loading("python") /\ Loaded("python")
    BY <1>4 DEF LoadPython
  <2>2. "python" \in R
    <3>1. mdToLoad \in Seq(R) /\ mdToLoad # <<>> /\ "python" = Head(mdToLoad)
      BY <2>1 DEF Loading, ModulesInv
    <3>2. Head(mdToLoad) \in R
      BY <3>1, HeadAndRest
    <3>. QED BY <3>1, <3>2
  <2>3. CASE UNCHANGED <<mdHandlers, mdAsgi>>
    <3>1. mdHandlers' = mdHandlers \cup {} /\ {} \subseteq HandlersOf("python")
      BY <2>3
    <3>2. AsgiAbsent(mdAsgi') \/ AsgiStarted(mdAsgi')
      BY <2>3 DEF ModulesInv
    <3>. QED BY <1>2, <2>1, <2>2, <3>1, <3>2
  <2>4. CASE ~ UNCHANGED <<mdHandlers, mdAsgi>>
    <3>1. mdHandlers' = mdHandlers \cup {"wsgi"} /\ \E stage \in AsgiStages : mdAsgi' = StartAsgi(stage)
      BY <1>4, <2>4 DEF LoadPython, AsgiStages
    <3>2. AsgiAbsent(mdAsgi') \/ AsgiStarted(mdAsgi')
      BY <3>1, AsgiStartedOrNot
    <3>3. {"wsgi"} \subseteq HandlersOf("python")
      BY DEF HandlersOf
    <3>. QED BY <1>2, <2>1, <2>2, <3>1, <3>2, <3>3
  <2>. QED BY <2>3, <2>4
<1>5. CASE Opens
  <2>1. mdStatus = "opening" /\ mdServing = ConnectionsClosed /\ mdStatus' \in {"open", "closed"}
        /\ (mdStatus' = "closed" => mdNext' = 1)
    BY <1>5 DEF Opens, ModulesInv
  <2>. QED BY <1>5, <2>1 DEF Opens, ModulesInv, OfLoaded, HandlersMap, ConnectionsClosed
<1>6. ASSUME NEW c \in MdConnection, Serves(c) PROVE ModulesInv'
  <2>1. /\ mdStatus = "open" /\ mdStatus' = mdStatus /\ mdHandlers' = mdHandlers /\ mdAsgi' = mdAsgi
        /\ mdLibrary' = mdLibrary /\ mdToLoad' = mdToLoad /\ mdList' = mdList /\ mdNext' = mdNext
    BY <1>6 DEF Serves
  <2>2. PICK h \in HandlersMap \cup {None} : mdServing' = [mdServing EXCEPT ![c] = h]
    BY <1>6 DEF Serves
  <2>3. HandlersMap' = HandlersMap
    BY <2>1 DEF HandlersMap
  <2>4. mdServing' \in [MdConnection -> HandlersMap' \cup {None}]
    BY <2>2, <2>3 DEF ModulesInv
  <2>. QED BY <2>1, <2>4 DEF ModulesInv, OfLoaded
<1>7. CASE Closes
  <2>1. /\ mdStatus' = "closed" /\ mdNext' = 1 /\ mdServing' = ConnectionsClosed
        /\ mdToLoad' = mdToLoad /\ mdList' = mdList /\ mdLibrary' = mdLibrary /\ mdHandlers' = mdHandlers
        /\ mdAsgi' = mdAsgi
    BY <1>7 DEF Closes
  <2>2. mdServing' \in [MdConnection -> HandlersMap' \cup {None}]
    BY <2>1 DEF ConnectionsClosed
  <2>. QED BY <2>1, <2>2 DEF ModulesInv, OfLoaded, ConnectionsClosed
<1>8. ASSUME NEW m \in R, Unload(m) PROVE ModulesInv'
  <2>1. /\ mdStatus = "closed" /\ mdNext = 1 /\ mdNext \in DOMAIN mdList /\ m = mdList[mdNext]
        /\ mdList \in Seq(R) /\ IsInjective(mdList) /\ mdServing = ConnectionsClosed
    BY <1>8 DEF Unload, ModulesInv
  <2>2. /\ mdNext' = mdNext /\ mdList' = RemoveAt(mdList, mdNext) /\ mdHandlers' = mdHandlers \ HandlersOf(m)
        /\ mdLibrary' = mdLibrary \ {m} /\ mdStatus' = mdStatus /\ mdToLoad' = mdToLoad
        /\ mdServing' = mdServing
        /\ mdAsgi' = IF m = "python" THEN StopAsgi(mdAsgi) ELSE mdAsgi
    BY <1>8 DEF Unload, AfterTheReturned, Removed
  <2>3. mdList' \in Seq(R) /\ IsInjective(mdList') /\ ToSet(mdList') = ToSet(mdList) \ {m}
    <3>1. PICK t, i : t = mdList /\ i = mdNext
      OBVIOUS
    <3>2. t \in Seq(R) /\ i \in 1..Len(t) /\ IsInjective(t) /\ t[i] = m
      BY <2>1, <3>1
    <3>3. RemoveAt(t, i) \in Seq(R) /\ IsInjective(RemoveAt(t, i)) /\ ToSet(RemoveAt(t, i)) = ToSet(t) \ {t[i]}
      BY <3>2, RemovedAt
    <3>. QED BY <2>2, <3>1, <3>2, <3>3
  <2>4. mdHandlers' \subseteq OfLoaded'
    BY <2>2 DEF ModulesInv, OfLoaded
  <2>5. (AsgiAbsent(mdAsgi') \/ AsgiStarted(mdAsgi')) /\ (m = "python" => AsgiAbsent(mdAsgi'))
    BY <2>2, AsgiStopped DEF ModulesInv
  <2>6. AsgiStarted(mdAsgi') => "python" \in mdLibrary'
    <3>1. AsgiStarted(mdAsgi') => m # "python" /\ mdAsgi' = mdAsgi
      BY <2>2, <2>5, AsgiFields
    <3>. QED BY <2>2, <3>1 DEF ModulesInv
  <2>7. mdServing' = ConnectionsClosed' /\ mdServing' \in [MdConnection -> HandlersMap' \cup {None}]
    BY <2>1, <2>2 DEF ConnectionsClosed
  <2>. QED BY <2>1, <2>2, <2>3, <2>4, <2>5, <2>6, <2>7 DEF ModulesInv
<1>9. CASE UnregisterLocal
  <2>1. /\ mdStatus = "closed" /\ mdNext = 1 /\ mdNext \notin DOMAIN mdList /\ mdList \in Seq(R)
        /\ mdStatus' = "over" /\ mdHandlers' = mdHandlers \ Local
        /\ mdToLoad' = mdToLoad /\ mdList' = mdList /\ mdNext' = mdNext /\ mdLibrary' = mdLibrary
        /\ mdServing' = mdServing /\ mdAsgi' = mdAsgi /\ mdServing = ConnectionsClosed
    BY <1>9 DEF UnregisterLocal, ModulesInv
  <2>2. mdList = <<>>
    BY <2>1
  <2>3. mdLibrary = {}
    BY <2>2, SetOfNone DEF ModulesInv
  <2>4. mdHandlers' = {}
    BY <2>1, <2>3 DEF ModulesInv, OfLoaded
  <2>5. mdServing' = ConnectionsClosed' /\ mdServing' \in [MdConnection -> HandlersMap' \cup {None}]
    BY <2>1 DEF ConnectionsClosed
  <2>. QED BY <2>1, <2>2, <2>4, <2>5 DEF ModulesInv, OfLoaded
<1>10. CASE UNCHANGED mdVars
  BY <1>10 DEF mdVars, ModulesInv, OfLoaded, HandlersMap, ConnectionsClosed
<1>. QED BY <1>1, <1>3, <1>4, <1>5, <1>6, <1>7, <1>8, <1>9, <1>10 DEF MdNext

\* Loading that fails at any step and unloading in any order leave nothing of a module
\* behind that is used after it.
THEOREM TheModulesAreSound == MdSpec => []ModulesAreSound
<1>1. MdInit => ModulesInv
  <2>1. SUFFICES ASSUME MdInit PROVE ModulesInv
    OBVIOUS
  <2>2. IsInjective(<<>>) /\ <<>> \in Seq(Range(MdModules)) /\ ToSet(<<>>) = {}
    BY SetOfNone DEF IsInjective
  <2>3. AsgiAbsent(mdAsgi)
    BY <2>1 DEF MdInit, AsgiAbsent, AsgiIs, AsgiState, NoAsgi
  <2>4. mdServing = ConnectionsClosed /\ mdServing \in [MdConnection -> HandlersMap \cup {None}]
    BY <2>1 DEF MdInit, ConnectionsClosed
  <2>. QED BY <2>1, <2>2, <2>3, <2>4, ModulesAssumption, AsgiFields DEF MdInit, ModulesInv, OfLoaded
<1>2. ModulesInv /\ [MdNext]_mdVars => ModulesInv'
  BY ModulesStep
<1>3. ModulesInv => ModulesAreSound
  BY ModulesInvIsSound
<1>. QED BY <1>1, <1>2, <1>3, PTL DEF MdSpec

-----------------------------------------------------------------------------
(* The rounds over select.                                                 *)

\* The types of what the polling keeps.
ConnectionType ==
    [status : {"NEW", "OPEN", "CLOSED", "FREED"}, handle : Nat, writeValid : BOOLEAN,
     writeRegistered : BOOLEAN, isOutstanding : BOOLEAN, queued : Nat]
OfTheRound == {"select", "call", "reap"}
OfConnections == {"read", "write", "readable", "writable", "send", "handler"}
RoundTask == [op : OfTheRound \cup OfConnections, conn : SlConn, n : Nat]
BuffersType == [read : Seq(SlConn), write : Seq(SlConn)]
SlTypes ==
    /\ slConn \in [SlConn -> ConnectionType]
    /\ slList \in Seq(SlConn)
    /\ slWatched \in [read : SUBSET Nat, write : SUBSET Nat]
    /\ slReady \in BuffersType /\ slOutstanding \in BuffersType
    /\ slRemoval \in Seq(SlConn)
    /\ slTodo \in Seq(RoundTask)

\* The list holds what is open, and no two of these have the same handle.
ListedInv ==
    /\ IsInjective(slList)
    /\ \A c \in SlConn : c \in ToSet(slList) <=> SlIsOpen(c)
    /\ \A c \in SlConn : SlIsOpen(c) => slConn[c].handle \in SlHandle
    /\ \A c, d \in SlConn : SlIsOpen(c) /\ SlIsOpen(d) /\ slConn[c].handle = slConn[d].handle => c = d

\* What a connection that is opened, or has something queued, is registered for.
RegisteredInv ==
    \A c \in SlConn :
        /\ slConn[c].status = "NEW" => ~ slConn[c].writeRegistered
        /\ slConn[c].queued > 0 => slConn[c].writeRegistered

\* What is left outstanding is open, once each.
OutstandingInv ==
    /\ IsInjective(slOutstanding.read) /\ IsInjective(slOutstanding.write)
    /\ \A c \in ToSet(slOutstanding.read) : SlIsOpen(c) /\ slConn[c].isOutstanding
    /\ \A c \in ToSet(slOutstanding.write) : SlIsOpen(c)

\* Only what was closed is deleted, and at the end of a round, when nothing else is left of it.
RemovalInv == \A c \in ToSet(slRemoval) : slConn[c].status = "CLOSED"
TodoInv ==
    \A i \in 1..Len(slTodo) :
        /\ slTodo[i].op \in OfConnections => slConn[slTodo[i].conn].status # "FREED"
        /\ slTodo[i].op \in {"call", "reap"} => i = Len(slTodo)
        /\ slTodo[i].op = "select" => i + 1 = Len(slTodo) /\ slTodo[i + 1].op = "call"
        /\ slTodo[i].op = "call" /\ i # 1 => slTodo[i - 1].op = "select"
ReadyInv ==
    SlRunning("call") =>
        \A c \in ToSet(slReady.read) \cup ToSet(slReady.write) : slConn[c].status # "FREED"

SlInv ==
    /\ SlTypes /\ ListedInv /\ RegisteredInv /\ BitsOfTheOwner
    /\ OutstandingInv /\ RemovalInv /\ TodoInv /\ ReadyInv

\* A bit of arithmetic is a number, and the buffers are empty at first.
LEMMA NoBuffersAre == NoBuffers \in BuffersType /\ NoBuffers.read = <<>> /\ NoBuffers.write = <<>>
  BY DEF NoBuffers, BuffersType

\* The first connection and the lowest handle.
LEMMA TheFirst == Listener \in SlConn /\ Min(SlHandle) \in SlHandle
  BY SelectAssumption, MinIsLeast DEF Listener

\* Nothing is in an empty buffer.
LEMMA NothingTwice == IsInjective(<<>>) /\ ToSet(<<>>) = {} /\ Len(<<>>) = 0
  BY SetOfNone DEF IsInjective

\* The polling starts with the connection of the service.
LEMMA SelectStarts == ASSUME SlInit PROVE SlInv
<1>1. NotOpened \in ConnectionType
  BY DEF NotOpened, ConnectionType
<1>2. PICK h : h = Min(SlHandle) /\ h \in SlHandle /\ h \in Nat
  BY TheFirst, SelectAssumption
<1>3. PICK k : k = [NotOpened EXCEPT !.status = "OPEN", !.handle = h]
  OBVIOUS
<1>4. k \in ConnectionType /\ k.status = "OPEN" /\ k.handle = h /\ ~ k.writeRegistered /\ k.queued = 0
  BY <1>2, <1>3 DEF NotOpened, ConnectionType
<1>5. NotOpened.status = "NEW" /\ ~ NotOpened.writeRegistered /\ NotOpened.queued = 0
  BY DEF NotOpened
<1>6. /\ DOMAIN slConn = SlConn /\ slConn \in [SlConn -> ConnectionType]
      /\ \A c \in SlConn : slConn[c] = IF c = Listener THEN k ELSE NotOpened
  BY <1>1, <1>2, <1>3, <1>4 DEF SlInit
<1>7. \A c \in SlConn : SlIsOpen(c) <=> c = Listener
  BY <1>4, <1>5, <1>6 DEF SlIsOpen
<1>8. /\ slList \in Seq(SlConn) /\ IsInjective(slList) /\ ToSet(slList) = {Listener}
  BY TheFirst, SetOfOne DEF SlInit, IsInjective
<1>9. slReady = NoBuffers /\ slOutstanding = NoBuffers /\ slRemoval = <<>> /\ slTodo = <<>>
      /\ slWatched = [read |-> {h}, write |-> {}]
  BY <1>2 DEF SlInit
<1>10. SlTypes
  BY <1>2, <1>6, <1>8, <1>9, NoBuffersAre DEF SlTypes
<1>11. ListedInv
  BY <1>2, <1>4, <1>6, <1>7, <1>8, TheFirst DEF ListedInv
<1>12. RegisteredInv
  BY <1>4, <1>5, <1>6 DEF RegisteredInv
<1>13. BitsOfTheOwner
  BY <1>4, <1>6, <1>8, <1>9, TheFirst DEF BitsOfTheOwner
<1>14. OutstandingInv /\ RemovalInv
  BY <1>9, NoBuffersAre, NothingTwice DEF OutstandingInv, RemovalInv
<1>15. TodoInv /\ ReadyInv
  BY <1>9, NothingTwice DEF TodoInv, ReadyInv, SlRunning
<1>. QED BY <1>10, <1>11, <1>12, <1>13, <1>14, <1>15 DEF SlInv

\* What the first of the tasks is about.
LEMMA Running ==
    ASSUME SlInv, slTodo # <<>>
    PROVE  /\ Head(slTodo) \in RoundTask /\ SlThis \in SlConn
           /\ Head(slTodo).op \in OfConnections => slConn[SlThis].status # "FREED"
<1>1. /\ slTodo \in Seq(RoundTask) /\ TodoInv
  BY DEF SlInv, SlTypes
<1>2. Len(slTodo) \in Nat \ {0} /\ Head(slTodo) = slTodo[1] /\ Head(slTodo) \in RoundTask
  BY <1>1, HeadAndRest
<1>3. 1 \in 1..Len(slTodo)
  BY <1>2
<1>. QED BY <1>1, <1>2, <1>3 DEF TodoInv, SlThis, RoundTask

\* The tasks that a task of a connection leaves are of connections, and no connection is
\* deleted.
OrdinaryTasks(tasks) ==
    /\ tasks \in Seq(RoundTask)
    /\ \A i \in 1..Len(tasks) : tasks[i].op \in OfConnections /\ slConn[tasks[i].conn].status # "FREED"
NoneDeleted == \A c \in SlConn : slConn[c].status # "FREED" => slConn'[c].status # "FREED"

LEMMA GoesOn ==
    ASSUME SlInv, slTodo # <<>>, Head(slTodo).op \in OfConnections,
           NEW tasks, OrdinaryTasks(tasks), NoneDeleted, SlBecomes(tasks)
    PROVE  slTodo' \in Seq(RoundTask) /\ TodoInv' /\ ReadyInv'
<1>1. slTodo \in Seq(RoundTask) /\ TodoInv /\ tasks \in Seq(RoundTask)
  BY DEF SlInv, SlTypes, OrdinaryTasks
<1>2. PICK n, m, t : n = Len(slTodo) /\ m = Len(tasks) /\ t = Tail(slTodo) /\ n \in Nat /\ m \in Nat
  <2>1. Len(slTodo) \in Nat /\ Len(tasks) \in Nat
    BY <1>1
  <2>. QED BY <2>1
<1>3. /\ n # 0 /\ t \in Seq(RoundTask) /\ Len(t) = n - 1 /\ Head(slTodo) = slTodo[1]
      /\ \A i \in 1..n - 1 : t[i] = slTodo[i + 1]
  BY <1>1, <1>2, HeadAndRest
<1>4. /\ slTodo' \in Seq(RoundTask) /\ Len(slTodo') = m + (n - 1)
      /\ \A i \in 1..m + (n - 1) : slTodo'[i] = IF i <= m THEN tasks[i] ELSE slTodo[i - m + 1]
  <2>1. slTodo' = tasks \o t
    BY <1>2 DEF SlBecomes
  <2>2. /\ slTodo' \in Seq(RoundTask) /\ Len(slTodo') = m + (n - 1)
        /\ \A i \in 1..m + (n - 1) : slTodo'[i] = IF i <= m THEN tasks[i] ELSE t[i - m]
    BY <1>1, <1>2, <1>3, <2>1, Joined
  <2>3. \A i \in 1..m + (n - 1) : ~ (i <= m) => i - m \in 1..n - 1
    BY <1>2, <1>3
  <2>. QED BY <1>3, <2>2, <2>3
<1>5. \A i \in 1..m : tasks[i] \in RoundTask /\ tasks[i].op \in OfConnections
                      /\ tasks[i].conn \in SlConn /\ slConn[tasks[i].conn].status # "FREED"
  <2>1. \A i \in 1..m : tasks[i] \in RoundTask
    BY <1>1, <1>2
  <2>2. \A i \in 1..m : tasks[i].conn \in SlConn
    BY <2>1 DEF RoundTask
  <2>. QED BY <1>2, <2>1, <2>2 DEF OrdinaryTasks
<1>6. \A i \in 1..n : slTodo[i] \in RoundTask /\ slTodo[i].conn \in SlConn
  <2>1. \A i \in 1..n : slTodo[i] \in RoundTask
    BY <1>1, <1>2
  <2>. QED BY <2>1 DEF RoundTask
<1>7. \A i \in 1..n :
        /\ slTodo[i].op \in OfConnections => slConn[slTodo[i].conn].status # "FREED"
        /\ slTodo[i].op \in {"call", "reap"} => i = n
        /\ slTodo[i].op = "select" => i + 1 = n /\ slTodo[i + 1].op = "call"
        /\ slTodo[i].op = "call" /\ i # 1 => slTodo[i - 1].op = "select"
  BY <1>1, <1>2 DEF TodoInv
<1>8. \A o \in OfConnections : o # "call" /\ o # "reap" /\ o # "select"
  BY DEF OfConnections
<1>9. slTodo[1].op \in OfConnections
  BY <1>3
<1>10. ASSUME NEW i \in 1..m + (n - 1)
       PROVE  /\ slTodo'[i].op \in OfConnections => slConn'[slTodo'[i].conn].status # "FREED"
              /\ slTodo'[i].op \in {"call", "reap"} => i = m + (n - 1)
              /\ slTodo'[i].op = "select" => i + 1 = m + (n - 1) /\ slTodo'[i + 1].op = "call"
              /\ slTodo'[i].op = "call" => i # 1 /\ slTodo'[i - 1].op = "select"
  <2>1. CASE i <= m
    <3>1. i \in 1..m /\ slTodo'[i] = tasks[i]
      BY <1>2, <1>4, <2>1
    <3>2. tasks[i].op \in OfConnections /\ tasks[i].conn \in SlConn /\ slConn[tasks[i].conn].status # "FREED"
      BY <1>5, <3>1
    <3>. QED BY <1>8, <3>1, <3>2 DEF NoneDeleted
  <2>2. CASE ~ (i <= m)
    <3>1. PICK j : j = i - m + 1
      OBVIOUS
    <3>2. j \in 1..n /\ j # 1 /\ slTodo'[i] = slTodo[j] /\ i = j + m - 1
      <4>1. slTodo'[i] = slTodo[j]
        BY <1>4, <2>2, <3>1
      <4>2. n \in Nat /\ m \in Nat /\ n # 0 /\ i \in 1..m + (n - 1)
        BY <1>2, <1>3
      <4>3. j \in 1..n /\ j # 1 /\ i = j + m - 1
        BY <2>2, <3>1, <4>2
      <4>. QED BY <4>1, <4>3
    <3>3. slTodo'[i].op \in OfConnections => slConn'[slTodo'[i].conn].status # "FREED"
      BY <1>6, <1>7, <3>2 DEF NoneDeleted
    <3>4. slTodo'[i].op \in {"call", "reap"} => i = m + (n - 1)
      <4>1. SUFFICES ASSUME slTodo'[i].op \in {"call", "reap"} PROVE i = m + (n - 1)
        OBVIOUS
      <4>2. j = n
        BY <1>7, <3>2, <4>1
      <4>. QED BY <1>2, <3>2, <4>2
    <3>5. slTodo'[i].op = "select" => i + 1 = m + (n - 1) /\ slTodo'[i + 1].op = "call"
      <4>1. SUFFICES ASSUME slTodo'[i].op = "select" PROVE i + 1 = m + (n - 1) /\ slTodo'[i + 1].op = "call"
        OBVIOUS
      <4>2. j + 1 = n /\ slTodo[j + 1].op = "call"
        BY <1>7, <3>2, <4>1
      <4>3. i + 1 = m + (n - 1) /\ i + 1 \in 1..m + (n - 1) /\ ~ (i + 1 <= m) /\ (i + 1) - m + 1 = j + 1
        BY <1>2, <2>2, <3>2, <4>2
      <4>. QED BY <1>4, <4>2, <4>3
    <3>6. slTodo'[i].op = "call" => i # 1 /\ slTodo'[i - 1].op = "select"
      <4>1. SUFFICES ASSUME slTodo'[i].op = "call" PROVE i # 1 /\ slTodo'[i - 1].op = "select"
        OBVIOUS
      <4>2. slTodo[j - 1].op = "select"
        BY <1>7, <3>2, <4>1
      <4>3. j - 1 # 1 /\ j - 1 \in 1..n
        <5>1. j - 1 # 1
          BY <1>8, <1>9, <4>2
        <5>. QED BY <1>2, <3>2, <5>1
      <4>4. i - 1 \in 1..m + (n - 1) /\ ~ (i - 1 <= m) /\ (i - 1) - m + 1 = j - 1 /\ i # 1
        BY <1>2, <3>2, <4>3
      <4>. QED BY <1>4, <4>2, <4>4
    <3>. QED BY <3>3, <3>4, <3>5, <3>6
  <2>. QED BY <2>1, <2>2
<1>11. TodoInv'
  BY <1>4, <1>10 DEF TodoInv
<1>12. ~ SlRunning("call")'
  <2>1. SUFFICES ASSUME slTodo' # <<>>, Head(slTodo').op = "call" PROVE FALSE
    BY DEF SlRunning
  <2>2. Len(slTodo') \in Nat \ {0} /\ Head(slTodo') = slTodo'[1]
    BY <1>4, <2>1, HeadAndRest
  <2>3. 1 \in 1..m + (n - 1)
    BY <1>2, <1>4, <2>2
  <2>. QED BY <1>10, <2>1, <2>2, <2>3
<1>. QED BY <1>4, <1>11, <1>12 DEF ReadyInv

\* The handles of the first connections of the list, and what is left of the bits by then.
HandlesOfFirst(n) == {slConn[slList[i]].handle : i \in 1..n}
TraceType == [read : Seq(SlConn), write : Seq(SlConn), left : Int]
TracedSoFar(x, n, reads, writes) ==
    /\ x \in TraceType
    /\ x.left = Cardinality(reads \ HandlesOfFirst(n)) + Cardinality(writes \ HandlesOfFirst(n))
    /\ ToSet(x.read) \subseteq ToSet(slList) /\ ToSet(x.write) \subseteq ToSet(slList)
    /\ \A i \in 1..n : /\ slConn[slList[i]].handle \in reads => slList[i] \in ToSet(x.read)
                       /\ slConn[slList[i]].handle \in writes => slList[i] \in ToSet(x.write)

\* The tracing over a list is a recursive function, which exists.
TracesWith(f, reads, writes) ==
    \A n \in 0..Len(slList) :
        f[n] = IF n = 0 THEN [read |-> <<>>, write |-> <<>>, left |-> Cardinality(reads) + Cardinality(writes)]
               ELSE TracedWith(f[n - 1], reads, writes, slList[n])

LEMMA OneTraced ==
    ASSUME SlTypes, NEW x \in TraceType, NEW reads, NEW writes, NEW c \in SlConn
    PROVE  TracedWith(x, reads, writes, c) \in TraceType
<1>1. Append(x.read, c) \in Seq(SlConn) /\ Append(x.write, c) \in Seq(SlConn)
  BY DEF TraceType
<1>. QED BY <1>1 DEF TracedWith, TraceType

LEMMA TracingExists ==
    ASSUME SlInv, NEW reads, NEW writes, IsFiniteSet(reads), IsFiniteSet(writes)
    PROVE  \E f : TracesWith(f, reads, writes) /\ Traced(reads, writes) = f[Len(slList)]
<1>. DEFINE N == Len(slList)
            base == [read |-> <<>>, write |-> <<>>, left |-> Cardinality(reads) + Cardinality(writes)]
            F == [i \in 1..N |-> [x \in TraceType |-> TracedWith(x, reads, writes, slList[i])]]
            IsTrace(f) == f = [n \in 0..N |-> IF n = 0 THEN base
                                              ELSE TracedWith(f[n - 1], reads, writes, slList[n])]
<1>1. slList \in Seq(SlConn) /\ SlTypes
  BY DEF SlInv, SlTypes
<1>2. N \in Nat /\ \A i \in 1..N : slList[i] \in SlConn
  BY <1>1
<1>3. base \in TraceType
  BY FS_CardinalityType DEF TraceType
<1>4. F \in [1..N -> [TraceType -> TraceType]]
  BY <1>1, <1>2, OneTraced
<1>5. PICK f : Iterates(f, N, TraceType, base, F)
  <2>. HIDE DEF N, F, base
  <2>. QED BY <1>2, <1>3, <1>4, IterationExists
<1>6. IsTrace(f)
  <2>1. ASSUME NEW i \in 1..N PROVE f[i] = TracedWith(f[i - 1], reads, writes, slList[i])
    <3>1. i - 1 \in 0..N
      BY <1>2
    <3>2. f[i - 1] \in TraceType /\ f[i] = F[i][f[i - 1]]
      BY <1>5, <3>1 DEF Iterates
    <3>. QED BY <3>2
  <2>2. f = [n \in 0..N |-> f[n]]
    BY <1>5 DEF Iterates
  <2>3. \A n \in 0..N : f[n] = IF n = 0 THEN base ELSE TracedWith(f[n - 1], reads, writes, slList[n])
    <3>. HIDE DEF base, F
    <3>. QED BY <1>2, <1>5, <2>1 DEF Iterates
  <2>. HIDE DEF N, base
  <2>. QED BY <2>2, <2>3
<1>7. Traced(reads, writes) = (CHOOSE f_1 : IsTrace(f_1))[N]
  BY DEF Traced
<1>8. PICK g : g = CHOOSE f_1 : IsTrace(f_1)
  OBVIOUS
<1>9. IsTrace(g)
  <2>. HIDE DEF IsTrace
  <2>. QED BY <1>6, <1>8
<1>10. TracesWith(g, reads, writes)
  <2>1. \A n \in 0..N : g[n] = IF n = 0 THEN base ELSE TracedWith(g[n - 1], reads, writes, slList[n])
    <3>. HIDE DEF N, base
    <3>. QED BY <1>9
  <2>. QED BY <2>1 DEF TracesWith
<1>. QED BY <1>7, <1>8, <1>10

\* One handle fewer to be found.
LEMMA LeftWithout ==
    ASSUME NEW A, IsFiniteSet(A), NEW H, NEW h, h \notin H
    PROVE  /\ Cardinality(A \ H) \in Nat
           /\ Cardinality(A \ (H \cup {h})) = Cardinality(A \ H) - (IF h \in A THEN 1 ELSE 0)
           /\ Cardinality(A \ H) = 0 => h \notin A
<1>1. IsFiniteSet(A \ H)
  BY FS_Subset
<1>2. Cardinality(A \ H) \in Nat
  BY <1>1, FS_CardinalityType
<1>3. (A \ H) \ {h} = A \ (H \cup {h})
  OBVIOUS
<1>4. Cardinality((A \ H) \ {h}) = IF h \in A \ H THEN Cardinality(A \ H) - 1 ELSE Cardinality(A \ H)
  BY <1>1, FS_RemoveElement
<1>5. Cardinality(A \ H) = 0 => A \ H = {}
  BY <1>1, FS_EmptySet
<1>. QED BY <1>2, <1>3, <1>4, <1>5

\* The tracing goes one connection further.
LEMMA TracedFurther ==
    ASSUME SlInv, NEW reads, NEW writes, IsFiniteSet(reads), IsFiniteSet(writes),
           NEW n \in 0..Len(slList), n < Len(slList), NEW x, TracedSoFar(x, n, reads, writes)
    PROVE  TracedSoFar(TracedWith(x, reads, writes, slList[n + 1]), n + 1, reads, writes)
<1>1. slList \in Seq(SlConn) /\ SlTypes /\ ListedInv
  BY DEF SlInv, SlTypes
<1>2. PICK N, c, h : N = Len(slList) /\ c = slList[n + 1] /\ h = slConn[c].handle
  OBVIOUS
<1>3. /\ N \in Nat /\ n \in Nat /\ n + 1 \in 1..N /\ c \in SlConn /\ DOMAIN slList = 1..N
      /\ \A i \in 1..n : i \in 1..N /\ i # n + 1
      /\ \A i \in 1..N : slList[i] \in SlConn /\ slList[i] \in ToSet(slList)
  <2>1. N \in Nat /\ DOMAIN slList = 1..N /\ \A i \in 1..N : slList[i] \in SlConn
    BY <1>1, <1>2
  <2>2. n \in Nat /\ n + 1 \in 1..N /\ \A i \in 1..n : i \in 1..N /\ i # n + 1
    BY <1>2, <2>1
  <2>3. \A i \in 1..N : slList[i] \in ToSet(slList)
    BY <2>1 DEF ToSet
  <2>. QED BY <1>2, <2>1, <2>2, <2>3
<1>4. h \notin HandlesOfFirst(n)
  <2>1. SUFFICES ASSUME NEW i \in 1..n, slConn[slList[i]].handle = h PROVE FALSE
    BY DEF HandlesOfFirst
  <2>2. i \in 1..N /\ i # n + 1 /\ slList[i] \in SlConn
    BY <1>3
  <2>3. slList[i] = c
    BY <1>1, <1>2, <1>3, <2>1, <2>2 DEF ListedInv
  <2>. QED BY <1>1, <1>2, <1>3, <2>2, <2>3 DEF ListedInv, IsInjective
<1>5. HandlesOfFirst(n + 1) = HandlesOfFirst(n) \cup {h}
  <2>1. 1..n + 1 = 1..n \cup {n + 1}
    BY <1>3
  <2>. QED BY <1>2, <2>1 DEF HandlesOfFirst
<1>6. PICK H, r, w : /\ H = HandlesOfFirst(n) /\ r = Cardinality(reads \ H) /\ w = Cardinality(writes \ H)
  OBVIOUS
<1>7. /\ r \in Nat /\ w \in Nat /\ (r = 0 => h \notin reads) /\ (w = 0 => h \notin writes)
      /\ Cardinality(reads \ (H \cup {h})) = r - (IF h \in reads THEN 1 ELSE 0)
      /\ Cardinality(writes \ (H \cup {h})) = w - (IF h \in writes THEN 1 ELSE 0)
  BY <1>4, <1>6, LeftWithout
<1>8. PICK y : y = TracedWith(x, reads, writes, c)
  OBVIOUS
<1>9. /\ x \in TraceType /\ x.left = r + w
      /\ ToSet(x.read) \subseteq ToSet(slList) /\ ToSet(x.write) \subseteq ToSet(slList)
      /\ \A i \in 1..n : /\ slConn[slList[i]].handle \in reads => slList[i] \in ToSet(x.read)
                         /\ slConn[slList[i]].handle \in writes => slList[i] \in ToSet(x.write)
  BY <1>6 DEF TracedSoFar
<1>10. y \in TraceType
  BY <1>1, <1>3, <1>8, <1>9, OneTraced
<1>11. \A i \in 1..n + 1 : i \in 1..n \/ i = n + 1
  BY <1>3
<1>12. CASE x.left = 0
  <2>1. y = x
    BY <1>8, <1>12 DEF TracedWith
  <2>2. r = 0 /\ w = 0
    BY <1>7, <1>9, <1>12
  <2>3. h \notin reads /\ h \notin writes
    BY <1>7, <2>2
  <2>4. y.left = Cardinality(reads \ HandlesOfFirst(n + 1)) + Cardinality(writes \ HandlesOfFirst(n + 1))
    BY <1>5, <1>6, <1>7, <1>9, <2>1, <2>3
  <2>5. \A i \in 1..n + 1 : /\ slConn[slList[i]].handle \in reads => slList[i] \in ToSet(y.read)
                            /\ slConn[slList[i]].handle \in writes => slList[i] \in ToSet(y.write)
    BY <1>2, <1>9, <1>11, <2>1, <2>3
  <2>. QED BY <1>2, <1>8, <1>9, <1>10, <2>1, <2>4, <2>5 DEF TracedSoFar
<1>13. CASE x.left # 0
  <2>1. PICK a, b : a = Append(x.read, c) /\ b = Append(x.write, c)
    OBVIOUS
  <2>2. ToSet(a) = ToSet(x.read) \cup {c} /\ ToSet(b) = ToSet(x.write) \cup {c}
    BY <1>3, <1>9, <2>1, Appended DEF TraceType
  <2>3. /\ y.read = (IF h \in reads THEN a ELSE x.read)
        /\ y.write = (IF h \in writes THEN b ELSE x.write)
        /\ y.left = x.left - (IF h \in reads THEN 1 ELSE 0) - (IF h \in writes THEN 1 ELSE 0)
    BY <1>2, <1>8, <1>13, <2>1 DEF TracedWith
  <2>4. /\ ToSet(y.read) = ToSet(x.read) \cup (IF h \in reads THEN {c} ELSE {})
        /\ ToSet(y.write) = ToSet(x.write) \cup (IF h \in writes THEN {c} ELSE {})
    BY <2>2, <2>3
  <2>5. y.left = Cardinality(reads \ HandlesOfFirst(n + 1)) + Cardinality(writes \ HandlesOfFirst(n + 1))
    <3>1. PICK p, q : p = (IF h \in reads THEN 1 ELSE 0) /\ q = (IF h \in writes THEN 1 ELSE 0)
      OBVIOUS
    <3>2. p \in Nat /\ q \in Nat /\ y.left = (r + w) - p - q
      BY <1>9, <2>3, <3>1
    <3>3. /\ Cardinality(reads \ HandlesOfFirst(n + 1)) = r - p
          /\ Cardinality(writes \ HandlesOfFirst(n + 1)) = w - q
      BY <1>5, <1>6, <1>7, <3>1
    <3>. QED BY <1>7, <3>2, <3>3
  <2>6. c \in ToSet(slList)
    BY <1>2, <1>3
  <2>7. \A i \in 1..n + 1 : /\ slConn[slList[i]].handle \in reads => slList[i] \in ToSet(y.read)
                            /\ slConn[slList[i]].handle \in writes => slList[i] \in ToSet(y.write)
    BY <1>2, <1>9, <1>11, <2>4
  <2>8. ToSet(y.read) \subseteq ToSet(slList) /\ ToSet(y.write) \subseteq ToSet(slList)
    BY <1>9, <2>4, <2>6
  <2>. QED BY <1>2, <1>8, <1>10, <2>5, <2>7, <2>8 DEF TracedSoFar
<1>. QED BY <1>12, <1>13

\* The bits that are watched are found, all of them, at connections of the list.
LEMMA EveryBitIsFound ==
    ASSUME SlInv, NEW reads \in SUBSET slWatched.read, NEW writes \in SUBSET slWatched.write,
           NEW x, x = Traced(reads, writes)
    PROVE  /\ x.read \in Seq(SlConn) /\ x.write \in Seq(SlConn) /\ x.left = 0
           /\ ToSet(x.read) \subseteq ToSet(slList) /\ ToSet(x.write) \subseteq ToSet(slList)
           /\ \A c \in ToSet(slList) : /\ slConn[c].handle \in reads => c \in ToSet(x.read)
                                       /\ slConn[c].handle \in writes => c \in ToSet(x.write)
<1>1. /\ slList \in Seq(SlConn) /\ SlTypes /\ ListedInv /\ BitsOfTheOwner
  BY DEF SlInv, SlTypes
<1>2. PICK N : N = Len(slList) /\ N \in Nat /\ DOMAIN slList = 1..N
  <2>1. Len(slList) \in Nat /\ DOMAIN slList = 1..Len(slList)
    BY <1>1
  <2>. QED BY <2>1
<1>3. \A c \in ToSet(slList) : \E i \in 1..N : c = slList[i]
  BY <1>2 DEF ToSet
<1>4. \A c \in ToSet(slList) : c \in SlConn /\ slConn[c].handle \in SlHandle
  <2>1. \A c \in ToSet(slList) : c \in SlConn
    BY <1>1, <1>2, <1>3
  <2>. QED BY <1>1, <2>1 DEF ListedInv
<1>5. reads \subseteq HandlesOfFirst(N) /\ writes \subseteq HandlesOfFirst(N)
  <2>1. \A c \in ToSet(slList) : slConn[c].handle \in HandlesOfFirst(N)
    BY <1>3 DEF HandlesOfFirst
  <2>. QED BY <1>1, <2>1 DEF BitsOfTheOwner
<1>6. IsFiniteSet(reads) /\ IsFiniteSet(writes)
  <2>1. reads \subseteq SlHandle /\ writes \subseteq SlHandle
    BY <1>1, <1>4 DEF BitsOfTheOwner
  <2>. QED BY <2>1, SelectAssumption, FS_Subset
<1>7. PICK f : TracesWith(f, reads, writes) /\ x = f[N]
  BY <1>2, <1>6, TracingExists
<1>. DEFINE T == {n \in 0..N : TracedSoFar(f[n], n, reads, writes)}
<1>8. 0 \in T
  <2>1. 0 \in 0..N /\ f[0] = [read |-> <<>>, write |-> <<>>, left |-> Cardinality(reads) + Cardinality(writes)]
    BY <1>2, <1>7 DEF TracesWith
  <2>2. HandlesOfFirst(0) = {} /\ 1..0 = {}
    BY DEF HandlesOfFirst
  <2>3. Cardinality(reads) \in Nat /\ Cardinality(writes) \in Nat
    BY <1>6, FS_CardinalityType
  <2>5. f[0] \in TraceType
    BY <2>1, <2>3 DEF TraceType
  <2>6. f[0].left = Cardinality(reads \ HandlesOfFirst(0)) + Cardinality(writes \ HandlesOfFirst(0))
    <3>1. reads \ HandlesOfFirst(0) = reads /\ writes \ HandlesOfFirst(0) = writes
      BY <2>2
    <3>2. f[0].left = Cardinality(reads) + Cardinality(writes)
      BY <2>1
    <3>. QED BY <3>1, <3>2
  <2>7. f[0].read = <<>> /\ f[0].write = <<>>
    BY <2>1
  <2>8. TracedSoFar(f[0], 0, reads, writes)
    BY <2>2, <2>5, <2>6, <2>7, NothingTwice DEF TracedSoFar
  <2>. QED BY <2>1, <2>8
<1>9. ASSUME NEW n \in 0..N, n \in T, n < N PROVE n + 1 \in T
  <2>1. n + 1 \in 0..N /\ n + 1 # 0 /\ (n + 1) - 1 = n
    BY <1>2, <1>9
  <2>2. f[n + 1] = TracedWith(f[n], reads, writes, slList[n + 1])
    BY <1>2, <1>7, <2>1 DEF TracesWith
  <2>3. TracedSoFar(f[n + 1], n + 1, reads, writes)
    BY <1>2, <1>6, <1>9, <2>2, TracedFurther
  <2>. QED BY <2>1, <2>3
<1>. HIDE DEF T
<1>10. N \in T
  <2>1. \A n \in 0..N : n \in T
    BY <1>2, <1>8, <1>9, UpTo
  <2>. QED BY <1>2, <2>1
<1>11. TracedSoFar(x, N, reads, writes)
  BY <1>7, <1>10 DEF T
<1>12. x.left = 0
  <2>1. reads \ HandlesOfFirst(N) = {} /\ writes \ HandlesOfFirst(N) = {}
    BY <1>5
  <2>. QED BY <1>11, <2>1, FS_EmptySet DEF TracedSoFar
<1>. QED BY <1>3, <1>11, <1>12 DEF TracedSoFar, TraceType

\* What the callbacks of some connections are.
LEMMA AllTasks ==
    ASSUME NEW op \in OfConnections, NEW seq \in Seq(SlConn)
    PROVE  /\ SlAll(op, seq) \in Seq(RoundTask) /\ Len(SlAll(op, seq)) = Len(seq)
           /\ \A i \in 1..Len(seq) : SlAll(op, seq)[i].op = op /\ SlAll(op, seq)[i].conn = seq[i]
<1>1. Len(seq) \in Nat /\ \A i \in 1..Len(seq) : seq[i] \in SlConn
  OBVIOUS
<1>2. \A c \in SlConn : SlDo(op, c) \in RoundTask /\ SlDo(op, c).op = op /\ SlDo(op, c).conn = c
  BY DEF SlDo, RoundTask
<1>3. SlAll(op, seq) = [i \in 1..Len(seq) |-> SlDo(op, seq[i])]
  BY DEF SlAll
<1>4. SlAll(op, seq) \in Seq(RoundTask) /\ Len(SlAll(op, seq)) = Len(seq)
  <2>1. PICK n \in Nat : n = Len(seq)
    BY <1>1
  <2>2. SlAll(op, seq) \in [1..n -> RoundTask]
    BY <1>1, <1>2, <1>3, <2>1
  <2>. QED BY <2>1, <2>2
<1>. QED BY <1>1, <1>2, <1>3, <1>4

\* The callbacks of some connections and those of some others, none of them deleted.
LEMMA TwoKinds ==
    ASSUME NEW o \in OfConnections, NEW p \in OfConnections, NEW a \in Seq(SlConn), NEW b \in Seq(SlConn),
           \A c \in ToSet(a) \cup ToSet(b) : slConn[c].status # "FREED"
    PROVE  OrdinaryTasks(SlAll(o, a) \o SlAll(p, b))
<1>1. PICK n, m : n = Len(a) /\ m = Len(b) /\ n \in Nat /\ m \in Nat
  <2>1. Len(a) \in Nat /\ Len(b) \in Nat
    OBVIOUS
  <2>. QED BY <2>1
<1>2. /\ \A i \in 1..n : a[i] \in ToSet(a)
      /\ \A i \in 1..m : b[i] \in ToSet(b)
  BY <1>1 DEF ToSet
<1>3. PICK s, t : s = SlAll(o, a) /\ t = SlAll(p, b)
  OBVIOUS
<1>4. /\ s \in Seq(RoundTask) /\ Len(s) = n /\ \A i \in 1..n : s[i].op = o /\ s[i].conn = a[i]
      /\ t \in Seq(RoundTask) /\ Len(t) = m /\ \A i \in 1..m : t[i].op = p /\ t[i].conn = b[i]
  BY <1>1, <1>3, AllTasks, ZenonT(30)
<1>5. /\ s \o t \in Seq(RoundTask) /\ Len(s \o t) = n + m
      /\ \A i \in 1..n + m : (s \o t)[i] = IF i <= n THEN s[i] ELSE t[i - n]
  BY <1>4, Joined, ZenonT(30)
<1>6. \A i \in 1..n + m : (i <= n => i \in 1..n) /\ (~ (i <= n) => i - n \in 1..m)
  BY <1>1
<1>7. \A i \in 1..n + m : (s \o t)[i].op \in OfConnections /\ slConn[(s \o t)[i].conn].status # "FREED"
  BY <1>2, <1>4, <1>5, <1>6, SMTT(20)
<1>. QED BY <1>3, <1>5, <1>7 DEF OrdinaryTasks

\* A step of the round is none of a connection.
LEMMA RoundTasks ==
    ASSUME NEW op \in OfTheRound
    PROVE  SlRound(op) \in RoundTask /\ SlRound(op).op = op /\ op \notin OfConnections
<1>1. (CHOOSE c \in SlConn : TRUE) \in SlConn
  BY SelectAssumption
<1>. QED BY <1>1 DEF SlRound, RoundTask, OfTheRound, OfConnections

\* When the wait is over the callbacks are next, and last.
LEMMA WaitOver ==
    ASSUME SlInv, SlRunning("select"), SlBecomes(<<>>), UNCHANGED slConn
    PROVE  slTodo' \in Seq(RoundTask) /\ TodoInv'
<1>1. slTodo \in Seq(RoundTask) /\ TodoInv /\ slTodo # <<>> /\ Head(slTodo).op = "select"
  BY DEF SlInv, SlTypes, SlRunning
<1>2. PICK n, t : n = Len(slTodo) /\ t = Tail(slTodo)
  OBVIOUS
<1>3. /\ n \in Nat \ {0} /\ t \in Seq(RoundTask) /\ Len(t) = n - 1 /\ Head(slTodo) = slTodo[1]
      /\ \A i \in 1..n - 1 : t[i] = slTodo[i + 1]
  BY <1>1, <1>2, HeadAndRest
<1>4. 1 \in 1..n /\ n = 2 /\ slTodo[2].op = "call"
  <2>1. 1 \in 1..n
    BY <1>3
  <2>2. 1 + 1 = n /\ slTodo[1 + 1].op = "call"
    BY <1>1, <1>2, <1>3, <2>1 DEF TodoInv
  <2>. QED BY <2>1, <2>2
<1>5. slTodo' = t
  BY <1>2, <1>3, JoinedToNothing DEF SlBecomes
<1>6. Len(t) = 1 /\ t[1].op = "call" /\ 1..1 = {1}
  BY <1>3, <1>4
<1>. QED BY <1>3, <1>5, <1>6 DEF TodoInv, OfConnections

\* The last of the tasks is followed by none.
LEMMA LastOne ==
    ASSUME SlInv, SlRunning("call") \/ SlRunning("reap"), NEW tasks \in Seq(RoundTask), SlBecomes(tasks)
    PROVE  slTodo' = tasks
<1>1. slTodo \in Seq(RoundTask) /\ TodoInv /\ slTodo # <<>> /\ Head(slTodo).op \in {"call", "reap"}
  BY DEF SlInv, SlTypes, SlRunning
<1>2. /\ Len(slTodo) \in Nat \ {0} /\ Tail(slTodo) \in Seq(RoundTask) /\ Len(Tail(slTodo)) = Len(slTodo) - 1
      /\ Head(slTodo) = slTodo[1]
  BY <1>1, HeadAndRest
<1>3. 1 = Len(slTodo)
  <2>1. 1 \in 1..Len(slTodo)
    BY <1>2
  <2>. QED BY <1>1, <1>2, <2>1 DEF TodoInv
<1>4. Tail(slTodo) = <<>>
  <2>1. PICK t : t = Tail(slTodo)
    OBVIOUS
  <2>2. t \in Seq(RoundTask) /\ Len(t) = 0
    BY <1>2, <1>3, <2>1
  <2>. QED BY <2>1, <2>2
<1>5. slTodo' = tasks \o <<>>
  BY <1>4 DEF SlBecomes
<1>. QED BY <1>5, JoinedToNothing

\* The round begins with what was left of the one before.
LEMMA OutstandingKeeps == ASSUME SlInv, SlOutstanding PROVE SlInv'
<1>1. /\ SlTypes /\ ListedInv /\ RegisteredInv /\ BitsOfTheOwner
      /\ OutstandingInv /\ RemovalInv
  BY DEF SlInv
<1>2. /\ slOutstanding.read \in Seq(SlConn) /\ slOutstanding.write \in Seq(SlConn)
      /\ slConn \in [SlConn -> ConnectionType]
  BY <1>1 DEF SlTypes, BuffersType
<1>3. \A c \in SlConn : /\ slConn'[c] \in ConnectionType
                        /\ slConn'[c].status = slConn[c].status /\ slConn'[c].handle = slConn[c].handle
                        /\ slConn'[c].writeRegistered = slConn[c].writeRegistered
                        /\ slConn'[c].queued = slConn[c].queued
  <2>1. SUFFICES ASSUME NEW c \in SlConn
                 PROVE  /\ slConn'[c] \in ConnectionType
                        /\ slConn'[c].status = slConn[c].status /\ slConn'[c].handle = slConn[c].handle
                        /\ slConn'[c].writeRegistered = slConn[c].writeRegistered
                        /\ slConn'[c].queued = slConn[c].queued
    OBVIOUS
  <2>2. PICK b : b = (slConn[c].isOutstanding /\ c \notin ToSet(slOutstanding.read))
    OBVIOUS
  <2>3. b \in BOOLEAN /\ slConn'[c] = [slConn[c] EXCEPT !.isOutstanding = b] /\ slConn[c] \in ConnectionType
    BY <1>2, <2>2 DEF SlOutstanding
  <2>. QED BY <2>3 DEF ConnectionType
<1>4. slConn' \in [SlConn -> ConnectionType]
  BY <1>3 DEF SlOutstanding
<1>5. \A c \in SlConn : SlIsOpen(c)' <=> SlIsOpen(c)
  BY <1>3 DEF SlIsOpen
<1>6. slOutstanding' = NoBuffers /\ UNCHANGED <<slList, slWatched, slReady, slRemoval>>
  BY DEF SlOutstanding
<1>7. ToSet(slList) \subseteq SlConn /\ ToSet(slRemoval) \subseteq SlConn
  BY <1>1 DEF SlTypes, ToSet
<1>8. ListedInv'
  BY <1>1, <1>3, <1>5, <1>6 DEF ListedInv
<1>9. RegisteredInv'
  BY <1>1, <1>3 DEF RegisteredInv
<1>10. BitsOfTheOwner'
  BY <1>1, <1>3, <1>6, <1>7 DEF BitsOfTheOwner
<1>11. OutstandingInv' /\ RemovalInv'
  BY <1>1, <1>3, <1>6, <1>7, NoBuffersAre, NothingTwice DEF OutstandingInv, RemovalInv
<1>12. PICK p : p = SlAll("read", slOutstanding.read) \o SlAll("write", slOutstanding.write)
  OBVIOUS
<1>13. OrdinaryTasks(p)
  <2>1. \A c \in ToSet(slOutstanding.read) \cup ToSet(slOutstanding.write) : slConn[c].status # "FREED"
    BY <1>1 DEF OutstandingInv, SlIsOpen
  <2>2. "read" \in OfConnections /\ "write" \in OfConnections
    BY DEF OfConnections
  <2>. QED BY <1>2, <1>12, <2>1, <2>2, TwoKinds
<1>14. PICK n, r : n = Len(p) /\ r = <<SlRound("select"), SlRound("call")>>
  OBVIOUS
<1>15. /\ n \in Nat /\ p \in Seq(RoundTask) /\ r \in Seq(RoundTask) /\ Len(r) = 2
       /\ r[1].op = "select" /\ r[2].op = "call"
  <2>1. "select" \in OfTheRound /\ "call" \in OfTheRound
    BY DEF OfTheRound
  <2>2. SlRound("select") \in RoundTask /\ SlRound("select").op = "select"
    BY <2>1, RoundTasks
  <2>3. SlRound("call") \in RoundTask /\ SlRound("call").op = "call"
    BY <2>1, RoundTasks
  <2>. QED BY <1>13, <1>14, <2>2, <2>3 DEF OrdinaryTasks
<1>16. /\ slTodo' \in Seq(RoundTask) /\ Len(slTodo') = n + 2
       /\ \A i \in 1..n + 2 : slTodo'[i] = IF i <= n THEN p[i] ELSE r[i - n]
  <2>1. slTodo' = p \o r
    BY <1>12, <1>14 DEF SlOutstanding
  <2>. QED BY <1>14, <1>15, <2>1, Joined
<1>17. \A i \in 1..n : p[i].op \in OfConnections /\ slConn'[p[i].conn].status # "FREED"
  <2>1. \A i \in 1..n : p[i] \in RoundTask
    BY <1>14, <1>15
  <2>2. \A i \in 1..n : p[i].conn \in SlConn
    BY <2>1 DEF RoundTask
  <2>. QED BY <1>3, <1>13, <1>14, <2>2 DEF OrdinaryTasks
<1>18. \A o \in OfConnections : o # "call" /\ o # "reap" /\ o # "select"
  BY DEF OfConnections
<1>19. \A i \in 1..n + 2 : /\ i \in 1..n => slTodo'[i].op \in OfConnections /\ slConn'[slTodo'[i].conn].status # "FREED"
                           /\ i = n + 1 => slTodo'[i].op = "select"
                           /\ i = n + 2 => slTodo'[i].op = "call"
                           /\ i \in 1..n \/ i = n + 1 \/ i = n + 2
  <2>1. SUFFICES ASSUME NEW i \in 1..n + 2
                 PROVE  /\ i \in 1..n => slTodo'[i] = p[i]
                        /\ i = n + 1 => slTodo'[i] = r[1]
                        /\ i = n + 2 => slTodo'[i] = r[2]
                        /\ i \in 1..n \/ i = n + 1 \/ i = n + 2
    BY <1>15, <1>17
  <2>. QED BY <1>15, <1>16
<1>20. "select" \notin OfConnections /\ "call" \notin OfConnections
  BY DEF OfConnections
<1>21. TodoInv'
  <2>1. SUFFICES ASSUME NEW i \in 1..n + 2
                 PROVE  /\ slTodo'[i].op \in OfConnections => slConn'[slTodo'[i].conn].status # "FREED"
                        /\ slTodo'[i].op \in {"call", "reap"} => i = n + 2
                        /\ slTodo'[i].op = "select" => i + 1 = n + 2 /\ slTodo'[i + 1].op = "call"
                        /\ slTodo'[i].op = "call" /\ i # 1 => slTodo'[i - 1].op = "select"
    BY <1>16 DEF TodoInv
  <2>2. CASE i \in 1..n
    BY <1>18, <1>19, <2>2
  <2>3. CASE i = n + 1
    <3>1. i + 1 \in 1..n + 2 /\ i + 1 = n + 2
      BY <1>15, <2>3
    <3>2. slTodo'[i].op = "select" /\ slTodo'[i + 1].op = "call"
      BY <1>19, <2>3, <3>1
    <3>. QED BY <1>20, <3>1, <3>2
  <2>4. CASE i = n + 2
    <3>1. i - 1 \in 1..n + 2 /\ i - 1 = n + 1
      BY <1>15, <2>4
    <3>2. slTodo'[i].op = "call" /\ slTodo'[i - 1].op = "select"
      BY <1>19, <2>4, <3>1
    <3>. QED BY <1>20, <2>4, <3>2
  <2>. QED BY <1>19, <2>2, <2>3, <2>4
<1>22. ReadyInv'
  <2>1. slTodo' # <<>> /\ Head(slTodo') = slTodo'[1] /\ 1 \in 1..n + 2 /\ 1 # n + 2
    BY <1>15, <1>16, HeadAndRest
  <2>2. slTodo'[1].op # "call"
    BY <1>18, <1>19, <2>1
  <2>. QED BY <2>1, <2>2 DEF ReadyInv, SlRunning
<1>23. SlTypes'
  BY <1>1, <1>4, <1>6, <1>16, NoBuffersAre DEF SlTypes
<1>. QED BY <1>8, <1>9, <1>10, <1>11, <1>21, <1>22, <1>23 DEF SlInv

\* What a step that concerns no connection leaves.
LEMMA ConnectionsStay ==
    ASSUME SlInv, UNCHANGED <<slConn, slList, slWatched, slOutstanding, slRemoval>>
    PROVE  ListedInv' /\ RegisteredInv' /\ BitsOfTheOwner' /\ OutstandingInv' /\ RemovalInv'
<1>1. ListedInv /\ RegisteredInv /\ BitsOfTheOwner /\ OutstandingInv /\ RemovalInv
  BY DEF SlInv
<1>2. ListedInv' /\ RegisteredInv'
  BY <1>1 DEF ListedInv, RegisteredInv, SlIsOpen
<1>3. BitsOfTheOwner' /\ RemovalInv'
  BY <1>1 DEF BitsOfTheOwner, RemovalInv
<1>4. OutstandingInv'
  BY <1>1 DEF OutstandingInv, SlIsOpen
<1>. QED BY <1>2, <1>3, <1>4

\* The wait is over, with bits or without.
LEMMA WaitKeeps == ASSUME SlInv, SlSelect \/ SlInterrupted PROVE SlInv'
<1>1. /\ SlRunning("select") /\ SlBecomes(<<>>) /\ UNCHANGED <<slConn, slList, slWatched, slOutstanding, slRemoval>>
  BY DEF SlSelect, SlInterrupted
<1>2. slTodo' \in Seq(RoundTask) /\ TodoInv'
  BY <1>1, WaitOver
<1>3. ListedInv' /\ RegisteredInv' /\ BitsOfTheOwner' /\ OutstandingInv' /\ RemovalInv'
  BY <1>1, ConnectionsStay
<1>4. SlTypes /\ ListedInv
  BY DEF SlInv
<1>5. /\ slReady' \in BuffersType
      /\ \A c \in ToSet(slReady'.read) \cup ToSet(slReady'.write) : slConn[c].status # "FREED"
  <2>1. CASE SlInterrupted
    <3>1. slReady' = NoBuffers
      BY <2>1 DEF SlInterrupted, AfterError
    <3>. QED BY <3>1, NoBuffersAre, NothingTwice
  <2>2. CASE SlSelect
    <3>1. PICK reads \in SUBSET slWatched.read, writes \in SUBSET slWatched.write :
             slReady' = [read |-> Traced(reads, writes).read, write |-> Traced(reads, writes).write]
      BY <2>2 DEF SlSelect
    <3>2. PICK x : x = Traced(reads, writes)
      OBVIOUS
    <3>3. /\ x.read \in Seq(SlConn) /\ x.write \in Seq(SlConn)
          /\ ToSet(x.read) \subseteq ToSet(slList) /\ ToSet(x.write) \subseteq ToSet(slList)
      BY <3>2, EveryBitIsFound
    <3>4. ToSet(slList) \subseteq SlConn
      BY <1>4 DEF SlTypes, ToSet
    <3>5. \A c \in ToSet(slList) : slConn[c].status # "FREED"
      BY <1>4, <3>4 DEF ListedInv, SlIsOpen
    <3>6. slReady' \in BuffersType /\ slReady'.read = x.read /\ slReady'.write = x.write
      BY <3>1, <3>2, <3>3 DEF BuffersType
    <3>. QED BY <3>3, <3>5, <3>6
  <2>. QED BY <1>1, <2>1, <2>2
<1>6. ReadyInv'
  BY <1>1, <1>5 DEF ReadyInv
<1>7. SlTypes'
  BY <1>1, <1>2, <1>4, <1>5 DEF SlTypes
<1>. QED BY <1>2, <1>3, <1>6, <1>7 DEF SlInv

\* The callbacks of what is ready, and the deletions after them.
LEMMA CallKeeps == ASSUME SlInv, SlCall PROVE SlInv'
<1>1. /\ SlRunning("call") /\ UNCHANGED <<slConn, slList, slWatched, slReady, slOutstanding, slRemoval>>
  BY DEF SlCall
<1>2. ListedInv' /\ RegisteredInv' /\ BitsOfTheOwner' /\ OutstandingInv' /\ RemovalInv'
  BY <1>1, ConnectionsStay
<1>3. SlTypes /\ ReadyInv
  BY DEF SlInv
<1>4. slReady.read \in Seq(SlConn) /\ slReady.write \in Seq(SlConn)
  BY <1>3 DEF SlTypes, BuffersType
<1>5. PICK p, z : p = SlAll("readable", slReady.read) \o SlAll("writable", slReady.write) /\ z = SlRound("reap")
  OBVIOUS
<1>6. OrdinaryTasks(p)
  <2>1. "readable" \in OfConnections /\ "writable" \in OfConnections
    BY DEF OfConnections
  <2>. QED BY <1>1, <1>3, <1>4, <1>5, <2>1, TwoKinds DEF ReadyInv
<1>7. z \in RoundTask /\ z.op = "reap" /\ "reap" \notin OfConnections
  <2>1. "reap" \in OfTheRound
    BY DEF OfTheRound
  <2>. QED BY <1>5, <2>1, RoundTasks
<1>8. PICK n : n = Len(p) /\ n \in Nat
  <2>1. Len(p) \in Nat
    BY <1>6 DEF OrdinaryTasks
  <2>. QED BY <2>1
<1>9. <<z>> \in Seq(RoundTask) /\ Len(<<z>>) = 1 /\ <<z>>[1] = z
  BY <1>7
<1>10. /\ p \o <<z>> \in Seq(RoundTask) /\ Len(p \o <<z>>) = n + 1
       /\ \A i \in 1..n + 1 : (p \o <<z>>)[i] = IF i <= n THEN p[i] ELSE <<z>>[i - n]
  BY <1>6, <1>8, <1>9, Joined DEF OrdinaryTasks
<1>11. slTodo' = p \o <<z>>
  <2>1. SlBecomes(p \o <<z>>)
    BY <1>5 DEF SlCall
  <2>. QED BY <1>1, <1>10, <2>1, LastOne
<1>12. slTodo' \in Seq(RoundTask) /\ Len(slTodo') = n + 1
  BY <1>10, <1>11
<1>13. \A o \in OfConnections : o # "call" /\ o # "reap" /\ o # "select"
  BY DEF OfConnections
<1>14. \A i \in 1..n : p[i].op \in OfConnections /\ slConn[p[i].conn].status # "FREED"
  BY <1>6, <1>8 DEF OrdinaryTasks
<1>15. ASSUME NEW i \in 1..n + 1
       PROVE  \/ i # n + 1 /\ slTodo'[i].op \in OfConnections /\ slConn[slTodo'[i].conn].status # "FREED"
              \/ i = n + 1 /\ slTodo'[i].op = "reap"
  <2>1. CASE i <= n
    <3>1. i \in 1..n /\ i # n + 1 /\ slTodo'[i] = p[i]
      BY <1>8, <1>10, <1>11, <2>1
    <3>. QED BY <1>14, <3>1
  <2>2. CASE ~ (i <= n)
    <3>1. i = n + 1 /\ slTodo'[i] = <<z>>[i - n] /\ i - n = 1
      BY <1>8, <1>10, <1>11, <2>2
    <3>. QED BY <1>7, <1>9, <3>1
  <2>. QED BY <2>1, <2>2
<1>16. TodoInv'
  <2>1. SUFFICES ASSUME NEW i \in 1..n + 1
                 PROVE  /\ slTodo'[i].op \in OfConnections => slConn'[slTodo'[i].conn].status # "FREED"
                        /\ slTodo'[i].op \in {"call", "reap"} => i = n + 1
                        /\ slTodo'[i].op # "select" /\ slTodo'[i].op # "call"
    BY <1>12 DEF TodoInv
  <2>. QED BY <1>1, <1>7, <1>13, <1>15
<1>17. ReadyInv'
  <2>1. slTodo' # <<>> /\ Head(slTodo') = slTodo'[1] /\ 1 \in 1..n + 1
    BY <1>8, <1>12, HeadAndRest
  <2>2. slTodo'[1].op # "call"
    BY <1>13, <1>15, <2>1
  <2>. QED BY <2>1, <2>2 DEF ReadyInv, SlRunning
<1>18. SlTypes'
  BY <1>1, <1>3, <1>12 DEF SlTypes
<1>. QED BY <1>2, <1>16, <1>17, <1>18 DEF SlInv

\* The deletions, at the end of the round.
LEMMA ReapKeeps == ASSUME SlInv, SlReap PROVE SlInv'
<1>1. /\ SlTypes /\ ListedInv /\ RegisteredInv /\ BitsOfTheOwner
      /\ OutstandingInv /\ RemovalInv
  BY DEF SlInv
<1>2. slRemoval' = <<>> /\ UNCHANGED <<slList, slWatched, slReady, slOutstanding>>
  BY DEF SlReap
<1>3. slTodo' = <<>>
  <2>1. <<>> \in Seq(RoundTask) /\ SlRunning("reap") /\ SlBecomes(<<>>)
    BY DEF SlReap
  <2>. QED BY <2>1, LastOne
<1>4. \A c \in SlConn : /\ slConn'[c] \in ConnectionType
                        /\ slConn'[c].handle = slConn[c].handle
                        /\ slConn'[c].writeRegistered = slConn[c].writeRegistered
                        /\ slConn'[c].isOutstanding = slConn[c].isOutstanding
                        /\ slConn'[c].queued = slConn[c].queued
                        /\ slConn'[c].status = "NEW" => slConn[c].status = "NEW"
                        /\ SlIsOpen(c)' <=> SlIsOpen(c)
  <2>1. SUFFICES ASSUME NEW c \in SlConn
                 PROVE  /\ slConn'[c] \in ConnectionType
                        /\ slConn'[c].handle = slConn[c].handle
                        /\ slConn'[c].writeRegistered = slConn[c].writeRegistered
                        /\ slConn'[c].isOutstanding = slConn[c].isOutstanding
                        /\ slConn'[c].queued = slConn[c].queued
                        /\ slConn'[c].status = "NEW" => slConn[c].status = "NEW"
                        /\ SlIsOpen(c)' <=> SlIsOpen(c)
    OBVIOUS
  <2>2. slConn[c] \in ConnectionType
    BY <1>1 DEF SlTypes
  <2>3. CASE c \in ToSet(slRemoval)
    <3>1. slConn'[c] = [slConn[c] EXCEPT !.status = "FREED"] /\ slConn[c].status = "CLOSED"
      BY <1>1, <2>3 DEF SlReap, RemovalInv
    <3>. QED BY <2>2, <3>1 DEF ConnectionType, SlIsOpen
  <2>4. CASE c \notin ToSet(slRemoval)
    <3>1. slConn'[c] = slConn[c]
      BY <2>4 DEF SlReap
    <3>. QED BY <2>2, <3>1 DEF SlIsOpen
  <2>. QED BY <2>3, <2>4
<1>5. slConn' \in [SlConn -> ConnectionType]
  BY <1>4 DEF SlReap
<1>6. ToSet(slList) \subseteq SlConn /\ ToSet(slOutstanding.read) \subseteq SlConn /\ ToSet(slOutstanding.write) \subseteq SlConn
  <2>1. slOutstanding.read \in Seq(SlConn) /\ slOutstanding.write \in Seq(SlConn) /\ slList \in Seq(SlConn)
    BY <1>1 DEF SlTypes, BuffersType
  <2>. QED BY <2>1 DEF ToSet
<1>7. ListedInv'
  BY <1>1, <1>2, <1>4 DEF ListedInv
<1>8. RegisteredInv'
  BY <1>1, <1>4 DEF RegisteredInv
<1>9. BitsOfTheOwner'
  BY <1>1, <1>2, <1>4, <1>6 DEF BitsOfTheOwner
<1>10. OutstandingInv'
  BY <1>1, <1>2, <1>4, <1>6 DEF OutstandingInv
<1>11. RemovalInv' /\ TodoInv' /\ ReadyInv'
  BY <1>2, <1>3, NothingTwice DEF RemovalInv, TodoInv, ReadyInv, SlRunning
<1>12. SlTypes'
  BY <1>1, <1>2, <1>3, <1>5 DEF SlTypes
<1>. QED BY <1>7, <1>8, <1>9, <1>10, <1>11, <1>12 DEF SlInv

\* The tasks of a connection that a step leaves are none, one or two.
OrdinaryTask(a) == a \in RoundTask /\ a.op \in OfConnections /\ slConn[a.conn].status # "FREED"
LEMMA TasksOfNone == OrdinaryTasks(<<>>)
  BY NothingTwice DEF OrdinaryTasks
LEMMA OneTask == ASSUME NEW a, OrdinaryTask(a) PROVE OrdinaryTasks(<<a>>)
<1>1. a \in RoundTask /\ a.op \in OfConnections /\ slConn[a.conn].status # "FREED"
  BY DEF OrdinaryTask
<1>2. <<a>> \in Seq(RoundTask) /\ Len(<<a>>) = 1 /\ <<a>>[1] = a /\ 1..1 = {1}
  BY <1>1
<1>. QED BY <1>1, <1>2 DEF OrdinaryTasks
LEMMA TwoTasks == ASSUME NEW a, NEW b, OrdinaryTask(a), OrdinaryTask(b) PROVE OrdinaryTasks(<<a, b>>)
<1>1. /\ a \in RoundTask /\ a.op \in OfConnections /\ slConn[a.conn].status # "FREED"
      /\ b \in RoundTask /\ b.op \in OfConnections /\ slConn[b.conn].status # "FREED"
  BY DEF OrdinaryTask
<1>2. /\ <<a, b>> \in Seq(RoundTask) /\ Len(<<a, b>>) = 2 /\ <<a, b>>[1] = a /\ <<a, b>>[2] = b
      /\ 1..2 = {1, 2}
  BY <1>1
<1>. QED BY <1>1, <1>2 DEF OrdinaryTasks

\* A handler, and the writing that goes on, of a connection that was not deleted.
LEMMA TasksOfOne ==
    ASSUME NEW c \in SlConn, slConn[c].status # "FREED"
    PROVE  OrdinaryTask(SlHandler(c)) /\ OrdinaryTask(SlDo("send", c))
  BY SelectAssumption DEF OrdinaryTask, SlHandler, SlDo, RoundTask, OfConnections

\* A call of a handler uses up one of those it makes.
LEMMA Calls ==
    ASSUME SlInv, SlCalling, SlCalled, NoneDeleted
    PROVE  slTodo' \in Seq(RoundTask) /\ TodoInv' /\ ReadyInv'
<1>1. slTodo # <<>> /\ Head(slTodo).op = "handler" /\ "handler" \in OfConnections
  BY DEF SlCalling, SlRunning, OfConnections
<1>2. PICK h : h = Head(slTodo)
  OBVIOUS
<1>3. h \in RoundTask /\ slConn[h.conn].status # "FREED" /\ h.op = "handler" /\ h.n \in Nat /\ h.n > 0
  <2>1. h \in RoundTask /\ slConn[h.conn].status # "FREED" /\ h.op = "handler"
    BY <1>1, <1>2, Running DEF SlThis
  <2>. QED BY <1>2, <2>1 DEF RoundTask, SlCalling
<1>4. PICK left : left = [h EXCEPT !.n = @ - 1]
  OBVIOUS
<1>5. OrdinaryTask(left)
  <2>1. left \in RoundTask /\ left.op = "handler" /\ left.conn = h.conn
    BY <1>3, <1>4 DEF RoundTask
  <2>. QED BY <1>1, <1>3, <2>1 DEF OrdinaryTask
<1>6. PICK tasks : tasks = IF h.n = 1 THEN <<>> ELSE <<left>>
  OBVIOUS
<1>7. OrdinaryTasks(tasks)
  BY <1>5, <1>6, TasksOfNone, OneTask
<1>8. SlBecomes(tasks)
  BY <1>2, <1>4, <1>6 DEF SlCalled
<1>. QED BY <1>1, <1>7, <1>8, GoesOn

\* A step that leaves the status and the handle of a connection.
LEMMA OneConnection ==
    ASSUME SlInv, NEW c \in SlConn, NEW k \in ConnectionType, slConn' = [slConn EXCEPT ![c] = k],
           k.status = slConn[c].status, k.handle = slConn[c].handle,
           k.status = "NEW" => ~ k.writeRegistered, k.queued > 0 => k.writeRegistered,
           UNCHANGED <<slList, slRemoval>>
    PROVE  /\ slConn' \in [SlConn -> ConnectionType] /\ slConn'[c] = k
           /\ \A d \in SlConn : /\ d # c => slConn'[d] = slConn[d]
                                /\ slConn'[d].handle = slConn[d].handle
                                /\ SlIsOpen(d)' <=> SlIsOpen(d)
           /\ ListedInv' /\ RegisteredInv' /\ RemovalInv' /\ NoneDeleted
           /\ ToSet(slList) \subseteq SlConn /\ ToSet(slOutstanding.read) \subseteq SlConn
           /\ ToSet(slOutstanding.write) \subseteq SlConn
<1>1. SlTypes /\ ListedInv /\ RegisteredInv /\ RemovalInv
  BY DEF SlInv
<1>2. /\ slConn' \in [SlConn -> ConnectionType] /\ slConn'[c] = k
      /\ \A d \in SlConn : d # c => slConn'[d] = slConn[d]
  BY <1>1 DEF SlTypes
<1>3. \A d \in SlConn : slConn'[d].status = slConn[d].status /\ slConn'[d].handle = slConn[d].handle
  BY <1>2
<1>4. \A d \in SlConn : SlIsOpen(d)' <=> SlIsOpen(d)
  BY <1>3 DEF SlIsOpen
<1>5. ListedInv'
  BY <1>1, <1>3, <1>4 DEF ListedInv
<1>6. RegisteredInv'
  BY <1>1, <1>2 DEF RegisteredInv
<1>7. /\ ToSet(slList) \subseteq SlConn /\ ToSet(slOutstanding.read) \subseteq SlConn
      /\ ToSet(slOutstanding.write) \subseteq SlConn /\ ToSet(slRemoval) \subseteq SlConn
  <2>1. /\ slOutstanding.read \in Seq(SlConn) /\ slOutstanding.write \in Seq(SlConn) /\ slList \in Seq(SlConn)
        /\ slRemoval \in Seq(SlConn)
    BY <1>1 DEF SlTypes, BuffersType
  <2>. QED BY <2>1 DEF ToSet
<1>8. RemovalInv' /\ NoneDeleted
  BY <1>1, <1>3, <1>7 DEF RemovalInv, NoneDeleted
<1>. QED BY <1>2, <1>3, <1>4, <1>5, <1>6, <1>7, <1>8

\* A callback of a read, and the end of a handler.
LEMMA ReadKeeps == ASSUME SlInv, SlRead \/ SlReturn PROVE SlInv'
<1>1. /\ slTodo # <<>> /\ Head(slTodo).op \in OfConnections
      /\ UNCHANGED <<slConn, slList, slWatched, slReady, slOutstanding, slRemoval>>
  BY DEF SlRead, SlReturn, SlRunning, OfConnections
<1>2. SlThis \in SlConn /\ slConn[SlThis].status # "FREED"
  BY <1>1, Running
<1>3. PICK tasks : OrdinaryTasks(tasks) /\ SlBecomes(tasks)
  <2>1. CASE SlReturn
    BY <2>1, TasksOfNone DEF SlReturn
  <2>2. CASE SlRead
    <3>1. CASE SlIsOpen(SlThis)
      <4>1. OrdinaryTask(SlHandler(SlThis))
        BY <1>2, TasksOfOne
      <4>2. OrdinaryTasks(<<SlHandler(SlThis)>>)
        BY <4>1, OneTask
      <4>. QED BY <2>2, <3>1, <4>2 DEF SlRead
    <3>2. CASE ~ SlIsOpen(SlThis)
      BY <2>2, <3>2, TasksOfNone DEF SlRead
    <3>. QED BY <3>1, <3>2
  <2>. QED BY <2>1, <2>2
<1>4. NoneDeleted
  BY <1>1 DEF NoneDeleted
<1>5. slTodo' \in Seq(RoundTask) /\ TodoInv' /\ ReadyInv'
  BY <1>1, <1>3, <1>4, GoesOn
<1>6. ListedInv' /\ RegisteredInv' /\ BitsOfTheOwner' /\ OutstandingInv' /\ RemovalInv'
  BY <1>1, ConnectionsStay
<1>7. SlTypes'
  BY <1>1, <1>5 DEF SlInv, SlTypes
<1>. QED BY <1>5, <1>6, <1>7 DEF SlInv

\* A callback of a write, and the values that go on being sent.
LEMMA WriteKeeps == ASSUME SlInv, SlWrite PROVE SlInv'
<1>1. /\ slTodo # <<>> /\ Head(slTodo).op \in OfConnections
      /\ UNCHANGED <<slList, slReady, slOutstanding, slRemoval>>
  BY DEF SlWrite, SlRunning, OfConnections
<1>2. PICK c : c = SlThis
  OBVIOUS
<1>3. c \in SlConn /\ slConn[c].status # "FREED"
  BY <1>1, <1>2, Running
<1>4. SlTypes /\ ListedInv /\ RegisteredInv /\ BitsOfTheOwner /\ OutstandingInv
  BY DEF SlInv
<1>5. slConn[c] \in ConnectionType /\ slConn[c].handle \in Nat
  BY <1>3, <1>4 DEF SlTypes, ConnectionType
<1>6. PICK v : v = (SlRunning("writable") \/ slConn[c].writeValid)
  OBVIOUS
<1>7. PICK k : k = [slConn[c] EXCEPT !.writeValid = v]
  OBVIOUS
<1>8. /\ k \in ConnectionType /\ k.status = slConn[c].status /\ k.handle = slConn[c].handle
      /\ k.queued = slConn[c].queued /\ k.writeRegistered = slConn[c].writeRegistered
      /\ k.isOutstanding = slConn[c].isOutstanding
  <2>1. v \in BOOLEAN
    BY <1>6
  <2>. QED BY <1>5, <1>7, <2>1 DEF ConnectionType
<1>9. (slConn[c].status = "NEW" => ~ slConn[c].writeRegistered) /\ (slConn[c].queued > 0 => slConn[c].writeRegistered)
  BY <1>3, <1>4 DEF RegisteredInv
<1>10. PICK l, tasks :
         /\ l \in ConnectionType
         /\ slConn' = [slConn EXCEPT ![c] = l] /\ OrdinaryTasks(tasks) /\ SlBecomes(tasks)
         /\ l.status = slConn[c].status /\ l.handle = slConn[c].handle /\ l.isOutstanding = slConn[c].isOutstanding
         /\ l.status = "NEW" => ~ l.writeRegistered
         /\ l.queued > 0 => l.writeRegistered
         /\ \/ slWatched' = slWatched /\ l.writeRegistered = slConn[c].writeRegistered
            \/ /\ SlIsOpen(c) /\ ~ l.writeRegistered
               /\ slWatched' = [slWatched EXCEPT !.write =
                                  IF slConn[c].writeRegistered THEN @ \ {slConn[c].handle} ELSE @]
  <2>1. \/ /\ ~ SlIsOpen(c) /\ SlBecomes(<<>>) /\ UNCHANGED slWatched
           /\ slConn' = [slConn EXCEPT ![c] = IF SlRunning("send") THEN @ ELSE k]
        \/ /\ SlIsOpen(c) /\ k.queued > 0 /\ SlBecomes(<<SlHandler(c), SlDo("send", c)>>) /\ UNCHANGED slWatched
           /\ slConn' = [slConn EXCEPT ![c] = [k EXCEPT !.queued = @ - 1]]
        \/ /\ SlIsOpen(c) /\ k.queued > 0 /\ SlBecomes(<<>>) /\ UNCHANGED slWatched
           /\ slConn' = [slConn EXCEPT ![c] = [k EXCEPT !.writeValid = FALSE]]
        \/ /\ SlIsOpen(c) /\ k.queued = 0 /\ SlBecomes(<<>>)
           /\ slConn' = [slConn EXCEPT ![c] = [k EXCEPT !.writeRegistered = FALSE]]
           /\ slWatched' = [slWatched EXCEPT !.write = IF k.writeRegistered THEN @ \ {k.handle} ELSE @]
    BY <1>2, <1>6, <1>7 DEF SlWrite
  <2>2. CASE /\ ~ SlIsOpen(c) /\ SlBecomes(<<>>) /\ UNCHANGED slWatched
             /\ slConn' = [slConn EXCEPT ![c] = IF SlRunning("send") THEN @ ELSE k]
    <3>1. PICK l : l = IF SlRunning("send") THEN slConn[c] ELSE k
      OBVIOUS
    <3>2. slConn' = [slConn EXCEPT ![c] = l]
      BY <2>2, <3>1
    <3>. QED BY <1>5, <1>8, <1>9, <2>2, <3>1, <3>2, TasksOfNone
  <2>3. CASE /\ SlIsOpen(c) /\ k.queued > 0 /\ SlBecomes(<<SlHandler(c), SlDo("send", c)>>) /\ UNCHANGED slWatched
             /\ slConn' = [slConn EXCEPT ![c] = [k EXCEPT !.queued = @ - 1]]
    <3>1. PICK l : l = [k EXCEPT !.queued = @ - 1]
      OBVIOUS
    <3>2. /\ l \in ConnectionType /\ l.status = k.status /\ l.handle = k.handle
          /\ l.isOutstanding = k.isOutstanding /\ l.writeRegistered = k.writeRegistered
      BY <1>8, <2>3, <3>1 DEF ConnectionType
    <3>3. OrdinaryTasks(<<SlHandler(c), SlDo("send", c)>>)
      BY <1>3, TasksOfOne, TwoTasks
    <3>4. l.status = "OPEN"
      BY <1>8, <2>3, <3>2 DEF SlIsOpen
    <3>. QED BY <1>8, <1>9, <2>3, <3>1, <3>2, <3>3, <3>4
  <2>4. CASE /\ SlIsOpen(c) /\ k.queued > 0 /\ SlBecomes(<<>>) /\ UNCHANGED slWatched
             /\ slConn' = [slConn EXCEPT ![c] = [k EXCEPT !.writeValid = FALSE]]
    <3>1. PICK l : l = [k EXCEPT !.writeValid = FALSE]
      OBVIOUS
    <3>2. /\ l \in ConnectionType /\ l.status = k.status /\ l.handle = k.handle /\ l.queued = k.queued
          /\ l.isOutstanding = k.isOutstanding /\ l.writeRegistered = k.writeRegistered
      BY <1>8, <3>1 DEF ConnectionType
    <3>. QED BY <1>8, <1>9, <2>4, <3>1, <3>2, TasksOfNone
  <2>5. CASE /\ SlIsOpen(c) /\ k.queued = 0 /\ SlBecomes(<<>>)
             /\ slConn' = [slConn EXCEPT ![c] = [k EXCEPT !.writeRegistered = FALSE]]
             /\ slWatched' = [slWatched EXCEPT !.write = IF k.writeRegistered THEN @ \ {k.handle} ELSE @]
    <3>1. PICK l : l = [k EXCEPT !.writeRegistered = FALSE]
      OBVIOUS
    <3>2. /\ l \in ConnectionType /\ l.status = k.status /\ l.handle = k.handle /\ l.queued = 0
          /\ l.isOutstanding = k.isOutstanding /\ ~ l.writeRegistered
      BY <1>8, <2>5, <3>1 DEF ConnectionType
    <3>3. slWatched' = [slWatched EXCEPT !.write =
                          IF slConn[c].writeRegistered THEN @ \ {slConn[c].handle} ELSE @]
      BY <1>8, <2>5
    <3>4. ~ (0 > 0)
      OBVIOUS
    <3>. QED BY <1>8, <2>5, <3>1, <3>2, <3>3, <3>4, TasksOfNone
  <2>. QED BY <2>1, <2>2, <2>3, <2>4, <2>5
<1>11. /\ slConn' \in [SlConn -> ConnectionType] /\ slConn'[c] = l
       /\ \A d \in SlConn : /\ d # c => slConn'[d] = slConn[d]
                            /\ slConn'[d].handle = slConn[d].handle
                            /\ SlIsOpen(d)' <=> SlIsOpen(d)
       /\ ListedInv' /\ RegisteredInv' /\ RemovalInv' /\ NoneDeleted
       /\ ToSet(slList) \subseteq SlConn /\ ToSet(slOutstanding.read) \subseteq SlConn
       /\ ToSet(slOutstanding.write) \subseteq SlConn
  BY <1>1, <1>3, <1>10, OneConnection
<1>12. slTodo' \in Seq(RoundTask) /\ TodoInv' /\ ReadyInv'
  BY <1>1, <1>10, <1>11, GoesOn
<1>13. OutstandingInv'
  BY <1>1, <1>4, <1>10, <1>11 DEF OutstandingInv
<1>14. slWatched' \in [read : SUBSET Nat, write : SUBSET Nat] /\ BitsOfTheOwner'
  <2>1. slWatched \in [read : SUBSET Nat, write : SUBSET Nat]
    BY <1>4 DEF SlTypes
  <2>2. CASE slWatched' = slWatched /\ l.writeRegistered = slConn[c].writeRegistered
    <3>1. \A d \in SlConn : slConn'[d].writeRegistered = slConn[d].writeRegistered
      BY <1>11, <2>2
    <3>. QED BY <1>1, <1>4, <1>11, <2>1, <2>2, <3>1 DEF BitsOfTheOwner
  <2>3. CASE /\ SlIsOpen(c) /\ ~ l.writeRegistered
             /\ slWatched' = [slWatched EXCEPT !.write =
                                IF slConn[c].writeRegistered THEN @ \ {slConn[c].handle} ELSE @]
    <3>1. PICK W : W = IF slConn[c].writeRegistered THEN slWatched.write \ {slConn[c].handle} ELSE slWatched.write
      OBVIOUS
    <3>2. /\ slWatched' \in [read : SUBSET Nat, write : SUBSET Nat] /\ slWatched'.read = slWatched.read
          /\ slWatched'.write = W
      BY <2>1, <2>3, <3>1
    <3>3. W = {slConn'[d].handle : d \in {e \in ToSet(slList) : slConn'[e].writeRegistered}}
      <4>1. slWatched.write = {slConn[d].handle : d \in {e \in ToSet(slList) : slConn[e].writeRegistered}}
        BY <1>4 DEF BitsOfTheOwner
      <4>2. {e \in ToSet(slList) : slConn'[e].writeRegistered}
              = {e \in ToSet(slList) : slConn[e].writeRegistered} \ {c}
        BY <1>11, <2>3
      <4>3. \A d \in ToSet(slList) : d # c => slConn[d].handle # slConn[c].handle
        BY <1>3, <1>4, <1>11, <2>3 DEF ListedInv
      <4>4. c \in ToSet(slList)
        BY <1>3, <1>4, <2>3 DEF ListedInv
      <4>. QED BY <1>11, <3>1, <4>1, <4>2, <4>3, <4>4
    <3>. QED BY <1>1, <1>4, <1>11, <3>2, <3>3 DEF BitsOfTheOwner
  <2>. QED BY <1>10, <2>2, <2>3
<1>15. SlTypes'
  BY <1>1, <1>4, <1>11, <1>12, <1>14 DEF SlTypes
<1>. QED BY <1>11, <1>12, <1>13, <1>14, <1>15 DEF SlInv

\* While there is room for a connection, some handle is free.
LEMMA SomeHandleIsFree ==
    ASSUME SlInv, NEW c \in SlConn, SlMayOpen(c),
           NEW h, h = Min(SlHandle \ {slConn[d].handle : d \in {e \in SlConn : SlIsOpen(e)}})
    PROVE  /\ h \in SlHandle /\ h \in Nat
           /\ \A d \in SlConn : SlIsOpen(d) => slConn[d].handle # h
<1>1. slList \in Seq(SlConn) /\ ListedInv
  BY DEF SlInv, SlTypes
<1>. DEFINE O == {e \in SlConn : SlIsOpen(e)}
            H == {slConn[d].handle : d \in O}
            N == Len(slList)
<1>2. IsFiniteSet(O)
  <2>1. N \in Nat /\ DOMAIN slList = 1..N /\ slList \in [1..N -> SlConn]
    BY <1>1
  <2>2. ToSet(slList) = O
    <3>1. ToSet(slList) \subseteq SlConn
      BY <1>1 DEF ToSet
    <3>. QED BY <1>1, <3>1 DEF ListedInv
  <2>3. slList \in Surjection(1..N, O)
    BY <2>1, <2>2 DEF Surjection, ToSet
  <2>4. IsFiniteSet(1..N)
    BY <2>1, FS_Interval
  <2>. HIDE DEF O, N
  <2>. QED BY <2>3, <2>4, FS_Surjection
<1>3. IsFiniteSet(H) /\ Cardinality(H) <= Cardinality(O)
  <2>. DEFINE f == [d \in O |-> slConn[d].handle]
  <2>1. f \in Surjection(O, H)
    BY DEF Surjection
  <2>. HIDE DEF f, O, H
  <2>. QED BY <1>2, <2>1, FS_Surjection
<1>4. Cardinality(O) < Cardinality(SlHandle)
  BY DEF SlMayOpen
<1>5. Cardinality(O) \in Nat /\ Cardinality(H) \in Nat /\ Cardinality(SlHandle) \in Nat
  BY <1>2, <1>3, SelectAssumption, FS_CardinalityType
<1>6. SlHandle \ H # {}
  <2>1. SUFFICES ASSUME SlHandle \subseteq H PROVE FALSE
    OBVIOUS
  <2>2. Cardinality(SlHandle) <= Cardinality(H)
    <3>. HIDE DEF H
    <3>. QED BY <1>3, <2>1, FS_Subset
  <2>. HIDE DEF O, H
  <2>. QED BY <1>3, <1>4, <1>5, <2>2
<1>7. h \in SlHandle \ H
  <2>1. SlHandle \ H \subseteq Nat
    BY SelectAssumption
  <2>2. h = Min(SlHandle \ H)
    OBVIOUS
  <2>. HIDE DEF H
  <2>. QED BY <1>6, <2>1, <2>2, MinIsLeast
<1>. QED BY <1>7, SelectAssumption

\* A connection that is opened takes a handle that nobody has.
LEMMA OpenKeeps == ASSUME SlInv, SlOpen PROVE SlInv'
<1>1. PICK c \in SlConn :
        /\ SlMayOpen(c) /\ slConn' = [slConn EXCEPT ![c] = Opened(c)] /\ slList' = Append(slList, c)
        /\ slWatched' = [slWatched EXCEPT !.read = @ \cup {Opened(c).handle}]
  BY DEF SlOpen
<1>2. SlTypes /\ ListedInv /\ RegisteredInv /\ BitsOfTheOwner /\ OutstandingInv /\ RemovalInv
  BY DEF SlInv
<1>3. PICK h : h = Min(SlHandle \ {slConn[d].handle : d \in {e \in SlConn : SlIsOpen(e)}})
  OBVIOUS
<1>4. h \in SlHandle /\ h \in Nat /\ \A d \in SlConn : SlIsOpen(d) => slConn[d].handle # h
  BY <1>1, <1>3, SomeHandleIsFree
<1>5. slConn[c] \in ConnectionType /\ slConn[c].status = "NEW" /\ ~ slConn[c].writeRegistered /\ ~ (slConn[c].queued > 0)
  BY <1>1, <1>2 DEF SlTypes, SlMayOpen, RegisteredInv
<1>6. PICK k : k = Opened(c)
  OBVIOUS
<1>7. /\ k \in ConnectionType /\ k.status = "OPEN" /\ k.handle = h /\ ~ k.writeRegistered
      /\ k.queued = slConn[c].queued
  <2>1. k = [slConn[c] EXCEPT !.status = "OPEN", !.handle = h]
    BY <1>3, <1>6 DEF Opened
  <2>. QED BY <1>4, <1>5, <2>1 DEF ConnectionType
<1>8. /\ slConn' \in [SlConn -> ConnectionType] /\ slConn'[c] = k
      /\ \A d \in SlConn : d # c => slConn'[d] = slConn[d]
  BY <1>1, <1>2, <1>6, <1>7 DEF SlTypes
<1>9. slList \in Seq(SlConn) /\ ToSet(slList) \subseteq SlConn /\ c \notin ToSet(slList) /\ ~ SlIsOpen(c)
  BY <1>2, <1>5 DEF SlTypes, ListedInv, SlIsOpen, ToSet
<1>10. slList' \in Seq(SlConn) /\ ToSet(slList') = ToSet(slList) \cup {c} /\ IsInjective(slList')
  BY <1>1, <1>2, <1>9, Appended DEF ListedInv
<1>11. \A d \in SlConn : SlIsOpen(d)' <=> SlIsOpen(d) \/ d = c
  BY <1>7, <1>8 DEF SlIsOpen
<1>12. ListedInv'
  <2>1. \A d \in SlConn : d \in ToSet(slList') <=> SlIsOpen(d)'
    BY <1>2, <1>10, <1>11 DEF ListedInv
  <2>2. \A d \in SlConn : SlIsOpen(d)' => slConn'[d].handle \in SlHandle
    BY <1>2, <1>4, <1>7, <1>8, <1>11 DEF ListedInv
  <2>3. ASSUME NEW d \in SlConn, NEW e \in SlConn, SlIsOpen(d)', SlIsOpen(e)', slConn'[d].handle = slConn'[e].handle
        PROVE  d = e
    BY <1>2, <1>4, <1>7, <1>8, <1>11, <2>3 DEF ListedInv
  <2>. QED BY <1>10, <2>1, <2>2, <2>3 DEF ListedInv
<1>13. RegisteredInv'
  BY <1>2, <1>5, <1>7, <1>8 DEF RegisteredInv
<1>14. /\ slWatched' \in [read : SUBSET Nat, write : SUBSET Nat]
       /\ slWatched'.read = slWatched.read \cup {h} /\ slWatched'.write = slWatched.write
  BY <1>1, <1>2, <1>4, <1>6, <1>7 DEF SlTypes
<1>15. BitsOfTheOwner'
  <2>1. \A d \in ToSet(slList) : slConn'[d] = slConn[d]
    BY <1>8, <1>9
  <2>2. slWatched'.read \subseteq {slConn'[d].handle : d \in ToSet(slList')}
    BY <1>2, <1>7, <1>8, <1>10, <1>14, <2>1 DEF BitsOfTheOwner
  <2>3. {d \in ToSet(slList') : slConn'[d].writeRegistered} = {d \in ToSet(slList) : slConn[d].writeRegistered}
    BY <1>7, <1>8, <1>10, <2>1
  <2>4. slWatched'.write = {slConn'[d].handle : d \in {e \in ToSet(slList) : slConn[e].writeRegistered}}
    BY <1>2, <1>14, <2>1 DEF BitsOfTheOwner
  <2>. QED BY <2>2, <2>3, <2>4 DEF BitsOfTheOwner
<1>16. UNCHANGED <<slReady, slOutstanding, slRemoval>>
  BY DEF SlOpen
<1>17. /\ ToSet(slOutstanding.read) \subseteq SlConn /\ ToSet(slOutstanding.write) \subseteq SlConn
       /\ ToSet(slRemoval) \subseteq SlConn
  <2>1. /\ slOutstanding.read \in Seq(SlConn) /\ slOutstanding.write \in Seq(SlConn)
        /\ slRemoval \in Seq(SlConn)
    BY <1>2 DEF SlTypes, BuffersType
  <2>. QED BY <2>1 DEF ToSet
<1>18. OutstandingInv' /\ RemovalInv'
  <2>1. c \notin ToSet(slOutstanding.read) /\ c \notin ToSet(slOutstanding.write) /\ c \notin ToSet(slRemoval)
    BY <1>2, <1>5, <1>9 DEF OutstandingInv, RemovalInv
  <2>2. OutstandingInv'
    BY <1>2, <1>8, <1>11, <1>16, <1>17, <2>1 DEF OutstandingInv
  <2>3. RemovalInv'
    BY <1>2, <1>8, <1>16, <1>17, <2>1 DEF RemovalInv
  <2>. QED BY <2>2, <2>3
<1>19. NoneDeleted
  BY <1>7, <1>8 DEF NoneDeleted
<1>20. slTodo' \in Seq(RoundTask) /\ TodoInv' /\ ReadyInv'
  BY <1>19, Calls DEF SlOpen
<1>21. SlTypes'
  BY <1>2, <1>8, <1>10, <1>14, <1>16, <1>20 DEF SlTypes
<1>. QED BY <1>12, <1>13, <1>15, <1>18, <1>20, <1>21 DEF SlInv

\* Something is queued, and registered to be written.
LEMMA EnqueueKeeps == ASSUME SlInv, SlEnqueue PROVE SlInv'
<1>1. PICK c \in SlConn :
        /\ SlIsOpen(c) /\ (c \in ToSet(slOutstanding.write) => slConn[c].writeRegistered)
        /\ slConn' = [slConn EXCEPT ![c].queued = @ + 1, ![c].writeRegistered = TRUE]
        /\ slWatched' = WatchedToWrite(slConn[c], slWatched)
        /\ slOutstanding' = IF Registers(slConn[c])
                            THEN [slOutstanding EXCEPT !.write = Append(@, c)] ELSE slOutstanding
  BY DEF SlEnqueue
<1>2. SlTypes /\ ListedInv /\ RegisteredInv /\ BitsOfTheOwner /\ OutstandingInv
  BY DEF SlInv
<1>3. PICK k : k = [slConn[c] EXCEPT !.queued = @ + 1, !.writeRegistered = TRUE]
  OBVIOUS
<1>4. slConn[c] \in ConnectionType
  BY <1>2 DEF SlTypes
<1>5. /\ k \in ConnectionType /\ k.status = slConn[c].status /\ k.handle = slConn[c].handle
      /\ k.writeRegistered /\ k.isOutstanding = slConn[c].isOutstanding
  <2>1. PICK q : q = slConn[c].queued + 1
    OBVIOUS
  <2>2. q \in Nat
    BY <1>4, <2>1 DEF ConnectionType
  <2>3. k = [slConn[c] EXCEPT !.queued = q, !.writeRegistered = TRUE]
    BY <1>3, <2>1
  <2>. QED BY <1>4, <2>2, <2>3 DEF ConnectionType
<1>6. slConn' = [slConn EXCEPT ![c] = k]
  BY <1>1, <1>2, <1>3 DEF SlTypes
<1>7. UNCHANGED <<slList, slReady, slRemoval>> /\ k.status = "OPEN"
  BY <1>1, <1>5 DEF SlEnqueue, SlIsOpen
<1>8. /\ slConn' \in [SlConn -> ConnectionType] /\ slConn'[c] = k
      /\ \A d \in SlConn : /\ d # c => slConn'[d] = slConn[d]
                           /\ slConn'[d].handle = slConn[d].handle
                           /\ SlIsOpen(d)' <=> SlIsOpen(d)
      /\ ListedInv' /\ RegisteredInv' /\ RemovalInv' /\ NoneDeleted
      /\ ToSet(slList) \subseteq SlConn /\ ToSet(slOutstanding.read) \subseteq SlConn
      /\ ToSet(slOutstanding.write) \subseteq SlConn
  BY <1>5, <1>6, <1>7, OneConnection
<1>9. slTodo' \in Seq(RoundTask) /\ TodoInv' /\ ReadyInv'
  BY <1>8, Calls DEF SlEnqueue
<1>10. slOutstanding.read \in Seq(SlConn) /\ slOutstanding.write \in Seq(SlConn)
  BY <1>2 DEF SlTypes, BuffersType
<1>11. /\ slOutstanding' \in BuffersType /\ slOutstanding'.read = slOutstanding.read
       /\ IsInjective(slOutstanding'.write) /\ ToSet(slOutstanding'.write) \subseteq ToSet(slOutstanding.write) \cup {c}
  <2>1. CASE Registers(slConn[c])
    <3>1. PICK a : a = Append(slOutstanding.write, c)
      OBVIOUS
    <3>2. c \notin ToSet(slOutstanding.write)
      BY <1>1, <2>1 DEF Registers
    <3>3. a \in Seq(SlConn) /\ ToSet(a) = ToSet(slOutstanding.write) \cup {c} /\ IsInjective(a)
      BY <1>2, <1>10, <3>1, <3>2, Appended DEF OutstandingInv
    <3>4. slOutstanding' = [slOutstanding EXCEPT !.write = a] /\ slOutstanding \in BuffersType
      BY <1>1, <1>2, <2>1, <3>1 DEF SlTypes
    <3>. QED BY <3>3, <3>4 DEF BuffersType
  <2>2. CASE ~ Registers(slConn[c])
    BY <1>1, <1>2, <2>2 DEF OutstandingInv, SlTypes
  <2>. QED BY <2>1, <2>2
<1>12. OutstandingInv'
  BY <1>1, <1>2, <1>5, <1>8, <1>11 DEF OutstandingInv
<1>13. /\ slWatched' \in [read : SUBSET Nat, write : SUBSET Nat]
       /\ slWatched'.read = slWatched.read /\ slWatched'.write = slWatched.write \cup {k.handle}
  <2>1. k.handle \in Nat
    BY <1>5 DEF ConnectionType
  <2>. QED BY <1>1, <1>2, <1>5, <2>1 DEF SlTypes, WatchedToWrite
<1>14. BitsOfTheOwner'
  <2>1. c \in ToSet(slList)
    BY <1>1, <1>2 DEF ListedInv
  <2>2. {e \in ToSet(slList) : slConn'[e].writeRegistered}
          = {e \in ToSet(slList) : slConn[e].writeRegistered} \cup {c}
    BY <1>5, <1>8, <2>1
  <2>3. slWatched.write = {slConn[d].handle : d \in {e \in ToSet(slList) : slConn[e].writeRegistered}}
    BY <1>2 DEF BitsOfTheOwner
  <2>4. slWatched'.write = {slConn'[d].handle : d \in {e \in ToSet(slList) : slConn'[e].writeRegistered}}
    BY <1>5, <1>8, <1>13, <2>2, <2>3
  <2>5. slWatched'.read \subseteq {slConn'[d].handle : d \in ToSet(slList)}
    BY <1>2, <1>8, <1>13 DEF BitsOfTheOwner
  <2>. QED BY <1>7, <2>4, <2>5 DEF BitsOfTheOwner
<1>15. SlTypes'
  BY <1>2, <1>7, <1>8, <1>9, <1>11, <1>13 DEF SlTypes
<1>. QED BY <1>8, <1>9, <1>12, <1>14, <1>15 DEF SlInv

\* What is left of a reading is outstanding, once.
LEMMA AddOutstandingKeeps == ASSUME SlInv, SlAddOutstanding PROVE SlInv'
<1>1. PICK c : c = SlThis
  OBVIOUS
<1>2. /\ SlIsOpen(c) /\ ~ slConn[c].isOutstanding
      /\ slConn' = [slConn EXCEPT ![c].isOutstanding = TRUE]
      /\ slOutstanding' = [slOutstanding EXCEPT !.read = Append(@, c)]
      /\ UNCHANGED <<slList, slWatched, slReady, slRemoval>>
  BY <1>1 DEF SlAddOutstanding
<1>3. c \in SlConn
  <2>1. slTodo # <<>>
    BY DEF SlAddOutstanding, SlCalling, SlRunning
  <2>. QED BY <1>1, <2>1, Running
<1>4. SlTypes /\ ListedInv /\ RegisteredInv /\ BitsOfTheOwner /\ OutstandingInv
  BY DEF SlInv
<1>5. PICK k : k = [slConn[c] EXCEPT !.isOutstanding = TRUE]
  OBVIOUS
<1>6. /\ k \in ConnectionType /\ k.status = slConn[c].status /\ k.handle = slConn[c].handle
      /\ k.writeRegistered = slConn[c].writeRegistered /\ k.queued = slConn[c].queued /\ k.isOutstanding
  <2>1. slConn[c] \in ConnectionType
    BY <1>3, <1>4 DEF SlTypes
  <2>. QED BY <1>5, <2>1 DEF ConnectionType
<1>7. /\ slConn' = [slConn EXCEPT ![c] = k]
      /\ (k.status = "NEW" => ~ k.writeRegistered) /\ (k.queued > 0 => k.writeRegistered)
  BY <1>2, <1>3, <1>4, <1>5, <1>6 DEF SlTypes, RegisteredInv
<1>8. /\ slConn' \in [SlConn -> ConnectionType] /\ slConn'[c] = k
      /\ \A d \in SlConn : /\ d # c => slConn'[d] = slConn[d]
                           /\ slConn'[d].handle = slConn[d].handle
                           /\ SlIsOpen(d)' <=> SlIsOpen(d)
      /\ ListedInv' /\ RegisteredInv' /\ RemovalInv' /\ NoneDeleted
      /\ ToSet(slList) \subseteq SlConn /\ ToSet(slOutstanding.read) \subseteq SlConn
      /\ ToSet(slOutstanding.write) \subseteq SlConn
  BY <1>2, <1>3, <1>6, <1>7, OneConnection
<1>9. slTodo' \in Seq(RoundTask) /\ TodoInv' /\ ReadyInv'
  BY <1>8, Calls DEF SlAddOutstanding
<1>10. slOutstanding.read \in Seq(SlConn) /\ slOutstanding \in BuffersType /\ c \notin ToSet(slOutstanding.read)
  BY <1>2, <1>4 DEF SlTypes, BuffersType, OutstandingInv
<1>11. /\ slOutstanding' \in BuffersType /\ slOutstanding'.write = slOutstanding.write
       /\ IsInjective(slOutstanding'.read) /\ ToSet(slOutstanding'.read) = ToSet(slOutstanding.read) \cup {c}
  <2>1. PICK a : a = Append(slOutstanding.read, c)
    OBVIOUS
  <2>2. a \in Seq(SlConn) /\ ToSet(a) = ToSet(slOutstanding.read) \cup {c} /\ IsInjective(a)
    BY <1>3, <1>4, <1>10, <2>1, Appended DEF OutstandingInv
  <2>3. slOutstanding' = [slOutstanding EXCEPT !.read = a]
    BY <1>2, <2>1
  <2>. QED BY <1>10, <2>2, <2>3 DEF BuffersType
<1>12. OutstandingInv'
  BY <1>2, <1>4, <1>6, <1>8, <1>11 DEF OutstandingInv
<1>13. BitsOfTheOwner'
  <2>1. \A d \in SlConn : slConn'[d].writeRegistered = slConn[d].writeRegistered
    BY <1>6, <1>8
  <2>. QED BY <1>2, <1>4, <1>8, <2>1 DEF BitsOfTheOwner
<1>14. SlTypes'
  BY <1>2, <1>4, <1>8, <1>9, <1>11 DEF SlTypes
<1>. QED BY <1>8, <1>9, <1>12, <1>13, <1>14 DEF SlInv

\* A connection stops being read, or goes on.
LEMMA ThrottleKeeps == ASSUME SlInv, SlThrottle PROVE SlInv'
<1>1. PICK c \in SlConn :
        /\ SlIsOpen(c)
        /\ slWatched' = [slWatched EXCEPT !.read =
              IF slConn[c].handle \in @ THEN @ \ {slConn[c].handle} ELSE @ \cup {slConn[c].handle}]
  BY DEF SlThrottle
<1>2. UNCHANGED <<slConn, slList, slReady, slOutstanding, slRemoval>>
  BY DEF SlThrottle
<1>3. SlTypes /\ ListedInv /\ RegisteredInv /\ BitsOfTheOwner /\ OutstandingInv /\ RemovalInv
  BY DEF SlInv
<1>4. c \in ToSet(slList) /\ slConn[c].handle \in Nat
  BY <1>1, <1>3 DEF ListedInv, SlTypes, ConnectionType
<1>5. /\ slWatched' \in [read : SUBSET Nat, write : SUBSET Nat] /\ slWatched'.write = slWatched.write
      /\ slWatched'.read \subseteq slWatched.read \cup {slConn[c].handle}
  BY <1>1, <1>3, <1>4 DEF SlTypes
<1>6. BitsOfTheOwner'
  BY <1>2, <1>3, <1>4, <1>5 DEF BitsOfTheOwner
<1>7. ListedInv' /\ RegisteredInv' /\ OutstandingInv' /\ RemovalInv'
  BY <1>2, <1>3 DEF ListedInv, RegisteredInv, OutstandingInv, RemovalInv, SlIsOpen
<1>8. NoneDeleted
  BY <1>2 DEF NoneDeleted
<1>9. slTodo' \in Seq(RoundTask) /\ TodoInv' /\ ReadyInv'
  BY <1>8, Calls DEF SlThrottle
<1>10. SlTypes'
  BY <1>2, <1>3, <1>5, <1>9 DEF SlTypes
<1>. QED BY <1>6, <1>7, <1>9, <1>10 DEF SlInv

\* What is closed leaves the list, the sets and the buffers, and waits to be deleted.
LEMMA CloseKeeps == ASSUME SlInv, SlClose PROVE SlInv'
<1>1. PICK c \in SlConn :
        /\ SlIsOpen(c)
        /\ slWatched' = Unwatched(slConn[c], slWatched)
        /\ slOutstanding' = Discarded(c)
        /\ slRemoval' = Append(slRemoval, c)
        /\ slList' = Those(slList, SlConn \ {c})
        /\ slConn' = [slConn EXCEPT ![c].status = "CLOSED", ![c].isOutstanding = FALSE]
  BY DEF SlClose
<1>2. SlTypes /\ ListedInv /\ RegisteredInv /\ BitsOfTheOwner /\ OutstandingInv /\ RemovalInv
  BY DEF SlInv
<1>3. PICK k : k = [slConn[c] EXCEPT !.status = "CLOSED", !.isOutstanding = FALSE]
  OBVIOUS
<1>4. /\ k \in ConnectionType /\ k.status = "CLOSED" /\ k.handle = slConn[c].handle
      /\ k.writeRegistered = slConn[c].writeRegistered /\ k.queued = slConn[c].queued
  <2>1. slConn[c] \in ConnectionType
    BY <1>2 DEF SlTypes
  <2>. QED BY <1>3, <2>1 DEF ConnectionType
<1>5. /\ slConn' \in [SlConn -> ConnectionType] /\ slConn'[c] = k
      /\ \A d \in SlConn : d # c => slConn'[d] = slConn[d]
  <2>1. slConn' = [slConn EXCEPT ![c] = k]
    BY <1>1, <1>2, <1>3 DEF SlTypes
  <2>. QED BY <1>2, <1>4, <2>1 DEF SlTypes
<1>6. \A d \in SlConn : SlIsOpen(d)' <=> SlIsOpen(d) /\ d # c
  BY <1>4, <1>5 DEF SlIsOpen
<1>7. /\ slList \in Seq(SlConn) /\ slOutstanding.read \in Seq(SlConn) /\ slOutstanding.write \in Seq(SlConn)
      /\ slRemoval \in Seq(SlConn)
  BY <1>2 DEF SlTypes, BuffersType
<1>8. /\ ToSet(slList) \subseteq SlConn /\ ToSet(slOutstanding.read) \subseteq SlConn
      /\ ToSet(slOutstanding.write) \subseteq SlConn /\ ToSet(slRemoval) \subseteq SlConn
  BY <1>7 DEF ToSet
<1>9. slList' \in Seq(SlConn) /\ ToSet(slList') = ToSet(slList) \ {c} /\ IsInjective(slList')
  <2>1. slList' \in Seq(SlConn) /\ ToSet(slList') = ToSet(slList) \cap (SlConn \ {c}) /\ IsInjective(slList')
    BY <1>1, <1>2, <1>7, ThoseOf DEF ListedInv
  <2>. QED BY <1>8, <2>1
<1>10. ListedInv'
  BY <1>2, <1>5, <1>6, <1>9 DEF ListedInv
<1>11. RegisteredInv'
  BY <1>2, <1>4, <1>5 DEF RegisteredInv
<1>12. /\ slOutstanding' \in BuffersType
       /\ IsInjective(slOutstanding'.read) /\ IsInjective(slOutstanding'.write)
       /\ ToSet(slOutstanding'.read) \subseteq ToSet(slOutstanding.read) \ {c}
       /\ ToSet(slOutstanding'.write) \subseteq ToSet(slOutstanding.write) \ {c}
  <2>1. PICK a, b : a = RemoveFirst(slOutstanding.read, c) /\ b = RemoveFirst(slOutstanding.write, c)
    OBVIOUS
  <2>2. a \in Seq(SlConn) /\ IsInjective(a) /\ ToSet(a) \subseteq ToSet(slOutstanding.read) \ {c}
    BY <1>2, <1>7, <2>1, FirstRemoved DEF OutstandingInv
  <2>3. b \in Seq(SlConn) /\ IsInjective(b) /\ ToSet(b) \subseteq ToSet(slOutstanding.write) \ {c}
    BY <1>2, <1>7, <2>1, FirstRemoved DEF OutstandingInv
  <2>4. slOutstanding' = [read |-> a, write |-> b]
    BY <1>1, <2>1 DEF Discarded
  <2>. QED BY <2>2, <2>3, <2>4 DEF BuffersType
<1>13. OutstandingInv'
  BY <1>2, <1>5, <1>6, <1>8, <1>12 DEF OutstandingInv
<1>14. slRemoval' \in Seq(SlConn) /\ RemovalInv'
  <2>1. slRemoval' \in Seq(SlConn) /\ ToSet(slRemoval') = ToSet(slRemoval) \cup {c}
    BY <1>1, <1>7, Appended
  <2>. QED BY <1>2, <1>4, <1>5, <1>8, <2>1 DEF RemovalInv
<1>15. PICK h, W : /\ h = slConn[c].handle
                   /\ W = IF slConn[c].writeRegistered THEN slWatched.write \ {h} ELSE slWatched.write
  OBVIOUS
<1>16. /\ slWatched' \in [read : SUBSET Nat, write : SUBSET Nat]
       /\ slWatched'.read = slWatched.read \ {h} /\ slWatched'.write = W
  <2>1. slWatched \in [read : SUBSET Nat, write : SUBSET Nat]
    BY <1>2 DEF SlTypes
  <2>2. slWatched' = [read |-> slWatched.read \ {h}, write |-> W]
    BY <1>1, <1>15 DEF Unwatched
  <2>. QED BY <1>15, <2>1, <2>2
<1>17. BitsOfTheOwner'
  <2>1. \A d \in ToSet(slList) : d # c => slConn[d].handle # h
    BY <1>1, <1>2, <1>8, <1>15 DEF ListedInv
  <2>2. \A d \in ToSet(slList') : slConn'[d] = slConn[d] /\ d # c /\ d \in ToSet(slList)
    BY <1>5, <1>8, <1>9
  <2>3. slWatched'.read \subseteq {slConn'[d].handle : d \in ToSet(slList')}
    <3>1. SUFFICES ASSUME NEW x \in slWatched.read, x # h PROVE \E d \in ToSet(slList') : x = slConn'[d].handle
      BY <1>16
    <3>2. PICK d \in ToSet(slList) : x = slConn[d].handle
      BY <1>2 DEF BitsOfTheOwner
    <3>3. d \in ToSet(slList')
      BY <1>9, <1>15, <3>1, <3>2
    <3>. QED BY <2>2, <3>2, <3>3
  <2>4. slWatched.write = {slConn[d].handle : d \in {e \in ToSet(slList) : slConn[e].writeRegistered}}
    BY <1>2 DEF BitsOfTheOwner
  <2>5. {e \in ToSet(slList') : slConn'[e].writeRegistered}
          = {e \in ToSet(slList) : slConn[e].writeRegistered} \ {c}
    BY <1>9, <2>2
  <2>6. c \in ToSet(slList)
    BY <1>1, <1>2 DEF ListedInv
  <2>7. W = {slConn[d].handle : d \in {e \in ToSet(slList) : slConn[e].writeRegistered} \ {c}}
    <3>1. CASE slConn[c].writeRegistered
      <4>1. W = slWatched.write \ {h}
        BY <1>15, <3>1
      <4>. QED BY <1>15, <2>1, <2>4, <2>6, <4>1
    <3>2. CASE ~ slConn[c].writeRegistered
      <4>1. {e \in ToSet(slList) : slConn[e].writeRegistered} \ {c}
              = {e \in ToSet(slList) : slConn[e].writeRegistered}
        BY <3>2
      <4>2. W = slWatched.write
        BY <1>15, <3>2
      <4>. QED BY <2>4, <4>1, <4>2
    <3>. QED BY <3>1, <3>2
  <2>8. slWatched'.write = {slConn'[d].handle : d \in {e \in ToSet(slList') : slConn'[e].writeRegistered}}
    BY <1>16, <2>2, <2>5, <2>7
  <2>. QED BY <2>3, <2>8 DEF BitsOfTheOwner
<1>18. NoneDeleted
  BY <1>4, <1>5 DEF NoneDeleted
<1>19. slTodo' \in Seq(RoundTask) /\ TodoInv' /\ ReadyInv'
  BY <1>18, Calls DEF SlClose
<1>20. SlTypes'
  <2>1. slReady' = slReady
    BY DEF SlClose
  <2>. QED BY <1>2, <1>5, <1>9, <1>12, <1>14, <1>16, <1>19, <2>1 DEF SlTypes
<1>. QED BY <1>10, <1>11, <1>13, <1>14, <1>17, <1>19, <1>20 DEF SlInv

\* Every step keeps what the polling keeps.
LEMMA SelectStep == ASSUME SlInv, [SlNext]_slVars PROVE SlInv'
<1>1. CASE UNCHANGED slVars
  <2>1. UNCHANGED <<slConn, slList, slWatched, slReady, slOutstanding, slRemoval, slTodo>>
    BY <1>1 DEF slVars
  <2>2. ListedInv' /\ RegisteredInv' /\ BitsOfTheOwner' /\ OutstandingInv' /\ RemovalInv'
    BY <2>1, ConnectionsStay
  <2>3. SlTypes' /\ TodoInv' /\ ReadyInv'
    BY <2>1 DEF SlInv, SlTypes, TodoInv, ReadyInv, SlRunning
  <2>. QED BY <2>2, <2>3 DEF SlInv
<1>. QED BY <1>1, OutstandingKeeps, WaitKeeps, CallKeeps, ReapKeeps, ReadKeeps, WriteKeeps, OpenKeeps,
            EnqueueKeeps, AddOutstandingKeeps, ThrottleKeeps, CloseKeeps DEF SlNext

\* What the run checks follows from it.
LEMMA SelectIsEnough == ASSUME SlInv PROVE SetsAreSound
<1>1. SlTypes /\ ListedInv /\ RegisteredInv /\ BitsOfTheOwner /\ OutstandingInv /\ TodoInv /\ ReadyInv
  BY DEF SlInv
<1>2. /\ slOutstanding.read \in Seq(SlConn) /\ slOutstanding.write \in Seq(SlConn)
      /\ slReady.read \in Seq(SlConn) /\ slReady.write \in Seq(SlConn)
  BY <1>1 DEF SlTypes, BuffersType
<1>3. ReachedIsAlive
  <2>1. \A i \in DOMAIN slTodo : slConn[slTodo[i].conn].status # "FREED" \/ slTodo[i].op \in {"select", "call", "reap"}
    <3>1. DOMAIN slTodo = 1..Len(slTodo) /\ \A i \in 1..Len(slTodo) : slTodo[i] \in RoundTask
      BY <1>1 DEF SlTypes
    <3>2. \A i \in 1..Len(slTodo) : slTodo[i].op \in OfTheRound \cup OfConnections
      BY <3>1 DEF RoundTask
    <3>. QED BY <1>1, <3>1, <3>2 DEF TodoInv, OfTheRound
  <2>2. \A c \in ToSet(slOutstanding.read \o slOutstanding.write) : SlIsOpen(c)
    BY <1>1, <1>2, Joined DEF OutstandingInv
  <2>3. SlRunning("call") => \A c \in ToSet(slReady.read \o slReady.write) : slConn[c].status # "FREED"
    BY <1>1, <1>2, Joined DEF ReadyInv
  <2>. QED BY <2>1, <2>2, <2>3 DEF ReachedIsAlive
<1>4. QueuedIsWatched
  <2>1. ToSet(slList) \subseteq SlConn
    BY <1>1 DEF SlTypes, ToSet
  <2>. QED BY <1>1, <2>1 DEF QueuedIsWatched, BitsOfTheOwner, RegisteredInv
<1>5. EveryBitIsTraced
  <2>1. PICK x : x = Traced(slWatched.read, slWatched.write)
    OBVIOUS
  <2>2. /\ x.left = 0
        /\ \A c \in ToSet(slList) : /\ slConn[c].handle \in slWatched.read => c \in ToSet(x.read)
                                    /\ slConn[c].handle \in slWatched.write => c \in ToSet(x.write)
    <3>1. PICK r, w : r = slWatched.read /\ w = slWatched.write
      OBVIOUS
    <3>2. r \in SUBSET slWatched.read /\ w \in SUBSET slWatched.write /\ x = Traced(r, w)
      BY <2>1, <3>1
    <3>3. /\ x.left = 0
          /\ \A c \in ToSet(slList) : /\ slConn[c].handle \in r => c \in ToSet(x.read)
                                      /\ slConn[c].handle \in w => c \in ToSet(x.write)
      BY <3>2, EveryBitIsFound
    <3>. QED BY <3>1, <3>3
  <2>. QED BY <2>1, <2>2 DEF EveryBitIsTraced
<1>. QED BY <1>1, <1>3, <1>4, <1>5 DEF SetsAreSound

\* The sets of select, the arrays of a round and the connections agree, though handles are
\* given again within a round and a wait may be interrupted (polling_select.c:112-344,
\* 398-815).
THEOREM TheSetsAreSound == SlSpec => []SetsAreSound
<1>1. SlInv /\ [SlNext]_slVars => SlInv'
  BY SelectStep
<1>. QED BY <1>1, SelectStarts, SelectIsEnough, PTL DEF SlSpec

=============================================================================
