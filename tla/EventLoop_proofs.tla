-------------------------- MODULE EventLoop_proofs --------------------------
(***************************************************************************)
(* Proofs about EventLoop, for any connections, backends, sizes and limits *)
(* of the reads and the writes: the types, the agreement of the lists of   *)
(* the service and of the polling, the accounting and the taking up of the *)
(* writes, and the deletion of connections after the round.                *)
(*                                                                         *)
(* Most of what holds of a connection depends on which tasks are still to  *)
(* be done about it and not on their order, so that it is stated over the  *)
(* set of the tasks; Ends and WalksFirst are what matters of the order.    *)
(***************************************************************************)
EXTENDS EventLoop, ListLemmas

-----------------------------------------------------------------------------
(* The rest of the round.                                                  *)

\* The tasks of the loop itself are about no connection.
LoopOp == {"accept", "wait", "reap", "cycle", "closeall", "finish"}

\* What closes a connection, and what a handler that is called may have put in front
\* of the writing that it was called by.
Closing == {"close", "onclose", "unlink"}
Called == Closing \cup {"handler"}

\* What sends and walks through what was sent, which is done at once; what is in the
\* middle of a writing; what takes up the writing of a connection; and
\* what does so for one whose socket is not known to be writable.
Sending == {"send", "walk"}
Walking == {"walk", "after"}
Writing == {"write", "writable", "send", "walk", "after", "close", "unlink", "error"}
Waking == {"writable", "close", "unlink", "error"}

\* A round ends with a wait, or with the deletions and on_cycle; the service with the
\* closing of its connections and the end of its polling.
Ends(tasks) ==
    \A i \in 1..Len(tasks) :
        /\ tasks[i].op \in {"wait", "cycle", "finish"} => i = Len(tasks)
        /\ tasks[i].op = "reap" => i + 1 = Len(tasks) /\ tasks[i + 1].op = "cycle"
        /\ tasks[i].op = "closeall" => i + 1 = Len(tasks) /\ tasks[i + 1].op = "finish"

\* What is sent and walked through is so before anything else is done.
WalksFirst(tasks) ==
    \A i \in 1..Len(tasks) :
        /\ tasks[i].op \in Sending => i = 1
        /\ tasks[i].op = "after" => \A j \in 1..i - 1 : tasks[j].op \in Called

TaskTyped(task) == task \in Task /\ (task.op \in LoopOp <=> task.conn = "none")

Tasks(tasks) ==
    /\ tasks \in Seq(Task)
    /\ \A i \in 1..Len(tasks) : TaskTyped(tasks[i])
    /\ Ends(tasks) /\ WalksFirst(tasks)

\* Whether one of the tasks does one of some things to a connection.
Pending(T, ops, c) == \E task \in T : task.op \in ops /\ task.conn = c

-----------------------------------------------------------------------------
(* Connections, of which k is what connection_t keeps and s the socket; T  *)
(* is the set of the tasks and W that of the outstanding writes.           *)

\* The values of a queue end where the ones after them begin.
Queued(k) ==
    /\ \A i \in 1..Len(k.queue) : k.queue[i].end <= k.asked
    /\ \A i, j \in 1..Len(k.queue) :
          /\ i < j => k.queue[i].end + k.queue[j].size <= k.queue[j].end
          /\ j = i + 1 => k.queue[j].end = k.queue[i].end + k.queue[j].size
    /\ k.queue # <<>> => /\ k.queue[Len(k.queue)].end = k.asked
                         /\ k.queue[1].size <= k.queue[1].end

\* Where what is left of the queue begins.
Start(k) == IF k.queue = <<>> THEN k.asked ELSE k.queue[1].end - k.queue[1].size

\* The bytes that were sent and whose values are still in the queue are those that the
\* walk has still to go through.
Accounted(T, c, k, s) ==
    /\ s.wire <= k.asked
    /\ \A task \in T : task.op \in Walking /\ task.conn = c => s.wire - task.n = Start(k)
    /\ ~Pending(T, Walking, c) => s.wire = Start(k)

\* The values that are walked through were sent as a whole, or the kernel was asked
\* for the room of the rest.
CutShort(T, c, k, s) ==
    \A task \in T :
        task.op \in Walking /\ task.conn = c =>
            \/ task.op = "after" /\ task.n = 0
            \/ s.blocked \/ s.edge
            \/ \E j \in 1..Len(k.queue) : s.wire = k.queue[j].end

\* The writing of a connection that waits for it will be taken up, and that of one
\* whose socket is not known to be writable will be told of it.
Due(T, W, c, s) == c \in W \/ Pending(T, Writing, c) \/ s.edge \/ s.blocked
Woken(T, c, s) == Pending(T, Waking, c) \/ s.edge \/ s.blocked

TakenUp(T, W, c, k, s) ==
    /\ k.queue # <<>> => k.writeRegistered
    /\ k.writeRegistered => Due(T, W, c, s)
    /\ ~k.writeValid => Woken(T, c, s)

\* A connection while it is open.
Sound(T, W, c, k, s) ==
    /\ Queued(k) /\ Accounted(T, c, k, s) /\ CutShort(T, c, k, s) /\ TakenUp(T, W, c, k, s)
    /\ Pending(T, {"walk"}, c) => k.queue # <<>>

\* A connection before it is opened: nothing is about it.
Untouched(T, W, c, k, s) ==
    /\ k.queue = <<>> /\ ~k.writeRegistered /\ ~k.outstanding /\ k.asked = 0
    /\ s.wire = 0
    /\ c \notin W
    /\ \A task \in T : task.conn # c

Fine(T, W, c, k, s) ==
    /\ k.status = "OPEN" => Sound(T, W, c, k, s)
    /\ k.status = "NEW" => Untouched(T, W, c, k, s)

EachIsFine ==
    \A c \in Conn : Fine(ToSet(todo), ToSet(writeOutstanding), c, conn[c], sock[c])

\* Only an open connection is sent from and walked through.
SendsAreOpen == \A task \in ToSet(todo) : task.op \in Sending => IsOpen(task.conn)

BacklogIsNew == \A c \in backlog : conn[c].status = "NEW"

-----------------------------------------------------------------------------
(* The end of the service.                                                 *)

\* An open connection is in the list, or is being closed.
Listed ==
    \A c \in Conn : IsOpen(c) => c \in connections \/ Pending(ToSet(todo), {"close", "unlink"}, c)

\* The closing of the service runs by itself, and its end after it; the list is l.
Ending(T, status, l) ==
    \A task \in T :
        task.op \in {"closeall", "finish"} =>
            /\ status = "CLOSED"
            /\ \A other \in T : other.op \in Closing \cup {"closeall", "finish"}
            /\ l = {} \/ \E other \in T : other.op = "closeall"

EndOfService ==
    (service = "FINISHED" => todo = <<>>) /\ Ending(ToSet(todo), service, connections)

\* The inductive invariant.
LoopInv ==
    /\ TypeOK /\ Tasks(todo) /\ EachIsFine /\ SendsAreOpen /\ BacklogIsNew
    /\ ListsAgree /\ Listed /\ EndOfService

-----------------------------------------------------------------------------
(* The tasks.                                                              *)

\* What is known of the task that runs and of those behind it.
LEMMA Running_ ==
    ASSUME NEW t, Tasks(t), t # <<>>
    PROVE  /\ t \in Seq(Task) /\ Tail(t) \in Seq(Task)
           /\ Head(t) = t[1] /\ TaskTyped(Head(t))
           /\ ToSet(t) = {Head(t)} \cup ToSet(Tail(t))
           /\ \A task \in ToSet(t) : TaskTyped(task)
           /\ \A task \in ToSet(Tail(t)) : task.op \notin Sending
           /\ Head(t).op \notin Called => \A task \in ToSet(Tail(t)) : task.op # "after"
           /\ Head(t).op \in {"wait", "cycle", "finish"} => Tail(t) = <<>>
           /\ Head(t).op = "reap" => \A task \in ToSet(Tail(t)) : task.op = "cycle"
           /\ Head(t).op = "closeall" => \A task \in ToSet(Tail(t)) : task.op = "finish"
<1>1. /\ t \in Seq(Task) /\ \A i \in 1..Len(t) : TaskTyped(t[i])
      /\ Ends(t) /\ WalksFirst(t)
  BY DEF Tasks
<1>2. /\ Len(t) \in Nat \ {0} /\ Tail(t) \in Seq(Task) /\ Len(Tail(t)) = Len(t) - 1
      /\ \A i \in 1..Len(t) - 1 : Tail(t)[i] = t[i + 1]
      /\ Head(t) = t[1] /\ ToSet(t) = {Head(t)} \cup ToSet(Tail(t))
  BY <1>1, HeadAndRest
<1>3. /\ DOMAIN t = 1..Len(t) /\ DOMAIN Tail(t) = 1..Len(t) - 1
      /\ 1 \in 1..Len(t)
  BY <1>1, <1>2
<1>4. \A task \in ToSet(t) : TaskTyped(task)
  BY <1>1, <1>3 DEF ToSet
<1>5. \A task \in ToSet(Tail(t)) : \E i \in 2..Len(t) : task = t[i]
  <2>1. ASSUME NEW j \in 1..Len(t) - 1 PROVE j + 1 \in 2..Len(t) /\ Tail(t)[j] = t[j + 1]
    BY <1>2
  <2>. QED BY <2>1, <1>3 DEF ToSet
<1>6. \A task \in ToSet(Tail(t)) : task.op \notin Sending
  <2>1. ASSUME NEW i \in 2..Len(t) PROVE t[i].op \notin Sending
    BY <1>1, <1>2 DEF WalksFirst
  <2>. QED BY <2>1, <1>5
<1>7. ASSUME Head(t).op \notin Called PROVE \A task \in ToSet(Tail(t)) : task.op # "after"
  <2>1. ASSUME NEW i \in 2..Len(t) PROVE t[i].op # "after"
    <3>1. i \in 1..Len(t) /\ 1 \in 1..i - 1
      BY <1>2
    <3>. QED BY <3>1, <1>1, <1>2, <1>7 DEF WalksFirst
  <2>. QED BY <2>1, <1>5
<1>8. ASSUME Head(t).op \in {"wait", "cycle", "finish"} PROVE Tail(t) = <<>>
  <2>1. 1 = Len(t)
    BY <1>1, <1>2, <1>3, <1>8 DEF Ends
  <2>. QED BY <2>1, <1>2
<1>9. ASSUME NEW i \in 2..Len(t)
      PROVE  /\ Head(t).op = "reap" => t[i].op = "cycle"
             /\ Head(t).op = "closeall" => t[i].op = "finish"
  <2>1. /\ Head(t).op = "reap" => 1 + 1 = Len(t) /\ t[1 + 1].op = "cycle"
        /\ Head(t).op = "closeall" => 1 + 1 = Len(t) /\ t[1 + 1].op = "finish"
    BY <1>1, <1>2, <1>3 DEF Ends
  <2>2. Len(t) = 1 + 1 => i = 1 + 1
    <3>. Len(t) \in Int /\ i \in Int /\ i >= 2 /\ i <= Len(t)
      BY <1>2
    <3>. QED OBVIOUS
  <2>. QED BY <2>1, <2>2
<1>. QED BY <1>1, <1>2, <1>3, <1>4, <1>5, <1>6, <1>7, <1>8, <1>9

\* The task that runs gives way to others, which are not of the loop: a handler and what
\* closes a connection may come before the rest of a walk, nothing else does (Becomes).
LEMMA Become_ ==
    ASSUME NEW t, Tasks(t), t # <<>>,
           NEW new \in Seq(Task), WalksFirst(new),
           \A i \in 1..Len(new) : TaskTyped(new[i]) /\ new[i].op \notin LoopOp,
           Head(t).op \in Called => \A i \in 1..Len(new) : new[i].op \in Called
    PROVE  /\ Tasks(new \o Tail(t))
           /\ ToSet(new \o Tail(t)) = ToSet(new) \cup ToSet(Tail(t))
<1>. DEFINE u == new \o Tail(t)
            n == Len(new)
<1>1. /\ t \in Seq(Task) /\ \A i \in 1..Len(t) : TaskTyped(t[i])
      /\ Ends(t) /\ WalksFirst(t)
  BY DEF Tasks
<1>2. /\ Len(t) \in Nat \ {0} /\ Tail(t) \in Seq(Task) /\ Len(Tail(t)) = Len(t) - 1
      /\ \A i \in 1..Len(t) - 1 : Tail(t)[i] = t[i + 1]
      /\ Head(t) = t[1]
  BY <1>1, HeadAndRest
<1>3. /\ u \in Seq(Task) /\ Len(u) = n + (Len(t) - 1)
      /\ \A i \in 1..n + (Len(t) - 1) : u[i] = IF i <= n THEN new[i] ELSE Tail(t)[i - n]
      /\ ToSet(u) = ToSet(new) \cup ToSet(Tail(t))
  <2>1. /\ u \in Seq(Task) /\ Len(u) = n + Len(Tail(t))
        /\ \A i \in 1..n + Len(Tail(t)) : u[i] = IF i <= n THEN new[i] ELSE Tail(t)[i - n]
        /\ ToSet(u) = ToSet(new) \cup ToSet(Tail(t))
    BY <1>2, Joined, ZenonT(30)
  <2>. QED BY <2>1, <1>2
<1>4. n \in Nat
  OBVIOUS
<1>. HIDE DEF u, n
<1>5. \A i \in 1..Len(u) :
         \/ i \in 1..n /\ u[i] = new[i]
         \/ i > n /\ i - n + 1 \in 2..Len(t) /\ u[i] = t[i - n + 1]
  <2>1. ASSUME NEW i \in 1..Len(u), i > n
        PROVE  i - n + 1 \in 2..Len(t) /\ u[i] = t[i - n + 1]
    <3>1. i - n \in 1..Len(t) - 1 /\ i \in 1..n + (Len(t) - 1) /\ ~ (i <= n)
      BY <2>1, <1>2, <1>3, <1>4
    <3>. QED BY <3>1, <1>2, <1>3, <1>4
  <2>2. ASSUME NEW i \in 1..Len(u), ~ (i > n) PROVE i \in 1..n /\ u[i] = new[i]
    BY <2>2, <1>2, <1>3, <1>4
  <2>. QED BY <2>1, <2>2
<1>6. \A i \in 1..n : TaskTyped(new[i]) /\ new[i].op \notin LoopOp
  BY DEF n
<1>7. ASSUME NEW i \in 1..Len(u) PROVE TaskTyped(u[i])
  BY <1>1, <1>2, <1>5, <1>6
<1>8. Ends(u)
  <2>1. SUFFICES ASSUME NEW i \in 1..Len(u), u[i].op \in LoopOp
                 PROVE  /\ u[i].op \in {"wait", "cycle", "finish"} => i = Len(u)
                        /\ u[i].op = "reap" => i + 1 = Len(u) /\ u[i + 1].op = "cycle"
                        /\ u[i].op = "closeall" => i + 1 = Len(u) /\ u[i + 1].op = "finish"
    BY DEF Ends, LoopOp
  <2>2. i > n /\ i - n + 1 \in 2..Len(t) /\ u[i] = t[i - n + 1]
    BY <2>1, <1>5, <1>6
  <2>3. i - n + 1 \in 1..Len(t) /\ i \in Int
    BY <2>2, <1>2
  <2>4. /\ t[i - n + 1].op \in {"wait", "cycle", "finish"} => i - n + 1 = Len(t)
        /\ t[i - n + 1].op = "reap" =>
              i - n + 1 + 1 = Len(t) /\ t[i - n + 1 + 1].op = "cycle"
        /\ t[i - n + 1].op = "closeall" =>
              i - n + 1 + 1 = Len(t) /\ t[i - n + 1 + 1].op = "finish"
    BY <2>3, <1>1 DEF Ends
  <2>5. i - n + 1 = Len(t) => i = Len(u)
    BY <2>3, <1>2, <1>3, <1>4
  <2>6. i - n + 1 + 1 = Len(t) => i + 1 = Len(u) /\ u[i + 1] = t[i - n + 1 + 1]
    <3>1. HAVE i - n + 1 + 1 = Len(t)
    <3>2. i + 1 = Len(u) /\ i + 1 \in 1..Len(u) /\ i + 1 > n
      BY <3>1, <2>2, <2>3, <1>2, <1>3, <1>4
    <3>3. ASSUME NEW k \in 1..Len(u), k = i + 1 PROVE u[k] = t[i - n + 1 + 1]
      <4>1. k - n + 1 = i - n + 1 + 1 /\ ~ (k \in 1..n)
        BY <3>2, <3>3, <2>3, <1>4
      <4>. QED BY <4>1, <1>5
    <3>. QED BY <3>2, <3>3
  <2>. QED BY <2>2, <2>4, <2>5, <2>6
<1>9. WalksFirst(u)
  <2>1. ASSUME NEW i \in 1..Len(u), u[i].op \in Sending PROVE i = 1
    <3>1. ~ (i > n /\ i - n + 1 \in 2..Len(t) /\ u[i] = t[i - n + 1])
      BY <2>1, <1>1, <1>2, <1>4 DEF WalksFirst
    <3>. QED BY <3>1, <2>1, <1>5 DEF WalksFirst, n
  <2>2. ASSUME NEW i \in 1..Len(u), u[i].op = "after", NEW j \in 1..i - 1
        PROVE  u[j].op \in Called
    <3>1. CASE i \in 1..n /\ u[i] = new[i]
      <4>1. j \in 1..n /\ ~ (j > n) /\ j \in 1..Len(u) /\ new[j].op \in Called
        BY <3>1, <2>2, <1>4 DEF WalksFirst, n
      <4>. QED BY <4>1, <1>5
    <3>2. CASE i > n /\ i - n + 1 \in 2..Len(t) /\ u[i] = t[i - n + 1]
      <4>1. i - n + 1 \in 1..Len(t) /\ \A k \in 1..i - n : t[k].op \in Called
        <5>1. i - n + 1 \in 1..Len(t) /\ (i - n + 1) - 1 = i - n
          BY <3>2, <1>2, <1>4
        <5>2. \A k \in 1..(i - n + 1) - 1 : t[k].op \in Called
          BY <5>1, <3>2, <2>2, <1>1 DEF WalksFirst
        <5>. QED BY <5>1, <5>2
      <4>2. t[1].op \in Called /\ j \in 1..Len(u)
        BY <4>1, <3>2, <1>2, <1>3, <1>4
      <4>3. \A k \in 1..n : new[k].op \in Called
        BY <4>2, <1>2 DEF n
      <4>4. j > n => j - n + 1 \in 1..i - n
        BY <3>2, <1>2, <1>4
      <4>. QED BY <4>1, <4>2, <4>3, <4>4, <1>5
    <3>. QED BY <3>1, <3>2, <1>5
  <2>. QED BY <2>1, <2>2 DEF WalksFirst
<1>. QED BY <1>3, <1>7, <1>8, <1>9 DEF Tasks, u

-----------------------------------------------------------------------------
(* Queues.                                                                 *)

\* A value that is written comes at the end of the queue and leaves its start alone.
LEMMA WrittenIsQueued ==
    ASSUME NEW k \in Connection, Queued(k), NEW size \in Nat
    PROVE  LET k2 == Written(k, size)
           IN  /\ k2 \in Connection /\ Queued(k2) /\ Start(k2) = Start(k)
               /\ k2.asked = k.asked + size /\ k2.queue # <<>> /\ k2.writeRegistered
               /\ k2.status = k.status /\ k2.writeValid = k.writeValid
               /\ k2.outstanding = k.outstanding
               /\ \A j \in 1..Len(k.queue) : j \in 1..Len(k2.queue) /\ k2.queue[j] = k.queue[j]
<1>. DEFINE k2 == Written(k, size)
            q == k.queue
            new == [size |-> size, end |-> k.asked + size]
<1>1. /\ q \in Seq(Value) /\ k.asked \in Nat /\ Len(q) \in Nat
      /\ \A i \in 1..Len(q) : q[i].size \in Nat /\ q[i].end \in Nat
  <2>1. q \in Seq(Value) /\ k.asked \in Nat
    BY DEF Connection
  <2>2. \A i \in 1..Len(q) : q[i] \in Value
    BY <2>1
  <2>. QED BY <2>1, <2>2 DEF Value
<1>2. new \in Value
  BY <1>1 DEF Value
<1>3. /\ k2 \in Connection /\ k2.queue = Append(q, new) /\ k2.asked = k.asked + size
      /\ k2.writeRegistered /\ k2.status = k.status /\ k2.writeValid = k.writeValid
      /\ k2.outstanding = k.outstanding
  <2>1. Append(q, new) \in Seq(Value)
    BY <1>1, <1>2
  <2>2. k2 = [k EXCEPT !.queue = Append(q, new), !.asked = k.asked + size,
                       !.writeRegistered = TRUE]
    BY DEF Written
  <2>3. k.asked + size \in Nat
    BY <1>1
  <2>. HIDE DEF k2, new
  <2>. QED BY <2>1, <2>2, <2>3 DEF Connection
<1>4. /\ Len(k2.queue) = Len(q) + 1
      /\ \A i \in 1..Len(q) + 1 : k2.queue[i] = IF i <= Len(q) THEN q[i] ELSE new
  BY <1>1, <1>2, <1>3, Appended
<1>5. /\ k2.queue # <<>>
      /\ \A j \in 1..Len(q) : j \in 1..Len(k2.queue) /\ k2.queue[j] = q[j]
      /\ k2.queue[Len(q) + 1] = new /\ Len(q) + 1 \in 1..Len(k2.queue)
  <2>1. \A j \in 1..Len(q) : j \in 1..Len(q) + 1 /\ j <= Len(q)
    BY <1>1
  <2>2. Len(q) + 1 \in 1..Len(q) + 1 /\ ~ (Len(q) + 1 <= Len(q))
    BY <1>1
  <2>3. k2.queue # <<>>
    <3>1. Len(k2.queue) # 0
      BY <1>1, <1>4
    <3>. QED BY <3>1
  <2>. QED BY <1>4, <2>1, <2>2, <2>3
<1>6. new.size = size /\ new.end = k.asked + size
  OBVIOUS
<1>7. q = <<>> <=> Len(q) = 0
  BY <1>1
<1>. HIDE DEF k2, new, q
<1>8. Queued(k2)
  <2>1. /\ \A i \in 1..Len(q) : q[i].end <= k.asked
        /\ \A i, j \in 1..Len(q) : /\ i < j => q[i].end + q[j].size <= q[j].end
                                   /\ j = i + 1 => q[j].end = q[i].end + q[j].size
        /\ q # <<>> => q[Len(q)].end = k.asked /\ q[1].size <= q[1].end
    BY DEF Queued, q
  <2>2. \A i \in 1..Len(k2.queue) : \/ i \in 1..Len(q) /\ k2.queue[i] = q[i]
                                    \/ i = Len(q) + 1 /\ k2.queue[i] = new
    BY <1>1, <1>4, <1>5
  <2>3. \A i \in 1..Len(k2.queue) : k2.queue[i].end <= k2.asked
    BY <1>1, <1>3, <1>6, <2>1, <2>2
  <2>4. ASSUME NEW i \in 1..Len(k2.queue), NEW j \in 1..Len(k2.queue)
        PROVE  /\ i < j => k2.queue[i].end + k2.queue[j].size <= k2.queue[j].end
               /\ j = i + 1 => k2.queue[j].end = k2.queue[i].end + k2.queue[j].size
    <3>1. CASE i \in 1..Len(q) /\ j \in 1..Len(q)
      BY <3>1, <2>1, <1>5
    <3>2. CASE i \in 1..Len(q) /\ j = Len(q) + 1
      <4>1. /\ k2.queue[i] = q[i] /\ k2.queue[j] = new /\ q[i].end <= k.asked
            /\ q[i].end \in Nat
        BY <3>2, <2>1, <1>1, <1>5
      <4>2. j = i + 1 => q[i].end = k.asked
        <5>1. j = i + 1 => i = Len(q) /\ q # <<>>
          BY <3>2, <1>1, <1>7
        <5>. QED BY <5>1, <2>1
      <4>. QED BY <4>1, <4>2, <1>1, <1>6
    <3>3. CASE i = Len(q) + 1
      BY <3>3, <1>1, <1>4
    <3>. QED BY <3>1, <3>2, <3>3, <2>2
  <2>5. k2.queue[Len(k2.queue)].end = k2.asked
    BY <1>3, <1>4, <1>5, <1>6
  <2>6. k2.queue[1].size <= k2.queue[1].end
    <3>1. CASE Len(q) = 0
      BY <3>1, <1>1, <1>5, <1>6
    <3>2. CASE Len(q) # 0
      BY <3>2, <1>1, <1>5, <1>7, <2>1
    <3>. QED BY <3>1, <3>2
  <2>. QED BY <2>3, <2>4, <2>5, <2>6 DEF Queued
<1>9. Start(k2) = Start(k)
  <2>1. CASE Len(q) = 0
    BY <2>1, <1>1, <1>5, <1>6, <1>7 DEF Start, q
  <2>2. CASE Len(q) # 0
    <3>1. 1 \in 1..Len(q)
      BY <2>2, <1>1
    <3>. QED BY <3>1, <2>2, <1>5, <1>7 DEF Start, q
  <2>. QED BY <2>1, <2>2
<1>. QED BY <1>3, <1>5, <1>8, <1>9 DEF k2, q

\* The first value leaves the queue, which then starts where that value ended.
LEMMA FirstIsTaken ==
    ASSUME NEW k \in Connection, Queued(k), k.queue # <<>>
    PROVE  LET k2 == [k EXCEPT !.queue = Tail(@)]
           IN  /\ k2 \in Connection /\ Queued(k2) /\ Start(k2) = k.queue[1].end
               /\ k2.asked = k.asked /\ k2.writeRegistered = k.writeRegistered
               /\ k2.status = k.status /\ k2.writeValid = k.writeValid
               /\ k2.outstanding = k.outstanding
               /\ \A j \in 2..Len(k.queue) : /\ j - 1 \in 1..Len(k2.queue)
                                             /\ k2.queue[j - 1] = k.queue[j]
<1>. DEFINE k2 == [k EXCEPT !.queue = Tail(@)]
            q == k.queue
<1>1. /\ q \in Seq(Value) /\ k.asked \in Nat /\ Len(q) \in Nat \ {0}
      /\ \A i \in 1..Len(q) : q[i].size \in Nat /\ q[i].end \in Nat
  <2>1. q \in Seq(Value) /\ k.asked \in Nat
    BY DEF Connection
  <2>2. \A i \in 1..Len(q) : q[i] \in Value
    BY <2>1
  <2>. QED BY <2>1, <2>2, HeadAndRest DEF Value
<1>2. /\ Tail(q) \in Seq(Value) /\ Len(Tail(q)) = Len(q) - 1
      /\ \A i \in 1..Len(q) - 1 : Tail(q)[i] = q[i + 1]
  BY <1>1, HeadAndRest
<1>3. /\ k2 \in Connection /\ k2.queue = Tail(q) /\ k2.asked = k.asked
      /\ k2.writeRegistered = k.writeRegistered /\ k2.status = k.status
      /\ k2.writeValid = k.writeValid /\ k2.outstanding = k.outstanding
  BY <1>2 DEF Connection
<1>4. /\ \A i \in 1..Len(q) : q[i].end <= k.asked
      /\ \A i, j \in 1..Len(q) : /\ i < j => q[i].end + q[j].size <= q[j].end
                                 /\ j = i + 1 => q[j].end = q[i].end + q[j].size
      /\ q[Len(q)].end = k.asked /\ q[1].size <= q[1].end
  BY DEF Queued
<1>. HIDE DEF k2, q
<1>5. Len(k2.queue) = Len(q) - 1 /\ (k2.queue = <<>> <=> Len(q) = 1)
  BY <1>1, <1>2, <1>3
<1>6. \A i \in 1..Len(k2.queue) : i + 1 \in 1..Len(q) /\ k2.queue[i] = q[i + 1]
  BY <1>1, <1>2, <1>3, <1>5
<1>7. Queued(k2)
  <2>1. \A i \in 1..Len(k2.queue) : k2.queue[i].end <= k2.asked
    BY <1>3, <1>4, <1>6
  <2>2. ASSUME NEW i \in 1..Len(k2.queue), NEW j \in 1..Len(k2.queue)
        PROVE  /\ i < j => k2.queue[i].end + k2.queue[j].size <= k2.queue[j].end
               /\ j = i + 1 => k2.queue[j].end = k2.queue[i].end + k2.queue[j].size
    <3>1. /\ i + 1 \in 1..Len(q) /\ j + 1 \in 1..Len(q)
          /\ k2.queue[i] = q[i + 1] /\ k2.queue[j] = q[j + 1]
      BY <1>6
    <3>2. (i < j => i + 1 < j + 1) /\ (j = i + 1 => j + 1 = (i + 1) + 1)
      OBVIOUS
    <3>. QED BY <3>1, <3>2, <1>4
  <2>3. k2.queue # <<>> => /\ k2.queue[Len(k2.queue)].end = k2.asked
                           /\ k2.queue[1].size <= k2.queue[1].end
    <3>1. HAVE k2.queue # <<>>
    <3>2. /\ Len(k2.queue) \in 1..Len(k2.queue) /\ 1 \in 1..Len(k2.queue)
          /\ Len(k2.queue) + 1 = Len(q)
      BY <3>1, <1>1, <1>5
    <3>3. k2.queue[Len(k2.queue)].end = k2.asked
      BY <3>2, <1>3, <1>4, <1>6
    <3>4. /\ 1 + 1 \in 1..Len(q) /\ 1 \in 1..Len(q) /\ k2.queue[1] = q[1 + 1]
          /\ q[1 + 1].end = q[1].end + q[1 + 1].size
      <4>1. 1 + 1 \in 1..Len(q) /\ 1 \in 1..Len(q) /\ k2.queue[1] = q[1 + 1]
        BY <3>2, <1>1, <1>6
      <4>. QED BY <4>1, <1>4
    <3>. QED BY <3>3, <3>4, <1>1
  <2>. QED BY <2>1, <2>2, <2>3 DEF Queued
<1>8. Start(k2) = q[1].end
  <2>1. CASE Len(q) = 1
    BY <2>1, <1>3, <1>4, <1>5 DEF Start
  <2>2. CASE Len(q) # 1
    <3>1. 1 \in 1..Len(k2.queue) /\ 1 \in 1..Len(q) /\ k2.queue # <<>>
      BY <2>2, <1>1, <1>5
    <3>2. 1 + 1 \in 1..Len(q) /\ k2.queue[1] = q[1 + 1]
      BY <3>1, <1>6
    <3>3. q[1 + 1].end = q[1].end + q[1 + 1].size
      BY <3>1, <3>2, <1>4
    <3>. QED BY <3>1, <3>2, <3>3, <1>1 DEF Start
  <2>. QED BY <2>1, <2>2
<1>9. ASSUME NEW j \in 2..Len(q) PROVE j - 1 \in 1..Len(k2.queue) /\ k2.queue[j - 1] = q[j]
  <2>1. j - 1 \in 1..Len(k2.queue) /\ (j - 1) + 1 = j
    BY <1>1, <1>5
  <2>. QED BY <2>1, <1>6
<1>. QED BY <1>3, <1>7, <1>8, <1>9 DEF k2, q

\* A part of the first value was sent: the queue starts that much later.
LEMMA FirstIsCut ==
    ASSUME NEW k \in Connection, Queued(k), k.queue # <<>>,
           NEW n \in Nat, n < k.queue[1].size
    PROVE  LET k2 == [k EXCEPT !.queue[1].size = @ - n, !.writeValid = FALSE]
           IN  /\ k2 \in Connection /\ Queued(k2) /\ Start(k2) = Start(k) + n
               /\ k2.asked = k.asked /\ k2.writeRegistered = k.writeRegistered
               /\ k2.status = k.status /\ k2.outstanding = k.outstanding
               /\ k2.queue # <<>>
<1>. DEFINE k2 == [k EXCEPT !.queue[1].size = @ - n, !.writeValid = FALSE]
            q == k.queue
            r == [q EXCEPT ![1].size = @ - n]
<1>1. /\ q \in Seq(Value) /\ k.asked \in Nat /\ Len(q) \in Nat \ {0} /\ 1 \in 1..Len(q)
      /\ \A i \in 1..Len(q) : q[i] \in Value /\ q[i].size \in Nat /\ q[i].end \in Nat
  <2>1. q \in Seq(Value) /\ k.asked \in Nat
    BY DEF Connection
  <2>2. \A i \in 1..Len(q) : q[i] \in Value
    BY <2>1
  <2>. QED BY <2>1, <2>2, HeadAndRest DEF Value
<1>2. /\ r \in Seq(Value) /\ Len(r) = Len(q)
      /\ \A i \in 2..Len(q) : r[i] = q[i]
      /\ r[1].end = q[1].end /\ r[1].size = q[1].size - n
  <2>1. DOMAIN q = 1..Len(q)
    BY <1>1
  <2>2. [q[1] EXCEPT !.size = @ - n] \in Value
    <3>1. q[1].size - n \in Nat /\ q[1] \in Value
      BY <1>1
    <3>. QED BY <3>1 DEF Value
  <2>3. r = [q EXCEPT ![1] = [q[1] EXCEPT !.size = @ - n]]
    OBVIOUS
  <2>4. r \in Seq(Value) /\ Len(r) = Len(q)
    BY <1>1, <2>2, <2>3
  <2>5. \A i \in 2..Len(q) : r[i] = q[i]
    BY <1>1, <2>1
  <2>6. r[1] = [q[1] EXCEPT !.size = @ - n]
    BY <1>1, <2>1
  <2>. QED BY <2>4, <2>5, <2>6, <1>1, SMTT(20) DEF Value
<1>3. /\ k2 \in Connection /\ k2.queue = r /\ k2.asked = k.asked
      /\ k2.writeRegistered = k.writeRegistered /\ k2.status = k.status
      /\ k2.outstanding = k.outstanding
  BY <1>2 DEF Connection
<1>4. /\ \A i \in 1..Len(q) : q[i].end <= k.asked
      /\ \A i, j \in 1..Len(q) : /\ i < j => q[i].end + q[j].size <= q[j].end
                                 /\ j = i + 1 => q[j].end = q[i].end + q[j].size
      /\ q[Len(q)].end = k.asked /\ q[1].size <= q[1].end
  BY DEF Queued
<1>. HIDE DEF k2, q, r
<1>5. r # <<>>
  BY <1>1, <1>2
<1>6. \A i \in 1..Len(q) : r[i].end = q[i].end /\ (i # 1 => r[i].size = q[i].size)
  BY <1>1, <1>2
<1>7. Queued(k2)
  <2>1. \A i \in 1..Len(r) : r[i].end <= k2.asked
    BY <1>2, <1>3, <1>4, <1>6
  <2>2. \A i, j \in 1..Len(r) : /\ i < j => r[i].end + r[j].size <= r[j].end
                                /\ j = i + 1 => r[j].end = r[i].end + r[j].size
    BY <1>1, <1>2, <1>4, <1>6
  <2>3. r[Len(r)].end = k2.asked /\ r[1].size <= r[1].end
    BY <1>1, <1>2, <1>3, <1>4, <1>6
  <2>. QED BY <1>3, <2>1, <2>2, <2>3 DEF Queued
<1>8. Start(k2) = Start(k) + n
  <2>1. q # <<>> /\ q[1].end - q[1].size + n = q[1].end - (q[1].size - n)
    BY <1>1, SMTT(20) DEF q
  <2>. QED BY <2>1, <1>1, <1>2, <1>3, <1>5 DEF Start, q
<1>. QED BY <1>3, <1>5, <1>7, <1>8 DEF k2

-----------------------------------------------------------------------------
(* What a step leaves of a connection.                                     *)

\* A connection that is open keeps what holds of it when its queue and its bytes are left
\* alone and whatever took up its writing still does, or something else.
LEMMA SoundKept ==
    ASSUME NEW T, NEW T2, NEW W, NEW W2, NEW c, NEW k, NEW k2, NEW s, NEW s2,
           Sound(T, W, c, k, s),
           k2.queue = k.queue, k2.asked = k.asked, k2.writeRegistered = k.writeRegistered,
           s2.wire = s.wire, s.blocked \/ s.edge => s2.blocked \/ s2.edge,
           \A task \in T \cup T2 :
              task.op \in Walking /\ task.conn = c => (task \in T <=> task \in T2),
           Due(T, W, c, s) => Due(T2, W2, c, s2),
           ~k2.writeValid => Woken(T2, c, s2)
    PROVE  Sound(T2, W2, c, k2, s2)
<1>1. Queued(k2) /\ Start(k2) = Start(k)
  BY DEF Sound, Queued, Start
<1>2. Accounted(T2, c, k2, s2)
  BY <1>1 DEF Sound, Accounted, Pending
<1>3. CutShort(T2, c, k2, s2)
  BY DEF Sound, CutShort
<1>4. TakenUp(T2, W2, c, k2, s2)
  BY DEF Sound, TakenUp
<1>5. Pending(T2, {"walk"}, c) => k2.queue # <<>>
  BY DEF Sound, Pending, Walking
<1>. QED BY <1>1, <1>2, <1>3, <1>4, <1>5 DEF Sound

\* A connection that a step is not about, but for tasks that close it.
LEMMA FineKept ==
    ASSUME NEW T, NEW T2, NEW W, NEW W2, NEW c, NEW k, NEW k2, NEW s, NEW s2,
           Fine(T, W, c, k, s),
           k2.status = k.status, k2.queue = k.queue, k2.asked = k.asked,
           k2.writeRegistered = k.writeRegistered, k2.writeValid = k.writeValid,
           k2.outstanding = k.outstanding \/ k.status # "NEW",
           s2.wire = s.wire, s.blocked \/ s.edge => s2.blocked \/ s2.edge,
           \A task \in T2 : task.conn = c => \/ task \in T
                                             \/ k.status # "NEW" /\ task.op \notin Walking,
           \A task \in T : task.conn = c /\ task.op \in Writing => task \in T2,
           c \in W => c \in W2, k.status = "NEW" => c \notin W2
    PROVE  Fine(T2, W2, c, k2, s2)
<1>1. ASSUME k2.status = "OPEN" PROVE Sound(T2, W2, c, k2, s2)
  <2>1. Sound(T, W, c, k, s)
    BY <1>1 DEF Fine
  <2>2. \A task \in T \cup T2 :
           task.op \in Walking /\ task.conn = c => (task \in T <=> task \in T2)
    BY DEF Walking, Writing
  <2>3. /\ Pending(T, Writing, c) => Pending(T2, Writing, c)
        /\ Pending(T, Waking, c) => Pending(T2, Waking, c)
    BY DEF Pending, Writing, Waking
  <2>4. Due(T, W, c, s) => Due(T2, W2, c, s2)
    BY <2>3 DEF Due
  <2>5. ~k2.writeValid => Woken(T2, c, s2)
    BY <2>1, <2>3 DEF Sound, TakenUp, Woken
  <2>. QED BY <2>1, <2>2, <2>4, <2>5, SoundKept
<1>2. ASSUME k2.status = "NEW" PROVE Untouched(T2, W2, c, k2, s2)
  BY <1>2 DEF Fine, Untouched
<1>. QED BY <1>1, <1>2 DEF Fine

\* A value is written on an open connection: its writing was due, or becomes outstanding.
LEMMA SoundWhenWritten ==
    ASSUME NEW T, NEW W, NEW W2, NEW c, NEW k \in Connection, NEW s, NEW size \in Nat,
           Sound(T, W, c, k, s), k.status = "OPEN", s.wire \in Nat,
           \A d : d \in W2 <=> d \in W \/ (d = c /\ Registers(k))
    PROVE  Sound(T, W2, c, Written(k, size), s)
<1>. DEFINE k2 == Written(k, size)
<1>1. /\ k2 \in Connection /\ Queued(k2) /\ Start(k2) = Start(k)
      /\ k2.asked = k.asked + size /\ k2.queue # <<>> /\ k2.writeRegistered
      /\ k2.writeValid = k.writeValid
      /\ \A j \in 1..Len(k.queue) : j \in 1..Len(k2.queue) /\ k2.queue[j] = k.queue[j]
  BY WrittenIsQueued DEF Sound
<1>. HIDE DEF k2
<1>2. k.asked \in Nat
  BY DEF Connection
<1>3. Accounted(T, c, k2, s)
  BY <1>1, <1>2 DEF Sound, Accounted
<1>4. CutShort(T, c, k2, s)
  BY <1>1 DEF Sound, CutShort
<1>5. Due(T, W2, c, s)
  <2>1. CASE k.writeRegistered
    BY <2>1 DEF Sound, TakenUp, Due
  <2>2. CASE ~k.writeRegistered /\ k.writeValid
    BY <2>2 DEF Registers, Due
  <2>3. CASE ~k.writeValid
    BY <2>3 DEF Sound, TakenUp, Woken, Due, Pending, Waking, Writing
  <2>. QED BY <2>1, <2>2, <2>3
<1>6. TakenUp(T, W2, c, k2, s)
  BY <1>1, <1>5 DEF Sound, TakenUp
<1>. QED BY <1>1, <1>3, <1>4, <1>6 DEF Sound, k2

-----------------------------------------------------------------------------
(* What the invariant says.                                                *)

\* What is used most of the types: the tasks, the arrays and the records of a connection.
LEMMA Typed ==
    ASSUME LoopInv
    PROVE  /\ conn \in [Conn -> Connection] /\ sock \in [Conn -> Socket]
           /\ \A c \in Conn : conn[c] \in Connection /\ sock[c] \in Socket
           /\ backlog \subseteq Clients /\ connections \subseteq Conn
           /\ readOutstanding \in Seq(Conn) /\ writeOutstanding \in Seq(Conn)
           /\ removal \in Seq(Conn) /\ todo \in Seq(Task) /\ Tasks(todo)
           /\ service \in {"OPEN", "CLOSED", "FINISHED"}
           /\ todo # <<>> => service # "FINISHED"
  BY DEF LoopInv, TypeOK, EndOfService

\* The lists do not depend on what a step that opens, closes and deletes nothing does.
LEMMA ListsKept ==
    ASSUME ListsAgree, connections \subseteq Conn,
           UNCHANGED <<connections, readOutstanding, removal>>,
           service' = service \/ (service # "FINISHED" /\ service' # "FINISHED"),
           \A c \in Conn : /\ conn'[c].status = conn[c].status
                           /\ conn'[c].outstanding = conn[c].outstanding
                           /\ sock'[c].watched = sock[c].watched
    PROVE  ListsAgree'
<1>1. \A c \in Conn : /\ IsOpen(c)' <=> IsOpen(c)
                      /\ (conn[c].status = "CLOSED")' <=> conn[c].status = "CLOSED"
  BY DEF IsOpen
<1>2. \A c \in Conn : (sock[c].watched <=> IsOpen(c))'
  BY <1>1 DEF ListsAgree
<1>3. {c \in Conn : IsOpen(c) /\ conn[c].outstanding}' = {c \in Conn : IsOpen(c) /\ conn[c].outstanding}
  BY <1>1
<1>4. {c \in Conn : conn[c].status = "CLOSED"}' = {c \in Conn : conn[c].status = "CLOSED"}
  BY <1>1
<1>5. (\A c \in connections : IsOpen(c))'
  BY <1>1 DEF ListsAgree
<1>. QED BY <1>2, <1>3, <1>4, <1>5 DEF ListsAgree

\* The end of the service waits for the tasks in front of it.
LEMMA EndingKept ==
    ASSUME NEW h, NEW R, NEW N, NEW status, NEW l, NEW l2, Ending({h} \cup R, status, l),
           h.op \notin {"closeall", "finish"},
           \A task \in N : task.op \notin {"closeall", "finish"},
           h.op \in Closing => l2 \subseteq l /\ \A task \in N : task.op \in Closing
    PROVE  Ending(N \cup R, status, l2)
  BY DEF Ending, Closing

\* A step of the loop on a connection that opens, closes and deletes none, if the lists
\* agree after it.
LEMMA TaskStep ==
    ASSUME LoopInv, todo # <<>>, NEW new \in Seq(Task), WalksFirst(new), Becomes(new),
           \A i \in 1..Len(new) : TaskTyped(new[i]) /\ new[i].op \notin LoopOp,
           Head(todo).op \in Called => \A i \in 1..Len(new) : new[i].op \in Called,
           Head(todo).op \in Closing => \A i \in 1..Len(new) : new[i].op \in Closing,
           Head(todo).op \notin {"closeall", "finish"},
           \A task \in ToSet(new) : task.op \in Sending => IsOpen(task.conn),
           Head(todo).op \in {"close", "unlink"} =>
              ~IsOpen(This) \/ Pending(ToSet(new), {"close", "unlink"}, This),
           UNCHANGED <<backlog, connections, removal, service>>,
           conn' \in [Conn -> Connection], sock' \in [Conn -> Socket],
           readOutstanding' \in Seq(Conn), writeOutstanding' \in Seq(Conn), ListsAgree',
           \A c \in Conn : conn'[c].status = conn[c].status,
           \A c \in Conn : Fine(ToSet(new) \cup ToSet(Tail(todo)), ToSet(writeOutstanding'),
                                c, conn'[c], sock'[c])
    PROVE  LoopInv'
<1>. DEFINE R == ToSet(Tail(todo))
            N == ToSet(new)
<1>1. Tasks(todo)
  BY Typed
<1>2. /\ todo \in Seq(Task) /\ TaskTyped(Head(todo))
      /\ ToSet(todo) = {Head(todo)} \cup R
      /\ \A task \in R : task.op \notin Sending /\ TaskTyped(task)
  BY <1>1, Running_
<1>3. /\ Tasks(todo') /\ ToSet(todo') = N \cup R
  BY <1>1, Become_ DEF Becomes
<1>4. \A task \in N : TaskTyped(task) /\ task.op \notin LoopOp
  BY DEF ToSet
<1>5. \A c \in Conn : IsOpen(c)' <=> IsOpen(c)
  BY DEF IsOpen
<1>. HIDE DEF R, N
<1>6. TypeOK'
  BY <1>3, Typed DEF TypeOK, Tasks
<1>7. EachIsFine'
  BY <1>3 DEF EachIsFine, R, N
<1>8. SendsAreOpen'
  <2>1. ASSUME NEW task \in N, task.op \in Sending PROVE IsOpen(task.conn)'
    <3>1. task.conn \in Conn
      BY <1>4, <2>1 DEF TaskTyped, Task
    <3>. QED BY <2>1, <3>1, <1>5 DEF N
  <2>. QED BY <2>1, <1>2, <1>3 DEF SendsAreOpen
<1>9. BacklogIsNew'
  <2>1. \A c \in backlog : c \in Conn
    BY Typed DEF Clients
  <2>. QED BY <2>1 DEF LoopInv, BacklogIsNew
<1>10. ListsAgree'
  OBVIOUS
<1>11. Listed'
  <2>1. SUFFICES ASSUME NEW c \in Conn, IsOpen(c)
                 PROVE  c \in connections \/ Pending(N \cup R, {"close", "unlink"}, c)
    BY <1>3, <1>5 DEF Listed
  <2>2. c \in connections \/ Pending({Head(todo)} \cup R, {"close", "unlink"}, c)
    BY <2>1, <1>2 DEF LoopInv, Listed
  <2>. QED BY <2>1, <2>2 DEF Pending, This, N
<1>12. EndOfService'
  <2>1. Ending({Head(todo)} \cup R, service, connections)
    BY <1>2 DEF LoopInv, EndOfService
  <2>2. \A task \in N : task.op \notin {"closeall", "finish"}
    BY <1>4 DEF LoopOp
  <2>3. Head(todo).op \in Closing => \A task \in N : task.op \in Closing
    BY DEF N, ToSet
  <2>4. Ending(N \cup R, service, connections)
    BY <2>1, <2>2, <2>3, EndingKept
  <2>5. service # "FINISHED"
    BY Typed
  <2>. QED BY <2>4, <2>5, <1>3 DEF EndOfService
<1>. QED BY <1>3, <1>6, <1>7, <1>8, <1>9, <1>10, <1>11, <1>12 DEF LoopInv, Tasks

\* The same when none of what the lists depend on is changed.
LEMMA QuietStep ==
    ASSUME LoopInv, todo # <<>>, NEW new \in Seq(Task), WalksFirst(new), Becomes(new),
           \A i \in 1..Len(new) : TaskTyped(new[i]) /\ new[i].op \notin LoopOp,
           Head(todo).op \in Called => \A i \in 1..Len(new) : new[i].op \in Called,
           Head(todo).op \in Closing => \A i \in 1..Len(new) : new[i].op \in Closing,
           Head(todo).op \notin {"closeall", "finish"},
           \A task \in ToSet(new) : task.op \in Sending => IsOpen(task.conn),
           Head(todo).op \in {"close", "unlink"} =>
              ~IsOpen(This) \/ Pending(ToSet(new), {"close", "unlink"}, This),
           UNCHANGED <<backlog, connections, readOutstanding, removal, service>>,
           conn' \in [Conn -> Connection], sock' \in [Conn -> Socket],
           writeOutstanding' \in Seq(Conn),
           \A c \in Conn : /\ conn'[c].status = conn[c].status
                           /\ conn'[c].outstanding = conn[c].outstanding
                           /\ sock'[c].watched = sock[c].watched,
           \A c \in Conn : Fine(ToSet(new) \cup ToSet(Tail(todo)), ToSet(writeOutstanding'),
                                c, conn'[c], sock'[c])
    PROVE  LoopInv'
<1>1. ListsAgree'
  BY ListsKept, Typed DEF LoopInv
<1>2. readOutstanding' \in Seq(Conn)
  BY Typed
<1>. QED BY <1>1, <1>2, TaskStep

-----------------------------------------------------------------------------
(* The tasks that a step puts in the place of the one that runs.           *)

\* A task about a connection has the types of a task.
LEMMA TaskOf ==
    ASSUME NEW op \in Op \ LoopOp, NEW c \in Conn, NEW n \in Nat
    PROVE  LET task == [op |-> op, conn |-> c, n |-> n]
           IN  TaskTyped(task) /\ task.op = op /\ task.conn = c /\ task.n = n
  BY LoopAssumption DEF TaskTyped, Task

\* A step that makes no call adds no task.
LEMMA NoTask ==
    /\ <<>> \in Seq(Task) /\ WalksFirst(<<>>) /\ ToSet(<<>>) = {}
    /\ \A i \in 1..Len(<<>>) : FALSE
  BY SetOfNone DEF WalksFirst

\* A step that makes one call adds that task.
LEMMA OneTask ==
    ASSUME NEW a, TaskTyped(a)
    PROVE  /\ <<a>> \in Seq(Task) /\ WalksFirst(<<a>>) /\ ToSet(<<a>>) = {a}
           /\ \A i \in 1..Len(<<a>>) : <<a>>[i] = a
<1>1. <<a>> \in Seq(Task) /\ Len(<<a>>) = 1 /\ \A i \in 1..1 : i = 1 /\ <<a>>[i] = a
  BY DEF TaskTyped
<1>2. WalksFirst(<<a>>)
  BY <1>1 DEF WalksFirst
<1>. QED BY <1>1, <1>2, SetOfOne

\* A step that makes two calls adds both.
LEMMA TwoTasks ==
    ASSUME NEW a, NEW b, TaskTyped(a), TaskTyped(b), b.op \notin Sending,
           b.op = "after" => a.op \in Called
    PROVE  /\ <<a, b>> \in Seq(Task) /\ WalksFirst(<<a, b>>) /\ ToSet(<<a, b>>) = {a, b}
           /\ \A i \in 1..Len(<<a, b>>) : <<a, b>>[i] = a \/ <<a, b>>[i] = b
<1>1. /\ <<a, b>> \in Seq(Task) /\ Len(<<a, b>>) = 2 /\ <<a, b>>[1] = a /\ <<a, b>>[2] = b
      /\ \A i \in 1..2 : i = 1 \/ i = 2
  BY DEF TaskTyped
<1>2. WalksFirst(<<a, b>>)
  <2>1. \A j \in 1..1 - 1 : FALSE
    OBVIOUS
  <2>2. \A j \in 1..2 - 1 : j = 1
    OBVIOUS
  <2>. QED BY <1>1, <2>1, <2>2 DEF WalksFirst, Called, Closing
<1>. QED BY <1>1, <1>2, SetOfTwo

\* What a task of a connection finds, and what is behind it.
LEMMA RunningOn ==
    ASSUME LoopInv, todo # <<>>, Head(todo).op \notin LoopOp
    PROVE  /\ This \in Conn /\ Head(todo).n \in Nat /\ Head(todo).op \in Op \ LoopOp
           /\ ToSet(todo) = {Head(todo)} \cup ToSet(Tail(todo))
           /\ \A task \in ToSet(todo) : task.n \in Nat
           /\ conn[This] \in Connection /\ sock[This] \in Socket
           /\ conn[This].status # "NEW"
           /\ \A task \in ToSet(Tail(todo)) : task.op \notin Sending
           /\ Head(todo).op \in Sending => IsOpen(This)
           /\ Head(todo).op \notin Called => \A task \in ToSet(Tail(todo)) : task.op \notin Walking
           /\ \A c \in Conn : Fine(ToSet(todo), ToSet(writeOutstanding), c, conn[c], sock[c])
<1>1. Tasks(todo)
  BY Typed
<1>2. /\ TaskTyped(Head(todo)) /\ ToSet(todo) = {Head(todo)} \cup ToSet(Tail(todo))
      /\ \A task \in ToSet(todo) : TaskTyped(task)
      /\ \A task \in ToSet(Tail(todo)) : task.op \notin Sending
      /\ Head(todo).op \notin Called => \A task \in ToSet(Tail(todo)) : task.op # "after"
  BY <1>1, Running_
<1>3. This \in Conn /\ Head(todo).n \in Nat /\ Head(todo).op \in Op \ LoopOp
  BY <1>2 DEF This, TaskTyped, Task
<1>4. conn[This].status # "NEW"
  BY <1>2, <1>3 DEF LoopInv, EachIsFine, Fine, Untouched, This
<1>5. Head(todo).op \in Sending => IsOpen(This)
  BY <1>2 DEF LoopInv, SendsAreOpen, This
<1>6. \A task \in ToSet(Tail(todo)) :
         /\ task.op # "walk"
         /\ Head(todo).op \notin Called => task.op # "after"
  BY <1>2 DEF Sending
<1>. QED BY <1>2, <1>3, <1>4, <1>5, <1>6, Typed
         DEF LoopInv, EachIsFine, TaskTyped, Task, Walking

\* A connection that the running task is not about, and that the step leaves alone.
LEMMA OtherKept ==
    ASSUME LoopInv, todo # <<>>, NEW N, NEW W2, NEW c \in Conn, c # This,
           \A task \in N : task.conn = c => task.op \notin Walking /\ conn[c].status # "NEW",
           c \in W2 <=> c \in ToSet(writeOutstanding)
    PROVE  Fine(N \cup ToSet(Tail(todo)), W2, c, conn[c], sock[c])
<1>. DEFINE R == ToSet(Tail(todo))
<1>1. ToSet(todo) = {Head(todo)} \cup R
  BY Typed, Running_
<1>2. Fine({Head(todo)} \cup R, ToSet(writeOutstanding), c, conn[c], sock[c])
  BY <1>1 DEF LoopInv, EachIsFine
<1>. HIDE DEF R
<1>3. \A task \in N \cup R :
         task.conn = c => \/ task \in {Head(todo)} \cup R
                          \/ conn[c].status # "NEW" /\ task.op \notin Walking
  OBVIOUS
<1>4. \A task \in {Head(todo)} \cup R : task.conn = c => task \in N \cup R
  BY DEF This
<1>5. conn[c].status = "NEW" => c \notin W2
  BY <1>2 DEF Fine, Untouched
<1>6. Fine(N \cup R, W2, c, conn[c], sock[c])
  BY <1>2, <1>3, <1>4, <1>5, FineKept
<1>. QED BY <1>6 DEF R

-----------------------------------------------------------------------------
(* The steps on one connection that change none of the lists.              *)

\* The end of the peer: the queue is sent and the connection closed (read_handler_stream_io).
LEMMA HangUpKeeps ==
    ASSUME LoopInv, HangUp
    PROVE  LoopInv'
<1>. DEFINE c == This
            h == Head(todo)
            R == ToSet(Tail(todo))
<1>1. todo # <<>> /\ h.op = "hangup" /\ h.op \notin LoopOp
  BY DEF HangUp, Running, LoopOp
<1>2. /\ c \in Conn /\ ToSet(todo) = {h} \cup R /\ conn[c].status # "NEW"
      /\ \A d \in Conn : Fine({h} \cup R, ToSet(writeOutstanding), d, conn[d], sock[d])
  BY <1>1, RunningOn
<1>3. /\ TaskTyped(Do("send", c)) /\ Do("send", c).op = "send" /\ Do("send", c).conn = c
      /\ TaskTyped(Do("close", c)) /\ Do("close", c).op = "close" /\ Do("close", c).conn = c
  <2>1. "send" \in Op \ LoopOp /\ "close" \in Op \ LoopOp /\ 0 \in Nat
    BY DEF Op, LoopOp
  <2>. QED BY <2>1, <1>2, TaskOf DEF Do
<1>4. PICK new : /\ Becomes(new) /\ (IsOpen(c) \/ new = <<>>)
                 /\ new \in {<<>>, <<Do("close", c)>>, <<Do("send", c), Do("close", c)>>}
  BY DEF HangUp
<1>5. /\ new \in Seq(Task) /\ WalksFirst(new)
      /\ \A i \in 1..Len(new) : TaskTyped(new[i]) /\ new[i].op \in {"send", "close"}
      /\ ToSet(new) \subseteq {Do("send", c), Do("close", c)}
  <2>1. CASE new = <<>>
    BY <2>1, NoTask
  <2>2. CASE new = <<Do("close", c)>>
    BY <2>2, <1>3, OneTask
  <2>3. CASE new = <<Do("send", c), Do("close", c)>>
    BY <2>3, <1>3, TwoTasks DEF Sending
  <2>. QED BY <1>4, <2>1, <2>2, <2>3
<1>6. UNCHANGED <<conn, sock, backlog, connections, readOutstanding, writeOutstanding,
                  removal, service>>
  BY DEF HangUp, polling
<1>7. ASSUME NEW d \in Conn
      PROVE  Fine(ToSet(new) \cup R, ToSet(writeOutstanding), d, conn[d], sock[d])
  <2>1. \A task \in ToSet(new) : /\ task.conn = c /\ task.op \notin Walking
    BY <1>3, <1>5 DEF Walking
  <2>2. h.op \notin Writing
    BY <1>1 DEF Writing
  <2>. HIDE DEF R, c
  <2>3. conn[d].status = "NEW" => d # c
    BY <1>2
  <2>4. /\ \A task \in ToSet(new) \cup R :
              task.conn = d => \/ task \in {h} \cup R
                               \/ conn[d].status # "NEW" /\ task.op \notin Walking
        /\ \A task \in {h} \cup R :
              task.conn = d /\ task.op \in Writing => task \in ToSet(new) \cup R
        /\ conn[d].status = "NEW" => d \notin ToSet(writeOutstanding)
    BY <1>2, <2>1, <2>2, <2>3 DEF Fine, Untouched
  <2>. QED BY <1>2, <2>4, FineKept
<1>9. \A task \in ToSet(new) : task.conn = c /\ IsOpen(c)
  BY <1>3, <1>4, <1>5, NoTask
<1>8. /\ \A i \in 1..Len(new) : new[i].op \notin LoopOp
      /\ h.op \notin Called /\ h.op \notin Closing
      /\ h.op \notin {"closeall", "finish"} /\ h.op \notin {"close", "unlink"}
      /\ \A task \in ToSet(new) : task.op \in Sending => IsOpen(task.conn)
  BY <1>1, <1>3, <1>5, <1>9 DEF LoopOp, Called, Closing, Sending
<1>. HIDE DEF R, c
<1>. QED BY <1>1, <1>4, <1>5, <1>6, <1>7, <1>8, QuietStep, Typed DEF R

\* A task that is over, or that was about a connection which is closed.
LEMMA Dropped ==
    ASSUME LoopInv, todo # <<>>, Head(todo).op \notin {"closeall", "finish"},
           Head(todo).op \in Writing => ~IsOpen(This), Becomes(<<>>),
           UNCHANGED <<conn, sock, backlog, connections, readOutstanding, writeOutstanding,
                       removal, service>>
    PROVE  LoopInv'
<1>. DEFINE h == Head(todo)
            R == ToSet(Tail(todo))
            W == ToSet(writeOutstanding)
<1>1. ToSet(todo) = {h} \cup R
  BY Typed, Running_
<1>2. \A d \in Conn : Fine({h} \cup R, W, d, conn[d], sock[d])
  BY <1>1 DEF LoopInv, EachIsFine
<1>3. ASSUME NEW d \in Conn PROVE Fine(R, W, d, conn[d], sock[d])
  <2>1. CASE d = This /\ h.op \in Writing
    <3>1. conn[d].status # "OPEN" /\ conn[d].status # "NEW"
      BY <2>1, <1>2 DEF Fine, Untouched, This, IsOpen
    <3>. QED BY <3>1 DEF Fine
  <2>2. CASE ~ (d = This /\ h.op \in Writing)
    <3>. HIDE DEF R, W
    <3>1. \A task \in {h} \cup R : task.conn = d /\ task.op \in Writing => task \in R
      BY <2>2 DEF This
    <3>2. conn[d].status = "NEW" => d \notin W
      BY <1>2 DEF Fine, Untouched
    <3>. QED BY <1>2, <3>1, <3>2, FineKept
  <2>. QED BY <2>1, <2>2
<1>4. {} \cup R = R
  OBVIOUS
<1>5. \A d \in Conn : Fine(ToSet(<<>>) \cup R, W, d, conn[d], sock[d])
  BY <1>3, <1>4, NoTask
<1>6. Head(todo).op \in {"close", "unlink"} => Head(todo).op \in Writing
  BY DEF Writing
<1>. HIDE DEF R, W
<1>. QED BY <1>5, <1>6, NoTask, QuietStep, Typed DEF R, W

\* A handler that returns ends what called it.
LEMMA HandlerReturnsKeeps ==
    ASSUME LoopInv, HandlerReturns
    PROVE  LoopInv'
<1>1. /\ todo # <<>> /\ Head(todo).op \in {"handler", "cycle"} /\ Becomes(<<>>)
      /\ UNCHANGED <<conn, sock, backlog, connections, readOutstanding, writeOutstanding,
                     removal, service>>
  BY DEF HandlerReturns, Running, polling
<1>2. Head(todo).op \notin Writing /\ Head(todo).op \notin {"closeall", "finish"}
  BY <1>1 DEF Writing
<1>. QED BY <1>1, <1>2, Dropped

\* A connection that is closed tells its handler and is then unlinked (close_connection).
LEMMA CloseKeeps ==
    ASSUME LoopInv, Close
    PROVE  LoopInv'
<1>. DEFINE c == This
            h == Head(todo)
            R == ToSet(Tail(todo))
            W == ToSet(writeOutstanding)
            a == Do("onclose", c)
            b == Do("unlink", c)
<1>1. /\ todo # <<>> /\ h.op \in {"close", "error"} /\ h.op \notin LoopOp
      /\ UNCHANGED <<conn, sock, backlog, connections, readOutstanding, writeOutstanding,
                     removal, service>>
  BY DEF Close, Running, LoopOp, polling
<1>2. CASE ~IsOpen(c)
  <2>1. Becomes(<<>>)
    BY <1>2 DEF Close
  <2>2. h.op \notin {"closeall", "finish"}
    BY <1>1
  <2>. QED BY <1>1, <1>2, <2>1, <2>2, Dropped
<1>3. CASE IsOpen(c)
  <2>1. Becomes(<<a, b>>)
    BY <1>3 DEF Close
  <2>2. /\ c \in Conn /\ ToSet(todo) = {h} \cup R
        /\ \A d \in Conn : Fine({h} \cup R, W, d, conn[d], sock[d])
    BY <1>1, RunningOn
  <2>3. /\ TaskTyped(a) /\ a.op = "onclose" /\ a.conn = c
        /\ TaskTyped(b) /\ b.op = "unlink" /\ b.conn = c
    <3>1. "onclose" \in Op \ LoopOp /\ "unlink" \in Op \ LoopOp /\ 0 \in Nat
      BY DEF Op, LoopOp
    <3>. QED BY <3>1, <2>2, TaskOf DEF Do
  <2>4. /\ <<a, b>> \in Seq(Task) /\ WalksFirst(<<a, b>>) /\ ToSet(<<a, b>>) = {a, b}
        /\ \A i \in 1..Len(<<a, b>>) : <<a, b>>[i] = a \/ <<a, b>>[i] = b
    BY <2>3, TwoTasks DEF Sending
  <2>5. ASSUME NEW d \in Conn PROVE Fine({a, b} \cup R, W, d, conn[d], sock[d])
    <3>1. CASE d # c
      <4>1. \A task \in {a, b} : task.conn = d => FALSE
        BY <2>3, <3>1
      <4>. QED BY <3>1, <4>1, <1>1, OtherKept
    <3>2. CASE d = c
      <4>. HIDE DEF R, W, a, b
      <4>1. Sound({h} \cup R, W, c, conn[c], sock[c])
        BY <1>3, <2>2 DEF Fine, IsOpen
      <4>2. \A task \in ({h} \cup R) \cup ({a, b} \cup R) :
               task.op \in Walking /\ task.conn = c =>
                  (task \in {h} \cup R <=> task \in {a, b} \cup R)
        BY <1>1, <2>3 DEF Walking
      <4>3. Pending({a, b} \cup R, Writing, c) /\ Pending({a, b} \cup R, Waking, c)
        BY <2>3 DEF Pending, Writing, Waking
      <4>4. Sound({a, b} \cup R, W, c, conn[c], sock[c])
        BY <4>1, <4>2, <4>3, SoundKept DEF Due, Woken
      <4>. QED BY <1>3, <3>2, <4>4 DEF Fine, IsOpen
    <3>. QED BY <3>1, <3>2
  <2>6. /\ \A i \in 1..Len(<<a, b>>) : /\ TaskTyped(<<a, b>>[i])
                                       /\ <<a, b>>[i].op \notin LoopOp
                                       /\ <<a, b>>[i].op \in Called /\ <<a, b>>[i].op \in Closing
        /\ \A task \in {a, b} : task.op \notin Sending
        /\ Pending({a, b}, {"close", "unlink"}, c)
        /\ h.op \notin {"closeall", "finish"}
    BY <1>1, <2>3, <2>4 DEF LoopOp, Called, Closing, Pending, Sending
  <2>. HIDE DEF a, b
  <2>. QED BY <1>1, <2>1, <2>4, <2>5, <2>6, QuietStep, Typed
<1>. QED BY <1>2, <1>3

\* After the callback of a write the walk goes on, or a new send begins.
LEMMA AfterKeeps ==
    ASSUME LoopInv, After
    PROVE  LoopInv'
<1>. DEFINE c == This
            n == Head(todo).n
            h == Head(todo)
            R == ToSet(Tail(todo))
            W == ToSet(writeOutstanding)
            k == conn[c]
            s == sock[c]
            send == Do("send", c)
            walk == [op |-> "walk", conn |-> c, n |-> n]
<1>1. /\ todo # <<>> /\ h.op = "after" /\ h.op \notin LoopOp
      /\ UNCHANGED <<conn, sock, backlog, connections, readOutstanding, writeOutstanding,
                     removal, service>>
  BY DEF After, Running, LoopOp, polling
<1>2. /\ c \in Conn /\ n \in Nat /\ ToSet(todo) = {h} \cup R /\ k.status # "NEW"
      /\ k \in Connection /\ s \in Socket
      /\ \A task \in R : task.op \notin Walking
      /\ \A d \in Conn : Fine({h} \cup R, W, d, conn[d], sock[d])
  <2>1. h.op \notin Called
    BY <1>1 DEF Called, Closing
  <2>. QED BY <2>1, <1>1, RunningOn
<1>3. /\ TaskTyped(send) /\ send.op = "send" /\ send.conn = c
      /\ TaskTyped(walk) /\ walk.op = "walk" /\ walk.conn = c /\ walk.n = n
  <2>1. "send" \in Op \ LoopOp /\ "walk" \in Op \ LoopOp /\ 0 \in Nat
    BY DEF Op, LoopOp
  <2>. QED BY <2>1, <1>2, TaskOf DEF Do
<1>4. CASE ~IsOpen(c)
  <2>1. Becomes(<<>>)
    BY <1>4 DEF After
  <2>. QED BY <1>1, <1>4, <2>1, Dropped
<1>5. ASSUME IsOpen(c), NEW a \in {send, walk}, Becomes(<<a>>),
             Sound({a} \cup R, W, c, k, s)
      PROVE  LoopInv'
  <2>1. /\ <<a>> \in Seq(Task) /\ WalksFirst(<<a>>) /\ ToSet(<<a>>) = {a}
        /\ \A i \in 1..Len(<<a>>) : <<a>>[i] = a
    BY <1>3, <1>5, OneTask
  <2>2. TaskTyped(a) /\ a.op \notin LoopOp /\ a.conn = c
    BY <1>3, <1>5 DEF LoopOp
  <2>3. ASSUME NEW d \in Conn PROVE Fine({a} \cup R, W, d, conn[d], sock[d])
    <3>1. CASE d # c
      <4>1. \A task \in {a} : task.conn = d => FALSE
        BY <2>2, <3>1
      <4>. QED BY <3>1, <4>1, <1>1, OtherKept
    <3>2. CASE d = c
      BY <3>2, <1>2, <1>5 DEF Fine
    <3>. QED BY <3>1, <3>2
  <2>4. h.op \notin Called /\ h.op \notin Closing /\ h.op \notin {"closeall", "finish"}
        /\ h.op \notin {"close", "unlink"}
    BY <1>1 DEF Called, Closing
  <2>5. \A task \in {a} : task.op \in Sending => IsOpen(task.conn)
    BY <1>5, <2>2
  <2>. HIDE DEF send, walk
  <2>. QED BY <1>1, <1>5, <2>1, <2>2, <2>3, <2>4, <2>5, QuietStep, Typed
<1>6. CASE IsOpen(c) /\ (n = 0 \/ k.queue = <<>>)
  <2>1. Becomes(<<send>>)
    BY <1>6 DEF After
  <2>. HIDE DEF R, W, send
  <2>2. Sound({h} \cup R, W, c, k, s)
    BY <1>2, <1>6 DEF Fine, IsOpen
  <2>3. \A task \in {send} \cup R : task.op \notin Walking
    BY <1>2, <1>3 DEF Walking
  <2>4. s.wire - n = Start(k) /\ s.wire <= k.asked /\ s.wire \in Nat /\ k.asked \in Nat
    BY <1>1, <1>2, <2>2 DEF Sound, Accounted, Walking, This, Connection, Socket
  <2>5. s.wire = Start(k)
    <3>1. CASE n = 0
      BY <3>1, <2>4
    <3>2. CASE k.queue = <<>>
      <4>1. Start(k) = k.asked
        BY <3>2 DEF Start
      <4>. HIDE DEF k, s, n
      <4>. QED BY <4>1, <2>4, <1>2
    <3>. QED BY <3>1, <3>2, <1>6
  <2>6. Accounted({send} \cup R, c, k, s)
    BY <2>2, <2>3, <2>5 DEF Sound, Accounted
  <2>7. CutShort({send} \cup R, c, k, s) /\ ~Pending({send} \cup R, {"walk"}, c)
    BY <2>3 DEF CutShort, Pending, Walking
  <2>8. Pending({send} \cup R, Writing, c)
    BY <1>3 DEF Pending, Writing
  <2>9. Woken({h} \cup R, c, s) => Woken({send} \cup R, c, s)
    BY <1>1 DEF Woken, Pending, Waking
  <2>10. TakenUp({send} \cup R, W, c, k, s)
    BY <2>2, <2>8, <2>9 DEF Sound, TakenUp, Due
  <2>11. Sound({send} \cup R, W, c, k, s)
    BY <2>2, <2>6, <2>7, <2>10 DEF Sound
  <2>. QED BY <1>5, <1>6, <2>1, <2>11 DEF R, W
<1>7. CASE IsOpen(c) /\ ~ (n = 0 \/ k.queue = <<>>)
  <2>1. Becomes(<<walk>>)
    BY <1>7 DEF After
  <2>. HIDE DEF R, W, walk
  <2>2. Sound({h} \cup R, W, c, k, s)
    BY <1>2, <1>7 DEF Fine, IsOpen
  <2>3. \A task \in {walk} \cup R : task.op \in Walking => task = walk
    BY <1>2
  <2>4. s.wire - n = Start(k)
    BY <1>1, <2>2 DEF Sound, Accounted, Walking, This
  <2>5. Accounted({walk} \cup R, c, k, s)
    BY <2>2, <2>3, <2>4, <1>3 DEF Sound, Accounted, Pending, Walking
  <2>6. CutShort({walk} \cup R, c, k, s)
    <3>1. s.blocked \/ s.edge \/ \E j \in 1..Len(k.queue) : s.wire = k.queue[j].end
      BY <1>1, <1>7, <2>2 DEF Sound, CutShort, Walking, This
    <3>. QED BY <3>1, <2>3 DEF CutShort
  <2>7. Pending({walk} \cup R, Writing, c)
    BY <1>3 DEF Pending, Writing
  <2>8. Woken({h} \cup R, c, s) => Woken({walk} \cup R, c, s)
    BY <1>1 DEF Woken, Pending, Waking
  <2>9. TakenUp({walk} \cup R, W, c, k, s)
    BY <2>2, <2>7, <2>8 DEF Sound, TakenUp, Due
  <2>10. Sound({walk} \cup R, W, c, k, s)
    BY <2>2, <2>5, <2>6, <2>9, <1>7 DEF Sound
  <2>. QED BY <1>5, <1>7, <2>1, <2>10 DEF R, W
<1>. QED BY <1>4, <1>6, <1>7

\* The start of a writing, which an event lets know that the socket is writable (on_write).
LEMMA WriteKeeps ==
    ASSUME LoopInv, Write
    PROVE  LoopInv'
<1>. DEFINE c == This
            h == Head(todo)
            R == ToSet(Tail(todo))
            W == ToSet(writeOutstanding)
            k == conn[c]
            k2 == [k EXCEPT !.writeValid = @ \/ h.op = "writable"]
            send == Do("send", c)
<1>1. /\ todo # <<>> /\ h.op \in {"write", "writable"} /\ h.op \notin LoopOp
      /\ UNCHANGED <<sock, backlog, connections, readOutstanding, writeOutstanding,
                     removal, service>>
      /\ conn' = [conn EXCEPT ![c] = k2]
  BY DEF Write, Running, LoopOp, polling
<1>2. /\ c \in Conn /\ ToSet(todo) = {h} \cup R /\ k.status # "NEW" /\ k \in Connection
      /\ \A task \in R : task.op \notin Walking
      /\ \A d \in Conn : Fine({h} \cup R, W, d, conn[d], sock[d])
  <2>1. h.op \notin Called
    BY <1>1 DEF Called, Closing
  <2>. QED BY <2>1, <1>1, RunningOn
<1>3. TaskTyped(send) /\ send.op = "send" /\ send.conn = c
  <2>1. "send" \in Op \ LoopOp /\ 0 \in Nat
    BY DEF Op, LoopOp
  <2>. QED BY <2>1, <1>2, TaskOf DEF Do
<1>4. /\ k2 \in Connection /\ k2.status = k.status /\ k2.queue = k.queue
      /\ k2.asked = k.asked /\ k2.writeRegistered = k.writeRegistered
      /\ k2.outstanding = k.outstanding
      /\ k2.writeValid = (k.writeValid \/ h.op = "writable")
  BY <1>2 DEF Connection
<1>. HIDE DEF k2
<1>5. /\ conn' \in [Conn -> Connection] /\ conn'[c] = k2
      /\ \A d \in Conn : d # c => conn'[d] = conn[d]
  BY <1>1, <1>2, <1>4, Typed
<1>6. /\ \A d \in Conn : /\ conn'[d].status = conn[d].status
                         /\ conn'[d].outstanding = conn[d].outstanding
  BY <1>4, <1>5
<1>7. h.op \notin Called /\ h.op \notin Closing /\ h.op \notin {"closeall", "finish"}
        /\ h.op \notin {"close", "unlink"}
  BY <1>1 DEF Called, Closing
<1>8. ASSUME NEW N, \A task \in N : task.op \notin Walking /\ task.conn = c,
             NEW d \in Conn, d # c
      PROVE  Fine(N \cup R, W, d, conn'[d], sock[d])
  <2>1. Fine(N \cup R, W, d, conn[d], sock[d])
    BY <1>1, <1>8, OtherKept
  <2>. QED BY <2>1, <1>5, <1>8
<1>9. CASE ~IsOpen(c)
  <2>1. Becomes(<<>>)
    BY <1>9 DEF Write
  <2>2. ASSUME NEW d \in Conn PROVE Fine({} \cup R, W, d, conn'[d], sock[d])
    <3>1. CASE d = c
      BY <3>1, <1>2, <1>4, <1>5, <1>9 DEF Fine, IsOpen
    <3>2. CASE d # c
      BY <3>2, <1>8
    <3>. QED BY <3>1, <3>2
  <2>. QED BY <1>1, <1>5, <1>6, <1>7, <2>1, <2>2, NoTask, QuietStep, Typed
<1>10. CASE IsOpen(c)
  <2>1. Becomes(<<send>>)
    BY <1>10 DEF Write
  <2>2. /\ <<send>> \in Seq(Task) /\ WalksFirst(<<send>>) /\ ToSet(<<send>>) = {send}
        /\ \A i \in 1..Len(<<send>>) : <<send>>[i] = send
    BY <1>3, OneTask
  <2>3. Sound({send} \cup R, W, c, k2, sock[c])
    <3>. HIDE DEF R, W, send
    <3>1. Sound({h} \cup R, W, c, k, sock[c])
      BY <1>2, <1>10 DEF Fine, IsOpen
    <3>2. \A task \in ({h} \cup R) \cup ({send} \cup R) :
             task.op \in Walking /\ task.conn = c =>
                (task \in {h} \cup R <=> task \in {send} \cup R)
      BY <1>1, <1>3 DEF Walking
    <3>3. Pending({send} \cup R, Writing, c)
      BY <1>3 DEF Pending, Writing
    <3>4. ~k2.writeValid => Woken({send} \cup R, c, sock[c])
      <4>1. HAVE ~k2.writeValid
      <4>2. ~k.writeValid /\ h.op = "write"
        BY <4>1, <1>1, <1>4
      <4>3. Woken({h} \cup R, c, sock[c])
        BY <4>2, <3>1 DEF Sound, TakenUp
      <4>. QED BY <4>2, <4>3 DEF Woken, Pending, Waking
    <3>. QED BY <3>1, <3>2, <3>3, <3>4, <1>4, SoundKept DEF Due
  <2>4. ASSUME NEW d \in Conn PROVE Fine({send} \cup R, W, d, conn'[d], sock[d])
    <3>1. CASE d = c
      BY <3>1, <2>3, <1>4, <1>5, <1>10 DEF Fine, IsOpen
    <3>2. CASE d # c
      <4>1. \A task \in {send} : task.op \notin Walking /\ task.conn = c
        BY <1>3 DEF Walking
      <4>. QED BY <3>2, <4>1, <1>8
    <3>. QED BY <3>1, <3>2
  <2>5. send.op \notin LoopOp /\ IsOpen(send.conn)
    BY <1>3, <1>10 DEF LoopOp
  <2>. HIDE DEF send
  <2>. QED BY <1>1, <1>3, <1>5, <1>6, <1>7, <2>1, <2>2, <2>4, <2>5, QuietStep, Typed
<1>. QED BY <1>9, <1>10

\* A step of the writing of a connection that changes nothing but what is kept of it and
\* its socket.
LEMMA OnlyThis ==
    ASSUME LoopInv, todo # <<>>, Head(todo).op \notin LoopOp, Head(todo).op \notin Called,
           NEW new \in Seq(Task), WalksFirst(new), Becomes(new),
           \A i \in 1..Len(new) : /\ TaskTyped(new[i]) /\ new[i].op \notin LoopOp
                                 /\ new[i].conn = This,
           (\E i \in 1..Len(new) : new[i].op \in Sending) => IsOpen(This),
           NEW k2 \in Connection, NEW s2 \in Socket,
           conn' = [conn EXCEPT ![This] = k2], sock' = [sock EXCEPT ![This] = s2],
           k2.status = conn[This].status, k2.outstanding = conn[This].outstanding,
           s2.watched = sock[This].watched,
           UNCHANGED <<backlog, connections, readOutstanding, writeOutstanding, removal,
                       service>>,
           IsOpen(This) => Sound(ToSet(new) \cup ToSet(Tail(todo)), ToSet(writeOutstanding),
                                 This, k2, s2)
    PROVE  LoopInv'
<1>. DEFINE c == This
            R == ToSet(Tail(todo))
            W == ToSet(writeOutstanding)
<1>1. /\ c \in Conn /\ conn[c].status # "NEW"
  BY RunningOn
<1>2. /\ conn' \in [Conn -> Connection] /\ conn'[c] = k2
      /\ sock' \in [Conn -> Socket] /\ sock'[c] = s2
      /\ \A d \in Conn : d # c => conn'[d] = conn[d] /\ sock'[d] = sock[d]
  BY <1>1, Typed
<1>3. \A d \in Conn : /\ conn'[d].status = conn[d].status
                      /\ conn'[d].outstanding = conn[d].outstanding
                      /\ sock'[d].watched = sock[d].watched
  BY <1>2
<1>4. \A a \in ToSet(new) : a.conn = c /\ (a.op \in Sending => IsOpen(a.conn))
  BY DEF ToSet
<1>5. ASSUME NEW d \in Conn PROVE Fine(ToSet(new) \cup R, W, d, conn'[d], sock'[d])
  <2>1. CASE d = c
    BY <2>1, <1>1, <1>2 DEF Fine, IsOpen
  <2>2. CASE d # c
    <3>1. \A task \in ToSet(new) : task.conn = d => FALSE
      BY <1>4, <2>2
    <3>2. Fine(ToSet(new) \cup R, W, d, conn[d], sock[d])
      BY <2>2, <3>1, OtherKept
    <3>. QED BY <1>2, <2>2, <3>2
  <2>. QED BY <2>1, <2>2
<1>6. /\ Head(todo).op \notin Closing /\ Head(todo).op \notin {"closeall", "finish"}
      /\ Head(todo).op \notin {"close", "unlink"}
  BY DEF Called, Closing, LoopOp
<1>. HIDE DEF c, W, R
<1>7. ToSet(writeOutstanding') = W
  BY DEF W
<1>. QED BY <1>2, <1>3, <1>4, <1>5, <1>6, <1>7, QuietStep, Typed DEF R

\* What a send asks for and what is taken of it: a part of the queue that starts where
\* the socket has come to.
LEMMA SendTakes ==
    ASSUME NEW k \in Connection, NEW s \in Socket, Queued(k), k.queue # <<>>, s.wire = Start(k),
           NEW wanted, wanted = k.queue[Least(Gather, Len(k.queue))].end - s.wire,
           NEW taken, taken = Least(wanted, s.room)
    PROVE  /\ wanted \in Nat /\ taken \in Nat /\ taken <= wanted /\ taken <= s.room
           /\ s.room - taken \in Nat /\ s.wire + taken \in Nat
           /\ s.wire + taken <= k.asked
           /\ taken < wanted \/ \E j \in 1..Len(k.queue) : s.wire + taken = k.queue[j].end
<1>. DEFINE q == k.queue
            j == Least(Gather, Len(q))
<1>1. /\ q \in Seq(Value) /\ k.asked \in Nat /\ Len(q) \in Nat \ {0} /\ 1 \in 1..Len(q)
      /\ \A i \in 1..Len(q) : q[i].size \in Nat /\ q[i].end \in Nat
      /\ s.wire \in Nat /\ s.room \in Nat /\ Gather \in Nat \ {0}
  <2>1. q \in Seq(Value) /\ k.asked \in Nat /\ s.wire \in Nat /\ s.room \in Nat
    BY DEF Connection, Socket
  <2>2. \A i \in 1..Len(q) : q[i] \in Value
    BY <2>1
  <2>3. Len(q) \in Nat \ {0}
    BY <2>1, HeadAndRest
  <2>4. Gather \in Nat \ {0}
    BY LoopAssumption
  <2>. HIDE DEF q, j
  <2>5. \A i \in 1..Len(q) : q[i].size \in Nat /\ q[i].end \in Nat
    BY <2>2 DEF Value
  <2>6. 1 \in 1..Len(q)
    BY <2>3
  <2>. QED BY <2>1, <2>3, <2>4, <2>5, <2>6
<1>2. j \in 1..Len(q)
  BY <1>1 DEF Least
<1>3. /\ \A i \in 1..Len(q) : q[i].end <= k.asked
      /\ \A i, m \in 1..Len(q) : i < m => q[i].end + q[m].size <= q[m].end
      /\ q[1].size <= q[1].end /\ s.wire = q[1].end - q[1].size
  BY DEF Queued, Start
<1>. HIDE DEF q, j
<1>4. s.wire <= q[j].end
  <2>1. CASE j = 1
    BY <2>1, <1>1, <1>3
  <2>2. CASE j # 1
    <3>1. 1 < j
      BY <2>2, <1>1, <1>2
    <3>2. q[1].end + q[j].size <= q[j].end
      BY <3>1, <1>1, <1>2, <1>3
    <3>3. /\ q[1].end \in Nat /\ q[1].size \in Nat /\ q[j].end \in Nat /\ q[j].size \in Nat
      BY <1>1, <1>2
    <3>4. s.wire = q[1].end - q[1].size
      BY <1>3
    <3>. QED BY <3>2, <3>3, <3>4
  <2>. QED BY <2>1, <2>2
<1>5. wanted = q[j].end - s.wire /\ q[j].end \in Nat /\ q[j].end <= k.asked
  BY <1>1, <1>2, <1>3 DEF q, j
<1>6. /\ wanted \in Nat /\ taken \in Nat /\ taken <= wanted /\ taken <= s.room
      /\ s.room - taken \in Nat /\ s.wire + taken \in Nat
      /\ s.wire + taken <= k.asked /\ (taken < wanted \/ s.wire + taken = q[j].end)
  <2>1. s.wire \in Nat /\ s.room \in Nat /\ k.asked \in Nat
    BY <1>1
  <2>2. taken = IF wanted < s.room THEN wanted ELSE s.room
    BY DEF Least
  <2>3. wanted \in Nat /\ s.wire + wanted = q[j].end
    BY <2>1, <1>4, <1>5
  <2>4. s.wire + wanted <= k.asked
    BY <2>3, <1>5
  <2>5. CASE wanted < s.room
    <3>1. taken = wanted
      BY <2>2, <2>5
    <3>. QED BY <2>1, <2>3, <2>4, <2>5, <3>1, SMTT(20)
  <2>6. CASE ~ (wanted < s.room)
    <3>1. taken = s.room /\ taken <= wanted
      BY <2>1, <2>2, <2>3, <2>6
    <3>2. s.wire + taken <= s.wire + wanted
      BY <2>1, <2>3, <3>1
    <3>3. taken < wanted \/ taken = wanted
      BY <2>1, <2>3, <3>1
    <3>4. /\ taken \in Nat /\ s.room - taken \in Nat /\ s.wire + taken \in Nat
          /\ taken <= s.room
      BY <2>1, <3>1
    <3>5. s.wire + taken <= k.asked
      BY <2>1, <2>3, <2>4, <3>2, <3>4, SMTT(20)
    <3>6. taken < wanted \/ s.wire + taken = q[j].end
      BY <2>3, <3>3
    <3>. QED BY <2>3, <3>1, <3>4, <3>5, <3>6
  <2>. QED BY <2>5, <2>6
<1>. QED BY <1>2, <1>6 DEF q

\* One send over the values at the head of the queue (write_handler_stream_io).
LEMMA SendKeeps ==
    ASSUME LoopInv, Send
    PROVE  LoopInv'
<1>. DEFINE c == This
            h == Head(todo)
            R == ToSet(Tail(todo))
            W == ToSet(writeOutstanding)
            k == conn[c]
            s == sock[c]
            wanted == k.queue[Least(Gather, Len(k.queue))].end - s.wire
            taken == Least(wanted, s.room)
<1>1. /\ todo # <<>> /\ h.op = "send" /\ h.op \notin LoopOp
      /\ UNCHANGED <<backlog, connections, readOutstanding, writeOutstanding,
                     removal, service>>
  BY DEF Send, Running, LoopOp, polling
<1>2. /\ c \in Conn /\ ToSet(todo) = {h} \cup R /\ k.status # "NEW"
      /\ k \in Connection /\ s \in Socket /\ IsOpen(c)
      /\ \A task \in R : task.op \notin Walking
      /\ \A d \in Conn : Fine({h} \cup R, W, d, conn[d], sock[d])
  <2>1. h.op \notin Called
    BY <1>1 DEF Called, Closing
  <2>. QED BY <2>1, <1>1, RunningOn DEF Sending
<1>3. ASSUME NEW op \in {"close", "walk"}, NEW n \in Nat
      PROVE  LET a == [op |-> op, conn |-> c, n |-> n]
             IN  /\ TaskTyped(a) /\ a.op = op /\ a.conn = c /\ a.n = n
  <2>1. op \in Op \ LoopOp
    BY <1>3 DEF Op, LoopOp
  <2>. QED BY <2>1, <1>2, <1>3, TaskOf
<1>4. h.op \notin Called
  BY <1>1 DEF Called, Closing
<1>5. ASSUME NEW new \in {<<>>} \cup {<<a>> : a \in {b \in Task : /\ TaskTyped(b) /\ b.conn = c
                                                          /\ b.op \in {"close", "walk"}}},
             Becomes(new),
             NEW k2 \in Connection, NEW s2 \in Socket,
             conn' = [conn EXCEPT ![c] = k2], sock' = [sock EXCEPT ![c] = s2],
             k2.status = k.status, k2.outstanding = k.outstanding, s2.watched = s.watched,
             Sound(ToSet(new) \cup R, W, c, k2, s2)
      PROVE  LoopInv'
  <2>1. /\ new \in Seq(Task) /\ WalksFirst(new)
        /\ \A i \in 1..Len(new) : /\ TaskTyped(new[i]) /\ new[i].op \in {"close", "walk"}
                                  /\ new[i].conn = c
    <3>1. CASE new = <<>>
      BY <3>1, NoTask
    <3>2. CASE new # <<>>
      <4>1. PICK b \in Task : /\ new = <<b>> /\ TaskTyped(b) /\ b.conn = c
                              /\ b.op \in {"close", "walk"}
        BY <3>2, <1>5
      <4>. QED BY <4>1, OneTask
    <3>. QED BY <3>1, <3>2
  <2>2. \A i \in 1..Len(new) : new[i].op \notin LoopOp
    BY <2>1 DEF LoopOp
  <2>. QED BY <1>1, <1>2, <1>4, <1>5, <2>1, <2>2, OnlyThis
<1>6. /\ conn = [conn EXCEPT ![c] = k] /\ sock = [sock EXCEPT ![c] = s]
  BY <1>2, Typed
<1>7. Sound({h} \cup R, W, c, k, s) /\ s.wire = Start(k)
  <2>. HIDE DEF R, W, k, s, c
  <2>1. Sound({h} \cup R, W, c, k, s)
    BY <1>2 DEF Fine, IsOpen, k, s
  <2>2. ~Pending({h} \cup R, Walking, c)
    BY <1>1, <1>2 DEF Pending, Walking
  <2>. QED BY <2>1, <2>2 DEF Sound, Accounted
<1>8. CASE k.queue = <<>>
  <2>. DEFINE k2 == [k EXCEPT !.writeRegistered = FALSE]
  <2>1. conn' = [conn EXCEPT ![c] = k2] /\ Becomes(<<>>) /\ UNCHANGED sock
    BY <1>8 DEF Send, Drained
  <2>2. /\ k2 \in Connection /\ k2.status = k.status /\ k2.outstanding = k.outstanding
        /\ k2.queue = k.queue /\ k2.asked = k.asked /\ k2.writeValid = k.writeValid
        /\ k2.writeRegistered = FALSE
    BY <1>2 DEF Connection
  <2>3. Sound({} \cup R, W, c, k2, s)
    <3>. HIDE DEF R, W, k2, k, s, c
    <3>1. Sound({h} \cup R, W, c, k, s) /\ s.wire = Start(k)
      BY <1>7
    <3>2. Queued(k2) /\ Start(k2) = Start(k)
      BY <2>2, <3>1 DEF Sound, Queued, Start
    <3>3. Accounted(R, c, k2, s) /\ CutShort(R, c, k2, s) /\ ~Pending(R, {"walk"}, c)
      BY <1>2, <2>2, <3>1, <3>2 DEF Sound, Accounted, CutShort, Pending, Walking
    <3>4. Woken({h} \cup R, c, s) => Woken(R, c, s)
      BY <1>1 DEF Woken, Pending, Waking
    <3>5. TakenUp(R, W, c, k2, s)
      BY <1>8, <2>2, <3>1, <3>4 DEF Sound, TakenUp, k
    <3>6. {} \cup R = R
      OBVIOUS
    <3>. QED BY <3>2, <3>3, <3>5, <3>6 DEF Sound
  <2>. HIDE DEF k2
  <2>. QED BY <1>2, <1>5, <1>6, <2>1, <2>2, <2>3, NoTask
<1>9. CASE k.queue # <<>> /\ s.reset
  <2>. DEFINE a == Do("close", c)
  <2>1. Becomes(<<a>>) /\ UNCHANGED <<conn, sock>>
    BY <1>9 DEF Send
  <2>2. /\ TaskTyped(a) /\ a.op = "close" /\ a.conn = c
    BY <1>3 DEF Do
  <2>3. Sound({a} \cup R, W, c, k, s)
    <3>. HIDE DEF R, W, a
    <3>1. Sound({h} \cup R, W, c, k, s)
      BY <1>7
    <3>2. \A task \in ({h} \cup R) \cup ({a} \cup R) :
             task.op \in Walking /\ task.conn = c =>
                (task \in {h} \cup R <=> task \in {a} \cup R)
      BY <1>1, <2>2 DEF Walking
    <3>3. Pending({a} \cup R, Writing, c) /\ Pending({a} \cup R, Waking, c)
      BY <2>2 DEF Pending, Writing, Waking
    <3>. QED BY <3>1, <3>2, <3>3, SoundKept DEF Due, Woken
  <2>4. a \in Task /\ ToSet(<<a>>) = {a}
    BY <2>2, OneTask DEF TaskTyped
  <2>. HIDE DEF a
  <2>. QED BY <1>2, <1>5, <1>6, <2>1, <2>2, <2>3, <2>4
<1>10. CASE k.queue # <<>> /\ ~s.reset
  <2>. DEFINE s2 == [s EXCEPT !.wire = @ + taken, !.room = @ - taken,
                              !.blocked = @ \/ taken < wanted]
  <2>1. sock' = [sock EXCEPT ![c] = s2]
    BY <1>2, <1>10, Typed DEF Send
  <2>2. /\ IsOpen(c) /\ Sound({h} \cup R, W, c, k, s) /\ s.wire = Start(k)
    BY <1>2, <1>7
  <2>3. /\ wanted \in Nat /\ taken \in Nat /\ s.room - taken \in Nat
        /\ s.wire + taken \in Nat /\ s.wire + taken <= k.asked
        /\ taken < wanted \/ \E j \in 1..Len(k.queue) : s.wire + taken = k.queue[j].end
    <3>1. /\ wanted = k.queue[Least(Gather, Len(k.queue))].end - s.wire
          /\ taken = Least(wanted, s.room)
          /\ Queued(k)
      BY <2>2 DEF Sound
    <3>. HIDE DEF wanted, taken, k, s
    <3>. QED BY <1>2, <1>10, <2>2, <3>1, SendTakes, SMTT(20) DEF k
  <2>4. /\ s2 \in Socket /\ s2.wire = s.wire + taken /\ s2.edge = s.edge
        /\ s2.blocked = (s.blocked \/ taken < wanted) /\ s2.watched = s.watched
    <3>. HIDE DEF wanted, taken, s
    <3>. QED BY <1>2, <2>3 DEF Socket
  <2>5. s.wire \in Nat /\ k.asked \in Nat
    BY <1>2 DEF Socket, Connection
  <2>. HIDE DEF s2
  <2>6. CASE taken = 0 /\ wanted > 0
    <3>. DEFINE k2 == [k EXCEPT !.writeValid = FALSE]
    <3>1. conn' = [conn EXCEPT ![c] = k2] /\ Becomes(<<>>)
      BY <1>2, <1>10, <2>6, Typed DEF Send
    <3>2. /\ k2 \in Connection /\ k2.status = k.status /\ k2.outstanding = k.outstanding
          /\ k2.queue = k.queue /\ k2.asked = k.asked
          /\ k2.writeRegistered = k.writeRegistered
      BY <1>2 DEF Connection
    <3>3. s2.blocked /\ s2.wire = s.wire
      <4>. HIDE DEF wanted, taken, s
      <4>1. s.wire + 0 = s.wire /\ taken = 0 /\ taken < wanted
        BY <2>3, <2>5, <2>6
      <4>. QED BY <2>4, <4>1
    <3>4. Sound({} \cup R, W, c, k2, s2)
      <4>. HIDE DEF R, W, k2, k, s, c, wanted, taken
      <4>1. \A task \in ({h} \cup R) \cup ({} \cup R) :
               task.op \in Walking /\ task.conn = c =>
                  (task \in {h} \cup R <=> task \in {} \cup R)
        BY <1>1 DEF Walking
      <4>2. Due({} \cup R, W, c, s2) /\ Woken({} \cup R, c, s2)
        BY <3>3 DEF Due, Woken
      <4>. QED BY <2>2, <3>2, <3>3, <4>1, <4>2, SoundKept
    <3>. HIDE DEF k2, wanted, taken
    <3>. QED BY <1>2, <1>5, <2>1, <2>4, <3>1, <3>2, <3>4, NoTask
  <2>7. CASE ~ (taken = 0 /\ wanted > 0)
    <3>. DEFINE a == [op |-> "walk", conn |-> c, n |-> taken]
    <3>1. UNCHANGED conn /\ Becomes(<<a>>)
      BY <1>2, <1>10, <2>7, Typed DEF Send
    <3>2. TaskTyped(a) /\ a.op = "walk" /\ a.conn = c /\ a.n = taken
      BY <1>3, <2>3
    <3>3. a \in Task /\ ToSet(<<a>>) = {a}
      BY <3>2, OneTask DEF TaskTyped
    <3>4. Sound({a} \cup R, W, c, k, s2)
      <4>. HIDE DEF R, W, k, s, c, wanted, taken, a
      <4>1. \A task \in {a} \cup R : task.op \in Walking => task = a
        BY <1>2
      <4>2. s2.wire - taken = s.wire /\ s2.wire <= k.asked
        BY <2>3, <2>4, <2>5
      <4>3. Accounted({a} \cup R, c, k, s2)
        BY <2>2, <3>2, <4>1, <4>2 DEF Accounted, Pending, Walking
      <4>4. CutShort({a} \cup R, c, k, s2)
        BY <2>3, <2>4, <4>1 DEF CutShort
      <4>5. Pending({a} \cup R, Writing, c)
        BY <3>2 DEF Pending, Writing
      <4>6. Woken({h} \cup R, c, s) => Woken({a} \cup R, c, s2)
        BY <1>1, <2>4 DEF Woken, Pending, Waking
      <4>7. TakenUp({a} \cup R, W, c, k, s2)
        BY <2>2, <4>5, <4>6 DEF Sound, TakenUp, Due
      <4>. QED BY <1>10, <2>2, <4>3, <4>4, <4>7 DEF Sound, k
    <3>. HIDE DEF a, wanted, taken
    <3>. QED BY <1>2, <1>5, <1>6, <2>1, <2>4, <3>1, <3>2, <3>3, <3>4, ZenonT(30)
  <2>. QED BY <2>6, <2>7
<1>. QED BY <1>8, <1>9, <1>10

\* The walk over one value of those that were sent: it is cut short or leaves the queue.
LEMMA WalkKeeps ==
    ASSUME LoopInv, Walk
    PROVE  LoopInv'
<1>. DEFINE c == This
            h == Head(todo)
            n == h.n
            R == ToSet(Tail(todo))
            W == ToSet(writeOutstanding)
            k == conn[c]
            s == sock[c]
            q == k.queue
<1>1. /\ todo # <<>> /\ h.op = "walk" /\ h.op \notin LoopOp /\ h.op \notin Called
      /\ UNCHANGED <<sock, backlog, connections, readOutstanding, writeOutstanding,
                     removal, service>>
  BY DEF Walk, Running, LoopOp, Called, Closing, polling
<1>2. /\ c \in Conn /\ n \in Nat /\ ToSet(todo) = {h} \cup R /\ k.status # "NEW"
      /\ k \in Connection /\ s \in Socket /\ IsOpen(c)
      /\ \A task \in R : task.op \notin Walking
      /\ \A d \in Conn : Fine({h} \cup R, W, d, conn[d], sock[d])
  BY <1>1, RunningOn DEF Sending
<1>3. Sound({h} \cup R, W, c, k, s)
  BY <1>2 DEF Fine, IsOpen
<1>4. sock' = [sock EXCEPT ![c] = s]
  BY <1>1, <1>2, Typed
<1>5. q # <<>> /\ Queued(k) /\ s.wire - n = Start(k)
  <2>. HIDE DEF R, W
  <2>1. q # <<>>
    BY <1>1, <1>3 DEF Sound, Pending, This
  <2>2. s.wire - n = Start(k)
    BY <1>1, <1>3 DEF Sound, Accounted, Walking, This
  <2>. QED BY <1>3, <2>1, <2>2 DEF Sound
<1>6. /\ Head(q) = q[1] /\ 1 \in 1..Len(q) /\ Len(q) \in Nat
      /\ \A i \in 1..Len(q) : q[i].size \in Nat /\ q[i].end \in Nat
      /\ s.wire \in Nat
  <2>1. q \in Seq(Value) /\ s.wire \in Nat
    BY <1>2 DEF Connection, Socket
  <2>2. \A i \in 1..Len(q) : q[i] \in Value
    BY <2>1
  <2>3. Len(q) \in Nat \ {0} /\ Head(q) = q[1]
    BY <1>5, <2>1, HeadAndRest
  <2>. QED BY <2>1, <2>2, <2>3 DEF Value
<1>7. Start(k) = q[1].end - q[1].size
  BY <1>5 DEF Start
<1>8. CASE n < q[1].size
  <2>. DEFINE k2 == [k EXCEPT !.queue[1].size = @ - n, !.writeValid = FALSE]
  <2>1. conn' = [conn EXCEPT ![c] = k2] /\ Becomes(<<>>)
    BY <1>2, <1>6, <1>8, Typed DEF Walk
  <2>2. /\ k2 \in Connection /\ Queued(k2) /\ Start(k2) = Start(k) + n
        /\ k2.asked = k.asked /\ k2.writeRegistered = k.writeRegistered
        /\ k2.status = k.status /\ k2.outstanding = k.outstanding
        /\ k2.queue # <<>>
    BY <1>2, <1>5, <1>8, FirstIsCut
  <2>. HIDE DEF k2
  <2>3. s.blocked \/ s.edge
    <3>1. ASSUME NEW j \in 1..Len(q) PROVE s.wire # q[j].end
      <4>1. s.wire < q[1].end
        <5>1. s.wire = q[1].end - q[1].size + n
          BY <1>2, <1>5, <1>6, <1>7
        <5>. QED BY <5>1, <1>2, <1>6, <1>8
      <4>2. q[1].end <= q[j].end
        <5>1. CASE j = 1
          BY <5>1, <1>6
        <5>2. CASE j # 1
          <6>1. 1 < j /\ q[1].end + q[j].size <= q[j].end
            BY <5>2, <1>5, <1>6 DEF Queued
          <6>. QED BY <6>1, <1>6
        <5>. QED BY <5>1, <5>2
      <4>. QED BY <4>1, <4>2, <1>6
    <3>2. \/ s.blocked \/ s.edge \/ \E j \in 1..Len(q) : s.wire = q[j].end
      <4>. HIDE DEF R, W
      <4>. QED BY <1>1, <1>3 DEF Sound, CutShort, Walking, This
    <3>. QED BY <3>1, <3>2
  <2>4. Sound({} \cup R, W, c, k2, s)
    <3>. HIDE DEF R, W, k, s, c, n
    <3>1. s.wire = Start(k2)
      <4>1. Start(k) \in Int
        BY <1>6, <1>7
      <4>. QED BY <4>1, <1>2, <1>5, <1>6, <2>2
    <3>2. \A task \in {} \cup R : task.op \notin Walking
      BY <1>2
    <3>3. Accounted({} \cup R, c, k2, s)
      BY <1>3, <2>2, <3>1, <3>2 DEF Sound, Accounted
    <3>4. CutShort({} \cup R, c, k2, s) /\ ~Pending({} \cup R, {"walk"}, c)
      BY <3>2 DEF CutShort, Pending, Walking
    <3>5. TakenUp({} \cup R, W, c, k2, s)
      BY <1>3, <1>5, <2>2, <2>3 DEF Sound, TakenUp, Due, Woken
    <3>. QED BY <2>2, <3>3, <3>4, <3>5 DEF Sound
  <2>. QED BY <1>1, <1>2, <1>4, <2>1, <2>2, <2>4, NoTask, OnlyThis
<1>9. CASE ~ (n < q[1].size)
  <2>. DEFINE k2 == [k EXCEPT !.queue = Tail(@)]
              left == Left(n, q[1])
              a == Do("handler", c)
              b == [op |-> "after", conn |-> c, n |-> left]
  <2>1. conn' = [conn EXCEPT ![c] = k2] /\ Becomes(<<a, b>>)
    BY <1>2, <1>6, <1>9, Typed DEF Walk
  <2>2. /\ k2 \in Connection /\ Queued(k2) /\ Start(k2) = q[1].end
        /\ k2.asked = k.asked /\ k2.writeRegistered = k.writeRegistered
        /\ k2.status = k.status /\ k2.writeValid = k.writeValid
        /\ k2.outstanding = k.outstanding
        /\ \A j \in 2..Len(q) : /\ j - 1 \in 1..Len(k2.queue) /\ k2.queue[j - 1] = q[j]
    BY <1>2, <1>5, FirstIsTaken
  <2>3. left \in Nat /\ s.wire - left = q[1].end
    <3>. HIDE DEF s
    <3>1. left = n - q[1].size
      BY DEF Left
    <3>2. s.wire - n = q[1].end - q[1].size
      BY <1>5, <1>7
    <3>3. /\ n \in Nat /\ s.wire \in Nat /\ q[1].size \in Nat /\ q[1].end \in Nat
          /\ ~ (n < q[1].size)
      BY <1>2, <1>6, <1>9
    <3>. HIDE DEF left, n, q
    <3>. QED BY <3>1, <3>2, <3>3
  <2>4. /\ TaskTyped(a) /\ a.op = "handler" /\ a.conn = c
        /\ TaskTyped(b) /\ b.op = "after" /\ b.conn = c /\ b.n = left
    <3>1. "handler" \in Op \ LoopOp /\ "after" \in Op \ LoopOp /\ 0 \in Nat
      BY DEF Op, LoopOp
    <3>. HIDE DEF left
    <3>. QED BY <3>1, <1>2, <2>3, TaskOf DEF Do
  <2>5. /\ <<a, b>> \in Seq(Task) /\ WalksFirst(<<a, b>>) /\ ToSet(<<a, b>>) = {a, b}
        /\ \A i \in 1..Len(<<a, b>>) : <<a, b>>[i] = a \/ <<a, b>>[i] = b
    BY <2>4, TwoTasks DEF Sending, Called
  <2>6. Sound({a, b} \cup R, W, c, k2, s)
    <3>. HIDE DEF R, W, k2, k, s, c, n, left, a, b, q
    <3>1. \A task \in {a, b} \cup R : task.op \in Walking => task = b
      BY <1>2, <2>4 DEF Walking
    <3>2. Accounted({a, b} \cup R, c, k2, s)
      BY <1>3, <2>2, <2>3, <2>4, <3>1 DEF Sound, Accounted, Pending, Walking
    <3>3. CutShort({a, b} \cup R, c, k2, s)
      <4>1. s.blocked \/ s.edge \/ \E j \in 1..Len(q) : s.wire = q[j].end
        BY <1>1, <1>3 DEF Sound, CutShort, Walking, This, c, q
      <4>2. ASSUME NEW j \in 1..Len(q), s.wire = q[j].end
            PROVE  left = 0 \/ \E i \in 1..Len(k2.queue) : s.wire = k2.queue[i].end
        <5>1. CASE j = 1
          <6>1. left \in Nat /\ s.wire - left = s.wire /\ s.wire \in Nat
            BY <5>1, <4>2, <1>6, <2>3
          <6>. QED BY <6>1
        <5>2. CASE j # 1
          <6>1. j \in 2..Len(q)
            BY <5>2, <1>6
          <6>2. j - 1 \in 1..Len(k2.queue) /\ k2.queue[j - 1] = q[j]
            BY <6>1, <2>2
          <6>. QED BY <6>2, <4>2
        <5>. QED BY <5>1, <5>2
      <4>3. left = 0 \/ s.blocked \/ s.edge \/ \E i \in 1..Len(k2.queue) : s.wire = k2.queue[i].end
        BY <4>1, <4>2
      <4>. QED BY <2>4, <3>1, <4>3 DEF CutShort
    <3>4. ~Pending({a, b} \cup R, {"walk"}, c)
      BY <2>4, <3>1 DEF Pending, Walking
    <3>5. Pending({a, b} \cup R, Writing, c)
      BY <2>4 DEF Pending, Writing
    <3>6. Woken({h} \cup R, c, s) => Woken({a, b} \cup R, c, s)
      BY <1>1 DEF Woken, Pending, Waking
    <3>7. TakenUp({a, b} \cup R, W, c, k2, s)
      BY <1>3, <1>5, <2>2, <3>5, <3>6 DEF Sound, TakenUp, Due, q
    <3>. QED BY <2>2, <3>2, <3>3, <3>4, <3>7 DEF Sound
  <2>7. \A i \in 1..Len(<<a, b>>) : /\ TaskTyped(<<a, b>>[i]) /\ <<a, b>>[i].conn = c
                                    /\ <<a, b>>[i].op \notin LoopOp
    BY <2>4, <2>5 DEF LoopOp
  <2>. HIDE DEF k2, a, b
  <2>. QED BY <1>1, <1>2, <1>4, <2>1, <2>2, <2>5, <2>6, <2>7, OnlyThis
<1>. QED BY <1>8, <1>9

-----------------------------------------------------------------------------
(* What a handler, or the closing of a connection, writes.                 *)

\* A value that is written on a connection changes its queue and the outstanding writes,
\* in which it puts no other connection.
LEMMA EnqueueIs ==
    ASSUME LoopInv, NEW c \in Conn, NEW size \in Nat, Enqueue(c, size)
    PROVE  /\ conn' \in [Conn -> Connection] /\ conn'[c] = Written(conn[c], size)
           /\ \A d \in Conn : d # c => conn'[d] = conn[d]
           /\ \A d \in Conn : /\ conn'[d].status = conn[d].status
                              /\ conn'[d].outstanding = conn[d].outstanding
           /\ writeOutstanding' \in Seq(Conn)
           /\ \A d : d \in ToSet(writeOutstanding') <=>
                        \/ d \in ToSet(writeOutstanding)
                        \/ d = c /\ Registers(conn[c])
<1>. DEFINE k == conn[c]
            k2 == Written(k, size)
            new == [size |-> size, end |-> k.asked + size]
<1>1. k \in Connection /\ k.queue \in Seq(Value) /\ k.asked + size \in Nat
  <2>1. k \in Connection
    BY Typed
  <2>2. k.queue \in Seq(Value) /\ k.asked \in Nat
    BY <2>1 DEF Connection
  <2>. QED BY <2>1, <2>2
<1>2. Append(k.queue, new) \in Seq(Value)
  <2>1. new \in Value
    BY <1>1 DEF Value
  <2>. QED BY <1>1, <2>1
<1>3. /\ k2 \in Connection /\ k2.status = k.status /\ k2.outstanding = k.outstanding
  <2>1. k2 = [k EXCEPT !.queue = Append(k.queue, new), !.asked = k.asked + size,
                       !.writeRegistered = TRUE]
    BY DEF Written
  <2>. HIDE DEF k, k2, new
  <2>. QED BY <1>1, <1>2, <2>1 DEF Connection
<1>4. conn' = [conn EXCEPT ![c] = k2]
  BY Typed DEF Enqueue
<1>. HIDE DEF k2
<1>5. /\ conn' \in [Conn -> Connection] /\ conn'[c] = k2
      /\ \A d \in Conn : d # c => conn'[d] = conn[d]
  BY <1>3, <1>4, Typed
<1>6. \A d \in Conn : /\ conn'[d].status = conn[d].status
                      /\ conn'[d].outstanding = conn[d].outstanding
  BY <1>3, <1>5
<1>7. /\ writeOutstanding' \in Seq(Conn)
      /\ ToSet(writeOutstanding') = ToSet(writeOutstanding) \cup (IF Registers(k) THEN {c} ELSE {})
  <2>1. CASE Registers(k)
    BY <2>1, Typed, Appended DEF Enqueue
  <2>2. CASE ~Registers(k)
    BY <2>2, Typed DEF Enqueue
  <2>. QED BY <2>1, <2>2
<1>. QED BY <1>5, <1>6, <1>7 DEF k2

\* The same for what the invariant says of the connections.
LEMMA EnqueueKeeps ==
    ASSUME LoopInv, NEW c \in Conn, IsOpen(c), NEW size \in Nat, Enqueue(c, size)
    PROVE  \A d \in Conn : Fine(ToSet(todo), ToSet(writeOutstanding'), d, conn'[d], sock[d])
<1>. DEFINE T == ToSet(todo)
            W == ToSet(writeOutstanding)
            W2 == ToSet(writeOutstanding')
<1>1. /\ conn'[c] = Written(conn[c], size)
      /\ \A d \in Conn : d # c => conn'[d] = conn[d]
      /\ \A d \in Conn : conn'[d].status = conn[d].status
      /\ \A d : d \in W2 <=> d \in W \/ (d = c /\ Registers(conn[c]))
  BY EnqueueIs
<1>2. \A d \in Conn : Fine(T, W, d, conn[d], sock[d])
  BY DEF LoopInv, EachIsFine
<1>. HIDE DEF T, W, W2
<1>3. Sound(T, W2, c, Written(conn[c], size), sock[c])
  <2>1. Sound(T, W, c, conn[c], sock[c]) /\ conn[c].status = "OPEN"
    BY <1>2 DEF Fine, IsOpen
  <2>2. conn[c] \in Connection /\ sock[c].wire \in Nat
    BY Typed DEF Socket
  <2>. QED BY <1>1, <2>1, <2>2, SoundWhenWritten
<1>4. Fine(T, W2, c, conn'[c], sock[c])
  BY <1>1, <1>3 DEF Fine, IsOpen
<1>5. ASSUME NEW d \in Conn, d # c PROVE Fine(T, W2, d, conn'[d], sock[d])
  <2>1. /\ Fine(T, W, d, conn[d], sock[d])
        /\ conn[d].status = "NEW" => d \notin W2
        /\ d \in W => d \in W2
    BY <1>1, <1>2, <1>5 DEF Fine, Untouched
  <2>2. Fine(T, W2, d, conn[d], sock[d])
    BY <2>1, FineKept
  <2>. QED BY <1>1, <1>5, <2>2
<1>. QED BY <1>4, <1>5 DEF T, W2

\* The callback of a closing, which may close a backend or queue an empty value.
LEMMA OnCloseKeeps ==
    ASSUME LoopInv, OnClose
    PROVE  LoopInv'
<1>. DEFINE c == This
            h == Head(todo)
            R == ToSet(Tail(todo))
            W == ToSet(writeOutstanding)
            W2 == ToSet(writeOutstanding')
            closesBackend == c \in DOMAIN Backend /\ IsOpen(Backend[c])
            new == IF closesBackend THEN <<Do("close", Backend[c])>> ELSE <<>>
<1>1. /\ todo # <<>> /\ h.op = "onclose" /\ h.op \notin LoopOp
      /\ UNCHANGED <<sock, backlog, connections, readOutstanding, removal, service>>
      /\ Becomes(new)
  BY DEF OnClose, Running, LoopOp
<1>2. /\ c \in Conn /\ ToSet(todo) = {h} \cup R /\ conn[c].status # "NEW"
      /\ \A d \in Conn : Fine({h} \cup R, W, d, conn[d], sock[d])
  BY <1>1, RunningOn
<1>3. /\ new \in Seq(Task) /\ WalksFirst(new)
      /\ \A i \in 1..Len(new) : TaskTyped(new[i]) /\ new[i].op = "close"
      /\ \A task \in ToSet(new) : /\ task.conn \in Conn /\ IsOpen(task.conn)
                                  /\ task.op = "close"
  <2>1. CASE closesBackend
    <3>. DEFINE b == Backend[c]
                a == Do("close", b)
    <3>1. b \in Conn
      BY <2>1, LoopAssumption
    <3>. HIDE DEF b
    <3>2. TaskTyped(a) /\ a.op = "close" /\ a.conn = b
      <4>1. "close" \in Op \ LoopOp /\ 0 \in Nat
        BY DEF Op, LoopOp
      <4>. QED BY <3>1, <4>1, TaskOf DEF Do
    <3>3. new = <<a>> /\ IsOpen(b)
      BY <2>1 DEF b
    <3>. HIDE DEF a, new
    <3>. QED BY <3>1, <3>2, <3>3, OneTask
  <2>2. CASE ~closesBackend
    BY <2>2, NoTask
  <2>. QED BY <2>1, <2>2
<1>4. /\ conn' \in [Conn -> Connection] /\ writeOutstanding' \in Seq(Conn)
      /\ \A d \in Conn : /\ conn'[d].status = conn[d].status
                         /\ conn'[d].outstanding = conn[d].outstanding
      /\ \A d \in Conn : Fine({h} \cup R, W2, d, conn'[d], sock[d])
  <2>1. CASE UNCHANGED <<conn, writeOutstanding>>
    BY <2>1, <1>2, Typed
  <2>2. CASE Enqueue(c, 0)
    <3>1. 0 \in Nat
      OBVIOUS
    <3>2. CASE IsOpen(c)
      <4>1. \A d \in Conn : Fine(ToSet(todo), W2, d, conn'[d], sock[d])
        BY <1>2, <2>2, <3>1, <3>2, EnqueueKeeps
      <4>. QED BY <1>2, <2>2, <3>1, <4>1, EnqueueIs
    <3>3. CASE ~IsOpen(c)
      <4>1. /\ conn' \in [Conn -> Connection] /\ writeOutstanding' \in Seq(Conn)
            /\ \A d \in Conn : d # c => conn'[d] = conn[d]
            /\ \A d \in Conn : /\ conn'[d].status = conn[d].status
                               /\ conn'[d].outstanding = conn[d].outstanding
            /\ \A d : d \in W2 <=> d \in W \/ (d = c /\ Registers(conn[c]))
        BY <1>2, <2>2, <3>1, EnqueueIs
      <4>2. \A d : d \in W2 <=> d \in W
        BY <3>3, <4>1 DEF Registers, IsOpen
      <4>3. ASSUME NEW d \in Conn PROVE Fine({h} \cup R, W2, d, conn'[d], sock[d])
        <5>. HIDE DEF W, W2, R, c, h
        <5>1. CASE d = c
          BY <5>1, <1>2, <3>3, <4>1 DEF Fine, IsOpen
        <5>2. CASE d # c
          <6>1. Fine({h} \cup R, W, d, conn[d], sock[d]) /\ conn'[d] = conn[d]
            BY <5>2, <1>2, <4>1
          <6>2. W2 = W
            BY <4>2
          <6>. QED BY <6>1, <6>2
        <5>. QED BY <5>1, <5>2
      <4>. QED BY <4>1, <4>3
    <3>. QED BY <3>2, <3>3
  <2>. QED BY <2>1, <2>2 DEF OnClose
<1>5. ASSUME NEW d \in Conn PROVE Fine(ToSet(new) \cup R, W2, d, conn'[d], sock[d])
  <2>. HIDE DEF R, W2, new, h
  <2>1. \A task \in ToSet(new) \cup R :
           task.conn = d => \/ task \in {h} \cup R
                            \/ conn'[d].status # "NEW" /\ task.op \notin Walking
    BY <1>3, <1>4 DEF Walking, IsOpen
  <2>2. \A task \in {h} \cup R :
           task.conn = d /\ task.op \in Writing => task \in ToSet(new) \cup R
    BY <1>1 DEF Writing, h
  <2>3. Fine({h} \cup R, W2, d, conn'[d], sock[d])
    BY <1>4
  <2>4. conn'[d].status = "NEW" => d \notin W2
    BY <2>3 DEF Fine, Untouched
  <2>. QED BY <2>1, <2>2, <2>3, <2>4, FineKept
<1>6. /\ \A i \in 1..Len(new) : /\ TaskTyped(new[i]) /\ new[i].op \notin LoopOp
                                /\ new[i].op \in Called /\ new[i].op \in Closing
      /\ \A task \in ToSet(new) : task.op \in Sending => IsOpen(task.conn)
      /\ h.op \notin {"closeall", "finish"} /\ h.op \notin {"close", "unlink"}
  BY <1>1, <1>3 DEF LoopOp, Called, Closing
<1>. HIDE DEF new
<1>. QED BY <1>1, <1>3, <1>4, <1>5, <1>6, QuietStep, Typed

-----------------------------------------------------------------------------
(* The steps that leave the tasks alone: those of handlers and of peers.   *)

\* A step that opens, closes and deletes nothing.
LEMMA SameTasks ==
    ASSUME LoopInv, UNCHANGED <<todo, connections, readOutstanding, removal>>,
           service' = service \/ (service = "OPEN" /\ service' = "CLOSED"),
           conn' \in [Conn -> Connection], sock' \in [Conn -> Socket],
           writeOutstanding' \in Seq(Conn), backlog' \subseteq Clients,
           \A c \in backlog' : conn[c].status = "NEW",
           \A c \in Conn : /\ conn'[c].status = conn[c].status
                           /\ conn'[c].outstanding = conn[c].outstanding
                           /\ sock'[c].watched = sock[c].watched,
           \A c \in Conn : Fine(ToSet(todo), ToSet(writeOutstanding'), c, conn'[c], sock'[c])
    PROVE  LoopInv'
<1>1. /\ TypeOK /\ Tasks(todo) /\ SendsAreOpen /\ ListsAgree /\ Listed /\ EndOfService
  BY DEF LoopInv
<1>2. \A c \in Conn : IsOpen(c)' <=> IsOpen(c)
  BY DEF IsOpen
<1>3. TypeOK'
  <2>1. service' \in {"OPEN", "CLOSED", "FINISHED"}
    BY <1>1 DEF TypeOK
  <2>. QED BY <1>1, <2>1 DEF TypeOK
<1>4. Tasks(todo)' /\ EachIsFine'
  <2>1. Tasks(todo)'
    BY <1>1 DEF Tasks, Ends, WalksFirst, TaskTyped
  <2>. QED BY <2>1 DEF EachIsFine
<1>5. SendsAreOpen'
  <2>1. \A task \in ToSet(todo) : task.op \in Sending => task.conn \in Conn
    <3>1. \A task \in ToSet(todo) : TaskTyped(task)
      BY <1>1 DEF Tasks, ToSet
    <3>. QED BY <3>1 DEF TaskTyped, Task, Sending, LoopOp
  <2>. QED BY <2>1, <1>1, <1>2 DEF SendsAreOpen
<1>6. BacklogIsNew'
  <2>1. \A c \in backlog' : c \in Conn
    BY DEF Clients
  <2>. QED BY <2>1 DEF BacklogIsNew
<1>7. ListsAgree'
  <2>1. service' = service \/ (service # "FINISHED" /\ service' # "FINISHED")
    OBVIOUS
  <2>2. connections \subseteq Conn
    BY Typed
  <2>3. UNCHANGED <<connections, readOutstanding, removal>>
    OBVIOUS
  <2>. QED BY <1>1, <2>1, <2>2, <2>3, ListsKept
<1>8. Listed'
  BY <1>1, <1>2 DEF Listed
<1>9. EndOfService'
  <2>1. CASE service' = service
    BY <1>1, <2>1 DEF EndOfService
  <2>2. CASE service = "OPEN" /\ service' = "CLOSED"
    <3>1. Ending(ToSet(todo), service', connections)
      BY <1>1, <2>2 DEF EndOfService, Ending
    <3>. QED BY <2>2, <3>1 DEF EndOfService
  <2>. QED BY <2>1, <2>2
<1>. QED BY <1>3, <1>4, <1>5, <1>6, <1>7, <1>8, <1>9 DEF LoopInv

\* A handler runs on an open connection or on one that it reaches.
LEMMA ReachIsOpen ==
    ASSUME LoopInv, InHandler
    PROVE  /\ todo # <<>> /\ Head(todo).op \in {"handler", "cycle"}
           /\ \A c \in Reach : c \in Conn /\ IsOpen(c)
<1>1. todo # <<>> /\ Head(todo).op \in {"handler", "cycle"}
  BY DEF InHandler, Running
<1>2. CASE Head(todo).op = "handler"
  <2>1. Head(todo).op \notin LoopOp
    BY <1>2 DEF LoopOp
  <2>2. This \in Conn
    BY <1>1, <2>1, RunningOn
  <2>. QED BY <1>1, <1>2, <2>2 DEF Reach, Running, Peer
<1>3. CASE Head(todo).op = "cycle"
  BY <1>1, <1>3 DEF Reach, Running
<1>. QED BY <1>1, <1>2, <1>3

\* A handler that writes (write_connection_c).
LEMMA HandlerWritesKeeps ==
    ASSUME LoopInv, HandlerWrites
    PROVE  LoopInv'
<1>1. PICK c \in Reach, size \in Sizes : Enqueue(c, size)
  BY DEF HandlerWrites
<1>2. c \in Conn /\ IsOpen(c) /\ size \in Nat
  BY <1>1, ReachIsOpen, LoopAssumption DEF HandlerWrites
<1>3. /\ conn' \in [Conn -> Connection] /\ writeOutstanding' \in Seq(Conn)
      /\ \A d \in Conn : /\ conn'[d].status = conn[d].status
                         /\ conn'[d].outstanding = conn[d].outstanding
      /\ \A d \in Conn : Fine(ToSet(todo), ToSet(writeOutstanding'), d, conn'[d], sock[d])
  BY <1>1, <1>2, EnqueueIs, EnqueueKeeps
<1>4. UNCHANGED <<sock, backlog, connections, readOutstanding, removal, service, todo>>
  BY DEF HandlerWrites
<1>. QED BY <1>3, <1>4, SameTasks, Typed DEF LoopInv, BacklogIsNew

\* A handler that stops the service.
LEMMA HandlerStopsKeeps ==
    ASSUME LoopInv, HandlerStops
    PROVE  LoopInv'
<1>1. /\ UNCHANGED <<conn, sock, backlog, connections, readOutstanding, writeOutstanding,
                     removal, todo>>
      /\ service = "OPEN" /\ service' = "CLOSED"
  BY DEF HandlerStops, polling
<1>. QED BY <1>1, SameTasks, Typed DEF LoopInv, BacklogIsNew, EachIsFine

\* A step that is only of a socket: neither what was sent on it nor what is reported of it
\* is forgotten.
LEMMA OnlySocket ==
    ASSUME LoopInv, NEW c \in Conn, NEW s2 \in Socket, sock' = [sock EXCEPT ![c] = s2],
           NEW k2 \in Connection, conn' = [conn EXCEPT ![c] = k2],
           \E b \in BOOLEAN : k2 = [conn[c] EXCEPT !.reading = b],
           s2.wire = sock[c].wire, s2.watched = sock[c].watched,
           sock[c].blocked \/ sock[c].edge => s2.blocked \/ s2.edge,
           UNCHANGED <<todo, backlog, connections, readOutstanding, writeOutstanding, removal,
                       service>>
    PROVE  LoopInv'
<1>1. /\ conn' \in [Conn -> Connection] /\ sock' \in [Conn -> Socket]
      /\ conn'[c] = k2 /\ sock'[c] = s2
      /\ \A d \in Conn : d # c => conn'[d] = conn[d] /\ sock'[d] = sock[d]
  BY Typed
<1>2. /\ k2.status = conn[c].status /\ k2.queue = conn[c].queue /\ k2.asked = conn[c].asked
      /\ k2.writeRegistered = conn[c].writeRegistered /\ k2.writeValid = conn[c].writeValid
      /\ k2.outstanding = conn[c].outstanding
  BY Typed DEF Connection
<1>3. \A d \in Conn : Fine(ToSet(todo), ToSet(writeOutstanding), d, conn[d], sock[d])
  BY DEF LoopInv, EachIsFine
<1>4. ASSUME NEW d \in Conn
      PROVE  Fine(ToSet(todo), ToSet(writeOutstanding), d, conn'[d], sock'[d])
  <2>1. CASE d = c
    <3>1. conn[c].status = "NEW" => c \notin ToSet(writeOutstanding)
      BY <1>3 DEF Fine, Untouched
    <3>2. Fine(ToSet(todo), ToSet(writeOutstanding), c, k2, s2)
      BY <1>2, <1>3, <3>1, FineKept
    <3>. QED BY <1>1, <2>1, <3>2
  <2>2. CASE d # c
    BY <1>1, <1>3, <2>2
  <2>. QED BY <2>1, <2>2
<1>5. \A d \in Conn : /\ conn'[d].status = conn[d].status
                      /\ conn'[d].outstanding = conn[d].outstanding
                      /\ sock'[d].watched = sock[d].watched
  BY <1>1, <1>2
<1>. QED BY <1>1, <1>4, <1>5, SameTasks, Typed DEF LoopInv, BacklogIsNew

\* A backend whose reading is paused or resumed is looked at again.
LEMMA HandlerPacesKeeps ==
    ASSUME LoopInv, HandlerPaces
    PROVE  LoopInv'
<1>1. InHandler
  BY DEF HandlerPaces, InHandler
<1>2. PICK b \in Reach : /\ conn' = [conn EXCEPT ![b].reading = ~@]
                         /\ sock' = [sock EXCEPT ![b].edge = TRUE]
  BY DEF HandlerPaces
<1>3. b \in Conn
  BY <1>1, ReachIsOpen
<1>. DEFINE k == conn[b]
            s == sock[b]
            k2 == [k EXCEPT !.reading = ~@]
            s2 == [s EXCEPT !.edge = TRUE]
<1>4. /\ k \in Connection /\ s \in Socket
      /\ conn' = [conn EXCEPT ![b] = k2] /\ sock' = [sock EXCEPT ![b] = s2]
  BY <1>2, <1>3, Typed
<1>. HIDE DEF k, s
<1>5. /\ k2 \in Connection /\ s2 \in Socket /\ s2.wire = s.wire /\ s2.watched = s.watched
      /\ s2.edge
  BY <1>4 DEF Connection, Socket
<1>6. \E r \in BOOLEAN : k2 = [k EXCEPT !.reading = r]
  <2>1. (~k.reading) \in BOOLEAN
    OBVIOUS
  <2>. QED BY <2>1
<1>7. UNCHANGED <<todo, backlog, connections, readOutstanding, writeOutstanding, removal,
                  service>>
  BY DEF HandlerPaces, polling
<1>. HIDE DEF k2, s2
<1>. QED BY <1>3, <1>4, <1>5, <1>6, <1>7, OnlySocket DEF k, s

\* What peers do to their sockets only adds to what will be reported.
LEMMA PeersKeep ==
    ASSUME LoopInv, NEW c \in Conn,
           PeerSends(c) \/ PeerShuts(c) \/ PeerResets(c) \/ PeerDrains(c)
    PROVE  LoopInv'
<1>. DEFINE s == sock[c]
            k == conn[c]
<1>1. s \in Socket /\ k \in Connection /\ conn = [conn EXCEPT ![c] = k]
  BY Typed
<1>2. UNCHANGED <<conn, todo, backlog, connections, readOutstanding, writeOutstanding,
                  removal, service>>
  BY DEF PeerSends, PeerShuts, PeerResets, PeerDrains, polling
<1>3. \E r \in BOOLEAN : k = [k EXCEPT !.reading = r]
  <2>. HIDE DEF k
  <2>1. k = [k EXCEPT !.reading = k.reading] /\ k.reading \in BOOLEAN
    BY <1>1 DEF Connection
  <2>. QED BY <2>1
<1>4. ASSUME NEW s2 \in Socket, sock' = [sock EXCEPT ![c] = s2],
             s2.wire = s.wire, s2.watched = s.watched,
             s.blocked \/ s.edge => s2.blocked \/ s2.edge
      PROVE  LoopInv'
  <2>. HIDE DEF k
  <2>. QED BY <1>1, <1>2, <1>3, <1>4, OnlySocket DEF k
<1>5. CASE PeerSends(c)
  <2>1. PICK n \in 1..(MaxData - sock[c].sent) :
             sock' = [sock EXCEPT ![c].received = @ + n, ![c].sent = @ + n, ![c].edge = TRUE]
    BY <1>5 DEF PeerSends
  <2>. DEFINE s2 == [s EXCEPT !.received = @ + n, !.sent = @ + n, !.edge = TRUE]
  <2>2. sock' = [sock EXCEPT ![c] = s2]
    BY <2>1, Typed
  <2>3. n \in Nat
    OBVIOUS
  <2>. HIDE DEF s
  <2>4. s2 \in Socket /\ s2.wire = s.wire /\ s2.watched = s.watched /\ s2.edge
    <3>1. s.received + n \in Nat /\ s.sent + n \in Nat
      BY <1>1, <2>3 DEF Socket
    <3>. QED BY <1>1, <3>1 DEF Socket
  <2>. QED BY <1>4, <2>2, <2>4
<1>6. CASE PeerShuts(c)
  <2>. DEFINE s2 == [s EXCEPT !.fin = TRUE, !.edge = TRUE]
  <2>1. sock' = [sock EXCEPT ![c] = s2]
    BY <1>6, Typed DEF PeerShuts
  <2>. HIDE DEF s
  <2>2. s2 \in Socket /\ s2.wire = s.wire /\ s2.watched = s.watched /\ s2.edge
    BY <1>1 DEF Socket
  <2>. QED BY <1>4, <2>1, <2>2
<1>7. CASE PeerResets(c)
  <2>. DEFINE s2 == [s EXCEPT !.reset = TRUE, !.received = 0, !.edge = TRUE]
  <2>1. sock' = [sock EXCEPT ![c] = s2]
    BY <1>7, Typed DEF PeerResets
  <2>. HIDE DEF s
  <2>2. s2 \in Socket /\ s2.wire = s.wire /\ s2.watched = s.watched /\ s2.edge
    BY <1>1 DEF Socket
  <2>. QED BY <1>4, <2>1, <2>2
<1>8. CASE PeerDrains(c)
  <2>. DEFINE s2 == [s EXCEPT !.room = Room, !.blocked = FALSE, !.edge = @ \/ s.blocked]
  <2>1. sock' = [sock EXCEPT ![c] = s2]
    BY <1>8, Typed DEF PeerDrains
  <2>. HIDE DEF s
  <2>2. /\ s2 \in Socket /\ s2.wire = s.wire /\ s2.watched = s.watched
        /\ s2.edge = (s.edge \/ s.blocked)
    BY <1>1, LoopAssumption DEF Socket
  <2>. QED BY <1>4, <2>1, <2>2
<1>. QED BY <1>5, <1>6, <1>7, <1>8

\* A peer that connects waits in the backlog, its connection still new.
LEMMA PeerConnectsKeeps ==
    ASSUME LoopInv, NEW c \in Conn, PeerConnects(c)
    PROVE  LoopInv'
<1>1. /\ c \in Clients /\ conn[c].status = "NEW" /\ backlog' = backlog \cup {c}
      /\ UNCHANGED <<conn, sock, connections, readOutstanding, writeOutstanding, removal,
                     service, todo>>
  BY DEF PeerConnects, polling
<1>. QED BY <1>1, SameTasks, Typed DEF LoopInv, BacklogIsNew, EachIsFine

-----------------------------------------------------------------------------
(* The opening of connections, by the accepting of them or by a handler.   *)

\* Connections that are opened are put in the list, watched, and start with nothing queued.
LEMMA OpensKeep ==
    ASSUME LoopInv, todo # <<>>, Head(todo).op \in {"accept", "handler"},
           NEW S \in SUBSET Conn, \A c \in S : conn[c].status = "NEW",
           conn' = [c \in Conn |-> IF c \in S THEN Opened(c) ELSE conn[c]],
           sock' = [c \in Conn |-> IF c \in S THEN Watched(c) ELSE sock[c]],
           connections' = connections \cup S, backlog' \subseteq backlog, backlog' \cap S = {},
           UNCHANGED <<readOutstanding, writeOutstanding, removal, service>>,
           UNCHANGED todo \/ (Head(todo).op = "accept" /\ Becomes(<<>>))
    PROVE  LoopInv'
<1>. DEFINE h == Head(todo)
            T == ToSet(todo)
            T2 == ToSet(todo')
            W == ToSet(writeOutstanding)
<1>1. /\ Tasks(todo) /\ T = {h} \cup ToSet(Tail(todo)) /\ \A task \in T : TaskTyped(task)
      /\ \A c \in Conn : Fine(T, W, c, conn[c], sock[c])
  BY Typed, Running_ DEF LoopInv, EachIsFine
<1>2. /\ Tasks(todo') /\ T2 \subseteq T
      /\ \A task \in T : task.op # "accept" => task \in T2
  <2>1. CASE UNCHANGED todo
    BY <1>1, <2>1 DEF Tasks, Ends, WalksFirst, TaskTyped
  <2>2. CASE h.op = "accept" /\ Becomes(<<>>)
    <3>1. h.op \notin Called
      BY <2>2 DEF Called, Closing
    <3>2. Tasks(<<>> \o Tail(todo)) /\ ToSet(<<>> \o Tail(todo)) = ToSet(<<>>) \cup ToSet(Tail(todo))
      BY <1>1, <3>1, NoTask, Become_
    <3>3. Tasks(todo') /\ T2 = ToSet(Tail(todo))
      BY <2>2, <3>2, NoTask DEF Becomes
    <3>. QED BY <1>1, <2>2, <3>3
  <2>. QED BY <2>1, <2>2
<1>3. /\ \A c \in Conn : conn[c] \in Connection /\ sock[c] \in Socket
      /\ connections \subseteq Conn /\ backlog \subseteq Clients
  BY Typed
<1>4. /\ \A c \in Conn : /\ c \in S => conn'[c] = Opened(c) /\ sock'[c] = Watched(c)
                         /\ c \notin S => conn'[c] = conn[c] /\ sock'[c] = sock[c]
  OBVIOUS
<1>5. ASSUME NEW c \in S
      PROVE  /\ Opened(c) \in Connection /\ Opened(c).status = "OPEN"
             /\ Opened(c).queue = <<>> /\ ~Opened(c).writeRegistered
             /\ ~Opened(c).outstanding /\ Opened(c).asked = 0
             /\ Watched(c) \in Socket /\ Watched(c).wire = 0 /\ Watched(c).edge
             /\ Watched(c).watched
             /\ ~conn[c].outstanding
             /\ \A task \in T : task.conn # c
  <2>1. Untouched(T, W, c, conn[c], sock[c])
    BY <1>1, <1>5 DEF Fine
  <2>. QED BY <1>3, <1>5, <2>1, ZenonT(30) DEF Untouched, Opened, Watched, Connection, Socket
<1>6. conn' \in [Conn -> Connection] /\ sock' \in [Conn -> Socket]
  BY <1>3, <1>5
<1>. HIDE DEF T, T2, W
<1>7. ASSUME NEW c \in Conn PROVE Fine(T2, W, c, conn'[c], sock'[c])
  <2>1. CASE c \in S
    <3>. DEFINE k2 == Opened(c)
                s2 == Watched(c)
    <3>1. /\ k2.queue = <<>> /\ ~k2.writeRegistered /\ k2.asked = 0 /\ s2.wire = 0 /\ s2.edge
          /\ k2.status = "OPEN"
          /\ \A task \in T2 : task.conn # c
      BY <1>2, <1>5, <2>1
    <3>. HIDE DEF k2, s2
    <3>2. Queued(k2) /\ Start(k2) = 0
      BY <3>1 DEF Queued, Start
    <3>3. Sound(T2, W, c, k2, s2)
      BY <3>1, <3>2 DEF Sound, Accounted, CutShort, TakenUp, Due, Woken, Pending
    <3>. QED BY <1>4, <2>1, <3>1, <3>3 DEF Fine, k2, s2
  <2>2. CASE c \notin S
    <3>1. /\ \A task \in T2 : task \in T
          /\ \A task \in T : task.conn = c /\ task.op \in Writing => task \in T2
      BY <1>2 DEF Writing
    <3>2. conn[c].status = "NEW" => c \notin W
      BY <1>1 DEF Fine, Untouched
    <3>3. Fine(T2, W, c, conn[c], sock[c])
      BY <1>1, <3>1, <3>2, FineKept
    <3>. QED BY <1>4, <2>2, <3>3
  <2>. QED BY <2>1, <2>2
<1>8. \A c \in Conn : IsOpen(c)' <=> IsOpen(c) \/ c \in S
  BY <1>4, <1>5 DEF IsOpen
<1>9. TypeOK'
  BY <1>2, <1>3, <1>6, Typed DEF TypeOK, Tasks
<1>10. EachIsFine'
  BY <1>7 DEF EachIsFine, T2, W
<1>11. SendsAreOpen'
  <2>1. ASSUME NEW task \in T2, task.op \in Sending PROVE IsOpen(task.conn)'
    <3>1. task \in T /\ TaskTyped(task)
      BY <1>1, <1>2, <2>1
    <3>2. task.conn \in Conn
      BY <2>1, <3>1 DEF TaskTyped, Task, Sending, LoopOp
    <3>. QED BY <1>8, <2>1, <3>1, <3>2 DEF LoopInv, SendsAreOpen, T
  <2>. QED BY <2>1 DEF SendsAreOpen, T2
<1>12. BacklogIsNew'
  BY <1>3, <1>4 DEF LoopInv, BacklogIsNew, Clients
<1>13. ListsAgree'
  <2>1. ListsAgree /\ service # "FINISHED"
    BY Typed DEF LoopInv
  <2>2. \A c \in Conn : (sock[c].watched <=> IsOpen(c))'
    BY <2>1, <1>4, <1>5, <1>8 DEF ListsAgree
  <2>3. (\A c \in connections : IsOpen(c))'
    BY <2>1, <1>3, <1>8 DEF ListsAgree
  <2>4. {c \in Conn : IsOpen(c) /\ conn[c].outstanding}' = {c \in Conn : IsOpen(c) /\ conn[c].outstanding}
    BY <1>4, <1>5, <1>8
  <2>5. {c \in Conn : conn[c].status = "CLOSED"}' = {c \in Conn : conn[c].status = "CLOSED"}
    BY <1>4, <1>5
  <2>. QED BY <2>1, <2>2, <2>3, <2>4, <2>5 DEF ListsAgree
<1>14. Listed'
  <2>1. ASSUME NEW c \in Conn, IsOpen(c), Pending(T, {"close", "unlink"}, c)
        PROVE  Pending(T2, {"close", "unlink"}, c)
    BY <2>1, <1>2 DEF Pending
  <2>. QED BY <2>1, <1>8 DEF LoopInv, Listed, T, T2
<1>15. EndOfService'
  <2>1. h \in T /\ h.op \notin Closing \cup {"closeall", "finish"}
    BY <1>1 DEF Closing
  <2>2. \A task \in T : task.op \notin {"closeall", "finish"}
    BY <2>1 DEF LoopInv, EndOfService, Ending, T
  <2>3. service # "FINISHED"
    BY Typed
  <2>. QED BY <1>2, <2>2, <2>3 DEF EndOfService, Ending, T2
<1>. QED BY <1>2, <1>9, <1>10, <1>11, <1>12, <1>13, <1>14, <1>15 DEF LoopInv

\* The connections of the backlog are accepted.
LEMMA AcceptKeeps ==
    ASSUME LoopInv, Accept
    PROVE  LoopInv'
<1>1. todo # <<>> /\ Head(todo).op = "accept"
  BY DEF Accept, Running
<1>2. backlog \in SUBSET Conn /\ \A c \in backlog : conn[c].status = "NEW"
  BY Typed DEF LoopInv, BacklogIsNew, Clients
<1>. QED BY <1>1, <1>2, OpensKeep DEF Accept, polling

\* The backend of a client is connected to.
LEMMA HandlerConnectsKeeps ==
    ASSUME LoopInv, HandlerConnects
    PROVE  LoopInv'
<1>. DEFINE b == Backend[This]
<1>1. /\ todo # <<>> /\ Head(todo).op = "handler" /\ conn[b].status = "NEW"
      /\ conn' = [conn EXCEPT ![b] = Opened(b)] /\ sock' = [sock EXCEPT ![b] = Watched(b)]
      /\ connections' = connections \cup {b}
      /\ UNCHANGED <<backlog, readOutstanding, writeOutstanding, removal, service, todo>>
  BY DEF HandlerConnects, Running, polling
<1>2. b \in Conn /\ b \notin Clients
  BY LoopAssumption DEF HandlerConnects, Clients
<1>. HIDE DEF b
<1>3. /\ {b} \in SUBSET Conn /\ backlog \cap {b} = {}
      /\ conn' = [c \in Conn |-> IF c \in {b} THEN Opened(c) ELSE conn[c]]
      /\ sock' = [c \in Conn |-> IF c \in {b} THEN Watched(c) ELSE sock[c]]
  BY <1>1, <1>2, Typed
<1>. QED BY <1>1, <1>3, OpensKeep

-----------------------------------------------------------------------------
(* The closing of connections by a handler, or at the end of the service.  *)

\* What is called goes before the task that calls it.
LEMMA Call_ ==
    ASSUME NEW t, Tasks(t), t # <<>>, Head(t).op \notin Sending,
           NEW a, TaskTyped(a), a.op = "close"
    PROVE  Tasks(<<a>> \o t) /\ ToSet(<<a>> \o t) = {a} \cup ToSet(t)
<1>. DEFINE u == <<a>> \o t
<1>1. /\ t \in Seq(Task) /\ \A i \in 1..Len(t) : TaskTyped(t[i])
      /\ Ends(t) /\ WalksFirst(t)
  BY DEF Tasks
<1>2. Len(t) \in Nat \ {0} /\ Head(t) = t[1]
  BY <1>1, HeadAndRest
<1>3. /\ u \in Seq(Task) /\ Len(u) = 1 + Len(t) /\ ToSet(u) = {a} \cup ToSet(t)
      /\ u[1] = a /\ \A i \in 2..Len(u) : i - 1 \in 1..Len(t) /\ u[i] = t[i - 1]
  <2>1. /\ <<a>> \in Seq(Task) /\ Len(<<a>>) = 1 /\ <<a>>[1] = a /\ ToSet(<<a>>) = {a}
    BY SetOfOne DEF TaskTyped
  <2>2. /\ u \in Seq(Task) /\ Len(u) = 1 + Len(t) /\ ToSet(u) = {a} \cup ToSet(t)
        /\ \A i \in 1..1 + Len(t) : u[i] = IF i <= 1 THEN <<a>>[i] ELSE t[i - 1]
    <3>1. ASSUME NEW b \in Seq(Task), Len(b) = 1
          PROVE  /\ b \o t \in Seq(Task) /\ Len(b \o t) = 1 + Len(t)
                 /\ ToSet(b \o t) = ToSet(b) \cup ToSet(t)
                 /\ \A i \in 1..1 + Len(t) : (b \o t)[i] = IF i <= 1 THEN b[i] ELSE t[i - 1]
      <4>1. /\ b \o t \in Seq(Task) /\ Len(b \o t) = Len(b) + Len(t)
            /\ \A i \in 1..Len(b) + Len(t) :
                  (b \o t)[i] = IF i <= Len(b) THEN b[i] ELSE t[i - Len(b)]
            /\ ToSet(b \o t) = ToSet(b) \cup ToSet(t)
        BY <1>1, Joined
      <4>. QED BY <3>1, <4>1
    <3>. QED BY <2>1, <3>1
  <2>. HIDE DEF u
  <2>3. u[1] = a
    BY <2>1, <2>2, <1>2
  <2>4. ASSUME NEW i \in 2..Len(u) PROVE i - 1 \in 1..Len(t) /\ u[i] = t[i - 1]
    <3>1. i \in 1..1 + Len(t) /\ ~ (i <= 1) /\ i - 1 \in 1..Len(t)
      BY <2>2, <1>2
    <3>. QED BY <2>2, <3>1
  <2>. QED BY <2>2, <2>3, <2>4
<1>. HIDE DEF u
<1>4. \A i \in 1..Len(u) : i = 1 \/ i \in 2..Len(u)
  BY <1>2, <1>3
<1>5. \A i \in 1..Len(u) : TaskTyped(u[i])
  BY <1>1, <1>3, <1>4
<1>6. ASSUME NEW i \in 1..Len(u)
      PROVE  /\ u[i].op \in {"wait", "cycle", "finish"} => i = Len(u)
             /\ u[i].op = "reap" => i + 1 = Len(u) /\ u[i + 1].op = "cycle"
             /\ u[i].op = "closeall" => i + 1 = Len(u) /\ u[i + 1].op = "finish"
  <2>1. CASE i = 1
    BY <2>1, <1>3
  <2>2. CASE i \in 2..Len(u)
    <3>1. i - 1 \in 1..Len(t) /\ u[i] = t[i - 1]
      BY <2>2, <1>3
    <3>2. /\ t[i - 1].op \in {"wait", "cycle", "finish"} => i - 1 = Len(t)
          /\ t[i - 1].op = "reap" => i - 1 + 1 = Len(t) /\ t[i - 1 + 1].op = "cycle"
          /\ t[i - 1].op = "closeall" => i - 1 + 1 = Len(t) /\ t[i - 1 + 1].op = "finish"
      BY <3>1, <1>1 DEF Ends
    <3>3. i - 1 = Len(t) => i = Len(u)
      BY <2>2, <1>2, <1>3
    <3>4. i - 1 + 1 = Len(t) => i + 1 = Len(u) /\ u[i + 1] = t[i - 1 + 1]
      <4>1. HAVE i - 1 + 1 = Len(t)
      <4>2. i + 1 = Len(u) /\ i + 1 \in 2..Len(u) /\ (i + 1) - 1 = i - 1 + 1
        BY <4>1, <2>2, <1>2, <1>3
      <4>3. u[i + 1] = t[(i + 1) - 1]
        BY <4>2, <1>3
      <4>. QED BY <4>2, <4>3
    <3>. QED BY <3>1, <3>2, <3>3, <3>4
  <2>. QED BY <2>1, <2>2, <1>4
<1>7. ASSUME NEW i \in 1..Len(u)
      PROVE  /\ u[i].op \notin Sending
             /\ u[i].op = "after" => \A j \in 1..i - 1 : u[j].op \in Called
  <2>1. CASE i = 1
    BY <2>1, <1>3 DEF Sending
  <2>2. CASE i \in 2..Len(u)
    <3>1. i - 1 \in 1..Len(t) /\ u[i] = t[i - 1]
      BY <2>2, <1>3
    <3>2. t[i - 1].op \notin Sending
      BY <3>1, <1>1, <1>2 DEF WalksFirst
    <3>3. ASSUME u[i].op = "after", NEW j \in 1..i - 1 PROVE u[j].op \in Called
      <4>1. \A m \in 1..(i - 1) - 1 : t[m].op \in Called
        BY <3>1, <3>3, <1>1 DEF WalksFirst
      <4>2. CASE j = 1
        BY <4>2, <1>3 DEF Called, Closing
      <4>3. CASE j # 1
        <5>1. j \in 2..Len(u) /\ j - 1 \in 1..(i - 1) - 1
          BY <4>3, <2>2, <1>3
        <5>. QED BY <5>1, <4>1, <1>3
      <4>. QED BY <4>2, <4>3
    <3>. QED BY <3>1, <3>2, <3>3
  <2>. QED BY <2>1, <2>2, <1>4
<1>. QED BY <1>3, <1>5, <1>6, <1>7 DEF Tasks, Ends, WalksFirst, u

\* A handler that calls the closing of connections puts it in front of what called it.
LEMMA CallsKeep ==
    ASSUME LoopInv, todo # <<>>, Head(todo).op \in {"handler", "cycle", "closeall"},
           NEW c \in Conn, IsOpen(c), Calls(<<Do("close", c)>>),
           UNCHANGED <<conn, sock, backlog, readOutstanding, writeOutstanding, removal, service>>,
           connections' = connections
               \/ (Head(todo).op = "closeall" /\ connections' = connections \ {c})
    PROVE  LoopInv'
<1>. DEFINE a == Do("close", c)
            h == Head(todo)
            T == ToSet(todo)
            W == ToSet(writeOutstanding)
<1>1. TaskTyped(a) /\ a.op = "close" /\ a.conn = c
  <2>1. "close" \in Op \ LoopOp /\ 0 \in Nat
    BY DEF Op, LoopOp
  <2>. QED BY <2>1, TaskOf DEF Do
<1>2. /\ Tasks(todo) /\ h \in T /\ \A task \in T : TaskTyped(task)
      /\ \A d \in Conn : Fine(T, W, d, conn[d], sock[d])
  BY Typed, Running_ DEF LoopInv, EachIsFine
<1>3. Tasks(todo') /\ ToSet(todo') = {a} \cup T
  <2>1. h.op \notin Sending
    BY DEF Sending
  <2>. QED BY <2>1, <1>1, <1>2, Call_ DEF Calls
<1>. HIDE DEF T, W, a
<1>4. ASSUME NEW d \in Conn PROVE Fine({a} \cup T, W, d, conn[d], sock[d])
  <2>1. \A task \in {a} \cup T :
           task.conn = d => task \in T \/ (conn[d].status # "NEW" /\ task.op \notin Walking)
    BY <1>1 DEF Walking, IsOpen
  <2>2. conn[d].status = "NEW" => d \notin W
    BY <1>2 DEF Fine, Untouched
  <2>. QED BY <1>2, <2>1, <2>2, FineKept
<1>5. \A d \in Conn : IsOpen(d)' <=> IsOpen(d)
  BY DEF IsOpen
<1>6. TypeOK'
  BY <1>3, Typed DEF TypeOK, Tasks
<1>7. EachIsFine'
  BY <1>3, <1>4 DEF EachIsFine, W
<1>8. SendsAreOpen'
  <2>1. ASSUME NEW task \in {a} \cup T, task.op \in Sending PROVE IsOpen(task.conn)'
    <3>1. task \in T /\ TaskTyped(task)
      BY <1>1, <1>2, <2>1 DEF Sending
    <3>2. task.conn \in Conn
      BY <2>1, <3>1 DEF TaskTyped, Task, Sending, LoopOp
    <3>. QED BY <1>5, <2>1, <3>1, <3>2 DEF LoopInv, SendsAreOpen, T
  <2>. QED BY <1>3, <2>1 DEF SendsAreOpen
<1>9. BacklogIsNew'
  BY DEF LoopInv, BacklogIsNew
<1>10. ListsAgree'
  BY Typed DEF LoopInv, ListsAgree, IsOpen
<1>11. Listed'
  <2>1. ASSUME NEW d \in Conn, IsOpen(d)
        PROVE  d \in connections' \/ Pending({a} \cup T, {"close", "unlink"}, d)
    <3>1. d \in connections \/ Pending(T, {"close", "unlink"}, d)
      BY <2>1 DEF LoopInv, Listed, T
    <3>2. d = c => Pending({a} \cup T, {"close", "unlink"}, d)
      BY <1>1 DEF Pending
    <3>. QED BY <3>1, <3>2 DEF Pending
  <2>. QED BY <1>3, <1>5, <2>1 DEF Listed
<1>12. EndOfService'
  <2>1. Ending(T, service, connections) /\ service # "FINISHED"
    BY Typed DEF LoopInv, EndOfService, T
  <2>2. CASE h.op = "closeall"
    <3>1. Ending({a} \cup T, service, connections')
      BY <1>1, <1>2, <2>1, <2>2 DEF Ending, Closing
    <3>. QED BY <1>3, <2>1, <3>1 DEF EndOfService
  <2>3. CASE h.op # "closeall"
    <3>1. h.op \notin Closing \cup {"closeall", "finish"}
      BY <2>3 DEF Closing
    <3>2. \A task \in T : task.op \notin {"closeall", "finish"}
      BY <1>2, <2>1, <3>1 DEF Ending
    <3>3. \A task \in {a} \cup T : task.op \notin {"closeall", "finish"}
      BY <1>1, <3>2
    <3>. QED BY <1>3, <2>1, <3>3 DEF EndOfService, Ending
  <2>. QED BY <2>2, <2>3
<1>. QED BY <1>3, <1>6, <1>7, <1>8, <1>9, <1>10, <1>11, <1>12 DEF LoopInv

\* A handler that closes a connection.
LEMMA HandlerClosesKeeps ==
    ASSUME LoopInv, HandlerCloses
    PROVE  LoopInv'
<1>1. PICK c \in Reach : Calls(<<Do("close", c)>>)
  BY DEF HandlerCloses
<1>2. todo # <<>> /\ Head(todo).op \in {"handler", "cycle"} /\ c \in Conn /\ IsOpen(c)
  BY <1>1, ReachIsOpen DEF HandlerCloses
<1>. QED BY <1>1, <1>2, CallsKeep DEF HandlerCloses, polling

-----------------------------------------------------------------------------
(* Reading, and the end of a connection.                                   *)

\* What is read is not more than what was received.
LEMMA ReadsAreReceived ==
    ASSUME NEW s \in Socket
    PROVE  Reads(s).n \in Nat /\ s.received - Reads(s).n \in Nat
<1>1. s.received \in Nat
  BY DEF Socket
<1>2. Most \in Nat
  BY LoopAssumption DEF Most
<1>. HIDE DEF Most
<1>3. Reads(s).n \in {0, s.received} \/ (Reads(s).n = Most /\ s.received >= Most)
  BY DEF Reads
<1>. HIDE DEF Reads
<1>. QED BY <1>1, <1>2, <1>3

\* The reads of one call, which may leave the connection outstanding (read_handler_stream_io).
LEMMA ReadKeeps ==
    ASSUME LoopInv, Read
    PROVE  LoopInv'
<1>. DEFINE c == This
            h == Head(todo)
            R == ToSet(Tail(todo))
            W == ToSet(writeOutstanding)
            k == conn[c]
            s == sock[c]
            read == Reads(s)
            more == read.why = "more"
            k2 == [k EXCEPT !.outstanding = @ \/ more]
            s2 == [s EXCEPT !.received = @ - read.n]
            a == Do("handler", c)
            b == Do("hangup", c)
            new == (IF read.n > 0 THEN <<a>> ELSE <<>>)
                   \o IF read.why = "closed" THEN <<b>> ELSE <<>>
<1>1. /\ todo # <<>> /\ h.op \in {"read", "readable"} /\ h.op \notin LoopOp
      /\ UNCHANGED <<backlog, connections, writeOutstanding, removal, service>>
      /\ h.op \notin Writing /\ h.op \notin Called /\ h.op \notin Closing
  BY DEF Read, Running, LoopOp, Writing, Called, Closing
<1>2. CASE ~IsOpen(c)
  <2>1. Becomes(<<>>) /\ UNCHANGED <<conn, sock, readOutstanding>>
    BY <1>2 DEF Read
  <2>. QED BY <1>1, <2>1, Dropped
<1>3. CASE IsOpen(c)
  <2>1. /\ c \in Conn /\ ToSet(todo) = {h} \cup R /\ k \in Connection /\ s \in Socket
        /\ \A d \in Conn : Fine({h} \cup R, W, d, conn[d], sock[d])
    BY <1>1, RunningOn
  <2>2. /\ conn' = [conn EXCEPT ![c] = k2] /\ sock' = [sock EXCEPT ![c] = s2]
        /\ readOutstanding' = IF more /\ ~k.outstanding
                              THEN Append(readOutstanding, c) ELSE readOutstanding
        /\ Becomes(new)
    <3>1. /\ sock' = [sock EXCEPT ![c].received = @ - read.n]
          /\ conn' = [conn EXCEPT ![c].outstanding = @ \/ more]
          /\ readOutstanding' = IF more /\ ~k.outstanding
                                THEN Append(readOutstanding, c) ELSE readOutstanding
          /\ Becomes(new)
      BY <1>3 DEF Read
    <3>. HIDE DEF new, read, more
    <3>. QED BY <2>1, <3>1, Typed
  <2>3. read.n \in Nat /\ s.received - read.n \in Nat
    BY <2>1, ReadsAreReceived
  <2>4. more \in BOOLEAN
    OBVIOUS
  <2>5. /\ TaskTyped(a) /\ a.op = "handler" /\ a.conn = c
        /\ TaskTyped(b) /\ b.op = "hangup" /\ b.conn = c
    <3>1. "handler" \in Op \ LoopOp /\ "hangup" \in Op \ LoopOp /\ 0 \in Nat
      BY DEF Op, LoopOp
    <3>. QED BY <3>1, <2>1, TaskOf DEF Do
  <2>. HIDE DEF a, b, read, more
  <2>6. /\ k2 \in Connection /\ k2.status = k.status /\ k2.queue = k.queue
        /\ k2.asked = k.asked /\ k2.writeRegistered = k.writeRegistered
        /\ k2.writeValid = k.writeValid /\ k2.outstanding = (k.outstanding \/ more)
    <3>. HIDE DEF k
    <3>. QED BY <2>1, <2>4 DEF Connection
  <2>7. /\ s2 \in Socket /\ s2.wire = s.wire /\ s2.blocked = s.blocked /\ s2.edge = s.edge
        /\ s2.watched = s.watched
    <3>. HIDE DEF s
    <3>. QED BY <2>1, <2>3 DEF Socket
  <2>8. new \in {<<>>, <<a>>, <<b>>, <<a, b>>}
    <3>1. <<>> \o <<>> = <<>>
      OBVIOUS
    <3>2. <<a>> \o <<>> = <<a>>
      OBVIOUS
    <3>3. <<>> \o <<b>> = <<b>>
      OBVIOUS
    <3>4. <<a>> \o <<b>> = <<a, b>>
      BY OneAndOne
    <3>. QED BY <3>1, <3>2, <3>3, <3>4
  <2>. HIDE DEF new
  <2>9. /\ new \in Seq(Task) /\ WalksFirst(new)
        /\ \A i \in 1..Len(new) : TaskTyped(new[i]) /\ new[i].op \in {"handler", "hangup"}
        /\ ToSet(new) \subseteq {a, b}
    <3>1. CASE new = <<>>
      BY <3>1, NoTask
    <3>2. CASE new = <<a>>
      BY <3>2, <2>5, OneTask
    <3>3. CASE new = <<b>>
      BY <3>3, <2>5, OneTask
    <3>4. CASE new = <<a, b>>
      BY <3>4, <2>5, TwoTasks DEF Sending
    <3>. QED BY <2>8, <3>1, <3>2, <3>3, <3>4
  <2>10. /\ \A i \in 1..Len(new) : new[i].op \notin LoopOp
         /\ \A task \in ToSet(new) : /\ task.conn = c /\ task.op \notin Walking
                                     /\ task.op \notin Sending
    BY <2>5, <2>9 DEF LoopOp, Walking, Sending
  <2>. HIDE DEF k2, s2
  <2>11. /\ conn' \in [Conn -> Connection] /\ sock' \in [Conn -> Socket]
         /\ conn'[c] = k2 /\ sock'[c] = s2
         /\ \A d \in Conn : d # c => conn'[d] = conn[d] /\ sock'[d] = sock[d]
    BY <2>1, <2>2, <2>6, <2>7, Typed
  <2>12. \A d \in Conn : /\ conn'[d].status = conn[d].status
                         /\ sock'[d].watched = sock[d].watched
    BY <2>6, <2>7, <2>11
  <2>13. ASSUME NEW d \in Conn PROVE Fine(ToSet(new) \cup R, W, d, conn'[d], sock'[d])
    <3>1. CASE d # c
      <4>1. \A task \in ToSet(new) : task.conn = d => FALSE
        BY <2>10, <3>1
      <4>2. Fine(ToSet(new) \cup R, W, d, conn[d], sock[d])
        BY <1>1, <3>1, <4>1, OtherKept
      <4>. QED BY <2>11, <3>1, <4>2
    <3>2. CASE d = c
      <4>. HIDE DEF R, W, k, s, c, h
      <4>1. k.status # "NEW"
        BY <1>3 DEF IsOpen, k
      <4>2. \A task \in ToSet(new) \cup R : \/ task \in {h} \cup R
                                            \/ k.status # "NEW" /\ task.op \notin Walking
        BY <2>10, <4>1
      <4>3. \A task \in {h} \cup R : task.op \in Writing => task \in ToSet(new) \cup R
        BY <1>1
      <4>4. Fine({h} \cup R, W, c, k, s)
        BY <2>1 DEF k, s
      <4>5. Fine(ToSet(new) \cup R, W, c, k2, s2)
        BY <2>6, <2>7, <4>1, <4>2, <4>3, <4>4, FineKept
      <4>. QED BY <2>11, <3>2, <4>5
    <3>. QED BY <3>1, <3>2
  <2>14. ListsAgree /\ service # "FINISHED"
    BY <1>1, Typed DEF LoopInv
  <2>15. \A d \in Conn : IsOpen(d)' <=> IsOpen(d)
    BY <2>12 DEF IsOpen
  <2>16. /\ readOutstanding' \in Seq(Conn) /\ IsInjective(readOutstanding')
         /\ ToSet(readOutstanding') = ToSet(readOutstanding) \cup (IF more THEN {c} ELSE {})
    <3>1. /\ readOutstanding \in Seq(Conn) /\ IsInjective(readOutstanding)
          /\ c \in ToSet(readOutstanding) <=> k.outstanding
      BY <1>3, <2>1, <2>14, Typed DEF ListsAgree
    <3>2. CASE more /\ ~k.outstanding
      BY <2>1, <2>2, <3>1, <3>2, Appended
    <3>3. CASE ~ (more /\ ~k.outstanding)
      BY <2>2, <3>1, <3>3
    <3>. QED BY <3>2, <3>3
  <2>17. {d \in Conn : IsOpen(d) /\ conn[d].outstanding}'
            = {d \in Conn : IsOpen(d) /\ conn[d].outstanding} \cup (IF more THEN {c} ELSE {})
    <3>1. \A d \in Conn : (IsOpen(d) /\ conn[d].outstanding)'
                             <=> \/ IsOpen(d) /\ conn[d].outstanding
                                 \/ d = c /\ more
      BY <1>3, <2>6, <2>11, <2>15
    <3>. HIDE DEF c
    <3>. QED BY <2>1, <3>1
  <2>18. {d \in Conn : conn[d].status = "CLOSED"}' = {d \in Conn : conn[d].status = "CLOSED"}
    BY <2>12
  <2>19. ListsAgree'
    <3>1. \A d \in Conn : (sock[d].watched <=> IsOpen(d))'
      BY <2>12, <2>14, <2>15 DEF ListsAgree
    <3>2. (\A d \in connections : IsOpen(d))'
      <4>1. connections \subseteq Conn
        BY Typed
      <4>. QED BY <1>1, <2>14, <2>15, <4>1 DEF ListsAgree
    <3>3. ToSet(readOutstanding)' = {d \in Conn : IsOpen(d) /\ conn[d].outstanding}'
      BY <2>14, <2>16, <2>17 DEF ListsAgree
    <3>4. IsInjective(removal)' /\ ToSet(removal)' = {d \in Conn : conn[d].status = "CLOSED"}'
      BY <1>1, <2>14, <2>18 DEF ListsAgree
    <3>. QED BY <2>16, <3>1, <3>2, <3>3, <3>4 DEF ListsAgree
  <2>20. h.op \notin {"closeall", "finish"} /\ h.op \notin {"close", "unlink"}
    BY <1>1
  <2>21. ToSet(writeOutstanding') = W /\ writeOutstanding' \in Seq(Conn)
    BY <1>1, Typed
  <2>. HIDE DEF R, W
  <2>. QED BY <1>1, <2>2, <2>9, <2>10, <2>11, <2>12, <2>13, <2>16, <2>19, <2>20, <2>21,
              TaskStep DEF R
<1>. QED BY <1>2, <1>3

\* A task that is over and puts nothing in its place.
LEMMA TaskOver ==
    ASSUME NEW t, Tasks(t), t # <<>>
    PROVE  Tasks(<<>> \o Tail(t)) /\ ToSet(<<>> \o Tail(t)) = ToSet(Tail(t))
<1>1. /\ Tasks(<<>> \o Tail(t)) /\ ToSet(<<>> \o Tail(t)) = ToSet(<<>>) \cup ToSet(Tail(t))
  BY NoTask, Become_
<1>. QED BY <1>1, NoTask

\* A closed connection leaves the list and both outstanding arrays, and waits for its deletion
\* (unregister_connection_polling_epoll).
LEMMA UnlinkKeeps ==
    ASSUME LoopInv, Unlink
    PROVE  LoopInv'
<1>. DEFINE c == This
            h == Head(todo)
            R == ToSet(Tail(todo))
            W == ToSet(writeOutstanding)
            W2 == ToSet(writeOutstanding')
            k2 == [conn[c] EXCEPT !.status = "CLOSED", !.outstanding = FALSE]
            s2 == [sock[c] EXCEPT !.watched = FALSE, !.edge = FALSE]
<1>1. /\ todo # <<>> /\ h.op = "unlink" /\ h.op \notin LoopOp
      /\ UNCHANGED <<backlog, service>> /\ Becomes(<<>>)
      /\ readOutstanding' = RemoveFirst(readOutstanding, c)
      /\ writeOutstanding' = RemoveFirst(writeOutstanding, c)
      /\ removal' = (IF c \in ToSet(removal) THEN removal ELSE Append(removal, c))
      /\ connections' = connections \ {c}
  BY DEF Unlink, Running, LoopOp, Discard, Doomed
<1>2. /\ c \in Conn /\ ToSet(todo) = {h} \cup R /\ conn[c].status # "NEW"
      /\ conn[c] \in Connection /\ sock[c] \in Socket
      /\ \A task \in R : task.op \notin Sending
      /\ \A d \in Conn : Fine({h} \cup R, W, d, conn[d], sock[d])
  BY <1>1, RunningOn
<1>3. /\ conn' = [conn EXCEPT ![c] = k2] /\ sock' = [sock EXCEPT ![c] = s2]
      /\ k2 \in Connection /\ k2.status = "CLOSED" /\ k2.outstanding = FALSE
      /\ s2 \in Socket /\ s2.watched = FALSE
  BY <1>2, Typed DEF Unlink, Connection, Socket
<1>. HIDE DEF k2, s2
<1>4. /\ conn' \in [Conn -> Connection] /\ sock' \in [Conn -> Socket]
      /\ conn'[c] = k2 /\ sock'[c] = s2
      /\ \A d \in Conn : d # c => conn'[d] = conn[d] /\ sock'[d] = sock[d]
  BY <1>2, <1>3, Typed
<1>5. /\ Tasks(todo') /\ ToSet(todo') = R
  BY <1>1, Typed, TaskOver DEF Becomes
<1>6. ListsAgree /\ service # "FINISHED"
  BY <1>1, Typed DEF LoopInv
<1>7. /\ readOutstanding' \in Seq(Conn) /\ IsInjective(readOutstanding')
      /\ ToSet(readOutstanding') = ToSet(readOutstanding) \ {c}
  <2>1. IsInjective(readOutstanding) /\ readOutstanding \in Seq(Conn)
    BY <1>6, Typed DEF ListsAgree
  <2>2. /\ RemoveFirst(readOutstanding, c) \in Seq(Conn)
        /\ ToSet(RemoveFirst(readOutstanding, c)) \subseteq ToSet(readOutstanding)
        /\ ToSet(readOutstanding) \ {c} \subseteq ToSet(RemoveFirst(readOutstanding, c))
        /\ IsInjective(RemoveFirst(readOutstanding, c))
        /\ c \notin ToSet(RemoveFirst(readOutstanding, c))
    BY <2>1, FirstRemoved
  <2>. QED BY <1>1, <2>2
<1>8. /\ writeOutstanding' \in Seq(Conn)
      /\ \A d : d # c => (d \in W2 <=> d \in W)
  <2>1. /\ RemoveFirst(writeOutstanding, c) \in Seq(Conn)
        /\ ToSet(RemoveFirst(writeOutstanding, c)) \subseteq ToSet(writeOutstanding)
        /\ ToSet(writeOutstanding) \ {c} \subseteq ToSet(RemoveFirst(writeOutstanding, c))
    BY Typed, FirstRemoved
  <2>. QED BY <1>1, <2>1
<1>9. /\ removal' \in Seq(Conn) /\ IsInjective(removal')
      /\ ToSet(removal') = ToSet(removal) \cup {c}
  <2>1. removal \in Seq(Conn) /\ IsInjective(removal)
    BY <1>6, Typed DEF ListsAgree
  <2>2. CASE c \in ToSet(removal)
    BY <1>1, <2>1, <2>2
  <2>3. CASE c \notin ToSet(removal)
    BY <1>1, <1>2, <2>1, <2>3, Appended
  <2>. QED BY <2>2, <2>3
<1>10. \A d \in Conn : IsOpen(d)' <=> d # c /\ IsOpen(d)
  BY <1>2, <1>3, <1>4 DEF IsOpen
<1>11. TypeOK'
  BY <1>1, <1>4, <1>5, <1>7, <1>8, <1>9, Typed DEF TypeOK, Tasks
<1>12. EachIsFine'
  <2>1. ASSUME NEW d \in Conn PROVE Fine(R, W2, d, conn'[d], sock'[d])
    <3>1. CASE d = c
      BY <3>1, <1>3, <1>4 DEF Fine
    <3>2. CASE d # c
      <4>1. Fine({} \cup R, W2, d, conn[d], sock[d])
        <5>1. \A task \in {} : FALSE
          OBVIOUS
        <5>. QED BY <1>1, <1>8, <3>2, <5>1, OtherKept
      <4>2. {} \cup R = R
        OBVIOUS
      <4>. HIDE DEF R, W2, c
      <4>. QED BY <1>4, <3>2, <4>1, <4>2
    <3>. QED BY <3>1, <3>2
  <2>. QED BY <1>5, <2>1 DEF EachIsFine
<1>13. SendsAreOpen'
  BY <1>2, <1>5 DEF SendsAreOpen
<1>14. BacklogIsNew'
  <2>1. \A d \in backlog : d \in Conn /\ conn[d].status = "NEW"
    BY Typed DEF LoopInv, BacklogIsNew, Clients
  <2>2. c \notin backlog
    BY <1>2, <2>1
  <2>. HIDE DEF c
  <2>. QED BY <1>1, <1>4, <2>1, <2>2 DEF BacklogIsNew
<1>15. ListsAgree'
  <2>. HIDE DEF c
  <2>1. ASSUME NEW d \in Conn PROVE (sock[d].watched <=> IsOpen(d))'
    <3>1. CASE d = c
      BY <3>1, <1>3, <1>4, <1>10
    <3>2. CASE d # c
      BY <3>2, <1>4, <1>6, <1>10 DEF ListsAgree
    <3>. QED BY <3>1, <3>2
  <2>2. (\A d \in connections : IsOpen(d))'
    <3>1. \A d \in connections : d \in Conn /\ IsOpen(d)
      BY <1>6, Typed DEF ListsAgree
    <3>. QED BY <1>1, <1>10, <3>1
  <2>3. {d \in Conn : IsOpen(d) /\ conn[d].outstanding}'
           = {d \in Conn : IsOpen(d) /\ conn[d].outstanding} \ {c}
    <3>1. \A d \in Conn : (IsOpen(d) /\ conn[d].outstanding)'
                             <=> IsOpen(d) /\ conn[d].outstanding /\ d # c
      BY <1>4, <1>10
    <3>. QED BY <3>1
  <2>4. {d \in Conn : conn[d].status = "CLOSED"}'
           = {d \in Conn : conn[d].status = "CLOSED"} \cup {c}
    <3>1. \A d \in Conn : (conn[d].status = "CLOSED")' <=> conn[d].status = "CLOSED" \/ d = c
      BY <1>3, <1>4
    <3>. QED BY <1>2, <3>1
  <2>5. /\ ToSet(readOutstanding) = {d \in Conn : IsOpen(d) /\ conn[d].outstanding}
        /\ ToSet(removal) = {d \in Conn : conn[d].status = "CLOSED"}
    BY <1>6 DEF ListsAgree
  <2>6. ToSet(readOutstanding)' = {d \in Conn : IsOpen(d) /\ conn[d].outstanding}'
    BY <1>7, <2>3, <2>5
  <2>7. ToSet(removal)' = {d \in Conn : conn[d].status = "CLOSED"}'
    BY <1>9, <2>4, <2>5
  <2>. QED BY <1>7, <1>9, <2>1, <2>2, <2>6, <2>7 DEF ListsAgree
<1>16. Listed'
  <2>1. ASSUME NEW d \in Conn, d # c, IsOpen(d)
        PROVE  d \in connections' \/ Pending(R, {"close", "unlink"}, d)
    <3>1. d \in connections \/ Pending({h} \cup R, {"close", "unlink"}, d)
      BY <1>2, <2>1 DEF LoopInv, Listed
    <3>2. h.conn = c
      BY DEF This
    <3>. HIDE DEF c, h
    <3>. QED BY <1>1, <2>1, <3>1, <3>2 DEF Pending
  <2>. QED BY <1>5, <1>10, <2>1 DEF Listed
<1>17. EndOfService'
  <2>. HIDE DEF R, h
  <2>1. Ending({h} \cup R, service, connections)
    BY <1>2 DEF LoopInv, EndOfService
  <2>2. connections' \subseteq connections
    BY <1>1
  <2>3. Ending({} \cup R, service, connections')
    BY <1>1, <2>1, <2>2, EndingKept
  <2>4. {} \cup R = R
    OBVIOUS
  <2>. QED BY <1>1, <1>5, <1>6, <2>3, <2>4 DEF EndOfService
<1>. QED BY <1>5, <1>11, <1>12, <1>13, <1>14, <1>15, <1>16, <1>17 DEF LoopInv

-----------------------------------------------------------------------------
(* The rounds.                                                             *)

\* A step that deletes the connections that were closed, and no other.
Deletes ==
    \A d \in Conn :
        conn'[d] = conn[d] \/ (conn[d].status = "CLOSED" /\ conn'[d].status = "FREED")

\* What is deleted was closed.
LEMMA DeletedIsFreed ==
    ASSUME LoopInv, todo # <<>>, conn' = Delete(removal)
    PROVE  /\ conn' \in [Conn -> Connection] /\ Deletes
           /\ \A d \in Conn : conn'[d].status # "CLOSED"
<1>1. ToSet(removal) = {d \in Conn : conn[d].status = "CLOSED"}
  BY Typed DEF LoopInv, ListsAgree
<1>2. ASSUME NEW d \in Conn, d \in ToSet(removal)
      PROVE  /\ [conn[d] EXCEPT !.status = "FREED", !.queue = <<>>] \in Connection
             /\ [conn[d] EXCEPT !.status = "FREED", !.queue = <<>>].status = "FREED"
  <2>1. \A k \in Connection :
           /\ [k EXCEPT !.status = "FREED", !.queue = <<>>] \in Connection
           /\ [k EXCEPT !.status = "FREED", !.queue = <<>>].status = "FREED"
    <3>1. <<>> \in Seq(Value)
      OBVIOUS
    <3>. QED BY <3>1 DEF Connection
  <2>. QED BY <2>1, Typed
<1>3. ASSUME NEW d \in Conn
      PROVE  /\ conn'[d] \in Connection
             /\ d \in ToSet(removal) => conn'[d].status = "FREED"
             /\ d \notin ToSet(removal) => conn'[d] = conn[d]
  BY <1>2, Typed DEF Delete
<1>4. conn' = [d \in Conn |-> conn'[d]]
  BY DEF Delete
<1>. QED BY <1>1, <1>3, <1>4 DEF Deletes

\* A task of the loop that is over, and deletes: what it changes of the lists is looked at
\* for each of them.
LEMMA LoopTaskOver ==
    ASSUME LoopInv, todo # <<>>, Head(todo).op \in {"reap", "closeall", "finish"},
           Becomes(<<>>), UNCHANGED <<sock, backlog, connections>>,
           conn' \in [Conn -> Connection], Deletes,
           readOutstanding' \in Seq(Conn), writeOutstanding' \in Seq(Conn),
           removal' \in Seq(Conn), service' \in {"OPEN", "CLOSED", "FINISHED"},
           writeOutstanding' = writeOutstanding
               \/ (writeOutstanding' = <<>> /\ \A d \in Conn : ~IsOpen(d)),
           ListsAgree', EndOfService'
    PROVE  LoopInv'
<1>. DEFINE h == Head(todo)
            R == ToSet(Tail(todo))
            W == ToSet(writeOutstanding)
            W2 == ToSet(writeOutstanding')
<1>1. /\ Tasks(todo') /\ ToSet(todo') = R /\ ToSet(todo) = {h} \cup R
      /\ \A task \in R : TaskTyped(task) /\ task.op \notin Sending
      /\ h.op \notin Writing
  BY Typed, TaskOver, Running_ DEF Becomes, Writing
<1>2. \A d \in Conn : /\ conn'[d].status = "OPEN" <=> conn[d].status = "OPEN"
                      /\ conn'[d].status = "NEW" <=> conn[d].status = "NEW"
                      /\ conn'[d].status \in {"OPEN", "NEW"} => conn'[d] = conn[d]
  BY DEF Deletes
<1>3. TypeOK'
  BY <1>1, Typed DEF TypeOK, Tasks
<1>4. ASSUME NEW d \in Conn PROVE Fine(R, W2, d, conn'[d], sock'[d])
  <2>. HIDE DEF R, h
  <2>1. Fine({h} \cup R, W, d, conn[d], sock[d])
    BY <1>1 DEF LoopInv, EachIsFine
  <2>2. CASE conn'[d].status \notin {"OPEN", "NEW"}
    BY <2>2 DEF Fine
  <2>3. CASE conn'[d].status \in {"OPEN", "NEW"}
    <3>1. conn'[d] = conn[d] /\ sock'[d] = sock[d]
      BY <1>2, <2>3
    <3>2. d \in W => d \in W2 \/ conn[d].status = "NEW"
      BY <1>2, <2>3 DEF IsOpen
    <3>3. conn[d].status = "NEW" => d \notin W /\ d \notin W2
      <4>1. W2 \subseteq W
        BY SetOfNone
      <4>. QED BY <2>1, <4>1 DEF Fine, Untouched
    <3>4. \A task \in {h} \cup R : task.op \in Writing => task \in R
      BY <1>1
    <3>5. Fine(R, W2, d, conn[d], sock[d])
      BY <2>1, <3>2, <3>3, <3>4, FineKept
    <3>. QED BY <3>1, <3>5
  <2>. QED BY <2>2, <2>3
<1>5. EachIsFine'
  BY <1>1, <1>4 DEF EachIsFine
<1>6. SendsAreOpen'
  BY <1>1 DEF SendsAreOpen
<1>7. BacklogIsNew'
  <2>1. \A d \in backlog : d \in Conn
    BY Typed DEF Clients
  <2>. QED BY <1>2, <2>1 DEF LoopInv, BacklogIsNew
<1>8. Listed'
  <2>1. ASSUME NEW d \in Conn, IsOpen(d)'
        PROVE  d \in connections \/ Pending(R, {"close", "unlink"}, d)
    <3>1. d \in connections \/ Pending({h} \cup R, {"close", "unlink"}, d)
      BY <1>1, <1>2, <2>1 DEF LoopInv, Listed, IsOpen
    <3>. QED BY <3>1 DEF Pending
  <2>. QED BY <1>1, <2>1 DEF Listed
<1>. QED BY <1>1, <1>3, <1>5, <1>6, <1>7, <1>8 DEF LoopInv

\* The connections that were closed in the round are deleted at its end.
LEMMA ReapKeeps ==
    ASSUME LoopInv, Reap
    PROVE  LoopInv'
<1>1. /\ todo # <<>> /\ Head(todo).op = "reap" /\ conn' = Delete(removal) /\ removal' = <<>>
      /\ Becomes(<<>>)
      /\ UNCHANGED <<sock, backlog, connections, readOutstanding, writeOutstanding, service>>
  BY DEF Reap, Running
<1>2. /\ conn' \in [Conn -> Connection] /\ Deletes
      /\ \A d \in Conn : conn'[d].status # "CLOSED"
  BY <1>1, DeletedIsFreed
<1>3. ListsAgree
  BY DEF LoopInv
<1>4. \A d \in Conn : /\ IsOpen(d)' <=> IsOpen(d)
                      /\ IsOpen(d) => conn'[d] = conn[d]
  BY <1>2 DEF Deletes, IsOpen
<1>5. ListsAgree'
  <2>1. {d \in Conn : IsOpen(d) /\ conn[d].outstanding}'
           = {d \in Conn : IsOpen(d) /\ conn[d].outstanding}
    BY <1>4
  <2>2. {d \in Conn : conn[d].status = "CLOSED"}' = {}
    BY <1>2
  <2>3. IsInjective(<<>>) /\ ToSet(<<>>) = {}
    BY SetOfNone DEF IsInjective
  <2>4. connections \subseteq Conn
    BY Typed
  <2>. QED BY <1>1, <1>3, <1>4, <2>1, <2>2, <2>3, <2>4 DEF ListsAgree
<1>6. EndOfService'
  <2>1. Tasks(todo) /\ service # "FINISHED"
    BY <1>1, Typed
  <2>2. \A task \in ToSet(Tail(todo)) : task.op = "cycle"
    BY <1>1, <2>1, Running_
  <2>3. ToSet(todo') = ToSet(Tail(todo))
    BY <1>1, <2>1, TaskOver DEF Becomes
  <2>. QED BY <1>1, <2>1, <2>2, <2>3 DEF EndOfService, Ending
<1>. QED BY <1>1, <1>2, <1>5, <1>6, LoopTaskOver, Typed

\* The end of the service closes what is in its list (close_connections_service).
LEMMA CloseConnectionsKeeps ==
    ASSUME LoopInv, CloseConnections
    PROVE  LoopInv'
<1>1. /\ todo # <<>> /\ Head(todo).op = "closeall"
      /\ UNCHANGED <<conn, sock, backlog, readOutstanding, writeOutstanding, removal, service>>
  BY DEF CloseConnections, Running, polling
<1>2. CASE connections = {}
  <2>1. Becomes(<<>>) /\ UNCHANGED connections
    BY <1>2 DEF CloseConnections
  <2>2. Deletes
    BY <1>1 DEF Deletes
  <2>3. ListsAgree'
    BY <1>1, <2>1, ListsKept, Typed DEF LoopInv
  <2>4. EndOfService'
    <3>1. Tasks(todo) /\ service # "FINISHED" /\ Ending(ToSet(todo), service, connections)
      BY <1>1, Typed DEF LoopInv, EndOfService
    <3>2. /\ ToSet(todo') = ToSet(Tail(todo)) /\ Head(todo) \in ToSet(todo)
          /\ \A task \in ToSet(Tail(todo)) : task.op = "finish"
      BY <1>1, <2>1, <3>1, TaskOver, Running_ DEF Becomes
    <3>3. service = "CLOSED"
      BY <1>1, <3>1, <3>2 DEF Ending
    <3>4. Ending(ToSet(Tail(todo)), service, connections)
      BY <1>2, <3>2, <3>3 DEF Ending
    <3>. QED BY <1>1, <2>1, <3>1, <3>2, <3>4 DEF EndOfService
  <2>. QED BY <1>1, <2>1, <2>2, <2>3, <2>4, LoopTaskOver, Typed
<1>3. CASE connections # {}
  <2>1. PICK c \in connections : /\ connections' = connections \ {c}
                                 /\ Calls(<<Do("close", c)>>)
    BY <1>3 DEF CloseConnections
  <2>2. c \in Conn /\ IsOpen(c)
    BY Typed DEF LoopInv, ListsAgree
  <2>. QED BY <1>1, <2>1, <2>2, CallsKeep
<1>. QED BY <1>2, <1>3

\* At the end of the service no connection is left open.
LEMMA NoneIsLeft ==
    ASSUME LoopInv, todo # <<>>, Head(todo).op = "finish"
    PROVE  Tail(todo) = <<>> /\ \A c \in Conn : ~IsOpen(c)
<1>1. /\ Tasks(todo) /\ Ending(ToSet(todo), service, connections)
  BY DEF LoopInv, EndOfService
<1>2. ToSet(todo) = {Head(todo)} \cup ToSet(Tail(todo)) /\ Tail(todo) = <<>>
  BY <1>1, Running_
<1>3. ToSet(todo) = {Head(todo)}
  BY <1>2, SetOfNone
<1>4. connections = {}
  BY <1>1, <1>3 DEF Ending
<1>5. \A c \in Conn : ~Pending(ToSet(todo), {"close", "unlink"}, c)
  BY <1>3 DEF Pending
<1>. QED BY <1>2, <1>4, <1>5 DEF LoopInv, Listed

\* The end of the polling deletes what was closed (close_polling_epoll).
LEMMA FinishKeeps ==
    ASSUME LoopInv, Finish
    PROVE  LoopInv'
<1>1. /\ todo # <<>> /\ Head(todo).op = "finish" /\ conn' = Delete(removal)
      /\ removal' = <<>> /\ readOutstanding' = <<>> /\ writeOutstanding' = <<>>
      /\ service' = "FINISHED" /\ Becomes(<<>>) /\ UNCHANGED <<sock, backlog, connections>>
  BY DEF Finish, Running
<1>2. /\ conn' \in [Conn -> Connection] /\ Deletes
  BY <1>1, DeletedIsFreed
<1>3. Tail(todo) = <<>> /\ \A c \in Conn : ~IsOpen(c)
  BY <1>1, NoneIsLeft
<1>4. \A d \in Conn : ~IsOpen(d)'
  BY <1>2, <1>3 DEF Deletes, IsOpen
<1>5. ListsAgree'
  <2>1. \A d \in Conn : ~sock[d].watched
    BY <1>3 DEF LoopInv, ListsAgree
  <2>2. connections = {}
    BY <1>3, Typed DEF LoopInv, ListsAgree
  <2>3. IsInjective(<<>>) /\ ToSet(<<>>) = {}
    BY SetOfNone DEF IsInjective
  <2>4. {d \in Conn : IsOpen(d) /\ conn[d].outstanding}' = {}
    BY <1>4
  <2>. QED BY <1>1, <1>4, <2>1, <2>2, <2>3, <2>4 DEF ListsAgree
<1>6. EndOfService'
  <2>1. todo' = <<>> \o <<>>
    BY <1>1, <1>3 DEF Becomes
  <2>2. todo' = <<>> /\ ToSet(todo') = {}
    BY <2>1, SetOfNone
  <2>. QED BY <2>2 DEF EndOfService, Ending
<1>7. <<>> \in Seq(Conn)
  OBVIOUS
<1>. QED BY <1>1, <1>2, <1>3, <1>5, <1>6, <1>7, LoopTaskOver

\* The tasks of a round: what it runs in front, with what ends it behind.
LEMMA InFront ==
    ASSUME NEW a \in Seq(Task), NEW b, Tasks(b),
           \A i \in 1..Len(a) :
              TaskTyped(a[i]) /\ a[i].op \in {"accept", "read", "write", "readable",
                                              "writable", "error"},
           \A i \in 1..Len(b) : b[i].op \notin Sending /\ b[i].op # "after"
    PROVE  Tasks(a \o b) /\ ToSet(a \o b) = ToSet(a) \cup ToSet(b)
<1>. DEFINE u == a \o b
            n == Len(a)
<1>1. /\ b \in Seq(Task) /\ \A i \in 1..Len(b) : TaskTyped(b[i])
      /\ Ends(b) /\ WalksFirst(b) /\ Len(b) \in Nat /\ n \in Nat
  <2>1. b \in Seq(Task)
    BY DEF Tasks
  <2>. QED BY <2>1 DEF Tasks
<1>2. /\ u \in Seq(Task) /\ Len(u) = n + Len(b) /\ ToSet(u) = ToSet(a) \cup ToSet(b)
      /\ \A i \in 1..n + Len(b) : u[i] = IF i <= n THEN a[i] ELSE b[i - n]
  BY <1>1, Joined
<1>3. \A i \in 1..n : TaskTyped(a[i]) /\ a[i].op \in {"accept", "read", "write", "readable",
                                                       "writable", "error"}
  OBVIOUS
<1>. HIDE DEF u, n
<1>4. ASSUME NEW i \in 1..Len(u)
      PROVE  \/ i \in 1..n /\ u[i] = a[i]
             \/ i > n /\ i - n \in 1..Len(b) /\ u[i] = b[i - n]
  <2>1. CASE i <= n
    BY <2>1, <1>1, <1>2
  <2>2. CASE ~ (i <= n)
    <3>1. i - n \in 1..Len(b) /\ i > n
      BY <2>2, <1>1, <1>2
    <3>. QED BY <2>2, <3>1, <1>2
  <2>. QED BY <2>1, <2>2
<1>5. \A i \in 1..Len(u) : TaskTyped(u[i])
  BY <1>1, <1>3, <1>4
<1>6. ASSUME NEW i \in 1..Len(u)
      PROVE  /\ u[i].op \in {"wait", "cycle", "finish"} => i = Len(u)
             /\ u[i].op = "reap" => i + 1 = Len(u) /\ u[i + 1].op = "cycle"
             /\ u[i].op = "closeall" => i + 1 = Len(u) /\ u[i + 1].op = "finish"
  <2>1. CASE i \in 1..n /\ u[i] = a[i]
    BY <2>1, <1>3
  <2>2. CASE i > n /\ i - n \in 1..Len(b) /\ u[i] = b[i - n]
    <3>1. /\ b[i - n].op \in {"wait", "cycle", "finish"} => i - n = Len(b)
          /\ b[i - n].op = "reap" => i - n + 1 = Len(b) /\ b[i - n + 1].op = "cycle"
          /\ b[i - n].op = "closeall" => i - n + 1 = Len(b) /\ b[i - n + 1].op = "finish"
      BY <2>2, <1>1 DEF Ends
    <3>2. i - n = Len(b) => i = Len(u)
      BY <1>1, <1>2
    <3>3. i - n + 1 = Len(b) => i + 1 = Len(u) /\ u[i + 1] = b[i - n + 1]
      <4>1. HAVE i - n + 1 = Len(b)
      <4>2. i + 1 = Len(u) /\ i + 1 \in 1..Len(u) /\ (i + 1) - n = i - n + 1 /\ ~ (i + 1 \in 1..n)
        BY <4>1, <2>2, <1>1, <1>2
      <4>3. u[i + 1] = b[(i + 1) - n]
        BY <4>2, <1>4
      <4>. QED BY <4>2, <4>3
    <3>. QED BY <2>2, <3>1, <3>2, <3>3
  <2>. QED BY <2>1, <2>2, <1>4
<1>7. ASSUME NEW i \in 1..Len(u) PROVE u[i].op \notin Sending /\ u[i].op # "after"
  <2>1. CASE i \in 1..n /\ u[i] = a[i]
    BY <2>1, <1>3 DEF Sending
  <2>2. CASE i > n /\ i - n \in 1..Len(b) /\ u[i] = b[i - n]
    BY <2>2
  <2>. QED BY <2>1, <2>2, <1>4
<1>. QED BY <1>2, <1>5, <1>6, <1>7 DEF Tasks, Ends, WalksFirst, u

\* One task for each connection of an array.
LEMMA AllOf ==
    ASSUME NEW op \in Op \ LoopOp, NEW seq \in Seq(Conn)
    PROVE  /\ All(op, seq) \in Seq(Task)
           /\ \A i \in 1..Len(All(op, seq)) : /\ TaskTyped(All(op, seq)[i])
                                              /\ All(op, seq)[i].op = op
           /\ \A task \in ToSet(All(op, seq)) : task.op = op /\ task.conn \in ToSet(seq)
           /\ \A c \in ToSet(seq) : Do(op, c) \in ToSet(All(op, seq))
<1>. DEFINE u == All(op, seq)
<1>1. Len(seq) \in Nat /\ DOMAIN seq = 1..Len(seq) /\ \A i \in 1..Len(seq) : seq[i] \in Conn
  OBVIOUS
<1>2. \A i \in 1..Len(seq) : /\ Do(op, seq[i]) \in Task /\ TaskTyped(Do(op, seq[i]))
                             /\ Do(op, seq[i]).op = op /\ Do(op, seq[i]).conn = seq[i]
  BY <1>1, TaskOf DEF Do, TaskTyped
<1>3. u = [i \in 1..Len(seq) |-> Do(op, seq[i])]
  BY DEF All
<1>4. /\ u \in Seq(Task) /\ Len(u) = Len(seq) /\ DOMAIN u = 1..Len(seq)
      /\ \A i \in 1..Len(seq) : u[i] = Do(op, seq[i])
  BY <1>1, <1>2, <1>3
<1>. HIDE DEF u
<1>5. \A task \in ToSet(u) : task.op = op /\ task.conn \in ToSet(seq)
  BY <1>1, <1>2, <1>4 DEF ToSet
<1>6. \A c \in ToSet(seq) : Do(op, c) \in ToSet(u)
  BY <1>1, <1>4 DEF ToSet
<1>7. \A i \in 1..Len(u) : TaskTyped(u[i]) /\ u[i].op = op
  BY <1>2, <1>4
<1>. QED BY <1>4, <1>5, <1>6, <1>7 DEF u

\* The tasks that end a round and the service.
LEMMA LoopTask ==
    ASSUME NEW op \in LoopOp
    PROVE  TaskTyped(Loop(op)) /\ Loop(op).op = op
  BY DEF LoopOp, Loop, TaskTyped, Task, Op

\* A round that waits.
LEMMA EndsWithTheWait ==
    LET t == <<Loop("wait")>>
    IN  /\ Tasks(t) /\ ToSet(t) = {Loop("wait")}
        /\ \A i \in 1..Len(t) : t[i] = Loop("wait")
<1>. DEFINE a == Loop("wait")
            t == <<a>>
<1>1. TaskTyped(a) /\ a.op = "wait"
  BY LoopTask DEF LoopOp
<1>. HIDE DEF a
<1>2. /\ t \in Seq(Task) /\ WalksFirst(t) /\ ToSet(t) = {a}
      /\ \A i \in 1..Len(t) : t[i] = a
  BY <1>1, OneTask
<1>3. Len(t) = 1
  OBVIOUS
<1>. HIDE DEF t
<1>4. Ends(t)
  BY <1>1, <1>2, <1>3 DEF Ends
<1>. QED BY <1>1, <1>2, <1>4 DEF Tasks, t, a

\* A round that has waited, and the closing of the service.
LEMMA EndsInTwo ==
    ASSUME NEW x, NEW y, (x = "reap" /\ y = "cycle") \/ (x = "closeall" /\ y = "finish")
    PROVE  LET t == <<Loop(x), Loop(y)>>
           IN  /\ Tasks(t) /\ ToSet(t) = {Loop(x), Loop(y)}
               /\ \A i \in 1..Len(t) : t[i] \in {Loop(x), Loop(y)}
<1>. DEFINE a == Loop(x)
            b == Loop(y)
            t == <<a, b>>
<1>1. TaskTyped(a) /\ a.op = x /\ TaskTyped(b) /\ b.op = y
  BY LoopTask DEF LoopOp
<1>. HIDE DEF a, b
<1>2. /\ t \in Seq(Task) /\ WalksFirst(t) /\ ToSet(t) = {a, b}
      /\ \A i \in 1..Len(t) : t[i] = a \/ t[i] = b
  BY <1>1, TwoTasks DEF Sending
<1>3. Len(t) = 2 /\ t[1] = a /\ t[2] = b
  OBVIOUS
<1>. HIDE DEF t
<1>4. Ends(t)
  <2>1. \A i \in 1..Len(t) : i = 1 \/ i = 2
    BY <1>3
  <2>2. 1 + 1 = 2
    OBVIOUS
  <2>. QED BY <1>1, <1>3, <2>1, <2>2 DEF Ends
<1>5. \A i \in 1..Len(t) : TaskTyped(t[i]) /\ t[i] \in {a, b}
  BY <1>1, <1>2
<1>6. Tasks(t)
  BY <1>2, <1>4, <1>5 DEF Tasks
<1>. QED BY <1>2, <1>5, <1>6 DEF t, a, b

\* A round that begins, of which nothing is about a connection yet: what holds of the
\* connections and of the lists is looked at, the rest follows.
LEMMA RoundBegins ==
    ASSUME LoopInv, Tasks(todo'),
           \A task \in ToSet(todo) : task.op \in LoopOp,
           \A task \in ToSet(todo') : /\ task.op \notin Sending
                                      /\ task.op \in {"closeall", "finish"} => service = "CLOSED",
           (\E task \in ToSet(todo') : task.op \in {"closeall", "finish"}) =>
               /\ \A task \in ToSet(todo') : task.op \in {"closeall", "finish"}
               /\ \E task \in ToSet(todo') : task.op = "closeall",
           service # "FINISHED",
           UNCHANGED <<backlog, connections, service>>,
           conn' \in [Conn -> Connection], sock' \in [Conn -> Socket],
           readOutstanding' \in Seq(Conn), writeOutstanding' \in Seq(Conn),
           removal' \in Seq(Conn), ListsAgree',
           \A c \in Conn : conn'[c].status = conn[c].status,
           \A c \in Conn : Fine(ToSet(todo'), ToSet(writeOutstanding'), c, conn'[c], sock'[c])
    PROVE  LoopInv'
<1>1. TypeOK'
  BY Typed DEF TypeOK, Tasks
<1>2. EachIsFine' /\ SendsAreOpen'
  BY DEF EachIsFine, SendsAreOpen
<1>3. BacklogIsNew'
  <2>1. \A c \in backlog : c \in Conn
    BY Typed DEF Clients
  <2>. QED BY <2>1 DEF LoopInv, BacklogIsNew
<1>4. Listed'
  <2>1. \A c \in Conn : ~Pending(ToSet(todo), {"close", "unlink"}, c)
    BY DEF Pending, LoopOp
  <2>. QED BY <2>1 DEF LoopInv, Listed, IsOpen
<1>5. EndOfService'
  BY DEF EndOfService, Ending
<1>. QED BY <1>1, <1>2, <1>3, <1>4, <1>5 DEF LoopInv

\* A service that was stopped begins its end once the round is over.
LEMMA CloseServiceKeeps ==
    ASSUME LoopInv, CloseService
    PROVE  LoopInv'
<1>. DEFINE a == Loop("closeall")
            b == Loop("finish")
<1>1. /\ todo = <<>> /\ service = "CLOSED" /\ todo' = <<a, b>>
      /\ UNCHANGED <<conn, sock, backlog, connections, readOutstanding, writeOutstanding,
                     removal, service>>
  BY DEF CloseService, polling
<1>2. /\ Tasks(todo') /\ ToSet(todo') = {a, b}
  BY <1>1, EndsInTwo
<1>3. a.op = "closeall" /\ b.op = "finish" /\ a.conn = "none" /\ b.conn = "none"
  BY DEF Loop
<1>4. ToSet(todo) = {}
  BY <1>1, SetOfNone
<1>. HIDE DEF a, b
<1>5. ASSUME NEW c \in Conn
      PROVE  Fine({a, b}, ToSet(writeOutstanding), c, conn[c], sock[c])
  <2>1. Fine({}, ToSet(writeOutstanding), c, conn[c], sock[c])
    BY <1>4 DEF LoopInv, EachIsFine
  <2>2. c # "none"
    BY LoopAssumption
  <2>3. \A task \in {a, b} : task.conn # c
    BY <1>3, <2>2
  <2>4. conn[c].status = "NEW" => c \notin ToSet(writeOutstanding)
    BY <2>1 DEF Fine, Untouched
  <2>. QED BY <2>1, <2>3, <2>4, FineKept
<1>6. ListsAgree'
  BY <1>1, ListsKept, Typed DEF LoopInv
<1>7. \A task \in {a, b} : /\ task.op \notin Sending
                           /\ task.op \in {"closeall", "finish"}
  BY <1>3 DEF Sending
<1>. QED BY <1>1, <1>2, <1>3, <1>4, <1>5, <1>6, <1>7, RoundBegins, Typed

\* The outstanding operations are taken off their arrays and become the round.
LEMMA OutstandingKeeps ==
    ASSUME LoopInv, Outstanding
    PROVE  LoopInv'
<1>. DEFINE reads == All("read", readOutstanding)
            writes == All("write", writeOutstanding)
            wait == Loop("wait")
            W == ToSet(writeOutstanding)
            T2 == ToSet(todo')
<1>1. /\ todo = <<>> /\ service = "OPEN" /\ readOutstanding' = <<>> /\ writeOutstanding' = <<>>
      /\ conn' = [c \in Conn |-> [conn[c] EXCEPT !.outstanding =
                     @ /\ c \notin ToSet(readOutstanding)]]
      /\ todo' = reads \o writes \o <<wait>>
      /\ UNCHANGED <<sock, backlog, connections, removal, service>>
  BY DEF Outstanding
<1>2. /\ reads \in Seq(Task) /\ writes \in Seq(Task)
      /\ \A i \in 1..Len(reads) : TaskTyped(reads[i]) /\ reads[i].op = "read"
      /\ \A i \in 1..Len(writes) : TaskTyped(writes[i]) /\ writes[i].op = "write"
      /\ \A task \in ToSet(reads) : task.op = "read" /\ task.conn \in ToSet(readOutstanding)
      /\ \A task \in ToSet(writes) : task.op = "write" /\ task.conn \in W
      /\ \A c \in W : Do("write", c) \in ToSet(writes)
  <2>1. "read" \in Op \ LoopOp /\ "write" \in Op \ LoopOp
    BY DEF Op, LoopOp
  <2>2. readOutstanding \in Seq(Conn) /\ writeOutstanding \in Seq(Conn)
    BY Typed
  <2>. QED BY <2>1, <2>2, AllOf
<1>3. wait.op = "wait" /\ wait.conn = "none" /\ \A c \in Conn : Do("write", c).op = "write" /\ Do("write", c).conn = c
  BY DEF Loop, Do
<1>4. /\ Tasks(todo') /\ T2 = ToSet(reads) \cup ToSet(writes) \cup {wait}
  <2>. HIDE DEF reads, writes, wait
  <2>. DEFINE last == <<wait>>
              some == writes \o last
  <2>1. /\ Tasks(last) /\ ToSet(last) = {wait} /\ \A i \in 1..Len(last) : last[i] = wait
    BY EndsWithTheWait DEF wait
  <2>. HIDE DEF last
  <2>2. \A i \in 1..Len(last) : last[i].op \notin Sending /\ last[i].op # "after"
    BY <1>3, <2>1 DEF Sending
  <2>3. Tasks(some) /\ ToSet(some) = ToSet(writes) \cup {wait}
    BY <1>2, <2>1, <2>2, InFront
  <2>. HIDE DEF some
  <2>4. \A i \in 1..Len(some) : some[i].op \notin Sending /\ some[i].op # "after"
    <3>1. \A task \in ToSet(some) : task.op \in {"write", "wait"}
      BY <1>2, <1>3, <2>3
    <3>2. some \in Seq(Task)
      BY <2>3 DEF Tasks
    <3>3. \A i \in 1..Len(some) : some[i] \in ToSet(some)
      BY <3>2 DEF ToSet
    <3>. QED BY <3>1, <3>3 DEF Sending
  <2>5. Tasks(reads \o some) /\ ToSet(reads \o some) = ToSet(reads) \cup ToSet(some)
    BY <1>2, <2>3, <2>4, InFront
  <2>6. todo' = reads \o some
    <3>1. last \in Seq(Task)
      BY <2>1 DEF Tasks
    <3>. QED BY <1>1, <1>2, <3>1, JoinedInTwo DEF some, last
  <2>. QED BY <2>3, <2>5, <2>6
<1>5. ASSUME NEW c \in Conn
      PROVE  /\ conn'[c] \in Connection /\ conn'[c].status = conn[c].status
             /\ conn'[c].queue = conn[c].queue /\ conn'[c].asked = conn[c].asked
             /\ conn'[c].writeRegistered = conn[c].writeRegistered
             /\ conn'[c].writeValid = conn[c].writeValid
             /\ conn'[c].outstanding = (conn[c].outstanding /\ c \notin ToSet(readOutstanding))
  <2>1. conn'[c] = [conn[c] EXCEPT !.outstanding = @ /\ c \notin ToSet(readOutstanding)]
    BY <1>1
  <2>2. conn[c] \in Connection /\ (c \notin ToSet(readOutstanding)) \in BOOLEAN
    BY Typed
  <2>. QED BY <2>1, <2>2 DEF Connection
<1>6. conn' \in [Conn -> Connection]
  <2>1. conn' = [c \in Conn |-> conn'[c]]
    BY <1>1
  <2>. QED BY <1>5, <2>1
<1>7. \A c \in Conn : Fine({}, W, c, conn[c], sock[c])
  <2>1. ToSet(todo) = {}
    BY <1>1, SetOfNone
  <2>. QED BY <2>1 DEF LoopInv, EachIsFine
<1>8. /\ ListsAgree
      /\ \A c \in Conn : c \in ToSet(readOutstanding) <=> IsOpen(c) /\ conn[c].outstanding
  BY DEF LoopInv, ListsAgree
<1>9. ToSet(writeOutstanding') = {} /\ ToSet(readOutstanding') = {} /\ IsInjective(<<>>)
  BY <1>1, SetOfNone DEF IsInjective
<1>. HIDE DEF reads, writes, wait, W, T2
<1>10. ASSUME NEW c \in Conn PROVE Fine(T2, {}, c, conn'[c], sock[c])
  <2>1. CASE conn[c].status = "OPEN"
    <3>1. Sound({}, W, c, conn[c], sock[c])
      BY <1>7, <2>1 DEF Fine
    <3>2. \A task \in {} \cup T2 :
             task.op \in Walking /\ task.conn = c => (task \in {} <=> task \in T2)
      BY <1>2, <1>3, <1>4 DEF Walking
    <3>3. Due({}, W, c, sock[c]) => Due(T2, {}, c, sock[c])
      <4>1. c \in W => Pending(T2, Writing, c)
        BY <1>2, <1>3, <1>4 DEF Pending, Writing
      <4>. QED BY <4>1 DEF Due, Pending
    <3>4. ~conn'[c].writeValid => Woken(T2, c, sock[c])
      BY <1>5, <3>1 DEF Sound, TakenUp, Woken, Pending
    <3>5. Sound(T2, {}, c, conn'[c], sock[c])
      BY <1>5, <3>1, <3>2, <3>3, <3>4, SoundKept
    <3>. QED BY <1>5, <2>1, <3>5 DEF Fine
  <2>2. CASE conn[c].status = "NEW"
    <3>1. Untouched({}, W, c, conn[c], sock[c])
      BY <1>7, <2>2 DEF Fine
    <3>2. c \notin ToSet(readOutstanding) /\ c # "none"
      BY <1>8, <2>2, LoopAssumption DEF IsOpen
    <3>3. \A task \in T2 : task.conn # c
      BY <1>2, <1>3, <1>4, <3>1, <3>2 DEF Untouched
    <3>4. Untouched(T2, {}, c, conn'[c], sock[c])
      BY <1>5, <3>1, <3>3 DEF Untouched
    <3>. QED BY <1>5, <2>2, <3>4 DEF Fine
  <2>3. CASE conn[c].status \notin {"OPEN", "NEW"}
    BY <1>5, <2>3 DEF Fine
  <2>. QED BY <2>1, <2>2, <2>3
<1>11. ListsAgree'
  <2>1. \A c \in Conn : IsOpen(c)' <=> IsOpen(c)
    BY <1>5 DEF IsOpen
  <2>2. {c \in Conn : IsOpen(c) /\ conn[c].outstanding}' = {}
    BY <1>5, <1>8, <2>1
  <2>3. {c \in Conn : conn[c].status = "CLOSED"}' = {c \in Conn : conn[c].status = "CLOSED"}
    BY <1>5
  <2>4. connections \subseteq Conn
    BY Typed
  <2>. QED BY <1>1, <1>8, <1>9, <2>1, <2>2, <2>3, <2>4 DEF ListsAgree
<1>12. \A task \in T2 : task.op \in {"read", "write", "wait"}
  BY <1>2, <1>3, <1>4
<1>13. \A task \in T2 : task.op \notin Sending /\ task.op \notin {"closeall", "finish"}
  BY <1>12 DEF Sending
<1>14. ToSet(todo) = {} /\ <<>> \in Seq(Conn)
  BY <1>1, SetOfNone
<1>. QED BY <1>1, <1>4, <1>5, <1>6, <1>9, <1>10, <1>11, <1>13, <1>14, RoundBegins, Typed DEF T2

\* What a wait finds is about the sockets that were reported, and ends with the deletions.
LEMMA EventsOf ==
    ASSUME LoopInv, NEW order \in SetToSeqs(Ready)
    PROVE  /\ Tasks(Events(order))
           /\ \A task \in ToSet(Events(order)) :
                 \/ /\ task.op \in {"readable", "writable", "error"}
                    /\ task.conn \in Ready
                 \/ task.op \in {"reap", "cycle"} /\ task.conn = "none"
           /\ \A c \in Ready : MayWrite(c) => Do("writable", c) \in ToSet(Events(order))
<1>. DEFINE r == Those(order, {c \in Conn : MayRead(c)})
            w == Those(order, {c \in Conn : MayWrite(c)})
            e == Those(order, {c \in Conn : sock[c].reset})
            R == All("readable", r)
            Q == All("writable", w)
            E == All("error", e)
            last == <<Loop("reap"), Loop("cycle")>>
            front == (R \o Q) \o E
<1>1. order \in Seq(Conn) /\ ToSet(order) = Ready
  <2>1. Ready \subseteq Conn /\ IsFiniteSet(Ready)
    BY LoopAssumption, FS_Subset DEF Ready
  <2>2. order \in Seq(Ready) /\ ToSet(order) = Ready
    BY <2>1, InAnyOrder
  <2>. QED BY <2>1, <2>2
<1>2. /\ r \in Seq(Conn) /\ ToSet(r) \subseteq Ready
      /\ w \in Seq(Conn) /\ ToSet(w) = Ready \cap {c \in Conn : MayWrite(c)}
      /\ e \in Seq(Conn) /\ ToSet(e) \subseteq Ready
  BY <1>1, ThoseOf
<1>. HIDE DEF r, w, e
<1>3. /\ R \in Seq(Task) /\ \A i \in 1..Len(R) : TaskTyped(R[i])
      /\ \A task \in ToSet(R) : task.op = "readable" /\ task.conn \in Ready
      /\ Q \in Seq(Task) /\ \A i \in 1..Len(Q) : TaskTyped(Q[i])
      /\ \A task \in ToSet(Q) : task.op = "writable" /\ task.conn \in Ready
      /\ \A c \in ToSet(w) : Do("writable", c) \in ToSet(Q)
      /\ E \in Seq(Task) /\ \A i \in 1..Len(E) : TaskTyped(E[i])
      /\ \A task \in ToSet(E) : task.op = "error" /\ task.conn \in Ready
  <2>1. "readable" \in Op \ LoopOp /\ "writable" \in Op \ LoopOp /\ "error" \in Op \ LoopOp
    BY DEF Op, LoopOp
  <2>2. /\ R \in Seq(Task) /\ \A i \in 1..Len(R) : TaskTyped(R[i])
        /\ \A task \in ToSet(R) : task.op = "readable" /\ task.conn \in ToSet(r)
    BY <1>2, <2>1, AllOf
  <2>3. /\ Q \in Seq(Task) /\ \A i \in 1..Len(Q) : TaskTyped(Q[i])
        /\ \A task \in ToSet(Q) : task.op = "writable" /\ task.conn \in ToSet(w)
        /\ \A c \in ToSet(w) : Do("writable", c) \in ToSet(Q)
    BY <1>2, <2>1, AllOf
  <2>4. /\ E \in Seq(Task) /\ \A i \in 1..Len(E) : TaskTyped(E[i])
        /\ \A task \in ToSet(E) : task.op = "error" /\ task.conn \in ToSet(e)
    BY <1>2, <2>1, AllOf
  <2>. QED BY <1>2, <2>2, <2>3, <2>4
<1>. HIDE DEF R, Q, E
<1>4. front \in Seq(Task) /\ ToSet(front) = ToSet(R) \cup ToSet(Q) \cup ToSet(E)
  <2>1. R \o Q \in Seq(Task) /\ ToSet(R \o Q) = ToSet(R) \cup ToSet(Q)
    BY <1>3, Joined
  <2>. DEFINE RQ == R \o Q
  <2>2. RQ \in Seq(Task) /\ ToSet(RQ) = ToSet(R) \cup ToSet(Q)
    BY <2>1
  <2>. HIDE DEF RQ
  <2>3. RQ \o E \in Seq(Task) /\ ToSet(RQ \o E) = ToSet(RQ) \cup ToSet(E)
    BY <1>3, <2>2, Joined
  <2>. QED BY <2>2, <2>3 DEF RQ
<1>5. /\ Tasks(last) /\ ToSet(last) = {Loop("reap"), Loop("cycle")}
      /\ \A i \in 1..Len(last) : last[i] \in {Loop("reap"), Loop("cycle")}
  BY EndsInTwo
<1>6. /\ Loop("reap").op = "reap" /\ Loop("cycle").op = "cycle"
      /\ Loop("reap").conn = "none" /\ Loop("cycle").conn = "none"
  BY DEF Loop
<1>. HIDE DEF front, last
<1>7. \A task \in ToSet(front) : /\ TaskTyped(task) /\ task.conn \in Ready
                                 /\ task.op \in {"readable", "writable", "error"}
  <2>1. ASSUME NEW t \in {R, Q, E} PROVE \A task \in ToSet(t) : TaskTyped(task)
    <3>1. t \in Seq(Task) /\ \A i \in 1..Len(t) : TaskTyped(t[i])
      BY <1>3
    <3>2. DOMAIN t = 1..Len(t)
      BY <3>1
    <3>. QED BY <3>1, <3>2 DEF ToSet
  <2>. QED BY <1>3, <1>4, <2>1
<1>8. \A i \in 1..Len(front) :
         TaskTyped(front[i]) /\ front[i].op \in {"accept", "read", "write", "readable",
                                                 "writable", "error"}
  <2>1. \A i \in 1..Len(front) : front[i] \in ToSet(front)
    BY <1>4 DEF ToSet
  <2>. QED BY <1>7, <2>1
<1>9. \A i \in 1..Len(last) : last[i].op \notin Sending /\ last[i].op # "after"
  BY <1>5, <1>6 DEF Sending
<1>10. Events(order) = front \o last
  BY DEF Events, front, last, R, Q, E, r, w, e
<1>11. Tasks(Events(order)) /\ ToSet(Events(order)) = ToSet(front) \cup ToSet(last)
  BY <1>4, <1>5, <1>8, <1>9, <1>10, InFront
<1>12. \A c \in Ready : MayWrite(c) => Do("writable", c) \in ToSet(Events(order))
  <2>1. Ready \subseteq Conn
    BY DEF Ready
  <2>. QED BY <1>2, <1>3, <1>4, <1>11, <2>1
<1>. QED BY <1>5, <1>6, <1>7, <1>11, <1>12

\* The wait turns what the kernel reports into the round (poll_polling_epoll).
LEMMA WaitKeeps ==
    ASSUME LoopInv, Wait
    PROVE  LoopInv'
<1>. DEFINE W == ToSet(writeOutstanding)
            T2 == ToSet(todo')
<1>1. /\ todo # <<>> /\ Head(todo).op = "wait"
      /\ UNCHANGED <<conn, backlog, connections, readOutstanding, writeOutstanding, removal,
                     service>>
      /\ sock' = [c \in Conn |-> [LookedAt(sock[c]) EXCEPT !.edge = @ /\ c \notin Ready]]
  BY DEF Wait, Running, polling
<1>2. /\ Tail(todo) = <<>> /\ ToSet(todo) = {Head(todo)} /\ service # "FINISHED"
  <2>1. Tasks(todo) /\ service # "FINISHED"
    BY <1>1, Typed
  <2>2. Tail(todo) = <<>> /\ ToSet(todo) = {Head(todo)} \cup ToSet(Tail(todo))
    BY <1>1, <2>1, Running_
  <2>. QED BY <2>1, <2>2, SetOfNone
<1>3. /\ Tasks(todo')
      /\ \A task \in T2 : \/ task.op \in {"readable", "writable", "error"} /\ task.conn \in Ready
                          \/ task.op \in {"accept", "reap", "cycle"} /\ task.conn = "none"
      /\ \A c \in Ready : MayWrite(c) => \E task \in T2 : task.op = "writable" /\ task.conn = c
  <2>1. PICK order \in SetToSeqs(Ready) :
             todo' = ((IF backlog # {} THEN <<Loop("accept")>> ELSE <<>>) \o Events(order))
                     \o Tail(todo)
    BY DEF Wait, Becomes
  <2>. DEFINE events == Events(order)
              new == IF backlog # {} THEN <<Loop("accept")>> ELSE <<>>
  <2>2. /\ Tasks(events)
        /\ \A task \in ToSet(events) :
              \/ task.op \in {"readable", "writable", "error"} /\ task.conn \in Ready
              \/ task.op \in {"reap", "cycle"} /\ task.conn = "none"
        /\ \A c \in Ready : MayWrite(c) => Do("writable", c) \in ToSet(events)
    BY EventsOf
  <2>. HIDE DEF events
  <2>3. /\ new \in Seq(Task) /\ \A i \in 1..Len(new) : TaskTyped(new[i]) /\ new[i].op = "accept"
        /\ ToSet(new) \subseteq {Loop("accept")}
        /\ Loop("accept").op = "accept" /\ Loop("accept").conn = "none"
    <3>. DEFINE a == Loop("accept")
    <3>1. TaskTyped(a) /\ a.op = "accept" /\ a.conn = "none"
      BY LoopTask DEF LoopOp, Loop
    <3>. HIDE DEF a
    <3>2. /\ <<a>> \in Seq(Task) /\ ToSet(<<a>>) = {a} /\ \A i \in 1..Len(<<a>>) : <<a>>[i] = a
      BY <3>1, OneTask
    <3>3. CASE new = <<a>>
      BY <3>1, <3>2, <3>3 DEF a
    <3>4. CASE new = <<>>
      BY <3>1, <3>4, NoTask DEF a
    <3>. QED BY <3>3, <3>4 DEF a
  <2>. HIDE DEF new
  <2>4. \A i \in 1..Len(events) : events[i].op \notin Sending /\ events[i].op # "after"
    <3>1. events \in Seq(Task)
      BY <2>2 DEF Tasks
    <3>2. \A i \in 1..Len(events) : events[i] \in ToSet(events)
      BY <3>1 DEF ToSet
    <3>. QED BY <2>2, <3>2 DEF Sending
  <2>5. Tasks(new \o events) /\ ToSet(new \o events) = ToSet(new) \cup ToSet(events)
    BY <2>2, <2>3, <2>4, InFront
  <2>6. todo' = new \o events
    <3>1. new \o events \in Seq(Task)
      BY <2>5 DEF Tasks
    <3>2. todo' = (new \o events) \o <<>>
      BY <1>2, <2>1 DEF new, events
    <3>. HIDE DEF events
    <3>. QED BY <3>1, <3>2
  <2>7. \A c : Do("writable", c).op = "writable" /\ Do("writable", c).conn = c
    BY DEF Do
  <2>. QED BY <2>2, <2>3, <2>5, <2>6, <2>7
<1>4. ASSUME NEW c \in Conn
      PROVE  LET s == sock[c]
                 s2 == sock'[c]
             IN  /\ s2 \in Socket /\ s2.wire = s.wire /\ s2.watched = s.watched
                 /\ s2.edge = (s.edge /\ c \notin Ready)
                 /\ s2.blocked = (s.blocked \/ (s.watched /\ s.edge /\ s.room = 0))
  <2>. DEFINE s == sock[c]
              s1 == LookedAt(s)
              lookedAt == s.watched /\ s.edge /\ s.room = 0
              kept == c \notin Ready
  <2>1. sock'[c] = [s1 EXCEPT !.edge = @ /\ kept]
    BY <1>1
  <2>2. s \in Socket
    BY Typed
  <2>3. s1 = [s EXCEPT !.blocked = @ \/ lookedAt]
    BY DEF LookedAt
  <2>4. lookedAt \in BOOLEAN /\ kept \in BOOLEAN
    BY <2>2 DEF Socket
  <2>. HIDE DEF s, s1, lookedAt, kept
  <2>5. /\ s1 \in Socket /\ s1.wire = s.wire /\ s1.watched = s.watched /\ s1.edge = s.edge
        /\ s1.blocked = (s.blocked \/ lookedAt)
    BY <2>2, <2>3, <2>4 DEF Socket
  <2>6. /\ sock'[c] \in Socket /\ sock'[c].wire = s1.wire /\ sock'[c].watched = s1.watched
        /\ sock'[c].edge = (s1.edge /\ kept) /\ sock'[c].blocked = s1.blocked
    BY <2>1, <2>4, <2>5 DEF Socket
  <2>. QED BY <2>5, <2>6 DEF s, lookedAt, kept
<1>5. sock' \in [Conn -> Socket]
  <2>1. sock' = [c \in Conn |-> sock'[c]]
    BY <1>1
  <2>. QED BY <1>4, <2>1
<1>6. /\ \A c \in Conn : Fine({Head(todo)}, W, c, conn[c], sock[c])
      /\ ListsAgree
  BY <1>2 DEF LoopInv, EachIsFine
<1>. HIDE DEF W, T2
<1>7. ASSUME NEW c \in Conn, conn[c].status = "OPEN"
      PROVE  Sound(T2, W, c, conn[c], sock'[c])
  <2>1. Sound({Head(todo)}, W, c, conn[c], sock[c]) /\ sock[c].watched
    BY <1>6, <1>7 DEF Fine, ListsAgree, IsOpen
  <2>2. \A task \in {Head(todo)} \cup T2 : task.op \notin Walking
    BY <1>1, <1>3 DEF Walking
  <2>3. sock[c].edge \/ sock[c].blocked => Woken(T2, c, sock'[c])
    <3>1. HAVE sock[c].edge \/ sock[c].blocked
    <3>2. CASE sock[c].blocked \/ (sock[c].edge /\ c \notin Ready)
      BY <3>2, <1>4 DEF Woken
    <3>3. CASE c \in Ready /\ MayWrite(c)
      BY <3>3, <1>3 DEF Woken, Pending, Waking
    <3>4. CASE sock[c].edge /\ ~MayWrite(c)
      <4>1. sock[c].room = 0
        <5>1. sock[c].room \in Nat /\ ~ (sock[c].room > 0)
          BY <3>4, Typed DEF MayWrite, Socket
        <5>. QED BY <5>1
      <4>. QED BY <4>1, <3>4, <2>1, <1>4 DEF Woken
    <3>. QED BY <3>1, <3>2, <3>3, <3>4
  <2>4. Due({Head(todo)}, W, c, sock[c]) => Due(T2, W, c, sock'[c])
    <3>1. ~Pending({Head(todo)}, Writing, c)
      BY <1>1 DEF Pending, Writing
    <3>2. Woken(T2, c, sock'[c]) => Due(T2, W, c, sock'[c])
      BY DEF Woken, Due, Pending, Waking, Writing
    <3>. QED BY <2>3, <3>1, <3>2 DEF Due
  <2>5. ~conn[c].writeValid => Woken(T2, c, sock'[c])
    <3>1. ~Pending({Head(todo)}, Waking, c)
      BY <1>1 DEF Pending, Waking
    <3>. QED BY <2>1, <2>3, <3>1 DEF Sound, TakenUp, Woken
  <2>6. Queued(conn[c]) /\ sock[c].wire = Start(conn[c]) /\ sock[c].wire <= conn[c].asked
    BY <2>1, <2>2 DEF Sound, Accounted, Pending
  <2>7. /\ Accounted(T2, c, conn[c], sock'[c]) /\ CutShort(T2, c, conn[c], sock'[c])
        /\ ~Pending(T2, {"walk"}, c)
    BY <1>4, <2>2, <2>6 DEF Accounted, CutShort, Pending, Walking
  <2>8. TakenUp(T2, W, c, conn[c], sock'[c])
    BY <2>1, <2>4, <2>5 DEF Sound, TakenUp
  <2>. QED BY <2>6, <2>7, <2>8 DEF Sound
<1>8. ASSUME NEW c \in Conn PROVE Fine(T2, W, c, conn[c], sock'[c])
  <2>1. CASE conn[c].status = "NEW"
    <3>1. Untouched({Head(todo)}, W, c, conn[c], sock[c])
      BY <1>6, <2>1 DEF Fine
    <3>2. c \notin Ready /\ c # "none"
      BY <1>6, <2>1, LoopAssumption DEF Ready, ListsAgree, IsOpen
    <3>3. \A task \in T2 : task.conn # c
      BY <1>3, <3>2
    <3>4. Untouched(T2, W, c, conn[c], sock'[c])
      BY <1>4, <3>1, <3>3 DEF Untouched
    <3>. QED BY <2>1, <3>4 DEF Fine
  <2>. QED BY <1>7, <2>1 DEF Fine
<1>9. ListsAgree'
  <2>1. \A c \in Conn : /\ conn'[c].status = conn[c].status
                        /\ conn'[c].outstanding = conn[c].outstanding
                        /\ sock'[c].watched = sock[c].watched
    BY <1>1, <1>4
  <2>. QED BY <1>1, <1>6, <2>1, ListsKept, Typed
<1>10. \A task \in T2 : task.op \notin Sending /\ task.op \notin {"closeall", "finish"}
  BY <1>3 DEF Sending
<1>11. \A task \in ToSet(todo) : task.op \in LoopOp
  BY <1>1, <1>2 DEF LoopOp
<1>. QED BY <1>1, <1>2, <1>3, <1>5, <1>8, <1>9, <1>10, <1>11, RoundBegins, Typed DEF W, T2

-----------------------------------------------------------------------------
(* The invariant.                                                          *)

\* The invariant holds before the loop begins.
LEMMA InitHolds ==
    ASSUME Init
    PROVE  LoopInv
<1>1. /\ todo = <<>> /\ readOutstanding = <<>> /\ writeOutstanding = <<>> /\ removal = <<>>
      /\ backlog = {} /\ connections = {} /\ service = "OPEN"
      /\ conn = [c \in Conn |-> NewConnection] /\ sock = [c \in Conn |-> NewSocket]
  BY DEF Init
<1>2. /\ NewConnection \in Connection /\ NewSocket \in Socket
      /\ NewConnection.status = "NEW" /\ NewConnection.queue = <<>>
      /\ NewConnection.outstanding = FALSE /\ NewConnection.writeRegistered = FALSE
      /\ NewConnection.asked = 0
      /\ NewSocket.wire = 0 /\ NewSocket.watched = FALSE
  <2>1. <<>> \in Seq(Value)
    OBVIOUS
  <2>2. Room \in Nat
    BY LoopAssumption
  <2>. QED BY <2>1, <2>2 DEF NewConnection, NewSocket, Connection, Socket
<1>3. /\ \A c \in Conn : conn[c] = NewConnection /\ sock[c] = NewSocket
      /\ conn \in [Conn -> Connection] /\ sock \in [Conn -> Socket]
  BY <1>1, <1>2
<1>4. /\ <<>> \in Seq(Conn) /\ <<>> \in Seq(Task) /\ ToSet(<<>>) = {} /\ IsInjective(<<>>)
  BY SetOfNone DEF IsInjective
<1>5. TypeOK
  BY <1>1, <1>3, <1>4 DEF TypeOK
<1>6. Tasks(todo)
  BY <1>1, <1>4 DEF Tasks, Ends, WalksFirst
<1>7. EachIsFine
  BY <1>1, <1>2, <1>3, <1>4 DEF EachIsFine, Fine, Untouched
<1>8. SendsAreOpen /\ BacklogIsNew
  BY <1>1, <1>4 DEF SendsAreOpen, BacklogIsNew
<1>9. ListsAgree
  BY <1>1, <1>2, <1>3, <1>4 DEF ListsAgree, IsOpen
<1>10. Listed /\ EndOfService
  BY <1>1, <1>2, <1>3, <1>4 DEF Listed, EndOfService, Ending, IsOpen
<1>. QED BY <1>5, <1>6, <1>7, <1>8, <1>9, <1>10 DEF LoopInv

\* No step of the loop, of a handler or of a peer breaks it.
LEMMA StepKeeps ==
    ASSUME LoopInv, [Next]_vars
    PROVE  LoopInv'
<1>1. CASE Server
  BY <1>1, OutstandingKeeps, WaitKeeps, AcceptKeeps, ReapKeeps, ReadKeeps, HangUpKeeps,
     WriteKeeps, SendKeeps, WalkKeeps, AfterKeeps, CloseKeeps, OnCloseKeeps, UnlinkKeeps,
     HandlerReturnsKeeps, CloseServiceKeeps, CloseConnectionsKeeps, FinishKeeps DEF Server
<1>2. CASE Handler
  BY <1>2, HandlerWritesKeeps, HandlerClosesKeeps, HandlerConnectsKeeps, HandlerPacesKeeps,
     HandlerStopsKeeps DEF Handler
<1>3. CASE Peers
  BY <1>3, PeerConnectsKeeps, PeersKeep DEF Peers
<1>4. CASE UNCHANGED vars
  <2>1. UNCHANGED <<conn, sock, backlog, connections, readOutstanding, writeOutstanding,
                    removal, service, todo>>
    BY <1>4 DEF vars, polling
  <2>. QED BY <2>1, SameTasks, Typed DEF LoopInv, BacklogIsNew, EachIsFine
<1>. QED BY <1>1, <1>2, <1>3, <1>4 DEF Next

\* The types, the agreement of the lists and what is said of each connection hold of every
\* state of the loop.
THEOREM LoopIsSound == Spec => []LoopInv
<1>1. Init => LoopInv
  BY InitHolds
<1>2. LoopInv /\ [Next]_vars => LoopInv'
  BY StepKeeps
<1>. QED BY <1>1, <1>2, PTL DEF Spec

-----------------------------------------------------------------------------
(* What it shows.                                                          *)

\* A task that is pending is somewhere in what is still to be done.
LEMMA PendingIsThere ==
    ASSUME LoopInv, NEW ops, NEW c
    PROVE  Pending(ToSet(todo), ops, c)
              <=> \E i \in 1..Len(todo) : todo[i].op \in ops /\ todo[i].conn = c
<1>1. DOMAIN todo = 1..Len(todo)
  BY Typed
<1>. QED BY <1>1 DEF Pending, ToSet

\* The taking up of the writes as the runs check it.
LEMMA WritesAreDue ==
    ASSUME LoopInv
    PROVE  WriteIsDue
<1>1. SUFFICES ASSUME NEW c \in Conn, IsOpen(c), conn[c].queue # <<>>
               PROVE  /\ conn[c].writeRegistered
                      /\ \/ c \in ToSet(writeOutstanding)
                         \/ \E i \in 1..Len(todo) : todo[i].conn = c /\ todo[i].op \in Writing
                         \/ sock[c].edge \/ sock[c].blocked
  BY DEF WriteIsDue, Writing
<1>2. TakenUp(ToSet(todo), ToSet(writeOutstanding), c, conn[c], sock[c])
  BY <1>1 DEF LoopInv, EachIsFine, Fine, Sound, IsOpen
<1>3. Pending(ToSet(todo), Writing, c)
         <=> \E i \in 1..Len(todo) : todo[i].op \in Writing /\ todo[i].conn = c
  BY PendingIsThere
<1>. QED BY <1>1, <1>2, <1>3 DEF TakenUp, Due

\* The accounting of the bytes as the runs check it.
LEMMA BytesAreAccounted ==
    ASSUME LoopInv
    PROVE  BytesAccounted
<1>1. SUFFICES ASSUME NEW c \in Conn, IsOpen(c)
               PROVE  sock[c].wire - Ahead(c) =
                         IF conn[c].queue = <<>> THEN conn[c].asked
                         ELSE Head(conn[c].queue).end - Head(conn[c].queue).size
  BY DEF BytesAccounted
<1>2. Accounted(ToSet(todo), c, conn[c], sock[c])
  BY <1>1 DEF LoopInv, EachIsFine, Fine, Sound, IsOpen
<1>3. sock[c].wire - Ahead(c) = Start(conn[c])
  <2>. DEFINE walks == {i \in 1..Len(todo) : /\ todo[i].conn = c
                                             /\ todo[i].op \in {"walk", "after"}}
              first == CHOOSE i \in walks : \A j \in walks : i <= j
  <2>1. DOMAIN todo = 1..Len(todo)
    BY Typed
  <2>2. \A i \in walks : /\ todo[i] \in ToSet(todo) /\ todo[i].op \in Walking
                         /\ todo[i].conn = c
    BY <2>1 DEF ToSet, Walking
  <2>3. CASE walks = {}
    <3>1. ~Pending(ToSet(todo), Walking, c)
      <4>1. \A i \in 1..Len(todo) : ~ (todo[i].op \in Walking /\ todo[i].conn = c)
        BY <2>3 DEF Walking
      <4>. QED BY <4>1, PendingIsThere
    <3>2. Ahead(c) = 0
      BY <2>3 DEF Ahead
    <3>3. sock[c].wire \in Nat
      BY Typed DEF Socket
    <3>. QED BY <1>2, <3>1, <3>2, <3>3 DEF Accounted
  <2>4. CASE walks # {}
    <3>1. walks \subseteq Nat
      BY Typed
    <3>2. first \in walks
      <4>. HIDE DEF walks
      <4>. QED BY <2>4, <3>1, HasLeast
    <3>3. Ahead(c) = todo[first].n
      BY <2>4 DEF Ahead
    <3>. HIDE DEF walks, first
    <3>. QED BY <1>2, <2>2, <3>2, <3>3 DEF Accounted
  <2>. QED BY <2>3, <2>4
<1>4. conn[c].queue # <<>> => Head(conn[c].queue) = conn[c].queue[1]
  <2>1. conn[c].queue \in Seq(Value)
    BY Typed DEF Connection
  <2>. QED BY <2>1, HeadAndRest
<1>. QED BY <1>3, <1>4 DEF Start

\* What is queued on an open connection is going to be taken up, and is on the wire once, in
\* its order, with the callbacks of its values behind its bytes.
THEOREM WritesAreSoundAlways == Spec => []WritesAreSound
<1>1. LoopInv => WritesAreSound
  BY WritesAreDue, BytesAreAccounted DEF LoopInv, WritesAreSound
<1>. QED BY <1>1, LoopIsSound, PTL

\* The lists of the service and of the polling tell the same story.
THEOREM ListsAgreeAlways == Spec => []ListsAgree
<1>1. LoopInv => ListsAgree
  BY DEF LoopInv
<1>. QED BY <1>1, LoopIsSound, PTL

\* Only the end of a round and that of the service delete connections.
LEMMA OnlyDeletes ==
    ASSUME LoopInv, [Next]_vars, NEW c \in Conn,
           conn[c].status # "FREED", conn'[c].status = "FREED"
    PROVE  Reap \/ Finish
<1>1. CASE UNCHANGED conn
  BY <1>1
<1>2. CASE Outstanding
  <2>1. conn'[c].status = conn[c].status
    BY <1>2, Typed DEF Outstanding, Connection
  <2>. QED BY <2>1
<1>3. CASE Accept \/ HandlerConnects
  <2>1. conn'[c] = conn[c] \/ conn'[c] = Opened(c)
    BY <1>3, Typed DEF Accept, HandlerConnects, Opened
  <2>2. Opened(c).status = "OPEN"
    BY Typed DEF Opened, Connection
  <2>. QED BY <2>1, <2>2
<1>4. ASSUME NEW d, NEW k2, conn' = [conn EXCEPT ![d] = k2], d \in Conn => k2.status = conn[d].status
      PROVE  conn'[c].status = conn[c].status
  BY <1>4, Typed
<1>5. CASE Read
  <2>1. conn' = conn \/ \E v : conn' = [conn EXCEPT ![This].outstanding = v]
    BY <1>5 DEF Read
  <2>2. ASSUME NEW v, conn' = [conn EXCEPT ![This].outstanding = v]
        PROVE  conn'[c].status = conn[c].status
    <3>. DEFINE k2 == [conn[This] EXCEPT !.outstanding = v]
    <3>1. conn' = [conn EXCEPT ![This] = k2]
      BY <2>2
    <3>2. This \in Conn => k2.status = conn[This].status
      BY Typed DEF Connection
    <3>. QED BY <1>4, <3>1, <3>2
  <2>. QED BY <2>1, <2>2
<1>11. CASE Write \/ Send
  <2>1. \/ conn' = conn
        \/ \E v : conn' = [conn EXCEPT ![This].writeValid = v]
        \/ conn' = [conn EXCEPT ![This] = Drained(conn[This])]
    BY <1>11 DEF Write, Send
  <2>2. ASSUME NEW v, conn' = [conn EXCEPT ![This].writeValid = v]
        PROVE  conn'[c].status = conn[c].status
    <3>. DEFINE k2 == [conn[This] EXCEPT !.writeValid = v]
    <3>1. conn' = [conn EXCEPT ![This] = k2]
      BY <2>2
    <3>2. This \in Conn => k2.status = conn[This].status
      BY Typed DEF Connection
    <3>. QED BY <1>4, <3>1, <3>2
  <2>3. This \in Conn => Drained(conn[This]).status = conn[This].status
    BY Typed DEF Drained, Connection
  <2>. QED BY <1>4, <2>1, <2>2, <2>3
<1>12. CASE Walk
  <2>. DEFINE k == conn[This]
              first == [k EXCEPT !.queue = Tail(k.queue)]
              cut == [k EXCEPT !.queue[1].size = k.queue[1].size - Head(todo).n,
                               !.writeValid = FALSE]
  <2>1. conn' = [conn EXCEPT ![This] = cut] \/ conn' = [conn EXCEPT ![This] = first]
    BY <1>12, Typed DEF Walk, Connection
  <2>2. This \in Conn => cut.status = k.status /\ first.status = k.status
    BY Typed DEF Connection
  <2>. QED BY <1>4, <2>1, <2>2
<1>13. CASE HandlerPaces
  <2>1. PICK b \in Conn : conn' = [conn EXCEPT ![b] = [conn[b] EXCEPT !.reading = ~ @]]
    BY <1>13, ReachIsOpen, Typed DEF HandlerPaces
  <2>2. [conn[b] EXCEPT !.reading = ~ @].status = conn[b].status
    BY Typed DEF Connection
  <2>. QED BY <1>4, <2>1, <2>2
<1>6. CASE Unlink
  <2>1. conn'[c].status = conn[c].status \/ conn'[c].status = "CLOSED"
    BY <1>6, Typed DEF Unlink, Connection
  <2>. QED BY <2>1
<1>7. CASE \E d \in Conn, size \in Nat : Enqueue(d, size)
  BY <1>7, EnqueueIs
<1>8. CASE HandlerWrites
  <2>1. \A d \in Reach : d \in Conn
    BY <1>8, ReachIsOpen DEF HandlerWrites
  <2>. QED BY <1>7, <1>8, <2>1, LoopAssumption DEF HandlerWrites
<1>9. CASE OnClose
  <2>1. This \in Conn /\ 0 \in Nat
    BY <1>9, RunningOn DEF OnClose, Running, LoopOp
  <2>. QED BY <1>1, <1>7, <1>9, <2>1 DEF OnClose
<1>10. \/ UNCHANGED conn \/ Outstanding \/ Accept \/ HandlerConnects \/ Read \/ Write \/ Walk
       \/ HandlerPaces \/ Send \/ Unlink \/ HandlerWrites \/ OnClose \/ Reap \/ Finish
  <2>1. CASE UNCHANGED vars
    BY <2>1 DEF vars
  <2>2. CASE Server
    BY <2>2 DEF Server, Wait, HangUp, After, Close, HandlerReturns, CloseService,
                CloseConnections
  <2>3. CASE Handler
    BY <2>3 DEF Handler, HandlerCloses, HandlerStops
  <2>4. CASE Peers
    BY <2>4 DEF Peers, PeerConnects, PeerSends, PeerShuts, PeerResets, PeerDrains
  <2>. QED BY <2>1, <2>2, <2>3, <2>4 DEF Next
<1>. QED BY <1>1, <1>2, <1>3, <1>5, <1>6, <1>8, <1>9, <1>10, <1>11, <1>12, <1>13

\* A connection is deleted once nothing of the round, nor any read that was left for the
\* next one, is about it.
LEMMA DeletedAtTheEnd ==
    ASSUME LoopInv, [Next]_vars, NEW c \in Conn,
           conn[c].status # "FREED", conn'[c].status = "FREED"
    PROVE  /\ \A i \in 1..Len(todo) : todo[i].conn # c
           /\ c \notin ToSet(readOutstanding)
<1>1. /\ todo # <<>> /\ Head(todo).op \in {"reap", "finish"} /\ conn' = Delete(removal)
  BY OnlyDeletes DEF Reap, Finish, Running
<1>2. conn[c].status = "CLOSED"
  BY <1>1, DeletedIsFreed DEF Deletes
<1>3. c \notin ToSet(readOutstanding)
  BY <1>2 DEF LoopInv, ListsAgree, IsOpen
<1>4. \A task \in ToSet(todo) : task.conn # c
  <2>1. /\ Tasks(todo) /\ ToSet(todo) = {Head(todo)} \cup ToSet(Tail(todo))
        /\ \A task \in ToSet(todo) : TaskTyped(task)
        /\ Head(todo).op = "reap" => \A task \in ToSet(Tail(todo)) : task.op = "cycle"
        /\ Head(todo).op = "finish" => Tail(todo) = <<>>
    BY <1>1, Typed, Running_
  <2>2. \A task \in ToSet(todo) : task.op \in LoopOp
    BY <1>1, <2>1, SetOfNone DEF LoopOp
  <2>. QED BY <2>1, <2>2, LoopAssumption DEF TaskTyped
<1>5. \A i \in 1..Len(todo) : todo[i] \in ToSet(todo)
  BY Typed DEF ToSet
<1>. QED BY <1>3, <1>4, <1>5

\* A connection is deleted only once nothing of the round is about it any more.
THEOREM DeletionsWait == Spec => DeletedAfterTheRound
<1>. DEFINE Deletion(c) ==
               (conn[c].status # "FREED" /\ conn'[c].status = "FREED") =>
                   /\ \A i \in 1..Len(todo) : todo[i].conn # c
                   /\ c \notin ToSet(readOutstanding)
<1>1. LoopInv /\ [Next]_vars => [\A c \in Conn : Deletion(c)]_vars
  BY DeletedAtTheEnd
<1>2. Spec => [][\A c \in Conn : Deletion(c)]_vars
  <2>. HIDE DEF Deletion
  <2>. QED BY <1>1, LoopIsSound, PTL DEF Spec
<1>. QED BY <1>2 DEF DeletedAfterTheRound
=============================================================================
