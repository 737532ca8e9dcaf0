------------------------ MODULE PythonServer_proofs ------------------------
(***************************************************************************)
(* Proofs about PythonServer, for any bounds of the wait and any number of *)
(* interrupts that it tolerates: whatever they abort, none is lost; about  *)
(* ModPython, for any requests: what one is called with and answered with  *)
(* is its own; about Wsgi, for any request: it is called with whole; and   *)
(* about Asgi, for any messages, applications and peers of a websocket.    *)
(***************************************************************************)
EXTENDS PythonServer, ModPython, Wsgi, Asgi, ListLemmas

Phases == {"opening", "starting", "serving", "stopping", "releasing", "replacing",
           "found", "giving", "returned"}
Signals == [tripped : BOOLEAN, handler : {"default", "own", "application"},
            replaced : BOOLEAN, recorded : BOOLEAN, interrupted : BOOLEAN,
            held : BOOLEAN, remembered : BOOLEAN, stale : BOOLEAN]
Lifespans == [context : BOOLEAN, task : {"none", "alive", "done"}, startup : 0..2,
              shutdown : 0..2, pushed : SUBSET {"startup", "shutdown"}, booted : BOOLEAN]
Waits == [turns : Nat, time : Nat, failures : Nat,
          ended : {"none", "answered", "time", "task", "failures"}]

PyTyped ==
    /\ pyPhase \in Phases
    /\ pySignal \in Signals
    /\ pyStatus \in {"open", "closed"}
    /\ pyLifespan \in Lifespans
    /\ pyWait \in Waits
    /\ pyOutcome \in {"none", "failure", "interrupt", "ended"}
    /\ pyCount \in [arrived : 0..MostInterrupts, owed : BOOLEAN]

-----------------------------------------------------------------------------
(* The parts of the inductive invariant.                                   *)

Releasing == {"replacing", "found", "giving"}

\* The handler of the server is in place, and has recorded, only after it was put
\* there.
OwnIsReplaced ==
    pySignal.handler = "own" \/ pySignal.recorded => pySignal.replaced

\* An interrupt is remembered while one is held, during an event of the lifespan.
HeldWhileWaiting ==
    /\ pySignal.remembered => pySignal.held
    /\ pySignal.held <=> pyPhase \in {"starting", "stopping"} /\ pyLifespan.context

\* What serve_forever has made of the interrupts so far.
InterruptedInTime ==
    /\ pyPhase \in {"opening", "starting", "serving"} =>
          ~pySignal.interrupted /\ pyOutcome = "none"
    /\ pyPhase = "stopping" /\ pySignal.interrupted => pyOutcome = "interrupt"
    /\ pyPhase = "opening" => ~pySignal.recorded

\* An interrupt that is owed is somewhere on its way to the caller.
OwedIsOnItsWay ==
    pyCount.owed =>
        \/ pyOutcome = "interrupt" \/ pySignal.tripped
        \/ pySignal.recorded /\ pyPhase # "returned"
        \/ pySignal.remembered
        \/ pyPhase \in Releasing /\ pySignal.interrupted

\* A single interrupt is in one place.
InOnePlace ==
    LET s == pySignal IN
    pyCount.arrived <= 1 =>
        /\ ~(s.tripped /\ s.recorded) /\ ~(s.tripped /\ s.remembered)
        /\ ~(s.recorded /\ s.remembered)
        /\ pyPhase \in Releasing /\ s.interrupted => ~s.tripped /\ ~s.recorded
        /\ pyOutcome = "interrupt" =>
              /\ ~s.tripped /\ ~s.remembered
              /\ s.recorded => pyPhase = "stopping" /\ s.interrupted
              /\ pyPhase \in Releasing => ~s.interrupted

\* None has arrived yet.
NowhereAtFirst ==
    LET s == pySignal IN
    pyCount.arrived = 0 =>
        /\ ~s.tripped /\ ~s.recorded /\ ~s.remembered /\ ~s.interrupted
        /\ pyOutcome # "interrupt"

\* The giving back of the handler.
GivenBackAtTheEnd ==
    /\ pyPhase = "opening" => pySignal.handler # "own"
    /\ pyPhase = "replacing" => ~pySignal.recorded
    /\ pyPhase \in {"giving", "returned"} /\ pyCount.arrived < 2 => pySignal.handler # "own"

\* The lifespan along the phases.
LifespanInTime ==
    LET l == pyLifespan IN
    /\ pyPhase = "opening" => ~l.context
    /\ pyPhase = "starting" => l.context
    /\ pyPhase \in {"opening", "starting"} => ~l.booted
    /\ pyPhase \in {"opening", "starting", "serving"} => "shutdown" \notin l.pushed
    /\ pyPhase \in {"serving", "stopping"} => (l.context <=> l.booted)
    /\ pyPhase = "stopping" => ("shutdown" \in l.pushed <=> l.context)
    /\ pyPhase \in {"releasing", "returned"} \cup Releasing =>
          ~l.context /\ ("shutdown" \in l.pushed <=> l.booted)

\* Every failure of the wait has used up an interrupt, or the stop that an aborted
\* iteration left behind.
FailuresAreInterrupts ==
    LET One(b) == IF b THEN 1 ELSE 0 IN
    /\ pyWait.ended # "failures"
    /\ pyPhase \in {"starting", "stopping"} =>
          pyWait.failures + One(pySignal.tripped) + One(pySignal.stale) <= pyCount.arrived + 1
    /\ pySignal.tripped => pyCount.arrived >= 1

PyInv ==
    /\ PyTyped /\ OwnIsReplaced /\ HeldWhileWaiting /\ InterruptedInTime /\ OwedIsOnItsWay
    /\ InOnePlace /\ NowhereAtFirst /\ GivenBackAtTheEnd /\ LifespanInTime
    /\ FailuresAreInterrupts

-----------------------------------------------------------------------------
(* What the interpreter and the server make of the flags.                  *)

\* A handler that runs: the signal is no longer tripped, the handler of the server
\* has recorded it, or it is raised.
Handled(s, t, raises) ==
    /\ t \in Signals /\ raises \in BOOLEAN
    /\ t.handler = s.handler /\ t.replaced = s.replaced /\ t.interrupted = s.interrupted
    /\ t.held = s.held /\ t.remembered = s.remembered /\ t.stale = s.stale
    /\ ~t.tripped
    /\ t.recorded <=> s.recorded \/ (s.tripped /\ s.handler = "own")
    /\ raises <=> \/ s.tripped /\ s.handler = "default"
                  \/ s.tripped /\ s.handler = "own" /\ s.recorded

\* Running the handlers does what that says of it.
LEMMA HandlerRunHandles ==
    ASSUME NEW s \in Signals
    PROVE  Handled(s, HandlerRun(s)[1], HandlerRun(s)[2])
<1> DEFINE t == HandlerRun(s)[1]
           raises == HandlerRun(s)[2]
<1>0. /\ s.tripped \in BOOLEAN /\ s.recorded \in BOOLEAN
      /\ s.handler \in {"default", "own", "application"}
  BY DEF Signals
<1>1. CASE ~s.tripped
  <2>1. HandlerRun(s) = <<s, FALSE>>
    BY <1>1 DEF HandlerRun
  <2>2. t = s /\ raises = FALSE
    BY <2>1
  <2> HIDE DEF t, raises
  <2>3. Handled(s, t, raises)
    BY <1>0, <1>1, <2>2 DEF Handled
  <2>4. QED
    BY <2>3 DEF t, raises
<1>2. CASE s.tripped /\ s.handler = "own" /\ ~s.recorded
  <2>1. HandlerRun(s) = <<[s EXCEPT !.tripped = FALSE, !.recorded = TRUE], FALSE>>
    BY <1>2 DEF HandlerRun
  <2>2. t = [s EXCEPT !.tripped = FALSE, !.recorded = TRUE] /\ raises = FALSE
    BY <2>1
  <2> HIDE DEF t, raises
  <2>3. Handled(s, t, raises)
    BY <1>2, <2>2 DEF Handled, Signals
  <2>4. QED
    BY <2>3 DEF t, raises
<1>3. CASE s.tripped /\ s.handler = "application"
  <2>1. HandlerRun(s) = <<[s EXCEPT !.tripped = FALSE], FALSE>>
    BY <1>3 DEF HandlerRun
  <2>2. t = [s EXCEPT !.tripped = FALSE] /\ raises = FALSE
    BY <2>1
  <2> HIDE DEF t, raises
  <2>3. Handled(s, t, raises)
    BY <1>3, <2>2 DEF Handled, Signals
  <2>4. QED
    BY <2>3 DEF t, raises
<1>4. CASE s.tripped /\ (s.handler = "default" \/ (s.handler = "own" /\ s.recorded))
  <2>1. HandlerRun(s) = <<[s EXCEPT !.tripped = FALSE], TRUE>>
    BY <1>4 DEF HandlerRun
  <2>2. t = [s EXCEPT !.tripped = FALSE] /\ raises = TRUE
    BY <2>1
  <2> HIDE DEF t, raises
  <2>3. Handled(s, t, raises)
    BY <1>4, <2>2 DEF Handled, Signals
  <2>4. QED
    BY <2>3 DEF t, raises
<1>5. QED
  BY <1>0, <1>1, <1>2, <1>3, <1>4

\* What is raised within the loop is remembered or given back.
LEMMA ClearedKeeps ==
    ASSUME NEW s \in Signals
    PROVE  /\ Cleared(s) \in Signals
           /\ Cleared(s).handler = s.handler /\ Cleared(s).replaced = s.replaced
           /\ Cleared(s).recorded = s.recorded /\ Cleared(s).interrupted = s.interrupted
           /\ Cleared(s).held = s.held /\ Cleared(s).stale = s.stale
           /\ Cleared(s).remembered <=> s.remembered \/ s.held
           /\ Cleared(s).tripped <=> s.tripped \/ ~s.held
BY DEF Cleared, Signals

\* Python code that runs handles the signal or does not meet it.
LEMMA PythonHandles ==
    ASSUME NEW s \in Signals, NEW ran \in Python(s)
    PROVE  Handled(s, ran[1], ran[2]) \/ (ran[1] = s /\ ran[2] = FALSE)
<1>1. CASE ran = <<s, FALSE>>
  BY <1>1
<1>2. CASE ran = HandlerRun(s)
  BY <1>2, HandlerRunHandles
<1>3. QED
  BY <1>1, <1>2 DEF Python

\* What becomes of the handler as the serving opens.
LEMMA HeldReplaces ==
    ASSUME NEW s \in Signals
    PROVE  /\ Held(s) \in Signals
           /\ Held(s).interrupted = s.interrupted /\ Held(s).held = s.held
           /\ Held(s).stale = s.stale
           /\ \/ /\ Held(s).handler = s.handler /\ Held(s).replaced = s.replaced
                 /\ s.tripped /\ s.handler # "application"
                 /\ Held(s).recorded = s.recorded
                 /\ Held(s).remembered <=> s.remembered \/ s.held
                 /\ Held(s).tripped <=> ~s.held
              \/ /\ Held(s).handler = "own" /\ Held(s).replaced /\ ~Held(s).recorded
                 /\ Held(s).tripped = s.tripped /\ Held(s).remembered = s.remembered
<1> DEFINE t == HandlerRun(s)[1]
           raises == HandlerRun(s)[2]
<1>1. Handled(s, t, raises)
  BY HandlerRunHandles
<1>2. Held(s) = IF raises THEN Cleared(t)
                ELSE [s EXCEPT !.handler = "own", !.replaced = TRUE, !.recorded = FALSE]
  BY DEF Held
<1> HIDE DEF t, raises
<1>3. CASE raises
  <2>1. t \in Signals /\ Held(s) = Cleared(t)
    BY <1>1, <1>2, <1>3 DEF Handled
  <2>2. s.tripped /\ s.handler # "application" /\ t.recorded = s.recorded
    BY <1>1, <1>3 DEF Handled, Signals
  <2>3. QED
    BY <1>1, <2>1, <2>2, ClearedKeeps DEF Handled
<1>4. CASE ~raises
  BY <1>1, <1>2, <1>4 DEF Handled, Signals
<1>5. QED
  BY <1>3, <1>4

-----------------------------------------------------------------------------
(* One lemma for each action: a step per part of the invariant, after what *)
(* the action makes of the flags.                                          *)

\* Nothing has arrived at first.
LEMMA PyInitInv == PyInit => PyInv
BY PythonServerAssumption DEF PyInit, PyInv, PyTyped, Phases, Signals, Lifespans, Waits,
   NewWait,
   OwnIsReplaced, HeldWhileWaiting, InterruptedInTime, OwedIsOnItsWay, InOnePlace,
   NowhereAtFirst, GivenBackAtTheEnd, LifespanInTime, FailuresAreInterrupts, Releasing

\* An interrupt arrives: it is tripped, and owed.
LEMMA InterruptInv == PyInv /\ Interrupt => PyInv'
<1> SUFFICES ASSUME PyInv, Interrupt PROVE PyInv'
  OBVIOUS
<1>1. /\ pySignal' \in Signals /\ pySignal'.tripped
      /\ pySignal'.handler = pySignal.handler /\ pySignal'.replaced = pySignal.replaced
      /\ pySignal'.recorded = pySignal.recorded
      /\ pySignal'.interrupted = pySignal.interrupted
      /\ pySignal'.held = pySignal.held /\ pySignal'.stale = pySignal.stale
      /\ pySignal'.remembered = pySignal.remembered
  BY DEF Interrupt, PyInv, PyTyped, Signals
<1>2. pyCount' \in [arrived : 0..MostInterrupts, owed : BOOLEAN]
      /\ pyCount'.arrived = pyCount.arrived + 1
  BY PythonServerAssumption DEF Interrupt, PyInv, PyTyped
<1>3. PyTyped'
  BY <1>1, <1>2 DEF Interrupt, PyInv, PyTyped
<1>4. OwnIsReplaced' /\ HeldWhileWaiting'
  BY <1>1 DEF Interrupt, PyInv, OwnIsReplaced, HeldWhileWaiting
<1>5. InterruptedInTime' /\ OwedIsOnItsWay'
  BY <1>1 DEF Interrupt, PyInv, InterruptedInTime, OwedIsOnItsWay
<1>6. InOnePlace' /\ NowhereAtFirst'
  BY <1>1, <1>2 DEF Interrupt, PyInv, PyTyped, InOnePlace, NowhereAtFirst
<1>7. GivenBackAtTheEnd' /\ LifespanInTime'
  BY <1>1, <1>2 DEF Interrupt, PyInv, PyTyped, GivenBackAtTheEnd, LifespanInTime
<1>8. FailuresAreInterrupts'
  BY <1>1, <1>2 DEF Interrupt, PyInv, PyTyped, Waits, Signals, FailuresAreInterrupts
<1>9. QED
  BY <1>3, <1>4, <1>5, <1>6, <1>7, <1>8 DEF PyInv

\* The application replaces the handler.
LEMMA SetsHandlerInv == PyInv /\ SetsHandler => PyInv'
<1> SUFFICES ASSUME PyInv, SetsHandler PROVE PyInv'
  OBVIOUS
<1>1. /\ pySignal' \in Signals /\ pySignal'.handler = "application"
      /\ pySignal'.tripped = pySignal.tripped /\ pySignal'.replaced = pySignal.replaced
      /\ pySignal'.recorded = pySignal.recorded
      /\ pySignal'.interrupted = pySignal.interrupted /\ pySignal'.held = pySignal.held
      /\ pySignal'.remembered = pySignal.remembered /\ pySignal'.stale = pySignal.stale
  BY DEF SetsHandler, PyInv, PyTyped, Signals
<1>2. PyTyped'
  BY <1>1 DEF SetsHandler, PyInv, PyTyped
<1>3. OwnIsReplaced'
  BY DEF SetsHandler, PyInv, OwnIsReplaced
<1>4. HeldWhileWaiting'
  BY DEF SetsHandler, PyInv, HeldWhileWaiting
<1>5. InterruptedInTime'
  BY DEF SetsHandler, PyInv, InterruptedInTime
<1>6. OwedIsOnItsWay'
  BY DEF SetsHandler, PyInv, OwedIsOnItsWay
<1>7. InOnePlace'
  BY DEF SetsHandler, PyInv, InOnePlace
<1>8. NowhereAtFirst'
  BY DEF SetsHandler, PyInv, NowhereAtFirst
<1>9. GivenBackAtTheEnd'
  BY DEF SetsHandler, GivenBackAtTheEnd
<1>10. LifespanInTime'
  BY DEF SetsHandler, PyInv, LifespanInTime
<1>11. FailuresAreInterrupts'
  BY DEF SetsHandler, PyInv, FailuresAreInterrupts
<1>12. QED
  BY <1>2, <1>3, <1>4, <1>5, <1>6, <1>7, <1>8, <1>9, <1>10, <1>11 DEF PyInv

\* The server is told to stop.
LEMMA StopsInv == PyInv /\ Stops => PyInv'
<1> SUFFICES ASSUME PyInv, Stops PROVE PyInv'
  OBVIOUS
<1>1. PyTyped'
  BY DEF Stops, PyInv, PyTyped
<1>2. OwnIsReplaced'
  BY DEF Stops, PyInv, OwnIsReplaced
<1>3. HeldWhileWaiting'
  BY DEF Stops, PyInv, HeldWhileWaiting
<1>4. InterruptedInTime'
  BY DEF Stops, PyInv, InterruptedInTime
<1>5. OwedIsOnItsWay'
  BY DEF Stops, PyInv, OwedIsOnItsWay
<1>6. InOnePlace'
  BY DEF Stops, PyInv, InOnePlace
<1>7. NowhereAtFirst'
  BY DEF Stops, PyInv, NowhereAtFirst
<1>8. GivenBackAtTheEnd'
  BY DEF Stops, GivenBackAtTheEnd
<1>9. LifespanInTime'
  BY DEF Stops, PyInv, LifespanInTime
<1>10. FailuresAreInterrupts'
  BY DEF Stops, PyInv, FailuresAreInterrupts
<1>11. QED
  BY <1>1, <1>2, <1>3, <1>4, <1>5, <1>6, <1>7, <1>8, <1>9, <1>10 DEF PyInv

\* The wait is over.
LEMMA WaitEndsInv == PyInv /\ WaitEnds => PyInv'
<1> SUFFICES ASSUME PyInv, WaitEnds PROVE PyInv'
  OBVIOUS
<1>1. PyTyped'
  BY DEF WaitEnds, PyInv, PyTyped, Waits
<1>2. OwnIsReplaced'
  BY DEF WaitEnds, PyInv, OwnIsReplaced
<1>3. HeldWhileWaiting'
  BY DEF WaitEnds, PyInv, HeldWhileWaiting
<1>4. InterruptedInTime'
  BY DEF WaitEnds, PyInv, InterruptedInTime
<1>5. OwedIsOnItsWay'
  BY DEF WaitEnds, PyInv, OwedIsOnItsWay
<1>6. InOnePlace'
  BY DEF WaitEnds, PyInv, InOnePlace
<1>7. NowhereAtFirst'
  BY DEF WaitEnds, PyInv, NowhereAtFirst
<1>8. GivenBackAtTheEnd'
  BY DEF WaitEnds, PyInv, GivenBackAtTheEnd
<1>9. LifespanInTime'
  BY DEF WaitEnds, PyInv, LifespanInTime
<1>10. FailuresAreInterrupts'
  BY DEF WaitEnds, PyInv, FailuresAreInterrupts
<1>11. QED
  BY <1>1, <1>2, <1>3, <1>4, <1>5, <1>6, <1>7, <1>8, <1>9, <1>10 DEF PyInv

\* The startup is over.
LEMMA StartedInv == PyInv /\ Started => PyInv'
<1> SUFFICES ASSUME PyInv, Started PROVE PyInv'
  OBVIOUS
<1>1. /\ pySignal' \in Signals /\ ~pySignal'.held /\ ~pySignal'.remembered
      /\ pySignal'.tripped <=> pySignal.tripped \/ pySignal.remembered
      /\ pySignal'.handler = pySignal.handler /\ pySignal'.replaced = pySignal.replaced
      /\ pySignal'.recorded = pySignal.recorded
      /\ pySignal'.interrupted = pySignal.interrupted
      /\ pySignal'.stale = pySignal.stale
  BY DEF Started, WaitReleased, PyInv, PyTyped, Signals
<1>2. PyTyped'
  BY <1>1 DEF Started, PyInv, PyTyped, Phases, Lifespans, ContextGone
<1>3. OwnIsReplaced'
  BY <1>1 DEF PyInv, OwnIsReplaced
<1>4. HeldWhileWaiting'
  BY <1>1 DEF Started, HeldWhileWaiting
<1>5. InterruptedInTime'
  BY <1>1 DEF Started, PyInv, InterruptedInTime
<1>6. OwedIsOnItsWay'
  BY <1>1 DEF Started, PyInv, OwedIsOnItsWay, InterruptedInTime
<1>7. InOnePlace'
  BY <1>1 DEF Started, PyInv, InOnePlace, Releasing
<1>8. NowhereAtFirst'
  BY <1>1 DEF Started, PyInv, NowhereAtFirst
<1>9. GivenBackAtTheEnd'
  BY DEF Started, GivenBackAtTheEnd
<1>10. LifespanInTime'
  BY DEF Started, PyInv, LifespanInTime, Releasing, ContextGone
<1>11. FailuresAreInterrupts'
  BY <1>1 DEF Started, PyInv, PyTyped, FailuresAreInterrupts, NowhereAtFirst
<1>12. QED
  BY <1>2, <1>3, <1>4, <1>5, <1>6, <1>7, <1>8, <1>9, <1>10, <1>11 DEF PyInv

\* The serving ends.
LEMMA EndsServingInv == PyInv /\ EndsServing => PyInv'
<1> SUFFICES ASSUME PyInv, EndsServing PROVE PyInv'
  OBVIOUS
<1>1. /\ pySignal' \in Signals /\ pySignal'.held = pyLifespan.context
      /\ pySignal'.tripped = pySignal.tripped /\ pySignal'.handler = pySignal.handler
      /\ pySignal'.replaced = pySignal.replaced
      /\ pySignal'.recorded = pySignal.recorded
      /\ pySignal'.interrupted = pySignal.interrupted
      /\ pySignal'.remembered = pySignal.remembered /\ pySignal'.stale = pySignal.stale
  BY DEF EndsServing, Stopping, Lifespans, PyInv, PyTyped, Signals
<1>2. PyTyped'
  BY <1>1 DEF EndsServing, PyInv, PyTyped, Phases, Lifespans, Waits, Tells, NewWait
<1>3. OwnIsReplaced'
  BY <1>1 DEF PyInv, OwnIsReplaced
<1>4. HeldWhileWaiting'
  BY <1>1 DEF EndsServing, PyInv, HeldWhileWaiting, Tells
<1>5. InterruptedInTime'
  BY <1>1 DEF EndsServing, PyInv, InterruptedInTime
<1>6. OwedIsOnItsWay'
  BY <1>1 DEF EndsServing, PyInv, OwedIsOnItsWay, InterruptedInTime
<1>7. InOnePlace'
  BY <1>1 DEF EndsServing, PyInv, InOnePlace, Releasing
<1>8. NowhereAtFirst'
  BY <1>1 DEF EndsServing, PyInv, NowhereAtFirst
<1>9. GivenBackAtTheEnd'
  BY DEF EndsServing, GivenBackAtTheEnd
<1>10. LifespanInTime'
  BY DEF EndsServing, PyInv, LifespanInTime, Releasing, Tells
<1>11. FailuresAreInterrupts'
  BY <1>1 DEF EndsServing, PyInv, PyTyped, FailuresAreInterrupts, NewWait
<1>12. QED
  BY <1>2, <1>3, <1>4, <1>5, <1>6, <1>7, <1>8, <1>9, <1>10, <1>11 DEF PyInv

\* Nothing was replaced.
LEMMA NotReplacedInv == PyInv /\ NotReplaced => PyInv'
<1> SUFFICES ASSUME PyInv, NotReplaced PROVE PyInv'
  OBVIOUS
<1>1. PyTyped'
  BY DEF NotReplaced, PyInv, PyTyped, Phases
<1>2. OwnIsReplaced'
  BY DEF NotReplaced, PyInv, OwnIsReplaced
<1>3. HeldWhileWaiting'
  BY DEF NotReplaced, PyInv, HeldWhileWaiting
<1>4. InterruptedInTime'
  BY DEF NotReplaced, InterruptedInTime
<1>5. OwedIsOnItsWay'
  BY DEF NotReplaced, PyInv, OwedIsOnItsWay, Releasing, OwnIsReplaced
<1>6. InOnePlace'
  BY DEF NotReplaced, PyInv, InOnePlace, Releasing
<1>7. NowhereAtFirst'
  BY DEF NotReplaced, PyInv, NowhereAtFirst
<1>8. GivenBackAtTheEnd'
  BY DEF NotReplaced, PyInv, GivenBackAtTheEnd, OwnIsReplaced
<1>9. LifespanInTime'
  BY DEF NotReplaced, PyInv, LifespanInTime
<1>10. FailuresAreInterrupts'
  BY DEF NotReplaced, PyInv, FailuresAreInterrupts
<1>11. QED
  BY <1>1, <1>2, <1>3, <1>4, <1>5, <1>6, <1>7, <1>8, <1>9, <1>10 DEF PyInv

\* The record is read.
LEMMA ReadsRecordInv == PyInv /\ ReadsRecord => PyInv'
<1> SUFFICES ASSUME PyInv, ReadsRecord PROVE PyInv'
  OBVIOUS
<1>1. /\ pySignal' \in Signals /\ pySignal'.interrupted = pySignal.recorded
      /\ ~pySignal'.recorded /\ pySignal'.tripped = pySignal.tripped
      /\ pySignal'.handler = pySignal.handler /\ pySignal'.replaced = pySignal.replaced
      /\ pySignal'.held = pySignal.held /\ pySignal'.remembered = pySignal.remembered
      /\ pySignal'.stale = pySignal.stale
  BY DEF ReadsRecord, PyInv, PyTyped, Signals
<1>2. PyTyped'
  BY <1>1 DEF ReadsRecord, PyInv, PyTyped, Phases
<1>3. OwnIsReplaced'
  BY DEF ReadsRecord, OwnIsReplaced
<1>4. HeldWhileWaiting'
  BY DEF ReadsRecord, PyInv, HeldWhileWaiting
<1>5. InterruptedInTime'
  BY DEF ReadsRecord, InterruptedInTime
<1>6. OwedIsOnItsWay'
  BY DEF ReadsRecord, PyInv, OwedIsOnItsWay, Releasing
<1>7. InOnePlace'
  BY DEF ReadsRecord, PyInv, InOnePlace
<1>8. NowhereAtFirst'
  BY DEF ReadsRecord, PyInv, NowhereAtFirst
<1>9. GivenBackAtTheEnd'
  BY DEF ReadsRecord, GivenBackAtTheEnd
<1>10. LifespanInTime'
  BY DEF ReadsRecord, PyInv, LifespanInTime
<1>11. FailuresAreInterrupts'
  BY DEF ReadsRecord, PyInv, FailuresAreInterrupts
<1>12. QED
  BY <1>2, <1>3, <1>4, <1>5, <1>6, <1>7, <1>8, <1>9, <1>10, <1>11 DEF PyInv

\* What was recorded is given back.
LEMMA GivesInterruptBackInv == PyInv /\ GivesInterruptBack => PyInv'
<1> SUFFICES ASSUME PyInv, GivesInterruptBack PROVE PyInv'
  OBVIOUS
<1>1. /\ pySignal' \in Signals /\ ~pySignal'.recorded
      /\ pySignal'.tripped <=> pySignal.tripped \/ pySignal.interrupted \/ pySignal.recorded
      /\ pySignal'.handler = pySignal.handler /\ pySignal'.replaced = pySignal.replaced
      /\ pySignal'.interrupted = pySignal.interrupted /\ pySignal'.held = pySignal.held
      /\ pySignal'.remembered = pySignal.remembered /\ pySignal'.stale = pySignal.stale
  BY DEF GivesInterruptBack, Unacted, PyInv, PyTyped, Signals
<1>2. PyTyped'
  BY <1>1 DEF GivesInterruptBack, PyInv, PyTyped, Phases
<1>3. OwnIsReplaced'
  BY <1>1 DEF PyInv, OwnIsReplaced
<1>4. HeldWhileWaiting'
  BY <1>1 DEF GivesInterruptBack, PyInv, HeldWhileWaiting
<1>5. InterruptedInTime'
  BY DEF GivesInterruptBack, InterruptedInTime
<1>6. OwedIsOnItsWay'
  BY <1>1 DEF GivesInterruptBack, PyInv, OwedIsOnItsWay
<1>7. InOnePlace'
  BY <1>1 DEF GivesInterruptBack, PyInv, InOnePlace, Releasing, HeldWhileWaiting
<1>8. NowhereAtFirst'
  BY <1>1 DEF GivesInterruptBack, PyInv, NowhereAtFirst
<1>9. GivenBackAtTheEnd'
  BY <1>1 DEF GivesInterruptBack, PyInv, GivenBackAtTheEnd
<1>10. LifespanInTime'
  BY DEF GivesInterruptBack, PyInv, LifespanInTime, Releasing
<1>11. FailuresAreInterrupts'
  BY <1>1 DEF GivesInterruptBack, PyInv, PyTyped, FailuresAreInterrupts, NowhereAtFirst
<1>12. QED
  BY <1>2, <1>3, <1>4, <1>5, <1>6, <1>7, <1>8, <1>9, <1>10, <1>11 DEF PyInv

\* The handler in place is looked up.
LEMMA LooksUpInv == PyInv /\ LooksUp => PyInv'
<1> SUFFICES ASSUME PyInv, LooksUp PROVE PyInv'
  OBVIOUS
<1>1. PICK ran \in Python(pySignal) :
         /\ pySignal' = IF ran[2] THEN Cleared(ran[1]) ELSE ran[1]
         /\ pyCount' = [pyCount EXCEPT !.owed = Owed(pySignal, ran[1])]
         /\ pyPhase' = IF ran[2] THEN "giving" ELSE "found"
  BY DEF LooksUp
<1> DEFINE t == ran[1]
           raises == ran[2]
<1>2. Handled(pySignal, t, raises) \/ (t = pySignal /\ raises = FALSE)
  BY PythonHandles DEF PyInv, PyTyped
<1>3. /\ pySignal' = (IF raises THEN Cleared(t) ELSE t)
      /\ pyCount' = [pyCount EXCEPT !.owed = Owed(pySignal, t)]
      /\ pyPhase' = (IF raises THEN "giving" ELSE "found")
  BY <1>1
<1> HIDE DEF t, raises
<1>4. t \in Signals
  BY <1>2 DEF Handled, PyInv, PyTyped
<1>5. ~pySignal.held /\ ~pySignal.remembered /\ pyPhase = "replacing"
  BY DEF LooksUp, PyInv, HeldWhileWaiting, PyTyped, Signals
<1>6. /\ pySignal' \in Signals /\ pySignal'.handler = pySignal.handler
      /\ pySignal'.replaced = pySignal.replaced
      /\ pySignal'.interrupted = pySignal.interrupted
      /\ ~pySignal'.held /\ ~pySignal'.remembered /\ pySignal'.stale = pySignal.stale
      /\ pySignal'.recorded = t.recorded /\ (pySignal'.tripped <=> t.tripped \/ raises)
  BY <1>2, <1>3, <1>4, <1>5, ClearedKeeps DEF Handled, Signals
<1>7. /\ pyCount' \in [arrived : 0..MostInterrupts, owed : BOOLEAN]
      /\ pyCount'.arrived = pyCount.arrived
      /\ pyCount'.owed <=> /\ pyCount.owed
                           /\ ~(pySignal.handler = "application" /\ pySignal.tripped /\ ~t.tripped)
  BY <1>3 DEF Owed, PyInv, PyTyped
<1>8. PyTyped'
  BY <1>6, <1>7 DEF LooksUp, PyInv, PyTyped, Phases
<1>9. OwnIsReplaced'
  BY <1>2, <1>6 DEF PyInv, OwnIsReplaced, Handled
<1>10. HeldWhileWaiting'
  BY <1>6 DEF LooksUp, HeldWhileWaiting
<1>11. InterruptedInTime'
  BY DEF LooksUp, InterruptedInTime
<1>12. OwedIsOnItsWay'
  BY <1>2, <1>5, <1>6, <1>7 DEF LooksUp, PyInv, OwedIsOnItsWay, Releasing, Signals, Handled
<1>13. InOnePlace'
  BY <1>2, <1>6 DEF LooksUp, PyInv, InOnePlace, Releasing, Handled
<1>14. NowhereAtFirst'
  BY <1>2, <1>6 DEF LooksUp, PyInv, NowhereAtFirst, Handled
<1>15. GivenBackAtTheEnd'
  BY <1>2, <1>3, <1>6 DEF LooksUp, PyInv, GivenBackAtTheEnd, Handled
<1>16. LifespanInTime'
  BY DEF LooksUp, PyInv, LifespanInTime, Releasing
<1>17. FailuresAreInterrupts'
  BY <1>2, <1>6 DEF LooksUp, PyInv, FailuresAreInterrupts, Handled
<1>18. QED
  BY <1>8, <1>9, <1>10, <1>11, <1>12, <1>13, <1>14, <1>15, <1>16, <1>17 DEF PyInv

\* The handler is given back.
LEMMA ReplacesHandlerInv == PyInv /\ ReplacesHandler => PyInv'
<1> SUFFICES ASSUME PyInv, ReplacesHandler PROVE PyInv'
  OBVIOUS
<1> DEFINE t == HandlerRun(pySignal)[1]
           raises == HandlerRun(pySignal)[2]
<1>1. Handled(pySignal, t, raises)
  BY HandlerRunHandles DEF PyInv, PyTyped
<1>2. /\ pySignal' = (IF raises THEN Cleared(t) ELSE GivenBack(t))
      /\ pyCount' = [pyCount EXCEPT !.owed = Owed(pySignal, t)]
  BY DEF ReplacesHandler
<1> HIDE DEF t, raises
<1>3. ~pySignal.held /\ ~pySignal.remembered /\ pyPhase = "found" /\ pyPhase' = "giving"
  BY DEF ReplacesHandler, PyInv, HeldWhileWaiting, PyTyped, Signals
<1>4. /\ pySignal' \in Signals /\ pySignal'.replaced = pySignal.replaced
      /\ pySignal'.interrupted = pySignal.interrupted
      /\ ~pySignal'.held /\ ~pySignal'.remembered /\ pySignal'.stale = pySignal.stale
      /\ pySignal'.recorded = t.recorded /\ (pySignal'.tripped <=> raises)
      /\ pySignal'.handler = (IF ~raises /\ pySignal.handler = "own" THEN "default"
                              ELSE pySignal.handler)
  BY <1>1, <1>2, <1>3, ClearedKeeps DEF Handled, Signals, GivenBack
<1>5. /\ pyCount' \in [arrived : 0..MostInterrupts, owed : BOOLEAN]
      /\ pyCount'.arrived = pyCount.arrived
      /\ pyCount'.owed <=> /\ pyCount.owed
                           /\ ~(pySignal.handler = "application" /\ pySignal.tripped /\ ~t.tripped)
  BY <1>2 DEF Owed, PyInv, PyTyped
<1>6. PyTyped'
  BY <1>4, <1>5 DEF ReplacesHandler, PyInv, PyTyped, Phases
<1>7. OwnIsReplaced'
  BY <1>1, <1>4 DEF PyInv, OwnIsReplaced, Handled
<1>8. HeldWhileWaiting'
  BY <1>4 DEF ReplacesHandler, HeldWhileWaiting
<1>9. InterruptedInTime'
  BY DEF ReplacesHandler, InterruptedInTime
<1>10. OwedIsOnItsWay'
  BY <1>1, <1>3, <1>4, <1>5 DEF ReplacesHandler, PyInv, OwedIsOnItsWay, Releasing,
     Signals, Handled
<1>11. InOnePlace'
  BY <1>1, <1>4 DEF ReplacesHandler, PyInv, InOnePlace, Releasing, Handled
<1>12. NowhereAtFirst'
  BY <1>1, <1>4 DEF ReplacesHandler, PyInv, NowhereAtFirst, Handled
<1>13. GivenBackAtTheEnd'
  BY <1>1, <1>4, <1>5 DEF ReplacesHandler, PyInv, GivenBackAtTheEnd, InOnePlace, Handled
<1>14. LifespanInTime'
  BY DEF ReplacesHandler, PyInv, LifespanInTime, Releasing
<1>15. FailuresAreInterrupts'
  BY <1>1, <1>4 DEF ReplacesHandler, PyInv, FailuresAreInterrupts, Handled
<1>16. QED
  BY <1>6, <1>7, <1>8, <1>9, <1>10, <1>11, <1>12, <1>13, <1>14, <1>15 DEF PyInv

\* The serving is closed.
LEMMA ClosesInv == PyInv /\ Closes => PyInv'
<1> SUFFICES ASSUME PyInv, Closes PROVE PyInv'
  OBVIOUS
<1> DEFINE s == WaitReleased(pySignal)
           t == HandlerRun(s)[1]
<1>1. /\ s \in Signals /\ ~s.held /\ ~s.remembered
      /\ s.handler = pySignal.handler /\ s.replaced = pySignal.replaced
      /\ s.recorded = pySignal.recorded /\ s.interrupted = pySignal.interrupted
      /\ s.stale = pySignal.stale
      /\ s.tripped <=> pySignal.tripped \/ pySignal.remembered
  BY DEF WaitReleased, Signals, PyInv, PyTyped
<1>2. Handled(s, t, HandlerRun(s)[2])
  BY <1>1, HandlerRunHandles
<1>3. /\ pySignal' = (IF s.interrupted THEN [t EXCEPT !.recorded = FALSE] ELSE s)
      /\ pyCount' = [pyCount EXCEPT !.owed = Owed(s, pySignal')]
  BY DEF Closes, Acted
<1> HIDE DEF s, t
<1>4. /\ pySignal' \in Signals /\ ~pySignal'.held /\ ~pySignal'.remembered
      /\ pySignal'.handler = pySignal.handler /\ pySignal'.replaced = pySignal.replaced
      /\ pySignal'.interrupted = pySignal.interrupted /\ pySignal'.stale = pySignal.stale
      /\ pySignal'.recorded <=> pySignal.recorded /\ ~pySignal.interrupted
      /\ pySignal'.tripped <=> s.tripped /\ ~pySignal.interrupted
  BY <1>1, <1>2, <1>3 DEF Handled, Signals
<1>5. /\ pyCount' \in [arrived : 0..MostInterrupts, owed : BOOLEAN]
      /\ pyCount'.arrived = pyCount.arrived
      /\ pyCount'.owed => pyCount.owed
  BY <1>3 DEF Owed, PyInv, PyTyped
<1>6. PyTyped'
  BY <1>4, <1>5 DEF Closes, PyInv, PyTyped, Phases, Lifespans, ContextGone
<1>7. OwnIsReplaced'
  BY <1>4 DEF PyInv, OwnIsReplaced
<1>8. HeldWhileWaiting'
  BY <1>4 DEF Closes, HeldWhileWaiting
<1>9. InterruptedInTime'
  BY DEF Closes, InterruptedInTime
<1>10. OwedIsOnItsWay'
  BY <1>1, <1>4, <1>5 DEF Closes, PyInv, OwedIsOnItsWay, InterruptedInTime
<1>11. InOnePlace'
  BY <1>1, <1>4 DEF Closes, PyInv, InOnePlace, Releasing
<1>12. NowhereAtFirst'
  BY <1>1, <1>4 DEF Closes, PyInv, NowhereAtFirst
<1>13. GivenBackAtTheEnd'
  BY DEF Closes, GivenBackAtTheEnd
<1>14. LifespanInTime'
  BY DEF Closes, PyInv, LifespanInTime, ContextGone
<1>15. FailuresAreInterrupts'
  BY <1>1, <1>4, <1>5 DEF Closes, PyInv, FailuresAreInterrupts, NowhereAtFirst
<1>16. QED
  BY <1>6, <1>7, <1>8, <1>9, <1>10, <1>11, <1>12, <1>13, <1>14, <1>15 DEF PyInv

\* The service is opened, or is not.
LEMMA OpensInv == PyInv /\ Opens => PyInv'
<1> SUFFICES ASSUME PyInv, Opens PROVE PyInv'
  OBVIOUS
<1> DEFINE h == Held(pySignal)
<1>1. /\ h \in Signals /\ h.interrupted = pySignal.interrupted /\ h.held = pySignal.held
      /\ h.stale = pySignal.stale /\ (h.tripped <=> pySignal.tripped)
      /\ ~h.recorded /\ ~h.remembered
      /\ h.handler = "own" => h.replaced
  <2>1. ~pySignal.held /\ ~pySignal.remembered /\ ~pySignal.recorded
    BY DEF Opens, PyInv, PyTyped, HeldWhileWaiting, InterruptedInTime, Signals
  <2>2. pySignal.handler = "own" => pySignal.replaced
    BY DEF PyInv, OwnIsReplaced
  <2>3. pySignal \in Signals
    BY DEF PyInv, PyTyped
  <2>4. QED
    BY <2>1, <2>2, <2>3, HeldReplaces DEF Signals
<1>2. /\ pySignal' \in Signals /\ pySignal'.interrupted = pySignal.interrupted
      /\ pySignal'.stale = pySignal.stale /\ (pySignal'.tripped <=> pySignal.tripped)
      /\ ~pySignal'.recorded /\ ~pySignal'.remembered
      /\ pySignal'.handler = "own" => pySignal'.replaced
      /\ pySignal'.held <=> pyPhase' = "starting"
  <2>1. CASE UNCHANGED pySignal /\ pyPhase' = "returned"
    BY <2>1 DEF Opens, PyInv, PyTyped, HeldWhileWaiting, InterruptedInTime, OwnIsReplaced,
       Signals
  <2>2. CASE pySignal' = [h EXCEPT !.held = TRUE] /\ pyPhase' = "starting"
    BY <1>1, <2>2 DEF Signals
  <2>3. CASE pySignal' = h /\ pyPhase' = "serving"
    <3>1. ~pySignal.held
      BY DEF Opens, PyInv, PyTyped, HeldWhileWaiting, Signals
    <3>2. QED
      BY <1>1, <2>3, <3>1
  <2>4. QED
    BY <2>1, <2>2, <2>3 DEF Opens
<1> HIDE DEF h
<1>3. /\ pyLifespan' \in Lifespans /\ ~pyLifespan'.booted
      /\ "shutdown" \notin pyLifespan'.pushed
      /\ pyLifespan'.context <=> pyPhase' = "starting"
  <2>1. /\ pyLifespan \in Lifespans /\ ~pyLifespan.booted /\ ~pyLifespan.context
        /\ "shutdown" \notin pyLifespan.pushed
    BY DEF Opens, PyInv, PyTyped, LifespanInTime
  <2>2. CASE UNCHANGED pyLifespan /\ pyPhase' = "returned"
    BY <2>1, <2>2
  <2>3. CASE pyLifespan' = LifespanStarts /\ pyPhase' = "starting"
    BY <2>1, <2>3 DEF LifespanStarts, Lifespans
  <2>4. CASE pyLifespan' = [pyLifespan EXCEPT !.pushed = {"startup"}] /\ pyPhase' = "serving"
    BY <2>1, <2>4 DEF Lifespans
  <2>5. QED
    BY <2>2, <2>3, <2>4 DEF Opens
<1>4. pyWait' \in Waits /\ (pyWait' = NewWait \/ pyWait' = pyWait)
  BY DEF Opens, PyInv, PyTyped, Waits, NewWait
<1>5. PyTyped'
  BY <1>2, <1>3, <1>4 DEF Opens, PyInv, PyTyped, Phases
<1>6. OwnIsReplaced'
  BY <1>2 DEF OwnIsReplaced
<1>7. HeldWhileWaiting'
  BY <1>2, <1>3 DEF HeldWhileWaiting
<1>8. InterruptedInTime'
  BY <1>2 DEF Opens, PyInv, InterruptedInTime
<1>9. OwedIsOnItsWay'
  BY <1>2 DEF Opens, PyInv, OwedIsOnItsWay, HeldWhileWaiting, InterruptedInTime
<1>10. InOnePlace'
  BY <1>2 DEF Opens, PyInv, InOnePlace, InterruptedInTime
<1>11. NowhereAtFirst'
  BY <1>2 DEF Opens, PyInv, NowhereAtFirst
<1>12. GivenBackAtTheEnd'
  BY DEF Opens, PyInv, GivenBackAtTheEnd
<1>13. LifespanInTime'
  BY <1>3 DEF LifespanInTime, Releasing
<1>14. FailuresAreInterrupts'
  BY <1>2 DEF Opens, PyInv, PyTyped, FailuresAreInterrupts, NewWait
<1>15. QED
  BY <1>5, <1>6, <1>7, <1>8, <1>9, <1>10, <1>11, <1>12, <1>13, <1>14 DEF PyInv

\* A slice of the loop runs while an event is awaited.
LEMMA WaitTurnInv == PyInv /\ WaitTurn => PyInv'
<1> SUFFICES ASSUME PyInv, WaitTurn PROVE PyInv'
  OBVIOUS
<1>1. PICK ran \in Python(pySignal), l \in Application(pyLifespan), passed \in {0, 1} :
         LET fails == ran[2] \/ ran[1].stale
             failed == IF fails THEN pyWait.failures + 1 ELSE 0
             awaits == IF pyPhase = "starting" THEN l.startup ELSE l.shutdown
         IN  /\ pySignal' = Slice(ran)
             /\ pyLifespan' = l
             /\ pyCount' = [pyCount EXCEPT !.owed = Owed(pySignal, ran[1])]
             /\ pyWait' = [turns |-> Turned, time |-> pyWait.time + passed,
                           failures |-> failed,
                           ended |-> CASE fails /\ failed >= WaitFailures -> "failures"
                                       [] ~fails /\ awaits = 0 /\ l.task = "done" -> "task"
                                       [] OTHER -> "none"]
  BY DEF WaitTurn
<1> DEFINE t == ran[1]
           raises == ran[2]
           fails == raises \/ t.stale
           failed == IF fails THEN pyWait.failures + 1 ELSE 0
           awaits == IF pyPhase = "starting" THEN l.startup ELSE l.shutdown
<1>2. Handled(pySignal, t, raises) \/ (t = pySignal /\ raises = FALSE)
  BY PythonHandles DEF PyInv, PyTyped
<1>3. /\ pySignal' = [(IF raises THEN Cleared(t) ELSE t) EXCEPT !.stale = FALSE]
      /\ pyCount' = [pyCount EXCEPT !.owed = Owed(pySignal, t)]
      /\ pyLifespan' = l
      /\ pyWait' = [turns |-> Turned, time |-> pyWait.time + passed, failures |-> failed,
                    ended |-> CASE fails /\ failed >= WaitFailures -> "failures"
                                [] ~fails /\ awaits = 0 /\ l.task = "done" -> "task"
                                [] OTHER -> "none"]
  BY <1>1 DEF Slice
<1> HIDE DEF t, raises
<1>4. t \in Signals /\ raises \in BOOLEAN /\ t.stale = pySignal.stale
  BY <1>2 DEF Handled, PyInv, PyTyped
<1>5. pySignal.held /\ pyLifespan.context /\ pyPhase \in {"starting", "stopping"}
  BY DEF WaitTurn, Waiting, PyInv, HeldWhileWaiting
<1>6. /\ pySignal' \in Signals /\ pySignal'.handler = pySignal.handler
      /\ pySignal'.replaced = pySignal.replaced
      /\ pySignal'.interrupted = pySignal.interrupted
      /\ pySignal'.held /\ ~pySignal'.stale
      /\ pySignal'.recorded = t.recorded /\ (pySignal'.tripped <=> t.tripped)
      /\ pySignal'.remembered <=> pySignal.remembered \/ raises
  <2>1. CASE raises
    <3>1. t.held /\ t.handler = pySignal.handler /\ t.replaced = pySignal.replaced
          /\ t.interrupted = pySignal.interrupted
      BY <1>2, <1>5, <2>1 DEF Handled
    <3> DEFINE c == Cleared(t)
    <3>2. pySignal' = [c EXCEPT !.stale = FALSE]
      BY <1>3, <2>1
    <3>3. /\ c \in Signals /\ c.handler = t.handler /\ c.replaced = t.replaced
          /\ c.recorded = t.recorded /\ c.interrupted = t.interrupted
          /\ c.held /\ c.remembered /\ (c.tripped <=> t.tripped)
      BY <1>4, <3>1, ClearedKeeps
    <3> HIDE DEF c
    <3>4. QED
      BY <1>4, <2>1, <3>1, <3>2, <3>3 DEF Signals
  <2>2. CASE ~raises
    <3>1. /\ t.held /\ t.handler = pySignal.handler /\ t.replaced = pySignal.replaced
          /\ t.interrupted = pySignal.interrupted /\ t.remembered = pySignal.remembered
      BY <1>2, <1>5, <2>2 DEF Handled
    <3>2. pySignal' = [t EXCEPT !.stale = FALSE]
      BY <1>3, <2>2
    <3>3. QED
      BY <1>4, <2>2, <3>1, <3>2 DEF Signals
  <2>3. QED
    BY <2>1, <2>2
<1>7. /\ pyCount' \in [arrived : 0..MostInterrupts, owed : BOOLEAN]
      /\ pyCount'.arrived = pyCount.arrived
      /\ pyCount'.owed <=> /\ pyCount.owed
                           /\ ~(pySignal.handler = "application" /\ pySignal.tripped /\ ~t.tripped)
  BY <1>3 DEF Owed, PyInv, PyTyped
<1>8. /\ pyLifespan' \in Lifespans /\ pyLifespan'.context = pyLifespan.context
      /\ pyLifespan'.booted = pyLifespan.booted /\ pyLifespan'.pushed = pyLifespan.pushed
  BY <1>3 DEF Application, Lifespans, PyInv, PyTyped
<1>9. failed + (IF pySignal'.tripped THEN 1 ELSE 0) + (IF pySignal'.stale THEN 1 ELSE 0)
         <= pyCount.arrived + 1
      /\ failed \in Nat
  <2> DEFINE One(b) == IF b THEN 1 ELSE 0
  <2>1. pyWait.failures + One(pySignal.tripped) + One(pySignal.stale) <= pyCount.arrived + 1
    BY <1>5 DEF PyInv, FailuresAreInterrupts
  <2>2. pyWait.failures \in Nat /\ pyCount.arrived \in 0..MostInterrupts
        /\ (pySignal.tripped => pyCount.arrived >= 1)
    BY DEF PyInv, PyTyped, Waits, FailuresAreInterrupts
  <2>3. (t.tripped => pySignal.tripped) /\ (raises => pySignal.tripped /\ ~t.tripped)
    BY <1>2 DEF Handled
  <2>4. QED
    BY <1>4, <1>6, <2>1, <2>2, <2>3, PythonServerAssumption
<1>10. pyWait' \in Waits /\ pyWait'.failures = failed /\ pyWait'.ended # "failures"
  <2>1. failed < WaitFailures
    BY <1>9, PythonServerAssumption DEF PyInv, PyTyped
  <2>2. Turned \in Nat /\ pyWait.time + passed \in Nat
    BY PythonServerAssumption DEF Turned, PyInv, PyTyped, Waits
  <2>3. QED
    BY <1>3, <1>9, <2>1, <2>2, PythonServerAssumption DEF Waits
<1> HIDE DEF fails, failed, awaits
<1>11. PyTyped'
  BY <1>6, <1>7, <1>8, <1>10 DEF WaitTurn, PyInv, PyTyped
<1>12. OwnIsReplaced'
  BY <1>2, <1>6 DEF PyInv, OwnIsReplaced, Handled
<1>13. HeldWhileWaiting'
  BY <1>5, <1>6, <1>8 DEF WaitTurn, HeldWhileWaiting
<1>14. InterruptedInTime'
  BY <1>5, <1>6 DEF WaitTurn, PyInv, InterruptedInTime
<1>15. OwedIsOnItsWay'
  BY <1>2, <1>5, <1>6, <1>7 DEF WaitTurn, PyInv, OwedIsOnItsWay, Signals, Handled
<1>16. InOnePlace'
  BY <1>2, <1>6 DEF WaitTurn, PyInv, InOnePlace, Handled
<1>17. NowhereAtFirst'
  BY <1>2, <1>6 DEF WaitTurn, PyInv, NowhereAtFirst, Handled
<1>18. GivenBackAtTheEnd'
  BY <1>5 DEF WaitTurn, GivenBackAtTheEnd
<1>19. LifespanInTime'
  BY <1>8 DEF WaitTurn, PyInv, LifespanInTime
<1>20. FailuresAreInterrupts'
  BY <1>2, <1>6, <1>9, <1>10 DEF WaitTurn, PyInv, FailuresAreInterrupts, Handled
<1>21. QED
  BY <1>11, <1>12, <1>13, <1>14, <1>15, <1>16, <1>17, <1>18, <1>19, <1>20 DEF PyInv

\* A turn of the serving.
LEMMA TurnServingInv == PyInv /\ TurnServing => PyInv'
<1> SUFFICES ASSUME PyInv, TurnServing PROVE PyInv'
  OBVIOUS
<1>1. PICK ran \in Python(pySignal), l \in Application(pyLifespan), stale \in BOOLEAN :
         LET once == Iteration(ran, stale)
             checked == HandlerRun(once)
             s == checked[1]
         IN  /\ pyCount' = [pyCount EXCEPT !.owed = Owed(pySignal, ran[1]) /\ Owed(once, s)]
             /\ IF checked[2] \/ (s.replaced /\ s.recorded)
                THEN /\ pySignal' = [Stopping(s) EXCEPT !.interrupted = s.replaced /\ s.recorded]
                     /\ pyOutcome' = "interrupt" /\ pyStatus' = "closed"
                     /\ pyPhase' = "stopping"
                     /\ pyLifespan' = Tells(l) /\ pyWait' = NewWait
                ELSE /\ pySignal' = s /\ pyLifespan' = l
                     /\ UNCHANGED <<pyPhase, pyStatus, pyOutcome, pyWait>>
  BY DEF TurnServing
<1> DEFINE t == ran[1]
           raises == ran[2]
           once == Iteration(ran, stale)
           s == HandlerRun(once)[1]
           checked == HandlerRun(once)[2]
           ends == checked \/ (s.replaced /\ s.recorded)
<1>2. /\ pyCount' = [pyCount EXCEPT !.owed = Owed(pySignal, t) /\ Owed(once, s)]
      /\ ends => /\ pySignal' = [Stopping(s) EXCEPT !.interrupted = s.replaced /\ s.recorded]
                 /\ pyOutcome' = "interrupt" /\ pyStatus' = "closed" /\ pyPhase' = "stopping"
                 /\ pyLifespan' = Tells(l) /\ pyWait' = NewWait
      /\ ~ends => /\ pySignal' = s /\ pyLifespan' = l
                  /\ UNCHANGED <<pyPhase, pyStatus, pyOutcome, pyWait>>
  BY <1>1
<1>3. Handled(pySignal, t, raises) \/ (t = pySignal /\ raises = FALSE)
  BY PythonHandles DEF PyInv, PyTyped
<1>4. once = [(IF raises THEN Cleared(t) ELSE t) EXCEPT !.stale = raises /\ stale]
  BY DEF Iteration
<1>5. once \in Signals => Handled(once, s, checked)
  BY HandlerRunHandles
<1> HIDE DEF t, raises, once, s, checked
<1>6. t \in Signals /\ raises \in BOOLEAN
  BY <1>3 DEF Handled, PyInv, PyTyped
<1>7. ~pySignal.held /\ ~pySignal.remembered /\ pyPhase = "serving"
  BY DEF TurnServing, PyInv, HeldWhileWaiting, PyTyped, Signals
<1>8. /\ once \in Signals /\ once.handler = pySignal.handler
      /\ once.replaced = pySignal.replaced /\ once.interrupted = pySignal.interrupted
      /\ ~once.held /\ ~once.remembered
      /\ once.recorded = t.recorded /\ (once.tripped <=> t.tripped \/ raises)
  <2>1. /\ ~t.held /\ ~t.remembered /\ t.handler = pySignal.handler
        /\ t.replaced = pySignal.replaced /\ t.interrupted = pySignal.interrupted
    BY <1>3, <1>7 DEF Handled
  <2>2. CASE raises
    <3> DEFINE c == Cleared(t)
    <3>1. once = [c EXCEPT !.stale = stale]
      BY <1>4, <2>2
    <3>2. /\ c \in Signals /\ c.handler = t.handler /\ c.replaced = t.replaced
          /\ c.recorded = t.recorded /\ c.interrupted = t.interrupted
          /\ ~c.held /\ ~c.remembered /\ c.tripped
      BY <1>6, <2>1, ClearedKeeps DEF Signals
    <3> HIDE DEF c
    <3>3. QED
      BY <2>1, <2>2, <3>1, <3>2 DEF Signals
  <2>3. CASE ~raises
    <3>1. once = [t EXCEPT !.stale = FALSE]
      BY <1>4, <2>3
    <3>2. QED
      BY <1>6, <2>1, <2>3, <3>1 DEF Signals
  <2>4. QED
    BY <2>2, <2>3
<1>9. Handled(once, s, checked)
  BY <1>5, <1>8
<1>10. /\ pySignal' \in Signals /\ pySignal'.handler = pySignal.handler
       /\ pySignal'.replaced = pySignal.replaced /\ ~pySignal'.tripped
       /\ ~pySignal'.remembered /\ pySignal'.recorded = s.recorded
       /\ ends => /\ pySignal'.held = pyLifespan.context
                  /\ pySignal'.interrupted <=> pySignal.replaced /\ s.recorded
       /\ ~ends => ~pySignal'.held /\ pySignal'.interrupted = pySignal.interrupted
  <2>1. s \in Signals /\ pyLifespan.context \in BOOLEAN
    BY <1>9 DEF Handled, PyInv, PyTyped, Lifespans
  <2>2. CASE ends
    <3>1. pySignal' = [[s EXCEPT !.held = pyLifespan.context]
                          EXCEPT !.interrupted = s.replaced /\ s.recorded]
      BY <1>2, <2>2 DEF Stopping
    <3>2. QED
      BY <1>8, <1>9, <2>1, <2>2, <3>1 DEF Handled, Signals
  <2>3. CASE ~ends
    BY <1>2, <1>8, <1>9, <2>1, <2>3 DEF Handled
  <2>4. QED
    BY <2>2, <2>3
<1>11. /\ pyCount' \in [arrived : 0..MostInterrupts, owed : BOOLEAN]
       /\ pyCount'.arrived = pyCount.arrived
       /\ pyCount'.owed => /\ pyCount.owed
                           /\ ~(pySignal.handler = "application" /\ pySignal.tripped /\ ~t.tripped)
                           /\ ~(once.handler = "application" /\ once.tripped /\ ~s.tripped)
  BY <1>2 DEF Owed, PyInv, PyTyped
<1>12. /\ pyLifespan' \in Lifespans /\ pyLifespan'.context = pyLifespan.context
       /\ pyLifespan'.booted = pyLifespan.booted
       /\ ends => ("shutdown" \in pyLifespan'.pushed <=> pyLifespan.context)
       /\ ~ends => pyLifespan'.pushed = pyLifespan.pushed
  <2>1. /\ l \in Lifespans /\ l.context = pyLifespan.context
        /\ l.booted = pyLifespan.booted /\ l.pushed = pyLifespan.pushed
    BY DEF Application, Lifespans, PyInv, PyTyped
  <2>2. "shutdown" \notin pyLifespan.pushed
    BY <1>7 DEF PyInv, LifespanInTime
  <2>3. QED
    BY <1>2, <2>1, <2>2 DEF Tells, Lifespans
<1>13. ~ends => ~s.recorded
  BY <1>3, <1>8, <1>9 DEF Handled, PyInv, OwnIsReplaced
<1>14. (checked => pySignal.tripped) /\ (s.recorded => pySignal.tripped \/ pySignal.recorded)
  BY <1>3, <1>8, <1>9 DEF Handled
<1>15. ends => pyCount.arrived # 0
  BY <1>14 DEF PyInv, NowhereAtFirst
<1>16. ~ends => ~pyCount'.owed
  <2> SUFFICES ASSUME ~ends, pyCount.owed PROVE ~pyCount'.owed
    BY <1>11
  <2>1. pySignal.tripped \/ pySignal.recorded
    BY <1>7 DEF PyInv, OwedIsOnItsWay, InterruptedInTime, Releasing
  <2>2. ~pySignal.recorded
    BY <1>3, <1>8, <1>9, <1>13 DEF Handled
  <2>3. pySignal.handler # "own"
    BY <1>3, <1>8, <1>9, <1>13, <2>1, <2>2 DEF Handled
  <2>4. pySignal.handler # "default"
    BY <1>3, <1>8, <1>9, <2>1, <2>2 DEF Handled
  <2>5. pySignal.handler = "application" /\ pySignal.tripped
    BY <2>1, <2>2, <2>3, <2>4 DEF PyInv, PyTyped, Signals
  <2>6. QED
    BY <1>8, <1>9, <1>11, <2>5 DEF Handled
<1>17. ends => (pySignal'.recorded => pySignal'.interrupted)
  BY <1>3, <1>8, <1>9, <1>10 DEF Handled, PyInv, OwnIsReplaced
<1> HIDE DEF ends
<1>18. PyTyped'
  BY <1>2, <1>10, <1>11, <1>12 DEF PyInv, PyTyped, Phases, Waits, NewWait
<1>19. OwnIsReplaced'
  BY <1>10, <1>13, <1>17 DEF PyInv, OwnIsReplaced
<1>20. HeldWhileWaiting'
  BY <1>2, <1>7, <1>10, <1>12 DEF HeldWhileWaiting
<1>21. InterruptedInTime'
  BY <1>2, <1>7, <1>10 DEF PyInv, InterruptedInTime
<1>22. OwedIsOnItsWay'
  BY <1>2, <1>16 DEF OwedIsOnItsWay
<1>23. InOnePlace'
  BY <1>2, <1>10, <1>13, <1>17 DEF PyInv, InOnePlace, Releasing
<1>24. NowhereAtFirst'
  BY <1>2, <1>10, <1>13, <1>15 DEF PyInv, NowhereAtFirst
<1>25. GivenBackAtTheEnd'
  BY <1>2, <1>7 DEF GivenBackAtTheEnd
<1>26. LifespanInTime'
  BY <1>2, <1>7, <1>12 DEF PyInv, LifespanInTime, Releasing
<1>27. FailuresAreInterrupts'
  BY <1>2, <1>7, <1>10, <1>11 DEF PyInv, FailuresAreInterrupts, NewWait
<1>28. QED
  BY <1>18, <1>19, <1>20, <1>21, <1>22, <1>23, <1>24, <1>25, <1>26, <1>27 DEF PyInv

-----------------------------------------------------------------------------
\* Every step keeps the invariant.
LEMMA PyNextInv == PyInv /\ [PyNext]_pyVars => PyInv'
<1> SUFFICES ASSUME PyInv, [PyNext]_pyVars PROVE PyInv'
  OBVIOUS
<1>1. CASE UNCHANGED pyVars
  BY <1>1 DEF pyVars, PyInv, PyTyped, OwnIsReplaced, HeldWhileWaiting, InterruptedInTime,
     OwedIsOnItsWay, InOnePlace, NowhereAtFirst, GivenBackAtTheEnd, LifespanInTime,
     FailuresAreInterrupts
<1>2. QED
  BY <1>1, InterruptInv, SetsHandlerInv, OpensInv, StopsInv, WaitTurnInv, WaitEndsInv,
     StartedInv, TurnServingInv, EndsServingInv, ClosesInv, NotReplacedInv, ReadsRecordInv,
     LooksUpInv, ReplacesHandlerInv, GivesInterruptBackInv DEF PyNext, PyServes

\* Whenever the interrupts arrive: one that is owed to the caller is reported or
\* given back, a single one is reported once and leaves the handler as it was, and
\* the application is told of its end exactly if it has booted.
THEOREM ServingAlwaysEndsWell == PySpec => []ServingEndsWell
<1>1. PyInv => InterruptIsNotLost
  BY DEF PyInv, OwedIsOnItsWay, HeldWhileWaiting, InterruptIsNotLost, Releasing
<1>2. PyInv => ReportedOnce
  BY DEF PyInv, InOnePlace, ReportedOnce
<1>3. PyInv => HandlerIsGivenBack
  BY DEF PyInv, HeldWhileWaiting, GivenBackAtTheEnd, HandlerIsGivenBack
<1>4. PyInv => ToldOfTheEnd
  BY DEF PyInv, LifespanInTime, ToldOfTheEnd
<1>5. PyInv => NotEndedByASignal
  BY DEF PyInv, FailuresAreInterrupts, NotEndedByASignal
<1>6. PyInv => ServingEndsWell
  BY <1>1, <1>2, <1>3, <1>4, <1>5 DEF ServingEndsWell
<1>7. QED
  BY PyInitInv, PyNextInv, <1>6, PTL DEF PySpec

-----------------------------------------------------------------------------
(* The requests of the embedded WSGI handler.                              *)

WsgiFields == {"state", "location", "module", "headers", "environ", "keep", "length", "items", "envelope"}

\* What holds of the context of one request: while it is read the headers of the module are
\* its own, and the module it has found is still that of its location; once the application
\* was called it has both of its own; and it is kept only when its length is known.
ContextInv(r, c) ==
    /\ DOMAIN c = WsgiFields
    /\ c.location \in WsgiLocation /\ c.headers \in Nat
    /\ c.state = "none" => c.headers = 0
    /\ c.state = "reading" => /\ mpHeaders = [i \in 1 .. c.headers |-> r]
                              /\ c.module = 0 \/ (c.location = "sub" /\ c.module = mpModule["sub"])
    /\ c.state = "streaming" => /\ c.environ = [i \in 1 .. c.headers |-> r]
                                /\ c.envelope = [of |-> r, headers |-> <<r>>]
    /\ c.state \in {"streaming", "closing"} /\ c.keep => c.length # "none"
    /\ c.state = "kept" => c.length # "none"

\* What keeps the requests apart: one is read at a time, and no module that was freed is one
\* of the numbers to come, or that of both locations.
MpInv ==
    /\ DOMAIN mpContext = WsgiRequest
    /\ \A r \in WsgiRequest : ContextInv(r, mpContext[r])
    /\ \A q, r \in WsgiRequest : Reading(q) /\ Reading(r) => q = r
    /\ DOMAIN mpEnvelope = {"of", "headers"}
    /\ mpLoads \in Seq(Nat) /\ mpFile \in Nat
    /\ mpFreed \subseteq 1 .. Len(mpLoads)
    /\ mpModule \in [WsgiLocation -> 0 .. Len(mpLoads)]
    /\ \A l \in WsgiLocation : mpModule[l] \notin mpFreed
    /\ mpModule["main"] = mpModule["sub"] => mpModule["main"] = 0

\* The headers of the module are those of the request that is read.
HeadersAre(n, r) == [i \in 1 .. n |-> r]

\* One more of them.
LEMMA HeaderAdded ==
    ASSUME NEW n \in Nat, NEW r
    PROVE  Append([i \in 1 .. n |-> r], r) = [i \in 1 .. n + 1 |-> r]
<1>1. PICK t : t = [i \in 1 .. n |-> r]
  OBVIOUS
<1>2. t \in Seq({r}) /\ Len(t) = n /\ \A i \in 1 .. n : t[i] = r
  BY <1>1
<1>3. PICK u : u = Append(t, r)
  OBVIOUS
<1>4. u \in Seq({r}) /\ Len(u) = n + 1 /\ \A i \in 1 .. n + 1 : u[i] = r
  BY <1>2, <1>3
<1>5. u = [i \in 1 .. n + 1 |-> r]
  BY <1>4
<1>. QED BY <1>1, <1>3, <1>5

\* Nothing of the request that is changed concerns the others.
LEMMA OneContext ==
    ASSUME MpInv, NEW r \in WsgiRequest, NEW c, ContextInv(r, c)',
           mpContext' = [mpContext EXCEPT ![r] = c],
           \A q \in WsgiRequest : q # r /\ Reading(q) =>
                c.state # "reading" /\ mpHeaders' = mpHeaders /\ mpModule'["sub"] = mpModule["sub"],
           DOMAIN mpEnvelope' = {"of", "headers"},
           mpLoads' \in Seq(Nat), mpFile' \in Nat, mpFreed' \subseteq 1 .. Len(mpLoads'),
           mpModule' \in [WsgiLocation -> 0 .. Len(mpLoads')],
           \A l \in WsgiLocation : mpModule'[l] \notin mpFreed',
           mpModule'["main"] = mpModule'["sub"] => mpModule'["main"] = 0
    PROVE  MpInv'
<1>1. DOMAIN mpContext' = WsgiRequest /\ mpContext'[r] = c /\ \A q \in WsgiRequest : q # r => mpContext'[q] = mpContext[q]
  BY DEF MpInv
<1>2. ASSUME NEW q \in WsgiRequest PROVE ContextInv(q, mpContext[q])' 
  <2>1. CASE q = r
    BY <1>1, <2>1 DEF ContextInv
  <2>2. CASE q # r
    <3>1. ContextInv(q, mpContext[q])
      BY DEF MpInv
    <3>. QED BY <1>1, <2>2, <3>1 DEF ContextInv, Reading
  <2>. QED BY <2>1, <2>2
<1>3. ASSUME NEW p \in WsgiRequest, NEW q \in WsgiRequest, Reading(p)', Reading(q)' PROVE p = q
  BY <1>1, <1>3 DEF MpInv, Reading
<1>. QED BY <1>1, <1>2, <1>3 DEF MpInv

\* What is called is not what was freed: the module of the location, or one with a number
\* that no other had.
LEMMA CalledIsHeld ==
    ASSUME MpInv, NEW r \in WsgiRequest, Reading(r), NEW l, l = mpContext[r].location,
           NEW m, m = ModuleOf(mpContext[r])
    PROVE  /\ l \in WsgiLocation /\ (m = 0 \/ m = mpModule[l])
           /\ m \in 0 .. Len(mpLoads)
           /\ m # 0 => \A k \in WsgiLocation : k # l => mpModule[k] # m
<1>1. /\ l \in WsgiLocation
      /\ mpContext[r].module = 0 \/ (l = "sub" /\ mpContext[r].module = mpModule["sub"])
  BY DEF MpInv, ContextInv, Reading
<1>2. m = 0 \/ m = mpModule[l]
  BY <1>1 DEF ModuleOf, WsgiLocation
<1>3. Len(mpLoads) \in Nat /\ mpModule[l] \in 0 .. Len(mpLoads)
  BY <1>1 DEF MpInv
<1>4. m # 0 => \A k \in WsgiLocation : k # l => mpModule[k] # m
  BY <1>1, <1>2 DEF MpInv, WsgiLocation
<1>. QED BY <1>1, <1>2, <1>3, <1>4

\* The modules after a call, or after one that fails.
LEMMA ModulesAfterCall ==
    ASSUME MpInv, NEW r \in WsgiRequest, Reading(r), NEW l, l = mpContext[r].location,
           NEW m, m = ModuleOf(mpContext[r]), mpFreed' = ReleasesModule(l, m), mpFile' = mpFile,
           \/ /\ mpLoads' = IF LoadedNow(l, m) THEN Append(mpLoads, mpFile) ELSE mpLoads
              /\ mpModule' = [mpModule EXCEPT ![l] = ModuleCalled(l, m)]
           \/ LoadedNow(l, m) /\ mpLoads' = mpLoads /\ mpModule' = [mpModule EXCEPT ![l] = 0]
    PROVE  /\ mpLoads' \in Seq(Nat) /\ mpFile' \in Nat /\ mpFreed' \subseteq 1 .. Len(mpLoads')
           /\ mpModule' \in [WsgiLocation -> 0 .. Len(mpLoads')]
           /\ \A k \in WsgiLocation : mpModule'[k] \notin mpFreed'
           /\ mpModule'["main"] = mpModule'["sub"] => mpModule'["main"] = 0
<1>1. /\ l \in WsgiLocation /\ (m = 0 \/ m = mpModule[l]) /\ m \in 0 .. Len(mpLoads)
      /\ m # 0 => \A k \in WsgiLocation : k # l => mpModule[k] # m
  BY CalledIsHeld
<1>2. PICK N : N = Len(mpLoads) /\ N \in Nat
  BY DEF MpInv
<1>3. /\ mpFreed' \subseteq 1 .. N /\ mpFreed' \subseteq mpFreed \cup {m}
      /\ ~ LoadedNow(l, m) => mpFreed' = mpFreed
  <2>1. mpFreed \subseteq 1 .. N
    BY <1>2 DEF MpInv
  <2>2. CASE Reloads(l, m)
    <3>1. m \in 1 .. N
      BY <1>1, <1>2, <2>2 DEF Reloads
    <3>2. mpFreed' = mpFreed \cup {m} /\ LoadedNow(l, m)
      BY <2>2 DEF ReleasesModule, LoadedNow
    <3>. QED BY <2>1, <3>1, <3>2
  <2>3. CASE ~ Reloads(l, m)
    BY <2>1, <2>3 DEF ReleasesModule
  <2>. QED BY <2>2, <2>3
<1>4. /\ mpModule \in [WsgiLocation -> 0 .. N] /\ mpLoads \in Seq(Nat) /\ mpFile \in Nat
      /\ \A k \in WsgiLocation : mpModule[k] \notin mpFreed
      /\ mpModule["main"] = mpModule["sub"] => mpModule["main"] = 0
  BY <1>2 DEF MpInv
<1>5. \A k \in WsgiLocation : k # l => mpModule[k] \notin mpFreed'
  <2>1. 0 \notin mpFreed'
    BY <1>3
  <2>. QED BY <1>1, <1>3, <1>4, <2>1
<1>6. /\ "main" \in WsgiLocation /\ "sub" \in WsgiLocation
      /\ l = "main" \/ l = "sub"
  BY <1>1 DEF WsgiLocation
<1>7. CASE LoadedNow(l, m) /\ mpLoads' = mpLoads /\ mpModule' = [mpModule EXCEPT ![l] = 0]
  <2>1. /\ mpModule'[l] = 0 /\ \A k \in WsgiLocation : k # l => mpModule'[k] = mpModule[k]
        /\ mpModule' \in [WsgiLocation -> 0 .. N]
    BY <1>1, <1>2, <1>4, <1>7
  <2>2. 0 \notin mpFreed'
    BY <1>3
  <2>. QED BY <1>2, <1>3, <1>4, <1>5, <1>6, <1>7, <2>1, <2>2
<1>8. CASE LoadedNow(l, m) /\ mpLoads' = Append(mpLoads, mpFile)
           /\ mpModule' = [mpModule EXCEPT ![l] = ModuleCalled(l, m)]
  <2>1. Len(mpLoads') = N + 1 /\ mpLoads' \in Seq(Nat) /\ ModuleCalled(l, m) = N + 1
    BY <1>2, <1>4, <1>8 DEF ModuleCalled
  <2>2. /\ mpModule'[l] = N + 1 /\ \A k \in WsgiLocation : k # l => mpModule'[k] = mpModule[k]
    BY <1>1, <1>4, <1>8, <2>1
  <2>3. mpModule' \in [WsgiLocation -> 0 .. N + 1]
    <3>1. N + 1 \in 0 .. N + 1 /\ 0 .. N \subseteq 0 .. N + 1
      BY <1>2
    <3>. QED BY <1>4, <1>8, <2>1, <3>1
  <2>4. N + 1 \notin mpFreed' /\ \A k \in WsgiLocation : mpModule[k] # N + 1
    BY <1>2, <1>3, <1>4
  <2>5. mpFreed' \subseteq 1 .. N + 1
    BY <1>2, <1>3
  <2>. QED BY <1>4, <1>5, <1>6, <2>1, <2>2, <2>3, <2>4, <2>5
<1>9. CASE ~ LoadedNow(l, m) /\ mpLoads' = mpLoads /\ mpModule' = [mpModule EXCEPT ![l] = ModuleCalled(l, m)]
  <2>1. ModuleCalled(l, m) = m /\ m # 0 /\ m = mpModule[l]
    BY <1>1, <1>9 DEF ModuleCalled, LoadedNow
  <2>2. mpModule' = mpModule
    BY <1>4, <1>9, <2>1
  <2>. QED BY <1>2, <1>3, <1>4, <1>9, <2>2
<1>. QED BY <1>7, <1>8, <1>9

\* What the invariant says of the modules.
ModulesSound ==
    /\ mpLoads \in Seq(Nat) /\ mpFile \in Nat /\ mpFreed \subseteq 1 .. Len(mpLoads)
    /\ mpModule \in [WsgiLocation -> 0 .. Len(mpLoads)]
    /\ \A k \in WsgiLocation : mpModule[k] \notin mpFreed
    /\ mpModule["main"] = mpModule["sub"] => mpModule["main"] = 0

\* Where neither the modules nor the envelope change it still does.
LEMMA FixedKept ==
    ASSUME MpInv, UNCHANGED <<mpEnvelope, mpModule, mpLoads, mpFreed, mpFile>>
    PROVE  /\ DOMAIN mpEnvelope' = {"of", "headers"}
           /\ mpLoads' \in Seq(Nat) /\ mpFile' \in Nat /\ mpFreed' \subseteq 1 .. Len(mpLoads')
           /\ mpModule' \in [WsgiLocation -> 0 .. Len(mpLoads')]
           /\ \A l \in WsgiLocation : mpModule'[l] \notin mpFreed'
           /\ mpModule'["main"] = mpModule'["sub"] => mpModule'["main"] = 0
BY DEF MpInv

\* Every step keeps the invariant, where the headers of one request never arrive among those
\* of another and no application starts its response in the iteration.
LEMMA MpStep ==
    ASSUME MpInv, ~WsgiInterleaved, ~WsgiLazy, [MpNext]_mpVars
    PROVE  MpInv'
<1>1. ASSUME NEW r \in WsgiRequest, Begins(r) PROVE MpInv'
  <2>1. /\ ~\E q \in WsgiRequest : Reading(q)
        /\ mpHeaders' = <<>> /\ mpEnvelope' = mpEnvelope /\ mpModule' = mpModule /\ mpLoads' = mpLoads
        /\ mpFreed' = mpFreed /\ mpFile' = mpFile
    BY <1>1 DEF Begins, HeadersOfContext
  <2>2. PICK l \in WsgiLocation, keep \in BOOLEAN :
           mpContext' = [mpContext EXCEPT ![r].state = "reading", ![r].location = l, ![r].keep = keep,
                           ![r].module = IF l = "sub" THEN mpModule["sub"] ELSE 0]
    BY <1>1 DEF Begins
  <2>3. ContextInv(r, mpContext[r]) /\ mpContext[r].state = "none" /\ DOMAIN mpContext = WsgiRequest
    BY <1>1 DEF MpInv, Begins
  <2>4. PICK c : c = [mpContext[r] EXCEPT !.state = "reading", !.location = l, !.keep = keep,
                           !.module = IF l = "sub" THEN mpModule["sub"] ELSE 0]
    OBVIOUS
  <2>5. mpContext' = [mpContext EXCEPT ![r] = c]
    BY <2>2, <2>3, <2>4
  <2>6. /\ DOMAIN c = WsgiFields /\ c.state = "reading" /\ c.location = l /\ c.headers = mpContext[r].headers
        /\ c.module = IF l = "sub" THEN mpModule["sub"] ELSE 0
    BY <2>3, <2>4 DEF ContextInv, WsgiFields
  <2>7. mpHeaders' = [i \in 1 .. c.headers |-> r]
    <3>1. c.headers = 0
      BY <2>3, <2>6 DEF ContextInv
    <3>2. <<>> = [i \in 1 .. 0 |-> r]
      OBVIOUS
    <3>. QED BY <2>1, <3>1, <3>2
  <2>8. ContextInv(r, c)'
    BY <2>1, <2>3, <2>6, <2>7 DEF ContextInv, WsgiFields
  <2>. QED BY <2>1, <2>5, <2>8, OneContext, FixedKept DEF Reading
<1>2. ASSUME NEW r \in WsgiRequest, HeaderLine(r) PROVE MpInv'
  <2>1. /\ Reading(r) /\ mpHeaders' = Append(mpHeaders, r)
        /\ mpContext' = [mpContext EXCEPT ![r].headers = @ + 1]
        /\ mpEnvelope' = mpEnvelope /\ mpModule' = mpModule /\ mpLoads' = mpLoads
        /\ mpFreed' = mpFreed /\ mpFile' = mpFile
    BY <1>2 DEF HeaderLine
  <2>2. ContextInv(r, mpContext[r]) /\ mpContext[r].state = "reading" /\ DOMAIN mpContext = WsgiRequest
    BY <2>1 DEF MpInv, Reading
  <2>3. PICK c : c = [mpContext[r] EXCEPT !.headers = @ + 1]
    OBVIOUS
  <2>4. mpContext' = [mpContext EXCEPT ![r] = c]
    BY <2>1, <2>2, <2>3
  <2>5. /\ DOMAIN c = WsgiFields /\ c.state = "reading" /\ c.location = mpContext[r].location
        /\ c.headers = mpContext[r].headers + 1 /\ c.module = mpContext[r].module
    BY <2>2, <2>3 DEF ContextInv, WsgiFields
  <2>6. mpHeaders' = [i \in 1 .. c.headers |-> r]
    <3>1. mpHeaders = [i \in 1 .. mpContext[r].headers |-> r] /\ mpContext[r].headers \in Nat
      BY <2>2 DEF ContextInv
    <3>. QED BY <2>1, <2>5, <3>1, HeaderAdded
  <2>7. ContextInv(r, c)'
    BY <2>1, <2>2, <2>5, <2>6 DEF ContextInv
  <2>8. \A q \in WsgiRequest : Reading(q) => q = r
    BY <2>1 DEF MpInv
  <2>. QED BY <2>1, <2>4, <2>7, <2>8, OneContext, FixedKept
<1>3. ASSUME NEW r \in WsgiRequest, CallsApplication(r) PROVE MpInv'
  <2>1. PICK l, m : l = mpContext[r].location /\ m = ModuleOf(mpContext[r])
    OBVIOUS
  <2>2. /\ Reading(r) /\ mpFreed' = ReleasesModule(l, m) /\ mpFile' = mpFile /\ mpHeaders' = mpHeaders
        /\ mpLoads' = IF LoadedNow(l, m) THEN Append(mpLoads, mpFile) ELSE mpLoads
        /\ mpModule' = [mpModule EXCEPT ![l] = ModuleCalled(l, m)]
    BY <1>3, <2>1 DEF CallsApplication
  <2>3. ModulesSound'
    BY <2>1, <2>2, ModulesAfterCall DEF ModulesSound
  <2>4. \A q \in WsgiRequest : q # r => ~ Reading(q)
    BY <2>2 DEF MpInv
  <2>5. /\ ContextInv(r, mpContext[r]) /\ mpContext[r].state = "reading" /\ DOMAIN mpContext = WsgiRequest
        /\ DOMAIN mpContext[r] = WsgiFields /\ DOMAIN mpEnvelope = {"of", "headers"}
        /\ r \in Nat
    BY <2>2, ModPythonAssumption DEF MpInv, Reading, ContextInv
  <2>6. PICK in : in = [mpContext[r] EXCEPT !.module = 0, !.environ = EnvironOfTheRequest]
    OBVIOUS
  <2>7. /\ DOMAIN in = WsgiFields /\ in.location = mpContext[r].location /\ in.headers = mpContext[r].headers
        /\ in.environ = [i \in 1 .. mpContext[r].headers |-> r]
    <3>1. mpHeaders = [i \in 1 .. mpContext[r].headers |-> r]
      BY <2>5 DEF ContextInv
    <3>. QED BY <2>5, <2>6, <3>1 DEF WsgiFields, EnvironOfTheRequest
  <2>8. DOMAIN EnvelopeEmptied = {"of", "headers"} /\ EnvelopeEmptied.headers = <<>>
    BY <2>5 DEF EnvelopeEmptied
  <2>9. StartResponse(EnvelopeEmptied, r) = [of |-> r, headers |-> <<r>>]
    BY <2>8 DEF StartResponse
  <2>10. CASE /\ mpEnvelope' \in {EnvelopeEmptied, StartResponse(EnvelopeEmptied, r)}
              /\ mpContext' = [mpContext EXCEPT ![r] = [in EXCEPT !.state = "closing", !.length = "size"]]
    <3>1. PICK c : c = [in EXCEPT !.state = "closing", !.length = "size"]
      OBVIOUS
    <3>2. /\ DOMAIN c = WsgiFields /\ c.state = "closing" /\ c.length = "size"
          /\ c.location = mpContext[r].location /\ c.headers = mpContext[r].headers
      BY <2>7, <3>1 DEF WsgiFields
    <3>3. ContextInv(r, c)'
      BY <2>5, <3>2 DEF ContextInv
    <3>4. DOMAIN mpEnvelope' = {"of", "headers"}
      BY <2>8, <2>9, <2>10
    <3>5. mpContext' = [mpContext EXCEPT ![r] = c]
      BY <2>10, <3>1
    <3>. QED BY <2>3, <2>4, <3>3, <3>4, <3>5, OneContext DEF ModulesSound
  <2>11. ASSUME NEW items \in 0 .. MostItems, NEW own \in BOOLEAN, NEW sequence \in BOOLEAN,
                NEW length, length = AnnouncedBy(own, items, sequence),
                mpEnvelope' = StartResponse(EnvelopeEmptied, r),
                mpContext' = [mpContext EXCEPT ![r] =
                     [in EXCEPT !.state = "streaming", !.items = items, !.length = length,
                                !.envelope = StartResponse(EnvelopeEmptied, r),
                                !.keep = Kept(mpContext[r].keep, length)]]
         PROVE MpInv'
    <3>1. PICK e : e = StartResponse(EnvelopeEmptied, r)
      OBVIOUS
    <3>2. PICK c : c = [in EXCEPT !.state = "streaming", !.items = items, !.length = length,
                                !.envelope = e, !.keep = Kept(mpContext[r].keep, length)]
      OBVIOUS
    <3>3. /\ DOMAIN c = WsgiFields /\ c.state = "streaming" /\ c.length = length /\ c.envelope = e
          /\ c.keep = Kept(mpContext[r].keep, length) /\ c.environ = in.environ
          /\ c.location = mpContext[r].location /\ c.headers = mpContext[r].headers
      BY <2>7, <3>2 DEF WsgiFields
    <3>4. c.keep => c.length # "none"
      BY <3>3 DEF Kept
    <3>5. ContextInv(r, c)'
      BY <2>5, <2>7, <2>9, <3>1, <3>3, <3>4 DEF ContextInv
    <3>6. DOMAIN mpEnvelope' = {"of", "headers"}
      BY <2>9, <2>11
    <3>7. mpContext' = [mpContext EXCEPT ![r] = c]
      BY <2>11, <3>1, <3>2
    <3>8. c.state # "reading"
      BY <3>3
    <3>. QED BY <2>3, <2>4, <3>5, <3>6, <3>7, <3>8, OneContext DEF ModulesSound
  <2>. QED BY <1>3, <2>1, <2>6, <2>10, <2>11, <2>5, ZenonT(30) DEF CallsApplication
<1>4. ASSUME NEW r \in WsgiRequest, Fails(r) PROVE MpInv'
  <2>1. PICK l, m : l = mpContext[r].location /\ m = ModuleOf(mpContext[r])
    OBVIOUS
  <2>2. /\ Reading(r) /\ mpFreed' = ReleasesModule(l, m) /\ mpFile' = mpFile /\ mpHeaders' = mpHeaders
        /\ mpEnvelope' = mpEnvelope
        /\ mpContext' = [mpContext EXCEPT ![r].state = "closing", ![r].module = 0, ![r].keep = FALSE]
        /\ \/ /\ mpLoads' = IF LoadedNow(l, m) THEN Append(mpLoads, mpFile) ELSE mpLoads
              /\ mpModule' = [mpModule EXCEPT ![l] = ModuleCalled(l, m)]
           \/ LoadedNow(l, m) /\ mpLoads' = mpLoads /\ mpModule' = [mpModule EXCEPT ![l] = 0]
    BY <1>4, <2>1 DEF Fails
  <2>3. ModulesSound'
    BY <2>1, <2>2, ModulesAfterCall DEF ModulesSound
  <2>4. \A q \in WsgiRequest : q # r => ~ Reading(q)
    BY <2>2 DEF MpInv
  <2>5. /\ ContextInv(r, mpContext[r]) /\ mpContext[r].state = "reading" /\ DOMAIN mpContext = WsgiRequest
        /\ DOMAIN mpContext[r] = WsgiFields /\ DOMAIN mpEnvelope = {"of", "headers"}
    BY <2>2 DEF MpInv, Reading, ContextInv
  <2>6. PICK c : c = [mpContext[r] EXCEPT !.state = "closing", !.module = 0, !.keep = FALSE]
    OBVIOUS
  <2>7. mpContext' = [mpContext EXCEPT ![r] = c]
    BY <2>2, <2>5, <2>6
  <2>8. /\ DOMAIN c = WsgiFields /\ c.state = "closing" /\ c.keep = FALSE
        /\ c.location = mpContext[r].location /\ c.headers = mpContext[r].headers
    BY <2>5, <2>6 DEF WsgiFields
  <2>9. ContextInv(r, c)'
    BY <2>5, <2>8 DEF ContextInv
  <2>. QED BY <2>2, <2>3, <2>4, <2>5, <2>7, <2>9, OneContext DEF ModulesSound
<1>5. ASSUME NEW r \in WsgiRequest, NEW c, mpContext[r].state # "none", ContextInv(r, c)',
             mpContext' = [mpContext EXCEPT ![r] = c], c.state # "reading",
             UNCHANGED <<mpHeaders, mpEnvelope, mpModule, mpLoads, mpFreed, mpFile>>
      PROVE MpInv'
  BY <1>5, OneContext, FixedKept DEF Reading
<1>6. ASSUME NEW r \in WsgiRequest, NextItem(r) PROVE MpInv'
  <2>1. /\ mpContext[r].state = "streaming" /\ ContextInv(r, mpContext[r]) /\ DOMAIN mpContext = WsgiRequest
        /\ UNCHANGED <<mpHeaders, mpEnvelope, mpModule, mpLoads, mpFreed, mpFile>>
    BY <1>6 DEF NextItem, MpInv
  <2>2. CASE mpContext[r].items > 0
    <3>1. PICK c : c = [mpContext[r] EXCEPT !.items = @ - 1]
      OBVIOUS
    <3>2. mpContext' = [mpContext EXCEPT ![r] = c]
      BY <1>6, <2>1, <2>2, <3>1 DEF NextItem
    <3>3. ContextInv(r, c)'
      BY <2>1, <3>1 DEF ContextInv, WsgiFields
    <3>4. c.state = "streaming"
      BY <2>1, <3>1 DEF ContextInv, WsgiFields
    <3>. QED BY <1>5, <2>1, <3>2, <3>3, <3>4
  <2>3. CASE ~ (mpContext[r].items > 0)
    <3>1. PICK c : c = [mpContext[r] EXCEPT !.state = "closing"]
      OBVIOUS
    <3>2. mpContext' = [mpContext EXCEPT ![r] = c]
      BY <1>6, <2>1, <2>3, <3>1 DEF NextItem
    <3>3. ContextInv(r, c)'
      BY <2>1, <3>1 DEF ContextInv, WsgiFields
    <3>4. c.state = "closing"
      BY <2>1, <3>1 DEF ContextInv, WsgiFields
    <3>. QED BY <1>5, <2>1, <3>2, <3>3, <3>4
  <2>. QED BY <2>2, <2>3
<1>7. ASSUME NEW r \in WsgiRequest, NEW state \in {"kept", "closed"},
             state = "kept" => mpContext[r].state = "closing" /\ mpContext[r].keep,
             mpContext[r].state # "none", mpContext' = [mpContext EXCEPT ![r] = Over(r, state)],
             UNCHANGED <<mpHeaders, mpEnvelope, mpModule, mpLoads, mpFreed, mpFile>>
      PROVE MpInv'
  <2>1. PICK c : c = Over(r, state)
    OBVIOUS
  <2>2. /\ DOMAIN c = WsgiFields /\ c.state = state /\ c.length = mpContext[r].length
        /\ c.headers = 0 /\ c.location = "main"
    BY <2>1 DEF Over, NewWsgiContext, WsgiFields
  <2>3. state = "kept" => mpContext[r].length # "none"
    BY <1>7 DEF MpInv, ContextInv
  <2>4. ContextInv(r, c)'
    BY <1>7, <2>2, <2>3 DEF ContextInv, WsgiLocation
  <2>5. c.state # "reading"
    BY <2>2
  <2>. QED BY <1>5, <1>7, <2>1, <2>4, <2>5
<1>8. ASSUME NEW r \in WsgiRequest, Responded(r) \/ ConnectionGoes(r) PROVE MpInv'
  <2>1. CASE Responded(r)
    <3>1. CASE mpContext[r].keep
      BY <1>7, <2>1, <3>1 DEF Responded
    <3>2. CASE ~ mpContext[r].keep
      BY <1>7, <2>1, <3>2 DEF Responded
    <3>. QED BY <3>1, <3>2
  <2>2. CASE ConnectionGoes(r)
    BY <1>7, <2>2 DEF ConnectionGoes
  <2>. QED BY <1>8, <2>1, <2>2
<1>9. CASE FileChanges
  BY <1>9 DEF FileChanges, MpInv, ContextInv, Reading
<1>10. CASE UNCHANGED mpVars
  BY <1>10 DEF mpVars, MpInv, ContextInv, Reading
<1>. QED BY <1>1, <1>2, <1>3, <1>4, <1>6, <1>8, <1>9, <1>10 DEF MpNext

\* It holds at the start.
LEMMA MpStart == MpInit => MpInv
<1>1. SUFFICES ASSUME MpInit PROVE MpInv
  OBVIOUS
<1>2. \A r \in WsgiRequest : mpContext[r] = NewWsgiContext
  BY <1>1 DEF MpInit
<1>3. \A r \in WsgiRequest : ContextInv(r, mpContext[r])
  BY <1>2 DEF ContextInv, NewWsgiContext, WsgiFields, WsgiLocation
<1>. QED BY <1>1, <1>2, <1>3 DEF MpInit, MpInv, Reading, NewWsgiContext, WsgiLocation

\* What the run checks follows from it.
LEMMA MpInvIsEnough == MpInv => WsgiIsOfTheRequest
<1>1. SUFFICES ASSUME MpInv PROVE WsgiIsOfTheRequest
  OBVIOUS
<1>2. \A r \in WsgiRequest : ContextInv(r, mpContext[r])
  BY <1>1 DEF MpInv
<1>3. EnvironIsOfTheRequest /\ EnvelopeIsOfTheRequest /\ KeptIsDelimited
  BY <1>2 DEF EnvironIsOfTheRequest, EnvelopeIsOfTheRequest, KeptIsDelimited, Streaming, ContextInv
<1>4. 0 \notin mpFreed
  BY <1>1 DEF MpInv
<1>5. ModulesAreHeld
  BY <1>1, <1>2, <1>4 DEF ModulesAreHeld, MpInv, ContextInv, WsgiLocation
<1>. QED BY <1>3, <1>5 DEF WsgiIsOfTheRequest

\* What a request is called with, and answered with, is its own, as long as the headers of
\* one do not arrive among those of another and no application starts its response late:
\* the headers, the envelope and the modules are globals of the module
\* (handler.c:216-275, 692-740, 760-772).
THEOREM TheWsgiRequestIsItsOwn ==
    ASSUME ~WsgiInterleaved, ~WsgiLazy
    PROVE  MpSpec => []WsgiIsOfTheRequest
<1>1. MpInv /\ [MpNext]_mpVars => MpInv'
  BY MpStep
<1>. QED BY <1>1, MpStart, MpInvIsEnough, PTL DEF MpSpec

-----------------------------------------------------------------------------
(***************************************************************************)
(* The request of Wsgi, gathered line by line.                             *)
(***************************************************************************)
WsLineType == [name : WsName \cup {NoName}, value : Nat]
WsPairType == (WsName \cup {NoName}) \X Nat

\* What the properties of Wsgi say of the lines of a request, of any lines.
OwnIn(lines, i) ==
    {k \in i..Len(lines) : lines[k].value # 0 /\ \A j \in i + 1..k : lines[j].name = NoName}
ValueIn(lines, i) ==
    IF OwnIn(lines, i) = {} THEN 0
    ELSE lines[CHOOSE k \in OwnIn(lines, i) : \A j \in OwnIn(lines, i) : k <= j].value
ValuedIn(lines) == {i \in DOMAIN lines : lines[i].name # NoName /\ ValueIn(lines, i) # 0}
KnownIn(lines) ==
    {i \in ValuedIn(lines) : Cardinality({j \in ValuedIn(lines) : j < i}) < WsMaxHeaders}
KnownOf(lines, n) == {i \in KnownIn(lines) : lines[i].name = n}
LinesOf(lines, n) == Those([i \in DOMAIN lines |-> i], KnownOf(lines, n))
PairsOf(pairs, n) == Those(pairs, {n} \X Nat)

\* The name of a last line that has no value, which a folded one may still bring.
Pending(lines) ==
    IF lines # <<>> /\ lines[Len(lines)].value = 0 THEN lines[Len(lines)].name ELSE NoName

\* A folded line has a value.
FoldedHaveOne(lines) == \A i \in 1..Len(lines) : lines[i].name = NoName => lines[i].value # 0

\* The pairs of each field are its lines, in their order and with their values, and the
\* field that waits is that of the last line.
GatheredOf(lines, pairs, field) ==
    /\ lines \in Seq(WsLineType)
    /\ FoldedHaveOne(lines)
    /\ pairs \in Seq(WsPairType)
    /\ Len(pairs) = IF Cardinality(ValuedIn(lines)) < WsMaxHeaders
                    THEN Cardinality(ValuedIn(lines)) ELSE WsMaxHeaders
    /\ Len(pairs) < WsMaxHeaders => field = Pending(lines)
    /\ \A n \in WsName :
          /\ Len(PairsOf(pairs, n)) = Len(LinesOf(lines, n))
          /\ \A k \in 1..Len(LinesOf(lines, n)) :
                PairsOf(pairs, n)[k][2] = ValueIn(lines, LinesOf(lines, n)[k])

\* The least of some numbers is the one that is chosen for it.
LEMMA ChosenIsLeast ==
    ASSUME NEW T, T \subseteq Nat, NEW x \in T, \A y \in T : x <= y
    PROVE  (CHOOSE k \in T : \A j \in T : k <= j) = x
<1>1. PICK k : k = (CHOOSE z \in T : \A j \in T : z <= j)
  OBVIOUS
<1>2. k \in T /\ \A j \in T : k <= j
  BY <1>1
<1>3. k <= x /\ x <= k /\ k \in Nat /\ x \in Nat
  BY <1>2
<1>. QED BY <1>1, <1>3

\* The lines that may have the value of one.
LEMMA OwnIs ==
    ASSUME NEW lines, NEW i \in Nat, NEW m \in Nat, Len(lines) = m
    PROVE  /\ OwnIn(lines, i) \subseteq Nat
           /\ \A k \in OwnIn(lines, i) : /\ k \in i..m /\ lines[k].value # 0
                                         /\ \A j \in i + 1..k : lines[j].name = NoName
           /\ \A k \in i..m : lines[k].value # 0 /\ (\A j \in i + 1..k : lines[j].name = NoName)
                                => k \in OwnIn(lines, i)
<1>1. \A k \in OwnIn(lines, i) : /\ k \in i..m /\ lines[k].value # 0
                                 /\ \A j \in i + 1..k : lines[j].name = NoName
  BY DEF OwnIn
<1>2. \A k \in i..m : k \in Nat
  OBVIOUS
<1>3. \A k \in i..m : lines[k].value # 0 /\ (\A j \in i + 1..k : lines[j].name = NoName)
                      => k \in OwnIn(lines, i)
  BY DEF OwnIn
<1>. QED BY <1>1, <1>2, <1>3

\* The value of a line is that of the first of its lines that has one.
LEMMA ValueIs ==
    ASSUME NEW lines, NEW i \in Nat, NEW x \in OwnIn(lines, i), \A y \in OwnIn(lines, i) : x <= y,
           Len(lines) \in Nat
    PROVE  ValueIn(lines, i) = lines[x].value
<1>. DEFINE T == OwnIn(lines, i)
<1>1. T \subseteq Nat
  BY OwnIs
<1>. HIDE DEF T
<1>2. (CHOOSE k \in T : \A j \in T : k <= j) = x
  BY <1>1, ChosenIsLeast DEF T
<1>. QED BY <1>2 DEF ValueIn, T

\* What a line adds to the lines before it.
LEMMA LineAdded ==
    ASSUME NEW lines \in Seq(WsLineType), NEW l \in WsLineType, NEW longer,
           longer = Append(lines, l)
    PROVE  /\ Len(lines) \in Nat /\ Len(longer) = Len(lines) + 1 /\ longer \in Seq(WsLineType)
           /\ DOMAIN longer = 1..Len(lines) + 1 /\ DOMAIN lines = 1..Len(lines)
           /\ longer[Len(lines) + 1] = l
           /\ \A i \in 1..Len(lines) : longer[i] = lines[i]
  OBVIOUS

\* The value of the line itself, and of those before it: a folded one brings the value of
\* the last, when that has none.
ValuesAfter(lines, l, longer, n, N) ==
    /\ ValueIn(longer, N) = l.value
    /\ \A i \in 1..n : ValueIn(longer, i) = IF i = n /\ lines[n].value = 0 /\ l.name = NoName
                                            THEN l.value ELSE ValueIn(lines, i)
    /\ n \in 1..n => ValueIn(lines, n) = lines[n].value

\* A line keeps its value when another one is added, but for the last that had none.
LEMMA ValuesGrow ==
    ASSUME NEW lines \in Seq(WsLineType), NEW l \in WsLineType, NEW longer,
           longer = Append(lines, l), FoldedHaveOne(lines),
           NEW n \in Nat, n = Len(lines), NEW N \in Nat, N = n + 1
    PROVE  ValuesAfter(lines, l, longer, n, N)
<1>1. N = n + 1
  OBVIOUS
<1>2. /\ n \in Nat /\ N \in Nat /\ Len(lines) = n /\ Len(longer) = N /\ longer[N] = l
      /\ \A i \in 1..n : longer[i] = lines[i]
      /\ N \in 1..N /\ \A i \in 1..N : i \in 1..n \/ i = N
  BY <1>1, LineAdded
<1>3. ValueIn(longer, N) = l.value
  <2>1. \A k \in OwnIn(longer, N) : k = N /\ longer[k].value # 0
    <3>1. ASSUME NEW k \in OwnIn(longer, N) PROVE k \in N..N /\ longer[k].value # 0
      BY <1>2 DEF OwnIn
    <3>. QED BY <1>2, <3>1
  <2>2. CASE l.value = 0
    <3>1. OwnIn(longer, N) = {}
      BY <1>2, <2>1, <2>2
    <3>. QED BY <2>2, <3>1 DEF ValueIn
  <2>3. CASE l.value # 0
    <3>1. N \in N..N /\ \A j \in N + 1..N : longer[j].name = NoName
      BY <1>2
    <3>2. N \in OwnIn(longer, N)
      BY <1>2, <2>3, <3>1, OwnIs
    <3>3. \A y \in OwnIn(longer, N) : N <= y
      BY <1>2, <2>1
    <3>4. ValueIn(longer, N) = longer[N].value
      BY <1>2, <3>2, <3>3, ValueIs
    <3>. QED BY <1>2, <3>4
  <2>. QED BY <2>2, <2>3
<1>4. ASSUME n \in 1..n PROVE ValueIn(lines, n) = lines[n].value
  <2>1. CASE lines[n].value = 0
    <3>1. OwnIn(lines, n) = {}
      BY <1>2, <2>1, OwnIs
    <3>. QED BY <2>1, <3>1 DEF ValueIn
  <2>2. CASE lines[n].value # 0
    <3>1. n \in OwnIn(lines, n) /\ \A y \in OwnIn(lines, n) : n <= y
      BY <1>2, <2>2, OwnIs
    <3>. QED BY <1>2, <3>1, ValueIs
  <2>. QED BY <2>1, <2>2
<1>5. ASSUME NEW i \in 1..n
      PROVE  ValueIn(longer, i) = IF i = n /\ lines[n].value = 0 /\ l.name = NoName THEN l.value
                                  ELSE ValueIn(lines, i)
  <2>1. /\ i \in Nat /\ i \in 1..N /\ OwnIn(lines, i) \subseteq Nat
        /\ OwnIn(longer, i) \subseteq Nat
    <3>1. i \in Nat
      OBVIOUS
    <3>2. OwnIn(lines, i) \subseteq Nat /\ OwnIn(longer, i) \subseteq Nat
      BY <1>2, <3>1, OwnIs
    <3>. QED BY <1>1, <1>2, <3>1, <3>2
  <2>2. ASSUME NEW k \in OwnIn(lines, i) PROVE k \in i..n /\ k \in OwnIn(longer, i)
    <3>1. k \in i..n /\ lines[k].value # 0 /\ \A j \in i + 1..k : lines[j].name = NoName
      BY <1>2, <2>1, OwnIs
    <3>2. k \in i..N /\ k \in 1..n /\ \A j \in i + 1..k : j \in 1..n
      BY <1>1, <1>2, <2>1, <3>1
    <3>3. longer[k].value # 0 /\ \A j \in i + 1..k : longer[j].name = NoName
      BY <1>2, <3>1, <3>2
    <3>. QED BY <1>2, <2>1, <3>1, <3>2, <3>3, OwnIs
  <2>3. ASSUME NEW k \in OwnIn(longer, i), k # N PROVE k \in OwnIn(lines, i)
    <3>1. k \in i..N /\ longer[k].value # 0 /\ \A j \in i + 1..k : longer[j].name = NoName
      BY <1>2, <2>1 DEF OwnIn
    <3>2. k \in i..n /\ k \in 1..n /\ \A j \in i + 1..k : j \in 1..n
      BY <1>1, <1>2, <2>1, <2>3, <3>1
    <3>3. lines[k].value # 0 /\ \A j \in i + 1..k : lines[j].name = NoName
      BY <1>2, <3>1, <3>2
    <3>. QED BY <1>2, <2>1, <3>2, <3>3, OwnIs
  <2>4. CASE OwnIn(lines, i) # {}
    <3>1. PICK x \in OwnIn(lines, i) : \A y \in OwnIn(lines, i) : x <= y
      BY <2>1, <2>4, HasLeast
    <3>2. x \in i..n /\ x \in OwnIn(longer, i) /\ x \in 1..n /\ x <= N
      BY <1>1, <1>2, <2>1, <2>2
    <3>3. \A y \in OwnIn(longer, i) : x <= y
      BY <2>3, <3>1, <3>2
    <3>4. ValueIn(longer, i) = longer[x].value /\ ValueIn(lines, i) = lines[x].value
      BY <1>2, <2>1, <3>1, <3>2, <3>3, ValueIs
    <3>5. i = n => lines[n].value # 0
      <4>1. i = n => x = n
        BY <1>2, <3>2
      <4>2. lines[x].value # 0
        BY <1>2, <2>1, OwnIs
      <4>. QED BY <4>1, <4>2
    <3>. QED BY <1>2, <3>2, <3>4, <3>5
  <2>5. CASE OwnIn(lines, i) = {}
    <3>1. ValueIn(lines, i) = 0
      BY <2>5 DEF ValueIn
    <3>2. \A k \in OwnIn(longer, i) : k = N
      BY <2>3, <2>5
    <3>3. CASE i = n
      <4>1. n \in i..n /\ \A j \in i + 1..n : lines[j].name = NoName
        BY <1>2, <3>3
      <4>2. lines[n].value = 0
        <5>1. lines[n].value # 0 => n \in OwnIn(lines, i)
          BY <1>2, <2>1, <4>1, OwnIs
        <5>. QED BY <2>5, <5>1
      <4>3. N \in i..N /\ \A j \in i + 1..N : j = N
        BY <1>1, <1>2, <3>3
      <4>4. CASE l.name = NoName /\ l.value # 0
        <5>1. N \in OwnIn(longer, i)
          BY <1>2, <2>1, <4>3, <4>4, OwnIs
        <5>2. \A y \in OwnIn(longer, i) : N <= y
          BY <1>2, <3>2
        <5>3. ValueIn(longer, i) = longer[N].value
          BY <1>2, <2>1, <5>1, <5>2, ValueIs
        <5>. QED BY <1>2, <3>3, <4>2, <4>4, <5>3
      <4>5. CASE ~(l.name = NoName /\ l.value # 0)
        <5>1. N \in i + 1..N
          BY <1>1, <1>2, <3>3
        <5>2. ASSUME N \in OwnIn(longer, i)
              PROVE  longer[N].name = NoName /\ longer[N].value # 0
          <6>1. longer[N].value # 0 /\ \A j \in i + 1..N : longer[j].name = NoName
            BY <1>2, <2>1, <5>2, OwnIs, ZenonT(30)
          <6>. QED BY <5>1, <6>1
        <5>3. OwnIn(longer, i) = {}
          BY <1>2, <3>2, <4>5, <5>2
        <5>. QED BY <3>1, <4>5, <5>3 DEF ValueIn
      <4>. QED BY <4>4, <4>5
    <3>4. CASE i # n
      <4>1. ASSUME N \in OwnIn(longer, i) PROVE FALSE
        <5>1. ASSUME NEW j \in i + 1..N PROVE longer[j].name = NoName
          BY <1>2, <2>1, <4>1, OwnIs, ZenonT(30)
        <5>2. \A j \in i + 1..n : j \in 1..n /\ j \in i + 1..N
          BY <1>1, <1>2, <2>1
        <5>3. n \in i + 1..n /\ n \in i..n /\ n \in 1..n
          BY <1>2, <2>1, <3>4
        <5>4. \A j \in i + 1..n : lines[j].name = NoName
          BY <1>2, <5>1, <5>2
        <5>5. lines[n].value # 0
          BY <1>2, <5>3, <5>4 DEF FoldedHaveOne
        <5>6. n \in OwnIn(lines, i)
          BY <1>2, <2>1, <5>3, <5>4, <5>5, OwnIs
        <5>. QED BY <2>5, <5>6
      <4>2. OwnIn(longer, i) = {}
        BY <3>2, <4>1
      <4>. QED BY <3>1, <3>4, <4>2 DEF ValueIn
    <3>. QED BY <3>3, <3>4
  <2>. QED BY <2>4, <2>5
<1>. QED BY <1>3, <1>4, <1>5 DEF ValuesAfter

-----------------------------------------------------------------------------
(* What one more line does to the lines that have a value, and to those that *)
(* the request is known by.                                                  *)

\* The field that a value is for, and whether there is one for it.
FieldFor(lines, l) == IF l.name = NoName THEN Pending(lines) ELSE l.name
GainsOne(lines, l) == l.value # 0 /\ FieldFor(lines, l) # NoName

\* The line that gains a value.
Gaining(lines, l) == IF l.name = NoName THEN Len(lines) ELSE Len(lines) + 1

\* A line that is added lets one more have a value, itself or the last, or none.
LEMMA ValuedGrow ==
    ASSUME NEW lines \in Seq(WsLineType), NEW l \in WsLineType, NEW longer,
           longer = Append(lines, l), FoldedHaveOne(lines), NEW m, m = Gaining(lines, l)
    PROVE  /\ \A i \in ValuedIn(lines) : /\ ValueIn(longer, i) = ValueIn(lines, i)
                                         /\ longer[i].name = lines[i].name
                                         /\ i \in 1..Len(lines)
           /\ ~GainsOne(lines, l) => ValuedIn(longer) = ValuedIn(lines)
           /\ GainsOne(lines, l) =>
                 /\ m \in 1..Len(lines) + 1 /\ m \notin ValuedIn(lines)
                 /\ ValuedIn(longer) = ValuedIn(lines) \cup {m}
                 /\ \A i \in ValuedIn(lines) : i < m
                 /\ ValueIn(longer, m) = l.value /\ longer[m].name = FieldFor(lines, l)
<1>1. PICK n, N : n = Len(lines) /\ N = n + 1
  OBVIOUS
<1>2. /\ n \in Nat /\ N \in Nat /\ Len(longer) = N /\ longer[N] = l
      /\ DOMAIN lines = 1..n /\ DOMAIN longer = 1..N
      /\ \A i \in 1..n : longer[i] = lines[i]
      /\ N \in 1..N /\ N \notin 1..n /\ (\A i \in 1..N : i \in 1..n \/ i = N)
      /\ (\A i \in 1..n : i \in 1..N /\ i < N /\ (i = n \/ i < n))
  <2>1. Len(longer) = Len(lines) + 1
    BY LineAdded
  <2>. QED BY <1>1, <2>1, LineAdded
<1>3. /\ ValueIn(longer, N) = l.value
      /\ \A i \in 1..n : ValueIn(longer, i) = IF i = n /\ lines[n].value = 0 /\ l.name = NoName
                                              THEN l.value ELSE ValueIn(lines, i)
      /\ n \in 1..n => ValueIn(lines, n) = lines[n].value
  <2>1. ValuesAfter(lines, l, longer, n, N)
    BY <1>1, <1>2, ValuesGrow
  <2>. QED BY <2>1 DEF ValuesAfter
<1>4. /\ lines = <<>> <=> n = 0
      /\ n # 0 => n \in 1..n
  BY <1>1, <1>2
<1>5. Pending(lines) = IF n # 0 /\ lines[n].value = 0 THEN lines[n].name ELSE NoName
  BY <1>1, <1>4 DEF Pending
<1>6. n # 0 /\ lines[n].value = 0 => lines[n].name # NoName /\ n \notin ValuedIn(lines)
  <2>. HAVE n # 0 /\ lines[n].value = 0
  <2>1. lines[n].name # NoName
    BY <1>1, <1>4 DEF FoldedHaveOne
  <2>2. ValueIn(lines, n) = 0
    BY <1>3, <1>4
  <2>. QED BY <2>1, <2>2 DEF ValuedIn
<1>7. \A i \in 1..N : i \in ValuedIn(longer) <=> longer[i].name # NoName /\ ValueIn(longer, i) # 0
  BY <1>2 DEF ValuedIn
<1>8. \A i \in 1..n : i \in ValuedIn(lines) <=> lines[i].name # NoName /\ ValueIn(lines, i) # 0
  BY <1>2 DEF ValuedIn
<1>9. ValuedIn(longer) \subseteq 1..N /\ ValuedIn(lines) \subseteq 1..n
  BY <1>2 DEF ValuedIn
<1>10. \A i \in ValuedIn(lines) : /\ ValueIn(longer, i) = ValueIn(lines, i)
                                  /\ longer[i].name = lines[i].name
                                  /\ i \in 1..n
  <2>. SUFFICES ASSUME NEW i \in ValuedIn(lines)
                PROVE  /\ ValueIn(longer, i) = ValueIn(lines, i)
                       /\ longer[i].name = lines[i].name /\ i \in 1..n
    OBVIOUS
  <2>1. i \in 1..n
    BY <1>9
  <2>2. ~(i = n /\ lines[n].value = 0)
    BY <1>4, <1>6, <2>1, <1>2
  <2>. QED BY <1>2, <1>3, <2>1, <2>2
<1>11. CASE l.name = NoName
  <2>1. FieldFor(lines, l) = Pending(lines) /\ m = n
    BY <1>1, <1>11 DEF FieldFor, Gaining
  <2>2. N \notin ValuedIn(longer)
    BY <1>2, <1>7, <1>11
  <2>3. CASE n # 0 /\ lines[n].value = 0
    <3>1. /\ FieldFor(lines, l) = lines[n].name /\ lines[n].name # NoName /\ n \in 1..n
          /\ longer[n].name = lines[n].name /\ ValueIn(longer, n) = l.value
      BY <1>2, <1>3, <1>4, <1>5, <1>6, <1>11, <2>1, <2>3
    <3>2. \A i \in 1..n : i # n => (i \in ValuedIn(longer) <=> i \in ValuedIn(lines))
      BY <1>2, <1>3, <1>7, <1>8
    <3>3. n \in ValuedIn(longer) <=> l.value # 0
      BY <1>2, <1>7, <3>1
    <3>4. \A i \in ValuedIn(lines) : i \in 1..n /\ i # n
      BY <1>6, <1>9, <2>3
    <3>5. ~GainsOne(lines, l) => ValuedIn(longer) = ValuedIn(lines)
      BY <1>2, <1>6, <1>9, <2>2, <2>3, <3>1, <3>2, <3>3, <3>4 DEF GainsOne
    <3>6. GainsOne(lines, l) => ValuedIn(longer) = ValuedIn(lines) \cup {n}
      BY <1>2, <1>9, <2>2, <3>1, <3>2, <3>3, <3>4 DEF GainsOne
    <3>. QED BY <1>1, <1>2, <1>6, <1>10, <2>1, <2>3, <3>1, <3>4, <3>5, <3>6
  <2>4. CASE ~(n # 0 /\ lines[n].value = 0)
    <3>1. ~GainsOne(lines, l)
      BY <1>5, <2>1, <2>4 DEF GainsOne
    <3>2. \A i \in 1..n : i \in ValuedIn(longer) <=> i \in ValuedIn(lines)
      <4>1. \A i \in 1..n : ValueIn(longer, i) = ValueIn(lines, i)
        BY <1>3, <1>4, <2>4
      <4>. QED BY <1>2, <1>7, <1>8, <4>1
    <3>3. ValuedIn(longer) = ValuedIn(lines)
      BY <1>2, <1>9, <2>2, <3>2
    <3>. QED BY <1>1, <1>10, <3>1, <3>3
  <2>. QED BY <2>3, <2>4
<1>12. CASE l.name # NoName
  <2>1. FieldFor(lines, l) = l.name /\ m = N
    BY <1>1, <1>12 DEF FieldFor, Gaining
  <2>2. \A i \in 1..n : i \in ValuedIn(longer) <=> i \in ValuedIn(lines)
    <3>1. \A i \in 1..n : ValueIn(longer, i) = ValueIn(lines, i)
      BY <1>3, <1>12
    <3>. QED BY <1>2, <1>7, <1>8, <3>1
  <2>3. N \in ValuedIn(longer) <=> l.value # 0
    BY <1>2, <1>3, <1>7, <1>12
  <2>4. N \notin ValuedIn(lines) /\ \A i \in ValuedIn(lines) : i < N
    BY <1>2, <1>9
  <2>5. ~GainsOne(lines, l) => ValuedIn(longer) = ValuedIn(lines)
    BY <1>2, <1>9, <1>12, <2>1, <2>2, <2>3, <2>4 DEF GainsOne
  <2>6. GainsOne(lines, l) => ValuedIn(longer) = ValuedIn(lines) \cup {N}
    BY <1>2, <1>9, <2>1, <2>2, <2>3, <2>4 DEF GainsOne
  <2>. QED BY <1>1, <1>2, <1>3, <1>10, <2>1, <2>4, <2>5, <2>6
<1>. QED BY <1>11, <1>12

\* Below a line stand as many with a value as before.
LEMMA KnownGrow ==
    ASSUME NEW lines \in Seq(WsLineType), NEW l \in WsLineType, NEW longer,
           longer = Append(lines, l), FoldedHaveOne(lines), NEW m, m = Gaining(lines, l),
           WsMaxHeaders \in Nat
    PROVE  /\ IsFiniteSet(ValuedIn(lines)) /\ Cardinality(ValuedIn(lines)) \in Nat
           /\ Cardinality(ValuedIn(longer)) =
                 Cardinality(ValuedIn(lines)) + (IF GainsOne(lines, l) THEN 1 ELSE 0)
           /\ KnownIn(longer) =
                 IF GainsOne(lines, l) /\ Cardinality(ValuedIn(lines)) < WsMaxHeaders
                 THEN KnownIn(lines) \cup {m} ELSE KnownIn(lines)
<1>. DEFINE V == ValuedIn(lines)
            W == ValuedIn(longer)
<1>1. PICK n : n = Len(lines)
  OBVIOUS
<1>2. n \in Nat /\ V \subseteq 1..n
  BY <1>1, LineAdded DEF ValuedIn
<1>3. IsFiniteSet(V) /\ Cardinality(V) \in Nat
  <2>1. IsFiniteSet(1..n)
    BY <1>2, FS_Interval
  <2>2. IsFiniteSet(V)
    BY <1>2, <2>1, FS_Subset
  <2>. QED BY <2>2, FS_CardinalityType
<1>4. CASE ~GainsOne(lines, l)
  <2>1. W = V
    BY <1>4, ValuedGrow
  <2>. QED BY <1>3, <1>4, <2>1 DEF KnownIn
<1>5. CASE GainsOne(lines, l)
  <2>1. W = V \cup {m} /\ m \notin V /\ (\A i \in V : i < m) /\ m \in 1..n + 1
    BY <1>1, <1>5, ValuedGrow
  <2>. HIDE DEF V, W
  <2>2. Cardinality(W) = Cardinality(V) + 1
    BY <1>3, <2>1, FS_AddElement
  <2>3. {j \in W : j < m} = V
    <3>1. \A j \in W : j < m <=> j \in V
      BY <1>2, <2>1
    <3>2. V \subseteq W
      BY <2>1
    <3>. QED BY <3>1, <3>2
  <2>4. \A i \in V : {j \in W : j < i} = {j \in V : j < i}
    BY <1>2, <2>1
  <2>5. KnownIn(lines) = {i \in V : Cardinality({j \in V : j < i}) < WsMaxHeaders}
    BY DEF KnownIn, V
  <2>6. KnownIn(longer) = {i \in W : Cardinality({j \in W : j < i}) < WsMaxHeaders}
    BY DEF KnownIn, W
  <2>7. \A i \in V : i \in KnownIn(longer) <=> i \in KnownIn(lines)
    BY <2>1, <2>4, <2>5, <2>6
  <2>8. m \in KnownIn(longer) <=> Cardinality(V) < WsMaxHeaders
    BY <2>1, <2>3, <2>6
  <2>9. KnownIn(lines) \subseteq V /\ KnownIn(longer) \subseteq V \cup {m}
    BY <2>1, <2>5, <2>6
  <2>10. KnownIn(longer) = IF Cardinality(V) < WsMaxHeaders
                           THEN KnownIn(lines) \cup {m} ELSE KnownIn(lines)
    <3>1. CASE Cardinality(V) < WsMaxHeaders
      <4>1. \A i : i \in KnownIn(longer) <=> i \in KnownIn(lines) \/ i = m
        BY <2>1, <2>7, <2>8, <2>9, <3>1
      <4>. QED BY <3>1, <4>1
    <3>2. CASE ~(Cardinality(V) < WsMaxHeaders)
      <4>1. \A i : i \in KnownIn(longer) <=> i \in KnownIn(lines)
        BY <2>1, <2>7, <2>8, <2>9, <3>2
      <4>. QED BY <3>2, <4>1
    <3>. QED BY <3>1, <3>2
  <2>. QED BY <1>3, <1>5, <2>2, <2>10 DEF V, W
<1>. QED BY <1>4, <1>5

-----------------------------------------------------------------------------
(* The lines of a field, and its pairs.                                      *)

\* Two sets that have the same elements of a sequence leave the same of it.
LEMMA ThoseOfBoth ==
    ASSUME NEW Q, NEW seq \in Seq(Q), NEW S, NEW T,
           \A i \in 1..Len(seq) : seq[i] \in S <=> seq[i] \in T
    PROVE  Those(seq, S) = Those(seq, T)
<1>1. PICK n : n = Len(seq)
  OBVIOUS
<1>2. n \in Nat
  BY <1>1
<1>. DEFINE f == CHOOSE f : IsThose(f, seq, S, n)
            g == CHOOSE g : IsThose(g, seq, T, n)
<1>3. IsThose(f, seq, S, n) /\ IsThose(g, seq, T, n)
  BY <1>2, ThoseExists
<1>4. Those(seq, S) = f[n] /\ Those(seq, T) = g[n]
  BY <1>1 DEF Those, IsThose, ThoseWith
<1>. HIDE DEF f, g
<1>5. IsThose(f, seq, T, n)
  <2>1. \A i \in 0..n : i # 0 => ThoseWith(f[i - 1], S, seq[i]) = ThoseWith(f[i - 1], T, seq[i])
    <3>1. \A i \in 0..n : i # 0 => (seq[i] \in S <=> seq[i] \in T)
      BY <1>1, <1>2
    <3>. QED BY <3>1 DEF ThoseWith
  <2>2. f = [i \in 0..n |-> IF i = 0 THEN <<>> ELSE ThoseWith(f[i - 1], S, seq[i])]
    BY <1>3 DEF IsThose
  <2>3. f = [i \in 0..n |-> IF i = 0 THEN <<>> ELSE ThoseWith(f[i - 1], T, seq[i])]
    BY <2>1, <2>2
  <2>. QED BY <2>3 DEF IsThose
<1>6. f[n] = g[n]
  BY <1>2, <1>3, <1>5, ThoseAgree
<1>. QED BY <1>4, <1>6

Indices(n) == [i \in 1..n |-> i]

\* The numbers up to one more.
LEMMA IndicesGrow ==
    ASSUME NEW n \in Nat, NEW N \in Nat, N = n + 1
    PROVE  /\ Indices(n) \in Seq(Nat) /\ Len(Indices(n)) = n /\ \A i \in 1..n : Indices(n)[i] = i
           /\ Indices(N) = Append(Indices(n), N)
<1>1. Indices(n) \in Seq(Nat) /\ Len(Indices(n)) = n /\ \A i \in 1..n : Indices(n)[i] = i
  BY DEF Indices
<1>2. Indices(N) \in Seq(Nat) /\ Len(Indices(N)) = N /\ \A i \in 1..N : Indices(N)[i] = i
  BY DEF Indices
<1>3. PICK a : a = Append(Indices(n), N)
  OBVIOUS
<1>4. a \in Seq(Nat) /\ Len(a) = N
      /\ \A i \in 1..N : a[i] = IF i <= n THEN Indices(n)[i] ELSE N
  <2>1. N \in Nat /\ Len(Indices(n)) + 1 = N
    BY <1>1
  <2>. QED BY <1>1, <1>3, <2>1, Appended
<1>5. \A i \in 1..N : a[i] = i
  <2>1. \A i \in 1..N : i \in 1..n \/ (i = N /\ ~(i <= n))
    OBVIOUS
  <2>2. \A i \in 1..n : i <= n
    OBVIOUS
  <2>. QED BY <1>1, <1>4, <2>1, <2>2
<1>6. a = Indices(N)
  BY <1>2, <1>4, <1>5
<1>. QED BY <1>1, <1>3, <1>6

IsOf(e, Q) == e \in Q

\* What an element that is added adds to those of a set.
LEMMA ThoseWithOne ==
    ASSUME NEW Q, NEW a \in Seq(Q), NEW e, IsOf(e, Q), NEW S
    PROVE  Those(Append(a, e), S) = IF e \in S THEN Append(Those(a, S), e) ELSE Those(a, S)
  BY ThoseAppended DEF IsOf

\* One more number, which no set before had, is left of one more.
LEMMA IndexAdded ==
    ASSUME NEW n \in Nat, NEW N \in Nat, N = n + 1, NEW S
    PROVE  Those(Indices(N), S) = IF N \in S THEN Append(Those(Indices(n), S), N)
                                  ELSE Those(Indices(n), S)
<1>1. Indices(n) \in Seq(Nat) /\ Indices(N) = Append(Indices(n), N)
  BY IndicesGrow
<1>2. PICK a : a = Indices(n)
  OBVIOUS
<1>3. Those(Append(a, N), S) = IF N \in S THEN Append(Those(a, S), N) ELSE Those(a, S)
  <2>1. a \in Seq(Nat) /\ IsOf(N, Nat)
    BY <1>1, <1>2 DEF IsOf
  <2>. QED BY ONLY <2>1, ThoseWithOne
<1>. QED BY <1>1, <1>2, <1>3

ComesAfter(m, S, n, N) ==
    /\ n \in Nat /\ N \in Nat /\ N = n + 1 /\ m \in 1..N /\ m \in {n, N}
    /\ \A i \in S : i \in 1..n /\ i < m

\* The numbers of a set that one greater than all of them is put in, which is the last or
\* the last but one.
LEMMA IndexGained ==
    ASSUME NEW n, NEW N, NEW S, NEW m, ComesAfter(m, S, n, N)
    PROVE  Those(Indices(N), S \cup {m}) = Append(Those(Indices(n), S), m)
<1>0. /\ n \in Nat /\ N \in Nat /\ N = n + 1 /\ m \in 1..N /\ m \in {n, N}
      /\ \A i \in S : i \in 1..n /\ i < m
  BY DEF ComesAfter
<1>1. /\ Indices(n) \in Seq(Nat) /\ Len(Indices(n)) = n
      /\ \A i \in 1..n : Indices(n)[i] = i
  BY <1>0, IndicesGrow
<1>2. CASE m = N
  <2>1. Those(Indices(N), S \cup {m}) = Append(Those(Indices(n), S \cup {m}), N)
    BY <1>0, <1>2, IndexAdded
  <2>2. \A i \in 1..n : Indices(n)[i] \in S \cup {m} <=> Indices(n)[i] \in S
    BY <1>0, <1>1, <1>2
  <2>3. Those(Indices(n), S \cup {m}) = Those(Indices(n), S)
    BY <1>0, <1>1, <2>2, ThoseOfBoth
  <2>. QED BY <1>0, <1>2, <2>1, <2>3
<1>3. CASE m = n
  <2>1. PICK p \in Nat : n = p + 1
    <3>1. n - 1 \in Nat /\ n = (n - 1) + 1
      BY <1>0, <1>3
    <3>. QED BY <3>1
  <2>2. N \notin S \cup {m} /\ n \notin S
    BY <1>0, <1>3
  <2>3. Those(Indices(N), S \cup {m}) = Those(Indices(n), S \cup {m})
    BY <1>0, <2>2, IndexAdded
  <2>4. Those(Indices(n), S \cup {m}) = Append(Those(Indices(p), S \cup {m}), n)
    BY <1>0, <1>3, <2>1, IndexAdded
  <2>5. Those(Indices(n), S) = Those(Indices(p), S)
    BY <1>0, <2>1, <2>2, IndexAdded
  <2>6. /\ Indices(p) \in Seq(Nat) /\ Len(Indices(p)) = p
        /\ \A i \in 1..p : Indices(p)[i] = i
    BY <1>0, <2>1, IndicesGrow
  <2>7. \A i \in 1..p : Indices(p)[i] \in S \cup {m} <=> Indices(p)[i] \in S
    BY <1>0, <1>3, <2>1, <2>6
  <2>8. Those(Indices(p), S \cup {m}) = Those(Indices(p), S)
    BY <1>0, <2>6, <2>7, ThoseOfBoth
  <2>. QED BY <1>0, <1>3, <2>3, <2>4, <2>5, <2>8
<1>. QED BY <1>0, <1>2, <1>3

\* The lines of one field are lines that have a value, by their numbers.
LEMMA LinesOfIs ==
    ASSUME NEW lines \in Seq(WsLineType), NEW k
    PROVE  /\ LinesOf(lines, k) = Those(Indices(Len(lines)), KnownOf(lines, k))
           /\ LinesOf(lines, k) \in Seq(Nat) /\ Len(LinesOf(lines, k)) \in Nat
           /\ \A i \in 1..Len(LinesOf(lines, k)) : LinesOf(lines, k)[i] \in KnownOf(lines, k)
           /\ KnownOf(lines, k) \subseteq ValuedIn(lines) /\ ValuedIn(lines) \subseteq 1..Len(lines)
<1>1. PICK n : n = Len(lines)
  OBVIOUS
<1>2. n \in Nat /\ n + 1 \in Nat /\ DOMAIN lines = 1..n
  BY <1>1
<1>3. PICK t : t = Those(Indices(n), KnownOf(lines, k))
  OBVIOUS
<1>4. LinesOf(lines, k) = t
  BY <1>1, <1>2, <1>3 DEF LinesOf, Indices
<1>5. t \in Seq(Nat) /\ ToSet(t) \subseteq KnownOf(lines, k)
  <2>1. Indices(n) \in Seq(Nat)
    BY <1>2, IndicesGrow
  <2>. QED BY <1>3, <2>1, ThoseOf
<1>6. \A i \in 1..Len(t) : t[i] \in KnownOf(lines, k)
  <2>1. \A i \in 1..Len(t) : t[i] \in ToSet(t)
    BY <1>5 DEF ToSet
  <2>. QED BY <1>5, <2>1
<1>7. KnownOf(lines, k) \subseteq ValuedIn(lines) /\ ValuedIn(lines) \subseteq 1..n
  BY <1>2 DEF KnownOf, KnownIn, ValuedIn
<1>. QED BY <1>1, <1>3, <1>4, <1>5, <1>6, <1>7

\* A line that gains a value comes after those that its field has.
LinesAfter(lines, l, longer, k, m) ==
    LinesOf(longer, k) =
       IF /\ GainsOne(lines, l) /\ Cardinality(ValuedIn(lines)) < WsMaxHeaders
          /\ k = FieldFor(lines, l)
       THEN Append(LinesOf(lines, k), m) ELSE LinesOf(lines, k)

\* The lines of one field, when another line is added.
LEMMA LinesOfGrow ==
    ASSUME NEW lines \in Seq(WsLineType), NEW l \in WsLineType, NEW longer,
           longer = Append(lines, l), FoldedHaveOne(lines), NEW m, m = Gaining(lines, l),
           WsMaxHeaders \in Nat, NEW k
    PROVE  LinesAfter(lines, l, longer, k, m)
<1>1. PICK n, N : n = Len(lines) /\ N = n + 1
  OBVIOUS
<1>2. /\ n \in Nat /\ N \in Nat /\ Len(longer) = N /\ longer \in Seq(WsLineType)
      /\ \A i \in 1..n : longer[i] = lines[i]
  <2>1. Len(longer) = Len(lines) + 1
    BY LineAdded
  <2>. QED BY <1>1, <2>1, LineAdded
<1>. DEFINE gains == GainsOne(lines, l) /\ Cardinality(ValuedIn(lines)) < WsMaxHeaders
<1>3. KnownIn(longer) = IF gains THEN KnownIn(lines) \cup {m} ELSE KnownIn(lines)
  BY KnownGrow
<1>4. /\ LinesOf(lines, k) = Those(Indices(n), KnownOf(lines, k))
      /\ LinesOf(longer, k) = Those(Indices(N), KnownOf(longer, k))
  BY <1>1, <1>2, LinesOfIs
<1>5. KnownOf(lines, k) \subseteq ValuedIn(lines) /\ ValuedIn(lines) \subseteq 1..n
      /\ KnownIn(lines) \subseteq ValuedIn(lines)
  BY <1>1, LinesOfIs DEF KnownIn
<1>6. \A i \in KnownIn(lines) : longer[i].name = lines[i].name
  BY <1>2, <1>5
<1>7. CASE gains /\ k = FieldFor(lines, l)
  <2>1. /\ m \in 1..N /\ (\A i \in ValuedIn(lines) : i < m) /\ longer[m].name = k
        /\ m \in {n, N}
    <3>1. m \in {n, N}
      BY <1>1 DEF Gaining
    <3>2. /\ m \in 1..Len(lines) + 1 /\ (\A i \in ValuedIn(lines) : i < m)
          /\ longer[m].name = FieldFor(lines, l)
      BY <1>7, ValuedGrow
    <3>. QED BY <1>1, <1>7, <3>1, <3>2
  <2>2. KnownOf(longer, k) = KnownOf(lines, k) \cup {m}
    BY <1>3, <1>6, <1>7, <2>1 DEF KnownOf
  <2>3. \A i \in KnownOf(lines, k) : i \in 1..n /\ i < m
    BY <1>5, <2>1
  <2>4. PICK S : S = KnownOf(lines, k)
    OBVIOUS
  <2>5. N = n + 1 /\ n \in Nat /\ N \in Nat
    BY <1>1, <1>2
  <2>6. ComesAfter(m, S, n, N)
    BY <2>1, <2>3, <2>4, <2>5 DEF ComesAfter
  <2>7. Those(Indices(N), S \cup {m}) = Append(Those(Indices(n), S), m)
    BY <2>6, IndexGained
  <2>. QED BY <1>4, <1>7, <2>2, <2>4, <2>7 DEF LinesAfter
<1>8. CASE ~(gains /\ k = FieldFor(lines, l))
  <2>1. KnownOf(longer, k) = KnownOf(lines, k)
    <3>1. CASE gains
      <4>1. longer[m].name # k
        BY <1>8, <3>1, ValuedGrow
      <4>. QED BY <1>3, <1>6, <3>1, <4>1 DEF KnownOf
    <3>2. CASE ~gains
      BY <1>3, <1>6, <3>2 DEF KnownOf
    <3>. QED BY <3>1, <3>2
  <2>2. N \notin KnownOf(lines, k)
    BY <1>1, <1>2, <1>5
  <2>3. Those(Indices(N), KnownOf(lines, k)) = Those(Indices(n), KnownOf(lines, k))
    BY <1>1, <1>2, <2>2, IndexAdded
  <2>. QED BY <1>4, <1>8, <2>1, <2>3 DEF LinesAfter
<1>. QED BY <1>7, <1>8

\* The pairs of one field, when another pair is closed.
LEMMA PairsGrow ==
    ASSUME NEW pairs \in Seq(WsPairType), NEW f \in WsName \cup {NoName}, NEW v \in Nat, NEW k
    PROVE  /\ PairsOf(pairs, k) \in Seq(WsPairType) /\ Len(PairsOf(pairs, k)) \in Nat
           /\ PairsOf(Append(pairs, <<f, v>>), k) =
                 IF k = f THEN Append(PairsOf(pairs, k), <<f, v>>) ELSE PairsOf(pairs, k)
<1>1. <<f, v>> \in WsPairType /\ (<<f, v>> \in {k} \X Nat <=> k = f)
  BY DEF WsPairType
<1>2. Those(Append(pairs, <<f, v>>), {k} \X Nat) =
         IF <<f, v>> \in {k} \X Nat THEN Append(Those(pairs, {k} \X Nat), <<f, v>>)
         ELSE Those(pairs, {k} \X Nat)
  BY <1>1, ThoseAppended
<1>3. Those(pairs, {k} \X Nat) \in Seq(WsPairType)
  BY ThoseOf
<1>. QED BY <1>1, <1>2, <1>3 DEF PairsOf

\* The values of a field, one more of which comes with one more line.
LEMMA ValuesAppended ==
    ASSUME NEW P \in Seq(WsPairType), NEW L \in Seq(Nat), Len(P) = Len(L), NEW lines, NEW longer,
           \A k \in 1..Len(L) : P[k][2] = ValueIn(lines, L[k]),
           \A k \in 1..Len(L) : ValueIn(longer, L[k]) = ValueIn(lines, L[k]),
           NEW f \in WsName \cup {NoName}, NEW m \in Nat, NEW v \in Nat, ValueIn(longer, m) = v
    PROVE  /\ Len(Append(P, <<f, v>>)) = Len(Append(L, m))
           /\ \A k \in 1..Len(Append(L, m)) :
                 Append(P, <<f, v>>)[k][2] = ValueIn(longer, Append(L, m)[k])
<1>1. PICK n, N, p : n = Len(L) /\ N = n + 1 /\ p = <<f, v>>
  OBVIOUS
<1>2. n \in Nat /\ N \in Nat /\ p \in WsPairType /\ p[2] = v
  BY <1>1 DEF WsPairType
<1>3. PICK Q, M : Q = Append(P, p) /\ M = Append(L, m)
  OBVIOUS
<1>4. /\ Len(Q) = N /\ Len(M) = N /\ Q[N] = p /\ M[N] = m
      /\ \A k \in 1..n : Q[k] = P[k] /\ M[k] = L[k]
  <2>1. Len(Q) = Len(P) + 1 /\ \A i \in 1..Len(P) + 1 : Q[i] = IF i <= Len(P) THEN P[i] ELSE p
    BY <1>2, <1>3, Appended
  <2>2. Len(M) = Len(L) + 1 /\ \A i \in 1..Len(L) + 1 : M[i] = IF i <= Len(L) THEN L[i] ELSE m
    BY <1>3, Appended
  <2>3. \A i \in 1..n : i \in 1..n + 1 /\ i <= n
    BY <1>2
  <2>4. N \in 1..n + 1 /\ ~(N <= n)
    BY <1>1, <1>2
  <2>. QED BY <1>1, <2>1, <2>2, <2>3, <2>4
<1>5. \A k \in 1..N : k \in 1..n \/ k = N
  BY <1>1, <1>2
<1>6. \A k \in 1..n : Q[k][2] = ValueIn(longer, M[k])
  BY <1>1, <1>4
<1>. QED BY <1>1, <1>2, <1>3, <1>4, <1>5, <1>6

\* What a line does to the pairs and to the field that waits: f is the one its value is for.
LineTaken(pairs, field, l, full, f, more, waits) ==
    /\ full \in BOOLEAN /\ (full <=> Len(pairs) >= WsMaxHeaders)
    /\ f = IF l.name = NoName \/ full THEN field ELSE l.name
    /\ more = IF full \/ f = NoName \/ l.value = 0 THEN pairs ELSE Append(pairs, <<f, l.value>>)
    /\ waits = IF full \/ l.value = 0 THEN f ELSE NoName

\* What is gathered of the lines of a request stays what they are.
LEMMA LineIsGathered ==
    ASSUME NEW lines, NEW pairs, NEW field, GatheredOf(lines, pairs, field),
           NEW l \in WsLineType, l.name = NoName => l.value # 0,
           NEW longer, longer = Append(lines, l), WsMaxHeaders \in Nat,
           NEW full, NEW f, NEW more, NEW waits, LineTaken(pairs, field, l, full, f, more, waits)
    PROVE  GatheredOf(longer, more, waits)
<1>0. /\ full \in BOOLEAN /\ (full <=> Len(pairs) >= WsMaxHeaders)
      /\ f = IF l.name = NoName \/ full THEN field ELSE l.name
      /\ more = IF full \/ f = NoName \/ l.value = 0 THEN pairs ELSE Append(pairs, <<f, l.value>>)
      /\ waits = IF full \/ l.value = 0 THEN f ELSE NoName
  BY DEF LineTaken
<1>1. PICK n, N, c, m : n = Len(lines) /\ N = n + 1 /\ c = Cardinality(ValuedIn(lines))
                        /\ m = Gaining(lines, l)
  OBVIOUS
<1>2. /\ lines \in Seq(WsLineType) /\ FoldedHaveOne(lines) /\ pairs \in Seq(WsPairType)
      /\ Len(pairs) = IF c < WsMaxHeaders THEN c ELSE WsMaxHeaders
      /\ Len(pairs) < WsMaxHeaders => field = Pending(lines)
      /\ \A k \in WsName :
            /\ Len(PairsOf(pairs, k)) = Len(LinesOf(lines, k))
            /\ \A i \in 1..Len(LinesOf(lines, k)) :
                  PairsOf(pairs, k)[i][2] = ValueIn(lines, LinesOf(lines, k)[i])
  BY <1>1 DEF GatheredOf
<1>3. /\ n \in Nat /\ N \in Nat /\ Len(longer) = N /\ longer \in Seq(WsLineType)
      /\ longer[N] = l /\ N # 0
      /\ \A i \in 1..n : longer[i] = lines[i]
  <2>1. Len(longer) = Len(lines) + 1
    BY <1>2, LineAdded
  <2>. QED BY <1>1, <1>2, <2>1, LineAdded
<1>4. FoldedHaveOne(longer)
  <2>1. \A i \in 1..N : i \in 1..n \/ i = N
    BY <1>1, <1>3
  <2>. QED BY <1>1, <1>2, <1>3, <2>1 DEF FoldedHaveOne
<1>5. c \in Nat /\ Len(pairs) \in Nat /\ (~full <=> c < WsMaxHeaders)
      /\ (~full => Len(pairs) < WsMaxHeaders)
  <2>1. c \in Nat
    BY <1>1, <1>2, KnownGrow
  <2>. QED BY <1>0, <1>2, <2>1
<1>6. ~full => f = FieldFor(lines, l)
  BY <1>0, <1>2, <1>5 DEF FieldFor
<1>7. l.value \in Nat /\ l.name \in WsName \cup {NoName}
  BY DEF WsLineType
<1>8. FieldFor(lines, l) \in WsName \cup {NoName}
  <2>1. lines # <<>> => lines[Len(lines)] \in WsLineType
    BY <1>2
  <2>2. lines # <<>> => lines[Len(lines)].name \in WsName \cup {NoName}
    BY <2>1 DEF WsLineType
  <2>. QED BY <1>7, <2>2 DEF FieldFor, Pending
<1>9. ~full => waits = Pending(longer)
  <2>1. Pending(longer) = IF l.value = 0 THEN l.name ELSE NoName
    <3>1. longer # <<>>
      BY <1>3
    <3>. QED BY <1>3, <3>1 DEF Pending
  <2>. QED BY <1>0, <1>6, <2>1 DEF FieldFor
<1>. DEFINE gains == GainsOne(lines, l) /\ c < WsMaxHeaders
<1>10. Cardinality(ValuedIn(longer)) = c + (IF GainsOne(lines, l) THEN 1 ELSE 0)
  BY <1>1, <1>2, KnownGrow
<1>11. more = IF gains THEN Append(pairs, <<FieldFor(lines, l), l.value>>) ELSE pairs
  BY <1>0, <1>5, <1>6 DEF GainsOne
<1>12. ASSUME NEW k PROVE LinesOf(longer, k) = IF gains /\ k = FieldFor(lines, l)
                                               THEN Append(LinesOf(lines, k), m)
                                               ELSE LinesOf(lines, k)
  <2>1. LinesAfter(lines, l, longer, k, m)
    BY <1>1, <1>2, LinesOfGrow
  <2>. QED BY <1>1, <2>1 DEF LinesAfter
<1>13. ASSUME NEW k PROVE PairsOf(more, k) = IF gains /\ k = FieldFor(lines, l)
                                             THEN Append(PairsOf(pairs, k), <<FieldFor(lines, l), l.value>>)
                                             ELSE PairsOf(pairs, k)
  <2>1. PICK g, v : g = FieldFor(lines, l) /\ v = l.value
    OBVIOUS
  <2>2. g \in WsName \cup {NoName} /\ v \in Nat
    BY <1>7, <1>8, <2>1
  <2>3. PairsOf(Append(pairs, <<g, v>>), k) =
           IF k = g THEN Append(PairsOf(pairs, k), <<g, v>>) ELSE PairsOf(pairs, k)
    <3>1. pairs \in Seq(WsPairType)
      BY <1>2
    <3>. QED BY <2>2, <3>1, PairsGrow
  <2>. QED BY <1>11, <2>1, <2>3
<1>14. more \in Seq(WsPairType) /\ Len(more) = Len(pairs) + (IF gains THEN 1 ELSE 0)
  <2>1. <<FieldFor(lines, l), l.value>> \in WsPairType
    BY <1>7, <1>8 DEF WsPairType
  <2>2. PICK p : p = <<FieldFor(lines, l), l.value>>
    OBVIOUS
  <2>3. Append(pairs, p) \in Seq(WsPairType) /\ Len(Append(pairs, p)) = Len(pairs) + 1
    BY <1>2, <2>1, <2>2
  <2>4. CASE gains
    BY <1>11, <2>2, <2>3, <2>4
  <2>5. CASE ~gains
    BY <1>2, <1>5, <1>11, <2>5
  <2>. QED BY <2>4, <2>5
<1>15. Len(more) = IF Cardinality(ValuedIn(longer)) < WsMaxHeaders
                   THEN Cardinality(ValuedIn(longer)) ELSE WsMaxHeaders
  BY <1>2, <1>5, <1>10, <1>14
<1>16. Len(more) < WsMaxHeaders => waits = Pending(longer)
  <2>1. Len(more) < WsMaxHeaders => Len(pairs) < WsMaxHeaders
    BY <1>5, <1>14
  <2>2. Len(pairs) < WsMaxHeaders => ~full
    BY <1>0, <1>5
  <2>. QED BY <1>9, <2>1, <2>2
<1>17. ASSUME NEW k \in WsName
       PROVE  /\ Len(PairsOf(more, k)) = Len(LinesOf(longer, k))
              /\ \A i \in 1..Len(LinesOf(longer, k)) :
                    PairsOf(more, k)[i][2] = ValueIn(longer, LinesOf(longer, k)[i])
  <2>1. PICK P, L : P = PairsOf(pairs, k) /\ L = LinesOf(lines, k)
    OBVIOUS
  <2>2. P \in Seq(WsPairType) /\ L \in Seq(Nat) /\ Len(P) = Len(L)
    BY <1>2, <1>7, <1>8, <2>1, PairsGrow, LinesOfIs
  <2>3. /\ \A i \in 1..Len(L) : P[i][2] = ValueIn(lines, L[i])
        /\ \A i \in 1..Len(L) : ValueIn(longer, L[i]) = ValueIn(lines, L[i])
    <3>1. \A i \in 1..Len(L) : L[i] \in ValuedIn(lines)
      BY <1>2, <2>1, LinesOfIs
    <3>2. ASSUME NEW i \in ValuedIn(lines) PROVE ValueIn(longer, i) = ValueIn(lines, i)
      BY <1>1, <1>2, ValuedGrow, ZenonT(30)
    <3>. QED BY <1>2, <2>1, <3>1, <3>2
  <2>4. CASE gains /\ k = FieldFor(lines, l)
    <3>1. m \in Nat /\ ValueIn(longer, m) = l.value
      <4>1. m \in 1..Len(lines) + 1 /\ ValueIn(longer, m) = l.value
        BY <1>1, <1>2, <2>4, ValuedGrow, ZenonT(30)
      <4>. QED BY <4>1
    <3>2. /\ PairsOf(more, k) = Append(P, <<FieldFor(lines, l), l.value>>)
          /\ LinesOf(longer, k) = Append(L, m)
      BY <1>12, <1>13, <2>1, <2>4
    <3>3. PICK g, v : g = FieldFor(lines, l) /\ v = l.value
      OBVIOUS
    <3>4. g \in WsName \cup {NoName} /\ v \in Nat /\ ValueIn(longer, m) = v
      BY <1>7, <1>8, <3>1, <3>3
    <3>5. /\ Len(Append(P, <<g, v>>)) = Len(Append(L, m))
          /\ \A i \in 1..Len(Append(L, m)) :
                Append(P, <<g, v>>)[i][2] = ValueIn(longer, Append(L, m)[i])
      BY <2>2, <2>3, <3>1, <3>4, ValuesAppended
    <3>. QED BY <3>2, <3>3, <3>5
  <2>5. CASE ~(gains /\ k = FieldFor(lines, l))
    <3>1. PairsOf(more, k) = P /\ LinesOf(longer, k) = L
      BY <1>12, <1>13, <2>1, <2>5
    <3>. QED BY <2>2, <2>3, <3>1
  <2>. QED BY <2>4, <2>5
<1>. QED BY <1>3, <1>4, <1>14, <1>15, <1>16, <1>17 DEF GatheredOf

-----------------------------------------------------------------------------
(***************************************************************************)
(* The inductive invariant of Wsgi.                                        *)
(***************************************************************************)
WsPieceType == [at : Nat, size : Nat]
WsHeaderType == [call : Nat, own : BOOLEAN, length : Nat]

RequestInv == GatheredOf(wsLines, wsPairs, wsField)

\* All of the payload is gathered, or it is marked and is too long.
PiecesInv ==
    /\ wsPieces \in Seq(WsPieceType) /\ wsOverflow \in BOOLEAN
    /\ ~wsOverflow => wsBody = wsPieces /\ ~(Size(wsPieces) > WsMaxBody)
    /\ wsOverflow => Size(wsPieces) > WsMaxBody

\* The application is called with all of a request that was not marked.
ValuesSent(lines, n) ==
    [k \in DOMAIN LinesOf(lines, n) |-> ValueIn(lines, LinesOf(lines, n)[k])]
CalledInv ==
    /\ wsState = "called" => \A n \in WsName : wsEnviron.names[n] = ValuesSent(wsLines, n)
    /\ wsState = "called" => ~wsOverflow /\ wsEnviron.body = wsPieces

\* Headers of one call of start_response, which started the response.
OfOneStart(headers, starts) ==
    \A i \in 1..Len(headers) :
        /\ headers[i].call \in 1..Len(starts) /\ starts[headers[i].call] = "started"
        /\ headers[i].call = headers[1].call

\* Nothing was called before the application is, and the headers are those of the call that
\* started the response, if one did.
StartsInv ==
    /\ wsState \in {"head", "body", "called", "responded"} /\ wsStatus \in {0, 200, 500}
    /\ wsStarts \in Seq({"raised", "refused", "started"}) /\ wsStarted \in BOOLEAN
    /\ wsHeaders \in Seq(WsHeaderType) /\ wsWritten \in Nat
    /\ wsState \in {"head", "body"} => wsStarts = <<>>
    /\ wsStarts = <<>> => ~wsStarted /\ wsHeaders = <<>>
    /\ wsStarted => OfOneStart(wsHeaders, wsStarts)

ResponseInv ==
    /\ wsResponse.status = 413 <=> wsState = "responded" /\ wsOverflow
    /\ HeadersOfOneStart
    /\ WsFailsAnnounced \/ AnnouncedIsWritten

WsInv == RequestInv /\ PiecesInv /\ CalledInv /\ StartsInv /\ ResponseInv

\* What the run checks follows from the invariant.
LEMMA WsInvGives == ASSUME WsInv, ~WsFailsAnnounced PROVE RequestIsWhole
<1>1. WholeOrRefused
  <2>1. /\ wsState = "called" => wsEnviron.body = wsPieces
        /\ wsResponse.status = 413 <=> wsState = "responded" /\ wsOverflow
        /\ wsOverflow \in BOOLEAN /\ (wsOverflow => Size(wsPieces) > WsMaxBody)
        /\ (~wsOverflow => ~(Size(wsPieces) > WsMaxBody))
    BY DEF WsInv, CalledInv, ResponseInv, PiecesInv
  <2>. HIDE DEF Size
  <2>. QED BY <2>1 DEF WholeOrRefused
<1>2. FieldsKeepTheirValues
  <2>1. ASSUME NEW i PROVE ValueOf(i) = ValueIn(wsLines, i)
    BY DEF ValueOf, ValueIn, OwnIn
  <2>2. Known = KnownIn(wsLines)
    BY <2>1 DEF Known, KnownIn, ValuedIn
  <2>3. ASSUME NEW n \in WsName, wsState = "called"
        PROVE  wsEnviron.names[n] =
                  LET of == Those([i \in DOMAIN wsLines |-> i],
                                  {i \in Known : wsLines[i].name = n})
                  IN  [k \in DOMAIN of |-> ValueOf(of[k])]
    <3>1. wsEnviron.names[n] = ValuesSent(wsLines, n)
      BY <2>3 DEF WsInv, CalledInv
    <3>. QED BY <2>1, <2>2, <3>1 DEF ValuesSent, LinesOf, KnownOf
  <2>. QED BY <2>3 DEF FieldsKeepTheirValues
<1>3. HeadersOfOneStart /\ AnnouncedIsWritten
  BY DEF WsInv, ResponseInv
<1>. QED BY <1>1, <1>2, <1>3 DEF RequestIsWhole

-----------------------------------------------------------------------------
(* What the payload adds up to.                                              *)

SizesOf(pieces) == [i \in 1..Len(pieces) |-> pieces[i].size]

\* A piece adds its size.
LEMMA SizeIs ==
    ASSUME NEW pieces \in Seq(WsPieceType), NEW p \in WsPieceType
    PROVE  /\ Size(pieces) \in Nat /\ Size(Append(pieces, p)) = Size(pieces) + p.size
           /\ p.size \in Nat
<1>1. PICK n, N, more : n = Len(pieces) /\ N = n + 1 /\ more = Append(pieces, p)
  OBVIOUS
<1>2. /\ n \in Nat /\ N \in Nat /\ N # 0 /\ N - 1 = n /\ more \in Seq(WsPieceType)
      /\ Len(more) = N /\ more[N] = p /\ (\A i \in 1..n : more[i] = pieces[i])
      /\ N \in 1..N /\ (\A i \in 1..n : i \in 1..N)
  BY <1>1
<1>3. p.size \in Nat /\ (\A i \in 1..n : pieces[i].size \in Nat)
      /\ (\A i \in 1..N : more[i].size \in Nat)
  <2>1. (\A i \in 1..n : pieces[i] \in WsPieceType) /\ (\A i \in 1..N : more[i] \in WsPieceType)
    BY <1>1, <1>2
  <2>2. \A q \in WsPieceType : q.size \in Nat
    BY DEF WsPieceType
  <2>. QED BY <2>1, <2>2
<1>4. PICK a, b : a = SizesOf(pieces) /\ b = SizesOf(more)
  OBVIOUS
<1>5. /\ a \in Seq(Nat) /\ Len(a) = n /\ \A i \in 1..n : a[i] = pieces[i].size
  BY <1>1, <1>2, <1>3, <1>4 DEF SizesOf
<1>6. /\ b \in Seq(Nat) /\ Len(b) = N /\ \A i \in 1..N : b[i] = more[i].size
  BY <1>1, <1>2, <1>3, <1>4 DEF SizesOf
<1>7. SumOf(a) \in Nat
  BY <1>5, SumIs
<1>8. SumOf(b) = SumOf(a) + b[N]
  <2>1. \A i \in 1..N - 1 : a[i] = b[i]
    BY <1>2, <1>5, <1>6
  <2>2. N = Len(b) /\ N # 0 /\ Len(a) = N - 1
    BY <1>2, <1>5, <1>6
  <2>. QED BY <1>5, <1>6, <2>1, <2>2, SumWithLast
<1>. QED BY <1>1, <1>2, <1>3, <1>4, <1>6, <1>7, <1>8 DEF Size, SizesOf

\* No pieces have no size.
LEMMA NoSize == Size(<<>>) = 0
<1>1. SizesOf(<<>>) \in Seq(Nat) /\ Len(SizesOf(<<>>)) = 0
  BY DEF SizesOf
<1>2. SumOf(SizesOf(<<>>)) = 0
  BY <1>1, SumOfNone
<1>. QED BY <1>2 DEF Size, SizesOf

-----------------------------------------------------------------------------
(* The callbacks of the parser.                                              *)

\* Of no lines nothing is gathered.
LEMMA NothingGathered ==
    ASSUME WsMaxHeaders \in Nat
    PROVE  GatheredOf(<<>>, <<>>, NoName)
<1>1. ValuedIn(<<>>) = {}
  BY DEF ValuedIn
<1>2. Cardinality(ValuedIn(<<>>)) = 0
  BY <1>1, FS_EmptySet
<1>3. <<>> \in Seq(WsLineType) /\ <<>> \in Seq(WsPairType) /\ Len(<<>>) = 0
  OBVIOUS
<1>4. ASSUME NEW k PROVE LinesOf(<<>>, k) = <<>> /\ PairsOf(<<>>, k) = <<>>
  <2>1. [i \in DOMAIN <<>> |-> i] = <<>>
    OBVIOUS
  <2>2. ToSet(<<>>) \cap KnownOf(<<>>, k) = {} /\ ToSet(<<>>) \cap ({k} \X Nat) = {}
    BY SetOfNone
  <2>3. <<>> \in Seq(Nat)
    OBVIOUS
  <2>. QED BY <1>3, <2>1, <2>2, <2>3, ThoseOfNone DEF LinesOf, PairsOf
<1>. QED BY <1>2, <1>3, <1>4 DEF GatheredOf, FoldedHaveOne, Pending

\* The invariant holds at the start.
LEMMA WsStarts == WsInit => WsInv
<1>. SUFFICES ASSUME WsInit PROVE WsInv
  OBVIOUS
<1>1. RequestInv
  BY WsgiAssumption, NothingGathered DEF WsInit, RequestInv
<1>2. PiecesInv
  <2>1. wsPieces = <<>> /\ wsBody = <<>> /\ wsOverflow = FALSE
    BY DEF WsInit
  <2>2. Size(wsPieces) = 0 /\ WsMaxBody \in Nat
    BY <2>1, NoSize, WsgiAssumption
  <2>3. wsPieces \in Seq(WsPieceType)
    BY <2>1
  <2>4. ~(Size(wsPieces) > WsMaxBody)
    BY <2>2
  <2>. QED BY <2>1, <2>3, <2>4 DEF PiecesInv
<1>3. CalledInv /\ ResponseInv
  BY DEF WsInit, CalledInv, ResponseInv, HeadersOfOneStart, AnnouncedIsWritten
<1>4. StartsInv
  <2>1. /\ wsState = "head" /\ wsStatus = 0 /\ wsStarts = <<>> /\ wsStarted = FALSE
        /\ wsHeaders = <<>> /\ wsWritten = 0
    BY DEF WsInit
  <2>2. wsStarts \in Seq({"raised", "refused", "started"})
    BY <2>1
  <2>3. wsHeaders \in Seq(WsHeaderType)
    BY <2>1
  <2>. QED BY <2>1, <2>2, <2>3 DEF StartsInv
<1>. QED BY <1>1, <1>2, <1>3, <1>4 DEF WsInv

\* A line closes the pair of its field, or leaves the field to wait, and is known by it.
LEMMA LineKeeps ==
    ASSUME WsInv, NEW name \in WsName \cup {NoName}, NEW value \in Nat,
           name = NoName => value # 0, Line(name, value)
    PROVE  WsInv'
<1>1. PICK l : l = [name |-> name, value |-> value]
  OBVIOUS
<1>2. l \in WsLineType /\ l.name = name /\ l.value = value
  BY <1>1 DEF WsLineType
<1>3. PICK f : f = IF name = NoName THEN wsField ELSE FieldWaiting(name)
  OBVIOUS
<1>4. /\ wsState = "head" /\ wsLines' = Append(wsLines, l)
      /\ wsPairs' = Closed(f, value) /\ wsField' = StillWaiting(f, value)
      /\ UNCHANGED <<wsPieces, wsBody, wsOverflow, wsState, wsEnviron, wsAnswerVars, wsResponse>>
  BY <1>1, <1>3 DEF Line
<1>5. RequestInv'
  <2>1. PICK full \in BOOLEAN : full <=> Len(wsPairs) >= WsMaxHeaders
    OBVIOUS
  <2>2. f = IF l.name = NoName \/ full THEN wsField ELSE l.name
    BY <1>2, <1>3, <2>1 DEF FieldWaiting, Gathered
  <2>3. wsPairs' = IF full \/ f = NoName \/ l.value = 0 THEN wsPairs
                   ELSE Append(wsPairs, <<f, l.value>>)
    BY <1>2, <1>4, <2>1 DEF Closed, Gathered
  <2>4. wsField' = IF full \/ l.value = 0 THEN f ELSE NoName
    BY <1>2, <1>4, <2>1 DEF StillWaiting, Gathered
  <2>5. GatheredOf(wsLines, wsPairs, wsField) /\ WsMaxHeaders \in Nat
    BY WsgiAssumption DEF WsInv, RequestInv
  <2>6. PICK lines, pairs, field : lines = wsLines' /\ pairs = wsPairs' /\ field = wsField'
    OBVIOUS
  <2>7. LineTaken(wsPairs, wsField, l, full, f, pairs, field)
    BY <2>1, <2>2, <2>3, <2>4, <2>6 DEF LineTaken
  <2>8. lines = Append(wsLines, l)
    BY <1>4, <2>6
  <2>9. l.name = NoName => l.value # 0
    BY <1>2
  <2>10. GatheredOf(lines, pairs, field)
    BY <1>2, <2>5, <2>7, <2>8, <2>9, LineIsGathered
  <2>. QED BY <2>6, <2>10 DEF RequestInv
<1>6. PiecesInv'
  BY <1>4 DEF WsInv, PiecesInv
<1>7. CalledInv' /\ ResponseInv'
  BY <1>4 DEF WsInv, CalledInv, ResponseInv, HeadersOfOneStart,
              AnnouncedIsWritten, wsAnswerVars
<1>8. StartsInv'
  BY <1>4 DEF WsInv, StartsInv, wsAnswerVars
<1>. QED BY <1>5, <1>6, <1>7, <1>8 DEF WsInv

\* A piece that is dropped marks a request that is too long, and only such a one.
LEMMA PieceKeeps ==
    ASSUME WsInv, NEW size \in Nat, Piece(size)
    PROVE  WsInv'
<1>1. PICK p : p = [at |-> Len(wsPieces) + 1, size |-> size]
  OBVIOUS
<1>2. /\ wsState \in {"head", "body"} /\ wsState' = "body"
      /\ wsPieces' = Append(wsPieces, p)
      /\ wsBody' = IF Overflows(size) THEN wsBody ELSE Append(wsBody, p)
      /\ wsOverflow' = (wsOverflow \/ Overflows(size))
      /\ UNCHANGED <<wsLines, wsPairs, wsField, wsEnviron, wsAnswerVars, wsResponse>>
  BY <1>1 DEF Piece
<1>3. wsPieces \in Seq(WsPieceType) /\ p \in WsPieceType /\ p.size = size
  BY <1>1 DEF WsInv, PiecesInv, WsPieceType
<1>4. /\ Size(wsPieces) \in Nat /\ Size(wsPieces') = Size(wsPieces) + size
      /\ WsMaxBody \in Nat
  BY <1>2, <1>3, SizeIs, WsgiAssumption
<1>5. PiecesInv'
  <2>1. wsPieces' \in Seq(WsPieceType) /\ wsOverflow' \in BOOLEAN
    BY <1>2, <1>3
  <2>2. CASE wsOverflow
    <3>1. wsOverflow' /\ Size(wsPieces) > WsMaxBody
      BY <1>2, <2>2 DEF WsInv, PiecesInv
    <3>2. Size(wsPieces') > WsMaxBody
      BY <1>4, <3>1
    <3>. QED BY <2>1, <3>1, <3>2 DEF PiecesInv
  <2>3. CASE ~wsOverflow
    <3>1. wsBody = wsPieces
      BY <2>3 DEF WsInv, PiecesInv
    <3>2. Overflows(size) <=> Size(wsPieces') > WsMaxBody
      BY <1>4, <3>1 DEF Overflows
    <3>3. wsOverflow' <=> Overflows(size)
      BY <1>2, <2>3
    <3>4. ~Overflows(size) => wsBody' = wsPieces'
      BY <1>2, <3>1
    <3>. QED BY <2>1, <3>2, <3>3, <3>4 DEF PiecesInv
  <2>. QED BY <2>2, <2>3 DEF WsInv, PiecesInv
<1>6. RequestInv' /\ StartsInv'
  BY <1>2 DEF WsInv, RequestInv, StartsInv, wsAnswerVars
<1>7. CalledInv' /\ ResponseInv'
  BY <1>2 DEF WsInv, CalledInv, ResponseInv, HeadersOfOneStart,
              AnnouncedIsWritten
<1>. QED BY <1>5, <1>6, <1>7 DEF WsInv

-----------------------------------------------------------------------------
(* What is composed.                                                         *)

\* A length that the application set for itself is that of what it writes and returns.
LEMMA AnnouncedIs ==
    ASSUME NEW headers \in Seq(WsHeaderType), NEW size,
           \A i \in DOMAIN headers : headers[i].own => headers[i].length = Total(size)
    PROVE  Announces(headers, size) = Total(size)
<1>1. PICK own : own = {i \in DOMAIN headers : headers[i].own}
  OBVIOUS
<1>2. CASE own = {}
  BY <1>1, <1>2 DEF Announces
<1>3. CASE own # {}
  <2>1. own \subseteq Nat
    <3>1. DOMAIN headers \subseteq Nat
      OBVIOUS
    <3>. QED BY <1>1, <3>1
  <2>2. PICK x \in own : \A y \in own : x <= y
    BY <1>3, <2>1, HasLeast
  <2>3. (CHOOSE i \in own : \A j \in own : i <= j) = x
    BY <2>1, <2>2, ChosenIsLeast
  <2>4. Announces(headers, size) = headers[x].length
    BY <1>1, <1>3, <2>3 DEF Announces
  <2>. QED BY <1>1, <2>2, <2>4
<1>. QED BY <1>2, <1>3

\* A response, and what a step that composes one has to show.
LEMMA RespondKeeps ==
    ASSUME WsInv, NEW status, NEW headers \in Seq(WsHeaderType), NEW size,
           Respond(status, headers, size), UNCHANGED <<wsRequestVars, wsStarts>>,
           wsStarted' = wsStarted, wsWritten' = wsWritten,
           wsStatus' \in {0, 200, 500}, wsHeaders' \in {wsHeaders, <<>>},
           status = 413 <=> wsOverflow,
           \A i \in DOMAIN headers : /\ wsStarts[headers[i].call] = "started"
                                     /\ headers[i].call = headers[1].call,
           ~WsFailsAnnounced => \A i \in DOMAIN headers : headers[i].own => headers[i].length = Total(size)
    PROVE  WsInv'
<1>1. /\ wsState' = "responded"
      /\ wsResponse'.status = status /\ wsResponse'.headers = headers
      /\ wsResponse'.length = Announces(headers, size) /\ wsResponse'.payload = Total(size)
  BY DEF Respond, Total
<1>2. RequestInv' /\ PiecesInv'
  BY DEF WsInv, RequestInv, PiecesInv, wsRequestVars
<1>3. CalledInv'
  BY <1>1 DEF CalledInv
<1>4. ResponseInv'
  <2>1. WsFailsAnnounced \/ Announces(headers, size) = Total(size)
    BY AnnouncedIs
  <2>2. HeadersOfOneStart'
    BY <1>1 DEF HeadersOfOneStart
  <2>3. WsFailsAnnounced \/ AnnouncedIsWritten'
    BY <1>1, <2>1 DEF AnnouncedIsWritten
  <2>4. wsOverflow' = wsOverflow
    BY DEF wsRequestVars
  <2>. QED BY <1>1, <2>2, <2>3, <2>4 DEF ResponseInv
<1>5. StartsInv'
  <2>1. /\ wsStarts' = wsStarts /\ wsStarts \in Seq({"raised", "refused", "started"})
        /\ wsStarted \in BOOLEAN /\ wsHeaders \in Seq(WsHeaderType) /\ wsWritten \in Nat
        /\ wsStarts = <<>> => ~wsStarted /\ wsHeaders = <<>>
        /\ wsStarted => OfOneStart(wsHeaders, wsStarts)
    BY DEF WsInv, StartsInv
  <2>2. wsHeaders' \in Seq(WsHeaderType) /\ (wsHeaders = <<>> => wsHeaders' = <<>>)
    <3>1. <<>> \in Seq(WsHeaderType)
      OBVIOUS
    <3>. QED BY <2>1, <3>1
  <2>3. OfOneStart(<<>>, wsStarts)
    BY DEF OfOneStart
  <2>4. wsStarted => OfOneStart(wsHeaders', wsStarts)
    BY <2>1, <2>3
  <2>. QED BY <1>1, <2>1, <2>2, <2>4 DEF StartsInv
<1>. QED BY <1>2, <1>3, <1>4, <1>5 DEF WsInv

\* The pairs of each field are its lines, in their order and with their values.
LEMMA JoinedIs ==
    ASSUME WsInv, NEW n \in WsName
    PROVE  ValuesJoined(n) = ValuesSent(wsLines, n)
<1>1. PICK P, L : P = PairsOf(wsPairs, n) /\ L = LinesOf(wsLines, n)
  OBVIOUS
<1>2. /\ wsLines \in Seq(WsLineType) /\ wsPairs \in Seq(WsPairType)
      /\ Len(P) = Len(L) /\ \A k \in 1..Len(L) : P[k][2] = ValueIn(wsLines, L[k])
  BY <1>1 DEF WsInv, RequestInv, GatheredOf
<1>3. P \in Seq(WsPairType) /\ L \in Seq(Nat)
  <2>1. P \in Seq(WsPairType)
    BY <1>1, <1>2, ThoseOf DEF PairsOf
  <2>2. L \in Seq(Nat)
    BY <1>1, <1>2, LinesOfIs
  <2>. QED BY <2>1, <2>2
<1>4. DOMAIN P = DOMAIN L /\ \A k \in DOMAIN L : P[k][2] = ValueIn(wsLines, L[k])
  BY <1>2, <1>3
<1>. QED BY <1>1, <1>4 DEF ValuesJoined, ValuesSent, PairsOf

\* A request that is marked is refused, any other is handed to the application as it was sent.
LEMMA CompleteKeeps ==
    ASSUME WsInv, Complete
    PROVE  WsInv'
<1>1. /\ wsState \in {"head", "body"}
      /\ UNCHANGED <<wsRequestVars, wsStarts, wsStarted, wsHeaders, wsWritten>>
  BY DEF Complete
<1>2. CASE wsOverflow
  <2>1. Respond(413, <<>>, 0) /\ wsStatus' = wsStatus
    BY <1>2 DEF Complete, RefusesCut
  <2>2. PICK headers : headers = <<>>
    OBVIOUS
  <2>3. /\ headers \in Seq(WsHeaderType)
        /\ \A i \in DOMAIN headers : /\ wsStarts[headers[i].call] = "started"
                                     /\ headers[i].call = headers[1].call
        /\ \A i \in DOMAIN headers : headers[i].own => headers[i].length = Total(0)
    BY <2>2
  <2>4. /\ UNCHANGED <<wsRequestVars, wsStarts>> /\ wsStarted' = wsStarted
        /\ wsWritten' = wsWritten /\ wsHeaders' \in {wsHeaders, <<>>}
        /\ wsStatus' \in {0, 200, 500}
    BY <1>1, <2>1 DEF WsInv, StartsInv
  <2>5. PICK status : status = 413
    OBVIOUS
  <2>6. Respond(status, headers, 0) /\ (status = 413 <=> wsOverflow)
    BY <1>2, <2>1, <2>2, <2>5
  <2>. QED BY <2>3, <2>4, <2>6, RespondKeeps
<1>3. CASE ~wsOverflow
  <2>1. /\ wsState' = "called" /\ wsStatus' = 500 /\ wsResponse' = wsResponse
        /\ wsEnviron' = [names |-> [n \in WsName |-> ValuesJoined(n)], body |-> wsBody]
    BY <1>3 DEF Complete, RefusesCut
  <2>2. RequestInv' /\ PiecesInv'
    BY <1>1 DEF WsInv, RequestInv, PiecesInv, wsRequestVars
  <2>3. CalledInv'
    <3>1. wsBody = wsPieces
      BY <1>3 DEF WsInv, PiecesInv
    <3>2. \A n \in WsName : wsEnviron'.names[n] = ValuesJoined(n)
      BY <2>1
    <3>3. \A n \in WsName : wsEnviron'.names[n] = ValuesSent(wsLines, n)
      BY <3>2, JoinedIs
    <3>4. wsLines' = wsLines /\ wsPieces' = wsPieces /\ wsOverflow' = wsOverflow
      BY <1>1 DEF wsRequestVars
    <3>5. wsEnviron'.body = wsPieces
      BY <2>1, <3>1
    <3>. QED BY <1>3, <3>3, <3>4, <3>5 DEF CalledInv
  <2>4. ResponseInv'
    BY <1>1, <2>1 DEF WsInv, ResponseInv, HeadersOfOneStart, AnnouncedIsWritten
  <2>5. StartsInv'
    BY <1>1, <2>1 DEF WsInv, StartsInv
  <2>. QED BY <2>2, <2>3, <2>4, <2>5 DEF WsInv
<1>4. wsOverflow \in BOOLEAN
  BY DEF WsInv, PiecesInv
<1>. QED BY <1>2, <1>3, <1>4

-----------------------------------------------------------------------------
(* The application.                                                          *)

\* Headers that one call gives.
LEMMA GivenAre ==
    ASSUME NEW call \in Nat, NEW own \in BOOLEAN, NEW length \in Nat,
           NEW given, given = HeadersGiven(call, own, length)
    PROVE  /\ given \in Seq(WsHeaderType)
           /\ \A i \in 1..Len(given) : given[i].call = call
<1>1. PICK a, b : a = [call |-> call, own |-> FALSE, length |-> 0]
                  /\ b = [call |-> call, own |-> TRUE, length |-> length]
  OBVIOUS
<1>2. a \in WsHeaderType /\ b \in WsHeaderType /\ a.call = call /\ b.call = call
  BY <1>1 DEF WsHeaderType
<1>3. CASE own
  <2>1. given = <<a, b>>
    BY <1>1, <1>3, OneAndOne DEF HeadersGiven
  <2>2. given \in Seq(WsHeaderType) /\ Len(given) = 2 /\ given[1] = a /\ given[2] = b
    BY <1>2, <2>1
  <2>3. \A i \in 1..2 : i = 1 \/ i = 2
    OBVIOUS
  <2>. QED BY <1>2, <2>2, <2>3
<1>4. CASE ~own
  <2>1. <<a>> \in Seq(WsHeaderType)
    BY <1>2
  <2>2. given = <<a>>
    BY <1>1, <1>2, <1>4, <2>1, JoinedToNothing DEF HeadersGiven
  <2>3. Len(given) = 1 /\ given[1] = a
    BY <2>2
  <2>4. \A i \in 1..1 : i = 1
    OBVIOUS
  <2>. QED BY <1>2, <2>1, <2>2, <2>3, <2>4
<1>. QED BY <1>3, <1>4

\* A call that raises or is refused leaves a response as it was, or none that has started.
LEMMA StartResponseCalledKeeps ==
    ASSUME WsInv, NEW exception \in BOOLEAN, StartResponseCalled(exception)
    PROVE  WsInv'
<1>1. PICK call : call = Len(wsStarts) + 1
  OBVIOUS
<1>2. PICK how \in {"raised", "refused", "started"} : wsStarts' = Append(wsStarts, how)
  BY DEF StartResponseCalled
<1>3. /\ wsState = "called" /\ (exception <=> wsStarts # <<>>)
      /\ UNCHANGED <<wsRequestVars, wsState, wsEnviron, wsWritten, wsResponse>>
  BY DEF StartResponseCalled
<1>4. /\ wsStarts \in Seq({"raised", "refused", "started"}) /\ wsStarted \in BOOLEAN
      /\ wsHeaders \in Seq(WsHeaderType) /\ wsWritten \in Nat
      /\ wsStarts = <<>> => ~wsStarted /\ wsHeaders = <<>>
      /\ wsStarted => OfOneStart(wsHeaders, wsStarts)
      /\ wsStatus \in {0, 200, 500}
  BY DEF WsInv, StartsInv
<1>5. /\ wsStarts' \in Seq({"raised", "refused", "started"})
      /\ wsStarts' # <<>> /\ Len(wsStarts') = call /\ call \in Nat
      /\ wsStarts'[call] = how /\ call \in 1..Len(wsStarts')
      /\ \A i \in 1..Len(wsStarts) : wsStarts'[i] = wsStarts[i] /\ i \in 1..Len(wsStarts')
  BY <1>1, <1>2, <1>4
<1>6. RequestInv' /\ PiecesInv' /\ CalledInv'
  BY <1>3 DEF WsInv, RequestInv, PiecesInv, CalledInv, wsRequestVars
<1>7. ResponseInv'
  <2>1. wsState' = "called" /\ wsResponse' = wsResponse
    BY <1>3
  <2>2. wsResponse.status # 413
    BY <1>3 DEF WsInv, ResponseInv
  <2>3. HeadersOfOneStart' /\ AnnouncedIsWritten'
    BY <2>1 DEF HeadersOfOneStart, AnnouncedIsWritten
  <2>. QED BY <2>1, <2>2, <2>3 DEF ResponseInv
<1>8. PICK over : over = StartsOver(exception)
  OBVIOUS
<1>9. over \in Seq(WsHeaderType)
  <2>1. <<>> \in Seq(WsHeaderType)
    OBVIOUS
  <2>. QED BY <1>4, <1>8, <2>1 DEF StartsOver
<1>10. ~(exception /\ wsStarted) => over = <<>> /\ ~wsStarted
  BY <1>3, <1>4, <1>8 DEF StartsOver
<1>11. ASSUME wsStatus' \in {0, 200, 500}, wsStarted' \in BOOLEAN, wsHeaders' \in Seq(WsHeaderType),
              wsStarted' => OfOneStart(wsHeaders', wsStarts')
       PROVE  WsInv'
  <2>1. StartsInv'
    <3>1. wsState' = "called" /\ wsWritten' \in Nat
      BY <1>3, <1>4
    <3>. QED BY <1>5, <1>11, <3>1 DEF StartsInv
  <2>. QED BY <1>6, <1>7, <2>1 DEF WsInv
<1>12. CASE UNCHANGED <<wsStarted, wsStatus, wsHeaders>>
  <2>1. OfOneStart(wsHeaders, wsStarts) => OfOneStart(wsHeaders, wsStarts')
    BY <1>5 DEF OfOneStart
  <2>. QED BY <1>4, <1>11, <1>12, <2>1
<1>13. CASE /\ ~(exception /\ wsStarted)
            /\ wsHeaders' = over /\ UNCHANGED <<wsStarted, wsStatus>>
  BY <1>4, <1>9, <1>10, <1>11, <1>13
<1>14. ASSUME ~(exception /\ wsStarted),
              NEW own \in BOOLEAN, NEW length \in 0..2, NEW stored \in 1..2,
              NEW given, given = HeadersGiven(call, own, length), stored < Len(given),
              wsStatus' = 200, wsHeaders' = over \o SubSeq(given, 1, stored), wsStarted' = wsStarted
       PROVE  WsInv'
  <2>1. given \in Seq(WsHeaderType) /\ length \in Nat
    BY <1>5, <1>14, GivenAre
  <2>2. SubSeq(given, 1, stored) \in Seq(WsHeaderType)
    BY <1>14, <2>1
  <2>3. wsHeaders' \in Seq(WsHeaderType)
    BY <1>9, <1>14, <2>2
  <2>. QED BY <1>4, <1>10, <1>11, <1>14, <2>3
<1>15. ASSUME ~(exception /\ wsStarted), how = "started",
              NEW own \in BOOLEAN, NEW length \in 0..2,
              wsStatus' = 200, wsStarted' = TRUE,
              wsHeaders' = over \o HeadersGiven(call, own, length)
       PROVE  WsInv'
  <2>1. PICK given : given = HeadersGiven(call, own, length)
    OBVIOUS
  <2>2. /\ given \in Seq(WsHeaderType) /\ \A i \in 1..Len(given) : given[i].call = call
    <3>1. length \in Nat
      OBVIOUS
    <3>. QED BY <1>5, <2>1, <3>1, GivenAre
  <2>3. wsHeaders' = given
    <3>1. over = <<>>
      BY <1>10, <1>15
    <3>. QED BY <1>15, <2>1, <2>2, <3>1
  <2>4. \A i \in 1..Len(given) : 1 \in 1..Len(given)
    BY <2>2
  <2>5. OfOneStart(given, wsStarts')
    BY <1>5, <1>15, <2>2, <2>4 DEF OfOneStart
  <2>. QED BY <1>11, <1>15, <2>2, <2>3, <2>5
<1>. QED
  <2>1. \/ UNCHANGED <<wsStarted, wsStatus, wsHeaders>>
        \/ /\ ~(exception /\ wsStarted)
           /\ wsHeaders' = over /\ UNCHANGED <<wsStarted, wsStatus>>
        \/ /\ ~(exception /\ wsStarted)
           /\ \E own \in BOOLEAN, length \in 0..2, stored \in 1..2 :
                 LET given == HeadersGiven(call, own, length)
                 IN  /\ stored < Len(given) /\ wsStatus' = 200
                     /\ wsHeaders' = over \o SubSeq(given, 1, stored)
                     /\ wsStarted' = wsStarted
        \/ /\ ~(exception /\ wsStarted)
           /\ \E own \in BOOLEAN, length \in 0..2 :
                 /\ wsStarts' = Append(wsStarts, "started")
                 /\ wsStatus' = 200 /\ wsStarted' = TRUE
                 /\ wsHeaders' = over \o HeadersGiven(call, own, length)
    BY <1>1, <1>8 DEF StartResponseCalled
  <2>2. wsStarts' = Append(wsStarts, "started") => how = "started"
    BY <1>1, <1>4, <1>5
  <2>. QED BY <1>12, <1>13, <1>14, <1>15, <2>1, <2>2

\* What is written changes nothing that was said of it.
LEMMA WriteCalledKeeps ==
    ASSUME WsInv, WriteCalled
    PROVE  WsInv'
<1>1. /\ wsState = "called" /\ wsWritten' = wsWritten + 1
      /\ UNCHANGED <<wsRequestVars, wsState, wsEnviron, wsStarts, wsStarted, wsStatus, wsHeaders, wsResponse>>
  BY DEF WriteCalled
<1>2. RequestInv' /\ PiecesInv' /\ CalledInv'
  BY <1>1 DEF WsInv, RequestInv, PiecesInv, CalledInv, wsRequestVars
<1>3. ResponseInv'
  BY <1>1 DEF WsInv, ResponseInv, HeadersOfOneStart, AnnouncedIsWritten, wsRequestVars
<1>4. StartsInv'
  BY <1>1 DEF WsInv, StartsInv
<1>. QED BY <1>2, <1>3, <1>4 DEF WsInv

\* An error has no headers of the application.
LEMMA ApplicationRaisesKeeps ==
    ASSUME WsInv, ApplicationRaises
    PROVE  WsInv'
<1>1. PICK headers : headers = <<>>
  OBVIOUS
<1>2. /\ headers \in Seq(WsHeaderType)
      /\ \A i \in DOMAIN headers : /\ wsStarts[headers[i].call] = "started"
                                   /\ headers[i].call = headers[1].call
      /\ \A i \in DOMAIN headers : headers[i].own => headers[i].length = Total(0)
  BY <1>1
<1>3. /\ UNCHANGED <<wsRequestVars, wsStarts>> /\ wsStarted' = wsStarted
      /\ wsWritten' = wsWritten /\ wsHeaders' \in {wsHeaders, <<>>}
      /\ wsStatus' \in {0, 200, 500} /\ wsState = "called"
  BY DEF ApplicationRaises, HeadersDropped
<1>4. Respond(500, headers, 0)
  BY <1>1 DEF ApplicationRaises, HeadersDropped
<1>5. ~wsOverflow
  BY <1>3 DEF WsInv, CalledInv
<1>. QED BY <1>2, <1>3, <1>4, <1>5, RespondKeeps

\* What has started answers with the headers of its start.
LEMMA StartedHeaders ==
    ASSUME WsInv, wsStarted, wsState = "called"
    PROVE  /\ wsHeaders \in Seq(WsHeaderType) /\ wsStatus \in {0, 200, 500} /\ ~wsOverflow
           /\ \A i \in DOMAIN wsHeaders : /\ wsStarts[wsHeaders[i].call] = "started"
                                          /\ wsHeaders[i].call = wsHeaders[1].call
<1>1. /\ wsHeaders \in Seq(WsHeaderType) /\ wsStatus \in {0, 200, 500} /\ ~wsOverflow
      /\ OfOneStart(wsHeaders, wsStarts)
  BY DEF WsInv, StartsInv, CalledInv
<1>2. DOMAIN wsHeaders = 1..Len(wsHeaders)
  BY <1>1
<1>. QED BY <1>1, <1>2 DEF OfOneStart

\* A result has the headers of the call that started it, and the length that they announce.
LEMMA ApplicationReturnsKeeps ==
    ASSUME WsInv, NEW size \in Nat, ApplicationReturns(size)
    PROVE  WsInv'
<1>1. /\ wsState = "called" /\ wsStarted
      /\ \A i \in DOMAIN wsHeaders : wsHeaders[i].own => wsHeaders[i].length = Total(size)
      /\ Respond(wsStatus, wsHeaders, size)
  BY DEF ApplicationReturns, Total
<1>2. /\ UNCHANGED <<wsRequestVars, wsStarts>> /\ wsStarted' = wsStarted
      /\ wsWritten' = wsWritten /\ wsHeaders' \in {wsHeaders, <<>>} /\ wsStatus' = wsStatus
  BY DEF ApplicationReturns, wsAnswerVars
<1>3. /\ wsHeaders \in Seq(WsHeaderType) /\ wsStatus' \in {0, 200, 500} /\ ~wsOverflow
      /\ wsStatus # 413
      /\ \A i \in DOMAIN wsHeaders : /\ wsStarts[wsHeaders[i].call] = "started"
                                     /\ wsHeaders[i].call = wsHeaders[1].call
  BY <1>1, <1>2, StartedHeaders
<1>. QED BY <1>1, <1>2, <1>3, RespondKeeps

\* A failure has the headers of the call that started the response, none of them a length.
LEMMA IterationFailsKeeps ==
    ASSUME WsInv, IterationFails
    PROVE  WsInv'
<1>1. /\ wsState = "called" /\ wsStarted
      /\ WsFailsAnnounced \/ \A i \in DOMAIN wsHeaders : ~wsHeaders[i].own
      /\ Respond(500, wsHeaders, 0)
  BY DEF IterationFails
<1>2. /\ UNCHANGED <<wsRequestVars, wsStarts>> /\ wsStarted' = wsStarted
      /\ wsWritten' = wsWritten /\ wsHeaders' \in {wsHeaders, <<>>} /\ wsStatus' \in {0, 200, 500}
  BY DEF IterationFails
<1>3. /\ wsHeaders \in Seq(WsHeaderType) /\ ~wsOverflow
      /\ \A i \in DOMAIN wsHeaders : /\ wsStarts[wsHeaders[i].call] = "started"
                                     /\ wsHeaders[i].call = wsHeaders[1].call
  BY <1>1, StartedHeaders
<1>. QED BY <1>1, <1>2, <1>3, RespondKeeps

\* Every step keeps the invariant.
LEMMA WsKeeps == WsInv /\ [WsNext]_wsVars => WsInv'
<1>. SUFFICES ASSUME WsInv, [WsNext]_wsVars PROVE WsInv'
  OBVIOUS
<1>1. CASE Lines
  <2>1. PICK name \in WsName \cup {NoName}, value \in {0, Len(wsLines) + 1} :
           (name = NoName => value # 0) /\ Line(name, value)
    BY <1>1 DEF Lines
  <2>2. Len(wsLines) \in Nat
    BY DEF WsInv, RequestInv, GatheredOf
  <2>3. value \in Nat
    BY <2>2
  <2>. QED BY <2>1, <2>3, LineKeeps
<1>2. ASSUME NEW size \in 1..2, Piece(size) PROVE WsInv'
  <2>1. size \in Nat
    OBVIOUS
  <2>. QED BY <1>2, <2>1, PieceKeeps
<1>3. CASE Complete
  BY <1>3, CompleteKeeps
<1>4. ASSUME NEW exception \in BOOLEAN, StartResponseCalled(exception) PROVE WsInv'
  BY <1>4, StartResponseCalledKeeps
<1>5. CASE WriteCalled
  BY <1>5, WriteCalledKeeps
<1>6. CASE ApplicationRaises
  BY <1>6, ApplicationRaisesKeeps
<1>7. ASSUME NEW size \in 0..1, ApplicationReturns(size) PROVE WsInv'
  <2>1. size \in Nat
    OBVIOUS
  <2>. QED BY <1>7, <2>1, ApplicationReturnsKeeps
<1>8. CASE IterationFails
  BY <1>8, IterationFailsKeeps
<1>9. CASE UNCHANGED wsVars
  <2>1. RequestInv' /\ PiecesInv' /\ CalledInv'
    BY <1>9 DEF WsInv, RequestInv, PiecesInv, CalledInv, wsVars, wsRequestVars
  <2>2. StartsInv' /\ ResponseInv'
    BY <1>9 DEF WsInv, StartsInv, ResponseInv, HeadersOfOneStart, AnnouncedIsWritten,
                wsVars, wsRequestVars, wsAnswerVars
  <2>. QED BY <2>1, <2>2 DEF WsInv
<1>. QED BY <1>1, <1>2, <1>3, <1>4, <1>5, <1>6, <1>7, <1>8, <1>9 DEF WsNext

\* The application of a WSGI request is called with all of its fields, under their own names
\* and with their own values in their order, and all of its payload, or is not called; and
\* what is written has the headers of one call of start_response and the length of its own
\* payload (handler.c:346-450, 575-606, 747-853, 900-1040), for any names, any maximum of
\* headers and of the payload and any number of lines, pieces and calls. The application
\* that has announced a length does not fail while its result is gathered: the error would
\* be sent with that length.
THEOREM TheWsgiRequestIsWhole ==
    ASSUME ~WsFailsAnnounced PROVE WsSpec => []RequestIsWhole
<1>1. WsInit => WsInv
  BY WsStarts
<1>2. WsInv /\ [WsNext]_wsVars => WsInv'
  BY WsKeeps
<1>3. WsInv => RequestIsWhole
  BY WsInvGives
<1>. QED BY <1>1, <1>2, <1>3, PTL DEF WsSpec

-----------------------------------------------------------------------------
(***************************************************************************)
(* The inductive invariant of Asgi.                                        *)
(***************************************************************************)
\* The events of an application, and the records of the handler and of its peer.
AsgiEvent == {<<"connect">>, <<"request">>, <<"disconnect">>} \cup MessageEvents
AsgiContextType ==
    [life : {"none", "open", "gone"}, state : {"pending", "started", "headers", "complete"},
     websocket : {"none", "connecting", "connected", "closed"},
     head : BOOLEAN, keep : BOOLEAN, hasBody : BOOLEAN, hasLength : BOOLEAN,
     events : Seq(AsgiEvent), receiving : BOOLEAN, opcode : 0..1, message : Seq(Nat)]
ApplicationType ==
    [task : {"none", "runs", "unwatched", "ended", "over", "cancelled"},
     awaits : SUBSET {"send", "receive"}, seen : Seq(AsgiEvent), parts : Nat, gaveUp : Nat]
PeerType == [sent : Nat, open : Seq(Nat), said : Seq(Seq(Nat)), closed : BOOLEAN]

AsgiTyped ==
    /\ asgiProtocol \in {"http/1", "http/2"}
    /\ asgiLink \in [open : BOOLEAN, acquired : BOOLEAN]
    /\ asgiRequest \in Nat
    /\ context \in [AsgiMessage -> AsgiContextType]
    /\ application \in [AsgiMessage -> ApplicationType]
    /\ asgiQueue \in Seq(WritesIn(AsgiMessage)) /\ asgiWire \in Seq(PartsIn(AsgiMessage))
    /\ websocketPeer \in PeerType

\* Whatever is written or to be written is of a context that is not released, there is one of
\* them under HTTP/1, and none when the connection is closed.
AliveInv ==
    /\ \A i \in 1..Len(asgiWire) : Alive(asgiWire[i].of) /\ asgiWire[i].on = asgiWire[i].of
    /\ \A i \in 1..Len(asgiQueue) : Alive(asgiQueue[i].of)
    /\ \A m \in AsgiMessage :
          /\ Alive(m) => asgiLink.open /\ (asgiProtocol = "http/1" => asgiLink.acquired)
          /\ ~Alive(m) => context[m].websocket = "none"
          /\ context[m].life = "none" => application[m] = NewApplication
          /\ asgiProtocol = "http/1" => \A n \in AsgiMessage : Alive(m) /\ Alive(n) => m = n

\* What a response looks like on the wire, along its state.
WrittenSoFar(c, P, protocol) ==
    /\ c.state \in {"pending", "started"} => P = <<>>
    /\ c.state \in {"headers", "complete"} => P # <<>>
    /\ \A i \in 1..Len(P) :
          /\ P[i].part = IF i = 1 THEN "head"
                         ELSE IF i = Len(P) /\ c.state = "complete" THEN "last" ELSE "chunk"
          /\ P[i].chunked = (~c.hasLength /\ protocol = "http/1")

\* What may have been written for a websocket.
PartsAt(websocket) ==
    CASE websocket = "connecting" -> {"head", "last"}
      [] websocket = "connected" -> {"accept", "frame", "pong"}
      [] OTHER -> {"accept", "frame", "pong", "close", "refusal"}

\* A websocket is of HTTP/1, is refused by the application itself or by the server, and has
\* closed when a closing frame or a refusal was written.
WebsocketSoFar(c, task, P, protocol) ==
    /\ protocol = "http/1" /\ ~c.keep
    /\ c.state = "complete" => c.websocket = "connecting" /\ task = "over"
    /\ c.state \in {"pending", "complete"}
    /\ c.websocket = "connecting" /\ c.state = "pending" => P = <<>>
    /\ \A i \in 1..Len(P) :
          /\ ~P[i].chunked
          /\ P[i].part \in PartsAt(c.websocket)

\* What is on the wire of each message is what the state of its context says.
WireInv ==
    /\ \A m \in AsgiMessage : Alive(m) =>
          IF context[m].websocket = "none" THEN WrittenSoFar(context[m], PartsOf(m), asgiProtocol)
          ELSE WebsocketSoFar(context[m], application[m].task, PartsOf(m), asgiProtocol)
    /\ NothingAfterTheClose

\* The last write of a message is that of a complete response.
QueueInv ==
    /\ \A i \in 1..Len(asgiQueue) :
          asgiQueue[i].last => context[asgiQueue[i].of].state = "complete"
    /\ \A i, j \in 1..Len(asgiQueue) :
          i < j /\ asgiQueue[i].of = asgiQueue[j].of => ~asgiQueue[i].last

\* The peer numbers its frames, of which every message has some.
SaidInOrder(p) ==
    /\ \A i \in 1..Len(p.said) :
          /\ p.said[i] # <<>> /\ p.said[i][1] <= p.sent
          /\ p.open # <<>> => p.said[i][1] < p.open[1]
    /\ p.open # <<>> => p.open[1] <= p.sent
\* Nothing is said on an open connection unless a websocket was accepted on it.
PeerInv ==
    /\ SaidInOrder(websocketPeer)
    /\ asgiLink.open => \/ websocketPeer = NewPeer
                        \/ \E m \in AsgiMessage :
                              Alive(m) /\ context[m].websocket \in {"connected", "closed"}

\* What an application has received of what was said, p, and what it may receive.
Received(c, a) == Those(a.seen \o c.events, MessageEvents)
\* It is told whole messages in their order, and misses as many as the receives it gave up.
DeliveredSoFar(c, a, p) ==
    /\ c.receiving => c.events = <<>>
    /\ "receive" \in a.awaits => c.receiving
    /\ c.message = p.open /\ (c.opcode = 0 <=> p.open = <<>>)
    /\ \A i \in 1..Len(Received(c, a)) :
          \E k \in 1..Len(p.said) : Received(c, a)[i][2] = p.said[k]
    /\ \A i, j \in 1..Len(Received(c, a)) : i < j => Received(c, a)[i][2][1] < Received(c, a)[j][2][1]
    /\ Len(p.said) <= Len(Received(c, a)) + a.gaveUp
    /\ c.receiving /\ "receive" \notin a.awaits => Len(p.said) < Len(Received(c, a)) + a.gaveUp

\* That is so as long as the application runs and the websocket is not closed.
DeliveryInv ==
    \A m \in AsgiMessage :
        /\ context[m].websocket \in {"connecting", "connected"} /\ application[m].task = "runs" =>
              DeliveredSoFar(context[m], application[m], websocketPeer)
        /\ context[m].websocket = "connecting" => websocketPeer = NewPeer

AsgiInv == AsgiTyped /\ AliveInv /\ WireInv /\ QueueInv /\ PeerInv /\ DeliveryInv

-----------------------------------------------------------------------------
(* What the checked property follows from.                                   *)

\* The parts of one message, of any wire.
OfIn(wire, m) == Those(wire, PartsIn({m}))

\* The parts of one message are parts of the wire that are of it, and all of those.
LEMMA PartsAre ==
    ASSUME NEW wire \in Seq(PartsIn(AsgiMessage)), NEW m \in AsgiMessage
    PROVE  /\ OfIn(wire, m) \in Seq(PartsIn(AsgiMessage))
           /\ \A i \in 1..Len(OfIn(wire, m)) :
                 /\ OfIn(wire, m)[i].of = m
                 /\ \E k \in 1..Len(wire) : wire[k] = OfIn(wire, m)[i]
           /\ \A k \in 1..Len(wire) : wire[k].of = m =>
                 \E i \in 1..Len(OfIn(wire, m)) : wire[k] = OfIn(wire, m)[i]
<1>1. PICK P : P = OfIn(wire, m)
  OBVIOUS
<1>2. P \in Seq(PartsIn(AsgiMessage)) /\ ToSet(P) = ToSet(wire) \cap PartsIn({m})
  BY <1>1, ThoseOf DEF OfIn
<1>3. DOMAIN wire = 1..Len(wire) /\ DOMAIN P = 1..Len(P)
  BY <1>2
<1>4. \A i \in 1..Len(P) : P[i].of = m /\ \E k \in 1..Len(wire) : wire[k] = P[i]
  <2>1. \A i \in 1..Len(P) : P[i] \in ToSet(P)
    BY <1>3 DEF ToSet
  <2>2. \A p \in PartsIn({m}) : p.of = m
    BY DEF PartsIn
  <2>3. \A i \in 1..Len(P) : P[i] \in ToSet(wire) /\ P[i].of = m
    BY <1>2, <2>1, <2>2
  <2>. QED BY <1>3, <2>3 DEF ToSet
<1>5. ASSUME NEW k \in 1..Len(wire), wire[k].of = m PROVE \E i \in 1..Len(P) : wire[k] = P[i]
  <2>1. wire[k] \in PartsIn(AsgiMessage)
    OBVIOUS
  <2>2. wire[k] \in PartsIn({m})
    BY <1>5, <2>1 DEF PartsIn
  <2>3. wire[k] \in ToSet(wire)
    BY <1>3 DEF ToSet
  <2>4. wire[k] \in ToSet(P)
    BY <1>2, <2>2, <2>3
  <2>. QED BY <1>3, <2>4 DEF ToSet
<1>. QED BY <1>1, <1>2, <1>4, <1>5

\* The inductive invariant has what is checked: whatever an application has written is whole, on
\* its own message and framed as announced (handler_asgi.c:187, 243, 1362), and what it received
\* of its websocket is what was said (handler_asgi.c:2404).
LEMMA AsgiInvIsEnough == AsgiInv => TasksKeepTheirOwn
<1>. SUFFICES ASSUME AsgiInv PROVE TasksKeepTheirOwn
  OBVIOUS
<1>. USE DEF AsgiInv
<1>1. AsgiTypeOK
  <2>1. ASSUME NEW m \in AsgiMessage
        PROVE  /\ Types(context[m])
               /\ application[m].task \in {"none", "runs", "unwatched", "ended", "over", "cancelled"}
               /\ application[m].awaits \subseteq {"send", "receive"}
    <3>1. context[m] \in AsgiContextType /\ application[m] \in ApplicationType
      BY DEF AsgiTyped
    <3>2. Types(context[m])
      BY <3>1 DEF Types, AsgiContextType
    <3>. QED BY <3>1, <3>2 DEF ApplicationType
  <2>. QED BY <2>1 DEF AsgiTypeOK, AliveInv
<1>2. ASSUME NEW m \in AsgiMessage
      PROVE  /\ PartsOf(m) = OfIn(asgiWire, m) /\ PartsOf(m) \in Seq(PartsIn(AsgiMessage))
             /\ ~Alive(m) => Len(PartsOf(m)) = 0
  <2>1. PartsOf(m) = OfIn(asgiWire, m)
    BY DEF PartsOf, OfIn
  <2>2. asgiWire \in Seq(PartsIn(AsgiMessage))
    BY DEF AsgiTyped
  <2>3. PartsOf(m) \in Seq(PartsIn(AsgiMessage)) /\ \A i \in 1..Len(PartsOf(m)) : Alive(m)
    <3>1. PICK P : P = OfIn(asgiWire, m)
      OBVIOUS
    <3>2. /\ P \in Seq(PartsIn(AsgiMessage))
          /\ \A i \in 1..Len(P) : P[i].of = m /\ \E k \in 1..Len(asgiWire) : asgiWire[k] = P[i]
      BY <2>2, <3>1, PartsAre
    <3>3. \A k \in 1..Len(asgiWire) : Alive(asgiWire[k].of)
      BY DEF AliveInv
    <3>4. \A i \in 1..Len(P) : Alive(m)
      BY <3>2, <3>3
    <3>. QED BY <2>1, <3>1, <3>2, <3>4
  <2>. QED BY <2>1, <2>3
<1>3. OnItsOwnMessage
  BY DEF OnItsOwnMessage, AliveInv
<1>4. ResponsesAreWhole
  <2>1. ASSUME NEW m \in AsgiMessage, context[m].websocket = "none", Alive(m),
               NEW n \in 1..Len(PartsOf(m))
        PROVE  /\ PartsOf(m)[n].part = "head" <=> n = 1
               /\ PartsOf(m)[n].part = "last" => n = Len(PartsOf(m)) /\ context[m].state = "complete"
    <3>1. WrittenSoFar(context[m], PartsOf(m), asgiProtocol)
      BY <2>1 DEF WireInv
    <3>. QED BY <3>1 DEF WrittenSoFar
  <2>2. ASSUME asgiProtocol = "http/1", NEW i \in 1..Len(asgiWire), NEW j \in 1..Len(asgiWire)
        PROVE  asgiWire[i].of <= asgiWire[j].of
    <3>1. asgiWire[i] \in PartsIn(AsgiMessage) /\ asgiWire[j] \in PartsIn(AsgiMessage)
      BY DEF AsgiTyped
    <3>2. asgiWire[i].of \in AsgiMessage /\ asgiWire[j].of \in AsgiMessage
      BY <3>1 DEF PartsIn
    <3>3. asgiWire[i].of = asgiWire[j].of
      BY <2>2, <3>2 DEF AliveInv
    <3>. QED BY <3>2, <3>3, AsgiAssumption
  <2>3. ASSUME NEW m \in AsgiMessage
        PROVE  LET parts == PartsOf(m) IN
          /\ context[m].websocket = "none" /\ Alive(m) =>
               \A n \in 1..Len(parts) :
                  /\ parts[n].part = "head" <=> n = 1
                  /\ parts[n].part = "last" => n = Len(parts) /\ context[m].state = "complete"
          /\ asgiProtocol = "http/1" =>
               \A i, j \in 1..Len(asgiWire) : i < j => asgiWire[i].of <= asgiWire[j].of
    BY <2>1, <2>2
  <2>. QED BY <2>3 DEF ResponsesAreWhole
<1>5. FramedAsAnnounced
  <2>1. ASSUME NEW m \in AsgiMessage, NEW n \in 1..Len(PartsOf(m))
        PROVE  /\ PartsOf(m)[n].chunked = PartsOf(m)[1].chunked
               /\ PartsOf(m)[n].chunked => asgiProtocol = "http/1"
    <3>1. Alive(m) /\ 1 \in 1..Len(PartsOf(m))
      BY <1>2, <2>1
    <3>2. CASE context[m].websocket = "none"
      <4>1. WrittenSoFar(context[m], PartsOf(m), asgiProtocol)
        BY <3>1, <3>2 DEF WireInv
      <4>2. /\ PartsOf(m)[n].chunked = (~context[m].hasLength /\ asgiProtocol = "http/1")
            /\ PartsOf(m)[1].chunked = (~context[m].hasLength /\ asgiProtocol = "http/1")
        BY <3>1, <4>1 DEF WrittenSoFar
      <4>. QED BY <4>2
    <3>3. CASE context[m].websocket # "none"
      <4>1. WebsocketSoFar(context[m], application[m].task, PartsOf(m), asgiProtocol)
        BY <3>1, <3>3 DEF WireInv
      <4>2. ~PartsOf(m)[n].chunked /\ ~PartsOf(m)[1].chunked
        BY <3>1, <4>1 DEF WebsocketSoFar
      <4>3. PartsOf(m)[n].chunked \in BOOLEAN /\ PartsOf(m)[1].chunked \in BOOLEAN
        <5>1. PartsOf(m)[n] \in PartsIn(AsgiMessage) /\ PartsOf(m)[1] \in PartsIn(AsgiMessage)
          BY <1>2, <3>1
        <5>. QED BY <5>1 DEF PartsIn
      <4>. QED BY <4>2, <4>3
    <3>. QED BY <3>2, <3>3
  <2>2. ASSUME NEW m \in AsgiMessage
        PROVE  LET parts == PartsOf(m) IN
          \A n \in 1..Len(parts) :
             /\ parts[n].part \in {"chunk", "last"} => parts[n].chunked = parts[1].chunked
             /\ parts[n].chunked => asgiProtocol = "http/1"
    BY <2>1
  <2>. QED BY <2>2 DEF FramedAsAnnounced
<1>6. OneApplication
  <2>1. PICK A : A = {m \in AsgiMessage : Alive(m)}
    OBVIOUS
  <2>2. CASE A = {}
    BY <2>1, <2>2, FS_EmptySet DEF OneApplication
  <2>3. CASE asgiProtocol = "http/1" /\ A # {}
    <3>1. PICK x \in A : TRUE
      BY <2>3
    <3>2. A = {x}
      BY <2>1, <2>3, <3>1 DEF AliveInv
    <3>3. Cardinality(A) = 1
      BY <3>2, FS_Singleton
    <3>. QED BY <2>1, <3>3 DEF OneApplication
  <2>. QED BY <2>2, <2>3 DEF OneApplication
<1>7. NothingAfterTheClose
  BY DEF WireInv
<1>8. MessagesAreDelivered
  <2>. SUFFICES ASSUME NEW m \in AsgiMessage, context[m].websocket = "connected",
                       application[m].task = "runs"
                PROVE  LET events == Received(context[m], application[m])
                           received == [n \in 1..Len(events) |-> events[n][2]]
                       IN  /\ Range(received) \subseteq Range(websocketPeer.said)
                           /\ \A i, j \in 1..Len(received) : i < j => received[i][1] < received[j][1]
                           /\ Len(websocketPeer.said) - Len(received) <= application[m].gaveUp
    BY DEF MessagesAreDelivered, Received
  <2>1. PICK E, R, S : /\ E = Received(context[m], application[m])
                       /\ R = [n \in 1..Len(E) |-> E[n][2]] /\ S = websocketPeer.said
    OBVIOUS
  <2>2. /\ \A i \in 1..Len(E) : \E k \in 1..Len(S) : E[i][2] = S[k]
        /\ \A i, j \in 1..Len(E) : i < j => E[i][2][1] < E[j][2][1]
        /\ Len(S) <= Len(E) + application[m].gaveUp
    BY <2>1 DEF DeliveryInv, DeliveredSoFar
  <2>3. Len(E) \in Nat /\ Len(S) \in Nat /\ DOMAIN S = 1..Len(S) /\ application[m].gaveUp \in Nat
    <3>1. context[m] \in AsgiContextType /\ application[m] \in ApplicationType
          /\ websocketPeer \in PeerType
      BY DEF AsgiTyped
    <3>2. /\ context[m].events \in Seq(AsgiEvent) /\ application[m].seen \in Seq(AsgiEvent)
          /\ application[m].gaveUp \in Nat /\ S \in Seq(Seq(Nat))
      BY <2>1, <3>1 DEF AsgiContextType, ApplicationType, PeerType
    <3>3. application[m].seen \o context[m].events \in Seq(AsgiEvent)
      BY <3>2
    <3>4. E \in Seq(AsgiEvent)
      BY <2>1, <3>3, ThoseOf DEF Received
    <3>. QED BY <3>2, <3>4
  <2>4. Len(R) = Len(E) /\ DOMAIN R = 1..Len(E)
    BY <2>1, <2>3
  <2>5. Range(R) \subseteq Range(S)
    <3>1. \A i \in 1..Len(E) : R[i] = E[i][2] /\ \E k \in 1..Len(S) : R[i] = S[k]
      BY <2>1, <2>2
    <3>. QED BY <2>3, <2>4, <3>1 DEF Range
  <2>6. \A i, j \in 1..Len(R) : i < j => R[i][1] < R[j][1]
    BY <2>1, <2>2, <2>4
  <2>7. Len(S) - Len(R) <= application[m].gaveUp
    BY <2>2, <2>3, <2>4
  <2>. QED BY <2>1, <2>5, <2>6, <2>7
<1>. QED BY <1>1, <1>3, <1>4, <1>5, <1>6, <1>7, <1>8 DEF TasksKeepTheirOwn

-----------------------------------------------------------------------------
(* A step of one message.                                                    *)

\* A sequence whose elements are in a larger set.
LEMMA InMore ==
    ASSUME NEW A, NEW B, A \subseteq B, NEW s \in Seq(A)
    PROVE  s \in Seq(B) /\ \A i \in 1..Len(s) : s[i] \in A
<1>1. /\ Len(s) \in Nat /\ DOMAIN s = 1..Len(s) /\ \A i \in 1..Len(s) : s[i] \in A
      /\ s = [i \in 1..Len(s) |-> s[i]]
  OBVIOUS
<1>2. \A i \in 1..Len(s) : s[i] \in B
  BY <1>1
<1>. QED BY <1>1, <1>2

\* What is written for a message comes after what was written for it, and is nothing of another
\* one (handler_asgi.c:226).
LEMMA OfJoined ==
    ASSUME NEW wire \in Seq(PartsIn(AsgiMessage)), NEW m \in AsgiMessage,
           NEW parts \in Seq(PartsIn({m})), NEW n \in AsgiMessage
    PROVE  /\ wire \o parts \in Seq(PartsIn(AsgiMessage))
           /\ OfIn(wire \o parts, n) = IF n = m THEN OfIn(wire, m) \o parts ELSE OfIn(wire, n)
<1>1. PartsIn({m}) \subseteq PartsIn(AsgiMessage)
  BY DEF PartsIn
<1>2. parts \in Seq(PartsIn(AsgiMessage)) /\ \A i \in 1..Len(parts) : parts[i] \in PartsIn({m})
  BY <1>1, InMore
<1>3. wire \o parts \in Seq(PartsIn(AsgiMessage))
  BY <1>2
<1>4. CASE n = m
  <2>1. Those(wire \o parts, PartsIn({m})) = Those(wire, PartsIn({m})) \o parts
    BY <1>2, ThoseJoined
  <2>. QED BY <1>3, <1>4, <2>1 DEF OfIn
<1>5. CASE n # m
  <2>1. \A p \in PartsIn({m}) : p \notin PartsIn({n})
    BY <1>5 DEF PartsIn
  <2>2. Those(wire \o parts, PartsIn({n})) = Those(wire, PartsIn({n}))
    BY <1>2, <2>1, ThoseJoined
  <2>. QED BY <1>3, <1>5, <2>2 DEF OfIn
<1>. QED BY <1>4, <1>5

\* Of a context that is not alive nothing is written or to be written.
LEMMA NothingOfTheGone ==
    ASSUME AsgiInv, NEW m \in AsgiMessage, ~Alive(m)
    PROVE  /\ PartsOf(m) = <<>>
           /\ \A i \in 1..Len(asgiQueue) : asgiQueue[i].of # m
<1>1. asgiWire \in Seq(PartsIn(AsgiMessage)) /\ PartsOf(m) = OfIn(asgiWire, m)
  BY DEF AsgiInv, AsgiTyped, PartsOf, OfIn
<1>2. PICK P : P = PartsOf(m)
  OBVIOUS
<1>3. /\ P \in Seq(PartsIn(AsgiMessage))
      /\ \A i \in 1..Len(P) : P[i].of = m /\ \E k \in 1..Len(asgiWire) : asgiWire[k] = P[i]
  BY <1>1, <1>2, PartsAre
<1>4. \A k \in 1..Len(asgiWire) : Alive(asgiWire[k].of)
  BY DEF AsgiInv, AliveInv
<1>5. \A i \in 1..Len(P) : FALSE
  BY <1>3, <1>4
<1>6. P = <<>>
  BY <1>3, <1>5
<1>. QED BY <1>2, <1>6 DEF AsgiInv, AliveInv

\* What closed a websocket is of one that is closed.
LEMMA CloseIsOfClosed ==
    ASSUME AsgiInv, NEW i \in 1..Len(asgiWire), asgiWire[i].part \in {"close", "refusal"}
    PROVE  /\ asgiWire[i].of \in AsgiMessage /\ Alive(asgiWire[i].of)
           /\ context[asgiWire[i].of].websocket = "closed" /\ asgiProtocol = "http/1"
<1>1. asgiWire \in Seq(PartsIn(AsgiMessage))
  BY DEF AsgiInv, AsgiTyped
<1>2. PICK m : m = asgiWire[i].of
  OBVIOUS
<1>3. m \in AsgiMessage /\ Alive(m)
  <2>1. asgiWire[i] \in PartsIn(AsgiMessage)
    BY <1>1
  <2>. QED BY <1>2, <2>1 DEF PartsIn, AsgiInv, AliveInv
<1>4. PICK P : P = PartsOf(m)
  OBVIOUS
<1>5. PICK k \in 1..Len(P) : asgiWire[i] = P[k]
  <2>1. P = OfIn(asgiWire, m)
    BY <1>4 DEF PartsOf, OfIn
  <2>2. \A k \in 1..Len(asgiWire) : asgiWire[k].of = m => \E l \in 1..Len(P) : asgiWire[k] = P[l]
    BY <1>1, <1>3, <2>1, PartsAre, ZenonT(30)
  <2>. QED BY <1>2, <2>2
<1>6. P[k].part \in {"close", "refusal"}
  BY <1>5
<1>7. CASE context[m].websocket = "none"
  <2>1. WrittenSoFar(context[m], P, asgiProtocol)
    BY <1>3, <1>4, <1>7 DEF AsgiInv, WireInv
  <2>. QED BY <1>6, <2>1 DEF WrittenSoFar
<1>8. CASE context[m].websocket # "none"
  <2>1. WebsocketSoFar(context[m], application[m].task, P, asgiProtocol)
    BY <1>3, <1>4, <1>8 DEF AsgiInv, WireInv
  <2>2. context[m].websocket \in {"none", "connecting", "connected", "closed"}
    <3>1. context[m] \in AsgiContextType
      BY <1>3 DEF AsgiInv, AsgiTyped
    <3>. QED BY <3>1 DEF AsgiContextType
  <2>3. context[m].websocket = "closed" /\ asgiProtocol = "http/1"
    BY <1>6, <1>8, <2>1, <2>2 DEF WebsocketSoFar, PartsAt
  <2>. QED BY <1>2, <1>3, <2>3
<1>. QED BY <1>7, <1>8

\* A step that takes message m to c and a, writes parts of it and adds writes to be called
\* back, and leaves the others as they are.
StepOf(m, c, a, parts, writes) ==
    /\ asgiProtocol' = asgiProtocol
    /\ asgiLink' \in [open : BOOLEAN, acquired : BOOLEAN]
    /\ asgiLink.open /\ asgiLink'.open /\ (asgiProtocol = "http/1" => asgiLink'.acquired)
    /\ asgiRequest' \in {asgiRequest, m}
    /\ context' = [context EXCEPT ![m] = c] /\ application' = [application EXCEPT ![m] = a]
    /\ asgiWire' = asgiWire \o parts /\ asgiQueue' = asgiQueue \o writes

\* What the step has to keep to.
SoundStep(m, c, a, parts, writes) ==
    /\ c \in AsgiContextType /\ c.life = "open" /\ a \in ApplicationType
    /\ Alive(m) \/ asgiProtocol = "http/2" \/ \A n \in AsgiMessage : ~Alive(n)
    /\ parts \in Seq(PartsIn({m})) /\ \A i \in 1..Len(parts) : parts[i].on = m
    /\ writes \in Seq(WritesIn({m})) /\ Len(writes) <= 1
    /\ Alive(m) /\ context[m].state = "complete" => c.state = "complete" /\ writes = <<>>
    /\ \A i \in 1..Len(writes) : writes[i].last => c.state = "complete"
    /\ IF c.websocket = "none" THEN WrittenSoFar(c, PartsOf(m) \o parts, asgiProtocol)
       ELSE WebsocketSoFar(c, a.task, PartsOf(m) \o parts, asgiProtocol)
    /\ Alive(m) /\ context[m].websocket = "closed" => \A i \in 1..Len(parts) : parts[i].part = "pong"
    /\ \A i \in 1..Len(parts) : parts[i].part \in {"close", "refusal"} => Len(parts) = 1

\* A step of one message keeps the types.
LEMMA StepIsTyped ==
    ASSUME AsgiInv, NEW m \in AsgiMessage, NEW c, NEW a, NEW parts, NEW writes,
           StepOf(m, c, a, parts, writes), SoundStep(m, c, a, parts, writes),
           websocketPeer' \in PeerType
    PROVE  AsgiTyped'
<1>1. /\ context' \in [AsgiMessage -> AsgiContextType] /\ application' \in [AsgiMessage -> ApplicationType]
  BY DEF AsgiInv, AsgiTyped, StepOf, SoundStep
<1>2. asgiWire' \in Seq(PartsIn(AsgiMessage))
  BY OfJoined DEF AsgiInv, AsgiTyped, StepOf, SoundStep
<1>3. asgiQueue' \in Seq(WritesIn(AsgiMessage))
  <2>1. WritesIn({m}) \subseteq WritesIn(AsgiMessage)
    BY DEF WritesIn
  <2>2. writes \in Seq(WritesIn(AsgiMessage)) /\ asgiQueue \in Seq(WritesIn(AsgiMessage))
    BY <2>1, InMore DEF SoundStep, AsgiInv, AsgiTyped
  <2>. QED BY <2>2 DEF StepOf
<1>4. asgiRequest' \in Nat /\ asgiProtocol' \in {"http/1", "http/2"}
  BY AsgiAssumption DEF AsgiInv, AsgiTyped, StepOf
<1>. QED BY <1>1, <1>2, <1>3, <1>4 DEF AsgiTyped, StepOf

\* What of the wire and of the queue is of which message, after the step.
LEMMA StepAdds ==
    ASSUME AsgiInv, NEW m \in AsgiMessage, NEW c, NEW a, NEW parts, NEW writes,
           StepOf(m, c, a, parts, writes), SoundStep(m, c, a, parts, writes)
    PROVE  /\ \A n \in AsgiMessage : /\ context'[n] = IF n = m THEN c ELSE context[n]
                                     /\ application'[n] = IF n = m THEN a ELSE application[n]
           /\ \A i \in 1..Len(asgiWire') :
                 \/ i \in 1..Len(asgiWire) /\ asgiWire'[i] = asgiWire[i]
                 \/ /\ i \notin 1..Len(asgiWire) /\ i - Len(asgiWire) \in 1..Len(parts)
                    /\ asgiWire'[i] = parts[i - Len(asgiWire)]
                    /\ asgiWire'[i].of = m /\ asgiWire'[i].on = m
           /\ \A i \in 1..Len(asgiQueue') :
                 \/ i \in 1..Len(asgiQueue) /\ asgiQueue'[i] = asgiQueue[i]
                 \/ /\ i = Len(asgiQueue) + 1 /\ writes # <<>> /\ 1 \in 1..Len(writes)
                    /\ asgiQueue'[i] = writes[1] /\ asgiQueue'[i].of = m
           /\ Len(asgiWire) \in Nat /\ Len(asgiQueue) \in Nat
<1>1. \A n \in AsgiMessage : /\ context'[n] = IF n = m THEN c ELSE context[n]
                             /\ application'[n] = IF n = m THEN a ELSE application[n]
  BY DEF AsgiInv, AsgiTyped, StepOf
<1>2. /\ asgiWire \in Seq(PartsIn(AsgiMessage)) /\ parts \in Seq(PartsIn({m}))
      /\ \A i \in 1..Len(parts) : parts[i].on = m
      /\ asgiWire' = asgiWire \o parts
  BY DEF AsgiInv, AsgiTyped, StepOf, SoundStep
<1>3. /\ asgiQueue \in Seq(WritesIn(AsgiMessage)) /\ writes \in Seq(WritesIn({m}))
      /\ Len(writes) <= 1 /\ asgiQueue' = asgiQueue \o writes
  BY DEF AsgiInv, AsgiTyped, StepOf, SoundStep
<1>4. ASSUME NEW i \in 1..Len(asgiWire')
      PROVE  \/ i \in 1..Len(asgiWire) /\ asgiWire'[i] = asgiWire[i]
             \/ /\ i \notin 1..Len(asgiWire) /\ i - Len(asgiWire) \in 1..Len(parts)
                /\ asgiWire'[i] = parts[i - Len(asgiWire)]
                /\ asgiWire'[i].of = m /\ asgiWire'[i].on = m
  <2>1. /\ Len(asgiWire') = Len(asgiWire) + Len(parts) /\ Len(asgiWire) \in Nat /\ Len(parts) \in Nat
        /\ asgiWire'[i] = IF i <= Len(asgiWire) THEN asgiWire[i] ELSE parts[i - Len(asgiWire)]
    BY <1>2
  <2>2. CASE i <= Len(asgiWire)
    BY <2>1, <2>2
  <2>3. CASE ~(i <= Len(asgiWire))
    <3>1. PICK k : k = i - Len(asgiWire)
      OBVIOUS
    <3>2. k \in 1..Len(parts) /\ asgiWire'[i] = parts[k] /\ i \notin 1..Len(asgiWire)
      BY <2>1, <2>3, <3>1
    <3>3. parts[k] \in PartsIn({m}) /\ parts[k].on = m
      BY <1>2, <3>2
    <3>4. parts[k].of = m
      BY <3>3 DEF PartsIn
    <3>. QED BY <3>1, <3>2, <3>3, <3>4
  <2>. QED BY <2>2, <2>3
<1>5. ASSUME NEW i \in 1..Len(asgiQueue')
      PROVE  \/ i \in 1..Len(asgiQueue) /\ asgiQueue'[i] = asgiQueue[i]
             \/ /\ i = Len(asgiQueue) + 1 /\ writes # <<>> /\ 1 \in 1..Len(writes)
                /\ asgiQueue'[i] = writes[1] /\ asgiQueue'[i].of = m
  <2>1. /\ Len(asgiQueue') = Len(asgiQueue) + Len(writes) /\ Len(asgiQueue) \in Nat /\ Len(writes) \in Nat
        /\ asgiQueue'[i] = IF i <= Len(asgiQueue) THEN asgiQueue[i] ELSE writes[i - Len(asgiQueue)]
    BY <1>3
  <2>2. CASE i <= Len(asgiQueue)
    BY <2>1, <2>2
  <2>3. CASE ~(i <= Len(asgiQueue))
    <3>1. i - Len(asgiQueue) = 1 /\ Len(writes) = 1 /\ i = Len(asgiQueue) + 1
      <4>1. Len(writes) <= 1
        BY <1>3
      <4>2. PICK q, w, l : q = Len(asgiQueue) /\ w = Len(writes) /\ l = Len(asgiQueue')
        OBVIOUS
      <4>3. q \in Nat /\ w \in Nat /\ w <= 1 /\ l = q + w /\ i \in 1..l /\ ~(i <= q)
        BY <2>1, <2>3, <4>1, <4>2
      <4>4. i - q = 1 /\ w = 1 /\ i = q + 1
        BY <4>3
      <4>. QED BY <4>2, <4>4
    <3>2. 1 \in 1..Len(writes) /\ writes[1] \in WritesIn({m}) /\ writes # <<>>
      BY <1>3, <3>1
    <3>3. writes[1].of = m
      BY <3>2 DEF WritesIn
    <3>. QED BY <2>1, <2>3, <3>1, <3>2, <3>3
  <2>. QED BY <2>2, <2>3
<1>. QED BY <1>1, <1>2, <1>3, <1>4, <1>5

\* A step of one message writes for that one alone, and its context is not released
\* (handler_asgi.c:226).
LEMMA StepIsAlive ==
    ASSUME AsgiInv, NEW m \in AsgiMessage, NEW c, NEW a, NEW parts, NEW writes,
           StepOf(m, c, a, parts, writes), SoundStep(m, c, a, parts, writes)
    PROVE  AliveInv'
<1>1. /\ \A n \in AsgiMessage : /\ context'[n] = IF n = m THEN c ELSE context[n]
                                /\ application'[n] = IF n = m THEN a ELSE application[n]
      /\ \A i \in 1..Len(asgiWire') :
            \/ i \in 1..Len(asgiWire) /\ asgiWire'[i] = asgiWire[i]
            \/ asgiWire'[i].of = m /\ asgiWire'[i].on = m
      /\ \A i \in 1..Len(asgiQueue') :
            \/ i \in 1..Len(asgiQueue) /\ asgiQueue'[i] = asgiQueue[i]
            \/ asgiQueue'[i].of = m
  BY StepAdds
<1>2. c.life = "open"
  BY DEF SoundStep
<1>3. \A n \in AsgiMessage : context'[n].life = "open" <=> n = m \/ Alive(n)
  BY <1>1, <1>2 DEF Alive
<1>4. /\ asgiProtocol' = asgiProtocol /\ asgiLink'.open
      /\ asgiProtocol = "http/1" => asgiLink'.acquired
  BY DEF StepOf
<1>5. AliveInv /\ asgiWire \in Seq(PartsIn(AsgiMessage)) /\ asgiQueue \in Seq(WritesIn(AsgiMessage))
  BY DEF AsgiInv, AsgiTyped
<1>6. /\ \A i \in 1..Len(asgiWire) : asgiWire[i].of \in AsgiMessage
      /\ \A i \in 1..Len(asgiQueue) : asgiQueue[i].of \in AsgiMessage
  <2>1. /\ \A i \in 1..Len(asgiWire) : asgiWire[i] \in PartsIn(AsgiMessage)
        /\ \A i \in 1..Len(asgiQueue) : asgiQueue[i] \in WritesIn(AsgiMessage)
    BY <1>5
  <2>. QED BY <2>1 DEF PartsIn, WritesIn
<1>7. \A i \in 1..Len(asgiWire') : /\ context'[asgiWire'[i].of].life = "open"
                                    /\ asgiWire'[i].on = asgiWire'[i].of
  BY <1>1, <1>3, <1>5, <1>6 DEF AliveInv
<1>8. \A i \in 1..Len(asgiQueue') : context'[asgiQueue'[i].of].life = "open"
  BY <1>1, <1>3, <1>5, <1>6 DEF AliveInv
<1>9. \A n \in AsgiMessage : /\ context'[n].life # "open" => context'[n].websocket = "none"
                             /\ context'[n].life = "none" => application'[n] = NewApplication
  BY <1>1, <1>2, <1>3, <1>5 DEF AliveInv
<1>10. asgiProtocol = "http/1" =>
          \A k, n \in AsgiMessage : context'[k].life = "open" /\ context'[n].life = "open" => k = n
  <2>1. asgiProtocol = "http/1" => Alive(m) \/ \A n \in AsgiMessage : ~Alive(n)
    BY DEF SoundStep
  <2>. QED BY <1>3, <1>5, <2>1 DEF AliveInv
<1>. QED BY <1>4, <1>7, <1>8, <1>9, <1>10 DEF AliveInv, Alive

\* What is sent after a closing frame is the answers to a ping, in what the step adds too.
LEMMA StepWire ==
    ASSUME AsgiInv, NEW m \in AsgiMessage, NEW c, NEW a, NEW parts, NEW writes,
           StepOf(m, c, a, parts, writes), SoundStep(m, c, a, parts, writes)
    PROVE  WireInv'
<1>1. /\ \A n \in AsgiMessage : /\ context'[n] = IF n = m THEN c ELSE context[n]
                                /\ application'[n] = IF n = m THEN a ELSE application[n]
      /\ \A i \in 1..Len(asgiWire') :
            \/ i \in 1..Len(asgiWire) /\ asgiWire'[i] = asgiWire[i]
            \/ /\ i \notin 1..Len(asgiWire) /\ i - Len(asgiWire) \in 1..Len(parts)
               /\ asgiWire'[i] = parts[i - Len(asgiWire)]
               /\ asgiWire'[i].of = m /\ asgiWire'[i].on = m
      /\ Len(asgiWire) \in Nat
  BY StepAdds
<1>2. /\ asgiProtocol' = asgiProtocol /\ asgiWire' = asgiWire \o parts
      /\ asgiWire \in Seq(PartsIn(AsgiMessage)) /\ parts \in Seq(PartsIn({m}))
  BY DEF StepOf, SoundStep, AsgiInv, AsgiTyped
<1>3. ASSUME NEW n \in AsgiMessage
      PROVE  OfIn(asgiWire', n) = IF n = m THEN PartsOf(m) \o parts ELSE PartsOf(n)
  <2>1. PICK w : w = asgiWire
    OBVIOUS
  <2>2. OfIn(w \o parts, n) = IF n = m THEN OfIn(w, m) \o parts ELSE OfIn(w, n)
    BY <1>2, <2>1, OfJoined
  <2>. QED BY <1>2, <2>1, <2>2 DEF PartsOf, OfIn
<1>4. ASSUME NEW n \in AsgiMessage, context'[n].life = "open"
      PROVE  IF context'[n].websocket = "none"
             THEN WrittenSoFar(context'[n], OfIn(asgiWire', n), asgiProtocol')
             ELSE WebsocketSoFar(context'[n], application'[n].task, OfIn(asgiWire', n), asgiProtocol')
  <2>1. CASE n = m
    BY <1>1, <1>2, <1>3, <2>1 DEF SoundStep
  <2>2. CASE n # m
    BY <1>1, <1>2, <1>3, <1>4, <2>2 DEF AsgiInv, WireInv, Alive
  <2>. QED BY <2>1, <2>2
<1>5. ASSUME NEW i \in 1..Len(asgiWire'), NEW j \in 1..Len(asgiWire'), i < j,
             asgiWire'[i].part \in {"close", "refusal"}
      PROVE  asgiWire'[j].part = "pong"
  <2>1. CASE j \in 1..Len(asgiWire)
    <3>1. i \in 1..Len(asgiWire)
      BY <1>1, <1>5, <2>1
    <3>2. asgiWire'[i] = asgiWire[i] /\ asgiWire'[j] = asgiWire[j]
      BY <1>1, <2>1, <3>1
    <3>. QED BY <1>5, <2>1, <3>1, <3>2 DEF AsgiInv, WireInv, NothingAfterTheClose
  <2>2. CASE j \notin 1..Len(asgiWire) /\ i \in 1..Len(asgiWire)
    <3>1. PICK k : k = asgiWire[i].of
      OBVIOUS
    <3>2. asgiWire[i].part \in {"close", "refusal"}
      BY <1>1, <1>5, <2>2
    <3>3. k \in AsgiMessage /\ Alive(k) /\ context[k].websocket = "closed" /\ asgiProtocol = "http/1"
      BY <2>2, <3>1, <3>2, CloseIsOfClosed
    <3>4. k = m
      <4>1. Alive(m) \/ \A n \in AsgiMessage : ~Alive(n)
        BY <3>3 DEF SoundStep
      <4>2. Alive(m)
        BY <3>3, <4>1
      <4>. QED BY <3>3, <4>2 DEF AsgiInv, AliveInv
    <3>5. \A l \in 1..Len(parts) : parts[l].part = "pong"
      BY <3>3, <3>4 DEF SoundStep
    <3>6. j - Len(asgiWire) \in 1..Len(parts) /\ asgiWire'[j] = parts[j - Len(asgiWire)]
      BY <1>1, <2>2
    <3>7. PICK l : l = j - Len(asgiWire)
      OBVIOUS
    <3>. QED BY <3>5, <3>6, <3>7
  <2>3. CASE i \notin 1..Len(asgiWire) /\ j \notin 1..Len(asgiWire)
    <3>1. PICK p, q, l : p = i - Len(asgiWire) /\ q = j - Len(asgiWire) /\ l = Len(parts)
      OBVIOUS
    <3>2. p \in 1..l /\ q \in 1..l /\ asgiWire'[i] = parts[p]
      BY <1>1, <2>3, <3>1
    <3>3. p < q
      BY <1>1, <1>5, <3>1
    <3>4. l = 1
      BY <1>5, <3>1, <3>2 DEF SoundStep
    <3>. QED BY <3>2, <3>3, <3>4
  <2>. QED BY <2>1, <2>2, <2>3
<1>6. NothingAfterTheClose'
  BY <1>5 DEF NothingAfterTheClose
<1>7. \A n \in AsgiMessage : OfIn(asgiWire', n) = PartsOf(n)'
  BY DEF OfIn, PartsOf
<1>. QED BY <1>4, <1>6, <1>7 DEF WireInv, Alive

\* The writes of a message that is complete are over with the last of them.
LEMMA StepQueue ==
    ASSUME AsgiInv, NEW m \in AsgiMessage, NEW c, NEW a, NEW parts, NEW writes,
           StepOf(m, c, a, parts, writes), SoundStep(m, c, a, parts, writes)
    PROVE  QueueInv'
<1>1. /\ \A n \in AsgiMessage : context'[n] = IF n = m THEN c ELSE context[n]
      /\ \A i \in 1..Len(asgiQueue') :
            \/ i \in 1..Len(asgiQueue) /\ asgiQueue'[i] = asgiQueue[i]
            \/ /\ i = Len(asgiQueue) + 1 /\ writes # <<>> /\ 1 \in 1..Len(writes)
               /\ asgiQueue'[i] = writes[1] /\ asgiQueue'[i].of = m
      /\ Len(asgiQueue) \in Nat
  BY StepAdds
<1>2. \A i \in 1..Len(asgiQueue) : asgiQueue[i].of \in AsgiMessage /\ Alive(asgiQueue[i].of)
  <2>1. \A i \in 1..Len(asgiQueue) : asgiQueue[i] \in WritesIn(AsgiMessage)
    BY DEF AsgiInv, AsgiTyped
  <2>. QED BY <2>1 DEF WritesIn, AsgiInv, AliveInv
<1>3. Alive(m) /\ context[m].state = "complete" => c.state = "complete" /\ writes = <<>>
  BY DEF SoundStep
<1>4. \A i \in 1..Len(asgiQueue) : asgiQueue[i].last => context[asgiQueue[i].of].state = "complete"
  BY DEF AsgiInv, QueueInv
<1>5. ASSUME NEW i \in 1..Len(asgiQueue'), asgiQueue'[i].last
      PROVE  context'[asgiQueue'[i].of].state = "complete"
  <2>1. CASE i \in 1..Len(asgiQueue) /\ asgiQueue'[i] = asgiQueue[i]
    BY <1>1, <1>2, <1>3, <1>4, <1>5, <2>1
  <2>2. CASE 1 \in 1..Len(writes) /\ asgiQueue'[i] = writes[1] /\ asgiQueue'[i].of = m
    <3>1. c.state = "complete"
      BY <1>5, <2>2 DEF SoundStep
    <3>. QED BY <1>1, <2>2, <3>1
  <2>. QED BY <1>1, <2>1, <2>2
<1>6. ASSUME NEW i \in 1..Len(asgiQueue'), NEW j \in 1..Len(asgiQueue'), i < j,
             asgiQueue'[i].of = asgiQueue'[j].of, asgiQueue'[i].last
      PROVE  FALSE
  <2>1. i \in 1..Len(asgiQueue) /\ asgiQueue'[i] = asgiQueue[i]
    <3>1. i # Len(asgiQueue) + 1
      <4>1. ASSUME i = Len(asgiQueue) + 1 PROVE FALSE
        <5>1. j \notin 1..Len(asgiQueue) /\ j # Len(asgiQueue) + 1
          BY <1>1, <1>6, <4>1
        <5>. QED BY <1>1, <5>1
      <4>. QED BY <4>1
    <3>. QED BY <1>1, <3>1
  <2>2. CASE j \in 1..Len(asgiQueue) /\ asgiQueue'[j] = asgiQueue[j]
    BY <1>6, <2>1, <2>2 DEF AsgiInv, QueueInv
  <2>3. CASE writes # <<>> /\ asgiQueue'[j].of = m
    <3>1. asgiQueue[i].of = m
      BY <1>6, <2>1, <2>3
    <3>2. context[m].state = "complete" /\ Alive(m)
      BY <1>2, <1>4, <1>6, <2>1, <3>1
    <3>. QED BY <1>3, <2>3, <3>2
  <2>. QED BY <1>1, <2>2, <2>3
<1>. QED BY <1>5, <1>6 DEF QueueInv

\* What the step, and the peer p after it, have to keep to.
PeerStep(m, c, a, p) ==
    /\ websocketPeer' = p /\ p \in PeerType /\ SaidInOrder(p)
    /\ \/ p = websocketPeer
       \/ asgiProtocol = "http/1" /\ Alive(m) /\ c.websocket \in {"connected", "closed"}
    /\ Alive(m) /\ context[m].websocket \in {"connected", "closed"} =>
          c.websocket \in {"connected", "closed"}
    /\ c.websocket \in {"connecting", "connected"} /\ a.task = "runs" => DeliveredSoFar(c, a, p)
    /\ c.websocket = "connecting" => p = NewPeer

\* The delivery of what the peer has said, after a step.
LEMMA DeliveryAfter ==
    ASSUME \A n \in AsgiMessage :
              /\ context'[n].websocket \in {"connecting", "connected"} /\ application'[n].task = "runs" =>
                    DeliveredSoFar(context'[n], application'[n], websocketPeer')
              /\ context'[n].websocket = "connecting" => websocketPeer' = NewPeer
    PROVE  DeliveryInv'
  BY DEF DeliveryInv, DeliveredSoFar, Received, NewPeer

\* A step of one message, and what the peer says in it, keep the order of what was said and its
\* delivery (handler_asgi.c:2404).
LEMMA StepOfPeer ==
    ASSUME AsgiInv, NEW m \in AsgiMessage, NEW c, NEW a, NEW parts, NEW writes, NEW p,
           StepOf(m, c, a, parts, writes), SoundStep(m, c, a, parts, writes), PeerStep(m, c, a, p)
    PROVE  PeerInv' /\ DeliveryInv'
<1>1. \A n \in AsgiMessage : /\ context'[n] = IF n = m THEN c ELSE context[n]
                             /\ application'[n] = IF n = m THEN a ELSE application[n]
  BY StepAdds
<1>2. websocketPeer' = p /\ SaidInOrder(p) /\ asgiLink.open /\ c.life = "open"
  BY DEF PeerStep, StepOf, SoundStep
<1>3. p = NewPeer \/ \E k \in AsgiMessage : /\ context'[k].life = "open"
                                            /\ context'[k].websocket \in {"connected", "closed"}
  <2>1. CASE p = websocketPeer
    <3>1. \/ p = NewPeer
          \/ \E k \in AsgiMessage : Alive(k) /\ context[k].websocket \in {"connected", "closed"}
      BY <1>2, <2>1 DEF AsgiInv, PeerInv
    <3>2. ASSUME NEW k \in AsgiMessage, Alive(k), context[k].websocket \in {"connected", "closed"}
          PROVE  context'[k].life = "open" /\ context'[k].websocket \in {"connected", "closed"}
      <4>1. CASE k = m
        BY <1>1, <1>2, <3>2, <4>1 DEF PeerStep
      <4>2. CASE k # m
        BY <1>1, <3>2, <4>2 DEF Alive
      <4>. QED BY <4>1, <4>2
    <3>. QED BY <3>1, <3>2
  <2>2. CASE c.websocket \in {"connected", "closed"}
    BY <1>1, <1>2, <2>2
  <2>. QED BY <2>1, <2>2 DEF PeerStep
<1>4. PeerInv'
  BY <1>2, <1>3 DEF PeerInv, Alive, SaidInOrder, NewPeer
<1>5. ASSUME NEW n \in AsgiMessage
      PROVE  /\ context'[n].websocket \in {"connecting", "connected"} /\ application'[n].task = "runs" =>
                   DeliveredSoFar(context'[n], application'[n], p)
             /\ context'[n].websocket = "connecting" => p = NewPeer
  <2>1. CASE n = m
    BY <1>1, <2>1 DEF PeerStep
  <2>2. CASE n # m
    <3>1. CASE p = websocketPeer
      BY <1>1, <2>2, <3>1 DEF AsgiInv, DeliveryInv
    <3>2. CASE asgiProtocol = "http/1" /\ Alive(m)
      <4>1. ~Alive(n)
        BY <2>2, <3>2 DEF AsgiInv, AliveInv
      <4>2. context[n].websocket = "none"
        BY <4>1 DEF AsgiInv, AliveInv
      <4>. QED BY <1>1, <2>2, <4>2
    <3>. QED BY <3>1, <3>2 DEF PeerStep
  <2>. QED BY <2>1, <2>2
<1>6. DeliveryInv'
  BY <1>2, <1>5, DeliveryAfter
<1>. QED BY <1>4, <1>6

\* A step of one message that keeps what the wire has of it, and what it received, keeps the
\* invariant.
LEMMA StepIsSound ==
    ASSUME AsgiInv, NEW m \in AsgiMessage, NEW c, NEW a, NEW parts, NEW writes, NEW p,
           StepOf(m, c, a, parts, writes), SoundStep(m, c, a, parts, writes), PeerStep(m, c, a, p)
    PROVE  AsgiInv'
<1>1. websocketPeer' \in PeerType
  BY DEF PeerStep
<1>. QED BY <1>1, StepIsTyped, StepIsAlive, StepWire, StepQueue, StepOfPeer DEF AsgiInv

-----------------------------------------------------------------------------
(* The steps of a task.                                                      *)

\* A sequence whose elements are in a smaller set.
LEMMA InFewer ==
    ASSUME NEW A, NEW B, NEW s \in Seq(A), \A i \in 1..Len(s) : s[i] \in B
    PROVE  s \in Seq(B)
<1>1. Len(s) \in Nat /\ DOMAIN s = 1..Len(s) /\ s = [i \in 1..Len(s) |-> s[i]]
  OBVIOUS
<1>. QED BY <1>1

\* What is known of a message, whether or not it is alive.
LEMMA OfMessage ==
    ASSUME AsgiInv, NEW m \in AsgiMessage
    PROVE  /\ context[m] \in AsgiContextType /\ application[m] \in ApplicationType
           /\ PartsOf(m) \in Seq(PartsIn({m}))
           /\ Alive(m) => asgiLink.open /\ (asgiProtocol = "http/1" => asgiLink.acquired)
           /\ asgiLink \in [open : BOOLEAN, acquired : BOOLEAN] /\ asgiProtocol \in {"http/1", "http/2"}
           /\ asgiWire \in Seq(PartsIn(AsgiMessage)) /\ asgiQueue \in Seq(WritesIn(AsgiMessage))
           /\ websocketPeer \in PeerType /\ SaidInOrder(websocketPeer)
<1>1. AsgiTyped /\ AliveInv /\ PeerInv
  BY DEF AsgiInv
<1>2. PartsOf(m) \in Seq(PartsIn({m}))
  <2>1. PICK P : P = PartsOf(m)
    OBVIOUS
  <2>2. P \in Seq(PartsIn(AsgiMessage)) /\ ToSet(P) = ToSet(asgiWire) \cap PartsIn({m})
    BY <1>1, <2>1, ThoseOf DEF PartsOf, AsgiTyped
  <2>3. Len(P) \in Nat /\ DOMAIN P = 1..Len(P) /\ P = [i \in 1..Len(P) |-> P[i]]
    BY <2>2
  <2>4. \A i \in 1..Len(P) : P[i] \in PartsIn({m})
    <3>1. \A i \in 1..Len(P) : P[i] \in ToSet(P)
      BY <2>3 DEF ToSet
    <3>. QED BY <2>2, <3>1
  <2>5. P \in Seq(PartsIn({m}))
    BY <2>2, <2>4, InFewer
  <2>. QED BY <2>1, <2>5
<1>. QED BY <1>1, <1>2 DEF AsgiTyped, AliveInv, PeerInv

\* A step that leaves the peer, and the websockets, alone.
LEMMA PeerIsLeft ==
    ASSUME AsgiInv, NEW m \in AsgiMessage, NEW c, NEW a, websocketPeer' = websocketPeer,
           c.websocket \in {"none", "closed"},
           Alive(m) /\ context[m].websocket # "none" => c.websocket = "closed"
    PROVE  PeerStep(m, c, a, websocketPeer)
  BY OfMessage DEF PeerStep

\* A step that writes nothing.
QuietStep(m, c, a) ==
    /\ Alive(m) /\ UNCHANGED <<asgiProtocol, asgiLink, asgiRequest, asgiQueue, asgiWire>>
    /\ context' = [context EXCEPT ![m] = c] /\ application' = [application EXCEPT ![m] = a]
    /\ c \in AsgiContextType /\ c.life = "open" /\ a \in ApplicationType
    /\ context[m].state = "complete" => c.state = "complete"
    /\ IF c.websocket = "none" THEN WrittenSoFar(c, PartsOf(m), asgiProtocol)
       ELSE WebsocketSoFar(c, a.task, PartsOf(m), asgiProtocol)

\* A step that writes nothing keeps the invariant, as the state allows what is on the wire.
LEMMA QuietIsSound ==
    ASSUME AsgiInv, NEW m \in AsgiMessage, NEW c, NEW a, NEW p,
           QuietStep(m, c, a), PeerStep(m, c, a, p)
    PROVE  AsgiInv'
<1>1. PICK none : none = <<>>
  OBVIOUS
<1>2. /\ PartsOf(m) \in Seq(PartsIn({m})) /\ asgiWire \in Seq(PartsIn(AsgiMessage))
      /\ asgiQueue \in Seq(WritesIn(AsgiMessage))
      /\ asgiLink \in [open : BOOLEAN, acquired : BOOLEAN]
      /\ asgiLink.open /\ (asgiProtocol = "http/1" => asgiLink.acquired)
  BY OfMessage DEF QuietStep
<1>3. /\ none \in Seq(PartsIn({m})) /\ none \in Seq(WritesIn({m})) /\ Len(none) = 0
  BY <1>1
<1>4. asgiWire \o none = asgiWire
  BY <1>1, <1>2
<1>5. asgiQueue \o none = asgiQueue
  BY <1>1, <1>2
<1>6. PartsOf(m) \o none = PartsOf(m)
  BY <1>1, <1>2
<1>7. StepOf(m, c, a, none, none)
  BY <1>2, <1>4, <1>5 DEF StepOf, QuietStep
<1>8. \A i \in 1..Len(none) : FALSE
  BY <1>3
<1>9. Len(none) <= 1
  BY <1>3
<1>10. SoundStep(m, c, a, none, none)
  BY <1>1, <1>3, <1>6, <1>8, <1>9 DEF SoundStep, QuietStep
<1>. QED BY <1>7, <1>10, StepIsSound

\* A task whose context is gone ends: only the task changes.
LEMMA TaskAloneIsSound ==
    ASSUME AsgiInv, NEW m \in AsgiMessage, NEW a \in ApplicationType, ~Alive(m),
           context[m].life # "none", application' = [application EXCEPT ![m] = a],
           UNCHANGED <<asgiProtocol, asgiLink, asgiRequest, context, asgiQueue, asgiWire, websocketPeer>>
    PROVE  AsgiInv'
<1>1. \A n \in AsgiMessage : application'[n] = IF n = m THEN a ELSE application[n]
  BY DEF AsgiInv, AsgiTyped
<1>2. AsgiTyped'
  BY DEF AsgiInv, AsgiTyped
<1>3. AliveInv'
  BY <1>1 DEF AsgiInv, AliveInv, Alive
<1>4. WireInv'
  <2>1. \A n \in AsgiMessage : PartsOf(n)' = PartsOf(n)
    BY DEF PartsOf
  <2>2. \A n \in AsgiMessage : Alive(n) => application'[n] = application[n]
    BY <1>1
  <2>. QED BY <2>1, <2>2 DEF AsgiInv, WireInv, Alive, NothingAfterTheClose
<1>5. QueueInv'
  BY DEF AsgiInv, QueueInv
<1>6. PeerInv'
  BY DEF AsgiInv, PeerInv, Alive, SaidInOrder, NewPeer
<1>7. DeliveryInv'
  <2>1. context[m].websocket = "none"
    BY DEF AsgiInv, AliveInv
  <2>2. \A n \in AsgiMessage : context[n].websocket # "none" => application'[n] = application[n]
    BY <1>1, <2>1
  <2>3. PICK p : p = websocketPeer
    OBVIOUS
  <2>4. \A n \in AsgiMessage : context'[n] = context[n]
    OBVIOUS
  <2>5. websocketPeer' = p
    BY <2>3
  <2>6. ASSUME NEW n \in AsgiMessage
        PROVE  /\ context'[n].websocket \in {"connecting", "connected"} /\ application'[n].task = "runs" =>
                     DeliveredSoFar(context'[n], application'[n], p)
               /\ context'[n].websocket = "connecting" => p = NewPeer
    <3>1. CASE context[n].websocket = "none"
      BY <3>1
    <3>2. CASE context[n].websocket # "none"
      BY <2>2, <2>3, <3>2 DEF AsgiInv, DeliveryInv
    <3>. QED BY <3>1, <3>2
  <2>. QED BY <2>5, <2>6, DeliveryAfter
<1>. QED BY <1>2, <1>3, <1>4, <1>5, <1>6, <1>7 DEF AsgiInv

\* A receive takes the first event, or waits for one.
LEMMA ReceiveKeeps ==
    ASSUME AsgiInv, NEW m \in AsgiMessage, Receive(m)
    PROVE  AsgiInv'
<1>1. Alive(m) /\ application[m].task \in {"runs", "unwatched", "cancelled"} /\ "receive" \notin application[m].awaits
  BY DEF Receive, Calls, Capsule
<1>2. PICK c, a, p : c = context[m] /\ a = application[m] /\ p = websocketPeer
  OBVIOUS
<1>3. /\ c \in AsgiContextType /\ a \in ApplicationType /\ p \in PeerType /\ SaidInOrder(p)
      /\ c.life = "open"
  BY <1>1, <1>2, OfMessage DEF Alive
<1>4. /\ IF c.websocket = "none" THEN WrittenSoFar(c, PartsOf(m), asgiProtocol)
         ELSE WebsocketSoFar(c, a.task, PartsOf(m), asgiProtocol)
      /\ c.websocket \in {"connecting", "connected"} /\ a.task = "runs" => DeliveredSoFar(c, a, p)
      /\ c.websocket = "connecting" => p = NewPeer
  BY <1>1, <1>2 DEF AsgiInv, WireInv, DeliveryInv
<1>5. /\ c.events \in Seq(AsgiEvent) /\ a.seen \in Seq(AsgiEvent)
      /\ a.gaveUp \in Nat /\ c.receiving \in BOOLEAN /\ p.said \in Seq(Seq(Nat))
  BY <1>3 DEF AsgiContextType, ApplicationType, PeerType
<1>6. CASE c.events # <<>>
  <2>1. PICK e, rest, seen : e = Head(c.events) /\ rest = Tail(c.events) /\ seen = Append(a.seen, e)
    OBVIOUS
  <2>2. e \in AsgiEvent /\ rest \in Seq(AsgiEvent) /\ seen \in Seq(AsgiEvent)
    BY <1>5, <1>6, <2>1
  <2>3. seen \o rest = a.seen \o c.events
    <3>1. c.events = <<e>> \o rest
      <4>1. <<e>> \in Seq(AsgiEvent)
        BY <2>2
      <4>. QED BY <1>5, <1>6, <2>1
    <3>2. PICK one, before : one = <<e>> /\ before = a.seen
      OBVIOUS
    <3>3. one \in Seq(AsgiEvent) /\ before \in Seq(AsgiEvent) /\ rest \in Seq(AsgiEvent)
      BY <1>5, <2>2, <3>2
    <3>4. seen = before \o one
      BY <2>1, <2>2, <3>2, <3>3, JoinedToNothing
    <3>5. (before \o one) \o rest = before \o (one \o rest)
      BY <3>3, JoinedInTwo
    <3>. QED BY <3>1, <3>2, <3>4, <3>5
  <2>4. PICK d, b : d = [c EXCEPT !.events = rest] /\ b = [a EXCEPT !.seen = seen]
    OBVIOUS
  <2>5. /\ d \in AsgiContextType /\ d.life = c.life /\ d.state = c.state /\ d.websocket = c.websocket
        /\ d.keep = c.keep /\ d.hasLength = c.hasLength /\ d.receiving = c.receiving
        /\ d.message = c.message /\ d.opcode = c.opcode /\ d.events = rest
        /\ b \in ApplicationType /\ b.task = a.task /\ b.awaits = a.awaits /\ b.gaveUp = a.gaveUp
        /\ b.seen = seen
    BY <1>3, <2>2, <2>4 DEF AsgiContextType, ApplicationType
  <2>6. Received(d, b) = Received(c, a)
    BY <2>3, <2>5 DEF Received
  <2>7. ASSUME DeliveredSoFar(c, a, p) PROVE DeliveredSoFar(d, b, p)
    <3>1. ~c.receiving
      BY <1>6, <2>7 DEF DeliveredSoFar
    <3>. QED BY <2>5, <2>6, <2>7, <3>1 DEF DeliveredSoFar
  <2>8. QuietStep(m, d, b)
    <3>1. /\ context' = [context EXCEPT ![m] = d] /\ application' = [application EXCEPT ![m] = b]
          /\ UNCHANGED <<asgiProtocol, asgiLink, asgiRequest, asgiQueue, asgiWire>>
      BY <1>2, <1>6, <2>1, <2>4 DEF Receive
    <3>2. IF d.websocket = "none" THEN WrittenSoFar(d, PartsOf(m), asgiProtocol)
          ELSE WebsocketSoFar(d, b.task, PartsOf(m), asgiProtocol)
      BY <1>4, <2>5 DEF WrittenSoFar, WebsocketSoFar
    <3>. QED BY <1>1, <1>2, <1>3, <2>5, <3>1, <3>2 DEF QuietStep
  <2>9. PeerStep(m, d, b, p)
    BY <1>2, <1>3, <1>4, <2>5, <2>7 DEF PeerStep, Receive
  <2>. QED BY <2>8, <2>9, QuietIsSound
<1>7. CASE c.events = <<>>
  <2>1. PICK d, b : d = [c EXCEPT !.receiving = TRUE] /\ b = [a EXCEPT !.awaits = @ \cup {"receive"}]
    OBVIOUS
  <2>2. /\ d \in AsgiContextType /\ d.life = c.life /\ d.state = c.state /\ d.websocket = c.websocket
        /\ d.keep = c.keep /\ d.hasLength = c.hasLength /\ d.receiving = TRUE
        /\ d.message = c.message /\ d.opcode = c.opcode /\ d.events = c.events
        /\ b \in ApplicationType /\ b.task = a.task /\ b.awaits = a.awaits \cup {"receive"}
        /\ b.gaveUp = a.gaveUp /\ b.seen = a.seen
    BY <1>3, <2>1 DEF AsgiContextType, ApplicationType
  <2>3. Received(d, b) = Received(c, a)
    BY <2>2 DEF Received
  <2>4. ASSUME DeliveredSoFar(c, a, p) PROVE DeliveredSoFar(d, b, p)
    <3>1. "receive" \in b.awaits /\ d.events = <<>>
      BY <1>7, <2>2
    <3>. QED BY <2>2, <2>3, <2>4, <3>1 DEF DeliveredSoFar
  <2>5. QuietStep(m, d, b)
    <3>1. /\ context' = [context EXCEPT ![m] = d] /\ application' = [application EXCEPT ![m] = b]
          /\ UNCHANGED <<asgiProtocol, asgiLink, asgiRequest, asgiQueue, asgiWire>>
      BY <1>2, <1>7, <2>1 DEF Receive
    <3>2. IF d.websocket = "none" THEN WrittenSoFar(d, PartsOf(m), asgiProtocol)
          ELSE WebsocketSoFar(d, b.task, PartsOf(m), asgiProtocol)
      BY <1>4, <2>2 DEF WrittenSoFar, WebsocketSoFar
    <3>. QED BY <1>1, <1>2, <1>3, <2>2, <3>1, <3>2 DEF QuietStep
  <2>6. PeerStep(m, d, b, p)
    BY <1>2, <1>3, <1>4, <2>2, <2>4 DEF PeerStep, Receive
  <2>. QED BY <2>5, <2>6, QuietIsSound
<1>. QED BY <1>6, <1>7

\* A receive that is given up leaves the future with the context.
LEMMA GiveUpKeeps ==
    ASSUME AsgiInv, NEW m \in AsgiMessage, GiveUp(m)
    PROVE  AsgiInv'
<1>1. Alive(m) /\ context[m].websocket = "connected" /\ "receive" \in application[m].awaits
  BY DEF GiveUp
<1>2. PICK c, a, p : c = context[m] /\ a = application[m] /\ p = websocketPeer
  OBVIOUS
<1>3. /\ c \in AsgiContextType /\ a \in ApplicationType /\ p \in PeerType /\ SaidInOrder(p)
      /\ c.life = "open"
  BY <1>1, <1>2, OfMessage DEF Alive
<1>4. /\ WebsocketSoFar(c, a.task, PartsOf(m), asgiProtocol)
      /\ a.task = "runs" => DeliveredSoFar(c, a, p)
  BY <1>1, <1>2 DEF AsgiInv, WireInv, DeliveryInv
<1>5. /\ c.events \in Seq(AsgiEvent) /\ a.seen \in Seq(AsgiEvent)
      /\ a.gaveUp \in Nat /\ c.receiving \in BOOLEAN /\ p.said \in Seq(Seq(Nat))
  BY <1>3 DEF AsgiContextType, ApplicationType, PeerType
<1>6. PICK b : b = [a EXCEPT !.awaits = @ \ {"receive"}, !.gaveUp = @ + 1]
  OBVIOUS
<1>7. /\ b \in ApplicationType /\ b.task = a.task /\ b.awaits = a.awaits \ {"receive"}
      /\ b.gaveUp = a.gaveUp + 1 /\ b.seen = a.seen
  <2>1. a.awaits \ {"receive"} \in SUBSET {"send", "receive"} /\ a.gaveUp + 1 \in Nat
    <3>1. a.awaits \in SUBSET {"send", "receive"}
      BY <1>3 DEF ApplicationType
    <3>. QED BY <1>5, <3>1
  <2>. QED BY <1>3, <1>6, <2>1 DEF ApplicationType
<1>8. context' = [context EXCEPT ![m] = c]
  BY <1>2 DEF GiveUp, AsgiInv, AsgiTyped
<1>9. QuietStep(m, c, b)
  <2>1. /\ application' = [application EXCEPT ![m] = b]
        /\ UNCHANGED <<asgiProtocol, asgiLink, asgiRequest, asgiQueue, asgiWire>>
    BY <1>2, <1>6 DEF GiveUp
  <2>. QED BY <1>1, <1>2, <1>3, <1>4, <1>7, <1>8, <2>1 DEF QuietStep
<1>10. ASSUME DeliveredSoFar(c, a, p) PROVE DeliveredSoFar(c, b, p)
  <2>1. PICK r, l, s, g : r = Received(c, a) /\ l = Len(r) /\ s = Len(p.said) /\ g = a.gaveUp
    OBVIOUS
  <2>2. l \in Nat /\ s \in Nat /\ g \in Nat
    <3>1. a.seen \o c.events \in Seq(AsgiEvent)
      BY <1>5
    <3>2. r \in Seq(AsgiEvent)
      BY <2>1, <3>1, ThoseOf DEF Received
    <3>. QED BY <1>5, <2>1, <3>2
  <2>3. s <= l + g
    BY <1>10, <2>1 DEF DeliveredSoFar
  <2>4. s <= l + (g + 1) /\ s < l + (g + 1)
    BY <2>2, <2>3
  <2>5. Received(c, b) = r /\ "receive" \notin b.awaits /\ b.gaveUp = g + 1
    BY <1>7, <2>1 DEF Received
  <2>. QED BY <1>10, <2>1, <2>4, <2>5 DEF DeliveredSoFar
<1>11. PeerStep(m, c, b, p)
  BY <1>1, <1>2, <1>3, <1>4, <1>7, <1>10 DEF PeerStep, GiveUp
<1>. QED BY <1>9, <1>11, QuietIsSound

\* The start of a response that is not answered, or a refusal of it.
LEMMA StartKeeps ==
    ASSUME AsgiInv, NEW m \in AsgiMessage, Start(m)
    PROVE  AsgiInv'
<1>1. Alive(m) /\ context[m].websocket = "none" /\ context[m].state = "pending"
  BY DEF Start, Sends, Calls, Capsule
<1>2. PICK c, a : c = context[m] /\ a = application[m]
  OBVIOUS
<1>3. c \in AsgiContextType /\ a \in ApplicationType /\ c.life = "open"
  BY <1>1, <1>2, OfMessage DEF Alive
<1>4. WrittenSoFar(c, PartsOf(m), asgiProtocol)
  BY <1>1, <1>2 DEF AsgiInv, WireInv
<1>5. PartsOf(m) = <<>>
  BY <1>1, <1>2, <1>4 DEF WrittenSoFar
<1>6. PICK length \in BOOLEAN, bodyless \in BOOLEAN, refused \in BOOLEAN :
         LET stored == [c EXCEPT !.hasLength = @ \/ length, !.hasBody = @ /\ ~bodyless]
         IN  context' = [context EXCEPT ![m] =
                 IF refused THEN stored
                 ELSE [stored EXCEPT !.state = "started", !.hasLength = @ \/ ~stored.hasBody]]
  BY <1>2 DEF Start
<1>7. PICK d : d = LET stored == [c EXCEPT !.hasLength = @ \/ length, !.hasBody = @ /\ ~bodyless]
                   IN  IF refused THEN stored
                       ELSE [stored EXCEPT !.state = "started", !.hasLength = @ \/ ~stored.hasBody]
  OBVIOUS
<1>8. /\ d \in AsgiContextType /\ d.life = "open" /\ d.websocket = "none"
      /\ d.state \in {"pending", "started"}
  BY <1>1, <1>2, <1>3, <1>7, ZenonT(30) DEF AsgiContextType
<1>9. QuietStep(m, d, a)
  <2>1. UNCHANGED <<asgiProtocol, asgiLink, asgiRequest, application, asgiQueue, asgiWire, websocketPeer>>
    BY DEF Start
  <2>2. application' = [application EXCEPT ![m] = a]
    BY <1>2, <2>1 DEF AsgiInv, AsgiTyped
  <2>3. context' = [context EXCEPT ![m] = d]
    BY <1>6, <1>7
  <2>4. WrittenSoFar(d, PartsOf(m), asgiProtocol)
    <3>1. Len(PartsOf(m)) = 0
      BY <1>5
    <3>. QED BY <1>5, <1>8, <3>1 DEF WrittenSoFar
  <2>. QED BY <1>1, <1>3, <1>8, <2>1, <2>2, <2>3, <2>4 DEF QuietStep
<1>10. PeerStep(m, d, a, websocketPeer)
  BY <1>1, <1>8, PeerIsLeft DEF Start
<1>. QED BY <1>9, <1>10, QuietIsSound

\* The application returns, and its context is alive or gone.
LEMMA ReturnsKeeps ==
    ASSUME AsgiInv, NEW m \in AsgiMessage, Returns(m)
    PROVE  AsgiInv'
<1>1. PICK a, b, p : /\ a = application[m] /\ p = websocketPeer
                     /\ b = [a EXCEPT !.awaits = {}, !.task = IF @ = "runs" THEN "ended" ELSE "over"]
  OBVIOUS
<1>2. a \in ApplicationType /\ a.task \in {"runs", "unwatched"} /\ context[m] \in AsgiContextType
  BY <1>1, OfMessage DEF Returns
<1>3. b \in ApplicationType /\ b.task \in {"ended", "over"} /\ (b.task = "over" <=> a.task = "unwatched")
  BY <1>1, <1>2 DEF ApplicationType
<1>4. /\ application' = [application EXCEPT ![m] = b]
      /\ UNCHANGED <<asgiProtocol, asgiLink, asgiRequest, context, asgiQueue, asgiWire, websocketPeer>>
  BY <1>1 DEF Returns
<1>5. CASE ~Alive(m)
  <2>1. context[m].life # "none"
    BY <1>1, <1>2 DEF AsgiInv, AliveInv, NewApplication
  <2>. QED BY <1>3, <1>4, <1>5, <2>1, TaskAloneIsSound
<1>6. CASE Alive(m)
  <2>1. PICK c : c = context[m]
    OBVIOUS
  <2>2. context' = [context EXCEPT ![m] = c] /\ c.life = "open" /\ c \in AsgiContextType
    BY <1>2, <1>4, <1>6, <2>1 DEF AsgiInv, AsgiTyped, Alive
  <2>3. /\ IF c.websocket = "none" THEN WrittenSoFar(c, PartsOf(m), asgiProtocol)
           ELSE WebsocketSoFar(c, b.task, PartsOf(m), asgiProtocol)
        /\ c.websocket = "connecting" => p = NewPeer
    <3>1. /\ IF c.websocket = "none" THEN WrittenSoFar(c, PartsOf(m), asgiProtocol)
             ELSE WebsocketSoFar(c, a.task, PartsOf(m), asgiProtocol)
          /\ c.websocket = "connecting" => p = NewPeer
      BY <1>1, <1>6, <2>1 DEF AsgiInv, WireInv, DeliveryInv
    <3>. QED BY <1>2, <3>1 DEF WebsocketSoFar
  <2>4. QuietStep(m, c, b)
    BY <1>3, <1>4, <1>6, <2>1, <2>2, <2>3 DEF QuietStep
  <2>5. p \in PeerType /\ SaidInOrder(p)
    BY <1>1, OfMessage
  <2>6. PeerStep(m, c, b, p)
    BY <1>1, <1>3, <1>4, <2>1, <2>3, <2>5 DEF PeerStep
  <2>. QED BY <2>4, <2>6, QuietIsSound
<1>. QED BY <1>5, <1>6

-----------------------------------------------------------------------------
(* The steps that write.                                                     *)

\* A step that writes some parts, with one callback.
AddsWrite(m, c, a, parts, write) ==
    /\ asgiProtocol' = asgiProtocol
    /\ asgiLink' \in [open : BOOLEAN, acquired : BOOLEAN]
    /\ asgiLink.open /\ asgiLink'.open /\ (asgiProtocol = "http/1" => asgiLink'.acquired)
    /\ asgiRequest' \in {asgiRequest, m}
    /\ context' = [context EXCEPT ![m] = c] /\ application' = [application EXCEPT ![m] = a]
    /\ asgiWire' = asgiWire \o parts /\ asgiQueue' = Append(asgiQueue, write)
    /\ c \in AsgiContextType /\ c.life = "open" /\ a \in ApplicationType
    /\ Alive(m) \/ asgiProtocol = "http/2" \/ \A n \in AsgiMessage : ~Alive(n)
    /\ parts \in Seq(PartsIn({m})) /\ \A i \in 1..Len(parts) : parts[i].on = m
    /\ write \in WritesIn({m}) /\ (write.last => c.state = "complete")
    /\ Alive(m) => context[m].state # "complete"
    /\ IF c.websocket = "none" THEN WrittenSoFar(c, PartsOf(m) \o parts, asgiProtocol)
       ELSE WebsocketSoFar(c, a.task, PartsOf(m) \o parts, asgiProtocol)
    /\ Alive(m) /\ context[m].websocket = "closed" => \A i \in 1..Len(parts) : parts[i].part = "pong"
    /\ \A i \in 1..Len(parts) : parts[i].part \in {"close", "refusal"} => Len(parts) = 1

\* A step that writes some parts with one callback keeps the invariant (handler_asgi.c:226).
LEMMA AddsIsSound ==
    ASSUME AsgiInv, NEW m \in AsgiMessage, NEW c, NEW a, NEW parts, NEW write, NEW p,
           AddsWrite(m, c, a, parts, write), PeerStep(m, c, a, p)
    PROVE  AsgiInv'
<1>1. PICK writes : writes = <<write>>
  OBVIOUS
<1>2. write \in WritesIn({m}) /\ asgiQueue \in Seq(WritesIn(AsgiMessage))
  BY OfMessage DEF AddsWrite
<1>3. /\ writes \in Seq(WritesIn({m})) /\ Len(writes) = 1 /\ \A i \in 1..Len(writes) : writes[i] = write
  BY <1>1, <1>2
<1>4. asgiQueue' = asgiQueue \o writes
  <2>1. write \in WritesIn(AsgiMessage)
    BY <1>2 DEF WritesIn
  <2>2. Append(asgiQueue, write) = asgiQueue \o <<write>>
    BY <1>2, <2>1, JoinedToNothing
  <2>. QED BY <1>1, <2>2 DEF AddsWrite
<1>5. StepOf(m, c, a, parts, writes)
  BY <1>4 DEF StepOf, AddsWrite
<1>6. Len(writes) <= 1
  BY <1>3
<1>7. SoundStep(m, c, a, parts, writes)
  BY <1>3, <1>6 DEF SoundStep, AddsWrite
<1>. QED BY <1>5, <1>7, StepIsSound

\* The parts of an error are a whole response, of a known length.
LEMMA StatusIsWhole ==
    ASSUME NEW m \in AsgiMessage, m \in Nat, NEW c \in AsgiContextType, NEW S, S = StatusParts(m, c)
    PROVE  /\ S \in Seq(PartsIn({m})) /\ Len(S) = 2
           /\ \A i \in 1..Len(S) : /\ S[i].on = m /\ ~S[i].chunked
                                   /\ S[i].part = IF i = 1 THEN "head" ELSE "last"
           /\ WithStatus(c) \in AsgiContextType /\ WithStatus(c).life = c.life
           /\ WithStatus(c).state = "complete" /\ WithStatus(c).hasLength
           /\ WithStatus(c).websocket = c.websocket /\ WithStatus(c).keep = c.keep
           /\ WrittenSoFar(WithStatus(c), S, asgiProtocol)
<1>1. PICK d : d = WithStatus(c)
  OBVIOUS
<1>2. /\ d \in AsgiContextType /\ d.life = c.life /\ d.state = "complete" /\ d.hasLength = TRUE
      /\ d.websocket = c.websocket /\ d.keep = c.keep
  BY <1>1 DEF WithStatus, AsgiContextType
<1>3. Chunked(d) = FALSE
  BY <1>2 DEF Chunked
<1>4. PICK x, y : x = Envelope(m, d) /\ y = Payload(m, d, 1, TRUE)
  OBVIOUS
<1>5. /\ x = [of |-> m, on |-> m, part |-> "head", chunked |-> FALSE, size |-> 0]
      /\ y = [of |-> m, on |-> m, part |-> "last", chunked |-> FALSE, size |-> 1]
  BY <1>3, <1>4 DEF Envelope, Payload, PartOf
<1>6. x \in PartsIn({m}) /\ y \in PartsIn({m})
  BY <1>5 DEF PartsIn
<1>7. S = <<x, y>>
  BY <1>1, <1>4 DEF StatusParts
<1>8. S \in Seq(PartsIn({m})) /\ Len(S) = 2 /\ S[1] = x /\ S[2] = y
  BY <1>6, <1>7
<1>9. \A i \in 1..Len(S) : /\ S[i].on = m /\ S[i].chunked = FALSE
                           /\ S[i].part = IF i = 1 THEN "head" ELSE "last"
  <2>1. \A i \in 1..Len(S) : i = 1 \/ i = 2
    BY <1>8
  <2>. QED BY <1>5, <1>8, <2>1
<1>10. WrittenSoFar(d, S, asgiProtocol)
  <2>1. S # <<>>
    BY <1>8
  <2>2. \A i \in 1..Len(S) : i # 1 => i = Len(S)
    BY <1>8
  <2>. QED BY <1>2, <1>9, <2>1, <2>2 DEF WrittenSoFar
<1>. QED BY <1>1, <1>2, <1>8, <1>9, <1>10

\* What is added to a response: the envelope when it is not there yet, and a part of the body.
Adds(m, size, last, d, parts) ==
    /\ Alive(m) /\ context[m].websocket = "none" /\ context[m].state \in {"started", "headers"}
    /\ size \in 0..1 /\ last \in BOOLEAN
    /\ d = [context[m] EXCEPT !.state = IF last THEN "complete" ELSE "headers"]
    /\ parts = EnvelopeOnce(m, context[m]) \o <<Payload(m, context[m], size, last)>>
IsAdded(m, last, d, parts) ==
    /\ parts \in Seq(PartsIn({m})) /\ parts # <<>>
    /\ \A i \in 1..Len(parts) : parts[i].on = m /\ parts[i].part \notin {"close", "refusal"}
    /\ d \in AsgiContextType /\ d.life = "open" /\ d.websocket = "none"
    /\ d.state = IF last THEN "complete" ELSE "headers"
    /\ WrittenSoFar(d, PartsOf(m) \o parts, asgiProtocol)

\* What an application, or the end of its task, adds to a response keeps it whole.
LEMMA BodyIsWhole ==
    ASSUME AsgiInv, NEW m \in AsgiMessage, NEW size, NEW last, NEW d, NEW parts,
           Adds(m, size, last, d, parts)
    PROVE  IsAdded(m, last, d, parts)
<1>. SUFFICES ASSUME Alive(m), context[m].websocket = "none",
                     context[m].state \in {"started", "headers"}, size \in 0..1, last \in BOOLEAN,
                     d = [context[m] EXCEPT !.state = IF last THEN "complete" ELSE "headers"],
                     parts = EnvelopeOnce(m, context[m]) \o <<Payload(m, context[m], size, last)>>
              PROVE  /\ parts \in Seq(PartsIn({m})) /\ parts # <<>>
                     /\ \A i \in 1..Len(parts) : parts[i].on = m /\ parts[i].part \notin {"close", "refusal"}
                     /\ d \in AsgiContextType /\ d.life = "open" /\ d.websocket = "none"
                     /\ d.state = IF last THEN "complete" ELSE "headers"
                     /\ WrittenSoFar(d, PartsOf(m) \o parts, asgiProtocol)
  BY DEF Adds, IsAdded
<1>1. PICK c, P, k : c = context[m] /\ P = PartsOf(m) /\ k = Chunked(c)
  OBVIOUS
<1>2. c \in AsgiContextType /\ P \in Seq(PartsIn({m})) /\ m \in Nat
  BY <1>1, OfMessage, AsgiAssumption
<1>3. WrittenSoFar(c, P, asgiProtocol)
  BY <1>1 DEF AsgiInv, WireInv
<1>4. k \in BOOLEAN /\ k = (~c.hasLength /\ asgiProtocol = "http/1")
  BY <1>1 DEF Chunked
<1>5. /\ d \in AsgiContextType /\ d.life = c.life /\ d.websocket = c.websocket /\ d.hasLength = c.hasLength
      /\ d.state = IF last THEN "complete" ELSE "headers"
  BY <1>1, <1>2 DEF AsgiContextType
<1>6. PICK x, y, t : /\ x = Envelope(m, c) /\ y = Payload(m, c, size, last)
                     /\ t = IF last THEN "last" ELSE "chunk"
  OBVIOUS
<1>7. t \in {"last", "chunk"} /\ (t = "last" <=> last)
  BY <1>6
<1>8. /\ x = [of |-> m, on |-> m, part |-> "head", chunked |-> k, size |-> 0]
      /\ y = [of |-> m, on |-> m, part |-> t, chunked |-> k, size |-> size]
  BY <1>1, <1>6 DEF Envelope, Payload, PartOf
<1>9. x \in PartsIn({m}) /\ y \in PartsIn({m})
  BY <1>2, <1>4, <1>7, <1>8 DEF PartsIn
<1>10. c.life = "open" /\ c.websocket = "none"
  BY <1>1 DEF Alive
<1>11. PICK R : R = P \o parts
  OBVIOUS
<1>12. CASE c.state = "started"
  <2>1. parts = <<x, y>>
    <3>1. parts = <<x>> \o <<y>>
      BY <1>1, <1>6, <1>12 DEF EnvelopeOnce
    <3>. QED BY <3>1, OneAndOne
  <2>2. parts \in Seq(PartsIn({m})) /\ Len(parts) = 2 /\ parts[1] = x /\ parts[2] = y
    <3>1. PICK both, Q : both = <<x, y>> /\ Q = PartsIn({m})
      OBVIOUS
    <3>2. both \in Seq(Q) /\ Len(both) = 2 /\ both[1] = x /\ both[2] = y
      <4>1. x \in Q /\ y \in Q
        BY <1>9, <3>1
      <4>2. both = <<x, y>>
        BY <3>1
      <4>. QED BY <4>1, <4>2
    <3>. QED BY <2>1, <3>1, <3>2
  <2>3. P = <<>>
    BY <1>3, <1>12 DEF WrittenSoFar
  <2>4. R = parts
    BY <1>11, <2>2, <2>3
  <2>5. \A i \in 1..Len(parts) : i = 1 \/ i = 2
    BY <2>2
  <2>6. parts # <<>>
    BY <2>2
  <2>7. \A i \in 1..Len(parts) : parts[i].on = m /\ parts[i].chunked = k
                                 /\ parts[i].part = IF i = 1 THEN "head" ELSE t
    BY <1>8, <2>2, <2>5
  <2>8. \A i \in 1..Len(parts) : parts[i].part \notin {"close", "refusal"}
    BY <1>7, <2>7
  <2>9. WrittenSoFar(d, R, asgiProtocol)
    <3>1. \A i \in 1..Len(R) : i # 1 => i = Len(R)
      BY <2>2, <2>4
    <3>. QED BY <1>4, <1>5, <1>7, <2>4, <2>6, <2>7, <3>1 DEF WrittenSoFar
  <2>. QED BY <1>1, <1>5, <1>10, <1>11, <2>2, <2>6, <2>7, <2>8, <2>9
<1>13. CASE c.state = "headers"
  <2>1. parts = <<y>>
    <3>1. EnvelopeOnce(m, context[m]) = <<>>
      BY <1>1, <1>13 DEF EnvelopeOnce
    <3>2. PICK one, none : one = <<y>> /\ none = <<>>
      OBVIOUS
    <3>3. none \o one = one
      BY <3>2
    <3>. QED BY <1>1, <1>6, <3>1, <3>2, <3>3
  <2>2. parts \in Seq(PartsIn({m})) /\ Len(parts) = 1 /\ parts[1] = y
    <3>1. PICK one, Q : one = <<y>> /\ Q = PartsIn({m})
      OBVIOUS
    <3>2. one \in Seq(Q) /\ Len(one) = 1 /\ one[1] = y
      <4>1. y \in Q
        BY <1>9, <3>1
      <4>2. one = <<y>>
        BY <3>1
      <4>. QED BY <4>1, <4>2
    <3>. QED BY <2>1, <3>1, <3>2
  <2>3. PICK n : n = Len(P)
    OBVIOUS
  <2>4. n \in Nat /\ n # 0
    BY <1>2, <1>3, <1>13, <2>3 DEF WrittenSoFar
  <2>5. Len(R) = n + 1 /\ R[n + 1] = y /\ \A i \in 1..n : R[i] = P[i]
    BY <1>2, <1>11, <2>2, <2>3
  <2>6. \A i \in 1..n : P[i].chunked = k /\ P[i].part = IF i = 1 THEN "head" ELSE "chunk"
    BY <1>3, <1>4, <1>13, <2>3 DEF WrittenSoFar
  <2>7. \A i \in 1..Len(parts) : parts[i] = y
    BY <2>2
  <2>8. parts # <<>> /\ \A i \in 1..Len(parts) : parts[i].on = m /\ parts[i].part \notin {"close", "refusal"}
    BY <1>7, <1>8, <2>2, <2>7
  <2>9. WrittenSoFar(d, R, asgiProtocol)
    <3>1. R # <<>>
      BY <2>4, <2>5
    <3>2. ASSUME NEW i \in 1..Len(R)
          PROVE  /\ R[i].part = IF i = 1 THEN "head"
                                ELSE IF i = Len(R) /\ d.state = "complete" THEN "last" ELSE "chunk"
                 /\ R[i].chunked = k
      <4>1. CASE i \in 1..n
        <5>1. i # Len(R)
          BY <2>4, <2>5, <4>1
        <5>. QED BY <2>5, <2>6, <4>1, <5>1
      <4>2. CASE i = n + 1
        <5>1. R[i] = y /\ i # 1 /\ i = Len(R)
          BY <2>4, <2>5, <4>2
        <5>. QED BY <1>5, <1>7, <1>8, <5>1
      <4>. QED BY <2>4, <2>5, <4>1, <4>2
    <3>. QED BY <1>4, <1>5, <3>1, <3>2 DEF WrittenSoFar
  <2>. QED BY <1>1, <1>5, <1>10, <1>11, <2>2, <2>8, <2>9
<1>. QED BY <1>1, <1>12, <1>13

\* A body that the application sends.
LEMMA BodyKeeps ==
    ASSUME AsgiInv, NEW m \in AsgiMessage, Body(m)
    PROVE  AsgiInv'
<1>1. Alive(m) /\ context[m].websocket = "none" /\ context[m].state \in {"started", "headers"}
  BY DEF Body, Sends, Calls, Capsule
<1>2. PICK last \in BOOLEAN :
         LET c == context[m]
             size == IF c.hasBody THEN 1 ELSE 0
         IN  /\ WrittenFor(m, EnvelopeOnce(m, c) \o <<Payload(m, c, size, last)>>,
                        Write(m, last, FALSE, TRUE))
             /\ context' = [context EXCEPT ![m].state = IF last THEN "complete" ELSE "headers"]
  BY DEF Body
<1>3. PICK size, d, a, parts, write :
         /\ size = IF context[m].hasBody THEN 1 ELSE 0
         /\ d = [context[m] EXCEPT !.state = IF last THEN "complete" ELSE "headers"]
         /\ a = [application[m] EXCEPT !.awaits = @ \cup {"send"}, !.parts = @ + 1]
         /\ parts = EnvelopeOnce(m, context[m]) \o <<Payload(m, context[m], size, last)>>
         /\ write = Write(m, last, FALSE, TRUE)
  OBVIOUS
<1>4. size \in 0..1
  BY <1>3
<1>5. /\ parts \in Seq(PartsIn({m})) /\ parts # <<>>
      /\ \A i \in 1..Len(parts) : parts[i].on = m /\ parts[i].part \notin {"close", "refusal"}
      /\ d \in AsgiContextType /\ d.life = "open" /\ d.websocket = "none"
      /\ d.state = IF last THEN "complete" ELSE "headers"
      /\ WrittenSoFar(d, PartsOf(m) \o parts, asgiProtocol)
  <2>1. Adds(m, size, last, d, parts)
    BY <1>1, <1>3, <1>4 DEF Adds
  <2>2. IsAdded(m, last, d, parts)
    BY <2>1, BodyIsWhole
  <2>. QED BY <2>2 DEF IsAdded
<1>6. a \in ApplicationType
  <2>1. PICK b, awaits, n : b = application[m] /\ awaits = b.awaits \cup {"send"} /\ n = b.parts + 1
    OBVIOUS
  <2>2. b \in ApplicationType
    BY <2>1, OfMessage
  <2>3. awaits \in SUBSET {"send", "receive"} /\ n \in Nat
    BY <2>1, <2>2 DEF ApplicationType
  <2>4. a = [b EXCEPT !.awaits = awaits, !.parts = n]
    BY <1>3, <2>1
  <2>. QED BY <2>2, <2>3, <2>4 DEF ApplicationType
<1>7. write \in WritesIn({m}) /\ write.last = last
  BY <1>3 DEF Write, WritesIn
<1>8. /\ asgiLink \in [open : BOOLEAN, acquired : BOOLEAN] /\ asgiLink.open
      /\ asgiProtocol = "http/1" => asgiLink.acquired
  BY <1>1, OfMessage
<1>9. /\ context' = [context EXCEPT ![m] = d] /\ application' = [application EXCEPT ![m] = a]
      /\ asgiWire' = asgiWire \o parts /\ asgiQueue' = Append(asgiQueue, write) /\ asgiRequest' = m
      /\ UNCHANGED <<asgiProtocol, asgiLink, websocketPeer>>
  BY <1>2, <1>3 DEF Body, WrittenFor
<1>10. AddsWrite(m, d, a, parts, write)
  BY <1>1, <1>5, <1>6, <1>7, <1>8, <1>9 DEF AddsWrite
<1>11. PeerStep(m, d, a, websocketPeer)
  BY <1>1, <1>5, <1>9, PeerIsLeft
<1>. QED BY <1>10, <1>11, AddsIsSound

\* A websocket whose application has not been refused has no response.
LEMMA WebsocketIsPending ==
    ASSUME AsgiInv, NEW m \in AsgiMessage, Alive(m), context[m].websocket # "none",
           application[m].task # "over" \/ context[m].websocket # "connecting"
    PROVE  /\ context[m].state = "pending" /\ asgiProtocol = "http/1" /\ ~context[m].keep
           /\ context[m].websocket \in {"connecting", "connected", "closed"}
           /\ context[m].websocket = "connecting" => PartsOf(m) = <<>>
           /\ \A i \in 1..Len(PartsOf(m)) :
                 ~PartsOf(m)[i].chunked /\ PartsOf(m)[i].part \in PartsAt(context[m].websocket)
<1>1. PICK c : c = context[m]
  OBVIOUS
<1>2. WebsocketSoFar(c, application[m].task, PartsOf(m), asgiProtocol) /\ c \in AsgiContextType
  BY <1>1, OfMessage DEF AsgiInv, WireInv
<1>. QED BY <1>1, <1>2 DEF WebsocketSoFar, AsgiContextType

\* A raw write for a websocket.
LEMMA RawIsAdded ==
    ASSUME AsgiInv, NEW m \in AsgiMessage, Alive(m), context[m].websocket # "none",
           context[m].state = "pending",
           NEW d \in AsgiContextType, d.life = "open", d.state = "pending", d.keep = context[m].keep,
           d.websocket \in {"connected", "closed"},
           d.websocket = "connected" => context[m].websocket \in {"connecting", "connected"},
           NEW part \in PartsAt(d.websocket), part # "pong" => context[m].websocket # "closed",
           NEW closes \in BOOLEAN, NEW a \in ApplicationType, WrittenRaw(m, part, closes),
           UNCHANGED <<asgiProtocol, asgiLink>>,
           context' = [context EXCEPT ![m] = d], application' = [application EXCEPT ![m] = a]
    PROVE  AddsWrite(m, d, a, <<RawPart(m, part)>>, Write(m, FALSE, closes, FALSE))
<1>1. /\ asgiProtocol = "http/1" /\ ~context[m].keep
      /\ context[m].websocket \in {"connecting", "connected", "closed"}
      /\ context[m].websocket = "connecting" => PartsOf(m) = <<>>
      /\ \A i \in 1..Len(PartsOf(m)) :
            ~PartsOf(m)[i].chunked /\ PartsOf(m)[i].part \in PartsAt(context[m].websocket)
  <2>1. PICK c : c = context[m]
    OBVIOUS
  <2>2. WebsocketSoFar(c, application[m].task, PartsOf(m), asgiProtocol) /\ c \in AsgiContextType
    BY <2>1, OfMessage DEF AsgiInv, WireInv
  <2>. QED BY <2>1, <2>2 DEF WebsocketSoFar, AsgiContextType
<1>2. PICK P, Q, x, one, write : /\ P = PartsOf(m) /\ Q = PartsIn({m}) /\ x = RawPart(m, part)
                                 /\ one = <<x>> /\ write = Write(m, FALSE, closes, FALSE)
  OBVIOUS
<1>3. part \in {"accept", "frame", "pong", "close", "refusal"}
  BY DEF PartsAt
<1>4. x = [of |-> m, on |-> m, part |-> part, chunked |-> FALSE, size |-> 0]
  BY <1>2 DEF RawPart, PartOf
<1>5. x \in Q
  <2>1. m \in Nat
    BY AsgiAssumption
  <2>. QED BY <1>2, <1>3, <1>4, <2>1 DEF PartsIn
<1>6. one \in Seq(Q) /\ Len(one) = 1 /\ one[1] = x
  <2>1. one = <<x>>
    BY <1>2
  <2>. QED BY <1>5, <2>1
<1>7. /\ P \in Seq(Q) /\ asgiWire \in Seq(PartsIn(AsgiMessage))
      /\ asgiLink \in [open : BOOLEAN, acquired : BOOLEAN] /\ asgiLink.open
      /\ asgiProtocol = "http/1" => asgiLink.acquired
  BY <1>2, OfMessage
<1>8. asgiWire' = asgiWire \o one /\ asgiQueue' = Append(asgiQueue, write) /\ asgiRequest' = asgiRequest
  <2>1. x \in PartsIn(AsgiMessage)
    BY <1>2, <1>5 DEF PartsIn
  <2>2. Append(asgiWire, x) = asgiWire \o <<x>>
    BY <1>7, <2>1, JoinedToNothing
  <2>. QED BY <1>2, <2>2 DEF WrittenRaw
<1>9. write \in WritesIn({m}) /\ write.last = FALSE
  BY <1>2 DEF Write, WritesIn
<1>10. \A i \in 1..Len(one) : one[i] = x /\ one[i].on = m /\ (part = "pong" => one[i].part = "pong")
  BY <1>4, <1>6
<1>11. WebsocketSoFar(d, a.task, P \o one, asgiProtocol)
  <2>1. PICK R, n : R = P \o one /\ n = Len(P)
    OBVIOUS
  <2>2. n \in Nat /\ Len(R) = n + 1 /\ R[n + 1] = x /\ \A i \in 1..n : R[i] = P[i]
    <3>1. one \in Seq(Q) /\ P \in Seq(Q) /\ Len(one) = 1 /\ one[1] = x /\ n \in Nat
      BY <1>6, <1>7, <2>1
    <3>2. /\ Len(P \o one) = Len(P) + Len(one)
          /\ \A i \in 1..Len(P) + Len(one) :
                (P \o one)[i] = IF i <= Len(P) THEN P[i] ELSE one[i - Len(P)]
      BY <3>1, Joined
    <3>3. Len(R) = n + 1 /\ \A i \in 1..n + 1 : R[i] = IF i <= n THEN P[i] ELSE one[i - n]
      BY <2>1, <3>1, <3>2
    <3>4. n + 1 \in 1..n + 1 /\ (n + 1) - n = 1 /\ ~(n + 1 <= n) /\ \A i \in 1..n : i \in 1..n + 1 /\ i <= n
      BY <3>1
    <3>. QED BY <3>1, <3>3, <3>4
  <2>3. \A i \in 1..n : ~P[i].chunked /\ P[i].part \in PartsAt(d.websocket)
    <3>1. CASE context[m].websocket = "connecting"
      BY <1>1, <1>2, <2>1, <3>1
    <3>2. CASE context[m].websocket # "connecting"
      <4>1. PartsAt(context[m].websocket) \subseteq PartsAt(d.websocket)
        BY <1>1, <3>2 DEF PartsAt
      <4>. QED BY <1>1, <1>2, <2>1, <4>1
    <3>. QED BY <3>1, <3>2
  <2>4. ~x.chunked /\ x.part = part
    BY <1>4
  <2>5. \A i \in 1..Len(R) : ~R[i].chunked /\ R[i].part \in PartsAt(d.websocket)
    <3>1. \A i \in 1..Len(R) : i \in 1..n \/ i = n + 1
      BY <2>2
    <3>. QED BY <2>2, <2>3, <2>4, <3>1
  <2>. QED BY <1>1, <2>1, <2>5 DEF WebsocketSoFar
<1>12. context[m].websocket = "closed" => part = "pong"
  OBVIOUS
<1>13. AddsWrite(m, d, a, one, write)
  BY <1>2, <1>6, <1>7, <1>8, <1>9, <1>10, <1>11, <1>12 DEF AddsWrite
<1>. QED BY <1>2, <1>13

\* What a websocket that closes leaves, whoever closes it and whatever the peer has said.
ClosesWith(m, c, a, p) ==
    /\ Alive(m) /\ context[m].websocket # "none" /\ context[m].state = "pending"
    /\ c \in AsgiContextType /\ c.life = "open" /\ c.state = "pending"
    /\ c.keep = context[m].keep /\ c.websocket = context[m].websocket
    /\ a \in ApplicationType /\ p \in PeerType /\ SaidInOrder(p)
    /\ ClosedWebsocket(m, c) /\ UNCHANGED <<asgiProtocol, asgiLink>>
    /\ application' = [application EXCEPT ![m] = a] /\ websocketPeer' = p

\* A websocket that closes sends one closing frame, and nothing but answers to a ping after it
\* (handler_asgi.c:2090).
LEMMA ClosedIsSound ==
    ASSUME AsgiInv, NEW m \in AsgiMessage, NEW c, NEW a, NEW p, ClosesWith(m, c, a, p)
    PROVE  AsgiInv'
<1>1. PICK d : d = [c EXCEPT !.websocket = "closed"]
  OBVIOUS
<1>2. /\ d \in AsgiContextType /\ d.life = "open" /\ d.state = "pending"
      /\ d.keep = context[m].keep /\ d.websocket = "closed"
  BY <1>1 DEF ClosesWith, AsgiContextType
<1>3. /\ Alive(m) /\ context[m].websocket # "none" /\ context[m].state = "pending"
      /\ c.websocket = context[m].websocket /\ a \in ApplicationType
      /\ p \in PeerType /\ SaidInOrder(p) /\ websocketPeer' = p
      /\ UNCHANGED <<asgiProtocol, asgiLink>> /\ application' = [application EXCEPT ![m] = a]
  BY DEF ClosesWith
<1>4. context' = [context EXCEPT ![m] = d]
  BY <1>1 DEF ClosesWith, ClosedWebsocket
<1>5. /\ asgiProtocol = "http/1" /\ ~context[m].keep
      /\ context[m].websocket \in {"connecting", "connected", "closed"}
      /\ context[m].websocket = "connecting" => PartsOf(m) = <<>>
      /\ \A i \in 1..Len(PartsOf(m)) :
            ~PartsOf(m)[i].chunked /\ PartsOf(m)[i].part \in PartsAt(context[m].websocket)
  <2>1. PICK b : b = context[m]
    OBVIOUS
  <2>2. WebsocketSoFar(b, application[m].task, PartsOf(m), asgiProtocol) /\ b \in AsgiContextType
    BY <1>3, <2>1, OfMessage DEF AsgiInv, WireInv
  <2>. QED BY <1>3, <2>1, <2>2 DEF WebsocketSoFar, AsgiContextType
<1>6. PeerStep(m, d, a, p)
  BY <1>2, <1>3, <1>5 DEF PeerStep
<1>7. CASE context[m].websocket = "closed"
  <2>1. UNCHANGED <<asgiRequest, asgiQueue, asgiWire>>
    <3>1. Closing(c) = <<>>
      BY <1>3, <1>7 DEF Closing
    <3>. QED BY <3>1 DEF ClosesWith, ClosedWebsocket
  <2>2. WebsocketSoFar(d, a.task, PartsOf(m), asgiProtocol)
    BY <1>2, <1>5, <1>7 DEF WebsocketSoFar
  <2>3. QuietStep(m, d, a)
    BY <1>2, <1>3, <1>4, <2>1, <2>2 DEF QuietStep
  <2>. QED BY <1>6, <2>3, QuietIsSound
<1>8. CASE context[m].websocket \in {"connecting", "connected"}
  <2>1. PICK part : part = IF context[m].websocket = "connecting" THEN "refusal" ELSE "close"
    OBVIOUS
  <2>2. WrittenRaw(m, part, TRUE)
    <3>1. PICK some : some = <<part>>
      OBVIOUS
    <3>2. some # <<>> /\ some[1] = part
      BY <3>1
    <3>3. Closing(c) = some
      BY <1>3, <1>8, <2>1, <3>1 DEF Closing
    <3>. QED BY <3>2, <3>3 DEF ClosesWith, ClosedWebsocket
  <2>3. part \in PartsAt(d.websocket)
    BY <1>2, <2>1 DEF PartsAt
  <2>4. part # "pong" => context[m].websocket # "closed"
    BY <1>8
  <2>5. PICK closes \in BOOLEAN : closes = TRUE
    OBVIOUS
  <2>6. WrittenRaw(m, part, closes)
    BY <2>2, <2>5
  <2>7. d.websocket \in {"connected", "closed"}
    BY <1>2
  <2>8. d.websocket = "connected" => context[m].websocket \in {"connecting", "connected"}
    BY <1>8
  <2>9. AddsWrite(m, d, a, <<RawPart(m, part)>>, Write(m, FALSE, closes, FALSE))
    BY <1>2, <1>3, <1>4, <2>3, <2>4, <2>6, <2>7, <2>8, RawIsAdded
  <2>. QED BY <1>6, <2>9, AddsIsSound
<1>. QED BY <1>5, <1>7, <1>8

\* The application accepts the websocket, sends a frame on it or closes it.
LEMMA WebsocketKeeps ==
    ASSUME AsgiInv, NEW m \in AsgiMessage, Accept(m) \/ SendFrame(m) \/ CloseWebsocket(m)
    PROVE  AsgiInv'
<1>1. PICK c, a, p : c = context[m] /\ a = application[m] /\ p = websocketPeer
  OBVIOUS
<1>2. /\ Alive(m) /\ a.task \in {"runs", "unwatched", "cancelled"}
      /\ c.websocket \in {"connecting", "connected"}
  BY <1>1 DEF Accept, SendFrame, CloseWebsocket, Sends, Calls, Capsule
<1>3. /\ c \in AsgiContextType /\ a \in ApplicationType /\ p \in PeerType /\ SaidInOrder(p)
      /\ c.life = "open"
  BY <1>1, <1>2, OfMessage DEF Alive
<1>4. c.state = "pending" /\ (c.websocket = "connecting" => p = NewPeer)
  <2>1. context[m].websocket # "none" /\ application[m].task # "over"
    BY <1>1, <1>2
  <2>2. context[m].state = "pending"
    BY <1>2, <2>1, WebsocketIsPending
  <2>. QED BY <1>1, <2>2 DEF AsgiInv, DeliveryInv
<1>5. a.task = "runs" => DeliveredSoFar(c, a, p)
  BY <1>1, <1>2 DEF AsgiInv, DeliveryInv
<1>6. /\ a.seen \in Seq(AsgiEvent) /\ c.events \in Seq(AsgiEvent)
  BY <1>3 DEF AsgiContextType, ApplicationType
<1>7. CASE Accept(m)
  <2>1. PICK d : d = [c EXCEPT !.websocket = "connected"]
    OBVIOUS
  <2>2. /\ d \in AsgiContextType /\ d.life = "open" /\ d.state = "pending" /\ d.keep = c.keep
        /\ d.websocket = "connected" /\ d.events = c.events /\ d.receiving = c.receiving
        /\ d.opcode = c.opcode /\ d.message = c.message
    BY <1>3, <1>4, <2>1 DEF AsgiContextType
  <2>3. PICK part, closes : part = "accept" /\ closes = FALSE
    OBVIOUS
  <2>4. /\ WrittenRaw(m, part, closes) /\ UNCHANGED <<asgiProtocol, asgiLink, application, websocketPeer>>
        /\ context' = [context EXCEPT ![m] = d] /\ c.websocket = "connecting"
    BY <1>1, <1>7, <2>1, <2>3 DEF Accept
  <2>5. application' = [application EXCEPT ![m] = a]
    BY <1>1, <2>4 DEF AsgiInv, AsgiTyped
  <2>6. part \in PartsAt(d.websocket) /\ closes \in BOOLEAN /\ d.websocket \in {"connected", "closed"}
    BY <2>2, <2>3 DEF PartsAt
  <2>7. AddsWrite(m, d, a, <<RawPart(m, part)>>, Write(m, FALSE, closes, FALSE))
    BY <1>1, <1>2, <1>3, <1>4, <2>2, <2>4, <2>5, <2>6, RawIsAdded
  <2>8. a.task = "runs" => DeliveredSoFar(d, a, p)
    BY <1>5, <2>2 DEF DeliveredSoFar, Received
  <2>9. PeerStep(m, d, a, p)
    BY <1>1, <1>3, <2>2, <2>4, <2>8 DEF PeerStep
  <2>. QED BY <2>7, <2>9, AddsIsSound
<1>8. CASE SendFrame(m)
  <2>1. PICK b, part, closes : /\ b = [a EXCEPT !.parts = @ + 1] /\ part = "frame" /\ closes = FALSE
    OBVIOUS
  <2>2. /\ b \in ApplicationType /\ b.task = a.task /\ b.awaits = a.awaits /\ b.seen = a.seen
        /\ b.gaveUp = a.gaveUp
    <3>1. PICK n : n = a.parts + 1
      OBVIOUS
    <3>2. n \in Nat
      BY <1>3, <3>1 DEF ApplicationType
    <3>3. b = [a EXCEPT !.parts = n]
      BY <2>1, <3>1
    <3>. QED BY <1>3, <3>2, <3>3 DEF ApplicationType
  <2>3. /\ WrittenRaw(m, part, closes) /\ UNCHANGED <<asgiProtocol, asgiLink, context, websocketPeer>>
        /\ application' = [application EXCEPT ![m] = b] /\ c.websocket = "connected"
    BY <1>1, <1>8, <2>1 DEF SendFrame
  <2>4. context' = [context EXCEPT ![m] = c]
    BY <1>1, <2>3 DEF AsgiInv, AsgiTyped
  <2>5. part \in PartsAt(c.websocket) /\ closes \in BOOLEAN
    BY <2>1, <2>3 DEF PartsAt
  <2>6. AddsWrite(m, c, b, <<RawPart(m, part)>>, Write(m, FALSE, closes, FALSE))
    BY <1>1, <1>2, <1>3, <1>4, <2>2, <2>3, <2>4, <2>5, RawIsAdded
  <2>7. b.task = "runs" => DeliveredSoFar(c, b, p)
    BY <1>5, <2>2 DEF DeliveredSoFar, Received
  <2>8. PeerStep(m, c, b, p)
    BY <1>1, <1>3, <2>2, <2>3, <2>7 DEF PeerStep
  <2>. QED BY <2>6, <2>8, AddsIsSound
<1>9. CASE CloseWebsocket(m)
  <2>1. ClosedWebsocket(m, c) /\ UNCHANGED <<asgiProtocol, asgiLink, application, websocketPeer>>
    BY <1>1, <1>9 DEF CloseWebsocket
  <2>2. application' = [application EXCEPT ![m] = a]
    BY <1>1, <2>1 DEF AsgiInv, AsgiTyped
  <2>3. ClosesWith(m, c, a, p)
    BY <1>1, <1>2, <1>3, <1>4, <2>1, <2>2 DEF ClosesWith
  <2>. QED BY <2>3, ClosedIsSound
<1>. QED BY <1>7, <1>8, <1>9

\* An error for a message of which nothing is written is a whole response.
LEMMA StatusIsAdded ==
    ASSUME AsgiInv, NEW m \in AsgiMessage, NEW c \in AsgiContextType, NEW a \in ApplicationType,
           c.life = "open", Alive(m) => context[m].state # "complete",
           Alive(m) => context[m].websocket # "closed",
           Alive(m) \/ asgiProtocol = "http/2" \/ \A n \in AsgiMessage : ~Alive(n),
           PartsOf(m) = <<>>,
           c.websocket # "none" => c.websocket = "connecting" /\ asgiProtocol = "http/1" /\ ~c.keep
                                   /\ a.task = "over",
           WrittenFor(m, StatusParts(m, c), Write(m, TRUE, FALSE, FALSE)),
           asgiProtocol' = asgiProtocol, asgiLink' \in [open : BOOLEAN, acquired : BOOLEAN],
           asgiLink.open /\ asgiLink'.open /\ (asgiProtocol = "http/1" => asgiLink'.acquired),
           context' = [context EXCEPT ![m] = WithStatus(c)],
           application' = [application EXCEPT ![m] = a]
    PROVE  AddsWrite(m, WithStatus(c), a, StatusParts(m, c), Write(m, TRUE, FALSE, FALSE))
<1>1. PICK d, S, write : d = WithStatus(c) /\ S = StatusParts(m, c) /\ write = Write(m, TRUE, FALSE, FALSE)
  OBVIOUS
<1>2. m \in Nat
  BY AsgiAssumption
<1>3. /\ S \in Seq(PartsIn({m})) /\ Len(S) = 2
      /\ \A i \in 1..Len(S) : /\ S[i].on = m /\ ~S[i].chunked
                              /\ S[i].part = IF i = 1 THEN "head" ELSE "last"
      /\ d \in AsgiContextType /\ d.life = c.life /\ d.state = "complete"
      /\ d.websocket = c.websocket /\ d.keep = c.keep
      /\ WrittenSoFar(d, S, asgiProtocol)
  BY <1>1, <1>2, StatusIsWhole
<1>4. write \in WritesIn({m}) /\ write.last = TRUE
  BY <1>1 DEF Write, WritesIn
<1>5. PartsOf(m) \o S = S
  BY <1>3
<1>6. c.websocket # "none" => WebsocketSoFar(d, a.task, S, asgiProtocol)
  <2>1. \A i \in 1..Len(S) : ~S[i].chunked /\ S[i].part \in {"head", "last"}
    BY <1>3
  <2>2. ASSUME c.websocket # "none" PROVE WebsocketSoFar(d, a.task, S, asgiProtocol)
    <3>1. d.websocket = "connecting" /\ PartsAt(d.websocket) = {"head", "last"}
      BY <1>3, <2>2 DEF PartsAt
    <3>. QED BY <1>3, <2>1, <2>2, <3>1 DEF WebsocketSoFar
  <2>. QED BY <2>2
<1>7. \A i \in 1..Len(S) : S[i].part \notin {"close", "refusal"}
  BY <1>3
<1>8. /\ asgiRequest' = m /\ asgiWire' = asgiWire \o S /\ asgiQueue' = Append(asgiQueue, write)
      /\ context' = [context EXCEPT ![m] = d]
  BY <1>1 DEF WrittenFor
<1>9. AddsWrite(m, d, a, S, write)
  BY <1>3, <1>4, <1>5, <1>6, <1>7, <1>8 DEF AddsWrite
<1>. QED BY <1>1, <1>9

\* The task of an application that has ended is over, and so is what it did not end.
LEMMA DoneKeeps ==
    ASSUME AsgiInv, NEW m \in AsgiMessage, Done(m)
    PROVE  AsgiInv'
<1>1. PICK c, a, b, p : /\ c = context[m] /\ a = application[m] /\ p = websocketPeer
                        /\ b = [a EXCEPT !.task = "over"]
  OBVIOUS
<1>2. /\ c \in AsgiContextType /\ a \in ApplicationType /\ p \in PeerType /\ SaidInOrder(p)
      /\ a.task = "ended"
  BY <1>1, OfMessage DEF Done
<1>3. b \in ApplicationType /\ b.task = "over"
  BY <1>1, <1>2 DEF ApplicationType
<1>4. /\ application' = [application EXCEPT ![m] = b]
      /\ UNCHANGED <<asgiProtocol, asgiLink, websocketPeer>>
  BY <1>1 DEF Done
<1>5. CASE ~Alive(m)
  <2>1. c.life # "none"
    BY <1>1, <1>2 DEF AsgiInv, AliveInv, NewApplication
  <2>2. UNCHANGED <<context, asgiRequest, asgiQueue, asgiWire>>
    BY <1>5 DEF Done
  <2>. QED BY <1>1, <1>3, <1>4, <1>5, <2>1, <2>2, TaskAloneIsSound
<1>6. CASE Alive(m) /\ c.websocket # "none"
  <2>1. ClosedWebsocket(m, c)
    BY <1>1, <1>6 DEF Done
  <2>2. c.state = "pending"
    <3>1. application[m].task # "over"
      BY <1>1, <1>2
    <3>. QED BY <1>1, <1>6, <3>1, WebsocketIsPending
  <2>3. ClosesWith(m, c, b, p)
    BY <1>1, <1>2, <1>3, <1>4, <1>6, <2>1, <2>2 DEF ClosesWith, Alive
  <2>. QED BY <2>3, ClosedIsSound
<1>7. CASE Alive(m) /\ c.websocket = "none"
  <2>1. /\ asgiLink \in [open : BOOLEAN, acquired : BOOLEAN] /\ asgiLink.open /\ c.life = "open"
        /\ asgiProtocol = "http/1" => asgiLink.acquired
        /\ PartsOf(m) \in Seq(PartsIn({m}))
    BY <1>1, <1>7, OfMessage DEF Alive
  <2>2. WrittenSoFar(c, PartsOf(m), asgiProtocol)
    BY <1>1, <1>7 DEF AsgiInv, WireInv
  <2>3. IF Ending(m, c) = <<>>
        THEN UNCHANGED <<context, asgiRequest, asgiQueue, asgiWire>>
        ELSE /\ WrittenFor(m, Ending(m, c), Write(m, TRUE, FALSE, FALSE))
             /\ context' = [context EXCEPT ![m] =
                    IF c.state = "pending" THEN WithStatus(c) ELSE [c EXCEPT !.state = "complete"]]
    BY <1>1, <1>7 DEF Done
  <2>4. CASE c.state = "pending"
    <3>1. PICK S : S = StatusParts(m, c)
      OBVIOUS
    <3>2. Len(S) = 2 /\ S \in Seq(PartsIn({m}))
      <4>1. m \in Nat
        BY AsgiAssumption
      <4>. QED BY <1>2, <3>1, <4>1, StatusIsWhole
    <3>3. S # <<>> /\ Ending(m, c) = S
      BY <2>4, <3>1, <3>2 DEF Ending
    <3>4. /\ WrittenFor(m, S, Write(m, TRUE, FALSE, FALSE))
          /\ context' = [context EXCEPT ![m] = WithStatus(c)]
      BY <2>3, <2>4, <3>3
    <3>5. PartsOf(m) = <<>>
      BY <2>2, <2>4 DEF WrittenSoFar
    <3>6. AddsWrite(m, WithStatus(c), b, StatusParts(m, c), Write(m, TRUE, FALSE, FALSE))
      BY <1>1, <1>2, <1>3, <1>4, <1>7, <2>1, <2>4, <3>1, <3>4, <3>5, StatusIsAdded
    <3>7. WithStatus(c).websocket = "none"
      BY <1>2, <1>7 DEF WithStatus, AsgiContextType
    <3>8. PeerStep(m, WithStatus(c), b, websocketPeer)
      BY <1>1, <1>4, <1>7, <3>7, PeerIsLeft
    <3>. QED BY <3>6, <3>8, AddsIsSound
  <2>5. CASE c.state = "complete"
    <3>1. Ending(m, c) = <<>>
      BY <2>5 DEF Ending
    <3>2. UNCHANGED <<context, asgiRequest, asgiQueue, asgiWire>>
      BY <2>3, <3>1
    <3>3. context' = [context EXCEPT ![m] = c]
      BY <1>1, <3>2 DEF AsgiInv, AsgiTyped
    <3>4. QuietStep(m, c, b)
      BY <1>1, <1>2, <1>3, <1>4, <1>7, <2>1, <2>2, <3>2, <3>3 DEF QuietStep
    <3>5. PeerStep(m, c, b, websocketPeer)
      BY <1>1, <1>4, <1>7, PeerIsLeft
    <3>. QED BY <3>4, <3>5, QuietIsSound
  <2>6. CASE c.state \in {"started", "headers"}
    <3>1. PICK d, parts, size, last :
             /\ last = TRUE /\ size = 0 /\ d = [c EXCEPT !.state = IF last THEN "complete" ELSE "headers"]
             /\ parts = EnvelopeOnce(m, c) \o <<Payload(m, c, size, last)>>
      OBVIOUS
    <3>2. Adds(m, size, last, d, parts)
      BY <1>1, <1>7, <2>6, <3>1 DEF Adds
    <3>3. IsAdded(m, last, d, parts)
      BY <3>2, BodyIsWhole
    <3>4. Ending(m, c) = parts /\ parts # <<>>
      BY <2>6, <3>1, <3>3 DEF Ending, IsAdded
    <3>5. /\ WrittenFor(m, parts, Write(m, TRUE, FALSE, FALSE))
          /\ context' = [context EXCEPT ![m] = d]
      <4>1. d = [c EXCEPT !.state = "complete"]
        BY <3>1
      <4>. QED BY <2>3, <2>6, <3>4, <4>1
    <3>6. PICK write : write = Write(m, TRUE, FALSE, FALSE)
      OBVIOUS
    <3>7. write \in WritesIn({m}) /\ write.last = TRUE
      BY <3>6 DEF Write, WritesIn
    <3>8. d.state = "complete"
      BY <3>1, <3>3 DEF IsAdded
    <3>9. /\ asgiWire' = asgiWire \o parts /\ asgiQueue' = Append(asgiQueue, write) /\ asgiRequest' = m
      BY <3>5, <3>6 DEF WrittenFor
    <3>10. AddsWrite(m, d, b, parts, write)
      BY <1>1, <1>3, <1>4, <1>7, <2>1, <2>6, <3>3, <3>5, <3>7, <3>8, <3>9 DEF AddsWrite, IsAdded
    <3>11. PeerStep(m, d, b, websocketPeer)
      BY <1>1, <1>4, <1>7, <3>3, PeerIsLeft DEF IsAdded
    <3>. QED BY <3>10, <3>11, AddsIsSound
  <2>7. c.state \in {"pending", "started", "headers", "complete"}
    BY <1>2 DEF AsgiContextType
  <2>. QED BY <2>4, <2>5, <2>6, <2>7
<1>. QED BY <1>5, <1>6, <1>7

\* What a message begins with: one event, nothing received and nothing written.
LEMMA FirstEvent ==
    ASSUME NEW e \in {"connect", "request"}, NEW first, first = << <<e>> >>
    PROVE  first \in Seq(AsgiEvent) /\ Those(<<>> \o first, MessageEvents) = <<>>
<1>1. PICK x : x = <<e>>
  OBVIOUS
<1>2. x \in AsgiEvent /\ x \notin MessageEvents
  <2>1. x \in {<<"connect">>, <<"request">>}
    BY <1>1
  <2>2. Len(x) = 1
    BY <1>1
  <2>3. \A y \in MessageEvents : Len(y) = 2
    BY DEF MessageEvents
  <2>. QED BY <2>1, <2>2, <2>3 DEF AsgiEvent
<1>3. first = <<x>>
  BY <1>1
<1>4. PICK Q, none : Q = AsgiEvent /\ none = <<>>
  OBVIOUS
<1>5. first \in Seq(Q) /\ none \in Seq(Q)
  <2>1. x \in Q
    BY <1>2, <1>4
  <2>. QED BY <1>3, <1>4, <2>1
<1>6. none \o first = first
  BY <1>4, <1>5
<1>7. ToSet(first) \cap MessageEvents = {}
  <2>1. ToSet(first) = {x}
    BY <1>3, SetOfOne
  <2>. QED BY <1>2, <2>1
<1>8. Those(first, MessageEvents) = <<>>
  BY <1>5, <1>7, ThoseOfNone
<1>. QED BY <1>4, <1>5, <1>6, <1>8

\* A message of whose application nothing has been heard yet.
LEMMA CallKeeps ==
    ASSUME AsgiInv, NEW m \in AsgiMessage, CallApplication(m)
    PROVE  AsgiInv'
<1>1. /\ asgiLink.open /\ context[m].life = "none" /\ ~Alive(m)
      /\ asgiProtocol = "http/1" => ~asgiLink.acquired
      /\ asgiLink' = [asgiLink EXCEPT !.acquired = TRUE]
      /\ UNCHANGED <<asgiProtocol, websocketPeer>>
  BY DEF CallApplication, Alive
<1>2. application[m] = NewApplication
  BY <1>1 DEF AsgiInv, AliveInv
<1>3. /\ asgiLink' \in [open : BOOLEAN, acquired : BOOLEAN] /\ asgiLink'.open /\ asgiLink'.acquired
      /\ asgiProtocol \in {"http/1", "http/2"}
  <2>1. asgiLink \in [open : BOOLEAN, acquired : BOOLEAN] /\ asgiProtocol \in {"http/1", "http/2"}
    BY OfMessage
  <2>. QED BY <1>1, <2>1
<1>4. asgiProtocol = "http/2" \/ \A n \in AsgiMessage : ~Alive(n)
  <2>1. \A n \in AsgiMessage : Alive(n) => (asgiProtocol = "http/1" => asgiLink.acquired)
    BY DEF AsgiInv, AliveInv
  <2>. QED BY <1>1, <1>3, <2>1
<1>5. PartsOf(m) = <<>>
  BY <1>1, NothingOfTheGone
<1>6. PICK websocket \in BOOLEAN, head \in BOOLEAN, keep \in BOOLEAN,
           overflow \in BOOLEAN, refused \in BOOLEAN :
         /\ asgiProtocol = "http/2" => ~websocket /\ keep
         /\ websocket => ~head /\ ~overflow /\ ~keep
         /\ refused => ~overflow
         /\ LET c == [NewAsgiContext EXCEPT !.life = "open", !.head = head, !.keep = keep,
                        !.hasBody = ~head,
                        !.websocket = IF websocket THEN "connecting" ELSE "none",
                        !.events = <<IF websocket THEN <<"connect">> ELSE <<"request">> >>]
                stops == overflow \/ refused
            IN  /\ context' = [context EXCEPT ![m] = IF stops THEN WithStatus(c) ELSE c]
                /\ application' = [application EXCEPT ![m].task =
                        CASE refused -> "over" [] overflow -> "unwatched" [] OTHER -> "runs"]
                /\ IF stops
                   THEN WrittenFor(m, StatusParts(m, c), Write(m, TRUE, FALSE, FALSE))
                   ELSE asgiRequest' = m /\ UNCHANGED <<asgiWire, asgiQueue>>
  BY DEF CallApplication
<1>7. PICK e, first : /\ e = (IF websocket THEN "connect" ELSE "request")
                      /\ first = << <<e>> >>
  OBVIOUS
<1>8. first \in Seq(AsgiEvent) /\ Those(<<>> \o first, MessageEvents) = <<>>
  <2>1. e \in {"connect", "request"}
    BY <1>7
  <2>. QED BY <1>7, <2>1, FirstEvent
<1>9. PICK c, a : /\ c = [NewAsgiContext EXCEPT !.life = "open", !.head = head, !.keep = keep,
                            !.hasBody = ~head,
                            !.websocket = IF websocket THEN "connecting" ELSE "none",
                            !.events = first]
                  /\ a = [NewApplication EXCEPT !.task =
                            CASE refused -> "over" [] overflow -> "unwatched" [] OTHER -> "runs"]
  OBVIOUS
<1>10. /\ context' = [context EXCEPT ![m] = IF overflow \/ refused THEN WithStatus(c) ELSE c]
       /\ application' = [application EXCEPT ![m] = a]
       /\ IF overflow \/ refused
          THEN WrittenFor(m, StatusParts(m, c), Write(m, TRUE, FALSE, FALSE))
          ELSE asgiRequest' = m /\ UNCHANGED <<asgiWire, asgiQueue>>
  <2>1. first = <<IF websocket THEN <<"connect">> ELSE <<"request">> >>
    BY <1>7
  <2>2. c = [NewAsgiContext EXCEPT !.life = "open", !.head = head, !.keep = keep,
                        !.hasBody = ~head,
                        !.websocket = IF websocket THEN "connecting" ELSE "none",
                        !.events = <<IF websocket THEN <<"connect">> ELSE <<"request">> >>]
    BY <1>9, <2>1
  <2>3. application' = [application EXCEPT ![m].task =
                        CASE refused -> "over" [] overflow -> "unwatched" [] OTHER -> "runs"]
    BY <1>6
  <2>4. application' = [application EXCEPT ![m] = a]
    BY <1>2, <1>9, <2>3
  <2>. QED BY <1>6, <2>2, <2>4
<1>11. PICK w : w = IF websocket THEN "connecting" ELSE "none"
  OBVIOUS
<1>12. c = [life |-> "open", state |-> "pending", websocket |-> w, head |-> head,
            keep |-> keep, hasBody |-> ~head, hasLength |-> FALSE,
            events |-> first, receiving |-> FALSE, opcode |-> 0, message |-> <<>>]
  BY <1>9, <1>11 DEF NewAsgiContext
<1>13. w \in {"connecting", "none"} /\ (w = "connecting" <=> websocket)
  BY <1>11
<1>14. c \in AsgiContextType
  <2>1. <<>> \in Seq(Nat) /\ 0 \in 0..1 /\ (~head) \in BOOLEAN
    OBVIOUS
  <2>. QED BY <1>8, <1>12, <1>13, <2>1 DEF AsgiContextType
<1>15. PICK t : t = CASE refused -> "over" [] overflow -> "unwatched" [] OTHER -> "runs"
  OBVIOUS
<1>16. t \in {"over", "unwatched", "runs"} /\ (refused => t = "over") /\ (t = "runs" => ~refused /\ ~overflow)
  BY <1>6, <1>15
<1>17. a = [task |-> t, awaits |-> {}, seen |-> <<>>, parts |-> 0, gaveUp |-> 0]
  BY <1>9, <1>15 DEF NewApplication
<1>18. a \in ApplicationType
  <2>1. <<>> \in Seq(AsgiEvent) /\ {} \in SUBSET {"send", "receive"} /\ 0 \in Nat
    OBVIOUS
  <2>. QED BY <1>16, <1>17, <2>1 DEF ApplicationType
<1>19. PICK p : p = websocketPeer
  OBVIOUS
<1>20. /\ p \in PeerType /\ SaidInOrder(p) /\ (websocket => p = NewPeer /\ asgiProtocol = "http/1")
  <2>1. p \in PeerType /\ SaidInOrder(p)
    BY <1>19, OfMessage
  <2>2. websocket => asgiProtocol = "http/1"
    BY <1>3, <1>6
  <2>3. websocket => \A n \in AsgiMessage : ~Alive(n)
    BY <1>4, <2>2
  <2>. QED BY <1>1, <1>19, <2>1, <2>2, <2>3 DEF AsgiInv, PeerInv
<1>21. CASE overflow \/ refused
  <2>1. context' = [context EXCEPT ![m] = WithStatus(c)]
    BY <1>10, <1>21
  <2>2. WrittenFor(m, StatusParts(m, c), Write(m, TRUE, FALSE, FALSE))
    BY <1>10, <1>21
  <2>3. c.life = "open" /\ c.websocket = w /\ c.keep = keep
    BY <1>12
  <2>4. w # "none" => w = "connecting" /\ asgiProtocol = "http/1" /\ ~keep /\ a.task = "over"
    <3>1. a.task = t
      BY <1>17
    <3>2. ASSUME w # "none" PROVE w = "connecting" /\ asgiProtocol = "http/1" /\ ~keep /\ a.task = "over"
      <4>1. websocket /\ w = "connecting"
        BY <1>13, <3>2
      <4>2. ~overflow /\ ~keep
        BY <1>6, <4>1
      <4>3. refused
        BY <1>21, <4>2
      <4>. QED BY <1>16, <1>20, <3>1, <4>1, <4>2, <4>3
    <3>. QED BY <3>2
  <2>5. c.websocket # "none" => c.websocket = "connecting" /\ asgiProtocol = "http/1" /\ ~c.keep
                                /\ a.task = "over"
    BY <2>3, <2>4
  <2>6. AddsWrite(m, WithStatus(c), a, StatusParts(m, c), Write(m, TRUE, FALSE, FALSE))
    <3>1. /\ Alive(m) => context[m].state # "complete"
          /\ Alive(m) => context[m].websocket # "closed"
      BY <1>1
    <3>2. Alive(m) \/ asgiProtocol = "http/2" \/ \A n \in AsgiMessage : ~Alive(n)
      BY <1>4
    <3>3. asgiProtocol' = asgiProtocol
      BY <1>1
    <3>4. asgiLink.open /\ asgiLink'.open /\ (asgiProtocol = "http/1" => asgiLink'.acquired)
      BY <1>1, <1>3
    <3>. QED BY <1>3, <1>5, <1>10, <1>14, <1>18, <2>1, <2>2, <2>3, <2>5, <3>1, <3>2, <3>3, <3>4,
                StatusIsAdded
  <2>7. PICK d : d = WithStatus(c)
    OBVIOUS
  <2>8. d.websocket = w
    BY <1>14, <2>3, <2>7 DEF WithStatus, AsgiContextType
  <2>9. PeerStep(m, d, a, p)
    <3>1. w = "connecting" => a.task # "runs" /\ p = NewPeer
      <4>1. w = "connecting" => websocket
        BY <1>13
      <4>. QED BY <1>20, <2>4, <4>1
    <3>. QED BY <1>1, <1>13, <1>19, <1>20, <2>8, <3>1 DEF PeerStep
  <2>. QED BY <2>6, <2>7, <2>9, AddsIsSound
<1>22. CASE ~(overflow \/ refused)
  <2>1. PICK none : none = <<>>
    OBVIOUS
  <2>2. /\ context' = [context EXCEPT ![m] = c] /\ application' = [application EXCEPT ![m] = a]
        /\ asgiRequest' = m /\ UNCHANGED <<asgiWire, asgiQueue>>
    BY <1>10, <1>22
  <2>3. /\ none \in Seq(PartsIn({m})) /\ none \in Seq(WritesIn({m})) /\ Len(none) = 0
    BY <2>1
  <2>4. asgiWire \o none = asgiWire /\ asgiQueue \o none = asgiQueue
    <3>1. asgiWire \in Seq(PartsIn(AsgiMessage)) /\ asgiQueue \in Seq(WritesIn(AsgiMessage))
      BY OfMessage
    <3>. QED BY <2>1, <3>1
  <2>5. PartsOf(m) \o none = none
    BY <1>5, <2>1
  <2>6. StepOf(m, c, a, none, none)
    BY <1>1, <1>3, <2>2, <2>4 DEF StepOf
  <2>7. c.life = "open" /\ c.websocket = w /\ c.keep = keep /\ c.state = "pending"
        /\ c.events = first /\ c.receiving = FALSE /\ c.message = <<>> /\ c.opcode = 0
    BY <1>12
  <2>8. IF c.websocket = "none" THEN WrittenSoFar(c, none, asgiProtocol)
        ELSE WebsocketSoFar(c, a.task, none, asgiProtocol)
    <3>1. c.websocket = "none" => WrittenSoFar(c, none, asgiProtocol)
      BY <2>1, <2>3, <2>7 DEF WrittenSoFar
    <3>2. c.websocket # "none" => WebsocketSoFar(c, a.task, none, asgiProtocol)
      <4>1. w # "none" => asgiProtocol = "http/1" /\ ~keep
        BY <1>6, <1>13, <1>20
      <4>. QED BY <2>1, <2>3, <2>7, <4>1 DEF WebsocketSoFar
    <3>. QED BY <3>1, <3>2
  <2>9. \A i \in 1..Len(none) : FALSE
    BY <2>3
  <2>10. Len(none) <= 1
    BY <2>3
  <2>11. SoundStep(m, c, a, none, none)
    BY <1>1, <1>4, <1>14, <1>18, <2>3, <2>5, <2>7, <2>8, <2>9, <2>10 DEF SoundStep
  <2>12. websocket => DeliveredSoFar(c, a, p)
    <3>1. Received(c, a) = <<>>
      <4>1. a.seen = <<>>
        BY <1>17
      <4>. QED BY <1>8, <2>7, <4>1 DEF Received
    <3>2. PICK r, s : r = Received(c, a) /\ s = p.said
      OBVIOUS
    <3>3. Len(r) = 0
      BY <3>1, <3>2
    <3>4. websocket => Len(s) = 0 /\ p.open = <<>>
      BY <1>20, <3>2 DEF NewPeer
    <3>5. a.awaits = {} /\ a.gaveUp = 0
      BY <1>17
    <3>. QED BY <2>7, <3>2, <3>3, <3>4, <3>5 DEF DeliveredSoFar
  <2>13. PeerStep(m, c, a, p)
    BY <1>1, <1>13, <1>19, <1>20, <2>7, <2>12 DEF PeerStep
  <2>. QED BY <2>6, <2>11, <2>13, StepIsSound
<1>. QED BY <1>21, <1>22

-----------------------------------------------------------------------------
(* What the peer of a websocket says.                                        *)

\* The frames that the handler tells apart.
FrameKind == {"text", "continuation", "ping", "close", "malformed"}

\* What the peer has said with a frame: nothing, more of a message, or the end of one.
SaysNothing(p, q) == q.open = p.open /\ q.said = p.said
SaysMore(p, q, f) == q.open = f /\ q.said = p.said
SaysTheEnd(p, q, f) == q.open = <<>> /\ q.said = Append(p.said, f)

\* Frame id of the peer, and the message that it belongs to, f.
SaysFrame(p, kind, fin, id, q, f) ==
    /\ p \in PeerType /\ kind \in FrameKind /\ fin \in BOOLEAN /\ id \in Nat
    /\ q = Said(p, kind, fin, id) /\ f = Append(p.open, id)
IsSaid(p, kind, fin, id, q, f) ==
    /\ q \in PeerType /\ q.sent = id
    /\ f \in Seq(Nat) /\ f # <<>> /\ f[1] = IF p.open = <<>> THEN id ELSE p.open[1]
    /\ kind \notin {"text", "continuation"} => SaysNothing(p, q)
    /\ kind \in {"text", "continuation"} =>
          IF ~((kind = "continuation") <=> (p.open # <<>>)) THEN SaysNothing(p, q)
          ELSE IF fin THEN SaysTheEnd(p, q, f) ELSE SaysMore(p, q, f)

\* A frame of the peer begins a message, goes on with one or ends it, when it comes in its turn,
\* and says nothing otherwise (handler_asgi.c:2511).
LEMMA SaidIs ==
    ASSUME NEW p, NEW kind, NEW fin, NEW id, NEW q, NEW f, SaysFrame(p, kind, fin, id, q, f)
    PROVE  IsSaid(p, kind, fin, id, q, f)
<1>. SUFFICES ASSUME p \in PeerType, kind \in FrameKind, fin \in BOOLEAN, id \in Nat,
                     q = Said(p, kind, fin, id), f = Append(p.open, id)
              PROVE  IsSaid(p, kind, fin, id, q, f)
  BY DEF SaysFrame
<1>1. PICK open, said : open = p.open /\ said = p.said
  OBVIOUS
<1>2. open \in Seq(Nat) /\ said \in Seq(Seq(Nat)) /\ p.closed \in BOOLEAN
  BY <1>1 DEF PeerType
<1>3. f \in Seq(Nat) /\ Len(f) = Len(open) + 1 /\ \A i \in 1..Len(open) + 1 : f[i] = IF i <= Len(open) THEN open[i] ELSE id
  BY <1>1, <1>2, Appended
<1>4. f # <<>> /\ f[1] = IF open = <<>> THEN id ELSE open[1]
  <2>1. CASE open = <<>>
    <3>1. Len(open) = 0
      BY <2>1
    <3>. QED BY <1>3, <2>1, <3>1
  <2>2. CASE open # <<>>
    <3>1. PICK n : n = Len(open)
      OBVIOUS
    <3>2. n \in Nat /\ n # 0
      BY <1>2, <2>2, <3>1
    <3>3. Len(f) = n + 1 /\ f[1] = open[1]
      BY <1>3, <3>1, <3>2
    <3>4. f # <<>>
      BY <3>2, <3>3
    <3>. QED BY <2>2, <3>3, <3>4
  <2>. QED BY <2>1, <2>2
<1>5. PICK ordered \in BOOLEAN : ordered <=> ((kind = "continuation") <=> (p.open # <<>>))
  <2>1. ((kind = "continuation") <=> (p.open # <<>>)) \in BOOLEAN
    OBVIOUS
  <2>. QED BY <2>1
<1>6. PICK o, s, closed :
         /\ o = (IF kind \notin {"text", "continuation"} \/ ~ordered THEN open
                 ELSE IF fin THEN <<>> ELSE f)
         /\ s = (IF kind \in {"text", "continuation"} /\ ordered /\ fin THEN Append(said, f) ELSE said)
         /\ closed = (p.closed \/ kind \in {"close", "malformed"}
                        \/ (kind \in {"text", "continuation"} /\ ~ordered))
  OBVIOUS
<1>7. q = [p EXCEPT !.sent = id, !.closed = closed, !.open = o, !.said = s]
  BY <1>1, <1>5, <1>6 DEF Said
<1>8. Append(said, f) \in Seq(Seq(Nat))
  BY <1>2, <1>3
<1>9. o \in Seq(Nat) /\ s \in Seq(Seq(Nat)) /\ closed \in BOOLEAN
  BY <1>2, <1>3, <1>6, <1>8
<1>10. q \in PeerType /\ q.sent = id /\ q.open = o /\ q.said = s
  BY <1>7, <1>9 DEF PeerType
<1>11. kind \notin {"text", "continuation"} => SaysNothing(p, q)
  BY <1>1, <1>6, <1>10 DEF SaysNothing
<1>12. kind \in {"text", "continuation"} =>
          IF ~ordered THEN SaysNothing(p, q)
          ELSE IF fin THEN SaysTheEnd(p, q, f) ELSE SaysMore(p, q, f)
  BY <1>1, <1>6, <1>10 DEF SaysNothing, SaysTheEnd, SaysMore
<1>. QED BY <1>1, <1>3, <1>4, <1>5, <1>10, <1>11, <1>12 DEF IsSaid

\* The messages of a peer begin later the later they are said.
LEMMA SaidStaysInOrder ==
    ASSUME NEW p \in PeerType, NEW kind \in FrameKind, NEW fin \in BOOLEAN, NEW q, SaidInOrder(p),
           q = Said(p, kind, fin, p.sent + 1)
    PROVE  SaidInOrder(q)
<1>1. PICK f, id, open, said : /\ f = Append(p.open, id) /\ id = p.sent + 1
                               /\ open = p.open /\ said = p.said
  OBVIOUS
<1>2. id \in Nat /\ p.sent \in Nat /\ p.sent < id /\ open \in Seq(Nat) /\ said \in Seq(Seq(Nat))
  BY <1>1 DEF PeerType
<1>3. /\ q.sent = id /\ f \in Seq(Nat) /\ f # <<>> /\ f[1] = IF open = <<>> THEN id ELSE open[1]
      /\ SaysNothing(p, q) \/ SaysMore(p, q, f) \/ SaysTheEnd(p, q, f)
  <2>1. SaysFrame(p, kind, fin, id, q, f)
    BY <1>1, <1>2 DEF SaysFrame
  <2>2. IsSaid(p, kind, fin, id, q, f)
    BY <2>1, SaidIs
  <2>. QED BY <1>1, <2>2 DEF IsSaid
<1>4. /\ \A i \in 1..Len(said) : said[i] # <<>> /\ said[i] \in Seq(Nat) /\ said[i][1] <= p.sent
      /\ open # <<>> => \A i \in 1..Len(said) : said[i][1] < open[1]
      /\ open # <<>> => open[1] <= p.sent
  <2>1. /\ \A i \in 1..Len(said) :
              /\ said[i] # <<>> /\ said[i][1] <= p.sent
              /\ open # <<>> => said[i][1] < open[1]
        /\ open # <<>> => open[1] <= p.sent
    BY <1>1 DEF SaidInOrder
  <2>2. \A i \in 1..Len(said) : said[i] \in Seq(Nat)
    <3>1. PICK Q : Q = Seq(Nat)
      OBVIOUS
    <3>2. said \in Seq(Q)
      BY <1>2, <3>1
    <3>3. \A i \in 1..Len(said) : said[i] \in Q
      BY <3>2
    <3>. QED BY <3>1, <3>3
  <2>. QED BY <2>1, <2>2
<1>5. /\ \A i \in 1..Len(said) : said[i][1] \in Nat
      /\ open # <<>> => open[1] \in Nat
  <2>1. ASSUME NEW i \in 1..Len(said) PROVE said[i][1] \in Nat
    <3>1. PICK x : x = said[i]
      OBVIOUS
    <3>2. x \in Seq(Nat) /\ x # <<>>
      BY <1>4, <3>1
    <3>3. x[1] \in Nat
      BY <3>2
    <3>. QED BY <3>1, <3>3
  <2>. QED BY <1>2, <2>1
<1>6. \A i \in 1..Len(said) : said[i][1] <= id /\ said[i][1] < f[1]
  <2>1. ASSUME NEW i \in 1..Len(said) PROVE said[i][1] <= id /\ said[i][1] < f[1]
    <3>1. PICK n, s, o, g : n = said[i][1] /\ s = p.sent /\ o = open[1] /\ g = f[1]
      OBVIOUS
    <3>2. n \in Nat /\ s \in Nat /\ n <= s /\ s < id
      BY <1>2, <1>4, <1>5, <2>1, <3>1
    <3>3. n <= id /\ n < id
      BY <1>2, <3>2
    <3>4. CASE open = <<>>
      BY <1>3, <3>1, <3>3, <3>4
    <3>5. CASE open # <<>>
      BY <1>3, <1>4, <2>1, <3>1, <3>3, <3>5
    <3>. QED BY <3>4, <3>5
  <2>. QED BY <2>1
<1>7. f[1] <= id
  BY <1>2, <1>3, <1>4, <1>5
<1>8. CASE SaysNothing(p, q)
  <2>1. q.open = open /\ q.said = said
    BY <1>1, <1>8 DEF SaysNothing
  <2>2. open # <<>> => open[1] <= id
    BY <1>2, <1>4, <1>5
  <2>. QED BY <1>3, <1>4, <1>6, <2>1, <2>2 DEF SaidInOrder
<1>9. CASE SaysMore(p, q, f)
  <2>1. q.open = f /\ q.said = said
    BY <1>1, <1>9 DEF SaysMore
  <2>. QED BY <1>3, <1>4, <1>6, <1>7, <2>1 DEF SaidInOrder
<1>10. CASE SaysTheEnd(p, q, f)
  <2>1. PICK s, n : s = q.said /\ n = Len(said)
    OBVIOUS
  <2>2. q.open = <<>> /\ s = Append(said, f)
    BY <1>1, <1>10, <2>1 DEF SaysTheEnd
  <2>3. Len(s) = n + 1 /\ n \in Nat /\ \A i \in 1..n + 1 : s[i] = IF i <= n THEN said[i] ELSE f
    <3>1. PICK Q : Q = Seq(Nat)
      OBVIOUS
    <3>2. said \in Seq(Q) /\ f \in Q
      BY <1>2, <1>3, <3>1
    <3>3. /\ Len(Append(said, f)) = Len(said) + 1
          /\ \A i \in 1..Len(said) + 1 : Append(said, f)[i] = IF i <= Len(said) THEN said[i] ELSE f
      BY <3>2, Appended
    <3>4. Len(said) \in Nat
      BY <3>2
    <3>. QED BY <2>1, <2>2, <3>3, <3>4
  <2>4. ASSUME NEW i \in 1..Len(s) PROVE s[i] # <<>> /\ s[i][1] <= id
    <3>1. CASE i \in 1..n
      <4>1. s[i] = said[i]
        BY <2>3, <3>1
      <4>. QED BY <1>4, <1>6, <2>1, <3>1, <4>1
    <3>2. CASE i \notin 1..n
      <4>1. s[i] = f
        BY <2>3, <3>2
      <4>. QED BY <1>3, <1>7, <4>1
    <3>. QED BY <3>1, <3>2
  <2>. QED BY <1>3, <2>1, <2>2, <2>4 DEF SaidInOrder
<1>. QED BY <1>3, <1>8, <1>9, <1>10

\* What an event leaves of the context and of the task: it is received, it waits, or it is
\* lost with a future that was given up.
IsPushed(c, a, event, x, y) ==
    /\ x \in AsgiContextType /\ y \in ApplicationType
    /\ x.life = c.life /\ x.state = c.state /\ x.keep = c.keep /\ x.websocket = c.websocket
    /\ x.hasLength = c.hasLength /\ x.opcode = c.opcode /\ x.message = c.message
    /\ y.task = a.task /\ y.gaveUp = a.gaveUp
    /\ \/ /\ c.receiving /\ "receive" \in a.awaits /\ ~x.receiving
          /\ x.events = c.events /\ y.seen = Append(a.seen, event)
          /\ "receive" \notin y.awaits
       \/ c.receiving /\ "receive" \notin a.awaits /\ ~x.receiving /\ x.events = c.events /\ y = a
       \/ ~c.receiving /\ ~x.receiving /\ x.events = Append(c.events, event) /\ y = a

\* An event is given to the future that waits, or is queued; with a future that was given up it
\* is lost (handler_asgi.c:121).
LEMMA PushedIs ==
    ASSUME NEW m, NEW c \in AsgiContextType, NEW a \in ApplicationType, NEW event \in AsgiEvent,
           NEW x, NEW y, x = Pushed(m, event, c, a).context, y = Pushed(m, event, c, a).application
    PROVE  IsPushed(c, a, event, x, y)
<1>1. PICK events, seen, awaits : events = c.events /\ seen = a.seen /\ awaits = a.awaits
  OBVIOUS
<1>2. /\ events \in Seq(AsgiEvent) /\ seen \in Seq(AsgiEvent) /\ c.receiving \in BOOLEAN
      /\ awaits \in SUBSET {"send", "receive"}
  BY <1>1 DEF AsgiContextType, ApplicationType
<1>3. /\ Append(events, event) \in Seq(AsgiEvent) /\ Append(seen, event) \in Seq(AsgiEvent)
      /\ awaits \ {"receive"} \in SUBSET {"send", "receive"}
  BY <1>2
<1>4. CASE c.receiving /\ "receive" \in awaits
  <2>1. PICK s, w : s = Append(seen, event) /\ w = awaits \ {"receive"}
    OBVIOUS
  <2>2. x = [c EXCEPT !.receiving = FALSE] /\ y = [a EXCEPT !.awaits = w, !.seen = s]
    BY <1>1, <1>4, <2>1 DEF Pushed
  <2>3. s \in Seq(AsgiEvent) /\ w \in SUBSET {"send", "receive"} /\ "receive" \notin w
    BY <1>3, <2>1
  <2>4. /\ x \in AsgiContextType /\ x.life = c.life /\ x.state = c.state /\ x.keep = c.keep
        /\ x.websocket = c.websocket /\ x.hasLength = c.hasLength /\ x.opcode = c.opcode
        /\ x.message = c.message /\ x.receiving = FALSE /\ x.events = c.events
    BY <2>2 DEF AsgiContextType
  <2>5. /\ y \in ApplicationType /\ y.task = a.task /\ y.gaveUp = a.gaveUp /\ y.seen = s /\ y.awaits = w
    BY <2>2, <2>3 DEF ApplicationType
  <2>. QED BY <1>1, <1>4, <2>1, <2>3, <2>4, <2>5 DEF IsPushed
<1>5. CASE c.receiving /\ "receive" \notin awaits
  <2>1. x = [c EXCEPT !.receiving = FALSE] /\ y = a
    BY <1>1, <1>5 DEF Pushed
  <2>2. /\ x \in AsgiContextType /\ x.life = c.life /\ x.state = c.state /\ x.keep = c.keep
        /\ x.websocket = c.websocket /\ x.hasLength = c.hasLength /\ x.opcode = c.opcode
        /\ x.message = c.message /\ x.receiving = FALSE /\ x.events = c.events
    BY <2>1 DEF AsgiContextType
  <2>. QED BY <1>1, <1>5, <2>1, <2>2 DEF IsPushed
<1>6. CASE ~c.receiving
  <2>1. PICK e : e = Append(events, event)
    OBVIOUS
  <2>2. x = [c EXCEPT !.events = e] /\ y = a
    BY <1>1, <1>6, <2>1 DEF Pushed
  <2>3. e \in Seq(AsgiEvent)
    BY <1>3, <2>1
  <2>4. /\ x \in AsgiContextType /\ x.life = c.life /\ x.state = c.state /\ x.keep = c.keep
        /\ x.websocket = c.websocket /\ x.hasLength = c.hasLength /\ x.opcode = c.opcode
        /\ x.message = c.message /\ x.receiving = c.receiving /\ x.events = e
    BY <2>2, <2>3 DEF AsgiContextType
  <2>. QED BY <1>1, <1>6, <2>1, <2>2, <2>4 DEF IsPushed
<1>. QED BY <1>1, <1>2, <1>4, <1>5, <1>6

\* One message more has been said, and the event of it is the next that is received, unless
\* it is lost.
ReceivedAfter(c, a, x, y, event) ==
    \/ Received(x, y) = Append(Received(c, a), event) /\ ~(c.receiving /\ "receive" \notin a.awaits)
    \/ Received(x, y) = Received(c, a) /\ c.receiving /\ "receive" \notin a.awaits

\* An event of a message that is pushed is the last one received, unless the future that takes
\* it was given up (handler_asgi.c:121).
LEMMA PushedIsReceived ==
    ASSUME NEW c \in AsgiContextType, NEW a \in ApplicationType, NEW event \in MessageEvents,
           NEW x, NEW y, IsPushed(c, a, event, x, y),
           c.receiving => c.events = <<>>, "receive" \in a.awaits => c.receiving
    PROVE  ReceivedAfter(c, a, x, y, event) /\ Received(c, a) \in Seq(AsgiEvent)
<1>1. PICK events, seen, none, Q : events = c.events /\ seen = a.seen /\ none = <<>> /\ Q = AsgiEvent
  OBVIOUS
<1>2. events \in Seq(Q) /\ seen \in Seq(Q) /\ none \in Seq(Q) /\ event \in Q
  BY <1>1 DEF AsgiContextType, ApplicationType, AsgiEvent
<1>3. Received(c, a) = Those(seen \o events, MessageEvents)
  BY <1>1 DEF Received
<1>4. seen \o events \in Seq(Q) /\ Received(c, a) \in Seq(Q)
  <2>1. seen \o events \in Seq(Q)
    BY <1>2
  <2>2. PICK whole : whole = seen \o events
    OBVIOUS
  <2>3. Those(whole, MessageEvents) \in Seq(Q)
    BY <2>1, <2>2, ThoseOf
  <2>. QED BY <1>3, <2>1, <2>2, <2>3
<1>5. CASE /\ c.receiving /\ "receive" \in a.awaits /\ x.events = c.events /\ y.seen = Append(a.seen, event)
  <2>1. events = none
    BY <1>1, <1>5
  <2>2. seen \o none = seen
    BY <1>1, <1>2
  <2>3. Append(seen, event) \o none = Append(seen, event)
    <3>1. PICK s : s = Append(seen, event)
      OBVIOUS
    <3>2. s \in Seq(Q)
      BY <1>2, <3>1
    <3>3. s \o none = s
      BY <1>1, <3>2
    <3>. QED BY <3>1, <3>3
  <2>4. Received(x, y) = Those(Append(seen, event), MessageEvents)
    BY <1>1, <1>5, <2>1, <2>3 DEF Received
  <2>5. Those(Append(seen, event), MessageEvents) = Append(Those(seen, MessageEvents), event)
    BY <1>2, ThoseAppended
  <2>6. Received(x, y) = Append(Received(c, a), event)
    BY <1>3, <2>1, <2>2, <2>4, <2>5
  <2>. QED BY <1>1, <1>4, <1>5, <2>6 DEF ReceivedAfter
<1>6. CASE c.receiving /\ "receive" \notin a.awaits /\ x.events = c.events /\ y = a
  <2>1. Received(x, y) = Received(c, a)
    BY <1>6 DEF Received
  <2>. QED BY <1>1, <1>4, <1>6, <2>1 DEF ReceivedAfter
<1>7. CASE ~c.receiving /\ x.events = Append(c.events, event) /\ y = a
  <2>1. seen \o Append(events, event) = Append(seen \o events, event)
    <3>1. PICK one, whole : one = <<event>> /\ whole = seen \o events
      OBVIOUS
    <3>2. one \in Seq(Q)
      BY <1>2, <3>1
    <3>3. Append(events, event) = events \o one
      BY <1>2, <3>1, JoinedToNothing
    <3>4. Append(whole, event) = whole \o one
      BY <1>2, <1>4, <3>1, JoinedToNothing
    <3>5. (seen \o events) \o one = seen \o (events \o one)
      BY <1>2, <3>2, JoinedInTwo
    <3>. QED BY <3>1, <3>3, <3>4, <3>5
  <2>2. Received(x, y) = Those(Append(seen \o events, event), MessageEvents)
    BY <1>1, <1>7, <2>1 DEF Received
  <2>3. Those(Append(seen \o events, event), MessageEvents)
           = Append(Those(seen \o events, MessageEvents), event)
    <3>1. PICK whole : whole = seen \o events
      OBVIOUS
    <3>2. whole \in Seq(Q) /\ event \in Q
      BY <1>2, <1>4, <3>1
    <3>3. PICK S : S = MessageEvents
      OBVIOUS
    <3>4. Those(Append(whole, event), S) = IF event \in S THEN Append(Those(whole, S), event)
                                           ELSE Those(whole, S)
      BY <3>2, ThoseAppended
    <3>5. event \in S
      BY <3>3
    <3>. QED BY <3>1, <3>3, <3>4, <3>5
  <2>4. Received(x, y) = Append(Received(c, a), event)
    BY <1>3, <2>2, <2>3
  <2>. QED BY <1>1, <1>4, <1>7, <2>4 DEF ReceivedAfter
<1>. QED BY <1>5, <1>6, <1>7 DEF IsPushed

\* The last frame of a message delivers it, whole and in its order.
LEMMA DeliversOne ==
    ASSUME NEW c \in AsgiContextType, NEW a \in ApplicationType, NEW p \in PeerType,
           DeliveredSoFar(c, a, p), SaidInOrder(p),
           NEW f \in Seq(Nat), f[1] = IF p.open = <<>> THEN p.sent + 1 ELSE p.open[1],
           NEW q, SaysTheEnd(p, q, f), NEW event, event = <<"receive", f>>,
           NEW d \in AsgiContextType, d.events = c.events, d.receiving = c.receiving,
           d.opcode = 0, d.message = <<>>,
           NEW x, NEW y, IsPushed(d, a, event, x, y)
    PROVE  DeliveredSoFar(x, y, q)
<1>1. PICK said, S, R, T, g : /\ said = p.said /\ S = q.said /\ R = Received(c, a) /\ T = Received(x, y)
                              /\ g = a.gaveUp
  OBVIOUS
<1>2. event \in MessageEvents /\ event[2] = f
  BY DEF MessageEvents
<1>3. Received(d, a) = R
  BY <1>1 DEF Received
<1>4. /\ c.receiving => c.events = <<>>
      /\ "receive" \in a.awaits => c.receiving
      /\ \A i \in 1..Len(R) : \E k \in 1..Len(said) : R[i][2] = said[k]
      /\ \A i, j \in 1..Len(R) : i < j => R[i][2][1] < R[j][2][1]
      /\ Len(said) <= Len(R) + g
      /\ c.receiving /\ "receive" \notin a.awaits => Len(said) < Len(R) + g
  BY <1>1 DEF DeliveredSoFar
<1>5. /\ R \in Seq(AsgiEvent)
      /\ \/ T = Append(R, event) /\ ~(c.receiving /\ "receive" \notin a.awaits)
         \/ T = R /\ c.receiving /\ "receive" \notin a.awaits
  <2>1. ReceivedAfter(d, a, x, y, event) /\ Received(d, a) \in Seq(AsgiEvent)
    BY <1>2, <1>4, PushedIsReceived
  <2>. QED BY <1>1, <1>3, <2>1 DEF ReceivedAfter
<1>6. PICK l, n : l = Len(R) /\ n = Len(said)
  OBVIOUS
<1>7. /\ l \in Nat /\ n \in Nat /\ g \in Nat /\ p.sent \in Nat
      /\ Len(S) = n + 1 /\ S[n + 1] = f /\ \A k \in 1..n : S[k] = said[k]
  <2>1. PICK Q : Q = Seq(Nat)
    OBVIOUS
  <2>2. said \in Seq(Q) /\ f \in Q /\ g \in Nat /\ p.sent \in Nat
    BY <1>1, <2>1 DEF PeerType, ApplicationType
  <2>3. S = Append(said, f)
    BY <1>1 DEF SaysTheEnd
  <2>4. n \in Nat /\ Len(S) = n + 1 /\ \A k \in 1..n + 1 : S[k] = IF k <= n THEN said[k] ELSE f
    BY <1>6, <2>2, <2>3, Appended
  <2>5. n + 1 \in 1..n + 1 /\ ~(n + 1 <= n) /\ \A k \in 1..n : k \in 1..n + 1 /\ k <= n
    BY <2>4
  <2>6. l \in Nat
    BY <1>5, <1>6
  <2>. QED BY <2>2, <2>4, <2>5, <2>6
<1>8. /\ \A k \in 1..n : k \in 1..Len(S)
      /\ n + 1 \in 1..Len(S)
  BY <1>7
<1>9. \A k \in 1..n : said[k][1] < f[1]
  <2>1. ASSUME NEW k \in 1..n PROVE said[k][1] < f[1]
    <3>1. PICK z : z = said[k][1]
      OBVIOUS
    <3>2. z \in Nat
      <4>1. PICK w, Q : w = said[k] /\ Q = Seq(Nat)
        OBVIOUS
      <4>2. said \in Seq(Q)
        BY <1>1, <4>1 DEF PeerType
      <4>3. w \in Q
        BY <1>6, <4>1, <4>2
      <4>4. w # <<>> /\ w \in Seq(Nat)
        BY <1>1, <1>6, <4>1, <4>3 DEF SaidInOrder
      <4>5. w[1] \in Nat
        BY <4>4
      <4>. QED BY <3>1, <4>1, <4>5
    <3>3. z <= p.sent /\ (p.open # <<>> => z < p.open[1])
      BY <1>1, <1>6, <3>1 DEF SaidInOrder
    <3>4. z < p.sent + 1
      BY <1>7, <3>2, <3>3
    <3>. QED BY <3>1, <3>3, <3>4
  <2>. QED BY <2>1
<1>10. /\ q.open = <<>> /\ x.opcode = 0 /\ x.message = <<>> /\ ~x.receiving /\ "receive" \notin y.awaits
       /\ y.gaveUp = g
  <2>1. q.open = <<>>
    BY DEF SaysTheEnd
  <2>2. x.opcode = 0 /\ x.message = <<>> /\ ~x.receiving /\ y.gaveUp = g
    BY <1>1 DEF IsPushed
  <2>3. "receive" \notin y.awaits
    BY <1>4 DEF IsPushed
  <2>. QED BY <2>1, <2>2, <2>3
<1>11. /\ \A i \in 1..Len(T) : \E k \in 1..Len(S) : T[i][2] = S[k]
       /\ \A i, j \in 1..Len(T) : i < j => T[i][2][1] < T[j][2][1]
       /\ Len(S) <= Len(T) + g
  <2>1. \A i \in 1..l : \E k \in 1..Len(S) : R[i][2] = S[k]
    BY <1>4, <1>6, <1>7, <1>8
  <2>2. CASE T = R /\ c.receiving /\ "receive" \notin a.awaits
    <3>1. n < l + g
      BY <1>4, <1>6, <2>2
    <3>2. Len(S) <= Len(T) + g
      BY <1>6, <1>7, <2>2, <3>1
    <3>. QED BY <1>4, <1>6, <2>1, <2>2, <3>2
  <2>3. CASE T = Append(R, event)
    <3>1. R \in Seq(AsgiEvent) /\ event \in AsgiEvent
      BY <1>2, <1>5 DEF AsgiEvent
    <3>2. Len(T) = l + 1 /\ \A i \in 1..l + 1 : T[i] = IF i <= l THEN R[i] ELSE event
      BY <1>6, <2>3, <3>1, Appended
    <3>3. \A i \in 1..l + 1 : (i <= l /\ i \in 1..l) \/ (i = l + 1 /\ ~(i <= l))
      BY <1>7, SMTT(20)
    <3>4. \A i \in 1..Len(T) : \E k \in 1..Len(S) : T[i][2] = S[k]
      <4>1. ASSUME NEW i \in 1..l + 1 PROVE \E k \in 1..Len(S) : T[i][2] = S[k]
        <5>1. CASE i <= l /\ i \in 1..l
          BY <2>1, <3>2, <5>1
        <5>2. CASE ~(i <= l)
          <6>1. T[i][2] = f
            BY <1>2, <3>2, <5>2
          <6>. QED BY <1>7, <1>8, <6>1
        <5>. QED BY <3>3, <5>1, <5>2
      <4>. QED BY <3>2, <4>1
    <3>5. ASSUME NEW i \in 1..l + 1, NEW j \in 1..l + 1, i < j PROVE T[i][2][1] < T[j][2][1]
      <4>1. i <= l /\ i \in 1..l
        BY <1>7, <3>5
      <4>2. T[i] = R[i]
        BY <3>2, <4>1
      <4>3. CASE j <= l /\ j \in 1..l
        <5>1. T[j] = R[j]
          BY <3>2, <4>3
        <5>. QED BY <1>4, <1>6, <3>5, <4>1, <4>2, <4>3, <5>1
      <4>4. CASE ~(j <= l)
        <5>1. T[j][2] = f
          BY <1>2, <3>2, <4>4
        <5>2. PICK k \in 1..n : R[i][2] = said[k]
          BY <1>4, <1>6, <4>1
        <5>. QED BY <1>9, <4>2, <5>1, <5>2
      <4>. QED BY <3>3, <4>3, <4>4
    <3>6. Len(S) <= Len(T) + g
      <4>1. n <= l + g
        BY <1>4, <1>6
      <4>. QED BY <1>7, <3>2, <4>1
    <3>. QED BY <3>2, <3>4, <3>5, <3>6
  <2>. QED BY <1>5, <2>2, <2>3
<1>. QED BY <1>1, <1>10, <1>11 DEF DeliveredSoFar

\* The data of a websocket come once it was accepted.
LEMMA DataOfAccepted ==
    ASSUME AsgiInv, NEW m \in AsgiMessage, Alive(m),
           \E n \in 1..Len(asgiWire) : asgiWire[n] = RawPart(m, "accept")
    PROVE  /\ context[m].websocket \in {"connected", "closed"}
           /\ context[m].state = "pending" /\ asgiProtocol = "http/1"
<1>1. PICK accept : accept = RawPart(m, "accept") /\ \E n \in 1..Len(asgiWire) : asgiWire[n] = accept
  OBVIOUS
<1>2. accept.of = m /\ accept.part = "accept"
  BY <1>1 DEF RawPart, PartOf
<1>3. PICK P : P = PartsOf(m)
  OBVIOUS
<1>4. asgiWire \in Seq(PartsIn(AsgiMessage))
  BY OfMessage
<1>5. \E i \in 1..Len(P) : P[i].part = "accept"
  <2>1. P = OfIn(asgiWire, m)
    BY <1>3 DEF PartsOf, OfIn
  <2>2. \A k \in 1..Len(asgiWire) : asgiWire[k].of = m => \E i \in 1..Len(P) : asgiWire[k] = P[i]
    BY <1>4, <2>1, PartsAre, ZenonT(30)
  <2>3. \E i \in 1..Len(P) : accept = P[i]
    BY <1>1, <1>2, <2>2
  <2>. QED BY <1>2, <2>3
<1>6. PICK c : c = context[m]
  OBVIOUS
<1>7. c \in AsgiContextType
  BY <1>6, OfMessage
<1>8. c.websocket # "none"
  <2>1. c.websocket = "none" => WrittenSoFar(c, P, asgiProtocol)
    BY <1>3, <1>6 DEF AsgiInv, WireInv
  <2>2. WrittenSoFar(c, P, asgiProtocol) => \A i \in 1..Len(P) : P[i].part \in {"head", "last", "chunk"}
    BY DEF WrittenSoFar
  <2>. QED BY <1>5, <2>1, <2>2
<1>9. WebsocketSoFar(c, application[m].task, P, asgiProtocol)
  BY <1>3, <1>6, <1>8 DEF AsgiInv, WireInv
<1>10. c.websocket # "connecting"
  <2>1. \A i \in 1..Len(P) : P[i].part \in PartsAt(c.websocket)
    BY <1>9 DEF WebsocketSoFar
  <2>. QED BY <1>5, <2>1 DEF PartsAt
<1>11. c.websocket \in {"connected", "closed"}
  BY <1>7, <1>8, <1>10 DEF AsgiContextType
<1>12. c.state = "pending" /\ asgiProtocol = "http/1"
  BY <1>9, <1>10 DEF WebsocketSoFar
<1>. QED BY <1>6, <1>11, <1>12

\* A frame of the peer: it is answered, it closes the websocket, or it adds to a message.
LEMMA DataKeeps ==
    ASSUME AsgiInv, NEW m \in AsgiMessage, DataHandlerWebsocket(m)
    PROVE  AsgiInv'
<1>1. Alive(m) /\ UNCHANGED <<asgiProtocol, asgiLink>>
  BY DEF DataHandlerWebsocket
<1>2. PICK c, a, p : c = context[m] /\ a = application[m] /\ p = websocketPeer
  OBVIOUS
<1>3. /\ c \in AsgiContextType /\ a \in ApplicationType /\ p \in PeerType /\ SaidInOrder(p)
      /\ c.life = "open"
  BY <1>1, <1>2, OfMessage DEF Alive
<1>4. c.websocket \in {"connected", "closed"} /\ c.state = "pending" /\ asgiProtocol = "http/1"
  BY <1>1, <1>2, DataOfAccepted DEF DataHandlerWebsocket
<1>5. /\ c.websocket = "connected" /\ a.task = "runs" => DeliveredSoFar(c, a, p)
      /\ WebsocketSoFar(c, a.task, PartsOf(m), asgiProtocol)
  <2>1. c.websocket # "none"
    BY <1>4
  <2>. QED BY <1>1, <1>2, <2>1 DEF AsgiInv, DeliveryInv, WireInv
<1>6. PICK kind \in FrameKind, fin \in BOOLEAN :
         (kind \in {"ping", "close", "malformed"} => fin) /\ Data(m, kind, fin)
  BY DEF DataHandlerWebsocket, FrameKind
<1>7. PICK id, q, f, added : /\ id = p.sent + 1 /\ q = Said(p, kind, fin, id) /\ f = Append(p.open, id)
                             /\ added = [c EXCEPT !.opcode = 1, !.message = Append(@, id)]
  OBVIOUS
<1>8. id \in Nat
  BY <1>3, <1>7 DEF PeerType
<1>9. IsSaid(p, kind, fin, id, q, f)
  <2>1. SaysFrame(p, kind, fin, id, q, f)
    BY <1>3, <1>7, <1>8 DEF SaysFrame
  <2>. QED BY <2>1, SaidIs
<1>10. q \in PeerType /\ SaidInOrder(q)
  <2>1. q = Said(p, kind, fin, p.sent + 1)
    BY <1>7
  <2>. QED BY <1>3, <1>9, <2>1, SaidStaysInOrder DEF IsSaid
<1>11. websocketPeer' = q
  BY <1>2, <1>6, <1>7 DEF Data
<1>12. CASE kind = "ping"
  <2>1. WrittenRaw(m, "pong", FALSE) /\ UNCHANGED <<context, application>>
    BY <1>6, <1>12 DEF Data
  <2>2. PICK part, closes : part = "pong" /\ closes = FALSE
    OBVIOUS
  <2>3. /\ WrittenRaw(m, part, closes)
        /\ context' = [context EXCEPT ![m] = c] /\ application' = [application EXCEPT ![m] = a]
    BY <1>2, <2>1, <2>2 DEF AsgiInv, AsgiTyped
  <2>4. part \in PartsAt(c.websocket) /\ closes \in BOOLEAN
    BY <1>4, <2>2 DEF PartsAt
  <2>5. part # "pong" => context[m].websocket # "closed"
    BY <2>2
  <2>6. c.websocket = "connected" => context[m].websocket \in {"connecting", "connected"}
    BY <1>2
  <2>7. context[m].websocket # "none" /\ context[m].state = "pending" /\ c.keep = context[m].keep
    BY <1>2, <1>4
  <2>8. AddsWrite(m, c, a, <<RawPart(m, part)>>, Write(m, FALSE, closes, FALSE))
    BY <1>1, <1>3, <1>4, <2>3, <2>4, <2>5, <2>6, <2>7, RawIsAdded
  <2>9. SaysNothing(p, q)
    BY <1>9, <1>12 DEF IsSaid
  <2>10. DeliveredSoFar(c, a, p) => DeliveredSoFar(c, a, q)
    BY <2>9 DEF DeliveredSoFar, SaysNothing
  <2>11. PeerStep(m, c, a, q)
    BY <1>1, <1>4, <1>5, <1>10, <1>11, <2>10 DEF PeerStep
  <2>. QED BY <2>8, <2>11, AddsIsSound
<1>13. CASE kind # "ping" /\ (kind = "malformed" \/ (kind \in {"text", "continuation"} /\ ~Continues(c, kind)))
  <2>1. ClosedWebsocket(m, c) /\ UNCHANGED application
    BY <1>2, <1>6, <1>13 DEF Data
  <2>2. application' = [application EXCEPT ![m] = a]
    BY <1>2, <2>1 DEF AsgiInv, AsgiTyped
  <2>3. ClosesWith(m, c, a, q)
    BY <1>1, <1>2, <1>3, <1>4, <1>10, <1>11, <2>1, <2>2 DEF ClosesWith
  <2>. QED BY <2>3, ClosedIsSound
<1>14. CASE kind = "close"
  <2>1. PICK e, x, y : /\ e = <<"disconnect">> /\ x = Pushed(m, e, c, a).context
                       /\ y = Pushed(m, e, c, a).application
    OBVIOUS
  <2>2. ClosedWebsocket(m, x) /\ application' = [application EXCEPT ![m] = y]
    BY <1>2, <1>6, <1>14, <2>1 DEF Data
  <2>3. e \in AsgiEvent
    BY <2>1 DEF AsgiEvent
  <2>4. IsPushed(c, a, e, x, y)
    BY <1>3, <2>1, <2>3, PushedIs
  <2>5. ClosesWith(m, x, y, q)
    BY <1>1, <1>2, <1>3, <1>4, <1>10, <1>11, <2>2, <2>4 DEF ClosesWith, IsPushed
  <2>. QED BY <2>5, ClosedIsSound
<1>15. CASE kind \in {"text", "continuation"} /\ Continues(c, kind)
  <2>1. PICK message : message = Append(c.message, id)
    OBVIOUS
  <2>2. message \in Seq(Nat)
    <3>1. c.message \in Seq(Nat)
      BY <1>3 DEF AsgiContextType
    <3>. QED BY <1>8, <2>1, <3>1
  <2>3. /\ added \in AsgiContextType /\ added.life = "open" /\ added.state = c.state
        /\ added.keep = c.keep /\ added.websocket = c.websocket /\ added.hasLength = c.hasLength
        /\ added.events = c.events /\ added.receiving = c.receiving
        /\ added.opcode = 1 /\ added.message = message
    <3>1. PICK one : one = 1
      OBVIOUS
    <3>2. one \in 0..1
      BY <3>1
    <3>3. added = [c EXCEPT !.opcode = one, !.message = message]
      BY <1>7, <2>1, <3>1
    <3>4. /\ added \in AsgiContextType /\ added.life = c.life /\ added.state = c.state
          /\ added.keep = c.keep /\ added.websocket = c.websocket /\ added.hasLength = c.hasLength
          /\ added.events = c.events /\ added.receiving = c.receiving
          /\ added.opcode = one /\ added.message = message
      BY <1>3, <2>2, <3>2, <3>3 DEF AsgiContextType
    <3>. QED BY <1>3, <3>1, <3>4
  <2>4. ASSUME DeliveredSoFar(c, a, p)
        PROVE  message = f /\ IF fin THEN SaysTheEnd(p, q, f) ELSE SaysMore(p, q, f)
    <3>1. c.message = p.open /\ (c.opcode = 0 <=> p.open = <<>>)
      BY <2>4 DEF DeliveredSoFar
    <3>2. (kind = "continuation") <=> (p.open # <<>>)
      BY <1>15, <3>1 DEF Continues
    <3>. QED BY <1>7, <1>9, <1>15, <2>1, <3>1, <3>2 DEF IsSaid
  <2>5. CASE fin
    <3>1. PICK d, e, x, y : /\ d = Delivered(added) /\ e = <<"receive", message>>
                            /\ x = Pushed(m, e, d, a).context /\ y = Pushed(m, e, d, a).application
      OBVIOUS
    <3>2. /\ context' = [context EXCEPT ![m] = x] /\ application' = [application EXCEPT ![m] = y]
          /\ UNCHANGED <<asgiRequest, asgiQueue, asgiWire>>
      BY <1>2, <1>6, <1>7, <1>15, <2>3, <2>5, <3>1 DEF Data
    <3>3. /\ d \in AsgiContextType /\ d.life = "open" /\ d.state = c.state
          /\ d.keep = c.keep /\ d.websocket = c.websocket
          /\ d.events = c.events /\ d.receiving = c.receiving
          /\ d.opcode = 0 /\ d.message = <<>>
      <4>1. PICK none, zero : none = <<>> /\ zero = 0
        OBVIOUS
      <4>2. none \in Seq(Nat) /\ zero \in 0..1
        BY <4>1
      <4>3. d = [added EXCEPT !.opcode = zero, !.message = none]
        BY <3>1, <4>1 DEF Delivered
      <4>4. added \in AsgiContextType
        BY <2>3
      <4>5. /\ d \in AsgiContextType /\ d.life = added.life /\ d.state = added.state
            /\ d.keep = added.keep /\ d.websocket = added.websocket
            /\ d.events = added.events /\ d.receiving = added.receiving
            /\ d.opcode = zero /\ d.message = none
        BY <4>2, <4>3, <4>4 DEF AsgiContextType
      <4>. QED BY <2>3, <4>1, <4>5
    <3>4. e \in AsgiEvent
      BY <2>2, <3>1 DEF AsgiEvent, MessageEvents
    <3>5. IsPushed(d, a, e, x, y)
      BY <1>3, <3>1, <3>3, <3>4, PushedIs
    <3>6. /\ x \in AsgiContextType /\ y \in ApplicationType /\ x.life = "open" /\ x.state = "pending"
          /\ x.keep = c.keep /\ x.websocket = c.websocket /\ y.task = a.task
      BY <1>4, <3>3, <3>5 DEF IsPushed
    <3>7. ASSUME DeliveredSoFar(c, a, p) PROVE DeliveredSoFar(x, y, q)
      <4>1. message = f /\ SaysTheEnd(p, q, f)
        BY <2>4, <2>5, <3>7
      <4>2. e = <<"receive", f>>
        BY <3>1, <4>1
      <4>3. f[1] = IF p.open = <<>> THEN p.sent + 1 ELSE p.open[1]
        BY <1>7, <1>9 DEF IsSaid
      <4>4. f \in Seq(Nat)
        BY <1>9 DEF IsSaid
      <4>. QED BY <1>3, <3>3, <3>5, <3>7, <4>1, <4>2, <4>3, <4>4, DeliversOne
    <3>8. QuietStep(m, x, y)
      <4>1. WebsocketSoFar(x, y.task, PartsOf(m), asgiProtocol)
        BY <1>4, <1>5, <3>6 DEF WebsocketSoFar
      <4>2. x.websocket # "none" /\ context[m].state # "complete"
        BY <1>2, <1>4, <3>6
      <4>. QED BY <1>1, <3>2, <3>6, <4>1, <4>2 DEF QuietStep
    <3>9. PeerStep(m, x, y, q)
      BY <1>1, <1>4, <1>5, <1>10, <1>11, <3>6, <3>7 DEF PeerStep
    <3>. QED BY <3>8, <3>9, QuietIsSound
  <2>6. CASE ~fin
    <3>1. /\ context' = [context EXCEPT ![m] = added] /\ application' = [application EXCEPT ![m] = a]
          /\ UNCHANGED <<asgiRequest, asgiQueue, asgiWire>>
      BY <1>2, <1>6, <1>7, <1>15, <2>6 DEF Data
    <3>2. ASSUME DeliveredSoFar(c, a, p) PROVE DeliveredSoFar(added, a, q)
      <4>1. message = f /\ SaysMore(p, q, f)
        BY <2>4, <2>6, <3>2
      <4>2. f # <<>>
        BY <1>9 DEF IsSaid
      <4>3. Received(added, a) = Received(c, a)
        BY <2>3 DEF Received
      <4>4. q.open = f /\ q.said = p.said
        BY <4>1 DEF SaysMore
      <4>5. added.message = q.open /\ (added.opcode = 0 <=> q.open = <<>>)
        BY <2>3, <4>1, <4>2, <4>4
      <4>. QED BY <2>3, <3>2, <4>3, <4>4, <4>5 DEF DeliveredSoFar
    <3>3. QuietStep(m, added, a)
      <4>1. WebsocketSoFar(added, a.task, PartsOf(m), asgiProtocol)
        BY <1>4, <1>5, <2>3 DEF WebsocketSoFar
      <4>2. added.websocket # "none" /\ context[m].state # "complete"
        BY <1>2, <1>4, <2>3
      <4>. QED BY <1>1, <1>3, <2>3, <3>1, <4>1, <4>2 DEF QuietStep
    <3>4. PeerStep(m, added, a, q)
      BY <1>1, <1>4, <1>5, <1>10, <1>11, <2>3, <3>2 DEF PeerStep
    <3>. QED BY <3>3, <3>4, QuietIsSound
  <2>. QED BY <2>5, <2>6
<1>. QED BY <1>12, <1>13, <1>14, <1>15 DEF FrameKind

-----------------------------------------------------------------------------
(* The contexts that are released.                                           *)

\* What of a task does not change when a write of it has been called back.
SameTask(a, b) ==
    /\ b \in ApplicationType /\ b.task = a.task /\ b.seen = a.seen /\ b.gaveUp = a.gaveUp
    /\ "receive" \in b.awaits <=> "receive" \in a.awaits

\* The contexts in gone are released, and what is left to be called back is of the others.
Deletes(gone, apps) ==
    /\ \A n \in gone : n \in AsgiMessage /\ Alive(n)
    /\ context' = ContextsDeleted(gone) /\ application' = TasksCancelled(gone, apps)
    /\ asgiWire' = WithoutThem(gone) /\ UNCHANGED <<asgiProtocol, websocketPeer>>
    /\ asgiRequest' \in Nat /\ asgiLink' \in [open : BOOLEAN, acquired : BOOLEAN]
    /\ \A n \in AsgiMessage : /\ SameTask(application[n], apps[n])
                              /\ ~Alive(n) => apps[n] = application[n]
    /\ \A n \in AsgiMessage \ gone :
          Alive(n) => asgiLink'.open /\ (asgiProtocol = "http/1" => asgiLink'.acquired)
    /\ asgiLink'.open => asgiLink.open /\ \A n \in gone : context[n].websocket = "none"
    /\ asgiQueue' \in Seq(WritesIn(AsgiMessage))
    /\ \A i \in 1..Len(asgiQueue') :
          asgiQueue'[i].of \notin gone /\ \E k \in 1..Len(asgiQueue) : asgiQueue[k] = asgiQueue'[i]
    /\ \A i, j \in 1..Len(asgiQueue') : i < j => StandsBefore(asgiQueue, asgiQueue'[i], asgiQueue'[j])

\* The release of contexts, of one whose response is over or of all with the connection, takes
\* their writes and tasks with them and leaves those of the others (handler_asgi.c:729).
LEMMA DeletesIsSound ==
    ASSUME AsgiInv, NEW gone, NEW apps, Deletes(gone, apps)
    PROVE  AsgiInv'
<1>1. ASSUME NEW n \in AsgiMessage
      PROVE  /\ n \in gone => /\ context'[n] = [NewAsgiContext EXCEPT !.life = "gone"]
                              /\ application'[n] \in ApplicationType
             /\ n \notin gone => context'[n] = context[n] /\ application'[n] = apps[n]
  <2>1. /\ context'[n] = (IF n \in gone THEN [NewAsgiContext EXCEPT !.life = "gone"] ELSE context[n])
        /\ application'[n] =
              (IF n \in gone
               THEN [apps[n] EXCEPT !.awaits = {}, !.seen = <<>>, !.parts = 0, !.gaveUp = 0,
                       !.task = IF @ \in {"runs", "unwatched"} THEN "cancelled" ELSE @]
               ELSE apps[n])
    BY DEF Deletes, ContextsDeleted, TasksCancelled
  <2>2. PICK b : b = apps[n]
    OBVIOUS
  <2>3. b \in ApplicationType
    BY <2>2 DEF Deletes, SameTask
  <2>4. PICK t, none, zero, empty :
           /\ t = (IF b.task \in {"runs", "unwatched"} THEN "cancelled" ELSE b.task)
           /\ none = {} /\ zero = 0 /\ empty = <<>>
    OBVIOUS
  <2>5. /\ t \in {"none", "runs", "unwatched", "ended", "over", "cancelled"}
        /\ none \in SUBSET {"send", "receive"} /\ zero \in Nat /\ empty \in Seq(AsgiEvent)
    <3>1. b.task \in {"none", "runs", "unwatched", "ended", "over", "cancelled"}
      BY <2>3 DEF ApplicationType
    <3>. QED BY <2>4, <3>1
  <2>6. [b EXCEPT !.awaits = none, !.seen = empty, !.parts = zero, !.gaveUp = zero, !.task = t]
           \in ApplicationType
    BY <2>3, <2>5 DEF ApplicationType
  <2>7. n \in gone => application'[n] =
           [b EXCEPT !.awaits = none, !.seen = empty, !.parts = zero, !.gaveUp = zero, !.task = t]
    BY <2>1, <2>2, <2>4
  <2>. QED BY <2>1, <2>6, <2>7
<1>2. PICK new : new = [NewAsgiContext EXCEPT !.life = "gone"]
  OBVIOUS
<1>3. new \in AsgiContextType /\ new.life = "gone" /\ new.websocket = "none"
  <2>1. PICK none, zero : none = <<>> /\ zero = 0
    OBVIOUS
  <2>2. none \in Seq(AsgiEvent) /\ none \in Seq(Nat) /\ zero \in 0..1
    BY <2>1
  <2>3. new = [life |-> "gone", state |-> "pending", websocket |-> "none", head |-> FALSE,
               keep |-> TRUE, hasBody |-> TRUE, hasLength |-> FALSE,
               events |-> none, receiving |-> FALSE, opcode |-> zero, message |-> none]
    BY <1>2, <2>1 DEF NewAsgiContext
  <2>. QED BY <2>2, <2>3 DEF AsgiContextType
<1>4. /\ \A n \in gone : n \in AsgiMessage /\ Alive(n)
      /\ UNCHANGED <<asgiProtocol, websocketPeer>>
      /\ \A n \in AsgiMessage : /\ SameTask(application[n], apps[n])
                                /\ ~Alive(n) => apps[n] = application[n]
      /\ \A n \in AsgiMessage \ gone :
            Alive(n) => asgiLink'.open /\ (asgiProtocol = "http/1" => asgiLink'.acquired)
      /\ asgiLink'.open => asgiLink.open /\ \A n \in gone : context[n].websocket = "none"
      /\ asgiQueue' \in Seq(WritesIn(AsgiMessage))
      /\ \A i \in 1..Len(asgiQueue') :
            asgiQueue'[i].of \notin gone /\ \E k \in 1..Len(asgiQueue) : asgiQueue[k] = asgiQueue'[i]
      /\ \A i, j \in 1..Len(asgiQueue') : i < j => StandsBefore(asgiQueue, asgiQueue'[i], asgiQueue'[j])
  BY DEF Deletes
<1>5. \A n \in AsgiMessage : /\ n \in gone => context'[n] = new /\ application'[n] \in ApplicationType
                             /\ n \notin gone => context'[n] = context[n] /\ application'[n] = apps[n]
  BY <1>1, <1>2
<1>6. \A n \in AsgiMessage : context'[n].life = "open" <=> Alive(n) /\ n \notin gone
  BY <1>3, <1>5 DEF Alive
<1>7. asgiWire \in Seq(PartsIn(AsgiMessage))
  BY DEF AsgiInv, AsgiTyped
<1>8. PICK wire, left : wire = asgiWire' /\ left = PartsIn(AsgiMessage \ gone)
  OBVIOUS
<1>9. wire = Those(asgiWire, left)
  BY <1>8 DEF Deletes, WithoutThem
<1>10. wire \in Seq(PartsIn(AsgiMessage)) /\ ToSet(wire) = ToSet(asgiWire) \cap left
  BY <1>7, <1>9, ThoseOf
<1>11. \A i \in 1..Len(wire) : /\ wire[i].of \in AsgiMessage \ gone
                               /\ \E k \in 1..Len(asgiWire) : asgiWire[k] = wire[i]
  <2>1. DOMAIN wire = 1..Len(wire) /\ DOMAIN asgiWire = 1..Len(asgiWire)
    BY <1>7, <1>10
  <2>2. \A i \in 1..Len(wire) : wire[i] \in ToSet(wire)
    BY <2>1 DEF ToSet
  <2>3. \A i \in 1..Len(wire) : wire[i] \in left /\ wire[i] \in ToSet(asgiWire)
    BY <1>10, <2>2
  <2>4. \A i \in 1..Len(wire) : wire[i].of \in AsgiMessage \ gone
    BY <1>8, <2>3 DEF PartsIn
  <2>. QED BY <2>1, <2>3, <2>4 DEF ToSet
<1>12. AsgiTyped'
  <2>1. context' \in [AsgiMessage -> AsgiContextType]
    <3>1. \A n \in AsgiMessage : context'[n] \in AsgiContextType
      BY <1>3, <1>5 DEF AsgiInv, AsgiTyped
    <3>2. context' = [n \in AsgiMessage |-> context'[n]]
      BY DEF Deletes, ContextsDeleted
    <3>. QED BY <3>1, <3>2
  <2>2. application' \in [AsgiMessage -> ApplicationType]
    <3>1. \A n \in AsgiMessage : application'[n] \in ApplicationType
      BY <1>4, <1>5 DEF SameTask
    <3>2. application' = [n \in AsgiMessage |-> application'[n]]
      BY DEF Deletes, TasksCancelled
    <3>. QED BY <3>1, <3>2
  <2>3. asgiRequest' \in Nat /\ asgiLink' \in [open : BOOLEAN, acquired : BOOLEAN]
    BY DEF Deletes
  <2>. QED BY <1>4, <1>8, <1>10, <2>1, <2>2, <2>3 DEF AsgiInv, AsgiTyped
<1>13. AliveInv'
  <2>1. AliveInv /\ \A i \in 1..Len(asgiQueue) : asgiQueue[i].of \in AsgiMessage
    <3>1. \A i \in 1..Len(asgiQueue) : asgiQueue[i] \in WritesIn(AsgiMessage)
      BY DEF AsgiInv, AsgiTyped
    <3>. QED BY <3>1 DEF WritesIn, AsgiInv
  <2>2. \A i \in 1..Len(wire) : context'[wire[i].of].life = "open" /\ wire[i].on = wire[i].of
    BY <1>6, <1>11, <2>1 DEF AliveInv
  <2>3. \A i \in 1..Len(asgiQueue') : context'[asgiQueue'[i].of].life = "open"
    BY <1>4, <1>6, <2>1 DEF AliveInv
  <2>4. \A n \in AsgiMessage : /\ context'[n].life # "open" => context'[n].websocket = "none"
                               /\ context'[n].life = "none" => application'[n] = NewApplication
    BY <1>3, <1>4, <1>5, <2>1 DEF AliveInv, Alive
  <2>5. \A n \in AsgiMessage : context'[n].life = "open" =>
           asgiLink'.open /\ (asgiProtocol' = "http/1" => asgiLink'.acquired)
    BY <1>4, <1>6
  <2>6. asgiProtocol' = "http/1" => \A k, n \in AsgiMessage :
           context'[k].life = "open" /\ context'[n].life = "open" => k = n
    BY <1>4, <1>6, <2>1 DEF AliveInv
  <2>. QED BY <1>8, <2>2, <2>3, <2>4, <2>5, <2>6 DEF AliveInv, Alive
<1>14. WireInv'
  <2>1. ASSUME NEW n \in AsgiMessage, n \notin gone PROVE OfIn(wire, n) = PartsOf(n)
    <3>1. PartsIn({n}) \subseteq left
      BY <1>8, <2>1 DEF PartsIn
    <3>2. Those(Those(asgiWire, left), PartsIn({n})) = Those(asgiWire, PartsIn({n}))
      BY <1>7, <3>1, ThoseOfThose
    <3>. QED BY <1>9, <3>2 DEF OfIn, PartsOf
  <2>2. ASSUME NEW n \in AsgiMessage, context'[n].life = "open"
        PROVE  IF context'[n].websocket = "none"
               THEN WrittenSoFar(context'[n], OfIn(wire, n), asgiProtocol')
               ELSE WebsocketSoFar(context'[n], application'[n].task, OfIn(wire, n), asgiProtocol')
    <3>1. n \notin gone /\ Alive(n)
      BY <1>6, <2>2
    <3>2. /\ context'[n] = context[n] /\ application'[n].task = application[n].task
          /\ asgiProtocol' = asgiProtocol /\ OfIn(wire, n) = PartsOf(n)
      BY <1>4, <1>5, <2>1, <3>1 DEF SameTask
    <3>3. IF context[n].websocket = "none"
          THEN WrittenSoFar(context[n], PartsOf(n), asgiProtocol)
          ELSE WebsocketSoFar(context[n], application[n].task, PartsOf(n), asgiProtocol)
      BY <3>1 DEF AsgiInv, WireInv
    <3>. QED BY <3>2, <3>3
  <2>3. ASSUME NEW i \in 1..Len(wire), NEW j \in 1..Len(wire), i < j,
               wire[i].part \in {"close", "refusal"}
        PROVE  wire[j].part = "pong"
    <3>1. PICK x, y : x = wire[i] /\ y = wire[j]
      OBVIOUS
    <3>2. StandsBefore(wire, x, y)
      BY <2>3, <3>1 DEF StandsBefore
    <3>3. StandsBefore(asgiWire, x, y)
      BY <1>7, <1>9, <3>2, ThoseInOrder
    <3>4. PICK k \in 1..Len(asgiWire), l \in 1..Len(asgiWire) : k < l /\ asgiWire[k] = x /\ asgiWire[l] = y
      BY <3>3 DEF StandsBefore
    <3>5. NothingAfterTheClose
      BY DEF AsgiInv, WireInv
    <3>. QED BY <2>3, <3>1, <3>4, <3>5 DEF NothingAfterTheClose
  <2>4. NothingAfterTheClose'
    BY <1>8, <2>3 DEF NothingAfterTheClose
  <2>5. \A n \in AsgiMessage : OfIn(wire, n) = PartsOf(n)'
    BY <1>8 DEF OfIn, PartsOf
  <2>. QED BY <2>2, <2>4, <2>5 DEF WireInv, Alive
<1>15. QueueInv'
  <2>1. \A i \in 1..Len(asgiQueue) :
           asgiQueue[i].of \in AsgiMessage /\ (asgiQueue[i].last => context[asgiQueue[i].of].state = "complete")
    <3>1. \A i \in 1..Len(asgiQueue) : asgiQueue[i] \in WritesIn(AsgiMessage)
      BY DEF AsgiInv, AsgiTyped
    <3>. QED BY <3>1 DEF WritesIn, AsgiInv, QueueInv
  <2>2. \A i \in 1..Len(asgiQueue') : asgiQueue'[i].last => context'[asgiQueue'[i].of].state = "complete"
    BY <1>4, <1>5, <2>1
  <2>3. ASSUME NEW i \in 1..Len(asgiQueue'), NEW j \in 1..Len(asgiQueue'), i < j,
               asgiQueue'[i].of = asgiQueue'[j].of
        PROVE  ~asgiQueue'[i].last
    <3>1. PICK x, y : x = asgiQueue'[i] /\ y = asgiQueue'[j]
      OBVIOUS
    <3>2. StandsBefore(asgiQueue, x, y)
      BY <1>4, <2>3, <3>1
    <3>3. PICK k \in 1..Len(asgiQueue), l \in 1..Len(asgiQueue) : k < l /\ asgiQueue[k] = x /\ asgiQueue[l] = y
      BY <3>2 DEF StandsBefore
    <3>. QED BY <2>3, <3>1, <3>3 DEF AsgiInv, QueueInv
  <2>. QED BY <2>2, <2>3 DEF QueueInv
<1>16. PeerInv'
  <2>1. PICK p : p = websocketPeer
    OBVIOUS
  <2>2. websocketPeer' = p /\ SaidInOrder(p)
    BY <1>4, <2>1 DEF AsgiInv, PeerInv
  <2>3. ASSUME asgiLink'.open
        PROVE  p = NewPeer \/ \E n \in AsgiMessage : /\ context'[n].life = "open"
                                                     /\ context'[n].websocket \in {"connected", "closed"}
    <3>1. p = NewPeer \/ \E n \in AsgiMessage : Alive(n) /\ context[n].websocket \in {"connected", "closed"}
      BY <1>4, <2>1, <2>3 DEF AsgiInv, PeerInv
    <3>2. ASSUME NEW n \in AsgiMessage, Alive(n), context[n].websocket \in {"connected", "closed"}
          PROVE  context'[n].life = "open" /\ context'[n].websocket \in {"connected", "closed"}
      <4>1. n \notin gone
        BY <1>4, <2>3, <3>2
      <4>. QED BY <1>5, <1>6, <3>2, <4>1
    <3>. QED BY <3>1, <3>2
  <2>. QED BY <2>2, <2>3 DEF PeerInv, Alive, SaidInOrder, NewPeer
<1>17. DeliveryInv'
  <2>1. PICK p : p = websocketPeer
    OBVIOUS
  <2>2. websocketPeer' = p
    BY <1>4, <2>1
  <2>3. ASSUME NEW n \in AsgiMessage
        PROVE  /\ context'[n].websocket \in {"connecting", "connected"} /\ application'[n].task = "runs" =>
                     DeliveredSoFar(context'[n], application'[n], p)
               /\ context'[n].websocket = "connecting" => p = NewPeer
    <3>1. CASE n \in gone
      BY <1>3, <1>5, <3>1
    <3>2. CASE n \notin gone
      <4>1. context'[n] = context[n] /\ application'[n] = apps[n] /\ SameTask(application[n], apps[n])
        BY <1>4, <1>5, <3>2
      <4>2. PICK c, a, b : c = context[n] /\ a = application[n] /\ b = apps[n]
        OBVIOUS
      <4>3. /\ c.websocket \in {"connecting", "connected"} /\ a.task = "runs" => DeliveredSoFar(c, a, p)
            /\ c.websocket = "connecting" => p = NewPeer
        BY <2>1, <4>2 DEF AsgiInv, DeliveryInv
      <4>4. b.task = a.task /\ b.seen = a.seen /\ b.gaveUp = a.gaveUp
            /\ ("receive" \in b.awaits <=> "receive" \in a.awaits)
        BY <4>1, <4>2 DEF SameTask
      <4>5. DeliveredSoFar(c, a, p) => DeliveredSoFar(c, b, p)
        BY <4>4 DEF DeliveredSoFar, Received
      <4>. QED BY <4>1, <4>2, <4>3, <4>4, <4>5
    <3>. QED BY <3>1, <3>2
  <2>. QED BY <2>2, <2>3, DeliveryAfter
<1>. QED BY <1>12, <1>13, <1>14, <1>15, <1>16, <1>17 DEF AsgiInv

\* What all the contexts that are alive leave when they are released: nothing is called back.
LEMMA AllDeleted ==
    ASSUME AsgiInv, NEW gone, gone = {c \in AsgiMessage : Alive(c)}, NEW apps,
           \A n \in AsgiMessage : SameTask(application[n], apps[n]) /\ (~Alive(n) => apps[n] = application[n]),
           context' = ContextsDeleted(gone), application' = TasksCancelled(gone, apps),
           asgiWire' = WithoutThem(gone), UNCHANGED <<asgiProtocol, websocketPeer>>,
           asgiRequest' \in Nat, asgiLink' \in [open : BOOLEAN, acquired : BOOLEAN], ~asgiLink'.open,
           asgiQueue' = <<>>
    PROVE  Deletes(gone, apps)
<1>1. PICK queue : queue = asgiQueue'
  OBVIOUS
<1>2. queue \in Seq(WritesIn(AsgiMessage)) /\ Len(queue) = 0
  BY <1>1
<1>3. \A i \in 1..Len(queue) : FALSE
  BY <1>2
<1>4. \A n \in AsgiMessage \ gone : ~Alive(n)
  OBVIOUS
<1>5. \A n \in gone : n \in AsgiMessage /\ Alive(n)
  OBVIOUS
<1>. QED BY <1>1, <1>2, <1>3, <1>4, <1>5 DEF Deletes

\* A task is its own.
LEMMA SameAsBefore ==
    ASSUME AsgiInv, NEW n \in AsgiMessage
    PROVE  SameTask(application[n], application[n])
  BY OfMessage DEF SameTask

\* The peer closes the connection.
LEMMA PeerClosesKeeps ==
    ASSUME AsgiInv, PeerCloses
    PROVE  AsgiInv'
<1>1. PICK gone : gone = {c \in AsgiMessage : Alive(c)}
  OBVIOUS
<1>2. /\ context' = ContextsDeleted(gone) /\ application' = TasksCancelled(gone, application)
      /\ asgiWire' = WithoutThem(gone) /\ UNCHANGED <<asgiProtocol, asgiRequest, websocketPeer>>
      /\ asgiLink' = [asgiLink EXCEPT !.open = FALSE] /\ asgiQueue' = <<>>
  BY <1>1 DEF PeerCloses
<1>3. asgiLink \in [open : BOOLEAN, acquired : BOOLEAN] /\ asgiRequest \in Nat
  BY DEF AsgiInv, AsgiTyped
<1>4. asgiLink' \in [open : BOOLEAN, acquired : BOOLEAN] /\ ~asgiLink'.open /\ asgiRequest' \in Nat
  BY <1>2, <1>3
<1>5. \A n \in AsgiMessage : /\ SameTask(application[n], application[n])
                             /\ ~Alive(n) => application[n] = application[n]
  BY SameAsBefore
<1>6. Deletes(gone, application)
  BY <1>1, <1>2, <1>4, <1>5, AllDeleted
<1>. QED BY <1>6, DeletesIsSound

\* A stream of HTTP/2 is reset.
LEMMA StreamResetKeeps ==
    ASSUME AsgiInv, NEW m \in AsgiMessage, StreamReset(m)
    PROVE  AsgiInv'
<1>1. PICK gone, others : gone = {m} /\ others = WritesIn(AsgiMessage \ {m})
  OBVIOUS
<1>2. /\ asgiLink.open /\ asgiProtocol = "http/2" /\ Alive(m)
      /\ context' = ContextsDeleted(gone) /\ application' = TasksCancelled(gone, application)
      /\ asgiQueue' = Those(asgiQueue, others) /\ asgiWire' = WithoutThem(gone)
      /\ UNCHANGED <<asgiProtocol, asgiLink, asgiRequest, websocketPeer>>
  BY <1>1 DEF StreamReset
<1>3. /\ asgiLink' \in [open : BOOLEAN, acquired : BOOLEAN] /\ asgiRequest' \in Nat
      /\ asgiQueue \in Seq(WritesIn(AsgiMessage))
  BY <1>2 DEF AsgiInv, AsgiTyped
<1>4. PICK queue : queue = asgiQueue'
  OBVIOUS
<1>5. queue \in Seq(WritesIn(AsgiMessage)) /\ ToSet(queue) = ToSet(asgiQueue) \cap others
  BY <1>2, <1>3, <1>4, ThoseOf
<1>6. \A i \in 1..Len(queue) : queue[i].of \notin gone /\ \E k \in 1..Len(asgiQueue) : asgiQueue[k] = queue[i]
  <2>1. DOMAIN queue = 1..Len(queue) /\ DOMAIN asgiQueue = 1..Len(asgiQueue)
    BY <1>3, <1>5
  <2>2. \A i \in 1..Len(queue) : queue[i] \in ToSet(queue)
    BY <2>1 DEF ToSet
  <2>3. \A i \in 1..Len(queue) : queue[i] \in others /\ queue[i] \in ToSet(asgiQueue)
    BY <1>5, <2>2
  <2>4. \A i \in 1..Len(queue) : queue[i].of \notin gone
    BY <1>1, <2>3 DEF WritesIn
  <2>. QED BY <2>1, <2>3, <2>4 DEF ToSet
<1>7. ASSUME NEW i \in 1..Len(queue), NEW j \in 1..Len(queue), i < j
      PROVE  StandsBefore(asgiQueue, queue[i], queue[j])
  <2>1. PICK x, y : x = queue[i] /\ y = queue[j]
    OBVIOUS
  <2>2. StandsBefore(queue, x, y)
    BY <1>7, <2>1 DEF StandsBefore
  <2>3. StandsBefore(asgiQueue, x, y)
    BY <1>2, <1>3, <1>4, <2>2, ThoseInOrder
  <2>. QED BY <2>1, <2>3
<1>8. context[m].websocket = "none"
  <2>1. context[m].websocket # "none" =>
           WebsocketSoFar(context[m], application[m].task, PartsOf(m), asgiProtocol)
    BY <1>2 DEF AsgiInv, WireInv
  <2>. QED BY <1>2, <2>1 DEF WebsocketSoFar
<1>9. \A n \in AsgiMessage : SameTask(application[n], application[n])
  BY SameAsBefore
<1>10. \A n \in gone : n = m
  BY <1>1
<1>11. Deletes(gone, application)
  BY <1>2, <1>3, <1>4, <1>5, <1>6, <1>7, <1>8, <1>9, <1>10 DEF Deletes
<1>. QED BY <1>11, DeletesIsSound

\* A callback is taken: its message goes on, or it is over, or the connection is.
LEMMA WriteCompletesKeeps ==
    ASSUME AsgiInv, WriteCompletes
    PROVE  AsgiInv'
<1>1. PICK n \in 1..Len(asgiQueue) :
         LET write == asgiQueue[n]
             m == write.of
             rest == RemoveAt(asgiQueue, n)
             closed == write.closes \/ (write.last /\ ~context[m].keep)
             gone == IF closed THEN {c \in AsgiMessage : Alive(c)}
                     ELSE IF write.last THEN {m} ELSE {}
         IN  /\ IF asgiProtocol = "http/1" THEN n = 1
                ELSE \A k \in 1..(n - 1) : asgiQueue[k].of # m
             /\ asgiRequest' = m
             /\ asgiQueue' = IF closed THEN <<>> ELSE rest
             /\ context' = ContextsDeleted(gone)
             /\ application' = TasksCancelled(gone, Resolved(write))
             /\ asgiLink' = [open |-> ~closed,
                             acquired |-> asgiLink.acquired /\ ~(Releases(write) /\ ~closed)]
             /\ asgiWire' = WithoutThem(gone)
  BY DEF WriteCompletes
<1>2. PICK write, m, rest, apps : /\ write = asgiQueue[n] /\ m = write.of
                                  /\ rest = RemoveAt(asgiQueue, n) /\ apps = Resolved(write)
  OBVIOUS
<1>3. asgiQueue \in Seq(WritesIn(AsgiMessage)) /\ asgiLink \in [open : BOOLEAN, acquired : BOOLEAN]
      /\ asgiProtocol \in {"http/1", "http/2"}
  BY DEF AsgiInv, AsgiTyped
<1>4. write \in WritesIn(AsgiMessage)
  BY <1>2, <1>3
<1>5. /\ m \in AsgiMessage /\ Alive(m) /\ write.last \in BOOLEAN /\ write.closes \in BOOLEAN
      /\ write.last => context[m].state = "complete"
  BY <1>2, <1>4 DEF WritesIn, AsgiInv, AliveInv, QueueInv
<1>6. PICK closed \in BOOLEAN, keep \in BOOLEAN :
         keep = context[m].keep /\ closed = (write.closes \/ (write.last /\ ~keep))
  <2>1. PICK c : c = context[m]
    OBVIOUS
  <2>2. c \in AsgiContextType
    BY <1>5, <2>1, OfMessage
  <2>3. c.keep \in BOOLEAN
    BY <2>2 DEF AsgiContextType
  <2>. QED BY <1>5, <2>1, <2>3
<1>7. PICK gone : gone = IF closed THEN {c \in AsgiMessage : Alive(c)}
                         ELSE IF write.last THEN {m} ELSE {}
  OBVIOUS
<1>8. /\ IF asgiProtocol = "http/1" THEN n = 1
         ELSE \A k \in 1..(n - 1) : asgiQueue[k].of # m
      /\ asgiRequest' = m
      /\ asgiQueue' = IF closed THEN <<>> ELSE rest
      /\ context' = ContextsDeleted(gone)
      /\ application' = TasksCancelled(gone, apps)
      /\ asgiLink' = [open |-> ~closed, acquired |-> asgiLink.acquired /\ ~(write.last /\ ~closed)]
      /\ asgiWire' = WithoutThem(gone)
      /\ UNCHANGED <<asgiProtocol, websocketPeer>> /\ asgiLink.open
  BY <1>1, <1>2, <1>6, <1>7 DEF WriteCompletes, Releases
<1>9. asgiLink' \in [open : BOOLEAN, acquired : BOOLEAN] /\ asgiLink'.open = ~closed /\ asgiRequest' \in Nat
  BY <1>3, <1>5, <1>6, <1>8, AsgiAssumption
<1>10. ASSUME NEW k \in AsgiMessage
       PROVE  SameTask(application[k], apps[k]) /\ (~Alive(k) => apps[k] = application[k])
  <2>1. application \in [AsgiMessage -> ApplicationType]
    BY DEF AsgiInv, AsgiTyped
  <2>2. apps = IF write.awaited THEN [application EXCEPT ![m].awaits = @ \ {"send"}] ELSE application
    BY <1>2 DEF Resolved
  <2>3. CASE k = m /\ write.awaited
    <3>1. PICK a, w : a = application[k] /\ w = a.awaits \ {"send"}
      OBVIOUS
    <3>2. apps[k] = [a EXCEPT !.awaits = w]
      BY <1>5, <2>1, <2>2, <2>3, <3>1
    <3>3. a \in ApplicationType
      BY <2>1, <3>1
    <3>4. w \in SUBSET {"send", "receive"} /\ ("receive" \in w <=> "receive" \in a.awaits)
      BY <3>1, <3>3 DEF ApplicationType
    <3>5. SameTask(a, apps[k])
      BY <3>2, <3>3, <3>4 DEF SameTask, ApplicationType
    <3>. QED BY <1>5, <2>3, <3>1, <3>5
  <2>4. CASE ~(k = m /\ write.awaited)
    <3>1. apps[k] = application[k]
      BY <1>5, <2>1, <2>2, <2>4
    <3>. QED BY <3>1, SameAsBefore
  <2>. QED BY <2>3, <2>4
<1>11. CASE closed
  <2>1. gone = {c \in AsgiMessage : Alive(c)} /\ asgiQueue' = <<>> /\ ~asgiLink'.open
    BY <1>7, <1>8, <1>9, <1>11
  <2>2. Deletes(gone, apps)
    BY <1>8, <1>9, <1>10, <2>1, AllDeleted
  <2>. QED BY <2>2, DeletesIsSound
<1>12. CASE ~closed
  <2>1. asgiQueue' = rest /\ asgiLink'.open /\ (write.last => keep)
    BY <1>6, <1>8, <1>9, <1>12
  <2>2. PICK l : l = Len(asgiQueue)
    OBVIOUS
  <2>3. /\ l \in Nat /\ n \in 1..l /\ rest \in Seq(WritesIn(AsgiMessage)) /\ Len(rest) = l - 1
        /\ \A k \in 1..l - 1 : rest[k] = IF k <= n - 1 THEN asgiQueue[k] ELSE asgiQueue[k + 1]
    <3>1. PICK W : W = WritesIn(AsgiMessage)
      OBVIOUS
    <3>2. PICK t : t = asgiQueue
      OBVIOUS
    <3>3. t \in Seq(W) /\ n \in 1..Len(t) /\ l = Len(t) /\ rest = RemoveAt(t, n)
      BY <1>2, <1>3, <2>2, <3>1, <3>2
    <3>4. /\ rest \in Seq(W) /\ Len(rest) = l - 1
          /\ \A k \in 1..l - 1 : rest[k] = IF k <= n - 1 THEN t[k] ELSE t[k + 1]
      BY <3>3, OneRemoved
    <3>5. l \in Nat /\ n \in 1..l
      BY <3>3
    <3>. QED BY <3>1, <3>2, <3>4, <3>5
  <2>4. ASSUME NEW k \in 1..l, k # n, write.last PROVE asgiQueue[k].of # m
    <3>1. CASE k < n
      <4>1. n # 1 /\ k \in 1..(n - 1)
        BY <2>3, <3>1
      <4>. QED BY <1>8, <4>1
    <3>2. CASE n < k
      BY <1>2, <2>2, <2>4, <3>2 DEF AsgiInv, QueueInv
    <3>. QED BY <2>3, <2>4, <3>1, <3>2
  <2>5. ASSUME NEW k \in 1..Len(rest)
        PROVE  \E j \in 1..l : /\ j # n /\ rest[k] = asgiQueue[j]
                               /\ j = IF k <= n - 1 THEN k ELSE k + 1
    <3>1. CASE k <= n - 1
      <4>1. k \in 1..l /\ k # n /\ k \in 1..l - 1
        BY <2>3, <3>1
      <4>. QED BY <2>3, <3>1, <4>1
    <3>2. CASE ~(k <= n - 1)
      <4>1. k + 1 \in 1..l /\ k + 1 # n /\ k \in 1..l - 1
        BY <2>3, <3>2
      <4>. QED BY <2>3, <3>2, <4>1
    <3>. QED BY <3>1, <3>2
  <2>6. gone = IF write.last THEN {m} ELSE {}
    BY <1>7, <1>12
  <2>7. \A k \in 1..Len(rest) : rest[k].of \notin gone /\ \E j \in 1..Len(asgiQueue) : asgiQueue[j] = rest[k]
    BY <2>2, <2>4, <2>5, <2>6
  <2>8. ASSUME NEW i \in 1..Len(rest), NEW j \in 1..Len(rest), i < j
        PROVE  StandsBefore(asgiQueue, rest[i], rest[j])
    <3>1. PICK p \in 1..l : rest[i] = asgiQueue[p] /\ p = IF i <= n - 1 THEN i ELSE i + 1
      BY <2>5
    <3>2. PICK q \in 1..l : rest[j] = asgiQueue[q] /\ q = IF j <= n - 1 THEN j ELSE j + 1
      BY <2>5
    <3>3. p < q
      BY <2>3, <2>8, <3>1, <3>2
    <3>. QED BY <2>2, <3>1, <3>2, <3>3 DEF StandsBefore
  <2>9. \A k \in gone : k = m /\ write.last
    BY <2>6
  <2>10. write.last => context[m].websocket = "none"
    <3>1. ASSUME write.last, context[m].websocket # "none" PROVE FALSE
      <4>1. WebsocketSoFar(context[m], application[m].task, PartsOf(m), asgiProtocol)
        BY <1>5, <3>1 DEF AsgiInv, WireInv
      <4>. QED BY <1>6, <2>1, <3>1, <4>1 DEF WebsocketSoFar
    <3>. QED BY <3>1
  <2>11. ASSUME NEW k \in AsgiMessage \ gone, Alive(k), asgiProtocol = "http/1" PROVE asgiLink'.acquired
    <3>1. k = m /\ asgiLink.acquired
      BY <1>5, <2>11 DEF AsgiInv, AliveInv
    <3>2. ~write.last
      BY <2>6, <2>11, <3>1
    <3>. QED BY <1>8, <3>1, <3>2
  <2>12. Deletes(gone, apps)
    BY <1>5, <1>8, <1>9, <1>10, <2>1, <2>3, <2>7, <2>8, <2>9, <2>10, <2>11 DEF Deletes
  <2>. QED BY <2>12, DeletesIsSound
<1>. QED BY <1>11, <1>12

-----------------------------------------------------------------------------
(* The specification.                                                        *)

\* Nothing is open and nothing is written at first.
LEMMA AsgiBegins == AsgiInit => AsgiInv
<1>. SUFFICES ASSUME AsgiInit PROVE AsgiInv
  OBVIOUS
<1>1. PICK none, zero : none = <<>> /\ zero = 0
  OBVIOUS
<1>2. /\ asgiProtocol \in {"http/1", "http/2"} /\ asgiLink = [open |-> TRUE, acquired |-> FALSE]
      /\ asgiRequest = zero /\ asgiQueue = none /\ asgiWire = none /\ websocketPeer = NewPeer
      /\ context = [m \in AsgiMessage |-> NewAsgiContext]
      /\ application = [m \in AsgiMessage |-> NewApplication]
  BY <1>1 DEF AsgiInit
<1>3. /\ none \in Seq(AsgiEvent) /\ none \in Seq(Nat) /\ none \in Seq(Seq(Nat))
      /\ none \in Seq(PartsIn(AsgiMessage)) /\ none \in Seq(WritesIn(AsgiMessage))
      /\ Len(none) = 0 /\ zero \in 0..1 /\ zero \in Nat
  BY <1>1
<1>4. \A i \in 1..Len(none) : FALSE
  BY <1>3
<1>5. PICK new : new = NewAsgiContext
  OBVIOUS
<1>6. new \in AsgiContextType /\ new.life = "none" /\ new.websocket = "none"
  <2>1. new = [life |-> "none", state |-> "pending", websocket |-> "none", head |-> FALSE,
               keep |-> TRUE, hasBody |-> TRUE, hasLength |-> FALSE,
               events |-> none, receiving |-> FALSE, opcode |-> zero, message |-> none]
    BY <1>1, <1>5 DEF NewAsgiContext
  <2>. QED BY <1>3, <2>1 DEF AsgiContextType
<1>7. NewApplication \in ApplicationType
  <2>1. PICK b, nobody : b = NewApplication /\ nobody = {}
    OBVIOUS
  <2>2. nobody \in SUBSET {"send", "receive"}
    BY <2>1
  <2>3. b = [task |-> "none", awaits |-> nobody, seen |-> none, parts |-> zero, gaveUp |-> zero]
    BY <1>1, <2>1 DEF NewApplication
  <2>4. b \in ApplicationType
    BY <1>3, <2>2, <2>3 DEF ApplicationType
  <2>. QED BY <2>1, <2>4
<1>8. PICK p : p = NewPeer
  OBVIOUS
<1>9. p \in PeerType /\ p.said = none /\ p.open = none
  <2>1. p = [sent |-> zero, open |-> none, said |-> none, closed |-> FALSE]
    BY <1>1, <1>8 DEF NewPeer
  <2>. QED BY <1>3, <2>1 DEF PeerType
<1>10. \A m \in AsgiMessage : context[m] = new /\ application[m] = NewApplication /\ ~Alive(m)
  BY <1>2, <1>5, <1>6 DEF Alive
<1>11. AsgiTyped
  BY <1>2, <1>3, <1>5, <1>6, <1>7, <1>8, <1>9 DEF AsgiTyped
<1>12. AliveInv
  BY <1>2, <1>4, <1>6, <1>10 DEF AliveInv
<1>13. WireInv
  BY <1>2, <1>4, <1>10 DEF WireInv, NothingAfterTheClose
<1>14. QueueInv
  BY <1>2, <1>4 DEF QueueInv
<1>15. PeerInv
  <2>1. SaidInOrder(p)
    BY <1>1, <1>4, <1>9 DEF SaidInOrder
  <2>. QED BY <1>2, <1>8, <2>1 DEF PeerInv
<1>16. DeliveryInv
  BY <1>6, <1>10 DEF DeliveryInv
<1>. QED BY <1>11, <1>12, <1>13, <1>14, <1>15, <1>16 DEF AsgiInv

\* Every step of the handler keeps the invariant.
LEMMA AsgiKeeps == AsgiInv /\ [AsgiNext]_asgiVars => AsgiInv'
<1>. SUFFICES ASSUME AsgiInv, [AsgiNext]_asgiVars PROVE AsgiInv'
  OBVIOUS
<1>1. ASSUME NEW m \in AsgiMessage, CallApplication(m) PROVE AsgiInv'
  BY <1>1, CallKeeps
<1>2. ASSUME NEW m \in AsgiMessage, Receive(m) PROVE AsgiInv'
  BY <1>2, ReceiveKeeps
<1>3. ASSUME NEW m \in AsgiMessage, GiveUp(m) PROVE AsgiInv'
  BY <1>3, GiveUpKeeps
<1>4. ASSUME NEW m \in AsgiMessage, Start(m) PROVE AsgiInv'
  BY <1>4, StartKeeps
<1>5. ASSUME NEW m \in AsgiMessage, Body(m) PROVE AsgiInv'
  BY <1>5, BodyKeeps
<1>6. ASSUME NEW m \in AsgiMessage, Returns(m) PROVE AsgiInv'
  BY <1>6, ReturnsKeeps
<1>7. ASSUME NEW m \in AsgiMessage, Accept(m) \/ SendFrame(m) \/ CloseWebsocket(m) PROVE AsgiInv'
  BY <1>7, WebsocketKeeps
<1>8. ASSUME NEW m \in AsgiMessage, DataHandlerWebsocket(m) PROVE AsgiInv'
  BY <1>8, DataKeeps
<1>9. ASSUME NEW m \in AsgiMessage, Done(m) PROVE AsgiInv'
  BY <1>9, DoneKeeps
<1>10. ASSUME NEW m \in AsgiMessage, StreamReset(m) PROVE AsgiInv'
  BY <1>10, StreamResetKeeps
<1>11. CASE WriteCompletes
  BY <1>11, WriteCompletesKeeps
<1>12. CASE PeerCloses
  BY <1>12, PeerClosesKeeps
<1>13. CASE UNCHANGED asgiVars
  <2>1. /\ AsgiTyped' /\ QueueInv' /\ AliveInv' /\ NothingAfterTheClose'
    BY <1>13 DEF asgiVars, AsgiInv, AsgiTyped, QueueInv, AliveInv, Alive, WireInv, NothingAfterTheClose
  <2>2. WireInv'
    <3>1. \A m \in AsgiMessage : PartsOf(m)' = PartsOf(m)
      BY <1>13 DEF asgiVars, PartsOf
    <3>. QED BY <1>13, <2>1, <3>1 DEF asgiVars, AsgiInv, WireInv, Alive
  <2>3. PeerInv'
    BY <1>13 DEF asgiVars, AsgiInv, PeerInv, Alive, SaidInOrder, NewPeer
  <2>4. DeliveryInv'
    BY <1>13 DEF asgiVars, AsgiInv, DeliveryInv, DeliveredSoFar, Received, NewPeer
  <2>. QED BY <2>1, <2>2, <2>3, <2>4 DEF AsgiInv
<1>. QED BY <1>1, <1>2, <1>3, <1>4, <1>5, <1>6, <1>7, <1>8, <1>9, <1>10, <1>11, <1>12, <1>13 DEF AsgiNext

\* Whenever an application acts, and whatever has become of its connection, it is on its own
\* message, with a response that is whole, in the framing that it announced, and with nothing
\* after the close of a websocket, whose messages it is given whole and in their order
\* (handler_asgi.c:1329, 1362, 1931, 2119, 2404).
THEOREM TasksAlwaysKeepTheirOwn == AsgiSpec => []TasksKeepTheirOwn
<1>1. AsgiSpec => []AsgiInv
  BY AsgiBegins, AsgiKeeps, PTL DEF AsgiSpec
<1>. QED BY <1>1, AsgiInvIsEnough, PTL
=============================================================================
