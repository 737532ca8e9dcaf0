---------------------------- MODULE PythonServer ----------------------------
(***************************************************************************)
(* The serving loop of the Python package (module/server.c), the advancing *)
(* of the event loop of the application (module/loop.c) and the lifespan   *)
(* protocol around it (module/handler_asgi.c).                             *)
(*                                                                         *)
(* The interpreter only marks a signal when it arrives (tripped) and runs  *)
(* the handler of it whenever Python code runs in the main thread, or when *)
(* the server asks for it.  The handler the server puts in place of the    *)
(* default one records the interrupt, the second of them raises it.  What  *)
(* an interrupt raised within the event loop aborts is found by the server *)
(* as the failure of a call, and the interrupt is either given back to the *)
(* interpreter or, while an event of the lifespan is awaited, remembered.  *)
(*                                                                         *)
(* An action of the serving loop is one turn of it: a signal that arrives  *)
(* in the middle of the turn is one that arrived before it and that the    *)
(* interpreter had not run the handler of yet.  The handler that an        *)
(* application sets is taken not to raise, and one server serves at a time:*)
(* the flags are those of the process.                                     *)
(***************************************************************************)
EXTENDS Naturals

CONSTANTS
    WaitTurns,       \* VIRIATUM_ASGI_LIFESPAN_ITERATIONS
    WaitTime,        \* VIRIATUM_ASGI_LIFESPAN_TIMEOUT, in slices
    WaitFailures,    \* VIRIATUM_ASGI_LIFESPAN_FAILURES
    MostInterrupts   \* bound: the interrupts of one serving

ASSUME PythonServerAssumption ==
    /\ {WaitTurns, WaitTime, WaitFailures, MostInterrupts} \subseteq Nat
    /\ WaitFailures > MostInterrupts + 1

VARIABLES
    pyPhase,     \* where serve_forever is
    pySignal,    \* the interrupt, the handler of it and the flags around it
    pyStatus,    \* status of the service
    pyLifespan,  \* lifespan_context of the handler and what it was told
    pyWait,      \* the locals of _wait_lifespan_handler_asgi
    pyOutcome,   \* what serve_forever returned
    pyCount      \* interrupts that arrived, and how many are owed to the caller

pyVars == <<pyPhase, pySignal, pyStatus, pyLifespan, pyWait, pyOutcome, pyCount>>

NewWait == [turns |-> 0, time |-> 0, failures |-> 0, ended |-> "none"]

PyInit ==
    /\ pyPhase = "opening"
    /\ pySignal = [tripped |-> FALSE, handler |-> "default", replaced |-> FALSE,
                   recorded |-> FALSE, interrupted |-> FALSE, held |-> FALSE,
                   remembered |-> FALSE, stale |-> FALSE]
    /\ pyStatus = "closed"
    /\ pyLifespan = [context |-> FALSE, task |-> "none", startup |-> 0, shutdown |-> 0,
                     pushed |-> {}, booted |-> FALSE]
    /\ pyWait = NewWait
    /\ pyOutcome = "none"
    /\ pyCount = [arrived |-> 0, owed |-> FALSE]

-----------------------------------------------------------------------------
(* The interpreter.                                                        *)

\* The handler of a signal that has arrived: the result, and if it raises.
HandlerRun(s) ==
    CASE ~s.tripped -> <<s, FALSE>>
      [] s.tripped /\ s.handler = "own" /\ ~s.recorded ->
            <<[s EXCEPT !.tripped = FALSE, !.recorded = TRUE], FALSE>>
      [] s.tripped /\ s.handler = "application" -> <<[s EXCEPT !.tripped = FALSE], FALSE>>
      [] OTHER -> <<[s EXCEPT !.tripped = FALSE], TRUE>>

\* Python code that runs meets the signal, or ends before it arrives.
Python(s) == {<<s, FALSE>>, HandlerRun(s)}

\* An interrupt that aborts a call of the loop is never discarded.
Cleared(s) == IF s.held THEN [s EXCEPT !.remembered = TRUE] ELSE [s EXCEPT !.tripped = TRUE]

\* What the owner of the handler the application has set is no longer owed.
Owed(s, t) == pyCount.owed /\ ~(s.handler = "application" /\ s.tripped /\ ~t.tripped)

\* An interrupt arrives.
Interrupt ==
    /\ pyPhase # "returned"
    /\ ~pySignal.tripped
    /\ pyCount.arrived < MostInterrupts
    /\ pySignal' = [pySignal EXCEPT !.tripped = TRUE]
    /\ pyCount' = [arrived |-> pyCount.arrived + 1, owed |-> TRUE]
    /\ UNCHANGED <<pyPhase, pyStatus, pyLifespan, pyWait, pyOutcome>>

\* The application sets a handler of its own.
SetsHandler ==
    /\ pyPhase \in {"starting", "serving", "stopping"}
    /\ pySignal.handler # "application"
    /\ pySignal' = [pySignal EXCEPT !.handler = "application"]
    /\ UNCHANGED <<pyPhase, pyStatus, pyLifespan, pyWait, pyOutcome, pyCount>>

\* What the lifespan task of the application does while the loop runs: nothing,
\* a report, or its end.
Application(l) ==
    {l} \union IF l.task # "alive" THEN {} ELSE
       {[l EXCEPT !.task = "done"]}
       \union (IF ~l.context THEN {} ELSE
          {[l EXCEPT !.startup = r] : r \in {1, 2}} \union {[l EXCEPT !.shutdown = r] : r \in {1, 2}})

-----------------------------------------------------------------------------
(* The opening, and the startup of the lifespan.                           *)

\* The default handler is replaced, unless an interrupt that has already
\* arrived ends the replacing: it is given back and the default one is kept.
Held(s) ==
    LET ran == HandlerRun(s)
    IN  IF ran[2] THEN Cleared(ran[1])
        ELSE [s EXCEPT !.handler = "own", !.replaced = TRUE, !.recorded = FALSE]

LifespanStarts == [pyLifespan EXCEPT !.context = TRUE, !.task = "alive", !.pushed = {"startup"}]

Opens ==
    /\ pyPhase = "opening"
    /\ \/ \* open_service failed
          /\ pyPhase' = "returned" /\ pyOutcome' = "failure"
          /\ UNCHANGED <<pySignal, pyStatus, pyLifespan, pyWait>>
       \/ /\ pyStatus' = "open"
          /\ pySignal' = [Held(pySignal) EXCEPT !.held = TRUE]
          /\ pyLifespan' = LifespanStarts
          /\ pyWait' = NewWait
          /\ pyPhase' = "starting" /\ UNCHANGED pyOutcome
       \/ \* the application refuses the scope
          /\ pyStatus' = "open"
          /\ pySignal' = Held(pySignal)
          /\ pyLifespan' = [pyLifespan EXCEPT !.pushed = {"startup"}]
          /\ pyPhase' = "serving" /\ UNCHANGED <<pyOutcome, pyWait>>
    /\ UNCHANGED pyCount

\* The state that the wait looks at.
Awaited == IF pyPhase = "starting" THEN pyLifespan.startup ELSE pyLifespan.shutdown

Waiting == pyPhase \in {"starting", "stopping"} /\ pyLifespan.context /\ pyWait.ended = "none"

\* A slice of the loop that ran, in which an interrupt may have been raised; the
\* stop that an earlier aborted run left behind ends it too early.
Slice(ran) == [(IF ran[2] THEN Cleared(ran[1]) ELSE ran[1]) EXCEPT !.stale = FALSE]

ExhaustedInTime == pyWait.time = WaitTime
Exhausted == pyWait.turns = WaitTurns \/ pyWait.time = WaitTime

Turned == IF pyWait.turns < WaitTurns THEN pyWait.turns + 1 ELSE pyWait.turns

\* One turn of the wait: a slice of the loop, unless a bound has been reached.
WaitTurn ==
    /\ Waiting
    /\ ~Exhausted /\ Awaited = 0
    /\ \E ran \in Python(pySignal), l \in Application(pyLifespan), passed \in {0, 1} :
         LET fails == ran[2] \/ ran[1].stale
             failed == IF fails THEN pyWait.failures + 1 ELSE 0
             awaits == IF pyPhase = "starting" THEN l.startup ELSE l.shutdown
         IN  /\ pySignal' = Slice(ran)
             /\ pyLifespan' = l
             /\ pyCount' = [pyCount EXCEPT !.owed = Owed(pySignal, ran[1])]
             /\ pyWait' = [turns |-> Turned, time |-> pyWait.time + passed,
                           failures |-> failed,
                           ended |-> CASE fails /\ failed >= WaitFailures -> "failures"
                                       [] ~fails /\ awaits = 0 /\ l.task = "done" -> "task"
                                       [] OTHER -> "none"]
    /\ UNCHANGED <<pyPhase, pyStatus, pyOutcome>>

WaitEnds ==
    /\ Waiting
    /\ Awaited # 0 \/ Exhausted
    /\ pyWait' = [pyWait EXCEPT !.ended = IF Awaited # 0 THEN "answered" ELSE "time"]
    /\ UNCHANGED <<pyPhase, pySignal, pyStatus, pyLifespan, pyOutcome, pyCount>>

\* The interrupt that the wait has remembered is given back.
WaitReleased(s) ==
    [s EXCEPT !.held = FALSE, !.remembered = FALSE, !.tripped = s.tripped \/ s.remembered]

\* The context goes, and the task is cancelled.
ContextGone(l) == [l EXCEPT !.context = FALSE, !.task = "done"]

Started ==
    /\ pyPhase = "starting" /\ pyWait.ended # "none"
    /\ pySignal' = WaitReleased(pySignal)
    /\ pyLifespan' = IF pyLifespan.startup = 1 THEN [pyLifespan EXCEPT !.booted = TRUE]
                     ELSE ContextGone(pyLifespan)
    /\ IF pyLifespan.startup = 2
       THEN pyPhase' = "releasing" /\ pyOutcome' = "failure" /\ pyStatus' = "closed"
       ELSE pyPhase' = "serving" /\ UNCHANGED <<pyOutcome, pyStatus>>
    /\ UNCHANGED <<pyWait, pyCount>>

-----------------------------------------------------------------------------
(* The serving and the end of it.                                          *)

\* The shutdown is pushed to the application, and awaited, if it has booted.
Tells(l) == IF l.context THEN [l EXCEPT !.pushed = @ \union {"shutdown"}] ELSE l

Stopping(s) == [s EXCEPT !.held = pyLifespan.context]

\* One iteration of the event loop; an aborted one may leave its stop behind.
Iteration(ran, stale) ==
    [(IF ran[2] THEN Cleared(ran[1]) ELSE ran[1]) EXCEPT !.stale = ran[2] /\ stale]

\* A turn: polling, the calls, one iteration of the event loop and the check of the
\* signals.
TurnServing ==
    /\ pyPhase = "serving" /\ pyStatus = "open"
    /\ \E ran \in Python(pySignal), l \in Application(pyLifespan), stale \in BOOLEAN :
         LET once == Iteration(ran, stale)
             checked == HandlerRun(once)
             s == checked[1]
         IN  /\ pyCount' = [pyCount EXCEPT !.owed =
                                Owed(pySignal, ran[1]) /\ Owed(once, s)]
             /\ IF checked[2] \/ (s.replaced /\ s.recorded)
                THEN /\ pySignal' = [Stopping(s) EXCEPT !.interrupted = s.replaced /\ s.recorded]
                     /\ pyOutcome' = "interrupt" /\ pyStatus' = "closed" /\ pyPhase' = "stopping"
                     /\ pyLifespan' = Tells(l) /\ pyWait' = NewWait
                ELSE /\ pySignal' = s /\ pyLifespan' = l
                     /\ UNCHANGED <<pyPhase, pyStatus, pyOutcome, pyWait>>

\* The server is told to stop, by the application or from another thread.
Stops ==
    /\ pyPhase = "serving" /\ pyStatus = "open"
    /\ pyStatus' = "closed"
    /\ UNCHANGED <<pyPhase, pySignal, pyLifespan, pyWait, pyOutcome, pyCount>>

EndsServing ==
    /\ pyPhase = "serving" /\ pyStatus = "closed"
    /\ pyPhase' = "stopping" /\ pyOutcome' = "ended"
    /\ pySignal' = Stopping(pySignal)
    /\ pyLifespan' = Tells(pyLifespan) /\ pyWait' = NewWait
    /\ UNCHANGED <<pyStatus, pyCount>>

\* The recorded interrupt, the one reported, is dropped with the one it is given
\* back along with; the service is closed.
Acted(s) ==
    IF s.interrupted THEN [HandlerRun(s)[1] EXCEPT !.recorded = FALSE] ELSE s
Closes ==
    /\ pyPhase = "stopping"
    /\ pyLifespan.context => pyWait.ended # "none"
    /\ LET s == WaitReleased(pySignal)
       IN  /\ pySignal' = Acted(s)
           /\ pyCount' = [pyCount EXCEPT !.owed = Owed(s, Acted(s))]
    /\ pyLifespan' = ContextGone(pyLifespan)
    /\ pyPhase' = "releasing"
    /\ UNCHANGED <<pyStatus, pyWait, pyOutcome>>

-----------------------------------------------------------------------------
(* The giving back of the handler, _release_interrupt_server_python.       *)

\* Nothing has been replaced, and nothing is given back.
NotReplaced ==
    /\ pyPhase = "releasing" /\ ~pySignal.replaced
    /\ pyPhase' = "returned"
    /\ UNCHANGED <<pySignal, pyStatus, pyLifespan, pyWait, pyOutcome, pyCount>>

\* The record is read and emptied.
ReadsRecord ==
    /\ pyPhase = "releasing" /\ pySignal.replaced
    /\ pySignal' = [pySignal EXCEPT !.interrupted = pySignal.recorded, !.recorded = FALSE]
    /\ pyPhase' = "replacing"
    /\ UNCHANGED <<pyStatus, pyLifespan, pyWait, pyOutcome, pyCount>>

\* The module and the handler in place are looked up; an interrupt that is raised
\* there leaves the handler of the server where it is.
LooksUp ==
    /\ pyPhase = "replacing"
    /\ \E ran \in Python(pySignal) :
         /\ pySignal' = IF ran[2] THEN Cleared(ran[1]) ELSE ran[1]
         /\ pyCount' = [pyCount EXCEPT !.owed = Owed(pySignal, ran[1])]
         /\ pyPhase' = IF ran[2] THEN "giving" ELSE "found"
    /\ UNCHANGED <<pyStatus, pyLifespan, pyWait, pyOutcome>>

\* The handler is given back, if the one in place is that of the server and no
\* second interrupt aborts the call, which runs the handlers before it starts.
GivenBack(s) == IF s.handler = "own" THEN [s EXCEPT !.handler = "default"] ELSE s

ReplacesHandler ==
    /\ pyPhase = "found"
    /\ LET ran == HandlerRun(pySignal)
       IN  /\ pySignal' = IF ran[2] THEN Cleared(ran[1]) ELSE GivenBack(ran[1])
           /\ pyCount' = [pyCount EXCEPT !.owed = Owed(pySignal, ran[1])]
    /\ pyPhase' = "giving"
    /\ UNCHANGED <<pyStatus, pyLifespan, pyWait, pyOutcome>>

UnactedOfTheLast(s) == [s EXCEPT !.recorded = FALSE, !.tripped = @ \/ s.recorded]

\* What was recorded and never acted upon is given back to the interpreter.
Unacted(s) == [s EXCEPT !.recorded = FALSE, !.tripped = @ \/ s.interrupted \/ s.recorded]
GivesInterruptBack ==
    /\ pyPhase = "giving"
    /\ pySignal' = Unacted(pySignal)
    /\ pyPhase' = "returned"
    /\ UNCHANGED <<pyStatus, pyLifespan, pyWait, pyOutcome, pyCount>>

-----------------------------------------------------------------------------
PyServes ==
    \/ WaitTurn \/ WaitEnds \/ Started
    \/ TurnServing \/ EndsServing \/ Closes
    \/ NotReplaced \/ ReadsRecord \/ LooksUp \/ ReplacesHandler \/ GivesInterruptBack

PyNext == Interrupt \/ SetsHandler \/ Opens \/ Stops \/ PyServes

PyFairness == WF_pyVars(PyServes)

PySpec == PyInit /\ [][PyNext]_pyVars /\ PyFairness

-----------------------------------------------------------------------------
\* An interrupt that arrives at any moment of the serving ends it or is given
\* back to the interpreter, whatever it has aborted (server.c:398-521,
\* loop.c:312-350).
InterruptIsNotLost ==
    pyPhase = "returned" /\ pyCount.owed => pyOutcome = "interrupt" \/ pySignal.tripped

\* One interrupt is not reported twice, by the exception of the serving and once
\* more after it (server.c:479-488).
ReportedOnce ==
    pyPhase = "returned" /\ pyOutcome = "interrupt" /\ pyCount.arrived = 1 => ~pySignal.tripped

\* The handler of the server is gone once it returns, and nothing is held any
\* longer.  Of a single interrupt: two that meet in the giving back, the second
\* raised by the first being recorded, leave the handler of the server in place
\* (server.c:357-396).
HandlerIsGivenBack ==
    pyPhase = "returned" =>
       /\ ~pySignal.held /\ ~pySignal.remembered
       /\ pyCount.arrived < 2 => pySignal.handler # "own"

\* An application is told of the shutdown exactly when it has booted, on each of
\* the ways out of the serving, and its context is gone by then
\* (handler_asgi.c:1017-1146).
ToldOfTheEnd ==
    pyPhase = "returned" =>
       /\ ~pyLifespan.context
       /\ ("shutdown" \in pyLifespan.pushed) <=> pyLifespan.booted

\* The wait for an event is never given up because of the interrupts that arrive
\* in the middle of it (handler_asgi.c:942-1015).
NotEndedByASignal == pyWait.ended # "failures"

\* A server that is stopped or interrupted returns, whatever the application
\* does (handler_asgi.c:966-1004).
StoppedReturns == (pyPhase = "serving" /\ pyStatus = "closed") ~> pyPhase = "returned"

\* However the serving ends, the interrupts, the handler of them and the application are
\* as whoever asked for the serving has to find them.
ServingEndsWell ==
    /\ InterruptIsNotLost
    /\ ReportedOnce
    /\ HandlerIsGivenBack
    /\ ToldOfTheEnd
    /\ NotEndedByASignal
=============================================================================
