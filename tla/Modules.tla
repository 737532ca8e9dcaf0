------------------------------ MODULE Modules -------------------------------
(***************************************************************************)
(* The modules of one service (module/loading.c, service.c and the entry   *)
(* of mod_python): their loading, each of whose steps may fail, the        *)
(* handlers that they put in the map of the service, the connections that  *)
(* take a handler from it, and the way back, at the end of the service or  *)
(* when its opening fails.                                                 *)
(*                                                                         *)
(* "python" stands for mod_python, with a handler for each of its two      *)
(* interfaces, "asgi" being served when an application is named for it;    *)
(* any other module has one handler, of its own name.                      *)
(***************************************************************************)
EXTENDS Naturals, FiniteSets, SequencesExt

CONSTANTS
    MdModules,     \* the libraries of the directory, in the order of its entries
    MdConnection   \* connections

ASSUME ModulesAssumption == MdModules \in Seq(Range(MdModules)) /\ IsInjective(MdModules)

VARIABLES
    mdStatus,      \* opening, open, closed, over
    mdToLoad,      \* libraries of the directory that are still to be loaded
    mdList,        \* service->modules_list
    mdNext,        \* the node that the iterator of the unloading holds
    mdLibrary,     \* modules whose library is in the process
    mdHandlers,    \* http_handlers_map: names with a handler, but for asgi
    mdServing,     \* by connection: the handler of its message, "" while none
    mdAsgi,        \* mod_python: what there is of the asgi interface
    mdCrashed      \* a handler was removed that had never been created

mdVars == <<mdStatus, mdToLoad, mdList, mdNext, mdLibrary, mdHandlers, mdServing, mdAsgi, mdCrashed>>

None == ""
Local == {"file", "dispatch"}
HandlersOf(m) == IF m = "python" THEN {"wsgi", "asgi"} ELSE {m}

\* The state of the interface, its application, its loop and whether it started, its
\* handler in the map, the references held on the application, what that was told,
\* and whether the cycle of the service is its own.
NoAsgi ==
    [state |-> FALSE, application |-> FALSE, loop |-> FALSE, started |-> FALSE,
     registered |-> FALSE, references |-> 0, told |-> <<>>, cycle |-> FALSE]

HandlersMap == mdHandlers \union (IF mdAsgi.registered THEN {"asgi"} ELSE {})

MdInit ==
    /\ mdStatus = "opening" /\ mdToLoad = MdModules /\ mdList = <<>> /\ mdNext = 0
    /\ mdLibrary = {} /\ mdHandlers = Local
    /\ mdServing = [c \in MdConnection |-> None]
    /\ mdAsgi = NoAsgi /\ mdCrashed = FALSE

-----------------------------------------------------------------------------
(* The asgi interface of mod_python.                                       *)

Register(s) == [s EXCEPT !.registered = TRUE, !.references = @ + 1]

\* Taken out of the map and deleted, unless it is not there: a refused startup asks
\* for it twice.
Unregister(s) == IF s.registered THEN [s EXCEPT !.registered = FALSE, !.references = @ - 1] ELSE s

Told(s, event) == [s EXCEPT !.told = Append(@, event)]

\* The shutdown is for an application that started.
ShutDown(s) == IF s.started THEN [Told(s, "shutdown") EXCEPT !.started = FALSE] ELSE s

\* The reference of the state goes with it, when an application was loaded.
AsgiReleased(s) ==
    [s EXCEPT !.state = FALSE, !.application = FALSE, !.loop = FALSE,
              !.references = IF s.application THEN @ - 1 ELSE @]

\* _stop_asgi_module: nothing when there is no state.
CycleGivenBack(s) == [s EXCEPT !.cycle = FALSE]
StopAsgi(s) ==
    IF ~s.state THEN s
    ELSE LET told == ShutDown(CycleGivenBack(s))
         IN  AsgiReleased(IF told.loop THEN Unregister(told) ELSE told)

\* _start_asgi_module, up to the stage that fails and what it undoes.
StartAsgi(stage) ==
    LET state == [NoAsgi EXCEPT !.state = TRUE]
        loaded == [state EXCEPT !.application = TRUE, !.references = 1]
        looped == [loaded EXCEPT !.loop = TRUE]
        told == Told(Register(looped), "startup")
    IN  CASE stage = "not named" -> NoAsgi
          [] stage = "no application" -> StopAsgi(state)
          [] stage = "no loop" -> StopAsgi(loaded)
          [] stage = "refused" -> StopAsgi(Unregister(told))
          [] stage = "started" -> [told EXCEPT !.started = TRUE, !.cycle = TRUE]

-----------------------------------------------------------------------------
(* Loading.                                                                *)

\* A module is added to the list whether or not it could be started.
Loaded(m) ==
    /\ mdLibrary' = mdLibrary \union {m}
    /\ mdList' = Append(mdList, m)
    /\ mdToLoad' = Tail(mdToLoad)
    /\ UNCHANGED <<mdStatus, mdNext, mdServing, mdCrashed>>

Loading(m) == mdStatus = "opening" /\ mdToLoad # <<>> /\ m = Head(mdToLoad)

\* The library is not there, or has no information symbol.
LoadFails ==
    /\ \E m \in Range(MdModules) : Loading(m)
    /\ mdToLoad' = Tail(mdToLoad)
    /\ UNCHANGED <<mdStatus, mdList, mdNext, mdLibrary, mdHandlers, mdServing, mdAsgi, mdCrashed>>

\* A module whose starting cannot fail once its library is there.
LoadModule ==
    \E m \in Range(MdModules) \ {"python"} :
        /\ Loading(m) /\ Loaded(m)
        /\ mdHandlers' = mdHandlers \union HandlersOf(m)
        /\ UNCHANGED mdAsgi

\* mod_python: the interpreter may not start, which leaves it with no handler; the
\* failure of the asgi interface leaves it the other one.
LoadPython ==
    /\ Loading("python") /\ Loaded("python")
    /\ \/ UNCHANGED <<mdHandlers, mdAsgi>>
       \/ /\ mdHandlers' = mdHandlers \union {"wsgi"}
          /\ \E stage \in {"not named", "no application", "no loop", "refused", "started"} :
               mdAsgi' = StartAsgi(stage)

-----------------------------------------------------------------------------
(* Serving.                                                                *)

\* The sockets are open, or cannot be: the modules are taken down at once, with no
\* connection to be closed.
Opens ==
    /\ mdStatus = "opening" /\ mdToLoad = <<>>
    /\ \/ mdStatus' = "open" /\ UNCHANGED mdNext
       \/ mdStatus' = "closed" /\ mdNext' = 1
    /\ UNCHANGED <<mdToLoad, mdList, mdLibrary, mdHandlers, mdServing, mdAsgi, mdCrashed>>

\* A message takes its handler out of the map and gives it back when it is over.
Serves(c) ==
    /\ mdStatus = "open"
    /\ \/ mdServing[c] = None /\ \E h \in HandlersMap : mdServing' = [mdServing EXCEPT ![c] = h]
       \/ mdServing[c] # None /\ mdServing' = [mdServing EXCEPT ![c] = None]
    /\ UNCHANGED <<mdStatus, mdToLoad, mdList, mdNext, mdLibrary, mdHandlers, mdAsgi, mdCrashed>>

\* The service closes: its connections first, each unsetting its handler, then the
\* iterator of the unloading is created.
ConnectionsClosed == [c \in MdConnection |-> None]

Closes ==
    /\ mdStatus = "open"
    /\ mdStatus' = "closed" /\ mdNext' = 1
    /\ mdServing' = ConnectionsClosed
    /\ UNCHANGED <<mdToLoad, mdList, mdLibrary, mdHandlers, mdAsgi, mdCrashed>>

-----------------------------------------------------------------------------
(* Unloading.                                                              *)

\* The iterator holds the node after the one it hands out, which is removed from
\* the list before the next one is asked for.
AfterTheRemoved(next) == next + 1
AfterTheReturned(next) == next

\* A module takes its handlers out of the map as it stops.
Removed(m) == HandlersOf(m)

Unload(m) ==
    /\ mdStatus = "closed" /\ ~mdCrashed
    /\ mdNext \in DOMAIN mdList /\ m = mdList[mdNext]
    /\ mdNext' = AfterTheReturned(mdNext)
    /\ mdList' = RemoveAt(mdList, mdNext)
    /\ mdHandlers' = mdHandlers \ Removed(m)
    /\ mdLibrary' = mdLibrary \ {m}
    /\ mdCrashed' = (m = "python" /\ "wsgi" \notin mdHandlers)
    /\ mdAsgi' = IF m = "python" THEN StopAsgi(mdAsgi) ELSE mdAsgi
    /\ UNCHANGED <<mdStatus, mdToLoad, mdServing>>

\* The iteration is over: the local handlers are taken out.
UnregisterLocal ==
    /\ mdStatus = "closed" /\ ~mdCrashed
    /\ mdNext \notin DOMAIN mdList
    /\ mdStatus' = "over"
    /\ mdHandlers' = mdHandlers \ Local
    /\ UNCHANGED <<mdToLoad, mdList, mdNext, mdLibrary, mdServing, mdAsgi, mdCrashed>>

MdNext ==
    \/ LoadFails \/ LoadModule \/ LoadPython
    \/ Opens \/ \E c \in MdConnection : Serves(c)
    \/ Closes \/ \E m \in Range(MdModules) : Unload(m)
    \/ UnregisterLocal

MdSpec == MdInit /\ [][MdNext]_mdVars

-----------------------------------------------------------------------------
(* The properties.                                                         *)

OfLoaded == Local \union UNION {HandlersOf(m) : m \in mdLibrary}

\* No handler of the map, of a connection or of the cycle of the service is one of a
\* library that is no longer in the process (service.c:1451-1502, entry.c:254-294).
HandlersAreOfTheLoaded ==
    mdStatus # "over" =>
        /\ HandlersMap \subseteq OfLoaded
        /\ \A c \in MdConnection : mdServing[c] \in HandlersMap \union {None}
        /\ mdAsgi.cycle => "python" \in mdLibrary /\ mdAsgi.loop

\* At the end nothing is left: every module that was added to the list is unloaded,
\* though each is removed from it in the middle of the iteration, no handler stays
\* and no reference on the application (service.c:1708-1735, entry.c:165-294).
NothingIsLeft ==
    mdStatus = "over" =>
        mdList = <<>> /\ mdLibrary = {} /\ HandlersMap = {} /\ mdAsgi.references = 0

\* The application is told of a shutdown if and only if it had started, and once; it
\* is held for as long as it may be called (entry.c:165-294).
ShutdownOfTheStarted ==
    /\ mdAsgi.told \in {<<>>, <<"startup">>, <<"startup", "shutdown">>}
    /\ mdAsgi.started => mdAsgi.told = <<"startup">> /\ mdAsgi.references = 2
    /\ mdStatus = "over" => ~mdAsgi.started

\* Loading that fails at any step and unloading in any order leave nothing of a module
\* behind that is used after it.
ModulesAreSound ==
    HandlersAreOfTheLoaded /\ NothingIsLeft /\ ShutdownOfTheStarted
=============================================================================
