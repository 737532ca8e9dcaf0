----------------------------- MODULE ModPython ------------------------------
(***************************************************************************)
(* The WSGI handler of mod_python (mod_python/module/handler.c and         *)
(* extension.c): requests of different connections whose headers arrive in *)
(* pieces, an application per location that is loaded from a file, and     *)
(* responses that are drawn from an iterator, one item each time that the  *)
(* write of the one before completes.                                      *)
(*                                                                         *)
(* The headers of a request (_headers) and the envelope that an            *)
(* application starts (_wsgi_request) are globals of the module, not of    *)
(* the request.                                                            *)
(***************************************************************************)
EXTENDS Naturals, FiniteSets, SequencesExt

CONSTANTS
    WsgiRequest,     \* requests, each of a connection of its own
    WsgiReload,      \* the locations of which script_reload is set
    WsgiInterleaved, \* the headers of one request arrive among those of another
    WsgiLazy,        \* an application may start its response in the iteration
    MostHeaders,     \* bound: header lines of a request
    MostItems,       \* bound: items of a response
    MostFiles        \* bound: versions of the file of a location

\* main is the file of the handler, looked up when the request is complete; sub
\* is a location with one of its own, looked up when the location is found.
WsgiLocation == {"main", "sub"}

ASSUME ModPythonAssumption ==
    /\ WsgiRequest \subseteq Nat \ {0}
    /\ WsgiReload \subseteq WsgiLocation
    /\ {WsgiInterleaved, WsgiLazy} \subseteq BOOLEAN
    /\ {MostHeaders, MostItems, MostFiles} \subseteq Nat

VARIABLES
    mpHeaders,   \* _headers, by the requests that they came with
    mpEnvelope,  \* _wsgi_request: who set the status, and whose headers it has
    mpContext,   \* the context of each request, and what became of it
    mpModule,    \* by location: the module that is loaded, 0 while there is none
    mpLoads,     \* the counter of the modules, and the file each was loaded from
    mpFreed,     \* modules whose only reference was given up
    mpFile       \* the version of the files on the disk

mpVars == <<mpHeaders, mpEnvelope, mpContext, mpModule, mpLoads, mpFreed, mpFile>>

NewWsgiContext ==
    [state |-> "none", location |-> "main", module |-> 0, headers |-> 0, environ |-> <<>>,
     keep |-> FALSE, length |-> "none", items |-> 0, envelope |-> [of |-> 0, headers |-> <<>>]]

MpInit ==
    /\ mpHeaders = <<>>
    /\ mpEnvelope = [of |-> 0, headers |-> <<>>]
    /\ mpContext = [r \in WsgiRequest |-> NewWsgiContext]
    /\ mpModule = [l \in WsgiLocation |-> 0]
    /\ mpLoads = <<>>
    /\ mpFreed = {}
    /\ mpFile = 1

-----------------------------------------------------------------------------
(* The request.                                                            *)

Reading(r) == mpContext[r].state = "reading"

HeadersKept == mpHeaders

\* A context is created: the headers are those of the module, emptied for it.
HeadersOfContext == <<>>
\* The module of the location is looked up as it is at the moment.
Begins(r) ==
    /\ mpContext[r].state = "none"
    /\ ~WsgiInterleaved => ~\E q \in WsgiRequest : Reading(q)
    /\ mpHeaders' = HeadersOfContext
    /\ \E l \in WsgiLocation, keep \in BOOLEAN :
         mpContext' = [mpContext EXCEPT ![r].state = "reading", ![r].location = l, ![r].keep = keep,
                           ![r].module = IF l = "sub" THEN mpModule["sub"] ELSE 0]
    /\ UNCHANGED <<mpEnvelope, mpModule, mpLoads, mpFreed, mpFile>>

\* A header line: the name at the end of the headers, the value closing it.
HeaderLine(r) ==
    /\ Reading(r) /\ mpContext[r].headers < MostHeaders
    /\ mpHeaders' = Append(mpHeaders, r)
    /\ mpContext' = [mpContext EXCEPT ![r].headers = @ + 1]
    /\ UNCHANGED <<mpEnvelope, mpModule, mpLoads, mpFreed, mpFile>>

-----------------------------------------------------------------------------
(* The call of the application, _send_response_handler_wsgi.               *)

\* The module the context works with, main being looked up by now.
ModuleOf(c) == IF c.location = "main" THEN mpModule["main"] ELSE c.module

\* A module that is to be reloaded is released and unset, in the context and where
\* it came from.
Reloads(l, m) == l \in WsgiReload /\ m # 0

ReleasesModule(l, m) == IF Reloads(l, m) THEN mpFreed \union {m} ELSE mpFreed

\* The module that is called: the one at hand, or one that is loaded now from the
\* file, under a name of its own.
LoadedNow(l, m) == Reloads(l, m) \/ m = 0
ModuleCalled(l, m) == IF LoadedNow(l, m) THEN Len(mpLoads) + 1 ELSE m

StartResponse(e, r) == [of |-> r, headers |-> Append(e.headers, r)]

\* The envelope is emptied before the call, all but the status; start_response
\* sets the status and adds the headers.
EnvelopeEmptied == [mpEnvelope EXCEPT !.headers = <<>>]
\* The length of the response: set by the application, that of the sequence of at
\* most one item, or none, the connection then being closed after it.
AnnouncedBy(own, items, sequence) ==
    IF own THEN "own" ELSE IF sequence /\ items <= 1 THEN "size" ELSE "none"

Kept(keep, length) == keep /\ length # "none"

\* The environ is made of the headers that the module holds.
EnvironOfTheRequest == mpHeaders

\* The application is called: it raises, and an error is written, or it answers
\* with an iterator.
CallsApplication(r) ==
    LET c == mpContext[r]
        l == c.location
        m == ModuleOf(c)
        called == ModuleCalled(l, m)
        in == [c EXCEPT !.module = 0, !.environ = EnvironOfTheRequest]
    IN  /\ Reading(r)
        /\ mpFreed' = ReleasesModule(l, m)
        /\ mpLoads' = IF LoadedNow(l, m) THEN Append(mpLoads, mpFile) ELSE mpLoads
        /\ mpModule' = [mpModule EXCEPT ![l] = called]
        /\ \/ /\ mpEnvelope' \in {EnvelopeEmptied, StartResponse(EnvelopeEmptied, r)}
              /\ mpContext' = [mpContext EXCEPT ![r] = [in EXCEPT !.state = "closing", !.length = "size"]]
           \/ \E items \in 0 .. MostItems, own \in BOOLEAN, sequence \in BOOLEAN,
                 e \in {StartResponse(EnvelopeEmptied, r)} \union (IF WsgiLazy THEN {EnvelopeEmptied} ELSE {}) :
                LET length == AnnouncedBy(own, items, sequence)
                IN  /\ own => e.headers # <<>>
                    /\ mpEnvelope' = e
                    /\ mpContext' = [mpContext EXCEPT ![r] =
                           [in EXCEPT !.state = "streaming", !.items = items, !.length = length,
                                      !.envelope = e, !.keep = Kept(c.keep, length)]]
        /\ UNCHANGED <<mpHeaders, mpFile>>

\* The module cannot be loaded, or it has no application: the reference that was to
\* be reloaded is gone all the same, and an error is written without the flags of
\* the request, so that the connection is closed after it.
Fails(r) ==
    LET c == mpContext[r]
        l == c.location
        m == ModuleOf(c)
        now == LoadedNow(l, m)
    IN  /\ Reading(r)
        /\ mpFreed' = ReleasesModule(l, m)
        /\ \/ /\ now
              /\ mpModule' = [mpModule EXCEPT ![l] = 0]
              /\ UNCHANGED mpLoads
           \/ /\ mpModule' = [mpModule EXCEPT ![l] = ModuleCalled(l, m)]
              /\ mpLoads' = IF now THEN Append(mpLoads, mpFile) ELSE mpLoads
        /\ mpContext' = [mpContext EXCEPT ![r].state = "closing", ![r].module = 0, ![r].keep = FALSE]
        /\ UNCHANGED <<mpHeaders, mpEnvelope, mpFile>>

-----------------------------------------------------------------------------
(* The response.                                                           *)

\* The write before has completed: the next item, or the end of the iteration,
\* which closes the message with a fragment that carries nothing.
NextItem(r) ==
    /\ mpContext[r].state = "streaming"
    /\ mpContext' =
         IF mpContext[r].items > 0
         THEN [mpContext EXCEPT ![r].items = @ - 1]
         ELSE [mpContext EXCEPT ![r].state = "closing"]
    /\ UNCHANGED <<mpHeaders, mpEnvelope, mpModule, mpLoads, mpFreed, mpFile>>

Over(r, state) == [NewWsgiContext EXCEPT !.state = state, !.length = mpContext[r].length]

\* The last write has completed: the context goes, and the connection is closed
\* or takes its next message.
Responded(r) ==
    /\ mpContext[r].state = "closing"
    /\ mpContext' = [mpContext EXCEPT ![r] = Over(r, IF mpContext[r].keep THEN "kept" ELSE "closed")]
    /\ UNCHANGED <<mpHeaders, mpEnvelope, mpModule, mpLoads, mpFreed, mpFile>>

\* The connection goes before the response is over, the iterator with it.
ConnectionGoes(r) ==
    /\ mpContext[r].state \in {"reading", "streaming", "closing"}
    /\ mpContext' = [mpContext EXCEPT ![r] = Over(r, "closed")]
    /\ UNCHANGED <<mpHeaders, mpEnvelope, mpModule, mpLoads, mpFreed, mpFile>>

\* The file of a location is written.
FileChanges ==
    /\ mpFile < MostFiles
    /\ mpFile' = mpFile + 1
    /\ UNCHANGED <<mpHeaders, mpEnvelope, mpContext, mpModule, mpLoads, mpFreed>>

MpNext ==
    \/ \E r \in WsgiRequest :
         \/ Begins(r) \/ HeaderLine(r) \/ CallsApplication(r) \/ Fails(r)
         \/ NextItem(r) \/ Responded(r) \/ ConnectionGoes(r)
    \/ FileChanges

MpSpec == MpInit /\ [][MpNext]_mpVars

-----------------------------------------------------------------------------
Streaming(r) == mpContext[r].state = "streaming"

\* The environ of a request carries its own headers, all of them and no others:
\* they are kept in a buffer of the module (handler.c:216-275, 1087-1106).
EnvironIsOfTheRequest ==
    \A r \in WsgiRequest : Streaming(r) =>
        mpContext[r].environ = [i \in 1 .. mpContext[r].headers |-> r]

\* The envelope of a response carries what its own application has set, and nothing
\* of the one before (handler.c:760-772, extension.c:64-192).
EnvelopeIsOfTheRequest ==
    \A r \in WsgiRequest : Streaming(r) => mpContext[r].envelope = [of |-> r, headers |-> <<r>>]

\* No module is called, or left to the requests to come, after its reference was
\* given up (handler.c:692-740).
ModulesAreHeld ==
    /\ \A l \in WsgiLocation : mpModule[l] \notin mpFreed
    /\ \A r \in WsgiRequest : mpContext[r].state = "reading" => mpContext[r].module \notin mpFreed

\* A connection is only kept after a response whose end its client can tell
\* (handler.c:806-842, 984-1020).
KeptIsDelimited == \A r \in WsgiRequest : mpContext[r].state = "kept" => mpContext[r].length # "none"

\* What a request is called with and answered with is its own, though the module keeps
\* it in globals.
WsgiIsOfTheRequest ==
    EnvironIsOfTheRequest /\ EnvelopeIsOfTheRequest /\ ModulesAreHeld /\ KeptIsDelimited
=============================================================================
