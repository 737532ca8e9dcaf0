---------------------------- MODULE FileHandler ----------------------------
(***************************************************************************)
(* The file handler (handler_file.c): requests that are answered out of    *)
(* files, the cache of the files that are held open, and the files, which  *)
(* are written and replaced by others meanwhile.                           *)
(***************************************************************************)
EXTENDS Integers, Sequences, FiniteSets, FiniteSetsExt

CONSTANTS
    FilePath,       \* the paths that are asked for
    FileSlot,       \* the entry of the cache that a path falls on
    FileProtected,  \* the paths of locations with an auth_basic
    FileStream,     \* the requests that may be in progress together
    FileAsks,       \* bound: the paths that each of them is for
    FileRange,      \* the ranges that are asked for, <<first, last>>, -1 for open
    FileValid,      \* CACHE_VALID_HANDLER_FILE, in seconds
    FileChunk,      \* FILE_BUFFER_SIZE_HANDLER_FILE, in units
    FileSize,       \* the sizes that a file may have, in units
    MostClock,      \* bound: seconds
    MostVersions    \* bound: contents written to all of the files

ASSUME FileAssumption ==
    /\ IsFiniteSet(FilePath) /\ IsFiniteSet(FileStream)
    /\ FileAsks \in [FileStream -> SUBSET FilePath]
    /\ FileRange \subseteq Nat \X (Nat \cup {-1})
    /\ FileValid \in Nat /\ FileChunk \in Nat \ {0} /\ FileSize \subseteq Nat
    /\ MostClock \in Nat /\ MostVersions \in Nat

VARIABLES
    disk,        \* what each path names: a file, 0 for nothing, -1 a directory
    files,       \* the content of every file, the latest of its versions
    versions,    \* every content there has been
    clock,       \* time(NULL)
    entries,     \* the entries of the cache
    requests,    \* the context of every request
    opened       \* how many descriptors the process has open

fileVars == <<disk, files, versions, clock, entries, requests, opened>>

NoFile == 0
Directory == -1

NewEntry == [path |-> "", descriptor |-> NoFile, size |-> 0, time |-> 0, checked |-> 0]

\* struct handler_file_context_t, then what has gone out: the status, what the
\* head announced and described, and the content of every unit of the body.
NewContext ==
    [state |-> "idle", path |-> "", descriptor |-> NoFile, offset |-> 0, initial |-> 0,
     final |-> 0, status |-> 0, announced |-> 0, version |-> 0, sent |-> <<>>]

FileInit ==
    /\ disk = [p \in FilePath |-> NoFile]
    /\ files = <<>> /\ versions = <<>>
    /\ clock = FileValid
    /\ entries = [i \in {FileSlot[p] : p \in FilePath} |-> NewEntry]
    /\ requests = [s \in FileStream |-> NewContext]
    /\ opened = 0

-----------------------------------------------------------------------------
(* What happens to the files.  A path is written at most once in a second,   *)
(* the time of the last write being all that the tag of a file is made of.   *)
Ended(p) ==
    [v \in 1..Len(versions) |->
        IF versions[v].path = p /\ versions[v].until = -1
        THEN [versions[v] EXCEPT !.until = clock] ELSE versions[v]]

WrittenNow(p) == \E v \in 1..Len(versions) : versions[v].path = p /\ versions[v].written = clock

NewVersion(p, size) == Append(Ended(p), [path |-> p, size |-> size, written |-> clock, until |-> -1])

\* Another file is put in the place of what a path names.
ReplaceFile(p, size) ==
    /\ Len(versions) < MostVersions /\ ~WrittenNow(p)
    /\ versions' = NewVersion(p, size)
    /\ files' = Append(files, Len(versions) + 1)
    /\ disk' = [disk EXCEPT ![p] = Len(files) + 1]
    /\ UNCHANGED <<clock, entries, requests, opened>>

\* The file is written over in place.
WriteFile(p, size) ==
    /\ Len(versions) < MostVersions /\ ~WrittenNow(p)
    /\ disk[p] \notin {NoFile, Directory}
    /\ versions' = NewVersion(p, size)
    /\ files' = [files EXCEPT ![disk[p]] = Len(versions) + 1]
    /\ UNCHANGED <<disk, clock, entries, requests, opened>>

\* The file is taken away, a directory may be made in its place.
RemoveFile(p) ==
    /\ disk[p] \notin {NoFile, Directory}
    /\ versions' = Ended(p)
    /\ \E left \in {NoFile, Directory} : disk' = [disk EXCEPT ![p] = left]
    /\ UNCHANGED <<files, clock, entries, requests, opened>>

FileTick ==
    /\ clock < MostClock
    /\ clock' = clock + 1
    /\ UNCHANGED <<disk, files, versions, entries, requests, opened>>

-----------------------------------------------------------------------------
(* The cache.                                                                *)
Stored(f) == versions[files[f]]

EntryOf(p) == entries[FileSlot[p]]

\* The entry holds the very file that is asked for.
Holds(p) == EntryOf(p).descriptor # NoFile /\ EntryOf(p).path = p

\* Whatever is held is trusted.
TrustsHeld(p) == Holds(p)

\* The entry was opened through its path recently enough.
Trusts(p) == Holds(p) /\ clock - EntryOf(p).checked < FileValid

\* The descriptor is asked about itself.
Asked(e) ==
    [e EXCEPT !.size = Stored(e.descriptor).size, !.time = Stored(e.descriptor).written]

\* The path does not open as a file.
Refuses(p) == ~Trusts(p) /\ disk[p] \in {NoFile, Directory}

\* acquire_file_cache: the entry that comes out of it, empty when it refuses.
AcquireFileCache(p) ==
    IF Trusts(p) THEN Asked(EntryOf(p))
    ELSE IF Refuses(p) THEN NewEntry
    ELSE [path |-> p, descriptor |-> disk[p], size |-> Stored(disk[p]).size,
          time |-> Stored(disk[p]).written, checked |-> clock]

\* The file that was held stays open when its entry is taken over.
DescriptorsTaken(p) == opened + (IF Trusts(p) \/ Refuses(p) THEN 0 ELSE 1)

\* What is held is closed before anything is opened in its place.
DescriptorsAcquired(p) ==
    opened - (IF ~Trusts(p) /\ EntryOf(p).descriptor # NoFile THEN 1 ELSE 0)
           + (IF Trusts(p) \/ Refuses(p) THEN 0 ELSE 1)

-----------------------------------------------------------------------------
(* A request.                                                                *)
\* The fields that a message may come with: the tag of a content that the path
\* has had, a range and credentials that are good or not, each of them absent
\* when it is 0, <<>> or "none".
FileFields(p) ==
    [etag : {0} \cup {v \in 1..Len(versions) : versions[v].path = p},
     range : {<<>>} \cup FileRange,
     authorization : IF p \in FileProtected THEN {"none", "wrong", "good"} ELSE {"none"}]

\* auth_http, only asked when there is something to be authorised.
Authorized(p, fields) == p \in FileProtected => fields.authorization = "good"

\* get_http_range_limits of a file of the size, nothing is cut to the file.
RangeLast(r, size) == IF r[2] = -1 THEN Max({size - 1, 0}) ELSE r[2]

\* The head of a response: it announces what lies between its two bytes.
Answer(status, p, initial, final, entry) ==
    [NewContext EXCEPT !.state = "sending", !.path = p, !.status = status,
        !.initial = initial, !.final = final, !.announced = final - initial + 1,
        !.version = files[entry.descriptor]]

\* A response that has no payload of a file.
AnswerBare(status, p) ==
    [NewContext EXCEPT !.state = "answered", !.path = p, !.status = status]

\* The tags are compared.
TagMatches(fields, entry) == fields.etag # 0 /\ versions[fields.etag].written = entry.time

\* A message is complete: the file is asked for, the credentials are looked at,
\* and the head of the response is written, out of the handler's own context.
MessageComplete(s, p, fields) ==
    LET entry == AcquireFileCache(p)
        missing == Refuses(p) /\ disk[p] = NoFile
        authorized == Authorized(p, fields)
    IN  /\ requests[s].state = "idle"
        /\ entries' = [entries EXCEPT ![FileSlot[p]] = entry]
        /\ opened' = DescriptorsAcquired(p)
        /\ requests' = [requests EXCEPT ![s] =
              CASE missing -> AnswerBare(404, p)
                [] ~missing /\ ~authorized -> AnswerBare(401, p)
                [] ~missing /\ authorized /\ Refuses(p) -> AnswerBare(307, p)
                [] authorized /\ ~Refuses(p) /\ TagMatches(fields, entry) ->
                     [AnswerBare(304, p) EXCEPT !.version = files[entry.descriptor]]
                [] authorized /\ ~Refuses(p) /\ ~TagMatches(fields, entry) ->
                     IF fields.range # <<>>
                     THEN Answer(206, p, fields.range[1],
                                 RangeLast(fields.range, entry.size), entry)
                     ELSE Answer(200, p, 0, entry.size - 1, entry)]
        /\ UNCHANGED <<disk, files, versions, clock>>

\* _cleanup_handler_file: the context goes with the handler; the connection is
\* released or closed, and the next request has a context of its own.
Cleanup(s) == requests' = [requests EXCEPT ![s] = NewContext]

\* A response with nothing more to send has been written.
CleanupCallback(s) ==
    /\ requests[s].state = "answered"
    /\ Cleanup(s)
    /\ UNCHANGED <<disk, files, versions, clock, entries, opened>>

\* The request reads through a duplicate.
Duplicated(count) == count + 1

\* A fragment of a file, as it now stands, from a position on.
ReadAt(f, offset, most) ==
    [i \in 1..Min({Max({Stored(f).size - offset, 0}), Max({most, 0}), FileChunk}) |-> files[f]]

\* What went out last is written: the file is opened if it is not, which the
\* cache may have to do again, and the next fragment of it is sent; when there
\* is none left the request is over.
SendChunk(s) ==
    LET c == requests[s]
        p == c.path
        first == c.descriptor = NoFile
        descriptor == IF first THEN AcquireFileCache(p).descriptor ELSE c.descriptor
        offset == IF first THEN c.initial ELSE c.offset
        fragment == ReadAt(descriptor, offset, c.final - offset + 1)
        now == IF first THEN Duplicated(DescriptorsAcquired(p)) ELSE opened
    IN  /\ c.state = "sending"
        /\ entries' = IF first THEN [entries EXCEPT ![FileSlot[p]] = AcquireFileCache(p)]
                      ELSE entries
        /\ IF first /\ Refuses(p)
           THEN /\ Cleanup(s)
                /\ opened' = DescriptorsAcquired(p)
           ELSE IF fragment = <<>>
           THEN /\ Cleanup(s)
                /\ opened' = now - 1
           ELSE /\ requests' = [requests EXCEPT ![s] =
                       [c EXCEPT !.descriptor = descriptor, !.sent = @ \o fragment,
                                 !.offset = offset + Len(fragment)]]
                /\ opened' = now
        /\ UNCHANGED <<disk, files, versions, clock>>

\* delete_handler_file_context closes what the request was reading through.
ContextDeleted(s) == opened - (IF requests[s].descriptor = NoFile THEN 0 ELSE 1)

\* The connection goes away, or the stream is reset, in the middle.
UnsetHandler(s) ==
    /\ requests[s].state \in {"sending", "answered"}
    /\ Cleanup(s)
    /\ opened' = ContextDeleted(s)
    /\ UNCHANGED <<disk, files, versions, clock, entries>>

\* unregister_handler_file, once nothing is in progress: clear_file_cache.
UnregisterHandler ==
    /\ \A s \in FileStream : requests[s].state = "idle"
    /\ opened' = opened - Cardinality({i \in DOMAIN entries : entries[i].descriptor # NoFile})
    /\ entries' = [i \in DOMAIN entries |-> NewEntry]
    /\ UNCHANGED <<disk, files, versions, clock, requests>>

FileNext ==
    \/ \E p \in FilePath :
          \/ \E size \in FileSize : ReplaceFile(p, size) \/ WriteFile(p, size)
          \/ RemoveFile(p)
    \/ FileTick
    \/ \E s \in FileStream :
          \/ \E p \in FileAsks[s] : \E fields \in FileFields(p) : MessageComplete(s, p, fields)
          \/ CleanupCallback(s) \/ SendChunk(s) \/ UnsetHandler(s)
    \/ UnregisterHandler

FileSpec == FileInit /\ [][FileNext]_fileVars

-----------------------------------------------------------------------------
(***************************************************************************)
(* Properties                                                              *)
(***************************************************************************)
\* Every descriptor that is open is the one of an entry of the cache or the
\* duplicate of one request: none is leaked by an entry that is taken over or
\* a request that is cut, and none is closed twice.
DescriptorsAreOwned ==
    opened = Cardinality({i \in DOMAIN entries : entries[i].descriptor # NoFile})
           + Cardinality({s \in FileStream : requests[s].descriptor # NoFile})

\* What a head describes was the content of its path within the time that an
\* entry of the cache is trusted for.
ServedIsRecent ==
    \A s \in FileStream :
        LET c == requests'[s] IN
        requests[s].version = 0 /\ c.version # 0 =>
            /\ versions[c.version].path = c.path
            /\ versions[c.version].until # -1 => clock - versions[c.version].until < FileValid

\* The copy of a client is only confirmed to it when it is the content that a
\* request without the copy would have been answered with.
NotModifiedIsTrue ==
    \A s \in FileStream :
        requests[s].status # 304 /\ requests'[s].status = 304 =>
            \A p \in FileAsks[s] : \A fields \in FileFields(p) :
                MessageComplete(s, p, fields) => fields.etag = requests'[s].version

\* A response that is over, without its connection going away, is exactly what
\* was announced, of one content, as long as the file was not written, removed
\* or replaced since it was opened and no range was asked for that reaches
\* beyond the end of it.
AnnouncedIsSent ==
    \A s \in FileStream :
        LET c == requests[s]
            v == versions[c.version]
        IN  c.state = "sending" /\ requests'[s].state = "idle" /\ SendChunk(s)
                /\ c.final < v.size /\ v.until = -1
            => c.sent = [i \in 1..c.announced |-> c.version]

\* Nothing of a file that is protected is told to who is not authorised, not
\* even whether a copy of it is current.
OnlyToTheAuthorized ==
    \A s \in FileStream :
        requests[s].status = 0 /\ requests'[s].status \notin {0, 401, 404} =>
            \A p \in FileProtected \cap FileAsks[s] : \A fields \in FileFields(p) :
                MessageComplete(s, p, fields) => fields.authorization = "good"

\* What a request is told of a file was true of it, recently, is what was announced,
\* and is told to nobody else.
ServedTruly ==
    [][ServedIsRecent /\ NotModifiedIsTrue /\ AnnouncedIsSent /\ OnlyToTheAuthorized]_fileVars
=============================================================================
