------------------------------ MODULE Listing ------------------------------
(***************************************************************************)
(* The pages that are rendered and held: the trees of the templates, the   *)
(* pages of the errors under their trees (template/handler.c) and the      *)
(* listings of the directories (handler_file.c), while both the templates  *)
(* and the directories are changed by others.                              *)
(***************************************************************************)
EXTENDS Integers, Sequences, FiniteSetsExt

CONSTANTS
    TmSlot,       \* the entry of the cache that the path of each template falls on
    TmContent,    \* what may be written to a template, [size, parses]
    TmRoot,       \* bound: the addresses that a root node may be given
    LsUrl,        \* the directories that are listed, all of them of one entry
    LsContent,    \* what a directory may hold, [names, sizes]
    LsError,      \* the errors that are answered, all of them of one page
    LsValid,      \* CACHE_VALID_HANDLER_FILE and CACHE_VALID_TEMPLATE_HANDLER
    LsMostClock,  \* bound: seconds
    LsMostChanges \* bound: changes of the templates and of the directories

\* A root of 0 is no tree; pages fall on one entry by a name, which is not empty.
ASSUME ListingAssumption ==
    /\ TmContent \subseteq [size : Nat, parses : BOOLEAN]
    /\ TmRoot \subseteq Nat \ {0}
    /\ LsContent \subseteq [names : Nat, sizes : Nat]
    /\ LsUrl \cap LsError = {} /\ "" \notin LsUrl
    /\ LsValid \in Nat \ {0}

TmPath == {"listing", "error"}
NoVersion == 0

VARIABLES
    tmDisk,      \* the file that each path names
    tmFiles,     \* the version that each file holds
    tmVersions,  \* every content there has been
    tmEntries,   \* struct template_cache_t
    lsDirs,      \* what each directory holds
    lsLeft,      \* what they held before, and until when
    lsEntry,     \* the entry of struct listing_cache_t that the urls fall on
    lsBuilding,  \* the listing that is being built
    lsServed,    \* what has just been handed over
    lsClock      \* time(NULL)

lsDisk == <<tmDisk, tmFiles, tmVersions, lsDirs, lsLeft>>
lsVars == <<lsDisk, tmEntries, lsEntry, lsBuilding, lsServed, lsClock>>

NoPage == [key |-> "", version |-> NoVersion]

\* An entry that is empty; page is the one that the errors share, and version
\* is what the tree was parsed out of.
NoTemplate ==
    [path |-> "", file |-> 0, size |-> 0, written |-> 0, checked |-> 0, root |-> 0,
     version |-> NoVersion, page |-> NoPage]

\* moved says that the directory changed while the page was being built.
NoListing ==
    [url |-> "", names |-> 0, root |-> 0, size |-> 0, written |-> 0, checked |-> 0,
     shows |-> [names |-> 0, sizes |-> 0], version |-> NoVersion, moved |-> FALSE]

NotBuilding == [url |-> "", names |-> 0, now |-> 0, moved |-> FALSE]
Nothing == [asked |-> "", of |-> "", version |-> NoVersion,
            shows |-> [names |-> 0, sizes |-> 0], moved |-> FALSE]

LsInit ==
    /\ \E c \in TmContent :
          /\ c.parses
          /\ tmVersions = <<[path |-> "listing", content |-> c, written |-> 0, until |-> -1],
                            [path |-> "error", content |-> c, written |-> 0, until |-> -1]>>
    /\ tmDisk = [p \in TmPath |-> IF p = "listing" THEN 1 ELSE 2] /\ tmFiles = <<1, 2>>
    /\ tmEntries = [i \in {TmSlot[p] : p \in TmPath} |-> NoTemplate]
    /\ \E c \in LsContent :
          /\ \A d \in LsContent : c.names <= d.names /\ c.sizes <= d.sizes
          /\ lsDirs = [u \in LsUrl |-> c]
    /\ lsLeft = <<>>
    /\ lsEntry = NoListing /\ lsBuilding = NotBuilding /\ lsServed = Nothing
    /\ lsClock = 0

-----------------------------------------------------------------------------
(* What happens to the templates and to the directories.                     *)
LsMayChange == Len(tmVersions) - 2 + Len(lsLeft) < LsMostChanges

NewTemplate(p, c) ==
    /\ LsMayChange
    /\ tmVersions' = Append(
          [v \in DOMAIN tmVersions |->
              IF tmVersions[v].path = p /\ tmVersions[v].until = -1
              THEN [tmVersions[v] EXCEPT !.until = lsClock] ELSE tmVersions[v]],
          [path |-> p, content |-> c, written |-> lsClock, until |-> -1])
    /\ lsServed' = Nothing
    /\ UNCHANGED <<tmEntries, lsDirs, lsLeft, lsEntry, lsBuilding, lsClock>>

\* Another file is put in the place of the one that the path names.
ReplaceTemplate(p, c) ==
    /\ NewTemplate(p, c)
    /\ tmFiles' = Append(tmFiles, Len(tmVersions) + 1)
    /\ tmDisk' = [tmDisk EXCEPT ![p] = Len(tmFiles) + 1]

WriteTemplate(p, c) ==
    /\ NewTemplate(p, c)
    /\ tmFiles' = [tmFiles EXCEPT ![tmDisk[p]] = Len(tmVersions) + 1]
    /\ UNCHANGED tmDisk

ChangeDirectory(u, c) ==
    /\ lsDirs[u] # c /\ LsMayChange
    /\ lsLeft' = Append(lsLeft, [url |-> u, held |-> lsDirs[u], until |-> lsClock])
    /\ lsDirs' = [lsDirs EXCEPT ![u] = c]
    /\ lsBuilding' = [lsBuilding EXCEPT !.moved = @ \/ lsBuilding.url = u]
    /\ lsServed' = Nothing
    /\ UNCHANGED <<tmDisk, tmFiles, tmVersions, tmEntries, lsEntry, lsClock>>

LsTick ==
    /\ lsClock < LsMostClock
    /\ lsClock' = lsClock + 1
    /\ lsServed' = Nothing
    /\ UNCHANGED <<lsDisk, tmEntries, lsEntry, lsBuilding>>

-----------------------------------------------------------------------------
(* The cache of the templates.                                               *)
Template(p) == tmEntries[TmSlot[p]]
TemplateIn(file) == tmVersions[tmFiles[file]]

\* Whatever has been opened is the file, for as long as it is held.
TreeStandsHeld(p) ==
    LET e == Template(p) IN
    /\ e.file # 0 /\ e.path = p
    /\ TemplateIn(e.file).content.size = e.size /\ TemplateIn(e.file).written = e.written

\* The descriptor still answers what it answered when the tree was parsed, and
\* the path was opened recently enough.
TreeStands(p) ==
    LET e == Template(p) IN
    /\ e.file # 0 /\ e.path = p
    /\ TemplateIn(e.file).content.size = e.size /\ TemplateIn(e.file).written = e.written
    /\ lsClock - e.checked < LsValid

\* _empty_template_cache: the tree goes, and the pages of it.
Emptied(e) == NoTemplate

\* _parse_template_cache, of a file that is read whole.
ParsesWhole(file) == TemplateIn(file).content.parses

\* acquire_template_cache: the entries that may come out of it.  A file that
\* does not parse leaves the entry empty, and the address of a root
\* that was released may be given to the next one.
AcquireTemplate(p) ==
    IF TreeStands(p) THEN {Template(p)}
    ELSE IF ~ParsesWhole(tmDisk[p]) THEN {Emptied(Template(p))}
    ELSE {[Emptied(Template(p)) EXCEPT
              !.path = p, !.file = tmDisk[p], !.checked = lsClock, !.root = r,
              !.size = TemplateIn(tmDisk[p]).content.size, !.written = TemplateIn(tmDisk[p]).written,
              !.version = tmFiles[tmDisk[p]]] :
          r \in TmRoot \ {tmEntries[i].root : i \in DOMAIN tmEntries \ {TmSlot[p]}}}

HeldIn(e, p) == tmEntries' = [tmEntries EXCEPT ![TmSlot[p]] = e]

PageOf(e, code) == e.page.version # NoVersion /\ e.page.key = code

\* write_http_error_a with a description that is not shown, and under it
\* process_page_template_handler; the page that has nothing is text instead.
ErrorPage(code) ==
    \E e \in AcquireTemplate("error") :
        LET page == IF e.root = 0 \/ PageOf(e, code) THEN e.page
                    ELSE [key |-> code, version |-> e.version]
        IN  /\ HeldIn([e EXCEPT !.page = page], "error")
            /\ lsServed' = [Nothing EXCEPT !.asked = code,
                               !.of = IF e.root = 0 THEN code ELSE page.key,
                               !.version = page.version]
            /\ UNCHANGED <<lsDisk, lsEntry, lsBuilding, lsClock>>

-----------------------------------------------------------------------------
(* The cache of the listings.                                                *)
\* The page was built out of these names and out of this tree, and the sizes
\* of the files in it are still trusted.
ListingStands(u, e) ==
    /\ lsEntry.url = u /\ lsEntry.names = lsDirs[u].names
    /\ lsEntry.root = e.root /\ lsEntry.size = e.size /\ lsEntry.written = e.written
    /\ lsClock - lsEntry.checked < LsValid

\* render_listing_cache, as far as the page that is held: the names are walked
\* and the template is asked for.
RenderListing(u) ==
    /\ lsBuilding = NotBuilding
    /\ \E e \in AcquireTemplate("listing") :
          /\ HeldIn(e, "listing")
          /\ IF e.root # 0 /\ ListingStands(u, e)
             THEN /\ lsServed' = [asked |-> u, of |-> lsEntry.url, version |-> lsEntry.version,
                                  shows |-> lsEntry.shows, moved |-> lsEntry.moved]
                  /\ UNCHANGED lsBuilding
             ELSE /\ lsServed' = Nothing
                  /\ lsBuilding' = [NotBuilding EXCEPT !.url = u, !.names = lsDirs[u].names,
                                                       !.now = lsClock]
    /\ UNCHANGED <<lsDisk, lsEntry, lsClock>>

\* _render_listing_handler_file: the directory is listed and the template asked
\* for again, and a page that was rendered takes the entry over.
BuildListing ==
    LET u == lsBuilding.url IN
    /\ lsBuilding # NotBuilding
    /\ \E e \in AcquireTemplate("listing") :
          LET page == [NoListing EXCEPT
                  !.url = u, !.names = lsBuilding.names, !.root = e.root, !.size = e.size,
                  !.written = e.written, !.checked = lsBuilding.now, !.shows = lsDirs[u],
                  !.version = e.version, !.moved = lsBuilding.moved]
          IN  /\ HeldIn(e, "listing")
              /\ lsEntry' = IF e.root = 0 THEN lsEntry ELSE page
              /\ lsServed' = IF e.root = 0 THEN Nothing
                             ELSE [asked |-> u, of |-> u, version |-> e.version,
                                   shows |-> lsDirs[u], moved |-> lsBuilding.moved]
    /\ lsBuilding' = NotBuilding
    /\ UNCHANGED <<lsDisk, lsClock>>

\* clear_listing_cache and clear_template_cache, as the service stops.
ClearCaches ==
    /\ lsBuilding = NotBuilding
    /\ lsEntry' = NoListing
    /\ tmEntries' = [i \in DOMAIN tmEntries |-> Emptied(tmEntries[i])]
    /\ lsServed' = Nothing
    /\ UNCHANGED <<lsDisk, lsBuilding, lsClock>>

LsNext ==
    \/ \E p \in TmPath, c \in TmContent : ReplaceTemplate(p, c) \/ WriteTemplate(p, c)
    \/ \E u \in LsUrl, c \in LsContent : ChangeDirectory(u, c)
    \/ LsTick
    \/ \E code \in LsError : lsBuilding = NotBuilding /\ ErrorPage(code)
    \/ \E u \in LsUrl : RenderListing(u)
    \/ BuildListing
    \/ ClearCaches

LsSpec == LsInit /\ [][LsNext]_lsVars

-----------------------------------------------------------------------------
(***************************************************************************)
(* Properties                                                              *)
(***************************************************************************)
\* What is handed over is the page of the directory or of the error that was
\* asked for, though many of them fall on one entry.
PageIsOfTheAsked == lsServed.asked = lsServed.of

\* A page that is held under a tree was rendered out of it.
PagesOfTheTree ==
    \A i \in DOMAIN tmEntries :
        tmEntries[i].page # NoPage => tmEntries[i].page.version = tmEntries[i].version

\* The template of a page was current within the time that a tree is trusted
\* for; that of a listing, which is trusted on top of its tree and may take
\* another for it that was given the same address, within almost twice as long.
TemplatesAreRecent ==
    LET v == tmVersions[lsServed.version] IN
    lsServed.version # NoVersion /\ v.until # -1 =>
        lsClock - v.until < (IF lsServed.asked \in LsUrl THEN 2 * LsValid - 1 ELSE LsValid)

\* A listing shows what the directory held within the time that it is trusted
\* for, and the very names that it holds, unless they changed as it was built.
ListingsAreRecent ==
    lsServed.asked \in LsUrl /\ lsServed.version # NoVersion =>
        LET now == lsDirs[lsServed.asked] IN
        /\ now # lsServed.shows =>
              \E k \in DOMAIN lsLeft :
                  /\ lsLeft[k].url = lsServed.asked /\ lsLeft[k].held = lsServed.shows
                  /\ lsClock - lsLeft[k].until < LsValid
        /\ lsServed.moved \/ now.names = lsServed.shows.names

\* A page that is held is the one that was asked for, of a template and a directory that
\* were as it shows them a moment ago.
PagesAreCurrent ==
    PageIsOfTheAsked /\ PagesOfTheTree /\ TemplatesAreRecent /\ ListingsAreRecent
=============================================================================
