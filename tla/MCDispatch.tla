----------------------------- MODULE MCDispatch -----------------------------
(***************************************************************************)
(* The dispatch handler with locations like those of the configuration     *)
(* that is shipped with the program.                                       *)
(***************************************************************************)
EXTENDS Dispatch

\* Scripts anywhere, what is below one name, and everything.
Locations == <<"php", "lua", "file">>

\* Directories with and without an index file, of either kind, a script, a page
\* below the name, and a target that is no path at all.
Paths == {"/a/", "/b/", "/x.php", "/lua/p", "*"}
PathsOfScripts == Paths \cup {"/c/"}

LengthOf(path) ==
    CASE path \in {"/a/", "/b/", "/c/"} -> 3 [] path = "*" -> 1
      [] path = "/a/index.html" -> 13 [] path = "/c/index.php" -> 12 [] OTHER -> 6

IndexOf(path) ==
    CASE path = "/a/" -> "/a/index.html" [] path = "/c/" -> "/c/index.php" [] OTHER -> path

EndOf(location, path) ==
    CASE location = 1 /\ path \in {"/x.php", "/c/index.php"} -> LengthOf(path)
      [] location = 2 /\ path = "/lua/p" -> 4
      [] location = 3 /\ path # "*" -> 1
      [] OTHER -> -1

SlashAt(path, k) == k = 1 \/ (k = 3 /\ path \in {"/a/", "/b/", "/c/"})

LoadedHandlers == {{"file", "php", "lua"}, {"file", "php"}, {"file"}, {"lua"}}
=============================================================================
