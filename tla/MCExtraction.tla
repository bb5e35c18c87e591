---------------------------- MODULE MCExtraction ----------------------------
\* Three paths and archives of three items: with a folder and a path that is
\* refused, with one name twice, with names that only differ by the folder
\* (extracted flat), and with the very name a renamed file gets.
EXTENDS Extraction

File(n, p) == [kind |-> "file", name |-> n, path |-> p]

MCPaths    == {"a", "a2", "a3", "a4", "a5"}
MCArchives == { <<File("a", "a"), File("a2", "a2"), File("a", "a")>>,
                <<File("x/a", "a"), File("y/a", "a")>>,
                << [kind |-> "unsafe", name |-> "..", path |-> "a"],
                   [kind |-> "dir", name |-> "a2", path |-> "a2"], File("a", "a")>> }
MCNewNames == [p \in MCPaths |-> IF p = "a" THEN <<"a2", "a3", "a4", "a5">>
                                 ELSE IF p = "a2" THEN <<"a3", "a4", "a5">> ELSE <<>>]
=============================================================================
