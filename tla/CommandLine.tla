----------------------------- MODULE CommandLine -----------------------------
(* zm.exe and the verbs of ZipMania.exe: the arguments are parsed, the command    *)
(* calls the backends one after the other and ends with a code: 0 success,        *)
(* 1 warning, 2 error.  Without the console host the same command opens windows.  *)
EXTENDS Backends

CONSTANTS
    Worlds,      \* what lies on the disk at the start
    Lines,       \* command lines: sequences of arguments
    Asked,       \* what the windows ask of the backends
    Inside       \* the archive lies in a folder that is compressed

VARIABLES
    host,        \* who runs: "zm" the console, "exe" ZipMania.exe, "app" its windows
    line,        \* the arguments
    cmd,         \* the parsed command and how far it is
    code,        \* exit code; Running until the process ends
    window,      \* the window a command of ZipMania.exe opens
    deleted      \* path -> what the command deleted there

cvars == <<host, line, cmd, code, window, deleted>>
vars == <<bvars, cvars>>

Running == 9
-----------------------------------------------------------------------------
(* Arguments.  An option is its letters, a separator if there is one and a value  *)
(* if there is one; anything else is a positional argument, a first volume one    *)
(* that ends in .001.                                                             *)

Opt(head, sep, val) == [opt |-> TRUE, head |-> head, sep |-> sep, val |-> val]
Pos(name) == [opt |-> FALSE, head |-> name, sep |-> FALSE, val |-> ""]
Vol(name) == [Pos(name) EXCEPT !.sep = TRUE]
Where(arg) == <<arg.head, IF arg.sep THEN "set" ELSE "one">>

Verbs == {"a", "c", "x", "e", "bx", "l", "t"}
IsHelp(arg) == arg.opt /\ arg.head \in {"h", "?", "-help"}

(* wants_help: the verb alone, or a request for help behind it or alone *)
WantsHelp(args) ==
    \/ Len(args) = 1 /\ (args[1].head \in Verbs \/ IsHelp(args[1]))
    \/ Len(args) > 1 /\ args[1].head \in Verbs /\ \E i \in 2..Len(args) : IsHelp(args[i])

(* split_opt: letters with a value right behind them, with or without a separator; *)
(* a separator with nothing behind it leaves an empty value.                       *)
NoValue == "-"
Glued == {"mmt", "mx", "o", "p", "v", "t"}
SplitOpt(arg) ==
    IF arg.head \in Glued /\ arg.val # "" THEN <<arg.head, arg.val>>
    ELSE IF arg.sep THEN <<arg.head, arg.val>>
    ELSE IF arg.val = "" THEN <<arg.head, NoValue>> ELSE <<"unknown", NoValue>>

Blank(verb) == [verb |-> verb, names |-> <<>>, wrong |-> FALSE, fmt |-> "unset",
                volume |-> FALSE, pass |-> "none", exists |-> "unset",
                testDst |-> FALSE, delSrc |-> FALSE,
                at |-> "check", target |-> "", left |-> <<>>, so |-> 0]

(* The options parse_args knows; levels, formats, threads and sizes are checked.  *)
(* What only extraction heeds, or only the speed, leaves no trace here.           *)
Numbers == {"0", "4", "9"}
Setting(c, key, val) ==
    CASE key \in {"l", "mx"} /\ val \in Numbers -> c
      [] key \in {"fmt", "t"} /\ val \in {"zip", "7z", "tar"} -> [c EXCEPT !.fmt = val]
      [] key \in {"mmt", "t"} /\ val \in Numbers \ {"0"} -> c
      [] key = "v" /\ val \in {"4m"} -> [c EXCEPT !.volume = TRUE]
      [] key = "p" /\ val # NoValue -> [c EXCEPT !.pass = CASE val = "key" -> "right"
                                                                    [] val = "" -> "none"
                                                                    [] OTHER -> "wrong"]
      [] key = "o" /\ val # NoValue -> c
      [] key = "target" /\ val \in {"auto", "name", "none"} -> c
      [] key = "aou" /\ val = NoValue -> [c EXCEPT !.exists = "rename"]
      [] key \in {"aoa", "y"} /\ val = NoValue -> [c EXCEPT !.exists = "overwrite"]
      [] key = "aos" /\ val = NoValue -> [c EXCEPT !.exists = "skip"]
      [] key = "testdst" /\ val = NoValue -> [c EXCEPT !.testDst = TRUE]
      [] key \in {"delsrc", "sdel"} /\ val = NoValue -> [c EXCEPT !.delSrc = TRUE]
      [] key = "cp" /\ val # NoValue -> c
      [] key \in {"r", "bb", "bs"} \/ (key \in {"date", "bd"} /\ val = NoValue) -> c
      [] OTHER -> [c EXCEPT !.wrong = TRUE]

(* parse_args: an argument that begins with a dash is an option wherever it is.   *)
Taken(c, arg) ==
    IF ~arg.opt THEN [c EXCEPT !.names = Append(@, arg)]
    ELSE LET kv == SplitOpt(arg) IN Setting(c, kv[1], kv[2])
Needed(verb) == IF verb \in {"a", "c"} THEN 2 ELSE 1
ParseArgs(verb, args) ==
    LET c == FoldLeft(Taken, Blank(verb), args)
    IN  [c EXCEPT !.wrong = @ \/ Len(c.names) < Needed(verb)]

-----------------------------------------------------------------------------
(* What the phases of a command share. *)

Roots == {<<arg.head>> : arg \in ToSet(Tail(cmd.names))}
Archives == IF cmd.verb = "bx" THEN cmd.names ELSE <<Head(cmd.names)>>
Occupied(place) == disk[place].one # NoArchive \/ disk[place].set # NoArchive
UniqueName(place) ==        \* the places after it are the names it tries
    IF ~Occupied(place) THEN {place} ELSE {p \in Places \ {place} : ~Occupied(p)}

(* CompressFormat::from_str *)
Format == IF cmd.fmt # "unset" THEN cmd.fmt ELSE IF ext \in {"zip", "tar"} THEN ext ELSE "7z"

(* produced_files: the whole file if there is one, else the first volume.         *)
Produced == <<cmd.target, IF disk[cmd.target].one # NoArchive THEN "one" ELSE "set">>

Phase(at) == code = Running /\ op = Idle /\ cmd.at = at
Now(change) == cmd' = change @@ cmd
Exit(n) == code' = n /\ Now([at |-> "ended"])
Worse(m, n) == IF m > n THEN m ELSE n
Call(kind, where, pass, add, volume) ==
    /\ op' = [Called(kind, where, pass, <<>>, add, {}, volume) EXCEPT
                !.by = IF kind = "create" THEN ForFormat(Format) ELSE @]
    /\ UNCHANGED <<ext, disk, tree, cancel, file, answer>>
Untouched == UNCHANGED <<host, line, window, deleted>>

-----------------------------------------------------------------------------
(* zm.exe hands its arguments on, --help if there are none; run and execute then  *)
(* decide what to do.  7z.dll may be missing.                                     *)
Given == IF line = <<>> THEN <<Opt("-help", FALSE, "")>> ELSE line
Run ==
    /\ host = "zm" /\ Phase("start")
    /\ LET verb == Given[1].head
           c == ParseArgs(verb, Tail(Given))
       IN  \/ WantsHelp(Given) /\ Exit(0)
           \/ ~WantsHelp(Given) /\ verb \notin Verbs /\ Exit(2)
           \/ ~WantsHelp(Given) /\ verb \in Verbs /\ c.wrong /\ Exit(2)
           \/ /\ ~WantsHelp(Given) /\ verb \in Verbs /\ ~c.wrong
              /\ Exit(2) \/ (cmd' = c /\ UNCHANGED code)
    /\ UNCHANGED bvars /\ Untouched

(* All archives but one that is created must be there.                            *)
Check ==
    /\ host = "zm" /\ Phase("check")
    /\ IF cmd.verb \notin {"a", "c"} /\ \E arg \in ToSet(Archives) : There(Where(arg)) = NoArchive
       THEN Exit(2)
       ELSE /\ Now([left |-> Archives,
                     at |-> CASE cmd.verb \in {"a", "c"} -> "target"
                              [] cmd.verb \in {"x", "e", "bx"} -> "extract"
                              [] cmd.verb = "l" -> "list"
                              [] cmd.verb = "t" -> "test"])
            /\ UNCHANGED code
    /\ UNCHANGED bvars /\ Untouched

(* run_create *)
Target ==
    /\ host = "zm" /\ Phase("target")
    /\ LET place == Head(cmd.names).head
       IN  \/ cmd.exists = "skip" /\ Occupied(place) /\ Exit(1)
           \/ /\ ~(cmd.exists = "skip" /\ Occupied(place))
              /\ \E p \in (IF cmd.exists = "rename" THEN UniqueName(place) ELSE {place}) :
                    Now([at |-> "write", target |-> p])
              /\ UNCHANGED code
    /\ UNCHANGED bvars /\ Untouched

Appends == cmd.verb = "a" /\ cmd.exists = "unset" /\ disk[cmd.target].one # NoArchive
Write ==
    /\ host = "zm" /\ Phase("write")
    /\ IF Appends
       THEN Call("edit", <<cmd.target, "one">>, cmd.pass, Roots, FALSE)
       ELSE Call("create", <<cmd.target, "one">>, IF Format = "tar" THEN "none" ELSE cmd.pass,
                 Roots, cmd.volume)
    /\ Now([at |-> "written"]) /\ UNCHANGED code /\ Untouched

Written ==
    /\ host = "zm" /\ Phase("written")
    /\ \/ /\ answer.code \notin {"ok", "warning"}
          /\ Exit(2) /\ UNCHANGED bvars
       \/ /\ answer.code \in {"ok", "warning"} /\ ~cmd.testDst
          /\ Now([at |-> "sources", so |-> IF answer.code = "ok" THEN 0 ELSE 1])
          /\ UNCHANGED <<bvars, code>>
       \/ /\ answer.code \in {"ok", "warning"} /\ cmd.testDst
          /\ Call("test", Produced, cmd.pass, {}, FALSE)
          /\ Now([at |-> "tested", so |-> IF answer.code = "ok" THEN 0 ELSE 1])
          /\ UNCHANGED code
    /\ Untouched

\* Mutant of Tested: the command goes on after a test that failed.
TestedGoesOn ==
    /\ host = "zm" /\ Phase("tested")
    /\ Now([at |-> "sources"])
    /\ UNCHANGED <<bvars, code>> /\ Untouched
Tested ==
    /\ host = "zm" /\ Phase("tested")
    /\ IF answer.code = "ok" THEN Now([at |-> "sources"]) /\ UNCHANGED code ELSE Exit(1)
    /\ UNCHANGED bvars /\ Untouched

(* remove_paths: every input with all that is below it by then.  Any of it may    *)
(* resist, and an input that is gone counts as a failure.                         *)
Doomed == {p \in DOMAIN tree : Under(p, Roots) /\ tree[p] \notin {"gone", "soon"}}
Sources ==
    /\ host = "zm" /\ Phase("sources")
    /\ IF ~cmd.delSrc \/ cmd.so # 0 THEN Exit(cmd.so) /\ UNCHANGED <<bvars, deleted>>
       ELSE \E gone \in SUBSET Doomed :
              /\ tree' = [p \in DOMAIN tree |-> IF p \in gone THEN "gone" ELSE tree[p]]
              /\ deleted' = [p \in gone |-> tree[p]]
              /\ disk' = IF Inside /\ gone = Doomed
                         THEN [disk EXCEPT ![cmd.target] = [one |-> NoArchive, set |-> NoArchive]]
                         ELSE disk
              /\ Exit(IF gone = Doomed /\ Roots \subseteq gone THEN 0 ELSE 1)
              /\ UNCHANGED <<ext, op, cancel, file, answer>>
    /\ UNCHANGED <<host, line, window>>

(* run_extract: the archives one after the other, each listed first.  What the    *)
(* extraction answers is the matter of module Extraction.                         *)
Extract ==
    /\ host = "zm" /\ Phase("extract")
    /\ IF cmd.left = <<>> THEN Exit(cmd.so) /\ UNCHANGED bvars
       ELSE /\ Call("list", Where(Head(cmd.left)), cmd.pass, {}, FALSE)
            /\ Now([at |-> "listed", left |-> Tail(cmd.left)]) /\ UNCHANGED code
    /\ Untouched
Listed ==
    /\ host = "zm" /\ Phase("listed")
    /\ \E n \in (IF answer.code = "ok" THEN 0..2 ELSE {2}) :
          Now([at |-> "extract", so |-> Worse(cmd.so, n)])
    /\ UNCHANGED <<bvars, code>> /\ Untouched

(* run_list and run_test *)
Look ==
    /\ host = "zm" /\ (Phase("list") \/ Phase("test"))
    /\ Call(cmd.at, Where(Head(cmd.left)), cmd.pass, {}, FALSE)
    /\ Now([at |-> "looked"]) /\ UNCHANGED code /\ Untouched
Looked ==
    /\ host = "zm" /\ Phase("looked")
    /\ Exit(IF answer.code = "ok" THEN 0 ELSE IF cmd.verb = "l" THEN 2 ELSE 1)
    /\ UNCHANGED bvars /\ Untouched

-----------------------------------------------------------------------------
(* launch_gui: ZipMania.exe opens a window for the same line or refuses it.       *)
Opened(kind, target) == [kind |-> kind, target |-> target]
LaunchGui ==
    /\ host = "exe" /\ Phase("start") /\ line # <<>> /\ line[1].head \in Verbs
    /\ LET c == ParseArgs(line[1].head, Tail(line))
           place == Head(c.names).head
           shown == IF c.verb = "bx" THEN c.names ELSE <<Head(c.names)>>
           makes == c.verb \in {"a", "c"}
           refused == \/ c.wrong
                      \/ makes /\ c.exists = "skip" /\ Occupied(place)
                      \/ c.verb = "a" /\ c.exists = "unset" /\ disk[place].one # NoArchive
                      \/ ~makes /\ \E arg \in ToSet(shown) : There(Where(arg)) = NoArchive
       IN  IF refused THEN window' = Opened("refused", "")
           ELSE IF makes
           THEN \E p \in (IF c.exists = "rename" THEN UniqueName(place) ELSE {place}) :
                  window' = Opened("compress", p)
           ELSE window' = Opened(IF c.verb \in {"l", "t"} THEN "main" ELSE "extract", place)
    /\ Now([at |-> "shown"])
    /\ UNCHANGED <<bvars, host, line, code, deleted>>

(* The windows' commands: start_test, start_scan, start_edit, verify_archive,     *)
(* read_entry, extract_entry_to_file, the upload of a scan, open_archive.         *)
Ask ==
    /\ host = "app" /\ Phase("start")
    /\ \E a \in Asked :
          op' = Called(a.kind, a.where, a.pass, a.want, a.add, a.drop, FALSE)
    /\ Now([at |-> "asked"])
    /\ UNCHANGED <<ext, disk, tree, cancel, file, answer, host, line, code, window, deleted>>

(* Its [cancel] button; the console has none. *)
Canceled == host = "app" /\ Cancel /\ UNCHANGED cvars

-----------------------------------------------------------------------------
Init ==
    /\ \E w \in Worlds : ext = w.ext /\ disk = w.disk /\ tree = w.tree
    /\ op = Idle /\ cancel = FALSE /\ file = "old" /\ answer = [code |-> "none"]
    /\ host \in {"zm", "exe", "app"}
    /\ line \in (IF host = "app" THEN {<<>>} ELSE Lines)
    /\ cmd = [Blank("none") EXCEPT !.at = "start"]
    /\ code = Running /\ window = Opened("none", "") /\ deleted = <<>>

Next ==
    \/ BackendStep /\ UNCHANGED cvars
    \/ Canceled \/ Ask \/ LaunchGui
    \/ Run \/ Check \/ Target \/ Write \/ Written \/ Tested \/ Sources
    \/ Extract \/ Listed \/ Look \/ Looked

Spec == Init /\ [][Next]_vars

-----------------------------------------------------------------------------
(* Every variable stays in its range; what runs is a call with its counters in    *)
(* bounds.                                                                        *)
TypeOK ==
    /\ DOMAIN disk = Places
    /\ \A p \in DOMAIN tree : tree[p] \in {"file", "dir", "link", "gone", "soon", "late"}
    /\ file \in {"old", "whole"} /\ cancel \in BOOLEAN
    /\ op # Idle =>
         /\ op.at \in {"open", "count", "items", "data", "close", "write"}
         /\ op.i \in 1..(Worse(Count, Len(op.plan)) + 1)
         /\ op.meta \in 0..Count
         /\ op.at = "write" => Len(op.made) = op.i - 1
    /\ host \in {"zm", "exe", "app"} /\ code \in {0, 1, 2, Running}
    /\ DOMAIN deleted \subseteq DOMAIN tree

(* The answer of a read, seen against the archive it was about.                   *)
Did(kind) == answer.code \in {"ok", "warning"} /\ answer.call.kind = kind
Items == answer.arc.items
Readable(i) == Items[i].sound /\ (answer.arc.lock = "none" \/ answer.call.pass = "right")
Says(i, status) == \E k \in DOMAIN answer.report : answer.report[k] = <<i, status>>
Verdicts(i) == {k \in DOMAIN answer.report : answer.report[k][1] = i}
Uncounted == answer.call.by = "sevenzip" /\ answer.call.meta < Len(Items)

(* A test that passes has read every file 7z.dll did not pass over; a report calls *)
(* a file good exactly when it is; a scan has one verdict on every file and calls  *)
(* none scanned that it did not read whole (do_test, do_test_report,              *)
(* do_scan_report and unzip's).  Report and scan count, so that an item passed     *)
(* over makes the one fail and is an error in the other; do_test does not.         *)
(* The report says nothing when 7z.dll would not count the items.                 *)
ReportsHonest ==
    /\ Did("test") => \A i \in FilesOf(Items) \ answer.call.passed : Readable(i)
    /\ Did("report") /\ ~Uncounted =>
         \A i \in FilesOf(Items) :
            IF answer.call.by = "unegg" THEN Readable(i)
            ELSE /\ Cardinality(Verdicts(i)) = 1
                 /\ Says(i, "ok") <=> Readable(i)
    /\ Did("scan") =>
         \A i \in FilesOf(Items) :
            /\ Cardinality(Verdicts(i)) = 1
            /\ Says(i, "scanned") => Readable(i) /\ Items[i].size <= Cap

(* An entry is handed out only if it was read whole, with the right password and  *)
(* its checksum, and one that is not leaves the file that was there               *)
(* (do_extract_entry_to_file, settle_pending, read_entry).  One 7z.dll passed over *)
(* is handed out as it is, but no file takes the place of the old one for it.      *)
EntryWhole ==
    /\ \A kind \in EntryKinds : Did(kind) =>
          \E i \in FilesOf(Items) :
             /\ Items[i].name = answer.call.want
             /\ i \notin answer.call.passed =>
                  /\ Readable(i)
                  /\ kind = "mem" => Items[i].size <= Cap
                  /\ kind = "file" /\ answer.call.by # "unzip" =>
                       Told(Items[i], LAMBDA size : size <= Items[i].size)
    /\ file = "whole" <=> Did("file") /\ answer.call.passed = {}

(* An edit that succeeds leaves exactly what was neither taken out nor replaced,  *)
(* as it was, and what was put in; ok means that nothing to put in was left out.  *)
(* An edit that fails leaves the archive alone (do_edit of both engines).         *)
Added == {e.item.name : e \in {f \in ToSet(answer.call.plan) : ~f.keep}}
Edited == There(answer.call.where)
EditKeeps ==
    answer.code # "none" /\ answer.call.kind = "edit" =>
      IF answer.code \notin {"ok", "warning"} THEN Edited = answer.arc
      ELSE ~Uncounted =>
             LET kept == {it \in ToSet(Items) : ~Under(it.name, answer.call.drop) /\ it.name \notin Added}
             IN  /\ kept = {it \in ToSet(Edited.items) : it.name \notin Added}
                 /\ \A n \in Added :
                      Cardinality({i \in DOMAIN Edited.items : Edited.items[i].name = n}) = 1
                 /\ answer.code = "ok" => answer.call.add \subseteq Added

(* -delsrc deletes no file it collected that the archive does not hold, and with  *)
(* -testdst none that cannot be read back from it (run_create, remove_paths), but  *)
(* for what the test passed over.                                                 *)
(* When a split archive is made beside a whole one of its name, the old one is     *)
(* tested (produced_files).                                                       *)
MadeItems == {it \in ToSet(disk[cmd.target].one.items) \cup ToSet(disk[cmd.target].set.items) : it.body = "new"}
OldTested == cmd.volume /\ disk[cmd.target].one # NoArchive /\ disk[cmd.target].set # NoArchive
Untested == IF Did("test") THEN {Items[i].name : i \in answer.call.passed} ELSE {}
SourcesSafe ==
    \A p \in DOMAIN deleted : deleted[p] = "file" =>
       \E it \in MadeItems :
          it.name = p /\ (cmd.testDst /\ ~OldTested /\ p \notin Untested => it.sound)

(* The exit code tells the truth: 0 after a creation means that every input is in  *)
(* the archive and, with -delsrc, gone; 0 after a test that the archive is good;    *)
(* 2 that nothing was deleted.                                                     *)
ExitHonest ==
    /\ code = 0 /\ cmd.verb \in {"a", "c"} =>
          /\ Roots \subseteq {it.name : it \in MadeItems}
          /\ cmd.delSrc => Roots \subseteq DOMAIN deleted
    /\ code = 0 /\ cmd.verb = "t" => Did("test")
    /\ code = 2 => deleted = <<>>

(* What the engines report and what zm says of it by its exit code is so.          *)
Honest == TypeOK /\ ReportsHonest /\ ExitHonest

(* What is taken out of an archive and what stays in it is what was asked for.     *)
ContentsRight == EntryWhole /\ EditKeeps

(* What the comment at run_create says of -delsrc (cmdline.rs:621), without the    *)
(* limit to what was collected: not so for a file that appears meanwhile in a      *)
(* folder, which is deleted with it.                                              *)
NoneLost ==
    \A p \in DOMAIN deleted : deleted[p] \in {"file", "late"} => \E it \in MadeItems : it.name = p

(* What do_test says of itself, an integrity test, and the test at mod.rs:1052 of   *)
(* the report beside it: a result that is missing is no success.  do_test does not *)
(* count the results.                                                             *)
TestReadsAll == Did("test") => \A i \in FilesOf(Items) : Readable(i)

(* What finish_test_report promises (mod.rs:991), a part of the results is no       *)
(* success: not so when 7z.dll does not tell the number of the items.              *)
ReportComplete ==
    Did("report") => \A i \in FilesOf(Items) : answer.call.by = "unegg" \/ Verdicts(i) # {}

(* What the help says of -testdst, verify the archive after creation               *)
(* (cmdline.rs:59): not the old whole archive beside a set made in its place.       *)
VerifiesMade ==
    \A p \in DOMAIN deleted : deleted[p] = "file" /\ cmd.testDst /\ p \notin Untested =>
       \E it \in MadeItems : it.name = p /\ it.sound
================================================================================
