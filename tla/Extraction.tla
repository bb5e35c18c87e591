----------------------------- MODULE Extraction -----------------------------
(***************************************************************************)
(* One extraction, from the search for conflicts to the result the window  *)
(* hears: the loops of the two Rust engines (unzip/extract.rs,             *)
(* unegg/extract.rs), the callbacks that 7z.dll drives                     *)
(* (sevenzip/callbacks.rs, do_extract) and the temporary file beside the   *)
(* target that all three share (StagedFile in outfile.rs).                 *)
(*                                                                         *)
(* A file is abstracted to whose content it has.  The decoders, the disk   *)
(* and 7z.dll are external: they may succeed or fail at every step.        *)
(***************************************************************************)
EXTENDS Integers, Sequences, FiniteSetsExt, Functions

CONSTANTS
    Backends,   \* which of "zip", "egg" and "7z" are explored
    Archives,   \* the archives: sequences of [kind, name, path]
    Paths,      \* where files may come to lie below the target folder
    Olds,       \* where files may lie before the job
    NewNames,   \* Paths -> Seq(Paths): the names unique_path tries in turn
    Chunks      \* bound on the chunks of an item that are written one by one

\* What may have a name: an item is its number in the archive, the rest is not
\* from the archive.
None   == 0
Old    == -1      \* there before the user was asked
Alien  == -2      \* put there by another program since
Folder == -3
Torn   == -4      \* less than the whole of an item
Content == {None, Old, Alien, Folder, Torn} \cup UNION {DOMAIN a : a \in Archives}

Kinds   == {"file", "dir", "unsafe"}
Answers == {"skip", "rename", "overwrite"}

ASSUME ArchivesAssumption ==
    /\ Archives # {}
    /\ \A a \in Archives : /\ a \in Seq(Range(a))
                          /\ \A e \in DOMAIN a : a[e].kind \in Kinds /\ a[e].path \in Paths
    /\ Olds \subseteq Paths
    /\ NewNames \in [Paths -> Seq(Paths)]
    /\ Chunks \in Nat

VARIABLES
    be,         \* the backend the router chose
    arc,        \* the archive
    sel,        \* the items asked for
    sealed,     \* it is encrypted: the engine asks for the password
    answers,    \* name -> what the user answered for a file that exists
    cancel,     \* the flag of the job
    pc,         \* where the worker is
    todo,       \* the items in scope that have not had their turn
    staged,     \* {} or the one item that is being written
    fs,         \* the disk: [disk, temps, live, stuck, missing]
    sz,         \* the session of 7z.dll: [op, aborted, hr] and the items it has
                \* passed over, of which nobody has told what became of them
    result      \* what is reported: "none" before

vars == <<be, arc, sel, sealed, answers, cancel, pc, todo, staged, fs, sz, result>>

Items   == DOMAIN arc
Files   == {e \in Items : arc[e].kind = "file"}
Results == {"none", "ok", "warning", "canceled", "failed", "password"}
Names   == {arc[e].name : e \in Items}

-----------------------------------------------------------------------------
(* The temporary file and the way from it to the name.  "missing" stands   *)
(* for the list the caller of these functions fills.                       *)

Exists(f, p) == f.disk[p] # None

\* unique_path: the first of the names that is free; without one the path itself.
UniquePath(f, p) ==
    LET free == {n \in DOMAIN NewNames[p] : ~Exists(f, NewNames[p][n])}
    IN  IF free = {} THEN p ELSE NewNames[p][Min(free)]

\* Mutants of Missed: the failure of an item not recorded, or under the index
\* of the next one.
MissedNot(f, e)  == f
MissedNext(f, e) == [f EXCEPT !.missing = @ \cup {e + 1}]

Missed(f, e) == [f EXCEPT !.missing = @ \cup {e}]

\* StagedFile::create beside the target; the name is entered in LIVE_TMP.
Created(f, e) == [f EXCEPT !.temps = @ \cup {e}, !.live = @ \cup {e}]

\* abort and Drop: removed, or still there when both attempts fail.
Removed(f, e) ==
    { [f EXCEPT !.temps = @ \ {e}, !.live = @ \ {e}],
      [f EXCEPT !.stuck = @ \cup {e}, !.live = @ \ {e}] }

\* commit: the rename replaces what has the name, but never a folder.
Renamed(f, s) ==
    [f EXCEPT !.disk[s.goal] = IF s.len \in {"whole", "long"} THEN s.item ELSE Torn,
              !.temps = @ \ {s.item}, !.live = @ \ {s.item}]

Committed(f, s) == IF f.disk[s.goal] = Folder THEN {} ELSE {Renamed(f, s)}

-----------------------------------------------------------------------------
TypeOK ==
    /\ be \in Backends /\ arc \in Archives /\ sealed \in BOOLEAN /\ cancel \in BOOLEAN
    /\ DOMAIN answers \subseteq Names /\ Range(answers) \subseteq Answers
    /\ pc \in {"check", "start", "next", "read", "write", "engine", "item", "close", "done"}
    /\ sel \subseteq Items /\ todo \subseteq sel
    /\ staged \subseteq [item : Files, goal : Paths, len : {"part", "short", "whole", "long"},
                         ok : BOOLEAN, n : 0..Chunks]
    /\ Cardinality(staged) <= 1
    /\ fs \in [disk : [Paths -> Content], temps : SUBSET Items, live : SUBSET Items,
               stuck : SUBSET Items, missing : SUBSET Items]
    /\ sz \in [op : BOOLEAN, aborted : BOOLEAN, hr : BOOLEAN, passed : SUBSET Items]
    /\ result \in Results

Init ==
    /\ be \in Backends /\ arc \in Archives /\ sealed \in BOOLEAN
    /\ answers = <<>>
    /\ cancel = FALSE
    /\ pc = "check"
    /\ \E N \in SUBSET Names \ {{}} : sel = {e \in Items : arc[e].name \in N}
    /\ todo = sel
    /\ staged = {}
    /\ \E O \in SUBSET Olds :
        fs = [disk |-> [p \in Paths |-> IF p \in O THEN Old ELSE None],
              temps |-> {}, live |-> {}, stuck |-> {}, missing |-> {}]
    /\ sz = [op |-> FALSE, aborted |-> FALSE, hr |-> TRUE, passed |-> {}]
    /\ result = "none"

(***************************************************************************)
(* Before the job.  compute_conflicts names the files that exist; the      *)
(* window asks about each, and a file nobody asked about is overwritten.   *)
(***************************************************************************)
Conflicts == {arc[e].name : e \in {x \in todo \cap Files : Exists(fs, arc[x].path)}}

CheckConflicts ==
    /\ pc = "check"
    /\ \E a \in [Conflicts -> Answers] : answers' = a
    /\ pc' = "start"
    /\ UNCHANGED <<be, arc, sel, sealed, cancel, todo, staged, fs, sz, result>>

Cancel ==
    /\ pc \notin {"check", "done"} /\ ~cancel
    /\ cancel' = TRUE
    /\ UNCHANGED <<be, arc, sel, sealed, answers, pc, todo, staged, fs, sz, result>>

\* Another program puts a file where there was none.
AlienWrites ==
    /\ pc # "done"
    /\ Alien \notin Range(fs.disk)
    /\ \E p \in Paths :
        /\ ~Exists(fs, p)
        /\ fs' = [fs EXCEPT !.disk[p] = Alien]
    /\ UNCHANGED <<be, arc, sel, sealed, answers, cancel, pc, todo, staged, sz, result>>

-----------------------------------------------------------------------------
End(r) == pc' = "done" /\ result' = r

FinishWith(missing) == IF missing = {} THEN "ok" ELSE "warning"

\* The folder cannot be made, the archive not opened or its list not read.
Start ==
    /\ pc = "start"
    /\ \/ /\ pc' = IF be = "7z" THEN "engine" ELSE "next"
          /\ UNCHANGED result
       \/ End("failed")
       \/ be = "7z" /\ sealed /\ End("password")
    /\ UNCHANGED <<be, arc, sel, sealed, answers, cancel, todo, staged, fs, sz>>

\* collect_meta takes a count that failed for an archive of no items: a choice of
\* items is looked up in vain, and of the whole archive no item is known.
StartUncounted ==
    /\ pc = "start" /\ be = "7z"
    /\ \/ todo' = {}
       \/ sel = Items /\ UNCHANGED todo
    /\ sz' = [sz EXCEPT !.passed = sel]
    /\ pc' = "engine"
    /\ UNCHANGED <<be, arc, sel, sealed, answers, cancel, staged, fs, result>>

Turn == Min(todo)

\* Mutant of Policy: the answers of the user not looked up.
PolicyDefault(f, e) == IF Exists(f, arc[e].path) THEN "overwrite" ELSE "new"

\* What the item in turn comes to, apart from the writing: the policy of its
\* name if the path exists, else the default policy, which is "overwrite".
Policy(f, e) ==
    IF ~Exists(f, arc[e].path) THEN "new"
    ELSE IF arc[e].name \in DOMAIN answers THEN answers[arc[e].name]
    ELSE "overwrite"

Goal(f, e) == IF Policy(f, e) = "rename" THEN UniquePath(f, arc[e].path) ELSE arc[e].path

\* create_dir_all: fails where a file has the name, or for a reason of the disk.
DirMade(f, e) ==
    { Missed(f, e) } \cup
    ( IF f.disk[arc[e].path] \in {None, Folder}
      THEN {[f EXCEPT !.disk[arc[e].path] = Folder]} ELSE {} )

Fresh(f, e) == [item |-> e, goal |-> Goal(f, e), len |-> "part", ok |-> FALSE, n |-> 0]

-----------------------------------------------------------------------------
(* The loops of the two Rust engines: one turn for each item.               *)

Rust == be \in {"zip", "egg"}

\* The flag is looked at before every item.
CanceledBetween ==
    /\ Rust /\ pc = "next" /\ todo # {} /\ cancel
    /\ End("canceled")
    /\ UNCHANGED <<be, arc, sel, sealed, answers, cancel, todo, staged, fs, sz>>

\* A path that would leave the folder: zip goes on without it, egg fails.
RefuseUnsafe ==
    /\ Rust /\ pc = "next" /\ todo # {} /\ ~cancel
    /\ arc[Turn].kind = "unsafe"
    /\ \/ /\ be = "zip"
          /\ fs' = Missed(fs, Turn) /\ todo' = todo \ {Turn}
          /\ UNCHANGED <<pc, result>>
       \/ /\ be = "egg"
          /\ End("failed")
          /\ UNCHANGED <<fs, todo>>
    /\ UNCHANGED <<be, arc, sel, sealed, answers, cancel, staged, sz>>

MakeDir ==
    /\ Rust /\ pc = "next" /\ todo # {} /\ ~cancel
    /\ arc[Turn].kind = "dir"
    /\ fs' \in DirMade(fs, Turn)
    /\ todo' = todo \ {Turn}
    /\ UNCHANGED <<be, arc, sel, sealed, answers, cancel, pc, staged, sz, result>>

\* An item the user skips is not missing: it was his wish.
SkipItem ==
    /\ Rust /\ pc = "next" /\ todo # {} /\ ~cancel
    /\ arc[Turn].kind = "file" /\ Policy(fs, Turn) = "skip"
    /\ todo' = todo \ {Turn}
    /\ UNCHANGED <<be, arc, sel, sealed, answers, cancel, pc, staged, fs, sz, result>>

\* The item is opened and its temporary file created.
StageItem ==
    /\ Rust /\ pc = "next" /\ todo # {} /\ ~cancel
    /\ arc[Turn].kind = "file" /\ Policy(fs, Turn) # "skip"
    /\ todo' = todo \ {Turn}
    /\ \/ /\ staged' = {Fresh(fs, Turn)}
          /\ fs' = Created(fs, Turn)
          /\ pc' = "read"
          /\ UNCHANGED result
       \/ /\ be = "zip"                     \* not read, no folder, no temporary file
          /\ fs' = Missed(fs, Turn)
          /\ UNCHANGED <<pc, staged, result>>
       \/ /\ be = "egg"                     \* no temporary file
          /\ End("failed")
          /\ UNCHANGED <<fs, staged>>
       \/ /\ be = "zip" /\ sealed           \* the password does not fit
          /\ End("password")
          /\ UNCHANGED <<fs, staged>>
    /\ UNCHANGED <<be, arc, sel, sealed, answers, cancel, sz>>

\* Mutant of CanceledWithin: the cancel told as an error of the kind that a copy
\* loop takes for a reason to try again.
CanceledWithinRetries ==
    /\ be = "zip" /\ pc = "read" /\ cancel
    /\ UNCHANGED vars

\* zip looks at the flag before every chunk.
CanceledWithin ==
    /\ be = "zip" /\ pc = "read" /\ cancel
    /\ \E s \in staged : fs' \in Removed(fs, s.item)
    /\ staged' = {}
    /\ End("canceled")
    /\ UNCHANGED <<be, arc, sel, sealed, answers, cancel, todo, sz>>

\* Where the flag stops a write: zip looks before it reads, the writer of egg
\* before it writes.
Unstopped == pc = (IF be = "zip" THEN "read" ELSE "write") => ~cancel

DecodeChunk ==
    /\ pc = "read" /\ Unstopped
    /\ \E s \in staged :
        /\ s.n < Chunks
        /\ staged' = {[s EXCEPT !.n = @ + 1]}
    /\ pc' = "write"
    /\ UNCHANGED <<be, arc, sel, sealed, answers, cancel, todo, fs, sz, result>>

WriteChunk ==
    /\ pc = "write" /\ Unstopped
    /\ pc' = "read"
    /\ UNCHANGED <<be, arc, sel, sealed, answers, cancel, todo, staged, fs, sz, result>>

\* The writer of egg answers Interrupted, which write_all, that called it, takes
\* for a reason to call it again.
RetryWrite ==
    /\ be = "egg" /\ pc = "write" /\ cancel
    /\ UNCHANGED vars

\* What can break an item of egg off: the decoder, at the end of a block the
\* checksum of a sealed item, the flush and the write.
Breaks == IF pc = "write" THEN {"failed"}
          ELSE {"missed", "failed"} \cup (IF sealed THEN {"password"} ELSE {})

\* The decoder or the disk fails in the middle: only the temporary file goes.
Broke ==
    /\ pc \in {"read", "write"} /\ Unstopped
    /\ \E s \in staged : \E f \in Removed(fs, s.item) :
        \/ be = "egg" /\ cancel /\ fs' = f /\ End("canceled")
        \/ \E b \in IF be = "zip" THEN {"missed"} ELSE Breaks :
            /\ be = "egg" => ~cancel
            /\ \/ b = "missed" /\ fs' = Missed(f, s.item) /\ pc' = "next" /\ UNCHANGED result
               \/ b # "missed" /\ fs' = f /\ End(b)
    /\ staged' = {}
    /\ UNCHANGED <<be, arc, sel, sealed, answers, cancel, todo, sz>>

\* The end of the item: the size is compared before the name is given.
EndOfItem ==
    /\ Rust /\ pc = "read" /\ Unstopped
    /\ \E s \in staged : \E len \in {"short", "whole", "long"} :
        LET full == [s EXCEPT !.len = len] IN
        \/ /\ len = "whole"
           /\ fs' \in Committed(fs, full)
           /\ pc' = "next" /\ UNCHANGED result
        \/ /\ len # "whole"
           /\ \E f \in Removed(fs, s.item) : fs' = Missed(f, s.item)
           /\ pc' = "next" /\ UNCHANGED result
        \/ /\ len = "whole"                 \* the rename fails
           /\ \E f \in Removed(fs, s.item) :
                \/ be = "zip" /\ fs' = Missed(f, s.item) /\ pc' = "next" /\ UNCHANGED result
                \/ be = "egg" /\ fs' = f /\ End("failed")
    /\ staged' = {}
    /\ UNCHANGED <<be, arc, sel, sealed, answers, cancel, todo, sz>>

FinishAll ==
    /\ Rust /\ pc = "next" /\ todo = {}
    /\ End(FinishWith(fs.missing))
    /\ UNCHANGED <<be, arc, sel, sealed, answers, cancel, todo, staged, fs, sz>>

-----------------------------------------------------------------------------
(* 7z.dll calls back; it goes through the items in order and may stop.     *)

\* Mutant of Settled: the size is not compared.
SettledUnchecked(f) ==
    IF staged = {} THEN {f}
    ELSE LET s == CHOOSE x \in staged : TRUE IN
         IF ~s.ok THEN Removed(f, s.item)
         ELSE Committed(f, s) \cup {Missed(g, s.item) : g \in Removed(f, s.item)}

\* settle_pending: more than the list says is accepted, less is not.
Settled(f) ==
    IF staged = {} THEN {f}
    ELSE LET s == CHOOSE x \in staged : TRUE IN
         IF ~s.ok THEN Removed(f, s.item)
         ELSE IF s.len \notin {"whole", "long"}
         THEN {Missed(g, s.item) : g \in Removed(f, s.item)}
         ELSE Committed(f, s) \cup {Missed(g, s.item) : g \in Removed(f, s.item)}

\* What GetStream makes of the item: nothing, a folder, or a stream into the
\* temporary file.
Opened(f, e) ==
    LET none(g) == [fs |-> g, staged |-> {}] IN
    CASE e \in sz.passed         -> {none(f)}          \* not in the list
      [] arc[e].kind = "unsafe" -> {none(Missed(f, e))}
      [] arc[e].kind = "dir"    -> {none(g) : g \in DirMade(f, e)}
      [] Policy(f, e) = "skip"  -> {none(f)}
      [] OTHER -> {none(Missed(f, e)), [fs |-> Created(f, e), staged |-> {Fresh(f, e)}]}

\* GetStream: the item before is settled first, then the flag is looked at.
GetStream ==
    /\ pc = "engine" /\ todo # {}
    /\ \E f \in Settled(fs) :
        \/ /\ cancel                                        \* E_ABORT
           /\ fs' = f /\ staged' = {}
           /\ sz' = [sz EXCEPT !.aborted = TRUE, !.hr = FALSE]
           /\ pc' = "close" /\ UNCHANGED todo
        \/ /\ ~cancel
           /\ pc' = "item" /\ todo' = todo \ {Turn}
           /\ \E o \in Opened(f, Turn) : fs' = o.fs /\ staged' = o.staged
           /\ UNCHANGED sz
    /\ UNCHANGED <<be, arc, sel, sealed, answers, cancel, result>>

\* SetOperationResult: what was written, and whether the engine holds it good.
SetOperationResult ==
    /\ pc = "item"
    /\ \E good \in BOOLEAN, len \in {"short", "whole", "long"} :
        /\ sz' = [sz EXCEPT !.op = @ \/ ~good]
        /\ staged' = {[s EXCEPT !.ok = good, !.len = IF good THEN len ELSE @] : s \in staged}
    /\ pc' = "engine"
    /\ UNCHANGED <<be, arc, sel, sealed, answers, cancel, todo, fs, result>>

\* The engine may go on to the next item without asking for a stream, and without
\* a word of how the last one ended (do_test and do_scan expect either of it).
PassOver ==
    /\ pc = "engine" /\ todo # {}
    /\ todo' = todo \ {Turn}
    /\ sz' = [sz EXCEPT !.passed = @ \cup {Turn}]
    /\ UNCHANGED <<be, arc, sel, sealed, answers, cancel, pc, staged, fs, result>>

NoResult ==
    /\ pc = "item"
    /\ sz' = [sz EXCEPT !.passed = @ \cup {s.item : s \in staged}]
    /\ pc' = "engine"
    /\ UNCHANGED <<be, arc, sel, sealed, answers, cancel, todo, staged, fs, result>>

\* SetCompleted with the flag set: the engine is told to stop.
SetCompleted ==
    /\ pc \in {"engine", "item"} /\ cancel
    /\ sz' = [sz EXCEPT !.aborted = TRUE, !.hr = FALSE]
    /\ pc' = "close"
    /\ UNCHANGED <<be, arc, sel, sealed, answers, cancel, todo, staged, fs, result>>

\* Extract returns: all items are done, or the engine gives up.
EngineReturns ==
    /\ \/ pc = "engine" /\ todo = {} /\ UNCHANGED sz
       \/ pc \in {"engine", "item"} /\ sz' = [sz EXCEPT !.hr = FALSE]
    /\ pc' = "close"
    /\ UNCHANGED <<be, arc, sel, sealed, answers, cancel, todo, staged, fs, result>>

\* classify_operation and classify_open_failure: what an engine that was asked
\* for a password found wrong may well be the password.
Blamed ==
    {IF sealed THEN "password" ELSE "failed"} \cup (IF sz.op THEN {"failed"} ELSE {})

\* do_extract after the call: the last item is settled before anything is told.
Conclude ==
    /\ pc = "close"
    /\ fs' \in Settled(fs)
    /\ staged' = {}
    /\ \/ sz.aborted /\ End("canceled")
       \/ /\ ~sz.aborted /\ (sz.op \/ ~sz.hr)
          /\ \E r \in Blamed : End(r)
       \/ /\ ~sz.aborted /\ ~sz.op /\ sz.hr
          /\ End(FinishWith(fs'.missing))
    /\ UNCHANGED <<be, arc, sel, sealed, answers, cancel, todo, sz>>

-----------------------------------------------------------------------------
Worker ==
    \/ Start \/ StartUncounted \/ CanceledBetween \/ RefuseUnsafe \/ MakeDir \/ SkipItem \/ StageItem
    \/ CanceledWithin \/ DecodeChunk \/ WriteChunk \/ RetryWrite \/ Broke \/ EndOfItem
    \/ FinishAll
    \/ GetStream \/ SetOperationResult \/ PassOver \/ NoResult \/ SetCompleted
    \/ EngineReturns \/ Conclude

Next == CheckConflicts \/ Cancel \/ AlienWrites \/ Worker

\* The worker is a thread of its own that waits for nobody.
Spec == Init /\ [][Next]_vars /\ WF_vars(Worker)

-----------------------------------------------------------------------------
(* Properties.                                                              *)

\* A name below the target folder has its old content or the whole of an item,
\* whatever failed or was cancelled (size check and result before the rename);
\* and no temporary file outlives the job but one that could not be removed.
WholeFiles ==
    /\ Torn \notin Range(fs.disk)
    /\ fs.temps \ fs.stuck = {s.item : s \in staged}
    /\ result # "none" => fs.live = {}

\* Files are whole, in states that are all well formed.
FilesWhole == TypeOK /\ WholeFiles

\* Two items of one job came to the same path: the later one replaced the other.
Shared(e) == \E x \in Files : x > e /\ fs.disk[arc[x].path] = x

\* Item e has its place, or the user skipped it, or a later item of the same job
\* took its place over.
Placed(e) ==
    \/ e \in Range(fs.disk)
    \/ arc[e].name \in DOMAIN answers /\ answers[arc[e].name] = "skip"
    \/ Shared(e)

\* "ok" lets the window delete the archive: then every item asked for is done, of
\* all that failed, was refused or broke off in any order and by any engine
\* nothing is left out; but what 7z.dll passed over without a word do_extract
\* does not notice.
OkMeansAll ==
    result = "ok" => \A e \in Files \cap sel : Placed(e) \/ (be = "7z" /\ e \in sz.passed)

\* What the comment in do_extract says of "ok" (mod.rs:513): an item is missing,
\* so it is not ok.  The results are not counted there as in do_test_report and do_scan.
OkMeansDone == result = "ok" => \A e \in Files \cap sel : Placed(e)

\* A file that was there when the user was asked is replaced by an item he
\* answered "overwrite" for, and never goes in any other way.
AnswersKept ==
    [][\A p \in Paths :
        fs.disk[p] = Old /\ fs'.disk[p] # Old =>
            /\ fs'.disk[p] \in Files
            /\ LET n == arc[fs'.disk[p]].name
               IN  n \in DOMAIN answers /\ answers[n] = "overwrite"]_vars

\* "The window asks about overwriting" (README.md:99): no file of another program
\* is replaced for which nobody was asked.  Violated: what is put there after the
\* conflicts were looked for gets the default policy, or is under the name that a
\* staged item is moved to.
AskedAlways ==
    [][\A p \in Paths : fs.disk[p] = Alien => fs'.disk[p] = Alien]_vars

\* The job comes to its end whatever fails and whenever it is cancelled, but for
\* an item of egg whose write the flag meets (CancelEnds).
EndsOrRetries == (pc = "start") ~> (result # "none" \/ (be = "egg" /\ pc = "write" /\ cancel))

\* [Cancel] ends the job, also in the middle of a big file, as the comment at the
\* writer of egg says (unegg/extract.rs:143).
CancelEnds == cancel ~> (result # "none")
=============================================================================
