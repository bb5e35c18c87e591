------------------------------ MODULE Backends ------------------------------
(* Router and the three engines behind it, for every operation but extraction    *)
(* (module Extraction) and the parallel creation of a zip (module Pipeline):      *)
(* list, test, test report, virus scan, one entry to memory / a file / a writer,  *)
(* creation and editing by 7z.dll, editing of a zip.                              *)
(*                                                                               *)
(* One operation runs at a time.  7z.dll is the environment: it calls back into   *)
(* GetStream and SetOperationResult for one item after the other and may fail     *)
(* between any two of them, with or without an operation result, or pass an item  *)
(* over and succeed.                                                              *)
EXTENDS Naturals, Sequences, SequencesExt, FiniteSets, FiniteSetsExt

CONSTANTS
    Places,      \* names an archive can have
    Cap          \* largest item the scan and the viewer hold in memory

VARIABLES
    ext,         \* extension of those names
    disk,        \* place -> the archives there, as one file and as a volume set
    tree,        \* path -> what lies there: "file", "dir", "link", "gone", or
                 \* "soon" and "late" for a file that appears while others are read
    op,          \* the running operation
    cancel,      \* its cancellation flag
    file,        \* the file an entry is extracted to
    answer       \* what the last operation returned

bvars == <<ext, disk, tree, op, cancel, file, answer>>

-----------------------------------------------------------------------------
(* Archives.  told holds the size the directory of the archive claims, or nothing *)
(* when that property cannot be read.                                             *)

Item(name, dir, size, told, body, sound) ==
    [name |-> name, dir |-> dir, size |-> size, told |-> told, body |-> body, sound |-> sound]
NoArchive == [lock |-> "absent", odd |-> FALSE, items |-> <<>>]
Archive(lock, odd, items) == [lock |-> lock, odd |-> odd, items |-> items]

Idle == [kind |-> "idle"]
There(where) == disk[where[1]][where[2]]
Arc == There(op.where)
Count == Len(Arc.items)
Cur == Arc.items[op.i]
Names(items) == {it.name : it \in ToSet(items)}
FilesOf(items) == {i \in DOMAIN items : ~items[i].dir}

(* A path and everything below it. *)
Under(path, roots) == \E r \in roots : IsPrefix(r, path)

(* inputs::collect: folders are walked, a link below them and an input that is    *)
(* not there are reported as missing.                                             *)
Found(roots) == {p \in DOMAIN tree : Under(p, roots) /\ tree[p] \in {"file", "dir"}}
Skipped(roots) == {p \in DOMAIN tree : Under(p, roots) /\ tree[p] = "link"}
                    \cup {p \in roots : p \notin DOMAIN tree \/ tree[p] \in {"gone", "soon"}}

-----------------------------------------------------------------------------
(* Router: backends in the order of registration. *)

Registered == <<"unzip", "sevenzip", "unegg">>
ReadExts == [unzip |-> {"zip"}, sevenzip |-> {"7z", "tar", "001"}, unegg |-> {"egg"}]
WriteExts == [unzip |-> {"zip"}, sevenzip |-> {"7z", "zip", "tar"}, unegg |-> {}]
FirstOf(ok(_)) == SelectInSeq(Registered, ok)

(* Router::pick: the first backend that declares the extension; reading falls     *)
(* back to the one that looks at the content, writing to one that can read it.    *)
ForArchive(e) ==
    LET declared == FirstOf(LAMBDA b : e \in ReadExts[b])
    IN  IF declared # 0 THEN Registered[declared] ELSE "sevenzip"
ForFormat(e) ==
    LET writes == FirstOf(LAMBDA b : e \in WriteExts[b])
    IN  IF writes # 0 THEN Registered[writes] ELSE ForArchive(e)

ExtAt(where) == IF where[2] = "set" THEN "001" ELSE ext

-----------------------------------------------------------------------------
(* A call of the router.  want is the entry read, add and drop what an edit or a  *)
(* creation puts in and takes out, volume whether the output is split.            *)

EntryKinds == {"mem", "file", "writer"}
ReadKinds == {"test", "report", "scan"} \cup EntryKinds
CancelKinds == {"report", "scan", "edit", "create"}

Called(kind, where, pass, want, add, drop, volume) ==
    [kind |-> kind, where |-> where, pass |-> pass, want |-> want, add |-> add, drop |-> drop,
     volume |-> volume, at |-> "open", by |-> ForArchive(ExtAt(where)),
     i |-> 1,             \* item of the archive, or of plan, that is next
     meta |-> 0,          \* number of items whose name and kind are known
     unread |-> FALSE,    \* a name or a kind could not be read
     opResult |-> 0,      \* last result of an item that is not zero
     asked |-> FALSE,     \* the engine asked for the password
     passed |-> {},       \* items 7z.dll gave no stream or no result for
     hr |-> TRUE,         \* the engine's call succeeded
     aborted |-> FALSE,   \* a callback saw the flag
     out |-> <<>>,        \* report: pairs of the item and its status
     staged |-> "none",   \* temporary file beside the file of an entry
     plan |-> <<>>,       \* what UpdateItems is to write, kept items first
     made |-> <<>>,       \* what it has written
     short |-> FALSE]     \* an input was not collected

Cancel ==
    /\ op.kind \in CancelKinds
    /\ ~cancel
    /\ cancel' = TRUE
    /\ UNCHANGED <<ext, disk, tree, op, file, answer>>

-----------------------------------------------------------------------------
(* Error codes: classify_open_failure, classify_operation and unzip's map_err. *)

PasswordFault == IF op.pass = "none" THEN "password_required" ELSE "wrong_password"
Right == Arc.lock = "none" \/ op.pass = "right"
OpenFault(asked) == IF asked THEN PasswordFault ELSE "unsupported"
Fault(result, asked) ==
    IF result = 9 \/ (asked /\ result \in {2, 3}) THEN PasswordFault
    ELSE IF result \in {1, 7} THEN "unsupported" ELSE "corrupt"

(* The answer keeps the call and the archive it was about, for the properties. *)
Answer(code, report) ==
    /\ answer' = [code |-> code, report |-> report, call |-> op, arc |-> Arc]
    /\ op' = Idle
    /\ cancel' = FALSE
Fail(code) == Answer(code, <<>>)
Step(new) == op' = new @@ op /\ UNCHANGED <<cancel, answer>>

-----------------------------------------------------------------------------
(* Opening. *)

Opens(engine) == op.kind # "idle" /\ op.at = "open" /\ op.by = engine /\ op.kind # "create"

\* Mutant of OpenZip: one item too many is counted.
OpenZipOneMore ==
    /\ Opens("unzip") /\ Arc.lock \notin {"absent", "junk"} /\ ~Arc.odd
    /\ Step([at |-> "items", meta |-> Count + 1])
    /\ UNCHANGED <<ext, disk, tree, file>>

(* open of unzip: a zip that the crate does not understand goes to 7z.dll whole.  *)
OpenZip ==
    /\ Opens("unzip")
    /\ \/ Arc.lock = "absent" /\ Fail("io_error")
       \/ (Arc.odd \/ Arc.lock = "junk") /\ Step([by |-> "sevenzip"])
       \/ /\ Arc.lock \notin {"absent", "junk"} /\ ~Arc.odd
          /\ Step([at |-> "items", meta |-> Count])
    /\ UNCHANGED <<ext, disk, tree, file>>

(* load and parse_items of unegg *)
OpenEgg ==
    /\ Opens("unegg")
    /\ \/ op.kind \in {"edit", "scan"} /\ Fail("unsupported")
       \/ op.kind \notin {"edit", "scan"} /\ Arc.lock = "absent" /\ Fail("io_error")
       \/ op.kind \notin {"edit", "scan"} /\ Arc.lock = "junk" /\ Fail("unsupported")
       \/ /\ op.kind \notin {"edit", "scan"} /\ Arc.lock \notin {"absent", "junk"}
          /\ Step([at |-> "items", meta |-> Count])
    /\ UNCHANGED <<ext, disk, tree, file>>

(* do_edit refuses before it opens anything. *)
EditRefused ==
    op.kind = "edit" /\ (ExtAt(op.where) \notin {"7z", "zip", "tar"} \/ op.add \cup op.drop = {})

(* open_for_read: every candidate handler is tried; one that asks for the         *)
(* password has recognised the format.                                            *)
Open7z ==
    /\ Opens("sevenzip")
    /\ \/ /\ EditRefused
          /\ Fail(IF ExtAt(op.where) \in {"7z", "zip", "tar"} THEN "no_input" ELSE "unsupported")
       \/ ~EditRefused /\ Arc.lock = "absent" /\ Fail("io_error")
       \/ /\ ~EditRefused /\ Arc.lock = "names" /\ op.pass # "right"
          /\ Fail(OpenFault(TRUE))
       \/ ~EditRefused /\ Arc.lock = "junk" /\ Fail(OpenFault(FALSE))
       \/ /\ ~EditRefused
          /\ Arc.lock \in {"none", "data"} \/ (Arc.lock = "names" /\ op.pass = "right")
          /\ Step([at |-> "count"])
    /\ UNCHANGED <<ext, disk, tree, file>>

(* item_count, collect_meta_checked: the number of items may not be had.  The scan and    *)
(* the listing say so, the others go on with an empty list.                       *)
Count7z ==
    /\ op.kind # "idle" /\ op.at = "count"
    /\ \/ \E u \in (IF op.kind = "scan" THEN BOOLEAN ELSE {FALSE}) :
              Step([at |-> "items", meta |-> Count, unread |-> u])
       \/ op.kind \in {"list", "scan"} /\ Fail("corrupt")
       \/ op.kind \notin {"list", "scan"} /\ Step([at |-> "items"])
    /\ UNCHANGED <<ext, disk, tree, file>>

List ==
    /\ op.kind = "list" /\ op.at = "items"
    /\ Answer("ok", [i \in 1..op.meta |-> <<i, "listed">>])
    /\ UNCHANGED <<ext, disk, tree, file>>

-----------------------------------------------------------------------------
(* 7z.dll reads one item after the other.  The callback is asked for a stream     *)
(* (GetStream), gets the data and then the result of the item                     *)
(* (SetOperationResult).  The memory a scan or a viewer gives is capped: the       *)
(* stream fails at the byte after the last one allowed.                           *)

Told(it, ok(_)) == \A size \in it.told : ok(size)
Admits(it) == Told(it, LAMBDA size : size < Cap)        \* scan_admits
Bursts(it) == op.kind \in {"scan", "mem"} /\ it.size > Cap
Recorded(status) == Append(op.out, <<op.i, status>>)

GetStream ==
    /\ op.kind \in {"test", "report", "scan"} /\ op.by = "sevenzip"
    /\ op.at = "items" /\ op.i <= Count
    /\ LET known == op.kind = "test" \/ op.i <= op.meta
           scan  == op.kind = "scan"
       IN  \/ cancel /\ Step([at |-> "close", hr |-> FALSE, aborted |-> TRUE])
           \/ /\ ~cancel /\ (~known \/ (scan /\ Cur.dir))
              /\ Step([i |-> op.i + 1])
           \/ /\ ~cancel /\ known /\ scan /\ ~Cur.dir /\ ~Admits(Cur)
              /\ Step([i |-> op.i + 1, out |-> Recorded("skipped")])
           \/ /\ ~cancel /\ known /\ (scan => ~Cur.dir /\ Admits(Cur))
              /\ Step([at |-> "data"])
    /\ UNCHANGED <<ext, disk, tree, file>>

(* Results 7z.dll gives for an item. *)
Outcomes(it) == IF it.dir THEN {0}
                ELSE IF ~Right THEN {2, 9}
                ELSE IF Bursts(it) THEN {2}
                ELSE IF it.sound THEN {0} ELSE {1, 3}

Status(result) == IF op.kind = "report" THEN (IF result = 0 THEN "ok" ELSE "bad")
                  ELSE IF result = 0 THEN "scanned" ELSE "error"

SetOperationResult ==
    /\ op.kind \in ReadKinds /\ op.at = "data" /\ op.by = "sevenzip"
    /\ \E result \in Outcomes(Cur) :
          Step([opResult |-> IF result = 0 THEN op.opResult ELSE result,
                asked |-> op.asked \/ (Arc.lock # "none" /\ ~Cur.dir),
                i |-> op.i + 1,
                at |-> IF op.kind \in EntryKinds THEN "close" ELSE "items",
                staged |-> IF op.staged = "temp" /\ result = 0 THEN "ready" ELSE op.staged,
                out |-> IF op.kind \in {"report", "scan"}
                        THEN Recorded(Status(result)) ELSE op.out])
    /\ UNCHANGED <<ext, disk, tree, file>>

(* The call fails without a result for the item: an archive that ends early, a    *)
(* stream that fails, no password given.                                          *)
EngineFails ==
    /\ op.kind \in ReadKinds /\ op.by = "sevenzip"
    /\ op.at = "data" \/ (op.at = "items" /\ op.i <= Count /\ op.kind \notin EntryKinds)
    /\ Step([at |-> "close", hr |-> FALSE, asked |-> op.asked \/ (op.at = "data" /\ ~Right)])
    /\ UNCHANGED <<ext, disk, tree, file>>

(* 7z.dll goes on without asking for a stream of the item, or without a result of *)
(* the one it asked for; its call may succeed all the same, which is what         *)
(* finish_test_report and do_scan_report count the items for.                     *)
PassOver ==
    /\ op.kind \in ReadKinds /\ op.by = "sevenzip"
    /\ op.at = "data" \/ (op.at = "items" /\ op.i <= Count /\ op.kind \notin EntryKinds)
    /\ Step([i |-> op.i + 1, passed |-> op.passed \cup {op.i},
             at |-> IF op.kind \in EntryKinds THEN "close" ELSE "items"])
    /\ UNCHANGED <<ext, disk, tree, file>>

Closing == /\ op.kind # "idle" /\ op.by = "sevenzip"
           /\ op.at = "close" \/ (op.at = "items" /\ op.i > Count)

(* do_test *)
CloseTest ==
    /\ Closing /\ op.kind = "test"
    /\ IF op.opResult # 0 THEN Fail(Fault(op.opResult, op.asked))
       ELSE Fail(IF op.hr THEN "ok" ELSE "corrupt")
    /\ UNCHANGED <<ext, disk, tree, file>>

(* do_test_report, finish_test_report *)
CloseReport ==
    /\ Closing /\ op.kind = "report"
    /\ IF op.aborted THEN Fail("canceled")
       ELSE IF op.asked /\ op.opResult # 0 THEN Fail(Fault(op.opResult, TRUE))
       ELSE IF op.asked /\ ~op.hr THEN Fail(OpenFault(TRUE))
       ELSE IF ~op.hr \/ Len(op.out) < op.meta THEN Fail("corrupt")
       ELSE Answer("ok", op.out)
    /\ UNCHANGED <<ext, disk, tree, file>>

(* do_scan_report: an item without a result is an error, and so is the archive.   *)
Seen == {op.out[k][1] : k \in DOMAIN op.out}
Unseen == {i \in 1..op.meta : ~Arc.items[i].dir} \ Seen
\* Mutant of ScanReport: only the items 7z.dll gave a result for are reported.
ScanReportSilent == Answer("ok", op.out)
ScanReport ==
    LET listed == op.out \o [k \in 1..Cardinality(Unseen) |-> <<SetToSeq(Unseen)[k], "error">>]
        broken == ~op.hr \/ op.opResult # 0
        ending == (IF broken THEN <<<<0, "error">>>> ELSE <<>>)
                    \o (IF op.unread THEN <<<<0, "error">>>> ELSE <<>>)
    IN  IF broken /\ listed = <<>> THEN Fail("corrupt") ELSE Answer("ok", listed \o ending)
CloseScan ==
    /\ Closing /\ op.kind = "scan"
    /\ IF op.aborted THEN Fail("canceled")
       ELSE IF op.asked /\ op.opResult # 0 THEN Fail(Fault(op.opResult, TRUE))
       ELSE IF op.asked /\ ~op.hr THEN Fail(OpenFault(TRUE))
       ELSE ScanReport
    /\ UNCHANGED <<ext, disk, tree, file>>

(* Looking for the entry: index_of, find_item, position.  For a file the          *)
(* temporary file beside it is created, which may fail.                           *)
Wanted == {i \in 1..op.meta : ~Arc.items[i].dir /\ Arc.items[i].name = op.want}
FindEntry ==
    /\ op.kind \in EntryKinds /\ op.at = "items"
    /\ \/ Wanted = {} /\ Fail("not_found")
       \/ /\ Wanted # {}
          /\ Step([at |-> "data", i |-> Min(Wanted),
                   staged |-> IF op.kind = "file" THEN "temp" ELSE "none"])
       \/ /\ Wanted # {} /\ op.kind = "file"
          /\ Fail(IF op.by = "sevenzip" THEN "read_error" ELSE "io_error")
    /\ UNCHANGED <<ext, disk, tree, file>>

(* The staged file replaces the one in place, or cannot.  settle_pending keeps a  *)
(* file shorter than its archive claims from taking the place of the old one, and *)
(* drops one nobody has called good without a word.                               *)
Place(code) == \/ file' = "whole" /\ Fail("ok")
               \/ UNCHANGED file /\ Fail(code)
Kept == UNCHANGED file
\* Mutant of Short: the length of the file is not compared.
ShortNever(it) == FALSE
Short(it) == ~Told(it, LAMBDA size : it.size >= size)
CloseEntry ==
    /\ Closing /\ op.kind \in EntryKinds
    /\ LET it == Arc.items[op.i - 1]
       IN  IF op.opResult # 0 THEN Fail(Fault(op.opResult, op.asked)) /\ Kept
           ELSE IF ~op.hr THEN Fail("read_error") /\ Kept
           ELSE IF op.kind # "file" \/ op.staged = "temp" THEN Fail("ok") /\ Kept
           ELSE IF Short(it) THEN Fail("output_error") /\ Kept
           ELSE Place("output_error")
    /\ UNCHANGED <<ext, disk, tree>>

-----------------------------------------------------------------------------
(* unzip and unegg read the items themselves.  A wrong password passes the check  *)
(* byte of an item now and then; the checksum then finds the data wrong.          *)

Rust(kinds) == op.kind \in kinds /\ op.by \in {"unzip", "unegg"}
Guessed == ~Right /\ op.pass = "wrong"

ZipItem ==
    /\ Rust({"test", "report", "scan"}) /\ op.by = "unzip" /\ op.at = "items" /\ op.i <= Count
    /\ LET scan == op.kind = "scan"
           next(status) == Step([i |-> op.i + 1, out |-> Recorded(status)])
       IN  \/ cancel /\ Fail("canceled")
           \/ ~cancel /\ Fail("corrupt")                     \* its header cannot be read
           \/ ~cancel /\ Cur.dir /\ scan /\ Step([i |-> op.i + 1])
           \/ ~cancel /\ Cur.dir /\ ~scan /\ next("ok")
           \/ /\ ~cancel /\ ~Cur.dir /\ scan /\ ~Admits(Cur)
              /\ next("skipped")
           \/ /\ ~cancel /\ ~Cur.dir /\ (scan => Admits(Cur))
              /\ \/ ~Right /\ Fail(PasswordFault)
                 \/ Guessed /\ next(IF scan THEN "error" ELSE "bad")
                 \/ /\ Right
                    /\ next(IF scan THEN (IF Cur.sound /\ ~Bursts(Cur) THEN "scanned" ELSE "error")
                            ELSE IF Cur.sound THEN "ok" ELSE "bad")
    /\ UNCHANGED <<ext, disk, tree, file>>

ZipEnd ==
    /\ Rust({"test", "report", "scan"}) /\ op.by = "unzip" /\ op.at = "items" /\ op.i > Count
    /\ IF op.kind = "test"
       THEN Fail(IF \E k \in DOMAIN op.out : op.out[k][2] = "bad" THEN "corrupt" ELSE "ok")
       ELSE Answer("ok", op.out)
    /\ UNCHANGED <<ext, disk, tree, file>>

(* test of unegg ends with the first item that is not right; its report is the    *)
(* default one: the test and an empty list.                                       *)
EggItem ==
    /\ Rust({"test", "report"}) /\ op.by = "unegg" /\ op.at = "items"
    /\ \/ op.i > Count /\ Fail("ok")
       \/ op.i <= Count /\ Cur.dir /\ Step([i |-> op.i + 1])
       \/ op.i <= Count /\ ~Cur.dir /\ ~Right /\ Fail(PasswordFault)
       \/ op.i <= Count /\ ~Cur.dir /\ Right /\ ~Cur.sound /\ Fail("corrupt")
       \/ op.i <= Count /\ ~Cur.dir /\ Right /\ Cur.sound /\ Step([i |-> op.i + 1])
    /\ UNCHANGED <<ext, disk, tree, file>>

(* One entry: only unegg compares a file's length with the one the archive claims. *)
RustEntry ==
    /\ Rust(EntryKinds) /\ op.at = "data"
    /\ \/ ~Right /\ Fail(PasswordFault) /\ Kept
       \/ op.by = "unzip" /\ Guessed /\ Fail("corrupt") /\ Kept
       \/ Right /\ (Bursts(Cur) \/ ~Cur.sound) /\ Kept
          /\ Fail(IF Bursts(Cur) /\ op.by = "unzip" THEN "too_large" ELSE "corrupt")
       \/ /\ Right /\ Cur.sound /\ ~Bursts(Cur)
          /\ IF op.kind # "file" THEN Fail("ok") /\ Kept
             ELSE IF op.by = "unegg" /\ Cur.told # {Cur.size} THEN Fail("corrupt") /\ Kept
             ELSE Place("output_error")
    /\ UNCHANGED <<ext, disk, tree>>

-----------------------------------------------------------------------------
(* Creation and editing write a temporary file and rename it over the archive.    *)

Fresh(path) == Item(path, tree[path] = "dir", 1, {1}, "new", TRUE)
Plans(kept) ==
    LET found == SetToSeq(Found(op.add))
    IN  [k \in DOMAIN kept |-> [keep |-> TRUE, item |-> kept[k]]]
          \o [k \in DOMAIN found |-> [keep |-> FALSE, item |-> Fresh(found[k])]]
\* Mutant of Replaced: a new item does not push out the one of its name.
ReplacedNot(it) == Under(it.name, op.drop)
Replaced(it) == Under(it.name, op.drop) \/ it.name \in Found(op.add)

(* do_create of both: nothing to do, no place for the file, or the first item.     *)
(* For a zip the rest is what module Pipeline promises.                            *)
StartCreate ==
    /\ op.kind = "create" /\ op.at = "open"
    /\ \/ Found(op.add) = {} /\ Fail("no_input")
       \/ Found(op.add) # {} /\ Fail("output_error")
       \/ /\ Found(op.add) # {}
          /\ Step([at |-> "write", plan |-> Plans(<<>>), short |-> Skipped(op.add) # {}])
    /\ UNCHANGED <<ext, disk, tree, file>>

(* do_edit of both: what is neither taken out nor replaced is kept, in order.     *)
StartEdit ==
    /\ op.kind = "edit" /\ op.at = "items"
    /\ \/ Fail("output_error")
       \/ Step([at |-> "write", short |-> Skipped(op.add) # {},
                plan |-> Plans(SelectSeq(SubSeq(Arc.items, 1, op.meta),
                                         LAMBDA it : ~Replaced(it)))])
    /\ UNCHANGED <<ext, disk, tree, file>>

Writing == op.kind \in {"edit", "create"} /\ op.at = "write"
Entry == op.plan[op.i]
Gone(path) == tree[path] \notin {"file", "dir"}

(* GetUpdateItemInfo and UpdateCb::GetStream, or the loops of the zip edit.       *)
WriteItem ==
    /\ Writing /\ op.i <= Len(op.plan)
    /\ \/ cancel /\ Fail("canceled")
       \/ ~cancel /\ Fail("engine_error")
       \/ /\ ~cancel /\ ~Entry.keep /\ Gone(Entry.item.name)
          /\ Fail(IF op.by = "unzip" THEN "io_error" ELSE Fault(2, op.pass # "none"))
       \/ /\ ~cancel /\ (Entry.keep \/ ~Gone(Entry.item.name))
          /\ Step([i |-> op.i + 1, made |-> Append(op.made, Entry.item)])
    /\ UNCHANGED <<ext, disk, tree, file>>

(* The disk does not always keep what is written to it. *)
WornItem ==
    /\ Writing /\ op.i <= Len(op.plan)
    /\ ~cancel /\ ~Entry.keep /\ tree[Entry.item.name] = "file"
    /\ Step([i |-> op.i + 1, made |-> Append(op.made, [Entry.item EXCEPT !.sound = FALSE])])
    /\ UNCHANGED <<ext, disk, tree, file>>

(* An input disappears, or another file appears, while the archive is written. *)
SourceMoves ==
    /\ Writing
    /\ \E p \in DOMAIN tree :
          \/ tree[p] = "file" /\ tree' = [tree EXCEPT ![p] = "gone"]
          \/ tree[p] = "soon" /\ tree' = [tree EXCEPT ![p] = "late"]
    /\ UNCHANGED <<ext, disk, op, cancel, file, answer>>

(* CreateSink::commit, TmpPath::commit.  A split output of one volume takes the   *)
(* plain name, unless volumes of an older set are there; a set of several leaves  *)
(* a file of the plain name where it is.                                          *)
Made == Archive(IF op.pass = "none" THEN "none" ELSE "data", FALSE, op.made)
Rest == IF op.kind = "edit" THEN [Made EXCEPT !.lock = Arc.lock, !.odd = Arc.odd] ELSE Made
\* Mutant of Done: inputs that were left out are forgotten.
DoneAlways == "ok"
Done == IF op.short THEN "warning" ELSE "ok"
Put(part) ==
    /\ disk' = [disk EXCEPT ![op.where[1]][part] = Rest]
    /\ Fail(Done)
Commit ==
    /\ Writing /\ op.i > Len(op.plan)
    /\ \/ Fail("output_error") /\ UNCHANGED disk
       \/ ~op.volume /\ Put("one")
       \/ op.volume /\ disk[op.where[1]].set = NoArchive /\ Put("one")
       \/ op.volume /\ disk[op.where[1]].set # NoArchive /\ Fail("stale_volume") /\ UNCHANGED disk
       \/ op.volume /\ Put("set")
    /\ UNCHANGED <<ext, tree, file>>

BackendStep ==
    \/ OpenZip \/ OpenEgg \/ Open7z \/ Count7z \/ List
    \/ GetStream \/ SetOperationResult \/ EngineFails \/ PassOver
    \/ CloseTest \/ CloseReport \/ CloseScan \/ FindEntry \/ CloseEntry
    \/ ZipItem \/ ZipEnd \/ EggItem \/ RustEntry
    \/ StartCreate \/ StartEdit \/ WriteItem \/ WornItem \/ SourceMoves \/ Commit
=============================================================================
