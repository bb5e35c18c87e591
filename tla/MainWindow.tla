----------------------------- MODULE MainWindow -----------------------------
(***************************************************************************)
(* The window that shows an archive (stores.js): opening, the password     *)
(* dialog that four flows share, the dialogs of the integrity test and of  *)
(* the virus scan, adding and removing of files, opening of one item and   *)
(* deletion of the archive, together with the commands they call           *)
(* (commands.rs).  A command answers by its own channel; what is emitted   *)
(* (job:started, job:done, job:error, the reports) arrives in the order it *)
(* was emitted, but in no order to the answers.  Other windows start jobs  *)
(* too and their events are heard here.                                    *)
(***************************************************************************)
EXTENDS Integers, Sequences, FiniteSets

CONSTANTS
    Archives,    \* the archives the user opens
    Startup,     \* the one the window was opened with
    Kinds,       \* the dialogs that show a report: {"test", "scan"} or one of them
    MaxActs,     \* bound on what the user does
    MaxStarts,   \* bound on the jobs
    ForeignKinds \* the kinds of jobs other windows start

ASSUME WindowAssumption ==
    /\ Startup \in Archives /\ Kinds \subseteq {"test", "scan"}
    /\ MaxActs \in Nat /\ MaxStarts \in Nat
    /\ ForeignKinds \subseteq Kinds \cup {"edit"}
    /\ <<>> \notin Archives

Nothing == <<>>
NoJob   == [id |-> 0]
NoList  == [arc |-> Nothing, ver |-> 0]

VARIABLES
    path,     \* archivePath
    list,     \* entries: of which archive, in which version
    pw,       \* passwordState: [open, mode]
    pend,     \* pendingPasswordPath, pendingTestArchive, pendingScanArchive, pendingEntryPath
    dlg,      \* testState, scanState: [phase, shown], "closed" is open = false; the
              \* archive it was opened for is in `of`
    known,    \* testJobId, scanJobId; 0 for null
    awaiting, \* testAwaiting, scanAwaiting
    activeJob, \* 0 for null
    editId,   \* editJobId, 0 for null
    ext,      \* externalJobIds
    calls,    \* the calls and dialogs whose answer is awaited
    job,      \* the registered job, NoJob if there is none
    jobs,     \* the number of jobs so far
    events,   \* what was emitted and has not arrived
    silent,   \* the jobs of which no end is emitted: their thread has panicked
    ver,      \* the version of each archive file
    gone,     \* the archives that have been deleted
    acts,     \* what the user has done
    asker,    \* the archive whose answer opened the password dialog
    lapses    \* what went by unnoticed: the exceptions the properties name

shown == <<path, list>>
asking == <<pw, pend, asker>>
dialogs == <<dlg, known, awaiting>>
editing == <<activeJob, editId>>
backend == <<job, jobs, events, silent, ver, gone>>
windowVars == <<shown, asking, dialogs, editing, ext, calls, backend, acts, lapses>>

Modes == Kinds \cup {"open", "entry"}

Closed     == [phase |-> "closed", of |-> Nothing, shown |-> Nothing]
Running(a) == [phase |-> "running", of |-> a, shown |-> Nothing]

WindowTypeOK ==
    /\ path \in Archives \cup {Nothing}
    /\ list.arc \in Archives \cup {Nothing} /\ path # Nothing => list # NoList
    /\ pw.open \in BOOLEAN /\ pw.mode \in Modes
    /\ pend \in [Modes -> Archives \cup {Nothing}]
    /\ \A k \in Kinds : /\ dlg[k].phase \in {"closed", "running", "done", "failed"}
                        /\ known[k] \in 0..jobs /\ awaiting[k] \in BOOLEAN
    /\ activeJob \in 0..jobs /\ editId \in 0..jobs /\ ext \subseteq 1..jobs
    /\ jobs \in 0..MaxStarts /\ silent \subseteq 1..jobs /\ acts \in 0..MaxActs
    /\ job # NoJob => job.id = jobs
    /\ gone \subseteq Archives
    /\ lapses \subseteq {"overtaken", "early", "unread", "blind", "left", "late", "behind"}

WindowInit ==
    /\ path = Startup /\ list = [arc |-> Startup, ver |-> 0]
    /\ pw = [open |-> FALSE, mode |-> "open"] /\ pend = [m \in Modes |-> Nothing]
    /\ asker = Nothing
    /\ dlg = [k \in Kinds |-> Closed]
    /\ known = [k \in Kinds |-> 0] /\ awaiting = [k \in Kinds |-> FALSE]
    /\ activeJob = 0 /\ editId = 0 /\ ext = {}
    /\ calls = {} /\ job = NoJob /\ jobs = 0 /\ events = <<>> /\ silent = {}
    /\ ver = [a \in Archives |-> 0] /\ gone = {}
    /\ acts = 0 /\ lapses = {}

-----------------------------------------------------------------------------
(* Calls.                                                                   *)

\* They are told apart by a number.
Call(op, arc) ==
    [op |-> op, arc |-> arc, pw |-> FALSE, answer |-> "none", id |-> 0, ver |-> 0,
     no |-> CHOOSE n \in 0..MaxActs + MaxStarts : n \notin {c.no : c \in calls}]

\* The user acts, within the bound.
Act == acts < MaxActs /\ acts' = acts + 1

Send(c) == calls' = calls \cup {c}
Reply(c, answer) == calls' = (calls \ {c}) \cup {[c EXCEPT !.answer = answer]}
Received(c, ops, answer) ==
    c \in calls /\ c.op \in ops /\ c.answer = answer /\ calls' = calls \ {c}

\* A refusal reads nothing that changes: it is decided when it arrives.
Refusal(c, ops) == Received(c, ops, "none")

Lapse(name, happened) == lapses' = lapses \cup IF happened THEN {name} ELSE {}

ClosePw == pw' = [open |-> FALSE, mode |-> "open"] /\ asker' = Nothing
OpenPw(mode, arc) == pw' = [open |-> TRUE, mode |-> mode] /\ asker' = arc

\* The password dialog goes while it asks for a test or a scan, whose dialog
\* stays as it is.
LeftOpen == pw.open /\ pw.mode \in Kinds /\ dlg[pw.mode].phase = "running"

-----------------------------------------------------------------------------
(* Opening.                                                                 *)

\* Mutant of OpenDroppedPaths: the path is shown before the list has come.
OpenDroppedPathsAtOnce(a) ==
    /\ Act /\ activeJob = 0
    /\ Send(Call("open", a))
    /\ path' = a
    /\ UNCHANGED <<list, asking, dialogs, editing, ext, backend, lapses>>

\* openDroppedPaths with one archive.
OpenDroppedPaths(a) ==
    /\ Act /\ activeJob = 0
    /\ Send(Call("open", a))
    /\ UNCHANGED <<shown, asking, dialogs, editing, ext, backend, lapses>>

\* The command open_archive, where it succeeds.
ListArchive(c) ==
    /\ c \in calls /\ c.op \in {"open", "reload"} /\ c.answer = "none"
    /\ c.arc \notin gone
    /\ calls' = (calls \ {c}) \cup {[c EXCEPT !.answer = "ok", !.ver = ver[c.arc]]}
    /\ UNCHANGED <<shown, asking, dialogs, editing, ext, backend, acts, lapses>>

\* Mutant of Opened: the password dialog of another flow stays.
OpenedKeepsDialog(c) ==
    /\ Received(c, {"open"}, "ok")
    /\ path' = c.arc /\ list' = [arc |-> c.arc, ver |-> c.ver]
    /\ pend' = [pend EXCEPT !["open"] = Nothing]
    /\ UNCHANGED <<pw, asker, dialogs, editing, ext, backend, acts, lapses>>

\* openArchiveByPath after the answer: the list and the path together, and the
\* password dialog closes whoever has opened it.
Opened(c) ==
    /\ Received(c, {"open"}, "ok")
    /\ path' = c.arc /\ list' = [arc |-> c.arc, ver |-> c.ver]
    /\ ClosePw /\ pend' = [pend EXCEPT !["open"] = Nothing]
    /\ Lapse("left", LeftOpen)
    /\ UNCHANGED <<dialogs, editing, ext, backend, acts>>

\* The first try asks for the password, the next says that it is wrong.
OpenAsks(c) ==
    /\ Refusal(c, {"open"})
    /\ OpenPw("open", c.arc)
    /\ pend' = IF c.pw THEN pend ELSE [pend EXCEPT !["open"] = c.arc]
    /\ lapses' = lapses \cup (IF LeftOpen THEN {"left"} ELSE {})
                        \cup (IF pend'["open"] # c.arc THEN {"late"} ELSE {})
    /\ UNCHANGED <<shown, dialogs, editing, ext, backend, acts>>

\* reloadEntries after the answer: what is opened by now is not looked at.
Reloaded(c) ==
    /\ Received(c, {"reload"}, "ok")
    /\ list' = [arc |-> c.arc, ver |-> c.ver]
    /\ Lapse("overtaken", path # c.arc)
    /\ UNCHANGED <<path, asking, dialogs, editing, ext, backend, acts>>

\* The list cannot be read: what is shown stays.
ListFails(c) ==
    /\ Refusal(c, {"open", "reload"})
    /\ Lapse("unread", c.op = "reload")
    /\ UNCHANGED <<shown, asking, dialogs, editing, ext, backend, acts>>

-----------------------------------------------------------------------------
(* The test and the scan.                                                   *)

\* runTestJob, runScanJob up to the await.
RunJob(k, a, withPw) ==
    /\ pend' = [pend EXCEPT ![k] = a]
    /\ known' = [known EXCEPT ![k] = 0] /\ awaiting' = [awaiting EXCEPT ![k] = TRUE]
    /\ dlg' = [dlg EXCEPT ![k] = Running(a)]
    /\ Send([Call(k, a) EXCEPT !.pw = withPw])

\* A call of the same kind is not answered yet.
Unanswered(k) == \E c \in calls : c.op = k

\* openTest, openScan.  They may be reached while the password dialog asks for
\* another archive of the same flow.
OpenTest(k) ==
    /\ Act /\ path # Nothing /\ activeJob = 0 /\ known[k] = 0
    /\ RunJob(k, path, FALSE)
    /\ lapses' = lapses \cup (IF Unanswered(k) THEN {"blind"} ELSE {})
                        \cup (IF pw.open /\ pw.mode = k /\ asker # path THEN {"behind"} ELSE {})
    /\ UNCHANGED <<shown, pw, asker, editing, ext, backend>>

\* start_test, start_scan, start_edit: one job at a time; the start is emitted
\* before the answer.
StartJob(c) ==
    /\ c \in calls /\ c.op \in Kinds \cup {"edit"} /\ c.answer = "none"
    /\ IF job = NoJob /\ jobs < MaxStarts
       THEN /\ jobs' = jobs + 1
            /\ job' = [id |-> jobs', kind |-> c.op, arc |-> c.arc, pw |-> c.pw,
                       own |-> TRUE, canceled |-> FALSE]
            /\ events' = Append(events, [ev |-> "started", id |-> jobs', kind |-> c.op])
            /\ calls' = (calls \ {c}) \cup {[c EXCEPT !.answer = "ok", !.id = jobs']}
       ELSE Reply(c, "refused") /\ UNCHANGED <<job, jobs, events>>
    /\ UNCHANGED <<shown, asking, dialogs, editing, ext, silent, ver, gone, acts, lapses>>

\* A job of another window, on an archive that is not opened here, with the
\* password or without it.
ForeignStart(kind) ==
    /\ job = NoJob /\ jobs < MaxStarts
    /\ jobs' = jobs + 1
    /\ \E withPw \in BOOLEAN :
         job' = [id |-> jobs', kind |-> kind, arc |-> Nothing, pw |-> withPw,
                 own |-> FALSE, canceled |-> FALSE]
    /\ events' = Append(events, [ev |-> "started", id |-> jobs', kind |-> kind])
    /\ UNCHANGED <<shown, asking, dialogs, editing, ext, calls, silent, ver, gone, acts, lapses>>

\* The answer: a job that has ended meanwhile is not brought back.
Started(c) ==
    /\ Received(c, Kinds, "ok")
    /\ IF awaiting[c.op]
       THEN /\ known' = [known EXCEPT ![c.op] = c.id]
            /\ awaiting' = [awaiting EXCEPT ![c.op] = FALSE]
       ELSE UNCHANGED <<known, awaiting>>
    /\ UNCHANGED <<shown, asking, dlg, editing, ext, backend, acts, lapses>>

\* The catch of runTestJob, runScanJob.
Refused(c) ==
    /\ Received(c, Kinds, "refused")
    /\ known' = [known EXCEPT ![c.op] = 0] /\ awaiting' = [awaiting EXCEPT ![c.op] = FALSE]
    /\ dlg' = [dlg EXCEPT ![c.op].phase = IF @ = "closed" THEN @ ELSE "failed"]
    /\ UNCHANGED <<shown, asking, editing, ext, backend, acts, lapses>>

\* closeTest, closeScan.
CloseTest(k) ==
    /\ Act /\ dlg[k].phase # "closed"
    /\ job' = IF job # NoJob /\ known[k] = job.id THEN [job EXCEPT !.canceled = TRUE] ELSE job
    /\ known' = [known EXCEPT ![k] = 0] /\ awaiting' = [awaiting EXCEPT ![k] = FALSE]
    /\ dlg' = [dlg EXCEPT ![k] = Closed]
    /\ Lapse("blind", awaiting[k] /\ known[k] = 0)
    /\ UNCHANGED <<shown, asking, editing, ext, calls, jobs, events, silent, ver, gone>>

-----------------------------------------------------------------------------
(* Adding and removing of files.                                            *)

CanEdit == path # Nothing /\ activeJob = 0 /\ editId = 0

\* addFilesToArchive up to the file dialog.
AddFilesToArchive ==
    /\ Act /\ CanEdit
    /\ Send(Call("pick", path))
    /\ UNCHANGED <<shown, asking, dialogs, editing, ext, backend, lapses>>

\* The files are picked: runEditJob on the archive from before; or none is.
Picked(c) ==
    /\ c \in calls /\ c.op = "pick"
    /\ calls' \in {calls \ {c}, (calls \ {c}) \cup {[c EXCEPT !.op = "edit"]}}
    /\ UNCHANGED <<shown, asking, dialogs, editing, ext, backend, acts, lapses>>

RemoveSelectedFromArchive ==
    /\ Act /\ CanEdit
    /\ Send(Call("edit", path))
    /\ UNCHANGED <<shown, asking, dialogs, editing, ext, backend, lapses>>

\* runEditJob after the answer: that of a second edit, a refusal too, takes the id of
\* the first away.
EditAnswered(c) ==
    /\ \E answer \in {"ok", "refused"} : Received(c, {"edit"}, answer)
    /\ editId' = IF c.answer = "ok" THEN c.id ELSE 0
    /\ Lapse("early", editId # 0)
    /\ UNCHANGED <<shown, asking, dialogs, activeJob, ext, backend, acts>>

\* cancelActiveJob.
CancelActiveJob ==
    /\ Act /\ activeJob # 0
    /\ job' = IF job # NoJob /\ job.id = activeJob THEN [job EXCEPT !.canceled = TRUE] ELSE job
    /\ UNCHANGED <<shown, asking, dialogs, editing, ext, calls, jobs, events, silent, ver, gone, lapses>>

-----------------------------------------------------------------------------
(* The job.                                                                 *)

Ends ==
    {"error"} \cup (IF job.canceled THEN {"canceled"} ELSE {})
              \cup (IF job.arc \in gone THEN {} ELSE {"ok"})
              \cup (IF job.kind \in Kinds /\ ~job.pw THEN {"password"} ELSE {})

\* The registration goes before the end is told; a complete edit has replaced
\* the archive.
JobEnds ==
    /\ job # NoJob
    /\ \E end \in Ends :
        LET ev == CASE end = "ok" /\ job.kind \in Kinds -> "report"
                    [] job.kind = "edit" /\ end \in {"ok", "canceled"} -> "done"
                    [] OTHER -> "error"
        IN  /\ events' = Append(events, [ev |-> ev, id |-> job.id, kind |-> job.kind,
                                         arc |-> job.arc, end |-> end])
            /\ ver' = IF end = "ok" /\ job.kind = "edit" /\ job.own
                      THEN [ver EXCEPT ![job.arc] = @ + 1] ELSE ver
    /\ job' = NoJob
    /\ UNCHANGED <<shown, asking, dialogs, editing, ext, calls, jobs, silent, gone, acts, lapses>>

\* The job's thread panics: the guard takes the registration back as it is
\* dropped, and no end is emitted.
JobPanics ==
    /\ job # NoJob
    /\ job' = NoJob /\ silent' = silent \cup {job.id}
    /\ UNCHANGED <<shown, asking, dialogs, editing, ext, calls, jobs, events, ver, gone,
                   acts, lapses>>

-----------------------------------------------------------------------------
(* What is heard (initJobEvents).                                           *)

Hear(ev) == events # <<>> /\ Head(events).ev = ev /\ events' = Tail(events)

\* job:started: a test or a scan is taken for one's own if one is awaited.
OnJobStarted ==
    /\ Hear("started")
    /\ LET s == Head(events) IN
        IF s.kind \in Kinds
        THEN /\ ext' = ext \cup {s.id}
             /\ known' = IF awaiting[s.kind] THEN [known EXCEPT ![s.kind] = s.id] ELSE known
             /\ Lapse("blind", awaiting[s.kind] /\
                  {c \in calls : c.op = s.kind /\ c.id = s.id} = {})
             /\ UNCHANGED activeJob
        ELSE /\ activeJob' = s.id
             /\ UNCHANGED <<ext, known, lapses>>
    /\ UNCHANGED <<shown, asking, dlg, awaiting, editId, calls, job, jobs, silent, ver, gone, acts>>

\* Mutant of OnJobDone: the list is read again when nothing has changed.
OnJobDoneSwapped ==
    /\ Hear("done")
    /\ LET d == Head(events)
           isEdit == d.id = editId
       IN  /\ activeJob' = 0
           /\ editId' = IF isEdit THEN 0 ELSE editId
           /\ IF isEdit /\ d.end = "canceled" /\ path # Nothing
              THEN Send(Call("reload", path)) ELSE calls' = calls
    /\ UNCHANGED <<shown, asking, dialogs, ext, job, jobs, silent, ver, gone, acts, lapses>>

\* job:done: only an edit has it here; a complete one of this window is
\* followed by reloadEntries, up to its await.
OnJobDone ==
    /\ Hear("done")
    /\ LET d == Head(events)
           isEdit == d.id = editId
       IN  /\ activeJob' = 0
           /\ editId' = IF isEdit THEN 0 ELSE editId
           /\ IF isEdit /\ d.end # "canceled" /\ path # Nothing
              THEN Send(Call("reload", path)) ELSE calls' = calls
           /\ lapses' = lapses
                \cup (IF ~isEdit /\ \E c \in calls : c.op = "edit" /\ c.id = d.id
                      THEN {"early"} ELSE {})
                \cup (IF isEdit /\ \E c \in calls : /\ c.op \in {"open", "reload"} /\ c.arc = d.arc
                                                  /\ c.answer = "ok" /\ c.ver < ver[c.arc]
                      THEN {"overtaken"} ELSE {})
    /\ UNCHANGED <<shown, asking, dialogs, ext, job, jobs, silent, ver, gone, acts>>

\* handleTestError, handleScanError: a password is asked for, or the dialog says
\* what happened.
HandleTestError(k, e) ==
    /\ ext' = ext \ {e.id}
    /\ known' = [known EXCEPT ![k] = 0] /\ awaiting' = [awaiting EXCEPT ![k] = FALSE]
    /\ IF e.end = "password"
       THEN OpenPw(k, e.arc) /\ Lapse("left", LeftOpen /\ pw.mode # k) /\ UNCHANGED dlg
       ELSE dlg' = [dlg EXCEPT ![k].phase = "failed"] /\ UNCHANGED <<pw, asker, lapses>>
    /\ UNCHANGED <<activeJob>>

\* Mutant of OnJobError: what belongs to another window is looked at first.
OnJobErrorForeign ==
    /\ Hear("error")
    /\ LET e == Head(events) IN
        /\ ext' = ext \ {e.id}
        /\ activeJob' = IF e.id \in ext THEN activeJob ELSE 0
    /\ UNCHANGED <<shown, asking, dialogs, editId, calls, job, jobs, silent, ver, gone, acts, lapses>>

OnJobError ==
    /\ Hear("error")
    /\ LET e == Head(events)
           mine == {k \in Kinds : known[k] = e.id}
       IN  IF mine # {} THEN \E k \in mine : HandleTestError(k, e)
           ELSE /\ ext' = ext \ {e.id}
                /\ activeJob' = IF e.id \in ext THEN activeJob ELSE 0
                /\ UNCHANGED <<pw, asker, dialogs, lapses>>
    /\ UNCHANGED <<shown, pend, editId, calls, job, jobs, silent, ver, gone, acts>>

\* Mutant of OnReport: a report is taken whichever job it is of.
OnReportAny ==
    /\ Hear("report")
    /\ LET r == Head(events) IN
        /\ ext' = ext \ {r.id}
        /\ known' = [known EXCEPT ![r.kind] = 0]
        /\ awaiting' = [awaiting EXCEPT ![r.kind] = FALSE]
        /\ dlg' = [dlg EXCEPT ![r.kind].phase = "done", ![r.kind].shown = r.arc]
    /\ UNCHANGED <<shown, asking, editing, calls, job, jobs, silent, ver, gone, acts, lapses>>

\* test:report, scan:report.
OnReport ==
    /\ Hear("report")
    /\ LET r == Head(events) IN
        IF known[r.kind] = r.id
        THEN /\ ext' = ext \ {r.id}
             /\ known' = [known EXCEPT ![r.kind] = 0]
             /\ awaiting' = [awaiting EXCEPT ![r.kind] = FALSE]
             /\ dlg' = [dlg EXCEPT ![r.kind].phase = "done", ![r.kind].shown = r.arc]
        ELSE UNCHANGED <<ext, dialogs>>
    /\ UNCHANGED <<shown, asking, editing, calls, job, jobs, silent, ver, gone, acts, lapses>>

-----------------------------------------------------------------------------
(* One item, the password, the deletion.                                    *)

\* openInnerEntry up to the await.
OpenInnerEntry ==
    /\ Act /\ path # Nothing
    /\ Send(Call("entry", path))
    /\ UNCHANGED <<shown, asking, dialogs, editing, ext, backend, lapses>>

\* openInnerEntry after the answer of open_entry.
EntryOpened(c) ==
    /\ Received(c, {"entry"}, "none")
    /\ IF pw.mode = "entry"
       THEN ClosePw /\ pend' = [pend EXCEPT !["entry"] = Nothing]
       ELSE UNCHANGED asking
    /\ UNCHANGED <<shown, dialogs, editing, ext, backend, acts, lapses>>

EntryAsks(c) ==
    /\ Received(c, {"entry"}, "none")
    /\ OpenPw("entry", c.arc) /\ pend' = [pend EXCEPT !["entry"] = c.arc]
    /\ lapses' = lapses \cup (IF LeftOpen THEN {"left"} ELSE {})
                        \cup (IF path # c.arc THEN {"late"} ELSE {})
    /\ UNCHANGED <<shown, dialogs, editing, ext, backend, acts>>

\* submitPassword: the flow that is asking goes on.  An item is opened from the
\* archive that is shown now.
SubmitPassword ==
    /\ Act /\ pw.open /\ pend[pw.mode] # Nothing
    /\ CASE pw.mode \in Kinds ->
               /\ ClosePw /\ RunJob(pw.mode, pend[pw.mode], TRUE)
               /\ Lapse("blind", Unanswered(pw.mode))
         [] pw.mode = "entry" ->
               /\ calls' = IF path = Nothing THEN calls
                           ELSE calls \cup {[Call("entry", path) EXCEPT !.pw = TRUE]}
               /\ UNCHANGED <<asking, dialogs, lapses>>
         [] pw.mode = "open" ->
               /\ Send([Call("open", pend["open"]) EXCEPT !.pw = TRUE])
               /\ UNCHANGED <<asking, dialogs, lapses>>
    /\ UNCHANGED <<shown, editing, ext, backend>>

CancelPassword ==
    /\ Act /\ pw.open
    /\ ClosePw /\ pend' = [m \in Modes |-> Nothing]
    /\ Lapse("left", LeftOpen)
    /\ UNCHANGED <<shown, dialogs, editing, ext, calls, backend>>

\* deleteCurrentArchive up to the question.
DeleteCurrentArchive ==
    /\ Act /\ path # Nothing /\ activeJob = 0
    /\ Send(Call("confirm", path))
    /\ UNCHANGED <<shown, asking, dialogs, editing, ext, backend, lapses>>

\* Mutant of Confirmed: the list goes, the path stays.
ConfirmedListOnly(c) ==
    /\ Received(c, {"confirm"}, "none")
    /\ \/ UNCHANGED <<shown, gone>>
       \/ /\ c.arc \notin gone /\ gone' = gone \cup {c.arc}
          /\ list' = NoList /\ UNCHANGED path
    /\ UNCHANGED <<asking, dialogs, editing, ext, job, jobs, events, silent, ver, acts, lapses>>

\* The answer to the question; delete_file may fail.  The window is empty again.
Confirmed(c) ==
    /\ Received(c, {"confirm"}, "none")
    /\ \/ UNCHANGED <<shown, gone>>
       \/ /\ c.arc \notin gone /\ gone' = gone \cup {c.arc}
          /\ path' = Nothing /\ list' = NoList
    /\ UNCHANGED <<asking, dialogs, editing, ext, job, jobs, events, silent, ver, acts, lapses>>

-----------------------------------------------------------------------------
User ==
    \/ \E a \in Archives : OpenDroppedPaths(a)
    \/ \E k \in Kinds : OpenTest(k) \/ CloseTest(k)
    \/ AddFilesToArchive \/ RemoveSelectedFromArchive \/ CancelActiveJob
    \/ OpenInnerEntry \/ SubmitPassword \/ CancelPassword \/ DeleteCurrentArchive

Program ==
    \/ \E c \in calls :
        \/ ListArchive(c) \/ Opened(c) \/ OpenAsks(c) \/ Reloaded(c) \/ ListFails(c)
        \/ StartJob(c) \/ Started(c) \/ Refused(c) \/ Picked(c) \/ EditAnswered(c)
        \/ EntryOpened(c) \/ EntryAsks(c) \/ Confirmed(c)
    \/ JobEnds \/ JobPanics \/ OnJobStarted \/ OnJobDone \/ OnJobError \/ OnReport

WindowNext == Program \/ User \/ \E kind \in ForeignKinds : ForeignStart(kind)

WindowSpec == WindowInit /\ [][WindowNext]_windowVars

-----------------------------------------------------------------------------
(* Properties.                                                              *)

\* Nothing is on its way any more.
Quiet == calls = {} /\ job = NoJob /\ events = <<>>

\* The list belongs to the archive the window says it shows, unless an archive
\* was opened while the list was read again.
ListIsShown == list.arc = path \/ "overtaken" \in lapses

\* A list that is read again after an edit is that of the archive that is
\* shown.  An archive that is opened meanwhile gets the list of the edited one.
ListAlwaysShown == Quiet /\ path # Nothing => list.arc = path

\* The report in the dialog is that of the archive the dialog was opened for,
\* unless it was closed before the id of its job was known, or another window's
\* start was taken for its own.
ReportIsOwn ==
    \A k \in Kinds : dlg[k].phase = "done" => dlg[k].shown = dlg[k].of \/ "blind" \in lapses

\* The id that is awaited is that of the job the dialog was opened for.  A start
\* of another window, or of a dialog that was closed, is taken for it.
ReportAlwaysOwn == \A k \in Kinds : dlg[k].phase = "done" => dlg[k].shown = dlg[k].of

\* A password is tried on the archive whose job or answer has asked for it,
\* unless an answer came late, another archive was tested behind the dialog, or
\* another window's start was taken for its own.
PasswordForAsker ==
    [][\A c \in calls' \ calls : c.pw /\ c.answer = "none" =>
         c.arc = asker \/ lapses \cap {"late", "behind", "blind"} # {}]_windowVars

\* submitPassword tries again what has asked for the password.  What opens behind
\* the dialog or answers late takes the password for itself.
AskerAlways ==
    [][\A c \in calls' \ calls : c.pw /\ c.answer = "none" => c.arc = asker]_windowVars

\* What an edit of this window has changed is shown in the end, unless its end
\* came before its id, or the list could not be read again.
NewListShown ==
    Quiet /\ path # Nothing =>
        list.ver = ver[path] \/ lapses \cap {"early", "unread", "overtaken"} # {}

\* The list is that of the archive that is shown, and in the end the latest one.
ListRight == WindowTypeOK /\ ListIsShown /\ NewListShown

\* A dialog that runs has come to its end or asks for the password, and the
\* panel of the running job is gone, unless the job they follow has panicked.
DialogSettles ==
    Quiet => /\ activeJob = 0 \/ activeJob \in silent
             /\ \A k \in Kinds :
                    dlg[k].phase = "running" =>
                        \/ pw.open /\ pw.mode = k
                        \/ known[k] \in silent
                        \/ lapses \cap {"left", "blind"} # {}

\* What start_test and start_scan promise: the progress, then the report or the
\* error.  After a panic in the engine neither comes and the dialog runs for ever.
PanicIsHeard ==
    Quiet => \A k \in Kinds :
                 dlg[k].phase = "running" =>
                     \/ pw.open /\ pw.mode = k
                     \/ lapses \cap {"left", "blind"} # {}

\* editJobId is that of an edit in progress.  When the end is heard before the
\* answer that names the job, when the edit fails or panics, it stays, and no
\* further edit can be asked for.
EditIdClears == Quiet => editId = 0

\* Closing the dialog cancels its job.  Where the job's id is not known yet, the
\* job goes on.
CloseCancels ==
    job # NoJob /\ job.own /\ job.kind \in Kinds /\ dlg[job.kind].phase = "closed" =>
        job.canceled
=============================================================================
