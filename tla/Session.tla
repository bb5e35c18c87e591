------------------------------ MODULE Session ------------------------------
(***************************************************************************)
(* What the windows that show archives share in one process (commands.rs,  *)
(* shelldrag.rs, App.svelte): the place of the archive the main window     *)
(* opens first, the places of those of the viewer windows, the record of   *)
(* which window has opened which archive, the password of the session and  *)
(* the items unpacked into the temporary folder, which opening and drag    *)
(* out use again.  Each archive has one item, which may be an archive.     *)
(***************************************************************************)
EXTENDS Integers, Sequences, FiniteSets

CONSTANTS
    Archives,  \* the archives
    Locked,    \* those that need a password
    ItemOf,    \* the item of each: an archive or Plain
    Plain,     \* any other file
    Nothing,   \* no archive
    MaxViewers, MaxActs, MaxEdits  \* bounds: viewer windows, user's actions, edits

ASSUME SessionAssumption ==
    /\ Locked \subseteq Archives /\ Plain \notin Archives
    /\ Nothing \notin Archives /\ Nothing \notin 0..MaxViewers  \* neither an archive nor a window
    /\ ItemOf \in [Archives -> Archives \cup {Plain}]
    /\ MaxViewers \in Nat /\ MaxActs \in Nat /\ MaxEdits \in Nat

Main    == 0
Viewers == 1..MaxViewers
Labels  == {Main} \cup Viewers
Absent  == -1
Partial == -2  \* an item that is still being written

\* Those that are on disk from the start; an item is there once it is unpacked.
Disk == {a \in Archives : \A b \in Archives : ItemOf[b] # a}

VARIABLES
    win,      \* each window: [st, shown, call, ask]
    next,     \* ViewerWindows.next
    pending,  \* ViewerWindows.pending
    opened,   \* ViewerWindows.opened
    startup,  \* PendingStartupOpen
    signals,  \* shell:open-archive on its way to the main window
    reqs,     \* the runs of open_from_shell
    pw,       \* SessionPassword: the archive it is of
    cache,    \* the version of the item that is in the temporary folder
    tasks,    \* the items being unpacked
    ver,      \* the version of each archive
    spoiled,  \* an item was run or handed out that was not as it should be
    owed,     \* for each archive, the requests no window has taken yet
    acts,     \* what the user has done
    lapses    \* what the properties name as exceptions

windows == <<win, next, pending, opened>>
places == <<startup, signals, reqs, owed>>
items == <<cache, tasks, spoiled>>
vars == <<windows, places, pw, items, ver, acts, lapses>>

NoWindow == [st |-> "none", shown |-> Nothing, call |-> Nothing, ask |-> Nothing]
Alive(l) == win[l].st \in {"loading", "listening", "live"}

TypeOK ==
    /\ \A l \in Labels :
        /\ win[l].st \in {"none", "loading", "listening", "live", "gone"}
        /\ win[l].shown \in Archives \cup {Nothing}
        /\ win[l].st = "listening" => l = Main
    /\ next \in 0..MaxViewers /\ \A l \in Viewers : l > next <=> win[l].st = "none"
    /\ pending \in [Viewers -> Archives \cup {Nothing}]
    /\ opened \in [Labels -> Archives \cup {Nothing}]
    /\ startup \in Archives \cup {Nothing} /\ signals \in 0..1
    /\ pw \in Locked \cup {Nothing}
    /\ cache \in [Archives -> Partial..MaxEdits] /\ ver \in [Archives -> 0..MaxEdits]
    /\ owed \in [Archives -> Nat]
    /\ acts \in 0..MaxActs /\ lapses \subseteq {"overlap", "moved"}

\* The program is started plainly, or with one or two archives.
Launches == {<<>>} \cup {<<a>> : a \in Disk} \cup {d \in Disk \X Disk : d[1] # d[2]}

Request(paths, first) == [todo |-> paths, first |-> first, st |-> "look", found |-> Nothing]

Init ==
    /\ win = [l \in Labels |-> IF l = Main THEN [NoWindow EXCEPT !.st = "loading"] ELSE NoWindow]
    /\ next = 0 /\ pending = [l \in Viewers |-> Nothing] /\ opened = [l \in Labels |-> Nothing]
    /\ startup = Nothing /\ signals = 0
    /\ \E paths \in Launches : reqs = IF paths = <<>> THEN {} ELSE {Request(paths, TRUE)}
    /\ pw = Nothing
    /\ cache = [a \in Archives |-> Absent] /\ tasks = {} /\ ver = [a \in Archives |-> 0]
    /\ spoiled = FALSE /\ owed = [a \in Archives |-> 0]
    /\ acts = 0 /\ lapses = {}

Act == acts < MaxActs /\ acts' = acts + 1
Lapse(name, happened) == lapses' = lapses \cup IF happened THEN {name} ELSE {}

-----------------------------------------------------------------------------
(* Listing of an archive.                                                   *)

Exists(a) == a \in Disk \/ \E b \in Archives : ItemOf[b] = a /\ cache[b] # Absent

\* Mutant of OpenArchive: the password of the session is set whether or not the
\* archive needed one.
OpenArchiveSets(l, a, given) ==
    LET kept == IF pw = a THEN pw ELSE Nothing
        known == given \/ kept = a
    IN  /\ opened' = [opened EXCEPT ![l] = a]
        /\ \E res \in (IF ~Exists(a) THEN {} ELSE IF a \in Locked /\ ~known THEN {"ask"} ELSE {"ok"})
                      \cup (IF given THEN {"ask"} ELSE {}) \cup {"fail"} :
            /\ win' = [win EXCEPT ![l].call = [arc |-> a, res |-> res],
                                  ![l].st = "live"]
            /\ pw' = IF res = "ok" THEN a ELSE kept

\* open_archive of window l: the record first, whatever comes of it; the
\* password of another archive is dropped, that of this one is used.
OpenArchive(l, a, given) ==
    LET kept == IF pw = a THEN pw ELSE Nothing
        known == given \/ kept = a
    IN  /\ opened' = [opened EXCEPT ![l] = a]
        /\ \E res \in (IF ~Exists(a) THEN {} ELSE IF a \in Locked /\ ~known THEN {"ask"} ELSE {"ok"})
                      \cup (IF given THEN {"ask"} ELSE {}) \cup {"fail"} :
            /\ win' = [win EXCEPT ![l].call = [arc |-> a, res |-> res],
                                  ![l].st = "live"]
            /\ pw' = IF res = "ok" /\ a \in Locked THEN a ELSE kept

\* openArchiveByPath after the answer.
Answer(l) ==
    /\ Alive(l) /\ win[l].call # Nothing
    /\ LET c == win[l].call IN
        win' = [win EXCEPT ![l].call = Nothing,
                           ![l].shown = IF c.res = "ok" THEN c.arc ELSE @,
                           ![l].ask = CASE c.res = "ok" -> Nothing
                                        [] c.res = "ask" -> [arc |-> c.arc, mode |-> "open"]
                                        [] OTHER -> @]
    /\ UNCHANGED <<next, pending, opened, places, pw, items, ver, acts, lapses>>

\* An archive is dropped on a window.
OpenDropped(l, a) ==
    /\ Act /\ win[l].st = "live" /\ win[l].call = Nothing /\ a \in Disk
    /\ OpenArchive(l, a, FALSE)
    /\ Lapse("moved", TRUE)
    /\ UNCHANGED <<next, pending, places, items, ver>>

\* submitPassword for the archive itself.
SubmitPassword(l) ==
    /\ Act /\ win[l].st = "live" /\ win[l].call = Nothing
    /\ win[l].ask # Nothing /\ win[l].ask.mode = "open"
    /\ OpenArchive(l, win[l].ask.arc, TRUE)
    /\ UNCHANGED <<next, pending, places, items, ver, lapses>>

-----------------------------------------------------------------------------
(* Windows.                                                                 *)

\* The main window listens for the signal, then looks into the place.
Listen ==
    /\ win[Main].st = "loading"
    /\ win' = [win EXCEPT ![Main].st = "listening"]
    /\ UNCHANGED <<next, pending, opened, places, pw, items, ver, acts, lapses>>

\* Mutant of DrainStartupOpen: the place is read and not emptied.
DrainStartupOpenReads ==
    /\ win[Main].call = Nothing
    /\ UNCHANGED startup
    /\ IF startup = Nothing
       THEN win' = [win EXCEPT ![Main].st = "live"] /\ UNCHANGED <<opened, pw, owed>>
       ELSE OpenArchive(Main, startup, FALSE) /\ owed' = [owed EXCEPT ![startup] = @ - 1]
    /\ UNCHANGED <<next, pending, reqs, items, ver, acts, lapses>>

\* drainStartupOpen.
DrainStartupOpen ==
    /\ win[Main].call = Nothing
    /\ startup' = Nothing
    /\ IF startup = Nothing
       THEN win' = [win EXCEPT ![Main].st = "live"] /\ UNCHANGED <<opened, pw, owed>>
       ELSE OpenArchive(Main, startup, FALSE) /\ owed' = [owed EXCEPT ![startup] = @ - 1]
    /\ UNCHANGED <<next, pending, reqs, items, ver, acts, lapses>>

DrainAtMount == win[Main].st = "listening" /\ DrainStartupOpen /\ UNCHANGED signals

\* The signal is lost as long as nobody listens.
OnSignal ==
    /\ signals > 0 /\ signals' = signals - 1
    /\ IF win[Main].st \in {"listening", "live"} THEN DrainStartupOpen
       ELSE UNCHANGED <<windows, startup, reqs, owed, pw, items, ver, acts, lapses>>

\* A viewer window comes up and takes its archive.
MountViewer(l) ==
    /\ win[l].st = "loading" /\ l # Main
    /\ pending' = [pending EXCEPT ![l] = Nothing]
    /\ IF pending[l] = Nothing
       THEN win' = [win EXCEPT ![l].st = "live"] /\ UNCHANGED <<opened, pw, owed>>
       ELSE OpenArchive(l, pending[l], FALSE) /\ owed' = [owed EXCEPT ![pending[l]] = @ - 1]
    /\ UNCHANGED <<next, startup, signals, reqs, items, ver, acts, lapses>>

\* open_viewer_window; if the window cannot be built, the place is emptied.
OpenViewerWindow(a) ==
    /\ next < MaxViewers /\ next' = next + 1
    /\ \/ /\ pending' = [pending EXCEPT ![next'] = a]
          /\ win' = [win EXCEPT ![next'].st = "loading"]
          /\ owed' = [owed EXCEPT ![a] = @ + 1]
       \/ /\ win' = [win EXCEPT ![next'].st = "gone"]
          /\ UNCHANGED <<pending, owed>>
    /\ UNCHANGED <<opened, pw, ver, lapses>>

\* The user closes a window; only the viewer windows leave the record.
Close(l) ==
    /\ Act /\ Alive(l)
    /\ win' = [win EXCEPT ![l] = [NoWindow EXCEPT !.st = "gone"]]
    /\ opened' = IF l = Main THEN opened ELSE [opened EXCEPT ![l] = Nothing]
    /\ owed' = LET p == IF l = Main THEN startup ELSE pending[l] IN
               IF p = Nothing THEN owed ELSE [owed EXCEPT ![p] = @ - 1]
    /\ UNCHANGED <<next, pending, startup, signals, reqs, pw, items, ver, lapses>>

-----------------------------------------------------------------------------
(* An archive is opened from the shell (open_from_shell).                   *)

\* The user double-clicks an archive in the shell.
ShellOpen(a) ==
    /\ Act /\ \E l \in Labels : Alive(l)
    /\ reqs = {} \/ \A r \in reqs : r.todo # <<a>>
    /\ reqs' = reqs \cup {Request(<<a>>, FALSE)}
    /\ Lapse("overlap", reqs # {} \/ startup # Nothing \/ \E l \in Viewers : win[l].st = "loading")
    /\ UNCHANGED <<windows, startup, signals, owed, pw, items, ver>>

\* Mutant of LookUp: a window that has been opened for the shell is not found.
LookUpMainOnly(r) ==
    /\ r \in reqs /\ r.st = "look"
    /\ LET windowsOf == {l \in {Main} : opened[l] = Head(r.todo)} IN
        \E l \in (IF windowsOf = {} THEN {Nothing} ELSE windowsOf) :
            reqs' = (reqs \ {r}) \cup {[r EXCEPT !.st = "serve", !.found = l]}
    /\ UNCHANGED <<windows, startup, signals, owed, pw, items, ver, acts, lapses>>

\* Its window is looked up in the record.
LookUp(r) ==
    /\ r \in reqs /\ r.st = "look"
    /\ LET windowsOf == {l \in Labels : opened[l] = Head(r.todo)} IN
        \E l \in (IF windowsOf = {} THEN {Nothing} ELSE windowsOf) :
            reqs' = (reqs \ {r}) \cup {[r EXCEPT !.st = "serve", !.found = l]}
    /\ UNCHANGED <<windows, startup, signals, owed, pw, items, ver, acts, lapses>>

\* The path is done with: the next one is no longer the first.
Served(r) ==
    (reqs \ {r}) \cup IF Len(r.todo) = 1 THEN {} ELSE {Request(Tail(r.todo), FALSE)}

Found(r) == r.found # Nothing /\ Alive(r.found)

Focus(r) ==
    /\ r \in reqs /\ r.st = "serve" /\ Found(r)
    /\ reqs' = Served(r)
    /\ UNCHANGED <<windows, startup, signals, owed, pw, items, ver, acts, lapses>>

\* The first archive of the start is left for the main window, then signalled.
LeaveForMain(r) ==
    /\ r \in reqs /\ r.st = "serve" /\ ~Found(r) /\ r.first /\ Alive(Main)
    /\ startup' = Head(r.todo) /\ owed' = [owed EXCEPT ![Head(r.todo)] = @ + 1]
    /\ reqs' = (reqs \ {r}) \cup {[r EXCEPT !.st = "signal"]}
    /\ UNCHANGED <<windows, signals, pw, items, ver, acts, lapses>>

Signal(r) ==
    /\ r \in reqs /\ r.st = "signal"
    /\ signals' = signals + 1 /\ reqs' = Served(r)
    /\ UNCHANGED <<windows, startup, owed, pw, items, ver, acts, lapses>>

NewWindow(r) ==
    /\ r \in reqs /\ r.st = "serve" /\ ~Found(r) /\ ~(r.first /\ Alive(Main))
    /\ OpenViewerWindow(Head(r.todo))
    /\ reqs' = Served(r)
    /\ UNCHANGED <<startup, signals, items, acts>>

-----------------------------------------------------------------------------
(* One item: open_entry and the drag out of the window.                     *)

Task(l, op, typed) ==
    [win |-> l, op |-> op, arc |-> win[l].shown, typed |-> typed,
     key |-> typed \/ pw = win[l].shown, ver |-> Absent, due |-> ver[win[l].shown]]

\* An item of version v is run or its path handed out: it must be whole, and
\* not older than the archive was when it was asked for.
HandOut(v, due) == spoiled' = (spoiled \/ v < due)

\* openInnerEntry after the answer: the question for its password goes away, and
\* an item that is an archive is opened in a window of ours.
Shown(l, op) ==
    win' = IF op = "open" /\ win[l].ask # Nothing /\ win[l].ask.mode = "entry"
           THEN [win EXCEPT ![l].ask = Nothing] ELSE win

Nested(t) ==
    IF t.op = "open" /\ ItemOf[t.arc] \in Archives /\ Alive(t.win)
    THEN {[t EXCEPT !.op = "nested"]} ELSE {}

\* open_entry up to the unpacking, and begin_shell_drag up to the request of
\* the drop target: what is there already is used again.  A drag lists the
\* archive first.
UseItem(l, op, typed) ==
    /\ win[l].st = "live" /\ win[l].shown # Nothing
    /\ \A t \in tasks : t.win = l => t.op \notin {op, "nested"}
    /\ LET arc == win[l].shown
           t   == Task(l, op, typed)
       IN  IF op = "drag" /\ arc \in Locked /\ ~t.key THEN UNCHANGED <<items, win>>
           ELSE IF cache[arc] = Absent
           THEN tasks' = tasks \cup {t} /\ UNCHANGED <<cache, spoiled, win>>
           ELSE /\ HandOut(cache[arc], 0) /\ Shown(l, op)
                /\ tasks' = tasks \cup Nested(t) /\ UNCHANGED cache

OpenEntry(l) ==
    /\ Act /\ UseItem(l, "open", FALSE)
    /\ UNCHANGED <<next, pending, opened, places, pw, ver, lapses>>

Drag(l) ==
    /\ Act /\ UseItem(l, "drag", FALSE)
    /\ UNCHANGED <<next, pending, opened, places, pw, ver, lapses>>

SubmitEntryPassword(l) ==
    /\ Act /\ win[l].ask # Nothing /\ win[l].ask.mode = "entry"
    /\ UseItem(l, "open", TRUE)
    /\ UNCHANGED <<next, pending, opened, places, pw, ver, lapses>>

\* Mutant of Unpack: the item is written where it is used from.
UnpackInPlace(t) ==
    /\ t \in tasks /\ t.op # "nested" /\ t.ver = Absent /\ (t.arc \in Locked => t.key)
    /\ tasks' = (tasks \ {t}) \cup {[t EXCEPT !.ver = ver[t.arc]]}
    /\ cache' = [cache EXCEPT ![t.arc] = Partial]
    /\ UNCHANGED <<windows, places, pw, spoiled, ver, acts, lapses>>

\* The archive is read into a file beside the place of the item.
Unpack(t) ==
    /\ t \in tasks /\ t.op # "nested" /\ t.ver = Absent /\ (t.arc \in Locked => t.key)
    /\ tasks' = (tasks \ {t}) \cup {[t EXCEPT !.ver = ver[t.arc]]}
    /\ UNCHANGED <<windows, places, pw, cache, spoiled, ver, acts, lapses>>

\* The file is moved to its place, the password is kept, the item is run or
\* its path handed to the drop target; an archive is shown by a window of ours.
Unpacked(t) ==
    /\ t \in tasks /\ t.op # "nested" /\ t.ver # Absent
    /\ tasks' = (tasks \ {t}) \cup Nested(t)
    /\ cache' = [cache EXCEPT ![t.arc] = t.ver]
    /\ HandOut(t.ver, t.due)
    /\ Shown(t.win, t.op)
    /\ pw' = IF t.op = "open" /\ t.arc \in Locked THEN t.arc ELSE pw
    /\ UNCHANGED <<next, pending, opened, places, ver, acts, lapses>>

\* It cannot be unpacked; the window asks for the password that is missing or
\* wrong.
UnpackFails(t) ==
    /\ t \in tasks /\ t.op # "nested"
    /\ tasks' = tasks \ {t}
    /\ win' = IF t.op = "open" /\ t.arc \in Locked /\ (t.typed \/ ~t.key) /\ Alive(t.win)
              THEN [win EXCEPT ![t.win].ask = [arc |-> t.arc, mode |-> "entry"]] ELSE win
    /\ UNCHANGED <<next, pending, opened, places, pw, cache, spoiled, ver, acts, lapses>>

\* open_archive_window for an item that is an archive.
OpenArchiveWindow(t) ==
    /\ t \in tasks /\ t.op = "nested"
    /\ tasks' = tasks \ {t}
    /\ IF Alive(t.win) THEN OpenViewerWindow(ItemOf[t.arc])
       ELSE UNCHANGED <<windows, owed, pw, ver, lapses>>
    /\ UNCHANGED <<startup, signals, reqs, cache, spoiled, acts>>

\* The archive is edited, here or by another program, while or after its item
\* is unpacked (earlier it makes no difference).
Edit(a) ==
    /\ a \in Disk /\ ver[a] < MaxEdits
    /\ cache[a] # Absent \/ \E t \in tasks : t.arc = a
    /\ ver' = [ver EXCEPT ![a] = @ + 1]
    /\ UNCHANGED <<windows, places, pw, items, acts, lapses>>

-----------------------------------------------------------------------------
User ==
    \/ \E l \in Labels :
        \/ \E a \in Archives : OpenDropped(l, a)
        \/ SubmitPassword(l) \/ SubmitEntryPassword(l) \/ Close(l)
        \/ OpenEntry(l) \/ Drag(l)
    \/ \E a \in Disk : ShellOpen(a) \/ Edit(a)

Program ==
    \/ Listen \/ DrainAtMount \/ OnSignal
    \/ \E l \in Labels : Answer(l)
    \/ \E l \in Viewers : MountViewer(l)
    \/ \E r \in reqs : LookUp(r) \/ Focus(r) \/ LeaveForMain(r) \/ Signal(r) \/ NewWindow(r)
    \/ \E t \in tasks : Unpack(t) \/ Unpacked(t) \/ UnpackFails(t) \/ OpenArchiveWindow(t)

Next == Program \/ User

Spec == Init /\ [][Next]_vars
-----------------------------------------------------------------------------
(* Properties.                                                              *)

\* Nothing is on its way any more.
Quiet ==
    /\ reqs = {} /\ signals = 0
    /\ \A l \in Labels : win[l].st \notin {"loading", "listening"} /\ win[l].call = Nothing

\* Every archive that was left for a window has been taken by it, and once: the
\* main window takes it when it comes up or at the signal, whichever is later.
TakenOnce ==
    /\ \A a \in Archives : owed[a] >= 0
    /\ Quiet => /\ \A a \in Archives : owed[a] = 0
                /\ Alive(Main) => startup = Nothing

\* An archive opened from the shell has one window, unless two openings of it
\* were under way at once, a window was used for another archive, or the main
\* window was closed, whose entry stays in the record.
OneWindowEach ==
    \A k, l \in Labels :
        k # l /\ Alive(k) /\ Alive(l) /\ opened[k] = opened[l] /\ opened[k] \in Disk =>
            ~Alive(Main) \/ lapses \cap {"overlap", "moved"} # {}

\* Every archive that was asked for comes to one window.
OpenedOnce == TypeOK /\ TakenOnce /\ OneWindowEach

\* What is run or handed to a drop target is a whole item, and one unpacked for
\* it is as new as the archive was when it was asked for.  (One that was there
\* already may be older than an edit.)
ItemIsRight == ~spoiled

\* "The file in that place is a sound cache" (commands.rs:2054): what is used again
\* is the item as the archive has it.  Violated: nothing looks whether the archive
\* has been edited since.
CacheIsSound ==
    [][\A l \in Labels : OpenEntry(l) /\ cache[win[l].shown] # Absent =>
         cache[win[l].shown] = ver[win[l].shown]]_vars

\* A window that is brought to the front for an archive shows it or is about to.
FocusedShows ==
    [][\A r \in reqs : Focus(r) =>
         LET w == win[r.found] IN
         w.shown = Head(r.todo) \/ (w.call # Nothing /\ w.call.arc = Head(r.todo))]_vars
=============================================================================
