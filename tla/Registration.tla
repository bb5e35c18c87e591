---------------------------- MODULE Registration ----------------------------
(***************************************************************************)
(* The settings file and what the registry holds of them: file             *)
(* associations with the backup of the program that had them before        *)
(* (file_assoc.rs), the shell menu and its package (shell_reg.rs,          *)
(* msix.rs), written at each start, by the settings window and the banner  *)
(* of the main window, and by /inst and /uninst (maintenance.rs).  The     *)
(* registry is written key by key: a key may fail, the process may die in  *)
(* between, and other programs and the user change the same keys.          *)
(***************************************************************************)
EXTENDS Integers, Sequences, FiniteSets, SequencesExt

CONSTANTS
    Ext,       \* DEFAULT_ASSOC_EXTS
    Others,    \* the ProgIDs of other programs
    Ours,      \* our ProgID of an extension
    Nobody,    \* no ProgID: no value, or an empty one
    NoBackup,  \* no value for the extension under the backup key
    Handlers,  \* the two ContextMenuHandlers keys
    Places,    \* the folders the program may stand in
    Nowhere,   \* not registered
    Missing, Unreadable,  \* a settings file that is not there, or not readable
    Bounds     \* how often each of the things the environment does may happen, and all of them (any)

Settings == [assoc : SUBSET Ext, init : BOOLEAN, menu : BOOLEAN, auto : BOOLEAN]

ASSUME RegistrationAssumption ==
    /\ Ours \notin Others /\ Nobody \notin Others /\ Ours # Nobody
    /\ NoBackup \notin Others \cup {Ours, Nobody} /\ Nowhere \notin Places
    /\ Missing # Unreadable /\ {Missing, Unreadable} \cap Settings = {}
    /\ Bounds \in [{"take", "pick", "damage", "fail", "die", "edit", "move", "install",
                    "any"} -> Nat]
    /\ IsFiniteSet(Ext) /\ IsFiniteSet(Handlers)

VARIABLES
    file,   \* settings.toml
    reg,    \* each extension: [class, backup, progid, listed, choice]
    shell,  \* [clsid, links, package]
    place,  \* where the program stands
    app,    \* "off", "on", or "hook": /inst or /uninst
    work,   \* what the main thread has to do, key by key
    win,    \* what the windows that write the settings are doing
    past,   \* what the properties look back at
    left    \* what is left of Bounds

registry == <<reg, shell>>
regVars == <<file, registry, place, app, work, win, past, left>>

Default  == [assoc |-> {}, init |-> FALSE, menu |-> FALSE, auto |-> FALSE]
Trusted  == file # Unreadable
Load     == IF file \in {Missing, Unreadable} THEN Default ELSE file
Files    == Settings \cup {Missing, Unreadable}

Idle == [at |-> "idle", copy |-> Default, base |-> {}, seen |-> Missing, then |-> "nothing"]
Windows == {"settings", "banner", "after"}

RegTypeOK ==
    /\ file \in Files
    /\ reg \in [Ext -> [class : Others \cup {Ours, Nobody}, backup : Others \cup {Nobody, NoBackup},
                        progid : Places \cup {Nowhere}, listed : BOOLEAN,
                        choice : Others \cup {Ours, Nobody}]]
    /\ shell \in [clsid : Places \cup {Nowhere}, links : SUBSET Handlers,
                  package : Places \cup {Nowhere}]
    /\ place \in Places /\ app \in {"off", "on", "hook"}
    /\ app = "off" => work = <<>> /\ \A w \in Windows : win[w] = Idle
    /\ app = "hook" => \A w \in Windows : win[w] = Idle
    /\ \A w \in Windows :
        /\ win[w].at \in {"idle", "open", "read", "saved"} /\ win[w].copy \in Settings
        /\ win[w].base \subseteq Ext /\ win[w].seen \in Files
        /\ win[w].then \in {"nothing", "assoc", "menu", "reset"}
    /\ past.owner \in [Ext -> Others \cup {Nobody}] /\ past.wish \subseteq Ext
    /\ past.lost \in BOOLEAN /\ past.excused \subseteq Ext \cup {"menu"} /\ past.taken \subseteq Ext
    /\ \A b \in DOMAIN Bounds : left[b] \in 0..Bounds[b]

RegInit ==
    /\ file = Missing /\ place \in Places /\ app = "off" /\ work = <<>>
    /\ \E first \in [Ext -> Others \cup {Nobody}] :
        /\ reg = [e \in Ext |-> [class |-> first[e], backup |-> NoBackup, progid |-> Nowhere,
                                 listed |-> FALSE, choice |-> Nobody]]
        /\ past = [owner |-> first, wish |-> {}, lost |-> FALSE, excused |-> {}, taken |-> {}]
    /\ shell = [clsid |-> Nowhere, links |-> {}, package |-> Nowhere]
    /\ win = [w \in Windows |-> Idle]
    /\ left = Bounds

Spend(b) == left[b] > 0 /\ left.any > 0 /\ left' = [left EXCEPT ![b] = @ - 1, !.any = @ - 1]

(***************************************************************************)
(* What the main thread does, one key after the other.                     *)
(***************************************************************************)
Doing(op) == work # <<>> /\ Head(work)[1] = op
Arg       == Head(work)[2]
Done      == work' = Tail(work)
Instead(steps) == work' = steps \o Tail(work)

\* One extension after the other, and for each one key after the other.
Each(ops, exts) ==
    [i \in 1..Len(ops) * Len(exts) |->
        <<ops[1 + ((i - 1) % Len(ops))], exts[1 + ((i - 1) \div Len(ops))]>>]

\* Mutant of Register: the class is set before the backup is written.
RegisterClassFirst == <<"progid", "class", "backup", "list">>
\* Mutant of Unregister: the choice of the user goes last.
UnregisterChoiceLast == <<"restore", "unlist", "unprogid", "unchoose", "forget">>

Register == <<"progid", "backup", "class", "list">>
Unregister == <<"unchoose", "restore", "unlist", "unprogid", "forget">>
Connect == <<<<"clsid", "menu">>>> \o Each(<<"link">>, SetToSeq(Handlers))
Disconnect == Each(<<"unlink">>, SetToSeq(Handlers)) \o <<<<"unclsid", "menu">>>>

\* registered_exts: the values of the backup key.
Held == {e \in Ext : reg[e].backup # NoBackup}

\* Mutant of SyncAssoc: an extension that is held already is not written again.
SyncAssocNew ==
    /\ Doing("assoc")
    /\ \E out \in SetToSeqs(Held \ Arg), in \in SetToSeqs(Arg \ Held) :
        Instead(Each(Unregister, out) \o Each(Register, in) \o <<<<"synced", Arg>>>>)
    /\ past' = [past EXCEPT !.taken = {}]
    /\ UNCHANGED <<file, registry, place, app, win, left>>

\* sync: every extension held and not wanted, then every one wanted.
SyncAssoc ==
    /\ Doing("assoc")
    /\ \E out \in SetToSeqs(Held \ Arg), in \in SetToSeqs(Arg) :
        Instead(Each(Unregister, out) \o Each(Register, in) \o <<<<"synced", Arg>>>>)
    /\ past' = [past EXCEPT !.taken = {}]
    /\ UNCHANGED <<file, registry, place, app, win, left>>

\* Mutant of Linked: only the CLSID is looked at.
LinkedByClsid == shell.clsid = place

\* is_registered with the path of the DLL, and has_traces.
Linked == shell.clsid = place /\ shell.links = Handlers
Traces == shell.clsid # Nowhere \/ shell.links # {}

\* What decides whether the shell can load the package, looked up each time:
\* Windows 11, and a shell that does not run elevated.
Machines == [win11 : BOOLEAN, enableLUA : {"none", "off", "on"},
             filterToken : {"none", "off", "on"}, builtinAdmin : BOOLEAN]
HostsPackages(m) == m.enableLUA # "off" /\ (m.builtinAdmin => m.filterToken = "on")

\* is_registered_at: a package whose external location cannot be read counts as ours.
RegisteredAt(readable) == shell.package = place \/ (shell.package # Nowhere /\ ~readable)

\* sync_all: the package where the shell can load it, the classic keys always.
SyncMenu ==
    /\ \/ \E force \in BOOLEAN, hosts \in {m.win11 /\ HostsPackages(m) : m \in Machines}, readable \in BOOLEAN :
           /\ Doing(IF force THEN "remenu" ELSE "menu") /\ Arg
           /\ Instead((IF ~hosts THEN <<<<"unpackage", "menu">>>>
                       ELSE IF force \/ ~RegisteredAt(readable) THEN <<<<"package", "menu">>>>
                       ELSE <<>>)
                      \o (IF Linked THEN <<>> ELSE Connect) \o <<<<"menus", TRUE>>>>)
       \/ /\ Doing("menu") /\ ~Arg
          /\ Instead(<<<<"unpackage", "menu">>>> \o (IF Traces THEN Disconnect ELSE <<>>)
                         \o <<<<"menus", FALSE>>>>)
    /\ UNCHANGED <<file, registry, place, app, win, past, left>>

\* Mutant of Backed: written again though the class is ours already.
BackedAgain(key) == [key EXCEPT !.backup = key.class]

\* The backup is kept as it is if the class is ours already.
Backed(key) == IF key.class # Ours THEN [key EXCEPT !.backup = key.class] ELSE key

\* Mutant of Restored: the class is given back whosever it is.
RestoredAnyway(key) == [key EXCEPT !.class = IF key.backup = NoBackup THEN Nobody ELSE key.backup]

\* The class is given back only if it is still ours.
Restored(key) ==
    IF key.class # Ours THEN key
    ELSE [key EXCEPT !.class = IF key.backup = NoBackup THEN Nobody ELSE key.backup]

Unchosen(key) == IF key.choice = Ours THEN [key EXCEPT !.choice = Nobody] ELSE key

KeyOf(op, key) ==
    CASE op = "progid"   -> [key EXCEPT !.progid = place]
      [] op = "backup"   -> Backed(key)
      [] op = "class"    -> [key EXCEPT !.class = Ours]
      [] op = "list"     -> [key EXCEPT !.listed = TRUE]
      [] op = "unchoose" -> Unchosen(key)
      [] op = "restore"  -> Restored(key)
      [] op = "unlist"   -> [key EXCEPT !.listed = FALSE]
      [] op = "unprogid" -> [key EXCEPT !.progid = Nowhere]
      [] op = "forget"   -> [key EXCEPT !.backup = NoBackup]

WriteExt ==
    \E op \in Range(Register \o Unregister) :
        /\ Doing(op)
        /\ reg' = [reg EXCEPT ![Arg] = KeyOf(op, @)] /\ Done
        /\ UNCHANGED <<file, shell, place, app, win, past, left>>

ShellOf(op, handler) ==
    CASE op = "clsid"     -> [shell EXCEPT !.clsid = place]
      [] op = "link"      -> [shell EXCEPT !.links = @ \cup {handler}]
      [] op = "unlink"    -> [shell EXCEPT !.links = @ \ {handler}]
      [] op = "unclsid"   -> [shell EXCEPT !.clsid = Nowhere]
      [] op = "package"   -> [shell EXCEPT !.package = place]
      [] op = "unpackage" -> [shell EXCEPT !.package = Nowhere]

WriteShell ==
    \E op \in {"clsid", "link", "unlink", "unclsid", "package", "unpackage"} :
        /\ Doing(op)
        /\ shell' = ShellOf(op, Arg) /\ Done
        /\ UNCHANGED <<file, reg, place, app, win, past, left>>

\* The end of a sync, with what it was asked for.
Report ==
    /\ Doing("synced") \/ Doing("menus")
    /\ Done /\ past' = [past EXCEPT !.taken = {}]
    /\ UNCHANGED <<file, registry, place, app, win, left>>

\* /inst: save_at; only now is the default list what the user has.
SaveHook ==
    /\ Doing("save") /\ file' = Arg /\ Done
    /\ past' = [past EXCEPT !.wish = IF Load.init THEN @ ELSE Arg.assoc]
    /\ UNCHANGED <<registry, place, app, win, left>>

\* /uninst: the installer deletes the settings file.
DropFile ==
    /\ Doing("drop") /\ file' = Missing /\ Done
    /\ UNCHANGED <<registry, place, app, win, past, left>>

\* A key cannot be written.  Registering gives up: the rest of the extensions,
\* or the rest of the menu.  Unregistering goes on as if it were done.
Fails ==
    /\ Spend("fail")
    /\ \/ /\ \E op \in Range(Register) \cup {"save"} : Doing(op)
          /\ work' = <<>> /\ UNCHANGED past
       \/ /\ Doing("clsid") \/ Doing("link")
          /\ \E i \in DOMAIN work :
                work[i][1] = "menus" /\ work' = SubSeq(work, i + 1, Len(work))
          /\ UNCHANGED past
       \/ /\ Doing("package") /\ Done /\ UNCHANGED past
       \/ /\ \E op \in Range(Unregister) : Doing(op)
          /\ Done /\ past' = [past EXCEPT !.excused = @ \cup {Arg}]
       \/ /\ Doing("unlink") \/ Doing("unclsid") \/ Doing("unpackage")
          /\ Done /\ past' = [past EXCEPT !.excused = @ \cup {"menu"}]
    /\ UNCHANGED <<file, registry, place, app, win>>

(***************************************************************************)
(* The process.                                                            *)
(***************************************************************************)
\* Mutant of Boot: the default settings stand in for a file that cannot be read.
BootDefaults ==
    /\ app = "off" /\ app' = "on"
    /\ work' = <<<<"menu", Load.menu>>, <<"assoc", Load.assoc>>>>
    /\ UNCHANGED <<file, registry, place, win, past, left>>

\* main.rs setup: nothing is touched if the settings could not be read.
Boot ==
    /\ app = "off" /\ app' = "on"
    /\ work' = IF Trusted THEN <<<<"menu", Load.menu>>, <<"assoc", Load.assoc>>>> ELSE <<>>
    /\ UNCHANGED <<file, registry, place, win, past, left>>

\* /inst: a file that cannot be read is moved aside, and what the user had
\* chosen with it; if that fails too, only the menu is registered.
Install ==
    /\ app = "off" /\ Spend("install") /\ app' = "hook"
    /\ \E moved \in BOOLEAN :
        /\ moved => ~Trusted
        /\ file' = IF moved THEN Missing ELSE file
        /\ past' = [past EXCEPT !.lost = @ \/ moved]
        /\ LET s == [Load EXCEPT !.menu = TRUE, !.init = TRUE,
                                 !.assoc = IF Load.init THEN @ ELSE Ext]
           IN  work' = <<<<"remenu", TRUE>>>> \o
                       (IF Trusted \/ moved THEN <<<<"save", s>>, <<"assoc", s.assoc>>>> ELSE <<>>)
    /\ UNCHANGED <<registry, place, win>>

Uninstall ==
    /\ app = "off" /\ Spend("install") /\ app' = "hook"
    /\ work' = <<<<"unpackage", "menu">>>> \o Disconnect
               \o <<<<"menus", FALSE>>>> \o <<<<"assoc", {}>>, <<"drop", "file">>>>
    /\ past' = [past EXCEPT !.wish = {}]
    /\ UNCHANGED <<file, registry, place, win>>

HookEnds ==
    /\ app = "hook" /\ work = <<>> /\ app' = "off"
    /\ UNCHANGED <<file, registry, place, work, win, past, left>>

\* wingeom::save: written on exit if the window was resized and the file is readable.
Quit ==
    /\ app = "on" /\ work = <<>> /\ \A w \in Windows : win[w].at \in {"idle", "open"}
    /\ app' = "off" /\ win' = [w \in Windows |-> Idle]
    /\ file' \in {file} \cup (IF Trusted THEN {Load} ELSE {})
    /\ UNCHANGED <<registry, place, work, past, left>>

\* A process that dies takes with it what a window was about to save.
Die ==
    /\ app # "off" /\ Spend("die")
    /\ app' = "off" /\ work' = <<>> /\ win' = [w \in Windows |-> Idle]
    /\ past' = [past EXCEPT !.lost = @ \/ \E w \in Windows : win[w].at = "read"]
    /\ UNCHANGED <<file, registry, place>>

(***************************************************************************)
(* The windows: each reads, merges and writes, then has the registry       *)
(* follow.  Commands wait for the main thread.                             *)
(***************************************************************************)
Free == app = "on" /\ work = <<>>
At(w, at) == Free /\ win[w].at = at
Move(w, r) == win' = [win EXCEPT ![w] = r]

OpenSettings ==
    /\ At("settings", "idle")
    /\ Move("settings", [Idle EXCEPT !.at = "open", !.copy = Load, !.base = Load.assoc])
    /\ UNCHANGED <<file, registry, place, app, work, past, left>>

CloseSettings ==
    /\ At("settings", "open") /\ Move("settings", Idle)
    /\ UNCHANGED <<file, registry, place, app, work, past, left>>

\* What the user changes in the window, up to the re-reading in persist.
Edit ==
    /\ At("settings", "open") /\ Spend("edit")
    /\ \/ \E e \in Ext :
            LET tick == win["settings"].copy.assoc \cup {e}
                new  == IF e \in win["settings"].copy.assoc THEN tick \ {e} ELSE tick
            IN  /\ Move("settings", [win["settings"] EXCEPT !.copy.assoc = new, !.copy.init = TRUE,
                                       !.then = "assoc", !.at = "read", !.seen = file])
                /\ past' = [past EXCEPT !.wish = IF e \in new THEN @ \cup {e} ELSE @ \ {e}]
       \/ /\ Move("settings", [win["settings"] EXCEPT !.copy.menu = ~@, !.then = "menu",
                                 !.at = "read", !.seen = file])
          /\ UNCHANGED past
       \/ /\ Move("settings", [win["settings"] EXCEPT !.copy = [Default EXCEPT !.init = win["settings"].copy.init],
                                 !.then = "reset", !.at = "read", !.seen = file])
          /\ past' = [past EXCEPT !.wish = {}]
       \/ \* any other setting
          /\ Move("settings", [win["settings"] EXCEPT !.then = "nothing", !.at = "read", !.seen = file])
          /\ UNCHANGED past
    /\ UNCHANGED <<file, registry, place, app, work>>

\* status: the choice of the user, else the program used last, which the shell
\* keeps, else the class default.
Opener(e, used) ==
    IF reg[e].choice # Nobody THEN reg[e].choice
    ELSE IF used # Nobody THEN used ELSE reg[e].class

\* [Connect] on the banner, for an extension that is to be ours and is not.
OnConnect ==
    /\ At("banner", "idle") /\ win["settings"].at = "idle" /\ Spend("edit")
    /\ \E e \in Ext, used \in Others \cup {Ours, Nobody} :
        /\ Opener(e, used) # Ours /\ (Load.init => e \in Load.assoc)
        /\ Move("banner", [Idle EXCEPT !.at = "read", !.seen = file, !.base = Load.assoc,
                             !.copy = [Load EXCEPT !.assoc = @ \cup {e}, !.init = TRUE]])
        /\ past' = [past EXCEPT !.wish = @ \cup {e}]
    /\ UNCHANGED <<file, registry, place, app, work>>

\* persistAfterOptions of the windows that extract and compress.
OnAfterOptions ==
    /\ At("after", "idle") /\ Spend("edit")
    /\ Move("after", [Idle EXCEPT !.at = "read", !.seen = file, !.base = Load.assoc,
                        !.copy = [Load EXCEPT !.auto = ~@]])
    /\ UNCHANGED <<file, registry, place, app, work, past>>

\* Another window is about to save what it has read.
Overlaps(w) == \E v \in Windows \ {w} : win[v].at = "read"

\* saveSettings.  A save is lossy when what it writes was not read from the file
\* as it is, or when it fails: the settings window goes on as if it had not.
Written(w) ==
    IF w = "settings" /\ win[w].seen \in Settings
    THEN [win[w].copy EXCEPT !.auto = win[w].seen.auto] ELSE win[w].copy

Save ==
    \E w \in Windows :
        /\ At(w, "read")
        /\ \/ /\ file' = Written(w)
              /\ past' = [past EXCEPT !.lost = @ \/ file # win[w].seen \/ file = Unreadable
                                                 \/ Load.assoc # win[w].base \/ Overlaps(w)]
              /\ Move(w, [win[w] EXCEPT !.at = "saved", !.base = Written(w).assoc])
              /\ UNCHANGED left
           \/ /\ Spend("fail") /\ UNCHANGED file
              /\ past' = [past EXCEPT !.lost = TRUE]
              /\ Move(w, IF w = "settings" THEN [win[w] EXCEPT !.at = "saved"] ELSE Idle)
        /\ UNCHANGED <<registry, place, app, work>>

\* syncFileAssoc and syncShellIntegration, after the save.
Sync ==
    \E w \in Windows :
        LET assoc == <<<<"assoc", win[w].copy.assoc>>>>
            menu  == <<<<"menu", win[w].copy.menu>>>>
            then  == win[w].then
        IN
        /\ At(w, "saved")
        /\ work' = IF w = "banner" \/ then = "assoc" THEN assoc
                   ELSE IF then = "menu" THEN menu
                   ELSE IF then = "reset" THEN menu \o assoc ELSE <<>>
        /\ past' = [past EXCEPT !.lost = @ \/ win[w].copy.assoc # Load.assoc \/ Overlaps(w)]
        /\ Move(w, IF w = "settings" THEN [win[w] EXCEPT !.at = "open", !.then = "nothing",
                                                  !.seen = Missing] ELSE Idle)
        /\ UNCHANGED <<file, registry, place, app, left>>

(***************************************************************************)
(* The environment.                                                        *)
(***************************************************************************)
\* Another program makes itself the class default.
Take ==
    /\ Spend("take")
    /\ \E e \in Ext, o \in Others :
        /\ reg[e].class # o /\ reg' = [reg EXCEPT ![e].class = o]
        /\ past' = [past EXCEPT !.owner[e] = o, !.taken = IF work = <<>> THEN {} ELSE @ \cup {e},
                      !.excused = @ \cup IF Doing("class") /\ Arg = e THEN {e} ELSE {}]
    /\ UNCHANGED <<file, shell, place, app, work, win>>

\* The user picks a default app; the program is offered while it is listed.
Pick ==
    /\ Spend("pick")
    /\ \E e \in Ext, o \in Others \cup {Ours} :
        /\ o = Ours => reg[e].listed
        /\ reg' = [reg EXCEPT ![e].choice = o]
        /\ past' = [past EXCEPT !.excused = @ \cup
                      IF \E i \in DOMAIN work : work[i] = <<"unprogid", e>> THEN {e} ELSE {}]
    /\ UNCHANGED <<file, shell, place, app, work, win>>

\* Another program removes one of the handler keys.
Clean ==
    /\ work = <<>> /\ Spend("damage")
    /\ \E h \in shell.links : shell' = [shell EXCEPT !.links = @ \ {h}]
    /\ UNCHANGED <<file, reg, place, app, work, win, past>>

Damage ==
    /\ file \in Settings /\ Spend("damage") /\ file' = Unreadable
    /\ UNCHANGED <<registry, place, app, work, win, past>>

\* The folder is moved; what is registered points to where it was.
Carry ==
    /\ app = "off" /\ Spend("move") /\ place' \in Places \ {place}
    /\ UNCHANGED <<file, registry, app, work, win, past>>

Worker == SyncAssoc \/ SyncMenu \/ WriteExt \/ WriteShell \/ Report \/ SaveHook \/ DropFile \/ Fails
Process == Boot \/ Install \/ Uninstall \/ HookEnds \/ Quit \/ Die
Window == OpenSettings \/ CloseSettings \/ Edit \/ OnConnect \/ OnAfterOptions \/ Save \/ Sync
World == Take \/ Pick \/ Clean \/ Damage \/ Carry

RegNext == Worker \/ Process \/ Window \/ World

RegSpec == RegInit /\ [][RegNext]_regVars

(***************************************************************************)
(* Properties.  An extension is excused once a key of it could not be      *)
(* given back (the code ignores that) or another program or the user wrote *)
(* the very key that was being written.                                    *)
(***************************************************************************)
\* As long as the class default of an extension is ours, what is kept for it is
\* the program that had it last before us: however often others took it back,
\* registering stopped half-way, failed or was repeated (file_assoc.rs register:
\* the backup is written before the class and not again once the class is ours).
BackupRight ==
    \A e \in Ext \ past.excused : reg[e].class = Ours => reg[e].backup = past.owner[e]

\* The default app the user chose is never our ProgID without the key it names,
\* not even half-way or after a crash (unregister: first the choice, then the
\* ProgID).
NeverBroken ==
    \A e \in Ext \ past.excused : reg[e].choice = Ours => reg[e].progid # Nowhere

\* When a sync of the associations comes to its end without an error, exactly
\* the wanted ones are held, open from where the program stands now, and nothing
\* of the others is left that names us, whatever earlier syncs left behind.
SyncExact ==
    Doing("synced") =>
        /\ \A e \in Ext \ past.excused : e \in Held <=> e \in Arg
        /\ \A e \in Arg : /\ reg[e].progid = place /\ reg[e].listed
                          /\ reg[e].class = Ours \/ e \in past.taken
        /\ \A e \in Ext \ (Arg \cup past.excused) :
              reg[e].class # Ours /\ reg[e].choice # Ours /\ ~reg[e].listed

\* When the menu was switched on without an error all its keys are there and name
\* the program where it stands, though some were lost or the folder was moved;
\* when it was switched off none is left.
MenuWhole ==
    Doing("menus") =>
        IF Arg THEN shell.clsid = place /\ shell.links = Handlers
        ELSE shell = [clsid |-> Nowhere, links |-> {}, package |-> Nowhere] \/ "menu" \in past.excused

\* Nothing of ours takes the class default from another program except to register,
\* and unregistering gives it back to the one that had it.
OthersKept ==
    [][\A e \in Ext \ past'.excused :
        reg'[e].class # reg[e].class /\ past'.owner[e] = past.owner[e] =>
            \/ reg'[e].class = Ours /\ Doing("class")
            \/ reg[e].class = Ours /\ reg'[e].class \in {past.owner[e]}]_regVars

\* An extension is let go only if the user does not want it: no start with a
\* damaged file, no installation, crash or failed key drops one, as long as every
\* save and sync of a window was made from the file as it was, alone, and before
\* the process died.
WishKept ==
    [][\A e \in Ext : reg[e].backup # NoBackup /\ reg'[e].backup = NoBackup =>
        e \notin past.wish \/ past.lost]_regVars

\* "The file is read again before saving and merged, so that fields that were not
\* edited are protected" (SettingsWindow.svelte:98): a save for another setting
\* leaves the extensions in the file as they are.  Violated: persist writes the list
\* as the window read it when it came up.
UneditedKept ==
    [][LET w == win["settings"] IN
       /\ w.at = "read" /\ win'["settings"].at = "saved" /\ w.then \in {"menu", "nothing"}
       /\ file \in Settings
       => file'.assoc = file.assoc]_regVars

\* The keys are right at every moment, also between two of a sync.
KeysRight == RegTypeOK /\ BackupRight /\ NeverBroken

\* A sync that ends without an error has done all it was to do.
SyncDone == SyncExact /\ MenuWhole

\* Neither other programs nor the user lose what is theirs.
NobodyLoses == OthersKept /\ WishKept

=============================================================================
