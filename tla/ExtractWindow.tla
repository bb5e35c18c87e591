---------------------------- MODULE ExtractWindow ----------------------------
(***************************************************************************)
(* From the shell to the extraction: the aggregation of the calls of the   *)
(* explorer (cli.rs, Aggregator), the one place where the request waits    *)
(* for its window (PendingExtractContext, open_extract_window in           *)
(* commands.rs) and the window itself (ExtractWindow.svelte), whose        *)
(* handlers are interleaved at every await.                                *)
(*                                                                         *)
(* A call of the shell names one archive and is identified with it; a      *)
(* request is the sequence of archives that were gathered.  The job is     *)
(* external: it ends in one of the ways ExtractResult has.                 *)
(***************************************************************************)
EXTENDS Integers, Sequences, FiniteSets, Functions

CONSTANTS
    Chosen,     \* the archives the shell names
    Verb,       \* Chosen -> {"here", "each", "form"}: the menu item
    MaxJobs,    \* bound on the jobs started and the closings by the user, together
    Crossing    \* bound: is it followed what happens after `crossed`?

ASSUME ShellAssumption ==
    /\ Chosen # {} /\ IsFiniteSet(Chosen)
    /\ Verb \in [Chosen -> {"here", "each", "form"}]
    /\ MaxJobs \in Nat /\ Crossing \in BOOLEAN

NoArchive == <<>>
Idle      == [id |-> 0]

VARIABLES
    unasked,    \* the archives the shell has not named yet
    agg,        \* the buffer of Aggregator: [paths, gen]
    timers,     \* generations whose timer is running
    openers,    \* the calls of open_extract_window on their way: [req, kept]
    slot,       \* PendingExtractContext: the request, <<>> if there is none
    win,        \* the window: "none", "mounting", "open", "dying"
    w,          \* the variables of its script
    calls,      \* its calls whose answer it awaits
    job,        \* the job that is registered, Idle if there is none
    jobs,       \* the number of jobs so far
    events,     \* what was emitted about the end of jobs and has not arrived
    closings,   \* how often the user has closed the window
    good,       \* the archives a job has extracted completely
    deleted,    \* the archives the window has deleted
    ticked,     \* the archives for which the user confirmed a form with the tick
    crossed,    \* the user pressed [OK] while a new request was being taken
    overwritten, \* history: the archives of requests overwritten in their place
    silent,     \* history: the jobs whose thread panicked and told nobody
    dropped     \* history: the jobs whose end the window had no room for

shellVars == <<unasked, agg, timers>>
jobVars   == <<job, jobs, events, good>>
history   == <<deleted, ticked, crossed, overwritten, silent, dropped>>
extractVars == <<shellVars, openers, slot, win, w, calls, jobVars, closings, history>>

Requests == UNION {[1..n -> Chosen] : n \in 0..Cardinality(Chosen)}
Ends     == {"ok", "warning", "canceled", "error", "password"}

Blank ==
    [ init |-> FALSE, gen |-> 0, req |-> <<>>, idx |-> 1, mode |-> "form", phase |-> "form",
      jobId |-> 0, starting |-> FALSE, checking |-> FALSE, restarting |-> FALSE,
      finishing |-> FALSE, asking |-> FALSE, needPassword |-> FALSE, checked |-> NoArchive,
      opens |-> TRUE, pending |-> FALSE, deleteAfter |-> FALSE, issue |-> FALSE,
      result |-> "none", buffer |-> {} ]

Call(op, arc) == [op |-> op, req |-> <<>>, arc |-> arc, gen |-> w.gen, checked |-> w.checked,
                  opens |-> w.opens, answer |-> "none", id |-> 0]

ExtractTypeOK ==
    /\ unasked \subseteq Chosen
    /\ agg.paths \in Requests /\ agg.gen \in 0..Cardinality(Chosen)
    /\ timers \subseteq 1..Cardinality(Chosen)
    /\ openers \subseteq [req : Requests, kept : BOOLEAN]
    /\ slot \in Requests
    /\ win \in {"none", "mounting", "open", "dying"}
    /\ w.req \in Requests /\ w.idx \in 1..Cardinality(Chosen)
    /\ w.req # <<>> => w.idx \in DOMAIN w.req
    /\ w.mode \in {"form", "auto", "batch"} /\ w.phase \in {"form", "running", "done"}
    /\ w.jobId \in 0..jobs /\ w.result \in {"none"} \cup Ends
    /\ Cardinality({c \in calls : c.op \in {"take", "load"}}) <= 1
    /\ job # Idle => job.id \in 1..jobs /\ job.arc \in Chosen
    /\ events \subseteq [id : 1..jobs, end : Ends]
    /\ good \subseteq Chosen /\ deleted \subseteq Chosen /\ ticked \subseteq Chosen
    /\ overwritten \subseteq Chosen /\ silent \cup dropped \subseteq 1..jobs

ExtractInit ==
    /\ unasked = Chosen
    /\ agg = [paths |-> <<>>, gen |-> 0]
    /\ timers = {} /\ openers = {}
    /\ slot = <<>>
    /\ win = "none" /\ w = Blank /\ calls = {}
    /\ job = Idle /\ jobs = 0 /\ events = {}
    /\ closings = 0
    /\ good = {} /\ deleted = {} /\ ticked = {} /\ crossed = FALSE
    /\ overwritten = {} /\ silent = {} /\ dropped = {}

-----------------------------------------------------------------------------
(* Aggregator: calls of one verb within the debounce make one request.      *)

VerbOf(paths) == Verb[paths[1]]

\* dispatch: the form takes the first archive only, and one archive for
\* [extract here] is no batch.
Request(paths) == IF VerbOf(paths) = "form" THEN <<paths[1]>> ELSE paths

ModeOf(req) ==
    CASE VerbOf(req) = "form" -> "form"
      [] VerbOf(req) = "here" /\ Len(req) = 1 -> "auto"
      [] OTHER -> "batch"

Opener(paths) == [req |-> Request(paths), kept |-> FALSE]

\* Mutant of HandleInner: the verbs are mixed.
HandleInnerMixed(a) ==
    /\ a \in unasked
    /\ unasked' = unasked \ {a}
    /\ agg' = [paths |-> Append(agg.paths, a), gen |-> agg.gen + 1]
    /\ timers' = timers \cup {agg.gen + 1}
    /\ UNCHANGED <<openers, slot, win, w, calls, jobVars, closings, history>>

\* handle_inner, under its mutex: another verb sends off what was gathered.
HandleInner(a) ==
    /\ a \in unasked
    /\ unasked' = unasked \ {a}
    /\ LET mixed == agg.paths # <<>> /\ VerbOf(agg.paths) # Verb[a] IN
        /\ agg' = [paths |-> IF mixed THEN <<a>> ELSE Append(agg.paths, a),
                   gen |-> agg.gen + 1]
        /\ openers' = openers \cup IF mixed THEN {Opener(agg.paths)} ELSE {}
    /\ timers' = timers \cup {agg.gen + 1}
    /\ UNCHANGED <<slot, win, w, calls, jobVars, closings, history>>

\* The timer of a generation, a thread of its own: only the last generation is
\* sent off.  Bound: the threads, which sleep the same time, wake in the order
\* they were started in.
Flush(g) ==
    /\ g \in timers /\ \A h \in timers : g <= h
    /\ timers' = timers \ {g}
    /\ IF agg.gen = g /\ agg.paths # <<>>
       THEN /\ openers' = openers \cup {Opener(agg.paths)}
            /\ agg' = [agg EXCEPT !.paths = <<>>]
       ELSE UNCHANGED <<openers, agg>>
    /\ UNCHANGED <<unasked, slot, win, w, calls, jobVars, closings, history>>

-----------------------------------------------------------------------------
(* open_extract_window: the request is put in its place, what is there is   *)
(* overwritten; then the window is told or built.                           *)

Keep(o) ==
    /\ o \in openers /\ ~o.kept
    /\ slot' = o.req
    /\ overwritten' = overwritten \cup Range(slot)
    /\ openers' = (openers \ {o}) \cup {[o EXCEPT !.kept = TRUE]}
    /\ UNCHANGED <<shellVars, win, w, calls, jobVars, closings>>
    /\ UNCHANGED <<deleted, ticked, crossed, silent, dropped>>

\* Mutant of Tell: what arrives during a job is ignored.
TellIdle(o) ==
    /\ o \in openers /\ o.kept /\ win # "none"
    /\ openers' = openers \ {o}
    /\ w' = IF win = "open" /\ w.phase # "running" THEN [w EXCEPT !.pending = TRUE] ELSE w
    /\ UNCHANGED <<shellVars, slot, win, calls, jobVars, closings, history>>

\* A signal reaches a window whose listener is there.
Tell(o) ==
    /\ o \in openers /\ o.kept /\ win # "none"
    /\ openers' = openers \ {o}
    /\ w' = IF win = "open" THEN [w EXCEPT !.pending = TRUE] ELSE w
    /\ UNCHANGED <<shellVars, slot, win, calls, jobVars, closings, history>>

Build(o) ==
    /\ o \in openers /\ o.kept /\ win = "none"
    /\ openers' = openers \ {o}
    /\ win' = "mounting" /\ w' = Blank
    /\ UNCHANGED <<shellVars, slot, calls, jobVars, closings, history>>

-----------------------------------------------------------------------------
(* What the handlers of the window have in common.                          *)

Handled(x, C) ==
    /\ w' = x /\ calls' = C
    /\ UNCHANGED <<shellVars, openers, slot, win, closings>>

Target(x) == x.req[x.idx]

Done(x, result) == [x EXCEPT !.phase = "done", !.result = result]

\* confirmThenExtract up to the await of checkConflicts.
Checking(x, C) ==
    /\ w' = [x EXCEPT !.checking = TRUE]
    /\ calls' = C \cup {[Call("check", Target(x)) EXCEPT !.gen = x.gen]}

\* runBatchItem: what belongs to the item before is not inherited.
RunBatchItem(x, C) ==
    Checking([x EXCEPT !.jobId = 0, !.starting = FALSE, !.checked = NoArchive, !.opens = TRUE], C)

\* On to the next archive of the batch, or to the end of it.
Onward(x, C) ==
    IF x.idx < Len(x.req)
    THEN RunBatchItem([x EXCEPT !.idx = @ + 1], C)
    ELSE w' = Done(x, IF x.issue THEN "warning" ELSE "ok") /\ calls' = C

\* startExtract up to its await.
StartExtract(x, C) ==
    /\ w' = [x EXCEPT !.starting = TRUE]
    /\ calls' = C \cup {[Call("extract", Target(x)) EXCEPT
                            !.gen = x.gen, !.checked = x.checked, !.opens = x.opens]}

Busy == w.checking \/ w.starting \/ w.restarting \/ w.finishing \/ w.phase = "running"
        \/ w.asking \/ w.needPassword

-----------------------------------------------------------------------------
(* Mounting and taking of requests.                                         *)

\* onMount: the listeners first, then the request is taken.
Mount ==
    /\ win = "mounting"
    /\ win' = "open"
    /\ calls' = {Call("take", NoArchive)}
    /\ UNCHANGED <<shellVars, openers, slot, w, jobVars, closings, history>>

\* take_extract_context.
Take(c) ==
    /\ c \in calls /\ c.op = "take" /\ c.answer = "none"
    /\ slot' = <<>>
    /\ calls' = (calls \ {c}) \cup {[c EXCEPT !.req = slot, !.answer = "ok"]}
    /\ UNCHANGED <<shellVars, openers, win, w, jobVars, closings, history>>

\* loadContext with the request at hand, then the start that needs no form.
\* What an earlier form said of [delete after] is left as it is.
Load(x, req, C) ==
    LET y == [x EXCEPT !.req = req, !.idx = 1, !.mode = ModeOf(req), !.restarting = FALSE]
    IN  CASE y.mode = "form" ->
                \E tick \in BOOLEAN : w' = [y EXCEPT !.deleteAfter = tick] /\ calls' = C
          [] y.mode = "auto" ->  Checking([y EXCEPT !.phase = "running"], C)
          [] y.mode = "batch" -> RunBatchItem([y EXCEPT !.phase = "running"], C)

\* The first request, on mounting; without one the empty form is shown.
TakenAtMount(c) ==
    /\ c \in calls /\ c.op = "take" /\ c.answer = "ok" /\ ~w.restarting
    /\ IF c.req = <<>>
       THEN w' = w /\ calls' = calls \ {c}
       ELSE Load(w, c.req, calls \ {c})
    /\ UNCHANGED <<shellVars, openers, slot, win, jobVars, closings, history>>

\* The end of onMount: the first start has been decided.
Initialized ==
    /\ win = "open" /\ ~w.init
    /\ {c \in calls : c.op = "take"} = {} /\ ~w.checking /\ ~w.starting
    /\ Handled([w EXCEPT !.init = TRUE], calls)
    /\ UNCHANGED <<jobVars, history>>

\* The reactive statement: a request that was put off, as soon as nothing goes on.
ReactDue == w.init /\ w.pending /\ ~Busy

\* Mutant of React: the taking of a request does not count as being busy.
ReactTwice ==
    /\ win = "open" /\ ReactDue
    /\ Handled([w EXCEPT !.pending = FALSE], calls \cup {Call("take", NoArchive)})
    /\ UNCHANGED <<jobVars, history>>

React ==
    /\ win = "open" /\ ReactDue
    /\ Handled([w EXCEPT !.pending = FALSE, !.restarting = TRUE],
               calls \cup {Call("take", NoArchive)})
    /\ UNCHANGED <<jobVars, history>>

\* doRestartFromContext after its first await: a new generation, and what the
\* last request left behind is cleared away; then the settings are awaited.
Cleared(x) ==
    [x EXCEPT !.gen = @ + 1, !.jobId = 0, !.buffer = {}, !.result = "none",
              !.needPassword = FALSE, !.asking = FALSE, !.mode = "form", !.issue = FALSE,
              !.starting = FALSE, !.phase = "form", !.opens = TRUE]

Taken(c) ==
    /\ c \in calls /\ c.op = "take" /\ c.answer = "ok" /\ w.restarting
    /\ IF c.req = <<>>
       THEN Handled([w EXCEPT !.restarting = FALSE], calls \ {c})
       ELSE Handled(Cleared(w), (calls \ {c}) \cup {[c EXCEPT !.op = "load"]})
    /\ UNCHANGED <<jobVars, history>>

Loaded(c) ==
    /\ c \in calls /\ c.op = "load"
    /\ Load(w, c.req, calls \ {c})
    /\ UNCHANGED <<shellVars, openers, slot, win, jobVars, closings, history>>

-----------------------------------------------------------------------------
(* The user.                                                                *)

\* [OK] of the form; the button looks at checking and starting.  The user's
\* next event comes after the end of onMount and after what the reactive
\* statements have to do.
Confirm ==
    /\ win = "open" /\ w.init /\ ~ReactDue /\ w.phase = "form" /\ w.req # <<>>
    /\ ~w.checking /\ ~w.starting /\ ~w.asking
    /\ jobs + closings < MaxJobs
    /\ Checking(w, calls)
    /\ crossed' = (crossed \/ w.restarting)
    /\ ticked' = IF w.deleteAfter THEN ticked \cup {Target(w)} ELSE ticked
    /\ UNCHANGED <<shellVars, openers, slot, win, jobVars, closings>>
    /\ UNCHANGED <<deleted, overwritten, silent, dropped>>

\* confirmConflictChoice, for the last of the conflicts.
ConfirmConflictChoice ==
    /\ win = "open" /\ w.asking
    /\ StartExtract([w EXCEPT !.asking = FALSE], calls)
    /\ UNCHANGED <<shellVars, openers, slot, win, jobVars, closings, history>>

CancelConflict ==
    /\ win = "open" /\ w.asking
    /\ LET x == [w EXCEPT !.asking = FALSE] IN
        CASE w.mode = "form"  -> w' = x /\ calls' = calls
          [] w.mode = "auto"  -> w' = Done(x, "canceled") /\ calls' = calls
          [] w.mode = "batch" -> Onward([x EXCEPT !.issue = TRUE], calls)
    /\ UNCHANGED <<shellVars, openers, slot, win, jobVars, closings, history>>

\* Mutant of SubmitPassword: the conflicts are not looked for any more.
SubmitPasswordStarts ==
    /\ win = "open" /\ w.needPassword
    /\ jobs + closings < MaxJobs
    /\ StartExtract([w EXCEPT !.needPassword = FALSE, !.opens = TRUE], calls)
    /\ UNCHANGED <<shellVars, openers, slot, win, jobVars, closings, history>>

\* A password is tried; where the list could not be read before, the conflicts
\* are looked for now.
SubmitPassword ==
    /\ win = "open" /\ w.needPassword
    /\ jobs + closings < MaxJobs
    /\ LET x == [w EXCEPT !.needPassword = FALSE, !.opens = TRUE] IN
        IF w.checked = NoArchive THEN Checking(x, calls) ELSE StartExtract(x, calls)
    /\ UNCHANGED <<shellVars, openers, slot, win, jobVars, closings, history>>

CancelPassword ==
    /\ win = "open" /\ w.needPassword
    /\ LET x == [w EXCEPT !.needPassword = FALSE] IN
        IF w.mode = "batch" THEN Onward([x EXCEPT !.issue = TRUE], calls)
        ELSE w' = Done(x, "canceled") /\ calls' = calls
    /\ UNCHANGED <<shellVars, openers, slot, win, jobVars, closings, history>>

\* The window goes: its script ends, its job is cancelled, the label stays for
\* a while.
Gone ==
    /\ win' = "dying" /\ w' = Blank /\ calls' = {}
    /\ job' = IF job = Idle THEN job ELSE [job EXCEPT !.canceled = TRUE]
    /\ events' = {}

Close ==
    /\ win = "open"
    /\ Gone
    /\ jobs + closings < MaxJobs /\ closings' = closings + 1
    /\ UNCHANGED <<shellVars, openers, slot, jobs, good, history>>

Destroyed ==
    /\ win = "dying"
    /\ win' = "none"
    /\ UNCHANGED <<shellVars, openers, slot, w, calls, jobVars, closings, history>>

\* onCancelJob.
CancelJob ==
    /\ win = "open" /\ w.phase = "running" /\ w.jobId # 0
    /\ job # Idle /\ job.id = w.jobId /\ ~job.canceled
    /\ job' = [job EXCEPT !.canceled = TRUE]
    /\ UNCHANGED <<shellVars, openers, slot, win, w, calls, jobs, events, good, closings, history>>

-----------------------------------------------------------------------------
(* The answers of check_conflicts and extract.                              *)

\* The part of a stale answer: it is thrown away, and "checking" stays.
StaleAnswer(c) ==
    /\ c \in calls /\ c.op = "check" /\ c.gen # w.gen
    /\ Handled(w, calls \ {c})
    /\ UNCHANGED <<jobVars, history>>

NoConflict(c) ==
    /\ c \in calls /\ c.op = "check" /\ c.gen = w.gen
    /\ StartExtract([w EXCEPT !.checking = FALSE, !.checked = c.arc], calls \ {c})
    /\ UNCHANGED <<shellVars, openers, slot, win, jobVars, closings, history>>

SomeConflict(c) ==
    /\ c \in calls /\ c.op = "check" /\ c.gen = w.gen
    /\ Handled([w EXCEPT !.checking = FALSE, !.checked = c.arc, !.asking = TRUE], calls \ {c})
    /\ UNCHANGED <<jobVars, history>>

\* The list cannot be read without a password: the job will ask for it.
CheckNeedsPassword(c) ==
    /\ c \in calls /\ c.op = "check" /\ c.gen = w.gen
    /\ StartExtract([w EXCEPT !.checking = FALSE, !.checked = NoArchive, !.opens = FALSE],
                    calls \ {c})
    /\ UNCHANGED <<shellVars, openers, slot, win, jobVars, closings, history>>

\* What is not known is not overwritten.
CheckFails(c) ==
    /\ c \in calls /\ c.op = "check" /\ c.gen = w.gen
    /\ LET x == [w EXCEPT !.checking = FALSE, !.checked = NoArchive] IN
        IF w.mode = "batch" THEN Onward([x EXCEPT !.issue = TRUE], calls \ {c})
        ELSE w' = Done(x, "error") /\ calls' = calls \ {c}
    /\ UNCHANGED <<shellVars, openers, slot, win, jobVars, closings, history>>

\* The command extract: one job at a time, also those of other windows.
Extract(c) ==
    /\ c \in calls /\ c.op = "extract" /\ c.answer = "none"
    /\ \/ /\ job = Idle /\ jobs + closings < MaxJobs
          /\ jobs' = jobs + 1
          /\ job' = [id |-> jobs', arc |-> c.arc, checked |-> c.checked, opens |-> c.opens,
                     canceled |-> FALSE]
          /\ calls' = (calls \ {c}) \cup {[c EXCEPT !.answer = "ok", !.id = jobs']}
       \/ /\ calls' = (calls \ {c}) \cup {[c EXCEPT !.answer = "refused"]}
          /\ UNCHANGED <<job, jobs>>
    /\ UNCHANGED <<shellVars, openers, slot, win, w, events, good, closings, history>>

\* Mutant of Started: what came before the id is dropped.
StartedDrops(c) ==
    /\ c \in calls /\ c.op = "extract" /\ c.answer = "ok"
    /\ Handled([w EXCEPT !.jobId = c.id, !.starting = FALSE, !.result = "none",
                         !.needPassword = FALSE, !.phase = "running", !.buffer = {}],
               calls \ {c})
    /\ UNCHANGED <<jobVars, history>>

\* The id is known: what came too early is dispatched now.
Started(c) ==
    /\ c \in calls /\ c.op = "extract" /\ c.answer = "ok"
    /\ Handled([w EXCEPT !.jobId = c.id, !.starting = FALSE, !.result = "none",
                         !.needPassword = FALSE, !.phase = "running", !.buffer = {}],
               calls \ {c})
    /\ events' = events \cup w.buffer
    /\ UNCHANGED <<job, jobs, good, history>>

\* Where there is no form to say it, the error ends the request, also a batch.
Refused(c) ==
    /\ c \in calls /\ c.op = "extract" /\ c.answer = "refused"
    /\ LET x == [w EXCEPT !.starting = FALSE] IN
        Handled(IF w.phase = "form" THEN x ELSE Done(x, "error"), calls \ {c})
    /\ UNCHANGED <<jobVars, history>>

-----------------------------------------------------------------------------
(* The job and its end.                                                     *)

\* Without a password that opens the list nothing is extracted.
Outcomes == IF job.opens THEN Ends ELSE {"error", "password"}

JobEnds ==
    /\ job # Idle
    /\ \E end \in Outcomes :
        /\ end = "canceled" => job.canceled
        /\ events' = IF win = "open" THEN events \cup {[id |-> job.id, end |-> end]} ELSE {}
        /\ good' = IF end = "ok" THEN good \cup {job.arc} ELSE good
    /\ job' = Idle
    /\ UNCHANGED <<shellVars, openers, slot, win, w, calls, jobs, closings, history>>

\* The thread of the job panics: JobGuard takes it out of the registry, and
\* nothing is emitted.
JobPanics ==
    /\ job # Idle
    /\ job' = Idle /\ silent' = silent \cup {job.id}
    /\ UNCHANGED <<shellVars, openers, slot, win, w, calls, jobs, events, good, closings>>
    /\ UNCHANGED <<deleted, ticked, crossed, overwritten, dropped>>

Heard(e) == win = "open" /\ e \in events /\ events' = events \ {e}

\* dispatch: before the id is known the event is kept among 64, which the progress
\* of jobs, not counted here, may have filled; another job's is not ours.
Unmatched(e) ==
    /\ Heard(e) /\ w.jobId # e.id
    /\ \/ /\ Handled(IF w.jobId = 0 THEN [w EXCEPT !.buffer = @ \cup {e}] ELSE w, calls)
          /\ UNCHANGED dropped
       \/ /\ w.jobId = 0 /\ dropped' = dropped \cup {e.id}
          /\ Handled(w, calls)
    /\ UNCHANGED <<job, jobs, good, deleted, ticked, crossed, overwritten, silent>>

OnJobErrored(e) ==
    /\ Heard(e) /\ w.jobId = e.id
    /\ \/ /\ e.end = "password"
          /\ w' = [w EXCEPT !.jobId = 0, !.starting = FALSE, !.phase = "running",
                            !.needPassword = TRUE]
          /\ calls' = calls
       \/ /\ e.end = "error"
          /\ IF w.mode = "batch" THEN Onward([w EXCEPT !.issue = TRUE], calls)
             ELSE w' = Done(w, "error") /\ calls' = calls
    /\ UNCHANGED <<shellVars, openers, slot, win, closings, job, jobs, good, history>>

\* Mutant of Finished: the last archive decides on the result of the batch.
FinishedForgets(x, end, C) ==
    IF x.mode = "batch"
    THEN Onward([x EXCEPT !.issue = end # "ok", !.finishing = FALSE], C)
    ELSE w' = [Done(x, end) EXCEPT !.finishing = TRUE] /\ calls' = C

\* The rest of finishJob, after the archive has been deleted or not.
Finished(x, end, C) ==
    IF x.mode = "batch"
    THEN Onward([x EXCEPT !.issue = @ \/ end # "ok", !.finishing = FALSE], C)
    ELSE w' = [Done(x, end) EXCEPT !.finishing = TRUE] /\ calls' = C

\* A cancelled archive ends the batch; a complete one is deleted if [delete
\* after] is set.
OnJobFinished(e) ==
    /\ Heard(e) /\ w.jobId = e.id
    /\ e.end \in {"ok", "warning", "canceled"}
    /\ IF w.mode = "batch" /\ e.end = "canceled"
       THEN w' = Done(w, "canceled") /\ calls' = calls
       ELSE IF e.end = "ok" /\ w.deleteAfter
       THEN /\ w' = [w EXCEPT !.finishing = TRUE]
            /\ calls' = calls \cup {Call("delete", Target(w))}
       ELSE Finished(w, e.end, calls)
    /\ UNCHANGED <<shellVars, openers, slot, win, closings, job, jobs, good, history>>

\* delete_file, which may fail.
DeleteFile(c) ==
    /\ c \in calls /\ c.op = "delete"
    /\ Finished(w, "ok", calls \ {c})
    /\ deleted' \in {deleted, deleted \cup {c.arc}}
    /\ UNCHANGED <<shellVars, openers, slot, win, closings, jobVars>>
    /\ UNCHANGED <<ticked, crossed, overwritten, silent, dropped>>

\* The end of finishJob, after the folder has been opened: a request that was
\* put off goes before the closing of the window.  [Close after success] can be
\* ticked until then.
FinishUp ==
    /\ win = "open" /\ w.finishing /\ w.phase = "done"
    /\ \/ /\ w.result \in {"ok", "warning"} /\ ~w.pending
          /\ Gone
       \/ /\ w' = [w EXCEPT !.finishing = FALSE]
          /\ UNCHANGED <<win, calls, job, events>>
    /\ UNCHANGED <<shellVars, openers, slot, jobs, good, closings, history>>

-----------------------------------------------------------------------------
User ==
    \/ Confirm \/ ConfirmConflictChoice \/ CancelConflict \/ SubmitPassword \/ CancelPassword
    \/ CancelJob \/ Close

AnswersTo(c) ==
    \/ Take(c) \/ TakenAtMount(c) \/ Taken(c) \/ Loaded(c)
    \/ StaleAnswer(c) \/ NoConflict(c) \/ SomeConflict(c) \/ CheckNeedsPassword(c) \/ CheckFails(c)
    \/ Extract(c) \/ Started(c) \/ Refused(c) \/ DeleteFile(c)

\* The calls of the shell on their way to a window.
Deliver ==
    \/ \E g \in timers : Flush(g)
    \/ \E o \in openers : Keep(o) \/ Tell(o) \/ Build(o)

Script ==
    \/ Mount \/ Initialized \/ React \/ FinishUp \/ Destroyed \/ JobEnds \/ JobPanics
    \/ \E e \in events : Unmatched(e) \/ OnJobErrored(e) \/ OnJobFinished(e)

Answer == \E c \in calls : AnswersTo(c)

\* Without Crossing only the answers on their way are followed once the user
\* has crossed a request.
ExtractNext ==
    \/ Answer
    \/ /\ crossed => Crossing
       /\ Deliver \/ Script \/ User \/ \E a \in unasked : HandleInner(a)

\* Timers run out, calls are answered, jobs end and events arrive, whatever the
\* user does meanwhile in the form; what the user and the shell do is up to
\* them.
ExtractSpec ==
    /\ ExtractInit /\ [][ExtractNext]_extractVars
    /\ WF_extractVars(Deliver) /\ WF_extractVars(Script \/ Answer)

-----------------------------------------------------------------------------
(* Properties.                                                              *)

\* No path the shell named is left in the buffer without a timer that sends it
\* off (generations of Aggregator), and no request holds a path twice or paths
\* of two verbs.
Gathered ==
    /\ agg.paths # <<>> => agg.gen \in timers
    /\ \A o \in openers : /\ IsInjective(o.req)
                          /\ \A n \in DOMAIN o.req : Verb[o.req[n]] = VerbOf(o.req)

\* A job that can write was checked for conflicts with the very archive it
\* extracts, so that no file is overwritten unasked (confirmThenExtract and the
\* generations); unless the user crossed a new request with [OK].
CheckedFirst ==
    job # Idle /\ job.opens => job.checked = job.arc \/ crossed

\* From the paths the shell names to the job: a request is gathered as a whole,
\* and what it extracts was checked.
FromShellToJob == ExtractTypeOK /\ Gathered /\ CheckedFirst

\* The same without the exception.
CheckedAlways ==
    job # Idle /\ job.opens => job.checked = job.arc

\* "ok" is said of a request only if each of its archives was extracted
\* completely, and only such an archive is deleted.
HonestEnd ==
    \/ crossed
    \/ /\ w.phase = "done" /\ w.result = "ok" => Range(w.req) \subseteq good
       /\ deleted \subseteq good

\* An archive is deleted for a form whose tick the user confirmed.
DeletedAsked == deleted \subseteq ticked

\* The progress page with nothing behind it: where the password came before the
\* conflicts, the form's page is gone when the conflicts are cancelled.
LeftRunning ==
    /\ w.mode = "form" /\ w.phase = "running" /\ w.jobId = 0
    /\ ~w.checking /\ ~w.starting /\ ~w.asking /\ ~w.needPassword

\* cancelConflict: a single archive comes back to the form.
BackToForm == ~LeftRunning

\* What waits for the user, or for nothing any more.
Waiting == w.asking \/ w.needPassword \/ LeftRunning \/ crossed

\* The window waits for the end of a job that panicked, or for one it had no room for.
Unheard == w.phase = "running" /\ w.jobId \in silent \cup dropped

\* A request told to a window that was on its way out, or that went before it
\* took the request: nobody will take it.
Stranded(a) ==
    /\ a \in Range(slot) /\ win \in {"dying", "none"}
    /\ \A o \in openers : a \notin Range(o.req)

\* Each archive of a request that has its place is taken by a window that lives,
\* which does not forget that it was told while it works; or it is one of those
\* that a later request overwrites or that are stranded, or the window waits.
TakenBy(a) == \E c \in calls : a \in Range(c.req)

RequestTaken ==
    \A a \in Chosen :
        (a \in Range(slot)) ~>
            (TakenBy(a) \/ a \in overwritten \/ Stranded(a) \/ Waiting \/ Unheard)

\* "Taken after the end: the context that is kept stays on the Rust side"
\* (restartFromContext).  Violated: there is one place, and the next request
\* overwrites what waits in it.
NeverOverwritten == overwritten = {}

\* "Focus alone will not do, the new request would be dropped" (open_extract_window).
\* Violated: a window that is closing after its success is told.
NeverStranded == \A a \in Chosen : ~Stranded(a)

\* What was started comes to an end or to a question; the only ends the window
\* does not hear of are those of jobs that panicked and those it had no room for.
RunningEnds ==
    (w.phase = "running") ~>
        (w.phase # "running" \/ Unheard \/ Waiting)

\* Every job that is started ends in a result or an error (extract).  Violated by
\* a panic.
PanicIsHeard ==
    (w.phase = "running") ~> (w.phase # "running" \/ w.jobId \in dropped \/ Waiting)
=============================================================================
