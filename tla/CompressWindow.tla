---------------------------- MODULE CompressWindow ----------------------------
(***************************************************************************)
(* The compress window while it is open: the coordinator that takes the    *)
(* requests out of the queue (compressCoordinator.js, compressPlan.js),    *)
(* the form, the batch and the jobs (CompressWindow.svelte).               *)
(*                                                                         *)
(* JavaScript runs in stretches: from one await, event or click to the     *)
(* next await, and then the reactive statement that tells the coordinator  *)
(* of a change.  An action is such a stretch, or a step of the backend in  *)
(* between.  A stretch may go through several functions of the code; they  *)
(* are operators here that take and return the state of the coordinator    *)
(* and of the window.                                                      *)
(*                                                                         *)
(* There is one window, and it stays: leases of others, refused calls and  *)
(* the death of the window are in CompressQueue.                           *)
(***************************************************************************)
EXTENDS Naturals, FiniteSets, FiniteSetsExt

CONSTANTS
    MaxRequests,  \* bound: how many requests arrive
    Kind,         \* of each request: "form", "auto", "batch", or "empty"
    Last,         \* the index of the last item of a batch
    Cap,          \* how many events are kept for a window that has no job yet
    MaxAdds,      \* bound: how often the user adds files
    MaxJobs,      \* bound: how many jobs the window starts
    MaxForeign    \* bound: how many jobs other windows start

Requests == 1 .. MaxRequests
None == 0        \* no request, no job, no output of a request
User == 0        \* among the inputs: what the user has added

ASSUME WindowAssumption ==
    /\ MaxRequests \in Nat /\ Last \in Nat /\ Cap \in Nat
    /\ MaxAdds \in Nat /\ MaxJobs \in Nat /\ MaxForeign \in Nat
    /\ Kind \in [Requests -> {"form", "auto", "batch", "empty"}]

VARIABLES
    queued,       \* the requests in the queue of the backend
    arrived,      \* how many have arrived
    ready,        \* the window has asked for one: it is signalled from now on
    signals,      \* signals on their way
    initialized,  \* onMount is over: changes are told to the coordinator
    co,           \* the coordinator
    win,          \* the window
    adds,         \* how often the user has added files
    slot,         \* the registry: "free", "own" or "foreign" job
    job,          \* the last job of this window: its number and the request
                  \* in whose output it writes, if any
    jobs,         \* how many jobs the window has started
    foreigns,     \* how many others have
    events,       \* results on their way to the window
    made,         \* history: how often each request's archive has been made
    silent,       \* history: the jobs whose thread panicked and told nobody
    dropped       \* history: the jobs whose result the window had no room for

queueVars == <<queued, arrived, ready, signals>>
jobVars   == <<slot, job, jobs, foreigns, events, made, silent, dropped>>
uiVars    == <<initialized, co, win>>
vars == <<queueVars, uiVars, adds, jobVars>>

Calls == {"peek", "lease", "dispatch", "ack"}

NoAnswer == [served |-> FALSE, front |-> None, more |-> FALSE]

\* The window right after its first signal to the coordinator.
Init ==
    /\ queued = {} /\ arrived = 0 /\ ready = FALSE /\ signals = 0
    /\ initialized = FALSE
    /\ co = [at |-> "lease", signalEpoch |-> 1, seenEpoch |-> 0, epoch |-> 1,
             answer |-> NoAnswer, more |-> FALSE, held |-> None, stage |-> "leased",
             reset |-> FALSE, blocked |-> FALSE, failed |-> FALSE]
    /\ win = [phase |-> "form", inputs |-> {}, output |-> None, result |-> "none",
              batch |-> FALSE, index |-> 0, issue |-> FALSE,
              starting |-> FALSE, call |-> "none", who |-> "user", item |-> FALSE,
              target |-> None, reply |-> None,
              jobId |-> None, finishing |-> FALSE, buffer |-> {}, others |-> 0,
              verified |-> {}]
    /\ adds = 0
    /\ slot = "free" /\ job = [id |-> None, target |-> None] /\ jobs = 0 /\ foreigns = 0
    /\ events = {} /\ made = [r \in Requests |-> 0] /\ silent = {} /\ dropped = {}

-----------------------------------------------------------------------------
(* The window, w: what the functions of CompressWindow.svelte make of it. *)

Busy(w)  == w.starting \/ w.phase = "running"
Dirty(w) == w.phase = "form" /\ w.inputs # {}

Standalone(r) == Kind[r] \in {"auto", "batch"}

\* resetForm
ResetForm(w) ==
    [w EXCEPT !.phase = "form", !.inputs = {}, !.output = None, !.result = "none",
              !.jobId = None, !.buffer = {}, !.others = 0]

\* onStart, up to the call of createArchive
StartOne(w, who, target) ==
    [w EXCEPT !.starting = TRUE, !.call = "sent", !.who = who, !.item = FALSE,
              !.target = target, !.verified = {}]

\* Mutant of RunItem: the window goes on to listen to the job of the item before.
RunItemStale(w, who) ==
    [w EXCEPT !.starting = TRUE, !.call = "sent", !.who = who, !.item = TRUE,
              !.target = None]

\* runCompressItem, up to the call of createArchive
RunItem(w, who) ==
    [w EXCEPT !.jobId = None, !.starting = TRUE, !.call = "sent", !.who = who,
              !.item = TRUE, !.target = None]

\* The batch begins: setBatch, or the items of planEachCompress.
BatchFrom(w, who) ==
    RunItem([w EXCEPT !.batch = TRUE, !.index = 0, !.issue = FALSE, !.verified = {}], who)

\* runPlan: the request r in the form, and its job if it brings its own.
RunPlan(w, r, reset) ==
    LET v == IF reset THEN ResetForm(w) ELSE w
        f == [v EXCEPT !.issue = FALSE, !.batch = FALSE, !.index = 0, !.inputs = @ \cup {r}]
    IN  CASE Kind[r] = "form"  -> f
          [] Kind[r] = "auto"  -> StartOne([f EXCEPT !.output = r], "coord", r)
          [] Kind[r] = "batch" -> BatchFrom(v, "coord")

\* Mutant of IssueAfter: the last item decides.
IssueOfLast(issue, status) == status # "ok"

\* batchIssueAfter
IssueAfter(issue, status) == issue \/ status # "ok"

Done(w, result) == [w EXCEPT !.phase = "done", !.result = result]

\* Mutant of NextItem: the index of the last item is taken for their number.
NextItemTooFar(w, who) ==
    IF w.index <= Last
       THEN RunItem([w EXCEPT !.index = @ + 1], who)
       ELSE [Done(w, IF w.issue THEN "warning" ELSE "ok") EXCEPT !.starting = FALSE]

\* The next item of the batch, or its end.
NextItem(w, who) ==
    IF w.index < Last
       THEN RunItem([w EXCEPT !.index = @ + 1], who)
       ELSE [Done(w, IF w.issue THEN "warning" ELSE "ok") EXCEPT !.starting = FALSE]

\* onJobFinished and onJobErrored, once the archive has been verified.
Conclude(w, status) ==
    IF w.batch /\ status # "canceled"
       THEN NextItem([w EXCEPT !.issue = IssueAfter(@, status)], "chain")
       ELSE Done(w, status)

\* onJobFinished: postProcess comes first when everything is in the archive.
Hear(w, status) ==
    IF status = "ok" THEN [w EXCEPT !.finishing = TRUE] ELSE Conclude(w, status)

\* Mutant of Drain: what came before the number is thrown away.
DrainForgets(w) == [w EXCEPT !.buffer = {}, !.others = 0]

\* drainPendingEvents
Drain(w) ==
    LET v    == [w EXCEPT !.buffer = {}, !.others = 0]
        mine == {e \in w.buffer : e.id = w.jobId}
    IN  IF mine = {} THEN v ELSE Hear(v, (CHOOSE e \in mine : TRUE).status)

\* createArchive has answered: the job is registered, or it is not.
Started(w) ==
    Drain([w EXCEPT !.jobId = w.reply, !.call = "none", !.starting = FALSE,
                    !.phase = "running", !.result = "none"])

NotStarted(w) ==
    IF w.item
       THEN NextItem([w EXCEPT !.issue = TRUE, !.call = "none"], w.who)
       ELSE [w EXCEPT !.starting = FALSE, !.call = "none"]

-----------------------------------------------------------------------------
(* The coordinator and the window, s.c and s.w: the stretches of doPump. *)

Ui == [c |-> co, w |-> win]

HasWork(c) == c.held # None \/ c.more \/ c.seenEpoch # c.signalEpoch

At(s, at)  == [s EXCEPT !.c.at = at, !.c.answer = NoAnswer]
Block(s)   == [At(s, "idle") EXCEPT !.c.blocked = TRUE]
Fail(s)    == [At(s, "idle") EXCEPT !.c.failed = TRUE]
Staged(s, stage) == [s EXCEPT !.c.stage = stage]

\* doLease: a form with inputs of its own asks first.
Look(s) ==
    At([s EXCEPT !.c.epoch = s.c.signalEpoch], IF Dirty(s.w) THEN "peek" ELSE "lease")

\* planLaunch and what follows from it, up to the dispatch.
Plan(s) ==
    LET r == s.c.held IN
    CASE Busy(s.w) -> At(s, "idle")
      [] ~Busy(s.w) /\ Kind[r] = "empty" -> At(Staged(s, "applied"), "ack")
      [] ~Busy(s.w) /\ Standalone(r) /\ Dirty(s.w) -> Block(s)
      [] OTHER -> At([s EXCEPT !.c.reset = Standalone(r) \/ s.w.phase = "done"], "dispatch")

\* The request is applied; with a job to start, its start is waited for.
Apply(s) ==
    LET t == [s EXCEPT !.w = RunPlan(s.w, s.c.held, s.c.reset)] IN
    CASE Busy(s.w) -> At(s, "idle")
      [] ~Busy(s.w) /\ Kind[s.c.held] = "form" -> At(Staged(t, "applied"), "ack")
      [] OTHER -> At(t, "apply")

\* doPump, up to its first await.
DoPump(s) ==
    CASE s.c.held = None -> Look(s)
      [] s.c.held # None /\ s.c.stage = "leased" -> Plan(s)
      [] s.c.held # None /\ s.c.stage = "dispatched" -> Apply(s)
      [] s.c.held # None /\ s.c.stage = "applied" -> At(s, "ack")

Pump(s) ==
    IF /\ s.c.at = "idle" /\ HasWork(s.c)
       /\ ~s.c.blocked /\ ~s.c.failed /\ ~Busy(s.w)
       THEN DoPump(s) ELSE s

Poke(s) == Pump([s EXCEPT !.c.blocked = @ /\ Dirty(s.w), !.c.failed = FALSE])

\* The end of doPump: what is left is gone on with.
Rest(s) == Pump(At(s, "idle"))

\* The state of both after a stretch.  When the first request is dealt with, in
\* whatever way, onMount ends in the same stretch.
Become(s) ==
    LET ended == ~initialized /\ s.c.at = "idle"
        t     == IF ended THEN Poke(s) ELSE s
    IN  co' = t.c /\ win' = t.w /\ initialized' = (initialized \/ ended)

\* The window becomes w, and the coordinator is told if that makes a difference to it.
React(w) ==
    LET s == [c |-> co, w |-> w] IN
    Become(IF initialized /\ (Busy(w) # Busy(win) \/ Dirty(w) # Dirty(win))
              THEN Poke(s) ELSE s)

-----------------------------------------------------------------------------
(* Requests, and the calls of the coordinator. *)

\* A request is pushed; the window is signalled if it has asked before.
Arrive ==
    /\ arrived < MaxRequests
    /\ arrived' = arrived + 1
    /\ queued' = queued \cup {arrived + 1}
    /\ signals' = IF ready THEN signals + 1 ELSE signals
    /\ UNCHANGED <<ready, uiVars, adds, jobVars>>

\* coord.signal, on the event compress:take-inputs.
Signal ==
    /\ signals > 0
    /\ signals' = signals - 1
    /\ Become(Pump([Ui EXCEPT !.c.signalEpoch = @ + 1, !.c.blocked = FALSE, !.c.failed = FALSE]))
    /\ UNCHANGED <<queued, arrived, ready, adds, jobVars>>

\* peek_compress_standalone or lease_compress_launch is carried out.
Serve ==
    /\ co.at \in {"peek", "lease"} /\ ~co.answer.served
    /\ co' = [co EXCEPT !.answer = [served |-> TRUE,
                                    front  |-> IF queued = {} THEN None ELSE Min(queued),
                                    more   |-> Cardinality(queued) > 1]]
    /\ ready' = (ready \/ co.at = "lease")
    /\ UNCHANGED <<queued, arrived, signals, initialized, win, adds, jobVars>>

PeekAnswer ==
    /\ co.at = "peek" /\ co.answer.served
    /\ Become(IF co.answer.front # None /\ Standalone(co.answer.front)
                 THEN Block(Ui) ELSE At(Ui, "lease"))
    /\ UNCHANGED <<queueVars, adds, jobVars>>

\* Mutant of LeaseAnswer: signals that have come in the meantime are taken for seen.
LeaseAnswerLate ==
    /\ co.at = "lease" /\ co.answer.served
    /\ LET front == co.answer.front
           s == [Ui EXCEPT !.c.seenEpoch = co.signalEpoch, !.c.more = co.answer.more,
                           !.c.held = front, !.c.stage = "leased"]
       IN  Become(IF front = None THEN Rest(s) ELSE Plan(s))
    /\ UNCHANGED <<queueVars, adds, jobVars>>

\* What was signalled before the call is seen; a request is held from now on.
LeaseAnswer ==
    /\ co.at = "lease" /\ co.answer.served
    /\ LET front == co.answer.front
           s == [Ui EXCEPT !.c.seenEpoch = co.epoch, !.c.more = co.answer.more,
                           !.c.held = front, !.c.stage = "leased"]
       IN  Become(IF front = None THEN Rest(s) ELSE Plan(s))
    /\ UNCHANGED <<queueVars, adds, jobVars>>

DispatchAnswer ==
    /\ co.at = "dispatch"
    /\ Become(Apply(Staged(Ui, "dispatched")))
    /\ UNCHANGED <<queueVars, adds, jobVars>>

AckAnswer ==
    /\ co.at = "ack"
    /\ queued' = queued \ {co.held}
    /\ Become(Rest([Ui EXCEPT !.c.held = None, !.c.stage = "leased"]))
    /\ UNCHANGED <<arrived, ready, signals, adds, jobVars>>

\* A call fails: it has not been carried out, or its answer is lost.
CallFails ==
    /\ co.at \in Calls
    /\ Become(Fail(Ui))
    /\ \/ UNCHANGED queued
       \/ co.at = "ack" /\ queued' = queued \ {co.held}
    /\ UNCHANGED <<arrived, ready, signals, adds, jobVars>>

-----------------------------------------------------------------------------
(* The user. *)

\* Files from a dialog that has been opened before, or dropped.
Add ==
    /\ adds < MaxAdds
    /\ adds' = adds + 1
    /\ React([win EXCEPT !.inputs = @ \cup {User}])
    /\ UNCHANGED <<queueVars, jobVars>>

Remove ==
    /\ win.phase = "form"
    /\ \E gone \in SUBSET win.inputs : gone # {} /\ React([win EXCEPT !.inputs = @ \ gone])
    /\ UNCHANGED <<queueVars, adds, jobVars>>

\* onStart by the button: one archive, or one for each input.
Start ==
    /\ Dirty(win) /\ ~Busy(win) /\ co.at = "idle"
    /\ \/ \E target \in {win.output, None} : React(StartOne(win, "user", target))
       \/ React([win EXCEPT !.starting = TRUE, !.call = "planning", !.who = "user"])
    /\ UNCHANGED <<queueVars, adds, jobVars>>

\* plan_each_compress has answered, or failed.
Planned ==
    /\ win.call = "planning"
    /\ \/ React(BatchFrom(win, "user"))
       \/ React([win EXCEPT !.starting = FALSE, !.call = "none"])
    /\ UNCHANGED <<queueVars, adds, jobVars>>

-----------------------------------------------------------------------------
(* The jobs. *)

\* create_archive registers the job, or refuses to: another job runs, or worse.
Create ==
    /\ win.call = "sent"
    /\ \/ /\ slot = "free" /\ jobs < MaxJobs
          /\ slot' = "own" /\ jobs' = jobs + 1
          /\ job' = [id |-> jobs + 1, target |-> win.target]
          /\ win' = [win EXCEPT !.call = "replied", !.reply = jobs + 1]
       \/ /\ win' = [win EXCEPT !.call = "replied", !.reply = None]
          /\ UNCHANGED <<slot, job, jobs>>
    /\ UNCHANGED <<queueVars, initialized, co, adds, foreigns, events, made, silent, dropped>>

\* The answer arrives; the coordinator may be waiting for it.
Created ==
    /\ win.call = "replied"
    /\ LET w == IF win.reply # None THEN Started(win) ELSE NotStarted(win)
           s == [c |-> co, w |-> w]
       IN  CASE win.who # "coord"   -> React(w)
             [] win.who = "coord" /\ win.reply # None -> Become(At(Staged(s, "applied"), "ack"))
             [] win.who = "coord" /\ win.reply = None ->
                   Become(IF w.call = "sent" THEN s ELSE Fail(s))
    /\ UNCHANGED <<queueVars, adds, jobVars>>

\* The job leaves the registry, and then its result is on its way.
JobEnds ==
    /\ slot = "own"
    /\ \E status \in {"ok", "warning", "canceled", "error"} :
          /\ events' = events \cup {[id |-> job.id, status |-> status]}
          /\ made' = IF job.target # None /\ status \in {"ok", "warning"}
                        THEN [made EXCEPT ![job.target] = @ + 1] ELSE made
    /\ slot' = "free"
    /\ UNCHANGED <<queueVars, uiVars, adds, job, jobs, foreigns, silent, dropped>>

\* The thread of the job panics: JobGuard takes it out of the registry, and
\* nothing is emitted.
JobPanics ==
    /\ slot = "own"
    /\ slot' = "free" /\ silent' = silent \cup {job.id}
    /\ UNCHANGED <<queueVars, uiVars, adds, job, jobs, foreigns, events, made, dropped>>

\* dispatch: a result arrives.
Result ==
    /\ \E e \in events :
          /\ events' = events \ {e}
          /\ CASE win.jobId = None ->
                    IF Cardinality(win.buffer) + win.others < Cap
                       THEN win' = [win EXCEPT !.buffer = @ \cup {e}] /\ UNCHANGED <<initialized, co, dropped>>
                       ELSE dropped' = dropped \cup {e.id} /\ UNCHANGED uiVars
               [] win.jobId = e.id -> React(Hear(win, e.status)) /\ UNCHANGED dropped
               [] win.jobId # None /\ win.jobId # e.id -> UNCHANGED <<uiVars, dropped>>
    /\ UNCHANGED <<queueVars, adds, slot, job, jobs, foreigns, made, silent>>

\* postProcess: the archive is verified, the originals are deleted.
PostProcess ==
    /\ win.finishing
    /\ LET w == [win EXCEPT !.finishing = FALSE] IN
       \/ React(Conclude([w EXCEPT !.verified = @ \cup {win.index}], "ok"))
       \/ React(Conclude(w, "warning"))
    /\ UNCHANGED <<queueVars, adds, jobVars>>

\* Other windows have jobs.
ForeignJob ==
    /\ \/ slot = "free" /\ foreigns < MaxForeign /\ slot' = "foreign" /\ foreigns' = foreigns + 1
       \/ slot = "foreign" /\ slot' = "free" /\ UNCHANGED foreigns
    /\ UNCHANGED <<queueVars, uiVars, adds, job, jobs, events, made, silent, dropped>>

\* Every window hears of the progress of every job and of the ends of others'.
Progress ==
    /\ jobs + foreigns > 0 /\ win.jobId = None
    /\ Cardinality(win.buffer) + win.others < Cap
    /\ win' = [win EXCEPT !.others = @ + 1]
    /\ UNCHANGED <<queueVars, initialized, co, adds, jobVars>>

-----------------------------------------------------------------------------
Next ==
    \/ Arrive \/ Signal \/ Serve
    \/ PeekAnswer \/ LeaseAnswer \/ DispatchAnswer \/ AckAnswer \/ CallFails
    \/ Add \/ Remove \/ Start \/ Planned
    \/ Create \/ Created \/ JobEnds \/ JobPanics \/ Result \/ PostProcess
    \/ ForeignJob \/ Progress

Spec == Init /\ [][Next]_vars

-----------------------------------------------------------------------------
(* What the window promises. *)

Statuses == {"ok", "warning", "canceled", "error"}
Events   == [id : 1 .. MaxJobs, status : Statuses]

CoordinatorOK ==
    /\ co.at \in {"idle", "apply"} \cup Calls
    /\ {co.signalEpoch, co.seenEpoch, co.epoch} \subseteq 0 .. MaxRequests + 1
    /\ co.held \in Requests \cup {None}
    /\ co.stage \in {"leased", "dispatched", "applied"}
    /\ {co.more, co.reset, co.blocked, co.failed} \subseteq BOOLEAN

WindowOK ==
    /\ win.phase \in {"form", "running", "done"}
    /\ win.inputs \subseteq Requests \cup {User}
    /\ win.result \in Statuses \cup {"none"}
    /\ win.index \in 0 .. Last /\ win.verified \subseteq 0 .. Last
    /\ win.call \in {"none", "planning", "sent", "replied"}
    /\ win.call # "none" <=> win.starting
    /\ win.jobId \in 0 .. MaxJobs
    /\ win.buffer \subseteq Events /\ win.others \in 0 .. Cap

TypeOK ==
    /\ queued \subseteq Requests /\ arrived \in 0 .. MaxRequests /\ signals \in 0 .. MaxRequests
    /\ CoordinatorOK /\ WindowOK
    /\ events \subseteq Events /\ silent \cup dropped \subseteq 1 .. MaxJobs
    /\ made \in [Requests -> 0 .. MaxJobs]

\* No request is forgotten: when the coordinator rests with no reason to and no
\* signal is on its way, the queue is empty, whatever signals have come during
\* its calls and whatever answers have been lost.
NoneForgotten ==
    (/\ co.at = "idle" /\ signals = 0
     /\ ~co.blocked /\ ~co.failed /\ ~Busy(win)) => queued = {}

\* Success is said only of work that is done: of every item of a batch, in the
\* batch that is on the screen, also when jobs could not be started or items
\* were retried.
HonestResult ==
    win.phase = "done" /\ win.result = "ok" =>
        win.verified = IF win.batch THEN 0 .. Last ELSE {0}

\* The window waits for the end of a job that runs or whose end is on its way.
EndOnItsWay ==
    \/ win.starting \/ win.finishing
    \/ slot = "own" /\ job.id = win.jobId
    \/ \E e \in events : e.id = win.jobId

\* A window that shows a running job hears of its end, also when the end comes
\* before the number of the job; the only ends it does not hear of are those of
\* jobs that panicked and those that came when the memory for events was full.
HearsEnd ==
    win.phase = "running" => EndOnItsWay \/ win.jobId \in silent \cup dropped

\* "From here on the end of the job leads on" (runCompressItem, onStart): every
\* job that the window shows is ended by an event.  Violated by a panic.
PanicIsHeard ==
    win.phase = "running" => EndOnItsWay \/ win.jobId \in dropped

\* "Kept until it can be told whose it is" (dispatch).  Violated when the
\* progress of other jobs has filled the memory.
KeptUntilKnown ==
    win.phase = "running" => EndOnItsWay \/ win.jobId \in silent

\* The coordinator, the window and the queue fit together, and when they rest
\* nothing waits.
RequestsKept == TypeOK /\ NoneForgotten

\* The archive of a request is made once.  Violated: the form of a request
\* whose job could not be started is started by the user, and when that job
\* has ended the coordinator tries again.
MadeOnce == \A r \in Requests : made[r] <= 1

=============================================================================
