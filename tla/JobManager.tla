----------------------------- MODULE JobManager -----------------------------
(***************************************************************************)
(* The job registry of the application (src-tauri/src/jobs.rs) together    *)
(* with its callers: the commands that start jobs, the worker threads that *)
(* run them, the windows that own them and die, and the shutdown sequence  *)
(* of the event loop (main.rs).                                            *)
(*                                                                         *)
(* Every operation of the registry is one critical section of its mutex    *)
(* and therefore one action.  What happens between two critical sections   *)
(* of a thread is a separate action, so that every other thread may run    *)
(* in between: a window may die between the resolution of a session token  *)
(* and the registration of the job, and finish() notifies the waiters      *)
(* only after it has released the mutex.                                   *)
(***************************************************************************)
EXTENDS Naturals, FiniteSets

CONSTANTS
    Sessions,    \* the session tokens of job windows ("compress#3"), never reused
    MainWindow,  \* owner of the jobs of a window without a session (its label)
    MaxJobs      \* bound: how many job ids are issued

ASSUME JobAssumption ==
    /\ MaxJobs \in Nat
    /\ MainWindow \notin Sessions

Jobs   == 1 .. MaxJobs
Owners == Sessions \cup {MainWindow}

VARIABLES
    counter,  \* JobManager.counter: the last id issued
    active,   \* JobState.active: the ids registered
    cancel,   \* the AtomicBool a job's worker shares with its registry entry
    owner,    \* JobInfo.owner
    retired,  \* JobState.retired: the tombstones
    closing,  \* JobState.closing
    current,  \* WindowSessions: the sessions of the windows that are open
    thread,   \* how far the command, then the worker, of a job has come
    wait,     \* the threads inside wait_session_retired / wait_retired
    running,  \* what begin_shutdown returned, for the shutdown note
    exited    \* the process has left its event loop

regVars == <<counter, active, cancel, owner, retired, closing>>
vars == <<regVars, current, thread, wait, running, exited>>

-----------------------------------------------------------------------------
(***************************************************************************)
(* The steps of one job.  The last two pairs are the two calls of          *)
(* finish(): "releasing" and "dropping" are the instants after the mutex   *)
(* of finish() is released and before it notifies.                         *)
(***************************************************************************)
ThreadSteps ==
    {"none", "resolved", "rejected", "registered", "running", "returned",
     "releasing", "released", "reported", "unwinding", "dropping", "gone"}

\* "idle": not waiting; "checking": owns the mutex next and looks at the map;
\* "sleeping": blocked on the condition variable; then the value returned.
WaitSteps == {"idle", "checking", "sleeping", "true", "false"}

\* The thread still holds the registration it has made.
Registered == {"registered", "running", "returned", "unwinding"}

\* What the waiter w waits for: the shutdown for every job, the reopening
\* of a window for the jobs of the window that died.
Busy(w) == IF w = MainWindow
              THEN active # {}
              ELSE \E j \in active : owner[j] = w

Init ==
    /\ counter = 0
    /\ active = {}
    /\ cancel = [j \in Jobs |-> FALSE]
    /\ owner = [j \in Jobs |-> MainWindow]
    /\ retired = {}
    /\ closing = FALSE
    /\ current = {}
    /\ thread = [j \in Jobs |-> "none"]
    /\ wait = [w \in Owners |-> "idle"]
    /\ running = {}
    /\ exited = FALSE

-----------------------------------------------------------------------------
(* Windows and commands. *)

\* WindowSessions::begin: a window opens under a session never used before.
OpenWindow(s) ==
    /\ s \notin current \cup retired
    /\ current' = current \cup {s}
    /\ UNCHANGED <<regVars, thread, wait, running, exited>>

\* A job command takes an id, then resolves the session token it was sent:
\* the token of a window that is gone is refused, a window without a
\* session is its own owner.
Resolve(o) ==
    LET j == counter + 1 IN
    /\ counter < MaxJobs
    /\ counter' = j
    /\ IF o \in current \cup {MainWindow}
          THEN /\ owner' = [owner EXCEPT ![j] = o]
               /\ thread' = [thread EXCEPT ![j] = "resolved"]
          ELSE /\ thread' = [thread EXCEPT ![j] = "rejected"]
               /\ UNCHANGED owner
    /\ UNCHANGED <<active, cancel, retired, closing, current, wait, running, exited>>

\* Mutants of Refuses: one of the three tests of start forgotten.
RefusesNotBusy(j)    == closing \/ owner[j] \in retired
RefusesNotRetired(j) == closing \/ active # {}
RefusesNotClosing(j) == owner[j] \in retired \/ active # {}

\* Why JobManager::start may refuse the job j.
Refuses(j) == closing \/ owner[j] \in retired \/ active # {}

\* JobManager::start: the three tests and the registration, one critical section.
Start(j) ==
    /\ thread[j] = "resolved"
    /\ IF Refuses(j)
          THEN /\ thread' = [thread EXCEPT ![j] = "rejected"]
               /\ UNCHANGED <<active, cancel>>
          ELSE /\ active' = active \cup {j}
               /\ cancel' = [cancel EXCEPT ![j] = FALSE]
               /\ thread' = [thread EXCEPT ![j] = "registered"]
    /\ UNCHANGED <<counter, owner, retired, closing, current, wait, running, exited>>

\* The command has made its JobGuard and spawns the worker; when the spawn
\* fails, the guard in the closure is dropped.
Spawn(j) ==
    /\ thread[j] = "registered"
    /\ \E t \in {"running", "unwinding"} : thread' = [thread EXCEPT ![j] = t]
    /\ UNCHANGED <<regVars, current, wait, running, exited>>

\* cancel_job: sets the flag of a registered job, ignores any other id.
Cancel(j) ==
    /\ j \in active
    /\ cancel' = [cancel EXCEPT ![j] = TRUE]
    /\ UNCHANGED <<counter, active, owner, retired, closing, current, thread, wait,
                   running, exited>>

\* Mutants of RetireSession: the tombstone carries the label of a window that
\* comes back under it, not its session; the tombstone without the cancellation.
RetireByLabel(s) ==
    /\ s \in current
    /\ retired' = retired \cup {MainWindow}
    /\ cancel' = [j \in Jobs |-> IF j \in active /\ owner[j] = s THEN TRUE ELSE cancel[j]]
    /\ current' = current \ {s}
    /\ \E reopen \in BOOLEAN :
          wait' = IF reopen THEN [wait EXCEPT ![s] = "checking"] ELSE wait
    /\ UNCHANGED <<counter, active, owner, closing, thread, running, exited>>
RetireUncancelled(s) ==
    /\ s \in current
    /\ retired' = retired \cup {s}
    /\ current' = current \ {s}
    /\ \E reopen \in BOOLEAN :
          wait' = IF reopen THEN [wait EXCEPT ![s] = "checking"] ELSE wait
    /\ UNCHANGED <<counter, active, cancel, owner, closing, thread, running, exited>>

\* on_job_window_destroyed: the tombstone and the cancellation are one
\* critical section; with requests left in the queue a thread is started
\* that waits for the jobs of the dead window before it opens the next one.
RetireSession(s) ==
    /\ s \in current
    /\ retired' = retired \cup {s}
    /\ cancel' = [j \in Jobs |-> IF j \in active /\ owner[j] = s THEN TRUE ELSE cancel[j]]
    /\ current' = current \ {s}
    /\ \E reopen \in BOOLEAN :
          wait' = IF reopen THEN [wait EXCEPT ![s] = "checking"] ELSE wait
    /\ UNCHANGED <<counter, active, owner, closing, thread, running, exited>>

-----------------------------------------------------------------------------
(* The worker thread of a job. *)

\* The backend comes back with a result, or panics.
Return(j) ==
    /\ thread[j] = "running"
    /\ \E t \in {"returned", "unwinding"} : thread' = [thread EXCEPT ![j] = t]
    /\ UNCHANGED <<regVars, current, wait, running, exited>>

\* Mutant of Finish: no guard, a job whose spawn or backend panics stays registered.
FinishUnguarded(j) ==
    /\ \/ /\ thread[j] = "returned"
          /\ thread' = [thread EXCEPT ![j] = "releasing"]
          /\ active' = active \ {j}
       \/ /\ thread[j] \in {"reported", "unwinding"}
          /\ thread' = [thread EXCEPT ![j] = "dropping"]
          /\ UNCHANGED active
    /\ UNCHANGED <<counter, cancel, owner, retired, closing, current, wait, running, exited>>

\* The critical section of finish(j), called by the explicit release of the
\* guard (before the result is emitted) and again when the guard is dropped.
Finish(j) ==
    /\ \/ /\ thread[j] = "returned"
          /\ thread' = [thread EXCEPT ![j] = "releasing"]
       \/ /\ thread[j] \in {"reported", "unwinding"}
          /\ thread' = [thread EXCEPT ![j] = "dropping"]
    /\ active' = active \ {j}
    /\ UNCHANGED <<counter, cancel, owner, retired, closing, current, wait, running, exited>>

\* Mutants of NotifyAll: finish without notification, notify_one for notify_all.
NotifyNobody == UNCHANGED wait
NotifyOne ==
    \/ (\A w \in Owners : wait[w] # "sleeping") /\ UNCHANGED wait
    \/ \E w \in Owners : wait[w] = "sleeping" /\ wait' = [wait EXCEPT ![w] = "checking"]

\* idle.notify_all(): every sleeper looks at the map again.
NotifyAll ==
    wait' = [w \in Owners |-> IF wait[w] = "sleeping" THEN "checking" ELSE wait[w]]

\* The second half of finish(j), outside of the mutex.
Notify(j) ==
    /\ \/ /\ thread[j] = "releasing"
          /\ thread' = [thread EXCEPT ![j] = "released"]
       \/ /\ thread[j] = "dropping"
          /\ thread' = [thread EXCEPT ![j] = "gone"]
    /\ NotifyAll
    /\ UNCHANGED <<regVars, current, running, exited>>

\* Mutant of Report: the result is emitted before the registration is released.
ReportEarly(j) ==
    /\ thread[j] \in {"returned", "released"}
    /\ thread' = [thread EXCEPT ![j] = "reported"]
    /\ UNCHANGED <<regVars, current, wait, running, exited>>

\* job:done, job:error or a report is emitted to the windows.
Report(j) ==
    /\ thread[j] = "released"
    /\ thread' = [thread EXCEPT ![j] = "reported"]
    /\ UNCHANGED <<regVars, current, wait, running, exited>>

-----------------------------------------------------------------------------
(* Waiting and shutdown. *)

\* wait_timeout_while evaluates its predicate under the mutex, and releases
\* the mutex and goes to sleep in one step when it still holds.
Check(w) ==
    /\ wait[w] = "checking"
    /\ wait' = [wait EXCEPT ![w] = IF Busy(w) THEN "sleeping" ELSE "true"]
    /\ UNCHANGED <<regVars, current, thread, running, exited>>

\* The time is up: the answer is read from the map, not from the clock.
Timeout(w) ==
    /\ wait[w] \in {"checking", "sleeping"}
    /\ wait' = [wait EXCEPT ![w] = IF Busy(w) THEN "false" ELSE "true"]
    /\ UNCHANGED <<regVars, current, thread, running, exited>>

\* RunEvent::Exit: no new job, the identities of the running jobs and their
\* cancellation in one critical section; then the main thread waits.
BeginShutdown ==
    /\ ~closing
    /\ closing' = TRUE
    /\ running' = active
    /\ cancel' = [j \in Jobs |-> IF j \in active THEN TRUE ELSE cancel[j]]
    /\ wait' = [wait EXCEPT ![MainWindow] = "checking"]
    /\ UNCHANGED <<counter, active, owner, retired, current, thread, exited>>

\* The main thread returns from its event loop whether or not the jobs have
\* left; on "false" it notes running in the log beside the settings.
Exit ==
    /\ wait[MainWindow] \in {"true", "false"}
    /\ exited' = TRUE
    /\ UNCHANGED <<regVars, current, thread, wait, running>>

-----------------------------------------------------------------------------
Command(j) == Start(j) \/ Spawn(j)
Worker(j)  == Return(j) \/ Finish(j) \/ Notify(j) \/ Report(j)

Step ==
    \/ \E s \in Sessions : OpenWindow(s) \/ RetireSession(s)
    \/ \E o \in Owners : Resolve(o)
    \/ \E j \in Jobs : Command(j) \/ Cancel(j) \/ Worker(j)
    \/ \E w \in Owners : Check(w) \/ Timeout(w)
    \/ BeginShutdown
    \/ Exit

\* Nothing runs once the process has exited.
Terminated == exited /\ UNCHANGED vars

Next == (~exited /\ Step) \/ Terminated

(***************************************************************************)
(* A thread that has something to do does it, except that a backend need   *)
(* only return once its job is cancelled: every backend polls the flag.    *)
(* Nothing is assumed of Timeout: the waiters have to learn that the jobs  *)
(* have left from the notifications alone.                                 *)
(***************************************************************************)
Fairness ==
    /\ \A j \in Jobs :
          /\ WF_vars(~exited /\ Command(j))
          /\ WF_vars(~exited /\ cancel[j] /\ Return(j))
          /\ WF_vars(~exited /\ (Finish(j) \/ Notify(j) \/ Report(j)))
    /\ \A w \in Owners : WF_vars(~exited /\ Check(w))

Spec == Init /\ [][Next]_vars /\ Fairness

-----------------------------------------------------------------------------
(* What the registry promises. *)

TypeOK ==
    /\ counter \in 0 .. MaxJobs
    /\ active \subseteq Jobs
    /\ cancel \in [Jobs -> BOOLEAN]
    /\ owner \in [Jobs -> Owners]
    /\ retired \subseteq Sessions
    /\ closing \in BOOLEAN
    /\ current \subseteq Sessions
    /\ thread \in [Jobs -> ThreadSteps]
    /\ wait \in [Owners -> WaitSteps]
    /\ running \subseteq Jobs
    /\ exited \in BOOLEAN

\* One job at a time: two registered jobs are the same job, however the
\* commands of several windows and the ends of workers interleave.
OneJob == \A i, j \in active : i = j

\* No orphan: a registered job whose window has died is cancelled, whether
\* it was registered before the window died or by a call that arrived late.
NoOrphan == \A j \in active : owner[j] \in retired => cancel[j]

\* Shutdown misses nothing: once it has begun, every job still registered is
\* cancelled and named in the list that goes into the shutdown note.
ShutdownCovers == closing => \A j \in active : cancel[j] /\ j \in running

\* A window that has been told the result of its job may start the next one
\* at once: the registration is gone before the result is emitted.
ReleasedBeforeReport == \A j \in active : thread[j] \notin {"released", "reported", "gone"}

\* No lost wakeup: a waiter sleeps only while what it waits for is true or a
\* finish() that made it false has yet to notify.
NoLostWakeup ==
    \A w \in Owners :
        wait[w] = "sleeping" => Busy(w) \/ \E j \in Jobs : thread[j] \in {"releasing", "dropping"}

\* "true" is a fact that lasts: once the shutdown has seen the map empty it
\* stays empty, and once a reopening has seen the dead window without jobs,
\* no late call of that window registers another one.
RetiredForGood == \A w \in Owners : wait[w] = "true" => ~Busy(w)

\* The slot comes back: a cancelled job leaves the registry even when its
\* worker could not be spawned or panicked; otherwise job_busy would last.
CancelledLeaves ==
    \A j \in Jobs : (j \in active /\ cancel[j]) ~> (j \notin active \/ exited)

\* A shutdown or a reopening that waits gets its answer without its timeout.
WaitersReturn ==
    \A w \in Owners : (wait[w] # "idle") ~> (wait[w] \in {"true", "false"} \/ exited)

\* What the runs check, hazard by hazard.

\* Jobs come one after the other: at most one is registered, and one whose result
\* a window has been told is not.
OneAfterAnother == TypeOK /\ OneJob /\ ReleasedBeforeReport

\* No job escapes those who are to stop it, the death of its window and the
\* shutdown, whatever call is under way then.
NoneEscapes == NoOrphan /\ ShutdownCovers

\* Who waits for jobs to leave is woken, and what he is told lasts.
WaitersTold == NoLostWakeup /\ RetiredForGood

\* Cancelled jobs leave, and who waits for them gets his answer.
AllLeave == CancelledLeaves /\ WaitersReturn

=============================================================================
