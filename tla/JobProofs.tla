----------------------------- MODULE JobProofs -----------------------------
(***************************************************************************)
(* Proofs about the jobs, from both ends.  First the registry, for any set *)
(* of windows and any number of jobs: type correctness and the safety      *)
(* properties of JobManager.  Then the window that shows an archive and    *)
(* follows its jobs by what it hears, for any archives, any number of      *)
(* calls and jobs, and whatever the other windows do: its list is that of  *)
(* the archive it shows and in the end the latest one, a report is that of *)
(* the archive its dialog was opened for, a dialog comes to its end, and a *)
(* password goes to the archive that asked for it.                         *)
(***************************************************************************)
EXTENDS JobManager, MainWindow, TLAPS

(***************************************************************************)
(* The registry.                                                           *)
(***************************************************************************)


\* The registry holds exactly the jobs whose command or worker still has to
\* release them: this ties the map to the control of every thread.
ActiveMatches == \A j \in Jobs : j \in active <=> thread[j] \in Registered

\* The ids above the counter have not been issued.
Unissued == \A j \in Jobs : j > counter => thread[j] = "none"

\* Somebody waits for the end only after the shutdown has begun, and for the
\* jobs of a window only after its tombstone has been set.
WaitsForTheDead ==
    \A w \in Owners : wait[w] # "idle" => IF w = MainWindow THEN closing ELSE w \in retired

\* The inductive invariant.
IInv ==
    /\ TypeOK
    /\ ActiveMatches
    /\ Unissued
    /\ WaitsForTheDead
    /\ OneJob
    /\ NoOrphan
    /\ ShutdownCovers
    /\ NoLostWakeup
    /\ RetiredForGood

-----------------------------------------------------------------------------
\* The initial state satisfies the invariant.
LEMMA InitInv == Init => IInv
<1> SUFFICES ASSUME Init PROVE IInv
  OBVIOUS
<1>1. TypeOK
  <2>1. counter \in 0 .. MaxJobs
    BY JobAssumption DEF Init
  <2>2. MainWindow \in Owners /\ "none" \in ThreadSteps /\ "idle" \in WaitSteps
    BY DEF Owners, ThreadSteps, WaitSteps
  <2> QED BY <2>1, <2>2 DEF Init, TypeOK
<1>2. ActiveMatches /\ Unissued
  BY DEF Init, ActiveMatches, Unissued, Registered
<1>3. OneJob /\ NoOrphan /\ ShutdownCovers
  BY DEF Init, OneJob, NoOrphan, ShutdownCovers
<1>4. WaitsForTheDead /\ NoLostWakeup /\ RetiredForGood
  BY DEF Init, WaitsForTheDead, NoLostWakeup, RetiredForGood
<1> QED BY <1>1, <1>2, <1>3, <1>4 DEF IInv

\* A command takes the next id and resolves its token: no registered job has that id.
LEMMA ResolveInv == ASSUME IInv, NEW o \in Owners, Resolve(o) PROVE IInv'
<1> DEFINE j == counter + 1
<1>1. j \in Jobs /\ thread[j] = "none" /\ j \notin active
  BY JobAssumption
     DEF IInv, TypeOK, Resolve, Jobs, Unissued, ActiveMatches, Registered
<1>2. \A i \in Jobs : i # j => thread'[i] = thread[i] /\ owner'[i] = owner[i]
  BY <1>1 DEF IInv, TypeOK, Resolve
<1>3. thread'[j] \in {"resolved", "rejected"}
  BY <1>1 DEF IInv, TypeOK, Resolve
<1>4. TypeOK'
  BY <1>1, JobAssumption DEF IInv, TypeOK, Resolve, Jobs, ThreadSteps, regVars
<1>5. UNCHANGED <<active, cancel, retired, closing, wait, running>> /\ counter' = j
  BY DEF Resolve
<1>6. \A w \in Owners : Busy(w)' = Busy(w)
  BY <1>1, <1>2, <1>5 DEF Busy, IInv, TypeOK
<1>7. ActiveMatches'
  BY <1>1, <1>2, <1>3, <1>5 DEF IInv, ActiveMatches, Registered
<1>8. Unissued'
  BY <1>1, <1>2, <1>5, JobAssumption DEF IInv, TypeOK, Unissued, Jobs
<1>9. (OneJob /\ NoOrphan /\ ShutdownCovers)'
  BY <1>1, <1>2, <1>5 DEF IInv, TypeOK, OneJob, NoOrphan, ShutdownCovers
<1>10. NoLostWakeup'
  BY <1>1, <1>2, <1>5, <1>6 DEF IInv, NoLostWakeup
<1>11. (WaitsForTheDead /\ RetiredForGood)'
  BY <1>5, <1>6 DEF IInv, WaitsForTheDead, RetiredForGood
<1> QED BY <1>4, <1>7, <1>8, <1>9, <1>10, <1>11 DEF IInv

\* start registers a job only when none is registered, its window has no
\* tombstone and the shutdown has not begun.
LEMMA StartInv == ASSUME IInv, NEW j \in Jobs, Start(j) PROVE IInv'
<1>1. CASE Refuses(j)
  <2>1. UNCHANGED <<active, cancel, counter, owner, retired, closing, wait, running>>
    BY <1>1 DEF Start
  <2>2. thread' = [thread EXCEPT ![j] = "rejected"] /\ thread[j] = "resolved"
    BY <1>1 DEF Start
  <2>3. \A w \in Owners : Busy(w)' = Busy(w)
    BY <2>1 DEF Busy
  <2>4. TypeOK'
    BY <2>2, <1>1 DEF Start, IInv, TypeOK, ThreadSteps
  <2>5. (ActiveMatches /\ Unissued /\ NoLostWakeup)'
    BY <2>1, <2>2, <2>3
       DEF IInv, TypeOK, ActiveMatches, Registered, Unissued, NoLostWakeup, Jobs
  <2>6. (WaitsForTheDead /\ OneJob /\ NoOrphan /\ ShutdownCovers /\ RetiredForGood)'
    BY <2>1, <2>3
       DEF IInv, WaitsForTheDead, OneJob, NoOrphan, ShutdownCovers, RetiredForGood
  <2> QED BY <2>4, <2>5, <2>6 DEF IInv
<1>2. CASE ~Refuses(j)
  <2>1. /\ thread[j] = "resolved"
        /\ active = {} /\ active' = {j}
        /\ ~closing /\ owner[j] \notin retired
        /\ thread' = [thread EXCEPT ![j] = "registered"]
        /\ cancel' = [cancel EXCEPT ![j] = FALSE]
        /\ UNCHANGED <<counter, owner, retired, closing, wait, running>>
    BY <1>2 DEF Start, Refuses
  <2>2. TypeOK'
    BY <2>1, <1>2 DEF Start, IInv, TypeOK, ThreadSteps
  <2>3. (ActiveMatches /\ Unissued /\ WaitsForTheDead)'
    BY <2>1 DEF IInv, TypeOK, ActiveMatches, Registered, Unissued, WaitsForTheDead, Jobs
  <2>4. (OneJob /\ NoOrphan /\ ShutdownCovers)'
    BY <2>1 DEF OneJob, NoOrphan, ShutdownCovers
  <2>5. NoLostWakeup'
    BY <2>1 DEF IInv, TypeOK, NoLostWakeup, Busy
  <2>6. RetiredForGood'
    BY <2>1 DEF IInv, TypeOK, WaitsForTheDead, RetiredForGood, Busy
  <2> QED BY <2>2, <2>3, <2>4, <2>5, <2>6 DEF IInv
<1> QED BY <1>1, <1>2

\* The steps of a thread that leave the registry alone.
LEMMA ThreadStepInv ==
  ASSUME IInv, NEW j \in Jobs, Spawn(j) \/ Return(j) \/ Report(j)
  PROVE  IInv'
<1>1. /\ UNCHANGED <<regVars, current, wait, running, exited>>
      /\ thread[j] \in {"registered", "running", "released"}
      /\ \E t \in {"running", "returned", "reported", "unwinding"} :
            /\ thread' = [thread EXCEPT ![j] = t]
            /\ t \in Registered <=> thread[j] \in Registered
  BY DEF Spawn, Return, Report, Registered
<1>2. TypeOK'
  BY <1>1 DEF IInv, TypeOK, ThreadSteps, regVars
<1>3. \A w \in Owners : Busy(w)' = Busy(w)
  BY <1>1 DEF Busy, regVars
<1>4. (ActiveMatches /\ Unissued /\ NoLostWakeup)'
  BY <1>1, <1>3
     DEF IInv, TypeOK, ActiveMatches, Registered, Unissued, NoLostWakeup, regVars, Jobs
<1>5. (WaitsForTheDead /\ OneJob /\ NoOrphan /\ ShutdownCovers /\ RetiredForGood)'
  BY <1>1, <1>3
     DEF IInv, WaitsForTheDead, OneJob, NoOrphan, ShutdownCovers, RetiredForGood, regVars
<1> QED BY <1>2, <1>4, <1>5 DEF IInv

\* cancel only raises flags.
LEMMA CancelInv == ASSUME IInv, NEW j \in Jobs, Cancel(j) PROVE IInv'
<1>1. /\ cancel' = [cancel EXCEPT ![j] = TRUE]
      /\ UNCHANGED <<counter, active, owner, retired, closing, current, thread, wait,
                     running, exited>>
  BY DEF Cancel
<1>2. \A w \in Owners : Busy(w)' = Busy(w)
  BY <1>1 DEF Busy
<1>3. TypeOK'
  BY <1>1 DEF IInv, TypeOK
<1>4. (NoOrphan /\ ShutdownCovers)'
  BY <1>1 DEF IInv, TypeOK, NoOrphan, ShutdownCovers
<1>5. (ActiveMatches /\ Unissued /\ WaitsForTheDead /\ OneJob /\ NoLostWakeup /\ RetiredForGood)'
  BY <1>1, <1>2
     DEF IInv, ActiveMatches, Unissued, WaitsForTheDead, OneJob, NoLostWakeup, RetiredForGood
<1> QED BY <1>3, <1>4, <1>5 DEF IInv

\* A window dies: its tombstone is set in the critical section that cancels its jobs.
LEMMA RetireInv == ASSUME IInv, NEW s \in Sessions, RetireSession(s) PROVE IInv'
<1>1. /\ retired' = retired \cup {s}
      /\ cancel' = [j \in Jobs |-> IF j \in active /\ owner[j] = s THEN TRUE ELSE cancel[j]]
      /\ UNCHANGED <<counter, active, owner, closing, thread, running, exited>>
      /\ wait' = wait \/ wait' = [wait EXCEPT ![s] = "checking"]
      /\ s \in Owners /\ s # MainWindow
  BY JobAssumption DEF RetireSession, Owners
<1>2. \A w \in Owners : Busy(w)' = Busy(w)
  BY <1>1 DEF Busy
<1>3. TypeOK'
  BY <1>1 DEF IInv, TypeOK, RetireSession, WaitSteps
<1>4. (NoOrphan /\ ShutdownCovers)'
  BY <1>1 DEF IInv, TypeOK, NoOrphan, ShutdownCovers
<1>5. (ActiveMatches /\ Unissued /\ OneJob)'
  BY <1>1 DEF IInv, ActiveMatches, Unissued, OneJob
<1>6. (WaitsForTheDead /\ NoLostWakeup /\ RetiredForGood)'
  BY <1>1, <1>2 DEF IInv, TypeOK, WaitsForTheDead, NoLostWakeup, RetiredForGood
<1> QED BY <1>3, <1>4, <1>5, <1>6 DEF IInv

\* finish: the job leaves the map and its thread owes a notification.
LEMMA FinishInv == ASSUME IInv, NEW j \in Jobs, Finish(j) PROVE IInv'
<1>1. /\ active' = active \ {j}
      /\ UNCHANGED <<counter, cancel, owner, retired, closing, current, wait, running, exited>>
      /\ thread[j] \in {"returned", "reported", "unwinding"}
      /\ \E t \in {"releasing", "dropping"} : thread' = [thread EXCEPT ![j] = t]
  BY DEF Finish
<1>2. TypeOK'
  BY <1>1 DEF IInv, TypeOK, ThreadSteps
<1>3. (ActiveMatches /\ Unissued)'
  BY <1>1 DEF IInv, TypeOK, ActiveMatches, Unissued, Registered, Jobs
<1>4. (WaitsForTheDead /\ OneJob /\ NoOrphan /\ ShutdownCovers)'
  BY <1>1 DEF IInv, WaitsForTheDead, OneJob, NoOrphan, ShutdownCovers
<1>5. NoLostWakeup'
  <2>1. thread'[j] \in {"releasing", "dropping"}
    BY <1>1 DEF IInv, TypeOK
  <2> QED BY <2>1 DEF NoLostWakeup
<1>6. RetiredForGood'
  BY <1>1 DEF IInv, RetiredForGood, Busy
<1> QED BY <1>2, <1>3, <1>4, <1>5, <1>6 DEF IInv

\* notify_all: nobody sleeps any more.
LEMMA NotifyInv == ASSUME IInv, NEW j \in Jobs, Notify(j) PROVE IInv'
<1>1. /\ UNCHANGED <<counter, active, cancel, owner, retired, closing, running>>
      /\ wait' = [w \in Owners |-> IF wait[w] = "sleeping" THEN "checking" ELSE wait[w]]
      /\ thread[j] \in {"releasing", "dropping"}
      /\ \E t \in {"released", "gone"} : thread' = [thread EXCEPT ![j] = t]
  BY DEF Notify, NotifyAll, regVars
<1>2. \A w \in Owners : Busy(w)' = Busy(w)
  BY <1>1 DEF Busy
<1>3. TypeOK'
  BY <1>1 DEF Notify, NotifyAll, regVars, IInv, TypeOK, ThreadSteps, WaitSteps
<1>4. (ActiveMatches /\ Unissued)'
  BY <1>1 DEF IInv, TypeOK, ActiveMatches, Unissued, Registered, Jobs
<1>5. (OneJob /\ NoOrphan /\ ShutdownCovers)'
  BY <1>1 DEF IInv, OneJob, NoOrphan, ShutdownCovers
<1>6. (WaitsForTheDead /\ NoLostWakeup /\ RetiredForGood)'
  BY <1>1, <1>2 DEF IInv, TypeOK, WaitsForTheDead, NoLostWakeup, RetiredForGood, WaitSteps
<1> QED BY <1>3, <1>4, <1>5, <1>6 DEF IInv

\* A waiter that looks at the map sleeps only when it has something to wait
\* for and answers "true" only when it has not.
LEMMA WaitInv == ASSUME IInv, NEW w \in Owners, Check(w) \/ Timeout(w) PROVE IInv'
<1>1. /\ UNCHANGED <<regVars, current, thread, running, exited>>
      /\ wait[w] \in {"checking", "sleeping"}
      /\ \E v \in {"sleeping", "true", "false"} :
            /\ wait' = [wait EXCEPT ![w] = v]
            /\ v = "sleeping" => Busy(w)
            /\ v = "true" => ~Busy(w)
  BY DEF Check, Timeout
<1>2. \A u \in Owners : Busy(u)' = Busy(u)
  BY <1>1 DEF Busy, regVars
<1>3. TypeOK'
  BY <1>1 DEF IInv, TypeOK, WaitSteps, regVars
<1>4. (ActiveMatches /\ Unissued /\ OneJob /\ NoOrphan /\ ShutdownCovers)'
  BY <1>1 DEF IInv, ActiveMatches, Unissued, OneJob, NoOrphan, ShutdownCovers, regVars
<1>5. (WaitsForTheDead /\ NoLostWakeup /\ RetiredForGood)'
  BY <1>1, <1>2 DEF IInv, TypeOK, WaitsForTheDead, NoLostWakeup, RetiredForGood, regVars
<1> QED BY <1>3, <1>4, <1>5 DEF IInv

\* begin_shutdown: the list, the flags and the closing mark are one critical section.
LEMMA ShutdownInv == ASSUME IInv, BeginShutdown PROVE IInv'
<1>1. /\ closing' = TRUE
      /\ running' = active
      /\ cancel' = [j \in Jobs |-> IF j \in active THEN TRUE ELSE cancel[j]]
      /\ wait' = [wait EXCEPT ![MainWindow] = "checking"]
      /\ UNCHANGED <<counter, active, owner, retired, current, thread, exited>>
  BY DEF BeginShutdown
<1>2. \A w \in Owners : Busy(w)' = Busy(w)
  BY <1>1 DEF Busy
<1>3. TypeOK'
  BY <1>1 DEF IInv, TypeOK, WaitSteps
<1>4. (NoOrphan /\ ShutdownCovers)'
  BY <1>1 DEF IInv, TypeOK, NoOrphan, ShutdownCovers
<1>5. (ActiveMatches /\ Unissued /\ OneJob)'
  BY <1>1 DEF IInv, ActiveMatches, Unissued, OneJob
<1>6. (WaitsForTheDead /\ NoLostWakeup /\ RetiredForGood)'
  BY <1>1, <1>2 DEF IInv, TypeOK, WaitsForTheDead, NoLostWakeup, RetiredForGood
<1> QED BY <1>3, <1>4, <1>5, <1>6 DEF IInv

\* The steps that change none of the variables the invariant speaks of.
LEMMA UnrelatedInv ==
  ASSUME IInv,
         UNCHANGED <<regVars, thread, wait, running>>,
         current' \subseteq Sessions, exited' \in BOOLEAN
  PROVE  IInv'
<1>1. \A w \in Owners : Busy(w)' = Busy(w)
  BY DEF Busy, regVars
<1> QED BY <1>1
     DEF IInv, TypeOK, ActiveMatches, Unissued, WaitsForTheDead, OneJob, NoOrphan,
         ShutdownCovers, NoLostWakeup, RetiredForGood, regVars

-----------------------------------------------------------------------------
\* Every step of the registry, its callers and the shutdown keeps the invariant.
LEMMA NextInv == IInv /\ [Next]_vars => IInv'
<1> SUFFICES ASSUME IInv, [Next]_vars PROVE IInv'
  OBVIOUS
<1> USE DEF Command, Worker
<1>1. ASSUME NEW s \in Sessions, OpenWindow(s) PROVE IInv'
  BY <1>1, UnrelatedInv DEF OpenWindow, IInv, TypeOK
<1>2. ASSUME NEW s \in Sessions, RetireSession(s) PROVE IInv'
  BY <1>2, RetireInv
<1>3. ASSUME NEW o \in Owners, Resolve(o) PROVE IInv'
  BY <1>3, ResolveInv
<1>4. ASSUME NEW j \in Jobs, Command(j) \/ Cancel(j) \/ Worker(j) PROVE IInv'
  BY <1>4, StartInv, ThreadStepInv, CancelInv, FinishInv, NotifyInv
<1>5. ASSUME NEW w \in Owners, Check(w) \/ Timeout(w) PROVE IInv'
  BY <1>5, WaitInv
<1>6. CASE BeginShutdown
  BY <1>6, ShutdownInv
<1>7. CASE Exit
  BY <1>7, UnrelatedInv DEF Exit, IInv, TypeOK
<1>8. CASE UNCHANGED vars
  BY <1>8, UnrelatedInv DEF vars, IInv, TypeOK
<1> QED BY <1>1, <1>2, <1>3, <1>4, <1>5, <1>6, <1>7, <1>8 DEF Next, Step, Terminated

\* The inductive invariant holds in every reachable state.
THEOREM Invariance == Spec => []IInv
  BY InitInv, NextInv, PTL DEF Spec

\* Type correctness of the registry.
THEOREM TypeCorrect == Spec => []TypeOK
  BY Invariance, PTL DEF IInv

\* At most one job is registered, whatever the windows and workers do.
THEOREM OneJobAtATime == Spec => []OneJob
  BY Invariance, PTL DEF IInv

\* A job whose window has died is cancelled, also when its start arrived late.
THEOREM NoOrphanJob == Spec => []NoOrphan
  BY Invariance, PTL DEF IInv

\* begin_shutdown leaves no registered job uncancelled or unnamed.
THEOREM ShutdownIsComplete == Spec => []ShutdownCovers
  BY Invariance, PTL DEF IInv

\* The result of a job is emitted only after its registration is gone.
THEOREM ReleaseFirst == Spec => []ReleasedBeforeReport
<1>1. IInv => ReleasedBeforeReport
  BY DEF IInv, TypeOK, ActiveMatches, ReleasedBeforeReport, Registered
<1> QED BY <1>1, Invariance, PTL

\* No waiter sleeps through the end of the last job it waits for.
THEOREM WakeupsArrive == Spec => []NoLostWakeup
  BY Invariance, PTL DEF IInv

\* The answer "true" of a wait stays a fact.
THEOREM RetirementLasts == Spec => []RetiredForGood
  BY Invariance, PTL DEF IInv

\* try_start, finish and the threads of the commands: jobs come one after the
\* other.
THEOREM JobsInTurn == Spec => []OneAfterAnother
  BY TypeCorrect, OneJobAtATime, ReleaseFirst, PTL DEF OneAfterAnother

\* retire_session and begin_shutdown: no job escapes them.
THEOREM NobodyEscapes == Spec => []NoneEscapes
  BY NoOrphanJob, ShutdownIsComplete, PTL DEF NoneEscapes

\* finish, wait_session_idle and wait_all_idle: waiters are woken and told what
\* lasts.
THEOREM WaitersAreTold == Spec => []WaitersTold
  BY WakeupsArrive, RetirementLasts, PTL DEF WaitersTold

-----------------------------------------------------------------------------
(***************************************************************************)
(* The window.                                                             *)
(***************************************************************************)

JobKinds == Kinds \cup {"edit"}
Ops      == JobKinds \cup {"open", "reload", "pick", "entry", "confirm"}
Answers  == {"none", "ok", "refused"}
Maybe    == Archives \cup {Nothing}

\* The records the variables are made of.
CallSet(no) == [op : Ops, arc : Archives, pw : BOOLEAN, answer : Answers,
                id : 0..jobs, ver : Nat, no : {no}]
JobSet      == [id : {jobs}, kind : JobKinds, arc : Maybe, pw : BOOLEAN,
                own : BOOLEAN, canceled : BOOLEAN]
StartSet    == [ev : {"started"}, id : 1..jobs, kind : JobKinds]
EndSet      == [ev : {"report", "done", "error"}, id : 1..jobs, kind : JobKinds,
                arc : Maybe, end : {"ok", "canceled", "error", "password"}]
Dialogs     == [phase : {"closed", "running", "done", "failed"}, of : Maybe, shown : Maybe]

ShownOK ==
    /\ path \in Maybe /\ list \in [arc : Maybe, ver : Nat]
    /\ path # Nothing => list.arc # Nothing
    /\ pw \in [open : BOOLEAN, mode : Modes] /\ pend \in [Modes -> Maybe]
    /\ asker \in Maybe
    /\ ver \in [Archives -> Nat] /\ gone \subseteq Archives
    /\ acts \in 0..MaxActs
    /\ lapses \subseteq {"overtaken", "early", "unread", "blind", "left", "late", "behind"}
FollowOK ==
    /\ dlg \in [Kinds -> Dialogs] /\ known \in [Kinds -> 0..jobs]
    /\ awaiting \in [Kinds -> BOOLEAN]
    /\ activeJob \in 0..jobs /\ editId \in 0..jobs /\ ext \subseteq 1..jobs
    /\ jobs \in 0..MaxStarts

\* A call has the id of its job once it is answered, and not before.
CallsOK ==
    \A c \in calls : /\ c \in CallSet(c.no)
                     /\ c.answer # "ok" => c.id = 0
                     /\ c.op \in JobKinds /\ c.answer = "ok" => c.id # 0
                     /\ c.op \in {"open", "reload"} => c.ver <= ver[c.arc]
                     /\ c.op \in {"pick", "entry", "confirm"} => c.answer = "none"
\* The jobs of this window are about an archive that it shows.
JobOK ==
    /\ silent \subseteq 1..jobs
    /\ job # NoJob => /\ job \in JobSet /\ jobs # 0
                      /\ job.own <=> job.arc # Nothing
\* A report is one of a test or a scan, "done" is said of an edit, and an edit
\* never asks for a password.
EventOK(e) ==
    \/ e \in StartSet
    \/ /\ e \in EndSet
       /\ e.ev = "report" => e.kind \in Kinds
       /\ e.ev = "done" => e.kind = "edit"
       /\ e.end = "password" => e.kind \in Kinds
EventSet == {e \in StartSet \cup EndSet : EventOK(e)}
EventsOK == events \in Seq(EventSet)

Types == ShownOK /\ FollowOK /\ CallsOK /\ JobOK /\ EventsOK

-----------------------------------------------------------------------------
(* The jobs and what is told of them.                                       *)

\* What was emitted and has not been heard.
News == {events[i] : i \in 1..Len(events)}

IsEnd(e)   == e.ev # "started"
InWork(id) == job # NoJob /\ job.id = id

\* The end of a job is on its way: it runs, or it has ended and was not heard; or
\* the job has panicked.
Due(id, kind) ==
    \/ id \in silent
    \/ InWork(id) /\ job.kind = kind
    \/ \E e \in News : IsEnd(e) /\ e.id = id /\ e.kind = kind

\* What is still told of a job says of it that it is of this kind.
OfKind(id, kind) ==
    /\ InWork(id) => job.kind = kind
    /\ \A e \in News : e.id = id => e.kind = kind

\* What is still told of the end of a job is about this archive.
About(id, arc) ==
    /\ InWork(id) => job.arc = arc
    /\ \A e \in News : IsEnd(e) /\ e.id = id => e.arc = arc

\* After the end of a job only later ones are told of.
InTurn ==
    /\ \A i, j \in 1..Len(events) :
         i < j /\ IsEnd(events[i]) => events[i].id < events[j].id
    /\ \A e \in News : IsEnd(e) /\ job # NoJob => e.id < job.id
\* One kind to a job.
OneKind ==
    /\ \A e \in News : OfKind(e.id, e.kind)
    /\ \A c \in calls : c.op \in JobKinds /\ c.answer = "ok" =>
         OfKind(c.id, c.op) /\ About(c.id, c.arc)
\* What was started comes to an end.
StartsEnd == \A e \in News : ~IsEnd(e) => Due(e.id, e.kind)

Told == InTurn /\ OneKind /\ StartsEnd

-----------------------------------------------------------------------------
(* What the window has taken for its own.                                   *)

\* The panel shows an edit that will be heard to end; what belongs to a test or
\* a scan of any window is no edit.
PanelEnds ==
    /\ activeJob # 0 => Due(activeJob, "edit")
    /\ \A x \in ext : /\ InWork(x) => job.kind # "edit"
                      /\ \A e \in News : e.id = x => e.kind # "edit"

\* A dialog waits only for a call that is not answered, and knows only jobs of
\* its kind.
DialogsWait ==
    \A k \in Kinds : /\ awaiting[k] => Unanswered(k)
                     /\ known[k] # 0 => OfKind(known[k], k)

Blind == "blind" \in lapses

\* One call at a time; a dialog that waits has it, and until the start is heard
\* the job is to be told of.
OneCall == \A k \in Kinds : \A c, d \in calls : c.op = k /\ d.op = k => c = d
OwnCall ==
    \A k \in Kinds : \A c \in calls :
        c.op = k /\ awaiting[k] =>
            /\ c.arc = dlg[k].of
            /\ c.answer = "ok" =>
                 \/ known[k] = c.id /\ Due(c.id, k)
                 \/ \E e \in News : ~IsEnd(e) /\ e.id = c.id /\ e.kind = k
OwnJob ==
    \A k \in Kinds : known[k] # 0 => About(known[k], dlg[k].of) /\ dlg[k].of # Nothing
OwnReport == \A k \in Kinds : dlg[k].phase = "done" => dlg[k].shown = dlg[k].of

Own == ~Blind => OneCall /\ OwnCall /\ OwnJob /\ OwnReport

\* A dialog that runs asks for the password, waits for its call or for the end
\* of its job.
Settling ==
    "left" \notin lapses /\ ~Blind =>
        \A k \in Kinds : dlg[k].phase = "running" =>
            \/ pw.open /\ pw.mode = k
            \/ awaiting[k]
            \/ known[k] # 0 /\ Due(known[k], k)

-----------------------------------------------------------------------------
(* The list and the archives.                                               *)

Unnoticed == lapses \cap {"early", "unread", "overtaken"} # {}

\* The end of an edit that has changed the archive is on its way.
DoneComes(arc) ==
    \E e \in News : e.ev = "done" /\ e.end = "ok" /\ e.arc = arc

\* The window knows the id of its edit or is about to be told.
Tied(id) == editId = id \/ \E c \in calls : c.op = "edit" /\ c.answer = "ok" /\ c.id = id
EditsTied ==
    /\ job # NoJob /\ job.own /\ job.kind = "edit" => Tied(job.id)
    /\ \A e \in News :
         e.ev = "done" /\ e.end = "ok" /\ e.arc # Nothing => Tied(e.id)

\* A list that has been read is the latest, or the end of an edit comes.
ListsRead ==
    \A c \in calls : c.op \in {"open", "reload"} /\ c.answer = "ok" =>
        c.ver = ver[c.arc] \/ DoneComes(c.arc)
\* So is the one that is shown, or it is read again.
Latest ==
    path # Nothing =>
        \/ list.ver = ver[path]
        \/ DoneComes(path)
        \/ \E c \in calls : c.op = "reload" /\ c.arc = path

Lists == ListIsShown /\ (~Unnoticed => EditsTied /\ ListsRead /\ Latest)

\* Who has opened the password dialog is whom the next try goes to, if there is one.
Asked ==
    pw.open /\ lapses \cap {"late", "behind", "blind"} = {} =>
        /\ pw.mode = "entry" => path \in {asker, Nothing}
        /\ pw.mode = "open" => pend["open"] = asker
        /\ pw.mode \in Kinds => pend[pw.mode] \in {asker, Nothing}

\* A dialog is tried again on the archive it was opened for.
Retried == \A k \in Kinds : dlg[k].of # Nothing => pend[k] \in {dlg[k].of, Nothing}

\* The inductive invariant.
WindowInv == Types /\ Told /\ PanelEnds /\ DialogsWait /\ Own /\ Settling /\ Lists /\ Asked

-----------------------------------------------------------------------------
(* Calls, jobs and news.                                                    *)

\* Something more is emitted.
LEMMA MoreNews ==
  ASSUME EventsOK, NEW x \in EventSet, events' = Append(events, x)
  PROVE  /\ events' \in Seq(EventSet)
         /\ News' = News \cup {x}
         /\ Len(events') = Len(events) + 1 /\ Len(events) \in Nat
         /\ \A i \in 1..Len(events) : events'[i] = events[i]
         /\ events'[Len(events) + 1] = x
<1>1. /\ events' \in Seq(EventSet)
      /\ Len(events') = Len(events) + 1 /\ Len(events) \in Nat
      /\ \A i \in 1..Len(events) : events'[i] = events[i]
      /\ events'[Len(events) + 1] = x
  BY DEF EventsOK
<1>2. News' = {events'[i] : i \in 1..Len(events) + 1}
  BY <1>1 DEF News
<1>3. \A e : e \in News' <=> \E i \in 1..Len(events) + 1 : e = events'[i]
  BY <1>2
<1>4. \A e : e \in News <=> \E i \in 1..Len(events) : e = events[i]
  BY DEF News
<1>5. News' = News \cup {x}
  BY <1>1, <1>3, <1>4
<1> QED BY <1>1, <1>5

\* The first of the news is heard.
LEMMA LessNews ==
  ASSUME EventsOK, InTurn, events # <<>>, events' = Tail(events)
  PROVE  /\ events' \in Seq(EventSet)
         /\ Head(events) \in News /\ Head(events) \in EventSet
         /\ News = News' \cup {Head(events)}
         /\ IsEnd(Head(events)) => \A e \in News' : Head(events).id < e.id
         /\ Len(events') = Len(events) - 1 /\ Len(events) \in Nat
         /\ \A i \in 1..Len(events') : events'[i] = events[i + 1]
<1>1. /\ events' \in Seq(EventSet)
      /\ Len(events) \in Nat /\ Len(events) # 0
      /\ Len(events') = Len(events) - 1
      /\ \A i \in 1..Len(events') : events'[i] = events[i + 1]
      /\ Head(events) = events[1] /\ Head(events) \in EventSet
  BY DEF EventsOK
<1>2. \A e : e \in News' <=> \E i \in 1..Len(events') : e = events'[i]
  BY DEF News
<1>3. \A e : e \in News <=> \E i \in 1..Len(events) : e = events[i]
  BY DEF News
<1>4. News' = {events[i] : i \in 2..Len(events)}
  <2>1. ASSUME NEW e \in News' PROVE \E i \in 2..Len(events) : e = events[i]
    <3>1. PICK i \in 1..Len(events') : e = events'[i]
      BY <1>2
    <3>2. i + 1 \in 2..Len(events) /\ e = events[i + 1]
      BY <1>1, <3>1
    <3> QED BY <3>2
  <2>2. ASSUME NEW i \in 2..Len(events) PROVE events[i] \in News'
    <3>1. i - 1 \in 1..Len(events') /\ (i - 1) + 1 = i
      BY <1>1
    <3>2. events'[i - 1] = events[i]
      BY <1>1, <3>1
    <3> QED BY <1>2, <3>1, <3>2
  <2> QED BY <2>1, <2>2
<1>5. News = News' \cup {events[1]}
  <2>1. \A i \in 1..Len(events) : i = 1 \/ i \in 2..Len(events)
    BY <1>1
  <2>2. 1 \in 1..Len(events) /\ 2..Len(events) \subseteq 1..Len(events)
    BY <1>1
  <2> QED BY <1>3, <1>4, <2>1, <2>2
<1>6. ASSUME IsEnd(events[1]), NEW e \in News' PROVE events[1].id < e.id
  <2>1. PICK i \in 2..Len(events) : e = events[i]
    BY <1>4
  <2>2. 1 \in 1..Len(events) /\ i \in 1..Len(events) /\ 1 < i
    BY <1>1
  <2> QED BY <1>6, <2>1, <2>2 DEF InTurn
<1> QED BY <1>1, <1>5, <1>6

\* A job goes on, or its flag is raised: what is told of it stays.
JobGoesOn ==
    /\ silent' = silent
    /\ job' = job \/ (job # NoJob /\ job' = [job EXCEPT !.canceled = TRUE])

LEMMA JobStays ==
  ASSUME JobOK, JobGoesOn
  PROVE  /\ job' = NoJob <=> job = NoJob
         /\ job # NoJob => /\ job'.id = job.id /\ job'.kind = job.kind
                           /\ job'.arc = job.arc /\ job'.own = job.own
<1>1. CASE job' = job
  BY <1>1
<1>2. CASE job # NoJob /\ job' = [job EXCEPT !.canceled = TRUE]
  <2>1. /\ job'.id = job.id /\ job'.kind = job.kind /\ job'.arc = job.arc /\ job'.own = job.own
    BY <1>2 DEF JobOK, JobSet
  <2>2. job.id # 0
    BY <1>2 DEF JobOK, JobSet
  <2>3. job' # NoJob
    BY <2>1, <2>2 DEF NoJob
  <2> QED BY <1>2, <2>1, <2>3
<1> QED BY <1>1, <1>2 DEF JobGoesOn

LEMMA JobOKStays == ASSUME JobOK, JobGoesOn, jobs' = jobs PROVE JobOK'
<1>1. CASE job' = job
  BY <1>1 DEF JobOK, JobSet, JobGoesOn
<1>2. CASE job # NoJob /\ job' = [job EXCEPT !.canceled = TRUE]
  BY <1>2 DEF JobOK, JobSet, JobGoesOn
<1> QED BY <1>1, <1>2 DEF JobGoesOn

LEMMA SameNews ==
  ASSUME JobOK, JobGoesOn, events' = events
  PROVE  /\ News' = News
         /\ \A id : InWork(id)' = InWork(id)
         /\ \A id, kind : Due(id, kind)' = Due(id, kind)
         /\ \A id, kind : OfKind(id, kind)' = OfKind(id, kind)
         /\ \A id, arc : About(id, arc)' = About(id, arc)
<1>1. News' = News
  BY DEF News
<1>2. /\ job' = NoJob <=> job = NoJob
      /\ job # NoJob => /\ job'.id = job.id /\ job'.kind = job.kind /\ job'.arc = job.arc
  BY JobStays
<1>3. \A id : InWork(id)' = InWork(id)
  BY <1>2 DEF InWork
<1>4. \A id : InWork(id) => job # NoJob
  BY DEF InWork
<1>5. \A id, kind : Due(id, kind)' = Due(id, kind)
  BY <1>1, <1>2, <1>3, <1>4 DEF Due, JobGoesOn
<1>6. \A id, kind : OfKind(id, kind)' = OfKind(id, kind)
  BY <1>1, <1>2, <1>3, <1>4 DEF OfKind
<1>7. \A id, arc : About(id, arc)' = About(id, arc)
  BY <1>1, <1>2, <1>3, <1>4 DEF About
<1> QED BY <1>1, <1>3, <1>5, <1>6, <1>7

\* A new call, without a password or with one, is not answered.
NewCalls(op, arc) == {Call(op, arc), [Call(op, arc) EXCEPT !.pw = TRUE]}

LEMMA CallPlain ==
  ASSUME NEW o, NEW a PROVE [Call(o, a) EXCEPT !.pw = FALSE] = Call(o, a)
<1> DEFINE n == CHOOSE m \in 0..MaxActs + MaxStarts : m \notin {c.no : c \in calls}
<1>1. Call(o, a) = [op |-> o, arc |-> a, pw |-> FALSE, answer |-> "none", id |-> 0,
                    ver |-> 0, no |-> n]
  BY DEF Call
<1> HIDE DEF n
<1>2. Call(o, a) \in [op : {o}, arc : {a}, pw : BOOLEAN, answer : {"none"}, id : {0},
                     ver : {0}, no : {n}]
  BY <1>1
<1>3. Call(o, a).pw = FALSE
  BY <1>1
<1> QED BY <1>2, <1>3

LEMMA CallIs ==
  ASSUME NEW o, NEW a, NEW d \in NewCalls(o, a)
  PROVE  /\ d.op = o /\ d.arc = a /\ d.answer = "none" /\ d.id = 0 /\ d.ver = 0
         /\ o \in Ops /\ a \in Archives /\ jobs \in Nat => d \in CallSet(d.no)
<1> DEFINE n == CHOOSE m \in 0..MaxActs + MaxStarts : m \notin {c.no : c \in calls}
<1>1. PICK p \in BOOLEAN :
        d = [op |-> o, arc |-> a, pw |-> p, answer |-> "none", id |-> 0, ver |-> 0, no |-> n]
  BY DEF Call, NewCalls
<1> HIDE DEF n
<1>2. d.op = o /\ d.arc = a /\ d.answer = "none" /\ d.id = 0 /\ d.ver = 0
  BY <1>1
<1>3. ASSUME o \in Ops, a \in Archives, jobs \in Nat PROVE d \in CallSet(d.no)
  <2>1. "none" \in Answers /\ 0 \in 0..jobs /\ 0 \in Nat
    BY <1>3 DEF Answers
  <2> QED BY <1>1, <1>3, <2>1 DEF CallSet
<1> QED BY <1>2, <1>3

\* What is told of the jobs stays as long as none starts, ends or is heard of.
LEMMA NewsStay ==
  ASSUME Types, Told, PanelEnds, JobGoesOn, UNCHANGED <<jobs, events, ext, activeJob>>,
         \A c \in calls' : c.op \in JobKinds /\ c.answer = "ok" => c \in calls
  PROVE  Told' /\ PanelEnds' /\ JobOK' /\ EventsOK'
<1>1. /\ News' = News
      /\ \A id : InWork(id)' = InWork(id)
      /\ \A id, kind : Due(id, kind)' = Due(id, kind)
      /\ \A id, kind : OfKind(id, kind)' = OfKind(id, kind)
      /\ \A id, arc : About(id, arc)' = About(id, arc)
  BY SameNews DEF Types
<1>2. /\ job' = NoJob <=> job = NoJob
      /\ job # NoJob => job'.id = job.id /\ job'.kind = job.kind
  BY JobStays DEF Types
<1>3. Told'
  <2>1. InTurn'
    BY <1>1, <1>2 DEF Told, InTurn
  <2>2. OneKind'
    BY <1>1 DEF Told, OneKind
  <2>3. StartsEnd'
    BY <1>1 DEF Told, StartsEnd
  <2> QED BY <2>1, <2>2, <2>3 DEF Told
<1>4. PanelEnds'
  <2>1. \A x : InWork(x) => job # NoJob
    BY DEF InWork
  <2> QED BY <1>1, <1>2, <2>1 DEF PanelEnds
<1>5. EventsOK'
  BY DEF Types, EventsOK, EventSet, StartSet, EndSet, EventOK
<1> QED BY <1>3, <1>4, <1>5, JobOKStays DEF Types

-----------------------------------------------------------------------------
(* What a step that is not about a job, a test or a scan leaves as it is.   *)

\* The jobs and dialogs go on; of the calls for them none comes, goes or is
\* answered.
Apart ==
    /\ JobGoesOn /\ UNCHANGED <<jobs, events, dialogs, ext, activeJob>>
    /\ {c \in calls' : c.op \in Kinds} = {c \in calls : c.op \in Kinds}
    /\ \A c \in calls' : c.op = "edit" /\ c.answer = "ok" => c \in calls
    /\ lapses \subseteq lapses'

LEMMA ApartKeeps ==
  ASSUME Types, Told, PanelEnds, DialogsWait, Own, Apart
  PROVE  Told' /\ PanelEnds' /\ DialogsWait' /\ Own' /\ JobOK' /\ EventsOK'
<1>1. /\ JobOK /\ JobGoesOn /\ events' = events /\ jobs' = jobs
      /\ dlg' = dlg /\ known' = known /\ awaiting' = awaiting
      /\ ext' = ext /\ activeJob' = activeJob
  BY DEF Types, Apart, dialogs
<1>2. /\ News' = News
      /\ \A id : InWork(id)' = InWork(id)
      /\ \A id, kind : Due(id, kind)' = Due(id, kind)
      /\ \A id, kind : OfKind(id, kind)' = OfKind(id, kind)
      /\ \A id, arc : About(id, arc)' = About(id, arc)
  BY <1>1, SameNews
<1>3. /\ \A c \in calls' : c.op \in Kinds => c \in calls
      /\ \A c \in calls : c.op \in Kinds => c \in calls'
  BY DEF Apart
<1>4. \A c \in calls' : c.op \in JobKinds /\ c.answer = "ok" => c \in calls
  BY <1>3 DEF Apart, JobKinds
<1>5. Told' /\ PanelEnds' /\ JobOK' /\ EventsOK'
  BY <1>1, <1>4, NewsStay
<1>6. DialogsWait'
  BY <1>1, <1>2, <1>3 DEF DialogsWait, Unanswered
<1>7. Own'
  <2>1. ~Blind' => ~Blind
    BY DEF Blind, Apart
  <2>2. OneCall => OneCall'
    BY <1>3 DEF OneCall
  <2>3. OwnCall => OwnCall'
    BY <1>1, <1>2, <1>3 DEF OwnCall
  <2>4. (OwnJob => OwnJob') /\ (OwnReport => OwnReport')
    BY <1>1, <1>2 DEF OwnJob, OwnReport
  <2> QED BY <2>1, <2>2, <2>3, <2>4 DEF Own
<1> QED BY <1>5, <1>6, <1>7

\* A password dialog that a running test or scan needs is left with notice.
LEMMA SettlingStays ==
  ASSUME Types, Settling, Apart,
         LeftOpen => "left" \in lapses' \/ (pw'.open /\ pw'.mode = pw.mode)
  PROVE  Settling'
<1>1. /\ JobOK /\ JobGoesOn /\ events' = events
      /\ dlg' = dlg /\ known' = known /\ awaiting' = awaiting /\ lapses \subseteq lapses'
  BY DEF Types, Apart, dialogs
<1>2. \A id, kind : Due(id, kind)' = Due(id, kind)
  BY <1>1, SameNews
<1>3. SUFFICES ASSUME "left" \notin lapses', ~Blind', NEW k \in Kinds, dlg[k].phase = "running"
      PROVE \/ pw'.open /\ pw'.mode = k
            \/ awaiting[k]
            \/ known[k] # 0 /\ Due(known[k], k)
  BY <1>1, <1>2 DEF Settling
<1>4. "left" \notin lapses /\ ~Blind
  BY <1>1, <1>3 DEF Blind
<1>5. CASE pw.open /\ pw.mode = k
  BY <1>3, <1>5 DEF LeftOpen
<1> QED BY <1>3, <1>4, <1>5 DEF Settling

\* The lists stay the latest as long as the calls that read them do.
LEMMA ListsStay ==
  ASSUME Types, Lists, JobGoesOn, UNCHANGED <<path, list, ver, events, editId>>,
         lapses \subseteq lapses',
         \A c \in calls' : c.op \in {"open", "reload"} /\ c.answer = "ok" =>
             c \in calls \/ c.ver = ver[c.arc],
         ~Unnoticed' => \A c \in calls : c.op = "reload" =>
             \E d \in calls' : d.op = "reload" /\ d.arc = c.arc,
         \A c \in calls : c.op = "edit" /\ c.answer = "ok" => c \in calls'
  PROVE  Lists'
<1>1. ListIsShown'
  BY DEF Lists, ListIsShown
<1>2. SUFFICES ASSUME ~Unnoticed' PROVE EditsTied' /\ ListsRead' /\ Latest'
  BY <1>1 DEF Lists
<1>3. ~Unnoticed
  BY <1>2 DEF Unnoticed
<1>4. EditsTied /\ ListsRead /\ Latest
  BY <1>3 DEF Lists
<1>5. News' = News /\ \A a : DoneComes(a)' = DoneComes(a)
  BY DEF News, DoneComes
<1>6. \A id : Tied(id) => Tied(id)'
  BY DEF Tied
<1>7. /\ job' = NoJob <=> job = NoJob
      /\ job # NoJob => job'.id = job.id /\ job'.own = job.own /\ job'.kind = job.kind
  BY JobStays DEF Types
<1>8. EditsTied'
  BY <1>4, <1>5, <1>6, <1>7 DEF EditsTied
<1>9. ListsRead'
  BY <1>4, <1>5 DEF ListsRead
<1>10. Latest'
  BY <1>2, <1>4, <1>5 DEF Latest
<1> QED BY <1>8, <1>9, <1>10

\* Who has asked stays who has asked.
LEMMA AskedStays ==
  ASSUME Asked, UNCHANGED <<path, pw, pend, asker>>, lapses \subseteq lapses'
  PROVE  Asked'
BY DEF Asked

-----------------------------------------------------------------------------
(* The steps that are not about a job, a test or a scan.                    *)

\* Facts of every state that many steps use.
LEMMA Plain ==
  ASSUME WindowInv
  PROVE  /\ jobs \in Nat /\ \A a \in Archives : ver[a] \in Nat
         /\ \A k \in Kinds : k \in {"test", "scan"} /\ k \in JobKinds /\ k \in Ops /\ k \in Modes
         /\ {"open", "reload", "pick", "entry", "confirm", "edit"} \subseteq Ops
         /\ \A op \in {"open", "reload", "pick", "entry", "confirm"} : op \notin JobKinds
         /\ "edit" \in JobKinds /\ "edit" \notin Kinds
         /\ path # Nothing => path \in Archives
         /\ \A c \in calls : c \in CallSet(c.no) /\ c.op \in Ops /\ c.arc \in Archives
<1>1. jobs \in Nat /\ \A a \in Archives : ver[a] \in Nat
  BY WindowAssumption DEF WindowInv, Types, FollowOK, ShownOK
<1>2. path # Nothing => path \in Archives
  BY DEF WindowInv, Types, ShownOK, Maybe
<1>3. \A c \in calls : c \in CallSet(c.no) /\ c.op \in Ops /\ c.arc \in Archives
  BY DEF WindowInv, Types, CallsOK, CallSet
<1>4. Kinds \subseteq {"test", "scan"}
  BY WindowAssumption
<1>5. /\ \A k \in Kinds : k \in {"test", "scan"} /\ k \in JobKinds /\ k \in Ops /\ k \in Modes
      /\ {"open", "reload", "pick", "entry", "confirm", "edit"} \subseteq Ops
      /\ \A op \in {"open", "reload", "pick", "entry", "confirm"} : op \notin JobKinds
      /\ "edit" \in JobKinds /\ "edit" \notin Kinds
  BY <1>4 DEF JobKinds, Ops, Modes
<1> QED BY <1>1, <1>2, <1>3, <1>5

\* The calls of a step that answers none of a job.
LEMMA CallsStay ==
  ASSUME CallsOK, UNCHANGED <<jobs, ver>>,
         \A c \in calls' : c \in calls \/
            /\ c \in CallSet(c.no) /\ c.answer = "none" /\ c.id = 0
            /\ c.op \in {"open", "reload"} => c.ver <= ver[c.arc]
  PROVE  CallsOK'
BY DEF CallsOK, CallSet

\* What such a step has to see to itself.
LEMMA ApartStep ==
  ASSUME WindowInv, Apart, editId' \in 0..jobs,
         ShownOK', CallsOK', Settling', Lists', Asked'
  PROVE  WindowInv'
<1>1. Told' /\ PanelEnds' /\ DialogsWait' /\ Own' /\ JobOK' /\ EventsOK'
  BY ApartKeeps DEF WindowInv
<1>2. FollowOK'
  BY DEF FollowOK, WindowInv, Types, Apart, dialogs, Dialogs
<1> QED BY <1>1, <1>2 DEF WindowInv, Types

\* A call is made that is not one of a test or a scan.
LEMMA SendKeeps ==
  ASSUME WindowInv, NEW op \in Ops \ Kinds, NEW arc \in Archives,
         NEW c \in NewCalls(op, arc),
         calls' = calls \cup {c}, acts' \in 0..MaxActs,
         UNCHANGED <<shown, asking, dialogs, editing, ext, backend, lapses>>
  PROVE  WindowInv'
<1>1. /\ ShownOK /\ CallsOK /\ jobs \in Nat /\ ver[arc] \in Nat
      /\ op \in Ops /\ op \notin Kinds
  <2>1. ShownOK /\ CallsOK
    BY DEF WindowInv, Types
  <2> QED BY <2>1, Plain
<1>0. /\ c.op = op /\ c.arc = arc /\ c.answer = "none" /\ c.ver = 0 /\ c.id = 0
      /\ c \in CallSet(c.no)
  BY <1>1, CallIs
<1>3. CallsOK'
  BY <1>0, <1>1, CallsStay DEF backend
<1>4. Apart
  BY <1>1, <1>0 DEF Apart, JobGoesOn, backend, dialogs, editing
<1>5. ShownOK'
  BY <1>1 DEF ShownOK, shown, asking, backend
<1>6. Settling'
  <2>1. LeftOpen => pw'.open /\ pw'.mode = pw.mode
    BY DEF LeftOpen, asking
  <2> QED BY <1>4, <2>1, SettlingStays DEF WindowInv
<1>7. Lists'
  BY <1>0, <1>4, ListsStay DEF WindowInv, Apart, shown, backend, editing
<1>8. Asked'
  BY <1>4, AskedStays DEF WindowInv, Apart, shown, asking
<1> QED BY <1>3, <1>4, <1>5, <1>6, <1>7, <1>8, ApartStep DEF WindowInv, Types, FollowOK, editing

LEMMA ActIs == ASSUME ShownOK, Act PROVE acts' \in 0..MaxActs
BY WindowAssumption DEF ShownOK, Act

LEMMA SendersKeep ==
  ASSUME WindowInv,
         \/ \E a \in Archives : OpenDroppedPaths(a)
         \/ AddFilesToArchive \/ RemoveSelectedFromArchive
         \/ OpenInnerEntry \/ DeleteCurrentArchive
  PROVE  WindowInv'
<1>1. Act => acts' \in 0..MaxActs
  BY ActIs DEF WindowInv, Types
<1>2. path # Nothing => path \in Archives
  BY DEF WindowInv, Types, ShownOK, Maybe
<1>3. CASE \E a \in Archives : OpenDroppedPaths(a)
  BY <1>1, <1>3, SendKeeps, Plain DEF OpenDroppedPaths, Send, NewCalls
<1>4. CASE AddFilesToArchive
  BY <1>1, <1>2, <1>4, SendKeeps, Plain DEF AddFilesToArchive, CanEdit, Send, NewCalls
<1>5. CASE RemoveSelectedFromArchive
  BY <1>1, <1>2, <1>5, SendKeeps, Plain DEF RemoveSelectedFromArchive, CanEdit, Send, NewCalls
<1>6. CASE OpenInnerEntry
  BY <1>1, <1>2, <1>6, SendKeeps, Plain DEF OpenInnerEntry, Send, NewCalls
<1>7. CASE DeleteCurrentArchive
  BY <1>1, <1>2, <1>7, SendKeeps, Plain DEF DeleteCurrentArchive, Send, NewCalls
<1> QED BY <1>3, <1>4, <1>5, <1>6, <1>7

\* open_archive reads what the archive is now.
LEMMA ListArchiveKeeps == ASSUME WindowInv, NEW c \in calls, ListArchive(c) PROVE WindowInv'
<1> DEFINE d == [c EXCEPT !.answer = "ok", !.ver = ver[c.arc]]
<1>1. /\ calls' = (calls \ {c}) \cup {d} /\ c.op \in {"open", "reload"} /\ c.answer = "none"
      /\ UNCHANGED <<shown, asking, dialogs, editing, ext, backend, acts, lapses>>
  BY DEF ListArchive
<1>2. /\ ShownOK /\ CallsOK /\ jobs \in Nat /\ c \in CallSet(c.no) /\ ver[c.arc] \in Nat
      /\ c.op \notin JobKinds
  <2>1. ShownOK /\ CallsOK
    BY DEF WindowInv, Types
  <2> QED BY <1>1, <2>1, Plain
<1>3. /\ d.op = c.op /\ d.arc = c.arc /\ d.ver = ver[c.arc] /\ d.answer = "ok" /\ d.no = c.no
      /\ d \in CallSet(c.no)
  BY <1>2 DEF CallSet, Answers
<1> HIDE DEF d
<1>4. CallsOK'
  BY <1>1, <1>2, <1>3 DEF CallsOK, CallSet, backend
<1>5. Apart
  BY <1>1, <1>2, <1>3 DEF Apart, JobGoesOn, backend, dialogs, editing, JobKinds
<1>6. ShownOK'
  BY <1>1, <1>2 DEF ShownOK, shown, asking, backend
<1>7. Settling'
  <2>1. LeftOpen => pw'.open /\ pw'.mode = pw.mode
    BY <1>1 DEF LeftOpen, asking
  <2> QED BY <1>5, <2>1, SettlingStays DEF WindowInv
<1>8. Lists'
  <2>1. \A e \in calls : e.op = "reload" => \E f \in calls' : f.op = "reload" /\ f.arc = e.arc
    BY <1>1, <1>3
  <2>2. \A e \in calls : e.op = "edit" /\ e.answer = "ok" => e \in calls'
    BY <1>1
  <2>3. \A e \in calls' : e.op \in {"open", "reload"} /\ e.answer = "ok" =>
           e \in calls \/ e.ver = ver[e.arc]
    BY <1>1, <1>3
  <2> QED BY <1>1, <1>5, <2>1, <2>2, <2>3, ListsStay DEF WindowInv, Apart, shown, backend, editing
<1>9. Asked'
  BY <1>1, AskedStays DEF WindowInv, shown, asking
<1> QED BY <1>1, <1>4, <1>5, <1>6, <1>7, <1>8, <1>9, ApartStep DEF WindowInv, Types, FollowOK, editing

\* An answer that is not one of a job is received.
LEMMA ReceivedApart ==
  ASSUME WindowInv, NEW c \in calls, c.op \notin Kinds, calls' = calls \ {c},
         UNCHANGED <<dialogs, ext, activeJob, job, jobs, events, silent, ver>>, lapses \subseteq lapses'
  PROVE  Apart /\ CallsOK'
<1>1. Apart
  BY DEF Apart, JobGoesOn
<1>2. CallsOK'
  BY CallsStay DEF WindowInv, Types
<1> QED BY <1>1, <1>2

\* openArchiveByPath after the answer: what has been read is the latest or the
\* end of an edit comes.
LEMMA OpenedKeeps == ASSUME WindowInv, NEW c \in calls, Opened(c) PROVE WindowInv'
<1>1. /\ c.op = "open" /\ c.answer = "ok" /\ calls' = calls \ {c}
      /\ path' = c.arc /\ list' = [arc |-> c.arc, ver |-> c.ver]
      /\ pw' = [open |-> FALSE, mode |-> "open"] /\ asker' = Nothing
      /\ pend' = [pend EXCEPT !["open"] = Nothing]
      /\ lapses' = lapses \cup IF LeftOpen THEN {"left"} ELSE {}
      /\ UNCHANGED <<dialogs, editing, ext, backend, acts>>
  BY DEF Opened, Received, ClosePw, Lapse
<1>2. ShownOK /\ c \in CallSet(c.no) /\ c.op \notin Kinds /\ c.arc \in Archives
  <2>1. c.op \notin JobKinds
    BY <1>1, Plain
  <2> QED BY <2>1, Plain DEF WindowInv, Types, JobKinds
<1>3. Apart /\ CallsOK'
  BY <1>1, <1>2, ReceivedApart DEF editing, backend
<1>4. ShownOK'
  <2>1. c.arc \in Maybe /\ c.arc # Nothing /\ c.ver \in Nat
    BY <1>2, WindowAssumption DEF CallSet, Maybe, Nothing
  <2>2. lapses' \subseteq {"overtaken", "early", "unread", "blind", "left", "late", "behind"}
    BY <1>1, <1>2 DEF ShownOK
  <2>3. pw' \in [open : BOOLEAN, mode : Modes] /\ pend' \in [Modes -> Maybe] /\ asker' \in Maybe
    BY <1>1, <1>2 DEF ShownOK, Modes, Maybe
  <2>4. list' \in [arc : Maybe, ver : Nat] /\ list'.arc # Nothing /\ path' \in Maybe
    BY <1>1, <2>1
  <2> QED BY <1>1, <1>2, <2>2, <2>3, <2>4 DEF ShownOK, backend
<1>5. Settling'
  <2>1. LeftOpen => "left" \in lapses'
    BY <1>1
  <2> QED BY <1>3, <2>1, SettlingStays DEF WindowInv
<1>6. Lists'
  <2>1. ListIsShown' /\ list'.ver = c.ver
    BY <1>1 DEF ListIsShown
  <2>2. SUFFICES ASSUME ~Unnoticed' PROVE EditsTied' /\ ListsRead' /\ Latest'
    BY <2>1 DEF Lists
  <2>3. EditsTied /\ ListsRead
    BY <1>1, <2>2 DEF WindowInv, Lists, Unnoticed
  <2>4. /\ News' = News /\ \A a : DoneComes(a)' = DoneComes(a)
        /\ job' = job /\ ver' = ver /\ editId' = editId
    BY <1>1 DEF News, DoneComes, backend, editing
  <2>5. \A id : Tied(id) => Tied(id)'
    BY <1>1, <2>4 DEF Tied
  <2>6. EditsTied'
    BY <2>3, <2>4, <2>5 DEF EditsTied
  <2>7. ListsRead'
    BY <1>1, <2>3, <2>4 DEF ListsRead
  <2>8. Latest'
    BY <1>1, <2>1, <2>3, <2>4 DEF ListsRead, Latest
  <2> QED BY <2>6, <2>7, <2>8
<1>7. Asked'
  BY <1>1 DEF Asked
<1> QED BY <1>1, <1>3, <1>4, <1>5, <1>6, <1>7, ApartStep DEF WindowInv, Types, FollowOK, editing

\* An answer opens the password dialog, for the archive it was about.
LEMMA AsksKeeps ==
  ASSUME WindowInv, NEW c \in calls, c.op \in {"open", "entry"}, c.answer = "none",
         calls' = calls \ {c},
         pw' = [open |-> TRUE, mode |-> c.op], asker' = c.arc,
         pend' \in {pend, [pend EXCEPT ![c.op] = c.arc]},
         LeftOpen => "left" \in lapses',
         c.op = "open" => pend'["open"] = c.arc \/ "late" \in lapses',
         c.op = "entry" => path = c.arc \/ "late" \in lapses',
         lapses \subseteq lapses', lapses' \subseteq lapses \cup {"left", "late"},
         UNCHANGED <<shown, dialogs, editing, ext, backend, acts>>
  PROVE  WindowInv'
<1>1. c.op \notin Kinds /\ c.arc \in Archives /\ c.op \in Modes
  BY Plain DEF JobKinds, Modes
<1>2. Apart /\ CallsOK'
  BY <1>1, ReceivedApart DEF editing, backend
<1>3. ShownOK /\ ShownOK'
  <2>1. ShownOK
    BY DEF WindowInv, Types
  <2>2. pw' \in [open : BOOLEAN, mode : Modes] /\ asker' \in Maybe
    BY <1>1 DEF Maybe
  <2>3. pend' \in [Modes -> Maybe]
    BY <1>1, <2>1 DEF ShownOK, Maybe
  <2> QED BY <2>1, <2>2, <2>3 DEF ShownOK, shown, backend
<1>4. Settling'
  BY <1>2, SettlingStays DEF WindowInv
<1>5. Lists'
  BY <1>2, ListsStay DEF WindowInv, Apart, shown, backend, editing
<1>6. Asked'
  BY <1>1 DEF Asked, shown
<1> QED BY <1>2, <1>3, <1>4, <1>5, <1>6, ApartStep DEF WindowInv, Types, FollowOK, editing

LEMMA OpenAsksKeeps == ASSUME WindowInv, NEW c \in calls, OpenAsks(c) PROVE WindowInv'
<1>1. /\ c.op = "open" /\ c.answer = "none" /\ calls' = calls \ {c}
      /\ pw' = [open |-> TRUE, mode |-> "open"] /\ asker' = c.arc
      /\ pend' = IF c.pw THEN pend ELSE [pend EXCEPT !["open"] = c.arc]
      /\ lapses' = lapses \cup (IF LeftOpen THEN {"left"} ELSE {})
                          \cup (IF pend'["open"] # c.arc THEN {"late"} ELSE {})
      /\ UNCHANGED <<shown, dialogs, editing, ext, backend, acts>>
  BY DEF OpenAsks, Refusal, Received, OpenPw
<1>2. pend' \in {pend, [pend EXCEPT ![c.op] = c.arc]}
  BY <1>1
<1>3. /\ LeftOpen => "left" \in lapses'
      /\ pend'["open"] = c.arc \/ "late" \in lapses'
      /\ lapses \subseteq lapses' /\ lapses' \subseteq lapses \cup {"left", "late"}
  BY <1>1
<1> QED BY <1>1, <1>2, <1>3, AsksKeeps

LEMMA EntryAsksKeeps == ASSUME WindowInv, NEW c \in calls, EntryAsks(c) PROVE WindowInv'
<1>1. /\ c.op = "entry" /\ c.answer = "none" /\ calls' = calls \ {c}
      /\ pw' = [open |-> TRUE, mode |-> "entry"] /\ asker' = c.arc
      /\ pend' = [pend EXCEPT !["entry"] = c.arc]
      /\ lapses' = lapses \cup (IF LeftOpen THEN {"left"} ELSE {})
                          \cup (IF path # c.arc THEN {"late"} ELSE {})
      /\ UNCHANGED <<shown, dialogs, editing, ext, backend, acts>>
  BY DEF EntryAsks, Received, OpenPw
<1>2. pend' \in {pend, [pend EXCEPT ![c.op] = c.arc]}
  BY <1>1
<1>3. /\ LeftOpen => "left" \in lapses'
      /\ path = c.arc \/ "late" \in lapses'
      /\ lapses \subseteq lapses' /\ lapses' \subseteq lapses \cup {"left", "late"}
  BY <1>1
<1> QED BY <1>1, <1>2, <1>3, AsksKeeps

\* reloadEntries after the answer.
LEMMA ReloadedKeeps == ASSUME WindowInv, NEW c \in calls, Reloaded(c) PROVE WindowInv'
<1>1. /\ c.op = "reload" /\ c.answer = "ok" /\ calls' = calls \ {c}
      /\ list' = [arc |-> c.arc, ver |-> c.ver]
      /\ lapses' = lapses \cup IF path # c.arc THEN {"overtaken"} ELSE {}
      /\ UNCHANGED <<path, asking, dialogs, editing, ext, backend, acts>>
  BY DEF Reloaded, Received, Lapse
<1>2. ShownOK /\ c \in CallSet(c.no) /\ c.op \notin Kinds /\ c.arc \in Archives
  <2>1. c.op \notin JobKinds
    BY <1>1, Plain
  <2> QED BY <2>1, Plain DEF WindowInv, Types, JobKinds
<1>3. lapses \subseteq lapses' /\ lapses' \subseteq lapses \cup {"overtaken"}
  BY <1>1
<1>4. Apart /\ CallsOK'
  BY <1>1, <1>2, <1>3, ReceivedApart DEF editing, backend
<1>5. ShownOK'
  <2>1. c.arc \in Maybe /\ c.arc # Nothing /\ c.ver \in Nat
    BY <1>2, WindowAssumption DEF CallSet, Maybe, Nothing
  <2>2. list' \in [arc : Maybe, ver : Nat] /\ list'.arc # Nothing
    BY <1>1, <2>1
  <2> QED BY <1>1, <1>2, <1>3, <2>2 DEF ShownOK, asking, backend
<1>6. Settling'
  <2>1. LeftOpen => pw'.open /\ pw'.mode = pw.mode
    BY <1>1 DEF LeftOpen, asking
  <2> QED BY <1>4, <2>1, SettlingStays DEF WindowInv
<1>7. Lists'
  <2>1. list'.arc = c.arc /\ list'.ver = c.ver /\ path' = path
    BY <1>1
  <2>2. path # c.arc => "overtaken" \in lapses'
    BY <1>1
  <2>3. ListIsShown'
    BY <2>1, <2>2 DEF ListIsShown
  <2>4. SUFFICES ASSUME ~Unnoticed' PROVE EditsTied' /\ ListsRead' /\ Latest'
    BY <2>3 DEF Lists
  <2>5. EditsTied /\ ListsRead /\ path = c.arc
    BY <1>3, <2>2, <2>4 DEF WindowInv, Lists, Unnoticed
  <2>6. /\ News' = News /\ \A a : DoneComes(a)' = DoneComes(a)
        /\ job' = job /\ ver' = ver /\ editId' = editId
    BY <1>1 DEF News, DoneComes, backend, editing
  <2>7. \A id : Tied(id) => Tied(id)'
    BY <1>1, <2>6 DEF Tied
  <2>8. EditsTied'
    BY <2>5, <2>6, <2>7 DEF EditsTied
  <2>9. ListsRead'
    BY <1>1, <2>5, <2>6 DEF ListsRead
  <2>10. Latest'
    BY <1>1, <2>1, <2>5, <2>6 DEF ListsRead, Latest
  <2> QED BY <2>8, <2>9, <2>10
<1>8. Asked'
  BY <1>1, <1>3, AskedStays DEF WindowInv, asking
<1> QED BY <1>1, <1>4, <1>5, <1>6, <1>7, <1>8, ApartStep DEF WindowInv, Types, FollowOK, editing

\* The list cannot be read: if it was to be read again, that is noted.
LEMMA ListFailsKeeps == ASSUME WindowInv, NEW c \in calls, ListFails(c) PROVE WindowInv'
<1>1. /\ c.op \in {"open", "reload"} /\ c.answer = "none" /\ calls' = calls \ {c}
      /\ lapses' = lapses \cup IF c.op = "reload" THEN {"unread"} ELSE {}
      /\ UNCHANGED <<shown, asking, dialogs, editing, ext, backend, acts>>
  BY DEF ListFails, Refusal, Received, Lapse
<1>2. ShownOK /\ c.op \notin Kinds
  BY <1>1, Plain DEF WindowInv, Types, JobKinds
<1>3. lapses \subseteq lapses' /\ lapses' \subseteq lapses \cup {"unread"}
  BY <1>1
<1>4. Apart /\ CallsOK'
  BY <1>1, <1>2, <1>3, ReceivedApart DEF editing, backend
<1>5. ShownOK'
  BY <1>1, <1>2, <1>3 DEF ShownOK, shown, asking, backend
<1>6. Settling'
  <2>1. LeftOpen => pw'.open /\ pw'.mode = pw.mode
    BY <1>1 DEF LeftOpen, asking
  <2> QED BY <1>4, <2>1, SettlingStays DEF WindowInv
<1>7. Lists'
  <2>1. ~Unnoticed' => c.op = "open"
    BY <1>1 DEF Unnoticed
  <2>2. ~Unnoticed' => \A e \in calls : e.op = "reload" =>
             \E d \in calls' : d.op = "reload" /\ d.arc = e.arc
    BY <1>1, <2>1
  <2>3. \A e \in calls : e.op = "edit" /\ e.answer = "ok" => e \in calls'
    BY <1>1
  <2>4. \A e \in calls' : e \in calls
    BY <1>1
  <2> QED BY <1>1, <1>3, <1>4, <2>2, <2>3, <2>4, ListsStay
          DEF WindowInv, Apart, shown, backend, editing
<1>8. Asked'
  BY <1>1, <1>3, AskedStays DEF WindowInv, shown, asking
<1> QED BY <1>1, <1>4, <1>5, <1>6, <1>7, <1>8, ApartStep DEF WindowInv, Types, FollowOK, editing

\* The files to add are picked, or none.
LEMMA PickedKeeps == ASSUME WindowInv, NEW c \in calls, Picked(c) PROVE WindowInv'
<1> DEFINE d == [c EXCEPT !.op = "edit"]
<1>1. /\ c.op = "pick"
      /\ calls' \in {calls \ {c}, (calls \ {c}) \cup {d}}
      /\ UNCHANGED <<shown, asking, dialogs, editing, ext, backend, acts, lapses>>
  BY DEF Picked
<1>2. /\ ShownOK /\ c \in CallSet(c.no) /\ "edit" \in Ops /\ "edit" \notin Kinds
      /\ c.op \notin Kinds /\ c.answer \in Answers
  BY <1>1, Plain DEF WindowInv, Types, JobKinds, CallSet
<1>3. /\ d.op = "edit" /\ d.answer = c.answer /\ d.no = c.no /\ d.id = c.id
      /\ d \in CallSet(c.no)
  BY <1>2 DEF CallSet
<1> HIDE DEF d
<1>4. c.answer = "none" /\ c.id = 0
  BY <1>1 DEF WindowInv, Types, CallsOK
<1>5. CallsOK'
  BY <1>1, <1>3, <1>4, CallsStay DEF WindowInv, Types, backend
<1>6. Apart
  BY <1>1, <1>2, <1>3, <1>4 DEF Apart, JobGoesOn, backend, dialogs, editing
<1>7. ShownOK'
  BY <1>1, <1>2 DEF ShownOK, shown, asking, backend
<1>8. Settling'
  <2>1. LeftOpen => pw'.open /\ pw'.mode = pw.mode
    BY <1>1 DEF LeftOpen, asking
  <2> QED BY <1>6, <2>1, SettlingStays DEF WindowInv
<1>9. Lists'
  <2>1. \A e \in calls : e.op \in {"reload", "edit"} => e \in calls'
    BY <1>1
  <2>2. \A e \in calls' : e.op \in {"open", "reload"} /\ e.answer = "ok" => e \in calls
    BY <1>1, <1>3
  <2> QED BY <1>1, <1>6, <2>1, <2>2, ListsStay DEF WindowInv, Apart, shown, backend, editing
<1>10. Asked'
  BY <1>1, AskedStays DEF WindowInv, shown, asking
<1> QED BY <1>1, <1>5, <1>6, <1>7, <1>8, <1>9, <1>10, ApartStep
        DEF WindowInv, Types, FollowOK, editing

\* runEditJob after the answer: the id that comes is kept, one that goes is noted.
LEMMA EditAnsweredKeeps == ASSUME WindowInv, NEW c \in calls, EditAnswered(c) PROVE WindowInv'
<1>1. /\ c.op = "edit" /\ calls' = calls \ {c}
      /\ c.answer \in {"ok", "refused"}
      /\ editId' = IF c.answer = "ok" THEN c.id ELSE 0
      /\ lapses' = lapses \cup IF editId # 0 THEN {"early"} ELSE {}
      /\ UNCHANGED <<shown, asking, dialogs, activeJob, ext, backend, acts>>
  <2>1. PICK answer \in {"ok", "refused"} : Received(c, {"edit"}, answer)
    BY DEF EditAnswered
  <2>2. c.op = "edit" /\ calls' = calls \ {c} /\ c.answer \in {"ok", "refused"}
    BY <2>1 DEF Received
  <2> QED BY <2>2 DEF EditAnswered, Lapse
<1>2. /\ ShownOK /\ c \in CallSet(c.no) /\ c.op \notin Kinds /\ c.id \in 0..jobs /\ 0 \in 0..jobs
  <2>1. c \in CallSet(c.no) /\ c.op \notin Kinds /\ jobs \in Nat
    BY <1>1, Plain
  <2>2. c.id \in 0..jobs
    BY <2>1 DEF CallSet
  <2>3. ShownOK
    BY DEF WindowInv, Types
  <2> QED BY <2>1, <2>2, <2>3
<1>3. /\ lapses \subseteq lapses' /\ lapses' \subseteq lapses \cup {"early"}
      /\ editId # 0 => "early" \in lapses'
  BY <1>1
<1>4. Apart /\ CallsOK'
  BY <1>1, <1>2, <1>3, ReceivedApart DEF backend
<1>5. ShownOK'
  BY <1>1, <1>2, <1>3 DEF ShownOK, shown, asking, backend
<1>6. Settling'
  <2>1. LeftOpen => pw'.open /\ pw'.mode = pw.mode
    BY <1>1 DEF LeftOpen, asking
  <2> QED BY <1>4, <2>1, SettlingStays DEF WindowInv
<1>7. Lists'
  <2>1. ListIsShown'
    BY <1>1, <1>3 DEF WindowInv, Lists, ListIsShown, shown
  <2>2. SUFFICES ASSUME ~Unnoticed' PROVE EditsTied' /\ ListsRead' /\ Latest'
    BY <2>1 DEF Lists
  <2>3. EditsTied /\ ListsRead /\ Latest /\ editId = 0
    BY <1>3, <2>2 DEF WindowInv, Lists, Unnoticed
  <2>4. /\ News' = News /\ \A a : DoneComes(a)' = DoneComes(a)
        /\ job' = job /\ ver' = ver /\ path' = path /\ list' = list
    BY <1>1 DEF News, DoneComes, backend, shown
  <2>5. ASSUME NEW id, id # 0, Tied(id) PROVE Tied(id)'
    <3>1. PICK d \in calls : d.op = "edit" /\ d.answer = "ok" /\ d.id = id
      BY <2>3, <2>5 DEF Tied
    <3>2. CASE d = c
      BY <1>1, <3>1, <3>2 DEF Tied
    <3>3. CASE d # c
      BY <1>1, <3>1, <3>3 DEF Tied
    <3> QED BY <3>2, <3>3
  <2>6. EditsTied'
    <3>1. \A e \in News : e.id # 0
      BY DEF WindowInv, Types, EventsOK, EventSet, StartSet, EndSet, News
    <3>2. job # NoJob => job.id # 0
      BY DEF WindowInv, Types, JobOK, JobSet
    <3> QED BY <2>3, <2>4, <2>5, <3>1, <3>2 DEF EditsTied
  <2>7. ListsRead'
    BY <1>1, <2>3, <2>4 DEF ListsRead
  <2>8. Latest'
    BY <1>1, <2>3, <2>4 DEF Latest
  <2> QED BY <2>6, <2>7, <2>8
<1>8. Asked'
  BY <1>1, <1>3, AskedStays DEF WindowInv, shown, asking
<1> QED BY <1>1, <1>2, <1>4, <1>5, <1>6, <1>7, <1>8, ApartStep

\* cancelActiveJob raises the flag of the job.
LEMMA CancelActiveJobKeeps == ASSUME WindowInv, CancelActiveJob PROVE WindowInv'
<1>1. /\ JobGoesOn
      /\ UNCHANGED <<shown, asking, dialogs, editing, ext, calls, jobs, events, silent, ver, gone, lapses>>
  BY DEF CancelActiveJob, JobGoesOn
<1>2. acts' \in 0..MaxActs
  BY ActIs DEF CancelActiveJob, WindowInv, Types
<1>3. Apart /\ CallsOK'
  <2>1. Apart
    BY <1>1 DEF Apart, editing
  <2> QED BY <1>1, <2>1, CallsStay DEF WindowInv, Types
<1>4. ShownOK'
  BY <1>1, <1>2 DEF WindowInv, Types, ShownOK, shown, asking
<1>5. Settling'
  <2>1. LeftOpen => pw'.open /\ pw'.mode = pw.mode
    BY <1>1 DEF LeftOpen, asking
  <2> QED BY <1>3, <2>1, SettlingStays DEF WindowInv
<1>6. Lists'
  BY <1>1, ListsStay DEF WindowInv, shown, editing
<1>7. Asked'
  BY <1>1, AskedStays DEF WindowInv, shown, asking
<1> QED BY <1>1, <1>3, <1>4, <1>5, <1>6, <1>7, ApartStep DEF WindowInv, Types, FollowOK, editing

\* An item is opened: its password dialog goes, if it is the one that is shown.
LEMMA EntryOpenedKeeps == ASSUME WindowInv, NEW c \in calls, EntryOpened(c) PROVE WindowInv'
<1>1. /\ c.op = "entry" /\ calls' = calls \ {c}
      /\ \/ /\ pw.mode = "entry" /\ pw' = [open |-> FALSE, mode |-> "open"] /\ asker' = Nothing
            /\ pend' = [pend EXCEPT !["entry"] = Nothing]
         \/ UNCHANGED <<pw, pend, asker>>
      /\ UNCHANGED <<shown, dialogs, editing, ext, backend, acts, lapses>>
  BY DEF EntryOpened, Received, ClosePw, asking
<1>2. ShownOK /\ c.op \notin Kinds /\ "entry" \notin Kinds
  BY <1>1, Plain DEF WindowInv, Types, JobKinds
<1>3. Apart /\ CallsOK'
  BY <1>1, <1>2, ReceivedApart DEF editing, backend
<1>4. ShownOK'
  <2>1. Nothing \in Maybe /\ "open" \in Modes
    BY DEF Maybe, Modes
  <2>2. /\ pw \in [open : BOOLEAN, mode : Modes] /\ pend \in [Modes -> Maybe] /\ asker \in Maybe
    BY <1>2 DEF ShownOK
  <2>3. CASE pw' = [open |-> FALSE, mode |-> "open"] /\ asker' = Nothing
             /\ pend' = [pend EXCEPT !["entry"] = Nothing]
    <3>1. pw' \in [open : BOOLEAN, mode : Modes] /\ asker' \in Maybe
      BY <2>1, <2>3
    <3>2. pend' \in [Modes -> Maybe]
      BY <2>1, <2>2, <2>3
    <3> QED BY <1>1, <1>2, <3>1, <3>2 DEF ShownOK, shown, backend
  <2>4. CASE UNCHANGED <<pw, pend, asker>>
    BY <1>1, <1>2, <2>4 DEF ShownOK, shown, backend
  <2> QED BY <1>1, <2>3, <2>4
<1>5. Settling'
  <2>1. LeftOpen => pw'.open /\ pw'.mode = pw.mode
    BY <1>1, <1>2 DEF LeftOpen
  <2> QED BY <1>3, <2>1, SettlingStays DEF WindowInv
<1>6. Lists'
  BY <1>1, <1>3, ListsStay DEF WindowInv, Apart, shown, backend, editing
<1>7. Asked'
  BY <1>1 DEF WindowInv, Asked, shown
<1> QED BY <1>1, <1>3, <1>4, <1>5, <1>6, <1>7, ApartStep DEF WindowInv, Types, FollowOK, editing

LEMMA CancelPasswordKeeps == ASSUME WindowInv, CancelPassword PROVE WindowInv'
<1>1. /\ pw' = [open |-> FALSE, mode |-> "open"] /\ asker' = Nothing
      /\ pend' = [m \in Modes |-> Nothing]
      /\ lapses' = lapses \cup IF LeftOpen THEN {"left"} ELSE {}
      /\ UNCHANGED <<shown, dialogs, editing, ext, calls, backend>>
  BY DEF CancelPassword, ClosePw, Lapse
<1>2. acts' \in 0..MaxActs
  BY ActIs DEF CancelPassword, WindowInv, Types
<1>3. Apart /\ CallsOK'
  <2>1. Apart
    BY <1>1 DEF Apart, JobGoesOn, editing, backend
  <2> QED BY <1>1, <2>1, CallsStay DEF WindowInv, Types, backend
<1>4. ShownOK'
  <2>1. pw' \in [open : BOOLEAN, mode : Modes] /\ pend' \in [Modes -> Maybe] /\ asker' \in Maybe
    BY <1>1 DEF Modes, Maybe
  <2>2. lapses' \subseteq {"overtaken", "early", "unread", "blind", "left", "late", "behind"}
    BY <1>1 DEF WindowInv, Types, ShownOK
  <2> QED BY <1>1, <1>2, <2>1, <2>2 DEF WindowInv, Types, ShownOK, shown, backend
<1>5. Settling'
  <2>1. LeftOpen => "left" \in lapses'
    BY <1>1
  <2> QED BY <1>3, <2>1, SettlingStays DEF WindowInv
<1>6. Lists'
  BY <1>1, <1>3, ListsStay DEF WindowInv, Apart, shown, backend, editing
<1>7. Asked'
  BY <1>1 DEF Asked
<1> QED BY <1>1, <1>3, <1>4, <1>5, <1>6, <1>7, ApartStep DEF WindowInv, Types, FollowOK, editing

\* The archive is deleted, or is not: then the window shows nothing.
LEMMA ConfirmedKeeps == ASSUME WindowInv, NEW c \in calls, Confirmed(c) PROVE WindowInv'
<1>1. /\ c.op = "confirm" /\ calls' = calls \ {c}
      /\ \/ UNCHANGED <<path, list, gone>>
         \/ gone' = gone \cup {c.arc} /\ path' = Nothing /\ list' = NoList
      /\ UNCHANGED <<asking, dialogs, editing, ext, job, jobs, events, silent, ver, acts, lapses>>
  BY DEF Confirmed, Received, shown
<1>2. ShownOK /\ c.op \notin Kinds /\ c.arc \in Archives
  BY <1>1, Plain DEF WindowInv, Types, JobKinds
<1>3. Apart /\ CallsOK'
  BY <1>1, <1>2, ReceivedApart DEF editing
<1>4. ShownOK'
  <2>1. path' \in Maybe /\ list' \in [arc : Maybe, ver : Nat] /\ (path' # Nothing => list'.arc # Nothing)
    BY <1>1, <1>2 DEF ShownOK, NoList, Maybe
  <2>2. gone' \subseteq Archives
    BY <1>1, <1>2 DEF ShownOK
  <2> QED BY <1>1, <1>2, <2>1, <2>2 DEF ShownOK, asking
<1>5. Settling'
  <2>1. LeftOpen => pw'.open /\ pw'.mode = pw.mode
    BY <1>1 DEF LeftOpen, asking
  <2> QED BY <1>3, <2>1, SettlingStays DEF WindowInv
<1>6. Lists'
  <2>1. CASE UNCHANGED <<path, list>>
    BY <1>1, <1>3, <2>1, ListsStay DEF WindowInv, Apart, editing
  <2>2. CASE path' = Nothing /\ list' = NoList
    <3>1. ListIsShown' /\ Latest'
      BY <2>2 DEF ListIsShown, NoList, Latest
    <3>2. SUFFICES ASSUME ~Unnoticed' PROVE EditsTied' /\ ListsRead'
      BY <3>1 DEF Lists
    <3>3. EditsTied /\ ListsRead
      BY <1>1, <3>2 DEF WindowInv, Lists, Unnoticed
    <3>4. /\ News' = News /\ \A a : DoneComes(a)' = DoneComes(a)
          /\ job' = job /\ ver' = ver /\ editId' = editId
      BY <1>1 DEF News, DoneComes, editing
    <3>5. \A id : Tied(id) => Tied(id)'
      BY <1>1, <3>4 DEF Tied
    <3>6. EditsTied'
      BY <3>3, <3>4, <3>5 DEF EditsTied
    <3>7. ListsRead'
      BY <1>1, <3>3, <3>4 DEF ListsRead
    <3> QED BY <3>6, <3>7
  <2> QED BY <1>1, <2>1, <2>2
<1>7. Asked'
  BY <1>1 DEF WindowInv, Asked, asking
<1> QED BY <1>1, <1>3, <1>4, <1>5, <1>6, <1>7, ApartStep DEF WindowInv, Types, FollowOK, editing

-----------------------------------------------------------------------------
(* The dialogs of the test and the scan.                                    *)

\* runTestJob, runScanJob: the dialog runs and waits for its call.
LEMMA RunKeeps ==
  ASSUME WindowInv, NEW k \in Kinds, NEW a \in Archives, NEW c \in NewCalls(k, a),
         calls' = calls \cup {c}, acts' \in 0..MaxActs,
         pend' = [pend EXCEPT ![k] = a],
         known' = [known EXCEPT ![k] = 0], awaiting' = [awaiting EXCEPT ![k] = TRUE],
         dlg' = [dlg EXCEPT ![k] = Running(a)],
         \/ pw.mode = k /\ pw' = [open |-> FALSE, mode |-> "open"] /\ asker' = Nothing
         \/ /\ UNCHANGED <<pw, asker>>
            /\ pw.open /\ pw.mode = k => asker = a \/ "behind" \in lapses',
         lapses \subseteq lapses', lapses' \subseteq lapses \cup {"blind", "behind"},
         Unanswered(k) => "blind" \in lapses',
         UNCHANGED <<shown, editing, ext, backend>>
  PROVE  WindowInv'
<1>1. /\ ShownOK /\ FollowOK /\ CallsOK /\ jobs \in Nat /\ ver[a] \in Nat
      /\ k \in {"test", "scan"} /\ k \in JobKinds /\ k \in Ops /\ k \in Modes
  <2>1. ShownOK /\ FollowOK /\ CallsOK
    BY DEF WindowInv, Types
  <2> QED BY <2>1, Plain
<1>2. c.op = k /\ c.arc = a /\ c.answer = "none" /\ c.id = 0 /\ c.ver = 0 /\ c \in CallSet(c.no)
  BY <1>1, CallIs
<1>3. /\ job' = job /\ jobs' = jobs /\ events' = events /\ silent' = silent
      /\ ver' = ver /\ gone' = gone
      /\ activeJob' = activeJob /\ editId' = editId /\ path' = path /\ list' = list
  BY DEF backend, editing, shown
<1>4. /\ News' = News
      /\ \A id, kind : Due(id, kind)' = Due(id, kind)
      /\ \A id, kind : OfKind(id, kind)' = OfKind(id, kind)
      /\ \A id, arc : About(id, arc)' = About(id, arc)
  BY <1>3, SameNews DEF WindowInv, Types, JobGoesOn
<1>5. Told' /\ PanelEnds' /\ JobOK' /\ EventsOK'
  BY <1>2, <1>3, NewsStay DEF WindowInv, JobGoesOn
<1>6. /\ \A j \in Kinds : j # k => known'[j] = known[j] /\ awaiting'[j] = awaiting[j] /\ dlg'[j] = dlg[j]
      /\ known'[k] = 0 /\ awaiting'[k] = TRUE /\ dlg'[k] = Running(a)
  BY <1>1 DEF FollowOK
<1>7. ShownOK'
  <2>1. pw' \in [open : BOOLEAN, mode : Modes] /\ asker' \in Maybe
    <3>1. pw \in [open : BOOLEAN, mode : Modes] /\ asker \in Maybe
      BY <1>1 DEF ShownOK
    <3>2. Nothing \in Maybe /\ "open" \in Modes
      BY DEF Modes, Maybe
    <3>3. CASE pw' = [open |-> FALSE, mode |-> "open"] /\ asker' = Nothing
      BY <3>2, <3>3
    <3>4. CASE UNCHANGED <<pw, asker>>
      BY <3>1, <3>4
    <3> QED BY <3>3, <3>4
  <2>2. pend' \in [Modes -> Maybe]
    BY <1>1 DEF ShownOK, Maybe
  <2>3. lapses' \subseteq {"overtaken", "early", "unread", "blind", "left", "late", "behind"}
    BY <1>1 DEF ShownOK
  <2> QED BY <1>1, <1>3, <2>1, <2>2, <2>3 DEF ShownOK
<1>8. FollowOK'
  <2>1. Running(a) \in Dialogs /\ 0 \in 0..jobs
    BY <1>1 DEF Running, Dialogs, Maybe
  <2>2. dlg' \in [Kinds -> Dialogs] /\ known' \in [Kinds -> 0..jobs] /\ awaiting' \in [Kinds -> BOOLEAN]
    BY <1>1, <2>1 DEF FollowOK
  <2> QED BY <1>1, <1>3, <2>2 DEF FollowOK
<1>9. CallsOK'
  BY <1>1, <1>2, <1>3, CallsStay
<1>10. DialogsWait'
  <2>1. Unanswered(k)'
    BY <1>2 DEF Unanswered
  <2>2. \A j \in Kinds : Unanswered(j) => Unanswered(j)'
    BY DEF Unanswered
  <2> QED BY <1>4, <1>6, <2>1, <2>2 DEF WindowInv, DialogsWait
<1>11. Own'
  <2>1. SUFFICES ASSUME ~Blind' PROVE OneCall' /\ OwnCall' /\ OwnJob' /\ OwnReport'
    BY DEF Own
  <2>2. OneCall /\ OwnCall /\ OwnJob /\ OwnReport /\ ~Unanswered(k)
    BY <2>1 DEF WindowInv, Own, Blind
  <2>3. OneCall'
    BY <1>2, <2>2 DEF OneCall, Unanswered
  <2>4. OwnCall'
    BY <1>2, <1>4, <1>6, <2>2 DEF OwnCall, Unanswered, Running
  <2>5. OwnJob' /\ OwnReport'
    BY <1>4, <1>6, <2>2 DEF OwnJob, OwnReport, Running
  <2> QED BY <2>3, <2>4, <2>5
<1>12. Settling'
  <2>1. SUFFICES ASSUME "left" \notin lapses', ~Blind', NEW j \in Kinds, dlg'[j].phase = "running"
        PROVE \/ pw'.open /\ pw'.mode = j
              \/ awaiting'[j]
              \/ known'[j] # 0 /\ Due(known'[j], j)
    BY <1>4 DEF Settling
  <2>2. CASE j = k
    BY <1>6, <2>2
  <2>3. CASE j # k
    BY <1>6, <2>1, <2>3 DEF WindowInv, Settling, Blind
  <2> QED BY <2>2, <2>3
<1>13. Lists'
  BY <1>2, <1>3, ListsStay DEF WindowInv, JobGoesOn
<1>14. Asked'
  BY <1>1, <1>3 DEF WindowInv, Asked, ShownOK
<1> QED BY <1>5, <1>7, <1>8, <1>9, <1>10, <1>11, <1>12, <1>13, <1>14 DEF WindowInv, Types

LEMMA OpenTestKeeps == ASSUME WindowInv, NEW k \in Kinds, OpenTest(k) PROVE WindowInv'
<1>1. path \in Archives /\ acts' \in 0..MaxActs
  BY ActIs DEF OpenTest, WindowInv, Types, ShownOK, Maybe
<1>2. /\ calls' = calls \cup {[Call(k, path) EXCEPT !.pw = FALSE]}
      /\ pend' = [pend EXCEPT ![k] = path]
      /\ known' = [known EXCEPT ![k] = 0] /\ awaiting' = [awaiting EXCEPT ![k] = TRUE]
      /\ dlg' = [dlg EXCEPT ![k] = Running(path)]
      /\ lapses' = lapses \cup (IF Unanswered(k) THEN {"blind"} ELSE {})
                          \cup (IF pw.open /\ pw.mode = k /\ asker # path THEN {"behind"} ELSE {})
      /\ UNCHANGED <<shown, pw, asker, editing, ext, backend>>
  BY DEF OpenTest, RunJob, Send
<1>3. [Call(k, path) EXCEPT !.pw = FALSE] \in NewCalls(k, path)
  BY CallPlain DEF NewCalls
<1>4. /\ Unanswered(k) => "blind" \in lapses'
      /\ pw.open /\ pw.mode = k => asker = path \/ "behind" \in lapses'
      /\ lapses \subseteq lapses' /\ lapses' \subseteq lapses \cup {"blind", "behind"}
  BY <1>2
<1> QED BY <1>1, <1>2, <1>3, <1>4, RunKeeps

\* submitPassword: the flow that has asked goes on.
LEMMA SubmitPasswordKeeps == ASSUME WindowInv, SubmitPassword PROVE WindowInv'
<1>1. acts' \in 0..MaxActs
  BY ActIs DEF SubmitPassword, WindowInv, Types
<1>2. pw.mode \in Kinds \cup {"open", "entry"} /\ pend[pw.mode] \in Archives
  BY DEF SubmitPassword, WindowInv, Types, ShownOK, Modes, Maybe
<1>3. UNCHANGED <<shown, editing, ext, backend>>
  BY DEF SubmitPassword
<1>4. CASE pw.mode \in Kinds
  <2>1. /\ ClosePw /\ RunJob(pw.mode, pend[pw.mode], TRUE)
        /\ Lapse("blind", Unanswered(pw.mode))
    <3>1. pw.mode # "entry" /\ pw.mode # "open"
      BY <1>4, Plain
    <3> QED BY <1>4, <3>1 DEF SubmitPassword
  <2>2. /\ lapses \subseteq lapses' /\ lapses' \subseteq lapses \cup {"blind", "behind"}
        /\ Unanswered(pw.mode) => "blind" \in lapses'
    BY <2>1 DEF Lapse
  <2> QED BY <1>1, <1>2, <1>3, <1>4, <2>1, <2>2, RunKeeps DEF ClosePw, RunJob, Send, NewCalls
<1>5. CASE pw.mode = "entry"
  <2>1. pw.mode \notin Kinds
    BY <1>5, Plain
  <2>2. /\ calls' = IF path = Nothing THEN calls
                    ELSE calls \cup {[Call("entry", path) EXCEPT !.pw = TRUE]}
        /\ UNCHANGED <<asking, dialogs, lapses>>
    BY <1>5, <2>1 DEF SubmitPassword
  <2>3. CASE path = Nothing
    <3>1. Apart /\ CallsOK'
      <4>1. Apart
        BY <1>3, <2>2, <2>3 DEF Apart, JobGoesOn, editing, backend
      <4> QED BY <1>3, <2>2, <2>3, <4>1, CallsStay DEF WindowInv, Types, backend
    <3>2. ShownOK'
      BY <1>1, <1>3, <2>2 DEF WindowInv, Types, ShownOK, shown, asking, backend
    <3>3. Settling'
      <4>1. LeftOpen => pw'.open /\ pw'.mode = pw.mode
        BY <2>2 DEF LeftOpen, asking
      <4> QED BY <3>1, <4>1, SettlingStays DEF WindowInv
    <3>4. Lists'
      BY <1>3, <2>2, <2>3, <3>1, ListsStay DEF WindowInv, Apart, shown, backend, editing
    <3>5. Asked'
      BY <1>3, <2>2, AskedStays DEF WindowInv, shown, asking
    <3> QED BY <1>3, <3>1, <3>2, <3>3, <3>4, <3>5, ApartStep DEF WindowInv, Types, FollowOK, editing
  <2>4. CASE path # Nothing
    <3>1. "entry" \in Ops \ Kinds /\ path \in Archives
      BY <1>5, <2>1, <2>4, Plain
    <3> QED BY <1>1, <1>3, <2>2, <2>4, <3>1, SendKeeps DEF NewCalls
  <2> QED BY <2>3, <2>4
<1>6. CASE pw.mode = "open"
  <2>1. pw.mode \notin Kinds /\ "open" \in Ops \ Kinds
    BY <1>6, Plain DEF JobKinds
  <2>2. /\ calls' = calls \cup {[Call("open", pend["open"]) EXCEPT !.pw = TRUE]}
        /\ UNCHANGED <<asking, dialogs, lapses>>
    BY <1>6, <2>1 DEF SubmitPassword, Send
  <2> QED BY <1>1, <1>2, <1>3, <1>6, <2>1, <2>2, SendKeeps DEF NewCalls
<1> QED BY <1>2, <1>4, <1>5, <1>6

\* closeTest, closeScan: the dialog goes and its job is canceled.
LEMMA CloseTestKeeps == ASSUME WindowInv, NEW k \in Kinds, CloseTest(k) PROVE WindowInv'
<1>1. /\ acts' \in 0..MaxActs /\ JobGoesOn
      /\ known' = [known EXCEPT ![k] = 0] /\ awaiting' = [awaiting EXCEPT ![k] = FALSE]
      /\ dlg' = [dlg EXCEPT ![k] = Closed]
      /\ lapses' = lapses \cup IF awaiting[k] /\ known[k] = 0 THEN {"blind"} ELSE {}
      /\ UNCHANGED <<shown, asking, editing, ext, calls, jobs, events, silent, ver, gone>>
  BY ActIs DEF CloseTest, JobGoesOn, Lapse, WindowInv, Types
<1>2. ShownOK /\ FollowOK /\ CallsOK /\ jobs \in Nat
  <2>1. ShownOK /\ FollowOK /\ CallsOK
    BY DEF WindowInv, Types
  <2> QED BY <2>1, Plain
<1>3. lapses \subseteq lapses' /\ lapses' \subseteq lapses \cup {"blind"}
  BY <1>1
<1>4. /\ News' = News
      /\ \A id, kind : Due(id, kind)' = Due(id, kind)
      /\ \A id, kind : OfKind(id, kind)' = OfKind(id, kind)
      /\ \A id, arc : About(id, arc)' = About(id, arc)
  BY <1>1, SameNews DEF WindowInv, Types
<1>5. Told' /\ PanelEnds' /\ JobOK' /\ EventsOK'
  BY <1>1, NewsStay DEF WindowInv, editing
<1>6. /\ \A j \in Kinds : j # k => known'[j] = known[j] /\ awaiting'[j] = awaiting[j] /\ dlg'[j] = dlg[j]
      /\ known'[k] = 0 /\ ~awaiting'[k] /\ dlg'[k] = Closed
  BY <1>1, <1>2 DEF FollowOK
<1>7. ShownOK'
  BY <1>1, <1>2, <1>3 DEF ShownOK, shown, asking
<1>8. FollowOK'
  <2>1. Closed \in Dialogs /\ 0 \in 0..jobs
    BY <1>2 DEF Closed, Dialogs, Maybe
  <2>2. dlg' \in [Kinds -> Dialogs] /\ known' \in [Kinds -> 0..jobs] /\ awaiting' \in [Kinds -> BOOLEAN]
    BY <1>1, <1>2, <2>1 DEF FollowOK
  <2> QED BY <1>1, <1>2, <2>2 DEF FollowOK, editing
<1>9. CallsOK'
  BY <1>1, <1>2, CallsStay
<1>10. DialogsWait'
  BY <1>1, <1>4, <1>6 DEF WindowInv, DialogsWait, Unanswered
<1>11. Own'
  <2>1. SUFFICES ASSUME ~Blind' PROVE OneCall' /\ OwnCall' /\ OwnJob' /\ OwnReport'
    BY DEF Own
  <2>2. OneCall /\ OwnCall /\ OwnJob /\ OwnReport
    BY <1>3, <2>1 DEF WindowInv, Own, Blind
  <2>3. OneCall' /\ OwnCall'
    BY <1>1, <1>4, <1>6, <2>2 DEF OneCall, OwnCall
  <2>4. OwnJob' /\ OwnReport'
    BY <1>4, <1>6, <2>2 DEF OwnJob, OwnReport, Closed
  <2> QED BY <2>3, <2>4
<1>12. Settling'
  <2>1. SUFFICES ASSUME "left" \notin lapses', ~Blind', NEW j \in Kinds, dlg'[j].phase = "running"
        PROVE \/ pw'.open /\ pw'.mode = j
              \/ awaiting'[j]
              \/ known'[j] # 0 /\ Due(known'[j], j)
    BY <1>4 DEF Settling
  <2>2. j # k
    BY <1>6, <2>1 DEF Closed
  <2> QED BY <1>1, <1>3, <1>6, <2>1, <2>2 DEF WindowInv, Settling, Blind, asking
<1>13. Lists'
  BY <1>1, <1>3, ListsStay DEF WindowInv, shown, editing
<1>14. Asked'
  BY <1>1, <1>3, AskedStays DEF WindowInv, shown, asking
<1> QED BY <1>5, <1>7, <1>8, <1>9, <1>10, <1>11, <1>12, <1>13, <1>14 DEF WindowInv, Types

\* The answer to a test or a scan: what the window waited for is what it follows.
LEMMA StartedKeeps == ASSUME WindowInv, NEW c \in calls, Started(c) PROVE WindowInv'
<1> DEFINE k == c.op
<1>1. /\ k \in Kinds /\ c.answer = "ok" /\ calls' = calls \ {c}
      /\ IF awaiting[k]
         THEN /\ known' = [known EXCEPT ![k] = c.id]
              /\ awaiting' = [awaiting EXCEPT ![k] = FALSE]
         ELSE UNCHANGED <<known, awaiting>>
      /\ UNCHANGED <<shown, asking, dlg, editing, ext, backend, acts, lapses>>
  BY DEF Started, Received
<1> HIDE DEF k
<1>2. /\ ShownOK /\ FollowOK /\ CallsOK /\ jobs \in Nat /\ c \in CallSet(c.no) /\ k \in JobKinds
      /\ k # "open" /\ k # "reload" /\ k # "edit"
  <2>1. ShownOK /\ FollowOK /\ CallsOK
    BY DEF WindowInv, Types
  <2> QED BY <1>1, <2>1, Plain
<1>3. /\ c.id \in 0..jobs /\ c.id # 0
  BY <1>1, <1>2 DEF CallsOK, CallSet, k
<1>4. /\ News' = News /\ job' = job /\ jobs' = jobs /\ events' = events /\ ver' = ver
      /\ silent' = silent
      /\ \A id, kind : Due(id, kind)' = Due(id, kind)
      /\ \A id, kind : OfKind(id, kind)' = OfKind(id, kind)
      /\ \A id, arc : About(id, arc)' = About(id, arc)
  BY <1>1, SameNews DEF WindowInv, Types, JobGoesOn, backend
<1>5. Told' /\ PanelEnds' /\ JobOK' /\ EventsOK'
  BY <1>1, NewsStay DEF WindowInv, editing, backend, JobGoesOn
<1>6. OfKind(c.id, k) /\ About(c.id, c.arc)
  BY <1>1, <1>2 DEF WindowInv, Told, OneKind, k
<1>7. /\ \A j \in Kinds : j # k => known'[j] = known[j] /\ awaiting'[j] = awaiting[j]
      /\ ~awaiting'[k] /\ known'[k] = IF awaiting[k] THEN c.id ELSE known[k]
  BY <1>1, <1>2 DEF FollowOK
<1>8. ShownOK'
  BY <1>1, <1>2 DEF ShownOK, shown, asking, backend
<1>9. FollowOK'
  <2>1. known' \in [Kinds -> 0..jobs] /\ awaiting' \in [Kinds -> BOOLEAN]
    BY <1>1, <1>2, <1>3 DEF FollowOK
  <2> QED BY <1>1, <1>2, <1>4, <2>1 DEF FollowOK, editing
<1>10. CallsOK'
  BY <1>1, <1>2, <1>4, CallsStay
<1>11. DialogsWait'
  <2>1. \A j \in Kinds : j # k /\ Unanswered(j) => Unanswered(j)'
    BY <1>1 DEF Unanswered, k
  <2> QED BY <1>4, <1>6, <1>7, <2>1 DEF WindowInv, DialogsWait
<1>12. Own'
  <2>1. SUFFICES ASSUME ~Blind' PROVE OneCall' /\ OwnCall' /\ OwnJob' /\ OwnReport'
    BY DEF Own
  <2>2. OneCall /\ OwnCall /\ OwnJob /\ OwnReport
    BY <1>1, <2>1 DEF WindowInv, Own, Blind
  <2>3. OneCall' /\ OwnReport'
    BY <1>1, <2>2 DEF OneCall, OwnReport
  <2>4. OwnCall'
    BY <1>1, <1>4, <1>7, <2>2 DEF OwnCall
  <2>5. awaiting[k] => c.arc = dlg[k].of
    BY <1>1, <2>2 DEF OwnCall, k
  <2>6. OwnJob'
    <3>1. c.arc # Nothing
      BY <1>2, WindowAssumption DEF CallSet, Nothing
    <3> QED BY <1>1, <1>4, <1>6, <1>7, <2>2, <2>5, <3>1 DEF OwnJob
  <2> QED BY <2>3, <2>4, <2>6
<1>13. Settling'
  <2>1. SUFFICES ASSUME "left" \notin lapses, ~Blind, NEW j \in Kinds, dlg[j].phase = "running"
        PROVE \/ pw.open /\ pw.mode = j
              \/ awaiting'[j]
              \/ known'[j] # 0 /\ Due(known'[j], j)
    BY <1>1, <1>4 DEF Settling, Blind, asking
  <2>2. CASE awaiting[k] /\ j = k
    <3>1. OwnCall
      BY <2>1 DEF WindowInv, Own
    <3>2. \/ Due(c.id, k)
          \/ \E e \in News : ~IsEnd(e) /\ e.id = c.id /\ e.kind = k
      BY <1>1, <2>2, <3>1 DEF OwnCall, k
    <3>3. Due(c.id, k)
      BY <3>2 DEF WindowInv, Told, StartsEnd
    <3> QED BY <1>3, <1>7, <2>2, <3>3
  <2>3. CASE ~(awaiting[k] /\ j = k)
    BY <1>7, <2>1, <2>3 DEF WindowInv, Settling
  <2> QED BY <2>2, <2>3
<1>14. Lists'
  BY <1>1, <1>2, <1>4, ListsStay DEF WindowInv, shown, editing, JobGoesOn, k
<1>15. Asked'
  BY <1>1, AskedStays DEF WindowInv, shown, asking
<1> QED BY <1>5, <1>8, <1>9, <1>10, <1>11, <1>12, <1>13, <1>14, <1>15 DEF WindowInv, Types

\* The test or the scan is refused: the dialog says so.
LEMMA RefusedKeeps == ASSUME WindowInv, NEW c \in calls, Refused(c) PROVE WindowInv'
<1> DEFINE k == c.op
<1>1. /\ k \in Kinds /\ c.answer = "refused" /\ calls' = calls \ {c}
      /\ known' = [known EXCEPT ![k] = 0] /\ awaiting' = [awaiting EXCEPT ![k] = FALSE]
      /\ dlg' = [dlg EXCEPT ![k].phase = IF @ = "closed" THEN @ ELSE "failed"]
      /\ UNCHANGED <<shown, asking, editing, ext, backend, acts, lapses>>
  BY DEF Refused, Received
<1> HIDE DEF k
<1>2. /\ ShownOK /\ FollowOK /\ CallsOK /\ jobs \in Nat
      /\ k # "open" /\ k # "reload" /\ k # "edit"
  <2>1. ShownOK /\ FollowOK /\ CallsOK
    BY DEF WindowInv, Types
  <2> QED BY <1>1, <2>1, Plain
<1>3. /\ News' = News /\ job' = job /\ jobs' = jobs /\ events' = events /\ ver' = ver
      /\ silent' = silent
      /\ \A id, kind : Due(id, kind)' = Due(id, kind)
      /\ \A id, kind : OfKind(id, kind)' = OfKind(id, kind)
      /\ \A id, arc : About(id, arc)' = About(id, arc)
  BY <1>1, SameNews DEF WindowInv, Types, JobGoesOn, backend
<1>4. Told' /\ PanelEnds' /\ JobOK' /\ EventsOK'
  BY <1>1, NewsStay DEF WindowInv, editing, backend, JobGoesOn
<1>5. /\ \A j \in Kinds : j # k => known'[j] = known[j] /\ awaiting'[j] = awaiting[j] /\ dlg'[j] = dlg[j]
      /\ known'[k] = 0 /\ ~awaiting'[k]
      /\ dlg'[k].phase \in {"closed", "failed"} /\ dlg'[k] \in Dialogs
  BY <1>1, <1>2 DEF FollowOK, Dialogs
<1>6. ShownOK'
  BY <1>1, <1>2 DEF ShownOK, shown, asking, backend
<1>7. FollowOK'
  <2>1. dlg' \in [Kinds -> Dialogs]
    BY <1>1, <1>2, <1>5 DEF FollowOK
  <2>2. known' \in [Kinds -> 0..jobs] /\ awaiting' \in [Kinds -> BOOLEAN]
    BY <1>1, <1>2 DEF FollowOK
  <2> QED BY <1>1, <1>2, <1>3, <2>1, <2>2 DEF FollowOK, editing
<1>8. CallsOK'
  BY <1>1, <1>2, <1>3, CallsStay
<1>9. DialogsWait'
  <2>1. \A j \in Kinds : j # k /\ Unanswered(j) => Unanswered(j)'
    BY <1>1 DEF Unanswered, k
  <2> QED BY <1>3, <1>5, <2>1 DEF WindowInv, DialogsWait
<1>10. Own'
  <2>1. SUFFICES ASSUME ~Blind' PROVE OneCall' /\ OwnCall' /\ OwnJob' /\ OwnReport'
    BY DEF Own
  <2>2. OneCall /\ OwnCall /\ OwnJob /\ OwnReport
    BY <1>1, <2>1 DEF WindowInv, Own, Blind
  <2>3. OneCall' /\ OwnCall'
    BY <1>1, <1>3, <1>5, <2>2 DEF OneCall, OwnCall
  <2>4. OwnJob' /\ OwnReport'
    BY <1>3, <1>5, <2>2 DEF OwnJob, OwnReport
  <2> QED BY <2>3, <2>4
<1>11. Settling'
  <2>1. SUFFICES ASSUME "left" \notin lapses, ~Blind, NEW j \in Kinds, dlg'[j].phase = "running"
        PROVE \/ pw.open /\ pw.mode = j
              \/ awaiting'[j]
              \/ known'[j] # 0 /\ Due(known'[j], j)
    BY <1>1, <1>3 DEF Settling, Blind, asking
  <2> QED BY <1>5, <2>1 DEF WindowInv, Settling
<1>12. Lists'
  BY <1>1, <1>2, <1>3, ListsStay DEF WindowInv, shown, editing, JobGoesOn, k
<1>13. Asked'
  BY <1>1, AskedStays DEF WindowInv, shown, asking
<1> QED BY <1>4, <1>6, <1>7, <1>8, <1>9, <1>10, <1>11, <1>12, <1>13 DEF WindowInv, Types

-----------------------------------------------------------------------------
(* The jobs start and end.                                                  *)

\* A job starts, and that is emitted: what was told of the others stays.
LEMMA StartTold ==
  ASSUME Types, Told, NEW kind \in JobKinds, NEW n, n = jobs + 1, job = NoJob, jobs < MaxStarts,
         silent' = silent,
         jobs' = jobs + 1, JobOK', job' # NoJob, job'.id = jobs', job'.kind = kind,
         events' = Append(events, [ev |-> "started", id |-> jobs', kind |-> kind])
  PROVE  /\ EventsOK' /\ InTurn' /\ StartsEnd' /\ \A e \in News' : OfKind(e.id, e.kind)'
         /\ News' = News \cup {[ev |-> "started", id |-> jobs', kind |-> kind]}
         /\ OfKind(n, kind)' /\ About(n, job.arc)'
         /\ \A id, kd : Due(id, kd) => Due(id, kd)'
         /\ \A id \in 0..jobs : \A kd : OfKind(id, kd) => OfKind(id, kd)'
         /\ \A id \in 0..jobs : \A arc : About(id, arc) => About(id, arc)'
<1> DEFINE s == [ev |-> "started", id |-> jobs', kind |-> kind]
<1>1. jobs \in Nat /\ EventsOK /\ s \in EventSet' /\ ~IsEnd(s) /\ s.id = n /\ s.kind = kind
  <2>1. jobs \in Nat /\ EventsOK
    BY WindowAssumption DEF Types, FollowOK
  <2>2. jobs' \in 1..jobs'
    BY <2>1
  <2> QED BY <2>1, <2>2 DEF EventSet, EventOK, StartSet, IsEnd
<1>2. events \in Seq(EventSet') /\ \A e \in News : e.id \in 1..jobs
  <2>1. EventSet \subseteq EventSet'
    <3>1. 1..jobs \subseteq 1..jobs'
      BY <1>1
    <3>2. StartSet \subseteq StartSet' /\ EndSet \subseteq EndSet'
      BY <3>1 DEF StartSet, EndSet
    <3>3. \A e \in EventSet : EventOK(e)'
      BY <3>2 DEF EventSet, EventOK
    <3> QED BY <3>2, <3>3 DEF EventSet
  <2>2. \A e \in EventSet : e.id \in 1..jobs
    BY DEF EventSet, StartSet, EndSet
  <2>3. \A e \in News : e \in EventSet
    BY <1>1 DEF EventsOK, News
  <2> QED BY <1>1, <2>1, <2>2, <2>3 DEF EventsOK
<1> HIDE DEF s
<1>3. /\ events' \in Seq(EventSet')
      /\ Len(events') = Len(events) + 1 /\ Len(events) \in Nat
      /\ \A i \in 1..Len(events) : events'[i] = events[i]
      /\ events'[Len(events) + 1] = s
  BY <1>1, <1>2 DEF s
<1>4. News' = News \cup {s}
  <2>1. \A e : e \in News' <=> \E i \in 1..Len(events) + 1 : e = events'[i]
    BY <1>3 DEF News
  <2>2. \A e : e \in News <=> \E i \in 1..Len(events) : e = events[i]
    BY DEF News
  <2> QED BY <1>3, <2>1, <2>2
<1>5. EventsOK'
  BY <1>3 DEF EventsOK
<1>6. \A id : InWork(id)' <=> id = n
  BY DEF InWork
<1>7. \A id : ~InWork(id)
  BY DEF InWork
<1>8. InTurn'
  <2>1. ASSUME NEW i \in 1..Len(events'), NEW j \in 1..Len(events'), i < j, IsEnd(events'[i])
        PROVE events'[i].id < events'[j].id
    <3>1. i \in 1..Len(events) /\ events'[i] = events[i] /\ events[i] \in News
      BY <1>3, <2>1 DEF News
    <3>2. CASE j = Len(events) + 1
      BY <1>1, <1>2, <1>3, <3>1, <3>2
    <3>3. CASE j # Len(events) + 1
      <4>1. j \in 1..Len(events) /\ events'[j] = events[j]
        BY <1>3, <3>3
      <4> QED BY <2>1, <3>1, <4>1 DEF Told, InTurn
    <3> QED BY <3>2, <3>3
  <2>2. \A e \in News' : IsEnd(e) => e.id < job'.id
    BY <1>1, <1>2, <1>4
  <2> QED BY <2>1, <2>2 DEF InTurn, IsEnd
<1>9. \A id, kd : Due(id, kd) => Due(id, kd)'
  BY <1>4, <1>7 DEF Due, IsEnd
<1>10. Due(n, kind)'
  <2>1. InWork(n)' /\ job'.kind = kind
    BY <1>6
  <2> QED BY <2>1 DEF Due
<1>11. StartsEnd'
  BY <1>1, <1>4, <1>9, <1>10 DEF Told, StartsEnd, IsEnd
<1>12. \A id \in 0..jobs : \A kd : OfKind(id, kd) => OfKind(id, kd)'
  BY <1>1, <1>4, <1>6 DEF OfKind
<1>13. \A id \in 0..jobs : \A arc : About(id, arc) => About(id, arc)'
  BY <1>1, <1>4, <1>6 DEF About, IsEnd
<1>14. OfKind(n, kind)' /\ About(n, job.arc)'
  <2>1. \A e \in News : e.id # n
    BY <1>1, <1>2
  <2>2. OfKind(n, kind)'
    BY <1>1, <1>4, <2>1 DEF OfKind
  <2>3. About(n, job.arc)'
    BY <1>1, <1>4, <2>1 DEF About, IsEnd
  <2> QED BY <2>2, <2>3
<1>15. \A e \in News' : OfKind(e.id, e.kind)'
  <2>1. \A e \in News : e.id \in 0..jobs /\ OfKind(e.id, e.kind)
    BY <1>1, <1>2 DEF Told, OneKind
  <2> QED BY <1>1, <1>4, <1>12, <1>14, <2>1
<1> QED BY <1>4, <1>5, <1>8, <1>9, <1>11, <1>12, <1>13, <1>14, <1>15 DEF s

\* What is followed stays as it is while a job starts.
LEMMA StartFollowed ==
  ASSUME Types, PanelEnds, jobs' = jobs + 1, jobs < MaxStarts, UNCHANGED <<dialogs, editing, ext>>,
         NEW s, News' = News \cup {s}, s.id = jobs + 1,
         \A id : InWork(id)' => id = jobs + 1,
         \A id, kd : Due(id, kd) => Due(id, kd)'
  PROVE  PanelEnds' /\ FollowOK'
<1>1. FollowOK /\ jobs \in Nat /\ jobs' \in 0..MaxStarts
  BY WindowAssumption DEF Types, FollowOK
<1>2. 0..jobs \subseteq 0..jobs' /\ 1..jobs \subseteq 1..jobs'
  BY <1>1
<1>3. FollowOK'
  BY <1>1, <1>2 DEF FollowOK, dialogs, editing, Dialogs
<1>4. \A x \in ext : x # jobs + 1
  BY <1>1 DEF FollowOK
<1>5. PanelEnds'
  BY <1>4 DEF PanelEnds, editing
<1> QED BY <1>3, <1>5

\* A job of another window.
LEMMA ForeignStartKeeps ==
  ASSUME WindowInv, NEW kind \in ForeignKinds, ForeignStart(kind) PROVE WindowInv'
<1> DEFINE s == [ev |-> "started", id |-> jobs', kind |-> kind]
<1>1. /\ job = NoJob /\ jobs < MaxStarts /\ jobs' = jobs + 1
      /\ \E withPw \in BOOLEAN :
           job' = [id |-> jobs', kind |-> kind, arc |-> Nothing, pw |-> withPw,
                   own |-> FALSE, canceled |-> FALSE]
      /\ events' = Append(events, s)
      /\ UNCHANGED <<shown, asking, dialogs, editing, ext, calls, silent, ver, gone, acts, lapses>>
  BY DEF ForeignStart
<1>2. Types /\ ShownOK /\ FollowOK /\ CallsOK /\ jobs \in Nat /\ kind \in JobKinds
  BY WindowAssumption, Plain DEF WindowInv, Types, JobKinds
<1>3. job' # NoJob /\ job'.id = jobs' /\ job'.kind = kind /\ job'.own = FALSE /\ JobOK'
  <2>1. PICK withPw \in BOOLEAN :
          job' = [id |-> jobs', kind |-> kind, arc |-> Nothing, pw |-> withPw,
                  own |-> FALSE, canceled |-> FALSE]
    BY <1>1
  <2>2. silent' \subseteq 1..jobs'
    BY <1>1, <1>2 DEF Types, JobOK
  <2>3. job' # NoJob /\ job'.id = jobs' /\ job'.kind = kind /\ job'.own = FALSE
    BY <1>1, <1>2, <2>1 DEF NoJob
  <2>4. job' \in JobSet' /\ job'.arc = Nothing
    BY <1>2, <2>1 DEF JobSet, Maybe
  <2> QED BY <1>1, <1>2, <2>2, <2>3, <2>4 DEF JobOK
<1> HIDE DEF s
<1>4. /\ EventsOK' /\ InTurn' /\ StartsEnd' /\ \A e \in News' : OfKind(e.id, e.kind)'
      /\ News' = News \cup {s}
      /\ \A id, kd : Due(id, kd) => Due(id, kd)'
      /\ \A id \in 0..jobs : \A kd : OfKind(id, kd) => OfKind(id, kd)'
      /\ \A id \in 0..jobs : \A arc : About(id, arc) => About(id, arc)'
  BY <1>1, <1>2, <1>3, StartTold DEF s, WindowInv
<1>5. s.id = jobs + 1 /\ ~IsEnd(s) /\ s.kind = kind /\ s.ev = "started"
  BY <1>1 DEF s, IsEnd
<1>6. PanelEnds' /\ FollowOK'
  <2>1. \A id : InWork(id)' => id = jobs + 1
    BY <1>1, <1>3 DEF InWork
  <2> QED BY <1>1, <1>2, <1>4, <1>5, <2>1, StartFollowed DEF WindowInv
<1>7. \A c \in calls : c.id \in 0..jobs
  BY <1>2 DEF CallsOK, CallSet
<1>8. Told'
  BY <1>1, <1>4, <1>7 DEF WindowInv, Told, OneKind
<1>9. /\ \A k \in Kinds : known[k] \in 0..jobs
      /\ known' = known /\ awaiting' = awaiting /\ dlg' = dlg
  BY <1>1, <1>2 DEF FollowOK, dialogs
<1>10. DialogsWait'
  BY <1>1, <1>4, <1>9 DEF WindowInv, DialogsWait, Unanswered
<1>11. Own'
  <2>1. SUFFICES ASSUME ~Blind PROVE OneCall' /\ OwnCall' /\ OwnJob' /\ OwnReport'
    BY <1>1 DEF Own, Blind
  <2>2. OneCall /\ OwnCall /\ OwnJob /\ OwnReport
    BY <2>1 DEF WindowInv, Own
  <2>3. OneCall' /\ OwnReport'
    BY <1>1, <1>9, <2>2 DEF OneCall, OwnReport
  <2>4. OwnCall'
    BY <1>1, <1>4, <1>9, <2>2 DEF OwnCall
  <2>5. OwnJob'
    BY <1>4, <1>9, <2>2 DEF OwnJob
  <2> QED BY <2>3, <2>4, <2>5
<1>12. Settling'
  BY <1>1, <1>4, <1>9 DEF WindowInv, Settling, Blind, asking
<1>13. ShownOK' /\ CallsOK'
  <2>1. 0..jobs \subseteq 0..jobs'
    BY <1>1, <1>2
  <2> QED BY <1>1, <1>2, <2>1 DEF ShownOK, shown, asking, CallsOK, CallSet
<1>14. Lists'
  <2>1. \A a : DoneComes(a) => DoneComes(a)'
    BY <1>4 DEF DoneComes
  <2>2. \A id : Tied(id) => Tied(id)'
    BY <1>1 DEF Tied, editing
  <2>3. EditsTied => EditsTied'
    BY <1>3, <1>4, <1>5, <2>2 DEF EditsTied
  <2>4. (ListsRead => ListsRead') /\ (Latest => Latest')
    BY <1>1, <2>1 DEF ListsRead, Latest, shown
  <2> QED BY <1>1, <2>3, <2>4 DEF WindowInv, Lists, ListIsShown, Unnoticed, shown
<1>15. Asked'
  BY <1>1, AskedStays DEF WindowInv, shown, asking
<1> QED BY <1>3, <1>4, <1>6, <1>8, <1>10, <1>11, <1>12, <1>13, <1>14, <1>15 DEF WindowInv, Types

\* A command that may not start its job says so.
LEMMA ReplyRefusedKeeps ==
  ASSUME WindowInv, NEW c \in calls, c.op \in JobKinds, c.answer = "none",
         calls' = (calls \ {c}) \cup {[c EXCEPT !.answer = "refused"]},
         UNCHANGED <<shown, asking, dialogs, editing, ext, backend, acts, lapses>>
  PROVE  WindowInv'
<1> DEFINE d == [c EXCEPT !.answer = "refused"]
<1>1. /\ ShownOK /\ FollowOK /\ CallsOK /\ jobs \in Nat /\ c \in CallSet(c.no)
      /\ c.op # "open" /\ c.op # "reload" /\ c.id = 0
      /\ "pick" \notin JobKinds /\ "entry" \notin JobKinds /\ "confirm" \notin JobKinds
  <2>1. ShownOK /\ FollowOK /\ CallsOK
    BY DEF WindowInv, Types
  <2>2. c.id = 0
    BY <2>1 DEF CallsOK
  <2> QED BY <2>1, <2>2, Plain
<1>2. /\ d.op = c.op /\ d.arc = c.arc /\ d.answer = "refused" /\ d.id = 0 /\ d.no = c.no
      /\ d \in CallSet(c.no) /\ calls' = (calls \ {c}) \cup {d}
  BY <1>1 DEF CallSet, Answers
<1> HIDE DEF d
<1>3. /\ job' = job /\ jobs' = jobs /\ events' = events /\ ver' = ver /\ News' = News
      /\ silent' = silent
      /\ known' = known /\ awaiting' = awaiting /\ dlg' = dlg /\ lapses' = lapses
      /\ \A id, kind : Due(id, kind)' = Due(id, kind)
      /\ \A id, kind : OfKind(id, kind)' = OfKind(id, kind)
      /\ \A id, arc : About(id, arc)' = About(id, arc)
  BY SameNews DEF WindowInv, Types, JobGoesOn, backend, dialogs
<1>4. \A e \in calls' : e \in calls \/ e = d
  BY <1>2
<1>5. Told' /\ PanelEnds' /\ JobOK' /\ EventsOK'
  BY <1>2, <1>3, <1>4, NewsStay DEF WindowInv, editing, JobGoesOn
<1>6. ShownOK' /\ FollowOK'
  BY <1>1, <1>3 DEF ShownOK, FollowOK, shown, asking, backend, editing
<1>7. CallsOK'
  BY <1>1, <1>2, <1>3, <1>4 DEF CallsOK, CallSet
<1>8. DialogsWait'
  <2>1. ASSUME NEW k \in Kinds, Unanswered(k) PROVE Unanswered(k)'
    BY <1>2, <2>1 DEF Unanswered
  <2> QED BY <1>3, <2>1 DEF WindowInv, DialogsWait
<1>9. Own'
  <2>1. SUFFICES ASSUME ~Blind PROVE OneCall' /\ OwnCall' /\ OwnJob' /\ OwnReport'
    BY <1>3 DEF Own, Blind
  <2>2. OneCall /\ OwnCall /\ OwnJob /\ OwnReport
    BY <2>1 DEF WindowInv, Own
  <2>3. OneCall'
    <3>1. \A e \in calls' : e = d \/ (e \in calls /\ e # c)
      BY <1>2
    <3> QED BY <1>2, <2>2, <3>1 DEF OneCall
  <2>4. OwnCall'
    <3>1. ASSUME NEW k \in Kinds, d.op = k, awaiting[k] PROVE d.arc = dlg[k].of
      BY <1>2, <2>2, <3>1 DEF OwnCall
    <3> QED BY <1>2, <1>3, <1>4, <2>2, <3>1 DEF OwnCall
  <2>5. OwnJob' /\ OwnReport'
    BY <1>3, <2>2 DEF OwnJob, OwnReport
  <2> QED BY <2>3, <2>4, <2>5
<1>10. Settling'
  BY <1>3 DEF WindowInv, Settling, Blind, asking
<1>11. Lists'
  <2>1. \A e \in calls : e.op = "reload" => e \in calls'
    BY <1>1, <1>2
  <2>2. \A e \in calls : e.op = "edit" /\ e.answer = "ok" => e \in calls'
    BY <1>2
  <2>3. \A e \in calls' : e.op \in {"open", "reload"} /\ e.answer = "ok" => e \in calls
    BY <1>2
  <2> QED BY <1>3, <2>1, <2>2, <2>3, ListsStay DEF WindowInv, shown, editing, JobGoesOn
<1>12. Asked'
  BY AskedStays DEF WindowInv, shown, asking
<1> QED BY <1>5, <1>6, <1>7, <1>8, <1>9, <1>10, <1>11, <1>12 DEF WindowInv, Types

\* A job of this window: its call is answered with its id.
LEMMA StartJobKeeps == ASSUME WindowInv, NEW c \in calls, StartJob(c) PROVE WindowInv'
<1>0. CASE ~(job = NoJob /\ jobs < MaxStarts)
  BY <1>0, ReplyRefusedKeeps DEF StartJob, Reply, backend, JobKinds
<1> SUFFICES ASSUME job = NoJob, jobs < MaxStarts PROVE WindowInv'
  BY <1>0
<1> DEFINE s == [ev |-> "started", id |-> jobs', kind |-> c.op]
           d == [c EXCEPT !.answer = "ok", !.id = jobs']
<1>1. /\ c.op \in JobKinds /\ c.answer = "none" /\ jobs' = jobs + 1
      /\ job' = [id |-> jobs', kind |-> c.op, arc |-> c.arc, pw |-> c.pw,
                 own |-> TRUE, canceled |-> FALSE]
      /\ events' = Append(events, s)
      /\ calls' = (calls \ {c}) \cup {d}
      /\ UNCHANGED <<shown, asking, dialogs, editing, ext, silent, ver, gone, acts, lapses>>
  BY DEF StartJob, JobKinds
<1> PICK n : n = jobs + 1
  OBVIOUS
<1>2. /\ Types /\ ShownOK /\ FollowOK /\ CallsOK /\ jobs \in Nat /\ c \in CallSet(c.no)
      /\ c.arc \in Archives /\ c.op # "open" /\ c.op # "reload"
      /\ "pick" \notin JobKinds /\ "entry" \notin JobKinds /\ "confirm" \notin JobKinds
  <2>1. Types /\ ShownOK /\ FollowOK /\ CallsOK
    BY DEF WindowInv, Types
  <2> QED BY <1>1, <2>1, Plain
<1>3. /\ n \in 0..jobs' /\ n # 0 /\ jobs' = n /\ 0..jobs \subseteq 0..jobs'
  BY <1>1, <1>2
<1>4. /\ d.op = c.op /\ d.arc = c.arc /\ d.answer = "ok" /\ d.id = n /\ d.no = c.no
      /\ d \in CallSet(c.no)'
  BY <1>1, <1>2, <1>3 DEF CallSet, Answers
<1>5. /\ job' # NoJob /\ job'.id = n /\ job'.kind = c.op /\ job'.arc = c.arc /\ JobOK'
  <2>1. c.arc \in Maybe /\ c.arc # Nothing /\ c.pw \in BOOLEAN
    BY <1>2, WindowAssumption DEF Maybe, Nothing, CallSet
  <2>2. silent' \subseteq 1..jobs'
    BY <1>1, <1>2 DEF Types, JobOK
  <2> QED BY <1>1, <1>2, <1>3, <2>1, <2>2 DEF JobOK, JobSet, NoJob
<1> HIDE DEF s, d
<1>6. /\ EventsOK' /\ InTurn' /\ StartsEnd' /\ \A e \in News' : OfKind(e.id, e.kind)'
      /\ News' = News \cup {s}
      /\ OfKind(n, c.op)' /\ About(n, job.arc)'
      /\ \A id, kd : Due(id, kd) => Due(id, kd)'
      /\ \A id \in 0..jobs : \A kd : OfKind(id, kd) => OfKind(id, kd)'
      /\ \A id \in 0..jobs : \A arc : About(id, arc) => About(id, arc)'
  BY <1>1, <1>2, <1>5, StartTold DEF s, WindowInv
<1>7. About(n, c.arc)'
  BY <1>5, <1>6 DEF About
<1>8. s.id = n /\ ~IsEnd(s) /\ s.kind = c.op /\ s.ev = "started"
  BY <1>1 DEF s, IsEnd
<1>9. PanelEnds' /\ FollowOK'
  <2>1. \A id : InWork(id)' => id = jobs + 1
    BY <1>1, <1>5 DEF InWork
  <2> QED BY <1>1, <1>2, <1>6, <1>8, <2>1, StartFollowed DEF WindowInv
<1>10. \A e \in calls' : e = d \/ (e \in calls /\ e # c)
  BY <1>1
<1>11. \A e \in calls : e.id \in 0..jobs
  BY <1>2 DEF CallsOK, CallSet
<1>12. Told'
  <2>1. OneKind'
    BY <1>4, <1>6, <1>7, <1>10, <1>11 DEF WindowInv, Told, OneKind
  <2> QED BY <1>6, <2>1 DEF Told
<1>13. /\ \A k \in Kinds : known[k] \in 0..jobs
       /\ known' = known /\ awaiting' = awaiting /\ dlg' = dlg
  BY <1>1, <1>2 DEF FollowOK, dialogs
<1>14. DialogsWait'
  <2>1. ASSUME NEW k \in Kinds, Unanswered(k) PROVE Unanswered(k)'
    BY <1>1, <1>4, <2>1 DEF Unanswered
  <2> QED BY <1>6, <1>13, <2>1 DEF WindowInv, DialogsWait
<1>15. Own'
  <2>1. SUFFICES ASSUME ~Blind PROVE OneCall' /\ OwnCall' /\ OwnJob' /\ OwnReport'
    BY <1>1 DEF Own, Blind
  <2>2. OneCall /\ OwnCall /\ OwnJob /\ OwnReport
    BY <2>1 DEF WindowInv, Own
  <2>3. OneCall'
    BY <1>4, <1>10, <2>2 DEF OneCall
  <2>4. OwnCall'
    <3>1. SUFFICES ASSUME NEW k \in Kinds, NEW e \in calls', e.op = k, awaiting[k]
          PROVE /\ e.arc = dlg[k].of
                /\ e.answer = "ok" =>
                     \/ known[k] = e.id /\ Due(e.id, k)'
                     \/ \E x \in News' : ~IsEnd(x) /\ x.id = e.id /\ x.kind = k
      BY <1>13 DEF OwnCall, IsEnd
    <3>2. CASE e = d
      BY <1>4, <1>6, <1>8, <2>2, <3>1, <3>2 DEF OwnCall
    <3>3. CASE e \in calls
      BY <1>6, <2>2, <3>1, <3>3 DEF OwnCall
    <3> QED BY <1>10, <3>2, <3>3
  <2>5. OwnJob'
    BY <1>6, <1>13, <2>2 DEF OwnJob
  <2>6. OwnReport'
    BY <1>13, <2>2 DEF OwnReport
  <2> QED BY <2>3, <2>4, <2>5, <2>6
<1>16. Settling'
  BY <1>1, <1>6, <1>13 DEF WindowInv, Settling, Blind, asking
<1>17. ShownOK'
  BY <1>1, <1>2 DEF ShownOK, shown, asking
<1>18. CallsOK'
  BY <1>1, <1>2, <1>3, <1>4, <1>10 DEF CallsOK, CallSet
<1>19. Lists'
  <2>1. \A a : DoneComes(a) => DoneComes(a)'
    BY <1>6 DEF DoneComes
  <2>2. \A id : Tied(id) => Tied(id)'
    BY <1>1 DEF Tied, editing
  <2>3. c.op = "edit" => Tied(n)'
    BY <1>1, <1>4 DEF Tied
  <2>4. EditsTied => EditsTied'
    BY <1>5, <1>6, <1>8, <2>2, <2>3 DEF EditsTied
  <2>5. ListsRead => ListsRead'
    BY <1>1, <1>2, <1>4, <1>10, <2>1 DEF ListsRead
  <2>6. Latest => Latest'
    <3>1. \A e \in calls : e.op = "reload" => e \in calls'
      BY <1>1, <1>2
    <3> QED BY <1>1, <2>1, <3>1 DEF Latest, shown
  <2> QED BY <1>1, <2>4, <2>5, <2>6 DEF WindowInv, Lists, ListIsShown, Unnoticed, shown
<1>20. Asked'
  BY <1>1, AskedStays DEF WindowInv, shown, asking
<1> QED BY <1>5, <1>6, <1>9, <1>12, <1>14, <1>15, <1>16, <1>17, <1>18, <1>19, <1>20
        DEF WindowInv, Types

\* The job ends: its end is told last, and an edit that is complete changes the
\* archive.
LEMMA JobEndsKeeps == ASSUME WindowInv, JobEnds PROVE WindowInv'
<1>1. /\ job # NoJob /\ job' = NoJob
      /\ UNCHANGED <<shown, asking, dialogs, editing, ext, calls, jobs, silent, gone, acts, lapses>>
  BY DEF JobEnds
<1>2. /\ Types /\ ShownOK /\ FollowOK /\ CallsOK /\ EventsOK /\ jobs \in Nat
      /\ job \in JobSet /\ job.id = jobs /\ jobs # 0 /\ (job.own <=> job.arc # Nothing)
      /\ "edit" \notin Kinds
  <2>1. Types /\ ShownOK /\ FollowOK /\ CallsOK /\ EventsOK
    BY DEF WindowInv, Types
  <2>2. job \in JobSet /\ job.id = jobs /\ jobs # 0 /\ (job.own <=> job.arc # Nothing)
    BY <1>1 DEF WindowInv, Types, JobOK, JobSet
  <2> QED BY <2>1, <2>2, Plain
<1>3. PICK v \in EndSet :
        /\ v.id = job.id /\ v.kind = job.kind /\ v.arc = job.arc /\ EventOK(v)
        /\ events' = Append(events, v)
        /\ ver' = IF v.end = "ok" /\ job.kind = "edit" /\ job.own
                  THEN [ver EXCEPT ![job.arc] = @ + 1] ELSE ver
        /\ v.end = "ok" /\ job.kind = "edit" <=> v.end = "ok" /\ v.ev = "done"
  <2>1. PICK end \in Ends :
          LET ev == CASE end = "ok" /\ job.kind \in Kinds -> "report"
                      [] job.kind = "edit" /\ end \in {"ok", "canceled"} -> "done"
                      [] OTHER -> "error"
          IN  /\ events' = Append(events, [ev |-> ev, id |-> job.id, kind |-> job.kind,
                                           arc |-> job.arc, end |-> end])
              /\ ver' = IF end = "ok" /\ job.kind = "edit" /\ job.own
                        THEN [ver EXCEPT ![job.arc] = @ + 1] ELSE ver
    BY DEF JobEnds
  <2>2. end \in {"ok", "canceled", "error", "password"} /\ (end = "password" => job.kind \in Kinds)
    BY DEF Ends
  <2> DEFINE ev == CASE end = "ok" /\ job.kind \in Kinds -> "report"
                     [] job.kind = "edit" /\ end \in {"ok", "canceled"} -> "done"
                     [] OTHER -> "error"
             w == [ev |-> ev, id |-> job.id, kind |-> job.kind, arc |-> job.arc, end |-> end]
  <2>3. /\ ev \in {"report", "done", "error"}
        /\ ev = "report" => job.kind \in Kinds
        /\ ev = "done" => job.kind = "edit"
        /\ end = "ok" /\ job.kind = "edit" => ev = "done"
    BY <1>2
  <2>4. /\ events' = Append(events, w)
        /\ ver' = IF end = "ok" /\ job.kind = "edit" /\ job.own
                  THEN [ver EXCEPT ![job.arc] = @ + 1] ELSE ver
    BY <2>1
  <2> HIDE DEF ev
  <2>5. /\ job.id \in 1..jobs /\ job.kind \in JobKinds /\ job.arc \in Maybe
    BY <1>2 DEF JobSet
  <2>6. w \in EndSet /\ EventOK(w)
    BY <2>2, <2>3, <2>5 DEF EndSet, EventOK
  <2>7. w.id = job.id /\ w.kind = job.kind /\ w.arc = job.arc /\ w.end = end /\ w.ev = ev
    OBVIOUS
  <2> HIDE DEF w
  <2> QED BY <2>3, <2>4, <2>6, <2>7
<1>4. v \in EventSet /\ IsEnd(v)
  BY <1>3 DEF EventSet, EndSet, IsEnd
<1>5. /\ events' \in Seq(EventSet) /\ News' = News \cup {v}
      /\ Len(events') = Len(events) + 1 /\ Len(events) \in Nat
      /\ \A i \in 1..Len(events) : events'[i] = events[i]
      /\ events'[Len(events) + 1] = v
  BY <1>2, <1>3, <1>4, MoreNews
<1>6. EventsOK' /\ JobOK'
  <2>1. EventsOK'
    BY <1>1, <1>5 DEF EventsOK, EventSet, StartSet, EndSet, EventOK
  <2>2. JobOK'
    BY <1>1, <1>2 DEF Types, JobOK
  <2> QED BY <2>1, <2>2
<1>7. \A id : ~InWork(id)'
  BY <1>1 DEF InWork
<1>8. \A id, kind : Due(id, kind) => Due(id, kind)'
  BY <1>1, <1>3, <1>4, <1>5 DEF Due, InWork, IsEnd
<1>9. \A id, kind : OfKind(id, kind) => OfKind(id, kind)'
  BY <1>1, <1>3, <1>5, <1>7 DEF OfKind, InWork
<1>10. \A id, arc : About(id, arc) => About(id, arc)'
  BY <1>1, <1>3, <1>5, <1>7 DEF About, InWork, IsEnd
<1>11. Told'
  <2>1. InTurn'
    <3>1. ASSUME NEW i \in 1..Len(events'), NEW j \in 1..Len(events'), i < j, IsEnd(events'[i])
          PROVE events'[i].id < events'[j].id
      <4>1. i \in 1..Len(events) /\ events'[i] = events[i] /\ events[i] \in News
        BY <1>5, <3>1 DEF News
      <4>2. CASE j = Len(events) + 1
        BY <1>1, <1>3, <1>5, <3>1, <4>1, <4>2 DEF WindowInv, Told, InTurn
      <4>3. CASE j # Len(events) + 1
        <5>1. j \in 1..Len(events) /\ events'[j] = events[j]
          BY <1>5, <4>3
        <5> QED BY <3>1, <4>1, <5>1 DEF WindowInv, Told, InTurn
      <4> QED BY <4>2, <4>3
    <3> QED BY <1>1, <3>1 DEF InTurn, IsEnd
  <2>2. OfKind(v.id, v.kind)
    <3>1. InWork(v.id) => job.kind = v.kind
      BY <1>3
    <3>2. \A e \in News : e.id = v.id => e.kind = v.kind
      BY <1>1, <1>3 DEF WindowInv, Told, OneKind, OfKind, InWork
    <3> QED BY <3>1, <3>2 DEF OfKind
  <2>3. OneKind'
    BY <1>1, <1>5, <1>9, <1>10, <2>2 DEF WindowInv, Told, OneKind
  <2>4. StartsEnd'
    BY <1>4, <1>5, <1>8 DEF WindowInv, Told, StartsEnd, IsEnd
  <2> QED BY <2>1, <2>3, <2>4 DEF Told
<1>12. PanelEnds'
  <2>1. \A x \in ext : v.id = x => v.kind # "edit"
    BY <1>1, <1>3 DEF WindowInv, PanelEnds, InWork
  <2> QED BY <1>1, <1>5, <1>7, <1>8, <2>1 DEF WindowInv, PanelEnds, editing
<1>13. known' = known /\ awaiting' = awaiting /\ dlg' = dlg
  BY <1>1 DEF dialogs
<1>14. DialogsWait'
  BY <1>1, <1>9, <1>13 DEF WindowInv, DialogsWait, Unanswered
<1>15. Own'
  <2>1. SUFFICES ASSUME ~Blind PROVE OneCall' /\ OwnCall' /\ OwnJob' /\ OwnReport'
    BY <1>1 DEF Own, Blind
  <2>2. OneCall /\ OwnCall /\ OwnJob /\ OwnReport
    BY <2>1 DEF WindowInv, Own
  <2>3. OneCall' /\ OwnReport'
    BY <1>1, <1>13, <2>2 DEF OneCall, OwnReport
  <2>4. OwnCall'
    BY <1>1, <1>5, <1>8, <1>13, <2>2 DEF OwnCall
  <2>5. OwnJob'
    BY <1>10, <1>13, <2>2 DEF OwnJob
  <2> QED BY <2>3, <2>4, <2>5
<1>16. Settling'
  BY <1>1, <1>8, <1>13 DEF WindowInv, Settling, Blind, asking
<1>17. /\ ver' \in [Archives -> Nat] /\ \A a \in Archives : ver[a] <= ver'[a] /\ ver[a] \in Nat
       /\ \A a \in Archives : ver'[a] = ver[a] \/ DoneComes(a)'
  <2>0. ver \in [Archives -> Nat]
    BY <1>2 DEF ShownOK
  <2>1. CASE v.end = "ok" /\ job.kind = "edit" /\ job.own
    <3>1. v.arc \in Archives /\ ver' = [ver EXCEPT ![v.arc] = @ + 1]
      BY <1>2, <1>3, <2>1 DEF JobSet, Maybe
    <3>2. DoneComes(v.arc)'
      BY <1>3, <1>5, <2>1 DEF DoneComes
    <3>3. \A a \in Archives : ver[a] \in Nat /\ ver'[a] = IF a = v.arc THEN ver[a] + 1 ELSE ver[a]
      BY <2>0, <3>1
    <3>4. ver' \in [Archives -> Nat]
      BY <2>0, <3>1
    <3>5. \A a \in Archives : ver[a] <= ver'[a]
      BY <3>3
    <3> QED BY <3>2, <3>3, <3>4, <3>5
  <2>2. CASE ~(v.end = "ok" /\ job.kind = "edit" /\ job.own)
    <3>1. ver' = ver
      BY <1>3, <2>2
    <3> QED BY <2>0, <3>1
  <2> QED BY <2>1, <2>2
<1>18. ShownOK' /\ FollowOK'
  BY <1>1, <1>2, <1>17 DEF ShownOK, FollowOK, shown, asking, dialogs, editing
<1>19. CallsOK'
  <2>1. \A c \in calls : c \in CallSet(c.no)'
    BY <1>1, <1>2 DEF CallsOK, CallSet
  <2>2. ASSUME NEW c \in calls, c.op \in {"open", "reload"} PROVE c.ver <= ver'[c.arc]
    <3>1. c.arc \in Archives /\ c.ver \in Nat /\ c.ver <= ver[c.arc]
      BY <1>2, <2>2 DEF CallsOK, CallSet
    <3> QED BY <1>17, <3>1
  <2> QED BY <1>1, <1>2, <2>1, <2>2 DEF CallsOK
<1>20. Lists'
  <2>1. ListIsShown'
    BY <1>1 DEF WindowInv, Lists, ListIsShown, shown
  <2>2. SUFFICES ASSUME ~Unnoticed PROVE EditsTied' /\ ListsRead' /\ Latest'
    BY <1>1, <2>1 DEF Lists, Unnoticed
  <2>3. EditsTied /\ ListsRead /\ Latest
    BY <2>2 DEF WindowInv, Lists
  <2>4. \A a : DoneComes(a) => DoneComes(a)'
    BY <1>5 DEF DoneComes
  <2>5. \A id : Tied(id) => Tied(id)'
    BY <1>1 DEF Tied, editing
  <2>6. EditsTied'
    <3>1. v.ev = "done" /\ v.end = "ok" /\ v.arc # Nothing => Tied(v.id)
      BY <1>1, <1>2, <1>3, <2>3 DEF EditsTied
    <3> QED BY <1>1, <1>5, <2>3, <2>5, <3>1 DEF EditsTied
  <2>7. ListsRead'
    <3>1. \A c \in calls : c.arc \in Archives
      BY <1>2 DEF CallsOK, CallSet
    <3> QED BY <1>1, <1>17, <2>3, <2>4, <3>1 DEF ListsRead
  <2>8. Latest'
    <3>1. path # Nothing => path \in Archives
      BY Plain
    <3> QED BY <1>1, <1>17, <2>3, <2>4, <3>1 DEF Latest, shown
  <2> QED BY <2>6, <2>7, <2>8
<1>21. Asked'
  BY <1>1, AskedStays DEF WindowInv, shown, asking
<1> QED BY <1>6, <1>11, <1>12, <1>14, <1>15, <1>16, <1>18, <1>19, <1>20, <1>21 DEF WindowInv, Types

-----------------------------------------------------------------------------
(* What is heard.                                                           *)

\* job:started: what is to be told of the job is still to be told.
LEMMA OnJobStartedKeeps == ASSUME WindowInv, OnJobStarted PROVE WindowInv'
<1> PICK s : s = Head(events)
  OBVIOUS
<1>1. /\ events # <<>> /\ s.ev = "started" /\ events' = Tail(events)
      /\ IF s.kind \in Kinds
         THEN /\ ext' = ext \cup {s.id}
              /\ known' = IF awaiting[s.kind] THEN [known EXCEPT ![s.kind] = s.id] ELSE known
              /\ lapses' = lapses \cup IF awaiting[s.kind] /\
                    {c \in calls : c.op = s.kind /\ c.id = s.id} = {} THEN {"blind"} ELSE {}
              /\ activeJob' = activeJob
         ELSE activeJob' = s.id /\ UNCHANGED <<ext, known, lapses>>
      /\ UNCHANGED <<shown, asking, dlg, awaiting, editId, calls, job, jobs, silent, ver, gone, acts>>
  BY DEF OnJobStarted, Hear, Lapse
<1>2. /\ Types /\ Told /\ ShownOK /\ FollowOK /\ CallsOK /\ JobOK /\ EventsOK /\ jobs \in Nat
      /\ "edit" \notin Kinds
  <2>1. Types /\ Told /\ ShownOK /\ FollowOK /\ CallsOK /\ JobOK /\ EventsOK
    BY DEF WindowInv, Types
  <2> QED BY <2>1, Plain
<1>3. /\ events' \in Seq(EventSet) /\ s \in News /\ s \in EventSet /\ News = News' \cup {s}
      /\ Len(events') = Len(events) - 1 /\ Len(events) \in Nat
      /\ \A i \in 1..Len(events') : events'[i] = events[i + 1]
  BY <1>1, <1>2, LessNews DEF Told
<1>4. ~IsEnd(s) /\ s.id \in 1..jobs /\ s.kind \in JobKinds
  BY <1>1, <1>3 DEF IsEnd, EventSet, EventOK, StartSet, EndSet
<1>5. EventsOK' /\ JobOK' /\ \A id : InWork(id)' = InWork(id)
  BY <1>1, <1>2, <1>3 DEF EventsOK, EventSet, StartSet, EndSet, EventOK, JobOK, JobSet, InWork
<1>6. \A e \in News : IsEnd(e) => e \in News'
  BY <1>3, <1>4
<1>7. \A id, kind : Due(id, kind) => Due(id, kind)'
  BY <1>1, <1>5, <1>6 DEF Due, IsEnd
<1>8. /\ \A id, kind : OfKind(id, kind) => OfKind(id, kind)'
      /\ \A id, arc : About(id, arc) => About(id, arc)'
  BY <1>1, <1>3, <1>5 DEF OfKind, About, IsEnd
<1>9. /\ Due(s.id, s.kind) /\ OfKind(s.id, s.kind)
  BY <1>2, <1>3, <1>4 DEF Told, StartsEnd, OneKind
<1>10. Told'
  <2>1. InTurn'
    <3>1. \A i \in 1..Len(events') : i + 1 \in 1..Len(events)
      BY <1>3
    <3>2. \A i, j \in 1..Len(events') : i < j => i + 1 < j + 1
      BY <1>3
    <3>3. ASSUME NEW i \in 1..Len(events'), NEW j \in 1..Len(events'), i < j, IsEnd(events'[i])
          PROVE events'[i].id < events'[j].id
      BY <1>2, <1>3, <3>1, <3>2, <3>3 DEF Told, InTurn
    <3> QED BY <1>1, <1>2, <1>3, <3>3 DEF Told, InTurn, IsEnd
  <2>2. OneKind'
    BY <1>1, <1>2, <1>3, <1>8 DEF Told, OneKind
  <2>3. StartsEnd'
    BY <1>2, <1>3, <1>7 DEF Told, StartsEnd, IsEnd
  <2> QED BY <2>1, <2>2, <2>3 DEF Told
<1>11. /\ known' \in [Kinds -> 0..jobs] /\ lapses \subseteq lapses' /\ lapses' \subseteq lapses \cup {"blind"}
       /\ \A j \in Kinds : IF j = s.kind /\ awaiting[j] THEN known'[j] = s.id ELSE known'[j] = known[j]
  <2>1. known \in [Kinds -> 0..jobs] /\ s.id \in 0..jobs
    BY <1>2, <1>4 DEF FollowOK
  <2>2. lapses \subseteq lapses' /\ lapses' \subseteq lapses \cup {"blind"}
    BY <1>1
  <2>3. CASE s.kind \in Kinds /\ awaiting[s.kind]
    BY <1>1, <2>1, <2>2, <2>3
  <2>4. CASE ~(s.kind \in Kinds /\ awaiting[s.kind])
    BY <1>1, <2>1, <2>2, <2>4
  <2> QED BY <2>3, <2>4
<1>12. PanelEnds'
  <2>1. activeJob' # 0 => Due(activeJob', "edit")
    <3>1. CASE s.kind \in Kinds
      BY <1>1, <3>1 DEF WindowInv, PanelEnds
    <3>2. CASE s.kind \notin Kinds
      BY <1>1, <1>4, <1>9, <3>2 DEF JobKinds
    <3> QED BY <3>1, <3>2
  <2>2. ASSUME NEW x \in ext'
        PROVE (InWork(x) => job.kind # "edit") /\ \A e \in News : e.id = x => e.kind # "edit"
    <3>1. CASE x \in ext
      BY <3>1 DEF WindowInv, PanelEnds
    <3>2. CASE x \notin ext
      <4>1. x = s.id /\ s.kind \in Kinds
        BY <1>1, <2>2, <3>2
      <4> QED BY <1>2, <1>9, <4>1 DEF OfKind
    <3> QED BY <3>1, <3>2
  <2>3. activeJob' # 0 => Due(activeJob, "edit")'
    <3>1. PICK a : a = activeJob'
      OBVIOUS
    <3>2. a # 0 => Due(a, "edit")'
      BY <1>7, <2>1, <3>1
    <3> QED BY <3>1, <3>2 DEF Due
  <2> QED BY <1>1, <1>3, <1>5, <2>2, <2>3 DEF PanelEnds
<1>13. DialogsWait'
  <2>1. ASSUME NEW j \in Kinds, known'[j] # 0 PROVE OfKind(known[j], j)'
    <3>1. PICK x : x = known'[j]
      OBVIOUS
    <3>2. OfKind(x, j)
      <4>1. CASE j = s.kind /\ awaiting[j]
        BY <1>9, <1>11, <3>1, <4>1
      <4>2. CASE ~(j = s.kind /\ awaiting[j])
        BY <1>11, <2>1, <3>1, <4>2 DEF WindowInv, DialogsWait
      <4> QED BY <4>1, <4>2
    <3>3. OfKind(x, j)'
      BY <1>8, <3>2
    <3> QED BY <3>1, <3>3 DEF OfKind
  <2>2. \A j \in Kinds : awaiting'[j] => Unanswered(j)'
    BY <1>1 DEF WindowInv, DialogsWait, Unanswered
  <2> QED BY <2>1, <2>2 DEF DialogsWait
<1>14. ASSUME ~Blind', NEW c \in calls, c.op = s.kind, s.kind \in Kinds, awaiting[s.kind]
       PROVE c.id = s.id /\ c.answer = "ok" /\ c.arc = dlg[s.kind].of
  <2>1. OneCall /\ OwnCall
    BY <1>11, <1>14 DEF WindowInv, Own, Blind
  <2>2. PICK d \in calls : d.op = s.kind /\ d.id = s.id
    BY <1>1, <1>14 DEF Blind
  <2>3. d = c
    BY <1>14, <2>1, <2>2 DEF OneCall
  <2>4. c.id = s.id /\ c.id # 0
    BY <1>4, <2>2, <2>3
  <2> QED BY <1>2, <1>14, <2>1, <2>4 DEF CallsOK, OwnCall
<1>15. Own'
  <2>1. SUFFICES ASSUME ~Blind' PROVE OneCall' /\ OwnCall' /\ OwnJob' /\ OwnReport'
    BY DEF Own
  <2>2. OneCall /\ OwnCall /\ OwnJob /\ OwnReport
    BY <1>11, <2>1 DEF WindowInv, Own, Blind
  <2>3. OneCall' /\ OwnReport'
    BY <1>1, <2>2 DEF OneCall, OwnReport
  <2>4. OwnCall'
    <3>1. SUFFICES ASSUME NEW k \in Kinds, NEW c \in calls, c.op = k, awaiting[k]
          PROVE /\ c.arc = dlg[k].of
                /\ c.answer = "ok" =>
                     \/ known'[k] = c.id /\ Due(c.id, k)'
                     \/ \E x \in News' : ~IsEnd(x) /\ x.id = c.id /\ x.kind = k
      BY <1>1 DEF OwnCall, IsEnd
    <3>2. CASE k = s.kind
      BY <1>7, <1>9, <1>11, <1>14, <2>1, <3>1, <3>2
    <3>3. CASE k # s.kind
      BY <1>3, <1>7, <1>11, <2>2, <3>1, <3>3 DEF OwnCall
    <3> QED BY <3>2, <3>3
  <2>5. OwnJob'
    <3>1. SUFFICES ASSUME NEW k \in Kinds, known'[k] # 0
          PROVE About(known[k], dlg[k].of)' /\ dlg'[k].of # Nothing
      BY DEF OwnJob
    <3>2. PICK x : x = known'[k]
      OBVIOUS
    <3>3. About(x, dlg[k].of) /\ dlg[k].of # Nothing
      <4>1. CASE k = s.kind /\ awaiting[k]
        <5>1. PICK c \in calls : c.op = k
          BY <4>1 DEF WindowInv, DialogsWait, Unanswered
        <5>2. c.id = s.id /\ c.answer = "ok" /\ c.arc = dlg[k].of
          BY <1>14, <2>1, <4>1, <5>1
        <5>3. About(c.id, c.arc)
          BY <1>2, <1>4, <4>1, <5>1, <5>2 DEF Told, OneKind
        <5>4. c.arc # Nothing
          BY <1>2, <5>1, WindowAssumption DEF CallsOK, CallSet, Nothing
        <5> QED BY <1>11, <3>2, <4>1, <5>2, <5>3, <5>4
      <4>2. CASE ~(k = s.kind /\ awaiting[k])
        BY <1>11, <2>2, <3>1, <3>2, <4>2 DEF OwnJob
      <4> QED BY <4>1, <4>2
    <3>4. PICK a : a = dlg[k].of
      OBVIOUS
    <3>5. About(x, a)' /\ dlg'[k].of = a /\ a # Nothing
      BY <1>1, <1>8, <3>3, <3>4
    <3> QED BY <3>2, <3>5 DEF About
  <2> QED BY <2>3, <2>4, <2>5
<1>16. Settling'
  <2>1. SUFFICES ASSUME "left" \notin lapses', ~Blind', NEW j \in Kinds, dlg[j].phase = "running",
                        ~(pw.open /\ pw.mode = j), ~awaiting[j]
        PROVE known'[j] # 0 /\ Due(known[j], j)'
    BY <1>1 DEF Settling, asking
  <2>2. known[j] # 0 /\ Due(known[j], j) /\ known'[j] = known[j]
    BY <1>11, <2>1 DEF WindowInv, Settling, Blind
  <2>3. PICK x : x = known[j]
    OBVIOUS
  <2>4. Due(x, j)'
    BY <1>7, <2>2, <2>3
  <2> QED BY <2>2, <2>3, <2>4 DEF Due
<1>17. ShownOK' /\ FollowOK' /\ CallsOK'
  <2>1. ext' \subseteq 1..jobs /\ activeJob' \in 0..jobs
    <3>1. s.id \in 0..jobs /\ ext \subseteq 1..jobs /\ activeJob \in 0..jobs
      BY <1>2, <1>4 DEF FollowOK
    <3>2. CASE s.kind \in Kinds
      BY <1>1, <1>4, <3>1, <3>2
    <3>3. CASE s.kind \notin Kinds
      BY <1>1, <3>1, <3>3
    <3> QED BY <3>2, <3>3
  <2>2. ShownOK'
    BY <1>1, <1>2, <1>11 DEF ShownOK, shown, asking
  <2>3. FollowOK'
    BY <1>1, <1>2, <1>11, <2>1 DEF FollowOK, Dialogs
  <2>4. CallsOK'
    BY <1>1, <1>2 DEF CallsOK, CallSet
  <2> QED BY <2>2, <2>3, <2>4
<1>18. Lists'
  <2>1. \A a : DoneComes(a) => DoneComes(a)'
    BY <1>1, <1>3 DEF DoneComes
  <2>2. \A id : Tied(id)' = Tied(id)
    BY <1>1 DEF Tied
  <2>3. EditsTied => EditsTied'
    BY <1>1, <1>3, <2>2 DEF EditsTied
  <2>4. (ListsRead => ListsRead') /\ (Latest => Latest')
    BY <1>1, <2>1 DEF ListsRead, Latest, shown
  <2> QED BY <1>1, <1>11, <2>3, <2>4 DEF WindowInv, Lists, ListIsShown, Unnoticed, shown
<1>19. Asked'
  BY <1>1, <1>11, AskedStays DEF WindowInv, shown, asking
<1> QED BY <1>5, <1>10, <1>12, <1>13, <1>15, <1>16, <1>17, <1>18, <1>19 DEF WindowInv, Types

\* An end is heard: of that job nothing more is told.
LEMMA EndHeard ==
  ASSUME Types, Told, events # <<>>, NEW v, v = Head(events), IsEnd(v),
         events' = Tail(events), UNCHANGED <<job, jobs, silent>>
  PROVE  /\ EventsOK' /\ JobOK' /\ InTurn' /\ StartsEnd' /\ \A e \in News' : OfKind(e.id, e.kind)'
         /\ v \in News /\ News = News' \cup {v} /\ v \in EndSet /\ EventOK(v)
         /\ \A e \in News' : v.id < e.id
         /\ v.id \in 1..jobs
         /\ job # NoJob => job.id \in Nat /\ v.id < job.id
         /\ \A id, kind : Due(id, kind) /\ ~(id = v.id /\ kind = v.kind) => Due(id, kind)'
         /\ \A id, kind : OfKind(id, kind) => OfKind(id, kind)'
         /\ \A id, arc : About(id, arc) => About(id, arc)'
<1>1. /\ events' \in Seq(EventSet) /\ v \in News /\ v \in EventSet /\ News = News' \cup {v}
      /\ \A e \in News' : v.id < e.id
      /\ Len(events') = Len(events) - 1 /\ Len(events) \in Nat
      /\ \A i \in 1..Len(events') : events'[i] = events[i + 1]
  BY LessNews DEF Types, Told
<1>2. v \in EndSet /\ EventOK(v) /\ v.id \in 1..jobs
  BY <1>1 DEF EventSet, EventOK, StartSet, EndSet, IsEnd
<1>3. JobOK /\ (job # NoJob => v.id < job.id /\ job.id = jobs)
  BY <1>1 DEF Types, Told, InTurn, JobOK, JobSet
<1>4. EventsOK' /\ JobOK' /\ \A id : InWork(id)' = InWork(id)
  BY <1>1, <1>3 DEF EventsOK, EventSet, StartSet, EndSet, EventOK, JobOK, JobSet, InWork
<1>5. jobs \in Nat
  BY WindowAssumption DEF Types, FollowOK
<1>6. \A id, kind : Due(id, kind) /\ ~(id = v.id /\ kind = v.kind) => Due(id, kind)'
  BY <1>1, <1>4 DEF Due, IsEnd
<1>7. /\ \A id, kind : OfKind(id, kind) => OfKind(id, kind)'
      /\ \A id, arc : About(id, arc) => About(id, arc)'
  BY <1>1, <1>4 DEF OfKind, About, IsEnd
<1>8. InTurn'
  <2>1. \A i \in 1..Len(events') : i + 1 \in 1..Len(events)
    BY <1>1
  <2>2. \A i, j \in 1..Len(events') : i < j => i + 1 < j + 1
    BY <1>1
  <2>3. ASSUME NEW i \in 1..Len(events'), NEW j \in 1..Len(events'), i < j, IsEnd(events'[i])
        PROVE events'[i].id < events'[j].id
    BY <1>1, <2>1, <2>2, <2>3 DEF Told, InTurn
  <2> QED BY <1>1, <2>3 DEF Told, InTurn, IsEnd
<1>9. StartsEnd'
  <2>1. \A e \in News' : e.id # v.id
    <3>1. \A e \in News' : v.id < e.id /\ v.id \in Nat /\ e.id \in Nat
      <4>1. \A e \in News' : e \in EventSet
        BY <1>1 DEF News
      <4>2. \A e \in EventSet : e.id \in 1..jobs
        BY DEF EventSet, StartSet, EndSet
      <4> QED BY <1>1, <1>2, <1>5, <4>1, <4>2
    <3> QED BY <3>1
  <2> QED BY <1>1, <1>6, <2>1 DEF Told, StartsEnd, IsEnd
<1>10. \A e \in News' : OfKind(e.id, e.kind)'
  BY <1>1, <1>7 DEF Told, OneKind
<1> QED BY <1>1, <1>2, <1>3, <1>4, <1>5, <1>6, <1>7, <1>8, <1>9, <1>10

\* job:done: the list is read again after an edit of this window that has
\* changed the archive.
LEMMA OnJobDoneKeeps == ASSUME WindowInv, OnJobDone PROVE WindowInv'
<1> PICK v : v = Head(events)
  OBVIOUS
<1> DEFINE isEdit == v.id = editId
<1>1. /\ events # <<>> /\ v.ev = "done" /\ events' = Tail(events)
      /\ activeJob' = 0
      /\ editId' = IF isEdit THEN 0 ELSE editId
      /\ IF isEdit /\ v.end # "canceled" /\ path # Nothing
         THEN Send(Call("reload", path)) ELSE calls' = calls
      /\ lapses' = lapses
           \cup (IF ~isEdit /\ \E c \in calls : c.op = "edit" /\ c.id = v.id
                 THEN {"early"} ELSE {})
           \cup (IF isEdit /\ \E c \in calls : /\ c.op \in {"open", "reload"} /\ c.arc = v.arc
                                             /\ c.answer = "ok" /\ c.ver < ver[c.arc]
                 THEN {"overtaken"} ELSE {})
      /\ UNCHANGED <<shown, asking, dialogs, ext, job, jobs, silent, ver, gone, acts>>
  BY DEF OnJobDone, Hear
<1>2. /\ Types /\ Told /\ ShownOK /\ FollowOK /\ CallsOK /\ JobOK /\ EventsOK /\ jobs \in Nat
      /\ "edit" \notin Kinds /\ "reload" \in Ops /\ "reload" \notin JobKinds
      /\ path # Nothing => path \in Archives
  <2>1. Types /\ Told /\ ShownOK /\ FollowOK /\ CallsOK /\ JobOK /\ EventsOK
    BY DEF WindowInv, Types
  <2> QED BY <2>1, Plain
<1>3. IsEnd(v)
  BY <1>1 DEF IsEnd
<1>4. /\ EventsOK' /\ JobOK' /\ InTurn' /\ StartsEnd' /\ \A e \in News' : OfKind(e.id, e.kind)'
      /\ v \in News /\ News = News' \cup {v} /\ v \in EndSet /\ EventOK(v)
      /\ \A e \in News' : v.id < e.id
      /\ v.id \in 1..jobs
      /\ job # NoJob => job.id \in Nat /\ v.id < job.id
      /\ \A id, kind : Due(id, kind) /\ ~(id = v.id /\ kind = v.kind) => Due(id, kind)'
      /\ \A id, kind : OfKind(id, kind) => OfKind(id, kind)'
      /\ \A id, arc : About(id, arc) => About(id, arc)'
  BY <1>1, <1>2, <1>3, EndHeard
<1>5. v.kind = "edit" /\ v.id \in 1..jobs
  BY <1>1, <1>4 DEF EventOK, StartSet, EndSet
<1>6. \A id : \A k \in Kinds : Due(id, k) => Due(id, k)'
  BY <1>2, <1>4, <1>5
<1>7. PICK r \in {calls, calls \cup {Call("reload", path)}} :
        /\ calls' = r
        /\ isEdit /\ v.end # "canceled" /\ path # Nothing => r = calls \cup {Call("reload", path)}
        /\ path = Nothing => r = calls
  BY <1>1 DEF Send
<1>8. path # Nothing =>
        LET d == Call("reload", path)
        IN  /\ d.op = "reload" /\ d.arc = path /\ d.answer = "none" /\ d.id = 0 /\ d.ver = 0
            /\ d \in CallSet(d.no)
  <2>1. Call("reload", path) \in NewCalls("reload", path)
    BY DEF NewCalls
  <2> QED BY <1>2, <2>1, CallIs
<1>9. /\ calls \subseteq calls'
      /\ \A c \in calls' : c \in calls \/
            /\ c.op = "reload" /\ c.arc = path /\ path # Nothing /\ c.answer = "none"
            /\ c.id = 0 /\ c.ver = 0 /\ c \in CallSet(c.no)
  BY <1>7, <1>8
<1>10. /\ known' = known /\ awaiting' = awaiting /\ dlg' = dlg
       /\ lapses \subseteq lapses' /\ lapses' \subseteq lapses \cup {"early", "overtaken"}
  BY <1>1 DEF dialogs
<1>11. /\ \A c \in calls' : c.op \in JobKinds => c \in calls
       /\ \A k \in Kinds : k \in JobKinds
  BY <1>2, <1>9 DEF JobKinds
<1>12. Told'
  <2>1. OneKind'
    BY <1>2, <1>4, <1>11 DEF Told, OneKind
  <2> QED BY <1>4, <2>1 DEF Told
<1>13. PanelEnds'
  BY <1>1, <1>4 DEF WindowInv, PanelEnds, InWork
<1>14. DialogsWait'
  BY <1>4, <1>9, <1>10 DEF WindowInv, DialogsWait, Unanswered
<1>15. Own'
  <2>1. SUFFICES ASSUME ~Blind' PROVE OneCall' /\ OwnCall' /\ OwnJob' /\ OwnReport'
    BY DEF Own
  <2>2. OneCall /\ OwnCall /\ OwnJob /\ OwnReport
    BY <1>10, <2>1 DEF WindowInv, Own, Blind
  <2>3. OneCall' /\ OwnReport'
    BY <1>10, <1>11, <2>2 DEF OneCall, OwnReport
  <2>4. OwnCall'
    BY <1>3, <1>4, <1>6, <1>10, <1>11, <2>2 DEF OwnCall
  <2>5. OwnJob'
    BY <1>4, <1>10, <2>2 DEF OwnJob
  <2> QED BY <2>3, <2>4, <2>5
<1>16. Settling'
  BY <1>1, <1>6, <1>10 DEF WindowInv, Settling, Blind, asking
<1>17. ShownOK' /\ FollowOK' /\ CallsOK'
  <2>1. ShownOK'
    BY <1>1, <1>2, <1>10 DEF ShownOK, shown, asking
  <2>2. FollowOK'
    BY <1>1, <1>2, <1>10 DEF FollowOK, Dialogs
  <2>3. CallsOK'
    <3>1. ASSUME NEW c \in calls', c \notin calls
          PROVE /\ c \in CallSet(c.no) /\ c.answer = "none" /\ c.id = 0
                /\ c.op \in {"open", "reload"} => c.ver <= ver[c.arc]
      <4>1. ver[path] \in Nat
        BY <1>9, <3>1, Plain
      <4> QED BY <1>9, <3>1, <4>1
    <3> QED BY <1>1, <1>2, <3>1, CallsStay
  <2> QED BY <2>1, <2>2, <2>3
<1>18. Lists'
  <2>1. ListIsShown'
    BY <1>1, <1>10 DEF WindowInv, Lists, ListIsShown, shown
  <2>2. SUFFICES ASSUME ~Unnoticed' PROVE EditsTied' /\ ListsRead' /\ Latest'
    BY <2>1 DEF Lists
  <2>3. EditsTied /\ ListsRead /\ Latest
    BY <1>10, <2>2 DEF WindowInv, Lists, Unnoticed
  <2>4. ASSUME NEW id, Tied(id), id # v.id PROVE Tied(id)'
    <3>1. CASE editId = id
      BY <1>1, <2>4, <3>1 DEF Tied
    <3>2. CASE editId # id
      BY <1>9, <2>4, <3>2 DEF Tied
    <3> QED BY <3>1, <3>2
  <2>5. /\ \A e \in News' : e.id # v.id
        /\ job # NoJob => job.id # v.id
    <3>1. v.id \in Nat
      BY <1>5
    <3>2. \A e \in News : e.id \in Nat
      <4>1. \A e \in News : e \in EventSet
        BY <1>2 DEF EventsOK, News
      <4>2. \A e \in EventSet : e.id \in Nat
        BY DEF EventSet, StartSet, EndSet
      <4> QED BY <4>1, <4>2
    <3>3. job # NoJob => v.id < job.id /\ job.id \in Nat
      BY <1>2, <1>3, <1>4 DEF Told, InTurn, JobOK, JobSet
    <3> QED BY <1>4, <3>1, <3>2, <3>3
  <2>6. EditsTied'
    BY <1>1, <1>4, <2>3, <2>4, <2>5 DEF EditsTied
  <2>7. ASSUME NEW a \in Archives, DoneComes(a) PROVE DoneComes(a)' \/ (isEdit /\ v.end = "ok" /\ v.arc = a)
    <3>1. PICK e \in News : e.ev = "done" /\ e.end = "ok" /\ e.arc = a
      BY <2>7 DEF DoneComes
    <3>2. CASE e # v
      BY <1>4, <3>1, <3>2 DEF DoneComes
    <3>3. CASE e = v
      <4>1. Tied(v.id)
        BY <2>3, <2>7, <3>1, <3>3, WindowAssumption DEF EditsTied, Nothing
      <4>2. isEdit
        BY <1>1, <2>2, <4>1 DEF Tied, Unnoticed
      <4> QED BY <3>1, <3>3, <4>2
    <3> QED BY <3>2, <3>3
  <2>8. ListsRead'
    <3>1. SUFFICES ASSUME NEW c \in calls, c.op \in {"open", "reload"}, c.answer = "ok",
                          c.ver # ver[c.arc]
          PROVE DoneComes(c.arc)'
      BY <1>1, <1>9 DEF ListsRead
    <3>2. c.arc \in Archives /\ c.ver \in Nat /\ ver[c.arc] \in Nat /\ c.ver <= ver[c.arc]
      <4>1. c \in CallSet(c.no) /\ c.ver <= ver[c.arc]
        BY <1>2, <3>1 DEF CallsOK
      <4>2. c.arc \in Archives /\ c.ver \in Nat
        BY <4>1 DEF CallSet
      <4> QED BY <4>1, <4>2, Plain
    <3>3. ~(isEdit /\ v.arc = c.arc)
      <4>1. c.ver < ver[c.arc]
        BY <3>1, <3>2
      <4>2. isEdit /\ v.arc = c.arc => "overtaken" \in lapses'
        BY <1>1, <3>1, <4>1
      <4> QED BY <2>2, <4>2 DEF Unnoticed
    <3> QED BY <2>3, <2>7, <3>1, <3>2, <3>3 DEF ListsRead
  <2>9. Latest'
    <3>1. SUFFICES ASSUME path # Nothing, list.ver # ver[path]
          PROVE DoneComes(path)' \/ \E c \in calls' : c.op = "reload" /\ c.arc = path
      BY <1>1 DEF Latest, shown, DoneComes
    <3>2. CASE DoneComes(path)
      <4>1. DoneComes(path)' \/ (isEdit /\ v.end = "ok")
        <5>1. PICK a : a = path
          OBVIOUS
        <5>2. DoneComes(a)' \/ (isEdit /\ v.end = "ok")
          BY <1>2, <2>7, <3>1, <3>2, <5>1
        <5> QED BY <1>1, <5>1, <5>2 DEF DoneComes, shown
      <4>2. isEdit /\ v.end = "ok" => Call("reload", path) \in calls'
        BY <1>7, <3>1
      <4> QED BY <1>8, <3>1, <4>1, <4>2
    <3>3. CASE \E c \in calls : c.op = "reload" /\ c.arc = path
      BY <1>9, <3>3
    <3> QED BY <2>3, <3>1, <3>2, <3>3 DEF Latest
  <2> QED BY <2>6, <2>8, <2>9
<1>19. Asked'
  BY <1>1, <1>10, AskedStays DEF WindowInv, shown, asking
<1> QED BY <1>4, <1>12, <1>13, <1>14, <1>15, <1>16, <1>17, <1>18, <1>19 DEF WindowInv, Types

\* The lists and what is tied to them, when an end is heard that changes no archive.
LEMMA ListsHear ==
  ASSUME Types, Lists, NEW v, News = News' \cup {v}, v.ev # "done",
         UNCHANGED <<path, list, ver, editId, calls, job>>, lapses \subseteq lapses'
  PROVE  Lists'
<1>1. \A a : DoneComes(a) => DoneComes(a)'
  BY DEF DoneComes
<1>2. \A id : Tied(id)' = Tied(id)
  BY DEF Tied
<1>3. EditsTied => EditsTied'
  BY <1>2 DEF EditsTied
<1>4. (ListsRead => ListsRead') /\ (Latest => Latest')
  BY <1>1 DEF ListsRead, Latest
<1> QED BY <1>3, <1>4 DEF Lists, ListIsShown, Unnoticed

\* test:report, scan:report: the dialog that follows the job has its report.
LEMMA OnReportKeeps == ASSUME WindowInv, OnReport PROVE WindowInv'
<1> PICK v : v = Head(events)
  OBVIOUS
<1> PICK k : k = v.kind
  OBVIOUS
<1>1. /\ events # <<>> /\ v.ev = "report" /\ events' = Tail(events)
      /\ IF known[k] = v.id
         THEN /\ ext' = ext \ {v.id}
              /\ known' = [known EXCEPT ![k] = 0]
              /\ awaiting' = [awaiting EXCEPT ![k] = FALSE]
              /\ dlg' = [dlg EXCEPT ![k].phase = "done", ![k].shown = v.arc]
         ELSE UNCHANGED <<ext, dlg, known, awaiting>>
      /\ UNCHANGED <<shown, asking, editing, calls, job, jobs, silent, ver, gone, acts, lapses>>
  BY DEF OnReport, Hear, dialogs
<1>2. /\ Types /\ Told /\ ShownOK /\ FollowOK /\ CallsOK /\ jobs \in Nat /\ "edit" \notin Kinds
  <2>1. Types /\ Told /\ ShownOK /\ FollowOK /\ CallsOK
    BY DEF WindowInv, Types
  <2> QED BY <2>1, Plain
<1>3. IsEnd(v)
  BY <1>1 DEF IsEnd
<1>4. /\ EventsOK' /\ JobOK' /\ InTurn' /\ StartsEnd' /\ \A e \in News' : OfKind(e.id, e.kind)'
      /\ v \in News /\ News = News' \cup {v} /\ v \in EndSet /\ EventOK(v)
      /\ v.id \in 1..jobs
      /\ \A id, kind : Due(id, kind) /\ ~(id = v.id /\ kind = v.kind) => Due(id, kind)'
      /\ \A id, kind : OfKind(id, kind) => OfKind(id, kind)'
      /\ \A id, arc : About(id, arc) => About(id, arc)'
  BY <1>1, <1>2, <1>3, EndHeard
<1>5. k \in Kinds /\ v.arc \in Maybe
  BY <1>1, <1>4 DEF EventOK, StartSet, EndSet
<1>6. /\ \A j \in Kinds : j # k => known'[j] = known[j] /\ awaiting'[j] = awaiting[j] /\ dlg'[j] = dlg[j]
      /\ IF known[k] = v.id
         THEN known'[k] = 0 /\ ~awaiting'[k] /\ dlg'[k] = [dlg[k] EXCEPT !.phase = "done", !.shown = v.arc]
         ELSE known'[k] = known[k] /\ awaiting'[k] = awaiting[k] /\ dlg'[k] = dlg[k]
  BY <1>1, <1>2, <1>5 DEF FollowOK
<1>7. /\ dlg'[k] \in Dialogs /\ dlg'[k].of = dlg[k].of
      /\ known[k] = v.id => dlg'[k].phase = "done" /\ dlg'[k].shown = v.arc
  <2>1. dlg[k] \in Dialogs
    BY <1>2, <1>5 DEF FollowOK
  <2> QED BY <1>5, <1>6, <2>1 DEF Dialogs
<1>8. Told'
  BY <1>1, <1>2, <1>4 DEF Told, OneKind
<1>9. PanelEnds'
  <2>1. activeJob # 0 => Due(activeJob, "edit")'
    <3>1. PICK a : a = activeJob
      OBVIOUS
    <3>2. a # 0 => Due(a, "edit")'
      BY <1>2, <1>4, <1>5, <3>1 DEF WindowInv, PanelEnds
    <3>3. activeJob' = activeJob
      BY <1>1 DEF editing
    <3> QED BY <3>1, <3>2, <3>3
  <2> QED BY <1>1, <1>4, <2>1 DEF WindowInv, PanelEnds, InWork, editing, Due
<1>10. DialogsWait'
  <2>1. ASSUME NEW j \in Kinds, known'[j] # 0 PROVE known'[j] = known[j]
    BY <1>6, <2>1
  <2>2. ASSUME NEW j \in Kinds, awaiting'[j] PROVE awaiting[j]
    BY <1>6, <2>2
  <2>3. ASSUME NEW j \in Kinds, known'[j] # 0 PROVE OfKind(known[j], j)'
    <3>1. PICK x : x = known'[j]
      OBVIOUS
    <3>2. OfKind(x, j)
      BY <2>1, <2>3, <3>1 DEF WindowInv, DialogsWait
    <3>3. OfKind(x, j)'
      BY <1>4, <3>2
    <3> QED BY <3>1, <3>3 DEF OfKind
  <2> QED BY <1>1, <2>2, <2>3 DEF WindowInv, DialogsWait, Unanswered
<1>11. Own'
  <2>1. SUFFICES ASSUME ~Blind PROVE OneCall' /\ OwnCall' /\ OwnJob' /\ OwnReport'
    BY <1>1 DEF Own, Blind
  <2>2. OneCall /\ OwnCall /\ OwnJob /\ OwnReport
    BY <2>1 DEF WindowInv, Own
  <2>3. OneCall'
    BY <1>1, <2>2 DEF OneCall
  <2>4. OwnCall'
    <3>1. SUFFICES ASSUME NEW j \in Kinds, NEW c \in calls, c.op = j, awaiting'[j]
          PROVE /\ c.arc = dlg'[j].of
                /\ c.answer = "ok" =>
                     \/ known'[j] = c.id /\ Due(c.id, j)'
                     \/ \E x \in News' : ~IsEnd(x) /\ x.id = c.id /\ x.kind = j
      BY <1>1 DEF OwnCall, IsEnd
    <3>2. /\ awaiting[j] /\ known'[j] = known[j] /\ dlg'[j].of = dlg[j].of
          /\ ~(known[j] = v.id /\ j = v.kind)
      BY <1>6, <1>7, <3>1
    <3> QED BY <1>3, <1>4, <2>2, <3>1, <3>2 DEF OwnCall
  <2>5. OwnJob'
    <3>1. SUFFICES ASSUME NEW j \in Kinds, known'[j] # 0
          PROVE About(known[j], dlg[j].of)' /\ dlg'[j].of # Nothing
      BY DEF OwnJob
    <3>2. /\ known'[j] = known[j] /\ dlg'[j].of = dlg[j].of
          /\ About(known[j], dlg[j].of) /\ dlg[j].of # Nothing
      BY <1>6, <1>7, <2>2, <3>1 DEF OwnJob
    <3>3. PICK x, a : x = known[j] /\ a = dlg[j].of
      OBVIOUS
    <3>4. About(x, a)'
      BY <1>4, <3>2, <3>3
    <3> QED BY <3>2, <3>3, <3>4 DEF About
  <2>6. OwnReport'
    <3>1. known[k] = v.id => v.arc = dlg[k].of
      BY <1>3, <1>4, <1>5, <2>2 DEF OwnJob, About
    <3> QED BY <1>6, <1>7, <2>2, <3>1 DEF OwnReport
  <2> QED BY <2>3, <2>4, <2>5, <2>6
<1>12. Settling'
  <2>1. SUFFICES ASSUME "left" \notin lapses, ~Blind, NEW j \in Kinds, dlg'[j].phase = "running",
                        ~(pw.open /\ pw.mode = j), ~awaiting'[j]
        PROVE known'[j] # 0 /\ Due(known[j], j)'
    BY <1>1 DEF Settling, Blind, asking
  <2>2. ~(j = k /\ known[k] = v.id)
    BY <1>7, <2>1
  <2>3. known'[j] = known[j] /\ awaiting'[j] = awaiting[j] /\ dlg'[j] = dlg[j]
    BY <1>6, <2>2
  <2>4. known[j] # 0 /\ Due(known[j], j)
    BY <2>1, <2>3 DEF WindowInv, Settling
  <2>5. PICK x : x = known[j]
    OBVIOUS
  <2>6. Due(x, j)'
    BY <1>4, <2>2, <2>4, <2>5
  <2> QED BY <2>3, <2>4, <2>5, <2>6 DEF Due
<1>13. ShownOK' /\ CallsOK'
  BY <1>1, <1>2 DEF ShownOK, CallsOK, CallSet, shown, asking
<1>14. FollowOK'
  <2>1. dlg' \in [Kinds -> Dialogs]
    <3>1. dlg \in [Kinds -> Dialogs]
      BY <1>2 DEF FollowOK
    <3>2. \A j \in Kinds : dlg'[j] \in Dialogs
      BY <1>6, <1>7, <3>1
    <3>3. dlg' = [j \in Kinds |-> dlg'[j]]
      BY <1>1, <3>1
    <3> QED BY <3>2, <3>3
  <2>2. known' \in [Kinds -> 0..jobs] /\ awaiting' \in [Kinds -> BOOLEAN]
    <3>1. known \in [Kinds -> 0..jobs] /\ awaiting \in [Kinds -> BOOLEAN] /\ 0 \in 0..jobs
      BY <1>2 DEF FollowOK
    <3> QED BY <1>1, <3>1
  <2> QED BY <1>1, <1>2, <2>1, <2>2 DEF FollowOK, editing
<1>15. Lists'
  BY <1>1, <1>2, <1>4, ListsHear DEF WindowInv, shown, editing
<1>16. Asked'
  BY <1>1, AskedStays DEF WindowInv, shown, asking
<1> QED BY <1>4, <1>8, <1>9, <1>10, <1>11, <1>12, <1>13, <1>14, <1>15, <1>16 DEF WindowInv, Types

\* The end of a test or a scan that the window follows: a password is asked for,
\* or the dialog says what happened.
LEMMA TestErrorKeeps ==
  ASSUME WindowInv, Retried, events # <<>>, NEW v, v = Head(events), v.ev = "error",
         events' = Tail(events),
         NEW k \in Kinds, known[k] = v.id, HandleTestError(k, v),
         UNCHANGED <<shown, pend, editId, calls, job, jobs, silent, ver, gone, acts>>
  PROVE  WindowInv'
<1>1. /\ ext' = ext \ {v.id} /\ activeJob' = activeJob
      /\ known' = [known EXCEPT ![k] = 0] /\ awaiting' = [awaiting EXCEPT ![k] = FALSE]
      /\ \/ /\ pw' = [open |-> TRUE, mode |-> k] /\ asker' = v.arc /\ dlg' = dlg
            /\ lapses' = lapses \cup IF LeftOpen /\ pw.mode # k THEN {"left"} ELSE {}
         \/ dlg' = [dlg EXCEPT ![k].phase = "failed"] /\ UNCHANGED <<pw, asker, lapses>>
  BY DEF HandleTestError, OpenPw, Lapse
<1>2. /\ Types /\ Told /\ ShownOK /\ FollowOK /\ CallsOK /\ jobs \in Nat
      /\ "edit" \notin Kinds /\ "entry" \notin Kinds /\ k \in Modes
  <2>1. Types /\ Told /\ ShownOK /\ FollowOK /\ CallsOK
    BY DEF WindowInv, Types
  <2> QED BY <2>1, Plain, WindowAssumption
<1>3. IsEnd(v)
  BY DEF IsEnd
<1>4. /\ EventsOK' /\ JobOK' /\ InTurn' /\ StartsEnd' /\ \A e \in News' : OfKind(e.id, e.kind)'
      /\ v \in News /\ News = News' \cup {v} /\ v \in EndSet /\ EventOK(v)
      /\ v.id \in 1..jobs
      /\ \A id, kind : Due(id, kind) /\ ~(id = v.id /\ kind = v.kind) => Due(id, kind)'
      /\ \A id, kind : OfKind(id, kind) => OfKind(id, kind)'
      /\ \A id, arc : About(id, arc) => About(id, arc)'
  BY <1>2, <1>3, EndHeard
<1>5. v.kind = k
  <2>1. known[k] # 0
    BY <1>4
  <2> QED BY <1>4, <2>1 DEF WindowInv, DialogsWait, OfKind
<1>6. /\ \A j \in Kinds : j # k => known'[j] = known[j] /\ awaiting'[j] = awaiting[j] /\ dlg'[j] = dlg[j]
      /\ known'[k] = 0 /\ ~awaiting'[k]
      /\ dlg'[k] = dlg[k] \/ dlg'[k] = [dlg[k] EXCEPT !.phase = "failed"]
  BY <1>1, <1>2 DEF FollowOK
<1>7. /\ dlg'[k] \in Dialogs
      /\ dlg'[k] = dlg[k] \/ dlg'[k].phase = "failed"
      /\ lapses \subseteq lapses' /\ lapses' \subseteq lapses \cup {"left"}
      /\ dlg' = [dlg EXCEPT ![k].phase = "failed"] => dlg'[k].phase = "failed"
  <2>1. dlg[k] \in Dialogs
    BY <1>2 DEF FollowOK
  <2>2. dlg \in [Kinds -> Dialogs]
    BY <1>2 DEF FollowOK
  <2> QED BY <1>1, <1>6, <2>1, <2>2 DEF Dialogs
<1>8. Told'
  BY <1>2, <1>4 DEF Told, OneKind
<1>9. PanelEnds'
  <2>1. activeJob # 0 => Due(activeJob, "edit")'
    <3>1. PICK a : a = activeJob
      OBVIOUS
    <3>2. a # 0 => Due(a, "edit")'
      BY <1>2, <1>4, <1>5, <3>1 DEF WindowInv, PanelEnds
    <3> QED BY <1>1, <3>1, <3>2
  <2> QED BY <1>1, <1>4, <2>1 DEF WindowInv, PanelEnds, InWork, Due
<1>10. DialogsWait'
  <2>1. ASSUME NEW j \in Kinds, known'[j] # 0 PROVE OfKind(known[j], j)'
    <3>1. PICK x : x = known'[j]
      OBVIOUS
    <3>2. OfKind(x, j)
      BY <1>6, <2>1, <3>1 DEF WindowInv, DialogsWait
    <3>3. OfKind(x, j)'
      BY <1>4, <3>2
    <3> QED BY <3>1, <3>3 DEF OfKind
  <2>2. \A j \in Kinds : awaiting'[j] => Unanswered(j)'
    BY <1>6 DEF WindowInv, DialogsWait, Unanswered
  <2> QED BY <2>1, <2>2 DEF DialogsWait
<1>11. Own'
  <2>1. SUFFICES ASSUME ~Blind' PROVE OneCall' /\ OwnCall' /\ OwnJob' /\ OwnReport'
    BY DEF Own
  <2>2. OneCall /\ OwnCall /\ OwnJob /\ OwnReport
    BY <1>7, <2>1 DEF WindowInv, Own, Blind
  <2>3. OneCall'
    BY <2>2 DEF OneCall
  <2>4. OwnCall'
    <3>1. SUFFICES ASSUME NEW j \in Kinds, NEW c \in calls, c.op = j, awaiting'[j]
          PROVE /\ c.arc = dlg'[j].of
                /\ c.answer = "ok" =>
                     \/ known'[j] = c.id /\ Due(c.id, j)'
                     \/ \E x \in News' : ~IsEnd(x) /\ x.id = c.id /\ x.kind = j
      BY DEF OwnCall, IsEnd
    <3>2. j # k /\ awaiting[j] /\ known'[j] = known[j] /\ dlg'[j] = dlg[j]
      BY <1>6, <3>1
    <3> QED BY <1>3, <1>4, <1>5, <2>2, <3>1, <3>2 DEF OwnCall
  <2>5. OwnJob'
    <3>1. SUFFICES ASSUME NEW j \in Kinds, known'[j] # 0
          PROVE About(known[j], dlg[j].of)' /\ dlg'[j].of # Nothing
      BY DEF OwnJob
    <3>2. /\ known'[j] = known[j] /\ dlg'[j] = dlg[j]
          /\ About(known[j], dlg[j].of) /\ dlg[j].of # Nothing
      BY <1>6, <2>2, <3>1 DEF OwnJob
    <3>3. PICK x, a : x = known[j] /\ a = dlg[j].of
      OBVIOUS
    <3>4. About(x, a)'
      BY <1>4, <3>2, <3>3
    <3> QED BY <3>2, <3>3, <3>4 DEF About
  <2>6. OwnReport'
    BY <1>6, <1>7, <2>2 DEF OwnReport
  <2> QED BY <2>3, <2>4, <2>5, <2>6
<1>12. Settling'
  <2>1. SUFFICES ASSUME "left" \notin lapses', ~Blind', NEW j \in Kinds, dlg'[j].phase = "running",
                        ~(pw'.open /\ pw'.mode = j), ~awaiting'[j]
        PROVE known'[j] # 0 /\ Due(known[j], j)'
    BY DEF Settling
  <2>2. j # k
    BY <1>1, <1>7, <2>1
  <2>3. known'[j] = known[j] /\ awaiting'[j] = awaiting[j] /\ dlg'[j] = dlg[j]
    BY <1>6, <2>2
  <2>4. ~(pw.open /\ pw.mode = j)
    <3>1. CASE pw' = pw
      BY <2>1, <3>1
    <3>2. CASE lapses' = lapses \cup IF LeftOpen /\ pw.mode # k THEN {"left"} ELSE {}
      BY <2>1, <2>2, <2>3, <3>2 DEF LeftOpen
    <3> QED BY <1>1, <3>1, <3>2
  <2>5. known[j] # 0 /\ Due(known[j], j)
    BY <1>7, <2>1, <2>3, <2>4 DEF WindowInv, Settling, Blind
  <2>6. PICK x : x = known[j]
    OBVIOUS
  <2>7. Due(x, j)'
    BY <1>4, <1>5, <2>2, <2>5, <2>6
  <2> QED BY <2>3, <2>5, <2>6, <2>7 DEF Due
<1>13. ShownOK' /\ CallsOK'
  <2>1. pw \in [open : BOOLEAN, mode : Modes] /\ asker \in Maybe /\ v.arc \in Maybe
    BY <1>2, <1>4 DEF ShownOK, EndSet
  <2>2. pw' \in [open : BOOLEAN, mode : Modes] /\ asker' \in Maybe
    <3>1. CASE pw' = [open |-> TRUE, mode |-> k] /\ asker' = v.arc
      BY <1>2, <2>1, <3>1
    <3>2. CASE UNCHANGED <<pw, asker>>
      BY <2>1, <3>2
    <3> QED BY <1>1, <3>1, <3>2
  <2>3. ShownOK'
    BY <1>2, <1>7, <2>2 DEF ShownOK, shown
  <2> QED BY <1>2, <2>3, CallsStay
<1>14. FollowOK'
  <2>1. dlg' \in [Kinds -> Dialogs]
    <3>1. dlg \in [Kinds -> Dialogs]
      BY <1>2 DEF FollowOK
    <3>2. \A j \in Kinds : dlg'[j] \in Dialogs
      BY <1>6, <1>7, <3>1
    <3>3. dlg' = [j \in Kinds |-> dlg'[j]]
      BY <1>1, <3>1
    <3> QED BY <3>2, <3>3
  <2>2. known' \in [Kinds -> 0..jobs] /\ awaiting' \in [Kinds -> BOOLEAN]
    BY <1>1, <1>2 DEF FollowOK
  <2> QED BY <1>1, <1>2, <2>1, <2>2 DEF FollowOK
<1>15. Lists'
  BY <1>2, <1>4, <1>7, ListsHear DEF WindowInv, shown
<1>16. Asked'
  <2>1. CASE UNCHANGED <<pw, asker>>
    BY <1>7, <2>1, AskedStays DEF WindowInv, shown
  <2>2. CASE pw' = [open |-> TRUE, mode |-> k] /\ asker' = v.arc
    <3>1. SUFFICES ASSUME "blind" \notin lapses' PROVE pend[k] \in {v.arc, Nothing}
      BY <1>2, <2>2, WindowAssumption DEF Asked
    <3>2. OwnJob /\ known[k] # 0
      BY <1>4, <1>7, <3>1 DEF WindowInv, Own, Blind
    <3>3. v.arc = dlg[k].of /\ dlg[k].of # Nothing
      BY <1>3, <1>4, <3>2 DEF OwnJob, About
    <3> QED BY <3>3 DEF Retried
  <2> QED BY <1>1, <2>1, <2>2
<1> QED BY <1>4, <1>8, <1>9, <1>10, <1>11, <1>12, <1>13, <1>14, <1>15, <1>16 DEF WindowInv, Types

\* job:error.
LEMMA OnJobErrorKeeps == ASSUME WindowInv, Retried, OnJobError PROVE WindowInv'
<1> PICK v : v = Head(events)
  OBVIOUS
<1>1. /\ events # <<>> /\ v.ev = "error" /\ events' = Tail(events)
      /\ UNCHANGED <<shown, pend, editId, calls, job, jobs, silent, ver, gone, acts>>
  BY DEF OnJobError, Hear
<1>2. CASE \E k \in Kinds : known[k] = v.id /\ HandleTestError(k, v)
  BY <1>1, <1>2, TestErrorKeeps
<1>3. CASE /\ \A k \in Kinds : known[k] # v.id
           /\ ext' = ext \ {v.id}
           /\ activeJob' = IF v.id \in ext THEN activeJob ELSE 0
           /\ UNCHANGED <<pw, asker, dialogs, lapses>>
  <2>1. /\ Types /\ Told /\ ShownOK /\ FollowOK /\ CallsOK /\ jobs \in Nat
    <3>1. Types /\ Told /\ ShownOK /\ FollowOK /\ CallsOK
      BY DEF WindowInv, Types
    <3> QED BY <3>1, Plain
  <2>2. IsEnd(v)
    BY <1>1 DEF IsEnd
  <2>3. /\ EventsOK' /\ JobOK' /\ InTurn' /\ StartsEnd' /\ \A e \in News' : OfKind(e.id, e.kind)'
        /\ v \in News /\ News = News' \cup {v}
        /\ \A id, kind : Due(id, kind) /\ ~(id = v.id /\ kind = v.kind) => Due(id, kind)'
        /\ \A id, kind : OfKind(id, kind) => OfKind(id, kind)'
        /\ \A id, arc : About(id, arc) => About(id, arc)'
    BY <1>1, <2>1, <2>2, EndHeard
  <2>4. known' = known /\ awaiting' = awaiting /\ dlg' = dlg /\ lapses' = lapses
    BY <1>3 DEF dialogs
  <2>5. Told'
    BY <1>1, <2>1, <2>3 DEF Told, OneKind
  <2>6. PanelEnds'
    <3>1. v.id \in ext => v.kind # "edit"
      BY <2>3 DEF WindowInv, PanelEnds
    <3>2. PICK a : a = activeJob'
      OBVIOUS
    <3>3. a # 0 => Due(a, "edit")'
      BY <1>3, <2>3, <3>1, <3>2 DEF WindowInv, PanelEnds
    <3>4. activeJob' # 0 => Due(activeJob, "edit")'
      BY <3>2, <3>3 DEF Due
    <3> QED BY <1>1, <1>3, <2>3, <3>4 DEF WindowInv, PanelEnds, InWork
  <2>7. DialogsWait'
    BY <1>1, <2>3, <2>4 DEF WindowInv, DialogsWait, Unanswered
  <2>8. \A j \in Kinds : Due(known[j], j) => Due(known[j], j)'
    <3>1. ASSUME NEW j \in Kinds, Due(known[j], j) PROVE Due(known[j], j)'
      <4>1. PICK x : x = known[j]
        OBVIOUS
      <4>2. Due(x, j)'
        BY <1>3, <2>3, <3>1, <4>1
      <4> QED BY <2>4, <4>1, <4>2
    <3> QED BY <3>1
  <2>9. Own'
    <3>1. SUFFICES ASSUME ~Blind PROVE OneCall' /\ OwnCall' /\ OwnJob' /\ OwnReport'
      BY <2>4 DEF Own, Blind
    <3>2. OneCall /\ OwnCall /\ OwnJob /\ OwnReport
      BY <3>1 DEF WindowInv, Own
    <3>3. OneCall' /\ OwnReport'
      BY <1>1, <2>4, <3>2 DEF OneCall, OwnReport
    <3>4. OwnCall'
      BY <1>1, <1>3, <2>2, <2>3, <2>4, <3>2 DEF OwnCall
    <3>5. OwnJob'
      BY <2>3, <2>4, <3>2 DEF OwnJob
    <3> QED BY <3>3, <3>4, <3>5
  <2>10. Settling'
    BY <1>3, <2>4, <2>8 DEF WindowInv, Settling, Blind
  <2>11. ShownOK' /\ FollowOK' /\ CallsOK'
    <3>1. ext' \subseteq 1..jobs /\ activeJob' \in 0..jobs
      <4>1. ext \subseteq 1..jobs /\ activeJob \in 0..jobs /\ 0 \in 0..jobs
        BY <2>1 DEF FollowOK
      <4> QED BY <1>3, <4>1
    <3>2. ShownOK' /\ FollowOK'
      BY <1>1, <1>3, <2>1, <2>4, <3>1 DEF ShownOK, FollowOK, shown, Dialogs
    <3> QED BY <1>1, <2>1, <3>2, CallsStay
  <2>12. Lists'
    BY <1>1, <2>1, <2>3, <2>4, ListsHear DEF WindowInv, shown
  <2>13. Asked'
    BY <1>1, <1>3, <2>4, AskedStays DEF WindowInv, shown
  <2> QED BY <2>3, <2>5, <2>6, <2>7, <2>9, <2>10, <2>11, <2>12, <2>13 DEF WindowInv, Types
<1> QED BY <1>2, <1>3 DEF OnJobError

\* A job panics: of its end nothing is told.
LEMMA JobPanicsKeeps == ASSUME WindowInv, JobPanics PROVE WindowInv'
<1>1. /\ job # NoJob /\ job' = NoJob /\ silent' = silent \cup {job.id}
      /\ UNCHANGED <<shown, asking, dialogs, editing, ext, calls, jobs, events, ver, gone,
                     acts, lapses>>
  BY DEF JobPanics
<1>2. /\ Types /\ Told /\ ShownOK /\ FollowOK /\ CallsOK /\ JobOK /\ EventsOK
      /\ job.id \in 1..jobs
  <2>1. Types /\ Told /\ ShownOK /\ FollowOK /\ CallsOK /\ JobOK /\ EventsOK
    BY DEF WindowInv, Types
  <2>2. jobs \in Nat /\ jobs # 0 /\ job.id = jobs
    BY <1>1, <2>1, Plain DEF JobOK, JobSet
  <2> QED BY <2>1, <2>2
<1>3. JobOK' /\ EventsOK'
  BY <1>1, <1>2 DEF JobOK, EventsOK, EventSet, StartSet, EndSet, EventOK
<1>4. /\ News' = News
      /\ \A id : ~InWork(id)'
      /\ \A id, kind : OfKind(id, kind) => OfKind(id, kind)'
      /\ \A id, arc : About(id, arc) => About(id, arc)'
  BY <1>1 DEF News, InWork, OfKind, About
<1>5. \A id, kind : Due(id, kind) => Due(id, kind)'
  BY <1>1, <1>4 DEF Due, InWork
<1>6. Told'
  <2>1. InTurn'
    BY <1>1, <1>2, <1>4 DEF Told, InTurn
  <2>2. OneKind'
    BY <1>1, <1>2, <1>4 DEF Told, OneKind
  <2>3. StartsEnd'
    BY <1>2, <1>4, <1>5 DEF Told, StartsEnd
  <2> QED BY <2>1, <2>2, <2>3 DEF Told
<1>7. /\ dlg' = dlg /\ known' = known /\ awaiting' = awaiting /\ activeJob' = activeJob
      /\ editId' = editId
  BY <1>1 DEF dialogs, editing
<1>8. PanelEnds' /\ DialogsWait'
  <2>1. PanelEnds'
    BY <1>1, <1>4, <1>5, <1>7 DEF WindowInv, PanelEnds
  <2>2. DialogsWait'
    BY <1>1, <1>4, <1>7 DEF WindowInv, DialogsWait, Unanswered
  <2> QED BY <2>1, <2>2
<1>9. Own'
  <2>1. SUFFICES ASSUME ~Blind PROVE OneCall' /\ OwnCall' /\ OwnJob' /\ OwnReport'
    BY <1>1 DEF Own, Blind
  <2>2. OneCall /\ OwnCall /\ OwnJob /\ OwnReport
    BY <2>1 DEF WindowInv, Own
  <2>3. OneCall' /\ OwnReport'
    BY <1>1, <1>7, <2>2 DEF OneCall, OwnReport
  <2>4. OwnCall'
    BY <1>1, <1>4, <1>5, <1>7, <2>2 DEF OwnCall
  <2>5. OwnJob'
    BY <1>4, <1>7, <2>2 DEF OwnJob
  <2> QED BY <2>3, <2>4, <2>5
<1>10. Settling'
  BY <1>1, <1>5, <1>7 DEF WindowInv, Settling, Blind, asking
<1>11. ShownOK' /\ FollowOK' /\ CallsOK'
  BY <1>1, <1>2, <1>7 DEF ShownOK, FollowOK, CallsOK, CallSet, shown, asking
<1>12. Lists'
  <2>1. \A arc : DoneComes(arc)' = DoneComes(arc)
    BY <1>4 DEF DoneComes
  <2>2. \A id : Tied(id)' = Tied(id)
    BY <1>1, <1>7 DEF Tied
  <2>3. EditsTied => EditsTied'
    BY <1>1, <1>4, <2>2 DEF EditsTied
  <2>4. (ListsRead => ListsRead') /\ (Latest => Latest')
    BY <1>1, <2>1 DEF ListsRead, Latest, shown
  <2> QED BY <1>1, <2>3, <2>4 DEF WindowInv, Lists, ListIsShown, Unnoticed, shown
<1>13. Asked'
  BY <1>1, AskedStays DEF WindowInv, shown, asking
<1> QED BY <1>3, <1>6, <1>8, <1>9, <1>10, <1>11, <1>12, <1>13 DEF WindowInv, Types

-----------------------------------------------------------------------------
(* What a dialog is tried again on.                                         *)

LEMMA RetriedStays ==
  ASSUME Retried,
         \A k \in Kinds : dlg'[k].of \in {dlg[k].of, Nothing} /\ pend'[k] \in {pend[k], Nothing}
  PROVE  Retried'
BY DEF Retried

LEMMA RetriedRun ==
  ASSUME ShownOK, FollowOK, Retried, NEW k \in Kinds, NEW a, k \in Modes,
         pend' = [pend EXCEPT ![k] = a], dlg' = [dlg EXCEPT ![k] = Running(a)]
  PROVE  Retried'
<1>1. /\ \A j \in Kinds : j # k => dlg'[j] = dlg[j] /\ pend'[j] = pend[j]
      /\ dlg'[k] = Running(a) /\ pend'[k] = a
  BY DEF ShownOK, FollowOK, Modes
<1>2. Running(a).of = a
  BY DEF Running
<1> QED BY <1>1, <1>2 DEF Retried

LEMMA RetriedNext == ASSUME WindowInv, Retried, [WindowNext]_windowVars PROVE Retried'
<1>1. ShownOK /\ FollowOK /\ \A k \in Kinds : k \in Modes /\ k # "open" /\ k # "entry"
  BY Plain DEF WindowInv, Types
<1>2. pend \in [Modes -> Maybe] /\ dlg \in [Kinds -> Dialogs]
  BY <1>1 DEF ShownOK, FollowOK
<1>3. ASSUME UNCHANGED <<pend, dlg>> PROVE Retried'
  BY <1>3, RetriedStays
<1>4. ASSUME NEW c \in calls,
             \/ ListArchive(c) \/ Reloaded(c) \/ ListFails(c) \/ StartJob(c) \/ Started(c)
             \/ Picked(c) \/ EditAnswered(c) \/ Confirmed(c)
      PROVE Retried'
  <2>1. CASE ListArchive(c) \/ Reloaded(c) \/ ListFails(c) \/ StartJob(c) \/ Started(c)
    BY <1>3, <2>1 DEF ListArchive, Reloaded, ListFails, StartJob, Started, asking, dialogs
  <2>2. CASE Picked(c) \/ EditAnswered(c) \/ Confirmed(c)
    BY <1>3, <2>2 DEF Picked, EditAnswered, Confirmed, asking, dialogs
  <2> QED BY <1>4, <2>1, <2>2
<1>5. ASSUME NEW c \in calls, Opened(c) \/ OpenAsks(c) \/ EntryOpened(c) \/ EntryAsks(c)
      PROVE Retried'
  <2>1. /\ dlg' = dlg
        /\ \/ pend' = pend \/ pend' = [pend EXCEPT !["open"] = Nothing]
           \/ pend' = [pend EXCEPT !["open"] = c.arc] \/ pend' = [pend EXCEPT !["entry"] = Nothing]
           \/ pend' = [pend EXCEPT !["entry"] = c.arc]
    BY <1>5 DEF Opened, OpenAsks, EntryOpened, EntryAsks, asking, dialogs
  <2>2. \A k \in Kinds : pend'[k] = pend[k]
    BY <1>1, <1>2, <2>1
  <2> QED BY <2>1, <2>2, RetriedStays
<1>6. ASSUME NEW c \in calls, Refused(c) PROVE Retried'
  <2>1. pend' = pend /\ c.op \in Kinds
        /\ dlg' = [dlg EXCEPT ![c.op].phase = IF @ = "closed" THEN @ ELSE "failed"]
    BY <1>6 DEF Refused, Received, asking
  <2>2. \A k \in Kinds : dlg'[k].of = dlg[k].of
    BY <1>2, <2>1 DEF Dialogs
  <2> QED BY <2>1, <2>2, RetriedStays
<1>7. CASE JobEnds \/ JobPanics \/ OnJobStarted \/ OnJobDone
  BY <1>3, <1>7 DEF JobEnds, JobPanics, OnJobStarted, OnJobDone, asking, dialogs
<1>8. CASE OnJobError
  <2>1. pend' = pend
    BY <1>8 DEF OnJobError
  <2>2. PICK k \in Kinds \cup {Nothing} :
          dlg' = dlg \/ (k \in Kinds /\ dlg' = [dlg EXCEPT ![k].phase = "failed"])
    BY <1>8 DEF OnJobError, HandleTestError, dialogs
  <2>3. \A j \in Kinds : dlg'[j].of = dlg[j].of
    BY <1>2, <2>2 DEF Dialogs
  <2> QED BY <2>1, <2>3, RetriedStays
<1>9. CASE OnReport
  <2>1. pend' = pend
    BY <1>9 DEF OnReport, asking
  <2>2. PICK k, a : dlg' = dlg \/ dlg' = [dlg EXCEPT ![k].phase = "done", ![k].shown = a]
    BY <1>9 DEF OnReport, dialogs
  <2>3. \A j \in Kinds : dlg'[j].of = dlg[j].of
    BY <1>2, <2>2 DEF Dialogs
  <2> QED BY <2>1, <2>3, RetriedStays
<1>10. CASE User
  <2>1. CASE \/ \E a \in Archives : OpenDroppedPaths(a)
             \/ AddFilesToArchive \/ RemoveSelectedFromArchive \/ CancelActiveJob
             \/ OpenInnerEntry \/ DeleteCurrentArchive
    BY <1>3, <2>1 DEF OpenDroppedPaths, AddFilesToArchive, RemoveSelectedFromArchive,
       CancelActiveJob, OpenInnerEntry, DeleteCurrentArchive, asking, dialogs
  <2>2. ASSUME NEW k \in Kinds, OpenTest(k) PROVE Retried'
    BY <1>1, <2>2, RetriedRun DEF OpenTest, RunJob
  <2>3. ASSUME NEW k \in Kinds, CloseTest(k) PROVE Retried'
    <3>1. pend' = pend /\ dlg' = [dlg EXCEPT ![k] = Closed]
      BY <2>3 DEF CloseTest, asking
    <3>2. \A j \in Kinds : dlg'[j].of \in {dlg[j].of, Nothing}
      BY <1>2, <3>1 DEF Closed
    <3> QED BY <3>1, <3>2, RetriedStays
  <2>4. CASE SubmitPassword
    <3>1. CASE pw.mode \in Kinds
      <4>1. pw.mode # "entry" /\ pw.mode # "open" /\ pw.mode \in Modes
        BY <1>1, <3>1
      <4>2. RunJob(pw.mode, pend[pw.mode], TRUE)
        BY <2>4, <3>1, <4>1 DEF SubmitPassword
      <4> QED BY <1>1, <3>1, <4>1, <4>2, RetriedRun DEF RunJob
    <3>2. CASE pw.mode \notin Kinds
      BY <1>3, <2>4, <3>2 DEF SubmitPassword, asking, dialogs, WindowInv, Types, ShownOK, Modes
    <3> QED BY <3>1, <3>2
  <2>5. CASE CancelPassword
    <3>1. pend' = [m \in Modes |-> Nothing] /\ dlg' = dlg
      BY <2>5 DEF CancelPassword, dialogs
    <3> QED BY <1>1, <3>1, RetriedStays
  <2> QED BY <1>10, <2>1, <2>2, <2>3, <2>4, <2>5 DEF User
<1>11. CASE \E kind \in ForeignKinds : ForeignStart(kind)
  BY <1>3, <1>11 DEF ForeignStart, asking, dialogs
<1>12. CASE UNCHANGED windowVars
  BY <1>3, <1>12 DEF windowVars, asking, dialogs
<1> QED BY <1>4, <1>5, <1>6, <1>7, <1>8, <1>9, <1>10, <1>11, <1>12 DEF WindowNext, Program

-----------------------------------------------------------------------------
(* The invariant holds.                                                     *)

LEMMA WindowInitInv == WindowInit => WindowInv
<1> SUFFICES ASSUME WindowInit PROVE WindowInv
  OBVIOUS
<1>1. News = {} /\ events = <<>> /\ job = NoJob /\ calls = {} /\ lapses = {}
  BY DEF WindowInit, News
<1>2. Types
  <2>1. ShownOK
    <3>1. path \in Maybe /\ list \in [arc : Maybe, ver : Nat] /\ list.arc # Nothing
      BY WindowAssumption DEF WindowInit, Maybe, Nothing
    <3>2. pw \in [open : BOOLEAN, mode : Modes] /\ pend \in [Modes -> Maybe] /\ asker \in Maybe
      BY DEF WindowInit, Modes, Maybe
    <3> QED BY <1>1, <3>1, <3>2, WindowAssumption DEF WindowInit, ShownOK
  <2>2. FollowOK
    <3>1. Closed \in Dialogs
      BY DEF Closed, Dialogs, Maybe
    <3> QED BY <3>1, WindowAssumption DEF WindowInit, FollowOK
  <2> QED BY <1>1, <2>1, <2>2 DEF Types, CallsOK, JobOK, EventsOK, WindowInit
<1>3. Told /\ PanelEnds
  <2>1. Len(events) = 0
    BY <1>1
  <2> QED BY <1>1, <2>1 DEF WindowInit, Told, InTurn, OneKind, StartsEnd, PanelEnds
<1>4. DialogsWait /\ Own /\ Settling
  BY <1>1 DEF WindowInit, DialogsWait, Own, OneCall, OwnCall, OwnJob, OwnReport, Settling, Closed
<1>5. Lists /\ Asked
  BY <1>1, WindowAssumption DEF WindowInit, Lists, ListIsShown, EditsTied, ListsRead, Latest, Asked
<1> QED BY <1>2, <1>3, <1>4, <1>5 DEF WindowInv

LEMMA SameKeeps == ASSUME WindowInv, UNCHANGED windowVars PROVE WindowInv'
<1>1. /\ UNCHANGED <<path, list, pw, pend, asker, dlg, known, awaiting, activeJob, editId>>
      /\ UNCHANGED <<ext, calls, job, jobs, events, silent, ver, gone, acts, lapses>>
  BY DEF windowVars, shown, asking, dialogs, editing, backend
<1>2. Apart
  BY <1>1 DEF Apart, JobGoesOn, dialogs
<1>3. ShownOK' /\ CallsOK' /\ editId' \in 0..jobs
  BY <1>1, CallsStay DEF WindowInv, Types, ShownOK, FollowOK
<1>4. Settling'
  <2>1. LeftOpen => pw'.open /\ pw'.mode = pw.mode
    BY <1>1 DEF LeftOpen
  <2> QED BY <1>2, <2>1, SettlingStays DEF WindowInv
<1>5. Lists' /\ Asked'
  BY <1>1, ListsStay, AskedStays DEF WindowInv, JobGoesOn
<1> QED BY <1>2, <1>3, <1>4, <1>5, ApartStep

LEMMA WindowNextInv == WindowInv /\ Retried /\ [WindowNext]_windowVars => WindowInv'
<1> SUFFICES ASSUME WindowInv, Retried, [WindowNext]_windowVars PROVE WindowInv'
  OBVIOUS
<1>1. ASSUME NEW c \in calls,
             \/ ListArchive(c) \/ Opened(c) \/ OpenAsks(c) \/ Reloaded(c) \/ ListFails(c)
             \/ StartJob(c) \/ Started(c) \/ Refused(c) \/ Picked(c) \/ EditAnswered(c)
             \/ EntryOpened(c) \/ EntryAsks(c) \/ Confirmed(c)
      PROVE WindowInv'
  BY <1>1, ListArchiveKeeps, OpenedKeeps, OpenAsksKeeps, ReloadedKeeps, ListFailsKeeps,
     StartJobKeeps, StartedKeeps, RefusedKeeps, PickedKeeps, EditAnsweredKeeps,
     EntryOpenedKeeps, EntryAsksKeeps, ConfirmedKeeps
<1>2. CASE JobEnds \/ JobPanics \/ OnJobStarted \/ OnJobDone \/ OnJobError \/ OnReport
  BY <1>2, JobEndsKeeps, JobPanicsKeeps, OnJobStartedKeeps, OnJobDoneKeeps, OnJobErrorKeeps, OnReportKeeps
<1>3. CASE User
  BY <1>3, SendersKeep, OpenTestKeeps, CloseTestKeeps, CancelActiveJobKeeps,
     SubmitPasswordKeeps, CancelPasswordKeeps DEF User
<1>4. CASE \E kind \in ForeignKinds : ForeignStart(kind)
  BY <1>4, ForeignStartKeeps
<1>5. CASE UNCHANGED windowVars
  BY <1>5, SameKeeps
<1> QED BY <1>1, <1>2, <1>3, <1>4, <1>5 DEF WindowNext, Program

THEOREM WindowInvariance == WindowSpec => [](WindowInv /\ Retried)
<1>1. WindowInit => Retried
  BY DEF WindowInit, Retried, Closed
<1>2. WindowInv /\ Retried /\ [WindowNext]_windowVars => Retried'
  BY RetriedNext
<1> QED BY <1>1, <1>2, WindowInitInv, WindowNextInv, PTL DEF WindowSpec

\* The list that is shown is that of the archive the window names, and when
\* nothing is on its way any more it is the latest, unless one of the lapses
\* that the property names went by: an archive opened while a list was read again,
\* an edit that ended before its id was known, a list that could not be read.
THEOREM ListStaysRight == WindowSpec => []ListRight
<1>1. ASSUME WindowInv PROVE ListRight
  <2>1. Types /\ Lists
    BY <1>1 DEF WindowInv
  <2>2. WindowTypeOK
    <3>1. /\ path \in Maybe /\ list.arc \in Maybe /\ path # Nothing => list # NoList
          /\ pw.open \in BOOLEAN /\ pw.mode \in Modes /\ pend \in [Modes -> Maybe]
          /\ acts \in 0..MaxActs /\ gone \subseteq Archives
          /\ lapses \subseteq {"overtaken", "early", "unread", "blind", "left", "late", "behind"}
      BY <2>1 DEF Types, ShownOK, NoList, Nothing
    <3>2. /\ \A k \in Kinds : /\ dlg[k].phase \in {"closed", "running", "done", "failed"}
                              /\ known[k] \in 0..jobs /\ awaiting[k] \in BOOLEAN
          /\ activeJob \in 0..jobs /\ editId \in 0..jobs /\ ext \subseteq 1..jobs
          /\ jobs \in 0..MaxStarts /\ silent \subseteq 1..jobs
      BY <2>1 DEF Types, FollowOK, Dialogs, JobOK
    <3>3. job # NoJob => job.id = jobs
      BY <2>1 DEF Types, JobOK, JobSet
    <3> QED BY <2>1, <3>1, <3>2, <3>3 DEF WindowTypeOK, Maybe, Types, ShownOK
  <2>3. NewListShown
    <3>1. SUFFICES ASSUME Quiet, path # Nothing, ~Unnoticed PROVE list.ver = ver[path]
      BY DEF NewListShown, Unnoticed
    <3>2. News = {} /\ calls = {}
      BY <3>1 DEF Quiet, News
    <3> QED BY <2>1, <3>1, <3>2 DEF Lists, Latest, DoneComes
  <2> QED BY <2>1, <2>2, <2>3 DEF ListRight, Lists
<1> QED BY <1>1, WindowInvariance, PTL

\* A report in a dialog is that of the archive the dialog was opened for.
THEOREM ReportsAreOwn == WindowSpec => []ReportIsOwn
<1>1. WindowInv => ReportIsOwn
  BY DEF WindowInv, Own, OwnReport, ReportIsOwn, Blind
<1> QED BY <1>1, WindowInvariance, PTL

\* When nothing is on its way any more, no dialog waits for something that will
\* not come and no panel of a job is left, but for those of a job that panicked.
THEOREM DialogsSettle == WindowSpec => []DialogSettles
<1>1. ASSUME WindowInv PROVE DialogSettles
  <2>1. SUFFICES ASSUME Quiet
        PROVE /\ activeJob = 0 \/ activeJob \in silent
              /\ \A k \in Kinds :
                    dlg[k].phase = "running" =>
                        \/ pw.open /\ pw.mode = k
                        \/ known[k] \in silent
                        \/ lapses \cap {"left", "blind"} # {}
    BY DEF DialogSettles
  <2>2. News = {} /\ calls = {} /\ job = NoJob
    BY <2>1 DEF Quiet, News
  <2>3. \A id, kind : Due(id, kind) => id \in silent
    BY <2>2 DEF Due, InWork
  <2>4. activeJob = 0 \/ activeJob \in silent
    BY <1>1, <2>3 DEF WindowInv, PanelEnds
  <2>5. \A k \in Kinds : ~awaiting[k]
    BY <1>1, <2>2 DEF WindowInv, DialogsWait, Unanswered
  <2>6. \A k \in Kinds : dlg[k].phase = "running" =>
            \/ pw.open /\ pw.mode = k
            \/ known[k] \in silent
            \/ "left" \in lapses \/ "blind" \in lapses
    BY <1>1, <2>3, <2>5 DEF WindowInv, Settling, Blind
  <2> QED BY <2>4, <2>6
<1> QED BY <1>1, WindowInvariance, PTL

-----------------------------------------------------------------------------
(* The password.                                                            *)

\* The files that are picked are added without a password.
PickedPlain == \A c \in calls : c.op = "pick" => ~c.pw

\* What a new call may be: one with a password goes to who has asked.
NewRight(c) ==
    /\ c.op = "pick" => ~c.pw
    /\ c.pw /\ c.answer = "none" => c.arc = asker \/ lapses \cap {"late", "behind", "blind"} # {}

LEMMA SentRight == ASSUME NEW o, NEW a PROVE NewRight(Call(o, a))
<1>1. ~Call(o, a).pw
  BY DEF Call
<1> QED BY <1>1 DEF NewRight

LEMMA TriedRight ==
  ASSUME NEW o, o # "pick", NEW a, a = asker \/ lapses \cap {"late", "behind", "blind"} # {}
  PROVE  NewRight([Call(o, a) EXCEPT !.pw = TRUE])
<1> DEFINE d == [Call(o, a) EXCEPT !.pw = TRUE]
<1>1. d \in NewCalls(o, a)
  BY DEF NewCalls
<1> HIDE DEF d
<1>2. d.op = o /\ d.arc = a
  BY <1>1, CallIs
<1>3. NewRight(d)
  BY <1>2 DEF NewRight
<1> QED BY <1>3 DEF d

LEMMA SubmitRight ==
  ASSUME WindowInv, SubmitPassword, NEW c \in calls', c \notin calls PROVE NewRight(c)
<1>1. pw.open /\ pw.mode \in Kinds \cup {"open", "entry"} /\ pend[pw.mode] # Nothing
  BY DEF SubmitPassword, WindowInv, Types, ShownOK, Modes
<1>2. lapses \cap {"late", "behind", "blind"} = {} =>
         /\ pw.mode = "entry" => path \in {asker, Nothing}
         /\ pw.mode = "open" => pend["open"] = asker
         /\ pw.mode \in Kinds => pend[pw.mode] \in {asker, Nothing}
  BY <1>1 DEF WindowInv, Asked
<1>3. CASE pw.mode \in Kinds
  <2>1. pw.mode # "entry" /\ pw.mode # "open" /\ pw.mode # "pick"
    BY <1>3, Plain, WindowAssumption
  <2>2. c = [Call(pw.mode, pend[pw.mode]) EXCEPT !.pw = TRUE]
    BY <1>3, <2>1 DEF SubmitPassword, RunJob, Send
  <2> QED BY <1>1, <1>2, <1>3, <2>1, <2>2, TriedRight
<1>4. CASE pw.mode = "entry"
  <2>1. pw.mode \notin Kinds
    BY <1>4, Plain
  <2>2. path # Nothing /\ c = [Call("entry", path) EXCEPT !.pw = TRUE]
    BY <1>4, <2>1 DEF SubmitPassword
  <2> QED BY <1>2, <1>4, <2>2, TriedRight
<1>5. CASE pw.mode = "open"
  <2>1. pw.mode \notin Kinds
    BY <1>5, Plain
  <2>2. c = [Call("open", pend["open"]) EXCEPT !.pw = TRUE]
    BY <1>5, <2>1 DEF SubmitPassword, Send
  <2> QED BY <1>2, <1>5, <2>2, TriedRight
<1> QED BY <1>1, <1>3, <1>4, <1>5

LEMMA NextRight ==
  ASSUME WindowInv, PickedPlain, WindowNext, NEW c \in calls', c \notin calls PROVE NewRight(c)
<1>1. CASE User
  <2>1. CASE \E a \in Archives : OpenDroppedPaths(a)
    BY <2>1, SentRight DEF OpenDroppedPaths, Send
  <2>2. CASE \E k \in Kinds : OpenTest(k)
    <3>1. PICK k \in Kinds : calls' = calls \cup {[Call(k, path) EXCEPT !.pw = FALSE]}
      BY <2>2 DEF OpenTest, RunJob, Send
    <3>2. c = [Call(k, path) EXCEPT !.pw = FALSE]
      BY <3>1
    <3>3. c = Call(k, path)
      BY <3>2, CallPlain
    <3> QED BY <3>3, SentRight
  <2>3. CASE \E k \in Kinds : CloseTest(k)
    BY <2>3 DEF CloseTest
  <2>4. CASE AddFilesToArchive
    BY <2>4, SentRight DEF AddFilesToArchive, Send
  <2>5. CASE RemoveSelectedFromArchive
    BY <2>5, SentRight DEF RemoveSelectedFromArchive, Send
  <2>6. CASE OpenInnerEntry
    BY <2>6, SentRight DEF OpenInnerEntry, Send
  <2>7. CASE DeleteCurrentArchive
    BY <2>7, SentRight DEF DeleteCurrentArchive, Send
  <2>8. CASE CancelActiveJob \/ CancelPassword
    BY <2>8 DEF CancelActiveJob, CancelPassword
  <2>9. CASE SubmitPassword
    BY <2>9, SubmitRight
  <2> QED BY <1>1, <2>1, <2>2, <2>3, <2>4, <2>5, <2>6, <2>7, <2>8, <2>9 DEF User
<1>2. ASSUME NEW d \in calls,
             \/ Opened(d) \/ OpenAsks(d) \/ Reloaded(d) \/ ListFails(d) \/ Started(d)
             \/ Refused(d) \/ EditAnswered(d) \/ EntryOpened(d) \/ EntryAsks(d) \/ Confirmed(d)
      PROVE FALSE
  <2>1. calls' = calls \ {d}
    <3>1. CASE Opened(d) \/ OpenAsks(d) \/ Reloaded(d) \/ ListFails(d) \/ Started(d)
      BY <3>1 DEF Opened, OpenAsks, Reloaded, ListFails, Started, Refusal, Received
    <3>2. CASE Refused(d) \/ EntryOpened(d) \/ EntryAsks(d) \/ Confirmed(d)
      BY <3>2 DEF Refused, EntryOpened, EntryAsks, Confirmed, Received
    <3>3. CASE EditAnswered(d)
      BY <3>3 DEF EditAnswered, Received
    <3> QED BY <1>2, <3>1, <3>2, <3>3
  <2> QED BY <2>1
<1>3. ASSUME NEW d \in calls, ListArchive(d) \/ StartJob(d) PROVE NewRight(c)
  <2>1. /\ d \in CallSet(d.no) /\ d.op # "pick"
    <3>1. d.op \in {"open", "reload"} \/ d.op \in Kinds \cup {"edit"}
      BY <1>3 DEF ListArchive, StartJob
    <3> QED BY <3>1, Plain, WindowAssumption
  <2>2. c.op = d.op /\ c.answer \in {"ok", "refused"}
    <3>1. \/ c = [d EXCEPT !.answer = "ok", !.ver = ver[d.arc]]
          \/ c = [d EXCEPT !.answer = "ok", !.id = jobs']
          \/ c = [d EXCEPT !.answer = "refused"]
      BY <1>3 DEF ListArchive, StartJob, Reply
    <3> QED BY <2>1, <3>1 DEF CallSet
  <2> QED BY <2>1, <2>2 DEF NewRight
<1>4. ASSUME NEW d \in calls, Picked(d) PROVE NewRight(c)
  <2>1. d.op = "pick" /\ c = [d EXCEPT !.op = "edit"] /\ d \in CallSet(d.no) /\ ~d.pw
    BY <1>4, Plain DEF Picked, PickedPlain
  <2>2. ~c.pw
    BY <2>1 DEF CallSet
  <2> QED BY <2>2 DEF NewRight
<1>5. CASE JobEnds \/ JobPanics \/ OnJobStarted \/ OnJobError \/ OnReport
  BY <1>5 DEF JobEnds, JobPanics, OnJobStarted, OnJobError, OnReport
<1>6. CASE OnJobDone
  <2>1. c = Call("reload", path)
    BY <1>6 DEF OnJobDone, Send
  <2> QED BY <2>1, SentRight
<1>7. CASE \E kind \in ForeignKinds : ForeignStart(kind)
  BY <1>7 DEF ForeignStart
<1> QED BY <1>1, <1>2, <1>3, <1>4, <1>5, <1>6, <1>7 DEF WindowNext, Program

\* A password that is typed in is tried on the archive that asked for it: no answer
\* of another flow, no archive opened meanwhile and no dialog closed in between
\* takes it elsewhere, but for the three ways the property names.
THEOREM PasswordGoesToAsker == WindowSpec => PasswordForAsker
<1>1. WindowInit => PickedPlain
  BY DEF WindowInit, PickedPlain
<1>2. ASSUME WindowInv, PickedPlain, [WindowNext]_windowVars PROVE PickedPlain' /\ \A c \in calls' \ calls : NewRight(c)
  <2>1. \A c \in calls' \ calls : NewRight(c)
    BY <1>2, NextRight DEF windowVars
  <2> QED BY <1>2, <2>1 DEF PickedPlain, NewRight
<1>3. WindowSpec => [](WindowInv /\ PickedPlain)
  BY <1>1, <1>2, WindowInvariance, PTL DEF WindowSpec
<1>4. ASSUME WindowInv, PickedPlain, [WindowNext]_windowVars
      PROVE [\A c \in calls' \ calls :
               c.pw /\ c.answer = "none" => c.arc = asker \/ lapses \cap {"late", "behind", "blind"} # {}]_windowVars
  BY <1>2, <1>4 DEF NewRight
<1> QED BY <1>3, <1>4, PTL DEF WindowSpec, PasswordForAsker

=============================================================================
