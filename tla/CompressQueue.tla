---------------------------- MODULE CompressQueue ----------------------------
(***************************************************************************)
(* The queue of requests for the compress window (PendingCompress in       *)
(* src-tauri/src/commands.rs), the threads that open the window, the       *)
(* window's birth and death, and the calls by which the window takes the   *)
(* requests: lease, dispatch, ack.                                         *)
(*                                                                         *)
(* Requests carry increasing numbers and are only ever appended, so that   *)
(* the VecDeque is the set of its numbers, and its front the smallest.     *)
(* The window is modelled by what the calls depend on: whether it is going *)
(* to ask for a request, which one it holds and how far it has come; form  *)
(* and job are here only as what may keep it.  A call may be carried out   *)
(* without its answer arriving: the window then waits until something      *)
(* wakes it.  It may be carried out late, even after its window is gone.   *)
(* Commands and the Destroyed event both run on the main thread, so that   *)
(* the resolution of a session and the lease under it are one step; the    *)
(* threads that open windows run beside it.                                *)
(***************************************************************************)
EXTENDS Naturals, FiniteSets

CONSTANTS
    MaxRequests,  \* bound: how many requests arrive
    MaxWindows,   \* bound: how many times the window is opened; the last stays
    Keep,         \* remember_ack::KEEP: how many closed leases are remembered
    Empty         \* the requests that carry no path: closed without being handed over

ASSUME QueueAssumption ==
    /\ MaxRequests \in Nat
    /\ MaxWindows \in Nat
    /\ Keep \in Nat

Requests == 1 .. MaxRequests
Sessions == 1 .. MaxWindows
None == 0                    \* no session, no request

VARIABLES
    queued,     \* PendingCompress.queue: the numbers of the requests in it
    lease,      \* QueuedLaunch.lease
    nextId,     \* PendingCompress.next_id
    nextGen,    \* PendingCompress.next_gen
    recent,     \* PendingCompress.recent: the last leases closed by ack
    ready,      \* PendingCompress.ready: the window has asked for a request
    session,    \* WindowSessions.current of the label "compress"
    windows,    \* how many sessions have been issued
    window,     \* what the window manager says of the label "compress"
    opener,     \* the thread that holds PendingCompressInputs.create
    carries,    \* it brings a request (launch is Some)
    reopening,  \* how many threads are in reopen_compress_after_retire
    buildFailed,\* a window could not be built
    look,       \* the window is going to ask for a request
    held,       \* the lease it holds
    stage,      \* held.stage
    pause,      \* why the window does not go on: a call has failed, or it is kept
    sent,       \* the dispatch and ack calls that windows have sent
    applied     \* how often each request has been carried out

queueVars  == <<queued, lease, nextId, nextGen, recent, ready>>
openVars   == <<session, windows, window, opener, carries, reopening, buildFailed>>
clientVars == <<look, held, stage, pause, sent, applied>>
vars == <<queueVars, openVars, clientVars>>

NoLease == [gen |-> 0, session |-> None, dispatched |-> FALSE]
Leases  == [gen : Nat, session : Sessions \cup {None}, dispatched : BOOLEAN]
Pairs   == Requests \X Nat
NoPair  == <<None, 0>>
Calls   == {"dispatch", "ack"} \X Pairs

\* "dying": the Destroyed event has been handled, the manager still lists the window.
WindowStates == {"none", "open", "dying"}

\* "found" and "absent": what the opener saw when it looked for the window;
\* "build": the request is in the queue, the window is about to be built.
OpenerSteps == {"free", "found", "absent", "build"}

\* "failed": a call or the start of a job has failed; "kept": a job runs, or the
\* form has inputs that the request would erase.
Pauses == {"none", "failed", "kept"}

Init ==
    /\ queued = {} /\ lease = [r \in Requests |-> NoLease]
    /\ nextId = 0 /\ nextGen = 0 /\ recent = {} /\ ready = FALSE
    /\ session = None /\ windows = 0 /\ window = "none"
    /\ opener = "free" /\ carries = FALSE
    /\ reopening = 0 /\ buildFailed = FALSE
    /\ look = FALSE /\ held = NoPair /\ stage = "leased" /\ pause = "none"
    /\ sent = {} /\ applied = [r \in Requests |-> 0]

-----------------------------------------------------------------------------
(* The queue: one operator per method of PendingCompress. *)

\* Mutant of IsFront: a request is taken from anywhere in the queue.
IsAnywhere(r) == r \in queued

IsFront(r) == r \in queued /\ \A q \in queued : r <= q

Leased(r) == lease[r] # NoLease

\* The window gives up what it holds, or is done with it.
LetGo == held' = NoPair /\ stage' = "leased"

HasUnleased == \E r \in queued : ~Leased(r)

\* push: behind the others, never merged with one of them.
Push ==
    /\ nextId' = nextId + 1
    /\ queued' = queued \cup {nextId + 1}

\* Mutant of LeaseTo: asking again is not the same as asking once.
LeaseOnce(r, s) ==
    /\ ~Leased(r)
    /\ nextGen' = nextGen + 1
    /\ lease' = [lease EXCEPT ![r] =
                    [gen |-> nextGen + 1, session |-> s, dispatched |-> FALSE]]

\* lease(): the front r goes to session s under a new generation; asking
\* again, the session gets the same lease.
LeaseTo(r, s) ==
    \/ /\ Leased(r) /\ lease[r].session = s
       /\ UNCHANGED <<lease, nextGen>>
    \/ /\ ~Leased(r)
       /\ nextGen' = nextGen + 1
       /\ lease' = [lease EXCEPT ![r] =
                       [gen |-> nextGen + 1, session |-> s, dispatched |-> FALSE]]

\* The queue is empty or its front is leased to somebody else.
NothingFor(s) == \A r \in queued : IsFront(r) => Leased(r) /\ lease[r].session # s

\* Mutant of Matches: the generation is not compared.
MatchesAnyGen(pair) == IsFront(pair[1]) /\ Leased(pair[1])

\* The request of the pair is the front and its lease has the pair's generation.
Matches(pair) == IsFront(pair[1]) /\ Leased(pair[1]) /\ lease[pair[1]].gen = pair[2]

\* dispatch(): marks the lease; "already" when it was marked, or closed since.
DispatchAnswer(pair) ==
    IF Matches(pair)
       THEN IF lease[pair[1]].dispatched THEN "already" ELSE "ok"
       ELSE IF pair \in recent /\ ~IsFront(pair[1]) THEN "already" ELSE "stale"

Dispatch(pair) ==
    lease' = IF Matches(pair) THEN [lease EXCEPT ![pair[1]].dispatched = TRUE] ELSE lease

\* remember_ack(): requests are closed in their order, so that the oldest
\* entries are those with Keep newer ones.
Remember(pair) ==
    LET all == recent \cup {pair} IN
    recent' = {p \in all : Cardinality({q \in all : q[1] > p[1]}) < Keep}

\* ack(): takes the request out of the queue.
AckAnswer(pair) ==
    IF Matches(pair) THEN "ok" ELSE IF pair \in recent THEN "already" ELSE "stale"

Ack(pair) ==
    IF Matches(pair)
       THEN /\ queued' = queued \ {pair[1]}
            /\ lease' = [lease EXCEPT ![pair[1]] = NoLease]
            /\ Remember(pair)
       ELSE UNCHANGED <<queued, lease, recent>>

\* Mutants of ReleaseSession: everything goes back, nothing does.
ReleaseAll(s) ==
    /\ UNCHANGED queued
    /\ lease' = [r \in Requests |-> IF lease[r].session = s THEN NoLease ELSE lease[r]]
ReleaseNothing(s) == UNCHANGED <<queued, lease>>

\* release_session(): what the dead session held goes back, unless it was dispatched.
ReleaseSession(s) ==
    LET mine == {r \in queued : Leased(r) /\ lease[r].session = s} IN
    /\ queued' = queued \ {r \in mine : lease[r].dispatched}
    /\ lease' = [r \in Requests |-> IF r \in mine THEN NoLease ELSE lease[r]]

-----------------------------------------------------------------------------
(* Opening the window: open_compress_window_inner, under the mutex create. *)

\* Mutant of Enter: the dead window is not waited for.
EnterEager(launch) ==
    /\ opener = "free"
    /\ IF launch
          THEN nextId < MaxRequests /\ UNCHANGED reopening
          ELSE reopening > 0 /\ reopening' = reopening - 1
    /\ opener' = (IF window = "none" THEN "absent" ELSE "found") /\ carries' = launch
    /\ UNCHANGED <<queueVars, session, windows, window, buildFailed, clientVars>>

\* A request comes in, from the main window or the command line, or the
\* thread of reopen_compress_after_retire has seen the dead window leave.
Enter(launch) ==
    /\ opener = "free"
    /\ IF launch
          THEN /\ nextId < MaxRequests
               /\ UNCHANGED reopening
          ELSE /\ reopening > 0
               /\ window = "none" \/ session # None
               /\ reopening' = reopening - 1
    /\ opener' = (IF window = "none" THEN "absent" ELSE "found") /\ carries' = launch
    /\ UNCHANGED <<queueVars, session, windows, window, buildFailed, clientVars>>

PushLaunch == IF carries THEN Push ELSE UNCHANGED <<nextId, queued>>

\* The window was there: append and, once it has asked for a request, signal.
\* The signal reaches a window that is still open.
AppendLaunch ==
    /\ opener = "found"
    /\ PushLaunch
    /\ look' = (look \/ (ready /\ window = "open"))
    /\ \/ ready /\ window = "open" /\ pause' = "none"
       \/ ~(ready /\ window = "open" /\ pause = "failed") /\ UNCHANGED pause
    /\ opener' = "free" /\ carries' = FALSE
    /\ UNCHANGED <<lease, nextGen, recent, ready>>
    /\ UNCHANGED <<session, windows, window, reopening, buildFailed>>
    /\ UNCHANGED <<held, stage, sent, applied>>

\* There was none: the request goes into the queue before the window is built.
Prepare ==
    /\ opener = "absent"
    /\ PushLaunch
    /\ ready' = FALSE
    /\ opener' = "build" /\ UNCHANGED carries
    /\ UNCHANGED <<lease, nextGen, recent>>
    /\ UNCHANGED <<session, windows, window, reopening, buildFailed, clientVars>>

\* Mutant of Build: the request is pushed once more when the window is there.
BuildPushing ==
    /\ opener = "build"
    /\ windows < MaxWindows
    /\ windows' = windows + 1
    /\ session' = windows + 1
    /\ window' = "open"
    /\ look' = TRUE /\ LetGo /\ pause' = "none"
    /\ PushLaunch
    /\ opener' = "free" /\ carries' = FALSE
    /\ UNCHANGED <<lease, nextGen, recent, ready, reopening, buildFailed, sent, applied>>

\* The session is issued and the window built; it asks for a request when mounted.
Build ==
    /\ opener = "build"
    /\ windows < MaxWindows
    /\ windows' = windows + 1
    /\ session' = windows + 1
    /\ window' = "open"
    /\ look' = TRUE /\ LetGo /\ pause' = "none"
    /\ opener' = "free" /\ carries' = FALSE
    /\ UNCHANGED <<queueVars, reopening, buildFailed, sent, applied>>

\* The window cannot be built: the session is taken back, the request stays.
BuildFails ==
    /\ opener = "build"
    /\ buildFailed' = TRUE
    /\ opener' = "free" /\ carries' = FALSE
    /\ UNCHANGED <<queueVars, session, windows, window, reopening, clientVars>>

\* on_job_window_destroyed, with the requests the window held and, if any
\* are left to be taken, a thread to open the next one.
Destroy ==
    /\ window = "open"
    /\ windows < MaxWindows
    /\ window' = "dying"
    /\ session' = None
    /\ ReleaseSession(session)
    /\ reopening' = IF HasUnleased' THEN reopening + 1 ELSE reopening
    /\ look' = FALSE /\ LetGo /\ pause' = "none"
    /\ UNCHANGED <<nextId, nextGen, recent, ready>>
    /\ UNCHANGED <<windows, opener, carries, buildFailed, sent, applied>>

\* The window manager forgets the window.
Forget ==
    /\ window = "dying"
    /\ window' = "none"
    /\ UNCHANGED <<queueVars, session, windows, opener, carries, reopening, buildFailed, clientVars>>

-----------------------------------------------------------------------------
(* The window: compressCoordinator.js, as far as the queue can tell. *)

\* The answer has arrived, or it has been lost: then the window waits.
Heard == UNCHANGED pause
Lost  == pause' = "failed"

\* Something keeps the window from going on, or its state changes: poke.
KeepOrPoke ==
    /\ window = "open"
    /\ \/ pause = "none" /\ pause' = "kept"
       \/ pause # "none" /\ pause' = "none"
    /\ UNCHANGED <<queueVars, openVars, look, held, stage, sent, applied>>

\* lease_compress_launch: marks the window as ready in the critical section
\* of the lease.
Lease ==
    /\ pause = "none" /\ window = "open" /\ look /\ held = NoPair
    /\ ready' = TRUE
    /\ \/ \E r \in queued :
             /\ IsFront(r) /\ LeaseTo(r, session)
             /\ \/ held' = <<r, lease'[r].gen>> /\ look' = (queued # {r}) /\ Heard
                \/ UNCHANGED <<held, look>> /\ Lost
       \/ /\ NothingFor(session)
          /\ (look' = FALSE /\ Heard) \/ (UNCHANGED look /\ Lost)
          /\ UNCHANGED <<lease, nextGen, held>>
    /\ UNCHANGED <<queued, nextId, recent, openVars, stage, sent, applied>>

\* dispatch_compress_launch before anything is done; refused, the window lets go.
CallDispatch ==
    /\ pause = "none"
    /\ held # NoPair /\ stage = "leased" /\ held[1] \notin Empty
    /\ sent' = sent \cup {<<"dispatch", held>>}
    /\ Dispatch(held)
    /\ \/ IF DispatchAnswer(held) = "stale"
             THEN LetGo /\ pause' = "failed"
             ELSE stage' = "dispatched" /\ UNCHANGED held /\ Heard
       \/ UNCHANGED <<held, stage>> /\ Lost
    /\ UNCHANGED <<queued, nextId, nextGen, recent, ready, openVars, look, applied>>

\* A request without paths is not handed over.
Ignore ==
    /\ pause = "none"
    /\ held # NoPair /\ stage = "leased" /\ held[1] \in Empty
    /\ stage' = "applied"
    /\ UNCHANGED <<queueVars, openVars, look, held, pause, sent, applied>>

\* The request is carried out, or its job cannot be started.
Apply ==
    /\ pause = "none"
    /\ held # NoPair /\ stage = "dispatched"
    /\ \/ applied' = [applied EXCEPT ![held[1]] = @ + 1] /\ stage' = "applied" /\ UNCHANGED pause
       \/ pause' = "failed" /\ UNCHANGED <<applied, stage>>
    /\ UNCHANGED <<queueVars, openVars, look, held, sent>>

\* ack_compress_launch: refused or not, the window is done with the request.
CallAck ==
    /\ pause = "none"
    /\ held # NoPair /\ stage = "applied"
    /\ sent' = sent \cup {<<"ack", held>>}
    /\ Ack(held)
    /\ \/ LetGo /\ pause' = IF AckAnswer(held) = "stale" THEN "failed" ELSE pause
       \/ UNCHANGED <<held, stage>> /\ Lost
    /\ UNCHANGED <<nextId, nextGen, ready, openVars, look, applied>>

\* A call is sent and has not been carried out when its window goes on or dies.
Delay ==
    /\ held # NoPair
    /\ \/ stage = "leased" /\ held[1] \notin Empty /\ sent' = sent \cup {<<"dispatch", held>>}
       \/ stage = "applied" /\ sent' = sent \cup {<<"ack", held>>}
    /\ UNCHANGED <<queueVars, openVars, look, held, stage, pause, applied>>

\* A call that was sent is carried out late, or again; nobody hears the answer.
Late(call) ==
    /\ \/ call[1] = "dispatch" /\ Dispatch(call[2]) /\ UNCHANGED <<queued, recent>>
       \/ call[1] = "ack" /\ Ack(call[2])
    /\ UNCHANGED <<nextId, nextGen, ready, openVars, clientVars>>

-----------------------------------------------------------------------------
Open   == AppendLaunch \/ Prepare \/ Build
Client == Lease \/ CallDispatch \/ Ignore \/ Apply \/ CallAck

Next ==
    \/ \E launch \in BOOLEAN : Enter(launch)
    \/ Open \/ BuildFails \/ Destroy \/ Forget
    \/ Client \/ KeepOrPoke \/ Delay
    \/ \E call \in sent : Late(call)

(***************************************************************************)
(* The opening threads and the window manager get on with their work, and  *)
(* so does a window that is open and has nothing that keeps it.  Nothing   *)
(* is assumed of users, of jobs, or of calls that fail: no request need    *)
(* arrive, no window need be closed, and a window that waits because a     *)
(* call has failed need never be woken.                                    *)
(***************************************************************************)
Fairness == WF_vars(Enter(FALSE)) /\ WF_vars(Open) /\ WF_vars(Forget) /\ WF_vars(Client)

Spec == Init /\ [][Next]_vars /\ Fairness

-----------------------------------------------------------------------------
(* What the queue and the threads around it promise. *)

TypeOK ==
    /\ queued \subseteq Requests /\ lease \in [Requests -> Leases]
    /\ nextId \in 0 .. MaxRequests /\ nextGen \in Nat
    /\ recent \subseteq Pairs /\ ready \in BOOLEAN
    /\ session \in Sessions \cup {None} /\ windows \in 0 .. MaxWindows
    /\ window \in WindowStates
    /\ opener \in OpenerSteps /\ carries \in BOOLEAN
    /\ reopening \in Nat /\ buildFailed \in BOOLEAN
    /\ look \in BOOLEAN /\ held \in Pairs \cup {NoPair}
    /\ stage \in {"leased", "dispatched", "applied"} /\ pause \in Pauses
    /\ sent \subseteq Calls /\ applied \in [Requests -> Nat]

\* At most once: no request is carried out twice, neither by the window that
\* took it nor by the one that is opened after its death, whatever answers
\* are lost and whatever calls arrive late.
AtMostOnce == \A r \in Requests : applied[r] <= 1

\* No stranded lease: what is leased is leased to the window that is open, so
\* that the front never waits for a window that is gone.
NoStrandedLease == \A r \in Requests : Leased(r) => session # None /\ lease[r].session = session

\* The mark that decides between giving back and giving up was set by a call
\* about this very lease, never by a late call about an earlier one.
MarkedByHolder ==
    \A r \in Requests :
        lease[r].dispatched => <<"dispatch", <<r, lease[r].gen>>>> \in sent

\* The queue implements the hand-off protocol: order, no second offer of a
\* request that was handed over, no request closed that was not.
StateOf ==
    [r \in Requests |->
        IF r > nextId THEN "unborn"
        ELSE IF r \notin queued THEN "closed"
        ELSE IF ~Leased(r) THEN "waiting"
        ELSE IF lease[r].dispatched THEN "handed" ELSE "offered"]

H == INSTANCE RequestHandoff WITH state <- StateOf
Handoff == H!HandoffSpec

\* A window that stays open serves every request in the queue or is kept from
\* it: none is pushed between its last look and the moment it can be signalled,
\* and no lost answer leaves it with neither the request nor the will to ask.
WindowServes ==
    \A r \in Requests :
        (r \in queued /\ window = "open")
            ~> (r \notin queued \/ window # "open" \/ pause # "none")

\* Requests left by a window that died get another window.
ReopenServes ==
    (reopening > 0) ~> (window = "open" \/ buildFailed \/ ~HasUnleased)

\* What the runs check, hazard by hazard.

\* No request is carried out twice, in states that are all well formed.
CarriedOutOnce == TypeOK /\ AtMostOnce

\* A lease belongs to the window that is open, and its mark to the lease.
LeasesOwned == NoStrandedLease /\ MarkedByHolder

\* Requests are served by the window that is open and by the one after it.
EveryoneServed == WindowServes /\ ReopenServes

\* Every request gets a window, unless none can be built.  Violated: a request
\* appended to the queue after the death of the window its opener had seen.
Served ==
    \A r \in Requests : (r \in queued) ~> (r \notin queued \/ buildFailed \/ pause # "none")

=============================================================================
