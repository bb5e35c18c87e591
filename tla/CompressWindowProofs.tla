------------------------ MODULE CompressWindowProofs ------------------------
(***************************************************************************)
(* Proofs about the compress window, for any number and kinds of requests, *)
(* any batch and any memory for events: no request is forgotten, success   *)
(* is said of what was made and checked, and the end of a job is heard.    *)
(***************************************************************************)
EXTENDS CompressWindow, FiniteSetTheorems, WellFoundedInduction, TLAPS

Outputs == Requests \cup {None}
Places  == {"idle", "apply"} \cup Calls
Stages  == {"leased", "dispatched", "applied"}
Answers == [served : BOOLEAN, front : Outputs, more : BOOLEAN]

CoType ==
    [at : Places, signalEpoch : Nat, seenEpoch : Nat, epoch : Nat, answer : Answers,
     more : BOOLEAN, held : Outputs, stage : Stages,
     reset : BOOLEAN, blocked : BOOLEAN, failed : BOOLEAN]

Phases  == {"form", "running", "done"}
Inputs  == SUBSET (Requests \cup {User})
Results == Statuses \cup {"none"}
Steps   == {"none", "planning", "sent", "replied"}
Starters == {"user", "coord", "chain"}
Items   == 0 .. Last
Jobs    == 0 .. MaxJobs
Buffers == SUBSET Events
Counts  == 0 .. Cap
Sets    == SUBSET Items

WinType ==
    [phase : Phases, inputs : Inputs, output : Outputs, result : Results,
     batch : BOOLEAN, index : Items, issue : BOOLEAN,
     starting : BOOLEAN, call : Steps, who : Starters, item : BOOLEAN, target : Outputs,
     reply : Jobs, jobId : Jobs, finishing : BOOLEAN,
     buffer : Buffers, others : Counts, verified : Sets]

-----------------------------------------------------------------------------
(***************************************************************************)
(* The invariant: the coordinator c and the window w by themselves and     *)
(* together, then the registry, the queue and the rest.                    *)
(***************************************************************************)
\* What the coordinator remembers.  What is in the queue q is held, or the
\* coordinator will look for it.
Remembers(c, q) ==
    /\ c.held = None => c.stage = "leased"
    /\ c.seenEpoch <= c.epoch /\ c.epoch <= c.signalEpoch
    /\ q.queued \ {c.held} = {} \/ c.more = TRUE \/ c.seenEpoch # c.signalEpoch \/ q.signals > 0
    /\ q.ready = FALSE => c.seenEpoch < c.signalEpoch
    /\ c.signalEpoch > 0 /\ c.signalEpoch + q.signals <= q.arrived + 1

\* The call it waits for says what it holds, and the answer what is in the queue.
Asks(c, q) ==
    /\ c.at \in {"peek", "lease"} => c.held = None /\ HasWork(c)
    /\ c.at = "dispatch" =>
          /\ c.held # None /\ c.stage = "leased" /\ Kind[c.held] # "empty"
          /\ Standalone(c.held) => c.reset = TRUE
    /\ c.at = "apply" => c.stage = "dispatched"
    /\ c.at = "ack" => c.held # None /\ c.stage = "applied"
    /\ c.stage = "dispatched" => c.held # None /\ Standalone(c.held) /\ c.reset = TRUE
    /\ c.answer.served = TRUE => c.at \in {"peek", "lease"}
    /\ c.at = "lease" /\ c.answer.served = TRUE =>
          /\ q.ready = TRUE
          /\ \/ q.queued \ {c.answer.front} = {} \/ c.answer.more = TRUE
             \/ c.epoch # c.signalEpoch \/ q.signals > 0

\* While it looks for a request or hands one over no job is under way, and what
\* it starts it waits for.
Waits(c, w) ==
    /\ c.at \in {"peek", "lease", "dispatch"} => ~Busy(w)
    /\ c.at = "dispatch" /\ w.phase = "done" => c.reset = TRUE
    /\ c.at = "apply" <=> w.starting = TRUE /\ w.who = "coord"

\* A coordinator that could go on has nothing to do.
Rested(c, w) ==
    c.at = "idle" /\ c.blocked = FALSE /\ c.failed = FALSE /\ ~Busy(w) => ~HasWork(c)

\* Where the window is with its job.
Where(w) ==
    /\ w.call # "none" <=> w.starting = TRUE
    /\ w.finishing = TRUE => w.phase = "running" /\ w.starting = FALSE
    /\ w.phase = "form" \/ w.starting = TRUE => w.jobId = None
    /\ w.phase = "done" => w.starting = FALSE
    /\ w.phase = "running" /\ w.starting = TRUE => w.item = TRUE
    /\ w.call = "planning" => w.phase = "form" /\ w.who = "user"
    /\ w.jobId # None => w.buffer = {}

\* What has been made and checked of what is asked for.
Checked(w) ==
    /\ w.call \in {"sent", "replied"} => (w.item = TRUE <=> w.batch = TRUE)
    /\ w.phase = "form" /\ w.call \in {"none", "planning"} => w.batch = FALSE
    /\ w.batch = FALSE => w.index = 0
    /\ w.batch = FALSE /\ (w.call \in {"sent", "replied"} \/ w.phase = "running") => w.verified = {}
    /\ w.batch = TRUE /\ Busy(w) /\ w.issue = FALSE => w.verified = 0 .. w.index - 1
    /\ w.phase = "done" /\ w.result = "ok" =>
          w.verified = IF w.batch THEN 0 .. Last ELSE {0}

\* Each job has one result, which is on its way once.
Pending(i, g) == (g.slot = "own" /\ g.job.id = i) \/ \E e \in g.events : e.id = i

EachOnce(w, g) ==
    /\ g.jobs \in Nat
    /\ g.slot = "own" => g.job.id = g.jobs /\ g.jobs > 0
    /\ \A e \in g.events \cup w.buffer :
          e.id \in 1 .. g.jobs /\ (g.slot = "own" => e.id # g.job.id)
    /\ \A e, f \in g.events \cup w.buffer : e.id = f.id => e = f
    /\ g.events \cap w.buffer = {}
    /\ w.jobId <= g.jobs /\ w.reply <= g.jobs

\* The window hears the result of the job it shows, and of no job twice.
Hears(w, g) ==
    /\ w.jobId # None /\ Pending(w.jobId, g) =>
          w.phase = "running" /\ w.starting = FALSE /\ w.finishing = FALSE
    /\ w.phase = "running" /\ w.starting = FALSE /\ w.finishing = FALSE =>
          w.jobId \in g.lost \/ Pending(w.jobId, g)
    /\ w.call = "replied" /\ w.reply # None =>
          w.reply \in g.lost \/ Pending(w.reply, g) \/ \E e \in w.buffer : e.id = w.reply

Counted ==
    /\ queued \subseteq 1 .. arrived /\ arrived \in 0 .. MaxRequests /\ signals \in Nat
    /\ ready \in BOOLEAN /\ initialized \in BOOLEAN /\ silent \cup dropped \subseteq 1 .. MaxJobs
    /\ slot \in {"free", "own", "foreign"} /\ job \in [id : 0 .. MaxJobs, target : Outputs]
    /\ jobs \in 0 .. MaxJobs /\ foreigns \in Nat
    /\ events \subseteq Events
    /\ made \in [Requests -> Nat]
    /\ \A r \in Requests : made[r] + (IF slot = "own" /\ job.target = r THEN 1 ELSE 0) <= jobs

\* The coordinator with the queue q, and the window with the registry g.
CoSound(c, q)  == c \in CoType /\ Remembers(c, q) /\ Asks(c, q)
WinSound(w, g) == w \in WinType /\ Where(w) /\ Checked(w) /\ EachOnce(w, g) /\ Hears(w, g)

\* Both at the end of a stretch.
States == [c : CoType, w : WinType]

Sound(s, q, g) ==
    /\ s \in States
    /\ CoSound(s.c, q) /\ WinSound(s.w, g) /\ Waits(s.c, s.w)

Queue    == [queued |-> queued, ready |-> ready, signals |-> signals, arrived |-> arrived]
Registry == [slot |-> slot, job |-> job, jobs |-> jobs, events |-> events,
             lost |-> silent \cup dropped]

\* A stretch has ended; onMount ends with the first in which the coordinator rests.
Kept == Sound(Ui, Queue, Registry) /\ Rested(co, win) /\ (~initialized => co.at # "idle")

IInv == Counted /\ Kept

-----------------------------------------------------------------------------
(***************************************************************************)
(* What the window makes of itself.                                        *)
(***************************************************************************)
\* Between two items: the window has no job it waits for, and what is made and
\* checked covers the items so far.
Between(w, g) ==
    /\ w \in WinType /\ EachOnce(w, g)
    /\ w.batch = TRUE /\ w.call = "none" /\ w.finishing = FALSE /\ w.phase # "done"
    /\ w.jobId # None => ~Pending(w.jobId, g) /\ w.buffer = {}
    /\ w.issue = FALSE => w.verified = 0 .. w.index

\* The window v goes on with an item for who, or has ended.
GoesOn(v, who, g) ==
    WinSound(v, g) /\ (v.starting = TRUE => v.who = who /\ v.call = "sent")

\* The next item of a batch is started, or the batch ends with what is true of it.
LEMMA NextItemGoesOn ==
    ASSUME NEW g, NEW w, NEW who \in Starters, Between(w, g)
    PROVE  GoesOn(NextItem(w, who), who, g)
<1> PICK i : i = w.index + 1
  OBVIOUS
<1>0. w \in WinType /\ Last \in Nat /\ w.index \in 0 .. Last
  BY WindowAssumption DEF Between, WinType, Items
<1>t. None \in Outputs /\ None \in Jobs /\ "sent" \in Steps /\ "done" \in Phases
  BY WindowAssumption DEF Outputs, None, Jobs, Steps, Phases
<1>1. ASSUME w.index < Last
      PROVE  GoesOn(NextItem(w, who), who, g)
  <2> PICK u : u = [w EXCEPT !.index = i]
    OBVIOUS
  <2> PICK v : v = [u EXCEPT !.jobId = None, !.starting = TRUE, !.call = "sent", !.who = who,
                             !.item = TRUE, !.target = None]
    OBVIOUS
  <2>1. NextItem(w, who) = v
    BY <1>1 DEF NextItem, RunItem
  <2>2. i \in Items /\ 0 .. i - 1 = 0 .. w.index
    BY <1>0, <1>1 DEF Items
  <2>3. u \in WinType /\ u.index = i
    BY <1>0, <2>2 DEF WinType
  <2>4. /\ v \in WinType
        /\ v.index = i /\ v.starting = TRUE /\ v.call = "sent" /\ v.who = who
        /\ v.item = TRUE /\ v.jobId = None
    BY <1>t, <2>2, <2>3 DEF WinType
  <2>5. /\ v.phase = w.phase /\ v.batch = w.batch /\ v.issue = w.issue
        /\ v.finishing = w.finishing /\ v.buffer = w.buffer /\ v.verified = w.verified
        /\ v.reply = w.reply
    BY <1>0 DEF WinType
  <2>6. Where(v)
    BY <2>4, <2>5 DEF Where, Between
  <2>7. Checked(v)
    BY <2>2, <2>4, <2>5 DEF Checked, Between
  <2>8. EachOnce(v, g)
    BY <1>0, <2>4, <2>5 DEF EachOnce, Between, None, WinType, Jobs
  <2>9. Hears(v, g)
    BY <2>4, <2>5 DEF Hears
  <2>10. QED
    BY <2>1, <2>4, <2>6, <2>7, <2>8, <2>9 DEF GoesOn, WinSound
<1>2. ASSUME ~(w.index < Last)
      PROVE  GoesOn(NextItem(w, who), who, g)
  <2> PICK r : r = IF w.issue THEN "warning" ELSE "ok"
    OBVIOUS
  <2> PICK v : v = [[w EXCEPT !.phase = "done", !.result = r] EXCEPT !.starting = FALSE]
    OBVIOUS
  <2>1. NextItem(w, who) = v
    BY <1>2 DEF NextItem, Done
  <2>2. r \in Results /\ w.index = Last /\ w.issue \in BOOLEAN
    BY <1>0, <1>2 DEF WinType, Results, Statuses
  <2>3. r = "ok" => w.issue = FALSE
    BY <2>2
  <2>4. v \in WinType /\ v.starting = FALSE /\ v.phase = "done" /\ v.result = r
    BY <1>0, <1>t, <2>2 DEF WinType
  <2>5. /\ v.batch = w.batch /\ v.call = w.call /\ v.index = w.index
        /\ v.finishing = w.finishing /\ v.buffer = w.buffer /\ v.verified = w.verified
        /\ v.reply = w.reply /\ v.jobId = w.jobId
    BY <1>0 DEF WinType
  <2>6. Where(v)
    BY <2>4, <2>5 DEF Where, Between
  <2>7. Checked(v)
    BY <2>2, <2>3, <2>4, <2>5 DEF Checked, Between, Busy
  <2>8. EachOnce(v, g)
    BY <2>5 DEF EachOnce, Between
  <2>9. Hears(v, g)
    BY <2>4, <2>5 DEF Hears, Between
  <2>10. QED
    BY <2>1, <2>4, <2>6, <2>7, <2>8, <2>9 DEF GoesOn, WinSound
<1> QED
  BY <1>1, <1>2

\* The job the window shows is over, and nothing more will be heard of it.
Over(w, g) ==
    /\ w \in WinType /\ EachOnce(w, g)
    /\ w.phase = "running" /\ w.starting = FALSE /\ w.call = "none" /\ w.finishing = FALSE
    /\ w.jobId # None => ~Pending(w.jobId, g) /\ w.buffer = {}
    /\ w.batch = FALSE => w.index = 0

\* If the job went well, what is made and checked includes its archive.
Covers(w, status) ==
    status = "ok" =>
        /\ w.batch = FALSE => w.verified = {0}
        /\ w.batch = TRUE /\ w.issue = FALSE => w.verified = 0 .. w.index

\* After a job the batch goes on, or the window says how it went.
LEMMA ConcludeGoesOn ==
    ASSUME NEW g, NEW w, NEW status \in Statuses, Over(w, g), Covers(w, status)
    PROVE  GoesOn(Conclude(w, status), "chain", g)
<1>0. w \in WinType /\ w.batch \in BOOLEAN /\ w.issue \in BOOLEAN
  BY DEF Over, WinType
<1>1. ASSUME w.batch = TRUE, status # "canceled"
      PROVE  GoesOn(Conclude(w, status), "chain", g)
  <2> PICK n : n = IssueAfter(w.issue, status)
    OBVIOUS
  <2> PICK u : u = [w EXCEPT !.issue = n]
    OBVIOUS
  <2>1. Conclude(w, status) = NextItem(u, "chain")
    BY <1>1 DEF Conclude
  <2>2. n \in BOOLEAN /\ (n = FALSE => w.issue = FALSE /\ status = "ok")
    BY <1>0 DEF IssueAfter
  <2>3. u \in WinType /\ u.issue = n
    BY <1>0, <2>2 DEF WinType
  <2>4. /\ u.phase = w.phase /\ u.batch = w.batch /\ u.call = w.call /\ u.index = w.index
        /\ u.finishing = w.finishing /\ u.buffer = w.buffer /\ u.verified = w.verified
        /\ u.reply = w.reply /\ u.jobId = w.jobId
    BY <1>0 DEF WinType
  <2>5. EachOnce(u, g)
    BY <2>4 DEF Over, EachOnce
  <2>6. Between(u, g)
    BY <1>1, <2>2, <2>3, <2>4, <2>5 DEF Between, Over, Covers
  <2>7. "chain" \in Starters
    BY DEF Starters
  <2>8. QED
    BY <2>1, <2>6, <2>7, NextItemGoesOn
<1>2. ASSUME ~(w.batch = TRUE /\ status # "canceled")
      PROVE  GoesOn(Conclude(w, status), "chain", g)
  <2> PICK v : v = [w EXCEPT !.phase = "done", !.result = status]
    OBVIOUS
  <2>1. Conclude(w, status) = v
    BY <1>0, <1>2 DEF Conclude, Done
  <2>2. status \in Results /\ "done" \in Phases
    BY DEF Results, Phases
  <2>3. v \in WinType /\ v.phase = "done" /\ v.result = status
    BY <1>0, <2>2 DEF WinType
  <2>4. /\ v.batch = w.batch /\ v.call = w.call /\ v.index = w.index /\ v.starting = w.starting
        /\ v.finishing = w.finishing /\ v.buffer = w.buffer /\ v.verified = w.verified
        /\ v.reply = w.reply /\ v.jobId = w.jobId
    BY <1>0 DEF WinType
  <2>5. Where(v)
    BY <2>3, <2>4 DEF Where, Over
  <2>6. status = "ok" => w.batch = FALSE /\ w.verified = {0}
    BY <1>0, <1>2 DEF Covers
  <2>7. Checked(v)
    BY <2>3, <2>4, <2>6 DEF Checked, Over, Busy
  <2>8. EachOnce(v, g)
    BY <2>4 DEF Over, EachOnce
  <2>9. Hears(v, g)
    BY <2>3, <2>4 DEF Hears, Over
  <2>10. QED
    BY <2>1, <2>3, <2>4, <2>5, <2>7, <2>8, <2>9 DEF GoesOn, WinSound, Over
<1> QED
  BY <1>1, <1>2

\* A result is heard: the window looks after the archive, or goes on at once.
LEMMA HearGoesOn ==
    ASSUME NEW g, NEW w, NEW status \in Statuses, Over(w, g), Where(w), Checked(w)
    PROVE  GoesOn(Hear(w, status), "chain", g)
<1>1. ASSUME status = "ok"
      PROVE  GoesOn(Hear(w, status), "chain", g)
  <2> PICK v : v = [w EXCEPT !.finishing = TRUE]
    OBVIOUS
  <2>1. Hear(w, status) = v
    BY <1>1 DEF Hear
  <2>2. v \in WinType /\ v.finishing = TRUE
    BY DEF WinType, Over
  <2>3. /\ v.batch = w.batch /\ v.call = w.call /\ v.index = w.index /\ v.starting = w.starting
        /\ v.phase = w.phase /\ v.buffer = w.buffer /\ v.verified = w.verified
        /\ v.reply = w.reply /\ v.jobId = w.jobId /\ v.issue = w.issue
    BY DEF WinType, Over
  <2>4. Where(v)
    BY <2>2, <2>3 DEF Where, Over
  <2>5. Checked(v)
    BY <2>2, <2>3 DEF Checked, Over, Busy
  <2>6. EachOnce(v, g)
    BY <2>3 DEF Over, EachOnce
  <2>7. Hears(v, g)
    BY <2>2, <2>3 DEF Hears, Over
  <2>8. QED
    BY <2>1, <2>2, <2>3, <2>4, <2>5, <2>6, <2>7 DEF GoesOn, WinSound, Over
<1>2. ASSUME status # "ok"
      PROVE  GoesOn(Hear(w, status), "chain", g)
  <2>1. Hear(w, status) = Conclude(w, status) /\ Covers(w, status)
    BY <1>2 DEF Hear, Covers
  <2>2. QED
    BY <2>1, ConcludeGoesOn
<1> QED
  BY <1>1, <1>2

\* The job is registered; its result may have come before its number.
LEMMA StartedGoesOn ==
    ASSUME NEW g, NEW w, WinSound(w, g), w.call = "replied", w.reply # None
    PROVE  GoesOn(Started(w), "chain", g)
<1> PICK u : u = [w EXCEPT !.jobId = w.reply, !.call = "none", !.starting = FALSE,
                           !.phase = "running", !.result = "none"]
  OBVIOUS
<1> PICK v : v = [u EXCEPT !.buffer = {}, !.others = 0]
  OBVIOUS
<1> PICK mine : mine = {e \in u.buffer : e.id = u.jobId}
  OBVIOUS
<1>0. w \in WinType /\ w.starting = TRUE /\ w.finishing = FALSE
  BY DEF WinSound, Where, WinType
<1>1. Started(w) = IF mine = {} THEN v ELSE Hear(v, (CHOOSE e \in mine : TRUE).status)
  BY DEF Started, Drain
<1>t. /\ w.reply \in Jobs /\ "none" \in Steps /\ "running" \in Phases /\ "none" \in Results
      /\ 0 \in Counts /\ {} \in Buffers
  BY <1>0, WindowAssumption DEF WinType, Steps, Phases, Results, Counts, Buffers
<1>2. /\ u \in WinType /\ u.jobId = w.reply /\ u.call = "none" /\ u.starting = FALSE
      /\ u.phase = "running"
  BY <1>0, <1>t DEF WinType
<1>3. /\ u.buffer = w.buffer /\ u.batch = w.batch /\ u.index = w.index /\ u.issue = w.issue
      /\ u.finishing = w.finishing /\ u.verified = w.verified /\ u.reply = w.reply
  BY <1>0 DEF WinType
<1>4. v \in WinType /\ v.buffer = {}
  BY <1>2, <1>t DEF WinType
<1>5. /\ v.jobId = w.reply /\ v.call = "none" /\ v.starting = FALSE /\ v.phase = "running"
      /\ v.batch = w.batch /\ v.index = w.index /\ v.issue = w.issue
      /\ v.finishing = FALSE /\ v.verified = w.verified /\ v.reply = w.reply
  BY <1>0, <1>2, <1>3 DEF WinType
<1>6. Where(v)
  BY <1>4, <1>5 DEF Where
<1>7. Checked(v)
  BY <1>0, <1>4, <1>5 DEF Checked, Busy, WinSound
<1>8. EachOnce(v, g)
  BY <1>4, <1>5 DEF EachOnce, WinSound
<1>9. mine = {e \in w.buffer : e.id = w.reply}
  BY <1>2, <1>3
<1>10. ASSUME mine = {}
       PROVE  GoesOn(Started(w), "chain", g)
  <2>1. w.reply \in g.lost \/ Pending(w.reply, g)
    BY <1>9, <1>10 DEF WinSound, Hears
  <2>2. Hears(v, g)
    BY <2>1, <1>5 DEF Hears
  <2>3. QED
    BY <1>1, <1>4, <1>5, <1>6, <1>7, <1>8, <1>10, <2>2 DEF GoesOn, WinSound
<1>11. ASSUME mine # {}
       PROVE  GoesOn(Started(w), "chain", g)
  <2> PICK e : e = CHOOSE x \in mine : TRUE
    OBVIOUS
  <2>1. e \in mine
    BY <1>11
  <2>2. e \in w.buffer /\ e.id = w.reply
    BY <1>9, <2>1
  <2>3. e \in Events
    BY <1>0, <2>2 DEF WinType, Buffers
  <2>4. e.status \in Statuses
    BY <2>3 DEF Events
  <2>5. ~Pending(w.reply, g)
    BY <2>2 DEF Pending, WinSound, EachOnce
  <2>6. Over(v, g)
    BY <1>4, <1>5, <1>7, <1>8, <2>5 DEF Over, Checked
  <2>7. Started(w) = Hear(v, e.status)
    BY <1>1, <1>11
  <2>8. QED
    BY <1>6, <1>7, <2>4, <2>6, <2>7, HearGoesOn
<1> QED
  BY <1>10, <1>11

\* The job has not been registered: the batch goes on, or the form is back.
LEMMA NotStartedGoesOn ==
    ASSUME NEW g, NEW w, WinSound(w, g), w.call = "replied"
    PROVE  GoesOn(NotStarted(w), w.who, g)
<1>0. /\ w \in WinType /\ w.starting = TRUE /\ w.finishing = FALSE /\ w.jobId = None
      /\ w.phase # "done" /\ w.item \in BOOLEAN /\ w.batch \in BOOLEAN
  BY DEF WinSound, Where, WinType
<1>t. "none" \in Steps
  BY DEF Steps
<1>1. ASSUME w.item = TRUE
      PROVE  GoesOn(NotStarted(w), w.who, g)
  <2> PICK u : u = [w EXCEPT !.issue = TRUE, !.call = "none"]
    OBVIOUS
  <2>1. NotStarted(w) = NextItem(u, w.who)
    BY <1>1 DEF NotStarted
  <2>2. u \in WinType /\ u.issue = TRUE /\ u.call = "none"
    BY <1>0, <1>t DEF WinType
  <2>3. /\ u.phase = w.phase /\ u.batch = w.batch /\ u.index = w.index
        /\ u.finishing = w.finishing /\ u.buffer = w.buffer /\ u.verified = w.verified
        /\ u.reply = w.reply /\ u.jobId = w.jobId
    BY <1>0 DEF WinType
  <2>4. EachOnce(u, g)
    BY <2>3 DEF WinSound, EachOnce
  <2>5. w.batch = TRUE
    BY <1>1 DEF WinSound, Checked
  <2>6. Between(u, g)
    BY <1>0, <2>2, <2>3, <2>4, <2>5 DEF Between
  <2>7. w.who \in Starters
    BY <1>0 DEF WinType
  <2>8. QED
    BY <2>1, <2>6, <2>7, NextItemGoesOn
<1>2. ASSUME w.item = FALSE
      PROVE  GoesOn(NotStarted(w), w.who, g)
  <2> PICK v : v = [w EXCEPT !.starting = FALSE, !.call = "none"]
    OBVIOUS
  <2>1. NotStarted(w) = v
    BY <1>2 DEF NotStarted
  <2>2. v \in WinType /\ v.starting = FALSE /\ v.call = "none"
    BY <1>0, <1>t DEF WinType
  <2>3. /\ v.phase = w.phase /\ v.batch = w.batch /\ v.index = w.index
        /\ v.finishing = w.finishing /\ v.buffer = w.buffer /\ v.verified = w.verified
        /\ v.reply = w.reply /\ v.jobId = w.jobId
    BY <1>0 DEF WinType
  <2>4. w.phase = "form"
    BY <1>0, <1>2 DEF WinSound, Where, WinType, Phases
  <2>5. w.batch = FALSE
    BY <1>0, <1>2 DEF WinSound, Checked
  <2>6. Where(v)
    BY <1>0, <2>2, <2>3, <2>4 DEF Where
  <2>7. Checked(v)
    BY <2>2, <2>3, <2>4, <2>5 DEF WinSound, Checked, Busy
  <2>8. EachOnce(v, g)
    BY <2>3 DEF WinSound, EachOnce
  <2>9. Hears(v, g)
    BY <1>0, <2>2, <2>3, <2>4 DEF Hears
  <2>10. QED
    BY <2>1, <2>2, <2>6, <2>7, <2>8, <2>9 DEF GoesOn, WinSound
<1> QED
  BY <1>0, <1>1, <1>2

-----------------------------------------------------------------------------
(***************************************************************************)
(* What the window makes of a request, and of the user's start.            *)
(***************************************************************************)
\* The form without a job, whatever it says of a batch.
Bare(w, g) ==
    /\ w \in WinType /\ EachOnce(w, g)
    /\ w.phase = "form" /\ w.finishing = FALSE /\ w.jobId = None

\* The window v has sent a job for who.
Begun(v, who, g) == WinSound(v, g) /\ v.starting = TRUE /\ v.who = who

\* The form is reset when no job is under way.
LEMMA ResetBare ==
    ASSUME NEW g, NEW w, WinSound(w, g), ~Busy(w)
    PROVE  /\ Bare(ResetForm(w), g)
           /\ ResetForm(w).starting = FALSE /\ ResetForm(w).call = "none"
<1> PICK v : v = [w EXCEPT !.phase = "form", !.inputs = {}, !.output = None, !.result = "none",
                           !.jobId = None, !.buffer = {}, !.others = 0]
  OBVIOUS
<1>0. w \in WinType /\ w.starting = FALSE /\ w.finishing = FALSE /\ w.call = "none"
  BY DEF WinSound, Where, WinType, Busy
<1>t. /\ "form" \in Phases /\ {} \in Inputs /\ None \in Outputs /\ "none" \in Results
      /\ None \in Jobs /\ {} \in Buffers /\ 0 \in Counts
  BY WindowAssumption DEF Phases, Inputs, Outputs, None, Results, Jobs, Buffers, Counts
<1>1. v \in WinType /\ v.phase = "form" /\ v.jobId = None /\ v.buffer = {}
  BY <1>0, <1>t DEF WinType
<1>2. v.finishing = FALSE /\ v.starting = FALSE /\ v.call = "none" /\ v.reply = w.reply
  BY <1>0 DEF WinType
<1>3. EachOnce(v, g)
  BY <1>0, <1>1, <1>2 DEF WinSound, EachOnce, None, WinType, Jobs
<1> QED
  BY <1>1, <1>2, <1>3 DEF Bare, ResetForm

\* What RunItem makes of a window is one.
LEMMA ItemCalled ==
    ASSUME NEW u \in WinType, NEW who \in Starters
    PROVE  [u EXCEPT !.jobId = None, !.starting = TRUE, !.call = "sent", !.who = who,
                     !.item = TRUE, !.target = None] \in WinType
<1>1. None \in Jobs /\ "sent" \in Steps /\ None \in Outputs
  BY WindowAssumption DEF Jobs, None, Steps, Outputs
<1>2. QED
  BY <1>1 DEF WinType

\* A batch begins in the form.
LEMMA BatchBegun ==
    ASSUME NEW g, NEW w, NEW who \in Starters, Bare(w, g)
    PROVE  Begun(BatchFrom(w, who), who, g)
<1> PICK u : u = [w EXCEPT !.batch = TRUE, !.index = 0, !.issue = FALSE, !.verified = {}]
  OBVIOUS
<1> PICK v : v = [u EXCEPT !.jobId = None, !.starting = TRUE, !.call = "sent", !.who = who,
                           !.item = TRUE, !.target = None]
  OBVIOUS
<1>0. w \in WinType
  BY DEF Bare
<1>t. 0 \in Items /\ {} \in Sets /\ None \in Jobs /\ "sent" \in Steps /\ None \in Outputs
  BY WindowAssumption DEF Items, Sets, Jobs, None, Steps, Outputs
<1>1. /\ u \in WinType /\ u.batch = TRUE /\ u.index = 0 /\ u.issue = FALSE /\ u.verified = {}
      /\ u.phase = w.phase /\ u.finishing = w.finishing /\ u.buffer = w.buffer
      /\ u.reply = w.reply
  BY <1>0, <1>t DEF WinType
<1>2. /\ v \in WinType /\ v.jobId = None /\ v.starting = TRUE /\ v.call = "sent"
      /\ v.who = who /\ v.item = TRUE
  <2>1. v \in WinType
    BY <1>1, ItemCalled
  <2>2. QED
    BY <1>1, <2>1 DEF WinType
<1>3. /\ v.batch = TRUE /\ v.index = 0 /\ v.issue = FALSE /\ v.verified = {}
      /\ v.phase = w.phase /\ v.finishing = w.finishing /\ v.buffer = w.buffer
      /\ v.reply = w.reply
  BY <1>1 DEF WinType
<1>4. Where(v)
  BY <1>2, <1>3 DEF Where, Bare
<1>5. Checked(v)
  <2>1. {} = 0 .. 0 - 1
    OBVIOUS
  <2>2. QED
    BY <1>2, <1>3, <2>1 DEF Checked, Bare
<1>6. EachOnce(v, g)
  BY <1>2, <1>3 DEF EachOnce, Bare
<1>7. Hears(v, g)
  BY <1>2, <1>3 DEF Hears
<1> QED
  BY <1>2, <1>4, <1>5, <1>6, <1>7 DEF Begun, WinSound, BatchFrom, RunItem

\* A single archive begins in the form.
LEMMA OneBegun ==
    ASSUME NEW g, NEW w, NEW who \in Starters, NEW target \in Outputs,
           WinSound(w, g), w.phase = "form", w.starting = FALSE
    PROVE  Begun(StartOne(w, who, target), who, g)
<1> PICK v : v = [w EXCEPT !.starting = TRUE, !.call = "sent", !.who = who, !.item = FALSE,
                           !.target = target, !.verified = {}]
  OBVIOUS
<1>0. w \in WinType /\ w.finishing = FALSE /\ w.jobId = None /\ w.call = "none"
  BY DEF WinSound, Where, WinType
<1>t. "sent" \in Steps /\ {} \in Sets
  BY DEF Steps, Sets
<1>1. /\ v \in WinType /\ v.starting = TRUE /\ v.call = "sent" /\ v.who = who
      /\ v.item = FALSE /\ v.verified = {}
  BY <1>0, <1>t DEF WinType
<1>2. /\ v.phase = w.phase /\ v.finishing = w.finishing /\ v.jobId = w.jobId
      /\ v.batch = w.batch /\ v.index = w.index /\ v.buffer = w.buffer /\ v.reply = w.reply
  BY <1>0 DEF WinType
<1>3. w.batch = FALSE /\ w.index = 0
  BY <1>0 DEF WinSound, Checked
<1>4. Where(v)
  BY <1>0, <1>1, <1>2 DEF Where
<1>5. Checked(v)
  BY <1>1, <1>2, <1>3 DEF Checked
<1>6. EachOnce(v, g)
  BY <1>2 DEF EachOnce, WinSound
<1>7. Hears(v, g)
  BY <1>0, <1>1, <1>2 DEF Hears
<1> QED
  BY <1>1, <1>4, <1>5, <1>6, <1>7 DEF Begun, WinSound, StartOne

\* The window shows the form and no job is under way.
Filled(v, g) == WinSound(v, g) /\ v.phase = "form" /\ v.starting = FALSE

\* The inputs of a request come into the form.
LEMMA FormFilled ==
    ASSUME NEW g, NEW w, NEW r \in Requests, Bare(w, g), w.starting = FALSE, w.call = "none"
    PROVE  Filled([w EXCEPT !.issue = FALSE, !.batch = FALSE, !.index = 0,
                            !.inputs = @ \cup {r}], g)
<1> PICK in : in = w.inputs \cup {r}
  OBVIOUS
<1> PICK v : v = [w EXCEPT !.issue = FALSE, !.batch = FALSE, !.index = 0, !.inputs = in]
  OBVIOUS
<1>0. w \in WinType
  BY DEF Bare
<1>t. 0 \in Items /\ in \in Inputs
  BY <1>0, WindowAssumption DEF Items, Inputs, WinType
<1>1. v \in WinType /\ v.batch = FALSE /\ v.index = 0
  BY <1>0, <1>t DEF WinType
<1>2. /\ v.phase = "form" /\ v.finishing = FALSE /\ v.jobId = None /\ v.starting = FALSE
      /\ v.call = "none" /\ v.buffer = w.buffer /\ v.reply = w.reply
  BY <1>0 DEF WinType, Bare
<1>3. Where(v)
  BY <1>2 DEF Where
<1>4. Checked(v)
  BY <1>1, <1>2 DEF Checked
<1>5. EachOnce(v, g)
  BY <1>2 DEF EachOnce, Bare
<1>6. Hears(v, g)
  BY <1>2 DEF Hears
<1>7. v = [w EXCEPT !.issue = FALSE, !.batch = FALSE, !.index = 0, !.inputs = @ \cup {r}]
  OBVIOUS
<1> QED
  BY <1>1, <1>2, <1>3, <1>4, <1>5, <1>6, <1>7 DEF Filled, WinSound

\* Its name is filled in.
LEMMA OutputFilled ==
    ASSUME NEW g, NEW w, NEW r \in Requests, Filled(w, g)
    PROVE  Filled([w EXCEPT !.output = r], g)
<1> PICK v : v = [w EXCEPT !.output = r]
  OBVIOUS
<1>0. w \in WinType /\ r \in Outputs
  BY DEF Filled, WinSound, Outputs
<1>1. v \in WinType
  BY <1>0 DEF WinType
<1>2. /\ v.phase = w.phase /\ v.finishing = w.finishing /\ v.jobId = w.jobId
      /\ v.starting = w.starting /\ v.call = w.call /\ v.buffer = w.buffer
      /\ v.reply = w.reply /\ v.batch = w.batch /\ v.index = w.index
      /\ v.item = w.item /\ v.issue = w.issue /\ v.verified = w.verified
      /\ v.who = w.who /\ v.result = w.result
  BY <1>0 DEF WinType
<1>3. Where(v) /\ Checked(v) /\ EachOnce(v, g)
  BY <1>2 DEF Filled, WinSound, Where, Checked, EachOnce, Busy
<1>4. Hears(v, g)
  BY <1>2 DEF Filled, WinSound, Hears
<1> QED
  BY <1>1, <1>2, <1>3, <1>4 DEF Filled, WinSound

\* A request is in the form, or its job has been sent.
LEMMA PlanRuns ==
    ASSUME NEW g, NEW w, NEW r \in Requests, NEW reset \in BOOLEAN,
           WinSound(w, g), ~Busy(w), Kind[r] # "empty", Standalone(r) => reset = TRUE,
           w.phase = "done" => reset = TRUE
    PROVE  /\ Kind[r] = "form" => Filled(RunPlan(w, r, reset), g)
           /\ Kind[r] # "form" => Begun(RunPlan(w, r, reset), "coord", g)
<1> PICK v : v = IF reset THEN ResetForm(w) ELSE w
  OBVIOUS
<1> PICK f : f = [v EXCEPT !.issue = FALSE, !.batch = FALSE, !.index = 0,
                           !.inputs = @ \cup {r}]
  OBVIOUS
<1>0. w \in WinType /\ w.starting = FALSE /\ w.finishing = FALSE /\ w.call = "none"
  BY DEF WinSound, Where, WinType, Busy
<1>1. Bare(v, g) /\ v.starting = FALSE /\ v.call = "none"
  <2>1. CASE reset = TRUE
    BY <2>1, ResetBare
  <2>2. CASE reset = FALSE
    <3>1. w.phase = "form"
      BY <1>0, <2>2 DEF Busy, WinType, Phases
    <3>2. Bare(w, g)
      BY <1>0, <3>1 DEF Bare, WinSound, Where
    <3>3. QED
      BY <1>0, <2>2, <3>2
  <2>3. QED
    BY <2>1, <2>2
<1>2. Filled(f, g)
  BY <1>1, FormFilled
<1>3. Kind[r] \in {"form", "auto", "batch"}
  BY WindowAssumption
<1>4. "coord" \in Starters /\ r \in Outputs
  BY DEF Starters, Outputs
<1>5. CASE Kind[r] = "form"
  <2>1. RunPlan(w, r, reset) = f
    BY <1>5 DEF RunPlan
  <2>2. QED
    BY <1>2, <1>5, <2>1
<1>6. CASE Kind[r] = "auto"
  <2>1. RunPlan(w, r, reset) = StartOne([f EXCEPT !.output = r], "coord", r)
    BY <1>6 DEF RunPlan
  <2>2. Filled([f EXCEPT !.output = r], g)
    BY <1>2, OutputFilled
  <2>3. Begun(StartOne([f EXCEPT !.output = r], "coord", r), "coord", g)
    BY <1>4, <2>2, OneBegun DEF Filled
  <2>4. QED
    BY <1>6, <2>1, <2>3
<1>7. CASE Kind[r] = "batch"
  <2>1. RunPlan(w, r, reset) = BatchFrom(v, "coord")
    BY <1>7 DEF RunPlan
  <2>2. QED
    BY <1>1, <1>4, <1>7, <2>1, BatchBegun
<1> QED
  BY <1>3, <1>5, <1>6, <1>7

-----------------------------------------------------------------------------
(***************************************************************************)
(* What the coordinator makes of itself and the window.                    *)
(***************************************************************************)
\* t is s with the coordinator at a.
Placed(t, s, a) ==
    /\ t \in States /\ t.w = s.w /\ t.c.at = a /\ t.c.answer.served = FALSE
    /\ t.c.signalEpoch = s.c.signalEpoch /\ t.c.seenEpoch = s.c.seenEpoch
    /\ t.c.epoch = s.c.epoch /\ t.c.more = s.c.more /\ t.c.held = s.c.held
    /\ t.c.stage = s.c.stage /\ t.c.reset = s.c.reset
    /\ t.c.blocked = s.c.blocked /\ t.c.failed = s.c.failed

LEMMA AtPlaces ==
    ASSUME NEW s \in States, NEW a \in Places
    PROVE  Placed(At(s, a), s, a)
<1> PICK d : d = [s.c EXCEPT !.at = a]
  OBVIOUS
<1> PICK e : e = [d EXCEPT !.answer = NoAnswer]
  OBVIOUS
<1> PICK t : t = [s EXCEPT !.c = e]
  OBVIOUS
<1>0. s.c \in CoType /\ s.w \in WinType /\ NoAnswer \in Answers /\ NoAnswer.served = FALSE
  BY DEF States, NoAnswer, Answers, Outputs
<1>1. d \in CoType /\ e \in CoType
  BY <1>0 DEF CoType
<1>2. t \in States /\ t.c = e /\ t.w = s.w
  BY <1>0, <1>1 DEF States
<1>3. /\ e.at = a /\ e.answer = NoAnswer
      /\ e.signalEpoch = s.c.signalEpoch /\ e.seenEpoch = s.c.seenEpoch
      /\ e.epoch = s.c.epoch /\ e.more = s.c.more /\ e.held = s.c.held
      /\ e.stage = s.c.stage /\ e.reset = s.c.reset
      /\ e.blocked = s.c.blocked /\ e.failed = s.c.failed
  BY <1>0 DEF CoType
<1>4. At(s, a) = t
  BY <1>0 DEF At, States
<1> QED
  BY <1>0, <1>2, <1>3, <1>4 DEF Placed

\* The coordinator remembers, and the window is not in its hands.
Calm(s, q, g) ==
    /\ s \in States /\ Remembers(s.c, q) /\ WinSound(s.w, g)
    /\ ~(s.w.starting = TRUE /\ s.w.who = "coord")

\* What the coordinator may be placed at.
MayBeAt(s, a) ==
    /\ a \in {"peek", "lease"} => s.c.held = None /\ HasWork(s.c)
    /\ a = "dispatch" =>
          /\ s.c.held # None /\ s.c.stage = "leased" /\ Kind[s.c.held] # "empty"
          /\ Standalone(s.c.held) \/ s.w.phase = "done" => s.c.reset = TRUE
    /\ a \in {"peek", "lease", "dispatch"} => ~Busy(s.w)
    /\ a = "ack" => s.c.held # None /\ s.c.stage = "applied"
    /\ s.c.stage = "dispatched" =>
          s.c.held # None /\ Standalone(s.c.held) /\ s.c.reset = TRUE

LEMMA PlacedSound ==
    ASSUME NEW q, NEW g, NEW s, NEW t, NEW a \in Places \ {"apply"},
           Calm(s, q, g), MayBeAt(s, a), Placed(t, s, a)
    PROVE  Sound(t, q, g)
<1>1. CoSound(t.c, q)
  <2>1. t.c \in CoType
    BY DEF Placed, States
  <2>2. Remembers(t.c, q)
    BY DEF Placed, Calm, Remembers
  <2>3. Asks(t.c, q)
    BY DEF Placed, MayBeAt, Asks, HasWork
  <2>4. QED
    BY <2>1, <2>2, <2>3 DEF CoSound
<1>2. WinSound(t.w, g)
  BY DEF Placed, Calm
<1>3. Waits(t.c, t.w)
  BY DEF Placed, Calm, MayBeAt, Waits
<1> QED
  BY <1>1, <1>2, <1>3 DEF Sound, Placed

\* At the end of a stretch the coordinator has gone as far as it could.
Settled(t, q, g) == Sound(t, q, g) /\ Rested(t.c, t.w)

LEMMA AtSettles ==
    ASSUME NEW q, NEW g, NEW s, NEW a \in Places \ {"apply", "idle"},
           Calm(s, q, g), MayBeAt(s, a)
    PROVE  Settled(At(s, a), q, g)
<1>1. Placed(At(s, a), s, a)
  BY AtPlaces DEF Calm
<1>2. Sound(At(s, a), q, g)
  BY <1>1, PlacedSound
<1> QED
  BY <1>1, <1>2 DEF Settled, Rested, Placed

\* t is s but for the marks of the coordinator that make it stop.
Marked(t, s) ==
    /\ t \in States /\ t.w = s.w /\ t.c.at = s.c.at /\ t.c.answer = s.c.answer
    /\ t.c.signalEpoch = s.c.signalEpoch /\ t.c.seenEpoch = s.c.seenEpoch
    /\ t.c.epoch = s.c.epoch /\ t.c.more = s.c.more /\ t.c.held = s.c.held
    /\ t.c.stage = s.c.stage /\ t.c.reset = s.c.reset

LEMMA MarkedSound ==
    ASSUME NEW q, NEW g, NEW s, NEW t, Sound(s, q, g), Marked(t, s)
    PROVE  Sound(t, q, g)
<1>1. t.c \in CoType
  BY DEF Marked, States
<1>2. Remembers(t.c, q) /\ Asks(t.c, q)
  BY DEF Marked, Sound, CoSound, Remembers, Asks, HasWork
<1>3. Waits(t.c, t.w) /\ WinSound(t.w, g)
  BY DEF Marked, Sound, Waits
<1> QED
  BY <1>1, <1>2, <1>3 DEF Marked, Sound, CoSound

\* The coordinator stops until something changes.
LEMMA StopSettles ==
    ASSUME NEW q, NEW g, NEW s, Calm(s, q, g), MayBeAt(s, "idle")
    PROVE  Settled(Block(s), q, g) /\ Settled(Fail(s), q, g)
<1> PICK t : t = At(s, "idle")
  OBVIOUS
<1> PICK b : b = [t EXCEPT !.c.blocked = TRUE]
  OBVIOUS
<1> PICK f : f = [t EXCEPT !.c.failed = TRUE]
  OBVIOUS
<1>0. "idle" \in Places \ {"apply"}
  BY DEF Places
<1>1. Placed(t, s, "idle")
  BY <1>0, AtPlaces DEF Calm
<1>2. Sound(t, q, g)
  BY <1>0, <1>1, PlacedSound
<1>3. t \in States /\ t.c \in CoType
  BY <1>1 DEF Placed, States
<1>4. Marked(b, t) /\ b.c.blocked = TRUE
  BY <1>3 DEF Marked, States, CoType
<1>5. Marked(f, t) /\ f.c.failed = TRUE
  BY <1>3 DEF Marked, States, CoType
<1>6. Settled(b, q, g)
  BY <1>2, <1>4, MarkedSound DEF Settled, Rested
<1>7. Settled(f, q, g)
  BY <1>2, <1>5, MarkedSound DEF Settled, Rested
<1> QED
  BY <1>6, <1>7 DEF Block, Fail

\* The coordinator without a request asks for one.
LEMMA LookSettles ==
    ASSUME NEW q, NEW g, NEW s, Calm(s, q, g), ~Busy(s.w), s.c.held = None, HasWork(s.c)
    PROVE  Settled(Look(s), q, g)
<1> PICK u : u = [s EXCEPT !.c.epoch = s.c.signalEpoch]
  OBVIOUS
<1> PICK a : a = IF Dirty(s.w) THEN "peek" ELSE "lease"
  OBVIOUS
<1>0. s \in States /\ s.c \in CoType
  BY DEF Calm, States
<1>1. /\ u \in States /\ u.w = s.w
      /\ u.c.epoch = s.c.signalEpoch /\ u.c.signalEpoch = s.c.signalEpoch
      /\ u.c.seenEpoch = s.c.seenEpoch /\ u.c.more = s.c.more /\ u.c.held = s.c.held
      /\ u.c.stage = s.c.stage
  BY <1>0 DEF States, CoType
<1>2. Remembers(u.c, q)
  BY <1>0, <1>1 DEF Remembers, Calm, CoType
<1>3. Calm(u, q, g)
  BY <1>1, <1>2 DEF Calm
<1>4. s.c.stage = "leased"
  BY DEF Calm, Remembers
<1>5. a \in {"peek", "lease"} /\ a \in Places \ {"apply", "idle"}
  BY DEF Places, Calls
<1>6. MayBeAt(u, a)
  BY <1>1, <1>4, <1>5 DEF MayBeAt, HasWork
<1>7. Settled(At(u, a), q, g)
  BY <1>3, <1>5, <1>6, AtSettles
<1> QED
  BY <1>7 DEF Look

\* t is s with the request dealt with up to the stage.
IsStaged(t, s, stage) ==
    /\ t \in States /\ t.w = s.w /\ t.c.stage = stage
    /\ t.c.signalEpoch = s.c.signalEpoch /\ t.c.seenEpoch = s.c.seenEpoch
    /\ t.c.epoch = s.c.epoch /\ t.c.more = s.c.more /\ t.c.held = s.c.held
    /\ t.c.reset = s.c.reset

LEMMA StagedIs ==
    ASSUME NEW s \in States, NEW stage \in Stages
    PROVE  IsStaged(Staged(s, stage), s, stage)
<1> PICK t : t = [s EXCEPT !.c.stage = stage]
  OBVIOUS
<1>1. s.c \in CoType
  BY DEF States
<1>2. IsStaged(t, s, stage)
  BY <1>1 DEF IsStaged, States, CoType
<1> QED
  BY <1>2 DEF Staged

\* The request that is held is looked at.
LEMMA PlanSettles ==
    ASSUME NEW q, NEW g, NEW s,
           Calm(s, q, g), ~Busy(s.w), s.c.held # None, s.c.stage = "leased"
    PROVE  Settled(Plan(s), q, g)
<1> PICK r : r = s.c.held
  OBVIOUS
<1>0. s \in States /\ s.c \in CoType
  BY DEF Calm, States
<1>1. MayBeAt(s, "idle")
  BY DEF MayBeAt
<1>2. ASSUME Kind[r] = "empty"
      PROVE  Settled(Plan(s), q, g)
  <2> PICK u : u = Staged(s, "applied")
    OBVIOUS
  <2>1. Plan(s) = At(u, "ack")
    BY <1>2 DEF Plan, Standalone
  <2>2. "applied" \in Stages /\ "ack" \in Places \ {"apply", "idle"}
    BY DEF Stages, Places, Calls
  <2>3. IsStaged(u, s, "applied")
    BY <1>0, <2>2, StagedIs
  <2>4. Remembers(u.c, q)
    BY <2>3 DEF Remembers, Calm, IsStaged
  <2>5. Calm(u, q, g)
    BY <2>3, <2>4 DEF Calm, IsStaged
  <2>6. MayBeAt(u, "ack")
    BY <2>3 DEF MayBeAt, IsStaged
  <2>7. QED
    BY <2>1, <2>2, <2>5, <2>6, AtSettles
<1>3. ASSUME Kind[r] # "empty", Standalone(r), Dirty(s.w)
      PROVE  Settled(Plan(s), q, g)
  <2>1. Plan(s) = Block(s)
    BY <1>3 DEF Plan
  <2>2. QED
    BY <1>1, <2>1, StopSettles
<1>4. ASSUME Kind[r] # "empty", ~(Standalone(r) /\ Dirty(s.w))
      PROVE  Settled(Plan(s), q, g)
  <2> PICK b : b = (Standalone(r) \/ s.w.phase = "done")
    OBVIOUS
  <2> PICK u : u = [s EXCEPT !.c.reset = b]
    OBVIOUS
  <2>0. b \in BOOLEAN
    BY DEF Standalone
  <2>1. Plan(s) = At(u, "dispatch")
    BY <1>4 DEF Plan
  <2>2. "dispatch" \in Places \ {"apply", "idle"}
    BY DEF Places, Calls
  <2>3. /\ u \in States /\ u.w = s.w /\ u.c.reset = b
        /\ u.c.signalEpoch = s.c.signalEpoch /\ u.c.seenEpoch = s.c.seenEpoch
        /\ u.c.epoch = s.c.epoch /\ u.c.more = s.c.more /\ u.c.held = s.c.held
        /\ u.c.stage = s.c.stage
    BY <1>0, <2>0 DEF States, CoType
  <2>4. Remembers(u.c, q)
    BY <2>3 DEF Remembers, Calm
  <2>5. Calm(u, q, g)
    BY <2>3, <2>4 DEF Calm
  <2>6. MayBeAt(u, "dispatch")
    BY <1>4, <2>3 DEF MayBeAt
  <2>7. QED
    BY <2>1, <2>2, <2>5, <2>6, AtSettles
<1> QED
  BY <1>2, <1>3, <1>4

\* The request that is held is applied.
LEMMA ApplySettles ==
    ASSUME NEW q, NEW g, NEW s,
           Calm(s, q, g), ~Busy(s.w), s.c.held # None, s.c.stage = "dispatched",
           Kind[s.c.held] # "empty",
           Standalone(s.c.held) \/ s.w.phase = "done" => s.c.reset = TRUE
    PROVE  Settled(Apply(s), q, g)
<1> PICK r : r = s.c.held
  OBVIOUS
<1> PICK v : v = RunPlan(s.w, r, s.c.reset)
  OBVIOUS
<1> PICK t : t = [s EXCEPT !.w = v]
  OBVIOUS
<1>0. s \in States /\ s.c \in CoType /\ r \in Requests /\ s.c.reset \in BOOLEAN
  BY DEF Calm, States, CoType, Outputs
<1>1. /\ Kind[r] = "form" => Filled(v, g)
      /\ Kind[r] # "form" => Begun(v, "coord", g)
  <2>1. /\ WinSound(s.w, g) /\ (Standalone(r) => s.c.reset = TRUE)
        /\ s.w.phase = "done" => s.c.reset = TRUE
    BY DEF Calm
  <2>2. QED
    BY <1>0, <2>1, PlanRuns
<1>2. v \in WinType /\ WinSound(v, g)
  BY <1>1 DEF Filled, Begun, WinSound
<1>3. t \in States /\ t.w = v /\ t.c = s.c
  BY <1>0, <1>2 DEF States
<1>4. Remembers(t.c, q)
  BY <1>3 DEF Calm
<1>5. ASSUME Kind[r] = "form"
      PROVE  Settled(Apply(s), q, g)
  <2> PICK u : u = Staged(t, "applied")
    OBVIOUS
  <2>1. Apply(s) = At(u, "ack")
    BY <1>5 DEF Apply
  <2>2. "applied" \in Stages /\ "ack" \in Places \ {"apply", "idle"}
    BY DEF Stages, Places, Calls
  <2>3. IsStaged(u, t, "applied")
    BY <1>3, <2>2, StagedIs
  <2>4. Remembers(u.c, q)
    BY <1>3, <1>4, <2>3 DEF Remembers, IsStaged
  <2>5. Calm(u, q, g)
    BY <1>1, <1>3, <1>5, <2>3, <2>4 DEF Calm, IsStaged, Filled
  <2>6. MayBeAt(u, "ack")
    BY <1>3, <2>3 DEF MayBeAt, IsStaged
  <2>7. QED
    BY <2>1, <2>2, <2>5, <2>6, AtSettles
<1>6. ASSUME Kind[r] # "form"
      PROVE  Settled(Apply(s), q, g)
  <2> PICK x : x = At(t, "apply")
    OBVIOUS
  <2>1. Apply(s) = x
    BY <1>6 DEF Apply
  <2>2. Placed(x, t, "apply")
    BY <1>3, AtPlaces DEF Places
  <2>3. Standalone(r)
    BY <1>0, <1>6, WindowAssumption DEF Standalone
  <2>4. Remembers(x.c, q)
    BY <1>4, <2>2 DEF Remembers, Placed
  <2>5. Asks(x.c, q)
    BY <1>3, <2>2, <2>3 DEF Asks, Placed
  <2>6. CoSound(x.c, q)
    BY <2>2, <2>4, <2>5 DEF CoSound, Placed, States
  <2>7. Waits(x.c, x.w)
    BY <1>1, <1>3, <1>6, <2>2 DEF Waits, Begun, Placed
  <2>8. QED
    BY <1>2, <1>3, <2>1, <2>2, <2>6, <2>7 DEF Settled, Sound, Rested, Placed
<1> QED
  BY <1>5, <1>6

\* The next stretch of the coordinator begins, if there is a reason to.
LEMMA PumpSettles ==
    ASSUME NEW q, NEW g, NEW s, Sound(s, q, g)
    PROVE  Settled(Pump(s), q, g)
<1>0. /\ s \in States /\ s.c \in CoType
      /\ CoSound(s.c, q) /\ WinSound(s.w, g) /\ Waits(s.c, s.w)
  BY DEF Sound, States
<1>1. s.c.stage \in Stages /\ s.c.blocked \in BOOLEAN /\ s.c.failed \in BOOLEAN
  BY <1>0 DEF CoType
<1>2. ASSUME ~(/\ s.c.at = "idle" /\ HasWork(s.c)
               /\ ~s.c.blocked /\ ~s.c.failed /\ ~Busy(s.w))
      PROVE  Settled(Pump(s), q, g)
  <2>1. Pump(s) = s
    BY <1>2 DEF Pump
  <2>2. Rested(s.c, s.w)
    BY <1>1, <1>2 DEF Rested
  <2>3. QED
    BY <2>1, <2>2 DEF Settled
<1>3. ASSUME s.c.at = "idle", HasWork(s.c), ~s.c.blocked, ~s.c.failed, ~Busy(s.w)
      PROVE  Settled(Pump(s), q, g)
  <2>1. Pump(s) = DoPump(s)
    BY <1>3 DEF Pump
  <2>2. Calm(s, q, g)
    BY <1>0, <1>3 DEF Calm, CoSound, Busy
  <2>3. s.c.held = None => s.c.stage = "leased"
    BY <1>0 DEF CoSound, Remembers
  <2>4. CASE s.c.held = None
    <3>1. DoPump(s) = Look(s)
      BY <2>3, <2>4 DEF DoPump
    <3>2. QED
      BY <1>3, <2>1, <2>2, <2>4, <3>1, LookSettles
  <2>5. CASE s.c.held # None /\ s.c.stage = "leased"
    <3>1. DoPump(s) = Plan(s)
      BY <2>5 DEF DoPump
    <3>2. QED
      BY <1>3, <2>1, <2>2, <2>5, <3>1, PlanSettles
  <2>6. CASE s.c.held # None /\ s.c.stage = "dispatched"
    <3>1. DoPump(s) = Apply(s)
      BY <2>6 DEF DoPump
    <3>2. Standalone(s.c.held) /\ s.c.reset = TRUE
      BY <1>0, <2>6 DEF CoSound, Asks
    <3>3. Kind[s.c.held] # "empty"
      BY <3>2 DEF Standalone
    <3>4. QED
      BY <1>3, <2>1, <2>2, <2>6, <3>1, <3>2, <3>3, ApplySettles
  <2>7. CASE s.c.held # None /\ s.c.stage = "applied"
    <3>1. DoPump(s) = At(s, "ack")
      BY <2>7 DEF DoPump
    <3>2. MayBeAt(s, "ack") /\ "ack" \in Places \ {"apply", "idle"}
      BY <2>7 DEF MayBeAt, Places, Calls
    <3>3. QED
      BY <2>1, <2>2, <3>1, <3>2, AtSettles
  <2>8. QED
    BY <1>1, <2>4, <2>5, <2>6, <2>7 DEF Stages
<1> QED
  BY <1>2, <1>3

\* Something has changed: the coordinator tries again.
LEMMA PokeSettles ==
    ASSUME NEW q, NEW g, NEW s, Sound(s, q, g)
    PROVE  Settled(Poke(s), q, g)
<1> PICK b : b = (s.c.blocked /\ Dirty(s.w))
  OBVIOUS
<1> PICK t : t = [s EXCEPT !.c.blocked = b, !.c.failed = FALSE]
  OBVIOUS
<1>1. s \in States /\ s.c \in CoType /\ b \in BOOLEAN
  BY DEF Sound, States, CoType
<1>2. Marked(t, s)
  BY <1>1 DEF Marked, States, CoType
<1>3. Settled(Pump(t), q, g)
  BY <1>2, MarkedSound, PumpSettles
<1> QED
  BY <1>3 DEF Poke

\* A stretch comes to its end, and what is left is gone on with.
LEMMA RestSettles ==
    ASSUME NEW q, NEW g, NEW s, Calm(s, q, g), MayBeAt(s, "idle")
    PROVE  Settled(Rest(s), q, g)
<1>1. "idle" \in Places \ {"apply"}
  BY DEF Places
<1>2. Placed(At(s, "idle"), s, "idle")
  BY <1>1, AtPlaces DEF Calm
<1>3. Sound(At(s, "idle"), q, g)
  BY <1>1, <1>2, PlacedSound
<1> QED
  BY <1>3, PumpSettles DEF Rest

-----------------------------------------------------------------------------
(***************************************************************************)
(* The steps.                                                              *)
(***************************************************************************)
\* A stretch that ends well keeps it.
LEMMA BecomeKeeps ==
    ASSUME NEW s, Settled(s, Queue', Registry'), initialized \in BOOLEAN, Become(s)
    PROVE  Kept' /\ initialized' \in BOOLEAN
<1> PICK ended : ended = (~initialized /\ s.c.at = "idle")
  OBVIOUS
<1> PICK t : t = IF ended THEN Poke(s) ELSE s
  OBVIOUS
<1>1. co' = t.c /\ win' = t.w /\ initialized' = (initialized \/ ended)
  BY DEF Become
<1>2. Settled(t, Queue', Registry')
  BY PokeSettles DEF Settled
<1>3. t \in States
  BY <1>2 DEF Settled, Sound
<1>4. Ui' = t
  BY <1>1, <1>3 DEF Ui, States
<1>5. Sound(Ui', Queue', Registry') /\ Rested(co', win')
  BY <1>1, <1>2, <1>4 DEF Settled
<1>6. ASSUME ~initialized'
      PROVE  co'.at # "idle"
  BY <1>1, <1>6
<1>7. QED
  BY <1>1, <1>5, <1>6 DEF Kept

\* A change of the window is told, and keeps it.
LEMMA ReactKeeps ==
    ASSUME NEW w, Sound([c |-> co, w |-> w], Queue', Registry'), initialized \in BOOLEAN,
           Rested(co, win), ~initialized => co.at # "idle", React(w)
    PROVE  Kept' /\ initialized' \in BOOLEAN
<1> PICK s : s = [c |-> co, w |-> w]
  OBVIOUS
<1> PICK told : told = (initialized /\ (Busy(w) # Busy(win) \/ Dirty(w) # Dirty(win)))
  OBVIOUS
<1>1. Become(IF told THEN Poke(s) ELSE s)
  BY DEF React
<1>2. ASSUME told
      PROVE  Kept' /\ initialized' \in BOOLEAN
  <2>1. Become(Poke(s)) /\ Settled(Poke(s), Queue', Registry')
    BY <1>1, <1>2, PokeSettles
  <2>2. QED
    BY <2>1, BecomeKeeps
<1>3. ASSUME ~told
      PROVE  Kept' /\ initialized' \in BOOLEAN
  <2>1. Become(s)
    BY <1>1, <1>3
  <2>2. s.c = co /\ s.w = w
    OBVIOUS
  <2>3. Rested(s.c, s.w)
    BY <1>3, <2>2 DEF Rested
  <2>4. Settled(s, Queue', Registry')
    BY <2>3 DEF Settled
  <2>5. QED
    BY <2>1, <2>4, BecomeKeeps
<1> QED
  BY <1>2, <1>3

\* A set of requests that is not empty has a least one.
LEMMA LeastIs ==
    ASSUME NEW S \in SUBSET Nat, S # {}
    PROVE  Min(S) \in S
<1> PICK R : R = {p \in Nat \X Nat : p[1] < p[2]}
  OBVIOUS
<1>1. R = OpToRel(<, Nat)
  BY DEF OpToRel
<1>2. IsWellFoundedOn(R, Nat)
  BY <1>1, NatLessThanWellFounded
<1>3. PICK x \in S : \A y \in S : ~(<<y, x>> \in R)
  BY <1>2, WFMin
<1>4. ASSUME NEW y \in S
      PROVE  x <= y
  <2>1. x \in Nat /\ y \in Nat /\ <<y, x>> \notin R
    BY <1>3
  <2>2. ~(y < x)
    BY <2>1
  <2>3. QED
    BY <2>1, <2>2
<1> QED
  BY <1>4 DEF Min

\* The window with other inputs is as sound as before.
LEMMA InputsSound ==
    ASSUME NEW g, NEW w, NEW in \in Inputs, WinSound(w, g)
    PROVE  /\ WinSound([w EXCEPT !.inputs = in], g)
           /\ \A c : Waits(c, w) => Waits(c, [w EXCEPT !.inputs = in])
<1> PICK v : v = [w EXCEPT !.inputs = in]
  OBVIOUS
<1>0. w \in WinType
  BY DEF WinSound
<1>1. v \in WinType
  BY <1>0 DEF WinType
<1>2. /\ v.phase = w.phase /\ v.finishing = w.finishing /\ v.jobId = w.jobId
      /\ v.starting = w.starting /\ v.call = w.call /\ v.buffer = w.buffer
      /\ v.reply = w.reply /\ v.batch = w.batch /\ v.index = w.index
      /\ v.item = w.item /\ v.issue = w.issue /\ v.verified = w.verified
      /\ v.who = w.who /\ v.result = w.result
  BY <1>0 DEF WinType
<1>3. Where(v) /\ Checked(v) /\ EachOnce(v, g)
  BY <1>2 DEF WinSound, Where, Checked, EachOnce, Busy
<1>4. Hears(v, g)
  BY <1>2 DEF WinSound, Hears
<1>5. ASSUME NEW c, Waits(c, w)
      PROVE  Waits(c, v)
  BY <1>2, <1>5 DEF Waits, Busy
<1> QED
  BY <1>1, <1>3, <1>4, <1>5 DEF WinSound

\* What IInv says of the coordinator and of the window.
LEMMA UiIs ==
    ASSUME IInv
    PROVE  /\ Ui \in States /\ Ui.c = co /\ Ui.w = win
           /\ co \in CoType /\ Remembers(co, Queue) /\ Asks(co, Queue)
           /\ WinSound(win, Registry) /\ Waits(co, win) /\ initialized \in BOOLEAN
           /\ co.at # "apply" => Calm(Ui, Queue, Registry)
<1>1. Ui.c = co /\ Ui.w = win
  BY DEF Ui
<1>2. Sound(Ui, Queue, Registry)
  BY DEF IInv, Kept
<1> QED
  BY <1>1, <1>2 DEF Sound, CoSound, States, Waits, Calm, IInv, Counted

\* The coordinator and the window change, and nothing else.
LEMMA StretchKeeps ==
    ASSUME IInv, UNCHANGED <<queueVars, jobVars>>, NEW s, Settled(s, Queue, Registry), Become(s)
    PROVE  IInv'
<1>1. Queue' = Queue /\ Registry' = Registry
  BY DEF Queue, Registry, queueVars, jobVars
<1>2. Kept' /\ initialized' \in BOOLEAN
  BY <1>1, UiIs, BecomeKeeps
<1>3. Counted'
  BY <1>2 DEF IInv, Counted, queueVars, jobVars
<1> QED
  BY <1>2, <1>3 DEF IInv

\* The window changes, and nothing else.
LEMMA WindowKeeps ==
    ASSUME IInv, UNCHANGED <<queueVars, jobVars>>,
           NEW w, WinSound(w, Registry), Waits(co, w), React(w)
    PROVE  IInv'
<1>1. Queue' = Queue /\ Registry' = Registry
  BY DEF Queue, Registry, queueVars, jobVars
<1> PICK s : s = [c |-> co, w |-> w]
  OBVIOUS
<1>2. s.c = co /\ s.w = w /\ s \in States
  BY UiIs DEF States, WinSound
<1>3. Sound(s, Queue', Registry')
  BY <1>1, <1>2, UiIs DEF Sound, CoSound
<1>4. Kept' /\ initialized' \in BOOLEAN
  BY <1>3, UiIs, ReactKeeps DEF IInv, Kept
<1>5. Counted'
  BY <1>4 DEF IInv, Counted, queueVars, jobVars
<1> QED
  BY <1>4, <1>5 DEF IInv

\* A request arrives: if the window is not signalled it has yet to ask.
LEMMA ArriveKeeps == IInv /\ Arrive => IInv'
<1> SUFFICES ASSUME IInv, Arrive PROVE IInv'
  OBVIOUS
<1> PICK q : q = Queue'
  OBVIOUS
<1>1. Registry' = Registry /\ Ui' = Ui
  BY DEF Arrive, Registry, jobVars, uiVars, Ui
<1>2. /\ q.queued = queued \cup {arrived + 1} /\ q.ready = ready /\ q.arrived = arrived + 1
      /\ q.signals = IF ready THEN signals + 1 ELSE signals
      /\ Queue.queued = queued /\ Queue.ready = ready
      /\ Queue.signals = signals /\ Queue.arrived = arrived
  BY DEF Arrive, Queue
<1>3. arrived \in Nat /\ signals \in Nat /\ ready \in BOOLEAN /\ MaxRequests \in Nat
  BY WindowAssumption DEF IInv, Counted
<1>4. Remembers(co, q)
  <2>1. co.signalEpoch \in Nat /\ co.seenEpoch \in Nat /\ Remembers(co, Queue)
    BY UiIs DEF CoType
  <2>2. CASE ready = TRUE
    BY <1>2, <1>3, <2>1, <2>2 DEF Remembers
  <2>3. CASE ready = FALSE
    BY <1>2, <1>3, <2>1, <2>3 DEF Remembers
  <2>4. QED
    BY <1>3, <2>2, <2>3
<1>5. Asks(co, q)
  <2>1. Asks(co, Queue)
    BY UiIs
  <2>2. QED
    BY <1>2, <1>3, <2>1 DEF Asks
<1>6. Sound(Ui', Queue', Registry')
  BY <1>1, <1>4, <1>5, UiIs DEF Sound, CoSound
<1>7. Kept'
  BY <1>6 DEF IInv, Kept, Arrive, uiVars
<1>8. Counted'
  <2>1. arrived' \in 0 .. MaxRequests /\ signals' \in Nat
    BY <1>3 DEF Arrive
  <2>2. queued' \subseteq 1 .. arrived'
    <3>1. queued \subseteq 1 .. arrived /\ arrived' = arrived + 1
          /\ queued' = queued \cup {arrived + 1}
      BY DEF IInv, Counted, Arrive
    <3>2. 1 .. arrived \subseteq 1 .. arrived + 1 /\ arrived + 1 \in 1 .. arrived + 1
      BY <1>3
    <3>3. QED
      BY <3>1, <3>2
  <2>3. QED
    BY <2>1, <2>2 DEF IInv, Counted, Arrive, jobVars, uiVars
<1> QED
  BY <1>7, <1>8 DEF IInv

\* A signal is counted before anything is done about it.
LEMMA SignalKeeps == IInv /\ Signal => IInv'
<1> SUFFICES ASSUME IInv, Signal PROVE IInv'
  OBVIOUS
<1> PICK n : n = co.signalEpoch + 1
  OBVIOUS
<1> PICK s : s = [Ui EXCEPT !.c.signalEpoch = n, !.c.blocked = FALSE, !.c.failed = FALSE]
  OBVIOUS
<1> PICK q : q = Queue'
  OBVIOUS
<1>1. Become(Pump(s))
  BY UiIs DEF Signal
<1>2. Registry' = Registry
  BY DEF Signal, Registry, jobVars
<1>3. /\ q.queued = queued /\ q.ready = ready /\ q.arrived = arrived /\ q.signals = signals - 1
      /\ Queue.queued = queued /\ Queue.ready = ready
      /\ Queue.signals = signals /\ Queue.arrived = arrived
  BY DEF Signal, Queue
<1>4. arrived \in Nat /\ signals \in Nat /\ signals - 1 \in Nat
  BY DEF IInv, Counted, Signal
<1>5. /\ co \in CoType /\ co.signalEpoch \in Nat /\ co.seenEpoch \in Nat /\ co.epoch \in Nat
      /\ n \in Nat
  BY UiIs DEF CoType
<1>6. /\ s \in States /\ s.w = win /\ s.c.signalEpoch = n
      /\ s.c.seenEpoch = co.seenEpoch /\ s.c.epoch = co.epoch /\ s.c.at = co.at
      /\ s.c.answer = co.answer /\ s.c.more = co.more /\ s.c.held = co.held
      /\ s.c.stage = co.stage /\ s.c.reset = co.reset
  BY <1>5, UiIs DEF States, CoType
<1>7. Remembers(s.c, q)
  <2>1. Remembers(co, Queue)
    BY UiIs
  <2>2. QED
    BY <1>3, <1>4, <1>5, <1>6, <2>1 DEF Remembers
<1>8. Asks(s.c, q)
  <2>1. Asks(co, Queue) /\ co.seenEpoch <= co.epoch /\ co.epoch <= co.signalEpoch
    BY UiIs DEF Remembers
  <2>2. co.seenEpoch # n /\ co.epoch # n
    BY <1>5, <2>1
  <2>3. QED
    BY <1>3, <1>6, <2>1, <2>2 DEF Asks, HasWork
<1>9. Waits(s.c, s.w)
  BY <1>6, UiIs DEF Waits
<1>10. Sound(s, Queue', Registry')
  BY <1>2, <1>6, <1>7, <1>8, <1>9, UiIs DEF Sound, CoSound, States
<1>11. Kept' /\ initialized' \in BOOLEAN
  BY <1>1, <1>10, UiIs, PumpSettles, BecomeKeeps
<1>12. Counted'
  BY <1>4, <1>11 DEF IInv, Counted, Signal, jobVars
<1> QED
  BY <1>11, <1>12 DEF IInv

\* The backend answers with what is in the queue now.
LEMMA ServeKeeps == IInv /\ Serve => IInv'
<1> SUFFICES ASSUME IInv, Serve PROVE IInv'
  OBVIOUS
<1> PICK front : front = IF queued = {} THEN None ELSE Min(queued)
  OBVIOUS
<1> PICK more : more = (Cardinality(queued) > 1)
  OBVIOUS
<1> PICK answer : answer = [served |-> TRUE, front |-> front, more |-> more]
  OBVIOUS
<1> PICK q : q = Queue'
  OBVIOUS
<1>1. /\ co' = [co EXCEPT !.answer = answer] /\ win' = win /\ initialized' = initialized
      /\ ready' = (ready \/ co.at = "lease")
  BY DEF Serve
<1>2. Registry' = Registry
  BY DEF Serve, Registry, jobVars
<1>3. /\ q.queued = queued /\ q.ready = ready' /\ q.arrived = arrived /\ q.signals = signals
      /\ Queue.queued = queued /\ Queue.ready = ready
      /\ Queue.signals = signals /\ Queue.arrived = arrived
  BY DEF Serve, Queue
<1>4. /\ arrived \in Nat /\ arrived <= MaxRequests /\ queued \subseteq 1 .. arrived
      /\ ready \in BOOLEAN
  BY WindowAssumption DEF IInv, Counted
<1>5. front \in Outputs /\ (queued # {} => front \in queued)
  <2>1. CASE queued = {}
    BY <2>1 DEF Outputs
  <2>2. CASE queued # {}
    <3>1. queued \in SUBSET Nat /\ queued \subseteq Requests
      BY <1>4, WindowAssumption DEF Requests
    <3>2. QED
      BY <2>2, <3>1, LeastIs DEF Outputs
  <2>3. QED
    BY <2>1, <2>2
<1>6. more \in BOOLEAN /\ (more = FALSE => queued \ {front} = {})
  <2>1. IsFiniteSet(queued)
    <3>1. IsFiniteSet(1 .. arrived)
      BY <1>4, FS_Interval
    <3>2. QED
      BY <1>4, <3>1, FS_Subset
  <2>2. Cardinality(queued) \in Nat
    BY <2>1, FS_CardinalityType
  <2>3. more \in BOOLEAN
    BY <2>2
  <2>4. ASSUME more = FALSE
        PROVE  queued \ {front} = {}
    <3>1. ~(Cardinality(queued) > 1)
      BY <2>4, Zenon
    <3>2. Cardinality(queued) = 0 \/ Cardinality(queued) = 1
      BY <2>2, <3>1
    <3>3. queued = {} \/ \E x : queued = {x}
      BY <2>1, <3>2, FS_EmptySet, FS_Singleton
    <3>4. QED
      BY <1>5, <3>3
  <2>5. QED
    BY <2>3, <2>4
<1>7. answer \in Answers /\ answer.more = more /\ answer.front = front
  BY <1>5, <1>6 DEF Answers
<1>8. /\ co' \in CoType /\ co'.answer = answer
      /\ co'.at = co.at /\ co'.signalEpoch = co.signalEpoch /\ co'.seenEpoch = co.seenEpoch
      /\ co'.epoch = co.epoch /\ co'.more = co.more /\ co'.held = co.held
      /\ co'.stage = co.stage /\ co'.reset = co.reset
  BY <1>1, <1>7, UiIs DEF CoType
<1>9. Remembers(co', q)
  BY <1>1, <1>3, <1>4, <1>8, UiIs DEF Remembers
<1>10. Asks(co', q)
  <2>1. Asks(co, Queue) /\ co.at \in {"peek", "lease"}
    BY UiIs DEF Serve
  <2>2. co.at = "lease" => ready' = TRUE
    BY <1>1
  <2>3. QED
    BY <1>3, <1>6, <1>7, <1>8, <2>1, <2>2 DEF Asks, HasWork
<1>11. Waits(co', win')
  BY <1>1, <1>8, UiIs DEF Waits
<1>12. Ui' \in States /\ Ui'.c = co' /\ Ui'.w = win'
  BY <1>1, <1>8, UiIs DEF Ui, States, WinSound
<1>13. Sound(Ui', Queue', Registry')
  BY <1>1, <1>2, <1>8, <1>9, <1>10, <1>11, <1>12, UiIs DEF Sound, CoSound
<1>14. Kept'
  BY <1>8, <1>13 DEF Kept, Rested, Serve
<1>15. Counted'
  BY <1>1 DEF IInv, Counted, Serve, jobVars
<1> QED
  BY <1>14, <1>15 DEF IInv

\* A request that would take the window over waits for the form to be free.
LEMMA PeekAnswerKeeps == IInv /\ PeekAnswer => IInv'
<1> SUFFICES ASSUME IInv, PeekAnswer PROVE IInv'
  OBVIOUS
<1>1. co.at = "peek" /\ UNCHANGED <<queueVars, jobVars>>
  BY DEF PeekAnswer
<1>2. /\ Calm(Ui, Queue, Registry) /\ Ui.c = co /\ Ui.w = win
      /\ co.held = None /\ HasWork(co) /\ ~Busy(win) /\ co.stage = "leased"
  BY <1>1, UiIs DEF Asks, Waits, Remembers
<1>3. MayBeAt(Ui, "idle") /\ MayBeAt(Ui, "lease") /\ "lease" \in Places \ {"apply", "idle"}
  BY <1>2 DEF MayBeAt, Places, Calls
<1>4. Settled(Block(Ui), Queue, Registry) /\ Settled(At(Ui, "lease"), Queue, Registry)
  BY <1>2, <1>3, StopSettles, AtSettles
<1>5. Become(Block(Ui)) \/ Become(At(Ui, "lease"))
  BY DEF PeekAnswer
<1> QED
  BY <1>1, <1>4, <1>5, StretchKeeps

\* What was signalled before the call is seen, and what was not is not.
LEMMA LeaseAnswerKeeps == IInv /\ LeaseAnswer => IInv'
<1> SUFFICES ASSUME IInv, LeaseAnswer PROVE IInv'
  OBVIOUS
<1> PICK front : front = co.answer.front
  OBVIOUS
<1> PICK s : s = [Ui EXCEPT !.c.seenEpoch = co.epoch, !.c.more = co.answer.more,
                            !.c.held = front, !.c.stage = "leased"]
  OBVIOUS
<1>1. /\ co.at = "lease" /\ co.answer.served /\ UNCHANGED <<queueVars, jobVars>>
      /\ Become(IF front = None THEN Rest(s) ELSE Plan(s))
  BY DEF LeaseAnswer
<1>2. /\ Calm(Ui, Queue, Registry) /\ Ui.c = co /\ Ui.w = win
      /\ co.held = None /\ ~Busy(win) /\ co \in CoType
      /\ Remembers(co, Queue) /\ Asks(co, Queue)
  BY <1>1, UiIs DEF Asks, Waits
<1>3. /\ co.answer \in Answers /\ co.answer.more \in BOOLEAN /\ front \in Outputs
      /\ co.epoch \in Nat /\ "leased" \in Stages /\ co.answer.served = TRUE
  BY <1>1, <1>2 DEF CoType, Answers, Stages
<1>4. /\ s \in States /\ s.w = win /\ s.c.seenEpoch = co.epoch /\ s.c.more = co.answer.more
      /\ s.c.held = front /\ s.c.stage = "leased" /\ s.c.epoch = co.epoch
      /\ s.c.signalEpoch = co.signalEpoch
  BY <1>2, <1>3 DEF Calm, States, CoType
<1>5. Remembers(s.c, Queue)
  <2>1. /\ Queue.ready = TRUE
        /\ \/ Queue.queued \ {front} = {} \/ co.answer.more = TRUE
           \/ co.epoch # co.signalEpoch \/ Queue.signals > 0
    BY <1>1, <1>2, <1>3 DEF Asks
  <2>2. QED
    BY <1>2, <1>3, <1>4, <2>1 DEF Remembers
<1>6. Calm(s, Queue, Registry)
  BY <1>2, <1>4, <1>5 DEF Calm
<1>7. MayBeAt(s, "idle")
  BY <1>4 DEF MayBeAt
<1>8. CASE front = None
  BY <1>1, <1>6, <1>7, <1>8, RestSettles, StretchKeeps
<1>9. CASE front # None
  BY <1>1, <1>2, <1>4, <1>6, <1>9, PlanSettles, StretchKeeps
<1> QED
  BY <1>8, <1>9

\* The request is the window's from now on.
LEMMA DispatchAnswerKeeps == IInv /\ DispatchAnswer => IInv'
<1> SUFFICES ASSUME IInv, DispatchAnswer PROVE IInv'
  OBVIOUS
<1> PICK s : s = Staged(Ui, "dispatched")
  OBVIOUS
<1>1. co.at = "dispatch" /\ UNCHANGED <<queueVars, jobVars>> /\ Become(Apply(s))
  BY DEF DispatchAnswer
<1>2. /\ Calm(Ui, Queue, Registry) /\ Ui \in States /\ Ui.c = co /\ Ui.w = win
      /\ co.held # None /\ ~Busy(win) /\ Kind[co.held] # "empty"
      /\ Standalone(co.held) => co.reset = TRUE
      /\ win.phase = "done" => co.reset = TRUE
  BY <1>1, UiIs DEF Asks, Waits
<1>3. IsStaged(s, Ui, "dispatched")
  BY <1>2, StagedIs DEF Stages
<1>4. Remembers(s.c, Queue)
  BY <1>2, <1>3 DEF Calm, Remembers, IsStaged
<1>5. Calm(s, Queue, Registry)
  BY <1>2, <1>3, <1>4 DEF Calm, IsStaged
<1>6. Settled(Apply(s), Queue, Registry)
  <2>1. /\ s.c.held = co.held /\ s.c.stage = "dispatched" /\ s.c.reset = co.reset /\ s.w = win
    BY <1>2, <1>3 DEF IsStaged
  <2>2. QED
    BY <1>2, <1>5, <2>1, ApplySettles
<1> QED
  BY <1>1, <1>6, StretchKeeps

\* The queue without the request that is held: nothing else is forgotten.
LEMMA AckedRemembers ==
    ASSUME NEW c, NEW q, NEW p, Remembers(c, q),
           p.queued = q.queued \ {c.held}, p.ready = q.ready,
           p.signals = q.signals, p.arrived = q.arrived
    PROVE  Remembers(c, p)
BY DEF Remembers

\* The queue loses requests, and the coordinator and the window change.
LEMMA AckedKeeps ==
    ASSUME IInv, UNCHANGED <<ready, signals, arrived, jobVars>>, queued' \subseteq queued,
           NEW s, Settled(s, Queue', Registry), Become(s)
    PROVE  IInv'
<1>1. Registry' = Registry
  BY DEF Registry, jobVars
<1>2. Kept' /\ initialized' \in BOOLEAN
  BY <1>1, UiIs, BecomeKeeps
<1>3. Counted'
  BY <1>2 DEF IInv, Counted, jobVars
<1> QED
  BY <1>2, <1>3 DEF IInv

\* The request is out of the queue, and the next one is looked for.
LEMMA AckAnswerKeeps == IInv /\ AckAnswer => IInv'
<1> SUFFICES ASSUME IInv, AckAnswer PROVE IInv'
  OBVIOUS
<1> PICK s : s = [Ui EXCEPT !.c.held = None, !.c.stage = "leased"]
  OBVIOUS
<1> PICK q : q = Queue'
  OBVIOUS
<1>1. /\ co.at = "ack" /\ UNCHANGED <<ready, signals, arrived, jobVars>>
      /\ queued' = queued \ {co.held} /\ Become(Rest(s))
  BY DEF AckAnswer
<1>2. /\ Calm(Ui, Queue, Registry) /\ Ui.c = co /\ Ui.w = win
      /\ Ui \in States /\ co \in CoType /\ Remembers(co, Queue)
  BY <1>1, UiIs
<1>3. /\ q.queued = Queue.queued \ {co.held} /\ q.ready = Queue.ready
      /\ q.signals = Queue.signals /\ q.arrived = Queue.arrived
  BY <1>1 DEF Queue
<1>4. None \in Outputs /\ "leased" \in Stages
  BY DEF Outputs, Stages
<1>5. /\ s \in States /\ s.w = win /\ s.c.held = None /\ s.c.stage = "leased"
      /\ s.c.seenEpoch = co.seenEpoch /\ s.c.epoch = co.epoch /\ s.c.more = co.more
      /\ s.c.signalEpoch = co.signalEpoch
  BY <1>2, <1>4 DEF States, CoType
<1>6. Remembers(s.c, q)
  BY <1>2, <1>3, <1>5 DEF Remembers
<1>7. Calm(s, q, Registry)
  BY <1>2, <1>5, <1>6 DEF Calm
<1>8. MayBeAt(s, "idle")
  BY <1>5 DEF MayBeAt
<1>9. Settled(Rest(s), Queue', Registry)
  BY <1>7, <1>8, RestSettles
<1> QED
  BY <1>1, <1>9, AckedKeeps

\* A call fails: the coordinator still knows what it knew.
LEMMA CallFailsKeeps == IInv /\ CallFails => IInv'
<1> SUFFICES ASSUME IInv, CallFails PROVE IInv'
  OBVIOUS
<1> PICK q : q = Queue'
  OBVIOUS
<1>1. /\ co.at \in Calls /\ UNCHANGED <<ready, signals, arrived, jobVars>>
      /\ queued' = queued \/ queued' = queued \ {co.held}
      /\ Become(Fail(Ui))
  BY DEF CallFails
<1>2. /\ Calm(Ui, Queue, Registry) /\ Ui.c = co /\ Ui.w = win
      /\ Remembers(co, Queue) /\ Asks(co, Queue)
  BY <1>1, UiIs DEF Calls
<1>3. Remembers(co, q)
  <2>1. CASE queued' = queued
    <3>1. q = Queue
      BY <1>1, <2>1 DEF Queue
    <3>2. QED
      BY <1>2, <3>1
  <2>2. CASE queued' = queued \ {co.held}
    <3>1. /\ q.queued = Queue.queued \ {co.held} /\ q.ready = Queue.ready
          /\ q.signals = Queue.signals /\ q.arrived = Queue.arrived
      BY <1>1, <2>2 DEF Queue
    <3>2. QED
      BY <1>2, <3>1, AckedRemembers
  <2>3. QED
    BY <1>1, <2>1, <2>2
<1>4. Calm(Ui, q, Registry)
  BY <1>2, <1>3 DEF Calm
<1>5. MayBeAt(Ui, "idle")
  BY <1>2 DEF MayBeAt, Asks
<1>6. Settled(Fail(Ui), Queue', Registry) /\ queued' \subseteq queued
  BY <1>1, <1>4, <1>5, StopSettles
<1> QED
  BY <1>1, <1>6, AckedKeeps

\* Files come into the form and go.
LEMMA AddRemoveKeep == IInv /\ (Add \/ Remove) => IInv'
<1> SUFFICES ASSUME IInv, Add \/ Remove PROVE IInv'
  OBVIOUS
<1>0. win \in WinType /\ win.inputs \in Inputs
  BY UiIs DEF WinSound, WinType
<1>1. /\ UNCHANGED <<queueVars, jobVars>>
      /\ \E in \in Inputs : React([win EXCEPT !.inputs = in])
  <2>1. CASE Add
    <3>1. win.inputs \cup {User} \in Inputs /\ React([win EXCEPT !.inputs = @ \cup {User}])
      BY <1>0, <2>1 DEF Add, Inputs
    <3>2. React([win EXCEPT !.inputs = win.inputs \cup {User}])
      BY <3>1
    <3>3. QED
      BY <2>1, <3>1, <3>2 DEF Add
  <2>2. CASE Remove
    <3>1. PICK gone \in SUBSET win.inputs : React([win EXCEPT !.inputs = @ \ gone])
      BY <2>2 DEF Remove
    <3>2. win.inputs \ gone \in Inputs /\ React([win EXCEPT !.inputs = win.inputs \ gone])
      BY <1>0, <3>1 DEF Inputs
    <3>3. QED
      BY <2>2, <3>2 DEF Remove
  <2>3. QED
    BY <2>1, <2>2
<1>2. PICK in \in Inputs : React([win EXCEPT !.inputs = in])
  BY <1>1
<1>3. /\ WinSound([win EXCEPT !.inputs = in], Registry)
      /\ Waits(co, [win EXCEPT !.inputs = in])
  BY UiIs, InputsSound
<1> QED
  BY <1>1, <1>2, <1>3, WindowKeeps

\* The user starts one archive, or asks for the plan of several.
LEMMA StartKeeps == IInv /\ Start => IInv'
<1> SUFFICES ASSUME IInv, Start PROVE IInv'
  OBVIOUS
<1>1. /\ win.phase = "form" /\ ~Busy(win) /\ co.at = "idle"
      /\ UNCHANGED <<queueVars, jobVars>>
  BY DEF Start, Dirty
<1>2. /\ win \in WinType /\ WinSound(win, Registry) /\ win.starting = FALSE
      /\ win.finishing = FALSE /\ win.call = "none" /\ win.jobId = None
  BY <1>1, UiIs DEF WinSound, WinType, Where, Busy
<1>3. ASSUME NEW target \in {win.output, None}, React(StartOne(win, "user", target))
      PROVE  IInv'
  <2>1. target \in Outputs /\ "user" \in Starters
    BY <1>2 DEF Outputs, WinType, Starters
  <2>2. Begun(StartOne(win, "user", target), "user", Registry)
    BY <1>1, <1>2, <2>1, OneBegun
  <2>3. Waits(co, StartOne(win, "user", target))
    BY <1>1, <2>2 DEF Waits, Begun
  <2>4. QED
    BY <1>1, <1>3, <2>2, <2>3, WindowKeeps DEF Begun
<1>4. ASSUME React([win EXCEPT !.starting = TRUE, !.call = "planning", !.who = "user"])
      PROVE  IInv'
  <2> PICK v : v = [win EXCEPT !.starting = TRUE, !.call = "planning", !.who = "user"]
    OBVIOUS
  <2>1. "planning" \in Steps /\ "user" \in Starters
    BY DEF Steps, Starters
  <2>2. v \in WinType /\ v.starting = TRUE /\ v.call = "planning" /\ v.who = "user"
    BY <1>2, <2>1 DEF WinType
  <2>3. /\ v.phase = "form" /\ v.finishing = FALSE /\ v.jobId = None /\ v.buffer = win.buffer
        /\ v.reply = win.reply /\ v.batch = win.batch /\ v.index = win.index
    BY <1>1, <1>2 DEF WinType
  <2>4. win.batch = FALSE /\ win.index = 0
    BY <1>1, <1>2 DEF WinSound, Checked
  <2>5. Where(v) /\ Checked(v)
    BY <2>2, <2>3, <2>4 DEF Where, Checked
  <2>6. EachOnce(v, Registry) /\ Hears(v, Registry)
    BY <1>2, <2>2, <2>3 DEF WinSound, EachOnce, Hears
  <2>7. Waits(co, v)
    BY <1>1, <2>2 DEF Waits
  <2>8. QED
    BY <1>1, <1>4, <2>2, <2>5, <2>6, <2>7, WindowKeeps DEF WinSound
<1> QED
  BY <1>3, <1>4 DEF Start

\* The plan is made, and the first item starts; or it is not.
LEMMA PlannedKeeps == IInv /\ Planned => IInv'
<1> SUFFICES ASSUME IInv, Planned PROVE IInv'
  OBVIOUS
<1>1. win.call = "planning" /\ UNCHANGED <<queueVars, jobVars>>
  BY DEF Planned
<1>2. /\ win \in WinType /\ WinSound(win, Registry) /\ win.starting = TRUE /\ win.phase = "form"
      /\ win.who = "user" /\ win.finishing = FALSE /\ win.jobId = None
      /\ win.batch = FALSE /\ win.index = 0
  BY <1>1, UiIs DEF WinSound, WinType, Where, Checked
<1>3. co.at \notin {"peek", "lease", "dispatch", "apply"}
  BY <1>2, UiIs DEF Waits, Busy
<1>4. ASSUME React(BatchFrom(win, "user"))
      PROVE  IInv'
  <2>1. Bare(win, Registry) /\ "user" \in Starters
    BY <1>2 DEF Bare, WinSound, Starters
  <2>2. Begun(BatchFrom(win, "user"), "user", Registry)
    BY <2>1, BatchBegun
  <2>3. Waits(co, BatchFrom(win, "user"))
    BY <1>3, <2>2 DEF Waits, Begun
  <2>4. QED
    BY <1>1, <1>4, <2>2, <2>3, WindowKeeps DEF Begun
<1>5. ASSUME React([win EXCEPT !.starting = FALSE, !.call = "none"])
      PROVE  IInv'
  <2> PICK v : v = [win EXCEPT !.starting = FALSE, !.call = "none"]
    OBVIOUS
  <2>1. "none" \in Steps
    BY DEF Steps
  <2>2. v \in WinType /\ v.starting = FALSE /\ v.call = "none"
    BY <1>2, <2>1 DEF WinType
  <2>3. /\ v.phase = "form" /\ v.finishing = FALSE /\ v.jobId = None /\ v.buffer = win.buffer
        /\ v.reply = win.reply /\ v.batch = FALSE /\ v.index = 0
    BY <1>2 DEF WinType
  <2>4. Where(v) /\ Checked(v)
    BY <2>2, <2>3 DEF Where, Checked
  <2>5. EachOnce(v, Registry) /\ Hears(v, Registry)
    BY <1>2, <2>2, <2>3 DEF WinSound, EachOnce, Hears
  <2>6. Waits(co, v)
    BY <1>3, <2>2 DEF Waits
  <2>7. QED
    BY <1>1, <1>5, <2>2, <2>4, <2>5, <2>6, WindowKeeps DEF WinSound
<1> QED
  BY <1>4, <1>5 DEF Planned

\* The coordinator rests while the window and the registry go on.
LEMMA StillKeeps ==
    ASSUME IInv, UNCHANGED <<queueVars, initialized, co>>, Counted',
           WinSound(win', Registry'), Waits(co, win'), Rested(co, win')
    PROVE  IInv'
<1>1. Queue' = Queue
  BY DEF Queue, queueVars
<1>2. Ui' \in States /\ Ui'.c = co /\ Ui'.w = win'
  BY UiIs DEF Ui, States, WinSound
<1>3. Sound(Ui', Queue', Registry')
  BY <1>1, <1>2, UiIs DEF Sound, CoSound
<1> QED
  BY <1>3 DEF IInv, Kept

\* The fields of the registry.
LEMMA RegistryIs ==
    /\ Registry.slot = slot /\ Registry.job = job /\ Registry.jobs = jobs
    /\ Registry.events = events /\ Registry.lost = silent \cup dropped
    /\ Registry'.slot = slot' /\ Registry'.job = job' /\ Registry'.jobs = jobs'
    /\ Registry'.events = events' /\ Registry'.lost = silent' \cup dropped'
BY DEF Registry

\* The job is registered, or it is not.
LEMMA CreateKeeps == IInv /\ Create => IInv'
<1> SUFFICES ASSUME IInv, Create PROVE IInv'
  OBVIOUS
<1> PICK n : n = jobs + 1
  OBVIOUS
<1> PICK g : g = Registry'
  OBVIOUS
<1>1. /\ win.call = "sent" /\ UNCHANGED <<queueVars, initialized, co>>
      /\ UNCHANGED <<foreigns, events, made, silent, dropped>>
  BY DEF Create
<1>2. /\ win \in WinType /\ WinSound(win, Registry) /\ win.starting = TRUE
      /\ win.finishing = FALSE /\ win.jobId = None /\ win.phase # "done"
      /\ Waits(co, win)
  BY <1>1, UiIs DEF WinSound, WinType, Where
<1>3. "replied" \in Steps
  BY DEF Steps
<1>4. ASSUME NEW reply \in Jobs, win' = [win EXCEPT !.call = "replied", !.reply = reply],
             EachOnce(win', g), Counted',
             reply # None => Pending(reply, g)
      PROVE  IInv'
  <2>1. /\ win' \in WinType /\ win'.call = "replied" /\ win'.reply = reply
    BY <1>2, <1>3, <1>4 DEF WinType
  <2>2. /\ win'.phase = win.phase /\ win'.finishing = win.finishing /\ win'.jobId = None
        /\ win'.starting = TRUE /\ win'.buffer = win.buffer /\ win'.batch = win.batch
        /\ win'.index = win.index /\ win'.item = win.item /\ win'.issue = win.issue
        /\ win'.verified = win.verified /\ win'.who = win.who /\ win'.result = win.result
    BY <1>2, <1>4 DEF WinType
  <2>3. Where(win') /\ Checked(win')
    BY <1>1, <1>2, <2>1, <2>2 DEF WinSound, Where, Checked, Busy
  <2>4. Hears(win', g)
    BY <1>2, <1>4, <2>1, <2>2 DEF Hears
  <2>5. Waits(co, win') /\ Rested(co, win')
    BY <1>2, <2>2 DEF Waits, Busy, Rested
  <2>6. WinSound(win', Registry')
    BY <1>4, <2>1, <2>3, <2>4 DEF WinSound
  <2>7. QED
    BY <1>1, <1>4, <2>5, <2>6, StillKeeps
<1>5. /\ jobs \in Nat /\ MaxJobs \in Nat /\ made \in [Requests -> Nat]
      /\ win.buffer \subseteq Events
      /\ events \subseteq Events
  BY <1>2, WindowAssumption DEF IInv, Counted, WinType, Buffers
<1>6. CASE /\ slot = "free" /\ jobs < MaxJobs
           /\ slot' = "own" /\ jobs' = n /\ job' = [id |-> n, target |-> win.target]
           /\ win' = [win EXCEPT !.call = "replied", !.reply = n]
  <2>1. n \in Jobs /\ n # None /\ n > 0 /\ n \in Nat
    BY <1>5, <1>6 DEF Jobs, None
  <2>2. g.slot = "own" /\ g.job.id = n /\ g.jobs = n /\ g.events = events
    BY <1>1, <1>6, RegistryIs
  <2>3. Pending(n, g)
    BY <2>2 DEF Pending
  <2>4. win'.buffer = win.buffer /\ win'.jobId = None /\ win'.reply = n
    BY <1>2, <1>6, <2>1 DEF WinType
  <2>5. EachOnce(win', g)
    <3>1. EachOnce(win, Registry)
      BY <1>2 DEF WinSound
    <3>2. \A e \in events \cup win.buffer : e.id \in 1 .. jobs
      BY <3>1, RegistryIs DEF EachOnce
    <3>3. \A e \in events \cup win.buffer : e.id \in 1 .. n /\ e.id # n
      <4> SUFFICES ASSUME NEW e \in events \cup win.buffer PROVE e.id \in 1 .. n /\ e.id # n
        OBVIOUS
      <4>1. e.id \in 1 .. jobs
        BY <3>2
      <4>2. QED
        BY <1>5, <4>1
    <3>4. /\ \A e, f \in events \cup win.buffer : e.id = f.id => e = f
          /\ events \cap win.buffer = {}
      BY <3>1, RegistryIs DEF EachOnce
    <3>5. QED
      BY <2>1, <2>2, <2>4, <3>3, <3>4 DEF EachOnce, None
  <2>6. Counted'
    <3>1. job' \in [id : 0 .. MaxJobs, target : Outputs] /\ jobs' \in 0 .. MaxJobs
      BY <1>2, <1>5, <1>6 DEF WinType
    <3>2. \A r \in Requests :
             made'[r] + (IF slot' = "own" /\ job'.target = r THEN 1 ELSE 0) <= jobs'
      <4> SUFFICES ASSUME NEW r \in Requests PROVE made[r] <= jobs
        BY <1>1, <1>5, <1>6
      <4>1. made[r] \in Nat /\ made[r] + (IF slot = "own" /\ job.target = r THEN 1 ELSE 0) <= jobs
        BY <1>5 DEF IInv, Counted
      <4>2. QED
        BY <1>5, <1>6, <4>1
    <3>3. QED
      BY <1>1, <1>6, <3>1, <3>2 DEF IInv, Counted, queueVars
  <2>7. QED
    BY <1>4, <1>6, <2>1, <2>3, <2>5, <2>6
<1>7. CASE /\ win' = [win EXCEPT !.call = "replied", !.reply = None]
           /\ UNCHANGED <<slot, job, jobs>>
  <2>1. None \in Jobs
    BY <1>5 DEF Jobs, None
  <2>2. g = Registry
    BY <1>1, <1>7 DEF Registry
  <2>3. win'.buffer = win.buffer /\ win'.jobId = None /\ win'.reply = None
    BY <1>2, <1>7, <2>1 DEF WinType
  <2>4. EachOnce(win', g)
    BY <1>2, <2>2, <2>3 DEF EachOnce, None, WinSound
  <2>5. Counted'
    BY <1>1, <1>7 DEF IInv, Counted, queueVars
  <2>6. QED
    BY <1>4, <1>7, <2>1, <2>4, <2>5
<1> QED
  BY <1>6, <1>7 DEF Create

\* The answer of createArchive arrives, and the coordinator hears if it waits for it.
LEMMA CreatedKeeps == IInv /\ Created => IInv'
<1> SUFFICES ASSUME IInv, Created PROVE IInv'
  OBVIOUS
<1> PICK w : w = IF win.reply # None THEN Started(win) ELSE NotStarted(win)
  OBVIOUS
<1> PICK s : s = [c |-> co, w |-> w]
  OBVIOUS
<1>1. win.call = "replied" /\ UNCHANGED <<queueVars, jobVars>>
  BY DEF Created
<1>2. /\ win \in WinType /\ WinSound(win, Registry) /\ win.starting = TRUE
      /\ Waits(co, win) /\ Busy(win) /\ Asks(co, Queue) /\ Remembers(co, Queue)
      /\ co \in CoType
  BY <1>1, UiIs DEF WinSound, Where, Busy
<1>3. /\ win.reply # None => GoesOn(w, "chain", Registry)
      /\ win.reply = None => GoesOn(w, win.who, Registry)
  BY <1>1, <1>2, StartedGoesOn, NotStartedGoesOn
<1>4. WinSound(w, Registry) /\ s \in States /\ s.c = co /\ s.w = w
  BY <1>2, <1>3 DEF GoesOn, States, WinSound
<1>5. CASE win.who # "coord"
  <2>1. React(w)
    BY <1>5 DEF Created
  <2>2. ~(w.starting = TRUE /\ w.who = "coord")
    BY <1>3, <1>5 DEF GoesOn
  <2>3. Waits(co, w)
    BY <1>2, <1>5, <2>2 DEF Waits
  <2>4. QED
    BY <1>1, <1>4, <2>1, <2>3, WindowKeeps
<1>6. ASSUME win.who = "coord"
      PROVE  /\ co.at = "apply" /\ co.stage = "dispatched" /\ co.held # None
             /\ Standalone(co.held) /\ co.reset = TRUE
  BY <1>2, <1>6 DEF Waits, Asks
<1>7. CASE win.who = "coord" /\ win.reply # None
  <2> PICK u : u = Staged(s, "applied")
    OBVIOUS
  <2>1. Become(At(u, "ack"))
    BY <1>7 DEF Created
  <2>2. IsStaged(u, s, "applied")
    BY <1>4, StagedIs DEF Stages
  <2>3. Remembers(u.c, Queue)
    BY <1>2, <1>4, <1>6, <1>7, <2>2 DEF Remembers, IsStaged
  <2>4. ~(w.starting = TRUE /\ w.who = "coord")
    BY <1>3, <1>7 DEF GoesOn
  <2>5. Calm(u, Queue, Registry)
    BY <1>4, <2>2, <2>3, <2>4 DEF Calm, IsStaged
  <2>6. MayBeAt(u, "ack") /\ "ack" \in Places \ {"apply", "idle"}
    BY <1>4, <1>6, <1>7, <2>2 DEF MayBeAt, IsStaged, Places, Calls
  <2>7. QED
    BY <1>1, <2>1, <2>5, <2>6, AtSettles, StretchKeeps
<1>8. CASE win.who = "coord" /\ win.reply = None
  <2>1. Become(IF w.call = "sent" THEN s ELSE Fail(s))
    BY <1>8 DEF Created
  <2>2. w.starting = TRUE => w.who = "coord" /\ w.call = "sent"
    BY <1>3, <1>8 DEF GoesOn
  <2>3. CASE w.call = "sent"
    <3>1. w.starting = TRUE
      BY <1>4, <2>3 DEF WinSound, Where
    <3>2. Waits(co, w) /\ Rested(co, w)
      BY <1>6, <1>8, <2>2, <3>1 DEF Waits, Rested
    <3>3. Settled(s, Queue, Registry)
      BY <1>2, <1>4, <3>2 DEF Settled, Sound, CoSound
    <3>4. QED
      BY <1>1, <2>1, <2>3, <3>3, StretchKeeps
  <2>4. CASE w.call # "sent"
    <3>1. Calm(s, Queue, Registry)
      BY <1>2, <1>4, <2>2, <2>4 DEF Calm
    <3>2. MayBeAt(s, "idle")
      BY <1>4, <1>6, <1>8 DEF MayBeAt
    <3>3. QED
      BY <1>1, <2>1, <2>4, <3>1, <3>2, StopSettles, StretchKeeps
  <2>5. QED
    BY <2>3, <2>4
<1> QED
  BY <1>5, <1>7, <1>8

\* The result of a job is on its way when the job has left the registry.
LEMMA JobEndsKeeps == IInv /\ JobEnds => IInv'
<1> SUFFICES ASSUME IInv, JobEnds PROVE IInv'
  OBVIOUS
<1> PICK g : g = Registry'
  OBVIOUS
<1>1. PICK status \in Statuses :
         /\ events' = events \cup {[id |-> job.id, status |-> status]}
         /\ made' = IF job.target # None /\ status \in {"ok", "warning"}
                       THEN [made EXCEPT ![job.target] = @ + 1] ELSE made
  BY DEF JobEnds, Statuses
<1> PICK new : new = [id |-> job.id, status |-> status]
  OBVIOUS
<1>2. /\ slot = "own" /\ slot' = "free" /\ UNCHANGED <<queueVars, uiVars>>
      /\ job' = job /\ jobs' = jobs /\ foreigns' = foreigns /\ dropped' = dropped
      /\ silent' = silent
      /\ win' = win
  BY DEF JobEnds, uiVars
<1>3. WinSound(win, Registry) /\ EachOnce(win, Registry) /\ Hears(win, Registry)
  BY UiIs DEF WinSound
<1>4. /\ g.slot = "free" /\ g.job = job /\ g.jobs = jobs /\ g.lost = silent \cup dropped
      /\ g.events = events \cup {new}
  BY <1>1, <1>2, RegistryIs
<1>5. jobs \in Nat /\ job.id = jobs /\ jobs > 0 /\ new.id = job.id
  BY <1>2, <1>3, RegistryIs DEF EachOnce
<1>6. \A i : Pending(i, g) <=> Pending(i, Registry)
  BY <1>2, <1>4, <1>5, RegistryIs DEF Pending
<1>7. EachOnce(win, g)
  <2>1. \A e \in events \cup win.buffer : e.id \in 1 .. jobs /\ e.id # new.id
    BY <1>2, <1>3, <1>5, RegistryIs DEF EachOnce
  <2>2. new.id \in 1 .. jobs
    BY <1>5
  <2>3. \A e \in g.events \cup win.buffer : e.id \in 1 .. jobs
    BY <1>4, <2>1, <2>2
  <2>4. \A e, f \in g.events \cup win.buffer : e.id = f.id => e = f
    BY <1>3, <1>4, <2>1, RegistryIs DEF EachOnce
  <2>5. g.events \cap win.buffer = {}
    BY <1>3, <1>4, <2>1, RegistryIs DEF EachOnce
  <2>6. QED
    BY <1>3, <1>4, <2>3, <2>4, <2>5, RegistryIs DEF EachOnce
<1>8. Hears(win, g)
  BY <1>3, <1>4, <1>6, RegistryIs DEF Hears
<1>9. WinSound(win', Registry')
  BY <1>2, <1>3, <1>7, <1>8 DEF WinSound
<1>10. Counted'
  <2>1. jobs \in 0 .. MaxJobs /\ job.target \in Outputs /\ made \in [Requests -> Nat]
    BY DEF IInv, Counted
  <2>2. new \in Events
    BY <1>5, <2>1, WindowAssumption DEF Events
  <2>3. made' \in [Requests -> Nat]
    BY <1>1, <2>1 DEF Outputs
  <2>4. ASSUME NEW r \in Requests
        PROVE  made'[r] <= jobs
    <3>1. made[r] \in Nat /\ made[r] + (IF job.target = r THEN 1 ELSE 0) <= jobs
      BY <1>2, <2>1 DEF IInv, Counted
    <3>2. CASE job.target = r
      BY <1>1, <1>5, <2>1, <3>1, <3>2
    <3>3. CASE job.target # r
      BY <1>1, <1>5, <2>1, <3>1, <3>3 DEF Outputs
    <3>4. QED
      BY <3>2, <3>3
  <2>5. \A r \in Requests :
           made'[r] + (IF slot' = "own" /\ job'.target = r THEN 1 ELSE 0) <= jobs'
    <3> SUFFICES ASSUME NEW r \in Requests PROVE made'[r] + 0 <= jobs
      BY <1>2
    <3>1. made'[r] \in Nat
      BY <2>3
    <3>2. QED
      BY <2>4, <3>1
  <2>6. events' \subseteq Events
    BY <1>1, <2>2 DEF IInv, Counted
  <2>7. QED
    BY <1>2, <2>3, <2>5, <2>6 DEF IInv, Counted, queueVars, uiVars
<1>11. Rested(co, win') /\ Waits(co, win')
  BY <1>2, UiIs DEF IInv, Kept
<1> QED
  BY <1>2, <1>9, <1>10, <1>11, StillKeeps DEF uiVars

\* The thread panics: the job is out of the registry and among the silent ones.
LEMMA JobPanicsKeeps == IInv /\ JobPanics => IInv'
<1> SUFFICES ASSUME IInv, JobPanics PROVE IInv'
  OBVIOUS
<1> PICK g : g = Registry'
  OBVIOUS
<1>1. /\ slot = "own" /\ slot' = "free" /\ UNCHANGED <<queueVars, uiVars>>
      /\ job' = job /\ jobs' = jobs /\ foreigns' = foreigns /\ dropped' = dropped
      /\ events' = events /\ made' = made /\ silent' = silent \cup {job.id}
      /\ win' = win
  BY DEF JobPanics, uiVars
<1>2. WinSound(win, Registry) /\ EachOnce(win, Registry) /\ Hears(win, Registry)
  BY UiIs DEF WinSound
<1>3. /\ g.slot = "free" /\ g.job = job /\ g.jobs = jobs /\ g.events = events
      /\ g.lost = silent \cup dropped \cup {job.id}
  BY <1>1, RegistryIs
<1>4. job.id \in 1 .. MaxJobs
  BY <1>1, <1>2, RegistryIs, WindowAssumption DEF EachOnce, IInv, Counted
<1>5. \A i : i # job.id => (Pending(i, g) <=> Pending(i, Registry))
  BY <1>1, <1>3, RegistryIs DEF Pending
<1>6. \A i : Pending(i, g) => Pending(i, Registry)
  BY <1>1, <1>3, RegistryIs DEF Pending
<1>7. EachOnce(win, g)
  BY <1>1, <1>2, <1>3, RegistryIs DEF EachOnce
<1>8. Hears(win, g)
  BY <1>2, <1>3, <1>5, <1>6, RegistryIs DEF Hears
<1>9. WinSound(win', Registry')
  BY <1>1, <1>2, <1>7, <1>8 DEF WinSound
<1>10. Counted'
  <2>1. \A r \in Requests : made[r] \in Nat /\ made[r] <= jobs
    BY <1>1 DEF IInv, Counted
  <2>2. \A r \in Requests : made[r] + 0 <= jobs
    BY <2>1
  <2>3. QED
    BY <1>1, <1>4, <2>2 DEF IInv, Counted, queueVars, uiVars
<1>11. Rested(co, win') /\ Waits(co, win')
  BY <1>1, UiIs DEF IInv, Kept
<1> QED
  BY <1>1, <1>9, <1>10, <1>11, StillKeeps DEF uiVars

\* A result arrives: kept for later, dropped, heard, or none of the window's business.
LEMMA ResultKeeps == IInv /\ Result => IInv'
<1> SUFFICES ASSUME IInv, Result PROVE IInv'
  OBVIOUS
<1> PICK g : g = Registry'
  OBVIOUS
<1>1. PICK e \in events :
          /\ events' = events \ {e}
          /\ CASE win.jobId = None ->
                    IF Cardinality(win.buffer) + win.others < Cap
                       THEN /\ win' = [win EXCEPT !.buffer = @ \cup {e}]
                            /\ UNCHANGED <<initialized, co, dropped>>
                       ELSE dropped' = dropped \cup {e.id} /\ UNCHANGED uiVars
               [] win.jobId = e.id -> React(Hear(win, e.status)) /\ UNCHANGED dropped
               [] win.jobId # None /\ win.jobId # e.id -> UNCHANGED <<uiVars, dropped>>
  BY DEF Result
<1>2. UNCHANGED <<queueVars, slot, job, jobs, foreigns, made, silent>>
  BY DEF Result
<1>3. /\ win \in WinType /\ WinSound(win, Registry) /\ EachOnce(win, Registry)
      /\ Hears(win, Registry) /\ Waits(co, win) /\ Rested(co, win)
  BY UiIs DEF WinSound, IInv, Kept
<1>4. /\ g.slot = slot /\ g.job = job /\ g.jobs = jobs /\ g.lost = silent \cup dropped'
      /\ g.events = events \ {e}
  BY <1>1, <1>2, RegistryIs
<1>5. e \in Events /\ e.id \in 1 .. jobs /\ e.id # None /\ e.status \in Statuses
  <2>1. e.id \in 1 .. jobs /\ e \in Events
    BY <1>3, RegistryIs DEF EachOnce, IInv, Counted
  <2>2. QED
    BY <2>1 DEF Events, None
<1>6. \A i : i # e.id => (Pending(i, g) <=> Pending(i, Registry))
  BY <1>4, RegistryIs DEF Pending
<1>7. ~Pending(e.id, g)
  BY <1>3, <1>4, RegistryIs DEF Pending, EachOnce
<1>8. EachOnce(win, g)
  BY <1>3, <1>4, RegistryIs DEF EachOnce
<1>9. ASSUME dropped' \subseteq 1 .. MaxJobs, initialized' \in BOOLEAN
      PROVE  Counted'
  BY <1>1, <1>2, <1>9 DEF IInv, Counted, queueVars
<1>10. CASE /\ win.jobId = None /\ win' = [win EXCEPT !.buffer = @ \cup {e}]
            /\ UNCHANGED <<initialized, co, dropped>>
  <2> PICK b : b = win.buffer \cup {e}
    OBVIOUS
  <2>1. b \in Buffers /\ win' = [win EXCEPT !.buffer = b]
    BY <1>3, <1>5, <1>10 DEF WinType, Buffers
  <2>2. win' \in WinType /\ win'.buffer = b
    BY <1>3, <2>1 DEF WinType
  <2>3. /\ win'.phase = win.phase /\ win'.finishing = win.finishing /\ win'.jobId = None
        /\ win'.starting = win.starting /\ win'.call = win.call /\ win'.reply = win.reply
        /\ win'.batch = win.batch /\ win'.index = win.index /\ win'.item = win.item
        /\ win'.issue = win.issue /\ win'.verified = win.verified /\ win'.who = win.who
        /\ win'.result = win.result
    BY <1>3, <1>10, <2>1 DEF WinType
  <2>4. Where(win')
    BY <1>3, <2>2, <2>3 DEF WinSound, Where
  <2>5. Checked(win')
    BY <1>3, <2>2, <2>3 DEF WinSound, Checked, Busy
  <2>6. EachOnce(win', g)
    <3>1. g.events \cup b = events \cup win.buffer /\ g.events \cap b = {}
      BY <1>3, <1>4, RegistryIs DEF EachOnce
    <3>2. QED
      BY <1>3, <1>4, <1>10, <2>2, <2>3, <3>1, RegistryIs DEF EachOnce
  <2>7. Hears(win', g)
    <3>1. win.phase = "running" /\ win.starting = FALSE /\ win.finishing = FALSE =>
             None \in g.lost \/ Pending(None, g)
      BY <1>3, <1>4, <1>5, <1>6, <1>10, RegistryIs DEF Hears
    <3>2. win.call = "replied" /\ win.reply # None =>
             win.reply \in g.lost \/ Pending(win.reply, g) \/ \E f \in b : f.id = win.reply
      BY <1>3, <1>4, <1>6, <1>10, RegistryIs DEF Hears
    <3>3. QED
      BY <2>2, <2>3, <3>1, <3>2 DEF Hears
  <2>8. WinSound(win', Registry')
    BY <2>2, <2>4, <2>5, <2>6, <2>7 DEF WinSound
  <2>9. Rested(co, win') /\ Waits(co, win')
    BY <1>3, <2>3 DEF Rested, Waits, Busy
  <2>10. Counted'
    BY <1>9, <1>10 DEF IInv, Counted
  <2>11. QED
    BY <1>2, <1>10, <2>8, <2>9, <2>10, StillKeeps
<1>11. CASE win.jobId = None /\ dropped' = dropped \cup {e.id} /\ UNCHANGED uiVars
  <2>1. Hears(win, g)
    <3>1. \A i : i \in Registry.lost \/ Pending(i, Registry) => i \in g.lost \/ Pending(i, g)
      BY <1>4, <1>6, <1>11, RegistryIs
    <3>2. \A i : Pending(i, g) => Pending(i, Registry)
      BY <1>6, <1>7
    <3>3. QED
      BY <1>3, <3>1, <3>2 DEF Hears
  <2>2. WinSound(win', Registry') /\ win' = win
    BY <1>3, <1>8, <1>11, <2>1 DEF WinSound, uiVars
  <2>3. Counted'
    <3>1. silent \cup dropped \subseteq 1 .. MaxJobs /\ initialized \in BOOLEAN
      BY DEF IInv, Counted
    <3>2. e.id \in 1 .. MaxJobs
      BY <1>5 DEF Events
    <3>3. dropped' \subseteq 1 .. MaxJobs
      BY <1>11, <3>1, <3>2
    <3>4. initialized' \in BOOLEAN
      BY <1>11, <3>1 DEF uiVars
    <3>5. QED
      BY <1>9, <3>3, <3>4
  <2>4. QED
    BY <1>2, <1>3, <1>11, <2>2, <2>3, StillKeeps DEF uiVars
<1>12. CASE win.jobId # None /\ win.jobId = e.id /\ React(Hear(win, e.status)) /\ dropped' = dropped
  <2>1. Pending(win.jobId, Registry)
    BY <1>12, RegistryIs DEF Pending
  <2>2. win.phase = "running" /\ win.starting = FALSE /\ win.finishing = FALSE
    BY <1>3, <1>12, <2>1 DEF Hears
  <2>3. Over(win, g) /\ Where(win) /\ Checked(win)
    BY <1>3, <1>7, <1>8, <1>12, <2>2 DEF WinSound, Over, Where, Checked, WinType
  <2> PICK w : w = Hear(win, e.status)
    OBVIOUS
  <2>4. GoesOn(w, "chain", g)
    BY <1>5, <2>3, HearGoesOn
  <2>5. Waits(co, w)
    BY <1>3, <2>2, <2>4 DEF Waits, GoesOn, Busy
  <2> PICK s : s = [c |-> co, w |-> w]
    OBVIOUS
  <2>6. s \in States /\ s.c = co /\ s.w = w
    BY <2>4, UiIs DEF GoesOn, WinSound, States
  <2>7. Sound(s, Queue', g)
    <3>1. Queue' = Queue
      BY <1>2 DEF Queue, queueVars
    <3>2. QED
      BY <2>4, <2>5, <2>6, <3>1, UiIs DEF Sound, CoSound, GoesOn
  <2>8. Kept' /\ initialized' \in BOOLEAN
    BY <1>12, <2>7, UiIs, ReactKeeps DEF IInv, Kept
  <2>9. Counted'
    BY <1>9, <1>12, <2>8 DEF IInv, Counted
  <2>10. QED
    BY <2>8, <2>9 DEF IInv
<1>13. CASE win.jobId # None /\ win.jobId # e.id /\ UNCHANGED <<uiVars, dropped>>
  <2>1. win.call # "replied"
    BY <1>3, <1>13 DEF WinSound, Where
  <2>2. Hears(win, g)
    BY <1>3, <1>4, <1>6, <1>13, <2>1, RegistryIs DEF Hears
  <2>3. WinSound(win', Registry') /\ win' = win
    BY <1>3, <1>8, <1>13, <2>2 DEF WinSound, uiVars
  <2>4. Counted'
    BY <1>9, <1>13 DEF IInv, Counted, uiVars
  <2>5. QED
    BY <1>2, <1>3, <1>13, <2>3, <2>4, StillKeeps DEF uiVars
<1>14. QED
  BY <1>1, <1>5, <1>10, <1>11, <1>12, <1>13

\* The archive has been looked after: it is checked, or the result says otherwise.
LEMMA PostProcessKeeps == IInv /\ PostProcess => IInv'
<1> SUFFICES ASSUME IInv, PostProcess PROVE IInv'
  OBVIOUS
<1> PICK w : w = [win EXCEPT !.finishing = FALSE]
  OBVIOUS
<1> PICK v : v = w.verified \cup {win.index}
  OBVIOUS
<1> PICK x : x = [w EXCEPT !.verified = v]
  OBVIOUS
<1>1. /\ win.finishing = TRUE /\ UNCHANGED <<queueVars, jobVars>>
      /\ React(Conclude(x, "ok")) \/ React(Conclude(w, "warning"))
  BY UiIs DEF PostProcess, WinSound, WinType
<1>2. /\ win \in WinType /\ WinSound(win, Registry) /\ Waits(co, win)
      /\ win.phase = "running" /\ win.starting = FALSE /\ win.call = "none"
      /\ win.jobId # None => win.buffer = {}
      /\ win.jobId # None => ~Pending(win.jobId, Registry)
      /\ win.batch = FALSE => win.index = 0
  BY <1>1, UiIs DEF WinSound, Where, Hears, Checked, WinType
<1>3. /\ w \in WinType /\ w.finishing = FALSE
      /\ w.phase = win.phase /\ w.jobId = win.jobId
      /\ w.starting = win.starting /\ w.call = win.call /\ w.buffer = win.buffer
      /\ w.reply = win.reply /\ w.batch = win.batch /\ w.index = win.index
      /\ w.issue = win.issue /\ w.verified = win.verified
  BY <1>2 DEF WinType
<1>4. v \in Sets
  BY <1>2, <1>3 DEF WinType, Sets
<1>5. /\ x \in WinType /\ x.verified = v /\ x.finishing = FALSE
      /\ x.phase = win.phase /\ x.jobId = win.jobId
      /\ x.starting = win.starting /\ x.call = win.call /\ x.buffer = win.buffer
      /\ x.reply = win.reply /\ x.batch = win.batch /\ x.index = win.index
      /\ x.issue = win.issue
  BY <1>3, <1>4 DEF WinType
<1>6. EachOnce(w, Registry) /\ EachOnce(x, Registry)
  BY <1>2, <1>3, <1>5 DEF WinSound, EachOnce
<1>7. Over(w, Registry) /\ Over(x, Registry)
  BY <1>2, <1>3, <1>5, <1>6 DEF Over
<1>8. Covers(x, "ok") /\ Covers(w, "warning")
  <2>1. ASSUME win.batch = FALSE
        PROVE  v = {0}
    BY <1>2, <1>3, <2>1 DEF WinSound, Checked
  <2>2. ASSUME win.batch = TRUE, win.issue = FALSE
        PROVE  v = 0 .. win.index
    <3>1. v = (0 .. win.index - 1) \cup {win.index}
      BY <1>2, <1>3, <2>2 DEF WinSound, Checked, Busy
    <3>2. win.index \in Nat
      BY <1>2, WindowAssumption DEF WinType, Items
    <3>3. QED
      BY <3>1, <3>2
  <2>3. QED
    BY <1>5, <2>1, <2>2 DEF Covers
<1>9. /\ GoesOn(Conclude(x, "ok"), "chain", Registry)
      /\ GoesOn(Conclude(w, "warning"), "chain", Registry)
  <2>1. "ok" \in Statuses /\ "warning" \in Statuses
    BY DEF Statuses
  <2>2. QED
    BY <1>7, <1>8, <2>1, ConcludeGoesOn
<1>10. \A y : GoesOn(y, "chain", Registry) => WinSound(y, Registry) /\ Waits(co, y)
  BY <1>2 DEF GoesOn, Waits, Busy
<1> QED
  BY <1>1, <1>9, <1>10, WindowKeeps

\* Other windows have jobs, which are none of this window's.
LEMMA ForeignJobKeeps == IInv /\ ForeignJob => IInv'
<1> SUFFICES ASSUME IInv, ForeignJob PROVE IInv'
  OBVIOUS
<1>1. /\ slot # "own" /\ slot' \in {"free", "foreign"} /\ foreigns' \in Nat
      /\ UNCHANGED <<queueVars, uiVars, job, jobs, events, made, silent, dropped>>
  BY DEF IInv, Counted, ForeignJob
<1> PICK g : g = Registry'
  OBVIOUS
<1>2. /\ g.slot # "own" /\ g.job = job /\ g.jobs = jobs /\ g.events = events
      /\ g.lost = silent \cup dropped /\ win' = win
  BY <1>1, RegistryIs DEF uiVars
<1>3. \A i : Pending(i, g) <=> Pending(i, Registry)
  BY <1>1, <1>2, RegistryIs DEF Pending
<1>4. WinSound(win, Registry)
  BY UiIs
<1>5. EachOnce(win, g)
  BY <1>1, <1>2, <1>4, RegistryIs DEF EachOnce, WinSound
<1>6. Hears(win, g)
  BY <1>2, <1>3, <1>4, RegistryIs DEF Hears, WinSound
<1>7. WinSound(win', Registry')
  BY <1>2, <1>4, <1>5, <1>6 DEF WinSound
<1>8. Counted'
  <2>1. \A r \in Requests :
           made[r] + (IF slot' = "own" /\ job.target = r THEN 1 ELSE 0) <= jobs
    BY <1>1 DEF IInv, Counted
  <2>2. QED
    BY <1>1, <2>1 DEF IInv, Counted, queueVars, uiVars
<1>9. Rested(co, win') /\ Waits(co, win')
  BY <1>2, UiIs DEF IInv, Kept
<1> QED
  BY <1>1, <1>7, <1>8, <1>9, StillKeeps DEF uiVars

\* Progress of other jobs fills the memory for events, and not beyond its bound.
LEMMA ProgressKeeps == IInv /\ Progress => IInv'
<1> SUFFICES ASSUME IInv, Progress PROVE IInv'
  OBVIOUS
<1> PICK n : n = win.others + 1
  OBVIOUS
<1>1. /\ win' = [win EXCEPT !.others = n] /\ Cardinality(win.buffer) + win.others < Cap
      /\ UNCHANGED <<queueVars, initialized, co, jobVars>>
  BY DEF Progress
<1>2. win \in WinType /\ WinSound(win, Registry) /\ EachOnce(win, Registry)
  BY UiIs DEF WinSound
<1>3. Cardinality(win.buffer) \in Nat
  <2> PICK f : f = [e \in win.buffer |-> e.id]
    OBVIOUS
  <2>1. f \in Injection(win.buffer, 1 .. jobs)
    <3>1. f \in [win.buffer -> 1 .. jobs]
      BY <1>2, RegistryIs DEF EachOnce
    <3>2. \A a, b \in win.buffer : f[a] = f[b] => a = b
      BY <1>2 DEF EachOnce
    <3>3. QED
      BY <3>1, <3>2 DEF Injection, IsInjective
  <2>2. IsFiniteSet(1 .. jobs)
    BY <1>2, FS_Interval, RegistryIs DEF EachOnce
  <2>3. IsFiniteSet(win.buffer)
    BY <2>1, <2>2, FS_Injection
  <2>4. QED
    BY <2>3, FS_CardinalityType
<1>4. n \in Counts
  BY <1>1, <1>2, <1>3, WindowAssumption DEF WinType, Counts
<1>5. /\ win' \in WinType
      /\ win'.phase = win.phase /\ win'.finishing = win.finishing /\ win'.jobId = win.jobId
      /\ win'.starting = win.starting /\ win'.call = win.call /\ win'.buffer = win.buffer
      /\ win'.reply = win.reply /\ win'.batch = win.batch /\ win'.index = win.index
      /\ win'.item = win.item /\ win'.issue = win.issue /\ win'.verified = win.verified
      /\ win'.who = win.who /\ win'.result = win.result
  BY <1>1, <1>2, <1>4 DEF WinType
<1>6. Where(win') /\ Checked(win') /\ EachOnce(win', Registry)
  BY <1>2, <1>5 DEF WinSound, Where, Checked, EachOnce, Busy
<1>7. Hears(win', Registry)
  BY <1>2, <1>5 DEF WinSound, Hears
<1>8. WinSound(win', Registry')
  <2>1. Registry' = Registry
    BY <1>1 DEF Registry, jobVars
  <2>2. QED
    BY <1>5, <1>6, <1>7, <2>1 DEF WinSound
<1>9. Rested(co, win') /\ Waits(co, win')
  BY <1>5, UiIs DEF IInv, Kept, Rested, Waits, Busy
<1>10. Counted'
  BY <1>1 DEF IInv, Counted, queueVars, jobVars
<1> QED
  BY <1>1, <1>8, <1>9, <1>10, StillKeeps

\* Nothing changes.
LEMMA StutterKeeps == IInv /\ UNCHANGED vars => IInv'
<1> SUFFICES ASSUME IInv, UNCHANGED vars PROVE IInv'
  OBVIOUS
<1>1. UNCHANGED <<queueVars, uiVars, jobVars>> /\ win' = win
  BY DEF vars, uiVars
<1>2. Registry' = Registry
  BY <1>1 DEF Registry, jobVars
<1>3. Counted'
  BY <1>1 DEF IInv, Counted, queueVars, uiVars, jobVars
<1> QED
  BY <1>1, <1>2, <1>3, UiIs, StillKeeps DEF uiVars, IInv, Kept

-----------------------------------------------------------------------------
(***************************************************************************)
(* The theorems.                                                           *)
(***************************************************************************)
\* The window begins with the question for a request.
LEMMA InitKept == Init => IInv
<1> SUFFICES ASSUME Init PROVE IInv
  OBVIOUS
<1>1. Counted
  <2>1. 0 \in 0 .. MaxJobs /\ 0 \in 0 .. MaxRequests /\ None \in Outputs
    BY WindowAssumption DEF Outputs
  <2>2. made = [r \in Requests |-> 0] /\ slot = "free" /\ jobs = 0
    BY DEF Init
  <2>3. \A r \in Requests :
           made[r] + (IF slot = "own" /\ job.target = r THEN 1 ELSE 0) <= jobs
    BY <2>2
  <2>4. job \in [id : 0 .. MaxJobs, target : Outputs]
    BY <2>1 DEF Init, None
  <2>5. made \in [Requests -> Nat]
    BY <2>2
  <2>6. QED
    BY <2>1, <2>2, <2>3, <2>4, <2>5 DEF Init, Counted
<1>2. co \in CoType
  BY DEF Init, CoType, Places, Calls, Answers, NoAnswer, Outputs, Stages
<1>3. win \in WinType
  BY WindowAssumption DEF Init, WinType, Phases, Inputs, Outputs, Results, Items, Steps,
     Starters, Jobs, None, Buffers, Counts, Sets
<1>4. Remembers(co, Queue) /\ Asks(co, Queue)
  BY DEF Init, Remembers, Asks, Queue, HasWork, NoAnswer
<1>5. Waits(co, win) /\ Rested(co, win)
  BY DEF Init, Waits, Rested, Busy
<1>6. Where(win) /\ Checked(win)
  BY DEF Init, Where, Checked
<1>7. EachOnce(win, Registry) /\ Hears(win, Registry)
  BY RegistryIs DEF Init, EachOnce, Hears, None
<1>8. Ui \in States /\ Ui.c = co /\ Ui.w = win
  BY <1>2, <1>3 DEF Ui, States
<1>9. Sound(Ui, Queue, Registry)
  BY <1>2, <1>3, <1>4, <1>5, <1>6, <1>7, <1>8 DEF Sound, CoSound, WinSound
<1> QED
  BY <1>1, <1>5, <1>9 DEF IInv, Kept, Init

\* Every step of the window, the queue and the registry keeps the invariant.
THEOREM Invariance == Spec => []IInv
<1>1. Init => IInv
  BY InitKept
<1>2. IInv /\ [Next]_vars => IInv'
  BY ArriveKeeps, SignalKeeps, ServeKeeps, PeekAnswerKeeps, LeaseAnswerKeeps,
     DispatchAnswerKeeps, AckAnswerKeeps, CallFailsKeeps, AddRemoveKeep, StartKeeps,
     PlannedKeeps, CreateKeeps, CreatedKeeps, JobEndsKeeps, JobPanicsKeeps, ResultKeeps,
     PostProcessKeeps, ForeignJobKeeps, ProgressKeeps, StutterKeeps DEF Next
<1> QED
  BY <1>1, <1>2, PTL DEF Spec

\* No request is forgotten, and the coordinator, the window and the queue are
\* what they should be: lease_compress_launch, the signals and doPump together.
THEOREM RequestsAreKept == Spec => []RequestsKept
<1>1. IInv => RequestsKept
  <2> SUFFICES ASSUME IInv PROVE RequestsKept
    OBVIOUS
  <2>1. /\ co \in CoType /\ win \in WinType /\ Remembers(co, Queue) /\ Where(win)
        /\ Counted /\ Rested(co, win) /\ EachOnce(win, Registry)
    BY UiIs DEF WinSound, IInv, Kept
  <2>2. /\ MaxRequests \in Nat /\ MaxJobs \in Nat
        /\ queued \subseteq 1 .. arrived /\ arrived \in 0 .. MaxRequests /\ signals \in Nat
    BY <2>1, WindowAssumption DEF Counted
  <2>3. /\ co.signalEpoch \in Nat /\ co.seenEpoch \in Nat /\ co.epoch \in Nat
        /\ co.seenEpoch <= co.epoch /\ co.epoch <= co.signalEpoch
        /\ co.signalEpoch > 0 /\ co.signalEpoch + signals <= arrived + 1
    BY <2>1 DEF CoType, Remembers, Queue
  <2>4. CoordinatorOK
    <3>1. {co.signalEpoch, co.seenEpoch, co.epoch} \subseteq 0 .. MaxRequests + 1
      BY <2>2, <2>3
    <3>2. QED
      BY <2>1, <3>1 DEF CoordinatorOK, CoType, Places, Outputs, Stages
  <2>5. WindowOK
    BY <2>1 DEF WindowOK, WinType, Where, Phases, Inputs, Results, Items, Sets, Steps, Jobs,
       Buffers, Counts
  <2>6. made \in [Requests -> 0 .. MaxJobs]
    <3>1. made \in [Requests -> Nat] /\ jobs \in 0 .. MaxJobs
      BY <2>1 DEF Counted
    <3>2. ASSUME NEW r \in Requests
          PROVE  made[r] \in 0 .. MaxJobs
      <4>1. made[r] \in Nat
            /\ made[r] + (IF slot = "own" /\ job.target = r THEN 1 ELSE 0) <= jobs
        BY <2>1, <3>1 DEF Counted
      <4>2. QED
        BY <2>2, <3>1, <4>1
    <3>3. QED
      BY <3>1, <3>2
  <2>7. TypeOK
    <3>1. queued \subseteq Requests /\ signals \in 0 .. MaxRequests
      BY <2>2, <2>3 DEF Requests
    <3>2. QED
      BY <2>1, <2>2, <2>4, <2>5, <2>6, <3>1 DEF TypeOK, Counted
  <2>8. NoneForgotten
    <3> SUFFICES ASSUME co.at = "idle", signals = 0, ~co.blocked, ~co.failed, ~Busy(win)
                 PROVE  queued = {}
      BY DEF NoneForgotten
    <3>1. co.blocked = FALSE /\ co.failed = FALSE /\ co.more \in BOOLEAN
      BY <2>1 DEF CoType
    <3>2. ~HasWork(co)
      BY <2>1, <3>1 DEF Rested
    <3>3. queued \ {None} = {}
      BY <2>1, <3>1, <3>2 DEF HasWork, Remembers, Queue
    <3>4. QED
      BY <2>2, <3>3 DEF None
  <2>9. QED
    BY <2>7, <2>8 DEF RequestsKept
<1> QED
  BY <1>1, Invariance, PTL

\* Success is said only of what was made and checked, item by item, also when
\* an item could not be started: onJobFinished, postProcess and the batch.
THEOREM ResultIsHonest == Spec => []HonestResult
<1>1. IInv => HonestResult
  BY UiIs DEF WinSound, Checked, HonestResult
<1> QED
  BY <1>1, Invariance, PTL

\* A window that shows a running job hears of its end, in whatever order the
\* number of the job and its result arrive: dispatch and drainPendingEvents.
THEOREM EndIsHeard == Spec => []HearsEnd
<1>1. IInv => HearsEnd
  <2> SUFFICES ASSUME IInv, win.phase = "running", win.starting = FALSE, win.finishing = FALSE,
                      win.jobId \notin silent \cup dropped
               PROVE  Pending(win.jobId, Registry)
    BY UiIs, RegistryIs DEF HearsEnd, EndOnItsWay, Pending, WinSound, WinType, IInv, Counted
  <2>1. QED
    BY UiIs, RegistryIs DEF WinSound, Hears
<1> QED
  BY <1>1, Invariance, PTL

=============================================================================
