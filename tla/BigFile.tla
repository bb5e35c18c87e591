------------------------------- MODULE BigFile -------------------------------
(***************************************************************************)
(* Compressing one large file with several threads: compress, collect and  *)
(* Slots of crates/zipmania-archive/src/backend/unzip/bigfile.rs.          *)
(*                                                                         *)
(* The reader cuts the file into chunks and sends them through a bounded   *)
(* channel to the workers; they send what they have deflated through an    *)
(* unbounded one to the collector, which writes the chunks in their order. *)
(* The reader takes a slot before it sends a chunk, the collector gives it *)
(* back when it has written the chunk.  Chunks are their numbers; what the *)
(* collector has in hand is a set, since their order of arrival does not   *)
(* matter to it.  A wait for a slot polls, a wait for a channel blocks.    *)
(***************************************************************************)
EXTENDS Naturals, Sequences, FiniteSets

CONSTANTS
    Declared,       \* the size of the file when it was collected, in chunks
    Workers,        \* the worker threads; their number bounds the channel
    SlotsPerWorker, \* SLOTS_PER_WORKER
    MaxPanics,      \* bound: how many workers die of a panic
    MayBreak        \* whether reading, deflating and writing may fail

ASSUME BigFileAssumption ==
    /\ Declared \in Nat
    /\ IsFiniteSet(Workers) /\ Workers # {}
    /\ SlotsPerWorker \in Nat \ {0}
    /\ MaxPanics \in Nat /\ MayBreak \in BOOLEAN

Chunks == 0 .. Declared - 1
Limit  == Cardinality(Workers) * SlotsPerWorker
None   == Declared          \* no chunk

VARIABLES
    reader,     \* how far the reader is
    read,       \* the chunks read so far
    seq,        \* the chunks sent so far
    slots,      \* Slots.used
    jobs,       \* the bounded channel to the workers
    jtx,        \* its sending end exists
    worker,     \* how far every worker is
    chunk,      \* the chunk it deflates
    panics,     \* how many workers have panicked
    results,    \* the channel to the collector
    collector,  \* how far the collector is
    pending,    \* the chunks that wait for their turn
    next,       \* the chunks written so far
    live,       \* cleared when the collector is over
    cancel,     \* the flag of the job
    outcome     \* what compress is going to return

readVars == <<reader, read, seq, outcome>>
workVars == <<worker, chunk, panics>>
collVars == <<collector, pending, next, live>>
vars == <<readVars, slots, jobs, jtx, workVars, results, collVars, cancel>>

ReaderSteps    == {"read", "acquire", "send", "drop", "join", "judge", "end"}
WorkerSteps    == {"recv", "deflate", "left"}
\* "over": collect has returned and dropped its channel, live is still set.
CollectorSteps == {"recv", "write", "over", "overFailed", "done", "failed"}
Outcomes       == {"none", "zip", "toobig", "canceled", "failed"}

Init ==
    /\ reader = "read" /\ read = 0 /\ seq = 0 /\ outcome = "none"
    /\ slots = 0
    /\ jobs = <<>> /\ jtx = TRUE
    /\ worker = [w \in Workers |-> "recv"] /\ chunk = [w \in Workers |-> None]
    /\ panics = 0
    /\ results = {}
    /\ collector = "recv" /\ pending = {} /\ next = 0 /\ live = TRUE
    /\ cancel = FALSE

-----------------------------------------------------------------------------
(* The reader. *)

Break(result) == reader' = "drop" /\ outcome' = result

\* The top of the loop: a chunk is read, unless the user cancels, the reading
\* fails, the file is over, sooner than it was or not, or is longer than it was.
Read ==
    /\ reader = "read"
    /\ \/ cancel /\ Break("canceled") /\ UNCHANGED read
       \/ ~cancel /\ MayBreak /\ Break("failed") /\ UNCHANGED read
       \/ ~cancel /\ Break("none") /\ UNCHANGED read
       \/ /\ ~cancel
          /\ read' = read + 1
          /\ IF read + 1 > Declared
                THEN Break("toobig")
                ELSE reader' = "acquire" /\ UNCHANGED outcome
    /\ UNCHANGED <<seq, slots, jobs, jtx, workVars, results, collVars, cancel>>

\* Mutants of Acquire: who waits for a slot does not look at the flag; a slot
\* is not waited for.
AcquireUncancelled ==
    /\ reader = "acquire"
    /\ \/ ~live /\ Break("none") /\ UNCHANGED slots
       \/ /\ live /\ slots < Limit
          /\ slots' = slots + 1
          /\ reader' = "send"
          /\ UNCHANGED outcome
    /\ UNCHANGED <<read, seq, jobs, jtx, workVars, results, collVars, cancel>>
AcquireAnyway ==
    /\ reader = "acquire"
    /\ slots' = slots + 1
    /\ reader' = "send"
    /\ UNCHANGED <<read, outcome, seq, jobs, jtx, workVars, results, collVars, cancel>>

\* Slots::acquire.
Acquire ==
    /\ reader = "acquire"
    /\ \/ /\ cancel \/ ~live
          /\ Break(IF cancel THEN "canceled" ELSE "none")
          /\ UNCHANGED slots
       \/ /\ ~cancel /\ live /\ slots < Limit
          /\ slots' = slots + 1
          /\ reader' = "send"
          /\ UNCHANGED outcome
    /\ UNCHANGED <<read, seq, jobs, jtx, workVars, results, collVars, cancel>>

\* Sending blocks while the channel is full.  It never fails: the receiving
\* end is shared by the workers and by compress itself, until it returns.
Send ==
    /\ reader = "send"
    /\ Len(jobs) < Cardinality(Workers)
    /\ jobs' = Append(jobs, seq)
    /\ seq' = seq + 1
    /\ reader' = "read"
    /\ UNCHANGED <<read, outcome, slots, jtx, workVars, results, collVars, cancel>>

\* Mutant of Drop: the sending end lives until compress returns.
DropForgotten ==
    /\ reader = "drop"
    /\ reader' = "join"
    /\ UNCHANGED <<read, seq, outcome, slots, jobs, jtx, workVars, results, collVars, cancel>>

\* The sending end is dropped, so that the workers learn that it is over.
Drop ==
    /\ reader = "drop"
    /\ jtx' = FALSE
    /\ reader' = "join"
    /\ UNCHANGED <<read, seq, outcome, slots, jobs, workVars, results, collVars, cancel>>

\* The workers are joined, then the collector.
Join ==
    /\ reader = "join"
    /\ \A w \in Workers : worker[w] = "left"
    /\ collector \in {"done", "failed"}
    /\ reader' = "judge"
    /\ UNCHANGED <<read, seq, outcome, slots, jobs, jtx, workVars, results, collVars, cancel>>

\* Mutant of Judge: what was sent and what was written are not compared.
JudgeUncounted ==
    /\ reader = "judge"
    /\ reader' = "end"
    /\ outcome' = IF outcome # "none" THEN outcome
                  ELSE IF collector = "failed" THEN "failed"
                  ELSE IF read # Declared THEN "toobig" ELSE "zip"
    /\ UNCHANGED <<read, seq, slots, jobs, jtx, workVars, results, collVars, cancel>>

\* What compress returns: the first reason not to use the file, in this order.
Judge ==
    /\ reader = "judge"
    /\ reader' = "end"
    /\ \/ outcome' = IF outcome # "none" THEN outcome
                     ELSE IF collector = "failed" \/ next # seq THEN "failed"
                     ELSE IF read # Declared THEN "toobig" ELSE "zip"
       \/ MayBreak /\ outcome = "none" /\ outcome' = "failed"
    /\ UNCHANGED <<read, seq, slots, jobs, jtx, workVars, results, collVars, cancel>>

-----------------------------------------------------------------------------
(* A worker. *)

Leave(w) == worker' = [worker EXCEPT ![w] = "left"]

\* Mutant of Receive: the chunk stays in the channel until it is deflated.
ReceivePeeking(w) ==
    /\ worker[w] = "recv"
    /\ \/ /\ jobs # <<>>
          /\ chunk' = [chunk EXCEPT ![w] = Head(jobs)]
          /\ jobs' = Tail(jobs) \/ UNCHANGED jobs
          /\ worker' = [worker EXCEPT ![w] = "deflate"]
       \/ jobs = <<>> /\ ~jtx /\ Leave(w) /\ UNCHANGED <<chunk, jobs>>
    /\ UNCHANGED <<readVars, slots, jtx, panics, results, collVars, cancel>>

\* The next chunk, or the end of the channel.
Receive(w) ==
    /\ worker[w] = "recv"
    /\ \/ /\ jobs # <<>>
          /\ chunk' = [chunk EXCEPT ![w] = Head(jobs)]
          /\ jobs' = Tail(jobs)
          /\ worker' = [worker EXCEPT ![w] = "deflate"]
       \/ jobs = <<>> /\ ~jtx /\ Leave(w) /\ UNCHANGED <<chunk, jobs>>
    /\ UNCHANGED <<readVars, slots, jtx, panics, results, collVars, cancel>>

Collecting == collector \in {"recv", "write"}

\* The chunk is sent on as deflated or as failed; with the collector gone the
\* worker leaves.
Deflate(w) ==
    /\ worker[w] = "deflate"
    /\ IF Collecting
          THEN /\ \E good \in {TRUE} \cup {~MayBreak} :
                     results' = results \cup {<<chunk[w], good>>}
               /\ worker' = [worker EXCEPT ![w] = "recv"]
          ELSE Leave(w) /\ UNCHANGED results
    /\ UNCHANGED <<readVars, slots, jobs, jtx, chunk, panics, collVars, cancel>>

Panic(w) ==
    /\ worker[w] = "deflate"
    /\ panics < MaxPanics
    /\ panics' = panics + 1
    /\ Leave(w)
    /\ UNCHANGED <<readVars, slots, jobs, jtx, chunk, results, collVars, cancel>>

-----------------------------------------------------------------------------
(* The collector. *)

\* One message, or the end of the channel: a gap that is left is an error, and
\* so is a last write that fails.
Collect ==
    /\ collector = "recv"
    /\ \/ \E r \in results :
             /\ results' = results \ {r}
             /\ IF r[2]
                   THEN pending' = pending \cup {r[1]} /\ collector' = "write"
                   ELSE collector' = "overFailed" /\ UNCHANGED pending
       \/ /\ results = {} /\ \A w \in Workers : worker[w] = "left"
          /\ \/ pending = {} /\ collector' = "over"
             \/ (pending # {} \/ MayBreak) /\ collector' = "overFailed"
          /\ UNCHANGED <<results, pending>>
    /\ UNCHANGED <<readVars, slots, jobs, jtx, workVars, next, live, cancel>>

\* Mutant of Write: a slot comes back for every message, not for every chunk written.
WriteOnce ==
    /\ collector = "write"
    /\ IF next \in pending
          THEN /\ pending' = pending \ {next}
               /\ next' = next + 1
               /\ UNCHANGED <<slots, collector>>
          ELSE /\ collector' = "recv"
               /\ slots' = slots - 1
               /\ UNCHANGED <<pending, next>>
    /\ UNCHANGED <<readVars, jobs, jtx, workVars, results, live, cancel>>

\* The chunk whose turn it is, or back to the channel; the disk may be full.
Write ==
    /\ collector = "write"
    /\ \/ /\ next \in pending
          /\ pending' = pending \ {next}
          /\ next' = next + 1
          /\ slots' = slots - 1
          /\ UNCHANGED collector
       \/ /\ next \in pending /\ MayBreak
          /\ pending' = pending \ {next}
          /\ collector' = "overFailed"
          /\ UNCHANGED <<next, slots>>
       \/ /\ next \notin pending
          /\ collector' = "recv"
          /\ UNCHANGED <<pending, next, slots>>
    /\ UNCHANGED <<readVars, jobs, jtx, workVars, results, live, cancel>>

\* The collector's thread clears live: who waits for a slot stops waiting.
Over ==
    /\ \/ collector = "over" /\ collector' = "done"
       \/ collector = "overFailed" /\ collector' = "failed"
    /\ live' = FALSE
    /\ UNCHANGED <<readVars, slots, jobs, jtx, workVars, results, pending, next, cancel>>

Cancel ==
    /\ ~cancel /\ reader # "end"
    /\ cancel' = TRUE
    /\ UNCHANGED <<readVars, slots, jobs, jtx, workVars, results, collVars>>

-----------------------------------------------------------------------------
Reader    == Read \/ Acquire \/ Send \/ Drop \/ Join \/ Judge
Collector == Collect \/ Write \/ Over
Work(w)   == Receive(w) \/ Deflate(w)

Next ==
    \/ Reader \/ Collector \/ Cancel
    \/ \E w \in Workers : Work(w) \/ Panic(w)

\* Every thread that is not blocked gets on; a channel serves its receivers.
Fairness ==
    /\ WF_vars(Reader) /\ WF_vars(Collector)
    /\ \A w \in Workers : WF_vars(Deflate(w)) /\ SF_vars(Receive(w))

Spec == Init /\ [][Next]_vars /\ Fairness

-----------------------------------------------------------------------------
(* What the compression promises. *)

TypeOK ==
    /\ reader \in ReaderSteps /\ outcome \in Outcomes
    /\ read \in 0 .. Declared + 1 /\ seq \in 0 .. Declared
    /\ slots \in 0 .. Limit
    /\ jobs \in Seq(Chunks) /\ jtx \in BOOLEAN
    /\ worker \in [Workers -> WorkerSteps]
    /\ chunk \in [Workers -> Chunks \cup {None}]
    /\ panics \in 0 .. MaxPanics
    /\ results \subseteq Chunks \X BOOLEAN
    /\ collector \in CollectorSteps /\ pending \subseteq Chunks
    /\ next \in 0 .. Declared
    /\ live \in BOOLEAN /\ cancel \in BOOLEAN

\* The slots count the chunks in memory exactly, the one in the reader's hand
\* included, so that a slow chunk cannot pile up the ones behind it.
SlotsExact == slots = (seq - next) + (IF reader = "send" THEN 1 ELSE 0)

\* "zip" is returned only for a file that is complete: all its chunks written,
\* none missing in the middle or at the end because a worker died.
WholeFile == outcome = "zip" => next = read /\ read = Declared

\* Each chunk is in one place only, and none that was written comes again.
OnePlace ==
    /\ \A v, w \in Workers :
          v # w /\ worker[v] = "deflate" /\ worker[w] = "deflate" => chunk[v] # chunk[w]
    /\ \A w \in Workers : worker[w] = "deflate" =>
          /\ chunk[w] >= next /\ chunk[w] \notin pending
          /\ \A r \in results : r[1] # chunk[w]
    /\ \A r \in results : r[1] >= next /\ r[1] \notin pending
    /\ \A c \in pending : c >= next

CollectorFailed == collector \in {"overFailed", "failed"}

\* Unless a thread fails, compress comes to its end.
Ends == <>(reader = "end" \/ CollectorFailed \/ panics > 0)

\* A cancelled compression comes to its end unless the collector fails, also
\* when a worker has died and left a gap that keeps all slots taken.
CancelEnds == cancel ~> (reader = "end" \/ CollectorFailed)

\* Every chunk in memory is counted by the slots, and is in one place.
ChunksCounted == TypeOK /\ SlotsExact /\ OnePlace

\* Reader, workers and collector do not wait for each other for good.
AllEnd == Ends /\ CancelEnds

\* A cancelled compression comes to its end.  Violated when the collector fails
\* while the channel is full: all workers leave, the reader blocks for good.
CancelReturns == cancel ~> (reader = "end")

=============================================================================
