---------------------------- MODULE BigFileProofs ----------------------------
(***************************************************************************)
(* Proofs about the compression of one large file, for a file of any size, *)
(* any number of workers and of slots for each: the slots count the chunks *)
(* in memory, each of which is in one place, and only a whole file is      *)
(* accepted.                                                               *)
(***************************************************************************)
EXTENDS BigFile, FiniteSetTheorems, SequenceTheorems, TLAPS

\* The chunks that have been sent and not been written.
Sent == next .. seq - 1

\* A worker has a chunk in hand.  One that left before the channel was closed
\* did so because of a panic or of a collector that is gone: its chunk is lost.
Holding == {w \in Workers : worker[w] = "deflate" \/ (jtx /\ worker[w] = "left")}

\* How far the reader is says how much it has read, and whether the channel is
\* still open.
ReaderWhere ==
    /\ reader = "read" => read = seq /\ read <= Declared
    /\ reader \in {"acquire", "send"} => read = seq + 1 /\ read <= Declared
    /\ next <= seq
    /\ jtx <=> reader \in {"read", "acquire", "send", "drop"}
    /\ reader \in {"read", "acquire", "send"} => outcome = "none"
    /\ outcome = "zip" => reader = "end"

\* The collector is over once live is cleared, which is what join waits for.
CollectorWhere ==
    /\ live <=> collector \notin {"done", "failed"}
    /\ reader \in {"judge", "end"} => ~live

\* The channel to the workers holds chunks in their order, each once.
JobsInOrder ==
    /\ \A i \in 1 .. Len(jobs) : jobs[i] \in Sent
    /\ \A i, j \in 1 .. Len(jobs) : i < j => jobs[i] < jobs[j]

InJobs(c) == \E i \in 1 .. Len(jobs) : jobs[i] = c
InResults(c) == \E r \in results : r[1] = c

\* No two places have the same chunk, and none has one that was not sent or has
\* been written.
Apart ==
    /\ pending \subseteq Sent
    /\ \A r \in results : r[1] \in Sent /\ r[1] \notin pending /\ ~InJobs(r[1])
    /\ \A r, s \in results : r[1] = s[1] => r = s
    /\ \A c \in pending : ~InJobs(c)
    /\ \A w \in Holding :
          /\ chunk[w] \in Sent /\ chunk[w] \notin pending
          /\ ~InJobs(chunk[w]) /\ ~InResults(chunk[w])
    /\ \A v, w \in Holding : chunk[v] = chunk[w] => v = w

\* A collector that comes to its end while the reader goes on has missed a chunk.
GapIsSeen ==
    /\ jtx /\ collector \in {"over", "done"} => next < seq
    /\ ~jtx /\ outcome = "none" /\ read # seq =>
          collector = "failed" \/ (collector = "done" /\ next < seq)
    /\ reader = "drop" /\ outcome = "none" /\ read # seq => ~live

IInv ==
    /\ TypeOK
    /\ SlotsExact
    /\ ReaderWhere
    /\ CollectorWhere
    /\ JobsInOrder
    /\ Apart
    /\ GapIsSeen
    /\ WholeFile

-----------------------------------------------------------------------------
LEMMA LimitType == Limit \in Nat
<1>1. Cardinality(Workers) \in Nat
  BY BigFileAssumption, FS_CardinalityType
<1> QED BY <1>1, BigFileAssumption DEF Limit

\* The initial state satisfies the invariant.
LEMMA InitInv == Init => IInv
<1> SUFFICES ASSUME Init PROVE IInv
  OBVIOUS
<1> USE DEF Init
<1>1. TypeOK
  <2>1. reader \in ReaderSteps /\ outcome \in Outcomes /\ collector \in CollectorSteps
    BY DEF ReaderSteps, Outcomes, CollectorSteps
  <2>2. /\ read \in 0 .. Declared + 1 /\ seq \in 0 .. Declared /\ next \in 0 .. Declared
        /\ slots \in 0 .. Limit /\ panics \in 0 .. MaxPanics
    BY BigFileAssumption, LimitType
  <2>3. worker \in [Workers -> WorkerSteps] /\ chunk \in [Workers -> Chunks \cup {None}]
    BY DEF WorkerSteps
  <2>4. jobs \in Seq(Chunks)
    BY EmptySeq
  <2> QED BY <2>1, <2>2, <2>3, <2>4 DEF TypeOK
<1>2. SlotsExact /\ ReaderWhere /\ CollectorWhere /\ WholeFile
  BY BigFileAssumption DEF SlotsExact, ReaderWhere, CollectorWhere, WholeFile
<1>3. JobsInOrder /\ Apart /\ GapIsSeen
  BY DEF JobsInOrder, Apart, GapIsSeen, Holding, InJobs, InResults, Sent
<1> QED BY <1>1, <1>2, <1>3 DEF IInv

\* A step that leaves the places of the chunks alone and lets no worker take
\* or keep another one leaves them apart.
LEMMA SamePlaces ==
  ASSUME Apart, JobsInOrder,
         UNCHANGED <<jobs, results, pending, chunk, next, seq>>,
         Holding' \subseteq Holding
  PROVE  Apart' /\ JobsInOrder'
<1>1. UNCHANGED Sent /\ (\A c : InJobs(c)' <=> InJobs(c)) /\ (\A c : InResults(c)' <=> InResults(c))
  BY DEF Sent, InJobs, InResults
<1>2. Apart'
  BY <1>1 DEF Apart
<1>3. JobsInOrder'
  BY <1>1 DEF JobsInOrder
<1> QED BY <1>2, <1>3

\* The reader's steps that send nothing.
LEMMA ReaderInv == ASSUME IInv, Read \/ Acquire \/ Join PROVE IInv'
<1> USE DEF IInv
<1>1. /\ UNCHANGED <<jobs, results, pending, chunk, next, seq, worker, jtx>>
      /\ UNCHANGED <<panics, collector, live, cancel>>
  BY DEF Read, Acquire, Join, workVars, collVars
<1>2. TypeOK'
  <2>1. reader' \in ReaderSteps /\ outcome' \in Outcomes
    BY DEF TypeOK, Read, Acquire, Join, Break, ReaderSteps, Outcomes
  <2>2. read' \in 0 .. Declared + 1
    BY BigFileAssumption DEF TypeOK, Read, Acquire, Join, ReaderWhere
  <2>3. slots' \in 0 .. Limit
    BY LimitType DEF TypeOK, Read, Acquire, Join
  <2> QED BY <1>1, <2>1, <2>2, <2>3 DEF TypeOK
<1>3. SlotsExact'
  BY <1>1, LimitType DEF TypeOK, SlotsExact, Read, Acquire, Join, Break
<1>4. ReaderWhere'
  BY <1>1, BigFileAssumption DEF TypeOK, ReaderWhere, Read, Acquire, Join, Break
<1>5. CollectorWhere'
  BY <1>1 DEF TypeOK, CollectorWhere, Read, Acquire, Join, Break
<1>6. JobsInOrder' /\ Apart'
  BY <1>1, SamePlaces DEF Holding
<1>7. GapIsSeen'
  BY <1>1 DEF TypeOK, GapIsSeen, ReaderWhere, CollectorWhere, Read, Acquire, Join, Break
<1>8. WholeFile'
  BY <1>1, <1>4 DEF ReaderWhere, WholeFile, Read, Acquire, Join, Break
<1> QED BY <1>2, <1>3, <1>4, <1>5, <1>6, <1>7, <1>8

\* The chunk that is sent is a new one, behind all that are in the channel.
LEMMA SendInv == ASSUME IInv, Send PROVE IInv'
<1> USE DEF IInv
<1>1. /\ UNCHANGED <<results, pending, chunk, next, worker, jtx, slots, read, outcome>>
      /\ UNCHANGED <<panics, collector, live, cancel>>
      /\ reader = "send" /\ reader' = "read"
      /\ seq' = seq + 1
  BY DEF Send, workVars, collVars
<1>2. seq \in Nat /\ next \in Nat /\ next <= seq /\ seq \in Chunks /\ jtx
  BY <1>1, BigFileAssumption DEF TypeOK, ReaderWhere, Chunks
<1>3. jobs \in Seq(Chunks) /\ jobs' = Append(jobs, seq)
  BY DEF TypeOK, Send
<1>4. /\ jobs' \in Seq(Chunks)
      /\ Len(jobs') = Len(jobs) + 1
      /\ \A i \in 1 .. Len(jobs) : jobs'[i] = jobs[i]
      /\ jobs'[Len(jobs) + 1] = seq
      /\ Len(jobs) \in Nat
  BY <1>2, <1>3, AppendProperties, LenProperties
<1>5. TypeOK'
  <2>1. seq' \in 0 .. Declared
    BY <1>1, <1>2, BigFileAssumption DEF Chunks
  <2> QED BY <1>1, <1>4, <2>1 DEF TypeOK, ReaderSteps
<1>6. SlotsExact' /\ ReaderWhere' /\ CollectorWhere' /\ GapIsSeen' /\ WholeFile'
  BY <1>1, <1>2, BigFileAssumption
     DEF TypeOK, SlotsExact, ReaderWhere, CollectorWhere, GapIsSeen, WholeFile
<1>7. \A c \in Sent : c \in Sent' /\ c # seq /\ (InJobs(c)' => InJobs(c))
  BY <1>1, <1>2, <1>4 DEF Sent, InJobs
<1>8. seq \in Sent'
  BY <1>1, <1>2 DEF Sent
<1>9. JobsInOrder'
  <2>1. \A i \in 1 .. Len(jobs) : jobs[i] \in Sent /\ jobs[i] < seq
    BY <1>2 DEF JobsInOrder, Sent
  <2>2. \A i \in 1 .. Len(jobs') : i \in 1 .. Len(jobs) \/ i = Len(jobs) + 1
    BY <1>4
  <2>3. \A i \in 1 .. Len(jobs') : jobs'[i] \in Sent'
    BY <1>4, <1>7, <1>8, <2>1, <2>2
  <2>4. ASSUME NEW i \in 1 .. Len(jobs'), NEW j \in 1 .. Len(jobs'), i < j
        PROVE  jobs'[i] < jobs'[j]
    <3>1. i \in 1 .. Len(jobs)
      BY <1>4, <2>4
    <3>2. CASE j \in 1 .. Len(jobs)
      BY <1>4, <2>4, <3>1, <3>2 DEF JobsInOrder
    <3>3. CASE j = Len(jobs) + 1
      BY <1>4, <2>1, <3>1, <3>3
    <3> QED BY <2>2, <3>2, <3>3
  <2> QED BY <2>3, <2>4 DEF JobsInOrder
<1>10. Holding' = Holding /\ (\A c : InResults(c)' <=> InResults(c))
  BY <1>1 DEF Holding, InResults
<1>11. Apart'
  BY <1>1, <1>7, <1>10 DEF Apart
<1> QED BY <1>5, <1>6, <1>9, <1>11

\* The channel is closed: from now on a worker that is gone has nothing in hand.
LEMMA DropInv == ASSUME IInv, Drop PROVE IInv'
<1> USE DEF IInv
<1>1. /\ UNCHANGED <<jobs, results, pending, chunk, next, seq, worker, slots, read, outcome>>
      /\ UNCHANGED <<panics, collector, live, cancel>>
      /\ reader = "drop" /\ reader' = "join" /\ jtx /\ jtx' = FALSE
  BY DEF Drop, workVars, collVars, ReaderWhere
<1>2. TypeOK'
  BY <1>1 DEF TypeOK, ReaderSteps
<1>3. SlotsExact' /\ ReaderWhere' /\ CollectorWhere' /\ WholeFile'
  BY <1>1 DEF SlotsExact, ReaderWhere, CollectorWhere, WholeFile
<1>4. JobsInOrder' /\ Apart'
  BY <1>1, SamePlaces DEF Holding
<1>5. GapIsSeen'
  BY <1>1 DEF TypeOK, GapIsSeen, CollectorWhere, CollectorSteps
<1> QED BY <1>2, <1>3, <1>4, <1>5

\* Only a file whose chunks have all been written is accepted.
LEMMA JudgeInv == ASSUME IInv, Judge PROVE IInv'
<1> USE DEF IInv
<1>1. /\ UNCHANGED <<jobs, results, pending, chunk, next, seq, worker, jtx, slots, read>>
      /\ UNCHANGED <<panics, collector, live, cancel>>
      /\ reader = "judge" /\ reader' = "end" /\ ~jtx /\ ~live
  BY DEF Judge, workVars, collVars, ReaderWhere, CollectorWhere
<1>2. TypeOK'
  BY <1>1 DEF TypeOK, ReaderSteps, Outcomes, Judge
<1>3. SlotsExact' /\ ReaderWhere' /\ CollectorWhere'
  BY <1>1 DEF SlotsExact, ReaderWhere, CollectorWhere
<1>4. JobsInOrder' /\ Apart'
  BY <1>1, SamePlaces DEF Holding
<1>5. outcome' # "none" /\ GapIsSeen'
  BY <1>1 DEF Judge, GapIsSeen
<1>6. WholeFile'
  <2> SUFFICES ASSUME outcome' = "zip" PROVE next = read /\ read = Declared
    BY <1>1 DEF WholeFile
  <2>1. outcome = "none" /\ collector # "failed" /\ next = seq /\ read = Declared
    BY <1>1 DEF Judge, ReaderWhere
  <2>2. read = seq
    BY <1>1, <2>1 DEF GapIsSeen, TypeOK
  <2> QED BY <2>1, <2>2
<1> QED BY <1>2, <1>3, <1>4, <1>5, <1>6

-----------------------------------------------------------------------------
\* A worker takes the first chunk out of the channel into its hand.
LEMMA ReceiveInv == ASSUME IInv, NEW w \in Workers, Receive(w) PROVE IInv'
<1> USE DEF IInv
<1>1. /\ UNCHANGED <<results, pending, next, seq, jtx, slots, read, outcome, reader>>
      /\ UNCHANGED <<panics, collector, live, cancel>>
      /\ worker[w] = "recv"
  BY DEF Receive, readVars, collVars
<1>2. SlotsExact' /\ ReaderWhere' /\ CollectorWhere' /\ WholeFile' /\ GapIsSeen'
  BY <1>1 DEF SlotsExact, ReaderWhere, CollectorWhere, WholeFile, GapIsSeen
<1>3. CASE jobs = <<>>
  <2>1. /\ UNCHANGED <<chunk, jobs>> /\ ~jtx
        /\ worker' = [worker EXCEPT ![w] = "left"]
    BY <1>3 DEF Receive, Leave
  <2>2. TypeOK'
    BY <1>1, <2>1 DEF TypeOK, WorkerSteps
  <2>3. Holding' \subseteq Holding
    BY <1>1, <2>1 DEF Holding, TypeOK
  <2> QED BY <1>1, <1>2, <2>1, <2>2, <2>3, SamePlaces
<1>4. CASE jobs # <<>>
  <2>0. PICK c : c = Head(jobs)
    OBVIOUS
  <2>1. /\ chunk' = [chunk EXCEPT ![w] = c]
        /\ jobs' = Tail(jobs)
        /\ worker' = [worker EXCEPT ![w] = "deflate"]
    BY <1>4, <2>0 DEF Receive
  <2>2. /\ jobs \in Seq(Chunks) /\ c \in Chunks /\ c = jobs[1] /\ Len(jobs) \in Nat \ {0}
        /\ jobs' \in Seq(Chunks) /\ Len(jobs') = Len(jobs) - 1
        /\ \A i \in 1 .. Len(jobs') : jobs'[i] = jobs[i + 1]
    BY <1>4, <2>0, <2>1, HeadTailProperties, LenProperties, EmptySeq DEF TypeOK
  <2>3. TypeOK'
    BY <1>1, <2>1, <2>2 DEF TypeOK, WorkerSteps
  <2>4. UNCHANGED Sent /\ (\A d : InResults(d)' <=> InResults(d))
    BY <1>1 DEF Sent, InResults
  <2>5. c \in Sent /\ InJobs(c) /\ (\A d : InJobs(d)' => InJobs(d))
    BY <2>2 DEF JobsInOrder, InJobs
  <2>6. /\ \A i \in 1 .. Len(jobs') : i + 1 \in 1 .. Len(jobs) /\ jobs'[i] = jobs[i + 1]
        /\ \A i \in 1 .. Len(jobs) : jobs[i] \in Nat
    <3>1. Sent \subseteq Nat
      BY DEF TypeOK, Sent
    <3>2. \A i \in 1 .. Len(jobs) : jobs[i] \in Nat
      BY <3>1 DEF JobsInOrder
    <3>3. \A i \in 1 .. Len(jobs') : i + 1 \in 1 .. Len(jobs)
      BY <2>2
    <3>4. \A i \in 1 .. Len(jobs') : jobs'[i] = jobs[i + 1]
      BY <2>2
    <3> QED BY <3>2, <3>3, <3>4
  <2>7. ~InJobs(c)'
    <3>1. \A i \in 1 .. Len(jobs') : c < jobs'[i]
      BY <2>2, <2>6 DEF JobsInOrder
    <3>2. c \in Nat
      BY <2>2, <2>6
    <3> QED BY <3>1, <3>2, <2>6 DEF InJobs
  <2>8. JobsInOrder'
    <3>1. \A i \in 1 .. Len(jobs') : jobs'[i] \in Sent'
      BY <2>4, <2>6 DEF JobsInOrder
    <3>2. ASSUME NEW i \in 1 .. Len(jobs'), NEW j \in 1 .. Len(jobs'), i < j
          PROVE  jobs'[i] < jobs'[j]
      <4>1. i + 1 \in 1 .. Len(jobs) /\ j + 1 \in 1 .. Len(jobs) /\ i + 1 < j + 1
        BY <3>2, <2>6
      <4>2. jobs[i + 1] < jobs[j + 1]
        BY <4>1 DEF JobsInOrder
      <4> QED BY <2>6, <4>2
    <3> QED BY <3>1, <3>2 DEF JobsInOrder
  <2>9. /\ chunk'[w] = c /\ w \notin Holding
        /\ Holding' = Holding \cup {w}
        /\ \A v \in Holding : v # w /\ chunk'[v] = chunk[v]
    BY <1>1, <2>1 DEF TypeOK, Holding
  <2>10. Apart'
    <3>1. ~InResults(c) /\ c \notin pending /\ \A v \in Holding : chunk[v] # c
      BY <2>5 DEF Apart, InResults
    <3>2. \A r \in results : r[1] \in Sent' /\ r[1] \notin pending' /\ ~InJobs(r[1])'
      BY <1>1, <2>4, <2>5 DEF Apart
    <3>3. \A d \in pending : ~InJobs(d)'
      BY <2>5 DEF Apart
    <3>4. \A v \in Holding' :
             /\ chunk'[v] \in Sent' /\ chunk'[v] \notin pending'
             /\ ~InJobs(chunk[v])' /\ ~InResults(chunk[v])'
      BY <1>1, <2>4, <2>5, <2>7, <2>9, <3>1 DEF Apart, InJobs, InResults
    <3>5. \A u, v \in Holding' : chunk'[u] = chunk'[v] => u = v
      BY <2>9, <3>1 DEF Apart
    <3> QED BY <1>1, <2>4, <3>2, <3>3, <3>4, <3>5 DEF Apart
  <2> QED BY <1>2, <2>3, <2>8, <2>10
<1> QED BY <1>3, <1>4

\* The chunk goes from the hand of the worker to the collector, or it is lost.
LEMMA DeflateInv ==
  ASSUME IInv, NEW w \in Workers, Deflate(w) \/ Panic(w)
  PROVE  IInv'
<1> USE DEF IInv
<1>1. /\ UNCHANGED <<jobs, chunk, pending, next, seq, jtx, slots, read, outcome, reader>>
      /\ UNCHANGED <<collector, live, cancel>>
      /\ worker[w] = "deflate" /\ w \in Holding
  BY DEF Deflate, Panic, readVars, collVars, Holding
<1>2. SlotsExact' /\ ReaderWhere' /\ CollectorWhere' /\ WholeFile' /\ GapIsSeen'
  BY <1>1 DEF SlotsExact, ReaderWhere, CollectorWhere, WholeFile, GapIsSeen
<1>3. CASE UNCHANGED results /\ Leave(w) /\ panics' \in 0 .. MaxPanics
  <2>1. worker' = [worker EXCEPT ![w] = "left"]
    BY <1>3 DEF Leave
  <2>2. TypeOK'
    BY <1>1, <1>3, <2>1 DEF TypeOK, WorkerSteps
  <2>3. Holding' \subseteq Holding
    BY <1>1, <2>1 DEF Holding, TypeOK
  <2> QED BY <1>1, <1>2, <1>3, <2>2, <2>3, SamePlaces
<1>4. CASE /\ UNCHANGED panics
           /\ worker' = [worker EXCEPT ![w] = "recv"]
           /\ \E good \in BOOLEAN : results' = results \cup {<<chunk[w], good>>}
  <2>1. PICK good \in BOOLEAN : results' = results \cup {<<chunk[w], good>>}
    BY <1>4
  <2>2. chunk[w] \in Sent /\ Sent \subseteq Chunks
    <3>1. chunk[w] \in Sent
      BY <1>1 DEF Apart
    <3>2. Sent \subseteq Chunks
      BY BigFileAssumption DEF TypeOK, Sent, Chunks
    <3> QED BY <3>1, <3>2
  <2>3. TypeOK'
    BY <1>1, <1>4, <2>1, <2>2 DEF TypeOK, WorkerSteps
  <2>4. UNCHANGED Sent /\ (\A d : InJobs(d)' <=> InJobs(d))
    BY <1>1 DEF Sent, InJobs
  <2>5. JobsInOrder'
    BY <1>1, <2>4 DEF JobsInOrder
  <2>6. Holding' = Holding \ {w}
    BY <1>1, <1>4 DEF Holding, TypeOK
  <2>7. \A v \in Holding' : v # w /\ chunk[v] # chunk[w] /\ ~InResults(chunk[v])'
    BY <1>1, <2>1, <2>6 DEF Apart, InResults
  <2>8. Apart'
    BY <1>1, <2>1, <2>4, <2>6, <2>7 DEF Apart, InResults
  <2> QED BY <1>2, <2>3, <2>5, <2>8
<1>5. MaxPanics \in Nat /\ panics \in 0 .. MaxPanics /\ MayBreak \in BOOLEAN
  BY BigFileAssumption DEF TypeOK
<1>6. CASE Panic(w)
  BY <1>3, <1>5, <1>6 DEF Panic
<1>7. CASE Deflate(w)
  BY <1>3, <1>4, <1>5, <1>7 DEF Deflate
<1> QED BY <1>6, <1>7

-----------------------------------------------------------------------------
\* The collector takes one message, or learns that none will come.
LEMMA CollectInv == ASSUME IInv, Collect PROVE IInv'
<1> USE DEF IInv
<1>1. /\ UNCHANGED <<jobs, chunk, worker, next, seq, jtx, slots, read, outcome, reader>>
      /\ UNCHANGED <<panics, live, cancel>>
      /\ collector = "recv" /\ live
      /\ collector' \in {"write", "over", "overFailed"}
  BY DEF Collect, readVars, workVars, CollectorWhere
<1>2. SlotsExact' /\ ReaderWhere' /\ CollectorWhere' /\ WholeFile'
  BY <1>1 DEF SlotsExact, ReaderWhere, CollectorWhere, WholeFile
<1>3. UNCHANGED <<Sent, Holding>> /\ (\A d : InJobs(d)' <=> InJobs(d)) /\ JobsInOrder'
  BY <1>1 DEF Sent, Holding, InJobs, JobsInOrder
<1>4. CASE \E r \in results :
             /\ results' = results \ {r}
             /\ IF r[2]
                   THEN pending' = pending \cup {r[1]} /\ collector' = "write"
                   ELSE collector' = "overFailed" /\ UNCHANGED pending
  <2>1. PICK r \in results :
             /\ results' = results \ {r}
             /\ IF r[2]
                   THEN pending' = pending \cup {r[1]} /\ collector' = "write"
                   ELSE collector' = "overFailed" /\ UNCHANGED pending
    BY <1>4
  <2>2. r[1] \in Chunks
    BY DEF TypeOK
  <2>3. pending \subseteq pending' /\ pending' \subseteq pending \cup {r[1]}
        /\ collector' \in {"write", "overFailed"}
    BY <2>1
  <2>4. TypeOK'
    BY <1>1, <2>1, <2>2, <2>3 DEF TypeOK, CollectorSteps
  <2>5. GapIsSeen'
    BY <1>1, <2>3 DEF GapIsSeen
  <2>6. \A s \in results' : s \in results /\ s[1] # r[1]
    BY <2>1 DEF Apart
  <2>7. \A d : InResults(d)' => InResults(d)
    BY <2>6 DEF InResults
  <2>8. InResults(r[1])
    BY DEF InResults
  <2>9. Apart'
    BY <1>1, <1>3, <2>3, <2>6, <2>7, <2>8 DEF Apart
  <2> QED BY <1>2, <1>3, <2>4, <2>5, <2>9
<1>5. CASE /\ results = {} /\ \A w \in Workers : worker[w] = "left"
           /\ \/ pending = {} /\ collector' = "over"
              \/ collector' = "overFailed"
           /\ UNCHANGED <<results, pending>>
  <2>1. TypeOK'
    BY <1>1, <1>5 DEF TypeOK, CollectorSteps
  <2>2. jtx => next < seq
    <3> SUFFICES ASSUME jtx PROVE next < seq
      OBVIOUS
    <3>1. PICK w \in Workers : worker[w] = "left"
      BY <1>5, BigFileAssumption
    <3>2. chunk[w] \in Sent
      BY <3>1 DEF Apart, Holding
    <3> QED BY <3>2 DEF Sent, TypeOK
  <2>3. GapIsSeen'
    BY <1>1, <1>5, <2>2 DEF GapIsSeen
  <2>4. Apart'
    BY <1>1, <1>3, <1>5, SamePlaces
  <2> QED BY <1>2, <1>3, <2>1, <2>3, <2>4
<1> QED BY <1>4, <1>5 DEF Collect

\* The chunk whose turn it is leaves memory, and its slot comes back with it.
LEMMA WriteInv == ASSUME IInv, Write PROVE IInv'
<1> USE DEF IInv
<1>1. /\ UNCHANGED <<jobs, chunk, worker, results, seq, jtx, read, outcome, reader>>
      /\ UNCHANGED <<panics, live, cancel>>
      /\ collector = "write" /\ live
      /\ collector' \in {"write", "recv", "overFailed"}
  BY DEF Write, readVars, workVars, CollectorWhere
<1>2. UNCHANGED Holding /\ (\A d : InJobs(d)' <=> InJobs(d)) /\ (\A d : InResults(d)' <=> InResults(d))
  BY <1>1 DEF Holding, InJobs, InResults
<1>3. seq \in Nat /\ next \in Nat /\ next <= seq /\ slots \in Nat /\ Limit \in Nat /\ slots <= Limit
  BY LimitType DEF TypeOK, ReaderWhere
<1>4. outcome # "zip"
  BY <1>1 DEF ReaderWhere, CollectorWhere
<1>5. GapIsSeen' /\ CollectorWhere' /\ WholeFile'
  BY <1>1, <1>4 DEF GapIsSeen, CollectorWhere, WholeFile
<1>6. CASE UNCHANGED <<next, slots>> /\ pending' \subseteq pending
  <2>1. TypeOK'
    BY <1>1, <1>6 DEF TypeOK, CollectorSteps
  <2>2. SlotsExact' /\ ReaderWhere'
    BY <1>1, <1>6 DEF SlotsExact, ReaderWhere
  <2>3. UNCHANGED Sent
    BY <1>1, <1>6 DEF Sent
  <2>4. JobsInOrder' /\ Apart'
    BY <1>1, <1>2, <1>6, <2>3 DEF JobsInOrder, Apart
  <2> QED BY <1>5, <2>1, <2>2, <2>4
<1>7. CASE /\ next \in pending
           /\ pending' = pending \ {next}
           /\ next' = next + 1
           /\ slots' = slots - 1
  <2>1. next < seq
    BY <1>3, <1>7 DEF Apart, Sent
  <2>2. slots > 0
    BY <1>3, <2>1 DEF SlotsExact
  <2>3. TypeOK'
    BY <1>1, <1>3, <1>7, <2>1, <2>2, BigFileAssumption DEF TypeOK, CollectorSteps
  <2>4. SlotsExact' /\ ReaderWhere'
    BY <1>1, <1>3, <1>7, <2>1 DEF SlotsExact, ReaderWhere
  <2>5. Sent' = Sent \ {next}
    BY <1>1, <1>3, <1>7 DEF Sent
  <2>6. JobsInOrder'
    BY <1>1, <1>7, <2>5 DEF JobsInOrder, Apart, InJobs
  <2>7. Apart'
    BY <1>1, <1>2, <1>7, <2>5 DEF Apart
  <2> QED BY <1>5, <2>3, <2>4, <2>6, <2>7
<1> QED BY <1>1, <1>6, <1>7 DEF Write

\* The end of the collector, and the cancellation, touch only flags.
LEMMA FlagInv == ASSUME IInv, Over \/ Cancel PROVE IInv'
<1> USE DEF IInv
<1>1. /\ UNCHANGED <<jobs, results, pending, chunk, next, seq, worker, jtx, slots>>
      /\ UNCHANGED <<panics, read, reader, outcome>>
  BY DEF Over, Cancel, readVars, workVars, collVars
<1>2. TypeOK'
  BY <1>1 DEF TypeOK, Over, Cancel, collVars, CollectorSteps
<1>3. SlotsExact' /\ ReaderWhere' /\ WholeFile'
  BY <1>1 DEF SlotsExact, ReaderWhere, WholeFile
<1>4. CollectorWhere' /\ GapIsSeen'
  BY <1>1 DEF CollectorWhere, GapIsSeen, Over, Cancel, collVars
<1>5. JobsInOrder' /\ Apart'
  BY <1>1, SamePlaces DEF Holding
<1> QED BY <1>2, <1>3, <1>4, <1>5

-----------------------------------------------------------------------------
\* Every step preserves the invariant.
LEMMA NextInv == IInv /\ [Next]_vars => IInv'
<1> SUFFICES ASSUME IInv, [Next]_vars PROVE IInv'
  OBVIOUS
<1>1. CASE Reader
  BY <1>1, ReaderInv, SendInv, DropInv, JudgeInv DEF Reader
<1>2. CASE Collector
  BY <1>2, CollectInv, WriteInv, FlagInv DEF Collector
<1>3. CASE Cancel
  BY <1>3, FlagInv
<1>4. ASSUME NEW w \in Workers, Work(w) \/ Panic(w) PROVE IInv'
  BY <1>4, ReceiveInv, DeflateInv DEF Work
<1>5. CASE UNCHANGED vars
  <2>1. UNCHANGED <<reader, read, seq, slots, jobs, jtx, worker, chunk, panics, results>>
        /\ UNCHANGED <<collector, pending, next, live, cancel, outcome>>
    BY <1>5 DEF vars, readVars, workVars, collVars
  <2>2. (TypeOK /\ SlotsExact /\ ReaderWhere /\ CollectorWhere /\ GapIsSeen /\ WholeFile)'
    BY <2>1 DEF IInv, TypeOK, SlotsExact, ReaderWhere, CollectorWhere, GapIsSeen, WholeFile
  <2>3. JobsInOrder' /\ Apart'
    BY <2>1, SamePlaces DEF IInv, Holding
  <2> QED BY <2>2, <2>3 DEF IInv
<1> QED BY <1>1, <1>2, <1>3, <1>4, <1>5 DEF Next

\* The inductive invariant holds in every behaviour.
THEOREM Invariance == Spec => []IInv
<1> QED BY InitInv, NextInv, PTL DEF Spec

\* Every variable has its type: the counters stay within the file and the limit.
THEOREM TypeCorrect == Spec => []TypeOK
<1>1. IInv => TypeOK
  BY DEF IInv
<1> QED BY <1>1, Invariance, PTL

\* The chunks in memory are counted by the slots exactly, stay within them, and
\* each is in one place, whatever fails.
THEOREM MemoryIsCounted == Spec => []ChunksCounted
<1>1. IInv => OnePlace
  <2> SUFFICES ASSUME IInv PROVE OnePlace
    OBVIOUS
  <2>1. \A w \in Workers : worker[w] = "deflate" => w \in Holding
    BY DEF Holding
  <2>2. \A c \in Sent : c >= next
    BY DEF Sent, IInv, TypeOK
  <2> QED BY <2>1, <2>2 DEF IInv, Apart, OnePlace, InResults
<1>2. IInv => ChunksCounted
  BY <1>1 DEF IInv, ChunksCounted
<1> QED BY <1>2, Invariance, PTL

\* compress accepts its result only if it holds every chunk of the file, and the
\* file has the length it had when it was collected.
THEOREM OnlyWholeFiles == Spec => []WholeFile
<1>1. IInv => WholeFile
  BY DEF IInv
<1> QED BY <1>1, Invariance, PTL

=============================================================================
