------------------------------ MODULE Pipeline ------------------------------
(***************************************************************************)
(* Creating a zip with several threads: the pipeline of parallel.rs and    *)
(* the main loop of do_create (create.rs) in                               *)
(* crates/zipmania-archive/src/backend/unzip.                              *)
(*                                                                         *)
(* Workers take the small items in order, each makes a zip of one entry in *)
(* memory, within a budget of bytes; the main thread goes through all      *)
(* items in order and appends a finished entry, waiting for it if it must. *)
(* The budget of an entry is given back when the main thread takes it.     *)
(*                                                                         *)
(* A waiter polls every 50 ms, so that notifications do not matter: a wait *)
(* is a step that is not enabled.  Contents are left out; an item that     *)
(* grew since it was collected makes a worker answer "toobig".             *)
(***************************************************************************)
EXTENDS Naturals, Sequences, FiniteSets, FiniteSetsExt

CONSTANTS
    NItems,     \* how many items have been collected
    Size,       \* InputItem.size, by item
    Grown,      \* the items that are longer now than when they were collected
    Workers,    \* the worker threads
    Budget,     \* BUDGET
    MaxEntry,   \* MAX_ENTRY: what is larger is streamed by the main thread
    MinItems,   \* MIN_ITEMS: fewer items are not worth the threads
    MaxPanics   \* bound: how many workers die of a panic

Items == 1 .. NItems

ASSUME PipelineAssumption ==
    /\ NItems \in Nat
    /\ Size \in [Items -> Nat]
    /\ Budget \in Nat /\ MaxEntry \in Nat /\ MaxEntry <= Budget
    /\ MinItems \in Nat /\ MaxPanics \in Nat
    /\ IsFiniteSet(Workers)

\* eligible(): the items that go to the workers, or none.
Small    == {i \in Items : Size[i] <= MaxEntry}
Eligible == IF Cardinality(Workers) < 2 \/ Cardinality(Small) < MinItems THEN {} ELSE Small

None == 0

VARIABLES
    unclaimed,  \* the jobs that no worker has taken: those from next on
    used,       \* Budget.used
    alive,      \* Pipeline.alive
    worker,     \* how far every worker is
    job,        \* the item it works on
    ready,      \* Done.map: the finished entries, by item
    stop,       \* Pipeline.stop
    cancel,     \* the flag shared with the registry of jobs
    main,       \* how far the main thread is
    item,       \* the item it is at
    piece,      \* what it has taken for that item
    archive,    \* the items appended to the archive
    outcome,    \* what do_create is going to return
    lost        \* history: the items whose worker left without an entry

workVars == <<unclaimed, alive, worker, job, lost>>
mainVars == <<main, item, piece, archive, outcome>>
vars == <<workVars, used, ready, stop, cancel, mainVars>>

Pieces == {"none", "zip", "toobig", "error"}

WorkerSteps == {"idle", "claimed", "working", "left"}

\* "take": in Pipeline::take, before it looks at the map; "mourn": it has seen
\* no entry and no flag and is about to count the living, still with the lock
\* of the map; "repay": it has the entry, its budget is still taken.
MainSteps == {"item", "take", "mourn", "repay", "copy", "stream", "stopping", "joining", "end"}

Init ==
    /\ unclaimed = Eligible
    /\ used = 0
    /\ alive = IF Eligible = {} THEN 0 ELSE Cardinality(Workers)
    /\ worker = [w \in Workers |-> IF Eligible = {} THEN "left" ELSE "idle"]
    /\ job = [w \in Workers |-> None]
    /\ ready = [i \in Items |-> "none"]
    /\ stop = FALSE /\ cancel = FALSE
    /\ main = "item" /\ item = 1 /\ piece = "none"
    /\ archive = <<>> /\ outcome = "none"
    /\ lost = {}

-----------------------------------------------------------------------------
(* A worker. *)

\* Mutant of LeaveWith: the living are counted down by hand and by the drop.
LeaveTwice(w, items) ==
    /\ worker' = [worker EXCEPT ![w] = "left"]
    /\ alive' = alive - 2
    /\ lost' = lost \cup items

\* The thread ends: Leave is dropped.  Its item, if it has one, has no entry.
LeaveWith(w, items) ==
    /\ worker' = [worker EXCEPT ![w] = "left"]
    /\ alive' = alive - 1
    /\ lost' = lost \cup items

\* Mutant of Claim: the next job is read and advanced in two steps.
ClaimRacy(w) ==
    /\ worker[w] = "idle"
    /\ IF stop \/ cancel \/ unclaimed = {}
          THEN LeaveWith(w, {}) /\ UNCHANGED <<unclaimed, job>>
          ELSE \E i \in unclaimed :
                  /\ \A k \in unclaimed : i <= k
                  /\ unclaimed' = unclaimed \ {i} \/ UNCHANGED unclaimed
                  /\ job' = [job EXCEPT ![w] = i]
                  /\ worker' = [worker EXCEPT ![w] = "claimed"]
                  /\ UNCHANGED <<alive, lost>>
    /\ UNCHANGED <<used, ready, stop, cancel, mainVars>>

\* The top of the loop: leave when told to, otherwise claim the next job; with
\* none left, leave.
Claim(w) ==
    /\ worker[w] = "idle"
    /\ IF stop \/ cancel \/ unclaimed = {}
          THEN LeaveWith(w, {}) /\ UNCHANGED <<unclaimed, job>>
          ELSE \E i \in unclaimed :
                  /\ \A k \in unclaimed : i <= k
                  /\ unclaimed' = unclaimed \ {i}
                  /\ job' = [job EXCEPT ![w] = i]
                  /\ worker' = [worker EXCEPT ![w] = "claimed"]
                  /\ UNCHANGED <<alive, lost>>
    /\ UNCHANGED <<used, ready, stop, cancel, mainVars>>

\* Mutant of Fits: the budget is looked at without the bytes asked for.
FitsBefore(n) == used < Budget

\* Budget::acquire: the condition under which n bytes are given out.
Fits(n) == used = 0 \/ used + n <= Budget

\* Mutant of Acquire: who waits for budget does not look at the flag.
AcquireUnstoppable(w) ==
    /\ worker[w] = "claimed"
    /\ Fits(Size[job[w]])
    /\ used' = used + Size[job[w]]
    /\ worker' = [worker EXCEPT ![w] = "working"]
    /\ UNCHANGED <<unclaimed, alive, lost, job, ready, stop, cancel, mainVars>>

Acquire(w) ==
    /\ worker[w] = "claimed"
    /\ \/ /\ stop
          /\ LeaveWith(w, {})
          /\ UNCHANGED used
       \/ /\ ~stop /\ Fits(Size[job[w]])
          /\ used' = used + Size[job[w]]
          /\ worker' = [worker EXCEPT ![w] = "working"]
          /\ UNCHANGED <<alive, lost>>
    /\ UNCHANGED <<unclaimed, job, ready, stop, cancel, mainVars>>

\* one_entry_zip has an answer and it goes into the map: not while take holds it.
Deliver(w) ==
    /\ worker[w] = "working"
    /\ main # "mourn"
    /\ \E p \in {IF job[w] \in Grown THEN "toobig" ELSE "zip", "error"} :
          ready' = [ready EXCEPT ![job[w]] = p]
    /\ worker' = [worker EXCEPT ![w] = "idle"]
    /\ UNCHANGED <<unclaimed, used, alive, job, lost, stop, cancel, mainVars>>

\* one_entry_zip sees a flag between two reads: no entry, the thread leaves.
Abandon(w) ==
    /\ worker[w] = "working"
    /\ stop \/ cancel
    /\ LeaveWith(w, {job[w]})
    /\ UNCHANGED <<unclaimed, used, job, ready, stop, cancel, mainVars>>

\* How many workers have panicked: none but they and the told leave an item behind.
Panic(w) ==
    /\ worker[w] = "working"
    /\ Cardinality(lost) < MaxPanics /\ ~stop /\ ~cancel
    /\ LeaveWith(w, {job[w]})
    /\ UNCHANGED <<unclaimed, used, job, ready, stop, cancel, mainVars>>

-----------------------------------------------------------------------------
(* The main thread. *)

\* bail!: what do_create is going to return is settled, the pipeline is stopped.
Bail(result) == outcome' = result /\ main' = "stopping" /\ UNCHANGED <<item, piece, archive>>

\* The top of the loop over the items.
Item ==
    /\ main = "item"
    /\ IF item > NItems
          THEN main' = "stopping" /\ UNCHANGED <<item, piece, archive, outcome>>
          ELSE \/ cancel /\ Bail("canceled")
               \/ /\ ~cancel
                  /\ main' = IF item \in Eligible THEN "take" ELSE "stream"
                  /\ UNCHANGED <<item, piece, archive, outcome>>
    /\ UNCHANGED <<workVars, used, ready, stop, cancel>>

\* Pipeline::take: the entry is there, or a flag is up, or the living are counted.
Take ==
    /\ main = "take"
    /\ \/ /\ ready[item] # "none"
          /\ piece' = ready[item]
          /\ ready' = [ready EXCEPT ![item] = "none"]
          /\ main' = "repay"
          /\ UNCHANGED <<item, archive, outcome>>
       \/ /\ ready[item] = "none"
          /\ IF cancel \/ stop
                THEN Bail("canceled")
                ELSE main' = "mourn" /\ UNCHANGED <<item, piece, archive, outcome>>
          /\ UNCHANGED ready
    /\ UNCHANGED <<workVars, used, stop, cancel>>

\* Mutant of Mourn: take does not count the living.
MournNever ==
    /\ main = "mourn"
    /\ main' = "take"
    /\ UNCHANGED <<workVars, used, ready, stop, cancel, item, piece, archive, outcome>>

\* Nobody is left and the entry is not there: it never will be.
Mourn ==
    /\ main = "mourn"
    /\ IF alive = 0
          THEN Bail("died")
          ELSE main' = "take" /\ UNCHANGED <<item, piece, archive, outcome>>
    /\ UNCHANGED <<workVars, used, ready, stop, cancel>>

\* Mutants of Repay: only a usable entry gives its budget back; an item that
\* grew is passed over.
RepayZip ==
    /\ main = "repay"
    /\ used' = IF piece = "zip" THEN used - Size[item] ELSE used
    /\ \/ piece = "error" /\ Bail("failed")
       \/ piece = "zip" /\ main' = "copy" /\ UNCHANGED <<item, piece, archive, outcome>>
       \/ piece = "toobig" /\ main' = "stream" /\ UNCHANGED <<item, piece, archive, outcome>>
    /\ UNCHANGED <<workVars, ready, stop, cancel>>
RepaySkipping ==
    /\ main = "repay"
    /\ used' = IF used < Size[item] THEN 0 ELSE used - Size[item]
    /\ \/ piece = "error" /\ Bail("failed")
       \/ piece = "zip" /\ main' = "copy" /\ UNCHANGED <<item, piece, archive, outcome>>
       \/ /\ piece = "toobig" /\ main' = "item" /\ item' = item + 1
          /\ UNCHANGED <<piece, archive, outcome>>
    /\ UNCHANGED <<workVars, ready, stop, cancel>>

\* Budget::release, after the lock of the map.
Repay ==
    /\ main = "repay"
    /\ used' = IF used < Size[item] THEN 0 ELSE used - Size[item]
    /\ \/ piece = "error" /\ Bail("failed")
       \/ piece = "zip" /\ main' = "copy" /\ UNCHANGED <<item, piece, archive, outcome>>
       \/ piece = "toobig" /\ main' = "stream" /\ UNCHANGED <<item, piece, archive, outcome>>
    /\ UNCHANGED <<workVars, ready, stop, cancel>>

\* The item is in the archive.
Done ==
    /\ archive' = Append(archive, item)
    /\ item' = item + 1
    /\ main' = "item" /\ piece' = "none"
    /\ UNCHANGED outcome

\* The finished entry is appended as it is, or the disk is full.
Copy ==
    /\ main = "copy"
    /\ Done \/ Bail("failed")
    /\ UNCHANGED <<workVars, used, ready, stop, cancel>>

\* The main thread compresses the item itself, block by block: it may see the
\* flag, it may fail.
Stream ==
    /\ main = "stream"
    /\ Done \/ Bail("failed") \/ (cancel /\ Bail("canceled"))
    /\ UNCHANGED <<workVars, used, ready, stop, cancel>>

\* Pipeline::stop: the flag, then every thread is joined.
Stop ==
    /\ main = "stopping"
    /\ stop' = TRUE
    /\ main' = "joining"
    /\ UNCHANGED <<workVars, used, ready, cancel, item, piece, archive, outcome>>

\* The threads have been joined; without an outcome so far, the archive is
\* finished and put in its place, which may fail.
Join ==
    /\ main = "joining"
    /\ \A w \in Workers : worker[w] = "left"
    /\ main' = "end"
    /\ IF outcome = "none"
          THEN \E result \in {"ok", "failed"} : outcome' = result
          ELSE UNCHANGED outcome
    /\ UNCHANGED <<workVars, used, ready, stop, cancel, item, piece, archive>>

\* The user cancels, or the window is gone.
Cancel ==
    /\ ~cancel /\ main # "end"
    /\ cancel' = TRUE
    /\ UNCHANGED <<workVars, used, ready, stop, mainVars>>

-----------------------------------------------------------------------------
Work(w) == Claim(w) \/ Acquire(w) \/ Deliver(w) \/ Abandon(w)
Main    == Item \/ Take \/ Repay \/ Copy \/ Stream \/ Stop \/ Join

Next ==
    \/ \E w \in Workers : Work(w) \/ Panic(w)
    \/ Main \/ Mourn
    \/ Cancel

(***************************************************************************)
(* Every thread gets on with its work when it can: a poll that finds what  *)
(* it polls for is carried out, a compression comes to an end.  The lock   *)
(* of the map is held for an instant, so that nobody is kept from it.      *)
(***************************************************************************)
Fairness ==
    /\ \A w \in Workers : WF_vars(Claim(w)) /\ SF_vars(Acquire(w))
                          /\ SF_vars(Deliver(w) \/ Abandon(w))
    /\ WF_vars(Main) /\ WF_vars(Mourn)

Spec == Init /\ [][Next]_vars /\ Fairness

-----------------------------------------------------------------------------
(* What the pipeline promises. *)

TypeOK ==
    /\ unclaimed \subseteq Eligible
    /\ used \in Nat /\ alive \in Nat
    /\ worker \in [Workers -> WorkerSteps]
    /\ job \in [Workers -> Eligible \cup {None}]
    /\ ready \in [Items -> Pieces]
    /\ stop \in BOOLEAN /\ cancel \in BOOLEAN
    /\ main \in MainSteps /\ item \in 1 .. NItems + 1 /\ piece \in Pieces
    /\ archive \in Seq(Items)
    /\ outcome \in {"none", "ok", "canceled", "failed", "died"}
    /\ lost \subseteq Eligible

\* The items whose bytes are counted in the budget.
Charged ==
    {job[w] : w \in {v \in Workers : worker[v] = "working"}}
       \cup {i \in Items : ready[i] # "none"}
       \cup (IF main = "repay" THEN {item} ELSE {})
       \cup lost

\* The budget is exact: what is counted is what the items in memory were
\* counted with, also after errors, panics and a cancellation in between.
BudgetExact == used = MapThenSumSet(LAMBDA i : Size[i], Charged)

\* The memory of finished and unfinished entries is bounded, whatever order
\* the workers are scheduled in.
BudgetHolds == used <= Budget

\* Each item is worked on once: no entry is made twice, or for an item that
\* the main thread has passed.
OneEntryEach ==
    /\ \A v, w \in Workers :
          v # w /\ {worker[v], worker[w]} \subseteq {"claimed", "working"} => job[v] # job[w]
    /\ \A w \in Workers : worker[w] \in {"claimed", "working"} =>
          job[w] >= item /\ ready[job[w]] = "none"
    /\ \A i \in Items : ready[i] # "none" => i >= item

\* With threads or without, the archive is made the same way.
A == INSTANCE ArchiveCreation
        WITH asked <- cancel,
             outcome <- IF outcome = "died" THEN "failed" ELSE outcome
Creation == A!CreationSpec

\* A cancelled creation comes to its end, also when workers wait for budget.
CancelEnds == cancel ~> (main = "end")

\* The main thread waits for an entry, and every worker that lives for budget,
\* which only the main thread gives back.
Starved ==
    /\ main \in {"take", "mourn"} /\ ready[item] = "none"
    /\ \E w \in Workers : worker[w] # "left"
    /\ \A w \in Workers :
          worker[w] = "left" \/ (worker[w] = "claimed" /\ ~Fits(Size[job[w]]))

\* do_create returns, also when workers die, unless its workers starve: there is no
\* other way for the main thread and the workers to wait for each other.
EndsOrStarves == <>(main = "end" \/ Starved)

\* The memory the entries take is what is counted and within the budget, and
\* each entry is counted once.
MemoryBounded == TypeOK /\ BudgetExact /\ BudgetHolds /\ OneEntryEach

\* No way out of do_create and no wait in it lasts, but the one that is named.
AllEnd == CancelEnds /\ EndsOrStarves

\* do_create returns.  Violated when the small items do not fit into the budget
\* together: the workers starve.
Ends == <>(main = "end")

\* The threads are reported dead only when one has left an item behind.
\* Violated: they leave because of a flag that is raised after take has looked
\* at it and before it counts them, and the user is told of an engine error.
DeathIsReal == outcome = "died" => lost # {}

=============================================================================
